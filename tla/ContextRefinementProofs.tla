---------------------- MODULE ContextRefinementProofs ----------------------
(***************************************************************************)
(* ThingsetContext implements SerialContext for any number of threads and  *)
(* objects: every call takes effect at one instant.                        *)
(*                                                                         *)
(* The instant is that of the step that returns.  What has to be known     *)
(* there is how the data have come to differ from what they were when the  *)
(* lock was taken, and where the values an export returns come from.       *)
(***************************************************************************)
EXTENDS ThingsetContextProofs

Account(t) ==
    /\ Holds(t) => \A o \in Objects :
          \/ data[o] = base[o]
          \/ /\ pc[t] # "setup" /\ Op(t) \in Writers
             /\ o \in Scope(t) /\ data[o] = call[t].vals[o]
    /\ pc[t] # "returned" => \A o \in Objects :
          seen[t][o] # NoValue => Op(t) \in Readers /\ o \in Scope(t)

AccountInv == \A t \in Threads : Account(t)

(***************************************************************************)
(* What a step of t may do, as far as the abstract specification goes:     *)
(* Call, Take, Leave, or one of these.                                     *)
(***************************************************************************)
Works(t) ==
    /\ Holds(t) /\ pc'[t] \in {"work", "open"} /\ call'[t] = call[t]
    /\ base' = base
    /\ \/ data' = data
       \/ /\ pc[t] = "work" /\ Op(t) \in Writers
          /\ \E o \in Scope(t) : data' = [data EXCEPT ![o] = call[t].vals[o]]
    /\ \/ seen'[t] = seen[t]
       \/ Op(t) \in Readers /\ Serialize(t)

Refused(t) ==
    /\ pc[t] \in {"take", "setup"}
    /\ Return(t, "refused")
    /\ UNCHANGED <<data, base>>

Finishes(t, ret) ==
    /\ pc[t] \in {"work", "open"}
    /\ Return(t, ret)
    /\ UNCHANGED <<data, base>>

LEMMA KindsOfStep ==
    ASSUME TypeInv, ContinuationKeepsLock, NEW t \in Threads, Step(t)
    PROVE  \/ Call(t) \/ Take(t) \/ Leave(t) \/ Works(t) \/ Refused(t)
           \/ \E ret \in {"ok", "error"} : Finishes(t, ret)
  <1>0. TypeOK
    BY DEF TypeInv
  <1>1. CASE RejectArguments(t) \/ TimeOut(t)
    BY <1>1 DEF RejectArguments, TimeOut, MayTake, Refused
  <1>2. CASE SetupStep(t)
    <2>1. /\ pc[t] = "setup" /\ UNCHANGED <<data, base>>
          /\ Proceed(t) \/ Return(t, "refused")
      BY <1>2, SetupStepForm
    <2> QED
      BY <1>0, <2>1 DEF TypeOK, Refused, Works, Holds, Proceed, Goto
  <1>3. CASE ReadObject(t) \/ DropObject(t) \/ ExportObject(t)
    BY <1>0, <1>3 DEF TypeOK, ReadObject, DropObject, ExportObject, Working, Works, Holds, Readers
  <1>4. CASE WriteObject(t) \/ ImportObject(t)
    BY <1>0, <1>4 DEF TypeOK, WriteObject, ImportObject, Importing, Working, Works, Holds, Writers
  <1>5. CASE \/ ExportChunkFull(t) \/ ImportStuck(t) \/ ImportSkip(t) \/ ImportSkipFails(t)
             \/ ImportChunkDone(t)
    BY <1>0, <1>5 DEF TypeOK, ExportChunkFull, ImportStuck, ImportSkip, ImportSkipFails,
       ImportChunkDone, Importing, Working, ReturnOpen, Goto, Works, Holds, ctx
  <1>6. CASE \/ ReadDone(t) \/ ReadFails(t) \/ WriteDone(t) \/ ExportFails(t)
             \/ ExportDone(t) \/ ImportFails(t) \/ ExportAbort(t) \/ ImportEnd(t)
    BY <1>6 DEF ReadDone, ReadFails, WriteDone, ExportFails, ExportDone, ImportFails,
       ExportAbort, ImportEnd, Importing, Working, GiveAndReturn, Finishes
  <1>7. CASE NextChunk(t)
    BY <1>0, <1>7 DEF TypeOK, NextChunk, ContinuationKeepsLock, Goto, Works, Holds, ctx
  <1> QED
    BY <1>1, <1>2, <1>3, <1>4, <1>5, <1>6, <1>7
    DEF Step, LockStep, SinglePassStep, ExportStep, ImportStep

-----------------------------------------------------------------------------
(* The account is kept. *)

LEMMA OthersKeepTheirAccounts ==
    ASSUME TypeInv, MutualExclusion, NEW s \in Threads, Step(s),
           NEW t \in Threads, t # s, Account(t)
    PROVE  Account(t)'
  <1>1. SameCall(t)
    BY OthersKeepTheirCalls
  <1>2. CASE Holds(t)
    <2>1. ~Holds(s) /\ lock # 1
      BY <1>2 DEF MutualExclusion
    <2>2. data' = data
      BY <2>1, OutsidersAreQuiet
    <2>3. Call(s) \/ RejectArguments(s) \/ TimeOut(s) \/ Leave(s)
      BY <2>1 DEF Holds, Step, SetupStep, ProcessMessage, ExportSubsets, ExportItem, ReportPath,
         ExportProgressively, ImportData, ImportReport, ImportRecord, ImportProgressively, Setup,
         SinglePassStep, ReadObject, DropObject, ReadDone, ReadFails, WriteObject, WriteDone,
         ExportStep, ExportObject, ExportChunkFull, ExportFails, ExportDone,
         ImportStep, ImportObject, ImportStuck, ImportSkip, ImportSkipFails, ImportFails,
         ImportChunkDone, Importing, Working, NextChunk, ExportAbort, ImportEnd, LockStep, Take
    <2>4. base' = base
      BY <2>3 DEF Call, RejectArguments, TimeOut, Leave
    <2> QED
      BY <1>1, <2>2, <2>4 DEF SameCall, Account, Holds, Op, Scope
  <1>3. CASE ~Holds(t)
    BY <1>1, <1>3 DEF SameCall, Account, Holds, Op, Scope
  <1> QED
    BY <1>2, <1>3

LEMMA OwnAccount ==
    ASSUME TypeInv, SnapshotInv, ContinuationKeepsLock, NEW t \in Threads, Step(t), Account(t)
    PROVE  Account(t)'
  <1>0. TypeOK /\ Snapshot(t)
    BY DEF TypeInv, SnapshotInv
  <1>1. CASE Call(t)
    <2>1. seen' = seen /\ seen[t] = NoView /\ pc'[t] = "take"
      BY <1>0, <1>1 DEF TypeOK, Call, Goto, Snapshot
    <2> QED
      BY <2>1 DEF Account, Holds, NoView
  <1>2. CASE Take(t)
    BY <1>0, <1>2 DEF TypeOK, Take, MayTake, Goto, Account, Holds, Op, Scope
  <1>3. CASE Leave(t)
    BY <1>0, <1>3 DEF TypeOK, Leave, Goto, Account, Holds, NoView
  <1>4. CASE Refused(t) \/ \E ret \in {"ok", "error"} : Finishes(t, ret)
    <2>1. pc'[t] = "returned"
      BY <1>0, <1>4 DEF TypeOK, Refused, Finishes, Return, Goto
    <2> QED
      BY <2>1 DEF Account, Holds
  <1>5. CASE Works(t)
    <2>1. Op(t)' = Op(t) /\ Scope(t)' = Scope(t) /\ call'[t] = call[t] /\ Holds(t)
          /\ pc'[t] \in {"work", "open"} /\ pc[t] # "returned" /\ base' = base
      BY <1>5 DEF Works, Op, Scope, Holds
    <2>2. \A o \in Objects :
             \/ data'[o] = base[o]
             \/ Op(t) \in Writers /\ o \in Scope(t) /\ data'[o] = call[t].vals[o]
      BY <1>0, <1>5, <2>1 DEF TypeOK, Works, Account
    <2>3. \A o \in Objects : seen'[t][o] # NoValue => Op(t) \in Readers /\ o \in Scope(t)
      BY <1>0, <1>5, <2>1 DEF TypeOK, Works, Account, Serialize
    <2> QED
      BY <2>1, <2>2, <2>3 DEF Account
  <1> QED
    BY <1>1, <1>2, <1>3, <1>4, <1>5, KindsOfStep

LEMMA AccountStep ==
    TypeInv /\ MutualExclusion /\ SnapshotInv /\ ContinuationKeepsLock /\ AccountInv
        /\ [Next]_vars => AccountInv'
  <1> SUFFICES ASSUME TypeInv, MutualExclusion, SnapshotInv, ContinuationKeepsLock, AccountInv,
                      [Next]_vars, NEW t \in Threads
               PROVE  Account(t)'
    BY DEF AccountInv
  <1>1. CASE UNCHANGED vars
    BY <1>1 DEF AccountInv, Account, Holds, Op, Scope, vars
  <1>2. ASSUME NEW s \in Threads, Step(s), s # t PROVE Account(t)'
    BY <1>2, OthersKeepTheirAccounts DEF AccountInv
  <1>3. CASE Step(t)
    BY <1>3, OwnAccount DEF AccountInv
  <1> QED
    BY <1>1, <1>2, <1>3, NextIsStep

-----------------------------------------------------------------------------
(* The abstract database, and the abstract state of the other threads. *)

LEMMA OthersKeepTheirPlaces ==
    ASSUME TypeInv, NEW t \in Threads, Step(t)
    PROVE  /\ AbstractPhase' = [AbstractPhase EXCEPT ![t] = AbstractPhase'[t]]
           /\ AbstractReq' = [AbstractReq EXCEPT ![t] = AbstractReq'[t]]
           /\ AbstractRes' = [AbstractRes EXCEPT ![t] = AbstractRes'[t]]
  <1>1. \A s \in Threads : s # t => SameCall(s)
    BY OthersKeepTheirCalls
  <1>2. \A s \in Threads : s # t => /\ AbstractPhase'[s] = AbstractPhase[s]
                                    /\ AbstractReq'[s] = AbstractReq[s]
                                    /\ AbstractRes'[s] = AbstractRes[s]
    BY <1>1 DEF SameCall, AbstractPhase, AbstractReq, AbstractRes, Op, Scope
  <1>3. AbstractPhase' = [AbstractPhase EXCEPT ![t] = AbstractPhase'[t]]
    BY <1>2 DEF AbstractPhase
  <1>4. AbstractReq' = [AbstractReq EXCEPT ![t] = AbstractReq'[t]]
    BY <1>2 DEF AbstractReq
  <1>5. AbstractRes' = [AbstractRes EXCEPT ![t] = AbstractRes'[t]]
    BY <1>2 DEF AbstractRes
  <1> QED
    BY <1>3, <1>4, <1>5

(* While t is inside nobody else is. *)
LEMMA DatabaseInside ==
    ASSUME MutualExclusion, NEW t \in Threads, Holds(t)
    PROVE  AbstractDb = IF Op(t) \in Writers THEN base ELSE data
  BY DEF MutualExclusion, AbstractDb

LEMMA DatabaseOutside ==
    ASSUME \A s \in Threads : ~Holds(s) PROVE AbstractDb = data
  BY DEF AbstractDb

LEMMA DatabaseReturned ==
    ASSUME TypeInv, MutualExclusion, NEW t \in Threads, Step(t), Holds(t), ~Holds(t)'
    PROVE  AbstractDb' = data'
  <1>1. \A s \in Threads : s # t => SameCall(s)
    BY OthersKeepTheirCalls
  <1>2. \A s \in Threads : ~Holds(s)'
    BY <1>1 DEF SameCall, Holds, MutualExclusion
  <1> QED
    BY <1>2 DEF AbstractDb

LEMMA DatabaseElsewhere ==
    ASSUME TypeInv, NEW t \in Threads, Step(t), ~Holds(t), ~Holds(t)', UNCHANGED <<data, base>>
    PROVE  AbstractDb' = AbstractDb
  <1>1. \A s \in Threads : s # t => SameCall(s)
    BY OthersKeepTheirCalls
  <1>2. \A s \in Threads : (Holds(s) /\ Op(s) \in Writers)' <=> Holds(s) /\ Op(s) \in Writers
    BY <1>1 DEF SameCall, Holds, Op
  <1> QED
    BY <1>2 DEF AbstractDb

-----------------------------------------------------------------------------
(* Every step is one of the abstract specification or leaves its state as *)
(* it is.                                                                  *)

LEMMA CallInvokes ==
    ASSUME TypeInv, NEW t \in Threads, Step(t), Call(t) PROVE Serial!Invoke(t)
  <1>0. TypeOK
    BY DEF TypeInv
  <1>1. pc[t] = "idle" /\ pc'[t] = "take" /\ UNCHANGED <<data, base>>
    BY <1>0 DEF TypeOK, Call, Goto
  <1>2. AbstractDb' = AbstractDb
    BY <1>1, DatabaseElsewhere DEF Holds
  <1>3. AbstractPhase[t] = "idle" /\ AbstractPhase'[t] = "called"
    BY <1>1 DEF AbstractPhase
  <1>4. AbstractRes'[t] = AbstractRes[t]
    BY <1>1 DEF AbstractRes
  <1>5. AbstractReq'[t] \in Serial!Requests
    <2>1. PICK c \in Calls : LegalCall(c) /\ call' = [call EXCEPT ![t] = c]
      BY DEF Call
    <2>2. call'[t] = c
      BY <1>0, <2>1 DEF TypeOK
    <2>3. c.scope \in Scopes /\ c.vals \in [Objects -> Values]
      BY <2>1 DEF LegalCall, Calls
    <2> QED
      BY <2>2, <2>3 DEF AbstractReq, Serial!Requests, Kind, Op, Scope
  <1>6. AbstractRes' = AbstractRes
    BY <1>4, OthersKeepTheirPlaces DEF AbstractRes
  <1> QED
    BY <1>2, <1>3, <1>5, <1>6, OthersKeepTheirPlaces DEF Serial!Invoke

LEMMA LeaveResponds ==
    ASSUME TypeInv, NEW t \in Threads, Step(t), Leave(t) PROVE Serial!Respond(t)
  <1>0. TypeOK
    BY DEF TypeInv
  <1>1. pc[t] = "returned" /\ pc'[t] = "idle" /\ UNCHANGED <<data, base, call>>
    BY <1>0 DEF TypeOK, Leave, Goto
  <1>2. AbstractDb' = AbstractDb
    BY <1>1, DatabaseElsewhere DEF Holds
  <1>3. AbstractPhase[t] = "done" /\ AbstractPhase'[t] = "idle"
    BY <1>1 DEF AbstractPhase
  <1>4. AbstractRes'[t] = Serial!Answer("none", Serial!NoView)
    BY <1>1 DEF AbstractRes, Serial!Answer, Serial!NoView, NoView
  <1>5. AbstractReq' = AbstractReq
    BY <1>1 DEF AbstractReq, Op, Scope
  <1> QED
    BY <1>2, <1>3, <1>4, <1>5, OthersKeepTheirPlaces DEF Serial!Respond

(* A thread that is not idle or through before and after a step, with the *)
(* same call, is where it was.                                             *)
LEMMA QuietStep ==
    ASSUME TypeInv, NEW t \in Threads, Step(t), AbstractDb' = AbstractDb,
           call'[t] = call[t], pc[t] \notin {"idle", "returned"},
           pc'[t] \notin {"idle", "returned"}
    PROVE  UNCHANGED Serial!vars
  <1>1. AbstractPhase'[t] = AbstractPhase[t]
    BY DEF AbstractPhase
  <1>2. AbstractReq'[t] = AbstractReq[t]
    BY DEF AbstractReq, Op, Scope
  <1>3. AbstractRes'[t] = AbstractRes[t]
    BY DEF AbstractRes
  <1>4. AbstractPhase' = AbstractPhase
    BY <1>1, OthersKeepTheirPlaces DEF AbstractPhase
  <1>5. AbstractReq' = AbstractReq
    BY <1>2, OthersKeepTheirPlaces DEF AbstractReq
  <1>6. AbstractRes' = AbstractRes
    BY <1>3, OthersKeepTheirPlaces DEF AbstractRes
  <1> QED
    BY <1>4, <1>5, <1>6 DEF Serial!vars

LEMMA TakeIsQuiet ==
    ASSUME TypeInv, MutualExclusion, MutualExclusion', NEW t \in Threads, Step(t), Take(t)
    PROVE  UNCHANGED Serial!vars
  <1>0. TypeOK
    BY DEF TypeInv
  <1>1. /\ pc[t] = "take" /\ pc'[t] = "setup" /\ lock = 1 /\ call'[t] = call[t]
        /\ base' = data /\ data' = data
    BY <1>0 DEF TypeOK, Take, MayTake, Goto
  <1>2. AbstractDb = data
    BY <1>1, DatabaseOutside DEF MutualExclusion
  <1>3. AbstractDb' = data
    BY <1>1 DEF AbstractDb
  <1> QED
    BY <1>1, <1>2, <1>3, QuietStep

LEMMA WorkIsQuiet ==
    ASSUME TypeInv, MutualExclusion, MutualExclusion', NEW t \in Threads, Step(t), Works(t)
    PROVE  UNCHANGED Serial!vars
  <1>1. /\ Holds(t) /\ Holds(t)' /\ call'[t] = call[t] /\ Op(t)' = Op(t)
        /\ base' = base /\ (Op(t) \notin Writers => data' = data)
        /\ pc[t] \notin {"idle", "returned"} /\ pc'[t] \notin {"idle", "returned"}
    BY DEF Works, Holds, Op
  <1>2. AbstractDb = IF Op(t) \in Writers THEN base ELSE data
    BY <1>1, DatabaseInside
  <1>3. AbstractDb' = IF Op(t)' \in Writers THEN base' ELSE data'
    BY <1>1 DEF MutualExclusion, AbstractDb
  <1>4. AbstractDb' = AbstractDb
    BY <1>1, <1>2, <1>3
  <1> QED
    BY <1>1, <1>4, QuietStep

(* What a step that returns leaves in the abstract state. *)
LEMMA ReturnCompletes ==
    ASSUME TypeInv, NEW t \in Threads, Step(t), NEW ret, Return(t, ret),
           pc[t] \in {"take", "setup", "work", "open"}
    PROVE  Serial!Complete(t, Serial!Answer(ret, seen'[t]))
  <1>0. TypeOK
    BY DEF TypeInv
  <1>1. pc'[t] = "returned" /\ status'[t] = ret /\ call'[t] = NoCall
    BY <1>0 DEF TypeOK, Return, Goto
  <1>2. AbstractPhase[t] = "called" /\ AbstractPhase'[t] = "done"
    BY <1>1 DEF AbstractPhase
  <1>3. AbstractReq'[t] = Serial!NoRequest
    BY <1>1 DEF AbstractReq, Serial!NoRequest, NoCall, Op, Scope, Kind, Writers,
                SinglePassWriters
  <1>4. AbstractRes'[t] = Serial!Answer(ret, seen'[t])
    BY <1>1 DEF AbstractRes, Serial!Answer
  <1> QED
    BY <1>2, <1>3, <1>4, OthersKeepTheirPlaces DEF Serial!Complete

LEMMA RefusedRefuses ==
    ASSUME TypeInv, MutualExclusion, AccountInv, NEW t \in Threads, Step(t), Refused(t)
    PROVE  Serial!Refuse(t)
  <1>0. TypeOK
    BY DEF TypeInv
  <1>1. /\ pc[t] \in {"take", "setup"} /\ Return(t, "refused") /\ UNCHANGED <<data, base>>
        /\ pc'[t] = "returned" /\ seen'[t] = NoView
    BY <1>0 DEF TypeOK, Refused, Return, Goto
  <1>2. AbstractDb' = AbstractDb
    <2>1. CASE pc[t] = "take"
      BY <1>1, <2>1, DatabaseElsewhere DEF Holds
    <2>2. CASE pc[t] = "setup"
      <3>1. Holds(t) /\ ~Holds(t)'
        BY <1>1, <2>2 DEF Holds
      <3>2. \A o \in Objects : data[o] = base[o]
        BY <2>2, <3>1 DEF AccountInv, Account
      <3>3. data = base
        BY <1>0, <3>2 DEF TypeOK
      <3> QED
        BY <1>1, <3>1, <3>3, DatabaseInside, DatabaseReturned
    <2> QED
      BY <1>1, <2>1, <2>2
  <1>3. Serial!Complete(t, Serial!Answer("refused", seen'[t]))
    BY <1>1, ReturnCompletes
  <1> QED
    BY <1>1, <1>2, <1>3 DEF Serial!Refuse, Serial!NoView, NoView

LEMMA ReaderReads ==
    ASSUME TypeInv, MutualExclusion, SnapshotInv, AccountInv, NEW t \in Threads, Step(t),
           NEW ret \in {"ok", "error"}, Finishes(t, ret), Op(t) \notin Writers
    PROVE  Serial!Read(t) \/ Serial!ReadFails(t)
  <1>0. TypeOK
    BY DEF TypeInv
  <1>1. /\ Holds(t) /\ pc'[t] = "returned" /\ ~Holds(t)' /\ UNCHANGED <<data, base>>
        /\ seen'[t] = IF ret = "ok" THEN seen[t] ELSE NoView
        /\ Return(t, ret) /\ pc[t] \in {"take", "setup", "work", "open"}
        /\ pc[t] # "returned"
    BY <1>0 DEF TypeOK, Finishes, Return, Goto, Holds
  <1>2. AbstractDb = data /\ AbstractDb' = AbstractDb
    BY <1>1, DatabaseInside, DatabaseReturned
  <1>3. /\ AbstractReq[t].kind = "read" /\ AbstractReq[t].scope = Scope(t)
    BY DEF AbstractReq, Kind
  <1>4. Serial!Complete(t, Serial!Answer(ret, seen'[t]))
    BY <1>1, ReturnCompletes
  <1>5. CASE ret = "ok"
    <2> DEFINE got == {o \in Objects : seen[t][o] # NoValue}
    <2>1. Op(t) \in Readers
      BY <1>0 DEF TypeOK, Calls, AllOps, Op
    <2>2. \A o \in Objects : seen[t][o] = IF o \in got THEN data[o] ELSE NoValue
      BY <1>1, <2>1 DEF SnapshotInv, Snapshot
    <2>3. got \in SUBSET Scope(t)
      BY <1>1 DEF AccountInv, Account
    <2>4. seen[t] \in [Objects -> Values \cup {NoValue}]
      BY <1>0 DEF TypeOK
    <2>5. seen'[t] = Serial!ViewOf(got)
      BY <1>1, <1>2, <1>5, <2>2, <2>4 DEF Serial!ViewOf
    <2> QED
      BY <1>2, <1>3, <1>4, <1>5, <2>3, <2>5 DEF Serial!Read
  <1>6. CASE ret = "error"
    BY <1>1, <1>2, <1>3, <1>4, <1>6 DEF Serial!ReadFails, Serial!NoView, NoView
  <1> QED
    BY <1>5, <1>6

LEMMA WriterWrites ==
    ASSUME TypeInv, MutualExclusion, AccountInv, NEW t \in Threads, Step(t),
           NEW ret \in {"ok", "error"}, Finishes(t, ret), Op(t) \in Writers
    PROVE  Serial!Write(t)
  <1>0. TypeOK
    BY DEF TypeInv
  <1>1. /\ Holds(t) /\ pc'[t] = "returned" /\ ~Holds(t)' /\ UNCHANGED <<data, base>>
        /\ seen'[t] \in {seen[t], NoView}
        /\ Return(t, ret) /\ pc[t] \in {"take", "setup", "work", "open"}
        /\ pc[t] # "returned"
    BY <1>0 DEF TypeOK, Finishes, Return, Goto, Holds
  <1>2. AbstractDb = base /\ AbstractDb' = data
    BY <1>1, DatabaseInside, DatabaseReturned
  <1>3. /\ AbstractReq[t].kind = "write" /\ AbstractReq[t].scope = Scope(t)
        /\ AbstractReq[t].vals = call[t].vals
    BY DEF AbstractReq, Kind
  <1>4. Serial!Complete(t, Serial!Answer(ret, seen'[t]))
    BY <1>1, ReturnCompletes
  <1>5. seen'[t] = Serial!NoView
    <2>1. Op(t) \notin Readers
      BY DEF Readers, Writers, SinglePassReaders, SinglePassWriters
    <2>2. \A o \in Objects : seen[t][o] = NoValue
      BY <1>1, <2>1 DEF AccountInv, Account
    <2>3. seen[t] \in [Objects -> Values \cup {NoValue}]
      BY <1>0 DEF TypeOK
    <2> QED
      BY <1>1, <2>2, <2>3 DEF NoView, Serial!NoView
  <1>6. \E written \in SUBSET Scope(t) :
            data = [o \in Objects |-> IF o \in written THEN call[t].vals[o] ELSE base[o]]
    <2> DEFINE written == {o \in Objects : data[o] # base[o]}
    <2>1. /\ written \in SUBSET Scope(t)
          /\ \A o \in written : data[o] = call[t].vals[o]
      BY <1>1 DEF AccountInv, Account
    <2>2. data \in [Objects -> Values]
      BY <1>0 DEF TypeOK
    <2>3. data = [o \in Objects |-> IF o \in written THEN call[t].vals[o] ELSE base[o]]
      BY <2>1, <2>2
    <2> QED
      BY <2>1, <2>3
  <1> QED
    BY <1>2, <1>3, <1>4, <1>5, <1>6 DEF Serial!Write

-----------------------------------------------------------------------------
LEMMA StepIsSerial ==
    TypeInv /\ MutualExclusion /\ MutualExclusion' /\ SnapshotInv /\ ContinuationKeepsLock
        /\ AccountInv /\ [Next]_vars => [Serial!Next]_(Serial!vars)
  <1> SUFFICES ASSUME TypeInv, MutualExclusion, MutualExclusion', SnapshotInv,
                      ContinuationKeepsLock, AccountInv, [Next]_vars
               PROVE  [Serial!Next]_(Serial!vars)
    OBVIOUS
  <1>1. CASE UNCHANGED vars
    BY <1>1 DEF vars, Serial!vars, AbstractDb, AbstractPhase, AbstractReq, AbstractRes, Holds,
                Op, Scope
  <1>2. ASSUME NEW t \in Threads, Step(t) PROVE [Serial!Next]_(Serial!vars)
    <2>1. CASE Call(t)
      BY <1>2, <2>1, CallInvokes DEF Serial!Next
    <2>2. CASE Take(t)
      BY <1>2, <2>2, TakeIsQuiet
    <2>3. CASE Leave(t)
      BY <1>2, <2>3, LeaveResponds DEF Serial!Next
    <2>4. CASE Works(t)
      BY <1>2, <2>4, WorkIsQuiet
    <2>5. CASE Refused(t)
      BY <1>2, <2>5, RefusedRefuses DEF Serial!Next
    <2>6. ASSUME NEW ret \in {"ok", "error"}, Finishes(t, ret)
          PROVE  [Serial!Next]_(Serial!vars)
      <3>1. CASE Op(t) \in Writers
        BY <1>2, <2>6, <3>1, WriterWrites DEF Serial!Next
      <3>2. CASE Op(t) \notin Writers
        BY <1>2, <2>6, <3>2, ReaderReads DEF Serial!Next
      <3> QED
        BY <3>1, <3>2
    <2> QED
      BY <1>2, <2>1, <2>2, <2>3, <2>4, <2>5, <2>6, KindsOfStep
  <1> QED
    BY <1>1, <1>2, NextIsStep

LEMMA InitIsSerial == Init => Serial!Init
  <1> SUFFICES ASSUME Init PROVE Serial!Init
    OBVIOUS
  <1>1. AbstractDb = InitData
    BY DEF Init, AbstractDb, Holds
  <1>2. AbstractPhase = [t \in Threads |-> "idle"]
    BY DEF Init, AbstractPhase
  <1>3. AbstractReq = [t \in Threads |-> Serial!NoRequest]
    BY DEF Init, AbstractReq, Serial!NoRequest, NoCall, Op, Scope, Kind, Writers,
           SinglePassWriters
  <1>4. AbstractRes = [t \in Threads |-> Serial!Answer("none", Serial!NoView)]
    BY DEF Init, AbstractRes, Serial!Answer, Serial!NoView, NoView
  <1> QED
    BY <1>1, <1>2, <1>3, <1>4 DEF Serial!Init

(* With careful callers every behaviour of the context is one in which     *)
(* each call takes effect at a single instant, sessions over many calls    *)
(* included: the lock, the chunks and the timeouts are invisible.          *)
THEOREM ContextIsSerial ==
    ASSUME CarefulCallers
    PROVE  Spec => CallsAreAtomic
  <1>1. Init => AccountInv
    BY DEF Init, AccountInv, Account, Holds, NoView
  <1>2. Spec => [](TypeInv /\ MutualExclusion /\ SnapshotInv)
    BY SnapshotInvariance
  <1>3. Spec => []ContinuationKeepsLock
    BY SessionsContinue, PTL
  <1>4. Spec => []AccountInv
    BY <1>1, <1>2, <1>3, AccountStep, PTL DEF Spec
  <1>5. Spec => Serial!Init /\ [][Serial!Next]_(Serial!vars)
    BY <1>2, <1>3, <1>4, InitIsSerial, StepIsSerial, PTL DEF Spec
  <1> QED
    BY <1>5 DEF CallsAreAtomic, Serial!Spec
=============================================================================
