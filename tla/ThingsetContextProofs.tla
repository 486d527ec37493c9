----------------------- MODULE ThingsetContextProofs -----------------------
(***************************************************************************)
(* What TLC checks of ThingsetContext on two threads and two or three      *)
(* objects, proved for any number of both.                                 *)
(***************************************************************************)
EXTENDS ThingsetContext, TLAPS

(* What Return leaves behind has the right type. *)
LEMMA ReturnType ==
    ASSUME TypeOK, NEW t \in Threads, NEW ret \in Statuses, Return(t, ret)
    PROVE  /\ pc' \in [Threads -> Positions]
           /\ status' \in [Threads -> Statuses]
           /\ seen' \in [Threads -> [Objects -> Values \cup {NoValue}]]
           /\ call' \in [Threads -> Calls]
           /\ buf' \in [Threads -> Bufs \cup {NoBuf}]
           /\ index' \in [Threads -> 0 .. NumObjects]
           /\ lastId' \in [Threads -> Ids]
           /\ progress' \in [Threads -> {"nothing", "id", "value"}]
  <1>1. NoCall \in Calls
    BY ConstantsAssumption DEF NoCall, Calls, AllOps, Readers, SinglePassReaders
  <1>2. NoView \in [Objects -> Values \cup {NoValue}]
    BY DEF NoView
  <1>3. 0 \in 0 .. NumObjects /\ 0 \in Ids
    BY ConstantsAssumption DEF Ids
  <1> QED
    BY <1>1, <1>2, <1>3 DEF TypeOK, Return, Goto, Positions

(* What Serialize leaves behind has the right type. *)
LEMMA SerializeType ==
    ASSUME TypeOK, NEW t \in Threads, Serialize(t)
    PROVE  /\ seen' \in [Threads -> [Objects -> Values \cup {NoValue}]]
           /\ index' \in [Threads -> 0 .. NumObjects]
           /\ rspPos' \in BOOLEAN
  <1>1. NumObjects \in Nat /\ index[t] \in 0 .. NumObjects /\ index[t] < NumObjects
    BY ConstantsAssumption DEF TypeOK, Serialize
  <1>2. Object(t) \in Objects /\ index[t] + 1 \in 0 .. NumObjects
    BY <1>1 DEF Object, Objects
  <1>3. data[Object(t)] \in Values
    BY <1>2 DEF TypeOK
  <1> QED
    BY <1>1, <1>2, <1>3 DEF TypeOK, Serialize

(* A call has a buffer as long as it lasts: with it the types are          *)
(* inductive.                                                              *)
BufferKnown == \A t \in Threads : pc[t] \notin {"idle", "returned"} => buf[t] \in Bufs

TypeInv == TypeOK /\ BufferKnown

LEMMA InitType == Init => TypeInv
  <1> SUFFICES ASSUME Init PROVE TypeInv
    OBVIOUS
  <1>1. NoCall \in Calls
    BY ConstantsAssumption DEF NoCall, Calls, AllOps, Readers, SinglePassReaders
  <1>2. NoView \in [Objects -> Values \cup {NoValue}]
    BY DEF NoView
  <1>3. 0 \in 0 .. NumObjects /\ 0 \in Ids /\ NoBuf \in Pointers
    BY ConstantsAssumption DEF Ids, Pointers
  <1>4. TypeOK
    BY <1>1, <1>2, <1>3, ConstantsAssumption DEF Init, TypeOK, Positions, Statuses
  <1> QED
    BY <1>4 DEF Init, TypeInv, BufferKnown

LEMMA CallType ==
    ASSUME TypeInv, NEW t \in Threads, Call(t) PROVE TypeInv'
  BY DEF TypeInv, BufferKnown, TypeOK, Call, Goto, Positions, ctx, cursors

LEMMA LockStepType ==
    ASSUME TypeInv, NEW t \in Threads, LockStep(t) PROVE TypeInv'
  <1>1. CASE RejectArguments(t)
    <2>1. Return(t, "refused") /\ UNCHANGED <<lock, ctx, data, base>>
      BY <1>1 DEF RejectArguments
    <2> QED
      BY <2>1, ReturnType DEF TypeInv, BufferKnown, TypeOK, ctx, Statuses, Return, Goto
  <1>2. CASE Take(t)
    BY <1>2 DEF TypeInv, BufferKnown, TypeOK, Take, MayTake, Goto, Positions, ctx, cursors
  <1>3. CASE TimeOut(t)
    <2>1. Return(t, "refused") /\ UNCHANGED <<lock, ctx, data, base>>
      BY <1>3 DEF TimeOut
    <2> QED
      BY <2>1, ReturnType DEF TypeInv, BufferKnown, TypeOK, ctx, Statuses, Return, Goto
  <1> QED
    BY <1>1, <1>2, <1>3 DEF LockStep

(* Every setup step points the context at the buffers of its call and      *)
(* goes on to work or returns.                                             *)
LEMMA SetupStepForm ==
    ASSUME TypeInv, NEW t \in Threads, SetupStep(t)
    PROVE  /\ pc[t] = "setup"
           /\ msg' \in {msg, <<t, buf[t]>>}
           /\ rsp' \in {<<t, buf[t]>>, NoBuf}
           /\ rspPos' = FALSE
           /\ UNCHANGED <<data, base>>
           /\ lock' \in {lock, 1}
           /\ \/ Proceed(t)
              \/ Return(t, "refused")
  BY DEF SetupStep, ProcessMessage, ExportSubsets, ExportItem, ReportPath,
         ExportProgressively, ImportData, ImportReport, ImportRecord, ImportProgressively,
         Setup, PointMsgAt, PointRspAt, ClearRsp, ProceedOrGive, Proceed, GiveAndReturn, Give

LEMMA SetupStepType ==
    ASSUME TypeInv, NEW t \in Threads, SetupStep(t) PROVE TypeInv'
  <1>1. /\ pc[t] = "setup"
        /\ msg' \in {msg, <<t, buf[t]>>}
        /\ rsp' \in {<<t, buf[t]>>, NoBuf}
        /\ rspPos' = FALSE
        /\ UNCHANGED <<data, base>>
        /\ lock' \in {lock, 1}
        /\ Proceed(t) \/ Return(t, "refused")
    BY SetupStepForm
  <1>2. buf[t] \in Bufs
    BY <1>1 DEF TypeInv, BufferKnown
  <1>3. msg' \in Pointers /\ rsp' \in Pointers /\ lock' \in {0, 1}
    BY <1>1, <1>2 DEF TypeInv, TypeOK, Pointers
  <1>4. CASE Proceed(t)
    BY <1>1, <1>3, <1>4 DEF TypeInv, BufferKnown, TypeOK, Proceed, Goto, Positions, cursors
  <1>5. CASE Return(t, "refused")
    <2>1. TypeOK'
      BY <1>1, <1>3, <1>5, ReturnType DEF TypeInv, TypeOK, Statuses
    <2>2. BufferKnown'
      BY <1>5 DEF TypeInv, BufferKnown, TypeOK, Return, Goto
    <2> QED BY <2>1, <2>2 DEF TypeInv
  <1> QED
    BY <1>1, <1>4, <1>5

(* What a step that gives the lock back and returns leaves behind.         *)
LEMMA GiveAndReturnType ==
    ASSUME TypeInv, NEW t \in Threads, NEW ret \in Statuses, GiveAndReturn(t, ret),
           UNCHANGED <<ctx, data, base>>
    PROVE  TypeInv'
  <1>1. Return(t, ret) /\ lock' = 1 /\ UNCHANGED <<msg, rsp, rspPos, data, base>>
    BY DEF GiveAndReturn, Give, ctx
  <1>2. TypeOK'
    BY <1>1, ReturnType DEF TypeInv, TypeOK
  <1>3. BufferKnown'
    BY <1>1 DEF TypeInv, BufferKnown, TypeOK, Return, Goto
  <1> QED
    BY <1>2, <1>3 DEF TypeInv

LEMMA SinglePassStepType ==
    ASSUME TypeInv, NEW t \in Threads, SinglePassStep(t) PROVE TypeInv'
  <1>1. CASE ReadObject(t)
    BY <1>1, SerializeType DEF TypeInv, BufferKnown, TypeOK, ReadObject
  <1>2. CASE DropObject(t)
    <2>1. NumObjects \in Nat /\ index[t] \in 0 .. NumObjects /\ index[t] < NumObjects
      BY <1>2, ConstantsAssumption DEF TypeInv, TypeOK, DropObject
    <2>2. index[t] + 1 \in 0 .. NumObjects
      BY <2>1
    <2> QED
      BY <1>2, <2>2 DEF TypeInv, BufferKnown, TypeOK, DropObject, ctx
  <1>3. CASE ReadDone(t)
    BY <1>3, GiveAndReturnType DEF ReadDone, Statuses
  <1>4. CASE ReadFails(t)
    BY <1>4, GiveAndReturnType DEF ReadFails, Statuses
  <1>5. CASE WriteObject(t)
    <2>1. call[t].vals \in [Objects -> Values] /\ Scope(t) \subseteq Objects
      BY DEF TypeInv, TypeOK, Calls, Scope
    <2>2. data' \in [Objects -> Values]
      BY <1>5, <2>1 DEF TypeInv, TypeOK, WriteObject
    <2> QED
      BY <1>5, <2>2 DEF TypeInv, BufferKnown, TypeOK, WriteObject, ctx, cursors
  <1>6. CASE WriteDone(t)
    BY <1>6, GiveAndReturnType DEF WriteDone, Statuses
  <1> QED
    BY <1>1, <1>2, <1>3, <1>4, <1>5, <1>6 DEF SinglePassStep

LEMMA ExportStepType ==
    ASSUME TypeInv, NEW t \in Threads, ExportStep(t) PROVE TypeInv'
  <1>1. CASE ExportObject(t)
    BY <1>1, SerializeType DEF TypeInv, BufferKnown, TypeOK, ExportObject
  <1>2. CASE ExportChunkFull(t)
    BY <1>2 DEF TypeInv, BufferKnown, TypeOK, ExportChunkFull, ReturnOpen, Working, Goto,
                Positions, Statuses, cursors
  <1>3. CASE ExportFails(t)
    BY <1>3, GiveAndReturnType DEF ExportFails, Statuses
  <1>4. CASE ExportDone(t)
    BY <1>4, GiveAndReturnType DEF ExportDone, Statuses
  <1> QED
    BY <1>1, <1>2, <1>3, <1>4 DEF ExportStep

LEMMA ImportStepType ==
    ASSUME TypeInv, NEW t \in Threads, ImportStep(t) PROVE TypeInv'
  <1>1. Scope(t) \subseteq Objects /\ Objects \subseteq Ids /\ Ignored(t) \subseteq Ids
    BY DEF TypeInv, TypeOK, Calls, Scope, Ids, Ignored
  <1>2. call[t].vals \in [Objects -> Values]
    BY DEF TypeInv, TypeOK, Calls
  <1>3. CASE ImportObject(t)
    <2>1. data' \in [Objects -> Values]
      BY <1>1, <1>2, <1>3 DEF TypeInv, TypeOK, ImportObject
    <2> QED
      BY <1>1, <1>3, <2>1
      DEF TypeInv, BufferKnown, TypeOK, ImportObject, GotTo, ctx
  <1>4. CASE ImportStuck(t)
    BY <1>1, <1>4 DEF TypeInv, BufferKnown, TypeOK, ImportStuck, ReturnOpen, Importing,
                      Working, Goto, Positions, Statuses, ctx
  <1>5. CASE ImportSkip(t)
    BY <1>1, <1>5 DEF TypeInv, BufferKnown, TypeOK, ImportSkip, GotTo, ctx
  <1>6. CASE ImportSkipFails(t)
    BY <1>1, <1>6 DEF TypeInv, BufferKnown, TypeOK, ImportSkipFails, GotTo, ctx
  <1>7. CASE ImportFails(t)
    BY <1>7, GiveAndReturnType DEF ImportFails, Statuses
  <1>8. CASE ImportChunkDone(t)
    BY <1>8 DEF TypeInv, BufferKnown, TypeOK, ImportChunkDone, ReturnOpen, Importing,
                Working, Goto, Positions, Statuses, ctx, cursors
  <1> QED
    BY <1>3, <1>4, <1>5, <1>6, <1>7, <1>8 DEF ImportStep

LEMMA SessionStepType ==
    ASSUME TypeInv, NEW t \in Threads,
           NextChunk(t) \/ ExportAbort(t) \/ ImportEnd(t) \/ Leave(t)
    PROVE  TypeInv'
  <1>1. CASE NextChunk(t)
    BY <1>1 DEF TypeInv, BufferKnown, TypeOK, NextChunk, Goto, Positions, ctx
  <1>2. CASE ExportAbort(t)
    BY <1>2, GiveAndReturnType DEF ExportAbort, Statuses
  <1>3. CASE ImportEnd(t)
    BY <1>3, GiveAndReturnType DEF ImportEnd, Statuses
  <1>4. CASE Leave(t)
    <2>1. NoView \in [Objects -> Values \cup {NoValue}]
      BY DEF NoView
    <2> QED
      BY <1>4, <2>1 DEF TypeInv, BufferKnown, TypeOK, Leave, Goto, Positions, Statuses,
                        ctx, cursors
  <1> QED
    BY <1>1, <1>2, <1>3, <1>4

LEMMA TypeStep == TypeInv /\ [Next]_vars => TypeInv'
  <1> SUFFICES ASSUME TypeInv, [Next]_vars PROVE TypeInv'
    OBVIOUS
  <1>1. CASE UNCHANGED vars
    BY <1>1 DEF TypeInv, BufferKnown, TypeOK, vars
  <1>2. CASE Next
    BY <1>2, CallType, LockStepType, SetupStepType, SinglePassStepType, ExportStepType,
       ImportStepType, SessionStepType DEF Next
  <1> QED
    BY <1>1, <1>2

LEMMA TypeInvariance == Spec => []TypeInv
  BY InitType, TypeStep, PTL DEF Spec

(* The context, the objects and the callers' cursors keep their types.     *)
THEOREM TypeCorrect == Spec => []TypeOK
  <1>1. TypeInv => TypeOK
    BY DEF TypeInv
  <1> QED
    BY <1>1, TypeInvariance, PTL

-----------------------------------------------------------------------------
(***************************************************************************)
(* Mutual exclusion.  What matters of a step of thread t is how it moves   *)
(* the semaphore and whether t is inside before and after it: it enters    *)
(* only by taking the lock, gives it only from inside and leaves as it     *)
(* does so, or stays where it is.                                          *)
(***************************************************************************)
Enters(t) == lock = 1 /\ lock' = 0 /\ pc[t] = "take" /\ pc'[t] = "setup"
Stays(t) == lock' = lock /\ (pc'[t] \in {"setup", "work", "open"} => Holds(t))
Gives(t) == Holds(t) /\ lock' = 1 /\ pc'[t] = "returned"

Moves(t) == /\ \A s \in Threads : s # t => pc'[s] = pc[s]
            /\ Enters(t) \/ Stays(t) \/ Gives(t)

LEMMA StepMoves ==
    ASSUME TypeInv, NEW t \in Threads,
           \/ Call(t) \/ LockStep(t) \/ SetupStep(t)
           \/ SinglePassStep(t) \/ ExportStep(t) \/ ImportStep(t)
           \/ NextChunk(t) \/ ExportAbort(t) \/ ImportEnd(t)
           \/ Leave(t)
    PROVE  Moves(t)
  <1> USE DEF Moves, Enters, Stays, Gives, Holds, Goto
  <1>0. pc \in [Threads -> Positions]
    BY DEF TypeInv, TypeOK
  <1>1. CASE Call(t) \/ Leave(t) \/ NextChunk(t)
    BY <1>0, <1>1 DEF Call, Leave, NextChunk, Positions
  <1>2. CASE LockStep(t)
    BY <1>0, <1>2 DEF LockStep, RejectArguments, Take, TimeOut, MayTake, Return
  <1>3. CASE SetupStep(t)
    BY <1>0, <1>3 DEF SetupStep, ProcessMessage, ExportSubsets, ExportItem, ReportPath,
       ExportProgressively, ImportData, ImportReport, ImportRecord, ImportProgressively,
       Setup, ProceedOrGive, Proceed, GiveAndReturn, Give, Return
  <1>4. CASE SinglePassStep(t)
    BY <1>0, <1>4 DEF SinglePassStep, ReadObject, DropObject, ReadDone, ReadFails,
       WriteObject, WriteDone, Working, GiveAndReturn, Give, Return
  <1>5. CASE ExportStep(t)
    BY <1>0, <1>5 DEF ExportStep, ExportObject, ExportChunkFull, ExportFails, ExportDone,
       Working, GiveAndReturn, Give, Return, ReturnOpen
  <1>6. CASE ImportStep(t)
    BY <1>0, <1>6 DEF ImportStep, ImportObject, ImportStuck, ImportSkip, ImportSkipFails,
       ImportFails, ImportChunkDone, Importing, Working, GiveAndReturn, Give, Return,
       ReturnOpen
  <1>7. CASE ExportAbort(t) \/ ImportEnd(t)
    BY <1>0, <1>7 DEF ExportAbort, ImportEnd, GiveAndReturn, Give, Return
  <1> QED
    BY <1>1, <1>2, <1>3, <1>4, <1>5, <1>6, <1>7

LEMMA ExclusionStep == TypeInv /\ MutualExclusion /\ [Next]_vars => MutualExclusion'
  <1> SUFFICES ASSUME TypeInv, MutualExclusion, [Next]_vars PROVE MutualExclusion'
    OBVIOUS
  <1>1. CASE UNCHANGED vars
    BY <1>1 DEF MutualExclusion, Holds, vars
  <1>2. CASE Next
    <2>1. PICK t \in Threads : Moves(t)
      BY <1>2, StepMoves DEF Next
    <2> QED
      BY <2>1 DEF Moves, Enters, Stays, Gives, MutualExclusion, Holds
  <1> QED
    BY <1>1, <1>2

LEMMA ExclusionInvariance == Spec => [](TypeInv /\ MutualExclusion)
  <1>1. Init => MutualExclusion
    BY DEF Init, MutualExclusion, Holds
  <1> QED
    BY <1>1, InitType, TypeStep, ExclusionStep, PTL DEF Spec

(* At most one thread is inside the context, and none while the lock can   *)
(* be taken, whatever formats, buffers and IDs the callers use.            *)
THEOREM ContextExclusive == Spec => []MutualExclusion
  BY ExclusionInvariance, PTL

-----------------------------------------------------------------------------
(***************************************************************************)
(* Isolation.  A step of s leaves what belongs to the call of another      *)
(* thread alone, and the shared context too unless s is inside.            *)
(***************************************************************************)
Step(t) == \/ Call(t) \/ LockStep(t) \/ SetupStep(t)
           \/ SinglePassStep(t) \/ ExportStep(t) \/ ImportStep(t)
           \/ NextChunk(t) \/ ExportAbort(t) \/ ImportEnd(t)
           \/ Leave(t)

SameCall(t) == /\ pc'[t] = pc[t] /\ call'[t] = call[t] /\ buf'[t] = buf[t]
               /\ index'[t] = index[t] /\ lastId'[t] = lastId[t]
               /\ progress'[t] = progress[t] /\ seen'[t] = seen[t] /\ status'[t] = status[t]

LEMMA NextIsStep == Next <=> \E t \in Threads : Step(t)
  BY DEF Next, Step

LEMMA OthersKeepTheirCalls ==
    ASSUME TypeInv, NEW s \in Threads, Step(s), NEW t \in Threads, t # s
    PROVE  SameCall(t)
  <1> USE DEF SameCall, Goto, ctx, cursors, Return, ReturnOpen, GotTo
  <1>0. TypeOK
    BY DEF TypeInv
  <1>1. CASE Call(s) \/ Leave(s) \/ NextChunk(s)
    BY <1>0, <1>1 DEF Call, Leave, NextChunk, TypeOK
  <1>2. CASE LockStep(s)
    BY <1>0, <1>2 DEF LockStep, RejectArguments, Take, TimeOut, TypeOK
  <1>3. CASE SetupStep(s)
    <2>1. Proceed(s) \/ Return(s, "refused")
      BY <1>3, SetupStepForm
    <2> QED
      BY <1>0, <2>1 DEF Proceed, TypeOK
  <1>4. CASE SinglePassStep(s)
    BY <1>0, <1>4 DEF SinglePassStep, ReadObject, DropObject, ReadDone, ReadFails, Serialize,
       WriteObject, WriteDone, GiveAndReturn, TypeOK
  <1>5. CASE ExportStep(s)
    BY <1>0, <1>5 DEF ExportStep, ExportObject, ExportChunkFull, ExportFails, ExportDone,
       Serialize, GiveAndReturn, TypeOK
  <1>6. CASE ImportStep(s)
    BY <1>0, <1>6 DEF ImportStep, ImportObject, ImportStuck, ImportSkip, ImportSkipFails,
       ImportFails, ImportChunkDone, GiveAndReturn, TypeOK
  <1>7. CASE ExportAbort(s) \/ ImportEnd(s)
    BY <1>0, <1>7 DEF ExportAbort, ImportEnd, GiveAndReturn, TypeOK
  <1> QED
    BY <1>1, <1>2, <1>3, <1>4, <1>5, <1>6, <1>7 DEF Step

LEMMA OutsidersAreQuiet ==
    ASSUME TypeInv, NEW s \in Threads, Step(s), ~Holds(s)
    PROVE  UNCHANGED <<ctx, data>> /\ (lock' = lock \/ lock = 1)
  <1>1. pc[s] \notin {"setup", "work", "open"}
    BY DEF Holds
  <1>2. Call(s) \/ LockStep(s) \/ Leave(s)
    BY <1>1 DEF Step, SetupStep, ProcessMessage, ExportSubsets, ExportItem, ReportPath,
       ExportProgressively, ImportData, ImportReport, ImportRecord, ImportProgressively, Setup,
       SinglePassStep, ReadObject, DropObject, ReadDone, ReadFails, WriteObject, WriteDone,
       ExportStep, ExportObject, ExportChunkFull, ExportFails, ExportDone,
       ImportStep, ImportObject, ImportStuck, ImportSkip, ImportSkipFails, ImportFails,
       ImportChunkDone, Importing, Working, NextChunk, ExportAbort, ImportEnd
  <1> QED
    BY <1>2 DEF Call, LockStep, RejectArguments, Take, TimeOut, Leave

LEMMA IsolationStep ==
    ASSUME TypeInv, MutualExclusion, NEW s \in Threads, NEW t \in Threads, s # t, Holds(t),
           [Next]_vars, pc'[s] # pc[s]
    PROVE  UNCHANGED <<lock, ctx, data>>
  <1>1. PICK u \in Threads : Step(u)
    BY NextIsStep DEF vars
  <1>2. u = s
    BY <1>1, OthersKeepTheirCalls DEF SameCall
  <1>3. ~Holds(s) /\ lock # 1
    BY DEF MutualExclusion
  <1> QED
    BY <1>1, <1>2, <1>3, OutsidersAreQuiet

(* A thread that waits, times out or returns while another one is inside   *)
(* the context, or between two chunks of an export, disturbs nothing.      *)
THEOREM ContextUndisturbed == Spec => Undisturbed
  <1>1. TypeInv /\ MutualExclusion /\ [Next]_vars
          => [\A s, t \in Threads :
                s # t /\ Holds(t) /\ pc'[s] # pc[s] => UNCHANGED <<lock, ctx, data>>]_vars
    BY IsolationStep
  <1> QED
    BY <1>1, ExclusionInvariance, PTL DEF Spec, Undisturbed

-----------------------------------------------------------------------------
(***************************************************************************)
(* Exports are snapshots.  ExportIsSnapshot is not inductive: an export    *)
(* that took the lock a second time could meet objects changed since.  It  *)
(* does not, because it is left open only with *index above 0, and that    *)
(* in turn because bytes are in the buffer only if an object was passed.   *)
(***************************************************************************)
Snapshot(t) ==
    /\ Holds(t) /\ Op(t) \in Readers => \A o \in Objects : seen[t][o] \in {NoValue, data[o]}
    /\ pc[t] \in {"idle", "take"} => seen[t] = NoView
    /\ Op(t) = "export_progressively" /\ pc[t] = "work" /\ rspPos => index[t] > 0
    /\ Op(t) = "export_progressively" /\ pc[t] = "open" => index[t] > 0
    /\ Op(t) = "import_progressively" /\ pc[t] # "returned" => seen[t] = NoView
    /\ pc[t] = "open" => Op(t) \in {"export_progressively", "import_progressively"}

SnapshotInv == \A t \in Threads : Snapshot(t)

LEMMA OthersKeepTheirSnapshots ==
    ASSUME TypeInv, MutualExclusion, NEW s \in Threads, Step(s),
           NEW t \in Threads, t # s, Snapshot(t)
    PROVE  Snapshot(t)'
  <1>1. SameCall(t)
    BY OthersKeepTheirCalls
  <1>2. Holds(t) => UNCHANGED <<ctx, data>>
    BY OutsidersAreQuiet DEF MutualExclusion
  <1> QED
    BY <1>1, <1>2 DEF SameCall, Snapshot, Holds, Op, ctx

(* A call that is over, or about to begin, shows nothing yet. *)
LEMMA OwnCallSnapshot ==
    ASSUME TypeInv, NEW t \in Threads, Snapshot(t),
           \/ Call(t) \/ LockStep(t) \/ Leave(t) \/ NextChunk(t)
    PROVE  Snapshot(t)'
  <1>0. TypeOK
    BY DEF TypeInv
  <1>1. CASE Call(t) \/ Leave(t)
    BY <1>0, <1>1 DEF TypeOK, Call, Leave, Snapshot, Holds, Op, Goto, ctx, cursors
  <1>2. CASE LockStep(t)
    <2>1. CASE Take(t)
      <3>1. seen[t] = NoView /\ seen' = seen /\ pc'[t] = "setup" /\ call' = call
        BY <1>0, <2>1 DEF TypeOK, Take, MayTake, Snapshot, Goto
      <3>2. \A o \in Objects : seen'[t][o] = NoValue
        BY <3>1 DEF NoView
      <3> QED
        BY <3>1, <3>2 DEF Snapshot, Op, Holds
    <2>2. CASE RejectArguments(t) \/ TimeOut(t)
      BY <1>0, <2>2 DEF TypeOK, RejectArguments, TimeOut, Return, Goto, Snapshot, Holds, Op
    <2> QED
      BY <1>2, <2>1, <2>2 DEF LockStep
  <1>3. CASE NextChunk(t)
    <2>1. /\ pc[t] = "open" /\ seen' = seen /\ data' = data /\ call' = call
          /\ index' = index /\ rspPos' = rspPos
          /\ pc'[t] = IF Restarts(t) THEN "take" ELSE "work"
      BY <1>0, <1>3 DEF TypeOK, NextChunk, Goto, ctx
    <2>2. Op(t) = "export_progressively" => ~Restarts(t)
      BY <1>0, <2>1, ConstantsAssumption DEF TypeOK, Snapshot, Restarts
    <2> QED
      BY <2>1, <2>2 DEF Snapshot, Holds, Op
  <1> QED
    BY <1>1, <1>2, <1>3

LEMMA OwnSetupSnapshot ==
    ASSUME TypeInv, NEW t \in Threads, Snapshot(t), SetupStep(t)
    PROVE  Snapshot(t)'
  <1>0. TypeOK
    BY DEF TypeInv
  <1>1. /\ pc[t] = "setup" /\ data' = data /\ rspPos' = FALSE
        /\ Proceed(t) \/ Return(t, "refused")
    BY SetupStepForm
  <1>2. CASE Proceed(t)
    BY <1>0, <1>1, <1>2 DEF TypeOK, Proceed, Goto, Snapshot, Holds, Op, cursors
  <1>3. CASE Return(t, "refused")
    BY <1>0, <1>1, <1>3 DEF TypeOK, Return, Goto, Snapshot, Holds, Op, NoCall
  <1> QED
    BY <1>1, <1>2, <1>3

(* Once a call has returned nothing is claimed of it any more.             *)
LEMMA ReturnedSnapshot ==
    ASSUME TypeInv, NEW t \in Threads, NEW ret, Return(t, ret)
    PROVE  Snapshot(t)'
  BY DEF TypeInv, TypeOK, Return, Goto, Snapshot, Holds, Op, NoCall

LEMMA SerializeSnapshot ==
    ASSUME TypeInv, NEW t \in Threads, Snapshot(t), Serialize(t),
           pc[t] = "work", Op(t) \in Readers, UNCHANGED <<data, pc, call>>
    PROVE  Snapshot(t)'
  <1>0. TypeOK
    BY DEF TypeInv
  <1>1. index'[t] > 0
    <2>1. index[t] \in Nat /\ index'[t] = index[t] + 1
      BY <1>0, ConstantsAssumption DEF TypeOK, Serialize
    <2> QED
      BY <2>1
  <1>2. \A o \in Objects : seen'[t][o] \in {NoValue, data[o]}
    <2>1. seen[t] \in [Objects -> Values \cup {NoValue}]
      BY <1>0 DEF TypeOK
    <2>2. \A o \in Objects : seen[t][o] \in {NoValue, data[o]}
      BY DEF Snapshot, Holds
    <2>3. seen'[t] = seen[t] \/ seen'[t] = [seen[t] EXCEPT ![Object(t)] = data[Object(t)]]
      BY <1>0 DEF TypeOK, Serialize
    <2> QED
      BY <2>1, <2>2, <2>3
  <1>3. Op(t) # "import_progressively"
    BY DEF Readers, SinglePassReaders
  <1> QED
    BY <1>1, <1>2, <1>3 DEF Snapshot, Holds, Op

LEMMA OwnReadSnapshot ==
    ASSUME TypeInv, NEW t \in Threads, Snapshot(t), SinglePassStep(t) \/ ExportStep(t)
    PROVE  Snapshot(t)'
  <1>0. TypeOK
    BY DEF TypeInv
  <1>1. CASE ReadObject(t) \/ ExportObject(t)
    <2>1. Serialize(t) /\ pc[t] = "work" /\ Op(t) \in Readers /\ UNCHANGED <<data, pc, call>>
      BY <1>1 DEF ReadObject, ExportObject, Working, Readers
    <2> QED
      BY <2>1, SerializeSnapshot
  <1>2. CASE DropObject(t)
    BY <1>2 DEF DropObject, Working, Snapshot, Holds, Op, ctx
  <1>3. CASE ReadDone(t) \/ ReadFails(t) \/ WriteDone(t) \/ ExportFails(t) \/ ExportDone(t)
    <2>1. \E ret \in Statuses : Return(t, ret)
      BY <1>3 DEF ReadDone, ReadFails, WriteDone, ExportFails, ExportDone, GiveAndReturn, Statuses
    <2> QED
      BY <2>1, ReturnedSnapshot
  <1>4. CASE WriteObject(t)
    <2>1. Op(t) \notin Readers /\ Op(t) # "export_progressively" /\ pc[t] = "work"
      BY <1>4 DEF WriteObject, Working, Readers, SinglePassReaders, SinglePassWriters
    <2> QED
      BY <1>4, <2>1 DEF WriteObject, Snapshot, Holds, Op, cursors
  <1>5. CASE ExportChunkFull(t)
    BY <1>0, <1>5 DEF TypeOK, ExportChunkFull, Working, ReturnOpen, Goto, Snapshot, Holds, Op,
                      cursors
  <1> QED
    BY <1>1, <1>2, <1>3, <1>4, <1>5 DEF SinglePassStep, ExportStep

LEMMA OwnImportSnapshot ==
    ASSUME TypeInv, NEW t \in Threads, Snapshot(t),
           ImportStep(t) \/ ExportAbort(t) \/ ImportEnd(t)
    PROVE  Snapshot(t)'
  <1>0. TypeOK
    BY DEF TypeInv
  <1>1. CASE ImportFails(t) \/ ExportAbort(t) \/ ImportEnd(t)
    <2>1. \E ret \in Statuses : Return(t, ret)
      BY <1>1 DEF ImportFails, ExportAbort, ImportEnd, GiveAndReturn, Statuses
    <2> QED
      BY <2>1, ReturnedSnapshot
  <1>2. CASE ImportObject(t) \/ ImportStuck(t) \/ ImportSkip(t) \/ ImportSkipFails(t)
             \/ ImportChunkDone(t)
    <2>1. Op(t) = "import_progressively" /\ pc[t] = "work"
      BY <1>2 DEF ImportObject, ImportStuck, ImportSkip, ImportSkipFails, ImportChunkDone,
                  Importing, Working
    <2>2. seen' = seen /\ call' = call /\ pc'[t] \in {"work", "open"}
      BY <1>0, <1>2, <2>1 DEF TypeOK, ImportObject, ImportStuck, ImportSkip, ImportSkipFails,
                  ImportChunkDone, ReturnOpen, Goto, cursors
    <2>3. Op(t) \notin Readers
      BY <2>1 DEF Readers, SinglePassReaders
    <2> QED
      BY <2>1, <2>2, <2>3 DEF Snapshot, Holds, Op
  <1> QED
    BY <1>1, <1>2 DEF ImportStep

LEMMA SnapshotStep ==
    TypeInv /\ MutualExclusion /\ SnapshotInv /\ [Next]_vars => SnapshotInv'
  <1> SUFFICES ASSUME TypeInv, MutualExclusion, SnapshotInv, [Next]_vars,
                      NEW t \in Threads
               PROVE  Snapshot(t)'
    BY DEF SnapshotInv
  <1>1. CASE UNCHANGED vars
    BY <1>1 DEF SnapshotInv, Snapshot, Holds, Op, vars
  <1>2. ASSUME NEW s \in Threads, Step(s), s # t PROVE Snapshot(t)'
    BY <1>2, OthersKeepTheirSnapshots DEF SnapshotInv
  <1>3. CASE Step(t)
    BY <1>3, OwnCallSnapshot, OwnSetupSnapshot, OwnReadSnapshot, OwnImportSnapshot
    DEF Step, SnapshotInv
  <1> QED
    BY <1>1, <1>2, <1>3, NextIsStep

LEMMA SnapshotInvariance == Spec => [](TypeInv /\ MutualExclusion /\ SnapshotInv)
  <1>1. Init => SnapshotInv
    BY DEF Init, SnapshotInv, Snapshot, Holds, Op, NoCall
  <1>2. Init => MutualExclusion
    BY DEF Init, MutualExclusion, Holds
  <1> QED
    BY <1>1, <1>2, InitType, TypeStep, ExclusionStep, SnapshotStep, PTL DEF Spec

(* Whatever an export has in its buffers is what the objects hold, across  *)
(* all of its chunks.                                                      *)
THEOREM ExportsAreSnapshots == Spec => []ExportIsSnapshot
  <1>1. SnapshotInv => ExportIsSnapshot
    BY DEF SnapshotInv, Snapshot, ExportIsSnapshot
  <1> QED
    BY <1>1, SnapshotInvariance, PTL

-----------------------------------------------------------------------------
(***************************************************************************)
(* No leak.  This needs two promises of the callers: no format that        *)
(* thingset_export_subsets lacks, and no item with ID 0 in imported data.  *)
(* Then an import that asks for more data has set *last_id, and the next   *)
(* call knows that the lock is already taken.                              *)
(***************************************************************************)
CarefulCallers == CallersCheckFormat /\ 0 \notin UnknownIds

Session(t) ==
    /\ pc[t] \in {"take", "setup"} /\ Op(t) = "export_subsets" => call[t].valid
    /\ progress[t] = "value" => lastId[t] # 0
    /\ Op(t) = "import_progressively" /\ pc[t] = "open" /\ status[t] = "more"
         => lastId[t] # 0

SessionInv == \A t \in Threads : Session(t)

LEMMA OthersKeepTheirSessions ==
    ASSUME TypeInv, NEW s \in Threads, Step(s), NEW t \in Threads, t # s, Session(t)
    PROVE  Session(t)'
  BY OthersKeepTheirCalls DEF SameCall, Session, Op

LEMMA ReturnedSession ==
    ASSUME TypeInv, NEW t \in Threads, NEW ret, Return(t, ret)
    PROVE  Session(t)'
  BY DEF TypeInv, TypeOK, Return, Goto, Session, Op, NoCall

LEMMA OwnSession ==
    ASSUME CarefulCallers, TypeInv, NEW t \in Threads, Snapshot(t), Session(t), Step(t)
    PROVE  Session(t)'
  <1>0. TypeOK
    BY DEF TypeInv
  <1>1. CASE Call(t)
    BY <1>0, <1>1 DEF CarefulCallers, TypeOK, Call, LegalCall, Goto, Session, Op, cursors
  <1>2. CASE LockStep(t)
    <2>1. CASE Take(t)
      BY <1>0, <2>1 DEF TypeOK, Take, MayTake, Goto, Session, Op, cursors
    <2>2. CASE RejectArguments(t) \/ TimeOut(t)
      BY <2>2, ReturnedSession DEF RejectArguments, TimeOut
    <2> QED
      BY <1>2, <2>1, <2>2 DEF LockStep
  <1>3. CASE SetupStep(t)
    <2>1. /\ pc[t] = "setup"
          /\ Proceed(t) \/ Return(t, "refused")
      BY <1>3, SetupStepForm
    <2>2. CASE Return(t, "refused")
      BY <2>2, ReturnedSession
    <2>3. CASE Proceed(t)
      BY <1>0, <2>3 DEF TypeOK, Proceed, Goto, Session, Op, cursors
    <2> QED
      BY <2>1, <2>2, <2>3
  <1>4. CASE ReadObject(t) \/ DropObject(t) \/ WriteObject(t) \/ ExportObject(t)
             \/ ExportChunkFull(t)
    BY <1>0, <1>4 DEF TypeOK, ReadObject, DropObject, WriteObject, ExportObject,
       ExportChunkFull, Working, SinglePassReaders, SinglePassWriters, ReturnOpen, Goto,
       Session, Op, cursors
  <1>5. CASE \/ ReadDone(t) \/ ReadFails(t) \/ WriteDone(t) \/ ExportFails(t)
             \/ ExportDone(t) \/ ImportFails(t) \/ ExportAbort(t) \/ ImportEnd(t)
    <2>1. \E ret \in Statuses : Return(t, ret)
      BY <1>5 DEF ReadDone, ReadFails, WriteDone, ExportFails, ExportDone, ImportFails,
                  ExportAbort, ImportEnd, GiveAndReturn, Statuses
    <2> QED
      BY <2>1, ReturnedSession
  <1>6. CASE ImportObject(t) \/ ImportSkip(t) \/ ImportSkipFails(t)
    <2>1. 0 \notin Objects /\ 0 \notin Ignored(t) /\ Scope(t) \subseteq Objects
      BY <1>0, ConstantsAssumption
      DEF CarefulCallers, TypeOK, Calls, Scope, Objects, Ignored, Ids
    <2>2. UNCHANGED <<pc, call>> /\ pc[t] = "work"
      BY <1>6 DEF ImportObject, ImportSkip, ImportSkipFails, Importing, Working
    <2>3. lastId'[t] # 0
      BY <1>0, <1>6, <2>1 DEF TypeOK, ImportObject, ImportSkip, ImportSkipFails, GotTo
    <2> QED
      BY <2>2, <2>3 DEF Session, Op
  <1>7. CASE ImportStuck(t)
    <2>1. 0 \notin Scope(t)
      BY <1>0 DEF TypeOK, Calls, Scope, Objects
    <2> QED
      BY <1>0, <1>7, <2>1
      DEF TypeOK, ImportStuck, Importing, Working, ReturnOpen, Goto, Session, Op
  <1>8. CASE ImportChunkDone(t)
    <2>1. lastId[t] # 0
      BY <1>8 DEF ImportChunkDone, Importing, Working, Session, Op
    <2> QED
      BY <1>0, <1>8, <2>1
      DEF TypeOK, ImportChunkDone, Importing, Working, ReturnOpen, Goto, Session, Op, cursors
  <1>9. CASE NextChunk(t) \/ Leave(t)
    <2>1. CASE NextChunk(t)
      <3>1. Op(t) # "export_subsets"
        BY <2>1 DEF NextChunk, Snapshot
      <3> QED
        BY <1>0, <2>1, <3>1 DEF TypeOK, NextChunk, Goto, Session, Op
    <2>2. CASE Leave(t)
      BY <1>0, <2>2 DEF TypeOK, Leave, Goto, Session, Op, cursors
    <2> QED
      BY <1>9, <2>1, <2>2
  <1> QED
    BY <1>1, <1>2, <1>3, <1>4, <1>5, <1>6, <1>7, <1>8, <1>9
    DEF Step, SinglePassStep, ExportStep, ImportStep

LEMMA SessionStep ==
    CarefulCallers /\ TypeInv /\ SnapshotInv /\ SessionInv /\ [Next]_vars => SessionInv'
  <1> SUFFICES ASSUME CarefulCallers, TypeInv, SnapshotInv, SessionInv, [Next]_vars,
                      NEW t \in Threads
               PROVE  Session(t)'
    BY DEF SessionInv
  <1>1. CASE UNCHANGED vars
    BY <1>1 DEF SessionInv, Session, Op, vars
  <1>2. ASSUME NEW s \in Threads, Step(s), s # t PROVE Session(t)'
    BY <1>2, OthersKeepTheirSessions DEF SessionInv
  <1>3. CASE Step(t)
    BY <1>3, OwnSession DEF SessionInv, SnapshotInv
  <1> QED
    BY <1>1, <1>2, <1>3, NextIsStep

LEMMA NoRestart == TypeInv /\ SnapshotInv /\ SessionInv => ContinuationKeepsLock
  <1> SUFFICES ASSUME TypeInv, SnapshotInv, SessionInv, NEW t \in Threads,
                      pc[t] = "open", status[t] = "more"
               PROVE  ~Restarts(t)
    BY DEF ContinuationKeepsLock
  <1>1. Op(t) = "export_progressively" => index[t] > 0 /\ index[t] \in Nat
    BY ConstantsAssumption DEF SnapshotInv, Snapshot, TypeInv, TypeOK
  <1>2. Op(t) = "import_progressively" => lastId[t] # 0
    BY DEF SessionInv, Session
  <1>3. Op(t) \in {"export_progressively", "import_progressively"}
    BY DEF SnapshotInv, Snapshot
  <1> QED
    BY <1>1, <1>2, <1>3 DEF Restarts

(* Whoever takes the lock is inside, and whoever leaves has given it.      *)
LEMMA LockAccounted ==
    ASSUME TypeInv, ContinuationKeepsLock, SessionInv, NEW t \in Threads, Step(t)
    PROVE  /\ lock' # lock /\ lock' = 0 => Holds(t)'
           /\ Holds(t) /\ ~Holds(t)' => lock' = 1
  <1> USE DEF Holds, Goto
  <1>0. TypeOK
    BY DEF TypeInv
  <1>1. CASE Call(t) \/ LockStep(t) \/ Leave(t)
    BY <1>0, <1>1 DEF TypeOK, Call, LockStep, RejectArguments, Take, TimeOut, MayTake, Leave,
                      Return
  <1>2. CASE NextChunk(t)
    BY <1>0, <1>2 DEF TypeOK, NextChunk, ContinuationKeepsLock
  <1>3. CASE SetupStep(t)
    <2>1. CASE ExportSubsets(t)
      <3>1. call[t].valid
        BY <2>1 DEF ExportSubsets, Setup, SessionInv, Session
      <3> QED
        BY <1>0, <2>1, <3>1 DEF TypeOK, ExportSubsets, Setup, Proceed
    <2>2. CASE ProcessMessage(t)
      BY <1>0, <2>2 DEF TypeOK, ProcessMessage, Proceed
    <2>3. CASE \/ ExportItem(t) \/ ReportPath(t) \/ ExportProgressively(t) \/ ImportData(t)
               \/ ImportReport(t) \/ ImportRecord(t) \/ ImportProgressively(t)
      <3>1. ProceedOrGive(t) /\ pc[t] = "setup"
        BY <2>3 DEF ExportItem, ReportPath, ExportProgressively, ImportData, ImportReport,
                    ImportRecord, ImportProgressively, Setup
      <3> QED
        BY <1>0, <3>1 DEF TypeOK, ProceedOrGive, Proceed, GiveAndReturn, Give
    <2> QED
      BY <1>3, <2>1, <2>2, <2>3 DEF SetupStep
  <1>4. CASE SinglePassStep(t)
    BY <1>0, <1>4 DEF TypeOK, SinglePassStep, ReadObject, DropObject, ReadDone, ReadFails,
       WriteObject, WriteDone, Working, GiveAndReturn, Give
  <1>5. CASE ExportStep(t)
    BY <1>0, <1>5 DEF TypeOK, ExportStep, ExportObject, ExportChunkFull, ExportFails,
       ExportDone, Working, GiveAndReturn, Give, ReturnOpen
  <1>6. CASE ImportStep(t)
    BY <1>0, <1>6 DEF TypeOK, ImportStep, ImportObject, ImportStuck, ImportSkip,
       ImportSkipFails, ImportFails, ImportChunkDone, Importing, Working, GiveAndReturn, Give,
       ReturnOpen
  <1>7. CASE ExportAbort(t) \/ ImportEnd(t)
    BY <1>7 DEF ExportAbort, ImportEnd, GiveAndReturn, Give
  <1> QED
    BY <1>1, <1>2, <1>3, <1>4, <1>5, <1>6, <1>7 DEF Step

LEMMA LeakStep ==
    /\ TypeInv /\ MutualExclusion /\ SnapshotInv /\ SessionInv
    /\ NoLockLeak /\ [Next]_vars
    => NoLockLeak'
  <1> SUFFICES ASSUME TypeInv, MutualExclusion, SnapshotInv, SessionInv,
                      NoLockLeak, [Next]_vars, lock' = 0
               PROVE  \E t \in Threads : Holds(t)'
    BY DEF NoLockLeak
  <1>1. CASE UNCHANGED vars
    BY <1>1 DEF NoLockLeak, Holds, vars
  <1>2. ASSUME NEW s \in Threads, Step(s) PROVE \E t \in Threads : Holds(t)'
    <2>1. CASE lock = 0
      <3>1. PICK t \in Threads : Holds(t)
        BY <2>1 DEF NoLockLeak
      <3>2. CASE t = s
        BY <1>2, <3>1, <3>2, NoRestart, LockAccounted
      <3>3. CASE t # s
        BY <1>2, <3>1, <3>3, OthersKeepTheirCalls DEF SameCall, Holds
      <3> QED
        BY <3>2, <3>3
    <2>2. CASE lock # 0
      BY <1>2, <2>2, NoRestart, LockAccounted
    <2> QED
      BY <2>1, <2>2
  <1> QED
    BY <1>1, <1>2, NextIsStep

(* With callers that keep to the formats and use no ID 0, a session that   *)
(* asks for more is continued under the lock it has.                       *)
THEOREM SessionsContinue ==
    ASSUME CarefulCallers
    PROVE  Spec => []ContinuationKeepsLock
  <1>1. Init => SessionInv
    BY DEF Init, SessionInv, Session, Op, NoCall
  <1>2. TypeInv /\ SnapshotInv /\ SessionInv /\ [Next]_vars => SessionInv'
    BY SessionStep
  <1> QED
    BY <1>1, <1>2, NoRestart, SnapshotInvariance, PTL DEF Spec

(* So the lock is never taken without a call or session that will give it. *)
THEOREM LockNeverLeaks ==
    ASSUME CarefulCallers
    PROVE  Spec => []NoLockLeak
  <1>1. Init => SessionInv /\ NoLockLeak
    BY DEF Init, SessionInv, Session, NoLockLeak, Op, NoCall
  <1>2. TypeInv /\ SnapshotInv /\ SessionInv /\ [Next]_vars => SessionInv'
    BY SessionStep
  <1> QED
    BY <1>1, <1>2, NoRestart, LeakStep, SnapshotInvariance, PTL DEF Spec

-----------------------------------------------------------------------------
(***************************************************************************)
(* Chunks add up.  The cursor of an export is at 0 until it works, and     *)
(* behind it everything asked for has been serialised.                     *)
(***************************************************************************)
Chunks(t) ==
    /\ pc[t] \in {"idle", "take", "setup", "returned"} \/ Op(t) \notin Readers => index[t] = 0
    /\ Op(t) = "export_progressively" =>
          \A o \in Scope(t) : o <= index[t] => seen[t][o] # NoValue

ChunksInv == \A t \in Threads : Chunks(t)

LEMMA OthersKeepTheirChunks ==
    ASSUME TypeInv, NEW s \in Threads, Step(s), NEW t \in Threads, t # s, Chunks(t)
    PROVE  Chunks(t)'
  BY OthersKeepTheirCalls DEF SameCall, Chunks, Op, Scope

LEMMA ReturnedChunks ==
    ASSUME TypeInv, NEW t \in Threads, NEW ret, Return(t, ret)
    PROVE  Chunks(t)'
  BY DEF TypeInv, TypeOK, Return, Goto, Chunks, Op, Scope, NoCall

(* A call that begins has its cursor at 0. *)
LEMMA BeginningChunks ==
    ASSUME TypeInv, NEW t \in Threads, index'[t] = 0, call'[t].scope \subseteq Objects
    PROVE  Chunks(t)'
  <1>1. \A o \in Scope(t)' : ~(o <= index'[t])
    BY ConstantsAssumption DEF Scope, Objects
  <1> QED
    BY <1>1 DEF Chunks

LEMMA SerializeChunks ==
    ASSUME TypeInv, NEW t \in Threads, Chunks(t), Serialize(t),
           pc[t] = "work", Op(t) \in Readers, UNCHANGED <<pc, call>>
    PROVE  Chunks(t)'
  <1>0. TypeOK
    BY DEF TypeInv
  <1>1. index[t] \in Nat /\ index'[t] = index[t] + 1 /\ Object(t) \in Objects
    BY <1>0, ConstantsAssumption DEF TypeOK, Serialize, Object, Objects
  <1>2. data[Object(t)] # NoValue
    BY <1>0, <1>1, ConstantsAssumption DEF TypeOK
  <1>3. ASSUME Op(t) = "export_progressively", NEW o \in Scope(t), o <= index[t] + 1
        PROVE  seen'[t][o] # NoValue
    <2>1. o \in Objects /\ o \in Nat
      BY <1>0, ConstantsAssumption DEF TypeOK, Calls, Scope, Objects
    <2>2. seen[t] \in [Objects -> Values \cup {NoValue}]
      BY <1>0 DEF TypeOK
    <2>3. CASE o = Object(t)
      <3>1. seen'[t] = [seen[t] EXCEPT ![Object(t)] = data[Object(t)]]
        BY <1>0, <2>3 DEF TypeOK, Serialize
      <3> QED
        BY <1>2, <2>1, <2>2, <2>3, <3>1
    <2>4. CASE o # Object(t)
      <3>1. o <= index[t]
        BY <1>1, <1>3, <2>1, <2>4 DEF Object
      <3>2. seen[t][o] # NoValue
        BY <1>3, <3>1 DEF Chunks
      <3>3. \/ seen'[t] = seen[t]
            \/ seen'[t] = [seen[t] EXCEPT ![Object(t)] = data[Object(t)]]
        BY <1>0 DEF TypeOK, Serialize
      <3> QED
        BY <2>1, <2>2, <2>4, <3>2, <3>3
    <2> QED
      BY <2>3, <2>4
  <1> QED
    BY <1>1, <1>3 DEF Chunks, Op, Scope

LEMMA OwnChunks ==
    ASSUME TypeInv, NEW t \in Threads, Snapshot(t), Chunks(t), Step(t)
    PROVE  Chunks(t)'
  <1>0. TypeOK
    BY DEF TypeInv
  <1>1. CASE Call(t) \/ Leave(t)
    <2>1. index'[t] = 0
      BY <1>1 DEF Call, Leave, Chunks, cursors
    <2>2. call'[t].scope \subseteq Objects
      BY <1>0, <1>1 DEF TypeOK, Call, Leave, Calls
    <2> QED
      BY <2>1, <2>2, BeginningChunks
  <1>2. CASE LockStep(t)
    BY <1>0, <1>2, ReturnedChunks
    DEF TypeOK, LockStep, RejectArguments, Take, TimeOut, MayTake, Goto, Chunks, Op, Scope, cursors
  <1>3. CASE SetupStep(t)
    <2>1. pc[t] = "setup" /\ (Proceed(t) \/ Return(t, "refused"))
      BY <1>3, SetupStepForm
    <2>2. CASE Proceed(t)
      BY <1>0, <2>1, <2>2 DEF TypeOK, Proceed, Goto, Chunks, Op, Scope, cursors
    <2> QED
      BY <2>1, <2>2, ReturnedChunks
  <1>4. CASE ReadObject(t) \/ ExportObject(t)
    <2>1. Serialize(t) /\ pc[t] = "work" /\ Op(t) \in Readers /\ UNCHANGED <<pc, call>>
      BY <1>4 DEF ReadObject, ExportObject, Working, Readers
    <2> QED
      BY <2>1, SerializeChunks
  <1>5. CASE DropObject(t)
    <2>1. Op(t) \in {"export_subsets", "report_path"} /\ pc[t] = "work"
      BY <1>5 DEF DropObject, Working
    <2> QED
      BY <1>5, <2>1 DEF DropObject, Chunks, Op, Scope, Readers, SinglePassReaders
  <1>6. CASE WriteObject(t) \/ ImportObject(t) \/ ImportSkip(t) \/ ImportSkipFails(t)
    BY <1>6 DEF WriteObject, ImportObject, ImportSkip, ImportSkipFails, Chunks, Op, Scope, cursors
  <1>7. CASE ExportChunkFull(t) \/ ImportStuck(t) \/ ImportChunkDone(t)
    <2>1. index' = index /\ seen' = seen /\ call' = call /\ pc'[t] = "open" /\ pc[t] = "work"
      BY <1>0, <1>7 DEF TypeOK, ExportChunkFull, ImportStuck, ImportChunkDone, Importing, Working,
                        ReturnOpen, Goto, cursors
    <2> QED
      BY <2>1 DEF Chunks, Op, Scope
  <1>8. CASE NextChunk(t)
    <2>1. /\ index' = index /\ seen' = seen /\ call' = call
          /\ pc'[t] = IF Restarts(t) THEN "take" ELSE "work"
      BY <1>0, <1>8 DEF TypeOK, NextChunk, Goto
    <2>2. Restarts(t) => index[t] = 0 \/ Op(t) # "export_progressively"
      BY DEF Restarts
    <2>3. Op(t) = "export_progressively" => Op(t) \in Readers
      BY DEF Readers
    <2>4. CASE Restarts(t) /\ Op(t) = "export_progressively"
      BY <2>1, <2>2, <2>4 DEF Chunks, Op, Scope
    <2>5. CASE ~Restarts(t)
      BY <2>1, <2>5 DEF Chunks, Op, Scope
    <2>6. CASE Op(t) # "export_progressively"
      <3>1. Op(t) = "import_progressively"
        BY <1>8, <2>6 DEF NextChunk, Snapshot
      <3>2. Op(t) \notin Readers
        BY <3>1 DEF Readers, SinglePassReaders
      <3> QED
        BY <2>1, <2>6, <3>2 DEF Chunks, Op, Scope
    <2> QED
      BY <2>4, <2>5, <2>6
  <1>9. CASE \/ ReadDone(t) \/ ReadFails(t) \/ WriteDone(t) \/ ExportFails(t)
             \/ ExportDone(t) \/ ImportFails(t) \/ ExportAbort(t) \/ ImportEnd(t)
    <2>1. \E ret \in Statuses : Return(t, ret)
      BY <1>9 DEF ReadDone, ReadFails, WriteDone, ExportFails, ExportDone, ImportFails,
                  ExportAbort, ImportEnd, GiveAndReturn, Statuses
    <2> QED
      BY <2>1, ReturnedChunks
  <1> QED
    BY <1>1, <1>2, <1>3, <1>4, <1>5, <1>6, <1>7, <1>8, <1>9
    DEF Step, SinglePassStep, ExportStep, ImportStep

LEMMA ChunksStep ==
    TypeInv /\ SnapshotInv /\ ChunksInv /\ [Next]_vars => ChunksInv'
  <1> SUFFICES ASSUME TypeInv, SnapshotInv, ChunksInv, [Next]_vars, NEW t \in Threads
               PROVE  Chunks(t)'
    BY DEF ChunksInv
  <1>1. CASE UNCHANGED vars
    BY <1>1 DEF ChunksInv, Chunks, Op, Scope, vars
  <1>2. ASSUME NEW s \in Threads, Step(s), s # t PROVE Chunks(t)'
    BY <1>2, OthersKeepTheirChunks DEF ChunksInv
  <1>3. CASE Step(t)
    BY <1>3, OwnChunks DEF ChunksInv, SnapshotInv
  <1> QED
    BY <1>1, <1>2, <1>3, NextIsStep

(* No object an export was asked for is lost where a chunk ends, however   *)
(* many objects, chunks and other threads there are.                       *)
THEOREM ChunksAddUp == Spec => []ProgressiveExportComplete
  <1>1. Init => ChunksInv
    BY DEF Init, ChunksInv, Chunks, Op, Scope, NoCall
  <1>2. ChunksInv => ProgressiveExportComplete
    BY DEF ChunksInv, Chunks, ProgressiveExportComplete
  <1> QED
    BY <1>1, <1>2, ChunksStep, SnapshotInvariance, PTL DEF Spec

-----------------------------------------------------------------------------
(***************************************************************************)
(* Buffers.  Between two chunks the context points at the buffer of the    *)
(* session already, so a caller that passes it again finds it there.       *)
(***************************************************************************)
Pointed(t) == pc[t] \in {"work", "open"} =>
    /\ Op(t) \in Requests \cup Writers => msg = <<t, buf[t]>>
    /\ Op(t) \in Readers => rsp = <<t, buf[t]>>

PointedInv == \A t \in Threads : Pointed(t)

LEMMA OthersKeepTheirBuffers ==
    ASSUME TypeInv, MutualExclusion, NEW s \in Threads, Step(s),
           NEW t \in Threads, t # s, Pointed(t)
    PROVE  Pointed(t)'
  <1>1. SameCall(t)
    BY OthersKeepTheirCalls
  <1>2. Holds(t) => UNCHANGED <<ctx, data>>
    BY OutsidersAreQuiet DEF MutualExclusion
  <1> QED
    BY <1>1, <1>2 DEF SameCall, Pointed, Holds, Op, ctx

LEMMA OwnBuffers ==
    ASSUME CallersKeepBuffer, TypeInv, NEW t \in Threads, Pointed(t), Step(t)
    PROVE  Pointed(t)'
  <1> USE DEF Goto, Op
  <1>0. TypeOK
    BY DEF TypeInv
  <1>1. CASE Call(t) \/ LockStep(t) \/ Leave(t)
    BY <1>0, <1>1 DEF TypeOK, Call, LockStep, RejectArguments, Take, TimeOut, Leave, Return, Pointed
  <1>2. CASE SetupStep(t)
    <2>1. CASE Return(t, "refused")
      BY <1>0, <2>1 DEF TypeOK, Return, Pointed
    <2>2. CASE Proceed(t)
      <3>1. call' = call /\ buf' = buf
        BY <2>2 DEF Proceed
      <3>2. CASE ProcessMessage(t)
        BY <3>1, <3>2 DEF ProcessMessage, PointMsgAt, PointRspAt, Pointed
      <3>3. CASE ExportSubsets(t) \/ ExportItem(t) \/ ReportPath(t) \/ ExportProgressively(t)
        BY <3>1, <3>3 DEF ExportSubsets, ExportItem, ReportPath, ExportProgressively, Setup,
           PointRspAt, Pointed, Requests, Writers, SinglePassWriters
      <3>4. CASE ImportData(t) \/ ImportReport(t) \/ ImportRecord(t) \/ ImportProgressively(t)
        BY <3>1, <3>4 DEF ImportData, ImportReport, ImportRecord, ImportProgressively, Setup,
           PointMsgAt, Pointed, Readers, SinglePassReaders
      <3> QED
        BY <1>2, <3>2, <3>3, <3>4 DEF SetupStep
    <2> QED
      BY <1>2, <2>1, <2>2, SetupStepForm
  <1>3. CASE \/ ReadObject(t) \/ DropObject(t) \/ WriteObject(t) \/ ExportObject(t)
             \/ ImportObject(t) \/ ImportSkip(t) \/ ImportSkipFails(t)
    BY <1>3 DEF ReadObject, DropObject, WriteObject, ExportObject, ImportObject, ImportSkip,
       ImportSkipFails, ctx, Pointed
  <1>4. CASE ExportChunkFull(t) \/ ImportStuck(t) \/ ImportChunkDone(t)
    BY <1>0, <1>4 DEF TypeOK, ExportChunkFull, ImportStuck, ImportChunkDone, Importing, Working,
       ReturnOpen, ctx, Pointed
  <1>5. CASE NextChunk(t)
    <2>1. buf'[t] = buf[t]
      BY <1>0, <1>5 DEF TypeOK, NextChunk
    <2> QED
      BY <1>5, <2>1 DEF NextChunk, ctx, Pointed
  <1>6. CASE \/ ReadDone(t) \/ ReadFails(t) \/ WriteDone(t) \/ ExportFails(t)
             \/ ExportDone(t) \/ ImportFails(t) \/ ExportAbort(t) \/ ImportEnd(t)
    BY <1>0, <1>6 DEF TypeOK, ReadDone, ReadFails, WriteDone, ExportFails, ExportDone,
       ImportFails, ExportAbort, ImportEnd, GiveAndReturn, Return, Pointed
  <1> QED
    BY <1>1, <1>2, <1>3, <1>4, <1>5, <1>6
    DEF Step, SinglePassStep, ExportStep, ImportStep

LEMMA BuffersStep ==
    /\ CallersKeepBuffer /\ TypeInv /\ MutualExclusion /\ PointedInv /\ [Next]_vars
    => PointedInv'
  <1> SUFFICES ASSUME CallersKeepBuffer, TypeInv, MutualExclusion, PointedInv, [Next]_vars,
                      NEW t \in Threads
               PROVE  Pointed(t)'
    BY DEF PointedInv
  <1>1. CASE UNCHANGED vars
    BY <1>1 DEF PointedInv, Pointed, Op, vars
  <1>2. ASSUME NEW s \in Threads, Step(s), s # t PROVE Pointed(t)'
    BY <1>2, OthersKeepTheirBuffers DEF PointedInv
  <1>3. CASE Step(t)
    BY <1>3, OwnBuffers DEF PointedInv
  <1> QED
    BY <1>1, <1>2, <1>3, NextIsStep

(* If each chunk comes with the buffer of the first, a call that works     *)
(* finds its own buffers in the context.                                   *)
THEOREM BuffersAreOwn ==
    ASSUME CallersKeepBuffer
    PROVE  Spec => []BuffersCurrent
  <1>1. Init => PointedInv
    BY DEF Init, PointedInv, Pointed
  <1>2. PointedInv => BuffersCurrent
    BY DEF PointedInv, Pointed, BuffersCurrent
  <1>3. TypeInv /\ MutualExclusion /\ PointedInv /\ [Next]_vars => PointedInv'
    BY BuffersStep
  <1> QED
    BY <1>1, <1>2, <1>3, ExclusionInvariance, PTL DEF Spec
====
