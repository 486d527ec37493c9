-------------------------- MODULE ThingsetContext --------------------------
(***************************************************************************)
(* A struct thingset_context used by several threads: the entry points of  *)
(* src/thingset.c, the binary semaphore ts->lock that each of them takes,  *)
(* the fields of the context they set up under it, and the objects they    *)
(* read or write one at a time.  A progressive export or import keeps the  *)
(* lock from one call of the API to the next.                              *)
(*                                                                         *)
(* What a message holds is abstracted to the objects it names and the      *)
(* values it carries; whether a value fits, decodes or can be skipped is   *)
(* left open at each step.                                                 *)
(***************************************************************************)
EXTENDS Integers, FiniteSets

CONSTANTS
    Threads,             \* threads of the application
    NumObjects,          \* ts->num_objects
    Values,              \* values of an object
    InitData,            \* value of each object at boot
    NoValue,             \* an object an export has not reached
    Scopes,              \* sets of objects a subset mask or a message names
    Ops,                 \* entry points the application calls
    Bufs,                \* message and response buffers a thread owns
    NoBuf,               \* the null pointer
    UnknownIds,          \* IDs in a message that belong to no object
    CallersCheckFormat,  \* no caller passes a format its function lacks
    CallersKeepBuffer    \* later chunks come in the buffer of the first

Objects == 1 .. NumObjects

(* thingset_process_message answers a request that reads or one that       *)
(* writes; every other name is that of its function without the prefix.    *)
Requests == {"read_request", "write_request"}
SinglePassReaders == {"read_request", "export_subsets", "export_item", "report_path"}
SinglePassWriters == {"write_request", "import_data", "import_report", "import_record"}
Readers == SinglePassReaders \cup {"export_progressively"}
Writers == SinglePassWriters \cup {"import_progressively"}
AllOps == Readers \cup Writers

(***************************************************************************)
(* A call.  "valid" stands for the checks a function makes of the rest of  *)
(* its arguments: for a request msg, msg_len, rsp and rsp_size, for the    *)
(* others the format, for a report also the path.                          *)
(***************************************************************************)
Calls == [op : AllOps, valid : BOOLEAN, scope : SUBSET Objects, vals : [Objects -> Values]]
NoCall == [op |-> "read_request", valid |-> TRUE, scope |-> {}, vals |-> InitData]

LegalCall(c) ==
    /\ c.op \in Ops
    /\ c.scope \in Scopes
    /\ c.op = "export_item" => \E o \in Objects : c.scope = {o}
    /\ \A o \in Objects : c.op \in Readers \/ o \notin c.scope => c.vals[o] = InitData[o]
    /\ CallersCheckFormat => (c.op = "export_subsets" => c.valid)

ASSUME ConstantsAssumption ==
    /\ NumObjects \in Nat
    /\ InitData \in [Objects -> Values]
    /\ NoValue \notin Values
    /\ Scopes \subseteq SUBSET Objects
    /\ Ops \subseteq AllOps
    /\ UnknownIds \subseteq Nat
    /\ UnknownIds \cap Objects = {}
    /\ NoBuf \notin Bufs /\ NoBuf \notin Threads \X Bufs
    /\ CallersCheckFormat \in BOOLEAN
    /\ CallersKeepBuffer \in BOOLEAN

VARIABLES
    lock,      \* count of the semaphore ts->lock
    msg,       \* ts->msg: whose buffer, and which
    rsp,       \* ts->rsp
    rspPos,    \* ts->rsp_pos > 0
    data,      \* the application's variables behind the data objects
    pc,        \* where each thread is
    call,      \* the arguments of its call
    buf,       \* the buffer passed in its latest call
    index,     \* objects an export is done with; the caller's *index
    lastId,    \* the caller's *last_id
    progress,  \* what this call of a progressive import got out of its data
    seen,      \* the values an export has serialised
    status,    \* what the latest call returned
    base       \* data when the lock was last taken; no part of the code

ctx == <<msg, rsp, rspPos>>
cursors == <<index, lastId, progress>>
vars == <<lock, msg, rsp, rspPos, data, pc, call, buf, index, lastId, progress,
          seen, status, base>>

Ids == {0} \cup Objects \cup UnknownIds
Pointers == {NoBuf} \cup (Threads \X Bufs)
NoView == [o \in Objects |-> NoValue]
Positions == {"idle", "take", "setup", "work", "open", "returned"}
Statuses == {"none", "ok", "more", "error", "refused"}

TypeOK ==
    /\ lock \in {0, 1}
    /\ msg \in Pointers /\ rsp \in Pointers
    /\ rspPos \in BOOLEAN
    /\ data \in [Objects -> Values] /\ base \in [Objects -> Values]
    /\ pc \in [Threads -> Positions]
    /\ call \in [Threads -> Calls]
    /\ buf \in [Threads -> Bufs \cup {NoBuf}]
    /\ index \in [Threads -> 0 .. NumObjects]
    /\ lastId \in [Threads -> Ids]
    /\ progress \in [Threads -> {"nothing", "id", "value"}]
    /\ seen \in [Threads -> [Objects -> Values \cup {NoValue}]]
    /\ status \in [Threads -> Statuses]

(* thingset_init: the lock is free and no buffer is known yet. *)
Init ==
    /\ lock = 1
    /\ msg = NoBuf /\ rsp = NoBuf /\ rspPos = FALSE
    /\ data = InitData /\ base = InitData
    /\ pc = [t \in Threads |-> "idle"]
    /\ call = [t \in Threads |-> NoCall]
    /\ buf = [t \in Threads |-> NoBuf]
    /\ index = [t \in Threads |-> 0]
    /\ lastId = [t \in Threads |-> 0]
    /\ progress = [t \in Threads |-> "nothing"]
    /\ seen = [t \in Threads |-> NoView]
    /\ status = [t \in Threads |-> "none"]

Op(t) == call[t].op
Scope(t) == call[t].scope
Goto(t, label) == pc' = [pc EXCEPT ![t] = label]
Working(t, ops) == pc[t] = "work" /\ Op(t) \in ops
Object(t) == index[t] + 1   \* ts->data_objects[*index]

(***************************************************************************)
(* The last step of a call.  Its arguments and cursors are forgotten; the  *)
(* caller keeps what an export that went through has stored for it.        *)
(***************************************************************************)
Return(t, ret) ==
    /\ Goto(t, "returned")
    /\ status' = [status EXCEPT ![t] = ret]
    /\ seen' = [seen EXCEPT ![t] = IF ret = "ok" THEN seen[t] ELSE NoView]
    /\ call' = [call EXCEPT ![t] = NoCall]
    /\ buf' = [buf EXCEPT ![t] = NoBuf]
    /\ index' = [index EXCEPT ![t] = 0]
    /\ lastId' = [lastId EXCEPT ![t] = 0]
    /\ progress' = [progress EXCEPT ![t] = "nothing"]

(* k_sem_give(&ts->lock); the semaphore counts to 1 (k_sem_init). *)
Give == lock' = 1

GiveAndReturn(t, ret) == Give /\ Return(t, ret)

(* Mutant: the lock is also given when there is more to come. *)
ReturnOpenGives(t, ret) ==
    /\ Goto(t, "open")
    /\ status' = [status EXCEPT ![t] = ret]
    /\ Give
    /\ UNCHANGED <<call, buf>>

(* A progressive function returns to its caller and keeps the lock. *)
ReturnOpen(t, ret) ==
    /\ Goto(t, "open")
    /\ status' = [status EXCEPT ![t] = ret]
    /\ UNCHANGED <<lock, call, buf>>

-----------------------------------------------------------------------------
(* Calls and the lock *)

(* Mutant: the context is pointed at the buffers before the lock is taken. *)
CallPointsEarly(t) ==
    /\ pc[t] = "idle"
    /\ \E c \in Calls : LegalCall(c) /\ call' = [call EXCEPT ![t] = c]
    /\ \E b \in Bufs : /\ buf' = [buf EXCEPT ![t] = b]
                       /\ msg' = <<t, b>> /\ rsp' = <<t, b>>
    /\ Goto(t, "take")
    /\ UNCHANGED <<lock, rspPos, data, cursors, seen, status, base>>

Call(t) ==
    /\ pc[t] = "idle"
    /\ \E c \in Calls : LegalCall(c) /\ call' = [call EXCEPT ![t] = c]
    /\ \E b \in Bufs : buf' = [buf EXCEPT ![t] = b]
    /\ Goto(t, "take")
    /\ UNCHANGED <<lock, ctx, data, cursors, seen, status, base>>

(* thingset_process_message returns before the lock if there is no message *)
(* or no room for the smallest response.                                   *)
RejectArguments(t) ==
    /\ pc[t] = "take" /\ Op(t) \in Requests /\ ~call[t].valid
    /\ Return(t, "refused")
    /\ UNCHANGED <<lock, ctx, data, base>>

MayTake(t) == pc[t] = "take" /\ (Op(t) \in Requests => call[t].valid)

(* k_sem_take(&ts->lock, K_MSEC(THINGSET_CONTEXT_LOCK_TIMEOUT_MS)) *)
Take(t) ==
    /\ MayTake(t) /\ lock = 1
    /\ lock' = 0
    /\ base' = data
    /\ Goto(t, "setup")
    /\ UNCHANGED <<ctx, data, call, buf, cursors, seen, status>>

(* Mutants: a timeout leaves through the common exit, which gives the      *)
(* lock; the wait is K_FOREVER.                                            *)
TimeOutGives(t) ==
    /\ MayTake(t) /\ lock = 0
    /\ GiveAndReturn(t, "refused")
    /\ UNCHANGED <<ctx, data, base>>

TimeOutNever(t) == MayTake(t) /\ lock = 2 /\ UNCHANGED vars

TimeOut(t) ==
    /\ MayTake(t) /\ lock = 0
    /\ Return(t, "refused")
    /\ UNCHANGED <<lock, ctx, data, base>>

(* The caller has taken note of what its call returned. *)
Leave(t) ==
    /\ pc[t] = "returned"
    /\ Goto(t, "idle")
    /\ status' = [status EXCEPT ![t] = "none"]
    /\ seen' = [seen EXCEPT ![t] = NoView]
    /\ UNCHANGED <<lock, ctx, data, call, buf, cursors, base>>

-----------------------------------------------------------------------------
(* Setting up the context, first thing under the lock *)

Setup(t, op) == pc[t] = "setup" /\ Op(t) = op

PointMsgAt(t) == msg' = <<t, buf[t]>>
PointRspAt(t) == rsp' = <<t, buf[t]>> /\ rspPos' = FALSE
ClearRsp == rsp' = NoBuf /\ rspPos' = FALSE

Proceed(t) == Goto(t, "work") /\ UNCHANGED <<lock, call, buf, cursors, seen, status>>

(* The default case of most functions: the lock is given back. *)
ProceedOrGive(t) == \/ call[t].valid /\ Proceed(t)
                    \/ ~call[t].valid /\ GiveAndReturn(t, "refused")

ProcessMessage(t) ==
    /\ pc[t] = "setup" /\ Op(t) \in Requests
    /\ PointMsgAt(t) /\ PointRspAt(t)
    /\ Proceed(t)
    /\ UNCHANGED <<data, base>>

(* The default case returns at once, with the lock still taken. *)
ExportSubsets(t) ==
    /\ Setup(t, "export_subsets")
    /\ PointRspAt(t)
    /\ \/ call[t].valid /\ Proceed(t)
       \/ ~call[t].valid /\ Return(t, "refused") /\ UNCHANGED lock
    /\ UNCHANGED <<msg, data, base>>

ExportItem(t) ==
    /\ Setup(t, "export_item")
    /\ PointRspAt(t)
    /\ ProceedOrGive(t)
    /\ UNCHANGED <<msg, data, base>>

(* A path without an endpoint and a format without a case both go to out. *)
ReportPath(t) ==
    /\ Setup(t, "report_path")
    /\ PointRspAt(t)
    /\ ProceedOrGive(t)
    /\ UNCHANGED <<msg, data, base>>

ExportProgressively(t) ==
    /\ Setup(t, "export_progressively")
    /\ PointRspAt(t)
    /\ ProceedOrGive(t)
    /\ UNCHANGED <<msg, data, base>>

ImportData(t) ==
    /\ Setup(t, "import_data")
    /\ PointMsgAt(t) /\ ClearRsp
    /\ ProceedOrGive(t)
    /\ UNCHANGED <<data, base>>

ImportReport(t) ==
    /\ Setup(t, "import_report")
    /\ PointMsgAt(t) /\ ClearRsp
    /\ ProceedOrGive(t)
    /\ UNCHANGED <<data, base>>

ImportRecord(t) ==
    /\ Setup(t, "import_record")
    /\ PointMsgAt(t) /\ ClearRsp
    /\ ProceedOrGive(t)
    /\ UNCHANGED <<data, base>>

ImportProgressively(t) ==
    /\ Setup(t, "import_progressively")
    /\ PointMsgAt(t) /\ ClearRsp
    /\ ProceedOrGive(t)
    /\ UNCHANGED <<data, base>>

-----------------------------------------------------------------------------
(* Calls that do all their work in one go *)

(* Mutant: <= for < in the loop over the objects. *)
SerializeBeyond(t) ==
    /\ index[t] <= NumObjects
    /\ seen' = [seen EXCEPT ![t] = IF Object(t) \in Scope(t)
                                   THEN [@ EXCEPT ![Object(t)] = data[Object(t)]]
                                   ELSE @]
    /\ index' = [index EXCEPT ![t] = @ + 1]
    /\ rspPos' = TRUE

(* The next object: serialised if the call asks for it, else passed over. *)
Serialize(t) ==
    /\ index[t] < NumObjects
    /\ seen' = [seen EXCEPT ![t] = IF Object(t) \in Scope(t)
                                   THEN [@ EXCEPT ![Object(t)] = data[Object(t)]]
                                   ELSE @]
    /\ index' = [index EXCEPT ![t] = @ + 1]
    /\ rspPos' = TRUE

ReadObject(t) ==
    /\ Working(t, SinglePassReaders)
    /\ Serialize(t)
    /\ UNCHANGED <<lock, msg, rsp, data, pc, call, buf, lastId, progress, status, base>>

(* The loop over a subset does not look at what serialising an object has  *)
(* returned: one that does not fit or has no encoding is left out, and the *)
(* loop goes on.                                                           *)
DropObject(t) ==
    /\ Working(t, {"export_subsets", "report_path"})
    /\ index[t] < NumObjects /\ Object(t) \in Scope(t)
    /\ index' = [index EXCEPT ![t] = @ + 1]
    /\ UNCHANGED <<lock, ctx, data, pc, call, buf, lastId, progress, seen, status, base>>

ReadDone(t) ==
    /\ Working(t, SinglePassReaders)
    /\ index[t] = NumObjects
    /\ GiveAndReturn(t, "ok")
    /\ UNCHANGED <<ctx, data, base>>

(* Mutant: an early return on an error, past the end of the function. *)
ReadFailsKeepsLock(t) ==
    /\ Working(t, SinglePassReaders)
    /\ Return(t, "error")
    /\ UNCHANGED <<lock, ctx, data, base>>

(* The response is too small, a value has no encoding, the request is bad. *)
ReadFails(t) ==
    /\ Working(t, SinglePassReaders)
    /\ GiveAndReturn(t, "error")
    /\ UNCHANGED <<ctx, data, base>>

WriteObject(t) ==
    /\ Working(t, SinglePassWriters)
    /\ \E o \in Scope(t) : data' = [data EXCEPT ![o] = call[t].vals[o]]
    /\ UNCHANGED <<lock, ctx, pc, call, buf, cursors, seen, status, base>>

(* The message is finite: sooner or later it ends or fails to decode. *)
WriteDone(t) ==
    /\ Working(t, SinglePassWriters)
    /\ \E ret \in {"ok", "error"} : GiveAndReturn(t, ret)
    /\ UNCHANGED <<ctx, data, base>>

-----------------------------------------------------------------------------
(* Progressive export and import *)

(* The next call of a progressive function takes the lock only if it finds *)
(* *index or *last_id at 0, and only then uses the buffer it is given.     *)
Restarts(t) == IF Op(t) = "export_progressively" THEN index[t] = 0 ELSE lastId[t] = 0

NextChunk(t) ==
    /\ pc[t] = "open" /\ status[t] = "more"
    /\ \E b \in IF CallersKeepBuffer THEN {buf[t]} ELSE Bufs : buf' = [buf EXCEPT ![t] = b]
    /\ Goto(t, IF Restarts(t) THEN "take" ELSE "work")
    /\ progress' = [progress EXCEPT ![t] = "nothing"]
    /\ UNCHANGED <<lock, ctx, data, call, index, lastId, seen, status, base>>

ExportObject(t) ==
    /\ Working(t, {"export_progressively"})
    /\ Serialize(t)
    /\ UNCHANGED <<lock, msg, rsp, data, pc, call, buf, lastId, progress, status, base>>

(* Mutants: a chunk is sent off even if empty; if any object was ever      *)
(* passed, in this chunk or before; with the object that did not fit       *)
(* counted as done.                                                        *)
ExportChunkMayBeEmpty(t) ==
    /\ Working(t, {"export_progressively"})
    /\ index[t] < NumObjects /\ Object(t) \in Scope(t)
    /\ rspPos' = FALSE
    /\ ReturnOpen(t, "more")
    /\ UNCHANGED <<msg, rsp, data, cursors, seen, base>>

ExportChunkStalls(t) == index[t] > 0 /\ ExportChunkMayBeEmpty(t)

ExportChunkSkips(t) ==
    /\ Working(t, {"export_progressively"})
    /\ index[t] < NumObjects /\ Object(t) \in Scope(t)
    /\ rspPos
    /\ rspPos' = FALSE
    /\ index' = [index EXCEPT ![t] = @ + 1]
    /\ ReturnOpen(t, "more")
    /\ UNCHANGED <<msg, rsp, data, lastId, progress, seen, base>>

(* -THINGSET_ERR_RESPONSE_TOO_LARGE after at least one byte was kept *)
ExportChunkFull(t) ==
    /\ Working(t, {"export_progressively"})
    /\ index[t] < NumObjects /\ Object(t) \in Scope(t)
    /\ rspPos
    /\ rspPos' = FALSE
    /\ ReturnOpen(t, "more")
    /\ UNCHANGED <<msg, rsp, data, cursors, seen, base>>

(* The value does not fit an empty buffer or cannot be encoded at all. *)
ExportFails(t) ==
    /\ Working(t, {"export_progressively"})
    /\ index[t] < NumObjects /\ Object(t) \in Scope(t)
    /\ GiveAndReturn(t, "error")
    /\ UNCHANGED <<ctx, data, base>>

ExportDone(t) ==
    /\ Working(t, {"export_progressively"})
    /\ index[t] = NumObjects
    /\ GiveAndReturn(t, "ok")
    /\ UNCHANGED <<ctx, data, base>>

ExportAbort(t) ==
    /\ pc[t] = "open" /\ Op(t) = "export_progressively"
    /\ GiveAndReturn(t, "error")
    /\ UNCHANGED <<ctx, data, base>>

Importing(t) == Working(t, {"import_progressively"})

(* An ID the import passes over: no object has it or it is not writable. *)
Ignored(t) == {id \in Ids : id \in UnknownIds \/ id \in Objects \ Scope(t)}

GotTo(t, what, id) == /\ progress' = [progress EXCEPT ![t] = what]
                      /\ lastId' = [lastId EXCEPT ![t] = id]

ImportObject(t) ==
    /\ Importing(t)
    /\ \E o \in Scope(t) : /\ data' = [data EXCEPT ![o] = call[t].vals[o]]
                           /\ GotTo(t, "value", o)
    /\ UNCHANGED <<lock, ctx, pc, call, buf, index, seen, status, base>>

(* The value is cut off: have the caller send it again with what follows. *)
ImportStuck(t) ==
    /\ Importing(t)
    /\ \E o \in Scope(t) : o # lastId[t] /\ lastId' = [lastId EXCEPT ![t] = o]
    /\ ReturnOpen(t, "more")
    /\ UNCHANGED <<ctx, data, index, progress, seen, base>>

(* A value nobody wants, or one that does not decode for the second time,  *)
(* is skipped.                                                             *)
ImportSkip(t) ==
    /\ Importing(t)
    /\ \E id \in Ignored(t) \cup ({lastId[t]} \cap Scope(t)) : GotTo(t, "value", id)
    /\ UNCHANGED <<lock, ctx, data, pc, call, buf, index, seen, status, base>>

(* The value of an ignored ID is cut off: nothing of it is consumed, yet   *)
(* *last_id moves on.                                                      *)
ImportSkipFails(t) ==
    /\ Importing(t)
    /\ \E id \in Ignored(t) :
          GotTo(t, IF progress[t] = "nothing" THEN "id" ELSE progress[t], id)
    /\ UNCHANGED <<lock, ctx, data, pc, call, buf, index, seen, status, base>>

(* No map, nothing consumed, or a value that can neither be read nor       *)
(* skipped in two attempts.                                                *)
ImportFails(t) ==
    /\ Importing(t)
    /\ \/ progress[t] # "value"
       \/ lastId[t] \in Scope(t)
    /\ GiveAndReturn(t, "error")
    /\ UNCHANGED <<ctx, data, base>>

(* No further ID: the end of the buffer ("ok") or an ID cut off ("more").  *)
(* Without any progress only a later, empty buffer gets here.              *)
ImportChunkDone(t) ==
    /\ Importing(t)
    /\ \/ progress[t] = "value" /\ \E ret \in {"ok", "more"} : ReturnOpen(t, ret)
       \/ progress[t] = "nothing" /\ lastId[t] # 0 /\ ReturnOpen(t, "ok")
    /\ UNCHANGED <<ctx, data, cursors, seen, base>>

(* thingset_import_data_progressively_end; also all a caller can do that   *)
(* has no more data for an import which asks for more.                     *)
ImportEnd(t) ==
    /\ pc[t] = "open" /\ Op(t) = "import_progressively"
    /\ GiveAndReturn(t, IF status[t] = "ok" THEN "ok" ELSE "error")
    /\ UNCHANGED <<ctx, data, base>>

-----------------------------------------------------------------------------
SetupStep(t) ==
    \/ ProcessMessage(t) \/ ExportSubsets(t) \/ ExportItem(t) \/ ReportPath(t)
    \/ ExportProgressively(t) \/ ImportData(t) \/ ImportReport(t) \/ ImportRecord(t)
    \/ ImportProgressively(t)

SinglePassStep(t) ==
    \/ ReadObject(t) \/ DropObject(t) \/ ReadDone(t) \/ ReadFails(t)
    \/ WriteObject(t) \/ WriteDone(t)

ExportStep(t) ==
    \/ ExportObject(t) \/ ExportChunkFull(t) \/ ExportFails(t) \/ ExportDone(t)

ImportStep(t) ==
    \/ ImportObject(t) \/ ImportStuck(t) \/ ImportSkip(t) \/ ImportSkipFails(t)
    \/ ImportFails(t) \/ ImportChunkDone(t)

LockStep(t) == RejectArguments(t) \/ Take(t) \/ TimeOut(t)

Next == \E t \in Threads :
    \/ Call(t) \/ LockStep(t) \/ SetupStep(t)
    \/ SinglePassStep(t) \/ ExportStep(t) \/ ImportStep(t)
    \/ NextChunk(t) \/ ExportAbort(t) \/ ImportEnd(t)
    \/ Leave(t)

Spec == Init /\ [][Next]_vars

(***************************************************************************)
(* The scheduler lets every thread inside the library run on, a wait for   *)
(* the lock ends with the lock or with the timeout, a message is finite,   *)
(* and a caller goes on with an export it has begun and ends an import at  *)
(* some point.  Nobody has to make a call.                                 *)
(***************************************************************************)
Fairness == \A t \in Threads :
    /\ WF_vars(LockStep(t))
    /\ WF_vars(SetupStep(t))
    /\ WF_vars(ReadObject(t) \/ ReadDone(t))
    /\ WF_vars(WriteDone(t))
    /\ WF_vars(ExportStep(t))
    /\ WF_vars(ImportFails(t) \/ ImportChunkDone(t))
    /\ WF_vars(Op(t) = "export_progressively" /\ NextChunk(t))
    /\ SF_vars(ImportEnd(t))
    /\ WF_vars(Leave(t))

FairSpec == Spec /\ Fairness

-----------------------------------------------------------------------------
(* Properties *)

(* t has the context to itself: from k_sem_take to k_sem_give. *)
Holds(t) == pc[t] \in {"setup", "work", "open"}

(* No two threads are ever inside the context, and none is while the       *)
(* semaphore could be taken: a progressive call that skips the take, an    *)
(* abort or an end must not break this.                                    *)
MutualExclusion ==
    /\ \A s, t \in Threads : Holds(s) /\ Holds(t) => s = t
    /\ lock = 1 => \A t \in Threads : ~Holds(t)

(* The lock is taken only while some call or some open export or import    *)
(* accounts for it: no path through an entry point forgets to give it.     *)
NoLockLeak == lock = 0 => \E t \in Threads : Holds(t)

(* Code that dereferences ts->msg or ts->rsp finds there the buffer of the *)
(* call it runs in, neither one that another thread has passed nor one of  *)
(* a call that is long over: "Pointer to the buffer where the data should  *)
(* be stored" (include/thingset.h:1764).  A session keeps the buffer of    *)
(* its first call (thingset.c:138), so this needs CallersKeepBuffer.       *)
BuffersCurrent == \A t \in Threads : pc[t] = "work" =>
    /\ Op(t) \in Requests \cup Writers => msg = <<t, buf[t]>>
    /\ Op(t) \in Readers => rsp = <<t, buf[t]>>

(* Whatever an export has put into its buffers, in this chunk and in the   *)
(* earlier ones, is what the objects hold now: an export is a snapshot,    *)
(* however many calls it is spread over and whoever runs between them.     *)
ExportIsSnapshot == \A t \in Threads : Holds(t) /\ Op(t) \in Readers =>
    \A o \in Objects : seen[t][o] \in {NoValue, data[o]}

(* No object gets lost where one chunk of an export ends: those the export *)
(* is done with and was asked for are in its buffers.                      *)
ProgressiveExportComplete ==
    \A t \in Threads : Holds(t) /\ Op(t) = "export_progressively" =>
        \A o \in Scope(t) : o <= index[t] => seen[t][o] # NoValue

(* A session that asks for another call is recognised as begun by that     *)
(* call (thingset.c:279): it will not wait for the lock it already has,    *)
(* whatever it has ignored: "Unknown data items are silently ignored"      *)
(* (include/thingset.h:1867).  The code fails it for an item with ID 0.    *)
ContinuationKeepsLock ==
    \A t \in Threads : pc[t] = "open" /\ status[t] = "more" => ~Restarts(t)

(* While t holds the lock, in the middle of a call or between two chunks,  *)
(* whatever another thread does (call, time out, return) leaves the lock,  *)
(* the context and the objects alone.                                      *)
Undisturbed == [][\A s, t \in Threads :
    s # t /\ Holds(t) /\ pc'[s] # pc[s] => UNCHANGED <<lock, ctx, data>>]_vars

(* Every call comes back, if need be with the error of a timeout: no       *)
(* thread waits for ever, not even behind an export that is kept open.     *)
CallsReturn == \A t \in Threads :
    pc[t] \in {"take", "setup", "work"} ~> pc[t] \in {"open", "returned"}

(* The lock does not stay taken.  For an export this holds without any     *)
(* abort: each call that asks for another has passed at least one object,  *)
(* so a caller that just carries on gets to the end.                       *)
LockComesFree == lock = 0 ~> lock = 1

(***************************************************************************)
(* Calls on a shared context are atomic.  The values of the abstract       *)
(* database are those of the objects, except while a writer is inside:     *)
(* its writes count from the moment it gives the lock back.                *)
(***************************************************************************)
Kind(op) == IF op \in Writers THEN "write" ELSE "read"

AbstractDb == IF \E t \in Threads : Holds(t) /\ Op(t) \in Writers THEN base ELSE data

AbstractPhase == [t \in Threads |-> CASE pc[t] = "idle" -> "idle"
                                      [] pc[t] = "returned" -> "done"
                                      [] OTHER -> "called"]

AbstractReq == [t \in Threads |->
    [kind |-> Kind(Op(t)), scope |-> Scope(t), vals |-> call[t].vals]]

AbstractRes == [t \in Threads |->
    IF pc[t] = "returned" THEN [status |-> status[t], view |-> seen[t]]
                          ELSE [status |-> "none", view |-> NoView]]

Serial == INSTANCE SerialContext WITH
    db <- AbstractDb, phase <- AbstractPhase, req <- AbstractReq, res <- AbstractRes

(* Every behaviour of the context is one in which each call takes effect   *)
(* at a single instant, exports in many chunks included.                   *)
CallsAreAtomic == Serial!Spec
=============================================================================
