--------------------------- MODULE SerialContext ---------------------------
(***************************************************************************)
(* What a ThingSet context promises to the threads that share it: every    *)
(* API call takes effect at one instant between its invocation and its     *)
(* return.  A read returns values its objects had at that instant, a       *)
(* write changes some of the objects it names to the values it carries     *)
(* (objects that are unknown or not writable are passed over), and a call  *)
(* that is refused changes nothing.  thingset.h, lines 1599-1603, states   *)
(* the purpose of the lock: "Semaphore to lock this context and avoid race *)
(* conditions if the context may be used by multiple threads in parallel". *)
(*                                                                         *)
(* Locks, buffers and chunks are absent here; ThingsetContext has them and *)
(* is shown to implement this specification.                               *)
(***************************************************************************)
CONSTANTS Threads,   \* threads of the application
          Objects,   \* objects of the database that hold a value
          Values,    \* values of an object
          Scopes,    \* sets of objects a call may name
          InitData,  \* value of each object at boot
          NoValue    \* an object a read did not return

VARIABLES db,     \* the objects' values
          phase,  \* how far the call of each thread is
          req,    \* what the call asks for
          res     \* what it answered

vars == <<db, phase, req, res>>

Requests == [kind : {"read", "write"}, scope : Scopes, vals : [Objects -> Values]]
NoRequest == [kind |-> "read", scope |-> {}, vals |-> InitData]

NoView == [o \in Objects |-> NoValue]
ViewOf(scope) == [o \in Objects |-> IF o \in scope THEN db[o] ELSE NoValue]

Answer(status, view) == [status |-> status, view |-> view]

Init == /\ db = InitData
        /\ phase = [t \in Threads |-> "idle"]
        /\ req = [t \in Threads |-> NoRequest]
        /\ res = [t \in Threads |-> Answer("none", NoView)]

Invoke(t) == /\ phase[t] = "idle"
             /\ \E r \in Requests : req' = [req EXCEPT ![t] = r]
             /\ phase' = [phase EXCEPT ![t] = "called"]
             /\ UNCHANGED <<db, res>>

(* The call of t is over and the thread finds its answer. *)
Complete(t, answer) == /\ phase[t] = "called"
                       /\ phase' = [phase EXCEPT ![t] = "done"]
                       /\ req' = [req EXCEPT ![t] = NoRequest]
                       /\ res' = [res EXCEPT ![t] = answer]

(* An export may leave out objects, but it never mixes values of two       *)
(* instants.                                                               *)
Read(t) == /\ req[t].kind = "read"
           /\ \E got \in SUBSET req[t].scope : Complete(t, Answer("ok", ViewOf(got)))
           /\ UNCHANGED db

(* An import or update that fails half way has still written some objects. *)
Write(t) ==
    /\ req[t].kind = "write"
    /\ \E status \in {"ok", "error"} : Complete(t, Answer(status, NoView))
    /\ \E written \in SUBSET req[t].scope :
          db' = [o \in Objects |-> IF o \in written THEN req[t].vals[o] ELSE db[o]]

ReadFails(t) == /\ req[t].kind = "read"
                /\ Complete(t, Answer("error", NoView))
                /\ UNCHANGED db

Refuse(t) == /\ Complete(t, Answer("refused", NoView))
             /\ UNCHANGED db

Respond(t) == /\ phase[t] = "done"
              /\ phase' = [phase EXCEPT ![t] = "idle"]
              /\ res' = [res EXCEPT ![t] = Answer("none", NoView)]
              /\ UNCHANGED <<db, req>>

Next == \E t \in Threads : \/ Invoke(t)
                           \/ Read(t)
                           \/ Write(t)
                           \/ ReadFails(t)
                           \/ Refuse(t)
                           \/ Respond(t)

Spec == Init /\ [][Next]_vars
=============================================================================
