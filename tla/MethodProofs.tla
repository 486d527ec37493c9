---------------------------- MODULE MethodProofs ----------------------------
(***************************************************************************)
(* What the methods do, proved for every database and payload: what an     *)
(* UPDATE writes, when it runs the update callback, what the function of   *)
(* an EXEC sees, and the callbacks around what a FETCH reads.              *)
(***************************************************************************)
EXTENDS RequestsProofs, FiniteSetTheorems

(* The places of an UPDATE that has begun with its payload.                *)
Writes == {"check", "pre_write", "write", "post_write", "notify", "notify_call"}

Named(n) == {req.items[i].object : i \in 1 .. n}
Size == Len(req.items)

(***************************************************************************)
(* The check pass has found the first n items to be children of the        *)
(* endpoint and to be decodable.                                           *)
(***************************************************************************)
Checked(n) ==
    \A i \in 1 .. n : req.items[i].object \in Children(Endpoint) /\ req.items[i].form # "bad"

CheckInv ==
    /\ pc = "check" => Checked(pos) /\ ~accepted
    /\ pc \in {"pre_write", "write"} => Checked(Size)
    /\ pc \in Writes \ {"check"} => accepted
    /\ pc = "pre_write" => pos = 0 /\ (\A o \in Objects : data[o] # base[o] =>
                                          o \in Arrays /\ o \in Named(Size))
    /\ pc # "done" => status = "none"
    /\ CheckPassWritesOnlyArrays

(* What changes between steps of other requests is nothing of this.        *)
LEMMA CheckOutside == TypeInv /\ CheckInv /\ (Setters \/ Receive \/ Respond) => CheckInv'
  <1> SUFFICES ASSUME TypeInv, CheckInv, Setters \/ Receive \/ Respond PROVE CheckInv'
    OBVIOUS
  <1>1. CASE Setters
    <2>1. UNCHANGED <<data, request>>
      BY <1>1 DEF Setters, SetAuthentication, SetUpdateSubsets, SetUpdateCb
    <2> QED
      BY <2>1 DEF request, CheckInv, Checked, Named, Size, CheckPassWritesOnlyArrays, Writing,
                  Endpoint
  <1>2. CASE Receive \/ Respond
    <2>1. base' = data /\ data' = data
      BY <1>2 DEF Receive, Respond
    <2>2. CheckPassWritesOnlyArrays'
      BY <2>1 DEF CheckPassWritesOnlyArrays
    <2>3. pc' \in Methods \cup {"idle", "done"} /\ (pc' # "done" => status' = "none")
      <3>1. CASE Respond
        BY <3>1 DEF Respond
      <3>2. CASE Receive
        <4>1. PICK r \in PeerRequests : IF r.endpoint = NoObject
                                        THEN pc' = "done" /\ status' = "not_found"
                                        ELSE pc' = r.method /\ status' = "none"
          BY <3>2 DEF Receive
        <4>2. r.method \in Methods
          BY ConstantsAssumption DEF RequestSet
        <4> QED
          BY <4>1, <4>2
      <3> QED
        BY <1>2, <3>1, <3>2
    <2> QED
      BY <2>2, <2>3 DEF CheckInv, Methods, Writes
  <1> QED
    BY <1>1, <1>2

LEMMA CheckOthers ==
    TypeInv /\ CheckInv /\ (Get \/ Names \/ Fetch \/ FetchItem \/ Exec \/ ExecParameter \/ ExecCall
                            \/ CreateDelete) => CheckInv'
  <1> SUFFICES ASSUME TypeInv, CheckInv,
                      Get \/ Names \/ Fetch \/ FetchItem \/ Exec \/ ExecParameter \/ ExecCall
                         \/ CreateDelete
               PROVE  CheckInv'
    OBVIOUS
  <1>1. req' = req /\ pc \in (Methods \ {"update"}) \cup {"items", "params", "call"}
    BY DEF Get, Names, Fetch, FetchItem, Exec, ExecParameter, ExecCall, CreateDelete, Step, Methods
  <1>2. req.method # "update"
    BY <1>1 DEF TypeInv, Place, Methods
  <1>3. pc' \in {"done", "items", "params", "call"}
    BY DEF Get, GetGroup, GetValue, Names, Fetch, FetchItem, Exec, ExecParameter, FailInto, ExecCall,
           CreateDelete, Finish, Goto, TooLarge
  <1>4. pc' = "done" \/ status' = status
    BY DEF Get, GetGroup, GetValue, Names, Fetch, FetchItem, Exec, ExecParameter, FailInto, ExecCall,
           CreateDelete, Finish, Goto, TooLarge
  <1>5. CheckPassWritesOnlyArrays'
    BY <1>1, <1>2 DEF CheckPassWritesOnlyArrays, Writing
  <1>6. pc # "done"
    BY <1>1 DEF Methods
  <1> QED
    BY <1>3, <1>4, <1>5, <1>6 DEF CheckInv, Writes

LEMMA CheckChecks == TypeInv /\ CheckInv /\ (Update \/ UpdateCheck) => CheckInv'
  <1> SUFFICES ASSUME TypeInv, CheckInv, Update \/ UpdateCheck PROVE CheckInv'
    OBVIOUS
  <1>1. /\ UNCHANGED <<req, base>> /\ status = "none"
        /\ Endpoint \in Objects /\ req.method = "update" /\ Endpoint # NoObject
        /\ data \in [Objects -> Values]
    BY Underway, ConstantsAssumption DEF Update, UpdateCheck, Step, CheckInv, TypeInv, TypeOK, Place,
                                         Methods
  <1>2. CASE Update
    <2>1. /\ pc' \in {"check", "done"} /\ UNCHANGED <<data, pos, accepted>>
          /\ pos = 0 /\ ~accepted /\ (pc' # "done" => status' = status)
      BY <1>2 DEF Update, Goto, Finish, TypeInv, Place, Methods
    <2>2. CheckPassWritesOnlyArrays'
      BY <1>1, <2>1 DEF CheckInv, CheckPassWritesOnlyArrays, Writing
    <2> QED
      BY <1>1, <2>1, <2>2 DEF CheckInv, Checked, Writes
  <1>3. CASE UpdateCheck
    <2>1. /\ pc = "check" /\ ~accepted /\ Checked(pos)
          /\ pos \in 0 .. Size /\ Size \in Nat
      BY <1>3, Underway DEF UpdateCheck, CheckInv, Size
    <2>2. \A o \in Objects : data[o] # base[o] =>
             Type[o] = "array" /\ \E i \in 1 .. Size : req.items[i].object = o
      BY <1>1, <2>1 DEF CheckInv, CheckPassWritesOnlyArrays, Writing, Endpoint, Size
    <2>3. ASSUME NEW v \in Values, ~AtEnd, Item.object \in Objects, CheckInto(Item.object, v)
          PROVE  CheckPassWritesOnlyArrays'
      <3>1. pos + 1 \in 1 .. Size /\ req.items[pos + 1].object = Item.object
        BY <2>1, <2>3, Underway DEF Size, Item
      <3>2. CASE Type[Item.object] = "array"
        <4>1. data' = [data EXCEPT ![Item.object] = v]
          BY <2>3, <3>2 DEF CheckInto, Write
        <4>2. \A o \in Objects : o # Item.object => data'[o] = data[o]
          BY <1>1, <4>1
        <4> QED
          BY <1>1, <2>2, <3>1, <3>2, <4>2 DEF CheckPassWritesOnlyArrays, Size
      <3>3. CASE Type[Item.object] # "array"
        BY <1>1, <2>2, <2>3, <3>3 DEF CheckInto, CheckPassWritesOnlyArrays, Size
      <3> QED
        BY <3>2, <3>3
    <2>4. UNCHANGED data => CheckPassWritesOnlyArrays'
      BY <1>1, <2>2 DEF CheckPassWritesOnlyArrays, Size
    <2>5. ~AtEnd => Item.val \in Values
      BY <2>1, Underway
    <2>6. CheckPassWritesOnlyArrays'
      BY <1>3, <2>3, <2>4, <2>5 DEF UpdateCheck, Found, Children
    <2>7. \/ pc' = "done"
          \/ /\ pc' = "check" /\ UNCHANGED <<accepted, status>>
             /\ pos' = pos + 1 /\ Item.object \in Children(Endpoint) /\ Item.form # "bad"
          \/ /\ pc' = "pre_write" /\ accepted' /\ pos' = 0 /\ AtEnd
             /\ UNCHANGED <<data, status>>
      BY <1>3 DEF UpdateCheck, Found, Rewind, Goto, Finish
    <2>8. CASE pc' = "done"
      BY <2>6, <2>8 DEF CheckInv, Writes
    <2>9. CASE /\ pc' = "check" /\ UNCHANGED <<accepted, status>>
               /\ pos' = pos + 1 /\ Item.object \in Children(Endpoint) /\ Item.form # "bad"
      <3>1. Checked(pos)'
        BY <1>1, <2>1, <2>9 DEF Checked, Item, Endpoint
      <3> QED
        BY <1>1, <2>1, <2>6, <2>9, <3>1 DEF CheckInv, Writes
    <2>10. CASE /\ pc' = "pre_write" /\ accepted' /\ pos' = 0 /\ AtEnd
                /\ UNCHANGED <<data, status>>
      <3>1. Checked(Size)'
        BY <1>1, <2>1, <2>10 DEF Checked, AtEnd, Endpoint, Size
      <3>2. \A o \in Objects : data'[o] # base'[o] => o \in Arrays /\ o \in Named(Size)'
        BY <1>1, <2>2, <2>10 DEF Arrays, Named, Size
      <3> QED
        BY <1>1, <2>6, <2>10, <3>1, <3>2 DEF CheckInv, Writes
    <2> QED
      BY <2>7, <2>8, <2>9, <2>10
  <1> QED
    BY <1>2, <1>3

LEMMA CheckAccepted ==
    TypeInv /\ CheckInv /\ (PreWrite \/ UpdateWrite \/ PostWrite \/ UpdateNotify \/ UpdateNotifyCall)
        => CheckInv'
  <1> SUFFICES ASSUME TypeInv, CheckInv,
                      PreWrite \/ UpdateWrite \/ PostWrite \/ UpdateNotify \/ UpdateNotifyCall
               PROVE  CheckInv'
    OBVIOUS
  <1>1. UNCHANGED <<req, accepted>> /\ accepted /\ pc # "done"
    BY DEF PreWrite, UpdateWrite, PostWrite, UpdateNotify, UpdateNotifyCall, Step, CheckInv, Writes
  <1>2. \/ pc' = "done"
        \/ pc' \in Writes \ {"check", "pre_write"} /\ status' = status
    BY DEF PreWrite, UpdateWrite, FailInto, PostWrite, UpdateNotify, UpdateNotifyCall, Writes,
           Goto, Finish
  <1>3. pc' = "write" => Checked(Size)'
    <2>1. pc' = "write" => pc \in {"pre_write", "write"}
      BY DEF PreWrite, UpdateWrite, FailInto, PostWrite, UpdateNotify, UpdateNotifyCall, Goto, Finish
    <2> QED
      BY <1>1, <2>1 DEF CheckInv, Checked, Size, Endpoint
  <1>4. CheckPassWritesOnlyArrays'
    BY <1>1 DEF CheckPassWritesOnlyArrays
  <1> QED
    BY <1>1, <1>2, <1>3, <1>4 DEF CheckInv, Writes

LEMMA CheckInvariance == Spec => []CheckInv
  <1>1. Init => CheckInv
    BY DEF Init, CheckInv, Writes, CheckPassWritesOnlyArrays
  <1>2. TypeInv /\ CheckInv /\ [Next]_vars => CheckInv'
    <2> SUFFICES ASSUME TypeInv, CheckInv, [Next]_vars PROVE CheckInv'
      OBVIOUS
    <2>1. CASE UNCHANGED vars
      BY <2>1 DEF vars, CheckInv, Checked, Named, Size, CheckPassWritesOnlyArrays, Writing, Endpoint
    <2>2. CASE Next
      BY <2>2, CheckOutside, CheckOthers, CheckChecks, CheckAccepted DEF Next, Process
    <2> QED
      BY <2>1, <2>2
  <1> QED
    BY <1>1, <1>2, TypeInvariance, PTL DEF Spec

(* Until the whole payload has been accepted nothing has changed but the   *)
(* elements of arrays it names, whatever becomes of the request.           *)
THEOREM OnlyArraysWritten == Spec => []CheckPassWritesOnlyArrays
  <1>1. CheckInv => CheckPassWritesOnlyArrays
    BY DEF CheckInv
  <1> QED
    BY <1>1, CheckInvariance, PTL

-----------------------------------------------------------------------------
(***************************************************************************)
(* The write pass: the objects among the first n items have the value of   *)
(* the last item that names them, and what no item names is as it was.     *)
(***************************************************************************)
LastAt(o, i, n) ==
    /\ i \in 1 .. n /\ req.items[i].object = o
    /\ \A j \in i + 1 .. n : req.items[j].object # o

AppliedTo(n) ==
    /\ \A o \in Objects : o \in Named(n) =>
          \E i \in 1 .. n : LastAt(o, i, n) /\ data[o] = req.items[i].val
    /\ \A o \in Objects : o \notin Named(Size) => data[o] = base[o]

ApplyInv ==
    /\ pc = "write" => AppliedTo(pos)
    /\ pc \in {"post_write", "notify", "notify_call"} => data = Applied
    /\ AllOrNothing

LEMMA AllApplied ==
    ASSUME TypeInv, req \in RequestSet, AppliedTo(Size)
    PROVE  data = Applied
  <1> DEFINE last(o) == {i \in 1 .. Len(req.items) :
                            /\ req.items[i].object = o
                            /\ \A j \in i + 1 .. Len(req.items) : req.items[j].object # o}
             applied(o) == IF last(o) = {} THEN base[o]
                           ELSE req.items[CHOOSE i \in last(o) : TRUE].val
  <1>1. Size \in Nat
    BY DEF Size, RequestSet
  <1>2. \A o : last(o) = {i \in 1 .. Size : LastAt(o, i, Size)}
    BY DEF LastAt, Size
  <1>3. Applied = [o \in Objects |-> applied(o)]
    BY DEF Applied
  <1> HIDE DEF last
  <1>4. ASSUME NEW o \in Objects PROVE data[o] = applied(o)
    <2>1. CASE o \notin Named(Size)
      <3>1. last(o) = {}
        BY <1>2, <2>1 DEF LastAt, Named
      <3> QED
        BY <2>1, <3>1 DEF AppliedTo
    <2>2. CASE o \in Named(Size)
      <3>1. PICK i \in 1 .. Size : LastAt(o, i, Size) /\ data[o] = req.items[i].val
        BY <2>2 DEF AppliedTo
      <3>2. \A k \in 1 .. Size : LastAt(o, k, Size) => k = i
        <4> SUFFICES ASSUME NEW k \in 1 .. Size, LastAt(o, k, Size), k # i PROVE FALSE
          OBVIOUS
        <4>1. k \in i + 1 .. Size \/ i \in k + 1 .. Size
          BY <1>1
        <4> QED
          BY <3>1, <4>1 DEF LastAt
      <3>3. last(o) = {i}
        BY <1>2, <3>1, <3>2
      <3>4. (CHOOSE k \in last(o) : TRUE) = i
        BY <3>3
      <3> QED
        BY <3>1, <3>3, <3>4
    <2> QED
      BY <2>1, <2>2
  <1>5. data \in [Objects -> Values]
    BY DEF TypeInv, TypeOK
  <1> HIDE DEF applied
  <1> QED
    BY <1>3, <1>4, <1>5

(* Items the check pass can judge all decode. *)
LEMMA JudgedItems ==
    ASSUME TypeInv, CheckInv, Checkable, pc = "write", ~AtEnd
    PROVE  Item.form = "good"
  <1>1. Item \in Items /\ pos + 1 \in 1 .. Size /\ Item = req.items[pos + 1]
    BY Underway DEF Item, Size
  <1>2. Item.form # "bad" /\ Item.form # "late"
    BY <1>1 DEF CheckInv, Checked, Checkable, Size
  <1> QED
    BY <1>1, <1>2 DEF Items

(* A payload without arrays is unwritten as long as it is not accepted.    *)
LEMMA UnwrittenUnjudged ==
    ASSUME TypeInv, Checkable,
           \A o \in Objects : data[o] # base[o] => o \in Arrays /\ o \in Named(Size)
    PROVE  data = base
  <1>1. \A o \in Objects : data[o] = base[o]
    BY DEF Checkable, Named, Size
  <1>2. data \in [Objects -> Values] /\ base \in [Objects -> Values]
    BY DEF TypeInv, TypeOK
  <1> QED
    BY <1>1, <1>2

LEMMA SameApplied == UNCHANGED <<req, base>> => Applied' = Applied
  BY DEF Applied

LEMMA ApplySame ==
    ASSUME ApplyInv, UNCHANGED <<pc, status, req, data, base, pos>>
    PROVE  ApplyInv'
  <1>1. Applied' = Applied
    BY SameApplied
  <1>2. AppliedTo(pos) => AppliedTo(pos)'
    BY DEF AppliedTo, Named, Size, LastAt
  <1>3. AllOrNothing'
    BY <1>1 DEF ApplyInv, AllOrNothing, Writing, Checkable
  <1> QED
    BY <1>1, <1>2, <1>3 DEF ApplyInv

LEMMA ApplyOthers ==
    ASSUME TypeInv, CheckInv, ApplyInv,
           Get \/ Names \/ Fetch \/ FetchItem \/ Exec \/ ExecParameter \/ ExecCall \/ CreateDelete
    PROVE  ApplyInv'
  <1>1. req' = req /\ pc \in (Methods \ {"update"}) \cup {"items", "params", "call"}
    BY DEF Get, Names, Fetch, FetchItem, Exec, ExecParameter, ExecCall, CreateDelete, Step, Methods
  <1>2. req.method # "update"
    BY <1>1 DEF TypeInv, Place, Methods
  <1>3. pc' \in {"done", "items", "params", "call"}
    BY DEF Get, GetGroup, GetValue, Names, Fetch, FetchItem, Exec, ExecParameter, FailInto, ExecCall,
           CreateDelete, Finish, Goto, TooLarge
  <1> QED
    BY <1>1, <1>2, <1>3 DEF ApplyInv, AllOrNothing, Writing

LEMMA ApplyOutside == TypeInv /\ ApplyInv /\ (Setters \/ Receive \/ Respond) => ApplyInv'
  <1> SUFFICES ASSUME TypeInv, ApplyInv, Setters \/ Receive \/ Respond PROVE ApplyInv'
    OBVIOUS
  <1>1. CASE Setters
    BY <1>1, ApplySame DEF Setters, SetAuthentication, SetUpdateSubsets, SetUpdateCb, request
  <1>2. CASE Receive
    <2>1. PICK r \in PeerRequests : /\ req' = r
                                    /\ IF r.endpoint = NoObject
                                       THEN pc' = "done" /\ status' = "not_found"
                                       ELSE pc' = r.method /\ status' = "none"
      BY <1>2 DEF Receive
    <2>2. r.method \in Methods
      BY ConstantsAssumption DEF RequestSet
    <2>3. pc' \in Methods \cup {"done"} /\ (pc' = "done" => ~Writing')
      BY <2>1, <2>2 DEF Writing, Methods
    <2> QED
      BY <2>3 DEF ApplyInv, AllOrNothing, Methods
  <1>3. CASE Respond
    BY <1>3 DEF Respond, ApplyInv, AllOrNothing
  <1> QED
    BY <1>1, <1>2, <1>3

(* No response before the write pass is "changed", and it finds the data   *)
(* unwritten if the payload can be judged.                                 *)
LEMMA ApplyChecks ==
    TypeInv /\ CheckInv /\ CheckInv' /\ ApplyInv /\ (Update \/ UpdateCheck) => ApplyInv'
  <1> SUFFICES ASSUME TypeInv, CheckInv, CheckInv', ApplyInv, Update \/ UpdateCheck PROVE ApplyInv'
    OBVIOUS
  <1>1. /\ UNCHANGED <<req, base>> /\ req.method = "update" /\ Endpoint # NoObject
        /\ pc' \in {"check", "pre_write", "done"}
    BY Underway, ConstantsAssumption DEF Update, UpdateCheck, Step, TypeInv, Place, Methods, Goto,
                                         Finish
  <1>2. pc' = "done" => ~accepted' /\ status' # "changed"
    BY DEF Update, UpdateCheck, Goto, Finish, NotFound, Denied, DecodeErrors, CheckInv, TypeInv,
           Place, Methods
  <1>3. ASSUME pc' = "done", Checkable' PROVE data' = base'
    <2>1. \A o \in Objects : data'[o] # base'[o] =>
             o \in Arrays /\ \E i \in 1 .. Len(req.items) : req.items[i].object = o
      BY <1>1, <1>2, <1>3 DEF CheckInv, CheckPassWritesOnlyArrays, Writing, Endpoint, Arrays
    <2>2. \A o \in Objects : data'[o] = base'[o]
      BY <1>1, <1>3, <2>1 DEF Checkable
    <2>3. data' \in [Objects -> Values] /\ base' \in [Objects -> Values]
      <3>1. TypeInv'
        BY UpdateCheckType
      <3> QED
        BY <3>1 DEF TypeInv, TypeOK
    <2> QED
      BY <2>2, <2>3
  <1> QED
    BY <1>1, <1>2, <1>3 DEF ApplyInv, AllOrNothing

LEMMA ApplyWrites ==
    TypeInv /\ CheckInv /\ ApplyInv /\ (PreWrite \/ UpdateWrite) => ApplyInv'
  <1> SUFFICES ASSUME TypeInv, CheckInv, ApplyInv, PreWrite \/ UpdateWrite PROVE ApplyInv'
    OBVIOUS
  <1>1. /\ UNCHANGED <<req, base>> /\ req \in RequestSet /\ Size \in Nat
        /\ pos \in 0 .. Size /\ data \in [Objects -> Values]
    BY Underway DEF PreWrite, UpdateWrite, Step, Size, TypeInv, TypeOK
  <1>2. pc' \in {"write", "post_write", "done"} /\ (pc' = "done" => status' # "changed")
    BY DEF PreWrite, UpdateWrite, FailInto, Goto, Finish, DecodeErrors
  <1>3. CASE PreWrite
    <2>1. /\ pos = 0 /\ UNCHANGED <<pos, data>> /\ pc' \in {"write", "done"}
          /\ \A o \in Objects : data[o] # base[o] => o \in Arrays /\ o \in Named(Size)
      BY <1>3 DEF PreWrite, CheckInv, Goto, Finish
    <2>2. AppliedTo(pos)'
      BY <1>1, <2>1 DEF AppliedTo, Named, Size
    <2>3. Checkable' => data' = base'
      BY <1>1, <2>1, UnwrittenUnjudged DEF Checkable
    <2> QED
      BY <1>2, <2>1, <2>2, <2>3 DEF ApplyInv, AllOrNothing
  <1>4. CASE UpdateWrite
    <2>1. pc = "write" /\ AppliedTo(pos) /\ Checked(Size)
      BY <1>4 DEF UpdateWrite, ApplyInv, CheckInv
    <2>2. CASE ~AtEnd /\ Item.form = "good"
      <3>1. /\ data' = [data EXCEPT ![Item.object] = Item.val]
            /\ pos' = pos + 1 /\ pc' = "write" /\ pos + 1 \in 1 .. Size
            /\ Item = req.items[pos + 1]
        BY <1>4, <2>1, <2>2, Underway DEF UpdateWrite, Write, Goto, Item, Size
      <3>2. Item.object \in Objects /\ Item.object \in Named(Size)
        BY <2>1, <3>1 DEF Checked, Children, Named
      <3>3. data'[Item.object] = Item.val /\ \A o \in Objects : o # Item.object => data'[o] = data[o]
        BY <1>1, <3>1, <3>2
      <3>4. ASSUME NEW o \in Objects, o \in Named(pos + 1)
            PROVE  \E i \in 1 .. pos + 1 : LastAt(o, i, pos + 1) /\ data'[o] = req.items[i].val
        <4>1. CASE o = Item.object
          <5>1. LastAt(o, pos + 1, pos + 1) /\ data'[o] = req.items[pos + 1].val
            BY <1>1, <3>1, <3>3, <4>1 DEF LastAt
          <5> QED
            BY <1>1, <5>1
        <4>2. CASE o # Item.object
          <5>1. o \in Named(pos)
            BY <1>1, <3>1, <3>4, <4>2 DEF Named
          <5>2. PICK i \in 1 .. pos : LastAt(o, i, pos) /\ data[o] = req.items[i].val
            BY <2>1, <5>1 DEF AppliedTo
          <5>3. LastAt(o, i, pos + 1)
            BY <1>1, <3>1, <4>2, <5>2 DEF LastAt
          <5> QED
            BY <1>1, <3>3, <4>2, <5>2, <5>3
        <4> QED
          BY <4>1, <4>2
      <3>5. \A o \in Objects : o \notin Named(Size) => data'[o] = base[o]
        BY <2>1, <3>2, <3>3 DEF AppliedTo
      <3>6. AppliedTo(pos)'
        BY <1>1, <3>1, <3>4, <3>5 DEF AppliedTo, Named, LastAt, Size
      <3> QED
        BY <3>1, <3>6 DEF ApplyInv, AllOrNothing
    <2>3. CASE ~AtEnd /\ Item.form # "good"
      <3>1. ~Checkable'
        BY <1>1, <2>1, <2>3, JudgedItems DEF Checkable
      <3>2. pc' = "done"
        BY <1>4, <2>3 DEF UpdateWrite, FailInto, Finish
      <3> QED
        BY <1>2, <3>1, <3>2 DEF ApplyInv, AllOrNothing
    <2>4. CASE AtEnd
      <3>1. pos = Size /\ UNCHANGED data /\ pc' = "post_write"
        BY <1>4, <2>4 DEF UpdateWrite, AtEnd, Size, Goto
      <3>2. data' = Applied'
        BY <1>1, <2>1, <3>1, AllApplied, SameApplied
      <3> QED
        BY <3>1, <3>2 DEF ApplyInv, AllOrNothing
    <2> QED
      BY <2>2, <2>3, <2>4
  <1> QED
    BY <1>3, <1>4

LEMMA ApplyNotifies ==
    TypeInv /\ ApplyInv /\ (PostWrite \/ UpdateNotify \/ UpdateNotifyCall) => ApplyInv'
  <1> SUFFICES ASSUME TypeInv, ApplyInv, PostWrite \/ UpdateNotify \/ UpdateNotifyCall PROVE ApplyInv'
    OBVIOUS
  <1>1. UNCHANGED <<req, base, data>> /\ data = Applied
    BY DEF PostWrite, UpdateNotify, UpdateNotifyCall, Step, ApplyInv
  <1>2. data' = Applied'
    BY <1>1, SameApplied
  <1>3. pc' \in {"notify", "notify_call", "done"}
    BY DEF PostWrite, UpdateNotify, UpdateNotifyCall, Goto, Finish
  <1> QED
    BY <1>2, <1>3 DEF ApplyInv, AllOrNothing

LEMMA ApplyInvariance == Spec => []ApplyInv
  <1>1. Init => ApplyInv
    BY DEF Init, ApplyInv, AllOrNothing
  <1>2. TypeInv /\ CheckInv /\ CheckInv' /\ ApplyInv /\ [Next]_vars => ApplyInv'
    <2> SUFFICES ASSUME TypeInv, CheckInv, CheckInv', ApplyInv, [Next]_vars PROVE ApplyInv'
      OBVIOUS
    <2>1. CASE UNCHANGED vars
      BY <2>1, ApplySame DEF vars
    <2>2. CASE Next
      BY <2>2, ApplyOutside, ApplyOthers, ApplyChecks, ApplyWrites, ApplyNotifies DEF Next, Process
    <2> QED
      BY <2>1, <2>2
  <1> QED
    BY <1>1, <1>2, TypeInvariance, CheckInvariance, PTL DEF Spec

(* "changed" means that every item of the payload has its value, and what  *)
(* the check pass can judge is written completely or not at all.           *)
THEOREM UpdateIsAtomic == Spec => []AllOrNothing
  <1>1. ApplyInv => AllOrNothing
    BY DEF ApplyInv
  <1> QED
    BY <1>1, ApplyInvariance, PTL

----------------------------------------------------------------------------
(***************************************************************************)
(* The update callback, and every use of thingset_set_update_callback      *)
(* beside the requests.                                                    *)
(***************************************************************************)

(* Nobody has called thingset_set_update_callback since the request began. *)
Quiet == watches = {Watch}

Marks(S) == S \cap Watched(mask) # {}
Reason == \E w \in watches : Written \cap Watched(w.subsets) # {}

(***************************************************************************)
(* The local variable updated, against the objects that are written.  In   *)
(* the write pass it knows of the items behind pos, but arrays may already *)
(* have been written by the check pass; at the end both are all items.     *)
(***************************************************************************)
NotifyInv ==
    /\ updated => pc \in {"write", "post_write", "notify", "notify_call", "done"} /\ Reason
    /\ pc = "notify_call" \/ Did("update_cb") # {} => updated
    /\ pc \in {"check", "pre_write", "write"} => Written \subseteq Named(Size)
    /\ pc = "write" => Named(pos) \subseteq Written /\ (Quiet => (updated <=> Marks(Named(pos))))
    /\ pc \in {"post_write", "notify"} => (Quiet => (updated <=> Marks(Written)))
    /\ pc = "notify_call" => (Quiet => Marks(Written) /\ updateCb # NoCb)
    /\ ChangedMeansNotified

(* What the events of UPDATE add to the objects written.                   *)
LEMMA WrittenNext ==
    ASSUME TypeInv, NEW e \in Events, Record(<<e>>)
    PROVE  /\ Written' = IF e.what = "write" THEN Written \cup {e.arg} ELSE Written
           /\ e.what # "update_cb" => Did("update_cb")' = Did("update_cb")
           /\ e.what = "update_cb" => Did("update_cb")' # {}
  <1>1. /\ \A what : Did(what)' = Did(what) \cup (IF e.what = what THEN {Len(log) + 1} ELSE {})
        /\ \A i \in 1 .. Len(log) : log'[i] = log[i]
        /\ log'[Len(log) + 1] = e
        /\ Len(log) \in Nat /\ \A what : Did(what) \subseteq 1 .. Len(log)
    BY DidNext
  <1>2. \A i \in Did("write") : log'[i] = log[i]
    BY <1>1
  <1>3. Written' = {log'[i].arg : i \in Did("write")'}
    BY DEF Written
  <1>4. CASE e.what = "write"
    <2>1. Did("write")' = Did("write") \cup {Len(log) + 1}
      BY <1>1, <1>4
    <2>2. Written' = {log'[i].arg : i \in Did("write")} \cup {e.arg}
      BY <1>1, <1>3, <2>1
    <2>3. {log'[i].arg : i \in Did("write")} = Written
      BY <1>2 DEF Written
    <2>4. Written' = Written \cup {e.arg}
      BY <2>2, <2>3
    <2>5. Did("update_cb")' = Did("update_cb")
      BY <1>1, <1>4
    <2> QED
      BY <1>4, <2>4, <2>5
  <1>5. CASE e.what # "write"
    <2>1. Did("write")' = Did("write")
      BY <1>1, <1>5
    <2> QED
      BY <1>1, <1>2, <1>3, <1>5, <2>1 DEF Written
  <1> QED
    BY <1>4, <1>5

LEMMA WriteNext ==
    ASSUME TypeInv, Endpoint \in Objects, NEW o \in Pointers, NEW v \in Values, Write(o, v)
    PROVE  Written' = Written \cup {o} /\ Did("update_cb")' = Did("update_cb")
  <1>1. Event("write", Endpoint, o) \in Events
    BY EventType DEF Deeds, Pointers
  <1> QED
    BY <1>1, WrittenNext DEF Write, Event

LEMMA CallBackNext ==
    ASSUME TypeInv, Endpoint \in Objects, NEW reason \in Reasons, NEW arg \in Pointers,
           Record(CallBack(reason, Endpoint, arg))
    PROVE  Written' = Written /\ Did("update_cb")' = Did("update_cb")
  <1>1. Event(reason, Endpoint, arg) \in Events
    BY EventType DEF Deeds, Pointers
  <1>2. CASE IsCalledBack(Endpoint)
    BY <1>1, <1>2, WrittenNext DEF CallBack, Event, Reasons
  <1>3. CASE ~IsCalledBack(Endpoint)
    <2>1. log' = log
      BY <1>3, ConcatProperties DEF CallBack, Record, TypeInv, TypeOK
    <2> QED
      BY <2>1 DEF Written, Did
  <1> QED
    BY <1>2, <1>3

LEMMA SameLog == log' = log => Written' = Written /\ Did("update_cb")' = Did("update_cb")
  BY DEF Written, Did

(* A step of the request alone leaves what is watched alone.               *)
LEMMA WatchedNext ==
    ASSUME Step, subsets' = subsets
    PROVE  /\ Quiet' = Quiet /\ Watched(mask)' = Watched(mask) /\ updateCb' = updateCb
           /\ Written \subseteq Written' /\ Reason => Reason'
           /\ Written' = Written => Marks(Written)' = Marks(Written)
  <1>1. watches' = watches /\ mask' = mask /\ updateCb' = updateCb /\ Watch' = Watch
    BY DEF Step, app, Watch
  <1>2. \A m : Watched(m)' = Watched(m)
    BY DEF Watched
  <1> QED
    BY <1>1, <1>2 DEF Quiet, Marks, Watched, Reason

-----------------------------------------------------------------------------
(* The setters run beside a request: what was watched stays a reason, and  *)
(* if all is quiet after one of them nothing has changed.                  *)
LEMMA NotifySetters == TypeInv /\ NotifyInv /\ Setters => NotifyInv'
  <1> SUFFICES ASSUME TypeInv, NotifyInv, Setters PROVE NotifyInv'
    OBVIOUS
  <1>1. UNCHANGED <<subsets, pc, req, pos, updated, status, log>> /\ watches \subseteq watches'
    BY DEF Setters, SetAuthentication, SetUpdateSubsets, SetUpdateCb, request
  <1>2. Watch \in watches
    BY DEF TypeInv, TypeOK
  <1>3. Quiet' => Quiet /\ Watch' = Watch
    BY <1>1, <1>2 DEF Quiet
  <1>4. Watch' = Watch => mask' = mask /\ updateCb' = updateCb
    BY DEF Watch
  <1>5. Written' = Written /\ Did("update_cb")' = Did("update_cb")
    BY <1>1, SameLog
  <1>6. \A m : Watched(m)' = Watched(m)
    BY <1>1 DEF Watched
  <1>7. Reason => Reason'
    BY <1>1, <1>5, <1>6 DEF Reason, Watched
  <1>8. \A n : Named(n)' = Named(n)
    BY <1>1 DEF Named
  <1>9. Quiet' => /\ Marks(Written)' = Marks(Written)
                  /\ Marks(Named(pos))' = Marks(Named(pos))
    BY <1>1, <1>3, <1>4, <1>5, <1>8 DEF Marks, Watched
  <1>10. ChangedMeansNotified'
    <2> SUFFICES ASSUME Writing', status' = "changed", Quiet'
                 PROVE  (Did("update_cb") # {} <=> Marks(Written) /\ updateCb # NoCb)'
      BY DEF ChangedMeansNotified, Quiet, Marks
    <2>1. Writing /\ status = "changed" /\ Quiet
      BY <1>1, <1>3 DEF Writing
    <2>2. Did("update_cb") # {} <=> Marks(Written) /\ updateCb # NoCb
      BY <2>1 DEF NotifyInv, ChangedMeansNotified, Quiet, Marks
    <2> QED
      BY <1>3, <1>4, <1>5, <1>9, <2>2
  <1>11. /\ Named(pos)' = Named(pos) /\ Named(Size)' = Named(Size)
    BY <1>1, <1>8 DEF Size, Named
  <1> QED
    BY <1>1, <1>3, <1>4, <1>5, <1>7, <1>9, <1>10, <1>11 DEF NotifyInv

LEMMA NotifyOutside == TypeInv /\ NotifyInv /\ (Receive \/ Respond) => NotifyInv'
  <1> SUFFICES ASSUME TypeInv, NotifyInv, Receive \/ Respond PROVE NotifyInv'
    OBVIOUS
  <1>1. log' = <<>>
    BY DEF Receive, Respond, TypeInv, Place
  <1>2. Written' = {} /\ Did("update_cb")' = {}
    BY <1>1 DEF Written, Did
  <1>3. ~updated'
    BY DEF Receive, Respond, NotifyInv
  <1>4. pc' \in Methods \cup {"idle", "done"} /\ status' # "changed"
    <2>1. CASE Respond
      BY <2>1 DEF Respond
    <2>2. CASE Receive
      <3>1. PICK r \in PeerRequests : IF r.endpoint = NoObject
                                      THEN pc' = "done" /\ status' = "not_found"
                                      ELSE pc' = r.method /\ status' = "none"
        BY <2>2 DEF Receive
      <3>2. r.method \in Methods
        BY ConstantsAssumption DEF RequestSet
      <3> QED
        BY <3>1, <3>2
    <2> QED
      BY <2>1, <2>2
  <1> QED
    BY <1>2, <1>3, <1>4 DEF NotifyInv, ChangedMeansNotified, Methods

LEMMA NotifyOthers ==
    ASSUME TypeInv, OrderInv', NotifyInv,
           Get \/ Names \/ Fetch \/ FetchItem \/ Exec \/ ExecParameter \/ ExecCall \/ CreateDelete
    PROVE  NotifyInv'
  <1>1. /\ req' = req /\ updated' = updated
        /\ pc \in (Methods \ {"update"}) \cup {"items", "params", "call"}
    BY DEF Get, Names, Fetch, FetchItem, Exec, ExecParameter, ExecCall, CreateDelete, Step, Methods
  <1>2. req.method # "update" /\ ~updated
    BY <1>1 DEF TypeInv, Place, Methods, NotifyInv
  <1>3. pc' \in {"done", "items", "params", "call"}
    BY DEF Get, GetGroup, GetValue, Names, Fetch, FetchItem, Exec, ExecParameter, FailInto, ExecCall,
           CreateDelete, Finish, Goto, TooLarge
  <1>4. Did("update_cb")' = {}
    BY <1>1, <1>2 DEF OrderInv
  <1> QED
    BY <1>1, <1>2, <1>3, <1>4 DEF NotifyInv, ChangedMeansNotified, Writing

LEMMA NotifyChecks ==
    TypeInv /\ OrderInv /\ CheckInv' /\ NotifyInv /\ (Update \/ UpdateCheck) => NotifyInv'
  <1> SUFFICES ASSUME TypeInv, OrderInv, CheckInv', NotifyInv, Update \/ UpdateCheck
               PROVE  NotifyInv'
    OBVIOUS
  <1>1. /\ UNCHANGED <<req, updated>> /\ ~updated
        /\ Endpoint \in Objects /\ pc \in {"update", "check"}
        /\ Did("update_cb") = {}
    BY Underway DEF Update, UpdateCheck, Step, NotifyInv, OrderInv, Before
  <1>2. pc' \in {"check", "pre_write", "done"} /\ (pc' = "done" => status' # "changed")
    BY DEF Update, UpdateCheck, Goto, Finish, NotFound, Denied, DecodeErrors
  <1>3. status' # "changed"
    BY <1>2 DEF CheckInv
  <1>4. Written' \subseteq Named(Size)' /\ Did("update_cb")' = {}
    <2>1. CASE Update
      <3>1. log' = log /\ log = <<>>
        BY <2>1 DEF Update, TypeInv, Place, Methods
      <3> QED
        BY <3>1 DEF Written, Did
    <2>2. CASE UpdateCheck
      <3>1. Written \subseteq Named(Size) /\ Named(Size)' = Named(Size)
        BY <1>1, <2>2 DEF UpdateCheck, NotifyInv, Named, Size
      <3>2. ASSUME NEW v \in Values, ~AtEnd, CheckInto(Item.object, v)
            PROVE  Written' \subseteq Named(Size)' /\ Did("update_cb")' = {}
        <4>1. Item.object \in Pointers /\ Item.object \in Named(Size)
          BY <1>1, <3>2, Underway DEF Named, Size, Item
        <4>2. CASE Type[Item.object] = "array"
          BY <1>1, <3>1, <3>2, <4>1, <4>2, WriteNext DEF CheckInto
        <4>3. CASE Type[Item.object] # "array"
          BY <1>1, <3>1, <3>2, <4>3, SameLog DEF CheckInto
        <4> QED
          BY <4>2, <4>3
      <3>3. log' = log => Written' \subseteq Named(Size)' /\ Did("update_cb")' = {}
        BY <1>1, <3>1, SameLog
      <3>4. ~AtEnd => Item.val \in Values
        BY <1>1, Underway
      <3> QED
        BY <2>2, <3>2, <3>3, <3>4 DEF UpdateCheck, Found
    <2> QED
      BY <2>1, <2>2
  <1>5. ChangedMeansNotified'
    BY <1>3 DEF ChangedMeansNotified
  <1> QED
    BY <1>1, <1>2, <1>4, <1>5 DEF NotifyInv

LEMMA NotifyPreWrite ==
    TypeInv /\ OrderInv /\ CheckInv /\ NotifyInv /\ PreWrite => NotifyInv'
  <1> SUFFICES ASSUME TypeInv, OrderInv, CheckInv, NotifyInv, PreWrite PROVE NotifyInv'
    OBVIOUS
  <1>1. /\ pc = "pre_write" /\ Step /\ UNCHANGED <<subsets, req, pos, updated>>
        /\ ~updated /\ pos = 0 /\ Endpoint \in Objects /\ object \in Pointers
        /\ status = "none" /\ Did("update_cb") = {}
    BY Underway DEF PreWrite, Step, NotifyInv, CheckInv, OrderInv, Before
  <1>2. pc' \in {"write", "done"} /\ status' # "changed"
    BY <1>1 DEF PreWrite, Goto, Finish
  <1>3. Written' = Written /\ Did("update_cb")' = Did("update_cb")
    BY <1>1, CallBackNext DEF PreWrite, Reasons
  <1>4. /\ Named(pos) = {} /\ Named(pos)' = Named(pos) /\ Named(Size)' = Named(Size)
        /\ ~Marks({}) /\ ~Marks({})'
    BY <1>1 DEF Named, Size, Marks
  <1>5. ~Marks(Named(pos))'
    BY <1>4 DEF Marks
  <1>6. Written' \subseteq Named(Size)'
    BY <1>1, <1>3, <1>4 DEF NotifyInv
  <1> QED
    BY <1>1, <1>2, <1>3, <1>4, <1>5, <1>6 DEF NotifyInv, ChangedMeansNotified

LEMMA NotifyWrite ==
    TypeInv /\ OrderInv /\ CheckInv /\ NotifyInv /\ UpdateWrite => NotifyInv'
  <1> SUFFICES ASSUME TypeInv, OrderInv, CheckInv, NotifyInv, UpdateWrite PROVE NotifyInv'
    OBVIOUS
  <1>1. /\ pc = "write" /\ Step /\ subsets' = subsets /\ req' = req
        /\ Endpoint \in Objects /\ Checked(Size) /\ Watch \in watches
        /\ pos \in 0 .. Size /\ Size \in Nat
        /\ status = "none" /\ Did("update_cb") = {}
    BY Underway DEF UpdateWrite, Step, CheckInv, OrderInv, Before, TypeInv, TypeOK, Size
  <1>2. /\ Written \subseteq Named(Size) /\ Named(pos) \subseteq Written
        /\ Quiet => (updated <=> Marks(Named(pos)))
        /\ updated => Reason
    BY <1>1 DEF NotifyInv
  <1>3. /\ Named(Size)' = Named(Size) /\ \A n : Named(n)' = Named(n)
        /\ mask' = mask /\ watches' = watches /\ Quiet' = Quiet /\ Watch' = Watch
        /\ \A m : Watched(m)' = Watched(m)
    BY <1>1 DEF Named, Size, Step, app, Quiet, Watch, Watched
  <1>4. Written \subseteq Written' /\ Reason => Reason'
    BY <1>3 DEF Reason, Watched
  <1>5. pc' \in {"write", "post_write", "done"} /\ status' # "changed"
    BY <1>1 DEF UpdateWrite, FailInto, Goto, Finish, DecodeErrors
  <1>6. CASE ~AtEnd /\ Item.form = "good"
    <2> DEFINE o == Item.object
    <2>1. /\ pos' = pos + 1 /\ pc' = "write" /\ Write(o, Item.val) /\ updated' = IsUpdated(o)
          /\ pos + 1 \in 1 .. Size /\ o = req.items[pos + 1].object
          /\ o \in Pointers /\ Item.val \in Values
      BY <1>1, <1>6, Underway DEF UpdateWrite, Goto, Size, Item
    <2>2. o \in Objects /\ o \in Named(Size)
      BY <1>1, <2>1 DEF Checked, Children, Named
    <2>3. Written' = Written \cup {o} /\ Did("update_cb")' = {}
      BY <1>1, <2>1, WriteNext
    <2>4. Named(pos + 1) = Named(pos) \cup {o}
      BY <1>1, <2>1 DEF Named
    <2>5. Named(pos') = Named(pos) \cup {o}
      BY <2>1, <2>4
    <2>6. Named(pos)' = Named(pos) \cup {o}
      BY <1>1, <2>5 DEF Named
    <2> HIDE DEF o
    <2>7. o \in Watched(mask) <=> mask \cap subsets[o] # {}
      BY <2>2 DEF Watched
    <2>8. updated' <=> updated \/ o \in Watched(mask)
      BY <2>1, <2>7 DEF IsUpdated
    <2>9. Marks(Named(pos))' <=> Marks(Named(pos)) \/ o \in Watched(mask)
      BY <1>3, <2>6 DEF Marks, Watched
    <2>10. o \in Watched(mask) => Reason'
      <3> SUFFICES ASSUME o \in Watched(mask) PROVE Reason'
        OBVIOUS
      <3>1. Watch.subsets = mask
        BY DEF Watch
      <3>2. o \in Written' \cap {x \in Objects : subsets'[x] \cap mask # {}}
        BY <1>1, <2>3 DEF Watched
      <3>3. Written' \cap {x \in Objects : subsets'[x] \cap Watch.subsets # {}} # {}
        BY <3>1, <3>2
      <3>4. Watch \in watches'
        BY <1>1, <1>3
      <3> HIDE DEF Watch
      <3> QED
        BY <3>3, <3>4 DEF Reason, Watched
    <2>11. updated' => Reason'
      BY <1>2, <1>4, <2>3, <2>8, <2>10
    <2>12. (Quiet => (updated <=> Marks(Named(pos))))'
      BY <1>2, <1>3, <2>8, <2>9
    <2>13. Written' \subseteq Named(Size)' /\ Named(pos)' \subseteq Written'
      BY <1>2, <1>3, <2>2, <2>3, <2>6
    <2> QED
      BY <1>5, <2>1, <2>3, <2>11, <2>12, <2>13 DEF NotifyInv, ChangedMeansNotified
  <1>7. CASE ~AtEnd /\ Item.form # "good"
    <2>1. updated' = updated /\ pc' = "done" /\ FailInto(Item.object)
      BY <1>7 DEF UpdateWrite, FailInto, Finish
    <2>2. Written \subseteq Written' /\ Did("update_cb")' = {}
      <3>1. CASE log' = log
        BY <1>1, <3>1, SameLog
      <3>2. CASE \E v \in Values : Write(Item.object, v)
        BY <1>1, <1>7, <3>2, Underway, WriteNext
      <3> QED
        BY <2>1, <3>1, <3>2 DEF FailInto
    <2>3. updated' => Reason'
      BY <1>2, <1>4, <2>1, <2>2
    <2> QED
      BY <1>5, <2>1, <2>2, <2>3 DEF NotifyInv, ChangedMeansNotified
  <1>8. CASE AtEnd
    <2>1. updated' = updated /\ pc' = "post_write" /\ log' = log /\ pos = Size
      BY <1>8 DEF UpdateWrite, Goto, AtEnd, Size
    <2>2. Written' = Written /\ Did("update_cb")' = {} /\ Written = Named(pos)
      BY <1>1, <1>2, <2>1, SameLog
    <2>3. Marks(Written)' = Marks(Named(pos))
      BY <1>3, <2>2 DEF Marks, Watched
    <2>4. updated' => Reason'
      BY <1>2, <1>4, <2>1, <2>2
    <2> QED
      BY <1>2, <1>3, <1>5, <2>1, <2>2, <2>3, <2>4 DEF NotifyInv, ChangedMeansNotified
  <1> QED
    BY <1>6, <1>7, <1>8

LEMMA NotifyNotifies ==
    TypeInv /\ OrderInv /\ CheckInv /\ NotifyInv /\ (PostWrite \/ UpdateNotify \/ UpdateNotifyCall)
        => NotifyInv'
  <1> SUFFICES ASSUME TypeInv, OrderInv, CheckInv, NotifyInv,
                      PostWrite \/ UpdateNotify \/ UpdateNotifyCall
               PROVE  NotifyInv'
    OBVIOUS
  <1>1. /\ pc \in {"post_write", "notify", "notify_call"} /\ Step
        /\ subsets' = subsets /\ req' = req /\ updated' = updated
        /\ Endpoint \in Objects /\ object \in Pointers
        /\ status = "none" /\ Did("update_cb") = {}
    BY Underway DEF PostWrite, UpdateNotify, UpdateNotifyCall, Step, CheckInv, OrderInv, Before
  <1>2. /\ Quiet' = Quiet /\ Watched(mask)' = Watched(mask) /\ updateCb' = updateCb
        /\ Written' = Written => Marks(Written)' = Marks(Written) /\ (updated' => Reason')
    BY <1>1, WatchedNext DEF NotifyInv
  <1>3. CASE PostWrite
    <2>1. Written' = Written /\ Did("update_cb")' = {}
      BY <1>1, <1>3, CallBackNext DEF PostWrite, Reasons
    <2>2. pc = "post_write" /\ pc' \in {"notify", "done"} /\ status' # "changed"
      BY <1>1, <1>3 DEF PostWrite, Goto, Finish
    <2> QED
      BY <1>1, <1>2, <2>1, <2>2 DEF NotifyInv, ChangedMeansNotified
  <1>4. CASE UpdateNotify
    <2>1. Written' = Written /\ Did("update_cb")' = {}
      BY <1>1, <1>4, SameLog DEF UpdateNotify
    <2>2. /\ pc = "notify"
          /\ IF updated /\ updateCb # NoCb THEN pc' = "notify_call" /\ status' = status
                                          ELSE pc' = "done"
      BY <1>4 DEF UpdateNotify, Goto, Finish
    <2>3. Quiet => (updated <=> Marks(Written))
      BY <2>2 DEF NotifyInv
    <2>4. ChangedMeansNotified'
      <3>1. CASE pc' = "notify_call"
        BY <1>1, <2>2, <3>1 DEF ChangedMeansNotified
      <3>2. CASE ~(updated /\ updateCb # NoCb)
        <4>1. Quiet' => ~(Marks(Written)' /\ updateCb' # NoCb)
          BY <1>2, <2>1, <2>3, <3>2
        <4> QED
          BY <2>1, <4>1 DEF ChangedMeansNotified, Quiet, Marks
      <3> QED
        BY <2>2, <3>1, <3>2
    <2> QED
      BY <1>1, <1>2, <2>1, <2>2, <2>3, <2>4 DEF NotifyInv
  <1>5. CASE UpdateNotifyCall
    <2> DEFINE e == Event("update_cb", updateCb, NoObject)
    <2>1. e \in Events /\ Record(<<e>>) /\ e.what = "update_cb"
      <3>1. NoObject \in Pointers /\ updateCb \in Pointers \cup Callbacks /\ "update_cb" \in Deeds
        BY DEF Pointers, Deeds, TypeInv, TypeOK
      <3> QED
        BY <1>5, <3>1, EventType DEF UpdateNotifyCall, Event
    <2> HIDE DEF e
    <2>2. Written' = Written /\ Did("update_cb")' # {}
      BY <2>1, WrittenNext
    <2>3. pc = "notify_call" /\ pc' = "done"
      BY <1>5 DEF UpdateNotifyCall, Finish
    <2>4. Quiet' => Marks(Written)' /\ updateCb' # NoCb
      BY <1>2, <2>2, <2>3 DEF NotifyInv
    <2>5. ChangedMeansNotified'
      BY <2>2, <2>4 DEF ChangedMeansNotified, Quiet, Marks
    <2> QED
      BY <1>1, <1>2, <2>2, <2>3, <2>5 DEF NotifyInv
  <1> QED
    BY <1>3, <1>4, <1>5

LEMMA NotifyInvariance == Spec => []NotifyInv
  <1>1. Init => NotifyInv
    <2> SUFFICES ASSUME Init PROVE NotifyInv
      OBVIOUS
    <2>1. Written = {} /\ Did("update_cb") = {}
      BY NothingType DEF Init, Written, Did
    <2> QED
      BY <2>1 DEF Init, NotifyInv, ChangedMeansNotified
  <1>2. /\ TypeInv /\ OrderInv /\ OrderInv' /\ CheckInv /\ CheckInv'
        /\ NotifyInv /\ [Next]_vars
        => NotifyInv'
    <2> SUFFICES ASSUME TypeInv, OrderInv, OrderInv', CheckInv, CheckInv', NotifyInv, [Next]_vars
                 PROVE  NotifyInv'
      OBVIOUS
    <2>1. CASE UNCHANGED vars
      <3>1. /\ Written' = Written /\ Did("update_cb")' = Did("update_cb")
            /\ Quiet' = Quiet /\ Reason' = Reason
        BY <2>1 DEF vars, Written, Did, Quiet, Watch, Reason, Watched
      <3>2. /\ Named(pos)' = Named(pos) /\ Named(Size)' = Named(Size)
            /\ Watched(mask)' = Watched(mask) /\ Writing' = Writing
        BY <2>1 DEF vars, Named, Size, Watched, Writing
      <3>3. Marks(Named(pos))' = Marks(Named(pos)) /\ Marks(Written)' = Marks(Written)
        BY <3>1, <3>2 DEF Marks
      <3>4. ChangedMeansNotified'
        BY <2>1, <3>1, <3>2 DEF vars, NotifyInv, ChangedMeansNotified, Quiet
      <3> QED
        BY <2>1, <3>1, <3>2, <3>3, <3>4 DEF vars, NotifyInv
    <2>2. CASE Next
      BY <2>2, NotifySetters, NotifyOutside, NotifyOthers, NotifyChecks, NotifyPreWrite,
         NotifyWrite, NotifyNotifies DEF Next, Process
    <2> QED
      BY <2>1, <2>2
  <1> QED
    BY <1>1, <1>2, TypeInvariance, OrderInvariance, CheckInvariance, PTL DEF Spec

(* An UPDATE that succeeds while nobody registers anything notifies of     *)
(* what it wrote, if and only if some of it is watched.                    *)
THEOREM ChangesAreNotified == Spec => []ChangedMeansNotified
  <1>1. NotifyInv => ChangedMeansNotified
    BY DEF NotifyInv
  <1> QED
    BY <1>1, NotifyInvariance, PTL

(* However thingset_set_update_callback runs beside it, UPDATE notifies    *)
(* only of items in subsets that were watched while it ran.                *)
THEOREM NotifiedRightly == Spec => []NotifiedForAReason
  <1>1. NotifyInv => NotifiedForAReason
    BY DEF NotifyInv, NotifiedForAReason, Reason
  <1> QED
    BY <1>1, NotifyInvariance, PTL

----------------------------------------------------------------------------
(***************************************************************************)
(* What EXEC and FETCH give to the application.                            *)
(***************************************************************************)

(***************************************************************************)
(* The parameters up to pos are decoded and in their objects, as no two    *)
(* parameters of a function are the same object.                           *)
(***************************************************************************)
Right(i) ==
    /\ i \in 1 .. Len(Parameters[Endpoint])
    /\ req.items[i].form = "good"
    /\ data[Parameters[Endpoint][i]] = req.items[i].val

ParameterInv ==
    /\ pc \in {"params", "call"} => \A i \in 1 .. pos : Right(i)
    /\ pc = "call" => pos = Len(req.items) /\ pos = Len(Parameters[Endpoint])
    /\ FunctionSeesItsParameters

LEMMA NoCall == Did("call")' = {} /\ pc' \notin {"params", "call"} => ParameterInv'
  BY DEF ParameterInv, FunctionSeesItsParameters

LEMMA OtherParameters ==
    ASSUME TypeInv, OrderInv', Process, ~(Exec \/ ExecParameter \/ ExecCall)
    PROVE  ParameterInv'
  <1>1. req' = req /\ req.method # "exec"
    BY DEF Process, Get, Names, Fetch, FetchItem, Update, UpdateCheck, PreWrite, UpdateWrite,
           PostWrite, UpdateNotify, UpdateNotifyCall, CreateDelete, Step, TypeInv, Place, Methods
  <1>2. pc' \notin {"params", "call"}
    BY DEF Process, Get, GetGroup, GetValue, Names, Fetch, FetchItem, Update, UpdateCheck, PreWrite,
           UpdateWrite, FailInto, PostWrite, UpdateNotify, UpdateNotifyCall, CreateDelete, Goto,
           Finish, TooLarge
  <1>3. Did("call")' = {}
    BY <1>1 DEF OrderInv
  <1> QED
    BY <1>2, <1>3, NoCall

LEMMA OutsideParameters == TypeInv /\ ParameterInv /\ (Setters \/ Receive \/ Respond) => ParameterInv'
  <1> SUFFICES ASSUME TypeInv, ParameterInv, Setters \/ Receive \/ Respond PROVE ParameterInv'
    OBVIOUS
  <1>1. CASE Setters
    <2>1. UNCHANGED <<data, request>>
      BY <1>1 DEF Setters, SetAuthentication, SetUpdateSubsets, SetUpdateCb
    <2>2. Did("call")' = Did("call")
      BY <2>1 DEF request, Did
    <2> QED
      BY <2>1, <2>2 DEF request, ParameterInv, FunctionSeesItsParameters, Right, Endpoint
  <1>2. CASE Receive \/ Respond
    <2>1. log' = <<>>
      BY <1>2 DEF Receive, Respond, TypeInv, Place
    <2>2. Did("call")' = {}
      BY <2>1 DEF Did
    <2>3. pc' \notin {"params", "call"}
      <3>1. CASE Respond
        BY <3>1 DEF Respond
      <3>2. CASE Receive
        <4>1. PICK r \in PeerRequests : pc' \in {"done", r.method}
          BY <3>2 DEF Receive
        <4>2. r.method \in Methods
          BY ConstantsAssumption DEF RequestSet
        <4> QED
          BY <4>1, <4>2 DEF Methods
      <3> QED
        BY <1>2, <3>1, <3>2
    <2> QED
      BY <2>2, <2>3, NoCall
  <1> QED
    BY <1>1, <1>2

LEMMA ExecParameters ==
    TypeInv /\ OrderInv /\ OrderInv' /\ ParameterInv /\ (Exec \/ ExecParameter \/ ExecCall)
        => ParameterInv'
  <1> SUFFICES ASSUME TypeInv, OrderInv, OrderInv', ParameterInv, Exec \/ ExecParameter \/ ExecCall
               PROVE  ParameterInv'
    OBVIOUS
  <1>1. /\ req' = req /\ Endpoint' = Endpoint /\ data \in [Objects -> Values]
        /\ pos \in 0 .. Len(req.items) /\ Len(req.items) \in Nat
    BY Underway DEF Exec, ExecParameter, ExecCall, Step, Endpoint, TypeInv, TypeOK
  <1>2. Did("call") = {}
    BY DEF Exec, ExecParameter, ExecCall, OrderInv, Before
  <1>3. CASE Exec
    <2>1. /\ pos' = 0 /\ pc' \in {"params", "done"} /\ log' = log
      BY <1>3 DEF Exec, Goto, Finish, TypeInv, Place, Methods
    <2>2. Did("call")' = {}
      BY <1>2, <2>1 DEF Did
    <2> QED
      BY <2>1, <2>2 DEF ParameterInv, FunctionSeesItsParameters
  <1>4. CASE ExecParameter
    <2> DEFINE parameters == Parameters[Endpoint]
    <2>1. /\ pc = "params" /\ Endpoint \in Callable
          /\ parameters \in Seq(Objects) /\ IsInjective(parameters)
      BY <1>4, ConstantsAssumption DEF ExecParameter, TypeInv, Place
    <2>2. \A i \in 1 .. pos : Right(i)
      BY <2>1 DEF ParameterInv
    <2>3. pc' = "call" => Did("call")' = {}
      BY DEF OrderInv, Before
    <2>4. CASE pc' = "done"
      <3>1. log' = log \/ \E v \in Values : Missing /\ Write(Parameter, v)
        BY <1>4, <2>1, <2>4, Underway DEF ExecParameter, FailInto, Goto
      <3>2. Did("call")' = {}
        <4>1. CASE log' = log
          BY <1>2, <4>1 DEF Did
        <4>2. CASE \E v \in Values : Missing /\ Write(Parameter, v)
          <5>1. Parameter \in Objects
            BY <1>1, <2>1, <4>2 DEF Missing, Parameter
          <5>2. Event("write", Endpoint, Parameter) \in Events
            BY <2>1, <5>1, EventType, Underway DEF Pointers, Deeds
          <5>3. Record(<<Event("write", Endpoint, Parameter)>>)
            BY <4>2 DEF Write
          <5>4. Event("write", Endpoint, Parameter).what = "write"
            BY DEF Event
          <5> QED
            BY <1>2, <5>2, <5>3, <5>4, DidNext
        <4> QED
          BY <3>1, <4>1, <4>2
      <3> QED
        BY <2>4, <3>2, NoCall
    <2>5. CASE /\ Missing /\ ~AtEnd /\ Item.form = "good" /\ Write(Parameter, Item.val)
               /\ pos' = pos + 1 /\ pc' = "params"
      <3>1. /\ pos + 1 \in 1 .. Len(parameters) /\ pos + 1 \in 1 .. Len(req.items)
            /\ Item = req.items[pos + 1] /\ Parameter = parameters[pos + 1]
        BY <1>1, <2>1, <2>5 DEF Missing, AtEnd, Item, Parameter
      <3>2. Parameter \in Objects /\ data' = [data EXCEPT ![Parameter] = Item.val]
        BY <2>1, <2>5, <3>1 DEF Write
      <3>3. /\ data'[Parameter] = Item.val
            /\ \A o \in Objects : o # Parameter => data'[o] = data[o]
        BY <1>1, <3>2
      <3>4. ASSUME NEW i \in 1 .. pos PROVE Right(i)'
        <4>1. /\ i \in 1 .. Len(parameters) /\ i # pos + 1 /\ parameters[i] \in Objects
              /\ req.items[i].form = "good" /\ data[parameters[i]] = req.items[i].val
          BY <1>1, <2>1, <2>2 DEF Right
        <4>2. parameters[i] # Parameter
          BY <2>1, <3>1, <4>1 DEF IsInjective
        <4> QED
          BY <1>1, <3>3, <4>1, <4>2 DEF Right
      <3>5. \A i \in 1 .. pos' : Right(i)'
        <4>1. \A i \in 1 .. pos' : i \in 1 .. pos \/ i = pos'
          BY <1>1, <2>5
        <4>2. Right(pos)'
          BY <1>1, <2>5, <3>1, <3>3 DEF Right
        <4> QED
          BY <3>4, <4>1, <4>2 DEF Right
      <3>6. Did("call")' = {}
        BY <2>5 DEF OrderInv, Before
      <3> QED
        BY <2>5, <3>5, <3>6 DEF ParameterInv, FunctionSeesItsParameters
    <2>6. CASE ~Missing /\ AtEnd /\ pc' = "call" /\ UNCHANGED <<data, log, pos>>
      <3>1. \A i \in 1 .. pos' : Right(i)'
        BY <1>1, <2>2, <2>6 DEF Right
      <3>2. pos' = Len(req'.items) /\ pos' = Len(Parameters[Endpoint'])
        <4>1. pos <= Len(parameters)
          BY <1>1, <2>1, <2>2 DEF Right
        <4>2. Len(parameters) \in Nat
          BY <2>1
        <4> QED
          BY <1>1, <2>6, <4>1, <4>2 DEF Missing, AtEnd
      <3> QED
        BY <2>3, <2>6, <3>1, <3>2 DEF ParameterInv, FunctionSeesItsParameters
    <2> QED
      BY <1>4, <2>4, <2>5, <2>6 DEF ExecParameter, FailInto, Goto, Finish
  <1>5. CASE ExecCall
    <2>1. /\ pc = "call" /\ pc' = "done" /\ UNCHANGED <<data, pos>>
          /\ pos = Len(req.items) /\ pos = Len(Parameters[Endpoint])
          /\ \A i \in 1 .. pos : Right(i)
      BY <1>5 DEF ExecCall, Finish, TooLarge, ParameterInv
    <2>2. FunctionSeesItsParameters'
      BY <1>1, <2>1 DEF FunctionSeesItsParameters, Right
    <2> QED
      BY <2>1, <2>2 DEF ParameterInv
  <1> QED
    BY <1>3, <1>4, <1>5

(* A function is called with exactly the parameters of the request in its  *)
(* children, for every database, and never after an error.                 *)
THEOREM ParametersReachFunction == Spec => []FunctionSeesItsParameters
  <1>1. Init => ParameterInv
    <2> SUFFICES ASSUME Init PROVE ParameterInv
      OBVIOUS
    <2>1. Did("call") = {}
      BY NothingType DEF Init, Did
    <2> QED
      BY <2>1 DEF Init, ParameterInv, FunctionSeesItsParameters
  <1>2. TypeInv /\ OrderInv /\ OrderInv' /\ ParameterInv /\ [Next]_vars => ParameterInv'
    <2> SUFFICES ASSUME TypeInv, OrderInv, OrderInv', ParameterInv, [Next]_vars PROVE ParameterInv'
      OBVIOUS
    <2>1. CASE UNCHANGED vars
      BY <2>1 DEF vars, ParameterInv, FunctionSeesItsParameters, Right, Did, Endpoint
    <2>2. CASE Next
      BY <2>2, OutsideParameters, OtherParameters, ExecParameters DEF Next
    <2> QED
      BY <2>1, <2>2
  <1>3. ParameterInv => FunctionSeesItsParameters
    BY DEF ParameterInv
  <1> QED
    BY <1>1, <1>2, <1>3, TypeInvariance, OrderInvariance, PTL DEF Spec

-----------------------------------------------------------------------------
(***************************************************************************)
(* FETCH: an item is read right after PRE_READ has been called for it, and *)
(* POST_READ comes with the end of the response only.                      *)
(***************************************************************************)
Framed(i) == i > 1 /\ log[i - 1] = Event("PRE_READ", Endpoint, log[i].arg)

BracketInv ==
    /\ req.method = "fetch" /\ IsCalledBack(Endpoint) => \A i \in Did("read") : Framed(i)
    /\ pc = "items" => Did("POST_READ") = {}
    /\ pc # "done" => status = "none"
    /\ FetchIsBracketed

LEMMA BracketSame ==
    ASSUME BracketInv, req' = req, log' = log,
           \/ UNCHANGED <<pc, status>>
           \/ pc' = "items" /\ log = <<>> /\ status' = "none"
           \/ pc' = "done" /\ status' # "content"
    PROVE  BracketInv'
  <1>1. \A what : Did(what)' = Did(what)
    BY DEF Did
  <1>2. log = <<>> => \A what : Did(what) = {}
    BY DEF Did
  <1> QED
    BY <1>1, <1>2 DEF BracketInv, FetchIsBracketed, Framed, Endpoint

LEMMA NoFetch ==
    req'.method # "fetch" /\ pc' # "items" /\ (pc' # "done" => status' = "none") => BracketInv'
  BY DEF BracketInv, FetchIsBracketed

LEMMA OtherBrackets ==
    ASSUME TypeInv, BracketInv, Process, ~(Fetch \/ FetchItem)
    PROVE  BracketInv'
  <1>1. req' = req /\ req.method # "fetch" /\ pc # "done"
    BY DEF Process, Get, Names, Update, UpdateCheck, PreWrite, UpdateWrite, PostWrite, UpdateNotify,
           UpdateNotifyCall, Exec, ExecParameter, ExecCall, CreateDelete, Step, TypeInv, Place,
           Methods
  <1>2. pc' # "items" /\ (pc' = "done" \/ status' = status)
    BY DEF Process, Get, GetGroup, GetValue, Names, Update, UpdateCheck, PreWrite, UpdateWrite,
           FailInto, PostWrite, UpdateNotify, UpdateNotifyCall, Exec, ExecParameter, ExecCall,
           CreateDelete, Goto, Finish, TooLarge
  <1> QED
    BY <1>1, <1>2, NoFetch DEF BracketInv

LEMMA OutsideBrackets == TypeInv /\ BracketInv /\ (Setters \/ Receive \/ Respond) => BracketInv'
  <1> SUFFICES ASSUME TypeInv, BracketInv, Setters \/ Receive \/ Respond PROVE BracketInv'
    OBVIOUS
  <1>1. CASE Setters
    BY <1>1, BracketSame DEF Setters, SetAuthentication, SetUpdateSubsets, SetUpdateCb, request
  <1>2. CASE Receive \/ Respond
    <2>1. log' = <<>>
      BY <1>2 DEF Receive, Respond, TypeInv, Place
    <2>2. \A what : Did(what)' = {}
      BY <2>1 DEF Did
    <2>3. status' # "content" /\ (pc' # "done" => status' = "none")
      BY <1>2 DEF Receive, Respond
    <2> QED
      BY <2>2, <2>3 DEF BracketInv, FetchIsBracketed
  <1> QED
    BY <1>1, <1>2

LEMMA FetchBrackets == TypeInv /\ BracketInv /\ (Fetch \/ FetchItem) => BracketInv'
  <1> SUFFICES ASSUME TypeInv, BracketInv, Fetch \/ FetchItem PROVE BracketInv'
    OBVIOUS
  <1>1. req' = req /\ Endpoint' = Endpoint /\ status = "none"
    BY DEF Fetch, FetchItem, Step, Endpoint, BracketInv
  <1>2. CASE Fetch
    BY <1>1, <1>2, BracketSame DEF Fetch, Goto, Finish, TypeInv, Place, Methods
  <1>3. CASE FetchItem
    <2>1. /\ pc = "items" /\ Endpoint \in Pointers /\ object \in Pointers
          /\ ~AtEnd => Item.object \in Pointers
      BY <1>3, Underway DEF FetchItem, Pointers
    <2>2. object' \in Pointers
      BY <1>3, <2>1 DEF FetchItem, Found, NotFound, Pointers
    <2>3. CASE ~IsCalledBack(Endpoint)
      <3>1. pc' \in {"items", "done"} /\ (pc' = "items" => status' = "none")
        BY <1>1, <1>3 DEF FetchItem, Goto, Finish, TooLarge
      <3>2. pc' = "items" => Did("POST_READ")' = {}
        <4>1. pc' = "items" => ~AtEnd /\ Record(ReadItem(Item.object))
          BY <1>3 DEF FetchItem, Goto, Finish, TooLarge, Found
        <4>2. ASSUME ~AtEnd, Record(ReadItem(Item.object)) PROVE Did("POST_READ")' = {}
          <5> DEFINE e == Event("read", Endpoint, Item.object)
          <5>1. e \in Events /\ e.what = "read"
            BY <2>1, <4>2, EventType DEF Deeds, Event
          <5>2. ReadItem(Item.object) = <<e>>
            BY <2>3, <5>1, ConcatProperties DEF ReadItem, CallBack
          <5> HIDE DEF e
          <5>3. Record(<<e>>)
            BY <4>2, <5>2
          <5> QED
            BY <2>1, <5>1, <5>3, DidNext DEF BracketInv
        <4> QED
          BY <4>1, <4>2
      <3> QED
        BY <1>1, <2>3, <3>1, <3>2 DEF BracketInv, FetchIsBracketed, IsCalledBack
    <2>4. CASE IsCalledBack(Endpoint)
      <3>1. /\ req.method = "fetch" /\ log \in Seq(Events) /\ Len(log) \in Nat
            /\ \A i \in Did("read") : Framed(i)
            /\ Did("POST_READ") = {}
        BY <2>1, <2>4 DEF BracketInv, TypeInv, TypeOK, Place
      <3>2. ASSUME NEW reason \in {"PRE_READ", "POST_READ"}, NEW arg \in Pointers,
                   Record(CallBack(reason, Endpoint, arg)), pc' = "done",
                   status' = "content" => reason = "POST_READ"
            PROVE  BracketInv'
        <4> DEFINE e == Event(reason, Endpoint, arg)
        <4>1. e \in Events /\ e.what = reason
          BY <2>1, EventType DEF Deeds, Reasons, Event
        <4>2. Record(<<e>>)
          BY <2>4, <3>2 DEF CallBack
        <4> HIDE DEF e
        <4>3. /\ Did("read")' = Did("read")
              /\ Did("POST_READ")' = IF reason = "POST_READ" THEN {Len(log) + 1} ELSE {}
              /\ Len(log') = Len(log) + 1
              /\ \A i \in 1 .. Len(log) : log'[i] = log[i]
              /\ Did("read") \subseteq 1 .. Len(log)
          <5>1. Len(log') = Len(log) + 1
            BY <3>1, <4>1, <4>2 DEF Record
          <5>2. \A what : Did(what)' = Did(what) \cup IF reason = what THEN {Len(log) + 1} ELSE {}
            BY <3>1, <4>1, <4>2, DidNext
          <5>3. reason # "read"
            BY <3>2
          <5>4. Did("read")' = Did("read")
            BY <5>2, <5>3, Zenon
          <5>5. Did("POST_READ")' = IF reason = "POST_READ" THEN {Len(log) + 1} ELSE {}
            BY <3>1, <5>2
          <5>6. \A i \in 1 .. Len(log) : log'[i] = log[i]
            BY <3>1, <4>1, <4>2 DEF Record
          <5>7. Did("read") \subseteq 1 .. Len(log)
            BY DEF Did
          <5> QED
            BY <5>1, <5>4, <5>5, <5>6, <5>7
        <4>4. \A i \in Did("read")' : Framed(i)'
          <5> SUFFICES ASSUME NEW i \in Did("read")
                       PROVE  i > 1 /\ log'[i - 1] = Event("PRE_READ", Endpoint', log'[i].arg)
            BY <4>3 DEF Framed
          <5>1. i \in 1 .. Len(log) /\ i > 1 /\ log[i - 1] = Event("PRE_READ", Endpoint, log[i].arg)
            BY <3>1, <4>3 DEF Framed
          <5>2. i - 1 \in 1 .. Len(log)
            BY <3>1, <5>1
          <5> QED
            BY <1>1, <4>3, <5>1, <5>2
        <4>5. Cardinality({Len(log) + 1}) = 1
          BY FS_Singleton
        <4>6. FetchIsBracketed'
          BY <3>2, <4>3, <4>4, <4>5 DEF FetchIsBracketed, Framed
        <4> QED
          BY <3>2, <4>4, <4>6 DEF BracketInv
      <3>3. ASSUME ~AtEnd, Record(ReadItem(Item.object)), pc' \in {"items", "done"},
                   status' # "content", pc' = "items" => status' = "none"
            PROVE  BracketInv'
        <4> DEFINE pre == Event("PRE_READ", Endpoint, Item.object)
                   read == Event("read", Endpoint, Item.object)
        <4>1. /\ pre \in Events /\ read \in Events
              /\ pre.what = "PRE_READ" /\ read.what = "read"
              /\ pre = Event("PRE_READ", Endpoint, read.arg)
          BY <2>1, <3>3, EventType DEF Deeds, Reasons, Event
        <4>2. log' = log \o (<<pre>> \o <<read>>)
          BY <2>4, <3>3 DEF Record, ReadItem, CallBack
        <4> HIDE DEF pre, read
        <4>3. /\ Len(log') = Len(log) + 2
              /\ \A i \in 1 .. Len(log) : log'[i] = log[i]
              /\ log'[Len(log) + 1] = pre /\ log'[Len(log) + 2] = read
          BY <3>1, <4>1, <4>2
        <4>4. Did("read")' = Did("read") \cup {Len(log) + 2} /\ Did("POST_READ")' = {}
          BY <3>1, <4>1, <4>3, SMTT(30) DEF Did
        <4>5. ASSUME NEW i \in Did("read")'
              PROVE  i > 1 /\ log'[i - 1] = Event("PRE_READ", Endpoint', log'[i].arg)
          <5>1. CASE i = Len(log) + 2
            BY <1>1, <3>1, <4>1, <4>3, <5>1
          <5>2. CASE i \in Did("read")
            <6>1. i \in 1 .. Len(log) /\ i > 1 /\ log[i - 1] = Event("PRE_READ", Endpoint, log[i].arg)
              BY <3>1, <5>2 DEF Framed, Did
            <6>2. i - 1 \in 1 .. Len(log)
              BY <3>1, <6>1
            <6> QED
              BY <1>1, <4>3, <6>1, <6>2
          <5> QED
            BY <4>4, <5>1, <5>2
        <4> QED
          BY <3>3, <4>4, <4>5 DEF BracketInv, FetchIsBracketed, Framed
      <3>4. \/ Record(CallBack("PRE_READ", Endpoint, object')) /\ pc' = "done" /\ status' # "content"
            \/ /\ ~AtEnd /\ Record(ReadItem(Item.object)) /\ pc' \in {"items", "done"}
               /\ status' # "content" /\ (pc' = "items" => status' = "none")
            \/ Record(CallBack("POST_READ", Endpoint, object)) /\ pc' = "done"
        BY <1>1, <1>3 DEF FetchItem, Found, NotFound, Denied, Goto, Finish, TooLarge
      <3> QED
        BY <2>1, <2>2, <3>2, <3>3, <3>4
    <2> QED
      BY <2>3, <2>4
  <1> QED
    BY <1>2, <1>3

(* What FETCH reads has just been announced by PRE_READ, and a complete    *)
(* response ends with the one POST_READ.                                   *)
THEOREM FetchBracketed == Spec => []FetchIsBracketed
  <1>1. Init => BracketInv
    <2> SUFFICES ASSUME Init PROVE BracketInv
      OBVIOUS
    <2>1. \A what : Did(what) = {}
      BY NothingType DEF Init, Did
    <2> QED
      BY <2>1 DEF Init, BracketInv, FetchIsBracketed
  <1>2. TypeInv /\ BracketInv /\ [Next]_vars => BracketInv'
    <2> SUFFICES ASSUME TypeInv, BracketInv, [Next]_vars PROVE BracketInv'
      OBVIOUS
    <2>1. CASE UNCHANGED vars
      BY <2>1, BracketSame DEF vars
    <2>2. CASE Next
      BY <2>2, OutsideBrackets, OtherBrackets, FetchBrackets DEF Next
    <2> QED
      BY <2>1, <2>2
  <1>3. BracketInv => FetchIsBracketed
    BY DEF BracketInv
  <1> QED
    BY <1>1, <1>2, <1>3, TypeInvariance, PTL DEF Spec
=============================================================================
