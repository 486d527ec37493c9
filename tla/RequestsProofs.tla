--------------------------- MODULE RequestsProofs ---------------------------
(***************************************************************************)
(* What TLC checks of Requests on a small database, proved for every       *)
(* database, every set of requests and every use of the two setters.       *)
(***************************************************************************)
EXTENDS Requests, SequenceTheorems, TLAPS

(* Where the request is and what it asks for agree.                        *)
Place ==
    /\ pc \notin {"idle", "done"} => req \in PeerRequests /\ Endpoint \in Objects
    /\ pc \in Methods => req.method = pc
    /\ pc = "items" => req.method = "fetch"
    /\ pc \in {"check", "pre_write", "write", "post_write", "notify", "notify_call"} =>
          req.method = "update"
    /\ pc \in {"params", "call"} => req.method = "exec" /\ Endpoint \in Callable
    /\ pc = "idle" => req = NoRequest /\ log = <<>>
    /\ pc \in Methods \cup {"idle"} => pos = 0 /\ log = <<>> /\ ~accepted /\ data = base

TypeInv == TypeOK /\ Place

LEMMA NothingType == NoRequest.items = <<>> /\ Len(NoRequest.items) = 0 /\ <<>> \in Seq(Events)
  BY DEF NoRequest

LEMMA InitType == Init => TypeInv
  <1> SUFFICES ASSUME Init PROVE TypeInv
    OBVIOUS
  <1>1. updateCb \in Callbacks
    BY DEF Init, Callbacks
  <1>2. pos \in 0 .. Len(req.items) /\ log \in Seq(Events)
    BY NothingType DEF Init
  <1>4. setter \in {<<>>} \cup {<<cb>> : cb \in Callbacks}
    BY DEF Init
  <1>5. TypeOK
    BY <1>1, <1>2, <1>4, ConstantsAssumption DEF Init, TypeOK, Positions, Statuses
  <1>3. Place
    BY DEF Init, Place, Methods
  <1> QED
    BY <1>3, <1>5 DEF TypeInv

(* What is known of a request under way. *)
LEMMA Underway ==
    ASSUME TypeInv, pc \notin {"idle", "done"}
    PROVE  /\ req \in RequestSet /\ Endpoint \in Objects
           /\ req.items \in Seq(Items) /\ Len(req.items) \in Nat
           /\ pos \in Nat /\ pos <= Len(req.items)
           /\ ~AtEnd => pos + 1 \in 1 .. Len(req.items) /\ Item \in Items
           /\ ~AtEnd => Item.object \in Pointers /\ Item.val \in Values
           /\ log \in Seq(Events) /\ object \in Pointers
  <1>1. req \in RequestSet /\ Endpoint \in Objects
    BY ConstantsAssumption DEF TypeInv, Place
  <1>2. req.items \in Seq(Items) /\ Len(req.items) \in Nat
    BY <1>1 DEF RequestSet
  <1>3. pos \in Nat /\ pos <= Len(req.items)
    BY <1>2 DEF TypeInv, TypeOK
  <1>4. ~AtEnd => pos + 1 \in 1 .. Len(req.items) /\ Item \in Items
    BY <1>2, <1>3 DEF AtEnd, Item
  <1>5. log \in Seq(Events) /\ object \in Pointers
    BY DEF TypeInv, TypeOK, Pointers
  <1> QED
    BY <1>1, <1>2, <1>3, <1>4, <1>5 DEF Items, Pointers

LEMMA RecordType ==
    ASSUME TypeInv, NEW events \in Seq(Events), Record(events)
    PROVE  log' \in Seq(Events)
  BY ConcatProperties DEF TypeInv, TypeOK, Record

LEMMA EventType ==
    ASSUME NEW what \in Deeds, NEW on \in Pointers \cup Callbacks, NEW arg \in Pointers
    PROVE  Event(what, on, arg) \in Events
  BY DEF Event, Events

LEMMA CallBackType ==
    ASSUME NEW reason \in Reasons, NEW on \in Pointers, NEW arg \in Pointers
    PROVE  CallBack(reason, on, arg) \in Seq(Events)
  BY EventType DEF CallBack, Deeds

LEMMA WriteType ==
    ASSUME TypeInv, pc \notin {"idle", "done"}, NEW o \in Pointers, NEW v \in Values, Write(o, v)
    PROVE  data' \in [Objects -> Values] /\ log' \in Seq(Events)
  <1>1. Event("write", Endpoint, o) \in Events
    <2>1. "write" \in Deeds /\ Endpoint \in Pointers \cup Callbacks /\ o \in Pointers
      BY Underway DEF Deeds, Pointers
    <2> QED
      BY <2>1, EventType
  <1>2. log' \in Seq(Events)
    <2>1. <<Event("write", Endpoint, o)>> \in Seq(Events)
      BY <1>1
    <2> QED
      BY <2>1, RecordType DEF Write
  <1> QED
    BY <1>2 DEF Write, TypeInv, TypeOK

-----------------------------------------------------------------------------
(***************************************************************************)
(* Type correctness, one lemma per function.                               *)
(***************************************************************************)

LEMMA SettersType == TypeInv /\ Setters => TypeInv'
  <1> SUFFICES ASSUME TypeInv, Setters PROVE TypeInv'
    OBVIOUS
  <1>1. CASE SetAuthentication
    <2>1. auth' \in auths'
      BY <1>1 DEF SetAuthentication
    <2>2. TypeOK'
      BY <1>1, <2>1 DEF SetAuthentication, TypeInv, TypeOK, Watch, request
    <2>3. Place'
      BY <1>1 DEF SetAuthentication, TypeInv, Place, request, Endpoint
    <2> QED
      BY <2>2, <2>3 DEF TypeInv
  <1>2. CASE SetUpdateSubsets
    <2>1. setter' \in {<<>>} \cup {<<cb>> : cb \in Callbacks}
      BY <1>2 DEF SetUpdateSubsets, Callbacks
    <2>2. Watch' \in watches'
      BY <1>2 DEF SetUpdateSubsets, Watch
    <2> QED
      BY <1>2, <2>1, <2>2 DEF SetUpdateSubsets, TypeInv, TypeOK, Place, request, Endpoint
  <1>3. CASE SetUpdateCb
    <2>1. PICK cb \in Callbacks : setter = <<cb>>
      BY <1>3 DEF SetUpdateCb, TypeInv, TypeOK
    <2>2. updateCb' \in Callbacks
      BY <1>3, <2>1 DEF SetUpdateCb
    <2>3. Watch' \in watches'
      BY <1>3 DEF SetUpdateCb, Watch
    <2> QED
      BY <1>3, <2>2, <2>3 DEF SetUpdateCb, TypeInv, TypeOK, Place, request, Endpoint
  <1> QED
    BY <1>1, <1>2, <1>3 DEF Setters

LEMMA ReceiveType == TypeInv /\ Receive => TypeInv'
  <1> SUFFICES ASSUME TypeInv, Receive PROVE TypeInv'
    OBVIOUS
  <1>1. PICK r \in PeerRequests :
          /\ req' = r
          /\ IF r.endpoint = NoObject
             THEN pc' = "done" /\ status' = "not_found"
             ELSE pc' = r.method /\ status' = "none"
    BY DEF Receive
  <1>2. r \in RequestSet /\ Len(r.items) \in Nat
    BY ConstantsAssumption DEF RequestSet
  <1>3. pc = "idle" /\ pos = 0 /\ log = <<>> /\ ~accepted
    BY DEF Receive, TypeInv, Place
  <1>4. pc' \in Methods \cup {"done"} /\ status' \in Statuses
    BY <1>1, <1>2 DEF RequestSet, Statuses
  <1>5. TypeOK'
    BY <1>1, <1>2, <1>3, <1>4 DEF Receive, TypeInv, TypeOK, app, Positions, Watch
  <1>6. Place'
    BY <1>1, <1>2, <1>3, <1>4 DEF Receive, Place, RequestSet, Endpoint, Methods
  <1> QED
    BY <1>5, <1>6 DEF TypeInv

LEMMA RespondType == TypeInv /\ Respond => TypeInv'
  <1> SUFFICES ASSUME TypeInv, Respond PROVE TypeInv'
    OBVIOUS
  <1>1. pos' \in 0 .. Len(req'.items) /\ log' \in Seq(Events)
    BY NothingType DEF Respond
  <1>2. Watch' \in watches'
    BY DEF Respond, app, Watch
  <1>3. TypeOK'
    BY <1>1, <1>2 DEF TypeInv, TypeOK, Respond, app, Positions, Statuses
  <1>4. Place'
    BY DEF Respond, Place, Methods
  <1> QED
    BY <1>3, <1>4 DEF TypeInv

(***************************************************************************)
(* A step of the request leaves the setters' variables and the history     *)
(* alone.  What it may change is typed if it has gone on in the function   *)
(* or to the end of it.                                                    *)
(***************************************************************************)
LEMMA StepType ==
    ASSUME TypeInv, Step, pc \notin {"idle", "done"},
           data' \in [Objects -> Values], DOMAIN subsets' = Objects,
           pos' \in 0 .. Len(req.items), object' \in Pointers,
           updated' \in BOOLEAN, accepted' \in BOOLEAN, log' \in Seq(Events),
           status' \in Statuses,
           \/ pc' = "done"
           \/ pc' = "items" /\ pc \in {"fetch", "items"}
           \/ /\ pc' \in {"check", "pre_write", "write", "post_write", "notify", "notify_call"}
              /\ req.method = "update"
           \/ pc' \in {"params", "call"} /\ req.method = "exec" /\ Endpoint \in Callable
    PROVE  TypeInv'
  <1>1. TypeOK'
    BY DEF TypeInv, TypeOK, Step, app, Positions, Watch, Pointers
  <1>2. Place'
    BY DEF TypeInv, Place, Step, Endpoint, Methods
  <1> QED
    BY <1>1, <1>2 DEF TypeInv

(* The parts an action of UPDATE or EXEC leaves alone are typed.           *)
LEMMA Untouched ==
    ASSUME TypeInv
    PROVE  /\ data \in [Objects -> Values] /\ DOMAIN subsets = Objects
           /\ pos \in 0 .. Len(req.items) /\ object \in Pointers
           /\ updated \in BOOLEAN /\ accepted \in BOOLEAN /\ log \in Seq(Events)
           /\ status \in Statuses
  BY DEF TypeInv, TypeOK, Pointers

LEMMA GetType == TypeInv /\ Get => TypeInv'
  <1> SUFFICES ASSUME TypeInv, Get PROVE TypeInv'
    OBVIOUS
  <1>1. pc = "get" /\ Step /\ UNCHANGED <<data, subsets, pos, object, updated, accepted>>
    BY DEF Get
  <1>2. pc' = "done" /\ status' \in Statuses
    BY DEF Get, GetGroup, GetValue, Finish, TooLarge, Statuses
  <1>3. Endpoint \in Pointers /\ Parent[Endpoint] \in Pointers
    BY <1>1, Underway, ConstantsAssumption DEF Pointers
  <1>4. log' \in Seq(Events)
    <2>1. CASE GetGroup
      <3> DEFINE pre == CallBack("PRE_READ", Endpoint, Endpoint)
                 read == <<Event("read", Endpoint, Endpoint)>>
                 post == CallBack("POST_READ", Endpoint, Endpoint)
      <3>1. pre \in Seq(Events) /\ post \in Seq(Events)
        BY <1>3, CallBackType DEF Reasons
      <3>2. Event("read", Endpoint, Endpoint) \in Events
        BY <1>3, EventType DEF Deeds
      <3>3. read \in Seq(Events) /\ <<>> \in Seq(Events)
        BY <3>2
      <3>4. pre \o read \in Seq(Events) /\ (pre \o read) \o post \in Seq(Events)
        BY <3>1, <3>3, ConcatProperties
      <3>5. Record(<<>>) \/ Record(pre \o read) \/ Record((pre \o read) \o post)
        BY <2>1 DEF GetGroup
      <3> QED
        BY <3>3, <3>4, <3>5, RecordType
    <2>2. CASE GetValue
      <3> DEFINE parent == Parent[Endpoint]
                 pre == CallBack("PRE_READ", parent, Endpoint)
                 read == <<Event("read", parent, Endpoint)>>
                 post == CallBack("POST_READ", parent, Endpoint)
      <3>1. pre \in Seq(Events) /\ post \in Seq(Events)
        BY <1>3, CallBackType DEF Reasons
      <3>2. Event("read", parent, Endpoint) \in Events
        BY <1>3, EventType DEF Deeds
      <3>3. read \in Seq(Events)
        BY <3>2
      <3>4. (pre \o read) \o post \in Seq(Events)
        BY <3>1, <3>3, ConcatProperties
      <3>5. Record((pre \o read) \o post)
        BY <2>2 DEF GetValue
      <3> QED
        BY <3>4, <3>5, RecordType
    <2>3. CASE UNCHANGED log
      BY <2>3, Untouched
    <2> QED
      BY <2>1, <2>2, <2>3 DEF Get
  <1> QED
    BY <1>1, <1>2, <1>4, StepType, Untouched

LEMMA FetchType == TypeInv /\ (Names \/ Fetch \/ FetchItem) => TypeInv'
  <1> SUFFICES ASSUME TypeInv, Names \/ Fetch \/ FetchItem PROVE TypeInv'
    OBVIOUS
  <1>1. CASE Names
    BY <1>1, StepType, Untouched DEF Names, Finish, TooLarge, Statuses
  <1>2. CASE Fetch
    BY <1>2, StepType, Untouched DEF Fetch, Finish, Goto, Statuses
  <1>3. CASE FetchItem
    <2>1. pc = "items" /\ Step /\ UNCHANGED <<data, subsets, updated, accepted>>
      BY <1>3 DEF FetchItem
    <2>2. Endpoint \in Pointers /\ object \in Pointers /\ (~AtEnd => Item.object \in Pointers)
      BY <2>1, Underway DEF Pointers
    <2>3. pc' \in {"done", "items"} /\ status' \in Statuses
      BY <1>3, Untouched DEF FetchItem, Finish, Goto, Statuses, TooLarge, NotFound
    <2>4. object' \in Pointers
      BY <1>3, <2>2 DEF FetchItem, Found, NotFound, Pointers
    <2>5. pos' \in 0 .. Len(req.items)
      <3>1. pos' = pos \/ (~AtEnd /\ pos' = pos + 1)
        BY <1>3 DEF FetchItem, Found
      <3> QED
        BY <2>1, <3>1, Underway
    <2>6. log' \in Seq(Events)
      <3>1. CASE Record(CallBack("PRE_READ", Endpoint, object'))
        BY <2>2, <2>4, <3>1, CallBackType, RecordType DEF Reasons
      <3>2. CASE Record(CallBack("POST_READ", Endpoint, object))
        BY <2>2, <3>2, CallBackType, RecordType DEF Reasons
      <3>3. CASE ~AtEnd /\ Record(ReadItem(Item.object))
        <4> DEFINE pre == CallBack("PRE_READ", Endpoint, Item.object)
                   read == <<Event("read", Endpoint, Item.object)>>
        <4>1. pre \in Seq(Events)
          BY <2>2, <3>3, CallBackType DEF Reasons
        <4>2. Event("read", Endpoint, Item.object) \in Events
          BY <2>2, <3>3, EventType DEF Deeds
        <4>3. pre \o read \in Seq(Events)
          BY <4>1, <4>2, ConcatProperties
        <4> QED
          BY <3>3, <4>3, RecordType DEF ReadItem
      <3> QED
        BY <1>3, <3>1, <3>2, <3>3 DEF FetchItem, Found
    <2> QED
      BY <2>1, <2>3, <2>4, <2>5, <2>6, StepType, Untouched
  <1> QED
    BY <1>1, <1>2, <1>3

(* Inside UPDATE the end of the function and its later steps are typed.    *)
UpdatePlaces == {"check", "pre_write", "write", "post_write", "notify", "notify_call"}

LEMMA UpdatePlacesType ==
    ASSUME TypeInv, pc \in UpdatePlaces \cup {"update"}, Step,
           data' \in [Objects -> Values], subsets' = subsets,
           pos' \in 0 .. Len(req.items), object' \in Pointers,
           updated' \in BOOLEAN, accepted' \in BOOLEAN, log' \in Seq(Events),
           status' \in Statuses, pc' \in UpdatePlaces \cup {"done"}
    PROVE  TypeInv'
  <1>1. req.method = "update"
    BY DEF TypeInv, Place, UpdatePlaces, Methods
  <1>2. pc \notin {"idle", "done"}
    BY DEF UpdatePlaces
  <1> QED
    BY <1>1, <1>2, StepType, Untouched DEF UpdatePlaces

LEMMA UpdateCheckType == TypeInv /\ (Update \/ UpdateCheck) => TypeInv'
  <1> SUFFICES ASSUME TypeInv, Update \/ UpdateCheck PROVE TypeInv'
    OBVIOUS
  <1>1. CASE Update
    BY <1>1, UpdatePlacesType, Untouched DEF Update, Finish, Goto, Statuses, UpdatePlaces
  <1>2. CASE UpdateCheck
    <2>1. pc = "check" /\ Step /\ UNCHANGED <<subsets, updated>>
      BY <1>2 DEF UpdateCheck
    <2>2. pc' \in UpdatePlaces \cup {"done"} /\ status' \in Statuses
      BY <1>2, Untouched
      DEF UpdateCheck, Finish, Goto, Statuses, NotFound, Denied, DecodeErrors, UpdatePlaces
    <2>3. object' \in Pointers
      BY <1>2, <2>1, Underway DEF UpdateCheck, Found, NotFound, Pointers
    <2>4. pos' \in 0 .. Len(req.items)
      <3>1. pos' = pos \/ (~AtEnd /\ pos' = pos + 1) \/ pos' = 0
        BY <1>2 DEF UpdateCheck, Found, Rewind
      <3> QED
        BY <2>1, <3>1, Underway
    <2>5. data' \in [Objects -> Values] /\ log' \in Seq(Events)
      <3>1. CASE UNCHANGED <<data, log>>
        BY <3>1, Untouched
      <3>2. CASE Found /\ \E v \in Values : CheckInto(Item.object, v)
        <4>1. PICK v \in Values : CheckInto(Item.object, v)
          BY <3>2
        <4>2. Item.object \in Pointers
          BY <3>2 DEF Found, Children, Pointers
        <4> QED
          BY <2>1, <4>1, <4>2, WriteType, Untouched DEF CheckInto
      <3>3. CASE Found /\ CheckInto(Item.object, Item.val)
        <4>1. Item.object \in Pointers /\ Item.val \in Values
          BY <2>1, <3>3, Underway DEF Found
        <4> QED
          BY <2>1, <3>3, <4>1, WriteType, Untouched DEF CheckInto
      <3> QED
        BY <1>2, <3>1, <3>2, <3>3 DEF UpdateCheck
    <2>6. accepted' \in BOOLEAN
      BY <1>2, Untouched DEF UpdateCheck
    <2> QED
      BY <2>1, <2>2, <2>3, <2>4, <2>5, <2>6, UpdatePlacesType, Untouched DEF UpdatePlaces
  <1> QED
    BY <1>1, <1>2

LEMMA UpdateCallsType ==
    TypeInv /\ (PreWrite \/ PostWrite \/ UpdateNotify \/ UpdateNotifyCall) => TypeInv'
  <1> SUFFICES ASSUME TypeInv, PreWrite \/ PostWrite \/ UpdateNotify \/ UpdateNotifyCall
               PROVE  TypeInv'
    OBVIOUS
  <1>1. /\ pc \in UpdatePlaces /\ Step
        /\ UNCHANGED <<data, subsets, pos, object, updated, accepted>>
    BY DEF PreWrite, PostWrite, UpdateNotify, UpdateNotifyCall, UpdatePlaces
  <1>2. pc' \in UpdatePlaces \cup {"done"} /\ status' \in Statuses
    BY Untouched DEF PreWrite, PostWrite, UpdateNotify, UpdateNotifyCall, Finish, Goto, Statuses,
                     UpdatePlaces
  <1>3. Endpoint \in Pointers /\ object \in Pointers /\ updateCb \in Callbacks
    BY <1>1, Underway DEF UpdatePlaces, Pointers, TypeInv, TypeOK
  <1>4. log' \in Seq(Events)
    <2>1. CASE PreWrite
      BY <1>3, <2>1, CallBackType, RecordType DEF PreWrite, Reasons
    <2>2. CASE PostWrite
      BY <1>3, <2>2, CallBackType, RecordType DEF PostWrite, Reasons
    <2>3. CASE UpdateNotify
      BY <2>3, Untouched DEF UpdateNotify
    <2>4. CASE UpdateNotifyCall
      <3>1. NoObject \in Pointers /\ updateCb \in Pointers \cup Callbacks /\ "update_cb" \in Deeds
        BY <1>3 DEF Pointers, Deeds
      <3>2. Event("update_cb", updateCb, NoObject) \in Events
        BY <3>1, EventType
      <3>3. <<Event("update_cb", updateCb, NoObject)>> \in Seq(Events)
        BY <3>2
      <3> QED
        BY <2>4, <3>3, RecordType DEF UpdateNotifyCall
    <2> QED
      BY <2>1, <2>2, <2>3, <2>4
  <1> QED
    BY <1>1, <1>2, <1>4, UpdatePlacesType, Untouched

LEMMA UpdateWriteType == TypeInv /\ UpdateWrite => TypeInv'
  <1> SUFFICES ASSUME TypeInv, UpdateWrite PROVE TypeInv'
    OBVIOUS
  <1>1. pc = "write" /\ Step /\ UNCHANGED <<subsets, accepted>>
    BY DEF UpdateWrite
  <1>2. pc' \in UpdatePlaces \cup {"done"} /\ status' \in Statuses
    BY Untouched DEF UpdateWrite, FailInto, Finish, Goto, Statuses, DecodeErrors, UpdatePlaces
  <1>3. object' \in Pointers
    BY <1>1, Underway DEF UpdateWrite
  <1>4. pos' \in 0 .. Len(req.items)
    <2>1. pos' = pos \/ (~AtEnd /\ pos' = pos + 1)
      BY DEF UpdateWrite
    <2> QED
      BY <1>1, <2>1, Underway
  <1>5. updated' \in BOOLEAN
    BY Untouched DEF UpdateWrite, IsUpdated
  <1>6. data' \in [Objects -> Values] /\ log' \in Seq(Events)
    <2>1. CASE UNCHANGED <<data, log>>
      BY <2>1, Untouched
    <2>2. CASE ~AtEnd /\ \E v \in Values : Write(Item.object, v)
      BY <1>1, <2>2, Underway, WriteType
    <2> QED
      BY <1>1, <2>1, <2>2, Underway DEF UpdateWrite, FailInto
  <1> QED
    BY <1>1, <1>2, <1>3, <1>4, <1>5, <1>6, UpdatePlacesType, Untouched DEF UpdatePlaces

LEMMA ExecType == TypeInv /\ (Exec \/ ExecParameter \/ ExecCall) => TypeInv'
  <1> SUFFICES ASSUME TypeInv, Exec \/ ExecParameter \/ ExecCall PROVE TypeInv'
    OBVIOUS
  <1>1. CASE Exec
    <2>1. pc = "exec" /\ req.method = "exec"
      BY <1>1 DEF Exec, TypeInv, Place, Methods
    <2> QED
      BY <1>1, <2>1, StepType, Untouched DEF Exec, Finish, Goto, Statuses
  <1>2. CASE ExecParameter
    <2>1. /\ pc = "params" /\ Step /\ UNCHANGED <<subsets, object, updated, accepted>>
          /\ req.method = "exec" /\ Endpoint \in Callable
      BY <1>2 DEF ExecParameter, TypeInv, Place
    <2>2. pc' \in {"params", "call", "done"} /\ status' \in Statuses
      BY <1>2, Untouched DEF ExecParameter, FailInto, Finish, Goto, Statuses, DecodeErrors
    <2>3. pos' \in 0 .. Len(req.items)
      <3>1. pos' = pos \/ (~AtEnd /\ pos' = pos + 1)
        BY <1>2 DEF ExecParameter
      <3> QED
        BY <2>1, <3>1, Underway
    <2>4. data' \in [Objects -> Values] /\ log' \in Seq(Events)
      <3>1. CASE UNCHANGED <<data, log>>
        BY <3>1, Untouched
      <3>2. CASE Missing /\ ~AtEnd /\ \E v \in Values : Write(Parameter, v)
        <4>1. Parameters[Endpoint] \in Seq(Objects)
          BY <2>1, ConstantsAssumption
        <4>2. Parameter \in Pointers
          BY <2>1, <3>2, <4>1, Underway DEF Missing, Parameter, Pointers
        <4> QED
          BY <2>1, <3>2, <4>2, WriteType
      <3> QED
        BY <1>2, <2>1, <3>1, <3>2, Underway DEF ExecParameter, FailInto
    <2> QED
      BY <2>1, <2>2, <2>3, <2>4, StepType, Untouched
  <1>3. CASE ExecCall
    <2>1. pc = "call" /\ Step /\ UNCHANGED <<data, subsets, pos, object, updated, accepted>>
      BY <1>3 DEF ExecCall
    <2>2. Event("call", Endpoint, Endpoint) \in Events
      BY <2>1, Underway, EventType DEF Pointers, Deeds
    <2>3. <<Event("call", Endpoint, Endpoint)>> \in Seq(Events)
      BY <2>2
    <2>4. log' \in Seq(Events)
      BY <1>3, <2>3, RecordType DEF ExecCall
    <2>5. pc' = "done" /\ status' \in Statuses
      BY <1>3 DEF ExecCall, Finish, TooLarge, Statuses
    <2> QED
      BY <2>1, <2>4, <2>5, StepType, Untouched
  <1> QED
    BY <1>1, <1>2, <1>3

LEMMA CreateDeleteType == TypeInv /\ CreateDelete => TypeInv'
  <1> SUFFICES ASSUME TypeInv, CreateDelete PROVE TypeInv'
    OBVIOUS
  <1>1. DOMAIN subsets' = Objects
    BY Untouched DEF CreateDelete
  <1>2. pc' = "done" /\ status' \in Statuses
    BY DEF CreateDelete, Finish, Statuses
  <1>3. /\ pc \notin {"idle", "done"} /\ Step
        /\ UNCHANGED <<data, pos, object, updated, log, accepted>>
    BY DEF CreateDelete
  <1> QED
    BY <1>1, <1>2, <1>3, StepType, Untouched

LEMMA TypeStep == TypeInv /\ [Next]_vars => TypeInv'
  <1> SUFFICES ASSUME TypeInv, [Next]_vars PROVE TypeInv'
    OBVIOUS
  <1>1. CASE UNCHANGED vars
    BY <1>1 DEF vars, TypeInv, TypeOK, Place, Watch, Endpoint
  <1>2. CASE Next
    BY <1>2, SettersType, ReceiveType, RespondType, GetType, FetchType, UpdateCheckType,
       UpdateCallsType, UpdateWriteType, ExecType, CreateDeleteType
    DEF Next, Process
  <1> QED
    BY <1>1, <1>2

LEMMA TypeInvariance == Spec => []TypeInv
  BY InitType, TypeStep, PTL DEF Spec

(* Every reachable state of any database and any requests is well typed.   *)
THEOREM RequestsTyped == Spec => []TypeOK
  BY TypeInvariance, PTL DEF TypeInv

-----------------------------------------------------------------------------
(***************************************************************************)
(* Access rights.  The authentication a request is checked against is one  *)
(* of those in force since it began; what the check pass of UPDATE has     *)
(* found to be writable stays so for the write pass, however               *)
(* thingset_set_authentication is called in between.                       *)
(***************************************************************************)
Writable(o) == WriteRoles[o] \cap UNION auths # {}
Readable(o) == ReadRoles[o] \cap UNION auths # {}

Passed == IF pc = "check" THEN pos
          ELSE IF pc \in {"pre_write", "write", "post_write", "notify", "notify_call"}
          THEN Len(req.items) ELSE 0

Granted ==
    /\ \A i \in 1 .. Passed : Writable(req.items[i].object)
    /\ pc \in {"params", "call"} => Writable(Endpoint)

AccessInv == AccessAllowed /\ Granted

(* A request that goes on keeps what it had been granted. *)
LEMMA RolesKept ==
    ASSUME auths \subseteq auths'
    PROVE  \A o : (Writable(o) => Writable(o)') /\ (Readable(o) => Readable(o)')
  BY DEF Writable, Readable

LEMMA AllowedNow ==
    ASSUME TypeInv
    PROVE  /\ \A o : Allowed(o, WriteRoles) => Writable(o)
           /\ \A o : Allowed(o, ReadRoles) => Readable(o)
  BY DEF TypeInv, TypeOK, Allowed, Writable, Readable

(* What AccessAllowed says of one event. *)
Rightful(e) ==
    /\ req.method = "fetch" /\ e.what = "read" => Readable(e.arg)
    /\ req.method = "update" /\ e.what = "write" => Writable(e.arg)
    /\ req.method = "exec" => Writable(Endpoint)

LEMMA RightfulLog == AccessAllowed <=> \A i \in 1 .. Len(log) : Rightful(log[i])
  BY DEF AccessAllowed, Rightful, Readable, Writable

LEMMA RecordKeepsAccess ==
    ASSUME TypeInv, AccessAllowed, UNCHANGED <<req, auths>>, NEW events \in Seq(Events),
           Record(events), \A i \in 1 .. Len(events) : Rightful(events[i])
    PROVE  AccessAllowed'
  <1>1. log \in Seq(Events) /\ log' = log \o events
    BY DEF TypeInv, TypeOK, Record
  <1>2. /\ Len(log') = Len(log) + Len(events)
        /\ \A i \in 1 .. Len(log) : log'[i] = log[i]
        /\ \A i \in Len(log) + 1 .. Len(log) + Len(events) : log'[i] = events[i - Len(log)]
    BY <1>1, ConcatProperties
  <1>3. Len(log) \in Nat /\ Len(events) \in Nat
    BY <1>1
  <1>4. \A i \in 1 .. Len(log') : Rightful(log'[i])
    <2> SUFFICES ASSUME NEW i \in 1 .. Len(log') PROVE Rightful(log'[i])
      OBVIOUS
    <2>1. CASE i <= Len(log)
      BY <1>2, <1>3, <2>1, RightfulLog
    <2>2. CASE i > Len(log)
      <3>1. i - Len(log) \in 1 .. Len(events) /\ log'[i] = events[i - Len(log)]
        BY <1>2, <1>3, <2>2
      <3> QED
        BY <3>1
    <2> QED
      BY <1>3, <2>1, <2>2
  <1> QED
    BY <1>4 DEF AccessAllowed, Rightful, Readable, Writable, Endpoint

LEMMA SameAccess ==
    ASSUME AccessAllowed, UNCHANGED <<req, log>>, auths \subseteq auths'
    PROVE  AccessAllowed'
  BY DEF AccessAllowed, Endpoint

LEMMA OneEvent ==
    ASSUME NEW e
    PROVE  Len(<<e>>) = 1 /\ <<e>>[1] = e
  OBVIOUS

(* A callback neither reads nor writes.                                    *)
LEMMA CallBackKeepsAccess ==
    ASSUME TypeInv, AccessAllowed, UNCHANGED <<req, auths>>, req.method # "exec",
           NEW reason \in Reasons, NEW on \in Pointers, NEW arg \in Pointers,
           Record(CallBack(reason, on, arg))
    PROVE  AccessAllowed'
  <1>1. CallBack(reason, on, arg) \in Seq(Events)
    BY CallBackType
  <1>2. \A i \in 1 .. Len(CallBack(reason, on, arg)) :
           CallBack(reason, on, arg)[i] = Event(reason, on, arg)
    BY OneEvent DEF CallBack
  <1>3. Rightful(Event(reason, on, arg))
    BY DEF Rightful, Event, Reasons
  <1> QED
    BY <1>1, <1>2, <1>3, RecordKeepsAccess

LEMMA WriteKeepsAccess ==
    ASSUME TypeInv, AccessAllowed, UNCHANGED <<req, auths>>, pc \notin {"idle", "done"},
           NEW o \in Pointers, NEW v, Write(o, v),
           req.method = "update" => Writable(o),
           req.method = "exec" => Writable(Endpoint)
    PROVE  AccessAllowed'
  <1> DEFINE e == Event("write", Endpoint, o)
  <1>1. "write" \in Deeds /\ Endpoint \in Pointers \cup Callbacks
    BY Underway DEF Deeds, Pointers
  <1>2. e \in Events
    BY <1>1, EventType
  <1>3. <<e>> \in Seq(Events) /\ Len(<<e>>) = 1 /\ <<e>>[1] = e
    BY <1>2
  <1>4. Rightful(e)
    BY DEF Rightful, Event
  <1>5. Record(<<e>>)
    BY DEF Write
  <1>6. \A i \in 1 .. Len(<<e>>) : Rightful(<<e>>[i])
    BY <1>3, <1>4
  <1> QED
    BY <1>3, <1>5, <1>6, RecordKeepsAccess

LEMMA OutsideAccess == TypeInv /\ AccessInv /\ (Setters \/ Receive \/ Respond) => AccessInv'
  <1> SUFFICES ASSUME TypeInv, AccessInv, Setters \/ Receive \/ Respond PROVE AccessInv'
    OBVIOUS
  <1>1. CASE Setters
    <2>1. UNCHANGED <<pc, req, pos, log>> /\ auths \subseteq auths'
      BY <1>1 DEF Setters, SetAuthentication, SetUpdateSubsets, SetUpdateCb, request
    <2>2. AccessAllowed'
      BY <2>1, SameAccess DEF AccessInv
    <2>3. Granted'
      BY <2>1, RolesKept DEF AccessInv, Granted, Passed, Writable, Endpoint
    <2> QED
      BY <2>2, <2>3 DEF AccessInv
  <1>2. CASE Receive
    <2>1. log' = <<>> /\ pc' \in Methods \cup {"done"}
      BY <1>2, ConstantsAssumption DEF Receive, TypeInv, Place, RequestSet
    <2>2. Passed' = 0 /\ pc' \notin {"params", "call"}
      BY <2>1 DEF Passed, Methods
    <2> QED
      BY <2>1, <2>2 DEF AccessInv, AccessAllowed, Granted
  <1>3. CASE Respond
    BY <1>3 DEF Respond, AccessInv, AccessAllowed, Granted, Passed
  <1> QED
    BY <1>1, <1>2, <1>3

(* GET looks at no authentication; CREATE and DELETE touch no data.        *)
LEMMA ReadersAccess ==
    TypeInv /\ AccessInv /\ (Get \/ Names \/ Fetch \/ FetchItem \/ CreateDelete) => AccessInv'
  <1> SUFFICES ASSUME TypeInv, AccessInv, Get \/ Names \/ Fetch \/ FetchItem \/ CreateDelete
               PROVE  AccessInv'
    OBVIOUS
  <1>1. Step
    BY DEF Get, Names, Fetch, FetchItem, CreateDelete
  <1>2. pc' \in {"done", "items"}
    BY DEF Get, GetGroup, GetValue, Names, Fetch, FetchItem, CreateDelete, Finish, Goto, TooLarge,
           NotFound
  <1>3. Granted'
    BY <1>2 DEF Granted, Passed
  <1>4. CASE Get \/ Names \/ CreateDelete
    <2>1. req.method \notin {"fetch", "update", "exec"} /\ req' = req
      BY <1>1, <1>4 DEF Get, Names, CreateDelete, Step, TypeInv, Place, Methods
    <2> QED
      BY <1>3, <2>1 DEF AccessInv, AccessAllowed
  <1>5. CASE Fetch
    BY <1>1, <1>3, <1>5, SameAccess DEF Fetch, Step, AccessInv
  <1>6. CASE FetchItem
    <2>1. pc = "items" /\ req.method = "fetch"
      BY <1>6 DEF FetchItem, TypeInv, Place
    <2>2. /\ Endpoint \in Pointers /\ object \in Pointers /\ log \in Seq(Events)
          /\ (~AtEnd => Item.object \in Pointers)
      BY <2>1, Underway DEF Pointers
    <2>3. CASE Record(CallBack("PRE_READ", Endpoint, object'))
      <3>1. object' \in Pointers
        BY <1>6, <2>2 DEF FetchItem, Found, NotFound, Pointers
      <3> QED
        BY <1>1, <1>3, <2>1, <2>2, <2>3, <3>1, CallBackKeepsAccess DEF Step, Reasons, AccessInv
    <2>4. CASE Record(CallBack("POST_READ", Endpoint, object))
      BY <1>1, <1>3, <2>1, <2>2, <2>4, CallBackKeepsAccess DEF Step, Reasons, AccessInv
    <2>5. CASE /\ ~AtEnd /\ Allowed(Item.object, ReadRoles)
               /\ Record(ReadItem(Item.object))
      <3> DEFINE o == Item.object
                 pre == CallBack("PRE_READ", Endpoint, o)
                 read == Event("read", Endpoint, o)
      <3>1. pre \in Seq(Events) /\ Len(pre) \in Nat
        BY <2>2, <2>5, CallBackType, SMTT(30) DEF Reasons
      <3>2. read \in Events
        BY <2>2, <2>5, EventType DEF Deeds
      <3>3. \A i \in 1 .. Len(pre) : Rightful(pre[i])
        <4>1. \A i \in 1 .. Len(pre) : pre[i] = Event("PRE_READ", Endpoint, o)
          BY OneEvent DEF CallBack
        <4>2. Rightful(Event("PRE_READ", Endpoint, o))
          BY <2>1 DEF Rightful, Event
        <4> QED
          BY <4>1, <4>2
      <3>4. Rightful(read)
        BY <2>1, <2>5, AllowedNow DEF Rightful, Event
      <3>5. /\ pre \o <<read>> \in Seq(Events)
            /\ Len(pre \o <<read>>) = Len(pre) + 1
            /\ \A i \in 1 .. Len(pre) : (pre \o <<read>>)[i] = pre[i]
            /\ (pre \o <<read>>)[Len(pre) + 1] = read
        BY <3>1, <3>2, ConcatProperties
      <3>6. \A i \in 1 .. Len(pre \o <<read>>) : Rightful((pre \o <<read>>)[i])
        <4> SUFFICES ASSUME NEW i \in 1 .. Len(pre \o <<read>>)
                     PROVE  Rightful((pre \o <<read>>)[i])
          OBVIOUS
        <4>1. CASE i = Len(pre) + 1
          BY <3>4, <3>5, <4>1
        <4>2. CASE i # Len(pre) + 1
          <5>1. i \in 1 .. Len(pre)
            BY <3>1, <3>5, <4>2
          <5> QED
            BY <3>3, <3>5, <5>1
        <4> QED
          BY <4>1, <4>2
      <3>7. Record(pre \o <<read>>)
        BY <2>5 DEF ReadItem
      <3> QED
        BY <1>1, <1>3, <3>5, <3>6, <3>7, RecordKeepsAccess DEF Step, AccessInv
    <2> QED
      BY <1>6, <2>3, <2>4, <2>5 DEF FetchItem, Found
  <1> QED
    BY <1>4, <1>5, <1>6

LEMMA UpdateCheckAccess == TypeInv /\ AccessInv /\ (Update \/ UpdateCheck) => AccessInv'
  <1> SUFFICES ASSUME TypeInv, AccessInv, Update \/ UpdateCheck PROVE AccessInv'
    OBVIOUS
  <1>0. Step
    BY DEF Update, UpdateCheck
  <1>1. CASE Update
    <2>1. pos = 0 /\ UNCHANGED <<req, log, pos>> /\ auths' = auths
      BY <1>0, <1>1 DEF Update, Step, TypeInv, Place, Methods
    <2>2. pc' \in {"check", "done"}
      BY <1>1 DEF Update, Finish, Goto
    <2> QED
      BY <2>1, <2>2, SameAccess DEF AccessInv, Granted, Passed
  <1>2. CASE UpdateCheck
    <2>1. pc = "check" /\ req.method = "update" /\ UNCHANGED <<req, auths>>
      BY <1>0, <1>2 DEF UpdateCheck, Step, TypeInv, Place
    <2>2. AccessAllowed'
      <3>1. CASE UNCHANGED log
        BY <2>1, <3>1, SameAccess DEF AccessInv
      <3>2. CASE /\ ~AtEnd /\ Allowed(Item.object, WriteRoles)
                 /\ \E v \in Values : Write(Item.object, v)
        BY <2>1, <3>2, AllowedNow, Underway, WriteKeepsAccess DEF AccessInv
      <3> QED
        BY <1>2, <2>1, <3>1, <3>2, Underway DEF UpdateCheck, Found, CheckInto
    <2>3. Granted'
      <3>1. CASE pc' = "done"
        BY <3>1 DEF Granted, Passed
      <3>2. CASE pc' = "check" /\ pos' = pos + 1 /\ ~AtEnd /\ Allowed(Item.object, WriteRoles)
        <4>1. Writable(req.items[pos + 1].object) /\ pos \in Nat
          BY <2>1, <3>2, AllowedNow, Underway DEF Item
        <4>2. \A i \in 1 .. pos + 1 : Writable(req.items[i].object)
          BY <2>1, <4>1 DEF AccessInv, Granted, Passed
        <4> QED
          BY <2>1, <3>2, <4>2 DEF Granted, Passed, Writable
      <3>3. CASE pc' = "pre_write" /\ AtEnd
        BY <2>1, <3>3 DEF AccessInv, Granted, Passed, Writable, AtEnd
      <3> QED
        BY <1>2, <3>1, <3>2, <3>3 DEF UpdateCheck, Finish, Goto, Found
    <2> QED
      BY <2>2, <2>3 DEF AccessInv
  <1> QED
    BY <1>1, <1>2

LEMMA UpdateWriteAccess ==
    TypeInv /\ AccessInv /\ (PreWrite \/ UpdateWrite \/ PostWrite \/ UpdateNotify \/ UpdateNotifyCall)
    => AccessInv'
  <1> SUFFICES ASSUME TypeInv, AccessInv,
                      PreWrite \/ UpdateWrite \/ PostWrite \/ UpdateNotify \/ UpdateNotifyCall
               PROVE  AccessInv'
    OBVIOUS
  <1> DEFINE places == {"pre_write", "write", "post_write", "notify", "notify_call"}
  <1>1. pc \in places /\ UNCHANGED <<req, auths>> /\ req.method = "update"
    BY DEF PreWrite, UpdateWrite, PostWrite, UpdateNotify, UpdateNotifyCall, Step, TypeInv, Place
  <1>2. pc' \in places \cup {"done"}
    BY DEF PreWrite, UpdateWrite, FailInto, PostWrite, UpdateNotify, UpdateNotifyCall, Finish, Goto
  <1>3. Granted'
    BY <1>1, <1>2 DEF AccessInv, Granted, Passed, Writable
  <1>4. AccessAllowed'
    <2>1. CASE PreWrite
      BY <1>1, <2>1, Underway, CallBackKeepsAccess DEF PreWrite, Reasons, AccessInv, Pointers
    <2>2. CASE PostWrite
      BY <1>1, <2>2, Underway, CallBackKeepsAccess DEF PostWrite, Reasons, AccessInv, Pointers
    <2>3. CASE UNCHANGED log
      BY <1>1, <2>3, SameAccess DEF AccessInv
    <2>4. CASE UpdateWrite /\ ~AtEnd /\ \E v \in Values : Write(Item.object, v)
      <3>1. Writable(Item.object)
        BY <1>1, <2>4, Underway DEF AccessInv, Granted, Passed, Item
      <3> QED
        BY <1>1, <2>4, <3>1, Underway, WriteKeepsAccess DEF AccessInv
    <2>5. CASE UpdateNotifyCall
      <3> DEFINE e == Event("update_cb", updateCb, NoObject)
      <3>1. NoObject \in Pointers /\ updateCb \in Pointers \cup Callbacks /\ "update_cb" \in Deeds
        BY DEF Pointers, Deeds, TypeInv, TypeOK
      <3>2. e \in Events
        BY <3>1, EventType
      <3>3. <<e>> \in Seq(Events) /\ Len(<<e>>) = 1 /\ <<e>>[1] = e
        BY <3>2
      <3>4. Rightful(e)
        BY <1>1 DEF Rightful, Event
      <3>5. Record(<<e>>)
        BY <2>5 DEF UpdateNotifyCall
      <3>6. \A i \in 1 .. Len(<<e>>) : Rightful(<<e>>[i])
        BY <3>3, <3>4
      <3> QED
        BY <1>1, <3>3, <3>5, <3>6, RecordKeepsAccess DEF AccessInv
    <2> QED
      BY <1>1, <2>1, <2>2, <2>3, <2>4, <2>5, Underway DEF UpdateWrite, FailInto, UpdateNotify
  <1> QED
    BY <1>3, <1>4 DEF AccessInv

LEMMA ExecAccess == TypeInv /\ AccessInv /\ (Exec \/ ExecParameter \/ ExecCall) => AccessInv'
  <1> SUFFICES ASSUME TypeInv, AccessInv, Exec \/ ExecParameter \/ ExecCall PROVE AccessInv'
    OBVIOUS
  <1>1. UNCHANGED <<req, auths>> /\ req.method = "exec" /\ pc \notin {"idle", "done"}
    BY DEF Exec, ExecParameter, ExecCall, Step, TypeInv, Place, Methods
  <1>2. pc' \in {"params", "call", "done"} /\ (pc' # "done" => Writable(Endpoint))
    BY AllowedNow DEF Exec, ExecParameter, FailInto, ExecCall, TooLarge, Finish, Goto, AccessInv,
                      Granted
  <1>3. Granted'
    BY <1>1, <1>2 DEF Granted, Passed, Writable, Endpoint
  <1>4. AccessAllowed'
    <2>1. CASE UNCHANGED log
      BY <1>1, <2>1, SameAccess DEF AccessInv
    <2>2. CASE ExecParameter /\ Missing /\ ~AtEnd /\ \E v \in Values : Write(Parameter, v)
      <3>1. pc = "params" /\ Endpoint \in Callable
        BY <2>2 DEF ExecParameter, TypeInv, Place
      <3>2. Parameters[Endpoint] \in Seq(Objects)
        BY <3>1, ConstantsAssumption
      <3>3. Parameter \in Pointers
        BY <1>1, <2>2, <3>2, Underway DEF Missing, Parameter, Pointers
      <3>4. Writable(Endpoint)
        BY <3>1 DEF AccessInv, Granted
      <3> QED
        BY <1>1, <2>2, <3>3, <3>4, WriteKeepsAccess DEF AccessInv
    <2>3. CASE ExecCall
      <3> DEFINE e == Event("call", Endpoint, Endpoint)
      <3>1. Endpoint \in Pointers /\ Endpoint \in Pointers \cup Callbacks /\ "call" \in Deeds
        BY <1>1, Underway DEF Pointers, Deeds
      <3>2. e \in Events
        BY <3>1, EventType
      <3>3. <<e>> \in Seq(Events) /\ Len(<<e>>) = 1 /\ <<e>>[1] = e
        BY <3>2
      <3>4. Rightful(e)
        BY <1>1, <2>3 DEF Rightful, AccessInv, Granted, ExecCall
      <3>5. Record(<<e>>)
        BY <2>3 DEF ExecCall
      <3>6. \A i \in 1 .. Len(<<e>>) : Rightful(<<e>>[i])
        BY <3>3, <3>4
      <3> QED
        BY <1>1, <3>3, <3>5, <3>6, RecordKeepsAccess DEF AccessInv
    <2> QED
      BY <1>1, <2>1, <2>2, <2>3, Underway DEF Exec, ExecParameter, FailInto
  <1> QED
    BY <1>3, <1>4 DEF AccessInv

LEMMA AccessStep == TypeInv /\ AccessInv /\ [Next]_vars => AccessInv'
  <1> SUFFICES ASSUME TypeInv, AccessInv, [Next]_vars PROVE AccessInv'
    OBVIOUS
  <1>1. CASE UNCHANGED vars
    BY <1>1, SameAccess DEF vars, AccessInv, Granted, Passed, Writable, Endpoint
  <1>2. CASE Next
    BY <1>2, OutsideAccess, ReadersAccess, UpdateCheckAccess, UpdateWriteAccess, ExecAccess
    DEF Next, Process
  <1> QED
    BY <1>1, <1>2

(* FETCH, UPDATE and EXEC read, write and call only what an authentication *)
(* in force since the request began allows, for any database and although  *)
(* thingset_set_authentication takes no lock.                              *)
THEOREM AccessGranted == Spec => []AccessAllowed
  <1>1. Init => AccessInv
    BY DEF Init, AccessInv, AccessAllowed, Granted, Passed, NoRequest
  <1>2. AccessInv => AccessAllowed
    BY DEF AccessInv
  <1> QED
    BY <1>1, <1>2, AccessStep, TypeInvariance, PTL DEF Spec

-----------------------------------------------------------------------------
(***************************************************************************)
(* The order of callbacks.  It is the order of the places UPDATE passes:   *)
(* until "pre_write" only arrays have been written, POST_WRITE and the     *)
(* update callback are in the log only behind the place that makes them.   *)
(***************************************************************************)
Before(what, places) == Did(what) # {} => pc \in places

Reads == {"PRE_READ", "POST_READ", "read"}

OrderInv ==
    /\ CallbackOrder
    /\ Before("PRE_WRITE", {"write", "post_write", "notify", "notify_call", "done"})
    /\ Before("POST_WRITE", {"notify", "notify_call", "done"})
    /\ Before("update_cb", {"done"})
    /\ Before("call", {"done"})
    /\ Did("update_cb") # {} => req.method = "update"
    /\ Did("call") # {} => req.method = "exec"
    /\ pc = "items" => \A i \in 1 .. Len(log) : log[i].what \in Reads
    /\ pc \in {"check", "pre_write"} => \A j \in Did("write") : log[j].arg \in Arrays
    /\ pc \in {"notify", "notify_call"} /\ IsCalledBack(Endpoint) => Did("POST_WRITE") # {}

(* What is appended to the log comes behind what is there. *)
LEMMA DidNext ==
    ASSUME TypeInv, NEW e \in Events, Record(<<e>>)
    PROVE  /\ \A what : Did(what)' = Did(what) \cup (IF e.what = what THEN {Len(log) + 1} ELSE {})
           /\ \A i \in 1 .. Len(log) : log'[i] = log[i]
           /\ log'[Len(log) + 1] = e
           /\ Len(log) \in Nat /\ \A what : Did(what) \subseteq 1 .. Len(log)
  <1>1. log \in Seq(Events) /\ log' = log \o <<e>> /\ Len(log) \in Nat
    BY DEF TypeInv, TypeOK, Record
  <1>2. /\ Len(log') = Len(log) + 1
        /\ \A i \in 1 .. Len(log) : log'[i] = log[i]
        /\ log'[Len(log) + 1] = e
    BY <1>1
  <1> QED
    BY <1>1, <1>2 DEF Did

Onward ==
    \/ pc' = "done" \/ pc' = pc
    \/ pc' \in {"items", "check"} /\ log = <<>>
    \/ pc' = "pre_write" /\ pc = "check"
    \/ pc' = "write" /\ pc = "pre_write"
    \/ pc' = "post_write" /\ pc = "write"
    \/ pc' = "notify" /\ pc = "post_write" /\ ~IsCalledBack(Endpoint)
    \/ pc' = "notify_call" /\ pc = "notify"
    \/ pc' \in {"params", "call"} /\ pc \in {"exec", "params"}

LEMMA OrderSame ==
    ASSUME OrderInv, req' = req, log' = log, Onward
    PROVE  OrderInv'
  <1>1. \A what : Did(what)' = Did(what)
    BY DEF Did
  <1>2. CallbackOrder'
    BY <1>1 DEF OrderInv, CallbackOrder, Endpoint
  <1>3. log = <<>> => \A what : Did(what) = {}
    BY DEF Did
  <1> QED
    BY <1>1, <1>2, <1>3 DEF OrderInv, Before, Endpoint, Onward

(* Nothing of what the order is about is in a log of reads.                *)
LEMMA OrderReads ==
    ASSUME log' \in Seq(Events), pc' \in {"done", "items"} \cup Methods \cup {"idle"},
           \A i \in 1 .. Len(log') : log'[i].what \in Reads
    PROVE  OrderInv'
  <1>1. \A what \in {"PRE_WRITE", "POST_WRITE", "write", "update_cb", "call"} : Did(what)' = {}
    BY DEF Did, Reads
  <1> QED
    BY <1>1 DEF OrderInv, Before, CallbackOrder, Methods

LEMMA EmptyOrder == log' = <<>> /\ pc' \in Methods \cup {"idle", "done"} => OrderInv'
  <1> SUFFICES ASSUME log' = <<>>, pc' \in Methods \cup {"idle", "done"} PROVE OrderInv'
    OBVIOUS
  <1>1. log' \in Seq(Events) /\ Len(log') = 0
    BY NothingType
  <1> QED
    BY <1>1, OrderReads

LEMMA ReadsConcat ==
    ASSUME NEW s \in Seq(Events), NEW t \in Seq(Events),
           \A i \in 1 .. Len(s) : s[i].what \in Reads,
           \A i \in 1 .. Len(t) : t[i].what \in Reads
    PROVE  /\ s \o t \in Seq(Events)
           /\ \A i \in 1 .. Len(s \o t) : (s \o t)[i].what \in Reads
  BY ConcatProperties

LEMMA ReadCallBack ==
    ASSUME NEW reason \in {"PRE_READ", "POST_READ"}, NEW on \in Pointers, NEW arg \in Pointers
    PROVE  /\ CallBack(reason, on, arg) \in Seq(Events)
           /\ \A i \in 1 .. Len(CallBack(reason, on, arg)) :
                 CallBack(reason, on, arg)[i].what \in Reads
  <1>1. CallBack(reason, on, arg) \in Seq(Events)
    BY CallBackType DEF Reasons
  <1>2. CallBack(reason, on, arg) = <<>> \/ CallBack(reason, on, arg) = <<Event(reason, on, arg)>>
    BY DEF CallBack
  <1>3. Event(reason, on, arg).what \in Reads
    BY DEF Event, Reads
  <1> QED
    BY <1>1, <1>2, <1>3

LEMMA ReadEvent ==
    ASSUME NEW on \in Pointers, NEW arg \in Pointers
    PROVE  LET read == <<Event("read", on, arg)>>
           IN  read \in Seq(Events) /\ \A i \in 1 .. Len(read) : read[i].what \in Reads
  <1>1. Event("read", on, arg) \in Events
    BY EventType DEF Deeds
  <1>2. Event("read", on, arg).what \in Reads
    BY DEF Event, Reads
  <1> QED
    BY <1>1, <1>2

LEMMA ReadersOrder ==
    TypeInv /\ OrderInv /\ (Get \/ Names \/ Fetch \/ FetchItem \/ CreateDelete) => OrderInv'
  <1> SUFFICES ASSUME TypeInv, OrderInv,
                      Get \/ Names \/ Fetch \/ FetchItem \/ CreateDelete
               PROVE  OrderInv'
    OBVIOUS
  <1>1. CASE Names \/ Fetch \/ CreateDelete
    <2>1. UNCHANGED <<req, log>> /\ log = <<>>
      BY <1>1 DEF Names, Fetch, CreateDelete, Step, TypeInv, Place, Methods
    <2>2. pc' \in {"done", "items"}
      BY <1>1 DEF Names, Fetch, CreateDelete, Finish, Goto, TooLarge
    <2> QED
      BY <2>1, <2>2, OrderSame DEF Onward
  <1>2. CASE Get
    <2>1. log = <<>> /\ pc = "get" /\ pc' = "done"
      BY <1>2 DEF Get, GetGroup, GetValue, Finish, TooLarge, TypeInv, Place, Methods
    <2>2. Endpoint \in Pointers /\ Parent[Endpoint] \in Pointers
      BY <2>1, Underway, ConstantsAssumption DEF Pointers
    <2>3. ASSUME NEW events \in Seq(Events), Record(events),
                 \A i \in 1 .. Len(events) : events[i].what \in Reads
          PROVE  OrderInv'
      <3>1. log' = events
        BY <2>1, <2>3, ConcatProperties, NothingType DEF Record
      <3> QED
        BY <2>1, <2>3, <3>1, OrderReads
    <2>4. ASSUME NEW on \in Pointers
          PROVE  LET pre == CallBack("PRE_READ", on, Endpoint)
                     read == <<Event("read", on, Endpoint)>>
                     post == CallBack("POST_READ", on, Endpoint)
                 IN  Record(pre \o read) \/ Record((pre \o read) \o post) => OrderInv'
      <3> DEFINE pre == CallBack("PRE_READ", on, Endpoint)
                 read == <<Event("read", on, Endpoint)>>
                 post == CallBack("POST_READ", on, Endpoint)
      <3>1. /\ pre \in Seq(Events) /\ \A i \in 1 .. Len(pre) : pre[i].what \in Reads
            /\ post \in Seq(Events) /\ \A i \in 1 .. Len(post) : post[i].what \in Reads
            /\ read \in Seq(Events) /\ \A i \in 1 .. Len(read) : read[i].what \in Reads
        BY <2>2, ReadCallBack, ReadEvent
      <3> HIDE DEF pre, read, post
      <3>2. /\ pre \o read \in Seq(Events)
            /\ \A i \in 1 .. Len(pre \o read) : (pre \o read)[i].what \in Reads
        BY <3>1, ReadsConcat
      <3>3. /\ (pre \o read) \o post \in Seq(Events)
            /\ \A i \in 1 .. Len((pre \o read) \o post) :
                  ((pre \o read) \o post)[i].what \in Reads
        BY <3>1, <3>2, ReadsConcat
      <3>4. Record(pre \o read) \/ Record((pre \o read) \o post) => OrderInv'
        BY <2>3, <3>2, <3>3
      <3> QED
        BY <3>4 DEF pre, read, post
    <2>5. Record(<<>>) \/ UNCHANGED log => OrderInv'
      BY <2>1, EmptyOrder DEF Record
    <2> QED
      BY <1>2, <2>2, <2>4, <2>5 DEF Get, GetGroup, GetValue
  <1>3. CASE FetchItem
    <2>1. pc = "items" /\ pc' \in {"done", "items"} /\ log \in Seq(Events)
      BY <1>3 DEF FetchItem, Finish, Goto, TooLarge, TypeInv, TypeOK
    <2>2. Endpoint \in Pointers /\ object \in Pointers /\ (~AtEnd => Item.object \in Pointers)
      BY <2>1, Underway DEF Pointers
    <2>3. object' \in Pointers
      BY <1>3, <2>2 DEF FetchItem, Found, NotFound, Pointers
    <2>4. ASSUME NEW events \in Seq(Events), Record(events),
                 \A i \in 1 .. Len(events) : events[i].what \in Reads
          PROVE  OrderInv'
      <3>1. /\ log \o events \in Seq(Events)
            /\ \A i \in 1 .. Len(log \o events) : (log \o events)[i].what \in Reads
        BY <2>1, <2>4, ReadsConcat DEF OrderInv
      <3> QED
        BY <2>1, <2>4, <3>1, OrderReads DEF Record
    <2>5. CASE Record(CallBack("PRE_READ", Endpoint, object'))
      BY <2>2, <2>3, <2>4, <2>5, ReadCallBack
    <2>6. CASE Record(CallBack("POST_READ", Endpoint, object))
      BY <2>2, <2>4, <2>6, ReadCallBack
    <2>7. CASE ~AtEnd /\ Record(ReadItem(Item.object))
      <3> DEFINE pre == CallBack("PRE_READ", Endpoint, Item.object)
                 read == <<Event("read", Endpoint, Item.object)>>
      <3>1. /\ pre \in Seq(Events) /\ \A i \in 1 .. Len(pre) : pre[i].what \in Reads
            /\ read \in Seq(Events) /\ \A i \in 1 .. Len(read) : read[i].what \in Reads
        BY <2>2, <2>7, ReadCallBack, ReadEvent
      <3>2. Record(pre \o read)
        BY <2>7 DEF ReadItem
      <3> HIDE DEF pre, read
      <3> QED
        BY <2>4, <3>1, <3>2, ReadsConcat
    <2> QED
      BY <1>3, <2>5, <2>6, <2>7 DEF FetchItem, Found
  <1> QED
    BY <1>1, <1>2, <1>3

LEMMA OutsideOrder == TypeInv /\ OrderInv /\ (Setters \/ Receive \/ Respond) => OrderInv'
  <1> SUFFICES ASSUME TypeInv, OrderInv, Setters \/ Receive \/ Respond PROVE OrderInv'
    OBVIOUS
  <1>1. CASE Setters
    <2>1. UNCHANGED <<req, log, pc>>
      BY <1>1 DEF Setters, SetAuthentication, SetUpdateSubsets, SetUpdateCb, request
    <2> QED
      BY <2>1, OrderSame DEF Onward
  <1>2. CASE Receive
    BY <1>2, EmptyOrder, ConstantsAssumption DEF Receive, TypeInv, Place, RequestSet
  <1>3. CASE Respond
    BY <1>3, EmptyOrder DEF Respond
  <1> QED
    BY <1>1, <1>2, <1>3

(* The actions that write or call back append one event at most.  When it  *)
(* comes at its place, the order is kept.                                  *)
AtItsPlace(e) ==
    CASE e.what = "PRE_WRITE" -> pc = "pre_write" /\ pc' \in {"write", "done"}
      [] e.what = "write" ->
            \/ pc = "check" /\ e.arg \in Arrays /\ pc' \in {"check", "done"}
            \/ pc = "write" /\ pc' \in {"write", "done"}
            \/ pc = "params" /\ pc' \in {"params", "done"}
      [] e.what = "POST_WRITE" -> pc = "post_write" /\ pc' \in {"notify", "done"}
      [] e.what = "update_cb" -> pc = "notify_call" /\ pc' = "done"
      [] e.what = "call" -> pc = "call" /\ pc' = "done"
      [] OTHER -> FALSE

LEMMA OrderAppend ==
    ASSUME TypeInv, OrderInv, UNCHANGED req, NEW e \in Events, Record(<<e>>), AtItsPlace(e)
    PROVE  OrderInv'
  <1>1. /\ \A what : Did(what)' = Did(what) \cup (IF e.what = what THEN {Len(log) + 1} ELSE {})
        /\ \A i \in 1 .. Len(log) : log'[i] = log[i]
        /\ log'[Len(log) + 1] = e
        /\ Len(log) \in Nat /\ \A what : Did(what) \subseteq 1 .. Len(log)
    BY DidNext
  <1>2. \A what : \A i \in Did(what) : i \in Nat /\ i < Len(log) + 1 /\ log'[i] = log[i]
    BY <1>1
  <1>8. e.what # "call" => Did("call")' = {}
    BY <1>1 DEF AtItsPlace, OrderInv, Before
  <1>3. CASE e.what = "PRE_WRITE"
    <2>1. /\ pc = "pre_write" /\ pc' \in {"write", "done"}
          /\ Did("write")' = Did("write")
          /\ Did("POST_WRITE")' = {} /\ Did("update_cb")' = {}
      BY <1>1, <1>3 DEF AtItsPlace, OrderInv, Before
    <2>2. \A j \in Did("write")' : log'[j].arg \in Arrays
      BY <1>2, <2>1 DEF OrderInv
    <2> QED
      BY <1>3, <1>8, <2>1, <2>2 DEF OrderInv, Before, CallbackOrder
  <1>4. CASE e.what = "write"
    <2>1. /\ Did("write")' = Did("write") \cup {Len(log) + 1}
          /\ Did("PRE_WRITE")' = Did("PRE_WRITE")
          /\ Did("POST_WRITE")' = {} /\ Did("update_cb")' = {}
      BY <1>1, <1>4 DEF AtItsPlace, OrderInv, Before
    <2>2. \A i \in Did("PRE_WRITE")', j \in Did("write")' : log'[j].arg \notin Arrays => i < j
      BY <1>2, <2>1 DEF OrderInv, CallbackOrder
    <2>3. CASE pc = "check" /\ e.arg \in Arrays /\ pc' \in {"check", "done"}
      <3>1. \A j \in Did("write")' : log'[j].arg \in Arrays
        BY <1>1, <1>2, <2>1, <2>3 DEF OrderInv
      <3>2. Did("PRE_WRITE")' = {}
        BY <2>1, <2>3 DEF OrderInv, Before
      <3> QED
        BY <1>4, <1>8, <2>1, <2>2, <2>3, <3>1, <3>2 DEF OrderInv, Before, CallbackOrder
    <2>4. CASE pc = "write" /\ pc' \in {"write", "done"}
      BY <1>4, <1>8, <2>1, <2>2, <2>4 DEF OrderInv, Before, CallbackOrder
    <2>5. CASE pc = "params" /\ pc' \in {"params", "done"}
      <3>1. Did("PRE_WRITE")' = {}
        BY <2>1, <2>5 DEF OrderInv, Before
      <3> QED
        BY <1>4, <1>8, <2>1, <2>2, <2>5, <3>1 DEF OrderInv, Before, CallbackOrder
    <2> QED
      BY <1>4, <2>3, <2>4, <2>5 DEF AtItsPlace
  <1>5. CASE e.what = "POST_WRITE"
    <2>1. /\ pc = "post_write" /\ pc' \in {"notify", "done"}
          /\ Did("POST_WRITE")' = {Len(log) + 1} /\ Did("update_cb")' = {}
          /\ Did("write")' = Did("write") /\ Did("PRE_WRITE")' = Did("PRE_WRITE")
      BY <1>1, <1>5 DEF AtItsPlace, OrderInv, Before
    <2>2. \A i \in Did("PRE_WRITE")', j \in Did("write")' : log'[j].arg \notin Arrays => i < j
      BY <1>2, <2>1 DEF OrderInv, CallbackOrder
    <2>3. \A i \in Did("write")', j \in Did("POST_WRITE")' : i < j
      BY <1>2, <2>1
    <2> QED
      BY <1>5, <1>8, <2>1, <2>2, <2>3 DEF OrderInv, Before, CallbackOrder
  <1>6. CASE e.what = "update_cb"
    <2>0. req'.method = "update"
      BY <1>6 DEF AtItsPlace, TypeInv, Place
    <2>1. /\ pc = "notify_call" /\ pc' = "done"
          /\ Did("POST_WRITE")' = Did("POST_WRITE") /\ Did("update_cb")' = {Len(log) + 1}
          /\ Did("write")' = Did("write") /\ Did("PRE_WRITE")' = Did("PRE_WRITE")
      BY <1>1, <1>6 DEF AtItsPlace, OrderInv, Before
    <2>2. \A i \in Did("PRE_WRITE")', j \in Did("write")' : log'[j].arg \notin Arrays => i < j
      BY <1>2, <2>1 DEF OrderInv, CallbackOrder
    <2>3. \A i \in Did("write")', j \in Did("POST_WRITE")' : i < j
      BY <2>1 DEF OrderInv, CallbackOrder
    <2>4. IsCalledBack(Endpoint) => \E j \in Did("POST_WRITE") : j < Len(log) + 1
      BY <1>2, <2>1 DEF OrderInv
    <2>5. \A i \in Did("update_cb")' : IsCalledBack(Endpoint') => \E j \in Did("POST_WRITE")' : j < i
      BY <2>1, <2>4 DEF Endpoint
    <2> QED
      BY <1>6, <1>8, <2>0, <2>1, <2>2, <2>3, <2>5 DEF OrderInv, Before, CallbackOrder
  <1>7. CASE e.what = "call"
    <2>1. /\ pc = "call" /\ pc' = "done"
          /\ Did("PRE_WRITE")' = {} /\ Did("POST_WRITE")' = {} /\ Did("update_cb")' = {}
      BY <1>1, <1>7 DEF AtItsPlace, OrderInv, Before
    <2>2. req'.method = "exec"
      BY <2>1 DEF TypeInv, Place
    <2> QED
      BY <2>1, <2>2 DEF OrderInv, Before, CallbackOrder
  <1> QED
    BY <1>3, <1>4, <1>5, <1>6, <1>7 DEF AtItsPlace

(* The same of a callback that may be missing.                             *)
LEMMA OrderCallBack ==
    ASSUME TypeInv, OrderInv, UNCHANGED req,
           NEW reason \in {"PRE_WRITE", "POST_WRITE"}, NEW arg \in Pointers,
           Endpoint \in Pointers,
           Record(CallBack(reason, Endpoint, arg)),
           AtItsPlace(Event(reason, Endpoint, arg))
    PROVE  OrderInv'
  <1>1. Event(reason, Endpoint, arg) \in Events
    BY EventType DEF Deeds, Reasons
  <1>2. CASE IsCalledBack(Endpoint)
    BY <1>1, <1>2, OrderAppend DEF CallBack
  <1>3. CASE ~IsCalledBack(Endpoint)
    <2>1. log' = log
      BY <1>3, ConcatProperties DEF CallBack, Record, TypeInv, TypeOK
    <2>2. \/ pc = "pre_write" /\ pc' \in {"write", "done"}
          \/ pc = "post_write" /\ pc' \in {"notify", "done"}
      BY DEF AtItsPlace, Event
    <2> QED
      BY <1>3, <2>1, <2>2, OrderSame DEF Onward
  <1> QED
    BY <1>2, <1>3

LEMMA OrderWrite ==
    ASSUME TypeInv, OrderInv, UNCHANGED req, Endpoint \in Objects,
           NEW o \in Pointers, NEW v \in Values, Write(o, v),
           AtItsPlace(Event("write", Endpoint, o))
    PROVE  OrderInv'
  <1>1. Event("write", Endpoint, o) \in Events
    BY EventType DEF Deeds, Pointers
  <1> QED
    BY <1>1, OrderAppend DEF Write

LEMMA UpdateOrder ==
    TypeInv /\ OrderInv /\ (Update \/ UpdateCheck \/ PreWrite \/ UpdateWrite) => OrderInv'
  <1> SUFFICES ASSUME TypeInv, OrderInv, Update \/ UpdateCheck \/ PreWrite \/ UpdateWrite
               PROVE  OrderInv'
    OBVIOUS
  <1>1. req' = req /\ Endpoint \in Objects /\ Endpoint \in Pointers /\ object \in Pointers
    BY Underway DEF Update, UpdateCheck, PreWrite, UpdateWrite, Step, Pointers
  <1>2. CASE Update
    <2>1. log' = log /\ log = <<>> /\ pc' \in {"check", "done"}
      BY <1>2 DEF Update, Goto, Finish, TypeInv, Place, Methods
    <2> QED
      BY <1>1, <2>1, OrderSame DEF Onward
  <1>3. CASE UpdateCheck
    <2>1. pc = "check" /\ pc' \in {"check", "pre_write", "done"}
      BY <1>3 DEF UpdateCheck, Goto, Finish
    <2>2. CASE log' = log
      BY <1>1, <2>1, <2>2, OrderSame DEF Onward
    <2>3. ASSUME NEW v \in Values, Item.object \in Objects, pc' \in {"check", "done"},
                 CheckInto(Item.object, v)
          PROVE  OrderInv'
      <3>1. Item.object \in Pointers
        BY <2>3 DEF Pointers
      <3>2. CASE Type[Item.object] = "array"
        <4>1. AtItsPlace(Event("write", Endpoint, Item.object))
          BY <2>1, <2>3, <3>2 DEF AtItsPlace, Event, Arrays
        <4> QED
          BY <1>1, <2>3, <3>1, <3>2, <4>1, OrderWrite DEF CheckInto
      <3>3. CASE Type[Item.object] # "array"
        BY <2>2, <2>3, <3>3 DEF CheckInto
      <3> QED
        BY <3>2, <3>3
    <2>4. ~AtEnd => Item.val \in Values
      BY <2>1, Underway
    <2> QED
      BY <1>3, <2>2, <2>3, <2>4 DEF UpdateCheck, Found, Children, Goto, Finish
  <1>4. CASE PreWrite
    <2>1. AtItsPlace(Event("PRE_WRITE", Endpoint, object))
      BY <1>4 DEF PreWrite, AtItsPlace, Event, Goto, Finish
    <2> QED
      BY <1>1, <1>4, <2>1, OrderCallBack DEF PreWrite
  <1>5. CASE UpdateWrite
    <2>1. pc = "write" /\ pc' \in {"write", "post_write", "done"}
      BY <1>5 DEF UpdateWrite, Goto, FailInto, Finish
    <2>2. CASE log' = log
      BY <1>1, <2>1, <2>2, OrderSame DEF Onward
    <2>3. ASSUME NEW v \in Values, ~AtEnd, pc' \in {"write", "done"}, Write(Item.object, v)
          PROVE  OrderInv'
      <3>1. Item.object \in Pointers
        BY <2>1, <2>3, Underway
      <3>2. AtItsPlace(Event("write", Endpoint, Item.object))
        BY <2>1, <2>3 DEF AtItsPlace, Event
      <3> QED
        BY <1>1, <2>3, <3>1, <3>2, OrderWrite
    <2>4. ~AtEnd => Item.val \in Values
      BY <2>1, Underway
    <2> QED
      BY <1>5, <2>2, <2>3, <2>4 DEF UpdateWrite, FailInto, Goto, Finish
  <1> QED
    BY <1>2, <1>3, <1>4, <1>5

LEMMA NotifyOrder ==
    TypeInv /\ OrderInv /\ (PostWrite \/ UpdateNotify \/ UpdateNotifyCall) => OrderInv'
  <1> SUFFICES ASSUME TypeInv, OrderInv, PostWrite \/ UpdateNotify \/ UpdateNotifyCall
               PROVE  OrderInv'
    OBVIOUS
  <1>1. req' = req /\ Endpoint \in Objects /\ Endpoint \in Pointers /\ object \in Pointers
    BY Underway DEF PostWrite, UpdateNotify, UpdateNotifyCall, Step, Pointers
  <1>2. CASE PostWrite
    <2>1. AtItsPlace(Event("POST_WRITE", Endpoint, object))
      BY <1>2 DEF PostWrite, AtItsPlace, Event, Goto, Finish
    <2> QED
      BY <1>1, <1>2, <2>1, OrderCallBack DEF PostWrite
  <1>3. CASE UpdateNotify
    BY <1>1, <1>3, OrderSame DEF UpdateNotify, Goto, Finish, Onward
  <1>4. CASE UpdateNotifyCall
    <2> DEFINE e == Event("update_cb", updateCb, NoObject)
    <2>1. e \in Events
      <3>1. NoObject \in Pointers /\ updateCb \in Pointers \cup Callbacks /\ "update_cb" \in Deeds
        BY DEF Pointers, Deeds, TypeInv, TypeOK
      <3> QED
        BY <3>1, EventType
    <2>2. AtItsPlace(e)
      BY <1>4 DEF UpdateNotifyCall, AtItsPlace, Event, Finish
    <2> QED
      BY <1>1, <1>4, <2>1, <2>2, OrderAppend DEF UpdateNotifyCall
  <1> QED
    BY <1>2, <1>3, <1>4

LEMMA ExecOrder == TypeInv /\ OrderInv /\ (Exec \/ ExecParameter \/ ExecCall) => OrderInv'
  <1> SUFFICES ASSUME TypeInv, OrderInv, Exec \/ ExecParameter \/ ExecCall PROVE OrderInv'
    OBVIOUS
  <1>1. req' = req /\ Endpoint \in Objects /\ Endpoint \in Pointers
    BY Underway DEF Exec, ExecParameter, ExecCall, Step, Pointers
  <1>2. CASE Exec
    BY <1>1, <1>2, OrderSame DEF Exec, Goto, Finish, Onward
  <1>3. CASE ExecParameter
    <2>1. pc = "params" /\ pc' \in {"params", "call", "done"}
      BY <1>3 DEF ExecParameter, Goto, FailInto, Finish
    <2>2. CASE log' = log
      BY <1>1, <2>1, <2>2, OrderSame DEF Onward
    <2>3. ASSUME NEW v \in Values, Missing, pc' \in {"params", "done"}, Write(Parameter, v)
          PROVE  OrderInv'
      <3>1. Parameters[Endpoint] \in Seq(Objects)
        BY <2>1, ConstantsAssumption DEF TypeInv, Place
      <3>2. Parameter \in Pointers
        BY <2>1, <2>3, <3>1, Underway DEF Missing, Parameter, Pointers
      <3>3. AtItsPlace(Event("write", Endpoint, Parameter))
        BY <2>1, <2>3 DEF AtItsPlace, Event
      <3> QED
        BY <1>1, <2>3, <3>2, <3>3, OrderWrite
    <2>4. ~AtEnd => Item.val \in Values
      BY <2>1, Underway
    <2> QED
      BY <1>3, <2>2, <2>3, <2>4 DEF ExecParameter, FailInto, Goto, Finish
  <1>4. CASE ExecCall
    <2>1. Event("call", Endpoint, Endpoint) \in Events
      BY <1>1, EventType DEF Deeds
    <2>2. AtItsPlace(Event("call", Endpoint, Endpoint))
      BY <1>4 DEF ExecCall, AtItsPlace, Event, Finish, TooLarge
    <2> QED
      BY <1>1, <1>4, <2>1, <2>2, OrderAppend DEF ExecCall
  <1> QED
    BY <1>2, <1>3, <1>4

LEMMA OrderStep == TypeInv /\ OrderInv /\ [Next]_vars => OrderInv'
  <1> SUFFICES ASSUME TypeInv, OrderInv, [Next]_vars PROVE OrderInv'
    OBVIOUS
  <1>1. CASE UNCHANGED vars
    BY <1>1, OrderSame DEF vars, Onward
  <1>2. CASE Next
    BY <1>2, OutsideOrder, ReadersOrder, UpdateOrder, NotifyOrder, ExecOrder DEF Next, Process
  <1> QED
    BY <1>1, <1>2

LEMMA OrderInvariance == Spec => []OrderInv
  <1>1. Init => OrderInv
    <2> SUFFICES ASSUME Init PROVE OrderInv
      OBVIOUS
    <2>1. log = <<>> /\ pc = "idle" /\ \A what : Did(what) = {}
      BY NothingType DEF Init, Did
    <2> QED
      BY <2>1 DEF OrderInv, Before, CallbackOrder
  <1> QED
    BY <1>1, OrderStep, TypeInvariance, PTL DEF Spec

(* PRE_WRITE, the writes, POST_WRITE and the update callback come in this  *)
(* order on every path through a request, for any database and payload.    *)
THEOREM CallbacksInOrder == Spec => []CallbackOrder
  <1>1. OrderInv => CallbackOrder
    BY DEF OrderInv
  <1> QED
    BY <1>1, OrderInvariance, PTL
=============================================================================
