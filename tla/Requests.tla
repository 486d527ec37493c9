------------------------------ MODULE Requests ------------------------------
(***************************************************************************)
(* The requests of src/thingset_common.c, which text and binary mode       *)
(* share: GET, FETCH, UPDATE, EXEC, CREATE and DELETE on a database of     *)
(* typed objects, with the callbacks of the application they run.  One     *)
(* request is processed at a time (ThingsetContext has the lock), but      *)
(* thingset_set_authentication and thingset_set_update_callback take no    *)
(* lock and may run between any two of its steps.                          *)
(*                                                                         *)
(* A payload is a sequence of items, each naming a child of the endpoint   *)
(* (or none) and carrying a value whose form is "good", "bad" (rejected    *)
(* when decoded) or "late" (passes the check of UPDATE, which looks only   *)
(* at the length of a string, but does not decode).                        *)
(***************************************************************************)
EXTENDS Naturals, Sequences, FiniteSets, Functions

CONSTANTS
    Objects,        \* the objects of the database
    Type,           \* object->type, the scalar types as "value"
    Parent,         \* object->parent_id
    ReadRoles,      \* object->access & THINGSET_READ_MASK
    WriteRoles,     \* object->access & THINGSET_WRITE_MASK
    SubsetOf,       \* data.subset of an object of type SUBSET
    Parameters,     \* the children of a function in the order of the database
    HasCallback,    \* groups with a callback
    Values,         \* values of an object
    InitData,       \* the values at boot
    InitSubsets,    \* object->subsets at boot
    Root,           \* root_object, with ID 0
    PeerRequests,   \* the requests the peer sends
    InitAuth,       \* THINGSET_USR_MASK
    Auths,          \* arguments of thingset_set_authentication
    InitRegistration, \* a thingset_set_update_callback before the first request
    Registrations,  \* arguments of thingset_set_update_callback
    NoCb,           \* no update callback
    NoObject,       \* a null or uninitialised object pointer
    Vetoes          \* whether group callbacks may return an error

Types == {"group", "value", "array", "fn", "subset"}
Callable == {o \in Objects : Type[o] = "fn"}
Groups == {o \in Objects : Type[o] = "group"}
Arrays == {o \in Objects : Type[o] = "array"}
Children(o) == {c \in Objects : Parent[c] = o}
Methods == {"get", "names", "fetch", "update", "exec", "create", "delete"}

(* opens: the payload begins with the list or map the method asks for.     *)
Items == [object : Objects \cup {NoObject}, form : {"good", "bad", "late"}, val : Values]
RequestSet == [method : Methods, endpoint : Objects \cup {NoObject},
               opens : BOOLEAN, items : Seq(Items)]
NoRequest == [method |-> "get", endpoint |-> NoObject, opens |-> TRUE, items |-> <<>>]

ASSUME ConstantsAssumption ==
    /\ NoObject \notin Objects
    /\ Root \in Objects
    /\ Type \in [Objects -> Types]
    /\ Type[Root] = "group"
    /\ Parent \in [Objects -> Objects \cup {NoObject}]
    /\ Parent[Root] = NoObject
    /\ \A o \in Callable : /\ Parameters[o] \in Seq(Objects) /\ IsInjective(Parameters[o])
                          /\ Range(Parameters[o]) = Children(o)
    /\ HasCallback \subseteq Groups \ {Root}
    /\ InitData \in [Objects -> Values] /\ DOMAIN InitSubsets = Objects
    /\ PeerRequests \subseteq RequestSet
    /\ Vetoes \in BOOLEAN

VARIABLES
    data,      \* the application's variables
    subsets,   \* object->subsets
    auth,      \* ts->auth_flags
    mask,      \* ts->update_subsets
    updateCb,  \* ts->update_cb
    setter,    \* a thingset_set_update_callback under way, or nothing
    pc,        \* the step the request is at
    req,       \* the request
    pos,       \* items of the payload that are done
    object,    \* the local variable object of FETCH and UPDATE
    updated,   \* the local variable updated of UPDATE
    status,    \* the response code
    \* what follows records the past and is no part of the code
    log,       \* what the request has done, in order
    base,      \* data when it began
    auths,     \* authentication since it began
    watches,   \* update_subsets and update_cb since it began
    accepted   \* UPDATE has checked the whole payload

app == <<auth, mask, updateCb, setter>>
request == <<pc, req, pos, object, updated, status, log, base, accepted>>
vars == <<data, subsets, auth, mask, updateCb, setter, pc, req, pos, object, updated,
          status, log, base, auths, watches, accepted>>

Positions == Methods \cup {"idle", "items", "check", "pre_write", "write", "post_write",
                           "notify", "notify_call", "params", "call", "done"}

Statuses == {"none", "content", "changed", "created", "deleted", "bad_request",
             "unauthorized", "forbidden", "not_found", "not_implemented",
             "method_not_allowed", "unsupported", "too_large", "vetoed"}

Reasons == {"PRE_READ", "POST_READ", "PRE_WRITE", "POST_WRITE"}

(* The registration in force. *)
Watch == [subsets |-> mask, cb |-> updateCb]

(* What the request did: what, through which pointer, to which object.     *)
Event(what, on, arg) == [what |-> what, on |-> on, arg |-> arg]

Callbacks == {NoCb, InitRegistration.cb} \cup {r.cb : r \in Registrations}
Deeds == Reasons \cup {"read", "write", "update_cb", "call"}
Pointers == Objects \cup {NoObject}
Events == [what : Deeds, on : Pointers \cup Callbacks, arg : Pointers]

Did(what) == {i \in 1 .. Len(log) : log[i].what = what}

TypeOK ==
    /\ data \in [Objects -> Values] /\ base \in [Objects -> Values]
    /\ DOMAIN subsets = Objects
    /\ updateCb \in Callbacks /\ setter \in {<<>>} \cup {<<cb>> : cb \in Callbacks}
    /\ pc \in Positions
    /\ req \in PeerRequests \cup {NoRequest}
    /\ pos \in 0 .. Len(req.items)
    /\ object \in Objects \cup {NoObject}
    /\ updated \in BOOLEAN /\ accepted \in BOOLEAN
    /\ status \in Statuses
    /\ log \in Seq(Events)
    /\ auth \in auths /\ Watch \in watches

Init ==
    /\ data = InitData /\ base = InitData
    /\ subsets = InitSubsets
    /\ auth = InitAuth /\ auths = {InitAuth}
    /\ mask = InitRegistration.subsets /\ updateCb = InitRegistration.cb
    /\ watches = {Watch} /\ setter = <<>>
    /\ pc = "idle" /\ req = NoRequest /\ pos = 0
    /\ object = NoObject /\ updated = FALSE
    /\ status = "none" /\ log = <<>> /\ accepted = FALSE

-----------------------------------------------------------------------------
(* The application, beside the request *)

SetAuthentication ==
    /\ \E a \in Auths : auth' = a /\ auths' = auths \cup {a}
    /\ UNCHANGED <<data, subsets, mask, updateCb, setter, request, watches>>

(* thingset_set_update_callback stores the subsets, then the callback.     *)
SetUpdateSubsets ==
    /\ setter = <<>>
    /\ \E r \in Registrations : /\ r # Watch
                                /\ mask' = r.subsets
                                /\ watches' = watches \cup {[Watch EXCEPT !.subsets = r.subsets]}
                                /\ setter' = <<r.cb>>
    /\ UNCHANGED <<data, subsets, auth, updateCb, request, auths>>

SetUpdateCb ==
    /\ setter # <<>>
    /\ updateCb' = Head(setter)
    /\ setter' = <<>>
    /\ watches' = watches \cup {[Watch EXCEPT !.cb = updateCb']}
    /\ UNCHANGED <<data, subsets, auth, mask, request, auths>>

-----------------------------------------------------------------------------
(* Requests *)

Endpoint == req.endpoint
Item == req.items[pos + 1]
AtEnd == pos = Len(req.items)

(***************************************************************************)
(* thingset_txt_process and thingset_bin_process find the endpoint and     *)
(* choose the function; "not_found" stands for all errors before that.     *)
(***************************************************************************)
Receive ==
    /\ pc = "idle"
    /\ \E r \in PeerRequests :
          /\ req' = r
          /\ IF r.endpoint = NoObject
             THEN pc' = "done" /\ status' = "not_found"
             ELSE pc' = r.method /\ status' = "none"
    /\ base' = data /\ auths' = {auth} /\ watches' = {Watch}
    /\ UNCHANGED <<data, subsets, app, pos, object, updated, log, accepted>>

RespondKeepsPosition ==
    /\ pc = "done"
    /\ pc' = "idle" /\ req' = NoRequest
    /\ object' = NoObject /\ updated' = FALSE
    /\ status' = "none" /\ log' = <<>> /\ accepted' = FALSE
    /\ base' = data /\ auths' = {auth} /\ watches' = {Watch}
    /\ UNCHANGED <<data, subsets, app, pos>>

(* The response is on its way and the context free for the next request.   *)
Respond ==
    /\ pc = "done"
    /\ pc' = "idle" /\ req' = NoRequest /\ pos' = 0
    /\ object' = NoObject /\ updated' = FALSE
    /\ status' = "none" /\ log' = <<>> /\ accepted' = FALSE
    /\ base' = data /\ auths' = {auth} /\ watches' = {Watch}
    /\ UNCHANGED <<data, subsets, app>>

Step == UNCHANGED <<app, req, base, auths, watches>>
Finish(code) == pc' = "done" /\ status' = code
Goto(position) == pc' = position /\ status' = status
Record(events) == log' = log \o events

(***************************************************************************)
(* data.group_callback shares its memory with the data pointer of every    *)
(* other type and is only compared with NULL: what is called is whatever   *)
(* the object points at.                                                   *)
(***************************************************************************)
IsCalledBack(o) == o \in HasCallback \cup (Objects \ Groups)

CallBack(reason, on, arg) ==
    IF IsCalledBack(on) THEN <<Event(reason, on, arg)>> ELSE <<>>

(* A value does not fit into the response any more.                        *)
TooLarge == Finish("too_large")

(***************************************************************************)
(* thingset_common_get: a group with the callbacks around its children, a  *)
(* value with the callbacks of its parent around it, whatever the parent   *)
(* is.  The response may overflow anywhere.                                *)
(***************************************************************************)
GetGroup ==
    /\ Type[Endpoint] = "group"
    /\ LET reading == CallBack("PRE_READ", Endpoint, Endpoint)
                      \o <<Event("read", Endpoint, Endpoint)>>
       IN \/ Record(<<>>) /\ TooLarge
          \/ Record(reading) /\ TooLarge
          \/ /\ Record(reading \o CallBack("POST_READ", Endpoint, Endpoint))
             /\ Finish("content") \/ TooLarge

GetValue ==
    /\ Type[Endpoint] \notin {"group", "fn"}
    /\ LET parent == Parent[Endpoint]
       IN Record(CallBack("PRE_READ", parent, Endpoint)
                 \o <<Event("read", parent, Endpoint)>>
                 \o CallBack("POST_READ", parent, Endpoint))
    /\ Finish("content") \/ TooLarge

Get ==
    /\ pc = "get"
    /\ \/ GetGroup
       \/ GetValue
       \/ Type[Endpoint] = "fn" /\ Finish("bad_request") /\ UNCHANGED log
    /\ Step /\ UNCHANGED <<data, subsets, pos, object, updated, accepted>>

(***************************************************************************)
(* deserialize_child: a name or ID nobody has leaves NULL, a malformed key *)
(* the pointer as it was, and the ID of another group's item that item.    *)
(***************************************************************************)
Found == ~AtEnd /\ Item.object \in Children(Endpoint) /\ object' = Item.object

NotFound(code) ==
    /\ ~AtEnd
    /\ Item.object \notin Children(Endpoint)
    /\ \/ object' = NoObject /\ code = "not_found"
       \/ object' \in {object, Item.object} /\ code = "bad_request"

Denied(o, roles, code) ==
    /\ roles[o] \cap auth = {}
    /\ code = IF roles[o] # {} THEN "unauthorized" ELSE "forbidden"

AllowedToSome(o, roles) == roles[o] # {}

Allowed(o, roles) == roles[o] \cap auth # {}

(* FETCH of null: the names of the readable children                       *)
Names ==
    /\ pc = "names"
    /\ Finish("content") \/ TooLarge
    /\ Step /\ UNCHANGED <<data, subsets, pos, object, updated, log, accepted>>

(* thingset_common_fetch                                                   *)
Fetch ==
    /\ pc = "fetch"
    /\ IF req.opens /\ Type[Endpoint] = "group" THEN Goto("items") ELSE Finish("bad_request")
    /\ Step /\ UNCHANGED <<data, subsets, pos, object, updated, log, accepted>>

ReadThenAnnounce(o) ==
    <<Event("read", Endpoint, o)>> \o CallBack("PRE_READ", Endpoint, o)

ReadItem(o) == CallBack("PRE_READ", Endpoint, o) \o <<Event("read", Endpoint, o)>>

FetchItem ==
    /\ pc = "items"
    /\ \/ /\ \E code \in Statuses : NotFound(code) /\ Finish(code)
          /\ Record(CallBack("PRE_READ", Endpoint, object'))
          /\ UNCHANGED pos
       \/ /\ Found
          /\ Type[Item.object] = "group" /\ Finish("bad_request")
          /\ Record(CallBack("PRE_READ", Endpoint, object'))
          /\ UNCHANGED pos
       \/ /\ Found /\ Type[Item.object] # "group"
          /\ \E code \in Statuses : Denied(Item.object, ReadRoles, code) /\ Finish(code)
          /\ Record(CallBack("PRE_READ", Endpoint, object'))
          /\ UNCHANGED pos
       \/ /\ Found /\ Type[Item.object] # "group"
          /\ Allowed(Item.object, ReadRoles)
          /\ Record(ReadItem(Item.object))
          /\ \/ pos' = pos + 1 /\ Goto("items")
             \/ TooLarge /\ UNCHANGED pos
       \/ /\ AtEnd
          /\ Record(CallBack("POST_READ", Endpoint, object))
          /\ Finish("content")
          /\ UNCHANGED <<pos, object>>
    /\ Step /\ UNCHANGED <<data, subsets, updated, accepted>>

-----------------------------------------------------------------------------
(***************************************************************************)
(* thingset_common_update.  The first pass decodes into a dummy, but an    *)
(* array carries the pointer to its elements with it and is written.       *)
(***************************************************************************)
Update ==
    /\ pc = "update"
    /\ IF req.opens THEN Goto("check") ELSE Finish("bad_request")
    /\ Step /\ UNCHANGED <<data, subsets, pos, object, updated, log, accepted>>

Decodable(o) == Type[o] \in {"value", "array"}

DecodeErrors == {"unsupported", "too_large"}

Write(o, v) ==
    /\ data' = [data EXCEPT ![o] = v]
    /\ Record(<<Event("write", Endpoint, o)>>)

CheckWrites(o, v) == Write(o, v)

CheckInto(o, v) == IF Type[o] = "array" THEN Write(o, v) ELSE UNCHANGED <<data, log>>

NoRewind == UNCHANGED pos

Rewind == pos' = 0

UpdateCheck ==
    /\ pc = "check"
    /\ \/ /\ \E code \in Statuses : NotFound(code) /\ Finish(code)
          /\ UNCHANGED <<data, pos, log, accepted>>
       \/ /\ Found
          /\ \E code \in Statuses : Denied(Item.object, WriteRoles, code) /\ Finish(code)
          /\ UNCHANGED <<data, pos, log, accepted>>
       \/ /\ Found /\ Allowed(Item.object, WriteRoles)
          /\ Item.form = "bad" \/ ~Decodable(Item.object)
          /\ \E code \in DecodeErrors : Finish(code)
          /\ \E v \in Values : CheckInto(Item.object, v)
          /\ UNCHANGED <<pos, accepted>>
       \/ /\ Found /\ Allowed(Item.object, WriteRoles)
          /\ Item.form # "bad" /\ Decodable(Item.object)
          /\ pos' = pos + 1 /\ Goto("check")
          /\ CheckInto(Item.object, Item.val)
          /\ UNCHANGED accepted
       \/ /\ AtEnd
          /\ accepted' = TRUE
          /\ Rewind /\ Goto("pre_write")
          /\ UNCHANGED <<data, object, log>>
    /\ Step /\ UNCHANGED <<subsets, updated>>

(* A late error has touched its object already.                            *)
FailInto(o) ==
    /\ \E code \in DecodeErrors : Finish(code)
    /\ IF Item.form = "late" THEN \E v \in Values : Write(o, v) ELSE UNCHANGED <<data, log>>

LastIsUpdated(o) == mask \cap subsets[o] # {}

IsUpdated(o) == updated \/ mask \cap subsets[o] # {}

Veto(on) == Vetoes /\ IsCalledBack(on)

PreWriteSwapped ==
    /\ pc = "pre_write"
    /\ Record(CallBack("POST_WRITE", Endpoint, object))
    /\ Goto("write")
    /\ Step /\ UNCHANGED <<data, subsets, pos, object, updated, accepted>>

PreWrite ==
    /\ pc = "pre_write"
    /\ Record(CallBack("PRE_WRITE", Endpoint, object))
    /\ Goto("write") \/ (Veto(Endpoint) /\ Finish("vetoed"))
    /\ Step /\ UNCHANGED <<data, subsets, pos, object, updated, accepted>>

UpdateWrite ==
    /\ pc = "write"
    /\ \/ /\ ~AtEnd /\ Item.form = "good"
          /\ object' = Item.object
          /\ Write(Item.object, Item.val)
          /\ updated' = IsUpdated(Item.object)
          /\ pos' = pos + 1 /\ Goto("write")
       \/ /\ ~AtEnd /\ Item.form # "good"
          /\ object' = Item.object
          /\ FailInto(Item.object)
          /\ UNCHANGED <<updated, pos>>
       \/ /\ AtEnd
          /\ Goto("post_write")
          /\ UNCHANGED <<data, object, log, updated, pos>>
    /\ Step /\ UNCHANGED <<subsets, accepted>>

PostWrite ==
    /\ pc = "post_write"
    /\ Record(CallBack("POST_WRITE", Endpoint, object))
    /\ Goto("notify") \/ (Veto(Endpoint) /\ Finish("vetoed"))
    /\ Step /\ UNCHANGED <<data, subsets, pos, object, updated, accepted>>

NotifyAlways ==
    /\ pc = "notify"
    /\ IF updateCb # NoCb THEN Goto("notify_call") ELSE Finish("changed")
    /\ Step /\ UNCHANGED <<data, subsets, pos, object, updated, log, accepted>>

(* ts->update_cb is compared with NULL and then called.                    *)
UpdateNotify ==
    /\ pc = "notify"
    /\ IF updated /\ updateCb # NoCb THEN Goto("notify_call") ELSE Finish("changed")
    /\ Step /\ UNCHANGED <<data, subsets, pos, object, updated, log, accepted>>

UpdateNotifyCall ==
    /\ pc = "notify_call"
    /\ Record(<<Event("update_cb", updateCb, NoObject)>>)
    /\ Finish("changed")
    /\ Step /\ UNCHANGED <<data, subsets, pos, object, updated, accepted>>

-----------------------------------------------------------------------------
(***************************************************************************)
(* thingset_common_exec: the parameters are decoded one by one into the    *)
(* children of the function, without their own access rights.              *)
(***************************************************************************)
Exec ==
    /\ pc = "exec"
    /\ IF ~req.opens /\ req.items # <<>> THEN Finish("bad_request")
       ELSE IF Endpoint \notin Callable \/ WriteRoles[Endpoint] = {} THEN Finish("forbidden")
       ELSE IF ~Allowed(Endpoint, WriteRoles) THEN Finish("unauthorized")
       ELSE Goto("params")
    /\ Step /\ UNCHANGED <<data, subsets, pos, object, updated, log, accepted>>

MissingAmongThose == pos < Len(Parameters[Endpoint]) /\ ~AtEnd

Missing == pos < Len(Parameters[Endpoint])
Parameter == Parameters[Endpoint][pos + 1]

ExecParameter ==
    /\ pc = "params"
    /\ \/ /\ Missing /\ AtEnd /\ Finish("bad_request")
          /\ UNCHANGED <<data, log, pos>>
       \/ /\ Missing /\ ~AtEnd /\ Item.form = "good"
          /\ Write(Parameter, Item.val)
          /\ pos' = pos + 1 /\ Goto("params")
       \/ /\ Missing /\ ~AtEnd /\ Item.form # "good"
          /\ FailInto(Parameter)
          /\ UNCHANGED pos
       \/ /\ ~Missing
          /\ IF AtEnd THEN Goto("call") ELSE Finish("bad_request")
          /\ UNCHANGED <<data, log, pos>>
    /\ Step /\ UNCHANGED <<subsets, object, updated, accepted>>

(* The value it returns may not fit into the response.                     *)
ExecCall ==
    /\ pc = "call"
    /\ Record(<<Event("call", Endpoint, Endpoint)>>)
    /\ Finish("changed") \/ TooLarge
    /\ Step /\ UNCHANGED <<data, subsets, pos, object, updated, accepted>>

-----------------------------------------------------------------------------
(***************************************************************************)
(* thingset_common_create_delete: the one item of the payload is the path  *)
(* of the object to put into the subset or to take out of it.              *)
(***************************************************************************)
Member == req.items[1]

CreateDelete ==
    /\ pc \in {"create", "delete"}
    /\ \/ /\ Endpoint = Root /\ Finish("bad_request")
          /\ UNCHANGED subsets
       \/ /\ Endpoint # Root /\ Type[Endpoint] # "subset"
          /\ Finish(IF Type[Endpoint] = "array" THEN "not_implemented" ELSE "method_not_allowed")
          /\ UNCHANGED subsets
       \/ /\ Type[Endpoint] = "subset"
          /\ IF req.items = <<>> \/ Member.form = "bad"
             THEN Finish("unsupported") /\ UNCHANGED subsets
             ELSE IF Member.object = NoObject
             THEN Finish("not_found") /\ UNCHANGED subsets
             ELSE /\ subsets' = [subsets EXCEPT ![Member.object] =
                                    IF pc = "create" THEN @ \cup SubsetOf[Endpoint]
                                                     ELSE @ \ SubsetOf[Endpoint]]
                  /\ Finish(IF pc = "create" THEN "created" ELSE "deleted")
    /\ Step /\ UNCHANGED <<data, pos, object, updated, log, accepted>>

-----------------------------------------------------------------------------
Setters == SetAuthentication \/ SetUpdateSubsets \/ SetUpdateCb

Process == \/ Get \/ Names \/ Fetch \/ FetchItem
           \/ Update \/ UpdateCheck \/ PreWrite \/ UpdateWrite \/ PostWrite
           \/ UpdateNotify \/ UpdateNotifyCall
           \/ Exec \/ ExecParameter \/ ExecCall \/ CreateDelete

Next == Setters \/ Receive \/ Process \/ Respond

Spec == Init /\ [][Next]_vars

-----------------------------------------------------------------------------
(* Properties *)

Writing == req.method = "update" /\ req.endpoint # NoObject
Applied == [o \in Objects |->
              LET last == {i \in 1 .. Len(req.items) : /\ req.items[i].object = o
                                                       /\ \A j \in i + 1 .. Len(req.items) :
                                                             req.items[j].object # o}
              IN IF last = {} THEN base[o] ELSE req.items[CHOOSE i \in last : TRUE].val]

(***************************************************************************)
(* The first pass of UPDATE only checks: until the whole payload has been  *)
(* accepted nothing has changed, "it is only checked if their size would   *)
(* fit" (src/thingset_internal.h:228).                                     *)
(***************************************************************************)
CheckPassWritesNothing == Writing /\ ~accepted => data = base

(***************************************************************************)
(* Nothing but the elements of arrays named in the payload (common.c:333). *)
(***************************************************************************)
CheckPassWritesOnlyArrays ==
    Writing /\ ~accepted =>
        \A o \in Objects : data[o] # base[o] =>
            Type[o] = "array" /\ \E i \in 1 .. Len(req.items) : req.items[i].object = o

(* The payload names no array and holds no value that only decoding finds  *)
(* to be wrong.                                                            *)
Checkable ==
    \A i \in 1 .. Len(req.items) :
        req.items[i].form # "late" /\ req.items[i].object \notin Arrays

(***************************************************************************)
(* "changed" means that every item of the payload has its value, the last  *)
(* one where an object is named twice.  A payload the check pass can judge *)
(* is all or nothing, whatever the response (common.c:310-386).            *)
(***************************************************************************)
AllOrNothing ==
    Writing /\ pc = "done" => /\ status = "changed" => data = Applied
                              /\ Checkable => data \in {base, Applied}

(***************************************************************************)
(* PRE_WRITE comes before every write of a request but those of the check  *)
(* pass to arrays, POST_WRITE after all of them, and the update callback,  *)
(* which may store the data, only after POST_WRITE (common.c:350-384).     *)
(***************************************************************************)
CallbackOrder ==
    /\ \A i \in Did("PRE_WRITE"), j \in Did("write") : log[j].arg \notin Arrays => i < j
    /\ \A i \in Did("write"), j \in Did("POST_WRITE") : i < j
    /\ \A i \in Did("update_cb") : IsCalledBack(Endpoint) =>
          \E j \in Did("POST_WRITE") : j < i

(***************************************************************************)
(* Every item FETCH read had PRE_READ called for it right before, and a    *)
(* complete response had POST_READ called after the last (common.c:243).   *)
(***************************************************************************)
FetchIsBracketed ==
    req.method = "fetch" /\ IsCalledBack(Endpoint) =>
        /\ \A i \in Did("read") : i > 1 /\ log[i - 1] = Event("PRE_READ", Endpoint, log[i].arg)
        /\ status = "content" => /\ Cardinality(Did("POST_READ")) = 1
                                 /\ \A i \in Did("POST_READ") : i = Len(log)

(***************************************************************************)
(* However the authentication changes while a request runs, it reads,      *)
(* writes and calls only what some authentication in force since it began  *)
(* allows (common.c:256, 317, 406).  GET checks no authentication.         *)
(***************************************************************************)
AccessAllowed ==
    \A i \in 1 .. Len(log) :
        /\ req.method = "fetch" /\ log[i].what = "read" =>
              ReadRoles[log[i].arg] \cap UNION auths # {}
        /\ req.method = "update" /\ log[i].what = "write" =>
              WriteRoles[log[i].arg] \cap UNION auths # {}
        /\ req.method = "exec" => WriteRoles[Endpoint] \cap UNION auths # {}

(***************************************************************************)
(* A function is called with exactly the parameters of the request in its  *)
(* children, and never after an error (common.c:416-450).                  *)
(***************************************************************************)
FunctionSeesItsParameters ==
    Did("call") # {} =>
        /\ Len(req.items) = Len(Parameters[Endpoint])
        /\ \A i \in 1 .. Len(req.items) :
              /\ req.items[i].form = "good"
              /\ data[Parameters[Endpoint][i]] = req.items[i].val

Written == {log[i].arg : i \in Did("write")}
Watched(m) == {o \in Objects : subsets[o] \cap m # {}}

(***************************************************************************)
(* While nobody calls the setters, a successful UPDATE runs the update     *)
(* callback if and only if it wrote an item of the watched subsets, as     *)
(* CREATE and DELETE have left them (common.c:366-384).                    *)
(***************************************************************************)
ChangedMeansNotified ==
    Writing /\ status = "changed" /\ watches = {Watch} =>
        (Did("update_cb") # {} <=> Written \cap Watched(mask) # {} /\ updateCb # NoCb)

(***************************************************************************)
(* With the setters running beside it, UPDATE still runs the update        *)
(* callback only for an item of subsets watched at some time since it      *)
(* began (common.c:366).                                                   *)
(***************************************************************************)
NotifiedForAReason ==
    Did("update_cb") # {} => \E w \in watches : Written \cap Watched(w.subsets) # {}
=============================================================================
