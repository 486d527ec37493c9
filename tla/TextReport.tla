----------------------------- MODULE TextReport -----------------------------
(***************************************************************************)
(* txt_serialize_subsets of src/thingset_txt.c: the objects of a subset as *)
(* one JSON map, in which an object stands in the map of its parent and    *)
(* that in the map of its grandparent.  The objects come in the order of   *)
(* the array; maps are opened and closed as the parents change.  The       *)
(* lookup of parents is that of ObjectDb.                                  *)
(*                                                                         *)
(* The response is a sequence of symbols: "open", a brace with the name    *)
(* before it, "close", "item" with an object, and "comma".  How many bytes *)
(* a symbol takes is open where it is not one, and whether there is room   *)
(* is decided as the code does, in the arithmetic of size_t.               *)
(*                                                                         *)
(* Two values of pc stand for undefined behaviour, of which nothing more   *)
(* is said: "overflow", a write behind the end of the array ancestors, and *)
(* "outside", one before or behind the buffer of the response.             *)
(***************************************************************************)
EXTENDS ObjectDb

CONSTANTS
    SizeModulus,    \* one more than the greatest size_t
    RspSizes,       \* sizes of buffers for a report
    HeaderLengths,  \* bytes of "#path ", 0 where there is no header
    Lengths,        \* bytes of a name and its brace, of a name and its value
    ErrorCodes      \* THINGSET_ERR_RESPONSE_TOO_LARGE, _UNSUPPORTED_FORMAT

(* There is more memory than a buffer, by more than an error code.         *)
ASSUME RoomAssumption ==
    /\ SizeModulus \in Nat \ {0}
    /\ RspSizes \subseteq 1 .. SizeModulus - 1 /\ HeaderLengths \subseteq 0 .. SizeModulus - 1
    /\ Lengths \subseteq Nat \ {0} /\ ErrorCodes \subseteq Nat \ {0}
    /\ \A s \in RspSizes, e \in ErrorCodes : s + e < SizeModulus

VARIABLES
    pc,         \* "idle", "loop", "done", "error", "overflow", "outside"
    next,       \* the loop variable i
    ancestors,  \* the maps that are open; depth is its length
    out,        \* ts->rsp[0 .. ts->rsp_pos - 1], without the header
    size,       \* ts->rsp_size
    pos         \* ts->rsp_pos

reportVars == <<pc, next, ancestors, out, size, pos>>
vars == <<dbVars, reportVars>>

AncestorsSize == 2

Open(name) == [k |-> "open", s |-> name, o |-> None]
Close == [k |-> "close", s |-> NoName, o |-> None]
Comma == [k |-> "comma", s |-> NoName, o |-> None]
Value(o) == [k |-> "item", s |-> NoName, o |-> o]

Init ==
    /\ DbInit
    /\ pc = "idle" /\ next = 1 /\ ancestors = <<>> /\ out = <<>>
    /\ size = 0 /\ pos = 0

(* A report begins, behind a header if it has one; the lock is held until  *)
(* it ends.                                                                *)
Start(s, h) ==
    /\ pc = "idle" /\ Ready /\ cursor = 1
    /\ h < s
    /\ pc' = "loop" /\ out' = <<Open(NoName)>> /\ size' = s /\ pos' = h + 1
    /\ UNCHANGED <<dbVars, next, ancestors>>

(* The header does not fit; if it fills the buffer the code goes on, with  *)
(* a brace behind the end.                                                 *)
HeaderTooLong(s, h) ==
    /\ pc = "idle" /\ Ready /\ cursor = 1
    /\ h >= s
    /\ pc' = IF h > s THEN "error" ELSE "outside"
    /\ size' = s /\ pos' = h
    /\ UNCHANGED <<dbVars, next, ancestors, out>>

(* The check at the end of each round keeps room for what closes the maps. *)
NoRoomForMaps(depth) == (size - 1) % SizeModulus  \* mutant: forgets the maps
Limit(depth) == (size - 1 - depth) % SizeModulus

(* After an error txt_serialize_finish still writes its '\0' before pos.   *)
Failed(p) == IF (p - 1) % SizeModulus < size THEN "error" ELSE "outside"

EndRound(p, depth) ==
    /\ pc' = IF p < Limit(depth) THEN "loop" ELSE Failed(p)
    /\ pos' = p /\ next' = next + 1

Skip ==
    /\ pc = "loop" /\ next <= Len(objects) /\ next \notin members
    /\ EndRound(pos, Len(ancestors))
    /\ UNCHANGED <<dbVars, ancestors, out, size>>

ParentOf(o) == IF objects[o].parent = 0 THEN None ELSE ObjectById(objects[o].parent)

(* The maps after one is closed because the object o is not in it.  With a *)
(* parent that is not found nothing is closed.                             *)
Remaining(o) ==
    LET parent == ParentOf(o)
    IN  IF /\ ancestors # <<>> /\ parent # Last(ancestors)
           /\ \/ objects[o].parent = 0
              \/ parent # None /\ ParentOf(parent) # Last(ancestors)
        THEN Front(ancestors) ELSE ancestors

(* The maps that are opened for it. *)
OpensParentOnly(o) ==  \* mutant
    LET parent == ParentOf(o)
    IN  IF parent = None \/ (Remaining(o) # <<>> /\ Last(Remaining(o)) = parent) THEN <<>>
        ELSE <<parent>>
Opened(o) ==
    LET parent == ParentOf(o)
        left == Remaining(o)
    IN  IF parent = None \/ (left # <<>> /\ Last(left) = parent) THEN <<>>
        ELSE IF left = <<>> /\ ParentOf(parent) # None THEN <<ParentOf(parent), parent>>
        ELSE <<parent>>

MapsOf(o) == Remaining(o) \o Opened(o)

(* The comma before is overwritten. *)
CloseMap == Front(out) \o <<Close, Comma>>

(* Bytes the names of the opened maps take, and where the object begins.   *)
NameLengths(o) == IF Opened(o) = <<>> THEN {0} ELSE {w \in Lengths : w >= Len(Opened(o))}
Begin(o, w) == pos + (IF Remaining(o) = ancestors THEN 0 ELSE 1) + w

AtMember(w) ==
    /\ pc = "loop" /\ next <= Len(objects) /\ next \in members
    /\ Len(MapsOf(next)) <= AncestorsSize
    /\ w \in NameLengths(next)

(* The map opened last would be ancestors[2]. *)
Overflow ==
    /\ pc = "loop" /\ next <= Len(objects) /\ next \in members
    /\ Len(MapsOf(next)) > AncestorsSize
    /\ pc' = "overflow"
    /\ UNCHANGED <<dbVars, next, ancestors, out, size, pos>>

(* A name that does not fit is cut off, pos counts all of it, and what is  *)
(* left of the buffer, a size_t, is taken for large.                       *)
NameTooLong(w) ==
    /\ AtMember(w)
    /\ Begin(next, w) > size
    /\ pc' = "outside"
    /\ UNCHANGED <<dbVars, next, ancestors, out, size, pos>>

Serialize(w, n) ==
    /\ AtMember(w)
    /\ Begin(next, w) + n < size
    /\ ancestors' = MapsOf(next)
    /\ out' = (IF Remaining(next) = ancestors THEN out ELSE CloseMap)
              \o [j \in DOMAIN Opened(next) |-> Open(objects[Opened(next)[j]].name)]
              \o <<Value(next), Comma>>
    /\ EndRound(Begin(next, w) + n, Len(MapsOf(next)))
    /\ UNCHANGED <<dbVars, size>>

(* txt_serialize_name_value resets the position and returns an error,      *)
(* which is added to the position: what does not fit is too large, an      *)
(* object may also have a type that has no format.  An array or a list is  *)
(* taken to be refused as a whole; the code writes it piece by piece and   *)
(* adds an error of its element to the position in it (txt.c:320).         *)
TooLargeError == 225
ErrorDropped(e) == 0  \* mutant of Refused
Refused(e) == (0 - e) % SizeModulus

Refuse(w, n, e) ==
    /\ AtMember(w)
    /\ Begin(next, w) <= size /\ (e = TooLargeError => Begin(next, w) + n >= size)
    /\ ancestors' = MapsOf(next)
    /\ EndRound(Refused(e), Len(MapsOf(next)))
    /\ UNCHANGED <<dbVars, out, size>>

CloseOne ==  \* mutant of CloseAll: forgets the maps of the ancestors
    /\ pc = "loop" /\ next > Len(objects)
    /\ out' = Front(out) \o <<Close>>
    /\ pos' = pos + Len(ancestors)
    /\ pc' = "done"
    /\ UNCHANGED <<dbVars, next, ancestors, size>>

(* What comes last, a comma if there was an object, is overwritten; so is  *)
(* the comma behind the report, by txt_serialize_finish.                   *)
CloseAll ==
    /\ pc = "loop" /\ next > Len(objects)
    /\ out' = Front(out) \o [j \in 1 .. Len(ancestors) + 1 |-> Close]
    /\ pos' = pos + Len(ancestors)
    /\ pc' = "done"
    /\ UNCHANGED <<dbVars, next, ancestors, size>>

Database == pc = "idle" /\ DbNext /\ UNCHANGED reportVars

Next ==
    \/ Database \/ Skip \/ Overflow \/ CloseAll
    \/ \E s \in RspSizes, h \in HeaderLengths : Start(s, h) \/ HeaderTooLong(s, h)
    \/ \E w \in Lengths \cup {0} :
          \/ NameTooLong(w)
          \/ \E n \in Lengths : Serialize(w, n) \/ \E e \in ErrorCodes : Refuse(w, n, e)

Spec == Init /\ [][Next]_vars

----------------------------------------------------------------------------
(***************************************************************************)
(* Properties.                                                             *)
(***************************************************************************)
Symbols ==
    [k : {"open", "close", "item", "comma"}, s : {NoName} \cup STRING,
     o : {None} \cup DOMAIN objects]

TypeOK ==
    /\ DbTypeOK
    /\ pc \in {"idle", "loop", "done", "error", "overflow", "outside"}
    /\ next \in 1 .. Len(objects) + 1
    /\ ancestors \in Seq(DOMAIN objects) /\ Len(ancestors) <= AncestorsSize
    /\ size \in {0} \cup RspSizes /\ pos \in 0 .. SizeModulus - 1
    /\ out \in Seq(Symbols)

(* Symbol j closes more maps than are open. *)
OpenedBefore(j) == Cardinality({i \in 1 .. j : out[i].k = "open"})
ClosedBefore(j) == Cardinality({i \in 1 .. j : out[i].k = "close"})
Level(j) == OpenedBefore(j) - ClosedBefore(j)

(* The names of the maps symbol j stands in, from the outermost. *)
Within(j) ==
    LET enclosing == {i \in 1 .. j : /\ out[i].k = "open"
                                     /\ \A h \in i .. j : Level(h) >= Level(i)}
    IN  [h \in 2 .. Cardinality(enclosing) |-> out[CHOOSE i \in enclosing : Level(i) = h].s]

(* The groups of an object, and those of x that are not of y. *)
Groups(o) == LET path == PathOf(o) IN {SubSeq(path, 1, j) : j \in 1 .. Len(path) - 1}
Leaves(x, y) == Cardinality(Groups(x) \ Groups(y))

(* The depth the comment at src/thingset_txt.c:695 names. *)
TwoDeep == \A o \in members : Len(PathOf(o)) <= 3

(* No two objects of the subset follow each other between which two maps   *)
(* would have to be closed.                                                *)
OneLevelAtATime ==
    \A x, y \in members :
        x < y /\ (\A z \in x + 1 .. y - 1 : z \notin members) => Leaves(x, y) <= 1

(***************************************************************************)
(* The report is JSON: no map is closed that is not open, after every map  *)
(* there is a comma, nothing else is overwritten, and at the end all are   *)
(* closed.  An empty subset is excepted, and so is what follows a write    *)
(* outside of the arrays.                                                  *)
(***************************************************************************)
Separated ==
    \A j \in 2 .. Len(out) :
        out[j].k \in {"open", "item"} => out[j - 1].k \in {"open", "comma"}
WellFormed ==
    members # {} /\ pc \in {"loop", "done"} =>
        /\ \A j \in DOMAIN out : Level(j) >= 0
        /\ Separated
        /\ pc = "done" => Level(Len(out)) = 0

(***************************************************************************)
(* Every object of a database nested as deep as that stands where its path *)
(* says: "close object if previous object had different parent or          *)
(* grandparent" (src/thingset_txt.c:717).                                  *)
(***************************************************************************)
UnderTheirPaths ==
    pc # "idle" /\ TwoDeep =>
        \A j \in DOMAIN out : out[j].k = "item" =>
            LET path == PathOf(out[j].o)
            IN  Within(j) = [h \in 2 .. Len(path) |-> path[h - 1].s]

(***************************************************************************)
(* The array of two ancestors is enough for such a database.               *)
(***************************************************************************)
NestingSuffices == pc = "overflow" => ~TwoDeep

(***************************************************************************)
(* A report that has come to an end, in success or behind its array, was   *)
(* right in both respects: "currently only supporting nesting of depth 2   *)
(* (parent and grandparent != 0)" (src/thingset_txt.c:695).                *)
(***************************************************************************)
TwoLevelsSupported == pc \in {"done", "overflow"} => UnderTheirPaths /\ NestingSuffices

(***************************************************************************)
(* It is, at every moment, as long as one map at most has to be closed     *)
(* between two objects.                                                    *)
(***************************************************************************)
ItemsUnderTheirPaths ==
    pc # "idle" /\ TwoDeep /\ OneLevelAtATime => UnderTheirPaths /\ NestingSuffices

(***************************************************************************)
(* Every object of the subset and no other is reported once, in the order  *)
(* of the array, in a report that succeeds: an error, although added to    *)
(* the position, is noticed by the check for room.                         *)
(***************************************************************************)
Items == {j \in DOMAIN out : out[j].k = "item"}
EveryMemberOnce ==
    pc = "done" /\ members # {} =>
        /\ {out[j].o : j \in Items} = members
        /\ \A i, j \in Items : i < j => out[i].o < out[j].o

(***************************************************************************)
(* A report that succeeds ends, with all the braces that close it and the  *)
(* '\0' that is written at pos, inside of its buffer.  Without any object  *)
(* in the database no check is made.                                       *)
(***************************************************************************)
EndsInside == pc = "done" /\ objects # <<>> => pos < size
=============================================================================
