------------------------------ MODULE ObjectDb ------------------------------
(***************************************************************************)
(* The object database of src/thingset.c: an array of data objects, each   *)
(* with the ID of its parent and a name, the buckets thingset_init_common  *)
(* sorts them into by ID, and the functions that find objects by ID, by    *)
(* path and by subset.  thingset_iterate_subsets takes no lock, so that    *)
(* CREATE and DELETE may change a subset between two calls of it.          *)
(*                                                                         *)
(* An object is known by its place in the array, from 1 on.  A path is the *)
(* sequence of its segments, the strings between the slashes; the path     *)
(* with no characters is the empty sequence.                               *)
(***************************************************************************)
EXTENDS Integers, Sequences, FiniteSets, FiniteSetsExt, SequencesExt

CONSTANTS
    Databases,   \* arrays of data objects
    Buckets,     \* CONFIG_THINGSET_OBJECT_LOOKUP_BUCKETS
    MaxDepth,    \* rounds of the loop in thingset_get_object_by_path, 10
    Paths,       \* paths a peer may name
    PathsId,     \* THINGSET_ID_PATHS
    MetadataId,  \* THINGSET_ID_METADATA
    MaxChanges   \* bound: changes of the subset during an iteration

ObjectTypes == {"group", "records", "item"}
ObjectSet == [id : Nat \ {0}, parent : Nat, name : STRING, type : ObjectTypes,
              subset : BOOLEAN]

(* A segment: its text s, how it begins, and the number it is, or          *)
(* NotANumber.                                                             *)
Segments == [s : STRING, first : {"digit", "dash", "other"}, number : Int]

ASSUME ConstantsAssumption ==
    /\ Databases \subseteq Seq(ObjectSet) /\ Paths \subseteq Seq(Segments)
    /\ Buckets \in Nat \ {0} /\ MaxDepth \in Nat \ {0} /\ MaxChanges \in Nat
    /\ PathsId \in Nat \ {0} /\ MetadataId \in Nat \ {0}

VARIABLES
    objects,   \* ts->data_objects
    appended,  \* the loop variable of thingset_init_common
    lookup,    \* ts->data_objects_lookup
    members,   \* the objects with a bit of the subset asked for
    cursor,    \* where the next thingset_iterate_subsets begins
    visited,   \* what the calls up to now have returned
    changes,   \* how often members has changed
    constant   \* the members that have been that since the first call

tables == <<objects, appended, lookup>>
iteration == <<cursor, visited, constant>>
dbVars == <<tables, iteration, members, changes>>

----------------------------------------------------------------------------
DbInit ==
    /\ objects \in Databases
    /\ appended = 0
    /\ lookup = [b \in 0 .. Buckets - 1 |-> <<>>]
    /\ members = {i \in DOMAIN objects : objects[i].subset}
    /\ cursor = 1 /\ visited = <<>> /\ changes = 0
    /\ constant = members

Ready == appended = Len(objects)

AppendByParent ==  \* mutant of AppendObject: the bucket of another ID
    /\ ~Ready
    /\ appended' = appended + 1
    /\ lookup' = [lookup EXCEPT ![objects[appended + 1].parent % Buckets] =
                     Append(@, appended + 1)]
    /\ UNCHANGED <<objects, members, iteration, changes>>

(* sys_slist_append in thingset_init_common *)
AppendObject ==
    /\ ~Ready
    /\ appended' = appended + 1
    /\ lookup' = [lookup EXCEPT ![objects[appended + 1].id % Buckets] =
                     Append(@, appended + 1)]
    /\ UNCHANGED <<objects, members, iteration, changes>>

----------------------------------------------------------------------------
(***************************************************************************)
(* Objects by ID and by path.                                              *)
(***************************************************************************)
NoName == ""   \* what follows a slash at the end of a path

None == 0
RootObject == -1
PathsObject == -2
MetadataObject == -3

First(S) == IF S = {} THEN None ELSE Min(S)

ObjectById(id) ==
    LET bucket == lookup[id % Buckets]
        first == First({j \in DOMAIN bucket : objects[bucket[j]].id = id})
    IN  IF first = None THEN None ELSE bucket[first]

ChildAnywhere(parent, name) ==  \* mutant: the parent is not compared
    LET first == First({i \in DOMAIN objects : objects[i].name = name})
    IN  IF first = None /\ name = "_Metadata" THEN MetadataObject ELSE first

(* The object _Metadata is found in every group. *)
ChildByName(parent, name) ==
    LET first == First({i \in DOMAIN objects : /\ objects[i].parent = parent
                                               /\ objects[i].name = name})
    IN  IF first = None /\ name = "_Metadata" THEN MetadataObject ELSE first

NotANumber == -3
IndexNone == -1   \* THINGSET_ENDPOINT_INDEX_NONE
IndexNew == -2    \* THINGSET_ENDPOINT_INDEX_NEW

IdOf(o) == IF o = None THEN 0 ELSE IF o = MetadataObject THEN MetadataId ELSE objects[o].id
IsRecords(o) == o \in DOMAIN objects /\ objects[o].type = "records"

Endpoint(o, index) == [object |-> o, index |-> index]

IndexAnywhere(o, segment) ==  \* mutant: an index below any object
    IF o # None /\ segment.first = "digit"
    THEN IF segment.number = NotANumber THEN Endpoint(None, 0) ELSE Endpoint(o, segment.number)
    ELSE IF segment.first = "dash" THEN Endpoint(o, IndexNew)
    ELSE Endpoint(ChildByName(IdOf(o), segment.s), IndexNone)

(* The last segment, below the object o. *)
LastSegment(o, segment) ==
    IF IsRecords(o) /\ segment.first = "digit"
    THEN IF segment.number = NotANumber THEN Endpoint(None, 0) ELSE Endpoint(o, segment.number)
    ELSE IF segment.first = "dash" THEN Endpoint(o, IndexNew)
    ELSE Endpoint(ChildByName(IdOf(o), segment.s), IndexNone)

(* thingset_get_object_by_path: segment k of the path is looked up below   *)
(* the object o.  After MaxDepth rounds the object reached is returned.    *)
ObjectByPath(path) ==
    LET walk[k \in 1 .. Len(path)] == [o \in Int |->
            LET child == ChildByName(IdOf(o), path[k].s)
            IN  IF k > MaxDepth THEN Endpoint(o, IndexNone)
                ELSE IF k = Len(path) THEN LastSegment(o, path[k])
                ELSE IF k = Len(path) - 1 /\ path[Len(path)].s = NoName THEN Endpoint(child, IndexNone)
                ELSE IF child = None THEN Endpoint(None, IndexNone)
                ELSE walk[k + 1][child]]
    IN  walk[1][None]

(* A path that begins with a slash is for another node. *)
EndpointByPath(path) ==
    IF path = <<>> THEN Endpoint(RootObject, IndexNone)
    ELSE IF Len(path) > 1 /\ path[1].s = NoName THEN Endpoint(None, IndexNone)
    ELSE ObjectByPath(path)

(* Mutant: what is part of a record is found, too. *)
AnyEndpointById(id) ==
    CASE id = 0 -> RootObject
      [] id = PathsId -> PathsObject
      [] id = MetadataId -> MetadataObject
      [] OTHER -> ObjectById(id)

EndpointById(id) ==
    CASE id = 0 -> RootObject
      [] id = PathsId -> PathsObject
      [] id = MetadataId -> MetadataObject
      [] OTHER -> LET o == ObjectById(id)
                  IN  IF o # None /\ IsRecords(ObjectById(objects[o].parent)) /\ ~IsRecords(o)
                      THEN None ELSE o

(* thingset_get_path *)
Segment(name) == [s |-> name, first |-> "other", number |-> NotANumber]
PathOf(o) ==
    LET path[p \in DOMAIN objects] ==
            (IF objects[p].parent = 0 THEN <<>> ELSE path[ObjectById(objects[p].parent)])
            \o <<Segment(objects[p].name)>>
    IN  path[o]

----------------------------------------------------------------------------
(***************************************************************************)
(* The loop the application runs: thingset_iterate_subsets with NULL, then *)
(* with the object behind the one returned.                                *)
(***************************************************************************)
Over == cursor > Len(objects)

IterateAnew ==  \* mutant: begins with the object returned last
    /\ Ready /\ ~Over
    /\ LET hits == {i \in members : i >= cursor}
       IN  /\ cursor' = IF hits = {} THEN Len(objects) + 1 ELSE Min(hits)
           /\ visited' = IF hits = {} THEN visited ELSE Append(visited, Min(hits))
    /\ UNCHANGED <<tables, members, changes, constant>>

IterateToNull ==  \* mutant: the NULL at the end counts as an object
    /\ Ready /\ ~Over
    /\ LET hits == {i \in members : i >= cursor}
       IN  /\ cursor' = IF hits = {} THEN Len(objects) + 1 ELSE Min(hits) + 1
           /\ visited' = Append(visited, First(hits))
    /\ UNCHANGED <<tables, members, changes, constant>>

IterateSubsets ==
    /\ Ready /\ ~Over
    /\ LET hits == {i \in members : i >= cursor}
       IN  /\ cursor' = IF hits = {} THEN Len(objects) + 1 ELSE Min(hits) + 1
           /\ visited' = IF hits = {} THEN visited ELSE Append(visited, Min(hits))
    /\ UNCHANGED <<tables, members, changes, constant>>

(* thingset_common_create_delete *)
ChangeSubset(o) ==
    /\ Ready /\ ~Over
    /\ changes < MaxChanges
    /\ changes' = changes + 1
    /\ members' = IF o \in members THEN members \ {o} ELSE members \cup {o}
    /\ constant' = constant \ {o}
    /\ UNCHANGED <<tables, cursor, visited>>

DbNext == AppendObject \/ IterateSubsets \/ \E o \in DOMAIN objects : ChangeSubset(o)

DbSpec == DbInit /\ [][DbNext]_dbVars

----------------------------------------------------------------------------
(***************************************************************************)
(* What the macros of thingset.h leave to the application: databases and   *)
(* names for which an ID and a path are the address of one object.         *)
(***************************************************************************)
(* No two objects have the same ID, and none has that of an overlay.       *)
ProperIds == \A os \in Databases : \A i \in DOMAIN os :
    /\ os[i].id \notin {0, PathsId, MetadataId}
    /\ \A j \in DOMAIN os : os[i].id = os[j].id => i = j

(* Parents lead to the root: of any objects, one has its parent elsewhere. *)
ProperParents == \A os \in Databases : \A group \in (SUBSET DOMAIN os) \ {{}} :
    \E i \in group :
        os[i].parent = 0 \/ \E p \in DOMAIN os \ group : os[p].id = os[i].parent

(* Objects have names, those with the same parent different ones. *)
ProperNames == \A os \in Databases : \A i \in DOMAIN os :
    /\ os[i].name # NoName
    /\ \A j \in DOMAIN os : os[i].parent = os[j].parent /\ os[i].name = os[j].name => i = j

(* A segment that begins with a letter is its text, one with a digit is a  *)
(* number if it is digits only, and no object has a name that is read as   *)
(* an index.                                                               *)
ProperPaths == \A path \in Paths : \A j \in DOMAIN path :
    /\ path[j].first = "other" => path[j] = Segment(path[j].s)
    /\ path[j].first = "digit" => path[j].number \in Nat \cup {NotANumber}
    /\ path[j].first # "other" =>
           path[j].s # NoName /\ \A os \in Databases : \A i \in DOMAIN os : os[i].name # path[j].s

----------------------------------------------------------------------------
(***************************************************************************)
(* Properties.                                                             *)
(***************************************************************************)
DbTypeOK ==
    /\ objects \in Databases
    /\ appended \in 0 .. Len(objects)
    /\ lookup \in [0 .. Buckets - 1 -> Seq(1 .. appended)]
    /\ members \subseteq DOMAIN objects /\ constant \subseteq members
    /\ cursor \in 1 .. Len(objects) + 1
    /\ visited \in Seq(DOMAIN objects)
    /\ changes \in 0 .. MaxChanges

(* The answer without buckets: the first of the array with the ID. *)
LinearById(id) == First({i \in 1 .. appended : objects[i].id = id})

(***************************************************************************)
(* With the lookup map the objects found by ID are those a search of the   *)
(* array would find, at every moment of the initialisation.                *)
(***************************************************************************)
LookupFindsFirst ==
    \A id \in {objects[i].id : i \in DOMAIN objects} : ObjectById(id) = LinearById(id)

(* The tables are complete; what is found in them never changes again. *)
Settled == Ready /\ cursor = 1 /\ changes = 0

(***************************************************************************)
(* The path thingset_get_path writes leads back to its object.             *)
(***************************************************************************)
PathsLeadBack ==
    Settled => \A o \in DOMAIN objects :
        Len(PathOf(o)) <= MaxDepth => EndpointByPath(PathOf(o)) = Endpoint(o, IndexNone)

(***************************************************************************)
(* And no other path leads there, but the one with a slash at its end, or  *)
(* below an array of records with a number at its end, or with a "-" at    *)
(* its end.  The "-" is the "non-existent element behind the last array    *)
(* element" (src/thingset.c:650), but accepted below objects of any type,  *)
(* groups too (:649), so that this says no more of it.  Paths deeper than  *)
(* MaxDepth are excepted, which end at an ancestor (:625).                 *)
(***************************************************************************)
FoundIsNamed ==
    Settled => \A path \in Paths :
        LET found == EndpointByPath(path)
            own == PathOf(found.object)
        IN  found.object \in DOMAIN objects /\ Len(path) <= MaxDepth =>
                CASE found.index = IndexNone -> path = own \/ path = own \o <<Segment(NoName)>>
                  [] found.index = IndexNew -> Front(path) = own
                  [] OTHER -> IsRecords(found.object) /\ Front(path) = own

(***************************************************************************)
(* An object is found by its ID unless it is part of a record, which has   *)
(* no address of its own.                                                  *)
(***************************************************************************)
PartOfRecord(o) ==
    /\ objects[o].type # "records"
    /\ \E p \in DOMAIN objects : objects[p].id = objects[o].parent /\ objects[p].type = "records"
IdsFindAllButParts ==
    Settled => \A o \in DOMAIN objects :
        EndpointById(objects[o].id) = IF PartOfRecord(o) THEN None ELSE o

(***************************************************************************)
(* However the subset changes between two calls, an iteration returns the  *)
(* objects in the order of the array, none twice, and when it is over it   *)
(* has returned every object that was in the subset all the time.          *)
(***************************************************************************)
IterationIsComplete ==
    /\ \A j \in 1 .. Len(visited) - 1 : visited[j] < visited[j + 1]
    /\ Over => \A o \in constant : \E j \in DOMAIN visited : visited[j] = o
=============================================================================
