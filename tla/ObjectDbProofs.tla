--------------------------- MODULE ObjectDbProofs ---------------------------
(***************************************************************************)
(* What TLC checks of ObjectDb on small databases, proved for every array  *)
(* of data objects and every number of buckets, within the specification   *)
(* of TextReport, and what it checks of the report itself.                 *)
(***************************************************************************)
EXTENDS TextReport, SequenceLemmas, FiniteSetTheorems

(* The objects are a sequence of records, the tables grow along it.        *)
DbType ==
    /\ objects \in Databases /\ objects \in Seq(ObjectSet)
    /\ appended \in 0 .. Len(objects)
    /\ lookup \in [0 .. Buckets - 1 -> Seq(1 .. Len(objects))]
    /\ members \subseteq DOMAIN objects /\ constant \subseteq members
    /\ cursor \in 1 .. Len(objects) + 1
    /\ visited \in Seq(Nat)

LEMMA InBuckets == ASSUME NEW n \in Nat PROVE n % Buckets \in 0 .. Buckets - 1
  BY ConstantsAssumption

LEMMA ObjectType ==
    ASSUME DbType, NEW i \in 1 .. Len(objects)
    PROVE  objects[i].id \in Nat /\ objects[i].id % Buckets \in 0 .. Buckets - 1
  <1>1. objects[i] \in ObjectSet
    BY DEF DbType
  <1>2. objects[i].id \in Nat
    BY <1>1 DEF ObjectSet
  <1> QED
    BY <1>2, InBuckets

(***************************************************************************)
(* A bucket holds the objects of its IDs, in the order of the array.       *)
(***************************************************************************)
BucketsSorted ==
    \A b \in 0 .. Buckets - 1 : \A j, k \in 1 .. Len(lookup[b]) :
        j < k => lookup[b][j] < lookup[b][k]
BucketsHold ==
    \A b \in 0 .. Buckets - 1 : \A j \in 1 .. Len(lookup[b]) :
        lookup[b][j] \in 1 .. appended /\ objects[lookup[b][j]].id % Buckets = b
BucketsComplete ==
    \A i \in 1 .. appended :
        \E j \in 1 .. Len(lookup[objects[i].id % Buckets]) :
            lookup[objects[i].id % Buckets][j] = i

(***************************************************************************)
(* The objects returned are in order and before the cursor, and no object  *)
(* before it that has always been a member is missing.                     *)
(***************************************************************************)
VisitedSorted ==
    /\ \A j \in 1 .. Len(visited) - 1 : visited[j] < visited[j + 1]
    /\ \A j \in 1 .. Len(visited) : visited[j] < cursor
NoneMissing == \A o \in constant : o < cursor => \E j \in 1 .. Len(visited) : visited[j] = o

DbInv ==
    /\ DbType
    /\ BucketsSorted /\ BucketsHold /\ BucketsComplete
    /\ VisitedSorted /\ NoneMissing

LEMMA InitDb == DbInit => DbInv
  <1> SUFFICES ASSUME DbInit PROVE DbInv
    OBVIOUS
  <1>1. objects \in Databases /\ objects \in Seq(ObjectSet) /\ Len(objects) \in Nat
    BY ConstantsAssumption DEF DbInit
  <1>2. DbType
    BY <1>1, ConstantsAssumption DEF DbInit, DbType
  <1>3. BucketsSorted /\ BucketsHold /\ BucketsComplete
    BY DEF DbInit, BucketsSorted, BucketsHold, BucketsComplete
  <1>4. VisitedSorted /\ NoneMissing
    BY <1>2 DEF DbInit, DbType, VisitedSorted, NoneMissing
  <1> QED
    BY <1>2, <1>3, <1>4 DEF DbInv

LEMMA AppendKeepsDb == DbInv /\ AppendObject => DbInv'
  <1> SUFFICES ASSUME DbInv, AppendObject PROVE DbInv'
    OBVIOUS
  <1> DEFINE new == appended + 1
             home == objects[new].id % Buckets
  <1>1. /\ objects \in Seq(ObjectSet) /\ Len(objects) \in Nat
        /\ appended \in 0 .. Len(objects) /\ new \in 1 .. Len(objects)
    BY DEF DbInv, DbType, AppendObject, Ready
  <1>2. /\ lookup \in [0 .. Buckets - 1 -> Seq(1 .. Len(objects))]
        /\ home \in 0 .. Buckets - 1
    BY <1>1, ObjectType DEF DbInv, DbType
  <1>3. /\ appended' = new /\ objects' = objects
        /\ lookup' = [lookup EXCEPT ![home] = Append(@, new)]
    BY DEF AppendObject
  <1> HIDE DEF new, home
  <1>4. /\ lookup' \in [0 .. Buckets - 1 -> Seq(1 .. Len(objects))]
        /\ lookup'[home] = Append(lookup[home], new)
        /\ \A b \in 0 .. Buckets - 1 : b # home => lookup'[b] = lookup[b]
    BY <1>1, <1>2, <1>3
  <1>5. /\ Len(lookup'[home]) = Len(lookup[home]) + 1 /\ Len(lookup[home]) \in Nat
        /\ \A j \in 1 .. Len(lookup[home]) : lookup'[home][j] = lookup[home][j]
        /\ lookup'[home][Len(lookup[home]) + 1] = new
    BY <1>1, <1>2, <1>4
  <1>6. DbType'
    <2>1. UNCHANGED <<objects, members, cursor, visited, constant>>
      BY DEF AppendObject, iteration
    <2>2. appended' \in 0 .. Len(objects)
      BY <1>1, <1>3 DEF new
    <2> QED
      BY <1>4, <2>1, <2>2 DEF DbInv, DbType
  <1>7. BucketsHold'
    <2> SUFFICES ASSUME NEW b \in 0 .. Buckets - 1, NEW j \in 1 .. Len(lookup'[b])
                 PROVE  lookup'[b][j] \in 1 .. new /\ objects[lookup'[b][j]].id % Buckets = b
      BY <1>3 DEF BucketsHold
    <2>1. CASE lookup'[b][j] = lookup[b][j] /\ j \in 1 .. Len(lookup[b])
      <3>1. lookup[b][j] \in 1 .. appended /\ objects[lookup[b][j]].id % Buckets = b
        BY <2>1 DEF DbInv, BucketsHold
      <3> QED
        BY <1>1, <2>1, <3>1 DEF new
    <2>2. CASE b = home /\ lookup'[b][j] = new
      BY <1>1, <2>2 DEF home
    <2>3. CASE b # home
      BY <1>4, <2>1, <2>3
    <2> QED
      BY <1>5, <2>1, <2>2, <2>3
  <1>8. BucketsSorted'
    <2> SUFFICES ASSUME NEW b \in 0 .. Buckets - 1,
                        NEW j \in 1 .. Len(lookup'[b]), NEW k \in 1 .. Len(lookup'[b]), j < k
                 PROVE  lookup'[b][j] < lookup'[b][k]
      BY DEF BucketsSorted
    <2>1. CASE b # home
      BY <1>4, <2>1 DEF DbInv, BucketsSorted
    <2>2. CASE b = home /\ k <= Len(lookup[home])
      BY <1>2, <1>5, <2>2 DEF DbInv, BucketsSorted
    <2>3. CASE b = home /\ k = Len(lookup[home]) + 1
      <3>1. j \in 1 .. Len(lookup[home])
        BY <1>5, <2>3
      <3>2. lookup[home][j] \in 1 .. appended
        BY <1>2, <3>1 DEF DbInv, BucketsHold
      <3> QED
        BY <1>1, <1>5, <2>3, <3>1, <3>2 DEF new
    <2> QED
      BY <1>5, <2>1, <2>2, <2>3
  <1>9. BucketsComplete'
    <2> SUFFICES ASSUME NEW i \in 1 .. new
                 PROVE  \E j \in 1 .. Len(lookup'[objects[i].id % Buckets]) :
                            lookup'[objects[i].id % Buckets][j] = i
      BY <1>3 DEF BucketsComplete
    <2> DEFINE b == objects[i].id % Buckets
    <2>1. b \in 0 .. Buckets - 1
      BY <1>1, ObjectType DEF DbInv, new
    <2>2. CASE i = new
      BY <1>5, <2>2 DEF home
    <2>3. CASE i \in 1 .. appended
      <3>1. PICK j \in 1 .. Len(lookup[b]) : lookup[b][j] = i
        BY <2>3 DEF DbInv, BucketsComplete
      <3> HIDE DEF b
      <3> SUFFICES \E k \in 1 .. Len(lookup'[b]) : lookup'[b][k] = i
        BY DEF b
      <3>2. CASE b = home
        BY <1>5, <3>1, <3>2
      <3>3. CASE b # home
        BY <1>4, <2>1, <3>1, <3>3
      <3> QED
        BY <3>2, <3>3
    <2> QED
      BY <1>1, <2>2, <2>3 DEF new
  <1>10. VisitedSorted' /\ NoneMissing'
    BY DEF DbInv, VisitedSorted, NoneMissing, AppendObject, iteration
  <1> QED
    BY <1>6, <1>7, <1>8, <1>9, <1>10 DEF DbInv

LEMMA IterateKeepsDb == DbInv /\ IterateSubsets => DbInv'
  <1> SUFFICES ASSUME DbInv, IterateSubsets PROVE DbInv'
    OBVIOUS
  <1> DEFINE hits == {i \in members : i >= cursor}
  <1>1. /\ Len(objects) \in Nat /\ cursor \in 1 .. Len(objects) + 1
        /\ members \subseteq 1 .. Len(objects) /\ constant \subseteq members
        /\ visited \in Seq(Nat) /\ Len(visited) \in Nat
    BY DEF DbInv, DbType
  <1>2. UNCHANGED <<objects, appended, lookup, members, constant>>
    BY DEF IterateSubsets, tables
  <1>3. /\ cursor' = IF hits = {} THEN Len(objects) + 1 ELSE Min(hits) + 1
        /\ visited' = IF hits = {} THEN visited ELSE Append(visited, Min(hits))
    BY DEF IterateSubsets
  <1>4. (BucketsSorted /\ BucketsHold /\ BucketsComplete)'
    BY <1>2 DEF DbInv, BucketsSorted, BucketsHold, BucketsComplete
  <1>5. CASE hits = {}
    <2>1. cursor' = Len(objects) + 1 /\ visited' = visited
      BY <1>3, <1>5
    <2>2. \A o \in constant : o < cursor
      BY <1>1, <1>5
    <2>3. DbType'
      BY <1>1, <1>2, <2>1 DEF DbInv, DbType
    <2>4. VisitedSorted'
      BY <1>1, <2>1 DEF DbInv, VisitedSorted
    <2>5. NoneMissing'
      BY <1>2, <2>1, <2>2 DEF DbInv, NoneMissing
    <2> QED
      BY <1>4, <2>3, <2>4, <2>5 DEF DbInv
  <1>6. CASE hits # {}
    <2> DEFINE m == Min(hits)
    <2>1. m \in hits /\ \A y \in hits : m <= y
      <3>1. members \subseteq Nat
        BY <1>1
      <3>2. hits \subseteq Nat
        BY <3>1
      <3> QED
        BY <1>6, <3>2, MinOfNaturals
    <2>2. m \in members /\ m >= cursor /\ m \in 1 .. Len(objects)
      BY <1>1, <2>1
    <2>3. cursor' = m + 1 /\ visited' = Append(visited, m)
      BY <1>3, <1>6
    <2>4. \A o \in constant : o < m + 1 => o < cursor \/ o = m
      BY <1>1, <2>1, <2>2
    <2> HIDE DEF m
    <2>5. /\ Len(visited') = Len(visited) + 1
          /\ visited' \in Seq(Nat)
          /\ \A j \in 1 .. Len(visited) : visited'[j] = visited[j] /\ visited[j] \in Nat
          /\ visited'[Len(visited) + 1] = m
      BY <1>1, <2>2, <2>3
    <2>6. DbType'
      BY <1>1, <1>2, <2>2, <2>3, <2>5 DEF DbInv, DbType
    <2>7. VisitedSorted'
      BY <1>1, <2>2, <2>3, <2>5, SMTT(30) DEF DbInv, VisitedSorted
    <2>8. NoneMissing'
      <3> SUFFICES ASSUME NEW o \in constant, o < m + 1
                   PROVE  \E j \in 1 .. Len(visited') : visited'[j] = o
        BY <1>2, <2>3 DEF NoneMissing
      <3>1. CASE o < cursor
        <4>1. PICK j \in 1 .. Len(visited) : visited[j] = o
          BY <3>1 DEF DbInv, NoneMissing
        <4> QED
          BY <1>1, <2>5, <4>1, SMTT(30)
      <3>2. CASE o = m
        BY <1>1, <2>5, <3>2
      <3> QED
        BY <2>4, <3>1, <3>2
    <2> QED
      BY <1>4, <2>6, <2>7, <2>8 DEF DbInv
  <1> QED
    BY <1>5, <1>6

LEMMA ChangeKeepsDb == DbInv /\ (\E o \in DOMAIN objects : ChangeSubset(o)) => DbInv'
  <1> SUFFICES ASSUME DbInv, NEW o \in DOMAIN objects, ChangeSubset(o) PROVE DbInv'
    OBVIOUS
  <1>1. UNCHANGED <<objects, appended, lookup, cursor, visited>>
    BY DEF ChangeSubset, tables
  <1>2. /\ members' \subseteq members \cup {o} /\ members \ {o} \subseteq members'
        /\ constant' = constant \ {o}
    BY DEF ChangeSubset
  <1>3. DbType'
    BY <1>1, <1>2 DEF DbInv, DbType
  <1>4. (BucketsSorted /\ BucketsHold /\ BucketsComplete)'
    BY <1>1 DEF DbInv, BucketsSorted, BucketsHold, BucketsComplete
  <1>5. (VisitedSorted /\ NoneMissing)'
    BY <1>1, <1>2 DEF DbInv, VisitedSorted, NoneMissing
  <1> QED
    BY <1>3, <1>4, <1>5 DEF DbInv

LEMMA DbStep == DbInv /\ [Next]_vars => DbInv'
  <1> SUFFICES ASSUME DbInv, [Next]_vars PROVE DbInv'
    OBVIOUS
  <1>1. CASE Database
    BY <1>1, AppendKeepsDb, IterateKeepsDb, ChangeKeepsDb DEF Database, DbNext
  <1>2. CASE UNCHANGED dbVars
    BY <1>2 DEF dbVars, tables, iteration, DbInv, DbType, BucketsSorted, BucketsHold,
                BucketsComplete, VisitedSorted, NoneMissing
  <1> QED
    BY <1>1, <1>2 DEF Next, Start, HeaderTooLong, Skip, Overflow, NameTooLong, Serialize, Refuse,
                      CloseAll, vars

LEMMA DbInvariance == Spec => []DbInv
  <1>1. Init => DbInv
    BY InitDb DEF Init
  <1> QED
    BY <1>1, DbStep, PTL DEF Spec

-----------------------------------------------------------------------------
LEMMA FindsFirst ==
    ASSUME DbInv, NEW i0 \in 1 .. Len(objects)
    PROVE  ObjectById(objects[i0].id) = LinearById(objects[i0].id)
  <1> DEFINE id == objects[i0].id
             b == id % Buckets
             bucket == lookup[b]
             J == {j \in DOMAIN bucket : objects[bucket[j]].id = id}
             I == {i \in 1 .. appended : objects[i].id = id}
  <1>1. /\ id \in Nat /\ b \in 0 .. Buckets - 1
        /\ bucket \in Seq(1 .. Len(objects)) /\ DOMAIN bucket = 1 .. Len(bucket)
        /\ Len(bucket) \in Nat /\ appended \in Nat
    BY ObjectType DEF DbInv, DbType
  <1>2. \A j \in 1 .. Len(bucket) : bucket[j] \in 1 .. appended
    BY <1>1 DEF DbInv, BucketsHold
  <1>3. \A j, k \in 1 .. Len(bucket) : j < k => bucket[j] < bucket[k]
    BY <1>1, SMTT(30) DEF DbInv, BucketsSorted
  <1>4. \A i \in I : \E j \in J : bucket[j] = i
    BY <1>1 DEF DbInv, BucketsComplete
  <1>5. \A j \in J : bucket[j] \in I
    BY <1>1, <1>2, SMTT(30)
  <1>6. ObjectById(id) = IF First(J) = None THEN None ELSE bucket[First(J)]
    BY DEF ObjectById
  <1>7. LinearById(id) = First(I)
    BY DEF LinearById
  <1>8. J \subseteq Nat /\ I \subseteq Nat /\ 0 \notin J
    BY <1>1
  <1> SUFFICES ObjectById(id) = LinearById(id)
    OBVIOUS
  <1> HIDE DEF id, b, bucket, J, I
  <1>9. CASE J = {}
    BY <1>4, <1>6, <1>7, <1>9 DEF First, None
  <1>10. CASE J # {}
    <2>1. Min(J) \in J /\ \A y \in J : Min(J) <= y
      BY <1>8, <1>10, MinOfNaturals
    <2>2. I # {}
      BY <1>5, <1>10
    <2>3. Min(I) \in I /\ \A y \in I : Min(I) <= y
      BY <1>8, <2>2, MinOfNaturals
    <2>4. PICK k \in J : bucket[k] = Min(I)
      BY <1>4, <2>3
    <2>5. ~(Min(J) < k)
      <3>1. Min(J) < k => bucket[Min(J)] < bucket[k]
        BY <1>1, <1>3, <2>1, <2>4 DEF J
      <3>2. bucket[k] <= bucket[Min(J)]
        BY <1>5, <2>1, <2>3, <2>4
      <3>3. bucket[k] \in Nat /\ bucket[Min(J)] \in Nat
        BY <1>5, <1>8, <2>1, <2>4
      <3> QED
        BY <3>1, <3>2, <3>3
    <2>6. Min(J) = k
      <3>1. Min(J) \in Nat /\ k \in Nat /\ Min(J) <= k
        BY <1>8, <2>1, <2>4
      <3> QED
        BY <2>5, <3>1
    <2>7. First(J) = k /\ First(I) = bucket[k] /\ k # None
      BY <1>8, <1>10, <2>2, <2>4, <2>6 DEF First, None
    <2> QED
      BY <1>6, <1>7, <2>7
  <1> QED
    BY <1>9, <1>10

(* The lookup by ID through the buckets of thingset_init_common finds what *)
(* a search of the array finds, for every database and number of buckets.  *)
THEOREM LookupIsFirst == Spec => []LookupFindsFirst
  <1>1. DbInv => LookupFindsFirst
    <2> SUFFICES ASSUME DbInv PROVE LookupFindsFirst
      OBVIOUS
    <2>1. DOMAIN objects = 1 .. Len(objects)
      BY DEF DbInv, DbType
    <2> QED
      BY <2>1, FindsFirst DEF LookupFindsFirst
  <1> QED
    BY <1>1, DbInvariance, PTL

(* However CREATE and DELETE change the subset between two calls of        *)
(* thingset_iterate_subsets, which takes no lock, the iteration is in      *)
(* order and misses no object that has always been in it.                  *)
THEOREM IterationComplete == Spec => []IterationIsComplete
  <1>1. DbInv => IterationIsComplete
    <2> SUFFICES ASSUME DbInv PROVE IterationIsComplete
      OBVIOUS
    <2>1. \A o \in constant : Over => o < cursor
      BY DEF DbInv, DbType, Over
    <2>2. visited \in Seq(Nat)
      BY DEF DbInv, DbType
    <2> QED
      BY <2>1, <2>2 DEF DbInv, VisitedSorted, NoneMissing, IterationIsComplete
  <1> QED
    BY <1>1, DbInvariance, PTL

-----------------------------------------------------------------------------
(***************************************************************************)
(* Addresses by ID, in databases with proper IDs.                          *)
(***************************************************************************)
(* An ID no object has is not found in its bucket. *)
LEMMA FindsNone ==
    ASSUME DbInv, NEW id \in Nat, \A i \in 1 .. Len(objects) : objects[i].id # id
    PROVE  ObjectById(id) = None
  <1> DEFINE b == id % Buckets
             J == {j \in DOMAIN lookup[b] : objects[lookup[b][j]].id = id}
  <1>1. b \in 0 .. Buckets - 1
    BY InBuckets
  <1>2. lookup[b] \in Seq(1 .. Len(objects)) /\ DOMAIN lookup[b] = 1 .. Len(lookup[b])
    BY <1>1 DEF DbInv, DbType
  <1>3. \A j \in DOMAIN lookup[b] : lookup[b][j] \in 1 .. Len(objects)
    BY <1>2
  <1>4. J = {}
    BY <1>3
  <1>5. ObjectById(id) = IF First(J) = None THEN None ELSE lookup[b][First(J)]
    BY DEF ObjectById
  <1> QED
    BY <1>4, <1>5 DEF First

(* One that an object has is found there once all objects are. *)
LEMMA FindsIt ==
    ASSUME ProperIds, DbInv, Ready, NEW i \in 1 .. Len(objects)
    PROVE  ObjectById(objects[i].id) = i
  <1>1. appended = Len(objects) /\ Len(objects) \in Nat /\ DOMAIN objects = 1 .. Len(objects)
    BY DEF DbInv, DbType, Ready
  <1>2. \A j \in 1 .. Len(objects) : objects[j].id = objects[i].id => j = i
    BY <1>1 DEF ProperIds, DbInv, DbType
  <1> DEFINE I == {j \in 1 .. appended : objects[j].id = objects[i].id}
  <1>3. I = {i}
    BY <1>1, <1>2
  <1>4. LinearById(objects[i].id) = First(I)
    BY DEF LinearById
  <1> HIDE DEF I
  <1>5. I \subseteq Nat /\ I # {}
    BY <1>3
  <1>6. Min(I) = i
    BY <1>3, <1>5, MinOfNaturals
  <1> QED
    BY <1>4, <1>5, <1>6, FindsFirst DEF First

(* Every object is found by its ID but a part of a record, which only has  *)
(* an address inside of it (src/thingset.c:728).                           *)
THEOREM PartsHaveNoAddress ==
    ASSUME ProperIds
    PROVE  Spec => []IdsFindAllButParts
  <1>1. DbInv => IdsFindAllButParts
    <2> SUFFICES ASSUME DbInv, Ready, NEW o \in DOMAIN objects
                 PROVE  EndpointById(objects[o].id) = IF PartOfRecord(o) THEN None ELSE o
      BY DEF IdsFindAllButParts, Settled
    <2>1. /\ objects \in Seq(ObjectSet) /\ objects \in Databases
          /\ o \in 1 .. Len(objects) /\ DOMAIN objects = 1 .. Len(objects)
      BY DEF DbInv, DbType
    <2>2. /\ objects[o].id \notin {0, PathsId, MetadataId} /\ objects[o].parent \in Nat
          /\ o # None
      <3>1. objects[o] \in ObjectSet
        BY <2>1
      <3>2. objects[o].id \notin {0, PathsId, MetadataId}
        BY <2>1, Zenon DEF ProperIds
      <3> QED
        BY <2>1, <3>1, <3>2 DEF ObjectSet, None
    <2>3. ObjectById(objects[o].id) = o
      BY <2>1, FindsIt
    <2> DEFINE parent == ObjectById(objects[o].parent)
    <2>4. IsRecords(parent) <=>
             \E p \in DOMAIN objects : objects[p].id = objects[o].parent
                                       /\ objects[p].type = "records"
      <3>1. CASE \E p \in 1 .. Len(objects) : objects[p].id = objects[o].parent
        <4>1. PICK p \in 1 .. Len(objects) : objects[p].id = objects[o].parent
          BY <3>1
        <4>2. parent = p
          BY <4>1, FindsIt
        <4>3. \A q \in DOMAIN objects : objects[q].id = objects[o].parent => q = p
          BY <2>1, <4>1 DEF ProperIds
        <4> QED
          BY <2>1, <4>1, <4>2, <4>3 DEF IsRecords
      <3>2. CASE \A p \in 1 .. Len(objects) : objects[p].id # objects[o].parent
        <4>1. parent = None
          BY <2>2, <3>2, FindsNone
        <4> QED
          BY <2>1, <3>2, <4>1 DEF IsRecords, None
      <3> QED
        BY <3>1, <3>2
    <2>5. IsRecords(o) <=> objects[o].type = "records"
      BY DEF IsRecords
    <2> QED
      BY <2>2, <2>3, <2>4, <2>5 DEF EndpointById, PartOfRecord
  <1> QED
    BY <1>1, DbInvariance, PTL

-----------------------------------------------------------------------------
(***************************************************************************)
(* Paths.  The ancestors of an object are a chain from the root, of which  *)
(* there is exactly one; its names are the path.                           *)
(***************************************************************************)
Chain(s, o) ==
    /\ s \in Seq(DOMAIN objects) /\ s # <<>> /\ s[Len(s)] = o
    /\ objects[s[1]].parent = 0
    /\ \A j \in 1 .. Len(s) - 1 : objects[s[j + 1]].parent = objects[s[j]].id

Names(s) == [j \in 1 .. Len(s) |-> Segment(objects[s[j]].name)]

LEMMA ObjectFields ==
    ASSUME DbInv, NEW o \in DOMAIN objects
    PROVE  /\ objects[o].id \in Nat \ {0} /\ objects[o].parent \in Nat
           /\ o \in Nat \ {0} /\ o \in Int /\ o \in 1 .. Len(objects)
           /\ DOMAIN objects = 1 .. Len(objects)
  <1>1. objects \in Seq(ObjectSet) /\ DOMAIN objects = 1 .. Len(objects) /\ Len(objects) \in Nat
    BY DEF DbInv, DbType
  <1>2. objects[o] \in ObjectSet
    BY <1>1
  <1> QED
    BY <1>1, <1>2 DEF ObjectSet

LEMMA SameId ==
    ASSUME DbInv, ProperIds, NEW o \in DOMAIN objects, NEW p \in DOMAIN objects,
           objects[o].id = objects[p].id
    PROVE  o = p
  BY Zenon DEF ProperIds, DbInv, DbType

(* A property of an object whose parent, if it has one, has it is one of   *)
(* all objects.                                                            *)
LEMMA DownTheTree ==
    ASSUME DbInv, ProperParents, NEW S,
           \A o \in DOMAIN objects :
               \/ objects[o].parent = 0
               \/ \E p \in S \cap DOMAIN objects : objects[p].id = objects[o].parent
               => o \in S
    PROVE  \A o \in DOMAIN objects : o \in S
  <1> DEFINE D == DOMAIN objects
             rest == D \ S
  <1> SUFFICES ASSUME rest # {} PROVE FALSE
    OBVIOUS
  <1>1. objects \in Databases
    BY DEF DbInv, DbType
  <1>2. rest \in (SUBSET DOMAIN objects) \ {{}}
    OBVIOUS
  <1>3. PICK i \in rest :
            objects[i].parent = 0 \/ \E p \in DOMAIN objects \ rest : objects[p].id = objects[i].parent
    <2> HIDE DEF rest
    <2> QED
      BY <1>1, <1>2, Zenon DEF ProperParents
  <1>4. i \in S
    BY <1>3
  <1> QED
    BY <1>4

LEMMA ChainGrows ==
    ASSUME DbInv, NEW p \in DOMAIN objects, NEW o \in DOMAIN objects, NEW s, Chain(s, p),
           objects[o].parent = objects[p].id
    PROVE  Chain(Append(s, o), o)
  <1> DEFINE D == DOMAIN objects
             t == Append(s, o)
  <1>1. s \in Seq(D) /\ s # <<>> /\ s[Len(s)] = p /\ objects[s[1]].parent = 0
    BY DEF Chain
  <1>2. /\ t \in Seq(D) /\ Len(t) = Len(s) + 1 /\ t[Len(s) + 1] = o /\ Len(s) \in Nat \ {0}
        /\ \A j \in 1 .. Len(s) : t[j] = s[j]
    BY <1>1, AppendOf
  <1>3. t # <<>> /\ t[Len(t)] = o /\ objects[t[1]].parent = 0
    BY <1>1, <1>2
  <1>4. ASSUME NEW j \in 1 .. Len(t) - 1 PROVE objects[t[j + 1]].parent = objects[t[j]].id
    <2>1. CASE j = Len(s)
      BY <1>1, <1>2, <2>1
    <2>2. CASE j \in 1 .. Len(s) - 1
      <3>1. objects[s[j + 1]].parent = objects[s[j]].id
        BY <2>2 DEF Chain
      <3>2. t[j + 1] = s[j + 1] /\ t[j] = s[j]
        BY <1>2, <2>2
      <3> QED
        BY <3>1, <3>2
    <2> QED
      BY <1>2, <2>1, <2>2
  <1> QED
    BY <1>2, <1>3, <1>4 DEF Chain

LEMMA ChainOfOne ==
    ASSUME NEW o \in DOMAIN objects, objects[o].parent = 0
    PROVE  Chain(<<o>>, o)
  BY DEF Chain

LEMMA ChainExists ==
    ASSUME DbInv, ProperParents, NEW o \in DOMAIN objects
    PROVE  \E s : Chain(s, o)
  <1> DEFINE S == {q \in DOMAIN objects : \E s : Chain(s, q)}
  <1>1. ASSUME NEW q \in DOMAIN objects, objects[q].parent = 0 PROVE q \in S
    BY <1>1, ChainOfOne
  <1>2. ASSUME NEW q \in DOMAIN objects, NEW p \in S, objects[p].id = objects[q].parent
        PROVE  q \in S
    BY <1>2, ChainGrows
  <1> HIDE DEF S
  <1>3. o \in S
    BY <1>1, <1>2, DownTheTree
  <1> QED
    BY <1>3 DEF S

(* The chain of an object without its end is that of its parent.           *)
LEMMA ChainEnds ==
    ASSUME DbInv, ProperIds, NEW o \in DOMAIN objects, NEW s, Chain(s, o)
    PROVE  /\ objects[o].parent = 0 => s = <<o>>
           /\ \A p \in DOMAIN objects : objects[p].id = objects[o].parent =>
                  Chain(Front(s), p) /\ s = Append(Front(s), o)
  <1> DEFINE D == DOMAIN objects
             n == Len(s)
  <1>1. /\ s \in Seq(D) /\ s # <<>> /\ s[n] = o /\ objects[s[1]].parent = 0 /\ n \in Nat \ {0}
    BY DEF Chain
  <1>2. \A j \in 1 .. n - 1 : objects[s[j + 1]].parent = objects[s[j]].id
    BY DEF Chain
  <1>3. \A j \in 1 .. n : s[j] \in D
    BY <1>1
  <1> HIDE DEF n
  <1>4. ASSUME objects[o].parent = 0 PROVE s = <<o>>
    <2>1. CASE n = 1
      BY <1>1, <2>1 DEF n
    <2>2. CASE n # 1
      <3>1. n - 1 \in 1 .. n - 1 /\ n - 1 \in 1 .. n /\ (n - 1) + 1 = n
        BY <1>1, <2>2
      <3>2. objects[s[(n - 1) + 1]].parent = objects[s[n - 1]].id /\ s[n - 1] \in D
        BY <1>2, <1>3, <3>1
      <3>3. objects[s[n - 1]].id # 0
        BY <3>2, ObjectFields
      <3> QED
        BY <1>1, <1>4, <3>1, <3>2, <3>3
    <2> QED
      BY <2>1, <2>2
  <1>5. ASSUME NEW p \in D, objects[p].id = objects[o].parent
        PROVE  Chain(Front(s), p) /\ s = Append(Front(s), o)
    <2> DEFINE f == Front(s)
    <2>1. /\ f \in Seq(D) /\ Len(f) = n - 1 /\ \A j \in 1 .. n - 1 : f[j] = s[j]
      BY <1>1, FrontOf DEF n
    <2>2. n # 1
      <3>1. objects[p].id # 0
        BY ObjectFields
      <3> QED
        BY <1>1, <1>5, <3>1
    <2>3. n - 1 \in 1 .. n - 1 /\ n - 1 \in 1 .. n /\ (n - 1) + 1 = n /\ n - 1 \in Nat \ {0}
      BY <1>1, <2>2
    <2>4. s[n - 1] = p
      <3>1. objects[s[(n - 1) + 1]].parent = objects[s[n - 1]].id /\ s[n - 1] \in D
        BY <1>2, <1>3, <2>3
      <3>2. objects[s[n - 1]].id = objects[p].id
        BY <1>1, <1>5, <2>3, <3>1
      <3> QED
        BY <3>1, <3>2, SameId
    <2>5. s = Append(f, o)
      <3>1. Len(Append(f, o)) = n /\ Append(f, o) \in Seq(D)
        BY <2>1, <2>3, AppendOf
      <3>2. \A j \in 1 .. n : Append(f, o)[j] = s[j]
        <4>1. \A j \in 1 .. n - 1 : Append(f, o)[j] = s[j]
          BY <2>1, <2>3, AppendOf
        <4>2. Append(f, o)[n] = o
          BY <2>1, <2>3, AppendOf
        <4>3. \A j \in 1 .. n : j = n \/ j \in 1 .. n - 1
          BY <1>1
        <4>4. s[n] = o
          BY <1>1
        <4> QED
          BY <4>1, <4>2, <4>3, <4>4, Zenon
      <3> QED
        BY <1>1, <3>1, <3>2 DEF n
    <2> HIDE DEF f
    <2>6. f # <<>> /\ f[Len(f)] = p /\ objects[f[1]].parent = 0
      BY <1>1, <2>1, <2>3, <2>4
    <2>7. ASSUME NEW j \in 1 .. Len(f) - 1 PROVE objects[f[j + 1]].parent = objects[f[j]].id
      <3>1. j \in 1 .. n - 1 /\ j + 1 \in 1 .. n - 1
        BY <2>1, <2>3
      <3>2. objects[s[j + 1]].parent = objects[s[j]].id
        BY <1>2, <3>1
      <3> QED
        BY <2>1, <3>1, <3>2
    <2>8. Chain(f, p)
      BY <2>1, <2>6, <2>7 DEF Chain
    <2> QED
      BY <2>5, <2>8 DEF f
  <1> QED
    BY <1>4, <1>5

LEMMA ChainUnique ==
    ASSUME DbInv, ProperIds, ProperParents,
           NEW o \in DOMAIN objects, NEW s, NEW t, Chain(s, o), Chain(t, o)
    PROVE  s = t
  <1> DEFINE S == {q \in DOMAIN objects : \A x, y : Chain(x, q) /\ Chain(y, q) => x = y}
  <1>1. ASSUME NEW q \in DOMAIN objects, objects[q].parent = 0 PROVE q \in S
    <2> SUFFICES ASSUME NEW x, NEW y, Chain(x, q), Chain(y, q) PROVE x = y
      OBVIOUS
    <2>1. x = <<q>> /\ y = <<q>>
      BY <1>1, ChainEnds
    <2> QED
      BY <2>1
  <1>2. ASSUME NEW q \in DOMAIN objects, NEW p \in S, objects[p].id = objects[q].parent
        PROVE  q \in S
    <2> SUFFICES ASSUME NEW x, NEW y, Chain(x, q), Chain(y, q) PROVE x = y
      OBVIOUS
    <2>1. p \in DOMAIN objects
      OBVIOUS
    <2>2. Chain(Front(x), p) /\ x = Append(Front(x), q)
      BY <1>2, <2>1, ChainEnds
    <2>3. Chain(Front(y), p) /\ y = Append(Front(y), q)
      BY <1>2, <2>1, ChainEnds
    <2>4. Front(x) = Front(y)
      BY <2>2, <2>3
    <2> QED
      BY <2>2, <2>3, <2>4
  <1> HIDE DEF S
  <1>3. o \in S
    BY <1>1, <1>2, DownTheTree
  <1> QED
    BY <1>3 DEF S

(***************************************************************************)
(* What thingset_get_path writes is the names of the chain.                *)
(***************************************************************************)
PathFrom(f, p) ==
    (IF objects[p].parent = 0 THEN <<>> ELSE f[ObjectById(objects[p].parent)])
    \o <<Segment(objects[p].name)>>
IsPaths(f) == f = [p \in DOMAIN objects |-> PathFrom(f, p)]

LEMMA NamesGrow ==
    ASSUME DbInv, NEW p \in DOMAIN objects, NEW s \in Seq(DOMAIN objects)
    PROVE  Names(Append(s, p)) = Names(s) \o <<Segment(objects[p].name)>>
  <1> DEFINE T == {Segment(objects[q].name) : q \in DOMAIN objects}
             n == Len(s)
             x == Segment(objects[p].name)
  <1>1. /\ Len(Append(s, p)) = n + 1 /\ n \in Nat /\ Append(s, p)[n + 1] = p
        /\ \A j \in 1 .. n : Append(s, p)[j] = s[j]
    BY AppendOf
  <1>2. Names(s) \in Seq(T) /\ Len(Names(s)) = n /\ x \in T
    <2>1. \A j \in 1 .. n : s[j] \in DOMAIN objects
      OBVIOUS
    <2>2. Names(s) \in [1 .. n -> T]
      BY <2>1 DEF Names
    <2> HIDE DEF T, n
    <2>3. Names(s) \in Seq(T) /\ Len(Names(s)) = n
      BY <1>1, <2>2, FunctionIsSeq
    <2> QED
      BY <2>3 DEF T
  <1>3. \A j \in 1 .. n : Names(s)[j] = Segment(objects[s[j]].name)
    BY DEF Names
  <1>4. Names(Append(s, p)) = [j \in 1 .. n + 1 |-> Segment(objects[Append(s, p)[j]].name)]
    BY <1>1 DEF Names
  <1> HIDE DEF T, n, x
  <1>5. Names(s) \o <<x>> = Append(Names(s), x)
    BY <1>2
  <1>6. /\ Len(Append(Names(s), x)) = n + 1 /\ Append(Names(s), x)[n + 1] = x
        /\ \A j \in 1 .. n : Append(Names(s), x)[j] = Names(s)[j]
        /\ Append(Names(s), x) \in Seq(T)
    BY <1>2, AppendOf
  <1>7. Append(Names(s), x) = [j \in 1 .. n + 1 |-> Append(Names(s), x)[j]]
    <2> DEFINE t == Append(Names(s), x)
    <2>1. t \in Seq(T) /\ Len(t) = n + 1
      BY <1>6
    <2> HIDE DEF t
    <2>2. t = [j \in 1 .. n + 1 |-> t[j]]
      BY <2>1
    <2> QED
      BY <2>2 DEF t
  <1>8. ASSUME NEW j \in 1 .. n + 1
        PROVE  Append(Names(s), x)[j] = Segment(objects[Append(s, p)[j]].name)
    <2>1. CASE j = n + 1
      BY <1>1, <1>6, <2>1 DEF x
    <2>2. CASE j \in 1 .. n
      BY <1>1, <1>3, <1>6, <2>2
    <2>3. j = n + 1 \/ j \in 1 .. n
      BY <1>1
    <2> QED
      BY <2>1, <2>2, <2>3, Zenon
  <1> QED
    BY <1>4, <1>5, <1>7, <1>8 DEF x

TheChain(o) == CHOOSE s : Chain(s, o)

LEMMA ChainIs ==
    ASSUME DbInv, ProperIds, ProperParents, NEW o \in DOMAIN objects
    PROVE  /\ Chain(TheChain(o), o)
           /\ objects[o].parent = 0 => TheChain(o) = <<o>>
           /\ \A p \in DOMAIN objects : objects[p].id = objects[o].parent =>
                  TheChain(o) = Append(TheChain(p), o)
  <1>1. \A q \in DOMAIN objects : Chain(TheChain(q), q)
    BY ChainExists DEF TheChain
  <1>2. objects[o].parent = 0 => TheChain(o) = <<o>>
    BY <1>1, ChainEnds
  <1>3. ASSUME NEW p \in DOMAIN objects, objects[p].id = objects[o].parent
        PROVE  TheChain(o) = Append(TheChain(p), o)
    <2>1. Chain(Append(TheChain(p), o), o)
      BY <1>1, <1>3, ChainGrows
    <2> QED
      BY <1>1, <2>1, ChainUnique
  <1> QED
    BY <1>1, <1>2, <1>3

LEMMA ParentExists ==
    ASSUME DbInv, ProperParents, NEW o \in DOMAIN objects, objects[o].parent # 0
    PROVE  \E p \in DOMAIN objects : objects[p].id = objects[o].parent
  <1>1. objects \in Databases /\ {o} \in (SUBSET DOMAIN objects) \ {{}}
    BY DEF DbInv, DbType
  <1>2. \E i \in {o} :
            objects[i].parent = 0 \/ \E p \in DOMAIN objects \ {o} : objects[p].id = objects[i].parent
    BY <1>1, Zenon DEF ProperParents
  <1> QED
    BY <1>2

LEMMA ParentFound ==
    ASSUME DbInv, ProperIds, ProperParents, Ready, NEW o \in DOMAIN objects,
           objects[o].parent # 0
    PROVE  /\ ObjectById(objects[o].parent) \in DOMAIN objects
           /\ objects[ObjectById(objects[o].parent)].id = objects[o].parent
  <1>1. PICK p \in DOMAIN objects : objects[p].id = objects[o].parent
    BY ParentExists
  <1>2. p \in 1 .. Len(objects)
    BY ObjectFields
  <1>3. ObjectById(objects[p].id) = p
    BY <1>2, FindsIt
  <1> QED
    BY <1>1, <1>3

LEMMA PathIsNames ==
    ASSUME DbInv, ProperIds, ProperParents, Ready, NEW o \in DOMAIN objects
    PROVE  PathOf(o) = Names(TheChain(o))
  <1> DEFINE D == DOMAIN objects
             path == CHOOSE f : IsPaths(f)
             names == [p \in D |-> Names(TheChain(p))]
  <1>1. PathOf(o) = path[o]
    BY DEF PathOf, IsPaths, PathFrom
  <1>2. ASSUME NEW p \in D, objects[p].parent = 0
        PROVE  \A f : PathFrom(f, p) = Names(TheChain(p))
    <2>1. TheChain(p) = <<p>>
      BY <1>2, ChainIs
    <2>2. Names(<<p>>) = <<Segment(objects[p].name)>>
      BY DEF Names
    <2>3. \A f : PathFrom(f, p) = <<>> \o <<Segment(objects[p].name)>>
      BY <1>2 DEF PathFrom
    <2> QED
      BY <2>1, <2>2, <2>3
  <1>3. ASSUME NEW p \in D, NEW q \in D, objects[p].parent # 0, objects[q].id = objects[p].parent
        PROVE  \A f : f[q] = Names(TheChain(q)) => PathFrom(f, p) = Names(TheChain(p))
    <2> SUFFICES ASSUME NEW f, f[q] = Names(TheChain(q))
                 PROVE  PathFrom(f, p) = Names(TheChain(p))
      OBVIOUS
    <2>1. q = ObjectById(objects[p].parent)
      <3>1. /\ ObjectById(objects[p].parent) \in D
            /\ objects[ObjectById(objects[p].parent)].id = objects[q].id
        BY <1>3, ParentFound
      <3> QED
        BY <3>1, SameId
    <2>2. PathFrom(f, p) = Names(TheChain(q)) \o <<Segment(objects[p].name)>>
      BY <1>3, <2>1 DEF PathFrom
    <2>3. TheChain(p) = Append(TheChain(q), p) /\ TheChain(q) \in Seq(D)
      BY <1>3, ChainIs DEF Chain
    <2> QED
      BY <2>2, <2>3, NamesGrow
  <1>4. IsPaths(names)
    <2> SUFFICES ASSUME NEW p \in D PROVE Names(TheChain(p)) = PathFrom(names, p)
      BY DEF IsPaths
    <2>1. CASE objects[p].parent = 0
      BY <1>2, <2>1
    <2>2. CASE objects[p].parent # 0
      <3>1. PICK q \in D : objects[q].id = objects[p].parent
        BY <2>2, ParentFound
      <3>2. names[q] = Names(TheChain(q))
        OBVIOUS
      <3> HIDE DEF names
      <3> QED
        BY <1>3, <2>2, <3>1, <3>2
    <2> QED
      BY <2>1, <2>2
  <1> HIDE DEF names
  <1>5. IsPaths(path)
    BY <1>4
  <1> HIDE DEF path
  <1>6. \A p \in D : path[p] = PathFrom(path, p)
    BY <1>5 DEF IsPaths
  <1> DEFINE S == {p \in D : path[p] = Names(TheChain(p))}
  <1>7. ASSUME NEW p \in D, objects[p].parent = 0 PROVE p \in S
    BY <1>2, <1>6, <1>7
  <1>8. ASSUME NEW p \in D, NEW q \in S, objects[q].id = objects[p].parent PROVE p \in S
    <2>1. q \in D /\ path[q] = Names(TheChain(q)) /\ objects[q].id # 0
      BY ObjectFields
    <2>2. PathFrom(path, p) = Names(TheChain(p))
      BY <1>3, <1>8, <2>1
    <2> QED
      BY <1>6, <2>2
  <1> HIDE DEF S
  <1>9. o \in S
    BY <1>7, <1>8, DownTheTree
  <1> QED
    BY <1>1, <1>9 DEF S

(***************************************************************************)
(* Paths are followed back by names.                                       *)
(***************************************************************************)
LEMMA ChildFound ==
    ASSUME DbInv, NEW parent, NEW name
    PROVE  \/ /\ ChildByName(parent, name) \in DOMAIN objects
              /\ objects[ChildByName(parent, name)].parent = parent
              /\ objects[ChildByName(parent, name)].name = name
           \/ /\ ChildByName(parent, name) \in {None, MetadataObject}
              /\ \A i \in DOMAIN objects : ~(objects[i].parent = parent /\ objects[i].name = name)
  <1> DEFINE S == {i \in DOMAIN objects : objects[i].parent = parent /\ objects[i].name = name}
  <1>1. \/ ChildByName(parent, name) = First(S)
        \/ First(S) = None /\ ChildByName(parent, name) = MetadataObject
    BY DEF ChildByName
  <1>2. S \subseteq Nat \ {0} /\ S \subseteq Nat
    BY DEF DbInv, DbType
  <1>3. CASE S = {}
    BY <1>1, <1>3 DEF First
  <1>4. CASE S # {}
    <2> HIDE DEF S
    <2>1. First(S) \in S
      BY <1>2, <1>4, MinOfNaturals DEF First
    <2>2. First(S) # None
      BY <1>2, <2>1 DEF None
    <2>3. ChildByName(parent, name) \in S
      BY <1>1, <2>1, <2>2
    <2> QED
      BY <2>3 DEF S
  <1> QED
    BY <1>3, <1>4

LEMMA ChildType ==
    ASSUME DbInv, NEW parent, NEW name
    PROVE  ChildByName(parent, name) \in Int
  <1>1. DOMAIN objects \subseteq Int
    BY DEF DbInv, DbType
  <1> QED
    BY <1>1, ChildFound DEF None, MetadataObject

LEMMA ChildOfName ==
    ASSUME DbInv, ProperNames, NEW o \in DOMAIN objects
    PROVE  ChildByName(objects[o].parent, objects[o].name) = o
  <1>1. objects \in Databases
    BY DEF DbInv, DbType
  <1>2. \A i \in DOMAIN objects :
            objects[i].parent = objects[o].parent /\ objects[i].name = objects[o].name => i = o
    BY <1>1, Zenon DEF ProperNames
  <1> QED
    BY <1>2, ChildFound

WalkFrom(path, f, k, o) ==
    LET child == ChildByName(IdOf(o), path[k].s)
    IN  IF k > MaxDepth THEN Endpoint(o, IndexNone)
        ELSE IF k = Len(path) THEN LastSegment(o, path[k])
        ELSE IF k = Len(path) - 1 /\ path[Len(path)].s = NoName THEN Endpoint(child, IndexNone)
        ELSE IF child = None THEN Endpoint(None, IndexNone)
        ELSE f[k + 1][child]
IsWalk(path, f) == f = [k \in 1 .. Len(path) |-> [o \in Int |-> WalkFrom(path, f, k, o)]]
TheWalk(path) == CHOOSE f : IsWalk(path, f)

LEMMA WalkDiffers ==
    ASSUME NEW path, NEW f, NEW g, NEW k, NEW o,
           \/ k = Len(path)
           \/ f[k + 1][ChildByName(IdOf(o), path[k].s)] = g[k + 1][ChildByName(IdOf(o), path[k].s)]
    PROVE  WalkFrom(path, f, k, o) = WalkFrom(path, g, k, o)
  BY Zenon DEF WalkFrom

LEMMA WalkExists ==
    ASSUME DbInv, NEW path, Len(path) \in Nat
    PROVE  IsWalk(path, TheWalk(path))
  <1> DEFINE L == Len(path)
             Good(n, f) == \A k \in 1 .. L, o \in Int : k + n >= L => f[k][o] = WalkFrom(path, f, k, o)
             P == {n \in Nat : \E f : Good(n, f)}
  <1>1. 0 \in P
    <2> DEFINE none == [k \in 1 .. L |-> [o \in Int |-> 0]]
               f == [k \in 1 .. L |-> [o \in Int |-> WalkFrom(path, none, k, o)]]
    <2>1. ASSUME NEW k \in 1 .. L, NEW o \in Int, k + 0 >= L
          PROVE  f[k][o] = WalkFrom(path, f, k, o)
      <3>1. k = Len(path)
        BY <2>1
      <3>2. f[k][o] = WalkFrom(path, none, k, o)
        OBVIOUS
      <3> HIDE DEF f, none
      <3> QED
        BY <3>1, <3>2, WalkDiffers
    <2> HIDE DEF f
    <2>2. Good(0, f)
      BY <2>1
    <2> QED
      BY <2>2
  <1>2. ASSUME NEW n \in Nat, n \in P PROVE n + 1 \in P
    <2>1. PICK f : Good(n, f)
      BY <1>2
    <2> DEFINE g == [k \in 1 .. L |-> [o \in Int |->
                        IF k + n >= L THEN f[k][o] ELSE WalkFrom(path, f, k, o)]]
    <2>2. \A k \in 1 .. L, o \in Int : g[k][o] = WalkFrom(path, f, k, o)
      BY <2>1
    <2>3. \A k \in 1 .. L, o \in Int : k + n >= L => g[k][o] = f[k][o]
      OBVIOUS
    <2> HIDE DEF g
    <2>4. ASSUME NEW k \in 1 .. L, NEW o \in Int, k + (n + 1) >= L
          PROVE  g[k][o] = WalkFrom(path, g, k, o)
      <3>1. g[k][o] = WalkFrom(path, f, k, o)
        BY <2>2
      <3>2. ChildByName(IdOf(o), path[k].s) \in Int
        BY ChildType
      <3>3. k = L \/ (k + 1 \in 1 .. L /\ (k + 1) + n >= L)
        BY <2>4
      <3>4. k = L \/ f[k + 1][ChildByName(IdOf(o), path[k].s)] = g[k + 1][ChildByName(IdOf(o), path[k].s)]
        BY <2>3, <3>2, <3>3
      <3>5. WalkFrom(path, f, k, o) = WalkFrom(path, g, k, o)
        BY <3>4, WalkDiffers
      <3> QED
        BY <3>1, <3>5
    <2>5. Good(n + 1, g)
      BY <2>4
    <2>6. n + 1 \in Nat
      OBVIOUS
    <2> HIDE DEF Good
    <2> QED
      BY <2>5, <2>6, Zenon
  <1>3. L \in P
    <2> HIDE DEF P
    <2> QED
      BY <1>1, <1>2, NaturalInduction
  <1>4. PICK h : Good(L, h)
    BY <1>3
  <1> DEFINE f == [k \in 1 .. L |-> [o \in Int |-> h[k][o]]]
  <1>5. \A k \in 1 .. L, o \in Int : f[k][o] = h[k][o]
    OBVIOUS
  <1>6. ASSUME NEW k \in 1 .. L, NEW o \in Int PROVE h[k][o] = WalkFrom(path, f, k, o)
    <2>1. h[k][o] = WalkFrom(path, h, k, o)
      BY <1>4
    <2>2. ChildByName(IdOf(o), path[k].s) \in Int
      BY ChildType
    <2>3. k = L \/ k + 1 \in 1 .. L
      OBVIOUS
    <2> HIDE DEF f
    <2>4. k = L \/ h[k + 1][ChildByName(IdOf(o), path[k].s)] = f[k + 1][ChildByName(IdOf(o), path[k].s)]
      BY <1>5, <2>2, <2>3
    <2>5. WalkFrom(path, h, k, o) = WalkFrom(path, f, k, o)
      BY <2>4, WalkDiffers
    <2> QED
      BY <2>1, <2>5
  <1>7. f = [k \in 1 .. L |-> [o \in Int |-> WalkFrom(path, f, k, o)]]
    <2> DEFINE e == [k \in 1 .. L |-> [o \in Int |-> WalkFrom(path, f, k, o)]]
    <2>1. ASSUME NEW k \in 1 .. L PROVE f[k] = e[k]
      <3>1. f[k] = [o \in Int |-> h[k][o]] /\ e[k] = [o \in Int |-> WalkFrom(path, f, k, o)]
        OBVIOUS
      <3> HIDE DEF f
      <3> QED
        BY <1>6, <3>1
    <2>2. f = [k \in 1 .. L |-> f[k]] /\ e = [k \in 1 .. L |-> e[k]]
      OBVIOUS
    <2> HIDE DEF f, e
    <2>3. f = e
      BY <2>1, <2>2
    <2> QED
      BY <2>3 DEF e
  <1> HIDE DEF f
  <1>8. IsWalk(path, f)
    BY <1>7 DEF IsWalk
  <1> QED
    BY <1>8 DEF TheWalk

LEMMA WalkSteps ==
    ASSUME DbInv, NEW path, Len(path) \in Nat, NEW k \in 1 .. Len(path), NEW o \in Int
    PROVE  TheWalk(path)[k][o] = WalkFrom(path, TheWalk(path), k, o)
  BY WalkExists DEF IsWalk

LEMMA ObjectByPathIs == ASSUME NEW path PROVE ObjectByPath(path) = TheWalk(path)[1][None]
  BY DEF ObjectByPath, TheWalk, IsWalk, WalkFrom

(* The object reached when the first j of the chain are named.             *)
Reached(s, j) == IF j = 0 THEN None ELSE s[j]

LEMMA ChainReached ==
    ASSUME DbInv, NEW o \in DOMAIN objects, NEW s, Chain(s, o), NEW j \in 0 .. Len(s) - 1
    PROVE  /\ Reached(s, j) \in Int
           /\ s[j + 1] \in DOMAIN objects
           /\ IdOf(Reached(s, j)) = objects[s[j + 1]].parent
  <1>1. s \in Seq(DOMAIN objects) /\ Len(s) \in Nat /\ s[j + 1] \in DOMAIN objects
    BY DEF Chain
  <1>2. CASE j = 0
    BY <1>1, <1>2 DEF Chain, Reached, IdOf, None
  <1>3. CASE j # 0
    <2>1. j \in 1 .. Len(s) - 1 /\ s[j] \in DOMAIN objects
      BY <1>1, <1>3
    <2>2. objects[s[j + 1]].parent = objects[s[j]].id
      BY <2>1 DEF Chain
    <2>3. s[j] \in Nat \ {0}
      BY <2>1, ObjectFields
    <2> QED
      BY <1>1, <1>3, <2>2, <2>3 DEF Reached, IdOf, None, MetadataObject
  <1> QED
    BY <1>2, <1>3

LEMMA NameGiven ==
    ASSUME DbInv, ProperNames, NEW o \in DOMAIN objects
    PROVE  objects[o].name # NoName
  BY Zenon DEF ProperNames, DbInv, DbType

LEMMA NamesLeadBack ==
    ASSUME DbInv, ProperNames, NEW o \in DOMAIN objects, NEW s, Chain(s, o), Len(s) <= MaxDepth
    PROVE  EndpointByPath(Names(s)) = Endpoint(o, IndexNone)
  <1> DEFINE n == Len(s)
             path == Names(s)
             walk == TheWalk(path)
  <1>1. s \in Seq(DOMAIN objects) /\ n \in Nat \ {0} /\ s[n] = o
    BY DEF Chain
  <1>2. /\ Len(path) = n
        /\ \A k \in 1 .. n : path[k] = Segment(objects[s[k]].name)
    BY <1>1 DEF Names
  <1>3. \A k \in 1 .. n : s[k] \in DOMAIN objects /\ path[k].s = objects[s[k]].name
                          /\ path[k].first = "other" /\ path[k].s # NoName
    <2> SUFFICES ASSUME NEW k \in 1 .. n
                 PROVE  s[k] \in DOMAIN objects /\ path[k].s = objects[s[k]].name
                        /\ path[k].first = "other" /\ path[k].s # NoName
      OBVIOUS
    <2>1. s[k] \in DOMAIN objects
      BY <1>1
    <2>2. path[k].s = objects[s[k]].name /\ path[k].first = "other"
      <3>1. path[k] = Segment(objects[s[k]].name)
        BY <1>2
      <3> HIDE DEF path, n
      <3> QED
        BY <3>1 DEF Segment
    <2> QED
      BY <2>1, <2>2, NameGiven
  <1>4. EndpointByPath(path) = walk[1][None]
    <2>1. path # <<>>
      <3>1. Len(<<>>) = 0
        OBVIOUS
      <3> HIDE DEF path
      <3> QED
        BY <1>1, <1>2, <3>1
    <2>2. path[1].s # NoName
      BY <1>1, <1>3
    <2> HIDE DEF path
    <2> QED
      BY <2>1, <2>2, ObjectByPathIs DEF EndpointByPath
  <1> HIDE DEF n, path
  <1>5. \A k \in 1 .. n : ChildByName(IdOf(Reached(s, k - 1)), path[k].s) = s[k]
    <2> SUFFICES ASSUME NEW k \in 1 .. n
                 PROVE  ChildByName(IdOf(Reached(s, k - 1)), path[k].s) = s[k]
      OBVIOUS
    <2>1. k - 1 \in 0 .. Len(s) - 1 /\ (k - 1) + 1 = k
      BY <1>1 DEF n
    <2>2. IdOf(Reached(s, k - 1)) = objects[s[k]].parent
      BY <2>1, ChainReached
    <2>3. s[k] \in DOMAIN objects /\ path[k].s = objects[s[k]].name
      BY <1>3
    <2> QED
      BY <2>2, <2>3, ChildOfName
  <1>6. \A k \in 1 .. n : Reached(s, k - 1) \in Int
    <2> SUFFICES ASSUME NEW k \in 1 .. n PROVE Reached(s, k - 1) \in Int
      OBVIOUS
    <2>1. k - 1 \in 0 .. Len(s) - 1
      BY <1>1 DEF n
    <2> QED
      BY <2>1, ChainReached
  <1>7. \A k \in 1 .. n : walk[k][Reached(s, k - 1)] = WalkFrom(path, walk, k, Reached(s, k - 1))
    BY <1>1, <1>2, <1>6, WalkSteps
  <1> HIDE DEF walk
  <1>8. \A k \in 1 .. n : k <= MaxDepth
    BY <1>1, ConstantsAssumption DEF n
  <1> DEFINE P == {j \in Nat : j < n => walk[1][None] = walk[j + 1][Reached(s, j)]}
  <1>9. 0 \in P
    BY DEF Reached
  <1>10. ASSUME NEW j \in Nat, j \in P PROVE j + 1 \in P
    <2> SUFFICES ASSUME j + 1 < n
                 PROVE  walk[1][None] = walk[(j + 1) + 1][Reached(s, j + 1)]
      OBVIOUS
    <2> DEFINE k == j + 1
    <2>1. k \in 1 .. n /\ k # n /\ k - 1 = j /\ n \in 1 .. n
      BY <1>1
    <2> HIDE DEF k
    <2>2. walk[1][None] = walk[k][Reached(s, k - 1)]
      BY <1>1, <1>10, <2>1 DEF k
    <2>3. walk[k][Reached(s, k - 1)] = WalkFrom(path, walk, k, Reached(s, k - 1))
      BY <1>7, <2>1
    <2>4. ChildByName(IdOf(Reached(s, k - 1)), path[k].s) = s[k] /\ s[k] # None
      <3>1. s[k] \in DOMAIN objects
        BY <1>3, <2>1
      <3> QED
        BY <1>5, <2>1, <3>1, ObjectFields DEF None
    <2>5. ~(k > MaxDepth) /\ k # Len(path) /\ path[Len(path)].s # NoName
      BY <1>2, <1>3, <1>8, <2>1, ConstantsAssumption
    <2>6. WalkFrom(path, walk, k, Reached(s, k - 1)) = walk[k + 1][s[k]]
      BY <2>4, <2>5, Zenon DEF WalkFrom
    <2>7. Reached(s, k) = s[k]
      BY <2>1 DEF Reached
    <2> QED
      BY <2>2, <2>3, <2>6, <2>7 DEF k
  <1>11. n - 1 \in P
    <2>1. n - 1 \in Nat
      BY <1>1
    <2> HIDE DEF P
    <2> QED
      BY <1>9, <1>10, <2>1, NaturalInduction
  <1>12. walk[1][None] = walk[n][Reached(s, n - 1)]
    BY <1>1, <1>11
  <1>13. WalkFrom(path, walk, n, Reached(s, n - 1)) = LastSegment(Reached(s, n - 1), path[n])
    <2>1. ~(n > MaxDepth) /\ n = Len(path)
      BY <1>1, <1>2, <1>8, ConstantsAssumption
    <2> QED
      BY <2>1, Zenon DEF WalkFrom
  <1>14. LastSegment(Reached(s, n - 1), path[n]) = Endpoint(s[n], IndexNone)
    <2>1. path[n].first = "other" /\ ChildByName(IdOf(Reached(s, n - 1)), path[n].s) = s[n]
      BY <1>1, <1>3, <1>5
    <2> QED
      BY <2>1 DEF LastSegment
  <1> QED
    BY <1>1, <1>4, <1>7, <1>12, <1>13, <1>14 DEF path

(* The path thingset_get_path writes leads back to its object, for every   *)
(* database whose objects hang from the root and differ by ID and, among   *)
(* siblings, by name, as far down as thingset_get_object_by_path looks.    *)
THEOREM PathsFindTheirObjects ==
    ASSUME ProperIds, ProperParents, ProperNames
    PROVE  Spec => []PathsLeadBack
  <1>1. DbInv => PathsLeadBack
    <2> SUFFICES ASSUME DbInv, Ready, NEW o \in DOMAIN objects, Len(PathOf(o)) <= MaxDepth
                 PROVE  EndpointByPath(PathOf(o)) = Endpoint(o, IndexNone)
      BY DEF PathsLeadBack, Settled
    <2> DEFINE s == TheChain(o)
    <2>1. PathOf(o) = Names(s) /\ Chain(s, o)
      BY PathIsNames, ChainIs
    <2>2. Len(Names(s)) = Len(s)
      BY <2>1 DEF Names, Chain
    <2> HIDE DEF s
    <2> QED
      BY <2>1, <2>2, NamesLeadBack
  <1> QED
    BY <1>1, DbInvariance, PTL

(***************************************************************************)
(* Conversely, what the walk has reached is named by the segments it has   *)
(* passed.                                                                 *)
(***************************************************************************)
NamedBy(path, o, m) ==
    /\ o \in DOMAIN objects /\ Len(TheChain(o)) = m
    /\ \A j \in 1 .. m : path[j] = Segment(objects[TheChain(o)[j]].name)

(* Where the walk can be when it looks at segment k.                       *)
At(path, k, o) ==
    \/ k = 1 /\ o = None
    \/ NamedBy(path, o, k - 1)
    \/ o = MetadataObject

RightlyFound(path, found) ==
    LET own == PathOf(found.object)
    IN  found.object \in DOMAIN objects =>
            CASE found.index = IndexNone -> path = own \/ path = own \o <<Segment(NoName)>>
              [] found.index = IndexNew -> Front(path) = own
              [] OTHER -> IsRecords(found.object) /\ Front(path) = own

LEMMA PathTyped ==
    ASSUME DbInv, ProperPaths, NEW path \in Paths
    PROVE  /\ path \in Seq(Segments) /\ Len(path) \in Nat
           /\ \A j \in 1 .. Len(path) :
                 /\ path[j].first = "other" => path[j] = Segment(path[j].s)
                 /\ path[j].first = "digit" => path[j].number \in Nat \cup {NotANumber}
                 /\ path[j].first # "other" =>
                       path[j].s # NoName /\ \A i \in DOMAIN objects : objects[i].name # path[j].s
  <1>1. path \in Seq(Segments) /\ Len(path) \in Nat /\ DOMAIN path = 1 .. Len(path)
    BY ConstantsAssumption
  <1>2. objects \in Databases
    BY DEF DbInv, DbType
  <1> QED
    BY <1>1, <1>2, Zenon DEF ProperPaths

LEMMA ChildNamed ==
    ASSUME DbInv, ProperIds, ProperParents, ProperPaths,
           NEW path \in Paths, NEW k \in 1 .. Len(path), NEW o, At(path, k, o),
           NEW child \in DOMAIN objects, child = ChildByName(IdOf(o), path[k].s)
    PROVE  NamedBy(path, child, k)
  <1>1. objects[child].parent = IdOf(o) /\ objects[child].name = path[k].s
    <2>1. child # None /\ child # MetadataObject
      BY ObjectFields DEF None, MetadataObject
    <2> QED
      BY <2>1, ChildFound
  <1>2. path[k] = Segment(objects[child].name)
    BY <1>1, PathTyped
  <1>3. k \in Nat \ {0}
    BY PathTyped
  <1>4. CASE k = 1 /\ o = None
    <2>1. TheChain(child) = <<child>>
      BY <1>1, <1>4, ChainIs DEF IdOf
    <2>2. Len(<<child>>) = 1 /\ <<child>>[1] = child
      OBVIOUS
    <2>3. Len(TheChain(child)) = k /\ TheChain(child)[k] = child
      BY <1>4, <2>1, <2>2
    <2>4. \A j \in 1 .. k : j = k
      BY <1>4
    <2> QED
      BY <1>2, <2>3, <2>4, Zenon DEF NamedBy
  <1>5. CASE NamedBy(path, o, k - 1)
    <2>1. o \in DOMAIN objects /\ o \in Nat \ {0}
      BY <1>5, ObjectFields DEF NamedBy
    <2>2. objects[child].parent = objects[o].id
      BY <1>1, <2>1 DEF IdOf, None, MetadataObject
    <2>3. TheChain(child) = Append(TheChain(o), child) /\ TheChain(o) \in Seq(DOMAIN objects)
      BY <2>1, <2>2, ChainIs DEF Chain
    <2>4. Len(TheChain(o)) = k - 1
      BY <1>5 DEF NamedBy
    <2>5. /\ Len(TheChain(child)) = k /\ TheChain(child)[k] = child
          /\ \A j \in 1 .. k - 1 : TheChain(child)[j] = TheChain(o)[j]
      <3>1. (k - 1) + 1 = k
        BY <1>3
      <3> QED
        BY <2>3, <2>4, <3>1, AppendOf
    <2>6. \A j \in 1 .. k - 1 : path[j] = Segment(objects[TheChain(o)[j]].name)
      BY <1>5 DEF NamedBy
    <2>7. \A j \in 1 .. k : j = k \/ j \in 1 .. k - 1
      BY <1>3
    <2>8. \A j \in 1 .. k : path[j] = Segment(objects[TheChain(child)[j]].name)
      BY <1>2, <2>5, <2>6, <2>7, Zenon
    <2> QED
      BY <2>5, <2>8, Zenon DEF NamedBy
  <1>6. CASE o = MetadataObject
    <2>1. IdOf(o) = MetadataId /\ MetadataId # 0
      BY <1>6, ConstantsAssumption DEF IdOf, MetadataObject, None
    <2>2. objects[child].parent # 0
      BY <1>1, <2>1
    <2>3. PICK p \in DOMAIN objects : objects[p].id = objects[child].parent
      BY <2>2, ParentExists
    <2>4. objects[p].id # MetadataId
      BY Zenon DEF ProperIds, DbInv, DbType
    <2> QED
      BY <1>1, <2>1, <2>3, <2>4
  <1> QED
    BY <1>4, <1>5, <1>6 DEF At

LEMMA NamedPath ==
    ASSUME DbInv, ProperIds, ProperParents, ProperPaths, Ready,
           NEW path \in Paths, NEW o
    PROVE  /\ NamedBy(path, o, Len(path)) => path = PathOf(o)
           /\ NamedBy(path, o, Len(path) - 1) => Front(path) = PathOf(o)
           /\ NamedBy(path, o, Len(path) - 1) /\ path[Len(path)].s = NoName
                 => path = PathOf(o) \o <<Segment(NoName)>>
  <1> DEFINE n == Len(path)
  <1>1. path \in Seq(Segments) /\ n \in Nat
    BY PathTyped
  <1>2. ASSUME NEW m \in Nat, NamedBy(path, o, m)
        PROVE  /\ PathOf(o) = [j \in 1 .. m |-> path[j]]
               /\ m # 0
    <2>1. PathOf(o) = Names(TheChain(o)) /\ Len(TheChain(o)) = m /\ Chain(TheChain(o), o)
      BY <1>2, PathIsNames, ChainIs DEF NamedBy
    <2>2. Names(TheChain(o)) = [j \in 1 .. m |-> Segment(objects[TheChain(o)[j]].name)]
      BY <2>1 DEF Names
    <2>3. \A j \in 1 .. m : path[j] = Segment(objects[TheChain(o)[j]].name)
      BY <1>2 DEF NamedBy
    <2>4. m # 0
      BY <2>1 DEF Chain
    <2> QED
      BY <2>1, <2>2, <2>3, <2>4
  <1>3. ASSUME NamedBy(path, o, n) PROVE path = PathOf(o)
    <2>1. path = [j \in 1 .. n |-> path[j]]
      BY <1>1
    <2> QED
      BY <1>1, <1>2, <1>3, <2>1
  <1>4. ASSUME NamedBy(path, o, n - 1)
        PROVE  /\ Front(path) = PathOf(o)
               /\ path[n].s = NoName => path = PathOf(o) \o <<Segment(NoName)>>
    <2>1. n # 0
      <3>1. Chain(TheChain(o), o) /\ Len(TheChain(o)) = n - 1
        BY <1>4, ChainIs DEF NamedBy
      <3>2. Len(TheChain(o)) \in Nat
        BY <3>1 DEF Chain
      <3> QED
        BY <3>1, <3>2
    <2>2. n - 1 \in Nat /\ path # <<>>
      BY <1>1, <2>1
    <2>3. PathOf(o) = [j \in 1 .. n - 1 |-> path[j]]
      BY <1>2, <1>4, <2>2
    <2>4. Front(path) = [j \in 1 .. n - 1 |-> path[j]]
      <3> DEFINE f == Front(path)
      <3>1. f \in Seq(Segments) /\ Len(f) = n - 1 /\ \A j \in 1 .. n - 1 : f[j] = path[j]
        BY <1>1, <2>2, FrontOf
      <3> HIDE DEF f, n
      <3>2. f = [j \in 1 .. n - 1 |-> f[j]]
        BY <3>1
      <3>3. f = [j \in 1 .. n - 1 |-> path[j]]
        BY <3>1, <3>2
      <3> QED
        BY <3>3 DEF f
    <2>5. ASSUME path[n].s = NoName PROVE path = PathOf(o) \o <<Segment(NoName)>>
      <3>1. path[n] = Segment(NoName)
        <4>1. n \in 1 .. n
          BY <1>1, <2>1
        <4> QED
          BY <2>5, <4>1, PathTyped
      <3> DEFINE f == Front(path)
                 x == Segment(NoName)
      <3>2. f \in Seq(Segments) /\ Len(f) = n - 1 /\ \A j \in 1 .. n - 1 : f[j] = path[j]
        BY <1>1, <2>2, FrontOf
      <3>3. x \in Segments
        <4>1. n \in 1 .. n
          BY <1>1, <2>1
        <4> QED
          BY <1>1, <3>1, <4>1
      <3> HIDE DEF x, f
      <3>4. f \o <<x>> = Append(f, x)
        BY <3>2, <3>3
      <3>5. /\ Append(f, x) \in Seq(Segments) /\ Len(Append(f, x)) = n /\ Append(f, x)[n] = x
            /\ \A j \in 1 .. n - 1 : Append(f, x)[j] = path[j]
        BY <1>1, <3>2, <3>3, AppendOf
      <3>6. \A j \in 1 .. n : j = n \/ j \in 1 .. n - 1
        BY <1>1
      <3>7. \A j \in 1 .. n : Append(f, x)[j] = path[j]
        BY <3>1, <3>5, <3>6, Zenon DEF x
      <3>8. Append(f, x) = path
        <4> DEFINE t == Append(f, x)
        <4>1. t \in Seq(Segments) /\ Len(t) = n /\ \A j \in 1 .. n : t[j] = path[j]
          BY <3>5, <3>7
        <4> HIDE DEF t
        <4>2. t = path
          BY <1>1, <4>1
        <4> QED
          BY <4>2 DEF t
      <3> QED
        BY <2>3, <2>4, <3>4, <3>8 DEF f, x
    <2> QED
      BY <2>3, <2>4, <2>5
  <1> QED
    BY <1>3, <1>4

LEMMA NotAnObject ==
    ASSUME DbInv
    PROVE  {None, RootObject, MetadataObject} \cap DOMAIN objects = {}
  BY DEF DbInv, DbType, None, RootObject, MetadataObject

LEMMA NameIsRight ==
    ASSUME NEW path, NEW o,
           o \in DOMAIN objects => path = PathOf(o) \/ path = PathOf(o) \o <<Segment(NoName)>>
    PROVE  RightlyFound(path, Endpoint(o, IndexNone))
  <1> DEFINE found == Endpoint(o, IndexNone)
  <1>1. found.object = o /\ found.index = IndexNone /\ IndexNone # IndexNew
    BY DEF Endpoint, IndexNone, IndexNew
  <1> HIDE DEF found
  <1>2. RightlyFound(path, found)
    BY <1>1, Zenon DEF RightlyFound
  <1> QED
    BY <1>2 DEF found

LEMMA LastIsRight ==
    ASSUME DbInv, ProperIds, ProperParents, ProperPaths, Ready,
           NEW path \in Paths, path # <<>>, NEW o, At(path, Len(path), o)
    PROVE  RightlyFound(path, LastSegment(o, path[Len(path)]))
  <1> DEFINE n == Len(path)
             segment == path[n]
             child == ChildByName(IdOf(o), segment.s)
  <1>1. n \in 1 .. n /\ n \in 1 .. Len(path)
    BY PathTyped
  <1>2. o \in DOMAIN objects => NamedBy(path, o, n - 1)
    BY NotAnObject DEF At
  <1>3. o \in DOMAIN objects => Front(path) = PathOf(o)
    BY <1>2, NamedPath
  <1>4. child \in DOMAIN objects => path = PathOf(child)
    <2> SUFFICES ASSUME child \in DOMAIN objects PROVE path = PathOf(child)
      OBVIOUS
    <2>1. NamedBy(path, child, n)
      BY <1>1, ChildNamed
    <2> QED
      BY <2>1, NamedPath
  <1>5. segment.first = "digit" => segment.number \in Nat \cup {NotANumber}
    BY <1>1, PathTyped
  <1>6. LastSegment(o, segment) =
            IF IsRecords(o) /\ segment.first = "digit"
            THEN IF segment.number = NotANumber THEN Endpoint(None, 0)
                 ELSE Endpoint(o, segment.number)
            ELSE IF segment.first = "dash" THEN Endpoint(o, IndexNew)
            ELSE Endpoint(child, IndexNone)
    BY DEF LastSegment
  <1> HIDE DEF child, segment, n
  <1>7. CASE LastSegment(o, segment) = Endpoint(None, 0)
    BY <1>7, NotAnObject DEF RightlyFound, Endpoint, segment, n
  <1>8. CASE LastSegment(o, segment) = Endpoint(o, segment.number) /\ segment.number \in Nat
             /\ IsRecords(o)
    <2>1. segment.number # IndexNone /\ segment.number # IndexNew
      BY <1>8 DEF IndexNone, IndexNew
    <2> QED
      BY <1>3, <1>8, <2>1 DEF RightlyFound, Endpoint, segment, n
  <1>9. CASE LastSegment(o, segment) = Endpoint(o, IndexNew)
    BY <1>3, <1>9 DEF RightlyFound, Endpoint, IndexNone, IndexNew, segment, n
  <1>10. CASE LastSegment(o, segment) = Endpoint(child, IndexNone)
    BY <1>4, <1>10, NameIsRight DEF segment, n
  <1> QED
    BY <1>5, <1>6, <1>7, <1>8, <1>9, <1>10

LEMMA WalkIsRight ==
    ASSUME DbInv, ProperIds, ProperParents, ProperPaths, Ready,
           NEW path \in Paths, path # <<>>, Len(path) <= MaxDepth
    PROVE  RightlyFound(path, TheWalk(path)[1][None])
  <1> DEFINE n == Len(path)
             walk == TheWalk(path)
             found == walk[1][None]
             There(k) == \E o \in Int : At(path, k, o) /\ found = walk[k][o]
             P == {j \in Nat : j < n => RightlyFound(path, found) \/ There(j + 1)}
  <1>1. n \in Nat \ {0} /\ n \in 1 .. n /\ MaxDepth \in Nat
    BY PathTyped, ConstantsAssumption
  <1>2. 0 \in P
    <2>1. At(path, 1, None) /\ None \in Int
      BY DEF At, None
    <2>2. There(0 + 1)
      BY <2>1
    <2> QED
      BY <2>2
  <1>3. ASSUME NEW k \in 1 .. n, NEW o \in Int, At(path, k, o), found = walk[k][o]
        PROVE  RightlyFound(path, found) \/ (k < n /\ There(k + 1))
    <2> DEFINE child == ChildByName(IdOf(o), path[k].s)
    <2>1. found = WalkFrom(path, walk, k, o)
      BY <1>1, <1>3, WalkSteps
    <2>2. ~(k > MaxDepth) /\ k \in 1 .. Len(path) /\ (k # n => k < n)
      BY <1>1
    <2>3. child \in DOMAIN objects => NamedBy(path, child, k)
      BY <1>3, <2>2, ChildNamed
    <2>4. child \in DOMAIN objects \/ child = None \/ child = MetadataObject
      BY ChildFound
    <2>5. child \in Int
      BY ChildType
    <2> HIDE DEF found, walk
    <2>6. CASE k = n
      <3>1. found = LastSegment(o, path[Len(path)])
        BY <2>1, <2>2, <2>6, Zenon DEF WalkFrom
      <3> QED
        BY <1>3, <2>6, <3>1, LastIsRight
    <2>7. CASE k # n /\ k = n - 1 /\ path[n].s = NoName
      <3>1. found = Endpoint(child, IndexNone)
        BY <2>1, <2>2, <2>7, Zenon DEF WalkFrom
      <3>2. child \in DOMAIN objects => path = PathOf(child) \o <<Segment(NoName)>>
        BY <2>3, <2>7, NamedPath
      <3> HIDE DEF child
      <3> QED
        BY <3>1, <3>2, NameIsRight
    <2>8. CASE k # n /\ ~(k = n - 1 /\ path[n].s = NoName)
      <3>1. found = IF child = None THEN Endpoint(None, IndexNone) ELSE walk[k + 1][child]
        BY <2>1, <2>2, <2>8, Zenon DEF WalkFrom
      <3> HIDE DEF child
      <3>2. CASE child = None
        BY <3>1, <3>2, NotAnObject DEF RightlyFound, Endpoint
      <3>3. CASE child # None
        <4>1. (k + 1) - 1 = k
          OBVIOUS
        <4>2. At(path, k + 1, child)
          BY <2>3, <2>4, <3>3, <4>1 DEF At
        <4>3. There(k + 1)
          BY <2>5, <3>1, <3>3, <4>2
        <4> QED
          BY <2>2, <2>8, <4>3
      <3> QED
        BY <3>2, <3>3
    <2> QED
      BY <2>6, <2>7, <2>8
  <1>4. ASSUME NEW j \in Nat, j \in P PROVE j + 1 \in P
    <2> HIDE DEF There, found
    <2> SUFFICES ASSUME j + 1 < n PROVE RightlyFound(path, found) \/ There((j + 1) + 1)
      OBVIOUS
    <2>1. j < n /\ j + 1 \in 1 .. n
      BY <1>1
    <2>2. CASE RightlyFound(path, found)
      BY <2>2
    <2>3. CASE There(j + 1)
      <3>1. PICK o \in Int : At(path, j + 1, o) /\ found = walk[j + 1][o]
        BY <2>3 DEF There
      <3> QED
        BY <1>3, <2>1, <3>1
    <2> QED
      BY <1>4, <2>1, <2>2, <2>3
  <1>5. n - 1 \in P
    <2>1. n - 1 \in Nat
      BY <1>1
    <2> HIDE DEF P
    <2> QED
      BY <1>2, <1>4, <2>1, NaturalInduction
  <1>6. (n - 1) + 1 = n /\ n - 1 < n
    BY <1>1
  <1>7. RightlyFound(path, found) \/ There(n)
    <2> HIDE DEF There, found
    <2> QED
      BY <1>5, <1>6
  <1>8. ASSUME There(n) PROVE RightlyFound(path, found)
    <2>1. PICK o \in Int : At(path, n, o) /\ found = walk[n][o]
      BY <1>8
    <2>2. ~(n < n)
      BY <1>1
    <2> HIDE DEF There, found
    <2> QED
      BY <1>1, <1>3, <2>1, <2>2
  <1> QED
    BY <1>7, <1>8

(* No other path leads to an object than that of its name, with a slash, a *)
(* '-' or, for records, a number behind it: for paths up to the depth the  *)
(* lookup follows, in databases as above in which no name begins like an   *)
(* index.                                                                  *)
THEOREM ObjectsFoundAreNamed ==
    ASSUME ProperIds, ProperParents, ProperPaths
    PROVE  Spec => []FoundIsNamed
  <1>1. DbInv => FoundIsNamed
    <2> SUFFICES ASSUME DbInv, Ready, NEW path \in Paths, Len(path) <= MaxDepth
                 PROVE  RightlyFound(path, EndpointByPath(path))
      BY Zenon DEF FoundIsNamed, Settled, RightlyFound
    <2>1. CASE path = <<>>
      BY <2>1, NotAnObject DEF EndpointByPath, RightlyFound, Endpoint
    <2>2. CASE path # <<>> /\ Len(path) > 1 /\ path[1].s = NoName
      BY <2>2, NotAnObject DEF EndpointByPath, RightlyFound, Endpoint
    <2>3. CASE path # <<>> /\ ~(Len(path) > 1 /\ path[1].s = NoName)
      <3>1. EndpointByPath(path) = TheWalk(path)[1][None]
        BY <2>3, ObjectByPathIs DEF EndpointByPath
      <3> QED
        BY <2>3, <3>1, WalkIsRight
    <2> QED
      BY <2>1, <2>2, <2>3
  <1> QED
    BY <1>1, DbInvariance, PTL

-----------------------------------------------------------------------------
(***************************************************************************)
(* The nested report.  Types first.                                        *)
(***************************************************************************)
LEMMA FoundById ==
    ASSUME DbInv, NEW id \in Nat
    PROVE  ObjectById(id) \in {None} \cup DOMAIN objects
  <1> DEFINE bucket == lookup[id % Buckets]
             J == {j \in DOMAIN bucket : objects[bucket[j]].id = id}
  <1>1. id % Buckets \in 0 .. Buckets - 1
    BY InBuckets
  <1>2. bucket \in Seq(1 .. Len(objects)) /\ DOMAIN objects = 1 .. Len(objects)
    BY <1>1 DEF DbInv, DbType
  <1>3. DOMAIN bucket = 1 .. Len(bucket) /\ \A j \in DOMAIN bucket : bucket[j] \in DOMAIN objects
    BY <1>2
  <1>4. ObjectById(id) = IF First(J) = None THEN None ELSE bucket[First(J)]
    BY DEF ObjectById
  <1> HIDE DEF bucket
  <1>5. CASE J # {}
    <2>1. J \subseteq Nat /\ J \subseteq DOMAIN bucket
      BY <1>3
    <2>2. Min(J) \in DOMAIN bucket
      BY <1>5, <2>1, MinOfNaturals
    <2> QED
      BY <1>3, <1>4, <1>5, <2>2 DEF First
  <1> QED
    BY <1>4, <1>5 DEF First

LEMMA ParentType ==
    ASSUME DbInv, NEW o \in DOMAIN objects
    PROVE  ParentOf(o) \in {None} \cup DOMAIN objects
  <1>1. objects[o] \in ObjectSet
    BY DEF DbInv, DbType
  <1> QED
    BY <1>1, FoundById DEF ParentOf, ObjectSet

LEMMA MapsType ==
    ASSUME DbInv, ancestors \in Seq(DOMAIN objects), NEW o \in DOMAIN objects
    PROVE  /\ Remaining(o) \in Seq(DOMAIN objects)
           /\ Opened(o) \in Seq(DOMAIN objects)
           /\ \/ Remaining(o) = ancestors
              \/ /\ ancestors # <<>>
                 /\ Remaining(o) = Front(ancestors)
                 /\ Len(Remaining(o)) = Len(ancestors) - 1
  <1> DEFINE parent == ParentOf(o)
             D == DOMAIN objects
  <1>1. parent \in {None} \cup D
    BY ParentType
  <1>2. Remaining(o) = ancestors \/ (ancestors # <<>> /\ Remaining(o) = Front(ancestors))
    BY DEF Remaining
  <1>3. ancestors # <<>> => Front(ancestors) \in Seq(D) /\ Len(Front(ancestors)) = Len(ancestors) - 1
    BY FrontOf
  <1>4. ASSUME parent # None PROVE ParentOf(parent) \in {None} \cup D
    BY <1>1, <1>4, ParentType
  <1>5. \/ Opened(o) = <<>>
        \/ parent # None /\ ParentOf(parent) # None /\ Opened(o) = <<ParentOf(parent), parent>>
        \/ parent # None /\ Opened(o) = <<parent>>
    BY DEF Opened
  <1> HIDE DEF parent, D
  <1>6. \A x, y \in D : <<>> \in Seq(D) /\ <<x>> \in Seq(D) /\ <<x, y>> \in Seq(D)
    OBVIOUS
  <1>7. Opened(o) \in Seq(D)
    <2>1. CASE Opened(o) = <<>>
      BY <2>1
    <2>2. CASE parent # None /\ ParentOf(parent) # None /\ Opened(o) = <<ParentOf(parent), parent>>
      BY <1>1, <1>4, <1>6, <2>2
    <2>3. CASE parent # None /\ Opened(o) = <<parent>>
      BY <1>1, <1>6, <2>3
    <2> QED
      BY <1>5, <2>1, <2>2, <2>3
  <1>8. Remaining(o) \in Seq(D)
    BY <1>2, <1>3 DEF D
  <1> QED
    BY <1>2, <1>3, <1>7, <1>8 DEF D

(***************************************************************************)
(* Counting brackets: how deep the first j symbols of s lead.              *)
(***************************************************************************)
Count(s, kind, j) == Cardinality({i \in 1 .. j : s[i].k = kind})
Depth(s, j) == Count(s, "open", j) - Count(s, "close", j)
Turn(x) == IF x.k = "open" THEN 1 ELSE IF x.k = "close" THEN -1 ELSE 0

LEMMA CountSteps ==
    ASSUME NEW s, NEW kind, NEW j \in Nat
    PROVE  /\ Count(s, kind, 0) = 0
           /\ Count(s, kind, j) \in Nat
           /\ Count(s, kind, j + 1) = Count(s, kind, j) + (IF s[j + 1].k = kind THEN 1 ELSE 0)
  <1> DEFINE P(n) == {i \in 1 .. n : s[i].k = kind}
  <1>1. P(0) = {} /\ Count(s, kind, 0) = 0
    BY FS_EmptySet DEF Count
  <1>2. IsFiniteSet(P(j))
    <2>1. IsFiniteSet(1 .. j) /\ P(j) \in SUBSET (1 .. j)
      BY FS_Interval
    <2> QED
      BY <2>1, FS_Subset
  <1>3. Cardinality(P(j)) \in Nat
    BY <1>2, FS_CardinalityType
  <1>4. CASE s[j + 1].k = kind
    <2>1. P(j + 1) = P(j) \cup {j + 1} /\ j + 1 \notin P(j)
      BY <1>4
    <2> HIDE DEF P
    <2>2. Cardinality(P(j + 1)) = Cardinality(P(j)) + 1
      BY <1>2, <2>1, FS_AddElement
    <2> QED
      BY <1>1, <1>3, <1>4, <2>2 DEF Count, P
  <1>5. CASE s[j + 1].k # kind
    <2>1. P(j + 1) = P(j)
      BY <1>5
    <2> HIDE DEF P
    <2>2. Cardinality(P(j + 1)) = Cardinality(P(j)) + 0
      BY <1>3, <2>1
    <2> QED
      BY <1>1, <1>3, <1>5, <2>2 DEF Count, P
  <1> QED
    BY <1>4, <1>5

LEMMA DepthSteps ==
    ASSUME NEW s, NEW j \in Nat
    PROVE  /\ Depth(s, 0) = 0 /\ Depth(s, j) \in Int
           /\ Depth(s, j + 1) = Depth(s, j) + Turn(s[j + 1])
  <1>1. /\ Count(s, "open", 0) = 0 /\ Count(s, "open", j) \in Nat
        /\ Count(s, "open", j + 1) = Count(s, "open", j) + (IF s[j + 1].k = "open" THEN 1 ELSE 0)
    BY CountSteps
  <1>2. /\ Count(s, "close", 0) = 0 /\ Count(s, "close", j) \in Nat
        /\ Count(s, "close", j + 1) = Count(s, "close", j) + (IF s[j + 1].k = "close" THEN 1 ELSE 0)
    BY CountSteps
  <1> QED
    BY <1>1, <1>2 DEF Depth, Turn

LEMMA DepthSame ==
    ASSUME NEW s, NEW t, NEW j \in Nat, \A i \in 1 .. j : s[i] = t[i]
    PROVE  Depth(s, j) = Depth(t, j)
  <1>1. \A kind : {i \in 1 .. j : s[i].k = kind} = {i \in 1 .. j : t[i].k = kind}
    OBVIOUS
  <1> QED
    BY <1>1 DEF Depth, Count

(***************************************************************************)
(* A piece of a response: no map is closed that is not open, commas are    *)
(* where they have to be, d maps are open at its end and the objects M are *)
(* in it, in the order of the array.                                       *)
(***************************************************************************)
Piece(s, d, M) ==
    /\ \A j \in 1 .. Len(s) : Depth(s, j) >= 0
    /\ Depth(s, Len(s)) = d
    /\ \A j \in 2 .. Len(s) : s[j].k \in {"open", "item"} => s[j - 1].k \in {"open", "comma"}
    /\ \A o : o \in M <=> \E j \in 1 .. Len(s) : s[j].k = "item" /\ s[j].o = o
    /\ \A i, j \in 1 .. Len(s) :
           s[i].k = "item" /\ s[j].k = "item" /\ i < j => s[i].o < s[j].o

LEMMA PieceGrows ==
    ASSUME NEW S, NEW s \in Seq(S), NEW x \in S, NEW d \in Int, NEW M, Piece(s, d, M),
           NEW e \in Nat, e = d + Turn(x), NEW N,
           x.k \in {"open", "item"} => s = <<>> \/ s[Len(s)].k \in {"open", "comma"},
           x.k = "item" => N = M \cup {x.o} /\ \A m \in M : m < x.o,
           x.k # "item" => N = M
    PROVE  Piece(Append(s, x), e, N)
  <1> DEFINE t == Append(s, x)
             n == Len(s)
  <1>1. n \in Nat /\ Len(t) = n + 1 /\ (\A j \in 1 .. n : t[j] = s[j]) /\ t[n + 1] = x
    BY AppendOf
  <1>2. s = <<>> => n = 0
    OBVIOUS
  <1> HIDE DEF t, n
  <1>3. \A j \in 0 .. n : Depth(t, j) = Depth(s, j)
    <2> TAKE j \in 0 .. n
    <2>1. j \in Nat /\ \A i \in 1 .. j : t[i] = s[i]
      BY <1>1
    <2> QED
      BY <2>1, DepthSame
  <1>4. Depth(t, n + 1) = e
    <2>1. Depth(s, n) = d
      BY DEF Piece, n
    <2>2. Depth(t, n + 1) = Depth(t, n) + Turn(t[n + 1])
      BY <1>1, DepthSteps
    <2> QED
      BY <1>1, <1>3, <2>1, <2>2
  <1>5. \A j \in 1 .. n + 1 : Depth(t, j) >= 0
    BY <1>1, <1>3, <1>4 DEF Piece, n
  <1>6. ASSUME NEW j \in 2 .. n + 1, t[j].k \in {"open", "item"} PROVE t[j - 1].k \in {"open", "comma"}
    <2>1. CASE j = n + 1
      BY <1>1, <1>2, <1>6, <2>1 DEF n
    <2>2. CASE j # n + 1
      <3>1. j \in 2 .. n /\ t[j] = s[j] /\ t[j - 1] = s[j - 1]
        BY <1>1, <2>2
      <3> QED
        BY <1>6, <3>1 DEF Piece, n
    <2> QED
      BY <2>1, <2>2
  <1>7. ASSUME NEW o PROVE o \in N <=> \E j \in 1 .. n + 1 : t[j].k = "item" /\ t[j].o = o
    <2>1. o \in M <=> \E j \in 1 .. n : t[j].k = "item" /\ t[j].o = o
      BY <1>1 DEF Piece, n
    <2>2. (\E j \in 1 .. n + 1 : t[j].k = "item" /\ t[j].o = o)
          <=> \/ \E j \in 1 .. n : t[j].k = "item" /\ t[j].o = o
              \/ t[n + 1].k = "item" /\ t[n + 1].o = o
      BY <1>1
    <2> QED
      BY <1>1, <2>1, <2>2
  <1>8. ASSUME NEW i \in 1 .. n + 1, NEW j \in 1 .. n + 1,
               t[i].k = "item", t[j].k = "item", i < j
        PROVE  t[i].o < t[j].o
    <2>1. i \in 1 .. n /\ t[i] = s[i]
      BY <1>1, <1>8
    <2>2. CASE j = n + 1
      <3>1. t[i].o \in M
        BY <1>8, <2>1 DEF Piece, n
      <3> QED
        BY <1>1, <1>8, <2>2, <3>1
    <2>3. CASE j # n + 1
      <3>1. j \in 1 .. n /\ t[j] = s[j]
        BY <1>1, <2>3
      <3> QED
        BY <1>8, <2>1, <3>1 DEF Piece, n
    <2> QED
      BY <2>2, <2>3
  <1>9. Piece(t, e, N)
    BY <1>1, <1>4, <1>5, <1>6, <1>7, <1>8 DEF Piece
  <1> QED
    BY <1>9 DEF t

(* The last symbol is taken back if it is a comma. *)
LEMMA PieceShrinks ==
    ASSUME NEW S, NEW s \in Seq(S), NEW d \in Int, NEW M, Piece(s, d, M),
           s # <<>>, s[Len(s)].k = "comma"
    PROVE  Piece(Front(s), d, M)
  <1> DEFINE t == Front(s)
             n == Len(s) - 1
  <1>1. n \in Nat /\ Len(t) = n /\ (\A j \in 1 .. n : t[j] = s[j]) /\ Len(s) = n + 1
    BY FrontOf
  <1>2. s[n + 1].k = "comma" /\ Depth(s, n + 1) = d
    BY <1>1 DEF Piece
  <1> HIDE DEF t, n
  <1>3. \A j \in 0 .. n : Depth(t, j) = Depth(s, j)
    <2> TAKE j \in 0 .. n
    <2>1. j \in Nat /\ \A i \in 1 .. j : t[i] = s[i]
      BY <1>1
    <2> QED
      BY <2>1, DepthSame
  <1>4. Depth(t, n) = d
    <2>1. Depth(s, n + 1) = Depth(s, n) + Turn(s[n + 1]) /\ Depth(s, n) \in Int
      BY <1>1, DepthSteps
    <2>2. Turn(s[n + 1]) = 0
      BY <1>2 DEF Turn
    <2> QED
      BY <1>1, <1>2, <1>3, <2>1, <2>2
  <1>5. \A j \in 1 .. n : Depth(t, j) >= 0
    BY <1>1, <1>3 DEF Piece
  <1>6. \A j \in 2 .. n : t[j].k \in {"open", "item"} => t[j - 1].k \in {"open", "comma"}
    <2>1. \A j \in 2 .. n : j \in 2 .. Len(s) /\ t[j] = s[j] /\ t[j - 1] = s[j - 1]
      BY <1>1
    <2> QED
      BY <2>1 DEF Piece
  <1>7. ASSUME NEW o PROVE o \in M <=> \E j \in 1 .. n : t[j].k = "item" /\ t[j].o = o
    <2>1. o \in M <=> \E j \in 1 .. n + 1 : s[j].k = "item" /\ s[j].o = o
      BY <1>1 DEF Piece
    <2>2. \A j \in 1 .. n + 1 : s[j].k = "item" => j \in 1 .. n
      BY <1>1, <1>2
    <2> QED
      BY <1>1, <2>1, <2>2
  <1>8. \A i, j \in 1 .. n : t[i].k = "item" /\ t[j].k = "item" /\ i < j => t[i].o < t[j].o
    BY <1>1 DEF Piece
  <1>9. Piece(t, d, M)
    BY <1>1, <1>4, <1>5, <1>6, <1>7, <1>8 DEF Piece
  <1> QED
    BY <1>9 DEF t

(* The special cases the report is built of. *)
LEMMA PieceOpens ==
    ASSUME NEW S, NEW s \in Seq(S), NEW name, Open(name) \in S, NEW d \in Nat, NEW M,
           Piece(s, d, M), s = <<>> \/ s[Len(s)].k \in {"open", "comma"}
    PROVE  Piece(Append(s, Open(name)), d + 1, M)
  <1> DEFINE x == Open(name)
  <1>1. x.k = "open" /\ Turn(x) = 1
    BY DEF Open, Turn
  <1> HIDE DEF x
  <1> QED
    BY <1>1, PieceGrows DEF x

LEMMA PieceCloses ==
    ASSUME NEW S, NEW s \in Seq(S), Close \in S, NEW d \in Nat, NEW M, Piece(s, d + 1, M)
    PROVE  Piece(Append(s, Close), d, M)
  <1>1. Close.k = "close" /\ Turn(Close) = -1
    BY DEF Close, Turn
  <1>2. d + 1 \in Int /\ d = d + 1 + Turn(Close)
    BY <1>1
  <1> QED
    BY <1>1, <1>2, PieceGrows

LEMMA PieceComma ==
    ASSUME NEW S, NEW s \in Seq(S), Comma \in S, NEW d \in Nat, NEW M, Piece(s, d, M)
    PROVE  Piece(Append(s, Comma), d, M)
  <1>1. Comma.k = "comma" /\ Turn(Comma) = 0
    BY DEF Comma, Turn
  <1> QED
    BY <1>1, PieceGrows

LEMMA PieceItem ==
    ASSUME NEW S, NEW s \in Seq(S), NEW o, Value(o) \in S, NEW d \in Nat, NEW M,
           Piece(s, d, M), s = <<>> \/ s[Len(s)].k \in {"open", "comma"}, \A m \in M : m < o
    PROVE  Piece(Append(s, Value(o)), d, M \cup {o})
  <1> DEFINE x == Value(o)
  <1>1. x.k = "item" /\ Turn(x) = 0 /\ x.o = o
    BY DEF Value, Turn
  <1> HIDE DEF x
  <1> QED
    BY <1>1, PieceGrows DEF x

(***************************************************************************)
(* The report while the loop runs is a piece in which the maps of          *)
(* ancestors and the outermost one are open, with all members up to next.  *)
(* Its last symbol is a comma, which may be overwritten, once there is an  *)
(* object.                                                                 *)
(***************************************************************************)
ReportType ==
    /\ pc \in {"idle", "loop", "done", "error", "overflow", "outside"}
    /\ next \in 1 .. Len(objects) + 1
    /\ ancestors \in Seq(DOMAIN objects) /\ Len(ancestors) <= AncestorsSize
    /\ size \in {0} \cup RspSizes /\ pos \in 0 .. SizeModulus - 1
    /\ out \in Seq(Symbols)

LoopInv ==
    pc = "loop" =>
        /\ Piece(out, Len(ancestors) + 1, {m \in members : m < next})
        /\ out # <<>> /\ out[Len(out)].k \in {"open", "comma"}
        /\ out[Len(out)].k = "comma" \/ (ancestors = <<>> /\ \A m \in members : next <= m)

DoneInv == pc = "done" /\ members # {} => Piece(out, 0, members)
IdleInv == pc = "idle" => next = 1 /\ ancestors = <<>> /\ out = <<>>

(* Every map that is open has taken a byte, and the check at the end of    *)
(* the round before has left one for the brace that closes it.             *)
RoomInv ==
    /\ pc = "loop" =>
          /\ size \in RspSizes /\ Len(ancestors) + 1 <= pos /\ pos <= size
          /\ next = 1 => ancestors = <<>>
          /\ next # 1 => pos + Len(ancestors) + 1 < size
    /\ pc = "done" /\ objects # <<>> => pos < size

ReportInv == ReportType /\ IdleInv /\ LoopInv /\ DoneInv /\ RoomInv

(***************************************************************************)
(* The arithmetic of size_t: it agrees with that of the numbers as long as *)
(* the report is inside of its buffer, and an error that is added to the   *)
(* position leads far behind the buffer.                                   *)
(***************************************************************************)
LEMMA SmallModulo == ASSUME NEW m \in Nat \ {0}, NEW x \in Nat, x < m PROVE x % m = x
  OBVIOUS

LEMMA NegativeModulo ==
    ASSUME NEW m \in Nat \ {0}, NEW e \in 1 .. m - 1
    PROVE  (0 - e) % m = m - e
  OBVIOUS

LEMMA SizeType ==
    ASSUME NEW s \in RspSizes
    PROVE  s \in Nat \ {0} /\ s < SizeModulus /\ SizeModulus \in Nat \ {0}
  BY RoomAssumption

LEMMA LimitIs ==
    ASSUME size \in RspSizes, NEW depth \in Nat, depth < size
    PROVE  Limit(depth) = size - 1 - depth
  <1>1. size \in Nat \ {0} /\ size < SizeModulus /\ SizeModulus \in Nat \ {0}
    BY SizeType
  <1>2. size - 1 - depth \in Nat /\ size - 1 - depth < SizeModulus
    BY <1>1
  <1> QED
    BY <1>1, <1>2, SmallModulo DEF Limit

LEMMA RoundEnds ==
    ASSUME size \in RspSizes, NEW depth \in Nat, NEW p \in Nat,
           depth + 1 <= p, p <= size, EndRound(p, depth)
    PROVE  /\ pos' = p /\ next' = next + 1
           /\ pc' = IF p + depth + 1 < size THEN "loop" ELSE "error"
           /\ p \in 0 .. SizeModulus - 1
  <1>1. size \in Nat \ {0} /\ size < SizeModulus /\ SizeModulus \in Nat \ {0}
    BY SizeType
  <1>2. Limit(depth) = size - 1 - depth
    BY <1>1, LimitIs
  <1>3. p - 1 \in Nat /\ p - 1 < SizeModulus /\ p - 1 < size
    BY <1>1
  <1>4. (p - 1) % SizeModulus = p - 1
    BY <1>1, <1>3, SmallModulo
  <1>5. Failed(p) = "error"
    BY <1>3, <1>4 DEF Failed
  <1>6. p < size - 1 - depth <=> p + depth + 1 < size
    BY <1>1
  <1> QED
    BY <1>1, <1>2, <1>5, <1>6 DEF EndRound

LEMMA BeginsInside ==
    ASSUME DbInv, ReportInv, NEW w, AtMember(w)
    PROVE  /\ MapsOf(next) \in Seq(DOMAIN objects) /\ Len(MapsOf(next)) \in Nat
           /\ Len(MapsOf(next)) <= AncestorsSize
           /\ Begin(next, w) \in Nat /\ Len(MapsOf(next)) + 1 <= Begin(next, w)
           /\ size \in RspSizes /\ next \in Nat \ {0} /\ next \in DOMAIN objects
  <1> DEFINE left == Remaining(next)
             opened == Opened(next)
             D == DOMAIN objects
  <1>1. /\ next \in D /\ next \in Nat \ {0} /\ ancestors \in Seq(D)
        /\ size \in RspSizes /\ pos \in Nat /\ Len(ancestors) + 1 <= pos
    BY DEF AtMember, ReportInv, ReportType, RoomInv, DbInv, DbType
  <1>2. /\ left \in Seq(D) /\ opened \in Seq(D)
        /\ left = ancestors \/ Len(left) = Len(ancestors) - 1
    BY <1>1, MapsType
  <1>3. Begin(next, w) = pos + (IF left = ancestors THEN 0 ELSE 1) + w
    BY DEF Begin
  <1>4. w \in Nat /\ w >= Len(opened)
    <2>1. w \in NameLengths(next)
      BY DEF AtMember
    <2>2. CASE opened = <<>>
      BY <2>1, <2>2 DEF NameLengths
    <2>3. CASE opened # <<>>
      BY <2>1, <2>3, RoomAssumption DEF NameLengths
    <2> QED
      BY <2>2, <2>3
  <1>5. MapsOf(next) = left \o opened /\ Len(MapsOf(next)) <= AncestorsSize
    BY DEF MapsOf, AtMember
  <1> HIDE DEF left, opened, D
  <1>6. /\ MapsOf(next) \in Seq(D) /\ Len(MapsOf(next)) = Len(left) + Len(opened)
        /\ Len(left) \in Nat /\ Len(opened) \in Nat
    BY <1>2, <1>5
  <1>7. Len(left) + 1 <= pos + (IF left = ancestors THEN 0 ELSE 1)
    BY <1>1, <1>2, <1>6
  <1> QED
    BY <1>1, <1>3, <1>4, <1>5, <1>6, <1>7 DEF D

LEMMA SerializeHasRoom ==
    ASSUME DbInv, ReportInv, NEW w, NEW n \in Lengths, Serialize(w, n)
    PROVE  /\ RoomInv' /\ pc' \in {"loop", "error"} /\ next' = next + 1
           /\ size' = size /\ pos' \in 0 .. SizeModulus - 1 /\ Len(ancestors') <= AncestorsSize
  <1> DEFINE depth == Len(MapsOf(next))
             p == Begin(next, w) + n
  <1>1. /\ AtMember(w) /\ p < size /\ EndRound(p, depth)
        /\ size' = size /\ ancestors' = MapsOf(next)
    BY DEF Serialize
  <1>2. /\ depth \in Nat /\ depth <= AncestorsSize /\ size \in RspSizes
        /\ Begin(next, w) \in Nat /\ depth + 1 <= Begin(next, w) /\ next \in Nat \ {0}
    BY <1>1, BeginsInside
  <1>3. n \in Nat /\ size \in Nat
    BY <1>2, RoomAssumption, SizeType
  <1>4. p \in Nat /\ depth + 1 <= p /\ p <= size
    BY <1>1, <1>2, <1>3
  <1> HIDE DEF p
  <1>5. /\ pos' = p /\ next' = next + 1
        /\ pc' = IF p + depth + 1 < size THEN "loop" ELSE "error"
        /\ p \in 0 .. SizeModulus - 1
    BY <1>1, <1>2, <1>4, RoundEnds
  <1>6. next' # 1
    BY <1>2, <1>5
  <1>7. Len(ancestors') = depth
    BY <1>1
  <1> HIDE DEF depth
  <1> QED
    BY <1>1, <1>2, <1>4, <1>5, <1>6, <1>7 DEF RoomInv

LEMMA RefusedOutside ==
    ASSUME DbInv, ReportInv, NEW w, NEW n \in Lengths, NEW e \in ErrorCodes, Refuse(w, n, e)
    PROVE  /\ pc' = "outside" /\ next' = next + 1 /\ next' \in 1 .. Len(objects) + 1
           /\ size' = size /\ pos' \in 0 .. SizeModulus - 1
           /\ ancestors' \in Seq(DOMAIN objects) /\ Len(ancestors') <= AncestorsSize
  <1> DEFINE depth == Len(MapsOf(next))
             p == SizeModulus - e
  <1>1. /\ AtMember(w) /\ Begin(next, w) <= size /\ EndRound(Refused(e), depth)
        /\ size' = size /\ ancestors' = MapsOf(next)
    BY DEF Refuse
  <1>2. /\ depth \in Nat /\ depth <= AncestorsSize /\ size \in RspSizes
        /\ Begin(next, w) \in Nat /\ depth + 1 <= Begin(next, w)
        /\ MapsOf(next) \in Seq(DOMAIN objects) /\ next \in DOMAIN objects
    BY <1>1, BeginsInside
  <1>3. /\ size \in Nat \ {0} /\ SizeModulus \in Nat \ {0}
        /\ e \in Nat \ {0} /\ size + e < SizeModulus
    BY <1>2, SizeType, RoomAssumption
  <1>4. Refused(e) = p /\ p \in 0 .. SizeModulus - 1
    <2>1. e \in 1 .. SizeModulus - 1
      BY <1>3
    <2>2. (0 - e) % SizeModulus = SizeModulus - e
      BY <1>3, <2>1, NegativeModulo, Zenon
    <2>3. SizeModulus - e \in 0 .. SizeModulus - 1
      BY <1>3, <2>1
    <2> QED
      BY <2>2, <2>3, Zenon DEF Refused
  <1>5. depth < size
    BY <1>1, <1>2, <1>3
  <1>6. Limit(depth) = size - 1 - depth
    BY <1>2, <1>5, LimitIs
  <1>7. ~(p < Limit(depth))
    BY <1>2, <1>3, <1>6
  <1>8. (p - 1) % SizeModulus = p - 1
    <2>1. p - 1 \in Nat /\ p - 1 < SizeModulus
      BY <1>3
    <2> QED
      BY <1>3, <2>1, SmallModulo
  <1>9. Failed(p) = "outside"
    <2>1. ~(p - 1 < size)
      BY <1>3
    <2> QED
      BY <1>8, <2>1 DEF Failed
  <1>10. next + 1 \in 1 .. Len(objects) + 1
    BY <1>2 DEF DbInv, DbType
  <1> HIDE DEF p, depth
  <1> QED
    BY <1>1, <1>2, <1>4, <1>7, <1>9, <1>10 DEF EndRound, depth

LEMMA SymbolsTyped ==
    ASSUME DbInv
    PROVE  /\ Close \in Symbols /\ Comma \in Symbols /\ Open(NoName) \in Symbols
           /\ \A o \in DOMAIN objects : Value(o) \in Symbols /\ Open(objects[o].name) \in Symbols
  <1>1. Close \in Symbols /\ Comma \in Symbols /\ Open(NoName) \in Symbols
    BY DEF Close, Comma, Open, Symbols
  <1>2. ASSUME NEW o \in DOMAIN objects PROVE Value(o) \in Symbols
    BY <1>2 DEF Value, Symbols
  <1>3. ASSUME NEW o \in DOMAIN objects PROVE Open(objects[o].name) \in Symbols
    <2>1. objects[o] \in ObjectSet
      BY DEF DbInv, DbType
    <2>2. objects[o].name \in STRING
      BY <2>1 DEF ObjectSet
    <2> QED
      BY <2>2 DEF Open, Symbols
  <1> QED
    BY <1>1, <1>2, <1>3

(* An object is added symbol by symbol: base is the response with a map    *)
(* closed, mid the one with the maps opened.                               *)
LEMMA SerializeParts ==
    ASSUME DbInv, ReportInv, NEW w, NEW n, Serialize(w, n)
    PROVE  \E base, mid \in Seq(Symbols) :
              /\ \/ base = out /\ Remaining(next) = ancestors
                 \/ /\ ancestors # <<>> /\ Len(Remaining(next)) = Len(ancestors) - 1
                    /\ base = Append(Append(Front(out), Close), Comma)
              /\ \/ Opened(next) = <<>> /\ mid = base
                 \/ \E a \in DOMAIN objects :
                       /\ Opened(next) = <<a>>
                       /\ mid = Append(base, Open(objects[a].name))
                 \/ \E a, b \in DOMAIN objects :
                       /\ Opened(next) = <<a, b>>
                       /\ mid = Append(Append(base, Open(objects[a].name)),
                                       Open(objects[b].name))
              /\ out' = Append(Append(mid, Value(next)), Comma)
  <1> DEFINE base == IF Remaining(next) = ancestors THEN out ELSE CloseMap
             opened == Opened(next)
             heads == [j \in DOMAIN opened |-> Open(objects[opened[j]].name)]
             mid == base \o heads
  <1>1. /\ next \in DOMAIN objects /\ ancestors \in Seq(DOMAIN objects)
        /\ out \in Seq(Symbols) /\ out # <<>>
    BY DEF Serialize, AtMember, ReportInv, ReportType, LoopInv, DbInv, DbType
  <1>2. /\ Close \in Symbols /\ Comma \in Symbols
        /\ \A o \in DOMAIN objects : Value(o) \in Symbols /\ Open(objects[o].name) \in Symbols
    BY SymbolsTyped
  <1>3. Front(out) \in Seq(Symbols)
    BY <1>1, FrontOf
  <1>4. CloseMap = Append(Append(Front(out), Close), Comma) /\ CloseMap \in Seq(Symbols)
    BY <1>2, <1>3, AppendTwo, AppendOf DEF CloseMap
  <1>5. /\ opened \in Seq(DOMAIN objects)
        /\ \/ Remaining(next) = ancestors
           \/ ancestors # <<>> /\ Len(Remaining(next)) = Len(ancestors) - 1
    BY <1>1, MapsType
  <1>6. base \in Seq(Symbols)
    BY <1>1, <1>4
  <1>7. \/ base = out /\ Remaining(next) = ancestors
        \/ /\ ancestors # <<>> /\ Len(Remaining(next)) = Len(ancestors) - 1
           /\ base = Append(Append(Front(out), Close), Comma)
    BY <1>4, <1>5
  <1>8. opened = <<>> \/ (\E a : opened = <<a>>) \/ \E a, b : opened = <<a, b>>
    BY DEF Opened
  <1>9. out' = mid \o <<Value(next), Comma>>
    BY DEF Serialize
  <1> HIDE DEF base, opened
  <1>10. /\ mid \in Seq(Symbols)
         /\ \/ opened = <<>> /\ mid = base
            \/ \E a \in DOMAIN objects :
                  opened = <<a>> /\ mid = Append(base, Open(objects[a].name))
            \/ \E a, b \in DOMAIN objects :
                  /\ opened = <<a, b>>
                  /\ mid = Append(Append(base, Open(objects[a].name)), Open(objects[b].name))
    <2>1. CASE opened = <<>>
      <3>1. heads = <<>>
        BY <2>1
      <3>2. mid = base
        BY <1>6, <3>1
      <3> QED
        BY <1>6, <2>1, <3>2
    <2>2. ASSUME NEW a, opened = <<a>>
          PROVE  a \in DOMAIN objects /\ mid \in Seq(Symbols)
                 /\ mid = Append(base, Open(objects[a].name))
      <3>1. a \in DOMAIN objects /\ DOMAIN opened = 1 .. 1 /\ opened[1] = a
        BY <1>5, <2>2
      <3>2. heads = <<Open(objects[a].name)>>
        BY <3>1
      <3>3. mid = base \o <<Open(objects[a].name)>>
        BY <3>2
      <3>4. \A x \in Symbols : base \o <<x>> = Append(base, x) /\ Append(base, x) \in Seq(Symbols)
        BY <1>6
      <3> QED
        BY <1>2, <3>1, <3>3, <3>4
    <2>3. ASSUME NEW a, NEW b, opened = <<a, b>>
          PROVE  a \in DOMAIN objects /\ b \in DOMAIN objects /\ mid \in Seq(Symbols)
                 /\ mid = Append(Append(base, Open(objects[a].name)), Open(objects[b].name))
      <3>1. /\ a \in DOMAIN objects /\ b \in DOMAIN objects
            /\ DOMAIN opened = 1 .. 2 /\ opened[1] = a /\ opened[2] = b
        BY <1>5, <2>3
      <3>2. heads = <<Open(objects[a].name), Open(objects[b].name)>>
        BY <3>1
      <3>3. mid = base \o <<Open(objects[a].name), Open(objects[b].name)>>
        BY <3>2
      <3> HIDE DEF mid
      <3>4. Open(objects[a].name) \in Symbols /\ Open(objects[b].name) \in Symbols
        BY <1>2, <3>1
      <3>5. Append(Append(base, Open(objects[a].name)), Open(objects[b].name)) \in Seq(Symbols)
        BY <1>6, <3>4, AppendOf
      <3> QED
        BY <1>6, <3>1, <3>3, <3>4, <3>5, AppendTwo
    <2> HIDE DEF mid
    <2> QED
      BY <1>8, <2>1, <2>2, <2>3
  <1> HIDE DEF mid
  <1>11. out' = Append(Append(mid, Value(next)), Comma)
    BY <1>1, <1>2, <1>9, <1>10, AppendTwo
  <1> QED
    BY <1>6, <1>7, <1>10, <1>11 DEF opened

LEMMA SerializeKeepsReport ==
    ASSUME DbInv, ReportInv, NEW w, NEW n \in Lengths, Serialize(w, n)
    PROVE  ReportInv'
  <1> DEFINE before == {m \in members : m < next}
             D == DOMAIN objects
  <1>1. PICK base \in Seq(Symbols), mid \in Seq(Symbols) :
              /\ \/ base = out /\ Remaining(next) = ancestors
                 \/ /\ ancestors # <<>> /\ Len(Remaining(next)) = Len(ancestors) - 1
                    /\ base = Append(Append(Front(out), Close), Comma)
              /\ \/ Opened(next) = <<>> /\ mid = base
                 \/ \E a \in D :
                       /\ Opened(next) = <<a>>
                       /\ mid = Append(base, Open(objects[a].name))
                 \/ \E a, b \in D :
                       /\ Opened(next) = <<a, b>>
                       /\ mid = Append(Append(base, Open(objects[a].name)),
                                       Open(objects[b].name))
              /\ out' = Append(Append(mid, Value(next)), Comma)
    BY SerializeParts
  <1>2. /\ next \in D /\ next \in members /\ next \in Nat /\ members \subseteq Nat
        /\ ancestors \in Seq(D) /\ out \in Seq(Symbols) /\ Len(ancestors) \in Nat
        /\ pc = "loop" /\ Len(objects) \in Nat /\ next <= Len(objects)
    BY SMTT(30) DEF Serialize, AtMember, ReportInv, ReportType, DbInv, DbType
  <1>3. /\ Close \in Symbols /\ Comma \in Symbols
        /\ \A o \in D : Value(o) \in Symbols /\ Open(objects[o].name) \in Symbols
    BY SymbolsTyped
  <1>4. /\ Piece(out, Len(ancestors) + 1, before)
        /\ out # <<>> /\ out[Len(out)].k \in {"open", "comma"}
        /\ ancestors # <<>> => out[Len(out)].k = "comma"
    BY <1>2 DEF ReportInv, LoopInv
  <1>5. Remaining(next) \in Seq(D) /\ Len(Remaining(next)) \in Nat /\ Opened(next) \in Seq(D)
    BY <1>2, MapsType
  <1> HIDE DEF before, D
  <1>6. /\ Piece(base, Len(Remaining(next)) + 1, before)
        /\ base[Len(base)].k \in {"open", "comma"}
    <2>1. CASE base = out /\ Remaining(next) = ancestors
      BY <1>4, <2>1
    <2>2. CASE /\ ancestors # <<>> /\ Len(Remaining(next)) = Len(ancestors) - 1
               /\ base = Append(Append(Front(out), Close), Comma)
      <3> DEFINE s == Front(out)
                 d == Len(ancestors)
      <3>1. s \in Seq(Symbols)
        BY <1>2, <1>4, FrontOf
      <3>2. Piece(s, d + 1, before)
        <4>1. d + 1 \in Int
          BY <1>2
        <4> QED
          BY <1>2, <1>4, <2>2, <4>1, PieceShrinks
      <3>3. d \in Nat /\ d = Len(Remaining(next)) + 1
        BY <1>2, <1>5, <2>2
      <3> HIDE DEF s, d
      <3>4. Append(s, Close) \in Seq(Symbols) /\ Piece(Append(s, Close), d, before)
        BY <1>3, <3>1, <3>2, <3>3, AppendOf, PieceCloses
      <3>5. Piece(base, d, before)
        BY <1>3, <2>2, <3>3, <3>4, PieceComma DEF s
      <3>6. base[Len(base)] = Comma
        BY <1>3, <2>2, <3>4, AppendOf DEF s
      <3> QED
        BY <3>3, <3>5, <3>6 DEF Comma
    <2> QED
      BY <1>1, <2>1, <2>2
  <1>7. /\ Piece(mid, Len(Remaining(next)) + 1 + Len(Opened(next)), before)
        /\ mid[Len(mid)].k \in {"open", "comma"}
    <2> DEFINE d == Len(Remaining(next)) + 1
    <2>0. d \in Nat /\ d + 1 \in Nat
      BY <1>5
    <2> HIDE DEF d
    <2>1. CASE Opened(next) = <<>> /\ mid = base
      <3>1. d + Len(Opened(next)) = d
        BY <2>0, <2>1
      <3> QED
        BY <1>6, <2>1, <3>1 DEF d
    <2>2. ASSUME NEW a \in D, Opened(next) = <<a>>, mid = Append(base, Open(objects[a].name))
          PROVE  Piece(mid, d + Len(Opened(next)), before) /\ mid[Len(mid)].k = "open"
      <3>1. Len(Opened(next)) = 1
        BY <2>2
      <3>2. Piece(mid, d + 1, before)
        BY <1>3, <1>6, <2>0, <2>2, PieceOpens DEF d
      <3>3. mid[Len(mid)] = Open(objects[a].name)
        BY <1>3, <2>2, AppendOf
      <3> QED
        BY <3>1, <3>2, <3>3 DEF Open
    <2>3. ASSUME NEW a \in D, NEW b \in D, Opened(next) = <<a, b>>,
                 mid = Append(Append(base, Open(objects[a].name)), Open(objects[b].name))
          PROVE  Piece(mid, d + Len(Opened(next)), before) /\ mid[Len(mid)].k = "open"
      <3> DEFINE first == Append(base, Open(objects[a].name))
      <3>1. d + Len(Opened(next)) = d + 1 + 1
        BY <2>0, <2>3
      <3>2. Piece(first, d + 1, before)
        BY <1>3, <1>6, <2>0, PieceOpens DEF d
      <3>3. first \in Seq(Symbols) /\ first[Len(first)] = Open(objects[a].name)
        BY <1>3, AppendOf
      <3>4. first[Len(first)].k = "open"
        BY <3>3 DEF Open
      <3> HIDE DEF first
      <3>5. Piece(mid, d + 1 + 1, before)
        BY <1>3, <2>0, <2>3, <3>2, <3>3, <3>4, PieceOpens DEF first
      <3>6. mid[Len(mid)] = Open(objects[b].name)
        BY <1>3, <2>3, <3>3, AppendOf DEF first
      <3>7. mid[Len(mid)].k = "open"
        BY <3>6 DEF Open
      <3> QED
        BY <3>1, <3>5, <3>7
    <2> QED
      BY <1>1, <2>1, <2>2, <2>3 DEF d
  <1> DEFINE e == Len(Remaining(next)) + 1 + Len(Opened(next))
             after == before \cup {next}
             s == Append(mid, Value(next))
  <1>8. e \in Nat
    BY <1>5
  <1>9. \A m \in before : m < next
    BY DEF before
  <1> HIDE DEF e
  <1>10. s \in Seq(Symbols) /\ Piece(s, e, after)
    BY <1>2, <1>3, <1>7, <1>8, <1>9, AppendOf, PieceItem DEF e
  <1> HIDE DEF s
  <1>11. /\ out' \in Seq(Symbols) /\ Piece(out', e, after) /\ Len(out') \in Nat \ {0}
         /\ out'[Len(out')] = Comma
    <2>1. out' = Append(s, Comma)
      BY <1>1 DEF s
    <2> QED
      BY <1>3, <1>8, <1>10, <2>1, AppendOf, PieceComma
  <1>12. /\ UNCHANGED <<objects, members>> /\ next' = next + 1
         /\ ancestors' = Remaining(next) \o Opened(next)
    BY DEF Serialize, EndRound, MapsOf, dbVars, tables, iteration
  <1>18. /\ RoomInv' /\ pc' \in {"loop", "error"}
         /\ size' = size /\ pos' \in 0 .. SizeModulus - 1 /\ Len(ancestors') <= AncestorsSize
    BY SerializeHasRoom
  <1>13. ancestors' \in Seq(D) /\ Len(ancestors') + 1 = e
    BY <1>5, <1>12 DEF e
  <1>14. {m \in members' : m < next'} = after
    <2>1. members' = members
      BY <1>12
    <2>2. \A m \in members : m < next + 1 <=> m < next \/ m = next
      BY <1>2
    <2>3. {m \in members : m < next + 1} = before \cup {next}
      BY <1>2, <2>2 DEF before
    <2> QED
      BY <1>12, <2>1, <2>3
  <1>15. Symbols' = Symbols
    BY <1>12 DEF Symbols
  <1>16. ReportType'
    BY <1>2, <1>11, <1>12, <1>13, <1>15, <1>18 DEF ReportInv, ReportType, D
  <1>17. LoopInv'
    <2>1. out' # <<>> /\ out'[Len(out')].k = "comma"
      BY <1>11 DEF Comma
    <2> QED
      BY <1>11, <1>13, <1>14, <2>1 DEF LoopInv
  <1> QED
    BY <1>2, <1>12, <1>16, <1>17, <1>18 DEF ReportInv, IdleInv, DoneInv

LEMMA ClosesTogether ==
    ASSUME NEW S, NEW s \in Seq(S), Close \in S, NEW n \in Nat, NEW M, Piece(s, n, M)
    PROVE  Piece(s \o [j \in 1 .. n |-> Close], 0, M)
  <1> DEFINE closed(k) == s \o [j \in 1 .. k |-> Close]
             P == {k \in Nat : k <= n => closed(k) \in Seq(S) /\ Piece(closed(k), n - k, M)}
  <1>1. 0 \in P
    <2>1. closed(0) = s /\ n - 0 = n
      OBVIOUS
    <2> HIDE DEF closed
    <2> QED
      BY <2>1
  <1>2. ASSUME NEW k \in Nat, k \in P PROVE k + 1 \in P
    <2> SUFFICES ASSUME k + 1 <= n
                 PROVE  closed(k + 1) \in Seq(S) /\ Piece(closed(k + 1), n - (k + 1), M)
      OBVIOUS
    <2>1. closed(k + 1) = Append(closed(k), Close)
      OBVIOUS
    <2>2. closed(k) \in Seq(S) /\ Piece(closed(k), n - k, M)
      BY <1>2
    <2> HIDE DEF closed
    <2> DEFINE d == n - (k + 1)
    <2>3. d \in Nat /\ n - k = d + 1
      OBVIOUS
    <2> HIDE DEF d
    <2>4. Append(closed(k), Close) \in Seq(S)
      BY <2>2, AppendOf
    <2>5. Piece(closed(k), d + 1, M)
      BY <2>2, <2>3
    <2>6. Piece(Append(closed(k), Close), d, M)
      BY <2>2, <2>3, <2>5, PieceCloses
    <2> QED
      BY <2>1, <2>4, <2>6 DEF d
  <1> HIDE DEF closed
  <1>3. \A k \in Nat : k \in P
    <2> HIDE DEF P
    <2> QED
      BY <1>1, <1>2, NaturalInduction
  <1>4. closed(n) \in Seq(S) /\ Piece(closed(n), 0, M)
    <2>1. n \in P
      BY <1>3
    <2>2. closed(n) \in Seq(S) /\ Piece(closed(n), n - n, M)
      BY <2>1
    <2>3. n - n = 0
      OBVIOUS
    <2> QED
      BY <2>2, <2>3
  <1> QED
    BY <1>4 DEF closed

LEMMA CloseAllKeepsReport == ASSUME DbInv, ReportInv, CloseAll PROVE ReportInv'
  <1> DEFINE n == Len(ancestors) + 1
             s == Front(out)
             before == {m \in members : m < next}
  <1>1. /\ pc = "loop" /\ out \in Seq(Symbols) /\ out # <<>> /\ n \in Nat
        /\ Piece(out, n, before)
        /\ members \subseteq 1 .. Len(objects) /\ next > Len(objects) /\ Len(objects) \in Nat
        /\ next \in 1 .. Len(objects) + 1
        /\ out[Len(out)].k = "comma" \/ \A m \in members : next <= m
    BY DEF CloseAll, ReportInv, ReportType, LoopInv, DbInv, DbType
  <1>2. Close \in Symbols
    BY SymbolsTyped
  <1>3. s \in Seq(Symbols)
    BY <1>1, FrontOf
  <1>4. \A m \in members : m < next
    <2>1. \A m \in members : m \in Nat /\ m <= Len(objects)
      BY <1>1
    <2> QED
      BY <1>1, <2>1
  <1>5. before = members
    BY <1>4
  <1>6. /\ UNCHANGED <<objects, members, ancestors, next, size>> /\ pc' = "done"
        /\ pos' = pos + Len(ancestors)
        /\ out' = s \o [j \in 1 .. n |-> Close]
    BY DEF CloseAll, dbVars, tables, iteration
  <1>11. pos' \in 0 .. SizeModulus - 1 /\ (objects # <<>> => pos' < size)
    <2>1. /\ size \in Nat /\ pos \in Nat /\ pos <= size /\ size < SizeModulus
          /\ SizeModulus \in Nat /\ Len(ancestors) \in Nat
      BY <1>1, SizeType DEF ReportInv, ReportType, RoomInv
    <2>2. CASE next = 1
      <3>1. ancestors = <<>> /\ Len(objects) = 0
        BY <1>1, <2>2 DEF ReportInv, RoomInv
      <3>2. objects = <<>> /\ Len(ancestors) = 0
        BY <3>1 DEF DbInv, DbType
      <3> QED
        BY <1>6, <2>1, <3>2
    <2>3. CASE next # 1
      <3>1. pos + Len(ancestors) + 1 < size
        BY <1>1, <2>3 DEF ReportInv, RoomInv
      <3> QED
        BY <1>6, <2>1, <3>1
    <2> QED
      BY <2>2, <2>3
  <1> HIDE DEF n, s, before
  <1>7. members # {} => out[Len(out)].k = "comma"
    <2>1. \A m \in members : ~(next <= m)
      <3>1. \A m \in members : m \in Nat
        BY <1>1
      <3> QED
        BY <1>1, <1>4, <3>1
    <2> QED
      BY <1>1, <2>1
  <1>8. members # {} => Piece(out', 0, members)
    <2> SUFFICES ASSUME members # {} PROVE Piece(out', 0, members)
      OBVIOUS
    <2>1. n \in Int
      BY <1>1
    <2>2. Piece(s, n, members)
      BY <1>1, <1>5, <1>7, <2>1, PieceShrinks DEF s
    <2> QED
      BY <1>1, <1>2, <1>3, <1>6, <2>2, ClosesTogether
  <1>9. out' \in Seq(Symbols)
    <2> DEFINE closes == [j \in 1 .. n |-> Close]
    <2>1. closes \in Seq(Symbols)
      <3>1. closes \in [1 .. n -> Symbols]
        BY <1>2
      <3> HIDE DEF closes
      <3> QED
        BY <1>1, <3>1, FunctionIsSeq
    <2>2. out' = Cat(s, closes)
      BY <1>6 DEF Cat
    <2> HIDE DEF closes
    <2> QED
      BY <1>3, <2>1, <2>2, CatType
  <1>10. Symbols' = Symbols /\ ReportType'
    <2>1. Symbols' = Symbols
      BY <1>6 DEF Symbols
    <2> QED
      BY <1>6, <1>9, <1>11, <2>1 DEF ReportInv, ReportType
  <1> QED
    BY <1>6, <1>8, <1>10, <1>11 DEF ReportInv, LoopInv, DoneInv, IdleInv, RoomInv

LEMMA ReportStep == DbInv /\ ReportInv /\ [Next]_vars => ReportInv'
  <1> SUFFICES ASSUME DbInv, ReportInv, [Next]_vars PROVE ReportInv'
    OBVIOUS
  <1>1. ASSUME NEW w, NEW n \in Lengths, Serialize(w, n) PROVE ReportInv'
    BY <1>1, SerializeKeepsReport
  <1>2. CASE CloseAll
    BY <1>2, CloseAllKeepsReport
  <1>3. ASSUME NEW s \in RspSizes, NEW h \in HeaderLengths, Start(s, h) PROVE ReportInv'
    <2>1. /\ pc = "idle" /\ pc' = "loop" /\ out' = <<Open(NoName)>>
          /\ UNCHANGED <<objects, members, next, ancestors>>
          /\ size' = s /\ pos' = h + 1 /\ h < s
      BY <1>3 DEF Start, dbVars, tables, iteration
    <2>2. next = 1 /\ ancestors = <<>> /\ ancestors \in Seq(DOMAIN objects)
      BY <2>1 DEF ReportInv, IdleInv, ReportType
    <2>3. members \subseteq Nat \ {0}
      BY DEF DbInv, DbType
    <2>4. Open(NoName) \in Symbols
      BY SymbolsTyped
    <2>5. Piece(<<>>, 0, {})
      <3>1. Len(<<>>) = 0
        OBVIOUS
      <3> QED
        BY <3>1, DepthSteps DEF Piece
    <2>6. out' = Append(<<>>, Open(NoName)) /\ <<>> \in Seq(Symbols)
      BY <2>1
    <2>7. Piece(out', 0 + 1, {})
      BY <2>4, <2>5, <2>6, PieceOpens
    <2>8. Len(ancestors') + 1 = 0 + 1 /\ {m \in members' : m < next'} = {}
      <3>1. Len(ancestors') = 0
        BY <2>1, <2>2
      <3>2. next' = 1 /\ members' = members
        BY <2>1, <2>2
      <3>3. \A m \in members : ~(m < 1)
        BY <2>3
      <3> QED
        BY <3>1, <3>2, <3>3
    <2>9. out' # <<>> /\ out'[Len(out')] = Open(NoName)
      BY <2>1
    <2>10. \A m \in members' : next' <= m
      BY <2>1, <2>2, <2>3
    <2>11. LoopInv'
      BY <2>1, <2>2, <2>7, <2>8, <2>9, <2>10 DEF LoopInv, Open
    <2>12. out' \in Seq(Symbols)
      BY <2>4, <2>6, AppendOf
    <2>14. /\ h \in Nat /\ s \in Nat \ {0} /\ s < SizeModulus /\ SizeModulus \in Nat
           /\ Len(ancestors) = 0
      BY <2>2, SizeType, RoomAssumption
    <2>15. pos' \in 0 .. SizeModulus - 1 /\ RoomInv'
      BY <2>1, <2>2, <2>14 DEF RoomInv
    <2>13. ReportType'
      BY <2>1, <2>12, <2>15 DEF ReportInv, ReportType, Symbols
    <2> QED
      BY <2>1, <2>11, <2>13, <2>15 DEF ReportInv, DoneInv, IdleInv
  <1>4. CASE Skip
    <2>1. /\ pc = "loop" /\ next <= Len(objects) /\ next \notin members
          /\ EndRound(pos, Len(ancestors))
          /\ UNCHANGED <<objects, members, ancestors, out, size>>
      BY <1>4 DEF Skip, dbVars, tables, iteration
    <2>2. /\ next \in Nat \ {0} /\ members \subseteq Nat /\ Len(objects) \in Nat
          /\ next \in 1 .. Len(objects) + 1 /\ pos \in Nat /\ Len(ancestors) \in Nat
          /\ size \in RspSizes /\ Len(ancestors) + 1 <= pos /\ pos <= size
      BY <2>1 DEF ReportInv, ReportType, RoomInv, DbInv, DbType
    <2>8. /\ pos' = pos /\ next' = next + 1 /\ pos \in 0 .. SizeModulus - 1
          /\ pc' = IF pos + Len(ancestors) + 1 < size THEN "loop" ELSE "error"
      BY <2>1, <2>2, RoundEnds
    <2>3. \A m \in members : (m < next + 1 <=> m < next) /\ (next <= m => next + 1 <= m)
      BY <2>1, <2>2
    <2>4. {m \in members' : m < next'} = {m \in members : m < next}
      BY <2>1, <2>3, <2>8
    <2>5. (\A m \in members : next <= m) => \A m \in members' : next' <= m
      BY <2>1, <2>3, <2>8
    <2>6. LoopInv'
      BY <2>1, <2>4, <2>5 DEF ReportInv, LoopInv
    <2>7. ReportType'
      BY <2>1, <2>2, <2>8 DEF ReportInv, ReportType, Symbols
    <2>9. RoomInv'
      <3>1. next' # 1
        BY <2>2, <2>8
      <3> QED
        BY <2>1, <2>2, <2>8, <3>1 DEF RoomInv
    <2> QED
      BY <2>6, <2>7, <2>8, <2>9 DEF ReportInv, DoneInv, IdleInv
  <1>5. ASSUME NEW w, NEW n \in Lengths, NEW e \in ErrorCodes, Refuse(w, n, e) PROVE ReportInv'
    <2>1. UNCHANGED <<objects, members, out>>
      BY <1>5 DEF Refuse, dbVars, tables, iteration
    <2>2. /\ pc' = "outside" /\ next' \in 1 .. Len(objects) + 1
          /\ size' = size /\ pos' \in 0 .. SizeModulus - 1
          /\ ancestors' \in Seq(DOMAIN objects) /\ Len(ancestors') <= AncestorsSize
      BY <1>5, RefusedOutside
    <2> QED
      BY <2>1, <2>2 DEF ReportInv, ReportType, LoopInv, DoneInv, IdleInv, RoomInv, Symbols
  <1>8. ASSUME NEW w, Overflow \/ NameTooLong(w) PROVE ReportInv'
    <2>1. pc' \in {"overflow", "outside"} /\ UNCHANGED <<objects, next, ancestors, out, size, pos>>
      BY <1>8 DEF Overflow, NameTooLong, dbVars, tables, iteration
    <2> QED
      BY <2>1 DEF ReportInv, ReportType, LoopInv, DoneInv, IdleInv, RoomInv, Symbols
  <1>9. ASSUME NEW s \in RspSizes, NEW h \in HeaderLengths, HeaderTooLong(s, h) PROVE ReportInv'
    <2>1. /\ pc' \in {"error", "outside"} /\ size' = s /\ pos' = h
          /\ UNCHANGED <<objects, next, ancestors, out>>
      BY <1>9 DEF HeaderTooLong, dbVars, tables, iteration
    <2>2. h \in 0 .. SizeModulus - 1
      BY RoomAssumption
    <2> QED
      BY <2>1, <2>2 DEF ReportInv, ReportType, LoopInv, DoneInv, IdleInv, RoomInv, Symbols
  <1>6. CASE Database
    <2>1. pc = "idle" /\ UNCHANGED <<pc, next, ancestors, out, size, pos>>
      BY <1>6 DEF Database, reportVars
    <2>2. objects' = objects
      BY <1>6 DEF Database, DbNext, AppendObject, IterateSubsets, ChangeSubset, tables
    <2> QED
      BY <2>1, <2>2 DEF ReportInv, ReportType, LoopInv, DoneInv, IdleInv, RoomInv, Symbols
  <1>7. CASE UNCHANGED vars
    BY <1>7 DEF vars, dbVars, tables, reportVars, ReportInv, ReportType, LoopInv, DoneInv,
                IdleInv, RoomInv, Symbols
  <1> QED
    BY <1>1, <1>2, <1>3, <1>4, <1>5, <1>6, <1>7, <1>8, <1>9 DEF Next

LEMMA ReportInvariance == Spec => [](DbInv /\ ReportInv)
  <1>1. Init => ReportInv
    <2> SUFFICES ASSUME Init PROVE ReportInv
      OBVIOUS
    <2>1. objects \in Seq(ObjectSet) /\ Len(objects) \in Nat
      BY ConstantsAssumption DEF Init, DbInit
    <2>2. 0 \in 0 .. SizeModulus - 1
      BY RoomAssumption
    <2>3. ancestors = <<>> /\ Len(ancestors) <= AncestorsSize
      BY DEF Init, AncestorsSize
    <2> QED
      BY <2>1, <2>2, <2>3 DEF Init, ReportInv, ReportType, LoopInv, DoneInv, IdleInv, RoomInv
  <1> QED
    BY <1>1, ReportStep, DbInvariance, PTL DEF Spec

(* In every database, however deep its groups are nested: the tables, the  *)
(* iteration and the report are well typed, ancestors[2] holds the maps    *)
(* until a write behind its end, and the position is a size_t.             *)
THEOREM ReportTyped == Spec => []TypeOK
  <1> DEFINE Visits == visited \in Seq(DOMAIN objects) /\ changes \in 0 .. MaxChanges
  <1>1. Init => Visits
    BY ConstantsAssumption, SMTT(30) DEF Init, DbInit
  <1>2. DbInv /\ Visits /\ [Next]_vars => Visits'
    <2> SUFFICES ASSUME DbInv, Visits, [Next]_vars PROVE Visits'
      OBVIOUS
    <2>1. CASE IterateSubsets
      <3> DEFINE hits == {i \in members : i >= cursor}
      <3>1. members \subseteq DOMAIN objects /\ DOMAIN objects \subseteq Nat
        BY DEF DbInv, DbType
      <3>2. hits # {} => Min(hits) \in DOMAIN objects
        BY <3>1, MinOfNaturals
      <3>3. /\ visited' = IF hits = {} THEN visited ELSE Append(visited, Min(hits))
            /\ UNCHANGED <<objects, changes>>
        BY <2>1 DEF IterateSubsets, tables
      <3> HIDE DEF hits
      <3> QED
        BY <3>2, <3>3, AppendOf
    <2>2. CASE \E o \in DOMAIN objects : ChangeSubset(o)
      BY <2>2, ConstantsAssumption DEF ChangeSubset, tables
    <2>3. CASE UNCHANGED <<objects, visited, changes>>
      BY <2>3
    <2> QED
      BY <2>1, <2>2, <2>3 DEF Next, Database, DbNext, AppendObject, Start, HeaderTooLong, Skip,
         Overflow, NameTooLong, Serialize, Refuse, CloseAll, vars, dbVars, tables, iteration
  <1>3. DbInv /\ ReportInv /\ Visits => TypeOK
    <2> SUFFICES ASSUME DbInv, ReportInv, Visits PROVE TypeOK
      OBVIOUS
    <2>1. lookup \in [0 .. Buckets - 1 -> Seq(1 .. appended)]
      <3>1. lookup \in [0 .. Buckets - 1 -> Seq(1 .. Len(objects))]
        BY DEF DbInv, DbType
      <3>2. ASSUME NEW b \in 0 .. Buckets - 1 PROVE lookup[b] \in Seq(1 .. appended)
        <4>1. lookup[b] \in Seq(1 .. Len(objects))
          BY <3>1, <3>2
        <4>2. \A j \in 1 .. Len(lookup[b]) : lookup[b][j] \in 1 .. appended
          BY <3>2 DEF DbInv, BucketsHold
        <4> QED
          BY <4>1, <4>2, SeqNarrows
      <3> QED
        BY <3>1, <3>2
    <2> QED
      BY <2>1 DEF TypeOK, DbTypeOK, DbInv, DbType, ReportInv, ReportType
  <1> QED
    BY <1>1, <1>2, <1>3, ReportInvariance, PTL DEF Spec

LEMMA LevelIsDepth == ASSUME NEW j PROVE Level(j) = Depth(out, j)
  BY DEF Level, OpenedBefore, ClosedBefore, Depth, Count

(* Whatever the order of the objects and the tree of their parents, as     *)
(* long as no more than two maps are open at once and nothing is written   *)
(* outside of the buffer, a report of a subset that is not empty is JSON:  *)
(* every map that is closed has been opened, every comma that is           *)
(* overwritten is one, and in the end nothing is open.                     *)
THEOREM ReportWellFormed == Spec => []WellFormed
  <1>1. DbInv /\ ReportInv => WellFormed
    <2> SUFFICES ASSUME ReportInv, members # {}, pc \in {"loop", "done"}
                 PROVE  /\ \A j \in DOMAIN out : Level(j) >= 0
                        /\ Separated
                        /\ pc = "done" => Level(Len(out)) = 0
      BY DEF WellFormed
    <2>1. PICK d, M : Piece(out, d, M) /\ (pc = "done" => d = 0)
      BY DEF ReportInv, LoopInv, DoneInv
    <2>2. DOMAIN out = 1 .. Len(out)
      BY DEF ReportInv, ReportType
    <2> QED
      BY <2>1, <2>2, LevelIsDepth DEF Piece, Separated
  <1> QED
    BY <1>1, ReportInvariance, PTL

(* A report that succeeds, of a subset that is not empty, holds every      *)
(* object of it and no other, each once and in the order of the array: an  *)
(* object refused for its length or its type never leads back into the     *)
(* loop, although the error is only added to the position.                 *)
THEOREM MembersReported == Spec => []EveryMemberOnce
  <1>1. DbInv /\ ReportInv => EveryMemberOnce
    <2> SUFFICES ASSUME ReportInv, pc = "done", members # {}
                 PROVE  /\ {out[j].o : j \in Items} = members
                        /\ \A i, j \in Items : i < j => out[i].o < out[j].o
      BY DEF EveryMemberOnce
    <2>1. Piece(out, 0, members)
      BY DEF ReportInv, DoneInv
    <2>2. DOMAIN out = 1 .. Len(out)
      BY DEF ReportInv, ReportType
    <2>3. \A j : j \in Items <=> j \in 1 .. Len(out) /\ out[j].k = "item"
      BY <2>2 DEF Items
    <2>4. \A o : o \in members <=> \E j \in Items : out[j].o = o
      BY <2>1, <2>3 DEF Piece
    <2> QED
      BY <2>1, <2>3, <2>4, SMTT(30) DEF Piece
  <1> QED
    BY <1>1, ReportInvariance, PTL

(* For all lengths of names and values and all sizes of the buffer, the    *)
(* room the check of each round keeps is enough for the braces that close  *)
(* the maps in the end, and for the '\0'.                                  *)
THEOREM ReportEndsInside == Spec => []EndsInside
  <1>1. ReportInv => EndsInside
    BY DEF ReportInv, RoomInv, EndsInside
  <1> QED
    BY <1>1, ReportInvariance, PTL

-----------------------------------------------------------------------------
(***************************************************************************)
(* Objects under their paths.  The maps symbol j of s stands in, and what  *)
(* it means that they are those of the objects a.                          *)
(***************************************************************************)
Enclosing(s, j) ==
    {i \in 1 .. j : s[i].k = "open" /\ \A h \in i .. j : Depth(s, h) >= Depth(s, i)}

Stack(s, j, a) ==
    /\ Depth(s, j) = Len(a) + 1
    /\ \A i \in Enclosing(s, j) :
          /\ Depth(s, i) \in 1 .. Len(a) + 1
          /\ Depth(s, i) > 1 => s[i].s = objects[a[Depth(s, i) - 1]].name
    /\ \A h \in 1 .. Len(a) + 1 : \E i \in Enclosing(s, j) : Depth(s, i) = h
    /\ \A i, m \in Enclosing(s, j) : Depth(s, i) = Depth(s, m) => i = m

LEMMA DepthType == ASSUME NEW s, NEW j \in Nat PROVE Depth(s, j) \in Int
  BY DepthSteps

LEMMA StackSame ==
    ASSUME NEW s, NEW t, NEW j \in Nat, NEW a, \A i \in 1 .. j : s[i] = t[i], Stack(s, j, a)
    PROVE  Stack(t, j, a)
  <1>1. \A i \in 0 .. j : Depth(t, i) = Depth(s, i)
    <2> SUFFICES ASSUME NEW i \in 0 .. j PROVE Depth(t, i) = Depth(s, i)
      OBVIOUS
    <2>1. i \in Nat /\ \A h \in 1 .. i : s[h] = t[h]
      OBVIOUS
    <2> QED
      BY <2>1, DepthSame
  <1>2. Enclosing(t, j) = Enclosing(s, j)
    <2>1. \A i \in 1 .. j : \A h \in i .. j : i \in 0 .. j /\ h \in 0 .. j
      OBVIOUS
    <2>2. \A i \in 1 .. j : \A h \in i .. j : Depth(t, i) = Depth(s, i) /\ Depth(t, h) = Depth(s, h)
      BY <1>1, <2>1
    <2>3. \A i \in 1 .. j : (\A h \in i .. j : Depth(t, h) >= Depth(t, i))
                               <=> (\A h \in i .. j : Depth(s, h) >= Depth(s, i))
      <3> SUFFICES ASSUME NEW i \in 1 .. j
                   PROVE  (\A h \in i .. j : Depth(t, h) >= Depth(t, i))
                             <=> (\A h \in i .. j : Depth(s, h) >= Depth(s, i))
        OBVIOUS
      <3>1. \A h \in i .. j : Depth(t, i) = Depth(s, i) /\ Depth(t, h) = Depth(s, h)
        BY <2>2
      <3> QED
        BY <3>1
    <2> QED
      BY <2>3 DEF Enclosing
  <1>3. \A i \in Enclosing(s, j) : i \in 0 .. j /\ i \in 1 .. j
    BY DEF Enclosing
  <1>4. \A i \in Enclosing(s, j) : Depth(t, i) = Depth(s, i) /\ t[i] = s[i]
    BY <1>1, <1>3
  <1>5. Depth(t, j) = Depth(s, j)
    BY <1>1
  <1> QED
    BY <1>2, <1>4, <1>5 DEF Stack

(* One more symbol closes the maps that are deeper than it leaves.         *)
LEMMA EnclosingSteps ==
    ASSUME NEW S, NEW s \in Seq(S), NEW x \in S
    PROVE  /\ \A i \in 0 .. Len(s) : Depth(Append(s, x), i) = Depth(s, i)
           /\ Depth(Append(s, x), Len(s) + 1) = Depth(s, Len(s)) + Turn(x)
           /\ Enclosing(Append(s, x), Len(s) + 1) =
                 {i \in Enclosing(s, Len(s)) : Depth(s, i) <= Depth(Append(s, x), Len(s) + 1)}
                 \cup (IF x.k = "open" THEN {Len(s) + 1} ELSE {})
  <1> DEFINE t == Append(s, x)
             n == Len(s)
  <1>1. n \in Nat /\ (\A j \in 1 .. n : t[j] = s[j]) /\ t[n + 1] = x
    BY AppendOf
  <1> HIDE DEF t, n
  <1>2. \A i \in 0 .. n : Depth(t, i) = Depth(s, i)
    <2> SUFFICES ASSUME NEW i \in 0 .. n PROVE Depth(t, i) = Depth(s, i)
      OBVIOUS
    <2>1. i \in Nat /\ \A h \in 1 .. i : t[h] = s[h]
      BY <1>1
    <2> QED
      BY <2>1, DepthSame
  <1>3. Depth(t, n + 1) = Depth(s, n) + Turn(x)
    <2>1. Depth(t, n + 1) = Depth(t, n) + Turn(t[n + 1])
      BY <1>1, DepthSteps
    <2>2. Depth(t, n) = Depth(s, n)
      BY <1>1, <1>2
    <2> QED
      BY <1>1, <2>1, <2>2
  <1> DEFINE e == Depth(t, n + 1)
             new == IF x.k = "open" THEN {n + 1} ELSE {}
  <1>4. ASSUME NEW i \in 1 .. n
        PROVE  i \in Enclosing(t, n + 1) <=> i \in Enclosing(s, n) /\ Depth(s, i) <= e
    <2>1. \A h \in i .. n : h \in 0 .. n
      BY <1>1
    <2>2. \A h \in i .. n : Depth(t, h) = Depth(s, h)
      BY <1>2, <2>1
    <2>3. \A h \in i .. n + 1 : h = n + 1 \/ h \in i .. n
      BY <1>1
    <2>4. i \in 0 .. n /\ i \in 1 .. n + 1 /\ n + 1 \in i .. n + 1 /\ \A h \in i .. n : h \in i .. n + 1
      BY <1>1
    <2>5. Depth(t, i) = Depth(s, i) /\ t[i] = s[i]
      BY <1>1, <1>2, <2>4
    <2>6. e \in Int /\ Depth(s, i) \in Int
      <3>1. n + 1 \in Nat /\ i \in Nat
        BY <1>1
      <3> QED
        BY <3>1, DepthType
    <2> HIDE DEF e
    <2>7. (\A h \in i .. n + 1 : Depth(t, h) >= Depth(t, i))
             <=> (\A h \in i .. n : Depth(s, h) >= Depth(s, i)) /\ e >= Depth(s, i)
      BY <2>2, <2>3, <2>4, <2>5, Zenon DEF e
    <2>8. e >= Depth(s, i) <=> Depth(s, i) <= e
      BY <2>6
    <2> QED
      BY <2>4, <2>5, <2>7, <2>8, Zenon DEF Enclosing
  <1>5. n + 1 \in Enclosing(t, n + 1) <=> x.k = "open"
    <2>1. \A h \in n + 1 .. n + 1 : h = n + 1
      BY <1>1
    <2>2. e >= e
      <3>1. n + 1 \in Nat
        BY <1>1
      <3> QED
        BY <3>1, DepthType
    <2>3. n + 1 \in 1 .. n + 1
      BY <1>1
    <2> QED
      BY <1>1, <2>1, <2>2, <2>3, Zenon DEF Enclosing
  <1>6. \A i : i \in Enclosing(t, n + 1) => i = n + 1 \/ i \in 1 .. n
    BY <1>1 DEF Enclosing
  <1>7. \A i : i \in Enclosing(s, n) => i \in 1 .. n
    BY DEF Enclosing
  <1>8. n + 1 \notin 1 .. n
    BY <1>1
  <1>9. Enclosing(t, n + 1) = {i \in Enclosing(s, n) : Depth(s, i) <= e} \cup new
    <2> HIDE DEF e
    <2>1. \A i : i \in new <=> i = n + 1 /\ x.k = "open"
      OBVIOUS
    <2> HIDE DEF new
    <2> QED
      BY <1>4, <1>5, <1>6, <1>7, <1>8, <2>1, Zenon
  <1> QED
    BY <1>2, <1>3, <1>9 DEF t, n

LEMMA StackNeutral ==
    ASSUME NEW S, NEW s \in Seq(S), NEW x \in S, x.k \notin {"open", "close"},
           NEW a, Len(a) \in Nat, Stack(s, Len(s), a)
    PROVE  Stack(Append(s, x), Len(s) + 1, a)
  <1> DEFINE t == Append(s, x)
             n == Len(s)
             d == Len(a) + 1
  <1>1. n \in Nat /\ d \in Nat /\ \A j \in 1 .. n : t[j] = s[j]
    BY AppendOf
  <1>2. Turn(x) = 0
    BY DEF Turn
  <1>3. /\ \A i \in 0 .. n : Depth(t, i) = Depth(s, i)
        /\ Depth(t, n + 1) = Depth(s, n) + 0
        /\ Enclosing(t, n + 1) = {i \in Enclosing(s, n) : Depth(s, i) <= Depth(t, n + 1)}
                                 \cup (IF x.k = "open" THEN {n + 1} ELSE {})
    BY <1>2, EnclosingSteps
  <1>4. Depth(s, n) = d /\ \A i \in Enclosing(s, n) : Depth(s, i) \in 1 .. d
    BY DEF Stack
  <1> HIDE DEF t, n, d
  <1>5. Depth(t, n + 1) = d
    BY <1>1, <1>3, <1>4
  <1>6. Enclosing(t, n + 1) = Enclosing(s, n)
    <2>1. \A i \in Enclosing(s, n) : Depth(s, i) <= d
      BY <1>1, <1>4
    <2>2. Enclosing(t, n + 1) = {i \in Enclosing(s, n) : Depth(s, i) <= d} \cup {}
      BY <1>3, <1>5
    <2> QED
      BY <2>1, <2>2
  <1>7. \A i \in Enclosing(s, n) : i \in 0 .. n /\ i \in 1 .. n
    BY DEF Enclosing
  <1>8. \A i \in Enclosing(s, n) : Depth(t, i) = Depth(s, i) /\ t[i] = s[i]
    BY <1>1, <1>3, <1>7
  <1>9. Stack(s, n, a)
    BY DEF n
  <1>10. Stack(t, n + 1, a)
    BY <1>5, <1>6, <1>8, <1>9 DEF Stack, d
  <1> QED
    BY <1>10 DEF t, n

LEMMA StackOpens ==
    ASSUME NEW S, NEW s \in Seq(S), NEW x \in S, x.k = "open",
           NEW D, NEW a \in Seq(D), NEW o \in D, x.s = objects[o].name, Stack(s, Len(s), a)
    PROVE  Stack(Append(s, x), Len(s) + 1, Append(a, o))
  <1> DEFINE t == Append(s, x)
             n == Len(s)
             d == Len(a) + 1
             b == Append(a, o)
             E == Enclosing(s, n)
             F == Enclosing(t, n + 1)
  <1>1. /\ n \in Nat /\ d \in Nat \ {0} /\ (\A j \in 1 .. n : t[j] = s[j]) /\ t[n + 1] = x
        /\ Len(b) + 1 = d + 1 /\ (\A j \in 1 .. d - 1 : b[j] = a[j]) /\ b[d] = o
    BY AppendOf
  <1>2. Turn(x) = 1
    BY DEF Turn
  <1>3. /\ \A i \in 0 .. n : Depth(t, i) = Depth(s, i)
        /\ Depth(t, n + 1) = Depth(s, n) + 1
        /\ F = {i \in E : Depth(s, i) <= Depth(t, n + 1)}
               \cup (IF x.k = "open" THEN {n + 1} ELSE {})
    BY <1>2, EnclosingSteps
  <1>4. /\ Depth(s, n) = d
        /\ \A i \in E : /\ Depth(s, i) \in 1 .. d
                        /\ Depth(s, i) > 1 => s[i].s = objects[a[Depth(s, i) - 1]].name
        /\ \A h \in 1 .. d : \E i \in E : Depth(s, i) = h
        /\ \A i, m \in E : Depth(s, i) = Depth(s, m) => i = m
    BY DEF Stack
  <1>5. \A i \in E : i \in 0 .. n /\ i \in 1 .. n
    BY DEF Enclosing
  <1> HIDE DEF t, n, d, b, E, F
  <1>6. Depth(t, n + 1) = d + 1
    BY <1>1, <1>3, <1>4
  <1>7. F = E \cup {n + 1}
    <2>1. \A i \in E : Depth(s, i) <= d + 1
      BY <1>1, <1>4
    <2> QED
      BY <1>3, <1>6, <2>1
  <1>8. \A i \in E : Depth(t, i) = Depth(s, i) /\ t[i] = s[i]
    BY <1>1, <1>3, <1>5
  <1>9. ASSUME NEW i \in F
        PROVE  /\ Depth(t, i) \in 1 .. d + 1
               /\ Depth(t, i) > 1 => t[i].s = objects[b[Depth(t, i) - 1]].name
    <2>1. CASE i = n + 1
      <3>1. (d + 1) - 1 = d /\ d + 1 \in 1 .. d + 1
        BY <1>1
      <3> QED
        BY <1>1, <1>6, <2>1, <3>1
    <2>2. CASE i \in E
      <3> DEFINE e == Depth(s, i)
      <3>1. e \in 1 .. d /\ (e > 1 => s[i].s = objects[a[e - 1]].name)
        BY <1>4, <2>2
      <3>2. Depth(t, i) = e /\ t[i] = s[i]
        BY <1>8, <2>2
      <3> HIDE DEF e
      <3>3. e \in 1 .. d + 1 /\ (e > 1 => e - 1 \in 1 .. d - 1)
        BY <1>1, <3>1
      <3>4. e > 1 => b[e - 1] = a[e - 1]
        BY <1>1, <3>3
      <3> QED
        BY <3>1, <3>2, <3>3, <3>4
    <2> QED
      BY <1>7, <2>1, <2>2
  <1>10. ASSUME NEW h \in 1 .. d + 1 PROVE \E i \in F : Depth(t, i) = h
    <2>1. CASE h = d + 1
      BY <1>6, <1>7, <2>1
    <2>2. CASE h \in 1 .. d
      <3>1. PICK i \in E : Depth(s, i) = h
        BY <1>4, <2>2
      <3> QED
        BY <1>7, <1>8, <3>1
    <2>3. h = d + 1 \/ h \in 1 .. d
      BY <1>1
    <2> QED
      BY <2>1, <2>2, <2>3
  <1>11. ASSUME NEW i \in F, NEW m \in F, Depth(t, i) = Depth(t, m) PROVE i = m
    <2>1. \A q \in E : Depth(t, q) # d + 1
      <3>1. \A q \in E : Depth(s, q) # d + 1
        BY <1>1, <1>4
      <3> QED
        BY <1>8, <3>1
    <2>2. CASE i \in E /\ m \in E
      BY <1>4, <1>8, <1>11, <2>2
    <2> QED
      BY <1>6, <1>7, <1>11, <2>1, <2>2
  <1>12. Stack(t, n + 1, b)
    BY <1>1, <1>6, <1>9, <1>10, <1>11, Zenon DEF Stack, F
  <1> QED
    BY <1>12 DEF t, n, b

LEMMA StackCloses ==
    ASSUME NEW S, NEW s \in Seq(S), NEW x \in S, x.k = "close",
           NEW D, NEW a \in Seq(D), a # <<>>, Stack(s, Len(s), a)
    PROVE  Stack(Append(s, x), Len(s) + 1, Front(a))
  <1> DEFINE t == Append(s, x)
             n == Len(s)
             d == Len(a)
             b == Front(a)
             E == Enclosing(s, n)
             F == Enclosing(t, n + 1)
  <1>1. /\ n \in Nat /\ (\A j \in 1 .. n : t[j] = s[j])
        /\ d \in Nat \ {0} /\ Len(b) + 1 = d /\ \A j \in 1 .. d - 1 : b[j] = a[j]
    <2>1. n \in Nat /\ \A j \in 1 .. n : t[j] = s[j]
      BY AppendOf
    <2>2. d \in Nat \ {0} /\ Len(b) = d - 1 /\ \A j \in 1 .. d - 1 : b[j] = a[j]
      BY FrontOf
    <2> HIDE DEF n, t, d, b
    <2>3. Len(b) + 1 = d
      BY <2>2
    <2> QED
      BY <2>1, <2>2, <2>3
  <1>2. Turn(x) = -1
    BY DEF Turn
  <1>3. /\ \A i \in 0 .. n : Depth(t, i) = Depth(s, i)
        /\ Depth(t, n + 1) = Depth(s, n) + (-1)
        /\ F = {i \in E : Depth(s, i) <= Depth(t, n + 1)}
               \cup (IF x.k = "open" THEN {n + 1} ELSE {})
    BY <1>2, EnclosingSteps
  <1>4. /\ Depth(s, n) = d + 1
        /\ \A i \in E : /\ Depth(s, i) \in 1 .. d + 1
                        /\ Depth(s, i) > 1 => s[i].s = objects[a[Depth(s, i) - 1]].name
        /\ \A h \in 1 .. d + 1 : \E i \in E : Depth(s, i) = h
        /\ \A i, m \in E : Depth(s, i) = Depth(s, m) => i = m
    BY DEF Stack
  <1>5. \A i \in E : i \in 0 .. n /\ i \in 1 .. n
    BY DEF Enclosing
  <1> HIDE DEF t, n, d, b, E, F
  <1>6. Depth(t, n + 1) = d
    BY <1>1, <1>3, <1>4
  <1>7. F = {i \in E : Depth(s, i) <= d}
    BY <1>3, <1>6
  <1>8. \A i \in E : Depth(t, i) = Depth(s, i) /\ t[i] = s[i]
    BY <1>1, <1>3, <1>5
  <1>9. ASSUME NEW i \in F
        PROVE  /\ Depth(t, i) \in 1 .. d
               /\ Depth(t, i) > 1 => t[i].s = objects[b[Depth(t, i) - 1]].name
    <2> DEFINE e == Depth(s, i)
    <2>1. e \in 1 .. d + 1 /\ e <= d /\ (e > 1 => s[i].s = objects[a[e - 1]].name)
      BY <1>4, <1>7
    <2>2. Depth(t, i) = e /\ t[i] = s[i]
      BY <1>7, <1>8
    <2> HIDE DEF e
    <2>3. e \in 1 .. d /\ (e > 1 => e - 1 \in 1 .. d - 1)
      BY <1>1, <2>1
    <2>4. e > 1 => b[e - 1] = a[e - 1]
      BY <1>1, <2>3
    <2> QED
      BY <2>1, <2>2, <2>3, <2>4
  <1>10. ASSUME NEW h \in 1 .. d PROVE \E i \in F : Depth(t, i) = h
    <2>1. h \in 1 .. d + 1 /\ h <= d
      BY <1>1
    <2>2. PICK i \in E : Depth(s, i) = h
      BY <1>4, <2>1
    <2> QED
      BY <1>7, <1>8, <2>1, <2>2
  <1>11. ASSUME NEW i \in F, NEW m \in F, Depth(t, i) = Depth(t, m) PROVE i = m
    BY <1>4, <1>7, <1>8, <1>11
  <1>12. Stack(t, n + 1, b)
    BY <1>1, <1>6, <1>9, <1>10, <1>11, Zenon DEF Stack, F
  <1> QED
    BY <1>12 DEF t, n, b

LEMMA StackShrinks ==
    ASSUME NEW S, NEW s \in Seq(S), s # <<>>, s[Len(s)].k \notin {"open", "close"},
           NEW a, Len(a) \in Nat, Stack(s, Len(s), a)
    PROVE  Stack(Front(s), Len(Front(s)), a)
  <1> DEFINE f == Front(s)
             n == Len(f)
             x == s[Len(s)]
  <1>1. /\ f \in Seq(S) /\ n \in Nat /\ Len(s) = n + 1 /\ x \in S
        /\ \A j \in 1 .. n : f[j] = s[j]
    <2>1. f \in Seq(S) /\ n = Len(s) - 1 /\ Len(s) \in Nat \ {0} /\ \A j \in 1 .. Len(s) - 1 : f[j] = s[j]
      BY FrontOf
    <2> HIDE DEF f, n
    <2> QED
      BY <2>1
  <1> HIDE DEF f
  <1>2. s = Append(f, x)
    <2>1. /\ Append(f, x) \in Seq(S) /\ Len(Append(f, x)) = n + 1 /\ Append(f, x)[n + 1] = x
          /\ \A j \in 1 .. n : Append(f, x)[j] = f[j]
      BY <1>1, AppendOf
    <2>2. \A j \in 1 .. n + 1 : j = n + 1 \/ j \in 1 .. n
      BY <1>1
    <2>3. x = s[n + 1]
      BY <1>1
    <2> DEFINE t == Append(f, x)
    <2> HIDE DEF t, x, n
    <2>4. \A j \in 1 .. n + 1 : t[j] = s[j]
      BY <1>1, <2>1, <2>2, <2>3, Zenon DEF t
    <2>5. t = s
      BY <1>1, <2>1, <2>4 DEF t
    <2> QED
      BY <2>5 DEF t
  <1>3. Turn(x) = 0 /\ x.k # "open"
    BY DEF Turn
  <1> HIDE DEF x
  <1>4. /\ \A i \in 0 .. n : Depth(s, i) = Depth(f, i)
        /\ Depth(s, n + 1) = Depth(f, n) + 0
        /\ Enclosing(s, n + 1) = {i \in Enclosing(f, n) : Depth(f, i) <= Depth(s, n + 1)}
                                 \cup (IF x.k = "open" THEN {n + 1} ELSE {})
    BY <1>1, <1>2, <1>3, EnclosingSteps
  <1>5. Stack(s, n + 1, a)
    BY <1>1
  <1> HIDE DEF n
  <1>6. Depth(s, n + 1) = Depth(f, n) /\ Depth(f, n) \in Int
    BY <1>1, <1>4, DepthType
  <1>7. \A i \in Enclosing(f, n) : Depth(f, i) <= Depth(f, n)
    <2> SUFFICES ASSUME NEW i \in Enclosing(f, n) PROVE Depth(f, i) <= Depth(f, n)
      OBVIOUS
    <2>1. i \in 1 .. n /\ \A h \in i .. n : Depth(f, h) >= Depth(f, i)
      BY DEF Enclosing
    <2>2. n \in i .. n /\ i \in Nat
      BY <1>1, <2>1
    <2>3. Depth(f, n) >= Depth(f, i) /\ Depth(f, i) \in Int
      BY <2>1, <2>2, DepthType
    <2> QED
      BY <1>6, <2>3
  <1>8. Enclosing(s, n + 1) = Enclosing(f, n)
    BY <1>3, <1>4, <1>6, <1>7
  <1>9. \A i \in Enclosing(f, n) : i \in 0 .. n /\ i \in 1 .. n
    BY DEF Enclosing
  <1>10. \A i \in Enclosing(f, n) : Depth(s, i) = Depth(f, i) /\ s[i] = f[i]
    BY <1>1, <1>4, <1>9
  <1>11. Stack(f, n, a)
    BY <1>5, <1>6, <1>8, <1>10 DEF Stack
  <1> QED
    BY <1>11 DEF f, n

(***************************************************************************)
(* Every object in s stands in the maps of its ancestors; the maps open at *)
(* the end are those of a.                                                 *)
(***************************************************************************)
ItemsIn(s) ==
    \A j \in 1 .. Len(s) : s[j].k = "item" =>
        s[j].o \in DOMAIN objects /\ \A c : Chain(c, s[j].o) => Stack(s, j, Front(c))
Nest(s, a) == ItemsIn(s) /\ Stack(s, Len(s), a)

LEMMA ItemsStay ==
    ASSUME NEW s, NEW t, ItemsIn(s), Len(t) \in Nat,
           \A j \in 1 .. Len(t) :
               t[j].k # "item" \/ (j \in 1 .. Len(s) /\ \A i \in 1 .. j : s[i] = t[i])
    PROVE  ItemsIn(t)
  <1> SUFFICES ASSUME NEW j \in 1 .. Len(t), t[j].k = "item"
               PROVE  t[j].o \in DOMAIN objects /\ \A c : Chain(c, t[j].o) => Stack(t, j, Front(c))
    BY DEF ItemsIn
  <1>1. j \in Nat /\ j \in 1 .. j
    OBVIOUS
  <1>2. j \in 1 .. Len(s) /\ \A i \in 1 .. j : s[i] = t[i]
    OBVIOUS
  <1>3. s[j] = t[j]
    BY <1>1, <1>2
  <1>4. s[j].o \in DOMAIN objects /\ \A c : Chain(c, s[j].o) => Stack(s, j, Front(c))
    BY <1>2, <1>3 DEF ItemsIn
  <1>5. \A a : Stack(s, j, a) => Stack(t, j, a)
    BY <1>1, <1>2, StackSame
  <1> QED
    BY <1>3, <1>4, <1>5

LEMMA NoItemAdded ==
    ASSUME NEW S, NEW s \in Seq(S), NEW x \in S, ItemsIn(s), x.k # "item"
    PROVE  ItemsIn(Append(s, x))
  <1> DEFINE t == Append(s, x)
             n == Len(s)
  <1>1. n \in Nat /\ Len(t) = n + 1 /\ (\A j \in 1 .. n : t[j] = s[j]) /\ t[n + 1] = x
    BY AppendOf
  <1> HIDE DEF t
  <1>2. \A j \in 1 .. Len(t) : t[j].k # "item" \/ (j \in 1 .. n /\ \A i \in 1 .. j : s[i] = t[i])
    <2> SUFFICES ASSUME NEW j \in 1 .. n + 1
                 PROVE  j = n + 1 \/ (j \in 1 .. n /\ \A i \in 1 .. j : s[i] = t[i])
      BY <1>1
    <2>1. j = n + 1 \/ (j \in 1 .. n /\ \A i \in 1 .. j : i \in 1 .. n)
      BY <1>1
    <2> QED
      BY <1>1, <2>1
  <1>3. Len(t) \in Nat
    BY <1>1
  <1>4. ItemsIn(t)
    BY <1>2, <1>3, ItemsStay
  <1> QED
    BY <1>4 DEF t

LEMMA NestOpens ==
    ASSUME NEW S, NEW s \in Seq(S), NEW D, NEW a \in Seq(D), Nest(s, a),
           NEW o \in D, Open(objects[o].name) \in S
    PROVE  Nest(Append(s, Open(objects[o].name)), Append(a, o))
  <1> DEFINE x == Open(objects[o].name)
  <1>1. x.k = "open" /\ x.s = objects[o].name /\ x.k # "item" /\ x \in S
    BY DEF Open
  <1>2. Len(Append(s, x)) = Len(s) + 1
    BY <1>1, AppendOf
  <1> HIDE DEF x
  <1>3. ItemsIn(s) /\ Stack(s, Len(s), a)
    BY DEF Nest
  <1>4. ItemsIn(Append(s, x))
    BY <1>1, <1>3, NoItemAdded
  <1>5. Stack(Append(s, x), Len(s) + 1, Append(a, o))
    BY <1>1, <1>3, StackOpens
  <1> QED
    BY <1>2, <1>4, <1>5 DEF Nest, x

LEMMA NestCloses ==
    ASSUME NEW S, NEW s \in Seq(S), NEW D, NEW a \in Seq(D), Nest(s, a), a # <<>>, Close \in S
    PROVE  Nest(Append(s, Close), Front(a))
  <1>1. Close.k = "close" /\ Close.k # "item"
    BY DEF Close
  <1>2. Len(Append(s, Close)) = Len(s) + 1
    BY AppendOf
  <1>3. ItemsIn(s) /\ Stack(s, Len(s), a)
    BY DEF Nest
  <1>4. ItemsIn(Append(s, Close))
    BY <1>1, <1>3, NoItemAdded
  <1>5. Stack(Append(s, Close), Len(s) + 1, Front(a))
    BY <1>1, <1>3, StackCloses
  <1> QED
    BY <1>2, <1>4, <1>5 DEF Nest

LEMMA NestComma ==
    ASSUME NEW S, NEW s \in Seq(S), NEW D, NEW a \in Seq(D), Nest(s, a), Comma \in S
    PROVE  Nest(Append(s, Comma), a)
  <1>1. Comma.k \notin {"open", "close"} /\ Comma.k # "item"
    BY DEF Comma
  <1>2. Len(Append(s, Comma)) = Len(s) + 1 /\ Len(a) \in Nat
    BY AppendOf
  <1>3. ItemsIn(s) /\ Stack(s, Len(s), a)
    BY DEF Nest
  <1>4. ItemsIn(Append(s, Comma))
    BY <1>1, <1>3, NoItemAdded
  <1>5. Stack(Append(s, Comma), Len(s) + 1, a)
    BY <1>1, <1>2, <1>3, StackNeutral
  <1> QED
    BY <1>2, <1>4, <1>5 DEF Nest

LEMMA NestItem ==
    ASSUME NEW S, NEW s \in Seq(S), NEW D, NEW a \in Seq(D), Nest(s, a),
           NEW o \in DOMAIN objects, Value(o) \in S, \A c : Chain(c, o) => Front(c) = a
    PROVE  Nest(Append(s, Value(o)), a)
  <1> DEFINE x == Value(o)
             t == Append(s, x)
             n == Len(s)
  <1>1. x.k \notin {"open", "close"} /\ x.o = o
    BY DEF Value
  <1>2. /\ Len(t) = n + 1 /\ n \in Nat /\ Len(a) \in Nat
        /\ (\A j \in 1 .. n : t[j] = s[j]) /\ t[n + 1] = x
    BY AppendOf
  <1>3. ItemsIn(s) /\ Stack(s, n, a)
    BY DEF Nest
  <1>4. Stack(t, n + 1, a)
    BY <1>1, <1>2, <1>3, StackNeutral
  <1> HIDE DEF x, t, n
  <1>5. ASSUME NEW j \in 1 .. n + 1, t[j].k = "item"
        PROVE  t[j].o \in DOMAIN objects /\ \A c : Chain(c, t[j].o) => Stack(t, j, Front(c))
    <2>1. CASE j = n + 1
      BY <1>1, <1>2, <1>4, <2>1
    <2>2. CASE j \in 1 .. n
      <3>1. j \in Nat /\ \A i \in 1 .. j : s[i] = t[i]
        <4>1. \A i \in 1 .. j : i \in 1 .. n
          BY <1>2, <2>2
        <4> QED
          BY <1>2, <4>1
      <3>2. s[j] = t[j]
        BY <1>2, <2>2
      <3>3. s[j].o \in DOMAIN objects /\ \A c : Chain(c, s[j].o) => Stack(s, j, Front(c))
        BY <1>3, <1>5, <2>2, <3>2 DEF ItemsIn, n
      <3>4. \A b : Stack(s, j, b) => Stack(t, j, b)
        BY <3>1, StackSame
      <3> QED
        BY <3>2, <3>3, <3>4
    <2> QED
      BY <1>2, <2>1, <2>2
  <1>6. ItemsIn(t)
    BY <1>2, <1>5 DEF ItemsIn
  <1>7. Nest(t, a)
    BY <1>2, <1>4, <1>6 DEF Nest
  <1> QED
    BY <1>7 DEF t, x

LEMMA NestShrinks ==
    ASSUME NEW S, NEW s \in Seq(S), NEW D, NEW a \in Seq(D), Nest(s, a),
           s # <<>>, s[Len(s)].k = "comma"
    PROVE  Nest(Front(s), a)
  <1> DEFINE f == Front(s)
  <1>1. Len(s) \in Nat \ {0} /\ Len(f) = Len(s) - 1 /\ \A j \in 1 .. Len(s) - 1 : f[j] = s[j]
    BY FrontOf
  <1>2. ItemsIn(s) /\ Stack(s, Len(s), a) /\ Len(a) \in Nat
    BY DEF Nest
  <1>3. Stack(f, Len(f), a)
    BY <1>2, StackShrinks
  <1> HIDE DEF f
  <1>4. \A j \in 1 .. Len(f) : j \in 1 .. Len(s) /\ \A i \in 1 .. j : s[i] = f[i]
    BY <1>1
  <1>5. Len(f) \in Nat
    BY <1>1
  <1>6. ItemsIn(f)
    BY <1>2, <1>4, <1>5, ItemsStay
  <1> QED
    BY <1>3, <1>6 DEF Nest, f

(***************************************************************************)
(* The maps of a member, when those of the member before it are open.  A   *)
(* chain of at most three objects has one of three shapes.                 *)
(***************************************************************************)
LEMMA FirstAndLast ==
    ASSUME NEW x, NEW y
    PROVE  /\ Front(<<x>>) = <<>> /\ Last(<<x>>) = x
           /\ Front(<<x, y>>) = <<x>> /\ Last(<<x, y>>) = y
           /\ <<x>> # <<>> /\ <<x, y>> # <<>> /\ <<x>> # <<x, y>>
           /\ <<>> \o <<x>> = <<x>> /\ <<>> \o <<x, y>> = <<x, y>>
           /\ <<x>> \o <<y>> = <<x, y>> /\ <<x>> \o <<>> = <<x>> /\ <<x, y>> \o <<>> = <<x, y>>
  <1> DEFINE T == {x, y}
  <1>1. <<x>> \in Seq(T) /\ Len(<<x>>) = 1 /\ <<x>>[1] = x /\ <<x>> # <<>>
    OBVIOUS
  <1>2. /\ <<x, y>> \in Seq(T) /\ Len(<<x, y>>) = 2 /\ <<x, y>> # <<>>
        /\ <<x, y>>[1] = x /\ <<x, y>>[2] = y
    OBVIOUS
  <1>3. Front(<<x>>) \in Seq(T) /\ Len(Front(<<x>>)) = 0
    <2>1. 1 - 1 = 0
      OBVIOUS
    <2> QED
      BY <1>1, <2>1, FrontOf
  <1>4. Front(<<x, y>>) \in Seq(T) /\ Len(Front(<<x, y>>)) = 1 /\ Front(<<x, y>>)[1] = x
    <2>1. 2 - 1 = 1 /\ 1 \in 1 .. 2 - 1
      OBVIOUS
    <2> QED
      BY <1>2, <2>1, FrontOf
  <1>5. \A s \in Seq(T) : Len(s) = 0 => s = <<>>
    OBVIOUS
  <1>6. \A s \in Seq(T) : Len(s) = 1 => s = <<s[1]>>
    OBVIOUS
  <1>7. Last(<<x>>) = x /\ Last(<<x, y>>) = y
    BY <1>1, <1>2 DEF Last
  <1>8. <<>> \o <<x>> = <<x>> /\ <<>> \o <<x, y>> = <<x, y>> /\ <<x>> # <<x, y>>
    OBVIOUS
  <1>9. <<x>> \o <<y>> = <<x, y>> /\ <<x>> \o <<>> = <<x>> /\ <<x, y>> \o <<>> = <<x, y>>
    <2> DEFINE t == Append(<<x>>, y)
    <2>1. t = <<x, y>>
      <3>1. t \in Seq(T) /\ Len(t) = 2 /\ t[1] = x /\ t[2] = y
        <4>1. 1 + 1 = 2 /\ 1 \in 1 .. 1
          OBVIOUS
        <4> QED
          BY <1>1, <4>1, AppendOf
      <3>2. \A s \in Seq(T) : Len(s) = 2 => s = <<s[1], s[2]>>
        OBVIOUS
      <3> HIDE DEF t
      <3> QED
        BY <3>1, <3>2
    <2>3. t = <<x>> \o <<y>>
      <3>1. \A s \in Seq(T) : Append(s, y) = s \o <<y>>
        OBVIOUS
      <3> QED
        BY <1>1, <3>1
    <2>2. \A s \in Seq(T) : s \o <<>> = s
      OBVIOUS
    <2> QED
      BY <1>1, <1>2, <2>1, <2>2, <2>3
  <1> HIDE DEF T
  <1>10. Front(<<x>>) = <<>> /\ Front(<<x, y>>) = <<x>>
    BY <1>3, <1>4, <1>5, <1>6
  <1> QED
    BY <1>1, <1>2, <1>7, <1>8, <1>9, <1>10

LEMMA ParentsInChain ==
    ASSUME DbInv, ProperIds, Ready, NEW o \in DOMAIN objects, NEW c, Chain(c, o)
    PROVE  /\ c \in Seq(DOMAIN objects) /\ Len(c) \in Nat \ {0} /\ c[Len(c)] = o
           /\ \A j \in 1 .. Len(c) : c[j] \in DOMAIN objects
           /\ ParentOf(c[1]) = None
           /\ \A j \in 1 .. Len(c) - 1 : ParentOf(c[j + 1]) = c[j]
  <1>1. /\ c \in Seq(DOMAIN objects) /\ c # <<>> /\ c[Len(c)] = o
        /\ objects[c[1]].parent = 0
        /\ \A j \in 1 .. Len(c) - 1 : objects[c[j + 1]].parent = objects[c[j]].id
    BY DEF Chain
  <1>2. Len(c) \in Nat \ {0} /\ \A j \in 1 .. Len(c) : c[j] \in DOMAIN objects
    BY <1>1
  <1>3. ParentOf(c[1]) = None
    BY <1>1 DEF ParentOf
  <1>4. ASSUME NEW j \in 1 .. Len(c) - 1 PROVE ParentOf(c[j + 1]) = c[j]
    <2>1. j \in 1 .. Len(c)
      BY <1>2
    <2>2. c[j] \in DOMAIN objects /\ objects[c[j + 1]].parent = objects[c[j]].id
      BY <1>1, <1>2, <2>1
    <2>3. objects[c[j]].id # 0 /\ c[j] \in 1 .. Len(objects)
      BY <2>2, ObjectFields
    <2>4. ObjectById(objects[c[j]].id) = c[j]
      BY <2>3, FindsIt
    <2> QED
      BY <2>2, <2>3, <2>4 DEF ParentOf
  <1> QED
    BY <1>1, <1>2, <1>3, <1>4

LEMMA Shapes ==
    ASSUME DbInv, ProperIds, Ready, NEW o \in DOMAIN objects, NEW c, Chain(c, o), Len(c) <= 3
    PROVE  \/ Front(c) = <<>> /\ Len(c) = 1 /\ ParentOf(o) = None
           \/ \E g \in DOMAIN objects :
                 /\ Front(c) = <<g>> /\ Len(c) = 2 /\ c[1] = g
                 /\ ParentOf(o) = g /\ ParentOf(g) = None
           \/ \E g, h \in DOMAIN objects :
                 /\ Front(c) = <<g, h>> /\ Len(c) = 3 /\ c[1] = g
                 /\ ParentOf(o) = h /\ ParentOf(h) = g /\ ParentOf(g) = None
  <1> DEFINE D == DOMAIN objects
             f == Front(c)
             n == Len(c)
  <1>1. /\ c \in Seq(D) /\ n \in Nat \ {0} /\ c[n] = o
        /\ \A j \in 1 .. n : c[j] \in D
        /\ ParentOf(c[1]) = None
        /\ \A j \in 1 .. n - 1 : ParentOf(c[j + 1]) = c[j]
    BY ParentsInChain
  <1>2. f \in Seq(D) /\ Len(f) = n - 1 /\ \A j \in 1 .. n - 1 : f[j] = c[j]
    <2>1. c # <<>>
      BY <1>1
    <2> QED
      BY <1>1, <2>1, FrontOf
  <1>3. n <= 3
    OBVIOUS
  <1> HIDE DEF f, n, D
  <1>4. CASE n = 1
    BY <1>1, <1>2, <1>4 DEF f, n
  <1>5. CASE n = 2
    <2>1. f = <<c[1]>>
      BY <1>2, <1>5
    <2>2. 1 \in 1 .. n /\ 1 \in 1 .. n - 1
      BY <1>5
    <2>3. c[1] \in D /\ ParentOf(c[1 + 1]) = c[1]
      BY <1>1, <2>2
    <2> QED
      BY <1>1, <1>5, <2>1, <2>3 DEF f, n, D
  <1>6. CASE n = 3
    <2>1. f = <<c[1], c[2]>>
      BY <1>2, <1>6
    <2>2. 1 \in 1 .. n /\ 2 \in 1 .. n /\ 1 \in 1 .. n - 1 /\ 2 \in 1 .. n - 1
      BY <1>6
    <2>3. c[1] \in D /\ c[2] \in D /\ ParentOf(c[1 + 1]) = c[1] /\ ParentOf(c[2 + 1]) = c[2]
      BY <1>1, <2>2
    <2> QED
      BY <1>1, <1>6, <2>1, <2>3 DEF f, n, D
  <1> QED
    <2>1. n = 1 \/ n = 2 \/ n = 3
      BY <1>1, <1>3
    <2> QED
      BY <1>4, <1>5, <1>6, <2>1

LEMMA MapsFit ==
    ASSUME DbInv, ProperIds, Ready, NEW o \in DOMAIN objects, NEW c, Chain(c, o), Len(c) <= 3,
           \/ ancestors = <<>>
           \/ \E m \in DOMAIN objects : \E e :
                 /\ Chain(e, m) /\ Len(e) <= 3 /\ ancestors = Front(e)
                 /\ Len(e) = 3 => Len(c) >= 2 /\ c[1] = e[1]
    PROVE  Remaining(o) \o Opened(o) = Front(c) /\ Len(Front(c)) <= 2
  <1> DEFINE D == DOMAIN objects
             F == ancestors
             G == Front(c)
  <1>0. None \notin D
    BY ObjectFields DEF None
  <1>1. \/ G = <<>> /\ ParentOf(o) = None
        \/ \E g \in D : G = <<g>> /\ ParentOf(o) = g /\ ParentOf(g) = None
        \/ \E g, h \in D : G = <<g, h>> /\ ParentOf(o) = h /\ ParentOf(h) = g /\ ParentOf(g) = None
    BY Shapes
  <1>2. \/ F = <<>>
        \/ \E a \in D : F = <<a>> /\ ParentOf(a) = None
        \/ \E a, b \in D :
              /\ F = <<a, b>> /\ ParentOf(b) = a /\ ParentOf(a) = None
              /\ Len(c) >= 2 /\ c[1] = a
    <2>1. CASE ancestors = <<>>
      BY <2>1
    <2>2. ASSUME NEW m \in DOMAIN objects, NEW e, Chain(e, m), Len(e) <= 3, ancestors = Front(e),
                 Len(e) = 3 => Len(c) >= 2 /\ c[1] = e[1]
          PROVE  <1>2
      BY <2>2, Shapes
    <2> QED
      BY <2>1, <2>2
  <1>3. ASSUME NEW a \in D, Len(c) >= 2, c[1] = a
        PROVE  \/ G = <<a>> /\ ParentOf(o) = a
               \/ \E h \in D : G = <<a, h>> /\ ParentOf(o) = h /\ ParentOf(h) = a
    <2>1. CASE Front(c) = <<>> /\ Len(c) = 1 /\ ParentOf(o) = None
      BY <1>3, <2>1
    <2>2. CASE \E g \in DOMAIN objects :
                 /\ Front(c) = <<g>> /\ Len(c) = 2 /\ c[1] = g
                 /\ ParentOf(o) = g /\ ParentOf(g) = None
      BY <1>3, <2>2
    <2>3. CASE \E g, h \in DOMAIN objects :
                 /\ Front(c) = <<g, h>> /\ Len(c) = 3 /\ c[1] = g
                 /\ ParentOf(o) = h /\ ParentOf(h) = g /\ ParentOf(g) = None
      BY <1>3, <2>3
    <2> QED
      BY <2>1, <2>2, <2>3, Shapes
  <1>8. objects[o].parent = 0 <=> ParentOf(o) = None
    <2>1. CASE Len(c) = 1
      <3>1. objects[o].parent = 0
        BY <2>1 DEF Chain
      <3> QED
        BY <3>1 DEF ParentOf
    <2>2. CASE Len(c) # 1
      <3>1. ParentOf(o) \in D
        BY <2>2, Shapes
      <3> QED
        BY <1>0, <3>1 DEF ParentOf
    <2> QED
      BY <2>1, <2>2
  <1> HIDE DEF D, F, G
  <1>4. Len(G) <= 2
    <2>1. \A x, y : Len(<<>>) <= 2 /\ Len(<<x>>) <= 2 /\ Len(<<x, y>>) <= 2
      OBVIOUS
    <2> QED
      BY <1>1, <2>1
  <1>5. CASE F = <<>>
    <2>1. Remaining(o) = <<>>
      BY <1>5 DEF Remaining, F
    <2>2. CASE G = <<>> /\ ParentOf(o) = None
      <3>1. Opened(o) = <<>>
        BY <2>2 DEF Opened
      <3> QED
        BY <1>4, <2>1, <2>2, <3>1 DEF G
    <2>3. ASSUME NEW g \in D, G = <<g>>, ParentOf(o) = g, ParentOf(g) = None
          PROVE  Remaining(o) \o Opened(o) = G
      <3>1. Opened(o) = <<g>>
        BY <1>0, <2>1, <2>3, Zenon DEF Opened
      <3> QED
        BY <2>1, <2>3, <3>1, FirstAndLast, Zenon
    <2>4. ASSUME NEW g \in D, NEW h \in D,
                 G = <<g, h>>, ParentOf(o) = h, ParentOf(h) = g, ParentOf(g) = None
          PROVE  Remaining(o) \o Opened(o) = G
      <3>1. Opened(o) = <<g, h>>
        BY <1>0, <2>1, <2>4, Zenon DEF Opened
      <3> QED
        BY <2>1, <2>4, <3>1, FirstAndLast, Zenon
    <2> QED
      BY <1>1, <1>4, <2>2, <2>3, <2>4 DEF G
  <1>6. ASSUME NEW a \in D, F = <<a>>, ParentOf(a) = None
        PROVE  Remaining(o) \o Opened(o) = G
    <2>1. F # <<>> /\ Last(F) = a /\ Front(F) = <<>>
      BY <1>6, FirstAndLast
    <2>2. Remaining(o) = IF ParentOf(o) # a /\ (ParentOf(o) = None \/ ParentOf(ParentOf(o)) # a)
                         THEN <<>> ELSE F
      BY <1>8, <2>1, Zenon DEF Remaining, F
    <2>3. CASE G = <<>> /\ ParentOf(o) = None
      <3>1. Remaining(o) = <<>> /\ Opened(o) = <<>>
        BY <1>0, <2>2, <2>3, Zenon DEF Opened
      <3> QED
        BY <2>3, <3>1
    <2>4. ASSUME NEW g \in D, G = <<g>>, ParentOf(o) = g, ParentOf(g) = None
          PROVE  Remaining(o) \o Opened(o) = G
      <3>1. CASE g = a
        <4>1. Remaining(o) = F
          BY <2>2, <2>4, <3>1, Zenon
        <4>2. Opened(o) = <<>>
          BY <2>1, <2>4, <3>1, <4>1, Zenon DEF Opened
        <4> QED
          BY <1>6, <2>4, <3>1, <4>1, <4>2, FirstAndLast, Zenon
      <3>2. CASE g # a
        <4>1. Remaining(o) = <<>>
          BY <1>0, <2>2, <2>4, <3>2, Zenon
        <4>2. Opened(o) = <<g>>
          BY <1>0, <2>4, <4>1, Zenon DEF Opened
        <4> QED
          BY <2>4, <4>1, <4>2, FirstAndLast, Zenon
      <3> QED
        BY <3>1, <3>2
    <2>5. ASSUME NEW g \in D, NEW h \in D,
                 G = <<g, h>>, ParentOf(o) = h, ParentOf(h) = g, ParentOf(g) = None
          PROVE  Remaining(o) \o Opened(o) = G
      <3>1. h # a
        BY <1>0, <1>6, <2>5, Zenon
      <3>2. CASE g = a
        <4>1. Remaining(o) = F
          BY <1>0, <2>2, <2>5, <3>2, Zenon
        <4>2. Opened(o) = <<h>>
          BY <1>0, <2>1, <2>5, <3>1, <4>1, Zenon DEF Opened
        <4>3. <<a>> \o <<h>> = <<a, h>>
          BY FirstAndLast
        <4> QED
          BY <1>6, <2>5, <3>2, <4>1, <4>2, <4>3, Zenon
      <3>3. CASE g # a
        <4>1. Remaining(o) = <<>>
          BY <2>2, <2>5, <3>1, <3>3, Zenon
        <4>2. Opened(o) = <<g, h>>
          BY <1>0, <2>5, <4>1, Zenon DEF Opened
        <4> QED
          BY <2>5, <4>1, <4>2, FirstAndLast, Zenon
      <3> QED
        BY <3>2, <3>3
    <2> QED
      BY <1>1, <2>3, <2>4, <2>5
  <1>7. ASSUME NEW a \in D, NEW b \in D, F = <<a, b>>, ParentOf(b) = a, ParentOf(a) = None,
               Len(c) >= 2, c[1] = a
        PROVE  Remaining(o) \o Opened(o) = G
    <2>1. F # <<>> /\ Last(F) = b /\ Front(F) = <<a>> /\ <<a>> # <<>> /\ Last(<<a>>) = a
      BY <1>7, FirstAndLast
    <2>2. Remaining(o) = IF ParentOf(o) # b /\ (ParentOf(o) = None \/ ParentOf(ParentOf(o)) # b)
                         THEN <<a>> ELSE F
      BY <1>8, <2>1, Zenon DEF Remaining, F
    <2>3. a # b
      BY <1>0, <1>7, Zenon
    <2>4. CASE G = <<a>> /\ ParentOf(o) = a
      <3>1. Remaining(o) = <<a>>
        BY <1>0, <1>7, <2>2, <2>3, <2>4, Zenon
      <3>2. Opened(o) = <<>>
        BY <2>1, <2>4, <3>1, Zenon DEF Opened
      <3> QED
        BY <2>4, <3>1, <3>2, FirstAndLast, Zenon
    <2>5. ASSUME NEW h \in D, G = <<a, h>>, ParentOf(o) = h, ParentOf(h) = a
          PROVE  Remaining(o) \o Opened(o) = G
      <3>1. CASE h = b
        <4>1. Remaining(o) = F
          BY <2>2, <2>5, <3>1, Zenon
        <4>2. Opened(o) = <<>>
          BY <2>1, <2>5, <3>1, <4>1, Zenon DEF Opened
        <4>3. <<a, b>> \o <<>> = <<a, b>>
          BY FirstAndLast
        <4> QED
          BY <1>7, <2>5, <3>1, <4>1, <4>2, <4>3, Zenon
      <3>2. CASE h # b
        <4>1. Remaining(o) = <<a>>
          BY <2>2, <2>3, <2>5, <3>2, Zenon
        <4>2. h # a
          BY <1>0, <1>7, <2>5, Zenon
        <4>3. Opened(o) = <<h>>
          BY <1>0, <2>1, <2>5, <4>1, <4>2, Zenon DEF Opened
        <4> QED
          BY <2>5, <4>1, <4>3, FirstAndLast, Zenon
      <3> QED
        BY <3>1, <3>2
    <2> QED
      BY <1>3, <1>7, <2>4, <2>5
  <1> QED
    BY <1>2, <1>4, <1>5, <1>6, <1>7, Zenon DEF G

(***************************************************************************)
(* Databases nested two deep, and subsets of which one map at most has to  *)
(* be closed between two objects, in terms of chains.                      *)
(***************************************************************************)
Shallow == \A o \in members : \A c : Chain(c, o) => Len(c) <= 3
Gradual ==
    \A x, y \in members :
        x < y /\ (\A z \in members : ~(x < z /\ z < y)) =>
            \A e, c : Chain(e, x) /\ Chain(c, y) /\ Len(e) = 3 => Len(c) >= 2 /\ c[1] = e[1]

(* The maps that are open are those of the member before.                  *)
MapsLeft ==
    \/ ancestors = <<>>
    \/ \E m \in members : \E e :
          /\ m < next /\ \A z \in members : z < next => z <= m
          /\ Chain(e, m) /\ ancestors = Front(e)

NestInv ==
    pc # "idle" =>
        /\ Ready
        /\ Shallow /\ Gradual =>
              /\ ItemsIn(out) /\ pc # "overflow"
              /\ pc = "loop" => Stack(out, Len(out), ancestors) /\ MapsLeft

LEMMA NextMaps ==
    ASSUME ProperIds, DbInv, Ready, Shallow, Gradual, MapsLeft, next \in members,
           NEW c, Chain(c, next)
    PROVE  Remaining(next) \o Opened(next) = Front(c) /\ Len(Front(c)) <= 2
  <1>1. members \subseteq DOMAIN objects /\ next \in DOMAIN objects
    BY DEF DbInv, DbType
  <1>2. Len(c) <= 3
    BY <1>1 DEF Shallow
  <1>3. ASSUME NEW m \in members, NEW e,
               m < next, \A z \in members : z < next => z <= m, Chain(e, m), ancestors = Front(e)
        PROVE  m \in DOMAIN objects /\ Len(e) <= 3 /\ (Len(e) = 3 => Len(c) >= 2 /\ c[1] = e[1])
    <2>1. m \in DOMAIN objects /\ Len(e) <= 3
      BY <1>1, <1>3 DEF Shallow
    <2>2. \A z \in members : z \in Int
      BY <1>1, ObjectFields
    <2>3. \A z \in members : ~(m < z /\ z < next)
      BY <1>3, <2>2
    <2>4. \A f, d : Chain(f, m) /\ Chain(d, next) /\ Len(f) = 3 => Len(d) >= 2 /\ d[1] = f[1]
      BY <1>1, <1>3, <2>3 DEF Gradual
    <2> QED
      BY <1>3, <2>1, <2>4, Zenon
  <1>4. \/ ancestors = <<>>
        \/ \E m \in DOMAIN objects : \E e :
              /\ Chain(e, m) /\ Len(e) <= 3 /\ ancestors = Front(e)
              /\ Len(e) = 3 => Len(c) >= 2 /\ c[1] = e[1]
    BY <1>3, Zenon DEF MapsLeft
  <1> QED
    BY <1>1, <1>2, <1>4, MapsFit

LEMMA SerializeNests ==
    ASSUME ProperIds, ProperParents, DbInv, ReportInv, NestInv, Shallow, Gradual,
           NEW w, NEW n, Serialize(w, n)
    PROVE  /\ Nest(out', ancestors')
           /\ \E c : Chain(c, next) /\ ancestors' = Front(c)
  <1> DEFINE D == DOMAIN objects
             left == Remaining(next)
             opened == Opened(next)
  <1>1. PICK base \in Seq(Symbols), mid \in Seq(Symbols) :
              /\ \/ base = out /\ left = ancestors
                 \/ /\ ancestors # <<>> /\ Len(left) = Len(ancestors) - 1
                    /\ base = Append(Append(Front(out), Close), Comma)
              /\ \/ opened = <<>> /\ mid = base
                 \/ \E a \in D : opened = <<a>> /\ mid = Append(base, Open(objects[a].name))
                 \/ \E a, b \in D :
                       /\ opened = <<a, b>>
                       /\ mid = Append(Append(base, Open(objects[a].name)),
                                       Open(objects[b].name))
              /\ out' = Append(Append(mid, Value(next)), Comma)
    BY SerializeParts
  <1>2. /\ next \in D /\ ancestors \in Seq(D) /\ Len(ancestors) \in Nat /\ out \in Seq(Symbols)
        /\ pc = "loop" /\ next \in members /\ ancestors' = left \o opened
    BY SMTT(30) DEF Serialize, AtMember, MapsOf, ReportInv, ReportType, DbInv, DbType
  <1>3. /\ Close \in Symbols /\ Comma \in Symbols
        /\ \A o \in D : Value(o) \in Symbols /\ Open(objects[o].name) \in Symbols
    BY SymbolsTyped
  <1>4. out # <<>> /\ (ancestors # <<>> => out[Len(out)].k = "comma")
    BY <1>2 DEF ReportInv, LoopInv
  <1>5. /\ left \in Seq(D) /\ opened \in Seq(D)
        /\ left = ancestors \/ (ancestors # <<>> /\ left = Front(ancestors))
    BY <1>2, MapsType
  <1>6. Nest(out, ancestors) /\ Ready /\ MapsLeft
    BY <1>2 DEF NestInv, Nest
  <1>7. \A c : Chain(c, next) => ancestors' = Front(c)
    BY <1>2, <1>6, NextMaps
  <1>8. PICK c : Chain(c, next)
    BY <1>2, ChainExists
  <1> HIDE DEF left, opened, D
  <1>9. Nest(base, left)
    <2>1. CASE base = out /\ left = ancestors
      BY <1>6, <2>1
    <2>2. CASE /\ ancestors # <<>> /\ Len(left) = Len(ancestors) - 1
               /\ base = Append(Append(Front(out), Close), Comma)
      <3> DEFINE f == Front(out)
      <3>1. f \in Seq(Symbols) /\ Nest(f, ancestors)
        BY <1>2, <1>4, <1>6, <2>2, FrontOf, NestShrinks
      <3>2. left = Front(ancestors)
        <4>1. Len(left) # Len(ancestors)
          BY <1>2, <2>2
        <4> QED
          BY <1>5, <4>1
      <3> HIDE DEF f
      <3>3. Append(f, Close) \in Seq(Symbols)
        BY <1>3, <3>1, AppendOf
      <3>4. Nest(Append(f, Close), left)
        BY <1>2, <1>3, <2>2, <3>1, <3>2, NestCloses
      <3>5. Nest(Append(Append(f, Close), Comma), left)
        BY <1>3, <1>5, <3>3, <3>4, NestComma
      <3> QED
        BY <2>2, <3>5 DEF f
    <2> QED
      BY <1>1, <2>1, <2>2
  <1>10. Nest(mid, left \o opened)
    <2>1. CASE opened = <<>> /\ mid = base
      <3>1. left \o opened = left
        BY <1>5, <2>1
      <3> QED
        BY <1>9, <2>1, <3>1
    <2>2. ASSUME NEW a \in D, opened = <<a>>, mid = Append(base, Open(objects[a].name))
          PROVE  Nest(mid, left \o opened)
      <3>1. left \o opened = Append(left, a)
        BY <1>5, <2>2
      <3>2. Nest(mid, Append(left, a))
        BY <1>3, <1>5, <1>9, <2>2, NestOpens
      <3> QED
        BY <3>1, <3>2
    <2>3. ASSUME NEW a \in D, NEW b \in D, opened = <<a, b>>,
                 mid = Append(Append(base, Open(objects[a].name)), Open(objects[b].name))
          PROVE  Nest(mid, left \o opened)
      <3> DEFINE first == Append(base, Open(objects[a].name))
                 outer == Append(left, a)
      <3>1. left \o opened = Append(outer, b)
        BY <1>5, <2>3, AppendTwo
      <3>2. first \in Seq(Symbols) /\ outer \in Seq(D)
        BY <1>3, <1>5, AppendOf
      <3>3. Nest(first, outer)
        BY <1>3, <1>5, <1>9, NestOpens
      <3> HIDE DEF outer, first
      <3>4. Nest(Append(first, Open(objects[b].name)), Append(outer, b))
        BY <1>3, <3>2, <3>3, NestOpens
      <3> QED
        BY <2>3, <3>1, <3>4 DEF first
    <2> QED
      BY <1>1, <2>1, <2>2, <2>3
  <1> DEFINE maps == left \o opened
             s == Append(mid, Value(next))
  <1>11. maps \in Seq(D)
    BY <1>5
  <1>12. s \in Seq(Symbols)
    BY <1>2, <1>3, AppendOf
  <1>13. Nest(mid, maps) /\ \A d : Chain(d, next) => Front(d) = maps
    BY <1>2, <1>7, <1>10
  <1> HIDE DEF maps
  <1>14. Nest(s, maps)
    BY <1>2, <1>3, <1>11, <1>13, NestItem DEF D
  <1> HIDE DEF s
  <1>15. Nest(Append(s, Comma), maps)
    BY <1>3, <1>11, <1>12, <1>14, NestComma
  <1>16. out' = Append(s, Comma) /\ ancestors' = maps
    BY <1>1, <1>2 DEF s, maps
  <1>17. Nest(out', ancestors')
    BY <1>15, <1>16
  <1>18. ancestors' = Front(c)
    BY <1>7, <1>8
  <1> QED
    BY <1>8, <1>17, <1>18

LEMMA DatabaseStays ==
    ASSUME objects' = objects, members' = members
    PROVE  Shallow' = Shallow /\ Gradual' = Gradual
  BY DEF Shallow, Gradual, Chain

LEMMA NestStays ==
    ASSUME objects' = objects
    PROVE  /\ ItemsIn(out') => ItemsIn(out)'
           /\ Stack(out', Len(out'), ancestors') => Stack(out, Len(out), ancestors)'
  <1>1. ASSUME ItemsIn(out'), NEW j \in 1 .. Len(out'), out'[j].k = "item", NEW c,
               Chain(c, out[j].o)'
        PROVE  out'[j].o \in DOMAIN objects' /\ Stack(out, j, Front(c))'
    <2>1. Chain(c, out'[j].o)
      BY <1>1 DEF Chain
    <2>2. out'[j].o \in DOMAIN objects /\ Stack(out', j, Front(c))
      BY <1>1, <2>1 DEF ItemsIn
    <2>3. Stack(out, j, Front(c))'
      BY <2>2 DEF Stack, Enclosing, Depth, Count
    <2> QED
      BY <2>2, <2>3
  <1>2. ASSUME ItemsIn(out'), NEW j \in 1 .. Len(out'), out'[j].k = "item"
        PROVE  out'[j].o \in DOMAIN objects'
    BY <1>2 DEF ItemsIn
  <1>3. ItemsIn(out') => ItemsIn(out)'
    BY <1>1, <1>2, Zenon DEF ItemsIn
  <1>4. Stack(out', Len(out'), ancestors') => Stack(out, Len(out), ancestors)'
    BY DEF Stack, Enclosing, Depth, Count
  <1> QED
    BY <1>3, <1>4

Filled(s, n, x) == s \o [j \in 1 .. n |-> x]

LEMMA SameBehind ==
    ASSUME NEW S, NEW s \in Seq(S), NEW n \in Nat, NEW x \in S
    PROVE  /\ Len(Filled(s, n, x)) = Len(s) + n
           /\ \A j \in 1 .. Len(s) : Filled(s, n, x)[j] = s[j]
           /\ \A j \in Len(s) + 1 .. Len(s) + n : Filled(s, n, x)[j] = x
  <1> DEFINE c == [j \in 1 .. n |-> x]
             t == Filled(s, n, x)
  <1>1. c \in Seq(S) /\ Len(c) = n /\ \A j \in 1 .. n : c[j] = x
    OBVIOUS
  <1>2. t = s \o c
    BY DEF Filled
  <1> HIDE DEF c, t
  <1>3. /\ Len(t) = Len(s) + n /\ Len(s) \in Nat
        /\ \A j \in 1 .. Len(s) : t[j] = s[j]
        /\ \A j \in 1 .. n : t[Len(s) + j] = x
    <2>1. /\ Len(t) = Len(s) + Len(c) /\ Len(s) \in Nat
          /\ \A k \in 1 .. Len(s) : t[k] = s[k]
          /\ \A k \in 1 .. Len(c) : t[Len(s) + k] = c[k]
      <3>1. c \in Seq(S)
        BY <1>1
      <3> QED
        BY <1>2, <3>1, CatPlaces
    <2> QED
      BY <1>1, <2>1
  <1>4. \A j \in Len(s) + 1 .. Len(s) + n : t[j] = x
    <2>1. \A j \in Len(s) + 1 .. Len(s) + n : j - Len(s) \in 1 .. n /\ Len(s) + (j - Len(s)) = j
      BY <1>3
    <2> QED
      BY <1>3, <2>1, Zenon
  <1> QED
    BY <1>3, <1>4 DEF t

LEMMA NestStep ==
    ASSUME ProperIds, ProperParents, DbInv, ReportInv, NestInv, [Next]_vars
    PROVE  NestInv'
  <1>1. ASSUME NEW w, NEW n \in Lengths, Serialize(w, n) PROVE NestInv'
    <2>1. /\ UNCHANGED <<objects, members, appended>>
          /\ pc = "loop" /\ next \in members /\ members \subseteq Nat
      BY <1>1 DEF Serialize, AtMember, dbVars, tables, iteration, DbInv, DbType
    <2>4. next' = next + 1 /\ pc' \in {"loop", "error"}
      BY <1>1, SerializeHasRoom
    <2>2. Ready'
      BY <2>1 DEF NestInv, Ready
    <2>3. ASSUME Shallow, Gradual
          PROVE  ItemsIn(out)' /\ Stack(out, Len(out), ancestors)' /\ MapsLeft'
      <3>1. Nest(out', ancestors')
        BY <1>1, <2>3, SerializeNests
      <3>2. PICK c : Chain(c, next) /\ ancestors' = Front(c)
        BY <1>1, <2>3, SerializeNests
      <3>3. ItemsIn(out)' /\ Stack(out, Len(out), ancestors)'
        BY <2>1, <3>1, NestStays DEF Nest
      <3>4. next < next' /\ \A z \in members' : z < next' => z <= next
        BY <2>1, <2>4
      <3>5. MapsLeft'
        <4>1. ancestors' = Front(c) /\ next \in members'
          BY <2>1, <3>2
        <4>2. Chain(c, next)
          BY <3>2
        <4> QED
          BY <2>1, <3>4, <4>1, <4>2 DEF MapsLeft, Chain
      <3> QED
        BY <3>1, <3>3, <3>5
    <2> QED
      BY <2>1, <2>2, <2>3, <2>4, DatabaseStays DEF NestInv
  <1>2. ASSUME NEW s \in RspSizes, NEW h \in HeaderLengths, Start(s, h) PROVE NestInv'
    <2>1. /\ pc = "idle" /\ pc' = "loop" /\ out' = <<Open(NoName)>> /\ Ready
          /\ UNCHANGED <<objects, members, appended, next, ancestors>>
      BY <1>2 DEF Start, dbVars, tables, iteration
    <2>2. ancestors' = <<>>
      BY <2>1 DEF ReportInv, IdleInv
    <2> DEFINE x == Open(NoName)
               none == <<>>
    <2>3. x.k = "open" /\ x \in {x} /\ none \in Seq({x}) /\ out' = Append(none, x) /\ Turn(x) = 1
      BY <2>1 DEF Open, Turn
    <2>4. Len(none) = 0 /\ Depth(none, 0) = 0 /\ Enclosing(none, 0) = {}
      BY DepthSteps DEF Enclosing
    <2>5. Len(out') = 1 /\ out'[1] = x
      BY <2>1
    <2> HIDE DEF x, none
    <2>6. Depth(out', 1) = 1 /\ Enclosing(out', 1) = {1}
      <3>1. /\ Depth(Append(none, x), Len(none) + 1) = Depth(none, Len(none)) + Turn(x)
            /\ Enclosing(Append(none, x), Len(none) + 1) =
                  {i \in Enclosing(none, Len(none)) :
                      Depth(none, i) <= Depth(Append(none, x), Len(none) + 1)}
                  \cup (IF x.k = "open" THEN {Len(none) + 1} ELSE {})
        BY <2>3, EnclosingSteps
      <3> QED
        BY <2>3, <2>4, <3>1
    <2>7. Stack(out', Len(out'), ancestors')
      BY <2>2, <2>5, <2>6 DEF Stack
    <2>8. ItemsIn(out')
      BY <2>3, <2>5 DEF ItemsIn
    <2>9. ItemsIn(out)' /\ Stack(out, Len(out), ancestors)'
      BY <2>1, <2>7, <2>8, NestStays
    <2> QED
      BY <2>1, <2>2, <2>9 DEF NestInv, MapsLeft, Ready
  <1>3. CASE Skip
    <2>1. /\ pc = "loop" /\ next \notin members /\ EndRound(pos, Len(ancestors))
          /\ UNCHANGED <<objects, members, appended, ancestors, out>>
      BY <1>3 DEF Skip, dbVars, tables, iteration
    <2>2. /\ next \in Nat /\ members \subseteq Nat /\ pos \in Nat /\ Len(ancestors) \in Nat
          /\ size \in RspSizes /\ Len(ancestors) + 1 <= pos /\ pos <= size
      BY <2>1 DEF ReportInv, ReportType, RoomInv, DbInv, DbType
    <2>8. next' = next + 1 /\ pc' \in {"loop", "error"}
      BY <2>1, <2>2, RoundEnds
    <2>3. \A m \in members : m < next <=> m < next'
      BY <2>1, <2>2, <2>8
    <2>4. ItemsIn(out) => ItemsIn(out)'
      BY <2>1, NestStays
    <2>5. Stack(out, Len(out), ancestors) => Stack(out, Len(out), ancestors)'
      BY <2>1, NestStays
    <2>6. MapsLeft => MapsLeft'
      BY <2>1, <2>3 DEF MapsLeft, Chain
    <2>7. Ready => Ready'
      BY <2>1 DEF Ready
    <2> QED
      BY <2>1, <2>4, <2>5, <2>6, <2>7, <2>8, DatabaseStays DEF NestInv
  <1>4. ASSUME NEW w, NEW n \in Lengths, NEW e \in ErrorCodes, Refuse(w, n, e) \/ NameTooLong(w)
        PROVE  NestInv'
    <2>1. /\ pc = "loop" /\ UNCHANGED <<objects, members, appended, out>>
      BY <1>4 DEF Refuse, NameTooLong, AtMember, dbVars, tables, iteration
    <2>2. pc' = "outside"
      BY <1>4, RefusedOutside DEF NameTooLong
    <2>3. ItemsIn(out) => ItemsIn(out)'
      BY <2>1, NestStays
    <2>4. Ready => Ready'
      BY <2>1 DEF Ready
    <2> QED
      BY <2>1, <2>2, <2>3, <2>4, DatabaseStays DEF NestInv
  <1>8. CASE Overflow
    <2>1. /\ pc = "loop" /\ next \in members /\ Len(MapsOf(next)) > AncestorsSize
          /\ pc' = "overflow" /\ UNCHANGED <<objects, members, appended>>
      BY <1>8 DEF Overflow, dbVars, tables, iteration
    <2>2. Ready'
      BY <2>1 DEF NestInv, Ready
    <2>3. ~(Shallow /\ Gradual)
      <3> SUFFICES ASSUME Shallow, Gradual PROVE FALSE
        OBVIOUS
      <3>1. next \in DOMAIN objects
        BY <2>1 DEF DbInv, DbType
      <3>2. PICK c : Chain(c, next)
        BY <3>1, ChainExists
      <3>3. Ready /\ MapsLeft
        BY <2>1 DEF NestInv
      <3>4. Remaining(next) \o Opened(next) = Front(c) /\ Len(Front(c)) <= 2
        BY <2>1, <3>2, <3>3, NextMaps
      <3>5. MapsOf(next) = Front(c) /\ Front(c) \in Seq(DOMAIN objects)
        <4>1. c \in Seq(DOMAIN objects) /\ c # <<>>
          BY <3>2 DEF Chain
        <4> QED
          BY <3>4, <4>1, FrontOf DEF MapsOf
      <3> QED
        BY <2>1, <3>4, <3>5 DEF AncestorsSize
    <2> QED
      BY <2>1, <2>2, <2>3, DatabaseStays DEF NestInv
  <1>9. ASSUME NEW s \in RspSizes, NEW h \in HeaderLengths, HeaderTooLong(s, h) PROVE NestInv'
    <2>1. /\ pc = "idle" /\ pc' \in {"error", "outside"} /\ Ready
          /\ UNCHANGED <<objects, members, appended, out>>
      BY <1>9 DEF HeaderTooLong, dbVars, tables, iteration
    <2>2. ItemsIn(out)'
      <3>1. out' = <<>>
        BY <2>1 DEF ReportInv, IdleInv
      <3>2. Len(<<>>) = 0
        OBVIOUS
      <3> QED
        BY <3>1, <3>2 DEF ItemsIn
    <2>3. Ready'
      BY <2>1 DEF Ready
    <2> QED
      BY <2>1, <2>2, <2>3 DEF NestInv
  <1>5. CASE CloseAll
    <2> DEFINE n == Len(ancestors) + 1
               s == Front(out)
    <2>0. out' = Filled(s, n, Close)
      BY <1>5, Zenon DEF CloseAll, Filled
    <2>1. /\ pc = "loop" /\ pc' = "done" /\ UNCHANGED <<objects, members, appended>>
      BY <1>5 DEF CloseAll, dbVars, tables, iteration
    <2>2. out \in Seq(Symbols) /\ out # <<>> /\ n \in Nat
      BY <2>1 DEF ReportInv, ReportType, LoopInv
    <2>3. /\ s \in Seq(Symbols) /\ Len(s) = Len(out) - 1 /\ Len(out) \in Nat \ {0}
          /\ \A j \in 1 .. Len(out) - 1 : s[j] = out[j]
      BY <2>2, FrontOf
    <2>4. Close \in Symbols
      BY SymbolsTyped
    <2> HIDE DEF n, s
    <2>5. /\ Len(out') = Len(s) + n
          /\ \A j \in 1 .. Len(s) : out'[j] = s[j]
          /\ \A j \in Len(s) + 1 .. Len(s) + n : out'[j] = Close
      <3> DEFINE f == Filled(s, n, Close)
      <3>1. s \in Seq(Symbols) /\ n \in Nat
        BY <2>2, <2>3
      <3>2. Len(f) = Len(s) + n
        BY <2>4, <3>1, SameBehind
      <3>3. \A j \in 1 .. Len(s) : f[j] = s[j]
        BY <2>4, <3>1, SameBehind
      <3>4. \A j \in Len(s) + 1 .. Len(s) + n : f[j] = Close
        BY <2>4, <3>1, SameBehind
      <3> QED
        BY <2>0, <3>2, <3>3, <3>4, Zenon
    <2>9. ASSUME ItemsIn(out) PROVE ItemsIn(out')
      <3>1. ASSUME NEW j \in 1 .. Len(out')
            PROVE  out'[j].k # "item" \/ (j \in 1 .. Len(out) /\ \A i \in 1 .. j : out[i] = out'[i])
        <4>1. CASE j \in 1 .. Len(s)
          <5>1. \A i \in 1 .. j : i \in 1 .. Len(s) /\ i \in 1 .. Len(out) - 1
            BY <2>3, <4>1
          <5>2. \A i \in 1 .. j : out'[i] = out[i]
            BY <2>3, <2>5, <5>1
          <5>3. j \in 1 .. Len(out)
            BY <2>3, <4>1
          <5> QED
            BY <5>2, <5>3
        <4>2. CASE j \in Len(s) + 1 .. Len(s) + n
          BY <2>5, <4>2 DEF Close
        <4>3. j \in 1 .. Len(s) \/ j \in Len(s) + 1 .. Len(s) + n
          BY <2>2, <2>3, <2>5
        <4> QED
          BY <4>1, <4>2, <4>3
      <3>2. Len(out') \in Nat
        BY <2>2, <2>3, <2>5
      <3> QED
        BY <2>9, <3>1, <3>2, ItemsStay
    <2>10. ItemsIn(out) => ItemsIn(out)'
      BY <2>1, <2>9, NestStays
    <2>11. Ready => Ready'
      BY <2>1 DEF Ready
    <2> QED
      BY <2>1, <2>10, <2>11, DatabaseStays DEF NestInv
  <1>6. CASE Database
    BY <1>6 DEF Database, reportVars, NestInv
  <1>7. CASE UNCHANGED vars
    <2>1. UNCHANGED <<objects, members, appended, pc, next, ancestors, out>>
      BY <1>7 DEF vars, dbVars, tables, reportVars
    <2>2. (ItemsIn(out) => ItemsIn(out)')
          /\ (Stack(out, Len(out), ancestors) => Stack(out, Len(out), ancestors)')
      BY <2>1, NestStays
    <2>3. (MapsLeft => MapsLeft') /\ (Ready => Ready')
      BY <2>1 DEF MapsLeft, Chain, Ready
    <2> QED
      BY <2>1, <2>2, <2>3, DatabaseStays DEF NestInv
  <1> QED
    <2>1. ASSUME NEW w, NameTooLong(w) PROVE NestInv'
      <3>1. pc' = "outside" /\ pc = "loop" /\ UNCHANGED <<objects, members, appended, out>>
        BY <2>1 DEF NameTooLong, AtMember, dbVars, tables, iteration
      <3>2. (ItemsIn(out) => ItemsIn(out)') /\ (Ready => Ready')
        BY <3>1, NestStays DEF Ready
      <3> QED
        BY <3>1, <3>2, DatabaseStays DEF NestInv
    <2> QED
      BY <1>1, <1>2, <1>3, <1>4, <1>5, <1>6, <1>7, <1>8, <1>9, <2>1 DEF Next

LEMMA NestInvariance ==
    ASSUME ProperIds, ProperParents
    PROVE  Spec => [](DbInv /\ ReportInv /\ NestInv)
  <1>1. Init => NestInv
    BY DEF Init, NestInv
  <1>2. DbInv /\ ReportInv /\ NestInv /\ [Next]_vars => NestInv'
    BY NestStep
  <1> QED
    BY <1>1, <1>2, ReportInvariance, PTL DEF Spec

(***************************************************************************)
(* What the property says of paths, in terms of chains.                    *)
(***************************************************************************)
LEMMA NamesOfPath ==
    ASSUME DbInv, ProperIds, ProperParents, Ready, NEW o \in DOMAIN objects, NEW c, Chain(c, o)
    PROVE  /\ PathOf(o) = Names(c) /\ c \in Seq(DOMAIN objects) /\ c # <<>> /\ Len(c) \in Nat \ {0}
           /\ Len(PathOf(o)) = Len(c)
           /\ \A j \in 1 .. Len(c) : PathOf(o)[j] = Segment(objects[c[j]].name)
  <1>1. c = TheChain(o)
    BY ChainIs, ChainUnique
  <1>2. PathOf(o) = Names(c)
    BY <1>1, PathIsNames
  <1>3. c \in Seq(DOMAIN objects) /\ c # <<>> /\ Len(c) \in Nat \ {0}
    BY DEF Chain
  <1>4. Len(Names(c)) = Len(c) /\ \A j \in 1 .. Len(c) : Names(c)[j] = Segment(objects[c[j]].name)
    BY <1>3 DEF Names
  <1> QED
    BY <1>2, <1>3, <1>4

LEMMA TwoDeepIsShallow ==
    ASSUME DbInv, ProperIds, ProperParents, Ready, TwoDeep
    PROVE  Shallow
  <1> SUFFICES ASSUME NEW o \in members, NEW c, Chain(c, o) PROVE Len(c) <= 3
    BY DEF Shallow
  <1>1. o \in DOMAIN objects
    BY DEF DbInv, DbType
  <1>2. Len(PathOf(o)) = Len(c)
    BY <1>1, NamesOfPath
  <1> QED
    BY <1>2 DEF TwoDeep

LEMMA Prefix ==
    ASSUME NEW S, NEW s \in Seq(S), NEW k \in 1 .. Len(s)
    PROVE  Len(SubSeq(s, 1, k)) = k /\ SubSeq(s, 1, k)[1] = s[1]
  OBVIOUS

LEMMA OneLevelIsGradual ==
    ASSUME DbInv, ProperIds, ProperParents, ProperNames, Ready, OneLevelAtATime
    PROVE  Gradual
  <1> SUFFICES ASSUME NEW x \in members, NEW y \in members,
                      x < y, \A z \in members : ~(x < z /\ z < y),
                      NEW e, NEW c, Chain(e, x), Chain(c, y), Len(e) = 3,
                      ~(Len(c) >= 2 /\ c[1] = e[1])
               PROVE  FALSE
    BY DEF Gradual
  <1> DEFINE p == PathOf(x)
             q == PathOf(y)
             one == SubSeq(p, 1, 1)
             two == SubSeq(p, 1, 2)
             D == DOMAIN objects
             T == {Segment(objects[i].name) : i \in D}
  <1>1. x \in D /\ y \in D /\ x \in Int /\ y \in Int /\ \A z \in members : z \in Int
    BY ObjectFields DEF DbInv, DbType
  <1>2. Leaves(x, y) <= 1
    <2>1. \A z \in x + 1 .. y - 1 : z \notin members
      BY <1>1
    <2> QED
      BY <2>1 DEF OneLevelAtATime
  <1>3. /\ e \in Seq(D) /\ Len(p) = 3
        /\ \A j \in 1 .. 3 : p[j] = Segment(objects[e[j]].name) /\ e[j] \in D
    BY <1>1, NamesOfPath
  <1>4. /\ c \in Seq(D) /\ Len(q) = Len(c) /\ Len(c) \in Nat \ {0}
        /\ \A j \in 1 .. Len(c) : q[j] = Segment(objects[c[j]].name) /\ c[j] \in D
    BY <1>1, NamesOfPath
  <1>5. p \in Seq(T) /\ q \in Seq(T)
    <2>1. p = Names(e) /\ q = Names(c)
      BY <1>1, NamesOfPath
    <2> QED
      BY <1>3, <1>4, <2>1 DEF Names
  <1> HIDE DEF p, q, T, D
  <1>6. Len(one) = 1 /\ one[1] = p[1] /\ Len(two) = 2 /\ two[1] = p[1]
    BY <1>3, <1>5, Prefix
  <1>7. ASSUME NEW j \in 1 .. Len(q) - 1
        PROVE  Len(SubSeq(q, 1, j)) = j /\ SubSeq(q, 1, j)[1] = q[1]
    BY <1>4, <1>5, Prefix
  <1>8. ASSUME NEW g, g[1] = p[1], g \in {SubSeq(q, 1, j) : j \in 1 .. Len(q) - 1}
        PROVE  FALSE
    <2>1. PICK j \in 1 .. Len(q) - 1 : g = SubSeq(q, 1, j)
      BY <1>8
    <2>2. Len(c) >= 2 /\ q[1] = p[1]
      BY <1>4, <1>7, <1>8, <2>1
    <2>3. q[1] = Segment(objects[c[1]].name) /\ c[1] \in D
      BY <1>4
    <2>4. p[1] = Segment(objects[e[1]].name) /\ e[1] \in D
      BY <1>3
    <2>5. objects[c[1]].name = objects[e[1]].name
      <3>1. \A name : Segment(name).s = name
        BY DEF Segment
      <3>2. Segment(objects[c[1]].name) = Segment(objects[e[1]].name)
        BY <2>2, <2>3, <2>4
      <3> QED
        BY <3>1, <3>2, Zenon
    <2>6. objects[c[1]].parent = 0 /\ objects[e[1]].parent = 0
      BY DEF Chain
    <2>7. objects \in Databases
      BY DEF DbInv, DbType
    <2>8. c[1] = e[1]
      BY <2>3, <2>4, <2>5, <2>6, <2>7, Zenon DEF ProperNames, D
    <2> QED
      BY <2>2, <2>8
  <1>9. Groups(x) = {one, two}
    <2>1. Groups(x) = {SubSeq(p, 1, j) : j \in 1 .. 2}
      BY <1>3 DEF Groups, p
    <2>2. 1 .. 2 = {1, 2}
      OBVIOUS
    <2> QED
      BY <2>1, <2>2
  <1>10. Groups(y) = {SubSeq(q, 1, j) : j \in 1 .. Len(q) - 1}
    BY DEF Groups, q
  <1> HIDE DEF one, two
  <1>11. Groups(x) \ Groups(y) = {one, two}
    BY <1>6, <1>8, <1>9, <1>10
  <1>12. Cardinality({one, two}) = 2
    <2>1. one # two
      BY <1>6
    <2>2. IsFiniteSet({one}) /\ Cardinality({one}) = 1
      BY FS_Singleton
    <2>3. Cardinality({one} \cup {two}) = 1 + 1
      BY <2>1, <2>2, FS_AddElement
    <2>4. {one, two} = {one} \cup {two}
      OBVIOUS
    <2> QED
      BY <2>3, <2>4
  <1>13. Leaves(x, y) = 2
    BY <1>11, <1>12, Zenon DEF Leaves
  <1> QED
    BY <1>2, <1>13

LEMMA WithinIs ==
    ASSUME NEW D, NEW a \in Seq(D), NEW j \in Nat, Stack(out, j, a)
    PROVE  Within(j) = [h \in 2 .. Len(a) + 1 |-> objects[a[h - 1]].name]
  <1> DEFINE n == Len(a) + 1
             E == Enclosing(out, j)
             depth == [h \in 1 .. n |-> CHOOSE i \in E : Depth(out, i) = h]
  <1>1. n \in Nat
    OBVIOUS
  <1>2. /\ \A i \in E : Depth(out, i) \in 1 .. n
        /\ \A i \in E : Depth(out, i) > 1 => out[i].s = objects[a[Depth(out, i) - 1]].name
        /\ \A h \in 1 .. n : \E i \in E : Depth(out, i) = h
        /\ \A i, m \in E : Depth(out, i) = Depth(out, m) => i = m
    BY DEF Stack
  <1> HIDE DEF n, E
  <1>3. \A h \in 1 .. n : depth[h] \in E /\ Depth(out, depth[h]) = h
    BY <1>2
  <1>4. depth \in [1 .. n -> E]
    BY <1>3
  <1> HIDE DEF depth
  <1>5. depth \in Bijection(1 .. n, E)
    <2>1. \A g, h \in 1 .. n : depth[g] = depth[h] => g = h
      BY <1>3
    <2>2. \A i \in E : \E h \in 1 .. n : depth[h] = i
      BY <1>2, <1>3
    <2> QED
      BY <1>4, <2>1, <2>2 DEF Bijection, Injection, Surjection, IsInjective
  <1>6. Cardinality(E) = n
    BY <1>1, <1>5, FS_CountingElements DEF ExistsBijection
  <1> DEFINE F == {i \in 1 .. j : /\ out[i].k = "open"
                                  /\ \A h \in i .. j : Level(h) >= Level(i)}
  <1>7. F = E
    BY LevelIsDepth, Zenon DEF Enclosing, E
  <1>8. Within(j) = [h \in 2 .. Cardinality(F) |-> out[CHOOSE i \in F : Level(i) = h].s]
    BY DEF Within
  <1> HIDE DEF F
  <1>9. ASSUME NEW h \in 2 .. n
        PROVE  out[CHOOSE i \in F : Level(i) = h].s = objects[a[h - 1]].name
    <2> DEFINE i == CHOOSE i \in F : Level(i) = h
    <2>1. h \in 1 .. n /\ h > 1
      BY <1>1
    <2>2. i \in E /\ Depth(out, i) = h
      <3>1. \E m \in F : Level(m) = h
        BY <1>2, <1>7, <2>1, LevelIsDepth
      <3>2. i \in F /\ Level(i) = h
        BY <3>1
      <3> QED
        BY <1>7, <3>2, LevelIsDepth
    <2> HIDE DEF i
    <2>3. out[i].s = objects[a[h - 1]].name
      BY <1>2, <2>1, <2>2
    <2> QED
      BY <2>3 DEF i
  <1> QED
    BY <1>6, <1>7, <1>8, <1>9 DEF n

(***************************************************************************)
(* However the objects are ordered and in whatever order the maps are      *)
(* opened and closed, in a report of which one map at most has to be       *)
(* closed between two objects, each stands where its path says, and the    *)
(* array of two ancestors is enough.                                       *)
(***************************************************************************)
THEOREM ItemsStandUnderTheirPaths ==
    ASSUME ProperIds, ProperParents, ProperNames
    PROVE  Spec => []ItemsUnderTheirPaths
  <1>1. DbInv /\ ReportInv /\ NestInv => ItemsUnderTheirPaths
    <2> SUFFICES ASSUME DbInv, ReportInv, NestInv, pc # "idle", TwoDeep, OneLevelAtATime
                 PROVE  UnderTheirPaths /\ NestingSuffices
      BY DEF ItemsUnderTheirPaths
    <2>1. Ready
      BY DEF NestInv
    <2>2. Shallow /\ Gradual
      BY <2>1, TwoDeepIsShallow, OneLevelIsGradual
    <2>3. ItemsIn(out) /\ pc # "overflow"
      BY <2>2 DEF NestInv
    <2>4. DOMAIN out = 1 .. Len(out)
      BY DEF ReportInv, ReportType
    <2>5. ASSUME NEW j \in DOMAIN out, out[j].k = "item"
          PROVE  Within(j) = [h \in 2 .. Len(PathOf(out[j].o)) |-> PathOf(out[j].o)[h - 1].s]
      <3> DEFINE o == out[j].o
                 p == PathOf(o)
      <3>1. j \in Nat /\ o \in DOMAIN objects /\ \A c : Chain(c, o) => Stack(out, j, Front(c))
        BY <2>3, <2>4, <2>5 DEF ItemsIn
      <3>2. PICK c : Chain(c, o)
        BY <3>1, ChainExists
      <3> DEFINE f == Front(c)
      <3>3. /\ c \in Seq(DOMAIN objects) /\ c # <<>> /\ Len(c) \in Nat \ {0}
            /\ Len(p) = Len(c)
            /\ \A h \in 1 .. Len(c) : p[h] = Segment(objects[c[h]].name)
        BY <2>1, <3>1, <3>2, NamesOfPath
      <3>4. f \in Seq(DOMAIN objects) /\ Len(f) = Len(c) - 1 /\ \A h \in 1 .. Len(c) - 1 : f[h] = c[h]
        BY <3>3, FrontOf
      <3>5. Stack(out, j, f)
        BY <3>1, <3>2
      <3> HIDE DEF f, p, o
      <3>6. Within(j) = [h \in 2 .. Len(f) + 1 |-> objects[f[h - 1]].name]
        BY <3>1, <3>4, <3>5, WithinIs
      <3>7. 2 .. Len(f) + 1 = 2 .. Len(p)
        BY <3>3, <3>4
      <3>8. \A h \in 2 .. Len(p) : objects[f[h - 1]].name = p[h - 1].s
        <4>1. \A h \in 2 .. Len(p) : h - 1 \in 1 .. Len(c) - 1 /\ h - 1 \in 1 .. Len(c)
          BY <3>3
        <4>2. \A h \in 2 .. Len(p) : f[h - 1] = c[h - 1] /\ p[h - 1] = Segment(objects[c[h - 1]].name)
          BY <3>3, <3>4, <4>1
        <4>3. \A name : Segment(name).s = name
          BY DEF Segment
        <4> QED
          BY <4>2, <4>3, Zenon
      <3> QED
        BY <3>6, <3>7, <3>8 DEF p, o
    <2> QED
      BY <2>3, <2>5 DEF UnderTheirPaths, NestingSuffices
  <1> QED
    BY <1>1, NestInvariance, PTL

====
