-------------------------- MODULE BinImportProofs --------------------------
(***************************************************************************)
(* What TLC checks of BinImport on small maps, proved for every database,  *)
(* every map and every way to cut it into chunks.                          *)
(***************************************************************************)
EXTENDS BinImport, SequenceLemmas

(***************************************************************************)
(* Where items end.  The function of ItemEnd exists because every step of  *)
(* it consumes a cell: it is built from the end of the sequence.           *)
(***************************************************************************)
Further(s, q) == q + 1 + Chars(s[q + 1])
ToDo(s, q, todo) == todo - 1 + Children(s[q + 1])
EndFrom(s, f, q, todo) ==
    IF todo = 0 THEN (IF q <= Len(s) THEN q ELSE NoItem)
    ELSE IF q >= Len(s) THEN NoItem
    ELSE f[Further(s, q)][ToDo(s, q, todo)]

IsEnd(s, f) == f = [q \in Nat |-> [todo \in Nat |-> EndFrom(s, f, q, todo)]]
TheEnd(s) == CHOOSE f : IsEnd(s, f)

LEMMA CellNumbers ==
    ASSUME NEW c \in Cells
    PROVE  Chars(c) \in Nat /\ Children(c) \in Nat
  BY DEF Cells, Chars, Children

LEMMA CellConsumed ==
    ASSUME NEW s \in Seq(Cells), NEW q \in Nat, NEW todo \in Nat, q < Len(s), todo # 0
    PROVE  /\ Further(s, q) \in Nat /\ Further(s, q) >= q + 1
           /\ ToDo(s, q, todo) \in Nat
  <1>1. s[q + 1] \in Cells
    OBVIOUS
  <1>2. Chars(s[q + 1]) \in Nat /\ Children(s[q + 1]) \in Nat
    BY <1>1, CellNumbers
  <1> QED
    BY <1>2 DEF Further, ToDo

LEMMA EndExists ==
    ASSUME NEW s \in Seq(Cells)
    PROVE  IsEnd(s, TheEnd(s))
  <1> DEFINE L == Len(s)
             Good(n, f) == \A q, todo \in Nat : q + n >= L => f[q][todo] = EndFrom(s, f, q, todo)
             P == {n \in Nat : \E f \in [Nat -> [Nat -> Int]] : Good(n, f)}
  <1>0. L \in Nat /\ \A q \in Nat : q < L => s[q + 1] \in Cells
    OBVIOUS
  <1> HIDE DEF L
  <1>1. 0 \in P
    <2> DEFINE f == [q \in Nat |-> [todo \in Nat |-> IF todo = 0 /\ q <= L THEN q ELSE NoItem]]
    <2>1. f \in [Nat -> [Nat -> Int]]
      BY DEF NoItem
    <2>2. ASSUME NEW q \in Nat, NEW todo \in Nat, q >= L
          PROVE  f[q][todo] = EndFrom(s, f, q, todo)
      BY <1>0, <2>2 DEF EndFrom, L
    <2> HIDE DEF f
    <2>3. Good(0, f)
      BY <1>0, <2>2
    <2> QED
      BY <2>1, <2>3
  <1>2. ASSUME NEW n \in Nat, n \in P PROVE n + 1 \in P
    <2>1. PICK f \in [Nat -> [Nat -> Int]] : Good(n, f)
      BY <1>2
    <2> DEFINE g == [q \in Nat |-> [todo \in Nat |->
                        IF q + n >= L THEN f[q][todo] ELSE EndFrom(s, f, q, todo)]]
    <2>2. ASSUME NEW q \in Nat, NEW todo \in Nat
          PROVE  EndFrom(s, f, q, todo) \in Int
      <3>1. CASE todo # 0 /\ q < L
        <4>1. Further(s, q) \in Nat /\ ToDo(s, q, todo) \in Nat
          BY <3>1, CellConsumed DEF L
        <4>2. EndFrom(s, f, q, todo) = f[Further(s, q)][ToDo(s, q, todo)]
          BY <1>0, <3>1 DEF EndFrom, L
        <4> QED
          BY <4>1, <4>2
      <3>2. CASE ~(todo # 0 /\ q < L)
        BY <1>0, <3>2 DEF EndFrom, NoItem, L
      <3> QED
        BY <3>1, <3>2
    <2>3. g \in [Nat -> [Nat -> Int]]
      BY <2>2
    <2>4. ASSUME NEW q \in Nat, NEW todo \in Nat, q + (n + 1) >= L
          PROVE  g[q][todo] = EndFrom(s, g, q, todo)
      <3>1. CASE todo # 0 /\ q < L
        <4> DEFINE r == Further(s, q)
                   k == ToDo(s, q, todo)
        <4>1. r \in Nat /\ k \in Nat /\ r + n >= L
          <5>1. r \in Nat /\ k \in Nat /\ r >= q + 1
            BY <3>1, CellConsumed DEF L
          <5> QED
            BY <1>0, <2>4, <5>1
        <4>2. EndFrom(s, f, q, todo) = f[r][k] /\ EndFrom(s, g, q, todo) = g[r][k]
          <5>1. \A h : EndFrom(s, h, q, todo) = h[Further(s, q)][ToDo(s, q, todo)]
            BY <1>0, <3>1 DEF EndFrom, L
          <5> QED
            BY <5>1
        <4>3. g[r][k] = f[r][k]
          <5> HIDE DEF r, k
          <5> QED
            BY <4>1
        <4>4. g[q][todo] = EndFrom(s, f, q, todo)
          BY <2>1
        <4> QED
          BY <4>2, <4>3, <4>4
      <3>2. CASE ~(todo # 0 /\ q < L)
        <4>1. EndFrom(s, f, q, todo) = EndFrom(s, g, q, todo)
          BY <1>0, <3>2 DEF EndFrom, L
        <4>2. g[q][todo] = EndFrom(s, f, q, todo)
          BY <2>1
        <4> QED
          BY <4>1, <4>2
      <3> QED
        BY <3>1, <3>2
    <2> HIDE DEF g
    <2>5. Good(n + 1, g)
      BY <2>4
    <2>6. \E h \in [Nat -> [Nat -> Int]] : Good(n + 1, h)
      BY <2>3, <2>5
    <2>7. n + 1 \in Nat
      OBVIOUS
    <2> HIDE DEF Good
    <2> QED
      BY <2>6, <2>7, Zenon
  <1>3. L \in P
    <2> HIDE DEF P
    <2> QED
      BY <1>0, <1>1, <1>2, NaturalInduction
  <1>4. PICK f \in [Nat -> [Nat -> Int]] : Good(L, f)
    BY <1>3
  <1>5. IsEnd(s, f)
    <2>1. \A q, todo \in Nat : f[q][todo] = EndFrom(s, f, q, todo)
      BY <1>0, <1>4
    <2>2. f = [q \in Nat |-> [todo \in Nat |-> f[q][todo]]]
      OBVIOUS
    <2> QED
      BY <2>1, <2>2 DEF IsEnd
  <1> QED
    BY <1>5 DEF TheEnd

LEMMA EndSteps ==
    ASSUME NEW s \in Seq(Cells), NEW q \in Nat, NEW todo \in Nat
    PROVE  TheEnd(s)[q][todo] = EndFrom(s, TheEnd(s), q, todo)
  BY EndExists DEF IsEnd

LEMMA ItemEndIs == ASSUME NEW s, NEW p PROVE ItemEnd(s, p) = TheEnd(s)[p][1]
  BY DEF ItemEnd, TheEnd, IsEnd, EndFrom, Further, ToDo

(* What the function does, step by step. *)
LEMMA EndCases ==
    ASSUME NEW s \in Seq(Cells), NEW q \in Nat, NEW todo \in Nat
    PROVE  /\ todo = 0 => TheEnd(s)[q][todo] = IF q <= Len(s) THEN q ELSE NoItem
           /\ todo # 0 /\ q >= Len(s) => TheEnd(s)[q][todo] = NoItem
           /\ todo # 0 /\ q < Len(s) =>
                 TheEnd(s)[q][todo] = TheEnd(s)[Further(s, q)][ToDo(s, q, todo)]
  <1>1. TheEnd(s)[q][todo] = EndFrom(s, TheEnd(s), q, todo)
    BY EndSteps
  <1>2. Len(s) \in Nat
    OBVIOUS
  <1> QED
    BY <1>1, <1>2 DEF EndFrom

(* An item ends behind its first cell and not behind the sequence. *)
LEMMA EndInRange ==
    ASSUME NEW s \in Seq(Cells), NEW q \in Nat, NEW todo \in Nat
    PROVE  \/ TheEnd(s)[q][todo] = NoItem
           \/ /\ TheEnd(s)[q][todo] \in q .. Len(s)
              /\ todo # 0 => TheEnd(s)[q][todo] # q
  <1> DEFINE L == Len(s)
             Good(r, k) == \/ TheEnd(s)[r][k] = NoItem
                           \/ /\ TheEnd(s)[r][k] \in r .. L
                              /\ k # 0 => TheEnd(s)[r][k] # r
             P == {n \in Nat : \A r, k \in Nat : r + n >= L => Good(r, k)}
  <1>0. L \in Nat
    OBVIOUS
  <1>1. 0 \in P
    <2>1. ASSUME NEW r \in Nat, NEW k \in Nat, r >= L PROVE Good(r, k)
      <3> HIDE DEF L
      <3>1. CASE k = 0
        BY <1>0, <2>1, <3>1, EndCases DEF L
      <3>2. CASE k # 0
        BY <1>0, <2>1, <3>2, EndCases DEF L
      <3> QED
        BY <3>1, <3>2
    <2> HIDE DEF Good, L
    <2> QED
      BY <1>0, <2>1
  <1>2. ASSUME NEW n \in Nat, n \in P PROVE n + 1 \in P
    <2>1. ASSUME NEW r \in Nat, NEW k \in Nat, r + (n + 1) >= L PROVE Good(r, k)
      <3>1. CASE k = 0
        BY <1>0, <3>1, EndCases
      <3>2. CASE k # 0 /\ r >= L
        BY <1>0, <3>2, EndCases
      <3>3. CASE k # 0 /\ r < L
        <4> DEFINE f == Further(s, r)
                   m == ToDo(s, r, k)
        <4>1. f \in Nat /\ f >= r + 1 /\ m \in Nat
          BY <3>3, CellConsumed
        <4>2. TheEnd(s)[r][k] = TheEnd(s)[f][m]
          BY <3>3, EndCases
        <4> HIDE DEF f, m, L
        <4>3. f + n >= L
          BY <1>0, <2>1, <4>1
        <4>4. Good(f, m)
          BY <1>2, <4>1, <4>3
        <4>5. TheEnd(s)[f][m] = NoItem \/ TheEnd(s)[f][m] \in f .. L
          BY <4>4
        <4> QED
          BY <1>0, <4>1, <4>2, <4>5
      <3> QED
        BY <1>0, <3>1, <3>2, <3>3
    <2>2. n + 1 \in Nat
      OBVIOUS
    <2> HIDE DEF Good, L
    <2> QED
      BY <2>1, <2>2
  <1>3. L \in P
    <2> HIDE DEF P
    <2> QED
      BY <1>0, <1>1, <1>2, NaturalInduction
  <1>4. Good(q, todo)
    <2> HIDE DEF Good
    <2>1. q + L >= L
      BY <1>0
    <2> QED
      BY <1>3, <2>1
  <1> QED
    BY <1>4

(* s is the part of t behind its first p cells. *)
PartOf(s, t, p) == p + Len(s) <= Len(t) /\ \A i \in 1 .. Len(s) : s[i] = t[p + i]

(* An item ends in a part where it does in the whole, if that is within.   *)
LEMMA EndInPart ==
    ASSUME NEW s \in Seq(Cells), NEW t \in Seq(Cells), NEW p \in Nat, PartOf(s, t, p),
           NEW q \in 0 .. Len(s), NEW todo \in Nat
    PROVE  TheEnd(s)[q][todo] =
              LET e == TheEnd(t)[p + q][todo]
              IN  IF e # NoItem /\ e <= p + Len(s) THEN e - p ELSE NoItem
  <1> DEFINE L == Len(s)
             E(r, k) == TheEnd(t)[p + r][k]
             Good(r, k) == TheEnd(s)[r][k] =
                              IF E(r, k) # NoItem /\ E(r, k) <= p + L THEN E(r, k) - p ELSE NoItem
             P == {n \in Nat : \A r, k \in Nat : r <= L /\ r + n >= L => Good(r, k)}
  <1>0. L \in Nat /\ Len(t) \in Nat /\ p + L <= Len(t)
    BY DEF PartOf
  <1>1. ASSUME NEW r \in Nat, r <= L PROVE Good(r, 0)
    <2>1. TheEnd(s)[r][0] = r
      BY <1>0, <1>1, EndCases
    <2>2. p + r \in Nat /\ p + r <= Len(t)
      BY <1>0, <1>1
    <2>3. E(r, 0) = p + r
      BY <1>0, <2>2, EndCases
    <2> HIDE DEF E, L
    <2> QED
      BY <1>0, <1>1, <2>1, <2>3 DEF NoItem
  <1>2. ASSUME NEW r \in Nat, NEW k \in Nat, r >= L, k # 0, r <= L PROVE Good(r, k)
    <2>1. TheEnd(s)[r][k] = NoItem
      BY <1>0, <1>2, EndCases
    <2>2. p + r \in Nat
      BY <1>2
    <2>3. E(r, k) = NoItem \/ (E(r, k) \in p + r .. Len(t) /\ E(r, k) # p + r)
      BY <1>2, <2>2, EndInRange
    <2> HIDE DEF E, L
    <2>4. ~(E(r, k) # NoItem /\ E(r, k) <= p + L)
      <3>1. ASSUME E(r, k) # NoItem PROVE ~(E(r, k) <= p + L)
        <4> DEFINE e == E(r, k)
        <4>1. e \in p + r .. Len(t) /\ e # p + r
          BY <2>3, <3>1
        <4>2. r = L
          BY <1>0, <1>2
        <4> HIDE DEF e
        <4>3. ~(e <= p + L)
          BY <1>0, <4>1, <4>2
        <4> QED
          BY <4>3 DEF e
      <3> QED
        BY <3>1
    <2> QED
      BY <2>1, <2>4
  <1>3. 0 \in P
    <2>1. ASSUME NEW r \in Nat, NEW k \in Nat, r <= L, r + 0 >= L PROVE Good(r, k)
      <3>1. r >= L
        BY <1>0, <2>1
      <3> HIDE DEF Good, L
      <3> QED
        BY <1>1, <1>2, <2>1, <3>1
    <2> HIDE DEF Good, L
    <2> QED
      BY <2>1
  <1>4. ASSUME NEW n \in Nat, n \in P PROVE n + 1 \in P
    <2>1. ASSUME NEW r \in Nat, NEW k \in Nat, r <= L, r + (n + 1) >= L PROVE Good(r, k)
      <3>1. CASE k = 0
        BY <1>1, <2>1, <3>1
      <3>2. CASE k # 0 /\ r >= L
        BY <1>2, <2>1, <3>2
      <3>3. CASE k # 0 /\ r < L
        <4> DEFINE f == Further(s, r)
                   m == ToDo(s, r, k)
        <4>1. f \in Nat /\ f >= r + 1 /\ m \in Nat
          BY <3>3, CellConsumed
        <4>2. TheEnd(s)[r][k] = TheEnd(s)[f][m]
          BY <3>3, EndCases
        <4>3. s[r + 1] = t[p + r + 1] /\ p + r \in Nat /\ p + r < Len(t)
          <5>1. r + 1 \in 1 .. L /\ p + (r + 1) = p + r + 1
            BY <1>0, <3>3
          <5> QED
            BY <1>0, <3>3, <5>1 DEF PartOf
        <4>4. Further(t, p + r) = p + f /\ ToDo(t, p + r, k) = m
          <5>1. s[r + 1] \in Cells
            BY <3>3
          <5>2. Chars(s[r + 1]) \in Nat
            BY <5>1, CellNumbers
          <5> QED
            BY <4>3, <5>2 DEF Further, ToDo
        <4>5. E(r, k) = E(f, m)
          BY <3>3, <4>3, <4>4, EndCases
        <4> HIDE DEF f, m, L, E
        <4>6. f + n >= L
          BY <1>0, <2>1, <4>1
        <4>7. CASE f <= L
          <5>1. Good(f, m)
            BY <1>4, <4>1, <4>6, <4>7
          <5> QED
            BY <4>2, <4>5, <5>1
        <4>8. CASE f > L
          <5>1. TheEnd(s)[f][m] = NoItem
            BY <1>0, <4>1, <4>8, EndCases DEF L
          <5>2. p + f \in Nat
            BY <4>1
          <5>3. E(f, m) = NoItem \/ E(f, m) \in p + f .. Len(t)
            BY <4>1, <5>2, EndInRange DEF E
          <5> QED
            BY <1>0, <4>1, <4>2, <4>5, <4>8, <5>1, <5>3
        <4> QED
          BY <1>0, <4>1, <4>7, <4>8
      <3> QED
        BY <1>0, <3>1, <3>2, <3>3
    <2>2. n + 1 \in Nat
      OBVIOUS
    <2> HIDE DEF Good, L
    <2> QED
      BY <2>1, <2>2
  <1>5. L \in P
    <2> HIDE DEF P
    <2> QED
      BY <1>0, <1>3, <1>4, NaturalInduction
  <1>6. Good(q, todo)
    <2>1. q \in Nat /\ q <= L /\ q + L >= L
      BY <1>0
    <2> HIDE DEF Good, L
    <2> QED
      BY <1>5, <2>1
  <1> QED
    BY <1>6

(* Items that are numbers take a cell each. *)
LEMMA NumbersEnd ==
    ASSUME NEW s \in Seq(Cells), NEW q \in 0 .. Len(s),
           \A i \in q + 1 .. Len(s) : s[i].k = "uint", NEW todo \in Nat
    PROVE  TheEnd(s)[q][todo] = IF q + todo <= Len(s) THEN q + todo ELSE NoItem
  <1> DEFINE L == Len(s)
             Good(r, k) == TheEnd(s)[r][k] = IF r + k <= L THEN r + k ELSE NoItem
             P == {n \in Nat : \A r, k \in Nat : q <= r /\ r <= L /\ r + n >= L => Good(r, k)}
  <1>0. L \in Nat /\ q \in Nat /\ q <= L
    OBVIOUS
  <1>1. ASSUME NEW r \in Nat, r <= L PROVE Good(r, 0)
    BY <1>0, <1>1, EndCases
  <1>2. ASSUME NEW r \in Nat, NEW k \in Nat, r <= L, r >= L, k # 0 PROVE Good(r, k)
    <2>1. TheEnd(s)[r][k] = NoItem
      BY <1>0, <1>2, EndCases
    <2> QED
      BY <1>0, <1>2, <2>1
  <1>3. 0 \in P
    <2>1. ASSUME NEW r \in Nat, NEW k \in Nat, r <= L, r + 0 >= L PROVE Good(r, k)
      <3>1. r >= L
        BY <1>0, <2>1
      <3> HIDE DEF Good, L
      <3> QED
        BY <1>1, <1>2, <2>1, <3>1
    <2> HIDE DEF Good, L
    <2> QED
      BY <2>1
  <1>4. ASSUME NEW n \in Nat, n \in P PROVE n + 1 \in P
    <2>1. ASSUME NEW r \in Nat, NEW k \in Nat, q <= r, r <= L, r + (n + 1) >= L PROVE Good(r, k)
      <3>1. CASE k = 0
        BY <1>1, <2>1, <3>1
      <3>2. CASE k # 0 /\ r >= L
        BY <1>2, <2>1, <3>2
      <3>3. CASE k # 0 /\ r < L
        <4>1. s[r + 1].k = "uint"
          BY <1>0, <2>1, <3>3
        <4>2. Further(s, r) = r + 1 /\ ToDo(s, r, k) = k - 1
          BY <3>3, <4>1 DEF Further, ToDo, Chars, Children
        <4>3. TheEnd(s)[r][k] = TheEnd(s)[r + 1][k - 1]
          BY <3>3, <4>2, EndCases
        <4>4. Good(r + 1, k - 1)
          <5>1. r + 1 \in Nat /\ k - 1 \in Nat /\ q <= r + 1 /\ r + 1 <= L /\ r + 1 + n >= L
            BY <1>0, <2>1, <3>3
          <5> HIDE DEF Good, L
          <5> QED
            BY <1>4, <5>1
        <4>5. r + 1 + (k - 1) = r + k
          BY <3>3
        <4> QED
          BY <4>3, <4>4, <4>5
      <3> QED
        BY <1>0, <2>1, <3>1, <3>2, <3>3
    <2>2. n + 1 \in Nat
      OBVIOUS
    <2> HIDE DEF Good, L
    <2> QED
      BY <2>1, <2>2
  <1>5. L \in P
    <2> HIDE DEF P
    <2> QED
      BY <1>0, <1>3, <1>4, NaturalInduction
  <1>6. Good(q, todo)
    <2>1. q \in Nat /\ q <= q /\ q <= L /\ q + L >= L
      BY <1>0
    <2> HIDE DEF Good, L
    <2> QED
      BY <1>5, <2>1
  <1> QED
    BY <1>6

(* The two facts in the words of the model. *)
LEMMA ItemEndInRange ==
    ASSUME NEW s \in Seq(Cells), NEW p \in Nat
    PROVE  ItemEnd(s, p) = NoItem \/ ItemEnd(s, p) \in p + 1 .. Len(s)
  <1> DEFINE e == TheEnd(s)[p][1]
  <1>1. e = NoItem \/ (e \in p .. Len(s) /\ e # p)
    BY EndInRange
  <1>2. Len(s) \in Nat
    OBVIOUS
  <1> HIDE DEF e
  <1>3. e = NoItem \/ e \in p + 1 .. Len(s)
    BY <1>1, <1>2
  <1> QED
    BY <1>3, ItemEndIs DEF e

LEMMA ItemEndInPart ==
    ASSUME NEW s \in Seq(Cells), NEW t \in Seq(Cells), NEW p \in Nat, PartOf(s, t, p),
           NEW q \in 0 .. Len(s)
    PROVE  ItemEnd(s, q) =
              IF ItemEnd(t, p + q) # NoItem /\ ItemEnd(t, p + q) <= p + Len(s)
              THEN ItemEnd(t, p + q) - p ELSE NoItem
  <1>1. 1 \in Nat
    OBVIOUS
  <1>2. TheEnd(s)[q][1] =
              LET e == TheEnd(t)[p + q][1]
              IN  IF e # NoItem /\ e <= p + Len(s) THEN e - p ELSE NoItem
    BY <1>1, EndInPart
  <1> QED
    BY <1>2, ItemEndIs

----------------------------------------------------------------------------
(***************************************************************************)
(* Where the items of a map are.                                           *)
(***************************************************************************)
IsMap(is) == /\ is \in Seq([id : Nat, value : Seq(Cells)])
             /\ \A j \in 1 .. Len(is) : IsItem(is[j].value)
Parts(is) == [j \in DOMAIN is |-> EncodeItem(is[j])]

LEMMA MapsAreMaps == ASSUME NEW is \in Maps PROVE IsMap(is)
  <1>1. /\ is \in Seq([id : Nat, value : Seq(Cells)])
        /\ \A j \in DOMAIN is : IsItem(is[j].value)
    BY MapsAssumption
  <1>2. DOMAIN is = 1 .. Len(is)
    BY <1>1
  <1> QED
    BY <1>1, <1>2 DEF IsMap

LEMMA HeadType ==
    ASSUME NEW kind \in {"uint", "str", "char", "list", "map", "report"}, NEW n \in Nat
    PROVE  Head1(kind, n) \in Cells /\ Head1(kind, n).k = kind /\ Head1(kind, n).n = n
  BY DEF Head1, Cells

LEMMA PartsType ==
    ASSUME NEW is, IsMap(is)
    PROVE  /\ Len(is) \in Nat /\ DOMAIN is = 1 .. Len(is)
           /\ Parts(is) \in Seq(Seq(Cells)) /\ Len(Parts(is)) = Len(is)
           /\ \A j \in 1 .. Len(is) :
                 /\ is[j].id \in Nat /\ is[j].value \in Seq(Cells) /\ Len(is[j].value) \in Nat \ {0}
                 /\ Parts(is)[j] \in Seq(Cells) /\ Len(Parts(is)[j]) = 1 + Len(is[j].value)
                 /\ Parts(is)[j][1] = Head1("uint", is[j].id)
                 /\ \A k \in 1 .. Len(is[j].value) : Parts(is)[j][1 + k] = is[j].value[k]
  <1>1. /\ is \in Seq([id : Nat, value : Seq(Cells)])
        /\ \A j \in 1 .. Len(is) : IsItem(is[j].value)
    BY DEF IsMap
  <1>2. Len(is) \in Nat /\ DOMAIN is = 1 .. Len(is)
    BY <1>1
  <1>3. ASSUME NEW j \in 1 .. Len(is)
        PROVE  /\ is[j].id \in Nat /\ is[j].value \in Seq(Cells) /\ Len(is[j].value) \in Nat \ {0}
               /\ Parts(is)[j] \in Seq(Cells) /\ Len(Parts(is)[j]) = 1 + Len(is[j].value)
               /\ Parts(is)[j][1] = Head1("uint", is[j].id)
               /\ \A k \in 1 .. Len(is[j].value) : Parts(is)[j][1 + k] = is[j].value[k]
    <2> DEFINE id == is[j].id
               v == is[j].value
               head == Head1("uint", id)
    <2>1. id \in Nat /\ v \in Seq(Cells)
      <3> DEFINE S == [id : Nat, value : Seq(Cells)]
      <3>1. is \in Seq(S)
        BY <1>1
      <3>2. is[j] \in S
        <4> HIDE DEF S, id, v, head
        <4> QED
          BY <3>1
      <3> QED
        BY <3>2
    <2>2. v # <<>>
      BY <1>1 DEF IsItem
    <2>3. Parts(is)[j] = <<head>> \o v
      BY <1>2 DEF Parts, EncodeItem
    <2>4. head \in Cells
      BY <2>1, HeadType
    <2> HIDE DEF id, v, head
    <2>5. Len(v) \in Nat \ {0}
      BY <2>1, <2>2
    <2>6. \A c \in Cells, s \in Seq(Cells) :
             /\ <<c>> \o s \in Seq(Cells) /\ (<<c>> \o s)[1] = c
             /\ Len(<<c>> \o s) = 1 + Len(s)
             /\ \A k \in 1 .. Len(s) : (<<c>> \o s)[1 + k] = s[k]
      OBVIOUS
    <2> QED
      BY <2>1, <2>3, <2>4, <2>5, <2>6 DEF id, v, head
  <1>4. Parts(is) \in Seq(Seq(Cells)) /\ Len(Parts(is)) = Len(is)
    <2> DEFINE f == Parts(is)
               n == Len(is)
    <2>1. f \in [1 .. n -> Seq(Cells)]
      <3>1. DOMAIN f = 1 .. n /\ f = [j \in 1 .. n |-> f[j]]
        BY <1>2 DEF Parts
      <3> HIDE DEF f, n
      <3>2. \A j \in 1 .. n : f[j] \in Seq(Cells)
        BY <1>3 DEF f, n
      <3> QED
        BY <3>1, <3>2
    <2> HIDE DEF f, n
    <2>2. n \in Nat
      BY <1>2 DEF n
    <2>3. f \in Seq(Seq(Cells)) /\ Len(f) = n
      BY <2>1, <2>2, FunctionIsSeq
    <2> QED
      BY <2>3 DEF f, n
  <1> QED
    BY <1>2, <1>3, <1>4

(* Item j of a map ends where the cells of the first j items do, in a map *)
(* that is sent alone and in one that is part of a report.                *)
EndsIn(is, j) == 1 + Before(Parts(is), j)
MapHead(is) == Head1("map", Len(is))

LEMMA PlainPlaces ==
    ASSUME NEW is, IsMap(is)
    PROVE  /\ EncodeMap(is) \in Seq(Cells) /\ EncodeMap(is)[1] = MapHead(is)
           /\ EndsIn(is, 0) = 1 /\ EndsIn(is, Len(is)) = Len(EncodeMap(is))
           /\ \A j \in 0 .. Len(is) :
                 EndsIn(is, j) \in Nat \ {0} /\ EndsIn(is, j) <= Len(EncodeMap(is))
           /\ \A j \in 1 .. Len(is) :
                 /\ EndsIn(is, j) = EndsIn(is, j - 1) + 1 + Len(is[j].value)
                 /\ EncodeMap(is)[EndsIn(is, j - 1) + 1] = Head1("uint", is[j].id)
                 /\ \A k \in 1 .. Len(is[j].value) :
                       EncodeMap(is)[EndsIn(is, j - 1) + 1 + k] = is[j].value[k]
  <1> DEFINE parts == Parts(is)
             flat == FlattenSeq(parts)
             map == EncodeMap(is)
             n == Len(is)
  <1>1. /\ n \in Nat /\ DOMAIN is = 1 .. n /\ parts \in Seq(Seq(Cells)) /\ Len(parts) = n
        /\ \A j \in 1 .. n :
              /\ Len(is[j].value) \in Nat
              /\ Len(parts[j]) = 1 + Len(is[j].value)
              /\ parts[j][1] = Head1("uint", is[j].id)
              /\ \A k \in 1 .. Len(is[j].value) : parts[j][1 + k] = is[j].value[k]
    <2>1. /\ Len(is) \in Nat /\ DOMAIN is = 1 .. Len(is)
          /\ Parts(is) \in Seq(Seq(Cells)) /\ Len(Parts(is)) = Len(is)
      BY PartsType
    <2>2. ASSUME NEW j \in 1 .. Len(is)
          PROVE  /\ Len(is[j].value) \in Nat \ {0}
                 /\ Len(Parts(is)[j]) = 1 + Len(is[j].value)
                 /\ Parts(is)[j][1] = Head1("uint", is[j].id)
                 /\ \A k \in 1 .. Len(is[j].value) : Parts(is)[j][1 + k] = is[j].value[k]
      BY PartsType
    <2> QED
      BY <2>1, <2>2
  <1>2. map = <<MapHead(is)>> \o flat
    BY DEF EncodeMap, Parts, MapHead
  <1>3. /\ flat \in Seq(Cells)
        /\ Before(parts, 0) = 0 /\ Before(parts, Len(parts)) = Len(flat)
        /\ \A j \in 0 .. Len(parts) : Before(parts, j) \in Nat /\ Before(parts, j) <= Len(flat)
        /\ \A j \in 1 .. Len(parts) :
              /\ Before(parts, j) = Before(parts, j - 1) + Len(parts[j])
              /\ \A k \in 1 .. Len(parts[j]) : flat[Before(parts, j - 1) + k] = parts[j][k]
    <2>1. parts \in Seq(Seq(Cells))
      BY <1>1
    <2> HIDE DEF parts
    <2> QED
      BY <2>1, FlattenPlaces DEF flat
  <1>4. MapHead(is) \in Cells
    BY <1>1, HeadType DEF MapHead
  <1> HIDE DEF parts, flat, map, n
  <1>5. /\ map \in Seq(Cells) /\ map[1] = MapHead(is) /\ Len(map) = 1 + Len(flat)
        /\ \A k \in 1 .. Len(flat) : map[1 + k] = flat[k]
    <2>1. \A c \in Cells, s \in Seq(Cells) :
             /\ <<c>> \o s \in Seq(Cells) /\ (<<c>> \o s)[1] = c
             /\ Len(<<c>> \o s) = 1 + Len(s)
             /\ \A k \in 1 .. Len(s) : (<<c>> \o s)[1 + k] = s[k]
      OBVIOUS
    <2> QED
      BY <1>2, <1>3, <1>4, <2>1
  <1>6. Len(flat) \in Nat
    BY <1>3
  <1>7. \A j \in 0 .. n : /\ EndsIn(is, j) = 1 + Before(parts, j) /\ Before(parts, j) \in Nat
                           /\ Before(parts, j) <= Len(flat)
    BY <1>1, <1>3 DEF EndsIn, parts
  <1>8. ASSUME NEW j \in 1 .. n
        PROVE  /\ EndsIn(is, j) = EndsIn(is, j - 1) + 1 + Len(is[j].value)
               /\ map[EndsIn(is, j - 1) + 1] = Head1("uint", is[j].id)
               /\ \A k \in 1 .. Len(is[j].value) : map[EndsIn(is, j - 1) + 1 + k] = is[j].value[k]
    <2> DEFINE b == Before(parts, j - 1)
               len == Len(is[j].value)
    <2>1. j \in 0 .. n /\ j - 1 \in 0 .. n /\ j \in 1 .. Len(parts)
      BY <1>1
    <2>2. /\ EndsIn(is, j) = 1 + Before(parts, j) /\ Before(parts, j) \in Nat
          /\ EndsIn(is, j - 1) = 1 + b /\ b \in Nat /\ Before(parts, j) <= Len(flat)
      BY <1>7, <2>1
    <2>3. /\ Before(parts, j) = b + Len(parts[j]) /\ len \in Nat /\ Len(parts[j]) = 1 + len
          /\ \A k \in 1 .. Len(parts[j]) : flat[b + k] = parts[j][k]
          /\ parts[j][1] = Head1("uint", is[j].id)
          /\ \A k \in 1 .. len : parts[j][1 + k] = is[j].value[k]
      BY <1>1, <1>3, <2>1
    <2> HIDE DEF b, len
    <2>4. EndsIn(is, j) = EndsIn(is, j - 1) + 1 + len
      BY <2>2, <2>3
    <2>5. ASSUME NEW k \in 1 .. 1 + len PROVE map[EndsIn(is, j - 1) + k] = parts[j][k]
      <3>1. b + k \in 1 .. Len(flat) /\ EndsIn(is, j - 1) + k = 1 + (b + k)
        <4> DEFINE m == Len(flat)
                   c == Before(parts, j)
        <4>1. m \in Nat /\ c \in Nat /\ c <= m /\ b \in Nat /\ c = b + (1 + len) /\ len \in Nat
          BY <1>6, <2>2, <2>3
        <4>2. EndsIn(is, j - 1) = 1 + b
          BY <2>2
        <4> HIDE DEF m, c
        <4>3. b + k \in 1 .. m /\ (1 + b) + k = 1 + (b + k)
          BY <4>1
        <4> QED
          BY <4>2, <4>3 DEF m
      <3>2. map[1 + (b + k)] = flat[b + k]
        BY <1>5, <3>1
      <3>3. flat[b + k] = parts[j][k]
        BY <2>3
      <3> QED
        BY <3>1, <3>2, <3>3
    <2>6. map[EndsIn(is, j - 1) + 1] = Head1("uint", is[j].id)
      BY <2>3, <2>5
    <2>7. ASSUME NEW k \in 1 .. len PROVE map[EndsIn(is, j - 1) + 1 + k] = is[j].value[k]
      <3>1. 1 + k \in 1 .. 1 + len /\ EndsIn(is, j - 1) + 1 + k = EndsIn(is, j - 1) + (1 + k)
        BY <2>2, <2>3
      <3> QED
        BY <2>3, <2>5, <3>1
    <2> QED
      BY <2>4, <2>6, <2>7 DEF len
  <1>9. \A j \in 0 .. n : EndsIn(is, j) \in Nat \ {0} /\ EndsIn(is, j) <= Len(map)
    BY <1>5, <1>6, <1>7
  <1>10. EndsIn(is, 0) = 1 /\ EndsIn(is, n) = Len(map)
    <2>1. 0 \in 0 .. n /\ n \in 0 .. n
      BY <1>1
    <2> QED
      BY <1>1, <1>3, <1>5, <1>7, <2>1
  <1> QED
    BY <1>5, <1>8, <1>9, <1>10 DEF map, n

LEMMA EncodeType ==
    ASSUME NEW e, NEW is, IsMap(is)
    PROVE  Encode(e, is) \in Seq(Cells) /\ Len(Encode(e, is)) \in Nat \ {0}
  <1> DEFINE map == EncodeMap(is)
  <1>1. map \in Seq(Cells) /\ Len(map) \in Nat \ {0}
    <2>1. EndsIn(is, 0) <= Len(map) /\ EndsIn(is, 0) \in Nat \ {0} /\ map \in Seq(Cells)
      BY PartsType, PlainPlaces
    <2> HIDE DEF map
    <2>2. Len(map) \in Nat
      BY <2>1
    <2> QED
      BY <2>1, <2>2
  <1>2. Head1("report", 0) \in Cells /\ Head1("uint", Subset) \in Cells
    BY ConstantsAssumption, HeadType
  <1>3. Encode(e, is) = IF e = "report"
                        THEN <<Head1("report", 0), Head1("uint", Subset)>> \o map ELSE map
    BY DEF Encode
  <1> HIDE DEF map
  <1>4. \A a, b \in Cells : <<a, b>> \o map \in Seq(Cells) /\ Len(<<a, b>> \o map) = 2 + Len(map)
    BY <1>1
  <1>5. CASE e = "report"
    BY <1>1, <1>2, <1>3, <1>4, <1>5
  <1>6. CASE e # "report"
    BY <1>1, <1>3, <1>6
  <1> QED
    BY <1>5, <1>6
Ends(en, is, j) == MapStart(en) + EndsIn(is, j)
ItemAt(en, is, j) ==
    /\ Ends(en, is, j) = Ends(en, is, j - 1) + 1 + Len(is[j].value)
    /\ Encode(en, is)[Ends(en, is, j - 1) + 1] = Head1("uint", is[j].id)
    /\ \A k \in 1 .. Len(is[j].value) :
          Encode(en, is)[Ends(en, is, j - 1) + 1 + k] = is[j].value[k]

LEMMA MapPlaces ==
    ASSUME NEW en, NEW is, IsMap(is)
    PROVE  /\ Encode(en, is) \in Seq(Cells) /\ MapStart(en) \in {0, 2}
           /\ Ends(en, is, 0) = MapStart(en) + 1
           /\ Ends(en, is, Len(is)) = Len(Encode(en, is))
           /\ Encode(en, is)[MapStart(en) + 1] = MapHead(is)
           /\ \A j \in 0 .. Len(is) :
                 Ends(en, is, j) \in Nat \ {0} /\ Ends(en, is, j) <= Len(Encode(en, is))
           /\ \A j \in 1 .. Len(is) : ItemAt(en, is, j)
  <1> DEFINE map == EncodeMap(is)
             s == Encode(en, is)
             m == MapStart(en)
             n == Len(is)
             L == Len(map)
             E(j) == EndsIn(is, j)
             len(j) == Len(is[j].value)
  <1>1. /\ map \in Seq(Cells) /\ map[1] = MapHead(is) /\ E(0) = 1 /\ E(n) = L
        /\ \A j \in 0 .. n : E(j) \in Nat \ {0} /\ E(j) <= L
        /\ \A j \in 1 .. n :
              /\ E(j) = E(j - 1) + 1 + len(j) /\ map[E(j - 1) + 1] = Head1("uint", is[j].id)
              /\ \A k \in 1 .. len(j) : map[E(j - 1) + 1 + k] = is[j].value[k]
    BY PlainPlaces
  <1>2. s \in Seq(Cells)
    BY EncodeType
  <1>3. n \in Nat /\ \A j \in 1 .. n : len(j) \in Nat
    BY PartsType
  <1>4. m \in {0, 2}
    BY DEF MapStart
  <1>5. L \in Nat /\ L # 0
    <2>1. L \in Nat
      BY <1>1
    <2>2. 0 \in 0 .. n
      BY <1>3
    <2> HIDE DEF map, E, n, L
    <2> QED
      BY <1>1, <2>1, <2>2
  <1>6. Len(s) = m + L /\ \A i \in 1 .. L : s[m + i] = map[i]
    <2> HIDE DEF map
    <2>1. CASE en = "report"
      <3>1. s = <<Head1("report", 0), Head1("uint", Subset)>> \o map /\ m = 2
        BY <2>1 DEF Encode, MapStart, map
      <3>2. \A a, b : /\ Len(<<a, b>> \o map) = 2 + Len(map)
                      /\ \A i \in 1 .. Len(map) : (<<a, b>> \o map)[2 + i] = map[i]
        BY <1>1
      <3> QED
        BY <3>1, <3>2
    <2>2. CASE en # "report"
      <3>1. s = map /\ m = 0
        BY <2>2 DEF Encode, MapStart, map
      <3>2. 0 + L = L /\ \A i \in 1 .. L : 0 + i = i
        BY <1>5
      <3> QED
        BY <3>1, <3>2
    <2> QED
      BY <2>1, <2>2
  <1>7. \A j : Ends(en, is, j) = m + E(j)
    BY DEF Ends
  <1> HIDE DEF map, s, m, n, L, E, len
  <1>8. ASSUME NEW j \in 0 .. n
        PROVE  Ends(en, is, j) \in Nat \ {0} /\ Ends(en, is, j) <= Len(s)
    <2>1. E(j) \in Nat \ {0} /\ E(j) <= L
      BY <1>1
    <2> QED
      BY <1>4, <1>5, <1>6, <1>7, <2>1
  <1>9. ASSUME NEW j \in 1 .. n
        PROVE  /\ Ends(en, is, j) = Ends(en, is, j - 1) + 1 + len(j)
               /\ s[Ends(en, is, j - 1) + 1] = Head1("uint", is[j].id)
               /\ \A k \in 1 .. len(j) : s[Ends(en, is, j - 1) + 1 + k] = is[j].value[k]
    <2> DEFINE b == E(j - 1)
               c == E(j)
               l == len(j)
    <2>1. /\ b \in Nat /\ c = b + 1 + l /\ c <= L /\ l \in Nat
          /\ map[b + 1] = Head1("uint", is[j].id)
          /\ \A k \in 1 .. l : map[b + 1 + k] = is[j].value[k]
      <3>1. j - 1 \in 0 .. n /\ j \in 0 .. n
        BY <1>3
      <3> QED
        BY <1>1, <1>3, <3>1
    <2>2. Ends(en, is, j) = m + c /\ Ends(en, is, j - 1) = m + b
      BY <1>7
    <2> HIDE DEF b, c, l
    <2>3. b + 1 \in 1 .. L /\ m + (b + 1) = m + b + 1 /\ m + c = m + b + 1 + l
      BY <1>4, <1>5, <2>1
    <2>4. s[m + b + 1] = Head1("uint", is[j].id)
      BY <1>6, <2>1, <2>3
    <2>5. ASSUME NEW k \in 1 .. l PROVE s[m + b + 1 + k] = is[j].value[k]
      <3>1. b + 1 + k \in 1 .. L /\ m + (b + 1 + k) = m + b + 1 + k
        BY <1>4, <1>5, <2>1
      <3> QED
        BY <1>6, <2>1, <3>1
    <2> QED
      BY <2>2, <2>3, <2>4, <2>5 DEF l
  <1>10. s[m + 1] = MapHead(is)
    <2>1. 1 \in 1 .. L
      BY <1>5
    <2> QED
      BY <1>1, <1>6, <2>1
  <1>11. ASSUME NEW j \in 1 .. n PROVE ItemAt(en, is, j)
    BY <1>9 DEF ItemAt, s, len
  <1> QED
    BY <1>1, <1>2, <1>4, <1>6, <1>7, <1>8, <1>10, <1>11 DEF s, m, n

LEMMA StepOf ==
    ASSUME NEW en, NEW is, IsMap(is), NEW j \in 1 .. Len(is)
    PROVE  Ends(en, is, j) = Ends(en, is, j - 1) + 1 + Len(is[j].value)
  <1>1. ItemAt(en, is, j)
    BY MapPlaces
  <1> QED
    BY <1>1 DEF ItemAt

LEMMA HeadOf ==
    ASSUME NEW en, NEW is, IsMap(is), NEW j \in 1 .. Len(is)
    PROVE  Encode(en, is)[Ends(en, is, j - 1) + 1] = Head1("uint", is[j].id)
  <1>1. ItemAt(en, is, j)
    BY MapPlaces
  <1> QED
    BY <1>1 DEF ItemAt

LEMMA CellOf ==
    ASSUME NEW en, NEW is, IsMap(is), NEW j \in 1 .. Len(is),
           NEW k \in 1 .. Len(is[j].value)
    PROVE  Encode(en, is)[Ends(en, is, j - 1) + 1 + k] = is[j].value[k]
  <1>1. ItemAt(en, is, j)
    BY MapPlaces
  <1> QED
    BY <1>1 DEF ItemAt

----------------------------------------------------------------------------
(***************************************************************************)
(* Types.  What the decoder has consumed and what the caller is told to    *)
(* have been parsed stay within the chunk, and a call begins at the start  *)
(* of the caller's buffer.                                                 *)
(***************************************************************************)
Decoder == [payload : Nat, elem : Int]
Inside == pos + size <= Len(stream) /\ dec.payload <= size /\ parsed <= size
ImportInv ==
    /\ TypeOK
    /\ pc \in {"loop", "child"} => Inside
    /\ pc = "caller" => dec.payload = 0
    /\ entry # "progressively" => pos = 0 /\ parsed = 0

(* A part of a sequence. *)
LEMMA PartIs ==
    ASSUME NEW s \in Seq(Cells), NEW a \in Nat, NEW n \in Nat, a + n <= Len(s)
    PROVE  /\ SubSeq(s, a + 1, a + n) \in Seq(Cells) /\ Len(SubSeq(s, a + 1, a + n)) = n
           /\ \A i \in 1 .. n : SubSeq(s, a + 1, a + n)[i] = s[a + i]
  OBVIOUS

(* The cells a call is given. *)
LEMMA ChunkIs ==
    ASSUME TypeOK, pos + size <= Len(stream)
    PROVE  /\ Chunk \in Seq(Cells) /\ Len(Chunk) = size /\ size \in Nat /\ pos \in Nat
           /\ \A i \in 1 .. size : Chunk[i] = stream[pos + i] /\ Chunk[i] \in Cells
           /\ PartOf(Chunk, stream, pos)
  <1>1. stream \in Seq(Cells) /\ pos \in Nat /\ size \in Nat
    <2>1. Len(stream) \in Nat
      BY DEF TypeOK
    <2> QED
      BY <2>1 DEF TypeOK
  <1>2. /\ Chunk \in Seq(Cells) /\ Len(Chunk) = size
        /\ \A i \in 1 .. size : Chunk[i] = stream[pos + i]
    BY <1>1, PartIs DEF Chunk
  <1> DEFINE chunk == Chunk
  <1>3. \A i \in 1 .. size : chunk[i] \in Cells
    <2>1. chunk \in Seq(Cells) /\ Len(chunk) = size
      BY <1>2
    <2> HIDE DEF chunk
    <2> QED
      BY <2>1
  <1> QED
    BY <1>1, <1>2, <1>3 DEF PartOf

(* What a value decodes to, and where the decoder is after it. *)
LEMMA NumbersType ==
    ASSUME NEW cells \in Seq(Cells), cells # <<>>
    PROVE  Numbers(cells) \in Seq(Nat)
  <1>1. Len(cells) \in Nat \ {0} /\ \A j \in 1 .. Len(cells) : cells[j].n \in Nat
    <2>1. Len(cells) \in Nat \ {0} /\ \A j \in 1 .. Len(cells) : cells[j] \in Cells
      OBVIOUS
    <2>2. \A c \in Cells : c.n \in Nat
      BY DEF Cells
    <2> QED
      BY <2>1, <2>2
  <1> DEFINE n == Len(cells) - 1
             f == [j \in 1 .. n |-> cells[j + 1].n]
  <1>2. n \in Nat /\ \A j \in 1 .. n : j + 1 \in 1 .. Len(cells)
    BY <1>1
  <1> HIDE DEF n
  <1>3. f \in [1 .. n -> Nat]
    BY <1>1, <1>2
  <1>4. f \in Seq(Nat)
    BY <1>2, <1>3, FunctionIsSeq
  <1> QED
    BY <1>4 DEF Numbers, n

Within(d) == d.payload \in 0 .. size /\ d \in Decoder

LEMMA SkipType ==
    ASSUME TypeOK, pos + size <= Len(stream), NEW d, Within(d), CanSkip(d)
    PROVE  Within(Skip(d)) /\ Skip(d).payload > d.payload /\ Skip(d).elem = d.elem - 1
  <1>1. Chunk \in Seq(Cells) /\ Len(Chunk) = size /\ size \in Nat
    BY ChunkIs
  <1> DEFINE e == ItemEnd(Chunk, d.payload)
  <1>2. d.payload \in Nat /\ d.elem \in Int
    BY <1>1 DEF Within, Decoder
  <1>3. e \in d.payload + 1 .. size
    BY <1>1, <1>2, ItemEndInRange DEF CanSkip
  <1>4. Skip(d) = [payload |-> e, elem |-> d.elem - 1]
    BY DEF Skip, After, State
  <1> HIDE DEF e
  <1> QED
    BY <1>1, <1>2, <1>3, <1>4 DEF Within, Decoder

LEMMA AtMeans ==
    ASSUME TypeOK, pos + size <= Len(stream), NEW d, Within(d), NEW kind, At(d, kind)
    PROVE  /\ d.payload + 1 \in 1 .. size /\ Cell(d) \in Cells /\ Cell(d).n \in Nat
           /\ Cell(d).k = kind /\ Cell(d) = stream[pos + d.payload + 1]
           /\ Within(Uint(d)) /\ Uint(d).payload = d.payload + 1 /\ Uint(d).elem = d.elem - 1
  <1>1. /\ size \in Nat /\ pos \in Nat
        /\ \A i \in 1 .. size : Chunk[i] = stream[pos + i] /\ Chunk[i] \in Cells
    BY ChunkIs
  <1>2. d.payload \in Nat /\ d.elem \in Int /\ d.payload < size
    BY <1>1 DEF Within, Decoder, At
  <1>3. d.payload + 1 \in 1 .. size /\ pos + d.payload + 1 = pos + (d.payload + 1)
    BY <1>1, <1>2
  <1>4. Uint(d) = [payload |-> d.payload + 1, elem |-> d.elem - 1]
    BY DEF Uint, After, State
  <1>5. Chunk[d.payload + 1] \in Cells /\ Chunk[d.payload + 1] = stream[pos + d.payload + 1]
    BY <1>1, <1>3
  <1>6. Cell(d).n \in Nat
    BY <1>5 DEF Cell, Cells
  <1> QED
    BY <1>1, <1>2, <1>3, <1>4, <1>5, <1>6, SMTT(30) DEF Within, Decoder, Cell, At

(* The result of decoding a value for o behind d. *)
Decoded(o, d, result) ==
    /\ result.ok \in BOOLEAN
    /\ Within(result.dec) /\ result.dec.payload >= d.payload
    /\ result.value \in Seq(Nat)

LEMMA NumType ==
    ASSUME TypeOK, pos + size <= Len(stream), NEW o \in Objects, NEW d, Within(d)
    PROVE  Decoded(o, d, DecodeNum(o, d))
  <1>0. size \in Nat /\ d.payload \in Nat /\ data[o] \in Seq(Nat)
    <2>1. size \in Nat
      BY ChunkIs
    <2> QED
      BY <2>1 DEF TypeOK, Within
  <1>1. CASE At(d, "uint") /\ Cell(d).n <= Capacity[o]
    <2>1. Within(Uint(d)) /\ Uint(d).payload = d.payload + 1 /\ Cell(d).n \in Nat
      BY <1>1, AtMeans
    <2>2. <<Cell(d).n>> \in Seq(Nat)
      BY <2>1
    <2>3. DecodeNum(o, d) = [ok |-> TRUE, dec |-> Uint(d), value |-> <<Cell(d).n>>]
      BY <1>1 DEF DecodeNum, Result
    <2> QED
      BY <1>0, <2>1, <2>2, <2>3 DEF Decoded
  <1>2. CASE ~(At(d, "uint") /\ Cell(d).n <= Capacity[o])
    <2>1. DecodeNum(o, d) = [ok |-> FALSE, dec |-> d, value |-> data[o]]
      BY <1>2 DEF DecodeNum, Result
    <2> QED
      BY <1>0, <2>1 DEF Decoded
  <1> QED
    BY <1>1, <1>2

LEMMA StrType ==
    ASSUME TypeOK, pos + size <= Len(stream), NEW o \in Objects, NEW d, Within(d)
    PROVE  Decoded(o, d, DecodeStr(o, d))
  <1>0. /\ size \in Nat /\ d.payload \in Nat /\ data[o] \in Seq(Nat)
        /\ Chunk \in Seq(Cells) /\ Len(Chunk) = size
    <2>1. size \in Nat /\ Chunk \in Seq(Cells) /\ Len(Chunk) = size
      BY ChunkIs
    <2> QED
      BY <2>1 DEF TypeOK, Within
  <1>1. CASE At(d, "str") /\ CanSkip(d)
    <2> DEFINE fits == Cell(d).n < Capacity[o]
               e == Skip(d).payload
               cells == SubSeq(Chunk, d.payload + 1, e)
               value == IF fits THEN Numbers(cells) ELSE data[o]
    <2>1. Within(Skip(d)) /\ e > d.payload
      BY <1>1, SkipType
    <2>2. DecodeStr(o, d) = [ok |-> fits, dec |-> Skip(d), value |-> value]
      BY <1>1 DEF DecodeStr, Result
    <2>3. e \in Nat /\ e <= size /\ e - d.payload \in Nat \ {0} /\ d.payload + (e - d.payload) = e
      <3>1. e \in 0 .. size
        BY <2>1 DEF Within
      <3> HIDE DEF e
      <3> QED
        BY <1>0, <2>1, <3>1
    <2>4. cells \in Seq(Cells) /\ cells # <<>>
      <3> DEFINE n == e - d.payload
      <3>1. n \in Nat \ {0} /\ d.payload + n = e /\ d.payload + n <= Len(Chunk)
        BY <1>0, <2>3
      <3> HIDE DEF n, e
      <3>2. SubSeq(Chunk, d.payload + 1, d.payload + n) \in Seq(Cells)
            /\ Len(SubSeq(Chunk, d.payload + 1, d.payload + n)) = n
        BY <1>0, <3>1, PartIs, SMTT(30)
      <3>3. cells = SubSeq(Chunk, d.payload + 1, d.payload + n)
        BY <3>1
      <3> HIDE DEF cells
      <3> QED
        BY <3>1, <3>2, <3>3
    <2> HIDE DEF cells
    <2>5. Numbers(cells) \in Seq(Nat)
      BY <2>4, NumbersType
    <2>6. value \in Seq(Nat)
      BY <1>0, <2>5
    <2>7. fits \in BOOLEAN
      OBVIOUS
    <2> HIDE DEF fits, value
    <2> QED
      BY <1>0, <2>1, <2>2, <2>3, <2>6, <2>7 DEF Decoded
  <1>2. CASE ~(At(d, "str") /\ CanSkip(d))
    <2>1. DecodeStr(o, d) = [ok |-> FALSE, dec |-> d, value |-> data[o]]
      BY <1>2 DEF DecodeStr, Result
    <2> QED
      BY <1>0, <2>1 DEF Decoded
  <1> QED
    BY <1>1, <1>2

(* How many elements of the list behind d are taken. *)
Element(d, j) == d.payload + 1 + j <= size /\ Chunk[d.payload + 1 + j].k = "uint"
Smaller(a, b) == IF a < b THEN a ELSE b
Taken(o, d) ==
    Max({k \in 0 .. Smaller(Cell(d).n, Capacity[o]) : \A j \in 1 .. k : Element(d, j)})
Elements(o, d) == [j \in 1 .. Taken(o, d) |-> Chunk[d.payload + 1 + j].n]

LEMMA ArrayTaken ==
    ASSUME TypeOK, pos + size <= Len(stream), NEW o \in Objects, NEW d, Within(d), At(d, "list")
    PROVE  /\ Taken(o, d) \in Nat /\ Taken(o, d) <= Cell(d).n /\ Taken(o, d) <= Capacity[o]
           /\ \A j \in 1 .. Taken(o, d) : Element(d, j)
           /\ Taken(o, d) < Cell(d).n /\ Taken(o, d) < Capacity[o]
                 => ~Element(d, Taken(o, d) + 1)
           /\ d.payload + 1 + Taken(o, d) <= size
           /\ DecodeArray(o, d) =
                 Result(Taken(o, d) \in {Cell(d).n, Capacity[o]},
                        State(d.payload + 1 + Taken(o, d), d.elem - 1), Elements(o, d))
  <1> DEFINE n == Cell(d).n
             c == Capacity[o]
             m == Smaller(n, c)
             possible == {k \in 0 .. m : \A j \in 1 .. k : Element(d, j)}
             t == Taken(o, d)
  <1>1. n \in Nat /\ d.payload + 1 \in 1 .. size /\ c \in Nat /\ size \in Nat /\ d.payload \in Nat
    <2>1. n \in Nat /\ d.payload + 1 \in 1 .. size /\ d.payload \in Nat
      BY AtMeans DEF Within
    <2>2. c \in Nat /\ size \in Nat
      BY ChunkIs, ConstantsAssumption
    <2> QED
      BY <2>1, <2>2
  <1>2. m \in Nat /\ m <= n /\ m <= c /\ (m = n \/ m = c) /\ m = Min({n, c})
    <2> HIDE DEF n, c
    <2>1. m \in Nat /\ m <= n /\ m <= c /\ (m = n \/ m = c)
      BY <1>1 DEF Smaller
    <2>2. Min({n, c}) \in {n, c} /\ \A y \in {n, c} : Min({n, c}) <= y
      BY <1>1, MinOfNaturals
    <2> HIDE DEF m
    <2> QED
      BY <1>1, <2>1, <2>2
  <1>3. t = Max(possible)
    BY DEF Taken
  <1>4. possible \subseteq Nat /\ 0 \in possible /\ \A k \in possible : k <= m
    BY <1>2
  <1>5. t \in possible /\ \A k \in possible : k <= t
    <2> HIDE DEF possible, m, t
    <2> QED
      BY <1>2, <1>3, <1>4, MaxOfNaturals
  <1>6. t \in Nat /\ t <= n /\ t <= c /\ \A j \in 1 .. t : Element(d, j)
    <2>1. t \in 0 .. m /\ \A j \in 1 .. t : Element(d, j)
      BY <1>5
    <2> HIDE DEF possible, m, t, n, c
    <2> QED
      BY <1>1, <1>2, <2>1
  <1>7. ASSUME t < n, t < c PROVE ~Element(d, t + 1)
    <2> SUFFICES ASSUME Element(d, t + 1) PROVE FALSE
      OBVIOUS
    <2>1. t + 1 \in 0 .. m
      <3> HIDE DEF t, m, n, c
      <3> QED
        BY <1>1, <1>2, <1>6, <1>7
    <2>2. \A j \in 1 .. t + 1 : Element(d, j)
      <3>1. \A j \in 1 .. t + 1 : j \in 1 .. t \/ j = t + 1
        <4> HIDE DEF t
        <4> QED
          BY <1>6
      <3> QED
        BY <1>6, <3>1
    <2>3. t + 1 \in possible
      BY <2>1, <2>2
    <2>4. t + 1 <= t
      BY <1>5, <2>3
    <2> HIDE DEF t
    <2> QED
      BY <1>6, <2>4
  <1>8. d.payload + 1 + t <= size
    <2>1. CASE t = 0
      BY <1>1, <2>1
    <2>2. CASE t # 0
      <3>1. t \in 1 .. t
        BY <1>6, <2>2
      <3> QED
        BY <1>6, <3>1 DEF Element
    <2> QED
      BY <2>1, <2>2
  <1>9. DecodeArray(o, d) =
           Result(t \in {n, c}, State(d.payload + 1 + t, d.elem - 1), Elements(o, d))
    <2> DEFINE first == d.payload + 1
               index == Max({k \in 0 .. Min({n, c}) :
                                \A j \in 1 .. k : first + j <= size /\ Chunk[first + j].k = "uint"})
    <2>1. index = t
      BY <1>2 DEF Taken, Element
    <2>2. DecodeArray(o, d) = Result(index \in {n, c}, After(d, first + index),
                                     [j \in 1 .. index |-> Chunk[first + j].n])
      BY DEF DecodeArray
    <2>3. Elements(o, d) = [j \in 1 .. t |-> Chunk[first + j].n]
      BY DEF Elements
    <2> HIDE DEF index, t
    <2> QED
      BY <2>1, <2>2, <2>3 DEF After
  <1> QED
    BY <1>6, <1>7, <1>8, <1>9

LEMMA ArrayType ==
    ASSUME TypeOK, pos + size <= Len(stream), NEW o \in Objects, NEW d, Within(d)
    PROVE  Decoded(o, d, DecodeArray(o, d))
  <1>0. /\ size \in Nat /\ d.payload \in Nat /\ data[o] \in Seq(Nat) /\ d.elem \in Int
        /\ \A i \in 1 .. size : Chunk[i] \in Cells
    <2>1. size \in Nat /\ \A i \in 1 .. size : Chunk[i] \in Cells
      BY ChunkIs
    <2> QED
      BY <2>1 DEF TypeOK, Within, Decoder
  <1>1. CASE At(d, "list")
    <2> DEFINE t == Taken(o, d)
               first == d.payload + 1
               ok == t \in {Cell(d).n, Capacity[o]}
               els == Elements(o, d)
    <2>1. t \in Nat /\ first + t <= size
          /\ DecodeArray(o, d) = Result(ok, State(first + t, d.elem - 1), els)
      BY <1>1, ArrayTaken
    <2>2. els \in Seq(Nat)
      <3>1. els = [j \in 1 .. t |-> Chunk[first + j].n]
        BY DEF Elements
      <3>2. ASSUME NEW j \in 1 .. t PROVE Chunk[first + j].n \in Nat
        <4>1. first + j \in 1 .. size
          <5> HIDE DEF t
          <5> QED
            BY <1>0, <2>1
        <4>2. Chunk[first + j] \in Cells
          BY <1>0, <4>1
        <4> QED
          BY <4>2 DEF Cells
      <3> HIDE DEF els, t, first
      <3>3. els \in [1 .. t -> Nat]
        BY <3>1, <3>2
      <3> QED
        BY <2>1, <3>3, FunctionIsSeq
    <2>3. DecodeArray(o, d) = [ok |-> ok, dec |-> [payload |-> first + t, elem |-> d.elem - 1],
                               value |-> els]
      BY <2>1 DEF Result, State
    <2>4. ok \in BOOLEAN
      OBVIOUS
    <2> HIDE DEF ok, t, els
    <2>5. first + t \in 0 .. size /\ first + t >= d.payload /\ first + t \in Nat
      BY <1>0, <2>1
    <2> HIDE DEF first
    <2> QED
      BY <1>0, <2>2, <2>3, <2>4, <2>5 DEF Decoded, Within, Decoder
  <1>2. CASE ~At(d, "list")
    <2>1. DecodeArray(o, d) = [ok |-> FALSE, dec |-> d, value |-> data[o]]
      BY <1>2 DEF DecodeArray, Result
    <2> QED
      BY <1>0, <2>1 DEF Decoded
  <1> QED
    BY <1>1, <1>2

LEMMA ValueType ==
    ASSUME TypeOK, pos + size <= Len(stream), NEW o \in Objects, NEW d, Within(d)
    PROVE  Decoded(o, d, DeserializeValue(o, d))
  <1>1. Type[o] \in {"num", "str", "array"}
    BY ConstantsAssumption
  <1> QED
    BY <1>1, NumType, StrType, ArrayType DEF DeserializeValue

(* Nat and records instead of what depends on the length of the stream. *)
LEMMA TypesMean ==
    ASSUME TypeOK
    PROVE  /\ Len(stream) \in Nat /\ pos \in Nat /\ size \in Nat /\ parsed \in Nat
           /\ pos <= Len(stream) /\ size <= Len(stream) /\ parsed <= Len(stream)
           /\ dec \in Decoder /\ dec.payload <= Len(stream) /\ IsMap(items)
           /\ saved \in Decoder /\ saved.payload <= Len(stream) /\ lastId \in Nat
  <1>1. Len(stream) \in Nat
    BY DEF TypeOK
  <1>2. IsMap(items)
    BY MapsAreMaps DEF TypeOK
  <1> QED
    BY <1>1, <1>2 DEF TypeOK, States, Decoder

LEMMA DecoderType ==
    ASSUME Len(stream) \in Nat, NEW d \in Decoder, d.payload <= Len(stream)
    PROVE  d \in States
  <1>1. d = [payload |-> d.payload, elem |-> d.elem] /\ d.payload \in Nat /\ d.elem \in Int
    BY DEF Decoder
  <1>2. d.payload \in 0 .. Len(stream)
    BY <1>1
  <1> DEFINE p == d.payload
             n == d.elem
  <1> HIDE DEF p, n
  <1>3. [payload |-> p, elem |-> n] \in States
    BY <1>1, <1>2 DEF States, p, n
  <1> QED
    BY <1>1, <1>3 DEF p, n

LEMMA StateType ==
    ASSUME NEW p \in Nat, NEW n \in Int
    PROVE  State(p, n) \in Decoder /\ State(p, n).payload = p /\ State(p, n).elem = n
  BY DEF State, Decoder

(* The decoder is in the chunk while an item is looked at. *)
LEMMA InsideMeans ==
    ASSUME ImportInv, pc \in {"loop", "child"}
    PROVE  /\ TypeOK /\ pos + size <= Len(stream) /\ Within(dec) /\ parsed <= size
           /\ size \in Nat /\ Len(stream) \in Nat /\ pos \in Nat /\ parsed \in Nat
  <1>1. TypeOK /\ Inside
    BY DEF ImportInv
  <1>2. dec \in Decoder /\ size \in Nat /\ Len(stream) \in Nat /\ pos \in Nat /\ parsed \in Nat
    BY <1>1, TypesMean
  <1>3. dec.payload \in Nat
    BY <1>2 DEF Decoder
  <1> QED
    BY <1>1, <1>2, <1>3 DEF Inside, Within

LEMMA WithinStream ==
    ASSUME TypeOK, pos + size <= Len(stream), NEW d, Within(d)
    PROVE  d \in States /\ d \in Decoder /\ d.payload \in Nat /\ d.payload <= size /\ d.elem \in Int
  <1>1. Len(stream) \in Nat /\ size \in Nat /\ size <= Len(stream)
    BY TypesMean
  <1>2. d \in Decoder /\ d.payload \in Nat /\ d.payload <= size /\ d.elem \in Int
    BY <1>1 DEF Within, Decoder
  <1>3. d.payload <= Len(stream)
    BY <1>1, <1>2
  <1> QED
    BY <1>1, <1>2, <1>3, DecoderType

(* A value is stored. *)
LEMMA StoreType ==
    ASSUME TypeOK, NEW o \in Objects, NEW result, result.value \in Seq(Nat), Store(o, result)
    PROVE  data' \in [Objects -> Seq(Nat)]
  BY DEF TypeOK, Store

LEMMA InitTypes == ASSUME Init PROVE ImportInv
  <1>1. PICK n \in Lost : /\ n < Len(Encode(entry, items))
                          /\ stream = SubSeq(Encode(entry, items), 1, Len(Encode(entry, items)) - n)
    BY DEF Init
  <1> DEFINE s == Encode(entry, items)
             m == Len(s) - n
  <1>2. s \in Seq(Cells) /\ Len(s) \in Nat
    <2>1. IsMap(items)
      BY MapsAreMaps DEF Init
    <2> QED
      BY <2>1, EncodeType
  <1>3. n \in Nat
    BY ConstantsAssumption
  <1>4. m \in Nat /\ m <= Len(s) /\ 0 + m <= Len(s)
    <2>1. n < Len(s)
      BY <1>1
    <2> HIDE DEF s
    <2> QED
      BY <1>2, <1>3, <2>1
  <1>5. stream \in Seq(Cells) /\ Len(stream) = m
    <2>1. stream = SubSeq(s, 1, m)
      BY <1>1
    <2> HIDE DEF s, m
    <2> QED
      BY <1>2, <1>4, <2>1, PartIs
  <1> HIDE DEF s, m
  <1>6. 0 \in 0 .. Len(stream)
    BY <1>4, <1>5
  <1>7. dec \in States /\ saved \in States
    <2>1. dec = State(0, 1) /\ saved = State(0, 1) /\ 0 \in Nat /\ 1 \in Int
      BY DEF Init
    <2>2. State(0, 1) \in Decoder /\ State(0, 1).payload = 0
      BY <2>1, StateType
    <2>3. 0 <= Len(stream) /\ Len(stream) \in Nat
      BY <1>4, <1>5
    <2> QED
      BY <2>1, <2>2, <2>3, DecoderType
  <1>8. TypeOK
    BY <1>5, <1>6, <1>7, ConstantsAssumption DEF Init, TypeOK
  <1>9. dec.payload = 0 /\ pc = "caller" /\ pos = 0 /\ parsed = 0
    BY DEF Init, State
  <1> QED
    BY <1>8, <1>9 DEF ImportInv

(* The rest of a state stays. *)
LEMMA TypesStay ==
    ASSUME TypeOK, UNCHANGED <<entry, items, stream>>
    PROVE  entry' \in Entries /\ items' \in Maps /\ stream' \in Seq(Cells)
           /\ Len(stream') = Len(stream) /\ States' = States
  BY DEF TypeOK, States

LEMMA ImportWholeTypes == ASSUME ImportInv, ImportWhole PROVE ImportInv'
  <1>1. TypeOK
    BY DEF ImportInv
  <1>2. /\ size' = Len(stream) /\ pc = "caller"
        /\ UNCHANGED <<entry, items, stream, pos, saved, parsed, lastId, data, cut>>
    BY DEF ImportWhole
  <1>3. Len(stream) \in Nat /\ pos \in Nat /\ dec \in Decoder /\ dec.payload <= Len(stream)
    BY <1>1, TypesMean
  <1> DEFINE start == MapStart(entry)
             first == stream[start + 1]
  <1>4. start \in Nat
    BY DEF MapStart
  <1>5. \/ /\ start < Len(stream)
           /\ dec' = State(start + 1, 2 * first.n) /\ pc' \in {"child", "loop"}
           /\ status' = status
        \/ Return("error") /\ dec' = dec
    BY DEF ImportWhole
  <1>6. TypeOK' /\ pc' # "caller"
    <2>1. CASE /\ start < Len(stream)
               /\ dec' = State(start + 1, 2 * first.n) /\ pc' \in {"child", "loop"}
               /\ status' = status
      <3>1. start + 1 \in 1 .. Len(stream)
        BY <1>3, <1>4, <2>1
      <3>2. first \in Cells
        BY <1>1, <3>1 DEF TypeOK
      <3>3. first.n \in Nat
        BY <3>2 DEF Cells
      <3> HIDE DEF start, first
      <3>4. dec' \in Decoder /\ dec'.payload <= Len(stream)
        <4>1. start + 1 \in Nat /\ 2 * first.n \in Int /\ start + 1 <= Len(stream)
          BY <1>3, <1>4, <3>1, <3>3
        <4> QED
          BY <2>1, <4>1, StateType
      <3>5. dec' \in States
        BY <1>3, <3>4, DecoderType
      <3>6. Len(stream) \in 0 .. Len(stream)
        BY <1>3
      <3> QED
        BY <1>1, <1>2, <2>1, <3>5, <3>6, TypesStay DEF TypeOK
    <2>2. CASE Return("error") /\ dec' = dec
      <3>1. Len(stream) \in 0 .. Len(stream)
        BY <1>3
      <3> QED
        BY <1>1, <1>2, <2>2, <3>1, TypesStay DEF TypeOK, Return
    <2> QED
      BY <1>5, <2>1, <2>2
  <1>7. entry # "progressively" /\ pos = 0 /\ parsed = 0
    BY DEF ImportInv, ImportWhole
  <1>8. ASSUME pc' \in {"loop", "child"} PROVE Inside'
    <2>1. dec' = State(start + 1, 2 * first.n) /\ start < Len(stream)
      BY <1>5, <1>8 DEF Return
    <2>2. dec'.payload = start + 1
      BY <2>1 DEF State
    <2>3. pos = 0 /\ parsed = 0
      BY <1>7
    <2> HIDE DEF start
    <2> QED
      BY <1>2, <1>3, <1>4, <2>1, <2>2, <2>3 DEF Inside
  <1> QED
    BY <1>2, <1>6, <1>7, <1>8 DEF ImportInv

(* A step that stays in the chunk and keeps within it. *)
LEMMA ItemTypes ==
    ASSUME ImportInv, pc \in {"loop", "child"},
           UNCHANGED <<entry, items, stream, pos, size>>,
           Within(dec'),
           saved' \in {saved, dec'},
           parsed' \in {parsed, dec'.payload}, entry # "progressively" => parsed' = parsed,
           lastId' \in Nat,
           data' \in [Objects -> Seq(Nat)],
           \/ UNCHANGED <<pc, status>>
           \/ pc' = "end" /\ status' = "error",
           cut' = cut
    PROVE  ImportInv'
  <1>1. /\ TypeOK /\ pos + size <= Len(stream) /\ parsed <= size
        /\ size \in Nat /\ Len(stream) \in Nat /\ pos \in Nat /\ parsed \in Nat
    BY InsideMeans
  <1>2. dec' \in States /\ dec'.payload \in Nat /\ dec'.payload <= size
    BY <1>1, WithinStream
  <1>3. saved' \in States
    BY <1>1, <1>2 DEF TypeOK
  <1>4. parsed' \in Nat /\ parsed' <= size
    BY <1>1, <1>2
  <1>5. parsed' \in 0 .. Len(stream)
    BY <1>1, <1>4
  <1>6. pc' \in {"loop", "child", "end"} /\ status' \in {"none", "more", "ok", "error"}
    BY <1>1 DEF TypeOK
  <1>7. TypeOK'
    BY <1>1, <1>2, <1>3, <1>5, <1>6, TypesStay DEF TypeOK
  <1>8. Inside'
    BY <1>1, <1>2, <1>4 DEF Inside
  <1>9. entry' # "progressively" => pos' = 0 /\ parsed' = 0
    BY DEF ImportInv
  <1> QED
    BY <1>6, <1>7, <1>8, <1>9 DEF ImportInv

(* A call or an import ends. *)
LEMMA ReturnTypes ==
    ASSUME ImportInv, pc \in {"loop", "child"},
           UNCHANGED <<entry, items, stream, size, saved, parsed>>,
           pos' \in {pos, pos + parsed}, entry # "progressively" => pos' = pos,
           dec' \in Decoder, dec'.payload <= size, pc' = "caller" => dec'.payload = 0,
           lastId' \in Nat,
           data' \in [Objects -> Seq(Nat)],
           pc' \in {"caller", "end"}, status' \in {"more", "ok", "error"},
           cut' = cut
    PROVE  ImportInv'
  <1>1. /\ TypeOK /\ pos + size <= Len(stream) /\ parsed <= size
        /\ size \in Nat /\ Len(stream) \in Nat /\ pos \in Nat /\ parsed \in Nat
    BY InsideMeans
  <1>2. dec' \in States
    <2>1. dec'.payload \in Nat
      BY DEF Decoder
    <2>2. dec'.payload <= Len(stream)
      BY <1>1, <2>1
    <2> QED
      BY <1>1, <2>2, DecoderType
  <1>3. pos' \in 0 .. Len(stream)
    BY <1>1
  <1>4. TypeOK'
    BY <1>1, <1>2, <1>3, TypesStay DEF TypeOK
  <1>5. entry' # "progressively" => pos' = 0 /\ parsed' = 0
    BY DEF ImportInv
  <1> QED
    BY <1>4, <1>5 DEF ImportInv

(* What follows an ID. *)
LEMMA AfterId ==
    ASSUME ImportInv, pc \in {"loop", "child"}, At(dec, "uint")
    PROVE  /\ Within(Uint(dec)) /\ Cell(dec).n \in Nat
           /\ Uint(dec).payload = dec.payload + 1 /\ Uint(dec).elem = dec.elem - 1
           /\ CanSkip(Uint(dec)) => Within(Skip(Uint(dec)))
           /\ Cell(dec).n \in Objects =>
                 LET result == DeserializeValue(Cell(dec).n, Uint(dec))
                 IN  /\ Decoded(Cell(dec).n, Uint(dec), result)
                     /\ CanSkip(result.dec) => Within(Skip(result.dec))
  <1>1. TypeOK /\ pos + size <= Len(stream) /\ Within(dec)
    BY InsideMeans
  <1>2. /\ Within(Uint(dec)) /\ Cell(dec).n \in Nat
        /\ Uint(dec).payload = dec.payload + 1 /\ Uint(dec).elem = dec.elem - 1
    BY <1>1, AtMeans
  <1>3. CanSkip(Uint(dec)) => Within(Skip(Uint(dec)))
    BY <1>1, <1>2, SkipType
  <1>4. ASSUME Cell(dec).n \in Objects
        PROVE  LET result == DeserializeValue(Cell(dec).n, Uint(dec))
               IN  /\ Decoded(Cell(dec).n, Uint(dec), result)
                   /\ CanSkip(result.dec) => Within(Skip(result.dec))
    <2> DEFINE result == DeserializeValue(Cell(dec).n, Uint(dec))
    <2>1. Decoded(Cell(dec).n, Uint(dec), result)
      BY <1>1, <1>2, <1>4, ValueType
    <2>2. Within(result.dec)
      BY <2>1 DEF Decoded
    <2> HIDE DEF result
    <2>3. CanSkip(result.dec) => Within(Skip(result.dec))
      BY <1>1, <2>2, SkipType
    <2> QED
      BY <2>1, <2>3 DEF result
  <1> QED
    BY <1>2, <1>3, <1>4

LEMMA ImportItemTypes == ASSUME ImportInv, ImportItem PROVE ImportInv'
  <1> DEFINE id == Cell(dec).n
             result == DeserializeValue(id, Uint(dec))
             failed == IF id \in Writable THEN result.dec ELSE Uint(dec)
  <1>1. /\ entry \in {"data", "report"} /\ pc = "loop" /\ At(dec, "uint")
        /\ IF id \in Writable THEN Store(id, result) ELSE UNCHANGED data
        /\ dec' = IF id \in Writable /\ result.ok THEN result.dec
                  ELSE IF CanSkip(failed) THEN Skip(failed) ELSE failed
        /\ UNCHANGED <<entry, items, stream, pos, size, saved, parsed, lastId, pc, status, cut>>
    BY DEF ImportItem
  <1>2. /\ Within(Uint(dec)) /\ (CanSkip(Uint(dec)) => Within(Skip(Uint(dec))))
        /\ id \in Objects => /\ Decoded(id, Uint(dec), result)
                             /\ CanSkip(result.dec) => Within(Skip(result.dec))
    BY <1>1, AfterId
  <1>3. id \in Writable => id \in Objects
    BY ConstantsAssumption
  <1>4. TypeOK
    BY DEF ImportInv
  <1> HIDE DEF id, result
  <1>5. data' \in [Objects -> Seq(Nat)]
    <2>1. CASE id \in Writable
      BY <1>1, <1>2, <1>3, <1>4, <2>1, StoreType DEF Decoded
    <2>2. CASE id \notin Writable
      BY <1>1, <1>4, <2>2 DEF TypeOK
    <2> QED
      BY <2>1, <2>2
  <1>6. Within(dec')
    BY <1>1, <1>2, <1>3 DEF Decoded
  <1>7. lastId' \in Nat
    BY <1>1, <1>4 DEF TypeOK
  <1> QED
    BY <1>1, <1>5, <1>6, <1>7, ItemTypes

LEMMA FinishTypes == ASSUME ImportInv, ImportFinish \/ RecordFinish PROVE ImportInv'
  <1>1. /\ pc \in {"loop", "child"} /\ pc' = "end" /\ status' \in {"ok", "error"}
        /\ UNCHANGED <<entry, items, stream, pos, size, dec, saved, parsed, lastId, data, cut>>
    BY DEF ImportFinish, RecordFinish, Return, import
  <1>2. TypeOK /\ Within(dec) /\ pos + size <= Len(stream)
    BY <1>1, InsideMeans
  <1>3. dec \in Decoder /\ dec.payload <= size
    BY <1>2, WithinStream
  <1>4. lastId' \in Nat /\ data' \in [Objects -> Seq(Nat)]
    BY <1>1, <1>2 DEF TypeOK
  <1> QED
    BY <1>1, <1>3, <1>4, ReturnTypes

LEMMA RecordItemTypes == ASSUME ImportInv, RecordItem PROVE ImportInv'
  <1> DEFINE id == Cell(dec).n
             result == DeserializeValue(id, Uint(dec))
  <1>1. /\ pc = "child"
        /\ UNCHANGED <<entry, items, stream, pos, size, saved, parsed, lastId, cut>>
    BY DEF RecordItem
  <1>2. \/ /\ At(dec, "uint") /\ id \in RecordItems
           /\ StoreInRecord(id, result) /\ dec' = result.dec
           /\ UNCHANGED <<pc, status>> \/ Return("error")
        \/ /\ data' = data
           /\ At(dec, "uint") /\ dec' = IF CanSkip(Uint(dec)) THEN Skip(Uint(dec)) ELSE Uint(dec)
           /\ UNCHANGED <<pc, status>>
        \/ data' = data /\ dec' = dec /\ Return("error")
    BY DEF RecordItem
  <1>3. TypeOK /\ Within(dec)
    BY <1>1, InsideMeans
  <1>4. At(dec, "uint") =>
           /\ Within(Uint(dec)) /\ (CanSkip(Uint(dec)) => Within(Skip(Uint(dec))))
           /\ id \in RecordItems => Decoded(id, Uint(dec), result)
    <2>1. RecordItems \subseteq Objects
      BY ConstantsAssumption
    <2> QED
      BY <1>1, <2>1, AfterId
  <1>5. data' \in [Objects -> Seq(Nat)]
    <2>1. data \in [Objects -> Seq(Nat)]
      BY <1>3 DEF TypeOK
    <2>2. ASSUME At(dec, "uint"), id \in RecordItems, StoreInRecord(id, result)
          PROVE  data' \in [Objects -> Seq(Nat)]
      <3> DEFINE old == data[id]
                 merged == [j \in DOMAIN old |-> IF j <= Len(result.value) THEN result.value[j]
                                                                          ELSE old[j]]
      <3>1. id \in Objects /\ old \in Seq(Nat) /\ result.value \in Seq(Nat)
        BY <1>4, <2>1, <2>2, ConstantsAssumption DEF Decoded
      <3>2. merged \in Seq(Nat)
        <4> DEFINE n == Len(old)
                   v == result.value
        <4>1. n \in Nat /\ DOMAIN old = 1 .. n /\ Len(v) \in Nat
              /\ (\A j \in 1 .. n : old[j] \in Nat) /\ \A j \in 1 .. Len(v) : v[j] \in Nat
          BY <3>1, SMTT(30)
        <4> HIDE DEF old, n, v
        <4>2. \A j \in 1 .. n : (IF j <= Len(v) THEN v[j] ELSE old[j]) \in Nat
          BY <4>1
        <4>3. merged \in [1 .. n -> Nat]
          BY <4>1, <4>2 DEF v
        <4> HIDE DEF merged
        <4> QED
          BY <4>1, <4>3, FunctionIsSeq
      <3>3. \E w \in {merged, result.value} : data' = [data EXCEPT ![id] = w]
        BY <2>2 DEF StoreInRecord
      <3> HIDE DEF merged
      <3> QED
        BY <2>1, <3>1, <3>2, <3>3
    <2> QED
      BY <1>2, <2>1, <2>2
  <1> HIDE DEF id, result
  <1>6. Within(dec')
    BY <1>2, <1>3, <1>4 DEF Decoded
  <1>7. UNCHANGED <<pc, status>> \/ (pc' = "end" /\ status' = "error")
    BY <1>2 DEF Return
  <1>8. lastId' \in Nat
    BY <1>1, <1>3 DEF TypeOK
  <1> QED
    BY <1>1, <1>5, <1>6, <1>7, <1>8, ItemTypes

LEMMA ProgressiveCallTypes ==
    ASSUME ImportInv, NEW n \in 1 .. MaxChunk, ProgressiveCall(n) PROVE ImportInv'
  <1>1. /\ entry = "progressively" /\ pc = "caller" /\ n \in Sizes /\ size' = n /\ parsed' = 0
        /\ cut' \in BOOLEAN
        /\ UNCHANGED <<entry, items, stream, pos, lastId, data>>
    BY DEF ProgressiveCall
  <1>2. TypeOK /\ dec.payload = 0
    BY <1>1 DEF ImportInv
  <1>3. /\ Len(stream) \in Nat /\ pos \in Nat /\ dec \in Decoder
        /\ n \in Nat \ {0} /\ pos + n <= Len(stream) /\ n <= Len(stream)
    <2>1. Len(stream) \in Nat /\ pos \in Nat /\ dec \in Decoder
      BY <1>2, TypesMean
    <2>2. n \in Nat \ {0}
      BY ConstantsAssumption
    <2>3. n <= Len(stream) - pos
      BY <1>1 DEF Sizes
    <2> QED
      BY <2>1, <2>2, <2>3
  <1>4. stream[pos + 1].n \in Nat
    <2>1. pos + 1 \in 1 .. Len(stream)
      BY <1>3
    <2>2. stream[pos + 1] \in Cells
      BY <1>2, <2>1 DEF TypeOK
    <2> QED
      BY <2>2 DEF Cells
  <1>5. \/ Return("error") /\ UNCHANGED <<dec, saved>>
        \/ /\ dec' \in {State(1, 2 * stream[pos + 1].n), dec}
           /\ saved' = dec' /\ pc' = "loop" /\ UNCHANGED status
    BY DEF ProgressiveCall
  <1>6. dec' \in Decoder /\ dec'.payload <= n
    <2>1. 1 \in Nat /\ 2 * stream[pos + 1].n \in Int
      BY <1>4
    <2>2. State(1, 2 * stream[pos + 1].n) \in Decoder /\ State(1, 2 * stream[pos + 1].n).payload = 1
      BY <2>1, StateType
    <2>3. dec' \in {State(1, 2 * stream[pos + 1].n), dec}
      BY <1>5
    <2> QED
      BY <1>2, <1>3, <2>2, <2>3
  <1>7. dec' \in States
    <2>1. dec'.payload <= Len(stream)
      BY <1>3, <1>6 DEF Decoder
    <2> QED
      BY <1>3, <1>6, <2>1, DecoderType
  <1>8. n \in 0 .. Len(stream) /\ 0 \in 0 .. Len(stream)
    BY <1>3
  <1>9. TypeOK' /\ pc' # "caller"
    <2>1. saved' \in States /\ pc' \in {"loop", "end"} /\ status' \in {"none", "more", "ok", "error"}
      BY <1>2, <1>5, <1>7 DEF TypeOK, Return
    <2>2. pos' \in 0 .. Len(stream) /\ lastId' \in Nat /\ data' \in [Objects -> Seq(Nat)]
      BY <1>1, <1>2 DEF TypeOK
    <2> QED
      BY <1>1, <1>2, <1>7, <1>8, <2>1, <2>2, TypesStay DEF TypeOK
  <1>10. Inside'
    BY <1>1, <1>3, <1>6 DEF Inside
  <1> QED
    BY <1>1, <1>9, <1>10 DEF ImportInv

LEMMA ProgressingMeans ==
    ASSUME ImportInv, Progressing
    PROVE  /\ entry = "progressively" /\ pc = "loop" /\ At(dec, "uint")
           /\ TypeOK /\ pos + size <= Len(stream) /\ Within(dec)
           /\ Within(Uint(dec)) /\ NextId \in Nat
           /\ Uint(dec).payload = dec.payload + 1 /\ Uint(dec).elem = dec.elem - 1
           /\ CanSkip(Uint(dec)) => Within(Skip(Uint(dec)))
           /\ NextId \in Writable => /\ NextId \in Objects /\ Decoded(NextId, Uint(dec), Value)
                                     /\ Within(Value.dec) /\ Value.value \in Seq(Nat)
                                     /\ CanSkip(Value.dec) => Within(Skip(Value.dec))
  <1>1. entry = "progressively" /\ pc = "loop" /\ At(dec, "uint")
    BY DEF Progressing
  <1>2. TypeOK /\ pos + size <= Len(stream) /\ Within(dec)
    BY <1>1, InsideMeans
  <1>3. Writable \subseteq Objects
    BY ConstantsAssumption
  <1>4. /\ Within(Uint(dec)) /\ NextId \in Nat
        /\ Uint(dec).payload = dec.payload + 1 /\ Uint(dec).elem = dec.elem - 1
        /\ CanSkip(Uint(dec)) => Within(Skip(Uint(dec)))
        /\ NextId \in Objects => /\ Decoded(NextId, Uint(dec), Value)
                                 /\ CanSkip(Value.dec) => Within(Skip(Value.dec))
    BY <1>1, AfterId DEF NextId, Value
  <1> QED
    BY <1>1, <1>2, <1>3, <1>4 DEF Decoded

LEMMA ProgressTypes ==
    ASSUME ImportInv, ImportValue \/ SkipStuck \/ SkipUnknown \/ PassWideId
    PROVE  ImportInv'
  <1>1. Progressing /\ UNCHANGED <<entry, items, stream, pos, size, cut>>
    BY DEF ImportValue, SkipStuck, SkipUnknown, PassWideId
  <1>2. /\ pc = "loop" /\ TypeOK /\ Within(dec) /\ pos + size <= Len(stream)
        /\ Within(Uint(dec)) /\ NextId \in Nat /\ entry = "progressively"
        /\ Uint(dec).payload = dec.payload + 1
        /\ CanSkip(Uint(dec)) => Within(Skip(Uint(dec)))
        /\ NextId \in Writable => /\ NextId \in Objects
                                  /\ Within(Value.dec) /\ Value.value \in Seq(Nat)
                                  /\ CanSkip(Value.dec) => Within(Skip(Value.dec))
    BY <1>1, ProgressingMeans
  <1>3. lastId' \in Nat
    BY <1>2 DEF TypeOK, ImportValue, SkipStuck, SkipUnknown, PassWideId
  <1>4. data' \in [Objects -> Seq(Nat)]
    <2>1. CASE data' = data
      BY <1>2, <2>1 DEF TypeOK
    <2>2. CASE NextId \in Writable /\ Store(NextId, Value)
      BY <1>2, <2>2, StoreType
    <2> QED
      BY <2>1, <2>2 DEF ImportValue, SkipStuck, SkipUnknown, PassWideId
  <1>5. CASE ImportValue
    BY <1>1, <1>2, <1>3, <1>4, <1>5, ItemTypes DEF ImportValue
  <1>6. CASE SkipStuck
    <2>1. CASE CanSkip(Value.dec)
      BY <1>1, <1>2, <1>3, <1>4, <1>6, <2>1, ItemTypes DEF SkipStuck
    <2>2. CASE ~CanSkip(Value.dec)
      BY <1>1, <1>2, <1>3, <1>4, <1>6, <2>2, ItemTypes DEF SkipStuck, Return
    <2> QED
      BY <2>1, <2>2
  <1>7. CASE SkipUnknown
    <2>1. CASE CanSkip(Uint(dec))
      BY <1>1, <1>2, <1>3, <1>4, <1>7, <2>1, ItemTypes DEF SkipUnknown
    <2>2. CASE ~CanSkip(Uint(dec))
      <3>1. dec' = State(dec.payload + 1, saved.elem) /\ saved' = dec' /\ parsed' = parsed
            /\ UNCHANGED <<pc, status>>
        BY <1>7, <2>2 DEF SkipUnknown
      <3>2. dec.payload + 1 \in 0 .. size /\ dec.payload + 1 \in Nat /\ saved.elem \in Int
        <4>1. dec.payload + 1 \in 0 .. size /\ saved \in Decoder
          BY <1>2, TypesMean DEF Within
        <4> QED
          BY <4>1 DEF Decoder
      <3>3. Within(dec')
        BY <3>1, <3>2, StateType DEF Within
      <3> QED
        BY <1>1, <1>2, <1>3, <1>4, <3>1, <3>3, ItemTypes
    <2> QED
      BY <2>1, <2>2
  <1>8. CASE PassWideId
    BY <1>1, <1>2, <1>3, <1>4, <1>8, ItemTypes DEF PassWideId
  <1> QED
    BY <1>5, <1>6, <1>7, <1>8

LEMMA AskForMoreTypes == ASSUME ImportInv, AskForMore PROVE ImportInv'
  <1>1. /\ Progressing /\ NextId \in Writable /\ Store(NextId, Value)
        /\ pos' = pos + parsed /\ dec' = State(0, saved.elem)
        /\ lastId' = NextId /\ pc' = "caller" /\ status' = "more"
        /\ UNCHANGED <<entry, items, stream, size, saved, parsed, cut>>
    BY DEF AskForMore, Return
  <1>2. /\ pc = "loop" /\ TypeOK /\ NextId \in Nat /\ entry = "progressively"
        /\ NextId \in Objects /\ Value.value \in Seq(Nat)
    BY <1>1, ProgressingMeans
  <1>3. data' \in [Objects -> Seq(Nat)]
    BY <1>1, <1>2, StoreType
  <1>4. saved.elem \in Int /\ size \in Nat
    BY <1>2, TypesMean DEF Decoder
  <1>5. dec' \in Decoder /\ dec'.payload = 0 /\ 0 <= size
    BY <1>1, <1>4, StateType
  <1> QED
    BY <1>1, <1>2, <1>3, <1>5, ReturnTypes

LEMMA ProgressiveReturnTypes == ASSUME ImportInv, ProgressiveReturn PROVE ImportInv'
  <1>1. /\ entry = "progressively" /\ pc = "loop"
        /\ UNCHANGED <<entry, items, stream, size, saved, parsed, lastId, data, cut>>
    BY DEF ProgressiveReturn
  <1>2. \/ Return("error") /\ pos' = pos /\ dec' = dec
        \/ \E ret \in {"ok", "more"} : EndOfCall(ret)
    BY DEF ProgressiveReturn
  <1>3. TypeOK /\ Within(dec) /\ pos + size <= Len(stream) /\ size \in Nat
    BY <1>1, InsideMeans
  <1>4. dec \in Decoder /\ dec.payload <= size
    BY <1>3, WithinStream
  <1>5. lastId' \in Nat /\ data' \in [Objects -> Seq(Nat)]
    BY <1>1, <1>3 DEF TypeOK
  <1>6. CASE Return("error") /\ pos' = pos /\ dec' = dec
    BY <1>1, <1>4, <1>5, <1>6, ReturnTypes DEF Return
  <1>7. ASSUME NEW ret \in {"ok", "more"}, EndOfCall(ret) PROVE ImportInv'
    <2>1. /\ pos' = pos + parsed /\ dec' = [dec EXCEPT !.payload = 0]
          /\ pc' \in {"caller", "end"} /\ status' \in {"more", "ok", "error"}
      BY <1>7 DEF EndOfCall, Return
    <2>2. dec' \in Decoder /\ dec'.payload = 0
      BY <1>4, <2>1 DEF Decoder
    <2> QED
      BY <1>1, <1>3, <1>5, <2>1, <2>2, ReturnTypes
  <1> QED
    BY <1>2, <1>6, <1>7

LEMMA StutterTypes == ASSUME ImportInv, UNCHANGED vars PROVE ImportInv'
  BY DEF ImportInv, TypeOK, States, Inside, vars

LEMMA ImportInvStep == ASSUME ImportInv, [Next \/ Over]_vars PROVE ImportInv'
  <1>1. CASE UNCHANGED vars
    BY <1>1, StutterTypes
  <1>2. CASE Over
    BY <1>2, StutterTypes DEF Over
  <1>3. CASE Next
    BY <1>3, ImportWholeTypes, ImportItemTypes, FinishTypes, RecordItemTypes,
       ProgressiveCallTypes, ProgressTypes, AskForMoreTypes, ProgressiveReturnTypes DEF Next
  <1> QED
    BY <1>1, <1>2, <1>3

LEMMA ImportInvariant == Spec => []ImportInv
  <1>1. Init => ImportInv
    BY InitTypes
  <1>2. ImportInv /\ [Next \/ Over]_vars => ImportInv'
    BY ImportInvStep
  <1> QED
    BY <1>1, <1>2, PTL DEF Spec

(***************************************************************************)
(* However a map is cut, the decoder reads no cell behind the chunk it was *)
(* given, tells the caller of no more than it was given, and stores        *)
(* numbers into objects of the database only.                              *)
(***************************************************************************)
THEOREM ImportTyped == Spec => []TypeOK
  <1>1. ImportInv => TypeOK
    BY DEF ImportInv
  <1> QED
    BY <1>1, ImportInvariant, PTL
----------------------------------------------------------------------------
(***************************************************************************)
(* Where the decoder is in the map.                                        *)
(***************************************************************************)

(* The item j of a map begins behind the item j - 1; its value, of which   *)
(* the first cell tells the kind, begins a cell later and ends where the   *)
(* item j does.                                                            *)
LEMMA KindOfValue ==
    ASSUME NEW v, IsItem(v)
    PROVE  /\ v \in Seq(Cells) /\ Len(v) \in Nat \ {0} /\ v[1] \in Cells
           /\ v[1].k = "uint" => Len(v) = 1
           /\ v[1].k = "list" /\ (\A j \in 2 .. Len(v) : v[j].k = "uint")
                 => Len(v) = 1 + v[1].n
  <1>1. v \in Seq(Cells) /\ v # <<>> /\ ItemEnd(v, 0) = Len(v)
    BY DEF IsItem
  <1>2. Len(v) \in Nat \ {0} /\ v[1] \in Cells
    BY <1>1
  <1>3. TheEnd(v)[0][1] = TheEnd(v)[1 + Chars(v[1])][Children(v[1])] /\ Children(v[1]) \in Nat
    <2>1. Chars(v[1]) \in Nat /\ Children(v[1]) \in Nat
      BY <1>2, CellNumbers
    <2>2. 0 \in Nat /\ 1 \in Nat /\ 1 # 0 /\ 0 < Len(v) /\ 0 + 1 = 1
      BY <1>2
    <2>3. Further(v, 0) = 1 + Chars(v[1]) /\ ToDo(v, 0, 1) = Children(v[1])
      BY <2>1, <2>2 DEF Further, ToDo
    <2> QED
      BY <1>1, <2>1, <2>2, <2>3, EndCases
  <1>4. TheEnd(v)[0][1] = Len(v)
    BY <1>1, ItemEndIs
  <1>5. ASSUME v[1].k = "uint" PROVE Len(v) = 1
    <2>1. Chars(v[1]) = 0 /\ Children(v[1]) = 0 /\ 1 + 0 = 1
      BY <1>5 DEF Chars, Children
    <2>2. TheEnd(v)[1][0] = 1
      <3>1. 1 \in Nat /\ 0 \in Nat /\ 1 <= Len(v)
        BY <1>2
      <3> QED
        BY <1>1, <3>1, EndCases
    <2> QED
      BY <1>3, <1>4, <2>1, <2>2, Zenon
  <1>6. ASSUME v[1].k = "list", \A j \in 2 .. Len(v) : v[j].k = "uint"
        PROVE  Len(v) = 1 + v[1].n
    <2>1. Chars(v[1]) = 0 /\ Children(v[1]) = v[1].n /\ 1 + 0 = 1
      BY <1>6 DEF Chars, Children
    <2>2. v[1].n \in Nat /\ 1 \in 0 .. Len(v) /\ 1 + 1 = 2
      BY <1>2, <1>3, <2>1
    <2>3. TheEnd(v)[1][v[1].n] = IF 1 + v[1].n <= Len(v) THEN 1 + v[1].n ELSE NoItem
      BY <1>1, <1>6, <2>2, NumbersEnd
    <2>4. Len(v) = IF 1 + v[1].n <= Len(v) THEN 1 + v[1].n ELSE NoItem
      BY <1>3, <1>4, <2>1, <2>3, Zenon
    <2> QED
      BY <1>2, <2>2, <2>4 DEF NoItem
  <1> QED
    BY <1>1, <1>2, <1>5, <1>6

LEMMA ItemsEnd ==
    ASSUME NEW en, NEW is, IsMap(is), NEW j \in 1 .. Len(is)
    PROVE  /\ ItemEnd(Encode(en, is), Ends(en, is, j - 1)) = Ends(en, is, j - 1) + 1
           /\ ItemEnd(Encode(en, is), Ends(en, is, j - 1) + 1) = Ends(en, is, j)
  <1> DEFINE map == Encode(en, is)
             b == Ends(en, is, j - 1)
             v == is[j].value
             len == Len(v)
  <1>1. /\ map \in Seq(Cells) /\ b \in Nat /\ b # 0 /\ Ends(en, is, j) = b + 1 + len
        /\ b + 1 + len <= Len(map) /\ Len(map) \in Nat
        /\ map[b + 1] = Head1("uint", is[j].id)
        /\ \A k \in 1 .. len : map[b + 1 + k] = v[k]
    <2>1. Len(is) \in Nat
      BY PartsType
    <2>2. j \in 0 .. Len(is) /\ j - 1 \in 0 .. Len(is)
      BY <2>1
    <2>3. map \in Seq(Cells) /\ Ends(en, is, j) <= Len(map) /\ b \in Nat \ {0}
      BY <2>2, MapPlaces
    <2>4. Len(map) \in Nat
      BY <2>3
    <2>5. Ends(en, is, j) = b + 1 + len
      BY StepOf
    <2>6. map[b + 1] = Head1("uint", is[j].id)
      BY HeadOf
    <2>7. \A k \in 1 .. len : map[b + 1 + k] = v[k]
      BY CellOf
    <2> QED
      BY <2>3, <2>4, <2>5, <2>6, <2>7
  <1>2. IsItem(v)
    BY DEF IsMap
  <1>3. v \in Seq(Cells) /\ len \in Nat \ {0} /\ ItemEnd(v, 0) = len
    BY <1>2, KindOfValue DEF IsItem
  <1> HIDE DEF map, b, v, len
  <1>4. ItemEnd(map, b + 1) = b + 1 + len
    <2>1. PartOf(v, map, b + 1) /\ b + 1 \in Nat /\ 0 \in 0 .. Len(v) /\ b + 1 + 0 = b + 1
      BY <1>1, <1>3 DEF PartOf, len
    <2>2. ItemEnd(v, 0) = IF ItemEnd(map, b + 1) # NoItem /\ ItemEnd(map, b + 1) <= b + 1 + Len(v)
                          THEN ItemEnd(map, b + 1) - (b + 1) ELSE NoItem
      BY <1>1, <1>3, <2>1, ItemEndInPart
    <2>3. ItemEnd(map, b + 1) = NoItem \/ ItemEnd(map, b + 1) \in b + 1 + 1 .. Len(map)
      BY <1>1, <2>1, ItemEndInRange
    <2> DEFINE e == ItemEnd(map, b + 1)
    <2> HIDE DEF e
    <2>4. len = IF e # NoItem /\ e <= b + 1 + len THEN e - (b + 1) ELSE NoItem
      BY <1>3, <2>2 DEF e, len
    <2>5. e = NoItem \/ e \in Int
      BY <1>1, <2>3 DEF e
    <2>6. e = b + 1 + len
      BY <1>1, <1>3, <2>4, <2>5, SMTT(30) DEF NoItem
    <2> QED
      BY <2>6 DEF e
  <1>5. ItemEnd(map, b) = b + 1
    <2>1. map[b + 1].k = "uint"
      BY <1>1 DEF Head1
    <2>2. Further(map, b) = b + 1 /\ ToDo(map, b, 1) = 0
      BY <1>1, <2>1 DEF Further, ToDo, Chars, Children
    <2>3. b < Len(map) /\ b + 1 \in Nat /\ b + 1 <= Len(map) /\ 1 \in Nat /\ 0 \in Nat /\ 1 # 0
      BY <1>1, <1>3
    <2>4. TheEnd(map)[b][1] = TheEnd(map)[b + 1][0]
      BY <1>1, <2>2, <2>3, EndCases
    <2>5. TheEnd(map)[b + 1][0] = b + 1
      BY <1>1, <2>3, EndCases
    <2> QED
      BY <2>4, <2>5, ItemEndIs
  <1> QED
    BY <1>1, <1>4, <1>5 DEF map, b

(* What has arrived is the beginning of what was sent. *)
Heard == PartOf(stream, Encode(entry, items), 0)

LEMMA ChunkInMap ==
    ASSUME TypeOK, Heard, pos + size <= Len(stream)
    PROVE  /\ Chunk \in Seq(Cells) /\ Len(Chunk) = size /\ size \in Nat /\ pos \in Nat
           /\ Encode(entry, items) \in Seq(Cells) /\ IsMap(items) /\ Len(items) \in Nat
           /\ PartOf(Chunk, Encode(entry, items), pos)
           /\ Len(stream) \in Nat /\ Len(stream) <= Ends(entry, items, Len(items))
           /\ \A i \in 1 .. size : Chunk[i] = Encode(entry, items)[pos + i]
           /\ \A k \in 0 .. Len(items) : Ends(entry, items, k) \in Nat \ {0}
           /\ \A j \in 1 .. Len(items) : Ends(entry, items, j) = Ends(entry, items, j - 1) + 1 + Len(items[j].value)
  <1> DEFINE map == Encode(entry, items)
  <1>1. /\ Chunk \in Seq(Cells) /\ Len(Chunk) = size /\ size \in Nat /\ pos \in Nat
        /\ \A i \in 1 .. size : Chunk[i] = stream[pos + i]
    BY ChunkIs
  <1>2. IsMap(items) /\ Len(stream) \in Nat
    BY TypesMean
  <1>3. Len(items) \in Nat
    BY <1>2, PartsType
  <1>4. /\ map \in Seq(Cells) /\ Ends(entry, items, Len(items)) = Len(map)
        /\ \A k \in 0 .. Len(items) : Ends(entry, items, k) \in Nat \ {0}
        /\ \A j \in 1 .. Len(items) : Ends(entry, items, j) = Ends(entry, items, j - 1) + 1 + Len(items[j].value)
    <2>1. map \in Seq(Cells) /\ Ends(entry, items, Len(items)) = Len(map)
      BY <1>2, MapPlaces
    <2>2. \A k \in 0 .. Len(items) : Ends(entry, items, k) \in Nat \ {0}
      BY <1>2, MapPlaces
    <2>3. ASSUME NEW j \in 1 .. Len(items)
          PROVE  Ends(entry, items, j) = Ends(entry, items, j - 1) + 1 + Len(items[j].value)
      BY <1>2, StepOf
    <2> QED
      BY <2>1, <2>2, <2>3
  <1>5. 0 + Len(stream) <= Len(map) /\ \A i \in 1 .. Len(stream) : stream[i] = map[0 + i]
    BY DEF Heard, PartOf
  <1> HIDE DEF map
  <1>6. Len(stream) <= Len(map) /\ Len(map) \in Nat /\ pos + size <= Len(map)
    BY <1>1, <1>2, <1>4, <1>5
  <1>7. ASSUME NEW i \in 1 .. size PROVE Chunk[i] = map[pos + i]
    <2>1. pos + i \in 1 .. Len(stream) /\ 0 + (pos + i) = pos + i
      BY <1>1, <1>2
    <2> QED
      BY <1>1, <1>5, <2>1
  <1>8. PartOf(Chunk, map, pos)
    BY <1>1, <1>6, <1>7 DEF PartOf
  <1> QED
    BY <1>1, <1>2, <1>3, <1>4, <1>6, <1>7, <1>8 DEF map

LEMMA AtItem ==
    ASSUME TypeOK, Heard, pos + size <= Len(stream), NEW d, Within(d),
           NEW k \in 0 .. Len(items), pos + d.payload = Ends(entry, items, k), d.payload < size
    PROVE  k < Len(items) /\ Cell(d) = Head1("uint", items[k + 1].id)
  <1>1. /\ size \in Nat /\ pos \in Nat /\ Len(items) \in Nat /\ Len(stream) \in Nat
        /\ Len(stream) <= Ends(entry, items, Len(items)) /\ IsMap(items)
        /\ \A i \in 1 .. size : Chunk[i] = Encode(entry, items)[pos + i]
        /\ \A i \in 0 .. Len(items) : Ends(entry, items, i) \in Nat \ {0}
    BY ChunkInMap
  <1>2. d.payload \in Nat /\ k \in Nat
    BY <1>1 DEF Within
  <1> DEFINE n == Len(items)
             last == Ends(entry, items, n)
             p == d.payload
  <1>3. k < Len(items)
    <2> SUFFICES ASSUME k >= n PROVE FALSE
      BY <1>1, <1>2
    <2>1. k = n
      BY <1>1, <1>2
    <2>2. pos + p = last /\ Len(stream) <= last /\ p < size
      BY <1>1, <2>1
    <2> HIDE DEF n, last, p
    <2>3. p \in Nat /\ Len(stream) \in Nat
      BY <1>1, <1>2 DEF p
    <2>4. last \in Int
      BY <1>1, <2>2, <2>3
    <2> QED
      BY <1>1, <2>2, <2>3, <2>4
  <1>4. Cell(d) = Encode(entry, items)[Ends(entry, items, k) + 1]
    <2>1. p + 1 \in 1 .. size /\ pos + (p + 1) = (pos + p) + 1
      BY <1>1, <1>2, SMTT(30)
    <2>2. Chunk[p + 1] = Encode(entry, items)[pos + (p + 1)]
      BY <1>1, <2>1
    <2> QED
      BY <2>1, <2>2 DEF Cell
  <1>5. k + 1 \in 1 .. Len(items) /\ (k + 1) - 1 = k
    BY <1>1, <1>2, <1>3
  <1>6. Encode(entry, items)[Ends(entry, items, (k + 1) - 1) + 1] = Head1("uint", items[k + 1].id)
    BY <1>1, <1>5, HeadOf
  <1> QED
    BY <1>3, <1>4, <1>5, <1>6

(* The cells of v are those of the chunk behind p, as far as it goes. *)
Shows(v, p) == \A i \in 1 .. Len(v) : p + i <= size => Chunk[p + i] = v[i]

(* d is before the value of the item j. *)
BeforeValue(d, j) == pos + d.payload = Ends(entry, items, j - 1) + 1
Complete(j) == Ends(entry, items, j) <= pos + size

LEMMA AtValue ==
    ASSUME TypeOK, Heard, pos + size <= Len(stream), NEW d, Within(d),
           NEW j \in 1 .. Len(items), BeforeValue(d, j), d.elem > 0
    PROVE  /\ IsItem(items[j].value) /\ d.payload \in Nat /\ d.payload <= size
           /\ Shows(items[j].value, d.payload)
           /\ Ends(entry, items, j) - pos = d.payload + Len(items[j].value)
           /\ d.payload < size => Cell(d) = items[j].value[1]
           /\ CanSkip(d) <=> Complete(j)
           /\ CanSkip(d) => Skip(d) = State(Ends(entry, items, j) - pos, d.elem - 1)
  <1> DEFINE map == Encode(entry, items)
             b == Ends(entry, items, j - 1)
             e == Ends(entry, items, j)
             v == items[j].value
             len == Len(v)
             p == d.payload
  <1>1. /\ Chunk \in Seq(Cells) /\ Len(Chunk) = size /\ size \in Nat /\ pos \in Nat
        /\ map \in Seq(Cells) /\ IsMap(items) /\ Len(items) \in Nat
        /\ PartOf(Chunk, map, pos)
        /\ \A i \in 1 .. size : Chunk[i] = map[pos + i]
        /\ \A i \in 0 .. Len(items) : Ends(entry, items, i) \in Nat \ {0}
        /\ e = b + 1 + len
    BY ChunkInMap
  <1>2. p \in Nat /\ p \in 0 .. size /\ pos + p = b + 1
    BY <1>1 DEF Within, BeforeValue
  <1>3. b \in Nat /\ e \in Nat
    <2>1. j - 1 \in 0 .. Len(items) /\ j \in 0 .. Len(items)
      BY <1>1
    <2> QED
      BY <1>1, <2>1
  <1>4. IsItem(v) /\ v \in Seq(Cells) /\ len \in Nat \ {0}
    <2>1. IsItem(v)
      BY <1>1 DEF IsMap
    <2> QED
      BY <2>1, KindOfValue
  <1>5. \A i \in 1 .. len : map[b + 1 + i] = v[i]
    BY <1>1, CellOf
  <1>6. ItemEnd(map, b + 1) = e
    BY <1>1, ItemsEnd
  <1> HIDE DEF map, b, e, v, len, p
  <1>7. ASSUME NEW i \in 1 .. len, p + i <= size
        PROVE  Chunk[p + i] = v[i]
    <2>1. p + i \in 1 .. size /\ pos + (p + i) = b + 1 + i
      <3>1. size \in Nat /\ pos \in Nat /\ p \in Nat /\ b \in Nat /\ len \in Nat /\ pos + p = b + 1
        BY <1>1, <1>2, <1>3, <1>4
      <3> QED
        BY <1>7, <3>1
    <2>2. Chunk[p + i] = map[pos + (p + i)]
      BY <1>1, <2>1
    <2> QED
      BY <1>5, <2>1, <2>2
  <1>8. ASSUME p < size PROVE Cell(d) = v[1]
    <2>1. 1 \in 1 .. len /\ p + 1 <= size
      BY <1>1, <1>2, <1>4, <1>8, SMTT(30)
    <2> QED
      BY <1>7, <2>1 DEF Cell, p
  <1>9. ItemEnd(Chunk, p) = IF e <= pos + size THEN e - pos ELSE NoItem
    <2>1. p \in 0 .. Len(Chunk) /\ ItemEnd(map, pos + p) = e /\ e # NoItem
      BY <1>1, <1>2, <1>3, <1>6 DEF NoItem
    <2>2. ItemEnd(Chunk, p) =
             IF ItemEnd(map, pos + p) # NoItem /\ ItemEnd(map, pos + p) <= pos + Len(Chunk)
             THEN ItemEnd(map, pos + p) - pos ELSE NoItem
      BY <1>1, <2>1, ItemEndInPart
    <2> QED
      BY <1>1, <2>1, <2>2
  <1>10. e - pos = p + len /\ e - pos # NoItem
    BY <1>1, <1>2, <1>3, <1>4 DEF NoItem
  <1>11. CanSkip(d) <=> e <= pos + size
    BY <1>9, <1>10 DEF CanSkip, p
  <1>12. CanSkip(d) => Skip(d) = State(e - pos, d.elem - 1)
    BY <1>9, <1>11 DEF Skip, After, p
  <1>13. p <= size /\ Shows(v, p) /\ (CanSkip(d) <=> Complete(j))
    BY <1>1, <1>2, <1>4, <1>7, <1>11 DEF Shows, Complete, len, e
  <1>14. p \in Nat /\ p <= size /\ e - pos = p + Len(v) /\ IsItem(v)
    BY <1>2, <1>4, <1>10, <1>13 DEF len
  <1> QED
    BY <1>8, <1>12, <1>13, <1>14, Zenon DEF e, v, p

(* A value is decoded, and what it means is stored, if all of it is there  *)
(* and it fits its object.  If it is not decoded either the decoder has    *)
(* stayed in front of it and the object is what it was, or it is cut.      *)
Decodes(o, d, j, result) ==
    /\ result.ok => /\ Complete(j) /\ Fits(o, items[j].value)
                    /\ result.dec = State(Ends(entry, items, j) - pos, d.elem - 1)
                    /\ result.value = Meaning(items[j].value)
    /\ Complete(j) /\ Fits(o, items[j].value) => result.ok
    /\ ~result.ok /\ CanSkip(result.dec) => result.dec = d /\ result.value = data[o]
    /\ ~result.ok /\ Complete(j) => CanSkip(result.dec)

Place(d, j) ==
    /\ TypeOK /\ Heard /\ pos + size <= Len(stream)
    /\ Within(d) /\ j \in 1 .. Len(items) /\ BeforeValue(d, j) /\ d.elem > 0

LEMMA NumDecodes ==
    ASSUME NEW d, NEW j, Place(d, j), NEW o \in Objects, Type[o] = "num"
    PROVE  Decodes(o, d, j, DecodeNum(o, d))
  <1> DEFINE v == items[j].value
             e == Ends(entry, items, j)
  <1>1. /\ TypeOK /\ pos + size <= Len(stream) /\ Within(d) /\ d.elem > 0
        /\ IsItem(v) /\ d.payload \in Nat /\ d.payload <= size
        /\ e - pos = d.payload + Len(v)
        /\ (d.payload < size => Cell(d) = v[1])
        /\ CanSkip(d) <=> Complete(j)
    BY AtValue DEF Place
  <1>2. pos \in Nat /\ size \in Nat /\ e \in Int
    BY ChunkInMap DEF Place
  <1>3. Len(v) \in Nat \ {0} /\ (v[1].k = "uint" => Len(v) = 1)
    BY <1>1, KindOfValue
  <1>4. Fits(o, v) <=> v[1].k = "uint" /\ v[1].n <= Capacity[o]
    BY DEF Fits
  <1>5. CASE At(d, "uint") /\ Cell(d).n <= Capacity[o]
    <2>1. d.payload < size /\ Cell(d) = v[1] /\ v[1].k = "uint" /\ Len(v) = 1
      BY <1>1, <1>3, <1>5 DEF At, Cell
    <2>2. DecodeNum(o, d) = [ok |-> TRUE, dec |-> State(d.payload + 1, d.elem - 1),
                             value |-> <<Cell(d).n>>]
      BY <1>5 DEF DecodeNum, Result, Uint, After
    <2>3. e - pos = d.payload + 1
      BY <1>1, <2>1
    <2>4. Complete(j)
      <3> HIDE DEF e
      <3>1. e <= pos + size
        BY <1>1, <1>2, <2>1, <2>3
      <3> QED
        BY <3>1 DEF Complete, e
    <2>5. Meaning(v) = <<Cell(d).n>> /\ Fits(o, v)
      BY <1>4, <1>5, <2>1 DEF Meaning
    <2> QED
      BY <2>2, <2>3, <2>4, <2>5 DEF Decodes
  <1>6. CASE ~(At(d, "uint") /\ Cell(d).n <= Capacity[o])
    <2>1. DecodeNum(o, d) = [ok |-> FALSE, dec |-> d, value |-> data[o]]
      BY <1>6 DEF DecodeNum, Result
    <2>2. ASSUME Complete(j), Fits(o, v) PROVE FALSE
      <3>1. e <= pos + size
        BY <2>2 DEF Complete
      <3>2. d.payload < size
        <4> HIDE DEF e, v
        <4> QED
          BY <1>1, <1>2, <1>3, <3>1
      <3> QED
        BY <1>1, <1>4, <1>6, <2>2, <3>2 DEF At, Cell
    <2> QED
      BY <1>1, <2>1, <2>2 DEF Decodes
  <1> QED
    BY <1>5, <1>6

LEMMA StrDecodes ==
    ASSUME NEW d, NEW j, Place(d, j), NEW o \in Objects, Type[o] = "str",
           items[j].value[1].k = "str" => Fits(o, items[j].value)
    PROVE  Decodes(o, d, j, DecodeStr(o, d))
  <1> DEFINE v == items[j].value
             e == Ends(entry, items, j)
             p == d.payload
  <1>1. /\ TypeOK /\ pos + size <= Len(stream) /\ Within(d) /\ d.elem > 0
        /\ IsItem(v) /\ p \in Nat /\ p <= size
        /\ e - pos = p + Len(v)
        /\ (p < size => Cell(d) = v[1])
        /\ CanSkip(d) <=> Complete(j)
        /\ CanSkip(d) => Skip(d) = State(e - pos, d.elem - 1)
        /\ Shows(v, p)
    BY AtValue DEF Place
  <1>2. /\ pos \in Nat /\ size \in Nat /\ e \in Int
        /\ Chunk \in Seq(Cells) /\ Len(Chunk) = size
    BY ChunkInMap DEF Place
  <1>3. Len(v) \in Nat \ {0} /\ v \in Seq(Cells)
    BY <1>1, KindOfValue
  <1>4. Fits(o, v) <=> v[1].k = "str" /\ v[1].n < Capacity[o]
    BY DEF Fits
  <1>5. ASSUME Complete(j) PROVE p < size /\ Cell(d) = v[1] /\ p + Len(v) <= size
    <2>1. e <= pos + size
      BY <1>5 DEF Complete
    <2>2. p < size /\ p + Len(v) <= size
      <3> HIDE DEF e, v, p
      <3> QED
        BY <1>1, <1>2, <1>3, <2>1
    <2> QED
      BY <1>1, <2>2
  <1>6. CASE At(d, "str") /\ CanSkip(d)
    <2> DEFINE cells == SubSeq(Chunk, p + 1, Skip(d).payload)
    <2>1. Complete(j) /\ Cell(d) = v[1] /\ p + Len(v) <= size
      BY <1>1, <1>5, <1>6
    <2>2. v[1].k = "str"
      BY <1>6, <2>1 DEF At, Cell
    <2>3. Cell(d).n < Capacity[o]
      BY <1>4, <2>1, <2>2
    <2>4. DecodeStr(o, d) = [ok |-> TRUE, dec |-> Skip(d), value |-> Numbers(cells)]
      BY <1>6, <2>3 DEF DecodeStr, Result
    <2>5. cells = v
      <3> DEFINE len == Len(v)
      <3>1. Skip(d).payload = p + len
        BY <1>1, <1>6 DEF State
      <3>2. len \in Nat /\ p + len <= Len(Chunk) /\ p \in Nat
        BY <1>1, <1>2, <1>3, <2>1
      <3>5. cells = SubSeq(Chunk, p + 1, p + len)
        BY <3>1
      <3> HIDE DEF v, p, cells, len
      <3>3. /\ cells \in Seq(Cells) /\ Len(cells) = len
            /\ \A i \in 1 .. len : cells[i] = Chunk[p + i]
        BY <1>2, <3>2, <3>5, PartIs
      <3>4. ASSUME NEW i \in 1 .. len PROVE cells[i] = v[i]
        <4>1. p + i <= size
          BY <1>2, <3>2
        <4>2. Chunk[p + i] = v[i]
          BY <1>1, <4>1 DEF Shows, len
        <4> QED
          BY <3>3, <4>2
      <3> QED
        BY <1>3, <3>3, <3>4 DEF len
    <2>6. Meaning(v) = Numbers(v) /\ Fits(o, v)
      BY <2>2 DEF Meaning
    <2> HIDE DEF cells
    <2> QED
      BY <1>1, <1>6, <2>1, <2>4, <2>5, <2>6 DEF Decodes
  <1>7. CASE ~(At(d, "str") /\ CanSkip(d))
    <2>1. DecodeStr(o, d) = [ok |-> FALSE, dec |-> d, value |-> data[o]]
      BY <1>7 DEF DecodeStr, Result
    <2>2. ASSUME Complete(j), Fits(o, v) PROVE FALSE
      BY <1>1, <1>4, <1>5, <1>7, <2>2 DEF At, Cell
    <2> QED
      BY <1>1, <2>1, <2>2 DEF Decodes
  <1> QED
    BY <1>6, <1>7

LEMMA ArrayDecodes ==
    ASSUME NEW d, NEW j, Place(d, j), NEW o \in Objects, Type[o] = "array",
           items[j].value[1].k = "list" => Fits(o, items[j].value)
    PROVE  Decodes(o, d, j, DecodeArray(o, d))
  <1> DEFINE v == items[j].value
             e == Ends(entry, items, j)
             p == d.payload
             t == Taken(o, d)
             c == Capacity[o]
  <1>1. /\ TypeOK /\ pos + size <= Len(stream) /\ Within(d) /\ d.elem > 0
        /\ IsItem(v) /\ p \in Nat /\ p <= size
        /\ e - pos = p + Len(v)
        /\ (p < size => Cell(d) = v[1])
        /\ CanSkip(d) <=> Complete(j)
        /\ Shows(v, p)
    BY AtValue DEF Place
  <1>2. /\ pos \in Nat /\ size \in Nat /\ e \in Int
        /\ Chunk \in Seq(Cells) /\ Len(Chunk) = size
    BY ChunkInMap DEF Place
  <1>3. /\ Len(v) \in Nat \ {0} /\ v \in Seq(Cells)
        /\ v[1].k = "list" /\ (\A i \in 2 .. Len(v) : v[i].k = "uint") => Len(v) = 1 + v[1].n
    BY <1>1, KindOfValue
  <1>4. Fits(o, v) <=> v[1].k = "list" /\ v[1].n <= c /\ \A i \in 2 .. Len(v) : v[i].k = "uint"
    BY DEF Fits
  <1>5. ASSUME Complete(j) PROVE p < size /\ Cell(d) = v[1] /\ p + Len(v) <= size
    <2>1. e <= pos + size
      BY <1>5 DEF Complete
    <2>2. p < size /\ p + Len(v) <= size
      <3> HIDE DEF e, v, p
      <3> QED
        BY <1>1, <1>2, <1>3, <2>1
    <2> QED
      BY <1>1, <2>2
  <1>6. CASE At(d, "list")
    <2> DEFINE n == v[1].n
    <2>1. p < size /\ Cell(d) = v[1] /\ v[1].k = "list"
      BY <1>1, <1>6 DEF At, Cell
    <2>2. n \in Nat /\ n <= c /\ Len(v) = 1 + n /\ c \in Nat /\ \A i \in 2 .. Len(v) : v[i].k = "uint"
      <3>1. n <= c /\ Len(v) = 1 + n /\ \A i \in 2 .. Len(v) : v[i].k = "uint"
        BY <1>3, <1>4, <2>1
      <3>2. v[1] \in Cells /\ c \in Nat
        BY <1>1, KindOfValue, ConstantsAssumption
      <3>3. v[1].n \in Nat
        BY <3>2 DEF Cells
      <3> QED
        BY <3>1, <3>2, <3>3
    <2>3. /\ t \in Nat /\ t <= n /\ t <= c
          /\ \A i \in 1 .. t : Element(d, i)
          /\ t < n /\ t < c => ~Element(d, t + 1)
          /\ p + 1 + t <= size
          /\ DecodeArray(o, d) = Result(t \in {n, c}, State(p + 1 + t, d.elem - 1), Elements(o, d))
      BY <1>1, <1>6, <2>1, ArrayTaken
    <2>4. t \in {n, c} <=> t = n
      <3> HIDE DEF t, n, c
      <3> QED
        BY <2>2, <2>3
    <2>5. DecodeArray(o, d) = [ok |-> t = n, dec |-> State(p + 1 + t, d.elem - 1),
                               value |-> Elements(o, d)]
      BY <2>3, <2>4 DEF Result
    <2>6. e - pos = p + 1 + n /\ (Complete(j) <=> p + 1 + n <= size)
      <3>1. e - pos = p + 1 + n
        <4> DEFINE len == Len(v)
        <4>1. e - pos = p + len /\ len = 1 + n /\ n \in Nat /\ p \in Nat
          BY <1>1, <2>2
        <4> HIDE DEF len, e, p, n
        <4> QED
          BY <4>1
      <3>2. Complete(j) <=> e <= pos + size
        BY DEF Complete
      <3> HIDE DEF e, n, p
      <3> QED
        BY <1>1, <1>2, <2>2, <3>1, <3>2
    <2>7. ASSUME t # n PROVE p + 1 + t = size /\ ~Complete(j)
      <3>1. t < n /\ t < c
        <4> HIDE DEF t, n, c
        <4> QED
          BY <2>2, <2>3, <2>7
      <3>2. ~Element(d, t + 1)
        BY <2>3, <3>1
      <3>3. ASSUME p + 1 + (t + 1) <= size PROVE FALSE
        <4>1. /\ t + 2 \in 1 .. Len(v) /\ t + 2 \in 2 .. Len(v)
              /\ p + 1 + (t + 1) = p + (t + 2) /\ p + (t + 2) <= size
          <5>1. p \in Nat /\ size \in Nat /\ n \in Nat /\ Len(v) = 1 + n /\ t \in Nat /\ t < n
            BY <1>1, <1>2, <2>2, <2>3, <3>1
          <5> HIDE DEF t, v, n, p
          <5> QED
            BY <3>3, <5>1
        <4>2. Chunk[p + 1 + (t + 1)] = v[t + 2]
          BY <1>1, <4>1 DEF Shows
        <4>3. v[t + 2].k = "uint"
          BY <2>2, <4>1
        <4> QED
          BY <3>2, <3>3, <4>2, <4>3 DEF Element
      <3>4. /\ p \in Nat /\ size \in Nat /\ n \in Nat /\ t \in Nat /\ p + 1 + t <= size
            /\ ~(p + 1 + (t + 1) <= size) /\ (Complete(j) <=> p + 1 + n <= size)
        BY <1>1, <1>2, <2>2, <2>3, <2>6, <3>3
      <3> HIDE DEF t, n, c, p
      <3> QED
        BY <3>1, <3>4
    <2>8. ASSUME t = n PROVE Complete(j) /\ State(p + 1 + t, d.elem - 1) = State(e - pos, d.elem - 1)
      <3>1. p + 1 + n <= size /\ p + 1 + t = e - pos
        BY <2>3, <2>6, <2>8
      <3> QED
        BY <2>6, <3>1
    <2>9. ASSUME t # n PROVE ~CanSkip(State(p + 1 + t, d.elem - 1))
      <3>1. State(p + 1 + t, d.elem - 1).payload = size
        BY <2>7, <2>9 DEF State
      <3>2. ItemEnd(Chunk, size) = NoItem
        <4>1. ItemEnd(Chunk, size) = NoItem \/ ItemEnd(Chunk, size) \in size + 1 .. size
          BY <1>2, ItemEndInRange
        <4> QED
          BY <1>2, <4>1
      <3> QED
        BY <3>1, <3>2 DEF CanSkip
    <2>10. ASSUME t = n PROVE Elements(o, d) = Meaning(v)
      <3>1. Meaning(v) = [i \in 1 .. Len(v) - 1 |-> v[i + 1].n]
        BY <2>1 DEF Meaning, Numbers
      <3>2. Elements(o, d) = [i \in 1 .. t |-> Chunk[p + 1 + i].n]
        BY DEF Elements
      <3>3. Len(v) - 1 = t
        BY <2>2, <2>10
      <3>4. ASSUME NEW i \in 1 .. t PROVE Chunk[p + 1 + i] = v[i + 1]
        <4>1. i + 1 \in 1 .. Len(v) /\ p + 1 + i = p + (i + 1) /\ p + (i + 1) <= size
          <5> DEFINE len == Len(v)
          <5>1. /\ p \in Nat /\ size \in Nat /\ len \in Nat /\ t \in Nat
                /\ p + 1 + t <= size /\ len - 1 = t
            BY <1>1, <1>2, <1>3, <2>3, <3>3
          <5> HIDE DEF t, len, p
          <5>2. i + 1 \in 1 .. len /\ p + 1 + i = p + (i + 1) /\ p + (i + 1) <= size
            BY <5>1
          <5> QED
            BY <5>2 DEF len
        <4> QED
          BY <1>1, <4>1 DEF Shows
      <3> HIDE DEF t, v, p
      <3> QED
        BY <3>1, <3>2, <3>3, <3>4
    <2> HIDE DEF t, n, p, c
    <2> DEFINE result == DecodeArray(o, d)
    <2>13. /\ result.ok <=> t = n
           /\ result.dec = State(p + 1 + t, d.elem - 1)
           /\ result.value = Elements(o, d)
      <3> DEFINE done == t = n
                 after == State(p + 1 + t, d.elem - 1)
                 els == Elements(o, d)
      <3>1. result = [ok |-> done, dec |-> after, value |-> els]
        BY <2>5
      <3> HIDE DEF result, done, after, els
      <3>2. result.ok = done /\ result.dec = after /\ result.value = els
        BY <3>1
      <3> QED
        BY <3>2 DEF done, after, els
    <2> HIDE DEF result
    <2>11. CASE t = n
      <3>1. result.ok /\ Complete(j) /\ result.dec = State(e - pos, d.elem - 1)
            /\ result.value = Meaning(v) /\ Fits(o, v)
        BY <1>5, <2>1, <2>8, <2>10, <2>11, <2>13
      <3>2. Decodes(o, d, j, result)
        BY <3>1 DEF Decodes
      <3> QED
        BY <3>2 DEF result
    <2>12. CASE t # n
      <3>1. ~result.ok /\ ~Complete(j) /\ ~CanSkip(result.dec)
        BY <2>7, <2>9, <2>12, <2>13
      <3>2. Decodes(o, d, j, result)
        BY <3>1 DEF Decodes
      <3> QED
        BY <3>2 DEF result
    <2> QED
      BY <2>11, <2>12
  <1>7. CASE ~At(d, "list")
    <2>1. DecodeArray(o, d) = [ok |-> FALSE, dec |-> d, value |-> data[o]]
      BY <1>7 DEF DecodeArray, Result
    <2>2. ASSUME Complete(j), Fits(o, v) PROVE FALSE
      BY <1>1, <1>4, <1>5, <1>7, <2>2 DEF At, Cell
    <2> QED
      BY <1>1, <2>1, <2>2 DEF Decodes
  <1> QED
    BY <1>6, <1>7

LEMMA ValueDecodes ==
    ASSUME NEW d, NEW j, Place(d, j), NEW os \in SUBSET Objects, WellSized(items, os),
           items[j].id \in os
    PROVE  Decodes(items[j].id, d, j, DeserializeValue(items[j].id, d))
  <1> DEFINE o == items[j].id
             v == items[j].value
  <1>1. o \in Objects /\ Type[o] \in {"num", "str", "array"}
    BY ConstantsAssumption
  <1>2. j \in DOMAIN items
    BY TypesMean, PartsType DEF Place
  <1>3. <<Type[o], v[1].k>> \in {<<"str", "str">>, <<"array", "list">>} => Fits(o, v)
    BY <1>2 DEF WellSized
  <1> DEFINE result == DeserializeValue(o, d)
  <1>4. Decodes(o, d, j, result)
    <2> HIDE DEF o
    <2>1. CASE Type[o] = "num"
      <3>1. result = DecodeNum(o, d)
        BY <2>1 DEF DeserializeValue
      <3> QED
        BY <1>1, <2>1, <3>1, NumDecodes
    <2>2. CASE Type[o] = "str"
      <3>1. result = DecodeStr(o, d)
        BY <2>2 DEF DeserializeValue
      <3>2. v[1].k = "str" => Fits(o, v)
        BY <1>3, <2>2
      <3> QED
        BY <1>1, <2>2, <3>1, <3>2, StrDecodes
    <2>3. CASE Type[o] = "array"
      <3>1. result = DecodeArray(o, d)
        BY <2>3 DEF DeserializeValue
      <3>2. v[1].k = "list" => Fits(o, v)
        BY <1>3, <2>3
      <3> QED
        BY <1>1, <2>3, <3>1, <3>2, ArrayDecodes
    <2> QED
      BY <1>1, <2>1, <2>2, <2>3
  <1> QED
    BY <1>4

LEMMA EndsAscend ==
    ASSUME NEW en, NEW is, IsMap(is), NEW i \in 0 .. Len(is), NEW j \in 0 .. Len(is), i < j
    PROVE  Ends(en, is, i) < Ends(en, is, j)
  <1> DEFINE n == Len(is)
             E(k) == Ends(en, is, k)
             Up(d) == i + d + 1 <= n => E(i) < E(i + d + 1)
             up == {d \in Nat : Up(d)}
  <1>1. n \in Nat /\ \A k \in 0 .. n : E(k) \in Nat
    BY PartsType, MapPlaces
  <1>2. ASSUME NEW k \in 0 .. n, k + 1 <= n PROVE E(k) < E(k + 1)
    <2>1. k + 1 \in 1 .. n /\ (k + 1) - 1 = k /\ k + 1 \in 0 .. n
      BY <1>1, <1>2
    <2>2. E(k + 1) = E((k + 1) - 1) + 1 + Len(is[k + 1].value)
      BY <2>1, StepOf
    <2>3. Len(is[k + 1].value) \in Nat
      BY <2>1, PartsType
    <2>4. E(k) \in Nat /\ E(k + 1) \in Nat
      BY <1>1, <2>1
    <2> HIDE DEF E
    <2> QED
      BY <2>2, <2>3, <2>4
  <1> HIDE DEF E, n
  <1>3. 0 \in up
    <2>1. i \in 0 .. n /\ i + 0 + 1 = i + 1
      BY <1>1 DEF n
    <2> QED
      BY <1>2, <2>1
  <1>4. ASSUME NEW d \in Nat, d \in up PROVE d + 1 \in up
    <2>1. ASSUME i + (d + 1) + 1 <= n PROVE E(i) < E(i + (d + 1) + 1)
      <3>1. i \in Nat /\ i \in 0 .. n
        BY <1>1 DEF n
      <3>2. i + d + 1 \in 0 .. n /\ i + d + 1 <= n /\ (i + d + 1) + 1 = i + (d + 1) + 1
            /\ (i + d + 1) + 1 \in 0 .. n
        BY <1>1, <2>1, <3>1
      <3>3. E(i) < E(i + d + 1) /\ E(i + d + 1) < E(i + (d + 1) + 1)
        BY <1>2, <1>4, <2>1, <3>2
      <3>4. E(i) \in Nat /\ E(i + d + 1) \in Nat /\ E(i + (d + 1) + 1) \in Nat
        BY <1>1, <3>1, <3>2
      <3> DEFINE a == E(i + d + 1)
                 b == E(i + (d + 1) + 1)
      <3> HIDE DEF a, b
      <3> QED
        BY <3>3, <3>4 DEF a, b
    <2>2. d + 1 \in Nat
      OBVIOUS
    <2> QED
      BY <2>1, <2>2
  <1>5. (j - i) - 1 \in Nat /\ i + ((j - i) - 1) + 1 = j
    BY <1>1 DEF n
  <1>6. (j - i) - 1 \in up
    <2> HIDE DEF up
    <2> QED
      BY <1>3, <1>4, <1>5, NaturalInduction
  <1> QED
    BY <1>1, <1>5, <1>6 DEF E, n

LEMMA EndOfItemIs ==
    ASSUME NEW e, NEW is, IsMap(is), NEW j \in 0 .. Len(is)
    PROVE  EndOfItem(e, is, j) = Ends(e, is, j)
  <1> DEFINE parts == Parts(is)
             first == SubSeq(is, 1, j)
             S == [id : Nat, value : Seq(Cells)]
  <1>1. /\ is \in Seq(S) /\ Len(is) \in Nat /\ first \in Seq(S) /\ Len(first) = j
        /\ \A i \in 1 .. j : first[i] = is[i]
    <2>1. is \in Seq(S)
      BY DEF IsMap
    <2> HIDE DEF S
    <2> QED
      BY <2>1
  <1>2. parts \in Seq(Seq(Cells)) /\ Len(parts) = Len(is) /\ DOMAIN is = 1 .. Len(is)
    BY PartsType
  <1>3. [i \in DOMAIN first |-> EncodeItem(first[i])] = SubSeq(parts, 1, j)
    <2>1. DOMAIN first = 1 .. j
      BY <1>1
    <2>2. [i \in DOMAIN first |-> EncodeItem(first[i])] = [i \in 1 .. j |-> EncodeItem(is[i])]
      BY <1>1, <2>1
    <2>3. \A i \in 1 .. j : EncodeItem(is[i]) = parts[i]
      BY <1>1, <1>2 DEF Parts
    <2> HIDE DEF parts
    <2>4. SubSeq(parts, 1, j) = [i \in 1 .. j |-> parts[i]]
      BY <1>1, <1>2
    <2> QED
      BY <2>2, <2>3, <2>4
  <1>4. FlattenSeq(SubSeq(parts, 1, j)) \in Seq(Cells)
    <2>1. j \in 0 .. Len(parts)
      BY <1>2
    <2> HIDE DEF parts
    <2> QED
      BY <1>2, <2>1, FlattenSteps
  <1>5. EncodeMap(first) = <<Head1("map", Len(first))>> \o FlattenSeq(SubSeq(parts, 1, j))
    BY <1>3, Zenon DEF EncodeMap
  <1>6. \A x, s : s \in Seq(Cells) => Len(<<x>> \o s) = 1 + Len(s)
    OBVIOUS
  <1> HIDE DEF first, parts
  <1>7. Len(EncodeMap(first)) = 1 + Len(FlattenSeq(SubSeq(parts, 1, j)))
    BY <1>4, <1>5, <1>6
  <1> QED
    BY <1>7, Zenon DEF EndOfItem, Ends, EndsIn, Before, first, parts

(* How many items end at or before a place. *)
DealtAt(e, is, p) == Max({0} \cup {i \in DOMAIN is : EndOfItem(e, is, i) <= p})

LEMMA DealtIs ==
    ASSUME NEW e, NEW is, IsMap(is), NEW p \in Nat, NEW j \in 0 .. Len(is),
           j = 0 \/ Ends(e, is, j) <= p,
           j < Len(is) => p < Ends(e, is, j + 1)
    PROVE  DealtAt(e, is, p) = j
  <1> DEFINE n == Len(is)
             E(i) == Ends(e, is, i)
             m == MapStart(e)
             over == {0} \cup {i \in DOMAIN is : EndOfItem(e, is, i) <= p}
  <1>1. n \in Nat /\ DOMAIN is = 1 .. n /\ (\A i \in 0 .. n : E(i) \in Nat) /\ m \in Nat
    BY PartsType, MapPlaces DEF MapStart
  <1>2. \A i \in 1 .. n : EndOfItem(e, is, i) = E(i)
    BY <1>1, EndOfItemIs
  <1>3. \A i, k \in 0 .. n : i < k => E(i) < E(k)
    BY EndsAscend
  <1> HIDE DEF n, E, m
  <1>4. j \in over
    BY <1>1, <1>2 DEF n, E, m
  <1>5. ASSUME NEW i \in over PROVE i <= j
    <2> SUFFICES ASSUME i > j PROVE FALSE
      BY <1>1 DEF n
    <2>1. i \in 1 .. n /\ E(i) <= p
      BY <1>1, <1>2
    <2>2. j < Len(is) /\ j + 1 \in 0 .. n /\ i \in 0 .. n /\ j + 1 <= i
      BY <1>1, <2>1 DEF n
    <2>3. p < E(j + 1)
      BY <2>2 DEF E, m
    <2>4. E(j + 1) <= E(i)
      BY <1>1, <1>3, <2>2
    <2> QED
      BY <1>1, <2>1, <2>2, <2>3, <2>4
  <1>6. over \subseteq Nat /\ \A i \in over : i <= j
    BY <1>1, <1>5
  <1>7. DealtAt(e, is, p) = Max(over)
    BY DEF DealtAt
  <1> HIDE DEF over
  <1>8. Max(over) \in over /\ \A i \in over : i <= Max(over)
    BY <1>4, <1>6, Greatest
  <1>9. Max(over) <= j /\ j <= Max(over) /\ Max(over) \in Nat
    BY <1>4, <1>6, <1>8
  <1> QED
    BY <1>7, <1>9
----------------------------------------------------------------------------
(***************************************************************************)
(* Progress.  In the loop of the progressive import the decoder is between *)
(* two items, or behind the ID of an item that it cannot skip because the  *)
(* rest has not come, or again in front of the header.  A call that has    *)
(* not parsed an item yet began with the one that follows, and unless some *)
(* call was cut holds all of it.  *last_id is the item dealt with last.    *)
(***************************************************************************)
Excused == cut \/ FirstDoesNotFit

Between(k) ==
    /\ pos + dec.payload = Ends(entry, items, k) /\ dec.elem = 2 * (Len(items) - k) /\ saved = dec
    /\ parsed # dec.payload => parsed = 0 /\ pos = 0 /\ lastId = 0 /\ k = 0
    /\ parsed = 0 => cut \/ (k < Len(items) /\ Complete(k + 1))
    /\ parsed # 0 => k # 0 /\ lastId = items[k].id

Behind(k) ==
    /\ k < Len(items) /\ ~Complete(k + 1) /\ lastId = items[k + 1].id
    /\ pos + dec.payload = Ends(entry, items, k) + 1 /\ dec.elem = 2 * (Len(items) - k)
    /\ parsed # 0 => parsed = dec.payload - 1
    /\ parsed = 0 => cut

AtHeader ==
    pos = 0 /\ dec.payload = 0 /\ parsed = 0 /\ dec.elem = 2 * Len(items) /\ Excused

InLoop == AtHeader \/ \E k \in 0 .. Len(items) : Between(k) \/ Behind(k)

(* Between two calls. *)
Resumed(k) ==
    /\ dec.elem = 2 * (Len(items) - k)
    /\ pos = Ends(entry, items, k) \/ (pos = 0 /\ k = 0 /\ Excused)
    /\ lastId = 0 => pos # 0 /\ ~ToldApart(items)

AtCaller == (pos = 0 /\ lastId = 0) \/ \E k \in 0 .. Len(items) : Resumed(k)

ProgressInv ==
    entry = "progressively" =>
        /\ Heard
        /\ ShortIds =>
            /\ pc = "caller" => status # "error" /\ AtCaller
            /\ pc = "loop" => status # "error" /\ InLoop
            /\ pc # "child"
            /\ status = "error" /\ ToldApart(items) => Excused

Underway ==
    /\ ImportInv /\ ProgressInv /\ WellSized(items, Writable)
    /\ entry = "progressively" /\ ShortIds

LEMMA ExcusedStays ==
    ASSUME items' = items, cut => cut', Excused PROVE Excused'
  BY DEF Excused, FirstDoesNotFit

(* In the loop an ID is decoded only between two items. *)
LEMMA IdIsBetween ==
    ASSUME Underway, Progressing
    PROVE  \E k \in 0 .. Len(items) :
              /\ Between(k) /\ k < Len(items) /\ k + 1 \in 1 .. Len(items)
              /\ NextId = items[k + 1].id /\ NextId <= MaxId
              /\ Uint(dec).elem = 2 * (Len(items) - k) - 1
              /\ Place(Uint(dec), k + 1)
  <1>1. /\ TypeOK /\ pos + size <= Len(stream) /\ Within(dec) /\ pc = "loop"
        /\ At(dec, "uint") /\ Within(Uint(dec))
        /\ Uint(dec).payload = dec.payload + 1 /\ Uint(dec).elem = dec.elem - 1
    BY ProgressingMeans DEF Underway
  <1>2. Heard /\ InLoop
    BY <1>1 DEF Underway, ProgressInv
  <1>3. /\ size \in Nat /\ pos \in Nat /\ Len(items) \in Nat /\ IsMap(items)
        /\ \A i \in 1 .. size : Chunk[i] = Encode(entry, items)[pos + i]
        /\ \A i \in 0 .. Len(items) : Ends(entry, items, i) \in Nat \ {0}
        /\ \A j \in 1 .. Len(items) : Ends(entry, items, j) = Ends(entry, items, j - 1) + 1 + Len(items[j].value)
    BY <1>1, <1>2, ChunkInMap
  <1>4. dec.payload \in Nat /\ dec.payload < size /\ Cell(dec).k = "uint" /\ dec.elem \in Int
    BY <1>1, <1>3 DEF At, Cell, Within, Decoder
  <1>5. ~AtHeader
    <2> SUFFICES ASSUME AtHeader PROVE FALSE
      OBVIOUS
    <2>1. pos = 0 /\ dec.payload = 0
      BY DEF AtHeader
    <2>2. 1 \in 1 .. size /\ pos + 1 = 1 /\ dec.payload + 1 = 1
      BY <1>3, <1>4, <2>1
    <2>3. Cell(dec) = Encode(entry, items)[1]
      BY <1>3, <2>2 DEF Cell
    <2>4. Encode(entry, items)[MapStart(entry) + 1] = MapHead(items) /\ MapStart(entry) = 0
      BY <1>1, <1>3, MapPlaces DEF MapStart, Progressing
    <2>5. Encode(entry, items)[1] = MapHead(items)
      BY <2>4
    <2> QED
      BY <1>4, <2>3, <2>5 DEF Head1, MapHead
  <1>6. ASSUME NEW k \in 0 .. Len(items), Behind(k) PROVE FALSE
    <2>1. k < Len(items) /\ ~Complete(k + 1) /\ pos + dec.payload = Ends(entry, items, k) + 1
          /\ dec.elem = 2 * (Len(items) - k)
      BY <1>6 DEF Behind
    <2>2. k + 1 \in 1 .. Len(items) /\ (k + 1) - 1 = k /\ dec.elem > 0
      BY <1>3, <2>1
    <2>3. BeforeValue(dec, k + 1)
      BY <2>1, <2>2 DEF BeforeValue
    <2>4. IsItem(items[k + 1].value) /\ Cell(dec) = items[k + 1].value[1]
      BY <1>1, <1>2, <1>4, <2>2, <2>3, AtValue
    <2>5. Len(items[k + 1].value) = 1
      BY <1>4, <2>4, KindOfValue
    <2>6. Ends(entry, items, k + 1) = Ends(entry, items, k) + 1 + 1
      BY <1>3, <2>2, <2>5
    <2> DEFINE b == Ends(entry, items, k)
               e == Ends(entry, items, k + 1)
    <2>7. b \in Nat /\ e = b + 1 + 1 /\ pos + dec.payload = b + 1
      BY <1>3, <2>1, <2>6
    <2> HIDE DEF b, e
    <2>8. e <= pos + size
      BY <1>3, <1>4, <2>7
    <2> QED
      BY <2>1, <2>8 DEF Complete, e
  <1>7. PICK k \in 0 .. Len(items) : Between(k)
    BY <1>2, <1>5, <1>6 DEF InLoop
  <1>8. pos + dec.payload = Ends(entry, items, k) /\ dec.elem = 2 * (Len(items) - k)
    BY <1>7 DEF Between
  <1>9. k < Len(items) /\ Cell(dec) = Head1("uint", items[k + 1].id)
    BY <1>1, <1>2, <1>4, <1>8, AtItem
  <1>10. k + 1 \in 1 .. Len(items) /\ (k + 1) - 1 = k
    BY <1>3, <1>9
  <1>11. NextId = items[k + 1].id
    BY <1>9 DEF NextId, Head1
  <1>12. NextId <= MaxId
    <2>1. k + 1 \in DOMAIN items
      BY <1>3, <1>10, PartsType
    <2> QED
      BY <1>11, <2>1 DEF Underway, ShortIds
  <1>13. Uint(dec).elem = 2 * (Len(items) - k) - 1 /\ Uint(dec).elem > 0
    BY <1>1, <1>3, <1>4, <1>8, <1>9
  <1>14. BeforeValue(Uint(dec), k + 1)
    <2>1. pos + (dec.payload + 1) = Ends(entry, items, k) + 1
      BY <1>3, <1>4, <1>8
    <2> QED
      BY <1>1, <1>10, <2>1 DEF BeforeValue
  <1>15. Place(Uint(dec), k + 1)
    BY <1>1, <1>2, <1>10, <1>13, <1>14 DEF Place
  <1> QED
    BY <1>7, <1>9, <1>10, <1>11, <1>12, <1>13, <1>15

(* An item has been dealt with: the decoder is behind it. *)
LEMMA GoesOn ==
    ASSUME Underway, Progressing, NEW k \in 0 .. Len(items), k < Len(items),
           Between(k), NextId = items[k + 1].id,
           UNCHANGED <<entry, items, stream, pos, size, pc, status, cut>>,
           dec' = State(Ends(entry, items, k + 1) - pos, 2 * (Len(items) - k) - 1 - 1),
           saved' = dec', parsed' = dec'.payload, lastId' = NextId
    PROVE  ProgressInv'
  <1>1. TypeOK /\ pos + size <= Len(stream) /\ pc = "loop" /\ Within(dec)
    BY ProgressingMeans DEF Underway
  <1>2. Heard /\ status # "error" /\ ShortIds /\ entry = "progressively"
    BY <1>1 DEF Underway, ProgressInv
  <1>3. /\ size \in Nat /\ pos \in Nat /\ Len(items) \in Nat /\ IsMap(items)
        /\ \A i \in 0 .. Len(items) : Ends(entry, items, i) \in Nat \ {0}
    BY <1>1, <1>2, ChunkInMap
  <1>4. k + 1 \in 0 .. Len(items) /\ k \in 0 .. Len(items) /\ k + 1 # 0
    BY <1>3
  <1> DEFINE b == Ends(entry, items, k)
             e == Ends(entry, items, k + 1)
             p == dec.payload
  <1>5. b < e
    BY <1>3, <1>4, EndsAscend
  <1>6. b \in Nat /\ e \in Nat /\ pos + p = b /\ p \in Nat
    BY <1>1, <1>3, <1>4 DEF Between, Within
  <1>7. dec'.payload = e - pos /\ dec'.elem = 2 * (Len(items) - k) - 1 - 1
    BY DEF State
  <1> HIDE DEF b, e, p
  <1>8. pos + (e - pos) = e /\ e - pos # 0 /\ 2 * (Len(items) - k) - 1 - 1 = 2 * (Len(items) - (k + 1))
    BY <1>3, <1>5, <1>6
  <1>9. Between(k + 1)'
    <2>1. pos' + dec'.payload = Ends(entry', items', k + 1) /\ dec'.elem = 2 * (Len(items') - (k + 1))
      BY <1>7, <1>8 DEF e
    <2>2. parsed' # 0 /\ parsed' = dec'.payload /\ saved' = dec' /\ lastId' = items'[k + 1].id
      BY <1>7, <1>8
    <2> QED
      BY <1>4, <2>1, <2>2 DEF Between
  <1>10. InLoop'
    <2>1. k + 1 \in 0 .. Len(items')
      BY <1>4
    <2> QED
      BY <1>9, <2>1 DEF InLoop
  <1>11. Heard' /\ pc' = "loop" /\ status' # "error"
    BY <1>1, <1>2 DEF Heard
  <1> QED
    BY <1>10, <1>11 DEF ProgressInv

(* An import ends without an error, or excused. *)
LEMMA EndsExcused ==
    ASSUME Underway, UNCHANGED <<entry, items, stream>>, cut => cut', pc' = "end",
           status' = "error" /\ ToldApart(items) => Excused
    PROVE  ProgressInv'
  <1>1. Heard
    BY DEF Underway, ProgressInv
  <1>2. Heard'
    BY <1>1 DEF Heard
  <1>3. status' = "error" /\ ToldApart(items') => Excused'
    BY ExcusedStays
  <1> QED
    BY <1>2, <1>3 DEF ProgressInv

(* The value of a known object. *)
LEMMA KnownDecodes ==
    ASSUME Underway, Progressing, NextId \in Writable,
           NEW k \in 0 .. Len(items), NextId = items[k + 1].id, Place(Uint(dec), k + 1)
    PROVE  Decodes(NextId, Uint(dec), k + 1, Value)
  <1>1. WellSized(items, Writable) /\ Writable \in SUBSET Objects
    BY ConstantsAssumption DEF Underway
  <1>2. items[k + 1].id \in Writable
    OBVIOUS
  <1>3. Decodes(items[k + 1].id, Uint(dec), k + 1, DeserializeValue(items[k + 1].id, Uint(dec)))
    BY <1>1, <1>2, ValueDecodes
  <1> QED
    BY <1>3 DEF Value

(* A value that can be skipped is left where its item ends. *)
LEMMA SkipsItem ==
    ASSUME NEW d, NEW j, Place(d, j)
    PROVE  /\ CanSkip(d) <=> Complete(j)
           /\ CanSkip(d) => Skip(d) = State(Ends(entry, items, j) - pos, d.elem - 1)
  BY AtValue DEF Place

LEMMA ImportValueProgress == ASSUME Underway, ImportValue PROVE ProgressInv'
  <1>1. /\ Progressing /\ NextId \in Writable /\ Value.ok
        /\ dec' = Value.dec /\ saved' = dec' /\ parsed' = dec'.payload /\ lastId' = NextId
        /\ UNCHANGED <<entry, items, stream, pos, size, pc, status, cut>>
    BY DEF ImportValue
  <1>2. PICK k \in 0 .. Len(items) :
              /\ Between(k) /\ k < Len(items) /\ k + 1 \in 1 .. Len(items)
              /\ NextId = items[k + 1].id
              /\ Uint(dec).elem = 2 * (Len(items) - k) - 1
              /\ Place(Uint(dec), k + 1)
    BY <1>1, IdIsBetween
  <1>3. Decodes(NextId, Uint(dec), k + 1, Value)
    BY <1>1, <1>2, KnownDecodes
  <1>4. dec' = State(Ends(entry, items, k + 1) - pos, 2 * (Len(items) - k) - 1 - 1)
    BY <1>1, <1>2, <1>3 DEF Decodes
  <1> QED
    BY <1>1, <1>2, <1>4, GoesOn

LEMMA SkipStuckProgress == ASSUME Underway, SkipStuck PROVE ProgressInv'
  <1>1. /\ Progressing /\ NextId \in Writable /\ ~Value.ok /\ NextId = lastId
        /\ UNCHANGED <<entry, items, stream, pos, size, lastId, cut>>
    BY DEF SkipStuck
  <1>2. PICK k \in 0 .. Len(items) :
              /\ Between(k) /\ k < Len(items) /\ k + 1 \in 1 .. Len(items)
              /\ NextId = items[k + 1].id
              /\ Uint(dec).elem = 2 * (Len(items) - k) - 1
              /\ Place(Uint(dec), k + 1)
    BY <1>1, IdIsBetween
  <1>3. Decodes(NextId, Uint(dec), k + 1, Value)
    BY <1>1, <1>2, KnownDecodes
  <1>4. CASE CanSkip(Value.dec)
    <2>1. /\ dec' = Skip(Value.dec) /\ saved' = dec' /\ parsed' = dec'.payload
          /\ UNCHANGED <<pc, status>>
      BY <1>4 DEF SkipStuck
    <2>2. Value.dec = Uint(dec)
      BY <1>1, <1>3, <1>4 DEF Decodes
    <2>3. Skip(Uint(dec)) = State(Ends(entry, items, k + 1) - pos, Uint(dec).elem - 1)
      BY <1>2, <1>4, <2>2, SkipsItem
    <2>4. dec' = State(Ends(entry, items, k + 1) - pos, 2 * (Len(items) - k) - 1 - 1)
      BY <1>2, <2>1, <2>2, <2>3
    <2> QED
      BY <1>1, <1>2, <2>1, <2>4, GoesOn
  <1>5. CASE ~CanSkip(Value.dec)
    <2>1. pc' = "end" /\ status' = "error"
      BY <1>5 DEF SkipStuck, Return
    <2>2. ~Complete(k + 1)
      BY <1>1, <1>3, <1>5 DEF Decodes
    <2>3. ASSUME ToldApart(items) PROVE cut
      <3>1. CASE parsed = 0
        BY <1>2, <2>2, <3>1 DEF Between
      <3>2. CASE parsed # 0
        <4>1. k # 0 /\ items[k + 1].id = items[k].id
          BY <1>1, <1>2, <3>2 DEF Between
        <4>2. k + 1 \in DOMAIN items /\ k + 1 > 1 /\ (k + 1) - 1 = k
          <5>1. IsMap(items)
            BY TypesMean DEF Underway, ImportInv
          <5>2. DOMAIN items = 1 .. Len(items) /\ Len(items) \in Nat
            BY <5>1, PartsType
          <5> QED
            BY <1>2, <4>1, <5>2
        <4> QED
          BY <2>3, <4>1, <4>2 DEF ToldApart
      <3> QED
        BY <3>1, <3>2
    <2> QED
      BY <1>1, <2>1, <2>3, EndsExcused DEF Excused
  <1> QED
    BY <1>4, <1>5

LEMMA SkipUnknownProgress == ASSUME Underway, SkipUnknown PROVE ProgressInv'
  <1>1. /\ Progressing /\ saved' = dec' /\ lastId' = NextId
        /\ UNCHANGED <<entry, items, stream, pos, size, pc, status, cut>>
    BY DEF SkipUnknown
  <1>2. PICK k \in 0 .. Len(items) :
              /\ Between(k) /\ k < Len(items) /\ k + 1 \in 1 .. Len(items)
              /\ NextId = items[k + 1].id
              /\ Uint(dec).elem = 2 * (Len(items) - k) - 1
              /\ Place(Uint(dec), k + 1)
    BY <1>1, IdIsBetween
  <1>3. CASE CanSkip(Uint(dec))
    <2>1. dec' = Skip(Uint(dec)) /\ parsed' = dec'.payload
      BY <1>3 DEF SkipUnknown
    <2>2. Skip(Uint(dec)) = State(Ends(entry, items, k + 1) - pos, Uint(dec).elem - 1)
      BY <1>2, <1>3, SkipsItem
    <2>3. dec' = State(Ends(entry, items, k + 1) - pos, 2 * (Len(items) - k) - 1 - 1)
      BY <1>2, <2>1, <2>2
    <2> QED
      BY <1>1, <1>2, <2>1, <2>3, GoesOn
  <1>4. CASE ~CanSkip(Uint(dec))
    <2>1. dec' = State(dec.payload + 1, saved.elem) /\ parsed' = parsed
      BY <1>4 DEF SkipUnknown
    <2>2. ~Complete(k + 1)
      BY <1>2, <1>4, SkipsItem
    <2>3. /\ pos + dec.payload = Ends(entry, items, k) /\ dec.elem = 2 * (Len(items) - k)
          /\ saved = dec /\ (parsed = 0 => cut) /\ (parsed # 0 => parsed = dec.payload)
      BY <1>2, <2>2 DEF Between
    <2>4. dec'.payload = dec.payload + 1 /\ dec'.elem = 2 * (Len(items) - k)
      BY <2>1, <2>3 DEF State
    <2>5. pos \in Nat /\ dec.payload \in Nat /\ pc = "loop"
      <3>1. TypeOK /\ Within(dec) /\ pc = "loop"
        BY <1>1, ProgressingMeans DEF Underway
      <3> QED
        BY <3>1, TypesMean DEF Decoder
    <2>6. pos' + dec'.payload = Ends(entry', items', k) + 1 /\ (parsed' # 0 => parsed' = dec'.payload - 1)
      BY <1>1, <2>1, <2>3, <2>4, <2>5, SMTT(30)
    <2>7. Behind(k)'
      <3>1. ~Complete(k + 1)'
        BY <1>1, <2>2 DEF Complete
      <3>2. k < Len(items') /\ lastId' = items'[k + 1].id /\ dec'.elem = 2 * (Len(items') - k)
            /\ (parsed' = 0 => cut')
        BY <1>1, <1>2, <2>1, <2>3, <2>4
      <3> QED
        BY <2>6, <3>1, <3>2 DEF Behind
    <2>8. InLoop'
      <3>1. k \in 0 .. Len(items')
        BY <1>1
      <3> QED
        BY <2>7, <3>1 DEF InLoop
    <2>9. Heard /\ status # "error"
      BY <2>5 DEF Underway, ProgressInv
    <2>10. Heard' /\ status' # "error" /\ pc' = "loop"
      BY <1>1, <2>5, <2>9 DEF Heard
    <2> QED
      BY <2>8, <2>10 DEF ProgressInv
  <1> QED
    BY <1>3, <1>4

LEMMA NoWideId == ASSUME Underway PROVE ~PassWideId
  <1> SUFFICES ASSUME PassWideId PROVE FALSE
    OBVIOUS
  <1>1. Progressing /\ NextId > MaxId
    BY DEF PassWideId
  <1>2. NextId <= MaxId /\ NextId \in Nat /\ MaxId \in Nat
    BY <1>1, IdIsBetween, ProgressingMeans, ConstantsAssumption DEF Underway
  <1> QED
    BY <1>1, <1>2

(* A call ends and the import goes on. *)
LEMMA CallerResumes ==
    ASSUME Underway, UNCHANGED <<entry, items, stream>>, NEW k \in 0 .. Len(items), Resumed(k)',
           pc' = "caller", status' # "error"
    PROVE  ProgressInv'
  <1>1. Heard
    BY DEF Underway, ProgressInv
  <1>2. Heard'
    BY <1>1 DEF Heard
  <1>3. AtCaller'
    <2>1. k \in 0 .. Len(items')
      OBVIOUS
    <2> QED
      BY <2>1 DEF AtCaller
  <1> QED
    BY <1>2, <1>3 DEF ProgressInv

LEMMA AskForMoreProgress == ASSUME Underway, AskForMore PROVE ProgressInv'
  <1>1. /\ Progressing /\ NextId \in Writable /\ ~Value.ok
        /\ pos' = pos + parsed /\ dec' = State(0, saved.elem) /\ lastId' = NextId
        /\ pc' = "caller" /\ status' = "more"
        /\ UNCHANGED <<entry, items, stream, size, saved, parsed, cut>>
    BY DEF AskForMore, Return
  <1>2. PICK k \in 0 .. Len(items) :
              /\ Between(k) /\ k < Len(items) /\ k + 1 \in 1 .. Len(items)
              /\ NextId = items[k + 1].id
              /\ Uint(dec).elem = 2 * (Len(items) - k) - 1
              /\ Place(Uint(dec), k + 1)
    BY <1>1, IdIsBetween
  <1>3. Decodes(NextId, Uint(dec), k + 1, Value)
    BY <1>1, <1>2, KnownDecodes
  <1>4. dec'.elem = 2 * (Len(items) - k)
    <2>1. saved.elem = 2 * (Len(items) - k)
      BY <1>2 DEF Between
    <2> QED
      BY <1>1, <2>1 DEF State
  <1>5. lastId' # 0
    <2>1. NextId \in 1 .. MaxId
      BY <1>1, ConstantsAssumption
    <2> QED
      BY <1>1, <2>1, ConstantsAssumption
  <1>6. pos \in Nat
    <2>1. TypeOK
      BY DEF Underway, ImportInv
    <2> QED
      BY <2>1, TypesMean
  <1>7. pos' = Ends(entry, items, k) \/ (pos' = 0 /\ k = 0 /\ Excused')
    <2>1. CASE parsed = dec.payload
      BY <1>1, <1>2, <2>1 DEF Between
    <2>2. CASE parsed # dec.payload
      <3>1. parsed = 0 /\ pos = 0 /\ k = 0 /\ (cut \/ (k < Len(items) /\ Complete(k + 1)))
        BY <1>2, <2>2 DEF Between
      <3>2. ASSUME ~cut PROVE FirstDoesNotFit
        <4>1. Complete(1) /\ k + 1 = 1
          BY <3>1, <3>2
        <4>2. ~Fits(items[1].id, items[1].value) /\ items[1].id \in Writable
          BY <1>1, <1>2, <1>3, <4>1 DEF Decodes
        <4>3. items # <<>>
          BY <1>2
        <4> QED
          BY <4>2, <4>3 DEF FirstDoesNotFit
      <3>3. Excused
        BY <3>2 DEF Excused
      <3>4. Excused' /\ pos' = 0
        BY <1>1, <3>1, <3>3, ExcusedStays
      <3> QED
        BY <3>1, <3>4
    <2> QED
      BY <2>1, <2>2
  <1>8. Resumed(k)'
    BY <1>1, <1>4, <1>5, <1>7 DEF Resumed
  <1> QED
    BY <1>1, <1>8, CallerResumes

LEMMA ProgressiveReturnProgress == ASSUME Underway, ProgressiveReturn PROVE ProgressInv'
  <1>1. /\ pc = "loop" /\ ~At(dec, "uint")
        /\ UNCHANGED <<entry, items, stream, size, saved, parsed, lastId, data, cut>>
        /\ parsed = 0 => Return("error")
        /\ parsed # 0 => \E ret \in {"ok", "more"} : EndOfCall(ret)
    BY DEF ProgressiveReturn
  <1>2. /\ TypeOK /\ pos + size <= Len(stream) /\ Within(dec) /\ parsed <= size
        /\ size \in Nat /\ Len(stream) \in Nat /\ pos \in Nat /\ parsed \in Nat
    BY <1>1, InsideMeans DEF Underway
  <1>3. Heard /\ InLoop
    BY <1>1 DEF Underway, ProgressInv
  <1>4. /\ Len(items) \in Nat /\ IsMap(items)
        /\ \A i \in 0 .. Len(items) : Ends(entry, items, i) \in Nat \ {0}
    BY <1>2, <1>3, ChunkInMap
  <1>5. dec.payload \in Nat /\ dec.elem \in Int
    BY <1>2, WithinStream
  <1>6. CASE parsed = 0
    <2>1. pc' = "end"
      BY <1>1, <1>6 DEF Return
    <2>2. Excused
      <3>1. CASE AtHeader
        BY <3>1 DEF AtHeader
      <3>2. ASSUME NEW k \in 0 .. Len(items), Behind(k) PROVE Excused
        BY <1>6, <3>2 DEF Behind, Excused
      <3>3. ASSUME NEW k \in 0 .. Len(items), Between(k) PROVE Excused
        <4> SUFFICES ASSUME ~cut PROVE FALSE
          BY DEF Excused
        <4>1. k < Len(items) /\ Complete(k + 1) /\ pos + dec.payload = Ends(entry, items, k)
              /\ dec.elem = 2 * (Len(items) - k)
          BY <1>6, <3>3 DEF Between
        <4> DEFINE b == Ends(entry, items, k)
                   e == Ends(entry, items, k + 1)
        <4>2. k + 1 \in 0 .. Len(items) /\ k < k + 1
          BY <1>4, <4>1
        <4>3. b < e
          BY <1>4, <4>2, EndsAscend
        <4>4. e <= pos + size /\ pos + dec.payload = b /\ b \in Nat /\ e \in Nat
          BY <1>4, <4>1, <4>2 DEF Complete
        <4> HIDE DEF b, e
        <4>5. dec.payload < size
          BY <1>2, <1>5, <4>3, <4>4
        <4>6. Cell(dec) = Head1("uint", items[k + 1].id)
          BY <1>2, <1>3, <4>1, <4>5, AtItem
        <4>7. dec.elem > 0
          BY <1>4, <4>1
        <4>8. At(dec, "uint")
          BY <4>5, <4>6, <4>7 DEF At, Cell, Head1
        <4> QED
          BY <1>1, <4>8
      <3> QED
        BY <1>3, <3>1, <3>2, <3>3 DEF InLoop
    <2> QED
      BY <1>1, <2>1, <2>2, EndsExcused
  <1>7. CASE parsed # 0
    <2>1. PICK ret \in {"ok", "more"} : EndOfCall(ret)
      BY <1>1, <1>7
    <2>2. /\ pos' = pos + parsed /\ dec' = [dec EXCEPT !.payload = 0]
          /\ pc' \in {"caller", "end"} /\ status' # "error"
      BY <2>1 DEF EndOfCall, Return
    <2>3. CASE pc' = "end"
      BY <1>1, <2>2, <2>3, EndsExcused
    <2>4. CASE pc' = "caller"
      <3>1. PICK k \in 0 .. Len(items) : Between(k) \/ Behind(k)
        BY <1>3, <1>7 DEF InLoop, AtHeader
      <3>2. pos' = Ends(entry, items, k) /\ dec.elem = 2 * (Len(items) - k)
        <4>1. CASE Between(k)
          BY <1>7, <2>2, <4>1 DEF Between
        <4>2. CASE Behind(k)
          <5>1. parsed = dec.payload - 1 /\ pos + dec.payload = Ends(entry, items, k) + 1
                /\ dec.elem = 2 * (Len(items) - k) /\ Ends(entry, items, k) \in Nat
            BY <1>4, <1>7, <4>2 DEF Behind
          <5> DEFINE b == Ends(entry, items, k)
                     p == dec.payload
          <5>3. parsed = p - 1 /\ pos + p = b + 1 /\ b \in Nat /\ p \in Nat /\ pos \in Nat
            BY <1>2, <1>5, <5>1
          <5> HIDE DEF b, p
          <5>2. pos + parsed = b
            BY <5>3
          <5> QED
            BY <2>2, <5>1, <5>2 DEF b
        <4> QED
          BY <3>1, <4>1, <4>2
      <3>3. lastId = 0 => ~ToldApart(items)
        <4>1. PICK j \in 1 .. Len(items) : lastId = items[j].id
          <5>1. CASE Between(k)
            <6>1. k \in 1 .. Len(items) /\ lastId = items[k].id
              BY <1>4, <1>7, <5>1 DEF Between
            <6> QED
              BY <6>1
          <5>2. CASE Behind(k)
            <6>1. k + 1 \in 1 .. Len(items) /\ lastId = items[k + 1].id
              BY <1>4, <5>2 DEF Behind
            <6> QED
              BY <6>1
          <5> QED
            BY <3>1, <5>1, <5>2
        <4>2. j \in DOMAIN items
          BY <1>4, PartsType
        <4> QED
          BY <4>1, <4>2 DEF ToldApart
      <3>4. dec'.elem = dec.elem
        BY <1>2, <2>2 DEF Within, Decoder
      <3>5. pos' # 0
        BY <1>4, <3>2
      <3>6. Resumed(k)'
        BY <1>1, <3>2, <3>3, <3>4, <3>5 DEF Resumed
      <3> QED
        BY <1>1, <2>2, <2>4, <3>6, CallerResumes
    <2> QED
      BY <2>2, <2>3, <2>4
  <1> QED
    BY <1>6, <1>7

(* What a call holds if it holds the item it begins with. *)
LEMMA HeardEnds ==
    ASSUME TypeOK, Heard, NEW q \in Nat
    PROVE  ItemEnd(stream, q) # NoItem => ItemEnd(stream, q) = ItemEnd(Encode(entry, items), q)
  <1> DEFINE map == Encode(entry, items)
             m == Len(stream)
             e == ItemEnd(stream, q)
  <1>1. stream \in Seq(Cells) /\ m \in Nat /\ map \in Seq(Cells)
    BY TypesMean, MapPlaces DEF TypeOK
  <1>2. e = NoItem \/ e \in q + 1 .. m
    BY <1>1, ItemEndInRange
  <1>3. CASE q <= m
    <2>1. q \in 0 .. Len(stream) /\ 0 + q = q /\ PartOf(stream, map, 0) /\ 0 \in Nat
      BY <1>1, <1>3 DEF Heard
    <2>2. e = IF ItemEnd(map, 0 + q) # NoItem /\ ItemEnd(map, 0 + q) <= 0 + Len(stream)
              THEN ItemEnd(map, 0 + q) - 0 ELSE NoItem
      BY <1>1, <2>1, ItemEndInPart
    <2>3. ItemEnd(map, q) = NoItem \/ ItemEnd(map, q) \in Int
      <3>1. ItemEnd(map, q) = NoItem \/ ItemEnd(map, q) \in q + 1 .. Len(map)
        BY <1>1, ItemEndInRange
      <3>2. Len(map) \in Nat
        BY <1>1
      <3> HIDE DEF map
      <3> QED
        BY <3>1, <3>2
    <2> HIDE DEF e, map
    <2> QED
      BY <2>1, <2>2, <2>3 DEF e, map
  <1>4. CASE q > m
    <2> HIDE DEF e, m
    <2>1. e = NoItem
      BY <1>1, <1>2, <1>4
    <2> QED
      BY <2>1 DEF e
  <1> QED
    BY <1>1, <1>3, <1>4

LEMMA CallHolds ==
    ASSUME TypeOK, Heard, NEW n \in Nat, HoldsAnItem(n), NEW k \in 0 .. Len(items),
           pos + (IF lastId = 0 THEN 1 ELSE 0) = Ends(entry, items, k)
    PROVE  k < Len(items) /\ Ends(entry, items, k + 1) <= pos + n
  <1> DEFINE b == Ends(entry, items, k)
             id == ItemEnd(stream, b)
             value == ItemEnd(stream, id)
  <1>1. id # NoItem /\ value # NoItem /\ value <= pos + n
    BY DEF HoldsAnItem
  <1>2. /\ IsMap(items) /\ Len(items) \in Nat /\ b \in Nat /\ Len(stream) \in Nat
        /\ Ends(entry, items, Len(items)) = Len(Encode(entry, items)) /\ stream \in Seq(Cells)
    <2>1. IsMap(items) /\ Len(stream) \in Nat
      BY TypesMean
    <2> QED
      BY <2>1, PartsType, MapPlaces DEF TypeOK
  <1>3. k < Len(items)
    <2> SUFFICES ASSUME k >= Len(items) PROVE FALSE
      BY <1>2
    <2>1. k = Len(items)
      BY <1>2
    <2>2. Len(stream) <= b
      <3>1. 0 + Len(stream) <= Len(Encode(entry, items))
        BY DEF Heard, PartOf
      <3> QED
        BY <1>2, <2>1, <3>1
    <2>3. id = NoItem \/ id \in b + 1 .. Len(stream)
      BY <1>2, ItemEndInRange
    <2> HIDE DEF id, b
    <2> QED
      BY <1>1, <1>2, <2>2, <2>3
  <1>4. k + 1 \in 1 .. Len(items) /\ (k + 1) - 1 = k
    BY <1>2, <1>3
  <1>5. /\ ItemEnd(Encode(entry, items), b) = b + 1
        /\ ItemEnd(Encode(entry, items), b + 1) = Ends(entry, items, k + 1)
    BY <1>2, <1>4, ItemsEnd
  <1>6. id = b + 1
    BY <1>1, <1>2, <1>5, HeardEnds
  <1>7. value = Ends(entry, items, k + 1)
    <2>1. b + 1 \in Nat
      BY <1>2
    <2> QED
      BY <1>1, <1>5, <1>6, <2>1, HeardEnds
  <1> QED
    BY <1>1, <1>3, <1>7

(* The first cell of a map and of the items in it. *)
LEMMA HeardCell ==
    ASSUME TypeOK, Heard, NEW k \in 0 .. Len(items), pos = Ends(entry, items, k), pos < Len(stream)
    PROVE  stream[pos + 1].k = "uint"
  <1>1. /\ IsMap(items) /\ Len(items) \in Nat /\ Len(stream) \in Nat /\ pos \in Nat
        /\ Ends(entry, items, Len(items)) = Len(Encode(entry, items))
    BY TypesMean, PartsType, MapPlaces
  <1>2. 0 + Len(stream) <= Len(Encode(entry, items))
        /\ \A i \in 1 .. Len(stream) : stream[i] = Encode(entry, items)[0 + i]
    BY DEF Heard, PartOf
  <1>3. k < Len(items)
    <2> SUFFICES ASSUME k >= Len(items) PROVE FALSE
      BY <1>1
    <2>1. k = Len(items)
      BY <1>1
    <2> QED
      BY <1>1, <1>2, <2>1
  <1>4. k + 1 \in 1 .. Len(items) /\ (k + 1) - 1 = k
    BY <1>1, <1>3
  <1>5. pos + 1 \in 1 .. Len(stream) /\ 0 + (pos + 1) = Ends(entry, items, k) + 1
    BY <1>1
  <1>6. stream[pos + 1] = Encode(entry, items)[Ends(entry, items, (k + 1) - 1) + 1]
    BY <1>2, <1>4, <1>5
  <1>7. stream[pos + 1] = Head1("uint", items[k + 1].id)
    BY <1>1, <1>4, <1>6, HeadOf
  <1> QED
    BY <1>7 DEF Head1

LEMMA HeardHead ==
    ASSUME TypeOK, Heard, MapStart(entry) < Len(stream)
    PROVE  stream[MapStart(entry) + 1] = Head1("map", Len(items))
  <1>1. IsMap(items) /\ Len(stream) \in Nat
    BY TypesMean
  <1>2. Encode(entry, items)[MapStart(entry) + 1] = MapHead(items) /\ MapStart(entry) \in {0, 2}
    BY <1>1, MapPlaces
  <1>3. /\ MapStart(entry) + 1 \in 1 .. Len(stream)
        /\ 0 + (MapStart(entry) + 1) = MapStart(entry) + 1
    BY <1>1, <1>2
  <1> QED
    BY <1>2, <1>3 DEF Heard, PartOf, MapHead

LEMMA ProgressiveCallProgress ==
    ASSUME Underway, NEW n \in 1 .. MaxChunk, ProgressiveCall(n) PROVE ProgressInv'
  <1>1. /\ pc = "caller" /\ n \in Sizes /\ size' = n /\ parsed' = 0
        /\ cut' = (cut \/ ~HoldsAnItem(n))
        /\ UNCHANGED <<entry, items, stream, pos, lastId, data>>
    BY DEF ProgressiveCall
  <1>2. TypeOK /\ dec.payload = 0
    BY <1>1 DEF Underway, ImportInv
  <1>3. Heard /\ AtCaller /\ status # "error" /\ entry = "progressively"
    BY <1>1 DEF Underway, ProgressInv
  <1>4. /\ Len(stream) \in Nat /\ pos \in Nat /\ dec \in Decoder /\ IsMap(items)
        /\ n \in Nat \ {0} /\ pos + n <= Len(stream) /\ pos < Len(stream)
    <2>1. Len(stream) \in Nat /\ pos \in Nat /\ dec \in Decoder /\ IsMap(items)
      BY <1>2, TypesMean
    <2>2. n \in Nat \ {0}
      BY ConstantsAssumption
    <2>3. n <= Len(stream) - pos
      BY <1>1 DEF Sizes
    <2> QED
      BY <2>1, <2>2, <2>3
  <1>5. Len(items) \in Nat /\ Ends(entry, items, 0) = 1
        /\ \A i \in 0 .. Len(items) : Ends(entry, items, i) \in Nat \ {0}
    <2>1. MapStart(entry) = 0 /\ Ends(entry, items, 0) = MapStart(entry) + 1
      BY <1>3, <1>4, MapPlaces DEF MapStart
    <2>2. \A i \in 0 .. Len(items) : Ends(entry, items, i) \in Nat \ {0}
      BY <1>4, MapPlaces
    <2> QED
      BY <1>4, <2>1, <2>2, PartsType
  <1>6. Heard' /\ (cut => cut')
    BY <1>1, <1>3 DEF Heard
  <1>7. CASE lastId = 0 /\ stream[pos + 1].k # "map"
    <2>1. pc' = "end"
      BY <1>7 DEF ProgressiveCall, Return
    <2>2. pos # 0
      <3> SUFFICES ASSUME pos = 0 PROVE FALSE
        OBVIOUS
      <3>1. Len(stream) # 0 /\ pos + 1 = 1
        BY <1>4
      <3> QED
        BY <1>2, <1>3, <1>4, <1>7, <3>1, HeardHead DEF Head1, MapStart
    <2>3. ~ToldApart(items)
      BY <1>3, <1>7, <2>2 DEF AtCaller, Resumed
    <2> QED
      BY <1>1, <1>6, <2>1, <2>3, EndsExcused
  <1>8. CASE ~(lastId = 0 /\ stream[pos + 1].k # "map")
    <2>1. /\ dec' = IF lastId = 0 THEN State(1, 2 * stream[pos + 1].n) ELSE dec
          /\ saved' = dec' /\ pc' = "loop" /\ status' = status
      BY <1>8 DEF ProgressiveCall
    <2>2. ASSUME NEW k \in 0 .. Len(items), pos + (IF lastId = 0 THEN 1 ELSE 0) = Ends(entry, items, k)
          PROVE  cut' \/ (k < Len(items) /\ Complete(k + 1)')
      <3>1. CASE HoldsAnItem(n)
        <4>1. k < Len(items) /\ Ends(entry, items, k + 1) <= pos + n
          BY <1>2, <1>3, <1>4, <2>2, <3>1, CallHolds
        <4> QED
          BY <1>1, <4>1 DEF Complete
      <3> QED
        BY <1>1, <3>1
    <2>3. InLoop'
      <3>1. CASE lastId = 0
        <4>1. pos = 0
          <5> SUFFICES ASSUME pos # 0 PROVE FALSE
            OBVIOUS
          <5>1. PICK k \in 0 .. Len(items) : Resumed(k)
            BY <1>3 DEF AtCaller
          <5>2. pos = Ends(entry, items, k)
            BY <5>1 DEF Resumed
          <5>3. stream[pos + 1].k = "uint"
            BY <1>2, <1>3, <1>4, <5>2, HeardCell
          <5> QED
            BY <1>8, <3>1, <5>3
        <4>2. stream[pos + 1].n = Len(items)
          <5>1. Len(stream) # 0 /\ pos + 1 = 1
            BY <1>4, <4>1
          <5> QED
            BY <1>2, <1>3, <1>4, <5>1, HeardHead DEF Head1, MapStart
        <4>3. dec'.payload = 1 /\ dec'.elem = 2 * Len(items)
          BY <2>1, <3>1, <4>2 DEF State
        <4>4. 0 \in 0 .. Len(items) /\ pos + 1 = Ends(entry, items, 0)
              /\ 2 * Len(items) = 2 * (Len(items) - 0)
          BY <1>5, <4>1
        <4>5. cut' \/ (0 < Len(items) /\ Complete(0 + 1)')
          BY <2>2, <3>1, <4>4
        <4>6. Between(0)'
          BY <1>1, <2>1, <3>1, <4>1, <4>3, <4>4, <4>5 DEF Between
        <4>7. 0 \in 0 .. Len(items')
          BY <1>1, <4>4
        <4> QED
          BY <4>6, <4>7 DEF InLoop
      <3>2. CASE lastId # 0
        <4>1. dec' = dec
          BY <2>1, <3>2
        <4>2. PICK k \in 0 .. Len(items) : Resumed(k)
          BY <1>3, <3>2 DEF AtCaller
        <4>3. CASE pos = Ends(entry, items, k)
          <5>1. pos + 0 = Ends(entry, items, k) /\ pos + dec'.payload = Ends(entry, items, k)
            BY <1>2, <1>4, <4>1, <4>3
          <5>2. cut' \/ (k < Len(items) /\ Complete(k + 1)')
            BY <2>2, <3>2, <5>1
          <5>3. dec'.elem = 2 * (Len(items) - k) /\ parsed' = 0 /\ dec'.payload = 0
            BY <1>1, <1>2, <4>1, <4>2 DEF Resumed
          <5>4. Between(k)'
            BY <1>1, <2>1, <5>1, <5>2, <5>3 DEF Between
          <5>5. k \in 0 .. Len(items')
            BY <1>1
          <5> QED
            BY <5>4, <5>5 DEF InLoop
        <4>4. CASE pos # Ends(entry, items, k)
          <5>1. pos = 0 /\ k = 0 /\ Excused /\ dec.elem = 2 * (Len(items) - k)
            BY <4>2, <4>4 DEF Resumed
          <5>2. Excused'
            BY <1>1, <1>6, <5>1, ExcusedStays
          <5>3. dec'.elem = 2 * Len(items')
            BY <1>1, <1>5, <4>1, <5>1
          <5>4. AtHeader'
            BY <1>1, <1>2, <4>1, <5>1, <5>2, <5>3 DEF AtHeader
          <5> QED
            BY <5>4 DEF InLoop
        <4> QED
          BY <4>3, <4>4
      <3> QED
        BY <3>1, <3>2
    <2> QED
      BY <1>3, <1>6, <2>1, <2>3 DEF ProgressInv
  <1> QED
    BY <1>7, <1>8

LEMMA WithoutProgress ==
    ASSUME ProgressInv, UNCHANGED <<entry, items, stream>>,
           entry # "progressively" \/ ~ShortIds
    PROVE  ProgressInv'
  BY DEF ProgressInv, Heard, ShortIds

LEMMA NextKeepsMessage ==
    ASSUME Next PROVE UNCHANGED <<entry, items, stream>>
  BY DEF Next, ImportWhole, ImportItem, ImportFinish, RecordItem, RecordFinish, ProgressiveCall,
         ImportValue, AskForMore, SkipStuck, SkipUnknown, PassWideId, ProgressiveReturn

LEMMA ProgressStep ==
    ASSUME \A is \in Maps : WellSized(is, Writable), ImportInv, ProgressInv, [Next \/ Over]_vars
    PROVE  ProgressInv'
  <1>1. CASE UNCHANGED vars
    BY <1>1 DEF vars, ProgressInv, Heard, ShortIds, AtCaller, Resumed, InLoop, AtHeader, Between,
                Behind, Complete, Excused, FirstDoesNotFit
  <1>2. CASE Next /\ entry = "progressively" /\ ShortIds
    <2>1. WellSized(items, Writable)
      BY DEF ImportInv, TypeOK
    <2>2. Underway
      BY <1>2, <2>1 DEF Underway
    <2>3. pc # "child"
      BY <1>2 DEF ProgressInv
    <2>4. \/ \E n \in 1 .. MaxChunk : ProgressiveCall(n)
          \/ ImportValue \/ AskForMore \/ SkipStuck \/ SkipUnknown \/ PassWideId
          \/ ProgressiveReturn
      BY <1>2, <2>3 DEF Next, ImportWhole, ImportItem, ImportFinish, RecordItem, RecordFinish
    <2> QED
      BY <2>2, <2>4, ProgressiveCallProgress, ImportValueProgress, AskForMoreProgress,
         SkipStuckProgress, SkipUnknownProgress, NoWideId, ProgressiveReturnProgress
  <1>3. CASE Next /\ ~(entry = "progressively" /\ ShortIds)
    BY <1>3, NextKeepsMessage, WithoutProgress
  <1> QED
    BY <1>1, <1>2, <1>3 DEF Over

LEMMA InitProgress == ASSUME Init PROVE ProgressInv
  <1>1. pc = "caller" /\ status = "none" /\ pos = 0 /\ lastId = 0
    BY DEF Init
  <1>2. ASSUME entry = "progressively" PROVE Heard
    <2> DEFINE s == Encode(entry, items)
    <2>1. PICK n \in Lost : n < Len(s) /\ stream = SubSeq(s, 1, Len(s) - n)
      BY DEF Init
    <2>2. s \in Seq(Cells) /\ Len(s) \in Nat /\ s = Encode(entry, items)
      <3>1. IsMap(items)
        BY MapsAreMaps DEF Init
      <3>2. s = Encode(entry, items)
        BY <1>2 DEF Encode
      <3> QED
        BY <3>1, <3>2, EncodeType
    <2>3. n \in Nat
      BY ConstantsAssumption
    <2> DEFINE m == Len(s) - n
    <2>4. m \in Nat /\ 0 + m <= Len(s) /\ 0 + 1 = 1 /\ 0 + m = m /\ 0 \in Nat
      <3> HIDE DEF s
      <3> QED
        BY <2>1, <2>2, <2>3
    <2> HIDE DEF m, s
    <2>5. stream = SubSeq(s, 0 + 1, 0 + m)
      BY <2>1, <2>4 DEF m
    <2>6. Len(stream) = m /\ \A i \in 1 .. m : stream[i] = s[0 + i]
      BY <2>2, <2>4, <2>5, PartIs
    <2> QED
      BY <2>2, <2>4, <2>6 DEF Heard, PartOf
  <1>3. AtCaller
    BY <1>1 DEF AtCaller
  <1> QED
    BY <1>1, <1>2, <1>3 DEF ProgressInv

LEMMA ProgressInvariance ==
    ASSUME \A is \in Maps : WellSized(is, Writable)
    PROVE  Spec => [](ImportInv /\ ProgressInv)
  <1>1. Init => ImportInv /\ ProgressInv
    BY InitTypes, InitProgress
  <1>2. ImportInv /\ ProgressInv /\ [Next \/ Over]_vars => (ImportInv /\ ProgressInv)'
    BY ImportInvStep, ProgressStep
  <1> QED
    BY <1>1, <1>2, PTL DEF Spec

(* Only a progressive import remembers an ID, and it has no "child". *)
LastIdInv == lastId # 0 => entry = "progressively"

LEMMA LastIdInvariance == Spec => []LastIdInv
  <1>1. Init => LastIdInv
    BY DEF Init, LastIdInv
  <1>2. LastIdInv /\ [Next \/ Over]_vars => LastIdInv'
    BY DEF LastIdInv, vars, Over, Next, ImportWhole, ImportItem, ImportFinish, RecordItem,
           RecordFinish, import, ProgressiveCall, Progressing, ImportValue, AskForMore, SkipStuck,
           SkipUnknown, PassWideId, ProgressiveReturn
  <1> QED
    BY <1>1, <1>2, PTL DEF Spec

(***************************************************************************)
(* Between two chunks the decoder and the caller agree on where the import *)
(* has got to, whatever the maps, the objects and the sizes of the chunks  *)
(* are, provided that no string and no list is too long for its object     *)
(* (thingset_bin.c leaves the decoder inside of such a list and behind     *)
(* such a string, where SkipStuck then passes by the ID that follows).     *)
(***************************************************************************)
THEOREM ProgressResumes ==
    ASSUME \A is \in Maps : WellSized(is, Writable)
    PROVE  Spec => []ResumesAtAnItem
  <1>1. ASSUME ImportInv, ProgressInv, LastIdInv PROVE ResumesAtAnItem
    <2> SUFFICES ASSUME pc = "caller", lastId # 0, ShortIds
                 PROVE  /\ pos \in {0, EndOfItem(entry, items, Dealt)}
                        /\ dec.elem = 2 * (Len(items) - Dealt)
      BY DEF ResumesAtAnItem
    <2>1. entry = "progressively" /\ TypeOK /\ dec.payload = 0
      BY <1>1 DEF LastIdInv, ImportInv
    <2>2. AtCaller
      BY <1>1, <2>1 DEF ProgressInv
    <2>3. PICK k \in 0 .. Len(items) : Resumed(k)
      BY <2>2 DEF AtCaller
    <2>4. IsMap(items) /\ pos \in Nat
      BY <2>1, TypesMean
    <2>5. Len(items) \in Nat /\ \A i \in 0 .. Len(items) : Ends(entry, items, i) \in Nat \ {0}
      BY <2>4, PartsType, MapPlaces
    <2>6. MapStart(entry) = 0
      BY <2>1 DEF MapStart
    <2>7. pos + dec.payload = pos
      BY <2>1, <2>4
    <2>8. Dealt = k
      <3>1. k = 0 \/ Ends(entry, items, k) <= pos
        BY <2>3, <2>5 DEF Resumed
      <3>2. ASSUME k < Len(items) PROVE pos < Ends(entry, items, k + 1)
        <4>1. k + 1 \in 0 .. Len(items) /\ k < k + 1
          BY <2>5, <3>2
        <4>2. Ends(entry, items, k) < Ends(entry, items, k + 1)
          BY <2>4, <4>1, EndsAscend
        <4>3. Ends(entry, items, k + 1) \in Nat \ {0}
          BY <2>5, <4>1
        <4> QED
          BY <2>3, <4>2, <4>3 DEF Resumed
      <3>3. \A j \in 0 .. Len(items) : 0 + Ends(entry, items, j) = Ends(entry, items, j)
        BY <2>5
      <3>4. k < Len(items) => k + 1 \in 0 .. Len(items)
        BY <2>5
      <3>5. DealtAt(entry, items, pos) = k
        BY <2>4, <2>6, <3>1, <3>2, <3>3, <3>4, DealtIs
      <3> QED
        BY <2>7, <3>5 DEF Dealt, DealtAt
    <2>9. EndOfItem(entry, items, k) = Ends(entry, items, k)
      <3>1. 0 + Ends(entry, items, k) = Ends(entry, items, k)
        BY <2>5
      <3> QED
        BY <2>4, <2>6, <3>1, EndOfItemIs
    <2>10. pos \in {0, Ends(entry, items, k)} /\ dec.elem = 2 * (Len(items) - k)
      BY <2>3 DEF Resumed
    <2> QED
      BY <2>8, <2>9, <2>10
  <1> QED
    BY <1>1, ProgressInvariance, LastIdInvariance, PTL

(***************************************************************************)
(* A progressive import of such a map, in which *last_id tells an item     *)
(* from the one before it, fails only if some call was given less than the *)
(* item it began with or if the first item does not fit its object.        *)
(***************************************************************************)
THEOREM ProgressFailsIfCut ==
    ASSUME \A is \in Maps : WellSized(is, Writable) /\ ToldApart(is)
    PROVE  Spec => []FailsOnlyIfCut
  <1>1. ASSUME ImportInv, ProgressInv PROVE FailsOnlyIfCut
    <2>1. ToldApart(items)
      BY <1>1 DEF ImportInv, TypeOK
    <2> QED
      BY <1>1, <2>1 DEF ProgressInv, FailsOnlyIfCut, Excused
  <1>2. Spec => [](ImportInv /\ ProgressInv)
    BY ProgressInvariance
  <1> QED
    BY <1>1, <1>2, PTL

----------------------------------------------------------------------------
(***************************************************************************)
(* The items take effect one after the other.  How many have been dealt    *)
(* with is told by the place p the decoder has got to: item k ends at or   *)
(* before it and item k + 1 behind it.                                     *)
(***************************************************************************)
OnPlace(p, k) ==
    /\ p \in Nat /\ k \in 0 .. Len(items)
    /\ k = 0 \/ Ends(entry, items, k) <= p
    /\ k < Len(items) => p < Ends(entry, items, k + 1)

LEMMA DealtHere ==
    ASSUME TypeOK, NEW k, OnPlace(pos + dec.payload, k) PROVE Dealt = k
  <1> DEFINE p == pos + dec.payload
  <1>1. IsMap(items) /\ p \in Nat /\ k \in 0 .. Len(items)
    BY TypesMean DEF OnPlace
  <1>2. (k = 0 \/ Ends(entry, items, k) <= p) /\ (k < Len(items) => p < Ends(entry, items, k + 1))
    BY DEF OnPlace
  <1> HIDE DEF p
  <1>3. DealtAt(entry, items, p) = k
    BY <1>1, <1>2, DealtIs
  <1> QED
    BY <1>3 DEF DealtAt, Dealt, p

LEMMA DealtThen ==
    ASSUME TypeOK, UNCHANGED <<entry, items>>, NEW k, OnPlace(pos' + dec'.payload, k)
    PROVE  Dealt' = k
  <1> DEFINE p == pos' + dec'.payload
  <1>1. IsMap(items) /\ p \in Nat /\ k \in 0 .. Len(items)
    BY TypesMean DEF OnPlace
  <1>2. (k = 0 \/ Ends(entry, items, k) <= p) /\ (k < Len(items) => p < Ends(entry, items, k + 1))
    BY DEF OnPlace
  <1> HIDE DEF p
  <1>3. DealtAt(entry, items, p) = k
    BY <1>1, <1>2, DealtIs
  <1>4. DealtAt(entry', items', pos' + dec'.payload) = k
    BY <1>3 DEF p
  <1> QED
    BY <1>4 DEF DealtAt, Dealt

(* Behind item k, and behind the ID of item k + 1. *)
LEMMA PlacesOf ==
    ASSUME TypeOK, NEW k \in 0 .. Len(items)
    PROVE  /\ OnPlace(Ends(entry, items, k), k)
           /\ k < Len(items) => OnPlace(Ends(entry, items, k) + 1, k)
           /\ k = 0 => OnPlace(0, k)
  <1> DEFINE b == Ends(entry, items, k)
             e == Ends(entry, items, k + 1)
             len == Len(items[k + 1].value)
  <1>1. IsMap(items)
    BY TypesMean
  <1>2. Len(items) \in Nat /\ b \in Nat \ {0}
    BY <1>1, PartsType, MapPlaces
  <1>3. ASSUME k < Len(items) PROVE b + 1 < e
    <2>1. k + 1 \in 1 .. Len(items) /\ (k + 1) - 1 = k
      BY <1>2, <1>3
    <2>2. e = b + 1 + len
      BY <1>1, <2>1, StepOf
    <2>3. len \in Nat \ {0}
      BY <1>1, <2>1, PartsType
    <2> HIDE DEF b, e, len
    <2> QED
      BY <1>2, <2>2, <2>3
  <1>4. k < Len(items) => e \in Nat
    <2>1. k < Len(items) => k + 1 \in 0 .. Len(items)
      BY <1>2
    <2> QED
      BY <1>1, <2>1, MapPlaces
  <1> HIDE DEF b, e
  <1>5. 0 \in Nat /\ b \in Nat /\ b + 1 \in Nat /\ b <= b /\ b <= b + 1
    BY <1>2
  <1>6. k < Len(items) => b < e /\ 0 < e
    BY <1>2, <1>3, <1>4
  <1> QED
    BY <1>3, <1>5, <1>6 DEF OnPlace, b, e

(* The steps of the stream of items. *)
LEMMA Applied ==
    ASSUME pc # "end", pc' # "end", UNCHANGED <<entry, items>>,
           Dealt < Len(items), Dealt' = Dealt + 1,
           data' = Effect(data, items[Dealt + 1], Takers)
    PROVE  Stream!StreamNext
  BY Zenon DEF Stream!StreamNext, Stream!Apply, Outcome, Takers

LEMMA Touched ==
    ASSUME pc # "end", pc' # "end", UNCHANGED <<entry, items>>, Dealt' = Dealt,
           \A o \in Objects : data'[o] # data[o] => Dealt < Len(items) /\ o = items[Dealt + 1].id
    PROVE  Stream!StreamNext
  BY Zenon DEF Stream!StreamNext, Stream!Touch, Stream!OnlyTheNext, Outcome, Takers

LEMMA Failed ==
    ASSUME pc # "end", pc' = "end", status' = "error", UNCHANGED <<entry, items>>, Dealt' = Dealt,
           \A o \in Objects : data'[o] # data[o] => Dealt < Len(items) /\ o = items[Dealt + 1].id
    PROVE  Stream!StreamNext
  BY Zenon DEF Stream!StreamNext, Stream!Fail, Stream!OnlyTheNext, Outcome, Takers

LEMMA Succeeded ==
    ASSUME pc # "end", pc' = "end", status' = "ok", UNCHANGED <<entry, items, data>>,
           Dealt' = Dealt, Dealt = Len(items)
    PROVE  Stream!StreamNext
  BY Zenon DEF Stream!StreamNext, Stream!Succeed, Outcome, Takers

LEMMA Unmoved ==
    ASSUME pc # "end", pc' # "end", UNCHANGED <<entry, items, data>>, Dealt' = Dealt
    PROVE  UNCHANGED Stream!streamVars
  BY Zenon DEF Stream!streamVars, Outcome, Takers

LEMMA AppliesNext ==
    ASSUME TypeOK, NEW k \in 0 .. Len(items), k < Len(items),
           pos + dec.payload = Ends(entry, items, k),
           UNCHANGED <<entry, items, pos>>,
           dec'.payload = Ends(entry, items, k + 1) - pos,
           pc # "end", pc' # "end", data' = Effect(data, items[k + 1], Takers)
    PROVE  Stream!StreamNext
  <1>1. Len(items) \in Nat /\ IsMap(items) /\ pos \in Nat
    BY TypesMean, PartsType
  <1>2. k + 1 \in 0 .. Len(items)
    BY <1>1
  <1>3. Ends(entry, items, k + 1) \in Nat
    BY <1>1, <1>2, MapPlaces
  <1>4. pos' + dec'.payload = Ends(entry, items, k + 1)
    <2> DEFINE e == Ends(entry, items, k + 1)
    <2> HIDE DEF e
    <2>1. pos + (e - pos) = e
      BY <1>1, <1>3 DEF e
    <2> QED
      BY <2>1 DEF e
  <1>5. Dealt = k
    BY PlacesOf, DealtHere
  <1>6. Dealt' = k + 1
    BY <1>2, <1>4, PlacesOf, DealtThen
  <1> QED
    BY <1>5, <1>6, Applied

(* What a step leaves in the objects. *)
LEMMA TakesEffect ==
    ASSUME TypeOK, NEW d, NEW j, NEW result, NEW o \in Objects, Decodes(o, d, j, result),
           Complete(j), o = items[j].id, o \in Takers,
           data' = [data EXCEPT ![o] = result.value]
    PROVE  data' = Effect(data, items[j], Takers)
  <1>1. CASE result.ok
    <2>1. Fits(o, items[j].value) /\ result.value = Meaning(items[j].value)
      BY <1>1 DEF Decodes
    <2> QED
      BY <2>1 DEF Effect
  <1>2. CASE ~result.ok
    <2>1. ~Fits(o, items[j].value) /\ result.value = data[o]
      BY <1>2 DEF Decodes
    <2>2. data' = data
      BY <2>1 DEF TypeOK
    <2> QED
      BY <2>1, <2>2 DEF Effect
  <1> QED
    BY <1>1, <1>2

LEMMA PassedBy ==
    ASSUME NEW j, items[j].id \notin Takers, data' = data
    PROVE  data' = Effect(data, items[j], Takers)
  BY DEF Effect

LEMMA OnlyOne ==
    ASSUME TypeOK, NEW o, NEW x, data' = [data EXCEPT ![o] = x]
    PROVE  \A p \in Objects : data'[p] # data[p] => p = o
  BY DEF TypeOK

----------------------------------------------------------------------------
(***************************************************************************)
(* The steps of the progressive import.                                    *)
(***************************************************************************)
LEMMA ImportValueStreams == ASSUME Underway, ImportValue PROVE Stream!StreamNext
  <1>1. /\ Progressing /\ NextId \in Writable /\ Value.ok /\ Store(NextId, Value)
        /\ dec' = Value.dec /\ UNCHANGED <<entry, items, pos, pc>>
    BY DEF ImportValue
  <1>2. PICK k \in 0 .. Len(items) :
              /\ Between(k) /\ k < Len(items) /\ k + 1 \in 1 .. Len(items)
              /\ NextId = items[k + 1].id
              /\ Place(Uint(dec), k + 1)
    BY <1>1, IdIsBetween
  <1>3. Decodes(NextId, Uint(dec), k + 1, Value)
    BY <1>1, <1>2, KnownDecodes
  <1>4. Complete(k + 1) /\ dec'.payload = Ends(entry, items, k + 1) - pos
    BY <1>1, <1>3 DEF Decodes, State
  <1>5. TypeOK /\ pc # "end" /\ NextId \in Objects /\ NextId \in Takers
    BY <1>1, ConstantsAssumption DEF Underway, ImportInv, Progressing, Takers
  <1>6. data' = Effect(data, items[k + 1], Takers)
    BY <1>1, <1>2, <1>3, <1>4, <1>5, TakesEffect DEF Store
  <1>7. pos + dec.payload = Ends(entry, items, k)
    BY <1>2 DEF Between
  <1> QED
    BY <1>1, <1>2, <1>4, <1>5, <1>6, <1>7, AppliesNext

LEMMA AskForMoreStreams == ASSUME Underway, AskForMore PROVE Stream!StreamNext
  <1>1. /\ Progressing /\ NextId \in Writable /\ ~Value.ok /\ Store(NextId, Value)
        /\ pos' = pos + parsed /\ dec' = State(0, saved.elem)
        /\ pc' = "caller" /\ UNCHANGED <<entry, items>>
    BY DEF AskForMore, Return
  <1>2. PICK k \in 0 .. Len(items) :
              Between(k) /\ k < Len(items) /\ NextId = items[k + 1].id
    BY <1>1, IdIsBetween
  <1>3. TypeOK /\ pc # "end"
    BY <1>1 DEF Underway, ImportInv, Progressing
  <1>4. pos \in Nat /\ parsed \in Nat
    BY <1>3, TypesMean
  <1>5. /\ pos + dec.payload = Ends(entry, items, k)
        /\ parsed # dec.payload => parsed = 0 /\ pos = 0 /\ k = 0
    BY <1>2 DEF Between
  <1>6. dec'.payload = 0 /\ pos' + 0 = pos'
    BY <1>1, <1>4 DEF State
  <1>7. pos' + dec'.payload \in {0, Ends(entry, items, k)}
        /\ (pos' + dec'.payload = 0 => k = 0 \/ Ends(entry, items, k) = 0)
    BY <1>1, <1>5, <1>6
  <1>8. Dealt = k
    BY <1>3, <1>5, PlacesOf, DealtHere
  <1>9. Dealt' = k
    <2>1. OnPlace(pos' + dec'.payload, k)
      BY <1>3, <1>7, PlacesOf
    <2> QED
      BY <1>1, <1>3, <2>1, DealtThen
  <1>10. \A o \in Objects : data'[o] # data[o] => o = NextId
    BY <1>1, <1>3, OnlyOne DEF Store
  <1> QED
    BY <1>1, <1>2, <1>3, <1>8, <1>9, <1>10, Touched

LEMMA SkipStuckStreams == ASSUME Underway, SkipStuck PROVE Stream!StreamNext
  <1>1. /\ Progressing /\ NextId \in Writable /\ ~Value.ok /\ Store(NextId, Value)
        /\ UNCHANGED <<entry, items, pos>>
    BY DEF SkipStuck
  <1>2. PICK k \in 0 .. Len(items) :
              /\ Between(k) /\ k < Len(items) /\ k + 1 \in 1 .. Len(items)
              /\ NextId = items[k + 1].id
              /\ Place(Uint(dec), k + 1)
    BY <1>1, IdIsBetween
  <1>3. Decodes(NextId, Uint(dec), k + 1, Value)
    BY <1>1, <1>2, KnownDecodes
  <1>4. TypeOK /\ pc # "end" /\ NextId \in Objects /\ NextId \in Takers
    BY <1>1, ConstantsAssumption DEF Underway, ImportInv, Progressing, Takers
  <1>5. pos + dec.payload = Ends(entry, items, k)
    BY <1>2 DEF Between
  <1>6. CASE CanSkip(Value.dec)
    <2>1. dec' = Skip(Value.dec) /\ UNCHANGED pc
      BY <1>6 DEF SkipStuck
    <2>2. Value.dec = Uint(dec)
      BY <1>1, <1>3, <1>6 DEF Decodes
    <2>3. Complete(k + 1) /\ Skip(Uint(dec)) = State(Ends(entry, items, k + 1) - pos, Uint(dec).elem - 1)
      BY <1>2, <1>6, <2>2, SkipsItem
    <2>4. dec'.payload = Ends(entry, items, k + 1) - pos
      BY <2>1, <2>2, <2>3 DEF State
    <2>5. data' = Effect(data, items[k + 1], Takers)
      BY <1>1, <1>2, <1>3, <1>4, <2>3, TakesEffect DEF Store
    <2> QED
      BY <1>1, <1>2, <1>4, <1>5, <2>1, <2>4, <2>5, AppliesNext
  <1>7. CASE ~CanSkip(Value.dec)
    <2>1. pc' = "end" /\ status' = "error" /\ UNCHANGED dec
      BY <1>7 DEF SkipStuck, Return
    <2>2. Dealt = k /\ Dealt' = k
      BY <1>1, <1>4, <1>5, <2>1, PlacesOf, DealtHere, DealtThen
    <2>3. \A o \in Objects : data'[o] # data[o] => o = NextId
      BY <1>1, <1>4, OnlyOne DEF Store
    <2> QED
      BY <1>1, <1>2, <1>4, <2>1, <2>2, <2>3, Failed
  <1> QED
    BY <1>6, <1>7

LEMMA SkipUnknownStreams ==
    ASSUME Underway, SkipUnknown PROVE Stream!StreamNext \/ UNCHANGED Stream!streamVars
  <1>1. /\ Progressing /\ NextId \notin Writable
        /\ UNCHANGED <<entry, items, pos, data, pc>>
    BY DEF SkipUnknown
  <1>2. PICK k \in 0 .. Len(items) :
              /\ Between(k) /\ k < Len(items) /\ k + 1 \in 1 .. Len(items)
              /\ NextId = items[k + 1].id
              /\ Place(Uint(dec), k + 1)
    BY <1>1, IdIsBetween
  <1>3. TypeOK /\ pc # "end" /\ NextId \notin Takers
    BY <1>1 DEF Underway, ImportInv, Progressing, Takers
  <1>4. pos + dec.payload = Ends(entry, items, k)
    BY <1>2 DEF Between
  <1>5. CASE CanSkip(Uint(dec))
    <2>1. dec' = Skip(Uint(dec))
      BY <1>5 DEF SkipUnknown
    <2>2. Skip(Uint(dec)) = State(Ends(entry, items, k + 1) - pos, Uint(dec).elem - 1)
      BY <1>2, <1>5, SkipsItem
    <2>3. dec'.payload = Ends(entry, items, k + 1) - pos
      BY <2>1, <2>2 DEF State
    <2>4. data' = Effect(data, items[k + 1], Takers)
      BY <1>1, <1>2, <1>3, PassedBy
    <2> QED
      BY <1>1, <1>2, <1>3, <1>4, <2>3, <2>4, AppliesNext
  <1>6. CASE ~CanSkip(Uint(dec))
    <2>1. dec'.payload = dec.payload + 1
      BY <1>6 DEF SkipUnknown, State
    <2>2. pos \in Nat /\ dec.payload \in Nat
      BY <1>3, TypesMean DEF Decoder
    <2>3. pos' + dec'.payload = Ends(entry, items, k) + 1
      <3>1. pos + (dec.payload + 1) = (pos + dec.payload) + 1
        BY <2>2
      <3> QED
        BY <1>1, <1>4, <2>1, <3>1
    <2>4. Dealt = k
      BY <1>3, <1>4, PlacesOf, DealtHere
    <2>5. Dealt' = k
      <3>1. OnPlace(pos' + dec'.payload, k)
        BY <1>2, <1>3, <2>3, PlacesOf
      <3> QED
        BY <1>1, <1>3, <3>1, DealtThen
    <2> QED
      BY <1>1, <1>3, <2>4, <2>5, Unmoved
  <1> QED
    BY <1>5, <1>6

LEMMA ProgressiveCallStreams ==
    ASSUME Underway, NEW n \in 1 .. MaxChunk, ProgressiveCall(n)
    PROVE  Stream!StreamNext \/ UNCHANGED Stream!streamVars
  <1>1. /\ pc = "caller" /\ UNCHANGED <<entry, items, stream, pos, data>> /\ n \in Sizes
    BY DEF ProgressiveCall
  <1>2. TypeOK /\ dec.payload = 0
    BY <1>1 DEF Underway, ImportInv
  <1>3. Heard /\ AtCaller /\ entry = "progressively"
    BY <1>1 DEF Underway, ProgressInv
  <1>4. /\ pos \in Nat /\ Len(stream) \in Nat /\ pos < Len(stream) /\ IsMap(items)
        /\ Len(items) \in Nat
    <2>1. pos \in Nat /\ Len(stream) \in Nat /\ IsMap(items)
      BY <1>2, TypesMean
    <2>2. n \in Nat \ {0} /\ n <= Len(stream) - pos
      BY <1>1, ConstantsAssumption DEF Sizes
    <2> QED
      BY <2>1, <2>2, PartsType
  <1>5. CASE lastId = 0 /\ stream[pos + 1].k # "map"
    <2>1. pc' = "end" /\ status' = "error" /\ dec' = dec
      BY <1>5 DEF ProgressiveCall, Return
    <2>2. Dealt' = Dealt
      BY <1>1, <2>1 DEF Dealt
    <2> QED
      BY <1>1, <2>1, <2>2, Failed
  <1>6. CASE ~(lastId = 0 /\ stream[pos + 1].k # "map")
    <2>1. dec' = (IF lastId = 0 THEN State(1, 2 * stream[pos + 1].n) ELSE dec) /\ pc' = "loop"
      BY <1>6 DEF ProgressiveCall
    <2>2. CASE lastId = 0
      <3>1. pos = 0
        <4> SUFFICES ASSUME pos # 0 PROVE FALSE
          OBVIOUS
        <4>1. PICK k \in 0 .. Len(items) : Resumed(k)
          BY <1>3 DEF AtCaller
        <4>2. pos = Ends(entry, items, k)
          BY <4>1 DEF Resumed
        <4>3. stream[pos + 1].k = "uint"
          BY <1>2, <1>3, <1>4, <4>2, HeardCell
        <4> QED
          BY <1>6, <2>2, <4>3
      <3>2. Ends(entry, items, 0) = 1
        BY <1>3, <1>4, MapPlaces DEF MapStart
      <3>3. dec'.payload = 1 /\ 0 + 1 = 1 /\ 0 + 0 = 0 /\ 0 \in 0 .. Len(items)
        BY <1>4, <2>1, <2>2 DEF State
      <3>4. OnPlace(pos + dec.payload, 0) /\ OnPlace(pos' + dec'.payload, 0)
        BY <1>1, <1>2, <3>1, <3>2, <3>3, PlacesOf
      <3>5. Dealt = 0 /\ Dealt' = 0
        BY <1>1, <1>2, <3>4, DealtHere, DealtThen
      <3> QED
        BY <1>1, <2>1, <3>5, Unmoved
    <2>3. CASE lastId # 0
      <3>1. dec' = dec
        BY <2>1, <2>3
      <3>2. Dealt' = Dealt
        BY <1>1, <3>1 DEF Dealt
      <3> QED
        BY <1>1, <2>1, <3>2, Unmoved
    <2> QED
      BY <2>2, <2>3
  <1> QED
    BY <1>5, <1>6

(* All that was sent has arrived. *)
Arrived == Heard /\ Len(stream) = Ends(entry, items, Len(items))

LEMMA ProgressiveReturnStreams ==
    ASSUME Underway, Arrived, CallerCountsCells, ProgressiveReturn
    PROVE  Stream!StreamNext \/ UNCHANGED Stream!streamVars
  <1>1. pc = "loop" /\ UNCHANGED <<entry, items, stream, data>>
    BY DEF ProgressiveReturn
  <1>2. TypeOK /\ InLoop
    BY <1>1 DEF Underway, ImportInv, ProgressInv
  <1>3. /\ pos \in Nat /\ parsed \in Nat /\ dec.payload \in Nat /\ IsMap(items)
        /\ Len(items) \in Nat /\ Len(stream) \in Nat
    BY <1>2, TypesMean, PartsType DEF Decoder
  <1>4. CASE parsed = 0
    <2>1. pc' = "end" /\ status' = "error" /\ UNCHANGED <<pos, dec>>
      BY <1>4 DEF ProgressiveReturn, Return
    <2>2. Dealt' = Dealt
      BY <1>1, <2>1 DEF Dealt
    <2> QED
      BY <1>1, <2>1, <2>2, Failed
  <1>5. CASE parsed # 0
    <2>1. PICK ret \in {"ok", "more"} : EndOfCall(ret)
      BY <1>5 DEF ProgressiveReturn
    <2>2. pos' = pos + parsed /\ dec' = [dec EXCEPT !.payload = 0]
      BY <2>1 DEF EndOfCall
    <2>3. dec'.payload = 0
      <3>1. dec \in Decoder
        BY <1>2, TypesMean
      <3> QED
        BY <2>2, <3>1 DEF Decoder
    <2>4. PICK k \in 0 .. Len(items) : Between(k) \/ Behind(k)
      BY <1>2, <1>5 DEF InLoop, AtHeader
    <2>5. pos + parsed = Ends(entry, items, k) /\ OnPlace(pos + dec.payload, k)
      <3>1. CASE Between(k)
        <4>1. parsed = dec.payload /\ pos + dec.payload = Ends(entry, items, k)
          BY <1>5, <3>1 DEF Between
        <4> QED
          BY <1>2, <4>1, PlacesOf
      <3>2. CASE Behind(k)
        <4> DEFINE b == Ends(entry, items, k)
                   p == dec.payload
        <4>1. /\ parsed = p - 1 /\ pos + p = b + 1 /\ k < Len(items)
              /\ b \in Nat /\ p \in Nat /\ pos \in Nat
          BY <1>3, <1>5, <3>2, MapPlaces DEF Behind
        <4>2. OnPlace(pos + p, k)
          BY <1>2, <4>1, PlacesOf
        <4> HIDE DEF b, p
        <4>3. pos + parsed = b
          BY <4>1
        <4> QED
          BY <4>2, <4>3 DEF b, p
      <3> QED
        BY <2>4, <3>1, <3>2
    <2>6. pos' + dec'.payload = Ends(entry, items, k)
      <3>1. pos' + 0 = pos'
        BY <1>3, <2>2
      <3> QED
        BY <2>2, <2>3, <2>5, <3>1
    <2>7. Dealt = k /\ Dealt' = k
      BY <1>1, <1>2, <2>5, <2>6, PlacesOf, DealtHere, DealtThen
    <2>8. CASE pc' = "caller"
      BY <1>1, <2>7, <2>8, Unmoved
    <2>9. CASE pc' # "caller"
      <3>1. ret = "ok" /\ ~(pos' < Len(stream)) /\ pc' = "end" /\ status' = "ok"
        BY <1>1, <2>1, <2>9 DEF EndOfCall, Return
      <3>2. k = Len(items)
        <4> SUFFICES ASSUME k # Len(items) PROVE FALSE
          OBVIOUS
        <4>1. k \in 0 .. Len(items) /\ Len(items) \in 0 .. Len(items) /\ k < Len(items)
          BY <1>3
        <4>2. Ends(entry, items, k) < Ends(entry, items, Len(items))
          BY <1>3, <4>1, EndsAscend
        <4> QED
          BY <2>2, <2>5, <3>1, <4>2 DEF Arrived
      <3> QED
        BY <1>1, <2>7, <3>1, <3>2, Succeeded
    <2> QED
      BY <2>8, <2>9
  <1> QED
    BY <1>4, <1>5

----------------------------------------------------------------------------
(***************************************************************************)
(* The steps of the functions that are given the whole map.  In their      *)
(* loops the decoder is always between two items.                          *)
(***************************************************************************)
BehindItem(k) == dec.payload = Ends(entry, items, k) /\ dec.elem = 2 * (Len(items) - k)

WholeInv ==
    entry # "progressively" =>
        /\ pc = "loop" => entry # "record"
        /\ pc = "child" => entry = "record"
        /\ pc \in {"loop", "child"} =>
              size = Len(stream) /\ \E k \in 0 .. Len(items) : BehindItem(k)

Reading ==
    /\ ImportInv /\ Arrived /\ WholeInv /\ WellSized(items, Takers)
    /\ entry # "progressively" /\ pc \in {"loop", "child"}

(* Item k + 1 is there as a whole. *)
ItemNext(k) ==
    /\ k < Len(items) /\ k + 1 \in 1 .. Len(items)
    /\ At(dec, "uint") /\ Cell(dec).n = items[k + 1].id
    /\ Uint(dec).elem = 2 * (Len(items) - k) - 1
    /\ Place(Uint(dec), k + 1) /\ Complete(k + 1)

LEMMA WholePlace ==
    ASSUME Reading
    PROVE  \E k \in 0 .. Len(items) :
              /\ BehindItem(k) /\ pos = 0 /\ pos + dec.payload = Ends(entry, items, k)
              /\ k = Len(items) => dec.payload = size /\ dec.elem = 0
              /\ k # Len(items) => dec.payload # size /\ dec.elem # 0 /\ ItemNext(k)
  <1>1. PICK k \in 0 .. Len(items) : BehindItem(k)
    BY DEF Reading, WholeInv
  <1>2. /\ TypeOK /\ pos + size <= Len(stream) /\ Within(dec) /\ Heard
        /\ pos = 0 /\ size = Len(stream) /\ Len(stream) = Ends(entry, items, Len(items))
    BY InsideMeans DEF Reading, Arrived, WholeInv, ImportInv
  <1>3. /\ size \in Nat /\ Len(items) \in Nat /\ IsMap(items) /\ k \in Nat
        /\ \A i \in 0 .. Len(items) : Ends(entry, items, i) \in Nat \ {0}
    BY <1>2, ChunkInMap
  <1>4. dec.payload \in Nat /\ dec.elem \in Int
    BY <1>2, WithinStream
  <1>5. dec.payload = Ends(entry, items, k) /\ dec.elem = 2 * (Len(items) - k)
    BY <1>1 DEF BehindItem
  <1>6. pos + dec.payload = Ends(entry, items, k)
    BY <1>2, <1>4, <1>5
  <1>7. ASSUME k = Len(items) PROVE dec.payload = size /\ dec.elem = 0
    BY <1>2, <1>3, <1>5, <1>7
  <1>8. ASSUME k # Len(items) PROVE dec.payload # size /\ dec.elem # 0 /\ ItemNext(k)
    <2>1. /\ k < Len(items) /\ k + 1 \in 1 .. Len(items) /\ (k + 1) - 1 = k
          /\ k + 1 \in 0 .. Len(items) /\ Len(items) \in 0 .. Len(items) /\ k \in 0 .. Len(items)
      BY <1>3, <1>8
    <2>2. Ends(entry, items, k) < Ends(entry, items, Len(items))
      BY <1>3, <2>1, EndsAscend
    <2>3. dec.payload < size
      BY <1>2, <1>5, <2>2
    <2>4. dec.elem > 0
      BY <1>3, <1>5, <2>1
    <2>5. Cell(dec) = Head1("uint", items[k + 1].id)
      BY <1>2, <1>6, <2>3, AtItem
    <2>6. At(dec, "uint") /\ Cell(dec).n = items[k + 1].id
      BY <2>3, <2>4, <2>5 DEF At, Cell, Head1
    <2>7. Within(Uint(dec)) /\ Uint(dec).payload = dec.payload + 1 /\ Uint(dec).elem = dec.elem - 1
      BY <1>2, <2>6, AtMeans
    <2>8. Uint(dec).elem = 2 * (Len(items) - k) - 1 /\ Uint(dec).elem > 0
      BY <1>3, <1>5, <2>1, <2>7
    <2>9. BeforeValue(Uint(dec), k + 1)
      <3>1. pos + (dec.payload + 1) = Ends(entry, items, k) + 1
        BY <1>2, <1>4, <1>5
      <3> QED
        BY <2>1, <2>7, <3>1 DEF BeforeValue
    <2>10. Place(Uint(dec), k + 1)
      BY <1>2, <2>1, <2>7, <2>8, <2>9 DEF Place
    <2>11. Complete(k + 1)
      <3> DEFINE e == Ends(entry, items, k + 1)
                 last == Ends(entry, items, Len(items))
      <3>1. e \in Nat /\ last \in Nat
        BY <1>3, <2>1
      <3>2. e <= last
        <4>1. CASE k + 1 = Len(items)
          BY <3>1, <4>1
        <4>2. CASE k + 1 # Len(items)
          <5>1. k + 1 < Len(items)
            BY <1>3, <2>1, <4>2
          <5>2. e < last
            BY <1>3, <2>1, <5>1, EndsAscend
          <5> HIDE DEF e, last
          <5> QED
            BY <3>1, <5>2
        <4> QED
          BY <4>1, <4>2
      <3>3. pos + size = last
        BY <1>2, <1>3
      <3> QED
        BY <3>2, <3>3 DEF Complete
    <2>12. dec.payload # size /\ dec.elem # 0
      BY <1>3, <1>4, <2>3, <2>4
    <2> QED
      BY <2>1, <2>6, <2>8, <2>10, <2>11, <2>12, Zenon DEF ItemNext
  <1> QED
    BY <1>1, <1>2, <1>6, <1>7, <1>8

(* An item is behind the decoder. *)
LEMMA WholeGoesOn ==
    ASSUME Reading, NEW k \in 0 .. Len(items), BehindItem(k), ItemNext(k),
           pos + dec.payload = Ends(entry, items, k),
           UNCHANGED <<entry, items, stream, pos, size, pc>>,
           dec' = State(Ends(entry, items, k + 1) - pos, 2 * (Len(items) - k) - 1 - 1),
           data' = Effect(data, items[k + 1], Takers)
    PROVE  WholeInv' /\ Stream!StreamNext
  <1>1. TypeOK /\ pos = 0 /\ pc # "end" /\ IsMap(items) /\ Len(items) \in Nat
    BY TypesMean, PartsType DEF Reading, ImportInv
  <1>2. dec'.payload = Ends(entry, items, k + 1) - pos
        /\ dec'.elem = 2 * (Len(items) - k) - 1 - 1
    BY DEF State
  <1>3. Stream!StreamNext
    BY <1>1, <1>2, AppliesNext DEF ItemNext
  <1>4. k + 1 \in 0 .. Len(items') /\ Ends(entry, items, k + 1) \in Nat
    <2>1. k + 1 \in 0 .. Len(items)
      BY <1>1 DEF ItemNext
    <2> QED
      BY <1>1, <2>1, MapPlaces
  <1>5. BehindItem(k + 1)'
    <2>1. dec'.payload = Ends(entry', items', k + 1)
      <3> DEFINE e == Ends(entry, items, k + 1)
      <3> HIDE DEF e
      <3>1. e - pos = e
        BY <1>1, <1>4 DEF e
      <3> QED
        BY <1>2, <3>1 DEF e
    <2>2. dec'.elem = 2 * (Len(items') - (k + 1))
      BY <1>1, <1>2
    <2> QED
      BY <2>1, <2>2 DEF BehindItem
  <1>6. WholeInv'
    <2>1. (pc = "loop" => entry # "record") /\ (pc = "child" => entry = "record")
          /\ size = Len(stream)
      BY DEF WholeInv, Reading
    <2>2. size' = Len(stream') /\ \E i \in 0 .. Len(items') : BehindItem(i)'
      BY <1>4, <1>5, <2>1
    <2> QED
      BY <2>1, <2>2 DEF WholeInv
  <1> QED
    BY <1>3, <1>6

LEMMA ImportWholeStreams ==
    ASSUME ImportInv, Arrived, ImportWhole
    PROVE  WholeInv' /\ UNCHANGED Stream!streamVars
  <1>1. /\ entry # "progressively" /\ pc = "caller" /\ size' = Len(stream)
        /\ UNCHANGED <<entry, items, stream, pos, data>>
    BY DEF ImportWhole
  <1>2. TypeOK /\ Heard /\ pos = 0 /\ dec.payload = 0
        /\ Len(stream) = Ends(entry, items, Len(items))
    BY <1>1 DEF ImportInv, Arrived
  <1> DEFINE start == MapStart(entry)
             n == Len(items)
  <1>3. IsMap(items) /\ n \in Nat /\ Len(stream) \in Nat
    BY <1>2, TypesMean, PartsType
  <1>4. start \in {0, 2} /\ Ends(entry, items, 0) = start + 1 /\ Ends(entry, items, n) \in Nat
    BY <1>3, MapPlaces
  <1>5. start < Len(stream)
    <2>1. 0 \in 0 .. n /\ n \in 0 .. n
      BY <1>3
    <2>2. n = 0 \/ Ends(entry, items, 0) < Ends(entry, items, n)
      <3>1. n = 0 \/ 0 < n
        BY <1>3
      <3> QED
        BY <1>3, <2>1, <3>1, EndsAscend
    <2> HIDE DEF start, n
    <2> QED
      BY <1>2, <1>4, <2>2 DEF n
  <1>6. stream[start + 1] = Head1("map", n)
    BY <1>2, <1>5, HeardHead
  <1>7. ASSUME NEW j \in 1 .. start PROVE stream[j] = Encode(entry, items)[j]
    <2>1. j \in 1 .. Len(stream) /\ 0 + j = j
      <3> HIDE DEF start
      <3> QED
        BY <1>3, <1>4, <1>5
    <2> QED
      BY <1>2, <2>1 DEF Heard, PartOf
  <1>8. /\ dec' = State(start + 1, 2 * n)
        /\ pc' = IF entry = "record" THEN "child" ELSE "loop"
    <2>1. stream[start + 1].k = "map" /\ stream[start + 1].n = n
      BY <1>6 DEF Head1
    <2> QED
      BY <1>5, <1>7, <2>1 DEF ImportWhole
  <1>9. dec'.payload = Ends(entry, items, 0) /\ dec'.elem = 2 * (n - 0)
    BY <1>3, <1>4, <1>8 DEF State
  <1>10. 0 \in 0 .. n
    BY <1>3
  <1>11. WholeInv'
    <2>1. BehindItem(0)'
      BY <1>1, <1>9 DEF BehindItem
    <2>2. 0 \in 0 .. Len(items')
      BY <1>1, <1>10
    <2> QED
      BY <1>1, <1>8, <2>1, <2>2 DEF WholeInv
  <1>12. Dealt = 0 /\ Dealt' = 0
    <2>1. pos + dec.payload = 0 /\ pos' + dec'.payload = Ends(entry, items, 0)
      BY <1>1, <1>2, <1>4, <1>9
    <2>2. OnPlace(pos + dec.payload, 0) /\ OnPlace(pos' + dec'.payload, 0)
      BY <1>2, <1>10, <2>1, PlacesOf
    <2> QED
      BY <1>1, <1>2, <2>2, DealtHere, DealtThen
  <1>13. pc # "end" /\ pc' # "end"
    BY <1>1, <1>8
  <1> QED
    BY <1>1, <1>11, <1>12, <1>13, Unmoved

(* Where the decoder gets when it skips the value or decodes it. *)
LEMMA WholeSkips ==
    ASSUME Reading, NEW k \in 0 .. Len(items), ItemNext(k)
    PROVE  /\ CanSkip(Uint(dec))
           /\ Skip(Uint(dec)) = State(Ends(entry, items, k + 1) - pos, 2 * (Len(items) - k) - 1 - 1)
  BY SkipsItem DEF ItemNext

LEMMA WholeDecodes ==
    ASSUME Reading, NEW k \in 0 .. Len(items), ItemNext(k), items[k + 1].id \in Takers
    PROVE  LET result == DeserializeValue(items[k + 1].id, Uint(dec))
           IN  /\ Decodes(items[k + 1].id, Uint(dec), k + 1, result)
               /\ ~result.ok => result.dec = Uint(dec) /\ result.value = data[items[k + 1].id]
               /\ result.ok => result.dec = State(Ends(entry, items, k + 1) - pos,
                                                  2 * (Len(items) - k) - 1 - 1)
  <1> DEFINE o == items[k + 1].id
             result == DeserializeValue(o, Uint(dec))
  <1>1. Place(Uint(dec), k + 1) /\ Complete(k + 1) /\ Uint(dec).elem = 2 * (Len(items) - k) - 1
    BY DEF ItemNext
  <1>2. WellSized(items, Takers) /\ Takers \in SUBSET Objects
    BY ConstantsAssumption DEF Reading, Takers
  <1>3. Decodes(o, Uint(dec), k + 1, result)
    BY <1>1, <1>2, ValueDecodes
  <1> HIDE DEF o, result
  <1>4. ~result.ok => result.dec = Uint(dec) /\ result.value = data[o]
    BY <1>1, <1>3 DEF Decodes
  <1>5. result.ok => result.dec = State(Ends(entry, items, k + 1) - pos, 2 * (Len(items) - k) - 1 - 1)
    BY <1>1, <1>3 DEF Decodes
  <1> QED
    BY <1>3, <1>4, <1>5 DEF o, result

LEMMA ImportItemStreams ==
    ASSUME Reading, ImportItem PROVE WholeInv' /\ Stream!StreamNext
  <1> DEFINE id == Cell(dec).n
             result == DeserializeValue(id, Uint(dec))
             failed == IF id \in Writable THEN result.dec ELSE Uint(dec)
  <1>1. /\ entry \in {"data", "report"} /\ pc = "loop" /\ At(dec, "uint")
        /\ IF id \in Writable THEN Store(id, result) ELSE UNCHANGED data
        /\ dec' = IF id \in Writable /\ result.ok THEN result.dec
                  ELSE IF CanSkip(failed) THEN Skip(failed) ELSE failed
        /\ UNCHANGED <<entry, items, stream, pos, size, pc>>
    BY DEF ImportItem
  <1>2. TypeOK /\ Takers = Writable
    BY <1>1 DEF Reading, ImportInv, Takers
  <1>3. PICK k \in 0 .. Len(items) :
              /\ BehindItem(k) /\ pos = 0 /\ pos + dec.payload = Ends(entry, items, k)
              /\ k = Len(items) => dec.payload = size /\ dec.elem = 0
              /\ k # Len(items) => dec.payload # size /\ dec.elem # 0 /\ ItemNext(k)
    BY WholePlace
  <1>4. ItemNext(k)
    <2>1. dec.elem # 0
      <3>1. dec.elem > 0
        BY <1>1 DEF At
      <3> QED
        BY <3>1
    <2> QED
      BY <1>3, <2>1
  <1>5. id = items[k + 1].id /\ Complete(k + 1)
    BY <1>4 DEF ItemNext
  <1>6. /\ CanSkip(Uint(dec))
        /\ Skip(Uint(dec)) = State(Ends(entry, items, k + 1) - pos, 2 * (Len(items) - k) - 1 - 1)
    BY <1>4, WholeSkips
  <1>7. ASSUME id \in Writable
        PROVE  /\ Decodes(id, Uint(dec), k + 1, result)
               /\ ~result.ok => result.dec = Uint(dec)
               /\ result.ok => result.dec = State(Ends(entry, items, k + 1) - pos,
                                                  2 * (Len(items) - k) - 1 - 1)
    <2>1. items[k + 1].id \in Takers
      BY <1>2, <1>5, <1>7
    <2> HIDE DEF id
    <2> QED
      BY <1>4, <1>5, <2>1, WholeDecodes
  <1> HIDE DEF id, result
  <1>8. dec' = State(Ends(entry, items, k + 1) - pos, 2 * (Len(items) - k) - 1 - 1)
    BY <1>1, <1>6, <1>7
  <1>9. data' = Effect(data, items[k + 1], Takers)
    <2>1. CASE id \in Writable
      <3>1. id \in Objects /\ data' = [data EXCEPT ![id] = result.value]
        BY <1>1, <2>1, ConstantsAssumption DEF Store
      <3> QED
        BY <1>2, <1>5, <1>7, <2>1, <3>1, TakesEffect
    <2>2. CASE id \notin Writable
      BY <1>1, <1>2, <1>5, <2>2, PassedBy
    <2> QED
      BY <2>1, <2>2
  <1> QED
    BY <1>1, <1>3, <1>4, <1>8, <1>9, WholeGoesOn

LEMMA FinishStreams ==
    ASSUME Reading, ImportFinish \/ RecordFinish PROVE WholeInv' /\ Stream!StreamNext
  <1>1. /\ pc' = "end" /\ UNCHANGED <<entry, items, pos, dec, data>>
        /\ status' = IF pc = "loop" /\ dec.payload # size THEN "error" ELSE "ok"
        /\ ~At(dec, "uint") \/ RecordOver
    BY DEF ImportFinish, RecordFinish, Return, import
  <1>2. PICK k \in 0 .. Len(items) :
              /\ BehindItem(k) /\ pos = 0 /\ pos + dec.payload = Ends(entry, items, k)
              /\ k = Len(items) => dec.payload = size /\ dec.elem = 0
              /\ k # Len(items) => dec.payload # size /\ dec.elem # 0 /\ ItemNext(k)
    BY WholePlace
  <1>3. k = Len(items) /\ dec.payload = size
    BY <1>1, <1>2 DEF ItemNext, RecordOver
  <1>4. TypeOK /\ pc # "end"
    BY DEF Reading, ImportInv
  <1>5. Dealt = k /\ Dealt' = k
    BY <1>1, <1>2, <1>4, PlacesOf, DealtHere, DealtThen
  <1>6. WholeInv'
    BY <1>1 DEF WholeInv
  <1> QED
    BY <1>1, <1>3, <1>4, <1>5, <1>6, Succeeded

(* An array that is received in a record keeps the number of its elements, *)
(* and so does not become what was sent.                                   *)
NoArrayInRecord == \A o \in RecordItems : Type[o] # "array"

LEMMA RecordItemStreams ==
    ASSUME Reading, NoArrayInRecord, RecordItem PROVE WholeInv' /\ Stream!StreamNext
  <1> DEFINE id == Cell(dec).n
             result == DeserializeValue(id, Uint(dec))
  <1>1. pc = "child" /\ ~RecordOver /\ UNCHANGED <<entry, items, stream, pos, size>>
    BY DEF RecordItem
  <1>2. TypeOK /\ entry = "record" /\ Takers = RecordItems /\ RecordItems \subseteq Objects
    BY <1>1, ConstantsAssumption DEF Reading, ImportInv, WholeInv, Takers
  <1>3. PICK k \in 0 .. Len(items) :
              /\ BehindItem(k) /\ pos = 0 /\ pos + dec.payload = Ends(entry, items, k)
              /\ k = Len(items) => dec.payload = size /\ dec.elem = 0
              /\ k # Len(items) => dec.payload # size /\ dec.elem # 0 /\ ItemNext(k)
    BY WholePlace
  <1>4. ItemNext(k)
    BY <1>1, <1>3 DEF RecordOver
  <1>5. /\ id = items[k + 1].id /\ Complete(k + 1) /\ At(dec, "uint") /\ k < Len(items)
        /\ Place(Uint(dec), k + 1)
    BY <1>4 DEF ItemNext
  <1>6. /\ CanSkip(Uint(dec))
        /\ Skip(Uint(dec)) = State(Ends(entry, items, k + 1) - pos, 2 * (Len(items) - k) - 1 - 1)
    BY <1>4, WholeSkips
  <1>7. Dealt = k
    BY <1>2, <1>3, PlacesOf, DealtHere
  <1>8. CASE id \in RecordItems
    <2>1. /\ StoreInRecord(id, result) /\ dec' = result.dec
          /\ IF result.ok THEN UNCHANGED <<pc, status>> ELSE Return("error")
      BY <1>5, <1>8 DEF RecordItem
    <2>2. /\ Decodes(id, Uint(dec), k + 1, result)
          /\ ~result.ok => result.dec = Uint(dec) /\ result.value = data[id]
          /\ result.ok => result.dec = State(Ends(entry, items, k + 1) - pos,
                                             2 * (Len(items) - k) - 1 - 1)
      <3>1. items[k + 1].id \in Takers
        BY <1>2, <1>5, <1>8
      <3> HIDE DEF id
      <3> QED
        BY <1>4, <1>5, <3>1, WholeDecodes
    <2>3. Type[id] # "array"
      BY <1>8 DEF NoArrayInRecord
    <2> HIDE DEF id, result
    <2>4. data' = [data EXCEPT ![id] = result.value]
      BY <2>1, <2>3 DEF StoreInRecord
    <2>5. CASE result.ok
      <3>1. data' = Effect(data, items[k + 1], Takers)
        BY <1>2, <1>5, <1>8, <2>2, <2>4, TakesEffect
      <3>2. UNCHANGED pc /\ dec' = State(Ends(entry, items, k + 1) - pos,
                                         2 * (Len(items) - k) - 1 - 1)
        BY <2>1, <2>2, <2>5
      <3> QED
        BY <1>1, <1>3, <1>4, <3>1, <3>2, WholeGoesOn
    <2>6. CASE ~result.ok
      <3>1. pc' = "end" /\ status' = "error" /\ dec' = Uint(dec)
        BY <2>1, <2>2, <2>6 DEF Return
      <3>2. data' = data
        BY <1>2, <2>2, <2>4, <2>6 DEF TypeOK
      <3>3. Dealt' = k
        <4>1. pos + Uint(dec).payload = Ends(entry, items, k) + 1
          <5>1. (k + 1) - 1 = k
            BY <1>2, TypesMean, PartsType
          <5> QED
            BY <1>5, <5>1 DEF Place, BeforeValue
        <4>2. OnPlace(pos' + dec'.payload, k)
          BY <1>1, <1>2, <1>5, <3>1, <4>1, PlacesOf
        <4> QED
          BY <1>1, <1>2, <4>2, DealtThen
      <3>4. WholeInv'
        BY <3>1 DEF WholeInv
      <3> QED
        BY <1>1, <1>7, <3>1, <3>2, <3>3, <3>4, Failed
    <2> QED
      BY <2>5, <2>6
  <1>9. CASE id \notin RecordItems
    <2>1. /\ UNCHANGED data
          /\ IF At(dec, "uint") /\ id <= MaxId /\ id \notin Objects
             THEN /\ dec' = IF CanSkip(Uint(dec)) THEN Skip(Uint(dec)) ELSE Uint(dec)
                  /\ UNCHANGED <<pc, status>>
             ELSE Return("error") /\ UNCHANGED dec
      BY <1>9 DEF RecordItem
    <2>2. CASE id <= MaxId /\ id \notin Objects
      <3>1. UNCHANGED pc /\ dec' = State(Ends(entry, items, k + 1) - pos,
                                         2 * (Len(items) - k) - 1 - 1)
        BY <1>5, <1>6, <2>1, <2>2
      <3>2. data' = Effect(data, items[k + 1], Takers)
        BY <1>2, <1>5, <1>9, <2>1, PassedBy
      <3> QED
        BY <1>1, <1>3, <1>4, <3>1, <3>2, WholeGoesOn
    <2>3. CASE ~(id <= MaxId /\ id \notin Objects)
      <3>1. pc' = "end" /\ status' = "error" /\ dec' = dec /\ data' = data
        BY <2>1, <2>3 DEF Return
      <3>2. Dealt' = k
        BY <1>1, <1>2, <1>3, <3>1, PlacesOf, DealtThen
      <3>3. WholeInv'
        BY <3>1 DEF WholeInv
      <3> QED
        BY <1>1, <1>7, <3>1, <3>2, <3>3, Failed
    <2> QED
      BY <2>2, <2>3
  <1> QED
    BY <1>8, <1>9

(***************************************************************************)
(* Both together.                                                          *)
(***************************************************************************)
StreamInv ==
    /\ ImportInv /\ ProgressInv /\ Arrived /\ WholeInv
    /\ entry = "progressively" => ShortIds

(* What is assumed of the database, of the maps and of the caller. *)
Sound ==
    /\ \A is \in Maps : WellSized(is, Writable \cup RecordItems)
    /\ NoArrayInRecord
    /\ Lost \subseteq {0} /\ CallerCountsCells

LEMMA SizedForAll ==
    ASSUME Sound, NEW is \in Maps
    PROVE  WellSized(is, Writable) /\ WellSized(is, RecordItems)
  <1>1. WellSized(is, Writable \cup RecordItems)
    BY DEF Sound
  <1> QED
    BY <1>1 DEF WellSized

LEMMA InitArrived == ASSUME Sound, Init PROVE Arrived /\ WholeInv
  <1> DEFINE s == Encode(entry, items)
  <1>1. IsMap(items)
    BY MapsAreMaps DEF Init
  <1>2. s \in Seq(Cells) /\ Len(s) = Ends(entry, items, Len(items))
    BY <1>1, MapPlaces
  <1>3. PICK n \in Lost : n < Len(s) /\ stream = SubSeq(s, 1, Len(s) - n)
    BY DEF Init
  <1>4. n = 0
    BY DEF Sound
  <1> DEFINE m == Len(s)
  <1>5. m \in Nat
    BY <1>2
  <1> HIDE DEF s
  <1>6. Len(s) - n = m /\ 0 + 1 = 1 /\ 0 + m = m /\ 0 \in Nat /\ m <= m
    BY <1>4, <1>5
  <1> HIDE DEF m
  <1>7. stream = SubSeq(s, 0 + 1, 0 + m)
    BY <1>3, <1>6
  <1>8. Len(stream) = m /\ \A i \in 1 .. m : stream[i] = s[0 + i]
    BY <1>2, <1>5, <1>6, <1>7, PartIs DEF m
  <1>9. PartOf(stream, s, 0)
    BY <1>5, <1>6, <1>8 DEF PartOf, m
  <1>10. Arrived
    BY <1>2, <1>8, <1>9 DEF Arrived, Heard, s, m
  <1>11. pc = "caller"
    BY DEF Init
  <1> QED
    BY <1>10, <1>11 DEF WholeInv

LEMMA InitStreams ==
    ASSUME Sound, Init, entry = "progressively" => ShortIds
    PROVE  StreamInv /\ Stream!StreamInit
  <1>1. StreamInv
    BY InitTypes, InitProgress, InitArrived DEF StreamInv
  <1>2. TypeOK /\ pos = 0 /\ dec.payload = 0 /\ pc = "caller"
    BY <1>1 DEF StreamInv, ImportInv, Init, State
  <1>3. 0 \in 0 .. Len(items)
    BY <1>2, TypesMean, PartsType
  <1>4. pos + dec.payload = 0
    BY <1>2
  <1>5. Dealt = 0
    BY <1>2, <1>3, <1>4, PlacesOf, DealtHere
  <1> QED
    BY <1>1, <1>2, <1>5 DEF Stream!StreamInit, Outcome

LEMMA StreamStep ==
    ASSUME Sound, StreamInv, [Next \/ Over]_vars
    PROVE  StreamInv' /\ (Stream!StreamNext \/ UNCHANGED Stream!streamVars)
  <1>1. CASE UNCHANGED vars
    <2>1. ImportInv' /\ ProgressInv'
      BY <1>1, SizedForAll, ImportInvStep, ProgressStep DEF StreamInv
    <2>2. Arrived' /\ WholeInv' /\ (entry' = "progressively" => ShortIds')
      BY <1>1 DEF StreamInv, vars, Arrived, Heard, WholeInv, BehindItem, ShortIds
    <2>3. UNCHANGED Stream!streamVars
      BY <1>1 DEF vars, Stream!streamVars, Takers, Outcome, Dealt
    <2> QED
      BY <2>1, <2>2, <2>3 DEF StreamInv
  <1>2. CASE Next
    <2>1. ImportInv' /\ ProgressInv'
      BY <1>2, SizedForAll, ImportInvStep, ProgressStep DEF StreamInv
    <2>2. UNCHANGED <<entry, items, stream>>
      BY <1>2, NextKeepsMessage
    <2>3. Arrived' /\ (entry' = "progressively" => ShortIds')
      BY <2>2 DEF StreamInv, Arrived, Heard, ShortIds
    <2>4. items \in Maps /\ WellSized(items, Writable) /\ WellSized(items, Takers)
      <3>1. items \in Maps
        BY DEF StreamInv, ImportInv, TypeOK
      <3> QED
        BY <3>1, SizedForAll DEF Takers
    <2>5. WholeInv' /\ (Stream!StreamNext \/ UNCHANGED Stream!streamVars)
      <3>1. CASE entry = "progressively"
        <4>1. Underway /\ Arrived /\ CallerCountsCells
          BY <2>4, <3>1 DEF Underway, StreamInv, Sound
        <4>2. pc # "child"
          BY <3>1 DEF StreamInv, ProgressInv
        <4>3. \/ \E n \in 1 .. MaxChunk : ProgressiveCall(n)
              \/ ImportValue \/ AskForMore \/ SkipStuck \/ SkipUnknown \/ PassWideId
              \/ ProgressiveReturn
          BY <1>2, <3>1, <4>2 DEF Next, ImportWhole, ImportItem, ImportFinish, RecordItem, RecordFinish
        <4>4. ~PassWideId
          BY <4>1, NoWideId
        <4>5. WholeInv'
          BY <2>2, <3>1 DEF WholeInv
        <4> QED
          BY <4>1, <4>3, <4>4, <4>5, ProgressiveCallStreams, ImportValueStreams, AskForMoreStreams,
             SkipStuckStreams, SkipUnknownStreams, ProgressiveReturnStreams
      <3>2. CASE entry # "progressively"
        <4>1. ImportWhole \/ ImportItem \/ ImportFinish \/ RecordItem \/ RecordFinish
          BY <1>2, <3>2 DEF Next, ProgressiveCall, Progressing, ImportValue, AskForMore, SkipStuck,
                            SkipUnknown, PassWideId, ProgressiveReturn
        <4>2. ImportWhole \/ pc \in {"loop", "child"}
          BY <4>1 DEF ImportItem, ImportFinish, RecordItem, RecordFinish
        <4>3. pc \in {"loop", "child"} => Reading
          BY <2>4, <3>2 DEF Reading, StreamInv
        <4>4. ImportInv /\ Arrived /\ NoArrayInRecord
          BY DEF StreamInv, Sound
        <4> QED
          BY <4>1, <4>2, <4>3, <4>4, ImportWholeStreams, ImportItemStreams, FinishStreams,
             RecordItemStreams
      <3> QED
        BY <3>1, <3>2
    <2> QED
      BY <2>1, <2>3, <2>5 DEF StreamInv
  <1> QED
    BY <1>1, <1>2 DEF Over

(***************************************************************************)
(* Whatever the function and however the map is cut into chunks, the items *)
(* take effect one after the other, an item that is not applied is passed  *)
(* by, and success means that all of them have been dealt with: BinImport  *)
(* implements ImportStream.  The maps are WellSized, arrive as a whole and *)
(* are not received in a record with an array; the caller goes on until it *)
(* has passed everything, and the IDs of a map it passes progressively     *)
(* have 16 bits.                                                           *)
(***************************************************************************)
THEOREM ImportRefines ==
    ASSUME \A is \in Maps : WellSized(is, Writable \cup RecordItems),
           \A o \in RecordItems : Type[o] # "array",
           Lost \subseteq {0}, CallerCountsCells
    PROVE  Spec /\ (entry = "progressively" => ShortIds) => ImportsTheItems
  <1>1. Sound
    BY DEF Sound, NoArrayInRecord
  <1>2. Init /\ (entry = "progressively" => ShortIds) => StreamInv /\ Stream!StreamInit
    BY <1>1, InitStreams
  <1>3. StreamInv /\ [Next \/ Over]_vars => StreamInv' /\ [Stream!StreamNext]_(Stream!streamVars)
    BY <1>1, StreamStep
  <1> QED
    BY <1>2, <1>3, PTL DEF Spec, ImportsTheItems, Stream!StreamSpec
=============================================================================
