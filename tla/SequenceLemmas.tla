--------------------------- MODULE SequenceLemmas ---------------------------
(***************************************************************************)
(* Facts about numbers and sequences the proofs of several modules need:   *)
(* least and greatest elements, induction over sets of numbers, and what   *)
(* FlattenSeq of the community modules computes.                           *)
(***************************************************************************)
EXTENDS SequencesExt, FiniteSetsExt, WellFoundedInduction, TLAPS

LEMMA MinOfNaturals ==
    ASSUME NEW S, S \subseteq Nat, S # {}
    PROVE  Min(S) \in S /\ \A y \in S : Min(S) <= y
  <1> DEFINE less == {ss \in Nat \X Nat : ss[1] < ss[2]}
  <1>1. IsWellFoundedOn(less, Nat)
    BY NatLessThanWellFounded DEF OpToRel
  <1>2. \A x, y \in Nat : <<y, x>> \notin less => x <= y
    BY SMT
  <1> HIDE DEF less
  <1>3. \E x \in S : \A y \in S : ~(<<y, x>> \in less)
    BY <1>1, WFMin
  <1>4. \E x \in S : \A y \in S : x <= y
    BY <1>2, <1>3
  <1> QED
    BY <1>4 DEF Min

LEMMA Greatest ==
    ASSUME NEW S, S \subseteq Nat, NEW x \in S, \A y \in S : y <= x
    PROVE  Max(S) \in S /\ \A y \in S : y <= Max(S)
  <1>1. \A y \in S : x >= y
    OBVIOUS
  <1>2. Max(S) \in S /\ \A y \in S : Max(S) >= y
    BY <1>1 DEF Max
  <1> QED
    BY <1>2

LEMMA MaxOfNaturals ==
    ASSUME NEW S, S \subseteq Nat, S # {}, NEW n \in Nat, \A y \in S : y <= n
    PROVE  Max(S) \in S /\ \A y \in S : y <= Max(S)
  <1> DEFINE above == {k \in Nat : \A y \in S : y <= k}
  <1>1. Min(above) \in above /\ \A k \in above : Min(above) <= k
    BY MinOfNaturals
  <1>2. CASE Min(above) = 0
    <2>1. PICK y \in S : TRUE
      OBVIOUS
    <2>2. \A z \in S : z <= y
      BY <1>1, <1>2
    <2> QED
      BY <2>2, Greatest
  <1>3. CASE Min(above) # 0
    <2>1. Min(above) - 1 \in Nat /\ Min(above) - 1 \notin above
      BY <1>1, <1>3
    <2>2. PICK y \in S : ~(y <= Min(above) - 1)
      BY <2>1
    <2>3. \A z \in S : z <= y
      BY <1>1, <2>1, <2>2
    <2> HIDE DEF above
    <2> QED
      BY <2>3, Greatest
  <1> QED
    BY <1>2, <1>3

LEMMA NaturalInduction ==
    ASSUME NEW S, 0 \in S, \A n \in Nat : n \in S => n + 1 \in S
    PROVE  \A n \in Nat : n \in S
  <1> SUFFICES ASSUME Nat \ S # {} PROVE FALSE
    OBVIOUS
  <1> DEFINE m == Min(Nat \ S)
  <1>1. m \in Nat \ S /\ \A y \in Nat \ S : m <= y
    BY MinOfNaturals
  <1> HIDE DEF m
  <1>2. m - 1 \in Nat /\ m - 1 \in S
    BY <1>1
  <1> QED
    BY <1>1, <1>2

----------------------------------------------------------------------------
LEMMA FunctionIsSeq ==
    ASSUME NEW S, NEW n \in Nat, NEW f \in [1 .. n -> S]
    PROVE  f \in Seq(S) /\ Len(f) = n
  OBVIOUS

LEMMA SeqNarrows ==
    ASSUME NEW S, NEW s \in Seq(S), NEW T, \A j \in 1 .. Len(s) : s[j] \in T
    PROVE  s \in Seq(T)
  <1>1. Len(s) \in Nat /\ s \in [1 .. Len(s) -> T]
    OBVIOUS
  <1> DEFINE n == Len(s)
  <1> HIDE DEF n
  <1> QED
    BY <1>1, FunctionIsSeq DEF n

LEMMA FrontOf ==
    ASSUME NEW S, NEW s \in Seq(S), s # <<>>
    PROVE  /\ Len(s) \in Nat \ {0}
           /\ Front(s) \in Seq(S) /\ Len(Front(s)) = Len(s) - 1
           /\ \A j \in 1 .. Len(s) - 1 : Front(s)[j] = s[j]
  <1>1. Len(s) \in Nat \ {0}
    OBVIOUS
  <1>2. SubSeq(s, 1, Len(s) - 1) \in Seq(S) /\ Len(SubSeq(s, 1, Len(s) - 1)) = Len(s) - 1
    <2> DEFINE n == Len(s) - 1
               f == [j \in 1 .. n |-> s[j]]
    <2>1. SubSeq(s, 1, n) = f
      BY <1>1
    <2>2. n \in Nat /\ f \in [1 .. n -> S]
      BY <1>1
    <2> HIDE DEF f, n
    <2>3. f \in Seq(S) /\ Len(f) = n
      BY <2>2, FunctionIsSeq
    <2> QED
      BY <2>1, <2>3 DEF n
  <1>3. \A j \in 1 .. Len(s) - 1 : SubSeq(s, 1, Len(s) - 1)[j] = s[j]
    BY <1>1
  <1> QED
    BY <1>1, <1>2, <1>3 DEF Front

LEMMA AppendOf ==
    ASSUME NEW S, NEW s \in Seq(S), NEW x \in S
    PROVE  /\ Append(s, x) \in Seq(S) /\ Len(Append(s, x)) = Len(s) + 1
           /\ \A j \in 1 .. Len(s) : Append(s, x)[j] = s[j]
           /\ Append(s, x)[Len(s) + 1] = x
           /\ Len(s) \in Nat
  OBVIOUS

LEMMA AppendTwo ==
    ASSUME NEW S, NEW s \in Seq(S), NEW x \in S, NEW y \in S
    PROVE  s \o <<x, y>> = Append(Append(s, x), y)
  OBVIOUS

(* Concatenation under a name the provers do not expand. *)
Cat(s, t) == s \o t

LEMMA CatType ==
    ASSUME NEW S, NEW s \in Seq(S), NEW t \in Seq(S)
    PROVE  Cat(s, t) \in Seq(S) /\ Cat(<<>>, t) = t
  BY DEF Cat

(* f[j] is the first j of the sequences one behind the other. *)
Flattening(f, seqs, n) ==
    /\ f[0] = <<>>
    /\ \A j \in 1 .. n : f[j] = Cat(f[j - 1], seqs[j])

LEMMA FlatteningExists ==
    ASSUME NEW S, NEW seqs \in Seq(Seq(S))
    PROVE  \E f \in [0 .. Len(seqs) -> Seq(S)] : Flattening(f, seqs, Len(seqs))
  <1> DEFINE Good(n) == n <= Len(seqs) => \E f \in [0 .. n -> Seq(S)] : Flattening(f, seqs, n)
             good == {n \in Nat : Good(n)}
  <1>0. Len(seqs) \in Nat /\ \A j \in 1 .. Len(seqs) : seqs[j] \in Seq(S)
    OBVIOUS
  <1>1. 0 \in good
    <2>1. <<>> \in Seq(S)
      OBVIOUS
    <2>2. [j \in 0 .. 0 |-> <<>>] \in [0 .. 0 -> Seq(S)]
      BY <2>1
    <2>3. Flattening([j \in 0 .. 0 |-> <<>>], seqs, 0)
      BY DEF Flattening
    <2> QED
      BY <2>2, <2>3
  <1>2. ASSUME NEW n \in Nat, Good(n) PROVE Good(n + 1)
    <2> SUFFICES ASSUME n + 1 <= Len(seqs)
                 PROVE  \E f \in [0 .. n + 1 -> Seq(S)] : Flattening(f, seqs, n + 1)
      OBVIOUS
    <2>1. n <= Len(seqs)
      BY <1>0
    <2>2. PICK f \in [0 .. n -> Seq(S)] : Flattening(f, seqs, n)
      BY <1>2, <2>1
    <2> DEFINE last == Cat(f[n], seqs[n + 1])
               g == [j \in 0 .. n + 1 |-> IF j <= n THEN f[j] ELSE last]
    <2>3. last \in Seq(S)
      BY <1>0, CatType
    <2>4. g \in [0 .. n + 1 -> Seq(S)]
      <3> HIDE DEF last
      <3> QED
        BY <2>3
    <2>5. /\ \A j \in 0 .. n : g[j] = f[j]
          /\ g[n + 1] = last
      OBVIOUS
    <2>6. ASSUME NEW j \in 1 .. n + 1 PROVE g[j] = Cat(g[j - 1], seqs[j])
      <3> HIDE DEF g
      <3>1. CASE j = n + 1
        BY <2>5, <3>1
      <3>2. CASE j \in 1 .. n
        <4>1. f[j] = Cat(f[j - 1], seqs[j]) /\ j \in 0 .. n /\ j - 1 \in 0 .. n
          BY <2>2, <3>2 DEF Flattening
        <4> QED
          BY <2>5, <4>1, Zenon
      <3> QED
        BY <3>1, <3>2
    <2>7. Flattening(g, seqs, n + 1)
      <3>1. f[0] = <<>> /\ 0 \in 0 .. n
        BY <2>2 DEF Flattening
      <3> HIDE DEF g
      <3>2. g[0] = <<>>
        BY <2>5, <3>1, Zenon
      <3> QED
        BY <2>6, <3>2, Zenon DEF Flattening
    <2> QED
      BY <2>4, <2>7
  <1>3. \A n \in Nat : n \in good => n + 1 \in good
    <2> HIDE DEF Good
    <2> QED
      BY <1>2
  <1>4. Len(seqs) \in good
    <2> HIDE DEF good
    <2> QED
      BY <1>0, <1>1, <1>3, NaturalInduction
  <1> QED
    BY <1>4

LEMMA FlatteningIsFlat ==
    ASSUME NEW S, NEW seqs \in Seq(Seq(S)),
           NEW f \in [0 .. Len(seqs) -> Seq(S)], Flattening(f, seqs, Len(seqs))
    PROVE  FlattenSeq(seqs) = f[Len(seqs)]
  <1>0. Len(seqs) \in Nat /\ \A j \in 1 .. Len(seqs) : seqs[j] \in Seq(S)
    OBVIOUS
  <1>1. CASE Len(seqs) = 0
    BY <1>1 DEF Flattening, FlattenSeq
  <1>2. CASE Len(seqs) # 0
    <2> DEFINE n == Len(seqs)
               Is(h) == h = [i \in 1 .. n |-> IF i = 1 THEN seqs[i] ELSE Cat(h[i - 1], seqs[i])]
               flat == CHOOSE h : Is(h)
               f1 == [i \in 1 .. n |-> f[i]]
    <2>1. n \in Nat /\ n >= 1
      BY <1>0, <1>2
    <2>2. f[1] = seqs[1]
      <3>1. f[1] = Cat(<<>>, seqs[1]) /\ seqs[1] \in Seq(S)
        BY <1>0, <2>1 DEF Flattening
      <3> QED
        BY <3>1, CatType
    <2>3. \A i \in 1 .. n : f1[i] = IF i = 1 THEN seqs[i] ELSE Cat(f1[i - 1], seqs[i])
      BY <2>1, <2>2 DEF Flattening
    <2>4. Is(f1)
      BY <2>3, Zenon
    <2>5. Is(flat)
      <3> HIDE DEF Is
      <3> QED
        BY <2>4
    <2>6. \A i \in 1 .. n : flat[i] = IF i = 1 THEN seqs[i] ELSE Cat(flat[i - 1], seqs[i])
      <3> HIDE DEF flat
      <3> QED
        BY <2>5, Zenon
    <2>7. FlattenSeq(seqs) = flat[n]
      BY <1>2 DEF FlattenSeq, Cat
    <2> HIDE DEF flat, Is, f1
    <2> DEFINE agree == {i \in Nat : i + 1 \in 1 .. n => flat[i + 1] = f[i + 1]}
    <2>8. 0 \in agree
      BY <2>1, <2>2, <2>6
    <2>9. \A i \in Nat : i \in agree => i + 1 \in agree
      <3> SUFFICES ASSUME NEW i \in Nat, i \in agree, (i + 1) + 1 \in 1 .. n
                   PROVE  flat[(i + 1) + 1] = f[(i + 1) + 1]
        OBVIOUS
      <3>1. flat[i + 1] = f[i + 1]
        BY <2>1
      <3>2. flat[(i + 1) + 1] = Cat(flat[i + 1], seqs[(i + 1) + 1])
        <4>1. ((i + 1) + 1) # 1 /\ ((i + 1) + 1) - 1 = i + 1
          OBVIOUS
        <4> HIDE DEF n
        <4> QED
          BY <2>6, <4>1
      <3>3. f[(i + 1) + 1] = Cat(f[i + 1], seqs[(i + 1) + 1])
        <4>1. ((i + 1) + 1) - 1 = i + 1
          OBVIOUS
        <4> QED
          BY <4>1 DEF Flattening
      <3> QED
        BY <3>1, <3>2, <3>3
    <2>10. n - 1 \in agree
      <3>1. n - 1 \in Nat
        BY <2>1
      <3> HIDE DEF agree
      <3> QED
        BY <3>1, <2>8, <2>9, NaturalInduction
    <2>11. flat[n] = f[n]
      BY <2>1, <2>10
    <2> QED
      BY <2>7, <2>11
  <1> QED
    BY <1>1, <1>2

(* The first j sequences one behind the other are those before and the last. *)
LEMMA FlattenSteps ==
    ASSUME NEW S, NEW seqs \in Seq(Seq(S))
    PROVE  /\ \A j \in 0 .. Len(seqs) : FlattenSeq(SubSeq(seqs, 1, j)) \in Seq(S)
           /\ FlattenSeq(SubSeq(seqs, 1, 0)) = <<>>
           /\ FlattenSeq(SubSeq(seqs, 1, Len(seqs))) = FlattenSeq(seqs)
           /\ \A j \in 1 .. Len(seqs) :
                 FlattenSeq(SubSeq(seqs, 1, j)) = FlattenSeq(SubSeq(seqs, 1, j - 1)) \o seqs[j]
  <1> DEFINE n == Len(seqs)
  <1>0. n \in Nat
    OBVIOUS
  <1>1. PICK f \in [0 .. n -> Seq(S)] : Flattening(f, seqs, n)
    BY FlatteningExists
  <1>2. ASSUME NEW j \in 0 .. n
        PROVE  FlattenSeq(SubSeq(seqs, 1, j)) = f[j]
    <2> DEFINE first == SubSeq(seqs, 1, j)
               g == [i \in 0 .. j |-> f[i]]
    <2>1. /\ first \in Seq(Seq(S)) /\ Len(first) = j
          /\ \A i \in 1 .. j : first[i] = seqs[i]
      OBVIOUS
    <2> HIDE DEF first
    <2>2. g \in [0 .. Len(first) -> Seq(S)]
      BY <2>1
    <2>3. Flattening(g, first, j)
      <3>1. \A i \in 0 .. j : g[i] = f[i]
        BY <1>0
      <3>2. f[0] = <<>> /\ \A i \in 1 .. j : f[i] = Cat(f[i - 1], seqs[i])
        BY <1>0, <1>1 DEF Flattening
      <3>3. ASSUME NEW i \in 1 .. j PROVE g[i] = Cat(g[i - 1], first[i])
        <4>1. i \in 0 .. j /\ i - 1 \in 0 .. j
          BY <1>0
        <4> HIDE DEF g
        <4> QED
          BY <2>1, <3>1, <3>2, <4>1, Zenon
      <3>4. 0 \in 0 .. j
        BY <1>0
      <3> HIDE DEF g
      <3>5. g[0] = <<>>
        BY <3>1, <3>2, <3>4, Zenon
      <3> QED
        BY <3>3, <3>5, Zenon DEF Flattening
    <2>4. FlattenSeq(first) = g[j]
      BY <2>1, <2>2, <2>3, FlatteningIsFlat
    <2> QED
      BY <2>4 DEF first
  <1>3. FlattenSeq(SubSeq(seqs, 1, n)) = FlattenSeq(seqs)
    <2>1. SubSeq(seqs, 1, Len(seqs)) = seqs
      OBVIOUS
    <2> QED
      BY <2>1
  <1>4. /\ f[0] = <<>>
        /\ \A j \in 1 .. n : f[j] = Cat(f[j - 1], seqs[j])
    BY <1>1 DEF Flattening
  <1>5. ASSUME NEW j \in 1 .. n
        PROVE  FlattenSeq(SubSeq(seqs, 1, j)) = Cat(FlattenSeq(SubSeq(seqs, 1, j - 1)), seqs[j])
    <2>1. j \in 0 .. n /\ j - 1 \in 0 .. n
      BY <1>0
    <2> HIDE DEF n
    <2> QED
      BY <1>2, <1>4, <2>1, Zenon
  <1>6. FlattenSeq(SubSeq(seqs, 1, 0)) = <<>>
    BY <1>0, <1>2, <1>4
  <1>7. \A j \in 0 .. n : FlattenSeq(SubSeq(seqs, 1, j)) \in Seq(S)
    <2> HIDE DEF n
    <2> QED
      BY <1>2
  <1> QED
    BY <1>3, <1>5, <1>6, <1>7, Zenon DEF Cat

LEMMA CatPlaces ==
    ASSUME NEW S, NEW s \in Seq(S), NEW t \in Seq(S), NEW u, u = s \o t
    PROVE  /\ Len(u) = Len(s) + Len(t) /\ Len(s) \in Nat /\ Len(t) \in Nat
           /\ \A k \in 1 .. Len(s) : u[k] = s[k]
           /\ \A k \in 1 .. Len(t) : u[Len(s) + k] = t[k]
  OBVIOUS

(* How many elements the first j sequences have. *)
Before(seqs, j) == Len(FlattenSeq(SubSeq(seqs, 1, j)))

(* Where the elements of each of the sequences are. *)
LEMMA FlattenPlaces ==
    ASSUME NEW S, NEW seqs \in Seq(Seq(S))
    PROVE  /\ FlattenSeq(seqs) \in Seq(S)
           /\ Before(seqs, 0) = 0 /\ Before(seqs, Len(seqs)) = Len(FlattenSeq(seqs))
           /\ \A j \in 0 .. Len(seqs) :
                 Before(seqs, j) \in Nat /\ Before(seqs, j) <= Len(FlattenSeq(seqs))
           /\ \A j \in 1 .. Len(seqs) :
                 /\ Before(seqs, j) = Before(seqs, j - 1) + Len(seqs[j])
                 /\ \A k \in 1 .. Len(seqs[j]) :
                       FlattenSeq(seqs)[Before(seqs, j - 1) + k] = seqs[j][k]
  <1> DEFINE n == Len(seqs)
             upto(j) == FlattenSeq(SubSeq(seqs, 1, j))
  <1>1. n \in Nat /\ \A j \in 1 .. n : seqs[j] \in Seq(S)
    OBVIOUS
  <1>2. /\ \A j \in 0 .. n : upto(j) \in Seq(S)
        /\ upto(0) = <<>> /\ upto(n) = FlattenSeq(seqs)
        /\ \A j \in 1 .. n : upto(j) = upto(j - 1) \o seqs[j]
    BY FlattenSteps, Zenon
  <1> HIDE DEF n, upto
  <1>3. ASSUME NEW j \in 1 .. n
        PROVE  /\ Len(upto(j)) = Len(upto(j - 1)) + Len(seqs[j])
               /\ Len(upto(j - 1)) \in Nat /\ Len(seqs[j]) \in Nat
               /\ \A k \in 1 .. Len(upto(j - 1)) : upto(j)[k] = upto(j - 1)[k]
               /\ \A k \in 1 .. Len(seqs[j]) : upto(j)[Len(upto(j - 1)) + k] = seqs[j][k]
    <2>1. j \in 0 .. n /\ j - 1 \in 0 .. n
      BY <1>1
    <2>2. upto(j - 1) \in Seq(S) /\ seqs[j] \in Seq(S) /\ upto(j) = upto(j - 1) \o seqs[j]
      BY <1>1, <1>2, <2>1, Zenon
    <2> QED
      BY <2>2, CatPlaces
  <1> DEFINE Prefix(d) == \A j \in 0 .. n : j + d <= n =>
                             /\ Len(upto(j)) <= Len(upto(j + d))
                             /\ \A k \in 1 .. Len(upto(j)) : upto(j + d)[k] = upto(j)[k]
             prefix == {d \in Nat : Prefix(d)}
  <1>4. \A j \in 0 .. n : Len(upto(j)) \in Nat
    BY <1>2
  <1>5. 0 \in prefix
    BY <1>1, <1>4
  <1>6. ASSUME NEW d \in Nat, Prefix(d) PROVE Prefix(d + 1)
    <2> SUFFICES ASSUME NEW j \in 0 .. n, j + (d + 1) <= n
                 PROVE  /\ Len(upto(j)) <= Len(upto(j + (d + 1)))
                        /\ \A k \in 1 .. Len(upto(j)) : upto(j + (d + 1))[k] = upto(j)[k]
      OBVIOUS
    <2>1. /\ Len(upto(j)) <= Len(upto(j + d))
          /\ \A k \in 1 .. Len(upto(j)) : upto(j + d)[k] = upto(j)[k]
      BY <1>1, <1>6
    <2>2. j + (d + 1) \in 1 .. n /\ (j + (d + 1)) - 1 = j + d /\ j + d \in 0 .. n
      BY <1>1
    <2>3. /\ Len(upto(j + d)) <= Len(upto(j + (d + 1)))
          /\ \A k \in 1 .. Len(upto(j + d)) : upto(j + (d + 1))[k] = upto(j + d)[k]
      <3>1. /\ Len(upto(j + (d + 1))) = Len(upto(j + d)) + Len(seqs[j + (d + 1)])
            /\ Len(upto(j + d)) \in Nat /\ Len(seqs[j + (d + 1)]) \in Nat
            /\ \A k \in 1 .. Len(upto(j + d)) : upto(j + (d + 1))[k] = upto(j + d)[k]
        BY <1>3, <2>2
      <3>2. \A a, b, c \in Nat : a = b + c => b <= a
        OBVIOUS
      <3>3. Len(upto(j + (d + 1))) \in Nat
        BY <3>1
      <3> QED
        BY <3>1, <3>2, <3>3, Zenon
    <2> QED
      BY <1>4, <2>1, <2>2, <2>3
  <1>7. \A d \in Nat : d \in prefix
    <2>1. \A d \in Nat : d \in prefix => d + 1 \in prefix
      <3> HIDE DEF Prefix
      <3> QED
        BY <1>6
    <2> HIDE DEF prefix
    <2> QED
      BY <1>5, <2>1, NaturalInduction
  <1>8. ASSUME NEW j \in 0 .. n
        PROVE  /\ Len(upto(j)) <= Len(upto(n))
               /\ \A k \in 1 .. Len(upto(j)) : upto(n)[k] = upto(j)[k]
    <2>1. n - j \in Nat /\ j + (n - j) = n
      BY <1>1
    <2>2. Prefix(n - j)
      BY <1>7, <2>1
    <2> QED
      BY <2>1, <2>2
  <1>9. ASSUME NEW j \in 1 .. n
        PROVE  \A k \in 1 .. Len(seqs[j]) : upto(n)[Len(upto(j - 1)) + k] = seqs[j][k]
    <2> SUFFICES ASSUME NEW k \in 1 .. Len(seqs[j])
                 PROVE  upto(n)[Len(upto(j - 1)) + k] = seqs[j][k]
      OBVIOUS
    <2>1. /\ Len(upto(j)) = Len(upto(j - 1)) + Len(seqs[j])
          /\ Len(upto(j - 1)) \in Nat /\ Len(seqs[j]) \in Nat
          /\ upto(j)[Len(upto(j - 1)) + k] = seqs[j][k]
      BY <1>3
    <2>2. Len(upto(j - 1)) + k \in 1 .. Len(upto(j)) /\ j \in 0 .. n
      BY <1>1, <2>1
    <2> QED
      BY <1>8, <2>1, <2>2
  <1>10. upto(n) \in Seq(S) /\ Len(upto(0)) = 0
    BY <1>1, <1>2
  <1> QED
    BY <1>2, <1>3, <1>4, <1>8, <1>9, <1>10 DEF Before, n, upto
=============================================================================
