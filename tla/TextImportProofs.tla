-------------------------- MODULE TextImportProofs --------------------------
(***************************************************************************)
(* What TLC checks of TextImport for an endpoint of four objects, proved   *)
(* for every endpoint and every message.                                   *)
(***************************************************************************)
EXTENDS TextImport, SequenceLemmas

Item == [id : STRING, value : Seq(TokenSet)]
IsMessage(m) == m \in Seq(Item) /\ \A j \in 1 .. Len(m) : IsValue(m[j].value)

LEMMA MessagesAre ==
    ASSUME NEW m \in Messages PROVE IsMessage(m)
  BY ConstantsAssumption DEF IsMessage, Item

----------------------------------------------------------------------------
(***************************************************************************)
(* The tokens of a message, item by item.                                  *)
(***************************************************************************)
Parts(e, is) == [j \in DOMAIN is |-> Pair(e, is[j])]

LEMMA TokenType ==
    ASSUME NEW kind \in {"obj", "arr", "str", "prim"}, NEW text \in Text, NEW n \in Nat
    PROVE  Token(kind, text, n) \in TokenSet
  BY DEF Token, TokenSet

LEMMA PartsType ==
    ASSUME NEW e, NEW is, IsMessage(is)
    PROVE  /\ Parts(e, is) \in Seq(Seq(TokenSet)) /\ Len(Parts(e, is)) = Len(is)
           /\ \A j \in 1 .. Len(is) : /\ Parts(e, is)[j] = Pair(e, is[j])
                                      /\ Pair(e, is[j]) \in Seq(TokenSet)
                                      /\ Len(Pair(e, is[j])) \in Nat \ {0}
                                      /\ is[j].value \in Seq(TokenSet) /\ is[j].id \in STRING
                                      /\ is[j].value # <<>>
  <1>1. is \in Seq(Item) /\ DOMAIN is = 1 .. Len(is) /\ Len(is) \in Nat
    BY DEF IsMessage
  <1>2. ASSUME NEW j \in 1 .. Len(is)
        PROVE  /\ is[j].value \in Seq(TokenSet) /\ is[j].id \in STRING /\ is[j].value # <<>>
               /\ Pair(e, is[j]) \in Seq(TokenSet) /\ Len(Pair(e, is[j])) \in Nat \ {0}
    <2>1. is[j] \in Item /\ is[j].value # <<>>
      BY <1>1 DEF IsMessage, IsValue
    <2>2. is[j].value \in Seq(TokenSet) /\ is[j].id \in STRING
      BY <2>1 DEF Item
    <2>3. Key(is[j]) \in TokenSet
      BY <2>2, TokenType DEF Key, Text
    <2>4. <<Key(is[j])>> \in Seq(TokenSet)
      BY <2>3
    <2>5. \A s, t \in Seq(TokenSet) : /\ s \o t \in Seq(TokenSet) /\ Len(s \o t) = Len(s) + Len(t)
                                      /\ Len(s) \in Nat /\ (s # <<>> => Len(s) # 0)
      OBVIOUS
    <2>6. CASE e = "exec"
      BY <2>1, <2>2, <2>5, <2>6 DEF Pair
    <2>7. CASE e # "exec"
      <3>1. Pair(e, is[j]) = <<Key(is[j])>> \o is[j].value
        BY <2>7 DEF Pair
      <3>2. Len(<<Key(is[j])>>) = 1
        OBVIOUS
      <3>3. /\ Pair(e, is[j]) \in Seq(TokenSet)
            /\ Len(Pair(e, is[j])) = Len(<<Key(is[j])>>) + Len(is[j].value)
            /\ Len(is[j].value) \in Nat
        BY <2>2, <2>4, <2>5, <3>1, Zenon
      <3> QED
        BY <2>1, <2>2, <3>2, <3>3
    <2> QED
      BY <2>1, <2>2, <2>6, <2>7
  <1>3. ASSUME NEW j \in 1 .. Len(is) PROVE Parts(e, is)[j] = Pair(e, is[j])
    BY <1>1 DEF Parts
  <1>4. Parts(e, is) \in Seq(Seq(TokenSet)) /\ Len(Parts(e, is)) = Len(is)
    <2> DEFINE part(j) == Pair(e, is[j])
    <2>1. \A j \in 1 .. Len(is) : part(j) \in Seq(TokenSet)
      BY <1>2
    <2>2. Parts(e, is) = [j \in 1 .. Len(is) |-> part(j)]
      BY <1>1 DEF Parts
    <2> HIDE DEF part
    <2> QED
      BY <1>1, <2>1, <2>2
  <1> QED
    BY <1>2, <1>3, <1>4

LEMMA RootType ==
    ASSUME NEW e, NEW is, IsMessage(is)
    PROVE  Root(e, is) \in TokenSet /\ <<Root(e, is)>> \in Seq(TokenSet)
  <1> DEFINE kind == IF e = "exec" THEN "arr" ELSE "obj"
  <1>1. Len(is) \in Nat /\ "" \in Text
    BY DEF IsMessage, Text
  <1>2. kind \in {"obj", "arr", "str", "prim"}
    OBVIOUS
  <1>3. Root(e, is) = Token(kind, "", Len(is))
    BY DEF Root
  <1> HIDE DEF kind
  <1>4. Root(e, is) \in TokenSet
    BY <1>1, <1>2, <1>3, TokenType
  <1> QED
    BY <1>4

(* Item j ends where the tokens of the first j items do. *)
Ends(e, is, j) == 1 + Before(Parts(e, is), j)

PairAt(e, is, j) ==
    /\ Ends(e, is, j) = Ends(e, is, j - 1) + Len(Pair(e, is[j]))
    /\ \A k \in 1 .. Len(Pair(e, is[j])) :
          Tokens(e, is)[Ends(e, is, j - 1) + k] = Pair(e, is[j])[k]

LEMMA TokensPlaces ==
    ASSUME NEW e, NEW is, IsMessage(is)
    PROVE  /\ Tokens(e, is) \in Seq(TokenSet) /\ Tokens(e, is)[1] = Root(e, is)
           /\ Ends(e, is, 0) = 1 /\ Ends(e, is, Len(is)) = Len(Tokens(e, is))
           /\ \A j \in 0 .. Len(is) : Ends(e, is, j) \in Nat /\ Ends(e, is, j) <= Len(Tokens(e, is))
           /\ \A j \in 1 .. Len(is) : PairAt(e, is, j)
  <1> DEFINE parts == Parts(e, is)
             flat == FlattenSeq(parts)
             root == Root(e, is)
  <1>0. Len(is) \in Nat
    BY DEF IsMessage
  <1>1. /\ parts \in Seq(Seq(TokenSet)) /\ Len(parts) = Len(is)
        /\ \A j \in 1 .. Len(is) : parts[j] = Pair(e, is[j]) /\ Len(Pair(e, is[j])) \in Nat
    BY PartsType
  <1>2. Tokens(e, is) = <<root>> \o flat
    BY DEF Tokens, Parts
  <1>3. /\ flat \in Seq(TokenSet)
        /\ Before(parts, 0) = 0 /\ Before(parts, Len(parts)) = Len(flat)
        /\ \A j \in 0 .. Len(parts) : Before(parts, j) \in Nat /\ Before(parts, j) <= Len(flat)
        /\ \A j \in 1 .. Len(parts) :
              /\ Before(parts, j) = Before(parts, j - 1) + Len(parts[j])
              /\ \A k \in 1 .. Len(parts[j]) : flat[Before(parts, j - 1) + k] = parts[j][k]
    BY <1>1, FlattenPlaces, Zenon
  <1>4. root \in TokenSet
    BY RootType
  <1> HIDE DEF parts, flat, root
  <1>5. /\ Tokens(e, is) \in Seq(TokenSet) /\ Tokens(e, is)[1] = root
        /\ Len(Tokens(e, is)) = 1 + Len(flat)
        /\ \A k \in 1 .. Len(flat) : Tokens(e, is)[1 + k] = flat[k]
    <2>1. \A t \in Seq(TokenSet), r \in TokenSet :
             /\ <<r>> \o t \in Seq(TokenSet) /\ (<<r>> \o t)[1] = r
             /\ Len(<<r>> \o t) = 1 + Len(t)
             /\ \A k \in 1 .. Len(t) : (<<r>> \o t)[1 + k] = t[k]
      OBVIOUS
    <2> QED
      BY <1>2, <1>3, <1>4, <2>1
  <1>6. \A j \in 0 .. Len(is) : /\ Ends(e, is, j) = 1 + Before(parts, j)
                                /\ Before(parts, j) \in Nat
    BY <1>1, <1>3 DEF Ends, parts
  <1>7. Len(flat) \in Nat
    BY <1>3
  <1>8. ASSUME NEW j \in 1 .. Len(is) PROVE PairAt(e, is, j)
    <2>1. j \in 0 .. Len(is) /\ j - 1 \in 0 .. Len(is) /\ j \in 1 .. Len(parts)
      BY <1>0, <1>1
    <2>2. /\ Ends(e, is, j) = 1 + Before(parts, j) /\ Before(parts, j) \in Nat
          /\ Ends(e, is, j - 1) = 1 + Before(parts, j - 1) /\ Before(parts, j - 1) \in Nat
      BY <1>6, <2>1
    <2>3. /\ Before(parts, j) = Before(parts, j - 1) + Len(Pair(e, is[j]))
          /\ Len(Pair(e, is[j])) \in Nat
          /\ Before(parts, j) <= Len(flat)
          /\ \A k \in 1 .. Len(Pair(e, is[j])) :
                flat[Before(parts, j - 1) + k] = Pair(e, is[j])[k]
      BY <1>1, <1>3, <2>1
    <2>4. ASSUME NEW k \in 1 .. Len(Pair(e, is[j]))
          PROVE  Tokens(e, is)[Ends(e, is, j - 1) + k] = Pair(e, is[j])[k]
      <3>1. /\ Before(parts, j - 1) + k \in 1 .. Len(flat)
            /\ Ends(e, is, j - 1) + k = 1 + (Before(parts, j - 1) + k)
        BY <1>7, <2>2, <2>3, SMTT(30)
      <3>2. Tokens(e, is)[1 + (Before(parts, j - 1) + k)] = flat[Before(parts, j - 1) + k]
        BY <1>5, <3>1
      <3> QED
        BY <2>3, <3>1, <3>2
    <2> QED
      BY <2>2, <2>3, <2>4 DEF PairAt
  <1>9. \A j \in 0 .. Len(is) : Ends(e, is, j) \in Nat /\ Ends(e, is, j) <= Len(Tokens(e, is))
    BY <1>1, <1>3, <1>5, <1>6, <1>7
  <1>10. Ends(e, is, 0) = 1 /\ Ends(e, is, Len(is)) = Len(Tokens(e, is))
    BY <1>0, <1>1, <1>3, <1>5, <1>6
  <1> QED
    BY <1>5, <1>8, <1>9, <1>10 DEF root

----------------------------------------------------------------------------
(***************************************************************************)
(* Decoding, as far as it depends on the tokens alone: whether a value for *)
(* the object o can be read at p, and where the next token is then.        *)
(***************************************************************************)
Readable(toks, j) ==
    /\ j < Len(toks) /\ toks[j + 1].k \in {"prim", "str"}
    /\ toks[j + 1].k = "prim" => toks[j + 1].n <= MaxLong
Run(toks, o, p) == Max({k \in 0 .. Capacity[o] : \A j \in p .. p + k - 1 : Readable(toks, j)})

ReadsOk(toks, o, p) ==
    /\ Type[o] = "num" => Readable(toks, p)
    /\ Type[o] = "str" => p < Len(toks) /\ toks[p + 1].k = "str" /\ toks[p + 1].n < Capacity[o]
    /\ Type[o] = "array" => /\ p < Len(toks) /\ toks[p + 1].k = "arr"
                            /\ \/ Run(toks, o, p + 1) = Capacity[o]
                               \/ p + 1 + Run(toks, o, p + 1) >= Len(toks)
ReadsTo(toks, o, p) == IF Type[o] = "array" THEN p + 1 + Run(toks, o, p + 1) ELSE p + 1

LEMMA MaxLongType == MaxLong \in Nat
  BY ConstantsAssumption, Zenon

LEMMA ParametersType ==
    /\ Len(Parameters) \in Nat
    /\ \A j \in 1 .. Len(Parameters) : Parameters[j] \in Objects
  <1>1. Parameters \in Seq(Objects)
    BY ConstantsAssumption, Zenon
  <1> QED
    BY <1>1

LEMMA ObjectConstants ==
    ASSUME NEW o \in Objects
    PROVE  /\ Type[o] \in {"num", "str", "array"}
           /\ Modulus[o] \in Nat /\ Modulus[o] > 0 /\ Modulus[o] <= MaxLong
           /\ Capacity[o] \in Nat /\ Capacity[o] > 0 /\ MaxLong \in Nat
  <1>1. /\ Type \in [Objects -> {"num", "str", "array"}]
        /\ Modulus \in [Objects -> Nat \ {0}] /\ Capacity \in [Objects -> Nat \ {0}]
        /\ MaxLong \in Nat /\ Modulus[o] <= MaxLong
    BY ConstantsAssumption, Zenon
  <1>2. /\ Modulus[o] \in Nat \ {0} /\ Capacity[o] \in Nat \ {0}
        /\ Type[o] \in {"num", "str", "array"}
    BY <1>1, Zenon
  <1> QED
    BY <1>1, <1>2

LEMMA TokenFields ==
    ASSUME NEW toks \in Seq(TokenSet), NEW p \in Nat, p < Len(toks)
    PROVE  /\ toks[p + 1].k \in {"obj", "arr", "str", "prim"}
           /\ toks[p + 1].n \in Nat /\ toks[p + 1].s \in Text
  <1>1. toks[p + 1] \in TokenSet
    OBVIOUS
  <1> QED
    BY <1>1 DEF TokenSet

LEMMA NumberType ==
    ASSUME tokens \in Seq(TokenSet), NEW p \in Nat
    PROVE  /\ Number(p) \in Nat
           /\ Simple(p) /\ ~OutOfRange(p) <=> Readable(tokens, p)
           /\ Simple(p) => p < Len(tokens)
  <1>1. Len(tokens) \in Nat /\ MaxLong \in Nat
    BY MaxLongType
  <1>2. CASE p < Len(tokens)
    <2>1. /\ ~(p >= Len(tokens))
          /\ tokens[p + 1].k \in {"obj", "arr", "str", "prim"} /\ tokens[p + 1].n \in Nat
      BY <1>1, <1>2, TokenFields
    <2>2. Number(p) = IF tokens[p + 1].k = "prim" THEN tokens[p + 1].n ELSE 0
      BY <2>1, Zenon DEF Number, At, AtEnd
    <2>3. Simple(p) <=> tokens[p + 1].k \in {"prim", "str"}
      BY <2>1 DEF Simple, At, AtEnd
    <2>4. CASE tokens[p + 1].k = "prim"
      BY <1>1, <1>2, <2>1, <2>2, <2>3, <2>4 DEF OutOfRange, Readable
    <2>5. CASE tokens[p + 1].k # "prim"
      BY <1>1, <1>2, <2>1, <2>2, <2>3, <2>5 DEF OutOfRange, Readable
    <2> QED
      BY <2>4, <2>5
  <1>3. CASE ~(p < Len(tokens))
    BY <1>1, <1>3 DEF Number, Simple, OutOfRange, Readable, At, AtEnd
  <1> QED
    BY <1>2, <1>3

LEMMA NarrowType ==
    ASSUME tokens \in Seq(TokenSet), NEW o \in Objects, NEW p \in Nat
    PROVE  Narrow(o, p) \in Nat /\ Narrow(o, p) < Modulus[o]
  <1>1. \A n, m \in Nat : m > 0 => /\ n % m \in Nat /\ n % m < m
                                   /\ m - 1 \in Nat /\ m - 1 < m
    OBVIOUS
  <1> QED
    BY <1>1, ObjectConstants, NumberType DEF Narrow

LEMMA RunIs ==
    ASSUME NEW toks \in Seq(TokenSet), NEW o \in Objects, NEW p \in 0 .. Len(toks)
    PROVE  LET k == Run(toks, o, p)
           IN  /\ k \in 0 .. Capacity[o] /\ p + k <= Len(toks)
               /\ \A j \in p .. p + k - 1 : Readable(toks, j)
               /\ k = Capacity[o] \/ ~Readable(toks, p + k)
  <1> DEFINE runs == {k \in 0 .. Capacity[o] : \A j \in p .. p + k - 1 : Readable(toks, j)}
  <1>0. Len(toks) \in Nat /\ Capacity[o] \in Nat
    BY ObjectConstants
  <1>1. runs \subseteq Nat /\ 0 \in runs /\ \A k \in runs : k <= Capacity[o]
    BY <1>0
  <1>2. Max(runs) \in runs /\ \A k \in runs : k <= Max(runs)
    <2> HIDE DEF runs
    <2> QED
      BY <1>0, <1>1, MaxOfNaturals
  <1> DEFINE m == Max(runs)
  <1>3. m \in 0 .. Capacity[o] /\ \A j \in p .. p + m - 1 : Readable(toks, j)
    BY <1>2
  <1>4. p + m <= Len(toks)
    <2>1. CASE m = 0
      BY <2>1, <1>0
    <2>2. CASE m # 0
      <3> HIDE DEF m
      <3>1. p + m - 1 \in p .. p + m - 1
        BY <1>0, <1>3, <2>2
      <3>2. p + m - 1 < Len(toks)
        BY <1>3, <3>1 DEF Readable
      <3> QED
        BY <1>0, <1>3, <3>2
    <2> QED
      BY <2>1, <2>2
  <1>5. ASSUME m # Capacity[o], Readable(toks, p + m)
        PROVE  FALSE
    <2>1. m + 1 \notin runs
      <3>1. m + 1 \in runs => m + 1 <= m
        BY <1>2
      <3> HIDE DEF runs
      <3> QED
        BY <1>0, <1>3, <3>1
    <2>2. m + 1 \in 0 .. Capacity[o]
      <3> HIDE DEF m
      <3> QED
        BY <1>0, <1>3, <1>5
    <2>3. \A j \in p .. p + (m + 1) - 1 : Readable(toks, j)
      <3> HIDE DEF m
      <3>1. \A j \in p .. p + (m + 1) - 1 : j \in p .. p + m - 1 \/ j = p + m
        BY <1>0, <1>3
      <3> QED
        BY <1>3, <1>5, <3>1
    <2> QED
      BY <2>1, <2>2, <2>3
  <1>6. Run(toks, o, p) = m
    BY DEF Run
  <1> HIDE DEF m
  <1> QED
    BY <1>3, <1>4, <1>5, <1>6

LEMMA ElementsIsRun ==
    ASSUME tokens \in Seq(TokenSet), NEW o \in Objects, NEW p \in Nat
    PROVE  Elements(o, p) = Run(tokens, o, p)
  <1>1. \A j \in Nat : Simple(j) /\ ~OutOfRange(j) <=> Readable(tokens, j)
    BY NumberType
  <1>2. ASSUME NEW k \in 0 .. Capacity[o]
        PROVE  (\A j \in p .. p + k - 1 : Simple(j) /\ ~OutOfRange(j))
                  <=> (\A j \in p .. p + k - 1 : Readable(tokens, j))
    <2>1. \A j \in p .. p + k - 1 : j \in Nat
      BY ObjectConstants
    <2> QED
      BY <1>1, <2>1
  <1>3. {k \in 0 .. Capacity[o] : \A j \in p .. p + k - 1 : Simple(j) /\ ~OutOfRange(j)}
         = {k \in 0 .. Capacity[o] : \A j \in p .. p + k - 1 : Readable(tokens, j)}
    BY <1>2
  <1> QED
    BY <1>3 DEF Elements, Run

(* What a decoder returns: a value the variable can hold, whether it could *)
(* be read, and a position behind which there may be more.                 *)
Decodes(o, p, v) ==
    /\ v.ok <=> ReadsOk(tokens, o, p)
    /\ v.ok => v.pos = ReadsTo(tokens, o, p)
    /\ v.pos \in p .. Len(tokens)
    /\ Holds(o, v.value)
    /\ Type[o] = "array" /\ KeepsCount => Len(v.value) = Len(data[o])

LEMMA DecodeNumType ==
    ASSUME tokens \in Seq(TokenSet), NEW o \in Objects, NEW p \in 0 .. Len(tokens),
           Holds(o, data[o]), Type[o] = "num"
    PROVE  Decodes(o, p, DecodeNum(o, p))
  <1>0. Len(tokens) \in Nat /\ p \in Nat
    OBVIOUS
  <1>1. Simple(p) /\ ~OutOfRange(p) <=> Readable(tokens, p)
    BY <1>0, NumberType
  <1>2. ReadsOk(tokens, o, p) <=> Readable(tokens, p)
    BY DEF ReadsOk
  <1>3. ReadsTo(tokens, o, p) = p + 1
    BY DEF ReadsTo
  <1>4. CASE Simple(p)
    <2>1. DecodeNum(o, p) = Result(~OutOfRange(p), IF OutOfRange(p) THEN p ELSE p + 1, <<Narrow(o, p)>>)
      BY <1>4 DEF DecodeNum
    <2>2. p < Len(tokens)
      BY <1>0, <1>4, NumberType
    <2>3. Holds(o, <<Narrow(o, p)>>)
      <3>1. Narrow(o, p) \in Nat /\ Narrow(o, p) < Modulus[o]
        BY <1>0, NarrowType
      <3> QED
        BY <3>1 DEF Holds
    <2>4. /\ DecodeNum(o, p).ok <=> ~OutOfRange(p)
          /\ DecodeNum(o, p).pos = (IF OutOfRange(p) THEN p ELSE p + 1)
          /\ DecodeNum(o, p).value = <<Narrow(o, p)>>
      <3>1. ASSUME NEW r, r = Result(~OutOfRange(p), IF OutOfRange(p) THEN p ELSE p + 1, <<Narrow(o, p)>>)
            PROVE  /\ r.ok <=> ~OutOfRange(p)
                   /\ r.pos = (IF OutOfRange(p) THEN p ELSE p + 1)
                   /\ r.value = <<Narrow(o, p)>>
        BY <3>1 DEF Result
      <3> QED
        BY <2>1, <3>1, Zenon
    <2> QED
      BY <1>0, <1>1, <1>2, <1>3, <1>4, <2>2, <2>3, <2>4 DEF Decodes
  <1>5. CASE ~Simple(p)
    <2>1. DecodeNum(o, p) = Result(FALSE, p, data[o])
      BY <1>5 DEF DecodeNum
    <2> QED
      BY <1>0, <1>1, <1>2, <1>5, <2>1 DEF Decodes, Result
  <1> QED
    BY <1>4, <1>5

LEMMA DecodeStrType ==
    ASSUME tokens \in Seq(TokenSet), NEW o \in Objects, NEW p \in 0 .. Len(tokens),
           Holds(o, data[o]), Type[o] = "str"
    PROVE  Decodes(o, p, DecodeStr(o, p))
  <1>0. Len(tokens) \in Nat /\ p \in Nat
    OBVIOUS
  <1>1. ReadsTo(tokens, o, p) = p + 1
    BY DEF ReadsTo
  <1>2. (At(p, "str") /\ tokens[p + 1].n < Capacity[o]) <=> ReadsOk(tokens, o, p)
    BY <1>0 DEF ReadsOk, At, AtEnd
  <1>3. CASE At(p, "str") /\ tokens[p + 1].n < Capacity[o]
    <2>1. DecodeStr(o, p) = Result(TRUE, p + 1, <<tokens[p + 1].n>>)
      BY <1>3 DEF DecodeStr
    <2>2. p < Len(tokens)
      BY <1>0, <1>3 DEF At, AtEnd
    <2>3. Holds(o, <<tokens[p + 1].n>>)
      BY <1>0, <2>2, TokenFields DEF Holds
    <2> QED
      BY <1>0, <1>1, <1>2, <1>3, <2>1, <2>2, <2>3 DEF Decodes, Result
  <1>4. CASE ~(At(p, "str") /\ tokens[p + 1].n < Capacity[o])
    <2>1. DecodeStr(o, p) = Result(FALSE, p, data[o])
      BY <1>4 DEF DecodeStr
    <2> QED
      BY <1>0, <1>2, <1>4, <2>1 DEF Decodes, Result
  <1> QED
    BY <1>3, <1>4

LEMMA DecodeArrayType ==
    ASSUME tokens \in Seq(TokenSet), NEW o \in Objects, NEW p \in 0 .. Len(tokens),
           Holds(o, data[o]), Type[o] = "array"
    PROVE  Decodes(o, p, DecodeArray(o, p))
  <1>0. Len(tokens) \in Nat /\ p \in Nat /\ Capacity[o] \in Nat
    BY ObjectConstants
  <1>1. CASE ~At(p, "arr")
    <2>1. DecodeArray(o, p) = Result(FALSE, p, data[o])
      BY <1>1 DEF DecodeArray
    <2>2. ~ReadsOk(tokens, o, p)
      BY <1>0, <1>1 DEF ReadsOk, At, AtEnd
    <2> QED
      BY <1>0, <2>1, <2>2 DEF Decodes, Result
  <1>2. CASE At(p, "arr")
    <2> DEFINE index == Elements(o, p + 1)
               next == p + 1 + index
               failed == index < Capacity[o] /\ Simple(next)
               count == IF failed THEN index + 1 ELSE index
               stored == [j \in 1 .. count |-> Narrow(o, p + j)]
               value == IF KeepsCount THEN Overwrite(data[o], stored) ELSE SubSeq(stored, 1, index)
    <2>1. DecodeArray(o, p) = Result(index = Capacity[o] \/ AtEnd(next), next, value)
      BY <1>2 DEF DecodeArray
    <2>2. p < Len(tokens) /\ p + 1 \in 0 .. Len(tokens) /\ tokens[p + 1].k = "arr"
      BY <1>0, <1>2 DEF At, AtEnd
    <2>3. index = Run(tokens, o, p + 1)
      BY <2>2, ElementsIsRun
    <2>4. index \in 0 .. Capacity[o] /\ p + 1 + index <= Len(tokens)
      <3>1. /\ Run(tokens, o, p + 1) \in 0 .. Capacity[o]
            /\ (p + 1) + Run(tokens, o, p + 1) <= Len(tokens)
        BY <2>2, RunIs
      <3> HIDE DEF index
      <3> QED
        BY <2>3, <3>1
    <2>5. (index = Capacity[o] \/ AtEnd(next)) <=> ReadsOk(tokens, o, p)
      BY <2>2, <2>3, Zenon DEF ReadsOk, AtEnd
    <2>6. next = ReadsTo(tokens, o, p)
      BY <2>3 DEF ReadsTo
    <2>7. count \in Nat /\ index <= count /\ count <= Capacity[o]
      <3> HIDE DEF index, next
      <3> QED
        BY <1>0, <2>4
    <2> HIDE DEF index, next, count
    <2>8. stored \in Seq(Nat) /\ Len(stored) = count
          /\ \A j \in 1 .. count : stored[j] \in Nat /\ stored[j] < Modulus[o]
      <3>1. \A j \in 1 .. count : p + j \in Nat
        BY <1>0, <2>7
      <3> DEFINE number(j) == Narrow(o, p + j)
      <3>2. \A j \in 1 .. count : number(j) \in Nat /\ number(j) < Modulus[o]
        BY <3>1, NarrowType
      <3> HIDE DEF number
      <3>3. stored = [j \in 1 .. count |-> number(j)]
        BY DEF stored, number
      <3>4. stored \in [1 .. count -> Nat]
        BY <3>2, <3>3
      <3>5. \A j \in 1 .. count : stored[j] = number(j)
        BY <3>3
      <3> QED
        BY <2>7, <3>2, <3>4, <3>5, FunctionIsSeq
    <2> HIDE DEF stored
    <2>9. Holds(o, value) /\ (KeepsCount => Len(value) = Len(data[o]))
      <3>1. CASE KeepsCount
        <4>1. data[o] \in Seq(Nat) /\ Len(data[o]) <= Capacity[o]
              /\ \A j \in 1 .. Len(data[o]) : data[o][j] < Modulus[o]
          BY DEF Holds
        <4>2. value = [j \in 1 .. Len(data[o]) |-> IF j <= count THEN stored[j] ELSE data[o][j]]
          BY <2>8, <3>1, <4>1 DEF Overwrite
        <4>3. ASSUME NEW j \in 1 .. Len(data[o])
              PROVE  /\ (IF j <= count THEN stored[j] ELSE data[o][j]) \in Nat
                     /\ (IF j <= count THEN stored[j] ELSE data[o][j]) < Modulus[o]
          BY <2>7, <2>8, <4>1
        <4> DEFINE number(j) == IF j <= count THEN stored[j] ELSE data[o][j]
        <4>4. /\ value = [j \in 1 .. Len(data[o]) |-> number(j)]
              /\ \A j \in 1 .. Len(data[o]) : number(j) \in Nat /\ number(j) < Modulus[o]
          BY <4>2, <4>3
        <4> HIDE DEF value, number
        <4>5. /\ value \in [1 .. Len(data[o]) -> Nat]
              /\ \A j \in 1 .. Len(data[o]) : value[j] = number(j)
          BY <4>4
        <4>6. value \in Seq(Nat) /\ Len(value) = Len(data[o])
          <5>1. Len(data[o]) \in Nat
            BY <4>1
          <5> QED
            BY <4>5, <5>1, FunctionIsSeq
        <4> QED
          BY <4>1, <4>4, <4>5, <4>6 DEF Holds
      <3>2. CASE ~KeepsCount
        <4>1. value = SubSeq(stored, 1, index)
          BY <3>2
        <4> HIDE DEF value
        <4>2. /\ value \in Seq(Nat) /\ Len(value) = index
              /\ \A j \in 1 .. index : value[j] = stored[j]
          BY <2>4, <2>7, <2>8, <4>1
        <4> QED
          BY <1>0, <2>4, <2>7, <2>8, <3>2, <4>2 DEF Holds
      <3> QED
        BY <3>1, <3>2
    <2> HIDE DEF value
    <2>10. /\ DecodeArray(o, p).ok <=> (index = Capacity[o] \/ AtEnd(next))
           /\ DecodeArray(o, p).pos = next
           /\ DecodeArray(o, p).value = value
      <3>1. ASSUME NEW r, r = Result(index = Capacity[o] \/ AtEnd(next), next, value)
            PROVE  /\ r.ok <=> (index = Capacity[o] \/ AtEnd(next))
                   /\ r.pos = next /\ r.value = value
        BY <3>1 DEF Result
      <3> QED
        BY <2>1, <3>1, Zenon
    <2>11. next \in p .. Len(tokens)
      BY <1>0, <2>4 DEF next
    <2> QED
      BY <2>5, <2>6, <2>9, <2>10, <2>11 DEF Decodes
  <1> QED
    BY <1>1, <1>2

LEMMA DecodeType ==
    ASSUME tokens \in Seq(TokenSet), NEW o \in Objects, NEW p \in 0 .. Len(tokens),
           Holds(o, data[o])
    PROVE  Decodes(o, p, DeserializeValue(o, p))
  <1>1. Type[o] \in {"num", "str", "array"}
    BY ObjectConstants
  <1>2. CASE Type[o] = "num"
    BY <1>2, DecodeNumType DEF DeserializeValue
  <1>3. CASE Type[o] = "str"
    BY <1>3, DecodeStrType DEF DeserializeValue
  <1>4. CASE Type[o] = "array"
    BY <1>4, DecodeArrayType DEF DeserializeValue
  <1> QED
    BY <1>1, <1>2, <1>3, <1>4

(* A value that can be read makes tok_pos move on. *)
LEMMA ReadsMove ==
    ASSUME NEW toks \in Seq(TokenSet), NEW o \in Objects, NEW p \in Nat, ReadsOk(toks, o, p)
    PROVE  p < Len(toks) /\ ReadsTo(toks, o, p) \in Nat /\ ReadsTo(toks, o, p) > p
  <1>1. Type[o] \in {"num", "str", "array"} /\ Len(toks) \in Nat
    BY ObjectConstants
  <1>2. p < Len(toks)
    BY <1>1 DEF ReadsOk, Readable
  <1>3. CASE Type[o] = "array"
    <2>1. p + 1 \in 0 .. Len(toks)
      BY <1>1, <1>2
    <2>2. Run(toks, o, p + 1) \in 0 .. Capacity[o] /\ Capacity[o] \in Nat
      BY <2>1, RunIs, ObjectConstants
    <2>3. ReadsTo(toks, o, p) = p + 1 + Run(toks, o, p + 1)
      BY <1>3 DEF ReadsTo
    <2> QED
      BY <1>2, <2>2, <2>3
  <1>4. CASE Type[o] # "array"
    BY <1>2, <1>4 DEF ReadsTo
  <1> QED
    BY <1>2, <1>3, <1>4

----------------------------------------------------------------------------
(***************************************************************************)
(* The inductive invariant.  Behind the types stand what the two passes of *)
(* UPDATE read: the places the check has been at, and from the start of    *)
(* the write pass on places that hold a name and a value the object can    *)
(* take, and the next of which is one of them again.                       *)
(***************************************************************************)
Control ==
    /\ items \in Messages
    /\ pc \in {"check", "write"} => entry = "update"
    /\ pc = "params" => entry = "exec"
    /\ pc = "record" => entry = "record"
    /\ status = "none" <=> pc # "done"
    /\ pc \in {"parse", "start"} => pos = 0 /\ param = 0 /\ data = InitData

StepOk(toks, p) ==
    /\ p < Len(toks) /\ toks[p + 1].k = "str"
    /\ toks[p + 1].s \in Writable /\ ReadsOk(toks, toks[p + 1].s, p + 1)
StepTo(toks, p) == ReadsTo(toks, toks[p + 1].s, p + 1)

Checked ==
    pc = "check" =>
        \E P \in SUBSET Nat :
            /\ 1 \in P /\ pos \in P
            /\ \A p \in P : p = pos \/ (StepOk(tokens, p) /\ StepTo(tokens, p) \in P)

Accepted ==
    pc = "write" =>
        \E P \in SUBSET Nat :
            /\ pos \in P
            /\ \A p \in P : p >= Len(tokens) \/ (StepOk(tokens, p) /\ StepTo(tokens, p) \in P)

(* Until the write pass, and in a request that fails, no number or string  *)
(* changes.                                                                *)
NotYetWritten ==
    entry = "update" /\ (pc \in {"parse", "start", "check"} \/ status = "error") =>
        \A o \in Objects : Type[o] # "array" => data[o] = InitData[o]

TextInv == TypeOK /\ Control /\ Checked /\ Accepted /\ NotYetWritten

LEMMA InitText == ASSUME Init PROVE TextInv
  <1>1. /\ InitData \in [Objects -> Seq(Nat)] /\ \A o \in Objects : Holds(o, InitData[o])
        /\ Left \subseteq 0 .. MaxTokens /\ MaxTokens \in Nat /\ StaleTokens \subseteq TokenSet
    BY ConstantsAssumption, Zenon
  <1>2. PICK n \in Left : \E stale \in StaleTokens : tokens = [j \in 1 .. n |-> stale]
    BY DEF Init
  <1>3. PICK stale \in StaleTokens : tokens = [j \in 1 .. n |-> stale]
    BY <1>2
  <1>4. n \in Nat /\ n <= MaxTokens /\ tokens \in [1 .. n -> TokenSet]
    BY <1>1, <1>3
  <1>5. tokens \in Seq(TokenSet) /\ Len(tokens) <= MaxTokens
    BY <1>4, FunctionIsSeq
  <1>6. Len(Parameters) \in Nat
    BY ParametersType
  <1>7. TypeOK
    <2>1. pos \in 0 .. Len(tokens) /\ param \in 0 .. Len(Parameters)
      <3>1. pos = 0 /\ param = 0
        BY DEF Init
      <3> QED
        BY <1>5, <1>6, <3>1
    <2>2. parses \in BOOLEAN
      BY DEF Init
    <2> QED
      BY <1>1, <1>5, <2>1, <2>2 DEF Init, TypeOK
  <1>8. Control /\ NotYetWritten
    BY DEF Init, Control, NotYetWritten
  <1>9. Checked /\ Accepted
    BY DEF Init, Checked, Accepted
  <1> QED
    BY <1>7, <1>8, <1>9 DEF TextInv

(* What is stored in an object leaves the others alone. *)
LEMMA StoreType ==
    ASSUME data \in [Objects -> Seq(Nat)], \A x \in Objects : Holds(x, data[x]),
           NEW o \in Objects, NEW v, Holds(o, v), Store(o, v)
    PROVE  /\ data' \in [Objects -> Seq(Nat)] /\ \A x \in Objects : Holds(x, data'[x])
           /\ data'[o] = v /\ \A x \in Objects \ {o} : data'[x] = data[x]
  <1>1. v \in Seq(Nat)
    BY DEF Holds
  <1> QED
    BY <1>1 DEF Store

(* The name the item at tok_pos begins with, and how its value is read. *)
LEMMA KnownItem ==
    ASSUME TypeOK, Known
    PROVE  /\ Named \in Objects /\ pos + 1 \in 0 .. Len(tokens) /\ pos < Len(tokens)
           /\ Decodes(Named, pos + 1, Value)
           /\ tokens[pos + 1].k = "str" /\ tokens[pos + 1].s = Named
  <1>0. pos \in 0 .. Len(tokens) /\ tokens \in Seq(TokenSet)
    BY Zenon DEF TypeOK
  <1>1. Len(tokens) \in Nat /\ pos \in 0 .. Len(tokens) /\ tokens \in Seq(TokenSet)
    BY <1>0
  <1>2. Named \in Objects /\ pos < Len(tokens) /\ tokens[pos + 1].k = "str"
    BY <1>1 DEF Known, At, AtEnd
  <1>3. pos + 1 \in 0 .. Len(tokens)
    BY <1>1, <1>2
  <1>4. Holds(Named, data[Named])
    BY <1>2 DEF TypeOK
  <1>5. Decodes(Named, pos + 1, Value)
    BY <1>1, <1>2, <1>3, <1>4, DecodeType DEF Value
  <1> QED
    BY <1>2, <1>3, <1>5 DEF Named

(* In the write pass every item is known and can be read. *)
LEMMA WriteReads ==
    ASSUME TextInv, pc = "write", ~AtEnd(pos)
    PROVE  /\ Known /\ Named \in Writable /\ Value.ok
           /\ StepOk(tokens, pos) /\ Value.pos = StepTo(tokens, pos)
  <1>1. PICK P \in SUBSET Nat :
            /\ pos \in P
            /\ \A p \in P : p >= Len(tokens) \/ (StepOk(tokens, p) /\ StepTo(tokens, p) \in P)
    BY DEF TextInv, Accepted
  <1>2. StepOk(tokens, pos)
    BY <1>1 DEF AtEnd
  <1>3. Known /\ Named \in Writable
    <2>1. Writable \subseteq Objects
      BY ConstantsAssumption, Zenon
    <2> QED
      BY <1>2, <2>1 DEF StepOk, Known, Named, At
  <1>4. TypeOK
    BY DEF TextInv
  <1>5. Decodes(Named, pos + 1, Value) /\ tokens[pos + 1].s = Named
    BY <1>3, <1>4, KnownItem
  <1>6. ReadsOk(tokens, Named, pos + 1)
    BY <1>2, <1>5 DEF StepOk
  <1> QED
    BY <1>2, <1>3, <1>5, <1>6 DEF Decodes, StepTo

(* Where nothing but tok_pos, a variable and the answer change, the parts  *)
(* of TypeOK that can be disturbed are few.                                *)
LEMMA TypeStep ==
    ASSUME TypeOK, UNCHANGED <<entry, parses, tokens>>,
           pos' \in 0 .. Len(tokens), object' \in Objects \cup {""},
           param' \in 0 .. Len(Parameters),
           data' \in [Objects -> Seq(Nat)] /\ \A o \in Objects : Holds(o, data'[o]),
           pc' \in {"parse", "start", "check", "write", "params", "record", "done"},
           status' \in {"none", "ok", "error"}
    PROVE  TypeOK'
  BY DEF TypeOK

LEMMA ParseText == ASSUME TextInv, Parse PROVE TextInv'
  <1>0. /\ tokens \in Seq(TokenSet) /\ Len(tokens) <= MaxTokens /\ items \in Messages
        /\ param \in 0 .. Len(Parameters)
    BY DEF TextInv, TypeOK, Control
  <1>1. IsMessage(items) /\ MaxTokens \in Nat /\ Len(tokens) \in Nat
    <2>1. MaxTokens \in Nat
      BY ConstantsAssumption, Zenon
    <2> QED
      BY <1>0, <2>1, MessagesAre
  <1> DEFINE new == Tokens(entry, items)
  <1>2. new \in Seq(TokenSet)
    BY <1>1, TokensPlaces
  <1> HIDE DEF new
  <1>3. Len(new) \in Nat
    BY <1>2
  <1>4. tokens' \in Seq(TokenSet) /\ Len(tokens') <= MaxTokens
    <2>1. CASE parses /\ Len(new) <= MaxTokens
      BY <1>2, <2>1 DEF Parse, new
    <2>2. CASE ~(parses /\ Len(new) <= MaxTokens) /\ entry = "record"
      <3>1. PICK n \in 0 .. Min({Len(new), MaxTokens}) : tokens' = Fresh(n)
        BY <2>2 DEF Parse, new
      <3>2. n \in Nat /\ n <= Len(new)
        <4>1. {Len(new), MaxTokens} \subseteq Nat /\ {Len(new), MaxTokens} # {}
          BY <1>1, <1>3
        <4>2. Min({Len(new), MaxTokens}) \in Nat /\ Min({Len(new), MaxTokens}) <= Len(new)
          BY <4>1, MinOfNaturals
        <4> QED
          BY <1>3, <3>1, <4>2
      <3> DEFINE token(j) == IF j <= n THEN new[j] ELSE tokens[j]
      <3>3. \A j \in 1 .. Len(tokens) : token(j) \in TokenSet
        BY <1>0, <1>1, <1>2, <1>3, <3>2
      <3>4. tokens' = [j \in 1 .. Len(tokens) |-> token(j)]
        BY <1>0, <3>1 DEF Fresh, new
      <3> HIDE DEF token
      <3>5. tokens' \in [1 .. Len(tokens) -> TokenSet]
        BY <3>3, <3>4
      <3>6. tokens' \in Seq(TokenSet) /\ Len(tokens') = Len(tokens)
        BY <1>1, <3>5, FunctionIsSeq
      <3> QED
        BY <1>0, <3>6
    <2>3. CASE ~(parses /\ Len(new) <= MaxTokens) /\ entry # "record"
      BY <1>0, <2>3 DEF Parse, new
    <2> QED
      BY <2>1, <2>2, <2>3
  <1>5. /\ pos' = 0 /\ UNCHANGED <<entry, items, parses, object, param, data>>
        /\ \/ pc' = "start" /\ status' = status
           \/ pc' = "done" /\ status' = "error"
        /\ pc = "parse"
    BY Zenon DEF Parse, message, Answer
  <1>6. 0 \in 0 .. Len(tokens')
    <2>1. Len(tokens') \in Nat
      BY <1>4
    <2> QED
      BY <2>1
  <1>7. TypeOK'
    BY <1>0, <1>4, <1>5, <1>6 DEF TextInv, TypeOK
  <1>8. Control'
    BY <1>5 DEF TextInv, Control
  <1>9. Checked' /\ Accepted'
    BY <1>5 DEF Checked, Accepted
  <1>10. NotYetWritten'
    BY <1>5 DEF TextInv, NotYetWritten
  <1> QED
    BY <1>7, <1>8, <1>9, <1>10 DEF TextInv

LEMMA MapStartText == ASSUME TextInv, MapStart PROVE TextInv'
  <1>1. tokens \in Seq(TokenSet) /\ pos \in 0 .. Len(tokens)
    BY Zenon DEF TextInv, TypeOK
  <1>2. Len(tokens) \in Nat /\ (At(0, "obj") => 0 < Len(tokens))
    BY <1>1 DEF At, AtEnd
  <1>3. /\ UNCHANGED <<entry, items, parses, tokens, object, param, data>>
        /\ pc = "start" /\ entry # "exec"
        /\ \/ /\ At(0, "obj") /\ pos' = 1 /\ status' = status
              /\ pc' = IF entry = "update" THEN "check" ELSE "record"
           \/ pc' = "done" /\ status' = "error" /\ pos' = pos
    BY Zenon DEF MapStart, message, Answer
  <1>4. entry \in {"update", "exec", "record"}
    <2>1. entry \in Entries /\ Entries \subseteq {"update", "exec", "record"}
      BY ConstantsAssumption, Zenon DEF TextInv, TypeOK
    <2> QED
      BY <2>1
  <1>5. TypeOK'
    <2>1. pos' \in 0 .. Len(tokens)
      BY <1>1, <1>2, <1>3
    <2>2. pc' \in {"check", "record", "done"} /\ status' \in {status, "error"}
      BY <1>3
    <2> QED
      BY <1>3, <2>1, <2>2, TypeStep DEF TextInv, TypeOK
  <1>6. Control'
    BY <1>3, <1>4 DEF TextInv, Control
  <1>7. Checked'
    <2>1. CASE pc' = "check"
      <3>1. pos' = 1
        BY <1>3, <2>1
      <3>2. {1} \in SUBSET Nat /\ \A p \in {1} : p = pos'
        BY <3>1
      <3> QED
        BY <1>3, <3>1, <3>2 DEF Checked
    <2>2. CASE pc' # "check"
      BY <2>2 DEF Checked
    <2> QED
      BY <2>1, <2>2
  <1>8. Accepted'
    BY <1>3 DEF Accepted
  <1>9. NotYetWritten'
    BY <1>3 DEF TextInv, NotYetWritten
  <1> QED
    BY <1>5, <1>6, <1>7, <1>8, <1>9 DEF TextInv

LEMMA ListStartText == ASSUME TextInv, ListStart PROVE TextInv'
  <1>1. tokens \in Seq(TokenSet) /\ pos \in 0 .. Len(tokens)
    BY Zenon DEF TextInv, TypeOK
  <1>2. Min({1, Len(tokens)}) \in 0 .. Len(tokens)
    <2>1. {1, Len(tokens)} \subseteq Nat /\ {1, Len(tokens)} # {}
      BY <1>1
    <2>2. Min({1, Len(tokens)}) \in Nat /\ Min({1, Len(tokens)}) <= Len(tokens)
      BY <2>1, MinOfNaturals
    <2> QED
      BY <1>1, <2>2
  <1>3. /\ UNCHANGED <<entry, items, parses, tokens, object, param, data>>
        /\ pc = "start" /\ entry = "exec"
        /\ \/ pos' = Min({1, Len(tokens)}) /\ pc' = "params" /\ status' = status
           \/ pc' = "done" /\ status' = "error" /\ pos' = pos
    BY Zenon DEF ListStart, message, Answer
  <1>4. TypeOK'
    <2>1. pos' \in 0 .. Len(tokens)
      BY <1>1, <1>2, <1>3
    <2>2. pc' \in {"params", "done"} /\ status' \in {status, "error"}
      BY <1>3
    <2> QED
      BY <1>3, <2>1, <2>2, TypeStep DEF TextInv, TypeOK
  <1>5. Control'
    BY <1>3 DEF TextInv, Control
  <1>6. Checked' /\ Accepted' /\ NotYetWritten'
    BY <1>3 DEF Checked, Accepted, NotYetWritten
  <1> QED
    BY <1>4, <1>5, <1>6 DEF TextInv

LEMMA CheckItemText == ASSUME TextInv, CheckItem PROVE TextInv'
  <1>0. TypeOK /\ Control /\ NotYetWritten
    BY DEF TextInv
  <1>1. /\ UNCHANGED <<entry, items, parses, tokens, param>>
        /\ pc = "check" /\ entry = "update" /\ status = "none"
    BY <1>0, Zenon DEF CheckItem, message, Control
  <1>2. CASE Known /\ Named \in Writable
    <2>1. /\ object' = Named /\ pos' = Value.pos
          /\ CheckStore(Named, Value.value)
          /\ \/ Value.ok /\ pc' = pc /\ status' = status
             \/ ~Value.ok /\ pc' = "done" /\ status' = "error"
      BY <1>2, Zenon DEF CheckItem, Answer
    <2>2. /\ Named \in Objects /\ pos + 1 \in 0 .. Len(tokens) /\ pos < Len(tokens)
          /\ Decodes(Named, pos + 1, Value)
          /\ tokens[pos + 1].k = "str" /\ tokens[pos + 1].s = Named
      BY <1>0, <1>2, KnownItem
    <2>3. /\ Value.pos \in pos + 1 .. Len(tokens) /\ Holds(Named, Value.value)
          /\ Value.ok => StepOk(tokens, pos) /\ Value.pos = StepTo(tokens, pos)
      BY <1>2, <2>2 DEF Decodes, StepOk, StepTo
    <2>4. pos \in Nat /\ Len(tokens) \in Nat
      <3>1. tokens \in Seq(TokenSet) /\ pos \in 0 .. Len(tokens)
        BY <1>0, Zenon DEF TypeOK
      <3> QED
        BY <3>1
    <2>5. Value.pos \in 0 .. Len(tokens) /\ Value.pos \in Nat
      BY <2>3, <2>4
    <2>6. /\ data' \in [Objects -> Seq(Nat)] /\ \A x \in Objects : Holds(x, data'[x])
          /\ \A x \in Objects : Type[x] # "array" => data'[x] = data[x]
      <3>1. data \in [Objects -> Seq(Nat)] /\ \A x \in Objects : Holds(x, data[x])
        BY <1>0, Zenon DEF TypeOK
      <3>2. CASE Type[Named] = "array"
        <4>1. Store(Named, Value.value)
          BY <2>1, <3>2 DEF CheckStore
        <4>2. /\ data' \in [Objects -> Seq(Nat)] /\ \A x \in Objects : Holds(x, data'[x])
              /\ \A x \in Objects \ {Named} : data'[x] = data[x]
          BY <2>2, <2>3, <3>1, <4>1, StoreType
        <4> QED
          BY <3>2, <4>2
      <3>3. CASE Type[Named] # "array"
        BY <2>1, <3>1, <3>3 DEF CheckStore
      <3> QED
        BY <3>2, <3>3
    <2>7. TypeOK'
      <3>1. /\ pos' \in 0 .. Len(tokens) /\ object' \in Objects \cup {""}
            /\ param' \in 0 .. Len(Parameters)
            /\ pc' \in {"check", "done"} /\ status' \in {"none", "error"}
        BY <1>0, <1>1, <2>1, <2>2, <2>5 DEF TypeOK
      <3> QED
        BY <1>0, <1>1, <2>6, <3>1, TypeStep
    <2>8. Control'
      BY <1>0, <1>1, <2>1 DEF Control
    <2>9. Checked'
      <3>1. CASE Value.ok
        <4>1. PICK P \in SUBSET Nat :
                  /\ 1 \in P /\ pos \in P
                  /\ \A p \in P : p = pos \/ (StepOk(tokens, p) /\ StepTo(tokens, p) \in P)
          BY <1>1 DEF TextInv, Checked
        <4> DEFINE Q == P \cup {pos'}
        <4>2. Q \in SUBSET Nat /\ 1 \in Q /\ pos' \in Q
          BY <2>1, <2>5, <4>1
        <4>3. ASSUME NEW p \in Q
              PROVE  p = pos' \/ (StepOk(tokens, p) /\ StepTo(tokens, p) \in Q)
          BY <2>1, <2>3, <3>1, <4>1, <4>3
        <4> HIDE DEF Q
        <4> QED
          BY <1>1, <4>2, <4>3 DEF Checked
      <3>2. CASE ~Value.ok
        BY <2>1, <3>2 DEF Checked
      <3> QED
        BY <3>1, <3>2
    <2>10. Accepted'
      BY <1>1, <2>1 DEF Accepted
    <2>11. NotYetWritten'
      BY <1>0, <1>1, <2>6 DEF NotYetWritten
    <2> QED
      BY <2>7, <2>8, <2>9, <2>10, <2>11 DEF TextInv
  <1>3. CASE ~(Known /\ Named \in Writable)
    <2>1. pc' = "done" /\ status' = "error" /\ UNCHANGED <<object, data, pos>>
      BY <1>3, Zenon DEF CheckItem, Answer
    <2>2. TypeOK'
      BY <1>0, <1>1, <2>1, TypeStep DEF TypeOK
    <2>3. Control' /\ Checked' /\ Accepted' /\ NotYetWritten'
      BY <1>0, <1>1, <2>1 DEF Control, Checked, Accepted, NotYetWritten
    <2> QED
      BY <2>2, <2>3 DEF TextInv
  <1> QED
    BY <1>2, <1>3

LEMMA CheckDoneText == ASSUME TextInv, CheckDone PROVE TextInv'
  <1>0. TypeOK /\ Control
    BY DEF TextInv
  <1>1. /\ UNCHANGED <<entry, items, parses, tokens, object, param, data, status>>
        /\ pc = "check" /\ pc' = "write" /\ pos' = 1 /\ pos >= Len(tokens)
        /\ entry = "update" /\ status = "none"
    BY <1>0, Zenon DEF CheckDone, message, Control, AtEnd
  <1>2. PICK P \in SUBSET Nat :
            /\ 1 \in P /\ pos \in P
            /\ \A p \in P : p = pos \/ (StepOk(tokens, p) /\ StepTo(tokens, p) \in P)
    BY <1>1 DEF TextInv, Checked
  <1>3. \A p \in P : p >= Len(tokens) \/ (StepOk(tokens, p) /\ StepTo(tokens, p) \in P)
    BY <1>1, <1>2
  <1>4. 1 \in 0 .. Len(tokens)
    <2>1. tokens \in Seq(TokenSet) /\ pos \in 0 .. Len(tokens)
      BY <1>0, Zenon DEF TypeOK
    <2>2. Len(tokens) \in Nat /\ pos = Len(tokens)
      BY <1>1, <2>1
    <2>3. 1 <= Len(tokens)
      BY <1>2, <2>2 DEF StepOk
    <2> QED
      BY <2>2, <2>3
  <1>5. TypeOK'
    BY <1>0, <1>1, <1>4, TypeStep DEF TypeOK
  <1>6. Control'
    BY <1>0, <1>1 DEF Control
  <1>7. Checked' /\ NotYetWritten'
    BY <1>1 DEF Checked, NotYetWritten
  <1>8. Accepted'
    BY <1>1, <1>2, <1>3 DEF Accepted
  <1> QED
    BY <1>5, <1>6, <1>7, <1>8 DEF TextInv

LEMMA WriteItemText == ASSUME TextInv, WriteItem PROVE TextInv'
  <1>0. TypeOK /\ Control
    BY DEF TextInv
  <1>1. /\ UNCHANGED <<entry, items, parses, tokens, param>>
        /\ pc = "write" /\ entry = "update" /\ status = "none" /\ ~AtEnd(pos)
    BY <1>0, Zenon DEF WriteItem, message, Control
  <1>2. /\ Known /\ Value.ok /\ StepOk(tokens, pos) /\ Value.pos = StepTo(tokens, pos)
    BY <1>1, WriteReads
  <1>3. object' = Named /\ Store(Named, Value.value) /\ pos' = Value.pos
        /\ UNCHANGED <<pc, status>>
    BY <1>2 DEF WriteItem, Value
  <1>4. /\ Named \in Objects /\ pos + 1 \in 0 .. Len(tokens)
        /\ Value.pos \in pos + 1 .. Len(tokens) /\ Holds(Named, Value.value)
    BY <1>0, <1>2, KnownItem DEF Decodes
  <1>5. Value.pos \in 0 .. Len(tokens) /\ Value.pos \in Nat
    <2>1. pos \in 0 .. Len(tokens) /\ tokens \in Seq(TokenSet)
      BY <1>0, Zenon DEF TypeOK
    <2> QED
      BY <1>4, <2>1
  <1>6. TypeOK'
    <2>1. data \in [Objects -> Seq(Nat)] /\ \A x \in Objects : Holds(x, data[x])
      BY <1>0, Zenon DEF TypeOK
    <2>2. data' \in [Objects -> Seq(Nat)] /\ \A x \in Objects : Holds(x, data'[x])
      BY <1>3, <1>4, <2>1, StoreType
    <2>3. /\ pos' \in 0 .. Len(tokens) /\ object' \in Objects \cup {""}
          /\ param' \in 0 .. Len(Parameters) /\ pc' = "write" /\ status' = "none"
      BY <1>0, <1>1, <1>3, <1>4, <1>5 DEF TypeOK
    <2> QED
      BY <1>0, <1>1, <2>2, <2>3, TypeStep
  <1>7. Control'
    BY <1>0, <1>1, <1>3 DEF Control
  <1>8. Checked' /\ NotYetWritten'
    BY <1>1, <1>3 DEF Checked, NotYetWritten
  <1>9. Accepted'
    <2>1. PICK P \in SUBSET Nat :
              /\ pos \in P
              /\ \A p \in P : p >= Len(tokens) \/ (StepOk(tokens, p) /\ StepTo(tokens, p) \in P)
      BY <1>1 DEF TextInv, Accepted
    <2>2. pos' \in P
      BY <1>1, <1>2, <1>3, <2>1 DEF AtEnd
    <2> QED
      BY <1>1, <2>1, <2>2 DEF Accepted
  <1> QED
    BY <1>6, <1>7, <1>8, <1>9 DEF TextInv

(* The steps that only answer. *)
LEMMA AnswerText ==
    ASSUME TextInv, pc' = "done", status' \in {"ok", "error"},
           pc = "write" => status' = "ok",
           UNCHANGED <<message, tokens, pos, object, param, data>>,
           entry = "update" => pc = "write"
    PROVE  TextInv'
  <1>0. TypeOK /\ Control
    BY DEF TextInv
  <1>1. UNCHANGED <<entry, items, parses, tokens, pos, object, param, data>>
    BY Zenon DEF message
  <1>2. TypeOK'
    BY <1>0, <1>1, TypeStep DEF TypeOK
  <1>3. Control'
    BY <1>0, <1>1 DEF Control
  <1>4. Checked' /\ Accepted'
    BY DEF Checked, Accepted
  <1>5. NotYetWritten'
    BY <1>1 DEF NotYetWritten
  <1> QED
    BY <1>2, <1>3, <1>4, <1>5 DEF TextInv

LEMMA ExecParameterText == ASSUME TextInv, ExecParameter PROVE TextInv'
  <1>0. TypeOK /\ Control
    BY DEF TextInv
  <1> DEFINE o == Parameters[param + 1]
  <1>1. /\ UNCHANGED <<entry, items, parses, tokens, object>>
        /\ pc = "params" /\ entry = "exec" /\ status = "none" /\ param < Len(Parameters)
        /\ Store(o, Decoded.value) /\ pos' = Decoded.pos
        /\ \/ param' = param + 1 /\ UNCHANGED <<pc, status>>
           \/ param' = param /\ pc' = "done" /\ status' = "error"
    BY <1>0, Zenon DEF ExecParameter, message, Control, Answer
  <1>2. /\ pos \in 0 .. Len(tokens) /\ tokens \in Seq(TokenSet) /\ param \in 0 .. Len(Parameters)
        /\ data \in [Objects -> Seq(Nat)] /\ \A x \in Objects : Holds(x, data[x])
    BY <1>0, Zenon DEF TypeOK
  <1>3. /\ Len(Parameters) \in Nat /\ o \in Objects
        /\ param + 1 \in 0 .. Len(Parameters)
    BY <1>1, <1>2, ParametersType
  <1> HIDE DEF o
  <1>4. Decoded.pos \in pos .. Len(tokens) /\ Holds(o, Decoded.value)
    <2>1. Decodes(o, pos, DeserializeValue(o, pos))
      BY <1>2, <1>3, DecodeType
    <2> QED
      BY <2>1 DEF Decodes, Decoded, o
  <1>5. TypeOK'
    <2>1. data' \in [Objects -> Seq(Nat)] /\ \A x \in Objects : Holds(x, data'[x])
      BY <1>1, <1>2, <1>3, <1>4, StoreType
    <2>2. pos' \in 0 .. Len(tokens)
      BY <1>1, <1>2, <1>4
    <2>3. param' \in 0 .. Len(Parameters) /\ object' \in Objects \cup {""}
      BY <1>0, <1>1, <1>2, <1>3 DEF TypeOK
    <2>4. pc' \in {"params", "done"} /\ status' \in {"none", "error"}
      BY <1>1
    <2> QED
      BY <1>0, <1>1, <2>1, <2>2, <2>3, <2>4, TypeStep
  <1>6. Control'
    BY <1>0, <1>1 DEF Control
  <1>7. Checked' /\ Accepted' /\ NotYetWritten'
    BY <1>1 DEF Checked, Accepted, NotYetWritten
  <1> QED
    BY <1>5, <1>6, <1>7 DEF TextInv

LEMMA RecordItemText == ASSUME TextInv, RecordItem PROVE TextInv'
  <1>0. TypeOK /\ Control
    BY DEF TextInv
  <1>1. /\ UNCHANGED <<entry, items, parses, tokens, object, param>>
        /\ pc = "record" /\ entry = "record" /\ status = "none"
    BY <1>0, Zenon DEF RecordItem, message, Control
  <1>2. /\ pos \in 0 .. Len(tokens) /\ tokens \in Seq(TokenSet)
        /\ data \in [Objects -> Seq(Nat)] /\ \A x \in Objects : Holds(x, data[x])
    BY <1>0, Zenon DEF TypeOK
  <1>3. /\ data' \in [Objects -> Seq(Nat)] /\ \A x \in Objects : Holds(x, data'[x])
        /\ pos' \in 0 .. Len(tokens)
    <2>1. CASE Known
      <3>1. Store(Named, Value.value) /\ pos' = Value.pos
        BY <2>1, Zenon DEF RecordItem
      <3>2. /\ Named \in Objects /\ pos + 1 \in 0 .. Len(tokens)
            /\ Value.pos \in pos + 1 .. Len(tokens) /\ Holds(Named, Value.value)
        BY <1>0, <2>1, KnownItem DEF Decodes
      <3>3. pos' \in 0 .. Len(tokens)
        BY <1>2, <3>1, <3>2
      <3> QED
        BY <1>2, <3>1, <3>2, <3>3, StoreType
    <2>2. CASE ~Known
      <3>1. data' = data /\ ((Unknown /\ pos' = pos + 1) \/ pos' = pos)
        BY <2>2, Zenon DEF RecordItem
      <3>2. Unknown => pos < Len(tokens)
        BY <1>2 DEF Unknown, At, AtEnd
      <3>3. pos' \in 0 .. Len(tokens)
        BY <1>2, <3>1, <3>2
      <3> QED
        BY <1>2, <3>1, <3>3
    <2> QED
      BY <2>1, <2>2
  <1>4. \/ UNCHANGED <<pc, status>>
        \/ pc' = "done" /\ status' = "error"
    BY Zenon DEF RecordItem, Answer
  <1>5. TypeOK'
    <2>1. pc' \in {"record", "done"} /\ status' \in {"none", "error"}
      BY <1>1, <1>4
    <2> QED
      BY <1>0, <1>1, <1>3, <2>1, TypeStep DEF TypeOK
  <1>6. Control'
    BY <1>0, <1>1, <1>4 DEF Control
  <1>7. Checked' /\ Accepted' /\ NotYetWritten'
    BY <1>1, <1>4 DEF Checked, Accepted, NotYetWritten
  <1> QED
    BY <1>5, <1>6, <1>7 DEF TextInv

LEMMA StepText == ASSUME TextInv, [Next \/ Over]_vars PROVE TextInv'
  <1>0. Control
    BY DEF TextInv
  <1>1. CASE WriteDone
    <2>1. pc' = "done" /\ status' = "ok" /\ pc = "write"
          /\ UNCHANGED <<message, tokens, pos, object, param, data>>
      BY <1>1, Zenon DEF WriteDone, Answer
    <2> QED
      BY <2>1, AnswerText
  <1>2. CASE ExecCall
    <2>1. /\ pc' = "done" /\ pc = "params" /\ entry = "exec"
          /\ status' = IF AtEnd(pos) THEN "ok" ELSE "error"
          /\ UNCHANGED <<message, tokens, pos, object, param, data>>
      BY <1>0, <1>2, Zenon DEF ExecCall, Answer, Control
    <2>2. status' \in {"ok", "error"}
      BY <2>1
    <2> QED
      BY <2>1, <2>2, AnswerText
  <1>3. CASE RecordDone
    <2>1. pc' = "done" /\ status' = "ok" /\ pc = "record" /\ entry = "record"
          /\ UNCHANGED <<message, tokens, pos, object, param, data>>
      BY <1>0, <1>3, Zenon DEF RecordDone, Answer, Control
    <2> QED
      BY <2>1, AnswerText
  <1>4. CASE UNCHANGED vars
    <2>1. /\ TypeOK' <=> TypeOK
          /\ Control' <=> Control
          /\ Checked' <=> Checked
          /\ Accepted' <=> Accepted
          /\ NotYetWritten' <=> NotYetWritten
      BY <1>4 DEF vars, TypeOK, Control, Checked, Accepted, NotYetWritten
    <2> QED
      BY <2>1 DEF TextInv
  <1> QED
    BY <1>1, <1>2, <1>3, <1>4, ParseText, MapStartText, ListStartText, CheckItemText,
       CheckDoneText, WriteItemText, ExecParameterText, RecordItemText DEF Next, Over

LEMMA TextInvariant == Spec => []TextInv
  <1>1. Init => TextInv
    BY InitText
  <1>2. TextInv /\ [Next \/ Over]_vars => TextInv'
    BY StepText
  <1> QED
    BY <1>1, <1>2, PTL DEF Spec

(***************************************************************************)
(* The variables have their types: tok_pos never leaves the tokens and no  *)
(* value is stored that the variable of its object cannot hold, whatever   *)
(* the tokens are taken for.                                               *)
(***************************************************************************)
THEOREM TextTypes == Spec => []TypeOK
  <1>1. TextInv => TypeOK
    BY DEF TextInv
  <1> QED
    BY <1>1, TextInvariant, PTL

(***************************************************************************)
(* The write pass of UPDATE finds what the check has found, for every      *)
(* message, however its tokens are taken: neither pass moves over the      *)
(* tokens in a way that depends on the data.                               *)
(***************************************************************************)
THEOREM PassesAgree == Spec => []TwoPassesAgree
  <1>1. TextInv => TwoPassesAgree
    <2> SUFFICES ASSUME TextInv PROVE TwoPassesAgree
      OBVIOUS
    <2>1. entry = "update" /\ pc = "write" /\ ~AtEnd(pos) =>
             Known /\ Named \in Writable /\ Value.ok
      BY WriteReads
    <2>2. entry = "update" /\ (\E o \in Objects : Type[o] # "array" /\ data[o] # InitData[o]) =>
             status # "error"
      BY DEF TextInv, NotYetWritten
    <2> QED
      BY <2>1, <2>2 DEF TwoPassesAgree
  <1> QED
    BY <1>1, TextInvariant, PTL

----------------------------------------------------------------------------
(***************************************************************************)
(* What is no JSON leaves no tokens of its own.                            *)
(***************************************************************************)
Refusal ==
    ~parses =>
        /\ data = InitData /\ status # "ok"
        /\ pc \in {"parse", "start", "done"} /\ (pc = "start" => entry = "record")
        /\ entry = "record" => tokens = <<>>

(* The first record to be imported finds no tokens. *)
FirstMessage == "record" \in Entries => Left = {0}

LEMMA NoTokensBefore ==
    ASSUME FirstMessage, Init, entry = "record" PROVE tokens = <<>>
  <1>1. entry \in Entries
    BY DEF Init
  <1>2. PICK n \in Left, stale \in StaleTokens : tokens = [j \in 1 .. n |-> stale]
    BY DEF Init
  <1>3. n = 0
    BY <1>1, <1>2 DEF FirstMessage
  <1> QED
    BY <1>2, <1>3

(***************************************************************************)
(* What is no JSON changes nothing and does not succeed, if no tokens of   *)
(* an earlier message are there when a record is imported:                 *)
(* thingset_import_record does not look at the result of parsing.          *)
(***************************************************************************)
THEOREM MalformedRefused ==
    ASSUME FirstMessage
    PROVE  Spec => []MalformedIsRefused
  <1>1. Init => Refusal
    BY NoTokensBefore DEF Init, Refusal
  <1>2. TextInv /\ Refusal /\ [Next \/ Over]_vars => Refusal'
    <2> SUFFICES ASSUME TextInv, Refusal, [Next \/ Over]_vars, ~parses'
                 PROVE  Refusal'
      BY DEF Refusal
    <2>1. CASE UNCHANGED vars
      BY <2>1 DEF vars, Refusal
    <2>2. CASE Parse
      <3>1. /\ ~parses /\ UNCHANGED <<entry, parses, data>>
            /\ \/ /\ entry = "record" /\ pc' = "start" /\ status' = status
                  /\ \E n : tokens' = Fresh(n)
               \/ entry # "record" /\ pc' = "done" /\ status' = "error"
        BY <2>2 DEF Parse, Answer, message
      <3>2. entry = "record" => tokens' = <<>>
        <4>1. entry = "record" => tokens = <<>>
          BY <3>1 DEF Refusal
        <4>2. \A n : tokens = <<>> => Fresh(n) = <<>>
          BY DEF Fresh
        <4> QED
          BY <3>1, <4>1, <4>2
      <3> QED
        BY <3>1, <3>2 DEF Refusal
    <2>3. CASE MapStart
      <3>1. ~parses /\ pc = "start" /\ UNCHANGED <<entry, parses, tokens, data>>
        BY <2>3, Zenon DEF MapStart, message
      <3>2. ~At(0, "obj")
        <4>1. tokens = <<>>
          BY <3>1 DEF Refusal
        <4> QED
          BY <4>1 DEF At, AtEnd
      <3>3. pc' = "done" /\ status' = "error"
        BY <2>3, <3>2, Zenon DEF MapStart, Answer
      <3> QED
        BY <3>1, <3>3 DEF Refusal
    <2>4. CASE ListStart
      <3>1. ~parses /\ pc = "start" /\ entry = "exec"
        BY <2>4, Zenon DEF ListStart, message
      <3> QED
        BY <3>1 DEF Refusal
    <2>5. ASSUME pc \in {"check", "write", "params", "record"}, UNCHANGED message
          PROVE  FALSE
      BY <2>5 DEF Refusal, message
    <2>6. /\ CheckItem => pc = "check" /\ UNCHANGED message
          /\ CheckDone => pc = "check" /\ UNCHANGED message
          /\ WriteItem => pc = "write" /\ UNCHANGED message
          /\ WriteDone => pc = "write" /\ UNCHANGED message
          /\ ExecParameter => pc = "params" /\ UNCHANGED message
          /\ ExecCall => pc = "params" /\ UNCHANGED message
          /\ RecordItem => pc = "record" /\ UNCHANGED message
          /\ RecordDone => pc = "record" /\ UNCHANGED message
      BY Zenon DEF CheckItem, CheckDone, WriteItem, WriteDone, ExecParameter, ExecCall,
         RecordItem, RecordDone, message
    <2> QED
      BY <2>1, <2>2, <2>3, <2>4, <2>5, <2>6 DEF Next, Over
  <1>3. Refusal => MalformedIsRefused
    BY DEF Refusal, MalformedIsRefused
  <1> QED
    BY <1>1, <1>2, <1>3, TextInvariant, PTL DEF Spec

----------------------------------------------------------------------------
(***************************************************************************)
(* A value whose tokens are behind p, and cannot be taken for others, is   *)
(* read as what it means or not at all.                                    *)
(***************************************************************************)
ValueAt(p, value) ==
    /\ p + Len(value) <= Len(tokens)
    /\ \A k \in 1 .. Len(value) : tokens[p + k] = value[k]
Unmistakable(o, value) ==
    Type[o] # "str" => Fits(o, value) \/ ~(\E k \in DOMAIN value : value[k].k \in {"prim", "str"})
NothingBehind(o, p, value) ==
    Type[o] = "array" /\ Len(value) - 1 < Capacity[o] => p + Len(value) = Len(tokens)

ReadRight(o, p, value, v) ==
    /\ v.ok => /\ Fits(o, value) /\ v.pos = p + Len(value)
               /\ (Type[o] = "array" /\ KeepsCount => Len(data[o]) = Len(value) - 1)
                     => v.value = Meaning(o, value)
    /\ ~v.ok => v.pos < p + Len(value)

LEMMA ReadNum ==
    ASSUME tokens \in Seq(TokenSet), NEW o \in Objects, Type[o] = "num",
           NEW value \in Seq(TokenSet), IsValue(value), NEW p \in Nat,
           ValueAt(p, value), Unmistakable(o, value)
    PROVE  ReadRight(o, p, value, DecodeNum(o, p))
  <1>1. Len(value) \in Nat /\ Len(value) >= 1 /\ Len(tokens) \in Nat /\ p < Len(tokens)
    BY DEF IsValue, ValueAt
  <1>2. tokens[p + 1] = value[1] /\ value[1] \in TokenSet
    BY <1>1 DEF ValueAt
  <1>3. value[1].k \in {"obj", "arr", "str", "prim"} /\ value[1].n \in Nat
    BY <1>2 DEF TokenSet
  <1>4. Modulus[o] \in Nat /\ Modulus[o] > 0 /\ Modulus[o] <= MaxLong /\ MaxLong \in Nat
    BY ObjectConstants
  <1>5. CASE Fits(o, value)
    <2>1. value[1].k = "prim" /\ value[1].n < Modulus[o]
      BY <1>5 DEF Fits
    <2>2. Len(value) = 1
      BY <2>1 DEF IsValue
    <2>3. At(p, "prim")
      BY <1>1, <1>2, <2>1 DEF At, AtEnd
    <2>4. Simple(p) /\ Number(p) = value[1].n
      BY <1>2, <2>3 DEF Simple, Number
    <2>5. ~OutOfRange(p)
      BY <1>3, <1>4, <2>1, <2>4 DEF OutOfRange
    <2>6. Narrow(o, p) = value[1].n
      <3>1. \A n, m \in Nat : n < m => n % m = n
        OBVIOUS
      <3> QED
        BY <1>3, <1>4, <2>1, <2>4, <2>5, <3>1 DEF Narrow
    <2>7. DecodeNum(o, p) = Result(TRUE, p + 1, <<value[1].n>>)
      BY <2>4, <2>5, <2>6 DEF DecodeNum
    <2>8. Meaning(o, value) = <<value[1].n>>
      BY DEF Meaning
    <2> QED
      BY <1>5, <2>2, <2>7, <2>8 DEF ReadRight, Result
  <1>6. CASE ~Fits(o, value)
    <2>1. ~(value[1].k \in {"prim", "str"})
      BY <1>1, <1>6 DEF Unmistakable
    <2>2. ~Simple(p)
      BY <1>2, <2>1 DEF Simple, At
    <2>3. DecodeNum(o, p) = Result(FALSE, p, data[o])
      BY <2>2 DEF DecodeNum
    <2> QED
      BY <1>1, <2>3 DEF ReadRight, Result
  <1> QED
    BY <1>5, <1>6

LEMMA ReadStr ==
    ASSUME tokens \in Seq(TokenSet), NEW o \in Objects, Type[o] = "str",
           NEW value \in Seq(TokenSet), IsValue(value), NEW p \in Nat, ValueAt(p, value)
    PROVE  ReadRight(o, p, value, DecodeStr(o, p))
  <1>1. Len(value) \in Nat /\ Len(value) >= 1 /\ Len(tokens) \in Nat /\ p < Len(tokens)
    BY DEF IsValue, ValueAt
  <1>2. tokens[p + 1] = value[1]
    BY <1>1 DEF ValueAt
  <1>3. CASE At(p, "str") /\ tokens[p + 1].n < Capacity[o]
    <2>1. value[1].k = "str"
      BY <1>2, <1>3 DEF At
    <2>2. Len(value) = 1 /\ Fits(o, value)
      BY <1>2, <1>3, <2>1 DEF IsValue, Fits
    <2>3. DecodeStr(o, p) = Result(TRUE, p + 1, <<value[1].n>>)
      BY <1>2, <1>3 DEF DecodeStr
    <2>4. Meaning(o, value) = <<value[1].n>>
      BY DEF Meaning
    <2> QED
      BY <2>2, <2>3, <2>4 DEF ReadRight, Result
  <1>4. CASE ~(At(p, "str") /\ tokens[p + 1].n < Capacity[o])
    <2>1. DecodeStr(o, p) = Result(FALSE, p, data[o])
      BY <1>4 DEF DecodeStr
    <2> QED
      BY <1>1, <2>1 DEF ReadRight, Result
  <1> QED
    BY <1>3, <1>4

(* An array of the length it is said to have is read whole. *)
LEMMA RunOfArray ==
    ASSUME tokens \in Seq(TokenSet), NEW o \in Objects, Type[o] = "array",
           NEW value \in Seq(TokenSet), IsValue(value), NEW p \in Nat,
           ValueAt(p, value), NothingBehind(o, p, value), Fits(o, value)
    PROVE  /\ Run(tokens, o, p + 1) = Len(value) - 1
           /\ \A j \in 1 .. Len(value) - 1 : Narrow(o, p + j) = value[j + 1].n
           /\ \A j \in 1 .. Len(value) - 1 : value[j + 1].n \in Nat
  <1> DEFINE m == Len(value) - 1
             k == Run(tokens, o, p + 1)
  <1>1. /\ Len(value) \in Nat /\ Len(value) >= 1 /\ Len(tokens) \in Nat /\ p < Len(tokens)
        /\ p + 1 \in 0 .. Len(tokens)
    BY DEF IsValue, ValueAt
  <1>2. /\ Modulus[o] \in Nat /\ Modulus[o] > 0 /\ Modulus[o] <= MaxLong /\ MaxLong \in Nat
        /\ Capacity[o] \in Nat
    BY ObjectConstants
  <1>3. m \in Nat /\ m <= Capacity[o] /\ Len(value) = m + 1
    BY <1>1 DEF Fits
  <1>4. /\ k \in 0 .. Capacity[o] /\ p + 1 + k <= Len(tokens)
        /\ \A j \in p + 1 .. p + 1 + k - 1 : Readable(tokens, j)
        /\ k = Capacity[o] \/ ~Readable(tokens, p + 1 + k)
    BY <1>1, RunIs
  <1>5. ASSUME NEW j \in 1 .. m
        PROVE  /\ tokens[p + j + 1] = value[j + 1] /\ p + j < Len(tokens)
               /\ value[j + 1].k = "prim" /\ value[j + 1].n < Modulus[o] /\ value[j + 1].n \in Nat
    <2>1. j + 1 \in 2 .. Len(value) /\ j + 1 \in 1 .. Len(value) /\ p + (j + 1) = p + j + 1
      BY <1>3
    <2>2. value[j + 1].k = "prim" /\ value[j + 1].n < Modulus[o]
      BY <2>1 DEF Fits
    <2>3. tokens[p + (j + 1)] = value[j + 1] /\ p + Len(value) <= Len(tokens)
      BY <2>1 DEF ValueAt
    <2>4. value[j + 1] \in TokenSet
      BY <2>1
    <2>5. value[j + 1].n \in Nat
      BY <2>4 DEF TokenSet
    <2> QED
      BY <1>1, <1>3, <2>1, <2>2, <2>3, <2>5
  <1> HIDE DEF m, k
  <1>6. ASSUME NEW j \in 1 .. m PROVE Readable(tokens, p + j)
    BY <1>2, <1>5, SMTT(30) DEF Readable
  <1>7. k = m
    <2>1. CASE k < m
      <3>1. k + 1 \in 1 .. m /\ p + (k + 1) = p + 1 + k
        BY <1>3, <1>4, <2>1
      <3>2. Readable(tokens, p + (k + 1))
        BY <1>6, <3>1
      <3> QED
        BY <1>3, <1>4, <2>1, <3>1, <3>2
    <2>2. CASE k > m
      <3>1. m < Capacity[o]
        BY <1>2, <1>3, <1>4, <2>2
      <3>2. p + Len(value) = Len(tokens)
        BY <3>1, <1>3 DEF NothingBehind, m
      <3> QED
        BY <1>1, <1>3, <1>4, <2>2, <3>2
    <2> QED
      BY <1>3, <1>4, <2>1, <2>2
  <1>8. ASSUME NEW j \in 1 .. m PROVE Narrow(o, p + j) = value[j + 1].n
    <2>1. p + j \in Nat /\ ~AtEnd(p + j) /\ tokens[(p + j) + 1] = value[j + 1]
      BY <1>1, <1>3, <1>5 DEF AtEnd
    <2>2. At(p + j, "prim")
      BY <1>5, <2>1 DEF At
    <2>3. Number(p + j) = value[j + 1].n
      BY <2>1, <2>2 DEF Number
    <2>4. ~OutOfRange(p + j)
      BY <1>2, <1>5, <2>3 DEF OutOfRange
    <2>5. \A n, b \in Nat : n < b => n % b = n
      OBVIOUS
    <2> QED
      BY <1>2, <1>5, <2>3, <2>4, <2>5 DEF Narrow
  <1> QED
    BY <1>5, <1>7, <1>8 DEF m, k

LEMMA ReadArray ==
    ASSUME tokens \in Seq(TokenSet), NEW o \in Objects, Type[o] = "array", Holds(o, data[o]),
           NEW value \in Seq(TokenSet), IsValue(value), NEW p \in Nat,
           ValueAt(p, value), Unmistakable(o, value), NothingBehind(o, p, value)
    PROVE  ReadRight(o, p, value, DecodeArray(o, p))
  <1>1. /\ Len(value) \in Nat /\ Len(value) >= 1 /\ Len(tokens) \in Nat /\ p < Len(tokens)
        /\ p + 1 \in 0 .. Len(tokens) /\ p + Len(value) <= Len(tokens)
    BY DEF IsValue, ValueAt
  <1>2. tokens[p + 1] = value[1]
    BY <1>1 DEF ValueAt
  <1>3. Capacity[o] \in Nat /\ Capacity[o] > 0
    BY ObjectConstants
  <1> DEFINE index == Elements(o, p + 1)
             next == p + 1 + index
             failed == index < Capacity[o] /\ Simple(next)
             count == IF failed THEN index + 1 ELSE index
             stored == [j \in 1 .. count |-> Narrow(o, p + j)]
             new == IF KeepsCount THEN Overwrite(data[o], stored) ELSE SubSeq(stored, 1, index)
             v == DecodeArray(o, p)
  <1>4. index = Run(tokens, o, p + 1)
    BY <1>1, ElementsIsRun
  <1>5. CASE ~At(p, "arr")
    <2>1. v = Result(FALSE, p, data[o])
      BY <1>5 DEF DecodeArray
    <2> QED
      BY <1>1, <2>1 DEF ReadRight, Result
  <1>6. ASSUME At(p, "arr")
        PROVE  /\ v.ok <=> index = Capacity[o] \/ AtEnd(next)
               /\ v.pos = next /\ v.value = new
    <2>1. v = Result(index = Capacity[o] \/ AtEnd(next), next, new)
      BY <1>6 DEF DecodeArray
    <2> HIDE DEF v, index, next, new
    <2>2. ASSUME NEW r, r = Result(index = Capacity[o] \/ AtEnd(next), next, new)
          PROVE  /\ r.ok <=> (index = Capacity[o] \/ AtEnd(next))
                 /\ r.pos = next /\ r.value = new
      BY <2>2 DEF Result
    <2> QED
      BY <2>1, <2>2, Zenon
  <1> HIDE DEF v
  <1>7. CASE At(p, "arr") /\ ~Fits(o, value)
    <2>1. value[1].k = "arr"
      BY <1>2, <1>7 DEF At
    <2>2. ~(\E k \in DOMAIN value : value[k].k \in {"prim", "str"})
      BY <1>7 DEF Unmistakable
    <2>3. Len(value) >= 2
      <3>1. CASE Len(value) = 1
        <4>1. \A k \in 2 .. Len(value) : FALSE
          BY <3>1
        <4>2. Len(value) - 1 <= Capacity[o]
          BY <1>3, <3>1
        <4> QED
          BY <1>7, <2>1, <4>1, <4>2 DEF Fits
      <3>2. \A n \in Nat : n >= 1 /\ n # 1 => n >= 2
        OBVIOUS
      <3> QED
        BY <1>1, <3>1, <3>2, Zenon
    <2>4. 2 \in DOMAIN value /\ tokens[p + 2] = value[2]
      BY <1>1, <2>3 DEF ValueAt
    <2>5. ~Readable(tokens, p + 1)
      <3>1. p + 1 + 1 = p + 2
        OBVIOUS
      <3>2. ~(value[2].k \in {"prim", "str"})
        BY <2>2, <2>4
      <3> QED
        BY <2>4, <3>1, <3>2 DEF Readable
    <2>6. index = 0
      <3>1. /\ Run(tokens, o, p + 1) \in 0 .. Capacity[o]
            /\ \A j \in p + 1 .. p + 1 + Run(tokens, o, p + 1) - 1 : Readable(tokens, j)
        BY <1>1, RunIs
      <3>2. Run(tokens, o, p + 1) # 0 => p + 1 \in p + 1 .. p + 1 + Run(tokens, o, p + 1) - 1
        BY <1>3, <3>1
      <3> QED
        BY <1>4, <2>5, <3>1, <3>2
    <2>7. ~AtEnd(next)
      BY <1>1, <2>3, <2>6 DEF AtEnd
    <2> HIDE DEF index, new
    <2> QED
      BY <1>1, <1>3, <1>6, <1>7, <2>3, <2>6, <2>7 DEF ReadRight, v
  <1>8. CASE At(p, "arr") /\ Fits(o, value)
    <2>1. /\ index = Len(value) - 1
          /\ \A j \in 1 .. Len(value) - 1 : Narrow(o, p + j) = value[j + 1].n
          /\ \A j \in 1 .. Len(value) - 1 : value[j + 1].n \in Nat
      BY <1>4, <1>8, RunOfArray
    <2>2. index <= Capacity[o]
      BY <1>8, <2>1 DEF Fits
    <2>3. next = p + Len(value)
      BY <1>1, <2>1
    <2> HIDE DEF index, next
    <2>4. index < Capacity[o] => AtEnd(next)
      BY <1>1, <2>1, <2>3 DEF NothingBehind, AtEnd
    <2>5. v.ok
      BY <1>1, <1>3, <1>6, <1>8, <2>1, <2>2, <2>4
    <2>6. ~failed
      BY <2>4 DEF Simple, At
    <2>7. count = Len(value) - 1
      BY <2>1, <2>6
    <2> HIDE DEF failed, count
    <2> DEFINE number(j) == Narrow(o, p + j)
    <2>8. stored = Numbers(value)
      <3>1. \A j \in 1 .. count : number(j) = value[j + 1].n
        BY <2>1, <2>7
      <3>2. stored = [j \in 1 .. Len(value) - 1 |-> number(j)]
        BY <2>7
      <3>3. Numbers(value) = [j \in 1 .. Len(value) - 1 |-> value[j + 1].n]
        BY DEF Numbers
      <3> HIDE DEF number, stored
      <3> QED
        BY <2>7, <3>1, <3>2, <3>3
    <2>9. Numbers(value) \in Seq(Nat) /\ Len(Numbers(value)) = Len(value) - 1
      <3>1. Numbers(value) \in [1 .. Len(value) - 1 -> Nat] /\ Len(value) - 1 \in Nat
        BY <1>1, <2>1 DEF Numbers
      <3> QED
        BY <3>1, FunctionIsSeq
    <2> HIDE DEF stored
    <2>10. (Type[o] = "array" /\ KeepsCount => Len(data[o]) = Len(value) - 1) => new = Numbers(value)
      <3>1. CASE ~KeepsCount
        <4>1. new = SubSeq(Numbers(value), 1, Len(Numbers(value)))
          BY <2>1, <2>8, <2>9, <3>1
        <4>2. \A s \in Seq(Nat) : SubSeq(s, 1, Len(s)) = s
          OBVIOUS
        <4> HIDE DEF new
        <4> QED
          BY <2>9, <4>1, <4>2
      <3>2. CASE KeepsCount /\ Len(data[o]) = Len(value) - 1
        <4>1. new = Overwrite(data[o], Numbers(value))
          BY <2>8, <3>2
        <4>2. DOMAIN data[o] = 1 .. Len(value) - 1
          BY <3>2 DEF Holds
        <4>3. DOMAIN Numbers(value) = 1 .. Len(value) - 1
          BY DEF Numbers
        <4>4. \A j \in 1 .. Len(value) - 1 : j <= Len(Numbers(value))
          BY <1>1, <2>9
        <4>5. Overwrite(data[o], Numbers(value)) = [j \in 1 .. Len(value) - 1 |-> Numbers(value)[j]]
          BY <4>2, <4>4 DEF Overwrite
        <4>6. Numbers(value) = [j \in 1 .. Len(value) - 1 |-> Numbers(value)[j]]
          BY DEF Numbers
        <4> HIDE DEF new
        <4> QED
          BY <4>1, <4>5, <4>6
      <3> QED
        BY <3>1, <3>2
    <2>11. Meaning(o, value) = Numbers(value)
      BY DEF Meaning
    <2> HIDE DEF new
    <2> QED
      BY <1>6, <1>8, <2>3, <2>5, <2>10, <2>11 DEF ReadRight, v
  <1> QED
    BY <1>5, <1>7, <1>8 DEF v

LEMMA ReadsRight ==
    ASSUME tokens \in Seq(TokenSet), NEW o \in Objects, Holds(o, data[o]),
           NEW value \in Seq(TokenSet), IsValue(value), NEW p \in Nat,
           ValueAt(p, value), Unmistakable(o, value), NothingBehind(o, p, value)
    PROVE  ReadRight(o, p, value, DeserializeValue(o, p))
  <1>1. Type[o] \in {"num", "str", "array"}
    BY ObjectConstants
  <1>2. CASE Type[o] = "num"
    BY <1>2, ReadNum DEF DeserializeValue
  <1>3. CASE Type[o] = "str"
    BY <1>3, ReadStr DEF DeserializeValue
  <1>4. CASE Type[o] = "array"
    BY <1>4, ReadArray DEF DeserializeValue
  <1> QED
    BY <1>1, <1>2, <1>3, <1>4

----------------------------------------------------------------------------
(***************************************************************************)
(* Where the items are among the tokens of the message.                    *)
(***************************************************************************)
ValuePlace(e, is, j) == IF e = "exec" THEN Ends(e, is, j - 1) ELSE Ends(e, is, j - 1) + 1

LEMMA ItemPlaces ==
    ASSUME NEW e, NEW is, IsMessage(is), NEW j \in 1 .. Len(is)
    PROVE  LET p == ValuePlace(e, is, j)
           IN  /\ p \in Nat /\ p + Len(is[j].value) = Ends(e, is, j)
               /\ Ends(e, is, j) <= Len(Tokens(e, is))
               /\ Ends(e, is, j - 1) < Ends(e, is, j)
               /\ \A k \in 1 .. Len(is[j].value) : Tokens(e, is)[p + k] = is[j].value[k]
               /\ e # "exec" => Tokens(e, is)[Ends(e, is, j - 1) + 1] = Key(is[j])
  <1> DEFINE toks == Tokens(e, is)
             before == Ends(e, is, j - 1)
             end == Ends(e, is, j)
             value == is[j].value
             part == Pair(e, is[j])
  <1>1. /\ before \in Nat /\ end \in Nat /\ end <= Len(toks)
        /\ end = before + Len(part)
        /\ \A k \in 1 .. Len(part) : toks[before + k] = part[k]
    <2>1. j \in 0 .. Len(is) /\ j - 1 \in 0 .. Len(is)
      BY DEF IsMessage
    <2>2. \A i \in 0 .. Len(is) : Ends(e, is, i) \in Nat /\ Ends(e, is, i) <= Len(Tokens(e, is))
      BY TokensPlaces, Zenon
    <2>3. /\ Ends(e, is, j) = Ends(e, is, j - 1) + Len(Pair(e, is[j]))
          /\ \A k \in 1 .. Len(Pair(e, is[j])) :
                Tokens(e, is)[Ends(e, is, j - 1) + k] = Pair(e, is[j])[k]
      <3>1. PairAt(e, is, j)
        BY TokensPlaces
      <3> QED
        BY <3>1, Zenon DEF PairAt
    <2> QED
      BY <2>1, <2>2, <2>3, Zenon
  <1>2. value \in Seq(TokenSet) /\ Len(part) \in Nat \ {0} /\ part \in Seq(TokenSet)
    BY PartsType
  <1> HIDE DEF toks, before, end
  <1>3. CASE e = "exec"
    <2>1. part = value /\ ValuePlace(e, is, j) = before
      BY <1>3 DEF Pair, ValuePlace, before
    <2> HIDE DEF part, value
    <2> QED
      BY <1>1, <1>2, <1>3, <2>1 DEF toks, before, end, value
  <1>4. CASE e # "exec"
    <2>1. part = <<Key(is[j])>> \o value /\ ValuePlace(e, is, j) = before + 1
      BY <1>4 DEF Pair, ValuePlace, before
    <2> DEFINE key == Key(is[j])
    <2> HIDE DEF part, value, key
    <2>2. \A x, s : s \in Seq(TokenSet) =>
             /\ Len(<<x>> \o s) = 1 + Len(s) /\ (<<x>> \o s)[1] = x /\ Len(s) \in Nat
             /\ \A k \in 1 .. Len(s) : (<<x>> \o s)[1 + k] = s[k]
      OBVIOUS
    <2>3. /\ Len(part) = 1 + Len(value) /\ part[1] = key /\ Len(value) \in Nat
          /\ \A k \in 1 .. Len(value) : part[1 + k] = value[k]
      BY <1>2, <2>1, <2>2 DEF key
    <2>4. toks[before + 1] = key
      BY <1>1, <2>3
    <2>5. ASSUME NEW k \in 1 .. Len(value) PROVE toks[before + 1 + k] = value[k]
      <3>1. 1 + k \in 1 .. Len(part) /\ before + (1 + k) = before + 1 + k
        BY <1>1, <2>3
      <3> QED
        BY <1>1, <2>3, <3>1
    <2>6. (before + 1) + Len(value) = end /\ before < end
      BY <1>1, <2>3
    <2> QED
      BY <1>1, <2>1, <2>4, <2>5, <2>6 DEF toks, before, end, value, key
  <1> QED
    BY <1>3, <1>4

LEMMA EndsAscend ==
    ASSUME NEW e, NEW is, IsMessage(is)
    PROVE  \A i, j \in 0 .. Len(is) : i < j => Ends(e, is, i) < Ends(e, is, j)
  <1> DEFINE n == Len(is)
             E(i) == Ends(e, is, i)
             Up(d) == \A i \in 0 .. n : i + (d + 1) <= n => E(i) < E(i + (d + 1))
             up == {d \in Nat : Up(d)}
  <1>1. n \in Nat /\ \A i \in 0 .. n : E(i) \in Nat
    <2>1. n \in Nat
      BY DEF IsMessage
    <2> QED
      BY <2>1, TokensPlaces
  <1>2. \A j \in 1 .. n : E(j - 1) < E(j)
    BY ItemPlaces, Zenon
  <1> HIDE DEF n, E
  <1>3. 0 \in up
    <2> SUFFICES ASSUME NEW i \in 0 .. n, i + 1 <= n PROVE E(i) < E(i + 1)
      OBVIOUS
    <2>1. i + 1 \in 1 .. n /\ (i + 1) - 1 = i
      BY <1>1
    <2> QED
      BY <1>2, <2>1
  <1>4. ASSUME NEW d \in Nat, Up(d) PROVE Up(d + 1)
    <2> SUFFICES ASSUME NEW i \in 0 .. n, i + ((d + 1) + 1) <= n
                 PROVE  E(i) < E(i + ((d + 1) + 1))
      OBVIOUS
    <2>1. /\ i + (d + 1) <= n /\ i + (d + 1) \in 0 .. n /\ i + ((d + 1) + 1) \in 0 .. n
          /\ i + ((d + 1) + 1) \in 1 .. n
          /\ (i + ((d + 1) + 1)) - 1 = i + (d + 1)
      BY <1>1
    <2>2. E(i) < E(i + (d + 1))
      BY <1>4, <2>1
    <2>3. E(i + (d + 1)) < E(i + ((d + 1) + 1))
      BY <1>2, <2>1
    <2> QED
      BY <1>1, <2>1, <2>2, <2>3
  <1>5. \A d \in Nat : d \in up
    <2>1. \A d \in Nat : d \in up => d + 1 \in up
      <3> HIDE DEF Up
      <3> QED
        BY <1>4
    <2> HIDE DEF up
    <2> QED
      BY <1>3, <2>1, NaturalInduction
  <1>6. ASSUME NEW i \in 0 .. n, NEW j \in 0 .. n, i < j PROVE E(i) < E(j)
    <2>1. (j - i) - 1 \in Nat /\ i + (((j - i) - 1) + 1) = j
      BY <1>1, <1>6
    <2>2. Up((j - i) - 1)
      BY <1>5, <2>1
    <2> QED
      BY <1>1, <2>1, <2>2
  <1> QED
    BY <1>6 DEF n, E

LEMMA EndOfItemIs ==
    ASSUME NEW e, NEW is, IsMessage(is), NEW j \in 0 .. Len(is)
    PROVE  EndOfItem(e, is, j) = Ends(e, is, j)
  <1> DEFINE parts == Parts(e, is)
             first == SubSeq(is, 1, j)
  <1>1. /\ is \in Seq(Item) /\ Len(is) \in Nat /\ first \in Seq(Item) /\ Len(first) = j
        /\ \A i \in 1 .. j : first[i] = is[i]
    <2>1. is \in Seq(Item)
      BY DEF IsMessage
    <2> QED
      BY <2>1
  <1>2. /\ parts \in Seq(Seq(TokenSet)) /\ Len(parts) = Len(is)
        /\ \A i \in 1 .. Len(is) : parts[i] = Pair(e, is[i])
    BY PartsType
  <1>3. Parts(e, first) = SubSeq(parts, 1, j)
    <2> DEFINE part(i) == Pair(e, is[i])
    <2>1. Parts(e, first) = [i \in 1 .. j |-> part(i)]
      BY <1>1 DEF Parts
    <2>2. \A i \in 1 .. j : part(i) = parts[i]
      BY <1>1, <1>2
    <2> HIDE DEF part, parts
    <2>3. SubSeq(parts, 1, j) = [i \in 1 .. j |-> parts[i]]
      BY <1>1, <1>2
    <2> QED
      BY <2>1, <2>2, <2>3
  <1>4. FlattenSeq(SubSeq(parts, 1, j)) \in Seq(TokenSet)
    <2>1. j \in 0 .. Len(parts)
      BY <1>2
    <2> HIDE DEF parts
    <2> QED
      BY <1>2, <2>1, FlattenSteps
  <1>5. Tokens(e, first) = <<Root(e, first)>> \o FlattenSeq(SubSeq(parts, 1, j))
    BY <1>3, Zenon DEF Tokens, Parts
  <1>6. \A x, s : s \in Seq(TokenSet) => Len(<<x>> \o s) = 1 + Len(s)
    OBVIOUS
  <1> HIDE DEF first, parts
  <1>7. Len(Tokens(e, first)) = 1 + Len(FlattenSeq(SubSeq(parts, 1, j)))
    BY <1>4, <1>5, <1>6
  <1> QED
    BY <1>7, Zenon DEF EndOfItem, Ends, Before, first, parts

(* How many items have been dealt with is how many end at or before        *)
(* tok_pos.                                                                *)
DealtAt(e, is, p) == Max({0} \cup {i \in DOMAIN is : EndOfItem(e, is, i) <= p})

LEMMA DealtIs ==
    ASSUME NEW e, NEW is, IsMessage(is), NEW p \in Nat, NEW j \in 0 .. Len(is),
           j = 0 \/ Ends(e, is, j) <= p,
           j < Len(is) => p < Ends(e, is, j + 1)
    PROVE  DealtAt(e, is, p) = j
  <1> DEFINE n == Len(is)
             E(i) == Ends(e, is, i)
             over == {0} \cup {i \in DOMAIN is : EndOfItem(e, is, i) <= p}
  <1>1. n \in Nat /\ DOMAIN is = 1 .. n /\ \A i \in 0 .. n : E(i) \in Nat
    <2>1. n \in Nat /\ DOMAIN is = 1 .. n
      BY DEF IsMessage
    <2> QED
      BY <2>1, TokensPlaces
  <1>2. \A i \in 1 .. n : EndOfItem(e, is, i) = E(i)
    BY <1>1, EndOfItemIs
  <1>3. \A i, k \in 0 .. n : i < k => E(i) < E(k)
    BY EndsAscend
  <1> HIDE DEF n, E
  <1>4. j \in over
    BY <1>1, <1>2 DEF n, E
  <1>5. ASSUME NEW i \in over PROVE i <= j
    <2> SUFFICES ASSUME i > j PROVE FALSE
      BY <1>1 DEF n
    <2>1. i \in 1 .. n /\ E(i) <= p
      BY <1>1, <1>2
    <2>2. j < Len(is) /\ j + 1 \in 0 .. n /\ i \in 0 .. n /\ j + 1 <= i
      BY <1>1, <2>1 DEF n
    <2>3. p < E(j + 1)
      BY <2>2 DEF E
    <2>4. E(j + 1) <= E(i)
      BY <1>1, <1>3, <2>2
    <2> QED
      BY <1>1, <2>1, <2>2, <2>3, <2>4
  <1>6. over \subseteq Nat /\ \A i \in over : i <= j
    BY <1>1, <1>5
  <1>7. DealtAt(e, is, p) = Max(over)
    BY DEF DealtAt
  <1> HIDE DEF over
  <1>8. Max(over) \in over /\ \A i \in over : i <= Max(over)
    BY <1>4, <1>6, Greatest
  <1>9. Max(over) <= j /\ j <= Max(over) /\ Max(over) \in Nat
    BY <1>4, <1>6, <1>8
  <1> QED
    BY <1>7, <1>9

----------------------------------------------------------------------------
(***************************************************************************)
(* Messages that are regular: the tokens of the item at tok_pos are taken  *)
(* for what they are.                                                      *)
(***************************************************************************)
LEMMA ItemIsRead ==
    ASSUME TypeOK, IsMessage(items), tokens = Tokens(entry, items), Regular,
           NEW j \in 1 .. Len(items), Target(j) \in Objects
    PROVE  ReadRight(Target(j), ValuePlace(entry, items, j), items[j].value,
                     DeserializeValue(Target(j), ValuePlace(entry, items, j)))
  <1> DEFINE o == Target(j)
             value == items[j].value
             p == ValuePlace(entry, items, j)
  <1>1. /\ tokens \in Seq(TokenSet) /\ \A x \in Objects : Holds(x, data[x])
    BY Zenon DEF TypeOK
  <1>2. value \in Seq(TokenSet) /\ IsValue(value) /\ Len(items) \in Nat /\ DOMAIN items = 1 .. Len(items)
    <2>1. value \in Seq(TokenSet)
      BY PartsType
    <2>2. items \in Seq(Item) /\ IsValue(value)
      BY Zenon DEF IsMessage
    <2> QED
      BY <2>1, <2>2
  <1>3. /\ p \in Nat /\ p + Len(value) = Ends(entry, items, j)
        /\ Ends(entry, items, j) <= Len(tokens)
        /\ \A k \in 1 .. Len(value) : tokens[p + k] = value[k]
    BY ItemPlaces
  <1>4. Clear(j)
    BY <1>2 DEF Regular
  <1>5. /\ Type[o] # "str" => Fits(o, value) \/ ~(\E k \in DOMAIN value : value[k].k \in {"prim", "str"})
        /\ Type[o] = "array" /\ Len(value) - 1 < Capacity[o] => j = Len(items)
    BY <1>4, Zenon DEF Clear
  <1>6. Ends(entry, items, Len(items)) = Len(tokens)
    BY TokensPlaces
  <1> HIDE DEF o, value, p
  <1>7. ValueAt(p, value) /\ Unmistakable(o, value) /\ NothingBehind(o, p, value)
    BY <1>3, <1>5, <1>6 DEF ValueAt, Unmistakable, NothingBehind
  <1>8. o \in Objects
    BY DEF o
  <1>9. ReadRight(o, p, value, DeserializeValue(o, p))
    BY <1>1, <1>2, <1>3, <1>7, <1>8, ReadsRight
  <1> QED
    BY <1>9 DEF o, value, p

(* At the end of an item the next one begins with its name. *)
LEMMA AtItem ==
    ASSUME TypeOK, IsMessage(items), tokens = Tokens(entry, items), entry # "exec",
           NEW j \in 0 .. Len(items), pos = Ends(entry, items, j), ~AtEnd(pos)
    PROVE  /\ j + 1 \in 1 .. Len(items) /\ At(pos, "str")
           /\ Named = Target(j + 1) /\ Target(j + 1) = items[j + 1].id
           /\ ValuePlace(entry, items, j + 1) = pos + 1
  <1>1. Len(items) \in Nat
    BY DEF IsMessage
  <1>2. tokens \in Seq(TokenSet)
    BY Zenon DEF TypeOK
  <1>3. Ends(entry, items, Len(items)) = Len(tokens) /\ Len(tokens) \in Nat
    BY <1>2, TokensPlaces
  <1>4. j # Len(items)
    BY <1>3 DEF AtEnd
  <1>5. j + 1 \in 1 .. Len(items) /\ (j + 1) - 1 = j
    BY <1>1, <1>4
  <1>6. Tokens(entry, items)[Ends(entry, items, (j + 1) - 1) + 1] = Key(items[j + 1])
    BY <1>5, ItemPlaces
  <1>7. tokens[pos + 1] = Key(items[j + 1])
    BY <1>5, <1>6, Zenon
  <1>8. tokens[pos + 1].k = "str" /\ tokens[pos + 1].s = items[j + 1].id
    BY <1>7 DEF Key, Token
  <1>9. Target(j + 1) = items[j + 1].id
    BY DEF Target
  <1>10. ValuePlace(entry, items, j + 1) = pos + 1
    BY <1>5 DEF ValuePlace
  <1> QED
    BY <1>5, <1>8, <1>9, <1>10 DEF At, Named

----------------------------------------------------------------------------
(***************************************************************************)
(* What has been done of a regular message when its first j items have     *)
(* been dealt with.                                                        *)
(***************************************************************************)
AllFit(j) == \A i \in 1 .. j : Target(i) \in Objects /\ Fits(Target(i), items[i].value)
Written(j) ==
    \A o \in Objects :
        Naming(o, j) # {} => data[o] = Meaning(o, items[Max(Naming(o, j))].value)
Untouched(j) == \A o \in Objects : Naming(o, j) = {} => data[o] = InitData[o]

LEMMA NamingNext ==
    ASSUME NEW o, NEW j \in Nat
    PROVE  /\ Naming(o, 0) = {}
           /\ Target(j + 1) = o => /\ Naming(o, j + 1) # {}
                                   /\ Max(Naming(o, j + 1)) = j + 1
           /\ Target(j + 1) # o => Naming(o, j + 1) = Naming(o, j)
           /\ \A k \in Nat : k >= j + 1 /\ Target(j + 1) = o => Naming(o, k) # {}
  <1>1. Naming(o, 0) = {}
    BY DEF Naming
  <1>2. ASSUME Target(j + 1) = o
        PROVE  Naming(o, j + 1) # {} /\ Max(Naming(o, j + 1)) = j + 1
    <2>1. /\ Naming(o, j + 1) \subseteq Nat /\ j + 1 \in Naming(o, j + 1)
          /\ \A i \in Naming(o, j + 1) : i <= j + 1
      BY <1>2 DEF Naming
    <2>2. Max(Naming(o, j + 1)) \in Naming(o, j + 1) /\ \A i \in Naming(o, j + 1) : i <= Max(Naming(o, j + 1))
      BY <2>1, Greatest
    <2>3. Max(Naming(o, j + 1)) \in Nat /\ j + 1 <= Max(Naming(o, j + 1)) /\ Max(Naming(o, j + 1)) <= j + 1
      BY <2>1, <2>2
    <2> QED
      BY <2>1, <2>3
  <1>3. ASSUME Target(j + 1) # o PROVE Naming(o, j + 1) = Naming(o, j)
    <2>1. \A i \in 1 .. j + 1 : i \in 1 .. j \/ i = j + 1
      OBVIOUS
    <2>2. \A i \in 1 .. j : i \in 1 .. j + 1
      OBVIOUS
    <2> QED
      BY <1>3, <2>1, <2>2 DEF Naming
  <1>4. ASSUME NEW k \in Nat, k >= j + 1, Target(j + 1) = o PROVE j + 1 \in Naming(o, k)
    BY <1>4 DEF Naming
  <1> QED
    BY <1>1, <1>2, <1>3, <1>4

(* These are about the message, which no step changes. *)
LEMMA SameMessage ==
    ASSUME UNCHANGED <<entry, items, parses>>
    PROVE  /\ \A j : Target(j)' = Target(j)
           /\ \A o, j : Naming(o, j)' = Naming(o, j)
           /\ \A j : AllFit(j)' <=> AllFit(j)
           /\ Regular' <=> Regular
  <1>1. \A j : Target(j)' = Target(j)
    BY DEF Target
  <1>2. ASSUME NEW o, NEW j PROVE Naming(o, j)' = Naming(o, j)
    <2>1. {i \in 1 .. j : Target(i)' = o} = {i \in 1 .. j : Target(i) = o}
      BY <1>1
    <2> QED
      BY <2>1 DEF Naming
  <1>3. ASSUME NEW j PROVE AllFit(j)' <=> AllFit(j)
    BY <1>1, Zenon DEF AllFit
  <1>4. \A j : Clear(j)' <=> Clear(j)
    BY <1>1 DEF Clear
  <1>5. Regular' <=> Regular
    BY <1>4 DEF Regular
  <1> QED
    BY <1>1, <1>2, <1>3, <1>5

(* A number of elements that cannot change in a record has not changed.    *)
LEMMA CountKept ==
    ASSUME IsMessage(items), Regular, entry = "record", NEW j \in 0 .. Len(items),
           Written(j), Untouched(j), NEW i \in 1 .. Len(items),
           Target(i) \in Objects, Type[Target(i)] = "array"
    PROVE  Len(data[Target(i)]) = Len(items[i].value) - 1
  <1> DEFINE o == Target(i)
  <1>1. Len(items) \in Nat /\ DOMAIN items = 1 .. Len(items)
    BY DEF IsMessage
  <1>2. \A k \in 1 .. Len(items) : Target(k) = o => Len(items[k].value) - 1 = Len(InitData[o])
    <2> SUFFICES ASSUME NEW k \in 1 .. Len(items), Target(k) = o
                 PROVE  Len(items[k].value) - 1 = Len(InitData[o])
      OBVIOUS
    <2>1. Clear(k)
      BY <1>1 DEF Regular
    <2> QED
      BY <2>1 DEF Clear
  <1>3. Len(items[i].value) - 1 = Len(InitData[o])
    BY <1>2
  <1>4. CASE Naming(o, j) = {}
    BY <1>3, <1>4 DEF Untouched
  <1>5. CASE Naming(o, j) # {}
    <2> DEFINE m == Max(Naming(o, j))
    <2>1. Naming(o, j) \subseteq Nat /\ (\A k \in Naming(o, j) : k <= j) /\ j \in Nat
      BY <1>1 DEF Naming
    <2>2. m \in Naming(o, j)
      BY <1>5, <2>1, MaxOfNaturals
    <2>3. m \in 1 .. Len(items) /\ Target(m) = o
      BY <1>1, <2>2 DEF Naming
    <2>4. data[o] = Meaning(o, items[m].value)
      BY <1>5 DEF Written
    <2> HIDE DEF m
    <2>5. data[o] = Numbers(items[m].value)
      BY <2>4 DEF Meaning
    <2>6. Len(items[m].value) \in Nat /\ Len(items[m].value) >= 1
      <3>1. items[m].value \in Seq(TokenSet) /\ items[m].value # <<>>
        BY <2>3, PartsType
      <3> QED
        BY <3>1
    <2> DEFINE value == items[m].value
               number(k) == value[k + 1].n
    <2>7. Len(Numbers(value)) = Len(value) - 1
      <3>1. Numbers(value) = [k \in 1 .. Len(value) - 1 |-> number(k)]
        BY DEF Numbers
      <3> HIDE DEF number, value
      <3>2. Len(value) - 1 \in Nat
        BY <2>6 DEF value
      <3>3. \A n \in Nat : Len([k \in 1 .. n |-> number(k)]) = n
        OBVIOUS
      <3> QED
        BY <3>1, <3>2, <3>3
    <2> QED
      BY <1>2, <1>3, <2>3, <2>5, <2>7
  <1> QED
    BY <1>4, <1>5

(* The item behind the first j is read and stored. *)
LEMMA TakeItem ==
    ASSUME TypeOK, IsMessage(items), tokens = Tokens(entry, items), Regular,
           NEW j \in 0 .. Len(items), j + 1 \in 1 .. Len(items), Target(j + 1) \in Objects,
           AllFit(j), Written(j),
           NEW v, v = DeserializeValue(Target(j + 1), ValuePlace(entry, items, j + 1)), v.ok,
           KeepsCount => entry = "record" /\ Untouched(j),
           UNCHANGED <<entry, items, parses>>, Store(Target(j + 1), v.value)
    PROVE  /\ v.pos = Ends(entry, items, j + 1)
           /\ v.value = Meaning(Target(j + 1), items[j + 1].value)
           /\ AllFit(j + 1)' /\ Written(j + 1)'
           /\ Untouched(j) => Untouched(j + 1)'
           /\ Untouched(Len(items)) => Untouched(Len(items))'
  <1> DEFINE o == Target(j + 1)
             p == ValuePlace(entry, items, j + 1)
             value == items[j + 1].value
  <1>0. Len(items) \in Nat /\ j \in Nat
    BY DEF IsMessage
  <1>1. ReadRight(o, p, value, v)
    BY ItemIsRead
  <1>2. Type[o] = "array" /\ KeepsCount => Len(data[o]) = Len(value) - 1
    BY CountKept
  <1>3. /\ Fits(o, value) /\ v.pos = p + Len(value)
        /\ v.value = Meaning(o, value)
    BY <1>1, <1>2, Zenon DEF ReadRight
  <1>4. p + Len(value) = Ends(entry, items, j + 1)
    BY ItemPlaces
  <1>5. /\ \A x, k : Naming(x, k)' = Naming(x, k)
        /\ \A k : AllFit(k)' <=> AllFit(k)
    BY SameMessage
  <1>6. AllFit(j + 1)'
    <2>1. \A i \in 1 .. j + 1 : i \in 1 .. j \/ i = j + 1
      BY <1>0
    <2>2. AllFit(j + 1)
      BY <1>3, <2>1 DEF AllFit
    <2> QED
      BY <1>5, <2>2
  <1>7. data'[o] = v.value /\ \A x \in Objects \ {o} : data'[x] = data[x]
    <2>1. data \in [Objects -> Seq(Nat)]
      BY Zenon DEF TypeOK
    <2> QED
      BY <2>1 DEF Store
  <1>8. \A x \in Objects : /\ x = o => Naming(x, j + 1) # {} /\ Max(Naming(x, j + 1)) = j + 1
                           /\ x # o => Naming(x, j + 1) = Naming(x, j)
                           /\ x = o => Naming(x, Len(items)) # {}
    <2> SUFFICES ASSUME NEW x \in Objects
                 PROVE  /\ x = o => Naming(x, j + 1) # {} /\ Max(Naming(x, j + 1)) = j + 1
                        /\ x # o => Naming(x, j + 1) = Naming(x, j)
                        /\ x = o => Naming(x, Len(items)) # {}
      OBVIOUS
    <2>1. Len(items) >= j + 1
      BY <1>0
    <2>2. /\ Target(j + 1) = x => Naming(x, j + 1) # {} /\ Max(Naming(x, j + 1)) = j + 1
          /\ Target(j + 1) # x => Naming(x, j + 1) = Naming(x, j)
      BY <1>0, NamingNext, Zenon
    <2>3. Target(j + 1) = x => Naming(x, Len(items)) # {}
      BY <1>0, <2>1, NamingNext, Zenon
    <2> QED
      BY <2>2, <2>3
  <1> HIDE DEF o, p, value
  <1>9. Written(j + 1)'
    <2> SUFFICES ASSUME NEW x \in Objects, Naming(x, j + 1) # {}
                 PROVE  data'[x] = Meaning(x, items[Max(Naming(x, j + 1))].value)
      <3>1. \A x, y : Meaning(x, y)' = Meaning(x, y)
        BY DEF Meaning, Numbers
      <3> QED
        BY <1>5 DEF Written
    <2>1. CASE x = o
      BY <1>3, <1>7, <1>8, <2>1 DEF value
    <2>2. CASE x # o
      BY <1>7, <1>8, <2>2 DEF Written
    <2> QED
      BY <2>1, <2>2
  <1>10. Untouched(j) => Untouched(j + 1)'
    BY <1>5, <1>7, <1>8 DEF Untouched
  <1>11. Untouched(Len(items)) => Untouched(Len(items))'
    BY <1>5, <1>7, <1>8 DEF Untouched
  <1> QED
    BY <1>3, <1>4, <1>6, <1>9, <1>10, <1>11 DEF o, value

(***************************************************************************)
(* The inductive invariant behind SuccessIsComplete: while the tokens of a *)
(* regular message are moved over, tok_pos is at the end of an item, and   *)
(* the items before it are what has been written.                          *)
(***************************************************************************)
Progress(j) ==
    /\ pos = Ends(entry, items, j)
    /\ pc = "params" => param = j
    /\ pc # "check" => AllFit(j) /\ Written(j)
    /\ Untouched(IF entry = "update" THEN Len(items) ELSE j)

RegularInv ==
    Regular =>
        /\ pc = "parse" /\ entry = "record" => tokens = <<>>
        /\ pc = "start" => tokens = Tokens(entry, items) \/ (entry = "record" /\ tokens = <<>>)
        /\ pc \in {"check", "write", "params", "record"} =>
              /\ tokens = Tokens(entry, items)
              /\ \E j \in 0 .. Len(items) : Progress(j)
        /\ status = "ok" => AllFit(Len(items)) /\ data = Applied

(* The first item is still to come. *)
LEMMA AtFirst ==
    ASSUME IsMessage(items), data = InitData
    PROVE  /\ 0 \in 0 .. Len(items) /\ Ends(entry, items, 0) = 1
           /\ AllFit(0) /\ Written(0) /\ \A j : Untouched(j)
  <1>1. Len(items) \in Nat
    BY DEF IsMessage
  <1>2. \A o : Naming(o, 0) = {}
    BY DEF Naming
  <1> QED
    BY <1>1, <1>2, TokensPlaces DEF AllFit, Written, Untouched

LEMMA ParseRegular ==
    ASSUME TextInv, RegularInv, Parse PROVE RegularInv'
  <1>1. /\ UNCHANGED <<entry, items, parses, data>>
        /\ pc = "parse" /\ status' \in {status, "error"}
        /\ pc' \in {"start", "done"} /\ status # "ok"
    <2>1. Control
      BY DEF TextInv
    <2> QED
      BY <2>1 DEF Parse, message, Answer, Control
  <1>2. Regular' <=> Regular
    BY <1>1, SameMessage
  <1>3. ASSUME Regular
        PROVE  pc' = "start" => tokens' = Tokens(entry, items) \/ (entry = "record" /\ tokens' = <<>>)
    <2>1. CASE entry = "record"
      <3>1. tokens = <<>>
        BY <1>1, <1>3, <2>1 DEF RegularInv
      <3>2. \A n : Fresh(n) = <<>>
        BY <3>1 DEF Fresh
      <3>3. tokens' = Tokens(entry, items) \/ \E n : tokens' = Fresh(n)
        BY <2>1 DEF Parse
      <3> QED
        BY <2>1, <3>2, <3>3
    <2>2. CASE entry # "record"
      BY <2>2 DEF Parse, Answer
    <2> QED
      BY <2>1, <2>2
  <1>4. Tokens(entry, items)' = Tokens(entry, items)
    BY <1>1
  <1> QED
    BY <1>1, <1>2, <1>3, <1>4 DEF RegularInv

LEMMA StartRegular ==
    ASSUME TextInv, RegularInv, MapStart \/ ListStart PROVE RegularInv'
  <1>1. /\ UNCHANGED <<entry, items, parses, tokens, param, data>>
        /\ pc = "start" /\ status' \in {status, "error"} /\ status # "ok"
        /\ pc' \in {"check", "record", "params", "done"}
        /\ pc' \in {"check", "record"} => At(0, "obj") /\ pos' = 1 /\ entry # "exec"
        /\ pc' = "params" => entry = "exec" /\ pos' = Min({1, Len(tokens)})
    <2>1. Control
      BY DEF TextInv
    <2>2. pc = "start" /\ status # "ok"
      BY <2>1 DEF Control, MapStart, ListStart
    <2>3. UNCHANGED <<entry, items, parses, tokens, param, data>>
      BY Zenon DEF MapStart, ListStart, message
    <2>4. CASE MapStart
      BY <2>2, <2>3, <2>4 DEF MapStart, Answer
    <2>5. CASE ListStart
      BY <2>2, <2>3, <2>5 DEF ListStart, Answer
    <2> QED
      BY <2>4, <2>5
  <1>2. IsMessage(items) /\ data = InitData /\ param = 0
    BY <1>1, MessagesAre DEF TextInv, Control
  <1>3. Regular' <=> Regular
    BY <1>1, SameMessage
  <1>4. /\ 0 \in 0 .. Len(items) /\ Ends(entry, items, 0) = 1
        /\ AllFit(0)' /\ Written(0)' /\ \A j : Untouched(j)'
    <2>1. IsMessage(items') /\ data' = InitData
      BY <1>1, <1>2
    <2>2. AllFit(0)' /\ Written(0)' /\ \A j : Untouched(j)'
      <3>1. \A o : Naming(o, 0)' = {}
        BY DEF Naming
      <3> QED
        BY <1>1, <1>2, <3>1 DEF AllFit, Written, Untouched
    <2> QED
      BY <1>2, <2>2, AtFirst
  <1>5. ASSUME Regular, pc' \in {"check", "params", "record"}
        PROVE  tokens = Tokens(entry, items) /\ pos' = 1
    <2>1. tokens = Tokens(entry, items) \/ (entry = "record" /\ tokens = <<>>)
      BY <1>1, <1>5 DEF RegularInv
    <2>2. tokens = Tokens(entry, items)
      BY <1>1, <1>5, <2>1 DEF At, AtEnd
    <2>3. Len(tokens) \in Nat /\ Len(tokens) >= 1
      <3>1. /\ Tokens(entry, items) \in Seq(TokenSet) /\ Ends(entry, items, 0) = 1
            /\ Ends(entry, items, 0) <= Len(Tokens(entry, items))
        BY <1>2, <1>4, TokensPlaces
      <3> QED
        BY <2>2, <3>1
    <2>4. Min({1, Len(tokens)}) = 1
      <3>1. {1, Len(tokens)} \subseteq Nat /\ {1, Len(tokens)} # {}
        BY <2>3
      <3>2. Min({1, Len(tokens)}) \in {1, Len(tokens)} /\ Min({1, Len(tokens)}) <= 1
        BY <3>1, MinOfNaturals
      <3> QED
        BY <2>3, <3>2
    <2> QED
      BY <1>1, <1>5, <2>2, <2>4
  <1>6. ASSUME Regular, pc' \in {"check", "params", "record"}
        PROVE  Progress(0)'
    <2>1. Ends(entry, items, 0)' = 1
      BY <1>1, <1>4
    <2> QED
      BY <1>1, <1>2, <1>4, <1>5, <1>6, <2>1, Zenon DEF Progress
  <1>7. (0 .. Len(items))' = 0 .. Len(items) /\ Tokens(entry, items)' = Tokens(entry, items)
    BY <1>1
  <1> QED
    BY <1>1, <1>3, <1>4, <1>5, <1>6, <1>7 DEF RegularInv

LEMMA CheckItemRegular ==
    ASSUME TextInv, RegularInv, CheckItem PROVE RegularInv'
  <1>0. TypeOK /\ Control /\ IsMessage(items)
    BY MessagesAre DEF TextInv, Control
  <1>1. /\ UNCHANGED <<entry, items, parses, tokens, param>> /\ ~AtEnd(pos)
        /\ pc = "check" /\ entry = "update" /\ status = "none"
        /\ pc' \in {"check", "done"} /\ status' \in {"none", "error"}
        /\ pc' = "check" => /\ Known /\ Value.ok /\ pos' = Value.pos
                            /\ CheckStore(Named, Value.value)
    <2>1. /\ UNCHANGED <<entry, items, parses, tokens, param>> /\ ~AtEnd(pos)
          /\ pc = "check" /\ entry = "update" /\ status = "none"
      BY <1>0, Zenon DEF CheckItem, message, Control
    <2> QED
      BY <2>1 DEF CheckItem, Answer
  <1>2. Regular' <=> Regular
    BY <1>1, SameMessage
  <1>3. ASSUME Regular, pc' = "check"
        PROVE  \E j \in 0 .. Len(items) : Progress(j)'
    <2>1. tokens = Tokens(entry, items)
      BY <1>1, <1>3 DEF RegularInv
    <2>2. PICK j \in 0 .. Len(items) : Progress(j)
      BY <1>1, <1>3 DEF RegularInv
    <2>3. pos = Ends(entry, items, j) /\ Untouched(Len(items))
      BY <1>1, <2>2 DEF Progress
    <2>4. /\ j + 1 \in 1 .. Len(items) /\ Named = Target(j + 1)
          /\ ValuePlace(entry, items, j + 1) = pos + 1
      BY <1>0, <1>1, <2>1, <2>3, AtItem
    <2>5. Named \in Objects
      BY <1>1, <1>3 DEF Known
    <2>6. ReadRight(Named, pos + 1, items[j + 1].value, Value)
      BY <1>0, <1>3, <2>1, <2>4, <2>5, ItemIsRead, Zenon DEF Value
    <2>7. Value.pos = Ends(entry, items, j + 1)
      <3>1. (pos + 1) + Len(items[j + 1].value) = Ends(entry, items, j + 1)
        <4>1. IsMessage(items) /\ j + 1 \in 1 .. Len(items)
          BY <1>0, <2>4
        <4>2. ValuePlace(entry, items, j + 1) + Len(items[j + 1].value) = Ends(entry, items, j + 1)
          BY <4>1, ItemPlaces
        <4> QED
          BY <2>4, <4>2, Zenon
      <3> QED
        BY <1>1, <1>3, <2>6, <3>1, Zenon DEF ReadRight
    <2>8. Untouched(Len(items))'
      <3>1. \A x \in Objects \ {Named} : data'[x] = data[x]
        <4>1. data \in [Objects -> Seq(Nat)]
          BY <1>0, Zenon DEF TypeOK
        <4> QED
          BY <1>1, <1>3, <4>1 DEF CheckStore, Store
      <3>2. Naming(Named, Len(items)) # {}
        <4>1. j \in Nat /\ Len(items) \in Nat /\ Len(items) >= j + 1
          BY <1>0, <2>4 DEF IsMessage
        <4> QED
          BY <2>4, <4>1, NamingNext, Zenon
      <3>3. \A x, k : Naming(x, k)' = Naming(x, k)
        BY <1>1, SameMessage
      <3>4. \A x \in Objects : Naming(x, Len(items)) = {} => data'[x] = InitData[x]
        BY <2>3, <3>1, <3>2 DEF Untouched
      <3> QED
        BY <1>1, <3>3, <3>4 DEF Untouched
    <2>9. Ends(entry, items, j + 1)' = Ends(entry, items, j + 1)
      BY <1>1
    <2>10. Progress(j + 1)'
      BY <1>1, <1>3, <2>7, <2>8, <2>9 DEF Progress
    <2>11. j + 1 \in 0 .. Len(items)
      BY <2>4
    <2> QED
      BY <2>10, <2>11
  <1>4. (0 .. Len(items))' = 0 .. Len(items) /\ Tokens(entry, items)' = Tokens(entry, items)
    BY <1>1
  <1> QED
    BY <1>1, <1>2, <1>3, <1>4 DEF RegularInv

LEMMA CheckDoneRegular ==
    ASSUME TextInv, RegularInv, CheckDone PROVE RegularInv'
  <1>0. Control /\ IsMessage(items)
    BY MessagesAre DEF TextInv, Control
  <1>1. /\ UNCHANGED <<entry, items, parses, tokens, param, data, status>>
        /\ pc = "check" /\ pc' = "write" /\ pos' = 1 /\ entry = "update" /\ status = "none"
    BY <1>0, Zenon DEF CheckDone, message, Control
  <1>2. Regular' <=> Regular
    BY <1>1, SameMessage
  <1>3. ASSUME Regular PROVE Progress(0)' /\ 0 \in 0 .. Len(items)
    <2>1. Untouched(Len(items))
      BY <1>1, <1>3 DEF RegularInv, Progress
    <2>2. Untouched(Len(items))'
      <3>1. \A x, k : Naming(x, k)' = Naming(x, k)
        BY <1>1, SameMessage
      <3> QED
        BY <1>1, <2>1, <3>1 DEF Untouched
    <2>3. AllFit(0)' /\ Written(0)'
      <3>1. \A o : Naming(o, 0)' = {}
        BY DEF Naming
      <3> QED
        BY <3>1 DEF AllFit, Written
    <2>4. Ends(entry, items, 0) = 1 /\ Len(items) \in Nat
      BY <1>0, TokensPlaces DEF IsMessage
    <2>5. Ends(entry, items, 0)' = 1
      BY <1>1, <2>4
    <2> QED
      BY <1>1, <2>2, <2>3, <2>4, <2>5 DEF Progress
  <1>4. (0 .. Len(items))' = 0 .. Len(items) /\ Tokens(entry, items)' = Tokens(entry, items)
    BY <1>1
  <1> QED
    BY <1>1, <1>2, <1>3, <1>4 DEF RegularInv

LEMMA WriteItemRegular ==
    ASSUME TextInv, RegularInv, WriteItem PROVE RegularInv'
  <1>0. TypeOK /\ Control /\ IsMessage(items)
    BY MessagesAre DEF TextInv, Control
  <1>1. /\ UNCHANGED <<entry, items, parses, tokens, param>>
        /\ pc = "write" /\ entry = "update" /\ status = "none" /\ ~AtEnd(pos)
    BY <1>0, Zenon DEF WriteItem, message, Control
  <1>2. Known /\ Value.ok
    BY <1>1, WriteReads
  <1>3. Store(Named, Value.value) /\ pos' = Value.pos /\ UNCHANGED <<pc, status>>
    BY <1>2 DEF WriteItem, Value
  <1>4. Regular' <=> Regular
    BY <1>1, SameMessage
  <1>5. ASSUME Regular
        PROVE  \E j \in 0 .. Len(items) : Progress(j)'
    <2>1. tokens = Tokens(entry, items)
      BY <1>1, <1>5 DEF RegularInv
    <2>2. PICK j \in 0 .. Len(items) : Progress(j)
      BY <1>1, <1>5 DEF RegularInv
    <2>3. pos = Ends(entry, items, j) /\ Untouched(Len(items)) /\ AllFit(j) /\ Written(j)
      BY <1>1, <2>2 DEF Progress
    <2>4. /\ j + 1 \in 1 .. Len(items) /\ Named = Target(j + 1)
          /\ ValuePlace(entry, items, j + 1) = pos + 1
      BY <1>0, <1>1, <2>1, <2>3, AtItem
    <2>5. Target(j + 1) \in Objects /\ ~KeepsCount
      BY <1>1, <1>2, <2>4 DEF Known, KeepsCount
    <2>6. Value = DeserializeValue(Target(j + 1), ValuePlace(entry, items, j + 1))
      BY <2>4, Zenon DEF Value
    <2>7. Store(Target(j + 1), Value.value)
      BY <1>3, <2>4, Zenon
    <2>8. /\ Value.pos = Ends(entry, items, j + 1)
          /\ AllFit(j + 1)' /\ Written(j + 1)' /\ Untouched(Len(items))'
      BY <1>0, <1>1, <1>2, <1>5, <2>1, <2>3, <2>4, <2>5, <2>6, <2>7, TakeItem
    <2>9. Ends(entry, items, j + 1)' = Ends(entry, items, j + 1)
      BY <1>1
    <2>10. Progress(j + 1)'
      BY <1>1, <1>3, <2>8, <2>9 DEF Progress
    <2>11. j + 1 \in 0 .. Len(items)
      BY <2>4
    <2> QED
      BY <2>10, <2>11
  <1>6. (0 .. Len(items))' = 0 .. Len(items) /\ Tokens(entry, items)' = Tokens(entry, items)
    BY <1>1
  <1> QED
    BY <1>1, <1>3, <1>4, <1>5, <1>6 DEF RegularInv

LEMMA ExecParameterRegular ==
    ASSUME TextInv, RegularInv, ExecParameter PROVE RegularInv'
  <1>0. TypeOK /\ Control /\ IsMessage(items)
    BY MessagesAre DEF TextInv, Control
  <1>1. /\ UNCHANGED <<entry, items, parses, tokens, object>>
        /\ pc = "params" /\ entry = "exec" /\ status = "none" /\ param < Len(Parameters)
        /\ Store(Parameters[param + 1], Decoded.value) /\ pos' = Decoded.pos
        /\ \/ Decoded.ok /\ param' = param + 1 /\ UNCHANGED <<pc, status>>
           \/ pc' = "done" /\ status' = "error"
    BY <1>0, Zenon DEF ExecParameter, message, Control, Answer
  <1>2. Regular' <=> Regular
    BY <1>1, SameMessage
  <1>3. ASSUME Regular, Decoded.ok, param' = param + 1, UNCHANGED <<pc, status>>
        PROVE  \E j \in 0 .. Len(items) : Progress(j)'
    <2>1. tokens = Tokens(entry, items)
      BY <1>1, <1>3 DEF RegularInv
    <2>2. PICK j \in 0 .. Len(items) : Progress(j)
      BY <1>1, <1>3 DEF RegularInv
    <2>3. /\ pos = Ends(entry, items, j) /\ param = j
          /\ Untouched(j) /\ AllFit(j) /\ Written(j)
      BY <1>1, <2>2 DEF Progress
    <2>4. /\ Len(items) \in Nat /\ j \in Nat /\ Len(Parameters) \in Nat
          /\ j + 1 \in 1 .. Len(Parameters) /\ Parameters[j + 1] \in Objects
      BY <1>0, <1>1, <2>3, ParametersType DEF IsMessage
    <2>5. /\ tokens \in Seq(TokenSet) /\ pos \in 0 .. Len(tokens)
          /\ \A x \in Objects : Holds(x, data[x])
      BY <1>0, Zenon DEF TypeOK
    <2>6. pos < Len(tokens)
      <3>1. Decodes(Parameters[j + 1], pos, Decoded)
        BY <2>3, <2>4, <2>5, DecodeType DEF Decoded
      <3>2. ReadsOk(tokens, Parameters[j + 1], pos) /\ pos \in Nat
        BY <1>3, <2>5, <3>1 DEF Decodes
      <3> QED
        BY <2>4, <2>5, <3>2, ReadsMove
    <2>7. j + 1 \in 1 .. Len(items) /\ (j + 1) - 1 = j
      <3>1. Ends(entry, items, Len(items)) = Len(tokens)
        BY <1>0, <2>1, TokensPlaces
      <3>2. j # Len(items)
        BY <2>3, <2>5, <2>6, <3>1
      <3> QED
        BY <2>4, <3>2
    <2>8. /\ Target(j + 1) = Parameters[j + 1] /\ ~KeepsCount
          /\ ValuePlace(entry, items, j + 1) = pos
      BY <1>1, <2>3, <2>4, <2>7 DEF Target, ValuePlace, KeepsCount
    <2>9. Decoded = DeserializeValue(Target(j + 1), ValuePlace(entry, items, j + 1))
      BY <2>3, <2>8, Zenon DEF Decoded
    <2>10. Store(Target(j + 1), Decoded.value) /\ Target(j + 1) \in Objects
      BY <1>1, <2>3, <2>4, <2>8, Zenon
    <2>11. UNCHANGED <<entry, items, parses>>
      BY <1>1
    <2>12. /\ Decoded.pos = Ends(entry, items, j + 1)
           /\ AllFit(j + 1)' /\ Written(j + 1)' /\ Untouched(j + 1)'
      BY <1>0, <1>3, <2>1, <2>3, <2>7, <2>8, <2>9, <2>10, <2>11, TakeItem
    <2>13. Ends(entry, items, j + 1)' = Ends(entry, items, j + 1)
      BY <1>1
    <2>14. Progress(j + 1)'
      BY <1>1, <1>3, <2>3, <2>12, <2>13 DEF Progress
    <2>15. j + 1 \in 0 .. Len(items)
      BY <2>7
    <2> QED
      BY <2>14, <2>15
  <1>4. (0 .. Len(items))' = 0 .. Len(items) /\ Tokens(entry, items)' = Tokens(entry, items)
    BY <1>1
  <1> QED
    BY <1>1, <1>2, <1>3, <1>4 DEF RegularInv

(* A record that is regular names no unknown items. *)
LEMMA RegularKnown ==
    ASSUME Regular, IsMessage(items), entry = "record", NEW j \in 1 .. Len(items)
    PROVE  Target(j) \in Objects
  <1>1. Clear(j)
    BY DEF Regular, IsMessage
  <1> QED
    BY <1>1 DEF Clear

LEMMA RecordItemRegular ==
    ASSUME TextInv, RegularInv, RecordItem PROVE RegularInv'
  <1>0. TypeOK /\ Control /\ IsMessage(items)
    BY MessagesAre DEF TextInv, Control
  <1>1. /\ UNCHANGED <<entry, items, parses, tokens, object, param>> /\ ~AtEnd(pos)
        /\ pc = "record" /\ entry = "record" /\ status = "none"
    BY <1>0, Zenon DEF RecordItem, message, Control
  <1>2. \/ UNCHANGED <<pc, status>>
        \/ pc' = "done" /\ status' = "error"
    BY Zenon DEF RecordItem, Answer
  <1>3. Regular' <=> Regular
    BY <1>1, SameMessage
  <1>4. ASSUME Regular, UNCHANGED <<pc, status>>
        PROVE  \E j \in 0 .. Len(items) : Progress(j)'
    <2>1. tokens = Tokens(entry, items)
      BY <1>1, <1>4 DEF RegularInv
    <2>2. PICK j \in 0 .. Len(items) : Progress(j)
      BY <1>1, <1>4 DEF RegularInv
    <2>3. pos = Ends(entry, items, j) /\ Untouched(j) /\ AllFit(j) /\ Written(j)
      BY <1>1, <2>2 DEF Progress
    <2>4. /\ j + 1 \in 1 .. Len(items) /\ Named = Target(j + 1) /\ At(pos, "str")
          /\ ValuePlace(entry, items, j + 1) = pos + 1
      BY <1>0, <1>1, <2>1, <2>3, AtItem
    <2>5. Known
      BY <1>0, <1>1, <1>4, <2>4, RegularKnown DEF Known
    <2>6. Value.ok /\ Store(Named, Value.value) /\ pos' = Value.pos
      <3>1. Store(Named, Value.value) /\ pos' = Value.pos
            /\ IF Value.ok THEN UNCHANGED <<pc, status>> ELSE Answer("error")
        BY <2>5, Zenon DEF RecordItem
      <3>2. ~Answer("error")
        BY <1>1, <1>4 DEF Answer
      <3> QED
        BY <3>1, <3>2
    <2>7. Target(j + 1) \in Objects
      BY <2>4, <2>5 DEF Known
    <2>8. Value = DeserializeValue(Target(j + 1), ValuePlace(entry, items, j + 1))
      BY <2>4, Zenon DEF Value
    <2>9. Store(Target(j + 1), Value.value)
      BY <2>4, <2>6, Zenon
    <2>10. /\ Value.pos = Ends(entry, items, j + 1)
           /\ AllFit(j + 1)' /\ Written(j + 1)' /\ Untouched(j + 1)'
      BY <1>0, <1>1, <1>4, <2>1, <2>3, <2>4, <2>6, <2>7, <2>8, <2>9, TakeItem
    <2>11. Ends(entry, items, j + 1)' = Ends(entry, items, j + 1)
      BY <1>1
    <2>12. Progress(j + 1)'
      BY <1>1, <1>4, <2>6, <2>10, <2>11 DEF Progress
    <2>13. j + 1 \in 0 .. Len(items)
      BY <2>4
    <2> QED
      BY <2>12, <2>13
  <1>5. (0 .. Len(items))' = 0 .. Len(items) /\ Tokens(entry, items)' = Tokens(entry, items)
    BY <1>1
  <1> QED
    BY <1>1, <1>2, <1>3, <1>4, <1>5 DEF RegularInv

(* When tok_pos is at the end of the tokens all items have been dealt with. *)
LEMMA AllRegular ==
    ASSUME TextInv, RegularInv, Regular, pc \in {"write", "params", "record"}, AtEnd(pos)
    PROVE  AllFit(Len(items)) /\ data = Applied
  <1>0. TypeOK /\ Control /\ IsMessage(items) /\ Len(items) \in Nat
    BY MessagesAre DEF TextInv, Control, IsMessage
  <1>1. tokens = Tokens(entry, items)
    BY DEF RegularInv
  <1>2. PICK j \in 0 .. Len(items) : Progress(j)
    BY DEF RegularInv
  <1>3. pos = Ends(entry, items, j) /\ AllFit(j) /\ Written(j)
    BY <1>2 DEF Progress
  <1>4. Ends(entry, items, j) >= Ends(entry, items, Len(items))
    BY <1>0, <1>1, <1>3, TokensPlaces DEF AtEnd
  <1>5. j = Len(items)
    <2>1. Ends(entry, items, j) \in Nat /\ Ends(entry, items, Len(items)) \in Nat
      <3>1. Len(items) \in 0 .. Len(items)
        BY <1>0
      <3> QED
        BY <1>0, <3>1, TokensPlaces
    <2>2. j < Len(items) => Ends(entry, items, j) < Ends(entry, items, Len(items))
      <3>1. Len(items) \in 0 .. Len(items)
        BY <1>0
      <3> QED
        BY <1>0, <3>1, EndsAscend
    <2> QED
      BY <1>0, <1>4, <2>1, <2>2
  <1>6. AllFit(Len(items)) /\ Written(Len(items)) /\ Untouched(Len(items))
    BY <1>2, <1>3, <1>5 DEF Progress
  <1>7. data = [o \in Objects |-> data[o]]
    <2>1. data \in [Objects -> Seq(Nat)]
      BY <1>0, Zenon DEF TypeOK
    <2> QED
      BY <2>1
  <1>8. \A o \in Objects : data[o] = Applied[o]
    BY <1>6 DEF Written, Untouched, Applied
  <1>9. Applied = [o \in Objects |-> Applied[o]]
    BY DEF Applied
  <1>10. data = Applied
    BY <1>7, <1>8, <1>9
  <1> QED
    BY <1>6, <1>10

LEMMA AnswerRegular ==
    ASSUME TextInv, RegularInv, pc \in {"write", "params", "record"},
           pc' = "done", status' = "ok" => AtEnd(pos),
           UNCHANGED <<message, tokens, pos, object, param, data>>
    PROVE  RegularInv'
  <1>1. UNCHANGED <<entry, items, parses, data>>
    BY Zenon DEF message
  <1>2. Regular' <=> Regular
    BY <1>1, SameMessage
  <1>3. ASSUME Regular, status' = "ok" PROVE AllFit(Len(items))' /\ data' = Applied'
    <2>1. AllFit(Len(items)) /\ data = Applied
      BY <1>3, AllRegular
    <2>2. AllFit(Len(items))'
      <3>1. \A k : AllFit(k)' <=> AllFit(k)
        BY <1>1, SameMessage
      <3> QED
        BY <1>1, <2>1, <3>1
    <2>3. Applied' = Applied
      <3>1. \A o, k : Naming(o, k)' = Naming(o, k)
        BY <1>1, SameMessage
      <3> QED
        BY <1>1, <3>1 DEF Applied, Meaning, Numbers
    <2> QED
      BY <1>1, <2>1, <2>2, <2>3
  <1> QED
    BY <1>2, <1>3 DEF RegularInv

LEMMA StutterRegular ==
    ASSUME RegularInv, UNCHANGED vars PROVE RegularInv'
  <1>1. UNCHANGED <<entry, items, parses, tokens, pos, param, data, pc, status>>
    BY DEF vars
  <1>2. /\ \A o, k : Naming(o, k)' = Naming(o, k)
        /\ \A k : AllFit(k)' <=> AllFit(k)
        /\ Regular' <=> Regular
    BY <1>1, SameMessage
  <1>3. \A o, value : Meaning(o, value)' = Meaning(o, value)
    BY DEF Meaning, Numbers
  <1>4. Applied' = Applied
    BY <1>1, <1>2, <1>3 DEF Applied
  <1>5. \A k : (Written(k)' <=> Written(k)) /\ (Untouched(k)' <=> Untouched(k))
    BY <1>1, <1>2, <1>3 DEF Written, Untouched
  <1>6. /\ (0 .. Len(items))' = 0 .. Len(items) /\ Tokens(entry, items)' = Tokens(entry, items)
        /\ \A j : Ends(entry, items, j)' = Ends(entry, items, j)
        /\ AllFit(Len(items))' <=> AllFit(Len(items))
        /\ \A j : (IF entry = "update" THEN Len(items) ELSE j)' = (IF entry = "update" THEN Len(items) ELSE j)
    BY <1>1, <1>2
  <1>7. ASSUME NEW j, Progress(j) PROVE Progress(j)'
    <2>1. Untouched(IF entry = "update" THEN Len(items) ELSE j)'
      BY <1>1, <1>5, <1>7 DEF Progress
    <2> QED
      BY <1>1, <1>2, <1>5, <1>6, <1>7, <2>1 DEF Progress
  <1> QED
    BY <1>1, <1>2, <1>4, <1>6, <1>7 DEF RegularInv

LEMMA StepRegular ==
    ASSUME TextInv, RegularInv, [Next \/ Over]_vars PROVE RegularInv'
  <1>0. Control
    BY DEF TextInv
  <1>1. CASE WriteDone
    <2>1. /\ pc' = "done" /\ status' = "ok" /\ pc = "write" /\ AtEnd(pos)
          /\ UNCHANGED <<message, tokens, pos, object, param, data>>
      BY <1>1, Zenon DEF WriteDone, Answer
    <2> QED
      BY <2>1, AnswerRegular
  <1>2. CASE ExecCall
    <2>1. /\ pc' = "done" /\ pc = "params"
          /\ status' = IF AtEnd(pos) THEN "ok" ELSE "error"
          /\ UNCHANGED <<message, tokens, pos, object, param, data>>
      BY <1>2, Zenon DEF ExecCall, Answer
    <2>2. status' = "ok" => AtEnd(pos)
      BY <2>1
    <2> QED
      BY <2>1, <2>2, AnswerRegular
  <1>3. CASE RecordDone
    <2>1. /\ pc' = "done" /\ status' = "ok" /\ pc = "record" /\ AtEnd(pos)
          /\ UNCHANGED <<message, tokens, pos, object, param, data>>
      BY <1>3, Zenon DEF RecordDone, Answer
    <2> QED
      BY <2>1, AnswerRegular
  <1>4. UNCHANGED vars => RegularInv'
    BY StutterRegular
  <1> QED
    BY <1>1, <1>2, <1>3, <1>4, ParseRegular, StartRegular, CheckItemRegular, CheckDoneRegular,
       WriteItemRegular, ExecParameterRegular, RecordItemRegular DEF Next, Over

LEMMA RegularInvariant ==
    ASSUME FirstMessage
    PROVE  Spec => [](TextInv /\ RegularInv)
  <1>1. Init => TextInv /\ RegularInv
    <2> SUFFICES ASSUME Init PROVE TextInv /\ RegularInv
      OBVIOUS
    <2>1. TextInv
      BY InitText
    <2>2. entry = "record" => tokens = <<>>
      BY NoTokensBefore
    <2> QED
      BY <2>1, <2>2 DEF Init, RegularInv
  <1>2. TextInv /\ RegularInv /\ [Next \/ Over]_vars => (TextInv /\ RegularInv)'
    BY StepText, StepRegular
  <1> QED
    BY <1>1, <1>2, PTL DEF Spec

(***************************************************************************)
(* An UPDATE, an EXEC or the import of a record that succeeds has given    *)
(* every object its items name the value the last of them carries and      *)
(* changed no other, for every message the tokens of which cannot be taken *)
(* for others.  A record must not find tokens of an earlier message, see   *)
(* MalformedRefused: it would be read from them if it had too many of its  *)
(* own.                                                                    *)
(***************************************************************************)
THEOREM SuccessComplete ==
    ASSUME FirstMessage
    PROVE  Spec => []SuccessIsComplete
  <1>1. TextInv /\ RegularInv => SuccessIsComplete
    <2> SUFFICES ASSUME TextInv, RegularInv, Regular, status = "ok"
                 PROVE  /\ \A j \in DOMAIN items :
                              Target(j) \in Objects /\ Fits(Target(j), items[j].value)
                        /\ data = Applied
      BY DEF SuccessIsComplete
    <2>1. IsMessage(items)
      BY MessagesAre DEF TextInv, Control
    <2>2. DOMAIN items = 1 .. Len(items)
      BY <2>1 DEF IsMessage
    <2> QED
      BY <2>2 DEF RegularInv, AllFit
  <1> QED
    BY <1>1, RegularInvariant, PTL

----------------------------------------------------------------------------
(***************************************************************************)
(* The record, item by item.                                               *)
(***************************************************************************)
LEMMA NoneDealt ==
    ASSUME NEW e, NEW is, IsMessage(is), NEW p \in {0, 1}
    PROVE  DealtAt(e, is, p) = 0
  <1>1. Len(is) \in Nat /\ Ends(e, is, 0) = 1
    BY TokensPlaces DEF IsMessage
  <1>2. 0 < Len(is) => p < Ends(e, is, 0 + 1)
    <2>1. ASSUME 0 < Len(is) PROVE Ends(e, is, 1) \in Nat /\ Ends(e, is, 0) < Ends(e, is, 1)
      <3>1. 0 \in 0 .. Len(is) /\ 1 \in 0 .. Len(is)
        BY <1>1, <2>1
      <3> QED
        BY <3>1, TokensPlaces, EndsAscend
    <2> QED
      BY <1>1, <2>1
  <1> QED
    BY <1>1, <1>2, DealtIs

LEMMA SomeDealt ==
    ASSUME NEW e, NEW is, IsMessage(is), NEW j \in 0 .. Len(is), NEW p \in Nat,
           Ends(e, is, j) <= p, j < Len(is) => p < Ends(e, is, j + 1)
    PROVE  DealtAt(e, is, p) = j
  BY DealtIs

LEMMA RecordItemStream ==
    ASSUME TextInv, RegularInv, RecordItem, Regular
    PROVE  Stream!StreamNext
  <1>0. TypeOK /\ Control /\ IsMessage(items) /\ Len(items) \in Nat
    BY MessagesAre DEF TextInv, Control, IsMessage
  <1>1. /\ UNCHANGED <<entry, items, parses, tokens, object, param>> /\ ~AtEnd(pos)
        /\ pc = "record" /\ entry = "record" /\ status = "none"
    BY <1>0, Zenon DEF RecordItem, message, Control
  <1>2. tokens = Tokens(entry, items)
    BY <1>1 DEF RegularInv
  <1>3. PICK j \in 0 .. Len(items) : Progress(j)
    BY <1>1 DEF RegularInv
  <1>4. pos = Ends(entry, items, j) /\ Untouched(j) /\ AllFit(j) /\ Written(j)
    BY <1>1, <1>3 DEF Progress
  <1>5. /\ j + 1 \in 1 .. Len(items) /\ Named = Target(j + 1) /\ At(pos, "str")
        /\ Target(j + 1) = items[j + 1].id
        /\ ValuePlace(entry, items, j + 1) = pos + 1
    BY <1>0, <1>1, <1>2, <1>4, AtItem
  <1>6. Known /\ Target(j + 1) \in Objects
    BY <1>0, <1>1, <1>5, RegularKnown DEF Known
  <1>7. /\ Store(Named, Value.value) /\ pos' = Value.pos
        /\ \/ Value.ok /\ UNCHANGED <<pc, status>>
           \/ ~Value.ok /\ pc' = "done" /\ status' = "error"
    BY <1>6, Zenon DEF RecordItem, Answer
  <1>8. ReadRight(Named, pos + 1, items[j + 1].value, Value)
    BY <1>0, <1>2, <1>5, <1>6, ItemIsRead, Zenon DEF Value
  <1>9. /\ Ends(entry, items, j + 1) \in Nat /\ Ends(entry, items, j) \in Nat
        /\ Ends(entry, items, j) < Ends(entry, items, j + 1)
        /\ (pos + 1) + Len(items[j + 1].value) = Ends(entry, items, j + 1)
        /\ j + 1 < Len(items) => Ends(entry, items, j + 1) < Ends(entry, items, (j + 1) + 1)
    <2>1. j \in 0 .. Len(items) /\ j + 1 \in 0 .. Len(items) /\ j < j + 1
          /\ (j + 1 < Len(items) => (j + 1) + 1 \in 0 .. Len(items) /\ j + 1 < (j + 1) + 1)
      BY <1>0, <1>5
    <2>2. /\ Ends(entry, items, j + 1) \in Nat /\ Ends(entry, items, j) \in Nat
          /\ Ends(entry, items, j) < Ends(entry, items, j + 1)
      BY <1>0, <2>1, TokensPlaces, EndsAscend
    <2>3. j + 1 < Len(items) => Ends(entry, items, j + 1) < Ends(entry, items, (j + 1) + 1)
      BY <1>0, <2>1, EndsAscend
    <2>4. ValuePlace(entry, items, j + 1) + Len(items[j + 1].value) = Ends(entry, items, j + 1)
      <3>1. IsMessage(items) /\ j + 1 \in 1 .. Len(items)
        BY <1>0, <1>5
      <3> QED
        BY <3>1, ItemPlaces
    <2>5. (pos + 1) + Len(items[j + 1].value) = Ends(entry, items, j + 1)
      BY <1>5, <2>4, Zenon
    <2> QED
      BY <2>2, <2>3, <2>5
  <1>10. Dealt = j
    <2>1. DealtAt(entry, items, pos) = j
      BY <1>0, <1>4, <1>9, SomeDealt
    <2> QED
      BY <2>1 DEF Dealt, DealtAt
  <1>11. Dealt' = DealtAt(entry, items, pos')
    BY <1>1 DEF Dealt, DealtAt
  <1>12. Outcome = "busy" /\ j < Len(items)
    BY <1>0, <1>1, <1>5 DEF Outcome
  <1>13. data \in [Objects -> Seq(Nat)] /\ Named \in Objects
    BY <1>0, <1>6, <1>5, Zenon DEF TypeOK
  <1>14. CASE Value.ok
    <2>1. DealtAt(entry, items, pos') = j + 1
      <3>1. pos' = Ends(entry, items, j + 1) /\ pos' \in Nat /\ j + 1 \in 0 .. Len(items)
        <4>1. Value.pos = (pos + 1) + Len(items[j + 1].value)
          BY <1>8, <1>14, Zenon DEF ReadRight
        <4>2. pos' = Ends(entry, items, j + 1)
          BY <1>7, <1>9, <4>1, Zenon
        <4> QED
          BY <1>0, <1>5, <1>9, <4>2
      <3> QED
        BY <1>0, <1>9, <3>1, SomeDealt
    <2>2. Value.value = Meaning(Named, items[j + 1].value) /\ Fits(Named, items[j + 1].value)
      <3>1. Type[Named] = "array" => Len(data[Named]) = Len(items[j + 1].value) - 1
        BY <1>0, <1>1, <1>4, <1>5, <1>6, CountKept
      <3> QED
        BY <1>8, <1>14, <3>1, Zenon DEF ReadRight
    <2>3. data' = Effect(data, items[j + 1], Objects)
      BY <1>5, <1>7, <1>13, <2>2 DEF Effect, Store
    <2>4. Outcome' = Outcome
      BY <1>7, <1>14 DEF Outcome
    <2> QED
      BY <1>1, <1>10, <1>11, <1>12, <2>1, <2>3, <2>4 DEF Stream!StreamNext, Stream!Apply
  <1>15. CASE ~Value.ok
    <2>1. DealtAt(entry, items, pos') = j
      <3>1. pos' < Ends(entry, items, j + 1)
        BY <1>7, <1>8, <1>9, <1>15, Zenon DEF ReadRight
      <3>2. pos' \in pos + 1 .. Len(tokens)
        BY <1>0, <1>6, <1>7, KnownItem DEF Decodes
      <3>3. pos' \in Nat /\ Ends(entry, items, j) <= pos'
        <4>1. pos \in 0 .. Len(tokens) /\ tokens \in Seq(TokenSet)
          BY <1>0, Zenon DEF TypeOK
        <4> QED
          BY <1>4, <3>2, <4>1
      <3> QED
        BY <1>0, <3>1, <3>3, SomeDealt
    <2>2. \A x \in Objects : data'[x] # data[x] => x = items[j + 1].id
      BY <1>5, <1>7, <1>13 DEF Store
    <2>3. Outcome' = "error"
      BY <1>7, <1>15 DEF Outcome
    <2> QED
      BY <1>1, <1>10, <1>11, <1>12, <2>1, <2>2, <2>3
         DEF Stream!StreamNext, Stream!Fail, Stream!OnlyTheNext
  <1> QED
    BY <1>14, <1>15

(***************************************************************************)
(* thingset_import_record deals with the items of a regular record one     *)
(* after the other, changes nothing but the object of the item it is at,   *)
(* and succeeds only at the end: it does what ImportStream promises of     *)
(* every import.                                                           *)
(***************************************************************************)
THEOREM RecordItems ==
    ASSUME FirstMessage
    PROVE  Spec => RecordTakesItems
  <1>1. TextInv /\ RegularInv /\ [Next \/ Over]_vars =>
           [entry = "record" /\ Regular => Stream!StreamNext]_<<Dealt, data, Outcome>>
    <2> SUFFICES ASSUME TextInv, RegularInv, [Next \/ Over]_vars, entry = "record", Regular
                 PROVE  Stream!StreamNext \/ UNCHANGED <<Dealt, data, Outcome>>
      OBVIOUS
    <2>0. Control /\ IsMessage(items)
      BY MessagesAre DEF TextInv, Control
    <2>1. CASE UNCHANGED vars
      <3>1. UNCHANGED <<entry, items, pos, data, pc, status>>
        BY <2>1 DEF vars
      <3> QED
        BY <3>1 DEF Dealt, Outcome
    <2>2. Dealt = DealtAt(entry, items, pos) /\ Dealt' = DealtAt(entry', items', pos')
      BY DEF Dealt, DealtAt
    <2>3. CASE Parse
      <3>1. /\ pos = 0 /\ pos' = 0 /\ UNCHANGED <<entry, items, data, status>>
            /\ pc = "parse" /\ pc' = "start"
        BY <2>0, <2>3 DEF Parse, message, Control
      <3> QED
        BY <2>2, <3>1 DEF Outcome
    <2>4. CASE MapStart
      <3>1. /\ pos = 0 /\ UNCHANGED <<entry, items, data>> /\ pc = "start" /\ status = "none"
            /\ \/ pos' = 1 /\ pc' = "record" /\ status' = status
               \/ pos' = 0 /\ pc' = "done" /\ status' = "error"
        BY <2>0, <2>4 DEF MapStart, message, Control, Answer
      <3>2. Dealt = 0 /\ Dealt' = 0
        <4>1. DealtAt(entry, items, pos) = 0 /\ DealtAt(entry, items, pos') = 0
          BY <2>0, <3>1, NoneDealt
        <4> QED
          BY <2>2, <3>1, <4>1
      <3>3. CASE pc' = "record"
        BY <3>1, <3>2, <3>3 DEF Outcome
      <3>4. CASE pc' = "done"
        <4>1. Outcome = "busy" /\ Outcome' = "error"
          BY <3>1, <3>4 DEF Outcome
        <4> QED
          BY <3>1, <3>2, <4>1 DEF Stream!StreamNext, Stream!Fail, Stream!OnlyTheNext
      <3> QED
        BY <3>1, <3>3, <3>4
    <2>5. CASE RecordItem
      BY <2>5, RecordItemStream
    <2>6. CASE RecordDone
      <3>1. /\ pc = "record" /\ AtEnd(pos) /\ pc' = "done" /\ status' = "ok" /\ status = "none"
            /\ UNCHANGED <<entry, items, pos, data>>
        BY <2>0, <2>6, Zenon DEF RecordDone, message, Answer, Control
      <3>2. Dealt = Len(items) /\ Dealt' = Dealt
        <4>1. tokens = Tokens(entry, items) /\ tokens \in Seq(TokenSet) /\ pos \in 0 .. Len(tokens)
          <5>1. tokens \in Seq(TokenSet) /\ pos \in 0 .. Len(tokens)
            BY Zenon DEF TextInv, TypeOK
          <5> QED
            BY <3>1, <5>1 DEF RegularInv
        <4>2. Len(items) \in Nat /\ pos \in Nat /\ Ends(entry, items, Len(items)) <= pos
          BY <2>0, <3>1, <4>1, TokensPlaces DEF IsMessage, AtEnd
        <4>3. DealtAt(entry, items, pos) = Len(items)
          BY <2>0, <4>2, SomeDealt
        <4> QED
          BY <2>2, <3>1, <4>3
      <3>3. Outcome = "busy" /\ Outcome' = "ok"
        BY <3>1 DEF Outcome
      <3> QED
        BY <3>1, <3>2, <3>3 DEF Stream!StreamNext, Stream!Succeed
    <2>7. ~(pc \in {"check", "write", "params"})
      BY <2>0 DEF Control
    <2>8. ~(ListStart \/ CheckItem \/ CheckDone \/ WriteItem \/ WriteDone \/ ExecParameter \/ ExecCall)
      BY <2>7 DEF ListStart, CheckItem, CheckDone, WriteItem, WriteDone, ExecParameter, ExecCall
    <2> QED
      BY <2>1, <2>3, <2>4, <2>5, <2>6, <2>8 DEF Next, Over
  <1> QED
    BY <1>1, RegularInvariant, PTL DEF Spec, RecordTakesItems
=============================================================================
