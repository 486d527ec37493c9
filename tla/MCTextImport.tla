---------------------------- MODULE MCTextImport ----------------------------
(***************************************************************************)
(* A small endpoint for TextImport: a number of three bits, a string of up *)
(* to two characters, an array of two numbers, and a number the peer may   *)
(* not write.  "u" names nothing.                                          *)
(***************************************************************************)
EXTENDS TextImport, TLC

MCObjects == {"num", "str", "arr", "ro"}
MCType == "num" :> "num" @@ "str" :> "str" @@ "arr" :> "array" @@ "ro" :> "num"
MCModulus == [o \in MCObjects |-> 8]
MCCapacity == "num" :> 1 @@ "str" :> 3 @@ "arr" :> 2 @@ "ro" :> 1
MCWritable == {"num", "str", "arr"}
MCParameters == <<"num", "arr">>
MCInitData == "num" :> <<0>> @@ "str" :> <<0>> @@ "arr" :> <<0, 0>> @@ "ro" :> <<0>>
MCStale == {Token("str", "num", 3)}

Prim(n) == <<Token("prim", "", n)>>
Str(s, n) == <<Token("str", s, n)>>
Arr(ns) == <<Token("arr", "", Len(ns))>> \o [j \in DOMAIN ns |-> Token("prim", "", ns[j])]
Nested == <<Token("obj", "", 1)>> \o Str("num", 3) \o Prim(1)
Deep == <<Token("arr", "", 1), Token("arr", "", 0)>>
It(id, value) == [id |-> id, value |-> value]

MCNames == MCObjects \cup {"u"}
MCValues == {Prim(0), Prim(5), Prim(9), Prim(20), Str("x", 2), Str("num", 3), Arr(<<>>),
             Arr(<<6>>), Arr(<<6, 7>>), Arr(<<6, 9, 7>>), Nested, Deep}
SomeItems == {It(n, v) : n \in MCNames, v \in MCValues}
GoodItems == {It("num", Prim(5)), It("str", Str("x", 2)), It("arr", Arr(<<6, 7>>)),
              It("arr", Arr(<<6>>)), It("ro", Prim(1)), It("u", Prim(1))}

MCMessages == {<<>>} \cup {<<i>> : i \in SomeItems} \cup {<<i, j>> : i, j \in SomeItems}
              \cup {<<i, j, k>> : i, j, k \in GoodItems}

UnknownFirst == {<<It("u", Prim(1)), It("num", Prim(2))>>}
TwoNumbers == {<<It("num", Prim(5)), It("num", Prim(6))>>}
=============================================================================
