---------------------------- MODULE MCBinImport ----------------------------
(***************************************************************************)
(* A small database for BinImport: a number 1, a string 2, an array 3 and  *)
(* a number 4 the import may not write.  5 and 6 belong to no object.      *)
(***************************************************************************)
EXTENDS BinImport, TLC

MCObjects == 1 .. 4
MCType == 1 :> "num" @@ 2 :> "str" @@ 3 :> "array" @@ 4 :> "num"
MCCapacity == 1 :> 7 @@ 2 :> 3 @@ 3 :> 2 @@ 4 :> 7
MCWritable == {1, 2, 3}
MCRecordItems == {1, 2}
MCInitData == 1 :> <<0>> @@ 2 :> <<>> @@ 3 :> <<0>> @@ 4 :> <<0>>

Num(n) == <<Head1("uint", n)>>
Str(s) == <<Head1("str", Len(s))>> \o [j \in DOMAIN s |-> Head1("char", s[j])]
List(s) == <<Head1("list", Len(s))>> \o [j \in DOMAIN s |-> Head1("uint", s[j])]
Nested == <<Head1("map", 1), Head1("uint", 1), Head1("list", 1)>> \o Str(<<5>>)
It(id, value) == [id |-> id, value |-> value]

(* values their objects can take, and values of another kind or range *)
Good == {It(1, Num(1)), It(2, Str(<<2, 3>>)), It(3, List(<<4, 5>>)), It(3, List(<<>>))}
Misfit == {It(1, Str(<<1>>)), It(1, Num(8)), It(2, Num(1))}
Others == {It(4, Num(1)), It(5, Num(2)), It(5, Str(<<1, 2>>)), It(6, Nested)}

UpTo2(S) == {<<>>} \cup {<<i>> : i \in S} \cup {<<i, j>> : i, j \in S}
Mixed == {It(3, List(<<4, 5>>)), It(5, Str(<<1, 2>>)), It(1, Str(<<1>>)), It(1, Num(3)),
          It(2, Str(<<2, 3>>)), It(4, Num(1))}
Distinct(is) == \A a, b \in DOMAIN is : is[a].id = is[b].id => a = b
ProperMaps == {is \in UpTo2(Good \cup Misfit \cup Others)
                      \cup {<<i, j, k>> : i, j, k \in Mixed} : Distinct(is)}
              \cup {<<It(1, Num(2)), It(9, Str(<<1>>))>>}

(* what is assumed of the maps where the progress of an import is proved *)
ASSUME ProperMapsAssumption ==
    Writable = MCWritable =>
        \A is \in ProperMaps : WellSized(is, Writable \cup RecordItems) /\ ToldApart(is)

(* a string that is longer than the buffer of its object, and the ID of an *)
(* unknown item behind it                                                  *)
LongString == {<<It(2, Str(<<1, 2, 3>>)), It(5, Num(1)), It(6, Num(0))>>}
=============================================================================
