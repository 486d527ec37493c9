---------------------------- MODULE MCTextReport ----------------------------
(***************************************************************************)
(* Small databases for ObjectDb and TextReport.                            *)
(***************************************************************************)
EXTENDS TextReport, TLC

Ob(id, parent, name, type, subset) ==
    [id |-> id, parent |-> parent, name |-> name, type |-> type, subset |-> subset]

(* two groups in the root, one anywhere, three items anywhere *)
Nested(s, x, y, z, inSubset) ==
    <<Ob(1, 0, "G", "group", FALSE), Ob(2, 0, "H", "group", FALSE), Ob(3, s, "S", "group", FALSE),
      Ob(4, x, "x", "item", TRUE), Ob(5, y, "y", "item", inSubset), Ob(6, z, "z", "item", TRUE)>>
Reports == {Nested(s, x, y, z, b) : s \in 0 .. 2, x, y, z \in 0 .. 3, b \in BOOLEAN}

(* a group behind its child, the same name twice, IDs of one bucket, records *)
(* in records, a chain as deep as MaxDepth and one deeper                    *)
Mixed ==
    <<Ob(7, 4, "x", "item", TRUE), Ob(4, 0, "G", "group", FALSE), Ob(1, 0, "x", "item", FALSE),
      Ob(10, 0, "R", "records", TRUE), Ob(5, 10, "x", "item", FALSE),
      Ob(6, 10, "R", "records", FALSE), Ob(9, 6, "y", "item", FALSE)>>
Chain ==
    <<Ob(3, 0, "G", "group", FALSE), Ob(6, 3, "G", "group", FALSE), Ob(9, 6, "x", "group", FALSE),
      Ob(12, 9, "y", "item", TRUE), Ob(5, 9, "G", "group", FALSE), Ob(8, 5, "x", "item", TRUE)>>

MCDatabases == Reports \cup {Mixed, Chain, Reverse(Chain), <<>>}

Named(name) == Segment(name)
MCSegments == {Named("G"), Named("x"), Named("R"), Named("S"), Named("_Metadata"), Named(""),
               [s |-> "1", first |-> "digit", number |-> 1],
               [s |-> "1a", first |-> "digit", number |-> NotANumber],
               [s |-> "-", first |-> "dash", number |-> NotANumber]}
MCPaths == UNION {[1 .. n -> MCSegments] : n \in 0 .. 3}

(* what is assumed of databases and paths where paths are proved about *)
ASSUME ProperDatabasesAssumption ==
    ProperIds /\ ProperParents /\ ProperNames /\ ProperPaths

(* Items in G/S, in H and in H/T. *)
TwoBranches ==
    {<<Ob(1, 0, "G", "group", FALSE), Ob(2, 0, "H", "group", FALSE), Ob(3, 1, "S", "group", FALSE),
       Ob(4, 2, "T", "group", FALSE), Ob(5, 3, "x", "item", TRUE), Ob(6, 2, "y", "item", TRUE),
       Ob(7, 4, "z", "item", TRUE)>>}
=============================================================================
