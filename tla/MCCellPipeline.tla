---------------------------- MODULE MCCellPipeline ----------------------------
(****************************************************************************)
(* Small instances of CellPipeline: two projections, the first of two rows. *)
(* c pads a row of the first projection and is a regular cell of the        *)
(* second; b is the other way round; d is a padding source only.            *)
(****************************************************************************)
EXTENDS CellPipeline

TwoProjections == <<"r1", "r2", "r3">>
Proj == [r \in Rows |-> IF r = "r3" THEN "p2" ELSE "p1"]
OneCellRows == [r \in Rows |-> CASE r = "r1" -> {"a"} [] r = "r2" -> {"b"} [] r = "r3" -> {"c"}]
CrossPadding == [r \in Rows |-> CASE r = "r1" -> {"c"} [] r = "r2" -> {} [] r = "r3" -> {"b"}]
Both == {"publish", "rows"}
SomeStored == {{"b"}}
Archives == {{}, {"a"}}
AllFaults == {"fetch", "combine", "sep", "publish", "pool", "row", "conflict", "slow", "saver"}
=============================================================================
