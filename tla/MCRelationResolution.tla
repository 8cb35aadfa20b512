------------------------ MODULE MCRelationResolution ------------------------
(***************************************************************************)
(* RelationResolution for TLC: two targets, found by primary key or by     *)
(* another unique field whose values happen to be the keys of each other.  *)
(***************************************************************************)
EXTENDS Naturals, RelationResolution

MCTargets == {1, 2}
PrimaryKey == [t \in MCTargets |-> t]
ToField == [t \in MCTargets |-> 3 - t]
=============================================================================
