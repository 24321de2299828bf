------------------------- MODULE MCDesiredStateSync -------------------------
(***************************************************************************)
(* One distribution whose policy group is there, is missing, or is         *)
(* disabled: a missing or disabled group contributes no objects, so the    *)
(* snapshot then has the hash of the empty one, which also is what a       *)
(* cluster that no distribution targets gets.                              *)
(***************************************************************************)
EXTENDS DesiredStateSync

CONSTANTS dist, enabled, missing, disabled, emptyHash, groupHash

MCHashOf ==
  [c \in Contents |-> [T \in SUBSET Dists |->
     IF c = enabled /\ dist \in T THEN groupHash ELSE emptyHash]]

MCBadRefs == [c \in Contents |-> IF c = missing THEN {dist} ELSE {}]
=============================================================================
