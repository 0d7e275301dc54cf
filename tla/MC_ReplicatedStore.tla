------------------------- MODULE MC_ReplicatedStore -------------------------
(* Instantiates ReplicatedStore for TLC: two management nodes, two keys and *)
(* one entry value; the .cfg files choose the bounds and the disk model.   *)
EXTENDS ReplicatedStore, TLC

CONSTANTS m1, m2, k1, k2, v1

MCServer == {m1, m2}
MCKey == {k1, k2}
MCValue == {v1}
\* The two servers play the same role in every action and property.
MCSymmetry == Permutations(MCServer)
=============================================================================
