---------------------------- MODULE MC_MgmtCluster ----------------------------
EXTENDS MgmtCluster

CONSTANTS m1, m2, m3, m4

MCNode == {m1, m2, m3, m4}
=============================================================================
