--------------------------- MODULE MC_ZoneService ---------------------------
(* Instantiates ZoneService for TLC: three music nodes, two zone ids, two  *)
(* display names.  The .cfg files choose the bounds and the environment.   *)
EXTENDS ZoneService, TLC

CONSTANTS s1, s2, s3, z1, z2, n1, n2

MCSpeaker == {s1, s2, s3}
MCZoneId == {z1, z2}
MCName == {n1, n2}
=============================================================================
