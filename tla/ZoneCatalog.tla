----------------------------- MODULE ZoneCatalog -----------------------------
(***************************************************************************)
(* What the zone operations promise of the persisted zone map (spec 4.4): *)
(* each mutating operation is one atomic change of the current map.       *)
(* createZone makes the first listed speaker the leader, none when it    *)
(* lists no speaker; add appends to                                       *)
(* the member list; remove takes the set difference; delete drops the     *)
(* zone; rename changes its display name; self-healing promotes a listed  *)
(* member to leader.  Writes are serialised by the consensus leader, so   *)
(* no operation works from an outdated copy of the map.                    *)
(***************************************************************************)
EXTENDS Naturals, Sequences, SequencesExt

CONSTANTS Speaker, ZoneId, Name, NoSpeaker, NoZone

VARIABLE zones

Zone == [name : Name, leader : Speaker \cup {NoSpeaker}, members : Seq(Speaker)]
Lists == UNION {SetToSeqs(S) : S \in SUBSET Speaker} \ {<<>>}
Used == {z \in ZoneId : zones[z] # NoZone}

Init == zones = [z \in ZoneId |-> NoZone]

Create(z, n, l) ==
  /\ zones[z] = NoZone
  /\ zones' = [zones EXCEPT ![z] = [name |-> n, members |-> l,
                                    leader |-> IF l = <<>> THEN NoSpeaker ELSE l[1]]]

AddSpeakers(z, l) == zones' = [zones EXCEPT ![z].members = @ \o l]

RemoveSpeakers(z, S) ==
  zones' = [zones EXCEPT ![z].members = SelectSeq(@, LAMBDA s : s \notin S)]

Delete(z) == zones' = [zones EXCEPT ![z] = NoZone]

Rename(z, n) == zones' = [zones EXCEPT ![z].name = n]

Promote(z, c) ==
  /\ c \in ToSet(zones[z].members)
  /\ zones' = [zones EXCEPT ![z].leader = c]

Next ==
  \/ \E z \in ZoneId, n \in Name, l \in Lists \cup {<<>>} : Create(z, n, l)
  \/ \E z \in Used :
       \/ \E l \in Lists : AddSpeakers(z, l) \/ RemoveSpeakers(z, ToSet(l))
       \/ Delete(z)
       \/ \E n \in Name : Rename(z, n)
       \/ \E c \in Speaker : Promote(z, c)

Spec == Init /\ [][Next]_zones
=============================================================================
