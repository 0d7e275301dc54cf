---------------------------- MODULE RaftMembership ----------------------------
(***************************************************************************)
(* What the management nodes' start-up promises of the raft configuration *)
(* (spec 4.3, join protocol): there is one raft cluster.  It is            *)
(* bootstrapped once, by a single server; later servers enter it only as  *)
(* voters added by its leader; a leader is one of its voters and is       *)
(* elected only when there is none.  No step removes a voter.             *)
(*                                                                         *)
(* founders and leaders are sets so that a refinement mapping can show a  *)
(* second bootstrap or a second leader as what it is: a set of two.       *)
(***************************************************************************)
CONSTANTS Server

VARIABLES
  voters,   \* servers in the raft configuration
  founders, \* servers that bootstrapped a configuration
  leaders   \* servers that currently lead

mvars == <<voters, founders, leaders>>

Init == voters = {} /\ founders = {} /\ leaders = {}

Bootstrap(n) ==
  /\ founders = {}
  /\ voters' = {n}
  /\ founders' = {n}
  /\ UNCHANGED leaders

AddVoter(n) ==
  /\ leaders # {}
  /\ n \notin voters
  /\ voters' = voters \cup {n}
  /\ UNCHANGED <<founders, leaders>>

Elect(n) ==
  /\ leaders = {}
  /\ n \in voters
  /\ leaders' = {n}
  /\ UNCHANGED <<voters, founders>>

Next == \E n \in Server : Bootstrap(n) \/ AddVoter(n) \/ Elect(n)

Spec == Init /\ [][Next]_mvars
=============================================================================
