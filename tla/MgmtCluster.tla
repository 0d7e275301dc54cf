----------------------------- MODULE MgmtCluster -----------------------------
(***************************************************************************)
(* Start-up of the management nodes (src/cmd/mgmt/bcg-mgmt.go main):      *)
(* memberlist.Create, SearchForCluster over mDNS, list.Join to the entry   *)
(* found, zeroconf.Register, initDistributedStore (bootstrap a raft       *)
(* cluster iff the memberlist holds one management node) and, last, the   *)
(* event delegate that turns a NotifyJoin of a management node into        *)
(* DistributedStore.Join (AddVoter, on the raft leader only).              *)
(*                                                                         *)
(* memberlist and raft are libraries.  A memberlist cluster is abstracted *)
(* to the set of nodes each node knows; a join notification to a node is  *)
(* a message delivered some time later, and dropped when that node has    *)
(* not yet installed its event delegate (c.Events is nil until line 150). *)
(* A raft cluster is named after the node that bootstrapped it; raft      *)
(* elects one of its opened voters.                                        *)
(***************************************************************************)
EXTENDS Naturals, FiniteSets

CONSTANTS
  Node,            \* management nodes
  NoNode,          \* no mDNS entry found / in no raft cluster / no leader
  StaggeredStart,  \* an operator starts a node only once the others serve
  SearchCanMiss    \* an mDNS answer may be lost or come after the timeout

VARIABLES
  pc,        \* pc[n]: how far main() of n has got
  known,     \* known[n]: members of n's memberlist (list.Members())
  registered,\* nodes advertising the cluster service over mDNS
  entry,     \* entry[n]: what SearchForCluster returned to n
  cl,        \* cl[n]: the raft cluster n is a voter of
  leader,    \* leader[c]: the elected leader of raft cluster c
  notices    \* join notifications in flight: <<receiver, joined node>>

vars == <<pc, known, registered, entry, cl, leader, notices>>

Phase == {"down", "search", "join", "register", "open", "events", "serving"}

Serving == {n \in Node : pc[n] = "serving"}

\* A raft node exists once Open has run (initRaft).
Opened(n) == pc[n] \in {"events", "serving"}

-----------------------------------------------------------------------------
Init ==
  /\ pc = [n \in Node |-> "down"]
  /\ known = [n \in Node |-> {}]
  /\ registered = {}
  /\ entry = [n \in Node |-> NoNode]
  /\ cl = [n \in Node |-> NoNode]
  /\ leader = [c \in Node |-> NoNode]
  /\ notices = {}

\* memberlist.Create: the node knows itself.  With staggered start the
\* operator waits until every started node serves and a raft leader exists.
Create(n) ==
  /\ pc[n] = "down"
  /\ StaggeredStart =>
       /\ \A m \in Node : pc[m] \in {"down", "serving"}
       /\ (\E m \in Node : pc[m] # "down") => \E c \in Node : leader[c] # NoNode
  /\ pc' = [pc EXCEPT ![n] = "search"]
  /\ known' = [known EXCEPT ![n] = {n}]
  /\ UNCHANGED <<registered, entry, cl, leader, notices>>

\* SearchForCluster: the first advertised entry with an IPv4 address, or
\* nil when the five second browse times out without one, because none is
\* advertised or (SearchCanMiss) the multicast answer did not arrive in time.
Found == IF registered = {} THEN {NoNode}
         ELSE IF SearchCanMiss THEN registered \cup {NoNode} ELSE registered

SearchForCluster(n) ==
  /\ pc[n] = "search"
  /\ \E e \in Found :
       entry' = [entry EXCEPT ![n] = e]
  /\ pc' = [pc EXCEPT ![n] = "join"]
  /\ UNCHANGED <<known, registered, cl, leader, notices>>

\* list.Join to the entry: a push/pull makes n and the entry's members know
\* each other; those members are notified of n later, by gossip.  n's own
\* notifications arrive while its c.Events is still nil and are dropped.
\* A failed list.Join panics (line 136); the entry is a registered node,
\* and nodes here never stop, so the join always reaches it.
JoinCluster(n) ==
  /\ pc[n] = "join"
  /\ IF entry[n] = NoNode
     THEN UNCHANGED <<known, notices>>
     ELSE LET group == known[entry[n]] \cup {n}
          IN /\ known' = [m \in Node |-> IF m \in group THEN group ELSE known[m]]
             /\ notices' = notices \cup {<<m, n>> : m \in known[entry[n]]}
  /\ pc' = [pc EXCEPT ![n] = "register"]
  /\ UNCHANGED <<registered, entry, cl, leader>>

\* Mutant: the node advertises the entry it found rather than itself.
RegisterFoundEntry(n) ==
  /\ pc[n] = "register"
  /\ registered' = registered \cup {entry[n]}
  /\ pc' = [pc EXCEPT ![n] = "open"]
  /\ UNCHANGED <<known, entry, cl, leader, notices>>

\* zeroconf.Register: n advertises the cluster service.
Register(n) ==
  /\ pc[n] = "register"
  /\ registered' = registered \cup {n}
  /\ pc' = [pc EXCEPT ![n] = "open"]
  /\ UNCHANGED <<known, entry, cl, leader, notices>>

\* cluster.FilterMembers(cluster.Mgmt, list): every member is a management node.
NumMgmtNodes(n) == Cardinality(known[n])

\* initRaft with bootstrap: BootstrapCluster with n as the only server; on a
\* node that already holds raft state it fails (ErrCantBootstrap, ignored).
Bootstrap(n) == IF cl[n] = NoNode THEN [cl EXCEPT ![n] = n] ELSE cl

\* Mutant: store.Open(true), every node bootstraps.
OpenAlwaysBootstrap(n) ==
  /\ pc[n] = "open"
  /\ cl' = Bootstrap(n)
  /\ pc' = [pc EXCEPT ![n] = "events"]
  /\ UNCHANGED <<known, registered, entry, leader, notices>>

\* initDistributedStore: Open(numMgmtNodes == 1).
Open(n) ==
  /\ pc[n] = "open"
  /\ cl' = IF NumMgmtNodes(n) = 1 THEN Bootstrap(n) ELSE cl
  /\ pc' = [pc EXCEPT ![n] = "events"]
  /\ UNCHANGED <<known, registered, entry, leader, notices>>

\* c.Events = NewEventDelegate(...): from now on n handles notifications.
SetEvents(n) ==
  /\ pc[n] = "events"
  /\ pc' = [pc EXCEPT ![n] = "serving"]
  /\ UNCHANGED <<known, registered, entry, cl, leader, notices>>

\* Mutant: the handler tests for cluster.Music where it means Mgmt.
NotifyJoinWrongType(m, j) ==
  /\ <<m, j>> \in notices
  /\ notices' = notices \ {<<m, j>>}
  /\ UNCHANGED <<pc, known, registered, entry, cl, leader>>

IsLeader(m) == cl[m] # NoNode /\ leader[cl[m]] = m

\* DistributedStore.Join(j) on m: a node that is not the raft leader ignores
\* the request and returns nil; the leader AddVoters j, a no-op when j is
\* already a voter.  A leader of another cluster that is added steps down.
\* Every node keeps one id and one address, so no server of the
\* configuration matches the joining node by only one of the two, and the
\* RemoveServer branch (lines 185-190) is never taken.
StoreJoin(m, j) ==
  /\ cl' = IF IsLeader(m) THEN [cl EXCEPT ![j] = cl[m]] ELSE cl
  /\ leader' = IF IsLeader(m) /\ cl[j] \notin {NoNode, cl[m]} /\ IsLeader(j)
               THEN [leader EXCEPT ![cl[j]] = NoNode]
               ELSE leader

\* A notification reaches m; without an event delegate it is dropped.
\* memberHandler.NotifyJoin of a management node calls store.Join.
NotifyJoin(m, j) ==
  /\ <<m, j>> \in notices
  /\ notices' = notices \ {<<m, j>>}
  /\ IF m \in Serving THEN StoreJoin(m, j) ELSE UNCHANGED <<cl, leader>>
  /\ UNCHANGED <<pc, known, registered, entry>>

\* raft elects an opened voter of a cluster without a leader.
Elect(c, n) ==
  /\ leader[c] = NoNode
  /\ cl[n] = c
  /\ Opened(n)
  /\ leader' = [leader EXCEPT ![c] = n]
  /\ UNCHANGED <<pc, known, registered, entry, cl, notices>>

Next ==
  \/ \E n \in Node :
       \/ Create(n) \/ SearchForCluster(n) \/ JoinCluster(n) \/ Register(n)
       \/ Open(n) \/ SetEvents(n)
  \/ \E m, j \in Node : NotifyJoin(m, j)
  \/ \E c, n \in Node : Elect(c, n)

\* main() runs to its end on every started node, memberlist gossip delivers
\* every notification, raft elects a leader; the operator starts every node.
Fairness ==
  /\ \A n \in Node : WF_vars(Create(n) \/ SearchForCluster(n) \/ JoinCluster(n)
                             \/ Register(n) \/ Open(n) \/ SetEvents(n))
  /\ \A m, j \in Node : WF_vars(NotifyJoin(m, j))
  /\ \A c \in Node : WF_vars(\E n \in Node : Elect(c, n))

Spec == Init /\ [][Next]_vars /\ Fairness

-----------------------------------------------------------------------------
TypeOK ==
  /\ pc \in [Node -> Phase]
  /\ known \in [Node -> SUBSET Node]
  /\ registered \subseteq Node
  /\ entry \in [Node -> Node \cup {NoNode}]
  /\ cl \in [Node -> Node \cup {NoNode}]
  /\ leader \in [Node -> Node \cup {NoNode}]
  /\ notices \subseteq Node \X Node

\* The raft configuration the start-up is meant to build: every node in a
\* raft cluster is a voter, every node that named a cluster after itself
\* bootstrapped one, and every elected node of any cluster leads.
Membership == INSTANCE RaftMembership
  WITH Server <- Node,
       voters <- {n \in Node : cl[n] # NoNode},
       founders <- {cl[n] : n \in Node} \ {NoNode},
       leaders <- {leader[c] : c \in Node} \ {NoNode}

(* The start-up builds one raft configuration: bootstrapped once by one   *)
(* node, grown only by voters its leader adds, led by one elected voter   *)
(* at a time.  The bootstrap rule of initDistributedStore                 *)
(* (numMgmtNodes == 1), the mDNS search before it and store.Join's leader  *)
(* check have to ensure this between them; a second bootstrap or a second *)
(* leader (split brain) is a step the abstract membership never takes.    *)
MembershipRefinement == Membership!Spec

(* Every management node eventually is, and stays, a voter of the one raft *)
(* cluster: the leader's event delegate receives each node's join and      *)
(* DistributedStore.Join adds it (spec 4.3, join protocol).                *)
AllNodesVoters == <>[](\E c \in Node : \A n \in Node : cl[n] = c)
=============================================================================
