--------------------------- MODULE ReplicatedStore ---------------------------
(***************************************************************************)
(* The consensus-replicated map of the management nodes                    *)
(* (src/cmd/mgmt/raft/store.go, DistributedStore as a raft.FSM).           *)
(*                                                                         *)
(* raft itself (hashicorp/raft) is not part of the repository; it is       *)
(* abstracted to the guarantees the FSM relies on: one committed log that *)
(* every server applies in order, one leader that accepts Apply, periodic *)
(* snapshots after which the log store is compacted, and restore from the *)
(* newest retained snapshot when a server starts.  What the FSM code does *)
(* at each of these points is modelled as written: applySet/applyDelete,  *)
(* Snapshot (a clone of m), fsmSnapshot.Persist and Restore.              *)
(***************************************************************************)
EXTENDS Naturals, Sequences, FiniteSets

CONSTANTS
  Server,          \* management nodes of the raft cluster
  Key,             \* keys of the map (speaker and zone ids)
  Value,           \* entries (SpeakerConfig or ZoneConfig values)
  Absent,          \* no entry under a key
  NoServer,        \* raft.Leader() returns "" : no known leader
  Retain,          \* retainSnapshotCount
  Trailing,        \* raft TrailingLogs: entries kept after a snapshot
  MaxLog,          \* bound on committed entries
  MaxCrash,        \* bound on crashes
  PersistCanFail   \* writing a snapshot to disk may fail

ASSUME Absent \notin Value /\ NoServer \notin Server
ASSUME Retain \in Nat \ {0} /\ Trailing \in Nat

VARIABLES
  leader,    \* the server whose raft.State() is Leader, or NoServer
  log,       \* the committed log: a sequence of commands
  up,        \* servers that are running
  m,         \* m[n]: DistributedStore.m on server n
  applied,   \* applied[n]: index of the last entry applied to m[n]
  snaps,     \* snaps[n]: snapshots retained on n's disk, newest last
  firstLog,  \* firstLog[n]: lowest log index still in n's log store
  crashes    \* crashes so far

vars == <<leader, log, up, m, applied, snaps, firstLog, crashes>>

Command == [op : {"set"}, key : Key, value : Value] \cup
           [op : {"delete"}, key : Key, value : {Absent}]
Map == [Key -> Value \cup {Absent}]
EmptyMap == [k \in Key |-> Absent]

\* The map a fresh FSM reaches by applying the commands of s in order.
RECURSIVE Replay(_)
Replay(s) ==
  IF s = <<>> THEN EmptyMap
  ELSE LET prev == Replay(SubSeq(s, 1, Len(s) - 1))
           c == s[Len(s)]
       IN [prev EXCEPT ![c.key] = IF c.op = "set" THEN c.value ELSE Absent]

NewestSnapIdx(n) == IF snaps[n] = <<>> THEN 0 ELSE snaps[n][Len(snaps[n])].idx
Min2(a, b) == IF a < b THEN a ELSE b
Max2(a, b) == IF a > b THEN a ELSE b

\* Appends snapshot s to those retained on n's disk, keeping Retain.
Retained(n, s) ==
  LET all == Append(snaps[n], s)
  IN SubSeq(all, Max2(1, Len(all) - Retain + 1), Len(all))

-----------------------------------------------------------------------------
Init ==
  /\ leader = NoServer
  /\ log = <<>>
  /\ up = Server
  /\ m = [n \in Server |-> EmptyMap]
  /\ applied = [n \in Server |-> 0]
  /\ snaps = [n \in Server |-> <<>>]
  /\ firstLog = [n \in Server |-> 1]
  /\ crashes = 0

\* An election: raft only elects a running server; the old leader steps down.
BecomeLeader(n) ==
  /\ n \in up
  /\ leader # n
  /\ leader' = n
  /\ UNCHANGED <<log, up, m, applied, snaps, firstLog, crashes>>

\* SaveSpeakerConfig / SaveZoneConfig / DeleteZoneConfig on server n: only
\* the leader marshals the command and hands it to raft.Apply.
Save(n, c) ==
  /\ leader = n
  /\ Len(log) < MaxLog
  /\ log' = Append(log, c)
  /\ UNCHANGED <<leader, up, m, applied, snaps, firstLog, crashes>>

SaveConfig(n) == \E k \in Key, v \in Value : Save(n, [op |-> "set", key |-> k, value |-> v])
DeleteConfig(n) == \E k \in Key : Save(n, [op |-> "delete", key |-> k, value |-> Absent])

\* Apply: the next committed entry, when n's log store still holds it,
\* goes through applySet or applyDelete under the lock.
Apply(n) ==
  LET c == log[applied[n] + 1]
  IN /\ n \in up
     /\ applied[n] < Len(log)
     /\ applied[n] + 1 >= firstLog[n]
     /\ m' = [m EXCEPT ![n][c.key] = IF c.op = "set" THEN c.value ELSE Absent]
     /\ applied' = [applied EXCEPT ![n] = @ + 1]
     /\ UNCHANGED <<leader, log, up, snaps, firstLog, crashes>>

\* Snapshot clones m; fsmSnapshot.Persist writes it.  When the write fails
\* Persist returns sink.Cancel(), which is nil, so raft takes the snapshot
\* as stored either way and compacts the log up to it, keeping Trailing
\* entries.  A stored snapshot joins the Retain newest ones.
TakeSnapshot(n) ==
  \E stored \in IF PersistCanFail THEN BOOLEAN ELSE {TRUE} :
    /\ n \in up
    /\ applied[n] > NewestSnapIdx(n)
    /\ applied[n] > firstLog[n] - 1
    /\ snaps' = IF stored
                THEN [snaps EXCEPT ![n] =
                        Retained(n, [idx |-> applied[n], data |-> m[n]])]
                ELSE snaps
    /\ firstLog' = [firstLog EXCEPT ![n] =
                      Max2(@, Min2(applied[n], Len(log) - Trailing) + 1)]
    /\ UNCHANGED <<leader, log, up, m, applied, crashes>>

Crash(n) ==
  /\ n \in up
  /\ crashes < MaxCrash
  /\ up' = up \ {n}
  /\ leader' = IF leader = n THEN NoServer ELSE leader
  /\ crashes' = crashes + 1
  /\ UNCHANGED <<log, m, applied, snaps, firstLog>>

\* NewRaft restores the newest retained snapshot through Restore, which
\* replaces m with the decoded map; an empty disk starts from an empty map.
Restart(n) ==
  /\ n \notin up
  /\ up' = up \cup {n}
  /\ m' = [m EXCEPT ![n] = IF snaps[n] = <<>> THEN EmptyMap
                            ELSE snaps[n][Len(snaps[n])].data]
  /\ applied' = [applied EXCEPT ![n] = NewestSnapIdx(n)]
  /\ UNCHANGED <<leader, log, snaps, firstLog, crashes>>

\* Mutant: Restore merges the snapshot into the existing map.
InstallSnapshotMerge(n) ==
  LET l == leader
      s == snaps[l][Len(snaps[l])]
  IN /\ l \in up /\ n \in up /\ n # l
     /\ applied[n] + 1 < firstLog[l]
     /\ snaps[l] # <<>>
     /\ m' = [m EXCEPT ![n] = [k \in Key |-> IF s.data[k] # Absent THEN s.data[k] ELSE m[n][k]]]
     /\ applied' = [applied EXCEPT ![n] = s.idx]
     /\ snaps' = [snaps EXCEPT ![n] = Retained(n, s)]
     /\ firstLog' = [firstLog EXCEPT ![n] = firstLog[l]]
     /\ UNCHANGED <<leader, log, up, crashes>>

\* A follower that needs entries the leader has compacted receives the
\* leader's newest snapshot (InstallSnapshot): raft stores it on the
\* follower's disk and Restore replaces the follower's map with it.
InstallSnapshot(n) ==
  LET l == leader
      s == snaps[l][Len(snaps[l])]
  IN /\ l \in up /\ n \in up /\ n # l
     /\ applied[n] + 1 < firstLog[l]
     /\ snaps[l] # <<>>
     /\ m' = [m EXCEPT ![n] = s.data]
     /\ applied' = [applied EXCEPT ![n] = s.idx]
     /\ snaps' = [snaps EXCEPT ![n] = Retained(n, s)]
     /\ firstLog' = [firstLog EXCEPT ![n] = firstLog[l]]
     /\ UNCHANGED <<leader, log, up, crashes>>

Next ==
  \E n \in Server :
    \/ BecomeLeader(n) \/ SaveConfig(n) \/ DeleteConfig(n) \/ Apply(n)
    \/ TakeSnapshot(n) \/ Crash(n) \/ Restart(n) \/ InstallSnapshot(n)

\* raft's apply loop and replication run on every live server.
Fairness == \A n \in Server : WF_vars(Apply(n)) /\ WF_vars(InstallSnapshot(n))

Spec == Init /\ [][Next]_vars /\ Fairness

-----------------------------------------------------------------------------
TypeOK ==
  /\ leader \in Server \cup {NoServer}
  /\ log \in Seq(Command) /\ Len(log) <= MaxLog
  /\ up \subseteq Server
  /\ m \in [Server -> Map]
  /\ applied \in [Server -> 0..MaxLog]
  /\ \A n \in Server : \A i \in DOMAIN snaps[n] :
       snaps[n][i].idx \in 1..MaxLog /\ snaps[n][i].data \in Map
  /\ firstLog \in [Server -> 1..MaxLog + 1]
  /\ crashes \in 0..MaxCrash

(* Deterministic replay: the map of every running server is the map the  *)
(* committed log produces up to the entry the server has applied, across *)
(* snapshots, restarts and snapshot installs (spec 3 and the              *)
(* snapshot/restore round trip of spec 8).                                *)
ReplicaMatchesLog ==
  \A n \in up : m[n] = Replay(SubSeq(log, 1, applied[n]))

(* Every running server eventually applies every committed entry.         *)
ReplicasCatchUp ==
  \A n \in Server : []<>(n \notin up \/ applied[n] = Len(log))
=============================================================================
