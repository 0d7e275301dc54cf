# TLA+ models of bobcaygeon

bobcaygeon is a multi-room AirPlay system. **Music nodes** are speakers.
Each one runs an AirPlay receiver and can forward the audio it receives to
other speakers. **Management nodes** form a raft cluster. Its replicated map
stores speaker and zone configuration, and the consensus leader
orchestrates zones by calling the speakers' management RPCs (forward to,
stop forwarding to, broadcast on/off, change service name). All nodes find
one another through memberlist gossip; management nodes also find one
another through mDNS. This directory holds TLA+ models of the parts where
ordering, concurrency and failure matter, and the TLC configurations that
check them.

## 1. Inventory

| Component | Source | State | Operations | Interacts with |
|---|---|---|---|---|
| Zone orchestration service | `src/cmd/mgmt/raft/service.go` | none of its own. It reads and writes ZoneConfig/SpeakerConfig in the store, and changes each speaker's forward set, broadcast flag and service name over RPC | SetDisplayName, CreateZone, AddSpeakersToZone, RemoveSpeakersFromZone, DeleteZone, ChangeZoneName, HandleMusicNodeJoin, HandleMusicNodeLeave, SetMuteForSpeaker, the read-only Get* calls, and forwarding a call from a follower to the leader | store, memberlist, speakers |
| Management node event handling | `src/cmd/mgmt/bcg-mgmt.go` | memberlist handle, store, service | NotifyJoin (mgmt: `store.Join`; music: `go HandleMusicNodeJoin`), NotifyLeave (mgmt: nothing; music: `go HandleMusicNodeLeave`), main (search, join, register, bootstrap decision) | memberlist, mDNS, store, service |
| Replicated store | `src/cmd/mgmt/raft/store.go` | `m` (id → entry) per node, raft log, snapshots | Save/Delete (leader only, `raft.Apply` with a 10 s timeout), Apply (set/delete), Snapshot, Persist, Restore, Join, AmLeader/GetLeader | raft, service |
| Membership fan-out and filters | `src/cluster/cluster.go` | none | EventDelegate fan-out, FilterMembers, FilterMembersByFn | memberlist |
| Cluster discovery | `src/cluster/cluster.go` | mDNS browse channel | SearchForCluster (5 s timeout) | mDNS |
| Node metadata codec | `src/cluster/cluster.go` | none | NodeMeta, DecodeNodeMeta (log.Fatal on error) | memberlist |
| Forwarding player sessions | `src/player/forwarding/forwardingPlayer.go` | session map (RWMutex) | NotifyJoin → `go initSession` (3 retries, then addSession), NotifyLeave → removeSession, RemoveAllSessions, SetVolume/SetTrack fan-out | memberlist, RTSP |
| Local player audio | `src/player/player.go` | volume, mute, track | AdjustAudio, Play, setters | audio device |
| DACP client tests | `src/raop/dacp_test.go` | none | unit tests | none |

These are the behaviours that are hard to test:
- every membership handler runs in its own goroutine, concurrently with API calls and with other handlers, and nothing serialises them;
- every zone operation reads the store at its start and writes it at its end, after a sequence of RPCs to speakers that can each fail, with no rollback;
- leader promotion depends on memberlist order;
- a rejoining node may have restarted, or may come back from a partition with its state;
- the raft FSM's snapshots, restores and log compaction interact with crashes.

## 2. Plan

1. **ZoneService** (built): the service of the leader management node. It covers the API operations and both membership handlers, interleaved at RPC granularity, over a model of the speakers.
2. **ZoneCatalog** (built): the abstract zone catalogue that ZoneService refines. The refinement is checked in the sequential run and fails with two goroutines (lost update).
3. **ReplicatedStore** (built): the raft FSM over an abstract committed log. It covers leader-only writes, apply, snapshot/persist, restore, crash and restart, and install-snapshot.
4. **MgmtCluster** (built): the start-up of management nodes. It covers the mDNS search, memberlist join and register, the bootstrap decision, the late event delegate, and store.Join.
5. **Next:**
   - NotifyLeave of management nodes and quorum loss (no RemoveServer).
   - **ZoneOverStore**, composing ZoneService with ReplicatedStore, so that leadership can be lost between `AmLeader` and the final save.
   - AdjustAudio and prepareVolume as pure operators over a scaled volume, checked against a reference.

## 3. Modules

### ZoneService.tla (with MC_ZoneService.tla)

The model takes the view of the node that holds raft leadership. The
store is the variables `zones` and `spkName`, and the model assumes every
save succeeds unless `SaveCanFail` is set. The speakers are `live` (music nodes in the memberlist),
`fwd`, `bcast` and `svcName`. The speaker side of the RPCs lives outside
`src/`, in the physical-node API, so it is modelled from the spec.

Each goroutine is a slot of `proc`. A call or handler fills its slot with
`plan`, the remaining RPCs in the code's order (`CreatePlan`, `AddPlan`,
`RemovePlan`, `DeletePlan`, `JoinLeaderPlan`, `JoinMemberPlan`,
`LeavePlan`). It also fills `zsave`/`ssave`, the writes it makes at the
end.

- **API actions** (`CreateZone` … `SetDisplayName`) read `zones` in their first step, as `GetZoneConfigs` does.
- **Membership events:** `NodeLeave`/`NodeJoin` change `live` and spawn a handler. The handler reads the store only when it runs: `HandleMusicNodeJoin`/`HandleMusicNodeLeave` build their plan then.
- **One RPC per step:**
  - `RemoveFromAllSpeakers` expands into one RemoveIds per live speaker.
  - `RemoveForwardToNodes`, `ForwardToNodes`, `ForwardToActiveMembers`, `ToggleBroadcast`, `ChangeServiceName` and `RestoreServiceName` each deliver one RPC.
  - `RpcFails` handles an RPC whose target is not in the memberlist. Depending on the call site, the code returns (`abort`), logs and continues (`skip`), or ends the removeFromAllSpeakers loop (`group`).
- **`Commit`** writes the store after the last RPC. With `SaveCanFail` the write may not land: the zone operations ignore that error, as the code does.

Go map iteration order decides which zone a join handler picks. The model
keeps both rules: a zone the node leads wins (`break`), and otherwise it
takes any zone listing the node. Memberlist order decides which candidate
gets promoted, so the model takes any live member. `KeepMembers` models the
nested loop of RemoveSpeakersFromZone exactly.

Constants:
- `CallerDiscipline` restricts the calls to what a careful client sends:
  - only live speakers that no zone holds are grouped;
  - only zones whose members, and leader if the zone has one, are live are touched;
  - at most `MaxRemove` ids are removed at once.
- `PartitionHeal` lets a rejoining node keep its state.
- `SaveCanFail` lets the final SaveZoneConfig/DeleteZoneConfig/SaveSpeakerConfig fail. Every run sets it to FALSE. With TRUE, TLC finds `ForwardingMatchesConfig` violated at depth 14. One CreateZone loses its save, and its leader keeps forwarding to members of a zone that is not stored. `FreeSpeakersBroadcast` fails in the same way, because those members stay silenced.
- CreateZone may be given no speakers, as the code allows (the comment on it says "0 to more speakers"). It then issues no RPC and saves the zone with Leader "" (`ZoneLeader`). AddSpeakersToZone on that zone silences the new speakers, then aborts at `getSpeakerClient("")`; ChangeZoneName aborts at the same call. The run zone_empty_zone_add shows the result in a single goroutine.
- The abort without rollback (service.go:135) also bites when a node leaves inside a call, which needs two goroutine slots. With `MaxInFlight = 2`, one call and one leave, TLC finds `FreeSpeakersBroadcast` violated at depth 10: the zone leader leaves while CreateZone runs, and a member that was told to stop broadcasting is left live, silent and in no zone. This configuration is not a run of its own.

### ZoneCatalog.tla (refined by ZoneService)

This module states what the zone operations promise of the persisted zone
map (spec 4.4). Each change is one atomic `Create`, `AddSpeakers` (append),
`RemoveSpeakers` (set difference), `Delete`, `Rename` or `Promote` of the
current map. ZoneService instances it as `Catalog` over the same variable
`zones`. The constants share their names, so the refinement mapping is the
identity on `zones`. `CatalogRefinement == Catalog!Spec` is a PROPERTY.

A failed save, and a Commit of an operation that changes nothing, are
stuttering steps. Removing every member matches `RemoveSpeakers` with the
whole list, so the refinement is not trivially preserved by dropping data. A
lost update, however, writes a map that no single operation makes from the
current one.

### MgmtCluster.tla (with MC_MgmtCluster.tla)

`pc[n]` follows `main()` of `bcg-mgmt.go` step by step:
1. `Create` (memberlist.Create);
2. `SearchForCluster` (any advertised node, or nil when none is advertised);
3. `JoinCluster` (list.Join: the entry's members and n know each other, and the members get a join notification later);
4. `Register` (zeroconf);
5. `Open` (initDistributedStore: bootstrap when `FilterMembers(Mgmt)` has one node);
6. `SetEvents` (c.Events, line 150).

`NotifyJoin(m, j)` delivers a pending notification. It is dropped when `m` has
not reached SetEvents. Otherwise it runs `StoreJoin`, which ignores the
request on a non-leader and AddVoters `j` on the leader. raft itself is
`cl` (the cluster a node is a voter of, named after its bootstrapper) and
`Elect`.
- `SearchCanMiss` lets SearchForCluster return nil while a cluster is advertised. That happens when the UDP multicast answer is lost or arrives after the 5 s timeout (`Found`). The passing run sets it FALSE.
- `StaggeredStart` is the operator discipline under which the code works:
  a node starts only once the running ones serve and a raft leader exists.
- `Bootstrap` leaves a node that already has raft state alone, as
  BootstrapCluster does when it returns ErrCantBootstrap. The code ignores
  that error.

### RaftMembership.tla (abstract, refined by MgmtCluster)

This is what the join protocol (spec 4.3) promises of raft. Its state is
three sets: `voters` (the configuration), `founders` (servers that
bootstrapped one) and `leaders` (servers that currently lead). The spec has
three actions:
- `Bootstrap(n)` runs only while nobody has bootstrapped;
- `AddVoter(n)` runs only while a leader exists;
- `Elect(n)` elects a voter when there is no leader.

No step removes a voter. MgmtCluster maps onto it with `INSTANCE
RaftMembership WITH`, every abstract variable a set computed from the
detailed state (no CHOOSE):
- `voters` is every node with `cl[n] # NoNode`, whichever cluster it is in;
- `founders` is every cluster name in use, `{cl[n]} \ {NoNode}`; a cluster
  is named after the node that bootstrapped it;
- `leaders` is the elected leader of every cluster that has one.

What the refinement forbids:
- A second bootstrap, at any time: `founders` grows to two, which no
  abstract step does. A second bootstrap while a leader exists also adds a
  voter, but it cannot pass for `AddVoter`, which keeps `founders`.
- Two leaders at once, in the same or in different clusters: `leaders`
  becomes a set of two, and `Elect` only runs when `leaders` is empty.
- A voter that enters while no cluster has a leader.

It does not say that the voter was added by the leader of the same
cluster, or that an AddVoter happened at all rather than some other step
with the same effect on these three sets.

### ReplicatedStore.tla (with MC_ReplicatedStore.tla)

raft is abstracted to what the FSM relies on:
- one committed `log`;
- a `leader` that accepts `Save`;
- `Apply` of the next entry on each server, while its log store still holds it;
- `TakeSnapshot`, after which the log store is compacted (`firstLog`) up to the snapshot minus `Trailing`;
- `Crash`, `Restart` (Restore of the newest retained snapshot) and `InstallSnapshot` (the leader's newest snapshot, stored and restored on a lagging follower).

`fsmSnapshot.Persist` returns `sink.Cancel()` when its write fails. That
value is nil, so raft treats the snapshot as stored and compacts the log
anyway. The model copies this behaviour: with `PersistCanFail` a snapshot
may not reach `snaps` while `firstLog` still advances. `Replay` is the
reference semantics of the command log, an independent recursive
definition that the properties compare replicas against.

## 4. Runs

### ZoneService runs

All runs use three speakers, two zone ids and two names. `MaxInFlight = 1` means one goroutine at a time.

| Run | cfg | Expect | What it shows |
|---|---|---|---|
| zone_sequential | ZoneSequential.cfg | pass | Disciplined callers, one goroutine at a time, `MaxOps = 2`, `MaxChurn = 3`. About 204 k distinct states in under a minute; every action fires. It checks `CatalogRefinement` (every change of the stored zones is one catalogue operation), `TypeOK` (its mutant saves a speaker without a stored config under the key ""), `ForwardingIsDepthOneForest` (the spec's "trees of depth one" invariant), `ZoneTopologyMatchesConfig` (when idle, every zone with a live leader is wired as stored) and `ForwardingMatchesConfig` (when idle, every live forwarding link runs from a stored zone's leader to a member it lists, the converse of `ZoneTopologyMatchesConfig`). |
| zone_concurrent | ZoneConcurrent.cfg | violation | Two goroutines at once. A leave handler that runs after its node rejoined promotes a second leader, and the forwarding is no longer a depth-one forest. |
| zone_partition_heal | ZonePartitionHeal.cfg | violation | `SettledForest`: the forest invariant once every goroutine is done, so the rejoin handler has run. A leader removed from its own member list leaves, a member is promoted, and the old leader returns from a partition with its forward list. HandleMusicNodeJoin finds it in no zone and returns, so two live speakers keep forwarding to the same member (26 states). |
| zone_remove_many | ZoneRemoveMany.cfg | violation | `MaxRemove = 2`. The nested loop in RemoveSpeakersFromZone keeps a removed speaker in the stored zone. |
| zone_empty_name | ZoneEmptyName.cfg | violation | DeleteZone renames a leader that has no SpeakerConfig to "". |
| zone_promotion_order | ZonePromotionOrder.cfg | violation | Promotion follows memberlist order, not the zone's list order. |
| zone_empty_zone_add | ZoneEmptyZoneAdd.cfg | violation | `FreeSpeakersBroadcast` (when idle, a live speaker that no zone lists broadcasts). One goroutine, no membership events: CreateZone with no speakers, then AddSpeakersToZone on that zone silences the speaker and aborts at `getSpeakerClient("")`, leaving it silent and in no zone (11 states). |
| zone_undisciplined | ZoneUndisciplined.cfg | violation | Callers without discipline: AddSpeakersToZone with the leader among the ids makes the leader forward to itself. |
| zone_lost_update | ZoneLostUpdate.cfg | violation | Two speakers, one zone id, two goroutines, `MaxOps = 3`. RemoveSpeakersFromZone and ChangeZoneName overlap. The rename's save writes back the copy it read at its start, so the removed speaker returns: `CatalogRefinement` fails. |

### ReplicatedStore runs

Both runs use two servers, two keys, one value, `MaxLog = 3`, `MaxCrash = 2`, `Retain = 2` and `Trailing = 0`.

| Run | cfg | Expect | What it shows |
|---|---|---|---|
| store_reliable_disk | StoreReliableDisk.cfg | pass | About 227 k distinct states. It checks `ReplicaMatchesLog`: every running replica is the replay of the log prefix it applied, across snapshots, restarts and installs. Its mutant makes Restore merge into the map instead of replacing it. |
| store_failing_disk | StoreFailingDisk.cfg | violation | A snapshot write fails, raft compacts anyway, and after a crash the server restarts without the compacted entries. It can never catch up: with a single server no one can send it a snapshot, and none of its own covers the gap. |

### MgmtCluster runs

| Run | cfg | Expect | What it shows |
|---|---|---|---|
| mgmt_staggered_start | MgmtStaggered.cfg | pass | Four management nodes started one at a time; 33,881 distinct states, 8 s. It checks `TypeOK`, `MembershipRefinement` (the start-up implements RaftMembership: one founder, voters added only while a leader exists, at most one leader over all clusters) and `AllNodesVoters` (liveness: eventually all nodes are voters of one cluster). |

Without the stagger, the model breaks both properties. These results were
observed with TLC but are not in the run list:
- With `SearchCanMiss = TRUE` and a staggered start, the second node's search misses the serving first node. It bootstraps a second cluster, and `MembershipRefinement` fails at state 13. Starting nodes one at a time therefore relies on mDNS answers arriving within the 5 s search timeout.
- With `StaggeredStart = FALSE`, two nodes time out in SearchForCluster, and both bootstrap. TLC reports the second bootstrap as a step of `MembershipRefinement` that RaftMembership does not allow (11 states).
- When a node starts before the first one's raft has elected it, the join reaches a node that is not yet leader. Join returns nil and nothing repeats the notification, so `AllNodesVoters` fails.

Every property of a pass run has a mutant in `PROJECT.json`: a plausible
bug in one mapped definition, which TLC must catch with the run's cfg.

## 5. Bounds

- **ZoneService, 3 speakers and 2 zone ids.** With three speakers a zone can have a leader and two members, and a second zone or a free speaker can exist beside it. Promotion has more than one candidate, and a forwarding chain of length two is possible.
- **MaxOps = 2, MaxChurn = 3 (sequential run).** Two calls let a zone be created and then changed or deleted around a leave and rejoin. Three calls with the refinement check take about four minutes, so the run keeps two. The violation runs that need three calls (partition heal, remove many, lost update) keep three.
- **Lost update: 2 speakers, 1 zone id.** One zone with a leader and one member suffices for two calls to overlap on it.
- **MgmtCluster, 4 nodes.** The fourth node can find any of three registered nodes, and two of them are followers. Its join notifications then go to the leader and to two followers, each of which ignores the request, while notifications from earlier joins may still be in flight. Three servers of the store model do not finish in ten minutes, so the store keeps two.
- **Concurrent runs, MaxOps = 1.** They keep `MaxOps = 1` so that TLC finishes in minutes. Their counterexamples need only one call.
- **Empty-zone run, MaxOps = 2, MaxChurn = 0.** Two calls (create, then add) are the whole counterexample; no membership event is needed.
- **ReplicatedStore, `Trailing = 0`.** It stands for raft's default of 10240 trailing entries, scaled down, so that compaction happens within three entries.
- **MaxCrash = 2.** Two crashes let a follower fall behind, and let a server crash again after an install or a restart.

## 6. Fairness

- **ZoneService:** `WF_vars(Step(i))` for every goroutine slot. A started handler or call is a goroutine that the Go scheduler runs to its end. No ZoneService run checks a liveness property at present, so this fairness only documents the scheduling. Callers and membership events get no fairness, since nothing forces them to happen. Every run sets `CHECK_DEADLOCK FALSE`, because the system rightly stops when no caller acts and no node joins or leaves.
- **MgmtCluster:** weak fairness on each node's `main` steps (a goroutine that runs to the `select` on the signal channel), on each notification (memberlist gossip delivers it) and on `Elect` per cluster (raft elects a leader among running voters). `Create` is inside the first group, since the operator starts every node. The run sets `CHECK_DEADLOCK FALSE`: once all nodes serve, nothing more happens, as in the code.
- **ReplicatedStore:** weak fairness on `Apply` and `InstallSnapshot` per server, used by `ReplicasCatchUp` in store_failing_disk. raft's apply loop and replication run continuously on live servers. Elections, crashes and writes are not fair. The cfgs set `CHECK_DEADLOCK FALSE` for the same reason.

## 7. Not modelled

- **SetMuteForSpeaker, the Get\* reads and follower-to-leader forwarding:**
  - SetMuteForSpeaker is one RPC and touches no shared state;
  - the Get\* calls only read;
  - forwarding goes through `getLeaderClient` and has no state of its own. Which member it reaches depends on the form of the leader's raft address: the bootstrapper advertises `":port"`, and `isLocalIP` tests the inverse of its name (hazard at service.go:515). That form is decided by the raft library, which is not in the repository, and the repository records no version of it. So the forwarding path cannot be modelled faithfully.
- **Management-node departures and crashes:** NotifyLeave of a mgmt node is empty, and MgmtCluster has no leaves or crashes. A crash while a node is starting does not fit the passing run. A leader crash, or a 2-voter leader stepping down after its follower crashed, leaves no leader. The starting node's join notification is then dropped and never retried, so `AllNodesVoters` fails for the reason already recorded at store.go:169. Each of the two crash hazards in PROJECT.json (the panic at bcg-mgmt.go:136 and the stale leader read at store.go:106) would need its own violation run. The project already has the most runs it can hold. Join's remove-then-add of a server under a new address (store.go:185-190) is not reached, because ids and addresses are fixed. The panic after a failed list.Join (bcg-mgmt.go:136) is not reached either, because the node that SearchForCluster returned never stops.
- **The mDNS browsing goroutine** of SearchForCluster: whether an entry arrives after cancel is up to the zeroconf library. The search is one step.
- **The data race of `Restore` with readers** (`ds.m = o` without the lock): a reader sees either the old or the new map, both valid states, so the store model cannot tell them apart.
- **The forwarding player:** `NewPlayer` returns `nil, nil`, and no code of the repository constructs a forwarding Player, so none of its handlers run. It is not modelled.
- **Audio arithmetic, RTSP/AirPlay streaming, the NodeMeta JSON codec and the DACP tests:** pure I/O or float arithmetic, with no state.
