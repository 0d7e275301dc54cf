----------------------------- MODULE ZoneService -----------------------------
(***************************************************************************)
(* The zone orchestration of a bobcaygeon management node                  *)
(* (src/cmd/mgmt/raft/service.go, DistributedMgmtService) as seen from the *)
(* node that holds consensus leadership.                                   *)
(*                                                                         *)
(* Each public operation and each membership handler is a goroutine that  *)
(* reads the replicated zone map once, then issues a sequence of RPCs to   *)
(* physical speakers one at a time, and finally writes the map.  A        *)
(* goroutine is a slot of proc; its remaining RPCs are proc[i].plan and   *)
(* the store write it will make at the end is proc[i].zsave / ssave.  Any *)
(* other goroutine, and any membership change, may run between two RPCs. *)
(*                                                                         *)
(* The speaker side of the RPCs (forward targets, broadcast flag, service *)
(* name) is not under src/: it is modelled from the spec's physical-node   *)
(* RPC surface.  An RPC fails exactly when its target is not a live        *)
(* member of the memberlist (getSpeakerClient finds no such node, or the  *)
(* call to a departed node errors).                                        *)
(***************************************************************************)
EXTENDS Naturals, Sequences, FiniteSets, SequencesExt

CONSTANTS
  Speaker,          \* names of the music nodes
  ZoneId,           \* zone ids CreateZone may draw
  Name,             \* display names
  NoName,           \* the empty display name ""
  NoSpeaker,        \* the empty speaker id "" (a zone without leader)
  NoZone,           \* no entry under a key of the replicated map
  MaxOps,           \* bound on the API calls issued
  MaxChurn,         \* bound on memberlist join/leave events
  MaxInFlight,      \* bound on goroutines running at once
  MaxRemove,        \* longest speakerIDs list a disciplined caller removes
  CallerDiscipline, \* callers only group free speakers (spec 3, ZoneConfig)
  PartitionHeal,    \* a speaker may rejoin with its state kept (no restart)
  SaveCanFail       \* the final store write may fail (leadership lost, Apply error)

ASSUME NoSpeaker \notin Speaker /\ NoName \notin Name
ASSUME MaxInFlight \in Nat \ {0}

VARIABLES
  live,     \* music nodes currently in the memberlist
  fwd,      \* fwd[s]: the nodes speaker s forwards audio to
  bcast,    \* bcast[s]: speaker s advertises its AirPlay service
  svcName,  \* svcName[s]: the service name speaker s advertises
  zones,    \* the ZoneConfig entries of the replicated map
  spkName,  \* spkName[s]: SpeakerConfig.DisplayName of s in the map
  proc,     \* proc[i]: the goroutine in slot i
  opCount,  \* API calls issued so far
  churn     \* membership events so far

vars == <<live, fwd, bcast, svcName, zones, spkName, proc, opCount, churn>>

Slot == 1..MaxInFlight
Zone == [name : Name, leader : Speaker \cup {NoSpeaker}, members : Seq(Speaker)]
Idle == [st |-> "idle", node |-> NoSpeaker, plan |-> <<>>, zsave |-> {}, ssave |-> {}]

-----------------------------------------------------------------------------
(* The RPCs of the physical-node API.  mode says what the caller does when *)
(* the RPC fails: "abort" returns, "skip" logs and goes on, "group" ends   *)
(* the removeFromAllSpeakers loop it belongs to and goes on.               *)
Rpc(act, to, ids, on, nm, mode) ==
  [act |-> act, to |-> to, ids |-> ids, on |-> on, nm |-> nm, mode |-> mode]
RemoveAll(s)          == Rpc("RemoveAll", s, {}, FALSE, NoName, "abort")
RemoveIds(s, S, m)    == Rpc("RemoveIds", s, S, FALSE, NoName, m)
Forward(s, S, m)      == Rpc("Forward", s, S, FALSE, NoName, m)
ForwardActive(s, S)   == Rpc("ForwardActive", s, S, FALSE, NoName, "abort")
Broadcast(s, b)       == Rpc("Broadcast", s, {}, b, NoName, "abort")
Rename(s, n)          == Rpc("Rename", s, {}, FALSE, n, "abort")
RenameToConfig(s)     == Rpc("RenameToConfig", s, {}, FALSE, NoName, "abort")
\* removeFromAllSpeakers(S): one RemoveIds to every live speaker, read when
\* the loop starts.
RemoveFromAll(S, m)   == Rpc("RemoveFromAll", NoSpeaker, S, FALSE, NoName, m)

\* GetSpeakers: the Music members of the memberlist (display names, read
\* from the store, are not needed here).
GetSpeakers == live

Members(z) == ToSet(zones[z].members)
Zones == {z \in ZoneId : zones[z] # NoZone}
InZone(s) == \E z \in Zones : s \in Members(z) \/ zones[z].leader = s
SpeakerLists == UNION {SetToSeqs(S) : S \in SUBSET Speaker}
DistinctLists == SpeakerLists \ {<<>>}

\* The RemoveSpeakersFromZone loop: for every member, the inner loop appends
\* it once per element of speakerIDs seen before (and excluding) the first
\* element equal to it.
Copies(m, l) == Cardinality({j \in 1..Len(l) : \A k \in 1..j : l[k] # m})
KeepMembers(ms, l) ==
  FlattenSeq([i \in 1..Len(ms) |-> [c \in 1..Copies(ms[i], l) |-> ms[i]]])

-----------------------------------------------------------------------------
(* The RPC sequences of the operations, in the order the code issues them. *)
\* CreateZone: the first listed speaker leads; a zone created without
\* speakers is saved with Leader "".
ZoneLeader(l) == IF l = <<>> THEN NoSpeaker ELSE l[1]

CreatePlan(n, l) ==
  LET leader == ZoneLeader(l)
      setup(s) == IF s = leader
                  THEN <<RemoveAll(s), Rename(s, n), Broadcast(s, TRUE)>>
                  ELSE <<RemoveAll(s), Broadcast(s, FALSE)>>
  IN FlattenSeq([i \in 1..Len(l) |-> setup(l[i])])
       \o IF l = <<>> THEN <<>>
          ELSE <<RemoveFromAll(ToSet(l), "abort"),
                 Forward(leader, ToSet(l) \ {leader}, "abort")>>

AddPlan(zr, l) ==
  FlattenSeq([i \in 1..Len(l) |->
                IF l[i] = zr.leader THEN <<>>
                ELSE <<RemoveAll(l[i]), Broadcast(l[i], FALSE)>>])
    \o <<RemoveFromAll(ToSet(l), "abort"), Forward(zr.leader, ToSet(l), "abort")>>

RemovePlan(zr, l) ==
  FlattenSeq([i \in 1..Len(l) |->
                IF l[i] = zr.leader THEN <<>> ELSE <<Broadcast(l[i], TRUE)>>])
    \o <<RemoveIds(zr.leader, ToSet(l), "abort")>>

\* Mutant: the leader's forward list is not cleared.
DeletePlanKeepLinks(zr) ==
  FlattenSeq([i \in 1..Len(zr.members) |->
                IF zr.members[i] = zr.leader THEN <<>>
                ELSE <<Broadcast(zr.members[i], TRUE)>>])
    \o IF zr.leader # NoSpeaker THEN <<RenameToConfig(zr.leader)>> ELSE <<>>

DeletePlan(zr) ==
  FlattenSeq([i \in 1..Len(zr.members) |->
                IF zr.members[i] = zr.leader THEN <<>>
                ELSE <<Broadcast(zr.members[i], TRUE)>>])
    \o IF zr.leader # NoSpeaker
       THEN <<RemoveAll(zr.leader), RenameToConfig(zr.leader)>>
       ELSE <<>>

JoinLeaderPlan(n, zr) ==
  <<RemoveFromAll({n}, "group"), ForwardActive(n, ToSet(zr.members)),
    Broadcast(n, TRUE), Rename(n, zr.name)>>

\* Mutant: a rejoining member is not told to stop broadcasting.
JoinMemberPlanKeepBroadcast(n, zr) ==
  <<RemoveFromAll({n}, "group"), Forward(zr.leader, {n}, "skip")>>

JoinMemberPlan(n, zr) ==
  <<RemoveFromAll({n}, "group"), Forward(zr.leader, {n}, "skip"),
    Broadcast(n, FALSE)>>

\* Mutant: the promoted leader is not dropped from its own forward list.
LeavePlanSelf(c, zr) ==
  <<Forward(c, ToSet(zr.members), "abort"), Rename(c, zr.name),
    Broadcast(c, TRUE)>>

LeavePlan(c, zr) ==
  <<Forward(c, ToSet(zr.members) \ {c}, "abort"), Rename(c, zr.name),
    Broadcast(c, TRUE)>>

-----------------------------------------------------------------------------
Init ==
  /\ live = Speaker
  /\ fwd = [s \in Speaker |-> {}]
  /\ bcast = [s \in Speaker |-> TRUE]
  /\ svcName = [s \in Speaker |-> s]
  /\ zones = [z \in ZoneId |-> NoZone]
  /\ spkName = [s \in Speaker |-> NoName]
  /\ proc = [i \in Slot |-> Idle]
  /\ opCount = 0
  /\ churn = 0

speakerVars == <<fwd, bcast, svcName>>

\* An API call arrives on the leader and reads the map in its first step.
Call(i, plan, zsave, ssave) ==
  /\ proc[i].st = "idle"
  /\ opCount < MaxOps
  /\ proc' = [proc EXCEPT ![i] = [st |-> "run", node |-> NoSpeaker,
                plan |-> plan, zsave |-> zsave, ssave |-> ssave]]
  /\ opCount' = opCount + 1
  /\ UNCHANGED <<live, speakerVars, zones, spkName, churn>>

\* A zone id no other zone or running CreateZone holds (63-bit random ids).
FreshZoneId == {z \in ZoneId \ Zones :
                  \A i \in Slot : \A p \in proc[i].zsave : p[1] # z}

\* Disciplined callers pick speakers GetSpeakers lists (live) and no zone holds.
CreateLists == IF CallerDiscipline
               THEN {l \in SpeakerLists :
                       \A k \in 1..Len(l) : l[k] \in GetSpeakers /\ ~InZone(l[k])}
               ELSE SpeakerLists

\* AddSpeakersToZone returns at once for an empty speakerIDs.
AddLists == CreateLists \ {<<>>}

CreateZone(i) ==
  \E z \in FreshZoneId, n \in Name, l \in CreateLists :
    Call(i, CreatePlan(n, l),
         {<<z, [name |-> n, leader |-> ZoneLeader(l), members |-> l]>>}, {})

\* Disciplined callers only act on zones whose leader (if any) and members
\* are live.
Online(z) ==
  CallerDiscipline => (Members(z) \cup ({zones[z].leader} \ {NoSpeaker})) \subseteq live

\* Mutant: append(speakerIDs, zone.Speakers...), the arguments swapped.
AddSpeakersToZonePrepend(i) ==
  \E z \in Zones, l \in AddLists :
    Online(z) /\
    Call(i, AddPlan(zones[z], l),
         {<<z, [zones[z] EXCEPT !.members = l \o @]>>}, {})

AddSpeakersToZone(i) ==
  \E z \in Zones, l \in AddLists :
    Online(z) /\
    Call(i, AddPlan(zones[z], l),
         {<<z, [zones[z] EXCEPT !.members = @ \o l]>>}, {})

\* Disciplined callers remove at most MaxRemove speakers at once.
RemoveLists(z) == IF CallerDiscipline
                  THEN {l \in DistinctLists : Len(l) <= MaxRemove /\ ToSet(l) \subseteq Members(z)}
                  ELSE DistinctLists

RemoveSpeakersFromZone(i) ==
  \E z \in Zones : \E l \in RemoveLists(z) :
    Online(z) /\
    Call(i, RemovePlan(zones[z], l),
         {<<z, [zones[z] EXCEPT !.members = KeepMembers(@, l)]>>}, {})

DeleteZone(i) ==
  \E z \in Zones : Online(z) /\ Call(i, DeletePlan(zones[z]), {<<z, NoZone>>}, {})

ChangeZoneName(i) ==
  \E z \in Zones, n \in Name :
    Online(z) /\ Call(i, <<Rename(zones[z].leader, n)>>,
         {<<z, [zones[z] EXCEPT !.name = n]>>}, {})

\* Mutant: lines 77-79 dropped, so a speaker without a stored config is
\* saved under the zero value's ID "".
SetDisplayNameNoId(i) ==
  \E s \in Speaker, n \in Name, update \in BOOLEAN :
    (CallerDiscipline /\ update => s \in live) /\
    Call(i, IF update THEN <<Rename(s, n)>> ELSE <<>>, {},
         {<<IF spkName[s] = NoName THEN NoSpeaker ELSE s, n>>})

\* GetSpeakerConfig, then (updateBroadcast) ChangeServiceName, then
\* SaveSpeakerConfig keyed by the config's ID, set to ID when it was "".
SetDisplayName(i) ==
  \E s \in Speaker, n \in Name, update \in BOOLEAN :
    (CallerDiscipline /\ update => s \in live) /\ Call(i, IF update THEN <<Rename(s, n)>> ELSE <<>>, {}, {<<s, n>>})

-----------------------------------------------------------------------------
(* Membership events.  NotifyJoin/NotifyLeave of a music node start the   *)
(* handler in a new goroutine (src/cmd/mgmt/bcg-mgmt.go).                   *)
NodeLeave(i) ==
  \E s \in live :
    /\ proc[i].st = "idle"
    /\ churn < MaxChurn
    /\ live' = live \ {s}
    /\ proc' = [proc EXCEPT ![i] = [Idle EXCEPT !.st = "leave", !.node = s]]
    /\ churn' = churn + 1
    /\ UNCHANGED <<speakerVars, zones, spkName, opCount>>

\* A node that comes back either restarted (empty forward list, own name,
\* broadcasting) or, after a healed partition, kept its state.
NodeJoin(i) ==
  \E s \in Speaker \ live, restarted \in IF PartitionHeal THEN BOOLEAN ELSE {TRUE} :
    /\ proc[i].st = "idle"
    /\ churn < MaxChurn
    /\ live' = live \cup {s}
    /\ IF restarted
       THEN /\ fwd' = [fwd EXCEPT ![s] = {}]
            /\ bcast' = [bcast EXCEPT ![s] = TRUE]
            /\ svcName' = [svcName EXCEPT ![s] = s]
       ELSE UNCHANGED speakerVars
    /\ proc' = [proc EXCEPT ![i] = [Idle EXCEPT !.st = "join", !.node = s]]
    /\ churn' = churn + 1
    /\ UNCHANGED <<zones, spkName, opCount>>

\* HandleMusicNodeJoin: a zone the node leads wins (break); otherwise the
\* last zone, in map order, that lists it as member.
HandleMusicNodeJoin(i) ==
  LET n == proc[i].node
      led == {z \in Zones : zones[z].leader = n}
      member == {z \in Zones : n \in Members(z)}
  IN /\ proc[i].st = "join"
     /\ \/ /\ led = {} /\ member = {}
           /\ proc' = [proc EXCEPT ![i] = Idle]
        \/ \E z \in led :
              proc' = [proc EXCEPT ![i].st = "run",
                                   ![i].plan = JoinLeaderPlan(n, zones[z])]
        \/ /\ led = {}
           /\ \E z \in member :
                 proc' = [proc EXCEPT ![i].st = "run",
                                      ![i].plan = JoinMemberPlan(n, zones[z])]
     /\ UNCHANGED <<live, speakerVars, zones, spkName, opCount, churn>>

\* HandleMusicNodeLeave: the first live member in memberlist order (any
\* live member) of the zone the node led is promoted.
HandleMusicNodeLeave(i) ==
  LET n == proc[i].node
      led == {z \in Zones : zones[z].leader = n}
  IN /\ proc[i].st = "leave"
     /\ \/ /\ led = {}
           /\ proc' = [proc EXCEPT ![i] = Idle]
        \/ \E z \in led :
              \/ /\ live \cap Members(z) = {}
                 /\ proc' = [proc EXCEPT ![i] = Idle]
              \/ \E c \in live \cap Members(z) :
                    proc' = [proc EXCEPT ![i].st = "run",
                               ![i].plan = LeavePlan(c, zones[z]),
                               ![i].zsave = {<<z, [zones[z] EXCEPT !.leader = c]>>}]
     /\ UNCHANGED <<live, speakerVars, zones, spkName, opCount, churn>>

-----------------------------------------------------------------------------
(* One RPC of a running goroutine.                                         *)
Rpc1(i) == Head(proc[i].plan)
Running(i, act) ==
  /\ proc[i].st = "run"
  /\ proc[i].plan # <<>>
  /\ Rpc1(i).act = act
Done(i) == proc' = [proc EXCEPT ![i].plan = Tail(@)]
Deliver(i, act) == Running(i, act) /\ Rpc1(i).to \in live /\ Done(i)
SetFwd(i, f) == fwd' = [fwd EXCEPT ![Rpc1(i).to] = f]
frame == <<live, zones, spkName, opCount, churn>>

\* removeFromAllSpeakers: GetSpeakers() snapshot, then one call per speaker.
RemoveFromAllSpeakers(i) ==
  /\ Running(i, "RemoveFromAll")
  /\ proc' = [proc EXCEPT ![i].plan =
                [k \in 1..Cardinality(GetSpeakers) |->
                   RemoveIds(SetToSeq(GetSpeakers)[k], Rpc1(i).ids, Rpc1(i).mode)]
                \o Tail(@)]
  /\ UNCHANGED <<speakerVars, frame>>

RemoveForwardToNodes(i) ==
  /\ Deliver(i, "RemoveAll") \/ Deliver(i, "RemoveIds")
  /\ SetFwd(i, IF Rpc1(i).act = "RemoveAll" THEN {} ELSE fwd[Rpc1(i).to] \ Rpc1(i).ids)
  /\ UNCHANGED <<bcast, svcName, frame>>

ForwardToNodes(i) ==
  /\ Deliver(i, "Forward")
  /\ SetFwd(i, fwd[Rpc1(i).to] \cup Rpc1(i).ids)
  /\ UNCHANGED <<bcast, svcName, frame>>

\* HandleMusicNodeJoin of a leader: the zone members live at this moment.
ForwardToActiveMembers(i) ==
  /\ Deliver(i, "ForwardActive")
  /\ SetFwd(i, fwd[Rpc1(i).to] \cup ((Rpc1(i).ids \cap live) \ {Rpc1(i).to}))
  /\ UNCHANGED <<bcast, svcName, frame>>

ToggleBroadcast(i) ==
  /\ Deliver(i, "Broadcast")
  /\ bcast' = [bcast EXCEPT ![Rpc1(i).to] = Rpc1(i).on]
  /\ UNCHANGED <<fwd, svcName, frame>>

ChangeServiceName(i) ==
  /\ Deliver(i, "Rename")
  /\ svcName' = [svcName EXCEPT ![Rpc1(i).to] = Rpc1(i).nm]
  /\ UNCHANGED <<fwd, bcast, frame>>

\* DeleteZone: GetSpeakerConfig of the leader, then ChangeServiceName to
\* its DisplayName, "" when it has no SpeakerConfig.
RestoreServiceName(i) ==
  /\ Deliver(i, "RenameToConfig")
  /\ svcName' = [svcName EXCEPT ![Rpc1(i).to] = spkName[Rpc1(i).to]]
  /\ UNCHANGED <<fwd, bcast, frame>>

\* The target is gone: return, skip the call, or end the enclosing loop.
RpcFails(i) ==
  /\ proc[i].st = "run"
  /\ proc[i].plan # <<>>
  /\ Rpc1(i).act # "RemoveFromAll"
  /\ Rpc1(i).to \notin live
  /\ proc' = [proc EXCEPT ![i] =
       CASE Rpc1(i).mode = "abort" -> Idle
         [] Rpc1(i).mode = "skip"  -> [@ EXCEPT !.plan = Tail(@)]
         [] OTHER -> [@ EXCEPT !.plan =
                        SelectSeq(Tail(@), LAMBDA r : r.mode # "group")]]
  /\ UNCHANGED <<speakerVars, frame>>

\* SaveZoneConfig / DeleteZoneConfig / SaveSpeakerConfig after the last RPC.
\* The write fails when raft.State() is no longer Leader or Apply errs; the
\* zone operations ignore that error, SetDisplayName returns it.
Commit(i) ==
  LET zw == [z \in ZoneId |->
               IF \E p \in proc[i].zsave : p[1] = z
               THEN (CHOOSE p \in proc[i].zsave : p[1] = z)[2]
               ELSE zones[z]]
      sw == [s \in DOMAIN spkName \cup {p[1] : p \in proc[i].ssave} |->
               IF \E p \in proc[i].ssave : p[1] = s
               THEN (CHOOSE p \in proc[i].ssave : p[1] = s)[2]
               ELSE spkName[s]]
  IN \E saved \in IF SaveCanFail THEN BOOLEAN ELSE {TRUE} :
       /\ proc[i].st = "run"
       /\ proc[i].plan = <<>>
       /\ zones' = IF saved THEN zw ELSE zones
       /\ spkName' = IF saved THEN sw ELSE spkName
       /\ proc' = [proc EXCEPT ![i] = Idle]
       /\ UNCHANGED <<live, speakerVars, opCount, churn>>

-----------------------------------------------------------------------------
Step(i) ==
  \/ HandleMusicNodeJoin(i) \/ HandleMusicNodeLeave(i)
  \/ RemoveFromAllSpeakers(i) \/ RemoveForwardToNodes(i) \/ ForwardToNodes(i)
  \/ ForwardToActiveMembers(i) \/ ToggleBroadcast(i) \/ ChangeServiceName(i)
  \/ RestoreServiceName(i) \/ RpcFails(i) \/ Commit(i)

Env(i) ==
  \/ CreateZone(i) \/ AddSpeakersToZone(i) \/ RemoveSpeakersFromZone(i)
  \/ DeleteZone(i) \/ ChangeZoneName(i) \/ SetDisplayName(i)
  \/ NodeLeave(i) \/ NodeJoin(i)

Next == \E i \in Slot : Env(i) \/ Step(i)

\* Goroutines are scheduled: a started handler or call runs to its end.
Fairness == \A i \in Slot : WF_vars(Step(i))

Spec == Init /\ [][Next]_vars /\ Fairness

-----------------------------------------------------------------------------
TypeOK ==
  /\ live \subseteq Speaker
  /\ fwd \in [Speaker -> SUBSET Speaker]
  /\ bcast \in [Speaker -> BOOLEAN]
  /\ svcName \in [Speaker -> Speaker \cup Name \cup {NoName}]
  /\ zones \in [ZoneId -> Zone \cup {NoZone}]
  /\ spkName \in [Speaker -> Name \cup {NoName}]
  /\ \A i \in Slot : proc[i].st \in {"idle", "join", "leave", "run"}
  /\ opCount \in 0..MaxOps /\ churn \in 0..MaxChurn

\* No goroutine is running: the state the system settles in.
Quiescent == \A i \in Slot : proc[i].st = "idle"

(* The live forwarding links form trees of depth one, as the spec's       *)
(* global invariant asks: no live speaker forwards to itself, every       *)
(* speaker is fed by at most one live speaker, and a speaker that is fed  *)
(* forwards to no one.  CreateZone, AddSpeakersToZone and the join        *)
(* handler rely on removeFromAllSpeakers and RemoveAll for this.          *)
ForwardingIsDepthOneForest ==
  \A s \in Speaker :
    /\ s \in live => s \notin fwd[s]
    /\ Cardinality({u \in live : s \in fwd[u]}) <= 1
    /\ (\E u \in live : s \in fwd[u]) => (s \in live => fwd[s] \cap live = {})

(* When no goroutine runs, every zone whose persisted leader is live is   *)
(* wired as its ZoneConfig says: the leader broadcasts and forwards to    *)
(* every live member, and no live member but the leader broadcasts.       *)
ZoneTopologyMatchesConfig ==
  Quiescent =>
    \A z \in Zones :
      LET L == zones[z].leader
          others == (live \cap Members(z)) \ {L}
      IN L \in live => /\ bcast[L]
                       /\ others \subseteq fwd[L]
                       /\ \A m \in others : ~bcast[m]

(* When no goroutine runs, a live speaker that no zone lists broadcasts   *)
(* on its own: deleting a zone or removing a speaker from it hands the    *)
(* speaker back to its users.                                             *)
FreeSpeakersBroadcast ==
  Quiescent => \A s \in live : ~InZone(s) => bcast[s]

(* When no goroutine runs, every live forwarding link is a link of a zone: *)
(* u forwards audio to s only if u is the persisted leader of a zone that *)
(* lists s.  A speaker removed from a zone, a deleted zone's leader, a    *)
(* promoted member's old links and a rejoining node must all be cleaned  *)
(* by RemoveForwardToNodes, RemoveAll and removeFromAllSpeakers, across  *)
(* several calls and membership events, or a speaker keeps playing a     *)
(* zone it no longer belongs to.                                          *)
ForwardingMatchesConfig ==
  Quiescent =>
    \A u, s \in live :
      s \in fwd[u] => \E z \in Zones : zones[z].leader = u /\ s \in Members(z)

(* Once every goroutine has finished, the live forwarding links form     *)
(* depth-one trees: a rejoining node's handler, HandleMusicNodeJoin, has  *)
(* had its chance to repair whatever state the node came back with.      *)
SettledForest == Quiescent => ForwardingIsDepthOneForest

(* No live speaker advertises the empty service name.                    *)
NoEmptyServiceName == \A s \in live : svcName[s] # NoName
\* The first live speaker of the zone's persisted member list.
FirstLive(z) ==
  zones[z].members[CHOOSE k \in DOMAIN zones[z].members :
                     /\ zones[z].members[k] \in live
                     /\ \A j \in 1..k-1 : zones[z].members[j] \notin live]
(* HandleMusicNodeLeave promotes the first live speaker in the zone's     *)
(* persisted member order (spec 4.4 and 8: "promotes B (first live in     *)
(* list order)").                                                          *)
PromotesFirstLiveMember ==
  [][\A z \in ZoneId :
       (zones[z] # NoZone /\ zones'[z] # NoZone
        /\ zones'[z].leader # zones[z].leader)
         => zones'[z].leader = FirstLive(z)]_zones

\* The abstract zone catalogue over the same persisted map.
Catalog == INSTANCE ZoneCatalog

(* The persisted zones change only by the atomic operations of spec 4.4   *)
(* applied to the current map: every SaveZoneConfig/DeleteZoneConfig of  *)
(* an operation or a self-healing handler is a create, add, set-difference *)
(* remove, delete, rename or promotion of what is stored at that moment.   *)
CatalogRefinement == Catalog!Spec

=============================================================================
