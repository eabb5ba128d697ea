---------------------------- MODULE MCService -------------------------------
(***************************************************************************)
(* Small instances of what stands between the Raft log and a client: the   *)
(* KV state machine with its durable store and its snapshots, the MVCC     *)
(* state machine, the change log its events go to, and the routing of      *)
(* requests over the hash ring.  They are explored side by side in one     *)
(* run.  The switches of the configuration are the disturbances under      *)
(* which a property of the component is known to fail.                     *)
(***************************************************************************)
EXTENDS Naturals, TLC

CONSTANTS
    None,
    StoreFaults, Overwrites, Overlap,  \* KVStateMachine, KVInstall
    Collisions,                        \* Ring
    LosesProposals, SlowProbes,        \* Routing
    n1, n2                             \* its nodes

VARIABLES
    part,   \* the component that runs in this behaviour
    log,   \* KVStateMachine, KVInstall, Mvcc, Routing
    commit, delivered, queue, applying, lastApplied, client, requests,   \* KVStateMachine, KVInstall, Mvcc
    chosen, entries, data, file, synced, tracker, index, snap,   \* KVStateMachine, KVInstall
    applied,   \* KVStateMachine, KVInstall, Routing
    restarts,   \* KVStateMachine, KVInstall, Mvcc, ChangeLog
    held, saved, capture, install, captures,   \* KVInstall
    base, installs,   \* KVInstall, Mvcc
    sm, conflictResults, processed, assigned, events, start, skipped,
    snapshots,   \* Mvcc
    history, baseOffset, closed, subscribers, publishing, latest, published,
    evicted, conns, panicked,   \* ChangeLog
    vnodeHash, points, nodeByHash, nodes,   \* Ring
    owner, up, healthy, failures, leader, leaderID, proposals, commitIndex,
    store, req, acked, issued, leaders, crashes   \* Routing

(* Two handlers and a running node. *)
KV == INSTANCE KVStateMachine WITH
    Keys <- {"k1"}, Clients <- {"c1", "c2"}, Ops <- {"set", "bad"},
    MaxEntries <- 2, MaxRequests <- 2, MaxRestarts <- 0, MaxKeys <- 2

(* A node that restarts twice, losing what was not synced. *)
KVRestart == INSTANCE KVStateMachine WITH
    Keys <- {"k1"}, Clients <- {"c1"}, Ops <- {"set", "del", "other"},
    MaxEntries <- 2, MaxRequests <- 0, MaxRestarts <- 2, MaxKeys <- 2

(* Two snapshots of its own and a restart. *)
KVSnapshots == INSTANCE KVInstall WITH
    Keys <- {"k1", "k2"}, Clients <- {"c1"}, Ops <- {"set", "del", "other"},
    MaxEntries <- 2, MaxRequests <- 0, MaxRestarts <- 1, MaxKeys <- 3,
    MaxCaptures <- 2, MaxInstalls <- 0

(* A snapshot of the leader reaches a node that serves requests. *)
KVInstalls == INSTANCE KVInstall WITH
    Keys <- {"k1"}, Clients <- {"c1"}, Ops <- {"set", "bad"},
    MaxEntries <- 3, MaxRequests <- 2, MaxRestarts <- 0, MaxKeys <- 3,
    MaxCaptures <- 1, MaxInstalls <- 1

(* Two handlers whose swaps compete. *)
Mvcc == INSTANCE Mvcc WITH
    Keys <- {"k1"}, Clients <- {"c1", "c2"}, Ops <- {"set", "cas"},
    MaxEntries <- 3, MaxExpected <- 1, MaxRequests <- 2, MaxRestarts <- 0,
    MaxSnapshots <- 0, MaxInstalls <- 0, Retention <- 2

(* Every kind of entry, a snapshot of the node and a restart. *)
History == INSTANCE Mvcc WITH
    Keys <- {"k1", "k2"}, Clients <- {"c1"}, Ops <- {"set", "cas", "del", "config", "bad"},
    MaxEntries <- 3, MaxExpected <- 2, MaxRequests <- 0, MaxRestarts <- 1,
    MaxSnapshots <- 1, MaxInstalls <- 0, Retention <- 1

(* A snapshot of the leader that leaves the versions as they were. *)
MvccInstalls == INSTANCE Mvcc WITH
    Keys <- {"k1"}, Clients <- {"c1"}, Ops <- {"set", "cas"},
    MaxEntries <- 3, MaxExpected <- 1, MaxRequests <- 2, MaxRestarts <- 0,
    MaxSnapshots <- 0, MaxInstalls <- 1, Retention <- 2

(* Two streams over a history of two events. *)
Cdc == INSTANCE ChangeLog WITH
    MaxConns <- 2, MaxOffset <- 3, MaxRestarts <- 0, HistoryLimit <- 2,
    BufSize <- 1

(* One stream and a restart of the node. *)
CdcRestart == INSTANCE ChangeLog WITH
    MaxConns <- 1, MaxOffset <- 4, MaxRestarts <- 1, HistoryLimit <- 2,
    BufSize <- 2

(* One ring, nodes that move to another address. *)
Ring == INSTANCE Ring WITH
    Processes <- {"p1"}, Ids <- {"i1", "i2", "i3"}, Addrs <- {"x", "y"},
    VnodeCount <- 2, HashSize <- 6

(* Two processes that learn of the nodes in different orders. *)
Rings == INSTANCE Ring WITH
    Processes <- {"p1", "p2"}, Ids <- {"i1", "i2", "i3"}, Addrs <- {"x"},
    VnodeCount <- 2, HashSize <- 6

(* Two clients and two leaderships. *)
Route == INSTANCE Routing WITH
    Nodes <- {n1, n2}, Keys <- {"k"}, Clients <- {"c1", "c2"}, MaxRequests <- 2,
    MaxLeaders <- 2, MaxCrashes <- 0, MaxHops <- 1

(* One client that follows no redirect, two leaderships and a crash. *)
RouteCrash == INSTANCE Routing WITH
    Nodes <- {n1, n2}, Keys <- {"k"}, Clients <- {"c1"}, MaxRequests <- 3,
    MaxLeaders <- 2, MaxCrashes <- 1, MaxHops <- 0

kVInstallMvccRouteVars == <<log>>
KVInstallMvccRouteUnused ==
    /\ log = None

applyVars == <<commit, delivered, queue, applying, lastApplied, client,
              requests>>
ApplyUnused ==
    /\ commit = None /\ delivered = None /\ queue = None /\ applying = None
    /\ lastApplied = None /\ client = None /\ requests = None

kVVars == <<chosen, entries, data, file, synced, tracker, index, snap>>
KVUnused ==
    /\ chosen = None /\ entries = None /\ data = None /\ file = None
    /\ synced = None /\ tracker = None /\ index = None /\ snap = None

kVInstallRouteVars == <<applied>>
KVInstallRouteUnused ==
    /\ applied = None

restartVars == <<restarts>>
RestartUnused ==
    /\ restarts = None

installVars == <<held, saved, capture, install, captures>>
InstallUnused ==
    /\ held = None /\ saved = None /\ capture = None /\ install = None
    /\ captures = None

installMvccVars == <<base, installs>>
InstallMvccUnused ==
    /\ base = None /\ installs = None

mvccVars == <<sm, conflictResults, processed, assigned, events, start, skipped,
             snapshots>>
MvccUnused ==
    /\ sm = None /\ conflictResults = None /\ processed = None
    /\ assigned = None /\ events = None /\ start = None /\ skipped = None
    /\ snapshots = None

cdcVars == <<history, baseOffset, closed, subscribers, publishing, latest,
            published, evicted, conns, panicked>>
CdcUnused ==
    /\ history = None /\ baseOffset = None /\ closed = None
    /\ subscribers = None /\ publishing = None /\ latest = None
    /\ published = None /\ evicted = None /\ conns = None /\ panicked = None

ringVars == <<vnodeHash, points, nodeByHash, nodes>>
RingUnused ==
    /\ vnodeHash = None /\ points = None /\ nodeByHash = None /\ nodes = None

routeVars == <<owner, up, healthy, failures, leader, leaderID, proposals,
              commitIndex, store, req, acked, issued, leaders, crashes>>
RouteUnused ==
    /\ owner = None /\ up = None /\ healthy = None /\ failures = None
    /\ leader = None /\ leaderID = None /\ proposals = None
    /\ commitIndex = None /\ store = None /\ req = None /\ acked = None
    /\ issued = None /\ leaders = None /\ crashes = None

vars == <<part, kVInstallMvccRouteVars, applyVars, kVVars, kVInstallRouteVars,
          restartVars, installVars, installMvccVars, mvccVars, cdcVars,
          ringVars, routeVars>>

(* Each behaviour is one of one component; the variables of the others rest. *)
Init ==
    \/ part = "kv" /\ KV!Init
       /\ InstallUnused /\ InstallMvccUnused /\ MvccUnused /\ CdcUnused
       /\ RingUnused /\ RouteUnused
    \/ part = "kv restart" /\ KVRestart!Init
       /\ InstallUnused /\ InstallMvccUnused /\ MvccUnused /\ CdcUnused
       /\ RingUnused /\ RouteUnused
    \/ part = "kv snapshot" /\ KVSnapshots!InstallInit
       /\ MvccUnused /\ CdcUnused /\ RingUnused /\ RouteUnused
    \/ part = "kv install" /\ KVInstalls!InstallInit
       /\ MvccUnused /\ CdcUnused /\ RingUnused /\ RouteUnused
    \/ part = "mvcc" /\ Mvcc!Init
       /\ KVUnused /\ KVInstallRouteUnused /\ InstallUnused /\ CdcUnused
       /\ RingUnused /\ RouteUnused
    \/ part = "mvcc history" /\ History!Init
       /\ KVUnused /\ KVInstallRouteUnused /\ InstallUnused /\ CdcUnused
       /\ RingUnused /\ RouteUnused
    \/ part = "mvcc install" /\ MvccInstalls!Init
       /\ KVUnused /\ KVInstallRouteUnused /\ InstallUnused /\ CdcUnused
       /\ RingUnused /\ RouteUnused
    \/ part = "cdc" /\ Cdc!Init
       /\ KVInstallMvccRouteUnused /\ ApplyUnused /\ KVUnused
       /\ KVInstallRouteUnused /\ InstallUnused /\ InstallMvccUnused
       /\ MvccUnused /\ RingUnused /\ RouteUnused
    \/ part = "cdc restart" /\ CdcRestart!Init
       /\ KVInstallMvccRouteUnused /\ ApplyUnused /\ KVUnused
       /\ KVInstallRouteUnused /\ InstallUnused /\ InstallMvccUnused
       /\ MvccUnused /\ RingUnused /\ RouteUnused
    \/ part = "ring" /\ Ring!Init
       /\ KVInstallMvccRouteUnused /\ ApplyUnused /\ KVUnused
       /\ KVInstallRouteUnused /\ RestartUnused /\ InstallUnused
       /\ InstallMvccUnused /\ MvccUnused /\ CdcUnused /\ RouteUnused
    \/ part = "two rings" /\ Rings!Init
       /\ KVInstallMvccRouteUnused /\ ApplyUnused /\ KVUnused
       /\ KVInstallRouteUnused /\ RestartUnused /\ InstallUnused
       /\ InstallMvccUnused /\ MvccUnused /\ CdcUnused /\ RouteUnused
    \/ part = "routing" /\ Route!Init
       /\ ApplyUnused /\ KVUnused /\ RestartUnused /\ InstallUnused
       /\ InstallMvccUnused /\ MvccUnused /\ CdcUnused /\ RingUnused
    \/ part = "routing crash" /\ RouteCrash!Init
       /\ ApplyUnused /\ KVUnused /\ RestartUnused /\ InstallUnused
       /\ InstallMvccUnused /\ MvccUnused /\ CdcUnused /\ RingUnused

Next ==
    \/ /\ part = "kv" /\ KV!Next
       /\ UNCHANGED <<part, installVars, installMvccVars, mvccVars, cdcVars,
                     ringVars, routeVars>>
    \/ /\ part = "kv restart" /\ KVRestart!Next
       /\ UNCHANGED <<part, installVars, installMvccVars, mvccVars, cdcVars,
                     ringVars, routeVars>>
    \/ /\ part = "kv snapshot" /\ KVSnapshots!InstallNext
       /\ UNCHANGED <<part, mvccVars, cdcVars, ringVars, routeVars>>
    \/ /\ part = "kv install" /\ KVInstalls!InstallNext
       /\ UNCHANGED <<part, mvccVars, cdcVars, ringVars, routeVars>>
    \/ /\ part = "mvcc" /\ Mvcc!Next
       /\ UNCHANGED <<part, kVVars, kVInstallRouteVars, installVars, cdcVars,
                     ringVars, routeVars>>
    \/ /\ part = "mvcc history" /\ History!Next
       /\ UNCHANGED <<part, kVVars, kVInstallRouteVars, installVars, cdcVars,
                     ringVars, routeVars>>
    \/ /\ part = "mvcc install" /\ MvccInstalls!Next
       /\ UNCHANGED <<part, kVVars, kVInstallRouteVars, installVars, cdcVars,
                     ringVars, routeVars>>
    \/ /\ part = "cdc" /\ Cdc!Next
       /\ UNCHANGED <<part, kVInstallMvccRouteVars, applyVars, kVVars,
                     kVInstallRouteVars, installVars, installMvccVars,
                     mvccVars, ringVars, routeVars>>
    \/ /\ part = "cdc restart" /\ CdcRestart!Next
       /\ UNCHANGED <<part, kVInstallMvccRouteVars, applyVars, kVVars,
                     kVInstallRouteVars, installVars, installMvccVars,
                     mvccVars, ringVars, routeVars>>
    \/ /\ part = "ring" /\ Ring!Next
       /\ UNCHANGED <<part, kVInstallMvccRouteVars, applyVars, kVVars,
                     kVInstallRouteVars, restartVars, installVars,
                     installMvccVars, mvccVars, cdcVars, routeVars>>
    \/ /\ part = "two rings" /\ Rings!Next
       /\ UNCHANGED <<part, kVInstallMvccRouteVars, applyVars, kVVars,
                     kVInstallRouteVars, restartVars, installVars,
                     installMvccVars, mvccVars, cdcVars, routeVars>>
    \/ /\ part = "routing" /\ Route!Next
       /\ UNCHANGED <<part, applyVars, kVVars, restartVars, installVars,
                     installMvccVars, mvccVars, cdcVars, ringVars>>
    \/ /\ part = "routing crash" /\ RouteCrash!Next
       /\ UNCHANGED <<part, applyVars, kVVars, restartVars, installVars,
                     installMvccVars, mvccVars, cdcVars, ringVars>>

Spec == Init /\ [][Next]_vars

(* The nodes of Routing are interchangeable; those of the others are strings. *)
Symmetry == Permutations({n1, n2})

-----------------------------------------------------------------------------
(* "204: committed and applied": a PUT is answered when that very command   *)
(* is in the map.                                                           *)
AckedApplied == part = "kv" => KV!TypeOK /\ KV!AckedApplied

(* INV-UKV1: a GET sees every entry up to its read index, in the KV state   *)
(* machine also with a snapshot installed under it.  In the MVCC state      *)
(* machine, which no snapshot reaches (RaftNode.stateMachine is the KV      *)
(* one), it sees every such entry that was handed to the machine: those an  *)
(* install replaced are missing.                                            *)
ReadsCurrent ==
    /\ part = "kv" => KV!ReadsCurrent
    /\ part = "kv install" => KVInstalls!ReadsCurrent
    /\ part = "mvcc" => Mvcc!ReadsCurrent
    /\ part = "mvcc install" => MvccInstalls!ReadsCurrent

(* main: "INV-2 violation: impossible under correct operation": kv.wal      *)
(* never holds a checkpoint past the end of the Raft log, and a restarted   *)
(* node that has applied its log again has the map the log says, and so has *)
(* what it would rebuild from kv.wal, whose checkpoint is the last set or   *)
(* delete: the swaps and configurations of the fan-out, which advance       *)
(* lastApplied, do not reach kv.wal.                                        *)
StoreAgrees ==
    part = "kv restart" => KVRestart!StoreBehindLog /\ KVRestart!CaughtUpAgrees

(* The same from a snapshot, the log after it and whatever is left of       *)
(* kv.wal, and after an install of the leader's snapshot.  A snapshot taken *)
(* while apply() is between its steps is one that the entries after its     *)
(* index lead to the committed state from.                                  *)
RecoveredAgrees ==
    /\ part = "kv" => KV!SnapshotReplays
    /\ part = "kv snapshot" => KVSnapshots!InstallTypeOK /\ KVSnapshots!RecoveredAgrees
    /\ part = "kv install" => KVInstalls!RecoveredAgrees

(* A PUT's answer is the fate of its own entry, and a 409 carries the       *)
(* version that was current when apply() refused it.  The 204 of an entry   *)
(* that an install replaced is the one exception: it is given with the      *)
(* entry in no version.                                                     *)
AnswersTrue ==
    /\ part = "mvcc" => Mvcc!TypeOK /\ Mvcc!AnswersTrue
    /\ part = "mvcc install" => MvccInstalls!AnswersTrue


(* "replay events from offset N, then live": a stream has each event once   *)
(* and in order from the offset it asked for, and misses only what its full *)
(* buffer dropped (INV-CDC2, INV-CDC7) and what was published between the   *)
(* end of its replay and its Subscribe; a replay that is not refused misses *)
(* nothing that was evicted (INV-CDC6).  Of this, the order also holds when *)
(* the node was restarted.                                                  *)
NoSilentGap ==
    /\ part = "cdc" =>
        Cdc!TypeOK /\ Cdc!NoSilentGap /\ Cdc!StreamOrdered /\ Cdc!HistoryIsTail
    /\ part = "cdc restart" => CdcRestart!InOrder

(* Lookup finds the registered Node, at its current address, with the       *)
(* nearest virtual node clockwise, after any additions and removals; so     *)
(* processes that know the same nodes send a key to the same one, whatever  *)
(* the order in which they learned of them.                                 *)
OwnersAgree ==
    /\ part = "ring" => Ring!TypeOK /\ Ring!LookupIsNearest
    /\ part = "two rings" => Rings!OwnersAgree

(* A node that joins takes keys and moves none between the others; one that *)
(* leaves gives up its own keys only.                                       *)
MinimalMovement == [][part = "ring" => Ring!MovesMinimally]_vars

(* On each path alone a read returns a put at least as recent as every one  *)
(* acknowledged on it before the read was sent, over redirects, restarts    *)
(* and state machines that lag, and over failovers if the leader that       *)
(* answers had committed an entry of its own term: ReadIndex returns its    *)
(* own commitIndex.  A request for an owner that is down is refused, never  *)
(* stored elsewhere.                                                        *)
PathConsistent ==
    /\ part = "routing" => Route!TypeOK /\ Route!PathConsistent /\ Route!DataAtOwner
    /\ part = "routing crash" => RouteCrash!PathConsistent /\ RouteCrash!DataAtOwner
=============================================================================
