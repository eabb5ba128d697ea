---------------------------- MODULE MCLive ----------------------------------
(***************************************************************************)
(* What must eventually happen.  Small instances of the components are     *)
(* explored side by side under the fairness their goroutines, timers and   *)
(* retries justify.  Every bound on disturbances (crashes, breaks, changes *)
(* of role) makes them stop in the end, and a property says where the      *)
(* component then comes to rest.                                           *)
(***************************************************************************)
EXTENDS Naturals, Sequences

CONSTANT None

VARIABLES
    part,   \* the component that runs in this behaviour
    last, lcommit, lsnap, next, xfer, base, applyCh, sm, buf, capt, snaps,   \* RaftSnapshot
    match,   \* RaftSnapshot, RaftConfig
    log,   \* RaftSnapshot, KVStateMachine, Routing, RaftConfig
    commit,   \* RaftSnapshot, KVStateMachine, RaftConfig
    applied,   \* RaftSnapshot, KVStateMachine, Routing
    wal,   \* RaftSnapshot, Ingestion
    up,   \* RaftSnapshot, Routing
    crashes,   \* RaftSnapshot, Routing, RaftConfig
    chosen, entries, delivered, queue, applying, data, lastApplied, file,
    tracker, index, requests, snap,   \* KVStateMachine
    synced, client,   \* KVStateMachine, WalReplication
    restarts,   \* KVStateMachine, ChangeLog
    history, baseOffset, closed, subscribers, publishing, latest, published,
    evicted, conns,   \* ChangeLog
    panicked,   \* ChangeLog, Ingestion
    files, records, current, active, handle, stream, wire, rfile, lagPrimary,
    lagReplica, budget,   \* WalReplication
    role,   \* WalReplication, RaftConfig
    phase, starts, replayed, pool, content, call, jobCh, jobChClosed, worker,
    step, nextEvent, accepted, processed,   \* Ingestion
    owner, healthy, failures, leader, leaderID, proposals, commitIndex, store,
    acked, issued, leaders,   \* Routing
    req,   \* Routing, RaftConfig
    term, votedFor, config, clients, peers, ballot, resume, commands   \* RaftConfig

(* A follower behind a compacted log; calls are lost, it crashes once. *)
Snapshot == INSTANCE RaftSnapshot WITH
    MaxIndex <- 3, MaxCrashes <- 1, MaxTransfers <- 1, Chunks <- 2,
    RetainCount <- 2, Threshold <- 1, OwnSnapshots <- FALSE, Overlap <- FALSE

(* A state machine whose node restarts. *)
KV == INSTANCE KVStateMachine WITH
    Keys <- {"k1"}, Clients <- {"c1"}, Ops <- {"set", "other"},
    MaxEntries <- 2, MaxRequests <- 0, MaxRestarts <- 1, MaxKeys <- 2,
    StoreFaults <- FALSE, Overwrites <- FALSE

(* A write and a read that wait for their index. *)
Waits == INSTANCE KVStateMachine WITH
    Keys <- {"k1"}, Clients <- {"c1", "c2"}, Ops <- {"set"},
    MaxEntries <- 1, MaxRequests <- 2, MaxRestarts <- 0, MaxKeys <- 2,
    StoreFaults <- FALSE, Overwrites <- FALSE

(* Two streams of clients that read. *)
Cdc == INSTANCE ChangeLog WITH
    MaxConns <- 2, MaxOffset <- 2, MaxRestarts <- 0, HistoryLimit <- 1,
    BufSize <- 1

(* Two streams of clients that need not read. *)
Stalled == INSTANCE ChangeLog WITH
    MaxConns <- 2, MaxOffset <- 2, MaxRestarts <- 0, HistoryLimit <- 1,
    BufSize <- 1

(* A break, a crash of the replica, two changes of role. *)
Repl == INSTANCE WalReplication WITH
    Keys <- {"k1"}, Sizes <- {1, 2}, MaxRecords <- 2, MaxCompactions <- 0,
    MaxBreaks <- 1, MaxRoleChanges <- 2, MaxReplicaCrashes <- 1,
    MaxPrimaryCrashes <- 0, PowerLoss <- FALSE, SlowWrites <- TRUE,
    TornAppends <- FALSE, DialOptions <- TRUE

(* Two calls, two workers, an orderly end or a crash. *)
Ingest == INSTANCE Ingestion WITH
    Clients <- {"c1", "c2"}, Workers <- {"w1", "w2"}, JobBufferSize <- 1,
    MaxEvents <- 2, MaxStarts <- 1, WriteErrors <- TRUE

(* A request that meets two leaderships and a crash. *)
Route == INSTANCE Routing WITH
    Nodes <- {"n1", "n2"}, Keys <- {"k"}, Clients <- {"c1"}, MaxRequests <- 1,
    MaxLeaders <- 2, MaxCrashes <- 1, MaxHops <- 2, LosesProposals <- FALSE,
    SlowProbes <- FALSE

(* One change that may time out and whose leader crashes and leads again. *)
Config == INSTANCE RaftConfig WITH
    Nodes <- {"a", "b", "c", "d"}, Members <- {"a", "b", "c"}, First <- "a",
    Requests <- {"r1"}, AddSets <- {{"d"}}, RemoveSets <- {{"c"}},
    Candidates <- {"a"}, Crashers <- {"a"}, Timeouts <- TRUE,
    SlowElections <- FALSE, MaxTerm <- 4, MaxCrashes <- 1, MaxCommands <- 0

snapshotVars == <<last, lcommit, lsnap, next, xfer, base, applyCh, sm, buf,
                 capt, snaps>>
SnapshotUnused ==
    /\ last = None /\ lcommit = None /\ lsnap = None /\ next = None
    /\ xfer = None /\ base = None /\ applyCh = None /\ sm = None /\ buf = None
    /\ capt = None /\ snaps = None

snapshotConfigVars == <<match>>
SnapshotConfigUnused ==
    /\ match = None

snapshotKVRouteConfigVars == <<log>>
SnapshotKVRouteConfigUnused ==
    /\ log = None

snapshotKVConfigVars == <<commit>>
SnapshotKVConfigUnused ==
    /\ commit = None

snapshotKVRouteVars == <<applied>>
SnapshotKVRouteUnused ==
    /\ applied = None

snapshotIngestVars == <<wal>>
SnapshotIngestUnused ==
    /\ wal = None

snapshotRouteVars == <<up>>
SnapshotRouteUnused ==
    /\ up = None

snapshotRouteConfigVars == <<crashes>>
SnapshotRouteConfigUnused ==
    /\ crashes = None

kVVars == <<chosen, entries, delivered, queue, applying, data, lastApplied,
           file, tracker, index, requests, snap>>
KVUnused ==
    /\ chosen = None /\ entries = None /\ delivered = None /\ queue = None
    /\ applying = None /\ data = None /\ lastApplied = None /\ file = None
    /\ tracker = None /\ index = None /\ requests = None /\ snap = None

kVReplVars == <<synced, client>>
KVReplUnused ==
    /\ synced = None /\ client = None

kVCdcVars == <<restarts>>
KVCdcUnused ==
    /\ restarts = None

cdcVars == <<history, baseOffset, closed, subscribers, publishing, latest,
            published, evicted, conns>>
CdcUnused ==
    /\ history = None /\ baseOffset = None /\ closed = None
    /\ subscribers = None /\ publishing = None /\ latest = None
    /\ published = None /\ evicted = None /\ conns = None

cdcIngestVars == <<panicked>>
CdcIngestUnused ==
    /\ panicked = None

replVars == <<files, records, current, active, handle, stream, wire, rfile,
             lagPrimary, lagReplica, budget>>
ReplUnused ==
    /\ files = None /\ records = None /\ current = None /\ active = None
    /\ handle = None /\ stream = None /\ wire = None /\ rfile = None
    /\ lagPrimary = None /\ lagReplica = None /\ budget = None

replConfigVars == <<role>>
ReplConfigUnused ==
    /\ role = None

ingestVars == <<phase, starts, replayed, pool, content, call, jobCh,
               jobChClosed, worker, step, nextEvent, accepted, processed>>
IngestUnused ==
    /\ phase = None /\ starts = None /\ replayed = None /\ pool = None
    /\ content = None /\ call = None /\ jobCh = None /\ jobChClosed = None
    /\ worker = None /\ step = None /\ nextEvent = None /\ accepted = None
    /\ processed = None

routeVars == <<owner, healthy, failures, leader, leaderID, proposals,
              commitIndex, store, acked, issued, leaders>>
RouteUnused ==
    /\ owner = None /\ healthy = None /\ failures = None /\ leader = None
    /\ leaderID = None /\ proposals = None /\ commitIndex = None
    /\ store = None /\ acked = None /\ issued = None /\ leaders = None

routeConfigVars == <<req>>
RouteConfigUnused ==
    /\ req = None

configVars == <<term, votedFor, config, clients, peers, ballot, resume,
               commands>>
ConfigUnused ==
    /\ term = None /\ votedFor = None /\ config = None /\ clients = None
    /\ peers = None /\ ballot = None /\ resume = None /\ commands = None

vars == <<part, snapshotVars, snapshotConfigVars, snapshotKVRouteConfigVars,
          snapshotKVConfigVars, snapshotKVRouteVars, snapshotIngestVars,
          snapshotRouteVars, snapshotRouteConfigVars, kVVars, kVReplVars,
          kVCdcVars, cdcVars, cdcIngestVars, replVars, replConfigVars,
          ingestVars, routeVars, routeConfigVars, configVars>>

(* Each behaviour is one of one component; the variables of the others rest. *)
Init ==
    \/ part = "snapshot" /\ Snapshot!Init
       /\ KVUnused /\ KVReplUnused /\ KVCdcUnused /\ CdcUnused
       /\ CdcIngestUnused /\ ReplUnused /\ ReplConfigUnused /\ IngestUnused
       /\ RouteUnused /\ RouteConfigUnused /\ ConfigUnused
    \/ part = "kv" /\ KV!Init
       /\ SnapshotUnused /\ SnapshotConfigUnused /\ SnapshotIngestUnused
       /\ SnapshotRouteUnused /\ SnapshotRouteConfigUnused /\ CdcUnused
       /\ CdcIngestUnused /\ ReplUnused /\ ReplConfigUnused /\ IngestUnused
       /\ RouteUnused /\ RouteConfigUnused /\ ConfigUnused
    \/ part = "kv waits" /\ Waits!Init
       /\ SnapshotUnused /\ SnapshotConfigUnused /\ SnapshotIngestUnused
       /\ SnapshotRouteUnused /\ SnapshotRouteConfigUnused /\ CdcUnused
       /\ CdcIngestUnused /\ ReplUnused /\ ReplConfigUnused /\ IngestUnused
       /\ RouteUnused /\ RouteConfigUnused /\ ConfigUnused
    \/ part = "cdc" /\ Cdc!Init
       /\ SnapshotUnused /\ SnapshotConfigUnused
       /\ SnapshotKVRouteConfigUnused /\ SnapshotKVConfigUnused
       /\ SnapshotKVRouteUnused /\ SnapshotIngestUnused /\ SnapshotRouteUnused
       /\ SnapshotRouteConfigUnused /\ KVUnused /\ KVReplUnused /\ ReplUnused
       /\ ReplConfigUnused /\ IngestUnused /\ RouteUnused /\ RouteConfigUnused
       /\ ConfigUnused
    \/ part = "cdc stalled" /\ Stalled!Init
       /\ SnapshotUnused /\ SnapshotConfigUnused
       /\ SnapshotKVRouteConfigUnused /\ SnapshotKVConfigUnused
       /\ SnapshotKVRouteUnused /\ SnapshotIngestUnused /\ SnapshotRouteUnused
       /\ SnapshotRouteConfigUnused /\ KVUnused /\ KVReplUnused /\ ReplUnused
       /\ ReplConfigUnused /\ IngestUnused /\ RouteUnused /\ RouteConfigUnused
       /\ ConfigUnused
    \/ part = "replication" /\ Repl!Init
       /\ SnapshotUnused /\ SnapshotConfigUnused
       /\ SnapshotKVRouteConfigUnused /\ SnapshotKVConfigUnused
       /\ SnapshotKVRouteUnused /\ SnapshotIngestUnused /\ SnapshotRouteUnused
       /\ SnapshotRouteConfigUnused /\ KVUnused /\ KVCdcUnused /\ CdcUnused
       /\ CdcIngestUnused /\ IngestUnused /\ RouteUnused /\ RouteConfigUnused
       /\ ConfigUnused
    \/ part = "ingestion" /\ Ingest!Init
       /\ SnapshotUnused /\ SnapshotConfigUnused
       /\ SnapshotKVRouteConfigUnused /\ SnapshotKVConfigUnused
       /\ SnapshotKVRouteUnused /\ SnapshotRouteUnused
       /\ SnapshotRouteConfigUnused /\ KVUnused /\ KVReplUnused /\ KVCdcUnused
       /\ CdcUnused /\ ReplUnused /\ ReplConfigUnused /\ RouteUnused
       /\ RouteConfigUnused /\ ConfigUnused
    \/ part = "routing" /\ Route!Init
       /\ SnapshotUnused /\ SnapshotConfigUnused /\ SnapshotKVConfigUnused
       /\ SnapshotIngestUnused /\ KVUnused /\ KVReplUnused /\ KVCdcUnused
       /\ CdcUnused /\ CdcIngestUnused /\ ReplUnused /\ ReplConfigUnused
       /\ IngestUnused /\ ConfigUnused
    \/ part = "config" /\ Config!Init
       /\ SnapshotUnused /\ SnapshotKVRouteUnused /\ SnapshotIngestUnused
       /\ SnapshotRouteUnused /\ KVUnused /\ KVReplUnused /\ KVCdcUnused
       /\ CdcUnused /\ CdcIngestUnused /\ ReplUnused /\ IngestUnused
       /\ RouteUnused

Next ==
    \/ /\ part = "snapshot" /\ Snapshot!Next
       /\ UNCHANGED <<part, kVVars, kVReplVars, kVCdcVars, cdcVars,
                     cdcIngestVars, replVars, replConfigVars, ingestVars,
                     routeVars, routeConfigVars, configVars>>
    \/ /\ part = "kv" /\ KV!Next
       /\ UNCHANGED <<part, snapshotVars, snapshotConfigVars,
                     snapshotIngestVars, snapshotRouteVars,
                     snapshotRouteConfigVars, cdcVars, cdcIngestVars,
                     replVars, replConfigVars, ingestVars, routeVars,
                     routeConfigVars, configVars>>
    \/ /\ part = "kv waits" /\ Waits!Next
       /\ UNCHANGED <<part, snapshotVars, snapshotConfigVars,
                     snapshotIngestVars, snapshotRouteVars,
                     snapshotRouteConfigVars, cdcVars, cdcIngestVars,
                     replVars, replConfigVars, ingestVars, routeVars,
                     routeConfigVars, configVars>>
    \/ /\ part = "cdc" /\ Cdc!Next
       /\ UNCHANGED <<part, snapshotVars, snapshotConfigVars,
                     snapshotKVRouteConfigVars, snapshotKVConfigVars,
                     snapshotKVRouteVars, snapshotIngestVars,
                     snapshotRouteVars, snapshotRouteConfigVars, kVVars,
                     kVReplVars, replVars, replConfigVars, ingestVars,
                     routeVars, routeConfigVars, configVars>>
    \/ /\ part = "cdc stalled" /\ Stalled!Next
       /\ UNCHANGED <<part, snapshotVars, snapshotConfigVars,
                     snapshotKVRouteConfigVars, snapshotKVConfigVars,
                     snapshotKVRouteVars, snapshotIngestVars,
                     snapshotRouteVars, snapshotRouteConfigVars, kVVars,
                     kVReplVars, replVars, replConfigVars, ingestVars,
                     routeVars, routeConfigVars, configVars>>
    \/ /\ part = "replication" /\ Repl!Next
       /\ UNCHANGED <<part, snapshotVars, snapshotConfigVars,
                     snapshotKVRouteConfigVars, snapshotKVConfigVars,
                     snapshotKVRouteVars, snapshotIngestVars,
                     snapshotRouteVars, snapshotRouteConfigVars, kVVars,
                     kVCdcVars, cdcVars, cdcIngestVars, ingestVars, routeVars,
                     routeConfigVars, configVars>>
    \/ /\ part = "ingestion" /\ Ingest!Next
       /\ UNCHANGED <<part, snapshotVars, snapshotConfigVars,
                     snapshotKVRouteConfigVars, snapshotKVConfigVars,
                     snapshotKVRouteVars, snapshotRouteVars,
                     snapshotRouteConfigVars, kVVars, kVReplVars, kVCdcVars,
                     cdcVars, replVars, replConfigVars, routeVars,
                     routeConfigVars, configVars>>
    \/ /\ part = "routing" /\ Route!Next
       /\ UNCHANGED <<part, snapshotVars, snapshotConfigVars,
                     snapshotKVConfigVars, snapshotIngestVars, kVVars,
                     kVReplVars, kVCdcVars, cdcVars, cdcIngestVars, replVars,
                     replConfigVars, ingestVars, configVars>>
    \/ /\ part = "config" /\ Config!Next
       /\ UNCHANGED <<part, snapshotVars, snapshotKVRouteVars,
                     snapshotIngestVars, snapshotRouteVars, kVVars,
                     kVReplVars, kVCdcVars, cdcVars, cdcIngestVars, replVars,
                     ingestVars, routeVars>>

(* Heartbeats and transfers are repeated as long as they are needed, and a  *)
(* network that may lose any of them does not lose them all; the goroutines *)
(* and the handlers of the follower run, and a crashed one is restarted.    *)
SnapshotFairness ==
    /\ WF_(Snapshot!vars)(part = "snapshot" /\ Snapshot!Commit)
    /\ WF_(Snapshot!vars)(part = "snapshot" /\ Snapshot!Deliver)
    /\ WF_(Snapshot!vars)(part = "snapshot" /\ Snapshot!Apply)
    /\ WF_(Snapshot!vars)(part = "snapshot" /\ Snapshot!Restart)
    /\ WF_(Snapshot!vars)(part = "snapshot" /\ Snapshot!StartTransfer(1))
    /\ WF_(Snapshot!vars)(part = "snapshot" /\ Snapshot!Install(1))
    /\ WF_(Snapshot!vars)(part = "snapshot" /\ Snapshot!SaveInstalled(1))
    /\ SF_(Snapshot!vars)(part = "snapshot" /\ Snapshot!Replicate(TRUE))
    /\ SF_(Snapshot!vars)(part = "snapshot" /\ Snapshot!ReceiveChunk(1))
    /\ SF_(Snapshot!vars)(part = "snapshot" /\ Snapshot!ReceiveLast(1))
    /\ SF_(Snapshot!vars)(part = "snapshot" /\ Snapshot!Reply(1))

(* runApplyLoop and Run never stop, and what is in the log is committed in  *)
(* time.                                                                    *)
KVFairness ==
    /\ WF_(KV!vars)(part = "kv" /\ (\E n \in 1..2 : KV!AdvanceCommit(n)))
    /\ WF_(KV!vars)(part = "kv" /\ KV!Collect)
    /\ WF_(KV!vars)(part = "kv" /\ (KV!ApplyMalformed \/ KV!ApplyStore \/ KV!ApplyCache
                                          \/ KV!ApplyAdvance \/ KV!ApplyNotify))

(* A handler runs on, and waits until its deadline at most; of the commit   *)
(* and of the apply loop nothing is assumed.                                *)
WaitsFairness ==
    /\ \A c \in {"c1", "c2"} : WF_(Waits!vars)(part = "kv waits" /\ (Waits!CheckApplied(c) \/ Waits!Register(c)
                \/ Waits!GiveUp(c) \/ Waits!Answer(c) \/ Waits!Return(c)))

(* The apply goroutine runs on, and so does a handler with something to do; *)
(* of the handlers of stalled clients nothing is assumed.                   *)
CdcFairness ==
    /\ WF_(Cdc!vars)(part = "cdc" /\ (Cdc!Send \/ Cdc!PublishReturns))
    /\ \A c \in 1..2 : WF_(Cdc!vars)(part = "cdc" /\ c \in Cdc!Conns /\ Cdc!Stream(c))

StalledFairness ==
    /\ WF_(Stalled!vars)(part = "cdc stalled" /\ (Stalled!Send \/ Stalled!PublishReturns))

(* The role controller polls on a ticker, the streamer and the receiver are *)
(* loops, and a client that was given transport credentials retries the     *)
(* connection for ever.  main gives it none: grpc.NewClient then refuses    *)
(* every time, and nothing is ever replicated.                              *)
ReplFairness ==
    /\ WF_(Repl!vars)(part = "replication" /\ Repl!WriteEnds)
    /\ WF_(Repl!vars)(part = "replication" /\ Repl!Poll)
    /\ WF_(Repl!vars)(part = "replication" /\ Repl!Streamer)
    /\ WF_(Repl!vars)(part = "replication" /\ (Repl!Receive \/ Repl!StreamEnds))
    /\ SF_(Repl!vars)(part = "replication" /\ Repl!Connect)

(* Goroutines that can run do: the workers, the calls, start-up.            *)
IngestFairness ==
    /\ \A w \in {"w1", "w2"} : WF_(Ingest!vars)(part = "ingestion" /\ (Ingest!Receive(w) \/ Ingest!Process(w)
                                                  \/ Ingest!Finish(w) \/ Ingest!Exit(w)))
    /\ \A c \in {"c1", "c2"} : WF_(Ingest!vars)(part = "ingestion" /\ (Ingest!IngestWrite(c) \/ Ingest!IngestSubmit(c)
                                          \/ Ingest!IngestRefused(c)))
    /\ WF_(Ingest!vars)(part = "ingestion" /\ (Ingest!Recover \/ Ingest!Serve))

(* Handlers run and their waits have timeouts, the prober is a ticker, and  *)
(* a crashed process is started again.                                      *)
RouteFairness ==
    /\ WF_(Route!vars)(part = "routing" /\ Route!Serve("c1"))
    /\ \A n, m \in {"n1", "n2"} : WF_(Route!vars)(part = "routing" /\ Route!Probe(n, m))
    /\ \A n \in {"n1", "n2"} : WF_(Route!vars)(part = "routing" /\ Route!Restart(n))

(* Election timers fire, calls are repeated on every tick, and the handler  *)
(* of a request and an auto-resume goroutine run on.                        *)
ConfigFairness ==
    /\ \A n \in {"a", "b", "c", "d"} : WF_(Config!vars)(part = "config" /\ Config!StartElection(n))
    /\ \A n \in {"a", "b", "c", "d"} : WF_(Config!vars)(part = "config" /\ Config!CommitAlone(n))
    /\ \A n, p \in {"a", "b", "c", "d"} : WF_(Config!vars)(part = "config" /\ Config!RequestVote(n, p))
    /\ \A n, p \in {"a", "b", "c", "d"} : WF_(Config!vars)(part = "config" /\ Config!Replicate(n, p))
    /\ \A n \in {"a", "b", "c", "d"} : WF_(Config!vars)(part = "config" /\ (\E g \in resume[n] :
                                  Config!ResumeProposes(n, g) \/ Config!ResumeFinishes(n, g)))
    /\ WF_(Config!vars)(part = "config" /\ Config!ProposeConfigChange("r1"))
    /\ WF_(Config!vars)(part = "config" /\ Config!ProposeStable("r1"))
    /\ WF_(Config!vars)(part = "config" /\ Config!FinishChange("r1"))
    /\ WF_(Config!vars)(part = "config" /\ Config!GiveUp("r1"))

FairSpec ==
    /\ Init /\ [][Next]_vars
    /\ SnapshotFairness /\ KVFairness /\ WaitsFairness /\ CdcFairness /\ StalledFairness
    /\ ReplFairness /\ IngestFairness /\ RouteFairness /\ ConfigFairness

-----------------------------------------------------------------------------
(* In the end, when disturbances have stopped: a follower that has fallen   *)
(* behind a compacted log has applied what is committed, whatever was lost  *)
(* on the way (sendSnapshot, HandleInstallSnapshot, replicateToPeer); the   *)
(* gate of the WAL stream is open exactly at the leader, whatever changes   *)
(* the poll did not see (RoleController.Run, ADR-011); and every process    *)
(* takes every node for healthy (probeAll).                                 *)
CatchesUp ==
    <>[](/\ part = "snapshot" => up /\ sm.last = lcommit /\ match >= lcommit
         /\ part = "replication" => active = (role = "leader")
         /\ part = "routing" => \A n, m \in {"n1", "n2"} : healthy[n][m])

(* The state machine comes to the end of its log again and again, whatever  *)
(* restarts and redeliveries intervene (apply, KVStore.Recover); and        *)
(* whatever is written at a primary that stays leader reaches the file of a *)
(* replica whose client can dial, that is, has the dial options that main   *)
(* does not pass (connect): "A Replica crash loses at most the in-flight    *)
(* entry".                                                                  *)
Converges ==
    []<>(/\ part = "kv" => lastApplied = Len(log) /\ data = KV!Replay(Len(log))
         /\ part = "replication" /\ role = "leader" =>
                \A id \in 1..records : \E n \in 1..Len(rfile) :
                    rfile[n].rec.id = id /\ ~Repl!Torn(rfile[n]))

(* Who waits is served.  A handler returns although the wake-up it waits    *)
(* for was sent between its look at lastApplied and the registration of its *)
(* channel: the deadline of its context ends the wait (WaitForIndex).       *)
(* Every routed request is answered, however the leaders change, nodes      *)
(* crash and redirects lead.  An event answered with success is handled by  *)
(* a worker unless the process ends first (Submit, work, Shutdown).         *)
RequestsEnd ==
    []<>(/\ part = "kv waits" => \A c \in {"c1", "c2"} : client[c].pc = "idle"
         /\ part = "routing" => req["c1"].pc \in {"idle", "answered"}
         /\ part = "ingestion" =>
                accepted \subseteq { processed[i] : i \in 1..Len(processed) } \/ phase = "down")

(* INV-CDC5: Publish never waits for a client, not even for one that has    *)
(* stopped reading; and once the change log is closed every open stream     *)
(* ends, after it was given what its buffer holds (Close, serveStream).     *)
(* What ends both is the panic of a send on a channel that Unsubscribe has  *)
(* closed since Publish copied the list of subscribers.                     *)
PublishCompletes ==
    []<>(/\ part = "cdc stalled" => publishing = None \/ panicked
         /\ part = "cdc" /\ closed =>
                \/ \A c \in Cdc!Conns : conns[c].pc \in {"refused", "unavailable", "ended"}
                \/ panicked)

(* A membership change that has begun comes to an end, a leader that        *)
(* crashed between the two phases included (proposeStableConfig, called by  *)
(* runLeader), unless the wait for its joint entry timed out and the leader *)
(* that proposed it goes on leading: nobody else takes the change up then,  *)
(* and the cluster stays in the joint phase (ProposeConfigChange).          *)
ChangeCompletes ==
    []<>(part = "config" => \/ \A n \in {"a", "b", "c", "d"} : ~Config!IsJoint(config[n])
                            \/ Config!Abandoned)
=============================================================================
