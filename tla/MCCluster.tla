---------------------------- MODULE MCCluster -------------------------------
(***************************************************************************)
(* Small instances of what nodes do together: reads confirmed by a round   *)
(* of heartbeats or by the lease, snapshots sent to a follower, changes of *)
(* the membership.  They are explored side by side in one run.             *)
(***************************************************************************)
EXTENDS Naturals, TLC

CONSTANTS
    None,
    n1, n2, n3   \* the nodes of ReadIndex

VARIABLES
    part,   \* the component that runs in this behaviour
    now, loop, timer, granted, answered, round, lease, read, rounds, acked,   \* ReadIndex
    term, votedFor, role,   \* ReadIndex, RaftConfig
    log, commit, match,   \* ReadIndex, RaftSnapshot, RaftConfig
    last, lcommit, lsnap, next, xfer, base, applied, applyCh, sm, buf, capt,
    wal, snaps, up,   \* RaftSnapshot
    crashes,   \* RaftSnapshot, RaftConfig
    config, clients, peers, ballot, resume, req, commands   \* RaftConfig

(* Reads by quorum round across a change of leader. *)
Read == INSTANCE ReadIndex WITH
    Nodes <- {n1, n2, n3}, Reads <- {"r"}, LeaseEnabled <- FALSE, CallsFail <- FALSE,
    LeaseDuration <- 0, ElectionTimeoutMin <- 0, MaxTime <- 0,
    MaxTerm <- 2, MaxEntries <- 2, MaxRounds <- 2

(* The lease on a clock of four ticks, over two elections. *)
Lease == INSTANCE ReadIndex WITH
    Nodes <- {n1, n2, n3}, Reads <- {"r"}, LeaseEnabled <- TRUE, CallsFail <- TRUE,
    LeaseDuration <- 1, ElectionTimeoutMin <- 2, MaxTime <- 4,
    MaxTerm <- 3, MaxEntries <- 0, MaxRounds <- 1

(* The leader alone takes snapshots; a crash of the follower. *)
Snapshot == INSTANCE RaftSnapshot WITH
    MaxIndex <- 4, MaxCrashes <- 1, MaxTransfers <- 1, Chunks <- 2,
    RetainCount <- 2, Threshold <- 1, OwnSnapshots <- FALSE,
    Overlap <- FALSE

(* Both take snapshots; installs meet them and each other. *)
OwnSnapshot == INSTANCE RaftSnapshot WITH
    MaxIndex <- 3, MaxCrashes <- 0, MaxTransfers <- 1, Chunks <- 1,
    RetainCount <- 2, Threshold <- 1, OwnSnapshots <- TRUE,
    Overlap <- TRUE

(* Two transfers at a time share the chunk buffer. *)
TwoTransfers == INSTANCE RaftSnapshot WITH
    MaxIndex <- 3, MaxCrashes <- 0, MaxTransfers <- 2, Chunks <- 2,
    RetainCount <- 2, Threshold <- 1, OwnSnapshots <- FALSE,
    Overlap <- FALSE

(* Two requests that compete, a joiner, a crash of a follower. *)
Config == INSTANCE RaftConfig WITH
    Nodes <- {"a", "b", "c", "d"}, Members <- {"a", "b", "c"}, First <- "a",
    Requests <- {"r1", "r2"}, AddSets <- {{"d"}}, RemoveSets <- {{"c"}},
    Candidates <- {}, Crashers <- {"b", "c"}, Timeouts <- TRUE,
    SlowElections <- TRUE, MaxTerm <- 1, MaxCrashes <- 1, MaxCommands <- 0

(* The leader crashes within a change and leads again. *)
ConfigCrash == INSTANCE RaftConfig WITH
    Nodes <- {"a", "b", "c"}, Members <- {"a", "b", "c"}, First <- "a",
    Requests <- {"r1", "r2"}, AddSets <- {{"c"}}, RemoveSets <- {{"c"}},
    Candidates <- {"a"}, Crashers <- {"a"}, Timeouts <- FALSE,
    SlowElections <- FALSE, MaxTerm <- 2, MaxCrashes <- 1, MaxCommands <- 0

(* Two nodes that depose each other while a third is removed. *)
ConfigRivals == INSTANCE RaftConfig WITH
    Nodes <- {"a", "b", "c"}, Members <- {"a", "b", "c"}, First <- "a",
    Requests <- {"r"}, AddSets <- {}, RemoveSets <- {{"c"}},
    Candidates <- {"a", "b"}, Crashers <- {}, Timeouts <- FALSE,
    SlowElections <- FALSE, MaxTerm <- 3, MaxCrashes <- 0, MaxCommands <- 0

(* A cluster of one that grows, and a client command. *)
ConfigSingle == INSTANCE RaftConfig WITH
    Nodes <- {"a", "b", "c"}, Members <- {"a"}, First <- "a",
    Requests <- {"r1", "r2"}, AddSets <- {{"b"}, {"b", "c"}}, RemoveSets <- {{"b"}},
    Candidates <- {"a"}, Crashers <- {}, Timeouts <- TRUE,
    SlowElections <- TRUE, MaxTerm <- 3, MaxCrashes <- 0, MaxCommands <- 1

readVars == <<now, loop, timer, granted, answered, round, lease, read, rounds,
             acked>>
ReadUnused ==
    /\ now = None /\ loop = None /\ timer = None /\ granted = None
    /\ answered = None /\ round = None /\ lease = None /\ read = None
    /\ rounds = None /\ acked = None

readConfigVars == <<term, votedFor, role>>
ReadConfigUnused ==
    /\ term = None /\ votedFor = None /\ role = None

readSnapshotConfigVars == <<log, commit, match>>

snapshotVars == <<last, lcommit, lsnap, next, xfer, base, applied, applyCh, sm,
                 buf, capt, wal, snaps, up>>
SnapshotUnused ==
    /\ last = None /\ lcommit = None /\ lsnap = None /\ next = None
    /\ xfer = None /\ base = None /\ applied = None /\ applyCh = None
    /\ sm = None /\ buf = None /\ capt = None /\ wal = None /\ snaps = None
    /\ up = None

snapshotConfigVars == <<crashes>>
SnapshotConfigUnused ==
    /\ crashes = None

configVars == <<config, clients, peers, ballot, resume, req, commands>>
ConfigUnused ==
    /\ config = None /\ clients = None /\ peers = None /\ ballot = None
    /\ resume = None /\ req = None /\ commands = None

vars == <<part, readVars, readConfigVars, readSnapshotConfigVars, snapshotVars,
          snapshotConfigVars, configVars>>

(* Each behaviour is one of one component; the variables of the others rest. *)
Init ==
    \/ part = "read" /\ Read!Init
       /\ SnapshotUnused /\ SnapshotConfigUnused /\ ConfigUnused
    \/ part = "lease" /\ Lease!Init
       /\ SnapshotUnused /\ SnapshotConfigUnused /\ ConfigUnused
    \/ part = "snapshot" /\ Snapshot!Init
       /\ ReadUnused /\ ReadConfigUnused /\ ConfigUnused
    \/ part = "own snapshot" /\ OwnSnapshot!Init
       /\ ReadUnused /\ ReadConfigUnused /\ ConfigUnused
    \/ part = "two transfers" /\ TwoTransfers!Init
       /\ ReadUnused /\ ReadConfigUnused /\ ConfigUnused
    \/ part = "config" /\ Config!Init
       /\ ReadUnused /\ SnapshotUnused
    \/ part = "config crash" /\ ConfigCrash!Init
       /\ ReadUnused /\ SnapshotUnused
    \/ part = "config rivals" /\ ConfigRivals!Init
       /\ ReadUnused /\ SnapshotUnused
    \/ part = "config single" /\ ConfigSingle!Init
       /\ ReadUnused /\ SnapshotUnused

Next ==
    \/ /\ part = "read" /\ Read!Next
       /\ UNCHANGED <<part, snapshotVars, snapshotConfigVars, configVars>>
    \/ /\ part = "lease" /\ Lease!Next
       /\ UNCHANGED <<part, snapshotVars, snapshotConfigVars, configVars>>
    \/ /\ part = "snapshot" /\ Snapshot!Next
       /\ UNCHANGED <<part, readVars, readConfigVars, configVars>>
    \/ /\ part = "own snapshot" /\ OwnSnapshot!Next
       /\ UNCHANGED <<part, readVars, readConfigVars, configVars>>
    \/ /\ part = "two transfers" /\ TwoTransfers!Next
       /\ UNCHANGED <<part, readVars, readConfigVars, configVars>>
    \/ /\ part = "config" /\ Config!Next
       /\ UNCHANGED <<part, readVars, snapshotVars>>
    \/ /\ part = "config crash" /\ ConfigCrash!Next
       /\ UNCHANGED <<part, readVars, snapshotVars>>
    \/ /\ part = "config rivals" /\ ConfigRivals!Next
       /\ UNCHANGED <<part, readVars, snapshotVars>>
    \/ /\ part = "config single" /\ ConfigSingle!Next
       /\ UNCHANGED <<part, readVars, snapshotVars>>

Spec == Init /\ [][Next]_vars

(* The nodes of ReadIndex are interchangeable; those of the others are strings. *)
Symmetry == Permutations({n1, n2, n3})

-----------------------------------------------------------------------------
(* What is left of INV-RI2 of ReadIndex: from the first commit of its own   *)
(* term on, a confirmed leader's read index covers every acknowledged       *)
(* write, whoever else has been elected; and a lease that a late reply      *)
(* renews after a step-down serves no read of a later term of the same      *)
(* node.                                                                    *)
SettledReadSeesAcknowledged ==
    /\ part = "read" => Read!TypeOK /\ Read!SettledReadSeesAcknowledged
    /\ part = "lease" => Lease!LeaseOfOwnTerm

(* Whatever the leader counts for the follower (matchIndex), the follower   *)
(* has, in its log or in its snapshot, and a crash cannot take it away,     *)
(* through every step of an install and of a compaction: "Persist the       *)
(* received snapshot to disk so recovery after a crash works".              *)
AckedDurable ==
    /\ part = "snapshot" => Snapshot!TypeOK /\ Snapshot!AckedHeld /\ Snapshot!AckedDurable
    /\ part = "own snapshot" => OwnSnapshot!AckedDurable

(* INV-S1, for the settled live state and every snapshot on disk: the state *)
(* at index n is what the first n entries wrote, also when transfers mix    *)
(* their chunks; and when nothing is on its way the state machine is where  *)
(* lastApplied says, or further.                                            *)
AppliedPrefix ==
    /\ part = "snapshot" => Snapshot!AppliedPrefix /\ Snapshot!NothingSkipped
    /\ part = "two transfers" => TwoTransfers!AppliedPrefix

(* INV-CC1, INV-CC3: no log goes from one stable configuration to another   *)
(* without the joint one between them, and a node works with the one its    *)
(* log ends in, though requests compete, time out and are resumed by a      *)
(* leader that crashed or by its rival.                                     *)
NoConfigSkip ==
    /\ part = "config" => Config!TypeOK /\ Config!NoConfigSkip /\ Config!ConfigFollowsLog
    /\ part = "config crash" => ConfigCrash!NoConfigSkip /\ ConfigCrash!ConfigFollowsLog
    /\ part = "config rivals" => ConfigRivals!NoConfigSkip /\ ConfigRivals!ConfigFollowsLog

(* A committed joint entry is held by majorities of the old and of the new  *)
(* members, a stable one by a majority of the new.                          *)
CommittedByMajorities ==
    /\ part = "config" => Config!CommittedByMajorities
    /\ part = "config single" => ConfigSingle!CommittedByMajorities
=============================================================================
