---------------------------- MODULE MCStorage -------------------------------
(***************************************************************************)
(* Small instances of everything that writes a file: the Raft log store,   *)
(* the record formats, the event store, the replication of its WAL and the *)
(* ingestion that fills it.  The components share no state here, so one    *)
(* run explores them side by side.  The switches of the configuration are  *)
(* the disturbances under which a property of the component is known to    *)
(* fail.                                                                   *)
(***************************************************************************)
EXTENDS Naturals

CONSTANTS
    None,
    TornTails,                 \* LogStore
    SharedKeys, CompactInGap,  \* EventStore
    PowerLoss, TornAppends     \* WalReplication

VARIABLES
    part,   \* the component that runs in this behaviour
    file, log, base, saved, captured, doomed,   \* LogStore
    synced,   \* LogStore, EventStore, WalReplication
    up,   \* LogStore, EventStore
    record, read,   \* MCCodecs
    files,   \* EventStore, WalReplication
    index, cur, wgen, closed, tracker, writes, writing, getting, got,
    compacting, compacted, acked, durable, crashes,   \* EventStore
    records, role, current, active, handle, stream, wire, client, rfile,
    lagPrimary, lagReplica, budget,   \* WalReplication
    phase, starts, replayed, pool, content, call, jobCh, jobChClosed, worker,
    step, wal, nextEvent, accepted, processed, panicked   \* Ingestion

(* The log store over a disk that does what it is asked. *)
Log == INSTANCE LogStore WITH
    MaxIndex <- 3, MaxTerm <- 2, MaxRecords <- 5, EntrySize <- 2,
    SyncFaults <- FALSE

(* The same while writes and fsyncs may fail. *)
FaultyLog == INSTANCE LogStore WITH
    MaxIndex <- 3, MaxTerm <- 2, MaxRecords <- 4, EntrySize <- 2,
    SyncFaults <- TRUE

(* Indices on both sides of every byte boundary and next to the sentinel,   *)
(* not on it.                                                               *)
Codec == INSTANCE MCCodecs WITH
    LenLimit <- 3, MaxLen <- 2,
    Indices <- {1, 192, 255, 256, 49406, 49408, 65280, 65535}

(* Two writers, a compaction and a crash. *)
Store == INSTANCE EventStore WITH
    Keys <- {"k1", "k2"}, Writers <- {"w1", "w2"}, MaxKeys <- 2, MaxWrites <- 3,
    MaxCompactions <- 1, MaxCrashes <- 1, DiskFaults <- FALSE

(* Two writers and a compaction over a disk that may refuse. *)
FaultyStore == INSTANCE EventStore WITH
    Keys <- {"k1", "k2"}, Writers <- {"w1", "w2"}, MaxKeys <- 2, MaxWrites <- 3,
    MaxCompactions <- 1, MaxCrashes <- 0, DiskFaults <- TRUE

(* Records of two sizes, three changes of role and every kind of break      *)
(* once. Here and below the client is given transport credentials, as in    *)
(* client_test.go.                                                          *)
Repl == INSTANCE WalReplication WITH
    Keys <- {"k1"}, Sizes <- {1, 2}, MaxRecords <- 3, MaxCompactions <- 0,
    MaxBreaks <- 1, MaxRoleChanges <- 3, MaxReplicaCrashes <- 1,
    MaxPrimaryCrashes <- 1, SlowWrites <- TRUE, DialOptions <- TRUE

(* Compactions of the WAL under the stream and between two streams. *)
ReplCompact == INSTANCE WalReplication WITH
    Keys <- {"k1", "k2"}, Sizes <- {1, 2}, MaxRecords <- 3, MaxCompactions <- 2,
    MaxBreaks <- 1, MaxRoleChanges <- 1, MaxReplicaCrashes <- 0,
    MaxPrimaryCrashes <- 0, SlowWrites <- FALSE, DialOptions <- TRUE

(* Two calls, two workers, a queue of one, a WAL that may refuse, a second  *)
(* start.                                                                   *)
Ingest == INSTANCE Ingestion WITH
    Clients <- {"c1", "c2"}, Workers <- {"w1", "w2"}, JobBufferSize <- 1,
    MaxEvents <- 3, MaxStarts <- 2, WriteErrors <- TRUE

logVars == <<file, log, base, saved, captured, doomed>>
LogUnused ==
    /\ file = None /\ log = None /\ base = None /\ saved = None
    /\ captured = None /\ doomed = None

logEventReplVars == <<synced>>
LogEventReplUnused ==
    /\ synced = None

logEventVars == <<up>>
LogEventUnused ==
    /\ up = None

codecVars == <<record, read>>
CodecUnused ==
    /\ record = None /\ read = None

eventReplVars == <<files>>
EventReplUnused ==
    /\ files = None

eventVars == <<index, cur, wgen, closed, tracker, writes, writing, getting,
              got, compacting, compacted, acked, durable, crashes>>
EventUnused ==
    /\ index = None /\ cur = None /\ wgen = None /\ closed = None
    /\ tracker = None /\ writes = None /\ writing = None /\ getting = None
    /\ got = None /\ compacting = None /\ compacted = None /\ acked = None
    /\ durable = None /\ crashes = None

replVars == <<records, role, current, active, handle, stream, wire, client,
             rfile, lagPrimary, lagReplica, budget>>
ReplUnused ==
    /\ records = None /\ role = None /\ current = None /\ active = None
    /\ handle = None /\ stream = None /\ wire = None /\ client = None
    /\ rfile = None /\ lagPrimary = None /\ lagReplica = None /\ budget = None

ingestVars == <<phase, starts, replayed, pool, content, call, jobCh,
               jobChClosed, worker, step, wal, nextEvent, accepted, processed,
               panicked>>
IngestUnused ==
    /\ phase = None /\ starts = None /\ replayed = None /\ pool = None
    /\ content = None /\ call = None /\ jobCh = None /\ jobChClosed = None
    /\ worker = None /\ step = None /\ wal = None /\ nextEvent = None
    /\ accepted = None /\ processed = None /\ panicked = None

vars == <<part, logVars, logEventReplVars, logEventVars, codecVars, eventReplVars,
          eventVars, replVars, ingestVars>>

(* Each behaviour is one of one component; the variables of the others rest. *)
Init ==
    \/ part = "log" /\ Log!Init
       /\ CodecUnused /\ EventReplUnused /\ EventUnused /\ ReplUnused
       /\ IngestUnused
    \/ part = "log faults" /\ FaultyLog!Init
       /\ CodecUnused /\ EventReplUnused /\ EventUnused /\ ReplUnused
       /\ IngestUnused
    \/ part = "codec" /\ Codec!Init
       /\ LogUnused /\ LogEventReplUnused /\ LogEventUnused /\ EventReplUnused
       /\ EventUnused /\ ReplUnused /\ IngestUnused
    \/ part = "events" /\ Store!Init
       /\ LogUnused /\ CodecUnused /\ ReplUnused /\ IngestUnused
    \/ part = "event faults" /\ FaultyStore!Init
       /\ LogUnused /\ CodecUnused /\ ReplUnused /\ IngestUnused
    \/ part = "replication" /\ Repl!Init
       /\ LogUnused /\ LogEventUnused /\ CodecUnused /\ EventUnused
       /\ IngestUnused
    \/ part = "compaction" /\ ReplCompact!Init
       /\ LogUnused /\ LogEventUnused /\ CodecUnused /\ EventUnused
       /\ IngestUnused
    \/ part = "ingestion" /\ Ingest!Init
       /\ LogUnused /\ LogEventReplUnused /\ LogEventUnused /\ CodecUnused
       /\ EventReplUnused /\ EventUnused /\ ReplUnused

Next ==
    \/ /\ part = "log" /\ Log!Next
       /\ UNCHANGED <<part, codecVars, eventReplVars, eventVars, replVars,
                     ingestVars>>
    \/ /\ part = "log faults" /\ FaultyLog!Next
       /\ UNCHANGED <<part, codecVars, eventReplVars, eventVars, replVars,
                     ingestVars>>
    \/ /\ part = "codec" /\ Codec!Next
       /\ UNCHANGED <<part, logVars, logEventReplVars, logEventVars,
                     eventReplVars, eventVars, replVars, ingestVars>>
    \/ /\ part = "events" /\ Store!Next
       /\ UNCHANGED <<part, logVars, codecVars, replVars, ingestVars>>
    \/ /\ part = "event faults" /\ FaultyStore!Next
       /\ UNCHANGED <<part, logVars, codecVars, replVars, ingestVars>>
    \/ /\ part = "replication" /\ Repl!Next
       /\ UNCHANGED <<part, logVars, logEventVars, codecVars, eventVars,
                     ingestVars>>
    \/ /\ part = "compaction" /\ ReplCompact!Next
       /\ UNCHANGED <<part, logVars, logEventVars, codecVars, eventVars,
                     ingestVars>>
    \/ /\ part = "ingestion" /\ Ingest!Next
       /\ UNCHANGED <<part, logVars, logEventReplVars, logEventVars, codecVars,
                     eventReplVars, eventVars, replVars>>

Spec == Init /\ [][Next]_vars

-----------------------------------------------------------------------------
(* "Append and TruncateSuffix are durable (fsync'd) before returning": what *)
(* a restart would load is the log the node works with, and its indices are *)
(* consecutive, so that getEntry's arithmetic finds the entry it is asked   *)
(* for.  When writes and fsyncs fail, an entry whose Append returned nil is *)
(* still among what a restart loads.                                        *)
RestartRestoresLog ==
    /\ part = "log" => Log!TypeOK /\ Log!RestartRestoresLog /\ Log!LogContiguous
    /\ part = "log faults" => FaultyLog!AckedEntriesSurvive

(* WALLogStore changes as MemLogStore does: by one append, one suffix       *)
(* truncation or one prefix compaction, crashes included.                   *)
ImplementsMemLogStore ==
    /\ part = "log" => Log!Mem!Init
    /\ [][part = "log" => [Log!Mem!Next]_(Log!Loaded(file))]_vars

(* decodeLogEntry tells the three formats apart and reads each back, so do  *)
(* DecodeEvent and decodeKVRecord with theirs, and a record that was cut    *)
(* short is refused.                                                        *)
RecordsReadBack ==
    part = "codec" =>
        Codec!LogFormatsTold /\ Codec!StringsRoundTrip /\ Codec!CutRecordsRefused

(* "WAL offset is always correct", "latest-write-wins": each offset of the  *)
(* event store's index is that of the latest record of its key, and a Get   *)
(* finds at least the last write that was acknowledged before it, though    *)
(* Compact may replace the file under it or fail half way.  Of what a crash *)
(* leaves, the last write that an fsync has covered is found, or a newer    *)
(* one.                                                                     *)
LatestWins ==
    /\ part = "events" => /\ Store!TypeOK /\ Store!IndexSound /\ Store!LatestWins
                          /\ Store!GetFresh /\ Store!SyncedSurvive
    /\ part = "event faults" => FaultyStore!GetFresh

(* The replica's file is the beginning of the primary's, through            *)
(* reconnects, half-written records and changes of role.  When the primary  *)
(* has compacted, a replica that has caught up holds the latest record of   *)
(* every key if its stream has read the newest file from its beginning:     *)
(* Streamer.Stream's offset 0 after a compaction signal.  Of a stream       *)
(* opened at the offset of an older file (ReplicationClient.connect), or    *)
(* one whose signal was lost, nothing is said.                              *)
ReplicaFollows ==
    /\ part = "replication" => Repl!TypeOK /\ Repl!ReplicaIsPrefix
    /\ part = "compaction" => ReplCompact!CaughtUpAgrees

(* A pooled Event has one owner at a time and is clean in the pool, so that *)
(* recycling mixes up no requests and none is handled twice.                *)
ProcessedFaithfully ==
    part = "ingestion" =>
        Ingest!TypeOK /\ Ingest!EventsOwnedOnce /\ Ingest!ProcessedFaithfully

(* The order of main's shutdown: nobody sends on the closed queue.          *)
NoSendOnClosed == part = "ingestion" => Ingest!NoSendOnClosed
=============================================================================
