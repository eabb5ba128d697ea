--------------------------- MODULE WalReplication ---------------------------
(***************************************************************************)
(* Asynchronous replication of the event WAL (ADR-008, ADR-011): the       *)
(* primary's streamer tails its WAL and sends raw records over a gRPC      *)
(* stream, the replica's receiver appends and fsyncs them, and the client  *)
(* reconnects with the size of the replica's file as the start offset.     *)
(* The role controller polls the Raft role and opens or closes the gate.   *)
(*                                                                         *)
(* files lists the primary's WAL and what compactions replaced it by; the  *)
(* handle opened at start keeps reading the file it was opened on.         *)
(***************************************************************************)
EXTENDS WalFile, Sequences, SequencesExt

CONSTANTS Keys, Sizes,
          MaxRecords, MaxCompactions, MaxBreaks, MaxRoleChanges,
          MaxReplicaCrashes, MaxPrimaryCrashes,
          DialOptions,      \* is the client given transport credentials?  (main gives none)
          PowerLoss,        \* may a crash of the primary lose what was not synced?
          SlowWrites,       \* may the streamer see a record that is half written?
          TornAppends,      \* may a crash leave part of a record in the replica's file?
          None

VARIABLES
    files,      \* the primary's WAL, generation by generation
    synced,     \* pieces of the current file that are on disk
    records,    \* how many records were written
    role,       \* RaftNode.Role()
    current,    \* the role controller's last role
    active,     \* ManagedReplicationServer.active
    handle,     \* the generation main opened for streaming
    stream,     \* None, or the streamer's file, offset and compaction channel
    wire,       \* entries on their way to the replica
    client,     \* "backoff" or "streaming"
    rfile,      \* the replica's file
    lagPrimary, lagReplica,   \* the offset each process last reported
    budget      \* how often each disturbance has happened

primaryVars == <<files, synced, records>>
roleVars == <<role, current, active>>
vars == <<primaryVars, roleVars, handle, stream, wire, client, rfile, lagPrimary, lagReplica, budget>>

Wal == files[Len(files)]

Writing == Wal # << >> /\ Torn(Last(Wal))

Spend(what) == budget' = [budget EXCEPT ![what] = @ + 1]

-----------------------------------------------------------------------------
(* The primary's WAL: a write in two steps, as a reader can see it; fsync; compaction. *)
Write ==
    /\ records < MaxRecords /\ ~Writing
    /\ records' = records + 1
    /\ \E k \in Keys, s \in Sizes, slow \in {FALSE, SlowWrites} :
        LET whole == Piece([id |-> records + 1, key |-> k, size |-> s])
        IN  files' = [files EXCEPT ![Len(files)] =
                         Append(@, IF slow THEN [whole EXCEPT !.kept = 1] ELSE whole)]
    /\ UNCHANGED <<synced, roleVars, handle, stream, wire, client, rfile, lagPrimary, lagReplica, budget>>

WriteEnds ==
    /\ Writing
    /\ files' = [files EXCEPT ![Len(files)] = [@ EXCEPT ![Len(@)] = Piece(@.rec)]]
    /\ UNCHANGED <<synced, records, roleVars, handle, stream, wire, client, rfile, lagPrimary,
                   lagReplica, budget>>

SyncTicker ==
    /\ MaxPrimaryCrashes > 0 /\ ~Writing /\ synced < Len(Wal)
    /\ synced' = Len(Wal)
    /\ UNCHANGED <<files, records, roleVars, handle, stream, wire, client, rfile, lagPrimary,
                   lagReplica, budget>>

(* Compact keeps the last record of each key; the swap closes the channel. *)
Compact ==
    /\ budget.compactions < MaxCompactions /\ Spend("compactions")
    /\ ~Writing
    /\ LET live == { n \in 1..Len(Wal) : \A m \in (n + 1)..Len(Wal) : Wal[m].rec.key # Wal[n].rec.key }
       IN  /\ files' = Append(files, [i \in 1..Cardinality(live) |-> Wal[SetToSortSeq(live, <)[i]]])
           /\ synced' = Cardinality(live)
    /\ UNCHANGED <<records, roleVars, handle, stream, wire, client, rfile, lagPrimary, lagReplica>>

-----------------------------------------------------------------------------
(* The gate: RoleController.Run calls BecomeLeader or BecomeFollower on a change. *)
RoleChanges ==
    /\ budget.roles < MaxRoleChanges /\ Spend("roles")
    /\ \E r \in {"follower", "candidate", "leader"} \ {role} : role' = r
    /\ UNCHANGED <<primaryVars, current, active, handle, stream, wire, client, rfile, lagPrimary,
                   lagReplica>>

(* Mutant: only the change to follower closes the gate. *)
PollOpen ==
    /\ role # current
    /\ current' = role
    /\ active' = IF role = "leader" THEN TRUE ELSE IF role = "follower" THEN FALSE ELSE active
    /\ UNCHANGED <<primaryVars, role, handle, stream, wire, client, rfile, lagPrimary, lagReplica, budget>>

Poll ==
    /\ role # current
    /\ current' = role
    /\ active' = (role = "leader")
    /\ UNCHANGED <<primaryVars, role, handle, stream, wire, client, rfile, lagPrimary, lagReplica, budget>>

-----------------------------------------------------------------------------
(* The streamer.  An offset inside a record reads no header: the magic differs. *)
ReadAt(file, offset) ==
    IF offset >= FileSize(file) THEN [status |-> "eof"]
    ELSE IF \E k \in 1..Len(file) : OffsetOf(file, k) = offset THEN ReadRecordAt(file, offset)
    ELSE [status |-> "corrupted"]

Signalled == stream.signal < Len(files)

(* Mutant: the offset of the old file is kept. *)
ReopenInPlace ==
    /\ stream # None /\ stream.opened = FALSE /\ Signalled
    /\ stream' = [stream EXCEPT !.file = Len(files), !.opened = TRUE, !.whole = TRUE]
    /\ UNCHANGED <<primaryVars, roleVars, handle, wire, client, rfile, lagPrimary, lagReplica, budget>>

(* On the signal the file is opened by its name, and then the next channel is fetched. *)
Reopen ==
    /\ stream # None /\ stream.opened = FALSE /\ Signalled
    /\ stream' = [stream EXCEPT !.file = Len(files), !.offset = 0, !.opened = TRUE, !.whole = TRUE]
    /\ UNCHANGED <<primaryVars, roleVars, handle, wire, client, rfile, lagPrimary, lagReplica, budget>>

Renotify ==
    /\ stream # None /\ stream.opened
    /\ stream' = [stream EXCEPT !.signal = Len(files), !.opened = FALSE]
    /\ UNCHANGED <<primaryVars, roleVars, handle, wire, client, rfile, lagPrimary, lagReplica, budget>>

SendRecord ==
    /\ stream # None /\ ~stream.opened /\ ~Signalled
    /\ LET r == ReadAt(files[stream.file], stream.offset)
       IN  /\ r.status = "ok"
           /\ wire' = Append(wire, [rec |-> r.rec, offset |-> stream.offset])
           /\ stream' = [stream EXCEPT !.offset = @ + Measure(r.rec)]
           /\ lagPrimary' = stream'.offset
    /\ UNCHANGED <<primaryVars, roleVars, handle, client, rfile, lagReplica, budget>>

(* A record that is not whole, or no record: Stream returns the error. *)
StreamFails ==
    /\ stream # None /\ ~stream.opened /\ ~Signalled
    /\ ReadAt(files[stream.file], stream.offset).status \in {"truncated", "mismatch", "corrupted"}
    /\ stream' = None
    /\ UNCHANGED <<primaryVars, roleVars, handle, wire, client, rfile, lagPrimary, lagReplica, budget>>

-----------------------------------------------------------------------------
(* The replica. *)
(* Mutant: the client resumes after the last record it was sent, not after what it has. *)
ConnectFromLag ==
    /\ DialOptions /\ client = "backoff" /\ active
    /\ client' = "streaming" /\ wire' = << >>
    /\ stream' = [file |-> handle, offset |-> lagPrimary, signal |-> Len(files), opened |-> FALSE,
                  whole |-> Len(files) = 1]
    /\ lagReplica' = FileSize(rfile)
    /\ UNCHANGED <<primaryVars, roleVars, handle, rfile, lagPrimary, budget>>

(* grpc.NewClient refuses to make a connection without transport credentials, *)
(* and runOnce returns its error.  The history field whole: what the replica  *)
(* lacks of the file is what lies behind the offset.                          *)
Connect ==
    /\ DialOptions /\ client = "backoff" /\ active
    /\ client' = "streaming" /\ wire' = << >>
    /\ stream' = [file |-> handle, offset |-> FileSize(rfile), signal |-> Len(files), opened |-> FALSE,
                  whole |-> Len(files) = 1]
    /\ lagReplica' = FileSize(rfile)
    /\ UNCHANGED <<primaryVars, roleVars, handle, rfile, lagPrimary, budget>>

Receive ==
    /\ client = "streaming" /\ wire # << >>
    /\ rfile' = Append(rfile, Piece(Head(wire).rec))
    /\ wire' = Tail(wire)
    /\ lagReplica' = Head(wire).offset + Measure(Head(wire).rec)
    /\ UNCHANGED <<primaryVars, roleVars, handle, stream, client, lagPrimary, budget>>

(* Mutant: the client gives up for good when the stream ends. *)
StreamEndsForGood ==
    /\ client = "streaming" /\ stream = None /\ wire = << >>
    /\ client' = "stopped"
    /\ UNCHANGED <<primaryVars, roleVars, handle, stream, wire, rfile, lagPrimary, lagReplica, budget>>

StreamEnds ==
    /\ client = "streaming" /\ stream = None /\ wire = << >>
    /\ client' = "backoff"
    /\ UNCHANGED <<primaryVars, roleVars, handle, stream, wire, rfile, lagPrimary, lagReplica, budget>>

ConnectionBreaks ==
    /\ client = "streaming" /\ budget.breaks < MaxBreaks /\ Spend("breaks")
    /\ client' = "backoff" /\ stream' = None /\ wire' = << >>
    /\ UNCHANGED <<primaryVars, roleVars, handle, rfile, lagPrimary, lagReplica>>

(* A crash during Append loses the record or, where it can, leaves part of it. *)
ReplicaCrashes ==
    /\ budget.replica < MaxReplicaCrashes /\ Spend("replica")
    /\ \E torn \in {FALSE, TornAppends /\ wire # << >>} :
        rfile' = IF torn THEN Append(rfile, [Piece(Head(wire).rec) EXCEPT !.kept = 1]) ELSE rfile
    /\ client' = "backoff" /\ stream' = None /\ wire' = << >> /\ lagReplica' = 0
    /\ UNCHANGED <<primaryVars, roleVars, handle, lagPrimary>>

(* The primary starts again as a follower, with a new handle on its WAL.  The *)
(* kernel finishes the write of a killed process; a power loss may undo it.   *)
PrimaryCrashes ==
    /\ budget.primary < MaxPrimaryCrashes /\ Spend("primary") /\ ~Writing
    /\ \E n \in IF PowerLoss THEN synced..Len(Wal) ELSE {Len(Wal)} :
        files' = [files EXCEPT ![Len(files)] = SubSeq(@, 1, n)] /\ synced' = n
    /\ handle' = Len(files) /\ stream' = None /\ wire' = << >> /\ lagPrimary' = 0
    /\ client' = "backoff"
    /\ role' = "follower" /\ current' = "follower" /\ active' = FALSE
    /\ UNCHANGED <<records, rfile, lagReplica>>

Init ==
    /\ files = << << >> >> /\ synced = 0 /\ records = 0
    /\ role = "follower" /\ current = "follower" /\ active = FALSE
    /\ handle = 1 /\ stream = None /\ wire = << >> /\ client = "backoff" /\ rfile = << >>
    /\ lagPrimary = 0 /\ lagReplica = 0
    /\ budget = [compactions |-> 0, breaks |-> 0, roles |-> 0, replica |-> 0, primary |-> 0]

Streamer == Reopen \/ Renotify \/ SendRecord \/ StreamFails

Replica == Connect \/ Receive \/ StreamEnds

Next ==
    \/ Write \/ WriteEnds \/ SyncTicker \/ Compact \/ RoleChanges \/ Poll
    \/ Streamer \/ Replica \/ ConnectionBreaks \/ ReplicaCrashes \/ PrimaryCrashes

Spec == Init /\ [][Next]_vars

-----------------------------------------------------------------------------
(* Shapes. *)
TypeOK ==
    /\ synced \in 0..Len(Wal) /\ handle \in 1..Len(files)
    /\ role \in {"follower", "candidate", "leader"} /\ active \in BOOLEAN
    /\ client \in {"backoff", "streaming"} /\ (stream # None => client = "streaming")
    /\ stream # None => stream.file \in 1..Len(files) /\ stream.offset <= FileSize(files[stream.file])

Records(file) == [n \in 1..Len(Scan(file).pieces) |-> file[n].rec]

(* Through reconnects, lost connections, half-written records and changes  *)
(* of role, the replica's file is byte for byte the beginning of the       *)
(* primary's: no record is missing, doubled or out of place.               *)
ReplicaIsPrefix == IsPrefix(rfile, Wal)

LatestOf(file) ==
    LET r == Records(file)
    IN  [k \in Keys |-> Max({0} \cup { r[n].id : n \in { m \in 1..Len(r) : r[m].key = k } })]

(* The streamer reads the current file, and from where the replica's copy of it ends. *)
OnCurrent == stream.whole /\ stream.file = Len(files)

CaughtUp ==
    /\ stream # None /\ ~stream.opened /\ ~Signalled /\ wire = << >> /\ ~Writing
    /\ stream.offset >= FileSize(files[stream.file])

(* A compaction under an open stream: once the streamer has started over   *)
(* and has nothing more to send, a reader of the replica's file finds the  *)
(* latest record of every key, whatever the file held before.  Nothing is  *)
(* said of a stream opened after a compaction, which reads the handle of   *)
(* start-up from an offset of another file, nor of one that missed the     *)
(* second of two compactions between os.Open and CompactionNotify.         *)
CaughtUpAgrees == CaughtUp /\ OnCurrent => LatestOf(rfile) = LatestOf(Wal)

=============================================================================
