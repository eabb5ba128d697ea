------------------------------ MODULE LogStore ------------------------------
(***************************************************************************)
(* WALLogStore, the durable Raft log, driven the way RaftNode drives it:   *)
(* entries are appended and fsynced one by one, a conflict appends a       *)
(* truncation marker, and a snapshot is saved, cut from the log in memory  *)
(* and only then compacted out of the file.  The process may stop at any   *)
(* point; a restart loads the file and drops what the snapshot covers.     *)
(***************************************************************************)
EXTENDS WalFile, SequencesExt

CONSTANTS MaxIndex, MaxTerm, MaxRecords,
          EntrySize,     \* payload of an entry record, in units of a marker's
          SyncFaults,    \* may a Write or its fsync fail while the process lives on?
          TornTails      \* may a stop leave part of a record behind?

VARIABLES
    file,       \* the pieces of the WAL
    synced,     \* how many of them an fsync has covered
    log,        \* RaftNode.log
    base,       \* RaftNode.snapshotIndex
    saved,      \* index of the newest snapshot on disk
    captured,   \* index of the snapshot under way, 0 if none
    up,         \* is the process running?
    doomed      \* history: where a truncation failed, MaxIndex + 1 if nowhere

vars == <<file, synced, log, base, saved, captured, up, doomed>>

LogEntry == [index : 1..MaxIndex, term : 1..MaxTerm]

EntryRecord(e) == [type |-> "entry", entry |-> e, size |-> EntrySize]

TruncateRecord(i) == [type |-> "truncate", from |-> i, size |-> 1]

Before(s, i) ==
    LET late == {k \in 1..Len(s) : s[k].index >= i}
    IN  IF late = {} THEN s ELSE SubSeq(s, 1, Min(late) - 1)

After(s, i) == SelectSeq(s, LAMBDA e : e.index > i)

(* One record of the file, replayed onto the entries before it. *)
Replay(entries, piece) ==
    IF piece.rec.type = "entry"
    THEN Append(entries, piece.rec.entry)
    ELSE Before(entries, piece.rec.from)

Replayed(f) == FoldLeft(LAMBDA acc, piece : Replay(acc, piece), << >>, Scan(f).pieces)

(***************************************************************************)
(* LoadAll, and what NewRaftNode makes of it: an unreadable file is logged *)
(* and the node starts with an empty log.                                  *)
(***************************************************************************)
LoadAll(f) == [err |-> Scan(f).err, entries |-> Replayed(f)]

Loaded(f) == IF LoadAll(f).err = "none" THEN LoadAll(f).entries ELSE << >>

LastIndex == IF log = << >> THEN base ELSE Last(log).index

Init ==
    /\ file = << >> /\ synced = 0 /\ log = << >>
    /\ base = 0 /\ saved = 0 /\ captured = 0
    /\ up = TRUE /\ doomed = MaxIndex + 1

(* Mutant: the fsync is left to a ticker. *)
WriteUnsynced(rec) ==
    /\ Len(file) < MaxRecords
    /\ file' = Append(file, Piece(rec))
    /\ UNCHANGED synced

Write(rec) ==
    /\ Len(file) < MaxRecords
    /\ file' = Append(file, Piece(rec))
    /\ synced' = Len(file')

Surviving(f, first) == IF TornTails THEN Remains(f, first) ELSE WholeRemains(f, first)

(* proposeEntry, or the append loop of HandleAppendEntries. *)
Append_(t) ==
    LET e == [index |-> LastIndex + 1, term |-> t]
    IN  /\ up /\ e.index <= MaxIndex
        /\ Write(EntryRecord(e))
        /\ log' = Append(log, e)
        /\ UNCHANGED <<base, saved, captured, up, doomed>>

(* A conflict at an index no snapshot covers. *)
TruncateSuffix(i) ==
    /\ up
    /\ i > base /\ i > captured
    /\ \E k \in 1..Len(log) : log[k].index = i
    /\ Write(TruncateRecord(i))
    /\ log' = Before(log, i)
    /\ doomed' = IF i <= doomed THEN MaxIndex + 1 ELSE doomed
    /\ UNCHANGED <<base, saved, captured, up>>

(* The record or part of it reaches the file, the caller gets an error and *)
(* leaves its log alone.                                                   *)
FailWrite(rec) ==
    /\ up /\ SyncFaults
    /\ Len(file) < MaxRecords
    /\ file' \in Surviving(Append(file, Piece(rec)), Len(file))
    /\ UNCHANGED <<synced, log, base, saved, captured, up>>

FailAppend(t) ==
    /\ LastIndex < MaxIndex
    /\ FailWrite(EntryRecord([index |-> LastIndex + 1, term |-> t]))
    /\ UNCHANGED doomed

FailTruncate(i) ==
    /\ i > base /\ i > captured
    /\ \E k \in 1..Len(log) : log[k].index = i
    /\ FailWrite(TruncateRecord(i))
    /\ doomed' = Min({doomed, i})

(***************************************************************************)
(* The goroutine of maybeSnapshot.                                         *)
(***************************************************************************)
Capture(i) ==
    /\ up /\ captured = 0
    /\ \E k \in 1..Len(log) : log[k].index = i
    /\ captured' = i
    /\ UNCHANGED <<file, synced, log, base, saved, up, doomed>>

SaveSnapshot ==
    /\ up /\ captured > saved
    /\ \/ saved' = captured /\ UNCHANGED captured
       \/ captured' = 0 /\ UNCHANGED saved
    /\ UNCHANGED <<file, synced, log, base, up, doomed>>

TruncateLogPrefix ==
    /\ up /\ captured > base /\ saved = captured
    /\ log' = After(log, captured)
    /\ base' = captured
    /\ UNCHANGED <<file, synced, saved, captured, up, doomed>>

(* Mutant: the rewrite copies the entry records and skips the markers. *)
RewriteEntryRecords(f, i) ==
    SelectSeq(Scan(f).pieces, LAMBDA p : p.rec.type = "entry" /\ p.rec.entry.index > i)

(* The entries after the boundary, with the markers applied, in a new file. *)
RewriteWALExcluding(f, i) ==
    LET kept == After(Replayed(f), i) IN [k \in 1..Len(kept) |-> Piece(EntryRecord(kept[k]))]

(* Mutant: the file is compacted before the snapshot is on disk. *)
MayCompact == captured > 0

MayCompactNow == captured > 0 /\ base = captured

(* Mutant: the new file takes over with the old one's size. *)
CompactKeepingSize ==
    /\ up /\ MayCompactNow
    /\ file' = RewriteWALExcluding(file, captured)
    /\ captured' = 0
    /\ UNCHANGED <<synced, log, base, saved, up, doomed>>

(* The rename makes the rewritten file, which is fsynced, the WAL; a       *)
(* failure before it leaves the old one.                                   *)
CompactPrefix ==
    /\ up /\ MayCompactNow
    /\ \/ /\ Scan(file).err = "none"
          /\ file' = RewriteWALExcluding(file, captured)
          /\ synced' = Len(file')
       \/ UNCHANGED <<file, synced>>
    /\ captured' = 0
    /\ UNCHANGED <<log, base, saved, up, doomed>>

(***************************************************************************)
(* The process stops, at rest or inside a write: what was synced survives, *)
(* and of the rest any prefix.                                             *)
(***************************************************************************)
Stopped(image) ==
    /\ file' = image /\ synced' = Len(image)
    /\ up' = FALSE /\ log' = << >> /\ base' = 0 /\ captured' = 0
    /\ doomed' = MaxIndex + 1
    /\ UNCHANGED saved

Crash ==
    /\ up
    /\ \E image \in Surviving(file, synced) : Stopped(image)

CrashInWrite(rec) ==
    /\ up
    /\ Len(file) < MaxRecords
    /\ \E image \in Surviving(Append(file, Piece(rec)), synced) : Stopped(image)

CrashInAppend(t) ==
    /\ LastIndex < MaxIndex
    /\ CrashInWrite(EntryRecord([index |-> LastIndex + 1, term |-> t]))

CrashInTruncate(i) ==
    /\ i > base /\ i > captured
    /\ \E k \in 1..Len(log) : log[k].index = i
    /\ CrashInWrite(TruncateRecord(i))

(* Mutant: the entries the snapshot covers stay in the log. *)
RestartUnfiltered ==
    /\ ~up
    /\ log' = Loaded(file)
    /\ base' = saved
    /\ up' = TRUE
    /\ UNCHANGED <<file, synced, saved, captured, doomed>>

(* NewRaftNode loads the file, RecoverFromSnapshot drops what it covers. *)
Restart ==
    /\ ~up
    /\ log' = After(Loaded(file), saved)
    /\ base' = saved
    /\ up' = TRUE
    /\ UNCHANGED <<file, synced, saved, captured, doomed>>

Next ==
    \/ \E t \in 1..MaxTerm : Append_(t) \/ FailAppend(t) \/ CrashInAppend(t)
    \/ \E i \in 1..MaxIndex :
         TruncateSuffix(i) \/ FailTruncate(i) \/ CrashInTruncate(i) \/ Capture(i)
    \/ SaveSnapshot \/ TruncateLogPrefix \/ CompactPrefix
    \/ Crash \/ Restart

Spec == Init /\ [][Next]_vars

TypeOK ==
    /\ synced \in 0..Len(file) /\ Len(file) <= MaxRecords
    /\ log \in Seq(LogEntry)
    /\ {base, saved, captured} \subseteq 0..MaxIndex
    /\ up \in BOOLEAN /\ doomed \in 1..(MaxIndex + 1)

(***************************************************************************)
(* The LogStore contract ("Append and TruncateSuffix are durable (fsync'd) *)
(* before returning"): at any moment, whatever part of the unsynced bytes  *)
(* survives, a restart rebuilds exactly the log the node works with.       *)
(***************************************************************************)
RestartRestoresLog ==
    up => \A image \in Surviving(file, synced) :
            After(Loaded(image), saved) = After(log, saved)

(***************************************************************************)
(* The part of that contract a failing disk leaves: an entry whose Append  *)
(* returned nil, and that no leader has asked to remove, is among what a   *)
(* restart loads, however many appends and truncations around it failed.   *)
(***************************************************************************)
AckedEntriesSurvive ==
    up => \A image \in Surviving(file, synced) :
            {e \in ToSet(log) : e.index > saved /\ e.index < doomed} \subseteq ToSet(Loaded(image))

(***************************************************************************)
(* What a restarted node works with is a log: consecutive indices that     *)
(* start right after its snapshot, so that an index names one entry.       *)
(***************************************************************************)
LogContiguous ==
    up => \A k \in 1..Len(log) : log[k].index = base + k

(***************************************************************************)
(* The durable store does what the in-memory store does: whatever is       *)
(* written, rewritten or lost with the process, the entries a load returns *)
(* change by one append, one suffix truncation or one prefix compaction.   *)
(***************************************************************************)
Mem == INSTANCE MemLogStore WITH Entries <- LogEntry, entries <- Loaded(file)

=============================================================================
