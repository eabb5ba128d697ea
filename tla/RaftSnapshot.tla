---------------------------- MODULE RaftSnapshot ----------------------------
(***************************************************************************)
(* Snapshots between a leader and one follower: the leader compacts its    *)
(* log and sends its snapshot to the follower when the entries it needs    *)
(* are gone; the follower installs it, takes snapshots of its own, applies *)
(* what is committed, crashes and restarts.  The leader keeps its term and *)
(* the rest of the cluster commits with it.                                *)
(*                                                                         *)
(* The write-ahead log is kept as the entries LoadAll returns for it,      *)
(* which is what LogStore shows it to be.  The state machine holds, for    *)
(* each of two keys, the entry that wrote it last.                         *)
(***************************************************************************)
EXTENDS Integers, Sequences, FiniteSets, FiniteSetsExt

CONSTANTS
    MaxIndex,      \* bound on the leader's log
    MaxCrashes,    \* bound on the follower's crashes
    MaxTransfers,  \* sendSnapshot goroutines that may run at a time
    Chunks,        \* chunks of a snapshot
    RetainCount,   \* snapshots Prune keeps
    Threshold,     \* applied entries that are worth a snapshot
    OwnSnapshots,  \* does the follower take snapshots of its own?
    Overlap        \* may an install meet a local snapshot or undelivered entries?

VARIABLES
    last, lcommit, lsnap,   \* the leader: last index, commitIndex, snapshotIndex
    next, match,            \* nextIndex and matchIndex of the follower
    xfer,                   \* the sendSnapshot goroutines and the handlers they reached
    log, base,              \* the follower: log, snapshotIndex
    commit, applied,        \* commitIndex, lastApplied
    applyCh, sm,            \* entries on their way to the state machine, its state
    buf,                    \* snapBuf
    capt,                   \* the snapshot goroutine
    wal, snaps,             \* on disk: the log and the snapshots
    up, crashes

leader == <<last, lcommit, lsnap, next, match>>
node == <<log, base, commit, applied, applyCh, sm, buf, capt>>
disk == <<wal, snaps>>
vars == <<leader, xfer, node, disk, up, crashes>>

(* The leader won its term with one entry of the term before in its log. *)
LeaderEntry(i) == [index |-> i, term |-> IF i = 1 THEN 1 ELSE 2]
LeaderEntries(i, j) == [k \in 1..(j - i + 1) |-> LeaderEntry(i + k - 1)]

(* What a deposed leader may have left in the follower's log. *)
StaleEntry(i) == [index |-> i, term |-> 1]

Keys == 0..1
NoEntry == [index |-> 0, term |-> 0]

StateAt(n) ==
    [key \in Keys |-> LET writers == {i \in 1..n : i % 2 = key}
                      IN  IF writers = {} THEN NoEntry ELSE LeaderEntry(Max(writers))]

Idle == [phase |-> "idle", index |-> 0, sent |-> 0]
NoCapture == [phase |-> "idle", index |-> 0, data |-> StateAt(0)]

Before(s, i) ==
    LET late == {k \in 1..Len(s) : s[k].index >= i}
    IN  IF late = {} THEN s ELSE SubSeq(s, 1, Min(late) - 1)

After(s, i) == SelectSeq(s, LAMBDA e : e.index > i)

(* entryAt searches from the end. *)
EntryAt(s, i) ==
    LET at == {k \in 1..Len(s) : s[k].index = i}
    IN  IF at = {} THEN NoEntry ELSE s[Max(at)]

LastIndex == IF log = << >> THEN base ELSE log[Len(log)].index

(* A snapshot covers committed entries only, so its term is the leader's. *)
TermAt(i) ==
    IF EntryAt(log, i) # NoEntry THEN EntryAt(log, i).term
    ELSE IF i = base /\ i > 0 THEN LeaderEntry(i).term ELSE 0

Newest == IF snaps = {} THEN 0 ELSE Max({s.index : s \in snaps})

(* Mutant: nothing is pruned. *)
KeepAll(all) == all

(* The newest RetainCount snapshots stay. *)
Prune(all) == {t \in all : Cardinality({u \in all : u.index > t.index}) < RetainCount}

(* A temporary file, an fsync and a rename; the name is the index and term. *)
Saved(s) == Prune({t \in snaps : t.index # s.index} \cup {s})

Init ==
    /\ last = 1 /\ lcommit = 0 /\ lsnap = 0 /\ next = 2 /\ match = 0
    /\ xfer = [s \in 1..MaxTransfers |-> Idle]
    /\ log \in {<< >>, LeaderEntries(1, 1), <<LeaderEntry(1), StaleEntry(2), StaleEntry(3)>>}
    /\ wal = log
    /\ base = 0 /\ commit = 0 /\ applied = 0 /\ applyCh = << >>
    /\ sm = [data |-> StateAt(0), last |-> 0]
    /\ buf = << >> /\ capt = NoCapture /\ snaps = {}
    /\ up = TRUE /\ crashes = 0

(***************************************************************************)
(* The leader.                                                             *)
(***************************************************************************)
Propose ==
    /\ last < MaxIndex /\ last' = last + 1
    /\ UNCHANGED <<lcommit, lsnap, next, match, xfer, node, disk, up, crashes>>

(* The other nodes of the cluster make the quorum. *)
Commit ==
    /\ last > 1 /\ lcommit < last
    /\ lcommit' = last
    /\ UNCHANGED <<last, lsnap, next, match, xfer, node, disk, up, crashes>>

LeaderSnapshot ==
    /\ lcommit - lsnap >= Threshold
    /\ lsnap' = lcommit
    /\ UNCHANGED <<last, lcommit, next, match, xfer, node, disk, up, crashes>>

(***************************************************************************)
(* One AppendEntries round trip; the answer may be lost.                   *)
(***************************************************************************)
Appended(s, i) ==
    (IF EntryAt(s, i) = NoEntry THEN s ELSE Before(s, i)) \o LeaderEntries(i, last)

Accept ==
    LET new == {i \in next..last : EntryAt(log, i) # LeaderEntry(i)}
        first == Min(new)
        cut == EntryAt(log, first) # NoEntry
    IN  /\ log' = IF new = {} THEN log ELSE Appended(log, first)
        /\ wal' = IF new = {} THEN wal
                  ELSE (IF cut THEN Before(wal, first) ELSE wal) \o LeaderEntries(first, last)
        /\ commit' = IF lcommit <= commit THEN commit
                     ELSE Min({lcommit, IF log' = << >> THEN base ELSE log'[Len(log')].index})
        /\ UNCHANGED <<base, applied, applyCh, sm, buf, capt, snaps>>

(* The Fast Backup answer, as sendHeartbeats uses it. *)
Backup ==
    LET prev == next - 1
        ct == TermAt(prev)
        run == {i \in 1..prev : \A j \in i..prev : TermAt(j) = ct}
        own == {i \in (lsnap + 1)..last : LeaderEntry(i).term = ct}
    IN  IF ct = 0 THEN LastIndex + 1
        ELSE IF own # {} THEN Max(own) + 1 ELSE Min(run)

Matches == next = 1 \/ TermAt(next - 1) = LeaderEntry(next - 1).term

Replicate(answered) ==
    /\ up /\ next > lsnap
    /\ IF Matches
       THEN /\ Accept
            /\ match' = IF answered /\ next <= last /\ last > match THEN last ELSE match
            /\ next' = IF answered THEN match' + 1 ELSE next
       ELSE /\ next' = IF answered THEN Backup ELSE next
            /\ UNCHANGED <<match, node, disk>>
    /\ UNCHANGED <<last, lcommit, lsnap, xfer, up, crashes>>

(***************************************************************************)
(* sendSnapshot: every heartbeat that finds nextIndex compacted starts one.*)
(***************************************************************************)
StartTransfer(s) ==
    /\ next <= lsnap
    /\ xfer[s] = Idle
    /\ xfer' = [xfer EXCEPT ![s] = [phase |-> "sending", index |-> lsnap, sent |-> 0]]
    /\ UNCHANGED <<leader, node, disk, up, crashes>>

Installing(phases) == \E s \in 1..MaxTransfers : xfer[s].phase \in phases

Quiet == capt = NoCapture /\ applyCh = << >>

Received(s) ==
    (IF xfer[s].sent = 0 THEN << >> ELSE buf)
        \o <<[index |-> xfer[s].index, part |-> xfer[s].sent + 1]>>

ReceiveChunk(s) ==
    /\ up /\ xfer[s].phase = "sending" /\ xfer[s].sent + 1 < Chunks
    /\ buf' = Received(s)
    /\ xfer' = [xfer EXCEPT ![s].sent = @ + 1]
    /\ UNCHANGED <<leader, log, base, commit, applied, applyCh, sm, capt, disk, up, crashes>>

(* The buffer decodes if it holds the chunks of one snapshot in order. *)
Decoded(b, i) == b = [c \in 1..Chunks |-> [index |-> i, part |-> c]]

(* Mutant: the suffix is kept as soon as the entry matches, applied or not. *)
AlreadyLogged(i) == EntryAt(log, i) = LeaderEntry(i)

(* The entry is there and applied: only the prefix goes. *)
AlreadyApplied(i) == EntryAt(log, i) = LeaderEntry(i) /\ sm.last >= i

(* The last chunk, up to and including RestoreSnapshot. *)
ReceiveLast(s) ==
    LET i == xfer[s].index
        to(phase) == [xfer EXCEPT ![s].phase = phase]
    IN  /\ up /\ xfer[s].phase = "sending" /\ xfer[s].sent + 1 = Chunks
        /\ Overlap \/ Quiet
        /\ buf' = << >>
        /\ IF ~Decoded(Received(s), i)
           THEN xfer' = to("done") /\ UNCHANGED <<log, base, sm>>
           ELSE IF AlreadyApplied(i)
           THEN xfer' = to("done") /\ log' = After(log, i) /\ base' = i /\ UNCHANGED sm
           ELSE /\ xfer' = to("restored")
                /\ sm' = [data |-> StateAt(i), last |-> i]
                /\ UNCHANGED <<log, base>>
        /\ UNCHANGED <<leader, commit, applied, applyCh, capt, disk, up, crashes>>

Install(s) ==
    /\ up /\ xfer[s].phase = "restored"
    /\ log' = << >> /\ base' = xfer[s].index
    /\ commit' = Max({commit, xfer[s].index})
    /\ applied' = Max({applied, xfer[s].index})
    /\ xfer' = [xfer EXCEPT ![s].phase = "installed"]
    /\ UNCHANGED <<leader, applyCh, sm, buf, capt, disk, up, crashes>>

(* Mutant: the received snapshot stays in memory. *)
SkipSaveInstalled(s) ==
    /\ up /\ xfer[s].phase = "installed"
    /\ xfer' = [xfer EXCEPT ![s].phase = "done"]
    /\ UNCHANGED <<leader, node, disk, up, crashes>>

SaveInstalled(s) ==
    /\ up /\ xfer[s].phase = "installed"
    /\ snaps' = Saved([index |-> xfer[s].index, data |-> StateAt(xfer[s].index)])
    /\ xfer' = [xfer EXCEPT ![s].phase = "done"]
    /\ UNCHANGED <<leader, node, wal, up, crashes>>

(* Mutant: nextIndex stays below the snapshot. *)
ReplyMatchOnly(s) ==
    /\ xfer[s].phase = "done"
    /\ match' = Max({match, xfer[s].index})
    /\ xfer' = [xfer EXCEPT ![s] = Idle]
    /\ UNCHANGED <<last, lcommit, lsnap, next, node, disk, up, crashes>>

(* Any answer counts, whatever the handler did. *)
Reply(s) ==
    /\ xfer[s].phase = "done"
    /\ next' = Max({next, xfer[s].index + 1})
    /\ match' = Max({match, xfer[s].index})
    /\ xfer' = [xfer EXCEPT ![s] = Idle]
    /\ UNCHANGED <<last, lcommit, lsnap, node, disk, up, crashes>>

(* The stream breaks, or the answer is lost. *)
LoseTransfer(s) ==
    /\ xfer[s].phase \in {"sending", "done"}
    /\ xfer' = [xfer EXCEPT ![s] = Idle]
    /\ UNCHANGED <<leader, node, disk, up, crashes>>

(***************************************************************************)
(* The follower's apply loop, and its state machine at the other end.      *)
(***************************************************************************)
Deliver ==
    /\ up /\ commit > applied
    /\ Overlap \/ ~Installing({"restored"})
    /\ LET found == {i \in (applied + 1)..commit : EntryAt(log, i) # NoEntry}
       IN  applyCh' = applyCh \o SelectSeq([k \in 1..(commit - applied) |-> EntryAt(log, applied + k)],
                                           LAMBDA e : e.index \in found)
    /\ applied' = commit
    /\ UNCHANGED <<leader, xfer, log, base, commit, sm, buf, capt, disk, up, crashes>>

Apply ==
    /\ up /\ applyCh # << >>
    /\ LET e == Head(applyCh)
       IN  sm' = [data |-> [sm.data EXCEPT ![e.index % 2] = e], last |-> e.index]
    /\ applyCh' = Tail(applyCh)
    /\ UNCHANGED <<leader, xfer, log, base, commit, applied, buf, capt, disk, up, crashes>>

(***************************************************************************)
(* maybeSnapshot; every node runs it, whatever its role.                   *)
(***************************************************************************)
Capture ==
    /\ up /\ OwnSnapshots /\ capt = NoCapture
    /\ sm.last - base >= Threshold
    /\ EntryAt(log, sm.last) # NoEntry
    /\ Overlap \/ ~Installing({"restored", "installed"})
    /\ capt' = [phase |-> "captured", index |-> sm.last, data |-> sm.data]
    /\ UNCHANGED <<leader, xfer, log, base, commit, applied, applyCh, sm, buf, disk, up, crashes>>

SaveCaptured ==
    /\ up /\ capt.phase = "captured"
    /\ snaps' = Saved([index |-> capt.index, data |-> capt.data])
    /\ capt' = [capt EXCEPT !.phase = "saved"]
    /\ UNCHANGED <<leader, xfer, log, base, commit, applied, applyCh, sm, buf, wal, up, crashes>>

TruncateCaptured ==
    /\ up /\ capt.phase = "saved"
    /\ log' = After(log, capt.index) /\ base' = capt.index
    /\ capt' = [capt EXCEPT !.phase = "truncated"]
    /\ UNCHANGED <<leader, xfer, commit, applied, applyCh, sm, buf, disk, up, crashes>>

CompactCaptured ==
    /\ up /\ capt.phase = "truncated"
    /\ wal' = After(wal, capt.index)
    /\ capt' = NoCapture
    /\ UNCHANGED <<leader, xfer, log, base, commit, applied, applyCh, sm, buf, snaps, up, crashes>>

Crash ==
    /\ up /\ crashes < MaxCrashes
    /\ up' = FALSE /\ crashes' = crashes + 1
    /\ log' = << >> /\ base' = 0 /\ commit' = 0 /\ applied' = 0 /\ applyCh' = << >>
    /\ sm' = [data |-> StateAt(0), last |-> 0]
    /\ buf' = << >> /\ capt' = NoCapture
    /\ xfer' = [s \in 1..MaxTransfers |-> IF xfer[s].phase = "done" THEN xfer[s] ELSE Idle]
    /\ UNCHANGED <<leader, disk>>

(* Mutant: the first entry after the snapshot is dropped with the rest. *)
RecoverDroppingOne(s) ==
    /\ ~up /\ up' = TRUE
    /\ log' = After(wal, s.index + 1) /\ base' = s.index
    /\ sm' = [data |-> s.data, last |-> s.index]
    /\ UNCHANGED <<leader, xfer, commit, applied, applyCh, buf, capt, disk, crashes>>

(* NewRaftNode and recoverFromSnapshot. *)
Recover(s) ==
    /\ ~up /\ up' = TRUE
    /\ log' = After(wal, s.index) /\ base' = s.index
    /\ sm' = [data |-> s.data, last |-> s.index]
    /\ UNCHANGED <<leader, xfer, commit, applied, applyCh, buf, capt, disk, crashes>>

Restart ==
    \/ snaps = {} /\ Recover([index |-> 0, data |-> StateAt(0)])
    \/ \E s \in snaps : s.index = Newest /\ Recover(s)

Next ==
    \/ Propose \/ Commit \/ LeaderSnapshot
    \/ Replicate(TRUE) \/ Replicate(FALSE)
    \/ \E s \in 1..MaxTransfers :
         \/ StartTransfer(s) \/ ReceiveChunk(s) \/ ReceiveLast(s)
         \/ Install(s) \/ SaveInstalled(s) \/ Reply(s) \/ LoseTransfer(s)
    \/ Deliver \/ Apply
    \/ Capture \/ SaveCaptured \/ TruncateCaptured \/ CompactCaptured
    \/ Crash \/ Restart

Spec == Init /\ [][Next]_vars

TypeOK ==
    /\ {last, next - 1, lcommit, lsnap, match, base, commit, applied} \subseteq 0..MaxIndex
    /\ lsnap <= lcommit /\ lcommit <= last
    /\ \A s \in 1..MaxTransfers : xfer[s].sent < Chunks
    /\ Len(buf) < Chunks * MaxTransfers
    /\ Cardinality(snaps) <= RetainCount
    /\ up \in BOOLEAN

(***************************************************************************)
(* Whatever the leader counts for the follower (matchIndex), the follower  *)
(* has: the entry is in its log, or its snapshotIndex covers it.  Its vote *)
(* and the commit rule both rest on this.                                  *)
(***************************************************************************)
AckedHeld ==
    up => \A i \in 1..match : i <= base \/ EntryAt(log, i) = LeaderEntry(i)

(***************************************************************************)
(* ... and a crash cannot take it away: it is in the write-ahead log or in *)
(* a snapshot on disk, through every step of an install and a compaction   *)
(* ("Persist the received snapshot to disk so recovery after a crash       *)
(* works").                                                                *)
(***************************************************************************)
AckedDurable ==
    \A i \in 1..match : i <= Newest \/ EntryAt(wal, i) = LeaderEntry(i)

(***************************************************************************)
(* INV-S1, for the live state once it has settled and for every snapshot   *)
(* on disk: the state at index n is what the first n entries wrote.        *)
(***************************************************************************)
AppliedPrefix ==
    /\ applyCh = << >> => sm.data = StateAt(sm.last)
    /\ \A s \in snaps : s.data = StateAt(s.index)

(***************************************************************************)
(* When nothing is on its way, the state machine is at least where the     *)
(* node believes it is (lastApplied); an entry below would never be        *)
(* delivered again.                                                        *)
(***************************************************************************)
NothingSkipped ==
    up /\ applyCh = << >> /\ ~Installing({"restored"}) => sm.last >= applied

=============================================================================
