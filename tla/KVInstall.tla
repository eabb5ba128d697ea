----------------------------- MODULE KVInstall -----------------------------
(***************************************************************************)
(* KVStateMachine on a node with snapshots.  The node saves snapshots of   *)
(* its own map and compacts the write-ahead log of its Raft entries, or    *)
(* installs a leader's snapshot in place of entries it never received.     *)
(* Nothing of a snapshot goes to kv.wal.  A restart has three sources: the *)
(* newest snapshot, the Raft entries still on disk, and kv.wal, of which   *)
(* only the checkpoint is used.                                            *)
(*                                                                         *)
(* log is the log of the group as far as this node knows it; the node has  *)
(* the entries after base in memory and those in held on disk.             *)
(***************************************************************************)
EXTENDS KVStateMachine

CONSTANTS MaxCaptures, MaxInstalls,
          Overlap     \* may an install meet entries on their way to the state machine,
                      \* and a capture entries to be applied for the second time?

VARIABLES
    held,      \* indexes of the entries LoadAll returns
    base,      \* RaftNode.snapshotIndex
    saved,     \* the newest snapshot on disk
    capture,   \* None, or what the goroutine of maybeSnapshot is working on
    install,   \* None, or the snapshot HandleInstallSnapshot has restored
    captures, installs

diskVars == <<held, saved>>
snapVars == <<held, base, saved, capture, install, captures, installs>>
allVars == <<vars, snapVars>>

NoSnapshot == [index |-> 0, data |-> Empty]

(* The entries of a set of indexes, in the order of the log. *)
EntriesAt(s) ==
    LET present == SelectSeq([i \in 1..Len(log) |-> i], LAMBDA i : i \in s)
    IN  [n \in 1..Len(present) |-> [index |-> present[n], entry |-> log[present[n]]]]

EnactAll(kv, queued) == FoldLeft(LAMBDA acc, q : Enact(acc, q.entry), kv, queued)

InstallInit ==
    /\ Init
    /\ held = {} /\ base = 0 /\ saved = NoSnapshot
    /\ capture = None /\ install = None /\ captures = 0 /\ installs = 0

-----------------------------------------------------------------------------
(* Entries reach the log only while no snapshot is being installed. *)
Persist(appended) ==
    /\ install = None /\ appended
    /\ held' = held \cup {Len(log')}
    /\ UNCHANGED <<base, saved, capture, install, captures, installs>>

(* A tick of runApplyLoop: entryAt finds what is in memory. *)
CollectHeld ==
    /\ delivered < commit
    /\ Overlap \/ install = None
    /\ queue' = queue \o EntriesAt((held \cap (delivered + 1)..commit) \ 1..base)
    /\ delivered' = commit
    /\ UNCHANGED <<log, commit, chosen, entries, storeVars, applying, data, lastApplied, applied,
                   client, requests, restarts, snap, snapVars>>

-----------------------------------------------------------------------------
(***************************************************************************)
(* maybeSnapshot: capture, save, then drop the prefix in memory and on     *)
(* disk.  After a restart the log is delivered a second time; until then   *)
(* entries up to lastApplied are still to be applied again.                *)
(***************************************************************************)
Redelivering ==
    \/ delivered < lastApplied
    \/ \E n \in DOMAIN queue : queue[n].index <= lastApplied
    \/ applying # None /\ applying.done # "advance" /\ applying.index <= lastApplied

Capture ==
    /\ capture = None /\ install = None /\ captures < MaxCaptures
    /\ Overlap \/ ~Redelivering
    /\ lastApplied > base
    /\ capture' = [index |-> lastApplied, data |-> data, onDisk |-> FALSE]
    /\ captures' = captures + 1
    /\ UNCHANGED <<vars, diskVars, base, install, installs>>

(* Mutant: Save's error is overlooked. *)
SaveNothing ==
    /\ capture # None /\ ~capture.onDisk
    /\ capture' = [capture EXCEPT !.onDisk = TRUE]
    /\ UNCHANGED <<vars, diskVars, base, install, captures, installs>>

SaveCaptured ==
    /\ capture # None /\ ~capture.onDisk
    /\ saved' = [index |-> capture.index, data |-> capture.data]
    /\ capture' = [capture EXCEPT !.onDisk = TRUE]
    /\ UNCHANGED <<vars, held, base, install, captures, installs>>

CompactCaptured ==
    /\ capture # None /\ capture.onDisk
    /\ base' = capture.index
    /\ held' = held \ 1..capture.index
    /\ capture' = None
    /\ UNCHANGED <<vars, saved, install, captures, installs>>

-----------------------------------------------------------------------------
(***************************************************************************)
(* HandleInstallSnapshot at a node that has not applied the snapshot's     *)
(* last entry.  RestoreSnapshot replaces the map while mu is released ...  *)
(* The snapshot covers the node's log, or one entry more.                  *)
(***************************************************************************)
Quiet == queue = << >> /\ applying = None

Covered(tail) == log \o tail

Offered ==
    {<< >>} \cup {<<[op |-> op, key |-> k, name |-> entries + 1]>> :
                    op \in {o \in Ops : entries < MaxEntries}, k \in Keys}

(* Mutant: the map is kept, only the index moves. *)
RestoreIndexOnly(tail) ==
    /\ install = None /\ capture = None /\ installs < MaxInstalls
    /\ Overlap \/ Quiet
    /\ lastApplied < Len(Covered(tail))
    /\ lastApplied' = Len(Covered(tail))
    /\ install' = [data |-> FoldLeft(Enact, Empty, Covered(tail))]
    /\ log' = Covered(tail) /\ chosen' = Len(log')
    /\ applied' = applied \cup {Covered(tail)[i].name : i \in 1..Len(Covered(tail))}
    /\ entries' = entries + Len(tail) /\ installs' = installs + 1
    /\ UNCHANGED <<commit, delivered, storeVars, queue, applying, data, client,
                   requests, restarts, snap, held, base, saved, capture, captures>>

RestoreSnapshot(tail) ==
    /\ install = None /\ capture = None /\ installs < MaxInstalls
    /\ Overlap \/ Quiet
    /\ lastApplied < Len(Covered(tail))
    /\ data' = FoldLeft(Enact, Empty, Covered(tail))
    /\ lastApplied' = Len(Covered(tail))
    /\ install' = [data |-> data']
    /\ log' = Covered(tail) /\ chosen' = Len(log')
    /\ applied' = applied \cup {Covered(tail)[i].name : i \in 1..Len(Covered(tail))}
    /\ entries' = entries + Len(tail) /\ installs' = installs + 1
    /\ UNCHANGED <<commit, delivered, storeVars, queue, applying, client,
                   requests, restarts, snap, held, base, saved, capture, captures>>

(* ... notifyAllWaitersUpTo wakes everyone it covers, ... *)
WokenUpTo(n) ==
    [c \in Clients |-> IF client[c].pc = "waiting" /\ client[c].index <= n
                       THEN [client[c] EXCEPT !.pc = "woken"] ELSE client[c]]

(* ... and under mu again the log gives way to the snapshot, which is saved. *)
InstallSnapshot ==
    /\ install # None
    /\ client' = WokenUpTo(Len(log))
    /\ base' = Len(log) /\ saved' = [index |-> Len(log), data |-> install.data]
    /\ commit' = Len(log) /\ delivered' = Len(log)
    /\ install' = None
    /\ UNCHANGED <<log, chosen, entries, storeVars, smVars, requests, restarts, snap, held, capture,
                   captures, installs>>

-----------------------------------------------------------------------------
(***************************************************************************)
(* main: RecoverFromSnapshot fills the map from the snapshot,              *)
(* RecoverFromStore goes over it with every entry of the Raft log on disk  *)
(* up to kv.wal's checkpoint, and ApplyDirect applies the entries after.   *)
(* A crash between the steps of an install is part of RaftSnapshot.        *)
(***************************************************************************)
RestartFromSnapshot ==
    /\ restarts < MaxRestarts /\ install = None
    /\ \E f \in WholeRemains(file, synced) :
           LET last == RecoverKV(f).last
               gap == Commands(EntriesAt(held \ 1..last))
               opened == [file |-> f, tracker |-> FileSize(f), index |-> RecoverKV(f).index]
           IN  /\ \A i \in {last} \ {0} : i <= saved.index \/ \E j \in held : i <= j
               /\ StoreBecomes(FoldLeft(LAMBDA st, q : Stored(st, q.index, q.entry), opened, gap))
               /\ synced' = Len(f)
               /\ data' = EnactAll(EnactAll(saved.data, EntriesAt(held \cap 1..last)), gap)
               /\ lastApplied' = IF gap = << >> THEN last ELSE Last(gap).index
               /\ applied' = applied \cup {gap[n].entry.name : n \in DOMAIN gap}
    /\ base' = saved.index
    /\ commit' = 0 /\ delivered' = 0 /\ queue' = << >> /\ applying' = None
    /\ client' = [c \in Clients |-> Idle]
    /\ restarts' = restarts + 1
    /\ capture' = None
    /\ UNCHANGED <<log, chosen, entries, requests, snap, held, saved, install, captures, installs>>

StateMachineStep ==
    \/ \E n \in 1..MaxEntries : install = None /\ AdvanceCommit(n)
    \/ ApplyMalformed \/ ApplyStore \/ ApplyCache \/ ApplyAdvance \/ ApplyNotify
    \/ SyncTicker
    \/ \E c \in Clients, k \in Keys : ReadIndex(c, k)
    \/ \E c \in Clients : CheckApplied(c) \/ Register(c) \/ GiveUp(c) \/ Answer(c) \/ Return(c)

InstallNext ==
    \/ \E c \in Clients, op \in Ops \cap {"set", "del"}, k \in Keys : Persist(Propose(c, op, k))
    \/ \E i \in 1..MaxEntries, op \in Ops, k \in Keys : Persist(AppendOther(i, op, k))
    \/ StateMachineStep /\ UNCHANGED snapVars
    \/ CollectHeld
    \/ Capture \/ SaveCaptured \/ CompactCaptured
    \/ \E tail \in Offered : RestoreSnapshot(tail)
    \/ InstallSnapshot
    \/ RestartFromSnapshot

InstallSpec == InstallInit /\ [][InstallNext]_allVars

-----------------------------------------------------------------------------
(* What is on disk, in a snapshot or in the log, is the whole log. *)
InstallTypeOK ==
    /\ held \subseteq 1..Len(log) /\ base \in 0..Len(log) /\ saved.index \in base..Len(log)
    /\ 1..Len(log) \subseteq held \cup 1..saved.index

(***************************************************************************)
(* A node that has applied its whole log has the map the log says, from    *)
(* whatever snapshot, log and part of kv.wal it was started: main restores *)
(* the snapshot, loads the log and replays the gap, in this order.         *)
(***************************************************************************)
RecoveredAgrees == CaughtUp /\ install = None => data = Replay(Len(log))

=============================================================================
