--------------------------- MODULE KVStateMachine ---------------------------
(***************************************************************************)
(* One node's Raft KV: the apply loop hands committed entries to           *)
(* KVStateMachine.apply, which writes the durable store (data/kv.wal),     *)
(* then the map in memory, then lastApplied, then wakes the handlers that  *)
(* wait for the index.  Handlers propose or take a read index, wait, and   *)
(* answer.  A restart recovers the store, replays the Raft log over it and *)
(* then has every committed entry delivered again from the first.          *)
(*                                                                         *)
(* The Raft log is the node's; entries are named by the order in which     *)
(* they were created, and an entry's value is its name.                    *)
(***************************************************************************)
EXTENDS WalFile, SequencesExt

CONSTANTS Keys, Clients,
          Ops,             \* of "set", "del", "other" (a swap or a configuration, which this
                           \* machine has no case for) and "bad", which is no JSON
          MaxEntries, MaxRequests, MaxRestarts,
          MaxKeys,         \* the store's limit on its index
          StoreFaults,     \* may a write to kv.wal fail, before or between its two records?
          Overwrites,      \* may another leader replace uncommitted entries?
          None

VARIABLES
    log,         \* the Raft log, durable
    commit,      \* RaftNode.commitIndex
    chosen,      \* history: the highest commitIndex ever
    entries,     \* how many entries were created
    delivered,   \* RaftNode.lastApplied
    queue,       \* indexed entries collected by the apply loop, not yet applied
    applying,    \* None, or the entry apply() is at and its last finished step
    data,        \* KVStateMachine.data; 0 for an absent key
    lastApplied, \* KVStateMachine.lastApplied
    applied,     \* history: names of the entries apply() put into data
    file, synced, tracker,   \* kv.wal, how much of it is fsynced, Writer.sizeTracker
    index,       \* the store's HashIndex
    client,      \* each handler's request
    requests, restarts,
    snap         \* None, or what TakeSnapshot returned

raftVars == <<log, commit, chosen, entries, delivered>>
storeVars == <<file, synced, tracker, index>>
smVars == <<queue, applying, data, lastApplied, applied>>
vars == <<raftVars, storeVars, smVars, client, requests, restarts, snap>>

Idle == [pc |-> "idle"]

Enact(kv, e) ==
    CASE e.op = "set" -> [kv EXCEPT ![e.key] = e.name]
      [] e.op = "del" -> [kv EXCEPT ![e.key] = 0]
      [] OTHER -> kv

Empty == [k \in Keys |-> 0]

Replay(n) == FoldLeft(Enact, Empty, SubSeq(log, 1, n))

-----------------------------------------------------------------------------
(* The records of kv.wal, and the store built from them. *)
DataRecord(e) == [type |-> e.op, key |-> e.key, name |-> e.name, size |-> 1]

MetaRecord(i) == [type |-> "meta", raftIndex |-> i, size |-> 1]

Insert(ix, k, offset) == [j \in DOMAIN ix \cup {k} |-> IF j = k THEN offset ELSE ix[j]]

Without(ix, k) == [j \in DOMAIN ix \ {k} |-> ix[j]]

(* RecoverKV: the index, lastApplied, and the values a reader of the records finds. *)
RecoverKV(f) ==
    LET Step(acc, n) ==
            LET rec == f[n].rec
            IN  CASE rec.type = "set" -> [acc EXCEPT !.index = Insert(@, rec.key, OffsetOf(f, n)),
                                                     !.kv[rec.key] = rec.name]
                  [] rec.type = "del" -> [acc EXCEPT !.index = Without(@, rec.key),
                                                     !.kv[rec.key] = 0]
                  [] OTHER -> [acc EXCEPT !.last = rec.raftIndex]
    IN  FoldLeft(Step, [index |-> << >>, kv |-> Empty, last |-> 0], [n \in 1..Len(f) |-> n])

Full(ix, k) == k \notin DOMAIN ix /\ Cardinality(DOMAIN ix) >= MaxKeys

(* The data record through WriteOffset, then the index. *)
WriteData(st, e) ==
    [file |-> Append(st.file, Piece(DataRecord(e))),
     tracker |-> st.tracker + Measure(DataRecord(e)),
     index |-> CASE e.op = "del" -> Without(st.index, e.key)
                 [] Full(st.index, e.key) -> st.index
                 [] OTHER -> Insert(st.index, e.key, st.tracker)]

(* Mutant: the checkpoint goes first, and names the entry before. *)
WriteKVLate(st, i, e) == WriteData([st EXCEPT !.file = Append(@, Piece(MetaRecord(i - 1)))], e)

(* Mutant: the checkpoint names the next entry. *)
WriteKVAhead(st, i, e) == [WriteData(st, e) EXCEPT !.file = Append(@, Piece(MetaRecord(i + 1)))]

(***************************************************************************)
(* WriteKV and DeleteKV: the checkpoint follows through Write, which does  *)
(* not count what it wrote.  It is written for a key that did not fit as   *)
(* well.                                                                   *)
(***************************************************************************)
WriteKV(st, i, e) == [WriteData(st, e) EXCEPT !.file = Append(@, Piece(MetaRecord(i)))]

(* Step 1 of apply(): the store is given sets and deletes only. *)
Stored(st, i, e) == IF e.op \in {"set", "del"} THEN WriteKV(st, i, e) ELSE st

(* What a failing write leaves: nothing, or the first record without the checkpoint. *)
Partly(st, e) ==
    IF StoreFaults /\ e.op \in {"set", "del"} THEN {st, WriteData(st, e)} ELSE {}

Store == [file |-> file, tracker |-> tracker, index |-> index]

StoreBecomes(st) == file' = st.file /\ tracker' = st.tracker /\ index' = st.index

Init ==
    /\ log = << >> /\ commit = 0 /\ chosen = 0 /\ entries = 0 /\ delivered = 0
    /\ queue = << >> /\ applying = None /\ data = Empty /\ lastApplied = 0 /\ applied = {}
    /\ file = << >> /\ synced = 0 /\ tracker = 0 /\ index = << >>
    /\ client = [c \in Clients |-> Idle]
    /\ requests = 0 /\ restarts = 0 /\ snap = None

-----------------------------------------------------------------------------
(* The Raft node, seen from here. *)

(* proposeEntry on the leader: the handler gets the entry's index. *)
Propose(c, op, k) ==
    /\ client[c] = Idle /\ entries < MaxEntries /\ requests < MaxRequests
    /\ log' = Append(log, [op |-> op, key |-> k, name |-> entries + 1])
    /\ entries' = entries + 1 /\ requests' = requests + 1
    /\ client' = [client EXCEPT ![c] = [pc |-> "asked", kind |-> "put", key |-> k,
                                        index |-> Len(log'), name |-> entries']]
    /\ UNCHANGED <<commit, chosen, delivered, storeVars, smVars, restarts, snap>>

(* HandleAppendEntries: entries of another leader, over an uncommitted suffix; *)
(* or an entry this node proposes for the MVCC endpoints or a configuration.   *)
AppendOther(i, op, k) ==
    /\ entries < MaxEntries
    /\ i \in (IF Overwrites THEN chosen + 1 ELSE Len(log) + 1)..(Len(log) + 1)
    /\ log' = Append(SubSeq(log, 1, i - 1), [op |-> op, key |-> k, name |-> entries + 1])
    /\ entries' = entries + 1
    /\ UNCHANGED <<commit, chosen, delivered, storeVars, smVars, client, requests, restarts, snap>>

(* Mutant: the leader's commit index is taken over unclipped. *)
AdvanceCommitUnclipped(n) ==
    /\ n > commit
    /\ commit' = n
    /\ chosen' = IF n > chosen THEN n ELSE chosen
    /\ UNCHANGED <<log, entries, delivered, storeVars, smVars, client, requests, restarts, snap>>

AdvanceCommit(n) ==
    /\ n > commit /\ n <= Len(log)
    /\ commit' = n
    /\ chosen' = IF n > chosen THEN n ELSE chosen
    /\ UNCHANGED <<log, entries, delivered, storeVars, smVars, client, requests, restarts, snap>>

(* Mutant: the range starts one entry late. *)
CollectSkipping ==
    /\ delivered < commit
    /\ queue' = queue \o [n \in 1..(commit - delivered - 1) |->
                            [index |-> delivered + 1 + n, entry |-> log[delivered + 1 + n]]]
    /\ delivered' = commit
    /\ UNCHANGED <<log, commit, chosen, entries, storeVars, applying, data, lastApplied, applied,
                   client, requests, restarts, snap>>

(* One tick of runApplyLoop. *)
Collect ==
    /\ delivered < commit
    /\ queue' = queue \o [n \in 1..(commit - delivered) |->
                            [index |-> delivered + n, entry |-> log[delivered + n]]]
    /\ delivered' = commit
    /\ UNCHANGED <<log, commit, chosen, entries, storeVars, applying, data, lastApplied, applied,
                   client, requests, restarts, snap>>

-----------------------------------------------------------------------------
(* KVStateMachine.apply, step by step. *)

Woken(i, c) ==
    IF client[c].pc = "waiting" /\ client[c].index = i
    THEN [client[c] EXCEPT !.pc = "woken"] ELSE client[c]

NotifyWaiters(i) == client' = [c \in Clients |-> Woken(i, c)]

(* An entry that does not decode only wakes its waiters. *)
ApplyMalformed ==
    /\ applying = None /\ queue # << >> /\ Head(queue).entry.op = "bad"
    /\ NotifyWaiters(Head(queue).index)
    /\ queue' = Tail(queue)
    /\ UNCHANGED <<raftVars, storeVars, applying, data, lastApplied, applied, requests, restarts,
                   snap>>

(* Mutant: lastApplied is advanced along with the store. *)
ApplyStoreAdvancing ==
    /\ applying = None /\ queue # << >> /\ Head(queue).entry.op # "bad"
    /\ LET i == Head(queue).index
           e == Head(queue).entry
       IN  /\ StoreBecomes(Stored(Store, i, e))
           /\ applying' = [index |-> i, entry |-> e, done |-> "store"]
           /\ lastApplied' = i
    /\ queue' = Tail(queue)
    /\ UNCHANGED <<raftVars, synced, data, applied, client, requests, restarts, snap>>

(* An error of either record, or of an index that is full, ends apply() here. *)
ApplyStore ==
    /\ applying = None /\ queue # << >> /\ Head(queue).entry.op # "bad"
    /\ LET i == Head(queue).index
           e == Head(queue).entry
       IN  \E st \in {Stored(Store, i, e)} \cup Partly(Store, e) :
               /\ StoreBecomes(st)
               /\ applying' = IF st # Stored(Store, i, e) \/ (e.op = "set" /\ Full(index, e.key))
                              THEN None ELSE [index |-> i, entry |-> e, done |-> "store"]
    /\ queue' = Tail(queue)
    /\ UNCHANGED <<raftVars, synced, data, lastApplied, applied, client, requests, restarts, snap>>

ApplyCache ==
    /\ applying # None /\ applying.done = "store"
    /\ data' = Enact(data, applying.entry)
    /\ applied' = applied \cup {applying.entry.name}
    /\ applying' = [applying EXCEPT !.done = "cache"]
    /\ UNCHANGED <<raftVars, storeVars, queue, lastApplied, client, requests, restarts, snap>>

ApplyAdvance ==
    /\ applying # None /\ applying.done = "cache"
    /\ lastApplied' = applying.index
    /\ applying' = [applying EXCEPT !.done = "advance"]
    /\ UNCHANGED <<raftVars, storeVars, queue, data, applied, client, requests, restarts, snap>>

ApplyNotify ==
    /\ applying # None /\ applying.done = "advance"
    /\ NotifyWaiters(applying.index)
    /\ applying' = None
    /\ UNCHANGED <<raftVars, storeVars, queue, data, lastApplied, applied, requests, restarts,
                   snap>>

SyncTicker ==
    /\ synced < Len(file) /\ synced' = Len(file)
    /\ UNCHANGED <<raftVars, smVars, file, tracker, index, client, requests, restarts, snap>>

-----------------------------------------------------------------------------
(* The handlers. *)

(* GET: ReadIndex has returned the commit index. *)
ReadIndex(c, k) ==
    /\ client[c] = Idle /\ requests < MaxRequests
    /\ requests' = requests + 1
    /\ client' = [client EXCEPT ![c] = [pc |-> "asked", kind |-> "get", key |-> k,
                                        index |-> commit, name |-> 0]]
    /\ UNCHANGED <<raftVars, storeVars, smVars, restarts, snap>>

(* Mutant: the fast path lets the next entry through. *)
CheckAppliedEarly(c) ==
    /\ client[c].pc = "asked"
    /\ client' = [client EXCEPT ![c].pc = IF lastApplied + 1 >= client[c].index THEN "woken"
                                          ELSE "checked"]
    /\ UNCHANGED <<raftVars, storeVars, smVars, requests, restarts, snap>>

(* WaitForIndex: the fast path looks at lastApplied without waitMu ... *)
CheckApplied(c) ==
    /\ client[c].pc = "asked"
    /\ client' = [client EXCEPT ![c].pc = IF lastApplied >= client[c].index THEN "woken"
                                          ELSE "checked"]
    /\ UNCHANGED <<raftVars, storeVars, smVars, requests, restarts, snap>>

(* ... which is taken only to register the channel. *)
Register(c) ==
    /\ client[c].pc = "checked"
    /\ client' = [client EXCEPT ![c].pc = "waiting"]
    /\ UNCHANGED <<raftVars, storeVars, smVars, requests, restarts, snap>>

(* Mutant: the wait has no deadline. *)
GiveUpNever(c) == FALSE /\ UNCHANGED vars /\ client[c].pc = "waiting"

(* The deadline passes: 504. *)
GiveUp(c) ==
    /\ client[c].pc = "waiting"
    /\ client' = [client EXCEPT ![c] = Idle]
    /\ UNCHANGED <<raftVars, storeVars, smVars, requests, restarts, snap>>

(* 204, or the value Get finds. *)
Answer(c) ==
    /\ client[c].pc = "woken"
    /\ client' = [client EXCEPT ![c].pc = "answered",
                                ![c].name = IF client[c].kind = "get" THEN data[client[c].key]
                                            ELSE @]
    /\ UNCHANGED <<raftVars, storeVars, smVars, requests, restarts, snap>>

Return(c) ==
    /\ client[c].pc = "answered"
    /\ client' = [client EXCEPT ![c] = Idle]
    /\ UNCHANGED <<raftVars, storeVars, smVars, requests, restarts, snap>>

(* TakeSnapshot holds mu, which keeps out ApplyCache but not ApplyAdvance. *)
TakeSnapshot ==
    /\ snap = None
    /\ snap' = [index |-> lastApplied, data |-> data]
    /\ UNCHANGED <<raftVars, storeVars, smVars, client, requests, restarts>>

-----------------------------------------------------------------------------
(***************************************************************************)
(* main's recovery: RecoverFromStore takes lastApplied from kv.wal and the *)
(* values from the Raft log; every later entry of the log, committed or    *)
(* not, is applied through ApplyDirect; the process exits when kv.wal is   *)
(* ahead of the log.  RaftNode starts at commitIndex 0 and lastApplied 0.  *)
(***************************************************************************)
Gap(from) == [n \in 1..(Len(log) - from) |-> [index |-> from + n, entry |-> log[from + n]]]

Commands(gap) == SelectSeq(gap, LAMBDA q : q.entry.op # "bad")

Restart ==
    /\ restarts < MaxRestarts
    /\ \E f \in WholeRemains(file, synced) :
           LET last == RecoverKV(f).last
               gap == Commands(Gap(last))
               opened == [file |-> f, tracker |-> FileSize(f), index |-> RecoverKV(f).index]
           IN  /\ last <= Len(log)
               /\ StoreBecomes(FoldLeft(LAMBDA st, q : Stored(st, q.index, q.entry), opened, gap))
               /\ synced' = Len(f)
               /\ data' = Replay(Len(log))
               /\ lastApplied' = IF gap = << >> THEN last ELSE Last(gap).index
               /\ applied' = applied \cup {gap[n].entry.name : n \in DOMAIN gap}
    /\ commit' = 0 /\ delivered' = 0 /\ queue' = << >> /\ applying' = None
    /\ client' = [c \in Clients |-> Idle]
    /\ restarts' = restarts + 1
    /\ UNCHANGED <<log, chosen, entries, requests, snap>>

Next ==
    \/ \E c \in Clients, op \in Ops \cap {"set", "del"}, k \in Keys : Propose(c, op, k)
    \/ \E i \in 1..MaxEntries, op \in Ops, k \in Keys : AppendOther(i, op, k)
    \/ \E n \in 1..MaxEntries : AdvanceCommit(n)
    \/ Collect
    \/ ApplyMalformed \/ ApplyStore \/ ApplyCache \/ ApplyAdvance \/ ApplyNotify
    \/ SyncTicker \/ TakeSnapshot \/ Restart
    \/ \E c \in Clients, k \in Keys : ReadIndex(c, k)
    \/ \E c \in Clients : CheckApplied(c) \/ Register(c) \/ GiveUp(c) \/ Answer(c) \/ Return(c)

Spec == Init /\ [][Next]_vars

-----------------------------------------------------------------------------
(* Indexes stay within the log they refer to. *)
TypeOK ==
    /\ commit \in 0..Len(log) /\ delivered \in 0..commit /\ chosen \in commit..Len(log)
    /\ synced \in 0..Len(file)
    /\ \A n \in DOMAIN queue : queue[n].index \in 1..commit /\ queue[n].entry = log[queue[n].index]
    /\ data \in [Keys -> 0..MaxEntries]
    /\ \A c \in Clients : client[c].pc \in {"idle", "asked", "checked", "waiting", "woken", "answered"}

(***************************************************************************)
(* "204: committed and applied" (HTTPHandler, ProposeHandler): a write is  *)
(* answered only when apply() has put that very command into the map.      *)
(***************************************************************************)
AckedApplied ==
    \A c \in Clients :
        client[c].pc = "answered" /\ client[c].kind = "put" => client[c].name \in applied

(***************************************************************************)
(* INV-UKV1 (UnifiedKVHandler): a read waits for its read index and then   *)
(* sees every entry up to it: its value is the key's at some committed     *)
(* point not before the read index.                                        *)
(***************************************************************************)
ReadsCurrent ==
    \A c \in Clients :
        client[c].pc = "answered" /\ client[c].kind = "get" =>
            \E n \in client[c].index..chosen : client[c].name = Replay(n)[client[c].key]

(***************************************************************************)
(* main: "INV-2 violation: impossible under correct operation": kv.wal     *)
(* never holds a checkpoint past the end of the Raft log.                  *)
(***************************************************************************)
StoreBehindLog == RecoverKV(file).last <= Len(log)

CaughtUp == delivered = Len(log) /\ queue = << >> /\ applying = None

LastOf(ops) == Max({0} \cup {i \in 1..Len(log) : log[i].op \in ops})

(***************************************************************************)
(* After any restarts, with part of kv.wal lost and every entry delivered  *)
(* again, a node that has applied the whole log has the map the log says,  *)
(* and so has a store rebuilt from kv.wal.  lastApplied is the last entry  *)
(* that decodes; the checkpoint is the last set or delete, which a later   *)
(* swap or configuration leaves behind lastApplied.                        *)
(***************************************************************************)
CaughtUpAgrees ==
    CaughtUp => /\ data = Replay(Len(log))
                /\ lastApplied = LastOf({"set", "del", "other"})
                /\ RecoverKV(file).kv = data /\ RecoverKV(file).last = LastOf({"set", "del"})

(***************************************************************************)
(* TakeSnapshot may see the map one entry ahead of lastApplied; applying   *)
(* the entries after its index to it still gives the committed state.      *)
(***************************************************************************)
SnapshotReplays ==
    snap # None /\ snap.index <= chosen =>
        FoldLeft(Enact, snap.data, SubSeq(log, snap.index + 1, chosen)) = Replay(chosen)

=============================================================================
