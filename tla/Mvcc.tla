-------------------------------- MODULE Mvcc --------------------------------
(***************************************************************************)
(* The MVCC state machine of one node (ADR-022) and its HTTP handlers.     *)
(* The second consumer of the committed entries keeps a version history    *)
(* per key, refuses a compare-and-swap whose expected version is not the   *)
(* current one, and publishes each successful write to the change log.     *)
(*                                                                         *)
(* The entries are the node's Raft log, which it shares with the KV        *)
(* endpoints and with configuration changes; an entry's value is its       *)
(* index.  The node's snapshots are those of the KV machine, the only one  *)
(* SetStateMachine accepts.  They hold no versions: a process that starts  *)
(* over a compacted log is handed only the entries after the snapshot, and *)
(* an installed snapshot takes the place of entries this machine never     *)
(* sees.  TakeSnapshot and RestoreSnapshot of the MVCC machine have no     *)
(* caller and are left out.                                                *)
(***************************************************************************)
EXTENDS Integers, FiniteSets, SequencesExt

CONSTANTS Keys, Clients,
          Ops,          \* of "set", "cas", "del", "config" and "bad"
          MaxEntries, MaxExpected, MaxRequests, MaxRestarts,
          MaxSnapshots, MaxInstalls,
          Retention,    \* versions kept per key, 0 for all
          None          \* no value, and the empty key

VARIABLES
    log, commit,     \* RaftNode.log and commitIndex
    delivered,       \* RaftNode.lastApplied
    queue,           \* indexes collected by the apply loop, not yet applied
    applying,        \* None, or the entry apply() is at and what it does next
    sm,              \* MVCCStateMachine.versions and latest
    lastApplied,     \* MVCCStateMachine.lastApplied
    conflictResults, \* index -> version at conflict time
    processed,       \* history: the last index apply() decided since the start
    assigned,        \* history: the version each index ever got, 0 for none
    events,          \* what was published since the start
    base,            \* RaftNode.snapshotIndex: entries up to it are not in the log
    start,           \* history: base when the process started
    skipped,         \* history: indexes an install took from this process
    client,          \* each handler's request
    requests, restarts, snapshots, installs

raftVars == <<log, commit, delivered>>
applyVars == <<queue, applying, sm, lastApplied, conflictResults, processed, assigned, events>>
snapVars == <<base, start, skipped, snapshots, installs>>
vars == <<raftVars, applyVars, snapVars, client, requests, restarts>>

AllKeys == Keys \cup {None}

(* A configuration entry parses as a command with no operation and an empty key. *)
Commands ==
    { [op |-> o, key |-> IF o = "config" THEN None ELSE k, expected |-> x] :
        o \in Ops, k \in Keys, x \in 0..MaxExpected }

Proposable == { e \in Commands : (e.op = "cas") <=> (e.expected > 0) }

Idle == [pc |-> "idle"]

Fresh == [versions |-> [k \in AllKeys |-> << >>], latest |-> [k \in AllKeys |-> 0]]

-----------------------------------------------------------------------------
(* The machine as operators on its two maps. *)
Conflict(s, e) == e.expected > 0 /\ s.latest[e.key] # e.expected

(* Mutant: gc keeps the oldest versions instead of the newest. *)
GcOldest(vs) ==
    IF Retention = 0 \/ Len(vs) <= Retention THEN vs ELSE SubSeq(vs, 1, Retention)

Gc(vs) ==
    IF Retention = 0 \/ Len(vs) <= Retention
    THEN vs ELSE SubSeq(vs, Len(vs) - Retention + 1, Len(vs))

(* Mutant: the next version is counted from the versions that gc left. *)
WriteCounting(s, i) ==
    LET e == log[i]
        next == Len(s.versions[e.key]) + 1
    IN  [s EXCEPT !.versions[e.key] =
                      Gc(Append(@, [version |-> next, value |-> i, deleted |-> e.op = "del"])),
                  !.latest[e.key] = next]

Write(s, i) ==
    LET e == log[i]
        next == s.latest[e.key] + 1
    IN  [s EXCEPT !.versions[e.key] =
                      Gc(Append(@, [version |-> next, value |-> i, deleted |-> e.op = "del"])),
                  !.latest[e.key] = next]

(* Mutant: the value comes from the oldest version kept. *)
GetOldest(k) ==
    IF sm.latest[k] = 0 THEN [version |-> 0, value |-> None]
    ELSE [version |-> sm.latest[k],
          value |-> IF Head(sm.versions[k]).deleted THEN None ELSE Head(sm.versions[k]).value]

Get(k) ==
    IF sm.latest[k] = 0 THEN [version |-> 0, value |-> None]
    ELSE [version |-> sm.latest[k],
          value |-> IF Last(sm.versions[k]).deleted THEN None ELSE Last(sm.versions[k]).value]

GetVersion(k, v) ==
    LET hits == { x \in Range(sm.versions[k]) : x.version = v /\ ~x.deleted }
    IN  IF hits = {} THEN None ELSE (CHOOSE x \in hits : TRUE).value

(* The entries up to n that this process is handed. *)
Handed(n) == SelectSeq([i \in 1..n |-> i], LAMBDA i : i > start /\ i \notin skipped)

(* Reference: per key, those of them that wrote it.  Version v is the v-th. *)
Written(n) ==
    LET Step(w, i) ==
            LET e == log[i]
            IN  IF e.op = "bad" \/ (e.expected > 0 /\ Len(w[e.key]) # e.expected)
                THEN w ELSE [w EXCEPT ![e.key] = Append(@, i)]
    IN  FoldLeft(Step, [k \in AllKeys |-> << >>], Handed(n))

Succeeds(i) == Written(i) # Written(i - 1)

-----------------------------------------------------------------------------
(* The log, seen from this node: proposals here and elsewhere, commit, delivery. *)
ProposeElsewhere ==
    /\ Len(log) < MaxEntries
    /\ \E e \in Proposable : log' = Append(log, e)
    /\ UNCHANGED <<commit, delivered, applyVars, client, requests, restarts, snapVars>>

AdvanceCommit ==
    /\ commit < Len(log)
    /\ \E n \in (commit + 1)..Len(log) : commit' = n
    /\ UNCHANGED <<log, delivered, applyVars, client, requests, restarts, snapVars>>

(* A tick of runApplyLoop: entryAt finds what a snapshot has not replaced. *)
Collect ==
    /\ commit > delivered
    /\ queue' = queue \o SelectSeq([i \in 1..(commit - delivered) |-> delivered + i],
                                  LAMBDA i : i > base)
    /\ delivered' = commit
    /\ UNCHANGED <<log, commit, applying, sm, lastApplied, conflictResults, processed, assigned,
                   events, client, requests, restarts, snapVars>>

-----------------------------------------------------------------------------
(* apply(): decide under mu, then wake the waiters, then publish. *)
Begin(i) == queue # << >> /\ applying = None /\ i = Head(queue) /\ queue' = Tail(queue) /\ processed' = i

ApplyMalformed ==
    \E i \in 1..Len(log) :
        /\ Begin(i) /\ log[i].op = "bad"
        /\ applying' = [index |-> i, publish |-> FALSE]
        /\ UNCHANGED <<raftVars, sm, lastApplied, conflictResults, assigned, events,
                       client, requests, restarts, snapVars>>

ApplyConflict ==
    \E i \in 1..Len(log) :
        /\ Begin(i) /\ log[i].op # "bad" /\ Conflict(sm, log[i])
        /\ conflictResults' = [j \in DOMAIN conflictResults \cup {i} |->
                                  IF j = i THEN sm.latest[log[i].key] ELSE conflictResults[j]]
        /\ applying' = [index |-> i, publish |-> FALSE]
        /\ UNCHANGED <<raftVars, sm, lastApplied, assigned, events, client, requests, restarts,
                       snapVars>>

(* Mutant: a write with a stale expectation is applied as well. *)
ApplyWriteBlind ==
    \E i \in 1..Len(log) :
        /\ Begin(i) /\ log[i].op # "bad"
        /\ sm' = Write(sm, i)
        /\ lastApplied' = i
        /\ assigned' = [assigned EXCEPT ![i] = sm'.latest[log[i].key]]
        /\ applying' = [index |-> i, publish |-> TRUE]
        /\ UNCHANGED <<raftVars, conflictResults, events, client, requests, restarts, snapVars>>

ApplyWrite ==
    \E i \in 1..Len(log) :
        /\ Begin(i) /\ log[i].op # "bad" /\ ~Conflict(sm, log[i])
        /\ sm' = Write(sm, i)
        /\ lastApplied' = i
        /\ assigned' = [assigned EXCEPT ![i] = sm'.latest[log[i].key]]
        /\ applying' = [index |-> i, publish |-> TRUE]
        /\ UNCHANGED <<raftVars, conflictResults, events, client, requests, restarts, snapVars>>

Woken(which, pc) ==
    [c \in Clients |-> IF client[c].pc = "wait" /\ client[c].index \in which
                       THEN [client[c] EXCEPT !.pc = pc] ELSE client[c]]

NotifyWaiters ==
    /\ applying # None /\ "index" \in DOMAIN applying
    /\ client' = Woken({applying.index}, "decide")
    /\ applying' = IF applying.publish THEN [published |-> applying.index] ELSE None
    /\ UNCHANGED <<raftVars, queue, sm, lastApplied, conflictResults, processed, assigned, events,
                   requests, restarts, snapVars>>


Publish ==
    /\ applying # None /\ "published" \in DOMAIN applying
    /\ LET i == applying.published
       IN  events' = Append(events, [type |-> log[i].op, key |-> log[i].key, offset |-> i,
                                     version |-> assigned[i]])
    /\ applying' = None
    /\ UNCHANGED <<raftVars, queue, sm, lastApplied, conflictResults, processed, assigned,
                   client, requests, restarts, snapVars>>

-----------------------------------------------------------------------------
(* The handlers: PUT proposes, GET takes a read index; both wait and then answer. *)
Free(c) == client[c].pc \in {"idle", "done"} /\ requests < MaxRequests

Start(c, r) == client' = [client EXCEPT ![c] = r] /\ requests' = requests + 1

Put(c) ==
    /\ Free(c) /\ Len(log) < MaxEntries
    /\ \E e \in Proposable :
        /\ e.op \in {"set", "cas"}
        /\ log' = Append(log, e)
        /\ Start(c, [pc |-> "check", kind |-> "put", index |-> Len(log) + 1, key |-> e.key,
                     answer |-> None])
    /\ UNCHANGED <<commit, delivered, applyVars, restarts, snapVars>>

ReadIndex(c) ==
    /\ Free(c)
    /\ \E k \in Keys :
        Start(c, [pc |-> "check", kind |-> "get", index |-> commit, key |-> k,
                  answer |-> None])
    /\ UNCHANGED <<raftVars, applyVars, restarts, snapVars>>

Go(c, pc) ==
    /\ client' = [client EXCEPT ![c].pc = pc]
    /\ UNCHANGED <<raftVars, applyVars, requests, restarts, snapVars>>

CheckApplied(c) ==
    client[c].pc = "check" /\ Go(c, IF lastApplied >= client[c].index THEN "decide" ELSE "conflicts")

CheckConflict(c) ==
    /\ client[c].pc = "conflicts"
    /\ Go(c, IF client[c].index \in DOMAIN conflictResults THEN "decide" ELSE "register")

Register(c) == client[c].pc = "register" /\ Go(c, "wait")

Finish(c, a) == client' = [client EXCEPT ![c].pc = "done", ![c].answer = a]

GiveUp(c) ==
    /\ client[c].pc = "wait" /\ Finish(c, [code |-> 504])
    /\ UNCHANGED <<raftVars, applyVars, requests, restarts, snapVars>>

(* Mutant: the current version is read after the wait, not taken from the record. *)
DecidePutLate(c) ==
    /\ client[c].pc = "decide" /\ client[c].kind = "put"
    /\ LET i == client[c].index
       IN  /\ Finish(c, IF i \in DOMAIN conflictResults
                        THEN [code |-> 409, version |-> sm.latest[client[c].key]] ELSE [code |-> 204])
           /\ conflictResults' = [j \in DOMAIN conflictResults \ {i} |-> conflictResults[j]]
    /\ UNCHANGED <<raftVars, queue, applying, sm, lastApplied, processed, assigned, events,
                   requests, restarts, snapVars>>

(* CASHandler after WaitForIndex: IsCASConflict removes what it reports. *)
DecidePut(c) ==
    /\ client[c].pc = "decide" /\ client[c].kind = "put"
    /\ LET i == client[c].index
       IN  /\ Finish(c, IF i \in DOMAIN conflictResults
                        THEN [code |-> 409, version |-> conflictResults[i]] ELSE [code |-> 204])
           /\ conflictResults' = [j \in DOMAIN conflictResults \ {i} |-> conflictResults[j]]
    /\ UNCHANGED <<raftVars, queue, applying, sm, lastApplied, processed, assigned, events,
                   requests, restarts, snapVars>>

DecideGet(c) ==
    /\ client[c].pc = "decide" /\ client[c].kind = "get"
    /\ LET g == Get(client[c].key)
       IN  Finish(c, IF lastApplied < client[c].index THEN [code |-> 503]
                     ELSE [code |-> IF g.value = None THEN 404 ELSE 200,
                           version |-> g.version, value |-> g.value])
    /\ UNCHANGED <<raftVars, applyVars, requests, restarts, snapVars>>

-----------------------------------------------------------------------------
(* Snapshots and restarts. *)

(* maybeSnapshot: the KV machine, handed the same entries, may be anywhere among them. *)
TakeSnapshot ==
    /\ snapshots < MaxSnapshots
    /\ \E n \in (base + 1)..delivered : base' = n
    /\ snapshots' = snapshots + 1
    /\ UNCHANGED <<raftVars, applyVars, start, skipped, client, requests, restarts, installs>>

(* HandleInstallSnapshot, the last time it holds mu: the node takes the     *)
(* entries up to n for applied.  Nothing is restored here, no waiter woken. *)
InstallSnapshot ==
    /\ installs < MaxInstalls
    /\ \E n \in (base + 1)..Len(log) :
        /\ base' = n
        /\ commit' = Max({commit, n}) /\ delivered' = Max({delivered, n})
        /\ skipped' = skipped \cup ((delivered + 1)..n)
    /\ installs' = installs + 1
    /\ UNCHANGED <<log, applyVars, start, client, requests, restarts, snapshots>>

(* The machine is in memory only, and RaftNode delivers from the first entry it has. *)
Restart ==
    /\ restarts < MaxRestarts
    /\ restarts' = restarts + 1
    /\ sm' = Fresh /\ lastApplied' = 0 /\ delivered' = 0 /\ commit' = 0 /\ processed' = base
    /\ queue' = << >> /\ applying' = None /\ conflictResults' = << >> /\ events' = << >>
    /\ start' = base /\ skipped' = {}
    /\ client' = [c \in Clients |-> Idle]
    /\ UNCHANGED <<log, assigned, base, requests, snapshots, installs>>

Init ==
    /\ log = << >> /\ commit = 0 /\ delivered = 0
    /\ queue = << >> /\ applying = None /\ sm = Fresh /\ lastApplied = 0
    /\ conflictResults = << >> /\ processed = 0
    /\ assigned = [i \in 1..MaxEntries |-> 0] /\ events = << >>
    /\ base = 0 /\ start = 0 /\ skipped = {} /\ snapshots = 0 /\ installs = 0
    /\ client = [c \in Clients |-> Idle] /\ requests = 0 /\ restarts = 0

Handler(c) ==
    \/ Put(c) \/ ReadIndex(c) \/ CheckApplied(c) \/ CheckConflict(c) \/ Register(c)
    \/ GiveUp(c) \/ DecidePut(c) \/ DecideGet(c)

Next ==
    \/ ProposeElsewhere \/ AdvanceCommit \/ Collect
    \/ ApplyMalformed \/ ApplyConflict \/ ApplyWrite \/ NotifyWaiters \/ Publish
    \/ TakeSnapshot \/ InstallSnapshot \/ Restart
    \/ \E c \in Clients : Handler(c)

Spec == Init /\ [][Next]_vars

-----------------------------------------------------------------------------
(* Shapes, with INV-MV1: latest is the version of the last entry of the history. *)
TypeOK ==
    /\ log \in Seq(Commands) /\ commit \in 0..Len(log) /\ delivered \in 0..commit
    /\ lastApplied \in 0..delivered /\ base \in start..Len(log)
    /\ DOMAIN conflictResults \subseteq 1..delivered
    /\ \A k \in AllKeys :
        sm.latest[k] = IF sm.versions[k] = << >> THEN 0 ELSE Last(sm.versions[k]).version
    /\ \A c \in Clients : client[c].pc \in {"idle", "check", "conflicts", "register", "wait",
                                            "decide", "done"}


(* A PUT's answer is the fate of its own entry: 204 only if the entry      *)
(* wrote its key, 409 only if it did not, and then with the version that   *)
(* was current when apply() refused it, whatever was written since.  The   *)
(* one 204 that says nothing is that of an entry an install replaced.      *)
AnswersTrue ==
    \A c \in Clients :
        client[c].pc = "done" /\ client[c].kind = "put" =>
            LET a == client[c].answer
                i == client[c].index
            IN  /\ a.code = 204 => Succeeds(i) \/ i \in skipped
                /\ a.code = 409 => /\ ~Succeeds(i)
                                   /\ a.version = Len(Written(i - 1)[log[i].key])

(* A GET answers with a version no older than the latest that the entries  *)
(* up to its read index gave the key at this process, and with that        *)
(* version's own value: conflicts that leave lastApplied behind never let  *)
(* an older state through.                                                 *)
ReadsCurrent ==
    \A c \in Clients :
        client[c].pc = "done" /\ client[c].kind = "get" /\ client[c].answer.code \in {200, 404} =>
            LET a == client[c].answer
                k == client[c].key
                all == Written(Len(log))[k]
            IN  /\ a.version >= Len(Written(client[c].index)[k])
                /\ a.code = 200 => a.value = all[a.version]

(* INV-MV2 and INV-MV5, for as long as no snapshot has taken an entry from *)
(* the machine: over restarts, a later write of a key has a higher version *)
(* than any earlier one ever had, and a version read finds, if anything,   *)
(* the write that was given that version.                                  *)
RepeatableReads ==
    start = 0 /\ skipped = {} =>
        \A i, j \in 1..Len(log) :
            assigned[i] > 0 /\ assigned[j] > 0 /\ log[i].key = log[j].key =>
                /\ i < j => assigned[i] < assigned[j]
                /\ GetVersion(log[i].key, assigned[i]) \in {i, None}

(* INV-CDC1 to INV-CDC3: what was published since the start is one event    *)
(* per successful write, in log order, with the version the write got; the  *)
(* only write that may still be missing is the one apply() is about to      *)
(* publish.                                                                 *)
EventsFaithful ==
    LET pending == IF applying = None THEN 0
                   ELSE IF "published" \in DOMAIN applying THEN applying.published ELSE applying.index
        wrote == { i \in 1..processed : Succeeds(i) }
    IN  /\ \A n \in 1..(Len(events) - 1) : events[n].offset < events[n + 1].offset
        /\ \A n \in 1..Len(events) :
            LET ev == events[n]
                history == Written(ev.offset)[ev.key]
            IN  history # << >> /\ Last(history) = ev.offset /\ ev.version = Len(history)
        /\ wrote \ {pending} \subseteq { events[n].offset : n \in 1..Len(events) }

=============================================================================
