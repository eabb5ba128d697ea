----------------------------- MODULE ReadIndex ------------------------------
(***************************************************************************)
(* Linearizable reads of raft/node.go: ReadIndex with its quorum round     *)
(* (confirmLeadership), the lease renewed by sendHeartbeats, and the parts *)
(* of elections and replication they lean on.  Time is counted in ticks;   *)
(* the configuration is fixed (RaftConfig has the changes) and the saves   *)
(* of term and vote succeed (RaftCore has the failures).                   *)
(*                                                                         *)
(* role is what handlers see and set under the lock; loop is the function  *)
(* Run is in, which notices a change of role only when it returns.         *)
(***************************************************************************)
EXTENDS Integers, Sequences, FiniteSets, TLC

CONSTANTS
    Nodes, Reads, None,
    LeaseEnabled,        \* CORE_X_RAFT_LEASE_READ
    LeaseDuration,       \* in ticks
    ElectionTimeoutMin,  \* in ticks
    CallsFail,           \* do calls of a round fail (otherwise they may only be late)
    MaxTime, MaxTerm, MaxEntries, MaxRounds

VARIABLES
    now,                        \* the clock
    term, votedFor, role, log, commit,
    loop,                       \* the function Run is in
    timer,                      \* when the running timer was last set
    granted, answered,          \* runCandidate
    match,                      \* matchIndex
    round,                      \* the sendHeartbeats call of a node, or None
    lease,                      \* leaseExpiry, with the term of the round behind it
    read,                       \* the ReadIndex calls
    rounds,                     \* how many heartbeat rounds there were
    acked                       \* history: the highest index a leader has committed

vars == <<now, term, votedFor, role, log, commit, loop, timer, granted,
          answered, match, round, lease, read, rounds, acked>>

raftVars == <<votedFor, log, granted, answered, match>>

Peers(n) == Nodes \ {n}
quorumFor(ack) == 2 * (1 + Cardinality(ack)) > Cardinality(Nodes)

LastTerm(s) == IF s = <<>> THEN 0 ELSE s[Len(s)]
UpToDate(s, t) ==
    \/ LastTerm(s) > LastTerm(t)
    \/ LastTerm(s) = LastTerm(t) /\ Len(s) >= Len(t)

NoLease == [expiry |-> 0, term |-> 0]
Valid(l) == now < l.expiry

(* Every node has voted for the first leader, and runLeader has begun. *)
Elected(n) == [m \in Nodes |-> IF m = n THEN "leader" ELSE "follower"]

Init ==
    /\ now = 0
    /\ term = [n \in Nodes |-> 1]
    /\ \E first \in Nodes :
         /\ votedFor = [n \in Nodes |-> first]
         /\ role = Elected(first) /\ loop = Elected(first)
    /\ log = [n \in Nodes |-> <<>>]
    /\ commit = [n \in Nodes |-> 0]
    /\ timer = [n \in Nodes |-> 0]
    /\ granted = [n \in Nodes |-> {}]
    /\ answered = [n \in Nodes |-> {}]
    /\ match = [n \in Nodes |-> [p \in Nodes |-> 0]]
    /\ round = [n \in Nodes |-> None]
    /\ lease = [n \in Nodes |-> NoLease]
    /\ read = [r \in Reads |-> [pc |-> "idle"]]
    /\ rounds = 0
    /\ acked = 0

Tick ==
    /\ now < MaxTime
    /\ now' = now + 1
    /\ UNCHANGED <<term, votedFor, role, log, commit, loop, timer, granted,
                   answered, match, round, lease, read, rounds, acked>>

-----------------------------------------------------------------------------
(* resetCh as the loops use it: a follower's timer starts anew, and a      *)
(* candidate leaves its election when a leader is heard.                   *)
Reset(p) == timer' = IF loop[p] = "follower" THEN [timer EXCEPT ![p] = now] ELSE timer

(* The follower's timer fires, or a candidate's; runCandidate begins. *)
StartElection(n) ==
    /\ term[n] < MaxTerm
    /\ \/ loop[n] = "follower" /\ role[n] = "follower"
       \/ loop[n] = "candidate" /\ role[n] = "candidate"
    /\ now - timer[n] >= ElectionTimeoutMin
    /\ term' = [term EXCEPT ![n] = @ + 1]
    /\ votedFor' = [votedFor EXCEPT ![n] = n]
    /\ role' = [role EXCEPT ![n] = "candidate"]
    /\ loop' = [loop EXCEPT ![n] = "candidate"]
    /\ timer' = [timer EXCEPT ![n] = now]
    /\ granted' = [granted EXCEPT ![n] = {}]
    /\ answered' = [answered EXCEPT ![n] = {}]
    /\ UNCHANGED <<now, log, commit, match, round, lease, read, rounds, acked>>

(* A RequestVote round trip between a candidate and a peer.  Whether the   *)
(* peer has lately heard from a leader plays no part in its answer.        *)
RequestVote(n, p) ==
    /\ loop[n] = "candidate" /\ role[n] = "candidate"
    /\ p \in Peers(n) \ answered[n]
    /\ answered' = [answered EXCEPT ![n] = @ \cup {p}]
    /\ IF term[p] > term[n]
       THEN /\ term' = [term EXCEPT ![n] = term[p]]
            /\ votedFor' = [votedFor EXCEPT ![n] = None]
            /\ role' = [role EXCEPT ![n] = "follower"]
            /\ lease' = [lease EXCEPT ![n] = NoLease]
            /\ UNCHANGED <<granted, timer>>
       ELSE LET higher == term[p] < term[n]
                grant == (higher \/ votedFor[p] \in {None, n}) /\ UpToDate(log[n], log[p])
                won == quorumFor(granted[n] \cup {p})
                demoted == IF higher THEN [role EXCEPT ![p] = "follower"] ELSE role
            IN
            /\ term' = [term EXCEPT ![p] = term[n]]
            /\ votedFor' = [votedFor EXCEPT ![p] =
                              IF grant THEN n ELSE IF higher THEN None ELSE @]
            /\ lease' = IF higher THEN [lease EXCEPT ![p] = NoLease] ELSE lease
            /\ granted' = IF grant THEN [granted EXCEPT ![n] = @ \cup {p}] ELSE granted
            /\ role' = IF grant /\ won THEN [demoted EXCEPT ![n] = "leader"] ELSE demoted
            /\ IF grant THEN Reset(p) ELSE UNCHANGED timer
    /\ UNCHANGED <<now, log, commit, loop, match, round, read, rounds, acked>>

(* A candidate that lost its role is back in runFollower, with a new timer. *)
CandidateReturns(n) ==
    /\ loop[n] = "candidate" /\ role[n] = "follower"
    /\ loop' = [loop EXCEPT ![n] = "follower"]
    /\ timer' = [timer EXCEPT ![n] = now]
    /\ granted' = [granted EXCEPT ![n] = {}]
    /\ answered' = [answered EXCEPT ![n] = {}]
    /\ UNCHANGED <<now, term, votedFor, role, log, commit, match, round, lease,
                   read, rounds, acked>>

(* runLeader's preamble: the replication state and the lease start afresh. *)
EnterLeader(n) ==
    /\ loop[n] = "candidate" /\ role[n] = "leader"
    /\ loop' = [loop EXCEPT ![n] = "leader"]
    /\ match' = [match EXCEPT ![n] = [p \in Nodes |-> 0]]
    /\ lease' = [lease EXCEPT ![n] = NoLease]
    /\ granted' = [granted EXCEPT ![n] = {}]
    /\ answered' = [answered EXCEPT ![n] = {}]
    /\ UNCHANGED <<now, term, votedFor, role, log, commit, timer, round, read,
                   rounds, acked>>

(* Mutant: runLeader returns with a round of heartbeats still out. *)
LeaderReturnsEarly(n) ==
    /\ loop[n] = "leader" /\ role[n] # "leader"
    /\ loop' = [loop EXCEPT ![n] = "follower"]
    /\ timer' = [timer EXCEPT ![n] = now]
    /\ match' = [match EXCEPT ![n] = [p \in Nodes |-> 0]]
    /\ UNCHANGED <<now, term, votedFor, role, log, commit, granted, answered,
                   round, lease, read, rounds, acked>>

(* runLeader finds at a tick that it no longer leads; what it knew of its  *)
(* peers is not looked at again.                                           *)
LeaderReturns(n) ==
    /\ loop[n] = "leader" /\ role[n] # "leader" /\ round[n] = None
    /\ loop' = [loop EXCEPT ![n] = "follower"]
    /\ timer' = [timer EXCEPT ![n] = now]
    /\ match' = [match EXCEPT ![n] = [p \in Nodes |-> 0]]
    /\ UNCHANGED <<now, term, votedFor, role, log, commit, granted, answered,
                   round, lease, read, rounds, acked>>

Propose(n) ==
    /\ role[n] = "leader"
    /\ Len(log[n]) < MaxEntries
    /\ log' = [log EXCEPT ![n] = Append(@, term[n])]
    /\ UNCHANGED <<now, term, votedFor, role, commit, loop, timer, granted,
                   answered, match, round, lease, read, rounds, acked>>

-----------------------------------------------------------------------------
(* HandleAppendEntries at p of a request of term t: the reply's term and,  *)
(* unless the request is stale, p as a follower with a fresh timer.  A     *)
(* request carries a peer to the end of the log it was built from.         *)
Common(s, t) ==
    CHOOSE k \in 0..Len(s) :
        /\ k <= Len(t) /\ SubSeq(s, 1, k) = SubSeq(t, 1, k)
        /\ k = Len(s) \/ k = Len(t) \/ s[k + 1] # t[k + 1]

HigherOf(a, b) == IF a >= b THEN a ELSE b

HandleAppendEntries(p, t, entries, leaderCommit) ==
    IF t < term[p] THEN UNCHANGED <<term, votedFor, role, lease, timer, log, commit>>
    ELSE /\ term' = [term EXCEPT ![p] = t]
         /\ votedFor' = [votedFor EXCEPT ![p] = IF t > term[p] THEN None ELSE @]
         /\ role' = [role EXCEPT ![p] = "follower"]
         /\ lease' = [lease EXCEPT ![p] = NoLease]
         /\ Reset(p)
         /\ log' = [log EXCEPT ![p] =
               IF Common(entries, @) = Len(entries) THEN @ ELSE entries]
         /\ commit' = [commit EXCEPT ![p] =
               IF leaderCommit <= Len(entries) THEN HigherOf(@, leaderCommit) ELSE @]

(* sendHeartbeats: the requests of a round are built under one lock. *)
BeginRound(n) ==
    /\ loop[n] = "leader" /\ role[n] = "leader" /\ round[n] = None
    /\ rounds < MaxRounds
    /\ rounds' = rounds + 1
    /\ round' = [round EXCEPT ![n] =
         [term |-> term[n], log |-> log[n], commit |-> commit[n],
          todo |-> Peers(n), replies |-> {}, acks |-> {}]]
    /\ UNCHANGED <<now, term, votedFor, role, log, commit, loop, timer, granted,
                   answered, match, lease, read, acked>>

Receive(n, p) ==
    /\ round[n] # None
    /\ p \in round[n].todo
    /\ HandleAppendEntries(p, round[n].term, round[n].log, round[n].commit)
    /\ round' = [round EXCEPT ![n].todo = @ \ {p},
                              ![n].replies = @ \cup {<<p, term'[p]>>}]
    /\ UNCHANGED <<now, loop, granted, answered, match, read, rounds, acked>>

Ended(r) == r.todo = {} /\ r.replies = {}
Remaining(r) == IF Ended(r) THEN None ELSE r

(* A call of the round fails or times out, before or after it was handled. *)
CallFails(n, p) ==
    /\ CallsFail
    /\ round[n] # None
    /\ \/ p \in round[n].todo
       \/ \E a \in round[n].replies : a[1] = p
    /\ round' = [round EXCEPT ![n] =
         Remaining([@ EXCEPT !.todo = @ \ {p}, !.replies = {a \in @ : a[1] # p}])]
    /\ UNCHANGED <<now, term, votedFor, role, log, commit, loop, timer, granted,
                   answered, match, lease, read, rounds, acked>>

(* maybeAdvanceCommitIndex with the term and the last index of the round. *)
Advanced(n, m, r) ==
    LET held == {i \in commit[n] + 1 .. Len(r.log) :
                   /\ i <= Len(log[n]) /\ log[n][i] = r.term
                   /\ quorumFor({p \in Peers(n) : m[p] >= i})}
    IN IF held = {} THEN commit[n] ELSE CHOOSE i \in held : \A j \in held : j <= i

(* Mutant: the lease outlives the shortest election timeout. *)
RenewedLong(n, r, acks) ==
    IF LeaseEnabled /\ quorumFor(acks)
      THEN [expiry |-> now + 2 * ElectionTimeoutMin, term |-> r.term] ELSE lease[n]

(* The lease runs from the moment the quorum's last reply is handled. *)
Renewed(n, r, acks) ==
    IF LeaseEnabled /\ quorumFor(acks) /\ now + LeaseDuration > lease[n].expiry
      THEN [expiry |-> now + LeaseDuration, term |-> r.term] ELSE lease[n]

(* sendHeartbeats takes one reply, whatever the role is by now. *)
CollectReply(n, a) ==
    /\ round[n] # None
    /\ a \in round[n].replies
    /\ LET r == round[n]
           m == [match[n] EXCEPT ![a[1]] = HigherOf(@, Len(r.log))]
           acks == r.acks \cup {a[1]}
       IN IF a[2] > r.term
          THEN /\ term' = [term EXCEPT ![n] = HigherOf(@, a[2])]
               /\ votedFor' = [votedFor EXCEPT ![n] = IF a[2] > term[n] THEN None ELSE @]
               /\ role' = [role EXCEPT ![n] = "follower"]
               /\ lease' = [lease EXCEPT ![n] = NoLease]
               /\ round' = [round EXCEPT ![n] = None]
               /\ UNCHANGED <<match, commit, acked>>
          ELSE /\ match' = [match EXCEPT ![n] = m]
               /\ commit' = [commit EXCEPT ![n] = Advanced(n, m, r)]
               /\ acked' = HigherOf(acked, Advanced(n, m, r))
               /\ lease' = [lease EXCEPT ![n] = Renewed(n, r, acks)]
               /\ round' = [round EXCEPT ![n] =
                     Remaining([r EXCEPT !.replies = @ \ {a}, !.acks = acks])]
               /\ UNCHANGED <<term, votedFor, role>>
    /\ UNCHANGED <<now, log, loop, timer, granted, answered, read, rounds>>

-----------------------------------------------------------------------------
OwnTermCommitted(n) == commit[n] > 0 /\ log[n][commit[n]] = term[n]

Call(n) ==
    [pc |-> "confirming", at |-> n, term |-> term[n], index |-> commit[n],
     log |-> log[n], todo |-> Peers(n), acks |-> {}, floor |-> acked,
     own |-> OwnTermCommitted(n), leaseTerm |-> 0]

(***************************************************************************)
(* ReadIndex at a node that leads: the commit index is captured, and a     *)
(* valid lease answers at once.  floor, own and leaseTerm are history:     *)
(* what had been acknowledged, whether the leader had committed in its own *)
(* term, and the term of the lease that was used.                          *)
(***************************************************************************)
ReadIndex(r, n) ==
    /\ read[r].pc = "idle"
    /\ role[n] = "leader"
    /\ read' = [read EXCEPT ![r] =
         IF LeaseEnabled /\ Valid(lease[n])
           THEN [Call(n) EXCEPT !.pc = "done", !.leaseTerm = lease[n].term]
           ELSE Call(n)]
    /\ UNCHANGED <<now, term, role, commit, loop, timer, round, lease, rounds, acked>>
    /\ UNCHANGED raftVars

(* The heartbeat of confirmLeadership carries no entries: it moves the     *)
(* peer's commit index if the peer has the leader's last entry, and        *)
(* otherwise nothing of its log.                                           *)
Matched(p, leaderLog) ==
    IF Common(leaderLog, log[p]) = Len(leaderLog) THEN leaderLog ELSE <<>>

(* Mutant: any reply counts as an acknowledgement. *)
ConfirmLeadershipAny(r, p) ==
    /\ read[r].pc = "confirming"
    /\ p \in read[r].todo
    /\ LET c == read[r] IN
       /\ HandleAppendEntries(p, c.term, Matched(p, c.log), c.index)
       /\ LET acks == c.acks \cup {p} IN
          read' = [read EXCEPT ![r].todo = @ \ {p}, ![r].acks = acks,
                               ![r].pc = IF quorumFor(acks) THEN "done" ELSE @]
    /\ UNCHANGED <<now, loop, granted, answered, match, round, rounds, acked>>

(* One exchange of confirmLeadership.  A reply of a higher term is not an  *)
(* acknowledgement, and the leader does not step down on it here.          *)
confirmLeadership(r, p) ==
    /\ read[r].pc = "confirming"
    /\ p \in read[r].todo
    /\ LET c == read[r] IN
       /\ HandleAppendEntries(p, c.term, Matched(p, c.log), c.index)
       /\ LET acks == c.acks \cup (IF term'[p] <= c.term THEN {p} ELSE {}) IN
          read' = [read EXCEPT ![r].todo = @ \ {p}, ![r].acks = acks,
                               ![r].pc = IF quorumFor(acks) THEN "done" ELSE @]
    /\ UNCHANGED <<now, loop, granted, answered, match, round, rounds, acked>>

(* The reader's context ends, or the peers have answered without a quorum. *)
ReadFails(r) ==
    /\ read[r].pc = "confirming"
    /\ read' = [read EXCEPT ![r].pc = "failed"]
    /\ UNCHANGED <<now, term, role, commit, loop, timer, round, lease, rounds, acked>>
    /\ UNCHANGED raftVars

-----------------------------------------------------------------------------
ElectionSteps(n) ==
    \/ StartElection(n) \/ CandidateReturns(n) \/ EnterLeader(n) \/ LeaderReturns(n)
    \/ \E p \in Nodes : RequestVote(n, p)

LeaderSteps(n) ==
    \/ Propose(n) \/ BeginRound(n)
    \/ \E p \in Peers(n) : Receive(n, p) \/ CallFails(n, p)
    \/ \E a \in Peers(n) \X (0..MaxTerm) : CollectReply(n, a)

ReadSteps(r) ==
    \/ \E n \in Nodes : ReadIndex(r, n) \/ confirmLeadership(r, n)
    \/ ReadFails(r)

Next ==
    \/ Tick
    \/ \E n \in Nodes : ElectionSteps(n) \/ LeaderSteps(n)
    \/ \E r \in Reads : ReadSteps(r)

Spec == Init /\ [][Next]_vars

-----------------------------------------------------------------------------
(* The state has the shape of the Go declarations, and no commit index     *)
(* passes the end of its node's log.                                       *)
TypeOK ==
    /\ now \in 0..MaxTime
    /\ term \in [Nodes -> 0..MaxTerm]
    /\ votedFor \in [Nodes -> Nodes \cup {None}]
    /\ role \in [Nodes -> {"follower", "candidate", "leader"}]
    /\ loop \in [Nodes -> {"follower", "candidate", "leader"}]
    /\ \A n \in Nodes :
         /\ log[n] \in Seq(1..MaxTerm) /\ commit[n] \in 0..Len(log[n])
         /\ round[n] # None => loop[n] = "leader"
    /\ \A r \in Reads : read[r].pc \in {"idle", "confirming", "done", "failed"}

(* What is left of INV-RI2: the guarantee from the moment the leader has   *)
(* committed an entry of its own term, through partitions and further      *)
(* elections (ReadIndex and confirmLeadership without the lease).          *)
SettledReadSeesAcknowledged ==
    \A r \in Reads :
        (read[r].pc = "done" /\ read[r].own) => read[r].index >= read[r].floor

(* A read that skips the quorum round stands on a lease earned in the term *)
(* it is served in: a lease that a late reply renews after a step-down has *)
(* run out before the same node can lead again, also in the moment between *)
(* its election and the start of runLeader.                                *)
LeaseOfOwnTerm ==
    \A r \in Reads :
        (read[r].pc = "done" /\ read[r].leaseTerm # 0) => read[r].leaseTerm = read[r].term
=============================================================================
