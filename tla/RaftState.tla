------------------------------- MODULE RaftState -----------------------------
(***************************************************************************)
(* The state of a Raft node (internal/infrastructure/raft/node.go) and of  *)
(* the network, and the tests and computations that the critical sections  *)
(* of its handlers and of its run loop share; RaftCore has the actions.    *)
(***************************************************************************)
EXTENDS Integers, Sequences, FiniteSets, FiniteSetsExt, Prefixes

CONSTANTS
    Server,        \* the nodes: n.id together with the addresses of its peers
    Command,       \* what clients propose; the log does not look inside
    Nil,           \* the empty string of votedFor
    MaxTerm,       \* bound: no election starts a term above it
    MaxLog,        \* bound: a leader proposes only below this log length
    MaxAppends,    \* bound: a round is sent only if no more AppendEntries are then known
    Electable,     \* bound: the nodes whose election timer ever fires
    Crashable,     \* bound: the nodes that ever crash
    LateReplies,   \* may a vote reply with a higher term be read after an RPC
                   \*   handler has already moved the candidate to another term?
    StaleRounds,   \* may a handler demote the leader between the role check of a tick
                   \*   and the lock sendHeartbeats takes?
    SaveFaults,    \* may MetaStore.Save return an error?
    LogFaults,     \* may LogStore.Append / TruncateSuffix fail (changing nothing)?
    UnsavedCrash   \* may a node crash while its term is newer than the saved one?

ASSUME ServerAssumption == IsFiniteSet(Server) /\ Nil \notin Server
ASSUME BoundAssumption ==
    /\ MaxTerm \in Nat /\ MaxLog \in Nat /\ MaxAppends \in Nat
    /\ Electable \subseteq Server /\ Crashable \subseteq Server
ASSUME SwitchAssumption ==
    /\ LateReplies \in BOOLEAN /\ StaleRounds \in BOOLEAN /\ SaveFaults \in BOOLEAN
    /\ LogFaults \in BOOLEAN /\ UnsavedCrash \in BOOLEAN

VARIABLES
    currentTerm,   \* RaftNode.currentTerm
    votedFor,      \* RaftNode.votedFor
    role,          \* RaftNode.role
    meta,          \* the durable RaftMeta record
    log,           \* RaftNode.log; every change is made durable in the same
                   \*   critical section, so it is also what LogStore.LoadAll returns
    commitIndex,   \* RaftNode.commitIndex
    nextIndex,     \* RaftNode.nextIndex
    matchIndex,    \* RaftNode.matchIndex
    loop,          \* the run loop: position and local variables
    voteReqs,      \* RequestVote calls in the network
    appendReqs,    \* AppendEntries calls in the network
    votes,         \* history: every vote ever given
    committed      \* history: the longest log prefix any node has committed

nodeVars == <<currentTerm, votedFor, role, meta>>
logVars == <<log, commitIndex, committed>>
peerVars == <<nextIndex, matchIndex>>
vars == <<nodeVars, logVars, peerVars, loop, voteReqs, appendReqs, votes>>

Follower == "Follower"
Candidate == "Candidate"
Leader == "Leader"

Meta == [term : Nat, votedFor : Server \cup {Nil}]
Entry == [term : Nat, cmd : Command]
Vote == [voter : Server, term : Nat, candidate : Server]
VoteReq == [term : Nat, from : Server, to : Server, lastIndex : Nat, lastTerm : Nat]
VoteReply == [from : Server, term : Nat, granted : BOOLEAN]
AppendReq == [term : Nat, from : Server, to : Server, prevIndex : Nat, prevTerm : Nat,
              entries : Seq(Entry), commit : Nat]
AppendReply == [req : AppendReq, term : Nat, success : BOOLEAN,
                conflictIndex : Nat, conflictTerm : Nat]

(***************************************************************************)
(* Positions of the run loop: `idle' is Run() between two calls and        *)
(* runFollower waiting on its timer; `election' is the collecting loop of  *)
(* runCandidate; `sending' is runLeader from the role check of a tick to   *)
(* the lock sendHeartbeats takes; `round' is sendHeartbeats collecting     *)
(* replies.  Its locals: the term it works for, grantMap, the replies in   *)
(* resultCh, the calls of the round still open, the replies in ch, and     *)
(* lastIdx, the end of the log when the round began.                       *)
(***************************************************************************)
Loop == [at : {"idle", "election", "sending", "round"}, term : Nat,
         grants : SUBSET Server, ballots : SUBSET VoteReply,
         open : SUBSET AppendReq, acks : SUBSET AppendReply, last : Nat]

LoopAt(position, term) ==
    [at |-> position, term |-> term, grants |-> {}, ballots |-> {},
     open |-> {}, acks |-> {}, last |-> 0]

Idle == LoopAt("idle", 0)

Peers(i) == Server \ {i}

(* A map of nextIndex or matchIndex with the same entry for every peer. *)
EveryPeerAt(n) == [j \in Server |-> n]

(***************************************************************************)
(* quorumFor a configuration that is not joint: a majority of all nodes.   *)
(***************************************************************************)
IsQuorum(S) == Cardinality(S) >= (Cardinality(Server) \div 2) + 1

LargerOf(a, b) == IF a > b THEN a ELSE b

TermAt(l, k) == IF k \in 1..Len(l) THEN l[k].term ELSE 0

LastTerm(l) == TermAt(l, Len(l))

(* Mutant: a candidate's log is not looked at. *)
AnyLogUpToDate(l, lastIndex, lastTerm) == TRUE

(***************************************************************************)
(* The candidate's last entry has a higher term, or the same term and an   *)
(* index that is not smaller.                                              *)
(***************************************************************************)
CandidateLogUpToDate(l, lastIndex, lastTerm) ==
    IF lastTerm # LastTerm(l) THEN lastTerm > LastTerm(l) ELSE lastIndex >= Len(l)

(***************************************************************************)
(* The role check of a tick.                                               *)
(***************************************************************************)
StillLeader(i) == role[i] = Leader /\ currentTerm[i] = loop[i].term

(***************************************************************************)
(* What sendHeartbeats sends to j: everything from nextIndex on, with the  *)
(* term the role check saw and the log as it is now.                       *)
(***************************************************************************)
AppendEntriesTo(i, j) ==
    LET prev == nextIndex[i][j] - 1 IN
    [term |-> loop[i].term, from |-> i, to |-> j,
     prevIndex |-> prev, prevTerm |-> TermAt(log[i], prev),
     entries |-> SubSeq(log[i], prev + 1, Len(log[i])),
     commit |-> commitIndex[i]]

(* Mutant: an entry of any term may be committed. *)
AnyEntry(i, n, term) == n <= Len(log[i])

(***************************************************************************)
(* The two tests of maybeAdvanceCommitIndex.                               *)
(***************************************************************************)
EntryOfTerm(i, n, term) == n <= Len(log[i]) /\ log[i][n].term = term

StoredBy(i, n, match) == {i} \cup {j \in Peers(i) : match[j] >= n}

(***************************************************************************)
(* maybeAdvanceCommitIndex: the highest index above commitIndex, and not   *)
(* above lastIdx, with an entry of the given term stored by a quorum.      *)
(***************************************************************************)
AdvancedCommit(i, term, lastIdx, match) ==
    Max({commitIndex[i]} \cup
        {n \in (commitIndex[i] + 1)..lastIdx :
           EntryOfTerm(i, n, term) /\ IsQuorum(StoredBy(i, n, match))})

(***************************************************************************)
(* The log after the loop over args.Entries: present entries with the same *)
(* term are skipped, the first other one cuts the log, and from it up to   *)
(* entry `upTo' the entries are appended.                                  *)
(***************************************************************************)
FirstNew(l, prev, entries) ==
    Min({Len(entries) + 1} \cup
        {k \in 1..Len(entries) : prev + k > Len(l) \/ l[prev + k].term # entries[k].term})

(* Mutant: a conflicting entry is kept and only what is missing is added. *)
AppendMissing(l, prev, entries, upTo) == l \o SubSeq(entries, Len(l) - prev + 1, upTo)

MergeEntries(l, prev, entries, upTo) ==
    LET k == FirstNew(l, prev, entries) IN
    IF k > Len(entries) THEN l
    ELSE SubSeq(l, 1, prev + k - 1) \o SubSeq(entries, k, upTo)

(* Mutant: an entry of another term at prevLogIndex is good enough. *)
PrevPresent(l, m) == m.prevIndex <= Len(l)

PrevMatches(l, m) ==
    m.prevIndex > 0 => m.prevIndex <= Len(l) /\ l[m.prevIndex].term = m.prevTerm

LastSent(req) == IF req.entries = << >> THEN 0 ELSE req.prevIndex + Len(req.entries)

(***************************************************************************)
(* The answered call leaves the round.  When the last one is gone          *)
(* runLeader waits for the next tick, whose role check can succeed only if *)
(* the node is still Leader now.                                           *)
(***************************************************************************)
AfterAnswers(i, reqs) ==
    LET rest == loop[i].open \ reqs IN
    CASE rest # {} -> [loop[i] EXCEPT !.open = rest, !.acks = {a \in @ : a.req \in rest}]
      [] rest = {} /\ StillLeader(i) -> LoopAt("sending", loop[i].term)
      [] OTHER -> Idle

(***************************************************************************)
(* The reply to a RequestVote reaches the election that asked, if the      *)
(* candidate is still in it.                                               *)
(***************************************************************************)
AnswerVote(m, reply) ==
    loop' = [loop EXCEPT ![m.from].ballots =
               IF loop[m.from].at = "election" /\ loop[m.from].term = m.term
               THEN @ \cup {reply} ELSE @]

(***************************************************************************)
(* The reply to an AppendEntries reaches the round that waits for it.      *)
(***************************************************************************)
AnswerAppend(m, term, success, conflictIndex, conflictTerm) ==
    loop' = [loop EXCEPT ![m.from].acks =
               IF m \in loop[m.from].open
               THEN @ \cup {[req |-> m, term |-> term, success |-> success,
                             conflictIndex |-> conflictIndex, conflictTerm |-> conflictTerm]}
               ELSE @]

CommittedPrefix(i) == SubSeq(log[i], 1, commitIndex[i])

(***************************************************************************)
(* Types.                                                                  *)
(***************************************************************************)
TypeOK ==
    /\ currentTerm \in [Server -> Nat]
    /\ votedFor \in [Server -> Server \cup {Nil}]
    /\ role \in [Server -> {Follower, Candidate, Leader}]
    /\ meta \in [Server -> Meta]
    /\ log \in [Server -> Seq(Entry)]
    /\ commitIndex \in [Server -> Nat]
    /\ nextIndex \in [Server -> [Server -> Nat \ {0}]]
    /\ matchIndex \in [Server -> [Server -> Nat]]
    /\ loop \in [Server -> Loop]
    /\ voteReqs \subseteq VoteReq
    /\ appendReqs \subseteq AppendReq
    /\ votes \subseteq Vote
    /\ committed \in Seq(Entry)

(***************************************************************************)
(* No node ever votes for two candidates in one term: HandleRequestVote    *)
(* and runCandidate save a vote before it counts, and what is on disk      *)
(* still bears witness to it (or to a later term) after any crash.         *)
(***************************************************************************)
VotesKept ==
    /\ \A v, w \in votes : v.voter = w.voter /\ v.term = w.term => v = w
    /\ \A v \in votes :
         \/ meta[v.voter].term > v.term
         \/ meta[v.voter] = [term |-> v.term, votedFor |-> v.candidate]

=============================================================================
