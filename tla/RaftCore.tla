------------------------------ MODULE RaftCore ------------------------------
(***************************************************************************)
(* Leader election, log replication and persistence of the Raft node       *)
(* (internal/infrastructure/raft/node.go) with a static cluster            *)
(* configuration and without snapshots.                                    *)
(*                                                                         *)
(* Every RPC handler of RaftNode holds n.mu from its first to its last     *)
(* line, so a handler is one action.  The run loop (Run, runFollower,      *)
(* runCandidate, runLeader, sendHeartbeats) takes and releases n.mu        *)
(* several times; it is a thread of its own, `loop' holds its position and *)
(* its local variables, and each of its critical sections is one action.   *)
(*                                                                         *)
(* A request stays in the network: it may be handled late, out of order,   *)
(* never, or more than once (which is more than gRPC does).  The reply     *)
(* goes to the channel of the election or round that waits for it; when    *)
(* that is over (the RPC has timed out or the loop has returned) it is     *)
(* dropped, as the code drops it.                                          *)
(***************************************************************************)
EXTENDS RaftState

(***************************************************************************)
(* Save either writes the record or returns an error; in that case the     *)
(* write may have reached the disk all the same.                           *)
(***************************************************************************)
SaveOutcome == IF SaveFaults THEN BOOLEAN ELSE {TRUE}

Saved(i, record, ok) == IF ok THEN {record} ELSE {meta[i], record}

(***************************************************************************)
(* The history of commits follows every advance of a commitIndex.          *)
(***************************************************************************)
RecordCommit(i) ==
    committed' = IF commitIndex'[i] > Len(committed)
                 THEN SubSeq(log'[i], 1, commitIndex'[i])
                 ELSE committed

Init ==
    /\ currentTerm = [i \in Server |-> 0]
    /\ votedFor = [i \in Server |-> Nil]
    /\ role = [i \in Server |-> Follower]
    /\ meta = [i \in Server |-> [term |-> 0, votedFor |-> Nil]]
    /\ log = [i \in Server |-> << >>]
    /\ commitIndex = [i \in Server |-> 0]
    /\ nextIndex = [i \in Server |-> EveryPeerAt(1)]
    /\ matchIndex = [i \in Server |-> EveryPeerAt(0)]
    /\ loop = [i \in Server |-> Idle]
    /\ voteReqs = {} /\ appendReqs = {}
    /\ votes = {}
    /\ committed = << >>

-----------------------------------------------------------------------------
(* Election *)

(***************************************************************************)
(* The election timer of runFollower fires (or Run() finds the role still  *)
(* Candidate after a failed election) and runCandidate raises the term,    *)
(* votes for itself, saves both and asks every peer for its vote.  The     *)
(* quorum test before the collecting loop elects a single node at once.    *)
(***************************************************************************)
StartElection(i) ==
    LET term == currentTerm[i] + 1
        alone == IsQuorum({i})
    IN  /\ loop[i].at = "idle"
        /\ role[i] # Leader
        /\ term <= MaxTerm
        /\ currentTerm' = [currentTerm EXCEPT ![i] = term]
        /\ votedFor' = [votedFor EXCEPT ![i] = i]
        /\ meta' = [meta EXCEPT ![i] = [term |-> term, votedFor |-> i]]
        /\ role' = [role EXCEPT ![i] = IF alone THEN Leader ELSE Candidate]
        /\ loop' = [loop EXCEPT ![i] = IF alone THEN Idle ELSE LoopAt("election", term)]
        /\ votes' = votes \cup {[voter |-> i, term |-> term, candidate |-> i]}
        /\ voteReqs' = voteReqs \cup
             {[term |-> term, from |-> i, to |-> j,
               lastIndex |-> Len(log[i]), lastTerm |-> LastTerm(log[i])] : j \in Peers(i)}
        /\ UNCHANGED <<logVars, peerVars, appendReqs>>

(***************************************************************************)
(* The same step when Save fails: the term goes back, but votedFor is      *)
(* cleared rather than restored.                                           *)
(***************************************************************************)
AbortElection(i) ==
    /\ SaveFaults
    /\ loop[i].at = "idle"
    /\ role[i] # Leader
    /\ currentTerm[i] < MaxTerm
    /\ votedFor' = [votedFor EXCEPT ![i] = Nil]
    /\ role' = [role EXCEPT ![i] = Follower]
    /\ \E record \in Saved(i, [term |-> currentTerm[i] + 1, votedFor |-> i], FALSE) :
         meta' = [meta EXCEPT ![i] = record]
    /\ UNCHANGED <<currentTerm, logVars, peerVars, loop, voteReqs, appendReqs, votes>>

(* Mutant: the term of a request is not compared. *)
AnyTerm(i, m) == TRUE

(***************************************************************************)
(* The first test of both handlers.                                        *)
(***************************************************************************)
NotStale(i, m) == m.term >= currentTerm[i]

(* Mutant: the vote already given in this term is forgotten. *)
MayVoteTwice(i, m) ==
    /\ NotStale(i, m)
    /\ CandidateLogUpToDate(log[i], m.lastIndex, m.lastTerm)

(***************************************************************************)
(* HandleRequestVote when the vote is refused: the request is stale, the   *)
(* candidate's log is behind, the vote went to another candidate, or the   *)
(* vote cannot be saved.  A newer term is adopted all the same; whether it *)
(* could be saved makes no difference to the handler.                      *)
(***************************************************************************)
MayVote(i, m) ==
    /\ NotStale(i, m)
    /\ CandidateLogUpToDate(log[i], m.lastIndex, m.lastTerm)
    /\ m.term > currentTerm[i] \/ votedFor[i] \in {Nil, m.from}

RefuseVote(i, m) ==
    LET newer == m.term > currentTerm[i]
        term == LargerOf(m.term, currentTerm[i])
    IN  /\ m.to = i
        /\ MayVote(i, m) => SaveFaults
        /\ currentTerm' = [currentTerm EXCEPT ![i] = term]
        /\ votedFor' = [votedFor EXCEPT ![i] = IF newer THEN Nil ELSE @]
        /\ role' = [role EXCEPT ![i] = IF newer THEN Follower ELSE @]
        /\ \E termSaved \in SaveOutcome :
             \E record \in (IF newer THEN Saved(i, [term |-> term, votedFor |-> Nil], termSaved)
                                     ELSE {meta[i]})
                           \cup (IF MayVote(i, m) THEN {[term |-> term, votedFor |-> m.from]}
                                                  ELSE {}) :
               meta' = [meta EXCEPT ![i] = record]
        /\ AnswerVote(m, [from |-> i, term |-> term, granted |-> FALSE])
        /\ UNCHANGED <<logVars, peerVars, voteReqs, appendReqs, votes>>

(* Mutants: the saved record lacks the vote; nothing is saved. *)
RecordWithoutVote(i, m) == [term |-> m.term, votedFor |-> Nil]

UnchangedRecord(i, m) == meta[i]

(***************************************************************************)
(* The record HandleRequestVote saves before it answers with a vote.       *)
(***************************************************************************)
VoteRecord(i, m) == [term |-> m.term, votedFor |-> m.from]

(***************************************************************************)
(* HandleRequestVote when the vote is granted: it is saved before it is    *)
(* remembered and answered.                                                *)
(***************************************************************************)
GrantVote(i, m) ==
    /\ m.to = i
    /\ MayVote(i, m)
    /\ currentTerm' = [currentTerm EXCEPT ![i] = m.term]
    /\ votedFor' = [votedFor EXCEPT ![i] = m.from]
    /\ role' = [role EXCEPT ![i] = IF m.term > currentTerm[i] THEN Follower ELSE @]
    /\ meta' = [meta EXCEPT ![i] = VoteRecord(i, m)]
    /\ votes' = votes \cup {[voter |-> i, term |-> m.term, candidate |-> m.from]}
    /\ AnswerVote(m, [from |-> i, term |-> m.term, granted |-> TRUE])
    /\ UNCHANGED <<logVars, peerVars, voteReqs, appendReqs>>

(***************************************************************************)
(* runCandidate reads a reply of its election whose term is not higher.    *)
(* With a quorum of grants the node becomes Leader if no handler has moved *)
(* it to another term meanwhile; either way runCandidate returns.          *)
(***************************************************************************)
CollectVote(i, m) ==
    LET got == loop[i].grants \cup (IF m.granted THEN {m.from} ELSE {})
        won == IsQuorum(got \cup {i})
    IN  /\ loop[i].at = "election"
        /\ m.term <= loop[i].term
        /\ role' = [role EXCEPT ![i] =
                      IF won /\ currentTerm[i] = loop[i].term THEN Leader ELSE @]
        /\ loop' = [loop EXCEPT ![i] =
                      IF won THEN Idle
                      ELSE [loop[i] EXCEPT !.grants = got, !.ballots = @ \ {m}]]
        /\ UNCHANGED <<currentTerm, votedFor, meta, logVars, peerVars, voteReqs, appendReqs, votes>>

(***************************************************************************)
(* runCandidate reads a reply with a higher term: the term is adopted      *)
(* whatever currentTerm is by now, the vote is cleared, nothing is saved.  *)
(***************************************************************************)
AdoptVoteReplyTerm(i, m) ==
    /\ loop[i].at = "election"
    /\ m.term > loop[i].term
    /\ ~LateReplies => currentTerm[i] = loop[i].term
    /\ currentTerm' = [currentTerm EXCEPT ![i] = m.term]
    /\ votedFor' = [votedFor EXCEPT ![i] = Nil]
    /\ role' = [role EXCEPT ![i] = Follower]
    /\ loop' = [loop EXCEPT ![i] = Idle]
    /\ UNCHANGED <<meta, logVars, peerVars, voteReqs, appendReqs, votes>>

(***************************************************************************)
(* runCandidate leaves its loop: it reads resetCh and reverts to Follower  *)
(* (a token may be left over from any earlier message, so it may be read   *)
(* at any time), or its timer fires or every peer has answered and the     *)
(* role is left as it is.                                                  *)
(***************************************************************************)
EndElection(i) ==
    /\ loop[i].at = "election"
    /\ role' \in {role, [role EXCEPT ![i] = Follower]}
    /\ loop' = [loop EXCEPT ![i] = Idle]
    /\ UNCHANGED <<currentTerm, votedFor, meta, logVars, peerVars, voteReqs, appendReqs, votes>>

-----------------------------------------------------------------------------
(* Leadership *)

(***************************************************************************)
(* The first critical section of runLeader.                                *)
(***************************************************************************)
RunLeader(i) ==
    /\ loop[i].at = "idle"
    /\ role[i] = Leader
    /\ loop' = [loop EXCEPT ![i] = LoopAt("sending", currentTerm[i])]
    /\ nextIndex' = [nextIndex EXCEPT ![i] = EveryPeerAt(Len(log[i]) + 1)]
    /\ matchIndex' = [matchIndex EXCEPT ![i] = EveryPeerAt(0)]
    /\ UNCHANGED <<nodeVars, logVars, voteReqs, appendReqs, votes>>

(***************************************************************************)
(* proposeEntry: only the role is tested.                                  *)
(***************************************************************************)
Propose(i, c) ==
    /\ role[i] = Leader
    /\ Len(log[i]) < MaxLog
    /\ log' = [log EXCEPT ![i] = Append(@, [term |-> currentTerm[i], cmd |-> c])]
    /\ UNCHANGED <<nodeVars, commitIndex, committed, peerVars, loop, voteReqs, appendReqs, votes>>

(***************************************************************************)
(* The locked part of sendHeartbeats that builds the requests of a round;  *)
(* it does not look at the role again.  A node without peers commits       *)
(* directly.                                                               *)
(***************************************************************************)
SendHeartbeats(i) ==
    LET reqs == {AppendEntriesTo(i, j) : j \in Peers(i)} IN
    /\ loop[i].at = "sending"
    /\ ~StaleRounds => StillLeader(i)
    /\ Cardinality(appendReqs \cup reqs) <= MaxAppends
    /\ appendReqs' = appendReqs \cup reqs
    /\ loop' = [loop EXCEPT ![i] =
                  IF reqs = {} THEN loop[i]
                  ELSE [loop[i] EXCEPT !.at = "round", !.open = reqs, !.last = Len(log[i])]]
    /\ commitIndex' = [commitIndex EXCEPT ![i] =
                         IF reqs = {} /\ StillLeader(i)
                         THEN AdvancedCommit(i, loop[i].term, Len(log[i]), matchIndex[i]) ELSE @]
    /\ UNCHANGED <<nodeVars, log, peerVars, voteReqs, votes>>
    /\ RecordCommit(i)

(***************************************************************************)
(* The role check of a tick fails and runLeader returns.                   *)
(***************************************************************************)
LeaveLeadership(i) ==
    /\ loop[i].at = "sending"
    /\ ~StillLeader(i)
    /\ loop' = [loop EXCEPT ![i] = Idle]
    /\ UNCHANGED <<nodeVars, logVars, peerVars, voteReqs, appendReqs, votes>>

-----------------------------------------------------------------------------
(* Replication *)

(***************************************************************************)
(* HandleAppendEntries, first part: a stale leader is turned away ...      *)
(***************************************************************************)
RejectStaleAppend(i, m) ==
    /\ m.to = i
    /\ ~NotStale(i, m)
    /\ AnswerAppend(m, currentTerm[i], FALSE, 0, 0)
    /\ UNCHANGED <<nodeVars, logVars, peerVars, voteReqs, appendReqs, votes>>

(***************************************************************************)
(* ... any other sender is followed, in its term.  A newer term is adopted *)
(* whether it could be saved or not.                                       *)
(***************************************************************************)
FollowLeader(i, m) ==
    LET newer == m.term > currentTerm[i] IN
    /\ m.to = i
    /\ NotStale(i, m)
    /\ currentTerm' = [currentTerm EXCEPT ![i] = m.term]
    /\ votedFor' = [votedFor EXCEPT ![i] = IF newer THEN Nil ELSE @]
    /\ role' = [role EXCEPT ![i] = Follower]
    /\ \E saved \in SaveOutcome :
         \E record \in IF newer THEN Saved(i, [term |-> m.term, votedFor |-> Nil], saved)
                                ELSE {meta[i]} :
           meta' = [meta EXCEPT ![i] = record]
    /\ UNCHANGED <<peerVars, voteReqs, appendReqs, votes>>

(***************************************************************************)
(* The follower has no entry at prevLogIndex: back up behind its log.      *)
(***************************************************************************)
RejectMissing(i, m) ==
    /\ FollowLeader(i, m)
    /\ m.prevIndex > Len(log[i])
    /\ AnswerAppend(m, m.term, FALSE, Len(log[i]) + 1, 0)
    /\ UNCHANGED logVars

(***************************************************************************)
(* The entry at prevLogIndex has another term: back up to the first index  *)
(* of the run of entries that share it.                                    *)
(***************************************************************************)
ConflictStart(l, prev) ==
    Min({k \in 1..prev : \A n \in k..prev : l[n].term = l[prev].term})

RejectConflict(i, m) ==
    /\ FollowLeader(i, m)
    /\ m.prevIndex <= Len(log[i])
    /\ ~PrevMatches(log[i], m)
    /\ AnswerAppend(m, m.term, FALSE,
                    ConflictStart(log[i], m.prevIndex), log[i][m.prevIndex].term)
    /\ UNCHANGED logVars

(***************************************************************************)
(* The entries are stored and commitIndex follows the leader's.            *)
(***************************************************************************)
AcceptEntries(i, m) ==
    LET l == MergeEntries(log[i], m.prevIndex, m.entries, Len(m.entries)) IN
    /\ FollowLeader(i, m)
    /\ PrevMatches(log[i], m)
    /\ log' = [log EXCEPT ![i] = l]
    /\ commitIndex' = [commitIndex EXCEPT ![i] =
                         IF m.commit > @ THEN Min({m.commit, Len(l)}) ELSE @]
    /\ RecordCommit(i)
    /\ AnswerAppend(m, m.term, TRUE, 0, 0)

(* Mutant: what could not be stored is acknowledged. *)
AnswerStored(m) == AnswerAppend(m, m.term, TRUE, 0, 0)

AnswerNotStored(m) == AnswerAppend(m, m.term, FALSE, 0, 0)

(***************************************************************************)
(* The log store fails: at the truncation, or at one of the appends.  What *)
(* was stored before stays, the reply is a failure without a hint.         *)
(***************************************************************************)
FailToStore(i, m) ==
    LET k == FirstNew(log[i], m.prevIndex, m.entries) IN
    /\ LogFaults
    /\ FollowLeader(i, m)
    /\ PrevMatches(log[i], m)
    /\ k <= Len(m.entries)
    /\ \/ UNCHANGED log
       \/ \E upTo \in (k - 1)..(Len(m.entries) - 1) :
            log' = [log EXCEPT ![i] = MergeEntries(@, m.prevIndex, m.entries, upTo)]
    /\ AnswerNotStored(m)
    /\ UNCHANGED <<commitIndex, committed>>

(***************************************************************************)
(* sendHeartbeats reads a reply with a higher term and steps down; nothing *)
(* is saved.                                                               *)
(***************************************************************************)
AdoptAppendReplyTerm(i, m) ==
    /\ loop[i].at = "round"
    /\ m.term > loop[i].term
    /\ currentTerm' = [currentTerm EXCEPT ![i] = LargerOf(@, m.term)]
    /\ votedFor' = [votedFor EXCEPT ![i] = IF m.term > currentTerm[i] THEN Nil ELSE @]
    /\ role' = [role EXCEPT ![i] = Follower]
    /\ loop' = [loop EXCEPT ![i] = Idle]
    /\ UNCHANGED <<meta, logVars, peerVars, voteReqs, appendReqs, votes>>

(***************************************************************************)
(* A success: matchIndex grows, nextIndex follows it, and the commit index *)
(* may advance.  The role is not tested again.                             *)
(***************************************************************************)
CollectSuccess(i, m) ==
    LET j == m.req.to
        match == LargerOf(matchIndex[i][j], LastSent(m.req))
    IN  /\ loop[i].at = "round"
        /\ m.term <= loop[i].term
        /\ m.success
        /\ matchIndex' = [matchIndex EXCEPT ![i][j] = match]
        /\ nextIndex' = [nextIndex EXCEPT ![i][j] = match + 1]
        /\ commitIndex' = [commitIndex EXCEPT ![i] =
                             AdvancedCommit(i, loop[i].term, loop[i].last, matchIndex'[i])]
        /\ loop' = [loop EXCEPT ![i] = AfterAnswers(i, {m.req})]
        /\ UNCHANGED <<nodeVars, log, voteReqs, appendReqs, votes>>
        /\ RecordCommit(i)

(* Mutant: the hint is taken as it is. *)
BackedUpToHint(l, conflictIndex, conflictTerm) == conflictIndex

(***************************************************************************)
(* A failure: nextIndex backs up to where the hint points.                 *)
(***************************************************************************)
BackedUp(l, conflictIndex, conflictTerm) ==
    LET same == {k \in 1..Len(l) : l[k].term = conflictTerm} IN
    CASE conflictIndex = 0 -> 1
      [] conflictIndex # 0 /\ (conflictTerm = 0 \/ same = {}) -> conflictIndex
      [] OTHER -> Max(same) + 1

CollectFailure(i, m) ==
    /\ loop[i].at = "round"
    /\ m.term <= loop[i].term
    /\ ~m.success
    /\ nextIndex' = [nextIndex EXCEPT ![i][m.req.to] =
                       BackedUp(log[i], m.conflictIndex, m.conflictTerm)]
    /\ loop' = [loop EXCEPT ![i] = AfterAnswers(i, {m.req})]
    /\ UNCHANGED <<nodeVars, logVars, matchIndex, voteReqs, appendReqs, votes>>

(***************************************************************************)
(* The RPCs of the round that are still open time out.                     *)
(***************************************************************************)
RoundTimeout(i) ==
    /\ loop[i].at = "round"
    /\ loop' = [loop EXCEPT ![i] = AfterAnswers(i, loop[i].open)]
    /\ UNCHANGED <<nodeVars, logVars, peerVars, voteReqs, appendReqs, votes>>

-----------------------------------------------------------------------------
(***************************************************************************)
(* The process dies and NewRaftNode starts it again from the durable       *)
(* RaftMeta record and the durable log.                                    *)
(***************************************************************************)
Restart(i) ==
    /\ ~UnsavedCrash => currentTerm[i] = meta[i].term
    /\ currentTerm' = [currentTerm EXCEPT ![i] = meta[i].term]
    /\ votedFor' = [votedFor EXCEPT ![i] = meta[i].votedFor]
    /\ role' = [role EXCEPT ![i] = Follower]
    /\ commitIndex' = [commitIndex EXCEPT ![i] = 0]
    /\ nextIndex' = [nextIndex EXCEPT ![i] = EveryPeerAt(1)]
    /\ matchIndex' = [matchIndex EXCEPT ![i] = EveryPeerAt(0)]
    /\ loop' = [loop EXCEPT ![i] = Idle]
    /\ UNCHANGED <<meta, log, committed, voteReqs, appendReqs, votes>>

HandleRequestVote(i, m) == RefuseVote(i, m) \/ GrantVote(i, m)

HandleAppendEntries(i, m) ==
    \/ RejectStaleAppend(i, m)
    \/ RejectMissing(i, m)
    \/ RejectConflict(i, m)
    \/ AcceptEntries(i, m)
    \/ FailToStore(i, m)

RunCandidateStep(i) ==
    \/ i \in Electable /\ (StartElection(i) \/ AbortElection(i))
    \/ \E m \in loop[i].ballots : CollectVote(i, m) \/ AdoptVoteReplyTerm(i, m)
    \/ EndElection(i)

RunLeaderStep(i) ==
    \/ RunLeader(i)
    \/ SendHeartbeats(i)
    \/ LeaveLeadership(i)
    \/ \E m \in loop[i].acks :
         AdoptAppendReplyTerm(i, m) \/ CollectSuccess(i, m) \/ CollectFailure(i, m)
    \/ RoundTimeout(i)

Next ==
    \E i \in Server :
      \/ RunCandidateStep(i)
      \/ RunLeaderStep(i)
      \/ \E m \in voteReqs : HandleRequestVote(i, m)
      \/ \E m \in appendReqs : HandleAppendEntries(i, m)
      \/ \E c \in Command : Propose(i, c)
      \/ i \in Crashable /\ Restart(i)

Spec == Init /\ [][Next]_vars

-----------------------------------------------------------------------------
(* Properties *)

(***************************************************************************)
(* At most one node is Leader in a term, and all AppendEntries of a term   *)
(* ever sent come from one node, whatever elections, late replies and      *)
(* restarts lie between two of them.                                       *)
(***************************************************************************)
ElectionSafety ==
    /\ \A i, j \in Server :
         role[i] = Leader /\ role[j] = Leader /\ currentTerm[i] = currentTerm[j] => i = j
    /\ \A m, n \in appendReqs : m.term = n.term => m.from = n.from

(***************************************************************************)
(* Two logs that hold an entry of the same term at the same index are      *)
(* equal up to that index.                                                 *)
(***************************************************************************)
LogMatching ==
    \A i, j \in Server : \A k \in DOMAIN log[i] \cap DOMAIN log[j] :
        log[i][k].term = log[j][k].term =>
            SubSeq(log[i], 1, k) = SubSeq(log[j], 1, k)

(***************************************************************************)
(* What a node has committed is in its log and agrees with what any node   *)
(* ever committed: no two nodes hand the apply loop different entries for  *)
(* an index, and no committed entry is cut off by HandleAppendEntries.     *)
(***************************************************************************)
StateMachineSafety ==
    \A i \in Server : /\ commitIndex[i] <= Len(log[i])
                      /\ IsPrefix(CommittedPrefix(i), committed)

(***************************************************************************)
(* A Leader of the term of the last committed entry, or of a later term,   *)
(* has everything that was committed.                                      *)
(***************************************************************************)
LeaderCompleteness ==
    \A i \in Server :
        role[i] = Leader /\ currentTerm[i] >= LastTerm(committed) => IsPrefix(committed, log[i])

(***************************************************************************)
(* What was committed is on the disks of a quorum, and stays there.        *)
(***************************************************************************)
CommittedOnQuorum == IsQuorum({i \in Server : IsPrefix(committed, log[i])})

(***************************************************************************)
(* A restarted node is never in an earlier term than one it has voted in,  *)
(* even when Save calls fail now and then: HandleRequestVote and           *)
(* runCandidate give no vote whose Save returned an error.                 *)
(***************************************************************************)
VoteTermKept == \A v \in votes : meta[v.voter].term >= v.term

(***************************************************************************)
(* What runLeader believes of a follower of its term is true: everything   *)
(* up to matchIndex is in the follower's log, as it is in the leader's.    *)
(***************************************************************************)
MatchIndexSound ==
    \A i, j \in Server :
        loop[i].at \in {"sending", "round"} /\ StillLeader(i) /\ currentTerm[j] = currentTerm[i] =>
            IsPrefix(SubSeq(log[i], 1, matchIndex[i][j]), log[j])

(***************************************************************************)
(* HandleAppendEntries cuts or changes the log of a Leader only when it    *)
(* moves that node to a later term.                                        *)
(***************************************************************************)
LeaderAppendOnly ==
    [][\A i \in Server : role[i] = Leader /\ currentTerm'[i] <= currentTerm[i] =>
                            IsPrefix(log[i], log'[i])]_vars

=============================================================================
