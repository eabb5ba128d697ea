------------------------- MODULE RaftCountingProofs -------------------------
(***************************************************************************)
(* The steps of RaftCore that leave every log alone: votes, elections that *)
(* are not won, the answers runLeader waits for, and the commits it counts *)
(* from them.  They keep the records of RaftRecordProofs as they are.      *)
(***************************************************************************)
EXTENDS RaftCore, RaftRecordProofs

-----------------------------------------------------------------------------
(* What no step undoes *)

(***************************************************************************)
(* No step of an election lowers a term when no reply is read late.        *)
(***************************************************************************)
LEMMA CandidateStepForward ==
    ASSUME Steady, TypeOK, NEW i \in Server, RunCandidateStep(i)
    PROVE  TermsGrow /\ ElectionsNew /\ votes \subseteq votes'
<1>0. /\ Idle.at = "idle" /\ currentTerm[i] \in Nat /\ loop[i] \in Loop
      /\ \A j \in Server : currentTerm[j] \in Nat
  BY Zenon DEF TypeOK, Idle, LoopAt
<1>1. CASE StartElection(i)
  <2> DEFINE t == currentTerm[i] + 1
             lp == IF IsQuorum({i}) THEN Idle ELSE LoopAt("election", t)
  <2>1. /\ votes \subseteq votes' /\ loop' = [loop EXCEPT ![i] = lp]
        /\ currentTerm' = [currentTerm EXCEPT ![i] = t]
    BY <1>1, Zenon DEF StartElection
  <2>2. lp.at = "election" => lp.term = t
    BY Zenon DEF Idle, LoopAt
  <2> HIDE DEF lp
  <2>3. /\ loop'[i] = lp /\ currentTerm'[i] = t
        /\ \A j \in Server \ {i} : loop'[j] = loop[j] /\ currentTerm'[j] = currentTerm[j]
    BY <2>1, Zenon DEF TypeOK
  <2>4. t \in Nat /\ t > currentTerm[i]
    BY <1>0
  <2> HIDE DEF t
  <2>5. TermsGrow
    BY <1>0, <2>3, <2>4 DEF TermsGrow
  <2>6. ElectionsNew
    BY <2>2, <2>3, <2>4, Zenon DEF ElectionsNew
  <2> QED
    BY <2>1, <2>5, <2>6, Zenon
<1>2. CASE AbortElection(i)
  BY <1>2, Zenon DEF AbortElection, Steady, Orderly
<1>3. ASSUME NEW m \in loop[i].ballots, CollectVote(i, m)
      PROVE  TermsGrow /\ ElectionsNew /\ votes \subseteq votes'
  <2> DEFINE got == loop[i].grants \cup (IF m.granted THEN {m.from} ELSE {})
             won == IsQuorum(got \cup {i})
             lp == IF won THEN Idle ELSE [loop[i] EXCEPT !.grants = got, !.ballots = @ \ {m}]
  <2>1. loop' = [loop EXCEPT ![i] = lp] /\ loop[i].at = "election" /\ UNCHANGED <<currentTerm, votes>>
    BY <1>3, Zenon DEF CollectVote
  <2>2. lp.at = "election" => lp.term = loop[i].term
    <3> HIDE DEF got, won
    <3> QED
      BY <1>0, Zenon DEF Loop
  <2> HIDE DEF lp
  <2>3. NoNewElection
    BY <2>1, <2>2, LoopStep, Zenon
  <2> QED
    BY <1>0, <2>1, <2>3 DEF TermsGrow, NoNewElection, ElectionsNew
<1>4. ASSUME NEW m \in loop[i].ballots, AdoptVoteReplyTerm(i, m)
      PROVE  TermsGrow /\ ElectionsNew /\ votes \subseteq votes'
  <2>1. m.term \in Nat
    BY <1>0, Zenon DEF Loop, VoteReply
  <2>2. /\ m.term > currentTerm[i] /\ currentTerm' = [currentTerm EXCEPT ![i] = m.term]
        /\ loop' = [loop EXCEPT ![i] = Idle] /\ votes' = votes
    BY <1>4, Zenon DEF AdoptVoteReplyTerm, Steady, Orderly
  <2>3. NoNewElection
    BY <1>0, <2>2, LoopStep, Zenon
  <2>4. TermsGrow
    BY <1>0, <2>1, <2>2, SMTT(30) DEF TermsGrow, TypeOK
  <2> QED
    BY <2>2, <2>3, <2>4, Zenon DEF NoNewElection, ElectionsNew
<1>5. CASE EndElection(i)
  <2>1. loop' = [loop EXCEPT ![i] = Idle] /\ UNCHANGED <<currentTerm, votes>>
    BY <1>5, Zenon DEF EndElection
  <2>2. NoNewElection
    BY <1>0, <2>1, LoopStep, Zenon
  <2> QED
    BY <1>0, <2>1, <2>2 DEF TermsGrow, NoNewElection, ElectionsNew
<1> QED
  BY <1>1, <1>2, <1>3, <1>4, <1>5, Zenon DEF RunCandidateStep

(***************************************************************************)
(* Nor does any step of runLeader.                                         *)
(***************************************************************************)
LEMMA LeaderStepForward ==
    ASSUME TypeOK, NEW i \in Server, RunLeaderStep(i)
    PROVE  TermsGrow /\ NoNewElection /\ votes' = votes
<1>0. /\ Idle.at = "idle" /\ currentTerm[i] \in Nat /\ loop[i] \in Loop
      /\ \A j \in Server : currentTerm[j] \in Nat
      /\ \A t : LoopAt("sending", t).at = "sending"
  BY Zenon DEF TypeOK, Idle, LoopAt
<1>1. CASE RunLeader(i) \/ LeaveLeadership(i) \/ RoundTimeout(i)
  <2>1. UNCHANGED <<currentTerm, votes>>
    BY <1>1, Zenon DEF RunLeader, LeaveLeadership, RoundTimeout, nodeVars
  <2>2. PICK lp : loop' = [loop EXCEPT ![i] = lp] /\ lp.at # "election"
    BY <1>0, <1>1, AfterAnswersPosition DEF RunLeader, LeaveLeadership, RoundTimeout
  <2>3. NoNewElection
    BY <2>2, LoopStep, Zenon
  <2> QED
    BY <1>0, <2>1, <2>3 DEF TermsGrow
<1>2. CASE SendHeartbeats(i)
  <2> DEFINE reqs == {AppendEntriesTo(i, j) : j \in Peers(i)}
             lp == IF reqs = {} THEN loop[i]
                   ELSE [loop[i] EXCEPT !.at = "round", !.open = reqs, !.last = Len(log[i])]
  <2>1. /\ loop' = [loop EXCEPT ![i] = lp] /\ loop[i].at = "sending"
        /\ UNCHANGED <<currentTerm, votes>>
    BY <1>2, Zenon DEF SendHeartbeats, nodeVars
  <2> HIDE DEF reqs
  <2>2. lp.at # "election"
    BY <1>0, <2>1, Zenon DEF Loop
  <2> HIDE DEF lp
  <2>3. NoNewElection
    BY <2>1, <2>2, LoopStep, Zenon
  <2> QED
    BY <1>0, <2>1, <2>3 DEF TermsGrow
<1>3. ASSUME NEW m \in loop[i].acks, AdoptAppendReplyTerm(i, m)
      PROVE  TermsGrow /\ NoNewElection /\ votes' = votes
  <2>1. m.term \in Nat
    BY <1>0, Zenon DEF Loop, AppendReply
  <2>2. /\ currentTerm' = [currentTerm EXCEPT ![i] = LargerOf(@, m.term)]
        /\ loop' = [loop EXCEPT ![i] = Idle] /\ votes' = votes
    BY <1>3, Zenon DEF AdoptAppendReplyTerm
  <2>3. NoNewElection
    BY <1>0, <2>2, LoopStep, Zenon
  <2>4. TermsGrow
    BY <1>0, <2>1, <2>2, SMTT(30) DEF TermsGrow, TypeOK, LargerOf
  <2> QED
    BY <2>2, <2>3, <2>4, Zenon
<1>4. ASSUME NEW m \in loop[i].acks, CollectSuccess(i, m) \/ CollectFailure(i, m)
      PROVE  TermsGrow /\ NoNewElection /\ votes' = votes
  <2>1. /\ loop' = [loop EXCEPT ![i] = AfterAnswers(i, {m.req})] /\ loop[i].at = "round"
        /\ UNCHANGED <<currentTerm, votes>>
    BY <1>4, Zenon DEF CollectSuccess, CollectFailure, nodeVars
  <2>2. NoNewElection
    BY <2>1, AfterAnswersPosition, LoopStep, Zenon
  <2> QED
    BY <1>0, <2>1, <2>2, SMTT(30) DEF TermsGrow
<1> QED
  BY <1>1, <1>2, <1>3, <1>4, Zenon DEF RunLeaderStep

(***************************************************************************)
(* Every step: terms do not fall, votes stay given, and an election won    *)
(* stays won.                                                              *)
(***************************************************************************)
LEMMA StepsForward ==
    ASSUME FiniteFacts, Steady, ElectionInv, [Next]_vars
    PROVE  TermsGrow /\ ElectionsNew /\ votes \subseteq votes' /\ ElectedKept
<1>0. TypeOK /\ \A j \in Server : currentTerm[j] \in Nat
  BY Zenon DEF ElectionInv, TypeOK
<1> DEFINE Goal == TermsGrow /\ ElectionsNew /\ votes \subseteq votes'
<1>1. ASSUME UNCHANGED vars PROVE Goal
  BY <1>0, <1>1 DEF vars, nodeVars, TermsGrow, ElectionsNew
<1>2. ASSUME NEW i \in Server, RunCandidateStep(i) PROVE Goal
  BY <1>0, <1>2, CandidateStepForward, Zenon
<1>3. ASSUME NEW i \in Server, RunLeaderStep(i) PROVE Goal
  BY <1>0, <1>3, LeaderStepForward, Zenon DEF NoNewElection, ElectionsNew
<1>4. ASSUME NEW i \in Server, NEW m \in voteReqs, HandleRequestVote(i, m) PROVE Goal
  <2>1. m.term \in Nat
    BY <1>0, Zenon DEF TypeOK, VoteReq
  <2>2. votes \subseteq votes'
    BY <1>4, Zenon DEF HandleRequestVote, RefuseVote, GrantVote
  <2>3. \E t \in Nat : t >= currentTerm[i] /\ currentTerm' = [currentTerm EXCEPT ![i] = t]
    BY <1>0, <1>4, <2>1
       DEF HandleRequestVote, RefuseVote, GrantVote, MayVote, NotStale, LargerOf
  <2>4. TermsGrow
    BY <1>0, <2>3, SMTT(30) DEF TermsGrow, TypeOK
  <2>5. ElectionsNew
    <3>1. \E reply : AnswerVote(m, reply)
      BY <1>4, Zenon DEF HandleRequestVote, RefuseVote, GrantVote
    <3> QED
      BY <1>0, <3>1, AnswerVotePosition, Zenon DEF ElectionsNew
  <2> QED
    BY <2>2, <2>4, <2>5, Zenon
<1>5. ASSUME NEW i \in Server, NEW m \in appendReqs, HandleAppendEntries(i, m) PROVE Goal
  <2>1. m.term \in Nat
    BY <1>0, AppendReqFields, Zenon
  <2>2. RejectStaleAppend(i, m) \/ FollowLeader(i, m)
    BY <1>5, Zenon
       DEF HandleAppendEntries, RejectMissing, RejectConflict, AcceptEntries, FailToStore
  <2>3. votes' = votes
    BY <2>2, Zenon DEF RejectStaleAppend, FollowLeader
  <2>4. TermsGrow
    <3>1. CASE RejectStaleAppend(i, m)
      BY <1>0, <3>1 DEF RejectStaleAppend, nodeVars, TermsGrow
    <3>2. CASE FollowLeader(i, m)
      BY <1>0, <2>1, <3>2, SMTT(30) DEF FollowLeader, NotStale, TermsGrow, TypeOK
    <3> QED
      BY <2>2, <3>1, <3>2, Zenon
  <2>5. ElectionsNew
    <3>1. \E t, ok, ci, ct : AnswerAppend(m, t, ok, ci, ct)
      BY <1>5, Zenon DEF HandleAppendEntries, RejectStaleAppend, RejectMissing, RejectConflict,
                         AcceptEntries, FailToStore, AnswerNotStored
    <3> QED
      BY <1>0, <3>1, AnswerAppendPosition, Zenon DEF ElectionsNew
  <2> QED
    BY <2>3, <2>4, <2>5, Zenon
<1>6. ASSUME NEW i \in Server, NEW c \in Command, Propose(i, c) PROVE Goal
  BY <1>0, <1>6 DEF Propose, nodeVars, TermsGrow, ElectionsNew
<1>7. ASSUME NEW i \in Server, Restart(i) PROVE Goal
  <2>1. /\ currentTerm' = [currentTerm EXCEPT ![i] = currentTerm[i]] /\ votes' = votes
        /\ loop' = [loop EXCEPT ![i] = Idle]
    BY <1>7, Zenon DEF Restart, Steady
  <2>2. Idle.at = "idle"
    BY Zenon DEF Idle, LoopAt
  <2>3. NoNewElection
    BY <1>0, <2>1, <2>2, LoopStep, Zenon
  <2> QED
    BY <1>0, <2>1, <2>3, SMTT(30) DEF TypeOK, TermsGrow, NoNewElection, ElectionsNew
<1> HIDE DEF Goal
<1>8. Goal
  BY <1>1, <1>2, <1>3, <1>4, <1>5, <1>6, <1>7, Zenon DEF Next
<1>9. TermsGrow /\ ElectionsNew /\ votes \subseteq votes'
  BY <1>8, Zenon DEF Goal
<1>10. ASSUME NEW w \in Server, NEW s \in Nat, Elected(w, s) PROVE Elected(w, s)'
  <2>1. Won(w, s, votes') /\ VoteIn(w, s, w) \in votes'
    BY <1>9, <1>10, WonGrows, Zenon DEF Elected
  <2>2. s <= currentTerm[w]
    BY <1>10, VotesAreOfThePast, Zenon DEF Elected
  <2>3. ~(loop'[w].at = "election" /\ loop'[w].term = s)
    BY <1>0, <1>9, <1>10, <2>2 DEF Elected, ElectionsNew
  <2> QED
    BY <2>1, <2>3, Zenon DEF Elected
<1> QED
  BY <1>9, <1>10, Zenon DEF ElectedKept


-----------------------------------------------------------------------------
(* Rounds *)

(***************************************************************************)
(* The steps of runLeader that send and commit nothing.                    *)
(***************************************************************************)
LEMMA QuietLeaderStep ==
    ASSUME FiniteFacts, NEW D, NEW H, NEW A, From(D, H, A), NEW i \in Server,
           \/ RunLeader(i) \/ LeaveLeadership(i) \/ RoundTimeout(i)
           \/ \E m \in loop[i].acks : AdoptAppendReplyTerm(i, m) \/ CollectFailure(i, m)
    PROVE  Records(D, H, A)'
<1>0. TypeOK /\ TypeOK' /\ Evolves(D, H, A, D, H, A) /\ Rounds(D, A) /\ Leaders(D, H, A)
  BY FromEvolves, Zenon DEF From, Records
<1>1. NoNewElection
  BY <1>0, LeaderStepForward, Zenon DEF RunLeaderStep
<1>2. UNCHANGED <<log, committed, commitIndex, voteReqs, appendReqs, votes>>
  BY Zenon DEF RunLeader, LeaveLeadership, RoundTimeout, AdoptAppendReplyTerm, CollectFailure, logVars
<1>3. LeadersStay
  <2>1. \/ UNCHANGED <<currentTerm, role>>
        \/ \E t : /\ currentTerm' = [currentTerm EXCEPT ![i] = t]
                  /\ role' = [role EXCEPT ![i] = Follower]
    BY Zenon DEF RunLeader, LeaveLeadership, RoundTimeout, AdoptAppendReplyTerm, CollectFailure, nodeVars
  <2> QED
    BY <1>0, <2>1, Zenon DEF LeadersStay, TypeOK, Leader, Follower
<1>4. Rounds(D, A)'
  <2>1. CASE RunLeader(i)
    <3>1. /\ loop' = [loop EXCEPT ![i] = LoopAt("sending", currentTerm[i])]
          /\ matchIndex' = [matchIndex EXCEPT ![i] = EveryPeerAt(0)] /\ role[i] = Leader
      BY <2>1, Zenon DEF RunLeader
    <3>2. currentTerm[i] \in D
      BY <1>0, <3>1, Zenon DEF Leaders
    <3>3. \A j \in Server : A[j][currentTerm[i]] \in Nat
      BY <3>2, RecordNumbers, Zenon DEF From
    <3>4. /\ \A j \in Server \ {i} : matchIndex'[j] = matchIndex[j]
          /\ \A j \in Server : matchIndex'[i][j] = 0
      BY <1>0, <3>1, Zenon DEF TypeOK, EveryPeerAt
    <3>5. RoundTrue(D, A, LoopAt("sending", currentTerm[i]), matchIndex'[i])
      BY <3>2, <3>3, <3>4, SendingRound, SMTT(30)
    <3> QED
      BY <1>0, <3>1, <3>4, <3>5, RoundsStep, Zenon
  <2>2. CASE ~RunLeader(i)
    <3>1. matchIndex' = matchIndex
      BY <2>2, Zenon DEF LeaveLeadership, RoundTimeout, AdoptAppendReplyTerm, CollectFailure, peerVars
    <3>2. \/ loop' = [loop EXCEPT ![i] = Idle]
          \/ loop[i].at = "round" /\ \E reqs : loop' = [loop EXCEPT ![i] = AfterAnswers(i, reqs)]
      BY <2>2, Zenon DEF LeaveLeadership, RoundTimeout, AdoptAppendReplyTerm, CollectFailure
    <3>3. RoundTrue(D, A, loop[i], matchIndex[i])
      BY <1>0, Zenon DEF Rounds
    <3>4. PICK lp : loop' = [loop EXCEPT ![i] = lp] /\ RoundTrue(D, A, lp, matchIndex'[i])
      BY <1>0, <3>1, <3>2, <3>3, IdleRound, AfterAnswersRound, Zenon
    <3> QED
      BY <1>0, <3>1, <3>4, RoundsStep, Zenon
  <2> QED
    BY <2>1, <2>2, Zenon
<1> QED
  BY <1>1, <1>2, <1>3, <1>4, QuietKeeps, Zenon


-----------------------------------------------------------------------------
(* Votes *)

(***************************************************************************)
(* A step that only asks for votes, or gives one.                          *)
(***************************************************************************)
LEMMA VotingKeeps ==
    ASSUME FiniteFacts, NEW D, NEW H, NEW A, From(D, H, A), LeadersStay,
           UNCHANGED <<log, committed, commitIndex, appendReqs>>, Ballots(D, H, A)', Rounds(D, A)'
    PROVE  Records(D, H, A)'
<1>0. TypeOK /\ TypeOK' /\ Evolves(D, H, A, D, H, A)
  BY FromEvolves, Zenon
<1>1. Requests(D, H, A) /\ Commits(D, H, A)
  BY Zenon DEF From, Records
<1>2. Leaders(D, H, A)' /\ Logs(D, H)' /\ Stored(D, H, A)' /\ Complete(D, H, A)'
  BY SameLogsKeep, Zenon
<1>3. Requests(D, H, A)'
  <2>1. Len(committed) <= Len(committed')
    BY <1>0, LenProperties, SMTT(30) DEF TypeOK
  <2> QED
    BY <1>0, <1>1, <2>1, RequestsKeep, Zenon
<1>4. Commits(D, H, A)'
  BY <1>0, <1>1, CommitsKeep, Zenon
<1> QED
  BY <1>2, <1>3, <1>4, Zenon DEF Records

(***************************************************************************)
(* A node whose log passes the test of HandleRequestVote votes for a       *)
(* candidate that is ahead of what the node may have helped to commit.     *)
(***************************************************************************)
LEMMA VoteIsUpToDate ==
    ASSUME FiniteFacts, NEW D, NEW H, NEW A, From(D, H, A), NEW i \in Server, NEW m \in voteReqs,
           CandidateLogUpToDate(log[i], m.lastIndex, m.lastTerm)
    PROVE  UpToDate(D, H, A, m, i)'
<1>0. /\ TypeOK /\ Recorded(D, H, A) /\ Evolves(D, H, A, D, H, A)
      /\ Leaders(D, H, A) /\ Stored(D, H, A) /\ Logs(D, H)
  BY FromEvolves, Zenon DEF From, Records
<1> SUFFICES ASSUME NEW t \in D, t < m.term, NEW a \in 1..A[i][t], Own(H, t, a), Choosable(A, t, a)'
             PROVE  m.lastTerm > t \/ (m.lastTerm = t /\ m.lastIndex >= a)
  BY Zenon DEF UpToDate
<1>1. t \in Nat /\ A[i][t] \in Nat /\ a \in Nat /\ Len(H[t]) \in Nat
  BY <1>0, RecordNumbers
<1>2. Choosable(A, t, a)
  BY <1>0, <1>1, ChoosableBefore, Zenon
<1>3. Same(log[i], H[t], a)
  BY <1>0, <1>2, Zenon DEF Stored
<1>4. log[i] \in Seq(Entry) /\ Len(log[i]) \in Nat /\ m.lastTerm \in Nat /\ m.lastIndex \in Nat
  BY <1>0, LogNumbers, Zenon DEF TypeOK, VoteReq
<1>5. a \in 1..Len(log[i]) /\ log[i][a].term = t
  <2>1. a \in 1..a
    BY <1>1, SMTT(30)
  <2> QED
    BY <1>1, <1>3, <1>4, <2>1, SMTT(30) DEF Same, Own
<1>6. log[i][a].term <= LastTerm(log[i]) /\ LastTerm(log[i]) = log[i][Len(log[i])].term
      /\ Len(log[i]) \in 1..Len(log[i])
  BY <1>0, <1>4, <1>5, TermsAscend, Zenon DEF Logs
<1>7. LastTerm(log[i]) \in Nat /\ t <= LastTerm(log[i])
  BY <1>4, <1>5, <1>6, LogNumbers, Zenon
<1>8. a <= Len(log[i])
  BY <1>1, <1>4, <1>5
<1> QED
  BY <1>1, <1>4, <1>7, <1>8 DEF CandidateLogUpToDate

(***************************************************************************)
(* HandleRequestVote.                                                      *)
(***************************************************************************)
LEMMA HandleRequestVoteSafe ==
    ASSUME FiniteFacts, NEW D, NEW H, NEW A, From(D, H, A), NEW i \in Server, NEW m \in voteReqs,
           HandleRequestVote(i, m)
    PROVE  Records(D, H, A)'
<1>0. /\ TypeOK /\ TypeOK' /\ Evolves(D, H, A, D, H, A) /\ ElectionInv
      /\ Rounds(D, A) /\ Stored(D, H, A) /\ Ballots(D, H, A)
  BY FromEvolves, Zenon DEF From, Records
<1>1. /\ m.from \in Server /\ m.term \in Nat /\ currentTerm[i] \in Nat
      /\ DOMAIN role = Server /\ DOMAIN currentTerm = Server
  BY <1>0, Zenon DEF TypeOK, VoteReq
<1>2. UNCHANGED <<log, committed, commitIndex, voteReqs, appendReqs, matchIndex>>
  BY Zenon DEF HandleRequestVote, RefuseVote, GrantVote, logVars, peerVars
<1>3. PICK reply : AnswerVote(m, reply)
  BY Zenon DEF HandleRequestVote, RefuseVote, GrantVote
<1>4. Rounds(D, A)'
  BY <1>0, <1>2, <1>3, AnswerVoteRounds, Zenon
<1>5. LeadersStay
  <2>1. CASE RefuseVote(i, m)
    <3>1. /\ currentTerm' = [currentTerm EXCEPT ![i] = LargerOf(m.term, currentTerm[i])]
          /\ role' = [role EXCEPT ![i] = IF m.term > currentTerm[i] THEN Follower ELSE role[i]]
      BY <2>1, Zenon DEF RefuseVote
    <3>2. \A j \in Server \ {i} : role'[j] = role[j] /\ currentTerm'[j] = currentTerm[j]
      BY <1>1, <3>1, Zenon
    <3>3. role'[i] = Leader => role[i] = Leader /\ currentTerm'[i] = currentTerm[i]
      BY <1>1, <3>1, Zenon DEF LargerOf, Leader, Follower
    <3> QED
      BY <3>2, <3>3, Zenon DEF LeadersStay
  <2>2. CASE GrantVote(i, m)
    <3>1. /\ currentTerm' = [currentTerm EXCEPT ![i] = m.term] /\ m.term >= currentTerm[i]
          /\ role' = [role EXCEPT ![i] = IF m.term > currentTerm[i] THEN Follower ELSE role[i]]
      BY <2>2, Zenon DEF GrantVote, MayVote, NotStale
    <3>2. \A j \in Server \ {i} : role'[j] = role[j] /\ currentTerm'[j] = currentTerm[j]
      BY <1>1, <3>1, Zenon
    <3>3. role'[i] = Leader => role[i] = Leader /\ currentTerm'[i] = currentTerm[i]
      BY <1>1, <3>1 DEF Leader, Follower
    <3> QED
      BY <3>2, <3>3, Zenon DEF LeadersStay
  <2> QED
    BY <2>1, <2>2, Zenon DEF HandleRequestVote
<1>6. \A v \in votes' : v \in votes \/
        \E q \in voteReqs : /\ q.from = v.candidate /\ q.term = v.term
                            /\ UpToDate(D, H, A, q, v.voter)'
  <2>1. CASE RefuseVote(i, m)
    BY <2>1, Zenon DEF RefuseVote
  <2>2. CASE GrantVote(i, m)
    <3>1. /\ votes' = votes \cup {VoteIn(i, m.term, m.from)}
          /\ CandidateLogUpToDate(log[i], m.lastIndex, m.lastTerm)
      BY <2>2, Zenon DEF GrantVote, MayVote, VoteIn
    <3>2. UpToDate(D, H, A, m, i)'
      BY <3>1, VoteIsUpToDate, Zenon
    <3> DEFINE v == VoteIn(i, m.term, m.from)
    <3>3. v.voter = i /\ v.term = m.term /\ v.candidate = m.from
      BY Zenon DEF VoteIn
    <3> HIDE DEF v
    <3>4. /\ m.from = v.candidate /\ m.term = v.term /\ UpToDate(D, H, A, m, v.voter)'
      BY <3>2, <3>3, Zenon DEF UpToDate
    <3> QED
      BY <3>1, <3>4, Zenon DEF v
  <2> QED
    BY <2>1, <2>2, Zenon DEF HandleRequestVote
<1>7. Ballots(D, H, A)'
  <2>1. \A w \in Server : loop'[w].at = "election" =>
          loop[w].at = "election" /\ loop[w].term = loop'[w].term
    BY <1>0, <1>3, AnswerVotePosition, Zenon
  <2> QED
    BY <1>0, <1>2, <1>6, <2>1, BallotsKeep, Zenon
<1> QED
  BY <1>2, <1>4, <1>5, <1>7, VotingKeeps, Zenon

(***************************************************************************)
(* runCandidate asks for votes, unless its own is enough.                  *)
(***************************************************************************)
LEMMA StartElectionSafe ==
    ASSUME FiniteFacts,
           NEW D, NEW H, NEW A, From(D, H, A), ElectionsNew, NEW i \in Server, StartElection(i),
           ~IsQuorum({i})
    PROVE  Records(D, H, A)'
<1> DEFINE t == currentTerm[i] + 1
           new == {[term |-> t, from |-> i, to |-> j, lastIndex |-> Len(log[i]),
                    lastTerm |-> LastTerm(log[i])] : j \in Peers(i)}
<1>0. /\ TypeOK /\ TypeOK' /\ Evolves(D, H, A, D, H, A) /\ ElectionInv
      /\ Rounds(D, A) /\ Stored(D, H, A) /\ Ballots(D, H, A)
  BY FromEvolves, Zenon DEF From, Records
<1>1. /\ votes' = votes \cup {VoteIn(i, t, i)} /\ voteReqs' = voteReqs \cup new
      /\ loop' = [loop EXCEPT ![i] = LoopAt("election", t)]
      /\ currentTerm' = [currentTerm EXCEPT ![i] = t]
      /\ role' = [role EXCEPT ![i] = Candidate]
      /\ UNCHANGED <<log, committed, commitIndex, appendReqs, matchIndex>>
  BY Zenon DEF StartElection, VoteIn, logVars, peerVars
<1>2. LeadersStay
  BY <1>0, <1>1, Zenon DEF LeadersStay, TypeOK, Leader, Candidate
<1>3. Rounds(D, A)'
  <2>1. RoundTrue(D, A, LoopAt("election", t), matchIndex'[i])
    BY Zenon DEF RoundTrue, LoopAt
  <2> QED
    BY <1>0, <1>1, <2>1, RoundsStep, Zenon
<1>4. \A m \in new : m.from = i /\ m.term = t /\ m.lastIndex = Len(log[i])
                     /\ m.lastTerm = LastTerm(log[i])
  OBVIOUS
<1>5. VoteIn(i, t, i).voter = VoteIn(i, t, i).candidate
  BY Zenon DEF VoteIn
<1>6. currentTerm'[i] = t /\ t \in Nat
  BY <1>0, <1>1, Zenon DEF TypeOK
<1> HIDE DEF new, t
<1>7. \A m \in voteReqs' : m \in voteReqs \/
        /\ m.term <= currentTerm'[m.from]
        /\ m.lastIndex = Len(log'[m.from]) /\ m.lastTerm = LastTerm(log'[m.from])
  BY <1>1, <1>4, <1>6
<1>8. \A v \in votes' : v \in votes \/ v.voter = v.candidate
  BY <1>1, <1>5, Zenon
<1>9. voteReqs \subseteq voteReqs' /\ \A w \in Server : log'[w] = log[w]
  BY <1>1, Zenon
<1>10. Ballots(D, H, A)'
  BY <1>0, <1>7, <1>8, <1>9, BallotsKeep, Zenon DEF ElectionsNew
<1> QED
  BY <1>1, <1>2, <1>3, <1>10, VotingKeeps, Zenon

(***************************************************************************)
(* The other steps of runCandidate, and a restart.                         *)
(***************************************************************************)
LEMMA QuietOtherStep ==
    ASSUME FiniteFacts, NEW D, NEW H, NEW A, From(D, H, A), NEW i \in Server,
           \/ EndElection(i) \/ Restart(i)
           \/ \E m \in loop[i].ballots : AdoptVoteReplyTerm(i, m)
    PROVE  Records(D, H, A)'
<1>0. TypeOK /\ TypeOK' /\ Evolves(D, H, A, D, H, A) /\ Rounds(D, A)
  BY FromEvolves, Zenon DEF From, Records
<1>1. UNCHANGED <<log, committed, voteReqs, appendReqs, votes>>
  BY Zenon DEF EndElection, Restart, AdoptVoteReplyTerm, logVars
<1>2. loop' = [loop EXCEPT ![i] = Idle]
  BY Zenon DEF EndElection, Restart, AdoptVoteReplyTerm
<1>3. NoNewElection
  BY <1>0, <1>2, LoopStep, Zenon DEF Idle, LoopAt
<1>4. LeadersStay
  <2>1. \/ role' = [role EXCEPT ![i] = Follower] /\ (currentTerm' = currentTerm \/
                                 \E t : currentTerm' = [currentTerm EXCEPT ![i] = t])
        \/ UNCHANGED <<role, currentTerm>>
    BY Zenon DEF EndElection, Restart, AdoptVoteReplyTerm
  <2> QED
    BY <1>0, <2>1, Zenon DEF LeadersStay, TypeOK, Leader, Follower
<1>5. \A j \in Server : commitIndex'[j] \in {commitIndex[j], 0}
  <2>1. commitIndex' = commitIndex \/ commitIndex' = [commitIndex EXCEPT ![i] = 0]
    BY Zenon DEF EndElection, Restart, AdoptVoteReplyTerm, logVars
  <2> QED
    BY <1>0, <2>1, Zenon DEF TypeOK
<1>6. Rounds(D, A)'
  <2>1. matchIndex' = matchIndex \/ matchIndex' = [matchIndex EXCEPT ![i] = EveryPeerAt(0)]
    BY Zenon DEF EndElection, Restart, AdoptVoteReplyTerm, peerVars
  <2>2. \A j \in Server \ {i} : matchIndex'[j] = matchIndex[j]
    BY <1>0, <2>1, Zenon DEF TypeOK
  <2> QED
    BY <1>0, <1>2, <2>2, IdleRound, RoundsStep, Zenon
<1> QED
  BY <1>1, <1>3, <1>4, <1>5, <1>6, QuietKeeps, Zenon

(***************************************************************************)
(* A reply that does not make the candidate Leader.                        *)
(***************************************************************************)
LEMMA CountVoteSafe ==
    ASSUME FiniteFacts,
           NEW D, NEW H, NEW A, From(D, H, A), NEW i \in Server, NEW m \in loop[i].ballots,
           CollectVote(i, m), role'[i] # Leader \/ role[i] = Leader
    PROVE  Records(D, H, A)'
<1> DEFINE got == loop[i].grants \cup (IF m.granted THEN {m.from} ELSE {})
           won == IsQuorum(got \cup {i})
           lp == IF won THEN Idle ELSE [loop[i] EXCEPT !.grants = got, !.ballots = @ \ {m}]
<1>0. /\ TypeOK /\ TypeOK' /\ Evolves(D, H, A, D, H, A) /\ Rounds(D, A) /\ loop[i] \in Loop
  BY FromEvolves, Zenon DEF From, Records, TypeOK
<1>1. /\ loop' = [loop EXCEPT ![i] = lp] /\ loop[i].at = "election"
      /\ UNCHANGED <<currentTerm, log, committed, commitIndex, matchIndex,
                     voteReqs, appendReqs, votes>>
      /\ \E r : role' = [role EXCEPT ![i] = r]
  BY Zenon DEF CollectVote, logVars, peerVars
<1>2. /\ lp.at \in {"idle", "election"}
      /\ lp.at = "election" => lp.term = loop[i].term
  <2>1. Idle.at = "idle"
    BY Zenon DEF Idle, LoopAt
  <2> HIDE DEF got, won
  <2> QED
    BY <1>0, <1>1, <2>1, Zenon DEF Loop
<1> HIDE DEF lp
<1>3. NoNewElection
  BY <1>0, <1>1, <1>2, LoopStep, Zenon
<1>4. LeadersStay
  BY <1>0, <1>1, Zenon DEF LeadersStay, TypeOK
<1>5. Rounds(D, A)'
  <2>1. RoundTrue(D, A, lp, matchIndex'[i])
    BY <1>2, Zenon DEF RoundTrue
  <2> QED
    BY <1>0, <1>1, <2>1, RoundsStep, Zenon
<1> QED
  BY <1>1, <1>3, <1>4, <1>5, QuietKeeps, Zenon


-----------------------------------------------------------------------------
(* Commits *)

(***************************************************************************)
(* What maybeAdvanceCommitIndex returns passes its two tests.              *)
(***************************************************************************)
LEMMA AdvancedCommitTests ==
    ASSUME FiniteFacts, TypeOK, NEW i \in Server, NEW T, NEW lastIdx \in Nat, NEW match, NEW n,
           n = AdvancedCommit(i, T, lastIdx, match), n # commitIndex[i]
    PROVE  /\ n \in Nat /\ n > commitIndex[i] /\ n \in 1..Len(log[i]) /\ log[i][n].term = T
           /\ IsQuorum(StoredBy(i, n, match))
<1> DEFINE P(k) == EntryOfTerm(i, k, T) /\ IsQuorum(StoredBy(i, k, match))
           S == {commitIndex[i]} \cup {k \in (commitIndex[i] + 1)..lastIdx : P(k)}
           b == commitIndex[i] + lastIdx
<1>1. commitIndex[i] \in Nat /\ Len(log[i]) \in Nat
  BY LenProperties, Zenon DEF TypeOK
<1>2. n = Max(S)
  BY Zenon DEF AdvancedCommit
<1> HIDE DEF P
<1>3. S \in SUBSET Nat /\ S # {} /\ b \in Nat /\ \A x \in S : x <= b
  BY <1>1
<1>4. n \in S
  <2> HIDE DEF S, b
  <2> QED
    BY <1>2, <1>3, MaxOfNaturals, Zenon
<1>5. n \in (commitIndex[i] + 1)..lastIdx /\ P(n)
  BY <1>4, Zenon
<1>6. n \in Nat /\ n > commitIndex[i] /\ n > 0
  BY <1>1, <1>5
<1>7. n <= Len(log[i]) /\ log[i][n].term = T /\ IsQuorum(StoredBy(i, n, match))
  BY <1>5, Zenon DEF P, EntryOfTerm
<1> QED
  BY <1>1, <1>6, <1>7

(***************************************************************************)
(* What a leader counts as committed was stored by a quorum in its term,   *)
(* which is the term of the entry.                                         *)
(***************************************************************************)
LEMMA CountedIsAccepted ==
    ASSUME FiniteFacts, TypeOK, NEW D, NEW H, NEW A, Recorded(D, H, A), Logs(D, H),
           NEW i \in Server, NEW T \in D, A[i][T] = Len(H[T]),
           NEW match \in [Server -> Nat], \A j \in Server : match[j] <= A[j][T],
           NEW n \in 1..Len(log[i]), log[i][n].term = T, IsQuorum(StoredBy(i, n, match))
    PROVE  /\ T <= currentTerm[i] /\ Same(log[i], H[T], n) /\ n \in 1..Len(H[T])
           /\ Own(H, T, n) /\ Accepted(A, T, n)
<1>0. /\ Len(log[i]) \in Nat /\ n \in Nat /\ n >= 1 /\ Len(H[T]) \in Nat
      /\ \A j \in Server : A[j][T] \in Nat /\ match[j] \in Nat
  <2>1. log[i] \in Seq(Entry)
    BY Zenon DEF TypeOK
  <2>2. Len(log[i]) \in Nat
    BY <2>1, LenProperties, Zenon
  <2>3. Len(H[T]) \in Nat /\ \A j \in Server : A[j][T] \in Nat
    BY RecordNumbers
  <2> QED
    BY <2>2, <2>3
<1>1. T <= currentTerm[i] /\ Same(log[i], H[T], n)
  BY Zenon DEF Logs, Made
<1>2. n \in 1..Len(H[T]) /\ n <= Len(H[T]) /\ H[T][n] = log[i][n]
  <2>1. n <= Len(H[T]) /\ \A k \in 1..n : log[i][k] = H[T][k]
    BY <1>1, Zenon DEF Same
  <2> QED
    BY <1>0, <2>1
<1>3. Own(H, T, n)
  BY <1>2, Zenon DEF Own
<1>4. Accepted(A, T, n)
  <2> DEFINE S == StoredBy(i, n, match)
             Q == {j \in Server : A[j][T] >= n}
  <2>1. \A j \in S : j \in Server /\ A[j][T] >= n
    BY <1>0, <1>2 DEF StoredBy, Peers
  <2>2. S \in SUBSET Server /\ Q \in SUBSET Server /\ S \subseteq Q
    BY <2>1, Zenon
  <2>3. IsQuorum(S)
    BY Zenon
  <2> HIDE DEF S, Q
  <2>4. IsQuorum(Q)
    BY <2>2, <2>3, QuorumGrows, Zenon
  <2> QED
    BY <2>4, Zenon DEF Q, Accepted
<1> QED
  BY <1>1, <1>2, <1>3, <1>4, Zenon

(***************************************************************************)
(* The history of commits only grows, by what the leader of a term counts  *)
(* as committed.                                                           *)
(***************************************************************************)
LEMMA CommitGrows ==
    ASSUME FiniteFacts, NEW D, NEW H, NEW A, From(D, H, A), log' = log,
           NEW i \in Server, NEW T \in D, NEW n \in 1..Len(log[i]),
           T <= currentTerm[i], Same(log[i], H[T], n), n \in 1..Len(H[T]),
           Own(H, T, n), Accepted(A, T, n), n > Len(committed),
           commitIndex' = [commitIndex EXCEPT ![i] = n], committed' = SubSeq(log[i], 1, n)
    PROVE  Commits(D, H, A)' /\ Len(committed) <= Len(committed')
<1>0. /\ TypeOK /\ TypeOK' /\ Evolves(D, H, A, D, H, A) /\ TermsGrow /\ Recorded(D, H, A)
      /\ Commits(D, H, A) /\ Complete(D, H, A)
  BY FromEvolves, Zenon DEF From, Records
<1>1. /\ log[i] \in Seq(Entry) /\ H[T] \in Seq(Entry) /\ committed \in Seq(Entry) /\ T \in Nat
      /\ \A j \in Server : currentTerm[j] \in Nat /\ currentTerm'[j] \in Nat /\ commitIndex[j] \in Nat
  BY <1>0, RecordNumbers, Zenon DEF TypeOK
<1>2. n \in Nat /\ n <= Len(log[i]) /\ Len(log[i]) \in Nat /\ Len(committed) \in Nat /\ n >= 1
  BY <1>1, LenProperties
<1>3. Len(committed') = n /\ Same(committed', log[i], n)
  BY <1>1, <1>2, BeginningSame, Zenon
<1>4. Same(committed', H[T], n) /\ Same(H[T], committed', n)
  BY <1>3, SameJoins, SameSwaps, Zenon
<1>5. Backed(D, H, A)'
  BY <1>3, <1>4, Zenon DEF Backed
<1>6. Same(committed, committed', Len(committed))
  <2>1. CASE committed = << >>
    <3>1. Len(committed) = 0
      BY <2>1, Zenon
    <3> QED
      BY <1>2, <1>3, <3>1, SMTT(30) DEF Same
  <2>2. CASE committed # << >>
    <3> DEFINE c == Len(committed)
    <3>1. PICK t \in D : Own(H, t, c) /\ Accepted(A, t, c) /\ Same(H[t], committed, c)
      BY <1>0, <2>2, Zenon DEF Commits, Backed
    <3>2. c \in 1..Len(H[t]) /\ c \in Nat /\ c <= n
      BY <1>2, <3>1, SMTT(30) DEF Own
    <3> HIDE DEF c
    <3>2a. c <= c
      BY <3>2, SMTT(30)
    <3>3. Same(H[T], H[t], c)
      BY <1>0, <3>1, <3>2, <3>2a, CertifiedAgree, Zenon
    <3>4. Same(committed', H[T], c)
      <4>1. Len(H[T]) \in Nat /\ Len(committed') \in Nat
        BY <1>1, <1>2, <1>3, LenProperties, Zenon
      <4> QED
        BY <1>2, <1>4, <3>2, <4>1, SameShorter, Zenon
    <3>5. Same(committed', committed, c)
      BY <3>1, <3>3, <3>4, SameJoins, Zenon
    <3> QED
      BY <3>5, SameSwaps, Zenon DEF c
  <2> QED
    BY <2>1, <2>2, Zenon
<1>7. ASSUME NEW j \in Server
      PROVE  /\ Certified(D, H, A, currentTerm'[j], commitIndex'[j])
             /\ commitIndex'[j] <= Len(committed') /\ Same(log'[j], committed', commitIndex'[j])
  <2>1. CASE j = i
    <3>1. commitIndex'[j] = n
      BY <1>0, <2>1, Zenon DEF TypeOK
    <3>2. T <= currentTerm'[j]
      BY <1>0, <1>1, <2>1, SMTT(30) DEF TermsGrow
    <3>3. n <= n
      BY <1>2, SMTT(30)
    <3>4. Certified(D, H, A, currentTerm'[j], n)
      BY <3>2, <3>3, Zenon DEF Certified
    <3> QED
      BY <1>3, <2>1, <3>1, <3>3, <3>4, SameSwaps, Zenon
  <2>2. CASE j # i
    <3> DEFINE c == commitIndex[j]
    <3>1. commitIndex'[j] = c
      BY <1>0, <2>2, Zenon DEF TypeOK
    <3>2. /\ Certified(D, H, A, currentTerm[j], c) /\ c <= Len(committed)
          /\ Same(log[j], committed, c)
      BY <1>0, Zenon DEF Commits
    <3>3. c \in Nat /\ currentTerm[j] <= currentTerm'[j]
      BY <1>0, <1>1, Zenon DEF TermsGrow
    <3> HIDE DEF c
    <3>4. Certified(D, H, A, currentTerm'[j], c)
      BY <1>0, <1>1, <3>2, <3>3, CertifiedKeeps, Zenon
    <3>5. Same(committed, committed', c)
      <4>1. Len(committed') \in Nat
        BY <1>2, <1>3, Zenon
      <4> QED
        BY <1>2, <1>6, <3>2, <3>3, <4>1, SameShorter, Zenon
    <3>6. Same(log'[j], committed', c)
      BY <3>2, <3>5, SameJoins, Zenon
    <3>7. c <= Len(committed')
      BY <3>6, Zenon DEF Same
    <3> QED
      BY <3>1, <3>4, <3>6, <3>7, Zenon
  <2> QED
    BY <2>1, <2>2, Zenon
<1>8. Len(committed) <= Len(committed')
  BY <1>2, <1>3, SMTT(30)
<1> QED
  BY <1>5, <1>7, <1>8, Zenon DEF Commits

(***************************************************************************)
(* maybeAdvanceCommitIndex keeps Commits: it commits an entry of the       *)
(* Leader's own term that a quorum has stored.                             *)
(***************************************************************************)
LEMMA CommitAdvances ==
    ASSUME FiniteFacts, NEW D, NEW H, NEW A, From(D, H, A), log' = log,
           NEW i \in Server, NEW T \in D, A[i][T] = Len(H[T]), NEW lastIdx \in Nat,
           NEW match \in [Server -> Nat], \A j \in Server : match[j] <= A[j][T],
           commitIndex' = [commitIndex EXCEPT ![i] = AdvancedCommit(i, T, lastIdx, match)],
           RecordCommit(i)
    PROVE  Commits(D, H, A)' /\ Len(committed) <= Len(committed')
<1> DEFINE n == AdvancedCommit(i, T, lastIdx, match)
<1>0. /\ TypeOK /\ TypeOK' /\ Evolves(D, H, A, D, H, A) /\ TermsGrow /\ Recorded(D, H, A)
      /\ Commits(D, H, A) /\ Complete(D, H, A) /\ Logs(D, H)
  BY FromEvolves, Zenon DEF From, Records
<1>1. /\ commitIndex'[i] = n /\ \A j \in Server \ {i} : commitIndex'[j] = commitIndex[j]
      /\ Len(committed) \in Nat /\ commitIndex[i] \in Nat
  <2>1. committed \in Seq(Entry) /\ commitIndex \in [Server -> Nat]
    BY <1>0, Zenon DEF TypeOK
  <2>2. Len(committed) \in Nat
    BY <2>1, LenProperties, Zenon
  <2> QED
    BY <2>1, <2>2, Zenon
<1>2. committed' = IF n > Len(committed) THEN SubSeq(log[i], 1, n) ELSE committed
  BY <1>1 DEF RecordCommit
<1>3. CASE n = commitIndex[i]
  <2>1. commitIndex[i] <= Len(committed)
    BY <1>0, Zenon DEF Commits
  <2>2. committed' = committed
    BY <1>1, <1>2, <1>3, <2>1, SMTT(30)
  <2>3. \A j \in Server : commitIndex'[j] = commitIndex[j] /\ log'[j] = log[j]
    BY <1>1, <1>3, Zenon
  <2>4. Commits(D, H, A)'
    BY <1>0, <2>2, <2>3, CommitsKeep, Zenon
  <2> QED
    BY <1>1, <2>2, <2>4, SMTT(30)
<1>4. CASE n # commitIndex[i]
  <2>1. /\ n \in Nat /\ n \in 1..Len(log[i]) /\ log[i][n].term = T
        /\ IsQuorum(StoredBy(i, n, match))
    BY <1>0, <1>4, AdvancedCommitTests, SMTT(30)
  <2> HIDE DEF n
  <2>2. /\ T <= currentTerm[i] /\ Same(log[i], H[T], n) /\ n \in 1..Len(H[T])
        /\ Own(H, T, n) /\ Accepted(A, T, n)
    BY <1>0, <2>1, CountedIsAccepted, Zenon
  <2>3. CASE n > Len(committed)
    <3>1. commitIndex' = [commitIndex EXCEPT ![i] = n] /\ committed' = SubSeq(log[i], 1, n)
      BY <1>2, <2>3, Zenon DEF n
    <3> QED
      BY <2>1, <2>2, <2>3, <3>1, CommitGrows, Zenon
  <2>4. CASE ~(n > Len(committed))
    <3>1. committed' = committed /\ n <= Len(committed)
      BY <1>1, <1>2, <2>1, <2>4, SMTT(30)
    <3>2. T \in Nat /\ n <= n /\ T <= T /\ currentTerm[i] \in Nat
          /\ currentTerm'[i] \in Nat /\ currentTerm[i] <= currentTerm'[i]
      BY <1>0, <2>1, RecordNumbers, SMTT(30) DEF TypeOK, TermsGrow
    <3>3. Certified(D, H, A, T, n) /\ Certified(D, H, A, currentTerm'[i], n)
      <4>1. T <= currentTerm'[i]
        BY <2>2, <3>2, SMTT(30)
      <4> QED
        BY <2>2, <3>2, <4>1, Zenon DEF Certified
    <3>4. Same(H[T], committed, n)
      BY <1>0, <2>1, <3>1, <3>2, <3>3, CommittedHeld, Zenon DEF Commits
    <3>5. Same(log'[i], committed, n)
      BY <2>2, <3>4, SameJoins, Zenon
    <3>6. Commits(D, H, A)'
      BY <1>0, <1>1, <3>1, <3>3, <3>5, CommitsKeep, Zenon
    <3> QED
      BY <1>1, <3>1, <3>6
  <2> QED
    BY <2>3, <2>4, Zenon
<1> QED
  BY <1>3, <1>4, Zenon


(***************************************************************************)
(* Who works for a term as its leader has stored all of its log.           *)
(***************************************************************************)
LEMMA LeaderHasAll ==
    ASSUME FiniteFacts, NEW D, NEW H, NEW A, From(D, H, A), NEW i \in Server,
           loop[i].at \in {"sending", "round"}
    PROVE  /\ loop[i].term \in D /\ A[i][loop[i].term] = Len(H[loop[i].term])
           /\ \A j \in Server : matchIndex[i][j] <= A[j][loop[i].term]
<1> DEFINE T == loop[i].term
<1>1. T \in D /\ \A j \in Server : matchIndex[i][j] <= A[j][T]
  BY Zenon DEF From, Records, Rounds, RoundTrue
<1>2. Won(i, T, votes) /\ VotesKept
  BY Zenon DEF From, ElectionInv, LoopsTrue, LoopTrue
<1>3. PICK w \in Server : Elected(w, T) /\ A[w][T] = Len(H[T])
  BY <1>1, Zenon DEF From, Records, Leaders
<1>4. w = i
  BY <1>2, <1>3, OneWinner, Zenon DEF Elected
<1> QED
  BY <1>1, <1>3, <1>4, Zenon

(***************************************************************************)
(* A step of runLeader that commits.                                       *)
(***************************************************************************)
LEMMA CommittingKeeps ==
    ASSUME FiniteFacts,
           NEW D, NEW H, NEW A, From(D, H, A), UNCHANGED <<currentTerm, role, log, voteReqs, votes>>,
           NoNewElection, Rounds(D, A)', Commits(D, H, A)', Len(committed) <= Len(committed'),
           Requests(D, H, A)'
    PROVE  Records(D, H, A)'
<1>0. /\ TypeOK /\ TypeOK' /\ Evolves(D, H, A, D, H, A) /\ ElectionInv
      /\ Stored(D, H, A) /\ Ballots(D, H, A)
  BY FromEvolves, Zenon DEF From, Records
<1>1. Leaders(D, H, A)' /\ Logs(D, H)' /\ Stored(D, H, A)' /\ Complete(D, H, A)'
  BY SameLogsKeep, Zenon DEF LeadersStay
<1>2. Ballots(D, H, A)'
  BY <1>0, BallotsKeep, Zenon DEF NoNewElection
<1> QED
  BY <1>1, <1>2, Zenon DEF Records

(***************************************************************************)
(* A success: the follower has stored what matchIndex now says.            *)
(***************************************************************************)
LEMMA CollectSuccessSafe ==
    ASSUME FiniteFacts,
           NEW D, NEW H, NEW A, From(D, H, A), NEW i \in Server, NEW m \in loop[i].acks,
           CollectSuccess(i, m)
    PROVE  Records(D, H, A)'
<1> DEFINE T == loop[i].term
           k == m.req.to
           match == LargerOf(matchIndex[i][k], LastSent(m.req))
<1>0. /\ TypeOK /\ TypeOK' /\ Evolves(D, H, A, D, H, A) /\ Rounds(D, A)
      /\ Requests(D, H, A)
  BY FromEvolves, Zenon DEF From, Records
<1>1. /\ loop[i].at = "round" /\ m.success
      /\ matchIndex' = [matchIndex EXCEPT ![i][k] = match]
      /\ commitIndex' = [commitIndex EXCEPT ![i] =
                           AdvancedCommit(i, T, loop[i].last, matchIndex'[i])]
      /\ loop' = [loop EXCEPT ![i] = AfterAnswers(i, {m.req})]
      /\ UNCHANGED <<currentTerm, role, log, voteReqs, appendReqs, votes>>
      /\ RecordCommit(i)
  BY Zenon DEF CollectSuccess, nodeVars
<1>2. /\ T \in D /\ A[i][T] = Len(H[T]) /\ \A j \in Server : matchIndex[i][j] <= A[j][T]
  BY <1>1, LeaderHasAll, Zenon
<1>3. loop[i].last \in Nat /\ m.req \in AppendReq /\ k \in Server /\ matchIndex[i] \in [Server -> Nat]
      /\ loop[i] \in Loop
  <2>1. loop[i] \in Loop /\ matchIndex[i] \in [Server -> Nat]
    BY <1>0, Zenon DEF TypeOK
  <2>2. loop[i].last \in Nat /\ m.req \in AppendReq
    BY <2>1, Zenon DEF Loop, AppendReply
  <2>3. m.req.to \in Server
    BY <2>2, Zenon DEF AppendReq
  <2> QED
    BY <2>1, <2>2, <2>3, Zenon
<1>4. LastSent(m.req) \in Nat /\ LastSent(m.req) <= A[k][T] /\ \A j \in Server : A[j][T] \in Nat
  <2>1. LastSent(m.req) <= A[k][T]
    BY <1>0, <1>1, Zenon DEF Rounds, RoundTrue
  <2>2. \A j \in Server : A[j][T] \in Nat
    BY <1>2, RecordNumbers, Zenon DEF From
  <2> QED
    BY <1>3, <2>1, <2>2, LastSentType, Zenon
<1>5. match \in Nat /\ match <= A[k][T]
  <2>1. matchIndex[i][k] \in Nat /\ matchIndex[i][k] <= A[k][T]
    BY <1>2, <1>3, Zenon
  <2> QED
    BY <1>4, <2>1, Zenon DEF LargerOf
<1> HIDE DEF match, k
<1>6. /\ matchIndex'[i] = [matchIndex[i] EXCEPT ![k] = match]
      /\ \A j \in Server \ {i} : matchIndex'[j] = matchIndex[j]
  BY <1>0, <1>1, SMTT(30) DEF TypeOK
<1>7. matchIndex'[i] \in [Server -> Nat] /\ \A j \in Server : matchIndex'[i][j] <= A[j][T]
  BY <1>2, <1>3, <1>5, <1>6, Zenon
<1>8. Commits(D, H, A)' /\ Len(committed) <= Len(committed')
  BY <1>1, <1>2, <1>3, <1>7, CommitAdvances, Zenon
<1>9. Rounds(D, A)'
  <2>1. RoundTrue(D, A, loop[i], matchIndex'[i])
    <3>1. RoundTrue(D, A, loop[i], matchIndex[i])
      BY <1>0, Zenon DEF Rounds
    <3> QED
      BY <1>7, <3>1, Zenon DEF RoundTrue
  <2>2. RoundTrue(D, A, AfterAnswers(i, {m.req}), matchIndex'[i])
    BY <1>0, <1>1, <2>1, AfterAnswersRound, Zenon
  <2> QED
    BY <1>0, <1>1, <1>6, <2>2, RoundsStep, Zenon
<1>10. Requests(D, H, A)'
  BY <1>0, <1>1, <1>8, RequestsKeep, Zenon
<1>11. NoNewElection
  BY <1>0, <1>1, AfterAnswersPosition, LoopStep, Zenon
<1> QED
  BY <1>1, <1>8, <1>9, <1>10, <1>11, CommittingKeeps, Zenon

(***************************************************************************)
(* sendHeartbeats, for a node that is still Leader: it sends the end of    *)
(* its log and commits at once if it is alone.                             *)
(***************************************************************************)
LEMMA SendHeartbeatsSafe ==
    ASSUME FiniteFacts,
           Steady, NEW D, NEW H, NEW A, From(D, H, A), NEW i \in Server, SendHeartbeats(i)
    PROVE  Records(D, H, A)'
<1> DEFINE T == loop[i].term
           reqs == {AppendEntriesTo(i, j) : j \in Peers(i)}
           lp == IF reqs = {} THEN loop[i]
                 ELSE [loop[i] EXCEPT !.at = "round", !.open = reqs, !.last = Len(log[i])]
           n == IF reqs = {} THEN AdvancedCommit(i, T, Len(log[i]), matchIndex[i]) ELSE commitIndex[i]
<1>0. /\ TypeOK /\ TypeOK' /\ Evolves(D, H, A, D, H, A) /\ Rounds(D, A)
      /\ Requests(D, H, A) /\ Commits(D, H, A) /\ Leaders(D, H, A) /\ Recorded(D, H, A)
  BY FromEvolves, Zenon DEF From, Records
<1>1. /\ loop[i].at = "sending" /\ role[i] = Leader /\ currentTerm[i] = T
      /\ appendReqs' = appendReqs \cup reqs
      /\ loop' = [loop EXCEPT ![i] = lp]
      /\ commitIndex' = [commitIndex EXCEPT ![i] = n]
      /\ UNCHANGED <<currentTerm, role, log, matchIndex, voteReqs, votes>>
      /\ RecordCommit(i)
  BY Zenon DEF SendHeartbeats, StillLeader, Steady, nodeVars, peerVars
<1>2. /\ T \in D /\ A[i][T] = Len(H[T]) /\ \A j \in Server : matchIndex[i][j] <= A[j][T]
      /\ log[i] = H[T]
  BY <1>0, <1>1, LeaderHasAll DEF Leaders
<1>3. /\ matchIndex[i] \in [Server -> Nat] /\ loop[i] \in Loop /\ Len(log[i]) \in Nat
      /\ Len(committed) \in Nat /\ commitIndex[i] \in Nat /\ log[i] \in Seq(Entry)
  <2>1. /\ matchIndex[i] \in [Server -> Nat] /\ loop[i] \in Loop /\ log[i] \in Seq(Entry)
        /\ committed \in Seq(Entry) /\ commitIndex[i] \in Nat
    BY <1>0, Zenon DEF TypeOK
  <2> QED
    BY <2>1, LenProperties, Zenon
<1>4. /\ Certified(D, H, A, T, commitIndex[i]) /\ commitIndex[i] <= Len(committed)
      /\ commitIndex[i] <= Len(log[i])
  BY <1>0, <1>1, Zenon DEF Commits, Same
<1>5. \A m \in reqs : m.term = T /\ m.commit = commitIndex[i] /\ TakenFrom(m, log[i])
  BY DEF AppendEntriesTo, TakenFrom
<1>6. lp.at \in {"sending", "round"} /\ lp.term = T /\ lp.acks = loop[i].acks
      /\ lp.open \in {loop[i].open, reqs}
  <2> HIDE DEF reqs
  <2> QED
    BY <1>1, <1>3, Zenon DEF Loop
<1>7. Commits(D, H, A)' /\ Len(committed) <= Len(committed')
  <2>1. CASE reqs = {}
    <3>1. commitIndex' = [commitIndex EXCEPT ![i] =
                            AdvancedCommit(i, T, Len(log[i]), matchIndex[i])]
      BY <1>1, <2>1, Zenon
    <3>2. log' = log /\ RecordCommit(i)
      BY <1>1, Zenon
    <3> HIDE DEF reqs, lp, n
    <3> QED
      BY <1>2, <1>3, <3>1, <3>2, CommitAdvances, Zenon
  <2>2. CASE reqs # {}
    <3>1. \A j \in Server : commitIndex'[j] = commitIndex[j]
      BY <1>0, <1>1, <2>2, Zenon DEF TypeOK
    <3>2. committed' = committed
      BY <1>1, <1>3, <1>4, <3>1 DEF RecordCommit
    <3>3. Commits(D, H, A)'
      BY <1>0, <1>1, <3>1, <3>2, CommitsKeep, Zenon
    <3> QED
      BY <1>3, <3>2, <3>3
  <2> QED
    BY <2>1, <2>2, Zenon
<1> HIDE DEF reqs, lp, n
<1>8. Requests(D, H, A)'
  <2> SUFFICES ASSUME NEW m \in appendReqs', m \notin appendReqs
               PROVE  /\ m.term \in D
                      /\ \E c \in 0..Len(H[m.term]) :
                           TakenFrom(m, SubSeq(H[m.term], 1, c)) /\ m.commit <= c
                      /\ m.commit <= Len(committed') /\ Certified(D, H, A, m.term, m.commit)
    BY <1>0, <1>7, RequestsKeep, Zenon
  <2>1. m.term = T /\ m.commit = commitIndex[i] /\ TakenFrom(m, log[i])
    BY <1>1, <1>5, Zenon
  <2>2. SubSeq(log[i], 1, Len(log[i])) = log[i]
    <3>1. /\ SubSeq(log[i], 1, Len(log[i])) \in Seq(Entry)
          /\ Len(SubSeq(log[i], 1, Len(log[i]))) = Len(log[i])
          /\ \A k \in 1..Len(log[i]) : SubSeq(log[i], 1, Len(log[i]))[k] = log[i][k]
      <4>1. Len(log[i]) <= Len(log[i])
        BY <1>3
      <4> QED
        BY <1>3, <4>1, BeginningOf, Zenon
    <3> QED
      BY <1>3, <3>1, SeqEqual, Zenon
  <2>3. Len(log[i]) \in 0..Len(H[m.term]) /\ TakenFrom(m, SubSeq(H[m.term], 1, Len(log[i])))
    <3>1. H[m.term] = log[i]
      BY <1>2, <2>1, Zenon
    <3>2. Len(log[i]) \in 0..Len(log[i])
      BY <1>3
    <3> QED
      BY <2>1, <2>2, <3>1, <3>2, Zenon
  <2>4. m.commit <= Len(committed')
    <3>1. Len(committed') \in Nat
      BY <1>0, LenProperties, Zenon DEF TypeOK
    <3> QED
      BY <1>3, <1>4, <1>7, <2>1, <3>1
  <2> QED
    BY <1>2, <1>4, <2>1, <2>3, <2>4, Zenon
<1>9. Rounds(D, A)'
  <2>1. RoundTrue(D, A, loop[i], matchIndex[i])
    BY <1>0, Zenon DEF Rounds
  <2>2. RoundTrue(D, A, lp, matchIndex'[i])
    BY <1>1, <1>2, <1>5, <1>6, <2>1, Zenon DEF RoundTrue
  <2> QED
    BY <1>0, <1>1, <2>2, RoundsStep, Zenon
<1>10. NoNewElection
  BY <1>0, <1>1, <1>6, LoopStep, Zenon
<1> QED
  BY <1>1, <1>7, <1>8, <1>9, <1>10, CommittingKeeps, Zenon
=============================================================================
