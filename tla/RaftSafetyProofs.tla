-------------------------- MODULE RaftSafetyProofs --------------------------
(***************************************************************************)
(* What Raft is for, for every set of nodes: once committed, an entry is   *)
(* committed for good, whoever leads later, and the nodes together         *)
(* implement the one log of ReplicatedLog.  Beyond the assumptions of      *)
(* RaftElectionProofs no demoted leader sends a round and no node crashes  *)
(* in a term it has not saved; the runs RaftStaleRound and RaftUnsavedTerm *)
(* show that both are needed.                                              *)
(***************************************************************************)
EXTENDS RaftElectionProofs, RaftCountingProofs, RaftStoringProofs, RaftRefinement

-----------------------------------------------------------------------------
(* The invariant, and what follows from it *)

(***************************************************************************)
(* Every step keeps the invariant, one case per handler and per section of *)
(* the run loop.                                                           *)
(***************************************************************************)
LEMMA SafeStep ==
    ASSUME Steady, SafeInv, LogInv', [Next]_vars
    PROVE  SafeInv'
<1>0. /\ ElectionInv /\ ElectionInv' /\ LeadersElected /\ LeadersElected'
  BY Zenon DEF SafeInv, LogInv
<1>1. TermsGrow /\ ElectionsNew /\ ElectedKept
  BY <1>0, StepsForward, FiniteFactsHold, Zenon
<1>2. PICK D \in SUBSET (Nat \ {0}), H \in [Nat -> Seq(Entry)], A \in [Server -> [Nat -> Nat]] :
        Records(D, H, A)
  BY Zenon DEF SafeInv
<1>3. From(D, H, A)
  BY <1>0, <1>1, <1>2, Zenon DEF From, Recorded
<1> DEFINE Goal == \E E, G, B : Recorded(E, G, B) /\ Records(E, G, B)'
<1>4. ASSUME Records(D, H, A)' PROVE Goal
  BY <1>3, <1>4, Zenon DEF From
<1>5. ASSUME UNCHANGED vars PROVE Goal
  <2>1. /\ UNCHANGED <<currentTerm, role, log, committed, commitIndex, matchIndex, loop,
                       voteReqs, appendReqs, votes>>
    BY <1>5, Zenon DEF vars, nodeVars, logVars, peerVars
  <2>2. LeadersStay /\ NoNewElection /\ Rounds(D, A)'
    BY <1>2, <2>1, Zenon DEF LeadersStay, NoNewElection, Records, Rounds
  <2>3. Records(D, H, A)'
    BY <1>3, <2>1, <2>2, QuietKeeps, FiniteFactsHold, Zenon
  <2> QED
    BY <1>4, <2>3, Zenon
<1>6. ASSUME NEW i \in Server, RunCandidateStep(i) PROVE Goal
  <2>1. ~AbortElection(i)
    BY Zenon DEF Steady, Orderly, AbortElection
  <2>2. ASSUME StartElection(i) PROVE Goal
    <3>1. CASE IsQuorum({i})
      BY <1>1, <1>3, <2>2, <3>1, StartAloneSafe, FiniteFactsHold, Zenon
    <3>2. CASE ~IsQuorum({i})
      <4>1. Records(D, H, A)'
        BY <1>1, <1>3, <2>2, <3>2, StartElectionSafe, FiniteFactsHold, Zenon
      <4> QED
        BY <1>4, <4>1, Zenon
    <3> QED
      BY <3>1, <3>2, Zenon
  <2>3. ASSUME NEW m \in loop[i].ballots, CollectVote(i, m) PROVE Goal
    <3>1. CASE role'[i] = Leader /\ role[i] # Leader
      BY <1>1, <1>3, <2>3, <3>1, WinElectionSafe, FiniteFactsHold, Zenon
    <3>2. CASE role'[i] # Leader \/ role[i] = Leader
      <4>1. Records(D, H, A)'
        BY <1>3, <2>3, <3>2, CountVoteSafe, FiniteFactsHold, Zenon
      <4> QED
        BY <1>4, <4>1, Zenon
    <3> QED
      BY <3>1, <3>2, Zenon
  <2>4. ASSUME EndElection(i) \/ \E m \in loop[i].ballots : AdoptVoteReplyTerm(i, m) PROVE Goal
    <3>1. Records(D, H, A)'
      BY <1>3, <2>4, QuietOtherStep, FiniteFactsHold, Zenon
    <3> QED
      BY <1>4, <3>1, Zenon
  <2> HIDE DEF Goal
  <2> QED
    BY <1>6, <2>1, <2>2, <2>3, <2>4, Zenon DEF RunCandidateStep
<1>7. ASSUME NEW i \in Server, RunLeaderStep(i) PROVE Goal
  <2>1. Records(D, H, A)'
    BY <1>3, <1>7, QuietLeaderStep, SendHeartbeatsSafe, CollectSuccessSafe, FiniteFactsHold, Zenon
       DEF RunLeaderStep
  <2> QED
    BY <1>4, <2>1, Zenon
<1>8. ASSUME NEW i \in Server, NEW m \in voteReqs, HandleRequestVote(i, m) PROVE Goal
  <2>1. Records(D, H, A)'
    BY <1>3, <1>8, HandleRequestVoteSafe, FiniteFactsHold, Zenon
  <2> QED
    BY <1>4, <2>1, Zenon
<1>9. ASSUME NEW i \in Server, NEW m \in appendReqs, HandleAppendEntries(i, m) PROVE Goal
  <2>1. ASSUME RejectStaleAppend(i, m) \/ RejectMissing(i, m) \/ RejectConflict(i, m) PROVE Goal
    <3>1. Records(D, H, A)'
      BY <1>3, <2>1, RejectAppendSafe, FiniteFactsHold, Zenon
    <3> QED
      BY <1>4, <3>1, Zenon
  <2>2. ASSUME AcceptEntries(i, m) PROVE Goal
    BY <1>3, <2>2, AcceptEntriesSafe, FiniteFactsHold, Zenon
  <2>3. ASSUME FailToStore(i, m) PROVE Goal
    BY <1>3, <2>3, FailToStoreSafe, FiniteFactsHold, Zenon
  <2> HIDE DEF Goal
  <2> QED
    BY <1>9, <2>1, <2>2, <2>3, Zenon DEF HandleAppendEntries
<1>10. ASSUME NEW i \in Server, NEW c \in Command, Propose(i, c) PROVE Goal
  BY <1>3, <1>10, ProposeSafe, FiniteFactsHold, Zenon
<1>11. ASSUME NEW i \in Server, Restart(i) PROVE Goal
  <2>1. Records(D, H, A)'
    BY <1>3, <1>11, QuietOtherStep, FiniteFactsHold, Zenon
  <2> QED
    BY <1>4, <2>1, Zenon
<1> HIDE DEF Goal
<1>12. Goal
  BY <1>5, <1>6, <1>7, <1>8, <1>9, <1>10, <1>11, Zenon DEF Next
<1>13. PICK E, G, B : Recorded(E, G, B) /\ Records(E, G, B)'
  BY <1>12, Zenon DEF Goal
<1> QED
  BY <1>13, Zenon DEF SafeInv, Recorded

(***************************************************************************)
(* The invariant holds while every round is sent by a Leader and every     *)
(* term is saved before a crash.                                           *)
(***************************************************************************)
THEOREM SafeInvariant ==
    ASSUME Steady
    PROVE  Spec => []SafeInv
<1>0. Orderly
  BY Zenon DEF Steady
<1>1. Init /\ LogInv => SafeInv
  <2> SUFFICES ASSUME Init, LogInv PROVE SafeInv
    BY Zenon
  <2> DEFINE H == [t \in Nat |-> << >>]
             A == [j \in Server |-> [t \in Nat |-> 0]]
  <2>1. << >> \in Seq(Entry) /\ Len(<< >>) = 0
    OBVIOUS
  <2>2. H \in [Nat -> Seq(Entry)] /\ A \in [Server -> [Nat -> Nat]]
    BY <2>1, Zenon
  <2> HIDE DEF H, A
  <2>3. /\ \A i \in Server : log[i] = << >> /\ commitIndex[i] = 0 /\ role[i] # Leader
                             /\ loop[i] = Idle
        /\ appendReqs = {} /\ voteReqs = {} /\ votes = {} /\ committed = << >>
    BY Zenon DEF Init, Leader, Follower
  <2>4. Leaders({}, H, A)
    BY <2>3, Zenon DEF Leaders
  <2>5. Logs({}, H)
    <3>1. \A k : k \notin 1..0
      OBVIOUS
    <3> QED
      BY <2>1, <2>3, <3>1, Zenon DEF Logs, Made
  <2>6. Stored({}, H, A) /\ Complete({}, H, A) /\ Requests({}, H, A)
    BY <2>3, Zenon DEF Stored, Complete, Requests
  <2>7. Rounds({}, A)
    BY <2>3, IdleRound, Zenon DEF Rounds
  <2>8. Ballots({}, H, A)
    <3>1. Idle.at = "idle"
      BY Zenon DEF Idle, LoopAt
    <3> QED
      BY <2>3, <3>1, Zenon DEF Ballots
  <2>9. Commits({}, H, A)
    <3>1. Backed({}, H, A)
      BY <2>3, Zenon DEF Backed
    <3>2. \A i \in Server : /\ Certified({}, H, A, currentTerm[i], commitIndex[i])
                            /\ commitIndex[i] <= Len(committed)
                            /\ Same(log[i], committed, commitIndex[i])
      BY <2>1, <2>3 DEF Certified, Same
    <3> QED
      BY <3>1, <3>2, Zenon DEF Commits
  <2>10. Records({}, H, A)
    BY <2>4, <2>5, <2>6, <2>7, <2>8, <2>9, Zenon DEF Records
  <2>11. {} \in SUBSET (Nat \ {0})
    BY Zenon
  <2> QED
    BY <2>2, <2>10, <2>11, Zenon DEF SafeInv
<1>2. SafeInv /\ LogInv' /\ [Next]_vars => SafeInv'
  BY SafeStep, Zenon
<1> QED
  BY <1>0, <1>1, <1>2, LogInvariant, PTL DEF Spec


(***************************************************************************)
(* Sharing a beginning in the words of IsPrefix.                           *)
(***************************************************************************)
LEMMA SamePrefix ==
    ASSUME NEW l \in Seq(Entry), NEW g \in Seq(Entry), NEW n \in Nat, Same(l, g, n)
    PROVE  IsPrefix(SubSeq(l, 1, n), g)
<1>1. n <= Len(l) /\ n <= Len(g)
  BY Zenon DEF Same
<1>2. SubSeq(l, 1, n) = SubSeq(g, 1, n)
  BY SameBeginning, Zenon
<1>3. /\ SubSeq(l, 1, n) \in Seq(Entry) /\ Len(SubSeq(l, 1, n)) = n
      /\ Same(SubSeq(l, 1, n), l, n)
  BY <1>1, BeginningSame, Zenon
<1>4. SubSeq(SubSeq(l, 1, n), 1, n) = SubSeq(l, 1, n)
  BY <1>3, SameBeginning, Zenon
<1> QED
  BY <1>1, <1>2, <1>3, <1>4, Zenon DEF IsPrefix

(***************************************************************************)
(* A log that another one starts with is a prefix of it.                   *)
(***************************************************************************)
LEMMA WholePrefix ==
    ASSUME NEW l \in Seq(Entry), NEW g \in Seq(Entry), Same(l, g, Len(l))
    PROVE  IsPrefix(l, g)
<1>1. Len(l) \in Nat /\ Len(l) <= Len(g)
  BY LenProperties, Zenon DEF Same
<1>2. SubSeq(l, 1, Len(l)) = SubSeq(g, 1, Len(l))
  BY <1>1, SameBeginning, Zenon
<1> QED
  BY <1>1, <1>2, Zenon DEF IsPrefix

(***************************************************************************)
(* No node believes an entry to be committed that another node will ever   *)
(* replace: what the apply loops are handed is one log, for any number of  *)
(* nodes, whoever leads when, with lost, late and repeated messages,       *)
(* crashes and failing log stores.                                         *)
(***************************************************************************)
THEOREM CommittedForGood ==
    ASSUME Steady
    PROVE  Spec => []StateMachineSafety
<1>1. SafeInv => StateMachineSafety
  <2> SUFFICES ASSUME SafeInv, NEW i \in Server
               PROVE  commitIndex[i] <= Len(log[i]) /\ IsPrefix(CommittedPrefix(i), committed)
    BY Zenon DEF StateMachineSafety
  <2>1. PICK D, H, A : Records(D, H, A)
    BY Zenon DEF SafeInv
  <2>2. log[i] \in Seq(Entry) /\ committed \in Seq(Entry) /\ commitIndex[i] \in Nat
    BY Zenon DEF SafeInv, LogInv, ElectionInv, TypeOK
  <2>3. Same(log[i], committed, commitIndex[i])
    BY <2>1, Zenon DEF Records, Commits
  <2>4. IsPrefix(SubSeq(log[i], 1, commitIndex[i]), committed)
    BY <2>2, <2>3, SamePrefix, Zenon
  <2> QED
    BY <2>3, <2>4, Zenon DEF CommittedPrefix, Same
<1> QED
  BY <1>1, SafeInvariant, PTL

(***************************************************************************)
(* A Leader that is not of an earlier term than the last committed entry   *)
(* has every committed entry: the vote rule of HandleRequestVote and the   *)
(* commit rule of maybeAdvanceCommitIndex together see to it.              *)
(***************************************************************************)
THEOREM LeadersHaveCommitted ==
    ASSUME Steady
    PROVE  Spec => []LeaderCompleteness
<1>1. SafeInv => LeaderCompleteness
  <2> SUFFICES ASSUME SafeInv, NEW i \in Server, role[i] = Leader,
                      currentTerm[i] >= LastTerm(committed)
               PROVE  IsPrefix(committed, log[i])
    BY Zenon DEF LeaderCompleteness
  <2> DEFINE n == Len(committed)
             u == currentTerm[i]
  <2>1. log[i] \in Seq(Entry) /\ committed \in Seq(Entry) /\ n \in Nat /\ u \in Nat
    BY LenProperties, Zenon DEF SafeInv, LogInv, ElectionInv, TypeOK
  <2>2. PICK D, H, A : Recorded(D, H, A) /\ Records(D, H, A)
    BY Zenon DEF SafeInv, Recorded
  <2>3. Leaders(D, H, A) /\ Complete(D, H, A) /\ Backed(D, H, A)
    BY <2>2, Zenon DEF Records, Commits
  <2>4. CASE committed = << >>
    <3>1. n = 0 /\ Len(log[i]) \in Nat
      BY <2>1, <2>4, LenProperties, Zenon
    <3>2. Same(committed, log[i], n)
      BY <3>1 DEF Same
    <3> QED
      BY <2>1, <3>2, WholePrefix, Zenon
  <2>5. CASE committed # << >>
    <3>1. PICK t \in D : Own(H, t, n) /\ Accepted(A, t, n) /\ Same(H[t], committed, n)
      BY <2>3, <2>5, Zenon DEF Backed
    <3>2. n \in 1..Len(H[t]) /\ H[t][n].term = t
      BY <3>1, Zenon DEF Own
    <3>3. u \in D /\ log[i] = H[u]
      BY <2>3, Zenon DEF Leaders
    <3>4. t <= u
      <4>1. n \in 1..n /\ committed[n] = H[t][n]
        BY <2>1, <3>1, <3>2, SMTT(30) DEF Same
      <4>2. LastTerm(committed) = t
        BY <3>2, <4>1, Zenon DEF LastTerm, TermAt
      <4>3. t \in Nat
        BY <2>2, RecordNumbers, Zenon
      <4> QED
        BY <2>1, <4>2, <4>3, ZenonT(30)
    <3>5. Same(H[u], H[t], n)
      BY <2>2, <2>3, <3>1, <3>2, <3>3, <3>4, CertifiedHeld, FiniteFactsHold, Zenon
    <3>6. Same(committed, log[i], n)
      BY <3>1, <3>3, <3>5, SameJoins, SameSwaps, Zenon
    <3> QED
      BY <2>1, <3>6, WholePrefix, Zenon
  <2> QED
    BY <2>4, <2>5, Zenon
<1> QED
  BY <1>1, SafeInvariant, PTL

(***************************************************************************)
(* A quorum of the disks has every committed entry, and no later           *)
(* truncation by HandleAppendEntries takes one away from it.               *)
(***************************************************************************)
THEOREM CommittedStaysStored ==
    ASSUME Steady, Server # {}
    PROVE  Spec => []CommittedOnQuorum
<1>1. SafeInv => CommittedOnQuorum
  <2> SUFFICES ASSUME SafeInv PROVE CommittedOnQuorum
    BY Zenon
  <2> DEFINE n == Len(committed)
             Q == {i \in Server : IsPrefix(committed, log[i])}
  <2>1. TypeOK /\ committed \in Seq(Entry) /\ n \in Nat
    BY LenProperties, Zenon DEF SafeInv, LogInv, ElectionInv, TypeOK
  <2>2. PICK D, H, A : Recorded(D, H, A) /\ Records(D, H, A)
    BY Zenon DEF SafeInv, Recorded
  <2>3. Stored(D, H, A) /\ Backed(D, H, A)
    BY <2>2, Zenon DEF Records, Commits
  <2>4. \A i \in Server : log[i] \in Seq(Entry)
    BY <2>1, Zenon DEF TypeOK
  <2>5. CASE committed = << >>
    <3>1. \A i \in Server : Len(log[i]) \in Nat
      BY <2>4, LenProperties, Zenon
    <3>2. \A i \in Server : Same(committed, log[i], n)
      BY <2>5, <3>1, SMTT(30) DEF Same
    <3>3. Q = Server
      BY <2>1, <2>4, <3>2, WholePrefix, Zenon
    <3>4. IsQuorum(Server)
      <4>1. Cardinality(Server) \in Nat /\ Cardinality(Server) # 0
        BY ServerAssumption, FS_CardinalityType, FS_EmptySet, Zenon
      <4> QED
        BY <4>1, SMTT(30) DEF IsQuorum
    <3> QED
      BY <3>3, <3>4, Zenon DEF CommittedOnQuorum
  <2>6. CASE committed # << >>
    <3>1. PICK t \in D : Own(H, t, n) /\ Accepted(A, t, n) /\ Same(H[t], committed, n)
      BY <2>3, <2>6, ZenonT(30) DEF Backed
    <3> DEFINE S == {j \in Server : A[j][t] >= n}
    <3>2. Choosable(A, t, n) /\ n \in 1..Len(H[t])
      BY <3>1, AcceptedChoosable, FiniteFactsHold, Zenon DEF Own
    <3>3. ASSUME NEW j \in S PROVE IsPrefix(committed, log[j])
      <4>1. A[j][t] \in Nat /\ A[j][t] >= n /\ j \in Server
        BY <2>2, RecordNumbers, Zenon
      <4>2. n \in 1..A[j][t]
        BY <2>1, <3>2, <4>1, SMTT(30)
      <4>3. Same(log[j], H[t], n)
        BY <2>3, <3>1, <3>2, <4>1, <4>2, Zenon DEF Stored
      <4>4. Same(committed, log[j], n)
        BY <3>1, <4>3, SameJoins, SameSwaps, Zenon
      <4> QED
        BY <2>1, <2>4, <4>1, <4>4, WholePrefix, Zenon
    <3>4. S \in SUBSET Server /\ Q \in SUBSET Server /\ S \subseteq Q /\ IsQuorum(S)
      BY <3>1, <3>3, Zenon DEF Accepted
    <3> HIDE DEF S, Q
    <3>5. IsQuorum(Q)
      BY <3>4, QuorumGrows, FiniteFactsHold, Zenon
    <3> QED
      BY <3>5, Zenon DEF CommittedOnQuorum, Q
  <2> QED
    BY <2>5, <2>6, Zenon
<1> QED
  BY <1>1, SafeInvariant, PTL

(***************************************************************************)
(* The matchIndex of runLeader never promises more than the follower has:  *)
(* late and repeated replies of earlier rounds included.                   *)
(***************************************************************************)
THEOREM BelievedIsStored ==
    ASSUME Steady
    PROVE  Spec => []MatchIndexSound
<1>1. SafeInv => MatchIndexSound
  <2> SUFFICES ASSUME SafeInv, NEW i \in Server, NEW j \in Server,
                      loop[i].at \in {"sending", "round"}, StillLeader(i),
                      currentTerm[j] = currentTerm[i]
               PROVE  IsPrefix(SubSeq(log[i], 1, matchIndex[i][j]), log[j])
    BY Zenon DEF MatchIndexSound
  <2> DEFINE n == matchIndex[i][j]
             u == currentTerm[i]
  <2>1. log[i] \in Seq(Entry) /\ log[j] \in Seq(Entry) /\ n \in Nat
    BY DEF SafeInv, LogInv, ElectionInv, TypeOK
  <2>2. PICK D, H, A : Recorded(D, H, A) /\ Records(D, H, A)
    BY Zenon DEF SafeInv, Recorded
  <2>3. Leaders(D, H, A) /\ Stored(D, H, A) /\ Rounds(D, A)
    BY <2>2, Zenon DEF Records
  <2>4. role[i] = Leader /\ loop[i].term = u
    BY Zenon DEF StillLeader
  <2>5. u \in D /\ log[i] = H[u]
    BY <2>3, <2>4, Zenon DEF Leaders
  <2>6. n <= A[j][u]
    BY <2>3, <2>4, Zenon DEF Rounds, RoundTrue
  <2>7. Same(log[j], H[u], A[j][u])
    BY <2>3, <2>5, Zenon DEF Stored
  <2>8. A[j][u] \in Nat /\ Len(H[u]) \in Nat /\ Len(log[j]) \in Nat
    BY <2>1, <2>2, <2>5, RecordNumbers, LenProperties, Zenon
  <2>9. Same(log[i], log[j], n)
    BY <2>1, <2>5, <2>6, <2>7, <2>8, SameShorter, SameSwaps, Zenon
  <2> QED
    BY <2>1, <2>9, SamePrefix, Zenon
<1> QED
  BY <1>1, SafeInvariant, PTL


-----------------------------------------------------------------------------
(* The log of the group *)

(***************************************************************************)
(* What the nodes know are beginnings of the log of the group: the entries *)
(* up to a node's commitIndex are the first ones anybody committed.        *)
(***************************************************************************)
Beginnings ==
    /\ committed \in Seq(Entry) /\ Len(committed) \in Nat
    /\ \A i \in Server : /\ commitIndex[i] \in Nat /\ commitIndex[i] <= Len(committed)
                         /\ CommittedPrefix(i) = SubSeq(committed, 1, commitIndex[i])

(***************************************************************************)
(* The records of SafeInv give it: what a node believes to be committed is *)
(* a beginning of the longest committed log.                               *)
(***************************************************************************)
LEMMA ViewsAreBeginnings == SafeInv => Beginnings
<1> SUFFICES ASSUME SafeInv PROVE Beginnings
  BY Zenon
<1>1. /\ committed \in Seq(Entry) /\ Len(committed) \in Nat
      /\ \A i \in Server : log[i] \in Seq(Entry) /\ commitIndex[i] \in Nat
  BY LenProperties, Zenon DEF SafeInv, LogInv, ElectionInv, TypeOK
<1>2. PICK D, H, A : Records(D, H, A)
  BY Zenon DEF SafeInv
<1>3. ASSUME NEW i \in Server
      PROVE  /\ commitIndex[i] <= Len(committed)
             /\ CommittedPrefix(i) = SubSeq(committed, 1, commitIndex[i])
  <2>1. commitIndex[i] <= Len(committed) /\ Same(log[i], committed, commitIndex[i])
    BY <1>2, Zenon DEF Records, Commits
  <2>2. SubSeq(log[i], 1, commitIndex[i]) = SubSeq(committed, 1, commitIndex[i])
    BY <1>1, <2>1, SameBeginning, Zenon
  <2> QED
    BY <2>1, <2>2, Zenon DEF CommittedPrefix
<1> QED
  BY <1>1, <1>3, Zenon DEF Beginnings

(***************************************************************************)
(* A step that commits nothing is no step of the group's log, whatever it  *)
(* does to the logs of the nodes.                                          *)
(***************************************************************************)
LEMMA QuietIsStutter ==
    ASSUME SafeInv, SafeInv', UNCHANGED <<commitIndex, committed>>
    PROVE  UNCHANGED <<committed, View>>
<1>1. \A i \in Server : CommittedPrefix(i) = SubSeq(committed, 1, commitIndex[i])
  BY ViewsAreBeginnings, Zenon DEF Beginnings
<1>2. Beginnings'
  BY ViewsAreBeginnings, PTL
<1>3. \A i \in Server : CommittedPrefix(i)' = CommittedPrefix(i)
  BY <1>1, <1>2, Zenon DEF Beginnings
<1> QED
  BY <1>3, Zenon DEF View

(***************************************************************************)
(* The log of the group grows at its end.                                  *)
(***************************************************************************)
LEMMA GroupLogGrows ==
    ASSUME NEW D, NEW H, NEW A, From(D, H, A), Records(D, H, A)', Len(committed) <= Len(committed')
    PROVE  Same(committed, committed', Len(committed))
<1> DEFINE c == Len(committed)
           n == Len(committed')
<1>0. /\ TypeOK /\ TypeOK' /\ Recorded(D, H, A) /\ Complete(D, H, A) /\ Backed(D, H, A)
      /\ Backed(D, H, A)'
  BY FromEvolves, Zenon DEF From, Records, Commits
<1>1. committed \in Seq(Entry) /\ c \in Nat /\ committed' \in Seq(Entry) /\ n \in Nat
  BY <1>0, LenProperties, Zenon DEF TypeOK
<1>2. CASE committed = << >>
  BY <1>1, <1>2, SMTT(30) DEF Same
<1>3. CASE committed # << >>
  <2>0. c # 0 /\ committed' # << >>
    BY <1>1, <1>3, SMTT(30)
  <2>1. PICK s \in D : Own(H, s, c) /\ Accepted(A, s, c) /\ Same(H[s], committed, c)
    BY <1>0, <1>3, ZenonT(30) DEF Backed
  <2>2. PICK t \in D : Own(H, t, n) /\ Accepted(A, t, n) /\ Same(H[t], committed', n)
    BY <1>0, <2>0, ZenonT(30) DEF Backed
  <2>3. c \in 1..Len(H[s]) /\ n \in 1..Len(H[t]) /\ Len(H[t]) \in Nat /\ c <= n /\ c <= c
    BY <1>0, <1>1, <2>1, <2>2, RecordNumbers, SMTT(30) DEF Own
  <2> HIDE DEF c, n
  <2>4. Same(H[s], H[t], c)
    BY <1>0, <1>1, <2>1, <2>2, <2>3, CertifiedAgree, FiniteFactsHold, Zenon
  <2>5. Same(H[t], committed', c)
    BY <1>1, <2>2, <2>3, SameShorter, Zenon DEF n
  <2>6. Same(committed, committed', c)
    BY <2>1, <2>4, <2>5, SameJoins, SameSwaps, Zenon
  <2> QED
    BY <2>6, Zenon DEF c
<1> QED
  BY <1>2, <1>3, Zenon

(***************************************************************************)
(* Both specifications mean the same by a prefix.                          *)
(***************************************************************************)
LEMMA OnePrefix ==
    ASSUME NEW s, NEW t, IsPrefix(s, t)
    PROVE  Abstract!IsPrefix(s, t)
BY Zenon DEF IsPrefix, Abstract!IsPrefix

(***************************************************************************)
(* A node whose commit index advances learns more of that log.             *)
(***************************************************************************)
LEMMA AdvanceIsLearn ==
    ASSUME SafeInv, SafeInv', NEW i \in Server, NEW n,
           commitIndex' = [commitIndex EXCEPT ![i] = n], commitIndex[i] <= n,
           RecordCommit(i), Same(committed, committed', Len(committed))
    PROVE  Abstract!Learn(i)
<1>1. /\ committed \in Seq(Entry) /\ Len(committed) \in Nat
      /\ \A j \in Server : /\ commitIndex[j] \in Nat /\ commitIndex[j] <= Len(committed)
                           /\ CommittedPrefix(j) = SubSeq(committed, 1, commitIndex[j])
  BY ViewsAreBeginnings, Zenon DEF Beginnings
<1>2. /\ committed' \in Seq(Entry) /\ Len(committed') \in Nat
      /\ \A j \in Server : /\ commitIndex'[j] \in Nat /\ commitIndex'[j] <= Len(committed')
                           /\ CommittedPrefix(j)' = SubSeq(committed', 1, commitIndex'[j])
  <2>1. Beginnings'
    BY ViewsAreBeginnings, PTL
  <2> QED
    BY <2>1, Zenon DEF Beginnings
<1>3. commitIndex'[i] = n /\ \A j \in Server \ {i} : commitIndex'[j] = commitIndex[j]
  BY DEF SafeInv, LogInv, ElectionInv, TypeOK
<1>4. \A j \in Server : CommittedPrefix(j) = SubSeq(committed', 1, commitIndex[j])
  <2> SUFFICES ASSUME NEW j \in Server
               PROVE  SubSeq(committed, 1, commitIndex[j]) = SubSeq(committed', 1, commitIndex[j])
    BY <1>1, Zenon
  <2>1. Same(committed, committed', commitIndex[j])
    BY <1>1, <1>2, SameShorter, Zenon
  <2> QED
    BY <1>1, <1>2, <2>1, SameBeginning, Zenon
<1>5. IsPrefix(CommittedPrefix(i), CommittedPrefix(i)')
  <2> DEFINE c == commitIndex[i]
             g == SubSeq(committed', 1, n)
  <2>1. c \in Nat /\ n \in Nat /\ c <= n /\ n <= Len(committed')
    BY <1>1, <1>2, <1>3, Zenon
  <2>2. g \in Seq(Entry) /\ Len(g) = n /\ Same(g, committed', n)
    BY <1>2, <2>1, BeginningSame, Zenon
  <2> HIDE DEF c, g
  <2>3. Same(committed', g, c)
    BY <1>2, <2>1, <2>2, SameShorter, SameSwaps, Zenon
  <2>4. IsPrefix(SubSeq(committed', 1, c), g)
    BY <1>2, <2>1, <2>2, <2>3, SamePrefix, Zenon
  <2> QED
    BY <1>2, <1>3, <1>4, <2>4, Zenon DEF c, g
<1>6. IsPrefix(CommittedPrefix(i)', committed')
  <2>1. n \in Nat /\ n <= Len(committed')
    BY <1>2, <1>3, Zenon
  <2>2. Same(committed', committed', n)
    BY <1>2, <2>1, Zenon DEF Same
  <2> QED
    BY <1>2, <1>3, <2>1, <2>2, SamePrefix, Zenon
<1>7. IsPrefix(committed, committed')
  BY <1>1, <1>2, WholePrefix, Zenon
<1>8. committed' \in {committed, CommittedPrefix(i)'}
  BY Zenon DEF RecordCommit, CommittedPrefix
<1>9. \A j \in Server \ {i} : CommittedPrefix(j)' = CommittedPrefix(j)
  BY <1>2, <1>3, <1>4, Zenon
<1>10. \A j \in Server : View[j] = CommittedPrefix(j) /\ View'[j] = CommittedPrefix(j)'
  BY Zenon DEF View
<1>11. Abstract!OthersKeep(i)
  BY <1>9, <1>10, Zenon DEF Abstract!OthersKeep
<1>12. /\ Abstract!IsPrefix(CommittedPrefix(i), CommittedPrefix(i)')
       /\ Abstract!IsPrefix(CommittedPrefix(i)', committed')
       /\ Abstract!IsPrefix(committed, committed')
  BY <1>5, <1>6, <1>7, OnePrefix, Zenon
<1> QED
  BY <1>8, <1>10, <1>11, <1>12, Zenon DEF Abstract!Learn

(***************************************************************************)
(* Records that describe a step, taken from the invariant.                 *)
(***************************************************************************)
LEMMA RecordsOfStep ==
    ASSUME Steady, SafeInv, SafeInv', [Next]_vars
    PROVE  \E D, H, A : From(D, H, A)
<1>1. ElectionInv /\ ElectionInv' /\ LeadersElected /\ LeadersElected'
  BY Zenon DEF SafeInv, LogInv
<1>2. TermsGrow /\ ElectedKept
  BY <1>1, StepsForward, FiniteFactsHold, Zenon
<1>3. PICK D \in SUBSET (Nat \ {0}), H \in [Nat -> Seq(Entry)], A \in [Server -> [Nat -> Nat]] :
        Records(D, H, A)
  BY Zenon DEF SafeInv
<1>4. From(D, H, A)
  BY <1>1, <1>2, <1>3, Zenon DEF From, Recorded
<1> QED
  BY <1>4, Zenon

(***************************************************************************)
(* What RecordCommit records is never shorter than what was recorded.      *)
(***************************************************************************)
LEMMA RecordedOnlyGrows ==
    ASSUME TypeOK, TypeOK', NEW i \in Server, RecordCommit(i), commitIndex'[i] <= Len(log'[i])
    PROVE  Len(committed) <= Len(committed')
<1>1. /\ committed \in Seq(Entry) /\ log'[i] \in Seq(Entry) /\ commitIndex'[i] \in Nat
  BY Zenon DEF TypeOK
<1>2. Len(committed) \in Nat
  BY <1>1, LenProperties, Zenon
<1>3. CASE commitIndex'[i] > Len(committed)
  <2>1. committed' = SubSeq(log'[i], 1, commitIndex'[i])
    BY <1>3, Zenon DEF RecordCommit
  <2>2. Len(committed') = commitIndex'[i]
    BY <1>1, <2>1, BeginningSame, Zenon
  <2> QED
    BY <1>1, <1>2, <1>3, <2>2, SMTT(30)
<1>4. CASE ~(commitIndex'[i] > Len(committed))
  BY <1>2, <1>4, SMTT(30) DEF RecordCommit
<1> QED
  BY <1>3, <1>4, Zenon

(***************************************************************************)
(* A commit index lies within the log of its node.                         *)
(***************************************************************************)
CommitsInLog == \A i \in Server : commitIndex[i] <= Len(log[i])

(***************************************************************************)
(* So it is in every state of SafeInv: no commitIndex runs ahead of the    *)
(* entries that HandleAppendEntries has stored.                            *)
(***************************************************************************)
LEMMA CommitInLog == SafeInv => CommitsInLog
<1> SUFFICES ASSUME SafeInv, NEW i \in Server PROVE commitIndex[i] <= Len(log[i])
  BY Zenon DEF CommitsInLog
<1>1. PICK D, H, A : Records(D, H, A)
  BY Zenon DEF SafeInv
<1>2. Same(log[i], committed, commitIndex[i])
  BY <1>1, Zenon DEF Records, Commits
<1> QED
  BY <1>2, Zenon DEF Same

(***************************************************************************)
(* The leader's advances: of sendHeartbeats when it has no peers, and of   *)
(* the reply that completes a quorum.                                      *)
(***************************************************************************)
LEMMA LeaderAdvance ==
    ASSUME SafeInv, SafeInv', NEW D, NEW H, NEW A, From(D, H, A), Records(D, H, A)',
           NEW i \in Server, NEW T, NEW lastIdx \in Nat, NEW match, NEW n,
           n \in {commitIndex[i], AdvancedCommit(i, T, lastIdx, match)},
           commitIndex' = [commitIndex EXCEPT ![i] = n], RecordCommit(i)
    PROVE  Abstract!Learn(i)
<1>1. TypeOK /\ TypeOK'
  BY FromEvolves, Zenon
<1>2. commitIndex[i] \in Nat
  BY <1>1, Zenon DEF TypeOK
<1>3. commitIndex[i] <= n
  <2>1. CASE n = commitIndex[i]
    BY <1>2, <2>1, SMTT(30)
  <2>2. CASE n # commitIndex[i]
    <3>1. n = AdvancedCommit(i, T, lastIdx, match)
      BY <2>2, Zenon
    <3>2. n \in Nat /\ n > commitIndex[i]
      BY <1>1, <2>2, <3>1, AdvancedCommitTests, FiniteFactsHold, Zenon
    <3> QED
      BY <1>2, <3>2, SMTT(30)
  <2> QED
    BY <2>1, <2>2, Zenon
<1>4. CommitsInLog'
  BY CommitInLog, PTL
<1>5. Len(committed) <= Len(committed')
  BY <1>1, <1>4, RecordedOnlyGrows, Zenon DEF CommitsInLog
<1>6. Same(committed, committed', Len(committed))
  BY <1>5, GroupLogGrows, Zenon
<1> QED
  BY <1>3, <1>6, AdvanceIsLearn, Zenon

(***************************************************************************)
(* A follower's advance: what its leader says is committed has been.       *)
(***************************************************************************)
LEMMA FollowerAdvance ==
    ASSUME SafeInv, SafeInv', NEW D, NEW H, NEW A, From(D, H, A),
           NEW i \in Server, NEW m \in appendReqs, AcceptEntries(i, m)
    PROVE  Abstract!Learn(i)
<1> DEFINE l == MergeEntries(log[i], m.prevIndex, m.entries, Len(m.entries))
           c == commitIndex[i]
           n == IF m.commit > c THEN Min({m.commit, Len(l)}) ELSE c
<1>1. commitIndex' = [commitIndex EXCEPT ![i] = n] /\ log' = [log EXCEPT ![i] = l] /\ RecordCommit(i)
  BY Zenon DEF AcceptEntries
<1>2. TypeOK /\ TypeOK'
  BY Zenon DEF SafeInv, LogInv, ElectionInv
<1>3. /\ c \in Nat /\ committed \in Seq(Entry) /\ Len(committed) \in Nat /\ c <= Len(committed)
  BY ViewsAreBeginnings, Zenon DEF Beginnings
<1>4. Recorded(D, H, A) /\ Logs(D, H) /\ Requests(D, H, A) /\ PrevMatches(log[i], m)
  BY Zenon DEF From, Records, AcceptEntries
<1>5. m.commit <= Len(committed)
  BY <1>4, Zenon DEF Requests
<1>6. m.commit \in Nat
  BY <1>2, AppendReqFields, Zenon
<1>7. l \in Seq(Entry) /\ Len(l) \in Nat
  <2>1. log'[i] = l /\ log'[i] \in Seq(Entry)
    BY <1>1, <1>2, Zenon DEF TypeOK
  <2> QED
    BY <2>1, LenProperties, ZenonT(30)
<1>7a. m.commit <= Len(l)
  <2>1. PICK g \in Seq(Entry) : Matching(log[i], g, m.prevIndex, m.entries) /\ m.commit <= Len(g)
    BY <1>4, RequestMatches, Zenon
  <2>2. \A k \in 1..Len(log[i]) : log[i][k].term # 0
    BY <1>4, Zenon DEF Logs, Made, Recorded
  <2>3. Same(l, g, Len(g))
    BY <2>1, <2>2, AcceptHolds, FiniteFactsHold, Zenon
  <2>4. Len(g) \in Nat /\ Len(g) <= Len(l)
    BY <2>3, LenProperties, Zenon DEF Same
  <2> HIDE DEF l
  <2> QED
    BY <1>6, <1>7, <2>1, <2>4, SMTT(30)
<1>8. n \in Nat /\ c <= n /\ n <= Len(committed)
  <2>1. CASE ~(m.commit > c)
    BY <1>3, <2>1, SMTT(30)
  <2>2. CASE m.commit > c
    <3>1. n = Min({m.commit, Len(l)})
      BY <2>2, Zenon
    <3> DEFINE S == {m.commit, Len(l)}
    <3>2. S \in SUBSET Nat /\ S # {}
      BY <1>6, <1>7, Zenon
    <3>3. Min(S) \in S /\ \A x \in S : Min(S) <= x
      <4> HIDE DEF S
      <4> QED
        BY <3>2, MinOfNaturals, FiniteFactsHold, Zenon
    <3> HIDE DEF l, c, n
    <3>4. n \in {m.commit, Len(l)} /\ n <= m.commit
      BY <3>1, <3>3, Zenon
    <3> QED
      BY <1>3, <1>5, <1>6, <1>7, <1>7a, <2>2, <3>4, SMTT(30)
  <2> QED
    BY <2>1, <2>2, Zenon
<1>9. commitIndex'[i] = n
  BY <1>1, <1>2, Zenon DEF TypeOK
<1>10. committed' = committed
  BY <1>1, <1>3, <1>8, <1>9, SMTT(30) DEF RecordCommit
<1>11. Same(committed, committed', Len(committed))
  BY <1>3, <1>10, SMTT(30) DEF Same
<1> HIDE DEF n
<1> QED
  BY <1>1, <1>8, <1>11, AdvanceIsLearn, Zenon

(***************************************************************************)
(* A restarted node knows of nothing committed.                            *)
(***************************************************************************)
LEMMA RestartIsForget ==
    ASSUME SafeInv, NEW i \in Server, Restart(i)
    PROVE  Abstract!Forget(i)
<1>1. /\ commitIndex' = [commitIndex EXCEPT ![i] = 0] /\ UNCHANGED <<log, committed>>
      /\ commitIndex \in [Server -> Nat] /\ log[i] \in Seq(Entry)
  BY Zenon DEF Restart, SafeInv, LogInv, ElectionInv, TypeOK
<1>2. commitIndex'[i] = 0 /\ \A j \in Server \ {i} : commitIndex'[j] = commitIndex[j]
  BY <1>1, Zenon
<1>3. SubSeq(log[i], 1, 0) = << >>
  BY <1>1
<1>4. CommittedPrefix(i)' = << >> /\ \A j \in Server \ {i} : CommittedPrefix(j)' = CommittedPrefix(j)
  BY <1>1, <1>2, <1>3, Zenon DEF CommittedPrefix
<1>5. \A j \in Server : View[j] = CommittedPrefix(j) /\ View'[j] = CommittedPrefix(j)'
  BY Zenon DEF View
<1> QED
  BY <1>1, <1>4, <1>5, Zenon DEF Abstract!Forget, Abstract!OthersKeep

(***************************************************************************)
(* Every step of the nodes is a step of the group's log, or none.          *)
(***************************************************************************)
LEMMA StepRefines ==
    ASSUME Steady, SafeInv, SafeInv', [Next]_vars
    PROVE  Abstract!Next \/ UNCHANGED <<committed, View>>
<1> DEFINE Goal == Abstract!Next \/ UNCHANGED <<committed, View>>
<1>1. PICK D, H, A : From(D, H, A)
  BY RecordsOfStep, Zenon
<1>2. ASSUME UNCHANGED <<commitIndex, committed>> PROVE Goal
  BY <1>2, QuietIsStutter, Zenon
<1>3. ASSUME NEW i \in Server, Abstract!Learn(i) \/ Abstract!Forget(i) PROVE Goal
  BY <1>3, Zenon DEF Abstract!Next
<1> HIDE DEF Goal
<1>4. ASSUME UNCHANGED vars PROVE Goal
  BY <1>2, <1>4, Zenon DEF vars, logVars
<1>5. ASSUME NEW i \in Server, RunCandidateStep(i) PROVE Goal
  <2>1. UNCHANGED <<commitIndex, committed>>
    BY <1>5, Zenon DEF RunCandidateStep, StartElection, AbortElection, CollectVote, AdoptVoteReplyTerm,
                EndElection, logVars
  <2> QED
    BY <1>2, <2>1, Zenon
<1>6. ASSUME NEW i \in Server, RunLeaderStep(i) PROVE Goal
  <2>1. ASSUME SendHeartbeats(i) PROVE Goal
    <3> DEFINE n == IF {AppendEntriesTo(i, j) : j \in Peers(i)} = {} /\ StillLeader(i)
                    THEN AdvancedCommit(i, loop[i].term, Len(log[i]), matchIndex[i])
                    ELSE commitIndex[i]
    <3>1. commitIndex' = [commitIndex EXCEPT ![i] = n] /\ RecordCommit(i)
      BY <2>1, Zenon DEF SendHeartbeats
    <3>2. Records(D, H, A)'
      BY <1>1, <2>1, SendHeartbeatsSafe, FiniteFactsHold, Zenon
    <3>3. Len(log[i]) \in Nat
      BY LenProperties, Zenon DEF SafeInv, LogInv, ElectionInv, TypeOK
    <3>4. n \in {commitIndex[i], AdvancedCommit(i, loop[i].term, Len(log[i]), matchIndex[i])}
      BY Zenon
    <3> HIDE DEF n
    <3>5. Abstract!Learn(i)
      BY <1>1, <3>1, <3>2, <3>3, <3>4, LeaderAdvance, Zenon
    <3> QED
      BY <1>3, <3>5, Zenon
  <2>2. ASSUME NEW m \in loop[i].acks, CollectSuccess(i, m) PROVE Goal
    <3> DEFINE n == AdvancedCommit(i, loop[i].term, loop[i].last, matchIndex'[i])
    <3>1. commitIndex' = [commitIndex EXCEPT ![i] = n] /\ RecordCommit(i)
      BY <2>2, Zenon DEF CollectSuccess
    <3>2. Records(D, H, A)'
      BY <1>1, <2>2, CollectSuccessSafe, FiniteFactsHold, Zenon
    <3>3. loop[i].last \in Nat
      BY Zenon DEF SafeInv, LogInv, ElectionInv, TypeOK, Loop
    <3>4. n \in {commitIndex[i], AdvancedCommit(i, loop[i].term, loop[i].last, matchIndex'[i])}
      BY Zenon
    <3> HIDE DEF n
    <3>5. Abstract!Learn(i)
      BY <1>1, <3>1, <3>2, <3>3, <3>4, LeaderAdvance, Zenon
    <3> QED
      BY <1>3, <3>5, Zenon
  <2>3. ASSUME \/ RunLeader(i) \/ LeaveLeadership(i) \/ RoundTimeout(i)
               \/ \E m \in loop[i].acks : AdoptAppendReplyTerm(i, m) \/ CollectFailure(i, m)
        PROVE  Goal
    <3>1. UNCHANGED <<commitIndex, committed>>
      BY <2>3, Zenon DEF RunLeader, LeaveLeadership, RoundTimeout, AdoptAppendReplyTerm, CollectFailure,
                  logVars
    <3> QED
      BY <1>2, <3>1, Zenon
  <2> QED
    BY <1>6, <2>1, <2>2, <2>3, Zenon DEF RunLeaderStep
<1>7. ASSUME NEW i \in Server, NEW m \in voteReqs, HandleRequestVote(i, m) PROVE Goal
  <2>1. UNCHANGED <<commitIndex, committed>>
    BY <1>7, Zenon DEF HandleRequestVote, RefuseVote, GrantVote, logVars
  <2> QED
    BY <1>2, <2>1, Zenon
<1>8. ASSUME NEW i \in Server, NEW m \in appendReqs, HandleAppendEntries(i, m) PROVE Goal
  <2>1. ASSUME AcceptEntries(i, m) PROVE Goal
    <3>1. Abstract!Learn(i)
      BY <1>1, <2>1, FollowerAdvance, Zenon
    <3> QED
      BY <1>3, <3>1, Zenon
  <2>2. ASSUME ~AcceptEntries(i, m) PROVE Goal
    <3>1. UNCHANGED <<commitIndex, committed>>
      BY <1>8, <2>2, Zenon DEF HandleAppendEntries, RejectStaleAppend, RejectMissing, RejectConflict,
                        FailToStore, logVars
    <3> QED
      BY <1>2, <3>1, Zenon
  <2> QED
    BY <2>1, <2>2, Zenon
<1>9. ASSUME NEW i \in Server, NEW c \in Command, Propose(i, c) PROVE Goal
  <2>1. UNCHANGED <<commitIndex, committed>>
    BY <1>9, Zenon DEF Propose
  <2> QED
    BY <1>2, <2>1, Zenon
<1>10. ASSUME NEW i \in Server, Restart(i) PROVE Goal
  BY <1>3, <1>10, RestartIsForget, Zenon
<1>11. Goal
  BY <1>4, <1>5, <1>6, <1>7, <1>8, <1>9, <1>10, Zenon DEF Next
<1> QED
  BY <1>11, Zenon DEF Goal

(***************************************************************************)
(* The nodes implement one replicated log: while every round is sent by a  *)
(* Leader and every term is saved before a crash, each step of the         *)
(* handlers of RaftNode is a step of ReplicatedLog or leaves it alone.     *)
(***************************************************************************)
THEOREM NodesImplementLog ==
    ASSUME Steady
    PROVE  Spec => ImplementsReplicatedLog
<1>1. Init => Abstract!Init
  <2> SUFFICES ASSUME Init PROVE committed = << >> /\ View = [i \in Server |-> << >>]
    BY Zenon DEF Abstract!Init
  <2>1. committed = << >> /\ \A i \in Server : log[i] = << >> /\ commitIndex[i] = 0
    BY Zenon DEF Init
  <2>2. \A i \in Server : CommittedPrefix(i) = << >>
    BY <2>1 DEF CommittedPrefix
  <2> QED
    BY <2>1, <2>2, Zenon DEF View
<1>2. SafeInv /\ SafeInv' /\ [Next]_vars => [Abstract!Next]_<<committed, View>>
  BY StepRefines, Zenon
<1>3. Spec => []SafeInv
  BY SafeInvariant, Zenon
<1> QED
  BY <1>1, <1>2, <1>3, PTL DEF Spec, ImplementsReplicatedLog, Abstract!Spec
=============================================================================
