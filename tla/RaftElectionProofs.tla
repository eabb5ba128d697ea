------------------------- MODULE RaftElectionProofs -------------------------
(***************************************************************************)
(* RaftCore for every set of nodes and commands and all bounds.  First its *)
(* type correctness, under all switches; then election safety and log      *)
(* matching, when no vote reply is read late and Save does not fail.       *)
(* Nodes may crash at any moment, and rounds may be sent by a leader that  *)
(* has just been demoted.                                                  *)
(***************************************************************************)
EXTENDS RaftCore, RaftLogProofs, FiniteSetTheorems

(***************************************************************************)
(* They follow from the library: majorities of the finite set of nodes     *)
(* share a node, and the naturals are well-founded.                        *)
(***************************************************************************)
LEMMA FiniteFactsHold == FiniteFacts
<1>1. ASSUME NEW S \in SUBSET Server, NEW T \in SUBSET Server, IsQuorum(S), IsQuorum(T)
      PROVE  \E j \in Server : j \in S /\ j \in T
  <2>1. IsFiniteSet(Server) /\ Cardinality(Server) \in Nat
    BY ServerAssumption, FS_CardinalityType, Zenon
  <2>2. Cardinality(S) \in Nat /\ Cardinality(T) \in Nat
    BY <2>1, FS_Subset, FS_CardinalityType, Zenon
  <2>3. Cardinality(S) + Cardinality(T) > Cardinality(Server)
    BY <1>1, <2>1, <2>2 DEF IsQuorum
  <2>4. S \cap T # {}
    BY <2>1, <2>3, FS_MajoritiesIntersect, Zenon
  <2> QED
    BY <2>4, Zenon
<1>2. ASSUME NEW S \in SUBSET Server, NEW T \in SUBSET Server, IsQuorum(S), S \subseteq T
      PROVE  IsQuorum(T)
  <2>1. IsFiniteSet(Server) /\ Cardinality(Server) \in Nat
    BY ServerAssumption, FS_CardinalityType, Zenon
  <2>2. IsFiniteSet(T) /\ IsFiniteSet(S)
    BY <2>1, FS_Subset, Zenon
  <2>3. Cardinality(S) <= Cardinality(T) /\ Cardinality(S) \in Nat /\ Cardinality(T) \in Nat
    BY <1>2, <2>2, FS_Subset, FS_CardinalityType, Zenon
  <2> QED
    BY <1>2, <2>1, <2>3 DEF IsQuorum
<1>3. ASSUME NEW S \in SUBSET Nat, S # {}
      PROVE  Min(S) \in S /\ \A x \in S : Min(S) <= x
  <2> DEFINE R == {ss \in Nat \X Nat : ss[1] < ss[2]}
  <2>1. IsWellFoundedOn(R, Nat)
    BY NatLessThanWellFounded, Zenon DEF OpToRel
  <2>2. \E x \in S : \A y \in S : ~(<<y, x>> \in R)
    <3> HIDE DEF R
    <3> QED
      BY <1>3, <2>1, WFMin, Zenon
  <2>3. PICK x \in S : \A y \in S : ~(<<y, x>> \in R)
    BY <2>2, Zenon
  <2>4. ASSUME NEW y \in S
        PROVE  x <= y
    <3>1. y < x => <<y, x>> \in R
      BY Zenon
    <3> HIDE DEF R
    <3> QED
      BY <2>3, <3>1
  <2> QED
    BY <2>4, Zenon DEF Min
<1> QED
  BY <1>1, <1>2, <1>3, Zenon DEF FiniteFacts

(***************************************************************************)
(* Any stretch of a sequence that lies within it is a sequence.            *)
(***************************************************************************)
LEMMA SubSeqType ==
    ASSUME NEW S, NEW s \in Seq(S), NEW a \in Nat \ {0}, NEW b \in Int, b <= Len(s)
    PROVE  /\ SubSeq(s, a, b) \in Seq(S)
           /\ Len(SubSeq(s, a, b)) = IF a <= b THEN b - a + 1 ELSE 0
<1>1. \A k \in a..b : s[k] \in S
  BY ElementOfSeq, LenProperties
<1> QED
  BY <1>1, SubSeqProperties

(***************************************************************************)
(* The merged log is a sequence of entries, cut anywhere from the first    *)
(* new entry on.                                                           *)
(***************************************************************************)
LEMMA MergeType ==
    ASSUME NEW l \in Seq(Entry), NEW prev \in Nat, prev <= Len(l), NEW es \in Seq(Entry),
           NEW upTo \in Nat, upTo <= Len(es)
    PROVE  MergeEntries(l, prev, es, upTo) \in Seq(Entry)
<1> DEFINE k == FirstNew(l, prev, es)
<1>1. /\ k \in 1..(Len(es) + 1)
      /\ \A n \in 1..(k - 1) : prev + n <= Len(l)
  BY FirstNewType, FiniteFactsHold, Zenon
<1>2. Len(es) \in Nat /\ Len(l) \in Nat
  BY LenProperties, Zenon
<1>3. prev + k - 1 <= Len(l)
  <2>1. CASE k = 1
    BY <1>2, <2>1
  <2>2. CASE k # 1
    <3>1. k - 1 \in 1..(k - 1)
      BY <1>1, <1>2, <2>2
    <3> QED
      BY <1>1, <1>2, <3>1, Zenon
  <2> QED
    BY <2>1, <2>2, Zenon
<1>4. SubSeq(l, 1, prev + k - 1) \in Seq(Entry)
  BY <1>1, <1>2, <1>3, SubSeqType
<1>5. SubSeq(es, k, upTo) \in Seq(Entry)
  BY <1>1, <1>2, SubSeqType
<1>6. SubSeq(l, 1, prev + k - 1) \o SubSeq(es, k, upTo) \in Seq(Entry)
  BY <1>4, <1>5, ConcatProperties, Zenon
<1> QED
  BY <1>6, Zenon DEF MergeEntries

(***************************************************************************)
(* The new commit index is the old one, or an index of the log above it.   *)
(***************************************************************************)
LEMMA AdvancedCommitType ==
    ASSUME TypeOK, NEW i \in Server, NEW term, NEW lastIdx \in Nat, NEW match
    PROVE  LET c == AdvancedCommit(i, term, lastIdx, match) IN
           c = commitIndex[i] \/ c \in (commitIndex[i] + 1)..Len(log[i])
<1> DEFINE S == {commitIndex[i]} \cup
                {n \in (commitIndex[i] + 1)..lastIdx :
                   EntryOfTerm(i, n, term) /\ IsQuorum(StoredBy(i, n, match))}
<1>1. commitIndex[i] \in Nat /\ log[i] \in Seq(Entry)
  BY Zenon DEF TypeOK
<1>2. Len(log[i]) \in Nat
  BY <1>1, LenProperties, Zenon
<1> DEFINE b == commitIndex[i] + lastIdx
<1>3. S \in SUBSET Nat /\ S # {} /\ b \in Nat /\ \A x \in S : x <= b
  BY <1>1
<1>4. Max(S) \in S
  <2> HIDE DEF S, b
  <2> QED
    BY <1>3, MaxOfNaturals, FiniteFactsHold, Zenon
<1>5. \A n \in S : n = commitIndex[i] \/ n \in (commitIndex[i] + 1)..Len(log[i])
  BY <1>1, <1>2 DEF EntryOfTerm
<1>6. AdvancedCommit(i, term, lastIdx, match) = Max(S)
  BY Zenon DEF AdvancedCommit
<1> QED
  BY <1>4, <1>5, <1>6, Zenon

(***************************************************************************)
(* nextIndex never backs up below 1.                                       *)
(***************************************************************************)
LEMMA BackedUpType ==
    ASSUME NEW l \in Seq(Entry), NEW ci \in Nat, NEW ct \in Nat
    PROVE  BackedUp(l, ci, ct) \in Nat \ {0}
<1> DEFINE same == {k \in 1..Len(l) : l[k].term = ct}
<1>1. Len(l) \in Nat
  BY LenProperties, Zenon
<1>2. ASSUME same # {}
      PROVE  Max(same) \in Nat
  <2>1. same \in SUBSET Nat /\ \A x \in same : x <= Len(l)
    BY <1>1
  <2> HIDE DEF same
  <2> QED
    BY <1>1, <1>2, <2>1, MaxOfNaturals, FiniteFactsHold, Zenon
<1>3. BackedUp(l, ci, ct) = CASE ci = 0 -> 1
                              [] ci # 0 /\ (ct = 0 \/ same = {}) -> ci
                              [] OTHER -> Max(same) + 1
  BY Zenon DEF BackedUp
<1> HIDE DEF same
<1> QED
  BY <1>2, <1>3

(***************************************************************************)
(* The hint of a follower whose entry at prevLogIndex conflicts.           *)
(***************************************************************************)
LEMMA ConflictStartType ==
    ASSUME NEW l, NEW prev \in Nat \ {0}
    PROVE  ConflictStart(l, prev) \in Nat \ {0}
<1> DEFINE S == {k \in 1..prev : \A n \in k..prev : l[n].term = l[prev].term}
<1>1. prev \in S
  OBVIOUS
<1>2. S \in SUBSET Nat /\ S # {}
  BY <1>1
<1>3. Min(S) \in S
  <2> HIDE DEF S
  <2> QED
    BY <1>2, MinOfNaturals, FiniteFactsHold, Zenon
<1>4. ConflictStart(l, prev) = Min(S)
  BY Zenon DEF ConflictStart
<1> QED
  BY <1>3, <1>4

(***************************************************************************)
(* The term at any index, 0 outside the log.                               *)
(***************************************************************************)
LEMMA TermAtType ==
    ASSUME NEW l \in Seq(Entry), NEW k
    PROVE  TermAt(l, k) \in Nat
<1>1. ASSUME k \in 1..Len(l)
      PROVE  l[k] \in Entry
  BY <1>1, ElementOfSeq, Zenon
<1> QED
  BY <1>1, Zenon DEF TermAt, Entry

-----------------------------------------------------------------------------
(* Parts that several actions share *)

(***************************************************************************)
(* A reply to a RequestVote leaves the run loops well-typed.               *)
(***************************************************************************)
LEMMA AnswerVoteType ==
    ASSUME TypeOK, NEW m \in voteReqs, NEW reply \in VoteReply, AnswerVote(m, reply)
    PROVE  loop' \in [Server -> Loop]
<1>1. m \in VoteReq /\ m.from \in Server
  BY Zenon DEF TypeOK, VoteReq
<1>2. loop[m.from] \in Loop
  BY <1>1, Zenon DEF TypeOK
<1>3. loop[m.from].ballots \cup {reply} \in SUBSET VoteReply
  BY <1>2, Zenon DEF Loop
<1> QED
  BY <1>1, <1>2, <1>3, Zenon DEF TypeOK, AnswerVote, Loop

(***************************************************************************)
(* A reply to an AppendEntries leaves the run loops well-typed.            *)
(***************************************************************************)
LEMMA AnswerAppendType ==
    ASSUME TypeOK, NEW m \in appendReqs, NEW t \in Nat, NEW ok \in BOOLEAN,
           NEW ci \in Nat, NEW ct \in Nat, AnswerAppend(m, t, ok, ci, ct)
    PROVE  loop' \in [Server -> Loop]
<1> DEFINE reply == [req |-> m, term |-> t, success |-> ok,
                     conflictIndex |-> ci, conflictTerm |-> ct]
<1>1. m \in AppendReq /\ m.from \in Server
  BY Zenon DEF TypeOK, AppendReq
<1>2. loop[m.from] \in Loop
  BY <1>1, Zenon DEF TypeOK
<1>3. reply \in AppendReply
  BY <1>1, Zenon DEF AppendReply
<1>4. loop[m.from].acks \cup {reply} \in SUBSET AppendReply
  BY <1>2, <1>3, Zenon DEF Loop
<1>5. loop' = [loop EXCEPT ![m.from].acks =
                 IF m \in loop[m.from].open THEN @ \cup {reply} ELSE @]
  BY Zenon DEF AnswerAppend
<1> HIDE DEF reply
<1> QED
  BY <1>1, <1>2, <1>4, <1>5, Zenon DEF TypeOK, Loop

(***************************************************************************)
(* Following the sender of an AppendEntries leaves the node well-typed.    *)
(***************************************************************************)
LEMMA FollowLeaderType ==
    ASSUME TypeOK, NEW i \in Server, NEW m \in appendReqs, FollowLeader(i, m)
    PROVE  /\ currentTerm' \in [Server -> Nat]
           /\ votedFor' \in [Server -> Server \cup {Nil}]
           /\ role' \in [Server -> {Follower, Candidate, Leader}]
           /\ meta' \in [Server -> Meta]
           /\ UNCHANGED <<peerVars, voteReqs, appendReqs, votes>>
<1>1. m.term \in Nat
  BY AppendReqFields, Zenon
<1>2. [term |-> m.term, votedFor |-> Nil] \in Meta /\ meta[i] \in Meta
  BY <1>1, Zenon DEF Meta, TypeOK
<1>3. PICK record \in Meta : meta' = [meta EXCEPT ![i] = record]
  BY <1>2, Zenon DEF FollowLeader, Saved
<1>4. meta' \in [Server -> Meta]
  BY <1>3, Zenon DEF TypeOK
<1> QED
  BY <1>1, <1>4, Zenon DEF TypeOK, FollowLeader

(***************************************************************************)
(* The loop after a read reply is well-typed.                              *)
(***************************************************************************)
LEMMA AfterAnswersType ==
    ASSUME TypeOK, NEW i \in Server, NEW reqs
    PROVE  AfterAnswers(i, reqs) \in Loop
<1>1. loop[i] \in Loop
  BY Zenon DEF TypeOK
<1> QED
  BY <1>1, Zenon DEF AfterAnswers, Loop, LoopAt, Idle

-----------------------------------------------------------------------------
(* The type invariant *)

(***************************************************************************)
(* TypeOK alone is not inductive: `committed' takes a prefix of a log up   *)
(* to a commit index, which must lie inside that log.                      *)
(***************************************************************************)
TypeInv ==
    /\ TypeOK
    /\ \A i \in Server : commitIndex[i] <= Len(committed)

(***************************************************************************)
(* A step that moves at most one commit index, to a place inside the log   *)
(* of that node, keeps the history well-typed and ahead of every node.     *)
(***************************************************************************)
LEMMA RecordCommitType ==
    ASSUME TypeInv, NEW i \in Server, log' \in [Server -> Seq(Entry)], NEW c \in Nat,
           commitIndex' = [commitIndex EXCEPT ![i] = c],
           c = commitIndex[i] \/ c <= Len(log'[i]), RecordCommit(i)
    PROVE  /\ commitIndex' \in [Server -> Nat]
           /\ committed' \in Seq(Entry)
           /\ \A j \in Server : commitIndex'[j] <= Len(committed')
<1> USE DEF TypeInv, TypeOK
<1>1. commitIndex' \in [Server -> Nat] /\ commitIndex'[i] = c
  BY Zenon
<1>2. log'[i] \in Seq(Entry) /\ Len(committed) \in Nat /\ Len(log'[i]) \in Nat
  BY LenProperties, Zenon
<1>3. CASE c > Len(committed)
  <2>1. c <= Len(log'[i])
    BY <1>2, <1>3
  <2>2. SubSeq(log'[i], 1, c) \in Seq(Entry) /\ Len(SubSeq(log'[i], 1, c)) = c
    BY <1>2, <1>3, <2>1, SubSeqType
  <2>3. committed' = SubSeq(log'[i], 1, c)
    BY <1>1, <1>3, Zenon DEF RecordCommit
  <2>4. committed' \in Seq(Entry) /\ Len(committed') = c
    BY <2>2, <2>3, Zenon
  <2>5. ASSUME NEW j \in Server PROVE commitIndex'[j] <= c
    <3>1. commitIndex'[j] = c \/ commitIndex'[j] = commitIndex[j]
      BY Zenon
    <3>2. commitIndex[j] \in Nat /\ commitIndex[j] <= Len(committed)
      BY Zenon
    <3> HIDE DEF TypeInv, TypeOK
    <3> QED
      BY <1>2, <1>3, <3>1, <3>2
  <2> QED
    BY <1>1, <2>4, <2>5, Zenon
<1>4. CASE ~(c > Len(committed))
  <2>1. committed' = committed /\ committed \in Seq(Entry)
    BY <1>1, <1>4, Zenon DEF RecordCommit
  <2>2. ASSUME NEW j \in Server PROVE commitIndex'[j] <= Len(committed)
    <3>1. commitIndex'[j] = c \/ commitIndex'[j] = commitIndex[j]
      BY Zenon
    <3>2. commitIndex[j] <= Len(committed)
      BY Zenon
    <3> HIDE DEF TypeInv, TypeOK
    <3> QED
      BY <1>2, <1>4, <3>1, <3>2
  <2> QED
    BY <1>1, <2>1, <2>2, Zenon
<1> QED
  BY <1>3, <1>4, Zenon

(***************************************************************************)
(* The election steps keep the types.                                      *)
(***************************************************************************)
LEMMA CandidateStepType ==
    ASSUME TypeInv, NEW i \in Server, RunCandidateStep(i)
    PROVE  TypeInv'
<1> USE DEF TypeInv
<1>0. TypeOK /\ loop[i] \in Loop /\ currentTerm[i] \in Nat /\ log[i] \in Seq(Entry)
  BY Zenon DEF TypeOK
<1>1. CASE StartElection(i)
  <2> DEFINE term == currentTerm[i] + 1
  <2>1. term \in Nat /\ Len(log[i]) \in Nat
    BY <1>0, LenProperties
  <2>2. LastTerm(log[i]) \in Nat
    BY <1>0, <2>1, TermAtType, Zenon DEF LastTerm
  <2>3. voteReqs' \subseteq VoteReq
    BY <1>1, <2>1, <2>2 DEF StartElection, TypeOK, VoteReq, Peers
  <2>4. votes' \subseteq Vote
    BY <1>1, <2>1 DEF StartElection, TypeOK, Vote
  <2>5. meta' \in [Server -> Meta]
    BY <1>1, <2>1, Zenon DEF StartElection, TypeOK, Meta
  <2>6. loop' \in [Server -> Loop]
    BY <1>1, <2>1, Zenon DEF StartElection, TypeOK, Loop, LoopAt, Idle
  <2>7. /\ currentTerm' \in [Server -> Nat]
        /\ votedFor' \in [Server -> Server \cup {Nil}]
        /\ role' \in [Server -> {Follower, Candidate, Leader}]
    BY <1>1, <2>1, Zenon DEF StartElection, TypeOK
  <2>8. UNCHANGED <<logVars, peerVars, appendReqs>>
    BY <1>1, Zenon DEF StartElection
  <2> QED
    BY <1>0, <2>3, <2>4, <2>5, <2>6, <2>7, <2>8, Zenon DEF TypeOK, logVars, peerVars
<1>2. CASE AbortElection(i)
  <2>1. [term |-> currentTerm[i] + 1, votedFor |-> i] \in Meta /\ meta[i] \in Meta
    BY <1>0 DEF Meta, TypeOK
  <2>2. meta' \in [Server -> Meta]
    BY <1>2, <2>1 DEF AbortElection, Saved, TypeOK
  <2> QED
    BY <1>0, <1>2, <2>2, Zenon DEF AbortElection, TypeOK, logVars, peerVars
<1>3. ASSUME NEW m \in loop[i].ballots, CollectVote(i, m)
      PROVE  TypeInv'
  <2>1. m \in VoteReply
    BY <1>0, Zenon DEF Loop
  <2>2. m.from \in Server
    BY <2>1, Zenon DEF VoteReply
  <2> DEFINE got == loop[i].grants \cup (IF m.granted THEN {m.from} ELSE {})
             waiting == [loop[i] EXCEPT !.grants = got, !.ballots = @ \ {m}]
  <2>3. got \in SUBSET Server /\ loop[i].ballots \ {m} \in SUBSET VoteReply
    BY <1>0, <2>2, Zenon DEF Loop
  <2>4. waiting \in Loop /\ Idle \in Loop
    <3> HIDE DEF got
    <3> QED
      BY <1>0, <2>3, Zenon DEF Loop, LoopAt, Idle
  <2>5. loop' = [loop EXCEPT ![i] = IF IsQuorum(got \cup {i}) THEN Idle ELSE waiting]
    BY <1>3, Zenon DEF CollectVote
  <2>6. loop' \in [Server -> Loop]
    <3> HIDE DEF waiting
    <3> QED
      BY <1>0, <2>4, <2>5, Zenon DEF TypeOK
  <2> HIDE DEF waiting, got
  <2> QED
    BY <1>0, <1>3, <2>6, Zenon DEF CollectVote, TypeOK, logVars, peerVars
<1>4. ASSUME NEW m \in loop[i].ballots, AdoptVoteReplyTerm(i, m)
      PROVE  TypeInv'
  <2>1. m.term \in Nat
    BY <1>0, Zenon DEF Loop, VoteReply
  <2>2. loop' \in [Server -> Loop]
    BY <1>0, <1>4, Zenon DEF AdoptVoteReplyTerm, Loop, LoopAt, Idle, TypeOK
  <2> QED
    BY <1>0, <1>4, <2>1, <2>2, Zenon DEF AdoptVoteReplyTerm, TypeOK, logVars, peerVars
<1>5. CASE EndElection(i)
  <2>1. loop' \in [Server -> Loop]
    BY <1>0, <1>5, Zenon DEF EndElection, Loop, LoopAt, Idle, TypeOK
  <2> QED
    BY <1>0, <1>5, <2>1, Zenon DEF EndElection, TypeOK, logVars, peerVars
<1> QED
  BY <1>1, <1>2, <1>3, <1>4, <1>5, Zenon DEF RunCandidateStep

(***************************************************************************)
(* HandleRequestVote keeps the types.                                      *)
(***************************************************************************)
LEMMA HandleRequestVoteType ==
    ASSUME TypeInv, NEW i \in Server, NEW m \in voteReqs, HandleRequestVote(i, m)
    PROVE  TypeInv'
<1> USE DEF TypeInv
<1>0. TypeOK /\ m.term \in Nat /\ m.from \in Server /\ currentTerm[i] \in Nat /\ meta[i] \in Meta
  BY Zenon DEF TypeOK, VoteReq
<1>1. CASE RefuseVote(i, m)
  <2> DEFINE term == LargerOf(m.term, currentTerm[i])
             reply == [from |-> i, term |-> term, granted |-> FALSE]
  <2>1. term \in Nat
    BY <1>0, Zenon DEF LargerOf
  <2>2. /\ [term |-> term, votedFor |-> Nil] \in Meta
        /\ [term |-> term, votedFor |-> m.from] \in Meta
    BY <1>0, <2>1, Zenon DEF Meta
  <2>3. PICK record \in Meta : meta' = [meta EXCEPT ![i] = record]
    BY <1>0, <1>1, <2>2, Zenon DEF RefuseVote, Saved
  <2>4. meta' \in [Server -> Meta]
    BY <1>0, <2>3, Zenon DEF TypeOK
  <2>5. reply \in VoteReply
    BY <2>1, Zenon DEF VoteReply
  <2>6. AnswerVote(m, reply)
    BY <1>1, Zenon DEF RefuseVote
  <2>7. loop' \in [Server -> Loop]
    <3> HIDE DEF reply
    <3> QED
      BY <1>0, <2>5, <2>6, AnswerVoteType, Zenon
  <2>8. /\ currentTerm' \in [Server -> Nat]
        /\ votedFor' \in [Server -> Server \cup {Nil}]
        /\ role' \in [Server -> {Follower, Candidate, Leader}]
        /\ UNCHANGED <<logVars, peerVars, voteReqs, appendReqs, votes>>
    BY <1>0, <1>1, <2>1, Zenon DEF RefuseVote, TypeOK
  <2> QED
    BY <1>0, <2>4, <2>7, <2>8, Zenon DEF TypeOK, logVars, peerVars
<1>2. CASE GrantVote(i, m)
  <2> DEFINE reply == [from |-> i, term |-> m.term, granted |-> TRUE]
  <2>1. VoteRecord(i, m) \in Meta /\ reply \in VoteReply
    BY <1>0, Zenon DEF Meta, VoteReply, VoteRecord
  <2>2. AnswerVote(m, reply)
    BY <1>2, Zenon DEF GrantVote
  <2>3. loop' \in [Server -> Loop]
    <3> HIDE DEF reply
    <3> QED
      BY <1>0, <2>1, <2>2, AnswerVoteType, Zenon
  <2>4. votes' \subseteq Vote
    <3>1. votes' = votes \cup {[voter |-> i, term |-> m.term, candidate |-> m.from]}
      BY <1>2, Zenon DEF GrantVote
    <3>2. [voter |-> i, term |-> m.term, candidate |-> m.from] \in Vote
      BY <1>0, Zenon DEF Vote
    <3>3. votes \subseteq Vote
      BY <1>0, Zenon DEF TypeOK
    <3> QED
      BY <3>1, <3>2, <3>3, Zenon
  <2>5. /\ currentTerm' \in [Server -> Nat]
        /\ votedFor' \in [Server -> Server \cup {Nil}]
        /\ role' \in [Server -> {Follower, Candidate, Leader}]
        /\ meta' \in [Server -> Meta]
        /\ UNCHANGED <<logVars, peerVars, voteReqs, appendReqs>>
    BY <1>0, <1>2, <2>1, Zenon DEF GrantVote, TypeOK
  <2> QED
    BY <1>0, <2>3, <2>4, <2>5, Zenon DEF TypeOK, logVars, peerVars
<1> QED
  BY <1>1, <1>2, Zenon DEF HandleRequestVote

(***************************************************************************)
(* HandleAppendEntries keeps the types.                                    *)
(***************************************************************************)
LEMMA HandleAppendEntriesType ==
    ASSUME TypeInv, NEW i \in Server, NEW m \in appendReqs, HandleAppendEntries(i, m)
    PROVE  TypeInv'
<1> USE DEF TypeInv
<1>0. TypeOK /\ currentTerm[i] \in Nat /\ log[i] \in Seq(Entry) /\ Len(log[i]) \in Nat
  BY LenProperties, Zenon DEF TypeOK
<1>a. /\ m.term \in Nat /\ m.prevIndex \in Nat /\ m.commit \in Nat
      /\ m.entries \in Seq(Entry) /\ Len(m.entries) \in Nat
  BY <1>0, AppendReqFields, LenProperties, Zenon
<1>1. CASE RejectStaleAppend(i, m)
  <2>1. loop' \in [Server -> Loop]
    BY <1>0, <1>1, AnswerAppendType, Zenon DEF RejectStaleAppend
  <2> QED
    BY <1>0, <1>1, <2>1, Zenon DEF RejectStaleAppend, TypeOK, nodeVars, logVars, peerVars
<1>b. ASSUME FollowLeader(i, m), loop' \in [Server -> Loop], log' \in [Server -> Seq(Entry)],
             commitIndex' \in [Server -> Nat], committed' \in Seq(Entry),
             \A j \in Server : commitIndex'[j] <= Len(committed')
      PROVE  TypeInv'
  <2>1. /\ currentTerm' \in [Server -> Nat]
        /\ votedFor' \in [Server -> Server \cup {Nil}]
        /\ role' \in [Server -> {Follower, Candidate, Leader}]
        /\ meta' \in [Server -> Meta]
        /\ UNCHANGED <<peerVars, voteReqs, appendReqs, votes>>
    BY <1>0, <1>b, FollowLeaderType, Zenon
  <2> QED
    BY <1>0, <1>b, <2>1, Zenon DEF TypeOK, peerVars
<1>2. CASE RejectMissing(i, m)
  <2> DEFINE ci == Len(log[i]) + 1
  <2>a. ci \in Nat
    BY <1>0
  <2>b. AnswerAppend(m, m.term, FALSE, ci, 0)
    BY <1>2, Zenon DEF RejectMissing
  <2>1. loop' \in [Server -> Loop]
    <3> HIDE DEF ci
    <3> QED
      BY <1>0, <1>a, <2>a, <2>b, AnswerAppendType, Zenon
  <2> QED
    BY <1>0, <1>2, <2>1, <1>b, Zenon DEF RejectMissing, logVars, TypeOK
<1>3. CASE RejectConflict(i, m)
  <2>1. m.prevIndex \in 1..Len(log[i])
    BY <1>0, <1>a, <1>3 DEF RejectConflict, PrevMatches
  <2>2. ConflictStart(log[i], m.prevIndex) \in Nat
    BY <1>a, <2>1, ConflictStartType
  <2>3. log[i][m.prevIndex].term \in Nat
    <3>1. log[i][m.prevIndex] \in Entry
      BY <1>0, <2>1, ElementOfSeq, Zenon
    <3> QED
      BY <3>1, Zenon DEF Entry
  <2>4. loop' \in [Server -> Loop]
    BY <1>0, <1>a, <1>3, <2>2, <2>3, AnswerAppendType, Zenon DEF RejectConflict
  <2> QED
    BY <1>0, <1>3, <2>4, <1>b, Zenon DEF RejectConflict, logVars, TypeOK
<1>c. ASSUME PrevMatches(log[i], m)
      PROVE  m.prevIndex <= Len(log[i])
  BY <1>0, <1>a, <1>c DEF PrevMatches
<1>4. CASE AcceptEntries(i, m)
  <2> DEFINE l == MergeEntries(log[i], m.prevIndex, m.entries, Len(m.entries))
             c == IF m.commit > commitIndex[i] THEN Min({m.commit, Len(l)}) ELSE commitIndex[i]
  <2>0. PrevMatches(log[i], m) /\ FollowLeader(i, m) /\ RecordCommit(i)
    BY <1>4, Zenon DEF AcceptEntries
  <2>a. m.prevIndex <= Len(log[i]) /\ Len(m.entries) <= Len(m.entries)
    BY <1>a, <1>c, <2>0
  <2>1. l \in Seq(Entry)
    BY <1>0, <1>a, <2>a, MergeType, Zenon
  <2>2. log' = [log EXCEPT ![i] = l] /\ commitIndex' = [commitIndex EXCEPT ![i] = c]
    BY <1>4, Zenon DEF AcceptEntries
  <2> HIDE DEF l
  <2>3. Len(l) \in Nat
    BY <2>1, LenProperties, Zenon
  <2>4. c \in Nat /\ (c = commitIndex[i] \/ c <= Len(l))
    <3> DEFINE S == {m.commit, Len(l)}
    <3>1. S \in SUBSET Nat /\ S # {}
      BY <1>a, <2>3, Zenon
    <3>2. Min(S) \in S /\ \A x \in S : Min(S) <= x
      <4> HIDE DEF S
      <4> QED
        BY <3>1, MinOfNaturals, FiniteFactsHold, Zenon
    <3>3. Min(S) \in Nat /\ Min(S) <= Len(l)
      BY <1>a, <2>3, <3>2, Zenon
    <3>4. commitIndex[i] \in Nat
      BY <1>0, Zenon DEF TypeOK
    <3> QED
      BY <3>3, <3>4, Zenon
  <2>5. log' \in [Server -> Seq(Entry)] /\ log'[i] = l
    BY <1>0, <2>1, <2>2, Zenon DEF TypeOK
  <2> HIDE DEF c
  <2>6. /\ commitIndex' \in [Server -> Nat] /\ committed' \in Seq(Entry)
        /\ \A j \in Server : commitIndex'[j] <= Len(committed')
    BY <2>0, <2>2, <2>4, <2>5, RecordCommitType, Zenon
  <2>7. loop' \in [Server -> Loop]
    BY <1>0, <1>a, <1>4, AnswerAppendType, Zenon DEF AcceptEntries
  <2> QED
    BY <2>0, <2>5, <2>6, <2>7, <1>b, Zenon
<1>5. CASE FailToStore(i, m)
  <2> DEFINE k == FirstNew(log[i], m.prevIndex, m.entries)
  <2>0. PrevMatches(log[i], m) /\ FollowLeader(i, m)
    BY <1>5, Zenon DEF FailToStore
  <2>1. k \in 1..(Len(m.entries) + 1)
    BY <1>0, <1>a, FirstNewType, FiniteFactsHold, Zenon
  <2>2. ASSUME NEW upTo \in (k - 1)..(Len(m.entries) - 1)
        PROVE  MergeEntries(log[i], m.prevIndex, m.entries, upTo) \in Seq(Entry)
    <3>1. upTo \in Nat /\ upTo <= Len(m.entries)
      BY <1>a, <2>1
    <3> QED
      BY <1>0, <1>a, <1>c, <2>0, <3>1, MergeType, Zenon
  <2>3. log' \in [Server -> Seq(Entry)]
    BY <1>0, <1>5, <2>2, ZenonT(40) DEF FailToStore, TypeOK
  <2>4. loop' \in [Server -> Loop]
    BY <1>0, <1>a, <1>5, AnswerAppendType, Zenon DEF FailToStore, AnswerNotStored
  <2>5. UNCHANGED <<commitIndex, committed>>
    BY <1>5, Zenon DEF FailToStore
  <2> QED
    BY <1>0, <1>b, <2>0, <2>3, <2>4, <2>5, Zenon DEF TypeOK
<1> QED
  BY <1>1, <1>2, <1>3, <1>4, <1>5, Zenon DEF HandleAppendEntries

(***************************************************************************)
(* The steps of runLeader and sendHeartbeats keep the types.               *)
(***************************************************************************)
LEMMA LeaderStepType ==
    ASSUME TypeInv, NEW i \in Server, RunLeaderStep(i)
    PROVE  TypeInv'
<1> USE DEF TypeInv
<1>0. /\ TypeOK /\ loop[i] \in Loop /\ currentTerm[i] \in Nat /\ commitIndex[i] \in Nat
      /\ log[i] \in Seq(Entry) /\ Len(log[i]) \in Nat
      /\ loop[i].term \in Nat /\ loop[i].last \in Nat
  BY LenProperties, Zenon DEF TypeOK, Loop
<1>1. CASE RunLeader(i)
  <2>1. LoopAt("sending", currentTerm[i]) \in Loop
    BY <1>0, Zenon DEF Loop, LoopAt
  <2>2. loop' \in [Server -> Loop]
    BY <1>0, <1>1, <2>1, Zenon DEF RunLeader, TypeOK
  <2>3. /\ nextIndex' \in [Server -> [Server -> Nat \ {0}]]
        /\ matchIndex' \in [Server -> [Server -> Nat]]
    <3>1. /\ nextIndex' = [nextIndex EXCEPT ![i] = EveryPeerAt(Len(log[i]) + 1)]
          /\ matchIndex' = [matchIndex EXCEPT ![i] = EveryPeerAt(0)]
      BY <1>1, Zenon DEF RunLeader
    <3>2. /\ nextIndex \in [Server -> [Server -> Nat \ {0}]]
          /\ matchIndex \in [Server -> [Server -> Nat]]
      BY <1>0, Zenon DEF TypeOK
    <3>3. /\ EveryPeerAt(Len(log[i]) + 1) \in [Server -> Nat \ {0}]
          /\ EveryPeerAt(0) \in [Server -> Nat]
      BY <1>0 DEF EveryPeerAt
    <3> QED
      BY <3>1, <3>2, <3>3, Zenon
  <2> QED
    BY <1>0, <1>1, <2>2, <2>3, Zenon DEF RunLeader, TypeOK, nodeVars, logVars
<1>2. CASE SendHeartbeats(i)
  <2> DEFINE reqs == {AppendEntriesTo(i, j) : j \in Peers(i)}
             c == IF reqs = {} /\ StillLeader(i)
                  THEN AdvancedCommit(i, loop[i].term, Len(log[i]), matchIndex[i])
                  ELSE commitIndex[i]
  <2>1. ASSUME NEW j \in Peers(i)
        PROVE  AppendEntriesTo(i, j) \in AppendReq
    <3> DEFINE prev == nextIndex[i][j] - 1
    <3>1. j \in Server /\ prev \in Nat
      <4>1. j \in Server
        BY Zenon DEF Peers
      <4>2. nextIndex \in [Server -> [Server -> Nat \ {0}]]
        BY <1>0, Zenon DEF TypeOK
      <4>3. nextIndex[i][j] \in Nat \ {0}
        BY <4>1, <4>2, Zenon
      <4> HIDE DEF TypeInv
      <4> QED
        BY <4>1, <4>3
    <3>2. TermAt(log[i], prev) \in Nat
      BY <1>0, TermAtType, Zenon
    <3>3. SubSeq(log[i], prev + 1, Len(log[i])) \in Seq(Entry)
      <4> HIDE DEF prev
      <4>1. prev + 1 \in Nat \ {0} /\ Len(log[i]) \in Int /\ Len(log[i]) <= Len(log[i])
        BY <1>0, <3>1
      <4> QED
        BY <1>0, <4>1, SubSeqType, Zenon
    <3>4. AppendEntriesTo(i, j) =
            [term |-> loop[i].term, from |-> i, to |-> j,
             prevIndex |-> prev, prevTerm |-> TermAt(log[i], prev),
             entries |-> SubSeq(log[i], prev + 1, Len(log[i])), commit |-> commitIndex[i]]
      BY Zenon DEF AppendEntriesTo
    <3> HIDE DEF prev, TypeInv
    <3> QED
      BY <1>0, <3>1, <3>2, <3>3, <3>4 DEF AppendReq
  <2>2. reqs \in SUBSET AppendReq
    BY <2>1, Zenon
  <2>3. c \in Nat /\ (c = commitIndex[i] \/ c <= Len(log[i]))
    <3>1. c = commitIndex[i] \/ c \in (commitIndex[i] + 1)..Len(log[i])
      BY <1>0, AdvancedCommitType, Zenon
    <3> QED
      BY <1>0, <3>1
  <2>4. /\ appendReqs' = appendReqs \cup reqs
        /\ loop' = [loop EXCEPT ![i] =
                      IF reqs = {} THEN loop[i]
                      ELSE [loop[i] EXCEPT !.at = "round", !.open = reqs, !.last = Len(log[i])]]
        /\ commitIndex' = [commitIndex EXCEPT ![i] = c]
        /\ UNCHANGED <<nodeVars, log, peerVars, voteReqs, votes>>
        /\ RecordCommit(i)
    BY <1>2, Zenon DEF SendHeartbeats
  <2> HIDE DEF c, reqs
  <2>5. /\ commitIndex' \in [Server -> Nat] /\ committed' \in Seq(Entry)
        /\ \A j \in Server : commitIndex'[j] <= Len(committed')
    <3>1. log' \in [Server -> Seq(Entry)] /\ log'[i] = log[i]
      BY <1>0, <2>4, Zenon DEF TypeOK
    <3> QED
      BY <2>3, <2>4, <3>1, RecordCommitType, Zenon
  <2>6. loop' \in [Server -> Loop]
    BY <1>0, <2>2, <2>4, Zenon DEF TypeOK, Loop
  <2> QED
    BY <1>0, <2>2, <2>4, <2>5, <2>6, Zenon DEF TypeOK, nodeVars, peerVars
<1>3. CASE LeaveLeadership(i)
  <2>1. Idle \in Loop
    BY Zenon DEF Idle, LoopAt, Loop
  <2>2. loop' \in [Server -> Loop]
    BY <1>0, <1>3, <2>1, Zenon DEF LeaveLeadership, TypeOK
  <2> QED
    BY <1>0, <1>3, <2>2, Zenon DEF LeaveLeadership, TypeOK, nodeVars, logVars, peerVars
<1>a. ASSUME NEW m \in loop[i].acks
      PROVE  /\ m.term \in Nat /\ m.conflictIndex \in Nat /\ m.conflictTerm \in Nat
             /\ m.req \in AppendReq /\ m.req.to \in Server
             /\ m.req.prevIndex \in Nat /\ m.req.entries \in Seq(Entry)
  BY <1>0, Zenon DEF Loop, AppendReply, AppendReq
<1>4. ASSUME NEW m \in loop[i].acks, AdoptAppendReplyTerm(i, m)
      PROVE  TypeInv'
  <2>1. LargerOf(currentTerm[i], m.term) \in Nat /\ Idle \in Loop
    BY <1>0, <1>a, Zenon DEF LargerOf, Idle, LoopAt, Loop
  <2> QED
    BY <1>0, <1>4, <2>1, Zenon DEF AdoptAppendReplyTerm, TypeOK, logVars, peerVars
<1>5. ASSUME NEW m \in loop[i].acks, CollectSuccess(i, m)
      PROVE  TypeInv'
  <2> DEFINE j == m.req.to
             match == LargerOf(matchIndex[i][j], LastSent(m.req))
             c == AdvancedCommit(i, loop[i].term, loop[i].last, matchIndex'[i])
  <2>1. matchIndex[i][j] \in Nat /\ LastSent(m.req) \in Nat
    <3>1. Len(m.req.entries) \in Nat /\ m.req.prevIndex \in Nat
      BY <1>a, LenProperties, Zenon
    <3>2. LastSent(m.req) \in Nat
      BY <3>1 DEF LastSent
    <3>3. matchIndex[i] \in [Server -> Nat] /\ j \in Server
      BY <1>0, <1>a, Zenon DEF TypeOK
    <3> QED
      BY <3>2, <3>3, Zenon
  <2>2. match \in Nat
    BY <2>1, Zenon DEF LargerOf
  <2>3. /\ matchIndex' = [matchIndex EXCEPT ![i][j] = match]
        /\ nextIndex' = [nextIndex EXCEPT ![i][j] = match + 1]
        /\ commitIndex' = [commitIndex EXCEPT ![i] = c]
        /\ loop' = [loop EXCEPT ![i] = AfterAnswers(i, {m.req})]
        /\ UNCHANGED <<nodeVars, log, voteReqs, appendReqs, votes>>
        /\ RecordCommit(i)
    BY <1>5, Zenon DEF CollectSuccess
  <2>4. c \in Nat /\ (c = commitIndex[i] \/ c <= Len(log[i]))
    <3>1. c = commitIndex[i] \/ c \in (commitIndex[i] + 1)..Len(log[i])
      BY <1>0, AdvancedCommitType, Zenon
    <3> QED
      BY <1>0, <3>1
  <2> HIDE DEF match, c
  <2>5. /\ nextIndex' \in [Server -> [Server -> Nat \ {0}]]
        /\ matchIndex' \in [Server -> [Server -> Nat]]
    <3>1. j \in Server /\ match + 1 \in Nat \ {0}
      BY <1>a, <2>2
    <3> HIDE DEF j
    <3>2. /\ [matchIndex[i] EXCEPT ![j] = match] \in [Server -> Nat]
          /\ [nextIndex[i] EXCEPT ![j] = match + 1] \in [Server -> Nat \ {0}]
      BY <1>0, <2>2, <3>1, Zenon DEF TypeOK
    <3> QED
      BY <1>0, <2>3, <3>2, Zenon DEF TypeOK
  <2>6. /\ commitIndex' \in [Server -> Nat] /\ committed' \in Seq(Entry)
        /\ \A n \in Server : commitIndex'[n] <= Len(committed')
    <3>1. log' \in [Server -> Seq(Entry)] /\ log'[i] = log[i]
      BY <1>0, <2>3, Zenon DEF TypeOK
    <3> QED
      BY <2>3, <2>4, <3>1, RecordCommitType, Zenon
  <2>7. loop' \in [Server -> Loop]
    BY <1>0, <2>3, AfterAnswersType, Zenon DEF TypeOK
  <2> QED
    BY <1>0, <2>3, <2>5, <2>6, <2>7, Zenon DEF TypeOK, nodeVars
<1>6. ASSUME NEW m \in loop[i].acks, CollectFailure(i, m)
      PROVE  TypeInv'
  <2>1. BackedUp(log[i], m.conflictIndex, m.conflictTerm) \in Nat \ {0}
    BY <1>0, <1>a, BackedUpType, Zenon
  <2>2. nextIndex' \in [Server -> [Server -> Nat \ {0}]]
    BY <1>0, <1>a, <1>6, <2>1, Zenon DEF CollectFailure, TypeOK
  <2>3. loop' \in [Server -> Loop]
    BY <1>0, <1>6, AfterAnswersType, Zenon DEF CollectFailure, TypeOK
  <2> QED
    BY <1>0, <1>6, <2>2, <2>3, Zenon DEF CollectFailure, TypeOK, nodeVars, logVars
<1>7. CASE RoundTimeout(i)
  <2>1. loop' \in [Server -> Loop]
    BY <1>0, <1>7, AfterAnswersType, Zenon DEF RoundTimeout, TypeOK
  <2> QED
    BY <1>0, <1>7, <2>1, Zenon DEF RoundTimeout, TypeOK, nodeVars, logVars, peerVars
<1> QED
  BY <1>1, <1>2, <1>3, <1>4, <1>5, <1>6, <1>7, Zenon DEF RunLeaderStep

(***************************************************************************)
(* Every variable of RaftCore keeps its type: in particular nextIndex      *)
(* never drops below 1, whatever conflict hints arrive in whatever order,  *)
(* and no merge or truncation leaves a gap in a log.                       *)
(***************************************************************************)
THEOREM TypeCorrect == Spec => []TypeOK
<1>1. Init => TypeInv
  <2> SUFFICES ASSUME Init PROVE TypeInv
    BY Zenon
  <2>1. Idle \in Loop /\ [term |-> 0, votedFor |-> Nil] \in Meta
    BY Zenon DEF Idle, LoopAt, Loop, Meta
  <2>2. << >> \in Seq(Entry) /\ Len(<< >>) = 0
    OBVIOUS
  <2>3. EveryPeerAt(1) \in [Server -> Nat \ {0}] /\ EveryPeerAt(0) \in [Server -> Nat]
    BY DEF EveryPeerAt
  <2> QED
    BY <2>1, <2>2, <2>3 DEF Init, TypeInv, TypeOK, Follower
<1>2. TypeInv /\ [Next]_vars => TypeInv'
  <2> SUFFICES ASSUME TypeInv, [Next]_vars PROVE TypeInv'
    BY Zenon
  <2>1. CASE UNCHANGED vars
    BY <2>1, Zenon DEF TypeInv, TypeOK, vars, nodeVars, logVars, peerVars
  <2>2. ASSUME NEW i \in Server, NEW c \in Command, Propose(i, c)
        PROVE  TypeInv'
    <3>1. log[i] \in Seq(Entry) /\ [term |-> currentTerm[i], cmd |-> c] \in Entry
      BY Zenon DEF TypeInv, TypeOK, Entry
    <3>2. log' \in [Server -> Seq(Entry)]
      BY <2>2, <3>1, AppendProperties, Zenon DEF Propose, TypeInv, TypeOK
    <3> QED
      BY <2>2, <3>2, Zenon DEF Propose, TypeInv, TypeOK, nodeVars, peerVars
  <2>3. ASSUME NEW i \in Server, Restart(i)
        PROVE  TypeInv'
    <3>1. meta[i].term \in Nat /\ meta[i].votedFor \in Server \cup {Nil} /\ Idle \in Loop
      BY Zenon DEF TypeInv, TypeOK, Meta, Idle, LoopAt, Loop
    <3>2. Len(committed) \in Nat
      BY LenProperties, Zenon DEF TypeInv, TypeOK
    <3>3. /\ nextIndex' \in [Server -> [Server -> Nat \ {0}]]
          /\ matchIndex' \in [Server -> [Server -> Nat]]
      <4>1. EveryPeerAt(1) \in [Server -> Nat \ {0}] /\ EveryPeerAt(0) \in [Server -> Nat]
        BY DEF EveryPeerAt
      <4> QED
        BY <2>3, <4>1, Zenon DEF Restart, TypeInv, TypeOK
    <3>4. /\ currentTerm' \in [Server -> Nat]
          /\ votedFor' \in [Server -> Server \cup {Nil}]
          /\ role' \in [Server -> {Follower, Candidate, Leader}]
          /\ loop' \in [Server -> Loop]
      BY <2>3, <3>1, Zenon DEF Restart, TypeInv, TypeOK
    <3>5. commitIndex' \in [Server -> Nat] /\ \A j \in Server : commitIndex'[j] <= Len(committed)
      BY <2>3, <3>2 DEF Restart, TypeInv, TypeOK
    <3>6. UNCHANGED <<meta, log, committed, voteReqs, appendReqs, votes>>
      BY <2>3, Zenon DEF Restart
    <3> QED
      BY <3>3, <3>4, <3>5, <3>6, Zenon DEF TypeInv, TypeOK
  <2>4. CASE Next
    <3>1. PICK i \in Server :
            \/ RunCandidateStep(i)
            \/ RunLeaderStep(i)
            \/ \E m \in voteReqs : HandleRequestVote(i, m)
            \/ \E m \in appendReqs : HandleAppendEntries(i, m)
            \/ \E c \in Command : Propose(i, c)
            \/ Restart(i)
      BY <2>4, Zenon DEF Next
    <3>2. CASE RunCandidateStep(i)
      BY <3>2, CandidateStepType, Zenon
    <3>3. CASE RunLeaderStep(i)
      BY <3>3, LeaderStepType, Zenon
    <3>4. ASSUME NEW m \in voteReqs, HandleRequestVote(i, m) PROVE TypeInv'
      BY <3>4, HandleRequestVoteType, Zenon
    <3>5. ASSUME NEW m \in appendReqs, HandleAppendEntries(i, m) PROVE TypeInv'
      BY <3>5, HandleAppendEntriesType, Zenon
    <3> QED
      BY <2>2, <2>3, <3>1, <3>2, <3>3, <3>4, <3>5, Zenon
  <2> QED
    BY <2>1, <2>4, Zenon
<1>3. TypeInv => TypeOK
  BY Zenon DEF TypeInv
<1> QED
  BY <1>1, <1>2, <1>3, PTL DEF Spec

-----------------------------------------------------------------------------
(* The run loop *)

(***************************************************************************)
(* More votes do not make a truthful loop untruthful.                      *)
(***************************************************************************)
LEMMA LoopGrows ==
    ASSUME NEW vs, NEW ws, vs \subseteq ws, NEW i, NEW lp, LoopTrue(i, lp, vs)
    PROVE  LoopTrue(i, lp, ws)
BY WonGrows, FiniteFactsHold, Zenon DEF LoopTrue

(***************************************************************************)
(* Between two elections the loop claims nothing.                          *)
(***************************************************************************)
LEMMA IdleTrue ==
    ASSUME NEW i, NEW vs
    PROVE  LoopTrue(i, Idle, vs)
BY Zenon DEF LoopTrue, Idle, LoopAt

(***************************************************************************)
(* The winner of a term may start a round in it.                           *)
(***************************************************************************)
LEMMA SendingTrue ==
    ASSUME NEW i, NEW t, NEW vs, Won(i, t, vs)
    PROVE  LoopTrue(i, LoopAt("sending", t), vs)
BY Zenon DEF LoopTrue, LoopAt

(***************************************************************************)
(* A reply that tells the truth keeps the loops truthful.                  *)
(***************************************************************************)
LEMMA AnswerVoteTrue ==
    ASSUME TypeOK, LoopsTrue, NEW m \in voteReqs, NEW reply, AnswerVote(m, reply),
           votes \subseteq votes',
           reply.granted => VoteIn(reply.from, m.term, m.from) \in votes'
    PROVE  LoopsTrue'
<1>1. m.from \in Server
  BY Zenon DEF TypeOK, VoteReq
<1> SUFFICES ASSUME NEW i \in Server PROVE LoopTrue(i, loop'[i], votes')
  BY Zenon DEF LoopsTrue
<1>2. LoopTrue(i, loop[i], votes')
  BY LoopGrows, Zenon DEF LoopsTrue
<1>3. loop[i] \in Loop
  BY Zenon DEF TypeOK
<1>4. CASE loop'[i] = loop[i]
  BY <1>2, <1>4, Zenon
<1>5. CASE loop'[i] # loop[i]
  <2>1. /\ i = m.from /\ loop[i].term = m.term
        /\ loop'[i] = [loop[i] EXCEPT !.ballots = @ \cup {reply}]
    BY <1>1, <1>5, Zenon DEF AnswerVote, TypeOK, Loop
  <2>2. /\ loop'[i].ballots = loop[i].ballots \cup {reply}
        /\ loop'[i].at = loop[i].at /\ loop'[i].term = loop[i].term
        /\ loop'[i].grants = loop[i].grants
    BY <1>3, <2>1, Zenon DEF Loop
  <2> QED
    BY <1>2, <2>1, <2>2, Zenon DEF LoopTrue
<1> QED
  BY <1>4, <1>5, Zenon

(***************************************************************************)
(* Answering an AppendEntries does not touch what elections have counted.  *)
(***************************************************************************)
LEMMA AnswerAppendTrue ==
    ASSUME TypeOK, LoopsTrue, NEW m \in appendReqs, NEW t, NEW ok, NEW ci, NEW ct,
           AnswerAppend(m, t, ok, ci, ct), UNCHANGED votes
    PROVE  LoopsTrue'
<1>1. m.from \in Server
  BY AppendReqFields, Zenon
<1> SUFFICES ASSUME NEW i \in Server PROVE LoopTrue(i, loop'[i], votes')
  BY Zenon DEF LoopsTrue
<1>2. LoopTrue(i, loop[i], votes') /\ loop[i] \in Loop
  BY Zenon DEF LoopsTrue, TypeOK
<1>3. /\ loop'[i].ballots = loop[i].ballots /\ loop'[i].grants = loop[i].grants
      /\ loop'[i].at = loop[i].at /\ loop'[i].term = loop[i].term
  BY <1>1, <1>2, Zenon DEF AnswerAppend, TypeOK, Loop
<1> QED
  BY <1>2, <1>3, Zenon DEF LoopTrue

(***************************************************************************)
(* A round ends in the next one of the same term, or in nothing.           *)
(***************************************************************************)
LEMMA AfterAnswersTrue ==
    ASSUME TypeOK, LoopsTrue, NEW i \in Server, loop[i].at = "round", NEW reqs
    PROVE  LoopTrue(i, AfterAnswers(i, reqs), votes)
<1> DEFINE rest == loop[i].open \ reqs
           remaining == [loop[i] EXCEPT !.open = rest, !.acks = {a \in @ : a.req \in rest}]
<1>1. LoopTrue(i, loop[i], votes) /\ loop[i] \in Loop
  BY Zenon DEF LoopsTrue, TypeOK
<1>2. Won(i, loop[i].term, votes)
  BY <1>1, Zenon DEF LoopTrue
<1>3. LoopTrue(i, remaining, votes)
  BY <1>1, Zenon DEF LoopTrue, Loop
<1>4. AfterAnswers(i, reqs) \in {remaining, LoopAt("sending", loop[i].term), Idle}
  BY Zenon DEF AfterAnswers
<1> QED
  BY <1>2, <1>3, <1>4, IdleTrue, SendingTrue

-----------------------------------------------------------------------------
(* The steps *)

(***************************************************************************)
(* A step that leaves terms, votes and roles alone, and moves one run loop *)
(* to a truthful position.                                                 *)
(***************************************************************************)
LEMMA QuietStep ==
    ASSUME ElectionInv, TypeOK', UNCHANGED <<nodeVars, votes, appendReqs>>,
           NEW i \in Server, NEW lp, LoopTrue(i, lp, votes), loop' = [loop EXCEPT ![i] = lp]
    PROVE  ElectionInv'
<1> USE DEF ElectionInv
<1>1. DiskVote' /\ VotesKept' /\ LeadersWon' /\ SendersWon'
  BY Zenon DEF DiskVote, VotesKept, LeadersWon, SendersWon, nodeVars
<1>2. LoopsTrue'
  BY Zenon DEF LoopsTrue, TypeOK
<1> QED
  BY <1>1, <1>2, Zenon

(***************************************************************************)
(* The steps of runLeader and sendHeartbeats keep the invariant.           *)
(***************************************************************************)
LEMMA LeaderStepKeeps ==
    ASSUME ElectionInv, TypeOK', NEW i \in Server, RunLeaderStep(i)
    PROVE  ElectionInv'
<1>0. /\ TypeOK /\ LoopsTrue /\ LeadersWon /\ LoopTrue(i, loop[i], votes)
      /\ loop[i] \in Loop /\ LoopTrue(i, Idle, votes)
  BY IdleTrue, Zenon DEF ElectionInv, LoopsTrue, TypeOK
<1>1. CASE RunLeader(i)
  <2>1. LoopTrue(i, LoopAt("sending", currentTerm[i]), votes)
    BY <1>0, <1>1, SendingTrue, Zenon DEF RunLeader, LeadersWon
  <2> QED
    BY <1>1, <2>1, QuietStep, Zenon DEF RunLeader
<1>2. CASE SendHeartbeats(i)
  <2> DEFINE reqs == {AppendEntriesTo(i, j) : j \in Peers(i)}
  <2>1. Won(i, loop[i].term, votes)
    BY <1>0, <1>2, Zenon DEF SendHeartbeats, LoopTrue
  <2>2. SendersWon'
    <3> SUFFICES ASSUME NEW m \in appendReqs'
                 PROVE  Won(m.from, m.term, votes) /\ m.from # m.to
      BY <1>2, Zenon DEF SendHeartbeats, SendersWon
    <3>1. CASE m \in appendReqs
      BY <3>1, Zenon DEF ElectionInv, SendersWon
    <3>2. CASE m \in reqs
      BY <2>1, <3>2 DEF AppendEntriesTo, Peers
    <3> QED
      BY <1>2, <3>1, <3>2, Zenon DEF SendHeartbeats
  <2>3. /\ loop'[i].grants = loop[i].grants /\ loop'[i].ballots = loop[i].ballots
        /\ loop'[i].term = loop[i].term /\ loop'[i].at \in {"sending", "round"}
        /\ \A j \in Server \ {i} : loop'[j] = loop[j]
    <3> DEFINE lp == IF reqs = {} THEN loop[i]
                     ELSE [loop[i] EXCEPT !.at = "round", !.open = reqs, !.last = Len(log[i])]
    <3>1. loop' = [loop EXCEPT ![i] = lp] /\ loop[i].at = "sending"
      BY <1>2, Zenon DEF SendHeartbeats
    <3> HIDE DEF reqs
    <3>2. /\ lp.grants = loop[i].grants /\ lp.ballots = loop[i].ballots
          /\ lp.term = loop[i].term /\ lp.at \in {"sending", "round"}
      BY <1>0, <3>1, Zenon DEF Loop
    <3> HIDE DEF lp
    <3> QED
      BY <1>0, <3>1, <3>2, Zenon DEF TypeOK
  <2>4. LoopsTrue'
    <3>1. LoopTrue(i, loop'[i], votes)
      BY <1>0, <2>1, <2>3, Zenon DEF LoopTrue
    <3> QED
      BY <1>2, <2>3, <3>1, <1>0, Zenon DEF SendHeartbeats, LoopsTrue
  <2>5. DiskVote' /\ VotesKept' /\ LeadersWon'
    BY <1>2, Zenon DEF SendHeartbeats, ElectionInv, DiskVote, VotesKept, LeadersWon, nodeVars
  <2> QED
    BY <2>2, <2>4, <2>5, Zenon DEF ElectionInv
<1>3. CASE LeaveLeadership(i)
  BY <1>0, <1>3, QuietStep, Zenon DEF LeaveLeadership
<1>4. ASSUME NEW m \in loop[i].acks, AdoptAppendReplyTerm(i, m)
      PROVE  ElectionInv'
  <2>1. m.term \in Nat /\ currentTerm[i] \in Nat /\ meta[i].term \in Nat
    BY <1>0, Zenon DEF Loop, AppendReply, TypeOK, Meta
  <2>2. /\ currentTerm'[i] = LargerOf(currentTerm[i], m.term)
        /\ votedFor'[i] = IF m.term > currentTerm[i] THEN Nil ELSE votedFor[i]
        /\ role'[i] = Follower /\ loop'[i] = Idle
        /\ \A j \in Server \ {i} : /\ currentTerm'[j] = currentTerm[j] /\ role'[j] = role[j]
                                   /\ votedFor'[j] = votedFor[j] /\ loop'[j] = loop[j]
        /\ UNCHANGED <<meta, votes, appendReqs>>
    BY <1>0, <1>4, Zenon DEF AdoptAppendReplyTerm, TypeOK
  <2>3. DiskVote'
    BY <2>1, <2>2 DEF ElectionInv, DiskVote, LargerOf
  <2>4. LeadersWon'
    BY <2>2, Zenon DEF ElectionInv, LeadersWon, Leader, Follower
  <2>5. LoopsTrue'
    BY <1>0, <2>2, Zenon DEF LoopsTrue
  <2>6. VotesKept' /\ SendersWon'
    BY <2>2, Zenon DEF ElectionInv, VotesKept, SendersWon
  <2> QED
    BY <2>3, <2>4, <2>5, <2>6, Zenon DEF ElectionInv
<1>5. ASSUME NEW m \in loop[i].acks, CollectSuccess(i, m) \/ CollectFailure(i, m)
      PROVE  ElectionInv'
  <2>1. LoopTrue(i, AfterAnswers(i, {m.req}), votes)
    BY <1>0, <1>5, AfterAnswersTrue, Zenon DEF CollectSuccess, CollectFailure
  <2>2. /\ loop' = [loop EXCEPT ![i] = AfterAnswers(i, {m.req})]
        /\ UNCHANGED <<nodeVars, votes, appendReqs>>
    BY <1>5, Zenon DEF CollectSuccess, CollectFailure
  <2> QED
    BY <2>1, <2>2, QuietStep, Zenon
<1>6. CASE RoundTimeout(i)
  <2>1. LoopTrue(i, AfterAnswers(i, loop[i].open), votes)
    BY <1>0, <1>6, AfterAnswersTrue, Zenon DEF RoundTimeout
  <2> QED
    BY <1>6, <2>1, QuietStep, Zenon DEF RoundTimeout
<1> QED
  BY <1>1, <1>2, <1>3, <1>4, <1>5, <1>6, Zenon DEF RunLeaderStep

(***************************************************************************)
(* HandleAppendEntries keeps the invariant: the term it adopts is saved,   *)
(* without a vote.                                                         *)
(***************************************************************************)
LEMMA HandleAppendEntriesKeeps ==
    ASSUME Orderly, ElectionInv, TypeOK', NEW i \in Server, NEW m \in appendReqs,
           HandleAppendEntries(i, m)
    PROVE  ElectionInv'
<1>0. /\ TypeOK /\ LoopsTrue /\ m.term \in Nat /\ currentTerm[i] \in Nat /\ meta[i] \in Meta
      /\ meta[i].term \in Nat
  BY AppendReqFields, Zenon DEF ElectionInv, TypeOK, Meta
<1>1. UNCHANGED <<votes, appendReqs>>
  BY Zenon DEF HandleAppendEntries, RejectStaleAppend, RejectMissing, RejectConflict,
         AcceptEntries, FailToStore, FollowLeader
<1>2. LoopsTrue'
  <2>1. \E t, ok, ci, ct : AnswerAppend(m, t, ok, ci, ct)
    BY Zenon DEF HandleAppendEntries, RejectStaleAppend, RejectMissing, RejectConflict,
           AcceptEntries, FailToStore, AnswerNotStored
  <2> QED
    BY <1>0, <1>1, <2>1, AnswerAppendTrue, Zenon
<1>3. SendersWon'
  BY <1>1, Zenon DEF ElectionInv, SendersWon
<1>4. CASE RejectStaleAppend(i, m)
  BY <1>1, <1>2, <1>3, <1>4, Zenon
     DEF RejectStaleAppend, ElectionInv, DiskVote, VotesKept, LeadersWon, nodeVars
<1>5. CASE FollowLeader(i, m)
  <2> DEFINE record == [term |-> m.term, votedFor |-> Nil]
  <2>1. /\ currentTerm'[i] = m.term /\ m.term >= currentTerm[i]
        /\ votedFor'[i] = IF m.term > currentTerm[i] THEN Nil ELSE votedFor[i]
        /\ role'[i] = Follower
        /\ \A j \in Server \ {i} : /\ currentTerm'[j] = currentTerm[j] /\ role'[j] = role[j]
                                   /\ votedFor'[j] = votedFor[j]
    BY <1>0, <1>5, Zenon DEF FollowLeader, NotStale, TypeOK
  <2>2. meta' = [meta EXCEPT ![i] = IF m.term > currentTerm[i] THEN record ELSE meta[i]]
    BY <1>5, Zenon DEF FollowLeader, SaveOutcome, Saved, Orderly
  <2>3. /\ meta'[i] = IF m.term > currentTerm[i] THEN record ELSE meta[i]
        /\ \A j \in Server \ {i} : meta'[j] = meta[j]
    BY <1>0, <2>2, Zenon DEF TypeOK
  <2>4. DiskVote'
    BY <1>0, <2>1, <2>3 DEF ElectionInv, DiskVote
  <2>5. LeadersWon'
    BY <1>1, <2>1, Zenon DEF ElectionInv, LeadersWon, Leader, Follower
  <2>6. VotesKept'
    <3>1. currentTerm[i] >= meta[i].term
      BY <1>0 DEF ElectionInv, DiskVote
    <3>2. ASSUME NEW v \in votes
          PROVE  \/ meta'[v.voter].term > v.term
                 \/ meta'[v.voter] = [term |-> v.term, votedFor |-> v.candidate]
      <4>1. v.voter \in Server /\ v.term \in Nat
        BY <1>0, Zenon DEF TypeOK, Vote
      <4>2. \/ meta[v.voter].term > v.term
            \/ meta[v.voter] = [term |-> v.term, votedFor |-> v.candidate]
        BY Zenon DEF ElectionInv, VotesKept
      <4> QED
        BY <1>0, <2>3, <3>1, <4>1, <4>2
    <3> QED
      BY <1>1, <3>2, Zenon DEF ElectionInv, VotesKept
  <2> QED
    BY <1>2, <1>3, <2>4, <2>5, <2>6, Zenon DEF ElectionInv
<1> QED
  BY <1>4, <1>5, Zenon
     DEF HandleAppendEntries, RejectMissing, RejectConflict, AcceptEntries, FailToStore

(***************************************************************************)
(* A vote given in a term in which the voter had none keeps the votes      *)
(* unique and on disk: StartElection and GrantVote save it first.          *)
(***************************************************************************)
LEMMA NewVoteKept ==
    ASSUME TypeOK, VotesKept, NEW i \in Server, NEW t \in Nat, NEW c \in Server,
           \/ meta[i].term < t
           \/ meta[i].term = t /\ meta[i].votedFor \in {Nil, c},
           votes' = votes \cup {VoteIn(i, t, c)},
           meta' = [meta EXCEPT ![i] = [term |-> t, votedFor |-> c]]
    PROVE  VotesKept'
<1>1. meta \in [Server -> Meta] /\ meta[i].term \in Nat /\ Nil \notin Server
  BY ServerAssumption, Zenon DEF TypeOK, Meta
<1>2. ASSUME NEW v \in votes
      PROVE  /\ v.voter \in Server /\ v.term \in Nat /\ v.candidate \in Server
             /\ v = VoteIn(v.voter, v.term, v.candidate)
             /\ \/ meta[v.voter].term > v.term
                \/ meta[v.voter] = [term |-> v.term, votedFor |-> v.candidate]
  BY Zenon DEF TypeOK, Vote, VoteIn, VotesKept
<1>3. ASSUME NEW v \in votes, v.voter = i
      PROVE  v.term < t \/ v = VoteIn(i, t, c)
  <2>0. v.term \in Nat /\ meta[i].term \in Nat
    BY <1>1, <1>2, Zenon
  <2>1. CASE meta[i].term > v.term
    <3>1. meta[i].term <= t
      BY <2>0
    <3> QED
      BY <2>0, <2>1, <3>1
  <2>2. CASE meta[i] = [term |-> v.term, votedFor |-> v.candidate]
    <3>1. meta[i].term = v.term /\ meta[i].votedFor = v.candidate
      BY <2>2
    <3>2. v.term < t \/ (v.term = t /\ v.candidate = c)
      BY <1>1, <1>2, <3>1, Zenon
    <3>3. v = VoteIn(i, v.term, v.candidate)
      BY <1>2, <1>3, Zenon
    <3> QED
      BY <3>2, <3>3, Zenon
  <2> QED
    BY <1>2, <1>3, <2>1, <2>2, Zenon
<1>4. /\ VoteIn(i, t, c).voter = i /\ VoteIn(i, t, c).term = t
      /\ VoteIn(i, t, c).candidate = c
  BY Zenon DEF VoteIn
<1>5. /\ meta'[i] = [term |-> t, votedFor |-> c] /\ meta'[i].term = t
      /\ \A j \in Server \ {i} : meta'[j] = meta[j]
  BY <1>1, Zenon
<1>6. ASSUME NEW v \in votes', NEW w \in votes', v.voter = w.voter, v.term = w.term
      PROVE  v = w
  <2>1. CASE v \in votes /\ w \in votes
    BY <1>6, <2>1, Zenon DEF VotesKept
  <2>2. CASE v \in votes /\ w = VoteIn(i, t, c)
    BY <1>2, <1>3, <1>4, <1>6, <2>2
  <2>3. CASE w \in votes /\ v = VoteIn(i, t, c)
    BY <1>2, <1>3, <1>4, <1>6, <2>3
  <2> QED
    BY <2>1, <2>2, <2>3, Zenon
<1>7. ASSUME NEW v \in votes'
      PROVE  \/ meta'[v.voter].term > v.term
             \/ meta'[v.voter] = [term |-> v.term, votedFor |-> v.candidate]
  <2>1. CASE v = VoteIn(i, t, c)
    BY <1>4, <1>5, <2>1, Zenon
  <2>2. CASE v \in votes /\ v.voter = i
    BY <1>2, <1>3, <1>4, <1>5, <2>2, Zenon
  <2>3. CASE v \in votes /\ v.voter # i
    BY <1>2, <1>5, <2>3, Zenon
  <2> QED
    BY <2>1, <2>2, <2>3, Zenon
<1> QED
  BY <1>6, <1>7, Zenon DEF VotesKept

(***************************************************************************)
(* A record that is saved without a vote, for a later term than the one on *)
(* disk, hides no vote: HandleRequestVote adopting a newer term.           *)
(***************************************************************************)
LEMMA NewTermKept ==
    ASSUME TypeOK, VotesKept, NEW i \in Server, NEW t \in Nat, meta[i].term < t,
           meta' = [meta EXCEPT ![i] = [term |-> t, votedFor |-> Nil]], UNCHANGED votes
    PROVE  VotesKept'
<1>1. meta \in [Server -> Meta] /\ meta[i].term \in Nat
  BY Zenon DEF TypeOK, Meta
<1>2. /\ meta'[i].term = t
      /\ \A j \in Server \ {i} : meta'[j] = meta[j]
  BY <1>1, Zenon
<1>3. ASSUME NEW v \in votes
      PROVE  \/ meta'[v.voter].term > v.term
             \/ meta'[v.voter] = [term |-> v.term, votedFor |-> v.candidate]
  <2>1. v.voter \in Server /\ v.term \in Nat
    BY Zenon DEF TypeOK, Vote
  <2>2. \/ meta[v.voter].term > v.term
        \/ meta[v.voter] = [term |-> v.term, votedFor |-> v.candidate]
    BY Zenon DEF VotesKept
  <2>3. CASE v.voter = i
    <3>1. meta[i].term >= v.term
      BY <1>1, <2>1, <2>2, <2>3
    <3> QED
      BY <1>1, <1>2, <2>1, <2>3, <3>1
  <2> QED
    BY <1>2, <2>1, <2>2, <2>3, Zenon
<1> QED
  BY <1>3, Zenon DEF VotesKept

(***************************************************************************)
(* HandleRequestVote keeps the invariant: a refusal may move the voter to  *)
(* a new term without a vote; a grant is a vote the voter had not given.   *)
(***************************************************************************)
LEMMA HandleRequestVoteKeeps ==
    ASSUME Orderly, ElectionInv, TypeOK', NEW i \in Server, NEW m \in voteReqs,
           HandleRequestVote(i, m)
    PROVE  ElectionInv'
<1>0. /\ TypeOK /\ LoopsTrue /\ VotesKept
      /\ m.term \in Nat /\ m.from \in Server /\ currentTerm[i] \in Nat /\ meta[i].term \in Nat
  BY Zenon DEF ElectionInv, TypeOK, Meta, VoteReq
<1>1. \/ currentTerm[i] = meta[i].term /\ votedFor[i] = meta[i].votedFor
      \/ currentTerm[i] > meta[i].term /\ votedFor[i] = Nil
  BY Zenon DEF ElectionInv, DiskVote
<1>2. CASE RefuseVote(i, m)
  <2> DEFINE record == [term |-> m.term, votedFor |-> Nil]
             reply == [from |-> i, term |-> LargerOf(m.term, currentTerm[i]), granted |-> FALSE]
  <2>1. UNCHANGED <<votes, appendReqs>> /\ AnswerVote(m, reply) /\ ~MayVote(i, m)
    BY <1>2, Zenon DEF RefuseVote, Orderly
  <2>2. LoopsTrue'
    <3>1. reply.granted = FALSE
      BY Zenon
    <3> HIDE DEF reply
    <3> QED
      BY <1>0, <2>1, <3>1, AnswerVoteTrue, Zenon
  <2>3. SendersWon'
    BY <2>1, Zenon DEF ElectionInv, SendersWon
  <2>4. CASE m.term > currentTerm[i]
    <3>1. /\ currentTerm'[i] = m.term /\ votedFor'[i] = Nil /\ role'[i] = Follower
          /\ \A j \in Server \ {i} : /\ currentTerm'[j] = currentTerm[j] /\ role'[j] = role[j]
                                     /\ votedFor'[j] = votedFor[j]
      BY <1>0, <1>2, <2>4 DEF RefuseVote, LargerOf, TypeOK
    <3>2. meta' = [meta EXCEPT ![i] = record]
      BY <1>2, <2>1, <2>4, Zenon DEF RefuseVote, SaveOutcome, Saved, Orderly, LargerOf
    <3>3. /\ meta'[i] = record /\ meta'[i].term = m.term /\ meta'[i].votedFor = Nil
          /\ \A j \in Server \ {i} : meta'[j] = meta[j]
      BY <1>0, <3>2, Zenon DEF TypeOK
    <3>4. DiskVote'
      BY <3>1, <3>3, Zenon DEF ElectionInv, DiskVote
    <3>5. LeadersWon'
      BY <2>1, <3>1, Zenon DEF ElectionInv, LeadersWon, Leader, Follower
    <3>6. meta[i].term < m.term
      BY <1>0, <1>1, <2>4
    <3>7. VotesKept'
      BY <1>0, <2>1, <3>2, <3>6, NewTermKept, Zenon
    <3> QED
      BY <2>2, <2>3, <3>4, <3>5, <3>7, Zenon DEF ElectionInv
  <2>5. CASE ~(m.term > currentTerm[i])
    <3>1. LargerOf(m.term, currentTerm[i]) = currentTerm[i]
      BY <1>0, <2>5, Zenon DEF LargerOf
    <3>2. UNCHANGED <<currentTerm, votedFor, role>>
      BY <1>0, <1>2, <2>5, <3>1, ZenonT(40) DEF RefuseVote, TypeOK
    <3>3. meta' = meta
      <4>1. \E saved \in {meta[i]} : meta' = [meta EXCEPT ![i] = saved]
        BY <1>2, <2>1, <2>5, Zenon DEF RefuseVote
      <4>2. meta' = [meta EXCEPT ![i] = meta[i]] /\ meta \in [Server -> Meta]
        BY <1>0, <4>1, Zenon DEF TypeOK
      <4> QED
        BY <4>2, Zenon
    <3> QED
      BY <2>1, <2>2, <2>3, <3>2, <3>3, Zenon DEF ElectionInv, DiskVote, VotesKept, LeadersWon
  <2> QED
    BY <2>4, <2>5, Zenon
<1>3. CASE GrantVote(i, m)
  <2> DEFINE reply == [from |-> i, term |-> m.term, granted |-> TRUE]
  <2>1. /\ votes' = votes \cup {VoteIn(i, m.term, m.from)}
        /\ meta' = [meta EXCEPT ![i] = [term |-> m.term, votedFor |-> m.from]]
        /\ UNCHANGED appendReqs /\ AnswerVote(m, reply)
    BY <1>3, Zenon DEF GrantVote, VoteRecord, VoteIn
  <2>2. /\ m.term >= currentTerm[i]
        /\ m.term > currentTerm[i] \/ votedFor[i] \in {Nil, m.from}
    BY <1>3, Zenon DEF GrantVote, MayVote, NotStale
  <2>3. \/ meta[i].term < m.term
        \/ meta[i].term = m.term /\ meta[i].votedFor \in {Nil, m.from}
    <3>1. CASE currentTerm[i] > meta[i].term \/ m.term > currentTerm[i]
      BY <1>0, <1>1, <2>2, <3>1
    <3>2. CASE /\ currentTerm[i] = meta[i].term /\ votedFor[i] = meta[i].votedFor
               /\ ~(m.term > currentTerm[i])
      <4>1. m.term = currentTerm[i]
        BY <1>0, <2>2, <3>2
      <4> QED
        BY <2>2, <3>2, <4>1, Zenon
    <3> QED
      BY <1>1, <3>1, <3>2, Zenon
  <2>4. VotesKept'
    BY <1>0, <2>1, <2>3, NewVoteKept, Zenon
  <2>5. LoopsTrue'
    <3>1. /\ votes \subseteq votes'
          /\ reply.granted => VoteIn(reply.from, m.term, m.from) \in votes'
      BY <2>1, Zenon
    <3> HIDE DEF reply
    <3> QED
      BY <1>0, <2>1, <3>1, AnswerVoteTrue, Zenon
  <2>6. SendersWon'
    BY <2>1, WonGrows, FiniteFactsHold DEF ElectionInv, SendersWon
  <2>7. /\ currentTerm'[i] = m.term /\ votedFor'[i] = m.from
        /\ role'[i] = IF m.term > currentTerm[i] THEN Follower ELSE role[i]
        /\ \A j \in Server \ {i} : /\ currentTerm'[j] = currentTerm[j] /\ role'[j] = role[j]
                                   /\ votedFor'[j] = votedFor[j]
    <3>1. /\ currentTerm' = [currentTerm EXCEPT ![i] = m.term]
          /\ votedFor' = [votedFor EXCEPT ![i] = m.from]
          /\ role' = [role EXCEPT ![i] = IF m.term > currentTerm[i] THEN Follower ELSE role[i]]
      BY <1>3, Zenon DEF GrantVote
    <3>2. /\ currentTerm \in [Server -> Nat] /\ votedFor \in [Server -> Server \cup {Nil}]
          /\ role \in [Server -> {Follower, Candidate, Leader}]
      BY <1>0, Zenon DEF TypeOK
    <3> QED
      BY <3>1, <3>2, Zenon
  <2>8. DiskVote'
    <3>1. /\ meta'[i].term = m.term /\ meta'[i].votedFor = m.from
          /\ \A j \in Server \ {i} : meta'[j] = meta[j]
      BY <1>0, <2>1, Zenon DEF TypeOK
    <3> QED
      BY <2>7, <3>1, Zenon DEF ElectionInv, DiskVote
  <2>9. LeadersWon'
    <3> SUFFICES ASSUME NEW j \in Server, role'[j] = Leader
                 PROVE  Won(j, currentTerm'[j], votes')
      BY Zenon DEF LeadersWon
    <3>1. role[j] = Leader /\ currentTerm'[j] = currentTerm[j]
      <4>1. CASE j = i
        <5>1. ~(m.term > currentTerm[i]) /\ role[i] = Leader
          BY <2>7, <4>1, Zenon DEF Leader, Follower
        <5>2. m.term = currentTerm[i]
          BY <1>0, <2>2, <5>1
        <5> QED
          BY <2>7, <4>1, <5>1, <5>2, Zenon
      <4> QED
        BY <2>7, <4>1, Zenon
    <3> QED
      BY <2>1, <3>1, WonGrows, FiniteFactsHold, ZenonT(40) DEF ElectionInv, LeadersWon
  <2> QED
    BY <2>4, <2>5, <2>6, <2>8, <2>9, Zenon DEF ElectionInv
<1> QED
  BY <1>2, <1>3, Zenon DEF HandleRequestVote

(***************************************************************************)
(* The steps of runCandidate keep the invariant: a new election is a first *)
(* vote in its term, and a node that becomes Leader has counted a quorum   *)
(* of real votes.                                                          *)
(***************************************************************************)
LEMMA StartElectionKeeps ==
    ASSUME ElectionInv, TypeOK', NEW i \in Server, StartElection(i)
    PROVE  ElectionInv'
<1> DEFINE term == currentTerm[i] + 1
           alone == IsQuorum({i})
           lp == IF alone THEN Idle ELSE LoopAt("election", term)
<1>0. /\ TypeOK /\ VotesKept /\ term \in Nat /\ currentTerm[i] \in Nat /\ meta[i].term \in Nat
      /\ meta[i].term < term
  <2>1. TypeOK /\ VotesKept /\ DiskVote
    BY Zenon DEF ElectionInv
  <2>2. currentTerm[i] \in Nat /\ meta[i].term \in Nat
    BY <2>1, Zenon DEF TypeOK, Meta
  <2>3. currentTerm[i] >= meta[i].term
    BY <2>1, <2>2 DEF DiskVote
  <2> QED
    BY <2>1, <2>2, <2>3
<1>1. /\ votes' = votes \cup {VoteIn(i, term, i)}
      /\ meta' = [meta EXCEPT ![i] = [term |-> term, votedFor |-> i]]
      /\ loop' = [loop EXCEPT ![i] = lp]
      /\ UNCHANGED appendReqs
  BY Zenon DEF StartElection, VoteIn
<1>2. /\ currentTerm'[i] = term /\ votedFor'[i] = i
      /\ role'[i] = IF alone THEN Leader ELSE Candidate
      /\ \A j \in Server \ {i} : /\ currentTerm'[j] = currentTerm[j] /\ role'[j] = role[j]
                                 /\ votedFor'[j] = votedFor[j]
  BY <1>0, ZenonT(40) DEF StartElection, TypeOK
<1>3. VoteIn(i, term, i) \in votes' /\ votes \subseteq votes'
  BY <1>1, Zenon
<1>4. alone => Won(i, term, votes')
  <2> DEFINE S == {j \in Server : VoteIn(j, term, i) \in votes'}
  <2>1. S \in SUBSET Server /\ {i} \in SUBSET Server /\ {i} \subseteq S
    BY <1>3, Zenon
  <2>2. alone => IsQuorum(S)
    <3> HIDE DEF S
    <3> QED
      BY <2>1, QuorumGrows, FiniteFactsHold, Zenon
  <2> QED
    BY <2>2, Zenon DEF Won
<1>5. LoopTrue(i, lp, votes')
  BY <1>3, IdleTrue, Zenon DEF LoopTrue, LoopAt
<1> HIDE DEF lp, alone, term
<1>6. VotesKept'
  BY <1>0, <1>1, NewVoteKept, Zenon
<1>7. DiskVote'
  <2>1. /\ meta'[i].term = term /\ meta'[i].votedFor = i
        /\ \A j \in Server \ {i} : meta'[j] = meta[j]
    BY <1>0, <1>1, Zenon DEF TypeOK
  <2> QED
    BY <1>2, <2>1, Zenon DEF ElectionInv, DiskVote
<1>8. LeadersWon'
  <2> SUFFICES ASSUME NEW j \in Server, role'[j] = Leader
               PROVE  Won(j, currentTerm'[j], votes')
    BY Zenon DEF LeadersWon
  <2>1. CASE j = i
    BY <1>2, <1>4, <2>1, Zenon DEF Leader, Candidate
  <2>2. CASE j # i
    <3>1. Won(j, currentTerm[j], votes) /\ currentTerm'[j] = currentTerm[j]
      BY <1>2, <2>2, Zenon DEF ElectionInv, LeadersWon
    <3> QED
      BY <1>3, <3>1, WonGrows, FiniteFactsHold, Zenon
  <2> QED
    BY <2>1, <2>2, Zenon
<1>9. LoopsTrue' /\ SendersWon'
  <2>1. ASSUME NEW j \in Server PROVE LoopTrue(j, loop'[j], votes')
    <3>1. CASE j = i
      BY <1>0, <1>1, <1>5, <3>1, Zenon DEF TypeOK
    <3>2. CASE j # i
      <4>1. loop'[j] = loop[j] /\ LoopTrue(j, loop[j], votes)
        BY <1>0, <1>1, <3>2, Zenon DEF ElectionInv, LoopsTrue, TypeOK
      <4> QED
        BY <1>3, <4>1, LoopGrows, Zenon
    <3> QED
      BY <3>1, <3>2, Zenon
  <2> QED
    BY <1>1, <1>3, <2>1, WonGrows, FiniteFactsHold, Zenon DEF ElectionInv, LoopsTrue, SendersWon
<1> QED
  BY <1>6, <1>7, <1>8, <1>9, Zenon DEF ElectionInv

(***************************************************************************)
(* See StartElectionKeeps: the replies, and the end of the election.       *)
(***************************************************************************)
LEMMA CollectVoteKeeps ==
    ASSUME ElectionInv, TypeOK', NEW i \in Server, NEW m \in loop[i].ballots, CollectVote(i, m)
    PROVE  ElectionInv'
<1> DEFINE got == loop[i].grants \cup (IF m.granted THEN {m.from} ELSE {})
           won == IsQuorum(got \cup {i})
           rest == [loop[i] EXCEPT !.grants = got, !.ballots = @ \ {m}]
<1>0. /\ TypeOK /\ loop[i] \in Loop /\ LoopTrue(i, loop[i], votes) /\ loop[i].at = "election"
      /\ m.from \in Server
  <2>1. TypeOK /\ LoopTrue(i, loop[i], votes) /\ loop[i].at = "election"
    BY Zenon DEF ElectionInv, LoopsTrue, CollectVote
  <2>2. loop[i] \in Loop
    BY <2>1, Zenon DEF TypeOK
  <2>3. m.from \in Server
    BY <2>2, Zenon DEF Loop, VoteReply
  <2> QED
    BY <2>1, <2>2, <2>3, Zenon
<1>1. /\ role' = [role EXCEPT ![i] = IF won /\ currentTerm[i] = loop[i].term THEN Leader ELSE role[i]]
      /\ loop' = [loop EXCEPT ![i] = IF won THEN Idle ELSE rest]
      /\ UNCHANGED <<currentTerm, votedFor, meta, appendReqs, votes>>
  BY Zenon DEF CollectVote
<1>2. \A j \in got \cup {i} : j \in Server /\ VoteIn(j, loop[i].term, i) \in votes
  BY <1>0, Zenon DEF LoopTrue, Loop
<1>3. won => Won(i, loop[i].term, votes)
  <2> DEFINE S == {j \in Server : VoteIn(j, loop[i].term, i) \in votes}
             T == got \cup {i}
  <2>1. S \in SUBSET Server /\ T \in SUBSET Server /\ T \subseteq S
    BY <1>2, Zenon
  <2>2. IsQuorum(T) => IsQuorum(S)
    <3> HIDE DEF S, T
    <3> QED
      BY <2>1, QuorumGrows, FiniteFactsHold, Zenon
  <2> QED
    BY <2>2, Zenon DEF Won
<1>4. LoopTrue(i, rest, votes)
  <2> HIDE DEF got
  <2>1. /\ rest.grants = got /\ rest.ballots = loop[i].ballots \ {m}
        /\ rest.at = loop[i].at /\ rest.term = loop[i].term
    BY <1>0, Zenon DEF Loop
  <2> HIDE DEF rest
  <2> QED
    BY <1>0, <1>2, <2>1, Zenon DEF LoopTrue
<1> HIDE DEF won, rest
<1>5. LoopsTrue'
  BY <1>0, <1>1, <1>4, IdleTrue, Zenon DEF ElectionInv, LoopsTrue, TypeOK
<1>6. LeadersWon'
  BY <1>0, <1>1, <1>3, Zenon DEF ElectionInv, LeadersWon, TypeOK
<1>7. DiskVote' /\ VotesKept' /\ SendersWon'
  BY <1>1, Zenon DEF ElectionInv, DiskVote, VotesKept, SendersWon
<1> QED
  BY <1>5, <1>6, <1>7, Zenon DEF ElectionInv

(***************************************************************************)
(* See StartElectionKeeps: all steps of runCandidate.                      *)
(***************************************************************************)
LEMMA CandidateStepKeeps ==
    ASSUME Orderly, ElectionInv, TypeOK', NEW i \in Server, RunCandidateStep(i)
    PROVE  ElectionInv'
<1>0. TypeOK /\ LoopsTrue /\ loop[i] \in Loop
  BY Zenon DEF ElectionInv, TypeOK
<1>1. ASSUME NEW m \in loop[i].ballots, AdoptVoteReplyTerm(i, m)
      PROVE  ElectionInv'
  <2>1. m.term \in Nat /\ currentTerm[i] \in Nat /\ meta[i].term \in Nat
    BY <1>0, Zenon DEF Loop, VoteReply, TypeOK, Meta
  <2>2. m.term > currentTerm[i]
    BY <1>1, Zenon DEF AdoptVoteReplyTerm, Orderly
  <2>3. /\ currentTerm'[i] = m.term /\ votedFor'[i] = Nil /\ role'[i] = Follower
        /\ loop' = [loop EXCEPT ![i] = Idle]
        /\ \A j \in Server \ {i} : /\ currentTerm'[j] = currentTerm[j] /\ role'[j] = role[j]
                                   /\ votedFor'[j] = votedFor[j]
        /\ UNCHANGED <<meta, votes, appendReqs>>
    BY <1>0, <1>1, Zenon DEF AdoptVoteReplyTerm, TypeOK
  <2>4. DiskVote'
    <3>1. m.term > meta[i].term
      BY <2>1, <2>2 DEF ElectionInv, DiskVote
    <3> QED
      BY <2>3, <3>1, Zenon DEF ElectionInv, DiskVote
  <2>5. LoopsTrue'
    BY <1>0, <2>3, IdleTrue, ZenonT(40) DEF LoopsTrue, TypeOK
  <2>6. LeadersWon'
    BY <2>3, Zenon DEF ElectionInv, LeadersWon, Leader, Follower
  <2>7. VotesKept' /\ SendersWon'
    BY <2>3, Zenon DEF ElectionInv, VotesKept, SendersWon
  <2> QED
    BY <2>4, <2>5, <2>6, <2>7, Zenon DEF ElectionInv
<1>2. CASE EndElection(i)
  <2>1. /\ \A j \in Server : role'[j] \in {role[j], Follower}
        /\ loop' = [loop EXCEPT ![i] = Idle]
        /\ UNCHANGED <<currentTerm, votedFor, meta, appendReqs, votes>>
    BY <1>0, <1>2, Zenon DEF EndElection, TypeOK
  <2>2. LeadersWon'
    BY <2>1, Zenon DEF ElectionInv, LeadersWon, Leader, Follower
  <2>3. LoopsTrue'
    BY <1>0, <2>1, IdleTrue, Zenon DEF LoopsTrue, TypeOK
  <2>4. DiskVote' /\ VotesKept' /\ SendersWon'
    BY <2>1, Zenon DEF ElectionInv, DiskVote, VotesKept, SendersWon
  <2> QED
    BY <2>2, <2>3, <2>4, Zenon DEF ElectionInv
<1>3. ~AbortElection(i)
  BY Zenon DEF AbortElection, Orderly
<1> QED
  BY <1>1, <1>2, <1>3, StartElectionKeeps, CollectVoteKeeps, Zenon DEF RunCandidateStep

(***************************************************************************)
(* A restart forgets nothing that counts: NewRaftNode reads the saved term *)
(* with its vote.                                                          *)
(***************************************************************************)
LEMMA RestartKeeps ==
    ASSUME ElectionInv, TypeOK', NEW i \in Server, Restart(i)
    PROVE  ElectionInv'
<1>1. /\ currentTerm'[i] = meta[i].term /\ votedFor'[i] = meta[i].votedFor
      /\ role'[i] = Follower /\ loop' = [loop EXCEPT ![i] = Idle]
      /\ \A j \in Server \ {i} : /\ currentTerm'[j] = currentTerm[j] /\ role'[j] = role[j]
                                 /\ votedFor'[j] = votedFor[j]
      /\ UNCHANGED <<meta, votes, appendReqs>>
  BY DEF Restart, ElectionInv, TypeOK
<1>2. DiskVote'
  BY <1>1, Zenon DEF ElectionInv, DiskVote
<1>3. LoopsTrue'
  BY <1>1, IdleTrue, Zenon DEF ElectionInv, LoopsTrue, TypeOK
<1>4. LeadersWon'
  BY <1>1, Zenon DEF ElectionInv, LeadersWon, Leader, Follower
<1>5. VotesKept' /\ SendersWon'
  BY <1>1, Zenon DEF ElectionInv, VotesKept, SendersWon
<1> QED
  BY <1>2, <1>3, <1>4, <1>5, Zenon DEF ElectionInv

(***************************************************************************)
(* Every step keeps the invariant.                                         *)
(***************************************************************************)
LEMMA ElectionStep ==
    ASSUME Orderly, ElectionInv, TypeOK', [Next]_vars
    PROVE  ElectionInv'
<1>1. ASSUME UNCHANGED <<nodeVars, loop, appendReqs, votes>>
      PROVE  ElectionInv'
  BY <1>1, Zenon DEF ElectionInv, DiskVote, VotesKept, LoopsTrue, LeadersWon, SendersWon, nodeVars
<1>2. CASE UNCHANGED vars
  BY <1>1, <1>2, Zenon DEF vars
<1>3. CASE Next
  <2>1. PICK i \in Server :
          \/ RunCandidateStep(i)
          \/ RunLeaderStep(i)
          \/ \E m \in voteReqs : HandleRequestVote(i, m)
          \/ \E m \in appendReqs : HandleAppendEntries(i, m)
          \/ \E c \in Command : Propose(i, c)
          \/ Restart(i)
    BY <1>3, Zenon DEF Next
  <2>2. ASSUME NEW c \in Command, Propose(i, c)
        PROVE  ElectionInv'
    BY <1>1, <2>2, Zenon DEF Propose
  <2> QED
    BY <2>1, <2>2, CandidateStepKeeps, LeaderStepKeeps, HandleRequestVoteKeeps,
       HandleAppendEntriesKeeps, RestartKeeps, Zenon
<1> QED
  BY <1>2, <1>3, Zenon

(***************************************************************************)
(* The invariant holds in every state.                                     *)
(***************************************************************************)
THEOREM ElectionInvariant ==
    ASSUME Orderly
    PROVE  Spec => []ElectionInv
<1>1. Init /\ TypeOK => ElectionInv
  <2> SUFFICES ASSUME Init, TypeOK PROVE ElectionInv
    BY Zenon
  <2>1. DiskVote /\ VotesKept /\ LeadersWon /\ SendersWon
    BY Zenon DEF Init, DiskVote, VotesKept, LeadersWon, SendersWon, Leader, Follower
  <2>2. LoopsTrue
    BY IdleTrue, Zenon DEF Init, LoopsTrue
  <2> QED
    BY <2>1, <2>2, Zenon DEF ElectionInv
<1>2. ElectionInv /\ TypeOK' /\ [Next]_vars => ElectionInv'
  BY ElectionStep, Zenon
<1> QED
  BY <1>1, <1>2, TypeCorrect, PTL DEF Spec

(***************************************************************************)
(* At most one node is Leader in a term, and all AppendEntries of a term   *)
(* come from one node, for any number of nodes, when no vote reply is read *)
(* late and Save does not fail.                                            *)
(***************************************************************************)
THEOREM OneLeaderPerTerm ==
    ASSUME Orderly
    PROVE  Spec => []ElectionSafety
<1>1. ElectionInv => ElectionSafety
  <2> SUFFICES ASSUME ElectionInv PROVE ElectionSafety
    BY Zenon
  <2>1. \A i, j \in Server :
          role[i] = Leader /\ role[j] = Leader /\ currentTerm[i] = currentTerm[j] => i = j
    BY OneWinner, FiniteFactsHold, Zenon DEF ElectionInv, LeadersWon
  <2>2. \A m, n \in appendReqs : m.term = n.term => m.from = n.from
    BY OneWinner, FiniteFactsHold, Zenon DEF ElectionInv, SendersWon
  <2> QED
    BY <2>1, <2>2, Zenon DEF ElectionSafety
<1> QED
  BY <1>1, ElectionInvariant, PTL

(***************************************************************************)
(* No node votes twice in a term, and its disk bears witness to every vote *)
(* (HandleRequestVote, runCandidate, NewRaftNode), under the same          *)
(* assumptions and with crashes at any moment.                             *)
(***************************************************************************)
THEOREM VotesStayOnDisk ==
    ASSUME Orderly
    PROVE  Spec => []VotesKept
<1>1. ElectionInv => VotesKept
  BY Zenon DEF ElectionInv
<1> QED
  BY <1>1, ElectionInvariant, PTL

-----------------------------------------------------------------------------
(* A Leader's log *)

(***************************************************************************)
(* A Leader that follows another node in HandleAppendEntries moves to a    *)
(* later term: the only sender of its own term is the Leader itself.       *)
(***************************************************************************)
LEMMA FollowRaisesTerm ==
    ASSUME ElectionInv, NEW i \in Server, role[i] = Leader,
           NEW m \in appendReqs, FollowLeader(i, m)
    PROVE  currentTerm'[i] > currentTerm[i]
<1>0. TypeOK /\ VotesKept /\ m.term \in Nat /\ currentTerm[i] \in Nat
  BY AppendReqFields, Zenon DEF ElectionInv, TypeOK
<1>1. currentTerm'[i] = m.term /\ m.term >= currentTerm[i] /\ m.to = i
  BY <1>0, Zenon DEF FollowLeader, NotStale, TypeOK
<1>2. m.term # currentTerm[i]
  <2> SUFFICES ASSUME m.term = currentTerm[i] PROVE FALSE
    BY Zenon
  <2>1. Won(m.from, currentTerm[i], votes) /\ m.from # m.to
    BY Zenon DEF ElectionInv, SendersWon
  <2>2. Won(i, currentTerm[i], votes)
    BY Zenon DEF ElectionInv, LeadersWon
  <2>3. m.from = i
    BY <1>0, <2>1, <2>2, OneWinner, FiniteFactsHold, Zenon
  <2> QED
    BY <1>1, <2>1, <2>3, Zenon
<1> QED
  BY <1>0, <1>1, <1>2

(***************************************************************************)
(* As long as a node is Leader of a term, its log only grows: what         *)
(* proposeEntry has appended is never cut by HandleAppendEntries before    *)
(* the node has left that term.                                            *)
(***************************************************************************)
THEOREM LeaderOnlyAppends ==
    ASSUME Orderly
    PROVE  Spec => LeaderAppendOnly
<1> DEFINE Kept(i) == role[i] = Leader /\ currentTerm'[i] <= currentTerm[i] =>
                        IsPrefix(log[i], log'[i])
<1>1. ElectionInv /\ TypeOK' /\ [Next]_vars => [\A i \in Server : Kept(i)]_vars
  <2> SUFFICES ASSUME ElectionInv, TypeOK', Next, NEW i \in Server,
                      role[i] = Leader, currentTerm'[i] <= currentTerm[i]
               PROVE  IsPrefix(log[i], log'[i])
    BY Zenon
  <2>0. /\ TypeOK /\ log[i] \in Seq(Entry) /\ Len(log[i]) \in Nat
        /\ currentTerm[i] \in Nat /\ currentTerm'[i] \in Nat
    BY DEF ElectionInv, TypeOK
  <2>1. ASSUME log'[i] = log[i]
        PROVE  IsPrefix(log[i], log'[i])
    BY <2>0, <2>1 DEF IsPrefix
  <2>2. ASSUME NEW j \in Server, NEW m \in appendReqs, HandleAppendEntries(j, m)
        PROVE  log'[i] = log[i]
    <3>1. CASE j = i
      <4>1. RejectStaleAppend(i, m)
        <5>1. ~FollowLeader(i, m)
          BY <2>0, FollowRaisesTerm
        <5> QED
          BY <2>2, <3>1, <5>1, Zenon
             DEF HandleAppendEntries, RejectMissing, RejectConflict, AcceptEntries, FailToStore
      <4> QED
        BY <4>1, Zenon DEF RejectStaleAppend, logVars
    <3>2. CASE j # i
      BY <2>0, <2>2, <3>2, Zenon
         DEF HandleAppendEntries, RejectStaleAppend, RejectMissing, RejectConflict,
             AcceptEntries, FailToStore, logVars, TypeOK
    <3> QED
      BY <3>1, <3>2, Zenon
  <2>3. ASSUME NEW j \in Server, NEW c \in Command, Propose(j, c)
        PROVE  IsPrefix(log[i], log'[i])
    <3> DEFINE e == [term |-> currentTerm[j], cmd |-> c]
    <3>1. CASE j = i
      <4>1. e \in Entry
        BY <2>0, <3>1, Zenon DEF Entry
      <4>2. log'[i] = Append(log[i], e)
        BY <2>0, <2>3, <3>1, Zenon DEF Propose, TypeOK
      <4> HIDE DEF e
      <4>3. /\ Len(Append(log[i], e)) = Len(log[i]) + 1
            /\ \A k \in 1..Len(log[i]) : Append(log[i], e)[k] = log[i][k]
        BY <2>0, <4>1, AppendProperties
      <4>4. SubSeq(log[i], 1, Len(log[i])) = SubSeq(Append(log[i], e), 1, Len(log[i]))
        <5>1. ASSUME NEW s, \A k \in 1..Len(log[i]) : s[k] = log[i][k]
              PROVE  /\ SubSeq(s, 1, Len(log[i])) \in Seq(Entry)
                     /\ Len(SubSeq(s, 1, Len(log[i]))) = Len(log[i])
                     /\ \A k \in 1..Len(log[i]) : SubSeq(s, 1, Len(log[i]))[k] = log[i][k]
          <6>1. \A k \in 1..Len(log[i]) : s[k] \in Entry
            BY <2>0, <5>1, ElementOfSeq, Zenon
          <6> QED
            BY <2>0, <5>1, <6>1, SubSeqProperties
        <5> QED
          BY <4>3, <5>1, SeqEqual
      <4> QED
        BY <2>0, <4>2, <4>3, <4>4 DEF IsPrefix
    <3>2. CASE j # i
      BY <2>0, <2>1, <2>3, <3>2, Zenon DEF Propose, TypeOK
    <3> QED
      BY <3>1, <3>2, Zenon
  <2>4. ASSUME NEW j \in Server,
               \/ RunCandidateStep(j) \/ RunLeaderStep(j)
               \/ \E m \in voteReqs : HandleRequestVote(j, m)
               \/ Restart(j)
        PROVE  log' = log
    <3>1. CASE RunCandidateStep(j)
      BY <3>1, Zenon DEF RunCandidateStep, StartElection, AbortElection, CollectVote,
                  AdoptVoteReplyTerm, EndElection, logVars
    <3>2. CASE RunLeaderStep(j)
      BY <3>2, Zenon DEF RunLeaderStep, RunLeader, SendHeartbeats, LeaveLeadership,
                  AdoptAppendReplyTerm, CollectSuccess, CollectFailure, RoundTimeout, logVars
    <3>3. CASE \E m \in voteReqs : HandleRequestVote(j, m)
      BY <3>3, Zenon DEF HandleRequestVote, RefuseVote, GrantVote, logVars
    <3>4. CASE Restart(j)
      BY <3>4, Zenon DEF Restart
    <3> QED
      BY <2>4, <3>1, <3>2, <3>3, <3>4, Zenon
  <2> QED
    BY <2>1, <2>2, <2>3, <2>4, Zenon DEF Next
<1>2. Spec => [][\A i \in Server : Kept(i)]_vars
  BY <1>1, ElectionInvariant, TypeCorrect, PTL DEF Spec
<1> QED
  BY <1>2, Zenon DEF LeaderAppendOnly

-----------------------------------------------------------------------------
(* Votes when Save fails *)

(***************************************************************************)
(* No node is in a term, or has a term on disk, that is earlier than one   *)
(* it has voted in.                                                        *)
(***************************************************************************)
TermsKept == TypeOK /\ VoteTermKept /\ \A v \in votes : currentTerm[v.voter] >= v.term

(***************************************************************************)
(* What a step may do to the terms of a node, in memory and on disk: never *)
(* below the one in memory, except that a restart goes back to the disk.   *)
(***************************************************************************)
TermsGuarded(j) ==
    /\ meta'[j] = meta[j] \/ meta'[j].term >= currentTerm[j]
    /\ currentTerm'[j] >= currentTerm[j] \/ currentTerm'[j] = meta[j].term

NewVote(v) == currentTerm'[v.voter] = v.term /\ meta'[v.voter].term = v.term

(***************************************************************************)
(* Such a step, with new votes only in the saved term, keeps TermsKept.    *)
(***************************************************************************)
LEMMA GuardedStepKeeps ==
    ASSUME TermsKept, TypeOK', \A j \in Server : TermsGuarded(j),
           \A v \in votes' : v \in votes \/ NewVote(v)
    PROVE  TermsKept'
<1> SUFFICES ASSUME NEW v \in votes'
             PROVE  meta'[v.voter].term >= v.term /\ currentTerm'[v.voter] >= v.term
  BY Zenon DEF TermsKept, VoteTermKept
<1>1. v.voter \in Server /\ v.term \in Nat
  BY Zenon DEF TypeOK, Vote
<1>2. /\ meta[v.voter].term \in Nat /\ meta'[v.voter].term \in Nat
      /\ currentTerm[v.voter] \in Nat /\ currentTerm'[v.voter] \in Nat
  BY <1>1, Zenon DEF TermsKept, TypeOK, Meta
<1>3. CASE NewVote(v)
  BY <1>1, <1>2, <1>3 DEF NewVote
<1>4. CASE v \in votes
  <2>1. meta[v.voter].term >= v.term /\ currentTerm[v.voter] >= v.term
    BY <1>4, Zenon DEF TermsKept, VoteTermKept
  <2>2. /\ meta'[v.voter] = meta[v.voter] \/ meta'[v.voter].term >= currentTerm[v.voter]
        /\ \/ currentTerm'[v.voter] >= currentTerm[v.voter]
           \/ currentTerm'[v.voter] = meta[v.voter].term
    BY <1>1, Zenon DEF TermsGuarded
  <2>3. meta'[v.voter].term = meta[v.voter].term \/ meta'[v.voter].term >= currentTerm[v.voter]
    BY <2>2, Zenon
  <2> QED
    BY <1>1, <1>2, <2>1, <2>2, <2>3
<1> QED
  BY <1>3, <1>4, Zenon

(***************************************************************************)
(* Every step is guarded when no vote reply is read late, though Save may  *)
(* fail: a newer term never replaces a record by an older one, and a vote  *)
(* is on disk when it is given.                                            *)
(***************************************************************************)
LEMMA StepsGuarded ==
    ASSUME ~LateReplies, TypeOK, TypeOK', [Next]_vars
    PROVE  /\ \A j \in Server : TermsGuarded(j)
           /\ \A v \in votes' : v \in votes \/ NewVote(v)
<1> DEFINE Goal == /\ \A j \in Server : TermsGuarded(j)
                   /\ \A v \in votes' : v \in votes \/ NewVote(v)
<1>0. /\ currentTerm \in [Server -> Nat] /\ meta \in [Server -> Meta]
      /\ \A j \in Server : currentTerm[j] \in Nat /\ meta[j].term \in Nat
      /\ \A j \in Server : loop[j] \in Loop
      /\ \A m \in voteReqs : m \in VoteReq
  BY Zenon DEF TypeOK, Meta
<1>1. ASSUME UNCHANGED <<currentTerm, meta, votes>>
      PROVE  Goal
  BY <1>0, <1>1 DEF TermsGuarded
<1> DEFINE Moves(i, t, record) ==
             /\ t \in Nat
             /\ t >= currentTerm[i] \/ t = meta[i].term
             /\ record = meta[i] \/ record.term >= currentTerm[i]
             /\ currentTerm' = [currentTerm EXCEPT ![i] = t]
             /\ meta' = [meta EXCEPT ![i] = record]
             /\ \A v \in votes' :
                  v \in votes \/ (v.voter = i /\ v.term = t /\ record.term = t)
<1>2. ASSUME NEW i \in Server, NEW t, NEW record, Moves(i, t, record)
      PROVE  Goal
  <2>1. /\ currentTerm'[i] = t /\ meta'[i] = record
        /\ \A j \in Server \ {i} : currentTerm'[j] = currentTerm[j] /\ meta'[j] = meta[j]
    BY <1>0, <1>2, Zenon
  <2>2. \A j \in Server : TermsGuarded(j)
    BY <1>0, <1>2, <2>1 DEF TermsGuarded
  <2> QED
    BY <1>2, <2>1, <2>2, Zenon DEF NewVote
<1> HIDE DEF Goal, Moves
<1>3. ASSUME NEW i \in Server, StartElection(i) PROVE Goal
  <2> DEFINE t == currentTerm[i] + 1
             record == [term |-> t, votedFor |-> i]
  <2>1. t \in Nat /\ t >= currentTerm[i] /\ record.term = t /\ record.term >= currentTerm[i]
    BY <1>0
  <2>2. /\ currentTerm' = [currentTerm EXCEPT ![i] = t]
        /\ meta' = [meta EXCEPT ![i] = record]
        /\ votes' = votes \cup {VoteIn(i, t, i)}
    BY <1>3, Zenon DEF StartElection, VoteIn
  <2>3. \A v \in votes' : v \in votes \/ (v.voter = i /\ v.term = t /\ record.term = t)
    BY <2>1, <2>2 DEF VoteIn
  <2> HIDE DEF t, record
  <2>4. Moves(i, t, record)
    BY <2>1, <2>2, <2>3, Zenon DEF Moves
  <2> QED
    BY <1>2, <2>4, Zenon
<1>4. ASSUME NEW i \in Server, AbortElection(i) PROVE Goal
  <2>1. PICK record \in {meta[i], [term |-> currentTerm[i] + 1, votedFor |-> i]} :
          meta' = [meta EXCEPT ![i] = record]
    BY <1>4, Zenon DEF AbortElection, Saved
  <2>2. /\ currentTerm' = [currentTerm EXCEPT ![i] = currentTerm[i]] /\ votes' = votes
        /\ currentTerm[i] \in Nat /\ currentTerm[i] >= currentTerm[i]
    BY <1>0, <1>4 DEF AbortElection
  <2>3. record = meta[i] \/ record.term >= currentTerm[i]
    BY <1>0, <2>1
  <2>4. Moves(i, currentTerm[i], record)
    BY <2>1, <2>2, <2>3, Zenon DEF Moves
  <2> QED
    BY <1>2, <2>4, Zenon
<1>5. ASSUME NEW i \in Server, NEW m \in voteReqs, RefuseVote(i, m) PROVE Goal
  <2> DEFINE t == LargerOf(m.term, currentTerm[i])
  <2>1. t \in Nat /\ t >= currentTerm[i]
    <3>1. m.term \in Nat /\ currentTerm[i] \in Nat
      BY <1>0, Zenon DEF VoteReq
    <3> QED
      BY <3>1 DEF LargerOf
  <2>2. /\ currentTerm' = [currentTerm EXCEPT ![i] = t] /\ votes' = votes
        /\ \E record \in {meta[i], [term |-> t, votedFor |-> Nil],
                          [term |-> t, votedFor |-> m.from]} :
             meta' = [meta EXCEPT ![i] = record]
    BY <1>5, Zenon DEF RefuseVote, Saved
  <2> HIDE DEF t
  <2>3. PICK record \in {meta[i], [term |-> t, votedFor |-> Nil],
                         [term |-> t, votedFor |-> m.from]} :
          meta' = [meta EXCEPT ![i] = record]
    BY <2>2, Zenon
  <2>4. record = meta[i] \/ record.term >= currentTerm[i]
    BY <2>1, <2>3
  <2>5. Moves(i, t, record)
    BY <2>1, <2>2, <2>3, <2>4, Zenon DEF Moves
  <2> QED
    BY <1>2, <2>5, Zenon
<1>6. ASSUME NEW i \in Server, NEW m \in voteReqs, GrantVote(i, m) PROVE Goal
  <2> DEFINE record == [term |-> m.term, votedFor |-> m.from]
  <2>1. m.term \in Nat /\ m.term >= currentTerm[i] /\ record.term = m.term
    BY <1>6, Zenon DEF GrantVote, MayVote, NotStale, TypeOK, VoteReq
  <2>2. /\ currentTerm' = [currentTerm EXCEPT ![i] = m.term]
        /\ meta' = [meta EXCEPT ![i] = record]
        /\ votes' = votes \cup {VoteIn(i, m.term, m.from)}
    BY <1>6, Zenon DEF GrantVote, VoteRecord, VoteIn
  <2>3. record.term >= currentTerm[i]
    BY <2>1, Zenon
  <2>4. \A v \in votes' :
          v \in votes \/ (v.voter = i /\ v.term = m.term /\ record.term = m.term)
    BY <2>1, <2>2 DEF VoteIn
  <2> HIDE DEF record
  <2>5. Moves(i, m.term, record)
    BY <2>1, <2>2, <2>3, <2>4, Zenon DEF Moves
  <2> QED
    BY <1>2, <2>5, Zenon
<1>7. ASSUME NEW i \in Server, NEW m \in appendReqs, HandleAppendEntries(i, m) PROVE Goal
  <2>1. CASE RejectStaleAppend(i, m)
    BY <1>1, <2>1, Zenon DEF RejectStaleAppend, nodeVars
  <2>2. CASE FollowLeader(i, m)
    <3>1. m.term \in Nat /\ m.term >= currentTerm[i]
      BY <2>2, AppendReqFields, Zenon DEF FollowLeader, NotStale
    <3>2. PICK record \in {meta[i], [term |-> m.term, votedFor |-> Nil]} :
            meta' = [meta EXCEPT ![i] = record]
      BY <2>2, Zenon DEF FollowLeader, Saved
    <3>3. record = meta[i] \/ record.term >= currentTerm[i]
      BY <3>1, <3>2
    <3>4. currentTerm' = [currentTerm EXCEPT ![i] = m.term] /\ votes' = votes
      BY <2>2, Zenon DEF FollowLeader
    <3>5. Moves(i, m.term, record)
      BY <3>1, <3>2, <3>3, <3>4, Zenon DEF Moves
    <3> QED
      BY <1>2, <3>5, Zenon
  <2> QED
    BY <1>7, <2>1, <2>2, Zenon
       DEF HandleAppendEntries, RejectMissing, RejectConflict, AcceptEntries, FailToStore
<1>8. ASSUME NEW i \in Server, NEW t \in Nat, t >= currentTerm[i] \/ t = meta[i].term,
             currentTerm' = [currentTerm EXCEPT ![i] = t], UNCHANGED <<meta, votes>>
      PROVE  Goal
  <2>1. meta' = [meta EXCEPT ![i] = meta[i]]
    BY <1>0, <1>8, Zenon
  <2>2. Moves(i, t, meta[i])
    BY <1>8, <2>1, Zenon DEF Moves
  <2> QED
    BY <1>2, <2>2, Zenon
<1>9. ASSUME NEW i \in Server, RunCandidateStep(i) PROVE Goal
  <2>1. ASSUME NEW m \in loop[i].ballots, AdoptVoteReplyTerm(i, m) PROVE Goal
    <3>0. loop[i] \in Loop
      BY <1>0, <1>9, Zenon
    <3>1. m.term \in Nat /\ loop[i].term \in Nat
      BY <2>1, <3>0, Zenon DEF Loop, VoteReply
    <3>2. m.term >= currentTerm[i]
      BY <2>1, <3>1 DEF AdoptVoteReplyTerm
    <3> QED
      BY <1>8, <1>9, <2>1, <3>1, <3>2, Zenon DEF AdoptVoteReplyTerm
  <2>2. ASSUME NEW m \in loop[i].ballots, CollectVote(i, m) PROVE Goal
    BY <1>1, <2>2, Zenon DEF CollectVote
  <2>3. CASE EndElection(i)
    BY <1>1, <2>3, Zenon DEF EndElection
  <2> QED
    BY <1>3, <1>4, <1>9, <2>1, <2>2, <2>3, Zenon DEF RunCandidateStep
<1>10. ASSUME NEW i \in Server, RunLeaderStep(i) PROVE Goal
  <2>1. ASSUME NEW m \in loop[i].acks, AdoptAppendReplyTerm(i, m) PROVE Goal
    <3>1. LargerOf(currentTerm[i], m.term) \in Nat /\ LargerOf(currentTerm[i], m.term) >= currentTerm[i]
      <4>0. loop[i] \in Loop /\ currentTerm[i] \in Nat
        BY <1>0, <1>10, Zenon
      <4>1. m.term \in Nat
        BY <2>1, <4>0, Zenon DEF Loop, AppendReply
      <4> QED
        BY <4>0, <4>1 DEF LargerOf
    <3> QED
      BY <1>8, <1>10, <2>1, <3>1, Zenon DEF AdoptAppendReplyTerm
  <2>2. ASSUME ~\E m \in loop[i].acks : AdoptAppendReplyTerm(i, m) PROVE Goal
    <3>1. UNCHANGED <<currentTerm, meta, votes>>
      BY <1>10, <2>2, Zenon DEF RunLeaderStep, RunLeader, SendHeartbeats, LeaveLeadership,
                         CollectSuccess, CollectFailure, RoundTimeout, nodeVars
    <3> QED
      BY <1>1, <3>1, Zenon
  <2> QED
    BY <2>1, <2>2, Zenon
<1>11. ASSUME NEW i \in Server, Restart(i) PROVE Goal
  BY <1>0, <1>8, <1>11, Zenon DEF Restart
<1>12. ASSUME NEW i \in Server, NEW c \in Command, Propose(i, c) PROVE Goal
  BY <1>1, <1>12, Zenon DEF Propose, nodeVars
<1>13. ASSUME UNCHANGED vars PROVE Goal
  BY <1>1, <1>13, Zenon DEF vars, nodeVars
<1>14. Goal
  BY <1>5, <1>6, <1>7, <1>9, <1>10, <1>11, <1>12, <1>13, Zenon DEF Next, HandleRequestVote
<1> QED
  BY <1>14, Zenon DEF Goal

(***************************************************************************)
(* Even when Save fails now and then, no restart takes a node back before  *)
(* a term it has voted in: HandleRequestVote and runCandidate give no vote *)
(* whose Save returned an error.                                           *)
(***************************************************************************)
THEOREM VoteTermsStayOnDisk ==
    ASSUME ~LateReplies
    PROVE  Spec => []VoteTermKept
<1>1. Init /\ TypeOK => TermsKept
  BY Zenon DEF Init, TermsKept, VoteTermKept
<1>2. TermsKept /\ TypeOK' /\ [Next]_vars => TermsKept'
  <2> SUFFICES ASSUME TermsKept, TypeOK', [Next]_vars PROVE TermsKept'
    BY Zenon
  <2>1. TypeOK
    BY Zenon DEF TermsKept
  <2> QED
    BY <2>1, StepsGuarded, GuardedStepKeeps, Zenon
<1>3. TermsKept => VoteTermKept
  BY Zenon DEF TermsKept
<1> QED
  BY <1>1, <1>2, <1>3, TypeCorrect, PTL DEF Spec

-----------------------------------------------------------------------------
(* Log matching *)

(***************************************************************************)
(* What a step does to a Leader: it was Leader before, of this term and    *)
(* with this log; or it has just won, and nobody has an entry of its term. *)
(***************************************************************************)
StaysLeader(i) == role[i] = Leader /\ currentTerm'[i] = currentTerm[i] /\ log'[i] = log[i]

NewLeader(i, H) ==
    Elected(i, currentTerm[i])' /\ \A g \in H : \A k \in 1..Len(g) : g[k].term # currentTerm'[i]

(***************************************************************************)
(* Such a step, with logs and requests from the family, keeps the family.  *)
(***************************************************************************)
LEMMA FamilyStays ==
    ASSUME TypeOK, LeadersElected, NEW H \in SUBSET Seq(Entry), Family(H),
           \A w \in Server : \A t \in Nat : Elected(w, t) => Elected(w, t)',
           \A i \in Server : log'[i] \in H,
           \A m \in appendReqs' : m \in appendReqs \/ \E g \in H : TakenFrom(m, g),
           \A i \in Server : role'[i] = Leader => StaysLeader(i) \/ NewLeader(i, H)
    PROVE  LeadersElected' /\ \E G \in SUBSET Seq(Entry) : Family(G)'
<1>1. LeadersElected'
  <2> SUFFICES ASSUME NEW i \in Server, role'[i] = Leader PROVE Elected(i, currentTerm[i])'
    BY Zenon DEF LeadersElected
  <2>1. CASE StaysLeader(i)
    <3>1. currentTerm[i] \in Nat /\ Elected(i, currentTerm[i]) /\ currentTerm'[i] = currentTerm[i]
      BY <2>1, Zenon DEF StaysLeader, LeadersElected, TypeOK
    <3>2. \A t \in Nat : Elected(i, t) => Elected(i, t)'
      BY Zenon
    <3> QED
      BY <3>1, <3>2, Zenon DEF Elected
  <2>2. CASE NewLeader(i, H)
    BY <2>2, Zenon DEF NewLeader
  <2> QED
    BY <2>1, <2>2, Zenon
<1>2. \A m \in appendReqs' : \E g \in H : TakenFrom(m, g)
  BY Zenon DEF Family
<1>3. \A g \in H : \A k \in 1..Len(g) : \E w \in Server : Elected(w, g[k].term)'
  <2> SUFFICES ASSUME NEW g \in H, NEW k \in 1..Len(g)
               PROVE  \E w \in Server : Elected(w, g[k].term)'
    BY Zenon
  <2>1. g[k].term \in Nat
    <3>1. g[k] \in Entry
      BY ElementOfSeq, Zenon
    <3> QED
      BY <3>1, Zenon DEF Entry
  <2>2. PICK w \in Server : Elected(w, g[k].term)
    BY Zenon DEF Family
  <2> QED
    BY <2>1, <2>2, Zenon
<1>4. ASSUME NEW i \in Server, role'[i] = Leader, NEW g \in H, NEW k \in 1..Len(g),
             g[k].term = currentTerm'[i]
      PROVE  k <= Len(log'[i]) /\ log'[i][k].term = currentTerm'[i]
  <2>1. StaysLeader(i)
    BY <1>4, Zenon DEF NewLeader
  <2> QED
    BY <1>4, <2>1, Zenon DEF StaysLeader, Family
<1>5. /\ \A g, h \in H : Agree(g, h)
      /\ \A g \in H : \A n \in 0..Len(g) : SubSeq(g, 1, n) \in H
  BY Zenon DEF Family
<1>6. Family(H)'
  BY <1>2, <1>3, <1>4, <1>5, Zenon DEF Family
<1> QED
  BY <1>1, <1>6, Zenon

(***************************************************************************)
(* proposeEntry adds one log to the family, the Leader's with the new      *)
(* entry: no member has an entry of this term at its index.                *)
(***************************************************************************)
LEMMA ProposeKeepsFamily ==
    ASSUME FiniteFacts, ElectionInv, LeadersElected, NEW H \in SUBSET Seq(Entry), Family(H),
           NEW i \in Server, NEW c \in Command, Propose(i, c)
    PROVE  LeadersElected' /\ \E G \in SUBSET Seq(Entry) : Family(G)'
<1> DEFINE e == [term |-> currentTerm[i], cmd |-> c]
           len == Len(log[i])
           grown == Append(log[i], e)
<1>0. /\ TypeOK /\ log[i] \in H /\ log[i] \in Seq(Entry) /\ len \in Nat
      /\ e \in Entry /\ e.term = currentTerm[i] /\ role[i] = Leader
  <2>1. TypeOK /\ role[i] = Leader /\ log[i] \in H
    BY Zenon DEF ElectionInv, Propose, Family
  <2>2. log[i] \in Seq(Entry) /\ currentTerm[i] \in Nat
    BY <2>1, Zenon DEF TypeOK
  <2> QED
    BY <2>1, <2>2, LenProperties, Zenon DEF Entry
<1>1. /\ log' = [log EXCEPT ![i] = grown]
      /\ UNCHANGED <<currentTerm, role, loop, appendReqs, votes>>
  BY Zenon DEF Propose, nodeVars
<1> HIDE DEF e
<1>2. /\ grown \in Seq(Entry) /\ Len(grown) = len + 1
      /\ \A k \in 1..len : grown[k] = log[i][k]
      /\ grown[len + 1] = e
  BY <1>0, AppendProperties, SMTT(30)
<1> HIDE DEF len, grown
<1>3. log'[i] = grown /\ \A j \in Server \ {i} : log'[j] = log[j]
  BY <1>0, <1>1, Zenon DEF TypeOK
<1>4. \A w, t : Elected(w, t)' <=> Elected(w, t)
  BY <1>1, Zenon DEF Elected, Won
<1>5. LeadersElected'
  BY <1>1, <1>4, Zenon DEF LeadersElected
<1>6. \A g \in H : \A k \in 1..Len(g) : g[k].term = currentTerm[i] =>
        k <= len /\ log[i][k].term = currentTerm[i]
  BY <1>0, Zenon DEF Family, len
<1>7. PICK G \in SUBSET Seq(Entry) : G = H \cup {grown}
  BY <1>2, Zenon
<1>8. \A j \in Server : log'[j] \in G
  BY <1>3, <1>7, Zenon DEF Family
<1>9. \A m \in appendReqs' : \E g \in G : TakenFrom(m, g)
  BY <1>1, <1>7, Zenon DEF Family
<1>10. \A g, h \in G : Agree(g, h)
  <2>1. ASSUME NEW h \in H PROVE Agree(grown, h) /\ Agree(h, grown)
    <3>0. Len(h) \in Nat
      BY LenProperties, Zenon
    <3> SUFFICES ASSUME NEW k \in (1..Len(grown)) \cap (1..Len(h)), grown[k].term = h[k].term
                 PROVE  \A n \in 1..k : grown[n] = h[n]
      BY Zenon DEF Agree
    <3>1. k \in 1..len
      <4> SUFFICES ASSUME k = len + 1 PROVE FALSE
        BY <1>0, <1>2, <3>0, SMTT(30)
      <4>1. k \in 1..Len(h) /\ h[k].term = currentTerm[i]
        BY <1>0, <1>2, Zenon
      <4>2. k <= len
        BY <1>6, <4>1, Zenon
      <4> QED
        BY <1>0, <4>2, SMTT(30)
    <3>2. grown[k] = log[i][k]
      BY <1>2, <3>1, Zenon
    <3>3. Agree(log[i], h)
      BY <1>0, Zenon DEF Family
    <3>4. \A n \in 1..k : log[i][n] = h[n]
      BY <3>1, <3>2, <3>3, Zenon DEF Agree, len
    <3>5. \A n \in 1..k : n \in 1..len
      BY <1>0, <3>1, SMTT(30)
    <3> QED
      BY <1>2, <3>4, <3>5, Zenon
  <2>2. Agree(grown, grown)
    BY Zenon DEF Agree
  <2> QED
    BY <1>7, <2>1, <2>2, Zenon DEF Family
<1>11. \A g \in G : \A n \in 0..Len(g) : SubSeq(g, 1, n) \in G
  <2> SUFFICES ASSUME NEW n \in 0..Len(grown) PROVE SubSeq(grown, 1, n) \in G
    BY <1>7, Zenon DEF Family
  <2>0. n \in Nat /\ n <= Len(grown) /\ Len(grown) \in Nat
    BY <1>0, <1>2, SMTT(30)
  <2>1. /\ SubSeq(grown, 1, n) \in Seq(Entry) /\ Len(SubSeq(grown, 1, n)) = n
        /\ \A k \in 1..n : SubSeq(grown, 1, n)[k] = grown[k]
    BY <1>2, <2>0, BeginningOf, Zenon
  <2>2. CASE n = len + 1
    BY <1>2, <1>7, <2>1, <2>2, SeqEqual, Zenon
  <2>3. CASE n # len + 1
    <3>0. n <= len /\ \A k \in 1..n : k \in 1..len
      BY <1>0, <1>2, <2>0, <2>3
    <3>1. /\ SubSeq(log[i], 1, n) \in Seq(Entry) /\ Len(SubSeq(log[i], 1, n)) = n
          /\ \A k \in 1..n : SubSeq(log[i], 1, n)[k] = log[i][k]
      BY <1>0, <2>0, <3>0, BeginningOf, Zenon DEF len
    <3>2. SubSeq(grown, 1, n) = SubSeq(log[i], 1, n)
      <4>1. \A k \in 1..n : SubSeq(grown, 1, n)[k] = SubSeq(log[i], 1, n)[k]
        BY <1>2, <2>1, <3>0, <3>1, Zenon
      <4> QED
        BY <2>1, <3>1, <4>1, SeqEqual, Zenon
    <3>3. SubSeq(log[i], 1, n) \in H
      BY <1>0, <2>0, <3>0, SMTT(30) DEF Family, len
    <3> QED
      BY <1>7, <3>2, <3>3, Zenon
  <2> QED
    BY <2>2, <2>3, Zenon
<1>12. \A g \in G : \A k \in 1..Len(g) : \E w \in Server : Elected(w, g[k].term)'
  <2>1. ASSUME NEW g \in H, NEW k \in 1..Len(g) PROVE \E w \in Server : Elected(w, g[k].term)
    BY Zenon DEF Family
  <2>2. ASSUME NEW k \in 1..Len(grown) PROVE \E w \in Server : Elected(w, grown[k].term)
    <3>1. CASE k = len + 1
      BY <1>0, <1>2, <3>1, Zenon DEF LeadersElected
    <3>2. CASE k # len + 1
      <4>1. k \in 1..len
        BY <1>0, <1>2, <3>2, SMTT(30)
      <4> QED
        BY <1>0, <1>2, <2>1, <4>1, Zenon DEF len
    <3> QED
      BY <3>1, <3>2, Zenon
  <2> QED
    BY <1>4, <1>7, <2>1, <2>2, Zenon
<1>13. ASSUME NEW j \in Server, role'[j] = Leader, NEW g \in G, NEW k \in 1..Len(g),
              g[k].term = currentTerm'[j]
       PROVE  k <= Len(log'[j]) /\ log'[j][k].term = currentTerm'[j]
  <2>0. role[j] = Leader /\ currentTerm'[j] = currentTerm[j] /\ g[k].term = currentTerm[j]
    BY <1>1, <1>13, Zenon
  <2>1. ASSUME NEW h \in H, NEW n \in 1..Len(h), h[n].term = currentTerm[j]
        PROVE  n <= Len(log[j]) /\ log[j][n].term = currentTerm[j]
    BY <2>0, <2>1, Zenon DEF Family
  <2>2. CASE j = i
    <3>1. CASE g = grown
      BY <1>0, <1>2, <1>3, <1>13, <2>0, <2>2, <3>1, SMTT(30)
    <3>2. CASE g \in H
      <4>0. Len(g) \in Nat
        BY <3>2, LenProperties, Zenon
      <4>1. k <= len /\ log[i][k].term = currentTerm[i]
        BY <2>0, <2>1, <2>2, <3>2, Zenon DEF len
      <4>2. k \in 1..len
        BY <1>0, <4>0, <4>1, SMTT(30)
      <4> QED
        BY <1>0, <1>2, <1>3, <2>0, <2>2, <4>0, <4>1, <4>2, SMTT(30)
    <3> QED
      BY <1>7, <3>1, <3>2, Zenon
  <2>3. CASE j # i
    <3>1. currentTerm[j] # currentTerm[i]
      BY <1>0, <2>0, <2>3, OneWinner, Zenon DEF ElectionInv, LeadersWon
    <3>2. CASE g = grown
      <4>1. k \in 1..len
        BY <1>0, <1>2, <2>0, <3>1, <3>2, SMTT(30)
      <4>2. log[i][k].term = currentTerm[j] /\ k \in 1..Len(log[i])
        BY <1>2, <2>0, <3>2, <4>1, Zenon DEF len
      <4>3. k <= Len(log[j]) /\ log[j][k].term = currentTerm[j]
        BY <1>0, <2>1, <4>2, Zenon
      <4> QED
        BY <1>3, <2>0, <2>3, <4>3, Zenon
    <3>3. CASE g \in H
      BY <1>3, <2>0, <2>1, <2>3, <3>3, Zenon
    <3> QED
      BY <1>7, <3>2, <3>3, Zenon
  <2> QED
    BY <2>2, <2>3, Zenon
<1>14. Family(G)'
  BY <1>8, <1>9, <1>10, <1>11, <1>12, <1>13, Zenon DEF Family
<1> QED
  BY <1>5, <1>14, Zenon

(***************************************************************************)
(* A step that starts no election and touches neither logs nor requests,   *)
(* and after which nobody is Leader who was not before.                    *)
(***************************************************************************)
LEMMA QuietLogs ==
    ASSUME FiniteFacts, TypeOK, LeadersElected, NEW H \in SUBSET Seq(Entry), Family(H),
           votes \subseteq votes', NoNewElection, UNCHANGED <<log, appendReqs>>,
           \A i \in Server : role'[i] = Leader =>
               role[i] = Leader /\ currentTerm'[i] = currentTerm[i]
    PROVE  LeadersElected' /\ \E G \in SUBSET Seq(Entry) : Family(G)'
<1>1. \A w \in Server : \A t \in Nat : Elected(w, t) => Elected(w, t)'
  BY ElectedStays, Zenon
<1>2. \A i \in Server : log'[i] \in H
  BY Zenon DEF Family
<1>3. \A i \in Server : role'[i] = Leader => StaysLeader(i)
  BY Zenon DEF StaysLeader
<1>4. \A m \in appendReqs' : m \in appendReqs
  BY Zenon
<1> QED
  BY <1>1, <1>2, <1>3, <1>4, FamilyStays, Zenon

(***************************************************************************)
(* The steps of runLeader and sendHeartbeats.                              *)
(***************************************************************************)
LEMMA LeaderStepLogs ==
    ASSUME FiniteFacts, TypeOK, LeadersElected, NEW H \in SUBSET Seq(Entry), Family(H),
           NEW i \in Server, RunLeaderStep(i)
    PROVE  LeadersElected' /\ \E G \in SUBSET Seq(Entry) : Family(G)'
<1>0. loop[i] \in Loop /\ Idle.at = "idle" /\ \A t : LoopAt("sending", t).at = "sending"
  BY Zenon DEF TypeOK, Idle, LoopAt
<1>1. ASSUME loop[i].at = "round", NEW reqs
      PROVE  AfterAnswers(i, reqs).at # "election"
  <2> DEFINE rest == loop[i].open \ reqs
             remaining == [loop[i] EXCEPT !.open = rest, !.acks = {a \in @ : a.req \in rest}]
  <2>1. remaining.at = "round"
    BY <1>0, <1>1, Zenon DEF Loop
  <2>2. AfterAnswers(i, reqs) \in {remaining, LoopAt("sending", loop[i].term), Idle}
    BY Zenon DEF AfterAnswers
  <2> QED
    BY <1>0, <2>1, <2>2, Zenon
<1>2. CASE RunLeader(i) \/ LeaveLeadership(i)
  <2>1. NoNewElection
    BY <1>0, <1>2, LoopStep, Zenon DEF RunLeader, LeaveLeadership
  <2> QED
    BY <1>2, <2>1, QuietLogs, Zenon DEF RunLeader, LeaveLeadership, nodeVars, logVars
<1>3. CASE SendHeartbeats(i)
  <2> DEFINE reqs == {AppendEntriesTo(i, j) : j \in Peers(i)}
             lp == IF reqs = {} THEN loop[i]
                   ELSE [loop[i] EXCEPT !.at = "round", !.open = reqs, !.last = Len(log[i])]
  <2>1. /\ appendReqs' = appendReqs \cup reqs /\ loop' = [loop EXCEPT ![i] = lp]
        /\ loop[i].at = "sending" /\ UNCHANGED <<currentTerm, role, log, votes>>
    BY <1>3, Zenon DEF SendHeartbeats, nodeVars
  <2>2. \A m \in reqs : TakenFrom(m, log[i])
    BY DEF AppendEntriesTo, TakenFrom
  <2> HIDE DEF reqs
  <2>3. lp.at # "election"
    BY <1>0, <2>1, Zenon DEF Loop
  <2> HIDE DEF lp
  <2>4. \A w \in Server : \A t \in Nat : Elected(w, t) => Elected(w, t)'
    BY <2>1, <2>3, LoopStep, ElectedStays, Zenon
  <2>5. log[i] \in H /\ \A j \in Server : log'[j] \in H
    BY <2>1, Zenon DEF Family
  <2>6. \A m \in appendReqs' : m \in appendReqs \/ \E g \in H : TakenFrom(m, g)
    BY <2>1, <2>2, <2>5, Zenon
  <2>7. \A j \in Server : role'[j] = Leader => StaysLeader(j)
    BY <2>1, Zenon DEF StaysLeader
  <2> QED
    BY <2>4, <2>5, <2>6, <2>7, FamilyStays, Zenon
<1>4. ASSUME NEW m \in loop[i].acks, AdoptAppendReplyTerm(i, m)
      PROVE  LeadersElected' /\ \E G \in SUBSET Seq(Entry) : Family(G)'
  <2>1. NoNewElection
    BY <1>0, <1>4, LoopStep, Zenon DEF AdoptAppendReplyTerm
  <2>2. \A j \in Server : role'[j] = Leader => role[j] = Leader /\ currentTerm'[j] = currentTerm[j]
    BY <1>4, Zenon DEF AdoptAppendReplyTerm, TypeOK, Leader, Follower
  <2> QED
    BY <1>4, <2>1, <2>2, QuietLogs, Zenon DEF AdoptAppendReplyTerm, logVars
<1>5. ASSUME NEW m \in loop[i].acks, CollectSuccess(i, m) \/ CollectFailure(i, m)
      PROVE  LeadersElected' /\ \E G \in SUBSET Seq(Entry) : Family(G)'
  <2>1. /\ loop' = [loop EXCEPT ![i] = AfterAnswers(i, {m.req})] /\ loop[i].at = "round"
        /\ UNCHANGED <<currentTerm, role, log, appendReqs, votes>>
    BY <1>5, Zenon DEF CollectSuccess, CollectFailure, nodeVars, logVars
  <2>2. NoNewElection
    BY <1>1, <2>1, LoopStep, Zenon
  <2> QED
    BY <2>1, <2>2, QuietLogs, Zenon
<1>6. CASE RoundTimeout(i)
  <2>1. NoNewElection
    BY <1>1, <1>6, LoopStep, Zenon DEF RoundTimeout
  <2> QED
    BY <1>6, <2>1, QuietLogs, Zenon DEF RoundTimeout, nodeVars, logVars
<1> QED
  BY <1>2, <1>3, <1>4, <1>5, <1>6, Zenon DEF RunLeaderStep

(***************************************************************************)
(* A new term has no entries: runCandidate raises the term, and a node     *)
(* that needs no other votes is Leader at once.                            *)
(***************************************************************************)
LEMMA StartElectionLogs ==
    ASSUME FiniteFacts, ElectionInv, LeadersElected, NEW H \in SUBSET Seq(Entry), Family(H),
           NEW i \in Server, StartElection(i)
    PROVE  LeadersElected' /\ \E G \in SUBSET Seq(Entry) : Family(G)'
<1> DEFINE t == currentTerm[i] + 1
           alone == IsQuorum({i})
           lp == IF alone THEN Idle ELSE LoopAt("election", t)
<1>0. TypeOK /\ currentTerm[i] \in Nat /\ t \in Nat
  BY DEF ElectionInv, TypeOK
<1>1. /\ votes' = votes \cup {VoteIn(i, t, i)} /\ UNCHANGED <<log, appendReqs>>
      /\ loop' = [loop EXCEPT ![i] = lp]
      /\ currentTerm' = [currentTerm EXCEPT ![i] = t]
      /\ role' = [role EXCEPT ![i] = IF alone THEN Leader ELSE Candidate]
  BY Zenon DEF StartElection, VoteIn, logVars
<1>2. /\ lp.at = "election" => lp.term = t
      /\ alone => lp.at = "idle"
  BY Zenon DEF Idle, LoopAt
<1> HIDE DEF lp, alone
<1>3. /\ loop'[i] = lp /\ currentTerm'[i] = t /\ role'[i] = IF alone THEN Leader ELSE Candidate
      /\ \A j \in Server \ {i} : /\ loop'[j] = loop[j] /\ role'[j] = role[j]
                                 /\ currentTerm'[j] = currentTerm[j]
  BY <1>0, <1>1, Zenon DEF TypeOK
<1>4. \A c : VoteIn(i, t, c) \notin votes
  BY <1>0, VotesAreOfThePast, SMTT(30)
<1>5. ASSUME NEW w \in Server, NEW s \in Nat, Elected(w, s)
      PROVE  Elected(w, s)'
  <2>1. Won(w, s, votes') /\ VoteIn(w, s, w) \in votes'
    BY <1>1, <1>5, WonGrows, Zenon DEF Elected
  <2>2. ~(loop'[w].at = "election" /\ loop'[w].term = s)
    <3>1. CASE w = i
      <4>1. s # t
        BY <1>4, <1>5, <3>1, Zenon DEF Elected
      <4> QED
        BY <1>2, <1>3, <3>1, <4>1, Zenon
    <3>2. CASE w # i
      BY <1>3, <1>5, <3>2, Zenon DEF Elected
    <3> QED
      BY <3>1, <3>2, Zenon
  <2> QED
    BY <2>1, <2>2, Zenon DEF Elected
<1>6. \A j \in Server : log'[j] \in H
  BY <1>1, Zenon DEF Family
<1>7. ASSUME alone
      PROVE  NewLeader(i, H)
  <2>1. Won(i, t, votes')
    <3> DEFINE S == {j \in Server : VoteIn(j, t, i) \in votes'}
    <3>1. {i} \in SUBSET Server /\ S \in SUBSET Server /\ {i} \subseteq S
      BY <1>1, Zenon
    <3> HIDE DEF S
    <3>2. IsQuorum(S)
      BY <1>7, <3>1, QuorumGrows, Zenon DEF alone
    <3> QED
      BY <3>2, Zenon DEF S, Won
  <2>2. Elected(i, currentTerm[i])'
    <3>1. Won(i, t, votes') /\ VoteIn(i, t, i) \in votes' /\ loop'[i].at # "election"
      BY <1>1, <1>2, <1>3, <1>7, <2>1, Zenon
    <3> QED
      BY <1>3, <3>1, Zenon DEF Elected
  <2>3. ASSUME NEW g \in H, NEW k \in 1..Len(g) PROVE g[k].term # t
    <3> SUFFICES ASSUME g[k].term = t PROVE FALSE
      BY Zenon
    <3>1. PICK w \in Server : Won(w, t, votes)
      BY Zenon DEF Family, Elected
    <3> DEFINE S == {j \in Server : VoteIn(j, t, w) \in votes}
    <3>2. S \in SUBSET Server /\ {i} \in SUBSET Server /\ IsQuorum(S) /\ IsQuorum({i})
      BY <1>7, <3>1, Zenon DEF Won, alone
    <3> HIDE DEF S
    <3>3. i \in S
      BY <3>2, QuorumsMeet, Zenon
    <3> QED
      BY <1>4, <3>3, Zenon DEF S
  <2> QED
    BY <1>3, <2>2, <2>3, Zenon DEF NewLeader
<1>8. \A j \in Server : role'[j] = Leader => StaysLeader(j) \/ NewLeader(j, H)
  BY <1>1, <1>3, <1>7, SMTT(30) DEF StaysLeader, Leader, Candidate
<1> QED
  BY <1>0, <1>1, <1>5, <1>6, <1>8, FamilyStays, Zenon

(***************************************************************************)
(* The replies: whoever becomes Leader was still in its election, so that  *)
(* nobody has proposed in its term.                                        *)
(***************************************************************************)
LEMMA CollectVoteLogs ==
    ASSUME FiniteFacts, ElectionInv, LeadersElected, NEW H \in SUBSET Seq(Entry), Family(H),
           LeadersWon', NEW i \in Server, NEW m \in loop[i].ballots, CollectVote(i, m)
    PROVE  LeadersElected' /\ \E G \in SUBSET Seq(Entry) : Family(G)'
<1> DEFINE got == loop[i].grants \cup (IF m.granted THEN {m.from} ELSE {})
           won == IsQuorum(got \cup {i})
           t == loop[i].term
           lp == IF won THEN Idle ELSE [loop[i] EXCEPT !.grants = got, !.ballots = @ \ {m}]
<1>0. TypeOK /\ loop[i] \in Loop /\ t \in Nat /\ VotesKept
  BY Zenon DEF ElectionInv, TypeOK, Loop
<1>1. /\ role' = [role EXCEPT ![i] = IF won /\ currentTerm[i] = t THEN Leader ELSE role[i]]
      /\ loop' = [loop EXCEPT ![i] = lp] /\ loop[i].at = "election"
      /\ UNCHANGED <<currentTerm, log, appendReqs, votes>>
  BY Zenon DEF CollectVote, logVars
<1>2. /\ lp.at = "election" => lp.term = t
      /\ won => lp.at = "idle"
  <2>1. Idle.at = "idle"
    BY Zenon DEF Idle, LoopAt
  <2> HIDE DEF got, won
  <2> QED
    BY <1>0, <2>1, Zenon DEF Loop
<1> HIDE DEF lp, won
<1>3. \A w \in Server : \A s \in Nat : Elected(w, s) => Elected(w, s)'
  BY <1>0, <1>1, <1>2, LoopStep, ElectedStays, Zenon
<1>4. \A j \in Server : log'[j] \in H
  BY <1>1, Zenon DEF Family
<1>5. /\ role'[i] = IF won /\ currentTerm[i] = t THEN Leader ELSE role[i]
      /\ loop'[i] = lp
      /\ \A j \in Server \ {i} : role'[j] = role[j]
  BY <1>0, <1>1, Zenon DEF TypeOK
<1>6. ASSUME won, currentTerm[i] = t
      PROVE  NewLeader(i, H)
  <2>1. Won(i, t, votes) /\ VoteIn(i, t, i) \in votes
    BY <1>1, <1>5, <1>6, Zenon DEF LeadersWon, ElectionInv, LoopsTrue, LoopTrue
  <2>2. Elected(i, currentTerm[i])'
    <3>1. Won(i, t, votes') /\ VoteIn(i, t, i) \in votes' /\ loop'[i].at # "election"
      BY <1>1, <1>2, <1>5, <1>6, <2>1, Zenon
    <3> QED
      BY <1>1, <1>6, <3>1, Zenon DEF Elected
  <2>3. ASSUME NEW g \in H, NEW k \in 1..Len(g) PROVE g[k].term # t
    <3> SUFFICES ASSUME g[k].term = t PROVE FALSE
      BY Zenon
    <3>1. PICK w \in Server : Elected(w, t)
      BY Zenon DEF Family
    <3>2. w = i
      BY <1>0, <2>1, <3>1, OneWinner, Zenon DEF Elected
    <3> QED
      BY <1>1, <3>1, <3>2, Zenon DEF Elected
  <2> QED
    BY <1>1, <1>6, <2>2, <2>3, Zenon DEF NewLeader
<1>7. \A j \in Server : role'[j] = Leader => StaysLeader(j) \/ NewLeader(j, H)
  BY <1>1, <1>5, <1>6, Zenon DEF StaysLeader
<1> QED
  BY <1>0, <1>1, <1>3, <1>4, <1>7, FamilyStays, Zenon

(***************************************************************************)
(* The other steps of runCandidate, and a restart.                         *)
(***************************************************************************)
LEMMA OtherStepLogs ==
    ASSUME FiniteFacts,
           TypeOK, LeadersElected, NEW H \in SUBSET Seq(Entry), Family(H), NEW i \in Server,
           \/ AbortElection(i) \/ EndElection(i) \/ Restart(i)
           \/ \E m \in loop[i].ballots : AdoptVoteReplyTerm(i, m)
    PROVE  LeadersElected' /\ \E G \in SUBSET Seq(Entry) : Family(G)'
<1>0. Idle.at = "idle"
  BY Zenon DEF Idle, LoopAt
<1>1. UNCHANGED <<log, appendReqs, votes>>
  BY Zenon DEF AbortElection, EndElection, Restart, AdoptVoteReplyTerm, logVars
<1>2. loop' = loop \/ loop' = [loop EXCEPT ![i] = Idle]
  BY Zenon DEF AbortElection, EndElection, Restart, AdoptVoteReplyTerm
<1>3. NoNewElection
  BY <1>0, <1>2, LoopStep, Zenon DEF NoNewElection
<1>4. \/ role' = [role EXCEPT ![i] = Follower] /\ (currentTerm' = currentTerm \/
                                 \E t : currentTerm' = [currentTerm EXCEPT ![i] = t])
      \/ UNCHANGED <<role, currentTerm>>
  BY Zenon DEF AbortElection, EndElection, Restart, AdoptVoteReplyTerm
<1>5. \A j \in Server : role'[j] = Leader => role[j] = Leader /\ currentTerm'[j] = currentTerm[j]
  BY <1>4, Zenon DEF TypeOK, Leader, Follower
<1> QED
  BY <1>1, <1>3, <1>5, QuietLogs, Zenon

(***************************************************************************)
(* HandleRequestVote.                                                      *)
(***************************************************************************)
LEMMA HandleRequestVoteLogs ==
    ASSUME FiniteFacts, TypeOK, LeadersElected, NEW H \in SUBSET Seq(Entry), Family(H),
           NEW i \in Server, NEW m \in voteReqs, HandleRequestVote(i, m)
    PROVE  LeadersElected' /\ \E G \in SUBSET Seq(Entry) : Family(G)'
<1>0. m.from \in Server /\ m.term \in Nat /\ currentTerm[i] \in Nat
  BY Zenon DEF TypeOK, VoteReq
<1>1. UNCHANGED <<log, appendReqs>> /\ votes \subseteq votes'
  BY Zenon DEF HandleRequestVote, RefuseVote, GrantVote, logVars
<1>2. NoNewElection
  <2>1. PICK reply : AnswerVote(m, reply)
    BY Zenon DEF HandleRequestVote, RefuseVote, GrantVote
  <2>2. \A w \in Server : loop'[w].at = loop[w].at /\ loop'[w].term = loop[w].term
    BY <1>0, <2>1, Zenon DEF AnswerVote, TypeOK, Loop
  <2> QED
    BY <2>2, Zenon DEF NoNewElection
<1>3. \A j \in Server : role'[j] = Leader => role[j] = Leader /\ currentTerm'[j] = currentTerm[j]
  <2>1. CASE RefuseVote(i, m)
    <3>1. /\ currentTerm' = [currentTerm EXCEPT ![i] = LargerOf(m.term, currentTerm[i])]
          /\ role' = [role EXCEPT ![i] = IF m.term > currentTerm[i] THEN Follower ELSE role[i]]
      BY <2>1, Zenon DEF RefuseVote
    <3> QED
      BY <1>0, <3>1, Zenon DEF TypeOK, LargerOf, Leader, Follower
  <2>2. CASE GrantVote(i, m)
    <3>1. /\ currentTerm' = [currentTerm EXCEPT ![i] = m.term] /\ m.term >= currentTerm[i]
          /\ role' = [role EXCEPT ![i] = IF m.term > currentTerm[i] THEN Follower ELSE role[i]]
      BY <2>2, Zenon DEF GrantVote, MayVote, NotStale
    <3> QED
      BY <1>0, <3>1, SMTT(30) DEF TypeOK, Leader, Follower
  <2> QED
    BY <2>1, <2>2, Zenon DEF HandleRequestVote
<1> QED
  BY <1>1, <1>2, <1>3, QuietLogs, Zenon

(***************************************************************************)
(* HandleAppendEntries: what the follower has afterwards is its own log or *)
(* a beginning of the one the request was taken from.                      *)
(***************************************************************************)
LEMMA HandleAppendEntriesLogs ==
    ASSUME FiniteFacts, TypeOK, LeadersElected, NEW H \in SUBSET Seq(Entry), Family(H),
           NEW i \in Server, NEW m \in appendReqs, HandleAppendEntries(i, m)
    PROVE  LeadersElected' /\ \E G \in SUBSET Seq(Entry) : Family(G)'
<1> DEFINE f == FirstNew(log[i], m.prevIndex, m.entries)
<1>0. /\ m.from \in Server /\ m.prevIndex \in Nat /\ m.entries \in Seq(Entry)
      /\ log[i] \in Seq(Entry) /\ log[i] \in H /\ Len(m.entries) \in Nat
  BY AppendReqFields, LenProperties, Zenon DEF TypeOK, Family
<1>1. UNCHANGED <<appendReqs, votes>>
  BY Zenon DEF HandleAppendEntries, RejectStaleAppend, RejectMissing, RejectConflict,
               AcceptEntries, FailToStore, FollowLeader
<1>2. NoNewElection
  <2>1. PICK t, ok, ci, ct : AnswerAppend(m, t, ok, ci, ct)
    BY Zenon DEF HandleAppendEntries, RejectStaleAppend, RejectMissing, RejectConflict,
                 AcceptEntries, FailToStore, AnswerNotStored
  <2>2. \A w \in Server : loop'[w].at = loop[w].at /\ loop'[w].term = loop[w].term
    <3> SUFFICES ASSUME NEW w \in Server
                 PROVE  loop'[w].at = loop[w].at /\ loop'[w].term = loop[w].term
      BY Zenon
    <3>1. loop[w] \in Loop
      BY Zenon DEF TypeOK
    <3> QED
      BY <1>0, <2>1, <3>1, Zenon DEF AnswerAppend, TypeOK, Loop
  <2> QED
    BY <2>2, Zenon DEF NoNewElection
<1>3. CASE RejectStaleAppend(i, m)
  BY <1>1, <1>2, <1>3, QuietLogs, Zenon DEF RejectStaleAppend, nodeVars, logVars
<1>4. CASE FollowLeader(i, m)
  <2>1. /\ role'[i] # Leader
        /\ \A j \in Server \ {i} : role'[j] = role[j] /\ currentTerm'[j] = currentTerm[j]
    BY <1>4, Zenon DEF FollowLeader, TypeOK, Leader, Follower
  <2>2. ASSUME PrevMatches(log[i], m), f <= Len(m.entries),
               NEW upTo \in Nat, f - 1 <= upTo, upTo <= Len(m.entries)
        PROVE  MergeEntries(log[i], m.prevIndex, m.entries, upTo) \in H
    <3>1. PICK g \in H : TakenFrom(m, g)
      BY Zenon DEF Family
    <3>2. /\ m.prevIndex > 0 =>
               m.prevIndex <= Len(log[i]) /\ log[i][m.prevIndex].term = TermAt(g, m.prevIndex)
          /\ m.entries = SubSeq(g, m.prevIndex + 1, Len(g))
      BY <2>2, <3>1, Zenon DEF PrevMatches, TakenFrom
    <3>3. Agree(log[i], g) /\ g \in Seq(Entry)
      BY <1>0, Zenon DEF Family
    <3>4. \E n \in 0..Len(g) :
            MergeEntries(log[i], m.prevIndex, m.entries, upTo) = SubSeq(g, 1, n)
      <4>1. Merging(log[i], g, m.prevIndex, m.entries, upTo)
        BY <1>0, <2>2, <3>2, <3>3, Zenon DEF Merging, Matching
      <4> QED
        BY <4>1, MergeIsBeginning, SMTT(30)
    <3> QED
      BY <3>4, Zenon DEF Family
  <2>3. f \in 1..(Len(m.entries) + 1)
    BY <1>0, FirstNewType, Zenon
  <2>4. \/ log' = log
        \/ \E l \in H : log' = [log EXCEPT ![i] = l]
    <3>1. CASE RejectMissing(i, m) \/ RejectConflict(i, m)
      BY <3>1, Zenon DEF RejectMissing, RejectConflict, logVars
    <3>2. CASE AcceptEntries(i, m)
      <4> DEFINE l == MergeEntries(log[i], m.prevIndex, m.entries, Len(m.entries))
      <4>1. log' = [log EXCEPT ![i] = l] /\ PrevMatches(log[i], m)
        BY <3>2, Zenon DEF AcceptEntries
      <4>2. l \in H
        <5>1. CASE f > Len(m.entries)
          BY <1>0, <5>1, Zenon DEF MergeEntries
        <5>2. CASE ~(f > Len(m.entries))
          <6>1. f <= Len(m.entries) /\ f - 1 <= Len(m.entries)
            BY <1>0, <2>3, <5>2, SMTT(30)
          <6> QED
            BY <1>0, <2>2, <4>1, <6>1, SMTT(30)
        <5> QED
          BY <5>1, <5>2, Zenon
      <4> QED
        BY <4>1, <4>2, Zenon
    <3>3. CASE FailToStore(i, m)
      <4>1. ASSUME NEW upTo \in (f - 1)..(Len(m.entries) - 1), f <= Len(m.entries),
                   PrevMatches(log[i], m)
            PROVE  MergeEntries(log[i], m.prevIndex, m.entries, upTo) \in H
        <5>1. upTo \in Nat /\ f - 1 <= upTo /\ upTo <= Len(m.entries)
          BY <1>0, <2>3, SMTT(30)
        <5> QED
          BY <2>2, <4>1, <5>1, Zenon
      <4> HIDE DEF f
      <4> QED
        BY <3>3, <4>1, Zenon DEF FailToStore, f
    <3>4. CASE RejectStaleAppend(i, m)
      BY <3>4, Zenon DEF RejectStaleAppend, logVars
    <3> QED
      BY <3>1, <3>2, <3>3, <3>4, Zenon DEF HandleAppendEntries
  <2>5. \A j \in Server : log'[j] \in H
    BY <2>4, Zenon DEF Family, TypeOK
  <2>6. \A j \in Server \ {i} : log'[j] = log[j]
    BY <2>4, Zenon DEF TypeOK
  <2>7. \A w \in Server : \A t \in Nat : Elected(w, t) => Elected(w, t)'
    BY <1>1, <1>2, ElectedStays, Zenon
  <2>8. \A j \in Server : role'[j] = Leader => StaysLeader(j)
    BY <2>1, <2>6, Zenon DEF StaysLeader
  <2> QED
    BY <1>1, <2>5, <2>7, <2>8, FamilyStays, Zenon
<1> QED
  BY <1>3, <1>4, Zenon
     DEF HandleAppendEntries, RejectMissing, RejectConflict, AcceptEntries, FailToStore

(***************************************************************************)
(* Every step keeps the invariant.                                         *)
(***************************************************************************)
LEMMA LogStep ==
    ASSUME FiniteFacts, LogInv, ElectionInv', [Next]_vars
    PROVE  LogInv'
<1>0. ElectionInv /\ TypeOK /\ LeadersElected /\ LeadersWon'
  BY Zenon DEF LogInv, ElectionInv
<1>1. PICK H \in SUBSET Seq(Entry) : Family(H)
  BY Zenon DEF LogInv
<1> DEFINE Goal == LeadersElected' /\ \E G \in SUBSET Seq(Entry) : Family(G)'
<1>2. ASSUME UNCHANGED vars PROVE Goal
  <2>1. NoNewElection /\ UNCHANGED <<currentTerm, role, log, appendReqs, votes>>
    BY <1>2, Zenon DEF vars, nodeVars, logVars, NoNewElection
  <2> QED
    BY <1>0, <1>1, <2>1, QuietLogs, Zenon
<1>3. ASSUME NEW i \in Server, RunCandidateStep(i) PROVE Goal
  BY <1>0, <1>1, <1>3, StartElectionLogs, CollectVoteLogs, OtherStepLogs, Zenon
     DEF RunCandidateStep
<1>4. ASSUME NEW i \in Server, RunLeaderStep(i) PROVE Goal
  BY <1>0, <1>1, <1>4, LeaderStepLogs, Zenon
<1>5. ASSUME NEW i \in Server, NEW m \in voteReqs, HandleRequestVote(i, m) PROVE Goal
  BY <1>0, <1>1, <1>5, HandleRequestVoteLogs, Zenon
<1>6. ASSUME NEW i \in Server, NEW m \in appendReqs, HandleAppendEntries(i, m) PROVE Goal
  BY <1>0, <1>1, <1>6, HandleAppendEntriesLogs, Zenon
<1>7. ASSUME NEW i \in Server, NEW c \in Command, Propose(i, c) PROVE Goal
  BY <1>0, <1>1, <1>7, ProposeKeepsFamily, Zenon
<1>8. ASSUME NEW i \in Server, Restart(i) PROVE Goal
  BY <1>0, <1>1, <1>8, OtherStepLogs, Zenon
<1> HIDE DEF Goal
<1>9. Goal
  BY <1>2, <1>3, <1>4, <1>5, <1>6, <1>7, <1>8, Zenon DEF Next
<1> QED
  BY <1>9, Zenon DEF LogInv, Goal

(***************************************************************************)
(* The invariant holds, whatever rounds a demoted leader sends and         *)
(* wherever nodes crash or fail to store entries.                          *)
(***************************************************************************)
THEOREM LogInvariant ==
    ASSUME Orderly
    PROVE  Spec => []LogInv
<1>1. Init /\ ElectionInv => LogInv
  <2> SUFFICES ASSUME Init, ElectionInv PROVE LogInv
    BY Zenon
  <2>1. << >> \in Seq(Entry) /\ Len(<< >>) = 0
    OBVIOUS
  <2>2. LeadersElected
    BY Zenon DEF Init, LeadersElected, Leader, Follower
  <2>3. \A n \in 0..0 : SubSeq(<< >>, 1, n) = << >>
    OBVIOUS
  <2>4. Family({<< >>})
    <3>1. \A k : k \notin 1..0
      OBVIOUS
    <3> QED
      BY <2>1, <2>3, <3>1, Zenon DEF Init, Family, Agree, Leader, Follower
  <2> QED
    BY <2>1, <2>2, <2>4, Zenon DEF LogInv
<1>2. LogInv /\ ElectionInv' /\ [Next]_vars => LogInv'
  BY LogStep, FiniteFactsHold, Zenon
<1> QED
  BY <1>1, <1>2, ElectionInvariant, PTL DEF Spec

(***************************************************************************)
(* Two logs with an entry of the same term at an index are the same up to  *)
(* it, for any number of nodes: what HandleAppendEntries merges comes from *)
(* one log per term, which proposeEntry only appends to.                   *)
(***************************************************************************)
THEOREM LogsMatch ==
    ASSUME Orderly
    PROVE  Spec => []LogMatching
<1>1. LogInv => LogMatching
  <2> SUFFICES ASSUME LogInv, NEW i \in Server, NEW j \in Server,
                      NEW k \in DOMAIN log[i] \cap DOMAIN log[j],
                      log[i][k].term = log[j][k].term
               PROVE  SubSeq(log[i], 1, k) = SubSeq(log[j], 1, k)
    BY Zenon DEF LogMatching
  <2>1. log[i] \in Seq(Entry) /\ log[j] \in Seq(Entry)
    BY Zenon DEF LogInv, ElectionInv, TypeOK
  <2>2. /\ DOMAIN log[i] = 1..Len(log[i]) /\ Len(log[i]) \in Nat
        /\ DOMAIN log[j] = 1..Len(log[j]) /\ Len(log[j]) \in Nat
    BY <2>1, LenProperties, Zenon
  <2>3. k \in 1..Len(log[i]) /\ k \in 1..Len(log[j]) /\ k \in Nat
    BY <2>2, SMTT(30)
  <2>4. Agree(log[i], log[j])
    BY Zenon DEF LogInv, Family
  <2>5. \A n \in 1..k : log[i][n] = log[j][n]
    BY <2>3, <2>4, Zenon DEF Agree
  <2>6. /\ SubSeq(log[i], 1, k) \in Seq(Entry) /\ Len(SubSeq(log[i], 1, k)) = k
        /\ \A n \in 1..k : SubSeq(log[i], 1, k)[n] = log[i][n]
    BY <2>1, <2>2, <2>3, BeginningOf, SMTT(30)
  <2>7. /\ SubSeq(log[j], 1, k) \in Seq(Entry) /\ Len(SubSeq(log[j], 1, k)) = k
        /\ \A n \in 1..k : SubSeq(log[j], 1, k)[n] = log[j][n]
    BY <2>1, <2>2, <2>3, BeginningOf, SMTT(30)
  <2> QED
    BY <2>5, <2>6, <2>7, SeqEqual, Zenon
<1> QED
  BY <1>1, LogInvariant, PTL

=============================================================================
