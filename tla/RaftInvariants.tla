--------------------------- MODULE RaftInvariants ---------------------------
(***************************************************************************)
(* The inductive invariants behind election safety and log matching of     *)
(* RaftCore, and the assumptions under which they are proved.              *)
(***************************************************************************)
EXTENDS RaftState

(***************************************************************************)
(* What the proofs use of the finite sets of nodes and of Min: quorums of  *)
(* quorumFor share a node, more nodes are still a quorum, and a non-empty  *)
(* set of numbers has a least one.  RaftElectionProofs derives all of it.  *)
(***************************************************************************)
FiniteFacts ==
    /\ \A S, T \in SUBSET Server :
          IsQuorum(S) /\ IsQuorum(T) => \E j \in Server : j \in S /\ j \in T
    /\ \A S, T \in SUBSET Server : IsQuorum(S) /\ S \subseteq T => IsQuorum(T)
    /\ \A S \in SUBSET Nat : S # {} => Min(S) \in S /\ \A x \in S : Min(S) <= x

(***************************************************************************)
(* The schedule and the disk under which one leader per term is certain.   *)
(***************************************************************************)
Orderly == ~LateReplies /\ ~SaveFaults

VoteIn(j, t, c) == [voter |-> j, term |-> t, candidate |-> c]

(***************************************************************************)
(* Among the votes vs, c has those of a quorum in term t.                  *)
(***************************************************************************)
Won(c, t, vs) == IsQuorum({j \in Server : VoteIn(j, t, c) \in vs})

(***************************************************************************)
(* The term in memory is the saved one, with the saved vote; or it is      *)
(* newer, and no vote was given in it.                                     *)
(***************************************************************************)
DiskVote ==
    \A i \in Server :
        \/ currentTerm[i] = meta[i].term /\ votedFor[i] = meta[i].votedFor
        \/ currentTerm[i] > meta[i].term /\ votedFor[i] = Nil

(***************************************************************************)
(* What an election has counted or is about to count are votes given to    *)
(* this candidate in this term, its own among them; and whoever works as   *)
(* a leader has won the term it works for.                                 *)
(***************************************************************************)
LoopTrue(i, lp, vs) ==
    /\ \A j \in lp.grants : VoteIn(j, lp.term, i) \in vs
    /\ \A b \in lp.ballots : b.granted => VoteIn(b.from, lp.term, i) \in vs
    /\ lp.at = "election" => VoteIn(i, lp.term, i) \in vs
    /\ lp.at \in {"sending", "round"} => Won(i, lp.term, vs)

LoopsTrue == \A i \in Server : LoopTrue(i, loop[i], votes)

(***************************************************************************)
(* A Leader has won its term, and so has the sender of any AppendEntries,  *)
(* which never goes to the sender itself.                                  *)
(***************************************************************************)
LeadersWon == \A i \in Server : role[i] = Leader => Won(i, currentTerm[i], votes)

SendersWon == \A m \in appendReqs : Won(m.from, m.term, votes) /\ m.from # m.to

ElectionInv ==
    TypeOK /\ DiskVote /\ VotesKept /\ LoopsTrue /\ LeadersWon /\ SendersWon

(***************************************************************************)
(* Two logs that have an entry of the same term at an index are the same   *)
(* up to it.                                                               *)
(***************************************************************************)
Agree(l, g) ==
    \A k \in (1..Len(l)) \cap (1..Len(g)) :
        l[k].term = g[k].term => \A n \in 1..k : l[n] = g[n]

(***************************************************************************)
(* w has won term t and its election is over; it will not hold another.    *)
(***************************************************************************)
Elected(w, t) ==
    /\ Won(w, t, votes) /\ VoteIn(w, t, w) \in votes
    /\ ~(loop[w].at = "election" /\ loop[w].term = t)

LeadersElected == \A i \in Server : role[i] = Leader => Elected(i, currentTerm[i])

(***************************************************************************)
(* m carries the end of the log g.                                         *)
(***************************************************************************)
TakenFrom(m, g) ==
    m.prevTerm = TermAt(g, m.prevIndex) /\ m.entries = SubSeq(g, m.prevIndex + 1, Len(g))

(***************************************************************************)
(* A family of logs that has every log there is and was, as far as it can  *)
(* still arrive somewhere: it holds what the nodes have, what AppendEntries *)
(* were taken from, and all beginnings of these.  Its members agree, their *)
(* entries were made by elected leaders, and a Leader has all of its term. *)
(***************************************************************************)
Family(H) ==
    /\ \A i \in Server : log[i] \in H
    /\ \A m \in appendReqs : \E g \in H : TakenFrom(m, g)
    /\ \A g, h \in H : Agree(g, h)
    /\ \A g \in H : \A n \in 0..Len(g) : SubSeq(g, 1, n) \in H
    /\ \A g \in H : \A k \in 1..Len(g) : \E w \in Server : Elected(w, g[k].term)
    /\ \A i \in Server : role[i] = Leader =>
          \A g \in H : \A k \in 1..Len(g) : g[k].term = currentTerm[i] =>
              k <= Len(log[i]) /\ log[i][k].term = currentTerm[i]

LogInv == ElectionInv /\ LeadersElected /\ \E H \in SUBSET Seq(Entry) : Family(H)

=============================================================================
