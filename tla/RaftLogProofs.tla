--------------------------- MODULE RaftLogProofs ----------------------------
(***************************************************************************)
(* The facts about sequences, quorums, elections and merged logs that the  *)
(* proofs of RaftCore share.  None of them is about an action.             *)
(***************************************************************************)
EXTENDS RaftInvariants, TLAPS

-----------------------------------------------------------------------------
(* Sequences *)

(***************************************************************************)
(* A log is a function on the numbers from 1 to its length.                *)
(***************************************************************************)
LEMMA LenProperties ==
    ASSUME NEW T, NEW l \in Seq(T)
    PROVE  Len(l) \in Nat /\ l \in [1..Len(l) -> T] /\ DOMAIN l = 1..Len(l)
<1>1. Len(l) \in Nat /\ DOMAIN l = 1..Len(l)
  OBVIOUS
<1> QED
  BY <1>1

(***************************************************************************)
(* Its entries.                                                            *)
(***************************************************************************)
LEMMA ElementOfSeq ==
    ASSUME NEW T, NEW l \in Seq(T), NEW k \in 1..Len(l)
    PROVE  l[k] \in T
OBVIOUS

(***************************************************************************)
(* Logs with the same entries are the same.                                *)
(***************************************************************************)
LEMMA SeqEqual ==
    ASSUME NEW T, NEW l \in Seq(T), NEW g \in Seq(T), Len(l) = Len(g),
           \A k \in 1..Len(l) : l[k] = g[k]
    PROVE  l = g
BY LenProperties

(***************************************************************************)
(* What proposeEntry makes of a log.                                       *)
(***************************************************************************)
LEMMA AppendProperties ==
    ASSUME NEW T, NEW l \in Seq(T), NEW e \in T
    PROVE  /\ Append(l, e) \in Seq(T) /\ Len(Append(l, e)) = Len(l) + 1
           /\ Append(l, e)[Len(l) + 1] = e
           /\ \A k \in 1..Len(l) : Append(l, e)[k] = l[k]
OBVIOUS

(***************************************************************************)
(* One log after another.                                                  *)
(***************************************************************************)
LEMMA ConcatProperties ==
    ASSUME NEW T, NEW l \in Seq(T), NEW g \in Seq(T)
    PROVE  /\ l \o g \in Seq(T) /\ Len(l \o g) = Len(l) + Len(g)
           /\ \A k \in 1..(Len(l) + Len(g)) :
                  (l \o g)[k] = IF k <= Len(l) THEN l[k] ELSE g[k - Len(l)]
OBVIOUS

(***************************************************************************)
(* A stretch of a log.                                                     *)
(***************************************************************************)
LEMMA SubSeqProperties ==
    ASSUME NEW T, NEW l, NEW m \in Int, NEW n \in Int, \A k \in m..n : l[k] \in T
    PROVE  /\ SubSeq(l, m, n) \in Seq(T)
           /\ Len(SubSeq(l, m, n)) = IF m <= n THEN n - m + 1 ELSE 0
           /\ \A k \in 1..(n - m + 1) : SubSeq(l, m, n)[k] = l[m + k - 1]
<1>1. SubSeq(l, m, n) \in Seq(T)
  OBVIOUS
<1>2. Len(SubSeq(l, m, n)) = IF m <= n THEN n - m + 1 ELSE 0
  OBVIOUS
<1>3. \A k \in 1..(n - m + 1) : SubSeq(l, m, n)[k] = l[m + k - 1]
  OBVIOUS
<1> QED
  BY <1>1, <1>2, <1>3, Zenon

-----------------------------------------------------------------------------
(* Numbers, nodes and requests *)

(***************************************************************************)
(* A non-empty set of naturals has a least element, and Min is it.         *)
(***************************************************************************)
LEMMA MinOfNaturals ==
    ASSUME FiniteFacts, NEW S \in SUBSET Nat, S # {}
    PROVE  Min(S) \in S /\ \A x \in S : Min(S) <= x
BY Zenon DEF FiniteFacts

(***************************************************************************)
(* A non-empty set of naturals below a bound has a greatest element, and   *)
(* Max is it.                                                              *)
(***************************************************************************)
LEMMA MaxOfNaturals ==
    ASSUME FiniteFacts, NEW S \in SUBSET Nat, S # {}, NEW b \in Nat, \A x \in S : x <= b
    PROVE  Max(S) \in S /\ \A x \in S : x <= Max(S)
<1> DEFINE T == {b - x : x \in S}
<1>1. T \in SUBSET Nat /\ T # {}
  <2>1. PICK x \in S : TRUE
    BY Zenon
  <2>2. b - x \in T
    BY <2>1, Zenon
  <2>3. \A y \in T : y \in Nat
    OBVIOUS
  <2> QED
    BY <2>2, <2>3, Zenon
<1>2. PICK y \in T : \A z \in T : y <= z
  BY <1>1, MinOfNaturals, Zenon
<1>3. PICK x \in S : y = b - x
  BY <1>2, Zenon
<1>4. \A z \in S : x >= z
  <2> TAKE z \in S
  <2>1. b - z \in T
    BY Zenon
  <2>2. y <= b - z
    BY <1>2, <2>1, Zenon
  <2> QED
    BY <1>3, <2>2
<1>5. \E w \in S : \A z \in S : w >= z
  BY <1>4, Zenon
<1>6. Max(S) \in S /\ \A z \in S : Max(S) >= z
  BY <1>5, Zenon DEF Max
<1> QED
  BY <1>6, Zenon

(***************************************************************************)
(* What FirstNew returns: all entries before it are in the log.            *)
(***************************************************************************)
LEMMA FirstNewType ==
    ASSUME FiniteFacts, NEW l \in Seq(Entry), NEW prev \in Nat, NEW es \in Seq(Entry)
    PROVE  /\ FirstNew(l, prev, es) \in 1..(Len(es) + 1)
           /\ \A k \in 1..(FirstNew(l, prev, es) - 1) :
                prev + k <= Len(l) /\ l[prev + k].term = es[k].term
<1> DEFINE S == {Len(es) + 1} \cup
                {k \in 1..Len(es) : prev + k > Len(l) \/ l[prev + k].term # es[k].term}
<1>1. Len(es) \in Nat /\ Len(l) \in Nat
  BY LenProperties, Zenon
<1>2. S \in SUBSET Nat /\ S # {}
  BY <1>1
<1>3. Min(S) \in S /\ \A x \in S : Min(S) <= x
  BY <1>2, MinOfNaturals, Zenon
<1>4. FirstNew(l, prev, es) = Min(S)
  BY Zenon DEF FirstNew
<1>5. Min(S) \in 1..(Len(es) + 1)
  BY <1>1, <1>3
<1>6. ASSUME NEW k \in 1..(Min(S) - 1)
      PROVE  prev + k <= Len(l) /\ l[prev + k].term = es[k].term
  <2>1. k \notin S /\ k \in 1..Len(es)
    BY <1>1, <1>3, <1>5, <1>6
  <2> QED
    BY <1>1, <2>1
<1> HIDE DEF S
<1> QED
  BY <1>4, <1>5, <1>6, Zenon

(***************************************************************************)
(* The fields of a request.                                                *)
(***************************************************************************)
LEMMA AppendReqFields ==
    ASSUME TypeOK, NEW m \in appendReqs
    PROVE  /\ m.term \in Nat /\ m.from \in Server /\ m.to \in Server
           /\ m.prevIndex \in Nat /\ m.prevTerm \in Nat
           /\ m.entries \in Seq(Entry) /\ m.commit \in Nat
BY Zenon DEF TypeOK, AppendReq

(***************************************************************************)
(* Any two quorums of quorumFor share a node.                              *)
(***************************************************************************)
LEMMA QuorumsMeet ==
    ASSUME FiniteFacts, NEW S \in SUBSET Server, NEW T \in SUBSET Server, IsQuorum(S), IsQuorum(T)
    PROVE  \E j \in Server : j \in S /\ j \in T
BY Zenon DEF FiniteFacts

(***************************************************************************)
(* A larger set of nodes is still a quorum.                                *)
(***************************************************************************)
LEMMA QuorumGrows ==
    ASSUME FiniteFacts, NEW S \in SUBSET Server, NEW T \in SUBSET Server, S \subseteq T, IsQuorum(S)
    PROVE  IsQuorum(T)
BY Zenon DEF FiniteFacts

(***************************************************************************)
(* More votes do not undo a victory.                                       *)
(***************************************************************************)
LEMMA WonGrows ==
    ASSUME FiniteFacts, NEW vs, NEW ws, vs \subseteq ws, NEW c, NEW t, Won(c, t, vs)
    PROVE  Won(c, t, ws)
<1> DEFINE S == {j \in Server : VoteIn(j, t, c) \in vs}
           T == {j \in Server : VoteIn(j, t, c) \in ws}
<1>1. S \in SUBSET Server /\ T \in SUBSET Server /\ S \subseteq T /\ IsQuorum(S)
  BY Zenon DEF Won
<1>2. IsQuorum(T)
  <2> HIDE DEF S, T
  <2> QED
    BY <1>1, QuorumGrows, Zenon
<1> QED
  BY <1>2, Zenon DEF Won

(***************************************************************************)
(* As long as nobody votes twice, a term has one winner.                   *)
(***************************************************************************)
LEMMA OneWinner ==
    ASSUME FiniteFacts, VotesKept, NEW c, NEW d, NEW t, Won(c, t, votes), Won(d, t, votes)
    PROVE  c = d
<1>1. PICK j \in Server : VoteIn(j, t, c) \in votes /\ VoteIn(j, t, d) \in votes
  <2> DEFINE S == {j \in Server : VoteIn(j, t, c) \in votes}
             T == {j \in Server : VoteIn(j, t, d) \in votes}
  <2>1. S \in SUBSET Server /\ T \in SUBSET Server /\ IsQuorum(S) /\ IsQuorum(T)
    BY Zenon DEF Won
  <2>2. \E j \in Server : j \in S /\ j \in T
    <3> HIDE DEF S, T
    <3> QED
      BY <2>1, QuorumsMeet, Zenon
  <2> QED
    BY <2>2, Zenon
<1>2. VoteIn(j, t, c) = VoteIn(j, t, d)
  BY <1>1, Zenon DEF VotesKept, VoteIn
<1> QED
  BY <1>2, Zenon DEF VoteIn

-----------------------------------------------------------------------------
(* Logs *)

(***************************************************************************)
(* What a stretch of a log consists of.                                    *)
(***************************************************************************)
LEMMA StretchOf ==
    ASSUME NEW g \in Seq(Entry), NEW a \in Nat \ {0}, NEW b \in Nat, b <= Len(g)
    PROVE  /\ SubSeq(g, a, b) \in Seq(Entry)
           /\ Len(SubSeq(g, a, b)) = IF a <= b THEN b - a + 1 ELSE 0
           /\ \A k \in 1..Len(SubSeq(g, a, b)) : SubSeq(g, a, b)[k] = g[a + k - 1]
<1>1. Len(g) \in Nat /\ \A k \in a..b : g[k] \in Entry
  BY ElementOfSeq, LenProperties
<1>2. /\ SubSeq(g, a, b) \in Seq(Entry)
      /\ Len(SubSeq(g, a, b)) = IF a <= b THEN b - a + 1 ELSE 0
      /\ \A k \in 1..(b - a + 1) : SubSeq(g, a, b)[k] = g[a + k - 1]
  BY <1>1, SubSeqProperties
<1> QED
  BY <1>2

(***************************************************************************)
(* What a beginning of a log consists of.                                  *)
(***************************************************************************)
LEMMA BeginningOf ==
    ASSUME NEW g \in Seq(Entry), NEW b \in Nat, b <= Len(g)
    PROVE  /\ SubSeq(g, 1, b) \in Seq(Entry) /\ Len(SubSeq(g, 1, b)) = b
           /\ \A k \in 1..b : SubSeq(g, 1, b)[k] = g[k]
<1>1. /\ SubSeq(g, 1, b) \in Seq(Entry)
      /\ Len(SubSeq(g, 1, b)) = IF 1 <= b THEN b - 1 + 1 ELSE 0
      /\ \A k \in 1..Len(SubSeq(g, 1, b)) : SubSeq(g, 1, b)[k] = g[1 + k - 1]
  BY StretchOf
<1> DEFINE len == Len(SubSeq(g, 1, b))
<1>2. len = b
  BY <1>1
<1>3. \A k \in 1..b : 1 + k - 1 = k
  OBVIOUS
<1> QED
  BY <1>1, <1>2, <1>3, Zenon

(***************************************************************************)
(* The situation of HandleAppendEntries past its tests: entries es from    *)
(* the log g meet the log l, and those up to upTo are stored.              *)
(***************************************************************************)
Matching(l, g, prev, es) ==
    /\ l \in Seq(Entry) /\ g \in Seq(Entry) /\ Agree(l, g)
    /\ prev \in Nat /\ (prev > 0 => prev <= Len(l) /\ l[prev].term = TermAt(g, prev))
    /\ es = SubSeq(g, prev + 1, Len(g))

Merging(l, g, prev, es, upTo) ==
    /\ Matching(l, g, prev, es) /\ FirstNew(l, prev, es) <= Len(es)
    /\ upTo \in Nat /\ FirstNew(l, prev, es) - 1 <= upTo /\ upTo <= Len(es)

(***************************************************************************)
(* HandleAppendEntries only ever stores a beginning of the log the request *)
(* was taken from: what precedes the first new entry is the same there.    *)
(***************************************************************************)
LEMMA MergeIsBeginning ==
    ASSUME FiniteFacts, NEW l, NEW g, NEW prev, NEW es, NEW upTo, Merging(l, g, prev, es, upTo)
    PROVE  /\ prev + upTo \in 0..Len(g)
           /\ MergeEntries(l, prev, es, upTo) = SubSeq(g, 1, prev + upTo)
<1> DEFINE f == FirstNew(l, prev, es)
           q == prev + f - 1
           n == prev + upTo
<1>0. /\ l \in Seq(Entry) /\ g \in Seq(Entry) /\ Agree(l, g)
      /\ prev \in Nat /\ (prev > 0 => prev <= Len(l) /\ l[prev].term = TermAt(g, prev))
      /\ es = SubSeq(g, prev + 1, Len(g)) /\ f <= Len(es)
      /\ upTo \in Nat /\ f - 1 <= upTo /\ upTo <= Len(es)
  BY Zenon DEF Merging, Matching
<1>1. Len(l) \in Nat /\ Len(g) \in Nat
  BY <1>0, LenProperties, Zenon
<1>2. /\ es \in Seq(Entry) /\ Len(es) \in Nat
      /\ Len(es) = IF prev + 1 <= Len(g) THEN Len(g) - prev ELSE 0
      /\ \A k \in 1..Len(es) : es[k] = g[prev + k]
  <2>1. /\ es \in Seq(Entry)
        /\ Len(es) = IF prev + 1 <= Len(g) THEN Len(g) - (prev + 1) + 1 ELSE 0
        /\ \A k \in 1..Len(es) : es[k] = g[(prev + 1) + k - 1]
    BY <1>0, <1>1, StretchOf, SMTT(30)
  <2>2. Len(es) \in Nat
    BY <2>1, LenProperties, Zenon
  <2> QED
    BY <1>0, <1>1, <2>1, <2>2, SMTT(30)
<1>3. /\ f \in 1..(Len(es) + 1)
      /\ \A k \in 1..(f - 1) : prev + k <= Len(l) /\ l[prev + k].term = es[k].term
  <2>1. l \in Seq(Entry) /\ prev \in Nat /\ es \in Seq(Entry)
    BY <1>0, <1>2, Zenon
  <2> QED
    BY <2>1, FirstNewType, Zenon
<1> HIDE DEF f
<1>4. /\ f \in Nat /\ f \in 1..Len(es) /\ Len(es) = Len(g) - prev /\ Len(es) \in Nat
      /\ q \in Nat /\ n \in Nat /\ n \in 0..Len(g) /\ q <= n /\ q <= Len(g)
      /\ (f = 1 => q = prev) /\ (f # 1 => f - 1 \in 1..Len(es) /\ prev + (f - 1) = q)
  BY <1>0, <1>1, <1>2, <1>3, SMTT(30) DEF f
<1>5. q > 0 => q <= Len(l) /\ l[q].term = g[q].term
  <2>1. CASE f = 1
    <3>1. q = prev /\ (q > 0 => q \in 1..Len(g))
      BY <1>0, <1>1, <1>4, <2>1
    <3> QED
      BY <1>0, <3>1, Zenon DEF TermAt
  <2>2. CASE f # 1
    <3>1. f - 1 \in 1..(f - 1) /\ f - 1 \in 1..Len(es) /\ prev + (f - 1) = q
      BY <1>0, <1>2, <1>4, <2>2
    <3> QED
      BY <1>0, <1>2, <1>3, <3>1, Zenon
  <2> QED
    BY <2>1, <2>2, Zenon
<1>6. q <= Len(l) /\ \A k \in 1..q : l[k] = g[k]
  <2>1. CASE q = 0
    BY <1>0, <1>1, <2>1, SMTT(30)
  <2>2. CASE q # 0
    <3>1. q \in (1..Len(l)) \cap (1..Len(g)) /\ l[q].term = g[q].term
      BY <1>0, <1>1, <1>4, <1>5, <2>2, SMTT(30)
    <3>2. Agree(l, g) /\ q \in Nat /\ q <= Len(l)
      BY <1>0, <1>1, <1>4, <1>5, <2>2, SMTT(30)
    <3> HIDE DEF q
    <3> QED
      BY <3>1, <3>2, Zenon DEF Agree
  <2> QED
    BY <2>1, <2>2, Zenon
<1> DEFINE head == SubSeq(l, 1, q)
           rest == SubSeq(es, f, upTo)
           goal == SubSeq(g, 1, n)
<1>7. /\ head \in Seq(Entry) /\ Len(head) = q /\ \A k \in 1..q : head[k] = g[k]
  <2>1. head \in Seq(Entry) /\ Len(head) = q /\ \A k \in 1..q : head[k] = l[k]
    BY <1>0, <1>1, <1>4, <1>6, BeginningOf, Zenon
  <2> QED
    BY <1>0, <1>6, <2>1, Zenon
<1>8. /\ rest \in Seq(Entry) /\ Len(rest) = upTo - f + 1
      /\ \A k \in 1..Len(rest) : rest[k] = g[q + k]
  <2>1. /\ rest \in Seq(Entry) /\ Len(rest) = IF f <= upTo THEN upTo - f + 1 ELSE 0
        /\ \A k \in 1..Len(rest) : rest[k] = es[f + k - 1]
    <3>1. upTo \in Nat /\ upTo <= Len(es)
      BY <1>0, Zenon
    <3>2. es \in Seq(Entry) /\ f \in Nat \ {0}
      BY <1>2, <1>4, SMTT(30)
    <3> QED
      BY <3>1, <3>2, StretchOf, Zenon
  <2>2. Len(rest) = upTo - f + 1
    <3>1. upTo \in Nat /\ f \in Nat /\ f - 1 <= upTo
      BY <1>0, <1>4, Zenon
    <3> HIDE DEF rest
    <3> QED
      BY <2>1, <3>1, SMTT(30)
  <2>3. \A k \in 1..Len(rest) : f + k - 1 \in 1..Len(es) /\ prev + (f + k - 1) = q + k
    <3>1. /\ upTo \in Nat /\ upTo <= Len(es) /\ prev \in Nat /\ f \in Nat /\ f >= 1
          /\ Len(es) \in Nat
      BY <1>0, <1>4, SMTT(30)
    <3> HIDE DEF rest
    <3> QED
      BY <3>1, <2>2, SMTT(30)
  <2> QED
    BY <1>2, <2>1, <2>2, <2>3, Zenon
<1>9. goal \in Seq(Entry) /\ Len(goal) = n /\ \A k \in 1..n : goal[k] = g[k]
  <2>1. g \in Seq(Entry) /\ n \in Nat /\ n <= Len(g)
    BY <1>0, <1>1, <1>4, SMTT(30)
  <2> HIDE DEF n
  <2> QED
    BY <2>1, BeginningOf, Zenon
<1>10. MergeEntries(l, prev, es, upTo) = head \o rest
  <2>1. ~(f > Len(es))
    BY <1>0, <1>4
  <2> QED
    BY <2>1, Zenon DEF MergeEntries, f
<1> HIDE DEF head, rest, goal
<1>11. /\ head \o rest \in Seq(Entry) /\ Len(head \o rest) = Len(head) + Len(rest)
       /\ \A k \in 1..(Len(head) + Len(rest)) :
            (head \o rest)[k] = IF k <= Len(head) THEN head[k] ELSE rest[k - Len(head)]
  <2>1. head \in Seq(Entry) /\ rest \in Seq(Entry)
    BY <1>0, <1>7, <1>8, Zenon
  <2> QED
    BY <2>1, ConcatProperties, Zenon
<1>12. Len(head \o rest) = n
  BY <1>0, <1>4, <1>7, <1>8, <1>11, SMTT(30)
<1>13. \A k \in 1..n : (head \o rest)[k] = g[k]
  <2> SUFFICES ASSUME NEW k \in 1..n PROVE (head \o rest)[k] = g[k]
    BY Zenon
  <2>1. CASE k <= q
    BY <1>0, <1>4, <1>7, <1>8, <1>11, <1>12, <2>1, SMTT(30)
  <2>2. CASE ~(k <= q)
    <3>1. k - q \in 1..Len(rest) /\ q + (k - q) = k
      BY <1>0, <1>4, <1>7, <1>8, <1>11, <1>12, <2>2
    <3> QED
      BY <1>0, <1>4, <1>7, <1>8, <1>11, <1>12, <2>2, <3>1, Zenon
  <2> QED
    BY <2>1, <2>2, Zenon
<1>14. head \o rest = goal
  BY <1>0, <1>9, <1>11, <1>12, <1>13, SeqEqual, Zenon
<1> QED
  BY <1>4, <1>10, <1>14, Zenon DEF goal

-----------------------------------------------------------------------------
(* Elections *)

(***************************************************************************)
(* A step in which no election starts.                                     *)
(***************************************************************************)
NoNewElection ==
    \A w \in Server : loop'[w].at = "election" =>
        loop[w].at = "election" /\ loop[w].term = loop'[w].term

(***************************************************************************)
(* An election that is over stays over as long as none starts.             *)
(***************************************************************************)
LEMMA ElectedStays ==
    ASSUME FiniteFacts, votes \subseteq votes', NoNewElection
    PROVE  \A w \in Server : \A t \in Nat : Elected(w, t) => Elected(w, t)'
<1> SUFFICES ASSUME NEW w \in Server, NEW t \in Nat, Elected(w, t)
             PROVE  Elected(w, t)'
  BY Zenon
<1>1. Won(w, t, votes') /\ VoteIn(w, t, w) \in votes'
  BY WonGrows, Zenon DEF Elected
<1>2. ~(loop'[w].at = "election" /\ loop'[w].term = t)
  BY Zenon DEF Elected, NoNewElection
<1> QED
  BY <1>1, <1>2, Zenon DEF Elected

(***************************************************************************)
(* A new election is of a term in which the candidate has no vote yet.     *)
(***************************************************************************)
LEMMA VotesAreOfThePast ==
    ASSUME ElectionInv, NEW i \in Server, NEW t, NEW c, VoteIn(i, t, c) \in votes
    PROVE  t \in Nat /\ t <= currentTerm[i]
<1>1. TypeOK /\ VotesKept /\ DiskVote
  BY Zenon DEF ElectionInv
<1>2. VoteIn(i, t, c) \in Vote /\ VoteIn(i, t, c).voter = i /\ VoteIn(i, t, c).term = t
  BY <1>1, Zenon DEF TypeOK, VoteIn
<1>3. t \in Nat
  BY <1>2, Zenon DEF Vote
<1>4. meta[i].term \in Nat /\ currentTerm[i] \in Nat
  BY <1>1, Zenon DEF TypeOK, Meta
<1>5. meta[i].term > t \/ meta[i].term = t
  <2> DEFINE v == VoteIn(i, t, c)
  <2>1. v \in votes /\ v.voter = i /\ v.term = t
    BY <1>2, Zenon
  <2> HIDE DEF v
  <2>2. meta[v.voter].term > v.term \/ meta[v.voter] = [term |-> v.term, votedFor |-> v.candidate]
    BY <1>1, <2>1, Zenon DEF VotesKept
  <2> QED
    BY <2>1, <2>2, SMTT(30)
<1>6. currentTerm[i] >= meta[i].term
  BY <1>1, <1>4, SMTT(30) DEF DiskVote
<1> QED
  BY <1>3, <1>4, <1>5, <1>6, SMTT(30)

(***************************************************************************)
(* A step of one run loop that is not in an election afterwards, or is in  *)
(* the one it was in.                                                      *)
(***************************************************************************)
LEMMA LoopStep ==
    ASSUME TypeOK, NEW i \in Server, NEW lp, loop' = [loop EXCEPT ![i] = lp],
           lp.at = "election" => loop[i].at = "election" /\ loop[i].term = lp.term
    PROVE  NoNewElection
<1>1. loop'[i] = lp /\ \A j \in Server \ {i} : loop'[j] = loop[j]
  BY Zenon DEF TypeOK
<1> QED
  BY <1>1, Zenon DEF NoNewElection

=============================================================================
