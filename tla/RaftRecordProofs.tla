-------------------------- MODULE RaftRecordProofs --------------------------
(***************************************************************************)
(* The invariant behind the safety of Raft, and how it fares from one      *)
(* state to the next: what the nodes have stored in each term, what may    *)
(* therefore be committed, and the facts about logs, records and rounds    *)
(* that the proofs of the single steps share.                              *)
(***************************************************************************)
EXTENDS RaftLogProofs

(***************************************************************************)
(* The assumptions of the theorems: no vote reply is read late and no Save *)
(* fails (Orderly), sendHeartbeats sends only while the node still leads   *)
(* the term of its tick, and a node crashes only in a term it has saved.   *)
(***************************************************************************)
Steady == Orderly /\ ~StaleRounds /\ ~UnsavedCrash

(***************************************************************************)
(* The first n entries of two logs are the same.                           *)
(***************************************************************************)
Same(l, g, n) == n <= Len(l) /\ n <= Len(g) /\ \A k \in 1..n : l[k] = g[k]

(***************************************************************************)
(* The invariant speaks of three records of the past: D, the terms that    *)
(* have had a Leader; H, the log of the Leader of each of these terms, as  *)
(* long as it ever was; and A, how much of the log of each of these terms  *)
(* each node has stored while it was in that term.                         *)
(*                                                                         *)
(* Entry a of term t was made in that term.                                *)
(***************************************************************************)
Own(H, t, a) == a \in 1..Len(H[t]) /\ H[t][a].term = t

(***************************************************************************)
(* A quorum has stored the log of term t up to a; or may still do so: the  *)
(* nodes that have not, and are past the term, never will.                 *)
(***************************************************************************)
Accepted(A, t, a) == IsQuorum({j \in Server : A[j][t] >= a})

Choosable(A, t, a) == IsQuorum({j \in Server : A[j][t] >= a \/ currentTerm[j] <= t})

(***************************************************************************)
(* c entries are known to be committed in term t.                          *)
(***************************************************************************)
Certified(D, H, A, t, c) ==
    c = 0 \/ \E s \in D : s <= t /\ \E n \in 1..Len(H[s]) : c <= n /\ Own(H, s, n) /\ Accepted(A, s, n)

(***************************************************************************)
(* Every entry of l was made by the Leader of its term, after the same     *)
(* entries.                                                                *)
(***************************************************************************)
Made(D, H, l) == \A k \in 1..Len(l) : l[k].term \in D /\ Same(l, H[l[k].term], k)

Leaders(D, H, A) ==
    /\ \A t \in D : /\ \E w \in Server : Elected(w, t) /\ A[w][t] = Len(H[t])
                    /\ Made(D, H, H[t])
                    /\ \A k \in 1..Len(H[t]) : H[t][k].term <= t
    /\ \A i \in Server : role[i] = Leader => currentTerm[i] \in D /\ log[i] = H[currentTerm[i]]

Logs(D, H) ==
    \A i \in Server : Made(D, H, log[i]) /\ \A k \in 1..Len(log[i]) : log[i][k].term <= currentTerm[i]

(***************************************************************************)
(* What a node has stored in a term is there as long as it is in the term; *)
(* and afterwards, if it is still possible that it was committed.          *)
(***************************************************************************)
Stored(D, H, A) ==
    \A j \in Server : \A t \in D :
        /\ A[j][t] <= Len(H[t])
        /\ A[j][t] > 0 => currentTerm[j] >= t
        /\ currentTerm[j] = t => Same(log[j], H[t], A[j][t])
        /\ \A a \in 1..A[j][t] : Own(H, t, a) /\ Choosable(A, t, a) => Same(log[j], H[t], a)

(***************************************************************************)
(* Later Leaders have what may have been committed.                        *)
(***************************************************************************)
Complete(D, H, A) ==
    \A t, u \in D : t < u =>
        \A a \in 1..Len(H[t]) : Own(H, t, a) /\ Choosable(A, t, a) => Same(H[u], H[t], a)

(***************************************************************************)
(* runLeader works for a term it was Leader of, and what it believes to be *)
(* stored, or reads from a success, was stored in that term.               *)
(***************************************************************************)
RoundTrue(D, A, lp, match) ==
    lp.at \in {"sending", "round"} =>
        /\ lp.term \in D /\ \A j \in Server : match[j] <= A[j][lp.term]
        /\ \A q \in lp.open : q.term = lp.term
        /\ \A r \in lp.acks : r.success => LastSent(r.req) <= A[r.req.to][lp.term]

Rounds(D, A) == \A i \in Server : RoundTrue(D, A, loop[i], matchIndex[i])

Requests(D, H, A) ==
    \A m \in appendReqs :
        /\ m.term \in D
        /\ \E n \in 0..Len(H[m.term]) : TakenFrom(m, SubSeq(H[m.term], 1, n)) /\ m.commit <= n
        /\ m.commit <= Len(committed) /\ Certified(D, H, A, m.term, m.commit)

(***************************************************************************)
(* Nobody has voted for a candidate behind what may have been committed.   *)
(***************************************************************************)
UpToDate(D, H, A, m, j) ==
    \A t \in D : t < m.term => \A a \in 1..A[j][t] :
        Own(H, t, a) /\ Choosable(A, t, a) =>
            m.lastTerm > t \/ (m.lastTerm = t /\ m.lastIndex >= a)

Ballots(D, H, A) ==
    /\ \A v \in votes : v.voter # v.candidate =>
         \E m \in voteReqs : /\ m.from = v.candidate /\ m.term = v.term
                             /\ UpToDate(D, H, A, m, v.voter)
    /\ \A m \in voteReqs :
         /\ m.term <= currentTerm[m.from]
         /\ loop[m.from].at = "election" /\ loop[m.from].term = m.term
            /\ currentTerm[m.from] = m.term /\ m.term \notin D =>
              m.lastIndex = Len(log[m.from]) /\ m.lastTerm = LastTerm(log[m.from])
    /\ \A i \in Server : loop[i].at = "election" => loop[i].term > 0

(***************************************************************************)
(* The longest committed beginning was stored by a quorum in the term of   *)
(* its last entry, and what a node believes to be committed is part of it. *)
(***************************************************************************)
Backed(D, H, A) ==
    committed = << >> \/
      \E t \in D : /\ Own(H, t, Len(committed)) /\ Accepted(A, t, Len(committed))
                  /\ Same(H[t], committed, Len(committed))

Commits(D, H, A) ==
    /\ Backed(D, H, A)
    /\ \A i \in Server :
         /\ Certified(D, H, A, currentTerm[i], commitIndex[i])
         /\ commitIndex[i] <= Len(committed) /\ Same(log[i], committed, commitIndex[i])

Records(D, H, A) ==
    /\ Leaders(D, H, A) /\ Logs(D, H) /\ Stored(D, H, A) /\ Complete(D, H, A)
    /\ Rounds(D, A) /\ Requests(D, H, A) /\ Ballots(D, H, A) /\ Commits(D, H, A)

SafeInv ==
    /\ LogInv
    /\ \E D \in SUBSET (Nat \ {0}) : \E H \in [Nat -> Seq(Entry)] :
         \E A \in [Server -> [Nat -> Nat]] : Records(D, H, A)

-----------------------------------------------------------------------------
(* Logs *)

Recorded(D, H, A) ==
    D \in SUBSET (Nat \ {0}) /\ H \in [Nat -> Seq(Entry)] /\ A \in [Server -> [Nat -> Nat]]

(***************************************************************************)
(* Lengths and terms of a log are numbers.                                 *)
(***************************************************************************)
LEMMA LogNumbers ==
    ASSUME NEW l \in Seq(Entry)
    PROVE  Len(l) \in Nat /\ \A k \in 1..Len(l) : l[k] \in Entry /\ l[k].term \in Nat
<1>1. Len(l) \in Nat /\ \A k \in 1..Len(l) : l[k] \in Entry
  BY ElementOfSeq, LenProperties, Zenon
<1> QED
  BY <1>1, Zenon DEF Entry

(***************************************************************************)
(* The types of what is recorded of one term.                              *)
(***************************************************************************)
LEMMA RecordNumbers ==
    ASSUME NEW D, NEW H, NEW A, Recorded(D, H, A), NEW t \in D
    PROVE  /\ t \in Nat /\ t > 0 /\ H[t] \in Seq(Entry) /\ Len(H[t]) \in Nat
           /\ \A k \in 1..Len(H[t]) : H[t][k] \in Entry /\ H[t][k].term \in Nat
           /\ \A j \in Server : A[j][t] \in Nat
<1>1. t \in Nat /\ t > 0 /\ H[t] \in Seq(Entry) /\ \A j \in Server : A[j][t] \in Nat
  BY DEF Recorded
<1> QED
  BY <1>1, LogNumbers, Zenon

(***************************************************************************)
(* Shared beginnings: shorter ones are shared, and two logs that share     *)
(* theirs with a third one share them with each other.                     *)
(***************************************************************************)
LEMMA SameShorter ==
    ASSUME NEW l, NEW g, NEW n \in Nat, NEW b \in Nat, b <= n, Same(l, g, n),
           Len(l) \in Nat, Len(g) \in Nat
    PROVE  Same(l, g, b)
BY DEF Same

(***************************************************************************)
(* Two logs that start alike do so both ways round.                        *)
(***************************************************************************)
LEMMA SameSwaps ==
    ASSUME NEW l, NEW g, NEW n, Same(l, g, n)
    PROVE  Same(g, l, n)
BY Zenon DEF Same

(***************************************************************************)
(* Logs that start like a third one start alike.                           *)
(***************************************************************************)
LEMMA SameJoins ==
    ASSUME NEW l, NEW g, NEW h, NEW n, Same(l, g, n), Same(g, h, n)
    PROVE  Same(l, h, n)
BY Zenon DEF Same

(***************************************************************************)
(* A beginning of a log is the same as the log.                            *)
(***************************************************************************)
LEMMA BeginningSame ==
    ASSUME NEW g \in Seq(Entry), NEW n \in Nat, n <= Len(g)
    PROVE  SubSeq(g, 1, n) \in Seq(Entry) /\ Len(SubSeq(g, 1, n)) = n /\ Same(SubSeq(g, 1, n), g, n)
<1>1. /\ SubSeq(g, 1, n) \in Seq(Entry) /\ Len(SubSeq(g, 1, n)) = n
      /\ \A k \in 1..n : SubSeq(g, 1, n)[k] = g[k]
  BY BeginningOf, Zenon
<1> QED
  BY <1>1 DEF Same

(***************************************************************************)
(* Logs that start alike have the same beginnings.                         *)
(***************************************************************************)
LEMMA SameBeginning ==
    ASSUME NEW l \in Seq(Entry), NEW g \in Seq(Entry), NEW n \in Nat, Same(l, g, n)
    PROVE  SubSeq(l, 1, n) = SubSeq(g, 1, n)
<1>1. n <= Len(l) /\ n <= Len(g) /\ \A k \in 1..n : l[k] = g[k]
  BY Zenon DEF Same
<1>2. /\ SubSeq(l, 1, n) \in Seq(Entry) /\ Len(SubSeq(l, 1, n)) = n
      /\ \A k \in 1..n : SubSeq(l, 1, n)[k] = l[k]
  BY <1>1, BeginningOf, Zenon
<1>3. /\ SubSeq(g, 1, n) \in Seq(Entry) /\ Len(SubSeq(g, 1, n)) = n
      /\ \A k \in 1..n : SubSeq(g, 1, n)[k] = g[k]
  BY <1>1, BeginningOf, Zenon
<1> QED
  BY <1>1, <1>2, <1>3, SeqEqual, Zenon

(***************************************************************************)
(* A beginning of a log whose entries were made by Leaders is such a log.  *)
(***************************************************************************)
LEMMA MadeBeginning ==
    ASSUME NEW D, NEW H, NEW A, Recorded(D, H, A), NEW l \in Seq(Entry), NEW g \in Seq(Entry),
           Made(D, H, g), Same(l, g, Len(l))
    PROVE  Made(D, H, l)
<1> SUFFICES ASSUME NEW k \in 1..Len(l)
             PROVE  l[k].term \in D /\ Same(l, H[l[k].term], k)
  BY Zenon DEF Made
<1>0. Len(l) \in Nat /\ Len(g) \in Nat /\ k \in Nat /\ k <= Len(l)
  BY LogNumbers
<1>1. k \in 1..Len(g) /\ l[k] = g[k] /\ Same(l, g, k)
  BY <1>0 DEF Same
<1>2. g[k].term \in D /\ Same(g, H[g[k].term], k)
  BY <1>1, Zenon DEF Made
<1> QED
  BY <1>1, <1>2, SameJoins, Zenon

(***************************************************************************)
(* Such logs agree in the sense of LogMatching.                            *)
(***************************************************************************)
LEMMA MadeAgree ==
    ASSUME NEW D, NEW H, NEW l, NEW g, Made(D, H, l), Made(D, H, g)
    PROVE  Agree(l, g)
<1> SUFFICES ASSUME NEW k \in (1..Len(l)) \cap (1..Len(g)), l[k].term = g[k].term
             PROVE  \A n \in 1..k : l[n] = g[n]
  BY Zenon DEF Agree
<1>1. Same(l, H[l[k].term], k) /\ Same(g, H[g[k].term], k)
  BY Zenon DEF Made
<1> QED
  BY <1>1, Zenon DEF Same

(***************************************************************************)
(* The terms of its entries never decrease.                                *)
(***************************************************************************)
LEMMA TermsAscend ==
    ASSUME NEW D, NEW H, NEW A, Recorded(D, H, A), Leaders(D, H, A),
           NEW l \in Seq(Entry), Made(D, H, l), NEW a \in 1..Len(l)
    PROVE  l[a].term <= LastTerm(l) /\ Len(l) \in 1..Len(l) /\ LastTerm(l) = l[Len(l)].term
<1>0. Len(l) \in Nat /\ Len(l) \in 1..Len(l)
  BY LogNumbers
<1> DEFINE s == l[Len(l)].term
<1>1. LastTerm(l) = s
  BY <1>0, Zenon DEF LastTerm, TermAt
<1>2. s \in D /\ Same(l, H[s], Len(l))
  BY <1>0, Zenon DEF Made
<1> HIDE DEF s
<1>3. a \in 1..Len(H[s]) /\ l[a] = H[s][a]
  <2>1. Len(H[s]) \in Nat
    BY <1>2, RecordNumbers, Zenon
  <2> QED
    BY <1>0, <1>2, <2>1 DEF Same
<1>4. H[s][a].term <= s
  BY <1>2, <1>3, Zenon DEF Leaders
<1> QED
  BY <1>0, <1>1, <1>3, <1>4, Zenon DEF s


(***************************************************************************)
(* The first new entry is one the log lacks or has of another term.        *)
(***************************************************************************)
LEMMA FirstNewConflict ==
    ASSUME FiniteFacts, NEW l \in Seq(Entry), NEW prev \in Nat, NEW es \in Seq(Entry),
           FirstNew(l, prev, es) <= Len(es)
    PROVE  LET f == FirstNew(l, prev, es) IN prev + f > Len(l) \/ l[prev + f].term # es[f].term
<1> DEFINE S == {Len(es) + 1} \cup
                {k \in 1..Len(es) : prev + k > Len(l) \/ l[prev + k].term # es[k].term}
<1>1. Len(es) \in Nat /\ Len(l) \in Nat
  BY LenProperties, Zenon
<1>2. S \in SUBSET Nat /\ S # {}
  BY <1>1
<1>3. Min(S) \in S
  BY <1>2, MinOfNaturals, Zenon
<1>4. FirstNew(l, prev, es) = Min(S)
  BY Zenon DEF FirstNew
<1> QED
  BY <1>1, <1>3, <1>4

(***************************************************************************)
(* What the entries of a request are.                                      *)
(***************************************************************************)
LEMMA EntriesTaken ==
    ASSUME NEW g \in Seq(Entry), NEW prev \in Nat, NEW es, es = SubSeq(g, prev + 1, Len(g))
    PROVE  /\ es \in Seq(Entry) /\ Len(es) \in Nat
           /\ Len(es) = IF prev < Len(g) THEN Len(g) - prev ELSE 0
           /\ \A k \in 1..Len(es) : es[k] = g[prev + k]
<1>0. Len(g) \in Nat
  BY LenProperties, Zenon
<1>1. /\ es \in Seq(Entry)
      /\ Len(es) = IF prev + 1 <= Len(g) THEN Len(g) - (prev + 1) + 1 ELSE 0
      /\ \A k \in 1..Len(es) : es[k] = g[(prev + 1) + k - 1]
  BY <1>0, StretchOf
<1>2. Len(es) \in Nat
  BY <1>1, LenProperties, Zenon
<1> QED
  BY <1>0, <1>1, <1>2

(***************************************************************************)
(* HandleAppendEntries does not cut what the follower shares with the log  *)
(* of the Leader, however late or short the request.                       *)
(***************************************************************************)
LEMMA MergeHolds ==
    ASSUME FiniteFacts, NEW l, NEW g, NEW prev, NEW es, NEW upTo, Merging(l, g, prev, es, upTo),
           NEW h \in Seq(Entry), Same(g, h, Len(g)), NEW n \in Nat, Same(l, h, n)
    PROVE  Same(MergeEntries(l, prev, es, upTo), h, n)
<1> DEFINE f == FirstNew(l, prev, es)
<1>0. /\ l \in Seq(Entry) /\ g \in Seq(Entry) /\ prev \in Nat /\ upTo \in Nat
      /\ es = SubSeq(g, prev + 1, Len(g)) /\ f <= Len(es) /\ f - 1 <= upTo
  BY Zenon DEF Merging, Matching
<1>1. /\ prev + upTo \in 0..Len(g)
      /\ MergeEntries(l, prev, es, upTo) = SubSeq(g, 1, prev + upTo)
  BY MergeIsBeginning
<1>2. Len(l) \in Nat /\ Len(g) \in Nat /\ Len(h) \in Nat
  BY <1>0, LenProperties, Zenon
<1>3. /\ es \in Seq(Entry) /\ Len(es) \in Nat
      /\ Len(es) = IF prev < Len(g) THEN Len(g) - prev ELSE 0
      /\ \A k \in 1..Len(es) : es[k] = g[prev + k]
  BY <1>0, EntriesTaken, SMTT(30)
<1>4. f \in Nat /\ f >= 1 /\ f \in 1..Len(es)
  <2>1. f \in 1..(Len(es) + 1) /\ f <= Len(es)
    BY <1>0, <1>3, FirstNewType, Zenon
  <2> HIDE DEF f
  <2> QED
    BY <1>3, <2>1
<1>5. prev + f > Len(l) \/ l[prev + f].term # es[f].term
  BY <1>0, <1>3, FirstNewConflict, Zenon
<1> HIDE DEF f
<1>6. n < prev + f
  <2> SUFFICES ASSUME ~(n < prev + f) PROVE FALSE
    BY Zenon
  <2>1. prev + f \in 1..n /\ prev + f \in 1..Len(g) /\ prev + f <= Len(l)
    <3>1. n <= Len(l)
      BY <1>2, Zenon DEF Same
    <3>2. /\ prev \in Nat /\ n \in Nat /\ f \in Nat /\ f >= 1 /\ f <= Len(es)
          /\ Len(g) \in Nat /\ Len(l) \in Nat
          /\ Len(es) = IF prev < Len(g) THEN Len(g) - prev ELSE 0
      BY <1>0, <1>2, <1>3, <1>4, Zenon
    <3> QED
      BY <3>1, <3>2, SMTT(30)
  <2>2. l[prev + f] = h[prev + f] /\ g[prev + f] = h[prev + f]
    BY <2>1, Zenon DEF Same
  <2>3. es[f] = g[prev + f]
    BY <1>3, <1>4, Zenon
  <2> QED
    <3>1. ~(prev + f > Len(l))
      BY <1>2, <2>1
    <3> QED
      BY <1>5, <2>2, <2>3, <3>1, Zenon
<1>7. n <= prev + upTo /\ prev + upTo \in Nat /\ prev + upTo <= Len(g)
  BY <1>0, <1>1, <1>2, <1>4, <1>6
<1> DEFINE c == prev + upTo
<1>8. c \in Nat /\ c <= Len(g) /\ n <= c /\ MergeEntries(l, prev, es, upTo) = SubSeq(g, 1, c)
  BY <1>1, <1>7, Zenon
<1> HIDE DEF c
<1>9. Len(SubSeq(g, 1, c)) = c /\ Same(SubSeq(g, 1, c), g, c)
  BY <1>0, <1>8, BeginningSame, Zenon
<1>10. Same(SubSeq(g, 1, c), g, n)
  BY <1>2, <1>8, <1>9, SameShorter, Zenon
<1>11. Same(g, h, n)
  <2>1. n <= Len(g)
    BY <1>2, <1>8
  <2> QED
    BY <1>2, <2>1, SameShorter, Zenon
<1> QED
  BY <1>8, <1>10, <1>11, SameJoins, Zenon

(***************************************************************************)
(* A follower that accepts a request has all of the log it was taken from, *)
(* also when it is asked to store nothing new.                             *)
(***************************************************************************)
LEMMA AcceptHolds ==
    ASSUME FiniteFacts, NEW l, NEW g, NEW prev, NEW es, Matching(l, g, prev, es),
           \A k \in 1..Len(l) : l[k].term # 0
    PROVE  /\ Same(MergeEntries(l, prev, es, Len(es)), g, Len(g))
           /\ es # << >> => prev + Len(es) = Len(g)
<1> DEFINE f == FirstNew(l, prev, es)
<1>0. /\ l \in Seq(Entry) /\ g \in Seq(Entry) /\ prev \in Nat /\ Agree(l, g)
      /\ es = SubSeq(g, prev + 1, Len(g))
      /\ prev > 0 => prev <= Len(l) /\ l[prev].term = TermAt(g, prev)
  BY Zenon DEF Matching
<1>2. Len(l) \in Nat /\ Len(g) \in Nat
  BY <1>0, LenProperties, Zenon
<1>3. /\ es \in Seq(Entry) /\ Len(es) \in Nat
      /\ Len(es) = IF prev < Len(g) THEN Len(g) - prev ELSE 0
      /\ \A k \in 1..Len(es) : es[k] = g[prev + k]
  BY <1>0, EntriesTaken
<1>4. /\ f \in 1..(Len(es) + 1)
      /\ \A k \in 1..(f - 1) : prev + k <= Len(l) /\ l[prev + k].term = es[k].term
  BY <1>0, <1>3, FirstNewType, Zenon
<1>5. prev <= Len(g)
  <2> SUFFICES ASSUME prev > Len(g) PROVE FALSE
    BY <1>0, <1>2
  <2>1. prev \in 1..Len(l) /\ prev \notin 1..Len(g)
    BY <1>0, <1>2
  <2> QED
    BY <1>0, <1>2, <2>1 DEF TermAt
<1>6. prev + Len(es) = Len(g)
  BY <1>0, <1>2, <1>3, <1>5
<1>7. CASE f > Len(es)
  <2>0. MergeEntries(l, prev, es, Len(es)) = l
    BY <1>7, Zenon DEF MergeEntries
  <2>1. Len(g) > 0 => Len(g) <= Len(l) /\ l[Len(g)].term = g[Len(g)].term
    <3>1. CASE Len(es) = 0
      <4>1. Len(g) = prev /\ (prev > 0 => prev \in 1..Len(g))
        BY <1>0, <1>2, <1>6, <3>1
      <4> QED
        BY <1>0, <4>1, Zenon DEF TermAt
    <3>2. CASE Len(es) # 0
      <4>1. Len(es) \in 1..(f - 1) /\ Len(es) \in 1..Len(es)
        BY <1>3, <1>4, <1>7, <3>2
      <4>2. prev + Len(es) <= Len(l) /\ l[prev + Len(es)].term = es[Len(es)].term
            /\ es[Len(es)] = g[prev + Len(es)]
        BY <1>3, <1>4, <4>1, Zenon
      <4> QED
        BY <1>6, <4>2, Zenon
    <3> QED
      BY <3>1, <3>2, Zenon
  <2>2. Same(l, g, Len(g))
    <3>1. CASE Len(g) = 0
      BY <1>2, <3>1 DEF Same
    <3>2. CASE Len(g) # 0
      <4>1. Len(g) \in (1..Len(l)) \cap (1..Len(g)) /\ l[Len(g)].term = g[Len(g)].term
        BY <1>2, <2>1, <3>2
      <4> QED
        BY <1>0, <1>2, <4>1 DEF Agree, Same
    <3> QED
      BY <3>1, <3>2, Zenon
  <2> QED
    BY <1>6, <2>0, <2>2, Zenon
<1>8. CASE ~(f > Len(es))
  <2>1. Merging(l, g, prev, es, Len(es))
    BY <1>3, <1>4, <1>8 DEF Merging
  <2>2. MergeEntries(l, prev, es, Len(es)) = SubSeq(g, 1, Len(g))
    BY <1>6, <2>1, MergeIsBeginning
  <2>3. Same(SubSeq(g, 1, Len(g)), g, Len(g))
    BY <1>0, <1>2, BeginningSame
  <2> QED
    BY <1>6, <2>2, <2>3, Zenon
<1> QED
  BY <1>7, <1>8, Zenon


-----------------------------------------------------------------------------
(* The records from one state to the next *)

(***************************************************************************)
(* No handler and no restart takes a term back.                            *)
(***************************************************************************)
TermsGrow == \A j \in Server : currentTerm[j] <= currentTerm'[j]

(***************************************************************************)
(* A step that takes the records D, H, A to E, G, B: a new term has no     *)
(* entries of its own yet, the log of a term only grows, and a node stores *)
(* more of it only in that term.                                           *)
(***************************************************************************)
Evolves(D, H, A, E, G, B) ==
    /\ TypeOK /\ TypeOK' /\ TermsGrow
    /\ Recorded(D, H, A) /\ Recorded(E, G, B) /\ D \subseteq E
    /\ \A t \in D : Same(G[t], H[t], Len(H[t]))
    /\ \A j \in Server : \A t \in D :
         A[j][t] <= B[j][t] /\ (A[j][t] # B[j][t] => currentTerm[j] <= t /\ currentTerm'[j] = t)
    /\ \A t \in E \ D : /\ \A a : ~Own(G, t, a)
                        /\ \A j \in Server : B[j][t] # 0 => currentTerm'[j] = t

(***************************************************************************)
(* Most steps leave the records as they are.                               *)
(***************************************************************************)
LEMMA NothingEvolves ==
    ASSUME TypeOK, TypeOK', TermsGrow, NEW D, NEW H, NEW A, Recorded(D, H, A)
    PROVE  Evolves(D, H, A, D, H, A)
<1>1. \A t \in D : Len(H[t]) \in Nat /\ \A j \in Server : A[j][t] \in Nat
  BY RecordNumbers, Zenon
<1>2. \A t \in D : Same(H[t], H[t], Len(H[t]))
  BY <1>1 DEF Same
<1> QED
  BY <1>1, <1>2 DEF Evolves

(***************************************************************************)
(* The types of what is recorded of an old term before and after a step.   *)
(***************************************************************************)
LEMMA EvolvesNumbers ==
    ASSUME NEW D, NEW H, NEW A, NEW E, NEW G, NEW B, Evolves(D, H, A, E, G, B), NEW t \in D
    PROVE  /\ t \in E /\ t \in Nat /\ H[t] \in Seq(Entry) /\ Len(H[t]) \in Nat
           /\ G[t] \in Seq(Entry) /\ Len(G[t]) \in Nat /\ Len(H[t]) <= Len(G[t])
           /\ Same(G[t], H[t], Len(H[t]))
           /\ \A j \in Server : A[j][t] \in Nat /\ B[j][t] \in Nat
<1>1. Recorded(D, H, A) /\ Recorded(E, G, B) /\ t \in E /\ Same(G[t], H[t], Len(H[t]))
  BY Zenon DEF Evolves
<1>2. t \in Nat /\ H[t] \in Seq(Entry) /\ Len(H[t]) \in Nat /\ \A j \in Server : A[j][t] \in Nat
  BY <1>1, RecordNumbers, Zenon
<1>3. G[t] \in Seq(Entry) /\ Len(G[t]) \in Nat /\ \A j \in Server : B[j][t] \in Nat
  BY <1>1, RecordNumbers, Zenon
<1>4. Len(H[t]) <= Len(G[t])
  BY <1>1, Zenon DEF Same
<1> QED
  BY <1>1, <1>2, <1>3, <1>4, Zenon

(***************************************************************************)
(* What starts like the log of a term still does when that log grows.      *)
(***************************************************************************)
LEMMA SameKeeps ==
    ASSUME NEW D, NEW H, NEW A, NEW E, NEW G, NEW B, Evolves(D, H, A, E, G, B), NEW t \in D,
           NEW a \in Nat, NEW l, Same(l, H[t], a)
    PROVE  Same(l, G[t], a)
<1>1. Len(H[t]) \in Nat /\ Len(G[t]) \in Nat /\ Same(G[t], H[t], Len(H[t]))
  BY EvolvesNumbers, Zenon
<1> QED
  BY <1>1, SMTT(30) DEF Same

(***************************************************************************)
(* An entry stays one of its own term.                                     *)
(***************************************************************************)
LEMMA OwnKeeps ==
    ASSUME NEW D, NEW H, NEW A, NEW E, NEW G, NEW B, Evolves(D, H, A, E, G, B), NEW t \in D,
           NEW a
    PROVE  /\ Own(H, t, a) => Own(G, t, a)
           /\ Own(G, t, a) /\ a <= Len(H[t]) => Own(H, t, a)
<1>1. Len(H[t]) \in Nat /\ Len(G[t]) \in Nat /\ Same(G[t], H[t], Len(H[t]))
  BY EvolvesNumbers, Zenon
<1> QED
  BY <1>1 DEF Own, Same

(***************************************************************************)
(* What a quorum has stored stays stored by a quorum.                      *)
(***************************************************************************)
LEMMA AcceptedKeeps ==
    ASSUME FiniteFacts,
           NEW D, NEW H, NEW A, NEW E, NEW G, NEW B, Evolves(D, H, A, E, G, B), NEW t \in D,
           NEW a \in Nat, Accepted(A, t, a)
    PROVE  Accepted(B, t, a)
<1> DEFINE S == {j \in Server : A[j][t] >= a}
           T == {j \in Server : B[j][t] >= a}
<1>1. \A j \in Server : A[j][t] \in Nat /\ B[j][t] \in Nat /\ A[j][t] <= B[j][t]
  BY EvolvesNumbers DEF Evolves
<1>2. S \in SUBSET Server /\ T \in SUBSET Server /\ S \subseteq T
  BY <1>1
<1>3. IsQuorum(S)
  BY Zenon DEF Accepted
<1> HIDE DEF S, T
<1>4. IsQuorum(T)
  BY <1>2, <1>3, QuorumGrows, Zenon
<1> QED
  BY <1>4, Zenon DEF Accepted, T

(***************************************************************************)
(* What a quorum may store after a step it might have stored before it: a  *)
(* node that has left a term stores nothing in it any more.                *)
(***************************************************************************)
LEMMA ChoosableBefore ==
    ASSUME FiniteFacts,
           NEW D, NEW H, NEW A, NEW E, NEW G, NEW B, Evolves(D, H, A, E, G, B), NEW t \in D,
           NEW a \in Nat, Choosable(B, t, a)'
    PROVE  Choosable(A, t, a)
<1> DEFINE S == {j \in Server : A[j][t] >= a \/ currentTerm[j] <= t}
           T == {j \in Server : B[j][t] >= a \/ currentTerm'[j] <= t}
<1>1. t \in Nat /\ \A j \in Server : A[j][t] \in Nat /\ B[j][t] \in Nat
  BY EvolvesNumbers, Zenon
<1>2. \A j \in Server : /\ A[j][t] # B[j][t] => currentTerm[j] <= t
                        /\ currentTerm[j] \in Nat /\ currentTerm'[j] \in Nat
                        /\ currentTerm[j] <= currentTerm'[j]
  BY Zenon DEF Evolves, TypeOK, TermsGrow
<1>3. S \in SUBSET Server /\ T \in SUBSET Server /\ T \subseteq S
  BY <1>1, <1>2
<1>4. IsQuorum(T)
  BY Zenon DEF Choosable
<1> HIDE DEF S, T
<1>5. IsQuorum(S)
  BY <1>3, <1>4, QuorumGrows, Zenon
<1> QED
  BY <1>5, Zenon DEF Choosable, S

(***************************************************************************)
(* What a quorum has stored it may store.                                  *)
(***************************************************************************)
LEMMA AcceptedChoosable ==
    ASSUME FiniteFacts, NEW A, NEW t, NEW a, Accepted(A, t, a)
    PROVE  Choosable(A, t, a)
<1> DEFINE S == {j \in Server : A[j][t] >= a}
           T == {j \in Server : A[j][t] >= a \/ currentTerm[j] <= t}
<1>1. S \in SUBSET Server /\ T \in SUBSET Server /\ S \subseteq T
  BY Zenon
<1>2. IsQuorum(S)
  BY Zenon DEF Accepted
<1> HIDE DEF S, T
<1>3. IsQuorum(T)
  BY <1>1, <1>2, QuorumGrows, Zenon
<1> QED
  BY <1>3, Zenon DEF Choosable, T

(***************************************************************************)
(* The ground for a commit index stays one, in this term and in every      *)
(* later one.                                                              *)
(***************************************************************************)
LEMMA CertifiedKeeps ==
    ASSUME FiniteFacts, NEW D, NEW H, NEW A, NEW E, NEW G, NEW B, Evolves(D, H, A, E, G, B),
           NEW t \in Nat, NEW u \in Nat, t <= u, NEW c \in Nat, Certified(D, H, A, t, c)
    PROVE  Certified(E, G, B, u, c)
<1> SUFFICES ASSUME c # 0 PROVE Certified(E, G, B, u, c)
  BY Zenon DEF Certified
<1>1. PICK s \in D : s <= t /\ \E n \in 1..Len(H[s]) : c <= n /\ Own(H, s, n) /\ Accepted(A, s, n)
  BY Zenon DEF Certified
<1>2. PICK n \in 1..Len(H[s]) : c <= n /\ Own(H, s, n) /\ Accepted(A, s, n)
  BY <1>1, Zenon
<1>3. s \in E /\ s \in Nat /\ s <= u /\ Len(H[s]) \in Nat
  BY <1>1, EvolvesNumbers
<1>4. Own(G, s, n) /\ Accepted(B, s, n)
  BY <1>2, <1>3, OwnKeeps, AcceptedKeeps, SMTT(30)
<1>5. n \in 1..Len(G[s])
  BY <1>4, Zenon DEF Own
<1> QED
  BY <1>2, <1>3, <1>4, <1>5, Zenon DEF Certified

(***************************************************************************)
(* A log made of the logs of earlier terms stays one.                      *)
(***************************************************************************)
LEMMA MadeKeeps ==
    ASSUME NEW D, NEW H, NEW A, NEW E, NEW G, NEW B, Evolves(D, H, A, E, G, B),
           NEW l \in Seq(Entry), Made(D, H, l)
    PROVE  Made(E, G, l)
<1> SUFFICES ASSUME NEW k \in 1..Len(l)
             PROVE  l[k].term \in E /\ Same(l, G[l[k].term], k)
  BY Zenon DEF Made
<1>1. k \in Nat /\ l[k].term \in D /\ Same(l, H[l[k].term], k)
  BY LogNumbers DEF Made
<1>2. l[k].term \in E
  BY <1>1, Zenon DEF Evolves
<1> QED
  BY <1>1, <1>2, SameKeeps, Zenon


(***************************************************************************)
(* What each part of the invariant needs of a step.                        *)
(***************************************************************************)
LEMMA LogsKeep ==
    ASSUME NEW D, NEW H, NEW A, NEW E, NEW G, NEW B, Evolves(D, H, A, E, G, B), Logs(D, H),
           \A i \in Server : \/ log'[i] = log[i]
                             \/ /\ Made(E, G, log'[i])
                                /\ \A k \in 1..Len(log'[i]) : log'[i][k].term <= currentTerm'[i]
    PROVE  Logs(E, G)'
<1> SUFFICES ASSUME NEW i \in Server, log'[i] = log[i]
             PROVE  /\ Made(E, G, log[i])
                    /\ \A k \in 1..Len(log[i]) : log[i][k].term <= currentTerm'[i]
  BY Zenon DEF Logs
<1>1. log[i] \in Seq(Entry) /\ Made(D, H, log[i])
  BY Zenon DEF Evolves, TypeOK, Logs
<1>2. currentTerm[i] \in Nat /\ currentTerm'[i] \in Nat /\ currentTerm[i] <= currentTerm'[i]
  BY Zenon DEF Evolves, TypeOK, TermsGrow
<1>3. \A k \in 1..Len(log[i]) : log[i][k].term \in Nat /\ log[i][k].term <= currentTerm[i]
  BY <1>1, LogNumbers, Zenon DEF Logs
<1> QED
  BY <1>1, <1>2, <1>3, MadeKeeps

(***************************************************************************)
(* Leaders is kept by a step that leaves the logs of the old terms as they *)
(* were and elects whom it must.                                           *)
(***************************************************************************)
LEMMA LeadersKeep ==
    ASSUME NEW D, NEW H, NEW A, NEW E, NEW G, NEW B, Evolves(D, H, A, E, G, B), Leaders(D, H, A),
           \A w \in Server : \A t \in Nat : Elected(w, t) => Elected(w, t)',
           \A t \in D : G[t] = H[t] /\ \A j \in Server : B[j][t] <= Len(G[t]),
           \A t \in E \ D : /\ \E w \in Server : Elected(w, t)' /\ B[w][t] = Len(G[t])
                            /\ Made(E, G, G[t])
                            /\ \A k \in 1..Len(G[t]) : G[t][k].term <= t,
           \A i \in Server : role'[i] = Leader =>
               \/ role[i] = Leader /\ currentTerm'[i] = currentTerm[i] /\ log'[i] = log[i]
               \/ currentTerm'[i] \in E /\ log'[i] = G[currentTerm'[i]]
    PROVE  Leaders(E, G, B)'
<1>1. ASSUME NEW t \in E
      PROVE  /\ \E w \in Server : Elected(w, t)' /\ B[w][t] = Len(G[t])
             /\ Made(E, G, G[t]) /\ \A k \in 1..Len(G[t]) : G[t][k].term <= t
  <2>1. CASE t \in D
    <3>0. t \in Nat /\ G[t] \in Seq(Entry) /\ G[t] = H[t] /\ Len(G[t]) \in Nat
          /\ \A j \in Server : A[j][t] \in Nat /\ B[j][t] \in Nat /\ B[j][t] <= Len(G[t])
      BY <2>1, EvolvesNumbers, Zenon
    <3>1. PICK w \in Server : Elected(w, t) /\ A[w][t] = Len(H[t])
      BY <2>1, Zenon DEF Leaders
    <3>2. A[w][t] <= B[w][t]
      BY <2>1, Zenon DEF Evolves
    <3>3. Elected(w, t)' /\ B[w][t] = Len(G[t])
      BY <3>0, <3>1, <3>2, SMTT(30)
    <3>4. Made(D, H, G[t]) /\ \A k \in 1..Len(G[t]) : G[t][k].term <= t
      BY <2>1, <3>0, Zenon DEF Leaders
    <3>5. Made(E, G, G[t])
      BY <3>0, <3>4, MadeKeeps, Zenon
    <3> QED
      BY <3>3, <3>4, <3>5, Zenon
  <2>2. CASE t \notin D
    BY <2>2, Zenon
  <2> QED
    BY <2>1, <2>2, Zenon
<1>2. ASSUME NEW i \in Server, role'[i] = Leader
      PROVE  currentTerm'[i] \in E /\ log'[i] = G[currentTerm'[i]]
  <2>1. CASE role[i] = Leader /\ currentTerm'[i] = currentTerm[i] /\ log'[i] = log[i]
    BY <2>1, SMTT(30) DEF Leaders, Evolves
  <2> QED
    BY <1>2, <2>1, Zenon
<1> QED
  BY <1>1, <1>2, Zenon DEF Leaders

(***************************************************************************)
(* Stored is kept by a step that removes nothing a later term may still    *)
(* need.                                                                   *)
(***************************************************************************)
LEMMA StoredKeep ==
    ASSUME FiniteFacts,
           NEW D, NEW H, NEW A, NEW E, NEW G, NEW B, Evolves(D, H, A, E, G, B), Stored(D, H, A),
           \A j \in Server : \A t \in E :
               B[j][t] <= Len(G[t]) /\ (currentTerm'[j] = t => Same(log'[j], G[t], B[j][t])),
           \A j \in Server : \A t \in D : \A a \in 1..A[j][t] :
               /\ t < currentTerm'[j] /\ Own(H, t, a) /\ Choosable(A, t, a)
               /\ Same(log[j], H[t], a)
               => Same(log'[j], H[t], a)
    PROVE  Stored(E, G, B)'
<1> SUFFICES ASSUME NEW j \in Server, NEW t \in E
             PROVE  /\ B[j][t] > 0 => currentTerm'[j] >= t
                    /\ \A a \in 1..B[j][t] : Own(G, t, a) /\ Choosable(B, t, a)' =>
                         Same(log'[j], G[t], a)
  BY Zenon DEF Stored
<1>0. /\ currentTerm[j] \in Nat /\ currentTerm'[j] \in Nat /\ currentTerm[j] <= currentTerm'[j]
      /\ log'[j] \in Seq(Entry) /\ Len(log'[j]) \in Nat
      /\ t \in Nat /\ Len(G[t]) \in Nat /\ B[j][t] \in Nat
  <2>1. log'[j] \in Seq(Entry)
    BY Zenon DEF Evolves, TypeOK
  <2>2. Recorded(E, G, B)
    BY Zenon DEF Evolves
  <2> QED
    BY <2>1, <2>2, RecordNumbers, LogNumbers, Zenon DEF Evolves, TypeOK, TermsGrow
<1>1. CASE t \notin D
  BY <1>0, <1>1, SMTT(30) DEF Evolves
<1>2. CASE t \in D /\ A[j][t] # B[j][t]
  <2>1. currentTerm'[j] = t
    BY <1>2, Zenon DEF Evolves
  <2>2. Same(log'[j], G[t], B[j][t])
    BY <2>1, Zenon
  <2>3. \A a \in 1..B[j][t] : Same(log'[j], G[t], a)
    BY <1>0, <2>2, SMTT(30) DEF Same
  <2> QED
    BY <1>0, <2>1, <2>3, SMTT(30)
<1>3. CASE t \in D /\ A[j][t] = B[j][t]
  <2>0. Len(H[t]) \in Nat /\ A[j][t] \in Nat
    BY <1>3, EvolvesNumbers, Zenon
  <2>1. A[j][t] <= Len(H[t]) /\ (A[j][t] > 0 => currentTerm[j] >= t)
    BY <1>3, Zenon DEF Stored
  <2>2. B[j][t] > 0 => currentTerm'[j] >= t
    BY <1>0, <1>3, <2>1, SMTT(30)
  <2>3. ASSUME NEW a \in 1..B[j][t], Own(G, t, a), Choosable(B, t, a)'
        PROVE  Same(log'[j], G[t], a)
    <3>1. CASE currentTerm'[j] = t
      BY <1>0, <3>1, SMTT(30) DEF Same
    <3>2. CASE currentTerm'[j] # t
      <4>1. t < currentTerm'[j] /\ a \in Nat /\ a <= Len(H[t]) /\ a \in 1..A[j][t]
        BY <1>0, <1>3, <2>0, <2>1, <2>2, <3>2, SMTT(30)
      <4>2. Own(H, t, a) /\ Choosable(A, t, a)
        BY <1>3, <2>3, <4>1, OwnKeeps, ChoosableBefore, Zenon
      <4>3. Same(log[j], H[t], a)
        BY <1>3, <4>1, <4>2, Zenon DEF Stored
      <4>4. Same(log'[j], H[t], a)
        BY <1>3, <4>1, <4>2, <4>3, Zenon
      <4> QED
        BY <1>3, <4>1, <4>4, SameKeeps, Zenon
    <3> QED
      BY <3>1, <3>2, Zenon
  <2> QED
    BY <2>2, <2>3, Zenon
<1> QED
  BY <1>1, <1>2, <1>3, Zenon

(***************************************************************************)
(* Complete is kept when a new Leader starts with everything that may be   *)
(* committed, and nothing a Leader adds late may be.                       *)
(***************************************************************************)
LEMMA CompleteKeep ==
    ASSUME FiniteFacts,
           NEW D, NEW H, NEW A, NEW E, NEW G, NEW B, Evolves(D, H, A, E, G, B), Complete(D, H, A),
           \A t \in D : \A u \in E \ D : \A a \in 1..Len(H[t]) :
               t < u /\ Own(H, t, a) /\ Choosable(B, t, a)' => Same(G[u], H[t], a),
           \A t \in D : \A u \in E : \A a \in 1..Len(G[t]) :
               t < u /\ a > Len(H[t]) => ~Choosable(B, t, a)'
    PROVE  Complete(E, G, B)'
<1> SUFFICES ASSUME NEW t \in E, NEW u \in E, t < u, NEW a \in 1..Len(G[t]),
                    Own(G, t, a), Choosable(B, t, a)'
             PROVE  Same(G[u], G[t], a)
  BY Zenon DEF Complete
<1>1. t \in D
  BY Zenon DEF Evolves
<1>2. a \in Nat /\ a >= 1 /\ Len(H[t]) \in Nat /\ Len(G[t]) \in Nat
  BY <1>1, EvolvesNumbers
<1>3. a <= Len(H[t]) /\ a \in 1..Len(H[t])
  BY <1>1, <1>2, SMTT(30)
<1>4. Own(H, t, a) /\ Choosable(A, t, a)
  BY <1>1, <1>2, <1>3, OwnKeeps, ChoosableBefore, Zenon
<1>5. CASE u \in D
  <2>1. Same(H[u], H[t], a)
    BY <1>1, <1>3, <1>4, <1>5, Zenon DEF Complete
  <2>2. Same(H[t], G[u], a)
    BY <1>2, <1>5, <2>1, SameSwaps, SameKeeps, Zenon
  <2> QED
    BY <1>1, <1>2, <2>2, SameSwaps, SameKeeps, Zenon
<1>6. CASE u \notin D
  <2>1. Same(G[u], H[t], a)
    BY <1>1, <1>3, <1>4, <1>6, Zenon
  <2> QED
    BY <1>1, <1>2, <2>1, SameKeeps, Zenon
<1> QED
  BY <1>5, <1>6, Zenon


(***************************************************************************)
(* Requests is kept by a step whose new AppendEntries are taken from the   *)
(* log of their term.                                                      *)
(***************************************************************************)
LEMMA RequestsKeep ==
    ASSUME FiniteFacts,
           NEW D, NEW H, NEW A, NEW E, NEW G, NEW B, Evolves(D, H, A, E, G, B), Requests(D, H, A),
           Len(committed) <= Len(committed'),
           \A m \in appendReqs' : m \in appendReqs \/
               /\ m.term \in E
               /\ \E n \in 0..Len(G[m.term]) : TakenFrom(m, SubSeq(G[m.term], 1, n)) /\ m.commit <= n
               /\ m.commit <= Len(committed') /\ Certified(E, G, B, m.term, m.commit)
    PROVE  Requests(E, G, B)'
<1> SUFFICES ASSUME NEW m \in appendReqs, m \in appendReqs'
             PROVE  /\ m.term \in E
                    /\ \E n \in 0..Len(G[m.term]) :
                         TakenFrom(m, SubSeq(G[m.term], 1, n)) /\ m.commit <= n
                    /\ m.commit <= Len(committed') /\ Certified(E, G, B, m.term, m.commit)
  BY Zenon DEF Requests
<1>0. /\ TypeOK /\ m.term \in Nat /\ m.commit \in Nat
      /\ Len(committed) \in Nat /\ Len(committed') \in Nat
  BY AppendReqFields, LenProperties, Zenon DEF Evolves, TypeOK
<1>1. /\ m.term \in D /\ m.commit <= Len(committed) /\ Certified(D, H, A, m.term, m.commit)
      /\ \E n \in 0..Len(H[m.term]) : TakenFrom(m, SubSeq(H[m.term], 1, n)) /\ m.commit <= n
  BY Zenon DEF Requests
<1>2. PICK n \in 0..Len(H[m.term]) : TakenFrom(m, SubSeq(H[m.term], 1, n)) /\ m.commit <= n
  BY <1>1, Zenon
<1> DEFINE h == H[m.term]
           g == G[m.term]
<1>3. /\ h \in Seq(Entry) /\ Len(h) \in Nat /\ g \in Seq(Entry) /\ Len(g) \in Nat
      /\ Len(h) <= Len(g) /\ Same(g, h, Len(h)) /\ m.term \in E
  BY <1>1, EvolvesNumbers, SMTT(30)
<1>4. n \in Nat /\ n \in 0..Len(g) /\ n <= Len(h)
  BY <1>2, <1>3, SMTT(30)
<1>5. SubSeq(h, 1, n) = SubSeq(g, 1, n)
  <2>1. Same(g, h, n)
    BY <1>3, <1>4, SameShorter, Zenon
  <2> QED
    BY <1>3, <1>4, <2>1, SameBeginning, Zenon
<1>6. Certified(E, G, B, m.term, m.commit)
  BY <1>0, <1>1, CertifiedKeeps, SMTT(30)
<1>7. \E k \in 0..Len(g) : TakenFrom(m, SubSeq(g, 1, k)) /\ m.commit <= k
  BY <1>2, <1>4, <1>5, Zenon
<1>8. m.commit <= Len(committed')
  BY <1>0, <1>1
<1> QED
  BY <1>3, <1>6, <1>7, <1>8, Zenon

(***************************************************************************)
(* A vote once given for good reason stays so.                             *)
(***************************************************************************)
LEMMA UpToDateKeeps ==
    ASSUME FiniteFacts,
           NEW D, NEW H, NEW A, NEW E, NEW G, NEW B, Evolves(D, H, A, E, G, B), Stored(D, H, A),
           NEW j \in Server, NEW m, m.term \in Nat, m.term <= currentTerm[j],
           UpToDate(D, H, A, m, j)
    PROVE  UpToDate(E, G, B, m, j)'
<1> SUFFICES ASSUME NEW t \in E, t < m.term, NEW a \in 1..B[j][t], Own(G, t, a),
                    Choosable(B, t, a)'
             PROVE  m.lastTerm > t \/ (m.lastTerm = t /\ m.lastIndex >= a)
  BY Zenon DEF UpToDate
<1>1. t \in D
  BY Zenon DEF Evolves
<1>2. /\ t \in Nat /\ Len(H[t]) \in Nat /\ A[j][t] \in Nat /\ B[j][t] \in Nat
      /\ currentTerm[j] \in Nat
  <2>1. currentTerm[j] \in Nat
    BY Zenon DEF Evolves, TypeOK
  <2> QED
    BY <1>1, <2>1, EvolvesNumbers, Zenon
<1>3. A[j][t] = B[j][t]
  BY <1>1, <1>2, SMTT(30) DEF Evolves
<1>4. A[j][t] <= Len(H[t])
  BY <1>1, Zenon DEF Stored
<1>5. a \in Nat /\ a \in 1..A[j][t] /\ a <= Len(H[t])
  BY <1>2, <1>3, <1>4, SMTT(30)
<1>6. Own(H, t, a) /\ Choosable(A, t, a)
  BY <1>1, <1>5, OwnKeeps, ChoosableBefore, Zenon
<1> QED
  BY <1>1, <1>5, <1>6, Zenon DEF UpToDate

(***************************************************************************)
(* The vote request m is that of the election its sender is in.            *)
(***************************************************************************)
Standing(m) ==
    loop[m.from].at = "election" /\ loop[m.from].term = m.term /\ currentTerm[m.from] = m.term

(***************************************************************************)
(* Ballots is kept by a step whose new votes and RequestVotes are          *)
(* justified.                                                              *)
(***************************************************************************)
LEMMA BallotsKeep ==
    ASSUME FiniteFacts,
           NEW D, NEW H, NEW A, NEW E, NEW G, NEW B, Evolves(D, H, A, E, G, B), Stored(D, H, A),
           ElectionInv, Ballots(D, H, A), voteReqs \subseteq voteReqs',
           \A v \in votes' : v \in votes \/ v.voter = v.candidate \/
               \E m \in voteReqs' : /\ m.from = v.candidate /\ m.term = v.term
                                    /\ UpToDate(E, G, B, m, v.voter)',
           \A m \in voteReqs' : m \in voteReqs \/
               /\ m.term <= currentTerm'[m.from]
               /\ m.lastIndex = Len(log'[m.from]) /\ m.lastTerm = LastTerm(log'[m.from]),
           \A w \in Server : loop'[w].at = "election" =>
               \/ loop[w].at = "election" /\ loop[w].term = loop'[w].term
               \/ loop'[w].term > currentTerm[w],
           \A w \in Server : log'[w] = log[w] \/ currentTerm'[w] \in E
    PROVE  Ballots(E, G, B)'
<1>0. TypeOK /\ D \subseteq E
  BY Zenon DEF Evolves
<1>1. ASSUME NEW v \in votes', v.voter # v.candidate
      PROVE  \E m \in voteReqs' : /\ m.from = v.candidate /\ m.term = v.term
                                  /\ UpToDate(E, G, B, m, v.voter)'
  <2>1. CASE v \in votes
    <3>1. PICK m \in voteReqs : /\ m.from = v.candidate /\ m.term = v.term
                                /\ UpToDate(D, H, A, m, v.voter)
      BY <1>1, <2>1, Zenon DEF Ballots
    <3>2. v \in Vote /\ m \in VoteReq
      BY <1>0, <2>1, Zenon DEF TypeOK
    <3>3. v.voter \in Server /\ m.term \in Nat /\ v = VoteIn(v.voter, v.term, v.candidate)
      BY <3>2, Zenon DEF Vote, VoteReq, VoteIn
    <3>4. v.term <= currentTerm[v.voter]
      BY <2>1, <3>3, VotesAreOfThePast, Zenon
    <3>5. UpToDate(E, G, B, m, v.voter)'
      BY <3>1, <3>3, <3>4, UpToDateKeeps, Zenon
    <3> QED
      BY <3>1, <3>5, Zenon
  <2>2. CASE v \notin votes
    BY <1>1, <2>2, Zenon
  <2> QED
    BY <2>1, <2>2, Zenon
<1>2. ASSUME NEW m \in voteReqs'
      PROVE  /\ m.term <= currentTerm'[m.from]
             /\ Standing(m)' /\ m.term \notin E =>
                  m.lastIndex = Len(log'[m.from]) /\ m.lastTerm = LastTerm(log'[m.from])
  <2>1. CASE m \in voteReqs
    <3>0. m.from \in Server /\ m.term \in Nat
      BY <1>0, <2>1, Zenon DEF TypeOK, VoteReq
    <3>1. /\ currentTerm[m.from] \in Nat /\ currentTerm'[m.from] \in Nat
          /\ currentTerm[m.from] <= currentTerm'[m.from] /\ m.term <= currentTerm[m.from]
      BY <2>1, <3>0, Zenon DEF Evolves, TypeOK, TermsGrow, Ballots
    <3>2. ASSUME Standing(m)', m.term \notin E
          PROVE  m.lastIndex = Len(log'[m.from]) /\ m.lastTerm = LastTerm(log'[m.from])
      <4>1. /\ loop'[m.from].at = "election" /\ loop'[m.from].term = m.term
            /\ currentTerm'[m.from] = m.term
        BY <3>2, Zenon DEF Standing
      <4>a. currentTerm[m.from] = m.term
        BY <3>0, <3>1, <4>1, SMTT(30)
      <4>b. log'[m.from] = log[m.from]
        BY <3>0, <3>2, <4>1, Zenon
      <4>2. currentTerm[m.from] = m.term /\ log'[m.from] = log[m.from]
        BY <4>a, <4>b, Zenon
      <4>3. loop[m.from].at = "election" /\ loop[m.from].term = m.term
        BY <3>0, <3>1, <4>1, <4>2, SMTT(30)
      <4>4. m.term \notin D
        BY <1>0, <3>2, Zenon
      <4>5. m.lastIndex = Len(log[m.from]) /\ m.lastTerm = LastTerm(log[m.from])
        BY <2>1, <4>2, <4>3, <4>4, Zenon DEF Ballots
      <4> QED
        BY <4>2, <4>5, Zenon
    <3> QED
      BY <3>0, <3>1, <3>2, SMTT(30)
  <2>2. CASE m \notin voteReqs
    BY <2>2, Zenon
  <2> QED
    BY <2>1, <2>2, Zenon
<1>3. ASSUME NEW w \in Server, loop'[w].at = "election" PROVE loop'[w].term > 0
  <2>1. currentTerm[w] \in Nat /\ loop'[w].term \in Nat
    BY Zenon DEF Evolves, TypeOK, Loop
  <2> QED
    BY <1>3, <2>1, SMTT(30) DEF Ballots
<1> QED
  BY <1>1, <1>2, <1>3, Zenon DEF Ballots, Standing


(***************************************************************************)
(* What is certified to be committed is what the Leaders from then on have.*)
(***************************************************************************)
LEMMA CertifiedHeld ==
    ASSUME FiniteFacts, NEW D, NEW H, NEW A, Recorded(D, H, A), Complete(D, H, A),
           NEW s \in D, NEW n \in 1..Len(H[s]), Own(H, s, n), Accepted(A, s, n),
           NEW u \in D, s <= u
    PROVE  Same(H[u], H[s], n)
<1>0. s \in Nat /\ u \in Nat /\ Len(H[s]) \in Nat
  BY RecordNumbers, Zenon
<1>1. CASE s = u
  BY <1>0, <1>1 DEF Same
<1>2. CASE s # u
  <2>1. s < u /\ Choosable(A, s, n)
    BY <1>0, <1>2, AcceptedChoosable
  <2> QED
    BY <2>1, Zenon DEF Complete
<1> QED
  BY <1>1, <1>2, Zenon

(***************************************************************************)
(* Two quorums that stored logs of two terms stored the same entries.      *)
(***************************************************************************)
LEMMA CertifiedAgree ==
    ASSUME FiniteFacts, NEW D, NEW H, NEW A, Recorded(D, H, A), Complete(D, H, A),
           NEW s \in D, NEW n \in 1..Len(H[s]), Own(H, s, n), Accepted(A, s, n),
           NEW t \in D, NEW k \in 1..Len(H[t]), Own(H, t, k), Accepted(A, t, k),
           NEW c \in Nat, c <= n, c <= k
    PROVE  Same(H[s], H[t], c)
<1>0. s \in Nat /\ t \in Nat /\ Len(H[s]) \in Nat /\ Len(H[t]) \in Nat /\ n \in Nat /\ k \in Nat
  BY RecordNumbers
<1>1. CASE s <= t
  <2>1. Same(H[t], H[s], n)
    BY <1>1, CertifiedHeld, Zenon
  <2> QED
    BY <1>0, <2>1 DEF Same
<1>2. CASE t <= s
  <2>1. Same(H[s], H[t], k)
    BY <1>2, CertifiedHeld, Zenon
  <2> QED
    BY <1>0, <2>1 DEF Same
<1> QED
  BY <1>0, <1>1, <1>2, SMTT(30)

(***************************************************************************)
(* A Leader of a term in which c entries are known to be committed has     *)
(* them.                                                                   *)
(***************************************************************************)
LEMMA CommittedHeld ==
    ASSUME FiniteFacts,
           TypeOK, NEW D, NEW H, NEW A, Recorded(D, H, A), Complete(D, H, A), Backed(D, H, A),
           NEW t \in Nat, NEW c \in Nat, Certified(D, H, A, t, c), c <= Len(committed),
           NEW u \in D, t <= u
    PROVE  Same(H[u], committed, c)
<1>0. /\ u \in Nat /\ Len(H[u]) \in Nat /\ Len(committed) \in Nat
      /\ committed \in Seq(Entry)
  BY RecordNumbers, LenProperties, Zenon DEF TypeOK
<1>1. CASE c = 0
  BY <1>0, <1>1 DEF Same
<1>2. CASE c # 0
  <2>1. PICK s \in D : s <= t /\ \E n \in 1..Len(H[s]) : c <= n /\ Own(H, s, n) /\ Accepted(A, s, n)
    BY <1>2, Zenon DEF Certified
  <2>2. PICK n \in 1..Len(H[s]) : c <= n /\ Own(H, s, n) /\ Accepted(A, s, n)
    BY <2>1, Zenon
  <2>3. s \in Nat /\ Len(H[s]) \in Nat /\ n \in Nat /\ s <= u
    BY <1>0, <2>1, RecordNumbers
  <2>4. committed # << >>
    BY <1>0, <1>2
  <2>5. PICK r \in D : /\ Own(H, r, Len(committed)) /\ Accepted(A, r, Len(committed))
                       /\ Same(H[r], committed, Len(committed))
    BY <2>4, Zenon DEF Backed
  <2>6. Len(committed) \in 1..Len(H[r]) /\ Len(H[r]) \in Nat
    BY <2>5, RecordNumbers, Zenon DEF Own
  <2>7. Same(H[u], H[s], c)
    <3>1. Same(H[u], H[s], n)
      BY <2>2, <2>3, CertifiedHeld, Zenon
    <3> QED
      BY <1>0, <2>2, <2>3, <3>1, SameShorter, Zenon
  <2>8. Same(H[s], H[r], c)
    BY <2>2, <2>5, <2>6, CertifiedAgree, Zenon
  <2>9. Same(H[r], committed, c)
    BY <1>0, <2>5, <2>6, SameShorter, Zenon
  <2> QED
    BY <2>7, <2>8, <2>9, SameJoins, Zenon
<1> QED
  BY <1>1, <1>2, Zenon

(***************************************************************************)
(* Backed is kept while nothing is committed.                              *)
(***************************************************************************)
LEMMA BackedKeeps ==
    ASSUME FiniteFacts, NEW D, NEW H, NEW A, NEW E, NEW G, NEW B, Evolves(D, H, A, E, G, B),
           Backed(D, H, A), committed' = committed
    PROVE  Backed(E, G, B)'
<1> SUFFICES ASSUME committed # << >>
             PROVE  \E t \in E : /\ Own(G, t, Len(committed)) /\ Accepted(B, t, Len(committed))
                                 /\ Same(G[t], committed, Len(committed))
  BY Zenon DEF Backed
<1>1. PICK t \in D : /\ Own(H, t, Len(committed)) /\ Accepted(A, t, Len(committed))
                     /\ Same(H[t], committed, Len(committed))
  BY Zenon DEF Backed
<1>2. Len(committed) \in Nat /\ t \in E
  BY LenProperties, Zenon DEF Evolves, TypeOK
<1>3. Own(G, t, Len(committed)) /\ Accepted(B, t, Len(committed))
  BY <1>1, <1>2, OwnKeeps, AcceptedKeeps, Zenon
<1>4. Same(G[t], committed, Len(committed))
  BY <1>1, <1>2, SameSwaps, SameKeeps, SMTT(30)
<1> QED
  BY <1>2, <1>3, <1>4, Zenon

(***************************************************************************)
(* Commits is kept by a step that commits nothing new: a node keeps its    *)
(* commitIndex, forgets it in a restart, or takes a certified one.         *)
(***************************************************************************)
LEMMA CommitsKeep ==
    ASSUME FiniteFacts, NEW D, NEW H, NEW A, NEW E, NEW G, NEW B, Evolves(D, H, A, E, G, B),
           Commits(D, H, A), committed' = committed,
           \A i \in Server :
               \/ /\ commitIndex'[i] = commitIndex[i]
                  /\ log'[i] = log[i] \/ Same(log'[i], committed, commitIndex[i])
               \/ commitIndex'[i] = 0
               \/ /\ Certified(E, G, B, currentTerm'[i], commitIndex'[i])
                  /\ commitIndex'[i] <= Len(committed)
                  /\ Same(log'[i], committed, commitIndex'[i])
    PROVE  Commits(E, G, B)'
<1>1. Backed(E, G, B)'
  BY BackedKeeps, Zenon DEF Commits
<1> SUFFICES ASSUME NEW i \in Server
             PROVE  /\ Certified(E, G, B, currentTerm'[i], commitIndex'[i])
                    /\ commitIndex'[i] <= Len(committed)
                    /\ Same(log'[i], committed, commitIndex'[i])
  BY <1>1, Zenon DEF Commits
<1>2. /\ currentTerm[i] \in Nat /\ currentTerm'[i] \in Nat /\ currentTerm[i] <= currentTerm'[i]
      /\ commitIndex[i] \in Nat /\ Len(committed) \in Nat /\ Len(log'[i]) \in Nat
  BY LenProperties, Zenon DEF Evolves, TypeOK, TermsGrow
<1>3. CASE /\ commitIndex'[i] = commitIndex[i]
           /\ log'[i] = log[i] \/ Same(log'[i], committed, commitIndex[i])
  <2>1. /\ Certified(D, H, A, currentTerm[i], commitIndex[i])
        /\ commitIndex[i] <= Len(committed) /\ Same(log[i], committed, commitIndex[i])
    BY Zenon DEF Commits
  <2>2. Certified(E, G, B, currentTerm'[i], commitIndex[i])
    BY <1>2, <2>1, CertifiedKeeps, Zenon
  <2> QED
    BY <1>3, <2>1, <2>2, Zenon
<1>4. CASE commitIndex'[i] = 0
  BY <1>2, <1>4 DEF Certified, Same
<1> QED
  BY <1>3, <1>4, Zenon


-----------------------------------------------------------------------------
(* Steps that leave the logs alone *)

(***************************************************************************)
(* Who has been elected has been elected for good.                         *)
(***************************************************************************)
ElectedKept == \A w \in Server : \A t \in Nat : Elected(w, t) => Elected(w, t)'

(***************************************************************************)
(* A step from a state with the records D, H, A, of which the election     *)
(* invariant is known already.                                             *)
(***************************************************************************)
From(D, H, A) ==
    /\ Recorded(D, H, A) /\ Records(D, H, A)
    /\ ElectionInv /\ ElectionInv' /\ LeadersElected /\ LeadersElected'
    /\ TermsGrow /\ ElectedKept

(***************************************************************************)
(* The step makes no node a Leader and leaves the Leaders their terms.     *)
(***************************************************************************)
LeadersStay ==
    \A i \in Server : role'[i] = Leader => role[i] = Leader /\ currentTerm'[i] = currentTerm[i]

(***************************************************************************)
(* A step that adds nothing to the records is an evolution of them.        *)
(***************************************************************************)
LEMMA FromEvolves ==
    ASSUME NEW D, NEW H, NEW A, From(D, H, A)
    PROVE  TypeOK /\ TypeOK' /\ Evolves(D, H, A, D, H, A)
BY NothingEvolves, Zenon DEF From, ElectionInv

(***************************************************************************)
(* A step that touches no log and makes nobody Leader keeps what the       *)
(* records say of the logs.                                                *)
(***************************************************************************)
LEMMA SameLogsKeep ==
    ASSUME FiniteFacts, NEW D, NEW H, NEW A, From(D, H, A), log' = log, LeadersStay
    PROVE  Leaders(D, H, A)' /\ Logs(D, H)' /\ Stored(D, H, A)' /\ Complete(D, H, A)'
<1>0. TypeOK /\ TypeOK' /\ Evolves(D, H, A, D, H, A)
  BY FromEvolves, Zenon
<1>1. /\ Leaders(D, H, A) /\ Logs(D, H) /\ Stored(D, H, A) /\ Complete(D, H, A)
      /\ ElectedKept /\ TermsGrow
  BY Zenon DEF From, Records
<1>2. /\ \A t \in D : \A j \in Server : A[j][t] <= Len(H[t])
      /\ \A t \in D : Len(H[t]) \in Nat /\ \A j \in Server : A[j][t] \in Nat
  BY <1>0, <1>1, EvolvesNumbers, Zenon DEF Stored
<1>3. Leaders(D, H, A)'
  <2>1. \A w \in Server : \A t \in Nat : Elected(w, t) => Elected(w, t)'
    BY <1>1, Zenon DEF ElectedKept
  <2>2. \A t \in D : H[t] = H[t] /\ \A j \in Server : A[j][t] <= Len(H[t])
    BY <1>2, Zenon
  <2>3. \A i \in Server : role'[i] = Leader =>
          role[i] = Leader /\ currentTerm'[i] = currentTerm[i] /\ log'[i] = log[i]
    BY Zenon DEF LeadersStay
  <2> QED
    BY <1>0, <1>1, <2>1, <2>2, <2>3, LeadersKeep, Zenon
<1>4. Logs(D, H)'
  BY <1>0, <1>1, LogsKeep, Zenon
<1>5. ASSUME NEW j \in Server, NEW t \in D, currentTerm'[j] = t
      PROVE  Same(log'[j], H[t], A[j][t])
  <2>0. /\ currentTerm[j] \in Nat /\ t \in Nat /\ currentTerm[j] <= t /\ A[j][t] \in Nat
        /\ Len(log[j]) \in Nat /\ Len(H[t]) \in Nat
    BY <1>0, <1>1, <1>2, <1>5, LenProperties, Zenon DEF TypeOK, TermsGrow
  <2>1. CASE currentTerm[j] = t
    BY <1>1, <2>1, Zenon DEF Stored
  <2>2. CASE currentTerm[j] # t
    <3>1. ~(currentTerm[j] >= t)
      BY <2>0, <2>2, SMTT(30)
    <3>2. A[j][t] = 0
      BY <1>1, <2>0, <3>1, SMTT(30) DEF Stored
    <3> QED
      BY <2>0, <3>2 DEF Same
  <2> QED
    BY <2>1, <2>2, Zenon
<1>6. Stored(D, H, A)'
  BY <1>0, <1>1, <1>2, <1>5, StoredKeep, Zenon
<1>7. Complete(D, H, A)'
  <2>1. \A t \in D : \A u \in D : \A a \in 1..Len(H[t]) :
          t < u /\ a > Len(H[t]) => ~Choosable(A, t, a)'
    BY <1>2, SMTT(30)
  <2> QED
    BY <1>0, <1>1, <2>1, CompleteKeep, Zenon
<1> QED
  BY <1>3, <1>4, <1>6, <1>7, Zenon

(***************************************************************************)
(* A step that commits nothing either, starts no election and adds neither *)
(* votes nor requests.                                                     *)
(***************************************************************************)
LEMMA QuietKeeps ==
    ASSUME FiniteFacts, NEW D, NEW H, NEW A, From(D, H, A), LeadersStay, NoNewElection,
           UNCHANGED <<log, committed, voteReqs, appendReqs, votes>>,
           \A i \in Server : commitIndex'[i] \in {commitIndex[i], 0},
           Rounds(D, A)'
    PROVE  Records(D, H, A)'
<1>0. TypeOK /\ TypeOK' /\ Evolves(D, H, A, D, H, A)
  BY FromEvolves, Zenon
<1>1. /\ Stored(D, H, A) /\ Requests(D, H, A) /\ Ballots(D, H, A) /\ Commits(D, H, A)
      /\ ElectionInv
  BY Zenon DEF From, Records
<1>2. Leaders(D, H, A)' /\ Logs(D, H)' /\ Stored(D, H, A)' /\ Complete(D, H, A)'
  BY SameLogsKeep, Zenon
<1>3. Requests(D, H, A)'
  <2>1. Len(committed) <= Len(committed')
    BY <1>0, LenProperties, SMTT(30) DEF TypeOK
  <2> QED
    BY <1>0, <1>1, <2>1, RequestsKeep, Zenon
<1>4. Ballots(D, H, A)'
  <2>1. \A w \in Server : loop'[w].at = "election" =>
          loop[w].at = "election" /\ loop[w].term = loop'[w].term
    BY Zenon DEF NoNewElection
  <2> QED
    BY <1>0, <1>1, <2>1, BallotsKeep, Zenon
<1>5. Commits(D, H, A)'
  BY <1>0, <1>1, CommitsKeep, Zenon
<1> QED
  BY <1>2, <1>3, <1>4, <1>5, Zenon DEF Records


-----------------------------------------------------------------------------
(* Elections and rounds *)

(***************************************************************************)
(* A new election is of a term above the one the candidate was in.         *)
(***************************************************************************)
ElectionsNew ==
    \A w \in Server : loop'[w].at = "election" =>
        \/ loop[w].at = "election" /\ loop[w].term = loop'[w].term
        \/ loop'[w].term > currentTerm[w]

(***************************************************************************)
(* The run loop never enters an election from a round.                     *)
(***************************************************************************)
LEMMA AfterAnswersPosition ==
    ASSUME TypeOK, NEW i \in Server, loop[i].at = "round", NEW reqs
    PROVE  AfterAnswers(i, reqs).at # "election"
<1> DEFINE rest == loop[i].open \ reqs
           remaining == [loop[i] EXCEPT !.open = rest, !.acks = {a \in @ : a.req \in rest}]
<1>1. remaining.at = "round"
  BY DEF TypeOK, Loop
<1>2. AfterAnswers(i, reqs) \in {remaining, LoopAt("sending", loop[i].term), Idle}
  BY Zenon DEF AfterAnswers
<1>3. Idle.at = "idle" /\ LoopAt("sending", loop[i].term).at = "sending"
  BY Zenon DEF Idle, LoopAt
<1> QED
  BY <1>1, <1>2, <1>3, Zenon

(***************************************************************************)
(* An answer leaves the position and the term of every run loop alone: of  *)
(* HandleRequestVote ...                                                   *)
(***************************************************************************)
LEMMA AnswerVotePosition ==
    ASSUME TypeOK, NEW m \in voteReqs, NEW reply, AnswerVote(m, reply), NEW w \in Server
    PROVE  loop'[w].at = loop[w].at /\ loop'[w].term = loop[w].term
<1>1. m.from \in Server /\ loop[w] \in Loop
  BY Zenon DEF TypeOK, VoteReq
<1> QED
  BY <1>1, Zenon DEF AnswerVote, TypeOK, Loop

(***************************************************************************)
(* ... and of HandleAppendEntries.                                         *)
(***************************************************************************)
LEMMA AnswerAppendPosition ==
    ASSUME TypeOK, NEW m \in appendReqs, NEW t, NEW ok, NEW ci, NEW ct,
           AnswerAppend(m, t, ok, ci, ct), NEW w \in Server
    PROVE  loop'[w].at = loop[w].at /\ loop'[w].term = loop[w].term
<1>1. m.from \in Server /\ loop[w] \in Loop
  BY AppendReqFields, Zenon DEF TypeOK
<1> QED
  BY <1>1, Zenon DEF AnswerAppend, TypeOK, Loop

(***************************************************************************)
(* The index a success acknowledges is a number.                           *)
(***************************************************************************)
LEMMA LastSentType ==
    ASSUME NEW req \in AppendReq
    PROVE  LastSent(req) \in Nat
<1>1. req.prevIndex \in Nat /\ req.entries \in Seq(Entry)
  BY Zenon DEF AppendReq
<1>2. Len(req.entries) \in Nat
  BY <1>1, LenProperties, Zenon
<1> QED
  BY <1>1, <1>2 DEF LastSent

(***************************************************************************)
(* Between two calls of runLeader there is nothing to believe.             *)
(***************************************************************************)
LEMMA IdleRound ==
    ASSUME NEW D, NEW A, NEW match
    PROVE  RoundTrue(D, A, Idle, match)
BY Zenon DEF RoundTrue, Idle, LoopAt

(***************************************************************************)
(* A round about to be sent has collected nothing it could be wrong about. *)
(***************************************************************************)
LEMMA SendingRound ==
    ASSUME NEW D, NEW A, NEW match, NEW t \in D, \A j \in Server : match[j] <= A[j][t]
    PROVE  RoundTrue(D, A, LoopAt("sending", t), match)
BY Zenon DEF RoundTrue, LoopAt

(***************************************************************************)
(* A reply leaves the round; the others, and matchIndex, are as before.    *)
(***************************************************************************)
LEMMA AfterAnswersRound ==
    ASSUME TypeOK, NEW i \in Server, loop[i].at = "round", NEW reqs,
           NEW D, NEW A, NEW match, RoundTrue(D, A, loop[i], match)
    PROVE  RoundTrue(D, A, AfterAnswers(i, reqs), match)
<1> DEFINE rest == loop[i].open \ reqs
           remaining == [loop[i] EXCEPT !.open = rest, !.acks = {a \in @ : a.req \in rest}]
<1>0. loop[i] \in Loop
  BY Zenon DEF TypeOK
<1>1. /\ remaining.at = "round" /\ remaining.term = loop[i].term
      /\ remaining.open \subseteq loop[i].open /\ remaining.acks \subseteq loop[i].acks
  BY <1>0, Zenon DEF Loop
<1>2. AfterAnswers(i, reqs) \in {remaining, LoopAt("sending", loop[i].term), Idle}
  BY Zenon DEF AfterAnswers
<1> HIDE DEF remaining
<1>3. loop[i].term \in D /\ \A j \in Server : match[j] <= A[j][loop[i].term]
  BY Zenon DEF RoundTrue
<1>4. RoundTrue(D, A, remaining, match)
  BY <1>1, Zenon DEF RoundTrue
<1>5. RoundTrue(D, A, LoopAt("sending", loop[i].term), match)
  BY <1>3, SendingRound, Zenon
<1> QED
  BY <1>2, <1>4, <1>5, IdleRound, Zenon

(***************************************************************************)
(* What was believed stays true when more is stored.                       *)
(***************************************************************************)
LEMMA RoundGrows ==
    ASSUME NEW D, NEW H, NEW A, NEW E, NEW G, NEW B, Evolves(D, H, A, E, G, B),
           NEW lp \in Loop, NEW match \in [Server -> Nat], RoundTrue(D, A, lp, match)
    PROVE  RoundTrue(E, B, lp, match)
<1>1. ASSUME lp.at \in {"sending", "round"}
      PROVE  /\ lp.term \in D /\ lp.term \in E
             /\ \A j \in Server : /\ A[j][lp.term] \in Nat /\ B[j][lp.term] \in Nat
                                  /\ A[j][lp.term] <= B[j][lp.term] /\ match[j] <= A[j][lp.term]
  <2>1. lp.term \in D /\ lp.term \in E /\ \A j \in Server : match[j] <= A[j][lp.term]
    BY <1>1, Zenon DEF RoundTrue, Evolves
  <2>2. \A j \in Server : /\ A[j][lp.term] \in Nat /\ B[j][lp.term] \in Nat
                          /\ A[j][lp.term] <= B[j][lp.term]
    BY <2>1, EvolvesNumbers, SMTT(30) DEF Evolves
  <2> QED
    BY <2>1, <2>2, Zenon
<1>2. ASSUME lp.at \in {"sending", "round"}
      PROVE  lp.term \in E /\ \A j \in Server : match[j] <= B[j][lp.term]
  BY <1>1, <1>2, SMTT(30)
<1>3. ASSUME lp.at \in {"sending", "round"}
      PROVE  \A r \in lp.acks : r.success => LastSent(r.req) <= B[r.req.to][lp.term]
  <2> SUFFICES ASSUME NEW r \in lp.acks, r.success
               PROVE  LastSent(r.req) <= B[r.req.to][lp.term]
    BY Zenon
  <2>1. r.req \in AppendReq /\ r.req.to \in Server
    BY Zenon DEF Loop, AppendReply, AppendReq
  <2>2. LastSent(r.req) \in Nat
    BY <2>1, LastSentType, Zenon
  <2>3. LastSent(r.req) <= A[r.req.to][lp.term]
    BY <1>3, Zenon DEF RoundTrue
  <2>4. /\ A[r.req.to][lp.term] \in Nat /\ B[r.req.to][lp.term] \in Nat
        /\ A[r.req.to][lp.term] <= B[r.req.to][lp.term]
    BY <1>1, <1>3, <2>1, Zenon
  <2> QED
    BY <2>2, <2>3, <2>4, SMTT(30)
<1>4. lp.at \in {"sending", "round"} => \A q \in lp.open : q.term = lp.term
  BY Zenon DEF RoundTrue
<1> QED
  BY <1>2, <1>3, <1>4, Zenon DEF RoundTrue

(***************************************************************************)
(* A step of one run loop.                                                 *)
(***************************************************************************)
LEMMA RoundsStep ==
    ASSUME NEW D, NEW H, NEW A, NEW E, NEW G, NEW B, Evolves(D, H, A, E, G, B), Rounds(D, A),
           NEW i \in Server, NEW lp, loop' = [loop EXCEPT ![i] = lp],
           \A j \in Server \ {i} : matchIndex'[j] = matchIndex[j],
           RoundTrue(E, B, lp, matchIndex'[i])
    PROVE  Rounds(E, B)'
<1>0. TypeOK
  BY Zenon DEF Evolves
<1>1. loop'[i] = lp /\ \A j \in Server \ {i} : loop'[j] = loop[j]
  BY <1>0, Zenon DEF TypeOK
<1>2. \A j \in Server : RoundTrue(E, B, loop[j], matchIndex[j])
  BY <1>0, RoundGrows, Zenon DEF Rounds, TypeOK
<1>3. \A j \in Server : RoundTrue(E, B, loop'[j], matchIndex'[j])
  BY <1>1, <1>2, Zenon
<1> QED
  BY <1>3, Zenon DEF Rounds

(***************************************************************************)
(* Rounds is kept by a step that leaves the run loops alone.               *)
(***************************************************************************)
LEMMA RoundsStay ==
    ASSUME NEW D, NEW H, NEW A, NEW E, NEW G, NEW B, Evolves(D, H, A, E, G, B), Rounds(D, A),
           UNCHANGED <<loop, matchIndex>>
    PROVE  Rounds(E, B)'
<1>0. TypeOK
  BY Zenon DEF Evolves
<1>1. \A j \in Server : RoundTrue(E, B, loop[j], matchIndex[j])
  BY <1>0, RoundGrows, Zenon DEF Rounds, TypeOK
<1> QED
  BY <1>1, Zenon DEF Rounds

(***************************************************************************)
(* A vote changes no round, and neither does an answer to AppendEntries    *)
(* that is a failure or tells of what is stored.                           *)
(***************************************************************************)
LEMMA AnswerVoteRounds ==
    ASSUME NEW D, NEW H, NEW A, Evolves(D, H, A, D, H, A), Rounds(D, A),
           NEW m \in voteReqs, NEW reply, AnswerVote(m, reply), matchIndex' = matchIndex
    PROVE  Rounds(D, A)'
<1>0. TypeOK /\ m.from \in Server
  BY Zenon DEF Evolves, TypeOK, VoteReq
<1> SUFFICES ASSUME NEW j \in Server PROVE RoundTrue(D, A, loop'[j], matchIndex[j])
  BY Zenon DEF Rounds
<1>1. loop[j] \in Loop /\ RoundTrue(D, A, loop[j], matchIndex[j])
  BY <1>0, Zenon DEF TypeOK, Rounds
<1>2. /\ loop'[j].at = loop[j].at /\ loop'[j].term = loop[j].term
      /\ loop'[j].open = loop[j].open /\ loop'[j].acks = loop[j].acks
  BY <1>0, <1>1, Zenon DEF AnswerVote, TypeOK, Loop
<1> QED
  BY <1>1, <1>2, Zenon DEF RoundTrue

(***************************************************************************)
(* Rounds is kept by an answer that reports no more than the node has      *)
(* stored.                                                                 *)
(***************************************************************************)
LEMMA AnswerAppendRounds ==
    ASSUME NEW D, NEW H, NEW A, NEW E, NEW G, NEW B, Evolves(D, H, A, E, G, B), Rounds(D, A),
           NEW m \in appendReqs, NEW t, NEW ok, NEW ci, NEW ct, AnswerAppend(m, t, ok, ci, ct),
           ok => LastSent(m) <= B[m.to][m.term], matchIndex' = matchIndex
    PROVE  Rounds(E, B)'
<1>0. TypeOK /\ m.from \in Server
  BY AppendReqFields, Zenon DEF Evolves
<1> SUFFICES ASSUME NEW j \in Server PROVE RoundTrue(E, B, loop'[j], matchIndex[j])
  BY Zenon DEF Rounds
<1>1. loop[j] \in Loop /\ RoundTrue(E, B, loop[j], matchIndex[j])
  BY <1>0, RoundGrows, Zenon DEF TypeOK, Rounds
<1> DEFINE r == [req |-> m, term |-> t, success |-> ok, conflictIndex |-> ci, conflictTerm |-> ct]
<1>2. CASE loop'[j] = loop[j]
  BY <1>1, <1>2, Zenon
<1>3. CASE loop'[j] # loop[j]
  <2>1. /\ m \in loop[j].open
        /\ loop'[j] = [loop[j] EXCEPT !.acks = @ \cup {r}]
    BY <1>0, <1>3, Zenon DEF AnswerAppend, TypeOK, Loop
  <2>2. r.req = m /\ r.success = ok
    BY Zenon
  <2> HIDE DEF r
  <2>3. /\ loop'[j].at = loop[j].at /\ loop'[j].term = loop[j].term
        /\ loop'[j].open = loop[j].open /\ loop'[j].acks = loop[j].acks \cup {r}
    BY <1>1, <2>1, Zenon DEF Loop
  <2>4. loop[j].at \in {"sending", "round"} => m.term = loop[j].term
    BY <1>1, <2>1, Zenon DEF RoundTrue
  <2>5. loop[j].at \in {"sending", "round"} => (r.success => LastSent(r.req) <= B[r.req.to][loop[j].term])
    BY <2>2, <2>4, Zenon
  <2> QED
    BY <1>1, <2>3, <2>5, Zenon DEF RoundTrue
<1> QED
  BY <1>2, <1>3, Zenon
=============================================================================
