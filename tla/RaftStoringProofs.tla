------------------------- MODULE RaftStoringProofs --------------------------
(***************************************************************************)
(* The steps of RaftCore that make or move entries: AppendEntries at a     *)
(* follower, a new Leader, a proposal.  Each adds to the records of        *)
(* RaftRecordProofs.                                                       *)
(***************************************************************************)
EXTENDS RaftCore, RaftRecordProofs

-----------------------------------------------------------------------------
(* AppendEntries *)

(***************************************************************************)
(* Node i follows the Leader of term u: its log becomes l, of which b      *)
(* entries are known to be the Leader's, and its commit index becomes c.   *)
(* Either the log is left alone or it is a beginning of the Leader's, and  *)
(* nothing is lost that the node shared with the Leader.                   *)
(***************************************************************************)
Follows(D, H, A, i, u, l, b, c) ==
    /\ u \in D /\ l \in Seq(Entry) /\ b \in Nat /\ c \in Nat
    /\ log' = [log EXCEPT ![i] = l]
    /\ currentTerm'[i] = u /\ role'[i] # Leader
    /\ \A j \in Server \ {i} : role'[j] = role[j] /\ currentTerm'[j] = currentTerm[j]
    /\ A[i][u] <= b /\ b <= Len(H[u]) /\ Same(l, H[u], b)
    /\ l = log[i] \/ Same(l, H[u], Len(l))
    /\ \A n \in Nat : Same(log[i], H[u], n) => Same(l, H[u], n)
    /\ commitIndex' = [commitIndex EXCEPT ![i] = c]
    /\ \/ c = commitIndex[i]
       \/ Certified(D, H, A, u, c) /\ c <= Len(committed) /\ Same(l, H[u], c)
    /\ UNCHANGED <<committed, voteReqs, appendReqs, votes>> /\ NoNewElection

(***************************************************************************)
(* Node i has now stored b entries of the log of term u.                   *)
(***************************************************************************)
Raised(A, i, u, b) == [A EXCEPT ![i] = [A[i] EXCEPT ![u] = b]]

(***************************************************************************)
(* A node that stores entries of its Leader's log evolves the records: it  *)
(* has now stored more of it.                                              *)
(***************************************************************************)
LEMMA FollowingEvolves ==
    ASSUME NEW D, NEW H, NEW A, From(D, H, A), NEW i \in Server, NEW u, NEW l, NEW b, NEW c,
           Follows(D, H, A, i, u, l, b, c), NEW B, B = Raised(A, i, u, b)
    PROVE  /\ Evolves(D, H, A, D, H, B) /\ B[i][u] = b
           /\ \A j \in Server : \A t \in D : j # i \/ t # u => B[j][t] = A[j][t]
<1>0. TypeOK /\ TypeOK' /\ Recorded(D, H, A) /\ TermsGrow
  BY FromEvolves, Zenon DEF From
<1>1. u \in D /\ b \in Nat /\ A[i][u] <= b /\ currentTerm'[i] = u
  BY Zenon DEF Follows
<1>2. A \in [Server -> [Nat -> Nat]] /\ D \in SUBSET Nat /\ u \in Nat
  BY <1>0, <1>1, Zenon DEF Recorded
<1>3. /\ B \in [Server -> [Nat -> Nat]] /\ B[i][u] = b
      /\ \A j \in Server : \A t \in Nat : j # i \/ t # u => B[j][t] = A[j][t]
  BY <1>1, <1>2, Zenon DEF Raised
<1>4. Recorded(D, H, B)
  BY <1>0, <1>3, Zenon DEF Recorded
<1>5. \A t \in D : Same(H[t], H[t], Len(H[t]))
  <2>1. \A t \in D : Len(H[t]) \in Nat
    BY <1>0, RecordNumbers, Zenon
  <2> QED
    BY <2>1 DEF Same
<1>6. currentTerm[i] <= u
  BY <1>0, <1>1, Zenon DEF TermsGrow
<1>7. ASSUME NEW j \in Server, NEW t \in D
      PROVE  /\ A[j][t] <= B[j][t]
             /\ A[j][t] # B[j][t] => currentTerm[j] <= t /\ currentTerm'[j] = t
  <2>1. CASE j = i /\ t = u
    BY <1>1, <1>3, <1>6, <2>1, Zenon
  <2>2. CASE ~(j = i /\ t = u)
    <3>1. B[j][t] = A[j][t] /\ A[j][t] \in Nat
      BY <1>2, <1>3, <2>2, Zenon
    <3> QED
      BY <3>1
  <2> QED
    BY <2>1, <2>2, Zenon
<1> QED
  BY <1>0, <1>2, <1>3, <1>4, <1>5, <1>7, Zenon DEF Evolves

(***************************************************************************)
(* Logs, and what is stored, after such a step.                            *)
(***************************************************************************)
LEMMA FollowingStores ==
    ASSUME FiniteFacts,
           NEW D, NEW H, NEW A, From(D, H, A), NEW i \in Server, NEW u, NEW l, NEW b, NEW c,
           Follows(D, H, A, i, u, l, b, c), NEW B, B = Raised(A, i, u, b)
    PROVE  Leaders(D, H, B)' /\ Logs(D, H)' /\ Stored(D, H, B)' /\ Complete(D, H, B)'
<1>0. /\ TypeOK /\ TypeOK' /\ Recorded(D, H, A) /\ TermsGrow /\ ElectedKept
      /\ Leaders(D, H, A) /\ Logs(D, H) /\ Stored(D, H, A) /\ Complete(D, H, A)
  BY FromEvolves, Zenon DEF From, Records
<1>1. /\ Evolves(D, H, A, D, H, B) /\ B[i][u] = b
      /\ \A j \in Server : \A t \in D : j # i \/ t # u => B[j][t] = A[j][t]
  BY FollowingEvolves
<1>2. /\ u \in D /\ l \in Seq(Entry) /\ b <= Len(H[u]) /\ Same(l, H[u], b)
      /\ currentTerm'[i] = u /\ role'[i] # Leader
      /\ \A j \in Server \ {i} : role'[j] = role[j] /\ currentTerm'[j] = currentTerm[j]
      /\ l = log[i] \/ Same(l, H[u], Len(l))
      /\ \A n \in Nat : Same(log[i], H[u], n) => Same(l, H[u], n)
  BY Zenon DEF Follows
<1>3. log'[i] = l /\ \A j \in Server \ {i} : log'[j] = log[j]
  <2>1. log' = [log EXCEPT ![i] = l]
    BY Zenon DEF Follows
  <2> QED
    BY <1>0, <2>1, Zenon DEF TypeOK
<1>4. \A t \in D : /\ t \in Nat /\ Len(H[t]) \in Nat /\ H[t] \in Seq(Entry)
                   /\ \A j \in Server : A[j][t] \in Nat
  BY <1>0, RecordNumbers, Zenon
<1>5. \A j \in Server : \A t \in D : B[j][t] <= Len(H[t])
  BY <1>0, <1>1, <1>2, SMTT(30) DEF Stored
<1>6. Leaders(D, H, B)'
  <2>1. \A w \in Server : \A t \in Nat : Elected(w, t) => Elected(w, t)'
    BY <1>0, Zenon DEF ElectedKept
  <2>2. \A j \in Server : role'[j] = Leader =>
          role[j] = Leader /\ currentTerm'[j] = currentTerm[j] /\ log'[j] = log[j]
    BY <1>2, <1>3, Zenon
  <2> QED
    BY <1>0, <1>1, <1>5, <2>1, <2>2, LeadersKeep, Zenon
<1>7. Logs(D, H)'
  <2>1. ASSUME Same(l, H[u], Len(l))
        PROVE  Made(D, H, l) /\ \A k \in 1..Len(l) : l[k].term <= u
    <3>1. Made(D, H, H[u]) /\ \A k \in 1..Len(H[u]) : H[u][k].term <= u
      BY <1>0, <1>2, Zenon DEF Leaders
    <3>2. Made(D, H, l)
      BY <1>0, <1>2, <1>4, <2>1, <3>1, MadeBeginning, Zenon
    <3>3. Len(l) \in Nat /\ Len(H[u]) \in Nat
      BY <1>2, <1>4, LenProperties, Zenon
    <3>4. \A k \in 1..Len(l) : k \in 1..Len(H[u]) /\ l[k] = H[u][k]
      BY <2>1, <3>3 DEF Same
    <3> QED
      BY <3>1, <3>2, <3>4, Zenon
  <2>2. \A j \in Server : \/ log'[j] = log[j]
                          \/ /\ Made(D, H, log'[j])
                             /\ \A k \in 1..Len(log'[j]) : log'[j][k].term <= currentTerm'[j]
    BY <1>2, <1>3, <2>1, Zenon
  <2> QED
    BY <1>0, <1>1, <2>2, LogsKeep, Zenon
<1>8. Stored(D, H, B)'
  <2>1. ASSUME NEW j \in Server, NEW t \in D, currentTerm'[j] = t
        PROVE  Same(log'[j], H[t], B[j][t])
    <3>1. CASE j = i
      BY <1>1, <1>2, <1>3, <2>1, <3>1, Zenon
    <3>2. CASE j # i
      <4>1. currentTerm[j] = t /\ log'[j] = log[j] /\ B[j][t] = A[j][t]
        BY <1>1, <1>2, <1>3, <2>1, <3>2, Zenon
      <4> QED
        BY <1>0, <4>1, Zenon DEF Stored
    <3> QED
      BY <3>1, <3>2, Zenon
  <2>2. ASSUME NEW j \in Server, NEW t \in D, NEW a \in 1..A[j][t], t < currentTerm'[j],
               Own(H, t, a), Choosable(A, t, a), Same(log[j], H[t], a)
        PROVE  Same(log'[j], H[t], a)
    <3>1. CASE j = i
      <4>1. a \in 1..Len(H[t]) /\ a \in Nat /\ t < u
        BY <1>2, <1>4, <2>2, <3>1, SMTT(30) DEF Own
      <4>2. Same(H[u], H[t], a)
        BY <1>0, <1>2, <2>2, <4>1, Zenon DEF Complete
      <4>3. Same(log[i], H[u], a)
        BY <2>2, <3>1, <4>2, SameJoins, SameSwaps, Zenon
      <4>4. Same(l, H[u], a)
        BY <1>2, <4>1, <4>3, Zenon
      <4> QED
        BY <1>3, <3>1, <4>2, <4>4, SameJoins, Zenon
    <3>2. CASE j # i
      BY <1>3, <2>2, <3>2, Zenon
    <3> QED
      BY <3>1, <3>2, Zenon
  <2>3. \A j \in Server : \A t \in D :
          B[j][t] <= Len(H[t]) /\ (currentTerm'[j] = t => Same(log'[j], H[t], B[j][t]))
    BY <1>5, <2>1, Zenon
  <2>4. \A j \in Server : \A t \in D : \A a \in 1..A[j][t] :
          /\ t < currentTerm'[j] /\ Own(H, t, a) /\ Choosable(A, t, a)
          /\ Same(log[j], H[t], a)
          => Same(log'[j], H[t], a)
    BY <2>2, Zenon
  <2> QED
    BY <1>0, <1>1, <2>3, <2>4, StoredKeep, Zenon
<1>9. Complete(D, H, B)'
  <2>1. \A t \in D : \A v \in D : \A a \in 1..Len(H[t]) :
          t < v /\ a > Len(H[t]) => ~Choosable(B, t, a)'
    <3>1. \A t \in D : \A a \in 1..Len(H[t]) : ~(a > Len(H[t]))
      BY <1>4
    <3> QED
      BY <3>1, Zenon
  <2> QED
    BY <1>0, <1>1, <2>1, CompleteKeep, Zenon
<1> QED
  BY <1>6, <1>7, <1>8, <1>9, Zenon

(***************************************************************************)
(* What the follower believed to be committed it still has, and what it    *)
(* learns to be committed it has from the Leader.                          *)
(***************************************************************************)
LEMMA FollowingCommits ==
    ASSUME FiniteFacts,
           NEW D, NEW H, NEW A, From(D, H, A), NEW i \in Server, NEW u, NEW l, NEW b, NEW c,
           Follows(D, H, A, i, u, l, b, c), NEW B, B = Raised(A, i, u, b)
    PROVE  Commits(D, H, B)'
<1>0. /\ TypeOK /\ TypeOK' /\ Recorded(D, H, A) /\ TermsGrow
      /\ Commits(D, H, A) /\ Backed(D, H, A) /\ Complete(D, H, A)
  BY FromEvolves, Zenon DEF From, Records, Commits
<1>1. Evolves(D, H, A, D, H, B)
  BY FollowingEvolves, Zenon
<1>2. /\ u \in D /\ c \in Nat /\ log' = [log EXCEPT ![i] = l] /\ currentTerm'[i] = u
      /\ commitIndex' = [commitIndex EXCEPT ![i] = c] /\ committed' = committed
      /\ \A n \in Nat : Same(log[i], H[u], n) => Same(l, H[u], n)
  BY Zenon DEF Follows
<1>3. /\ log'[i] = l /\ commitIndex'[i] = c
      /\ \A j \in Server \ {i} : log'[j] = log[j] /\ commitIndex'[j] = commitIndex[j]
  BY <1>0, <1>2, Zenon DEF TypeOK
<1>4. u \in Nat /\ u <= u /\ currentTerm[i] \in Nat /\ currentTerm[i] <= u /\ commitIndex[i] \in Nat
  <2>1. u \in Nat
    BY <1>0, <1>2, RecordNumbers, Zenon
  <2>2. currentTerm[i] \in Nat /\ commitIndex[i] \in Nat
    BY <1>0, Zenon DEF TypeOK
  <2> QED
    BY <1>0, <1>2, <2>1, <2>2 DEF TermsGrow
<1>5. CASE c = commitIndex[i]
  <2>1. /\ Certified(D, H, A, currentTerm[i], c) /\ c <= Len(committed)
        /\ Same(log[i], committed, c)
    BY <1>0, <1>5, Zenon DEF Commits
  <2>2. Same(H[u], committed, c)
    BY <1>0, <1>2, <1>4, <2>1, CommittedHeld, Zenon
  <2>3. Same(log[i], H[u], c)
    BY <2>1, <2>2, SameJoins, SameSwaps, Zenon
  <2>4. Same(l, committed, c)
    BY <1>2, <2>2, <2>3, SameJoins, Zenon
  <2>5. \A j \in Server : /\ commitIndex'[j] = commitIndex[j]
                          /\ log'[j] = log[j] \/ Same(log'[j], committed, commitIndex[j])
    BY <1>3, <1>5, <2>4, Zenon
  <2> QED
    BY <1>0, <1>1, <1>2, <2>5, CommitsKeep, Zenon
<1>6. CASE c # commitIndex[i]
  <2>1. Certified(D, H, A, u, c) /\ c <= Len(committed) /\ Same(l, H[u], c)
    BY <1>6, Zenon DEF Follows
  <2>2. Same(H[u], committed, c)
    BY <1>0, <1>2, <1>4, <2>1, CommittedHeld, Zenon
  <2>3. Same(l, committed, c)
    BY <2>1, <2>2, SameJoins, Zenon
  <2>4. Certified(D, H, B, u, c)
    BY <1>1, <1>2, <1>4, <2>1, CertifiedKeeps, Zenon
  <2>5. \A j \in Server :
          \/ commitIndex'[j] = commitIndex[j] /\ log'[j] = log[j]
          \/ /\ Certified(D, H, B, currentTerm'[j], commitIndex'[j])
             /\ commitIndex'[j] <= Len(committed)
             /\ Same(log'[j], committed, commitIndex'[j])
    BY <1>2, <1>3, <2>1, <2>3, <2>4, Zenon
  <2> QED
    BY <1>0, <1>1, <1>2, <2>5, CommitsKeep, Zenon
<1> QED
  BY <1>5, <1>6, Zenon

(***************************************************************************)
(* A node that stores entries of its Leader's log keeps the records, once  *)
(* the answer is accounted for.                                            *)
(***************************************************************************)
LEMMA FollowingKeeps ==
    ASSUME FiniteFacts,
           NEW D, NEW H, NEW A, From(D, H, A), NEW i \in Server, NEW u, NEW l, NEW b, NEW c,
           Follows(D, H, A, i, u, l, b, c), NEW B, B = Raised(A, i, u, b),
           Rounds(D, B)'
    PROVE  Recorded(D, H, B) /\ Records(D, H, B)'
<1>0. /\ TypeOK /\ TypeOK' /\ ElectionInv /\ Stored(D, H, A) /\ Ballots(D, H, A) /\ Requests(D, H, A)
  BY FromEvolves, Zenon DEF From, Records
<1>1. Evolves(D, H, A, D, H, B) /\ Recorded(D, H, B)
  <2>1. Evolves(D, H, A, D, H, B)
    BY FollowingEvolves, Zenon
  <2>2. Recorded(D, H, B)
    BY <2>1, Zenon DEF Evolves
  <2> QED
    BY <2>1, <2>2, Zenon
<1>2. /\ u \in D /\ log' = [log EXCEPT ![i] = l] /\ currentTerm'[i] = u
      /\ UNCHANGED <<committed, voteReqs, appendReqs, votes>> /\ NoNewElection
  BY Zenon DEF Follows
<1>3. Leaders(D, H, B)' /\ Logs(D, H)' /\ Stored(D, H, B)' /\ Complete(D, H, B)'
  BY FollowingStores, Zenon
<1>4. Commits(D, H, B)'
  BY FollowingCommits, Zenon
<1>5. Requests(D, H, B)'
  <2>1. Len(committed) <= Len(committed')
    BY <1>0, <1>2, LenProperties, SMTT(30) DEF TypeOK
  <2> QED
    BY <1>0, <1>1, <1>2, <2>1, RequestsKeep, Zenon
<1>6. Ballots(D, H, B)'
  <2>1. \A w \in Server : log'[w] = log[w] \/ currentTerm'[w] \in D
    BY <1>0, <1>2, Zenon DEF TypeOK
  <2> QED
    BY <1>0, <1>1, <1>2, <2>1, BallotsKeep, Zenon DEF NoNewElection
<1> QED
  BY <1>1, <1>3, <1>4, <1>5, <1>6, Zenon DEF Records


(***************************************************************************)
(* A request that passes the test at prevLogIndex meets a log that agrees  *)
(* with the one it was taken from.                                         *)
(***************************************************************************)
LEMMA RequestMatches ==
    ASSUME NEW D, NEW H, NEW A, From(D, H, A), NEW i \in Server, NEW m \in appendReqs,
           PrevMatches(log[i], m)
    PROVE  \E n \in 0..Len(H[m.term]) : \E g \in Seq(Entry) :
              /\ Matching(log[i], g, m.prevIndex, m.entries) /\ Len(g) = n
              /\ Same(g, H[m.term], n) /\ m.commit <= n
<1> DEFINE u == m.term
<1>0. /\ TypeOK /\ Recorded(D, H, A) /\ Leaders(D, H, A) /\ Logs(D, H) /\ Requests(D, H, A)
  BY FromEvolves, Zenon DEF From, Records
<1>0a. PICK n \in 0..Len(H[u]) : TakenFrom(m, SubSeq(H[u], 1, n)) /\ m.commit <= n
  BY <1>0, Zenon DEF Requests
<1>0b. u \in D
  BY <1>0, Zenon DEF Requests
<1>1. /\ H[u] \in Seq(Entry) /\ Len(H[u]) \in Nat /\ log[i] \in Seq(Entry) /\ m.prevIndex \in Nat
  BY <1>0, <1>0b, RecordNumbers, AppendReqFields, Zenon DEF TypeOK
<1> DEFINE g == SubSeq(H[u], 1, n)
<1>2. g \in Seq(Entry) /\ Len(g) = n /\ Same(g, H[u], n)
  BY <1>1, BeginningSame
<1>2a. TakenFrom(m, g) /\ m.commit <= n
  BY <1>0a, Zenon
<1> HIDE DEF g
<1>3. Made(D, H, log[i]) /\ Made(D, H, H[u])
  BY <1>0, <1>0b, Zenon DEF Logs, Leaders
<1>4. Made(D, H, g)
  BY <1>0, <1>1, <1>2, <1>3, MadeBeginning, Zenon
<1>5. Agree(log[i], g)
  BY <1>3, <1>4, MadeAgree, Zenon
<1>6. /\ m.prevIndex > 0 =>
           m.prevIndex <= Len(log[i]) /\ log[i][m.prevIndex].term = TermAt(g, m.prevIndex)
      /\ m.entries = SubSeq(g, m.prevIndex + 1, Len(g))
  BY <1>2a, Zenon DEF PrevMatches, TakenFrom
<1>7. Matching(log[i], g, m.prevIndex, m.entries)
  BY <1>1, <1>2, <1>5, <1>6, Zenon DEF Matching
<1> QED
  BY <1>2, <1>2a, <1>7, Zenon

(***************************************************************************)
(* The loop over args.Entries leaves the log alone or makes it a beginning *)
(* of the Leader's, and cuts nothing that is the same there.               *)
(***************************************************************************)
LEMMA MergeFollows ==
    ASSUME FiniteFacts, NEW k, NEW g, NEW prev, NEW es, Matching(k, g, prev, es), NEW upTo \in Nat,
           FirstNew(k, prev, es) <= Len(es) => FirstNew(k, prev, es) - 1 <= upTo,
           upTo <= Len(es), NEW h \in Seq(Entry), Same(g, h, Len(g)),
           NEW l, l = MergeEntries(k, prev, es, upTo)
    PROVE  /\ l \in Seq(Entry) /\ (l = k \/ Same(l, h, Len(l)))
           /\ \A n \in Nat : Same(k, h, n) => Same(l, h, n)
<1>0. k \in Seq(Entry) /\ g \in Seq(Entry) /\ prev \in Nat /\ es = SubSeq(g, prev + 1, Len(g))
  BY Zenon DEF Matching
<1>1. CASE FirstNew(k, prev, es) > Len(es)
  <2>1. l = k
    BY <1>1, Zenon DEF MergeEntries
  <2> QED
    BY <1>0, <2>1, Zenon
<1>2. CASE ~(FirstNew(k, prev, es) > Len(es))
  <2>0. Len(es) \in Nat /\ es \in Seq(Entry)
    BY <1>0, EntriesTaken, Zenon
  <2>1. FirstNew(k, prev, es) \in 1..(Len(es) + 1)
    BY <1>0, <2>0, FirstNewType, Zenon
  <2>2. FirstNew(k, prev, es) <= Len(es)
    BY <1>2, <2>0, <2>1
  <2>3. Merging(k, g, prev, es, upTo)
    BY <2>2, Zenon DEF Merging
  <2>4. \A n \in Nat : Same(k, h, n) => Same(l, h, n)
    BY <2>3, MergeHolds, Zenon
  <2> DEFINE c == prev + upTo
  <2>5. c \in 0..Len(g) /\ l = SubSeq(g, 1, c)
    BY <2>3, MergeIsBeginning
  <2> HIDE DEF c
  <2>6. Len(g) \in Nat /\ Len(h) \in Nat
    BY <1>0, LenProperties, Zenon
  <2>7. c \in Nat /\ c <= Len(g)
    BY <2>5, <2>6
  <2>8. l \in Seq(Entry) /\ Len(l) = c /\ Same(l, g, c)
    BY <1>0, <2>5, <2>7, BeginningSame, Zenon
  <2>9. Same(g, h, c)
    BY <2>6, <2>7, SameShorter, Zenon
  <2>10. Same(l, h, c)
    BY <2>8, <2>9, SameJoins, Zenon
  <2> QED
    BY <2>4, <2>8, <2>10, Zenon
<1> QED
  BY <1>1, <1>2, Zenon

(***************************************************************************)
(* Every refusal leaves the logs alone.                                    *)
(***************************************************************************)
LEMMA RejectAppendSafe ==
    ASSUME FiniteFacts, NEW D, NEW H, NEW A, From(D, H, A), NEW i \in Server, NEW m \in appendReqs,
           RejectStaleAppend(i, m) \/ RejectMissing(i, m) \/ RejectConflict(i, m)
    PROVE  Records(D, H, A)'
<1>0. TypeOK /\ TypeOK' /\ Evolves(D, H, A, D, H, A) /\ Rounds(D, A)
  BY FromEvolves, Zenon DEF From, Records
<1>1. UNCHANGED <<log, committed, commitIndex, matchIndex, voteReqs, appendReqs, votes>>
  BY Zenon DEF RejectStaleAppend, RejectMissing, RejectConflict, FollowLeader, logVars, peerVars
<1>2. \E t, ci, ct : AnswerAppend(m, t, FALSE, ci, ct)
  BY Zenon DEF RejectStaleAppend, RejectMissing, RejectConflict
<1>3. Rounds(D, A)'
  BY <1>0, <1>1, <1>2, AnswerAppendRounds, Zenon
<1>4. LeadersStay
  <2>1. \/ UNCHANGED <<currentTerm, role>>
        \/ \E t : /\ currentTerm' = [currentTerm EXCEPT ![i] = t]
                  /\ role' = [role EXCEPT ![i] = Follower]
    BY Zenon DEF RejectStaleAppend, RejectMissing, RejectConflict, FollowLeader, nodeVars
  <2> QED
    BY <1>0, <2>1, Zenon DEF LeadersStay, TypeOK, Leader, Follower
<1>5. NoNewElection
  BY <1>0, <1>2, AnswerAppendPosition, Zenon DEF NoNewElection
<1> QED
  BY <1>1, <1>3, <1>4, <1>5, QuietKeeps, Zenon

(***************************************************************************)
(* What following a leader and storing some of its entries comes to.       *)
(***************************************************************************)
LEMMA StoringFollows ==
    ASSUME NEW D, NEW H, NEW A, From(D, H, A), NEW i \in Server, NEW m \in appendReqs,
           FollowLeader(i, m), NoNewElection, NEW l \in Seq(Entry), log' = [log EXCEPT ![i] = l],
           l = log[i] \/ Same(l, H[m.term], Len(l)),
           \A n \in Nat : Same(log[i], H[m.term], n) => Same(l, H[m.term], n),
           NEW b \in Nat, A[i][m.term] <= b,
           b = A[i][m.term] \/ (b <= Len(H[m.term]) /\ Same(l, H[m.term], b)),
           NEW c \in Nat, commitIndex' = [commitIndex EXCEPT ![i] = c],
           \/ c = commitIndex[i]
           \/ Certified(D, H, A, m.term, c) /\ c <= Len(committed) /\ Same(l, H[m.term], c),
           committed' = committed
    PROVE  Follows(D, H, A, i, m.term, l, b, c)
<1> DEFINE u == m.term
<1>0. /\ TypeOK /\ Recorded(D, H, A) /\ Stored(D, H, A) /\ u \in D
  BY FromEvolves, Zenon DEF From, Records, Requests
<1>1. /\ u \in Nat /\ Len(H[u]) \in Nat /\ A[i][u] \in Nat
      /\ currentTerm[i] \in Nat
  BY <1>0, RecordNumbers, Zenon DEF TypeOK
<1>2. /\ currentTerm' = [currentTerm EXCEPT ![i] = u] /\ role' = [role EXCEPT ![i] = Follower]
      /\ u >= currentTerm[i] /\ UNCHANGED <<voteReqs, appendReqs, votes>>
  BY Zenon DEF FollowLeader, NotStale
<1>3. /\ currentTerm'[i] = u /\ role'[i] # Leader
      /\ \A j \in Server \ {i} : role'[j] = role[j] /\ currentTerm'[j] = currentTerm[j]
  BY <1>0, <1>2, Zenon DEF TypeOK, Leader, Follower
<1>4. A[i][u] <= Len(H[u]) /\ Same(log[i], H[u], A[i][u])
  <2>1. A[i][u] <= Len(H[u])
    BY <1>0, Zenon DEF Stored
  <2>2. CASE A[i][u] = 0
    <3>1. Len(log[i]) \in Nat
      BY <1>0, LenProperties, Zenon DEF TypeOK
    <3> QED
      BY <1>1, <2>1, <2>2, <3>1, SMTT(30) DEF Same
  <2>3. CASE A[i][u] # 0
    <3>1. A[i][u] > 0
      BY <1>1, <2>3, SMTT(30)
    <3>2. currentTerm[i] >= u
      BY <1>0, <3>1, Zenon DEF Stored
    <3>3. currentTerm[i] = u
      BY <1>1, <1>2, <3>2, SMTT(30)
    <3> QED
      BY <1>0, <2>1, <3>3, Zenon DEF Stored
  <2> QED
    BY <2>2, <2>3, Zenon
<1>5. b <= Len(H[u]) /\ Same(l, H[u], b)
  BY <1>1, <1>4, Zenon
<1> QED
  BY <1>0, <1>2, <1>3, <1>5, Zenon DEF Follows

(***************************************************************************)
(* An accepted request: the follower has stored all the request stands     *)
(* for, in the term of its Leader.                                         *)
(***************************************************************************)
LEMMA AcceptEntriesSafe ==
    ASSUME FiniteFacts, NEW D, NEW H, NEW A, From(D, H, A), NEW i \in Server, NEW m \in appendReqs,
           AcceptEntries(i, m)
    PROVE  \E B : Recorded(D, H, B) /\ Records(D, H, B)'
<1> DEFINE u == m.term
           l == MergeEntries(log[i], m.prevIndex, m.entries, Len(m.entries))
           c == IF m.commit > commitIndex[i] THEN Min({m.commit, Len(l)}) ELSE commitIndex[i]
<1>0. /\ TypeOK /\ TypeOK' /\ Recorded(D, H, A) /\ Requests(D, H, A) /\ Commits(D, H, A)
      /\ Rounds(D, A) /\ Logs(D, H)
  BY FromEvolves, Zenon DEF From, Records
<1>1. /\ FollowLeader(i, m) /\ PrevMatches(log[i], m) /\ log' = [log EXCEPT ![i] = l]
      /\ commitIndex' = [commitIndex EXCEPT ![i] = c] /\ RecordCommit(i)
      /\ AnswerAppend(m, u, TRUE, 0, 0) /\ m.to = i /\ matchIndex' = matchIndex
  BY Zenon DEF AcceptEntries, FollowLeader, peerVars
<1>2. u \in D /\ m.commit <= Len(committed) /\ Certified(D, H, A, u, m.commit)
  BY <1>0, Zenon DEF Requests
<1>3. PICK n \in 0..Len(H[u]) : \E g \in Seq(Entry) :
         /\ Matching(log[i], g, m.prevIndex, m.entries) /\ Len(g) = n
         /\ Same(g, H[u], n) /\ m.commit <= n
  BY <1>1, RequestMatches, Zenon
<1>4. PICK g \in Seq(Entry) :
         /\ Matching(log[i], g, m.prevIndex, m.entries) /\ Len(g) = n
         /\ Same(g, H[u], n) /\ m.commit <= n
  BY <1>3, Zenon
<1>5. /\ Matching(log[i], g, m.prevIndex, m.entries) /\ g \in Seq(Entry) /\ Len(g) = n
      /\ Same(g, H[u], n) /\ m.commit <= n
  BY <1>4, Zenon
<1>5a. Same(g, H[u], Len(g))
  BY <1>5, Zenon
<1>6. /\ H[u] \in Seq(Entry) /\ Len(H[u]) \in Nat /\ n \in Nat /\ m.commit \in Nat
      /\ m.entries \in Seq(Entry) /\ Len(m.entries) \in Nat /\ m.prevIndex \in Nat
      /\ log[i] \in Seq(Entry) /\ commitIndex[i] \in Nat /\ A[i][u] \in Nat /\ Len(committed) \in Nat
  <2>1. H[u] \in Seq(Entry) /\ Len(H[u]) \in Nat /\ A[i][u] \in Nat
    BY <1>0, <1>2, RecordNumbers, Zenon
  <2>2. m.commit \in Nat /\ m.entries \in Seq(Entry) /\ m.prevIndex \in Nat
    BY <1>0, AppendReqFields, Zenon
  <2>3. log[i] \in Seq(Entry) /\ commitIndex[i] \in Nat /\ committed \in Seq(Entry)
    BY <1>0, Zenon DEF TypeOK
  <2>4. Len(m.entries) \in Nat /\ Len(committed) \in Nat
    BY <2>2, <2>3, LenProperties, Zenon
  <2> QED
    BY <2>1, <2>2, <2>3, <2>4, SMTT(30)
<1>7. FirstNew(log[i], m.prevIndex, m.entries) \in 1..(Len(m.entries) + 1)
  BY <1>6, FirstNewType, Zenon
<1>8. /\ FirstNew(log[i], m.prevIndex, m.entries) - 1 <= Len(m.entries)
      /\ Len(m.entries) <= Len(m.entries)
  BY <1>6, <1>7
<1>9. /\ l \in Seq(Entry) /\ (l = log[i] \/ Same(l, H[u], Len(l)))
      /\ \A k \in Nat : Same(log[i], H[u], k) => Same(l, H[u], k)
  <2>1. Matching(log[i], g, m.prevIndex, m.entries) /\ Len(m.entries) \in Nat /\ H[u] \in Seq(Entry)
    BY <1>5, <1>6, Zenon
  <2> QED
    BY <1>5a, <1>8, <2>1, MergeFollows
<1>10. Same(l, g, Len(g)) /\ (m.entries # << >> => m.prevIndex + Len(m.entries) = Len(g))
  <2>1. \A k \in 1..Len(log[i]) : log[i][k].term # 0
    BY <1>0, Zenon DEF Logs, Made, Recorded
  <2> QED
    BY <1>5, <2>1, AcceptHolds, SMTT(30)
<1>11. Same(l, H[u], n) /\ n <= Len(l) /\ Len(l) \in Nat
  <2>1. Same(l, H[u], n)
    BY <1>5, <1>10, SameJoins, Zenon
  <2> QED
    BY <1>9, <2>1, LenProperties, Zenon DEF Same
<1>12. LastSent(m) <= n
  BY <1>5, <1>6, <1>10 DEF LastSent
<1> HIDE DEF l
<1>13. c \in {commitIndex[i], m.commit}
  <2>1. m.commit <= Len(l)
    BY <1>3, <1>6, <1>11, SMTT(30)
  <2>2. Min({m.commit, Len(l)}) = m.commit
    <3> DEFINE S == {m.commit, Len(l)}
    <3>1. S \in SUBSET Nat /\ S # {}
      BY <1>6, <1>11, Zenon
    <3>2. Min(S) \in S /\ \A x \in S : Min(S) <= x
      <4> HIDE DEF S
      <4> QED
        BY <3>1, MinOfNaturals, Zenon
    <3> QED
      BY <1>6, <1>11, <2>1, <3>2, SMTT(30)
  <2> QED
    BY <2>2, Zenon
<1> HIDE DEF c
<1>14. c \in Nat /\ c <= Len(committed) /\
       (c = commitIndex[i] \/
        (Certified(D, H, A, u, c) /\ c <= Len(committed) /\ Same(l, H[u], c)))
  <2>1. commitIndex[i] <= Len(committed)
    BY <1>0, Zenon DEF Commits
  <2>2. Same(l, H[u], m.commit)
    BY <1>3, <1>6, <1>11, SameShorter, Zenon
  <2> QED
    BY <1>2, <1>6, <1>13, <2>1, <2>2, Zenon
<1>15. committed' = committed
  <2>1. commitIndex'[i] = c
    BY <1>0, <1>1, Zenon DEF TypeOK
  <2>2. ~(c > Len(committed))
    BY <1>6, <1>14, SMTT(30)
  <2> QED
    BY <1>1, <2>1, <2>2, Zenon DEF RecordCommit
<1>16. NoNewElection
  BY <1>0, <1>1, AnswerAppendPosition, Zenon DEF NoNewElection
<1>17. PICK b \in Nat : /\ A[i][u] <= b /\ LastSent(m) <= b
                        /\ b = A[i][u] \/ (b <= Len(H[u]) /\ Same(l, H[u], b))
  <2>1. LastSent(m) \in Nat
    BY <1>0, LastSentType, Zenon DEF TypeOK
  <2>2. n <= Len(H[u])
    BY <1>6, SMTT(30)
  <2>3. CASE n <= A[i][u]
    <3>1. A[i][u] \in Nat /\ A[i][u] <= A[i][u] /\ LastSent(m) <= A[i][u]
      BY <1>6, <1>12, <2>1, <2>3, SMTT(30)
    <3> QED
      BY <3>1, Zenon
  <2>4. CASE ~(n <= A[i][u])
    <3>1. A[i][u] <= n
      BY <1>6, <2>4, SMTT(30)
    <3> QED
      BY <1>6, <1>11, <1>12, <2>2, <3>1, Zenon
  <2> QED
    BY <2>3, <2>4, Zenon
<1>18. Follows(D, H, A, i, u, l, b, c)
  BY <1>1, <1>9, <1>14, <1>15, <1>16, <1>17, StoringFollows, Zenon
<1>19. PICK B : B = Raised(A, i, u, b)
  BY Zenon
<1>20. Evolves(D, H, A, D, H, B) /\ B[i][u] = b
  BY <1>18, <1>19, FollowingEvolves
<1>21. Rounds(D, B)'
  <2>1. LastSent(m) <= B[m.to][m.term]
    BY <1>1, <1>17, <1>20, Zenon
  <2> QED
    BY <1>0, <1>1, <1>20, <2>1, AnswerAppendRounds, Zenon
<1> QED
  BY <1>18, <1>19, <1>21, FollowingKeeps, Zenon

(***************************************************************************)
(* The log store fails: what was stored before stays, and is right.        *)
(***************************************************************************)
LEMMA FailToStoreSafe ==
    ASSUME FiniteFacts, NEW D, NEW H, NEW A, From(D, H, A), NEW i \in Server, NEW m \in appendReqs,
           FailToStore(i, m)
    PROVE  \E B : Recorded(D, H, B) /\ Records(D, H, B)'
<1> DEFINE u == m.term
           f == FirstNew(log[i], m.prevIndex, m.entries)
           b == A[i][u]
           c == commitIndex[i]
<1>0. /\ TypeOK /\ TypeOK' /\ Recorded(D, H, A) /\ Requests(D, H, A)
      /\ Rounds(D, A) /\ Logs(D, H)
  BY FromEvolves, Zenon DEF From, Records
<1>1. /\ FollowLeader(i, m) /\ PrevMatches(log[i], m) /\ f <= Len(m.entries)
      /\ \/ log' = log
         \/ \E upTo \in (f - 1)..(Len(m.entries) - 1) :
              log' = [log EXCEPT ![i] = MergeEntries(log[i], m.prevIndex, m.entries, upTo)]
      /\ AnswerAppend(m, u, FALSE, 0, 0) /\ matchIndex' = matchIndex
      /\ UNCHANGED <<commitIndex, committed>>
  BY Zenon DEF FailToStore, AnswerNotStored, FollowLeader, peerVars
<1>2. u \in D
  BY <1>0, Zenon DEF Requests
<1>3. PICK n \in 0..Len(H[u]) : \E g \in Seq(Entry) :
         /\ Matching(log[i], g, m.prevIndex, m.entries) /\ Len(g) = n
         /\ Same(g, H[u], n) /\ m.commit <= n
  BY <1>1, RequestMatches, Zenon
<1>4. PICK g \in Seq(Entry) :
         /\ Matching(log[i], g, m.prevIndex, m.entries) /\ Len(g) = n
         /\ Same(g, H[u], n) /\ m.commit <= n
  BY <1>3, Zenon
<1>5. /\ Matching(log[i], g, m.prevIndex, m.entries) /\ g \in Seq(Entry) /\ Len(g) = n
      /\ Same(g, H[u], n) /\ m.commit <= n
  BY <1>4, Zenon
<1>5a. Same(g, H[u], Len(g))
  BY <1>5, Zenon
<1>6. /\ H[u] \in Seq(Entry) /\ Len(m.entries) \in Nat /\ f \in 1..(Len(m.entries) + 1)
      /\ log[i] \in Seq(Entry) /\ c \in Nat /\ b \in Nat
  <2>1. H[u] \in Seq(Entry) /\ b \in Nat
    BY <1>0, <1>2, RecordNumbers, Zenon
  <2>2. m.entries \in Seq(Entry) /\ m.prevIndex \in Nat
    BY <1>0, AppendReqFields, Zenon
  <2>3. log[i] \in Seq(Entry) /\ c \in Nat
    BY <1>0, Zenon DEF TypeOK
  <2> QED
    BY <2>1, <2>2, <2>3, LenProperties, FirstNewType, Zenon
<1>7. PICK l \in Seq(Entry) :
        /\ log' = [log EXCEPT ![i] = l] /\ (l = log[i] \/ Same(l, H[u], Len(l)))
        /\ \A k \in Nat : Same(log[i], H[u], k) => Same(l, H[u], k)
  <2>1. CASE log' = log
    <3>1. log' = [log EXCEPT ![i] = log[i]]
      BY <1>0, <2>1, Zenon DEF TypeOK
    <3> QED
      BY <1>6, <3>1, Zenon
  <2>2. ASSUME NEW upTo \in (f - 1)..(Len(m.entries) - 1),
               log' = [log EXCEPT ![i] = MergeEntries(log[i], m.prevIndex, m.entries, upTo)]
        PROVE  \E l \in Seq(Entry) :
                 /\ log' = [log EXCEPT ![i] = l] /\ (l = log[i] \/ Same(l, H[u], Len(l)))
                 /\ \A k \in Nat : Same(log[i], H[u], k) => Same(l, H[u], k)
    <3>1. upTo \in Nat /\ f - 1 <= upTo /\ upTo <= Len(m.entries)
      BY <1>6
    <3>2. PICK l : l = MergeEntries(log[i], m.prevIndex, m.entries, upTo)
      BY Zenon
    <3>3. /\ l \in Seq(Entry) /\ (l = log[i] \/ Same(l, H[u], Len(l)))
          /\ \A k \in Nat : Same(log[i], H[u], k) => Same(l, H[u], k)
      <4>1. Matching(log[i], g, m.prevIndex, m.entries) /\ H[u] \in Seq(Entry)
        BY <1>5, <1>6, Zenon
      <4> QED
        BY <1>5a, <3>1, <3>2, <4>1, MergeFollows, SMTT(30)
    <3> QED
      BY <2>2, <3>2, <3>3, Zenon
  <2> HIDE DEF f
  <2> QED
    BY <1>1, <2>1, <2>2, Zenon
<1>8. NoNewElection
  BY <1>0, <1>1, AnswerAppendPosition, Zenon DEF NoNewElection
<1>9. commitIndex' = [commitIndex EXCEPT ![i] = c] /\ b <= b
  <2>1. commitIndex \in [Server -> Nat] /\ commitIndex' = commitIndex
    BY <1>0, <1>1, Zenon DEF TypeOK
  <2>2. b <= b
    BY <1>6, SMTT(30)
  <2> QED
    BY <2>1, <2>2, Zenon
<1> HIDE DEF f, b, c
<1>10. Follows(D, H, A, i, u, l, b, c)
  BY <1>1, <1>6, <1>7, <1>8, <1>9, StoringFollows, Zenon DEF b, c
<1>11. PICK B : B = Raised(A, i, u, b)
  BY Zenon
<1>12. Evolves(D, H, A, D, H, B)
  BY <1>10, <1>11, FollowingEvolves
<1>13. Rounds(D, B)'
  BY <1>0, <1>1, <1>12, AnswerAppendRounds, Zenon
<1> QED
  BY <1>10, <1>11, <1>13, FollowingKeeps, Zenon


-----------------------------------------------------------------------------
(* A new Leader *)

(***************************************************************************)
(* A log whose end is not behind entry a of the log of term t has it, if   *)
(* it may have been committed.                                             *)
(***************************************************************************)
LEMMA LaterLogHasAll ==
    ASSUME NEW D, NEW H, NEW A, Recorded(D, H, A), Leaders(D, H, A), Complete(D, H, A),
           NEW l \in Seq(Entry), Made(D, H, l), NEW t \in D, NEW a \in 1..Len(H[t]),
           Own(H, t, a), Choosable(A, t, a),
           LastTerm(l) > t \/ (LastTerm(l) = t /\ Len(l) >= a)
    PROVE  Same(l, H[t], a)
<1> DEFINE n == Len(l)
           s == LastTerm(l)
<1>0. t \in Nat /\ t > 0 /\ Len(H[t]) \in Nat /\ n \in Nat /\ a \in Nat
  BY RecordNumbers, LogNumbers
<1>1. n \in 1..n /\ l[n].term = s
  BY <1>0 DEF LastTerm, TermAt
<1>2. s \in D /\ Same(l, H[s], n)
  BY <1>1, Zenon DEF Made
<1> HIDE DEF s, n
<1>3. s \in Nat /\ Len(H[s]) \in Nat
  BY <1>2, RecordNumbers, Zenon
<1>4. CASE s = t
  <2>1. a <= n
    BY <1>0, <1>3, <1>4 DEF s, n
  <2> QED
    BY <1>0, <1>2, <1>4, <2>1, SameShorter, Zenon DEF n
<1>5. CASE s > t
  <2>1. Same(H[s], H[t], a)
    BY <1>0, <1>2, <1>3, <1>5, Zenon DEF Complete
  <2>2. a <= n
    <3> SUFFICES ASSUME n < a PROVE FALSE
      BY <1>0
    <3>1. n \in 1..Len(H[t]) /\ n \in 1..a
      BY <1>0, <1>1, SMTT(30)
    <3>2. H[t][n].term <= t
      BY <3>1, Zenon DEF Leaders
    <3>3. l[n] = H[s][n] /\ H[s][n] = H[t][n]
      BY <1>1, <1>2, <2>1, <3>1, Zenon DEF Same
    <3> QED
      BY <1>0, <1>1, <1>3, <1>5, <3>2, <3>3, SMTT(30)
  <2>3. Same(l, H[s], a)
    BY <1>0, <1>2, <1>3, <2>2, SameShorter, Zenon DEF n
  <2> QED
    BY <2>1, <2>3, SameJoins, Zenon
<1>6. s = t \/ s > t
  BY Zenon DEF s
<1> QED
  BY <1>4, <1>5, <1>6, Zenon

(***************************************************************************)
(* A candidate with the votes of a quorum has what may have been committed *)
(* in earlier terms: its quorum meets the one that stored it.              *)
(***************************************************************************)
LEMMA WinnerHasAll ==
    ASSUME FiniteFacts, NEW D, NEW H, NEW A, From(D, H, A), NEW i \in Server, NEW u \in Nat,
           NEW S \in SUBSET Server, IsQuorum(S),
           \A j \in S : /\ u <= currentTerm'[j]
                        /\ j = i \/ \E m \in voteReqs : /\ m.lastIndex = Len(log[i])
                                                        /\ m.lastTerm = LastTerm(log[i])
                                                        /\ m.term = u /\ UpToDate(D, H, A, m, j),
           NEW t \in D, t < u, NEW a \in 1..Len(H[t]), Own(H, t, a), Choosable(A, t, a)'
    PROVE  Same(log[i], H[t], a)
<1>0. /\ TypeOK /\ TypeOK' /\ Evolves(D, H, A, D, H, A) /\ Recorded(D, H, A)
      /\ Leaders(D, H, A) /\ Logs(D, H) /\ Stored(D, H, A) /\ Complete(D, H, A)
  BY FromEvolves, Zenon DEF From, Records
<1>1. /\ t \in Nat /\ Len(H[t]) \in Nat /\ a \in Nat /\ \A j \in Server : A[j][t] \in Nat
  BY <1>0, RecordNumbers, SMTT(30)
<1>2. Choosable(A, t, a)
  BY <1>0, <1>1, ChoosableBefore, Zenon
<1>3. log[i] \in Seq(Entry) /\ Made(D, H, log[i])
  BY <1>0, Zenon DEF TypeOK, Logs
<1>4. PICK j \in Server : j \in S /\ (A[j][t] >= a \/ currentTerm'[j] <= t)
  <2> DEFINE T == {j \in Server : A[j][t] >= a \/ currentTerm'[j] <= t}
  <2>1. T \in SUBSET Server /\ IsQuorum(T)
    BY Zenon DEF Choosable
  <2> HIDE DEF T
  <2>2. \E j \in Server : j \in S /\ j \in T
    BY <2>1, QuorumsMeet, Zenon
  <2> QED
    BY <2>2, Zenon DEF T
<1>5. u <= currentTerm'[j] /\ currentTerm'[j] \in Nat
  BY <1>0, <1>4, Zenon DEF TypeOK
<1>6. a \in 1..A[j][t]
  BY <1>1, <1>4, <1>5, SMTT(30)
<1>7. CASE j = i
  BY <1>0, <1>2, <1>6, <1>7, Zenon DEF Stored
<1>8. CASE j # i
  <2>1. PICK m \in voteReqs : /\ m.lastIndex = Len(log[i]) /\ m.lastTerm = LastTerm(log[i])
                              /\ m.term = u /\ UpToDate(D, H, A, m, j)
    BY <1>4, <1>8, Zenon
  <2>2. m.lastTerm > t \/ (m.lastTerm = t /\ m.lastIndex >= a)
    BY <1>2, <1>6, <2>1, Zenon DEF UpToDate
  <2>3. LastTerm(log[i]) > t \/ (LastTerm(log[i]) = t /\ Len(log[i]) >= a)
    BY <2>1, <2>2, Zenon
  <2> QED
    BY <1>0, <1>2, <1>3, <2>3, LaterLogHasAll, Zenon
<1> QED
  BY <1>7, <1>8, Zenon

(***************************************************************************)
(* The records once i leads term u: its log is that of the term, and it    *)
(* alone has stored it.                                                    *)
(***************************************************************************)
Crowned(D, H, A, E, G, B, i, u) ==
    /\ Recorded(E, G, B) /\ E = D \cup {u}
    /\ \A t \in D : G[t] = H[t] /\ \A j \in Server : B[j][t] = A[j][t]
    /\ G[u] = log[i] /\ B[i][u] = Len(log[i])
    /\ \A j \in Server \ {i} : B[j][u] = 0

(***************************************************************************)
(* Records that crown a new Leader exist.                                  *)
(***************************************************************************)
LEMMA CrownedRecords ==
    ASSUME TypeOK, NEW D, NEW H, NEW A, Recorded(D, H, A), NEW i \in Server,
           NEW u \in Nat \ {0}, u \notin D
    PROVE  \E E, G, B : Crowned(D, H, A, E, G, B, i, u)
<1> DEFINE E == D \cup {u}
           G == [H EXCEPT ![u] = log[i]]
           B == [j \in Server |-> [A[j] EXCEPT ![u] = IF j = i THEN Len(log[i]) ELSE 0]]
<1>0. /\ D \in SUBSET (Nat \ {0}) /\ H \in [Nat -> Seq(Entry)] /\ A \in [Server -> [Nat -> Nat]]
      /\ log[i] \in Seq(Entry) /\ Len(log[i]) \in Nat
  BY LenProperties, Zenon DEF Recorded, TypeOK
<1>1. E \in SUBSET (Nat \ {0}) /\ G \in [Nat -> Seq(Entry)]
  BY <1>0, Zenon
<1>2. B \in [Server -> [Nat -> Nat]]
  BY <1>0, Zenon
<1>3. \A t \in D : G[t] = H[t] /\ \A j \in Server : B[j][t] = A[j][t]
  BY <1>0, Zenon
<1>4. /\ G[u] = log[i] /\ B[i][u] = Len(log[i]) /\ \A j \in Server \ {i} : B[j][u] = 0
  BY <1>0, Zenon
<1> HIDE DEF E, G, B
<1>5. E = D \cup {u}
  BY Zenon DEF E
<1>6. Crowned(D, H, A, E, G, B, i, u)
  BY <1>1, <1>2, <1>3, <1>4, <1>5, Zenon DEF Crowned, Recorded
<1> QED
  BY <1>6, Zenon


(***************************************************************************)
(* Node i becomes Leader of a term that had none, with a log that has all  *)
(* that may have been committed before.                                    *)
(***************************************************************************)
Enters(D, H, A, i, u) ==
    /\ From(D, H, A) /\ u \in Nat \ {0} /\ u \notin D
    /\ role'[i] = Leader /\ currentTerm'[i] = u
    /\ \A j \in Server \ {i} : role'[j] = role[j] /\ currentTerm'[j] = currentTerm[j]
    /\ loop' = [loop EXCEPT ![i] = Idle]
    /\ UNCHANGED <<log, committed, commitIndex, appendReqs, matchIndex>>
    /\ \A t \in D : \A a \in 1..Len(H[t]) :
         t < u /\ Own(H, t, a) /\ Choosable(A, t, a)' => Same(log[i], H[t], a)
    /\ voteReqs \subseteq voteReqs' /\ \A v \in votes' : v \in votes \/ v.voter = v.candidate
    /\ \A m \in voteReqs' : m \in voteReqs \/
         /\ m.term <= currentTerm'[m.from]
         /\ m.lastIndex = Len(log'[m.from]) /\ m.lastTerm = LastTerm(log'[m.from])

(***************************************************************************)
(* They are an evolution of the ones before.                               *)
(***************************************************************************)
LEMMA CrownedEvolves ==
    ASSUME NEW D, NEW H, NEW A, NEW E, NEW G, NEW B, NEW i \in Server, NEW u,
           Enters(D, H, A, i, u), Crowned(D, H, A, E, G, B, i, u)
    PROVE  Evolves(D, H, A, E, G, B)
<1>0. /\ TypeOK /\ TypeOK' /\ TermsGrow /\ Recorded(D, H, A) /\ Logs(D, H)
      /\ u \notin D /\ currentTerm'[i] = u
  BY FromEvolves, Zenon DEF Enters, From, Records
<1>1. /\ Recorded(E, G, B) /\ E = D \cup {u} /\ G[u] = log[i]
      /\ \A t \in D : G[t] = H[t] /\ \A j \in Server : B[j][t] = A[j][t]
      /\ \A j \in Server \ {i} : B[j][u] = 0
  BY Zenon DEF Crowned
<1>2. \A t \in D : Len(H[t]) \in Nat /\ \A j \in Server : A[j][t] \in Nat
  BY <1>0, RecordNumbers, Zenon
<1>3. \A t \in D : Same(G[t], H[t], Len(H[t]))
  BY <1>1, <1>2, SMTT(30) DEF Same
<1>4. \A j \in Server : \A t \in D :
        A[j][t] <= B[j][t] /\ (A[j][t] # B[j][t] => currentTerm[j] <= t /\ currentTerm'[j] = t)
  BY <1>1, <1>2, SMTT(30)
<1>5. \A a : ~Own(G, u, a)
  <2> SUFFICES ASSUME NEW a, Own(G, u, a) PROVE FALSE
    BY Zenon
  <2>1. a \in 1..Len(log[i]) /\ log[i][a].term = u
    BY <1>1, Zenon DEF Own
  <2> QED
    BY <1>0, <2>1, Zenon DEF Logs, Made
<1>6. \A j \in Server : B[j][u] # 0 => currentTerm'[j] = u
  BY <1>0, <1>1, Zenon
<1>7. \A t \in E \ D : t = u
  BY <1>1, Zenon
<1>8. D \subseteq E
  BY <1>1, Zenon
<1> QED
  BY <1>0, <1>1, <1>3, <1>4, <1>5, <1>6, <1>7, <1>8, SMTT(30) DEF Evolves

(***************************************************************************)
(* The logs of the terms, the old and the new one.                         *)
(***************************************************************************)
LEMMA CrownedLeaders ==
    ASSUME NEW D, NEW H, NEW A, NEW E, NEW G, NEW B, NEW i \in Server, NEW u,
           Enters(D, H, A, i, u), Crowned(D, H, A, E, G, B, i, u)
    PROVE  Leaders(E, G, B)' /\ Logs(E, G)'
<1>0. /\ TypeOK /\ TypeOK' /\ Recorded(D, H, A) /\ Leaders(D, H, A) /\ Logs(D, H)
      /\ Stored(D, H, A) /\ TermsGrow /\ ElectedKept /\ LeadersElected'
  BY FromEvolves, Zenon DEF Enters, From, Records
<1>1. Evolves(D, H, A, E, G, B)
  BY CrownedEvolves, Zenon
<1>2. /\ E = D \cup {u} /\ G[u] = log[i] /\ B[i][u] = Len(log[i])
      /\ \A t \in D : G[t] = H[t] /\ \A j \in Server : B[j][t] = A[j][t]
  BY Zenon DEF Crowned
<1>3. /\ role'[i] = Leader /\ currentTerm'[i] = u /\ log' = log /\ u \in Nat
      /\ \A j \in Server \ {i} : role'[j] = role[j] /\ currentTerm'[j] = currentTerm[j]
  BY Zenon DEF Enters
<1>4. Logs(E, G)'
  BY <1>0, <1>1, <1>3, LogsKeep, Zenon
<1>5. \A w \in Server : \A t \in Nat : Elected(w, t) => Elected(w, t)'
  BY <1>0, Zenon DEF ElectedKept
<1>6. \A t \in D : G[t] = H[t] /\ \A j \in Server : B[j][t] <= Len(G[t])
  BY <1>0, <1>2, Zenon DEF Stored
<1>7. Elected(i, u)'
  BY <1>0, <1>3, Zenon DEF LeadersElected
<1>8. Made(E, G, log[i]) /\ \A k \in 1..Len(log[i]) : log[i][k].term <= u
  BY <1>3, <1>4, Zenon DEF Logs
<1>9. \A t \in E \ D : t = u
  BY <1>2, Zenon
<1>10. \A t \in E \ D : /\ \E w \in Server : Elected(w, t)' /\ B[w][t] = Len(G[t])
                        /\ Made(E, G, G[t])
                        /\ \A k \in 1..Len(G[t]) : G[t][k].term <= t
  BY <1>2, <1>7, <1>8, <1>9, SMTT(30)
<1>11. \A j \in Server : role'[j] = Leader =>
         \/ role[j] = Leader /\ currentTerm'[j] = currentTerm[j] /\ log'[j] = log[j]
         \/ currentTerm'[j] \in E /\ log'[j] = G[currentTerm'[j]]
  BY <1>2, <1>3, Zenon
<1>12. Leaders(E, G, B)'
  BY <1>0, <1>1, <1>5, <1>6, <1>10, <1>11, LeadersKeep, SMTT(30)
<1> QED
  BY <1>4, <1>12, Zenon

(***************************************************************************)
(* What is stored, and what later Leaders have.                            *)
(***************************************************************************)
LEMMA CrownedStores ==
    ASSUME FiniteFacts, NEW D, NEW H, NEW A, NEW E, NEW G, NEW B, NEW i \in Server, NEW u,
           Enters(D, H, A, i, u), Crowned(D, H, A, E, G, B, i, u)
    PROVE  Stored(E, G, B)' /\ Complete(E, G, B)'
<1>0. /\ TypeOK /\ TypeOK' /\ Recorded(D, H, A) /\ Stored(D, H, A) /\ Complete(D, H, A)
      /\ TermsGrow
  BY FromEvolves, Zenon DEF Enters, From, Records
<1>1. Evolves(D, H, A, E, G, B)
  BY CrownedEvolves, Zenon
<1>2. /\ E = D \cup {u} /\ G[u] = log[i] /\ B[i][u] = Len(log[i])
      /\ \A t \in D : G[t] = H[t] /\ \A j \in Server : B[j][t] = A[j][t]
      /\ \A j \in Server \ {i} : B[j][u] = 0
  BY Zenon DEF Crowned
<1>3. \A t \in D : /\ t \in Nat /\ Len(H[t]) \in Nat
                   /\ \A j \in Server : A[j][t] \in Nat /\ A[j][t] <= Len(H[t])
  BY <1>0, RecordNumbers, Zenon DEF Stored
<1>4. log' = log /\ \A j \in Server : Len(log[j]) \in Nat
  BY <1>0, LenProperties, Zenon DEF Enters, TypeOK
<1>5. ASSUME NEW j \in Server, NEW t \in D, currentTerm'[j] = t
      PROVE  Same(log'[j], G[t], B[j][t])
  <2>0. /\ currentTerm[j] \in Nat /\ t \in Nat /\ currentTerm[j] <= t /\ A[j][t] \in Nat
        /\ Len(log[j]) \in Nat /\ Len(H[t]) \in Nat
    BY <1>0, <1>3, <1>4, <1>5, Zenon DEF TypeOK, TermsGrow
  <2>1. CASE currentTerm[j] = t
    <3>1. Same(log[j], H[t], A[j][t])
      BY <1>0, <2>1, Zenon DEF Stored
    <3> QED
      BY <1>2, <1>4, <3>1, Zenon
  <2>2. CASE currentTerm[j] # t
    <3>1. ~(currentTerm[j] >= t)
      BY <2>0, <2>2, SMTT(30)
    <3>2. A[j][t] = 0
      BY <1>0, <2>0, <3>1, SMTT(30) DEF Stored
    <3>3. Same(log[j], H[t], 0)
      BY <2>0, SMTT(30) DEF Same
    <3> QED
      BY <1>2, <1>4, <3>2, <3>3, Zenon
  <2> QED
    BY <2>1, <2>2, Zenon
<1>6. ASSUME NEW j \in Server
      PROVE  B[j][u] <= Len(G[u]) /\ Same(log'[j], G[u], B[j][u])
  <2>1. CASE j = i
    BY <1>2, <1>4, <2>1, SMTT(30) DEF Same
  <2>2. CASE j # i
    BY <1>2, <1>4, <2>2, SMTT(30) DEF Same
  <2> QED
    BY <2>1, <2>2, Zenon
<1>7. \A j \in Server : \A t \in E :
        B[j][t] <= Len(G[t]) /\ (currentTerm'[j] = t => Same(log'[j], G[t], B[j][t]))
  BY <1>2, <1>3, <1>5, <1>6, Zenon
<1>8. \A j \in Server : \A t \in D : \A a \in 1..A[j][t] :
        /\ t < currentTerm'[j] /\ Own(H, t, a) /\ Choosable(A, t, a)
        /\ Same(log[j], H[t], a)
        => Same(log'[j], H[t], a)
  BY <1>4, Zenon
<1>9. Stored(E, G, B)'
  BY <1>0, <1>1, <1>7, <1>8, StoredKeep, Zenon
<1>10. ASSUME NEW t \in D, NEW v \in E \ D, NEW a \in 1..Len(H[t]), t < v, Own(H, t, a),
              Choosable(B, t, a)'
       PROVE  Same(G[v], H[t], a)
  <2>1. v = u
    BY <1>2, Zenon
  <2>2. {j \in Server : B[j][t] >= a \/ currentTerm'[j] <= t} =
        {j \in Server : A[j][t] >= a \/ currentTerm'[j] <= t}
    BY <1>2, Zenon
  <2>3. Choosable(A, t, a)'
    BY <1>10, <2>2, Zenon DEF Choosable
  <2>4. Same(log[i], H[t], a)
    BY <1>10, <2>1, <2>3, Zenon DEF Enters
  <2> QED
    BY <1>2, <2>1, <2>4, Zenon
<1>11. \A t \in D : \A v \in E : \A a \in 1..Len(G[t]) :
         t < v /\ a > Len(H[t]) => ~Choosable(B, t, a)'
  BY <1>2, <1>3, SMTT(30)
<1>12. Complete(E, G, B)'
  BY <1>0, <1>1, <1>10, <1>11, CompleteKeep, Zenon
<1> QED
  BY <1>9, <1>12, Zenon

(***************************************************************************)
(* All of it.                                                              *)
(***************************************************************************)
LEMMA EnteringKeeps ==
    ASSUME FiniteFacts,
           NEW D, NEW H, NEW A, NEW i \in Server, NEW u, Enters(D, H, A, i, u), ElectionsNew
    PROVE  \E E, G, B : Recorded(E, G, B) /\ Records(E, G, B)'
<1>0. /\ TypeOK /\ TypeOK' /\ Recorded(D, H, A) /\ Rounds(D, A) /\ Requests(D, H, A)
      /\ Stored(D, H, A) /\ Ballots(D, H, A) /\ Commits(D, H, A) /\ ElectionInv
  BY FromEvolves, Zenon DEF Enters, From, Records
<1>1. u \in Nat \ {0} /\ u \notin D
  BY Zenon DEF Enters
<1>2. PICK E, G, B : Crowned(D, H, A, E, G, B, i, u)
  BY <1>0, <1>1, CrownedRecords, Zenon
<1>3. Recorded(E, G, B) /\ Evolves(D, H, A, E, G, B)
  BY <1>2, CrownedEvolves, Zenon DEF Crowned
<1>4. Leaders(E, G, B)' /\ Logs(E, G)' /\ Stored(E, G, B)' /\ Complete(E, G, B)'
  BY <1>2, CrownedLeaders, CrownedStores, Zenon
<1>5. /\ loop' = [loop EXCEPT ![i] = Idle]
      /\ UNCHANGED <<log, committed, commitIndex, appendReqs, matchIndex>>
      /\ voteReqs \subseteq voteReqs'
      /\ \A v \in votes' : v \in votes \/ v.voter = v.candidate
      /\ \A m \in voteReqs' : m \in voteReqs \/
           /\ m.term <= currentTerm'[m.from]
           /\ m.lastIndex = Len(log'[m.from]) /\ m.lastTerm = LastTerm(log'[m.from])
  BY Zenon DEF Enters
<1>6. Rounds(E, B)'
  BY <1>0, <1>3, <1>5, IdleRound, RoundsStep, Zenon
<1>7. Requests(E, G, B)'
  <2>1. Len(committed) <= Len(committed') /\ \A m \in appendReqs' : m \in appendReqs
    BY <1>0, <1>5, LenProperties DEF TypeOK
  <2> QED
    BY <1>0, <1>3, <2>1, RequestsKeep, ZenonT(30)
<1>8. Ballots(E, G, B)'
  <2>1. \A w \in Server : log'[w] = log[w]
    BY <1>5, Zenon
  <2>2. \A w \in Server : loop'[w].at = "election" =>
          \/ loop[w].at = "election" /\ loop[w].term = loop'[w].term
          \/ loop'[w].term > currentTerm[w]
    BY Zenon DEF ElectionsNew
  <2> QED
    BY <1>0, <1>3, <1>5, <2>1, <2>2, BallotsKeep, Zenon
<1>9. Commits(E, G, B)'
  <2>1. /\ committed' = committed
        /\ \A j \in Server : commitIndex'[j] = commitIndex[j] /\ log'[j] = log[j]
    BY <1>5, Zenon
  <2> QED
    BY <1>0, <1>3, <2>1, CommitsKeep, Zenon
<1> QED
  BY <1>3, <1>4, <1>6, <1>7, <1>8, <1>9, Zenon DEF Records


(***************************************************************************)
(* A single node elects itself at once.                                    *)
(***************************************************************************)
LEMMA StartAloneSafe ==
    ASSUME FiniteFacts,
           NEW D, NEW H, NEW A, From(D, H, A), ElectionsNew, NEW i \in Server, StartElection(i),
           IsQuorum({i})
    PROVE  \E E, G, B : Recorded(E, G, B) /\ Records(E, G, B)'
<1> DEFINE u == currentTerm[i] + 1
           new == {[term |-> u, from |-> i, to |-> j, lastIndex |-> Len(log[i]),
                    lastTerm |-> LastTerm(log[i])] : j \in Peers(i)}
<1>0. TypeOK /\ TypeOK' /\ ElectionInv /\ Leaders(D, H, A) /\ currentTerm[i] \in Nat
  BY FromEvolves, Zenon DEF From, Records, TypeOK
<1>1. /\ votes' = votes \cup {VoteIn(i, u, i)} /\ voteReqs' = voteReqs \cup new
      /\ loop' = [loop EXCEPT ![i] = Idle]
      /\ currentTerm' = [currentTerm EXCEPT ![i] = u]
      /\ role' = [role EXCEPT ![i] = Leader]
      /\ UNCHANGED <<log, committed, commitIndex, appendReqs, matchIndex>>
  BY Zenon DEF StartElection, VoteIn, logVars, peerVars
<1>2. u \in Nat \ {0} /\ ~(u <= currentTerm[i])
  BY <1>0
<1>3. \A m \in new : m.from = i /\ m.term = u /\ m.lastIndex = Len(log[i])
                     /\ m.lastTerm = LastTerm(log[i])
  OBVIOUS
<1> HIDE DEF new, u
<1>4. VoteIn(i, u, i).voter = VoteIn(i, u, i).candidate
  BY Zenon DEF VoteIn
<1>5. /\ currentTerm'[i] = u /\ role'[i] = Leader
      /\ \A j \in Server \ {i} : role'[j] = role[j] /\ currentTerm'[j] = currentTerm[j]
  BY <1>0, <1>1, Zenon DEF TypeOK
<1>6. u \notin D
  <2> SUFFICES ASSUME u \in D PROVE FALSE
    BY Zenon
  <2>1. PICK w \in Server : Won(w, u, votes)
    BY <1>0, Zenon DEF Leaders, Elected
  <2> DEFINE S == {j \in Server : VoteIn(j, u, w) \in votes}
  <2>2. S \in SUBSET Server /\ {i} \in SUBSET Server /\ IsQuorum(S)
    BY <2>1, Zenon DEF Won
  <2> HIDE DEF S
  <2>3. i \in S
    BY <2>2, QuorumsMeet, Zenon
  <2>4. VoteIn(i, u, w) \in votes
    BY <2>3, Zenon DEF S
  <2> QED
    BY <1>0, <1>2, <2>4, VotesAreOfThePast, Zenon
<1>7. ASSUME NEW t \in D, NEW a \in 1..Len(H[t]), t < u, Own(H, t, a), Choosable(A, t, a)'
      PROVE  Same(log[i], H[t], a)
  <2>1. {i} \in SUBSET Server /\ u \in Nat
    BY <1>2, Zenon
  <2>2. \A j \in {i} : u <= currentTerm'[j] /\ j = i
    BY <1>2, <1>5, SMTT(30)
  <2> QED
    BY <1>7, <2>1, <2>2, WinnerHasAll, Zenon
<1>8. /\ voteReqs \subseteq voteReqs' /\ \A v \in votes' : v \in votes \/ v.voter = v.candidate
  BY <1>1, <1>4, Zenon
<1>9. \A m \in voteReqs' : m \in voteReqs \/
        /\ m.term <= currentTerm'[m.from]
        /\ m.lastIndex = Len(log'[m.from]) /\ m.lastTerm = LastTerm(log'[m.from])
  BY <1>1, <1>2, <1>3, <1>5, SMTT(30)
<1>10. Enters(D, H, A, i, u)
  BY <1>1, <1>2, <1>5, <1>6, <1>7, <1>8, <1>9, Zenon DEF Enters
<1> QED
  BY <1>10, EnteringKeeps, Zenon

(***************************************************************************)
(* runCandidate counts the vote that makes the quorum.                     *)
(***************************************************************************)
LEMMA WinElectionSafe ==
    ASSUME FiniteFacts, NEW D, NEW H, NEW A, From(D, H, A), ElectionsNew, NEW i \in Server,
           NEW m \in loop[i].ballots, CollectVote(i, m), role'[i] = Leader, role[i] # Leader
    PROVE  \E E, G, B : Recorded(E, G, B) /\ Records(E, G, B)'
<1> DEFINE u == loop[i].term
<1>0. /\ TypeOK /\ TypeOK' /\ ElectionInv /\ ElectionInv' /\ LeadersElected'
      /\ Leaders(D, H, A) /\ Ballots(D, H, A) /\ VotesKept
  BY FromEvolves, Zenon DEF From, Records, ElectionInv
<1>1. /\ loop[i].at = "election" /\ loop' = [loop EXCEPT ![i] = Idle]
      /\ role' = [role EXCEPT ![i] = Leader] /\ currentTerm[i] = u
      /\ UNCHANGED <<currentTerm, log, committed, commitIndex, matchIndex,
                     voteReqs, appendReqs, votes>>
  <2> DEFINE got == loop[i].grants \cup (IF m.granted THEN {m.from} ELSE {})
             won == IsQuorum(got \cup {i})
             lp == [loop[i] EXCEPT !.grants = got, !.ballots = @ \ {m}]
  <2>1. /\ loop[i].at = "election" /\ loop' = [loop EXCEPT ![i] = IF won THEN Idle ELSE lp]
        /\ role' = [role EXCEPT ![i] = IF won /\ currentTerm[i] = u THEN Leader ELSE role[i]]
        /\ UNCHANGED <<currentTerm, log, committed, commitIndex, matchIndex,
                       voteReqs, appendReqs, votes>>
    BY Zenon DEF CollectVote, logVars, peerVars
  <2> HIDE DEF won, lp
  <2>2. won /\ currentTerm[i] = u
    BY <1>0, <2>1, Zenon DEF TypeOK
  <2> QED
    BY <2>1, <2>2, Zenon
<1>2. u \in Nat \ {0}
  <2>1. u \in Nat /\ u > 0
    BY <1>0, <1>1, Zenon DEF TypeOK, Loop, Ballots
  <2> QED
    BY <2>1, SMTT(30)
<1> HIDE DEF u
<1>3. /\ currentTerm'[i] = u
      /\ \A j \in Server \ {i} : role'[j] = role[j] /\ currentTerm'[j] = currentTerm[j]
  BY <1>0, <1>1, Zenon DEF TypeOK
<1>4. Won(i, u, votes)
  BY <1>0, <1>1, <1>3, Zenon DEF LeadersElected, Elected
<1>5. u \notin D
  <2> SUFFICES ASSUME u \in D PROVE FALSE
    BY Zenon
  <2>1. PICK w \in Server : Elected(w, u)
    BY <1>0, Zenon DEF Leaders
  <2>2. w = i
    BY <1>0, <1>4, <2>1, OneWinner, Zenon DEF Elected
  <2> QED
    BY <1>1, <2>1, <2>2, Zenon DEF Elected, u
<1> DEFINE S == {j \in Server : VoteIn(j, u, i) \in votes}
<1>6. S \in SUBSET Server /\ IsQuorum(S)
  BY <1>4, Zenon DEF Won
<1>7. ASSUME NEW j \in S
      PROVE  /\ u <= currentTerm'[j]
             /\ j = i \/ \E q \in voteReqs : /\ q.lastIndex = Len(log[i])
                                             /\ q.lastTerm = LastTerm(log[i])
                                             /\ q.term = u /\ UpToDate(D, H, A, q, j)
  <2>0. j \in Server /\ VoteIn(j, u, i) \in votes
    BY Zenon
  <2>1. u <= currentTerm[j]
    BY <1>0, <2>0, VotesAreOfThePast, Zenon
  <2>2. ASSUME j # i
        PROVE  \E q \in voteReqs : /\ q.lastIndex = Len(log[i]) /\ q.lastTerm = LastTerm(log[i])
                                   /\ q.term = u /\ UpToDate(D, H, A, q, j)
    <3>1. VoteIn(j, u, i).voter = j /\ VoteIn(j, u, i).candidate = i /\ VoteIn(j, u, i).term = u
      BY Zenon DEF VoteIn
    <3>2. PICK q \in voteReqs : q.from = i /\ q.term = u /\ UpToDate(D, H, A, q, j)
      BY <1>0, <2>0, <2>2, <3>1, Zenon DEF Ballots
    <3>3. loop[q.from].at = "election" /\ loop[q.from].term = q.term /\ currentTerm[q.from] = q.term
      BY <1>1, <3>2, Zenon DEF u
    <3>4. q.lastIndex = Len(log[i]) /\ q.lastTerm = LastTerm(log[i])
      BY <1>0, <1>5, <3>2, <3>3, Zenon DEF Ballots
    <3> QED
      BY <3>2, <3>4, Zenon
  <2> QED
    BY <1>1, <2>1, <2>2, Zenon
<1> HIDE DEF S
<1>8. ASSUME NEW t \in D, NEW a \in 1..Len(H[t]), t < u, Own(H, t, a), Choosable(A, t, a)'
      PROVE  Same(log[i], H[t], a)
  <2>1. u \in Nat
    BY <1>2, Zenon
  <2> QED
    BY <1>6, <1>7, <1>8, <2>1, WinnerHasAll, Zenon
<1>9. Enters(D, H, A, i, u)
  BY <1>1, <1>2, <1>3, <1>5, <1>8, Zenon DEF Enters
<1> QED
  BY <1>9, EnteringKeeps, Zenon


-----------------------------------------------------------------------------
(* A proposal *)

(***************************************************************************)
(* The Leader i of term u appends e: the log of the term grows, and the    *)
(* Leader has stored it.                                                   *)
(***************************************************************************)
Grown(D, H, A, G, B, i, u, e) ==
    /\ Recorded(D, G, B) /\ G[u] = Append(H[u], e) /\ B[i][u] = Len(H[u]) + 1
    /\ \A t \in D \ {u} : G[t] = H[t]
    /\ \A j \in Server : \A t \in D : (j = i /\ t = u) \/ B[j][t] = A[j][t]

(***************************************************************************)
(* A Leader adds an entry of its term to its log and does nothing else, as *)
(* Propose does.                                                           *)
(***************************************************************************)
Proposes(D, H, A, i, u, e) ==
    /\ From(D, H, A) /\ u \in D /\ role[i] = Leader /\ currentTerm[i] = u /\ log[i] = H[u]
    /\ e \in Entry /\ e.term = u /\ log' = [log EXCEPT ![i] = Append(H[u], e)]
    /\ UNCHANGED <<role, currentTerm, loop, matchIndex, commitIndex, committed,
                   voteReqs, appendReqs, votes>>

(***************************************************************************)
(* Records with that entry exist.                                          *)
(***************************************************************************)
LEMMA GrownRecords ==
    ASSUME NEW D, NEW H, NEW A, NEW i \in Server, NEW u \in D, NEW e \in Entry, Recorded(D, H, A)
    PROVE  \E G, B : Grown(D, H, A, G, B, i, u, e)
<1> DEFINE G == [H EXCEPT ![u] = Append(H[u], e)]
           B == Raised(A, i, u, Len(H[u]) + 1)
<1>0. /\ D \in SUBSET (Nat \ {0}) /\ H \in [Nat -> Seq(Entry)] /\ A \in [Server -> [Nat -> Nat]]
      /\ u \in Nat /\ H[u] \in Seq(Entry) /\ Len(H[u]) \in Nat
  BY RecordNumbers, Zenon DEF Recorded
<1>1. Append(H[u], e) \in Seq(Entry)
  BY <1>0, AppendProperties, Zenon
<1>2. G \in [Nat -> Seq(Entry)] /\ G[u] = Append(H[u], e) /\ \A t \in D \ {u} : G[t] = H[t]
  BY <1>0, <1>1, Zenon
<1>3. B \in [Server -> [Nat -> Nat]] /\ B[i][u] = Len(H[u]) + 1
  <2> DEFINE n == Len(H[u]) + 1
  <2>1. n \in Nat
    BY <1>0
  <2> HIDE DEF n
  <2>2. [A[i] EXCEPT ![u] = n] \in [Nat -> Nat] /\ [A[i] EXCEPT ![u] = n][u] = n
    BY <1>0, <2>1, Zenon
  <2>3. /\ Raised(A, i, u, n) \in [Server -> [Nat -> Nat]]
        /\ Raised(A, i, u, n)[i] = [A[i] EXCEPT ![u] = n]
    BY <1>0, <2>2, Zenon DEF Raised
  <2> QED
    BY <2>2, <2>3, Zenon DEF n
<1>4. \A j \in Server : \A t \in D : (j = i /\ t = u) \/ B[j][t] = A[j][t]
  BY <1>0, Zenon DEF Raised
<1> HIDE DEF G, B
<1>5. Grown(D, H, A, G, B, i, u, e)
  BY <1>0, <1>2, <1>3, <1>4, Zenon DEF Grown, Recorded
<1> QED
  BY <1>5, Zenon

(***************************************************************************)
(* The longer log begins with the old one.                                 *)
(***************************************************************************)
LEMMA GrownLog ==
    ASSUME NEW D, NEW H, NEW A, NEW G, NEW B, NEW i \in Server, NEW u, NEW e,
           Proposes(D, H, A, i, u, e), Grown(D, H, A, G, B, i, u, e)
    PROVE  /\ u \in Nat /\ H[u] \in Seq(Entry) /\ Len(H[u]) \in Nat /\ G[u] \in Seq(Entry)
           /\ Len(G[u]) = Len(H[u]) + 1 /\ G[u][Len(H[u]) + 1].term = u
           /\ Same(G[u], H[u], Len(H[u])) /\ Same(H[u], G[u], Len(H[u]))
           /\ log'[i] = G[u] /\ log[i] = H[u] /\ \A j \in Server \ {i} : log'[j] = log[j]
<1>0. TypeOK /\ Recorded(D, H, A)
  BY FromEvolves, Zenon DEF Proposes, From
<1>1. u \in Nat /\ H[u] \in Seq(Entry) /\ Len(H[u]) \in Nat
  BY <1>0, RecordNumbers, Zenon DEF Proposes
<1>2. e \in Entry /\ e.term = u /\ G[u] = Append(H[u], e) /\ log' = [log EXCEPT ![i] = G[u]]
      /\ log[i] = H[u]
  BY Zenon DEF Proposes, Grown
<1>3. /\ G[u] \in Seq(Entry) /\ Len(G[u]) = Len(H[u]) + 1 /\ G[u][Len(H[u]) + 1] = e
      /\ \A k \in 1..Len(H[u]) : G[u][k] = H[u][k]
  BY <1>1, <1>2, AppendProperties, SMTT(30)
<1>4. Same(G[u], H[u], Len(H[u])) /\ Same(H[u], G[u], Len(H[u]))
  BY <1>1, <1>3, SMTT(30) DEF Same
<1>5. log'[i] = G[u] /\ \A j \in Server \ {i} : log'[j] = log[j]
  BY <1>0, <1>2, Zenon DEF TypeOK
<1> QED
  BY <1>1, <1>2, <1>3, <1>4, <1>5, Zenon

(***************************************************************************)
(* They are an evolution of the ones before.                               *)
(***************************************************************************)
LEMMA GrownEvolves ==
    ASSUME NEW D, NEW H, NEW A, NEW G, NEW B, NEW i \in Server, NEW u, NEW e,
           Proposes(D, H, A, i, u, e), Grown(D, H, A, G, B, i, u, e)
    PROVE  Evolves(D, H, A, D, G, B)
<1>0. /\ TypeOK /\ TypeOK' /\ TermsGrow /\ Recorded(D, H, A) /\ Stored(D, H, A)
      /\ u \in D /\ currentTerm[i] = u /\ currentTerm' = currentTerm
  BY FromEvolves, Zenon DEF Proposes, From, Records
<1>1. /\ Recorded(D, G, B) /\ B[i][u] = Len(H[u]) + 1
      /\ \A t \in D \ {u} : G[t] = H[t]
      /\ \A j \in Server : \A t \in D : (j = i /\ t = u) \/ B[j][t] = A[j][t]
  BY Zenon DEF Grown
<1>2. \A t \in D : Len(H[t]) \in Nat /\ \A j \in Server : A[j][t] \in Nat /\ A[j][t] <= Len(H[t])
  BY <1>0, RecordNumbers, Zenon DEF Stored
<1>3. \A t \in D : Same(G[t], H[t], Len(H[t]))
  <2>1. Same(G[u], H[u], Len(H[u]))
    BY GrownLog, Zenon
  <2>2. \A t \in D \ {u} : Same(G[t], H[t], Len(H[t]))
    BY <1>1, <1>2 DEF Same
  <2> QED
    BY <2>1, <2>2, Zenon
<1>4. ASSUME NEW j \in Server, NEW t \in D
      PROVE  A[j][t] <= B[j][t] /\ (A[j][t] # B[j][t] => currentTerm[j] <= t /\ currentTerm'[j] = t)
  <2>1. CASE j = i /\ t = u
    <3>1. u \in Nat /\ A[i][u] <= B[i][u]
      BY <1>0, <1>1, <1>2, RecordNumbers, SMTT(30)
    <3> QED
      BY <1>0, <2>1, <3>1
  <2>2. CASE B[j][t] = A[j][t]
    BY <1>2, <2>2
  <2> QED
    BY <1>1, <2>1, <2>2, Zenon
<1> QED
  BY <1>0, <1>1, <1>3, <1>4, Zenon DEF Evolves

(***************************************************************************)
(* The log of the term, which is that of its Leader and of no other.       *)
(***************************************************************************)
LEMMA GrownLeaders ==
    ASSUME FiniteFacts, NEW D, NEW H, NEW A, NEW G, NEW B, NEW i \in Server, NEW u, NEW e,
           Proposes(D, H, A, i, u, e), Grown(D, H, A, G, B, i, u, e)
    PROVE  Leaders(D, G, B)' /\ Logs(D, G)'
<1>0. /\ TypeOK /\ TypeOK' /\ Recorded(D, H, A) /\ Leaders(D, H, A) /\ Logs(D, H)
      /\ ElectedKept /\ LeadersElected /\ VotesKept /\ Stored(D, H, A)
  BY FromEvolves, Zenon DEF Proposes, From, Records, ElectionInv
<1>1. Evolves(D, H, A, D, G, B)
  BY GrownEvolves, Zenon
<1>2. /\ B[i][u] = Len(H[u]) + 1 /\ \A t \in D \ {u} : G[t] = H[t]
      /\ \A j \in Server : \A t \in D : (j = i /\ t = u) \/ B[j][t] = A[j][t]
  BY Zenon DEF Grown
<1>3. /\ u \in Nat /\ H[u] \in Seq(Entry) /\ Len(H[u]) \in Nat /\ G[u] \in Seq(Entry)
      /\ Len(G[u]) = Len(H[u]) + 1 /\ G[u][Len(H[u]) + 1].term = u
      /\ Same(G[u], H[u], Len(H[u])) /\ log'[i] = G[u]
      /\ \A j \in Server \ {i} : log'[j] = log[j]
  BY GrownLog, SMTT(30)
<1>4. u \in D /\ role[i] = Leader /\ currentTerm[i] = u /\ UNCHANGED <<role, currentTerm>>
  BY Zenon DEF Proposes
<1>5. Made(D, G, H[u]) /\ \A k \in 1..Len(H[u]) : H[u][k].term <= u
  BY <1>0, <1>1, <1>3, <1>4, MadeKeeps, Zenon DEF Leaders
<1>6. ASSUME NEW k \in 1..Len(G[u])
      PROVE  G[u][k].term \in D /\ Same(G[u], G[G[u][k].term], k) /\ G[u][k].term <= u
  <2>1. CASE k \in 1..Len(H[u])
    <3>1. G[u][k] = H[u][k] /\ Same(G[u], H[u], k)
      BY <1>3, <2>1, SMTT(30) DEF Same
    <3>2. H[u][k].term \in D /\ Same(H[u], G[H[u][k].term], k) /\ H[u][k].term <= u
      BY <1>5, <2>1, Zenon DEF Made
    <3> QED
      BY <3>1, <3>2, SameJoins, Zenon
  <2>2. CASE k = Len(H[u]) + 1
    <3>1. Same(G[u], G[u], k)
      BY <1>3, <2>2, SMTT(30) DEF Same
    <3> QED
      BY <1>3, <1>4, <2>2, <3>1, SMTT(30)
  <2> QED
    BY <1>3, <2>1, <2>2, SMTT(30)
<1>7. Made(D, G, G[u]) /\ \A k \in 1..Len(G[u]) : G[u][k].term <= u
  BY <1>6, Zenon DEF Made
<1>8. Logs(D, G)'
  <2>1. \A j \in Server : \/ log'[j] = log[j]
                          \/ /\ Made(D, G, log'[j])
                             /\ \A k \in 1..Len(log'[j]) : log'[j][k].term <= currentTerm'[j]
    BY <1>3, <1>4, <1>7, Zenon
  <2> QED
    BY <1>0, <1>1, <2>1, LogsKeep, Zenon
<1>9. ASSUME NEW t \in D
      PROVE  /\ \E w \in Server : Elected(w, t)' /\ B[w][t] = Len(G[t])
             /\ Made(D, G, G[t]) /\ \A k \in 1..Len(G[t]) : G[t][k].term <= t
  <2>1. CASE t = u
    <3>1. Elected(i, u)'
      BY <1>0, <1>3, <1>4, Zenon DEF LeadersElected, ElectedKept
    <3> QED
      BY <1>2, <1>3, <1>7, <2>1, <3>1, Zenon
  <2>2. CASE t # u
    <3>1. /\ t \in Nat /\ G[t] = H[t] /\ H[t] \in Seq(Entry)
          /\ \A j \in Server : B[j][t] = A[j][t]
      BY <1>0, <1>2, <2>2, RecordNumbers, Zenon
    <3>2. PICK w \in Server : Elected(w, t) /\ A[w][t] = Len(H[t])
      BY <1>0, Zenon DEF Leaders
    <3>3. Elected(w, t)' /\ B[w][t] = Len(G[t])
      BY <1>0, <3>1, <3>2, Zenon DEF ElectedKept
    <3>4. Made(D, H, H[t]) /\ \A k \in 1..Len(H[t]) : H[t][k].term <= t
      BY <1>0, Zenon DEF Leaders
    <3>5. Made(D, G, H[t])
      BY <1>1, <3>1, <3>4, MadeKeeps, Zenon
    <3> QED
      BY <3>1, <3>3, <3>4, <3>5, Zenon
  <2> QED
    BY <2>1, <2>2, Zenon
<1>10. ASSUME NEW j \in Server, role'[j] = Leader
       PROVE  currentTerm'[j] \in D /\ log'[j] = G[currentTerm'[j]]
  <2>1. CASE j = i
    BY <1>3, <1>4, <2>1, Zenon
  <2>2. CASE j # i
    <3>1. role[j] = Leader /\ currentTerm'[j] = currentTerm[j] /\ log'[j] = log[j]
      BY <1>3, <1>4, <1>10, <2>2, Zenon
    <3>2. currentTerm[j] # u
      <4>1. Won(i, u, votes) /\ Won(j, currentTerm[j], votes)
        BY <1>0, <1>4, <3>1, Zenon DEF LeadersElected, Elected
      <4> QED
        BY <1>0, <2>2, <4>1, OneWinner, Zenon
    <3>3. currentTerm[j] \in D /\ log[j] = H[currentTerm[j]]
      BY <1>0, <3>1, Zenon DEF Leaders
    <3> QED
      BY <1>2, <3>1, <3>2, <3>3, Zenon
  <2> QED
    BY <2>1, <2>2, Zenon
<1>11. Leaders(D, G, B)'
  BY <1>9, <1>10, Zenon DEF Leaders
<1> QED
  BY <1>8, <1>11, Zenon


(***************************************************************************)
(* What is stored; and the new entry cannot have been committed behind the *)
(* back of a later Leader, whose voters have left the term.                *)
(***************************************************************************)
LEMMA GrownStores ==
    ASSUME FiniteFacts, NEW D, NEW H, NEW A, NEW G, NEW B, NEW i \in Server, NEW u, NEW e,
           Proposes(D, H, A, i, u, e), Grown(D, H, A, G, B, i, u, e)
    PROVE  Stored(D, G, B)' /\ Complete(D, G, B)'
<1>0. /\ TypeOK /\ TypeOK' /\ Recorded(D, H, A) /\ Stored(D, H, A) /\ Complete(D, H, A)
      /\ Leaders(D, H, A) /\ ElectionInv
  BY FromEvolves, Zenon DEF Proposes, From, Records
<1>1. Evolves(D, H, A, D, G, B)
  BY GrownEvolves, Zenon
<1>2. /\ B[i][u] = Len(H[u]) + 1 /\ \A t \in D \ {u} : G[t] = H[t]
      /\ \A j \in Server : \A t \in D : (j = i /\ t = u) \/ B[j][t] = A[j][t]
  BY Zenon DEF Grown
<1>3. /\ u \in Nat /\ Len(H[u]) \in Nat /\ Len(G[u]) = Len(H[u]) + 1
      /\ Same(H[u], G[u], Len(H[u])) /\ log'[i] = G[u] /\ log[i] = H[u]
      /\ \A j \in Server \ {i} : log'[j] = log[j]
  BY GrownLog, SMTT(30)
<1>4. u \in D /\ currentTerm[i] = u /\ UNCHANGED <<currentTerm, votes>>
  BY Zenon DEF Proposes
<1>5. \A t \in D : /\ t \in Nat /\ Len(H[t]) \in Nat /\ Len(G[t]) \in Nat /\ Len(H[t]) <= Len(G[t])
                   /\ \A j \in Server : A[j][t] \in Nat /\ A[j][t] <= Len(H[t])
  BY <1>0, <1>1, EvolvesNumbers, Zenon DEF Stored
<1>6. ASSUME NEW j \in Server, NEW t \in D
      PROVE  B[j][t] <= Len(G[t]) /\ (currentTerm'[j] = t => Same(log'[j], G[t], B[j][t]))
  <2>1. CASE j = i /\ t = u
    BY <1>2, <1>3, <2>1, SMTT(30) DEF Same
  <2>2. CASE ~(j = i /\ t = u)
    <3>1. B[j][t] = A[j][t]
      BY <1>2, <2>2, Zenon
    <3>2. B[j][t] <= Len(G[t])
      BY <1>5, <3>1, SMTT(30)
    <3>3. ASSUME currentTerm'[j] = t PROVE Same(log'[j], G[t], A[j][t])
      <4>1. currentTerm[j] = t /\ j # i /\ log'[j] = log[j]
        BY <1>3, <1>4, <2>2, <3>3, Zenon
      <4>2. Same(log[j], H[t], A[j][t])
        BY <1>0, <4>1, Zenon DEF Stored
      <4>3. A[j][t] \in Nat
        BY <1>5, Zenon
      <4> QED
        BY <1>1, <4>1, <4>2, <4>3, SameKeeps, Zenon
    <3> QED
      BY <3>1, <3>2, <3>3, Zenon
  <2> QED
    BY <2>1, <2>2, Zenon
<1>7. ASSUME NEW j \in Server, NEW t \in D, NEW a \in 1..A[j][t], Same(log[j], H[t], a)
      PROVE  Same(log'[j], H[t], a)
  <2>1. CASE j = i
    <3>1. a \in Nat /\ a <= Len(H[u])
      BY <1>3, <1>5, <1>7, <2>1, SMTT(30) DEF Same
    <3>2. Same(G[u], H[u], a)
      BY <1>3, <3>1, SMTT(30) DEF Same
    <3> QED
      BY <1>3, <1>7, <2>1, <3>2, SameJoins, Zenon
  <2>2. CASE j # i
    BY <1>3, <1>7, <2>2, Zenon
  <2> QED
    BY <2>1, <2>2, Zenon
<1>8. Stored(D, G, B)'
  <2>1. \A j \in Server : \A t \in D : \A a \in 1..A[j][t] :
          /\ t < currentTerm'[j] /\ Own(H, t, a) /\ Choosable(A, t, a)
          /\ Same(log[j], H[t], a)
          => Same(log'[j], H[t], a)
    BY <1>7, Zenon
  <2> QED
    BY <1>0, <1>1, <1>6, <2>1, StoredKeep, Zenon
<1>9. ASSUME NEW t \in D, NEW v \in D, NEW a \in 1..Len(G[t]), t < v, a > Len(H[t]),
             Choosable(B, t, a)'
      PROVE  FALSE
  <2>1. t = u
    BY <1>2, <1>5, <1>9, SMTT(30)
  <2>2. PICK w \in Server : Won(w, v, votes)
    BY <1>0, Zenon DEF Leaders, Elected
  <2> DEFINE S == {j \in Server : VoteIn(j, v, w) \in votes}
             T == {j \in Server : B[j][t] >= a \/ currentTerm'[j] <= t}
  <2>3. S \in SUBSET Server /\ T \in SUBSET Server /\ IsQuorum(S) /\ IsQuorum(T)
    BY <1>9, <2>2, Zenon DEF Won, Choosable
  <2> HIDE DEF S, T
  <2>4. PICK j \in Server : j \in S /\ j \in T
    BY <2>3, QuorumsMeet, Zenon
  <2>5. VoteIn(j, v, w) \in votes /\ (B[j][t] >= a \/ currentTerm[j] <= t)
    BY <1>4, <2>4, Zenon DEF S, T
  <2>6. v <= currentTerm[j] /\ currentTerm[j] \in Nat /\ t \in Nat /\ v \in Nat
    BY <1>0, <1>5, <2>5, VotesAreOfThePast, Zenon DEF TypeOK
  <2>7. j # i
    BY <1>4, <1>9, <2>1, <2>6, SMTT(30)
  <2>8. B[j][t] = A[j][t] /\ A[j][t] <= Len(H[t]) /\ A[j][t] \in Nat /\ Len(H[t]) \in Nat
    BY <1>2, <1>5, <2>7, Zenon
  <2>9. B[j][t] >= a /\ a \in Nat
    BY <1>5, <1>9, <2>5, <2>6, SMTT(30)
  <2> QED
    BY <1>9, <2>8, <2>9, SMTT(30)
<1>10. Complete(D, G, B)'
  <2>1. \A t \in D : \A v \in D : \A a \in 1..Len(G[t]) :
          t < v /\ a > Len(H[t]) => ~Choosable(B, t, a)'
    BY <1>9, Zenon
  <2> QED
    BY <1>0, <1>1, <2>1, CompleteKeep, Zenon
<1> QED
  BY <1>8, <1>10, Zenon

(***************************************************************************)
(* proposeEntry.                                                           *)
(***************************************************************************)
LEMMA ProposeSafe ==
    ASSUME FiniteFacts,
           NEW D, NEW H, NEW A, From(D, H, A), NEW i \in Server, NEW c \in Command, Propose(i, c)
    PROVE  \E G, B : Recorded(D, G, B) /\ Records(D, G, B)'
<1> DEFINE u == currentTerm[i]
           e == [term |-> u, cmd |-> c]
<1>0. /\ TypeOK /\ TypeOK' /\ Recorded(D, H, A) /\ Leaders(D, H, A) /\ Stored(D, H, A)
      /\ Rounds(D, A) /\ Requests(D, H, A) /\ Ballots(D, H, A) /\ Commits(D, H, A) /\ ElectionInv
  BY FromEvolves, Zenon DEF From, Records
<1>1. /\ role[i] = Leader /\ log' = [log EXCEPT ![i] = Append(log[i], e)]
      /\ UNCHANGED <<role, currentTerm, loop, matchIndex, commitIndex, committed,
                     voteReqs, appendReqs, votes>>
  BY Zenon DEF Propose, nodeVars, peerVars
<1>2. e \in Entry /\ e.term = u
  BY <1>0, Zenon DEF TypeOK, Entry
<1> HIDE DEF e
<1>3. u \in D /\ log[i] = H[u]
  BY <1>0, <1>1, Zenon DEF Leaders
<1>4. Proposes(D, H, A, i, u, e)
  BY <1>1, <1>2, <1>3, Zenon DEF Proposes
<1>5. PICK G, B : Grown(D, H, A, G, B, i, u, e)
  BY <1>0, <1>2, <1>3, GrownRecords, ZenonT(30)
<1> HIDE DEF u
<1>6. Recorded(D, G, B) /\ Evolves(D, H, A, D, G, B)
  BY <1>4, <1>5, GrownEvolves, SMTT(30) DEF Grown
<1>7. Leaders(D, G, B)' /\ Logs(D, G)' /\ Stored(D, G, B)' /\ Complete(D, G, B)'
  BY <1>4, <1>5, GrownLeaders, GrownStores, Zenon
<1>8. Rounds(D, B)'
  BY <1>0, <1>1, <1>6, RoundsStay, Zenon
<1>9. Requests(D, G, B)'
  <2>1. Len(committed) <= Len(committed') /\ \A m \in appendReqs' : m \in appendReqs
    BY <1>0, <1>1, LenProperties, SMTT(30) DEF TypeOK
  <2> QED
    BY <1>0, <1>6, <2>1, RequestsKeep, Zenon
<1>10. /\ Len(H[u]) \in Nat /\ Same(H[u], G[u], Len(H[u])) /\ log'[i] = G[u]
       /\ \A j \in Server \ {i} : log'[j] = log[j]
  BY <1>4, <1>5, GrownLog, SMTT(30)
<1>11. Ballots(D, G, B)'
  <2>1. \A w \in Server : log'[w] = log[w] \/ currentTerm'[w] \in D
    BY <1>1, <1>3, <1>10, Zenon DEF u
  <2>2. \A w \in Server : loop'[w].at = "election" =>
          loop[w].at = "election" /\ loop[w].term = loop'[w].term
    BY <1>1, Zenon
  <2>3. voteReqs' = voteReqs /\ votes' = votes
    BY <1>1, Zenon
  <2> QED
    BY <1>0, <1>6, <2>1, <2>2, <2>3, BallotsKeep, Zenon
<1>12. Commits(D, G, B)'
  <2>1. Same(log[i], committed, commitIndex[i])
    BY <1>0, Zenon DEF Commits
  <2>2. Same(G[u], committed, commitIndex[i])
    <3>1. commitIndex[i] \in Nat /\ commitIndex[i] <= Len(H[u])
      <4>1. commitIndex[i] \in Nat
        BY <1>0, Zenon DEF TypeOK
      <4>2. log[i] = H[u]
        BY <1>3, Zenon
      <4> QED
        BY <2>1, <4>1, <4>2, Zenon DEF Same
    <3>2. Same(G[u], H[u], commitIndex[i])
      <4>1. Len(G[u]) \in Nat
        BY <1>6, EvolvesNumbers
      <4> QED
        BY <1>10, <3>1, <4>1, SameShorter, SameSwaps, Zenon
    <3> QED
      BY <1>3, <2>1, <3>2, SameJoins, Zenon
  <2>3. \A j \in Server : /\ commitIndex'[j] = commitIndex[j]
                          /\ log'[j] = log[j] \/ Same(log'[j], committed, commitIndex[j])
    BY <1>1, <1>10, <2>2, Zenon
  <2>4. committed' = committed
    BY <1>1, Zenon
  <2> QED
    BY <1>0, <1>6, <2>3, <2>4, CommitsKeep, Zenon
<1> QED
  BY <1>6, <1>7, <1>8, <1>9, <1>11, <1>12, Zenon DEF Records
=============================================================================
