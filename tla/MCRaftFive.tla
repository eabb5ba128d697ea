----------------------------- MODULE MCRaftFive -----------------------------
(***************************************************************************)
(* Five nodes of RaftCore for TLC, starting from a reachable state with    *)
(* two leaders that do not know yet that their terms are over.             *)
(***************************************************************************)
EXTENDS RaftCore, TLC

CONSTANTS n1, n2, n3, n4, n5

VotesFor(c, t, S) == {[voter |-> i, term |-> t, candidate |-> c] : i \in S}

(* The AppendEntries an elected node with an empty log sends first.        *)
FirstAppend(i, t, j, entries) ==
    [term |-> t, from |-> i, to |-> j, prevIndex |-> 0, prevTerm |-> 0,
     entries |-> entries, commit |-> 0]

(***************************************************************************)
(* n3 leads term 1 and waits for n1 to answer a heartbeat.  n4 leads term  *)
(* 2 and has stored an entry; of its AppendEntries only the one to n3 is   *)
(* still under way.  n1 has just won term 3 with the votes of n2 and n5.   *)
(***************************************************************************)
TwoStaleLeaders ==
    \E c \in Command :
      LET heartbeat == FirstAppend(n3, 1, n1, << >>)
          stored == <<[term |-> 2, cmd |-> c]>>
      IN
      /\ currentTerm = (n1 :> 3 @@ n2 :> 3 @@ n3 :> 1 @@ n4 :> 2 @@ n5 :> 3)
      /\ votedFor = (n1 :> n1 @@ n2 :> n1 @@ n3 :> n3 @@ n4 :> n4 @@ n5 :> n1)
      /\ role = [i \in Server |-> IF i \in {n1, n3, n4} THEN Leader ELSE Follower]
      /\ meta = [i \in Server |-> [term |-> currentTerm[i], votedFor |-> votedFor[i]]]
      /\ log = [i \in Server |-> IF i = n4 THEN stored ELSE << >>]
      /\ commitIndex = [i \in Server |-> 0]
      /\ nextIndex = [i \in Server |-> EveryPeerAt(1)]
      /\ matchIndex = [i \in Server |-> EveryPeerAt(0)]
      /\ loop = [i \in Server |->
                   CASE i = n3 -> [LoopAt("round", 1) EXCEPT !.open = {heartbeat}]
                     [] i = n4 -> LoopAt("sending", 2)
                     [] OTHER -> Idle]
      /\ voteReqs = {}
      /\ appendReqs = {heartbeat, FirstAppend(n4, 2, n3, stored)}
      /\ votes = VotesFor(n3, 1, {n3, n4, n5}) \cup VotesFor(n4, 2, {n4, n5, n2})
                 \cup VotesFor(n1, 3, {n1, n2, n5})
      /\ committed = << >>

StaleLeadersSpec == TwoStaleLeaders /\ [][Next]_vars

=============================================================================
