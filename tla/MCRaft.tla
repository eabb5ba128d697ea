------------------------------- MODULE MCRaft -------------------------------
(***************************************************************************)
(* Instances of RaftCore for TLC: three nodes, and reachable states from  *)
(* which a run may start instead of Init.                                  *)
(***************************************************************************)
EXTENDS RaftRefinement, TLC

CONSTANTS n1, n2, n3

(* Nodes are interchangeable as long as no bound singles some of them out. *)
Symmetry ==
    {p \in Permutations(Server) :
        /\ {p[i] : i \in Electable} = Electable
        /\ {p[i] : i \in Crashable} = Crashable}

VoteOf(i, t, c) == [voter |-> i, term |-> t, candidate |-> c]

(***************************************************************************)
(* n1 has just won term 1 with the vote of n2; n3 has not heard of it.     *)
(***************************************************************************)
ElectedInit ==
    /\ currentTerm = (n1 :> 1 @@ n2 :> 1 @@ n3 :> 0)
    /\ votedFor = (n1 :> n1 @@ n2 :> n1 @@ n3 :> Nil)
    /\ role = (n1 :> Leader @@ n2 :> Follower @@ n3 :> Follower)
    /\ meta = [i \in Server |-> [term |-> currentTerm[i], votedFor |-> votedFor[i]]]
    /\ log = [i \in Server |-> << >>]
    /\ commitIndex = [i \in Server |-> 0]
    /\ nextIndex = [i \in Server |-> EveryPeerAt(1)]
    /\ matchIndex = [i \in Server |-> EveryPeerAt(0)]
    /\ loop = [i \in Server |-> Idle]
    /\ voteReqs = {} /\ appendReqs = {}
    /\ votes = {VoteOf(n1, 1, n1), VoteOf(n2, 1, n1)}
    /\ committed = << >>

ElectedSpec == ElectedInit /\ [][Next]_vars

(***************************************************************************)
(* n1 led term 1 and stored an entry nobody else has; n2 led term 2 and    *)
(* stored an entry nobody else has; all three restarted, and n1 has just   *)
(* won term 3 with the vote of n3 (n2 refused it, its log is newer).       *)
(***************************************************************************)
RecoveredInit ==
    /\ currentTerm = [i \in Server |-> 3]
    /\ votedFor = (n1 :> n1 @@ n2 :> Nil @@ n3 :> n1)
    /\ role = (n1 :> Leader @@ n2 :> Follower @@ n3 :> Follower)
    /\ meta = [i \in Server |-> [term |-> 3, votedFor |-> votedFor[i]]]
    /\ \E c \in Command : log = (n1 :> <<[term |-> 1, cmd |-> c]>>
                              @@ n2 :> <<[term |-> 2, cmd |-> c]>>
                              @@ n3 :> << >>)
    /\ commitIndex = [i \in Server |-> 0]
    /\ nextIndex = [i \in Server |-> EveryPeerAt(1)]
    /\ matchIndex = [i \in Server |-> EveryPeerAt(0)]
    /\ loop = [i \in Server |-> Idle]
    /\ voteReqs = {} /\ appendReqs = {}
    /\ votes = {VoteOf(n1, 1, n1), VoteOf(n3, 1, n1), VoteOf(n2, 2, n2), VoteOf(n3, 2, n2),
                VoteOf(n1, 3, n1), VoteOf(n3, 3, n1)}
    /\ committed = << >>

RecoveredSpec == RecoveredInit /\ [][Next]_vars

(***************************************************************************)
(* The same, later: n1 has sent two rounds and n3 has answered the first;   *)
(* the role check of its third tick has passed.  Before it takes the lock  *)
(* again n2 wins term 4 with the vote of n1.                               *)
(***************************************************************************)
OvertakenInit ==
    /\ currentTerm = (n1 :> 4 @@ n2 :> 4 @@ n3 :> 3)
    /\ votedFor = (n1 :> n2 @@ n2 :> n2 @@ n3 :> n1)
    /\ role = (n1 :> Follower @@ n2 :> Leader @@ n3 :> Follower)
    /\ meta = [i \in Server |-> [term |-> currentTerm[i], votedFor |-> votedFor[i]]]
    /\ \E c \in Command :
         /\ log = (n1 :> <<[term |-> 1, cmd |-> c]>>
                @@ n2 :> <<[term |-> 2, cmd |-> c]>>
                @@ n3 :> << >>)
         /\ appendReqs =
              {[term |-> 3, from |-> n1, to |-> j, prevIndex |-> 1, prevTerm |-> 1,
                entries |-> << >>, commit |-> 0] : j \in {n2, n3}}
              \cup {[term |-> 3, from |-> n1, to |-> n3, prevIndex |-> 0, prevTerm |-> 0,
                     entries |-> <<[term |-> 1, cmd |-> c]>>, commit |-> 0]}
    /\ commitIndex = [i \in Server |-> 0]
    /\ nextIndex = [i \in Server |-> [j \in Server |-> IF i = n1 /\ j # n3 THEN 2 ELSE 1]]
    /\ matchIndex = [i \in Server |-> EveryPeerAt(0)]
    /\ loop = (n1 :> LoopAt("sending", 3) @@ n2 :> Idle @@ n3 :> Idle)
    /\ voteReqs = {[term |-> 4, from |-> n2, to |-> j, lastIndex |-> 1, lastTerm |-> 2] : j \in {n1, n3}}
    /\ votes = {VoteOf(n1, 1, n1), VoteOf(n3, 1, n1), VoteOf(n2, 2, n2), VoteOf(n3, 2, n2),
                VoteOf(n1, 3, n1), VoteOf(n3, 3, n1), VoteOf(n1, 4, n2), VoteOf(n2, 4, n2)}
    /\ committed = << >>

OvertakenSpec == OvertakenInit /\ [][Next]_vars

=============================================================================
