--------------------------- MODULE ReplicatedLog ---------------------------
(***************************************************************************)
(* What a Raft group promises its state machines: there is one log that    *)
(* only grows, every node knows a prefix of it, and a node forgets what it *)
(* knows only by restarting.                                               *)
(***************************************************************************)
EXTENDS Prefixes

CONSTANTS Server

VARIABLES
    chosen,   \* the log of the group
    view      \* what each node knows to be chosen

Init ==
    /\ chosen = << >>
    /\ view = [i \in Server |-> << >>]

OthersKeep(i) == \A j \in Server \ {i} : view'[j] = view[j]

(***************************************************************************)
(* A node learns more of the log, and may be the first one to do so.       *)
(***************************************************************************)
Learn(i) ==
    /\ IsPrefix(view[i], view'[i])
    /\ IsPrefix(view'[i], chosen')
    /\ IsPrefix(chosen, chosen')
    /\ chosen' \in {chosen, view'[i]}
    /\ OthersKeep(i)

Forget(i) ==
    /\ view'[i] = << >>
    /\ OthersKeep(i)
    /\ UNCHANGED chosen

Next == \E i \in Server : Learn(i) \/ Forget(i)

Spec == Init /\ [][Next]_<<chosen, view>>

=============================================================================
