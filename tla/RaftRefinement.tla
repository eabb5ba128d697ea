--------------------------- MODULE RaftRefinement ---------------------------
(***************************************************************************)
(* The nodes of RaftCore as an implementation of ReplicatedLog: the log of *)
(* the group is the longest prefix any node has committed, and a node      *)
(* knows what it has committed itself.                                     *)
(***************************************************************************)
EXTENDS RaftCore

View == [i \in Server |-> CommittedPrefix(i)]

Abstract == INSTANCE ReplicatedLog WITH chosen <- committed, view <- View

(***************************************************************************)
(* Every step of the nodes is a step of the log they implement: a commit   *)
(* index advances only over entries of the one log, and no handler takes   *)
(* back or replaces an entry that was committed anywhere.                  *)
(***************************************************************************)
ImplementsReplicatedLog == Abstract!Spec

=============================================================================
