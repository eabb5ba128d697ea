------------------------------ MODULE Prefixes ------------------------------
(***************************************************************************)
(* The one operator of SequencesExt that the Raft modules need; the whole  *)
(* of it, with the modules it extends, makes their proofs several times    *)
(* slower to check.                                                        *)
(***************************************************************************)
EXTENDS Sequences, Naturals

IsPrefix(s, l) == Len(s) <= Len(l) /\ SubSeq(s, 1, Len(s)) = SubSeq(l, 1, Len(s))

=============================================================================
