---------------------------- MODULE MemLogStore ----------------------------
(***************************************************************************)
(* What a LogStore promises, as its in-memory implementation keeps it: the *)
(* entries that are left after appends, suffix truncations and prefix      *)
(* compactions.                                                            *)
(***************************************************************************)
EXTENDS Naturals, Sequences

CONSTANT Entries

VARIABLE entries

Init == entries = << >>

Append_(e) == entries' = Append(entries, e)

TruncateSuffix(fromIndex) ==
    entries' = SelectSeq(entries, LAMBDA e : e.index < fromIndex)

CompactPrefix(upToIndex) ==
    entries' = SelectSeq(entries, LAMBDA e : e.index > upToIndex)

Next ==
    \/ \E e \in Entries : Append_(e)
    \/ \E i \in {e.index : e \in Entries} : TruncateSuffix(i) \/ CompactPrefix(i)

Spec == Init /\ [][Next]_entries
=============================================================================
