------------------------------ MODULE WalFile ------------------------------
(***************************************************************************)
(* storage/wal: the file a Writer appends to and a Reader scans.           *)
(*                                                                         *)
(* A file is a sequence of pieces, one for each write: the record that was *)
(* written and how much of it the file holds.  A record measures rec.size  *)
(* units of payload (its size field), one for the header and one for the   *)
(* checksum; a write that failed or was interrupted leaves fewer, but no   *)
(* part of a header.  Offsets count units from 0, as file offsets count    *)
(* bytes.                                                                  *)
(***************************************************************************)
EXTENDS Naturals, Sequences, FiniteSets, FiniteSetsExt

Measure(rec) == rec.size + 2

Piece(rec) == [rec |-> rec, kept |-> Measure(rec)]

Torn(piece) == piece.kept < Measure(piece.rec)

(* How many units the pieces from first to last hold. *)
Extent(file, first, last) ==
    FoldSet(LAMBDA k, sum : sum + file[k].kept, 0, first..last)

FileSize(file) == Extent(file, 1, Len(file))

OffsetOf(file, k) == Extent(file, 1, k - 1)

(***************************************************************************)
(* Reading the record that starts at piece k.  Its size field is believed: *)
(* when it points past the end of the file the record is truncated, when   *)
(* the bytes it covers are another record's the checksum differs.          *)
(***************************************************************************)
ReadRecord(file, k) ==
    IF ~Torn(file[k]) THEN "ok"
    ELSE IF Extent(file, k, Len(file)) < Measure(file[k].rec) THEN "truncated"
    ELSE "mismatch"

(* ReadRecordAt, for the offsets of record starts. *)
ReadRecordAt(file, offset) ==
    LET at == {k \in 1..Len(file) : OffsetOf(file, k) = offset}
    IN  IF at = {} THEN [status |-> "eof"]
        ELSE [status |-> ReadRecord(file, Min(at)), rec |-> file[Min(at)].rec]

(***************************************************************************)
(* What a Reader delivers: the records before the first one it cannot      *)
(* read, and the error it stops with.  A clean end of file and a truncated *)
(* last record end the loop alike in all its callers.                      *)
(***************************************************************************)
Scan(file) ==
    LET bad == {k \in 1..Len(file) : ReadRecord(file, k) # "ok"}
    IN  IF bad = {} THEN [pieces |-> file, err |-> "none"]
        ELSE [pieces |-> SubSeq(file, 1, Min(bad) - 1),
              err |-> IF ReadRecord(file, Min(bad)) = "truncated" THEN "none" ELSE "mismatch"]

(***************************************************************************)
(* What is left of a file when all but its first pieces may be lost: some  *)
(* more pieces, the last of them perhaps in part.                          *)
(***************************************************************************)
Remains(file, first) ==
    {SubSeq(file, 1, k) : k \in first..Len(file)}
    \cup UNION {{[SubSeq(file, 1, k) EXCEPT ![k].kept = c] : c \in 1..file[k].kept} :
                k \in (first + 1)..Len(file)}

WholeRemains(file, first) == {f \in Remains(file, first) : \A k \in 1..Len(f) : f[k] = file[k]}
=============================================================================
