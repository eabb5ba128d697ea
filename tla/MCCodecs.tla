------------------------------ MODULE MCCodecs ------------------------------
(***************************************************************************)
(* Every record of a bounded set is written, perhaps cut short by a crash, *)
(* and read back.                                                          *)
(***************************************************************************)
EXTENDS Codecs, SequencesExt

CONSTANTS Indices,     \* the indices of the log entries
          MaxLen       \* the length of the longest string

VARIABLES
    record,    \* what was written: its format, its value and its bytes
    read       \* what the decoder made of it, << >> before

vars == <<record, read>>

Json == {<< >>, <<123, 125>>, <<123, 34, 125>>}
Bytes == Json \cup {<<0>>, Magic, <<0, 0, 0, 0>>}

LogEntries(types, data) ==
    [index : Indices, term : {1, 300}, type : types, data : data]

Strings == BoundedSeq(0..1, MaxLen)

Record(format, value, bytes) == [format |-> format, value |-> value, bytes |-> bytes]

Records ==
    {Record("v3", e, EncodeV3(e)) : e \in LogEntries({0, 1}, Bytes)}
    \cup {Record("v2", e, EncodeV2(e)) : e \in LogEntries({0, 1}, Json)}
    \cup {Record("v1", e, EncodeV1(e)) : e \in LogEntries({0}, Json)}
    \cup {Record("event", e, EncodeEvent(e)) : e \in [source : Strings, payload : Strings]}
    \cup {Record("kv", r, EncodeKVRecord(r)) :
            r \in [type : {"set"}, index : {7}, key : Strings, value : Strings]
                  \cup [type : {"del", "meta"}, index : {7}, key : Strings, value : {<< >>}]}

Decode(format, bytes) ==
    IF format = "event" THEN DecodeEvent(bytes)
    ELSE IF format = "kv" THEN DecodeKVRecord(bytes)
    ELSE DecodeLogEntry(bytes)

Init == record \in Records /\ read = << >>

ReadBack ==
    /\ read = << >>
    /\ read' = Decode(record.format, record.bytes)
    /\ UNCHANGED record

(* The bytes end early. *)
ReadCut(n) ==
    /\ read = << >>
    /\ n < Len(record.bytes)
    /\ record' = [record EXCEPT !.bytes = SubSeq(@, 1, n)]
    /\ read' = Decode(record.format, record'.bytes)

Next == ReadBack \/ \E n \in 0..27 : ReadCut(n)

Spec == Init /\ [][Next]_vars

Whole == record.bytes = CASE record.format = "v3" -> EncodeV3(record.value)
                          [] record.format = "v2" -> EncodeV2(record.value)
                          [] record.format = "v1" -> EncodeV1(record.value)
                          [] record.format = "event" -> EncodeEvent(record.value)
                          [] record.format = "kv" -> EncodeKVRecord(record.value)

(***************************************************************************)
(* decodeLogEntry tells the three formats apart: an entry written in any   *)
(* of them is read back as it was, so that an upgraded binary finds the    *)
(* log its predecessor left.                                               *)
(***************************************************************************)
LogFormatsTold ==
    record.format \in {"v1", "v2", "v3"} /\ Whole /\ read # << >> => read = record.value

(***************************************************************************)
(* An event or a durable record whose strings respect the limit of the     *)
(* length prefix is read back as it was written.                           *)
(***************************************************************************)
StringsRoundTrip ==
    record.format \in {"event", "kv"} /\ Whole /\ read # << >> => read = record.value

(***************************************************************************)
(* A record that was cut short is refused by its decoder, whichever format *)
(* it is in; v1 and v2 cannot always be told apart by their length then,   *)
(* and only the outer checksum protects them.                              *)
(***************************************************************************)
CutRecordsRefused ==
    record.format \in {"v3", "event", "kv"} /\ ~Whole => Failed(read)
=============================================================================
