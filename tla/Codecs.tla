------------------------------- MODULE Codecs -------------------------------
(***************************************************************************)
(* The record formats of the write-ahead logs: Raft log entries in the     *)
(* three formats decodeLogEntry understands, and the length-prefixed       *)
(* strings of events and of the state machine's durable records.           *)
(*                                                                         *)
(* A payload is a sequence of bytes.  The length prefix of a string is one *)
(* digit to base LenLimit here (65536 in the code, as two bytes), so that  *)
(* strings on both sides of the limit are within reach.                    *)
(***************************************************************************)
EXTENDS Integers, Sequences

CONSTANT LenLimit

Err == [err |-> TRUE]

(* A little-endian field; the values here need no more than four bytes. *)
LittleEndian(v, width) ==
    [k \in 1..width |-> IF k > 4 THEN 0 ELSE (v \div 256^(k - 1)) % 256]

(* The low 24 bits of a field at an offset; a set byte above them makes the *)
(* value larger than any record.                                           *)
Field(data, offset, width) ==
    IF \E k \in 4..width : data[offset + k] # 0 THEN 256^3
    ELSE data[offset + 1] + 256 * data[offset + 2] + 65536 * data[offset + 3]

Magic == <<255, 192>>

(* What encodeLogEntry writes after the record type. *)
EncodeV3(e) ==
    Magic \o LittleEndian(e.index, 8) \o LittleEndian(e.term, 8)
          \o <<e.type>> \o LittleEndian(Len(e.data), 4) \o e.data

(* What earlier binaries wrote, by the table above decodeLogEntry. *)
EncodeV2(e) ==
    LittleEndian(e.index, 8) \o LittleEndian(e.term, 8)
        \o <<e.type>> \o LittleEndian(Len(e.data), 4) \o e.data

EncodeV1(e) ==
    LittleEndian(e.index, 8) \o LittleEndian(e.term, 8) \o LittleEndian(Len(e.data), 4) \o e.data

(* The entry whose index starts at byte offset and whose data is the rest. *)
EntryFrom(data, offset, type, header) ==
    [index |-> Field(data, offset, 8), term |-> Field(data, offset + 8, 8),
     type |-> type, data |-> SubSeq(data, header + 1, Len(data))]

(* Mutant: the length heuristic prefers the oldest format. *)
DecodeV1First(data) ==
    IF Len(data) >= 2 /\ SubSeq(data, 1, 2) = Magic
    THEN IF Len(data) < 23 \/ Len(data) # 23 + Field(data, 19, 4)
         THEN Err ELSE EntryFrom(data, 2, data[19], 23)
    ELSE IF Len(data) < 20 \/ Len(data) < 20 + Field(data, 16, 4)
         THEN Err ELSE EntryFrom(data, 0, 0, 20)

(* Mutant: the length in a v3 header is not compared with the record's. *)
DecodeV3Trusting(data) ==
    IF Len(data) >= 2 /\ SubSeq(data, 1, 2) = Magic
    THEN IF Len(data) < 23 THEN Err ELSE EntryFrom(data, 2, data[19], 23)
    ELSE IF Len(data) < 20 THEN Err
    ELSE IF Len(data) >= 21 /\ Len(data) = 21 + Field(data, 17, 4)
         THEN EntryFrom(data, 0, data[17], 21)
    ELSE IF Len(data) < 20 + Field(data, 16, 4) THEN Err
    ELSE EntryFrom(SubSeq(data, 1, 20 + Field(data, 16, 4)), 0, 0, 20)

(***************************************************************************)
(* decodeLogEntry: the sentinel first, then the length heuristic.  The v1  *)
(* path takes the first DataLen bytes, whatever follows them.              *)
(***************************************************************************)
DecodeLogEntry(data) ==
    IF Len(data) >= 2 /\ SubSeq(data, 1, 2) = Magic
    THEN IF Len(data) < 23 \/ Len(data) # 23 + Field(data, 19, 4)
         THEN Err ELSE EntryFrom(data, 2, data[19], 23)
    ELSE IF Len(data) < 20 THEN Err
    ELSE IF Len(data) >= 21 /\ Len(data) = 21 + Field(data, 17, 4)
         THEN EntryFrom(data, 0, data[17], 21)
    ELSE IF Len(data) < 20 + Field(data, 16, 4) THEN Err
    ELSE EntryFrom(SubSeq(data, 1, 20 + Field(data, 16, 4)), 0, 0, 20)

(***************************************************************************)
(* A length and the bytes: appendString2 and the fields of an event.  The  *)
(* length is cut to the width of its prefix, the bytes are not.            *)
(***************************************************************************)
AppendString(dst, s) == dst \o <<Len(s) % LenLimit>> \o s

ReadString(data) ==
    IF data = << >> \/ Len(data) - 1 < data[1] THEN Err
    ELSE [value |-> SubSeq(data, 2, 1 + data[1]), rest |-> SubSeq(data, 2 + data[1], Len(data))]

Failed(r) == "err" \in DOMAIN r

EncodeEvent(e) == AppendString(AppendString(<< >>, e.source), e.payload)

(* A source that leaves no room for the second length is refused with it. *)
DecodeEvent(data) ==
    LET source == ReadString(data)
        payload == ReadString(source.rest)
    IN  IF Failed(source) THEN Err
        ELSE IF Failed(payload) THEN Err
        ELSE [source |-> source.value, payload |-> payload.value]

(* encodeKVSet, encodeKVDel and encodeKVMeta; the index is one field. *)
EncodeKVRecord(r) ==
    LET keyed == AppendString(<<r.type, r.index>>, r.key)
    IN  IF r.type = "del" THEN keyed ELSE AppendString(keyed, r.value)

(* Mutant: the value of a delete is read as well. *)
DecodeKVRecordUniform(data) ==
    IF Len(data) < 2 THEN Err
    ELSE LET key == ReadString(SubSeq(data, 3, Len(data)))
             value == ReadString(key.rest)
         IN  IF Failed(key) THEN Err
             ELSE IF Failed(value) THEN Err
             ELSE [type |-> data[1], index |-> data[2], key |-> key.value, value |-> value.value]

DecodeKVRecord(data) ==
    IF Len(data) < 2 THEN Err
    ELSE LET key == ReadString(SubSeq(data, 3, Len(data)))
             value == ReadString(key.rest)
         IN  IF Failed(key) THEN Err
             ELSE IF data[1] = "del"
                  THEN [type |-> "del", index |-> data[2], key |-> key.value, value |-> << >>]
             ELSE IF Failed(value) THEN Err
             ELSE [type |-> data[1], index |-> data[2], key |-> key.value, value |-> value.value]
=============================================================================
