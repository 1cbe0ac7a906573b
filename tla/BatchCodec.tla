----------------------------- MODULE BatchCodec -----------------------------
(***************************************************************************)
(* The batch format of internal/storage/batch.go from the producer's       *)
(* encoder to the consumer's decoder: variable-length integers, records,   *)
(* batches, the broker's validation, the base offset that Append writes    *)
(* over the header, and the scan that finds the end of a log after a       *)
(* crash.  A header field is one cell of the stream; every byte of the     *)
(* records is one cell.  Varint groups have base Group (2^7 in the code)   *)
(* and integers Width bits (64).  The checksum of two different byte       *)
(* strings differs.                                                        *)
(***************************************************************************)
EXTENDS Integers, Sequences, SequencesExt

CONSTANTS
    Group,          \* values of a varint group
    GroupBits,      \* Group = 2^GroupBits
    Width,          \* bits of an integer
    MaxBatchCells,  \* maxBatchBytes
    NoKey           \* the nil key

Wrap(n) == ((n + 2^(Width - 1)) % 2^Width) - 2^(Width - 1)
Header == 7         \* base_offset, batch_length, record_count, crc, attributes,
                    \* base_timestamp, max_timestamp
CRC(recs) == recs

-----------------------------------------------------------------------------
(* appendUvarint: low group first, all but the last with the high bit set. *)
RECURSIVE Uvarint(_)
Uvarint(v) ==
    IF v >= Group THEN <<Group + (v % Group)>> \o Uvarint(v \div Group) ELSE <<v>>

ZigzagSignLost(n) == IF n >= 0 THEN 2 * n ELSE -2 * n
Zigzag(n) == IF n >= 0 THEN 2 * n ELSE -2 * n - 1
Unzigzag(u) == IF u % 2 = 0 THEN u \div 2 ELSE -(u \div 2) - 1

WithLength(bytes) == Uvarint(Len(bytes)) \o bytes

(* appendRecord.  headers is a sequence of <<key, value>>.                 *)
AppendRecord(rec, baseTs, delta) ==
    WithLength(<<0>> \o Uvarint(Zigzag(Wrap(rec.ts - baseTs))) \o Uvarint(Zigzag(delta))
        \o (IF rec.key = NoKey THEN Uvarint(Zigzag(-1))
            ELSE Uvarint(Zigzag(Len(rec.key))) \o rec.key)
        \o WithLength(rec.value)
        \o Uvarint(Len(rec.headers))
        \o FlattenSeq([i \in DOMAIN rec.headers |->
                WithLength(rec.headers[i][1]) \o WithLength(rec.headers[i][2])]))

(* EncodeBatch; max_timestamp is the timestamp of the last record.         *)
EncodeBatch(records) ==
    LET recs == FlattenSeq([i \in DOMAIN records |->
                    AppendRecord(records[i], records[1].ts, i - 1)])
    IN  <<0, Header + Len(recs), Len(records), CRC(recs), 0,
          records[1].ts, Last(records).ts>> \o recs

(* BatchEncoder.Encode: the headers of a record, a Go map, in some order.  *)
Encodings(records) ==
    LET inOrder(h) == {[i \in DOMAIN s |-> <<s[i], h[s[i]]>>] : s \in SetToSeqs(DOMAIN h)}
        orders == {o \in [DOMAIN records ->
                             UNION {inOrder(records[i].headers) : i \in DOMAIN records}] :
                      \A i \in DOMAIN records : o[i] \in inOrder(records[i].headers)}
    IN  {EncodeBatch([i \in DOMAIN records |-> [records[i] EXCEPT !.headers = o[i]]]) :
            o \in orders}

-----------------------------------------------------------------------------
(* validateBatch of the data server.                                       *)
ValidateBatch(data) ==
    /\ Len(data) >= Header
    /\ data[2] >= Header /\ data[2] <= Len(data)
    /\ Len(data) <= MaxBatchCells
    /\ CRC(SubSeq(data, Header + 1, data[2])) = data[4]

(* Storage.Append writes the offset over the first field.                  *)
Stamp(data, base) == [data EXCEPT ![1] = base]

-----------------------------------------------------------------------------
(* Decoding.  A parser carries the position it has reached, the end of the *)
(* record, the values it has read and whether all went well so far; a      *)
(* failure stays a failure.                                                *)
Fail == [ok |-> FALSE, pos |-> 0, val |-> 0]
Push(p, r) ==
    IF p.ok /\ r.ok THEN [p EXCEPT !.pos = r.pos, !.got = Append(@, r.val)]
    ELSE [p EXCEPT !.ok = FALSE]

(* decodeUvarint, with the groups read so far worth v.                     *)
RECURSIVE Groups(_, _, _, _)
Groups(data, pos, shift, v) ==
    IF pos >= Len(data) THEN Fail
    ELSE LET b == data[pos + 1]
             w == (v + (b % Group) * 2^shift) % 2^Width
         IN  IF b < Group THEN [ok |-> TRUE, pos |-> pos + 1, val |-> w]
             ELSE IF shift + GroupBits >= Width THEN Fail
             ELSE Groups(data, pos + 1, shift + GroupBits, w)

DecodeUvarint(data, p) == Push(p, Groups(data, p.pos, 0, 0))

(* n bytes that must not reach beyond the record.                          *)
Bytes(data, n, p) ==
    IF p.pos + n <= p.end
    THEN [ok |-> TRUE, pos |-> p.pos + n, val |-> SubSeq(data, p.pos + 1, p.pos + n)]
    ELSE Fail

DecodeBytes(data, p) == Push(p, Bytes(data, Last(p.got), p))
DecodeKey(data, p) ==
    Push(p, IF Unzigzag(Last(p.got)) >= 0 THEN Bytes(data, Unzigzag(Last(p.got)), p)
            ELSE [ok |-> TRUE, pos |-> p.pos, val |-> NoKey])

RECURSIVE DecodeHeaders(_, _, _)
DecodeHeaders(data, n, p) ==
    IF ~p.ok \/ n = 0 THEN p
    ELSE DecodeHeaders(data, n - 1,
             DecodeBytes(data, DecodeUvarint(data, DecodeBytes(data, DecodeUvarint(data, p)))))
AllHeaders(data, p) == IF p.ok THEN DecodeHeaders(data, Last(p.got), p) ELSE p

(* The record behind its length, past the attributes byte.                 *)
Opened(data, len) ==
    [ok |-> len.ok /\ len.pos + len.val <= Len(data) /\ len.val > 0,
     pos |-> len.pos + 1, end |-> len.pos + len.val, got |-> <<>>]

(* What was read: timestamp, delta, key length, key, value length, value,  *)
(* headers, and for each of them two lengths with what they announce.      *)
Decoded(p, baseTs) ==
    IF ~p.ok THEN Fail
    ELSE [ok |-> TRUE, pos |-> p.end,
          val |-> [ts |-> Wrap(baseTs + Unzigzag(p.got[1])), key |-> p.got[4],
                   value |-> p.got[6],
                   headers |-> [i \in 1 .. p.got[7] |->
                                   <<p.got[5 + 4 * i], p.got[7 + 4 * i]>>]]]

DecodeRecord(data, pos, baseTs) ==
    Decoded(
        AllHeaders(data, DecodeUvarint(data,
            DecodeBytes(data, DecodeUvarint(data,
                DecodeKey(data, DecodeUvarint(data,
                    DecodeUvarint(data, DecodeUvarint(data,
                        Opened(data, Groups(data, pos, 0, 0)))))))))),
        baseTs)

RECURSIVE DecodeRecords(_, _, _, _)
DecodeRecords(data, pos, baseTs, records) ==
    IF pos >= Len(data) THEN [ok |-> TRUE, pos |-> pos, val |-> records]
    ELSE LET r == DecodeRecord(data, pos, baseTs)
         IN  IF r.ok THEN DecodeRecords(data, r.pos, baseTs, Append(records, r.val))
             ELSE Fail

(* DecodeNextBatch and DecodeBatch: the records and the position after.    *)
DecodeBatch(data, pos) ==
    LET d == SubSeq(data, pos + 1, Len(data))
        recs == SubSeq(d, Header + 1, d[2])
    IN  IF Len(d) < Header THEN Fail
        ELSE IF d[2] < Header \/ d[2] > Len(d) THEN Fail
        ELSE IF CRC(recs) # d[4] THEN Fail
        ELSE LET r == DecodeRecords(recs, 0, d[6], <<>>)
             IN  IF r.ok THEN [r EXCEPT !.pos = pos + d[2]] ELSE Fail

(* BatchDecoder.Decode: what it returns, and whether without an error.     *)
AsMap(headers) ==
    [k \in {headers[i][1] : i \in DOMAIN headers} |->
        headers[Max({i \in DOMAIN headers : headers[i][1] = k})][2]]

RECURSIVE DecodeFrom(_, _, _)
DecodeFrom(data, pos, out) ==
    IF pos >= Len(data) THEN [ok |-> TRUE, records |-> out]
    ELSE LET b == DecodeBatch(data, pos)
         IN  IF ~b.ok THEN [ok |-> FALSE, records |-> out]
             ELSE DecodeFrom(data, b.pos, out \o
                     [i \in DOMAIN b.val |->
                        [offset |-> data[pos + 1] + i - 1, ts |-> b.val[i].ts,
                         key |-> b.val[i].key, value |-> b.val[i].value,
                         headers |-> AsMap(b.val[i].headers)]])

Decode(data) == DecodeFrom(data, 0, <<>>)

(* The offset after the batch at pos.                                      *)
LastOffset(data, pos) == data[pos + 1] + data[pos + 3] - 1
NextOffset(data, pos) == data[pos + 1] + data[pos + 3]

(* scanActiveLog: the first byte that is not part of a whole batch, and    *)
(* the offset after the last whole batch.                                  *)
RECURSIVE ScanActiveLog(_, _, _)
ScanActiveLog(data, pos, next) ==
    LET left == Len(data) - pos
        len == data[pos + 2]
    IN  IF left < Header THEN <<pos, next>>
        ELSE IF len < Header \/ len > left THEN <<pos, next>>
        ELSE IF CRC(SubSeq(data, pos + Header + 1, pos + len)) # data[pos + 4]
             THEN <<pos, next>>
        ELSE ScanActiveLog(data, pos + len, NextOffset(data, pos))

=============================================================================
