----------------------------- MODULE StatusBits -----------------------------
(***************************************************************************)
(* The status list as bytes: a publisher sets and clears bits and encodes  *)
(* the list, a reader decodes it and reads one index.  Elsewhere in this   *)
(* project a list is the set of its indices; this module shows that the    *)
(* byte representation behaves like that set, and that whatever cannot be  *)
(* read fails instead of reading as clear.                                 *)
(***************************************************************************)
EXTENDS Integers, Sequences, FiniteSets

CONSTANTS
    ListSize,     \* entries of the list
    Indices,      \* indices written and read, some outside the list
    MaxListBytes  \* MAX_STATUS_LIST_BYTES

VARIABLES
    bytes,     \* the list's bytes; the byte of index i is bytes[i \div 8 + 1]
    written,   \* the indices last set, not cleared
    refused,   \* the indices a write was refused for
    payloads   \* what a reader may be handed of the list as it is: none until it is published

bitsVars == <<bytes, written, refused, payloads>>

ByteCount(size) == (size + 7) \div 8

\* 0x80 >> bit: the most significant bit comes first.
BitMask(bit) == 2 ^ (7 - bit)

HasBit(byte, mask) == (byte \div mask) % 2 = 1

BitsInit ==
    /\ bytes = [i \in 1 .. ByteCount(ListSize) |-> 0]
    /\ written = {}
    /\ refused = {}
    /\ payloads = {}

InList(index) == index >= 0 /\ index < ListSize

\* Mutant of ByteWith: the bit is set without looking whether it is set already.
ByteAdded(byte, mask, value) == IF value THEN byte + mask ELSE byte - mask

\* byte | mask, or byte & ~mask.
ByteWith(byte, mask, value) ==
    IF HasBit(byte, mask) = value THEN byte ELSE IF value THEN byte + mask ELSE byte - mask

\* setBit.
setBit(index, value) ==
    IF InList(index)
    THEN /\ bytes' = [bytes EXCEPT ![index \div 8 + 1] = ByteWith(@, BitMask(index % 8), value)]
         /\ written' = IF value THEN written \cup {index} ELSE written \ {index}
         /\ payloads' = {} /\ UNCHANGED refused
    ELSE refused' = refused \cup {index} /\ UNCHANGED <<bytes, written, payloads>>

\* getBit: "error" outside the list.
getBit(index) ==
    IF ~ InList(index) THEN "error"
    ELSE IF HasBit(bytes[index \div 8 + 1], BitMask(index % 8)) THEN "set" ELSE "clear"

getSetBits == {i \in 0 .. ListSize - 1 : getBit(i) = "set"}

-----------------------------------------------------------------------------
(* Encoding.  A payload is [gzip, of]: whether it carries the GZIP header, *)
(* and the bytes inside; plain bytes may begin like a GZIP header too.     *)

Codecs == {"gzip", "identity"}

Payload(gzip, of) == [gzip |-> gzip, of |-> of]

\* encodeStatusListPayload: a compressor that does not compress is refused.
encodeStatusListPayload(of, codec) == IF codec = "gzip" THEN {Payload(TRUE, of)} ELSE {}

\* decodeStatusListPayload: not GZIP, a codec that passes its input through, and a
\* list above the limit are refused.
decodeStatusListPayload(payload, codec) ==
    IF ~ payload.gzip \/ codec = "identity" \/ Len(payload.of) > MaxListBytes THEN {} ELSE {payload.of}

\* parseStatusListIndex: a canonical decimal in the safe range.
parseStatusListIndex(raw) == IF raw.form = "decimal" THEN {raw.value} ELSE {}

\* readStatusBit.
readStatusBit(list, index) ==
    IF index < 0 \/ index \div 8 + 1 > Len(list) THEN "error"
    ELSE IF HasBit(list[index \div 8 + 1], BitMask(index % 8)) THEN "set" ELSE "clear"

\* isIndexSet over a payload: an error unless everything can be read.
isIndexSet(payload, raw, codec) ==
    LET results == {readStatusBit(list, i) : list \in decodeStatusListPayload(payload, codec),
                                             i \in parseStatusListIndex(raw)}
    IN IF results = {} THEN "error" ELSE CHOOSE x \in results : TRUE

\* fromSetBits: setting the bits one after the other.
fromSetBits(size, set) ==
    [b \in 1 .. ByteCount(size) |->
        LET put[k \in 0 .. 8] == IF k = 0 THEN 0
              ELSE ByteWith(put[k - 1], BitMask(k - 1), (b - 1) * 8 + k - 1 \in set)
        IN put[8]]

\* encode, by each compressor: the reader may be handed the list, the same bytes not
\* compressed, or a list that is too long.
Publish ==
    /\ payloads = {}
    /\ payloads' = UNION {encodeStatusListPayload(bytes, codec) : codec \in Codecs}
                   \cup {Payload(FALSE, bytes), Payload(TRUE, bytes \o <<0>>)}
    /\ UNCHANGED <<bytes, written, refused>>

BitsNext == (\E i \in Indices, v \in BOOLEAN : setBit(i, v)) \/ Publish

-----------------------------------------------------------------------------
(* Property.                                                               *)

Raws(i) == [form : {"decimal", "other"}, value : {i}]

\* The bytes are the set they stand for: after any writes the list reports the indices
\* last set, no write leaks to a neighbour or is taken outside the list, and a reader
\* of the published list finds the same; an index beyond the bytes, an index or a
\* payload in another form and a codec that does not inflate give an error, never
\* "clear" (BitstringManager, encodeStatusListPayload, decodeStatusListPayload,
\* readStatusBit).
StatusReadsBack ==
    /\ getSetBits = written
    /\ refused \cap 0 .. ListSize - 1 = {}
    /\ \A p \in payloads, i \in Indices, codec \in Codecs : \A raw \in Raws(i) :
          isIndexSet(p, raw, codec) =
             IF p = Payload(TRUE, fromSetBits(ListSize, written)) /\ codec = "gzip"
                /\ raw.form = "decimal" /\ i \in 0 .. 8 * ByteCount(ListSize) - 1
             THEN IF i \in written THEN "set" ELSE "clear"
             ELSE "error"
    /\ payloads # {} => Payload(TRUE, fromSetBits(ListSize, written)) \in payloads
=============================================================================
