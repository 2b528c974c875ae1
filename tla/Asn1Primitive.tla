--------------------------- MODULE Asn1Primitive ---------------------------
(* The ASN.1 basic encoding rules as libpri implements them: tags, lengths  *)
(* and primitives (libpri/asn1.h, asn1_primitive.c).  The module Asn1 adds  *)
(* what is recursive: components of indefinite length, and the grammar that *)
(* the decoders of structures are.                                          *)
(*                                                                          *)
(* An encoded message is a sequence of octets.  The encoders are operators  *)
(* that return the octets they append; their only failure, a buffer that is *)
(* too small, is the length test of the module RoseLink.                    *)
(*                                                                          *)
(* A decoder takes the octets o, the position pos of the next one and the   *)
(* position end after the last one, as the functions of the C code do.  It  *)
(* returns Null, the code's NULL, or <<the next position, what it read>>.   *)
EXTENDS Integers, Sequences, FiniteSetsExt, SequencesExt

Null == <<>>
Indefinite == -1

ASN1_PC_CONSTRUCTED == 32
ASN1_TYPE_MASK == 31
ASN1_INDEF_TERM == 0
ASN1_INDEF_TERM_LEN == 2
ASN1_TYPE_BOOLEAN == 1
ASN1_TYPE_INTEGER == 2
ASN1_TYPE_OCTET_STRING == 4
ASN1_TYPE_NULL == 5
ASN1_TYPE_OBJECT_IDENTIFIER == 6
ASN1_TYPE_ENUMERATED == 10
ASN1_TYPE_SEQUENCE == 16
ASN1_TYPE_SET == 17
ASN1_TYPE_NUMERIC_STRING == 18
ASN1_TYPE_GENERALIZED_TIME == 24
ASN1_TAG_SEQUENCE == ASN1_TYPE_SEQUENCE + ASN1_PC_CONSTRUCTED
ASN1_TAG_SET == ASN1_TYPE_SET + ASN1_PC_CONSTRUCTED
App(n) == 64 + n
Ctx(n) == 128 + n
CtxC(n) == 128 + ASN1_PC_CONSTRUCTED + n

IsConstructed(tag) == (tag \div ASN1_PC_CONSTRUCTED) % 2 = 1
Primitive(tag) == IF IsConstructed(tag) THEN tag - ASN1_PC_CONSTRUCTED ELSE tag

----------------------------------------------------------------------------
(* Encoders.                                                               *)

(* The shortest form of a length; a message has less than 65536 octets. *)
asn1_enc_length(length) ==
    IF length < 128 THEN <<length>>
    ELSE IF length < 256 THEN <<129, length>>
    ELSE <<130, length \div 256, length % 256>>

asn1_enc_boolean(tag, value) == <<tag, 1, IF value # 0 THEN 1 ELSE 0>>

\* Mutant: without room for the sign.
More9Unsigned(value) ==
    Min({n \in 0 .. 3 : n = 3 \/ value \in -(128 * 256 ^ n) .. 256 ^ (n + 1) - 1})
(* How many octets after the first an integer needs: the first 9 bits of   *)
(* what is sent are never all zeros nor all ones.                           *)
More9(value) == CHOOSE n \in 0 .. 3 :
    /\ \A k \in 0 .. 3 : k < n => value \notin -(128 * 256 ^ k) .. 128 * 256 ^ k - 1
    /\ n < 3 => value \in -(128 * 256 ^ n) .. 128 * 256 ^ n - 1

asn1_enc_int(tag, value) ==
    LET count == More9(value)
    IN  <<tag, count + 1>>
            \o [i \in 1 .. count + 1 |-> (value \div 256 ^ (count + 1 - i)) % 256]

asn1_enc_null(tag) == <<tag, 0>>

(* A subidentifier in groups of 7 bits, the last one without the top bit. *)
Subidentifier(value) ==
    LET count == Min({k \in 0 .. 3 : value < 128 ^ (k + 1)})
    IN  [i \in 1 .. count + 1 |->
            ((value \div 128 ^ (count + 1 - i)) % 128) + (IF i <= count THEN 128 ELSE 0)]

asn1_enc_oid(tag, values) ==
    LET body == FlattenSeq([i \in DOMAIN values |-> Subidentifier(values[i])])
    IN  <<tag, Len(body)>> \o body

asn1_enc_string_bin(tag, str) == <<tag>> \o asn1_enc_length(Len(str)) \o str

(* The strings given to it fit the maximum: they come from its buffers. *)
asn1_enc_string_max(tag, str) == asn1_enc_string_bin(tag, str)

(* ASN1_CONSTRUCTED_BEGIN and _END around what is encoded between them. *)
Constructed(tag, body) ==
    <<Primitive(tag) + ASN1_PC_CONSTRUCTED>> \o asn1_enc_length(Len(body)) \o body

----------------------------------------------------------------------------
(* Decoders of tags, lengths and primitives.                               *)

(* An unsigned and a signed number, most significant octet first.  A signed *)
(* one has 32 bits: what was shifted out of them is lost.                   *)
Unsigned(octets, base) ==
    LET value[n \in 0 .. Len(octets)] ==
            IF n = 0 THEN 0 ELSE value[n - 1] * base + (octets[n] % base)
    IN  value[Len(octets)]
Signed(octets) ==
    LET kept == SubSeq(octets, Max({1, Len(octets) - 3}), Len(octets))
        value[n \in 0 .. Len(kept)] ==
            IF n = 0 THEN IF kept[1] > 127 THEN -1 ELSE 0
            ELSE value[n - 1] * 256 + kept[n]
    IN  value[Len(kept)]

(* What a decoder returns is used, or is handed on when it is Null: ASN1_CALL *)
(* at the head of a step, and a change of the value at its end.             *)
Then(result, Step(_, _)) == IF result = Null THEN Null ELSE Step(result[1], result[2])
Giving(result, Value(_)) == IF result = Null THEN Null ELSE <<result[1], Value(result[2])>>

(* A tag number of 31 announces further octets; the number they give is    *)
(* only used when it would have fitted the first octet.  It has 32 bits:    *)
(* four groups of 7, and 4 bits of the group before them.                   *)
ExtendedTag(first, groups) ==
    LET n == Len(groups)
        number == Unsigned(SubSeq(groups, Max({1, n - 3}), n), 128)
    IN  IF number \in 1 .. ASN1_TYPE_MASK - 1 /\ (n > 4 => groups[n - 4] % 16 = 0)
        THEN first - ASN1_TYPE_MASK + number ELSE first
asn1_dec_tag(o, pos, end) ==
    LET ends == {p \in pos + 1 .. end - 1 : o[p] < 128}
    IN  IF end <= pos THEN Null
        ELSE IF o[pos] % 32 # ASN1_TYPE_MASK THEN <<pos + 1, o[pos]>>
        ELSE IF ends = {} THEN Null
        ELSE <<Min(ends) + 1,
               ExtendedTag(o[pos], SubSeq(o, pos + 1, Min(ends)))>>

\* Mutant: a length that is too large is cut down to what is there.
DefiniteClamped(next, length, end) == <<next, Min({length, end - next})>>
Definite(next, length, end) == IF end < next + length THEN Null ELSE <<next, length>>
(* A long length is an int: with four octets and more its sign is set by    *)
(* one of them, and whoever asked for a length takes a negative one for an  *)
(* indefinite one.                                                          *)
LongLength(octets) ==
    IF Len(octets) < 4 THEN Unsigned(octets, 256)
    ELSE IF Signed(octets) < 0 THEN Indefinite ELSE Signed(octets)
asn1_dec_length(o, pos, end) ==
    LET next == pos + o[pos] - 127     \* after the octets of a long length
    IN  IF end <= pos THEN Null
        ELSE IF o[pos] < 128 THEN Definite(pos + 1, o[pos], end)
        ELSE IF o[pos] = 128
             THEN IF end < pos + 1 + ASN1_INDEF_TERM_LEN THEN Null ELSE <<pos + 1, Indefinite>>
        ELSE IF o[pos] = 255 \/ end < next THEN Null
        ELSE Definite(next, LongLength(SubSeq(o, pos + 1, next - 1)), end)

(* A primitive of definite length whose size is allowed: its octets. *)
Contents(o, pos, end, sizes) ==
    Then(asn1_dec_length(o, pos, end), LAMBDA p, length :
        IF length \in sizes THEN <<p + length, SubSeq(o, p, p + length - 1)>> ELSE Null)

asn1_dec_boolean(o, pos, end) ==
    Giving(Contents(o, pos, end, {1}), LAMBDA octets : IF octets[1] # 0 THEN 1 ELSE 0)

asn1_dec_int(o, pos, end) == Giving(Contents(o, pos, end, 1 .. Len(o)), Signed)

asn1_dec_null(o, pos, end) == Giving(Contents(o, pos, end, {0}), LAMBDA octets : << >>)

MaxOidValues == 10
Next7(s, x) ==
    IF x > 127 THEN [s EXCEPT !.value = @ * 128 + x - 128]
    ELSE [done |-> Append(s.done, (s.value * 128 + x) % 65536), value |-> 0]
OidRead(octets) ==
    LET read[n \in 0 .. Len(octets)] ==
            IF n = 0 THEN [done |-> <<>>, value |-> 0] ELSE Next7(read[n - 1], octets[n])
    IN  read[Len(octets)]
OidValues(octets) == OidRead(octets).done
asn1_dec_oid(o, pos, end) ==
    Then(Contents(o, pos, end, 0 .. Len(o)), LAMBDA next, octets :
        IF Len(OidValues(octets)) > MaxOidValues \/ (octets # <<>> /\ Last(octets) > 127)
        THEN Null ELSE <<next, OidValues(octets)>>)

(* A string for a buffer of size octets, the last of them a zero: one that *)
(* is too long is cut (asn1_dec_string_max) or refused                     *)
(* (asn1_dec_string_bin).                                                  *)
Fitting(o, first, after, size, cuts) ==
    IF after - first < size THEN <<after, SubSeq(o, first, after - 1)>>
    ELSE IF cuts THEN <<after, SubSeq(o, first, first + size - 2)>>
    ELSE Null
=============================================================================
