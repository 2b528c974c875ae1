-------------------------------- MODULE Asn1 --------------------------------
(* What of libpri's ASN.1 decoders is recursive (libpri/asn1.h,             *)
(* asn1_primitive.c): components of indefinite length, and structures.      *)
(*                                                                          *)
(* What the decoder of a structure does is data here: a node of the grammar *)
(* below, which Decode interprets.  What it read is a record that has a     *)
(* field when the structure has it set.                                     *)
EXTENDS Asn1Primitive, TLC

(* The shapes of the code around the encoders: a component that is present, *)
(* and the records of a list one after the other.                           *)
Has(record, field) == field \in DOMAIN record
Opt(present, octets) == IF present THEN octets ELSE <<>>
Each(Encoded(_, _), tag, list) ==
    FlattenSeq([index \in DOMAIN list |-> Encoded(tag, list[index])])

(* Past the end of a constructed component of indefinite length.  One       *)
(* inside it that is primitive is skipped up to the first zero octet.       *)
RECURSIVE asn1_dec_indef_end_fixup(_, _, _)
AfterIndefinite(o, tag, pos, end) ==
    IF IsConstructed(tag) \/ tag \in {ASN1_TYPE_SEQUENCE, ASN1_TYPE_SET}
    THEN asn1_dec_indef_end_fixup(o, pos, end)
    ELSE <<Min({end} \cup {p \in pos .. end - 1 : o[p] = ASN1_INDEF_TERM}) + ASN1_INDEF_TERM_LEN,
           << >> >>
AfterComponent(o, pos, end) ==
    Then(asn1_dec_tag(o, pos, end), LAMBDA p, tag :
        Then(asn1_dec_length(o, p, end), LAMBDA q, length :
            IF length # Indefinite THEN <<q + length, << >> >>
            ELSE AfterIndefinite(o, tag, q, end)))
asn1_dec_indef_end_fixup(o, pos, end) ==
    IF pos < end /\ o[pos] # ASN1_INDEF_TERM
    THEN Then(AfterComponent(o, pos, end), LAMBDA p, none : asn1_dec_indef_end_fixup(o, p, end))
    ELSE IF end < pos + ASN1_INDEF_TERM_LEN THEN Null
    ELSE <<pos + ASN1_INDEF_TERM_LEN, << >> >>

(* A string of indefinite length is a list of strings when its tag is      *)
(* constructed, and else what stands before a zero octet.                   *)
RECURSIVE Substrings(_, _, _, _, _, _)
Terminated(o, first, end, size, cuts) ==
    LET zeros == {p \in first .. end - 1 : o[p] = 0}
    IN  IF zeros = {} THEN Null
        ELSE Then(Fitting(o, first, Min(zeros), size, cuts), LAMBDA p, text : <<p + 1, text>>)
DecString(o, tag, pos, end, size, cuts) ==
    Then(asn1_dec_length(o, pos, end), LAMBDA p, length :
        IF length # Indefinite THEN Fitting(o, p, p + length, size, cuts)
        ELSE Then(IF IsConstructed(tag) THEN Substrings(o, p, end, size, cuts, <<>>)
                  ELSE Terminated(o, p, end, size, cuts), LAMBDA q, text :
                 IF end <= q THEN Null ELSE IF o[q] # 0 THEN Null ELSE <<q + 1, text>>))
Substrings(o, pos, end, size, cuts, str) ==
    Then(asn1_dec_tag(o, pos, end), LAMBDA p, tag :
        IF tag = ASN1_INDEF_TERM THEN <<p, str>>
        ELSE Then(DecString(o, tag, p, end, size, cuts), LAMBDA q, piece :
                 Substrings(o, q, end, size - Len(piece), cuts, str \o piece)))

\* Mutant: the pieces of a string are not told from its text.
asn1_dec_string_raw(o, tag, pos, end, size) ==
    DecString(o, Primitive(tag), pos, end, size, TRUE)
asn1_dec_string_bin(o, tag, pos, end, size) == DecString(o, tag, pos, end, size, FALSE)
asn1_dec_string_max(o, tag, pos, end, size) == DecString(o, tag, pos, end, size, TRUE)

----------------------------------------------------------------------------
(* The grammar.  Primitives, each named by the field it fills; an integer  *)
(* is stored in a field of a width, whatever its value.                    *)
Field(kind, field, size) == [kind |-> kind, field |-> field, size |-> size]
Int8(field) == Field("int", field, 2 ^ 8)
Int16(field) == Field("int", field, 2 ^ 16)
IntS16(field) == Field("signed", field, 2 ^ 16)
(* The model's numbers end where a signed number of 32 bits does. *)
Int32(field) == Field("int32", field, 0)
Bool(field) == Field("bool", field, 0)
Oid(field) == Field("oid", field, 0)
StrBin(field, size) == Field("string_bin", field, size)
StrMax(field, size) == Field("string_max", field, size)
None == [kind |-> "null"]

(* A structure in a field; a value the code stores when it decodes d. *)
In(field, d) == [kind |-> "in", field |-> field, of |-> d]
With(field, value, d) == [kind |-> "with", field |-> field, value |-> value, of |-> d]

(* A component that must have one of some tags; Either: constructed or not. *)
Either(tags) == tags \cup {tag + ASN1_PC_CONSTRUCTED : tag \in tags}
IsIn(tags, d) == [kind |-> "is", tags |-> tags, of |-> d]
Is(tag, d) == IsIn({tag}, d)
OneOf(cases) == [kind |-> "one_of", cases |-> cases]
IfTag(tag, d, other) == [kind |-> "if", tag |-> tag, of |-> d, other |-> other]

(* A constructed component and its parts: one that must be there; parts     *)
(* that are there when something is left; one that is recognised by its     *)
(* tag; any number of some components, up to the first other one; a list; a *)
(* value that is not encoded; one that is decoded without reading a tag.    *)
(* Outer: decoded against the end of the component around this one, instead *)
(* of its own.  MustSeqOuter: a sequence or something else, where only the  *)
(* length of the sequence is checked against the end around.                *)
Sequence(parts) == [kind |-> "seq", parts |-> parts]
Must(d) == [kind |-> "must", of |-> d]
MustOuter(d) == [kind |-> "must_outer", of |-> d]
More(parts) == [kind |-> "more", parts |-> parts]
MoreOuter(parts) == [kind |-> "more_outer", parts |-> parts]
MustSeqOuter(parts, other) == [kind |-> "must_seq_outer", parts |-> parts, of |-> other]
May(d) == [kind |-> "may", of |-> d]
Options(cases) == [kind |-> "options", cases |-> cases]
ListOf(field, max, d) == [kind |-> "list", field |-> field, max |-> max, of |-> d]
Default(field, value) == [kind |-> "default", field |-> field, value |-> value]
Same(tag, d) == [kind |-> "same", tag |-> tag, of |-> d]
(* A component whose value is looked up in a table: the row it selects      *)
(* names it and has the parts that follow.                                  *)
Select(field, d, rows, other) ==
    [kind |-> "select", field |-> field, of |-> d, rows |-> rows, other |-> other]

Stored(kind, value, size) ==
    CASE kind = "int" -> value % size
      [] kind = "signed" -> ((value + size \div 2) % size) - size \div 2
      [] OTHER -> value

Primitives(kind, o, tag, pos, end, size) ==
    CASE kind \in {"int", "signed", "int32"} -> asn1_dec_int(o, pos, end)
      [] kind = "bool" -> asn1_dec_boolean(o, pos, end)
      [] kind = "oid" -> asn1_dec_oid(o, pos, end)
      [] kind = "string_bin" -> asn1_dec_string_bin(o, tag, pos, end, size)
      [] kind = "string_max" -> asn1_dec_string_max(o, tag, pos, end, size)

\* Mutant: an end-of-contents mark counts as something left.
LeftByLength(o, pos, end) == pos < end
Left(o, pos, end) == pos < end /\ o[pos] # ASN1_INDEF_TERM
For(cases, tag) == {c \in Range(cases) : tag \in c.tags}
The(S) == CHOOSE x \in S : TRUE

RECURSIVE Decode(_, _, _, _, _), Parts(_, _, _, _, _, _)
RECURSIVE Optional(_, _, _, _, _), List(_, _, _, _, _)

(* The component whose tag is at pos. *)
Component(d, o, pos, end) ==
    Then(asn1_dec_tag(o, pos, end), LAMBDA p, tag : Decode(d, o, tag, p, end))

(* The end of a constructed component, after its parts. *)
Fixup(o, last, end, indefinite, record) ==
    IF indefinite
    THEN Giving(asn1_dec_indef_end_fixup(o, last, end), LAMBDA none : record)
    ELSE <<last, record>>

Structure(parts, o, first, length, end) ==
    LET last == IF length = Indefinite THEN end ELSE first + length
    IN  Then(Parts(parts, o, first, last, end, << >>), LAMBDA p, record :
            Fixup(o, IF length = Indefinite THEN p ELSE last, end, length = Indefinite, record))

(* The alternative that a tag selects; Reject refuses every tag. *)
Reject == IsIn({}, None)
Chosen(cases, tag) == IF For(cases, tag) = {} THEN Reject ELSE The(For(cases, tag))
Alternative(d, tag) ==
    CASE d.kind = "one_of" -> Chosen(d.cases, tag)
      [] d.kind = "if" -> IF tag = d.tag THEN d.of ELSE d.other
      [] OTHER -> d.of

Filled(d, value) ==
    CASE d.kind = "in" -> d.field :> value
      [] d.kind = "with" -> value @@ d.field :> d.value
      [] OTHER -> value

Decode(d, o, tag, pos, end) ==
    CASE d.kind = "null" -> asn1_dec_null(o, pos, end)
      [] d.kind = "seq" ->
            Then(asn1_dec_length(o, pos, end), LAMBDA first, length :
                Structure(d.parts, o, first, length, end))
      [] d.kind \in {"is", "one_of", "if", "in", "with"} ->
            IF d.kind = "is" /\ tag \notin d.tags THEN Null
            ELSE Giving(Decode(Alternative(d, tag), o, tag, pos, end),
                     LAMBDA value : Filled(d, value))
      [] OTHER ->
            Giving(Primitives(d.kind, o, tag, pos, end, d.size),
                LAMBDA value : d.field :> Stored(d.kind, value, d.size))

(* The row that a component selects in a table, and the parts of the row. *)
Row(d, key) ==
    LET found == SelectInSeq(d.rows, LAMBDA row : key \in row.keys)
    IN  IF found = 0 THEN d.other ELSE d.rows[found]
Selected(d, row, o, pos, end, outer) ==
    Parts(row.parts, o, pos, end, outer, d.field :> row.name)

Part(d, o, pos, end, outer) ==
    CASE d.kind = "must" -> Component(d.of, o, pos, end)
      [] d.kind = "must_outer" ->
            Then(asn1_dec_tag(o, pos, end), LAMBDA p, tag : Decode(d.of, o, tag, p, outer))
      [] d.kind = "must_seq_outer" ->
            Then(asn1_dec_tag(o, pos, end), LAMBDA p, tag :
                IF tag # ASN1_TAG_SEQUENCE THEN Decode(d.of, o, tag, p, end)
                ELSE Then(asn1_dec_length(o, p, outer), LAMBDA first, length :
                         Structure(d.parts, o, first, length, end)))
      [] d.kind = "may" ->
            Then(asn1_dec_tag(o, pos, end), LAMBDA p, tag :
                IF tag \in d.of.tags THEN Decode(d.of, o, tag, p, end) ELSE <<pos, << >> >>)
      [] d.kind \in {"more", "more_outer"} ->
            IF Left(o, pos, IF d.kind = "more" THEN end ELSE outer)
            THEN Parts(d.parts, o, pos, end, outer, << >>)
            ELSE <<pos, << >> >>
      [] d.kind = "options" -> Optional(d.cases, o, pos, end, << >>)
      [] d.kind = "list" -> List(d, o, pos, end, <<>>)
      [] d.kind = "default" -> <<pos, d.field :> d.value>>
      [] d.kind = "same" -> Decode(d.of, o, d.tag, pos, end)
      [] d.kind = "select" ->
            Then(Component(d.of, o, pos, end), LAMBDA p, key :
                Selected(d, Row(d, key), o, p, end, outer))

Parts(parts, o, pos, end, outer, got) ==
    IF parts = <<>> THEN <<pos, got>>
    ELSE Then(Part(Head(parts), o, pos, end, outer), LAMBDA p, record :
             Parts(Tail(parts), o, p, end, outer, record @@ got))

Optional(cases, o, pos, end, got) ==
    IF ~Left(o, pos, end) THEN <<pos, got>>
    ELSE Then(asn1_dec_tag(o, pos, end), LAMBDA p, tag :
             IF For(cases, tag) = {} THEN <<pos, got>>
             ELSE Then(Decode(The(For(cases, tag)), o, tag, p, end), LAMBDA q, record :
                      Optional(cases, o, q, end, record @@ got)))

List(d, o, pos, end, list) ==
    IF ~Left(o, pos, end) THEN <<pos, d.field :> list>>
    ELSE IF Len(list) = d.max THEN Null
    ELSE Then(Component(d.of, o, pos, end), LAMBDA p, record :
             List(d, o, p, end, Append(list, record)))
=============================================================================
