--------------------------- MODULE RoseQsigName -----------------------------
(* Names (libpri/rose_qsig_name.c).                                         *)
EXTENDS Asn1

rose_enc_qsig_NameSet(tag, name) ==
    Constructed(tag,
         asn1_enc_string_bin(ASN1_TYPE_OCTET_STRING, name.data)
      \o asn1_enc_int(ASN1_TYPE_INTEGER, name.char_set))

rose_enc_qsig_Name(name) ==
    CASE name.presentation = 0 -> <<>>
      [] name.presentation = 1 ->
            (IF name.char_set = 1
             THEN asn1_enc_string_bin(Ctx(0), name.data)
             ELSE rose_enc_qsig_NameSet(Ctx(1), name))
      [] name.presentation = 2 ->
            (IF name.char_set = 1
             THEN asn1_enc_string_bin(Ctx(2), name.data)
             ELSE rose_enc_qsig_NameSet(Ctx(3), name))
      [] name.presentation = 3 -> asn1_enc_null(Ctx(7))
      [] name.presentation = 4 -> asn1_enc_null(Ctx(4))

rose_enc_qsig_PartyName_ARG_Backend(party) == rose_enc_qsig_Name(party.name)

rose_enc_qsig_CallingName_ARG(args) == rose_enc_qsig_PartyName_ARG_Backend(args)

rose_enc_qsig_CalledName_ARG(args) == rose_enc_qsig_PartyName_ARG_Backend(args)

rose_enc_qsig_ConnectedName_ARG(args) == rose_enc_qsig_PartyName_ARG_Backend(args)

rose_enc_qsig_BusyName_ARG(args) == rose_enc_qsig_PartyName_ARG_Backend(args)

-----------------------------------------------------------------------------

rose_dec_qsig_NameData == StrBin("data", 51)

rose_dec_qsig_NameSet ==
    Sequence(<<
        Must(IsIn(Either({ASN1_TYPE_OCTET_STRING}), rose_dec_qsig_NameData)),
        MoreOuter(<<Must(Is(ASN1_TYPE_INTEGER, Int8("char_set")))>>)>>)

rose_dec_qsig_Name ==
    With("char_set", 1, OneOf(<<
        IsIn(Either({Ctx(0)}), With("presentation", 1, rose_dec_qsig_NameData)),
        IsIn(Either({Ctx(1)}), With("presentation", 1, rose_dec_qsig_NameSet)),
        IsIn(Either({Ctx(2)}), With("presentation", 2, rose_dec_qsig_NameData)),
        IsIn(Either({Ctx(3)}), With("presentation", 2, rose_dec_qsig_NameSet)),
        IsIn(Either({Ctx(4)}), With("presentation", 4, None)),
        IsIn(Either({Ctx(7)}), With("presentation", 3, None))>>))

(* A name in a SEQUENCE is decoded without reading the tag of the name. *)
rose_dec_qsig_PartyName_ARG_Backend ==
    In("name", IfTag(ASN1_TAG_SEQUENCE,
        Sequence(<<Same(ASN1_TAG_SEQUENCE, rose_dec_qsig_Name)>>), rose_dec_qsig_Name))

rose_dec_qsig_CallingName_ARG == rose_dec_qsig_PartyName_ARG_Backend

rose_dec_qsig_CalledName_ARG == rose_dec_qsig_PartyName_ARG_Backend

rose_dec_qsig_ConnectedName_ARG == rose_dec_qsig_PartyName_ARG_Backend

rose_dec_qsig_BusyName_ARG == rose_dec_qsig_PartyName_ARG_Backend
=============================================================================
