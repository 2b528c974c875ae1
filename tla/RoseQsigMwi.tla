---------------------------- MODULE RoseQsigMwi -----------------------------
(* Message waiting indication (libpri/rose_qsig_mwi.c).                     *)
EXTENDS RoseAddress

rose_enc_qsig_MsgCentreId(msg_centre_id) ==
    CASE msg_centre_id.type = 0 -> asn1_enc_int(Ctx(0), msg_centre_id.integer)
      [] msg_centre_id.type = 1 ->
            Constructed(Ctx(1), rose_enc_PartyNumber(msg_centre_id.number))
      [] msg_centre_id.type = 2 -> asn1_enc_string_max(Ctx(2), msg_centre_id.str)

rose_enc_qsig_MWIActivate_ARG(args) ==
    Constructed(ASN1_TAG_SEQUENCE,
         rose_enc_PartyNumber(args.served_user_number)
      \o asn1_enc_int(ASN1_TYPE_ENUMERATED, args.basic_service)
      \o Opt(Has(args, "msg_centre_id"), rose_enc_qsig_MsgCentreId(args.msg_centre_id))
      \o Opt(Has(args, "number_of_messages"), asn1_enc_int(Ctx(3), args.number_of_messages))
      \o Opt(Has(args, "originating_number"),
           Constructed(Ctx(4), rose_enc_PartyNumber(args.originating_number)))
      \o Opt(Has(args, "timestamp"),
           asn1_enc_string_max(ASN1_TYPE_GENERALIZED_TIME, args.timestamp))
      \o Opt(Has(args, "priority"), asn1_enc_int(Ctx(5), args.priority)))

rose_enc_qsig_MWIDeactivate_ARG(args) ==
    Constructed(ASN1_TAG_SEQUENCE,
         rose_enc_PartyNumber(args.served_user_number)
      \o asn1_enc_int(ASN1_TYPE_ENUMERATED, args.basic_service)
      \o Opt(Has(args, "msg_centre_id"), rose_enc_qsig_MsgCentreId(args.msg_centre_id)))

rose_enc_qsig_MWIInterrogate_ARG(args) ==
    Constructed(ASN1_TAG_SEQUENCE,
         rose_enc_PartyNumber(args.served_user_number)
      \o asn1_enc_int(ASN1_TYPE_ENUMERATED, args.basic_service)
      \o Opt(Has(args, "msg_centre_id"), rose_enc_qsig_MsgCentreId(args.msg_centre_id)))

rose_enc_qsig_MWIInterrogateResElt(tag, record) ==
    Constructed(tag,
         asn1_enc_int(ASN1_TYPE_ENUMERATED, record.basic_service)
      \o Opt(Has(record, "msg_centre_id"), rose_enc_qsig_MsgCentreId(record.msg_centre_id))
      \o Opt(Has(record, "number_of_messages"), asn1_enc_int(Ctx(3), record.number_of_messages))
      \o Opt(Has(record, "originating_number"),
           Constructed(Ctx(4), rose_enc_PartyNumber(record.originating_number)))
      \o Opt(Has(record, "timestamp"),
           asn1_enc_string_max(ASN1_TYPE_GENERALIZED_TIME, record.timestamp))
      \o Opt(Has(record, "priority"), asn1_enc_int(Ctx(5), record.priority)))

rose_enc_qsig_MWIInterrogate_RES(args) ==
    Constructed(ASN1_TAG_SEQUENCE,
      Each(rose_enc_qsig_MWIInterrogateResElt, ASN1_TAG_SEQUENCE, args.list))

-----------------------------------------------------------------------------

rose_dec_qsig_MsgCentreId ==
    OneOf(<<
        Is(Ctx(0), With("type", 0, Int16("integer"))),
        Is(CtxC(1), With("type", 1, Sequence(<<Must(In("number", rose_dec_PartyNumber))>>))),
        IsIn({Ctx(2), CtxC(2)}, With("type", 2, StrMax("str", 11)))>>)

rose_dec_qsig_MWIActivate_ARG ==
    Is(ASN1_TAG_SEQUENCE, Sequence(<<
        Must(In("served_user_number", rose_dec_PartyNumber)),
        Must(Is(ASN1_TYPE_ENUMERATED, Int8("basic_service"))),
        Options(<<
            IsIn(Either({Ctx(0), Ctx(1), Ctx(2)}),
                In("msg_centre_id", rose_dec_qsig_MsgCentreId)),
            IsIn(Either({Ctx(3)}), Int16("number_of_messages")),
            IsIn(Either({Ctx(4)}),
                Sequence(<<Must(In("originating_number", rose_dec_PartyNumber))>>)),
            IsIn(Either({ASN1_TYPE_GENERALIZED_TIME}), StrMax("timestamp", 20)),
            IsIn(Either({Ctx(5)}), Int8("priority"))>>)>>))

rose_dec_qsig_MWIDeactivate_ARG ==
    Is(ASN1_TAG_SEQUENCE, Sequence(<<
        Must(In("served_user_number", rose_dec_PartyNumber)),
        Must(Is(ASN1_TYPE_ENUMERATED, Int8("basic_service"))),
        Options(<<
            IsIn(Either({Ctx(0), Ctx(1), Ctx(2)}),
                In("msg_centre_id", rose_dec_qsig_MsgCentreId))>>)>>))

rose_dec_qsig_MWIInterrogate_ARG ==
    Is(ASN1_TAG_SEQUENCE, Sequence(<<
        Must(In("served_user_number", rose_dec_PartyNumber)),
        Must(Is(ASN1_TYPE_ENUMERATED, Int8("basic_service"))),
        Options(<<
            IsIn(Either({Ctx(0), Ctx(1), Ctx(2)}),
                In("msg_centre_id", rose_dec_qsig_MsgCentreId))>>)>>))

rose_dec_qsig_MWIInterrogateResElt ==
    Sequence(<<
        Must(Is(ASN1_TYPE_ENUMERATED, Int8("basic_service"))),
        Options(<<
            IsIn(Either({Ctx(0), Ctx(1), Ctx(2)}),
                In("msg_centre_id", rose_dec_qsig_MsgCentreId)),
            IsIn(Either({Ctx(3)}), Int16("number_of_messages")),
            IsIn(Either({Ctx(4)}),
                Sequence(<<Must(In("originating_number", rose_dec_PartyNumber))>>)),
            IsIn(Either({ASN1_TYPE_GENERALIZED_TIME}), StrMax("timestamp", 20)),
            IsIn(Either({Ctx(5)}), Int8("priority"))>>)>>)

rose_dec_qsig_MWIInterrogate_RES ==
    Is(ASN1_TAG_SEQUENCE, Sequence(<<
        ListOf("list", 10, Is(ASN1_TAG_SEQUENCE, rose_dec_qsig_MWIInterrogateResElt))>>))
=============================================================================
