---------------------------- MODULE RoseQsigCt ------------------------------
(* Call transfer (libpri/rose_qsig_ct.c).                                   *)
EXTENDS RoseAddress, RoseQ931, RoseQsigName

rose_enc_qsig_CallTransferIdentify_RES(args) ==
    Constructed(ASN1_TAG_SEQUENCE,
         asn1_enc_string_max(ASN1_TYPE_NUMERIC_STRING, args.call_id)
      \o rose_enc_PartyNumber(args.rerouting_number))

rose_enc_qsig_CallTransferInitiate_ARG(args) ==
    Constructed(ASN1_TAG_SEQUENCE,
         asn1_enc_string_max(ASN1_TYPE_NUMERIC_STRING, args.call_id)
      \o rose_enc_PartyNumber(args.rerouting_number))

rose_enc_qsig_CallTransferSetup_ARG(args) ==
    Constructed(ASN1_TAG_SEQUENCE, asn1_enc_string_max(ASN1_TYPE_NUMERIC_STRING, args.call_id))

rose_enc_qsig_CallTransferActive_ARG(args) ==
    Constructed(ASN1_TAG_SEQUENCE,
         rose_enc_PresentedAddressScreened(args.connected)
      \o Opt(Has(args, "q931ie"), rose_enc_Q931ie(App(0), args.q931ie))
      \o Opt(Has(args, "connected_name"), rose_enc_qsig_Name(args.connected_name)))

rose_enc_qsig_CallTransferComplete_ARG(args) ==
    Constructed(ASN1_TAG_SEQUENCE,
         asn1_enc_int(ASN1_TYPE_ENUMERATED, args.end_designation)
      \o rose_enc_PresentedNumberScreened(args.redirection)
      \o Opt(Has(args, "q931ie"), rose_enc_Q931ie(App(0), args.q931ie))
      \o Opt(Has(args, "redirection_name"), rose_enc_qsig_Name(args.redirection_name))
      \o Opt(args.call_status # 0, asn1_enc_int(ASN1_TYPE_ENUMERATED, args.call_status)))

rose_enc_qsig_CallTransferUpdate_ARG(args) ==
    Constructed(ASN1_TAG_SEQUENCE,
         rose_enc_PresentedNumberScreened(args.redirection)
      \o Opt(Has(args, "redirection_name"), rose_enc_qsig_Name(args.redirection_name))
      \o Opt(Has(args, "q931ie"), rose_enc_Q931ie(App(0), args.q931ie)))

rose_enc_qsig_SubaddressTransfer_ARG(args) ==
    Constructed(ASN1_TAG_SEQUENCE, rose_enc_PartySubaddress(args.redirection_subaddress))

rose_enc_qsig_DummyArg_ARG(args) == asn1_enc_null(ASN1_TYPE_NULL)

rose_enc_qsig_DummyRes_RES(args) == asn1_enc_null(ASN1_TYPE_NULL)

-----------------------------------------------------------------------------

rose_dec_qsig_CallTransferIdentify_RES ==
    Is(ASN1_TAG_SEQUENCE, Sequence(<<
        Must(Is(ASN1_TYPE_NUMERIC_STRING, StrMax("call_id", 5))),
        Must(In("rerouting_number", rose_dec_PartyNumber))>>))

rose_dec_qsig_CallTransferInitiate_ARG ==
    Is(ASN1_TAG_SEQUENCE, Sequence(<<
        Must(Is(ASN1_TYPE_NUMERIC_STRING, StrMax("call_id", 5))),
        Must(In("rerouting_number", rose_dec_PartyNumber))>>))

rose_dec_qsig_CallTransferSetup_ARG ==
    Is(ASN1_TAG_SEQUENCE, Sequence(<<Must(Is(ASN1_TYPE_NUMERIC_STRING, StrMax("call_id", 5)))>>))

rose_dec_qsig_CallTransferActive_ARG ==
    Is(ASN1_TAG_SEQUENCE, Sequence(<<
        Must(In("connected", rose_dec_PresentedAddressScreened)),
        Options(<<
            IsIn(Either({App(0)}), In("q931ie", rose_dec_Q931ie(13))),
            IsIn(Either({Ctx(0), Ctx(1), Ctx(2), Ctx(3), Ctx(4), Ctx(7)}),
                In("connected_name", rose_dec_qsig_Name))>>)>>))

rose_dec_qsig_CallTransferComplete_ARG ==
    Is(ASN1_TAG_SEQUENCE, Sequence(<<
        Must(Is(ASN1_TYPE_ENUMERATED, Int8("end_designation"))),
        Must(With("call_status", 0, In("redirection", rose_dec_PresentedNumberScreened))),
        Options(<<
            IsIn(Either({App(0)}), In("q931ie", rose_dec_Q931ie(13))),
            IsIn(Either({Ctx(0), Ctx(1), Ctx(2), Ctx(3), Ctx(4), Ctx(7)}),
                In("redirection_name", rose_dec_qsig_Name)),
            IsIn(Either({ASN1_TYPE_ENUMERATED}), Int8("call_status"))>>)>>))

rose_dec_qsig_CallTransferUpdate_ARG ==
    Is(ASN1_TAG_SEQUENCE, Sequence(<<
        Must(In("redirection", rose_dec_PresentedNumberScreened)),
        Options(<<
            IsIn(Either({Ctx(0), Ctx(1), Ctx(2), Ctx(3), Ctx(4), Ctx(7)}),
                In("redirection_name", rose_dec_qsig_Name)),
            IsIn(Either({App(0)}), In("q931ie", rose_dec_Q931ie(13)))>>)>>))

rose_dec_qsig_SubaddressTransfer_ARG ==
    Is(ASN1_TAG_SEQUENCE,
        Sequence(<<Must(In("redirection_subaddress", rose_dec_PartySubaddress))>>))

rose_dec_qsig_DummyArg_ARG ==
    OneOf(<<Is(ASN1_TYPE_NULL, None), IsIn({CtxC(1), CtxC(2)}, Sequence(<<>>))>>)

rose_dec_qsig_DummyRes_RES ==
    OneOf(<<Is(ASN1_TYPE_NULL, None), IsIn({CtxC(1), CtxC(2)}, Sequence(<<>>))>>)
=============================================================================
