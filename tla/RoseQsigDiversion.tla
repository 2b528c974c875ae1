------------------------- MODULE RoseQsigDiversion --------------------------
(* Call diversion (libpri/rose_qsig_diversion.c).                           *)
EXTENDS RoseAddress, RoseQ931, RoseQsigName

rose_enc_qsig_IntResult(tag, int_result) ==
    Constructed(tag,
         rose_enc_PartyNumber(int_result.served_user_number)
      \o asn1_enc_int(ASN1_TYPE_ENUMERATED, int_result.basic_service)
      \o asn1_enc_int(ASN1_TYPE_ENUMERATED, int_result.procedure)
      \o rose_enc_Address(ASN1_TAG_SEQUENCE, int_result.diverted_to)
      \o Opt(int_result.remote_enabled # 0,
           asn1_enc_boolean(ASN1_TYPE_BOOLEAN, int_result.remote_enabled)))

rose_enc_qsig_IntResultList(tag, int_result_list) ==
    Constructed(tag, Each(rose_enc_qsig_IntResult, ASN1_TAG_SEQUENCE, int_result_list.list))

rose_enc_qsig_ActivateDiversionQ_ARG(args) ==
    Constructed(ASN1_TAG_SEQUENCE,
         asn1_enc_int(ASN1_TYPE_ENUMERATED, args.procedure)
      \o asn1_enc_int(ASN1_TYPE_ENUMERATED, args.basic_service)
      \o rose_enc_Address(ASN1_TAG_SEQUENCE, args.diverted_to)
      \o rose_enc_PartyNumber(args.served_user_number)
      \o rose_enc_PartyNumber(args.activating_user_number))

rose_enc_qsig_DeactivateDiversionQ_ARG(args) ==
    Constructed(ASN1_TAG_SEQUENCE,
         asn1_enc_int(ASN1_TYPE_ENUMERATED, args.procedure)
      \o asn1_enc_int(ASN1_TYPE_ENUMERATED, args.basic_service)
      \o rose_enc_PartyNumber(args.served_user_number)
      \o rose_enc_PartyNumber(args.deactivating_user_number))

rose_enc_qsig_InterrogateDiversionQ_ARG(args) ==
    Constructed(ASN1_TAG_SEQUENCE,
         asn1_enc_int(ASN1_TYPE_ENUMERATED, args.procedure)
      \o Opt(args.basic_service # 0, asn1_enc_int(ASN1_TYPE_ENUMERATED, args.basic_service))
      \o rose_enc_PartyNumber(args.served_user_number)
      \o rose_enc_PartyNumber(args.interrogating_user_number))

rose_enc_qsig_InterrogateDiversionQ_RES(args) == rose_enc_qsig_IntResultList(ASN1_TAG_SET, args)

rose_enc_qsig_CheckRestriction_ARG(args) ==
    Constructed(ASN1_TAG_SEQUENCE,
         rose_enc_PartyNumber(args.served_user_number)
      \o asn1_enc_int(ASN1_TYPE_ENUMERATED, args.basic_service)
      \o rose_enc_PartyNumber(args.diverted_to_number))

rose_enc_qsig_CallRerouting_ARG(args) ==
    Constructed(ASN1_TAG_SEQUENCE,
         asn1_enc_int(ASN1_TYPE_ENUMERATED, args.rerouting_reason)
      \o Opt(Has(args, "original_rerouting_reason"),
           asn1_enc_int(Ctx(0), args.original_rerouting_reason))
      \o rose_enc_Address(ASN1_TAG_SEQUENCE, args.called)
      \o asn1_enc_int(ASN1_TYPE_INTEGER, args.diversion_counter)
      \o rose_enc_Q931ie(App(0), args.q931ie)
      \o Constructed(Ctx(1), rose_enc_PresentedNumberUnscreened(args.last_rerouting))
      \o asn1_enc_int(Ctx(2), args.subscription_option)
      \o Opt(Has(args, "calling_subaddress"),
           Constructed(Ctx(3), rose_enc_PartySubaddress(args.calling_subaddress)))
      \o Constructed(Ctx(4), rose_enc_PresentedNumberScreened(args.calling))
      \o Opt(Has(args, "calling_name"),
           Constructed(Ctx(5), rose_enc_qsig_Name(args.calling_name)))
      \o Opt(Has(args, "original_called"),
           Constructed(Ctx(6), rose_enc_PresentedNumberUnscreened(args.original_called)))
      \o Opt(Has(args, "redirecting_name"),
           Constructed(Ctx(7), rose_enc_qsig_Name(args.redirecting_name)))
      \o Opt(Has(args, "original_called_name"),
           Constructed(Ctx(8), rose_enc_qsig_Name(args.original_called_name))))

rose_enc_qsig_DivertingLegInformation1_ARG(args) ==
    Constructed(ASN1_TAG_SEQUENCE,
         asn1_enc_int(ASN1_TYPE_ENUMERATED, args.diversion_reason)
      \o asn1_enc_int(ASN1_TYPE_ENUMERATED, args.subscription_option)
      \o rose_enc_PartyNumber(args.nominated_number))

rose_enc_qsig_DivertingLegInformation2_ARG(args) ==
    Constructed(ASN1_TAG_SEQUENCE,
         asn1_enc_int(ASN1_TYPE_INTEGER, args.diversion_counter)
      \o asn1_enc_int(ASN1_TYPE_ENUMERATED, args.diversion_reason)
      \o Opt(Has(args, "original_diversion_reason"),
           asn1_enc_int(Ctx(0), args.original_diversion_reason))
      \o Opt(Has(args, "diverting"),
           Constructed(Ctx(1), rose_enc_PresentedNumberUnscreened(args.diverting)))
      \o Opt(Has(args, "original_called"),
           Constructed(Ctx(2), rose_enc_PresentedNumberUnscreened(args.original_called)))
      \o Opt(Has(args, "redirecting_name"),
           Constructed(Ctx(3), rose_enc_qsig_Name(args.redirecting_name)))
      \o Opt(Has(args, "original_called_name"),
           Constructed(Ctx(4), rose_enc_qsig_Name(args.original_called_name))))

rose_enc_qsig_DivertingLegInformation3_ARG(args) ==
    Constructed(ASN1_TAG_SEQUENCE,
         asn1_enc_boolean(ASN1_TYPE_BOOLEAN, args.presentation_allowed_indicator)
      \o Opt(Has(args, "redirection_name"),
           Constructed(Ctx(0), rose_enc_qsig_Name(args.redirection_name))))

-----------------------------------------------------------------------------

rose_dec_qsig_IntResult ==
    Sequence(<<
        Must(In("served_user_number", rose_dec_PartyNumber)),
        Must(Is(ASN1_TYPE_ENUMERATED, Int8("basic_service"))),
        Must(Is(ASN1_TYPE_ENUMERATED, Int8("procedure"))),
        Must(Is(ASN1_TAG_SEQUENCE,
            With("remote_enabled", 0, In("diverted_to", rose_dec_Address)))),
        Options(<<IsIn(Either({ASN1_TYPE_BOOLEAN}), Bool("remote_enabled"))>>)>>)

rose_dec_qsig_IntResultList ==
    Sequence(<<ListOf("list", 10, Is(ASN1_TAG_SEQUENCE, rose_dec_qsig_IntResult))>>)

rose_dec_qsig_ActivateDiversionQ_ARG ==
    Is(ASN1_TAG_SEQUENCE, Sequence(<<
        Must(Is(ASN1_TYPE_ENUMERATED, Int8("procedure"))),
        Must(Is(ASN1_TYPE_ENUMERATED, Int8("basic_service"))),
        Must(Is(ASN1_TAG_SEQUENCE, In("diverted_to", rose_dec_Address))),
        Must(In("served_user_number", rose_dec_PartyNumber)),
        Must(In("activating_user_number", rose_dec_PartyNumber))>>))

rose_dec_qsig_DeactivateDiversionQ_ARG ==
    Is(ASN1_TAG_SEQUENCE, Sequence(<<
        Must(Is(ASN1_TYPE_ENUMERATED, Int8("procedure"))),
        Must(Is(ASN1_TYPE_ENUMERATED, Int8("basic_service"))),
        Must(In("served_user_number", rose_dec_PartyNumber)),
        Must(In("deactivating_user_number", rose_dec_PartyNumber))>>))

rose_dec_qsig_InterrogateDiversionQ_ARG ==
    Is(ASN1_TAG_SEQUENCE, Sequence(<<
        Must(Is(ASN1_TYPE_ENUMERATED, Int8("procedure"))),
        Default("basic_service", 0),
        May(Is(ASN1_TYPE_ENUMERATED, Int8("basic_service"))),
        Must(In("served_user_number", rose_dec_PartyNumber)),
        Must(In("interrogating_user_number", rose_dec_PartyNumber))>>))

rose_dec_qsig_InterrogateDiversionQ_RES == Is(ASN1_TAG_SET, rose_dec_qsig_IntResultList)

rose_dec_qsig_CheckRestriction_ARG ==
    Is(ASN1_TAG_SEQUENCE, Sequence(<<
        Must(In("served_user_number", rose_dec_PartyNumber)),
        Must(Is(ASN1_TYPE_ENUMERATED, Int8("basic_service"))),
        Must(In("diverted_to_number", rose_dec_PartyNumber))>>))

rose_dec_qsig_CallRerouting_ARG ==
    Is(ASN1_TAG_SEQUENCE, Sequence(<<
        Must(Is(ASN1_TYPE_ENUMERATED, Int8("rerouting_reason"))),
        May(Is(Ctx(0), Int8("original_rerouting_reason"))),
        Must(Is(ASN1_TAG_SEQUENCE, In("called", rose_dec_Address))),
        Must(Is(ASN1_TYPE_INTEGER, Int8("diversion_counter"))),
        Must(IsIn(Either({App(0)}), In("q931ie", rose_dec_Q931ie(48)))),
        Must(Is(CtxC(1),
            Sequence(<<Must(In("last_rerouting", rose_dec_PresentedNumberUnscreened))>>))),
        Must(Is(Ctx(2), Int8("subscription_option"))),
        May(Is(CtxC(3), Sequence(<<Must(In("calling_subaddress", rose_dec_PartySubaddress))>>))),
        Must(Is(CtxC(4), Sequence(<<Must(In("calling", rose_dec_PresentedNumberScreened))>>))),
        Options(<<
            Is(CtxC(5), Sequence(<<Must(In("calling_name", rose_dec_qsig_Name))>>)),
            Is(CtxC(6),
                Sequence(<<Must(In("original_called", rose_dec_PresentedNumberUnscreened))>>)),
            Is(CtxC(7), Sequence(<<Must(In("redirecting_name", rose_dec_qsig_Name))>>)),
            Is(CtxC(8), Sequence(<<Must(In("original_called_name", rose_dec_qsig_Name))>>))>>)>>))

rose_dec_qsig_DivertingLegInformation1_ARG ==
    Is(ASN1_TAG_SEQUENCE, Sequence(<<
        Must(Is(ASN1_TYPE_ENUMERATED, Int8("diversion_reason"))),
        Must(Is(ASN1_TYPE_ENUMERATED, Int8("subscription_option"))),
        Must(In("nominated_number", rose_dec_PartyNumber))>>))

rose_dec_qsig_DivertingLegInformation2_ARG ==
    Is(ASN1_TAG_SEQUENCE, Sequence(<<
        Must(Is(ASN1_TYPE_INTEGER, Int8("diversion_counter"))),
        Must(Is(ASN1_TYPE_ENUMERATED, Int8("diversion_reason"))),
        Options(<<
            Is(Ctx(0), Int8("original_diversion_reason")),
            Is(CtxC(1),
                Sequence(<<Must(In("diverting", rose_dec_PresentedNumberUnscreened))>>)),
            Is(CtxC(2),
                Sequence(<<Must(In("original_called", rose_dec_PresentedNumberUnscreened))>>)),
            Is(CtxC(3), Sequence(<<Must(In("redirecting_name", rose_dec_qsig_Name))>>)),
            Is(CtxC(4), Sequence(<<Must(In("original_called_name", rose_dec_qsig_Name))>>))>>)>>))

rose_dec_qsig_DivertingLegInformation3_ARG ==
    Is(ASN1_TAG_SEQUENCE, Sequence(<<
        Must(Is(ASN1_TYPE_BOOLEAN, Bool("presentation_allowed_indicator"))),
        Options(<<
            Is(CtxC(0), Sequence(<<Must(In("redirection_name", rose_dec_qsig_Name))>>))>>)>>))
=============================================================================
