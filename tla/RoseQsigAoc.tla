---------------------------- MODULE RoseQsigAoc -----------------------------
(* Advice of charge as Q.SIG defines it (libpri/rose_qsig_aoc.c).           *)
EXTENDS RoseAddress

rose_enc_qsig_AOC_Time(tag, time) ==
    Constructed(tag, asn1_enc_int(Ctx(1), time.length) \o asn1_enc_int(Ctx(2), time.scale))

rose_enc_qsig_AOC_Amount(tag, amount) ==
    Constructed(tag,
      asn1_enc_int(Ctx(1), amount.currency) \o asn1_enc_int(Ctx(2), amount.multiplier))

rose_enc_qsig_AOC_RecordedCurrency(tag, recorded) ==
    Constructed(tag,
         asn1_enc_string_max(Ctx(1), recorded.currency)
      \o rose_enc_qsig_AOC_Amount(Ctx(2), recorded.amount))

rose_enc_qsig_AOC_DurationCurrency(tag, duration) ==
    Constructed(tag,
         asn1_enc_string_max(Ctx(1), duration.currency)
      \o rose_enc_qsig_AOC_Amount(Ctx(2), duration.amount)
      \o asn1_enc_int(Ctx(3), duration.charging_type)
      \o rose_enc_qsig_AOC_Time(Ctx(4), duration.time)
      \o Opt(Has(duration, "granularity"), rose_enc_qsig_AOC_Time(Ctx(5), duration.granularity)))

rose_enc_qsig_AOC_FlatRateCurrency(tag, flat_rate) ==
    Constructed(tag,
         asn1_enc_string_max(Ctx(1), flat_rate.currency)
      \o rose_enc_qsig_AOC_Amount(Ctx(2), flat_rate.amount))

rose_enc_qsig_AOC_VolumeRateCurrency(tag, volume_rate) ==
    Constructed(tag,
         asn1_enc_string_max(Ctx(1), volume_rate.currency)
      \o rose_enc_qsig_AOC_Amount(Ctx(2), volume_rate.amount)
      \o asn1_enc_int(Ctx(3), volume_rate.unit))

rose_enc_qsig_AOCSCurrencyInfo(tag, currency_info) ==
    Constructed(tag,
         asn1_enc_int(ASN1_TYPE_ENUMERATED, currency_info.charged_item)
      \o (CASE currency_info.currency_type = 0 ->
                  asn1_enc_int(ASN1_TYPE_INTEGER, currency_info.special_charging_code)
            [] currency_info.currency_type = 1 ->
                  rose_enc_qsig_AOC_DurationCurrency(Ctx(1), currency_info.duration)
            [] currency_info.currency_type = 2 ->
                  rose_enc_qsig_AOC_FlatRateCurrency(Ctx(2), currency_info.flat_rate)
            [] currency_info.currency_type = 3 ->
                  rose_enc_qsig_AOC_VolumeRateCurrency(Ctx(3), currency_info.volume_rate)
            [] currency_info.currency_type = 4 -> asn1_enc_null(Ctx(4))
            [] currency_info.currency_type = 5 -> asn1_enc_null(Ctx(5))
            [] currency_info.currency_type = 6 -> asn1_enc_null(Ctx(6))))

rose_enc_qsig_AOCSCurrencyInfoList(tag, currency_info) ==
    Constructed(tag,
      Each(rose_enc_qsig_AOCSCurrencyInfo, ASN1_TAG_SEQUENCE, currency_info.list))

rose_enc_qsig_AOC_ChargingAssociation(charging) ==
    CASE charging.type = 0 -> asn1_enc_int(ASN1_TYPE_INTEGER, charging.id)
      [] charging.type = 1 -> Constructed(Ctx(0), rose_enc_PartyNumber(charging.number))

rose_enc_qsig_ChargeRequest_ARG(args) ==
    Constructed(ASN1_TAG_SEQUENCE,
      Constructed(ASN1_TAG_SEQUENCE,
        FlattenSeq([index \in DOMAIN args.advice_mode_combinations |->
          asn1_enc_int(ASN1_TYPE_ENUMERATED, args.advice_mode_combinations[index].value)])))

rose_enc_qsig_ChargeRequest_RES(args) ==
    Constructed(ASN1_TAG_SEQUENCE,
      asn1_enc_int(ASN1_TYPE_ENUMERATED, args.advice_mode_combination))

rose_enc_qsig_AocFinal_ARG(args) ==
    Constructed(ASN1_TAG_SEQUENCE,
         (CASE args.type = 0 -> asn1_enc_null(Ctx(0))
            [] args.type = 1 -> asn1_enc_null(Ctx(1))
            [] args.type = 2 ->
                  Constructed(ASN1_TAG_SEQUENCE,
                       rose_enc_qsig_AOC_RecordedCurrency(Ctx(1), args.recorded)
                    \o Opt(Has(args, "billing_id"), asn1_enc_int(Ctx(2), args.billing_id))))
      \o Opt(Has(args, "charging_association"),
           rose_enc_qsig_AOC_ChargingAssociation(args.charging_association)))

rose_enc_qsig_AocInterim_ARG(args) ==
    Constructed(ASN1_TAG_SEQUENCE,
      (CASE args.type = 0 -> asn1_enc_null(Ctx(0))
         [] args.type = 1 -> asn1_enc_null(Ctx(1))
         [] args.type = 2 ->
               Constructed(ASN1_TAG_SEQUENCE,
                    rose_enc_qsig_AOC_RecordedCurrency(Ctx(1), args.recorded)
                 \o Opt(Has(args, "billing_id"), asn1_enc_int(Ctx(2), args.billing_id)))))

rose_enc_qsig_AocRate_ARG(args) ==
    Constructed(ASN1_TAG_SEQUENCE,
      (CASE args.type = 0 -> asn1_enc_null(ASN1_TYPE_NULL)
         [] args.type = 1 ->
               rose_enc_qsig_AOCSCurrencyInfoList(ASN1_TAG_SEQUENCE, args.currency_info)))

rose_enc_qsig_AocComplete_ARG(args) ==
    Constructed(ASN1_TAG_SEQUENCE,
         rose_enc_PartyNumber(args.charged_user_number)
      \o Opt(Has(args, "charging_association"),
           rose_enc_qsig_AOC_ChargingAssociation(args.charging_association)))

rose_enc_qsig_AocComplete_RES(args) ==
    Constructed(ASN1_TAG_SEQUENCE, asn1_enc_int(ASN1_TYPE_ENUMERATED, args.charging_option))

rose_enc_qsig_AocDivChargeReq_ARG(args) ==
    Constructed(ASN1_TAG_SEQUENCE,
         rose_enc_PartyNumber(args.diverting_user_number)
      \o Opt(Has(args, "charging_association"),
           rose_enc_qsig_AOC_ChargingAssociation(args.charging_association))
      \o asn1_enc_int(ASN1_TYPE_ENUMERATED, args.diversion_type))

-----------------------------------------------------------------------------

rose_dec_qsig_AOC_Time ==
    Sequence(<<Must(Is(Ctx(1), Int32("length"))), Must(Is(Ctx(2), Int8("scale")))>>)

rose_dec_qsig_AOC_Amount ==
    Sequence(<<Must(Is(Ctx(1), Int32("currency"))), Must(Is(Ctx(2), Int8("multiplier")))>>)

rose_dec_qsig_AOC_RecordedCurrency ==
    Sequence(<<
        Must(Is(Ctx(1), StrMax("currency", 11))),
        Must(Is(CtxC(2), In("amount", rose_dec_qsig_AOC_Amount)))>>)

rose_dec_qsig_AOC_DurationCurrency ==
    Sequence(<<
        Must(Is(Ctx(1), StrMax("currency", 11))),
        Must(Is(CtxC(2), In("amount", rose_dec_qsig_AOC_Amount))),
        Must(Is(Ctx(3), Int8("charging_type"))),
        Must(Is(CtxC(4), In("time", rose_dec_qsig_AOC_Time))),
        More(<<Must(Is(CtxC(5), In("granularity", rose_dec_qsig_AOC_Time)))>>)>>)

rose_dec_qsig_AOC_FlatRateCurrency ==
    Sequence(<<
        Must(Is(Ctx(1), StrMax("currency", 11))),
        Must(Is(CtxC(2), In("amount", rose_dec_qsig_AOC_Amount)))>>)

rose_dec_qsig_AOC_VolumeRateCurrency ==
    Sequence(<<
        Must(Is(Ctx(1), StrMax("currency", 11))),
        Must(Is(CtxC(2), In("amount", rose_dec_qsig_AOC_Amount))),
        Must(Is(Ctx(3), Int8("unit")))>>)

rose_dec_qsig_AOCSCurrencyInfo ==
    Sequence(<<
        Must(Is(ASN1_TYPE_ENUMERATED, Int8("charged_item"))),
        Must(OneOf(<<
            Is(ASN1_TYPE_INTEGER, With("currency_type", 0, Int8("special_charging_code"))),
            Is(CtxC(1), With("currency_type", 1,
                In("duration", rose_dec_qsig_AOC_DurationCurrency))),
            Is(CtxC(2), With("currency_type", 2,
                In("flat_rate", rose_dec_qsig_AOC_FlatRateCurrency))),
            Is(CtxC(3), With("currency_type", 3,
                In("volume_rate", rose_dec_qsig_AOC_VolumeRateCurrency))),
            Is(Ctx(4), With("currency_type", 4, None)),
            Is(Ctx(5), With("currency_type", 5, None)),
            Is(Ctx(6), With("currency_type", 6, None))>>))>>)

rose_dec_qsig_AOCSCurrencyInfoList ==
    Sequence(<<ListOf("list", 10, Is(ASN1_TAG_SEQUENCE, rose_dec_qsig_AOCSCurrencyInfo))>>)

rose_dec_qsig_AOC_ChargingAssociation ==
    OneOf(<<
        Is(ASN1_TYPE_INTEGER, With("type", 0, IntS16("id"))),
        Is(CtxC(0), With("type", 1, Sequence(<<Must(In("number", rose_dec_PartyNumber))>>)))>>)

rose_dec_qsig_ChargeRequest_ARG ==
    Is(ASN1_TAG_SEQUENCE, Sequence(<<
        Must(Is(ASN1_TAG_SEQUENCE, Sequence(<<
            ListOf("advice_mode_combinations", 7,
                Is(ASN1_TYPE_ENUMERATED, Int8("value")))>>)))>>))

rose_dec_qsig_ChargeRequest_RES ==
    Is(ASN1_TAG_SEQUENCE,
        Sequence(<<Must(Is(ASN1_TYPE_ENUMERATED, Int8("advice_mode_combination")))>>))

rose_dec_qsig_AocFinal_ARG ==
    Is(ASN1_TAG_SEQUENCE, Sequence(<<
        MustSeqOuter(<<
                Default("type", 2),
                Must(Is(CtxC(1), In("recorded", rose_dec_qsig_AOC_RecordedCurrency))),
                More(<<Must(Is(Ctx(2), Int8("billing_id")))>>)>>,
            OneOf(<<
                Is(Ctx(0), With("type", 0, None)), Is(Ctx(1), With("type", 1, None))>>)),
        Options(<<
            IsIn({CtxC(0), ASN1_TYPE_INTEGER},
                In("charging_association", rose_dec_qsig_AOC_ChargingAssociation))>>)>>))

rose_dec_qsig_AocInterim_ARG ==
    Is(ASN1_TAG_SEQUENCE, Sequence(<<
        MustSeqOuter(<<
                Default("type", 2),
                Must(Is(CtxC(1), In("recorded", rose_dec_qsig_AOC_RecordedCurrency))),
                More(<<Must(Is(Ctx(2), Int8("billing_id")))>>)>>,
            OneOf(<<
                Is(Ctx(0), With("type", 0, None)), Is(Ctx(1), With("type", 1, None))>>))>>))

rose_dec_qsig_AocRate_ARG ==
    Is(ASN1_TAG_SEQUENCE, Sequence(<<
        Must(OneOf(<<
            Is(ASN1_TYPE_NULL, With("type", 0, None)),
            Is(ASN1_TAG_SEQUENCE, With("type", 1,
                In("currency_info", rose_dec_qsig_AOCSCurrencyInfoList)))>>))>>))

rose_dec_qsig_AocComplete_ARG ==
    Is(ASN1_TAG_SEQUENCE, Sequence(<<
        Must(In("charged_user_number", rose_dec_PartyNumber)),
        Options(<<
            IsIn({CtxC(0), ASN1_TYPE_INTEGER},
                In("charging_association", rose_dec_qsig_AOC_ChargingAssociation))>>)>>))

rose_dec_qsig_AocComplete_RES ==
    Is(ASN1_TAG_SEQUENCE, Sequence(<<Must(Is(ASN1_TYPE_ENUMERATED, Int8("charging_option")))>>))

rose_dec_qsig_AocDivChargeReq_ARG ==
    Is(ASN1_TAG_SEQUENCE, Sequence(<<
        Must(In("diverting_user_number", rose_dec_PartyNumber)),
        May(IsIn({CtxC(0), ASN1_TYPE_INTEGER},
            In("charging_association", rose_dec_qsig_AOC_ChargingAssociation))),
        Must(Is(ASN1_TYPE_ENUMERATED, Int8("diversion_type")))>>))
=============================================================================
