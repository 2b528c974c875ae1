---------------------------- MODULE RoseEtsiAoc -----------------------------
(* Advice of charge as ETSI defines it (libpri/rose_etsi_aoc.c).            *)
EXTENDS RoseAddress

rose_enc_etsi_AOC_Time(tag, time) ==
    Constructed(tag, asn1_enc_int(Ctx(1), time.length) \o asn1_enc_int(Ctx(2), time.scale))

rose_enc_etsi_AOC_Amount(tag, amount) ==
    Constructed(tag,
      asn1_enc_int(Ctx(1), amount.currency) \o asn1_enc_int(Ctx(2), amount.multiplier))

rose_enc_etsi_AOC_RecordedCurrency(tag, recorded) ==
    Constructed(tag,
         asn1_enc_string_max(Ctx(1), recorded.currency)
      \o rose_enc_etsi_AOC_Amount(Ctx(2), recorded.amount))

rose_enc_etsi_AOC_DurationCurrency(tag, duration) ==
    Constructed(tag,
         asn1_enc_string_max(Ctx(1), duration.currency)
      \o rose_enc_etsi_AOC_Amount(Ctx(2), duration.amount)
      \o asn1_enc_int(Ctx(3), duration.charging_type)
      \o rose_enc_etsi_AOC_Time(Ctx(4), duration.time)
      \o Opt(Has(duration, "granularity"), rose_enc_etsi_AOC_Time(Ctx(5), duration.granularity)))

rose_enc_etsi_AOC_FlatRateCurrency(tag, flat_rate) ==
    Constructed(tag,
         asn1_enc_string_max(Ctx(1), flat_rate.currency)
      \o rose_enc_etsi_AOC_Amount(Ctx(2), flat_rate.amount))

rose_enc_etsi_AOC_VolumeRateCurrency(tag, volume_rate) ==
    Constructed(tag,
         asn1_enc_string_max(Ctx(1), volume_rate.currency)
      \o rose_enc_etsi_AOC_Amount(Ctx(2), volume_rate.amount)
      \o asn1_enc_int(Ctx(3), volume_rate.unit))

rose_enc_etsi_AOCSCurrencyInfo(tag, currency_info) ==
    Constructed(tag,
         asn1_enc_int(ASN1_TYPE_ENUMERATED, currency_info.charged_item)
      \o (CASE currency_info.currency_type = 0 ->
                  asn1_enc_int(ASN1_TYPE_INTEGER, currency_info.special_charging_code)
            [] currency_info.currency_type = 1 ->
                  rose_enc_etsi_AOC_DurationCurrency(Ctx(1), currency_info.duration)
            [] currency_info.currency_type = 2 ->
                  rose_enc_etsi_AOC_FlatRateCurrency(Ctx(2), currency_info.flat_rate)
            [] currency_info.currency_type = 3 ->
                  rose_enc_etsi_AOC_VolumeRateCurrency(Ctx(3), currency_info.volume_rate)
            [] currency_info.currency_type = 4 -> asn1_enc_null(Ctx(4))
            [] currency_info.currency_type = 5 -> asn1_enc_null(Ctx(5))))

rose_enc_etsi_AOCSCurrencyInfoList(tag, currency_info) ==
    Constructed(tag,
      Each(rose_enc_etsi_AOCSCurrencyInfo, ASN1_TAG_SEQUENCE, currency_info.list))

rose_enc_etsi_AOC_RecordedUnits(tag, recorded) ==
    Constructed(tag,
         (IF recorded.not_available # 0
          THEN asn1_enc_null(ASN1_TYPE_NULL)
          ELSE asn1_enc_int(ASN1_TYPE_INTEGER, recorded.number_of_units))
      \o Opt(Has(recorded, "type_of_unit"),
           asn1_enc_int(ASN1_TYPE_INTEGER, recorded.type_of_unit)))

rose_enc_etsi_AOC_RecordedUnitsList(tag, recorded_info) ==
    Constructed(tag,
      Each(rose_enc_etsi_AOC_RecordedUnits, ASN1_TAG_SEQUENCE, recorded_info.list))

rose_enc_etsi_AOC_ChargingAssociation(charging) ==
    CASE charging.type = 0 -> asn1_enc_int(ASN1_TYPE_INTEGER, charging.id)
      [] charging.type = 1 -> Constructed(Ctx(0), rose_enc_PartyNumber(charging.number))

rose_enc_etsi_AOCECurrencyInfo(tag, currency_info) ==
    Constructed(tag,
         (IF currency_info.free_of_charge # 0
          THEN asn1_enc_null(Ctx(1))
          ELSE Constructed(ASN1_TAG_SEQUENCE,
                    rose_enc_etsi_AOC_RecordedCurrency(Ctx(1), currency_info.recorded)
                 \o Opt(Has(currency_info, "billing_id"),
                      asn1_enc_int(Ctx(2), currency_info.billing_id))))
      \o Opt(Has(currency_info, "charging_association"),
           rose_enc_etsi_AOC_ChargingAssociation(currency_info.charging_association)))

rose_enc_etsi_AOCEChargingUnitInfo(tag, charging_unit) ==
    Constructed(tag,
         (IF charging_unit.free_of_charge # 0
          THEN asn1_enc_null(Ctx(1))
          ELSE Constructed(ASN1_TAG_SEQUENCE,
                    rose_enc_etsi_AOC_RecordedUnitsList(Ctx(1), charging_unit.recorded)
                 \o Opt(Has(charging_unit, "billing_id"),
                      asn1_enc_int(Ctx(2), charging_unit.billing_id))))
      \o Opt(Has(charging_unit, "charging_association"),
           rose_enc_etsi_AOC_ChargingAssociation(charging_unit.charging_association)))

rose_enc_etsi_ChargingRequest_ARG(args) ==
    asn1_enc_int(ASN1_TYPE_ENUMERATED, args.charging_case)

rose_enc_etsi_ChargingRequest_RES(args) ==
    CASE args.type = 0 ->
            rose_enc_etsi_AOCSCurrencyInfoList(ASN1_TAG_SEQUENCE, args.currency_info)
      [] args.type = 1 -> asn1_enc_int(ASN1_TYPE_INTEGER, args.special_arrangement)
      [] args.type = 2 -> asn1_enc_null(ASN1_TYPE_NULL)

rose_enc_etsi_AOCSCurrency_ARG(args) ==
    CASE args.type = 0 -> asn1_enc_null(ASN1_TYPE_NULL)
      [] args.type = 1 ->
            rose_enc_etsi_AOCSCurrencyInfoList(ASN1_TAG_SEQUENCE, args.currency_info)

rose_enc_etsi_AOCSSpecialArr_ARG(args) ==
    CASE args.type = 0 -> asn1_enc_null(ASN1_TYPE_NULL)
      [] args.type = 1 -> asn1_enc_int(ASN1_TYPE_INTEGER, args.special_arrangement)

rose_enc_etsi_AOCDCurrency_ARG(args) ==
    CASE args.type = 0 -> asn1_enc_null(ASN1_TYPE_NULL)
      [] args.type = 1 -> asn1_enc_null(Ctx(1))
      [] args.type = 2 ->
            Constructed(ASN1_TAG_SEQUENCE,
                 rose_enc_etsi_AOC_RecordedCurrency(Ctx(1), args.recorded)
              \o asn1_enc_int(Ctx(2), args.type_of_charging_info)
              \o Opt(Has(args, "billing_id"), asn1_enc_int(Ctx(3), args.billing_id)))

rose_enc_etsi_AOCDChargingUnit_ARG(args) ==
    CASE args.type = 0 -> asn1_enc_null(ASN1_TYPE_NULL)
      [] args.type = 1 -> asn1_enc_null(Ctx(1))
      [] args.type = 2 ->
            Constructed(ASN1_TAG_SEQUENCE,
                 rose_enc_etsi_AOC_RecordedUnitsList(Ctx(1), args.recorded)
              \o asn1_enc_int(Ctx(2), args.type_of_charging_info)
              \o Opt(Has(args, "billing_id"), asn1_enc_int(Ctx(3), args.billing_id)))

rose_enc_etsi_AOCECurrency_ARG(args) ==
    CASE args.type = 0 -> asn1_enc_null(ASN1_TYPE_NULL)
      [] args.type = 1 -> rose_enc_etsi_AOCECurrencyInfo(ASN1_TAG_SEQUENCE, args.currency_info)

rose_enc_etsi_AOCEChargingUnit_ARG(args) ==
    CASE args.type = 0 -> asn1_enc_null(ASN1_TYPE_NULL)
      [] args.type = 1 ->
            rose_enc_etsi_AOCEChargingUnitInfo(ASN1_TAG_SEQUENCE, args.charging_unit)

-----------------------------------------------------------------------------

rose_dec_etsi_AOC_Time ==
    Sequence(<<Must(Is(Ctx(1), Int32("length"))), Must(Is(Ctx(2), Int8("scale")))>>)

rose_dec_etsi_AOC_Amount ==
    Sequence(<<Must(Is(Ctx(1), Int32("currency"))), Must(Is(Ctx(2), Int8("multiplier")))>>)

rose_dec_etsi_AOC_RecordedCurrency ==
    Sequence(<<
        Must(Is(Ctx(1), StrMax("currency", 11))),
        Must(Is(CtxC(2), In("amount", rose_dec_etsi_AOC_Amount)))>>)

rose_dec_etsi_AOC_DurationCurrency ==
    Sequence(<<
        Must(Is(Ctx(1), StrMax("currency", 11))),
        Must(Is(CtxC(2), In("amount", rose_dec_etsi_AOC_Amount))),
        Must(Is(Ctx(3), Int8("charging_type"))),
        Must(Is(CtxC(4), In("time", rose_dec_etsi_AOC_Time))),
        More(<<Must(Is(CtxC(5), In("granularity", rose_dec_etsi_AOC_Time)))>>)>>)

rose_dec_etsi_AOC_FlatRateCurrency ==
    Sequence(<<
        Must(Is(Ctx(1), StrMax("currency", 11))),
        Must(Is(CtxC(2), In("amount", rose_dec_etsi_AOC_Amount)))>>)

rose_dec_etsi_AOC_VolumeRateCurrency ==
    Sequence(<<
        Must(Is(Ctx(1), StrMax("currency", 11))),
        Must(Is(CtxC(2), In("amount", rose_dec_etsi_AOC_Amount))),
        Must(Is(Ctx(3), Int8("unit")))>>)

rose_dec_etsi_AOCSCurrencyInfo ==
    Sequence(<<
        Must(Is(ASN1_TYPE_ENUMERATED, Int8("charged_item"))),
        Must(OneOf(<<
            Is(ASN1_TYPE_INTEGER, With("currency_type", 0, Int8("special_charging_code"))),
            Is(CtxC(1), With("currency_type", 1,
                In("duration", rose_dec_etsi_AOC_DurationCurrency))),
            Is(CtxC(2), With("currency_type", 2,
                In("flat_rate", rose_dec_etsi_AOC_FlatRateCurrency))),
            Is(CtxC(3), With("currency_type", 3,
                In("volume_rate", rose_dec_etsi_AOC_VolumeRateCurrency))),
            Is(Ctx(4), With("currency_type", 4, None)),
            Is(Ctx(5), With("currency_type", 5, None))>>))>>)

rose_dec_etsi_AOCSCurrencyInfoList ==
    Sequence(<<ListOf("list", 10, Is(ASN1_TAG_SEQUENCE, rose_dec_etsi_AOCSCurrencyInfo))>>)

rose_dec_etsi_AOC_RecordedUnits ==
    Sequence(<<
        Must(OneOf(<<
            Is(ASN1_TYPE_INTEGER, With("not_available", 0, Int32("number_of_units"))),
            Is(ASN1_TYPE_NULL, With("not_available", 1, With("number_of_units", 0, None)))>>)),
        More(<<Must(Is(ASN1_TYPE_INTEGER, Int8("type_of_unit")))>>)>>)

rose_dec_etsi_AOC_RecordedUnitsList ==
    Sequence(<<ListOf("list", 32, Is(ASN1_TAG_SEQUENCE, rose_dec_etsi_AOC_RecordedUnits))>>)

rose_dec_etsi_AOC_ChargingAssociation ==
    OneOf(<<
        Is(ASN1_TYPE_INTEGER, With("type", 0, IntS16("id"))),
        Is(CtxC(0), With("type", 1, Sequence(<<Must(In("number", rose_dec_PartyNumber))>>)))>>)

rose_dec_etsi_AOCECurrencyInfo ==
    Sequence(<<
        MustSeqOuter(<<
                Default("free_of_charge", 0),
                Must(Is(CtxC(1), In("recorded", rose_dec_etsi_AOC_RecordedCurrency))),
                More(<<Must(Is(Ctx(2), Int8("billing_id")))>>)>>,
            Is(Ctx(1), With("free_of_charge", 1, None))),
        More(<<Must(In("charging_association", rose_dec_etsi_AOC_ChargingAssociation))>>)>>)

rose_dec_etsi_AOCEChargingUnitInfo ==
    Sequence(<<
        MustSeqOuter(<<
                Default("free_of_charge", 0),
                Must(Is(CtxC(1), In("recorded", rose_dec_etsi_AOC_RecordedUnitsList))),
                More(<<Must(Is(Ctx(2), Int8("billing_id")))>>)>>,
            Is(Ctx(1), With("free_of_charge", 1, None))),
        More(<<Must(In("charging_association", rose_dec_etsi_AOC_ChargingAssociation))>>)>>)

rose_dec_etsi_ChargingRequest_ARG == Is(ASN1_TYPE_ENUMERATED, Int8("charging_case"))

rose_dec_etsi_ChargingRequest_RES ==
    OneOf(<<
        Is(ASN1_TAG_SEQUENCE,
            With("type", 0, In("currency_info", rose_dec_etsi_AOCSCurrencyInfoList))),
        Is(ASN1_TYPE_INTEGER, With("type", 1, Int8("special_arrangement"))),
        Is(ASN1_TYPE_NULL, With("type", 2, None))>>)

rose_dec_etsi_AOCSCurrency_ARG ==
    OneOf(<<
        Is(ASN1_TYPE_NULL, With("type", 0, None)),
        Is(ASN1_TAG_SEQUENCE,
            With("type", 1, In("currency_info", rose_dec_etsi_AOCSCurrencyInfoList)))>>)

rose_dec_etsi_AOCSSpecialArr_ARG ==
    OneOf(<<
        Is(ASN1_TYPE_NULL, With("type", 0, None)),
        Is(ASN1_TYPE_INTEGER, With("type", 1, Int8("special_arrangement")))>>)

rose_dec_etsi_AOCDCurrency_ARG ==
    OneOf(<<
        Is(ASN1_TYPE_NULL, With("type", 0, None)), Is(Ctx(1), With("type", 1, None)),
        Is(ASN1_TAG_SEQUENCE, With("type", 2, Sequence(<<
            Must(Is(CtxC(1), In("recorded", rose_dec_etsi_AOC_RecordedCurrency))),
            Must(Is(Ctx(2), Int8("type_of_charging_info"))),
            More(<<Must(Is(Ctx(3), Int8("billing_id")))>>)>>)))>>)

rose_dec_etsi_AOCDChargingUnit_ARG ==
    OneOf(<<
        Is(ASN1_TYPE_NULL, With("type", 0, None)), Is(Ctx(1), With("type", 1, None)),
        Is(ASN1_TAG_SEQUENCE, With("type", 2, Sequence(<<
            Must(Is(CtxC(1), In("recorded", rose_dec_etsi_AOC_RecordedUnitsList))),
            Must(Is(Ctx(2), Int8("type_of_charging_info"))),
            More(<<Must(Is(Ctx(3), Int8("billing_id")))>>)>>)))>>)

rose_dec_etsi_AOCECurrency_ARG ==
    OneOf(<<
        Is(ASN1_TYPE_NULL, With("type", 0, None)),
        Is(ASN1_TAG_SEQUENCE,
            With("type", 1, In("currency_info", rose_dec_etsi_AOCECurrencyInfo)))>>)

rose_dec_etsi_AOCEChargingUnit_ARG ==
    OneOf(<<
        Is(ASN1_TYPE_NULL, With("type", 0, None)),
        Is(ASN1_TAG_SEQUENCE,
            With("type", 1, In("charging_unit", rose_dec_etsi_AOCEChargingUnitInfo)))>>)
=============================================================================
