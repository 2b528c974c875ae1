---------------------------- MODULE RoseAddress -----------------------------
(* Numbers, subaddresses and addresses (libpri/rose_address.c).             *)
EXTENDS Asn1

rose_enc_NetworkPartyNumber(tag, number, type_of_number) ==
    Constructed(tag,
         asn1_enc_int(ASN1_TYPE_ENUMERATED, type_of_number)
      \o asn1_enc_string_bin(ASN1_TYPE_NUMERIC_STRING, number))

rose_enc_PartyNumber(party_number) ==
    CASE party_number.plan = 0 -> asn1_enc_string_bin(Ctx(0), party_number.str)
      [] party_number.plan = 1 ->
            rose_enc_NetworkPartyNumber(Ctx(1), party_number.str, party_number.ton)
      [] party_number.plan = 2 -> asn1_enc_string_bin(Ctx(2), party_number.str)
      [] party_number.plan = 3 -> asn1_enc_string_bin(Ctx(3), party_number.str)
      [] party_number.plan = 4 -> asn1_enc_string_bin(Ctx(4), party_number.str)
      [] party_number.plan = 5 ->
            rose_enc_NetworkPartyNumber(Ctx(5), party_number.str, party_number.ton)
      [] party_number.plan = 8 -> asn1_enc_string_bin(Ctx(8), party_number.str)

rose_enc_PartySubaddress(party_subaddress) ==
    CASE party_subaddress.type = 0 ->
            Constructed(ASN1_TAG_SEQUENCE,
                 asn1_enc_string_bin(ASN1_TYPE_OCTET_STRING,
                   party_subaddress.user_specified.information)
              \o Opt(Has(party_subaddress.user_specified, "odd_count"),
                   asn1_enc_boolean(ASN1_TYPE_BOOLEAN,
                     party_subaddress.user_specified.odd_count)))
      [] party_subaddress.type = 1 ->
            asn1_enc_string_bin(ASN1_TYPE_OCTET_STRING, party_subaddress.nsap)

rose_enc_Address(tag, address) ==
    Constructed(tag,
         rose_enc_PartyNumber(address.number)
      \o Opt(Has(address, "subaddress"), rose_enc_PartySubaddress(address.subaddress)))

rose_enc_PresentedNumberUnscreened(party) ==
    CASE party.presentation = 0 -> Constructed(Ctx(0), rose_enc_PartyNumber(party.number))
      [] party.presentation = 1 -> asn1_enc_null(Ctx(1))
      [] party.presentation = 2 -> asn1_enc_null(Ctx(2))
      [] party.presentation = 3 -> Constructed(Ctx(3), rose_enc_PartyNumber(party.number))

rose_enc_NumberScreened(tag, screened) ==
    Constructed(tag,
         rose_enc_PartyNumber(screened.number)
      \o asn1_enc_int(ASN1_TYPE_ENUMERATED, screened.screening_indicator))

rose_enc_PresentedNumberScreened(party) ==
    CASE party.presentation = 0 -> rose_enc_NumberScreened(Ctx(0), party.screened)
      [] party.presentation = 1 -> asn1_enc_null(Ctx(1))
      [] party.presentation = 2 -> asn1_enc_null(Ctx(2))
      [] party.presentation = 3 -> rose_enc_NumberScreened(Ctx(3), party.screened)

rose_enc_AddressScreened(tag, screened) ==
    Constructed(tag,
         rose_enc_PartyNumber(screened.number)
      \o asn1_enc_int(ASN1_TYPE_ENUMERATED, screened.screening_indicator)
      \o Opt(Has(screened, "subaddress"), rose_enc_PartySubaddress(screened.subaddress)))

rose_enc_PresentedAddressScreened(party) ==
    CASE party.presentation = 0 -> rose_enc_AddressScreened(Ctx(0), party.screened)
      [] party.presentation = 1 -> asn1_enc_null(Ctx(1))
      [] party.presentation = 2 -> asn1_enc_null(Ctx(2))
      [] party.presentation = 3 -> rose_enc_AddressScreened(Ctx(3), party.screened)

-----------------------------------------------------------------------------

rose_dec_NumberDigits == StrMax("str", 21)

rose_dec_NSAPPartyNumber == StrBin("str", 21)

rose_dec_NetworkPartyNumber ==
    Sequence(<<
        Must(Is(ASN1_TYPE_ENUMERATED, Int8("ton"))),
        Must(IsIn(Either({ASN1_TYPE_NUMERIC_STRING}), rose_dec_NumberDigits))>>)

rose_dec_PartyNumber ==
    With("ton", 0, OneOf(<<
        IsIn(Either({Ctx(0)}), With("plan", 0, rose_dec_NumberDigits)),
        IsIn(Either({Ctx(1)}), With("plan", 1, rose_dec_NetworkPartyNumber)),
        IsIn(Either({Ctx(2)}), With("plan", 2, rose_dec_NSAPPartyNumber)),
        IsIn(Either({Ctx(3)}), With("plan", 3, rose_dec_NumberDigits)),
        IsIn(Either({Ctx(4)}), With("plan", 4, rose_dec_NumberDigits)),
        IsIn(Either({Ctx(5)}), With("plan", 5, rose_dec_NetworkPartyNumber)),
        IsIn(Either({Ctx(8)}), With("plan", 8, rose_dec_NumberDigits))>>))

rose_dec_UserSubaddress ==
    With("type", 0, In("user_specified", Sequence(<<
        Must(IsIn(Either({ASN1_TYPE_OCTET_STRING}), StrBin("information", 21))),
        More(<<Must(Is(ASN1_TYPE_BOOLEAN, Bool("odd_count")))>>)>>)))

rose_dec_NSAPSubaddress == With("type", 1, StrBin("nsap", 21))

rose_dec_PartySubaddress ==
    OneOf(<<
        Is(ASN1_TAG_SEQUENCE, rose_dec_UserSubaddress),
        IsIn({ASN1_TYPE_OCTET_STRING, ASN1_TYPE_OCTET_STRING + ASN1_PC_CONSTRUCTED},
            rose_dec_NSAPSubaddress)>>)

rose_dec_Address ==
    Sequence(<<
        Must(In("number", rose_dec_PartyNumber)),
        More(<<Must(In("subaddress", rose_dec_PartySubaddress))>>)>>)

rose_dec_PresentedNumberUnscreened ==
    OneOf(<<
        Is(CtxC(0),
            Sequence(<<Must(With("presentation", 0, In("number", rose_dec_PartyNumber)))>>)),
        Is(Ctx(1), With("presentation", 1, None)),
        Is(Ctx(2), With("presentation", 2, None)),
        Is(CtxC(3),
            Sequence(<<Must(With("presentation", 3, In("number", rose_dec_PartyNumber)))>>))>>)

rose_dec_NumberScreened ==
    Sequence(<<
        Must(In("number", rose_dec_PartyNumber)),
        Must(Is(ASN1_TYPE_ENUMERATED, Int8("screening_indicator")))>>)

rose_dec_PresentedNumberScreened ==
    OneOf(<<
        Is(CtxC(0), With("presentation", 0, In("screened", rose_dec_NumberScreened))),
        Is(Ctx(1), With("presentation", 1, None)),
        Is(Ctx(2), With("presentation", 2, None)),
        Is(CtxC(3), With("presentation", 3, In("screened", rose_dec_NumberScreened)))>>)

rose_dec_AddressScreened ==
    Sequence(<<
        Must(In("number", rose_dec_PartyNumber)),
        Must(Is(ASN1_TYPE_ENUMERATED, Int8("screening_indicator"))),
        More(<<Must(In("subaddress", rose_dec_PartySubaddress))>>)>>)

rose_dec_PresentedAddressScreened ==
    OneOf(<<
        Is(CtxC(0), With("presentation", 0, In("screened", rose_dec_AddressScreened))),
        Is(Ctx(1), With("presentation", 1, None)),
        Is(Ctx(2), With("presentation", 2, None)),
        Is(CtxC(3), With("presentation", 3, In("screened", rose_dec_AddressScreened)))>>)
=============================================================================
