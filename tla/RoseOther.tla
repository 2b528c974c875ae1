----------------------------- MODULE RoseOther ------------------------------
(* The operations of DMS-100 and NI2 switches (libpri/rose_other.c).        *)
EXTENDS Asn1

rose_enc_dms100_RLT_OperationInd_RES(args) == asn1_enc_int(Ctx(0), args.call_id)

rose_enc_dms100_RLT_ThirdParty_ARG(args) ==
    Constructed(ASN1_TAG_SEQUENCE,
      asn1_enc_int(Ctx(0), args.call_id) \o asn1_enc_int(Ctx(1), args.reason))

rose_enc_ni2_InformationFollowing_ARG(args) == asn1_enc_int(ASN1_TYPE_ENUMERATED, args.value)

rose_enc_ni2_InitiateTransfer_ARG(args) ==
    Constructed(ASN1_TAG_SEQUENCE, asn1_enc_int(ASN1_TYPE_INTEGER, args.call_reference))

-----------------------------------------------------------------------------

rose_dec_dms100_RLT_OperationInd_RES == Is(Ctx(0), Int32("call_id"))

rose_dec_dms100_RLT_ThirdParty_ARG ==
    Is(ASN1_TAG_SEQUENCE,
        Sequence(<<Must(Is(Ctx(0), Int32("call_id"))), Must(Is(Ctx(1), Int8("reason")))>>))

rose_dec_ni2_InformationFollowing_ARG == Is(ASN1_TYPE_ENUMERATED, Int8("value"))

rose_dec_ni2_InitiateTransfer_ARG ==
    Is(ASN1_TAG_SEQUENCE, Sequence(<<Must(Is(ASN1_TYPE_INTEGER, Int16("call_reference")))>>))
=============================================================================
