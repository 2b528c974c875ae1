-------------------------------- MODULE Rose --------------------------------
(* The remote operations of Q.932 facilities (libpri/rose.c): which         *)
(* operations and errors each kind of switch knows, and the components that *)
(* carry them.                                                              *)
EXTENDS RoseEtsiAoc, RoseQsigAoc, RoseQsigCt, RoseQsigDiversion, RoseQsigMwi, RoseOther

(* The row of an operation: its value, what it is recognised by, and the    *)
(* parts that follow it in an invoke and in a result.  An object identifier *)
(* without values counts as the local value 0.                              *)
rose_ni2_oid == <<42, 840, 10005, 0>>
Local(operation, value, arg, res) ==
    [name |-> operation, value |-> [local |-> value], invoke |-> arg, result |-> res,
     keys |-> {[local |-> value]} \cup (IF value = 0 THEN {[oid |-> <<>>]} ELSE {})]
OfNi2(operation, value, arg, res) ==
    [name |-> operation, value |-> [oid |-> Append(rose_ni2_oid, value)],
     invoke |-> arg, result |-> res, keys |-> {[oid |-> Append(rose_ni2_oid, value)]}]
Args(decoder) == <<Must(In("args", decoder))>>

rose_etsi_msgs == <<
    Local("ROSE_ETSI_ChargingRequest", 30,
        Args(rose_dec_etsi_ChargingRequest_ARG), Args(rose_dec_etsi_ChargingRequest_RES)),
    Local("ROSE_ETSI_AOCSCurrency", 31, Args(rose_dec_etsi_AOCSCurrency_ARG), <<>>),
    Local("ROSE_ETSI_AOCSSpecialArr", 32, Args(rose_dec_etsi_AOCSSpecialArr_ARG), <<>>),
    Local("ROSE_ETSI_AOCDCurrency", 33, Args(rose_dec_etsi_AOCDCurrency_ARG), <<>>),
    Local("ROSE_ETSI_AOCDChargingUnit", 34, Args(rose_dec_etsi_AOCDChargingUnit_ARG), <<>>),
    Local("ROSE_ETSI_AOCECurrency", 35, Args(rose_dec_etsi_AOCECurrency_ARG), <<>>),
    Local("ROSE_ETSI_AOCEChargingUnit", 36, Args(rose_dec_etsi_AOCEChargingUnit_ARG), <<>>)>>

rose_qsig_msgs == <<
    Local("ROSE_QSIG_CallingName", 0, Args(rose_dec_qsig_CallingName_ARG), <<>>),
    Local("ROSE_QSIG_CalledName", 1, Args(rose_dec_qsig_CalledName_ARG), <<>>),
    Local("ROSE_QSIG_ConnectedName", 2, Args(rose_dec_qsig_ConnectedName_ARG), <<>>),
    Local("ROSE_QSIG_BusyName", 3, Args(rose_dec_qsig_BusyName_ARG), <<>>),
    Local("ROSE_QSIG_ChargeRequest", 59,
        Args(rose_dec_qsig_ChargeRequest_ARG), Args(rose_dec_qsig_ChargeRequest_RES)),
    Local("ROSE_QSIG_GetFinalCharge", 60, Args(rose_dec_qsig_DummyArg_ARG), <<>>),
    Local("ROSE_QSIG_AocFinal", 61, Args(rose_dec_qsig_AocFinal_ARG), <<>>),
    Local("ROSE_QSIG_AocInterim", 62, Args(rose_dec_qsig_AocInterim_ARG), <<>>),
    Local("ROSE_QSIG_AocRate", 63, Args(rose_dec_qsig_AocRate_ARG), <<>>),
    Local("ROSE_QSIG_AocComplete", 64,
        Args(rose_dec_qsig_AocComplete_ARG), Args(rose_dec_qsig_AocComplete_RES)),
    Local("ROSE_QSIG_AocDivChargeReq", 65, Args(rose_dec_qsig_AocDivChargeReq_ARG), <<>>),
    Local("ROSE_QSIG_CallTransferIdentify", 7,
        Args(rose_dec_qsig_DummyArg_ARG), Args(rose_dec_qsig_CallTransferIdentify_RES)),
    Local("ROSE_QSIG_CallTransferAbandon", 8, Args(rose_dec_qsig_DummyArg_ARG), <<>>),
    Local("ROSE_QSIG_CallTransferInitiate", 9,
        Args(rose_dec_qsig_CallTransferInitiate_ARG), Args(rose_dec_qsig_DummyRes_RES)),
    Local("ROSE_QSIG_CallTransferSetup", 10,
        Args(rose_dec_qsig_CallTransferSetup_ARG), Args(rose_dec_qsig_DummyRes_RES)),
    Local("ROSE_QSIG_CallTransferActive", 11, Args(rose_dec_qsig_CallTransferActive_ARG), <<>>),
    Local("ROSE_QSIG_CallTransferComplete", 12,
        Args(rose_dec_qsig_CallTransferComplete_ARG), <<>>),
    Local("ROSE_QSIG_CallTransferUpdate", 13, Args(rose_dec_qsig_CallTransferUpdate_ARG), <<>>),
    Local("ROSE_QSIG_SubaddressTransfer", 14, Args(rose_dec_qsig_SubaddressTransfer_ARG), <<>>),
    Local("ROSE_QSIG_PathReplacement", 4, <<>>, <<>>),
    Local("ROSE_QSIG_ActivateDiversionQ", 15,
        Args(rose_dec_qsig_ActivateDiversionQ_ARG), Args(rose_dec_qsig_DummyRes_RES)),
    Local("ROSE_QSIG_DeactivateDiversionQ", 16,
        Args(rose_dec_qsig_DeactivateDiversionQ_ARG), Args(rose_dec_qsig_DummyRes_RES)),
    Local("ROSE_QSIG_InterrogateDiversionQ", 17,
        Args(rose_dec_qsig_InterrogateDiversionQ_ARG),
        Args(rose_dec_qsig_InterrogateDiversionQ_RES)),
    Local("ROSE_QSIG_CheckRestriction", 18,
        Args(rose_dec_qsig_CheckRestriction_ARG), Args(rose_dec_qsig_DummyRes_RES)),
    Local("ROSE_QSIG_CallRerouting", 19,
        Args(rose_dec_qsig_CallRerouting_ARG), Args(rose_dec_qsig_DummyRes_RES)),
    Local("ROSE_QSIG_DivertingLegInformation1", 20,
        Args(rose_dec_qsig_DivertingLegInformation1_ARG), <<>>),
    Local("ROSE_QSIG_DivertingLegInformation2", 21,
        Args(rose_dec_qsig_DivertingLegInformation2_ARG), <<>>),
    Local("ROSE_QSIG_DivertingLegInformation3", 22,
        Args(rose_dec_qsig_DivertingLegInformation3_ARG), <<>>),
    Local("ROSE_QSIG_CfnrDivertedLegFailed", 23, Args(rose_dec_qsig_DummyArg_ARG), <<>>),
    Local("ROSE_QSIG_MWIActivate", 80,
        Args(rose_dec_qsig_MWIActivate_ARG), Args(rose_dec_qsig_DummyRes_RES)),
    Local("ROSE_QSIG_MWIDeactivate", 81,
        Args(rose_dec_qsig_MWIDeactivate_ARG), Args(rose_dec_qsig_DummyRes_RES)),
    Local("ROSE_QSIG_MWIInterrogate", 82,
        Args(rose_dec_qsig_MWIInterrogate_ARG), Args(rose_dec_qsig_MWIInterrogate_RES))>>

rose_dms100_msgs == <<
    Local("ROSE_DMS100_RLT_OperationInd", 1, <<>>, Args(rose_dec_dms100_RLT_OperationInd_RES)),
    Local("ROSE_DMS100_RLT_ThirdParty", 2, Args(rose_dec_dms100_RLT_ThirdParty_ARG), <<>>)>>

rose_ni2_msgs == <<
    Local("ROSE_QSIG_CallingName", 0, Args(rose_dec_qsig_CallingName_ARG), <<>>),
    Local("ROSE_QSIG_CalledName", 1, Args(rose_dec_qsig_CalledName_ARG), <<>>),
    Local("ROSE_QSIG_ConnectedName", 2, Args(rose_dec_qsig_ConnectedName_ARG), <<>>),
    Local("ROSE_QSIG_BusyName", 3, Args(rose_dec_qsig_BusyName_ARG), <<>>),
    OfNi2("ROSE_NI2_InformationFollowing", 4, Args(rose_dec_ni2_InformationFollowing_ARG), <<>>),
    OfNi2("ROSE_NI2_InitiateTransfer", 8, Args(rose_dec_ni2_InitiateTransfer_ARG), <<>>)>>

rose_etsi_errors == <<
    <<"ROSE_ERROR_Gen_NotSubscribed", 0>>, <<"ROSE_ERROR_Gen_NotAvailable", 3>>,
    <<"ROSE_ERROR_Gen_NotImplemented", 4>>, <<"ROSE_ERROR_Gen_InvalidServedUserNr", 6>>,
    <<"ROSE_ERROR_Gen_InvalidCallState", 7>>, <<"ROSE_ERROR_Gen_BasicServiceNotProvided", 8>>,
    <<"ROSE_ERROR_Gen_NotIncomingCall", 9>>,
    <<"ROSE_ERROR_Gen_SupplementaryServiceInteractionNotAllowed", 10>>,
    <<"ROSE_ERROR_Gen_ResourceUnavailable", 11>>,
    <<"ROSE_ERROR_AOC_NoChargingInfoAvailable", 26>>>>

rose_qsig_errors == <<
    <<"ROSE_ERROR_Gen_NotSubscribed", 0>>, <<"ROSE_ERROR_Gen_RejectedByNetwork", 1>>,
    <<"ROSE_ERROR_Gen_RejectedByUser", 2>>, <<"ROSE_ERROR_Gen_NotAvailable", 3>>,
    <<"ROSE_ERROR_Gen_InsufficientInformation", 5>>,
    <<"ROSE_ERROR_Gen_InvalidServedUserNr", 6>>, <<"ROSE_ERROR_Gen_InvalidCallState", 7>>,
    <<"ROSE_ERROR_Gen_BasicServiceNotProvided", 8>>, <<"ROSE_ERROR_Gen_NotIncomingCall", 9>>,
    <<"ROSE_ERROR_Gen_SupplementaryServiceInteractionNotAllowed", 10>>,
    <<"ROSE_ERROR_Gen_ResourceUnavailable", 11>>, <<"ROSE_ERROR_Gen_CallFailure", 25>>,
    <<"ROSE_ERROR_Gen_ProceduralError", 43>>, <<"ROSE_ERROR_QSIG_Unspecified", 1008>>,
    <<"ROSE_ERROR_QSIG_AOC_FreeOfCharge", 1016>>,
    <<"ROSE_ERROR_QSIG_CT_InvalidReroutingNumber", 1004>>,
    <<"ROSE_ERROR_QSIG_CT_UnrecognizedCallIdentity", 1005>>,
    <<"ROSE_ERROR_QSIG_CT_EstablishmentFailure", 1006>>,
    <<"ROSE_ERROR_Div_InvalidDivertedToNr", 12>>, <<"ROSE_ERROR_Div_SpecialServiceNr", 14>>,
    <<"ROSE_ERROR_Div_DiversionToServedUserNr", 15>>,
    <<"ROSE_ERROR_Div_NumberOfDiversionsExceeded", 24>>,
    <<"ROSE_ERROR_QSIG_Div_TemporarilyUnavailable", 1000>>,
    <<"ROSE_ERROR_QSIG_Div_NotAuthorized", 1007>>,
    <<"ROSE_ERROR_QSIG_InvalidMsgCentreId", 1018>>>>

rose_dms100_errors == <<
    <<"ROSE_ERROR_DMS100_RLT_BridgeFail", 16>>, <<"ROSE_ERROR_DMS100_RLT_CallIDNotFound", 17>>,
    <<"ROSE_ERROR_DMS100_RLT_NotAllowed", 18>>, <<"ROSE_ERROR_DMS100_RLT_SwitchEquipCongs", 19>>>>

rose_ni2_errors == <<
    <<"ROSE_ERROR_Gen_NotSubscribed", 0>>, <<"ROSE_ERROR_Gen_RejectedByNetwork", 1>>,
    <<"ROSE_ERROR_Gen_RejectedByUser", 2>>, <<"ROSE_ERROR_Gen_NotAvailable", 3>>,
    <<"ROSE_ERROR_Gen_InsufficientInformation", 5>>,
    <<"ROSE_ERROR_Gen_InvalidServedUserNr", 6>>, <<"ROSE_ERROR_Gen_InvalidCallState", 7>>,
    <<"ROSE_ERROR_Gen_BasicServiceNotProvided", 8>>, <<"ROSE_ERROR_Gen_NotIncomingCall", 9>>,
    <<"ROSE_ERROR_Gen_SupplementaryServiceInteractionNotAllowed", 10>>,
    <<"ROSE_ERROR_Gen_ResourceUnavailable", 11>>, <<"ROSE_ERROR_Gen_CallFailure", 25>>,
    <<"ROSE_ERROR_Gen_ProceduralError", 43>>>>

----------------------------------------------------------------------------
(* What a kind of switch uses.  Errors have local values and no parameters. *)
EuroIsdn == {"PRI_SWITCH_EUROISDN_T1", "PRI_SWITCH_EUROISDN_E1"}
National == {"PRI_SWITCH_ATT4ESS", "PRI_SWITCH_LUCENT5E", "PRI_SWITCH_NI2"}
Messages(switchtype) ==
    CASE switchtype \in EuroIsdn -> rose_etsi_msgs
      [] switchtype = "PRI_SWITCH_QSIG" -> rose_qsig_msgs
      [] switchtype = "PRI_SWITCH_DMS100" -> rose_dms100_msgs
      [] switchtype \in National -> rose_ni2_msgs
      [] OTHER -> <<>>
ErrorValues(switchtype) ==
    CASE switchtype \in EuroIsdn -> rose_etsi_errors
      [] switchtype = "PRI_SWITCH_QSIG" -> rose_qsig_errors
      [] switchtype = "PRI_SWITCH_DMS100" -> rose_dms100_errors
      [] switchtype \in National -> rose_ni2_errors
      [] OTHER -> <<>>
Errors(switchtype) ==
    LET codes == ErrorValues(switchtype)
    IN  [i \in DOMAIN codes |-> Local(codes[i][1], codes[i][2], <<>>, <<>>)]

(* The row of a name, if there is one. *)
rose_find_by_code(rows, name) == {row \in Range(rows) : row.name = name}

encode_invoke_args(operation, args) ==
    CASE operation = "ROSE_ETSI_ChargingRequest" -> rose_enc_etsi_ChargingRequest_ARG(args)
      [] operation = "ROSE_ETSI_AOCSCurrency" -> rose_enc_etsi_AOCSCurrency_ARG(args)
      [] operation = "ROSE_ETSI_AOCSSpecialArr" -> rose_enc_etsi_AOCSSpecialArr_ARG(args)
      [] operation = "ROSE_ETSI_AOCDCurrency" -> rose_enc_etsi_AOCDCurrency_ARG(args)
      [] operation = "ROSE_ETSI_AOCDChargingUnit" -> rose_enc_etsi_AOCDChargingUnit_ARG(args)
      [] operation = "ROSE_ETSI_AOCECurrency" -> rose_enc_etsi_AOCECurrency_ARG(args)
      [] operation = "ROSE_ETSI_AOCEChargingUnit" -> rose_enc_etsi_AOCEChargingUnit_ARG(args)
      [] operation = "ROSE_QSIG_CallingName" -> rose_enc_qsig_CallingName_ARG(args)
      [] operation = "ROSE_QSIG_CalledName" -> rose_enc_qsig_CalledName_ARG(args)
      [] operation = "ROSE_QSIG_ConnectedName" -> rose_enc_qsig_ConnectedName_ARG(args)
      [] operation = "ROSE_QSIG_BusyName" -> rose_enc_qsig_BusyName_ARG(args)
      [] operation = "ROSE_QSIG_ChargeRequest" -> rose_enc_qsig_ChargeRequest_ARG(args)
      [] operation \in {"ROSE_QSIG_GetFinalCharge", "ROSE_QSIG_CallTransferIdentify",
                       "ROSE_QSIG_CallTransferAbandon", "ROSE_QSIG_CfnrDivertedLegFailed"} ->
            rose_enc_qsig_DummyArg_ARG(args)
      [] operation = "ROSE_QSIG_AocFinal" -> rose_enc_qsig_AocFinal_ARG(args)
      [] operation = "ROSE_QSIG_AocInterim" -> rose_enc_qsig_AocInterim_ARG(args)
      [] operation = "ROSE_QSIG_AocRate" -> rose_enc_qsig_AocRate_ARG(args)
      [] operation = "ROSE_QSIG_AocComplete" -> rose_enc_qsig_AocComplete_ARG(args)
      [] operation = "ROSE_QSIG_AocDivChargeReq" -> rose_enc_qsig_AocDivChargeReq_ARG(args)
      [] operation = "ROSE_QSIG_CallTransferInitiate" ->
            rose_enc_qsig_CallTransferInitiate_ARG(args)
      [] operation = "ROSE_QSIG_CallTransferSetup" -> rose_enc_qsig_CallTransferSetup_ARG(args)
      [] operation = "ROSE_QSIG_CallTransferActive" ->
            rose_enc_qsig_CallTransferActive_ARG(args)
      [] operation = "ROSE_QSIG_CallTransferComplete" ->
            rose_enc_qsig_CallTransferComplete_ARG(args)
      [] operation = "ROSE_QSIG_CallTransferUpdate" ->
            rose_enc_qsig_CallTransferUpdate_ARG(args)
      [] operation = "ROSE_QSIG_SubaddressTransfer" ->
            rose_enc_qsig_SubaddressTransfer_ARG(args)
      [] operation = "ROSE_QSIG_ActivateDiversionQ" ->
            rose_enc_qsig_ActivateDiversionQ_ARG(args)
      [] operation = "ROSE_QSIG_DeactivateDiversionQ" ->
            rose_enc_qsig_DeactivateDiversionQ_ARG(args)
      [] operation = "ROSE_QSIG_InterrogateDiversionQ" ->
            rose_enc_qsig_InterrogateDiversionQ_ARG(args)
      [] operation = "ROSE_QSIG_CheckRestriction" -> rose_enc_qsig_CheckRestriction_ARG(args)
      [] operation = "ROSE_QSIG_CallRerouting" -> rose_enc_qsig_CallRerouting_ARG(args)
      [] operation = "ROSE_QSIG_DivertingLegInformation1" ->
            rose_enc_qsig_DivertingLegInformation1_ARG(args)
      [] operation = "ROSE_QSIG_DivertingLegInformation2" ->
            rose_enc_qsig_DivertingLegInformation2_ARG(args)
      [] operation = "ROSE_QSIG_DivertingLegInformation3" ->
            rose_enc_qsig_DivertingLegInformation3_ARG(args)
      [] operation = "ROSE_QSIG_MWIActivate" -> rose_enc_qsig_MWIActivate_ARG(args)
      [] operation = "ROSE_QSIG_MWIDeactivate" -> rose_enc_qsig_MWIDeactivate_ARG(args)
      [] operation = "ROSE_QSIG_MWIInterrogate" -> rose_enc_qsig_MWIInterrogate_ARG(args)
      [] operation = "ROSE_DMS100_RLT_ThirdParty" -> rose_enc_dms100_RLT_ThirdParty_ARG(args)
      [] operation = "ROSE_NI2_InformationFollowing" ->
            rose_enc_ni2_InformationFollowing_ARG(args)
      [] operation = "ROSE_NI2_InitiateTransfer" -> rose_enc_ni2_InitiateTransfer_ARG(args)
      [] OTHER -> <<>>

encode_result_args(operation, args) ==
    CASE operation = "ROSE_ETSI_ChargingRequest" -> rose_enc_etsi_ChargingRequest_RES(args)
      [] operation = "ROSE_QSIG_ChargeRequest" -> rose_enc_qsig_ChargeRequest_RES(args)
      [] operation = "ROSE_QSIG_AocComplete" -> rose_enc_qsig_AocComplete_RES(args)
      [] operation = "ROSE_QSIG_CallTransferIdentify" ->
            rose_enc_qsig_CallTransferIdentify_RES(args)
      [] operation \in {"ROSE_QSIG_CallTransferInitiate", "ROSE_QSIG_CallTransferSetup",
                       "ROSE_QSIG_ActivateDiversionQ", "ROSE_QSIG_DeactivateDiversionQ",
                       "ROSE_QSIG_CheckRestriction", "ROSE_QSIG_CallRerouting",
                       "ROSE_QSIG_MWIActivate", "ROSE_QSIG_MWIDeactivate"} ->
            rose_enc_qsig_DummyRes_RES(args)
      [] operation = "ROSE_QSIG_InterrogateDiversionQ" ->
            rose_enc_qsig_InterrogateDiversionQ_RES(args)
      [] operation = "ROSE_QSIG_MWIInterrogate" -> rose_enc_qsig_MWIInterrogate_RES(args)
      [] operation = "ROSE_DMS100_RLT_OperationInd" ->
            rose_enc_dms100_RLT_OperationInd_RES(args)
      [] OTHER -> <<>>

----------------------------------------------------------------------------
(* Encoders of components, headers and the messages they make.  Null: the   *)
(* switch has no such operation or error.                                   *)
rose_enc_operation_value(value) ==
    IF Has(value, "oid") THEN asn1_enc_oid(ASN1_TYPE_OBJECT_IDENTIFIER, value.oid)
    ELSE asn1_enc_int(ASN1_TYPE_INTEGER, value.local)

ArgsOf(msg) == IF Has(msg, "args") THEN msg.args ELSE << >>

rose_encode_invoke(switchtype, msg) ==
    LET found == rose_find_by_code(Messages(switchtype), msg.operation)
    IN  IF found = {} THEN Null
        ELSE Constructed(CtxC(1),
                  asn1_enc_int(ASN1_TYPE_INTEGER, msg.invoke_id)
               \o Opt(Has(msg, "linked_id"), asn1_enc_int(Ctx(0), msg.linked_id))
               \o rose_enc_operation_value(The(found).value)
               \o encode_invoke_args(msg.operation, ArgsOf(msg)))

rose_encode_result(switchtype, msg) ==
    LET found == rose_find_by_code(Messages(switchtype), msg.operation)
    IN  IF msg.operation # "ROSE_None" /\ found = {} THEN Null
        ELSE Constructed(CtxC(2),
                  asn1_enc_int(ASN1_TYPE_INTEGER, msg.invoke_id)
               \o Opt(msg.operation # "ROSE_None", Constructed(ASN1_TAG_SEQUENCE,
                       rose_enc_operation_value(The(found).value)
                    \o encode_result_args(msg.operation, ArgsOf(msg)))))

rose_encode_error(switchtype, msg) ==
    LET found == rose_find_by_code(Errors(switchtype), msg.code)
    IN  IF found = {} THEN Null
        ELSE Constructed(CtxC(3),
                  asn1_enc_int(ASN1_TYPE_INTEGER, msg.invoke_id)
               \o rose_enc_operation_value(The(found).value))

(* A problem is one of the general ones or of those of one component type. *)
rose_encode_reject(msg) ==
    Constructed(CtxC(4),
         (IF Has(msg, "invoke_id") THEN asn1_enc_int(ASN1_TYPE_INTEGER, msg.invoke_id)
          ELSE asn1_enc_null(ASN1_TYPE_NULL))
      \o asn1_enc_int(Ctx(msg.code.base), msg.code.problem))

rose_encode(switchtype, msg) ==
    CASE msg.type = "ROSE_COMP_TYPE_INVOKE" -> rose_encode_invoke(switchtype, msg)
      [] msg.type = "ROSE_COMP_TYPE_RESULT" -> rose_encode_result(switchtype, msg)
      [] msg.type = "ROSE_COMP_TYPE_ERROR" -> rose_encode_error(switchtype, msg)
      [] msg.type = "ROSE_COMP_TYPE_REJECT" -> rose_encode_reject(msg)

fac_enc_nfe(nfe) ==
    Constructed(Ctx(10),
         asn1_enc_int(Ctx(0), nfe.source_entity)
      \o Opt(Has(nfe, "source_number"),
           Constructed(Ctx(1), rose_enc_PartyNumber(nfe.source_number)))
      \o asn1_enc_int(Ctx(2), nfe.destination_entity)
      \o Opt(Has(nfe, "destination_number"),
           Constructed(Ctx(3), rose_enc_PartyNumber(nfe.destination_number))))

fac_enc_extension_header(header) ==
       Opt(Has(header, "nfe"), fac_enc_nfe(header.nfe))
    \o Opt(Has(header, "npp"), asn1_enc_int(Ctx(18), header.npp))
    \o Opt(Has(header, "interpretation"), asn1_enc_int(Ctx(11), header.interpretation))

Q932_PROTOCOL_ROSE == 17
Q932_PROTOCOL_EXTENSIONS == 31
ROSE_DMS100_RLT_SERVICE_ID == 62
(* A header without components is given as the empty record. *)
facility_encode_header(switchtype, header) ==
    CASE switchtype \in EuroIsdn -> <<128 + Q932_PROTOCOL_ROSE>>
      [] switchtype = "PRI_SWITCH_QSIG" ->
            <<128 + Q932_PROTOCOL_EXTENSIONS>> \o fac_enc_extension_header(header)
      [] switchtype = "PRI_SWITCH_DMS100" ->
            <<Q932_PROTOCOL_ROSE, 128 + ROSE_DMS100_RLT_SERVICE_ID>>
      [] switchtype \in National ->
            (IF header = << >> THEN <<128 + Q932_PROTOCOL_ROSE>>
             ELSE <<128 + Q932_PROTOCOL_EXTENSIONS>> \o fac_enc_extension_header(header))
      [] OTHER -> Null

----------------------------------------------------------------------------
(* Decoders.                                                               *)
InvokeId == Is(ASN1_TYPE_INTEGER, IntS16("invoke_id"))
Value == OneOf(<<Is(ASN1_TYPE_INTEGER, Int32("local")),
                 Is(ASN1_TYPE_OBJECT_IDENTIFIER, Oid("oid"))>>)

(* An operation of an invoke or of a result with what follows it. *)
Operation(rows, component) ==
    Select("operation", Value,
        [i \in DOMAIN rows |->
            [name |-> rows[i].name, keys |-> rows[i].keys, parts |-> rows[i][component]]],
        [name |-> "ROSE_Unknown", parts |-> <<>>])

rose_decode_invoke(switchtype) ==
    Sequence(<<Must(InvokeId),
               May(Is(Ctx(0), IntS16("linked_id"))),
               Operation(Messages(switchtype), "invoke")>>)

rose_decode_result(switchtype) ==
    Sequence(<<Must(InvokeId),
               Default("operation", "ROSE_None"),
               More(<<Must(Is(ASN1_TAG_SEQUENCE,
                        Sequence(<<Operation(Messages(switchtype), "result")>>)))>>)>>)

rose_decode_error(switchtype) ==
    Sequence(<<Must(InvokeId),
               Select("code", Value,
                   [i \in DOMAIN Errors(switchtype) |->
                       Errors(switchtype)[i] @@ [parts |-> <<>>]],
                   [name |-> "ROSE_ERROR_Unknown", parts |-> <<>>])>>)

Problem(base) == Is(Ctx(base), In("code", With("base", base, Int8("problem"))))
rose_decode_reject ==
    Sequence(<<Must(OneOf(<<InvokeId, Is(ASN1_TYPE_NULL, None)>>)),
               Must(OneOf(<<Problem(0), Problem(1), Problem(2), Problem(3)>>))>>)

(* One component; what follows it is left alone. *)
rose_decode(switchtype) ==
    OneOf(<<Is(CtxC(1), With("type", "ROSE_COMP_TYPE_INVOKE", rose_decode_invoke(switchtype))),
            Is(CtxC(2), With("type", "ROSE_COMP_TYPE_RESULT", rose_decode_result(switchtype))),
            Is(CtxC(3), With("type", "ROSE_COMP_TYPE_ERROR", rose_decode_error(switchtype))),
            Is(CtxC(4), With("type", "ROSE_COMP_TYPE_REJECT", rose_decode_reject))>>)

Explicit(field) == Sequence(<<MustOuter(In(field, rose_dec_PartyNumber))>>)
fac_dec_nfe ==
    Sequence(<<Must(Is(Ctx(0), Int8("source_entity"))),
               May(Is(CtxC(1), Explicit("source_number"))),
               Must(Is(Ctx(2), Int8("destination_entity"))),
               More(<<May(Is(CtxC(3), Explicit("destination_number")))>>)>>)

fac_dec_extension_header ==
    <<Options(<<Is(CtxC(10), In("nfe", fac_dec_nfe)),
                Is(Ctx(18), Int8("npp")),
                Is(Ctx(11), Int8("interpretation"))>>)>>

(* The protocol, then after its octets, of which there are two when the     *)
(* first one has no extension bit, the header.                              *)
facility_decode_header(o) ==
    LET first == IF o[1] < 128 THEN 3 ELSE 2
    IN  IF Len(o) < 2 THEN Null
        ELSE IF o[1] % 32 \notin {Q932_PROTOCOL_ROSE, Q932_PROTOCOL_EXTENSIONS} THEN Null
        ELSE Parts(fac_dec_extension_header, o, first, Len(o) + 1, Len(o) + 1, << >>)
=============================================================================
