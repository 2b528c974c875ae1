----------------------------- MODULE RoseTypes ------------------------------
(* The messages of libpri/rose.h.  A structure is the set of the records    *)
(* that stand for its values: a flag "_present" is the presence of the      *)
(* field it is about, a string with its length is a sequence of octets.     *)
(*                                                                          *)
(* The sets are samples.  A structure has a typical value, and every other  *)
(* value of it differs from that one in one field or in which optional      *)
(* fields it has; a field that says which others there are is a union.      *)
EXTENDS Asn1

Typical(S) == CHOOSE v \in S : TRUE
AllTypical(fields) == [f \in DOMAIN fields |-> Typical(fields[f])]
OneChanged(fields) ==
    UNION {{[AllTypical(fields) EXCEPT ![f] = v] : v \in fields[f]} : f \in DOMAIN fields}
WithOptional(fields, optional) ==
    LET required == AllTypical(fields)
    IN  OneChanged(fields)
        \cup {AllTypical([f \in S |-> optional[f]]) @@ required : S \in SUBSET DOMAIN optional}
        \cup UNION {{f :> v @@ required : v \in optional[f]} : f \in DOMAIN optional}

(* A list: empty, of one, of two, and with as many elements as fit. *)
Lists(S, max) ==
    {[list |-> l] : l \in {<<>>, <<Typical(S)>>, [index \in 1 .. max |-> Typical(S)]}
                          \cup {<<v, Typical(S)>> : v \in S}}

Enum == {1, 4}
u_int8_t == {0, 127, 128, 255}
u_int16_t == {0, 127, 128, 32768, 65535}
int16_t == {-32768, -129, -128, -1, 0, 128, 32767}
u_int32_t == {0, 128, 32768, 8388608, 16777216, 2147483647}
(* A string of one character and one as long as fits.  One that is given    *)
(* with its length may contain a zero octet.                                *)
Text(n) == {<<49>>, [i \in 1 .. n |-> 48 + i]}
Octets(n) == {<<0>>, [i \in 1 .. n |-> (i * 128) % 256]}

----------------------------------------------------------------------------
(* Numbers, subaddresses, addresses and names.                              *)
roseQ931ie(max) == [contents : Octets(max)]
rosePartyNumber ==
    [plan : {0, 3, 4, 8}, ton : {0}, str : {<<49>>}]
    \cup [plan : {1, 5}, ton : {0, 4}, str : {<<49>>}]
    \cup [plan : {0, 1}, ton : {0}, str : Text(20)] \cup [plan : {2}, ton : {0}, str : Octets(20)]
rosePartySubaddress ==
    [type : {0}, user_specified : WithOptional([information |-> Octets(20)],
                                               [odd_count |-> {0, 1}])]
    \cup [type : {1}, nsap : Octets(20)]
roseAddress ==
    WithOptional([number |-> rosePartyNumber], [subaddress |-> rosePartySubaddress])
roseNumberScreened ==
    OneChanged([number |-> rosePartyNumber, screening_indicator |-> Enum])
roseAddressScreened ==
    WithOptional([number |-> rosePartyNumber, screening_indicator |-> Enum],
                 [subaddress |-> rosePartySubaddress])
NotPresented == [presentation : {1, 2}]
rosePresentedNumberUnscreened ==
    [presentation : {0, 3}, number : rosePartyNumber] \cup NotPresented
rosePresentedNumberScreened ==
    [presentation : {0, 3}, screened : roseNumberScreened] \cup NotPresented
rosePresentedAddressScreened ==
    [presentation : {0, 3}, screened : roseAddressScreened] \cup NotPresented

(* A name that is present has its data and the character set of it.  One    *)
(* that is not present at all is not encoded.                               *)
roseQsigName ==
    OneChanged([presentation |-> {1, 2}, char_set |-> {1}, data |-> Text(50)])
    \cup [presentation : {1, 2}, char_set : {0, 4, 255}, data : {<<49>>}]
    \cup [presentation : {3, 4}, char_set : {1}]
roseQsigPartyName_ARG == [name : roseQsigName]

----------------------------------------------------------------------------
(* Advice of charge.                                                        *)
roseEtsiAOCTime == OneChanged([length |-> u_int32_t, scale |-> Enum])
roseEtsiAOCAmount == OneChanged([currency |-> u_int32_t, multiplier |-> Enum])
roseEtsiAOCRecordedCurrency == OneChanged([currency |-> Text(10), amount |-> roseEtsiAOCAmount])
roseEtsiAOCDurationCurrency ==
    WithOptional([currency |-> Text(10), amount |-> roseEtsiAOCAmount,
                  charging_type |-> Enum, time |-> roseEtsiAOCTime],
                 [granularity |-> roseEtsiAOCTime])
roseEtsiAOCFlatRateCurrency == roseEtsiAOCRecordedCurrency
roseEtsiAOCVolumeRateCurrency ==
    OneChanged([currency |-> Text(10), amount |-> roseEtsiAOCAmount, unit |-> Enum])
AnyRate(noInfo) ==
    [charged_item : Enum, currency_type : {0}, special_charging_code : u_int8_t]
    \cup [charged_item : {1}, currency_type : {1}, duration : roseEtsiAOCDurationCurrency]
    \cup [charged_item : {1}, currency_type : {2}, flat_rate : roseEtsiAOCFlatRateCurrency]
    \cup [charged_item : {1}, currency_type : {3}, volume_rate : roseEtsiAOCVolumeRateCurrency]
    \cup [charged_item : Enum, currency_type : noInfo]
roseEtsiAOCSCurrencyInfo == AnyRate({4, 5})
roseEtsiAOCSCurrencyInfoList == Lists(roseEtsiAOCSCurrencyInfo, 10)
roseEtsiAOCRecordedUnits ==
    WithOptional([not_available |-> {0}, number_of_units |-> u_int32_t],
                 [type_of_unit |-> u_int8_t])
    \cup WithOptional([not_available |-> {1}, number_of_units |-> {0}], [type_of_unit |-> {1}])
roseEtsiAOCRecordedUnitsList == Lists(roseEtsiAOCRecordedUnits, 32)
roseEtsiAOCChargingAssociation ==
    [type : {0}, id : int16_t] \cup [type : {1}, number : rosePartyNumber]
Association == [charging_association |-> roseEtsiAOCChargingAssociation]
Billing == [billing_id |-> u_int8_t]
roseEtsiAOCECurrencyInfo ==
    WithOptional([free_of_charge |-> {0}, recorded |-> roseEtsiAOCRecordedCurrency],
                 Billing @@ Association)
    \cup WithOptional([free_of_charge |-> {1}], Association)
roseEtsiAOCEChargingUnitInfo ==
    WithOptional([free_of_charge |-> {0}, recorded |-> roseEtsiAOCRecordedUnitsList],
                 Billing @@ Association)
    \cup WithOptional([free_of_charge |-> {1}], Association)
roseEtsiChargingRequest_ARG == [charging_case : Enum]
roseEtsiChargingRequest_RES ==
    [type : {0}, currency_info : roseEtsiAOCSCurrencyInfoList]
    \cup [type : {1}, special_arrangement : u_int8_t] \cup [type : {2}]
roseEtsiAOCSCurrency_ARG ==
    [type : {0}] \cup [type : {1}, currency_info : roseEtsiAOCSCurrencyInfoList]
roseEtsiAOCSSpecialArr_ARG == [type : {0}] \cup [type : {1}, special_arrangement : u_int8_t]
roseEtsiAOCDCurrency_ARG ==
    [type : {0, 1}]
    \cup WithOptional([type |-> {2}, recorded |-> roseEtsiAOCRecordedCurrency,
                       type_of_charging_info |-> Enum], Billing)
roseEtsiAOCDChargingUnit_ARG ==
    [type : {0, 1}]
    \cup WithOptional([type |-> {2}, recorded |-> roseEtsiAOCRecordedUnitsList,
                       type_of_charging_info |-> Enum], Billing)
roseEtsiAOCECurrency_ARG ==
    [type : {0}] \cup [type : {1}, currency_info : roseEtsiAOCECurrencyInfo]
roseEtsiAOCEChargingUnit_ARG ==
    [type : {0}] \cup [type : {1}, charging_unit : roseEtsiAOCEChargingUnitInfo]

(* Q.SIG defines the same amounts, times and rates again. *)
roseQsigAOCRecordedCurrency == roseEtsiAOCRecordedCurrency
roseQsigAOCSCurrencyInfo == AnyRate({4, 5, 6})
roseQsigAOCSCurrencyInfoList == Lists(roseQsigAOCSCurrencyInfo, 10)
roseQsigAOCChargingAssociation == roseEtsiAOCChargingAssociation
roseQsigAocRateArg_ARG ==
    [type : {0}] \cup [type : {1}, currency_info : roseQsigAOCSCurrencyInfoList]
roseQsigAocInterimArg_ARG ==
    [type : {0, 1}]
    \cup WithOptional([type |-> {2}, recorded |-> roseQsigAOCRecordedCurrency], Billing)
roseQsigAocFinalArg_ARG ==
    WithOptional([type |-> {0, 1}], Association)
    \cup WithOptional([type |-> {2}, recorded |-> roseQsigAOCRecordedCurrency],
                      Billing @@ Association)
roseQsigChargeRequestArg_ARG ==
    [advice_mode_combinations : {m.list : m \in Lists([value : u_int8_t], 7)}]
roseQsigChargeRequestRes_RES == [advice_mode_combination : Enum]
roseQsigAocCompleteArg_ARG ==
    WithOptional([charged_user_number |-> rosePartyNumber], Association)
roseQsigAocCompleteRes_RES == [charging_option : Enum]
roseQsigAocDivChargeReqArg_ARG ==
    WithOptional([diverting_user_number |-> rosePartyNumber, diversion_type |-> Enum],
                 Association)

----------------------------------------------------------------------------
(* Call transfer.                                                           *)
roseQsigCTIdentifyRes_RES ==
    OneChanged([call_id |-> Text(4), rerouting_number |-> rosePartyNumber])
roseQsigCTInitiateArg_ARG == roseQsigCTIdentifyRes_RES
roseQsigCTSetupArg_ARG == [call_id : Text(4)]
roseQsigCTActiveArg_ARG ==
    WithOptional([connected |-> rosePresentedAddressScreened],
                 [q931ie |-> roseQ931ie(12), connected_name |-> roseQsigName])
roseQsigCTCompleteArg_ARG ==
    WithOptional([end_designation |-> Enum, call_status |-> {0, 1},
                  redirection |-> rosePresentedNumberScreened],
                 [q931ie |-> roseQ931ie(12), redirection_name |-> roseQsigName])
roseQsigCTUpdateArg_ARG ==
    WithOptional([redirection |-> rosePresentedNumberScreened],
                 [q931ie |-> roseQ931ie(12), redirection_name |-> roseQsigName])
roseQsigSubaddressTransferArg_ARG == [redirection_subaddress : rosePartySubaddress]
Dummy == {<<>>}

----------------------------------------------------------------------------
(* Call diversion.                                                          *)
roseQsigForwardingRecord ==
    OneChanged([served_user_number |-> rosePartyNumber, basic_service |-> Enum,
                procedure |-> Enum, diverted_to |-> roseAddress, remote_enabled |-> {0, 1}])
roseQsigForwardingList == Lists(roseQsigForwardingRecord, 10)
roseQsigActivateDiversionQ_ARG ==
    OneChanged([procedure |-> Enum, basic_service |-> Enum, diverted_to |-> roseAddress,
                served_user_number |-> rosePartyNumber,
                activating_user_number |-> rosePartyNumber])
roseQsigDeactivateDiversionQ_ARG ==
    OneChanged([procedure |-> Enum, basic_service |-> Enum,
                served_user_number |-> rosePartyNumber,
                deactivating_user_number |-> rosePartyNumber])
roseQsigInterrogateDiversionQ_ARG ==
    OneChanged([procedure |-> Enum, basic_service |-> {0, 1},
                served_user_number |-> rosePartyNumber,
                interrogating_user_number |-> rosePartyNumber])
roseQsigCheckRestriction_ARG ==
    OneChanged([served_user_number |-> rosePartyNumber, basic_service |-> Enum,
                diverted_to_number |-> rosePartyNumber])
roseQsigCallRerouting_ARG ==
    WithOptional([rerouting_reason |-> Enum, called |-> roseAddress,
                  diversion_counter |-> u_int8_t, q931ie |-> roseQ931ie(47),
                  last_rerouting |-> rosePresentedNumberUnscreened,
                  subscription_option |-> Enum, calling |-> rosePresentedNumberScreened],
                 [original_rerouting_reason |-> Enum, calling_subaddress |-> rosePartySubaddress,
                  calling_name |-> roseQsigName,
                  original_called |-> rosePresentedNumberUnscreened,
                  redirecting_name |-> roseQsigName, original_called_name |-> roseQsigName])
roseQsigDivertingLegInformation1_ARG ==
    OneChanged([diversion_reason |-> Enum, subscription_option |-> Enum,
                nominated_number |-> rosePartyNumber])
roseQsigDivertingLegInformation2_ARG ==
    WithOptional([diversion_counter |-> u_int8_t, diversion_reason |-> Enum],
                 [original_diversion_reason |-> Enum,
                  diverting |-> rosePresentedNumberUnscreened,
                  original_called |-> rosePresentedNumberUnscreened,
                  redirecting_name |-> roseQsigName, original_called_name |-> roseQsigName])
roseQsigDivertingLegInformation3_ARG ==
    WithOptional([presentation_allowed_indicator |-> {0, 1}], [redirection_name |-> roseQsigName])

----------------------------------------------------------------------------
(* Message waiting indication, and the operations of other switches.        *)
roseQsigMsgCentreId ==
    [type : {0}, integer : u_int16_t] \cup [type : {1}, number : rosePartyNumber]
    \cup [type : {2}, str : Text(10)]
MessageWaiting ==
    [msg_centre_id |-> roseQsigMsgCentreId, number_of_messages |-> u_int16_t,
     originating_number |-> rosePartyNumber, timestamp |-> Text(19), priority |-> u_int8_t]
roseQsigMWIActivateArg ==
    WithOptional([served_user_number |-> rosePartyNumber, basic_service |-> Enum], MessageWaiting)
roseQsigMWIDeactivateArg ==
    WithOptional([served_user_number |-> rosePartyNumber, basic_service |-> Enum],
                 [msg_centre_id |-> roseQsigMsgCentreId])
roseQsigMWIInterrogateArg == roseQsigMWIDeactivateArg
roseQsigMWIInterrogateResElt == WithOptional([basic_service |-> Enum], MessageWaiting)
roseQsigMWIInterrogateRes == Lists(roseQsigMWIInterrogateResElt, 10)
roseDms100RLTOperationInd_RES == [call_id : u_int32_t]
roseDms100RLTThirdParty_ARG == OneChanged([call_id |-> u_int32_t, reason |-> u_int8_t])
roseNi2InformationFollowing_ARG == [value : u_int8_t]
roseNi2InitiateTransfer_ARG == [call_reference : u_int16_t]

facNetworkFacilityExtension ==
    WithOptional([source_entity |-> {0, 1}, destination_entity |-> {0, 1}],
                 [source_number |-> rosePartyNumber, destination_number |-> rosePartyNumber])

----------------------------------------------------------------------------
(* What goes with each operation, in an invoke and in a result.  Dummy: the *)
(* operation has an argument without content.                               *)
rose_msg_invoke_etsi_args ==
    [ROSE_ETSI_ChargingRequest |-> roseEtsiChargingRequest_ARG,
     ROSE_ETSI_AOCSCurrency |-> roseEtsiAOCSCurrency_ARG,
     ROSE_ETSI_AOCSSpecialArr |-> roseEtsiAOCSSpecialArr_ARG,
     ROSE_ETSI_AOCDCurrency |-> roseEtsiAOCDCurrency_ARG,
     ROSE_ETSI_AOCDChargingUnit |-> roseEtsiAOCDChargingUnit_ARG,
     ROSE_ETSI_AOCECurrency |-> roseEtsiAOCECurrency_ARG,
     ROSE_ETSI_AOCEChargingUnit |-> roseEtsiAOCEChargingUnit_ARG]

rose_msg_result_etsi_args ==
    [ROSE_ETSI_ChargingRequest |-> roseEtsiChargingRequest_RES]

rose_msg_invoke_qsig_args ==
    [ROSE_QSIG_CallingName |-> roseQsigPartyName_ARG,
     ROSE_QSIG_CalledName |-> roseQsigPartyName_ARG,
     ROSE_QSIG_ConnectedName |-> roseQsigPartyName_ARG,
     ROSE_QSIG_BusyName |-> roseQsigPartyName_ARG,
     ROSE_QSIG_ChargeRequest |-> roseQsigChargeRequestArg_ARG,
     ROSE_QSIG_AocFinal |-> roseQsigAocFinalArg_ARG,
     ROSE_QSIG_AocInterim |-> roseQsigAocInterimArg_ARG,
     ROSE_QSIG_AocRate |-> roseQsigAocRateArg_ARG,
     ROSE_QSIG_AocComplete |-> roseQsigAocCompleteArg_ARG,
     ROSE_QSIG_AocDivChargeReq |-> roseQsigAocDivChargeReqArg_ARG,
     ROSE_QSIG_CallTransferInitiate |-> roseQsigCTInitiateArg_ARG,
     ROSE_QSIG_CallTransferSetup |-> roseQsigCTSetupArg_ARG,
     ROSE_QSIG_CallTransferActive |-> roseQsigCTActiveArg_ARG,
     ROSE_QSIG_CallTransferComplete |-> roseQsigCTCompleteArg_ARG,
     ROSE_QSIG_CallTransferUpdate |-> roseQsigCTUpdateArg_ARG,
     ROSE_QSIG_SubaddressTransfer |-> roseQsigSubaddressTransferArg_ARG,
     ROSE_QSIG_ActivateDiversionQ |-> roseQsigActivateDiversionQ_ARG,
     ROSE_QSIG_DeactivateDiversionQ |-> roseQsigDeactivateDiversionQ_ARG,
     ROSE_QSIG_InterrogateDiversionQ |-> roseQsigInterrogateDiversionQ_ARG,
     ROSE_QSIG_CheckRestriction |-> roseQsigCheckRestriction_ARG,
     ROSE_QSIG_CallRerouting |-> roseQsigCallRerouting_ARG,
     ROSE_QSIG_DivertingLegInformation1 |-> roseQsigDivertingLegInformation1_ARG,
     ROSE_QSIG_DivertingLegInformation2 |-> roseQsigDivertingLegInformation2_ARG,
     ROSE_QSIG_DivertingLegInformation3 |-> roseQsigDivertingLegInformation3_ARG,
     ROSE_QSIG_MWIActivate |-> roseQsigMWIActivateArg,
     ROSE_QSIG_MWIDeactivate |-> roseQsigMWIDeactivateArg,
     ROSE_QSIG_MWIInterrogate |-> roseQsigMWIInterrogateArg,
     ROSE_QSIG_GetFinalCharge |-> Dummy,
     ROSE_QSIG_CallTransferIdentify |-> Dummy,
     ROSE_QSIG_CallTransferAbandon |-> Dummy,
     ROSE_QSIG_CfnrDivertedLegFailed |-> Dummy]

rose_msg_result_qsig_args ==
    [ROSE_QSIG_ChargeRequest |-> roseQsigChargeRequestRes_RES,
     ROSE_QSIG_AocComplete |-> roseQsigAocCompleteRes_RES,
     ROSE_QSIG_CallTransferIdentify |-> roseQsigCTIdentifyRes_RES,
     ROSE_QSIG_InterrogateDiversionQ |-> roseQsigForwardingList,
     ROSE_QSIG_MWIInterrogate |-> roseQsigMWIInterrogateRes,
     ROSE_QSIG_CallTransferInitiate |-> Dummy,
     ROSE_QSIG_CallTransferSetup |-> Dummy,
     ROSE_QSIG_ActivateDiversionQ |-> Dummy,
     ROSE_QSIG_DeactivateDiversionQ |-> Dummy,
     ROSE_QSIG_CheckRestriction |-> Dummy,
     ROSE_QSIG_CallRerouting |-> Dummy,
     ROSE_QSIG_MWIActivate |-> Dummy,
     ROSE_QSIG_MWIDeactivate |-> Dummy]

rose_msg_invoke_dms100_args ==
    [ROSE_DMS100_RLT_ThirdParty |-> roseDms100RLTThirdParty_ARG]

rose_msg_result_dms100_args ==
    [ROSE_DMS100_RLT_OperationInd |-> roseDms100RLTOperationInd_RES]

rose_msg_invoke_ni2_args ==
    [ROSE_NI2_InformationFollowing |-> roseNi2InformationFollowing_ARG,
     ROSE_NI2_InitiateTransfer |-> roseNi2InitiateTransfer_ARG]

rose_msg_invoke_args ==
    rose_msg_invoke_etsi_args @@ rose_msg_invoke_qsig_args
    @@ rose_msg_invoke_dms100_args @@ rose_msg_invoke_ni2_args
rose_msg_result_args ==
    rose_msg_result_etsi_args @@ rose_msg_result_qsig_args @@ rose_msg_result_dms100_args

(* The components, of the operations and errors in a set. *)
Carrying(operation, args) ==
    IF operation \notin DOMAIN args THEN [invoke_id : {1}, operation : {operation}]
    ELSE [invoke_id : {1}, operation : {operation}, args : args[operation]]
rose_msg_invoke(operations) ==
    UNION {Carrying(operation, rose_msg_invoke_args) : operation \in operations}
    \cup {[Typical(Carrying(operation, rose_msg_invoke_args)) EXCEPT !.invoke_id = id] @@
            [linked_id |-> linked] :
                operation \in {Typical(operations)}, id \in int16_t, linked \in {1, -32768}}
rose_msg_result(operations) ==
    UNION {Carrying(operation, rose_msg_result_args) : operation \in operations}
    \cup [invoke_id : int16_t, operation : {"ROSE_None"}]
rose_msg_error(codes) == [invoke_id : {-1, 128}, code : codes]
rose_reject_code ==
    [base : {0}, problem : 0 .. 2] \cup [base : {1}, problem : 0 .. 7]
    \cup [base : {2}, problem : 0 .. 2] \cup [base : {3}, problem : 0 .. 4]
rose_msg_reject == [code : rose_reject_code] \cup [invoke_id : int16_t, code : rose_reject_code]
OfType(name, components) == {component @@ [type |-> name] : component \in components}
rose_message(operations, codes) ==
    OfType("ROSE_COMP_TYPE_INVOKE", rose_msg_invoke(operations))
    \cup OfType("ROSE_COMP_TYPE_RESULT", rose_msg_result(operations))
    \cup OfType("ROSE_COMP_TYPE_ERROR", rose_msg_error(codes))
    \cup OfType("ROSE_COMP_TYPE_REJECT", rose_msg_reject)
fac_extension_header ==
    WithOptional(<<>>, [npp |-> {7}, nfe |-> facNetworkFacilityExtension,
                        interpretation |-> {0, 2}])
=============================================================================
