------------------------------ MODULE RoseLink ------------------------------
(* A facility information element on its way: libpri encodes a header and a *)
(* component (rose.c, q931.c transmit_facility), something carries it, and  *)
(* libpri decodes it (q931.c receive_facility).                             *)
(*                                                                          *)
(* The peer need not be libpri.  The environment may replace what was sent  *)
(* by another encoding of it that X.690 allows, and that libpri says it     *)
(* reads, or by one that is damaged:                                        *)
(*    indefinite  every constructed element has an indefinite length;       *)
(*    chunked     a long string is constructed of two shorter ones;         *)
(*    extended    every constructed element ends with an element that       *)
(*                libpri does not know, of a definite or indefinite length; *)
(*    sequence    the name of a party is in a SEQUENCE, where it may be     *)
(*                followed by an extension;                                 *)
(*    cut         the last octets, up to MaxCut of them, are missing.       *)
EXTENDS Rose, RoseTypes

CONSTANTS Switchtypes, MaxCut
ASSUME MaxCut \in Nat

VARIABLES
    switchtype,   \* the kind of switch both ends are configured for
    sent,         \* the header and the component that were encoded
    wire,         \* the octets of the information element
    form,         \* what the environment has made of them
    got           \* what receive_facility has made of them
vars == <<switchtype, sent, wire, form, got>>

Waiting == [status |-> "waiting"]
Refused == [status |-> "refused"]
NothingSent == [header |-> << >>, component |-> << >>]

(* What is sent: every component, and every header with one component.     *)
Operations(type) == {row.name : row \in Range(Messages(type))}
Components(type) == rose_message(Operations(type), {e[1] : e \in Range(ErrorValues(type))})
Facilities(type) ==
    [header : {<< >>}, component : Components(type)]
    \cup [header : fac_extension_header, component : {Typical(Components(type))}]

Init == /\ switchtype \in Switchtypes
        /\ sent = NothingSent
        /\ wire = <<>>
        /\ form = "none"
        /\ got = Waiting

(* transmit_facility leaves out an element that is too long. *)
MaxApdu == 235
Send == /\ form = "none"
        /\ \E facility \in Facilities(switchtype) :
              LET encoded == rose_encode(switchtype, facility.component)
                  octets == facility_encode_header(switchtype, facility.header) \o encoded
              IN  /\ encoded # Null
                  /\ Len(octets) <= MaxApdu
                  /\ sent' = facility
                  /\ wire' = octets
        /\ form' = "plain"
        /\ UNCHANGED <<switchtype, got>>

----------------------------------------------------------------------------
(* The environment.  Its elements have tags of one octet.                   *)
Unknown == <<223, 129, 1, 1, 7>>
UnknownIndefinite == <<253, 128, 4, 1, 0, 36, 128, 4, 1, 0, 0, 0, 0, 0>>
TwoPieces(tag, text) ==
    <<tag + ASN1_PC_CONSTRUCTED, 128>>
    \o asn1_enc_string_bin(ASN1_TYPE_OCTET_STRING, SubSeq(text, 1, 2))
    \o asn1_enc_string_bin(ASN1_TYPE_OCTET_STRING, SubSeq(text, 3, Len(text)))
    \o <<0, 0>>
LongForm(tag, body) == <<tag, 132, 0, 0, Len(body) \div 256, Len(body) % 256>> \o body
(* No integer has more than four octets. *)
IsLongString(tag, text) == Len(text) > 4 /\ tag # ASN1_TYPE_OBJECT_IDENTIFIER

RECURSIVE Recoded(_, _)
Recoded(o, how) ==
    LET l == asn1_dec_length(o, 2, Len(o) + 1)
        content == SubSeq(o, l[1], l[1] + l[2] - 1)
        inside == Recoded(content, how)
        element ==
            IF IsConstructed(o[1])
            THEN CASE how = "indefinite" -> <<o[1], 128>> \o inside \o <<0, 0>>
                   [] how = "long" -> LongForm(o[1], inside)
                   [] how = "chunked" -> Constructed(o[1], inside)
                   [] how = "extended" -> Constructed(o[1], inside \o Unknown)
                   [] how = "extended indefinite" ->
                         <<o[1], 128>> \o inside \o UnknownIndefinite \o <<0, 0>>
            ELSE IF how = "chunked" /\ IsLongString(o[1], content) THEN TwoPieces(o[1], content)
            ELSE IF how = "long" THEN LongForm(o[1], content)
            ELSE SubSeq(o, 1, l[1] + l[2] - 1)
    IN  IF o = <<>> THEN <<>>
        ELSE element \o Recoded(SubSeq(o, l[1] + l[2], Len(o)), how)

HeaderOctets == Len(facility_encode_header(switchtype, sent.header))
Body == SubSeq(wire, HeaderOctets + 1, Len(wire))
Recode(how) ==
    /\ form = "plain" /\ got = Waiting
    /\ form' = how
    /\ wire' = SubSeq(wire, 1, HeaderOctets) \o Recoded(Body, how)
    /\ UNCHANGED <<switchtype, sent, got>>

(* An operation whose argument is a name alone. *)
NameOperations == {"ROSE_QSIG_CallingName", "ROSE_QSIG_CalledName",
                   "ROSE_QSIG_ConnectedName", "ROSE_QSIG_BusyName"}
InSequence(type, invoke) ==
    Constructed(CtxC(1),
         asn1_enc_int(ASN1_TYPE_INTEGER, invoke.invoke_id)
      \o rose_enc_operation_value(The(rose_find_by_code(Messages(type), invoke.operation)).value)
      \o Constructed(ASN1_TAG_SEQUENCE, encode_invoke_args(invoke.operation, invoke.args)))
PutInSequence ==
    /\ form = "plain" /\ got = Waiting
    /\ sent.component.type = "ROSE_COMP_TYPE_INVOKE"
    /\ sent.component.operation \in NameOperations
    /\ ~Has(sent.component, "linked_id")
    /\ form' = "sequence"
    /\ wire' = SubSeq(wire, 1, HeaderOctets) \o InSequence(switchtype, sent.component)
    /\ UNCHANGED <<switchtype, sent, got>>

Cut == /\ form \in {"plain", "indefinite"} /\ got = Waiting
       /\ \E lost \in 1 .. MaxCut : wire' = SubSeq(wire, 1, Len(wire) - lost)
       /\ form' = "cut"
       /\ UNCHANGED <<switchtype, sent, got>>

----------------------------------------------------------------------------
(* Nothing is done with a network protocol profile.  Of the components in   *)
(* the element the first one is read.                                       *)
receive_facility(type, o) ==
    LET read ==
            Then(facility_decode_header(o), LAMBDA pos, header :
                IF Has(header, "npp") THEN Null
                ELSE Giving(Component(rose_decode(type), o, pos, Len(o) + 1), LAMBDA component :
                        [status |-> "read", header |-> header, component |-> component]))
    IN  IF read = Null THEN Refused ELSE read[2]

Receive == /\ form # "none" /\ got = Waiting
           /\ got' = receive_facility(switchtype, wire)
           /\ UNCHANGED <<switchtype, sent, wire, form>>

(* The element has been handled. *)
Finish == /\ got # Waiting
          /\ sent' = NothingSent
          /\ wire' = <<>>
          /\ form' = "none"
          /\ got' = Waiting
          /\ UNCHANGED switchtype

Next == \/ Send
        \/ \E how \in {"indefinite", "long", "chunked", "extended", "extended indefinite"} : Recode(how)
        \/ PutInSequence \/ Cut \/ Receive \/ Finish

Spec == Init /\ [][Next]_vars

----------------------------------------------------------------------------
(* Only Q.SIG and national switches have headers. *)
HeaderSent ==
    IF switchtype \in EuroIsdn \cup {"PRI_SWITCH_DMS100"} THEN << >> ELSE sent.header
Understood == [status |-> "read", header |-> HeaderSent, component |-> sent.component]

(* What libpri encodes it decodes, whatever the switch, the operation, the  *)
(* optional fields and the size of what they contain: the hundreds of pairs *)
(* of an encoder and a decoder agree.  The one exception is a header with a *)
(* network protocol profile, which receive_facility does not support.       *)
RoundTrip ==
    got # Waiting /\ form = "plain" =>
        got = IF Has(HeaderSent, "npp") THEN Refused ELSE Understood

(* A peer that uses indefinite lengths, or four octets for each length, is  *)
(* understood as well: no decoder takes an end-of-contents mark for data,   *)
(* or data for a mark.                                                      *)
IndefiniteRead ==
    got # Waiting /\ form \in {"indefinite", "long"} =>
        got = IF Has(HeaderSent, "npp") THEN Refused ELSE Understood

(* Strings in pieces, names in a SEQUENCE and elements that a later version *)
(* of a standard has added are either read or refused: they never change    *)
(* what the rest of the message says.                                       *)
NotMisread ==
    got # Waiting /\ form \in {"chunked", "extended", "extended indefinite", "sequence"} =>
        got \in {Understood, Refused}

(* A message of which the end is missing is refused, and not taken for one  *)
(* without the optional parts.                                              *)
CutRefused == got # Waiting /\ form = "cut" => got = Refused
=============================================================================
