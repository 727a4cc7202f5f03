------------------------------ MODULE MCPathSetup ------------------------------
(***************************************************************************)
(* Requests of a client and PATH messages of a router for PathSetup.       *)
(***************************************************************************)
EXTENDS PathSetup

AllProtocols == {"IETF_RSVP", "OIFUNI10", "OIFUNI20"}

(* Objects a request may come with, in groups that belong together. *)
Minimal  == 1 :> 201 @@ 23 :> 3
Ends     == 2 :> 202 @@ 3 :> 203 @@ 31 :> 5
Kind     == 9 :> 3 @@ 10 :> 150 @@ 11 :> 33
Named    == 12 :> 7 @@ 32 :> 4 @@ 33 :> 5 @@ 4 :> 60000
Routed   == 13 :> 204 @@ 14 :> 32 @@ 15 :> 1
Granular == 36 :> 401 @@ 40 :> 100
Uni      == 27 :> 205 @@ 28 :> 206 @@ 29 :> 11 @@ 30 :> 12 @@ 35 :> 2
Bandwidth == 5 :> 100 @@ 6 :> 200 @@ 7 :> 300 @@ 36 :> 400 @@ 40 :> 200 @@ 41 :> 1
Labelled == 8 :> 70 @@ 26 :> 80

SomeRequests ==
  {Minimal, Minimal @@ Ends, Minimal @@ Kind, Minimal @@ Labelled,
   Minimal @@ Named @@ Routed, Minimal @@ Uni @@ Bandwidth, Minimal @@ Granular,
   Minimal @@ Ends @@ Kind @@ Named @@ Routed @@ Uni @@ Bandwidth @@ Labelled}

(* PATH messages: mandatory objects, with or without what is optional, and *)
(* two that lack a mandatory one.                                          *)
PathBase ==
  SetEach(Empty,
    << UI("SESSION_DEST_ADDR", 301), US("TUNNEL_ID", 4),
       UI("EXTENDED_IPV4_ADDR", 302), UI("CONTROL_OUT_IF_ADDR", 303),
       UI("CONTROL_OUT_IF_HANDLE", 6), UI("DATA_OUT_IF_ADDR", 304),
       UI("DATA_OUT_IF_HANDLE", 7), UI("REFRESH_PERIOD", 30000),
       UI("SENDER_SRC_ADDR", 305), US("SENDER_SRC_ID", 8),
       UC("LSP_ENC_TYPE", 2), US("LSP_GPID", 33),
       CS("SESSION_NAME", 6), UC("SETUP_PRIORITY", 1),
       UC("HOLDING_PRIORITY", 2), UC("LOCAL_PROTECTION_FLAG", 1),
       UC("LABEL_RECORDING_FLAG", 0), UC("SE_STYLE_FLAG", 1) >>)

Tokens == << FL("TOKEN_BUCKET_RATE", 1), FL("TOKEN_BUCKET_SIZE", 2),
             FL("PEAK_DATA_RATE", 3), UI("MINIMUM_POLICED_UNIT", 64),
             UI("MAXIMUM_PACKET_SIZE", 1500) >>
Ethernet == << FL("ETHERNET_CIR", 1), FL("ETHERNET_CBS", 2),
               FL("ETHERNET_EIR", 3), FL("ETHERNET_EBS", 4),
               US("ETHERNET_SW_GRANUALITY", 1), UC("ETHERNET_INDEX", 2),
               UC("ETHERNET_PROFILE", 3) >>
Identified == << UC("MSG_ID_FLAGS", 1), UI("MSG_ID_EPOCH", 5),
                 UI("MSG_ID_ID", 66) >>
Called == << UC("CALL_ID_ADDR_TYPE", 1), UI("CALL_ID_SRC_TN_ADDR", 306),
             UI("CALL_ID_LOCAL_ID1", 21), UI("CALL_ID_LOCAL_ID2", 22),
             UI("TNA_SRC_ADDR", 307), UI("TNA_DST_ADDR", 308) >>
Proposed == << UI("UPSTREAM_LABEL", 40) >>
Deleting == << UC("ADMIN_STATUS_RTAD_FLAGS", 9) >>

PartOfPath(switching, extra, left_out) ==
  LET c == RemoveEach(SetEach(PathBase,
                              << UC("LSP_SWITCHING_TYPE", switching) >> \o extra),
                      left_out)
  IN  get_data(add_objects(<< >>, c,
        << "MESSAGE_ID", "SESSION_OIF",
           IF switching >= 51 THEN "IPV4_IF_ID_RSVP_HOP" ELSE "IPV4_RSVP_HOP",
           "TIME_VALUES", "GENERALIZED_LABEL_REQUEST", "SESSION_ATTRIBUTE",
           "CALL_ID_1", "GENERALIZED_UNI", "GU_SOURCE_TNA_ADDRESS",
           "GU_DESTINATION_TNA_ADDRESS", "SENDER_TEMPLATE", "TOKEN_SENDER_TSPEC",
           "ETHERNET_SENDER_TSPEC", "UPSTREAM_LABEL", "ADMIN_STATUS" >>), c)

PathWire(switching, extra) == PartOfPath(switching, extra, {})

(* The same with the data interface in TLVs the agent does not write: its  *)
(* address alone, or one for each direction.                               *)
WithHop(wire, tlvs) ==
  [k \in DOMAIN wire |->
     IF wire[k].class # "IPV4_IF_ID_RSVP_HOP" THEN wire[k]
     ELSE LET fields == SubSeq(wire[k].fields, 1, 2) \o tlvs
          IN  [wire[k] EXCEPT !.fields = fields, !.length = BytesOf(fields)]]

Tlv(type, val) == [kind |-> "pad", width |-> 4, tag |-> type, val |-> val]
AddressOnly == << Tlv(1, 0), [kind |-> "addr", width |-> 4, tag |-> 0, val |-> 309] >>
BothWays ==
  << Tlv(4, 0), [kind |-> "addr", width |-> 4, tag |-> 0, val |-> 309],
     [kind |-> "int", width |-> 4, tag |-> 0, val |-> 17],
     Tlv(5, 0), [kind |-> "addr", width |-> 4, tag |-> 0, val |-> 310],
     [kind |-> "int", width |-> 4, tag |-> 0, val |-> 18] >>

SomePaths ==
  {PathWire(1, << >>), PathWire(1, Tokens \o Identified), PathWire(150, Proposed),
   PathWire(51, Ethernet \o Identified \o Called \o Proposed),
   PathWire(51, Tokens \o Called), PathWire(1, Tokens \o Identified \o Deleting),
   PartOfPath(1, Identified, {"CONTROL_OUT_IF_ADDR"}),
   PartOfPath(1, Identified, {"SENDER_SRC_ADDR"}),
   WithHop(PathWire(150, Identified \o Proposed), AddressOnly),
   WithHop(PathWire(51, Ethernet \o Called), BothWays)}

(* No two of them are one to the agent. *)
ASSUME PathsDiffer ==
  \A v, w \in RouterPaths : v # w => parse_data(v) # parse_data(w)
=============================================================================
