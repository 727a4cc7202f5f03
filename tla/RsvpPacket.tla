------------------------------ MODULE RsvpPacket ------------------------------
(***************************************************************************)
(* The objects of an RSVP message (rsvp_packet.cpp): which of the classes  *)
(* a caller asks for are put in, and in which order.  What they hold, on   *)
(* the wire and when read, is the subject of RsvpWire.                     *)
(***************************************************************************)
EXTENDS RsvpConfiguration, SequencesExt

MAX_OBJECTS == 100
NUM_OBJECTS == 37

-----------------------------------------------------------------------------
(* What a class needs of the configuration before add_object accepts it:   *)
(* every parameter of requires, or one of them where any is TRUE.          *)

TokenBucket == {"TOKEN_BUCKET_RATE", "TOKEN_BUCKET_SIZE", "PEAK_DATA_RATE",
                "MINIMUM_POLICED_UNIT", "MAXIMUM_PACKET_SIZE"}
Sonet       == {"SSDH_SIGNAL_TYPE", "SSDH_RCC", "SSDH_NCC", "SSDH_NVC",
                "SSDH_MULTIPLIER", "SSDH_TRANSPARENCY", "SSDH_PROFILE"}
EthernetBandwidth == {"ETHERNET_CIR", "ETHERNET_CBS", "ETHERNET_EIR", "ETHERNET_EBS"}
EthernetLink == {"ETHERNET_SW_GRANUALITY", "ETHERNET_INDEX", "ETHERNET_PROFILE"}
SessionId   == {"SESSION_DEST_ADDR", "TUNNEL_ID", "EXTENDED_IPV4_ADDR"}
MessageId   == {"MSG_ID_FLAGS", "MSG_ID_EPOCH", "MSG_ID_ID"}
LocalCallId == {"CALL_ID_ADDR_TYPE", "CALL_ID_SRC_TN_ADDR", "CALL_ID_LOCAL_ID1",
                "CALL_ID_LOCAL_ID2"}

StyleFlags  == {"WILDCARD_FILTER", "FIXED_FILTER", "SHARED_EXPLICIT"}

requirements ==
  [SESSION_IETF             |-> SessionId,
   SESSION_OIF              |-> SessionId,
   IPV4_RSVP_HOP            |-> {"CONTROL_OUT_IF_ADDR", "CONTROL_OUT_IF_HANDLE"},
   IPV4_IF_ID_RSVP_HOP      |-> {"DATA_OUT_IF_ADDR", "CONTROL_OUT_IF_ADDR",
                                 "CONTROL_OUT_IF_HANDLE"},
   TIME_VALUES              |-> {"REFRESH_PERIOD"},
   ERROR_SPEC               |-> {"ERROR_NODE_ADDR", "ERROR_FLAGS", "ERROR_CODE",
                                 "ERROR_VALUE"},
   SCOPE                    |-> {"SCOPE_ADDR"},
   STYLE                    |-> StyleFlags,
   TOKEN_FLOWSPEC           |-> TokenBucket,
   SONETSDH_FLOWSPEC        |-> Sonet \cup EthernetLink,
   ETHERNET_FLOWSPEC        |-> EthernetBandwidth,
   FILTER_SPEC              |-> {"FILTER_SRC_ADDR", "FILTER_SRC_PORT"},
   SENDER_TEMPLATE          |-> {"SENDER_SRC_ADDR", "SENDER_SRC_ID"},
   TOKEN_SENDER_TSPEC       |-> TokenBucket,
   SONETSDH_SENDER_TSPEC    |-> Sonet,
   ETHERNET_SENDER_TSPEC    |-> EthernetBandwidth \cup EthernetLink,
   RESV_CONFIRM             |-> {"RESV_CONFIRM_RECV_ADDR"},
   GENERALIZED_LABEL        |-> {"LABEL"},
   GENERALIZED_LABEL_REQUEST |-> {"LSP_ENC_TYPE", "LSP_SWITCHING_TYPE", "LSP_GPID"},
   ERO                      |-> {"ERO"},
   HELLO_REQUEST            |-> {"HELLO_SRC_INSTANCE", "HELLO_DST_INSTANCE"},
   HELLO_ACK                |-> {"HELLO_SRC_INSTANCE", "HELLO_DST_INSTANCE"},
   MESSAGE_ID               |-> MessageId,
   MESSAGE_ID_ACK           |-> MessageId,
   MESSAGE_ID_NACK          |-> MessageId,
   UPSTREAM_LABEL           |-> {"UPSTREAM_LABEL"},
   RESTART_CAP              |-> {"RESTART_TIME", "RECOVERY_TIME"},
   ADMIN_STATUS             |-> {"ADMIN_STATUS_RTAD_FLAGS"},
   SESSION_ATTRIBUTE        |-> {"SESSION_NAME", "SETUP_PRIORITY", "HOLDING_PRIORITY",
                                 "LOCAL_PROTECTION_FLAG", "LABEL_RECORDING_FLAG",
                                 "SE_STYLE_FLAG"},
   GENERALIZED_UNI          |-> {"TNA_SRC_ADDR", "TNA_DST_ADDR", "SERVICE_LEVEL"},
   GU_SOURCE_TNA_ADDRESS    |-> {"TNA_SRC_ADDR"},
   GU_DESTINATION_TNA_ADDRESS |-> {"TNA_DST_ADDR"},
   GU_SERVICE_LEVEL         |-> {"SERVICE_LEVEL"},
   CALL_ID_0                |-> {"CALL_ID"},
   CALL_ID_1                |-> LocalCallId,
   CALL_ID_2                |-> LocalCallId \cup {"CALL_ID_IS", "CALL_ID_ITU_CC1",
                                 "CALL_ID_ITU_CC2", "CALL_ID_UAPC1", "CALL_ID_UAPC2"},
   MESSAGE_ID_LIST          |-> {"SREFRESH_MESSAGE_ID"},
   NOTIFY_REQUEST           |-> {"NOTIFY_ADDRESS"}]

Classes == DOMAIN requirements

(* and_or of a class *)
AnyOf == {"STYLE", "GENERALIZED_UNI"}

(* Mutant: one parameter is enough for a message id. *)
check_addable_any(class, c) ==
  LET held == {p \in requirements[class] : IsPresent(c, p)}
  IN  IF class \in AnyOf \cup {"MESSAGE_ID"} THEN held # {}
      ELSE held = requirements[class]

check_addable(class, c) ==
  LET held == {p \in requirements[class] : IsPresent(c, p)}
  IN  IF class \in AnyOf THEN held # {} ELSE held = requirements[class]

-----------------------------------------------------------------------------
(* The order of the objects in a message. *)

add_order ==
  << "MESSAGE_ID_ACK", "MESSAGE_ID_NACK", "MESSAGE_ID", "MESSAGE_ID_LIST",
     "HELLO_REQUEST", "HELLO_ACK", "RESTART_CAP", "SESSION_OIF", "SESSION_IETF",
     "IPV4_IF_ID_RSVP_HOP", "IPV4_RSVP_HOP", "TIME_VALUES",
     "GENERALIZED_LABEL_REQUEST", "SESSION_ATTRIBUTE", "ERROR_SPEC",
     "NOTIFY_REQUEST", "CALL_ID_0", "CALL_ID_1", "CALL_ID_2", "RESV_CONFIRM",
     "ADMIN_STATUS", "GENERALIZED_UNI", "GU_DESTINATION_TNA_ADDRESS",
     "GU_SOURCE_TNA_ADDRESS", "GU_SERVICE_LEVEL", "SENDER_TEMPLATE",
     "SONETSDH_SENDER_TSPEC", "TOKEN_SENDER_TSPEC", "ETHERNET_SENDER_TSPEC",
     "UPSTREAM_LABEL", "STYLE", "TOKEN_FLOWSPEC", "SONETSDH_FLOWSPEC",
     "ETHERNET_FLOWSPEC", "FILTER_SPEC", "GENERALIZED_LABEL", "SCOPE", "ERO" >>

(* objects_order[] has room for NUM_OBJECTS of the 38 classes: the last    *)
(* one is not found, and -1 compared as unsigned is above all the others.  *)
get_object_order ==
  [class \in Classes |->
     LET n == SelectInSeq(add_order, LAMBDA x : x = class)
     IN  IF n <= NUM_OBJECTS THEN n ELSE MAX_OBJECTS + NUM_OBJECTS]

(* Mutant: behind the first object whose order is not lower. *)
add_object_behind(objs, c, class) ==
  LET at == SelectInSeq(objs, LAMBDA x : get_object_order[class] <= get_object_order[x])
  IN  IF ~ check_addable(class, c) THEN objs
      ELSE InsertAt(objs, (IF at = 0 THEN Len(objs) ELSE at) + 1, class)

(* The loop that moves the objects down stops one short of the array's end.*)
MovedDown(all) ==
  SubSeq(all, 1, IF Len(all) < MAX_OBJECTS THEN Len(all) ELSE MAX_OBJECTS - 1)

(* add_object: in front of the first object whose order is not lower. *)
add_object(objs, c, class) ==
  LET at == SelectInSeq(objs, LAMBDA x : get_object_order[class] <= get_object_order[x])
  IN  IF ~ check_addable(class, c) THEN objs
      ELSE MovedDown(InsertAt(objs, IF at = 0 THEN Len(objs) + 1 ELSE at, class))

(* Calls of add_object one after the other; their results are not looked at. *)
add_objects(objs, c, list) ==
  FoldLeft(LAMBDA o, class : add_object(o, c, class), objs, list)
=============================================================================
