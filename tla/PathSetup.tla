------------------------------- MODULE PathSetup -------------------------------
(***************************************************************************)
(* One path from end to end, as parameters: a request of the client        *)
(* becomes a message of the management protocol, the configuration of a    *)
(* connection and RSVP messages for the router; what the router sends      *)
(* becomes answers and reports to the client (rsvp_connection.cpp on top   *)
(* of rsvp_configuration, rsvp_packet and mgmt_packet).                    *)
(*                                                                         *)
(* RsvpConnection models when a handler runs; here each handler is one     *)
(* step and the subject is what it sends.  A message of the router without *)
(* a parameter that is read unasked ends the process, and the phase is     *)
(* "ended" from there.  So do the flags R and D in a RESV under IETF_RSVP  *)
(* (RsvpConnection!DeleteFlagsEndPath), which are not sent here.           *)
(***************************************************************************)
EXTENDS RsvpWire, MgmtPacket

CONSTANTS
  Protocols,     \* the values of globals.protocol_vers that are tried
  Requests,      \* requests of the client: functions from object numbers to values
  RouterPaths,   \* PATH messages of the router: sequences of written objects
  MaxMessageId   \* bound: nothing is sent once message_id is above it

ASSUME BoundsAssumption ==
  Protocols \subseteq {"IETF_RSVP", "OIFUNI10", "OIFUNI20"} /\ MaxMessageId \in Nat

(* A request names the destination and the tunnel, and a name in it stands *)
(* for its length.                                                         *)
ASSUME RequestsAssumption ==
  \A r \in Requests :
    /\ DOMAIN r \subseteq 1..42 /\ {1, 23} \subseteq DOMAIN r
    /\ 12 \in DOMAIN r => r[12] \in Nat

(* A PATH of the router (external) is a sequence of objects, among them a  *)
(* session, without which the dispatcher finds no connection for it; what  *)
(* its fields hold is up to the router, but for the length of a name and   *)
(* what three bytes hold.                                                  *)
ASSUME RouterPathsAssumption ==
  \A w \in RouterPaths :
    /\ Len(w) \in Nat /\ DOMAIN w = 1..Len(w)
    /\ \A k \in DOMAIN w :
         /\ w[k].class \in Classes \ Subobjects /\ w[k].length \in Nat
         /\ Len(w[k].fields) \in Nat /\ DOMAIN w[k].fields = 1..Len(w[k].fields)
         /\ \A i \in DOMAIN w[k].fields :
              /\ w[k].fields[i].kind = "name" => w[k].fields[i].val \in Nat
              /\ w[k].fields[i].kind = "int24" => w[k].fields[i].val \in 0..(2^24 - 1)
    /\ \E k \in DOMAIN w : w[k].class \in {"SESSION_IETF", "SESSION_OIF"}

(* Addresses of the agent's interface, the router, the translator's fixed  *)
(* destination, the two default TNAs and localhost; globals.epoch; the     *)
(* number the next own label gets.                                         *)
Local == 101
Router == 102
DefaultPathDest == 103
TnaSource == 104
TnaDestination == 105
LocalHost == 106
Epoch == 2^24 + 7
NextLabel == 16

VARIABLES
  proto, translator,   \* globals.protocol_vers, globals.translator
  message_id,          \* globals.message_id
  phase,               \* null, asked, sent, up, tearing, down; ended: the process
  direction,           \* path_direction
  configuration, path_configuration, label,
  pending,             \* the configuration of the PATH the client is asked about
  request,             \* what the client asked for
  seen,                \* what the path's first PATH says to the one who reads it
  first,               \* that PATH's objects
  got,                 \* the last message of the router, as parsed
  sent,                \* the messages the last step sent
  reported,            \* the last message to the client, and what it is about
  null                 \* parameters the last step reads though they are absent

vars == << proto, translator, message_id, phase, direction, configuration,
           path_configuration, label, pending, request, seen, first, got, sent,
           reported, null >>

IETF == proto = "IETF_RSVP"

-----------------------------------------------------------------------------
(* Stores.                                                                 *)

SetLabel(c, raw) == SetAddAt(c, "LABEL", "VS", raw, 4, 0)

(* Two of the defaults do not arrive: UPSTREAM_LABEL and the flags of      *)
(* ADMIN_STATUS are set by an overload that is not their type.             *)
set_conf_defaults ==
  SetEach(Empty,
    << FL("TOKEN_BUCKET_RATE", 31250000), FL("TOKEN_BUCKET_SIZE", 31250000),
       FL("PEAK_DATA_RATE", 31250000) >>
    \o (IF IETF
        THEN << UC("LSP_ENC_TYPE", 1), UC("LSP_SWITCHING_TYPE", 1),
                US("LSP_GPID", 2048) >>
        ELSE << UC("LSP_ENC_TYPE", 2), UC("LSP_SWITCHING_TYPE", 51),
                US("LSP_GPID", 34), VS("UPSTREAM_LABEL", 65536) >>)
    \o << UI("EXTENDED_IPV4_ADDR", Local), UI("DATA_OUT_IF_ADDR", Local),
          UI("DATA_IN_IF_ADDR", Local), UI("CONTROL_OUT_IF_ADDR", Local),
          UI("SENDER_SRC_ADDR", Local) >>
    \o << UI("DATA_OUT_IF_HANDLE", 1000), UI("DATA_IN_IF_HANDLE", 1000),
          UI("CONTROL_OUT_IF_HANDLE", 1000), US("SENDER_SRC_ID", 1),
          UC("MSG_ID_FLAGS", 1), UI("MSG_ID_EPOCH", Epoch),
          UI("MSG_ID_ID", message_id) >>
    \o << CS("SESSION_NAME", 12), UC("SETUP_PRIORITY", 0),
          UC("HOLDING_PRIORITY", 0), UC("LOCAL_PROTECTION_FLAG", 1),
          UC("LABEL_RECORDING_FLAG", 0), UC("SE_STYLE_FLAG", 1),
          UI("MINIMUM_POLICED_UNIT", 64), UI("MAXIMUM_PACKET_SIZE", 1518) >>
    \o << UI("TNA_SRC_ADDR", TnaSource), UI("TNA_DST_ADDR", TnaDestination),
          UI("ADMIN_STATUS_RTAD_FLAGS", 0), UI("TR_D_ADDR", LocalHost),
          UI("REFRESH_PERIOD", 30000) >>
    \o << FL("ETHERNET_CIR", 31250000), FL("ETHERNET_CBS", 0),
          FL("ETHERNET_EIR", 0), FL("ETHERNET_EBS", 0),
          US("ETHERNET_SW_GRANUALITY", 1), UC("ETHERNET_INDEX", 0),
          UC("ETHERNET_PROFILE", 0) >>)

-----------------------------------------------------------------------------
(* Messages.                                                               *)

MsgOf(mtype, c, objs) ==
  [mtype |-> mtype, objs |-> objs, wire |-> get_data(objs, c),
   handle |-> IsPresent(c, "DATA_OUT_IF_HANDLE"),
   null |-> UNION {NullReads(x, c, objs) : x \in ToSet(objs) \ Subobjects}]

Msg(mtype, c, classes) == MsgOf(mtype, c, add_objects(<< >>, c, classes))

(* "if(add_object(CALL_ID_2) < 0) if(add_object(CALL_ID_1) < 0) ..." *)
CallId(c) ==
  IF check_addable("CALL_ID_2", c) THEN << "CALL_ID_2" >>
  ELSE IF check_addable("CALL_ID_1", c) THEN << "CALL_ID_1" >>
  ELSE << "CALL_ID_0" >>

Only(holds, classes) == IF holds THEN classes ELSE << >>

HopFor(switching) ==
  IF switching >= 100 THEN "IPV4_IF_ID_RSVP_HOP" ELSE "IPV4_RSVP_HOP"

(* conf is the store that is asked what there is, c the one of the message.*)
adding_create_path_objects(conf, c) ==
  << "GENERALIZED_LABEL_REQUEST", "SENDER_TEMPLATE" >>
  \o Only(IsPresent(conf, "UPSTREAM_LABEL"), << "UPSTREAM_LABEL" >>)
  \o Only(~ translator /\ IsPresent(conf, "ERO"), << "ERO" >>)
  \o (IF IETF
      THEN << "SESSION_IETF", HopFor(Read(conf, "LSP_SWITCHING_TYPE")), "TIME_VALUES",
              "SESSION_ATTRIBUTE", "TOKEN_SENDER_TSPEC" >>
      ELSE << "MESSAGE_ID", "SESSION_OIF", "IPV4_IF_ID_RSVP_HOP", "TIME_VALUES",
              "GENERALIZED_UNI", "GU_SOURCE_TNA_ADDRESS", "GU_DESTINATION_TNA_ADDRESS",
              "GU_SERVICE_LEVEL", "SESSION_ATTRIBUTE", "NOTIFY_REQUEST", "ADMIN_STATUS" >>)
  \o Only(proto = "OIFUNI20", << "ETHERNET_SENDER_TSPEC" >> \o CallId(c))
  \o Only(proto = "OIFUNI10", << "SONETSDH_SENDER_TSPEC" >>)

(* path is path_configuration, which says how the path is switched. *)
adding_resv_objects(path, c) ==
  LET switching == IF IsPresent(path, "LSP_SWITCHING_TYPE")
                   THEN Read(path, "LSP_SWITCHING_TYPE") ELSE 0
  IN  IF IETF
      THEN << "SESSION_IETF", HopFor(switching), "TIME_VALUES", "STYLE",
              "TOKEN_FLOWSPEC", "FILTER_SPEC", "GENERALIZED_LABEL" >>
      ELSE << "MESSAGE_ID", "SESSION_OIF", "IPV4_IF_ID_RSVP_HOP", "TIME_VALUES", "STYLE",
              "SONETSDH_FLOWSPEC", "FILTER_SPEC", "GENERALIZED_LABEL", "RESV_CONFIRM",
              "TOKEN_FLOWSPEC" >>
           \o Only(proto = "OIFUNI20", CallId(c))

(* respond_ackreq: the flags become 0, and the message names what it acknowledges. *)
Acks(c) ==
  IF IsPresent(c, "MSG_ID_FLAGS") /\ Read(c, "MSG_ID_FLAGS") = 1
  THEN << Msg("ACK", SetAt(c, "MSG_ID_FLAGS", "UC", 0, 0, 0), << "MESSAGE_ID_ACK" >>) >>
  ELSE << >>

(* What a handler is left with; ids are counted for all but an ACK. *)
Missing(c, S) == {p \in S : ~ IsPresent(c, p)}

Sends(messages, reads) ==
  /\ sent' = messages
  /\ message_id' = message_id + Cardinality({k \in DOMAIN messages : messages[k].mtype # "ACK"})
  /\ null' = reads \cup UNION {m.null : m \in ToSet(messages)}

(* A handler reads what it needs of the message c without asking whether   *)
(* it is there: where it is not the process ends, after the ACK.           *)
ReadsAbsent(c, needed, acks) ==
  /\ Missing(c, needed) # {}
  /\ phase' = "ended"
  /\ Sends(acks, Missing(c, needed))
  /\ UNCHANGED << configuration, path_configuration, label >>

-----------------------------------------------------------------------------
(* Outgoing paths.                                                         *)

Init ==
  /\ proto \in Protocols /\ translator \in BOOLEAN
  /\ message_id = 1
  /\ phase = "null" /\ direction = "undefined"
  /\ configuration = Empty /\ path_configuration = Empty /\ label = 0
  /\ pending = Empty /\ request = << >>
  /\ seen = Empty /\ first = << >> /\ got = Empty /\ sent = << >>
  /\ reported = << >> /\ null = {}

InterfaceHandles == {"DATA_OUT_IF_HANDLE", "DATA_IN_IF_HANDLE", "DATA_IN_IF_ADDR"}

LinkAddresses(c) ==
  SetEach(c, << UI("SENDER_SRC_ADDR", Read(c, "EXTENDED_IPV4_ADDR")),
               UI("DATA_OUT_IF_ADDR", Read(c, "CONTROL_OUT_IF_ADDR")),
               UI("DATA_IN_IF_ADDR", Read(c, "CONTROL_OUT_IF_ADDR")) >>)

Translated(c) ==
  IF ~ translator THEN c
  ELSE SetEach(c, << UI("SESSION_DEST_ADDR", DefaultPathDest),
                    UI("EXTENDED_IPV4_ADDR", Local),
                    UI("DATA_OUT_IF_ADDR", Local),
                    UI("DATA_IN_IF_ADDR", Local),
                    UI("SENDER_SRC_ADDR", Local),
                    UI("CONTROL_OUT_IF_ADDR", Local) >>)

Numbered(c) == SetAdd(AddMissing(c, set_conf_defaults), "MSG_ID_ID", "UI", message_id)

HopWithoutHandles(c) == IF IETF THEN RemoveEach(c, InterfaceHandles) ELSE c

ForOif20(c) ==
  IF proto # "OIFUNI20" THEN c
  ELSE SetEach(c, << UI("UPSTREAM_LABEL", Read(c, "CONTROL_OUT_IF_HANDLE")),
                    UI("CALL_ID", 0), UI("NOTIFY_ADDRESS", Local) >>)

(* What create_path makes of the configuration c. *)
PathConf(c) == ForOif20(HopWithoutHandles(Numbered(Translated(LinkAddresses(c)))))

SendPath(path, reads) ==
  /\ Sends(<< path >>, reads)
  /\ seen' = parse_data(path.wire) /\ first' = path.wire

(* create_path from the configuration c. *)
CreateFrom(c, reads) ==
  /\ phase = "null" /\ phase' = "sent" /\ direction' = "outgoing"
  /\ path_configuration' = PathConf(c)
  /\ configuration' = Update(c, path_configuration')
  /\ SendPath(Msg("PATH", path_configuration',
                  adding_create_path_objects(path_configuration', path_configuration')),
              reads)
  /\ UNCHANGED << proto, translator, label, pending, got, reported >>

Asked(r) == parse(client_packet(r, 1, "REQ", "CREATE"))

(* Mutant: the defaults replace the values of the request. *)
CreatePathDefaults(r) ==
  /\ request' = r
  /\ CreateFrom(Update(Asked(r), set_conf_defaults), {})

(* A request of the client: its message, the constructor and create_path.  *)
CreatePath(r) ==
  /\ request' = r
  /\ CreateFrom(AddMissing(Asked(r), set_conf_defaults), Missing(Asked(r), {"TUNNEL_ID"}))

(* Mutant: the message is made from the configuration as it is now. *)
RefreshFromConfiguration ==
  /\ direction = "outgoing" /\ phase = "up" /\ message_id <= MaxMessageId
  /\ Sends(<< Msg("PATH", configuration,
                  adding_create_path_objects(configuration, configuration)) >>, {})
  /\ UNCHANGED << proto, translator, phase, direction, configuration,
                  path_configuration, label, pending, request, seen, first, got,
                  reported >>

(* refresh_path, when the path is up: what the message holds comes from    *)
(* path_configuration, what it is asked for from configuration.            *)
RefreshPath ==
  /\ direction = "outgoing" /\ phase = "up" /\ message_id <= MaxMessageId
  /\ Sends(<< Msg("PATH", path_configuration,
                  adding_create_path_objects(configuration, path_configuration)) >>, {})
  /\ UNCHANGED << proto, translator, phase, direction, configuration,
                  path_configuration, label, pending, request, seen, first, got,
                  reported >>

(* The answer to the flag D in a RESV. *)
TearOnDelete ==
  LET d == AddMissing(path_configuration, set_conf_defaults)
  IN  Msg("PATHTEAR", IF IETF THEN RemoveEach(d, InterfaceHandles) ELSE d,
          << "SESSION_IETF", "IPV4_IF_ID_RSVP_HOP", "SENDER_TEMPLATE",
             "ETHERNET_SENDER_TSPEC" >>)

(* PathTear_RD_flags_response, under the OIF protocols. *)
TearOnReflect(c) ==
  LET t == SetEach(c, << UC("MSG_ID_FLAGS", 1), UI("MSG_ID_EPOCH", Epoch),
                        UI("MSG_ID_ID", message_id),
                        UI("SENDER_SRC_ADDR", Read(c, "FILTER_SRC_ADDR")),
                        US("SENDER_SRC_ID", Read(c, "FILTER_SRC_PORT")),
                        UI("CONTROL_OUT_IF_ADDR", Local) >>)
  IN  Msg("PATHTEAR", t,
          << "MESSAGE_ID", "SESSION_OIF", "SENDER_TEMPLATE" >>
          \o Only(proto = "OIFUNI20", << "ETHERNET_SENDER_TSPEC" >> \o CallId(t))
          \o Only(proto = "OIFUNI10", << "SONETSDH_SENDER_TSPEC" >>)
          \o << "UPSTREAM_LABEL", "IPV4_IF_ID_RSVP_HOP" >>)

(* What a RESV is confirmed with. *)
ConfConf(c) ==
  SetEach(c, << UI("CONTROL_OUT_IF_ADDR", Local), UI("ERROR_NODE_ADDR", Local),
               UC("ERROR_FLAGS", 0), UC("ERROR_CODE", 0),
               US("ERROR_VALUE", 0),
               UI("RESV_CONFIRM_RECV_ADDR", Read(c, "CONTROL_OUT_IF_ADDR")),
               UI("MSG_ID_ID", message_id) >>)

ResvConf(c) ==
  Msg("RESVCONF", c,
      << "MESSAGE_ID", "SESSION_OIF", "ERROR_SPEC", "RESV_CONFIRM", "STYLE" >>
      \o Only(proto = "OIFUNI20", << "ETHERNET_FLOWSPEC" >>)
      \o Only(proto = "OIFUNI10", << "SONETSDH_FLOWSPEC" >>)
      \o << "FILTER_SPEC", "GENERALIZED_LABEL" >>)

LabelAndHop == {"LABEL", "CONTROL_OUT_IF_ADDR"}

(* respond_resv of a RESV that sets the path up: the label is what the     *)
(* four bytes of the object are as a number.                               *)
RespondResv(c) ==
  /\ Missing(c, LabelAndHop) = {}
  /\ label' = - Read(c, "LABEL")
  /\ phase' = "up"
  /\ IF IETF
     THEN Sends(Acks(c), {}) /\ UNCHANGED configuration
     ELSE /\ configuration' = Update(configuration, ConfConf(c))
          /\ Sends(Acks(c) \o << ResvConf(ConfConf(c)) >>, {})
  /\ UNCHANGED path_configuration

(* What the router may answer a PATH with: the session and sender of that  *)
(* PATH, its own hop and label unless they are left out, and the flags of  *)
(* ADMIN_STATUS (external).                                                *)
RouterResv(flags, id, left_out) ==
  LET same == CopySelected(Empty, seen, SessionId \cup TokenBucket \cup EthernetBandwidth
                                        \cup EthernetLink \cup {"REFRESH_PERIOD"})
      all == SetLabel(SetEach(same,
             << UI("FILTER_SRC_ADDR", Read(seen, "SENDER_SRC_ADDR")),
                US("FILTER_SRC_PORT", Read(seen, "SENDER_SRC_ID")),
                UI("CONTROL_OUT_IF_ADDR", Router),
                UI("CONTROL_OUT_IF_HANDLE", 9), UI("DATA_OUT_IF_ADDR", Router),
                UI("DATA_OUT_IF_HANDLE", 8),
                UC("FIXED_FILTER", 1), UC("CALL_ID_ADDR_TYPE", 1),
                UI("CALL_ID_SRC_TN_ADDR", Router), UI("CALL_ID_LOCAL_ID1", 21),
                UI("CALL_ID_LOCAL_ID2", 22) >>
             \o Only(id, << UC("MSG_ID_FLAGS", 1), UI("MSG_ID_EPOCH", 5),
                            UI("MSG_ID_ID", 77) >>)
             \o Only(flags # 0, << UC("ADMIN_STATUS_RTAD_FLAGS", flags) >>)), -33)
      c == RemoveEach(all, left_out)
  IN  get_data(add_objects(<< >>, c,
                 adding_resv_objects(Empty, c)
                 \o << "ETHERNET_FLOWSPEC", "ADMIN_STATUS" >>), c)

(* respond_resv: tears the path down where the flags say so, or sets it up *)
(* if it is not.                                                           *)
AnswerResv(flags, c) ==
  \/ /\ flags = 9 /\ ~ IETF
     /\ Sends(Acks(c) \o << TearOnReflect(c) >>, {})
     /\ phase' = "down" /\ label' = 0
     /\ UNCHANGED << configuration, path_configuration >>
  \/ /\ flags = 1
     /\ Sends(Acks(c) \o << TearOnDelete >>, {})
     /\ phase' = "down" /\ label' = 0
     /\ UNCHANGED << configuration, path_configuration >>
  \/ /\ flags = 0 /\ phase = "sent"
     /\ RespondResv(c) \/ ReadsAbsent(c, LabelAndHop, Acks(c))
  \/ /\ flags = 0 /\ phase = "up"
     /\ Sends(Acks(c), {})
     /\ UNCHANGED << phase, label, configuration, path_configuration >>

RecvResv(flags, id, left_out) ==
  /\ direction = "outgoing" /\ phase \in {"sent", "up"}
  /\ message_id <= MaxMessageId
  /\ got' = parse_data(RouterResv(flags, id, left_out))
  /\ AnswerResv(flags, got')
  /\ UNCHANGED << proto, translator, direction, pending, request, seen, first,
                  reported >>

-----------------------------------------------------------------------------
(* Incoming paths.                                                         *)

(* The parameters that name the sender in an answer to its PATH. *)
FilterOf(c) == << UI("FILTER_SRC_ADDR", Read(c, "SENDER_SRC_ADDR")),
                  US("FILTER_SRC_PORT", Read(c, "SENDER_SRC_ID")) >>
FixedFilter == << UC("WILDCARD_FILTER", 0), UC("FIXED_FILTER", 1),
                  UC("SHARED_EXPLICIT", 0) >>
Sender == {"SENDER_SRC_ADDR", "SENDER_SRC_ID"}
HopAndSender == Sender \cup {"CONTROL_OUT_IF_ADDR"}

OwnLabel == IF label = 0 THEN NextLabel ELSE label

(* Mutant: the label is stored without htonl. *)
RespondPathHostOrder(c, acks) ==
  LET number == IF IsPresent(c, "UPSTREAM_LABEL") THEN Read(c, "UPSTREAM_LABEL")
                ELSE OwnLabel
      r == SetEach(SetLabel(c, number),
             << UI("CONTROL_OUT_IF_ADDR", Local), UI("MSG_ID_ID", message_id) >>
             \o FilterOf(c) \o FixedFilter)
  IN  /\ path_configuration' = c
      /\ configuration' = r
      /\ label' = number
      /\ phase' = "up"
      /\ Sends(acks \o << Msg("RESV", r, adding_resv_objects(c, r)) >>, {})

(* respond_path of a PATH that asks for nothing else: a RESV.  A label the *)
(* sender proposes is taken for both directions.                           *)
RespondPath(c, acks) ==
  LET number == IF IsPresent(c, "UPSTREAM_LABEL") THEN Read(c, "UPSTREAM_LABEL")
                ELSE OwnLabel
      rtad   == IF ~ IsPresent(c, "ADMIN_STATUS_RTAD_FLAGS") THEN c
                ELSE SetAdd(c, "ADMIN_STATUS_RTAD_FLAGS", "UC",
                            IF Read(c, "ADMIN_STATUS_RTAD_FLAGS") = 10 THEN 9 ELSE 0)
  IN  /\ Missing(c, HopAndSender) = {}
      /\ path_configuration' = c
      /\ configuration' =
           SetEach(SetLabel(rtad, - number),
                   << UI("CONTROL_OUT_IF_ADDR", Local),
                      UI("RESV_CONFIRM_RECV_ADDR", Local),
                      UI("MSG_ID_ID", message_id) >>
                   \o FilterOf(c) \o FixedFilter)
      /\ label' = number
      /\ phase' = "up"
      /\ Sends(acks \o << Msg("RESV", configuration',
                              adding_resv_objects(c, configuration')) >>, {})

(* PathErr_RD_flags_response: the flags R and D end the path.  Under       *)
(* IETF_RSVP the sender is asked to tear it down.                          *)
RespondPathDelete(c, acks) ==
  LET e == SetEach(SetLabel(c, - OwnLabel),
             << UC("MSG_ID_FLAGS", 1), UI("MSG_ID_EPOCH", Epoch),
                UI("ERROR_NODE_ADDR", Local), UC("ERROR_FLAGS", 4),
                UC("ERROR_CODE", 0), US("ERROR_VALUE", 0),
                UI("MSG_ID_ID", message_id) >> \o FilterOf(c) \o FixedFilter)
      d == SetAdd(e, "ADMIN_STATUS_RTAD_FLAGS", "UC", 1)
  IN  /\ Missing(c, HopAndSender) = {}
      /\ path_configuration' = c
      /\ UNCHANGED configuration
      /\ \/ /\ IETF
            /\ phase' = "tearing" /\ label' = OwnLabel
            /\ Sends(acks \o << Msg("RESV", d, adding_resv_objects(c, d)
                                               \o << "ADMIN_STATUS" >>) >>, {})
         \/ /\ ~ IETF
            /\ phase' = "down" /\ label' = 0
            /\ Sends(acks \o << Msg("PATHERR", e,
                       << "MESSAGE_ID", "SESSION_OIF", "ERROR_SPEC", "SENDER_TEMPLATE" >>
                       \o Only(proto = "OIFUNI20",
                               << "ETHERNET_SENDER_TSPEC" >> \o CallId(e))) >>, {})

(* respond_path_nack *)
RespondPathNack(c, acks) ==
  LET e == SetEach(c, << UI("CONTROL_OUT_IF_ADDR", Local),
                        US("TUNNEL_ID", Read(c, "TUNNEL_ID")) >>
                     \o FilterOf(c)
                     \o << UI("ERROR_NODE_ADDR", Local), UC("ERROR_FLAGS", 0),
                           UC("ERROR_CODE", 2), US("ERROR_VALUE", 0),
                           UI("MSG_ID_ID", message_id) >>)
      classes ==
        IF IETF THEN << "SESSION_IETF", "ERROR_SPEC", "SENDER_TEMPLATE",
                        "TOKEN_SENDER_TSPEC" >>
        ELSE << "MESSAGE_ID", "SESSION_OIF", "ERROR_SPEC", "SENDER_TEMPLATE",
                "SONETSDH_SENDER_TSPEC" >>
             \o Only(IsPresent(c, "UPSTREAM_LABEL"), << "UPSTREAM_LABEL" >>)
             \o Only(proto = "OIFUNI20", CallId(e))
  IN  /\ Missing(c, Sender) = {}
      /\ configuration' = e
      /\ phase' = "down"
      /\ Sends(acks \o << Msg("PATHERR", e, classes) >>, {})
      /\ UNCHANGED << path_configuration, label >>

Refuse(c, acks) == RespondPathNack(c, acks) \/ ReadsAbsent(c, Sender, acks)

Respond(c, acks) ==
  \/ ReadsAbsent(c, HopAndSender, acks)
  \/ /\ (IsPresent(c, "ADMIN_STATUS_RTAD_FLAGS") => Read(c, "ADMIN_STATUS_RTAD_FLAGS") # 9)
     /\ RespondPath(c, acks)
  \/ /\ IsPresent(c, "ADMIN_STATUS_RTAD_FLAGS") /\ Read(c, "ADMIN_STATUS_RTAD_FLAGS") = 9
     /\ RespondPathDelete(c, acks)

(* The first PATH of a path: the connection is constructed with the        *)
(* dispatcher's empty configuration, and the client is asked; with no one  *)
(* to ask the answer is the agent's.                                       *)
RecvFirst(c) ==
  \/ /\ phase' = "asked" /\ pending' = c
     /\ configuration' = SetAdd(set_conf_defaults, "TUNNEL_ID", "US",
                                Read(c, "TUNNEL_ID"))
     /\ reported' = << mgmt_packet(c, 1, "REQ", "CREATE", 0, 0), c >>
     /\ Sends(Acks(c), {})
     /\ UNCHANGED << path_configuration, label >>
  \/ /\ translator
     /\ Refuse(c, Acks(c))
     /\ UNCHANGED << pending, reported >>
  \/ /\ ~ translator
     /\ Respond(c, Acks(c))
     /\ UNCHANGED << pending, reported >>

RecvPath(w) ==
  /\ phase = "null" /\ direction' = "incoming"
  /\ got' = parse_data(w) /\ seen' = got' /\ first' = w
  /\ RecvFirst(got')
  /\ UNCHANGED << proto, translator, request >>

(* The client's answer delivers the PATH again. *)
Accepted ==
  /\ phase = "asked" /\ message_id <= MaxMessageId
  /\ Respond(pending, << >>)
  /\ UNCHANGED << proto, translator, direction, pending, request, seen, first, got,
                  reported >>

Refused ==
  /\ phase = "asked" /\ message_id <= MaxMessageId
  /\ Refuse(pending, << >>)
  /\ UNCHANGED << proto, translator, direction, pending, request, seen, first, got,
                  reported >>

(* A PATH of the same path, with the flags the router gives it: answered   *)
(* when the path is up, refused when it is not.                            *)
RecvPathAgain(flags) ==
  /\ direction = "incoming" /\ phase # "ended" /\ message_id <= MaxMessageId
  /\ got' = IF flags = 0 THEN parse_data(first)
            ELSE SetAdd(parse_data(first), "ADMIN_STATUS_RTAD_FLAGS", "UC", flags)
  /\ \/ phase = "up" /\ Respond(got', Acks(got'))
     \/ phase # "up" /\ Refuse(got', Acks(got'))
  /\ UNCHANGED << proto, translator, direction, pending, request, seen, first,
                  reported >>

-----------------------------------------------------------------------------
(* destroy_path and reports.                                               *)

(* The RESV that asks the sender to tear an incoming path down. *)
ResvDelete ==
  SetLabel(SetAdd(configuration, "ADMIN_STATUS_RTAD_FLAGS", "UC", 9), - label)

(* Mutant: the defaults replace what is there. *)
DeleteWithDefaults ==
  SetAt(RemoveEach(Update(configuration, set_conf_defaults),
                  {"UPSTREAM_LABEL"} \cup InterfaceHandles),
        "MSG_ID_ID", "UI", message_id, 0, 0)

DeleteConf ==
  SetAt(RemoveEach(AddMissing(configuration, set_conf_defaults),
                  {"UPSTREAM_LABEL"} \cup InterfaceHandles),
        "MSG_ID_ID", "UI", message_id, 0, 0)

DestroyByFlags ==
  \/ /\ direction = "outgoing" /\ ~ IETF
     /\ LET d == SetEach(configuration, << UI("MSG_ID_ID", message_id),
                                         UC("ADMIN_STATUS_RTAD_FLAGS", 9) >>)
        IN  Sends(<< Msg("PATH", d,
              << "MESSAGE_ID", "SESSION_OIF", "IPV4_IF_ID_RSVP_HOP", "TIME_VALUES",
                 "GENERALIZED_LABEL_REQUEST", "GENERALIZED_UNI", "GU_SOURCE_TNA_ADDRESS",
                 "GU_DESTINATION_TNA_ADDRESS", "GU_SERVICE_LEVEL", "SENDER_TEMPLATE",
                 "ADMIN_STATUS" >>
              \o Only(proto = "OIFUNI20", << "ETHERNET_SENDER_TSPEC" >>)
              \o Only(proto = "OIFUNI10", << "SONETSDH_SENDER_TSPEC" >>)
              \o Only(IsPresent(d, "UPSTREAM_LABEL"), << "UPSTREAM_LABEL" >>)
              \o Only(proto = "OIFUNI20", CallId(d))) >>, {})
     /\ UNCHANGED << configuration, path_configuration >>
  \/ /\ direction = "outgoing" /\ IETF /\ IsPresent(configuration, "UPSTREAM_LABEL")
     /\ path_configuration' = SetAdd(path_configuration, "ADMIN_STATUS_RTAD_FLAGS",
                                     "UC", 9)
     /\ Sends(<< Msg("PATH", path_configuration',
                     adding_create_path_objects(path_configuration', path_configuration')
                     \o << "ADMIN_STATUS" >>) >>, {})
     /\ UNCHANGED configuration
  \/ /\ direction = "incoming"
     /\ IETF => IsPresent(configuration, "UPSTREAM_LABEL")
     /\ configuration' = ResvDelete
     /\ Sends(<< Msg("RESV", ResvDelete,
                     adding_resv_objects(path_configuration, ResvDelete)
                     \o << "ADMIN_STATUS" >>) >>, {})
     /\ UNCHANGED path_configuration

DestroyLocally ==
  /\ IETF /\ ~ IsPresent(configuration, "UPSTREAM_LABEL")
  /\ \/ /\ direction = "outgoing"
        /\ Sends(<< Msg("PATHTEAR", DeleteConf,
                        << "SESSION_IETF", "IPV4_RSVP_HOP", "SENDER_TEMPLATE",
                           "TOKEN_SENDER_TSPEC" >>) >>, {})
     \/ /\ direction = "incoming"
        /\ LET r == RemoveParam(DeleteConf, "REFRESH_PERIOD")
           IN  Sends(<< Msg("RESVTEAR", r,
                            adding_resv_objects(path_configuration, r)) >>, {})
  /\ UNCHANGED << configuration, path_configuration >>

(* With the flags the path stays what it is until the router answers.      *)
DestroyPath ==
  /\ direction # "undefined" /\ phase # "ended" /\ message_id <= MaxMessageId
  /\ \/ DestroyByFlags /\ UNCHANGED << phase, label >>
     \/ DestroyLocally /\ phase' = "down" /\ label' = 0
  /\ UNCHANGED << proto, translator, direction, pending, request, seen, first, got,
                  reported >>

(* A status request: the path's parameters and its state. *)
ReportStatus ==
  LET c == SetAdd(path_configuration, "PATH_STATUS", "UI", 6)
  IN  /\ phase \notin {"null", "asked", "ended"}
      /\ reported' = << mgmt_packet(c, 1, "ACK", "STATUS", 0, 1), c >>
      /\ Sends(<< >>, {})
      /\ UNCHANGED << proto, translator, phase, direction, configuration,
                      path_configuration, label, pending, request, seen, first, got >>

Next ==
  \/ \E r \in Requests : CreatePath(r)
  \/ RefreshPath
  \/ \E flags \in {0, 1, 9}, id \in BOOLEAN,
        left_out \in {{}, {"LABEL"}, {"CONTROL_OUT_IF_ADDR"}} : RecvResv(flags, id, left_out)
  \/ \E w \in RouterPaths : RecvPath(w)
  \/ Accepted
  \/ Refused
  \/ \E flags \in {0, 9, 10} : RecvPathAgain(flags)
  \/ DestroyPath
  \/ ReportStatus

Spec == Init /\ [][Next]_vars

-----------------------------------------------------------------------------
(* Properties.                                                             *)

Stored == {configuration, path_configuration, pending, seen, got}

(* Types: every store has its parameters' slots filled as their types      *)
(* allow, and a length where there is a value of that kind (the store      *)
(* rsvp_configuration.cpp keeps in an array of void pointers).             *)
TypeOK ==
  /\ proto \in {"IETF_RSVP", "OIFUNI10", "OIFUNI20"} /\ translator \in BOOLEAN
  /\ message_id \in 1..(MaxMessageId + 3)
  /\ phase \in {"null", "asked", "sent", "up", "tearing", "down", "ended"}
  /\ direction \in {"undefined", "outgoing", "incoming"}
  /\ \A c \in Stored : WellFormed(c)

(* Whatever the client or the router left out, a message holds an object   *)
(* only if the store it is written from has all of it (check_addable       *)
(* against the writers of rsvp_packet.cpp): what is read though absent is  *)
(* the hop, the sender or the label the router's own message came without, *)
(* and the process goes on after no such read.                             *)
NoNullRead ==
  /\ null \subseteq Missing(got, HopAndSender \cup {"LABEL"})
  /\ null # {} => phase = "ended"

(* Every object is as long as its header says, so the receiver finds the   *)
(* next one; but a hop to a data interface without a handle announces a    *)
(* TLV that is not written (rsvp_packet.cpp:1632).                         *)
ObjectsFill ==
  \A m \in ToSet(sent) : \A o \in ToSet(m.wire) :
    Fills(o) \/ (o.class = "IPV4_IF_ID_RSVP_HOP" /\ ~ m.handle)

(* The objects of a message are in the order of add_order, whatever order  *)
(* the caller added them in (add_object).                                  *)
ObjectsInOrder ==
  \A m \in ToSet(sent) : \A i, j \in DOMAIN m.objs :
    i < j => get_object_order[m.objs[i]] <= get_object_order[m.objs[j]]

Readable(m) == \A o \in ToSet(m.wire) : Fills(o)

(* What the router reads names the path: session, and sender or filter,    *)
(* are those of the path's first PATH, in every message of either          *)
(* direction, through updates, translation and defaults.  What the agent   *)
(* sends when the client destroys a path that has no answer yet, or was    *)
(* answered with the flags R and D, names no path, but never another one.  *)
NamesPath ==
  \A m \in ToSet(sent) :
    LET c == parse_data(m.wire)
        same(p, q) == IsPresent(c, p) => Read(c, p) = Read(seen, q)
        unanswered == /\ m.mtype \in {"RESV", "RESVTEAR"}
                      /\ ~ IsPresent(configuration, "SESSION_DEST_ADDR")
    IN  (m.mtype # "ACK" /\ Readable(m))
        => /\ \A p \in SessionId : same(p, p)
           /\ same("SENDER_SRC_ADDR", "SENDER_SRC_ADDR")
           /\ same("SENDER_SRC_ID", "SENDER_SRC_ID")
           /\ same("FILTER_SRC_ADDR", "SENDER_SRC_ADDR")
           /\ same("FILTER_SRC_PORT", "SENDER_SRC_ID")
           /\ unanswered \/ /\ \A p \in SessionId : IsPresent(c, p)
                            /\ \/ IsPresent(c, "SENDER_SRC_ADDR")
                               \/ IsPresent(c, "FILTER_SRC_ADDR")

(* What the router reads in the PATH of a request is what the client gave: *)
(* the ends, the refresh period, the bandwidth, the switching, names,      *)
(* priorities and service of the path.  Translation replaces the ends (1   *)
(* to 3).  A route (13 to 15) is RouteReachesRouter's.  The rest has no    *)
(* object of its own in a PATH (16 to 25, 29, 30, 34) or none in the PATH  *)
(* of the protocol in use (5 to 7, 27, 28, 35 to 42), or a number of the   *)
(* agent in its place: the hop has no control handle (26), which OIFUNI20  *)
(* makes the label instead of the one asked for (8).  Of the granularity   *)
(* (40) one signed byte is written.                                        *)
Carried(id) == LET p == Head(AddedAs(id)) IN << p, request[id] >>
Kept ==
  DOMAIN request \cap
    ((IF translator THEN {} ELSE {1, 2, 3}) \cup {4, 9, 10, 11, 12, 23, 31, 32, 33}
     \cup (IF IETF THEN {5, 6, 7} ELSE {27, 28, 35})
     \cup (IF proto = "OIFUNI20"
           THEN {36, 37, 38, 39, 41, 42}
                \cup {id \in {40} \cap DOMAIN request : request[id] \in 0..127}
           ELSE {8}))
RequestReachesRouter ==
  (direction = "outgoing" /\ Readable([wire |-> first])) =>
    \A id \in Kept :
      /\ IsPresent(seen, Carried(id)[1])
      /\ Read(seen, Carried(id)[1]) = Carried(id)[2]

(* The hop of a route the client names is the one the router reads in the  *)
(* PATH, unless the path is translated (mgmt_packet.cpp's three objects of *)
(* a hop against the eight bytes rsvp_packet.cpp writes).                  *)
RouteReachesRouter ==
  (/\ direction = "outgoing" /\ ~ translator /\ Readable([wire |-> first])
   /\ {13, 14, 15} \subseteq DOMAIN request)
  => seen.data["ERO"] = << [address |-> request[13], prefix_length |-> request[14],
                            loose |-> IF request[15] = 1 THEN 1 ELSE 0] >>

(* A refresh is the PATH that set the path up, object for object, though   *)
(* the configuration has changed since, and though path_configuration has  *)
(* when the client has asked for a deletion by flags (refresh_path).       *)
RefreshIsSamePath == [][RefreshPath => \A m \in ToSet(sent') : m.wire = first]_vars

(* The label the agent gives in a RESV is the one its kernel table gets,   *)
(* and the one the sender proposed where it did (respond_path).            *)
LabelAgreed ==
  \A m \in ToSet(sent) :
    (m.mtype = "RESV" /\ phase = "up") =>
      LET c == parse_data(m.wire)
      IN  /\ IsPresent(c, "LABEL") /\ Read(c, "LABEL") = - label
          /\ IsPresent(seen, "UPSTREAM_LABEL") => Read(seen, "UPSTREAM_LABEL") = label

(* An ACK names the message the router sent, and asks for no ACK itself    *)
(* (respond_ackreq).                                                       *)
AckNamesMessage ==
  \A m \in ToSet(sent) :
    m.mtype = "ACK" =>
      LET c == parse_data(m.wire)
      IN  /\ \A p \in {"MSG_ID_EPOCH", "MSG_ID_ID"} :
               IsPresent(c, p) /\ Read(c, p) = Read(got, p)
          /\ Read(c, "MSG_ID_FLAGS") = 0

(* What the client reads in a report or a request of the agent is the      *)
(* store's value of each parameter, of a list the last (mgmt_packet.cpp of *)
(* the agent against that of the client library).  Of a message of more    *)
(* objects than its byte counts, as a long route makes it, the client      *)
(* reads only some.                                                        *)
ReportReadsBack ==
  (reported # << >> /\ Len(reported[1].objects) < 256) =>
    LET read == client_parse(reported[1])
        c == reported[2]
    IN  \A k \in DOMAIN Table :
          LET row == Table[k]
          IN  row.id # 13 =>
                /\ IsPresent(c, row.par) <=> row.id \in DOMAIN read
                /\ IsPresent(c, row.par) => read[row.id] = Last(c.data[row.par])
=============================================================================
