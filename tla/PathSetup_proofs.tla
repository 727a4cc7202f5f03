--------------------------- MODULE PathSetup_proofs ---------------------------
(***************************************************************************)
(* Theorems about the messages and the stores of a path, for every request *)
(* of the client and every message of the router.                          *)
(***************************************************************************)
EXTENDS PathSetup, RsvpWire_proofs

-----------------------------------------------------------------------------
(* A message of a fit store.                                               *)
Composed(m) == \E mtype, c, list : m = Msg(mtype, c, list) /\ MessageFit(c, list)

Sendable(m) ==
  /\ InOrder(m.objs) /\ m.null = {} /\ ShapedWire(m.wire)
  /\ \A k \in DOMAIN m.wire :
       Fills(m.wire[k]) \/ (m.wire[k].class = "IPV4_IF_ID_RSVP_HOP" /\ ~ m.handle)

LEMMA MessageSendable ==
  ASSUME NEW mtype, NEW c, NEW list, MessageFit(c, list)
  PROVE  Sendable(Msg(mtype, c, list))
<1> DEFINE objs == add_objects(<< >>, c, list)
           m == Msg(mtype, c, list)
<1>1. Fitting(objs, c, list) /\ AllWritable(objs, c)
  BY ObjectsWritable
<1>2. Good(c) /\ objs \in Seq(Classes) /\ InOrder(objs)
  BY <1>1 DEF Fitting, MessageFit, Fit
<1>3. /\ m.objs = objs /\ m.wire = get_data(objs, c)
      /\ m.handle = IsPresent(c, "DATA_OUT_IF_HANDLE")
      /\ m.null = UNION {NullReads(x, c, objs) : x \in ToSet(objs) \ Subobjects}
  BY DEF Msg, MsgOf
<1> HIDE DEF objs, m
<1>4. ASSUME NEW x \in ToSet(objs) \ Subobjects PROVE NullReads(x, c, objs) = {}
  <2>1. PICK i \in DOMAIN objs : objs[i] = x
    BY DEF ToSet
  <2>2. Writable(x, c, objs)
    BY <1>1, <2>1 DEF AllWritable
  <2> QED BY <1>2, <2>2, NoNullInWritten
<1>5. m.null = {}
  BY <1>3, <1>4
<1> DEFINE wire == get_data(objs, c)
<1>6. /\ ShapedWire(wire)
      /\ \A k \in DOMAIN wire : \E i : Wired(wire[k], objs, c, i)
  BY <1>1, <1>2, WireOf
<1> HIDE DEF wire
<1>7. ASSUME NEW k \in DOMAIN wire
      PROVE  Fills(wire[k]) \/ (wire[k].class = "IPV4_IF_ID_RSVP_HOP" /\ ~ m.handle)
  <2>1. PICK i : Wired(wire[k], objs, c, i)
    BY <1>6
  <2>2. wire[k].class = objs[i] /\ (Fills(wire[k]) \/ NoTlv(objs[i], c))
    BY <2>1 DEF Wired
  <2> QED BY <1>3, <2>2 DEF NoTlv
<1> QED BY <1>2, <1>3, <1>5, <1>6, <1>7 DEF Sendable, m, wire

LEMMA ComposedSendable == ASSUME NEW m, Composed(m) PROVE Sendable(m)
BY MessageSendable DEF Composed

-----------------------------------------------------------------------------
(* What the handlers set, and what they do not.                            *)

(* What the handlers set besides: no flag of the style, nothing of what    *)
(* the label, the route and the kind of path are read from.                *)
Common ==
  {"EXTENDED_IPV4_ADDR", "DATA_OUT_IF_ADDR", "DATA_OUT_IF_HANDLE", "DATA_IN_IF_ADDR",
   "CONTROL_OUT_IF_ADDR", "CONTROL_OUT_IF_HANDLE", "SENDER_SRC_ADDR", "SENDER_SRC_ID",
   "SESSION_DEST_ADDR", "TUNNEL_ID", "MSG_ID_FLAGS", "MSG_ID_EPOCH", "MSG_ID_ID",
   "ERROR_NODE_ADDR", "ERROR_FLAGS", "ERROR_CODE", "ERROR_VALUE",
   "RESV_CONFIRM_RECV_ADDR", "FILTER_SRC_ADDR", "FILTER_SRC_PORT",
   "ADMIN_STATUS_RTAD_FLAGS"}

LEMMA DefaultedPlain == Defaulted \subseteq Plain /\ Defaulted \cap StyleFlags = {}
BY DEF Defaulted, Plain, Parameters, PT_TAB, PT_VS, PT_UC, PT_US, PT_UI, PT_F, PT_CS, StyleFlags

LEMMA CommonPlain ==
  /\ Common \subseteq Plain /\ Common \cap StyleFlags = {} /\ Common \cap Kinded = {}
  /\ Common \cap EthernetBandwidth = {} /\ Common \cap EthernetLink = {}
  /\ Common \cap {"LABEL"} = {}
BY DEF Common, Plain, Parameters, PT_TAB, PT_VS, PT_UC, PT_US, PT_UI, StyleFlags, Kinded,
       EthernetBandwidth, EthernetLink

(* What set_conf_defaults sets, as calls.                                  *)
LEMMA DefaultsSet ==
  \E calls : /\ Sets(calls, Defaulted) /\ set_conf_defaults = SetEach(Empty, calls)
             /\ \A x \in {UI("EXTENDED_IPV4_ADDR", Local), UI("SENDER_SRC_ADDR", Local),
                         US("SENDER_SRC_ID", 1)} : Occurs(x, calls)
<1> DEFINE V == Int \cup {message_id}
           S == SettingsIn(V, Defaulted)
           a == << FL("TOKEN_BUCKET_RATE", 31250000), FL("TOKEN_BUCKET_SIZE", 31250000),
                   FL("PEAK_DATA_RATE", 31250000) >>
           b == IF IETF
                THEN << UC("LSP_ENC_TYPE", 1), UC("LSP_SWITCHING_TYPE", 1),
                        US("LSP_GPID", 2048) >>
                ELSE << UC("LSP_ENC_TYPE", 2), UC("LSP_SWITCHING_TYPE", 51),
                        US("LSP_GPID", 34), VS("UPSTREAM_LABEL", 65536) >>
           d1 == << UI("EXTENDED_IPV4_ADDR", Local), UI("DATA_OUT_IF_ADDR", Local),
                    UI("DATA_IN_IF_ADDR", Local), UI("CONTROL_OUT_IF_ADDR", Local),
                    UI("SENDER_SRC_ADDR", Local) >>
           d2 == << UI("DATA_OUT_IF_HANDLE", 1000), UI("DATA_IN_IF_HANDLE", 1000),
                    UI("CONTROL_OUT_IF_HANDLE", 1000), US("SENDER_SRC_ID", 1),
                    UC("MSG_ID_FLAGS", 1), UI("MSG_ID_EPOCH", Epoch),
                    UI("MSG_ID_ID", message_id) >>
           d3 == << CS("SESSION_NAME", 12), UC("SETUP_PRIORITY", 0),
                    UC("HOLDING_PRIORITY", 0), UC("LOCAL_PROTECTION_FLAG", 1),
                    UC("LABEL_RECORDING_FLAG", 0), UC("SE_STYLE_FLAG", 1),
                    UI("MINIMUM_POLICED_UNIT", 64), UI("MAXIMUM_PACKET_SIZE", 1518) >>
           d4 == << UI("TNA_SRC_ADDR", TnaSource), UI("TNA_DST_ADDR", TnaDestination),
                    UI("ADMIN_STATUS_RTAD_FLAGS", 0), UI("TR_D_ADDR", LocalHost),
                    UI("REFRESH_PERIOD", 30000) >>
           d5 == << FL("ETHERNET_CIR", 31250000), FL("ETHERNET_CBS", 0),
                    FL("ETHERNET_EIR", 0), FL("ETHERNET_EBS", 0),
                    US("ETHERNET_SW_GRANUALITY", 1), UC("ETHERNET_INDEX", 0),
                    UC("ETHERNET_PROFILE", 0) >>
<1>0. /\ Local \in V /\ Epoch \in V /\ message_id \in V /\ TnaSource \in V
      /\ TnaDestination \in V /\ LocalHost \in V /\ Int \subseteq V
  BY SMT DEF Local, Epoch, TnaSource, TnaDestination, LocalHost
<1> HIDE DEF V
<1>1. \A p \in Defaulted, v \in V :
        /\ UC(p, v) \in S /\ US(p, v) \in S /\ UI(p, v) \in S /\ FL(p, v) \in S
        /\ VS(p, v) \in S /\ (v \in Int => CS(p, v) \in S)
  BY SMT, DefaultedPlain, SettingIn
<1> HIDE DEF S
<1>2. \A x \in {UI("EXTENDED_IPV4_ADDR", Local), UI("SENDER_SRC_ADDR", Local),
                US("SENDER_SRC_ID", 1)} : Occurs(x, d1) \/ Occurs(x, d2)
  <2>1. /\ 1 \in DOMAIN d1 /\ d1[1] = UI("EXTENDED_IPV4_ADDR", Local)
        /\ 5 \in DOMAIN d1 /\ d1[5] = UI("SENDER_SRC_ADDR", Local)
        /\ 4 \in DOMAIN d2 /\ d2[4] = US("SENDER_SRC_ID", 1)
    OBVIOUS
  <2> HIDE DEF d1, d2
  <2> QED BY <2>1 DEF Occurs
<1>3. Sets(a, Defaulted)
  <2>1. a \in Seq(S)
    BY SMT, <1>0, <1>1 DEF Defaulted
  <2> HIDE DEF a
  <2> QED BY SMT, <2>1, SequenceSets DEF S
<1>4. Sets(b, Defaulted)
  <2>1. b \in Seq(S)
    BY SMT, <1>0, <1>1 DEF Defaulted
  <2> HIDE DEF b
  <2> QED BY SMT, <2>1, SequenceSets DEF S
<1>5. Sets(d1, Defaulted) /\ Sets(d2, Defaulted) /\ Sets(d3, Defaulted)
      /\ Sets(d4, Defaulted) /\ Sets(d5, Defaulted)
  <2>1. d1 \in Seq(S)
    BY SMT, <1>0, <1>1 DEF Defaulted
  <2>2. d2 \in Seq(S)
    BY SMT, <1>0, <1>1 DEF Defaulted
  <2>3. d3 \in Seq(S)
    BY SMT, <1>0, <1>1 DEF Defaulted
  <2>4. d4 \in Seq(S)
    BY SMT, <1>0, <1>1 DEF Defaulted
  <2>5. d5 \in Seq(S)
    BY SMT, <1>0, <1>1 DEF Defaulted
  <2> HIDE DEF d1, d2, d3, d4, d5
  <2> QED BY SMT, <2>1, <2>2, <2>3, <2>4, <2>5, SequenceSets DEF S
<1>6. set_conf_defaults = SetEach(Empty, a \o b \o d1 \o d2 \o d3 \o d4 \o d5)
  BY SMT DEF set_conf_defaults
<1> HIDE DEF a, b, d1, d2, d3, d4, d5
<1> DEFINE ab == a \o b
           p1 == ab \o d1
           p2 == p1 \o d2
           p3 == p2 \o d3
           p4 == p3 \o d4
           p5 == p4 \o d5
           X == {UI("EXTENDED_IPV4_ADDR", Local), UI("SENDER_SRC_ADDR", Local),
                 US("SENDER_SRC_ID", 1)}
<1>8. set_conf_defaults = SetEach(Empty, p5)
  BY <1>6
<1>9. Sets(ab, Defaulted)
  BY <1>3, <1>4, JoinedSets
<1> HIDE DEF ab
<1>10. Sets(p1, Defaulted) /\ \A x \in X : Occurs(x, d1) => Occurs(x, p1)
  BY <1>5, <1>9, JoinedSets, JoinedOccurs
<1> HIDE DEF p1
<1>11. /\ Sets(p2, Defaulted)
       /\ \A x \in X : Occurs(x, p1) \/ Occurs(x, d2) => Occurs(x, p2)
  BY <1>5, <1>10, JoinedSets, JoinedOccurs
<1> HIDE DEF p2
<1>12. Sets(p3, Defaulted) /\ \A x \in X : Occurs(x, p2) => Occurs(x, p3)
  BY <1>5, <1>11, JoinedSets, JoinedOccurs
<1> HIDE DEF p3
<1>13. Sets(p4, Defaulted) /\ \A x \in X : Occurs(x, p3) => Occurs(x, p4)
  BY <1>5, <1>12, JoinedSets, JoinedOccurs
<1> HIDE DEF p4
<1>14. Sets(p5, Defaulted) /\ \A x \in X : Occurs(x, p4) => Occurs(x, p5)
  BY <1>5, <1>13, JoinedSets, JoinedOccurs
<1> HIDE DEF p5
<1>15. ASSUME NEW x \in X PROVE Occurs(x, p5)
  BY <1>2, <1>10, <1>11, <1>12, <1>13, <1>14, <1>15
<1> QED BY <1>8, <1>14, <1>15

LEMMA DefaultsFit == Fit(set_conf_defaults)
<1>1. PICK calls : Sets(calls, Defaulted) /\ set_conf_defaults = SetEach(Empty, calls)
  BY DefaultsSet
<1> QED BY <1>1, DefaultedPlain, EmptyIsFit, FitSetEach

-----------------------------------------------------------------------------
(* The lists of classes the handlers add.                                  *)

LEMMA UsualMessage ==
  ASSUME NEW mtype, NEW c, Fit(c), NEW list \in Seq(Usual)
  PROVE  Composed(Msg(mtype, c, list))
<1>1. Usual \subseteq Added /\ "ETHERNET_FLOWSPEC" \notin Usual
  BY DEF Added, Usual
<1>2. list \in Seq(Added) /\ \A k \in DOMAIN list : list[k] \in Usual
  BY <1>1, SequenceIn
<1>3. ~ Occurs("ETHERNET_FLOWSPEC", list)
  BY <1>1, <1>2 DEF Occurs
<1> QED BY <1>2, <1>3 DEF Composed, MessageFit

LEMMA OnlyUsual ==
  ASSUME NEW holds, NEW list \in Seq(Usual)
  PROVE  Only(holds, list) \in Seq(Usual)
BY DEF Only

LEMMA CallIdUsual == ASSUME NEW c PROVE CallId(c) \in Seq(Usual)
<1>1. /\ << "CALL_ID_0" >> \in Seq(Usual) /\ << "CALL_ID_1" >> \in Seq(Usual)
      /\ << "CALL_ID_2" >> \in Seq(Usual)
  BY DEF Usual
<1> QED BY <1>1 DEF CallId

LEMMA HopUsual == ASSUME NEW n PROVE HopFor(n) \in Usual
<1>1. "IPV4_IF_ID_RSVP_HOP" \in Usual /\ "IPV4_RSVP_HOP" \in Usual
  BY DEF Usual
<1> QED BY <1>1 DEF HopFor

LEMMA CreateUsual ==
  ASSUME NEW conf, NEW c
  PROVE  adding_create_path_objects(conf, c) \in Seq(Usual)
<1> DEFINE hop == HopFor(Read(conf, "LSP_SWITCHING_TYPE"))
           a == << "GENERALIZED_LABEL_REQUEST", "SENDER_TEMPLATE" >>
           b == Only(IsPresent(conf, "UPSTREAM_LABEL"), << "UPSTREAM_LABEL" >>)
           d == Only(~ translator /\ IsPresent(conf, "ERO"), << "ERO" >>)
           e == IF IETF
                THEN << "SESSION_IETF", hop, "TIME_VALUES", "SESSION_ATTRIBUTE",
                        "TOKEN_SENDER_TSPEC" >>
                ELSE << "MESSAGE_ID", "SESSION_OIF", "IPV4_IF_ID_RSVP_HOP", "TIME_VALUES",
                        "GENERALIZED_UNI", "GU_SOURCE_TNA_ADDRESS",
                        "GU_DESTINATION_TNA_ADDRESS", "GU_SERVICE_LEVEL",
                        "SESSION_ATTRIBUTE", "NOTIFY_REQUEST", "ADMIN_STATUS" >>
           f == Only(proto = "OIFUNI20", << "ETHERNET_SENDER_TSPEC" >> \o CallId(c))
           g == Only(proto = "OIFUNI10", << "SONETSDH_SENDER_TSPEC" >>)
<1>1. a \in Seq(Usual) /\ b \in Seq(Usual) /\ d \in Seq(Usual)
  <2>1. << "UPSTREAM_LABEL" >> \in Seq(Usual) /\ << "ERO" >> \in Seq(Usual)
    BY DEF Usual
  <2>2. a \in Seq(Usual)
    BY DEF Usual
  <2> QED BY <2>1, <2>2, OnlyUsual
<1>2. e \in Seq(Usual)
  <2>1. hop \in Usual
    BY HopUsual
  <2> HIDE DEF hop
  <2>2. /\ "SESSION_IETF" \in Usual /\ "TIME_VALUES" \in Usual
        /\ "SESSION_ATTRIBUTE" \in Usual /\ "TOKEN_SENDER_TSPEC" \in Usual
    BY DEF Usual
  <2>3. << "SESSION_IETF", hop, "TIME_VALUES", "SESSION_ATTRIBUTE",
           "TOKEN_SENDER_TSPEC" >> \in Seq(Usual)
    BY <2>1, <2>2
  <2>4. << "MESSAGE_ID", "SESSION_OIF", "IPV4_IF_ID_RSVP_HOP", "TIME_VALUES",
           "GENERALIZED_UNI", "GU_SOURCE_TNA_ADDRESS", "GU_DESTINATION_TNA_ADDRESS",
           "GU_SERVICE_LEVEL", "SESSION_ATTRIBUTE", "NOTIFY_REQUEST",
           "ADMIN_STATUS" >> \in Seq(Usual)
    BY DEF Usual
  <2> QED BY <2>3, <2>4
<1>3. f \in Seq(Usual) /\ g \in Seq(Usual)
  <2>1. << "ETHERNET_SENDER_TSPEC" >> \in Seq(Usual) /\ << "SONETSDH_SENDER_TSPEC" >> \in Seq(Usual)
    BY DEF Usual
  <2>2. << "ETHERNET_SENDER_TSPEC" >> \o CallId(c) \in Seq(Usual)
    BY <2>1, CallIdUsual
  <2> QED BY <2>1, <2>2, OnlyUsual
<1>4. adding_create_path_objects(conf, c) = a \o b \o d \o e \o f \o g
  BY Zenon DEF adding_create_path_objects
<1> HIDE DEF a, b, d, e, f, g
<1> QED BY <1>1, <1>2, <1>3, <1>4

(* Two stores that agree on what kind of path it is have the same PATH. *)
LEMMA SameCreate ==
  ASSUME NEW conf, NEW other, NEW c, Good(conf), Good(other),
         \A p \in Kinded : conf.data[p] = other.data[p]
  PROVE  adding_create_path_objects(conf, c) = adding_create_path_objects(other, c)
<1>1. /\ "UPSTREAM_LABEL" \in Kinded /\ "ERO" \in Kinded /\ "LSP_SWITCHING_TYPE" \in Kinded
      /\ Kinded \subseteq Parameters
  BY DEF Kinded, Parameters, PT_UC, PT_UI, PT_VS
<1>2. \A p \in Kinded : IsPresent(conf, p) <=> IsPresent(other, p)
  BY <1>1, GoodPresent
<1>3. (IsPresent(conf, "UPSTREAM_LABEL") <=> IsPresent(other, "UPSTREAM_LABEL"))
      /\ (IsPresent(conf, "ERO") <=> IsPresent(other, "ERO"))
  BY <1>1, <1>2
<1>4. Read(conf, "LSP_SWITCHING_TYPE") = Read(other, "LSP_SWITCHING_TYPE")
  BY <1>1 DEF Read, ReadAt
<1>5. Only(IsPresent(conf, "UPSTREAM_LABEL"), << "UPSTREAM_LABEL" >>)
        = Only(IsPresent(other, "UPSTREAM_LABEL"), << "UPSTREAM_LABEL" >>)
  BY <1>3 DEF Only
<1>6. Only(~ translator /\ IsPresent(conf, "ERO"), << "ERO" >>)
        = Only(~ translator /\ IsPresent(other, "ERO"), << "ERO" >>)
  BY <1>3 DEF Only
<1> QED BY <1>4, <1>5, <1>6, Zenon DEF adding_create_path_objects

(* Under IETF_RSVP nothing in a PATH holds the flags of ADMIN_STATUS. *)
LEMMA CreateUnflagged ==
  ASSUME IETF, NEW conf, NEW c, NEW e
  PROVE  /\ adding_create_path_objects(conf, c) \in Seq(PathKinds)
         /\ adding_create_path_objects(conf, c) = adding_create_path_objects(conf, e)
<1> DEFINE hop == HopFor(Read(conf, "LSP_SWITCHING_TYPE"))
           a == << "GENERALIZED_LABEL_REQUEST", "SENDER_TEMPLATE" >>
           b == Only(IsPresent(conf, "UPSTREAM_LABEL"), << "UPSTREAM_LABEL" >>)
           d == Only(~ translator /\ IsPresent(conf, "ERO"), << "ERO" >>)
           k == << "SESSION_IETF", hop, "TIME_VALUES", "SESSION_ATTRIBUTE",
                   "TOKEN_SENDER_TSPEC" >>
<1>1. a \in Seq(PathKinds) /\ b \in Seq(PathKinds) /\ d \in Seq(PathKinds)
  <2>1. /\ << "UPSTREAM_LABEL" >> \in Seq(PathKinds) /\ << "ERO" >> \in Seq(PathKinds)
        /\ a \in Seq(PathKinds) /\ << >> \in Seq(PathKinds)
    BY DEF PathKinds
  <2> QED BY <2>1 DEF Only
<1>2. k \in Seq(PathKinds)
  <2>1. hop = "IPV4_RSVP_HOP" \/ hop = "IPV4_IF_ID_RSVP_HOP"
    BY DEF HopFor
  <2> HIDE DEF hop
  <2>2. /\ "SESSION_IETF" \in PathKinds /\ "TIME_VALUES" \in PathKinds /\ hop \in PathKinds
        /\ "SESSION_ATTRIBUTE" \in PathKinds /\ "TOKEN_SENDER_TSPEC" \in PathKinds
    BY <2>1 DEF PathKinds
  <2> QED BY <2>2
<1>3. proto # "OIFUNI20" /\ proto # "OIFUNI10"
  BY DEF IETF
<1>4. \A x : adding_create_path_objects(conf, x) = a \o b \o d \o k \o << >> \o << >>
  BY <1>3, Zenon DEF adding_create_path_objects, Only
<1> HIDE DEF a, b, d, k
<1>5. a \o b \o d \o k \o << >> \o << >> \in Seq(PathKinds)
  BY <1>1, <1>2
<1> QED BY <1>4, <1>5

LEMMA ResvKindsUsual == ResvKinds \subseteq Usual /\ ResvKinds \subseteq Classes
BY DEF ResvKinds, Usual, Classes, requirements

(* The hop and the label are among them, and there is room for all.        *)
HasHopAndLabel(list) ==
  /\ Occurs("GENERALIZED_LABEL", list)
  /\ Occurs("IPV4_RSVP_HOP", list) \/ Occurs("IPV4_IF_ID_RSVP_HOP", list)

LEMMA CallIdKinds ==
  ASSUME NEW holds, NEW c
  PROVE  Only(holds, CallId(c)) \in Seq(ResvKinds) /\ Len(Only(holds, CallId(c))) <= 1
<1>1. /\ << "CALL_ID_0" >> \in Seq(ResvKinds) /\ << "CALL_ID_1" >> \in Seq(ResvKinds)
      /\ << "CALL_ID_2" >> \in Seq(ResvKinds)
  BY DEF ResvKinds
<1>2. /\ Len(<< "CALL_ID_0" >>) = 1 /\ Len(<< "CALL_ID_1" >>) = 1
      /\ Len(<< "CALL_ID_2" >>) = 1
  OBVIOUS
<1>3. CallId(c) \in Seq(ResvKinds) /\ Len(CallId(c)) = 1
  BY <1>1, <1>2 DEF CallId
<1>4. << >> \in Seq(ResvKinds) /\ Len(<< >>) <= 1
  OBVIOUS
<1>5. Len(CallId(c)) <= 1
  BY <1>3
<1>6. Only(holds, CallId(c)) = CallId(c) \/ Only(holds, CallId(c)) = << >>
  BY DEF Only
<1> QED BY <1>3, <1>4, <1>5, <1>6

LEMMA ResvParts ==
  ASSUME NEW path, NEW c, NEW list, list = adding_resv_objects(path, c)
  PROVE  list \in Seq(ResvKinds) /\ Len(list) <= 11 /\ HasHopAndLabel(list)
<1> DEFINE switching == IF IsPresent(path, "LSP_SWITCHING_TYPE")
                        THEN Read(path, "LSP_SWITCHING_TYPE") ELSE 0
           hop == HopFor(switching)
           a == << "SESSION_IETF", hop, "TIME_VALUES", "STYLE",
                   "TOKEN_FLOWSPEC", "FILTER_SPEC", "GENERALIZED_LABEL" >>
           b == << "MESSAGE_ID", "SESSION_OIF", "IPV4_IF_ID_RSVP_HOP", "TIME_VALUES",
                   "STYLE", "SONETSDH_FLOWSPEC", "FILTER_SPEC", "GENERALIZED_LABEL",
                   "RESV_CONFIRM", "TOKEN_FLOWSPEC" >>
           d == Only(proto = "OIFUNI20", CallId(c))
<1>1. hop = "IPV4_RSVP_HOP" \/ hop = "IPV4_IF_ID_RSVP_HOP"
  BY DEF HopFor
<1>2. list = IF IETF THEN a ELSE b \o d
  BY Zenon DEF adding_resv_objects
<1> HIDE DEF hop
<1>3. a \in Seq(ResvKinds) /\ Len(a) = 7 /\ a[2] = hop /\ a[7] = "GENERALIZED_LABEL"
  <2>1. /\ "SESSION_IETF" \in ResvKinds /\ hop \in ResvKinds /\ "TIME_VALUES" \in ResvKinds
        /\ "STYLE" \in ResvKinds /\ "TOKEN_FLOWSPEC" \in ResvKinds
        /\ "FILTER_SPEC" \in ResvKinds /\ "GENERALIZED_LABEL" \in ResvKinds
    BY <1>1 DEF ResvKinds
  <2> QED BY <2>1
<1>4. /\ b \in Seq(ResvKinds) /\ Len(b) = 10 /\ b[3] = "IPV4_IF_ID_RSVP_HOP"
      /\ b[8] = "GENERALIZED_LABEL"
  BY DEF ResvKinds
<1>5. d \in Seq(ResvKinds) /\ Len(d) <= 1
  BY CallIdKinds
<1> HIDE DEF a, b, d
<1>6. CASE IETF
  <2>0. list = a
    BY <1>2, <1>6
  <2>1. 2 \in DOMAIN a /\ 7 \in DOMAIN a /\ Len(a) <= 11
    BY <1>3
  <2> QED BY <1>1, <1>3, <2>0, <2>1 DEF HasHopAndLabel, Occurs
<1>7. CASE ~ IETF
  <2>0. list = b \o d
    BY <1>2, <1>7
  <2>c. b \in Seq(ResvKinds) /\ d \in Seq(ResvKinds)
    BY <1>4, <1>5
  <2>a. /\ b \o d \in Seq(ResvKinds) /\ Len(b \o d) = Len(b) + Len(d)
        /\ \A j \in 1..Len(b) : j \in 1..Len(b \o d) /\ (b \o d)[j] = b[j]
    BY <2>c, Joined
  <2>b. Len(d) \in Nat /\ DOMAIN list = 1..Len(list)
    BY <1>5, <2>0, <2>a
  <2>1. /\ list \in Seq(ResvKinds) /\ Len(list) <= 11
        /\ \A j \in 1..10 : j \in DOMAIN list /\ list[j] = b[j]
    <3>1. list \in Seq(ResvKinds) /\ Len(list) = Len(b) + Len(d) /\ Len(b) = 10
      BY <1>4, <2>0, <2>a
    <3>2. Len(list) <= 11
      BY <1>5, <2>b, <3>1
    <3>3. \A j \in 1..10 : j \in 1..Len(list) /\ list[j] = b[j]
      BY <2>0, <2>a, <3>1
    <3> QED BY <2>b, <3>1, <3>2, <3>3
  <2>2. /\ 3 \in DOMAIN list /\ list[3] = "IPV4_IF_ID_RSVP_HOP"
        /\ 8 \in DOMAIN list /\ list[8] = "GENERALIZED_LABEL"
    BY <1>4, <2>1
  <2> QED BY <2>1, <2>2 DEF HasHopAndLabel, Occurs
<1> QED BY <1>6, <1>7

LEMMA ResvUsual ==
  ASSUME NEW path, NEW c
  PROVE  adding_resv_objects(path, c) \in Seq(Usual)
BY ResvParts, ResvKindsUsual, SequenceIn

-----------------------------------------------------------------------------
(* The calls of setadd of each handler.                                    *)

LEMMA CommonSetting ==
  ASSUME NEW V
  PROVE  \A p \in Common, v \in V :
           /\ UC(p, v) \in SettingsIn(V, Common) /\ US(p, v) \in SettingsIn(V, Common)
           /\ UI(p, v) \in SettingsIn(V, Common)
BY CommonPlain, SettingIn

LEMMA CommonSet ==
  ASSUME NEW c, Fit(c), NEW calls, Sets(calls, Common)
  PROVE  /\ Fit(SetEach(c, calls))
         /\ \A p \in Parameters \ Common : SetEach(c, calls).data[p] = c.data[p]
<1>1. Fit(SetEach(c, calls))
  BY CommonPlain, FitSetEach
<1> QED BY <1>1, SetEachLeaves

LEMMA FilterSets == ASSUME NEW c PROVE Sets(FilterOf(c), Common)
<1> DEFINE a == Read(c, "SENDER_SRC_ADDR")
           b == Read(c, "SENDER_SRC_ID")
           V == {a, b}
           S == SettingsIn(V, Common)
<1>1. a \in V /\ b \in V
  OBVIOUS
<1>2. FilterOf(c) = << UI("FILTER_SRC_ADDR", a), US("FILTER_SRC_PORT", b) >>
  BY DEF FilterOf
<1> HIDE DEF a, b, V
<1>3. \A p \in Common, v \in V : US(p, v) \in S /\ UI(p, v) \in S
  BY CommonSetting
<1> HIDE DEF S
<1>4. FilterOf(c) \in Seq(S)
  BY <1>1, <1>2, <1>3 DEF Common
<1> QED BY <1>4, SequenceSets DEF S

LEMMA LinkSets ==
  ASSUME NEW c, Fit(c)
  PROVE  /\ Fit(LinkAddresses(c))
         /\ \A p \in Parameters \ Common : LinkAddresses(c).data[p] = c.data[p]
<1> DEFINE a == Read(c, "EXTENDED_IPV4_ADDR")
           b == Read(c, "CONTROL_OUT_IF_ADDR")
           V == {a, b}
           S == SettingsIn(V, Common)
           calls == << UI("SENDER_SRC_ADDR", a), UI("DATA_OUT_IF_ADDR", b),
                       UI("DATA_IN_IF_ADDR", b) >>
<1>1. a \in V /\ b \in V
  OBVIOUS
<1>2. LinkAddresses(c) = SetEach(c, calls)
  BY DEF LinkAddresses
<1> HIDE DEF a, b, V
<1>3. \A p \in Common, v \in V : UI(p, v) \in S
  BY CommonSetting
<1> HIDE DEF S
<1>4. calls \in Seq(S)
  BY <1>1, <1>3 DEF Common
<1> HIDE DEF calls
<1>5. Sets(calls, Common)
  BY <1>4, SequenceSets DEF S
<1> QED BY <1>2, <1>5, CommonSet

LEMMA TranslatedFit ==
  ASSUME NEW c, Fit(c)
  PROVE  /\ Fit(Translated(c))
         /\ \A p \in Parameters \ Common : Translated(c).data[p] = c.data[p]
<1> DEFINE V == {Local, DefaultPathDest}
           S == SettingsIn(V, Common)
           calls == << UI("SESSION_DEST_ADDR", DefaultPathDest),
                       UI("EXTENDED_IPV4_ADDR", Local), UI("DATA_OUT_IF_ADDR", Local),
                       UI("DATA_IN_IF_ADDR", Local), UI("SENDER_SRC_ADDR", Local),
                       UI("CONTROL_OUT_IF_ADDR", Local) >>
<1>1. Local \in V /\ DefaultPathDest \in V
  OBVIOUS
<1>2. Translated(c) = c \/ Translated(c) = SetEach(c, calls)
  BY DEF Translated
<1> HIDE DEF V
<1>3. \A p \in Common, v \in V : UI(p, v) \in S
  BY CommonSetting
<1> HIDE DEF S
<1>4. calls \in Seq(S)
  BY <1>1, <1>3 DEF Common
<1> HIDE DEF calls
<1>5. Sets(calls, Common)
  BY <1>4, SequenceSets DEF S
<1> QED BY <1>2, <1>5, CommonSet

(* ForOif20 gives a label, a call and who to notify. *)
LEMMA OifFit ==
  ASSUME NEW c, Fit(c)
  PROVE  /\ Fit(ForOif20(c))
         /\ \A p \in Parameters : c.data[p] # << >> => ForOif20(c).data[p] # << >>
<1> DEFINE a == Read(c, "CONTROL_OUT_IF_HANDLE")
           V == {a, Local, 0}
           P == {"UPSTREAM_LABEL", "CALL_ID", "NOTIFY_ADDRESS"}
           S == SettingsIn(V, P)
           calls == << UI("UPSTREAM_LABEL", a), UI("CALL_ID", 0),
                       UI("NOTIFY_ADDRESS", Local) >>
<1>1. a \in V /\ Local \in V /\ 0 \in V
  OBVIOUS
<1>2. ForOif20(c) = c \/ ForOif20(c) = SetEach(c, calls)
  BY DEF ForOif20
<1> HIDE DEF a, V
<1>3. P \subseteq Plain /\ P \cap StyleFlags = {}
  BY DEF Plain, Parameters, PT_TAB, PT_VS, PT_UI, StyleFlags
<1>4. "UPSTREAM_LABEL" \in P /\ "CALL_ID" \in P /\ "NOTIFY_ADDRESS" \in P
  OBVIOUS
<1> HIDE DEF P
<1>5. \A p \in P, v \in V : UI(p, v) \in S
  BY <1>3, SettingIn
<1> HIDE DEF S
<1>6. calls \in Seq(S)
  BY <1>1, <1>4, <1>5
<1> HIDE DEF calls
<1>7. Sets(calls, P)
  BY <1>6, SequenceSets DEF S
<1>8. Fit(SetEach(c, calls))
  BY <1>3, <1>7, FitSetEach
<1>9. \A p \in Parameters : c.data[p] # << >> => SetEach(c, calls).data[p] # << >>
  BY <1>7, SetEachKeeps DEF Sets
<1> QED BY <1>2, <1>8, <1>9

(* Calls that end with a fixed filter leave the style fit, whatever it was.*)
LEMMA FixedFit ==
  ASSUME NEW c, Good(c), NEW calls, Sets(calls, Common)
  PROVE  /\ Fit(SetEach(c, calls \o FixedFilter))
         /\ \A p \in (Parameters \ Common) \ StyleFlags :
              SetEach(c, calls \o FixedFilter).data[p] = c.data[p]
<1> DEFINE V == {0, 1}
           S == SettingsIn(V, StyleFlags)
<1>1. 0 \in V /\ 1 \in V
  OBVIOUS
<1> HIDE DEF V
<1>2. StyleFlags \subseteq Plain
  BY DEF StyleFlags, Plain, Parameters, PT_TAB, PT_VS, PT_UC
<1>3. \A p \in StyleFlags, v \in V : UC(p, v) \in S
  BY <1>2, SettingIn
<1> HIDE DEF S
<1>4. FixedFilter \in Seq(S)
  BY <1>1, <1>3 DEF FixedFilter, StyleFlags
<1>5. Sets(FixedFilter, StyleFlags)
  BY <1>4, SequenceSets DEF S
<1>6. /\ Len(FixedFilter) = 3 /\ FixedFilter[2][1] = "FIXED_FILTER" /\ FixedFilter[2][2] = "UC"
      /\ \A j \in 1..3 : FixedFilter[j][1] = "FIXED_FILTER" => FixedFilter[j][3] = 1
  BY DEF FixedFilter, UC
<1> DEFINE all == calls \o FixedFilter
<1>7. Sets(all, Common \cup StyleFlags)
  <2>1. Sets(calls, Common \cup StyleFlags)
    BY SetsMore
  <2>2. Sets(FixedFilter, Common \cup StyleFlags)
    BY <1>5, SetsMore
  <2> QED BY <2>1, <2>2, JoinedSets
<1>8. PICK W : calls \in Seq(Settings(W))
  BY DEF Sets, GoodSettings
<1>9. PICK U : FixedFilter \in Seq(Settings(U))
  BY <1>5 DEF Sets, GoodSettings
<1> DEFINE n == Len(calls)
<1>10. /\ n \in Nat /\ DOMAIN all = 1..(n + 3)
       /\ \A j \in 1..n : j \in DOMAIN calls /\ all[j] = calls[j]
       /\ \A j \in 1..3 : all[n + j] = FixedFilter[j]
  <2> DEFINE T == Settings(W) \cup Settings(U)
  <2>1. Settings(W) \subseteq T /\ Settings(U) \subseteq T
    OBVIOUS
  <2> HIDE DEF T
  <2>2. calls \in Seq(T) /\ FixedFilter \in Seq(T)
    BY <1>8, <1>9, <2>1, SequenceIn
  <2>3. /\ all \in Seq(T) /\ Len(all) = Len(calls) + Len(FixedFilter)
        /\ \A j \in 1..Len(calls) : j \in 1..Len(all) /\ all[j] = calls[j]
        /\ \A j \in 1..Len(FixedFilter) : /\ Len(calls) + j \in 1..Len(all)
                                           /\ all[Len(calls) + j] = FixedFilter[j]
    BY <2>2, Joined
  <2> HIDE DEF all
  <2> QED BY <1>6, <2>2, <2>3
<1> HIDE DEF all, n
<1>11. n + 2 \in DOMAIN all /\ all[n + 2][1] = "FIXED_FILTER" /\ all[n + 2][2] = "UC"
  BY <1>6, <1>10
<1>12. ASSUME NEW j \in DOMAIN all, all[j][1] = "FIXED_FILTER" PROVE all[j][3] = 1
  <2>1. CASE j \in 1..n
    <3>1. all[j][1] \in Common
      BY <1>10, <2>1 DEF Sets
    <3>2. "FIXED_FILTER" \notin Common
      BY CommonPlain DEF StyleFlags
    <3> QED BY <1>12, <3>1, <3>2
  <2>2. CASE j \notin 1..n
    <3>1. j - n \in 1..3 /\ j = n + (j - n)
      BY <1>10, <2>2
    <3>2. all[j] = FixedFilter[j - n]
      BY <1>10, <3>1
    <3> QED BY <1>6, <1>12, <3>1, <3>2
  <2> QED BY <2>1, <2>2
<1>13. Fit(SetEach(c, all))
  BY <1>7, <1>11, <1>12, FitSetFixed DEF Sets
<1>14. \A p \in Parameters : p \notin Common \cup StyleFlags => SetEach(c, all).data[p] = c.data[p]
  BY <1>7, SetEachLeaves
<1> QED BY <1>13, <1>14 DEF all

LEMMA ConfFit ==
  ASSUME NEW c, Fit(c)
  PROVE  /\ Fit(ConfConf(c))
         /\ \A p \in Parameters \ Common : ConfConf(c).data[p] = c.data[p]
<1> DEFINE a == Read(c, "CONTROL_OUT_IF_ADDR")
           V == {a, Local, 0, message_id}
           S == SettingsIn(V, Common)
           calls == << UI("CONTROL_OUT_IF_ADDR", Local), UI("ERROR_NODE_ADDR", Local),
                       UC("ERROR_FLAGS", 0), UC("ERROR_CODE", 0), US("ERROR_VALUE", 0),
                       UI("RESV_CONFIRM_RECV_ADDR", a), UI("MSG_ID_ID", message_id) >>
<1>1. a \in V /\ Local \in V /\ 0 \in V /\ message_id \in V
  OBVIOUS
<1>2. ConfConf(c) = SetEach(c, calls)
  BY DEF ConfConf
<1> HIDE DEF a, V
<1>3. \A p \in Common, v \in V : UI(p, v) \in S /\ UC(p, v) \in S /\ US(p, v) \in S
  BY CommonSetting
<1> HIDE DEF S
<1>4. calls \in Seq(S)
  BY <1>1, <1>3 DEF Common
<1> HIDE DEF calls
<1>5. Sets(calls, Common)
  BY <1>4, SequenceSets DEF S
<1> QED BY <1>2, <1>5, CommonSet

(* The store of a PATHTEAR that answers the flag R. *)
LEMMA ReflectFit ==
  ASSUME NEW c, Fit(c)
  PROVE  Fit(SetEach(c, << UC("MSG_ID_FLAGS", 1), UI("MSG_ID_EPOCH", Epoch),
                           UI("MSG_ID_ID", message_id),
                           UI("SENDER_SRC_ADDR", Read(c, "FILTER_SRC_ADDR")),
                           US("SENDER_SRC_ID", Read(c, "FILTER_SRC_PORT")),
                           UI("CONTROL_OUT_IF_ADDR", Local) >>))
<1> DEFINE a == Read(c, "FILTER_SRC_ADDR")
           b == Read(c, "FILTER_SRC_PORT")
           V == {a, b, Local, Epoch, 1, message_id}
           S == SettingsIn(V, Common)
           calls == << UC("MSG_ID_FLAGS", 1), UI("MSG_ID_EPOCH", Epoch),
                       UI("MSG_ID_ID", message_id), UI("SENDER_SRC_ADDR", a),
                       US("SENDER_SRC_ID", b), UI("CONTROL_OUT_IF_ADDR", Local) >>
<1>1. a \in V /\ b \in V /\ Local \in V /\ Epoch \in V /\ 1 \in V /\ message_id \in V
  OBVIOUS
<1> HIDE DEF V
<1>2. \A p \in Common, v \in V : UI(p, v) \in S /\ UC(p, v) \in S /\ US(p, v) \in S
  BY CommonSetting
<1> HIDE DEF S
<1>3. calls \in Seq(S)
  <2> HIDE DEF a, b
  <2> QED BY <1>1, <1>2 DEF Common
<1>4. Sets(calls, Common)
  <2> HIDE DEF calls
  <2> QED BY <1>3, SequenceSets DEF S
<1>5. Fit(SetEach(c, calls))
  <2> HIDE DEF calls
  <2> QED BY <1>4, CommonSet
<1> QED BY <1>5

(* What create_path makes of a store keeps the kind of path it was. *)
LEMMA PathConfFit ==
  ASSUME NEW c, Fit(c)
  PROVE  /\ Fit(PathConf(c))
         /\ \A p \in Kinded : c.data[p] # << >> => PathConf(c).data[p] # << >>
<1> DEFINE a == Translated(LinkAddresses(c))
           b == AddMissing(a, set_conf_defaults)
           d == Numbered(a)
           e == HopWithoutHandles(d)
<1>0. Kinded \subseteq Parameters /\ Kinded \cap Common = {} /\ Kinded \cap InterfaceHandles = {}
      /\ "MSG_ID_ID" \notin Kinded /\ "MSG_ID_ID" \notin StyleFlags
      /\ InterfaceHandles \cap StyleFlags = {} /\ "UI" \in Types
  BY DEF Kinded, Parameters, PT_UC, PT_UI, PT_VS, Common, InterfaceHandles, StyleFlags, Types
<1>1. Fit(a) /\ \A p \in Kinded : a.data[p] = c.data[p]
  <2>1. /\ Fit(LinkAddresses(c))
        /\ \A p \in Kinded : LinkAddresses(c).data[p] = c.data[p]
    BY <1>0, LinkSets
  <2>2. \A p \in Kinded : a.data[p] = LinkAddresses(c).data[p]
    BY <1>0, <2>1, TranslatedFit
  <2> QED BY <2>1, <2>2, TranslatedFit
<1> HIDE DEF a
<1>2. Fit(b) /\ \A p \in Kinded : a.data[p] # << >> => b.data[p] # << >>
  <2>1. Good(a) /\ Good(set_conf_defaults)
    BY <1>1, DefaultsFit DEF Fit
  <2>2. \A p \in Kinded : b.data[p] = IF a.data[p] # << >> THEN a.data[p] ELSE set_conf_defaults.data[p]
    BY <1>0, <2>1, Copied
  <2> QED BY <1>1, <2>2, DefaultsFit, FitCopy
<1>3. d = SetAddAt(b, "MSG_ID_ID", "UI", message_id, 0, 0)
  BY DEF Numbered, SetAdd
<1> HIDE DEF b, d
<1>4. Fit(d)
  <2>1. PICK q, ty : q = "MSG_ID_ID" /\ ty = "UI"
    OBVIOUS
  <2>2. q \notin StyleFlags /\ ty \in Types /\ (ty = "CS" => message_id \in Int) /\ 0 \in Int
    BY <1>0, <2>1
  <2>3. Fit(SetAddAt(b, q, ty, message_id, 0, 0))
    BY <1>2, <2>2, FitAdd
  <2> QED BY <1>3, <2>1, <2>3
<1>5. \A p \in Kinded : d.data[p] = b.data[p]
  <2>1. PICK q, ty : q = "MSG_ID_ID" /\ ty = "UI"
    OBVIOUS
  <2>2. \A p \in Kinded : p # q /\ p \in Parameters
    BY <1>0, <2>1
  <2>3. \A p \in Kinded : SetAddAt(b, q, ty, message_id, 0, 0).data[p] = b.data[p]
    BY <2>2, AddLeaves
  <2> QED BY <1>3, <2>1, <2>3
<1>6. Fit(e) /\ \A p \in Kinded : e.data[p] = d.data[p]
  <2>1. e = d \/ e = RemoveEach(d, InterfaceHandles)
    BY DEF HopWithoutHandles
  <2>2. Fit(RemoveEach(d, InterfaceHandles))
    BY <1>0, <1>4, FitRemove
  <2>3. \A p \in Kinded : RemoveEach(d, InterfaceHandles).data[p] = d.data[p]
    BY <1>0 DEF RemoveEach
  <2> HIDE DEF e
  <2> QED BY <1>4, <2>1, <2>2, <2>3
<1>7. PathConf(c) = ForOif20(e)
  BY DEF PathConf, e, d, a
<1> HIDE DEF e
<1>8. Fit(ForOif20(e)) /\ \A p \in Kinded : e.data[p] # << >> => ForOif20(e).data[p] # << >>
  BY <1>0, <1>6, OifFit
<1> QED BY <1>1, <1>2, <1>5, <1>6, <1>7, <1>8

(* The label is four bytes, and the only value that changes. *)
LEMMA LabelSet ==
  ASSUME NEW c, Fit(c), NEW raw
  PROVE  /\ Fit(SetLabel(c, raw)) /\ SetLabel(c, raw).data["LABEL"] = << raw >>
         /\ SetLabel(c, raw).void_size["LABEL"] = 4
         /\ \A p \in Parameters \ {"LABEL"} : SetLabel(c, raw).data[p] = c.data[p]
<1>1. /\ "LABEL" \in Parameters /\ "LABEL" \notin PT_TAB /\ "LABEL" \notin StyleFlags
      /\ HasType("LABEL", "VS") /\ "VS" \in Types /\ 4 \in Int
  BY DEF Parameters, PT_VS, PT_TAB, StyleFlags, HasType, Types
<1>2. PICK q, ty, size : q = "LABEL" /\ ty = "VS" /\ size = 4
  OBVIOUS
<1>3. /\ q \in Parameters \ PT_TAB /\ q \notin StyleFlags /\ HasType(q, ty) /\ ty \in Types
      /\ size \in Int /\ ty # "CS" /\ Good(c)
  BY <1>1, <1>2 DEF Fit
<1>4. Fit(SetAddAt(c, q, ty, raw, size, 0))
  BY <1>3, FitAdd
<1>5. /\ SetAddAt(c, q, ty, raw, size, 0).data[q] = << raw >>
      /\ SetAddAt(c, q, ty, raw, size, 0).void_size[q] = size
  BY <1>2, <1>3, AddGives
<1>6. \A p \in Parameters \ {q} : SetAddAt(c, q, ty, raw, size, 0).data[p] = c.data[p]
  BY AddLeaves
<1>7. SetLabel(c, raw) = SetAddAt(c, q, ty, raw, size, 0)
  BY <1>2 DEF SetLabel
<1> QED BY <1>2, <1>4, <1>5, <1>6, <1>7

-----------------------------------------------------------------------------
(* The messages of a step.                                                 *)

(* An acknowledgement is one message, or none is asked for. *)
AtMostAnAck(acks) ==
  acks = << >> \/ \E a : acks = << a >> /\ Sendable(a) /\ a.mtype = "ACK"

LEMMA AckFit == ASSUME NEW c, Fit(c) PROVE AtMostAnAck(Acks(c))
<1> DEFINE d == SetAt(c, "MSG_ID_FLAGS", "UC", 0, 0, 0)
           list == << "MESSAGE_ID_ACK" >>
           a == Msg("ACK", d, list)
<1>1. Acks(c) = << >> \/ Acks(c) = << a >>
  BY DEF Acks
<1>2. Fit(d)
  <2>1. PICK q, ty : q = "MSG_ID_FLAGS" /\ ty = "UC"
    OBVIOUS
  <2>2. q \notin StyleFlags /\ ty \in Types /\ ty # "CS" /\ 0 \in Int
    BY <2>1 DEF StyleFlags, Types
  <2>3. Fit(SetAt(c, q, ty, 0, 0, 0))
    BY <2>2, FitAdd
  <2> QED BY <2>1, <2>3
<1>3. list \in Seq(Usual)
  BY DEF Usual
<1>4. a.mtype = "ACK"
  BY DEF Msg, MsgOf
<1> HIDE DEF d, list
<1>5. Sendable(a)
  BY <1>2, <1>3, UsualMessage, ComposedSendable
<1> HIDE DEF a
<1> QED BY <1>1, <1>4, <1>5 DEF AtMostAnAck

(* One message at most is no acknowledgement: it alone takes a number. *)
OneMessage(messages) ==
  /\ \A x \in ToSet(messages) : Sendable(x)
  /\ Cardinality({k \in DOMAIN messages : messages[k].mtype # "ACK"}) \in {0, 1}

Alone(messages, m) == \A x \in ToSet(messages) : x.mtype = "ACK" \/ x = m

LEMMA OneOrNone ==
  ASSUME NEW n, NEW S, S \subseteq {n}
  PROVE  Cardinality(S) \in {0, 1}
<1>1. S = {} \/ S = {n}
  OBVIOUS
<1>2. Cardinality({}) = 0
  BY FS_EmptySet
<1>3. Cardinality({n}) = 1
  BY FS_Singleton
<1> QED BY <1>1, <1>2, <1>3

LEMMA TwoMessages ==
  ASSUME NEW V, NEW s \in Seq(V), NEW t \in Seq(V), Len(s) = 1, Len(t) = 1
  PROVE  DOMAIN (s \o t) = 1..2 /\ (s \o t)[1] = s[1] /\ (s \o t)[2] = t[1]
<1>1. s \o t \in Seq(V) /\ Len(s \o t) = 2
  BY ConcatProperties
<1>2. (s \o t)[1] = s[1] /\ (s \o t)[2] = t[1]
  BY ConcatProperties
<1> QED BY <1>1, <1>2

LEMMA NoMessage == OneMessage(<< >>) /\ \A m : Alone(<< >>, m)
<1>1. ToSet(<< >>) = {}
  BY DEF ToSet
<1>2. {k \in DOMAIN << >> : << >>[k].mtype # "ACK"} \subseteq {1}
  OBVIOUS
<1>3. Cardinality({k \in DOMAIN << >> : << >>[k].mtype # "ACK"}) \in {0, 1}
  BY <1>2, OneOrNone
<1> QED BY <1>1, <1>3 DEF OneMessage, Alone

LEMMA SingleMessage ==
  ASSUME NEW m, Sendable(m)
  PROVE  OneMessage(<< m >>) /\ Alone(<< m >>, m)
<1>1. ToSet(<< m >>) = {m}
  BY DEF ToSet
<1>2. {k \in DOMAIN << m >> : << m >>[k].mtype # "ACK"} \subseteq {1}
  OBVIOUS
<1>3. Cardinality({k \in DOMAIN << m >> : << m >>[k].mtype # "ACK"}) \in {0, 1}
  BY <1>2, OneOrNone
<1> QED BY <1>1, <1>3 DEF OneMessage, Alone

LEMMA AckAlone ==
  ASSUME NEW acks, AtMostAnAck(acks)
  PROVE  OneMessage(acks) /\ \A m : Alone(acks, m)
<1>1. CASE acks = << >>
  BY <1>1, NoMessage
<1>2. ASSUME NEW a, acks = << a >>, Sendable(a), a.mtype = "ACK"
      PROVE  OneMessage(acks) /\ \A m : Alone(acks, m)
  <2>1. OneMessage(<< a >>) /\ ToSet(<< a >>) = {a}
    BY <1>2, SingleMessage DEF ToSet
  <2> QED BY <1>2, <2>1 DEF Alone
<1> QED BY <1>1, <1>2 DEF AtMostAnAck

LEMMA AckAndMessage ==
  ASSUME NEW acks, AtMostAnAck(acks), NEW m, Sendable(m)
  PROVE  OneMessage(acks \o << m >>) /\ Alone(acks \o << m >>, m)
<1>1. CASE acks = << >>
  <2> DEFINE s == << m >>
  <2>1. s \in Seq({m}) /\ OneMessage(s) /\ Alone(s, m)
    BY SingleMessage
  <2>2. << >> \o s = s
    <3> HIDE DEF s
    <3> QED BY <2>1
  <2> QED BY <1>1, <2>1, <2>2
<1>2. ASSUME NEW a, acks = << a >>, Sendable(a), a.mtype = "ACK"
      PROVE  OneMessage(acks \o << m >>) /\ Alone(acks \o << m >>, m)
  <2> DEFINE V == {a, m}
             s == << a >>
             t == << m >>
             all == s \o t
             counted == {k \in DOMAIN all : all[k].mtype # "ACK"}
  <2>1. /\ s \in Seq(V) /\ Len(s) = 1 /\ s[1] = a
        /\ t \in Seq(V) /\ Len(t) = 1 /\ t[1] = m
    OBVIOUS
  <2>2. acks \o << m >> = all
    BY <1>2
  <2> HIDE DEF V, s, t
  <2>3. DOMAIN all = 1..2 /\ all[1] = a /\ all[2] = m
    BY <2>1, TwoMessages
  <2> HIDE DEF all
  <2>4. \A k \in DOMAIN all : k = 1 \/ k = 2
    BY <2>3
  <2>5. ToSet(all) \subseteq {a, m}
    BY <2>3, <2>4 DEF ToSet
  <2>6. counted \subseteq {2}
    BY <1>2, <2>3, <2>4
  <2>7. Cardinality(counted) \in {0, 1}
    <3> HIDE DEF counted
    <3> QED BY <2>6, OneOrNone
  <2>8. OneMessage(all) /\ Alone(all, m)
    BY <1>2, <2>5, <2>7 DEF OneMessage, Alone
  <2> QED BY <2>2, <2>8
<1> QED BY <1>1, <1>2 DEF AtMostAnAck

(* A step that sends one message, behind an acknowledgement or not, and    *)
(* reads nothing that is not there but what ends the process.              *)
Delivered ==
  /\ \A x \in ToSet(sent') : Sendable(x)
  /\ NoNullRead' /\ message_id' \in {message_id, message_id + 1}

LEMMA Sending ==
  ASSUME message_id \in Int, NEW messages, NEW reads, Sends(messages, reads), reads = {},
         OneMessage(messages)
  PROVE  Delivered
<1>1. /\ sent' = messages
      /\ null' = UNION {m.null : m \in ToSet(messages)}
      /\ message_id' = message_id + Cardinality({k \in DOMAIN messages : messages[k].mtype # "ACK"})
  BY DEF Sends
<1>2. \A m \in ToSet(messages) : Sendable(m) /\ m.null = {}
  BY DEF OneMessage, Sendable
<1>3. null' = {}
  BY <1>1, <1>2
<1>4. message_id' \in {message_id, message_id + 1}
  BY <1>1 DEF OneMessage
<1>5. NoNullRead'
  BY <1>3 DEF NoNullRead
<1> QED BY <1>1, <1>2, <1>4, <1>5 DEF Delivered

(* What is read though absent is what the router left out of the message.  *)
LEMMA ReadsAbsentGives ==
  ASSUME message_id \in Int, NEW c, c = got', NEW needed,
         needed \subseteq HopAndSender \cup {"LABEL"},
         NEW acks, AtMostAnAck(acks), ReadsAbsent(c, needed, acks)
  PROVE  /\ Delivered /\ phase' = "ended" /\ sent' = acks
         /\ UNCHANGED << configuration, path_configuration, label >>
<1>1. /\ phase' = "ended" /\ Sends(acks, Missing(c, needed))
      /\ UNCHANGED << configuration, path_configuration, label >>
  BY DEF ReadsAbsent
<1>2. /\ sent' = acks
      /\ null' = Missing(c, needed) \cup UNION {m.null : m \in ToSet(acks)}
      /\ message_id' = message_id + Cardinality({k \in DOMAIN acks : acks[k].mtype # "ACK"})
  BY <1>1 DEF Sends
<1>3. OneMessage(acks)
  BY AckAlone
<1>4. \A m \in ToSet(acks) : Sendable(m) /\ m.null = {}
  BY <1>3 DEF OneMessage, Sendable
<1>5. null' = Missing(c, needed)
  BY <1>2, <1>4
<1>6. Missing(c, needed) \subseteq Missing(got', HopAndSender \cup {"LABEL"})
  BY DEF Missing
<1>7. NoNullRead'
  BY <1>1, <1>5, <1>6 DEF NoNullRead
<1>8. message_id' \in {message_id, message_id + 1}
  BY <1>2, <1>3 DEF OneMessage
<1> QED BY <1>1, <1>2, <1>4, <1>7, <1>8 DEF Delivered

-----------------------------------------------------------------------------
(* What the router answers a PATH with.                                    *)

RouterSets ==
  {"FILTER_SRC_ADDR", "FILTER_SRC_PORT", "CONTROL_OUT_IF_ADDR", "CONTROL_OUT_IF_HANDLE",
   "DATA_OUT_IF_ADDR", "DATA_OUT_IF_HANDLE", "FIXED_FILTER", "CALL_ID_ADDR_TYPE",
   "CALL_ID_SRC_TN_ADDR", "CALL_ID_LOCAL_ID1", "CALL_ID_LOCAL_ID2", "MSG_ID_FLAGS",
   "MSG_ID_EPOCH", "MSG_ID_ID", "ADMIN_STATUS_RTAD_FLAGS"}

LEMMA RouterPlain ==
  /\ RouterSets \subseteq Plain /\ RouterSets \cap EthernetBandwidth = {}
  /\ RouterSets \cap EthernetLink = {}
BY DEF RouterSets, Plain, Parameters, PT_TAB, PT_VS, PT_UC, PT_US, PT_UI,
       EthernetBandwidth, EthernetLink

RouterCalls(flags, id) ==
  << UI("FILTER_SRC_ADDR", Read(seen, "SENDER_SRC_ADDR")),
     US("FILTER_SRC_PORT", Read(seen, "SENDER_SRC_ID")),
     UI("CONTROL_OUT_IF_ADDR", Router),
     UI("CONTROL_OUT_IF_HANDLE", 9), UI("DATA_OUT_IF_ADDR", Router),
     UI("DATA_OUT_IF_HANDLE", 8),
     UC("FIXED_FILTER", 1), UC("CALL_ID_ADDR_TYPE", 1),
     UI("CALL_ID_SRC_TN_ADDR", Router), UI("CALL_ID_LOCAL_ID1", 21),
     UI("CALL_ID_LOCAL_ID2", 22) >>
  \o Only(id, << UC("MSG_ID_FLAGS", 1), UI("MSG_ID_EPOCH", 5), UI("MSG_ID_ID", 77) >>)
  \o Only(flags # 0, << UC("ADMIN_STATUS_RTAD_FLAGS", flags) >>)

(* All are for RouterSets, and the filter is the fixed one. *)
FilterGiven(calls) ==
  /\ Sets(calls, RouterSets)
  /\ \A j \in DOMAIN calls : calls[j][1] = "FIXED_FILTER" => calls[j][3] = 1
  /\ 7 \in DOMAIN calls /\ calls[7] = UC("FIXED_FILTER", 1)

LEMMA RouterGives == ASSUME NEW flags, NEW id PROVE FilterGiven(RouterCalls(flags, id))
<1> DEFINE x == Read(seen, "SENDER_SRC_ADDR")
           y == Read(seen, "SENDER_SRC_ID")
           V == {x, y, flags, Router, 9, 8, 1, 21, 22, 5, 77}
           S == SettingsIn(V, RouterSets)
           T == {s \in S : s[1] = "FIXED_FILTER" => s[3] = 1}
           a == << UI("FILTER_SRC_ADDR", x), US("FILTER_SRC_PORT", y),
                   UI("CONTROL_OUT_IF_ADDR", Router),
                   UI("CONTROL_OUT_IF_HANDLE", 9), UI("DATA_OUT_IF_ADDR", Router),
                   UI("DATA_OUT_IF_HANDLE", 8),
                   UC("FIXED_FILTER", 1), UC("CALL_ID_ADDR_TYPE", 1),
                   UI("CALL_ID_SRC_TN_ADDR", Router), UI("CALL_ID_LOCAL_ID1", 21),
                   UI("CALL_ID_LOCAL_ID2", 22) >>
           b == << UC("MSG_ID_FLAGS", 1), UI("MSG_ID_EPOCH", 5), UI("MSG_ID_ID", 77) >>
           d == << UC("ADMIN_STATUS_RTAD_FLAGS", flags) >>
           all == a \o Only(id, b) \o Only(flags # 0, d)
<1>1. /\ x \in V /\ y \in V /\ flags \in V /\ Router \in V /\ 9 \in V /\ 8 \in V
      /\ 1 \in V /\ 21 \in V /\ 22 \in V /\ 5 \in V /\ 77 \in V
  OBVIOUS
<1> HIDE DEF x, y, V
<1>2. \A p \in RouterSets, v \in V : UI(p, v) \in S /\ UC(p, v) \in S /\ US(p, v) \in S
  BY RouterPlain, SettingIn
<1>3. \A p \in RouterSets, v \in V : p # "FIXED_FILTER" =>
        UI(p, v) \in T /\ UC(p, v) \in T /\ US(p, v) \in T
  <2> TAKE p \in RouterSets, v \in V
  <2>1. UI(p, v)[1] = p /\ UC(p, v)[1] = p /\ US(p, v)[1] = p
    BY DEF UI, UC, US
  <2> HIDE DEF S
  <2> QED BY <1>2, <2>1
<1>4. UC("FIXED_FILTER", 1) \in T
  <2>1. UC("FIXED_FILTER", 1) \in S
    BY <1>1, <1>2 DEF RouterSets
  <2>2. UC("FIXED_FILTER", 1)[3] = 1
    BY DEF UC
  <2> HIDE DEF S
  <2> QED BY <2>1, <2>2
<1>5. \A s \in T : s \in S /\ (s[1] = "FIXED_FILTER" => s[3] = 1)
  OBVIOUS
<1> HIDE DEF S, T
<1>6. a \in Seq(T)
  <2>1. /\ UI("FILTER_SRC_ADDR", x) \in T /\ US("FILTER_SRC_PORT", y) \in T
        /\ UI("CONTROL_OUT_IF_ADDR", Router) \in T /\ UI("CONTROL_OUT_IF_HANDLE", 9) \in T
        /\ UI("DATA_OUT_IF_ADDR", Router) \in T /\ UI("DATA_OUT_IF_HANDLE", 8) \in T
    BY <1>1, <1>3 DEF RouterSets
  <2>2. /\ UC("CALL_ID_ADDR_TYPE", 1) \in T /\ UI("CALL_ID_SRC_TN_ADDR", Router) \in T
        /\ UI("CALL_ID_LOCAL_ID1", 21) \in T /\ UI("CALL_ID_LOCAL_ID2", 22) \in T
    BY <1>1, <1>3 DEF RouterSets
  <2> QED BY <1>4, <2>1, <2>2
<1>7. b \in Seq(T) /\ d \in Seq(T)
  BY <1>1, <1>3 DEF RouterSets
<1>8. Len(a) = 11 /\ a[7] = UC("FIXED_FILTER", 1)
  OBVIOUS
<1>9. RouterCalls(flags, id) = all
  BY DEF RouterCalls, x, y
<1> HIDE DEF a, b, d
<1> DEFINE b2 == Only(id, b)
           d2 == Only(flags # 0, d)
           ab == a \o b2
<1>10. b2 \in Seq(T) /\ d2 \in Seq(T)
  <2>1. << >> \in Seq(T)
    OBVIOUS
  <2> QED BY <1>7, <2>1 DEF Only
<1> HIDE DEF b2, d2
<1>11. /\ ab \in Seq(T) /\ Len(ab) = Len(a) + Len(b2)
       /\ \A j \in 1..Len(a) : j \in 1..Len(ab) /\ ab[j] = a[j]
  BY <1>6, <1>10, Joined
<1> HIDE DEF ab
<1>12. /\ ab \o d2 \in Seq(T) /\ Len(ab \o d2) = Len(ab) + Len(d2)
       /\ \A j \in 1..Len(ab) : j \in 1..Len(ab \o d2) /\ (ab \o d2)[j] = ab[j]
  BY <1>10, <1>11, Joined
<1>13. all = ab \o d2
  BY DEF ab, b2, d2
<1> HIDE DEF all
<1>14. /\ all \in Seq(T) /\ DOMAIN all = 1..Len(all)
       /\ \A j \in 1..11 : j \in DOMAIN all /\ all[j] = a[j]
  <2>1. all \in Seq(T) /\ DOMAIN all = 1..Len(all)
    BY <1>12, <1>13
  <2> HIDE DEF ab
  <2>2. \A j \in 1..11 : j \in 1..Len(all) /\ all[j] = a[j]
    BY <1>8, <1>11, <1>12, <1>13
  <2> QED BY <2>1, <2>2
<1>15. 7 \in DOMAIN all /\ all[7] = a[7]
  BY <1>14
<1>16. \A j \in DOMAIN all : all[j][1] = "FIXED_FILTER" => all[j][3] = 1
  BY <1>5, <1>14
<1>17. Sets(all, RouterSets)
  <2>1. T \subseteq S
    BY <1>5
  <2>2. all \in Seq(S)
    BY <1>14, <2>1, SequenceIn
  <2> QED BY <2>2, SequenceSets DEF S
<1> QED BY <1>8, <1>9, <1>15, <1>16, <1>17 DEF FilterGiven

RouterSame ==
  CopySelected(Empty, seen, SessionId \cup TokenBucket \cup EthernetBandwidth
                            \cup EthernetLink \cup {"REFRESH_PERIOD"})
RouterStore(flags, id) == SetLabel(SetEach(RouterSame, RouterCalls(flags, id)), -33)
RouterHeld(flags, id, left_out) == RemoveEach(RouterStore(flags, id), left_out)
LeftOut == {{}, {"LABEL"}, {"CONTROL_OUT_IF_ADDR"}}
RouterList(c) == adding_resv_objects(Empty, c) \o << "ETHERNET_FLOWSPEC", "ADMIN_STATUS" >>

LEMMA RouterKindsAdded == RouterKinds \subseteq Added /\ RouterKinds \subseteq Classes
BY DEF RouterKinds, ResvKinds, Added, Usual, Classes, requirements

LEMMA RouterListIn ==
  ASSUME NEW c, NEW list, list = RouterList(c)
  PROVE  /\ list \in Seq(RouterKinds) /\ list \in Seq(Added) /\ Len(list) < MAX_OBJECTS
<1> DEFINE a == adding_resv_objects(Empty, c)
           b == << "ETHERNET_FLOWSPEC", "ADMIN_STATUS" >>
<1>1. a \in Seq(ResvKinds) /\ Len(a) <= 11
  BY ResvParts
<1>2. ResvKinds \subseteq RouterKinds
  BY DEF RouterKinds
<1>3. a \in Seq(RouterKinds)
  <2> HIDE DEF a
  <2> QED BY <1>1, <1>2, SequenceIn
<1>4. b \in Seq(RouterKinds) /\ Len(b) = 2
  BY DEF RouterKinds
<1>5. list = a \o b
  BY DEF RouterList
<1> HIDE DEF a, b
<1>6. /\ list \in Seq(RouterKinds) /\ Len(list) = Len(a) + Len(b)
      /\ \A j \in 1..Len(a) : j \in 1..Len(list) /\ list[j] = a[j]
  <2>1. a \in Seq(RouterKinds) /\ b \in Seq(RouterKinds)
    BY <1>3, <1>4
  <2>2. /\ a \o b \in Seq(RouterKinds) /\ Len(a \o b) = Len(a) + Len(b)
        /\ \A j \in 1..Len(a) : j \in 1..Len(a \o b) /\ (a \o b)[j] = a[j]
    BY <2>1, Joined
  <2> QED BY <1>5, <2>2
<1>7. Len(list) < MAX_OBJECTS
  BY <1>1, <1>4, <1>6 DEF MAX_OBJECTS
<1>8. list \in Seq(Added)
  BY <1>6, RouterKindsAdded, SequenceIn
<1> QED BY <1>6, <1>7, <1>8

(* What the router takes over from the PATH is a store. *)
LEMMA SameGood == Fit(seen) => Good(RouterSame)
BY EmptyIsFit, GoodCopy DEF Fit, RouterSame

LEMMA RouterFit ==
  ASSUME Fit(seen), LinkFit(seen), NEW flags, NEW id, NEW c, c = RouterStore(flags, id)
  PROVE  Fit(c) /\ LinkFit(c)
<1> DEFINE calls == RouterCalls(flags, id)
           s == SetEach(RouterSame, calls)
<1>1. FilterGiven(calls)
  BY RouterGives
<1>2. c = SetLabel(s, -33)
  BY DEF RouterStore
<1> HIDE DEF calls
<1>3. Sets(calls, RouterSets) /\ GoodSettings(calls)
  BY <1>1 DEF FilterGiven, Sets
<1>4. Good(RouterSame)
  BY SameGood
<1>5. Fit(s)
  <2>1. PICK k \in DOMAIN calls : k = 7
    BY <1>1 DEF FilterGiven
  <2>2. calls[k][1] = "FIXED_FILTER" /\ calls[k][2] = "UC"
    BY <1>1, <2>1 DEF FilterGiven, UC
  <2>3. \A j \in DOMAIN calls : calls[j][1] = "FIXED_FILTER" => calls[j][3] = 1
    BY <1>1 DEF FilterGiven
  <2> QED BY <1>3, <1>4, <2>2, <2>3, FitSetFixed
<1>6. /\ Fit(SetLabel(s, -33)) /\ SetLabel(s, -33).data["LABEL"] = << -33 >>
      /\ SetLabel(s, -33).void_size["LABEL"] = 4
      /\ \A p \in Parameters \ {"LABEL"} : SetLabel(s, -33).data[p] = s.data[p]
  <2> HIDE DEF s
  <2>1. PICK raw : raw = -33
    OBVIOUS
  <2>2. /\ Fit(SetLabel(s, raw)) /\ SetLabel(s, raw).data["LABEL"] = << raw >>
        /\ SetLabel(s, raw).void_size["LABEL"] = 4
        /\ \A p \in Parameters \ {"LABEL"} : SetLabel(s, raw).data[p] = s.data[p]
    BY <1>5, LabelSet
  <2> QED BY <2>1, <2>2
<1>7. \A p \in EthernetBandwidth \cup EthernetLink :
        /\ p \in Parameters \ {"LABEL"} /\ p \notin RouterSets
    BY RouterPlain DEF EthernetBandwidth, EthernetLink, Parameters, PT_F, PT_UC, PT_US
<1>8. \A p \in EthernetBandwidth \cup EthernetLink : c.data[p] = seen.data[p]
  <2> SUFFICES ASSUME NEW p \in EthernetBandwidth \cup EthernetLink
               PROVE  c.data[p] = seen.data[p]
    OBVIOUS
  <2>1. c.data[p] = s.data[p]
    BY <1>2, <1>6, <1>7
  <2>2. s.data[p] = RouterSame.data[p]
    BY <1>3, <1>7, SetEachLeaves
  <2>3. RouterSame.data[p] = seen.data[p]
    BY <1>7 DEF RouterSame, CopySelected
  <2> QED BY <2>1, <2>2, <2>3
<1>9. LinkFit(c)
  <2>1. \A p \in EthernetBandwidth \cup EthernetLink : p \in Held(c) <=> p \in Held(seen)
    BY <1>7, <1>8 DEF Held
  <2> QED BY <2>1 DEF LinkFit
<1> QED BY <1>2, <1>6, <1>9

(* A parameter the router leaves out takes its object with it. *)
LEMMA RouterHeldFit ==
  ASSUME Fit(seen), LinkFit(seen), NEW flags, NEW id, NEW left_out \in LeftOut,
         NEW c, c = RouterHeld(flags, id, left_out)
  PROVE  Fit(c) /\ LinkFit(c)
<1>1. PICK s : s = RouterStore(flags, id)
  OBVIOUS
<1>2. Fit(s) /\ LinkFit(s) /\ c = RemoveEach(s, left_out)
  BY <1>1, RouterFit DEF RouterHeld
<1>3. /\ left_out \cap StyleFlags = {}
      /\ \A p \in EthernetBandwidth \cup EthernetLink : p \in Parameters /\ p \notin left_out
  BY DEF LeftOut, StyleFlags, EthernetBandwidth, EthernetLink, Parameters, PT_F, PT_UC, PT_US
<1>4. Fit(c)
  BY <1>2, <1>3, FitRemove
<1>5. \A p \in EthernetBandwidth \cup EthernetLink : c.data[p] = s.data[p]
  BY <1>2, <1>3 DEF RemoveEach
<1>6. \A p \in EthernetBandwidth \cup EthernetLink : p \in Held(c) <=> p \in Held(s)
  BY <1>3, <1>5 DEF Held
<1> QED BY <1>2, <1>4, <1>6 DEF LinkFit

(* What the agent takes from a RESV. *)
ResvRead(c) ==
  /\ Fit(c) /\ LinkFit(c)
  /\ \A p \in Kinded : c.data[p] = << >>

LEMMA RouterResvRead ==
  ASSUME Fit(seen), LinkFit(seen), NEW flags, NEW id,
         NEW left_out \in LeftOut
  PROVE  ResvRead(parse_data(RouterResv(flags, id, left_out)))
<1> DEFINE c == RouterHeld(flags, id, left_out)
           list == RouterList(c)
           wire == WireFrom(c, list)
           r == parse_data(wire)
<1>1. RouterResv(flags, id, left_out) = wire
  BY DEF RouterResv, RouterHeld, RouterStore, RouterSame, RouterCalls, RouterList, WireFrom
<1>2. Fit(c) /\ LinkFit(c)
  BY RouterHeldFit
<1>3. list \in Seq(RouterKinds) /\ list \in Seq(Added) /\ Len(list) < MAX_OBJECTS
  BY RouterListIn
<1>4. MessageFit(c, list)
  BY <1>2, <1>3 DEF MessageFit
<1> HIDE DEF c, list
<1>5. ShapedWire(wire) /\ \A k \in DOMAIN wire : Occurs(wire[k].class, list)
  BY <1>4, WireShaped
<1>6. Fit(r) /\ LinkFit(r)
  <2> HIDE DEF wire
  <2> QED BY <1>5, ParsedFit
<1>7. \A p \in Kinded : r.data[p] = << >>
  <2> SUFFICES ASSUME NEW p \in Kinded PROVE r.data[p] = << >>
    OBVIOUS
  <2>1. p \in Parameters
    BY DEF Kinded, Parameters, PT_UI, PT_UC, PT_VS
  <2>2. \A k \in DOMAIN wire : wire[k].class \in RouterKinds
    <3>1. \A k \in DOMAIN list : list[k] \in RouterKinds
      BY <1>3
    <3> QED BY <1>5, <3>1 DEF Occurs
  <2>3. \A k \in DOMAIN wire : p \notin MayCarry(wire[k].class)
    BY <2>2, NoKindCarried
  <2> HIDE DEF wire
  <2> QED BY <1>5, <2>1, <2>3, ParsedAbsent
<1> HIDE DEF wire
<1> QED BY <1>1, <1>6, <1>7 DEF ResvRead, r

-----------------------------------------------------------------------------
(* The messages of an outgoing path that are no PATH.                      *)

Is(m, mtype) == Sendable(m) /\ m.mtype = mtype

LEMMA FitIs ==
  ASSUME NEW mtype, NEW c, NEW list, MessageFit(c, list)
  PROVE  Is(Msg(mtype, c, list), mtype)
BY MessageSendable DEF Is, Msg, MsgOf

LEMMA UsualIs ==
  ASSUME NEW mtype, NEW c, Fit(c), NEW list \in Seq(Usual)
  PROVE  Is(Msg(mtype, c, list), mtype)
<1>1. Sendable(Msg(mtype, c, list))
  BY UsualMessage, ComposedSendable
<1> QED BY <1>1 DEF Is, Msg, MsgOf

LEMMA InterfaceNoStyle == InterfaceHandles \cap StyleFlags = {}
BY DEF InterfaceHandles, StyleFlags

LEMMA TearOnDeleteIs ==
  ASSUME Fit(path_configuration)
  PROVE  Is(TearOnDelete, "PATHTEAR")
<1> DEFINE d == AddMissing(path_configuration, set_conf_defaults)
           e == IF IETF THEN RemoveEach(d, InterfaceHandles) ELSE d
           list == << "SESSION_IETF", "IPV4_IF_ID_RSVP_HOP", "SENDER_TEMPLATE",
                      "ETHERNET_SENDER_TSPEC" >>
<1>1. TearOnDelete = Msg("PATHTEAR", e, list)
  BY DEF TearOnDelete
<1>2. list \in Seq(Usual)
  BY DEF Usual
<1>3. Fit(d)
  BY DefaultsFit, FitCopy
<1> HIDE DEF d, list
<1>4. Fit(RemoveEach(d, InterfaceHandles))
  BY <1>3, InterfaceNoStyle, FitRemove
<1>5. Fit(e)
  BY <1>3, <1>4
<1> HIDE DEF e
<1> QED BY <1>1, <1>2, <1>5, UsualIs

LEMMA TearOnReflectIs ==
  ASSUME NEW c, Fit(c)
  PROVE  Is(TearOnReflect(c), "PATHTEAR")
<1> DEFINE t == SetEach(c, << UC("MSG_ID_FLAGS", 1), UI("MSG_ID_EPOCH", Epoch),
                        UI("MSG_ID_ID", message_id),
                        UI("SENDER_SRC_ADDR", Read(c, "FILTER_SRC_ADDR")),
                        US("SENDER_SRC_ID", Read(c, "FILTER_SRC_PORT")),
                        UI("CONTROL_OUT_IF_ADDR", Local) >>)
           a == << "MESSAGE_ID", "SESSION_OIF", "SENDER_TEMPLATE" >>
           b == Only(proto = "OIFUNI20", << "ETHERNET_SENDER_TSPEC" >> \o CallId(t))
           d == Only(proto = "OIFUNI10", << "SONETSDH_SENDER_TSPEC" >>)
           e == << "UPSTREAM_LABEL", "IPV4_IF_ID_RSVP_HOP" >>
<1>1. TearOnReflect(c) = Msg("PATHTEAR", t, a \o b \o d \o e)
  BY Zenon DEF TearOnReflect
<1>2. Fit(t)
  BY ReflectFit
<1> HIDE DEF t
<1>3. a \in Seq(Usual) /\ e \in Seq(Usual)
  BY DEF Usual
<1>4. b \in Seq(Usual) /\ d \in Seq(Usual)
  <2>1. << "ETHERNET_SENDER_TSPEC" >> \in Seq(Usual)
        /\ << "SONETSDH_SENDER_TSPEC" >> \in Seq(Usual)
    BY DEF Usual
  <2>2. << "ETHERNET_SENDER_TSPEC" >> \o CallId(t) \in Seq(Usual)
    BY <2>1, CallIdUsual
  <2> QED BY <2>1, <2>2, OnlyUsual
<1> HIDE DEF a, b, d, e
<1>5. a \o b \o d \o e \in Seq(Usual)
  BY <1>3, <1>4
<1> QED BY <1>1, <1>2, <1>5, UsualIs

LEMMA ResvConfIs ==
  ASSUME NEW c, Fit(c), LinkFit(c)
  PROVE  Is(ResvConf(c), "RESVCONF")
<1> DEFINE a == << "MESSAGE_ID", "SESSION_OIF", "ERROR_SPEC", "RESV_CONFIRM", "STYLE" >>
           b == Only(proto = "OIFUNI20", << "ETHERNET_FLOWSPEC" >>)
           d == Only(proto = "OIFUNI10", << "SONETSDH_FLOWSPEC" >>)
           e == << "FILTER_SPEC", "GENERALIZED_LABEL" >>
<1>1. ResvConf(c) = Msg("RESVCONF", c, a \o b \o d \o e)
  BY DEF ResvConf
<1>2. a \in Seq(Added) /\ e \in Seq(Added)
  BY DEF Added, Usual
<1>3. b \in Seq(Added) /\ d \in Seq(Added)
  <2>1. << "ETHERNET_FLOWSPEC" >> \in Seq(Added) /\ << "SONETSDH_FLOWSPEC" >> \in Seq(Added)
    BY DEF Added, Usual
  <2> QED BY <2>1 DEF Only
<1> HIDE DEF a, b, d, e
<1>4. a \o b \o d \o e \in Seq(Added)
  BY <1>2, <1>3
<1>5. MessageFit(c, a \o b \o d \o e)
  BY <1>4 DEF MessageFit
<1> QED BY <1>1, <1>5, FitIs

(* The answer to a RESV keeps the bandwidth it says. *)
LEMMA ConfLink ==
  ASSUME NEW c, Fit(c), LinkFit(c)
  PROVE  LinkFit(ConfConf(c))
<1>1. \A p \in EthernetBandwidth \cup EthernetLink : p \in Parameters \ Common
  <2>1. EthernetBandwidth \cup EthernetLink \subseteq Parameters
    BY DEF EthernetBandwidth, EthernetLink, Parameters, PT_F, PT_UC, PT_US
  <2> QED BY <2>1, CommonPlain
<1>2. \A p \in EthernetBandwidth \cup EthernetLink :
        ConfConf(c).data[p] = c.data[p]
  BY <1>1, ConfFit
<1>3. \A p \in EthernetBandwidth \cup EthernetLink :
        p \in Held(ConfConf(c)) <=> p \in Held(c)
  BY <1>1, <1>2 DEF Held
<1> QED BY <1>3 DEF LinkFit

-----------------------------------------------------------------------------
(* The answers to a PATH.                                                  *)

LEMMA Answering ==
  ASSUME message_id \in Int, NEW acks, AtMostAnAck(acks), NEW m, NEW mtype, Is(m, mtype),
         NEW reads, Sends(acks \o << m >>, reads), reads = {}
  PROVE  Delivered /\ Alone(sent', m)
<1>1. OneMessage(acks \o << m >>) /\ Alone(acks \o << m >>, m)
  BY AckAndMessage DEF Is
<1>2. Delivered
  BY <1>1, Sending
<1>3. sent' = acks \o << m >>
  BY DEF Sends
<1> QED BY <1>1, <1>2, <1>3

(* Parameters of Common behind what names the sender. *)
LEMMA FilteredFit ==
  ASSUME NEW c, Good(c), NEW V, NEW calls \in Seq(SettingsIn(V, Common)), NEW e
  PROVE  /\ Fit(SetEach(c, calls \o FilterOf(e) \o FixedFilter))
         /\ \A p \in (Parameters \ Common) \ StyleFlags :
              SetEach(c, calls \o FilterOf(e) \o FixedFilter).data[p] = c.data[p]
<1>1. Sets(calls, Common)
  BY SequenceSets
<1>2. Sets(FilterOf(e), Common)
  BY FilterSets
<1> DEFINE all == calls \o FilterOf(e)
<1>3. Sets(all, Common)
  BY <1>1, <1>2, JoinedSets
<1> HIDE DEF all
<1>4. /\ Fit(SetEach(c, all \o FixedFilter))
      /\ \A p \in (Parameters \ Common) \ StyleFlags :
              SetEach(c, all \o FixedFilter).data[p] = c.data[p]
  BY <1>3, FixedFit
<1> QED BY <1>4 DEF all

LEMMA LabelStays ==
  /\ "LABEL" \in Parameters /\ "LABEL" \notin Common /\ "LABEL" \notin StyleFlags
  /\ "LABEL" # "ADMIN_STATUS_RTAD_FLAGS"
BY CommonPlain DEF Parameters, PT_VS, StyleFlags

(* What a RESV answers with: the label of this step, alone behind an ACK. *)
LabelGiven ==
  \E m : Alone(sent', m) /\ parse_data(m.wire).data["LABEL"] = << - label' >>

OwnNumber(c) ==
  IF IsPresent(c, "UPSTREAM_LABEL") THEN Read(c, "UPSTREAM_LABEL") ELSE OwnLabel
WithFlags(c) ==
  IF ~ IsPresent(c, "ADMIN_STATUS_RTAD_FLAGS") THEN c
  ELSE SetAdd(c, "ADMIN_STATUS_RTAD_FLAGS", "UC",
              IF Read(c, "ADMIN_STATUS_RTAD_FLAGS") = 10 THEN 9 ELSE 0)
ResvConfiguration(c) ==
  SetEach(SetLabel(WithFlags(c), - OwnNumber(c)),
          << UI("CONTROL_OUT_IF_ADDR", Local), UI("RESV_CONFIRM_RECV_ADDR", Local),
             UI("MSG_ID_ID", message_id) >> \o FilterOf(c) \o FixedFilter)

LEMMA WithFlagsFit ==
  ASSUME NEW c, Fit(c)
  PROVE  Fit(WithFlags(c))
<1> DEFINE v == IF Read(c, "ADMIN_STATUS_RTAD_FLAGS") = 10 THEN 9 ELSE 0
<1>1. PICK q, ty : q = "ADMIN_STATUS_RTAD_FLAGS" /\ ty = "UC"
  OBVIOUS
<1>2. q \notin StyleFlags /\ ty \in Types /\ ty # "CS" /\ 0 \in Int
  BY <1>1 DEF StyleFlags, Types
<1> HIDE DEF v
<1>3. Fit(SetAddAt(c, q, ty, v, 0, 0))
  BY <1>2, FitAdd
<1>4. WithFlags(c) = c \/ WithFlags(c) = SetAddAt(c, "ADMIN_STATUS_RTAD_FLAGS", "UC", v, 0, 0)
  BY DEF WithFlags, SetAdd, v
<1> QED BY <1>1, <1>3, <1>4

LEMMA ResvConfigurationFit ==
  ASSUME NEW c, Fit(c)
  PROVE  /\ Fit(ResvConfiguration(c))
         /\ ResvConfiguration(c).data["LABEL"] = << - OwnNumber(c) >>
         /\ ResvConfiguration(c).void_size["LABEL"] = 4
<1> DEFINE r == WithFlags(c)
           n == OwnNumber(c)
           raw == - n
           s == SetLabel(r, raw)
           V == {Local, message_id}
           S == SettingsIn(V, Common)
           calls == << UI("CONTROL_OUT_IF_ADDR", Local),
                       UI("RESV_CONFIRM_RECV_ADDR", Local), UI("MSG_ID_ID", message_id) >>
<1>1. Fit(r)
  BY WithFlagsFit
<1>2. ResvConfiguration(c) = SetEach(s, calls \o FilterOf(c) \o FixedFilter)
  BY DEF ResvConfiguration
<1> HIDE DEF r, n, raw
<1>3. Fit(s) /\ s.data["LABEL"] = << raw >> /\ s.void_size["LABEL"] = 4
  BY <1>1, LabelSet
<1>4. Local \in V /\ message_id \in V
  OBVIOUS
<1> HIDE DEF s, V
<1>5. \A p \in Common, v \in V : UI(p, v) \in S
  BY CommonSetting
<1> HIDE DEF S
<1>6. calls \in Seq(S)
  BY <1>4, <1>5 DEF Common
<1> HIDE DEF calls
<1>7. calls \in Seq(SettingsIn(V, Common)) /\ Good(s)
  BY <1>3, <1>6 DEF S, Fit
<1> DEFINE t == SetEach(s, calls \o FilterOf(c) \o FixedFilter)
<1>8. /\ Fit(t)
      /\ \A p \in (Parameters \ Common) \ StyleFlags : t.data[p] = s.data[p]
  BY <1>7, FilteredFit
<1>9. t.data["LABEL"] = s.data["LABEL"]
  BY <1>8, LabelStays
<1>10. t.void_size = s.void_size
  BY DEF SetEach
<1> HIDE DEF t
<1>11. Fit(t) /\ t.data["LABEL"] = << raw >> /\ t.void_size["LABEL"] = 4
  BY <1>3, <1>8, <1>9, <1>10
<1> QED BY <1>2, <1>11 DEF t, raw, n

LEMMA RespondPathGives ==
  ASSUME message_id \in Int, NEW c, Fit(c), NEW acks, AtMostAnAck(acks),
         RespondPath(c, acks)
  PROVE  /\ Delivered /\ Fit(configuration') /\ path_configuration' = c /\ phase' = "up"
         /\ LabelGiven
         /\ IsPresent(c, "UPSTREAM_LABEL") => label' = Read(c, "UPSTREAM_LABEL")
<1> DEFINE r == ResvConfiguration(c)
           list == adding_resv_objects(c, r)
           m == Msg("RESV", r, list)
           n == OwnNumber(c)
<1>1. /\ path_configuration' = c /\ phase' = "up" /\ label' = n
      /\ configuration' = r
  BY DEF RespondPath, ResvConfiguration, WithFlags, OwnNumber
<1>2. Sends(acks \o << Msg("RESV", configuration', adding_resv_objects(c, configuration')) >>, {})
  BY DEF RespondPath
<1>3. Sends(acks \o << m >>, {})
  BY <1>1, <1>2
<1>4. /\ Fit(r) /\ r.data["LABEL"] = << - n >> /\ r.void_size["LABEL"] = 4
  BY ResvConfigurationFit
<1>5. list \in Seq(Usual) /\ HasHopAndLabel(list) /\ Len(list) <= 11
  BY ResvUsual, ResvParts
<1>6. m.wire = WireFrom(r, list)
  BY DEF Msg, MsgOf, WireFrom
<1>7. IsPresent(c, "UPSTREAM_LABEL") => n = Read(c, "UPSTREAM_LABEL")
  BY DEF OwnNumber
<1> HIDE DEF r, n
<1>8. MessageFit(r, list)
  <2>1. Usual \subseteq Added /\ "ETHERNET_FLOWSPEC" \notin Usual
    BY DEF Added, Usual
  <2> HIDE DEF list
  <2>2. list \in Seq(Added) /\ \A k \in DOMAIN list : list[k] \in Usual
    BY <1>5, <2>1, SequenceIn
  <2>3. ~ Occurs("ETHERNET_FLOWSPEC", list)
    BY <2>1, <2>2 DEF Occurs
  <2> QED BY <1>4, <2>2, <2>3 DEF MessageFit
<1>9. Is(m, "RESV")
  BY <1>8, FitIs
<1>10. parse_data(m.wire).data["LABEL"] = << - n >>
  <2> HIDE DEF list
  <2>1. Len(list) < MAX_OBJECTS /\ Occurs("GENERALIZED_LABEL", list)
    <3>1. Len(list) \in Nat
      BY <1>5
    <3> QED BY <1>5, <3>1 DEF MAX_OBJECTS, HasHopAndLabel
  <2>2. PICK v : v = - n
    OBVIOUS
  <2>3. parse_data(WireFrom(r, list)).data["LABEL"] = << v >>
    BY <1>4, <1>8, <2>1, <2>2, WireLabel
  <2> QED BY <1>6, <2>2, <2>3
<1> HIDE DEF m, list
<1>11. Delivered /\ Alone(sent', m)
  BY <1>3, <1>9, Answering
<1>12. LabelGiven
  BY <1>1, <1>10, <1>11 DEF LabelGiven
<1> QED BY <1>1, <1>4, <1>7, <1>11, <1>12

(* The store of an answer to the flags R and D. *)
ErrorConfiguration(c) ==
  SetEach(SetLabel(c, - OwnLabel),
          << UC("MSG_ID_FLAGS", 1), UI("MSG_ID_EPOCH", Epoch),
             UI("ERROR_NODE_ADDR", Local), UC("ERROR_FLAGS", 4),
             UC("ERROR_CODE", 0), US("ERROR_VALUE", 0),
             UI("MSG_ID_ID", message_id) >> \o FilterOf(c) \o FixedFilter)

LEMMA ErrorFit ==
  ASSUME NEW c, Fit(c)
  PROVE  Fit(ErrorConfiguration(c))
<1> DEFINE raw == - OwnLabel
           s == SetLabel(c, raw)
           V == {0, 1, 4, Epoch, Local, message_id}
           S == SettingsIn(V, Common)
           calls == << UC("MSG_ID_FLAGS", 1), UI("MSG_ID_EPOCH", Epoch),
                       UI("ERROR_NODE_ADDR", Local), UC("ERROR_FLAGS", 4),
                       UC("ERROR_CODE", 0), US("ERROR_VALUE", 0),
                       UI("MSG_ID_ID", message_id) >>
<1>1. ErrorConfiguration(c) = SetEach(s, calls \o FilterOf(c) \o FixedFilter)
  BY DEF ErrorConfiguration
<1> HIDE DEF raw
<1>2. Fit(s)
  BY LabelSet
<1>3. 0 \in V /\ 1 \in V /\ 4 \in V /\ Epoch \in V /\ Local \in V /\ message_id \in V
  OBVIOUS
<1> HIDE DEF s, V
<1>4. \A p \in Common, v \in V : UC(p, v) \in S /\ US(p, v) \in S /\ UI(p, v) \in S
  BY CommonSetting
<1> HIDE DEF S
<1>5. calls \in Seq(S)
  BY <1>3, <1>4 DEF Common
<1> HIDE DEF calls
<1>6. calls \in Seq(SettingsIn(V, Common)) /\ Good(s)
  BY <1>2, <1>5 DEF S, Fit
<1>7. Fit(SetEach(s, calls \o FilterOf(c) \o FixedFilter))
  BY <1>6, FilteredFit
<1> QED BY <1>1, <1>7

LEMMA RespondPathDeleteGives ==
  ASSUME message_id \in Int, NEW c, Fit(c), NEW acks, AtMostAnAck(acks),
         RespondPathDelete(c, acks)
  PROVE  /\ Delivered /\ configuration' = configuration /\ path_configuration' = c
         /\ phase' \in {"tearing", "down"}
<1> DEFINE e == ErrorConfiguration(c)
           d == SetAdd(e, "ADMIN_STATUS_RTAD_FLAGS", "UC", 1)
           tear == adding_resv_objects(c, d) \o << "ADMIN_STATUS" >>
           a == << "MESSAGE_ID", "SESSION_OIF", "ERROR_SPEC", "SENDER_TEMPLATE" >>
           b == Only(proto = "OIFUNI20", << "ETHERNET_SENDER_TSPEC" >> \o CallId(e))
<1>1. \/ Sends(acks \o << Msg("RESV", d, tear) >>, {})
      \/ Sends(acks \o << Msg("PATHERR", e, a \o b) >>, {})
  BY DEF RespondPathDelete, ErrorConfiguration
<1>2. /\ configuration' = configuration /\ path_configuration' = c
      /\ phase' \in {"tearing", "down"}
  BY DEF RespondPathDelete
<1>3. Fit(e)
  BY ErrorFit
<1> HIDE DEF e
<1>4. Fit(d)
  BY <1>3, FlagFit
<1> HIDE DEF d
<1>5. tear \in Seq(Usual)
  <2> DEFINE last == << "ADMIN_STATUS" >>
             first_ == adding_resv_objects(c, d)
  <2>1. last \in Seq(Usual)
    BY DEF Usual
  <2>2. first_ \in Seq(Usual)
    BY ResvUsual
  <2> HIDE DEF last, first_
  <2>3. first_ \o last \in Seq(Usual)
    BY <2>1, <2>2
  <2> QED BY <2>3 DEF first_, last
<1>6. a \o b \in Seq(Usual)
  <2>1. a \in Seq(Usual) /\ << "ETHERNET_SENDER_TSPEC" >> \in Seq(Usual)
    BY DEF Usual
  <2>2. << "ETHERNET_SENDER_TSPEC" >> \o CallId(e) \in Seq(Usual)
    BY <2>1, CallIdUsual
  <2>3. b \in Seq(Usual)
    BY <2>2, OnlyUsual
  <2> HIDE DEF a, b
  <2> QED BY <2>1, <2>3
<1> HIDE DEF tear, a, b
<1>7. Is(Msg("RESV", d, tear), "RESV") /\ Is(Msg("PATHERR", e, a \o b), "PATHERR")
  BY <1>3, <1>4, <1>5, <1>6, UsualIs
<1>8. Delivered
  BY <1>1, <1>7, Answering
<1> QED BY <1>2, <1>8

(* The store of a refusal. *)
NackConfiguration(c) ==
  SetEach(c, << UI("CONTROL_OUT_IF_ADDR", Local), US("TUNNEL_ID", Read(c, "TUNNEL_ID")) >>
             \o FilterOf(c)
             \o << UI("ERROR_NODE_ADDR", Local), UC("ERROR_FLAGS", 0),
                   UC("ERROR_CODE", 2), US("ERROR_VALUE", 0),
                   UI("MSG_ID_ID", message_id) >>)

LEMMA NackFit ==
  ASSUME NEW c, Fit(c)
  PROVE  Fit(NackConfiguration(c))
<1> DEFINE t == Read(c, "TUNNEL_ID")
           V == {0, 2, t, Local, message_id}
           S == SettingsIn(V, Common)
           a == << UI("CONTROL_OUT_IF_ADDR", Local), US("TUNNEL_ID", t) >>
           b == << UI("ERROR_NODE_ADDR", Local), UC("ERROR_FLAGS", 0),
                   UC("ERROR_CODE", 2), US("ERROR_VALUE", 0), UI("MSG_ID_ID", message_id) >>
<1>1. NackConfiguration(c) = SetEach(c, a \o FilterOf(c) \o b)
  BY DEF NackConfiguration
<1> HIDE DEF t
<1>2. 0 \in V /\ 2 \in V /\ t \in V /\ Local \in V /\ message_id \in V
  OBVIOUS
<1> HIDE DEF V
<1>3. \A p \in Common, v \in V : UC(p, v) \in S /\ US(p, v) \in S /\ UI(p, v) \in S
  BY CommonSetting
<1> HIDE DEF S
<1>4. a \in Seq(S) /\ b \in Seq(S)
  BY <1>2, <1>3 DEF Common
<1> HIDE DEF a, b
<1>5. Sets(a, Common) /\ Sets(b, Common)
  BY <1>4, SequenceSets DEF S
<1>6. Sets(FilterOf(c), Common)
  BY FilterSets
<1> DEFINE ab == a \o FilterOf(c)
           all == ab \o b
<1>7. Sets(ab, Common)
  BY <1>5, <1>6, JoinedSets
<1> HIDE DEF ab
<1>8. Sets(all, Common)
  BY <1>5, <1>7, JoinedSets
<1> HIDE DEF all
<1>9. Fit(SetEach(c, all))
  BY <1>8, CommonSet
<1> QED BY <1>1, <1>9 DEF all, ab

LEMMA RespondPathNackGives ==
  ASSUME message_id \in Int, NEW c, Fit(c), NEW acks, AtMostAnAck(acks),
         RespondPathNack(c, acks)
  PROVE  /\ Delivered /\ Fit(configuration') /\ path_configuration' = path_configuration
         /\ phase' = "down"
<1> DEFINE e == NackConfiguration(c)
           ietf == << "SESSION_IETF", "ERROR_SPEC", "SENDER_TEMPLATE",
                      "TOKEN_SENDER_TSPEC" >>
           oif == << "MESSAGE_ID", "SESSION_OIF", "ERROR_SPEC", "SENDER_TEMPLATE",
                     "SONETSDH_SENDER_TSPEC" >>
           a == Only(IsPresent(c, "UPSTREAM_LABEL"), << "UPSTREAM_LABEL" >>)
           b == Only(proto = "OIFUNI20", CallId(e))
           list == IF IETF THEN ietf ELSE oif \o a \o b
<1>1. /\ Sends(acks \o << Msg("PATHERR", e, list) >>, {})
      /\ configuration' = e /\ path_configuration' = path_configuration /\ phase' = "down"
  BY DEF RespondPathNack, NackConfiguration
<1>2. Fit(e)
  BY NackFit
<1> HIDE DEF e
<1>3. ietf \in Seq(Usual) /\ oif \in Seq(Usual)
  BY DEF Usual
<1>4. a \in Seq(Usual)
  <2>1. << "UPSTREAM_LABEL" >> \in Seq(Usual)
    BY DEF Usual
  <2> QED BY <2>1, OnlyUsual
<1>5. b \in Seq(Usual)
  BY CallIdUsual, OnlyUsual
<1> HIDE DEF ietf, oif, a, b
<1>6. list \in Seq(Usual)
  BY <1>3, <1>4, <1>5
<1> HIDE DEF list
<1>7. Is(Msg("PATHERR", e, list), "PATHERR")
  BY <1>2, <1>6, UsualIs
<1>8. Delivered
  BY <1>1, <1>7, Answering
<1> QED BY <1>1, <1>2, <1>8

LEMMA RouterPathRead ==
  ASSUME NEW w \in RouterPaths
  PROVE  ShapedWire(w) /\ Fit(parse_data(w))
<1>1. /\ Len(w) \in Nat /\ DOMAIN w = 1..Len(w)
      /\ \A k \in DOMAIN w :
           /\ w[k].class \in Classes \ Subobjects /\ w[k].length \in Nat
           /\ Len(w[k].fields) \in Nat /\ DOMAIN w[k].fields = 1..Len(w[k].fields)
           /\ \A i \in DOMAIN w[k].fields :
                w[k].fields[i].kind = "name" => w[k].fields[i].val \in Nat
  BY RouterPathsAssumption
<1>2. ASSUME NEW k \in DOMAIN w PROVE Shaped(w[k])
  BY <1>1 DEF Shaped, WireClasses
<1>3. ShapedWire(w)
  <2>1. PICK n : n = Len(w)
    OBVIOUS
  <2>2. n \in Nat /\ DOMAIN w = 1..n
    BY <1>1, <2>1
  <2>3. \E i \in Nat : DOMAIN w = 1..i
    BY <2>2, Zenon
  <2> QED BY <1>2, <2>3 DEF ShapedWire
<1> QED BY <1>3, ParsedFit

(* Flags added to what a PATH says change nothing else of it. *)
LEMMA FlaggedRead ==
  ASSUME NEW c, Fit(c), NEW v
  PROVE  /\ Fit(SetAdd(c, "ADMIN_STATUS_RTAD_FLAGS", "UC", v))
         /\ SetAdd(c, "ADMIN_STATUS_RTAD_FLAGS", "UC", v).data["UPSTREAM_LABEL"]
              = c.data["UPSTREAM_LABEL"]
<1> DEFINE d == SetAddAt(c, "ADMIN_STATUS_RTAD_FLAGS", "UC", v, 0, 0)
<1>1. d = SetAdd(c, "ADMIN_STATUS_RTAD_FLAGS", "UC", v)
  BY DEF SetAdd
<1>2. Fit(d)
  BY <1>1, FlagFit
<1>3. "UPSTREAM_LABEL" \in Parameters
  BY DEF Parameters, PT_UI
<1>4. d.data["UPSTREAM_LABEL"] = c.data["UPSTREAM_LABEL"]
  <2>1. PICK p, ty, size : p = "ADMIN_STATUS_RTAD_FLAGS" /\ ty = "UC" /\ size = 0
    OBVIOUS
  <2>2. SetAddAt(c, p, ty, v, size, 0).data["UPSTREAM_LABEL"] = c.data["UPSTREAM_LABEL"]
    BY <1>3, <2>1, AddLeaves
  <2> QED BY <2>1, <2>2
<1> HIDE DEF d
<1> QED BY <1>1, <1>2, <1>4

Answered(c) ==
  /\ Delivered /\ Fit(configuration') /\ Fit(path_configuration')
  /\ phase' \in {"up", "tearing", "down", "ended"}
  /\ phase' = "up" =>
       /\ LabelGiven
       /\ IsPresent(c, "UPSTREAM_LABEL") => label' = Read(c, "UPSTREAM_LABEL")

LEMMA RespondGives ==
  ASSUME message_id \in Int, Fit(configuration), Fit(path_configuration),
         NEW c, Fit(c), c = got', NEW acks, AtMostAnAck(acks),
         Respond(c, acks) \/ Refuse(c, acks)
  PROVE  Answered(c)
<1>1. CASE RespondPath(c, acks)
  BY <1>1, RespondPathGives DEF Answered
<1>2. CASE RespondPathDelete(c, acks)
  BY <1>2, RespondPathDeleteGives DEF Answered
<1>3. CASE RespondPathNack(c, acks)
  BY <1>3, RespondPathNackGives DEF Answered
<1>4. CASE ReadsAbsent(c, HopAndSender, acks) \/ ReadsAbsent(c, Sender, acks)
  <2>1. Sender \subseteq HopAndSender
    BY DEF HopAndSender
  <2>2. PICK needed : /\ needed \subseteq HopAndSender \cup {"LABEL"}
                      /\ ReadsAbsent(c, needed, acks)
    BY <1>4, <2>1
  <2>3. /\ Delivered /\ phase' = "ended"
        /\ UNCHANGED << configuration, path_configuration >>
    BY <2>2, ReadsAbsentGives
  <2> QED BY <2>3 DEF Answered
<1> QED BY <1>1, <1>2, <1>3, <1>4 DEF Respond, Refuse

-----------------------------------------------------------------------------
(* What holds in every state.                                              *)

Bounded ==
  /\ proto \in {"IETF_RSVP", "OIFUNI10", "OIFUNI20"} /\ translator \in BOOLEAN
  /\ MaxMessageId \in Nat /\ message_id \in 1..(MaxMessageId + 2)
  /\ phase \in {"null", "asked", "sent", "up", "tearing", "down", "ended"}
  /\ direction \in {"undefined", "outgoing", "incoming"}

AllFit == \A c \in Stored : Fit(c)
AllSent == (\A m \in ToSet(sent) : Sendable(m)) /\ NoNullRead
Started == phase = "null" => message_id = 1 /\ direction = "undefined"

(* What the path's first PATH was, and what was read in it. *)
FirstSeen == direction # "undefined" => ShapedWire(first) /\ seen = parse_data(first)
FromRouter == direction = "incoming" => first \in RouterPaths
AskedFirst == phase = "asked" => direction = "incoming" /\ pending = seen /\ got = pending

(* The PATH of a store of an outgoing path. *)
PathWire(c) == Msg("PATH", c, adding_create_path_objects(c, c)).wire
FirstIsPath ==
  direction = "outgoing" /\ phase \in {"sent", "up"} =>
    /\ first = PathWire(path_configuration)
    /\ \A p \in Kinded : configuration.data[p] = path_configuration.data[p]

(* The label of an incoming path is the one its sender proposed. *)
LabelProposed ==
  direction = "incoming" /\ phase = "up" /\ IsPresent(seen, "UPSTREAM_LABEL") =>
    Read(seen, "UPSTREAM_LABEL") = label

IInv ==
  /\ Bounded /\ AllFit /\ AllSent /\ Started /\ FirstSeen /\ FromRouter /\ AskedFirst
  /\ FirstIsPath /\ LabelProposed /\ LabelAgreed

(* A path that has a direction keeps it and its first PATH. *)
Onward ==
  /\ direction # "undefined" /\ phase # "null"
  /\ UNCHANGED << proto, translator, direction, pending, seen, first >>
  /\ phase' \in {"sent", "up", "tearing", "down", "ended"} \/ UNCHANGED << phase, got >>
  /\ message_id <= MaxMessageId \/ message_id' = message_id

LEMMA GoingOn ==
  ASSUME IInv, Onward, Delivered, Fit(configuration'), Fit(path_configuration'), Fit(got'),
         FirstIsPath', LabelProposed', LabelAgreed'
  PROVE  IInv'
<1>1. Bounded'
  BY DEF IInv, Bounded, Onward, Delivered
<1>2. AllFit'
  BY DEF IInv, AllFit, Stored, Onward
<1>3. AllSent'
  BY DEF AllSent, Delivered
<1>4. Started' /\ AskedFirst'
  BY DEF IInv, Started, AskedFirst, Onward
<1>5. FirstSeen' /\ FromRouter'
  BY DEF IInv, FirstSeen, FromRouter, Onward
<1> QED BY <1>1, <1>2, <1>3, <1>4, <1>5 DEF IInv

LEMMA NothingToAgree ==
  ASSUME NEW m, Alone(sent', m), m.mtype # "RESV"
  PROVE  LabelAgreed'
<1>1. \A x \in ToSet(sent') : x.mtype # "RESV"
  BY DEF Alone
<1> QED BY <1>1 DEF LabelAgreed

LEMMA NotUp ==
  ASSUME phase' # "up"
  PROVE  LabelProposed' /\ LabelAgreed'
BY DEF LabelProposed, LabelAgreed

LEMMA LabelNow ==
  ASSUME LabelGiven, IsPresent(seen', "UPSTREAM_LABEL") => label' = Read(seen', "UPSTREAM_LABEL")
  PROVE  LabelAgreed'
<1> SUFFICES ASSUME NEW m \in ToSet(sent'), m.mtype = "RESV"
             PROVE  /\ IsPresent(parse_data(m.wire), "LABEL")
                    /\ Read(parse_data(m.wire), "LABEL") = - label'
                    /\ IsPresent(seen', "UPSTREAM_LABEL") =>
                         Read(seen', "UPSTREAM_LABEL") = label'
  BY DEF LabelAgreed
<1>1. PICK n : Alone(sent', n) /\ parse_data(n.wire).data["LABEL"] = << - label' >>
  BY DEF LabelGiven
<1>2. m = n
  BY <1>1 DEF Alone
<1> DEFINE c == parse_data(m.wire)
<1>3. c.data["LABEL"] = << - label' >>
  BY <1>1, <1>2
<1>4. "LABEL" \notin PT_TAB
  BY DEF PT_TAB
<1> HIDE DEF c
<1>5. IsPresent(c, "LABEL") /\ Read(c, "LABEL") = - label'
  BY <1>3, <1>4 DEF IsPresent, IsPresentAt, Read, ReadAt
<1> QED BY <1>5 DEF c

(* Two stores with one proposal. *)
SameProposal(c, d) == c.data["UPSTREAM_LABEL"] = d.data["UPSTREAM_LABEL"]

LEMMA Proposed ==
  ASSUME NEW c, NEW d, SameProposal(c, d)
  PROVE  /\ IsPresent(c, "UPSTREAM_LABEL") = IsPresent(d, "UPSTREAM_LABEL")
         /\ Read(c, "UPSTREAM_LABEL") = Read(d, "UPSTREAM_LABEL")
<1>1. "UPSTREAM_LABEL" \notin PT_TAB
  BY DEF PT_TAB
<1> QED BY <1>1 DEF SameProposal, IsPresent, IsPresentAt, Read, ReadAt

LEMMA NewLabel ==
  ASSUME NEW c, Answered(c), SameProposal(c, seen')
  PROVE  LabelProposed' /\ LabelAgreed'
<1>1. CASE phase' # "up"
  BY <1>1, NotUp
<1>2. CASE phase' = "up"
  <2>1. LabelGiven /\ (IsPresent(c, "UPSTREAM_LABEL") => label' = Read(c, "UPSTREAM_LABEL"))
    BY <1>2 DEF Answered
  <2>2. IsPresent(seen', "UPSTREAM_LABEL") => label' = Read(seen', "UPSTREAM_LABEL")
    BY <2>1, Proposed
  <2>3. LabelProposed'
    BY <2>2 DEF LabelProposed
  <2> QED BY <2>1, <2>2, <2>3, LabelNow
<1> QED BY <1>1, <1>2

(* An incoming path that answers. *)
LEMMA IncomingStep ==
  ASSUME IInv, Onward, direction = "incoming", NEW c, Answered(c), SameProposal(c, seen),
         Fit(got')
  PROVE  IInv'
<1>1. direction' = "incoming" /\ seen' = seen
  BY DEF Onward
<1>2. FirstIsPath'
  BY <1>1 DEF FirstIsPath
<1>3. LabelProposed' /\ LabelAgreed'
  BY <1>1, NewLabel
<1> QED BY <1>2, <1>3, GoingOn DEF Answered

LEMMA StoresFit ==
  ASSUME IInv
  PROVE  /\ message_id \in Int /\ Fit(configuration) /\ Fit(path_configuration)
         /\ Fit(pending) /\ Fit(seen) /\ Fit(got)
<1>1. message_id \in Int
  BY DEF IInv, Bounded
<1> QED BY <1>1 DEF IInv, AllFit, Stored

LEMMA AnswerStep ==
  ASSUME IInv, Accepted \/ Refused
  PROVE  IInv'
<1>1. /\ phase = "asked" /\ message_id <= MaxMessageId
      /\ UNCHANGED << proto, translator, direction, pending, request, seen, first, got, reported >>
      /\ Respond(pending, << >>) \/ Refuse(pending, << >>)
  BY DEF Accepted, Refused
<1>2. direction = "incoming" /\ pending = seen /\ pending = got'
  BY <1>1 DEF IInv, AskedFirst
<1>3. Fit(pending)
  BY StoresFit
<1>4. AtMostAnAck(<< >>)
  BY DEF AtMostAnAck
<1>5. Answered(pending)
  BY <1>1, <1>2, <1>3, <1>4, StoresFit, RespondGives
<1>6. Onward
  BY <1>1, <1>2, <1>5 DEF Onward, Answered
<1>7. Fit(got')
  BY <1>1, StoresFit
<1>8. SameProposal(pending, seen)
  BY <1>2 DEF SameProposal
<1> QED BY <1>2, <1>5, <1>6, <1>7, <1>8, IncomingStep

LEMMA AgainStep ==
  ASSUME IInv, NEW flags, RecvPathAgain(flags)
  PROVE  IInv'
<1> DEFINE c == got'
<1>1. /\ direction = "incoming" /\ message_id <= MaxMessageId
      /\ UNCHANGED << proto, translator, direction, pending, seen, first >>
      /\ Respond(c, Acks(c)) \/ Refuse(c, Acks(c))
      /\ got' = parse_data(first)
         \/ got' = SetAdd(parse_data(first), "ADMIN_STATUS_RTAD_FLAGS", "UC", flags)
  BY DEF RecvPathAgain
<1>2. Fit(seen) /\ seen = parse_data(first)
  BY <1>1, StoresFit DEF IInv, FirstSeen
<1>3. Fit(c) /\ SameProposal(c, seen)
  BY <1>1, <1>2, FlaggedRead DEF SameProposal
<1>4. AtMostAnAck(Acks(c))
  BY <1>3, AckFit
<1>5. Answered(c)
  BY <1>1, <1>3, <1>4, StoresFit, RespondGives
<1> HIDE DEF c
<1>6. phase # "null"
  BY <1>1 DEF IInv, Started
<1>7. Onward
  BY <1>1, <1>5, <1>6 DEF Onward, Answered
<1>8. Fit(got')
  BY <1>3 DEF c
<1> QED BY <1>1, <1>3, <1>5, <1>7, <1>8, IncomingStep

LEMMA FirstStep ==
  ASSUME IInv, NEW w \in RouterPaths, RecvPath(w)
  PROVE  IInv'
<1> DEFINE c == parse_data(w)
<1>1. /\ phase = "null" /\ direction' = "incoming" /\ got' = c /\ seen' = c /\ first' = w
      /\ RecvFirst(c) /\ UNCHANGED << proto, translator >>
  BY DEF RecvPath
<1>2. ShapedWire(w) /\ Fit(c)
  BY RouterPathRead
<1> HIDE DEF c
<1>3. Fit(c) /\ AtMostAnAck(Acks(c))
  BY <1>2, AckFit
<1>4. message_id = 1
  BY <1>1 DEF IInv, Started
<1>5. \/ /\ phase' = "asked" /\ pending' = c /\ Fit(configuration')
         /\ path_configuration' = path_configuration /\ Delivered
      \/ Answered(c) /\ pending' = pending
  <2>1. CASE /\ phase' = "asked" /\ pending' = c
             /\ configuration' = SetAdd(set_conf_defaults, "TUNNEL_ID", "US", Read(c, "TUNNEL_ID"))
             /\ Sends(Acks(c), {})
             /\ path_configuration' = path_configuration
    <3> DEFINE v == Read(c, "TUNNEL_ID")
    <3>1. PICK q, ty : q = "TUNNEL_ID" /\ ty = "US"
      OBVIOUS
    <3>2. q \notin StyleFlags /\ ty \in Types /\ ty # "CS" /\ 0 \in Int
      BY <3>1 DEF StyleFlags, Types
    <3> HIDE DEF v
    <3>3. Fit(SetAddAt(set_conf_defaults, q, ty, v, 0, 0))
      BY <3>2, DefaultsFit, FitAdd
    <3>4. Fit(configuration')
      BY <2>1, <3>1, <3>3 DEF SetAdd, v
    <3>5. OneMessage(Acks(c))
      BY <1>3, AckAlone
    <3>6. Delivered
      BY <2>1, <3>5, StoresFit, Sending
    <3> QED BY <2>1, <3>4, <3>6
  <2>2. CASE /\ Respond(c, Acks(c)) \/ Refuse(c, Acks(c))
             /\ pending' = pending
    BY <1>1, <1>3, <2>2, StoresFit, RespondGives
  <2> QED BY <1>1, <2>1, <2>2 DEF RecvFirst
<1>6. /\ Delivered /\ Fit(configuration') /\ Fit(path_configuration') /\ Fit(pending')
      /\ phase' \in {"asked", "up", "tearing", "down", "ended"}
      /\ phase' = "asked" => pending' = seen' /\ got' = pending'
  BY <1>1, <1>3, <1>5, StoresFit DEF Answered
<1>7. Bounded'
  BY <1>1, <1>4, <1>6 DEF IInv, Bounded, Delivered
<1>8. AllFit'
  BY <1>1, <1>3, <1>6 DEF AllFit, Stored
<1>9. AllSent' /\ Started' /\ AskedFirst'
  BY <1>1, <1>6 DEF AllSent, Delivered, Started, AskedFirst
<1>10. FirstSeen' /\ FromRouter' /\ FirstIsPath'
  BY <1>1, <1>2 DEF FirstSeen, FromRouter, FirstIsPath, c
<1>11. LabelProposed' /\ LabelAgreed'
  <2>1. CASE phase' # "up"
    BY <2>1, NotUp
  <2>2. CASE phase' = "up"
    <3>1. Answered(c)
      BY <1>5, <2>2
    <3>2. SameProposal(c, seen')
      BY <1>1 DEF SameProposal
    <3> QED BY <3>1, <3>2, NewLabel
  <2> QED BY <2>1, <2>2
<1> QED BY <1>7, <1>8, <1>9, <1>10, <1>11 DEF IInv

-----------------------------------------------------------------------------
(* The steps of an outgoing path.                                          *)

LEMMA PathWireSame ==
  ASSUME UNCHANGED << proto, translator, path_configuration >>
  PROVE  PathWire(path_configuration)' = PathWire(path_configuration)
BY DEF PathWire, adding_create_path_objects, CallId, IETF

LEMMA FirstStays ==
  ASSUME FirstIsPath, UNCHANGED << proto, translator, first, path_configuration >>,
         direction' = "outgoing" => direction = "outgoing" /\ phase \in {"sent", "up"},
         \A p \in Kinded : configuration'.data[p] = configuration.data[p]
  PROVE  FirstIsPath'
<1>1. PathWire(path_configuration)' = PathWire(path_configuration)
  BY PathWireSame
<1> QED BY <1>1 DEF FirstIsPath

LEMMA RefreshStep ==
  ASSUME IInv, RefreshPath
  PROVE  IInv' /\ \A x \in ToSet(sent') : x.wire = first
<1> DEFINE list == adding_create_path_objects(configuration, path_configuration)
           m == Msg("PATH", path_configuration, list)
<1>1. /\ direction = "outgoing" /\ phase = "up" /\ message_id <= MaxMessageId
      /\ Sends(<< m >>, {})
      /\ UNCHANGED << proto, translator, phase, direction, configuration,
                      path_configuration, label, pending, request, seen, first, got >>
  BY DEF RefreshPath
<1>2. first = PathWire(path_configuration)
      /\ \A p \in Kinded : configuration.data[p] = path_configuration.data[p]
  BY <1>1 DEF IInv, FirstIsPath
<1>3. list = adding_create_path_objects(path_configuration, path_configuration)
  BY <1>2, StoresFit, SameCreate DEF Fit
<1>4. list \in Seq(Usual)
  BY CreateUsual
<1>5. m.wire = first /\ m.mtype = "PATH"
  BY <1>2, <1>3 DEF PathWire, Msg, MsgOf
<1> HIDE DEF list
<1>6. Sendable(m)
  BY <1>4, StoresFit, UsualIs DEF Is
<1> HIDE DEF m
<1>7. OneMessage(<< m >>) /\ Alone(<< m >>, m)
  BY <1>6, SingleMessage
<1>8. Delivered
  BY <1>1, <1>7, StoresFit, Sending
<1>9. \A x \in ToSet(sent') : x = m
  BY <1>1 DEF Sends, ToSet
<1>10. LabelProposed' /\ LabelAgreed'
  BY <1>1, <1>5, <1>9 DEF LabelProposed, LabelAgreed
<1>11. Onward
  BY <1>1 DEF Onward
<1>12. FirstIsPath'
  BY <1>1, FirstStays DEF IInv
<1>13. Fit(configuration') /\ Fit(path_configuration') /\ Fit(got')
  BY <1>1, StoresFit
<1> QED BY <1>5, <1>8, <1>9, <1>10, <1>11, <1>12, <1>13, GoingOn

LEMMA ReportStep ==
  ASSUME IInv, ReportStatus
  PROVE  IInv'
<1>1. /\ phase \notin {"null", "asked", "ended"} /\ Sends(<< >>, {})
      /\ UNCHANGED << proto, translator, phase, direction, configuration,
                      path_configuration, label, pending, request, seen, first, got >>
  BY DEF ReportStatus
<1>2. Delivered
  BY <1>1, NoMessage, StoresFit, Sending
<1>3. sent' = << >> /\ message_id' = message_id
  <2>1. sent' = << >>
    BY <1>1 DEF Sends
  <2>2. {k \in DOMAIN << >> : << >>[k].mtype # "ACK"} = {}
    OBVIOUS
  <2>3. message_id' = message_id + Cardinality({})
    BY <1>1, <2>2 DEF Sends
  <2> QED BY <2>1, <2>3, StoresFit, FS_EmptySet
<1>4. ToSet(sent') = {}
  BY <1>3 DEF ToSet
<1>5. LabelProposed' /\ LabelAgreed'
  BY <1>1, <1>4 DEF IInv, LabelProposed, LabelAgreed
<1>6. Bounded'
  BY <1>1, <1>3 DEF IInv, Bounded
<1>7. AllFit' /\ AllSent' /\ Started' /\ FirstSeen' /\ FromRouter' /\ AskedFirst'
  BY <1>1, <1>2 DEF IInv, AllFit, Stored, AllSent, Delivered, Started, FirstSeen, FromRouter,
                    AskedFirst
<1>8. FirstIsPath'
  <2>1. PathWire(path_configuration)' = PathWire(path_configuration)
    BY <1>1, PathWireSame
  <2> QED BY <1>1, <2>1 DEF IInv, FirstIsPath
<1> QED BY <1>5, <1>6, <1>7, <1>8 DEF IInv

LEMMA StayStep ==
  ASSUME IInv, UNCHANGED vars
  PROVE  IInv'
<1>1. UNCHANGED << proto, translator, message_id, phase, direction, configuration,
                   path_configuration, label, pending, seen, first, got, sent, null >>
  BY DEF vars
<1>2. PathWire(path_configuration)' = PathWire(path_configuration)
  BY <1>1, PathWireSame
<1>3. FirstIsPath'
  BY <1>1, <1>2 DEF IInv, FirstIsPath
<1>4. /\ Bounded' /\ AllFit' /\ AllSent' /\ Started' /\ FirstSeen' /\ FromRouter'
      /\ AskedFirst'
  BY <1>1 DEF IInv, Bounded, AllFit, Stored, AllSent, NoNullRead, Missing, Started, FirstSeen,
              FromRouter, AskedFirst
<1>5. LabelProposed' /\ LabelAgreed'
  BY <1>1 DEF IInv, LabelProposed, LabelAgreed
<1> QED BY <1>3, <1>4, <1>5 DEF IInv

(* What a RESV leaves in the configuration does not make the path another. *)
LEMMA ConfStays ==
  ASSUME Fit(configuration), NEW c, ResvRead(c), NEW p \in Kinded
  PROVE  Update(configuration, ConfConf(c)).data[p] = configuration.data[p]
<1>1. p \in Parameters \ Common
  BY CommonPlain DEF Kinded, Parameters, PT_UC, PT_UI, PT_VS
<1>2. Fit(ConfConf(c)) /\ ConfConf(c).data[p] = << >>
  BY <1>1, ConfFit DEF ResvRead
<1> QED BY <1>1, <1>2, Copied DEF Fit

LEMMA AnswerResvGives ==
  ASSUME IInv, direction' # "incoming", NEW flags, NEW c, c = got', ResvRead(c),
         AnswerResv(flags, c)
  PROVE  /\ Delivered /\ Fit(configuration') /\ path_configuration' = path_configuration
         /\ phase' \in {"up", "down", "ended"}
         /\ \A p \in Kinded : configuration'.data[p] = configuration.data[p]
         /\ LabelAgreed'
<1>1. AtMostAnAck(Acks(c)) /\ Fit(c) /\ LinkFit(c) /\ message_id \in Int
      /\ Fit(configuration) /\ Fit(path_configuration)
  BY AckFit, StoresFit DEF ResvRead
<1>2. CASE /\ Sends(Acks(c) \o << TearOnReflect(c) >>, {}) /\ phase' = "down"
           /\ UNCHANGED << configuration, path_configuration >>
  <2>1. Is(TearOnReflect(c), "PATHTEAR")
    BY <1>1, TearOnReflectIs
  <2>2. Delivered
    BY <1>1, <1>2, <2>1, Answering
  <2> QED BY <1>1, <1>2, <2>2, NotUp
<1>3. CASE /\ Sends(Acks(c) \o << TearOnDelete >>, {}) /\ phase' = "down"
           /\ UNCHANGED << configuration, path_configuration >>
  <2>1. Is(TearOnDelete, "PATHTEAR")
    BY <1>1, TearOnDeleteIs
  <2>2. Delivered
    BY <1>1, <1>3, <2>1, Answering
  <2> QED BY <1>1, <1>3, <2>2, NotUp
<1>4. CASE ReadsAbsent(c, LabelAndHop, Acks(c))
  <2>1. LabelAndHop \subseteq HopAndSender \cup {"LABEL"}
    BY DEF LabelAndHop, HopAndSender
  <2>2. PICK needed : needed = LabelAndHop
    OBVIOUS
  <2>3. /\ Delivered /\ phase' = "ended"
        /\ UNCHANGED << configuration, path_configuration >>
    BY <1>1, <1>4, <2>1, <2>2, ReadsAbsentGives
  <2> QED BY <1>1, <2>3, NotUp
<1>5. CASE /\ Sends(Acks(c), {}) /\ phase' = "up"
           /\ UNCHANGED << configuration, path_configuration >>
  <2>1. OneMessage(Acks(c)) /\ \A m : Alone(Acks(c), m)
    BY <1>1, AckAlone
  <2>2. Delivered /\ sent' = Acks(c)
    BY <1>1, <1>5, <2>1, Sending DEF Sends
  <2>3. PICK m : m = [mtype |-> "ACK"]
    OBVIOUS
  <2>4. Alone(sent', m) /\ m.mtype # "RESV"
    BY <2>1, <2>2, <2>3
  <2> QED BY <1>1, <1>5, <2>2, <2>4, NothingToAgree
<1>6. CASE /\ Sends(Acks(c) \o << ResvConf(ConfConf(c)) >>, {})
           /\ phase' = "up" /\ configuration' = Update(configuration, ConfConf(c))
           /\ UNCHANGED path_configuration
  <2>1. Fit(ConfConf(c)) /\ LinkFit(ConfConf(c))
    BY <1>1, ConfFit, ConfLink
  <2>2. Is(ResvConf(ConfConf(c)), "RESVCONF")
    BY <2>1, ResvConfIs
  <2>3. Delivered /\ Alone(sent', ResvConf(ConfConf(c)))
    BY <1>1, <1>6, <2>2, Answering
  <2>4. LabelAgreed'
    BY <2>2, <2>3, NothingToAgree DEF Is
  <2>5. Fit(configuration')
    BY <1>1, <1>6, <2>1, FitCopy
  <2>6. \A p \in Kinded : configuration'.data[p] = configuration.data[p]
    BY <1>1, <1>6, ConfStays
  <2> QED BY <1>6, <2>3, <2>4, <2>5, <2>6
<1>7. \/ /\ Sends(Acks(c) \o << TearOnReflect(c) >>, {}) /\ phase' = "down"
         /\ UNCHANGED << configuration, path_configuration >>
      \/ /\ Sends(Acks(c) \o << TearOnDelete >>, {}) /\ phase' = "down"
         /\ UNCHANGED << configuration, path_configuration >>
      \/ RespondResv(c)
      \/ ReadsAbsent(c, LabelAndHop, Acks(c))
      \/ /\ Sends(Acks(c), {}) /\ phase' = "up"
         /\ UNCHANGED << configuration, path_configuration >>
  BY DEF AnswerResv
<1>8. CASE RespondResv(c)
  BY <1>5, <1>6, <1>8 DEF RespondResv
<1> QED BY <1>2, <1>3, <1>4, <1>5, <1>7, <1>8

LEMMA ResvStep ==
  ASSUME IInv, NEW flags, NEW id, NEW left_out \in LeftOut, RecvResv(flags, id, left_out)
  PROVE  IInv'
<1>1. /\ direction = "outgoing" /\ phase \in {"sent", "up"} /\ message_id <= MaxMessageId
      /\ got' = parse_data(RouterResv(flags, id, left_out)) /\ AnswerResv(flags, got')
      /\ UNCHANGED << proto, translator, direction, pending, request, seen, first, reported >>
  BY DEF RecvResv
<1>2. ShapedWire(first) /\ seen = parse_data(first)
  BY <1>1 DEF IInv, FirstSeen
<1>3. Fit(seen) /\ LinkFit(seen)
  BY <1>2, ParsedFit
<1>4. ResvRead(got')
  BY <1>1, <1>3, RouterResvRead
<1>5. /\ Delivered /\ Fit(configuration') /\ path_configuration' = path_configuration
      /\ phase' \in {"up", "down", "ended"}
      /\ \A p \in Kinded : configuration'.data[p] = configuration.data[p]
      /\ LabelAgreed'
  BY <1>1, <1>4, AnswerResvGives
<1>6. Onward
  BY <1>1, <1>5 DEF Onward
<1>7. FirstIsPath' /\ LabelProposed'
  BY <1>1, <1>5, FirstStays DEF IInv, LabelProposed
<1>8. Fit(path_configuration') /\ Fit(got')
  BY <1>1, <1>4, <1>5, StoresFit DEF ResvRead
<1> QED BY <1>5, <1>6, <1>7, <1>8, GoingOn

-----------------------------------------------------------------------------
(* destroy_path.                                                           *)

LEMMA OneSent ==
  ASSUME message_id \in Int, NEW m, NEW mtype, Is(m, mtype), Sends(<< m >>, {})
  PROVE  Delivered
<1>1. OneMessage(<< m >>)
  BY SingleMessage DEF Is
<1> QED BY <1>1, Sending

LEMMA FlagSettings ==
  ASSUME NEW c, Fit(c)
  PROVE  Fit(SetEach(c, << UI("MSG_ID_ID", message_id), UC("ADMIN_STATUS_RTAD_FLAGS", 9) >>))
<1> DEFINE V == {9, message_id}
           S == SettingsIn(V, Common)
           calls == << UI("MSG_ID_ID", message_id), UC("ADMIN_STATUS_RTAD_FLAGS", 9) >>
<1>1. 9 \in V /\ message_id \in V
  OBVIOUS
<1> HIDE DEF V
<1>2. \A p \in Common, v \in V : UC(p, v) \in S /\ UI(p, v) \in S
  BY CommonSetting
<1> HIDE DEF S
<1>3. calls \in Seq(S)
  BY <1>1, <1>2 DEF Common
<1> HIDE DEF calls
<1>4. Sets(calls, Common)
  BY <1>3, SequenceSets DEF S
<1>5. Fit(SetEach(c, calls))
  BY <1>4, CommonSet
<1> QED BY <1>5 DEF calls

LEMMA ResvDeleteFit == Fit(configuration) => Fit(ResvDelete)
<1> SUFFICES ASSUME Fit(configuration) PROVE Fit(ResvDelete)
  OBVIOUS
<1> DEFINE d == SetAdd(configuration, "ADMIN_STATUS_RTAD_FLAGS", "UC", 9)
           raw == - label
<1>1. Fit(d)
  BY FlagFit
<1> HIDE DEF d, raw
<1>2. Fit(SetLabel(d, raw))
  BY <1>1, LabelSet
<1> QED BY <1>2 DEF ResvDelete, d, raw

LEMMA DeleteConfFit ==
  ASSUME Fit(configuration)
  PROVE  Fit(DeleteConf) /\ Fit(RemoveParam(DeleteConf, "REFRESH_PERIOD"))
<1> DEFINE a == AddMissing(configuration, set_conf_defaults)
           S == {"UPSTREAM_LABEL"} \cup InterfaceHandles
           b == RemoveEach(a, S)
<1>1. Fit(a)
  BY DefaultsFit, FitCopy
<1> HIDE DEF a
<1>2. S \cap StyleFlags = {}
  BY InterfaceNoStyle DEF StyleFlags
<1> HIDE DEF S
<1>3. Fit(b)
  BY <1>1, <1>2, FitRemove
<1> HIDE DEF b
<1>4. PICK q, ty : q = "MSG_ID_ID" /\ ty = "UI"
  OBVIOUS
<1>5. q \notin StyleFlags /\ ty \in Types /\ ty # "CS" /\ 0 \in Int
  BY <1>4 DEF StyleFlags, Types
<1>6. Fit(SetAt(b, q, ty, message_id, 0, 0))
  BY <1>3, <1>5, FitAdd
<1>7. Fit(DeleteConf)
  BY <1>4, <1>6 DEF DeleteConf, a, S, b
<1>8. PICK p : p = "REFRESH_PERIOD"
  OBVIOUS
<1>9. p \in (Parameters \ PT_TAB) \ StyleFlags
  BY <1>8 DEF Parameters, PT_UI, PT_TAB, StyleFlags
<1>10. Fit(RemoveParam(DeleteConf, p))
  BY <1>7, <1>9, FitRemove
<1> QED BY <1>7, <1>8, <1>10

LEMMA LastUsual ==
  ASSUME NEW list \in Seq(Usual)
  PROVE  list \o << "ADMIN_STATUS" >> \in Seq(Usual)
<1> DEFINE last == << "ADMIN_STATUS" >>
<1>1. last \in Seq(Usual)
  BY DEF Usual
<1> HIDE DEF last
<1>2. list \o last \in Seq(Usual)
  BY <1>1
<1> QED BY <1>2 DEF last

LEMMA DestroyByFlagsGives ==
  ASSUME message_id \in Int, Fit(configuration), Fit(path_configuration), DestroyByFlags
  PROVE  Delivered /\ Fit(configuration') /\ Fit(path_configuration')
<1> DEFINE d == SetEach(configuration, << UI("MSG_ID_ID", message_id),
                                         UC("ADMIN_STATUS_RTAD_FLAGS", 9) >>)
           a == << "MESSAGE_ID", "SESSION_OIF", "IPV4_IF_ID_RSVP_HOP", "TIME_VALUES",
                   "GENERALIZED_LABEL_REQUEST", "GENERALIZED_UNI", "GU_SOURCE_TNA_ADDRESS",
                   "GU_DESTINATION_TNA_ADDRESS", "GU_SERVICE_LEVEL", "SENDER_TEMPLATE",
                   "ADMIN_STATUS" >>
           b == Only(proto = "OIFUNI20", << "ETHERNET_SENDER_TSPEC" >>)
           e == Only(proto = "OIFUNI10", << "SONETSDH_SENDER_TSPEC" >>)
           f == Only(IsPresent(d, "UPSTREAM_LABEL"), << "UPSTREAM_LABEL" >>)
           g == Only(proto = "OIFUNI20", CallId(d))
           p == SetAdd(path_configuration, "ADMIN_STATUS_RTAD_FLAGS", "UC", 9)
           create == adding_create_path_objects(p, p)
           resv == adding_resv_objects(path_configuration, ResvDelete)
<1>1. \/ /\ Sends(<< Msg("PATH", d, a \o b \o e \o f \o g) >>, {})
         /\ UNCHANGED << configuration, path_configuration >>
      \/ /\ path_configuration' = p
         /\ Sends(<< Msg("PATH", p, create \o << "ADMIN_STATUS" >>) >>, {})
         /\ UNCHANGED configuration
      \/ /\ configuration' = ResvDelete
         /\ Sends(<< Msg("RESV", ResvDelete, resv \o << "ADMIN_STATUS" >>) >>, {})
         /\ UNCHANGED path_configuration
  <2>1. CASE /\ Sends(<< Msg("PATH", d, a \o b \o e \o f \o g) >>, {})
             /\ UNCHANGED << configuration, path_configuration >>
    BY <2>1
  <2>2. CASE /\ path_configuration' = p /\ UNCHANGED configuration
             /\ Sends(<< Msg("PATH", path_configuration',
                     adding_create_path_objects(path_configuration', path_configuration')
                     \o << "ADMIN_STATUS" >>) >>, {})
    <3> HIDE DEF p
    <3> QED BY <2>2
  <2>3. CASE /\ configuration' = ResvDelete
             /\ Sends(<< Msg("RESV", ResvDelete, resv \o << "ADMIN_STATUS" >>) >>, {})
             /\ UNCHANGED path_configuration
    BY <2>3
  <2> QED BY <2>1, <2>2, <2>3, Zenon DEF DestroyByFlags
<1>2. Fit(d)
  BY FlagSettings
<1>3. Fit(p)
  BY FlagFit
<1>4. create \in Seq(Usual)
  BY CreateUsual
<1>5. resv \in Seq(Usual)
  BY ResvUsual
<1>6. a \in Seq(Usual)
  BY DEF Usual
<1> HIDE DEF d
<1>7. b \in Seq(Usual) /\ e \in Seq(Usual) /\ f \in Seq(Usual) /\ g \in Seq(Usual)
  <2>1. /\ << "ETHERNET_SENDER_TSPEC" >> \in Seq(Usual)
        /\ << "SONETSDH_SENDER_TSPEC" >> \in Seq(Usual)
        /\ << "UPSTREAM_LABEL" >> \in Seq(Usual)
    BY DEF Usual
  <2> QED BY <2>1, OnlyUsual, CallIdUsual
<1> HIDE DEF a, b, e, f, g, p, create, resv
<1>8. a \o b \o e \o f \o g \in Seq(Usual)
  BY <1>6, <1>7
<1>9. Is(Msg("PATH", d, a \o b \o e \o f \o g), "PATH")
  BY <1>2, <1>8, UsualIs
<1>10. Is(Msg("PATH", p, create \o << "ADMIN_STATUS" >>), "PATH")
  <2> DEFINE list == create \o << "ADMIN_STATUS" >>
  <2>1. list \in Seq(Usual)
    BY <1>4, LastUsual
  <2> HIDE DEF list
  <2>2. Is(Msg("PATH", p, list), "PATH")
    BY <1>3, <2>1, UsualIs
  <2> QED BY <2>2 DEF list
<1>11. Is(Msg("RESV", ResvDelete, resv \o << "ADMIN_STATUS" >>), "RESV")
  <2> DEFINE list == resv \o << "ADMIN_STATUS" >>
  <2>1. list \in Seq(Usual)
    BY <1>5, LastUsual
  <2> HIDE DEF list
  <2>2. Is(Msg("RESV", ResvDelete, list), "RESV")
    BY <2>1, ResvDeleteFit, UsualIs
  <2> QED BY <2>2 DEF list
<1>12. Delivered
  BY <1>1, <1>9, <1>10, <1>11, OneSent
<1> QED BY <1>1, <1>3, <1>12, ResvDeleteFit

LEMMA DestroyLocallyGives ==
  ASSUME message_id \in Int, Fit(configuration), DestroyLocally
  PROVE  Delivered /\ UNCHANGED << configuration, path_configuration >>
<1> DEFINE r == RemoveParam(DeleteConf, "REFRESH_PERIOD")
           a == << "SESSION_IETF", "IPV4_RSVP_HOP", "SENDER_TEMPLATE",
                   "TOKEN_SENDER_TSPEC" >>
           resv == adding_resv_objects(path_configuration, r)
<1>1. /\ \/ Sends(<< Msg("PATHTEAR", DeleteConf, a) >>, {})
         \/ Sends(<< Msg("RESVTEAR", r, resv) >>, {})
      /\ UNCHANGED << configuration, path_configuration >>
  BY DEF DestroyLocally
<1>2. a \in Seq(Usual)
  BY DEF Usual
<1>3. resv \in Seq(Usual)
  BY ResvUsual
<1>4. Fit(DeleteConf) /\ Fit(r)
  BY DeleteConfFit
<1> HIDE DEF r, a, resv
<1>5. Is(Msg("PATHTEAR", DeleteConf, a), "PATHTEAR") /\ Is(Msg("RESVTEAR", r, resv), "RESVTEAR")
  BY <1>2, <1>3, <1>4, UsualIs
<1>6. Delivered
  BY <1>1, <1>5, OneSent
<1> QED BY <1>1, <1>6

(* What the PATH of a store is does not depend on the flags of ADMIN_STATUS. *)
LEMMA PathWireUnflagged ==
  ASSUME IETF, NEW c, NEW d, ButFlags(d, c), Fit(c), Fit(d)
  PROVE  PathWire(d) = PathWire(c) /\ \A p \in Kinded : d.data[p] = c.data[p]
<1>1. \A p \in Kinded : d.data[p] = c.data[p]
  <2>1. Kinded \subseteq Unflagged
    BY DEF Kinded, Unflagged, Parameters, PT_UC, PT_UI, PT_VS
  <2> QED BY <2>1 DEF ButFlags
<1> DEFINE list(e) == adding_create_path_objects(e, e)
<1>2. list(d) = list(c) /\ list(d) \in Seq(PathKinds)
  <2>1. list(d) \in Seq(PathKinds) /\ list(d) = adding_create_path_objects(d, c)
    BY CreateUnflagged
  <2>2. adding_create_path_objects(d, c) = list(c)
    BY <1>1, SameCreate DEF Fit
  <2> QED BY <2>1, <2>2
<1>3. \A e : PathWire(e) = WireFrom(e, list(e))
  BY DEF PathWire, Msg, MsgOf, WireFrom
<1> HIDE DEF list
<1>4. WireFrom(d, list(d)) = WireFrom(c, list(d))
  BY <1>2, UnflaggedWire
<1> QED BY <1>1, <1>2, <1>3, <1>4

LEMMA LabelledResv ==
  ASSUME NEW r, Fit(r), NEW v, r.data["LABEL"] = << v >>, r.void_size["LABEL"] = 4,
         NEW list \in Seq(Usual), Occurs("GENERALIZED_LABEL", list), Len(list) < MAX_OBJECTS
  PROVE  parse_data(Msg("RESV", r, list).wire).data["LABEL"] = << v >>
<1>1. MessageFit(r, list)
  <2>1. Usual \subseteq Added /\ "ETHERNET_FLOWSPEC" \notin Usual
    BY DEF Added, Usual
  <2>2. list \in Seq(Added) /\ \A k \in DOMAIN list : list[k] \in Usual
    BY <2>1, SequenceIn
  <2>3. ~ Occurs("ETHERNET_FLOWSPEC", list)
    BY <2>1, <2>2 DEF Occurs
  <2> QED BY <2>2, <2>3 DEF MessageFit
<1>2. parse_data(WireFrom(r, list)).data["LABEL"] = << v >>
  BY <1>1, WireLabel
<1> QED BY <1>2 DEF Msg, MsgOf, WireFrom

(* The RESV that asks the sender to delete gives the label of the path. *)
LEMMA ResvDeleteLabel ==
  ASSUME IInv, NEW m,
         m = Msg("RESV", ResvDelete,
                 adding_resv_objects(path_configuration, ResvDelete) \o << "ADMIN_STATUS" >>)
  PROVE  m.mtype = "RESV" /\ parse_data(m.wire).data["LABEL"] = << - label >>
<1>1. PICK raw, r : raw = - label /\ r = ResvDelete
  OBVIOUS
<1>2. Fit(r) /\ r.data["LABEL"] = << raw >> /\ r.void_size["LABEL"] = 4
  <2> DEFINE d == SetAdd(configuration, "ADMIN_STATUS_RTAD_FLAGS", "UC", 9)
  <2>1. Fit(d)
    BY StoresFit, FlagFit
  <2>2. r = SetLabel(d, raw)
    BY <1>1 DEF ResvDelete
  <2> HIDE DEF d
  <2> QED BY <2>1, <2>2, LabelSet
<1> DEFINE a == adding_resv_objects(path_configuration, r)
           b == << "ADMIN_STATUS" >>
           list == a \o b
<1>3. a \in Seq(Usual) /\ Len(a) <= 11 /\ Occurs("GENERALIZED_LABEL", a)
  BY ResvUsual, ResvParts DEF HasHopAndLabel
<1>4. b \in Seq(Usual) /\ Len(b) = 1
  BY DEF Usual
<1>5. m = Msg("RESV", r, list)
  BY <1>1
<1> HIDE DEF a, b
<1>6. /\ list \in Seq(Usual) /\ Len(list) = Len(a) + Len(b)
      /\ \A j \in 1..Len(a) : j \in 1..Len(list) /\ list[j] = a[j]
  BY <1>3, <1>4, Joined
<1> HIDE DEF list
<1>7. Occurs("GENERALIZED_LABEL", list)
  <2>1. DOMAIN a = 1..Len(a) /\ DOMAIN list = 1..Len(list)
    BY <1>3, <1>6
  <2> QED BY <1>3, <1>6, <2>1 DEF Occurs
<1>8. Len(list) < MAX_OBJECTS
  BY <1>3, <1>4, <1>6 DEF MAX_OBJECTS
<1>9. parse_data(m.wire).data["LABEL"] = << raw >>
  BY <1>2, <1>5, <1>6, <1>7, <1>8, LabelledResv
<1>10. m.mtype = "RESV"
  BY <1>5 DEF Msg, MsgOf
<1> QED BY <1>1, <1>9, <1>10

(* With the flags the path stays what it is, and so does its PATH. *)
LEMMA DestroyByFlagsStays ==
  ASSUME IInv, DestroyByFlags, direction # "undefined",
         UNCHANGED << proto, translator, direction, seen, first, phase, label >>
  PROVE  FirstIsPath' /\ LabelProposed' /\ LabelAgreed'
<1>1. LabelProposed'
  BY DEF IInv, LabelProposed
<1>2. CASE direction = "outgoing"
  <2> DEFINE p == SetAdd(path_configuration, "ADMIN_STATUS_RTAD_FLAGS", "UC", 9)
  <2>1. /\ \/ UNCHANGED << configuration, path_configuration >>
           \/ IETF /\ path_configuration' = p /\ UNCHANGED configuration
        /\ \E c, list : Sends(<< Msg("PATH", c, list) >>, {})
    BY <1>2 DEF DestroyByFlags
  <2>2. PICK m : Sends(<< m >>, {}) /\ m.mtype = "PATH"
    BY <2>1 DEF Msg, MsgOf
  <2>3. Alone(sent', m)
    BY <2>2 DEF Sends, Alone, ToSet
  <2>4. LabelAgreed'
    BY <2>2, <2>3, NothingToAgree
  <2>5. CASE UNCHANGED << configuration, path_configuration >>
    <3>1. PathWire(path_configuration)' = PathWire(path_configuration)
      BY <2>5, PathWireSame
    <3>2. FirstIsPath'
      BY <2>5, <3>1 DEF IInv, FirstIsPath
    <3> QED BY <1>1, <2>4, <3>2
  <2>6. CASE IETF /\ path_configuration' = p /\ UNCHANGED configuration
    <3>1. ButFlags(p, path_configuration)
      BY FlagsButFlags
    <3>2. Fit(p) /\ Fit(path_configuration)
      BY StoresFit, FlagFit
    <3> HIDE DEF p
    <3>3. /\ PathWire(p) = PathWire(path_configuration)
          /\ \A q \in Kinded : p.data[q] = path_configuration.data[q]
      BY <2>6, <3>1, <3>2, PathWireUnflagged
    <3>4. PathWire(path_configuration)' = PathWire(p)
      BY <2>6 DEF PathWire, adding_create_path_objects, CallId, IETF
    <3>5. FirstIsPath'
      BY <2>6, <3>3, <3>4 DEF IInv, FirstIsPath
    <3> QED BY <1>1, <2>4, <3>5
  <2> QED BY <2>1, <2>5, <2>6
<1>3. CASE direction = "incoming"
  <2>1. FirstIsPath'
    BY <1>3 DEF FirstIsPath
  <2>2. PICK m : /\ m = Msg("RESV", ResvDelete,
                             adding_resv_objects(path_configuration, ResvDelete)
                             \o << "ADMIN_STATUS" >>)
                 /\ Sends(<< m >>, {})
    BY <1>3 DEF DestroyByFlags
  <2>3. parse_data(m.wire).data["LABEL"] = << - label >>
    BY <2>2, ResvDeleteLabel
  <2>4. Alone(sent', m)
    BY <2>2 DEF Sends, Alone, ToSet
  <2>5. LabelGiven
    BY <2>3, <2>4 DEF LabelGiven
  <2>6. LabelAgreed'
    <3>1. CASE phase' = "up"
      <4>1. IsPresent(seen', "UPSTREAM_LABEL") => label' = Read(seen', "UPSTREAM_LABEL")
        BY <1>3, <3>1 DEF IInv, LabelProposed
      <4> QED BY <2>5, <4>1, LabelNow
    <3>2. CASE phase' # "up"
      BY <3>2, NotUp
    <3> QED BY <3>1, <3>2
  <2> QED BY <1>1, <2>1, <2>6
<1> QED BY <1>2, <1>3 DEF IInv, Bounded

LEMMA DestroyStep ==
  ASSUME IInv, DestroyPath
  PROVE  IInv'
<1>1. /\ direction # "undefined" /\ message_id <= MaxMessageId
      /\ \/ DestroyByFlags /\ UNCHANGED << phase, label >>
         \/ DestroyLocally /\ phase' = "down"
      /\ UNCHANGED << proto, translator, direction, pending, request, seen, first, got, reported >>
  BY DEF DestroyPath
<1>2. Delivered /\ Fit(configuration') /\ Fit(path_configuration')
  BY <1>1, StoresFit, DestroyByFlagsGives, DestroyLocallyGives
<1>3. phase # "null"
  BY <1>1 DEF IInv, Started
<1>4. Onward
  BY <1>1, <1>3 DEF Onward
<1>5. FirstIsPath' /\ LabelProposed' /\ LabelAgreed'
  <2>1. CASE DestroyByFlags /\ UNCHANGED << phase, label >>
    BY <1>1, <2>1, DestroyByFlagsStays
  <2>2. CASE phase' = "down"
    BY <2>2, NotUp DEF FirstIsPath
  <2> QED BY <1>1, <2>1, <2>2
<1>6. Fit(got')
  BY <1>1, StoresFit
<1> QED BY <1>2, <1>4, <1>5, <1>6, GoingOn

-----------------------------------------------------------------------------
(* The configuration of a request.                                         *)

NoStyle == Parameters \ StyleFlags

RowFit(row) ==
  /\ row.par \in NoStyle /\ row.type \in Types
  /\ row.type = "CS" => row.id = 12
  /\ row.id = 23 => row.par = "TUNNEL_ID" /\ row.type = "US"

LEMMA RowsFit ==
  /\ DOMAIN Table = 1..38
  /\ \A k \in 1..13 : RowFit(Table[k]) /\ Table[k].id = k
  /\ \A k \in 14..18 : RowFit(Table[k]) /\ Table[k].id = k + 2
  /\ \A k \in 19..38 : RowFit(Table[k]) /\ Table[k].id = k + 4
<1>1. DOMAIN Table = 1..38
  BY DEF Table
<1> DEFINE Pars == {"SESSION_DEST_ADDR", "EXTENDED_IPV4_ADDR", "CONTROL_OUT_IF_ADDR",
              "REFRESH_PERIOD", "TOKEN_BUCKET_RATE", "TOKEN_BUCKET_SIZE", "PEAK_DATA_RATE",
              "UPSTREAM_LABEL", "LSP_ENC_TYPE", "LSP_SWITCHING_TYPE", "LSP_GPID",
              "SESSION_NAME", "ERO", "RSVP_HOP_TLVS", "ERROR_NODE_ADDR", "ERROR_FLAGS",
              "ERROR_CODE", "ERROR_VALUE", "TUNNEL_ID", "TR_D_ADDR", "TR_RD_ADDR",
              "CONTROL_OUT_IF_HANDLE", "TNA_SRC_ADDR", "TNA_DST_ADDR", "CALL_ID_LOCAL_ID1",
              "CALL_ID_LOCAL_ID2", "SENDER_SRC_ID", "SETUP_PRIORITY", "HOLDING_PRIORITY",
              "PATH_STATUS", "SERVICE_LEVEL", "ETHERNET_CIR", "ETHERNET_CBS", "ETHERNET_EIR",
              "ETHERNET_EBS", "ETHERNET_SW_GRANUALITY", "ETHERNET_INDEX", "ETHERNET_PROFILE"}
<1>2. Pars \subseteq NoStyle
  BY DEF NoStyle, Parameters, StyleFlags, PT_UC, PT_US, PT_UI, PT_F, PT_CS, PT_VS
<1>3. \A k \in 1..13 : Table[k].par \in Pars /\ Table[k].type \in Types /\ Table[k].id = k
        /\ (Table[k].type = "CS" => k = 12)
  BY DEF Table, Row, Types
<1>4. \A k \in 14..18 : Table[k].par \in Pars /\ Table[k].type \in Types /\ Table[k].id = k + 2
        /\ Table[k].type # "CS"
  BY DEF Table, Row, Types
<1>5. \A k \in 19..38 : Table[k].par \in Pars /\ Table[k].type \in Types /\ Table[k].id = k + 4
        /\ Table[k].type # "CS"
  BY DEF Table, Row, Types
<1>6. Table[19].par = "TUNNEL_ID" /\ Table[19].type = "US"
  BY DEF Table, Row
<1> HIDE DEF Pars
<1>7. \A k \in 1..13 : RowFit(Table[k])
  BY <1>2, <1>3 DEF RowFit
<1>8. \A k \in 14..18 : RowFit(Table[k])
  BY <1>2, <1>4 DEF RowFit
<1>9. ASSUME NEW k \in 19..38 PROVE RowFit(Table[k])
  <2>1. Table[k].id = 23 => k = 19
    BY <1>5
  <2> QED BY <1>2, <1>5, <1>6, <2>1 DEF RowFit
<1> QED BY <1>1, <1>3, <1>4, <1>5, <1>7, <1>8, <1>9

(* The row of an object in the table of a message, by its number. *)
RowOf(id) == Table[SelectInSeq(Table, LAMBDA row : row.id = id)]

(* No object has one row only: a route and the part of an answer.          *)
Rowless == {13, 14, 15, 21, 22}

LEMMA Lookup ==
  ASSUME NEW id \in 1..42, id \notin Rowless
  PROVE  RowFit(RowOf(id)) /\ RowOf(id).id = id
<1> DEFINE P == {i \in 1..Len(Table) : Table[i].id = id}
<1>1. RowOf(id) = Table[IF P # {} THEN Min(P) ELSE 0]
  BY DEF RowOf, SelectInSeq
<1>2. Len(Table) = 38
  BY DEF Table
<1>3. \E i \in 1..38 : Table[i].id = id
  <2>1. CASE id \in 1..13
    BY <2>1, RowsFit
  <2>2. CASE id \in 16..20
    <3>1. id - 2 \in 14..18 /\ (id - 2) + 2 = id
      BY <2>2
    <3> QED BY <3>1, RowsFit
  <2>3. CASE id \in 23..42
    <3>1. id - 4 \in 19..38 /\ (id - 4) + 4 = id
      BY <2>3
    <3> QED BY <3>1, RowsFit
  <2> QED BY <2>1, <2>2, <2>3 DEF Rowless
<1>4. P # {} /\ P \in SUBSET (1..38)
  BY <1>2, <1>3
<1>5. Min(P) \in P
  <2> HIDE DEF P
  <2>1. 38 \in Nat
    OBVIOUS
  <2> QED BY <1>4, <2>1, LeastPosition
<1>6. \A i \in 1..38 : RowFit(Table[i])
  BY RowsFit
<1>7. RowOf(id) = Table[Min(P)]
  <2> HIDE DEF P
  <2> QED BY <1>1, <1>4
<1>8. PICK m : m = Min(P) /\ m \in P
  <2> HIDE DEF P
  <2> QED BY <1>5
<1>9. m \in 1..38 /\ Table[m].id = id
  BY <1>2, <1>8
<1> HIDE DEF P
<1> QED BY <1>6, <1>7, <1>8, <1>9

LEMMA TypeOf ==
  ASSUME NEW id \in 1..42
  PROVE  /\ DataType(id) \in Types /\ (DataType(id) = "CS" => id = 12)
         /\ id = 23 => DataType(id) = "US"
<1>1. CASE id \in {21, 22}
  BY <1>1 DEF DataType, MultiPart, Types
<1>2. CASE id \in {13, 14, 15}
  BY <1>2 DEF DataType, Types
<1>3. CASE id \notin Rowless
  <2>1. DataType(id) = RowOf(id).type
    BY <1>3 DEF DataType, Rowless, RowOf
  <2> QED BY <1>3, <2>1, Lookup DEF RowFit
<1> QED BY <1>1, <1>2, <1>3 DEF Rowless

LEMMA NamesOf ==
  ASSUME NEW id \in 1..42
  PROVE  /\ AddedAs(id) \in Seq(NoStyle)
         /\ id = 23 => AddedAs(id) = << "TUNNEL_ID" >>
<1>1. CASE id = 3
  <2> DEFINE names == << "CONTROL_OUT_IF_ADDR", "DATA_IN_IF_ADDR", "DATA_OUT_IF_ADDR" >>
  <2>1. AddedAs(id) = names
    BY <1>1 DEF AddedAs
  <2>2. {"CONTROL_OUT_IF_ADDR", "DATA_IN_IF_ADDR", "DATA_OUT_IF_ADDR"} \subseteq NoStyle
    BY DEF NoStyle, Parameters, StyleFlags, PT_UI
  <2>3. names \in Seq(NoStyle)
    BY <2>2
  <2> HIDE DEF names
  <2> QED BY <1>1, <2>1, <2>3
<1>2. CASE id = 26
  <2> DEFINE names == << "CONTROL_OUT_IF_HANDLE", "DATA_OUT_IF_HANDLE", "DATA_IN_IF_HANDLE" >>
  <2>1. AddedAs(id) = names
    BY <1>2 DEF AddedAs
  <2>2. {"CONTROL_OUT_IF_HANDLE", "DATA_OUT_IF_HANDLE", "DATA_IN_IF_HANDLE"} \subseteq NoStyle
    BY DEF NoStyle, Parameters, StyleFlags, PT_UI
  <2>3. names \in Seq(NoStyle)
    BY <2>2
  <2> HIDE DEF names
  <2> QED BY <1>2, <2>1, <2>3
<1>3. CASE id = 27
  <2> DEFINE names == << "TNA_SRC_ADDR", "CALL_ID_SRC_TN_ADDR" >>
  <2>1. AddedAs(id) = names
    BY <1>3 DEF AddedAs
  <2>2. {"TNA_SRC_ADDR", "CALL_ID_SRC_TN_ADDR"} \subseteq NoStyle
    BY DEF NoStyle, Parameters, StyleFlags, PT_UI
  <2>3. names \in Seq(NoStyle)
    BY <2>2
  <2> HIDE DEF names
  <2> QED BY <1>3, <2>1, <2>3
<1>4. CASE id \in Rowless
  <2>1. AddedAs(id) = << >>
    BY <1>4 DEF AddedAs, Rowless
  <2>2. << >> \in Seq(NoStyle)
    OBVIOUS
  <2> QED BY <1>4, <2>1, <2>2 DEF Rowless
<1>5. CASE id \notin Rowless \cup {3, 26, 27}
  <2>1. AddedAs(id) = << RowOf(id).par >>
    BY <1>5 DEF AddedAs, Rowless, RowOf
  <2>2. RowFit(RowOf(id)) /\ RowOf(id).id = id
    BY <1>5, Lookup
  <2>3. RowOf(id).par \in NoStyle /\ (id = 23 => RowOf(id).par = "TUNNEL_ID")
    BY <2>2 DEF RowFit
  <2> QED BY <2>1, <2>3
<1> QED BY <1>1, <1>2, <1>3, <1>4, <1>5

(* The objects of a request's message, and the calls of add they become.   *)
ClientObjects(r) ==
  LET used == Ascending(DOMAIN r \cap 1..42)
  IN  [k \in DOMAIN used |-> Object(used[k], DataType(used[k]), r[used[k]])]

AskedObjects(V) ==
  {o \in [id : 1..42, type : Types, val : V] : /\ o.type = "CS" => o.val \in Int
                                               /\ o.id = 23 => o.type = "US"}

CallsOfObject(o) ==
  [k \in DOMAIN AddedAs(o.id) |-> Call(AddedAs(o.id)[k], o.type, o.val, 0)]
NamedCalls(objects) == FlattenSeq([k \in DOMAIN objects |-> CallsOfObject(objects[k])])
RouteCalls(objects) ==
  [n \in DOMAIN RouteOf(objects) |-> Call("ERO", "VS", RouteOf(objects)[n], 8)]

LEMMA ClientObjectsIn ==
  ASSUME NEW r \in Requests, NEW V, \A i \in DOMAIN r : r[i] \in V
  PROVE  /\ ClientObjects(r) \in Seq(AskedObjects(V)) /\ Len(ClientObjects(r)) <= 42
         /\ \E k \in DOMAIN ClientObjects(r) : ClientObjects(r)[k].id = 23
<1> DEFINE S == DOMAIN r \cap 1..42
           used == Ascending(S)
<1>1. S \in SUBSET (1..42) /\ 23 \in S /\ 42 \in Nat
  BY RequestsAssumption
<1>2. /\ used \in Seq(S) /\ Len(used) = Cardinality(S) /\ Cardinality(S) \in 0..42
      /\ \E i \in 1..Len(used) : used[i] = 23
  <2> HIDE DEF S
  <2>1. used \in Seq(S) /\ Len(used) = Cardinality(S) /\ Cardinality(S) \in 0..42
    BY <1>1, AscendingOf
  <2>2. \E i \in 1..Cardinality(S) : used[i] = 23
    BY <1>1, AscendingOf
  <2> HIDE DEF used
  <2> QED BY <2>1, <2>2
<1>3. \A i \in S : Object(i, DataType(i), r[i]) \in AskedObjects(V)
  <2> TAKE i \in S
  <2>1. i \in DOMAIN r /\ i \in 1..42 /\ r[i] \in V
    OBVIOUS
  <2>2. DataType(i) \in Types /\ (DataType(i) = "CS" => i = 12)
        /\ (i = 23 => DataType(i) = "US")
    BY <2>1, TypeOf
  <2>3. i = 12 => r[i] \in Int
    BY <2>1, RequestsAssumption
  <2> QED BY <2>1, <2>2, <2>3 DEF Object, AskedObjects
<1> DEFINE f == [k \in DOMAIN used |-> Object(used[k], DataType(used[k]), r[used[k]])]
<1>4. ClientObjects(r) = f
  BY DEF ClientObjects
<1> HIDE DEF S
<1>5. DOMAIN used = 1..Len(used) /\ Len(used) \in 0..42 /\ \A k \in DOMAIN used : used[k] \in S
  BY <1>2 DEF used
<1> HIDE DEF used
<1>6. \A k \in 1..Len(used) : f[k] \in AskedObjects(V) /\ f[k].id = used[k]
  BY <1>3, <1>5 DEF Object
<1>7. f \in Seq(AskedObjects(V)) /\ Len(f) = Len(used) /\ DOMAIN f = 1..Len(used)
  <2>1. f \in [1..Len(used) -> AskedObjects(V)]
    BY <1>5, <1>6
  <2>2. Len(used) \in Nat
    BY <1>5
  <2> HIDE DEF f
  <2> QED BY <2>1, <2>2
<1>8. \E k \in 1..Len(used) : used[k] = 23
  BY <1>2
<1> HIDE DEF f
<1>9. \E k \in DOMAIN f : f[k].id = 23
  BY <1>6, <1>7, <1>8
<1>10. Len(used) <= 42
  <2>1. Len(used) = Cardinality(S)
    BY <1>2
  <2>2. Cardinality(S) <= 42
    <3>1. Cardinality(S) \in 0..42
      BY <1>2
    <3>2. \A m \in 0..42 : m <= 42
      OBVIOUS
    <3> QED BY <3>1, <3>2, Zenon
  <2> QED BY <2>1, <2>2, Zenon
<1>11. Len(f) <= 42
  <2>1. Len(f) = Len(used)
    BY <1>7
  <2> QED BY <1>10, <2>1, Zenon
<1> QED BY <1>4, <1>7, <1>9, <1>11

LEMMA AskedAs ==
  ASSUME NEW r \in Requests, NEW objs, objs = ClientObjects(r)
  PROVE  Asked(r) = AddEach(Empty, NamedCalls(objs) \o RouteCalls(objs))
<1> DEFINE V == {r[i] : i \in DOMAIN r}
<1>1. objs \in Seq(AskedObjects(V)) /\ Len(objs) <= 42
  <2>1. \A i \in DOMAIN r : r[i] \in V
    OBVIOUS
  <2> HIDE DEF V
  <2> QED BY <2>1, ClientObjectsIn
<1>2. Len(objs) % 256 = Len(objs)
  BY <1>1
<1>3. SubSeq(objs, 1, Len(objs)) = objs
  BY <1>1
<1> DEFINE message == client_packet(r, 1, "REQ", "CREATE")
<1>4. message.objects = objs /\ message.count = Len(objs)
  BY <1>2 DEF client_packet, Message, ClientObjects
<1> HIDE DEF message
<1>5. parse(message) = AddEach(Empty, NamedCalls(objs) \o RouteCalls(objs))
  BY <1>3, <1>4 DEF parse, NamedCalls, RouteCalls, CallsOfObject
<1> QED BY <1>5 DEF Asked, message

LEMMA CallsOfObjectIn ==
  ASSUME NEW V, NEW o \in AskedObjects(V)
  PROVE  /\ CallsOfObject(o) \in Seq(AddCalls(V, NoStyle))
         /\ o.id = 23 => /\ Len(CallsOfObject(o)) = 1
                         /\ CallsOfObject(o)[1].par = "TUNNEL_ID" /\ CallsOfObject(o)[1].type = "US"
<1>1. o.id \in 1..42 /\ o.type \in Types /\ o.val \in V /\ (o.type = "CS" => o.val \in Int)
      /\ (o.id = 23 => o.type = "US")
  BY DEF AskedObjects
<1> DEFINE names == AddedAs(o.id)
<1>2. names \in Seq(NoStyle) /\ (o.id = 23 => names = << "TUNNEL_ID" >>)
  BY <1>1, NamesOf
<1> DEFINE f == [k \in DOMAIN names |-> Call(names[k], o.type, o.val, 0)]
<1>3. CallsOfObject(o) = f
  BY DEF CallsOfObject
<1> HIDE DEF names
<1>4. \A p \in NoStyle : Call(p, o.type, o.val, 0) \in AddCalls(V, NoStyle)
                         /\ Call(p, o.type, o.val, 0).par = p
                         /\ Call(p, o.type, o.val, 0).type = o.type
  BY <1>1 DEF AddCalls, Call
<1>5. DOMAIN names = 1..Len(names) /\ Len(names) \in Nat /\ \A k \in 1..Len(names) : names[k] \in NoStyle
  BY <1>2
<1>6. f \in Seq(AddCalls(V, NoStyle)) /\ Len(f) = Len(names)
  BY <1>4, <1>5
<1>7. o.id = 23 => Len(names) = 1 /\ names[1] = "TUNNEL_ID"
  BY <1>2
<1>8. o.id = 23 => f[1].par = "TUNNEL_ID" /\ f[1].type = "US"
  <2> DEFINE call == Call(names[1], o.type, o.val, 0)
  <2>1. o.id = 23 => f[1] = call /\ call.par = names[1] /\ call.type = o.type
    BY <1>4, <1>5, <1>7
  <2> HIDE DEF f, call
  <2> QED BY <1>1, <1>7, <2>1
<1> HIDE DEF f
<1> QED BY <1>3, <1>6, <1>7, <1>8

LEMMA RoutePart ==
  ASSUME NEW V, NEW objs \in Seq(V), NEW id
  PROVE  Len(Ascending(Entries(objs, id))) \in Nat
<1>1. Len(objs) \in Nat /\ Entries(objs, id) \in SUBSET (1..Len(objs))
  BY DEF Entries
<1>2. /\ Len(Ascending(Entries(objs, id))) = Cardinality(Entries(objs, id))
      /\ Cardinality(Entries(objs, id)) \in 0..Len(objs)
  <2> DEFINE S == Entries(objs, id)
             N == Len(objs)
  <2>1. N \in Nat /\ S \in SUBSET (1..N)
    BY <1>1
  <2> HIDE DEF S, N
  <2>2. Len(Ascending(S)) = Cardinality(S) /\ Cardinality(S) \in 0..N
    BY <2>1, AscendingOf
  <2> QED BY <2>2 DEF S, N
<1> QED BY <1>1, <1>2

LEMMA RouteLength ==
  ASSUME NEW V, NEW objs \in Seq(V)
  PROVE  \E n \in Nat : DOMAIN RouteOf(objs) = 1..n
<1> DEFINE a == Len(Ascending(Entries(objs, 13)))
           b == Len(Ascending(Entries(objs, 14)))
           d == Len(Ascending(Entries(objs, 15)))
<1>1. a \in Nat /\ b \in Nat /\ d \in Nat
  BY RoutePart
<1>2. DOMAIN RouteOf(objs) = 1..Min({a, b, d})
  BY DEF RouteOf, Entries
<1> HIDE DEF a, b, d
<1>3. \E n \in {a, b, d} : \A m \in {a, b, d} : n <= m
  BY <1>1
<1>4. Min({a, b, d}) \in {a, b, d}
  BY <1>3 DEF Min
<1> QED BY <1>1, <1>2, <1>4

LEMMA RouteCallsIn ==
  ASSUME NEW V, NEW objs \in Seq(V), NEW W, \A n \in DOMAIN RouteOf(objs) : RouteOf(objs)[n] \in W
  PROVE  RouteCalls(objs) \in Seq(AddCalls(W, NoStyle))
<1> DEFINE route == RouteOf(objs)
<1>1. PICK n \in Nat : DOMAIN route = 1..n
  BY RouteLength
<1>2. "ERO" \in NoStyle
  BY DEF NoStyle, Parameters, StyleFlags, PT_VS
<1>3. ASSUME NEW v \in W PROVE Call("ERO", "VS", v, 8) \in AddCalls(W, NoStyle)
  BY <1>2 DEF AddCalls, Call, Types
<1>4. RouteCalls(objs) = [k \in 1..n |-> Call("ERO", "VS", route[k], 8)]
  BY <1>1 DEF RouteCalls
<1>5. \A k \in 1..n : route[k] \in W
  BY <1>1
<1> HIDE DEF route
<1>6. RouteCalls(objs) \in [1..n -> AddCalls(W, NoStyle)]
  BY <1>3, <1>4, <1>5
<1> QED BY <1>6

LEMMA NamedCallsIn ==
  ASSUME NEW V, NEW objs \in Seq(AskedObjects(V))
  PROVE  /\ NamedCalls(objs) \in Seq(AddCalls(V, NoStyle))
         /\ \A k \in DOMAIN objs : objs[k].id = 23 =>
              \E j \in DOMAIN NamedCalls(objs) : /\ NamedCalls(objs)[j].par = "TUNNEL_ID"
                                                 /\ NamedCalls(objs)[j].type = "US"
<1> DEFINE A == AddCalls(V, NoStyle)
           n == Len(objs)
           seqs == [k \in 1..n |-> CallsOfObject(objs[k])]
<1>1. n \in Nat /\ DOMAIN objs = 1..n /\ \A k \in 1..n : objs[k] \in AskedObjects(V)
  BY SequenceIn
<1>2. NamedCalls(objs) = FlattenSeq(seqs)
  BY <1>1 DEF NamedCalls
<1>3. \A k \in 1..n :
        /\ CallsOfObject(objs[k]) \in Seq(A)
        /\ objs[k].id = 23 => /\ Len(CallsOfObject(objs[k])) = 1
                              /\ CallsOfObject(objs[k])[1].par = "TUNNEL_ID"
                              /\ CallsOfObject(objs[k])[1].type = "US"
  BY <1>1, CallsOfObjectIn
<1> HIDE DEF A, n
<1>4. seqs \in [1..n -> Seq(A)]
  BY <1>3
<1>5. seqs \in Seq(Seq(A)) /\ Len(seqs) = n
  <2> HIDE DEF seqs
  <2> QED BY <1>1, <1>4
<1>6. \A k \in 1..n : seqs[k] = CallsOfObject(objs[k])
  OBVIOUS
<1> HIDE DEF seqs
<1> DEFINE flat == FlattenSeq(seqs)
<1>7. /\ flat \in Seq(A)
      /\ \A k \in 1..Len(seqs) : \A i \in 1..Len(seqs[k]) :
           \E j \in 1..Len(flat) : flat[j] = seqs[k][i]
  BY <1>5, FlattenSeqOf
<1> HIDE DEF flat
<1>8. ASSUME NEW k \in 1..n, objs[k].id = 23
      PROVE  \E j \in DOMAIN flat : flat[j].par = "TUNNEL_ID" /\ flat[j].type = "US"
  <2>1. /\ k \in 1..Len(seqs) /\ Len(seqs[k]) = 1
        /\ seqs[k][1].par = "TUNNEL_ID" /\ seqs[k][1].type = "US"
    BY <1>3, <1>5, <1>6, <1>8
  <2>2. 1 \in 1..Len(seqs[k])
    BY <2>1
  <2>3. PICK j \in 1..Len(flat) : flat[j] = seqs[k][1]
    BY <1>7, <2>1, <2>2
  <2>4. DOMAIN flat = 1..Len(flat)
    BY <1>7
  <2> QED BY <2>1, <2>3, <2>4
<1>9. NamedCalls(objs) = flat
  BY <1>2 DEF flat
<1> QED BY <1>1, <1>7, <1>8, <1>9 DEF A

(* What the agent makes of a request (parse) fits, and has the tunnel.     *)
LEMMA AskedFit ==
  ASSUME NEW r \in Requests
  PROVE  Fit(Asked(r)) /\ Asked(r).data["TUNNEL_ID"] # << >>
<1> DEFINE objs == ClientObjects(r)
           V == {r[i] : i \in DOMAIN r}
           W == {RouteOf(objs)[n] : n \in DOMAIN RouteOf(objs)}
           X == V \cup W
<1>1. /\ objs \in Seq(AskedObjects(X))
      /\ \E k \in DOMAIN objs : objs[k].id = 23
  <2>1. \A i \in DOMAIN r : r[i] \in X
    OBVIOUS
  <2> HIDE DEF X
  <2> QED BY <2>1, ClientObjectsIn
<1>2. \A n \in DOMAIN RouteOf(objs) : RouteOf(objs)[n] \in X
  OBVIOUS
<1>3. Asked(r) = AddEach(Empty, NamedCalls(objs) \o RouteCalls(objs))
  BY AskedAs
<1> HIDE DEF objs, X
<1> DEFINE A == AddCalls(X, NoStyle)
           a == NamedCalls(objs)
           b == RouteCalls(objs)
           calls == a \o b
<1>4. a \in Seq(A) /\ \E j \in DOMAIN a : a[j].par = "TUNNEL_ID" /\ a[j].type = "US"
  BY <1>1, NamedCallsIn
<1>5. b \in Seq(A)
  BY <1>1, <1>2, RouteCallsIn
<1> HIDE DEF A, a, b
<1>6. /\ calls \in Seq(A)
      /\ \A j \in 1..Len(a) : j \in 1..Len(calls) /\ calls[j] = a[j]
  BY <1>4, <1>5, Joined
<1>7. DOMAIN a = 1..Len(a)
  BY <1>4
<1> HIDE DEF calls
<1>8. \E j \in 1..Len(calls) : calls[j].par = "TUNNEL_ID" /\ calls[j].type = "US"
  BY <1>4, <1>6, <1>7
<1>9. \A k \in 1..Len(calls) : calls[k].par \in NoStyle
  <2>1. \A x \in A : x.par \in NoStyle
    BY DEF A, AddCalls
  <2>2. \A k \in 1..Len(calls) : calls[k] \in A
    BY <1>6
  <2> QED BY <2>1, <2>2
<1>10. Empty \in StoresOver(X)
  <2>1. {} \subseteq X
    OBVIOUS
  <2> QED BY <2>1, EmptyHasNone, MoreValues
<1>11. calls \in Seq(AddCalls(X, NoStyle))
  BY <1>6 DEF A
<1> DEFINE e == AddEach(Empty, calls)
<1>12. Good(e)
  <2>1. e \in StoresOver(X)
    BY <1>10, <1>11, AddEachIn
  <2> HIDE DEF e
  <2> QED BY <2>1 DEF Good
<1>13. StyleFit(e)
  <2>1. ASSUME NEW p \in StyleFlags PROVE e.data[p] = << >>
    <3>1. p \in Parameters
      BY StyleParameters
    <3>2. \A k \in 1..Len(calls) : calls[k].par # p
      BY <1>9 DEF NoStyle
    <3>3. e.data[p] = Empty.data[p]
      BY <1>10, <1>11, <3>1, <3>2, AddEachHas
    <3> QED BY <3>1, <3>3 DEF Empty
  <2> HIDE DEF e
  <2> QED BY <2>1 DEF StyleFit
<1>14. e.data["TUNNEL_ID"] # << >>
  <2> PICK t : t = "TUNNEL_ID"
    OBVIOUS
  <2>1. t \in Parameters /\ HasType(t, "US") /\ t \notin PT_TAB
    BY DEF Parameters, HasType, PT_US, PT_TAB
  <2>2. PICK k \in 1..Len(calls) : calls[k].par = t /\ calls[k].type = "US"
    BY <1>8
  <2>3. calls[k].par = t /\ HasType(t, calls[k].type) /\ t \notin PT_TAB
    BY <2>1, <2>2
  <2>4. e.data[t] # << >>
    BY <1>10, <1>11, <2>1, <2>3, AddEachHas
  <2> QED BY <2>4
<1>15. Asked(r) = e
  BY <1>3 DEF calls, a, b
<1> QED BY <1>12, <1>13, <1>14, <1>15 DEF Fit

-----------------------------------------------------------------------------
(* The PATH of a request.                                                  *)

(* A store is completed, sent and kept.                                    *)
LEMMA CreateFits ==
  ASSUME NEW c, Fit(c)
  PROVE  /\ Fit(PathConf(c)) /\ Fit(Update(c, PathConf(c)))
         /\ \A p \in Kinded : Update(c, PathConf(c)).data[p] = PathConf(c).data[p]
<1> DEFINE d == PathConf(c)
<1>1. Fit(d) /\ \A p \in Kinded : c.data[p] # << >> => d.data[p] # << >>
  BY PathConfFit
<1> HIDE DEF d
<1>2. Fit(Update(c, d))
  BY <1>1, FitCopy
<1>3. ASSUME NEW p \in Kinded PROVE Update(c, d).data[p] = d.data[p]
  <2>1. p \in Parameters
    BY DEF Kinded, Parameters, PT_UC, PT_UI, PT_VS
  <2>2. Update(c, d).data[p] = IF d.data[p] # << >> THEN d.data[p] ELSE c.data[p]
    BY <1>1, <2>1, Copied DEF Fit
  <2> QED BY <1>1, <2>2
<1> QED BY <1>1, <1>2, <1>3 DEF d

LEMMA PathIs ==
  ASSUME NEW c, Fit(c)
  PROVE  Is(Msg("PATH", c, adding_create_path_objects(c, c)), "PATH")
BY CreateUsual, UsualIs

LEMMA CreateStep ==
  ASSUME IInv, NEW r \in Requests, CreatePath(r)
  PROVE  IInv'
<1> DEFINE c == AddMissing(Asked(r), set_conf_defaults)
           m == Msg("PATH", path_configuration',
                    adding_create_path_objects(path_configuration', path_configuration'))
<1>1. CreateFrom(c, Missing(Asked(r), {"TUNNEL_ID"}))
  BY DEF CreatePath
<1>2. Fit(Asked(r)) /\ Missing(Asked(r), {"TUNNEL_ID"}) = {}
  <2>1. Fit(Asked(r)) /\ Asked(r).data["TUNNEL_ID"] # << >>
    BY AskedFit
  <2> DEFINE e == Asked(r)
  <2> HIDE DEF e
  <2>2. "TUNNEL_ID" \in Parameters
    BY DEF Parameters, PT_US
  <2>3. IsPresent(e, "TUNNEL_ID")
    BY <2>1, <2>2, GoodPresent DEF Fit, e
  <2> QED BY <2>1, <2>3 DEF Missing, e
<1>3. Fit(c)
  BY <1>2, DefaultsFit, FitCopy
<1> HIDE DEF c
<1>4. /\ phase = "null" /\ phase' = "sent" /\ direction' = "outgoing"
      /\ path_configuration' = PathConf(c)
      /\ configuration' = Update(c, path_configuration')
      /\ Sends(<< m >>, {})
      /\ seen' = parse_data(m.wire) /\ first' = m.wire
      /\ UNCHANGED << proto, translator, label, pending, got, reported >>
  BY <1>1, <1>2 DEF CreateFrom, SendPath
<1>5. /\ Fit(path_configuration') /\ Fit(configuration')
      /\ \A p \in Kinded : configuration'.data[p] = path_configuration'.data[p]
  BY <1>3, <1>4, CreateFits
<1>6. Is(m, "PATH")
  <2> DEFINE d == path_configuration'
  <2>1. Fit(d)
    BY <1>5
  <2> HIDE DEF d
  <2>2. Is(Msg("PATH", d, adding_create_path_objects(d, d)), "PATH")
    BY <2>1, PathIs
  <2> QED BY <2>2 DEF d
<1>7. Delivered
  <2> HIDE DEF m
  <2> QED BY <1>4, <1>6, OneSent, StoresFit
<1>8. first' = PathWire(path_configuration)'
  BY <1>4 DEF PathWire, Msg, MsgOf, adding_create_path_objects, CallId, IETF
<1>9. ShapedWire(first') /\ Fit(seen')
  <2>1. ShapedWire(first')
    BY <1>4, <1>6 DEF Is, Sendable
  <2> QED BY <1>4, <2>1, ParsedFit
<1>10. FirstIsPath' /\ LabelProposed' /\ LabelAgreed'
  <2>1. phase' # "up"
    BY <1>4
  <2> QED BY <1>5, <1>8, <2>1, NotUp DEF FirstIsPath
<1> HIDE DEF m
<1>11. message_id = 1 /\ Bounded'
  <2>1. Started /\ Bounded
    BY DEF IInv
  <2>2. message_id = 1 /\ message_id' \in {1, 2} /\ MaxMessageId \in Nat
    BY <1>4, <1>7, <2>1 DEF Started, Delivered, Bounded
  <2> QED BY <1>4, <2>1, <2>2 DEF Bounded
<1>12. AllFit' /\ AllSent'
  <2>1. Fit(pending') /\ Fit(got')
    BY <1>4, StoresFit
  <2> QED BY <1>5, <1>7, <1>9, <2>1 DEF AllFit, Stored, AllSent, Delivered
<1>13. Started' /\ FirstSeen' /\ FromRouter' /\ AskedFirst'
  BY <1>4, <1>9 DEF Started, FirstSeen, FromRouter, AskedFirst
<1> QED BY <1>10, <1>11, <1>12, <1>13 DEF IInv

-----------------------------------------------------------------------------
(* The invariant, and what follows from it.                                *)

(* Constants are as assumed; the stores begin empty.                       *)
LEMMA InitInv == Init => IInv
<1> SUFFICES ASSUME Init PROVE IInv
  OBVIOUS
<1>1. Bounded
  BY BoundsAssumption DEF Init, Bounded
<1>2. AllFit
  BY EmptyIsFit DEF Init, AllFit, Stored
<1>3. ToSet(sent) = {} /\ null = {}
  BY DEF Init, ToSet
<1>4. AllSent /\ LabelProposed /\ LabelAgreed
  BY <1>3 DEF Init, AllSent, NoNullRead, LabelProposed, LabelAgreed
<1>5. Started /\ FirstSeen /\ FromRouter /\ AskedFirst /\ FirstIsPath
  BY DEF Init, Started, FirstSeen, FromRouter, AskedFirst, FirstIsPath
<1> QED BY <1>1, <1>2, <1>4, <1>5 DEF IInv

LEMMA NextInv == IInv /\ [Next]_vars => IInv'
<1> SUFFICES ASSUME IInv, [Next]_vars PROVE IInv'
  OBVIOUS
<1>1. ASSUME NEW r \in Requests, CreatePath(r) PROVE IInv'
  BY <1>1, CreateStep
<1>2. CASE RefreshPath
  BY <1>2, RefreshStep
<1>3. ASSUME NEW flags \in {0, 1, 9}, NEW id \in BOOLEAN, NEW left_out \in LeftOut,
             RecvResv(flags, id, left_out)
      PROVE  IInv'
  BY <1>3, ResvStep
<1>4. ASSUME NEW w \in RouterPaths, RecvPath(w) PROVE IInv'
  BY <1>4, FirstStep
<1>5. CASE Accepted \/ Refused
  BY <1>5, AnswerStep
<1>6. ASSUME NEW flags \in {0, 9, 10}, RecvPathAgain(flags) PROVE IInv'
  BY <1>6, AgainStep
<1>7. CASE DestroyPath
  BY <1>7, DestroyStep
<1>8. CASE ReportStatus
  BY <1>8, ReportStep
<1>9. CASE UNCHANGED vars
  BY <1>9, StayStep
<1>10. CASE Next
  BY <1>1, <1>2, <1>3, <1>4, <1>5, <1>6, <1>7, <1>8, <1>10, Zenon DEF Next, LeftOut
<1> QED BY <1>9, <1>10

LEMMA InvType == IInv => TypeOK
<1> SUFFICES ASSUME IInv PROVE TypeOK
  OBVIOUS
<1>1. Bounded /\ AllFit
  BY DEF IInv
<1>2. message_id \in 1..(MaxMessageId + 3)
  BY <1>1 DEF Bounded
<1>3. ASSUME NEW c \in Stored PROVE WellFormed(c)
  <2>1. Good(c)
    BY <1>1 DEF AllFit, Fit
  <2> QED BY <2>1 DEF Good, StoresOver
<1> QED BY <1>1, <1>2, <1>3 DEF Bounded, TypeOK

LEMMA InvSent ==
  ASSUME IInv
  PROVE  NoNullRead /\ ObjectsFill /\ ObjectsInOrder
<1>1. NoNullRead /\ \A m \in ToSet(sent) : Sendable(m)
  BY DEF IInv, AllSent
<1>2. ObjectsFill
  <2>1. ASSUME NEW m \in ToSet(sent), NEW o \in ToSet(m.wire)
        PROVE  Fills(o) \/ (o.class = "IPV4_IF_ID_RSVP_HOP" /\ ~ m.handle)
    <3>1. PICK k \in DOMAIN m.wire : m.wire[k] = o
      BY <2>1 DEF ToSet
    <3> QED BY <1>1, <3>1 DEF Sendable
  <2> QED BY <2>1 DEF ObjectsFill
<1>3. ObjectsInOrder
  BY <1>1 DEF ObjectsInOrder, Sendable, InOrder
<1> QED BY <1>1, <1>2, <1>3

(* The stores, the messages and the first PATH of a path are as described  *)
(* in every reachable state.                                               *)
THEOREM PathInvariant == Spec => []IInv
<1>1. Init => IInv
  BY InitInv
<1>2. IInv /\ [Next]_vars => IInv'
  BY NextInv
<1> QED BY <1>1, <1>2, PTL DEF Spec

(* Every store of a path fits its parameters' types in every reachable     *)
(* state, whatever the client asks for and the router sends: no overload   *)
(* of add, set and setadd, and no copy, leaves two values in a slot or a   *)
(* length without a value (rsvp_configuration.cpp).                        *)
THEOREM TypeCorrect == Spec => []TypeOK
<1>1. IInv => TypeOK
  BY InvType
<1> QED BY <1>1, PathInvariant, PTL

(* No message is written from a parameter that is absent: what             *)
(* check_addable looks for covers what the writers read, for every request *)
(* and every PATH (rsvp_packet.cpp); and what a handler reads unasked is   *)
(* the router's hop, sender or label, which ends the process where it is   *)
(* not there (rsvp_connection.cpp:406, 484, 600).                          *)
THEOREM NeverNull == Spec => []NoNullRead
<1>1. IInv => NoNullRead
  BY InvSent
<1> QED BY <1>1, PathInvariant, PTL

(* Every object of every message is as long as its header says, but a hop  *)
(* without a handle (get_data, rsvp_packet.cpp:1632).                      *)
THEOREM AlwaysFill == Spec => []ObjectsFill
<1>1. IInv => ObjectsFill
  BY InvSent
<1> QED BY <1>1, PathInvariant, PTL

(* Every message has its objects in the order of add_order, though the     *)
(* handlers add them in any (add_object).                                  *)
THEOREM MessagesInOrder == Spec => []ObjectsInOrder
<1>1. IInv => ObjectsInOrder
  BY InvSent
<1> QED BY <1>1, PathInvariant, PTL

(* A refresh repeats the PATH of the path, for every request and whatever  *)
(* was received since, also when the client has asked for a deletion by    *)
(* flags, which changes what a refresh is made of (refresh_path;           *)
(* rsvp_connection.cpp:1228).                                              *)
THEOREM RefreshCorrect == Spec => RefreshIsSamePath
<1>1. IInv /\ [Next]_vars => [RefreshPath => \A m \in ToSet(sent') : m.wire = first]_vars
  BY RefreshStep
<1> QED BY <1>1, PathInvariant, PTL DEF Spec, RefreshIsSamePath

(* The label of a RESV is the one the kernel gets, and the one the sender  *)
(* proposed, for every PATH of the router (respond_path).                  *)
THEOREM LabelCorrect == Spec => []LabelAgreed
<1>1. IInv => LabelAgreed
  BY DEF IInv
<1> QED BY <1>1, PathInvariant, PTL

-----------------------------------------------------------------------------
(* What the client reads in a report.                                      *)

(* A row of the table has a number of its own, and only the route's has    *)
(* the numbers of its parts.                                               *)
LEMMA RowsApart ==
  /\ \A k \in 1..38 : Table[k].id \notin {14, 15, 21, 22} /\ Table[k].id \in Int
  /\ \A j \in 1..38, k \in 1..38 : Table[j].id = Table[k].id => j = k
  /\ \A k \in 1..38 : Table[k].id # 13 => Table[k].par # "ERO"
  /\ Table[13].par = "ERO"
<1>1. \A k \in 1..38 : Table[k].id = IF k <= 13 THEN k ELSE IF k <= 18 THEN k + 2 ELSE k + 4
  <2> TAKE k \in 1..38
  <2>1. k \in 1..13 \/ k \in 14..18 \/ k \in 19..38
    OBVIOUS
  <2> QED BY <2>1, RowsFit
<1>2. \A k \in 1..12 : Table[k].par # "ERO"
  BY DEF Table, Row
<1>3. \A k \in 14..38 : Table[k].par # "ERO"
  BY DEF Table, Row
<1>4. Table[13].par = "ERO"
  BY DEF Table, Row
<1>5. ASSUME NEW k \in 1..38, Table[k].id # 13 PROVE Table[k].par # "ERO"
  <2>1. k \in 1..12 \/ k = 13 \/ k \in 14..38
    OBVIOUS
  <2> QED BY <1>1, <1>2, <1>3, <1>5, <2>1
<1>6. ASSUME NEW j \in 1..38, NEW k \in 1..38, Table[j].id = Table[k].id PROVE j = k
  <2> DEFINE a == Table[j].id
             b == Table[k].id
  <2>1. a = IF j <= 13 THEN j ELSE IF j <= 18 THEN j + 2 ELSE j + 4
    BY <1>1
  <2>2. b = IF k <= 13 THEN k ELSE IF k <= 18 THEN k + 2 ELSE k + 4
    BY <1>1
  <2>3. a = b
    BY <1>6
  <2> HIDE DEF a, b
  <2> QED BY <2>1, <2>2, <2>3
<1>7. ASSUME NEW k \in 1..38
      PROVE  Table[k].id \notin {14, 15, 21, 22} /\ Table[k].id \in Int
  <2> DEFINE b == Table[k].id
  <2>1. b = IF k <= 13 THEN k ELSE IF k <= 18 THEN k + 2 ELSE k + 4
    BY <1>1
  <2> HIDE DEF b
  <2>2. b \notin {14, 15, 21, 22} /\ b \in Int
    BY <2>1
  <2> QED BY <2>2 DEF b
<1> QED BY <1>4, <1>5, <1>6, <1>7

Reported(W) == [id : Int, type : Types, val : W]

(* The values of a store over V and of the entries of its routes. *)
WithEntries(V) ==
  V \cup UNION {{h.address, h.prefix_length, h.loose} : h \in V}

(* What a row's block holds: one object for each value of its parameter,   *)
(* for the route only objects of its parts.                                *)
BlockFor(block, row, c) ==
  IF row.id = 13
  THEN \A i \in 1..Len(block) : block[i].id \in {13, 14, 15}
  ELSE /\ Len(block) = Len(c.data[row.par])
       /\ \A i \in 1..Len(block) : block[i].id = row.id /\ block[i].val = c.data[row.par][i]

LEMMA RouteBlock ==
  ASSUME NEW V, NEW route \in Seq(V)
  PROVE  LET block == FlattenSeq([i \in DOMAIN route |-> RouteObjects(route[i])])
         IN  /\ block \in Seq(Reported(WithEntries(V)))
             /\ \A i \in 1..Len(block) : block[i].id \in {13, 14, 15}
<1> DEFINE W == WithEntries(V)
           R == {o \in Reported(W) : o.id \in {13, 14, 15}}
           parts == [i \in DOMAIN route |-> RouteObjects(route[i])]
<1>1. ASSUME NEW h \in V PROVE RouteObjects(h) \in Seq(R)
  <2>1. h.address \in W /\ h.prefix_length \in W /\ h.loose \in W
    BY DEF WithEntries
  <2> HIDE DEF W
  <2>2. /\ Object(13, "UI", h.address) \in R /\ Object(14, "UC", h.prefix_length) \in R
        /\ Object(15, "UC", h.loose) \in R
    BY <2>1 DEF Object, Reported, Types
  <2> HIDE DEF R
  <2> QED BY <2>2 DEF RouteObjects
<1> HIDE DEF R
<1>2. parts \in Seq(Seq(R))
  <2>1. DOMAIN route = 1..Len(route) /\ Len(route) \in Nat /\ \A i \in 1..Len(route) : route[i] \in V
    OBVIOUS
  <2>2. \A i \in 1..Len(route) : RouteObjects(route[i]) \in Seq(R)
    BY <1>1, <2>1
  <2> QED BY <2>1, <2>2
<1>3. FlattenSeq(parts) \in Seq(R)
  <2> HIDE DEF parts
  <2> QED BY <1>2, FlattenPlaces
<1> HIDE DEF parts
<1>4. R \subseteq Reported(W) /\ \A o \in R : o.id \in {13, 14, 15}
  BY DEF R
<1> HIDE DEF W
<1>5. FlattenSeq(parts) \in Seq(Reported(W))
  BY <1>3, <1>4
<1>6. \A i \in 1..Len(FlattenSeq(parts)) : FlattenSeq(parts)[i] \in R
  BY <1>3
<1> QED BY <1>4, <1>5, <1>6 DEF parts, W

LEMMA RowBlock ==
  ASSUME NEW V, NEW c \in StoresOver(V), NEW k \in 1..38
  PROVE  LET block == add_objects_of(Table[k], c)
         IN  block \in Seq(Reported(WithEntries(V))) /\ BlockFor(block, Table[k], c)
<1> DEFINE row == Table[k]
           block == add_objects_of(row, c)
<1>1. row.par \in Parameters /\ row.id \in Int /\ row.type \in Types
  <2>1. RowFit(row)
    BY RowsFit
  <2> QED BY <2>1, RowsApart DEF RowFit, NoStyle
<1>2. c.data[row.par] \in Seq(V)
  BY <1>1, StoreHas
<1>3. CASE row.id = 13
  <2>1. row.par = "ERO"
    <3>1. Table[13].id = 13
      BY RowsFit
    <3>2. k = 13
      <4>1. 13 \in 1..38 /\ Table[13].id = Table[k].id
        BY <1>3, <3>1
      <4> QED BY <4>1, RowsApart
    <3> QED BY <3>2, RowsApart
  <2>2. block = FlattenSeq([i \in DOMAIN c.data["ERO"] |-> RouteObjects(c.data["ERO"][i])])
    BY <2>1 DEF add_objects_of
  <2> HIDE DEF row, block
  <2>3. block \in Seq(Reported(WithEntries(V))) /\ \A i \in 1..Len(block) : block[i].id \in {13, 14, 15}
    BY <1>2, <2>1, <2>2, RouteBlock
  <2> QED BY <1>3, <2>3 DEF BlockFor, row, block
<1>4. CASE row.id # 13
  <2>1. row.par # "ERO"
    BY <1>4, RowsApart
  <2>2. block = [i \in DOMAIN c.data[row.par] |-> Object(row.id, row.type, c.data[row.par][i])]
    BY <2>1 DEF add_objects_of
  <2> HIDE DEF row, block
  <2> DEFINE values == c.data[row.par]
             W == WithEntries(V)
  <2>3. values \in Seq(W)
    BY <1>2 DEF WithEntries
  <2>4. block = [i \in DOMAIN values |-> Object(row.id, row.type, values[i])]
    BY <2>2
  <2> HIDE DEF values, W
  <2>5. \A v \in W : Object(row.id, row.type, v) \in Reported(W)
                     /\ Object(row.id, row.type, v).id = row.id /\ Object(row.id, row.type, v).val = v
    BY <1>1 DEF Object, Reported
  <2>6. DOMAIN values = 1..Len(values) /\ Len(values) \in Nat /\ \A i \in 1..Len(values) : values[i] \in W
    BY <2>3
  <2>7. block \in Seq(Reported(W)) /\ Len(block) = Len(values)
        /\ \A i \in 1..Len(block) : block[i].id = row.id /\ block[i].val = values[i]
    BY <2>4, <2>5, <2>6
  <2> QED BY <1>4, <2>7 DEF BlockFor, values, W, row, block
<1> QED BY <1>3, <1>4

Blocks(c) == [k \in DOMAIN Table |-> add_objects_of(Table[k], c)]
Part(num, count) ==
  IF num >= 0 /\ num < count
  THEN << Object(21, "UI", num), Object(22, "UI", count) >> ELSE << >>

(* The objects with the number of a row are those of its block. *)
OnlyInBlock(objects, k, base, block) ==
  /\ base \in Nat
  /\ \A i \in 1..Len(block) : base + i \in 1..Len(objects) /\ objects[base + i] = block[i]
  /\ \A j \in 1..Len(objects) :
       objects[j].id = Table[k].id => \E i \in 1..Len(block) : j = base + i

LEMMA BlockPlace ==
  ASSUME NEW V, NEW c \in StoresOver(V), NEW num \in Int, NEW count \in Int,
         NEW k \in 1..38, Table[k].id # 13
  PROVE  /\ Part(num, count) \o FlattenSeq(Blocks(c)) \in Seq(Reported(WithEntries(V) \cup Int))
         /\ \E base : OnlyInBlock(Part(num, count) \o FlattenSeq(Blocks(c)), k, base,
                                   add_objects_of(Table[k], c))
<1> DEFINE U == Reported(WithEntries(V) \cup Int)
           blocks == Blocks(c)
           flat == FlattenSeq(blocks)
           part == Part(num, count)
           all == part \o flat
<1>1. /\ Len(blocks) = 38 /\ \A j \in 1..38 : /\ blocks[j] = add_objects_of(Table[j], c)
                                             /\ blocks[j] \in Seq(U)
                                             /\ BlockFor(blocks[j], Table[j], c)
      /\ blocks \in Seq(Seq(U))
  <2>1. DOMAIN Table = 1..38
    BY RowsFit
  <2>2. \A j \in 1..38 : /\ add_objects_of(Table[j], c) \in Seq(Reported(WithEntries(V)))
                         /\ BlockFor(add_objects_of(Table[j], c), Table[j], c)
    BY RowBlock
  <2>3. Reported(WithEntries(V)) \subseteq U
    BY DEF Reported
  <2> HIDE DEF U
  <2>4. ASSUME NEW j \in 1..38 PROVE add_objects_of(Table[j], c) \in Seq(U)
    <3>1. add_objects_of(Table[j], c) \in Seq(Reported(WithEntries(V)))
      BY <2>2
    <3> QED BY <2>3, <3>1
  <2>5. blocks = [j \in 1..38 |-> add_objects_of(Table[j], c)]
    BY <2>1 DEF Blocks
  <2> HIDE DEF blocks
  <2> QED BY <2>2, <2>4, <2>5
<1>2. part \in Seq(U) /\ \A i \in 1..Len(part) : part[i].id \in {21, 22}
  <2>1. Object(21, "UI", num) \in U /\ Object(22, "UI", count) \in U
    BY DEF Reported, Object, Types
  <2>2. Object(21, "UI", num).id = 21 /\ Object(22, "UI", count).id = 22
    BY DEF Object
  <2> HIDE DEF U
  <2> QED BY <2>1, <2>2 DEF Part
<1> HIDE DEF U, blocks, part
<1>3. PICK off : flat \in Seq(U) /\ Placed(off, flat, blocks)
  BY <1>1, FlattenPlaces
<1>4. \A j \in 1..38 : Len(blocks[j]) \in Nat
  BY <1>1
<1>5. \A n \in 1..Len(flat) : \E j \in 1..38 : off[j - 1] < n /\ n <= off[j]
  BY <1>1, <1>3, <1>4, PlacesInOrder
<1> HIDE DEF flat
<1>6. /\ all \in Seq(U) /\ Len(all) = Len(part) + Len(flat)
      /\ \A j \in 1..Len(part) : j \in 1..Len(all) /\ all[j] = part[j]
      /\ \A j \in 1..Len(flat) : Len(part) + j \in 1..Len(all) /\ all[Len(part) + j] = flat[j]
  BY <1>2, <1>3, Joined
<1> HIDE DEF all
<1> DEFINE base == Len(part) + off[k - 1]
<1>7. /\ off \in [0..38 -> Nat]
      /\ \A j \in 1..38 : /\ off[j] = off[j - 1] + Len(blocks[j])
                          /\ \A i \in 1..Len(blocks[j]) : /\ off[j - 1] + i \in 1..Len(flat)
                                                         /\ flat[off[j - 1] + i] = blocks[j][i]
  BY <1>1, <1>3 DEF Placed
<1> DEFINE start(j) == off[j - 1]
<1>8. \A j \in 1..38 : start(j) \in Nat
  <2> TAKE j \in 1..38
  <2>1. j - 1 \in 0..38
    OBVIOUS
  <2> QED BY <1>7, <2>1
<1>9. /\ base \in Nat
      /\ \A i \in 1..Len(blocks[k]) : base + i \in 1..Len(all) /\ all[base + i] = blocks[k][i]
  <2>1. Len(part) \in Nat /\ off[k - 1] \in Nat
    <3>1. start(k) \in Nat
      BY <1>8
    <3> QED BY <1>2, <3>1
  <2>2. ASSUME NEW i \in 1..Len(blocks[k])
        PROVE  base + i \in 1..Len(all) /\ all[base + i] = blocks[k][i]
    <3>1. off[k - 1] + i \in 1..Len(flat) /\ flat[off[k - 1] + i] = blocks[k][i]
      BY <1>7
    <3>2. base + i = Len(part) + (off[k - 1] + i)
      <4>1. i \in Int
        OBVIOUS
      <4> HIDE DEF blocks
      <4> QED BY <2>1, <4>1
    <3> QED BY <1>6, <3>1, <3>2
  <2> QED BY <2>1, <2>2
<1>10. ASSUME NEW j \in 1..Len(all), all[j].id = Table[k].id
      PROVE  \E i \in 1..Len(blocks[k]) : j = base + i
  <2>1. j \notin 1..Len(part)
    <3>1. Table[k].id \notin {21, 22}
      BY RowsApart
    <3> QED BY <1>2, <1>6, <1>10, <3>1
  <2> DEFINE n == j - Len(part)
  <2>2. n \in 1..Len(flat) /\ all[j] = flat[n] /\ j = Len(part) + n
    BY <1>2, <1>3, <1>6, <2>1
  <2> HIDE DEF n
  <2>3. PICK b \in 1..38 : off[b - 1] < n /\ n <= off[b]
    BY <1>5, <2>2
  <2> DEFINE i == n - off[b - 1]
  <2>4. off[b - 1] \in Nat /\ off[b] = off[b - 1] + Len(blocks[b]) /\ Len(blocks[b]) \in Nat
    BY <1>4, <1>7, <1>8
  <2>5. i \in 1..Len(blocks[b]) /\ n = off[b - 1] + i
    <3> DEFINE a == off[b - 1]
               z == off[b]
               l == Len(blocks[b])
    <3>1. a \in Nat /\ z = a + l /\ l \in Nat /\ a < n /\ n <= z /\ n \in Int
      BY <2>2, <2>3, <2>4
    <3> HIDE DEF a, z, l
    <3>2. n - a \in 1..l /\ n = a + (n - a)
      BY <3>1
    <3> QED BY <3>2 DEF a, l
  <2> HIDE DEF i
  <2>6. flat[n] = blocks[b][i]
    BY <1>7, <2>5
  <2>7. blocks[b][i].id = Table[k].id /\ BlockFor(blocks[b], Table[b], c)
    BY <1>1, <1>10, <2>2, <2>6
  <2>8. b = k
    <3>1. CASE Table[b].id = 13
      <4>1. Table[k].id \in {13, 14, 15}
        BY <2>5, <2>7, <3>1 DEF BlockFor
      <4> QED BY <4>1, RowsApart
    <3>2. CASE Table[b].id # 13
      <4>1. Table[k].id = Table[b].id
        BY <2>5, <2>7, <3>2 DEF BlockFor
      <4> QED BY <4>1, RowsApart
    <3> QED BY <3>1, <3>2
  <2>9. j = base + i
    BY <1>2, <2>2, <2>4, <2>5, <2>8
  <2> QED BY <2>5, <2>8, <2>9
<1>11. OnlyInBlock(all, k, base, blocks[k])
  BY <1>9, <1>10 DEF OnlyInBlock
<1> QED BY <1>1, <1>6, <1>11 DEF all, flat, part, blocks, U

(* What client_parse makes of a message that is not longer than its byte   *)
(* counts: of the objects with a number, the value of the last.            *)
LEMMA ClientReads ==
  ASSUME NEW W, NEW objects \in Seq(W), Len(objects) < 256,
         NEW id, NEW type, NEW comm, NEW n, n # 15
  PROVE  LastOf(client_parse(Message(id, type, comm, objects)), objects, n)
<1> DEFINE message == Message(id, type, comm, objects)
           I == {j \in 1..Len(objects) : objects[j].id = n}
           ids == {o.id : o \in ToSet(objects)}
           last(i) == objects[SelectLastInSeq(objects, LAMBDA o : o.id = i)].val
<1>1. Len(objects) \in Nat /\ Len(objects) % 256 = Len(objects)
  OBVIOUS
<1>2. message.objects = objects /\ message.count = Len(objects)
  BY <1>1 DEF Message
<1>3. SubSeq(objects, 1, Len(objects)) = objects
  BY <1>1
<1> HIDE DEF message
<1>4. client_parse(message) = [i \in ids |-> IF i = 15 /\ last(i) # 1 THEN 0 ELSE last(i)]
  BY <1>2, <1>3 DEF client_parse
<1>5. n \in ids <=> I # {}
  BY DEF ToSet
<1>6. SelectLastInSeq(objects, LAMBDA o : o.id = n) = IF I # {} THEN Max(I) ELSE 0
  BY DEF SelectLastInSeq
<1> HIDE DEF ids
<1>7. ASSUME I # {} PROVE client_parse(message)[n] = objects[Max(I)].val
  <2>1. n \in ids
    BY <1>5, <1>7
  <2>2. client_parse(message)[n] = last(n)
    BY <1>4, <2>1
  <2> QED BY <1>6, <1>7, <2>2
<1>8. ASSUME I # {} PROVE Max(I) \in I /\ \A j \in I : j <= Max(I)
  <2>1. I \in SUBSET (1..Len(objects))
    OBVIOUS
  <2> HIDE DEF I
  <2> QED BY <1>1, <1>8, <2>1, LargestIn
<1>9. DOMAIN client_parse(message) = ids
  BY <1>4
<1>10. I = Entries(objects, n)
  BY DEF Entries
<1> HIDE DEF I
<1> QED BY <1>5, <1>7, <1>8, <1>9, <1>10 DEF message, LastOf

RowRead(message, row, c) ==
  /\ IsPresent(c, row.par) <=> row.id \in DOMAIN client_parse(message)
  /\ IsPresent(c, row.par) => client_parse(message)[row.id] = Last(c.data[row.par])

LEMMA RowReadsBack ==
  ASSUME NEW V, NEW c \in StoresOver(V), NEW id, NEW type, NEW comm,
         NEW num \in Int, NEW count \in Int, NEW message,
         message = mgmt_packet(c, id, type, comm, num, count), Len(message.objects) < 256,
         NEW k \in 1..38, NEW row, row = Table[k], row.id # 13
  PROVE  RowRead(message, row, c)
<1> DEFINE objects == Part(num, count) \o FlattenSeq(Blocks(c))
           values == c.data[row.par]
           block == add_objects_of(row, c)
<1>1. message = Message(id, type, comm, objects) /\ message.objects = objects
  BY DEF mgmt_packet, Part, Blocks, Message
<1>2. PICK base : /\ objects \in Seq(Reported(WithEntries(V) \cup Int))
                   /\ OnlyInBlock(objects, k, base, block)
  BY BlockPlace
<1>3. Len(block) = Len(values) /\ \A i \in 1..Len(block) : block[i].id = row.id /\ block[i].val = values[i]
  <2>1. BlockFor(add_objects_of(Table[k], c), Table[k], c)
    BY RowBlock
  <2> QED BY <2>1 DEF BlockFor
<1>4. values \in Seq(V) /\ (IsPresent(c, row.par) <=> values # << >>)
  <2>1. row.par \in Parameters
    <3>1. RowFit(Table[k])
      <4>1. k \in 1..13 \/ k \in 14..18 \/ k \in 19..38
        OBVIOUS
      <4> QED BY <4>1, RowsFit
    <3> QED BY <3>1 DEF RowFit, NoStyle
  <2> QED BY <2>1, StoreHas, PresentIn
<1>5. row.id # 15
  BY RowsApart
<1> HIDE DEF objects, block, values
<1> DEFINE I == Entries(objects, row.id)
           read == client_parse(message)
<1>6. LastOf(read, objects, row.id)
  <2> DEFINE W == Reported(WithEntries(V) \cup Int)
  <2>1. objects \in Seq(W) /\ Len(objects) < 256
    BY <1>1, <1>2
  <2> HIDE DEF W
  <2>2. LastOf(client_parse(Message(id, type, comm, objects)), objects, row.id)
    BY <1>5, <2>1, ClientReads
  <2> QED BY <1>1, <2>2
<1> HIDE DEF read
<1>7. /\ base \in Nat /\ Len(block) \in Nat
      /\ \A i \in 1..Len(block) : /\ base + i \in I
                                  /\ objects[base + i].val = values[i]
      /\ \A j \in I : \E i \in 1..Len(block) : j = base + i
  <2>1. Len(block) \in Nat
    BY <1>3, <1>4
  <2>2. DOMAIN objects = 1..Len(objects)
    BY <1>2
  <2>3. ASSUME NEW i \in 1..Len(block)
        PROVE  base + i \in I /\ objects[base + i].val = values[i]
    <3>1. base + i \in 1..Len(objects) /\ objects[base + i] = block[i]
      BY <1>2 DEF OnlyInBlock
    <3> QED BY <1>3, <2>2, <3>1 DEF Entries
  <2>4. ASSUME NEW j \in I PROVE \E i \in 1..Len(block) : j = base + i
    <3>1. j \in 1..Len(objects) /\ objects[j].id = Table[k].id
      BY <2>2 DEF Entries
    <3> QED BY <1>2, <3>1 DEF OnlyInBlock
  <2>5. base \in Nat
    BY <1>2 DEF OnlyInBlock
  <2> QED BY <2>1, <2>3, <2>4, <2>5
<1> HIDE DEF I
<1>8. I # {} <=> values # << >>
  <2>1. values # << >> <=> Len(block) # 0
    BY <1>3, <1>4
  <2>2. Len(block) # 0 => 1 \in 1..Len(block)
    BY <1>7
  <2>3. I # {} => \E i : i \in 1..Len(block)
    BY <1>7
  <2> QED BY <1>7, <2>1, <2>2, <2>3
<1>9. ASSUME values # << >> PROVE read[row.id] = Last(values)
  <2>1. Len(block) \in 1..Len(block)
    BY <1>3, <1>4, <1>7, <1>9
  <2>2. base + Len(block) \in I
    BY <1>7, <2>1
  <2>3. PICK i \in 1..Len(block) : Max(I) = base + i
    BY <1>6, <1>7, <2>2 DEF LastOf, I
  <2>4. base + Len(block) <= Max(I)
    BY <1>6, <2>2 DEF LastOf, I
  <2>5. i = Len(block)
    BY <1>7, <2>3, <2>4
  <2>6. read[row.id] = values[Len(values)]
    BY <1>3, <1>6, <1>7, <2>2, <2>3, <2>5 DEF LastOf, I
  <2> QED BY <2>6 DEF Last
<1> QED BY <1>4, <1>6, <1>8, <1>9 DEF values, read, RowRead, LastOf, I

-----------------------------------------------------------------------------
(* What was reported last is the message of the store it is about.         *)

ReportIs(report, c) ==
  /\ Good(c)
  /\ \E id, type, comm : \E num \in Int, count \in Int :
       report = << mgmt_packet(c, id, type, comm, num, count), c >>

ReportInv == reported = << >> \/ \E c : ReportIs(reported, c)

LEMMA ReportNext == IInv /\ ReportInv /\ [Next]_vars => ReportInv'
<1> SUFFICES ASSUME IInv, ReportInv, [Next]_vars PROVE ReportInv'
  OBVIOUS
<1>1. CASE UNCHANGED reported
  BY <1>1 DEF ReportInv
<1>2. ASSUME NEW w \in RouterPaths, RecvPath(w) PROVE ReportInv'
  <2>1. Good(got')
    <3>1. Fit(parse_data(w)) /\ got' = parse_data(w)
      BY <1>2, RouterPathRead DEF RecvPath
    <3> QED BY <3>1 DEF Fit
  <2>2. CASE UNCHANGED reported
    BY <1>1, <2>2
  <2>3. CASE reported' = << mgmt_packet(got', 1, "REQ", "CREATE", 0, 0), got' >>
    <3>1. ReportIs(reported', got')
      BY <2>1, <2>3 DEF ReportIs
    <3> QED BY <3>1 DEF ReportInv
  <2> QED BY <1>2, <2>2, <2>3 DEF RecvPath, RecvFirst
<1>3. CASE ReportStatus
  <2> DEFINE c == SetAdd(path_configuration, "PATH_STATUS", "UI", 6)
  <2>1. Good(c)
    <3>1. Good(path_configuration)
      BY StoresFit DEF Fit
    <3> QED BY <3>1, GoodAdd DEF SetAdd, Types
  <2>2. reported' = << mgmt_packet(c, 1, "ACK", "STATUS", 0, 1), c >>
    BY <1>3 DEF ReportStatus
  <2> HIDE DEF c
  <2>3. ReportIs(reported', c)
    BY <2>1, <2>2 DEF ReportIs
  <2> QED BY <2>3 DEF ReportInv
<1>4. CASE (\E r \in Requests : CreatePath(r)) \/ RefreshPath \/ Accepted \/ Refused \/ DestroyPath
  <2>1. UNCHANGED reported
    BY <1>4 DEF CreatePath, CreateFrom, RefreshPath, Accepted, Refused, DestroyPath
  <2> QED BY <1>1, <2>1
<1>5. CASE \/ \E flags \in {0, 1, 9}, id \in BOOLEAN, left_out \in LeftOut :
                RecvResv(flags, id, left_out)
           \/ \E flags \in {0, 9, 10} : RecvPathAgain(flags)
  <2>1. UNCHANGED reported
    BY <1>5 DEF RecvResv, RecvPathAgain
  <2> QED BY <1>1, <2>1
<1>6. CASE UNCHANGED vars
  BY <1>1, <1>6 DEF vars
<1> QED BY <1>2, <1>3, <1>4, <1>5, <1>6, Zenon DEF Next, LeftOut

(* The client reads in every report and request what the agent's store     *)
(* holds of each parameter, of a list the last value, for every request    *)
(* and every PATH, as long as the number of objects fits its byte          *)
(* (mgmt_packet.cpp of either side).                                       *)
THEOREM ReportCorrect == Spec => []ReportReadsBack
<1>1. Init => ReportInv
  BY DEF Init, ReportInv
<1>2. IInv /\ ReportInv /\ [Next]_vars => ReportInv'
  BY ReportNext
<1>3. ReportInv => ReportReadsBack
  <2> SUFFICES ASSUME ReportInv, reported # << >>, Len(reported[1].objects) < 256,
                      NEW k \in DOMAIN Table, Table[k].id # 13
               PROVE  LET read == client_parse(reported[1])
                          c == reported[2]
                          row == Table[k]
                      IN  /\ IsPresent(c, row.par) <=> row.id \in DOMAIN read
                          /\ IsPresent(c, row.par) => read[row.id] = Last(c.data[row.par])
    BY DEF ReportReadsBack
  <2>1. PICK c : ReportIs(reported, c)
    BY DEF ReportInv
  <2>2. PICK id, type, comm : \E num \in Int, count \in Int :
          reported = << mgmt_packet(c, id, type, comm, num, count), c >>
    BY <2>1 DEF ReportIs
  <2>3. PICK num \in Int, count \in Int :
          reported = << mgmt_packet(c, id, type, comm, num, count), c >>
    BY <2>2
  <2>4. PICK V : c \in StoresOver(V)
    BY <2>1 DEF ReportIs, Good
  <2>5. k \in 1..38
    BY RowsFit
  <2> DEFINE message == mgmt_packet(c, id, type, comm, num, count)
  <2>6. reported[1] = message /\ reported[2] = c /\ Len(message.objects) < 256
    BY <2>3
  <2> DEFINE row == Table[k]
  <2>7. row = Table[k] /\ row.id # 13 /\ message = mgmt_packet(c, id, type, comm, num, count)
    OBVIOUS
  <2> HIDE DEF message, row
  <2>8. RowRead(message, row, c)
    BY <2>4, <2>5, <2>6, <2>7, RowReadsBack
  <2> QED BY <2>6, <2>8 DEF row, RowRead
<1> QED BY <1>1, <1>2, <1>3, PathInvariant, PTL DEF Spec

LEMMA NamedParameters ==
  /\ SessionId \subseteq Parameters \ PT_TAB /\ MessageId \subseteq Parameters \ PT_TAB
  /\ {"FILTER_SRC_ADDR", "FILTER_SRC_PORT"} \subseteq Parameters \ PT_TAB
  /\ Sender \subseteq Parameters \ PT_TAB
BY DEF SessionId, MessageId, Sender, Parameters, PT_UI, PT_US, PT_UC, PT_TAB

LEMMA IdCarried == Carrying(IdClasses, MessageId, {})
<1>1. IdClasses \subseteq WireClasses \ AnyOf
  BY DEF IdClasses, WireClasses, Classes, requirements, Subobjects, AnyOf
<1>2. \A class \in IdClasses : MessageId \subseteq requirements[class]
  BY DEF IdClasses, requirements
<1>3. \A class \in WireClasses \ IdClasses : \A p \in MessageId : p \notin MayCarry(class)
  BY NameCarriers DEF IdClasses
<1>4. \A class \in IdClasses : \A c, objs : ClassCopies(class, c, objs, MessageId, {})
  BY IdCopies
<1> QED BY <1>1, <1>2, <1>3, <1>4, NamedParameters DEF Carrying

(* The number of an acknowledgement is that of the message it answers.     *)
AckSays(m, c) ==
  LET r == parse_data(m.wire)
  IN  /\ \A p \in {"MSG_ID_EPOCH", "MSG_ID_ID"} : IsPresent(r, p) /\ Read(r, p) = Read(c, p)
      /\ Read(r, "MSG_ID_FLAGS") = 0

LEMMA AckNames ==
  ASSUME NEW c, Fit(c), Identified(c), NEW m \in ToSet(Acks(c))
  PROVE  AckSays(m, c)
<1> DEFINE d == SetAt(c, "MSG_ID_FLAGS", "UC", 0, 0, 0)
           list == << "MESSAGE_ID_ACK" >>
           r == parse_data(WireFrom(d, list))
<1>1. IsPresent(c, "MSG_ID_FLAGS") /\ m = Msg("ACK", d, list)
  <2>1. \A x : ToSet(<< x >>) = {x}
    BY DEF ToSet
  <2>2. ToSet(<< >>) = {}
    BY DEF ToSet
  <2> QED BY <2>1, <2>2 DEF Acks
<1>2. m.wire = WireFrom(d, list)
  BY <1>1 DEF Msg, MsgOf, WireFrom
<1>3. Fit(d) /\ Good(d) /\ Good(c)
  <2>1. PICK q, ty : q = "MSG_ID_FLAGS" /\ ty = "UC"
    OBVIOUS
  <2>2. q \notin StyleFlags /\ ty \in Types /\ ty # "CS" /\ 0 \in Int
    BY <2>1 DEF StyleFlags, Types
  <2>3. Fit(SetAt(c, q, ty, 0, 0, 0))
    BY <2>2, FitAdd
  <2> QED BY <2>1, <2>3 DEF Fit
<1>4. MessageId = {"MSG_ID_FLAGS", "MSG_ID_EPOCH", "MSG_ID_ID"}
  BY DEF MessageId
<1>5. d.data["MSG_ID_FLAGS"] = << 0 >>
  <2>1. "MSG_ID_FLAGS" \in Parameters /\ "MSG_ID_FLAGS" \notin PT_TAB /\ HasType("MSG_ID_FLAGS", "UC")
    BY DEF HasType, Parameters, PT_UC, PT_TAB
  <2>2. ~ SetRefused(c, "MSG_ID_FLAGS", "UC", 0, 0)
    BY <1>1, <2>1 DEF SetRefused, IsPresent
  <2>3. d = Slot(c, "MSG_ID_FLAGS", << 0 >>, c.void_size["MSG_ID_FLAGS"])
    BY <2>1, <2>2 DEF SetAt
  <2> QED BY <2>1, <2>3 DEF Slot
<1>6. \A q \in {"MSG_ID_EPOCH", "MSG_ID_ID"} : d.data[q] = c.data[q]
  <2> SUFFICES ASSUME NEW q \in {"MSG_ID_EPOCH", "MSG_ID_ID"} PROVE d.data[q] = c.data[q]
    OBVIOUS
  <2>1. q \in Parameters /\ q # "MSG_ID_FLAGS"
    BY <1>4, NamedParameters
  <2> QED BY <2>1, AddLeaves
<1>7. /\ \A q \in MessageId : c.data[q] # << >>
      /\ \E v \in 0..(2^24 - 1) : c.data["MSG_ID_EPOCH"] = << v >>
  BY <1>1, <1>3, <1>4, NamedParameters, GoodPresent DEF Identified
<1> HIDE DEF d
<1>8. \A q \in MessageId : d.data[q] # << >>
  BY <1>4, <1>5, <1>6, <1>7
<1>9. check_addable("MESSAGE_ID_ACK", d)
  <2>1. \A q \in MessageId : IsPresent(d, q)
    BY <1>3, <1>8, NamedParameters, GoodPresent
  <2> QED BY <2>1 DEF check_addable, AnyOf, requirements
<1>10. Small(d, MessageId)
  <2>1. PICK v \in 0..(2^24 - 1) : d.data["MSG_ID_EPOCH"] = << v >>
    BY <1>6, <1>7
  <2>2. Read(d, "MSG_ID_EPOCH") = v
    BY <1>3, <1>4, <2>1, NamedParameters, OneValue
  <2>3. v % 2^24 = v
    OBVIOUS
  <2>4. MessageId \cap {"MSG_ID_EPOCH", "CALL_ID_IS"} = {"MSG_ID_EPOCH"}
    BY <1>4
  <2> QED BY <2>2, <2>3, <2>4 DEF Small
<1>11. list \in Seq(Usual) /\ Len(list) < MAX_OBJECTS /\ Occurs("MESSAGE_ID_ACK", list)
  BY DEF Usual, MAX_OBJECTS, Occurs
<1>12. MessageFit(d, list)
  <2>1. list \in Seq(Added) /\ ~ Occurs("ETHERNET_FLOWSPEC", list)
    BY DEF Added, Usual, Occurs
  <2> QED BY <1>3, <2>1 DEF MessageFit
<1>13. Listed(d, list, IdClasses)
  BY <1>9, <1>11 DEF Listed, IdClasses
<1> HIDE DEF list
<1>14. Same(r, d, MessageId) /\ ShapedWire(WireFrom(d, list))
  BY <1>10, <1>12, <1>13, IdCarried, WireSays, WireShaped
<1>15. Good(r)
  BY <1>14, ParsedFit DEF Fit
<1> HIDE DEF r
<1>16. \A q \in MessageId : q \in Parameters \ PT_TAB
  BY NamedParameters
<1>17. IsPresent(r, "MSG_ID_FLAGS") /\ Read(r, "MSG_ID_FLAGS") = 0
  BY <1>4, <1>5, <1>14, <1>15, <1>16, OneValue DEF Same
<1>18. ASSUME NEW q \in {"MSG_ID_EPOCH", "MSG_ID_ID"} PROVE IsPresent(r, q) /\ Read(r, q) = Read(c, q)
  <2>1. q \in MessageId /\ r.data[q] = c.data[q] /\ c.data[q] # << >>
    BY <1>4, <1>6, <1>7, <1>14 DEF Same
  <2>2. q \in Parameters \ PT_TAB /\ q \in Parameters
    BY <1>16, <2>1
  <2>3. IsPresent(c, q) /\ c.data[q] = << Read(c, q) >>
    BY <1>3, <2>1, <2>2, OneValue, GoodPresent
  <2>4. IsPresent(r, q) /\ Read(r, q) = Read(c, q)
    BY <1>15, <2>1, <2>2, <2>3, OneValue
  <2> QED BY <2>4
<1> QED BY <1>2, <1>17, <1>18 DEF AckSays, r

(* What the router sets of the names of a path and of a message.           *)
NamesSet(calls, id) ==
  /\ GoodSettings(calls)
  /\ {1, 2} \subseteq DOMAIN calls
  /\ calls[1] = UI("FILTER_SRC_ADDR", Read(seen, "SENDER_SRC_ADDR"))
  /\ calls[2] = US("FILTER_SRC_PORT", Read(seen, "SENDER_SRC_ID"))
  /\ \A j \in DOMAIN calls :
       /\ calls[j][1] = "FILTER_SRC_ADDR" => calls[j][3] = Read(seen, "SENDER_SRC_ADDR")
       /\ calls[j][1] = "FILTER_SRC_PORT" => calls[j][3] = Read(seen, "SENDER_SRC_ID")
       /\ calls[j][1] = "MSG_ID_EPOCH" => calls[j][3] = 5
       /\ calls[j][1] \in MessageId => id
       /\ calls[j][1] \in RouterSets
  /\ id => /\ {12, 13, 14} \subseteq DOMAIN calls
           /\ calls[12] = UC("MSG_ID_FLAGS", 1) /\ calls[13] = UI("MSG_ID_EPOCH", 5)
           /\ calls[14] = UI("MSG_ID_ID", 77)

LEMMA RouterNames == ASSUME NEW flags, NEW id PROVE NamesSet(RouterCalls(flags, id), id)
<1> DEFINE x == Read(seen, "SENDER_SRC_ADDR")
           y == Read(seen, "SENDER_SRC_ID")
           V == {x, y, flags, Router, 9, 8, 1, 21, 22, 5, 77}
           S == SettingsIn(V, RouterSets)
           OK(s) == /\ s[1] = "FILTER_SRC_ADDR" => s[3] = x
                    /\ s[1] = "FILTER_SRC_PORT" => s[3] = y
                    /\ s[1] = "MSG_ID_EPOCH" => s[3] = 5
                    /\ s[1] \in MessageId => id
           T == {s \in S : OK(s)}
           Free == RouterSets \ (MessageId \cup {"FILTER_SRC_ADDR", "FILTER_SRC_PORT"})
           a == << UI("FILTER_SRC_ADDR", x), US("FILTER_SRC_PORT", y),
                   UI("CONTROL_OUT_IF_ADDR", Router),
                   UI("CONTROL_OUT_IF_HANDLE", 9), UI("DATA_OUT_IF_ADDR", Router),
                   UI("DATA_OUT_IF_HANDLE", 8),
                   UC("FIXED_FILTER", 1), UC("CALL_ID_ADDR_TYPE", 1),
                   UI("CALL_ID_SRC_TN_ADDR", Router), UI("CALL_ID_LOCAL_ID1", 21),
                   UI("CALL_ID_LOCAL_ID2", 22) >>
           b == << UC("MSG_ID_FLAGS", 1), UI("MSG_ID_EPOCH", 5), UI("MSG_ID_ID", 77) >>
           d == << UC("ADMIN_STATUS_RTAD_FLAGS", flags) >>
           all == a \o Only(id, b) \o Only(flags # 0, d)
<1>1. /\ x \in V /\ y \in V /\ flags \in V /\ Router \in V /\ 9 \in V /\ 8 \in V
      /\ 1 \in V /\ 21 \in V /\ 22 \in V /\ 5 \in V /\ 77 \in V
  OBVIOUS
<1>e. x = Read(seen, "SENDER_SRC_ADDR") /\ y = Read(seen, "SENDER_SRC_ID")
  OBVIOUS
<1>m. MessageId = {"MSG_ID_FLAGS", "MSG_ID_EPOCH", "MSG_ID_ID"} /\ MessageId \subseteq RouterSets
  BY DEF MessageId, RouterSets
<1> HIDE DEF x, y, V
<1>2. \A p \in RouterSets, v \in V : UI(p, v) \in S /\ UC(p, v) \in S /\ US(p, v) \in S
  BY RouterPlain, SettingIn
<1>0. \A p, v : /\ UI(p, v)[1] = p /\ UC(p, v)[1] = p /\ US(p, v)[1] = p
                /\ UI(p, v)[3] = v /\ UC(p, v)[3] = v /\ US(p, v)[3] = v
  BY DEF UI, UC, US
<1>p. \A s : s \in S => s[1] \in RouterSets
  BY DEF SettingsIn
<1> HIDE DEF S
<1>3. \A p \in Free, v \in V : UI(p, v) \in T /\ UC(p, v) \in T /\ US(p, v) \in T
  BY <1>0, <1>2, <1>m
<1>h. \A s \in S : OK(s) => s \in T
  OBVIOUS
<1>4. UI("FILTER_SRC_ADDR", x) \in T /\ US("FILTER_SRC_PORT", y) \in T
  <2>1. UI("FILTER_SRC_ADDR", x) \in S /\ US("FILTER_SRC_PORT", y) \in S
    BY <1>1, <1>2 DEF RouterSets
  <2>2. /\ UI("FILTER_SRC_ADDR", x)[1] = "FILTER_SRC_ADDR" /\ UI("FILTER_SRC_ADDR", x)[3] = x
        /\ US("FILTER_SRC_PORT", y)[1] = "FILTER_SRC_PORT" /\ US("FILTER_SRC_PORT", y)[3] = y
    BY <1>0
  <2>3. "FILTER_SRC_ADDR" \notin MessageId /\ "FILTER_SRC_PORT" \notin MessageId
    BY <1>m
  <2>4. OK(UI("FILTER_SRC_ADDR", x)) /\ OK(US("FILTER_SRC_PORT", y))
    BY <2>2, <2>3
  <2> QED BY <1>h, <2>1, <2>4
<1>5. id => UC("MSG_ID_FLAGS", 1) \in T /\ UI("MSG_ID_EPOCH", 5) \in T /\ UI("MSG_ID_ID", 77) \in T
  <2> SUFFICES ASSUME id
               PROVE  UC("MSG_ID_FLAGS", 1) \in T /\ UI("MSG_ID_EPOCH", 5) \in T /\ UI("MSG_ID_ID", 77) \in T
    OBVIOUS
  <2>1. UC("MSG_ID_FLAGS", 1) \in S /\ UI("MSG_ID_EPOCH", 5) \in S /\ UI("MSG_ID_ID", 77) \in S
    BY <1>1, <1>2 DEF RouterSets
  <2>2. /\ UC("MSG_ID_FLAGS", 1)[1] = "MSG_ID_FLAGS" /\ UI("MSG_ID_ID", 77)[1] = "MSG_ID_ID"
        /\ UI("MSG_ID_EPOCH", 5)[1] = "MSG_ID_EPOCH" /\ UI("MSG_ID_EPOCH", 5)[3] = 5
    BY <1>0
  <2>4. OK(UC("MSG_ID_FLAGS", 1)) /\ OK(UI("MSG_ID_EPOCH", 5)) /\ OK(UI("MSG_ID_ID", 77))
    BY <2>2
  <2> QED BY <1>h, <2>1, <2>4
<1>f. /\ "CONTROL_OUT_IF_ADDR" \in Free /\ "CONTROL_OUT_IF_HANDLE" \in Free /\ "DATA_OUT_IF_ADDR" \in Free
      /\ "DATA_OUT_IF_HANDLE" \in Free /\ "FIXED_FILTER" \in Free /\ "CALL_ID_ADDR_TYPE" \in Free
      /\ "CALL_ID_SRC_TN_ADDR" \in Free /\ "CALL_ID_LOCAL_ID1" \in Free /\ "CALL_ID_LOCAL_ID2" \in Free
      /\ "ADMIN_STATUS_RTAD_FLAGS" \in Free
  BY <1>m DEF RouterSets
<1>t. \A s \in T : s \in S /\ OK(s)
  OBVIOUS
<1> HIDE DEF T, Free, OK
<1>6. a \in Seq(T)
  BY <1>1, <1>3, <1>4, <1>f
<1>7. (id => b \in Seq(T)) /\ d \in Seq(T)
  BY <1>1, <1>3, <1>5, <1>f
<1>8. /\ Len(a) = 11 /\ a[1] = UI("FILTER_SRC_ADDR", x) /\ a[2] = US("FILTER_SRC_PORT", y)
      /\ Len(b) = 3 /\ b[1] = UC("MSG_ID_FLAGS", 1) /\ b[2] = UI("MSG_ID_EPOCH", 5)
      /\ b[3] = UI("MSG_ID_ID", 77)
  OBVIOUS
<1>9. RouterCalls(flags, id) = all
  BY DEF RouterCalls, x, y
<1> HIDE DEF a, b, d
<1> DEFINE b2 == Only(id, b)
           d2 == Only(flags # 0, d)
           ab == a \o b2
<1>10. b2 \in Seq(T) /\ d2 \in Seq(T) /\ (id => b2 = b)
  <2>1. << >> \in Seq(T)
    OBVIOUS
  <2> QED BY <1>7, <2>1 DEF Only
<1> HIDE DEF b2, d2
<1>11. /\ ab \in Seq(T) /\ Len(ab) = Len(a) + Len(b2)
       /\ \A j \in 1..Len(a) : j \in 1..Len(ab) /\ ab[j] = a[j]
  BY <1>6, <1>10, Joined
<1>c. \A j \in 1..Len(b2) : ab[Len(a) + j] = b2[j]
  BY <1>6, <1>10
<1> HIDE DEF ab
<1>12. /\ ab \o d2 \in Seq(T) /\ Len(ab \o d2) = Len(ab) + Len(d2)
       /\ \A j \in 1..Len(ab) : j \in 1..Len(ab \o d2) /\ (ab \o d2)[j] = ab[j]
  BY <1>10, <1>11, Joined
<1>13. all = ab \o d2
  BY DEF ab, b2, d2
<1> HIDE DEF all
<1>14. /\ all \in Seq(T) /\ DOMAIN all = 1..Len(all)
       /\ \A j \in 1..11 : j \in DOMAIN all /\ all[j] = a[j]
  <2>1. all \in Seq(T) /\ DOMAIN all = 1..Len(all)
    BY <1>12, <1>13
  <2> HIDE DEF ab
  <2>2. \A j \in 1..11 : j \in 1..Len(all) /\ all[j] = a[j]
    BY <1>8, <1>11, <1>12, <1>13
  <2> QED BY <2>1, <2>2
<1>15. {1, 2} \subseteq DOMAIN all /\ all[1] = a[1] /\ all[2] = a[2]
  BY <1>14
<1>16. id => /\ {12, 13, 14} \subseteq DOMAIN all
             /\ all[12] = b[1] /\ all[13] = b[2] /\ all[14] = b[3]
  <2> SUFFICES ASSUME id PROVE /\ {12, 13, 14} \subseteq DOMAIN all
                               /\ all[12] = b[1] /\ all[13] = b[2] /\ all[14] = b[3]
    OBVIOUS
  <2>0. b2 = b
    BY <1>10
  <2>a. Len(a) = 11 /\ Len(b2) = 3
    BY <1>8, <2>0
  <2>b. Len(ab) = Len(a) + Len(b2)
    BY <1>11
  <2>1. b2 = b /\ Len(ab) = 14
    BY <2>0, <2>a, <2>b
  <2>2. \A j \in 1..14 : j \in DOMAIN all /\ all[j] = ab[j]
    BY <2>1, <1>12, <1>13, <1>14
  <2>3. \A j \in 1..3 : ab[11 + j] = b[j]
    BY <1>8, <1>c, <2>1
  <2>4. ab[12] = b[1] /\ ab[13] = b[2] /\ ab[14] = b[3]
    <3>1. ab[11 + 1] = b[1] /\ ab[11 + 2] = b[2] /\ ab[11 + 3] = b[3]
      BY <2>3
    <3> QED BY <3>1
  <2> QED BY <2>2, <2>4
<1>17. \A j \in DOMAIN all : all[j] \in T
  BY <1>14
<1>18. \A j \in DOMAIN all : OK(all[j]) /\ all[j][1] \in RouterSets
  BY <1>17, <1>t, <1>p
<1>19. GoodSettings(all)
  <2>1. \A s \in T : s \in S
    BY <1>t
  <2>2. T \subseteq S
    BY <2>1
  <2>3. all \in Seq(S)
    BY <1>14, <2>2, SequenceIn
  <2>4. Sets(all, RouterSets)
    BY <2>3, SequenceSets DEF S
  <2> QED BY <2>4 DEF Sets
<1> QED BY <1>8, <1>9, <1>15, <1>16, <1>18, <1>19, <1>e DEF NamesSet, OK

(* What the router's answer holds of the names of the path and of itself.  *)
StoreNamed(c) ==
  /\ \A q \in SessionId : c.data[q] = seen.data[q]
  /\ c.data["FILTER_SRC_ADDR"] = << Read(seen, "SENDER_SRC_ADDR") >>
  /\ c.data["FILTER_SRC_PORT"] = << Read(seen, "SENDER_SRC_ID") >>
  /\ Identified(c)

LEMMA RouterStoreNamed ==
  ASSUME NEW flags, NEW id \in BOOLEAN
  PROVE  StoreNamed(RouterStore(flags, id))
<1> DEFINE calls == RouterCalls(flags, id)
           s == SetEach(RouterSame, calls)
           c == RouterStore(flags, id)
<1>1. NamesSet(calls, id)
  BY RouterNames
<1>2. PICK raw : c = SetLabel(s, raw)
  BY DEF RouterStore
<1> HIDE DEF calls, c
<1>3. \A q \in Parameters : q # "LABEL" => c.data[q] = s.data[q]
  BY <1>2, AddLeaves DEF SetLabel
<1>4. GoodSettings(calls)
  BY <1>1 DEF NamesSet
<1>5. ASSUME NEW q \in Parameters, q # "LABEL", \A j \in DOMAIN calls : calls[j][1] # q
      PROVE  c.data[q] = RouterSame.data[q]
  <2>1. Sets(calls, Parameters \ {q})
    <3>1. \A j \in DOMAIN calls : calls[j][1] \in Parameters \ {q}
      BY <1>1, <1>5, RouterPlain DEF NamesSet, Plain
    <3> QED BY <1>4, <3>1 DEF Sets
  <2>2. s.data[q] = RouterSame.data[q]
    BY <2>1, SetEachLeaves
  <2> QED BY <1>3, <1>5, <2>2
<1>6. ASSUME NEW q \in SessionId PROVE c.data[q] = seen.data[q]
  <2>1. q \in Parameters /\ q # "LABEL" /\ q \notin RouterSets
    BY <1>6 DEF SessionId, RouterSets, Parameters, PT_UI, PT_US
  <2>2. c.data[q] = RouterSame.data[q]
    BY <1>1, <1>5, <2>1 DEF NamesSet
  <2>3. RouterSame.data[q] = seen.data[q]
    BY <1>6, <2>1 DEF RouterSame, CopySelected
  <2> QED BY <2>2, <2>3
<1>7. ASSUME NEW q, q # "LABEL", NEW v, Agreed(calls, q, v) PROVE c.data[q] = << v >>
  <2>1. s.data[q] = << v >>
    BY <1>7, AgreedGives
  <2>2. q \in Parameters
    BY <1>7 DEF Agreed
  <2> HIDE DEF s
  <2> QED BY <1>3, <1>7, <2>1, <2>2
<1>8. c.data["FILTER_SRC_ADDR"] = << Read(seen, "SENDER_SRC_ADDR") >>
  <2>1. "FILTER_SRC_ADDR" \in Parameters /\ HasType("FILTER_SRC_ADDR", "UI")
    BY DEF Parameters, HasType, PT_UI
  <2>2. PICK k \in DOMAIN calls : calls[k] = UI("FILTER_SRC_ADDR", Read(seen, "SENDER_SRC_ADDR"))
    BY <1>1 DEF NamesSet
  <2>3. calls[k][1] = "FILTER_SRC_ADDR" /\ calls[k][2] = "UI"
    BY <2>2 DEF UI
  <2>v. PICK v : v = Read(seen, "SENDER_SRC_ADDR")
    OBVIOUS
  <2>4. Agreed(calls, "FILTER_SRC_ADDR", v)
    BY <1>1, <1>4, <2>1, <2>3, <2>v DEF NamesSet, Agreed
  <2>5. c.data["FILTER_SRC_ADDR"] = << v >>
    BY <1>7, <2>4
  <2> QED BY <2>v, <2>5
<1>9. c.data["FILTER_SRC_PORT"] = << Read(seen, "SENDER_SRC_ID") >>
  <2>1. "FILTER_SRC_PORT" \in Parameters /\ HasType("FILTER_SRC_PORT", "US")
    BY DEF Parameters, HasType, PT_US
  <2>2. PICK k \in DOMAIN calls : calls[k] = US("FILTER_SRC_PORT", Read(seen, "SENDER_SRC_ID"))
    BY <1>1 DEF NamesSet
  <2>3. calls[k][1] = "FILTER_SRC_PORT" /\ calls[k][2] = "US"
    BY <2>2 DEF US
  <2>v. PICK v : v = Read(seen, "SENDER_SRC_ID")
    OBVIOUS
  <2>4. Agreed(calls, "FILTER_SRC_PORT", v)
    BY <1>1, <1>4, <2>1, <2>3, <2>v DEF NamesSet, Agreed
  <2>5. c.data["FILTER_SRC_PORT"] = << v >>
    BY <1>7, <2>4
  <2> QED BY <2>v, <2>5
<1>10. CASE ~ id
  <2>1. ASSUME NEW q \in MessageId PROVE c.data[q] = << >>
    <3>1. q \in Parameters /\ q # "LABEL" /\ q \notin SessionId \cup TokenBucket \cup EthernetBandwidth
                                        \cup EthernetLink \cup {"REFRESH_PERIOD"}
      BY <2>1 DEF MessageId, SessionId, TokenBucket, EthernetBandwidth, EthernetLink, Parameters, PT_UI, PT_UC
    <3>2. \A j \in DOMAIN calls : calls[j][1] # q
      BY <1>1, <1>10, <2>1 DEF NamesSet
    <3>3. c.data[q] = RouterSame.data[q]
      BY <1>5, <3>1, <3>2
    <3>4. RouterSame.data[q] = << >>
      BY <3>1 DEF RouterSame, CopySelected, Empty
    <3> QED BY <3>3, <3>4
  <2> QED BY <1>6, <1>8, <1>9, <2>1 DEF StoreNamed, Identified, c
<1>11. CASE id
  <2>1. /\ "MSG_ID_FLAGS" \in Parameters /\ "MSG_ID_EPOCH" \in Parameters /\ "MSG_ID_ID" \in Parameters
        /\ HasType("MSG_ID_FLAGS", "UC") /\ HasType("MSG_ID_EPOCH", "UI") /\ HasType("MSG_ID_ID", "UI")
    BY DEF Parameters, HasType, PT_UI, PT_UC
  <2>2. PICK k1 \in DOMAIN calls : calls[k1] = UC("MSG_ID_FLAGS", 1)
    BY <1>1, <1>11 DEF NamesSet
  <2>3. PICK k2 \in DOMAIN calls : calls[k2] = UI("MSG_ID_EPOCH", 5)
    BY <1>1, <1>11 DEF NamesSet
  <2>4. PICK k3 \in DOMAIN calls : calls[k3] = UI("MSG_ID_ID", 77)
    BY <1>1, <1>11 DEF NamesSet
  <2>5. s.data["MSG_ID_FLAGS"] # << >>
    <3>1. calls[k1][1] = "MSG_ID_FLAGS" /\ calls[k1][2] = "UC"
      BY <2>2 DEF UC
    <3> QED BY <1>4, <2>1, <3>1, SetEachPresent
  <2>6. s.data["MSG_ID_ID"] # << >>
    <3>1. calls[k3][1] = "MSG_ID_ID" /\ calls[k3][2] = "UI"
      BY <2>4 DEF UI
    <3> QED BY <1>4, <2>1, <3>1, SetEachPresent
  <2>7. c.data["MSG_ID_EPOCH"] = << 5 >>
    <3>1. calls[k2][1] = "MSG_ID_EPOCH" /\ calls[k2][2] = "UI"
      BY <2>3 DEF UI
    <3>2. Agreed(calls, "MSG_ID_EPOCH", 5)
      BY <1>1, <1>4, <2>1, <3>1 DEF NamesSet, Agreed
    <3> QED BY <1>7, <3>2
  <2>8. c.data["MSG_ID_FLAGS"] # << >> /\ c.data["MSG_ID_ID"] # << >>
    BY <1>3, <2>1, <2>5, <2>6
  <2>9. /\ MessageId = {"MSG_ID_FLAGS", "MSG_ID_EPOCH", "MSG_ID_ID"} /\ 5 \in 0..(2^24 - 1)
    BY DEF MessageId
  <2>10. Identified(c)
    <3>1. \E v \in 0..(2^24 - 1) : c.data["MSG_ID_EPOCH"] = << v >>
      BY <2>7, <2>9
    <3>0. c.data["MSG_ID_EPOCH"] # << >>
      BY <2>7
    <3>2. \A q \in MessageId : c.data[q] # << >>
      BY <2>8, <2>9, <3>0
    <3> QED BY <3>1, <3>2 DEF Identified
  <2> QED BY <1>6, <1>8, <1>9, <2>10 DEF StoreNamed, c
<1> QED BY <1>10, <1>11

LEMMA RouterHeldNamed ==
  ASSUME NEW flags, NEW id \in BOOLEAN, NEW left_out \in LeftOut,
         NEW c, c = RouterHeld(flags, id, left_out)
  PROVE  StoreNamed(c)
<1>1. PICK s : s = RouterStore(flags, id)
  OBVIOUS
<1>2. StoreNamed(s) /\ c = RemoveEach(s, left_out)
  BY <1>1, RouterStoreNamed DEF RouterHeld
<1> DEFINE Q == SessionId \cup MessageId \cup {"FILTER_SRC_ADDR", "FILTER_SRC_PORT"}
<1>3. \A q \in Q : q \in Parameters /\ q \notin left_out
  <2>1. left_out \subseteq {"LABEL", "CONTROL_OUT_IF_ADDR"}
    BY DEF LeftOut
  <2>2. \A q \in Q : q \notin {"LABEL", "CONTROL_OUT_IF_ADDR"}
    BY DEF SessionId, MessageId
  <2>3. \A q \in Q : q \in Parameters
    BY NamedParameters
  <2> QED BY <2>1, <2>2, <2>3
<1>4. \A q \in Q : c.data[q] = s.data[q]
  <2> HIDE DEF Q
  <2>1. Q \subseteq Parameters
    BY <1>3
  <2> QED BY <1>2, <1>3, <2>1 DEF RemoveEach
<1>5. "MSG_ID_EPOCH" \in MessageId
  BY DEF MessageId
<1>6. Identified(c)
  BY <1>2, <1>4, <1>5 DEF StoreNamed, Identified
<1> QED BY <1>2, <1>4, <1>6 DEF StoreNamed

(* What is small in a store is small in what is read of its message.       *)
LEMMA SmallIdentified ==
  ASSUME NEW c, Good(c), Identified(c)
  PROVE  Small(c, MessageId)
<1>1. MessageId = {"MSG_ID_FLAGS", "MSG_ID_EPOCH", "MSG_ID_ID"}
  BY DEF MessageId
<1>2. MessageId \cap {"MSG_ID_EPOCH", "CALL_ID_IS"} = {"MSG_ID_EPOCH"}
  BY <1>1
<1>3. "MSG_ID_EPOCH" \in Parameters \ PT_TAB
  BY <1>1, NamedParameters
<1>4. ASSUME IsPresent(c, "MSG_ID_EPOCH") PROVE Read(c, "MSG_ID_EPOCH") % 2^24 = Read(c, "MSG_ID_EPOCH")
  <2>1. c.data["MSG_ID_EPOCH"] # << >>
    BY <1>3, <1>4, OneValue
  <2>2. PICK v \in 0..(2^24 - 1) : c.data["MSG_ID_EPOCH"] = << v >>
    BY <1>1, <2>1 DEF Identified
  <2>3. Read(c, "MSG_ID_EPOCH") = v
    BY <1>3, <2>2, OneValue
  <2>4. v % 2^24 = v
    OBVIOUS
  <2> QED BY <2>3, <2>4
<1> QED BY <1>2, <1>4 DEF Small

LEMMA RouterIdentified ==
  ASSUME Fit(seen), LinkFit(seen), NEW flags, NEW id \in BOOLEAN, NEW left_out \in LeftOut
  PROVE  Identified(parse_data(RouterResv(flags, id, left_out)))
<1> DEFINE c == RouterHeld(flags, id, left_out)
           list == RouterList(c)
           r == parse_data(WireFrom(c, list))
<1>1. RouterResv(flags, id, left_out) = WireFrom(c, list)
  BY DEF RouterResv, RouterHeld, RouterStore, RouterSame, RouterCalls, RouterList, WireFrom
<1>2. Fit(c) /\ LinkFit(c) /\ StoreNamed(c)
  BY RouterHeldFit, RouterHeldNamed
<1>3. list \in Seq(Added)
  BY RouterListIn
<1>4. MessageFit(c, list)
  BY <1>2, <1>3 DEF MessageFit
<1> HIDE DEF c, list
<1>5. Identified(c) /\ Good(c)
  BY <1>2 DEF StoreNamed, Fit
<1>6. Same(r, c, MessageId) \/ Lacks(r, MessageId \cup {})
  BY <1>4, <1>5, SmallIdentified, IdCarried, WireSays
<1> HIDE DEF r
<1>7. Identified(r)
  <2>1. "MSG_ID_EPOCH" \in MessageId
    BY DEF MessageId
  <2> QED BY <1>5, <1>6, <2>1 DEF Same, Lacks, Identified
<1> QED BY <1>1, <1>7 DEF r

LEMMA RouterPathIdentified ==
  ASSUME NEW w \in RouterPaths
  PROVE  Identified(parse_data(w))
<1>1. \A k \in DOMAIN w : Byte3(w[k])
  BY RouterPathsAssumption DEF Byte3
<1>2. ShapedWire(w)
  BY RouterPathRead
<1> QED BY <1>1, <1>2, ParsedIdentified

-----------------------------------------------------------------------------
(* Acknowledgements.                                                       *)

OnlyAcks(acks) == \A x \in ToSet(sent') : x.mtype = "ACK" => x \in ToSet(acks)

LEMMA TypeIs == ASSUME NEW mtype, NEW c, NEW list PROVE Msg(mtype, c, list).mtype = mtype
BY DEF Msg, MsgOf

LEMMA AcksOnly ==
  ASSUME NEW acks, NEW reads, Sends(acks, reads)
  PROVE  OnlyAcks(acks)
BY DEF Sends, OnlyAcks

LEMMA AcksBefore ==
  ASSUME NEW acks, AtMostAnAck(acks), NEW m, m.mtype # "ACK", NEW reads,
         Sends(acks \o << m >>, reads)
  PROVE  OnlyAcks(acks)
<1>1. sent' = acks \o << m >>
  BY DEF Sends
<1>2. CASE acks = << >>
  <2>1. sent' = << m >>
    BY <1>1, <1>2
  <2>2. \A x \in ToSet(<< m >>) : x = m
    BY DEF ToSet
  <2> QED BY <2>1, <2>2 DEF OnlyAcks
<1>3. CASE \E a : acks = << a >>
  <2>1. PICK a : acks = << a >>
    BY <1>3
  <2>2. sent' = << a >> \o << m >>
    BY <1>1, <2>1
  <2>3. \A x \in ToSet(<< a >> \o << m >>) : x = m \/ x = a
    <3> DEFINE s == << a >>
               t == << m >>
               V == {a, m}
    <3>1. s \in Seq(V) /\ t \in Seq(V) /\ Len(s) = 1 /\ Len(t) = 1 /\ s[1] = a /\ t[1] = m
      OBVIOUS
    <3> HIDE DEF s, t, V
    <3>2. DOMAIN (s \o t) = 1..2 /\ (s \o t)[1] = a /\ (s \o t)[2] = m
      BY <3>1, TwoMessages
    <3> DEFINE u == s \o t
    <3>3. DOMAIN u = 1..2 /\ u[1] = a /\ u[2] = m
      BY <3>2
    <3> HIDE DEF u
    <3>4. \A x \in ToSet(u) : x = m \/ x = a
      BY <3>3 DEF ToSet
    <3> QED BY <3>4 DEF u, s, t
  <2>4. a \in ToSet(<< a >>)
    BY DEF ToSet
  <2> QED BY <2>1, <2>2, <2>3, <2>4 DEF OnlyAcks
<1> QED BY <1>2, <1>3 DEF AtMostAnAck

(* Sending no acknowledgement keeps what the last ones said.               *)
LEMMA OneOnly ==
  ASSUME NEW m, m.mtype # "ACK", NEW reads, Sends(<< m >>, reads)
  PROVE  OnlyAcks(<< >>)
<1>1. sent' = << m >>
  BY DEF Sends
<1>2. \A x \in ToSet(<< m >>) : x = m
  BY DEF ToSet
<1> QED BY <1>1, <1>2 DEF OnlyAcks

LEMMA RespondOnly ==
  ASSUME NEW c, NEW acks, AtMostAnAck(acks), Respond(c, acks) \/ Refuse(c, acks)
  PROVE  OnlyAcks(acks)
<1>1. CASE RespondPath(c, acks)
  <2>1. PICK m, reads : m.mtype = "RESV" /\ Sends(acks \o << m >>, reads)
    <3>1. \E reads : Sends(acks \o << Msg("RESV", configuration', adding_resv_objects(c, configuration')) >>, reads)
      BY <1>1 DEF RespondPath
    <3> QED BY <3>1, TypeIs
  <2> QED BY <2>1, AcksBefore
<1>2. CASE RespondPathDelete(c, acks)
  <2>1. PICK m, reads : m.mtype \in {"RESV", "PATHERR"} /\ Sends(acks \o << m >>, reads)
    <3> DEFINE e == ErrorConfiguration(c)
               d == SetAdd(e, "ADMIN_STATUS_RTAD_FLAGS", "UC", 1)
    <3>1. \/ Sends(acks \o << Msg("RESV", d, adding_resv_objects(c, d) \o << "ADMIN_STATUS" >>) >>, {})
          \/ Sends(acks \o << Msg("PATHERR", e,
                       << "MESSAGE_ID", "SESSION_OIF", "ERROR_SPEC", "SENDER_TEMPLATE" >>
                       \o Only(proto = "OIFUNI20",
                               << "ETHERNET_SENDER_TSPEC" >> \o CallId(e))) >>, {})
      BY <1>2 DEF RespondPathDelete, ErrorConfiguration
    <3> HIDE DEF e, d
    <3> QED BY <3>1, TypeIs
  <2> QED BY <2>1, AcksBefore
<1>3. CASE RespondPathNack(c, acks)
  <2>1. PICK m, reads : m.mtype = "PATHERR" /\ Sends(acks \o << m >>, reads)
    <3>1. \E e, list, reads : Sends(acks \o << Msg("PATHERR", e, list) >>, reads)
      BY <1>3 DEF RespondPathNack
    <3> QED BY <3>1, TypeIs
  <2> QED BY <2>1, AcksBefore
<1>4. CASE ReadsAbsent(c, HopAndSender, acks) \/ ReadsAbsent(c, Sender, acks)
  <2>1. \E reads : Sends(acks, reads)
    BY <1>4 DEF ReadsAbsent
  <2> QED BY <2>1, AcksOnly
<1> QED BY <1>1, <1>2, <1>3, <1>4 DEF Respond, Refuse

LEMMA AnswerOnly ==
  ASSUME NEW flags, NEW c, Fit(c), AnswerResv(flags, c)
  PROVE  OnlyAcks(Acks(c))
<1>1. AtMostAnAck(Acks(c))
  BY AckFit
<1>2. PICK acks : acks = Acks(c)
  OBVIOUS
<1>3. \/ \E reads : Sends(acks, reads)
      \/ \E m, reads : m.mtype # "ACK" /\ Sends(acks \o << m >>, reads)
  <2>1. CASE \/ Sends(acks \o << TearOnReflect(c) >>, {})
             \/ Sends(acks \o << TearOnDelete >>, {})
    <3>1. TearOnReflect(c).mtype = "PATHTEAR" /\ TearOnDelete.mtype = "PATHTEAR"
      BY TypeIs DEF TearOnReflect, TearOnDelete
    <3> QED BY <2>1, <3>1
  <2>2. CASE RespondResv(c)
    <3>1. ResvConf(ConfConf(c)).mtype = "RESVCONF"
      BY TypeIs DEF ResvConf
    <3>2. Sends(acks, {}) \/ Sends(acks \o << ResvConf(ConfConf(c)) >>, {})
      BY <1>2, <2>2 DEF RespondResv
    <3> QED BY <3>1, <3>2
  <2>3. CASE Sends(acks, {})
    BY <2>3
  <2>4. CASE ReadsAbsent(c, LabelAndHop, acks)
    BY <2>4 DEF ReadsAbsent
  <2> QED BY <1>2, <2>1, <2>2, <2>3, <2>4 DEF AnswerResv
<1>4. OnlyAcks(acks)
  BY <1>1, <1>2, <1>3, AcksOnly, AcksBefore
<1> QED BY <1>2, <1>4

LEMMA DestroyOnly ==
  ASSUME DestroyPath
  PROVE  OnlyAcks(<< >>)
<1>1. \E m, reads : m.mtype # "ACK" /\ Sends(<< m >>, reads)
  <2>1. CASE DestroyByFlags
    <3>1. \E mtype \in {"PATH", "RESV"} : \E d, list, reads : Sends(<< Msg(mtype, d, list) >>, reads)
      BY <2>1 DEF DestroyByFlags
    <3> QED BY <3>1, TypeIs
  <2>2. CASE DestroyLocally
    <3>1. \E mtype \in {"PATHTEAR", "RESVTEAR"} : \E d, list, reads : Sends(<< Msg(mtype, d, list) >>, reads)
      BY <2>2 DEF DestroyLocally
    <3> QED BY <3>1, TypeIs
  <2> QED BY <2>1, <2>2 DEF DestroyPath
<1> QED BY <1>1, OneOnly

AckInv == \A m \in ToSet(sent) : m.mtype = "ACK" => AckSays(m, got)

LEMMA AckAfter ==
  ASSUME NEW c, Fit(c), Identified(c), OnlyAcks(Acks(c)), got' = c
  PROVE  AckInv'
<1> SUFFICES ASSUME NEW m \in ToSet(sent'), m.mtype = "ACK" PROVE AckSays(m, got')
  BY DEF AckInv, AckSays
<1>1. m \in ToSet(Acks(c))
  BY DEF OnlyAcks
<1> QED BY <1>1, AckNames

LEMMA NoAckAfter ==
  ASSUME OnlyAcks(<< >>)
  PROVE  AckInv'
<1>1. ToSet(<< >>) = {}
  BY DEF ToSet
<1> QED BY <1>1 DEF OnlyAcks, AckInv

LEMMA FirstIdentified ==
  ASSUME IInv, direction = "incoming"
  PROVE  Identified(parse_data(first)) /\ Fit(parse_data(first))
BY RouterPathIdentified, RouterPathRead DEF IInv, FromRouter

LEMMA FlaggedIdentified ==
  ASSUME NEW c, Identified(c), NEW v
  PROVE  Identified(SetAdd(c, "ADMIN_STATUS_RTAD_FLAGS", "UC", v))
<1> DEFINE d == SetAddAt(c, "ADMIN_STATUS_RTAD_FLAGS", "UC", v, 0, 0)
<1>1. \A q \in MessageId : q \in Parameters /\ q # "ADMIN_STATUS_RTAD_FLAGS"
  BY NamedParameters DEF MessageId
<1>2. \A q \in MessageId : d.data[q] = c.data[q]
  BY <1>1, AddLeaves
<1>3. "MSG_ID_EPOCH" \in MessageId
  BY DEF MessageId
<1> HIDE DEF d
<1>4. Identified(d)
  BY <1>2, <1>3 DEF Identified
<1> QED BY <1>4 DEF d, SetAdd

LEMMA AckNext == ASSUME IInv, AckInv, [Next]_vars PROVE AckInv'
<1>0. AtMostAnAck(<< >>)
  BY DEF AtMostAnAck
<1>1. CASE \E r \in Requests : CreatePath(r)
  <2>1. \E m, reads : m.mtype # "ACK" /\ Sends(<< m >>, reads)
    <3>1. \E c, list, reads : Sends(<< Msg("PATH", c, list) >>, reads)
      BY <1>1 DEF CreatePath, CreateFrom, SendPath
    <3> QED BY <3>1, TypeIs
  <2> QED BY <2>1, OneOnly, NoAckAfter
<1>2. CASE RefreshPath
  <2>1. \E m, reads : m.mtype # "ACK" /\ Sends(<< m >>, reads)
    <3>1. \E c, list, reads : Sends(<< Msg("PATH", c, list) >>, reads)
      BY <1>2 DEF RefreshPath
    <3> QED BY <3>1, TypeIs
  <2> QED BY <2>1, OneOnly, NoAckAfter
<1>3. CASE \E flags \in {0, 1, 9}, id \in BOOLEAN, left_out \in LeftOut :
             RecvResv(flags, id, left_out)
  <2>1. PICK flags \in {0, 1, 9}, id \in BOOLEAN, left_out \in LeftOut :
          RecvResv(flags, id, left_out)
    BY <1>3
  <2>2. /\ direction = "outgoing" /\ got' = parse_data(RouterResv(flags, id, left_out))
        /\ AnswerResv(flags, got')
    BY <2>1 DEF RecvResv
  <2>3. Fit(seen) /\ LinkFit(seen)
    <3>1. ShapedWire(first) /\ seen = parse_data(first)
      BY <2>2 DEF IInv, FirstSeen
    <3> QED BY <3>1, ParsedFit
  <2>4. Fit(got') /\ Identified(got')
    BY <2>2, <2>3, RouterResvRead, RouterIdentified DEF ResvRead
  <2>5. PICK c : c = got'
    OBVIOUS
  <2>6. Fit(c) /\ Identified(c) /\ AnswerResv(flags, c) /\ got' = c
    BY <2>2, <2>4, <2>5
  <2> QED BY <2>6, AnswerOnly, AckAfter
<1>4. CASE \E w \in RouterPaths : RecvPath(w)
  <2>1. PICK w \in RouterPaths : RecvPath(w)
    BY <1>4
  <2>2. PICK c : c = got'
    OBVIOUS
  <2>3. c = parse_data(w) /\ RecvFirst(c)
    BY <2>1, <2>2 DEF RecvPath
  <2>4. Fit(c) /\ Identified(c)
    BY <2>3, RouterPathRead, RouterPathIdentified
  <2>5. OnlyAcks(Acks(c))
    <3>1. AtMostAnAck(Acks(c))
      BY <2>4, AckFit
    <3>2. PICK acks : acks = Acks(c)
      OBVIOUS
    <3>3. Sends(acks, {}) \/ Respond(c, acks) \/ Refuse(c, acks)
      BY <2>3, <3>2 DEF RecvFirst
    <3>4. OnlyAcks(acks)
      BY <3>1, <3>2, <3>3, AcksOnly, RespondOnly
    <3> QED BY <3>2, <3>4
  <2> QED BY <2>2, <2>4, <2>5, AckAfter
<1>5. CASE Accepted \/ Refused
  <2>1. Respond(pending, << >>) \/ Refuse(pending, << >>)
    BY <1>5 DEF Accepted, Refused
  <2>2. PICK acks : acks = << >>
    OBVIOUS
  <2>3. Respond(pending, acks) \/ Refuse(pending, acks)
    BY <2>1, <2>2
  <2>4. OnlyAcks(acks)
    BY <1>0, <2>2, <2>3, RespondOnly
  <2> QED BY <2>2, <2>4, NoAckAfter
<1>6. CASE \E flags \in {0, 9, 10} : RecvPathAgain(flags)
  <2>1. PICK flags \in {0, 9, 10} : RecvPathAgain(flags)
    BY <1>6
  <2>2. PICK c : c = got'
    OBVIOUS
  <2>3. /\ direction = "incoming"
        /\ c = IF flags = 0 THEN parse_data(first)
               ELSE SetAdd(parse_data(first), "ADMIN_STATUS_RTAD_FLAGS", "UC", flags)
        /\ Respond(c, Acks(c)) \/ Refuse(c, Acks(c))
    BY <2>1, <2>2 DEF RecvPathAgain
  <2>4. Identified(parse_data(first)) /\ Fit(parse_data(first))
    BY <2>3, FirstIdentified
  <2>5. Fit(c) /\ Identified(c)
    BY <2>3, <2>4, FlaggedIdentified, FlaggedRead
  <2>6. OnlyAcks(Acks(c))
    <3>1. AtMostAnAck(Acks(c))
      BY <2>5, AckFit
    <3>2. PICK acks : acks = Acks(c)
      OBVIOUS
    <3>3. Respond(c, acks) \/ Refuse(c, acks)
      BY <2>3, <3>2
    <3>4. OnlyAcks(acks)
      BY <3>1, <3>2, <3>3, RespondOnly
    <3> QED BY <3>2, <3>4
  <2> QED BY <2>2, <2>5, <2>6, AckAfter
<1>7. CASE DestroyPath
  BY <1>7, DestroyOnly, NoAckAfter
<1>8. CASE ReportStatus
  <2>1. OnlyAcks(<< >>)
    BY <1>8, AcksOnly DEF ReportStatus
  <2> QED BY <2>1, NoAckAfter
<1>9. CASE UNCHANGED vars
  BY <1>9 DEF vars, AckInv, AckSays
<1> QED BY <1>1, <1>2, <1>3, <1>4, <1>5, <1>6, <1>7, <1>8, <1>9, Zenon DEF Next, LeftOut

(* Every ACK the agent sends names the message of the router it answers,   *)
(* and asks for no ACK itself (respond_ackreq), for every request, every   *)
(* PATH of the router and every order of events.                           *)
THEOREM AckCorrect == Spec => []AckNamesMessage
<1>1. Init => AckInv
  <2>1. ToSet(<< >>) = {}
    BY DEF ToSet
  <2> QED BY <2>1 DEF Init, AckInv
<1>2. IInv /\ AckInv /\ [Next]_vars => AckInv'
  BY AckNext
<1>3. AckInv => AckNamesMessage
  BY DEF AckInv, AckSays, AckNamesMessage
<1> QED BY <1>1, <1>2, <1>3, PathInvariant, PTL DEF Spec

-----------------------------------------------------------------------------
(* What names a path: its session with the sender or, in an answer, with   *)
(* the filter.                                                             *)

FilterNames == {"FILTER_SRC_ADDR", "FILTER_SRC_PORT"}
Names == SessionId \cup Sender

LEMMA SessionCarried == Carrying(SessionClasses, SessionId, {})
<1>1. SessionClasses \subseteq WireClasses \ AnyOf
  BY DEF SessionClasses, WireClasses, Classes, requirements, Subobjects, AnyOf
<1>2. \A class \in SessionClasses : SessionId \subseteq requirements[class]
  BY DEF SessionClasses, requirements
<1>3. \A class \in WireClasses \ SessionClasses : \A p \in SessionId : p \notin MayCarry(class)
  BY NameCarriers DEF SessionClasses
<1>4. \A class \in SessionClasses : \A c, objs : ClassCopies(class, c, objs, SessionId, {})
  BY SessionCopies DEF SessionClasses
<1> QED BY <1>1, <1>2, <1>3, <1>4, NamedParameters DEF Carrying

LEMMA SenderCarried == Carrying({"SENDER_TEMPLATE"}, Sender, {})
<1>1. {"SENDER_TEMPLATE"} \subseteq WireClasses \ AnyOf
  BY DEF WireClasses, Classes, requirements, Subobjects, AnyOf
<1>2. Sender \subseteq requirements["SENDER_TEMPLATE"]
  BY DEF requirements, Sender
<1>3. \A class \in WireClasses \ {"SENDER_TEMPLATE"} : \A p \in Sender : p \notin MayCarry(class)
  BY Carriers DEF Sender
<1>4. \A class \in {"SENDER_TEMPLATE"} : \A c, objs : ClassCopies(class, c, objs, Sender, {})
  BY SenderCopies DEF Sender
<1> QED BY <1>1, <1>2, <1>3, <1>4, NamedParameters DEF Carrying

LEMMA FilterCarried == Carrying({"FILTER_SPEC"}, FilterNames, {})
<1>1. {"FILTER_SPEC"} \subseteq WireClasses \ AnyOf
  BY DEF WireClasses, Classes, requirements, Subobjects, AnyOf
<1>2. FilterNames \subseteq requirements["FILTER_SPEC"]
  BY DEF requirements, FilterNames
<1>3. \A class \in WireClasses \ {"FILTER_SPEC"} : \A p \in FilterNames : p \notin MayCarry(class)
  BY NameCarriers DEF FilterNames
<1>4. \A class \in {"FILTER_SPEC"} : \A c, objs : ClassCopies(class, c, objs, FilterNames, {})
  BY SenderCopies DEF FilterNames
<1>5. FilterNames \subseteq Parameters \ PT_TAB
  BY NamedParameters DEF FilterNames
<1> QED BY <1>1, <1>2, <1>3, <1>4, <1>5 DEF Carrying

LEMMA NamesSmall == ASSUME NEW c PROVE Small(c, SessionId) /\ Small(c, Sender) /\ Small(c, FilterNames)
BY DEF Small, SessionId, Sender, FilterNames

(* The store has the names of s, or those of s as an answer gives them.    *)
SenderOf(c, s) == \A q \in Names : c.data[q] = s.data[q]

(* What is read says so, and nothing else.                                 *)
BySender(r, s) == SenderOf(r, s) /\ Lacks(r, FilterNames)
ByFilter(r, s) == AnswerTo(r, s) /\ Lacks(r, Sender)

LEMMA SessionSays ==
  ASSUME NEW c, NEW list, MessageFit(c, list), NEW own, NEW other, Naming(list, own, other),
         Has(c, SessionId)
  PROVE  Same(parse_data(WireFrom(c, list)), c, SessionId)
<1>1. PICK class \in SessionClasses : Occurs(class, list)
  BY DEF Naming
<1>2. Good(c)
  BY DEF MessageFit, Fit
<1>3. check_addable(class, c)
  <2>1. \A q \in SessionId : IsPresent(c, q)
    BY <1>2, NamedParameters, GoodPresent DEF Has
  <2> QED BY <2>1 DEF check_addable, AnyOf, requirements, SessionClasses
<1>4. Listed(c, list, SessionClasses)
  BY <1>1, <1>3 DEF Listed, Naming
<1> QED BY <1>4, SessionCarried, NamesSmall, WireSays

LEMMA SenderSays ==
  ASSUME NEW c, NEW list, MessageFit(c, list), Naming(list, "SENDER_TEMPLATE", "FILTER_SPEC"),
         NEW s, Has(s, Names), SenderOf(c, s)
  PROVE  BySender(parse_data(WireFrom(c, list)), s)
<1> DEFINE r == parse_data(WireFrom(c, list))
<1>1. Good(c)
  BY DEF MessageFit, Fit
<1>2. Has(c, SessionId) /\ Has(c, Sender)
  BY DEF Has, SenderOf, Names
<1>3. Same(r, c, SessionId)
  BY <1>2, SessionSays
<1>4. check_addable("SENDER_TEMPLATE", c)
  <2>1. \A q \in Sender : IsPresent(c, q)
    BY <1>1, <1>2, NamedParameters, GoodPresent DEF Has
  <2> QED BY <2>1 DEF check_addable, AnyOf, requirements, Sender
<1>5. Listed(c, list, {"SENDER_TEMPLATE"})
  BY <1>4 DEF Listed, Naming
<1>6. Same(r, c, Sender)
  BY <1>5, SenderCarried, NamesSmall, WireSays
<1>7. Lacks(r, FilterNames)
  BY FilterCarried, WireLacks DEF Naming
<1> HIDE DEF r
<1>8. SenderOf(r, s)
  BY <1>3, <1>6 DEF Same, SenderOf, Names
<1> QED BY <1>7, <1>8 DEF BySender, r

LEMMA FilterSays ==
  ASSUME NEW c, NEW list, MessageFit(c, list), Naming(list, "FILTER_SPEC", "SENDER_TEMPLATE"),
         NEW s, Has(s, Names), AnswerTo(c, s)
  PROVE  ByFilter(parse_data(WireFrom(c, list)), s)
<1> DEFINE r == parse_data(WireFrom(c, list))
<1>1. Good(c)
  BY DEF MessageFit, Fit
<1>2. Has(c, SessionId) /\ Has(c, FilterNames)
  BY DEF Has, AnswerTo, Names, FilterNames, Sender
<1>3. Same(r, c, SessionId)
  BY <1>2, SessionSays
<1>4. check_addable("FILTER_SPEC", c)
  <2>1. \A q \in FilterNames : IsPresent(c, q)
    BY <1>1, <1>2, NamedParameters, GoodPresent DEF Has, FilterNames
  <2> QED BY <2>1 DEF check_addable, AnyOf, requirements, FilterNames
<1>5. Listed(c, list, {"FILTER_SPEC"})
  BY <1>4 DEF Listed, Naming
<1>6. Same(r, c, FilterNames)
  BY <1>5, FilterCarried, NamesSmall, WireSays
<1>7. Lacks(r, Sender)
  BY SenderCarried, WireLacks DEF Naming
<1> HIDE DEF r
<1>8. AnswerTo(r, s)
  BY <1>3, <1>6 DEF Same, AnswerTo, FilterNames
<1> QED BY <1>7, <1>8 DEF ByFilter, r

(* A store without a destination and a filter: what is written from it     *)
(* for an answer names no path.                                            *)
Unnamed(c) == c.data["SESSION_DEST_ADDR"] = << >> /\ c.data["FILTER_SRC_ADDR"] = << >>
Nameless(r) == Lacks(r, Names) /\ Lacks(r, FilterNames)

LEMMA NothingSaid ==
  ASSUME NEW c, NEW list, MessageFit(c, list), ~ Occurs("SENDER_TEMPLATE", list), Unnamed(c)
  PROVE  Nameless(parse_data(WireFrom(c, list)))
<1> DEFINE r == parse_data(WireFrom(c, list))
<1>1. ~ Has(c, SessionId) /\ ~ Has(c, FilterNames)
  BY DEF Has, Unnamed, SessionId, FilterNames
<1>2. Lacks(r, SessionId \cup {})
  BY <1>1, SessionCarried, NamesSmall, WireSays
<1>3. Lacks(r, FilterNames \cup {})
  BY <1>1, FilterCarried, NamesSmall, WireSays
<1>4. Lacks(r, Sender)
  BY SenderCarried, WireLacks
<1> HIDE DEF r
<1> QED BY <1>2, <1>3, <1>4 DEF Lacks, Nameless, Names, r

-----------------------------------------------------------------------------
(* Which lists name the path: of classes in K, at most n, those of X among *)
(* them.                                                                   *)

LEMMA OnlyShows ==
  ASSUME NEW K, NEW list, NEW n, Shows(list, K, n, {}), NEW holds
  PROVE  Shows(Only(holds, list), K, n, {})
<1>1. << >> \in Seq(K) /\ Len(<< >>) = 0
  OBVIOUS
<1>2. Only(holds, list) = list \/ Only(holds, list) = << >>
  BY DEF Only
<1>3. CASE Only(holds, list) = list
  BY <1>3
<1>4. CASE Only(holds, list) = << >>
  BY <1>1, <1>4 DEF Shows
<1> QED BY <1>2, <1>3, <1>4

(* Lists of one class and the identifier of a call.                        *)
LEMMA OneShows ==
  ASSUME NEW K, NEW x \in K
  PROVE  Shows(<< x >>, K, 1, {x}) /\ \A holds : Shows(Only(holds, << x >>), K, 1, {})
<1> DEFINE s == << x >>
<1>1. s \in Seq(K) /\ Len(s) = 1 /\ DOMAIN s = 1..1 /\ s[1] = x
  OBVIOUS
<1> HIDE DEF s
<1>2. Shows(s, K, 1, {x}) /\ Shows(s, K, 1, {})
  BY <1>1 DEF Shows, Occurs
<1> QED BY <1>2, OnlyShows DEF s

LEMMA CallShows ==
  ASSUME NEW K, {"CALL_ID_0", "CALL_ID_1", "CALL_ID_2"} \subseteq K, NEW c
  PROVE  Shows(CallId(c), K, 1, {}) /\ \A holds : Shows(Only(holds, CallId(c)), K, 1, {})
<1>1. \E x \in {"CALL_ID_0", "CALL_ID_1", "CALL_ID_2"} : CallId(c) = << x >>
  BY DEF CallId
<1>2. PICK x \in K : CallId(c) = << x >>
  BY <1>1
<1>3. Shows(CallId(c), K, 1, {})
  <2>1. Shows(<< x >>, K, 1, {x})
    BY OneShows
  <2> QED BY <1>2, <2>1 DEF Shows
<1> QED BY <1>3, OnlyShows

LEMMA CreateNaming ==
  ASSUME NEW conf, NEW c
  PROVE  \E x \in SessionClasses :
           Shows(adding_create_path_objects(conf, c), SenderKinds, 18, {x, "SENDER_TEMPLATE"})
<1> DEFINE hop == HopFor(Read(conf, "LSP_SWITCHING_TYPE"))
           K == SenderKinds
           a == << "GENERALIZED_LABEL_REQUEST", "SENDER_TEMPLATE" >>
           b == Only(IsPresent(conf, "UPSTREAM_LABEL"), << "UPSTREAM_LABEL" >>)
           d == Only(~ translator /\ IsPresent(conf, "ERO"), << "ERO" >>)
           e1 == << "SESSION_IETF", hop, "TIME_VALUES", "SESSION_ATTRIBUTE",
                    "TOKEN_SENDER_TSPEC" >>
           e2 == << "MESSAGE_ID", "SESSION_OIF", "IPV4_IF_ID_RSVP_HOP", "TIME_VALUES",
                    "GENERALIZED_UNI", "GU_SOURCE_TNA_ADDRESS",
                    "GU_DESTINATION_TNA_ADDRESS", "GU_SERVICE_LEVEL",
                    "SESSION_ATTRIBUTE", "NOTIFY_REQUEST", "ADMIN_STATUS" >>
           e == IF IETF THEN e1 ELSE e2
           f == Only(proto = "OIFUNI20", << "ETHERNET_SENDER_TSPEC" >> \o CallId(c))
           g == Only(proto = "OIFUNI10", << "SONETSDH_SENDER_TSPEC" >>)
<1>1. Shows(a, K, 2, {"SENDER_TEMPLATE"})
  <2>1. a \in Seq(K) /\ Len(a) = 2 /\ DOMAIN a = 1..2 /\ a[2] = "SENDER_TEMPLATE"
    BY DEF Usual, SenderKinds
  <2> HIDE DEF a, K
  <2> QED BY <2>1 DEF Shows, Occurs
<1>2. Shows(b, K, 1, {}) /\ Shows(d, K, 1, {}) /\ Shows(g, K, 1, {})
  <2>1. "UPSTREAM_LABEL" \in K /\ "ERO" \in K /\ "SONETSDH_SENDER_TSPEC" \in K
    BY DEF Usual, SenderKinds
  <2> HIDE DEF K
  <2> QED BY <2>1, OneShows
<1>3. Shows(f, K, 2, {})
  <2>1. "ETHERNET_SENDER_TSPEC" \in K /\ {"CALL_ID_0", "CALL_ID_1", "CALL_ID_2"} \subseteq K
    BY DEF Usual, SenderKinds
  <2> HIDE DEF K
  <2>2. Shows(<< "ETHERNET_SENDER_TSPEC" >>, K, 1, {"ETHERNET_SENDER_TSPEC"}) /\ Shows(CallId(c), K, 1, {})
    BY <2>1, OneShows, CallShows
  <2>3. Shows(<< "ETHERNET_SENDER_TSPEC" >> \o CallId(c), K, 1 + 1, {"ETHERNET_SENDER_TSPEC"} \cup {})
    BY <2>2, BothShow
  <2>4. Shows(<< "ETHERNET_SENDER_TSPEC" >> \o CallId(c), K, 2, {})
    BY <2>3 DEF Shows
  <2> QED BY <2>4, OnlyShows
<1>4. \E x \in SessionClasses : Shows(e, K, 11, {x})
  <2>1. hop = "IPV4_RSVP_HOP" \/ hop = "IPV4_IF_ID_RSVP_HOP"
    BY DEF HopFor
  <2> HIDE DEF hop
  <2>2. e1 \in Seq(K) /\ Len(e1) = 5 /\ DOMAIN e1 = 1..5 /\ e1[1] = "SESSION_IETF"
    <3>1. /\ "SESSION_IETF" \in K /\ hop \in K /\ "TIME_VALUES" \in K
          /\ "SESSION_ATTRIBUTE" \in K /\ "TOKEN_SENDER_TSPEC" \in K
      BY <2>1 DEF SenderKinds, Usual
    <3> HIDE DEF K
    <3> QED BY <3>1
  <2>3. e2 \in Seq(K) /\ Len(e2) = 11 /\ DOMAIN e2 = 1..11 /\ e2[2] = "SESSION_OIF"
    BY DEF SenderKinds, Usual
  <2> HIDE DEF e1, e2, K
  <2>4. Shows(e1, K, 11, {"SESSION_IETF"}) /\ Shows(e2, K, 11, {"SESSION_OIF"})
    <3>1. Occurs("SESSION_IETF", e1) /\ Occurs("SESSION_OIF", e2)
      BY <2>2, <2>3 DEF Occurs
    <3> QED BY <2>2, <2>3, <3>1 DEF Shows
  <2> QED BY <2>4 DEF SessionClasses
<1>5. adding_create_path_objects(conf, c) = a \o b \o d \o e \o f \o g
  BY Zenon DEF adding_create_path_objects
<1> HIDE DEF a, b, d, e, f, g, K
<1>6. PICK x \in SessionClasses : Shows(e, K, 11, {x})
  BY <1>4
<1>7. Shows(a \o b, K, 2 + 1, {"SENDER_TEMPLATE"} \cup {})
  BY <1>1, <1>2, BothShow
<1>8. Shows(a \o b \o d, K, 2 + 1 + 1, {"SENDER_TEMPLATE"} \cup {} \cup {})
  BY <1>2, <1>7, BothShow
<1>9. Shows(a \o b \o d \o e, K, 2 + 1 + 1 + 11, {"SENDER_TEMPLATE"} \cup {} \cup {} \cup {x})
  BY <1>6, <1>8, BothShow
<1>10. Shows(a \o b \o d \o e \o f, K, 2 + 1 + 1 + 11 + 2, {"SENDER_TEMPLATE"} \cup {} \cup {} \cup {x} \cup {})
  BY <1>3, <1>9, BothShow
<1>11. Shows(a \o b \o d \o e \o f \o g, K, 2 + 1 + 1 + 11 + 2 + 1, {"SENDER_TEMPLATE"} \cup {} \cup {} \cup {x} \cup {} \cup {})
  BY <1>2, <1>10, BothShow
<1>12. Shows(a \o b \o d \o e \o f \o g, K, 18, {x, "SENDER_TEMPLATE"})
  <2>1. 2 + 1 + 1 + 11 + 2 + 1 = 18
    OBVIOUS
  <2> QED BY <1>11, <2>1 DEF Shows
<1> QED BY <1>5, <1>12 DEF K

LEMMA AtMost ==
  ASSUME NEW K, NEW list, NEW m, NEW n \in Nat, NEW X, Shows(list, K, m, X), m <= n
  PROVE  Shows(list, K, n, X)
BY DEF Shows

(* What comes behind: the classes of ethernet and SONET and a call. *)
LEMMA TailShows ==
  ASSUME NEW K, CallKinds \subseteq K, NEW x \in K, NEW y \in K, NEW h, NEW i, NEW c
  PROVE  /\ Shows(Only(h, << x >> \o CallId(c)) \o Only(i, << y >>), K, 40, {})
         /\ Shows(Only(h, << x >> \o CallId(c)), K, 40, {})
<1>1. Shows(<< x >>, K, 1, {x}) /\ Shows(Only(i, << y >>), K, 1, {})
  BY OneShows
<1>2. Shows(CallId(c), K, 1, {})
  BY CallShows DEF CallKinds
<1>3. Shows(<< x >> \o CallId(c), K, 1 + 1, {x} \cup {})
  BY <1>1, <1>2, BothShow
<1>4. Shows(<< x >> \o CallId(c), K, 1 + 1, {})
  BY <1>3 DEF Shows
<1>5. Shows(Only(h, << x >> \o CallId(c)), K, 1 + 1, {})
  BY <1>4, OnlyShows
<1>6. Shows(Only(h, << x >> \o CallId(c)) \o Only(i, << y >>), K, 1 + 1 + 1, {} \cup {})
  BY <1>1, <1>5, BothShow
<1>7. 1 + 1 + 1 <= 40 /\ 40 \in Nat /\ 1 + 1 <= 40 /\ {} \cup {} = {}
  OBVIOUS
<1> QED BY <1>5, <1>6, <1>7, AtMost

LEMMA ResvNaming ==
  ASSUME NEW path, NEW c
  PROVE  \E x \in SessionClasses :
           Shows(adding_resv_objects(path, c), FilterKinds, 11, {x, "FILTER_SPEC"})
<1> DEFINE switching == IF IsPresent(path, "LSP_SWITCHING_TYPE")
                        THEN Read(path, "LSP_SWITCHING_TYPE") ELSE 0
           hop == HopFor(switching)
           K == FilterKinds
           a == << "SESSION_IETF", hop, "TIME_VALUES", "STYLE",
                   "TOKEN_FLOWSPEC", "FILTER_SPEC", "GENERALIZED_LABEL" >>
           b == << "MESSAGE_ID", "SESSION_OIF", "IPV4_IF_ID_RSVP_HOP", "TIME_VALUES",
                   "STYLE", "SONETSDH_FLOWSPEC", "FILTER_SPEC", "GENERALIZED_LABEL",
                   "RESV_CONFIRM", "TOKEN_FLOWSPEC" >>
           d == Only(proto = "OIFUNI20", CallId(c))
<1>1. hop = "IPV4_RSVP_HOP" \/ hop = "IPV4_IF_ID_RSVP_HOP"
  BY DEF HopFor
<1>2. adding_resv_objects(path, c) = IF IETF THEN a ELSE b \o d
  BY Zenon DEF adding_resv_objects
<1> HIDE DEF hop
<1>3. a \in Seq(K) /\ Len(a) = 7 /\ DOMAIN a = 1..7 /\ a[1] = "SESSION_IETF" /\ a[6] = "FILTER_SPEC"
  <2>1. /\ "SESSION_IETF" \in K /\ hop \in K /\ "TIME_VALUES" \in K
        /\ "STYLE" \in K /\ "TOKEN_FLOWSPEC" \in K
        /\ "FILTER_SPEC" \in K /\ "GENERALIZED_LABEL" \in K
    BY <1>1 DEF FilterKinds, Added, Usual
  <2> HIDE DEF K
  <2> QED BY <2>1
<1>4. /\ b \in Seq(K) /\ Len(b) = 10 /\ DOMAIN b = 1..10 /\ b[2] = "SESSION_OIF"
      /\ b[7] = "FILTER_SPEC"
  BY DEF FilterKinds, Added, Usual
<1>5. Shows(d, K, 1, {})
  BY KindsOfCalls, CallShows DEF CallKinds
<1> HIDE DEF a, b, d, K
<1>6. Shows(a, K, 11, {"SESSION_IETF", "FILTER_SPEC"})
  BY <1>3 DEF Shows, Occurs
<1>7. Shows(b, K, 10, {"SESSION_OIF", "FILTER_SPEC"})
  BY <1>4 DEF Shows, Occurs
<1>8. Shows(b \o d, K, 10 + 1, {"SESSION_OIF", "FILTER_SPEC"} \cup {})
  BY <1>5, <1>7, BothShow
<1>9. Shows(b \o d, K, 11, {"SESSION_OIF", "FILTER_SPEC"})
  <2>1. 10 + 1 = 11 /\ {"SESSION_OIF", "FILTER_SPEC"} \cup {} = {"SESSION_OIF", "FILTER_SPEC"}
    OBVIOUS
  <2> QED BY <1>8, <2>1
<1> QED BY <1>2, <1>6, <1>9 DEF SessionClasses, K

(* With the flags of ADMIN_STATUS behind.                                  *)
LEMMA FlagsShow ==
  ASSUME NEW K, "ADMIN_STATUS" \in K, NEW list, NEW n, NEW X, Shows(list, K, n, X)
  PROVE  Shows(list \o << "ADMIN_STATUS" >>, K, n + 1, X)
<1>1. Shows(<< "ADMIN_STATUS" >>, K, 1, {"ADMIN_STATUS"})
  BY OneShows
<1>2. Shows(list \o << "ADMIN_STATUS" >>, K, n + 1, X \cup {"ADMIN_STATUS"})
  BY <1>1, BothShow
<1> QED BY <1>2 DEF Shows

SenderList(list) == list \in Seq(Usual) /\ Naming(list, "SENDER_TEMPLATE", "FILTER_SPEC")
FilterList(list) == list \in Seq(Added) /\ Naming(list, "FILTER_SPEC", "SENDER_TEMPLATE")

LEMMA CreateNames ==
  ASSUME NEW conf, NEW c
  PROVE  /\ SenderList(adding_create_path_objects(conf, c))
         /\ SenderList(adding_create_path_objects(conf, c) \o << "ADMIN_STATUS" >>)
<1> DEFINE list == adding_create_path_objects(conf, c)
<1>1. PICK x \in SessionClasses : Shows(list, SenderKinds, 18, {x, "SENDER_TEMPLATE"})
  BY CreateNaming
<1>2. "ADMIN_STATUS" \in SenderKinds
  BY DEF SenderKinds, Usual
<1> HIDE DEF list
<1>3. Shows(list \o << "ADMIN_STATUS" >>, SenderKinds, 18 + 1, {x, "SENDER_TEMPLATE"})
  BY <1>1, <1>2, FlagsShow
<1>4. 18 < 100 /\ 18 + 1 < 100
  OBVIOUS
<1> QED BY <1>1, <1>3, <1>4, SenderNaming DEF list, SenderList

LEMMA ResvNames ==
  ASSUME NEW path, NEW c
  PROVE  /\ FilterList(adding_resv_objects(path, c))
         /\ FilterList(adding_resv_objects(path, c) \o << "ADMIN_STATUS" >>)
<1> DEFINE list == adding_resv_objects(path, c)
<1>1. PICK x \in SessionClasses : Shows(list, FilterKinds, 11, {x, "FILTER_SPEC"})
  BY ResvNaming
<1>2. "ADMIN_STATUS" \in FilterKinds
  BY DEF FilterKinds, Added, Usual
<1> HIDE DEF list
<1>3. Shows(list \o << "ADMIN_STATUS" >>, FilterKinds, 11 + 1, {x, "FILTER_SPEC"})
  BY <1>1, <1>2, FlagsShow
<1>4. 11 < 100 /\ 11 + 1 < 100
  OBVIOUS
<1> QED BY <1>1, <1>3, <1>4, FilterNaming DEF list, FilterList

LEMMA RouterListNames == ASSUME NEW c PROVE FilterList(RouterList(c))
<1> DEFINE a == adding_resv_objects(Empty, c)
           b == << "ETHERNET_FLOWSPEC", "ADMIN_STATUS" >>
           K == FilterKinds
<1>1. PICK x \in SessionClasses : Shows(a, K, 11, {x, "FILTER_SPEC"})
  BY ResvNaming
<1>2. b \in Seq(K) /\ Len(b) = 2
  BY DEF FilterKinds, Added, Usual
<1>3. RouterList(c) = a \o b
  BY DEF RouterList
<1> HIDE DEF a, b, K
<1>4. Shows(b, K, 2, {})
  BY <1>2 DEF Shows
<1>5. Shows(a \o b, K, 11 + 2, {x, "FILTER_SPEC"} \cup {})
  BY <1>1, <1>4, BothShow
<1>6. Shows(a \o b, K, 11 + 2, {x, "FILTER_SPEC"}) /\ 11 + 2 < 100
  BY <1>5 DEF Shows
<1> QED BY <1>3, <1>6, FilterNaming DEF FilterList, K

(* The fixed beginning of a list and what may come behind it.              *)
LEMMA SenderListed ==
  ASSUME NEW a, NEW b, NEW n, n < 50, NEW x \in SessionClasses,
         Shows(a, SenderKinds, n, {x, "SENDER_TEMPLATE"})
  PROVE  /\ SenderList(a)
         /\ Shows(b, SenderKinds, 40, {}) => SenderList(a \o b)
<1>1. n \in Nat
  BY DEF Shows
<1>2. n < 100 /\ n + 40 < 100
  BY <1>1
<1>3. SenderList(a)
  BY <1>2, SenderNaming DEF SenderList
<1>4. ASSUME Shows(b, SenderKinds, 40, {}) PROVE SenderList(a \o b)
  <2>1. Shows(a \o b, SenderKinds, n + 40, {x, "SENDER_TEMPLATE"})
    BY <1>4, MoreShow
  <2> QED BY <1>2, <2>1, SenderNaming DEF SenderList
<1> QED BY <1>3, <1>4

LEMMA DeleteNames ==
  /\ SenderList(<< "SESSION_IETF", "IPV4_IF_ID_RSVP_HOP", "SENDER_TEMPLATE",
                   "ETHERNET_SENDER_TSPEC" >>)
  /\ SenderList(<< "SESSION_IETF", "IPV4_RSVP_HOP", "SENDER_TEMPLATE",
                   "TOKEN_SENDER_TSPEC" >>)
<1> DEFINE a == << "SESSION_IETF", "IPV4_IF_ID_RSVP_HOP", "SENDER_TEMPLATE",
                   "ETHERNET_SENDER_TSPEC" >>
           b == << "SESSION_IETF", "IPV4_RSVP_HOP", "SENDER_TEMPLATE",
                   "TOKEN_SENDER_TSPEC" >>
<1>1. /\ a \in Seq(SenderKinds) /\ Len(a) = 4 /\ DOMAIN a = 1..4 /\ a[1] = "SESSION_IETF"
      /\ a[3] = "SENDER_TEMPLATE"
  BY DEF SenderKinds, Usual
<1>2. /\ b \in Seq(SenderKinds) /\ Len(b) = 4 /\ DOMAIN b = 1..4 /\ b[1] = "SESSION_IETF"
      /\ b[3] = "SENDER_TEMPLATE"
  BY DEF SenderKinds, Usual
<1> HIDE DEF a, b
<1>3. /\ Shows(a, SenderKinds, 4, {"SESSION_IETF", "SENDER_TEMPLATE"})
      /\ Shows(b, SenderKinds, 4, {"SESSION_IETF", "SENDER_TEMPLATE"})
  BY <1>1, <1>2 DEF Shows, Occurs
<1>4. "SESSION_IETF" \in SessionClasses /\ 4 < 50
  BY DEF SessionClasses
<1> QED BY <1>3, <1>4, SenderListed DEF a, b

ReflectList(c) ==
  << "MESSAGE_ID", "SESSION_OIF", "SENDER_TEMPLATE" >>
  \o Only(proto = "OIFUNI20", << "ETHERNET_SENDER_TSPEC" >> \o CallId(c))
  \o Only(proto = "OIFUNI10", << "SONETSDH_SENDER_TSPEC" >>)
  \o << "UPSTREAM_LABEL", "IPV4_IF_ID_RSVP_HOP" >>

LEMMA ReflectNames == ASSUME NEW c PROVE SenderList(ReflectList(c))
<1> DEFINE a == << "MESSAGE_ID", "SESSION_OIF", "SENDER_TEMPLATE" >>
           f == Only(proto = "OIFUNI20", << "ETHERNET_SENDER_TSPEC" >> \o CallId(c))
           g == Only(proto = "OIFUNI10", << "SONETSDH_SENDER_TSPEC" >>)
           b == << "UPSTREAM_LABEL", "IPV4_IF_ID_RSVP_HOP" >>
           K == SenderKinds
<1>1. /\ a \in Seq(K) /\ Len(a) = 3 /\ DOMAIN a = 1..3 /\ a[2] = "SESSION_OIF"
      /\ a[3] = "SENDER_TEMPLATE" /\ b \in Seq(K) /\ Len(b) = 2
  BY DEF SenderKinds, Usual
<1>2. "ETHERNET_SENDER_TSPEC" \in K /\ "SONETSDH_SENDER_TSPEC" \in K
  BY DEF SenderKinds, Usual
<1> HIDE DEF K
<1>3. Shows(f, K, 40, {}) /\ Shows(g, K, 1, {})
  <2>1. CallKinds \subseteq K
    BY KindsOfCalls DEF K
  <2> QED BY <1>2, <2>1, TailShows, OneShows
<1>4. ReflectList(c) = a \o f \o g \o b
  BY DEF ReflectList
<1> HIDE DEF a, b, f, g
<1>5. Shows(a, K, 3, {"SESSION_OIF", "SENDER_TEMPLATE"}) /\ Shows(b, K, 2, {})
  BY <1>1 DEF Shows, Occurs
<1>6. Shows(a \o f, K, 3 + 40, {"SESSION_OIF", "SENDER_TEMPLATE"})
  BY <1>3, <1>5, MoreShow
<1>7. Shows(a \o f \o g, K, 3 + 40 + 1, {"SESSION_OIF", "SENDER_TEMPLATE"} \cup {})
  BY <1>3, <1>6, BothShow
<1>8. Shows(a \o f \o g \o b, K, 3 + 40 + 1 + 2, {"SESSION_OIF", "SENDER_TEMPLATE"} \cup {} \cup {})
  BY <1>5, <1>7, BothShow
<1>9. /\ Shows(a \o f \o g \o b, K, 3 + 40 + 1 + 2, {"SESSION_OIF", "SENDER_TEMPLATE"})
      /\ 3 + 40 + 1 + 2 < 100 /\ "SESSION_OIF" \in SessionClasses
  BY <1>8 DEF SessionClasses, Shows
<1> QED BY <1>4, <1>9, SenderNaming DEF SenderList, K

ConfList ==
  << "MESSAGE_ID", "SESSION_OIF", "ERROR_SPEC", "RESV_CONFIRM", "STYLE" >>
  \o Only(proto = "OIFUNI20", << "ETHERNET_FLOWSPEC" >>)
  \o Only(proto = "OIFUNI10", << "SONETSDH_FLOWSPEC" >>)
  \o << "FILTER_SPEC", "GENERALIZED_LABEL" >>

LEMMA ConfNames == FilterList(ConfList)
<1> DEFINE a == << "MESSAGE_ID", "SESSION_OIF", "ERROR_SPEC", "RESV_CONFIRM", "STYLE" >>
           f == Only(proto = "OIFUNI20", << "ETHERNET_FLOWSPEC" >>)
           g == Only(proto = "OIFUNI10", << "SONETSDH_FLOWSPEC" >>)
           b == << "FILTER_SPEC", "GENERALIZED_LABEL" >>
           K == FilterKinds
<1>1. /\ a \in Seq(K) /\ Len(a) = 5 /\ DOMAIN a = 1..5 /\ a[2] = "SESSION_OIF"
      /\ b \in Seq(K) /\ Len(b) = 2 /\ DOMAIN b = 1..2 /\ b[1] = "FILTER_SPEC"
  BY DEF FilterKinds, Added, Usual
<1>2. "ETHERNET_FLOWSPEC" \in K /\ "SONETSDH_FLOWSPEC" \in K
  BY DEF FilterKinds, Added, Usual
<1> HIDE DEF K
<1>3. Shows(f, K, 1, {}) /\ Shows(g, K, 1, {})
  BY <1>2, OneShows
<1>4. ConfList = a \o f \o g \o b
  BY DEF ConfList
<1> HIDE DEF a, b, f, g
<1>5. Shows(a, K, 5, {"SESSION_OIF"}) /\ Shows(b, K, 2, {"FILTER_SPEC"})
  BY <1>1 DEF Shows, Occurs
<1>6. Shows(a \o f, K, 5 + 1, {"SESSION_OIF"} \cup {})
  BY <1>3, <1>5, BothShow
<1>7. Shows(a \o f \o g, K, 5 + 1 + 1, {"SESSION_OIF"} \cup {} \cup {})
  BY <1>3, <1>6, BothShow
<1>8. Shows(a \o f \o g \o b, K, 5 + 1 + 1 + 2, {"SESSION_OIF"} \cup {} \cup {} \cup {"FILTER_SPEC"})
  BY <1>5, <1>7, BothShow
<1>9. /\ Shows(a \o f \o g \o b, K, 5 + 1 + 1 + 2, {"SESSION_OIF", "FILTER_SPEC"})
      /\ 5 + 1 + 1 + 2 < 100 /\ "SESSION_OIF" \in SessionClasses
  BY <1>8 DEF SessionClasses, Shows
<1> QED BY <1>4, <1>9, FilterNaming DEF FilterList, K

ErrorList(e) ==
  << "MESSAGE_ID", "SESSION_OIF", "ERROR_SPEC", "SENDER_TEMPLATE" >>
  \o Only(proto = "OIFUNI20", << "ETHERNET_SENDER_TSPEC" >> \o CallId(e))
NackList(c, e) ==
  IF IETF THEN << "SESSION_IETF", "ERROR_SPEC", "SENDER_TEMPLATE", "TOKEN_SENDER_TSPEC" >>
  ELSE << "MESSAGE_ID", "SESSION_OIF", "ERROR_SPEC", "SENDER_TEMPLATE",
          "SONETSDH_SENDER_TSPEC" >>
       \o Only(IsPresent(c, "UPSTREAM_LABEL"), << "UPSTREAM_LABEL" >>)
       \o Only(proto = "OIFUNI20", CallId(e))

LEMMA ErrorNames == ASSUME NEW e PROVE SenderList(ErrorList(e))
<1> DEFINE a == << "MESSAGE_ID", "SESSION_OIF", "ERROR_SPEC", "SENDER_TEMPLATE" >>
           f == Only(proto = "OIFUNI20", << "ETHERNET_SENDER_TSPEC" >> \o CallId(e))
           K == SenderKinds
<1>1. /\ a \in Seq(K) /\ Len(a) = 4 /\ DOMAIN a = 1..4 /\ a[2] = "SESSION_OIF"
      /\ a[4] = "SENDER_TEMPLATE" /\ "ETHERNET_SENDER_TSPEC" \in K
  BY DEF SenderKinds, Usual
<1>2. ErrorList(e) = a \o f
  BY DEF ErrorList
<1>3. Shows(f, K, 40, {})
  <2>1. CallKinds \subseteq K
    BY KindsOfCalls DEF K
  <2> HIDE DEF K
  <2> QED BY <1>1, <2>1, TailShows
<1> HIDE DEF a, f, K
<1>4. Shows(a, K, 4, {"SESSION_OIF", "SENDER_TEMPLATE"}) /\ 4 < 50 /\ "SESSION_OIF" \in SessionClasses
  BY <1>1 DEF Shows, Occurs, SessionClasses
<1> QED BY <1>2, <1>3, <1>4, SenderListed DEF K

LEMMA NackNames == ASSUME NEW c, NEW e PROVE SenderList(NackList(c, e))
<1> DEFINE a == << "MESSAGE_ID", "SESSION_OIF", "ERROR_SPEC", "SENDER_TEMPLATE",
                   "SONETSDH_SENDER_TSPEC" >>
           b == << "SESSION_IETF", "ERROR_SPEC", "SENDER_TEMPLATE", "TOKEN_SENDER_TSPEC" >>
           f == Only(IsPresent(c, "UPSTREAM_LABEL"), << "UPSTREAM_LABEL" >>)
           g == Only(proto = "OIFUNI20", CallId(e))
           K == SenderKinds
<1>1. /\ a \in Seq(K) /\ Len(a) = 5 /\ DOMAIN a = 1..5 /\ a[2] = "SESSION_OIF"
      /\ a[4] = "SENDER_TEMPLATE" /\ "UPSTREAM_LABEL" \in K
      /\ b \in Seq(K) /\ Len(b) = 4 /\ DOMAIN b = 1..4 /\ b[1] = "SESSION_IETF"
      /\ b[3] = "SENDER_TEMPLATE"
  BY DEF SenderKinds, Usual
<1>2. NackList(c, e) = IF IETF THEN b ELSE a \o f \o g
  BY DEF NackList
<1>3. Shows(f, K, 1, {}) /\ Shows(g, K, 1, {})
  <2>1. CallKinds \subseteq K
    BY KindsOfCalls DEF K
  <2> HIDE DEF K
  <2> QED BY <1>1, <2>1, OneShows, CallShows DEF CallKinds
<1> HIDE DEF a, b, f, g, K
<1>4. /\ Shows(a, K, 5, {"SESSION_OIF", "SENDER_TEMPLATE"})
      /\ Shows(b, K, 4, {"SESSION_IETF", "SENDER_TEMPLATE"})
  BY <1>1 DEF Shows, Occurs
<1>5. Shows(a \o f, K, 5 + 1, {"SESSION_OIF", "SENDER_TEMPLATE"} \cup {})
  BY <1>3, <1>4, BothShow
<1>6. Shows(a \o f \o g, K, 5 + 1 + 1, {"SESSION_OIF", "SENDER_TEMPLATE"} \cup {} \cup {})
  BY <1>3, <1>5, BothShow
<1>7. /\ Shows(a \o f \o g, K, 5 + 1 + 1, {"SESSION_OIF", "SENDER_TEMPLATE"}) /\ 5 + 1 + 1 < 100 /\ 4 < 100
      /\ "SESSION_OIF" \in SessionClasses /\ "SESSION_IETF" \in SessionClasses
  BY <1>6 DEF SessionClasses, Shows
<1>8. SenderList(a \o f \o g) /\ SenderList(b)
  BY <1>4, <1>7, SenderNaming DEF SenderList, K
<1> QED BY <1>2, <1>8

FlagsList(d) ==
  << "MESSAGE_ID", "SESSION_OIF", "IPV4_IF_ID_RSVP_HOP", "TIME_VALUES",
     "GENERALIZED_LABEL_REQUEST", "GENERALIZED_UNI", "GU_SOURCE_TNA_ADDRESS",
     "GU_DESTINATION_TNA_ADDRESS", "GU_SERVICE_LEVEL", "SENDER_TEMPLATE",
     "ADMIN_STATUS" >>
  \o Only(proto = "OIFUNI20", << "ETHERNET_SENDER_TSPEC" >>)
  \o Only(proto = "OIFUNI10", << "SONETSDH_SENDER_TSPEC" >>)
  \o Only(IsPresent(d, "UPSTREAM_LABEL"), << "UPSTREAM_LABEL" >>)
  \o Only(proto = "OIFUNI20", CallId(d))

LEMMA FlagsNames == ASSUME NEW d PROVE SenderList(FlagsList(d))
<1> DEFINE a == << "MESSAGE_ID", "SESSION_OIF", "IPV4_IF_ID_RSVP_HOP", "TIME_VALUES",
                   "GENERALIZED_LABEL_REQUEST", "GENERALIZED_UNI", "GU_SOURCE_TNA_ADDRESS",
                   "GU_DESTINATION_TNA_ADDRESS", "GU_SERVICE_LEVEL", "SENDER_TEMPLATE",
                   "ADMIN_STATUS" >>
           e == Only(proto = "OIFUNI20", << "ETHERNET_SENDER_TSPEC" >>)
           f == Only(proto = "OIFUNI10", << "SONETSDH_SENDER_TSPEC" >>)
           g == Only(IsPresent(d, "UPSTREAM_LABEL"), << "UPSTREAM_LABEL" >>)
           h == Only(proto = "OIFUNI20", CallId(d))
           K == SenderKinds
           X == {"SESSION_OIF", "SENDER_TEMPLATE"}
<1>1. /\ a \in Seq(K) /\ Len(a) = 11 /\ DOMAIN a = 1..11 /\ a[2] = "SESSION_OIF"
      /\ a[10] = "SENDER_TEMPLATE" /\ "UPSTREAM_LABEL" \in K
      /\ "ETHERNET_SENDER_TSPEC" \in K /\ "SONETSDH_SENDER_TSPEC" \in K
  BY DEF SenderKinds, Usual
<1>2. FlagsList(d) = a \o e \o f \o g \o h
  BY DEF FlagsList
<1>3. Shows(e, K, 1, {}) /\ Shows(f, K, 1, {}) /\ Shows(g, K, 1, {}) /\ Shows(h, K, 1, {})
  <2>1. CallKinds \subseteq K
    BY KindsOfCalls DEF K
  <2> HIDE DEF K
  <2> QED BY <1>1, <2>1, OneShows, CallShows DEF CallKinds
<1> HIDE DEF a, e, f, g, h, K
<1>4. Shows(a, K, 11, X)
  BY <1>1 DEF Shows, Occurs
<1>5. Shows(a \o e, K, 11 + 1, X \cup {})
  BY <1>3, <1>4, BothShow
<1>6. Shows(a \o e \o f, K, 11 + 1 + 1, X \cup {} \cup {})
  BY <1>3, <1>5, BothShow
<1>7. Shows(a \o e \o f \o g, K, 11 + 1 + 1 + 1, X \cup {} \cup {} \cup {})
  BY <1>3, <1>6, BothShow
<1>8. Shows(a \o e \o f \o g \o h, K, 11 + 1 + 1 + 1 + 1, X \cup {} \cup {} \cup {} \cup {})
  BY <1>3, <1>7, BothShow
<1>9. /\ Shows(a \o e \o f \o g \o h, K, 11 + 1 + 1 + 1 + 1, X) /\ 11 + 1 + 1 + 1 + 1 < 100
      /\ "SESSION_OIF" \in SessionClasses
  BY <1>8 DEF SessionClasses, Shows
<1> QED BY <1>2, <1>9, SenderNaming DEF SenderList, K

-----------------------------------------------------------------------------
(* What the handlers set beside the names.                                 *)

LEMMA AsideApart ==
  /\ Aside \subseteq Plain
  /\ Names \cup FilterNames \subseteq Parameters \ PT_TAB
  /\ \A p \in Aside : p \notin Names /\ p \notin FilterNames
<1>1. Aside \subseteq Plain
  BY DEF Aside, StyleFlags, Plain, Parameters, PT_UC, PT_US, PT_UI, PT_TAB, PT_VS
<1>2. Names \cup FilterNames \subseteq Parameters \ PT_TAB
  BY NamedParameters DEF Names, FilterNames
<1>3. \A p \in Aside : p \notin Names /\ p \notin FilterNames
  BY DEF Aside, StyleFlags, Names, SessionId, Sender, FilterNames
<1> QED BY <1>1, <1>2, <1>3

(* The names stay, for a store and for what answers it.                    *)
Keeps(c, d) == \A q \in Names \cup FilterNames : d.data[q] = c.data[q]

LEMMA KeptNames ==
  ASSUME NEW c, NEW d, Keeps(c, d), NEW s
  PROVE  /\ SenderOf(c, s) => SenderOf(d, s)
         /\ AnswerTo(c, s) => AnswerTo(d, s)
         /\ Unnamed(c) => Unnamed(d)
         /\ Has(c, Names) => Has(d, Names)
BY DEF Keeps, SenderOf, AnswerTo, Unnamed, Has, Names, SessionId, Sender, FilterNames

LEMMA AsideKeeps ==
  ASSUME NEW c, NEW calls, Sets(calls, Aside)
  PROVE  Keeps(c, SetEach(c, calls))
BY AsideApart, SetEachLeaves DEF Keeps

LEMMA AsideSetting ==
  ASSUME NEW V
  PROVE  \A p \in Aside, v \in V :
           /\ UC(p, v) \in SettingsIn(V, Aside) /\ US(p, v) \in SettingsIn(V, Aside)
           /\ UI(p, v) \in SettingsIn(V, Aside)
BY AsideApart, SettingIn

LEMMA OthersKeep ==
  ASSUME NEW c, NEW p, p \notin Names, p \notin FilterNames, NEW ty, NEW v, NEW size
  PROVE  /\ Keeps(c, SetAddAt(c, p, ty, v, size, 0)) /\ Keeps(c, SetAt(c, p, ty, v, size, 0))
         /\ Keeps(c, SetAdd(c, p, ty, v))
<1>1. \A q \in Names \cup FilterNames : q \in Parameters /\ q # p
  BY AsideApart
<1>2. \A q \in Names \cup FilterNames :
        /\ SetAddAt(c, p, ty, v, size, 0).data[q] = c.data[q]
        /\ SetAt(c, p, ty, v, size, 0).data[q] = c.data[q]
        /\ SetAddAt(c, p, ty, v, 0, 0).data[q] = c.data[q]
  BY <1>1, AddLeaves
<1> QED BY <1>2 DEF Keeps, SetAdd

LEMMA RemovingKeeps ==
  ASSUME NEW c, NEW S, S \cap (Names \cup FilterNames) = {}
  PROVE  Keeps(c, RemoveEach(c, S))
BY AsideApart DEF Keeps, RemoveEach

LEMMA KeepsOn ==
  ASSUME NEW c, NEW d, NEW e, Keeps(c, d), Keeps(d, e)
  PROVE  Keeps(c, e)
BY DEF Keeps

-----------------------------------------------------------------------------
(* What an answer to the store e sets: the filter, and the tunnel again.   *)

LEMMA FilterAnswers ==
  ASSUME NEW e
  PROVE  /\ Answers(FilterOf(e), e)
         /\ Occurs(FilterAddr(e), FilterOf(e)) /\ Occurs(FilterPort(e), FilterOf(e))
<1> DEFINE f == FilterOf(e)
<1>1. /\ DOMAIN f = 1..2 /\ f[1] = FilterAddr(e) /\ f[2] = FilterPort(e)
  BY DEF FilterOf, FilterAddr, FilterPort
<1>2. GoodSettings(f)
  BY FilterSets DEF Sets
<1> HIDE DEF f
<1>3. \A j \in DOMAIN f : f[j] \in {FilterAddr(e), FilterPort(e), TunnelAgain(e)}
  BY <1>1
<1>4. Answers(f, e)
  BY <1>2, <1>3 DEF Answers
<1>5. 1 \in DOMAIN f /\ 2 \in DOMAIN f
  BY <1>1
<1>6. Occurs(FilterAddr(e), f) /\ Occurs(FilterPort(e), f)
  BY <1>1, <1>5 DEF Occurs
<1> QED BY <1>4, <1>6 DEF f

LEMMA FixedSets == Sets(FixedFilter, Aside)
<1> DEFINE S == SettingsIn({0, 1}, Aside)
<1>1. \A p \in Aside, v \in {0, 1} : UC(p, v) \in S
  BY AsideSetting
<1> HIDE DEF S
<1>2. {"WILDCARD_FILTER", "FIXED_FILTER", "SHARED_EXPLICIT"} \subseteq Aside
  BY DEF Aside, StyleFlags
<1>3. FixedFilter \in Seq(S)
  BY <1>1, <1>2 DEF FixedFilter
<1> QED BY <1>3, SequenceSets DEF S

LEMMA AnswerGives ==
  ASSUME NEW e, Good(e), Has(e, Names), NEW c, SenderOf(c, e), NEW calls, Answers(calls, e),
         Occurs(FilterAddr(e), calls), Occurs(FilterPort(e), calls)
  PROVE  AnswerTo(SetEach(c, calls), e) /\ SenderOf(SetEach(c, calls), e)
<1> DEFINE s == SetEach(c, calls)
           a == Read(e, "SENDER_SRC_ADDR")
           b == Read(e, "SENDER_SRC_ID")
           t == Read(e, "TUNNEL_ID")
<1>0. GoodSettings(calls)
  BY DEF Answers
<1>1. /\ e.data["SENDER_SRC_ADDR"] = << a >> /\ e.data["SENDER_SRC_ID"] = << b >>
      /\ e.data["TUNNEL_ID"] = << t >>
  <2>1. /\ "SENDER_SRC_ADDR" \in Names /\ "SENDER_SRC_ID" \in Names /\ "TUNNEL_ID" \in Names
    BY DEF Names, Sender, SessionId
  <2>2. \A q \in Names : q \in Parameters \ PT_TAB /\ e.data[q] # << >>
    BY AsideApart DEF Has
  <2>3. \A q \in Names : e.data[q] = << Read(e, q) >>
    BY <2>2, OneValue
  <2> QED BY <2>1, <2>3
<1>2. /\ HasType("FILTER_SRC_ADDR", "UI") /\ HasType("FILTER_SRC_PORT", "US")
      /\ HasType("TUNNEL_ID", "US")
      /\ "FILTER_SRC_ADDR" \in Parameters /\ "FILTER_SRC_PORT" \in Parameters
      /\ "TUNNEL_ID" \in Parameters
      /\ "FILTER_SRC_ADDR" \notin Aside /\ "FILTER_SRC_PORT" \notin Aside
      /\ "TUNNEL_ID" \notin Aside
  BY DEF HasType, PT_UI, PT_US, Parameters, Aside, StyleFlags
<1> HIDE DEF a, b, t
<1>3. /\ FilterAddr(e)[1] = "FILTER_SRC_ADDR" /\ FilterAddr(e)[2] = "UI" /\ FilterAddr(e)[3] = a
      /\ FilterPort(e)[1] = "FILTER_SRC_PORT" /\ FilterPort(e)[2] = "US" /\ FilterPort(e)[3] = b
      /\ TunnelAgain(e)[1] = "TUNNEL_ID" /\ TunnelAgain(e)[2] = "US" /\ TunnelAgain(e)[3] = t
  BY DEF FilterAddr, FilterPort, TunnelAgain, UI, US, a, b, t
<1>4. ASSUME NEW j \in DOMAIN calls
      PROVE  \/ calls[j][1] \in Aside \/ calls[j] = FilterAddr(e) \/ calls[j] = FilterPort(e)
             \/ calls[j] = TunnelAgain(e)
  BY DEF Answers
<1>5. s.data["FILTER_SRC_ADDR"] = << a >>
  <2>1. PICK k \in DOMAIN calls : calls[k] = FilterAddr(e)
    BY DEF Occurs
  <2>2. \A j \in DOMAIN calls : calls[j][1] = "FILTER_SRC_ADDR" => calls[j][3] = a
    BY <1>2, <1>3, <1>4
  <2>3. Agreed(calls, "FILTER_SRC_ADDR", a)
    BY <1>0, <1>2, <1>3, <2>1, <2>2 DEF Agreed
  <2> QED BY <2>3, AgreedGives
<1>6. s.data["FILTER_SRC_PORT"] = << b >>
  <2>1. PICK k \in DOMAIN calls : calls[k] = FilterPort(e)
    BY DEF Occurs
  <2>2. \A j \in DOMAIN calls : calls[j][1] = "FILTER_SRC_PORT" => calls[j][3] = b
    BY <1>2, <1>3, <1>4
  <2>3. Agreed(calls, "FILTER_SRC_PORT", b)
    BY <1>0, <1>2, <1>3, <2>1, <2>2 DEF Agreed
  <2> QED BY <2>3, AgreedGives
<1>7. ASSUME NEW q \in Parameters, \A j \in DOMAIN calls : calls[j][1] # q
      PROVE  s.data[q] = c.data[q]
  <2>1. PICK V : calls \in Seq(Settings(V))
    BY <1>0 DEF GoodSettings
  <2>2. \A j \in DOMAIN calls : calls[j] \in Settings(V)
    BY <2>1
  <2>3. \A j \in DOMAIN calls : calls[j][1] \in Parameters \ {q}
    BY <1>7, <2>2 DEF Settings, Plain
  <2>4. Sets(calls, Parameters \ {q})
    BY <1>0, <2>3 DEF Sets
  <2> QED BY <2>4, SetEachLeaves
<1>8. s.data["TUNNEL_ID"] = c.data["TUNNEL_ID"]
  <2>1. c.data["TUNNEL_ID"] = << t >>
    <3>1. "TUNNEL_ID" \in Names
      BY DEF Names, SessionId
    <3> QED BY <1>1, <3>1 DEF SenderOf
  <2>2. CASE \A j \in DOMAIN calls : calls[j][1] # "TUNNEL_ID"
    BY <1>2, <1>7, <2>2
  <2>3. ASSUME NEW k \in DOMAIN calls, calls[k][1] = "TUNNEL_ID" PROVE s.data["TUNNEL_ID"] = << t >>
    <3>1. calls[k] = TunnelAgain(e)
      BY <1>2, <1>3, <1>4, <2>3
    <3>2. \A j \in DOMAIN calls : calls[j][1] = "TUNNEL_ID" => calls[j][3] = t
      BY <1>2, <1>3, <1>4
    <3>3. Agreed(calls, "TUNNEL_ID", t)
      BY <1>0, <1>2, <1>3, <3>1, <3>2 DEF Agreed
    <3> QED BY <3>3, AgreedGives
  <2> QED BY <2>1, <2>2, <2>3
<1>9. ASSUME NEW q \in Names PROVE s.data[q] = c.data[q]
  <2>1. CASE q = "TUNNEL_ID"
    BY <1>8, <2>1
  <2>2. CASE q # "TUNNEL_ID"
    <3>1. q \in Parameters /\ q \notin Aside /\ q # "FILTER_SRC_ADDR" /\ q # "FILTER_SRC_PORT"
      BY AsideApart DEF Names, SessionId, Sender
    <3>2. \A j \in DOMAIN calls : calls[j][1] # q
      BY <1>3, <1>4, <2>2, <3>1
    <3> QED BY <1>7, <3>1, <3>2
  <2> QED BY <2>1, <2>2
<1> HIDE DEF s
<1>10. SenderOf(s, e)
  BY <1>9 DEF SenderOf
<1>11. AnswerTo(s, e)
  BY <1>1, <1>5, <1>6, <1>10 DEF AnswerTo, SenderOf, Names
<1> QED BY <1>10, <1>11 DEF s

LEMMA AsideHas ==
  /\ "CONTROL_OUT_IF_ADDR" \in Aside /\ "ERROR_NODE_ADDR" \in Aside /\ "ERROR_FLAGS" \in Aside
  /\ "ERROR_CODE" \in Aside /\ "ERROR_VALUE" \in Aside /\ "RESV_CONFIRM_RECV_ADDR" \in Aside
  /\ "MSG_ID_FLAGS" \in Aside /\ "MSG_ID_EPOCH" \in Aside /\ "MSG_ID_ID" \in Aside
  /\ "ADMIN_STATUS_RTAD_FLAGS" \in Aside
BY DEF Aside

LEMMA LabelKeeps == ASSUME NEW c, NEW raw PROVE Keeps(c, SetLabel(c, raw))
<1>1. "LABEL" \notin Names /\ "LABEL" \notin FilterNames
  BY DEF Names, SessionId, Sender, FilterNames
<1> QED BY <1>1, OthersKeep DEF SetLabel

LEMMA FlagKeeps == ASSUME NEW c, NEW v PROVE Keeps(c, SetAdd(c, "ADMIN_STATUS_RTAD_FLAGS", "UC", v))
<1>1. PICK p : p = "ADMIN_STATUS_RTAD_FLAGS"
  OBVIOUS
<1>2. p \notin Names /\ p \notin FilterNames
  BY <1>1 DEF Names, SessionId, Sender, FilterNames
<1>3. Keeps(c, SetAdd(c, p, "UC", v))
  BY <1>2, OthersKeep
<1> QED BY <1>1, <1>3

LEMMA ConfKeeps == ASSUME NEW c PROVE Keeps(c, ConfConf(c))
<1> DEFINE a == Read(c, "CONTROL_OUT_IF_ADDR")
           V == {a, Local, 0, message_id}
           S == SettingsIn(V, Aside)
           calls == << UI("CONTROL_OUT_IF_ADDR", Local), UI("ERROR_NODE_ADDR", Local),
                       UC("ERROR_FLAGS", 0), UC("ERROR_CODE", 0), US("ERROR_VALUE", 0),
                       UI("RESV_CONFIRM_RECV_ADDR", a), UI("MSG_ID_ID", message_id) >>
<1>1. a \in V /\ Local \in V /\ 0 \in V /\ message_id \in V
  OBVIOUS
<1>2. ConfConf(c) = SetEach(c, calls)
  BY DEF ConfConf
<1> HIDE DEF a, V
<1>3. \A p \in Aside, v \in V : UI(p, v) \in S /\ UC(p, v) \in S /\ US(p, v) \in S
  BY AsideSetting
<1> HIDE DEF S
<1>4. calls \in Seq(S)
  BY <1>1, <1>3, AsideHas
<1> HIDE DEF calls
<1>5. Sets(calls, Aside)
  BY <1>4, SequenceSets DEF S
<1> QED BY <1>2, <1>5, AsideKeeps

LEMMA FlagSettingsKeep ==
  ASSUME NEW c
  PROVE  Keeps(c, SetEach(c, << UI("MSG_ID_ID", message_id), UC("ADMIN_STATUS_RTAD_FLAGS", 9) >>))
<1> DEFINE V == {9, message_id}
           S == SettingsIn(V, Aside)
           calls == << UI("MSG_ID_ID", message_id), UC("ADMIN_STATUS_RTAD_FLAGS", 9) >>
<1>1. 9 \in V /\ message_id \in V
  OBVIOUS
<1> HIDE DEF V
<1>2. \A p \in Aside, v \in V : UC(p, v) \in S /\ UI(p, v) \in S
  BY AsideSetting
<1> HIDE DEF S
<1>3. UI("MSG_ID_ID", message_id) \in S /\ UC("ADMIN_STATUS_RTAD_FLAGS", 9) \in S
  BY <1>1, <1>2, AsideHas
<1>4. calls \in Seq(S)
  BY <1>3
<1> HIDE DEF calls
<1>5. Sets(calls, Aside)
  BY <1>4, SequenceSets DEF S
<1>6. Keeps(c, SetEach(c, calls))
  BY <1>5, AsideKeeps
<1> QED BY <1>6 DEF calls

-----------------------------------------------------------------------------
(* The answers to a PATH name its sender in the filter.                    *)

Named(c) == Good(c) /\ Has(c, Names)
Answer(r, c) == AnswerTo(r, c) /\ SenderOf(r, c)

LEMMA AnswerOn ==
  ASSUME NEW r, NEW c, NEW s, SenderOf(c, s)
  PROVE  /\ AnswerTo(r, c) => AnswerTo(r, s)
         /\ SenderOf(r, c) => SenderOf(r, s)
BY DEF AnswerTo, SenderOf, Names, Sender

LEMMA SameNames ==
  ASSUME NEW c, NEW d, Keeps(c, d)
  PROVE  SenderOf(d, c)
BY DEF Keeps, SenderOf

LEMMA AnswersFixed ==
  ASSUME NEW e, Named(e), NEW c, SenderOf(c, e), NEW calls, Sets(calls, Aside)
  PROVE  Answer(SetEach(c, calls \o FilterOf(e) \o FixedFilter), e)
<1> DEFINE ab == calls \o FilterOf(e)
           all == ab \o FixedFilter
<1>1. Answers(calls, e) /\ Answers(FixedFilter, e)
  BY FixedSets, AsideAnswers
<1>2. /\ Answers(FilterOf(e), e)
      /\ Occurs(FilterAddr(e), FilterOf(e)) /\ Occurs(FilterPort(e), FilterOf(e))
  BY FilterAnswers
<1>3. Answers(ab, e) /\ Occurs(FilterAddr(e), ab) /\ Occurs(FilterPort(e), ab)
  BY <1>1, <1>2, JoinedAnswers
<1> HIDE DEF ab
<1>4. Answers(all, e) /\ Occurs(FilterAddr(e), all) /\ Occurs(FilterPort(e), all)
  BY <1>1, <1>3, JoinedAnswers
<1> HIDE DEF all
<1>5. Answer(SetEach(c, all), e)
  BY <1>4, AnswerGives DEF Named, Answer
<1> QED BY <1>5 DEF all, ab

LEMMA WithFlagsKeep == ASSUME NEW c PROVE Keeps(c, WithFlags(c))
<1>1. WithFlags(c) = c \/ \E v : WithFlags(c) = SetAdd(c, "ADMIN_STATUS_RTAD_FLAGS", "UC", v)
  BY DEF WithFlags
<1>2. Keeps(c, c)
  BY DEF Keeps
<1> QED BY <1>1, <1>2, FlagKeeps

LEMMA ResvAnswers ==
  ASSUME NEW e, Named(e)
  PROVE  Answer(ResvConfiguration(e), e)
<1> DEFINE r == WithFlags(e)
           raw == - OwnNumber(e)
           s == SetLabel(r, raw)
           V == {Local, message_id}
           S == SettingsIn(V, Aside)
           calls == << UI("CONTROL_OUT_IF_ADDR", Local),
                       UI("RESV_CONFIRM_RECV_ADDR", Local), UI("MSG_ID_ID", message_id) >>
<1>1. ResvConfiguration(e) = SetEach(s, calls \o FilterOf(e) \o FixedFilter)
  BY DEF ResvConfiguration
<1> HIDE DEF raw
<1>2. SenderOf(s, e)
  <2>1. Keeps(e, r) /\ Keeps(r, s)
    BY WithFlagsKeep, LabelKeeps
  <2> HIDE DEF r, s
  <2> QED BY <2>1, KeepsOn, SameNames
<1>3. Local \in V /\ message_id \in V
  OBVIOUS
<1> HIDE DEF s, V
<1>4. \A p \in Aside, v \in V : UI(p, v) \in S
  BY AsideSetting
<1> HIDE DEF S
<1>5. calls \in Seq(S)
  BY <1>3, <1>4, AsideHas
<1> HIDE DEF calls
<1>6. Sets(calls, Aside)
  BY <1>5, SequenceSets DEF S
<1>7. Answer(SetEach(s, calls \o FilterOf(e) \o FixedFilter), e)
  BY <1>2, <1>6, AnswersFixed
<1> QED BY <1>1, <1>7

LEMMA ErrorAnswers ==
  ASSUME NEW e, Named(e)
  PROVE  /\ Answer(ErrorConfiguration(e), e)
         /\ Answer(SetAdd(ErrorConfiguration(e), "ADMIN_STATUS_RTAD_FLAGS", "UC", 1), e)
<1> DEFINE raw == - OwnLabel
           s == SetLabel(e, raw)
           V == {0, 1, 4, Epoch, Local, message_id}
           S == SettingsIn(V, Aside)
           calls == << UC("MSG_ID_FLAGS", 1), UI("MSG_ID_EPOCH", Epoch),
                       UI("ERROR_NODE_ADDR", Local), UC("ERROR_FLAGS", 4),
                       UC("ERROR_CODE", 0), US("ERROR_VALUE", 0),
                       UI("MSG_ID_ID", message_id) >>
<1>1. ErrorConfiguration(e) = SetEach(s, calls \o FilterOf(e) \o FixedFilter)
  BY DEF ErrorConfiguration
<1> HIDE DEF raw
<1>2. SenderOf(s, e)
  BY LabelKeeps, SameNames
<1>3. 0 \in V /\ 1 \in V /\ 4 \in V /\ Epoch \in V /\ Local \in V /\ message_id \in V
  OBVIOUS
<1> HIDE DEF s, V
<1>4. \A p \in Aside, v \in V : UC(p, v) \in S /\ US(p, v) \in S /\ UI(p, v) \in S
  BY AsideSetting
<1> HIDE DEF S
<1>5. calls \in Seq(S)
  BY <1>3, <1>4, AsideHas
<1> HIDE DEF calls
<1>6. Sets(calls, Aside)
  BY <1>5, SequenceSets DEF S
<1>7. Answer(SetEach(s, calls \o FilterOf(e) \o FixedFilter), e)
  BY <1>2, <1>6, AnswersFixed
<1> DEFINE r == ErrorConfiguration(e)
           d == SetAdd(r, "ADMIN_STATUS_RTAD_FLAGS", "UC", 1)
<1>8. Answer(r, e)
  BY <1>1, <1>7
<1>9. Keeps(r, d)
  BY FlagKeeps
<1> HIDE DEF r, d
<1>10. Answer(d, e)
  BY <1>8, <1>9, KeptNames DEF Answer
<1> QED BY <1>8, <1>10 DEF r, d

LEMMA NackAnswers ==
  ASSUME NEW e, Named(e)
  PROVE  Answer(NackConfiguration(e), e)
<1> DEFINE V == {0, 2, Local, message_id}
           S == SettingsIn(V, Aside)
           x == << UI("CONTROL_OUT_IF_ADDR", Local) >>
           y == << TunnelAgain(e) >>
           a == << UI("CONTROL_OUT_IF_ADDR", Local), TunnelAgain(e) >>
           b == << UI("ERROR_NODE_ADDR", Local), UC("ERROR_FLAGS", 0),
                   UC("ERROR_CODE", 2), US("ERROR_VALUE", 0), UI("MSG_ID_ID", message_id) >>
<1>1. NackConfiguration(e) = SetEach(e, a \o FilterOf(e) \o b)
  BY DEF NackConfiguration, TunnelAgain
<1>2. 0 \in V /\ 2 \in V /\ Local \in V /\ message_id \in V
  OBVIOUS
<1> HIDE DEF V
<1>3. \A p \in Aside, v \in V : UC(p, v) \in S /\ US(p, v) \in S /\ UI(p, v) \in S
  BY AsideSetting
<1> HIDE DEF S
<1>4. b \in Seq(S)
  BY <1>2, <1>3, AsideHas
<1>5. Answers(a, e)
  <2>1. PICK t : t = Read(e, "TUNNEL_ID")
    OBVIOUS
  <2>2. TunnelAgain(e) = << "TUNNEL_ID", "US", t >>
    BY <2>1 DEF TunnelAgain, US
  <2>3. "TUNNEL_ID" \in Plain /\ "CONTROL_OUT_IF_ADDR" \in Plain
    BY DEF Plain, Parameters, PT_US, PT_UI, PT_TAB, PT_VS
  <2>4. TunnelAgain(e) \in Settings({t, Local}) /\ UI("CONTROL_OUT_IF_ADDR", Local) \in Settings({t, Local})
    BY <2>2, <2>3, Setting DEF UI
  <2>5. a \in Seq(Settings({t, Local}))
    BY <2>4
  <2>6. GoodSettings(a)
    BY <2>5 DEF GoodSettings
  <2>7. DOMAIN a = 1..2 /\ a[1][1] = "CONTROL_OUT_IF_ADDR" /\ a[2] = TunnelAgain(e)
    BY DEF UI
  <2>8. "CONTROL_OUT_IF_ADDR" \in Aside
    BY DEF Aside
  <2> HIDE DEF a
  <2> QED BY <2>6, <2>7, <2>8 DEF Answers
<1> HIDE DEF a, b
<1>6. Answers(b, e)
  BY <1>4, SequenceSets, AsideAnswers DEF S
<1> DEFINE ab == a \o FilterOf(e)
           all == ab \o b
<1>7. Answers(ab, e) /\ Occurs(FilterAddr(e), ab) /\ Occurs(FilterPort(e), ab)
  BY <1>5, FilterAnswers, JoinedAnswers
<1> HIDE DEF ab
<1>8. Answers(all, e) /\ Occurs(FilterAddr(e), all) /\ Occurs(FilterPort(e), all)
  BY <1>6, <1>7, JoinedAnswers
<1> HIDE DEF all
<1>9. SenderOf(e, e)
  BY DEF SenderOf
<1>10. Answer(SetEach(e, all), e)
  BY <1>8, <1>9, AnswerGives DEF Named, Answer
<1> QED BY <1>1, <1>10 DEF all, ab

-----------------------------------------------------------------------------
(* Defaults, copies and the stores of the other messages.                  *)

(* The defaults have all that names a path but where it leads and its      *)
(* tunnel.                                                                 *)
LEMMA DefaultsNames ==
  /\ Lacks(set_conf_defaults, {"SESSION_DEST_ADDR", "TUNNEL_ID"} \cup FilterNames)
  /\ Has(set_conf_defaults, Names \ {"SESSION_DEST_ADDR", "TUNNEL_ID"})
<1> DEFINE d == set_conf_defaults
           X == {UI("EXTENDED_IPV4_ADDR", Local), UI("SENDER_SRC_ADDR", Local),
                 US("SENDER_SRC_ID", 1)}
<1>1. PICK calls : /\ Sets(calls, Defaulted) /\ d = SetEach(Empty, calls)
                   /\ \A x \in X : Occurs(x, calls)
  BY DefaultsSet
<1> HIDE DEF d
<1>2. ASSUME NEW p \in {"SESSION_DEST_ADDR", "TUNNEL_ID"} \cup FilterNames PROVE d.data[p] = << >>
  <2>1. p \in Parameters /\ p \notin Defaulted
    BY DEF FilterNames, Parameters, PT_UI, PT_US, Defaulted
  <2>2. d.data[p] = Empty.data[p]
    BY <1>1, <2>1, SetEachLeaves
  <2> QED BY <2>1, <2>2 DEF Empty
<1>3. ASSUME NEW p \in Parameters, NEW k \in DOMAIN calls, calls[k][1] = p, HasType(p, calls[k][2])
      PROVE  d.data[p] # << >>
  BY <1>1, <1>3, SetEachPresent DEF Sets
<1>4. /\ \E k \in DOMAIN calls : calls[k] = UI("EXTENDED_IPV4_ADDR", Local)
      /\ \E k \in DOMAIN calls : calls[k] = UI("SENDER_SRC_ADDR", Local)
      /\ \E k \in DOMAIN calls : calls[k] = US("SENDER_SRC_ID", 1)
  BY <1>1 DEF Occurs
<1>5. d.data["EXTENDED_IPV4_ADDR"] # << >>
  <2>1. PICK k \in DOMAIN calls : calls[k] = UI("EXTENDED_IPV4_ADDR", Local)
    BY <1>4
  <2>2. /\ calls[k][1] = "EXTENDED_IPV4_ADDR" /\ calls[k][2] = "UI"
        /\ "EXTENDED_IPV4_ADDR" \in Parameters /\ HasType("EXTENDED_IPV4_ADDR", "UI")
    BY <2>1 DEF UI, Parameters, HasType, PT_UI
  <2> QED BY <1>3, <2>2
<1>6. d.data["SENDER_SRC_ADDR"] # << >>
  <2>1. PICK k \in DOMAIN calls : calls[k] = UI("SENDER_SRC_ADDR", Local)
    BY <1>4
  <2>2. /\ calls[k][1] = "SENDER_SRC_ADDR" /\ calls[k][2] = "UI"
        /\ "SENDER_SRC_ADDR" \in Parameters /\ HasType("SENDER_SRC_ADDR", "UI")
    BY <2>1 DEF UI, Parameters, HasType, PT_UI
  <2> QED BY <1>3, <2>2
<1>7. d.data["SENDER_SRC_ID"] # << >>
  <2>1. PICK k \in DOMAIN calls : calls[k] = US("SENDER_SRC_ID", 1)
    BY <1>4
  <2>2. /\ calls[k][1] = "SENDER_SRC_ID" /\ calls[k][2] = "US"
        /\ "SENDER_SRC_ID" \in Parameters /\ HasType("SENDER_SRC_ID", "US")
    BY <2>1 DEF US, Parameters, HasType, PT_US
  <2> QED BY <1>3, <2>2
<1>8. ASSUME NEW p \in Names \ {"SESSION_DEST_ADDR", "TUNNEL_ID"} PROVE d.data[p] # << >>
  BY <1>5, <1>6, <1>7 DEF Names, SessionId, Sender
<1> QED BY <1>2, <1>8 DEF Lacks, Has, d

LEMMA UpdateNames ==
  ASSUME NEW c, NEW d, Good(c), Good(d), NEW s, SenderOf(c, s), ByFilter(d, s)
  PROVE  SenderOf(Update(c, d), s)
<1>1. ASSUME NEW q \in Names PROVE Update(c, d).data[q] = s.data[q]
  <2>1. q \in Parameters
    BY AsideApart
  <2>2. Update(c, d).data[q] = IF d.data[q] # << >> THEN d.data[q] ELSE c.data[q]
    BY <2>1, Copied
  <2>3. c.data[q] = s.data[q]
    BY DEF SenderOf
  <2>4. d.data[q] = s.data[q] \/ d.data[q] = << >>
    BY DEF ByFilter, AnswerTo, Lacks, Names
  <2> QED BY <2>2, <2>3, <2>4
<1> QED BY <1>1 DEF SenderOf

LEMMA MissingNames ==
  ASSUME NEW c, Good(c), NEW s
  PROVE  /\ Has(s, Names) /\ SenderOf(c, s) => SenderOf(AddMissing(c, set_conf_defaults), s)
         /\ Has(s, Names) /\ AnswerTo(c, s) => AnswerTo(AddMissing(c, set_conf_defaults), s)
         /\ Unnamed(c) => Unnamed(AddMissing(c, set_conf_defaults))
<1> DEFINE a == AddMissing(c, set_conf_defaults)
<1>1. \A q \in Parameters : a.data[q] = IF c.data[q] # << >> THEN c.data[q] ELSE set_conf_defaults.data[q]
  BY DefaultsFit, Copied DEF Fit
<1> HIDE DEF a
<1>2. Has(s, Names) /\ SenderOf(c, s) => SenderOf(a, s)
  BY <1>1, AsideApart DEF SenderOf, Has
<1>3. Has(s, Names) /\ AnswerTo(c, s) => AnswerTo(a, s)
  <2>1. /\ SessionId \subseteq Parameters /\ SessionId \subseteq Names
        /\ "FILTER_SRC_ADDR" \in Parameters /\ "FILTER_SRC_PORT" \in Parameters
        /\ "SENDER_SRC_ADDR" \in Names /\ "SENDER_SRC_ID" \in Names
    BY AsideApart DEF Names, FilterNames, Sender
  <2> QED BY <1>1, <2>1 DEF AnswerTo, Has
<1>4. Unnamed(c) => Unnamed(a)
  <2>1. "SESSION_DEST_ADDR" \in Parameters /\ "FILTER_SRC_ADDR" \in Parameters
    BY AsideApart DEF Names, SessionId, FilterNames
  <2>2. /\ set_conf_defaults.data["SESSION_DEST_ADDR"] = << >>
        /\ set_conf_defaults.data["FILTER_SRC_ADDR"] = << >>
    BY DefaultsNames DEF Lacks, FilterNames
  <2> QED BY <1>1, <2>1, <2>2 DEF Unnamed
<1> QED BY <1>2, <1>3, <1>4 DEF a

LEMMA AskedUnnamed ==
  ASSUME NEW v
  PROVE  Unnamed(SetAdd(set_conf_defaults, "TUNNEL_ID", "US", v))
<1> DEFINE d == set_conf_defaults
<1>1. /\ d.data["SESSION_DEST_ADDR"] = << >> /\ d.data["FILTER_SRC_ADDR"] = << >>
  BY DefaultsNames DEF Lacks, FilterNames
<1>2. "SESSION_DEST_ADDR" \in Parameters /\ "FILTER_SRC_ADDR" \in Parameters
  BY AsideApart DEF Names, SessionId, FilterNames
<1> HIDE DEF d
<1>3. PICK t, ty : t = "TUNNEL_ID" /\ ty = "US"
  OBVIOUS
<1>4. "SESSION_DEST_ADDR" # t /\ "FILTER_SRC_ADDR" # t
  BY <1>3
<1>5. /\ SetAddAt(d, t, ty, v, 0, 0).data["SESSION_DEST_ADDR"] = << >>
      /\ SetAddAt(d, t, ty, v, 0, 0).data["FILTER_SRC_ADDR"] = << >>
  BY <1>1, <1>2, <1>4, AddLeaves
<1> QED BY <1>3, <1>5 DEF Unnamed, SetAdd, d

HandlesApart == InterfaceHandles \cup {"UPSTREAM_LABEL", "REFRESH_PERIOD", "MSG_ID_ID"}
LEMMA HandlesNotNames == HandlesApart \cap (Names \cup FilterNames) = {}
BY DEF HandlesApart, InterfaceHandles, Names, SessionId, Sender, FilterNames

(* What stays true of a store whose names are kept, for s.                 *)
LEMMA DeleteKeeps ==
  LET a == AddMissing(configuration, set_conf_defaults)
  IN  Keeps(a, DeleteConf) /\ Keeps(a, RemoveParam(DeleteConf, "REFRESH_PERIOD"))
<1> DEFINE a == AddMissing(configuration, set_conf_defaults)
           P == {"UPSTREAM_LABEL"} \cup InterfaceHandles
           b == RemoveEach(a, P)
           d == SetAt(b, "MSG_ID_ID", "UI", message_id, 0, 0)
           e == RemoveParam(d, "REFRESH_PERIOD")
<1>1. DeleteConf = d
  BY DEF DeleteConf
<1> HIDE DEF a
<1>2. P \cap (Names \cup FilterNames) = {}
  BY HandlesNotNames DEF HandlesApart
<1> HIDE DEF P
<1>3. Keeps(a, b)
  BY <1>2, RemovingKeeps
<1> HIDE DEF b
<1>4. Keeps(b, d)
  <2>1. PICK q : q = "MSG_ID_ID"
    OBVIOUS
  <2>2. q \notin Names /\ q \notin FilterNames
    BY <2>1, HandlesNotNames DEF HandlesApart
  <2>3. Keeps(b, SetAt(b, q, "UI", message_id, 0, 0))
    BY <2>2, OthersKeep
  <2> QED BY <2>1, <2>3
<1> HIDE DEF d
<1>5. Keeps(d, e)
  <2>1. PICK q : q = "REFRESH_PERIOD"
    OBVIOUS
  <2>2. q \notin Names /\ q \notin FilterNames /\ q \notin PT_TAB
    BY <2>1, HandlesNotNames DEF HandlesApart, PT_TAB
  <2>3. RemoveParam(d, q) = Slot(d, q, << >>, 0)
    BY <2>2 DEF RemoveParam, RemoveValue
  <2>4. \A p \in Names \cup FilterNames : Slot(d, q, << >>, 0).data[p] = d.data[p]
    BY <2>2, AsideApart, SlotLeaves
  <2> QED BY <2>1, <2>3, <2>4 DEF Keeps
<1> HIDE DEF e
<1>6. Keeps(a, d) /\ Keeps(a, e)
  BY <1>3, <1>4, <1>5, KeepsOn
<1> QED BY <1>1, <1>6 DEF a, e

LEMMA ResvDeleteKeeps == Keeps(configuration, ResvDelete)
<1> DEFINE d == SetAdd(configuration, "ADMIN_STATUS_RTAD_FLAGS", "UC", 9)
           raw == - label
<1>1. Keeps(configuration, d)
  BY FlagKeeps
<1>2. ResvDelete = SetLabel(d, raw)
  BY DEF ResvDelete
<1> HIDE DEF d, raw
<1>3. Keeps(d, ResvDelete)
  BY <1>2, LabelKeeps
<1> QED BY <1>1, <1>3, KeepsOn

(* The answer to the flags R and D in a RESV names the sender again.       *)
ReflectStore(c) ==
  SetEach(c, << UC("MSG_ID_FLAGS", 1), UI("MSG_ID_EPOCH", Epoch), UI("MSG_ID_ID", message_id),
                UI("SENDER_SRC_ADDR", Read(c, "FILTER_SRC_ADDR")),
                US("SENDER_SRC_ID", Read(c, "FILTER_SRC_PORT")),
                UI("CONTROL_OUT_IF_ADDR", Local) >>)

LEMMA ReflectNamed ==
  ASSUME NEW c, Good(c), NEW s, Has(s, Names), AnswerTo(c, s)
  PROVE  SenderOf(ReflectStore(c), s)
<1> DEFINE a == Read(c, "FILTER_SRC_ADDR")
           b == Read(c, "FILTER_SRC_PORT")
           V == {a, b, 1, Epoch, Local, message_id}
           S == SettingsIn(V, Common)
           calls == << UC("MSG_ID_FLAGS", 1), UI("MSG_ID_EPOCH", Epoch),
                       UI("MSG_ID_ID", message_id), UI("SENDER_SRC_ADDR", a),
                       US("SENDER_SRC_ID", b), UI("CONTROL_OUT_IF_ADDR", Local) >>
           r == SetEach(c, calls)
<1>1. ReflectStore(c) = r
  BY DEF ReflectStore
<1>2. s.data["SENDER_SRC_ADDR"] = << a >> /\ s.data["SENDER_SRC_ID"] = << b >>
  <2>1. /\ c.data["FILTER_SRC_ADDR"] = s.data["SENDER_SRC_ADDR"]
        /\ c.data["FILTER_SRC_PORT"] = s.data["SENDER_SRC_ID"]
        /\ s.data["SENDER_SRC_ADDR"] # << >> /\ s.data["SENDER_SRC_ID"] # << >>
    BY DEF AnswerTo, Has, Names, Sender
  <2>2. /\ "FILTER_SRC_ADDR" \in Parameters \ PT_TAB /\ "FILTER_SRC_PORT" \in Parameters \ PT_TAB
    BY NamedParameters
  <2>3. /\ c.data["FILTER_SRC_ADDR"] = << a >> /\ c.data["FILTER_SRC_PORT"] = << b >>
    BY <2>1, <2>2, OneValue
  <2> QED BY <2>1, <2>3
<1>3. a \in V /\ b \in V /\ 1 \in V /\ Epoch \in V /\ Local \in V /\ message_id \in V
  OBVIOUS
<1> HIDE DEF a, b, V
<1>4. \A p \in Common, v \in V : UI(p, v) \in S /\ UC(p, v) \in S /\ US(p, v) \in S
  BY CommonSetting
<1> HIDE DEF S
<1>5. calls \in Seq(S)
  BY <1>3, <1>4 DEF Common
<1>6. GoodSettings(calls)
  BY <1>5, SequenceSets DEF S, Sets
<1>7. /\ DOMAIN calls = 1..6 /\ calls[1][1] = "MSG_ID_FLAGS" /\ calls[2][1] = "MSG_ID_EPOCH"
      /\ calls[3][1] = "MSG_ID_ID" /\ calls[4][1] = "SENDER_SRC_ADDR"
      /\ calls[5][1] = "SENDER_SRC_ID" /\ calls[6][1] = "CONTROL_OUT_IF_ADDR"
      /\ calls[4][2] = "UI" /\ calls[5][2] = "US" /\ calls[4][3] = a /\ calls[5][3] = b
  BY DEF UC, UI, US
<1> HIDE DEF calls
<1>8. r.data["SENDER_SRC_ADDR"] = << a >>
  <2>1. "SENDER_SRC_ADDR" \in Parameters /\ HasType("SENDER_SRC_ADDR", "UI")
    BY DEF Parameters, HasType, PT_UI
  <2>2. \A j \in DOMAIN calls : calls[j][1] = "SENDER_SRC_ADDR" => calls[j][3] = a
    BY <1>7
  <2>3. Agreed(calls, "SENDER_SRC_ADDR", a)
    BY <1>6, <1>7, <2>1, <2>2 DEF Agreed
  <2> QED BY <2>3, AgreedGives
<1>9. r.data["SENDER_SRC_ID"] = << b >>
  <2>1. "SENDER_SRC_ID" \in Parameters /\ HasType("SENDER_SRC_ID", "US")
    BY DEF Parameters, HasType, PT_US
  <2>2. \A j \in DOMAIN calls : calls[j][1] = "SENDER_SRC_ID" => calls[j][3] = b
    BY <1>7
  <2>3. Agreed(calls, "SENDER_SRC_ID", b)
    BY <1>6, <1>7, <2>1, <2>2 DEF Agreed
  <2> QED BY <2>3, AgreedGives
<1> HIDE DEF S
<1>10. ASSUME NEW q \in SessionId PROVE r.data[q] = c.data[q]
  <2>1. q \in Parameters
    BY NamedParameters
  <2>2. \A j \in DOMAIN calls : calls[j][1] # q
    BY <1>7 DEF SessionId
  <2>3. Sets(calls, Common)
    BY <1>5, SequenceSets DEF S
  <2>4. \A j \in DOMAIN calls : calls[j][1] \in Common \ {q}
    BY <2>2, <2>3 DEF Sets
  <2>5. Sets(calls, Common \ {q})
    BY <1>6, <2>4 DEF Sets
  <2> QED BY <2>1, <2>5, SetEachLeaves
<1> HIDE DEF r
<1>11. SenderOf(r, s)
  BY <1>2, <1>8, <1>9, <1>10 DEF SenderOf, AnswerTo, Names, Sender
<1> QED BY <1>1, <1>11

(* Asked for: what a request has to name.                                  *)
Wanted(c) == Good(c) /\ c.data["SESSION_DEST_ADDR"] # << >> /\ c.data["TUNNEL_ID"] # << >>

LEMMA LinkNames == ASSUME NEW c, Fit(c), Wanted(c) PROVE Wanted(Translated(LinkAddresses(c)))
<1> DEFINE a == Read(c, "EXTENDED_IPV4_ADDR")
           b == Read(c, "CONTROL_OUT_IF_ADDR")
           V == {a, b}
           S == SettingsIn(V, Common)
           calls == << UI("SENDER_SRC_ADDR", a), UI("DATA_OUT_IF_ADDR", b),
                       UI("DATA_IN_IF_ADDR", b) >>
           l == LinkAddresses(c)
           W == {Local, DefaultPathDest}
           T == SettingsIn(W, Common)
           more == << UI("SESSION_DEST_ADDR", DefaultPathDest),
                       UI("EXTENDED_IPV4_ADDR", Local), UI("DATA_OUT_IF_ADDR", Local),
                       UI("DATA_IN_IF_ADDR", Local), UI("SENDER_SRC_ADDR", Local),
                       UI("CONTROL_OUT_IF_ADDR", Local) >>
<1>1. a \in V /\ b \in V /\ Local \in W /\ DefaultPathDest \in W
  OBVIOUS
<1>2. l = SetEach(c, calls)
  BY DEF LinkAddresses
<1>3. Translated(l) = l \/ Translated(l) = SetEach(l, more)
  BY DEF Translated
<1>4. Fit(l)
  BY LinkSets
<1>5. Fit(Translated(l))
  <2> HIDE DEF l
  <2> QED BY <1>4, TranslatedFit
<1> HIDE DEF a, b, V, W, l
<1>6. (\A p \in Common, v \in V : UI(p, v) \in S) /\ (\A p \in Common, v \in W : UI(p, v) \in T)
  BY CommonSetting
<1> HIDE DEF S, T
<1>7. calls \in Seq(S)
  BY <1>1, <1>6 DEF Common
<1>8. more \in Seq(T)
  BY <1>1, <1>6 DEF Common
<1> HIDE DEF calls, more
<1>9. GoodSettings(calls) /\ GoodSettings(more)
  BY <1>7, <1>8, SequenceSets DEF S, T, Sets
<1>10. "SESSION_DEST_ADDR" \in Parameters /\ "TUNNEL_ID" \in Parameters
  BY DEF Parameters, PT_UI, PT_US
<1>11. l.data["SESSION_DEST_ADDR"] # << >> /\ l.data["TUNNEL_ID"] # << >>
  BY <1>2, <1>9, <1>10, SetEachKeeps DEF Wanted
<1>12. /\ Translated(l).data["SESSION_DEST_ADDR"] # << >>
       /\ Translated(l).data["TUNNEL_ID"] # << >>
  BY <1>3, <1>9, <1>10, <1>11, SetEachKeeps
<1> QED BY <1>5, <1>12 DEF Wanted, Fit, l

LEMMA PathConfNames ==
  ASSUME NEW c, Fit(c), Wanted(c)
  PROVE  Has(PathConf(c), Names)
<1> DEFINE a == Translated(LinkAddresses(c))
           b == AddMissing(a, set_conf_defaults)
           d == Numbered(a)
           e == HopWithoutHandles(d)
<1>1. Fit(a) /\ Wanted(a)
  BY LinkSets, TranslatedFit, LinkNames
<1> HIDE DEF a
<1>2. Has(b, Names) /\ Fit(b)
  <2>1. \A p \in Parameters : b.data[p] = IF a.data[p] # << >> THEN a.data[p] ELSE set_conf_defaults.data[p]
    BY <1>1, DefaultsFit, Copied DEF Fit
  <2>2. Fit(b)
    BY <1>1, DefaultsFit, FitCopy
  <2> HIDE DEF b
  <2>3. ASSUME NEW p \in Names PROVE b.data[p] # << >>
    <3>1. p \in Parameters
      BY AsideApart
    <3>2. p \notin {"SESSION_DEST_ADDR", "TUNNEL_ID"} => set_conf_defaults.data[p] # << >>
      BY DefaultsNames DEF Has
    <3>3. p \in {"SESSION_DEST_ADDR", "TUNNEL_ID"} => a.data[p] # << >>
      BY <1>1 DEF Wanted
    <3> QED BY <2>1, <3>1, <3>2, <3>3
  <2> QED BY <2>2, <2>3 DEF Has
<1>3. d = SetAdd(b, "MSG_ID_ID", "UI", message_id)
  BY DEF Numbered
<1> HIDE DEF b, d
<1>4. Has(d, Names) /\ Fit(d)
  <2>1. PICK q, ty : q = "MSG_ID_ID" /\ ty = "UI"
    OBVIOUS
  <2>2. q \notin Names /\ q \notin FilterNames /\ q \notin StyleFlags /\ ty \in Types
    BY <2>1, HandlesNotNames DEF HandlesApart, StyleFlags, Types
  <2>3. Keeps(b, SetAdd(b, q, ty, message_id))
    BY <2>2, OthersKeep
  <2>4. Fit(SetAddAt(b, q, ty, message_id, 0, 0))
    BY <1>2, <2>1, <2>2, FitAdd
  <2> QED BY <1>2, <1>3, <2>1, <2>3, <2>4, KeptNames DEF SetAdd
<1>5. Has(e, Names) /\ Fit(e)
  <2>1. e = d \/ e = RemoveEach(d, InterfaceHandles)
    BY DEF HopWithoutHandles
  <2>2. InterfaceHandles \cap (Names \cup FilterNames) = {}
    BY HandlesNotNames DEF HandlesApart
  <2>3. Keeps(d, RemoveEach(d, InterfaceHandles))
    BY <2>2, RemovingKeeps
  <2>4. Has(RemoveEach(d, InterfaceHandles), Names)
    BY <1>4, <2>3, KeptNames
  <2>5. Fit(RemoveEach(d, InterfaceHandles))
    BY <1>4, InterfaceNoStyle, FitRemove
  <2> HIDE DEF e
  <2> QED BY <1>4, <2>1, <2>4, <2>5
<1>6. PathConf(c) = ForOif20(e)
  BY DEF PathConf, e, d, a
<1> HIDE DEF e
<1>7. \A p \in Names : ForOif20(e).data[p] # << >>
  <2>1. \A p \in Parameters : e.data[p] # << >> => ForOif20(e).data[p] # << >>
    BY <1>5, OifFit
  <2> QED BY <1>5, <2>1, AsideApart DEF Has
<1> QED BY <1>6, <1>7 DEF Has

LEMMA UpdatedNames ==
  ASSUME NEW c, Fit(c), Has(PathConf(c), Names)
  PROVE  SenderOf(Update(c, PathConf(c)), PathConf(c))
<1> DEFINE d == PathConf(c)
<1>1. Good(c) /\ Good(d)
  BY PathConfFit DEF Fit
<1> HIDE DEF d
<1>2. \A p \in Parameters : Update(c, d).data[p] = IF d.data[p] # << >> THEN d.data[p] ELSE c.data[p]
  BY <1>1, Copied
<1>3. \A p \in Names : Update(c, d).data[p] = d.data[p]
  BY <1>2, AsideApart DEF Has, d
<1> QED BY <1>3 DEF SenderOf, d

-----------------------------------------------------------------------------
(* What the agent makes of a request has what the client gave.             *)

(* No parameter is in two rows, and the other parameters of an object are  *)
(* in none.                                                                *)
Beside == {"DATA_IN_IF_ADDR", "DATA_OUT_IF_ADDR", "DATA_OUT_IF_HANDLE", "DATA_IN_IF_HANDLE",
           "CALL_ID_SRC_TN_ADDR"}

LEMMA RowParameters ==
  /\ \A j \in 1..38, k \in 1..38 : Table[j].par = Table[k].par => j = k
  /\ \A k \in 1..38 : Table[k].par \notin Beside
  /\ \A k \in 1..38 : Table[k].id # 34 => HasType(Table[k].par, Table[k].type)
  /\ \A k \in 1..38 : Table[k].id \notin {13, 16} => Table[k].par \in Parameters \ PT_TAB
<1>1. \A k \in 1..38 : Table[k].par \notin Beside
  BY DEF Table, Row, Beside
<1>2. ASSUME NEW k \in 1..38, Table[k].id # 34 PROVE HasType(Table[k].par, Table[k].type)
  <2>1. k # 30
    BY <1>2, RowsFit
  <2>2. \A n \in {9, 10, 16, 17, 28, 29, 31, 37, 38} : HasType(Table[n].par, Table[n].type)
    <3>1. \A n \in {9, 10, 16, 17, 28, 29, 31, 37, 38} : Table[n].type = "UC" /\ Table[n].par \in PT_UC
      BY DEF Table, Row, PT_UC
    <3> QED BY <3>1 DEF HasType
  <2>3. \A n \in {11, 18, 19, 27, 36} : HasType(Table[n].par, Table[n].type)
    <3>1. \A n \in {11, 18, 19, 27, 36} : Table[n].type = "US" /\ Table[n].par \in PT_US
      BY DEF Table, Row, PT_US
    <3> QED BY <3>1 DEF HasType
  <2>4. \A n \in (1..4) \cup {8, 14, 15} \cup (20..26) : HasType(Table[n].par, Table[n].type)
    <3>1. \A n \in (1..4) \cup {8, 14, 15} \cup (20..26) : Table[n].type = "UI" /\ Table[n].par \in PT_UI
      BY DEF Table, Row, PT_UI
    <3> QED BY <3>1 DEF HasType
  <2>5. \A n \in (5..7) \cup (32..35) : HasType(Table[n].par, Table[n].type)
    <3>1. \A n \in (5..7) \cup (32..35) : Table[n].type = "F" /\ Table[n].par \in PT_F
      BY DEF Table, Row, PT_F
    <3> QED BY <3>1 DEF HasType
  <2>6. \A n \in {12, 13} : HasType(Table[n].par, Table[n].type)
    <3>1. Table[12].type = "CS" /\ Table[12].par \in PT_CS /\ Table[13].type = "VS" /\ Table[13].par \in PT_VS
      BY DEF Table, Row, PT_CS, PT_VS
    <3> QED BY <3>1 DEF HasType
  <2>7. \/ k \in {9, 10, 16, 17, 28, 29, 31, 37, 38} \/ k \in {11, 18, 19, 27, 36}
        \/ k \in (1..4) \cup {8, 14, 15} \cup (20..26) \/ k \in (5..7) \cup (32..35) \/ k \in 12..13
    BY <2>1
  <2> QED BY <2>2, <2>3, <2>4, <2>5, <2>6, <2>7
<1>3. \A k \in 1..38 : Table[k].id \notin {13, 16} => Table[k].par \in Parameters \ PT_TAB
  BY DEF Table, Row, Parameters, PT_TAB, PT_UC, PT_US, PT_UI, PT_F, PT_CS
<1>4. \A j \in 1..38, k \in 1..38 : Table[j].par = Table[k].par => j = k
  BY SMTT(60) DEF Table, Row
<1> QED BY <1>1, <1>2, <1>3, <1>4

LEMMA NamesOfRow ==
  ASSUME NEW k \in 1..38, Table[k].id # 13
  PROVE  LET names == AddedAs(Table[k].id)
         IN  /\ names \in Seq({Table[k].par} \cup Beside) /\ Len(names) \in 1..3
             /\ names[1] = Table[k].par
             /\ DataType(Table[k].id) = Table[k].type
<1> DEFINE id == Table[k].id
           names == AddedAs(id)
<1>1. /\ id \notin {13, 14, 15, 21, 22} /\ id \in 1..42
      /\ id = 3 => k = 3
      /\ id = 26 => k = 22
      /\ id = 27 => k = 23
  <2>1. k \in 1..13 \/ k \in 14..18 \/ k \in 19..38
    OBVIOUS
  <2>2. id = IF k <= 13 THEN k ELSE IF k <= 18 THEN k + 2 ELSE k + 4
    BY <2>1, RowsFit
  <2>3. id # 13
    OBVIOUS
  <2> HIDE DEF id
  <2>4. id \in Int
    BY <2>1, <2>2
  <2>5. id \in 1..42 /\ id \notin {14, 15, 21, 22}
    BY <2>1, <2>2
  <2>6. (id = 3 => k = 3) /\ (id = 26 => k = 22) /\ (id = 27 => k = 23)
    BY <2>1, <2>2
  <2> QED BY <2>3, <2>5, <2>6
<1>2. RowOf(id) = Table[k]
  <2> DEFINE P == {i \in 1..Len(Table) : Table[i].id = id}
  <2>1. RowOf(id) = Table[IF P # {} THEN Min(P) ELSE 0]
    BY DEF RowOf, SelectInSeq
  <2>2. Len(Table) = 38
    BY DEF Table
  <2>3. P = {k}
    BY <2>2, RowsApart
  <2>4. Min(P) = k
    BY <2>3 DEF Min
  <2> HIDE DEF P
  <2> QED BY <2>1, <2>3, <2>4
<1>3. DataType(id) = Table[k].type
  BY <1>1, <1>2 DEF DataType, RowOf
<1>4. CASE id = 3
  <2>1. Table[3].par = "CONTROL_OUT_IF_ADDR"
    BY DEF Table, Row
  <2>2. names = << Table[k].par, "DATA_IN_IF_ADDR", "DATA_OUT_IF_ADDR" >>
    BY <1>1, <1>4, <2>1 DEF AddedAs
  <2>3. "DATA_IN_IF_ADDR" \in Beside /\ "DATA_OUT_IF_ADDR" \in Beside
    BY DEF Beside
  <2> DEFINE p == Table[k].par
  <2> HIDE DEF p
  <2>4. << p, "DATA_IN_IF_ADDR", "DATA_OUT_IF_ADDR" >> \in Seq({p} \cup Beside)
    BY <2>3
  <2> QED BY <1>3, <2>2, <2>4 DEF p
<1>5. CASE id = 26
  <2>1. Table[22].par = "CONTROL_OUT_IF_HANDLE"
    BY DEF Table, Row
  <2>2. names = << Table[k].par, "DATA_OUT_IF_HANDLE", "DATA_IN_IF_HANDLE" >>
    BY <1>1, <1>5, <2>1 DEF AddedAs
  <2>3. "DATA_IN_IF_HANDLE" \in Beside /\ "DATA_OUT_IF_HANDLE" \in Beside
    BY DEF Beside
  <2> DEFINE p == Table[k].par
  <2> HIDE DEF p
  <2>4. << p, "DATA_OUT_IF_HANDLE", "DATA_IN_IF_HANDLE" >> \in Seq({p} \cup Beside)
    BY <2>3
  <2> QED BY <1>3, <2>2, <2>4 DEF p
<1>6. CASE id = 27
  <2>1. Table[23].par = "TNA_SRC_ADDR"
    BY DEF Table, Row
  <2>2. names = << Table[k].par, "CALL_ID_SRC_TN_ADDR" >>
    BY <1>1, <1>6, <2>1 DEF AddedAs
  <2>3. "CALL_ID_SRC_TN_ADDR" \in Beside
    BY DEF Beside
  <2> DEFINE p == Table[k].par
  <2> HIDE DEF p
  <2>4. << p, "CALL_ID_SRC_TN_ADDR" >> \in Seq({p} \cup Beside)
    BY <2>3
  <2> QED BY <1>3, <2>2, <2>4 DEF p
<1>7. CASE id \notin {3, 26, 27}
  <2>1. names = << Table[k].par >>
    BY <1>1, <1>2, <1>7 DEF AddedAs, RowOf
  <2> DEFINE p == Table[k].par
  <2> HIDE DEF p
  <2>2. << p >> \in Seq({p} \cup Beside)
    OBVIOUS
  <2> QED BY <1>3, <2>1, <2>2 DEF p
<1> QED BY <1>4, <1>5, <1>6, <1>7

(* The objects are those of the request.                                   *)
Handed(r, i) == Object(i, DataType(i), r[i])

LEMMA ClientObjectsAre ==
  ASSUME NEW r \in Requests, NEW objs, objs = ClientObjects(r)
  PROVE  /\ \A k \in DOMAIN objs : \E i \in DOMAIN r : i \in 1..42 /\ objs[k] = Handed(r, i)
         /\ \A i \in DOMAIN r : \E k \in DOMAIN objs : objs[k] = Handed(r, i)
<1> DEFINE S == DOMAIN r \cap 1..42
           used == Ascending(S)
<1>1. S \in SUBSET (1..42) /\ 42 \in Nat /\ S = DOMAIN r
  BY RequestsAssumption
<1>2. objs = [k \in DOMAIN used |-> Handed(r, used[k])]
  BY DEF ClientObjects, Handed
<1> HIDE DEF S
<1>3. /\ used \in Seq(S) /\ Len(used) = Cardinality(S)
      /\ \A k \in S : \E i \in 1..Cardinality(S) : used[i] = k
  BY <1>1, AscendingOf
<1> HIDE DEF used
<1>4. DOMAIN used = 1..Len(used) /\ \A k \in DOMAIN used : used[k] \in S
  BY <1>3
<1>5. DOMAIN objs = DOMAIN used /\ \A k \in DOMAIN objs : objs[k] = Handed(r, used[k])
  BY <1>2
<1>6. ASSUME NEW k \in DOMAIN objs
      PROVE  \E i \in DOMAIN r : i \in 1..42 /\ objs[k] = Handed(r, i)
  BY <1>1, <1>4, <1>5
<1>7. ASSUME NEW i \in DOMAIN r
      PROVE  \E k \in DOMAIN objs : objs[k] = Handed(r, i)
  <2>1. PICK x \in 1..Cardinality(S) : used[x] = i
    BY <1>1, <1>3, <1>7
  <2>2. x \in DOMAIN objs
    BY <1>3, <1>4, <1>5, <2>1
  <2> QED BY <1>5, <2>1, <2>2
<1> QED BY <1>6, <1>7

LEMMA NamesApart ==
  ASSUME NEW k \in 1..38, NEW i \in 1..42, NEW n \in DOMAIN AddedAs(i),
         AddedAs(i)[n] = Table[k].par
  PROVE  i = Table[k].id
<1>1. i \notin {13, 14, 15, 21, 22}
  <2> SUFFICES ASSUME i \in {13, 14, 15, 21, 22} PROVE FALSE
    OBVIOUS
  <2>1. AddedAs(i) = << >>
    BY DEF AddedAs
  <2> QED BY <2>1
<1>2. PICK j \in 1..38 : Table[j].id = i
  <2>1. CASE i \in 1..13
    BY <2>1, RowsFit
  <2>2. CASE i \in 16..20
    <3>1. i - 2 \in 14..18 /\ (i - 2) + 2 = i
      BY <2>2
    <3> QED BY <3>1, RowsFit
  <2>3. CASE i \in 23..42
    <3>1. i - 4 \in 19..38 /\ (i - 4) + 4 = i
      BY <2>3
    <3> QED BY <3>1, RowsFit
  <2> QED BY <1>1, <2>1, <2>2, <2>3
<1>3. AddedAs(i) \in Seq({Table[j].par} \cup Beside)
  BY <1>1, <1>2, NamesOfRow
<1>4. AddedAs(i)[n] \in {Table[j].par} \cup Beside
  BY <1>3
<1>5. Table[j].par = Table[k].par
  BY <1>4, RowParameters
<1> QED BY <1>2, <1>5, RowParameters

(* What the agent makes of a request has the values of its objects.        *)
LEMMA AskedGives ==
  ASSUME NEW r \in Requests, NEW k \in 1..38, Table[k].id \in DOMAIN r,
         Table[k].id \notin {13, 16, 34}
  PROVE  Asked(r).data[Table[k].par] = << r[Table[k].id] >>
<1> DEFINE objs == ClientObjects(r)
           V == {r[i] : i \in DOMAIN r}
           W == {RouteOf(objs)[n] : n \in DOMAIN RouteOf(objs)}
           X == V \cup W
           id == Table[k].id
           p == Table[k].par
<1>1. objs \in Seq(AskedObjects(X))
  <2>1. \A i \in DOMAIN r : r[i] \in X
    OBVIOUS
  <2> HIDE DEF X
  <2> QED BY <2>1, ClientObjectsIn
<1>2. \A n \in DOMAIN RouteOf(objs) : RouteOf(objs)[n] \in X
  OBVIOUS
<1>3. Asked(r) = AddEach(Empty, NamedCalls(objs) \o RouteCalls(objs))
  BY AskedAs
<1>4. /\ \A m \in DOMAIN objs : \E i \in DOMAIN r : i \in 1..42 /\ objs[m] = Handed(r, i)
      /\ \A i \in DOMAIN r : \E m \in DOMAIN objs : objs[m] = Handed(r, i)
  BY ClientObjectsAre
<1> HIDE DEF objs, X
<1> DEFINE A == AddCalls(X, NoStyle)
           a == NamedCalls(objs)
           b == RouteCalls(objs)
           calls == a \o b
           seqs == [m \in DOMAIN objs |-> CallsOfObject(objs[m])]
<1>5. a \in Seq(A) /\ b \in Seq(A)
  BY <1>1, <1>2, NamedCallsIn, RouteCallsIn
<1>6. /\ p \in Parameters \ PT_TAB /\ p # "ERO" /\ id # 13
      /\ HasType(p, Table[k].type)
  <2>1. p \in Parameters \ PT_TAB /\ HasType(p, Table[k].type)
    BY RowParameters
  <2> QED BY <2>1, RowsApart
<1>7. seqs \in Seq(Seq(A)) /\ DOMAIN seqs = DOMAIN objs
  <2>1. DOMAIN objs = 1..Len(objs) /\ Len(objs) \in Nat
    BY <1>1
  <2>2. \A m \in 1..Len(objs) : CallsOfObject(objs[m]) \in Seq(A)
    BY <1>1, <2>1, CallsOfObjectIn
  <2> HIDE DEF A
  <2>3. seqs \in [1..Len(objs) -> Seq(A)]
    BY <2>1, <2>2
  <2> HIDE DEF seqs
  <2> QED BY <2>1, <2>3
<1>8. a = FlattenSeq(seqs)
  BY DEF NamedCalls
<1>9. ASSUME NEW m \in DOMAIN objs, NEW i \in DOMAIN seqs[m]
      PROVE  \E n \in DOMAIN r : /\ n \in 1..42 /\ i \in DOMAIN AddedAs(n) /\ objs[m] = Handed(r, n)
                                 /\ seqs[m][i].par = AddedAs(n)[i] /\ seqs[m][i].val = r[n]
  <2>1. PICK n \in DOMAIN r : n \in 1..42 /\ objs[m] = Handed(r, n)
    BY <1>4
  <2>2. objs[m].id = n /\ objs[m].type = DataType(n) /\ objs[m].val = r[n]
    BY <2>1 DEF Handed, Object
  <2>3. seqs[m] = [x \in DOMAIN AddedAs(n) |-> Call(AddedAs(n)[x], DataType(n), r[n], 0)]
    BY <2>2 DEF CallsOfObject
  <2> HIDE DEF seqs
  <2>4. i \in DOMAIN AddedAs(n) /\ seqs[m][i] = Call(AddedAs(n)[i], DataType(n), r[n], 0)
    BY <2>3
  <2> QED BY <2>1, <2>4 DEF Call
<1>10. \E m \in DOMAIN objs : /\ 1 \in DOMAIN seqs[m] /\ seqs[m][1].par = p
                              /\ seqs[m][1].type = Table[k].type
  <2>1. PICK m \in DOMAIN objs : objs[m] = Handed(r, id)
    BY <1>4
  <2>2. objs[m].id = id /\ objs[m].type = DataType(id) /\ objs[m].val = r[id]
    BY <2>1 DEF Handed, Object
  <2> DEFINE names == AddedAs(id)
             ty == DataType(id)
             v == r[id]
  <2>3. seqs[m] = [x \in DOMAIN names |-> Call(names[x], ty, v, 0)]
    BY <2>2 DEF CallsOfObject
  <2>4. names \in Seq({p} \cup Beside) /\ Len(names) \in 1..3 /\ names[1] = p /\ ty = Table[k].type
    BY <1>6, NamesOfRow
  <2> HIDE DEF seqs, names, ty, v
  <2>5. 1 \in DOMAIN names
    BY <2>4
  <2>6. 1 \in DOMAIN seqs[m] /\ seqs[m][1] = Call(p, Table[k].type, v, 0)
    BY <2>3, <2>4, <2>5
  <2> QED BY <2>6 DEF Call
<1> HIDE DEF seqs
<1>11. ASSUME NEW j \in DOMAIN a, a[j].par = p PROVE a[j].val = r[id]
  <2>1. PICK m \in DOMAIN seqs : \E i \in DOMAIN seqs[m] : a[j] = seqs[m][i]
    BY <1>7, <1>8, <1>11, FlattenFrom
  <2>2. PICK i \in DOMAIN seqs[m] : a[j] = seqs[m][i]
    BY <2>1
  <2>3. m \in DOMAIN objs
    BY <1>7
  <2>4. PICK n \in DOMAIN r : /\ n \in 1..42 /\ i \in DOMAIN AddedAs(n) /\ objs[m] = Handed(r, n)
                              /\ seqs[m][i].par = AddedAs(n)[i] /\ seqs[m][i].val = r[n]
    BY <1>9, <2>2, <2>3
  <2>5. n = id
    BY <1>11, <2>2, <2>4, NamesApart
  <2> QED BY <2>2, <2>4, <2>5
<1>12. \E j \in DOMAIN a : a[j].par = p /\ a[j].type = Table[k].type
  <2>1. PICK m \in DOMAIN objs : /\ 1 \in DOMAIN seqs[m] /\ seqs[m][1].par = p
                                 /\ seqs[m][1].type = Table[k].type
    BY <1>10
  <2>2. /\ m \in 1..Len(seqs) /\ 1 \in 1..Len(seqs[m])
    <3>1. m \in DOMAIN seqs
      BY <1>7
    <3>2. seqs[m] \in Seq(A)
      BY <1>7, <3>1
    <3> HIDE DEF A
    <3> QED BY <1>7, <2>1, <3>1, <3>2
  <2> HIDE DEF A
  <2>3. \E j \in 1..Len(FlattenSeq(seqs)) : FlattenSeq(seqs)[j] = seqs[m][1]
    <3>1. seqs \in Seq(Seq(A))
      BY <1>7
    <3>2. \A x \in 1..Len(seqs) : \A i \in 1..Len(seqs[x]) :
             \E j \in 1..Len(FlattenSeq(seqs)) : FlattenSeq(seqs)[j] = seqs[x][i]
      BY <3>1, FlattenSeqOf
    <3> HIDE DEF a
    <3> QED BY <2>2, <3>2
  <2>5. PICK j \in 1..Len(a) : a[j] = seqs[m][1]
    BY <1>8, <2>3
  <2>4. DOMAIN a = 1..Len(a)
    BY <1>5
  <2> QED BY <2>1, <2>4, <2>5
<1>13. \A j \in DOMAIN b : b[j].par = "ERO"
  BY DEF RouteCalls, Call
<1> HIDE DEF A, a, b
<1>14. /\ calls \in Seq(A) /\ Len(calls) = Len(a) + Len(b) /\ DOMAIN calls = 1..Len(calls)
       /\ DOMAIN a = 1..Len(a) /\ DOMAIN b = 1..Len(b) /\ Len(a) \in Nat /\ Len(b) \in Nat
       /\ \A j \in 1..Len(a) : j \in 1..Len(calls) /\ calls[j] = a[j]
       /\ \A j \in 1..Len(b) : Len(a) + j \in 1..Len(calls) /\ calls[Len(a) + j] = b[j]
  BY <1>5, Joined
<1> HIDE DEF calls, p, id
<1>15. ASSUME NEW j \in DOMAIN calls, calls[j].par = p PROVE calls[j].val = r[id]
  <2>1. CASE j <= Len(a)
    BY <1>11, <1>14, <1>15, <2>1
  <2>2. CASE ~ (j <= Len(a))
    <3>3. PICK la, lb \in Nat : la = Len(a) /\ lb = Len(b)
      BY <1>14
    <3>4. j \in 1..(la + lb)
      BY <1>14, <1>15, <3>3
    <3>5. ~ (j <= la)
      BY <2>2, <3>3
    <3>6. j - la \in 1..lb /\ la + (j - la) = j
      BY <3>4, <3>5
    <3>1. j - Len(a) \in 1..Len(b) /\ Len(a) + (j - Len(a)) = j
      BY <3>3, <3>6
    <3>2. calls[j].par = "ERO"
      BY <1>13, <1>14, <3>1
    <3> QED BY <1>6, <1>15, <3>2
  <2> QED BY <2>1, <2>2
<1>16. AllGive(calls, p, r[id])
  <2>1. \E j \in DOMAIN calls : calls[j].par = p /\ HasType(p, calls[j].type)
    BY <1>6, <1>12, <1>14
  <2> QED BY <1>15, <2>1 DEF AllGive
<1>17. Empty \in StoresOver(X) /\ Empty.data[p] = << >>
  <2>1. {} \subseteq X
    OBVIOUS
  <2>2. Empty.data[p] = << >>
    BY <1>6 DEF Empty
  <2> QED BY <2>1, <2>2, EmptyHasNone, MoreValues
<1>18. calls \in Seq(AddCalls(X, NoStyle))
  BY <1>14 DEF A
<1>19. PICK v : v = r[id]
  OBVIOUS
<1>20. AddEach(Empty, calls).data[p] = << v >>
  BY <1>6, <1>16, <1>17, <1>18, <1>19, AddEachGives
<1>21. Asked(r).data[p] = << r[id] >>
  BY <1>3, <1>19, <1>20 DEF calls, a, b
<1> QED BY <1>21 DEF p, id

LEMMA AskedWanted ==
  ASSUME NEW r \in Requests
  PROVE  Wanted(Asked(r))
<1>1. /\ Table[1].id = 1 /\ Table[1].par = "SESSION_DEST_ADDR"
      /\ Table[19].id = 23 /\ Table[19].par = "TUNNEL_ID"
  BY DEF Table, Row
<1>2. 1 \in DOMAIN r /\ 23 \in DOMAIN r
  BY RequestsAssumption
<1>3. 1 \in 1..38 /\ 19 \in 1..38
  OBVIOUS
<1>4. Asked(r).data["SESSION_DEST_ADDR"] = << r[1] >>
  <2>1. Table[1].id \in DOMAIN r /\ Table[1].id \notin {13, 16, 34}
    BY <1>1, <1>2
  <2>2. Asked(r).data[Table[1].par] = << r[Table[1].id] >>
    BY <1>3, <2>1, AskedGives
  <2> QED BY <1>1, <2>2
<1>5. Asked(r).data["TUNNEL_ID"] = << r[23] >>
  <2>1. Table[19].id \in DOMAIN r /\ Table[19].id \notin {13, 16, 34}
    BY <1>1, <1>2
  <2>2. Asked(r).data[Table[19].par] = << r[Table[19].id] >>
    BY <1>3, <2>1, AskedGives
  <2> QED BY <1>1, <2>2
<1> QED BY <1>4, <1>5, AskedFit DEF Wanted, Fit

(* What create_path is called with, for a request.                         *)
LEMMA CreatedWanted ==
  ASSUME NEW r \in Requests
  PROVE  LET c == AddMissing(Asked(r), set_conf_defaults) IN Fit(c) /\ Wanted(c)
<1> DEFINE a == Asked(r)
           c == AddMissing(a, set_conf_defaults)
<1>1. Fit(a) /\ Wanted(a)
  BY AskedFit, AskedWanted
<1> HIDE DEF a
<1>2. Fit(c)
  BY <1>1, DefaultsFit, FitCopy
<1>3. \A p \in Parameters : c.data[p] = IF a.data[p] # << >> THEN a.data[p] ELSE set_conf_defaults.data[p]
  BY <1>1, DefaultsFit, Copied DEF Fit
<1>4. "SESSION_DEST_ADDR" \in Parameters /\ "TUNNEL_ID" \in Parameters
  BY DEF Parameters, PT_UI, PT_US
<1> HIDE DEF c
<1>5. c.data["SESSION_DEST_ADDR"] # << >> /\ c.data["TUNNEL_ID"] # << >>
  BY <1>1, <1>3, <1>4 DEF Wanted
<1> QED BY <1>2, <1>5 DEF Wanted, Fit, c, a

LEMMA PathNamed ==
  ASSUME NEW c, Fit(c), Wanted(c)
  PROVE  LET d == PathConf(c)
         IN  /\ Fit(d) /\ Has(d, Names) /\ SenderOf(d, d) /\ SenderOf(Update(c, d), d)
<1> QED BY PathConfFit, PathConfNames, UpdatedNames DEF SenderOf

-----------------------------------------------------------------------------
(* A path that comes in names its session.                                 *)

(* Where there is an object for the session, all of the session is read.   *)
LEMMA ParsedSession ==
  ASSUME NEW wire, ShapedWire(wire), NEW k \in DOMAIN wire, wire[k].class \in SessionClasses
  PROVE  Has(parse_data(wire), SessionId)
<1> DEFINE T == [q \in {} |-> {0}]
           fields == << Addr("SESSION_DEST_ADDR"), Pad(2), Short("TUNNEL_ID"),
                        Addr("EXTENDED_IPV4_ADDR") >>
<1>1. SessionId = {"SESSION_DEST_ADDR", "TUNNEL_ID", "EXTENDED_IPV4_ADDR"}
  BY DEF SessionId
<1>2. /\ Len(fields) = 4 /\ fields[1] = Addr("SESSION_DEST_ADDR") /\ fields[2] = Pad(2)
      /\ fields[3] = Short("TUNNEL_ID") /\ fields[4] = Addr("EXTENDED_IPV4_ADDR")
  OBVIOUS
<1>3. /\ Single(fields[1], "SESSION_DEST_ADDR") /\ fields[2].kind = "pad" /\ fields[2].pars = << >>
      /\ Single(fields[3], "TUNNEL_ID") /\ Single(fields[4], "EXTENDED_IPV4_ADDR")
  BY <1>2, SlotFields
<1> HIDE DEF fields, T
<1>4. ASSUME NEW j \in DOMAIN wire, wire[j].class \in SessionClasses
      PROVE  \E n : GroupUpTo(wire[j], SessionId, {}, T, n)
  <2> DEFINE object == wire[j]
             reads == ReadFields(object)
  <2>1. reads = fields
    <3>1. object.class \in {"SESSION_IETF", "SESSION_OIF"}
      BY <1>4 DEF SessionClasses
    <3> HIDE DEF object
    <3> QED BY <3>1 DEF ReadFields, ReadSession, fields
  <2> HIDE DEF object, reads
  <2>2. \A i \in 1..4 : reads[i].kind = "pad" \/ \E p \in SessionId : Single(reads[i], p)
    BY <1>1, <1>3, <2>1
  <2>3. \A i \in 1..4, i2 \in 1..4, p \in Parameters : Carries(reads[i], p) /\ Carries(reads[i2], p) => i = i2
    <3>1. \A p : Carries(fields[1], p) => p = "SESSION_DEST_ADDR"
      BY <1>3, OneCarried
    <3>2. \A p : ~ Carries(fields[2], p)
      BY <1>3 DEF Carries
    <3>3. \A p : Carries(fields[3], p) => p = "TUNNEL_ID"
      BY <1>3, OneCarried
    <3>4. \A p : Carries(fields[4], p) => p = "EXTENDED_IPV4_ADDR"
      BY <1>3, OneCarried
    <3>5. \A i \in 1..4 : i = 1 \/ i = 2 \/ i = 3 \/ i = 4
      OBVIOUS
    <3> QED BY <2>1, <3>1, <3>2, <3>3, <3>4, <3>5
  <2>4. \A q \in SessionId : \E i \in 1..4 : Single(reads[i], q)
    BY <1>1, <1>3, <2>1
  <2>5. \A q : q \notin DOMAIN T
    BY DEF T
  <2>10. Len(reads) = 4
    BY <1>2, <2>1, Zenon
  <2>6. 4 \in 1..Len(reads)
    BY <2>10
  <2>8. \A i \in 1..4 : reads[i].kind = "pad" \/ (\E p \in SessionId : Single(reads[i], p)) \/ FlagsOf(reads[i], {})
    BY <2>2
  <2>9. \A q \in SessionId : \E i \in 1..4 : /\ Single(reads[i], q)
                                             /\ q \in DOMAIN T => ReadWith(object, reads, i) \in T[q]
    BY <2>4, <2>5
  <2>7. GroupUpTo(object, SessionId, {}, T, 4)
    BY <2>3, <2>6, <2>8, <2>9, Zenon DEF GroupUpTo, reads
  <2> QED BY <2>7 DEF object
<1>5. ASSUME NEW j \in DOMAIN wire, wire[j].class \notin SessionClasses
      PROVE  \A p \in SessionId \cup {} : p \notin MayCarry(wire[j].class)
  BY <1>5, SessionCarried DEF Carrying, ShapedWire, Shaped
<1>6. GroupClasses(wire, SessionClasses, SessionId, {}, T)
  BY <1>4, <1>5, SessionCarried DEF GroupClasses, Carrying
<1>7. AllRead(parse_data(wire), SessionId, T)
  BY <1>6, GroupRead
<1> QED BY <1>7 DEF AllRead, Has

LEMMA RouterPathNames ==
  ASSUME NEW w \in RouterPaths
  PROVE  Has(parse_data(w), SessionId)
<1>1. PICK k \in DOMAIN w : w[k].class \in SessionClasses
  BY RouterPathsAssumption DEF SessionClasses
<1>2. ShapedWire(w)
  BY RouterPathRead
<1> QED BY <1>1, <1>2, ParsedSession

-----------------------------------------------------------------------------
(* What the stores and the messages name.                                  *)

(* A message names the path: from the side of its sender, or of who        *)
(* answers it.                                                             *)
Tells(m, s) ==
  /\ Has(s, Names)
  /\ BySender(parse_data(m.wire), s) \/ ByFilter(parse_data(m.wire), s)

(* It names none: what the agent sends of a path it has not answered.      *)
Silent(m) == /\ m.mtype \in {"RESV", "RESVTEAR"} /\ Unnamed(configuration)
             /\ Nameless(parse_data(m.wire))

AnswerNamed(s) == (Has(s, Names) /\ AnswerTo(configuration, s)) \/ Unnamed(configuration)
PathStores(s) == SenderOf(configuration, s) /\ SenderOf(path_configuration, s)

NameInv ==
  /\ direction = "outgoing" => Has(seen, Names) /\ PathStores(seen)
  /\ direction = "incoming" => Has(seen, SessionId) /\ AnswerNamed(seen)
  /\ direction = "undefined" => Unnamed(configuration) /\ sent = << >>
  /\ \A m \in ToSet(sent) : m.mtype = "ACK" \/ Tells(m, seen) \/ Silent(m)

(* All but the ACK of a step tells whose path it is. *)
Spoken(s) == \E m : Alone(sent', m) /\ (m.mtype = "ACK" \/ Tells(m, s))

LEMMA SpokenIs ==
  ASSUME NEW s, Spoken(s), seen' = s
  PROVE  (\A m \in ToSet(sent) : m.mtype = "ACK" \/ Tells(m, seen) \/ Silent(m))'
<1>1. \A x \in ToSet(sent') : x.mtype = "ACK" \/ Tells(x, s)
  BY DEF Spoken, Alone
<1>2. \A x \in ToSet(sent') : x.mtype = "ACK" \/ Tells(x, seen')
  BY <1>1
<1> QED BY <1>2 DEF Tells

LEMMA SenderTold ==
  ASSUME NEW mtype, NEW c, Fit(c), NEW list, SenderList(list), NEW s, Has(s, Names),
         SenderOf(c, s)
  PROVE  Sendable(Msg(mtype, c, list)) /\ Tells(Msg(mtype, c, list), s)
<1>1. MessageFit(c, list) /\ Naming(list, "SENDER_TEMPLATE", "FILTER_SPEC")
  BY UsualFits DEF SenderList
<1>2. BySender(parse_data(WireFrom(c, list)), s)
  BY <1>1, SenderSays
<1>3. Msg(mtype, c, list).wire = WireFrom(c, list)
  BY DEF Msg, MsgOf, WireFrom
<1> QED BY <1>1, <1>2, <1>3, MessageSendable DEF Tells

LEMMA FilterTold ==
  ASSUME NEW mtype, NEW c, NEW list, MessageFit(c, list), FilterList(list), NEW s,
         Has(s, Names), AnswerTo(c, s)
  PROVE  Sendable(Msg(mtype, c, list)) /\ Tells(Msg(mtype, c, list), s)
<1>1. Naming(list, "FILTER_SPEC", "SENDER_TEMPLATE")
  BY DEF FilterList
<1>2. ByFilter(parse_data(WireFrom(c, list)), s)
  BY <1>1, FilterSays
<1>3. Msg(mtype, c, list).wire = WireFrom(c, list)
  BY DEF Msg, MsgOf, WireFrom
<1> QED BY <1>2, <1>3, MessageSendable DEF Tells

LEMMA SpokenAfter ==
  ASSUME NEW acks, AtMostAnAck(acks), NEW m, Sendable(m), NEW s, Tells(m, s), NEW reads,
         Sends(acks \o << m >>, reads)
  PROVE  Spoken(s)
<1>1. Alone(acks \o << m >>, m) /\ sent' = acks \o << m >>
  BY AckAndMessage DEF Sends
<1> QED BY <1>1 DEF Spoken

LEMMA SpokenOne ==
  ASSUME NEW m, Sendable(m), NEW s, Tells(m, s), NEW reads, Sends(<< m >>, reads)
  PROVE  Spoken(s)
<1>1. Alone(<< m >>, m) /\ sent' = << m >>
  BY SingleMessage DEF Sends
<1> QED BY <1>1 DEF Spoken

LEMMA SpokenAck ==
  ASSUME NEW acks, AtMostAnAck(acks), NEW reads, Sends(acks, reads), NEW s
  PROVE  Spoken(s)
<1>1. PICK m : m = [mtype |-> "ACK"]
  OBVIOUS
<1>2. Alone(acks, m) /\ sent' = acks /\ m.mtype = "ACK"
  BY <1>1, AckAlone DEF Sends
<1> QED BY <1>2 DEF Spoken

(* The RESV of a path, for list its objects. *)
LEMMA ResvTold ==
  ASSUME NEW mtype, NEW c, Fit(c), NEW path, NEW s, Has(s, Names), AnswerTo(c, s),
         NEW list, list = adding_resv_objects(path, c)
                   \/ list = adding_resv_objects(path, c) \o << "ADMIN_STATUS" >>
  PROVE  Sendable(Msg(mtype, c, list)) /\ Tells(Msg(mtype, c, list), s)
<1>1. list \in Seq(Usual)
  <2> DEFINE a == adding_resv_objects(path, c)
             last == << "ADMIN_STATUS" >>
  <2>1. last \in Seq(Usual)
    BY DEF Usual
  <2>2. a \in Seq(Usual)
    BY ResvUsual
  <2> HIDE DEF last, a
  <2>3. a \o last \in Seq(Usual)
    BY <2>1, <2>2
  <2> QED BY <2>2, <2>3 DEF a, last
<1>2. FilterList(list)
  BY ResvNames
<1>3. MessageFit(c, list)
  BY <1>1, UsualFits
<1> QED BY <1>2, <1>3, FilterTold

-----------------------------------------------------------------------------
(* What an incoming path is answered with.                                 *)

LEMMA AcksSome == ASSUME NEW c, Fit(c) PROVE AtMostAnAck(Acks(c)) /\ AtMostAnAck(<< >>)
BY AckFit DEF AtMostAnAck

(* The handlers go on only where the PATH names its sender.                *)
LEMMA NothingMissing ==
  ASSUME NEW c, Fit(c), Has(c, SessionId), NEW s, SenderOf(c, s),
         Missing(c, Sender) = {} \/ Missing(c, HopAndSender) = {}
  PROVE  Named(c) /\ Has(s, Names)
<1>1. \A q \in Sender : IsPresent(c, q)
  BY DEF Missing, HopAndSender
<1>2. \A q \in Sender : q \in Parameters \ PT_TAB
  BY NamedParameters
<1>3. \A q \in Sender : c.data[q] # << >>
  BY <1>1, <1>2, OneValue DEF Fit
<1>4. Has(c, Names)
  BY <1>3 DEF Has, Names
<1> QED BY <1>4 DEF Named, Fit, Has, SenderOf

LEMMA RespondTells ==
  ASSUME NEW c, Fit(c), Has(c, SessionId), NEW s, SenderOf(c, s), AnswerNamed(s),
         NEW acks, AtMostAnAck(acks), Respond(c, acks) \/ Refuse(c, acks)
  PROVE  Spoken(s) /\ AnswerNamed(s)'
<1>1. (Missing(c, Sender) = {} \/ Missing(c, HopAndSender) = {}) => Named(c) /\ Has(s, Names)
  BY NothingMissing
<1>2. CASE RespondPath(c, acks)
  <2>0. Named(c) /\ Has(s, Names)
    BY <1>1, <1>2 DEF RespondPath
  <2> DEFINE r == ResvConfiguration(c)
             list == adding_resv_objects(c, r)
  <2>1. configuration' = r
    BY <1>2 DEF RespondPath, ResvConfiguration, WithFlags, OwnNumber
  <2>2. Sends(acks \o << Msg("RESV", configuration', adding_resv_objects(c, configuration')) >>, {})
    BY <1>2 DEF RespondPath
  <2>3. \E reads : Sends(acks \o << Msg("RESV", r, list) >>, reads)
    BY <2>1, <2>2
  <2>4. Fit(r) /\ AnswerTo(r, s)
    BY <2>0, ResvConfigurationFit, ResvAnswers, AnswerOn DEF Answer
  <2> HIDE DEF r
  <2>5. Sendable(Msg("RESV", r, list)) /\ Tells(Msg("RESV", r, list), s)
    BY <2>0, <2>4, ResvTold
  <2> HIDE DEF list
  <2>6. Spoken(s)
    BY <2>3, <2>5, SpokenAfter
  <2> QED BY <2>0, <2>1, <2>4, <2>6 DEF AnswerNamed, AnswerTo
<1>3. CASE RespondPathDelete(c, acks)
  <2>0. Named(c) /\ Has(s, Names)
    BY <1>1, <1>3 DEF RespondPathDelete
  <2> DEFINE e == ErrorConfiguration(c)
             d == SetAdd(e, "ADMIN_STATUS_RTAD_FLAGS", "UC", 1)
             tear == adding_resv_objects(c, d) \o << "ADMIN_STATUS" >>
             list == ErrorList(e)
  <2>1. \/ Sends(acks \o << Msg("RESV", d, tear) >>, {})
        \/ Sends(acks \o << Msg("PATHERR", e, list) >>, {})
    BY <1>3 DEF RespondPathDelete, ErrorConfiguration, ErrorList
  <2>2. configuration' = configuration
    BY <1>3 DEF RespondPathDelete
  <2>3. Fit(e) /\ Fit(d)
    BY ErrorFit, FlagFit
  <2>4. AnswerTo(d, s) /\ SenderOf(e, s)
    BY <2>0, ErrorAnswers, AnswerOn DEF Answer
  <2> HIDE DEF e, d
  <2>5. Sendable(Msg("RESV", d, tear)) /\ Tells(Msg("RESV", d, tear), s)
    BY <2>0, <2>3, <2>4, ResvTold
  <2>6. Sendable(Msg("PATHERR", e, list)) /\ Tells(Msg("PATHERR", e, list), s)
    BY <2>0, <2>3, <2>4, ErrorNames, SenderTold
  <2> HIDE DEF tear, list
  <2>7. Spoken(s)
    BY <2>1, <2>5, <2>6, SpokenAfter
  <2> QED BY <2>2, <2>7 DEF AnswerNamed
<1>4. CASE RespondPathNack(c, acks)
  <2>0. Named(c) /\ Has(s, Names)
    BY <1>1, <1>4 DEF RespondPathNack
  <2> DEFINE e == NackConfiguration(c)
             list == NackList(c, e)
  <2>1. /\ \E reads : Sends(acks \o << Msg("PATHERR", e, list) >>, reads)
        /\ configuration' = e
    BY <1>4 DEF RespondPathNack, NackConfiguration, NackList
  <2>2. Fit(e)
    BY NackFit
  <2>3. AnswerTo(e, s) /\ SenderOf(e, s)
    BY <2>0, NackAnswers, AnswerOn DEF Answer
  <2> HIDE DEF e
  <2>4. Sendable(Msg("PATHERR", e, list)) /\ Tells(Msg("PATHERR", e, list), s)
    BY <2>0, <2>2, <2>3, NackNames, SenderTold
  <2> HIDE DEF list
  <2>5. Spoken(s)
    BY <2>1, <2>4, SpokenAfter
  <2> QED BY <2>0, <2>1, <2>3, <2>5 DEF AnswerNamed, AnswerTo
<1>5. CASE ReadsAbsent(c, HopAndSender, acks) \/ ReadsAbsent(c, Sender, acks)
  <2>1. (\E reads : Sends(acks, reads)) /\ configuration' = configuration
    BY <1>5 DEF ReadsAbsent
  <2>2. Spoken(s)
    BY <2>1, SpokenAck
  <2> QED BY <2>1, <2>2 DEF AnswerNamed
<1> QED BY <1>2, <1>3, <1>4, <1>5 DEF Respond, Refuse

LEMMA AnswerNames ==
  ASSUME IInv, NameInv, Accepted \/ Refused
  PROVE  NameInv'
<1>1. /\ phase = "asked" /\ seen' = seen /\ direction' = direction
      /\ Respond(pending, << >>) \/ Refuse(pending, << >>)
  BY DEF Accepted, Refused
<1>2. direction = "incoming" /\ pending = seen /\ Fit(seen)
  BY <1>1, StoresFit DEF IInv, AskedFirst
<1>3. Has(seen, SessionId) /\ AnswerNamed(seen) /\ SenderOf(pending, seen)
  BY <1>2 DEF NameInv, SenderOf
<1>4. PICK s : s = seen
  OBVIOUS
<1>5. Spoken(s) /\ AnswerNamed(s)'
  BY <1>1, <1>2, <1>3, <1>4, AcksSome, RespondTells
<1>6. AnswerNamed(seen)'
  BY <1>1, <1>4, <1>5 DEF AnswerNamed
<1> QED BY <1>1, <1>2, <1>3, <1>4, <1>5, <1>6, SpokenIs DEF NameInv

LEMMA AgainNames ==
  ASSUME IInv, NameInv, NEW flags, RecvPathAgain(flags)
  PROVE  NameInv'
<1>1. PICK c : c = got'
  OBVIOUS
<1>2. /\ direction = "incoming" /\ seen' = seen /\ direction' = direction
      /\ Respond(c, Acks(c)) \/ Refuse(c, Acks(c))
      /\ c = parse_data(first) \/ c = SetAdd(parse_data(first), "ADMIN_STATUS_RTAD_FLAGS", "UC", flags)
  BY <1>1 DEF RecvPathAgain
<1>3. Fit(seen) /\ seen = parse_data(first)
  BY <1>2, StoresFit DEF IInv, FirstSeen
<1>4. Fit(c)
  BY <1>2, <1>3, FlaggedRead
<1>5. Has(seen, SessionId) /\ AnswerNamed(seen)
  BY <1>2 DEF NameInv
<1>6. Keeps(seen, c)
  BY <1>2, <1>3, FlagKeeps DEF Keeps
<1>7. SenderOf(c, seen) /\ Has(c, SessionId)
  <2>1. \A q \in Names : c.data[q] = seen.data[q]
    BY <1>6 DEF Keeps
  <2> QED BY <1>5, <2>1 DEF SenderOf, Has, Names
<1>8. PICK s : s = seen
  OBVIOUS
<1>9. Spoken(s) /\ AnswerNamed(s)'
  BY <1>2, <1>4, <1>5, <1>7, <1>8, AcksSome, RespondTells
<1>10. AnswerNamed(seen)'
  BY <1>2, <1>8, <1>9 DEF AnswerNamed
<1> QED BY <1>2, <1>5, <1>8, <1>9, <1>10, SpokenIs DEF NameInv

LEMMA FirstNames ==
  ASSUME IInv, NameInv, NEW w \in RouterPaths, RecvPath(w)
  PROVE  NameInv'
<1>1. PICK c : c = parse_data(w)
  OBVIOUS
<1>2. /\ phase = "null" /\ direction' = "incoming" /\ seen' = c /\ RecvFirst(c)
  BY <1>1 DEF RecvPath
<1>3. Fit(c) /\ Has(c, SessionId)
  BY <1>1, RouterPathRead, RouterPathNames
<1>4. AtMostAnAck(Acks(c)) /\ SenderOf(c, c)
  BY <1>3, AcksSome DEF SenderOf
<1>5. direction = "undefined"
  BY <1>2 DEF IInv, Started
<1>6. Spoken(c) /\ AnswerNamed(c)'
  <2>1. CASE /\ configuration' = SetAdd(set_conf_defaults, "TUNNEL_ID", "US", Read(c, "TUNNEL_ID"))
             /\ Sends(Acks(c), {})
    <3>1. Unnamed(configuration')
      BY <2>1, AskedUnnamed
    <3> QED BY <1>4, <2>1, <3>1, SpokenAck DEF AnswerNamed, Unnamed
  <2>2. CASE Respond(c, Acks(c)) \/ Refuse(c, Acks(c))
    <3>1. AnswerNamed(c)
      BY <1>5 DEF NameInv, AnswerNamed
    <3> QED BY <1>3, <1>4, <2>2, <3>1, RespondTells
  <2> QED BY <1>2, <2>1, <2>2 DEF RecvFirst
<1>7. AnswerNamed(seen)'
  BY <1>2, <1>6 DEF AnswerNamed
<1> QED BY <1>2, <1>3, <1>6, <1>7, SpokenIs DEF NameInv

-----------------------------------------------------------------------------
(* What an outgoing path says.                                             *)

LEMMA CreateNamesIt ==
  ASSUME IInv, NameInv, NEW r \in Requests, CreatePath(r)
  PROVE  NameInv'
<1> DEFINE c == AddMissing(Asked(r), set_conf_defaults)
           d == PathConf(c)
           list == adding_create_path_objects(d, d)
           m == Msg("PATH", d, list)
<1>1. CreateFrom(c, Missing(Asked(r), {"TUNNEL_ID"}))
  BY DEF CreatePath
<1>2. Fit(c) /\ Wanted(c)
  BY CreatedWanted
<1> HIDE DEF c
<1>3. /\ direction' = "outgoing" /\ path_configuration' = d /\ configuration' = Update(c, d)
      /\ seen' = parse_data(m.wire)
  BY <1>1 DEF CreateFrom, SendPath
<1>4. \E reads : Sends(<< m >>, reads)
  BY <1>1 DEF CreateFrom, SendPath
<1>5. Fit(d) /\ Has(d, Names) /\ SenderOf(d, d) /\ SenderOf(Update(c, d), d)
  BY <1>2, PathNamed
<1> HIDE DEF d
<1>6. SenderList(list)
  BY CreateNames
<1> HIDE DEF list
<1>7. MessageFit(d, list) /\ Naming(list, "SENDER_TEMPLATE", "FILTER_SPEC")
  BY <1>5, <1>6, UsualFits DEF SenderList
<1>8. m.wire = WireFrom(d, list)
  BY DEF Msg, MsgOf, WireFrom
<1>9. BySender(parse_data(WireFrom(d, list)), d)
  BY <1>5, <1>7, SenderSays
<1>10. Sendable(m)
  BY <1>7, MessageSendable
<1> HIDE DEF m
<1>11. PICK s : s = parse_data(m.wire)
  OBVIOUS
<1>12. SenderOf(s, d) /\ Lacks(s, FilterNames)
  BY <1>8, <1>9, <1>11 DEF BySender
<1>13. Has(s, Names) /\ SenderOf(d, s) /\ SenderOf(Update(c, d), s) /\ SenderOf(s, s)
  BY <1>5, <1>12 DEF SenderOf, Has
<1>14. Tells(m, s)
  BY <1>11, <1>12, <1>13 DEF Tells, BySender
<1>15. Spoken(s)
  BY <1>4, <1>10, <1>14, SpokenOne
<1>16. PathStores(seen)' /\ Has(seen', Names)
  BY <1>3, <1>11, <1>13 DEF PathStores, SenderOf
<1> QED BY <1>3, <1>11, <1>15, <1>16, SpokenIs DEF NameInv

(* A step of an outgoing path that leaves its names. *)
LEMMA OutgoingNames ==
  ASSUME NameInv, direction = "outgoing", direction' = direction, seen' = seen,
         SenderOf(configuration', seen), SenderOf(path_configuration', seen), Spoken(seen)
  PROVE  NameInv'
<1>1. PICK s : s = seen
  OBVIOUS
<1>2. Spoken(s) /\ seen' = s
  BY <1>1
<1>3. PathStores(seen)' /\ Has(seen', Names)
  BY DEF NameInv, PathStores, SenderOf
<1> QED BY <1>2, <1>3, SpokenIs DEF NameInv

LEMMA RefreshNames ==
  ASSUME IInv, NameInv, RefreshPath
  PROVE  NameInv'
<1> DEFINE list == adding_create_path_objects(configuration, path_configuration)
           m == Msg("PATH", path_configuration, list)
<1>1. /\ direction = "outgoing" /\ direction' = direction /\ seen' = seen
      /\ configuration' = configuration /\ path_configuration' = path_configuration
      /\ Sends(<< m >>, {})
  BY DEF RefreshPath
<1>2. Fit(path_configuration) /\ PathStores(seen) /\ Has(seen, Names)
  BY <1>1, StoresFit DEF NameInv
<1>3. SenderList(list)
  BY CreateNames
<1>4. Sendable(m) /\ Tells(m, seen)
  BY <1>2, <1>3, SenderTold DEF PathStores
<1> HIDE DEF m
<1>5. Spoken(seen)
  BY <1>1, <1>4, SpokenOne
<1> QED BY <1>1, <1>2, <1>5, OutgoingNames DEF PathStores

(* The RESV of the router names the path of its PATH. *)
LEMMA RouterResvNames ==
  ASSUME Fit(seen), LinkFit(seen), Has(seen, Names), NEW flags, NEW id \in BOOLEAN,
         NEW left_out \in LeftOut
  PROVE  ByFilter(parse_data(RouterResv(flags, id, left_out)), seen)
<1> DEFINE c == RouterHeld(flags, id, left_out)
           list == RouterList(c)
<1>1. RouterResv(flags, id, left_out) = WireFrom(c, list)
  BY DEF RouterResv, RouterHeld, RouterStore, RouterSame, RouterCalls, RouterList, WireFrom
<1>2. Fit(c) /\ LinkFit(c)
  BY RouterHeldFit
<1>3. StoreNamed(c)
  BY RouterHeldNamed
<1>4. FilterList(list)
  BY RouterListNames
<1> HIDE DEF c, list
<1>5. MessageFit(c, list) /\ Naming(list, "FILTER_SPEC", "SENDER_TEMPLATE")
  BY <1>2, <1>4 DEF MessageFit, FilterList
<1>6. AnswerTo(c, seen)
  <2>1. /\ "SENDER_SRC_ADDR" \in Parameters \ PT_TAB /\ "SENDER_SRC_ID" \in Parameters \ PT_TAB
    BY AsideApart DEF Names, Sender
  <2>2. seen.data["SENDER_SRC_ADDR"] # << >> /\ seen.data["SENDER_SRC_ID"] # << >>
    BY DEF Has, Names, Sender
  <2>3. /\ seen.data["SENDER_SRC_ADDR"] = << Read(seen, "SENDER_SRC_ADDR") >>
        /\ seen.data["SENDER_SRC_ID"] = << Read(seen, "SENDER_SRC_ID") >>
    BY <2>1, <2>2, OneValue DEF Fit
  <2> QED BY <1>3, <2>3 DEF StoreNamed, AnswerTo
<1> QED BY <1>1, <1>5, <1>6, FilterSays

LEMMA ReflectTells ==
  ASSUME NEW c, Fit(c), NEW s, Has(s, Names), AnswerTo(c, s)
  PROVE  Sendable(TearOnReflect(c)) /\ Tells(TearOnReflect(c), s)
<1> DEFINE t == ReflectStore(c)
           list == ReflectList(t)
<1>1. TearOnReflect(c) = Msg("PATHTEAR", t, list)
  BY Zenon DEF TearOnReflect, ReflectStore, ReflectList
<1>2. Fit(t)
  BY ReflectFit DEF ReflectStore
<1>3. SenderOf(t, s)
  BY ReflectNamed DEF Fit
<1> HIDE DEF t
<1>4. SenderList(list)
  BY ReflectNames
<1> HIDE DEF list
<1> QED BY <1>1, <1>2, <1>3, <1>4, SenderTold

LEMMA DeleteTells ==
  ASSUME Fit(path_configuration), NEW s, Has(s, Names), SenderOf(path_configuration, s)
  PROVE  Sendable(TearOnDelete) /\ Tells(TearOnDelete, s)
<1> DEFINE d == AddMissing(path_configuration, set_conf_defaults)
           f == RemoveEach(d, InterfaceHandles)
           e == IF IETF THEN f ELSE d
           list == << "SESSION_IETF", "IPV4_IF_ID_RSVP_HOP", "SENDER_TEMPLATE",
                      "ETHERNET_SENDER_TSPEC" >>
<1>1. TearOnDelete = Msg("PATHTEAR", e, list)
  BY DEF TearOnDelete
<1>2. SenderList(list)
  BY DeleteNames
<1>3. Fit(d) /\ SenderOf(d, s)
  BY DefaultsFit, FitCopy, MissingNames DEF Fit
<1> HIDE DEF d, list
<1>4. Fit(f)
  BY <1>3, InterfaceNoStyle, FitRemove
<1>5. SenderOf(f, s)
  <2>1. InterfaceHandles \cap (Names \cup FilterNames) = {}
    BY HandlesNotNames DEF HandlesApart
  <2> QED BY <1>3, <2>1, RemovingKeeps, KeptNames
<1> HIDE DEF f
<1>6. Fit(e) /\ SenderOf(e, s)
  BY <1>3, <1>4, <1>5
<1> HIDE DEF e
<1> QED BY <1>1, <1>2, <1>6, SenderTold

LEMMA ConfTells ==
  ASSUME NEW c, Fit(c), LinkFit(c), NEW s, Has(s, Names), AnswerTo(c, s)
  PROVE  Sendable(ResvConf(ConfConf(c))) /\ Tells(ResvConf(ConfConf(c)), s)
<1> DEFINE d == ConfConf(c)
           list == ConfList
<1>1. ResvConf(d) = Msg("RESVCONF", d, list)
  BY DEF ResvConf, ConfList
<1>2. Fit(d) /\ LinkFit(d)
  BY ConfFit, ConfLink
<1>3. AnswerTo(d, s)
  BY ConfKeeps, KeptNames
<1> HIDE DEF d
<1>4. FilterList(list)
  BY ConfNames
<1> HIDE DEF list
<1>5. MessageFit(d, list)
  BY <1>2, <1>4 DEF MessageFit, FilterList
<1> QED BY <1>1, <1>3, <1>4, <1>5, FilterTold DEF d

LEMMA AnswerResvNames ==
  ASSUME NEW c, ResvRead(c), NEW s, Has(s, Names), ByFilter(c, s),
         Fit(configuration), Fit(path_configuration), PathStores(s),
         NEW flags, AnswerResv(flags, c)
  PROVE  Spoken(s) /\ SenderOf(configuration', s)
<1>1. Fit(c) /\ LinkFit(c) /\ AnswerTo(c, s)
  BY DEF ResvRead, ByFilter
<1>2. AtMostAnAck(Acks(c))
  BY <1>1, AckFit
<1>3. SenderOf(configuration, s) /\ SenderOf(path_configuration, s)
  BY DEF PathStores
<1>4. CASE Sends(Acks(c) \o << TearOnReflect(c) >>, {}) /\ configuration' = configuration
  BY <1>1, <1>2, <1>3, <1>4, ReflectTells, SpokenAfter
<1>5. CASE Sends(Acks(c) \o << TearOnDelete >>, {}) /\ configuration' = configuration
  BY <1>2, <1>3, <1>5, DeleteTells, SpokenAfter
<1>6. CASE \E reads : Sends(Acks(c), reads) /\ configuration' = configuration
  BY <1>2, <1>3, <1>6, SpokenAck
<1>7. CASE /\ \E reads : Sends(Acks(c) \o << ResvConf(ConfConf(c)) >>, reads)
           /\ configuration' = Update(configuration, ConfConf(c))
  <2>1. Spoken(s)
    BY <1>1, <1>2, <1>7, ConfTells, SpokenAfter
  <2>2. Good(ConfConf(c)) /\ Good(configuration)
    BY <1>1, ConfFit DEF Fit
  <2>3. ByFilter(ConfConf(c), s)
    <3>1. Keeps(c, ConfConf(c))
      BY ConfKeeps
    <3>2. AnswerTo(ConfConf(c), s)
      BY <1>1, <3>1, KeptNames
    <3>3. Lacks(ConfConf(c), Sender)
      BY <3>1 DEF ByFilter, Lacks, Keeps, Names
    <3> QED BY <3>2, <3>3 DEF ByFilter
  <2>4. SenderOf(Update(configuration, ConfConf(c)), s)
    BY <1>3, <2>2, <2>3, UpdateNames
  <2> QED BY <1>7, <2>1, <2>4
<1>8. \/ Sends(Acks(c) \o << TearOnReflect(c) >>, {}) /\ configuration' = configuration
      \/ Sends(Acks(c) \o << TearOnDelete >>, {}) /\ configuration' = configuration
      \/ RespondResv(c)
      \/ \E reads : Sends(Acks(c), reads) /\ configuration' = configuration
  BY DEF AnswerResv, ReadsAbsent
<1>9. CASE RespondResv(c)
  BY <1>6, <1>7, <1>9 DEF RespondResv
<1> QED BY <1>4, <1>5, <1>6, <1>8, <1>9

LEMMA ResvNamesIt ==
  ASSUME IInv, NameInv, NEW flags, NEW id \in BOOLEAN, NEW left_out \in LeftOut,
         RecvResv(flags, id, left_out)
  PROVE  NameInv'
<1>1. PICK c : c = got'
  OBVIOUS
<1>2. /\ direction = "outgoing" /\ direction' = direction /\ seen' = seen
      /\ path_configuration' = path_configuration
      /\ c = parse_data(RouterResv(flags, id, left_out)) /\ AnswerResv(flags, c)
  <2>1. /\ direction = "outgoing" /\ direction' = direction /\ seen' = seen
        /\ got' = parse_data(RouterResv(flags, id, left_out)) /\ AnswerResv(flags, got')
    BY DEF RecvResv
  <2>2. path_configuration' = path_configuration
    BY <2>1 DEF AnswerResv, RespondResv, ReadsAbsent
  <2> QED BY <1>1, <2>1, <2>2
<1>3. Fit(seen) /\ LinkFit(seen)
  <2>1. ShapedWire(first) /\ seen = parse_data(first)
    BY <1>2 DEF IInv, FirstSeen
  <2> QED BY <2>1, ParsedFit
<1>4. Has(seen, Names) /\ PathStores(seen)
  BY <1>2 DEF NameInv
<1>5. ResvRead(c) /\ ByFilter(c, seen)
  BY <1>2, <1>3, <1>4, RouterResvRead, RouterResvNames
<1>6. Spoken(seen) /\ SenderOf(configuration', seen)
  BY <1>2, <1>4, <1>5, StoresFit, AnswerResvNames
<1> QED BY <1>2, <1>4, <1>6, OutgoingNames DEF PathStores

-----------------------------------------------------------------------------
(* What destroy_path says.                                                 *)

(* What is sent of a path that was not answered is silent. *)
LEMMA QuietSent ==
  ASSUME NEW mtype \in {"RESV", "RESVTEAR"}, NEW c, Fit(c), Unnamed(c), NEW path, NEW list,
         \/ list = adding_resv_objects(path, c)
         \/ list = adding_resv_objects(path, c) \o << "ADMIN_STATUS" >>,
         NEW reads, Sends(<< Msg(mtype, c, list) >>, reads), Unnamed(configuration')
  PROVE  \A x \in ToSet(sent') : Silent(x)'
<1> DEFINE m == Msg(mtype, c, list)
<1>1. list \in Seq(Usual)
  <2> DEFINE a == adding_resv_objects(path, c)
             last == << "ADMIN_STATUS" >>
  <2>1. last \in Seq(Usual)
    BY DEF Usual
  <2>2. a \in Seq(Usual)
    BY ResvUsual
  <2> HIDE DEF last, a
  <2>3. a \o last \in Seq(Usual)
    BY <2>1, <2>2
  <2> QED BY <2>2, <2>3 DEF a, last
<1>2. MessageFit(c, list)
  BY <1>1, UsualFits
<1>3. ~ Occurs("SENDER_TEMPLATE", list)
  BY ResvNames DEF FilterList, Naming
<1>4. Nameless(parse_data(WireFrom(c, list)))
  BY <1>2, <1>3, NothingSaid
<1>5. m.wire = WireFrom(c, list) /\ m.mtype = mtype
  BY DEF Msg, MsgOf, WireFrom
<1>6. sent' = << m >>
  BY DEF Sends
<1> HIDE DEF m
<1>7. \A x \in ToSet(<< m >>) : x = m
  BY DEF ToSet
<1>8. \A x \in ToSet(sent') : x = m
  BY <1>6, <1>7
<1> QED BY <1>4, <1>5, <1>8 DEF Silent, Unnamed, Nameless

(* A step of an incoming path that leaves its names. *)
LEMMA IncomingNames ==
  ASSUME NameInv, direction = "incoming", direction' = direction, seen' = seen,
         Keeps(configuration, configuration'),
         \/ AnswerTo(configuration, seen) /\ Spoken(seen)
         \/ Unnamed(configuration) /\ \A x \in ToSet(sent') : Silent(x)'
  PROVE  NameInv'
<1>1. PICK s : s = seen
  OBVIOUS
<1>2. AnswerNamed(seen)'
  BY KeptNames DEF AnswerNamed, NameInv
<1>3. Has(seen', SessionId)
  BY DEF NameInv
<1>4. CASE Spoken(s)
  BY <1>1, <1>2, <1>3, <1>4, SpokenIs DEF NameInv
<1>5. CASE \A x \in ToSet(sent') : Silent(x)'
  BY <1>2, <1>3, <1>5 DEF NameInv
<1> QED BY <1>1, <1>4, <1>5

(* The RESV and the RESVTEAR that destroy_path sends, from d.              *)
LEMMA DestroyResv ==
  ASSUME NameInv, direction = "incoming", direction' = direction, seen' = seen,
         NEW d, Fit(d), configuration' \in {configuration, d},
         Has(seen, Names) /\ AnswerTo(configuration, seen) => AnswerTo(d, seen),
         Unnamed(configuration) => Unnamed(d),
         Keeps(configuration, configuration'),
         NEW mtype \in {"RESV", "RESVTEAR"}, NEW path, NEW list,
         \/ list = adding_resv_objects(path, d)
         \/ list = adding_resv_objects(path, d) \o << "ADMIN_STATUS" >>,
         NEW reads, Sends(<< Msg(mtype, d, list) >>, reads)
  PROVE  NameInv'
<1>1. (Has(seen, Names) /\ AnswerTo(configuration, seen)) \/ Unnamed(configuration)
  BY DEF NameInv, AnswerNamed
<1>2. CASE Has(seen, Names) /\ AnswerTo(configuration, seen)
  <2> DEFINE m == Msg(mtype, d, list)
  <2>1. Sendable(m) /\ Tells(m, seen)
    BY <1>2, ResvTold
  <2> HIDE DEF m
  <2>2. Spoken(seen)
    BY <2>1, SpokenOne DEF m
  <2> QED BY <1>2, <2>2, IncomingNames
<1>3. CASE Unnamed(configuration)
  <2>1. Unnamed(d) /\ Unnamed(configuration')
    BY <1>3
  <2>2. \A x \in ToSet(sent') : Silent(x)'
    BY <2>1, QuietSent
  <2> QED BY <1>3, <2>2, IncomingNames
<1> QED BY <1>1, <1>2, <1>3

LEMMA FlagsNamesIt ==
  ASSUME IInv, NameInv, direction' = direction, seen' = seen, DestroyByFlags
  PROVE  NameInv'
<1>1. Fit(configuration) /\ Fit(path_configuration)
  BY StoresFit
<1>2. CASE /\ direction = "outgoing" /\ UNCHANGED << configuration, path_configuration >>
           /\ LET d == SetEach(configuration, << UI("MSG_ID_ID", message_id),
                                                UC("ADMIN_STATUS_RTAD_FLAGS", 9) >>)
              IN  \E reads : Sends(<< Msg("PATH", d, FlagsList(d)) >>, reads)
  <2> DEFINE d == SetEach(configuration, << UI("MSG_ID_ID", message_id),
                                           UC("ADMIN_STATUS_RTAD_FLAGS", 9) >>)
             list == FlagsList(d)
  <2>1. Has(seen, Names) /\ SenderOf(configuration, seen) /\ SenderOf(path_configuration, seen)
    BY <1>2 DEF NameInv, PathStores
  <2>2. Fit(d) /\ SenderOf(d, seen)
    BY <1>1, <2>1, FlagSettings, FlagSettingsKeep, KeptNames
  <2>3. \E reads : Sends(<< Msg("PATH", d, list) >>, reads)
    BY <1>2
  <2> HIDE DEF d
  <2>4. SenderList(list)
    BY FlagsNames
  <2>5. Sendable(Msg("PATH", d, list)) /\ Tells(Msg("PATH", d, list), seen)
    BY <2>1, <2>2, <2>4, SenderTold
  <2>6. Spoken(seen)
    BY <2>3, <2>5, SpokenOne
  <2> QED BY <1>2, <2>1, <2>6, OutgoingNames
<1>3. CASE /\ direction = "outgoing" /\ UNCHANGED configuration
           /\ path_configuration' = SetAdd(path_configuration, "ADMIN_STATUS_RTAD_FLAGS", "UC", 9)
           /\ Sends(<< Msg("PATH", path_configuration',
                     adding_create_path_objects(path_configuration', path_configuration')
                     \o << "ADMIN_STATUS" >>) >>, {})
  <2>1. PICK d : d = path_configuration'
    OBVIOUS
  <2> DEFINE list == adding_create_path_objects(d, d) \o << "ADMIN_STATUS" >>
  <2>2. Has(seen, Names) /\ SenderOf(configuration, seen) /\ SenderOf(path_configuration, seen)
    BY <1>3 DEF NameInv, PathStores
  <2>3. Fit(d) /\ SenderOf(d, seen)
    BY <1>1, <1>3, <2>1, <2>2, FlagFit, FlagKeeps, KeptNames
  <2>4. Sends(<< Msg("PATH", d, list) >>, {})
    BY <1>3, <2>1
  <2>5. SenderList(list)
    BY CreateNames
  <2> HIDE DEF list
  <2>6. Sendable(Msg("PATH", d, list)) /\ Tells(Msg("PATH", d, list), seen)
    BY <2>2, <2>3, <2>5, SenderTold
  <2>7. Spoken(seen)
    BY <2>4, <2>6, SpokenOne
  <2> QED BY <1>3, <2>1, <2>2, <2>3, <2>7, OutgoingNames
<1>4. CASE /\ direction = "incoming" /\ configuration' = ResvDelete
           /\ Sends(<< Msg("RESV", ResvDelete,
                     adding_resv_objects(path_configuration, ResvDelete)
                     \o << "ADMIN_STATUS" >>) >>, {})
  <2>1. PICK d : d = ResvDelete
    OBVIOUS
  <2>2. PICK list : list = adding_resv_objects(path_configuration, d) \o << "ADMIN_STATUS" >>
    OBVIOUS
  <2>3. Fit(d) /\ Keeps(configuration, d)
    BY <1>1, <2>1, ResvDeleteFit, ResvDeleteKeeps
  <2>4. Sends(<< Msg("RESV", d, list) >>, {}) /\ configuration' = d
    BY <1>4, <2>1, <2>2
  <2>5. /\ AnswerTo(configuration, seen) => AnswerTo(d, seen)
        /\ Unnamed(configuration) => Unnamed(d)
        /\ Keeps(configuration, configuration')
    BY <2>3, <2>4, KeptNames DEF Keeps
  <2>6. "RESV" \in {"RESV", "RESVTEAR"}
    OBVIOUS
  <2> QED BY <1>4, <2>2, <2>3, <2>4, <2>5, <2>6, DestroyResv
<1> QED BY <1>2, <1>3, <1>4, Zenon DEF DestroyByFlags, FlagsList

LEMMA LocallyNamesIt ==
  ASSUME IInv, NameInv, direction' = direction, seen' = seen, DestroyLocally
  PROVE  NameInv'
<1> DEFINE a == AddMissing(configuration, set_conf_defaults)
           r == RemoveParam(DeleteConf, "REFRESH_PERIOD")
           list == << "SESSION_IETF", "IPV4_RSVP_HOP", "SENDER_TEMPLATE", "TOKEN_SENDER_TSPEC" >>
           resv == adding_resv_objects(path_configuration, r)
<1>1. /\ UNCHANGED << configuration, path_configuration >>
      /\ \/ direction = "outgoing" /\ Sends(<< Msg("PATHTEAR", DeleteConf, list) >>, {})
         \/ direction = "incoming" /\ Sends(<< Msg("RESVTEAR", r, resv) >>, {})
  BY DEF DestroyLocally
<1>2. Fit(configuration) /\ Fit(DeleteConf) /\ Fit(r)
  BY StoresFit, DeleteConfFit
<1>3. Keeps(a, DeleteConf) /\ Keeps(a, r)
  BY DeleteKeeps
<1>4. SenderList(list)
  BY DeleteNames
<1> HIDE DEF list, a
<1>5. CASE direction = "outgoing" /\ Sends(<< Msg("PATHTEAR", DeleteConf, list) >>, {})
  <2>1. Has(seen, Names) /\ SenderOf(configuration, seen) /\ SenderOf(path_configuration, seen)
    BY <1>5 DEF NameInv, PathStores
  <2>2. SenderOf(DeleteConf, seen)
    BY <1>2, <1>3, <2>1, MissingNames, KeptNames DEF Fit, a
  <2>3. /\ Sendable(Msg("PATHTEAR", DeleteConf, list))
        /\ Tells(Msg("PATHTEAR", DeleteConf, list), seen)
    BY <1>2, <1>4, <2>1, <2>2, SenderTold
  <2>4. Spoken(seen)
    BY <1>5, <2>3, SpokenOne
  <2> QED BY <1>1, <1>5, <2>1, <2>4, OutgoingNames
<1>6. CASE direction = "incoming" /\ Sends(<< Msg("RESVTEAR", r, resv) >>, {})
  <2>2. /\ Has(seen, Names) /\ AnswerTo(configuration, seen) => AnswerTo(r, seen)
        /\ Unnamed(configuration) => Unnamed(r)
    BY <1>2, <1>3, MissingNames, KeptNames DEF Fit, a
  <2>3. Keeps(configuration, configuration')
    BY <1>1 DEF Keeps
  <2>4. "RESVTEAR" \in {"RESV", "RESVTEAR"} /\ configuration' \in {configuration, r}
    BY <1>1
  <2>5. PICK d : d = r
    OBVIOUS
  <2>6. PICK objs : objs = adding_resv_objects(path_configuration, d)
    OBVIOUS
  <2>7. Sends(<< Msg("RESVTEAR", d, objs) >>, {})
    BY <1>6, <2>5, <2>6
  <2> HIDE DEF r
  <2> QED BY <1>2, <1>6, <2>2, <2>3, <2>4, <2>5, <2>6, <2>7, DestroyResv
<1> QED BY <1>1, <1>5, <1>6

LEMMA NameNext == ASSUME IInv, NameInv, [Next]_vars PROVE NameInv'
<1>1. CASE DestroyPath
  BY <1>1, FlagsNamesIt, LocallyNamesIt DEF DestroyPath
<1>2. CASE ReportStatus
  <2>1. /\ direction' = direction /\ seen' = seen /\ configuration' = configuration
        /\ path_configuration' = path_configuration /\ sent' = << >>
    BY <1>2 DEF ReportStatus, Sends
  <2>2. ToSet(<< >>) = {}
    BY DEF ToSet
  <2> QED BY <2>1, <2>2 DEF NameInv, PathStores, AnswerNamed
<1>3. CASE UNCHANGED vars
  BY <1>3 DEF vars, NameInv, PathStores, AnswerNamed, Silent
<1> QED BY <1>1, <1>2, <1>3, CreateNamesIt, RefreshNames, ResvNamesIt, FirstNames,
           AnswerNames, AgainNames, Zenon DEF Next, LeftOut

NameParts ==
  /\ SessionId \subseteq Names
  /\ "SENDER_SRC_ADDR" \in Names /\ "SENDER_SRC_ID" \in Names
  /\ "SENDER_SRC_ADDR" \in Sender /\ "SENDER_SRC_ID" \in Sender
  /\ "FILTER_SRC_ADDR" \in FilterNames /\ "FILTER_SRC_PORT" \in FilterNames
  /\ Names \subseteq Parameters \ PT_TAB /\ FilterNames \subseteq Parameters \ PT_TAB

LEMMA NamePartsHold == NameParts
BY AsideApart DEF NameParts, Names, Sender, FilterNames

LEMMA TellingReads ==
  ASSUME NEW c, Good(c), NEW s, Good(s), Has(s, Names), BySender(c, s) \/ ByFilter(c, s)
  PROVE  Reads(c, s)
<1>1. \A q \in Names : s.data[q] # << >>
  BY DEF Has
<1>2. \A q \in (Names \cup FilterNames) : q \in Parameters \ PT_TAB
  BY NamePartsHold DEF NameParts
<1>3. \A q \in (Names \cup FilterNames) : c.data[q] = << >> => ~ IsPresent(c, q)
  BY <1>2, OneValue
<1>4. CASE BySender(c, s)
  <2>1. \A q \in Names : IsPresent(c, q) /\ Read(c, q) = Read(s, q)
    BY <1>1, <1>2, <1>4, PresentAs DEF BySender, SenderOf
  <2>2. ~ IsPresent(c, "FILTER_SRC_ADDR") /\ ~ IsPresent(c, "FILTER_SRC_PORT")
    BY <1>3, <1>4, NamePartsHold DEF BySender, Lacks, NameParts
  <2> QED BY <2>1, <2>2, NamePartsHold DEF NameParts, Reads
<1>5. CASE ByFilter(c, s)
  <2>1. \A q \in SessionId : IsPresent(c, q) /\ Read(c, q) = Read(s, q)
    <3> SUFFICES ASSUME NEW q \in SessionId PROVE IsPresent(c, q) /\ Read(c, q) = Read(s, q)
      OBVIOUS
    <3>1. q \in Names /\ c.data[q] = s.data[q]
      BY <1>5, NamePartsHold DEF ByFilter, AnswerTo, NameParts
    <3> QED BY <1>1, <1>2, <3>1, PresentAs
  <2>2. /\ IsPresent(c, "FILTER_SRC_ADDR") /\ Read(c, "FILTER_SRC_ADDR") = Read(s, "SENDER_SRC_ADDR")
        /\ IsPresent(c, "FILTER_SRC_PORT") /\ Read(c, "FILTER_SRC_PORT") = Read(s, "SENDER_SRC_ID")
    <3>1. /\ c.data["FILTER_SRC_ADDR"] = s.data["SENDER_SRC_ADDR"]
          /\ c.data["FILTER_SRC_PORT"] = s.data["SENDER_SRC_ID"]
      BY <1>5 DEF ByFilter, AnswerTo
    <3> QED BY <1>1, <1>2, <3>1, PresentAs, NamePartsHold DEF NameParts
  <2>3. ~ IsPresent(c, "SENDER_SRC_ADDR") /\ ~ IsPresent(c, "SENDER_SRC_ID")
    BY <1>3, <1>5, NamePartsHold DEF ByFilter, Lacks, NameParts
  <2> QED BY <2>1, <2>2, <2>3 DEF Reads
<1> QED BY <1>4, <1>5

LEMMA SilentReads ==
  ASSUME NEW c, Good(c), Nameless(c)
  PROVE  \A q \in Names \cup FilterNames : ~ IsPresent(c, q)
<1>1. \A q \in Names \cup FilterNames : q \in Parameters \ PT_TAB /\ c.data[q] = << >>
  BY NamePartsHold DEF NameParts, Nameless, Lacks
<1> QED BY <1>1, OneValue

LEMMA NamesShown == ASSUME IInv, NameInv PROVE NamesPath
<1> SUFFICES ASSUME NEW m \in ToSet(sent), m.mtype # "ACK"
             PROVE  LET c == parse_data(m.wire)
                        same(p, q) == IsPresent(c, p) => Read(c, p) = Read(seen, q)
                        unanswered == /\ m.mtype \in {"RESV", "RESVTEAR"}
                                      /\ ~ IsPresent(configuration, "SESSION_DEST_ADDR")
                    IN  /\ \A p \in SessionId : same(p, p)
                        /\ same("SENDER_SRC_ADDR", "SENDER_SRC_ADDR")
                        /\ same("SENDER_SRC_ID", "SENDER_SRC_ID")
                        /\ same("FILTER_SRC_ADDR", "SENDER_SRC_ADDR")
                        /\ same("FILTER_SRC_PORT", "SENDER_SRC_ID")
                        /\ unanswered \/ /\ \A p \in SessionId : IsPresent(c, p)
                                         /\ \/ IsPresent(c, "SENDER_SRC_ADDR")
                                            \/ IsPresent(c, "FILTER_SRC_ADDR")
  BY DEF NamesPath
<1> DEFINE c == parse_data(m.wire)
<1>1. Good(c)
  <2>1. ShapedWire(m.wire)
    BY DEF IInv, AllSent, Sendable
  <2> QED BY <2>1, ParsedFit DEF Fit
<1>2. Good(seen) /\ Good(configuration)
  BY StoresFit DEF Fit
<1>4. Tells(m, seen) \/ Silent(m)
  BY DEF NameInv
<1>5. CASE Tells(m, seen)
  <2>1. Reads(c, seen)
    BY <1>1, <1>2, <1>5, TellingReads DEF Tells
  <2> HIDE DEF c
  <2> QED BY <2>1 DEF Reads, c
<1>6. CASE Silent(m)
  <2>1. \A q \in Names \cup FilterNames : ~ IsPresent(c, q)
    BY <1>1, <1>6, SilentReads DEF Silent
  <2>2. m.mtype \in {"RESV", "RESVTEAR"} /\ ~ IsPresent(configuration, "SESSION_DEST_ADDR")
    <3>1. "SESSION_DEST_ADDR" \in Parameters \ PT_TAB
      BY DEF Parameters, PT_UI, PT_TAB
    <3> QED BY <1>2, <1>6, <3>1, OneValue DEF Silent, Unnamed
  <2> HIDE DEF c
  <2> QED BY <2>1, <2>2, NamePartsHold DEF NameParts, c
<1> QED BY <1>4, <1>5, <1>6

(* What the router reads names the path: session, and sender or filter,    *)
(* are those of the path's first PATH, in every message of either          *)
(* direction, for every request of a client, every PATH of the router and  *)
(* every order of events; what the agent sends of a path it has not        *)
(* answered names none.                                                    *)
THEOREM NamesCorrect == Spec => []NamesPath
<1>1. Init => NameInv
  <2> SUFFICES ASSUME Init PROVE NameInv
    OBVIOUS
  <2>1. direction = "undefined" /\ configuration = Empty /\ sent = << >>
    BY DEF Init
  <2>2. Unnamed(Empty)
    <3>1. "SESSION_DEST_ADDR" \in Parameters /\ "FILTER_SRC_ADDR" \in Parameters
      BY DEF Parameters, PT_UI
    <3> QED BY <3>1 DEF Unnamed, Empty
  <2>3. ToSet(<< >>) = {}
    BY DEF ToSet
  <2> QED BY <2>1, <2>2, <2>3 DEF NameInv
<1>2. IInv /\ NameInv /\ [Next]_vars => NameInv'
  BY NameNext
<1>3. IInv /\ NameInv => NamesPath
  BY NamesShown
<1> QED BY <1>1, <1>2, <1>3, PathInvariant, PTL DEF Spec

-----------------------------------------------------------------------------
(* What create_path asks for, and what of it is always there.              *)
TopKinds == {"GENERALIZED_LABEL_REQUEST", "SENDER_TEMPLATE", "UPSTREAM_LABEL", "ERO",
             "SESSION_IETF", "IPV4_RSVP_HOP", "IPV4_IF_ID_RSVP_HOP", "TIME_VALUES",
             "SESSION_ATTRIBUTE", "TOKEN_SENDER_TSPEC", "MESSAGE_ID", "SESSION_OIF",
             "GENERALIZED_UNI", "NOTIFY_REQUEST", "ADMIN_STATUS", "ETHERNET_SENDER_TSPEC",
             "CALL_ID_0", "CALL_ID_1", "CALL_ID_2", "SONETSDH_SENDER_TSPEC"}
CreateKinds == TopKinds \cup Subobjects

LEMMA CreateKindsUsual ==
  /\ CreateKinds \subseteq Usual /\ CreateKinds \subseteq Classes
  /\ TopKinds \subseteq WireClasses /\ TopKinds \cap Subobjects = {}
<1>1. CreateKinds \subseteq Usual
  BY DEF CreateKinds, TopKinds, Subobjects, Usual
<1>2. TopKinds \cap Subobjects = {}
  BY DEF TopKinds, Subobjects
<1> QED BY <1>1, <1>2, AddedAreClasses DEF Added, WireClasses, CreateKinds

LabelPart(conf) ==
  {"GENERALIZED_LABEL_REQUEST"}
  \cup (IF IsPresent(conf, "UPSTREAM_LABEL") THEN {"UPSTREAM_LABEL"} ELSE {})
  \cup (IF ~ translator /\ IsPresent(conf, "ERO") THEN {"ERO"} ELSE {})
HopOf(conf) ==
  IF IETF THEN HopFor(Read(conf, "LSP_SWITCHING_TYPE")) ELSE "IPV4_IF_ID_RSVP_HOP"
BodyPart(conf) ==
  {HopOf(conf)}
  \cup (IF IETF THEN {"TIME_VALUES", "SESSION_ATTRIBUTE", "TOKEN_SENDER_TSPEC"}
        ELSE {"TIME_VALUES", "SESSION_ATTRIBUTE", "GENERALIZED_UNI"} \cup Subobjects)
TrafficPart == IF proto = "OIFUNI20" THEN {"ETHERNET_SENDER_TSPEC"} ELSE {}

CreateIs(list, conf, head, body, f, g) ==
  /\ list = head \o body \o f \o g
  /\ Shows(head, TopKinds, 4, LabelPart(conf))
  /\ Shows(body, CreateKinds, 11, BodyPart(conf))
  /\ \A x \in Subobjects : Once(body, x)
  /\ Shows(f, TopKinds, 2, TrafficPart) /\ Shows(g, TopKinds, 1, {})

LEMMA CreateHead ==
  ASSUME NEW conf
  PROVE  Shows(<< "GENERALIZED_LABEL_REQUEST", "SENDER_TEMPLATE" >>
               \o Only(IsPresent(conf, "UPSTREAM_LABEL"), << "UPSTREAM_LABEL" >>)
               \o Only(~ translator /\ IsPresent(conf, "ERO"), << "ERO" >>),
               TopKinds, 4, LabelPart(conf))
<1> DEFINE K == TopKinds
           a == << "GENERALIZED_LABEL_REQUEST", "SENDER_TEMPLATE" >>
           up == IsPresent(conf, "UPSTREAM_LABEL")
           U == IF up THEN {"UPSTREAM_LABEL"} ELSE {}
           b == Only(up, << "UPSTREAM_LABEL" >>)
           route == ~ translator /\ IsPresent(conf, "ERO")
           E == IF route THEN {"ERO"} ELSE {}
           d == Only(route, << "ERO" >>)
<1>1. Shows(a, K, 2, {"GENERALIZED_LABEL_REQUEST"})
  <2>1. a \in Seq(K) /\ Len(a) = 2 /\ DOMAIN a = 1..2 /\ a[1] = "GENERALIZED_LABEL_REQUEST"
    BY DEF TopKinds
  <2> HIDE DEF a, K
  <2> QED BY <2>1 DEF Shows, Occurs
<1>2. "UPSTREAM_LABEL" \in K /\ "ERO" \in K
  BY DEF TopKinds
<1>3. LabelPart(conf) = {"GENERALIZED_LABEL_REQUEST"} \cup U \cup E
  BY DEF LabelPart
<1> HIDE DEF K, a
<1>4. Shows(b, K, 1, U)
  <2>1. Shows(<< "UPSTREAM_LABEL" >>, K, 1, {"UPSTREAM_LABEL"})
    BY <1>2, OneShows
  <2>2. Shows(b, K, 1, {})
    BY <1>2, OneShows
  <2> HIDE DEF up
  <2> QED BY <2>1, <2>2 DEF Only
<1>5. Shows(d, K, 1, E)
  <2>1. Shows(<< "ERO" >>, K, 1, {"ERO"}) /\ Shows(d, K, 1, {})
    BY <1>2, OneShows
  <2> HIDE DEF route
  <2> QED BY <2>1 DEF Only
<1> HIDE DEF b, d, U, E
<1>6. Shows(a \o b, K, 2 + 1, {"GENERALIZED_LABEL_REQUEST"} \cup U)
  BY <1>1, <1>4, BothShow
<1>7. Shows(a \o b \o d, K, 2 + 1 + 1, {"GENERALIZED_LABEL_REQUEST"} \cup U \cup E)
  BY <1>5, <1>6, BothShow
<1>8. 2 + 1 + 1 = 4
  OBVIOUS
<1>9. Shows(a \o b \o d, K, 4, LabelPart(conf))
  BY <1>3, <1>7, <1>8
<1> QED BY <1>9, Zenon DEF a, b, d, route, K

LEMMA CreateBody ==
  ASSUME NEW conf
  PROVE  LET body == IF IETF
                     THEN << "SESSION_IETF", HopFor(Read(conf, "LSP_SWITCHING_TYPE")),
                             "TIME_VALUES",
                             "SESSION_ATTRIBUTE", "TOKEN_SENDER_TSPEC" >>
                     ELSE << "MESSAGE_ID", "SESSION_OIF", "IPV4_IF_ID_RSVP_HOP",
                             "TIME_VALUES", "GENERALIZED_UNI", "GU_SOURCE_TNA_ADDRESS",
                             "GU_DESTINATION_TNA_ADDRESS", "GU_SERVICE_LEVEL",
                             "SESSION_ATTRIBUTE", "NOTIFY_REQUEST", "ADMIN_STATUS" >>
         IN  Shows(body, CreateKinds, 11, BodyPart(conf)) /\ \A x \in Subobjects : Once(body, x)
<1> DEFINE hop == HopFor(Read(conf, "LSP_SWITCHING_TYPE"))
           K == CreateKinds
           e1 == << "SESSION_IETF", hop, "TIME_VALUES", "SESSION_ATTRIBUTE",
                    "TOKEN_SENDER_TSPEC" >>
           e2 == << "MESSAGE_ID", "SESSION_OIF", "IPV4_IF_ID_RSVP_HOP", "TIME_VALUES",
                    "GENERALIZED_UNI", "GU_SOURCE_TNA_ADDRESS",
                    "GU_DESTINATION_TNA_ADDRESS", "GU_SERVICE_LEVEL",
                    "SESSION_ATTRIBUTE", "NOTIFY_REQUEST", "ADMIN_STATUS" >>
           X1 == {hop} \cup {"TIME_VALUES", "SESSION_ATTRIBUTE", "TOKEN_SENDER_TSPEC"}
           X2 == {"IPV4_IF_ID_RSVP_HOP"}
                 \cup ({"TIME_VALUES", "SESSION_ATTRIBUTE", "GENERALIZED_UNI"} \cup Subobjects)
<1>1. hop = "IPV4_RSVP_HOP" \/ hop = "IPV4_IF_ID_RSVP_HOP"
  BY DEF HopFor
<1> HIDE DEF hop
<1>2. e1 \in Seq(K) /\ Len(e1) = 5
  <2>1. /\ "SESSION_IETF" \in K /\ hop \in K /\ "TIME_VALUES" \in K
        /\ "SESSION_ATTRIBUTE" \in K /\ "TOKEN_SENDER_TSPEC" \in K
    BY <1>1 DEF CreateKinds, TopKinds
  <2> HIDE DEF K
  <2> QED BY <2>1
<1>3. /\ DOMAIN e1 = 1..5 /\ e1[2] = hop /\ e1[3] = "TIME_VALUES" /\ e1[4] = "SESSION_ATTRIBUTE"
      /\ e1[5] = "TOKEN_SENDER_TSPEC" /\ \A i \in 1..5 : e1[i] \notin Subobjects
  BY <1>1 DEF Subobjects
<1>4. e2 \in Seq(K) /\ Len(e2) = 11
  <2>1. /\ "MESSAGE_ID" \in K /\ "SESSION_OIF" \in K /\ "IPV4_IF_ID_RSVP_HOP" \in K
        /\ "TIME_VALUES" \in K /\ "GENERALIZED_UNI" \in K /\ "GU_SOURCE_TNA_ADDRESS" \in K
        /\ "GU_DESTINATION_TNA_ADDRESS" \in K /\ "GU_SERVICE_LEVEL" \in K
        /\ "SESSION_ATTRIBUTE" \in K /\ "NOTIFY_REQUEST" \in K /\ "ADMIN_STATUS" \in K
    BY DEF CreateKinds, TopKinds, Subobjects
  <2> HIDE DEF K
  <2> QED BY <2>1
<1>5. /\ DOMAIN e2 = 1..11 /\ e2[3] = "IPV4_IF_ID_RSVP_HOP" /\ e2[4] = "TIME_VALUES" /\ e2[9] = "SESSION_ATTRIBUTE"
      /\ e2[5] = "GENERALIZED_UNI" /\ e2[6] = "GU_SOURCE_TNA_ADDRESS"
      /\ e2[7] = "GU_DESTINATION_TNA_ADDRESS" /\ e2[8] = "GU_SERVICE_LEVEL"
      /\ \A i \in 1..11 : i \notin {6, 7, 8} => e2[i] \notin Subobjects
  BY DEF Subobjects
<1> HIDE DEF e1, e2, K
<1>6. Shows(e1, K, 11, X1) /\ \A x \in Subobjects : Once(e1, x)
  <2>1. \A x \in X1 : Occurs(x, e1)
    BY <1>3 DEF Occurs
  <2>2. \A x \in Subobjects : Once(e1, x)
    BY <1>3 DEF Once
  <2> QED BY <1>2, <2>1, <2>2 DEF Shows
<1>7. Shows(e2, K, 11, X2) /\ \A x \in Subobjects : Once(e2, x)
  <2>1. \A x \in X2 : Occurs(x, e2)
    BY <1>5 DEF Occurs, Subobjects
  <2>2. ASSUME NEW x \in Subobjects, NEW i \in 1..11, NEW j \in 1..11, e2[i] = x, e2[j] = x
        PROVE  i = j
    <3>1. i \in {6, 7, 8} /\ j \in {6, 7, 8}
      BY <1>5, <2>2
    <3> QED BY <1>5, <2>2, <3>1
  <2>3. \A x \in Subobjects : Once(e2, x)
    BY <1>5, <2>2 DEF Once
  <2> QED BY <1>4, <2>1, <2>3 DEF Shows
<1> HIDE DEF X1, X2
<1>8. CASE IETF
  BY <1>6, <1>8 DEF BodyPart, HopOf, X1, e1, hop, K
<1>9. CASE ~ IETF
  BY <1>7, <1>9 DEF BodyPart, HopOf, X2, e2, K
<1> QED BY <1>8, <1>9

LEMMA CreateTail ==
  ASSUME NEW c
  PROVE  /\ Shows(Only(proto = "OIFUNI20", << "ETHERNET_SENDER_TSPEC" >> \o CallId(c)),
                  TopKinds, 2, TrafficPart)
         /\ Shows(Only(proto = "OIFUNI10", << "SONETSDH_SENDER_TSPEC" >>), TopKinds, 1, {})
<1> DEFINE K == TopKinds
           x == "ETHERNET_SENDER_TSPEC"
<1>1. x \in K /\ {"CALL_ID_0", "CALL_ID_1", "CALL_ID_2"} \subseteq K /\ "SONETSDH_SENDER_TSPEC" \in K
  BY DEF TopKinds
<1> HIDE DEF K
<1>2. Shows(<< x >>, K, 1, {x}) /\ Shows(CallId(c), K, 1, {})
  BY <1>1, OneShows, CallShows
<1>3. Shows(<< x >> \o CallId(c), K, 1 + 1, {x} \cup {})
  BY <1>2, BothShow
<1>4. Shows(<< x >> \o CallId(c), K, 2, {x}) /\ Shows(<< x >> \o CallId(c), K, 2, {})
  BY <1>3 DEF Shows
<1>5. Shows(Only(proto = "OIFUNI20", << x >> \o CallId(c)), K, 2, {})
  BY <1>4, OnlyShows
<1>6. Shows(Only(proto = "OIFUNI20", << x >> \o CallId(c)), K, 2, TrafficPart)
  BY <1>4, <1>5 DEF Only, TrafficPart
<1>7. Shows(Only(proto = "OIFUNI10", << "SONETSDH_SENDER_TSPEC" >>), K, 1, {})
  BY <1>1, OneShows
<1> QED BY <1>6, <1>7 DEF K, x

LEMMA CreateParts ==
  ASSUME NEW conf, NEW c
  PROVE  \E head, body, f, g :
           CreateIs(adding_create_path_objects(conf, c), conf, head, body, f, g)
<1> DEFINE head == << "GENERALIZED_LABEL_REQUEST", "SENDER_TEMPLATE" >>
                   \o Only(IsPresent(conf, "UPSTREAM_LABEL"), << "UPSTREAM_LABEL" >>)
                   \o Only(~ translator /\ IsPresent(conf, "ERO"), << "ERO" >>)
           body == IF IETF
                   THEN << "SESSION_IETF", HopFor(Read(conf, "LSP_SWITCHING_TYPE")),
                           "TIME_VALUES", "SESSION_ATTRIBUTE", "TOKEN_SENDER_TSPEC" >>
                   ELSE << "MESSAGE_ID", "SESSION_OIF", "IPV4_IF_ID_RSVP_HOP",
                           "TIME_VALUES", "GENERALIZED_UNI", "GU_SOURCE_TNA_ADDRESS",
                           "GU_DESTINATION_TNA_ADDRESS", "GU_SERVICE_LEVEL",
                           "SESSION_ATTRIBUTE", "NOTIFY_REQUEST", "ADMIN_STATUS" >>
           f == Only(proto = "OIFUNI20", << "ETHERNET_SENDER_TSPEC" >> \o CallId(c))
           g == Only(proto = "OIFUNI10", << "SONETSDH_SENDER_TSPEC" >>)
<1>1. adding_create_path_objects(conf, c) = head \o body \o f \o g
  BY Zenon DEF adding_create_path_objects
<1>2. Shows(head, TopKinds, 4, LabelPart(conf))
  BY ONLY CreateHead
<1>3. Shows(body, CreateKinds, 11, BodyPart(conf)) /\ \A x \in Subobjects : Once(body, x)
  BY ONLY CreateBody, Zenon
<1>4. Shows(f, TopKinds, 2, TrafficPart) /\ Shows(g, TopKinds, 1, {})
  BY ONLY CreateTail, Zenon
<1> HIDE DEF head, body, f, g
<1> QED BY <1>1, <1>2, <1>3, <1>4 DEF CreateIs

CreateHas(conf) == LabelPart(conf) \cup BodyPart(conf) \cup TrafficPart

LEMMA CreateShows ==
  ASSUME NEW conf, NEW c
  PROVE  /\ Shows(adding_create_path_objects(conf, c), CreateKinds, 18, CreateHas(conf))
         /\ \A x \in Subobjects : Once(adding_create_path_objects(conf, c), x)
<1> DEFINE K == CreateKinds
<1>1. PICK list : list = adding_create_path_objects(conf, c)
  OBVIOUS
<1>2. PICK head, body, f, g : CreateIs(list, conf, head, body, f, g)
  BY <1>1, CreateParts
<1>3. \A s, n, X : Shows(s, TopKinds, n, X) =>
        Shows(s, K, n, X) /\ \A x \in Subobjects : ~ Occurs(x, s) /\ Once(s, x)
  <2> SUFFICES ASSUME NEW s, NEW n, NEW X, Shows(s, TopKinds, n, X)
               PROVE  Shows(s, K, n, X) /\ \A x \in Subobjects : ~ Occurs(x, s) /\ Once(s, x)
    OBVIOUS
  <2>1. s \in Seq(K) /\ \A k \in DOMAIN s : s[k] \in TopKinds
    BY SequenceIn DEF Shows, CreateKinds
  <2>2. \A x \in Subobjects : ~ Occurs(x, s) /\ Once(s, x)
    BY <2>1, CreateKindsUsual DEF Occurs, Once
  <2> QED BY <2>1, <2>2 DEF Shows
<1>4. /\ Shows(head, K, 4, LabelPart(conf)) /\ Shows(body, K, 11, BodyPart(conf))
      /\ Shows(f, K, 2, TrafficPart) /\ Shows(g, K, 1, {})
  BY <1>2, <1>3 DEF CreateIs
<1>5. \A x \in Subobjects : ~ Occurs(x, head) /\ ~ Occurs(x, f) /\ ~ Occurs(x, g)
  BY <1>2, <1>3 DEF CreateIs
<1>6. Shows(head \o body, K, 4 + 11, LabelPart(conf) \cup BodyPart(conf))
  BY <1>4, BothShow
<1>7. Shows(head \o body \o f, K, 4 + 11 + 2,
            LabelPart(conf) \cup BodyPart(conf) \cup TrafficPart)
  BY <1>4, <1>6, BothShow
<1>8. Shows(head \o body \o f \o g, K, 4 + 11 + 2 + 1,
            LabelPart(conf) \cup BodyPart(conf) \cup TrafficPart \cup {})
  BY <1>4, <1>7, BothShow
<1>9. Shows(list, K, 18, CreateHas(conf))
  <2>1. 4 + 11 + 2 + 1 = 18 /\ list = head \o body \o f \o g
    BY <1>2 DEF CreateIs
  <2> QED BY <1>8, <2>1 DEF Shows, CreateHas
<1>10. ASSUME NEW x \in Subobjects PROVE Once(list, x)
  <2>1. head \in Seq(K) /\ body \in Seq(K) /\ f \in Seq(K) /\ g \in Seq(K) /\ Once(body, x)
    BY <1>2, <1>4 DEF Shows, CreateIs
  <2>2. PICK hb : hb = head \o body
    OBVIOUS
  <2>3. hb \in Seq(K) /\ Once(hb, x)
    BY <1>5, <2>1, <2>2, JoinedOnce
  <2>4. PICK hbf : hbf = hb \o f
    OBVIOUS
  <2>5. hbf \in Seq(K) /\ Once(hbf, x)
    BY <1>5, <2>1, <2>3, <2>4, JoinedOnce
  <2>6. Once(hbf \o g, x)
    BY <1>5, <2>1, <2>5, JoinedOnce
  <2> QED BY <1>2, <2>2, <2>4, <2>6 DEF CreateIs
<1> QED BY <1>1, <1>9, <1>10

-----------------------------------------------------------------------------
(* Of the classes of a PATH one carries a parameter of the request.        *)
CarriedBy(K, P) == \A class \in TopKinds \ {K} : \A p \in P : p \notin MayCarry(class)
UniPars == {"TNA_SRC_ADDR", "TNA_DST_ADDR", "SERVICE_LEVEL"}

LEMMA BeyondNot ==
  Beyond \cap (LspRequest \cup {"REFRESH_PERIOD", "UPSTREAM_LABEL"} \cup Attribute
               \cup AttributeFlags \cup TokenBucket \cup UniPars \cup Ethernet) = {}
BY DEF Beyond, LspRequest, Attribute, AttributeFlags, TokenBucket, UniPars, Ethernet,
       EthernetLink, EthernetBandwidth

LEMMA PathCarriers ==
  /\ CarriedBy("GENERALIZED_LABEL_REQUEST", LspRequest)
  /\ CarriedBy("TIME_VALUES", {"REFRESH_PERIOD"})
  /\ CarriedBy("UPSTREAM_LABEL", {"UPSTREAM_LABEL"})
  /\ CarriedBy("SESSION_ATTRIBUTE", Attribute \cup AttributeFlags)
  /\ CarriedBy("TOKEN_SENDER_TSPEC", TokenBucket)
  /\ CarriedBy("GENERALIZED_UNI", UniPars)
  /\ CarriedBy("ETHERNET_SENDER_TSPEC", Ethernet)
<1>1. \A class \in TopKinds : MayCarry(class) = requirements[class] \cup Beyond
  BY DEF MayCarry, TopKinds
<1>2. \A class \in TopKinds : \A p \in LspRequest : p \in requirements[class] => class = "GENERALIZED_LABEL_REQUEST"
  BY DEF TopKinds, requirements, LspRequest, TokenBucket, Sonet, EthernetBandwidth, EthernetLink,
         SessionId, MessageId, LocalCallId, StyleFlags
<1>3. \A class \in TopKinds : "REFRESH_PERIOD" \in requirements[class] => class = "TIME_VALUES"
  BY DEF TopKinds, requirements, TokenBucket, Sonet, EthernetBandwidth, EthernetLink,
         SessionId, MessageId, LocalCallId, StyleFlags
<1>4. \A class \in TopKinds : "UPSTREAM_LABEL" \in requirements[class] => class = "UPSTREAM_LABEL"
  BY DEF TopKinds, requirements, TokenBucket, Sonet, EthernetBandwidth, EthernetLink,
         SessionId, MessageId, LocalCallId, StyleFlags
<1>5. \A class \in TopKinds : \A p \in Attribute \cup AttributeFlags :
        p \in requirements[class] => class = "SESSION_ATTRIBUTE"
  BY DEF TopKinds, requirements, Attribute, AttributeFlags, TokenBucket, Sonet, EthernetBandwidth,
         EthernetLink, SessionId, MessageId, LocalCallId, StyleFlags
<1>6. \A class \in TopKinds : \A p \in TokenBucket : p \in requirements[class] => class = "TOKEN_SENDER_TSPEC"
  BY DEF TopKinds, requirements, TokenBucket, Sonet, EthernetBandwidth, EthernetLink,
         SessionId, MessageId, LocalCallId, StyleFlags
<1>7. \A class \in TopKinds : \A p \in UniPars : p \in requirements[class] => class = "GENERALIZED_UNI"
  BY DEF TopKinds, requirements, UniPars, TokenBucket, Sonet, EthernetBandwidth, EthernetLink,
         SessionId, MessageId, LocalCallId, StyleFlags
<1>8. \A class \in TopKinds : \A p \in Ethernet : p \in requirements[class] => class = "ETHERNET_SENDER_TSPEC"
  BY DEF TopKinds, requirements, Ethernet, TokenBucket, Sonet, EthernetBandwidth, EthernetLink,
         SessionId, MessageId, LocalCallId, StyleFlags
<1>9. ASSUME NEW K, NEW P, P \cap Beyond = {},
             \A class \in TopKinds : \A p \in P : p \in requirements[class] => class = K
      PROVE  CarriedBy(K, P)
  BY <1>1, <1>9 DEF CarriedBy
<1> QED BY <1>2, <1>3, <1>4, <1>5, <1>6, <1>7, <1>8, <1>9, BeyondNot

LEMMA PathSays ==
  ASSUME NEW c, Fit(c), NEW list \in Seq(CreateKinds), Len(list) < MAX_OBJECTS,
         NEW K \in TopKinds, Occurs(K, list), check_addable(K, c), NEW Q, NEW F, NEW T,
         Q \cup F \subseteq Parameters \ PT_TAB, CarriedBy(K, Q \cup F),
         Grouped(K, c, add_objects(<< >>, c, list), Q, F, T)
  PROVE  AllRead(parse_data(WireFrom(c, list)), Q, T)
<1>1. list \in Seq(Usual)
  BY CreateKindsUsual, SequenceIn
<1>2. MessageFit(c, list) /\ \A k \in DOMAIN list : list[k] \in CreateKinds
  BY <1>1, UsualFits, SequenceIn
<1>3. PICK objs : objs = add_objects(<< >>, c, list)
  OBVIOUS
<1>4. Fitting(objs, c, list) /\ AllWritable(objs, c)
  BY <1>2, <1>3, ObjectsWritable
<1>5. objs \in Seq(Classes) /\ (\A i \in DOMAIN objs : Occurs(objs[i], list)) /\ Occurs(K, objs)
  BY <1>4 DEF Fitting, Occurs
<1>6. \A i \in Own(objs) : objs[i] \in TopKinds
  BY <1>2, <1>5 DEF Own, Occurs, CreateKinds
<1>7. \A i \in Own(objs) : objs[i] # K => \A p \in Q \cup F : p \notin MayCarry(objs[i])
  BY <1>6 DEF CarriedBy
<1>8. \E i \in Own(objs) : objs[i] = K
  BY <1>5, CreateKindsUsual DEF Own, Occurs
<1>9. Good(c)
  BY DEF Fit
<1>10. AllRead(parse_data(get_data(objs, c)), Q, T)
  BY <1>3, <1>4, <1>5, <1>7, <1>8, <1>9, GroupSays
<1> QED BY <1>3, <1>10 DEF WireFrom

LEMMA PathCopies ==
  ASSUME NEW c, Fit(c), NEW list \in Seq(CreateKinds), Len(list) < MAX_OBJECTS,
         NEW K \in TopKinds, Occurs(K, list), check_addable(K, c), NEW Q, NEW F,
         Q \cup F \subseteq Parameters \ PT_TAB, CarriedBy(K, Q \cup F),
         ClassCopies(K, c, add_objects(<< >>, c, list), Q, F), Has(c, Q),
         Q \cap {"MSG_ID_EPOCH", "CALL_ID_IS"} = {}
  PROVE  Same(parse_data(WireFrom(c, list)), c, Q)
<1>1. Good(c)
  BY DEF Fit
<1>2. \A q \in Q : IsPresent(c, q) /\ c.data[q] = << Read(c, q) >>
  BY <1>1, OneValue DEF Has
<1>3. Sayable(c, Q)
  BY <1>2 DEF Sayable
<1>4. Grouped(K, c, add_objects(<< >>, c, list), Q, F, Said(c, Q))
  BY <1>3, CopiesGrouped
<1>5. AllRead(parse_data(WireFrom(c, list)), Q, Said(c, Q))
  BY <1>4, PathSays
<1>6. \A q \in Q : q \in DOMAIN Said(c, Q) /\ Said(c, Q)[q] = {Read(c, q)}
  BY DEF Said
<1> QED BY <1>2, <1>5, <1>6 DEF AllRead, Same

(* A class that needs each of its parameters.                              *)
LEMMA NeedsAll ==
  ASSUME NEW c, Good(c), NEW K \in Classes \ AnyOf, requirements[K] \subseteq Parameters \ PT_TAB,
         Has(c, requirements[K])
  PROVE  check_addable(K, c)
<1>1. \A p \in requirements[K] : IsPresent(c, p)
  BY OneValue DEF Has
<1>2. {p \in requirements[K] : IsPresent(c, p)} = requirements[K]
  BY <1>1
<1> QED BY <1>2 DEF check_addable

LEMMA PathNeeds ==
  /\ requirements["GENERALIZED_LABEL_REQUEST"] = LspRequest
  /\ requirements["TIME_VALUES"] = {"REFRESH_PERIOD"}
  /\ requirements["UPSTREAM_LABEL"] = {"UPSTREAM_LABEL"}
  /\ requirements["SESSION_ATTRIBUTE"] = Attribute \cup AttributeFlags
  /\ requirements["TOKEN_SENDER_TSPEC"] = TokenBucket
  /\ requirements["ETHERNET_SENDER_TSPEC"] = Ethernet
  /\ requirements["GENERALIZED_UNI"] = UniPars
  /\ \A x \in Subobjects : requirements[x] = {UniPar(x)} /\ UniPar(x) \in UniPars /\ x \notin AnyOf
  /\ {UniPar(x) : x \in Subobjects} = UniPars
BY DEF requirements, LspRequest, Attribute, AttributeFlags, Ethernet, UniPars, Subobjects, UniPar,
       AnyOf

LEMMA PathKept ==
  /\ LspRequest \cup {"REFRESH_PERIOD", "UPSTREAM_LABEL"} \cup Attribute \cup AttributeFlags
     \cup TokenBucket \cup UniPars \cup Ethernet \subseteq Parameters \ PT_TAB
  /\ (LspRequest \cup {"REFRESH_PERIOD", "UPSTREAM_LABEL"} \cup Attribute \cup TokenBucket \cup UniPars)
     \cap {"MSG_ID_EPOCH", "CALL_ID_IS"} = {}
<1>1. LspRequest \cup {"REFRESH_PERIOD", "UPSTREAM_LABEL"} \subseteq Parameters \ PT_TAB
  BY DEF LspRequest, Parameters, PT_TAB, PT_UC, PT_US, PT_UI
<1>2. Attribute \cup AttributeFlags \subseteq Parameters \ PT_TAB
  BY DEF Attribute, AttributeFlags, Parameters, PT_TAB, PT_UC, PT_CS
<1>3. TokenBucket \subseteq Parameters \ PT_TAB
  BY DEF TokenBucket, Parameters, PT_TAB, PT_F, PT_UI
<1>4. UniPars \subseteq Parameters \ PT_TAB
  BY DEF UniPars, Parameters, PT_TAB, PT_UI, PT_UC
<1>5. Ethernet \subseteq Parameters \ PT_TAB
  BY DEF Ethernet, EthernetLink, EthernetBandwidth, Parameters, PT_TAB, PT_F, PT_US, PT_UC
<1>6. (LspRequest \cup {"REFRESH_PERIOD", "UPSTREAM_LABEL"} \cup Attribute \cup TokenBucket \cup UniPars)
      \cap {"MSG_ID_EPOCH", "CALL_ID_IS"} = {}
  BY DEF LspRequest, Attribute, TokenBucket, UniPars
<1> QED BY <1>1, <1>2, <1>3, <1>4, <1>5, <1>6

-----------------------------------------------------------------------------
(* What the one who reads the PATH of a store finds there.                 *)
PathList(d) == adding_create_path_objects(d, d)
PathReading(d) == parse_data(WireFrom(d, PathList(d)))

LEMMA PathListIs ==
  ASSUME NEW d
  PROVE  /\ PathList(d) \in Seq(CreateKinds) /\ Len(PathList(d)) < MAX_OBJECTS
         /\ \A x \in CreateHas(d) : Occurs(x, PathList(d))
         /\ \A x \in Subobjects : Once(PathList(d), x)
<1>1. /\ Shows(PathList(d), CreateKinds, 18, CreateHas(d))
      /\ \A x \in Subobjects : Once(PathList(d), x)
  BY CreateShows DEF PathList
<1> QED BY <1>1 DEF Shows, MAX_OBJECTS

LEMMA PlainTold ==
  ASSUME NEW d, Fit(d), NEW K \in TopKinds \ AnyOf, K \in CreateHas(d), NEW Q, NEW F,
         requirements[K] = Q \cup F, Has(d, Q \cup F), Q \cup F \subseteq Parameters \ PT_TAB,
         CarriedBy(K, Q \cup F), Q \cap {"MSG_ID_EPOCH", "CALL_ID_IS"} = {},
         \A objs : ClassCopies(K, d, objs, Q, F)
  PROVE  Same(PathReading(d), d, Q)
<1>1. PICK list : list = PathList(d)
  OBVIOUS
<1>2. list \in Seq(CreateKinds) /\ Len(list) < MAX_OBJECTS /\ Occurs(K, list)
  BY <1>1, PathListIs
<1>3. K \in Classes \ AnyOf /\ Good(d)
  BY CreateKindsUsual DEF CreateKinds, Fit
<1>4. check_addable(K, d)
  BY <1>3, NeedsAll
<1>5. Has(d, Q)
  BY DEF Has
<1>6. ClassCopies(K, d, add_objects(<< >>, d, list), Q, F)
  OBVIOUS
<1>7. Same(parse_data(WireFrom(d, list)), d, Q)
  BY <1>2, <1>4, <1>5, <1>6, PathCopies
<1> QED BY <1>1, <1>7 DEF PathReading

LEMMA UniTold ==
  ASSUME NEW d, Fit(d), ~ IETF, NEW p \in UniPars, d.data[p] # << >>
  PROVE  PathReading(d).data[p] = d.data[p]
<1> DEFINE K == "GENERALIZED_UNI"
<1>1. PICK list : list = PathList(d)
  OBVIOUS
<1>2. /\ list \in Seq(CreateKinds) /\ Len(list) < MAX_OBJECTS /\ Occurs(K, list)
      /\ \A x \in Subobjects : Occurs(x, list) /\ Once(list, x)
  <2>1. K \in CreateHas(d) /\ Subobjects \subseteq CreateHas(d)
    BY DEF CreateHas, BodyPart
  <2> QED BY <1>1, <2>1, PathListIs
<1>3. PICK objs : objs = add_objects(<< >>, d, list)
  OBVIOUS
<1>4. list \in Seq(Usual) /\ list \in Seq(Classes)
  BY <1>2, CreateKindsUsual, SequenceIn
<1>5. Fitting(objs, d, list)
  BY <1>3, <1>4, UsualFits, ObjectsWritable
<1>6. Good(d) /\ p \in Parameters \ PT_TAB
  BY PathKept DEF Fit
<1>7. IsPresent(d, p)
  BY <1>6, OneValue
<1>8. PICK x \in Subobjects : UniPar(x) = p
  BY PathNeeds
<1>9. \A y \in Subobjects : check_addable(y, d) <=> IsPresent(d, UniPar(y))
  <2> SUFFICES ASSUME NEW y \in Subobjects
               PROVE  check_addable(y, d) <=> IsPresent(d, UniPar(y))
    OBVIOUS
  <2>1. requirements[y] = {UniPar(y)} /\ y \notin AnyOf
    BY PathNeeds
  <2>2. check_addable(y, d) <=> {q \in {UniPar(y)} : IsPresent(d, q)} = {UniPar(y)}
    BY <2>1 DEF check_addable
  <2> QED BY <2>2
<1>10. Occurs(x, objs)
  <2>1. check_addable(x, d)
    BY <1>7, <1>8, <1>9
  <2>2. PICK k \in DOMAIN list : list[k] = x
    BY <1>2 DEF Occurs
  <2> QED BY <1>2, <1>5, <2>1, <2>2 DEF Fitting
<1>11. PICK i0 \in Subs(objs) : objs[i0] = x
  BY <1>10 DEF Occurs, Subs
<1>12. objs \in Seq(Classes) /\ \A i \in Subs(objs) : objs[i] \in Subobjects /\ check_addable(objs[i], d)
  BY <1>5 DEF Fitting, Addable, Subs
<1>13. \A i \in Subs(objs), j \in Subs(objs) : objs[i] = objs[j] => i = j
  <2> SUFFICES ASSUME NEW i \in Subs(objs), NEW j \in Subs(objs), objs[i] = objs[j]
               PROVE  i = j
    OBVIOUS
  <2>1. Once(objs, objs[i])
    <3>1. PICK y : y = objs[i] /\ y \in Subobjects
      BY <1>12
    <3>2. Once(add_objects(<< >>, d, list), y)
      BY <1>2, <1>4, <3>1, ObjectsOnce
    <3> QED BY <1>3, <3>1, <3>2
  <2> QED BY <2>1 DEF Once, Subs
<1>14. PICK Q : Q = {UniPar(objs[i]) : i \in Subs(objs)}
  OBVIOUS
<1>15. p \in Q /\ Q \subseteq UniPars /\ Has(d, Q)
  <2>1. p \in Q
    BY <1>8, <1>11, <1>14
  <2>2. ASSUME NEW q \in Q PROVE q \in UniPars /\ d.data[q] # << >>
    <3>1. PICK i \in Subs(objs) : q = UniPar(objs[i])
      BY <1>14
    <3>2. q \in UniPars /\ IsPresent(d, q)
      BY <1>9, <1>12, <3>1, PathNeeds
    <3>3. q \in Parameters \ PT_TAB
      BY <3>2, PathKept
    <3> QED BY <1>6, <3>2, <3>3, OneValue
  <2> QED BY <2>1, <2>2 DEF Has
<1>16. ClassCopies(K, d, objs, Q, {})
  BY <1>11, <1>12, <1>13, <1>14, UniCopies
<1>17. check_addable(K, d)
  <2>1. p \in {q \in requirements[K] : IsPresent(d, q)} /\ K \in AnyOf
    BY <1>7, PathNeeds DEF AnyOf
  <2> QED BY <2>1 DEF check_addable
<1>18. CarriedBy(K, Q \cup {}) /\ Q \cup {} \subseteq Parameters \ PT_TAB
       /\ Q \cap {"MSG_ID_EPOCH", "CALL_ID_IS"} = {}
  BY <1>15, PathCarriers, PathKept DEF CarriedBy
<1>19. K \in TopKinds
  BY DEF TopKinds
<1>20. ClassCopies(K, d, add_objects(<< >>, d, list), Q, {})
  BY <1>3, <1>16
<1>21. Same(parse_data(WireFrom(d, list)), d, Q)
  <2> HIDE DEF K
  <2> QED BY <1>2, <1>15, <1>17, <1>18, <1>19, <1>20, PathCopies
<1> QED BY <1>1, <1>15, <1>21 DEF Same, PathReading

LEMMA EtherTold ==
  ASSUME NEW d, Fit(d), proto = "OIFUNI20", Has(d, Ethernet)
  PROVE  Same(PathReading(d), d, EtherPars(d))
<1> DEFINE K == "ETHERNET_SENDER_TSPEC"
           Q == EtherPars(d)
<1>1. PICK list : list = PathList(d)
  OBVIOUS
<1>2. list \in Seq(CreateKinds) /\ Len(list) < MAX_OBJECTS /\ Occurs(K, list)
  <2>1. K \in CreateHas(d)
    BY DEF CreateHas, TrafficPart
  <2> QED BY <1>1, <2>1, PathListIs
<1>3. K \in TopKinds /\ K \in Classes \ AnyOf /\ requirements[K] = Ethernet
  BY PathNeeds, CreateKindsUsual DEF TopKinds, CreateKinds, AnyOf
<1>4. Good(d) /\ Ethernet \subseteq Parameters \ PT_TAB
  BY PathKept DEF Fit
<1>5. \A q \in Ethernet : IsPresent(d, q) /\ d.data[q] = << Read(d, q) >>
  BY <1>4, OneValue DEF Has
<1>6. Grouped(K, d, add_objects(<< >>, d, list), Ethernet, {}, EthernetSaid(d))
  BY <1>5, EthernetGrouped
<1>7. CarriedBy(K, Ethernet \cup {}) /\ Ethernet \cup {} \subseteq Parameters \ PT_TAB
  BY <1>4, PathCarriers DEF CarriedBy
<1> HIDE DEF K
<1>8. check_addable(K, d)
  BY <1>3, <1>4, NeedsAll
<1>9. AllRead(parse_data(WireFrom(d, list)), Ethernet, EthernetSaid(d))
  BY <1>2, <1>3, <1>6, <1>7, <1>8, PathSays
<1>10. \A q \in Q : q \in Ethernet /\ q \in DOMAIN EthernetSaid(d) /\ EthernetSaid(d)[q] = {Read(d, q)}
  BY DEF EthernetSaid, EtherPars
<1> QED BY <1>1, <1>5, <1>9, <1>10 DEF AllRead, Same, PathReading

(* The hop of a PATH.                                                      *)
HopPars == {"DATA_OUT_IF_ADDR", "CONTROL_OUT_IF_ADDR", "CONTROL_OUT_IF_HANDLE"}

LEMMA HopCarriers ==
  /\ \A class \in TopKinds \ HopClasses : "CONTROL_OUT_IF_ADDR" \notin MayCarry(class)
  /\ HopClasses \subseteq TopKinds \ AnyOf /\ HopPars \subseteq Parameters \ PT_TAB
  /\ \A class \in HopClasses : requirements[class] \subseteq HopPars
<1>1. \A class \in TopKinds : MayCarry(class) = requirements[class] \cup Beyond
  BY DEF MayCarry, TopKinds
<1>2. \A class \in TopKinds : "CONTROL_OUT_IF_ADDR" \in requirements[class] => class \in HopClasses
  BY DEF TopKinds, HopClasses, requirements, TokenBucket, Sonet, EthernetBandwidth, EthernetLink,
         SessionId, MessageId, LocalCallId, StyleFlags
<1>3. "CONTROL_OUT_IF_ADDR" \notin Beyond
  BY DEF Beyond
<1>4. HopClasses \subseteq TopKinds \ AnyOf
  BY DEF HopClasses, TopKinds, AnyOf
<1>5. \A class \in HopClasses : requirements[class] \subseteq HopPars
  BY DEF HopClasses, requirements, HopPars
<1>6. HopPars \subseteq Parameters \ PT_TAB
  BY DEF HopPars, Parameters, PT_UI, PT_TAB
<1> QED BY <1>1, <1>2, <1>3, <1>4, <1>5, <1>6

LEMMA HopTold ==
  ASSUME NEW d, Fit(d), Has(d, HopPars)
  PROVE  PathReading(d).data["CONTROL_OUT_IF_ADDR"] = d.data["CONTROL_OUT_IF_ADDR"]
<1> DEFINE T == [q \in {"CONTROL_OUT_IF_ADDR"} |-> {Read(d, q)}]
           K == HopOf(d)
<1>1. PICK Q : Q = {"CONTROL_OUT_IF_ADDR"}
  OBVIOUS
<1>2. PICK list : list = PathList(d)
  OBVIOUS
<1>3. K \in HopClasses
  BY DEF HopOf, HopFor, HopClasses
<1>4. list \in Seq(CreateKinds) /\ Len(list) < MAX_OBJECTS /\ Occurs(K, list)
  <2>1. K \in CreateHas(d)
    BY DEF CreateHas, BodyPart
  <2> QED BY <1>2, <2>1, PathListIs
<1>5. list \in Seq(Usual)
  BY <1>4, CreateKindsUsual, SequenceIn
<1>6. MessageFit(d, list) /\ \A k \in DOMAIN list : list[k] \in CreateKinds
  BY <1>4, <1>5, UsualFits, SequenceIn
<1>7. PICK objs : objs = add_objects(<< >>, d, list)
  OBVIOUS
<1>8. Fitting(objs, d, list) /\ AllWritable(objs, d)
  BY <1>6, <1>7, ObjectsWritable
<1> HIDE DEF K
<1>9. check_addable(K, d)
  <2>1. K \in Classes \ AnyOf /\ requirements[K] \subseteq HopPars
    BY <1>3, HopCarriers, CreateKindsUsual DEF CreateKinds
  <2> QED BY <2>1, HopCarriers, NeedsAll DEF Has, Fit
<1>10. objs \in Seq(Classes) /\ (\A i \in DOMAIN objs : Occurs(objs[i], list)) /\ Occurs(K, objs)
  BY <1>4, <1>8, <1>9 DEF Fitting, Occurs
<1>11. \A i \in Own(objs) : objs[i] \in TopKinds
  BY <1>6, <1>10 DEF Own, Occurs, CreateKinds
<1>12. \E i \in Own(objs) : objs[i] = K
  BY <1>3, <1>10, HopCarriers, CreateKindsUsual DEF Own, Occurs
<1>13. PICK wire : wire = get_data(objs, d)
  OBVIOUS
<1>14. /\ ShapedWire(wire)
       /\ \A k \in DOMAIN wire : \E i : Wired(wire[k], objs, d, i)
       /\ \A i \in Own(objs) : \E k \in DOMAIN wire : Wired(wire[k], objs, d, i)
  BY <1>8, <1>10, <1>13, WireOf DEF Fit
<1>15. Good(d) /\ IsPresent(d, "CONTROL_OUT_IF_ADDR")
       /\ d.data["CONTROL_OUT_IF_ADDR"] = << Read(d, "CONTROL_OUT_IF_ADDR") >>
  <2>1. PICK p : p = "CONTROL_OUT_IF_ADDR" /\ p \in HopPars /\ p \in Parameters \ PT_TAB
    BY HopCarriers DEF HopPars
  <2> QED BY <2>1, OneValue DEF Has, Fit
<1>16. ASSUME NEW k \in DOMAIN wire
       PROVE  /\ wire[k].class \in HopClasses => \E n : GroupUpTo(wire[k], Q, {}, T, n)
              /\ wire[k].class \notin HopClasses => \A p \in Q \cup {} : p \notin MayCarry(wire[k].class)
  <2>1. PICK i : Wired(wire[k], objs, d, i)
    BY <1>14
  <2>2. PICK class : class = objs[i]
    OBVIOUS
  <2>3. /\ wire[k].class = class /\ wire[k] = WrittenObject(class, Written(class, d, objs), d)
        /\ class \in TopKinds /\ Shaped(wire[k])
    BY <1>11, <2>1, <2>2 DEF Wired, Own
  <2>4. ASSUME class \in HopClasses PROVE \E n : GroupUpTo(wire[k], Q, {}, T, n)
    <3>1. GroupUpTo(wire[k], {"CONTROL_OUT_IF_ADDR"}, {}, T, 1)
      BY <1>15, <2>3, <2>4, HopGrouped
    <3> HIDE DEF T
    <3> QED BY <1>1, <3>1
  <2> QED BY <1>1, <2>3, <2>4, HopCarriers
<1>17. T = [q \in Q |-> {Read(d, q)}]
  BY <1>1
<1> HIDE DEF T
<1>18. GroupClasses(wire, HopClasses, Q, {}, T)
  <2>1. Q \cup {} \subseteq Parameters \ PT_TAB
    BY <1>1, HopCarriers DEF HopPars
  <2> QED BY <1>16, <2>1 DEF GroupClasses
<1>19. \E k \in DOMAIN wire : wire[k].class \in HopClasses
  BY <1>3, <1>12, <1>14 DEF Wired
<1>20. AllRead(parse_data(wire), Q, T)
  BY <1>14, <1>18, <1>19, GroupRead
<1>21. parse_data(wire).data["CONTROL_OUT_IF_ADDR"] = << Read(d, "CONTROL_OUT_IF_ADDR") >>
  BY <1>1, <1>17, <1>20 DEF AllRead
<1> QED BY <1>2, <1>7, <1>13, <1>15, <1>21 DEF PathReading, WireFrom

(* What every store of create_path has, and what the PATH tells of it.     *)
Always == {"REFRESH_PERIOD"} \cup LspRequest \cup Attribute \cup AttributeFlags
          \cup TokenBucket \cup Ethernet
Complete(d) == Fit(d) /\ Has(d, Names \cup Always \cup HopPars) /\ Read(d, "SESSION_NAME") \in Nat

Told ==
  SessionId \cup {"SENDER_SRC_ID", "CONTROL_OUT_IF_ADDR", "REFRESH_PERIOD"} \cup LspRequest
  \cup Attribute
  \cup (IF IETF THEN TokenBucket ELSE UniPars)
  \cup (IF proto = "OIFUNI20" THEN Ethernet ELSE {"UPSTREAM_LABEL"})
SaidWhole(p, v) == p = "ETHERNET_SW_GRANUALITY" => v \in 0..127

LEMMA PathTells ==
  ASSUME NEW d, Complete(d), NEW p \in Told, d.data[p] # << >>, SaidWhole(p, Read(d, p))
  PROVE  PathReading(d).data[p] = d.data[p]
<1>1. /\ Fit(d) /\ Has(d, HopPars) /\ Good(d) /\ Has(d, Names) /\ Has(d, {"REFRESH_PERIOD"}) /\ Has(d, LspRequest)
      /\ Has(d, Attribute \cup AttributeFlags) /\ Has(d, TokenBucket) /\ Has(d, Ethernet)
      /\ Read(d, "SESSION_NAME") \in Nat
  BY DEF Complete, Has, Always, Fit
<1>2. /\ "GENERALIZED_LABEL_REQUEST" \in CreateHas(d) /\ "TIME_VALUES" \in CreateHas(d)
      /\ "SESSION_ATTRIBUTE" \in CreateHas(d)
      /\ IETF => "TOKEN_SENDER_TSPEC" \in CreateHas(d)
      /\ IsPresent(d, "UPSTREAM_LABEL") => "UPSTREAM_LABEL" \in CreateHas(d)
  BY DEF CreateHas, LabelPart, BodyPart
<1>3. \A K \in {"GENERALIZED_LABEL_REQUEST", "TIME_VALUES", "SESSION_ATTRIBUTE", "TOKEN_SENDER_TSPEC",
                "UPSTREAM_LABEL"} : K \in TopKinds \ AnyOf
  BY DEF TopKinds, AnyOf
<1>4. CASE p \in Names
  <2>1. SenderOf(d, d)
    BY DEF SenderOf
  <2>2. SenderList(PathList(d))
    BY CreateNames DEF PathList
  <2>3. MessageFit(d, PathList(d)) /\ Naming(PathList(d), "SENDER_TEMPLATE", "FILTER_SPEC")
    BY <1>1, <2>2, UsualFits DEF SenderList
  <2>4. BySender(PathReading(d), d)
    BY <1>1, <2>1, <2>3, SenderSays DEF PathReading
  <2> QED BY <1>4, <2>4 DEF BySender, SenderOf
<1>5. CASE p = "REFRESH_PERIOD"
  <2> DEFINE Q == {"REFRESH_PERIOD"}
             K == "TIME_VALUES"
  <2>1. \A objs : ClassCopies(K, d, objs, Q, {})
    BY WordCopies
  <2>2. /\ requirements[K] = Q \cup {} /\ Has(d, Q \cup {}) /\ Q \cup {} \subseteq Parameters \ PT_TAB
        /\ CarriedBy(K, Q \cup {}) /\ Q \cap {"MSG_ID_EPOCH", "CALL_ID_IS"} = {}
    BY <1>1, PathNeeds, PathKept, PathCarriers
  <2>3. p \in Q /\ K \in TopKinds \ AnyOf /\ K \in CreateHas(d)
    BY <1>2, <1>3, <1>5
  <2> HIDE DEF Q, K
  <2>4. Same(PathReading(d), d, Q)
    BY <1>1, <2>1, <2>2, <2>3, PlainTold
  <2> QED BY <2>3, <2>4 DEF Same
<1>6. CASE p \in LspRequest
  <2> DEFINE K == "GENERALIZED_LABEL_REQUEST"
  <2>1. \A objs : ClassCopies(K, d, objs, LspRequest, {})
    BY LabelRequestCopies
  <2>2. /\ requirements[K] = LspRequest \cup {} /\ Has(d, LspRequest \cup {})
        /\ LspRequest \cup {} \subseteq Parameters \ PT_TAB
        /\ CarriedBy(K, LspRequest \cup {}) /\ LspRequest \cap {"MSG_ID_EPOCH", "CALL_ID_IS"} = {}
    BY <1>1, PathNeeds, PathKept, PathCarriers
  <2>3. K \in TopKinds \ AnyOf /\ K \in CreateHas(d)
    BY <1>2, <1>3
  <2> HIDE DEF K
  <2>4. Same(PathReading(d), d, LspRequest)
    BY <1>1, <2>1, <2>2, <2>3, PlainTold
  <2> QED BY <1>6, <2>4 DEF Same
<1>7. CASE p \in Attribute
  <2> DEFINE K == "SESSION_ATTRIBUTE"
  <2>1. \A objs : ClassCopies(K, d, objs, Attribute, AttributeFlags)
    BY <1>1, AttributeCopies
  <2>2. /\ requirements[K] = Attribute \cup AttributeFlags /\ Has(d, Attribute \cup AttributeFlags)
        /\ Attribute \cup AttributeFlags \subseteq Parameters \ PT_TAB
        /\ CarriedBy(K, Attribute \cup AttributeFlags)
        /\ Attribute \cap {"MSG_ID_EPOCH", "CALL_ID_IS"} = {}
    BY <1>1, PathNeeds, PathKept, PathCarriers
  <2>3. K \in TopKinds \ AnyOf /\ K \in CreateHas(d)
    BY <1>2, <1>3
  <2> HIDE DEF K
  <2>4. Same(PathReading(d), d, Attribute)
    BY <1>1, <2>1, <2>2, <2>3, PlainTold
  <2> QED BY <1>7, <2>4 DEF Same
<1>8. CASE IETF /\ p \in TokenBucket
  <2> DEFINE K == "TOKEN_SENDER_TSPEC"
  <2>1. \A objs : ClassCopies(K, d, objs, TokenBucket, {})
    BY TokenCopies
  <2>2. /\ requirements[K] = TokenBucket \cup {} /\ Has(d, TokenBucket \cup {})
        /\ TokenBucket \cup {} \subseteq Parameters \ PT_TAB
        /\ CarriedBy(K, TokenBucket \cup {}) /\ TokenBucket \cap {"MSG_ID_EPOCH", "CALL_ID_IS"} = {}
    BY <1>1, PathNeeds, PathKept, PathCarriers
  <2>3. K \in TopKinds \ AnyOf /\ K \in CreateHas(d)
    BY <1>2, <1>3, <1>8
  <2> HIDE DEF K
  <2>4. Same(PathReading(d), d, TokenBucket)
    BY <1>1, <2>1, <2>2, <2>3, PlainTold
  <2> QED BY <1>8, <2>4 DEF Same
<1>9. CASE ~ IETF /\ p \in UniPars
  BY <1>1, <1>9, UniTold
<1>10. CASE proto = "OIFUNI20" /\ p \in Ethernet
  <2>1. Same(PathReading(d), d, EtherPars(d)) /\ p \in EtherPars(d)
    BY <1>1, <1>10, EtherTold DEF EtherPars, SaidWhole
  <2> QED BY <2>1 DEF Same
<1>11. CASE p = "UPSTREAM_LABEL"
  <2> DEFINE Q == {"UPSTREAM_LABEL"}
             K == "UPSTREAM_LABEL"
  <2>1. \A objs : ClassCopies(K, d, objs, Q, {})
    BY WordCopies
  <2>2. /\ requirements[K] = Q \cup {} /\ Q \cup {} \subseteq Parameters \ PT_TAB
        /\ CarriedBy(K, Q \cup {}) /\ Q \cap {"MSG_ID_EPOCH", "CALL_ID_IS"} = {}
    BY PathNeeds, PathKept, PathCarriers
  <2>3. p \in Q /\ Has(d, Q \cup {}) /\ IsPresent(d, "UPSTREAM_LABEL")
    <3>1. p \in Parameters \ PT_TAB
      BY <1>11, PathKept
    <3> QED BY <1>1, <1>11, <3>1, OneValue DEF Has
  <2>4. K \in TopKinds \ AnyOf /\ K \in CreateHas(d)
    BY <1>2, <1>3, <2>3
  <2> HIDE DEF Q, K
  <2>5. Same(PathReading(d), d, Q)
    BY <1>1, <2>1, <2>2, <2>3, <2>4, PlainTold
  <2> QED BY <2>3, <2>5 DEF Same
<1>12. \/ p \in Names \/ p = "REFRESH_PERIOD" \/ p \in LspRequest \/ p \in Attribute
       \/ (IETF /\ p \in TokenBucket) \/ (~ IETF /\ p \in UniPars)
       \/ (proto = "OIFUNI20" /\ p \in Ethernet)
       \/ p = "UPSTREAM_LABEL" \/ p = "CONTROL_OUT_IF_ADDR"
  BY DEF Told, Names, Sender
<1>13. CASE p = "CONTROL_OUT_IF_ADDR"
  BY <1>1, <1>13, HopTold
<1> QED BY <1>4, <1>5, <1>6, <1>7, <1>8, <1>9, <1>10, <1>11, <1>12, <1>13

-----------------------------------------------------------------------------
(* What the defaults hold.                                                 *)

Unnumbered == Defaulted \ {"SESSION_NAME"}

LEMMA WellOf ==
  ASSUME NEW V, NEW calls \in Seq(SettingsIn(V, Unnumbered)), NEW Y, \A p \in Y : Gives(calls, p)
  PROVE  SetsWell(calls, Y)
<1>1. Sets(calls, Unnumbered)
  BY SequenceSets
<1>2. NameIs(calls) /\ Sets(calls, Defaulted)
  BY <1>1 DEF Sets, NameIs, Unnumbered
<1> QED BY <1>2 DEF SetsWell

LEMMA AlwaysTyped ==
  /\ \A p \in {"TOKEN_BUCKET_RATE", "TOKEN_BUCKET_SIZE", "PEAK_DATA_RATE"} \cup EthernetBandwidth :
       HasType(p, "F")
  /\ \A p \in {"LSP_ENC_TYPE", "LSP_SWITCHING_TYPE", "SETUP_PRIORITY", "HOLDING_PRIORITY",
               "LOCAL_PROTECTION_FLAG", "LABEL_RECORDING_FLAG", "SE_STYLE_FLAG",
               "ETHERNET_INDEX", "ETHERNET_PROFILE"} : HasType(p, "UC")
  /\ \A p \in {"LSP_GPID", "ETHERNET_SW_GRANUALITY"} : HasType(p, "US")
  /\ \A p \in {"MINIMUM_POLICED_UNIT", "MAXIMUM_PACKET_SIZE", "REFRESH_PERIOD"} : HasType(p, "UI")
  /\ HasType("SESSION_NAME", "CS") /\ \A p \in HopPars : HasType(p, "UI")
BY DEF HasType, PT_F, PT_UC, PT_US, PT_UI, PT_CS, EthernetBandwidth, HopPars

Settled == Always \cup HopPars

LEMMA DefaultsWell ==
  \E calls : SetsWell(calls, Settled) /\ set_conf_defaults = SetEach(Empty, calls)
<1> DEFINE V == Int \cup {message_id}
           S == SettingsIn(V, Unnumbered)
           a == << FL("TOKEN_BUCKET_RATE", 31250000), FL("TOKEN_BUCKET_SIZE", 31250000),
                   FL("PEAK_DATA_RATE", 31250000) >>
           b1 == << UC("LSP_ENC_TYPE", 1), UC("LSP_SWITCHING_TYPE", 1),
                    US("LSP_GPID", 2048) >>
           b2 == << UC("LSP_ENC_TYPE", 2), UC("LSP_SWITCHING_TYPE", 51),
                    US("LSP_GPID", 34), VS("UPSTREAM_LABEL", 65536) >>
           b == IF IETF THEN b1 ELSE b2
           d1 == << UI("EXTENDED_IPV4_ADDR", Local), UI("DATA_OUT_IF_ADDR", Local),
                    UI("DATA_IN_IF_ADDR", Local), UI("CONTROL_OUT_IF_ADDR", Local),
                    UI("SENDER_SRC_ADDR", Local) >>
           d2 == << UI("DATA_OUT_IF_HANDLE", 1000), UI("DATA_IN_IF_HANDLE", 1000),
                    UI("CONTROL_OUT_IF_HANDLE", 1000), US("SENDER_SRC_ID", 1),
                    UC("MSG_ID_FLAGS", 1), UI("MSG_ID_EPOCH", Epoch),
                    UI("MSG_ID_ID", message_id) >>
           d3 == << CS("SESSION_NAME", 12), UC("SETUP_PRIORITY", 0),
                    UC("HOLDING_PRIORITY", 0), UC("LOCAL_PROTECTION_FLAG", 1),
                    UC("LABEL_RECORDING_FLAG", 0), UC("SE_STYLE_FLAG", 1),
                    UI("MINIMUM_POLICED_UNIT", 64), UI("MAXIMUM_PACKET_SIZE", 1518) >>
           d4 == << UI("TNA_SRC_ADDR", TnaSource), UI("TNA_DST_ADDR", TnaDestination),
                    UI("ADMIN_STATUS_RTAD_FLAGS", 0), UI("TR_D_ADDR", LocalHost),
                    UI("REFRESH_PERIOD", 30000) >>
           d5 == << FL("ETHERNET_CIR", 31250000), FL("ETHERNET_CBS", 0),
                    FL("ETHERNET_EIR", 0), FL("ETHERNET_EBS", 0),
                    US("ETHERNET_SW_GRANUALITY", 1), UC("ETHERNET_INDEX", 0),
                    UC("ETHERNET_PROFILE", 0) >>
           Ya == {"TOKEN_BUCKET_RATE", "TOKEN_BUCKET_SIZE", "PEAK_DATA_RATE"}
           Y1 == {"DATA_OUT_IF_ADDR", "CONTROL_OUT_IF_ADDR"}
           Y2 == {"CONTROL_OUT_IF_HANDLE"}
           Y3 == Attribute \cup AttributeFlags \cup {"MINIMUM_POLICED_UNIT", "MAXIMUM_PACKET_SIZE"}
<1>0. /\ Local \in V /\ Epoch \in V /\ message_id \in V /\ TnaSource \in V
      /\ TnaDestination \in V /\ LocalHost \in V /\ Int \subseteq V
  BY SMT DEF Local, Epoch, TnaSource, TnaDestination, LocalHost
<1> HIDE DEF V
<1>1. \A p \in Unnumbered, v \in V :
        /\ UC(p, v) \in S /\ US(p, v) \in S /\ UI(p, v) \in S /\ FL(p, v) \in S /\ VS(p, v) \in S
  <2>1. Unnumbered \subseteq Plain
    BY DefaultedPlain DEF Unnumbered
  <2> QED BY SMT, <2>1, SettingIn
<1> HIDE DEF S
<1>2. SetsWell(a, Ya)
  <2>1. a \in Seq(S)
    BY SMT, <1>0, <1>1 DEF Unnumbered, Defaulted
  <2>2. /\ DOMAIN a = 1..3 /\ a[1][1] = "TOKEN_BUCKET_RATE" /\ a[2][1] = "TOKEN_BUCKET_SIZE"
        /\ a[3][1] = "PEAK_DATA_RATE" /\ \A k \in 1..3 : a[k][2] = "F"
    BY DEF FL
  <2> HIDE DEF a
  <2>3. \A p \in Ya : Gives(a, p)
    BY <2>2, AlwaysTyped DEF Gives
  <2> QED BY <2>1, <2>3, WellOf DEF S
<1>3. SetsWell(b, LspRequest)
  <2>1. b1 \in Seq(S)
    BY SMT, <1>0, <1>1 DEF Unnumbered, Defaulted
  <2>2. b2 \in Seq(S)
    BY SMT, <1>0, <1>1 DEF Unnumbered, Defaulted
  <2>3. /\ DOMAIN b1 = 1..3 /\ b1[1][1] = "LSP_ENC_TYPE" /\ b1[2][1] = "LSP_SWITCHING_TYPE"
        /\ b1[3][1] = "LSP_GPID" /\ b1[1][2] = "UC" /\ b1[2][2] = "UC" /\ b1[3][2] = "US"
    BY DEF UC, US
  <2>4. /\ DOMAIN b2 = 1..4 /\ b2[1][1] = "LSP_ENC_TYPE" /\ b2[2][1] = "LSP_SWITCHING_TYPE"
        /\ b2[3][1] = "LSP_GPID" /\ b2[1][2] = "UC" /\ b2[2][2] = "UC" /\ b2[3][2] = "US"
    BY DEF UC, US
  <2> HIDE DEF b1, b2
  <2>5. \A p \in LspRequest : Gives(b1, p) /\ Gives(b2, p)
    BY <2>3, <2>4, AlwaysTyped DEF Gives, LspRequest
  <2>6. SetsWell(b1, LspRequest) /\ SetsWell(b2, LspRequest)
    BY <2>1, <2>2, <2>5, WellOf DEF S
  <2> QED BY <2>6
<1>4. SetsWell(d1, Y1) /\ SetsWell(d2, Y2)
  <2>1. d1 \in Seq(S)
    BY SMT, <1>0, <1>1 DEF Unnumbered, Defaulted
  <2>2. d2 \in Seq(S)
    BY SMT, <1>0, <1>1 DEF Unnumbered, Defaulted
  <2>3. /\ DOMAIN d1 = 1..5 /\ d1[2][1] = "DATA_OUT_IF_ADDR" /\ d1[2][2] = "UI"
        /\ d1[4][1] = "CONTROL_OUT_IF_ADDR" /\ d1[4][2] = "UI"
    BY DEF UI
  <2>4. DOMAIN d2 = 1..7 /\ d2[3][1] = "CONTROL_OUT_IF_HANDLE" /\ d2[3][2] = "UI"
    BY DEF UI
  <2> HIDE DEF d1, d2
  <2>5. (\A p \in Y1 : Gives(d1, p)) /\ \A p \in Y2 : Gives(d2, p)
    BY <2>3, <2>4, AlwaysTyped DEF Gives, HopPars
  <2> QED BY <2>1, <2>2, <2>5, WellOf DEF S
<1>5. SetsWell(d3, Y3)
  <2>1. Sets(d3, Defaulted)
    <3> DEFINE D == SettingsIn(Int, Defaulted)
    <3>1. \A p \in Defaulted, v \in Int : CS(p, v) \in D /\ UC(p, v) \in D /\ UI(p, v) \in D
      BY SMT, DefaultedPlain, SettingIn
    <3> HIDE DEF D
    <3>2. d3 \in Seq(D)
      BY SMT, <3>1 DEF Defaulted
    <3> HIDE DEF d3
    <3> QED BY SMT, <3>2, SequenceSets DEF D
  <2>2. /\ DOMAIN d3 = 1..8 /\ d3[1] = << "SESSION_NAME", "CS", 12 >>
        /\ d3[2][1] = "SETUP_PRIORITY" /\ d3[3][1] = "HOLDING_PRIORITY"
        /\ d3[4][1] = "LOCAL_PROTECTION_FLAG" /\ d3[5][1] = "LABEL_RECORDING_FLAG"
        /\ d3[6][1] = "SE_STYLE_FLAG" /\ d3[7][1] = "MINIMUM_POLICED_UNIT"
        /\ d3[8][1] = "MAXIMUM_PACKET_SIZE"
        /\ \A k \in 2..6 : d3[k][2] = "UC" /\ d3[7][2] = "UI" /\ d3[8][2] = "UI"
    BY DEF UC, UI, CS
  <2> HIDE DEF d3
  <2>3. NameIs(d3)
    BY <2>2 DEF NameIs
  <2>4. \A p \in Y3 : Gives(d3, p)
    BY <2>2, AlwaysTyped DEF Gives, Attribute, AttributeFlags
  <2> QED BY <2>1, <2>3, <2>4 DEF SetsWell
<1>6. SetsWell(d4, {"REFRESH_PERIOD"})
  <2>1. d4 \in Seq(S)
    BY SMT, <1>0, <1>1 DEF Unnumbered, Defaulted
  <2>2. DOMAIN d4 = 1..5 /\ d4[5][1] = "REFRESH_PERIOD" /\ d4[5][2] = "UI"
    BY DEF UI
  <2> HIDE DEF d4
  <2>3. \A p \in {"REFRESH_PERIOD"} : Gives(d4, p)
    BY <2>2, AlwaysTyped DEF Gives
  <2> QED BY <2>1, <2>3, WellOf DEF S
<1>7. SetsWell(d5, Ethernet)
  <2>1. d5 \in Seq(S)
    BY SMT, <1>0, <1>1 DEF Unnumbered, Defaulted
  <2>2. /\ DOMAIN d5 = 1..7 /\ d5[1][1] = "ETHERNET_CIR" /\ d5[2][1] = "ETHERNET_CBS"
        /\ d5[3][1] = "ETHERNET_EIR" /\ d5[4][1] = "ETHERNET_EBS" /\ d5[5][1] = "ETHERNET_SW_GRANUALITY"
        /\ d5[6][1] = "ETHERNET_INDEX" /\ d5[7][1] = "ETHERNET_PROFILE"
        /\ (\A k \in 1..4 : d5[k][2] = "F") /\ d5[5][2] = "US" /\ d5[6][2] = "UC" /\ d5[7][2] = "UC"
    BY DEF FL, UC, US
  <2> HIDE DEF d5
  <2>3. \A p \in Ethernet : Gives(d5, p)
    BY <2>2, AlwaysTyped DEF Gives, Ethernet, EthernetLink, EthernetBandwidth
  <2> QED BY <2>1, <2>3, WellOf DEF S
<1>8. set_conf_defaults = SetEach(Empty, a \o b \o d1 \o d2 \o d3 \o d4 \o d5)
  BY SMT DEF set_conf_defaults
<1>9. Settled \subseteq Ya \cup LspRequest \cup Y1 \cup Y2 \cup Y3 \cup {"REFRESH_PERIOD"} \cup Ethernet
  BY DEF Settled, HopPars, Always, TokenBucket
<1> HIDE DEF a, b, d1, d2, d3, d4, d5, Ya, Y1, Y2, Y3
<1>10. SetsWell(a \o b, Ya \cup LspRequest)
  BY <1>2, <1>3, JoinedWell
<1>11. SetsWell(a \o b \o d1, Ya \cup LspRequest \cup Y1)
  BY <1>4, <1>10, JoinedWell
<1>12. SetsWell(a \o b \o d1 \o d2, Ya \cup LspRequest \cup Y1 \cup Y2)
  BY <1>4, <1>11, JoinedWell
<1>13. SetsWell(a \o b \o d1 \o d2 \o d3, Ya \cup LspRequest \cup Y1 \cup Y2 \cup Y3)
  BY <1>5, <1>12, JoinedWell
<1>14. SetsWell(a \o b \o d1 \o d2 \o d3 \o d4,
                Ya \cup LspRequest \cup Y1 \cup Y2 \cup Y3 \cup {"REFRESH_PERIOD"})
  BY <1>6, <1>13, JoinedWell
<1>15. SetsWell(a \o b \o d1 \o d2 \o d3 \o d4 \o d5,
                Ya \cup LspRequest \cup Y1 \cup Y2 \cup Y3 \cup {"REFRESH_PERIOD"} \cup Ethernet)
  BY <1>7, <1>14, JoinedWell
<1>16. SetsWell(a \o b \o d1 \o d2 \o d3 \o d4 \o d5, Settled)
  BY <1>9, <1>15 DEF SetsWell
<1> QED BY <1>8, <1>16

LEMMA AlwaysKept == Settled \subseteq Parameters \ PT_TAB
BY PathKept, HopCarriers DEF Settled, Always

LEMMA DefaultsHold ==
  Has(set_conf_defaults, Settled) /\ set_conf_defaults.data["SESSION_NAME"] = << 12 >>
<1>1. PICK calls : SetsWell(calls, Settled) /\ set_conf_defaults = SetEach(Empty, calls)
  BY DefaultsWell
<1>2. GoodSettings(calls) /\ "SESSION_NAME" \in Settled
  BY <1>1 DEF SetsWell, Sets, Settled, Always, Attribute
<1>3. ASSUME NEW p \in Settled PROVE set_conf_defaults.data[p] # << >>
  <2>1. PICK k \in DOMAIN calls : calls[k][1] = p /\ HasType(p, calls[k][2])
    BY <1>1 DEF SetsWell, Gives
  <2> QED BY <1>1, <1>2, <2>1, AlwaysKept, SetEachPresent
<1>4. set_conf_defaults.data["SESSION_NAME"] = << 12 >>
  <2>1. PICK p : p = "SESSION_NAME"
    OBVIOUS
  <2>2. PICK k \in DOMAIN calls : calls[k][1] = p /\ HasType(p, calls[k][2])
    BY <1>1, <1>2, <2>1 DEF SetsWell, Gives
  <2>3. \A j \in DOMAIN calls : calls[j][1] = p => calls[j][3] = 12
    BY <1>1, <2>1 DEF SetsWell, NameIs
  <2>4. SetEach(Empty, calls).data[p] = << 12 >>
    BY <1>2, <2>1, <2>2, <2>3, AlwaysKept, SetEachGives
  <2> QED BY <1>1, <2>1, <2>4
<1> QED BY <1>3, <1>4 DEF Has

-----------------------------------------------------------------------------
(* What create_path sets itself on the way to the PATH.                    *)
LinkSet == {"SENDER_SRC_ADDR", "DATA_OUT_IF_ADDR", "DATA_IN_IF_ADDR"}
TranslatedSet == LinkSet \cup {"SESSION_DEST_ADDR", "EXTENDED_IPV4_ADDR", "CONTROL_OUT_IF_ADDR"}
OifSet == {"UPSTREAM_LABEL", "CALL_ID", "NOTIFY_ADDRESS"}
Touched == LinkSet \cup InterfaceHandles \cup {"MSG_ID_ID"}
           \cup (IF translator THEN TranslatedSet ELSE {})
           \cup (IF proto = "OIFUNI20" THEN OifSet ELSE {})
Stays(c, d, X) == \A p \in Parameters \ X : c.data[p] # << >> => d.data[p] = c.data[p]

LEMMA LinkStays ==
  ASSUME NEW c
  PROVE  /\ Stays(c, LinkAddresses(c), LinkSet)
         /\ \A p \in Parameters : c.data[p] # << >> => LinkAddresses(c).data[p] # << >>
<1> DEFINE a == Read(c, "EXTENDED_IPV4_ADDR")
           b == Read(c, "CONTROL_OUT_IF_ADDR")
           V == {a, b}
           S == SettingsIn(V, LinkSet)
           calls == << UI("SENDER_SRC_ADDR", a), UI("DATA_OUT_IF_ADDR", b),
                       UI("DATA_IN_IF_ADDR", b) >>
<1>1. a \in V /\ b \in V
  OBVIOUS
<1>2. LinkAddresses(c) = SetEach(c, calls)
  BY DEF LinkAddresses
<1>3. LinkSet \subseteq Plain
  BY DEF LinkSet, Plain, Parameters, PT_TAB, PT_VS, PT_UI
<1> HIDE DEF a, b, V
<1>4. \A p \in LinkSet, v \in V : UI(p, v) \in S
  BY <1>3, SettingIn
<1> HIDE DEF S
<1>5. calls \in Seq(S)
  BY <1>1, <1>4 DEF LinkSet
<1> HIDE DEF calls
<1>6. Sets(calls, LinkSet)
  BY <1>5, SequenceSets DEF S
<1>7. GoodSettings(calls)
  BY <1>6 DEF Sets
<1>8. Stays(c, LinkAddresses(c), LinkSet)
  BY <1>2, <1>6, SetEachLeaves DEF Stays
<1>9. \A p \in Parameters : c.data[p] # << >> => LinkAddresses(c).data[p] # << >>
  BY <1>2, <1>7, SetEachKeeps
<1> QED BY <1>8, <1>9

LEMMA TranslatedStays ==
  ASSUME NEW c
  PROVE  /\ Stays(c, Translated(c), IF translator THEN TranslatedSet ELSE {})
         /\ \A p \in Parameters : c.data[p] # << >> => Translated(c).data[p] # << >>
<1> DEFINE V == {Local, DefaultPathDest}
           P == TranslatedSet
           S == SettingsIn(V, P)
           calls == << UI("SESSION_DEST_ADDR", DefaultPathDest),
                       UI("EXTENDED_IPV4_ADDR", Local), UI("DATA_OUT_IF_ADDR", Local),
                       UI("DATA_IN_IF_ADDR", Local), UI("SENDER_SRC_ADDR", Local),
                       UI("CONTROL_OUT_IF_ADDR", Local) >>
<1>1. Local \in V /\ DefaultPathDest \in V
  OBVIOUS
<1>2. Translated(c) = IF ~ translator THEN c ELSE SetEach(c, calls)
  BY DEF Translated
<1>3. P \subseteq Plain
  BY DEF TranslatedSet, LinkSet, Plain, Parameters, PT_TAB, PT_VS, PT_UI
<1> HIDE DEF V
<1>4. \A p \in P, v \in V : UI(p, v) \in S
  BY <1>3, SettingIn
<1> HIDE DEF S
<1>5. calls \in Seq(S)
  BY <1>1, <1>4 DEF TranslatedSet, LinkSet
<1> HIDE DEF calls
<1>6. Sets(calls, P)
  BY <1>5, SequenceSets DEF S
<1>7. GoodSettings(calls)
  BY <1>6 DEF Sets
<1>8. Stays(c, Translated(c), IF translator THEN P ELSE {})
  BY <1>2, <1>6, SetEachLeaves DEF Stays
<1>9. \A p \in Parameters : c.data[p] # << >> => Translated(c).data[p] # << >>
  BY <1>2, <1>7, SetEachKeeps
<1> QED BY <1>8, <1>9

LEMMA OifStays ==
  ASSUME NEW c
  PROVE  Stays(c, ForOif20(c), IF proto = "OIFUNI20" THEN OifSet ELSE {})
<1> DEFINE a == Read(c, "CONTROL_OUT_IF_HANDLE")
           V == {a, Local, 0}
           P == OifSet
           S == SettingsIn(V, P)
           calls == << UI("UPSTREAM_LABEL", a), UI("CALL_ID", 0),
                       UI("NOTIFY_ADDRESS", Local) >>
<1>1. a \in V /\ Local \in V /\ 0 \in V
  OBVIOUS
<1>2. ForOif20(c) = IF proto # "OIFUNI20" THEN c ELSE SetEach(c, calls)
  BY DEF ForOif20
<1> HIDE DEF a, V
<1>3. P \subseteq Plain
  BY DEF OifSet, Plain, Parameters, PT_TAB, PT_VS, PT_UI
<1>4. \A p \in P, v \in V : UI(p, v) \in S
  BY <1>3, SettingIn
<1> HIDE DEF S
<1>5. calls \in Seq(S)
  BY <1>1, <1>4 DEF OifSet
<1> HIDE DEF calls
<1>6. Sets(calls, P)
  BY <1>5, SequenceSets DEF S
<1> QED BY <1>2, <1>6, SetEachLeaves DEF Stays

LEMMA StaysOn ==
  ASSUME NEW c, NEW d, NEW e, NEW X, NEW Y, Stays(c, d, X), Stays(d, e, Y)
  PROVE  Stays(c, e, X \cup Y)
BY DEF Stays

LEMMA NumberedStays ==
  ASSUME NEW c, Fit(c)
  PROVE  Stays(c, Numbered(c), {"MSG_ID_ID"})
<1> SUFFICES ASSUME NEW p \in Parameters, p # "MSG_ID_ID", c.data[p] # << >>
             PROVE  Numbered(c).data[p] = c.data[p]
  BY DEF Stays
<1>1. PICK b : b = AddMissing(c, set_conf_defaults)
  OBVIOUS
<1>2. b.data[p] = c.data[p]
  BY <1>1, DefaultsFit, Copied DEF Fit
<1>3. PICK q : q = "MSG_ID_ID"
  OBVIOUS
<1>4. SetAddAt(b, q, "UI", message_id, 0, 0).data[p] = b.data[p]
  BY <1>3, AddLeaves
<1> QED BY <1>1, <1>2, <1>3, <1>4 DEF Numbered, SetAdd

LEMMA HopStays ==
  ASSUME NEW c
  PROVE  Stays(c, HopWithoutHandles(c), InterfaceHandles)
BY DEF Stays, HopWithoutHandles, RemoveEach

LEMMA PathConfStays ==
  ASSUME NEW c, Fit(c)
  PROVE  Stays(c, PathConf(c), Touched) /\ (Has(c, HopPars) => Has(PathConf(c), HopPars))
<1> DEFINE T == IF translator THEN TranslatedSet ELSE {}
           O == IF proto = "OIFUNI20" THEN OifSet ELSE {}
<1>1. PICK a : a = LinkAddresses(c)
  OBVIOUS
<1>2. PICK b : b = Translated(a)
  OBVIOUS
<1>3. PICK d : d = Numbered(b)
  OBVIOUS
<1>4. PICK e : e = HopWithoutHandles(d)
  OBVIOUS
<1>5. Fit(a) /\ Fit(b)
  <2>1. Fit(a)
    BY <1>1, LinkSets
  <2> QED BY <1>2, <2>1, TranslatedFit
<1>6. /\ Stays(c, a, LinkSet) /\ Stays(a, b, T) /\ Stays(b, d, {"MSG_ID_ID"})
      /\ Stays(d, e, InterfaceHandles) /\ Stays(e, ForOif20(e), O)
  BY <1>1, <1>2, <1>3, <1>4, <1>5, LinkStays, TranslatedStays, NumberedStays, HopStays, OifStays
<1>7. PathConf(c) = ForOif20(e)
  BY <1>1, <1>2, <1>3, <1>4 DEF PathConf
<1>8. Touched = LinkSet \cup T \cup {"MSG_ID_ID"} \cup InterfaceHandles \cup O
  BY DEF Touched
<1> HIDE DEF T, O
<1>9. Stays(c, b, LinkSet \cup T)
  BY <1>6, StaysOn
<1>10. Stays(c, d, LinkSet \cup T \cup {"MSG_ID_ID"})
  BY <1>6, <1>9, StaysOn
<1>11. Stays(c, e, LinkSet \cup T \cup {"MSG_ID_ID"} \cup InterfaceHandles)
  BY <1>6, <1>10, StaysOn
<1>12. Stays(c, ForOif20(e), LinkSet \cup T \cup {"MSG_ID_ID"} \cup InterfaceHandles \cup O)
  BY <1>6, <1>11, StaysOn
<1>13. ASSUME NEW p \in HopPars, c.data[p] # << >> PROVE PathConf(c).data[p] # << >>
  <2>1. p \in Parameters
    BY HopCarriers
  <2>2. b.data[p] # << >>
    BY <1>1, <1>2, <1>13, <2>1, LinkStays, TranslatedStays
  <2>3. p \notin {"MSG_ID_ID"} /\ p \notin InterfaceHandles /\ p \notin O
    BY DEF HopPars, InterfaceHandles, O, OifSet
  <2>4. e.data[p] # << >>
    BY <1>6, <2>1, <2>2, <2>3 DEF Stays
  <2> QED BY <1>6, <1>7, <2>1, <2>3, <2>4 DEF Stays
<1> QED BY <1>7, <1>8, <1>12, <1>13 DEF Has

-----------------------------------------------------------------------------
(* A parameter of the request that the PATH carries as it was asked.       *)
Untouched(p) == p \in Told /\ p \in Parameters \ PT_TAB /\ p \notin Touched

LEMMA AlwaysUntouched == Always \cap Touched = {}
BY DEF Always, Touched, LinkSet, TranslatedSet, OifSet, InterfaceHandles, LspRequest, Attribute,
       AttributeFlags, TokenBucket, Ethernet, EthernetLink, EthernetBandwidth

LEMMA AskedLacks ==
  ASSUME NEW r \in Requests, NEW k \in 1..38, Table[k].id \notin DOMAIN r,
         Table[k].id \notin {13, 16, 34}
  PROVE  Asked(r).data[Table[k].par] = << >>
<1> DEFINE objs == ClientObjects(r)
           V == {r[i] : i \in DOMAIN r}
           W == {RouteOf(objs)[n] : n \in DOMAIN RouteOf(objs)}
           X == V \cup W
           id == Table[k].id
           p == Table[k].par
<1>1. objs \in Seq(AskedObjects(X))
  <2>1. \A i \in DOMAIN r : r[i] \in X
    OBVIOUS
  <2> HIDE DEF X
  <2> QED BY <2>1, ClientObjectsIn
<1>2. \A n \in DOMAIN RouteOf(objs) : RouteOf(objs)[n] \in X
  OBVIOUS
<1>3. Asked(r) = AddEach(Empty, NamedCalls(objs) \o RouteCalls(objs))
  BY AskedAs
<1>4. \A m \in DOMAIN objs : \E i \in DOMAIN r : i \in 1..42 /\ objs[m] = Handed(r, i)
  BY ClientObjectsAre
<1> HIDE DEF objs, X
<1> DEFINE A == AddCalls(X, NoStyle)
           a == NamedCalls(objs)
           b == RouteCalls(objs)
           calls == a \o b
           seqs == [m \in DOMAIN objs |-> CallsOfObject(objs[m])]
<1>5. a \in Seq(A) /\ b \in Seq(A)
  BY <1>1, <1>2, NamedCallsIn, RouteCallsIn
<1>6. p \in Parameters \ PT_TAB /\ p # "ERO"
  <2>1. p \in Parameters \ PT_TAB
    BY RowParameters
  <2> QED BY <2>1, RowsApart
<1>7. seqs \in Seq(Seq(A)) /\ DOMAIN seqs = DOMAIN objs
  <2>1. DOMAIN objs = 1..Len(objs) /\ Len(objs) \in Nat
    BY <1>1
  <2>2. \A m \in 1..Len(objs) : CallsOfObject(objs[m]) \in Seq(A)
    BY <1>1, <2>1, CallsOfObjectIn
  <2> HIDE DEF A
  <2>3. seqs \in [1..Len(objs) -> Seq(A)]
    BY <2>1, <2>2
  <2> HIDE DEF seqs
  <2> QED BY <2>1, <2>3
<1>8. a = FlattenSeq(seqs)
  BY DEF NamedCalls
<1>9. ASSUME NEW m \in DOMAIN objs, NEW i \in DOMAIN seqs[m]
      PROVE  \E n \in DOMAIN r : /\ n \in 1..42 /\ i \in DOMAIN AddedAs(n)
                                 /\ seqs[m][i].par = AddedAs(n)[i]
  <2>1. PICK n \in DOMAIN r : n \in 1..42 /\ objs[m] = Handed(r, n)
    BY <1>4
  <2>2. objs[m].id = n /\ objs[m].type = DataType(n) /\ objs[m].val = r[n]
    BY <2>1 DEF Handed, Object
  <2>3. seqs[m] = [x \in DOMAIN AddedAs(n) |-> Call(AddedAs(n)[x], DataType(n), r[n], 0)]
    BY <2>2 DEF CallsOfObject
  <2> HIDE DEF seqs
  <2>4. i \in DOMAIN AddedAs(n) /\ seqs[m][i] = Call(AddedAs(n)[i], DataType(n), r[n], 0)
    BY <2>3
  <2> QED BY <2>1, <2>4 DEF Call
<1> HIDE DEF seqs
<1>10. ASSUME NEW j \in DOMAIN a PROVE a[j].par # p
  <2> SUFFICES ASSUME a[j].par = p PROVE FALSE
    OBVIOUS
  <2>1. PICK m \in DOMAIN seqs : \E i \in DOMAIN seqs[m] : a[j] = seqs[m][i]
    BY <1>7, <1>8, <1>10, FlattenFrom
  <2>2. PICK i \in DOMAIN seqs[m] : a[j] = seqs[m][i]
    BY <2>1
  <2>3. m \in DOMAIN objs
    BY <1>7
  <2>4. PICK n \in DOMAIN r : /\ n \in 1..42 /\ i \in DOMAIN AddedAs(n)
                              /\ seqs[m][i].par = AddedAs(n)[i]
    BY <1>9, <2>2, <2>3
  <2>5. n = id
    BY <2>2, <2>4, NamesApart
  <2> QED BY <2>4, <2>5
<1>11. \A j \in DOMAIN b : b[j].par = "ERO"
  BY DEF RouteCalls, Call
<1> HIDE DEF A, a, b
<1>12. /\ Len(calls) = Len(a) + Len(b) /\ DOMAIN calls = 1..Len(calls)
       /\ DOMAIN a = 1..Len(a) /\ DOMAIN b = 1..Len(b) /\ Len(a) \in Nat /\ Len(b) \in Nat
       /\ \A j \in 1..Len(a) : j \in 1..Len(calls) /\ calls[j] = a[j]
       /\ \A j \in 1..Len(b) : Len(a) + j \in 1..Len(calls) /\ calls[Len(a) + j] = b[j]
  BY <1>5, Joined
<1> HIDE DEF calls, p, id
<1>13. ASSUME NEW j \in DOMAIN calls PROVE calls[j].par # p
  <2>1. PICK la, lb \in Nat : la = Len(a) /\ lb = Len(b)
    BY <1>12
  <2>2. j \in 1..(la + lb)
    BY <1>12, <1>13, <2>1
  <2>3. CASE j <= la
    BY <1>10, <1>12, <2>1, <2>2, <2>3
  <2>4. CASE ~ (j <= la)
    <3>1. PICK i \in 1..lb : j = la + i
      <4>1. j - la \in 1..lb /\ j = la + (j - la)
        BY <2>2, <2>4
      <4> QED BY <4>1
    <3>2. calls[j] = b[i] /\ i \in DOMAIN b
      BY <1>12, <2>1, <3>1
    <3> QED BY <1>6, <1>11, <3>2
  <2> QED BY <2>3, <2>4
<1>14. {j \in DOMAIN calls : /\ calls[j].par = p
                            /\ ~ AddRefused(Empty, p, calls[j].type, calls[j].size)} = {}
  BY <1>13
<1>15. AddEach(Empty, calls).data[p] = Empty.data[p]
  BY <1>6, <1>14 DEF AddEach
<1>16. Empty.data[p] = << >>
  BY <1>6 DEF Empty
<1>17. Asked(r) = AddEach(Empty, calls)
  BY <1>3 DEF calls, a, b
<1> QED BY <1>15, <1>16, <1>17 DEF p

LEMMA RequestComplete ==
  ASSUME NEW r \in Requests, NEW c, c = AddMissing(Asked(r), set_conf_defaults)
  PROVE  Fit(c) /\ Complete(PathConf(c))
<1>1. Fit(c) /\ Wanted(c)
  BY CreatedWanted
<1>2. PICK d : d = PathConf(c)
  OBVIOUS
<1>3. Fit(d) /\ Has(d, Names)
  BY <1>1, <1>2, PathNamed
<1>4. \A p \in Parameters :
        c.data[p] = IF Asked(r).data[p] # << >> THEN Asked(r).data[p] ELSE set_conf_defaults.data[p]
  <2>1. Good(Asked(r)) /\ Good(set_conf_defaults)
    BY AskedFit, DefaultsFit DEF Fit
  <2> QED BY <2>1, Copied
<1>5. \A p \in Always : c.data[p] # << >> /\ d.data[p] = c.data[p]
  <2>1. \A p \in Always : p \in Parameters \ Touched /\ set_conf_defaults.data[p] # << >>
    BY AlwaysKept, AlwaysUntouched, DefaultsHold DEF Has, Settled
  <2>2. Stays(c, d, Touched)
    BY <1>1, <1>2, PathConfStays
  <2> QED BY <1>4, <2>1, <2>2 DEF Stays
<1>6. \E v \in Nat : c.data["SESSION_NAME"] = << v >>
  <2>1. PICK p : p = "SESSION_NAME" /\ p \in Parameters
    BY AlwaysKept DEF Settled, Always, Attribute
  <2>2. Table[12].par = p /\ Table[12].id = 12
    BY <2>1 DEF Table, Row
  <2>3. CASE 12 \in DOMAIN r
    <3>1. Asked(r).data[Table[12].par] = << r[12] >>
      BY <2>2, <2>3, AskedGives
    <3>2. r[12] \in Nat
      BY <2>3, RequestsAssumption
    <3>3. PICK v \in Nat : v = r[12]
      BY <3>2
    <3>4. Asked(r).data[p] = << v >> /\ << v >> # << >>
      BY <2>2, <3>1, <3>3
    <3>5. c.data[p] = << v >>
      BY <1>4, <2>1, <3>4
    <3> QED BY <2>1, <3>5
  <2>4. CASE Asked(r).data[p] = << >>
    BY <1>4, <2>1, <2>4, DefaultsHold
  <2>5. CASE 12 \notin DOMAIN r
    <3>1. PICK k \in 1..38 : k = 12
      OBVIOUS
    <3>2. Table[k].id \notin DOMAIN r /\ Table[k].id \notin {13, 16, 34}
      BY <2>2, <2>5, <3>1
    <3>3. Asked(r).data[Table[k].par] = << >>
      BY <3>2, AskedLacks
    <3> QED BY <2>2, <2>4, <3>1, <3>3
  <2> QED BY <2>3, <2>5
<1>7. PICK v \in Nat : c.data["SESSION_NAME"] = << v >>
  BY <1>6
<1>8. "SESSION_NAME" \in Always /\ "SESSION_NAME" \in Parameters \ PT_TAB
  BY AlwaysKept DEF Settled, Always, Attribute
<1>9. d.data["SESSION_NAME"] = << v >>
  BY <1>5, <1>7, <1>8
<1>10. Read(d, "SESSION_NAME") \in Nat
  BY <1>3, <1>8, <1>9, OneValue DEF Fit
<1>11. Has(d, Names \cup Always \cup HopPars)
  <2>1. \A p \in HopPars : p \in Parameters /\ set_conf_defaults.data[p] # << >>
    BY HopCarriers, DefaultsHold DEF Settled, Has
  <2>2. Has(c, HopPars)
    BY <1>4, <2>1 DEF Has
  <2>3. Has(d, HopPars)
    BY <1>1, <1>2, <2>2, PathConfStays
  <2> QED BY <1>3, <1>5, <2>3 DEF Has
<1> QED BY <1>1, <1>2, <1>3, <1>10, <1>11 DEF Complete

-----------------------------------------------------------------------------
(* What of a request reaches the router: the rows that the PATH carries.   *)
RowIs(k, id, p) == Table[k].id = id /\ Table[k].par = p
CarriedAs(id, p) ==
  /\ \E k \in 1..38 : RowIs(k, id, p) /\ id \notin {13, 16, 34} /\ Untouched(p)
  /\ p = "ETHERNET_SW_GRANUALITY" => id = 40

LEMMA KeptRows ==
  /\ RowIs(1, 1, "SESSION_DEST_ADDR")
  /\ RowIs(2, 2, "EXTENDED_IPV4_ADDR")
  /\ RowIs(3, 3, "CONTROL_OUT_IF_ADDR")
  /\ RowIs(4, 4, "REFRESH_PERIOD")
  /\ RowIs(5, 5, "TOKEN_BUCKET_RATE")
  /\ RowIs(6, 6, "TOKEN_BUCKET_SIZE")
  /\ RowIs(7, 7, "PEAK_DATA_RATE")
  /\ RowIs(8, 8, "UPSTREAM_LABEL")
  /\ RowIs(9, 9, "LSP_ENC_TYPE")
  /\ RowIs(10, 10, "LSP_SWITCHING_TYPE")
  /\ RowIs(11, 11, "LSP_GPID")
  /\ RowIs(12, 12, "SESSION_NAME")
  /\ RowIs(19, 23, "TUNNEL_ID")
  /\ RowIs(23, 27, "TNA_SRC_ADDR")
  /\ RowIs(24, 28, "TNA_DST_ADDR")
  /\ RowIs(27, 31, "SENDER_SRC_ID")
  /\ RowIs(28, 32, "SETUP_PRIORITY")
  /\ RowIs(29, 33, "HOLDING_PRIORITY")
  /\ RowIs(31, 35, "SERVICE_LEVEL")
  /\ RowIs(32, 36, "ETHERNET_CIR")
  /\ RowIs(33, 37, "ETHERNET_CBS")
  /\ RowIs(34, 38, "ETHERNET_EIR")
  /\ RowIs(35, 39, "ETHERNET_EBS")
  /\ RowIs(36, 40, "ETHERNET_SW_GRANUALITY")
  /\ RowIs(37, 41, "ETHERNET_INDEX")
  /\ RowIs(38, 42, "ETHERNET_PROFILE")
BY DEF RowIs, Table, Row

PathPars == {"TUNNEL_ID", "SENDER_SRC_ID", "REFRESH_PERIOD"} \cup LspRequest \cup Attribute
TokenPars == {"TOKEN_BUCKET_RATE", "TOKEN_BUCKET_SIZE", "PEAK_DATA_RATE"}
EndPars == {"SESSION_DEST_ADDR", "EXTENDED_IPV4_ADDR", "CONTROL_OUT_IF_ADDR"}

LEMMA ToldApart ==
  /\ PathPars \subseteq Told \ Touched
  /\ ~ translator => EndPars \subseteq Told \ Touched
  /\ IETF => TokenPars \subseteq Told \ Touched
  /\ ~ IETF => UniPars \subseteq Told \ Touched
  /\ proto = "OIFUNI20" => Ethernet \subseteq Told \ Touched
  /\ proto # "OIFUNI20" => "UPSTREAM_LABEL" \in Told \ Touched
<1> DEFINE N == LinkSet \cup InterfaceHandles \cup {"MSG_ID_ID"}
<1>1. Touched \subseteq N \cup (IF translator THEN EndPars ELSE {})
                      \cup (IF proto = "OIFUNI20" THEN OifSet ELSE {})
  BY DEF Touched, TranslatedSet, EndPars
<1>2. PathPars \cap (N \cup OifSet \cup EndPars) = {}
  BY DEF PathPars, EndPars, LspRequest, Attribute, LinkSet, InterfaceHandles, OifSet
<1>3. (TokenPars \cup UniPars \cup Ethernet) \cap (N \cup OifSet \cup EndPars) = {}
  BY DEF TokenPars, UniPars, Ethernet, EthernetLink, EthernetBandwidth, EndPars,
         LinkSet, InterfaceHandles, OifSet
<1>4. "UPSTREAM_LABEL" \notin N \cup EndPars /\ EndPars \cap (N \cup OifSet) = {}
  BY DEF LinkSet, InterfaceHandles, OifSet, EndPars
<1>5. /\ PathPars \subseteq Told /\ EndPars \subseteq Told
      /\ IETF => TokenPars \subseteq Told
      /\ ~ IETF => UniPars \subseteq Told
      /\ proto = "OIFUNI20" => Ethernet \subseteq Told
      /\ proto # "OIFUNI20" => "UPSTREAM_LABEL" \in Told
  BY DEF Told, PathPars, EndPars, SessionId, TokenPars, TokenBucket
<1> HIDE DEF N
<1> QED BY <1>1, <1>2, <1>3, <1>4, <1>5

LEMMA UntouchedRow ==
  ASSUME NEW k \in 1..38, NEW id, NEW p, RowIs(k, id, p), id \notin {13, 16, 34}, p \in Told \ Touched,
         p = "ETHERNET_SW_GRANUALITY" => id = 40
  PROVE  CarriedAs(id, p)
<1>1. p \in Parameters \ PT_TAB
  BY RowParameters DEF RowIs
<1> QED BY <1>1 DEF CarriedAs, Untouched

KeptIds ==
  (IF translator THEN {} ELSE {1, 2, 3}) \cup {4, 9, 10, 11, 12, 23, 31, 32, 33}
  \cup (IF IETF THEN {5, 6, 7} ELSE {27, 28, 35})
  \cup (IF proto = "OIFUNI20" THEN 36..42 ELSE {8})

LEMMA KeptTold ==
  ASSUME NEW id \in KeptIds
  PROVE  \E p : CarriedAs(id, p)
<1>1. \A i \in {4, 9, 10, 11, 12, 23, 31, 32, 33} : \E p : CarriedAs(i, p)
  <2>1. CarriedAs(4, "REFRESH_PERIOD")
    BY KeptRows, ToldApart, UntouchedRow DEF PathPars, LspRequest, Attribute
  <2>2. CarriedAs(9, "LSP_ENC_TYPE")
    BY KeptRows, ToldApart, UntouchedRow DEF PathPars, LspRequest, Attribute
  <2>3. CarriedAs(10, "LSP_SWITCHING_TYPE")
    BY KeptRows, ToldApart, UntouchedRow DEF PathPars, LspRequest, Attribute
  <2>4. CarriedAs(11, "LSP_GPID")
    BY KeptRows, ToldApart, UntouchedRow DEF PathPars, LspRequest, Attribute
  <2>5. CarriedAs(12, "SESSION_NAME")
    BY KeptRows, ToldApart, UntouchedRow DEF PathPars, LspRequest, Attribute
  <2>6. CarriedAs(23, "TUNNEL_ID")
    BY KeptRows, ToldApart, UntouchedRow DEF PathPars, LspRequest, Attribute
  <2>7. CarriedAs(31, "SENDER_SRC_ID")
    BY KeptRows, ToldApart, UntouchedRow DEF PathPars, LspRequest, Attribute
  <2>8. CarriedAs(32, "SETUP_PRIORITY")
    BY KeptRows, ToldApart, UntouchedRow DEF PathPars, LspRequest, Attribute
  <2>9. CarriedAs(33, "HOLDING_PRIORITY")
    BY KeptRows, ToldApart, UntouchedRow DEF PathPars, LspRequest, Attribute
  <2> QED BY <2>1, <2>2, <2>3, <2>4, <2>5, <2>6, <2>7, <2>8, <2>9
<1>2. ASSUME IETF
      PROVE  \A i \in {5, 6, 7} : \E p : CarriedAs(i, p)
  <2>1. CarriedAs(5, "TOKEN_BUCKET_RATE")
    BY <1>2, KeptRows, ToldApart, UntouchedRow DEF TokenPars
  <2>2. CarriedAs(6, "TOKEN_BUCKET_SIZE")
    BY <1>2, KeptRows, ToldApart, UntouchedRow DEF TokenPars
  <2>3. CarriedAs(7, "PEAK_DATA_RATE")
    BY <1>2, KeptRows, ToldApart, UntouchedRow DEF TokenPars
  <2> QED BY <2>1, <2>2, <2>3
<1>3. ASSUME ~ IETF
      PROVE  \A i \in {27, 28, 35} : \E p : CarriedAs(i, p)
  <2>1. CarriedAs(27, "TNA_SRC_ADDR")
    BY <1>3, KeptRows, ToldApart, UntouchedRow DEF UniPars
  <2>2. CarriedAs(28, "TNA_DST_ADDR")
    BY <1>3, KeptRows, ToldApart, UntouchedRow DEF UniPars
  <2>3. CarriedAs(35, "SERVICE_LEVEL")
    BY <1>3, KeptRows, ToldApart, UntouchedRow DEF UniPars
  <2> QED BY <2>1, <2>2, <2>3
<1>4. ASSUME proto = "OIFUNI20"
      PROVE  \A i \in 36..42 : \E p : CarriedAs(i, p)
  <2>1. CarriedAs(36, "ETHERNET_CIR")
    BY <1>4, KeptRows, ToldApart, UntouchedRow DEF Ethernet, EthernetLink, EthernetBandwidth
  <2>2. CarriedAs(37, "ETHERNET_CBS")
    BY <1>4, KeptRows, ToldApart, UntouchedRow DEF Ethernet, EthernetLink, EthernetBandwidth
  <2>3. CarriedAs(38, "ETHERNET_EIR")
    BY <1>4, KeptRows, ToldApart, UntouchedRow DEF Ethernet, EthernetLink, EthernetBandwidth
  <2>4. CarriedAs(39, "ETHERNET_EBS")
    BY <1>4, KeptRows, ToldApart, UntouchedRow DEF Ethernet, EthernetLink, EthernetBandwidth
  <2>7. CarriedAs(40, "ETHERNET_SW_GRANUALITY")
    BY <1>4, KeptRows, ToldApart, UntouchedRow DEF Ethernet, EthernetLink, EthernetBandwidth
  <2>5. CarriedAs(41, "ETHERNET_INDEX")
    BY <1>4, KeptRows, ToldApart, UntouchedRow DEF Ethernet, EthernetLink, EthernetBandwidth
  <2>6. CarriedAs(42, "ETHERNET_PROFILE")
    BY <1>4, KeptRows, ToldApart, UntouchedRow DEF Ethernet, EthernetLink, EthernetBandwidth
  <2>8. \A i \in 36..42 : i \in {36, 37, 38, 39, 40, 41, 42}
    OBVIOUS
  <2> QED BY <2>1, <2>2, <2>3, <2>4, <2>5, <2>6, <2>7, <2>8
<1>5. ASSUME proto # "OIFUNI20"
      PROVE  \A i \in {8} : \E p : CarriedAs(i, p)
  <2>1. CarriedAs(8, "UPSTREAM_LABEL")
    BY <1>5, KeptRows, ToldApart, UntouchedRow
  <2> QED BY <2>1
<1>6. ASSUME ~ translator
      PROVE  \A i \in {1, 2, 3} : \E p : CarriedAs(i, p)
  <2>1. CarriedAs(1, "SESSION_DEST_ADDR")
    BY <1>6, KeptRows, ToldApart, UntouchedRow DEF EndPars
  <2>2. CarriedAs(2, "EXTENDED_IPV4_ADDR")
    BY <1>6, KeptRows, ToldApart, UntouchedRow DEF EndPars
  <2>3. CarriedAs(3, "CONTROL_OUT_IF_ADDR")
    BY <1>6, KeptRows, ToldApart, UntouchedRow DEF EndPars
  <2> QED BY <2>1, <2>2, <2>3
<1> QED BY <1>1, <1>2, <1>3, <1>4, <1>5, <1>6 DEF KeptIds

LEMMA CreateCarries ==
  ASSUME NEW r \in Requests, CreatePath(r), NEW id \in DOMAIN r, NEW p, CarriedAs(id, p),
         id = 40 => r[id] \in 0..127
  PROVE  seen'.data[p] = << r[id] >>
<1> DEFINE c == AddMissing(Asked(r), set_conf_defaults)
           d == PathConf(c)
           m == Msg("PATH", d, PathList(d))
<1>1. PICK k \in 1..38 : Table[k].id = id /\ Table[k].par = p /\ id \notin {13, 16, 34}
  BY DEF CarriedAs, RowIs
<1>2. p \in Told /\ p \in Parameters \ PT_TAB /\ p \notin Touched
  BY DEF CarriedAs, Untouched
<1>3. PICK v : v = r[id]
  OBVIOUS
<1>4. Asked(r).data[p] = << v >>
  BY <1>1, <1>3, AskedGives
<1>5. << v >> # << >>
  OBVIOUS
<1>6. c.data[p] = << v >>
  <2>1. Good(Asked(r)) /\ Good(set_conf_defaults)
    BY AskedFit, DefaultsFit DEF Fit
  <2>2. c.data[p] = IF Asked(r).data[p] # << >> THEN Asked(r).data[p] ELSE set_conf_defaults.data[p]
    BY <1>2, <2>1, Copied
  <2> QED BY <1>4, <1>5, <2>2
<1>7. Fit(c) /\ Complete(d)
  BY RequestComplete
<1>8. CreateFrom(c, Missing(Asked(r), {"TUNNEL_ID"}))
  BY DEF CreatePath
<1> HIDE DEF c
<1>9. d.data[p] = << v >>
  BY <1>2, <1>5, <1>6, <1>7, PathConfStays DEF Stays
<1>10. seen' = parse_data(m.wire)
  BY <1>8 DEF CreateFrom, SendPath, PathList
<1> HIDE DEF d
<1>11. m.wire = WireFrom(d, PathList(d))
  BY DEF Msg, MsgOf, WireFrom
<1>12. seen' = PathReading(d)
  BY <1>10, <1>11 DEF PathReading
<1>13. SaidWhole(p, Read(d, p))
  <2>1. Read(d, p) = v
    BY <1>2, <1>7, <1>9, OneValue DEF Complete, Fit
  <2> QED BY <1>3, <2>1 DEF SaidWhole, CarriedAs
<1>14. PathReading(d).data[p] = << v >>
  BY <1>2, <1>5, <1>7, <1>9, <1>13, PathTells
<1> QED BY <1>3, <1>12, <1>14

-----------------------------------------------------------------------------
(* What an outgoing path keeps of its request.                             *)
RequestInv ==
  direction = "outgoing" =>
    \A id \in KeptIds \cap DOMAIN request :
      (id = 40 => request[id] \in 0..127) =>
        \E p : CarriedAs(id, p) /\ seen.data[p] = << request[id] >>

LEMMA CarriedSame ==
  ASSUME proto' = proto, translator' = translator
  PROVE  /\ KeptIds' = KeptIds
         /\ \A id, p : CarriedAs(id, p)' <=> CarriedAs(id, p)
BY DEF KeptIds, IETF, CarriedAs, RowIs, Untouched, Told, Touched

LEMMA CreateCarriesIt ==
  ASSUME NEW r \in Requests, CreatePath(r)
  PROVE  RequestInv'
<1>1. request' = r /\ proto' = proto /\ translator' = translator
  BY DEF CreatePath, CreateFrom
<1>2. PICK s : s = seen'
  OBVIOUS
<1>3. \A id \in KeptIds \cap DOMAIN r :
        (id = 40 => r[id] \in 0..127) => \E p : CarriedAs(id, p) /\ s.data[p] = << r[id] >>
  BY <1>2, KeptTold, CreateCarries
<1> QED BY <1>1, <1>2, <1>3, CarriedSame DEF RequestInv

LEMMA RequestNext == ASSUME RequestInv, [Next]_vars PROVE RequestInv'
<1>1. CASE \E r \in Requests : CreatePath(r)
  BY <1>1, CreateCarriesIt
<1>2. CASE \E w \in RouterPaths : RecvPath(w)
  BY <1>2 DEF RecvPath, RequestInv
<1>3. ASSUME UNCHANGED << proto, translator, direction, request, seen >>
      PROVE  RequestInv'
  BY <1>3, CarriedSame DEF RequestInv
<1>4. CASE RefreshPath \/ (\E flags, id, left_out : RecvResv(flags, id, left_out))
  BY <1>3, <1>4 DEF RefreshPath, RecvResv
<1>5. CASE Accepted \/ Refused \/ (\E flags \in {0, 9, 10} : RecvPathAgain(flags))
  BY <1>3, <1>5 DEF Accepted, Refused, RecvPathAgain
<1>6. CASE DestroyPath \/ ReportStatus \/ UNCHANGED vars
  BY <1>3, <1>6 DEF DestroyPath, ReportStatus, vars
<1> QED BY <1>1, <1>2, <1>4, <1>5, <1>6 DEF Next

LEMMA RequestShown == ASSUME IInv, RequestInv PROVE RequestReachesRouter
<1> SUFFICES ASSUME direction = "outgoing",
                    NEW id \in Kept
             PROVE  /\ IsPresent(seen, Carried(id)[1])
                    /\ Read(seen, Carried(id)[1]) = Carried(id)[2]
  BY DEF RequestReachesRouter
<1>1. id \in KeptIds /\ id \in DOMAIN request /\ (id = 40 => request[id] \in 0..127)
  BY DEF Kept, KeptIds
<1>2. PICK p : CarriedAs(id, p) /\ seen.data[p] = << request[id] >>
  BY <1>1 DEF RequestInv
<1>3. PICK k \in 1..38 : Table[k].id = id /\ Table[k].par = p /\ id \notin {13, 16, 34}
  BY <1>2 DEF CarriedAs, RowIs
<1>4. p \in Parameters \ PT_TAB
  BY <1>2 DEF CarriedAs, Untouched
<1>5. Head(AddedAs(id)) = p
  <2>1. PICK names : names = AddedAs(id)
    OBVIOUS
  <2>2. names \in Seq({p} \cup Beside) /\ Len(names) \in 1..3 /\ names[1] = p
    BY <1>3, <2>1, NamesOfRow
  <2> QED BY <2>1, <2>2
<1>6. Carried(id)[1] = p /\ Carried(id)[2] = request[id]
  BY <1>5 DEF Carried
<1>7. PICK v : v = request[id]
  OBVIOUS
<1>8. IsPresent(seen, p) /\ Read(seen, p) = v
  <2>1. Good(seen) /\ seen.data[p] = << v >>
    BY <1>2, <1>7, StoresFit DEF Fit
  <2> QED BY <1>4, <2>1, OneValue
<1> QED BY <1>6, <1>7, <1>8

(* What the router reads in the PATH of a request is what the client gave, *)
(* for each object that Kept names, every request of a client and every    *)
(* order of events that follow: what create_path completes, replaces and   *)
(* copies on the way, and the classes and fields it is written in, lose    *)
(* none of it.  Kept leaves out what translation stands in for, what the   *)
(* PATH of the protocol in use has no object for, the numbers the agent    *)
(* puts in their place, and the route.                                     *)
THEOREM RequestCorrect == Spec => []RequestReachesRouter
<1>1. Init => RequestInv
  BY DEF Init, RequestInv
<1>2. RequestInv /\ [Next]_vars => RequestInv'
  BY RequestNext
<1>3. IInv /\ RequestInv => RequestReachesRouter
  BY RequestShown
<1> QED BY <1>1, <1>2, <1>3, PathInvariant, PTL DEF Spec
================================================================================
