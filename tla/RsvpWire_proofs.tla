----------------------------- MODULE RsvpWire_proofs -----------------------------
(***************************************************************************)
(* Theorems about the objects of a message, for every store and every      *)
(* object: which parameters a class can carry, that what is read of        *)
(* objects of the right shape is a store again, that an object needs what  *)
(* add_object asks for and is as long as its header says.  And of the      *)
(* messages made of them by calls of add_object, one after the other: a    *)
(* fold.  What holds of its result is proved by induction on the number of *)
(* calls.                                                                  *)
(***************************************************************************)
EXTENDS RsvpWire, RsvpConfiguration_proofs

-----------------------------------------------------------------------------
(* What is read of an object.                                              *)

Kinds == {"addr", "int", "float", "short", "char", "int24", "pad", "rtad", "flags",
          "given", "name", "label", "ero"}

(* Fields that carry parameters of P. *)
FieldsOf(P) == [kind : Kinds, pars : Seq(P), width : Int, tag : Int]

LEMMA FieldIn ==
  ASSUME NEW P, NEW kind \in Kinds, NEW p \in P, NEW w \in Int, NEW n \in Int
  PROVE  Field(kind, << p >>, w, n) \in FieldsOf(P)
BY DEF Field, FieldsOf

LEMMA SingleIn ==
  ASSUME NEW P, NEW p \in P
  PROVE  /\ Addr(p) \in FieldsOf(P) /\ Word(p) \in FieldsOf(P) /\ Float(p) \in FieldsOf(P)
         /\ Short(p) \in FieldsOf(P) /\ Char(p) \in FieldsOf(P) /\ Int24(p) \in FieldsOf(P)
         /\ Field("rtad", << p >>, 4, 0) \in FieldsOf(P)
         /\ Field("ero", << p >>, 8, 0) \in FieldsOf(P)
         /\ \A n \in Int : /\ Given(p, n) \in FieldsOf(P)
                           /\ Field("label", << p >>, n, 0) \in FieldsOf(P)
                           /\ Field("name", << p >>, n, 0) \in FieldsOf(P)
<1>1. /\ "addr" \in Kinds /\ "int" \in Kinds /\ "float" \in Kinds /\ "short" \in Kinds
      /\ "char" \in Kinds /\ "int24" \in Kinds /\ "rtad" \in Kinds /\ "ero" \in Kinds
      /\ "given" \in Kinds /\ "label" \in Kinds /\ "name" \in Kinds
  BY DEF Kinds
<1> QED BY <1>1, FieldIn DEF Addr, Word, Float, Short, Char, Int24, Given

LEMMA PadIn ==
  ASSUME NEW P, NEW w \in Int
  PROVE  Pad(w) \in FieldsOf(P)
<1>1. << >> \in Seq(P) /\ "pad" \in Kinds
  BY DEF Kinds
<1> QED BY <1>1 DEF Pad, Field, FieldsOf

(* What a class may carry: what add_object asks for, and of some classes   *)
(* more than that.                                                         *)
Beyond == {"DATA_OUT_IF_ADDR", "DATA_OUT_IF_HANDLE", "DATA_IN_IF_ADDR",
           "DATA_IN_IF_HANDLE", "RATE", "SLACK_TERM", "HELLO_REQ_ACK",
           "MSG_ID_ACK_NACK"}

MayCarry(class) ==
  requirements[class] \cup Beyond
  \cup (IF class = "ETHERNET_FLOWSPEC" THEN EthernetLink ELSE {})

LEMMA ReadTokensIn ==
  ASSUME NEW P, TokenBucket \subseteq P
  PROVE  ReadTokens \in Seq(FieldsOf(P))
<1>1. /\ "TOKEN_BUCKET_RATE" \in P /\ "TOKEN_BUCKET_SIZE" \in P /\ "PEAK_DATA_RATE" \in P
      /\ "MINIMUM_POLICED_UNIT" \in P /\ "MAXIMUM_PACKET_SIZE" \in P
  BY DEF TokenBucket
<1>2. /\ Float("TOKEN_BUCKET_RATE") \in FieldsOf(P) /\ Float("TOKEN_BUCKET_SIZE") \in FieldsOf(P)
      /\ Float("PEAK_DATA_RATE") \in FieldsOf(P) /\ Word("MINIMUM_POLICED_UNIT") \in FieldsOf(P)
      /\ Word("MAXIMUM_PACKET_SIZE") \in FieldsOf(P)
  BY <1>1, SingleIn
<1> QED BY <1>2 DEF ReadTokens

LEMMA ReadSonetIn ==
  ASSUME NEW P, Sonet \subseteq P
  PROVE  ReadSonet \in Seq(FieldsOf(P))
<1>1. /\ "SSDH_SIGNAL_TYPE" \in P /\ "SSDH_RCC" \in P /\ "SSDH_NCC" \in P /\ "SSDH_NVC" \in P
      /\ "SSDH_MULTIPLIER" \in P /\ "SSDH_TRANSPARENCY" \in P /\ "SSDH_PROFILE" \in P
  BY DEF Sonet
<1>2. /\ Char("SSDH_SIGNAL_TYPE") \in FieldsOf(P) /\ Char("SSDH_RCC") \in FieldsOf(P)
      /\ Short("SSDH_NCC") \in FieldsOf(P) /\ Short("SSDH_NVC") \in FieldsOf(P)
      /\ Short("SSDH_MULTIPLIER") \in FieldsOf(P) /\ Word("SSDH_TRANSPARENCY") \in FieldsOf(P)
      /\ Word("SSDH_PROFILE") \in FieldsOf(P)
  BY <1>1, SingleIn
<1> QED BY <1>2 DEF ReadSonet

LEMMA ReadEthernetIn ==
  ASSUME NEW P, EthernetBandwidth \subseteq P, EthernetLink \subseteq P
  PROVE  ReadEthernet \in Seq(FieldsOf(P))
<1>1. /\ "ETHERNET_SW_GRANUALITY" \in P /\ "ETHERNET_PROFILE" \in P /\ "ETHERNET_INDEX" \in P
      /\ "ETHERNET_CIR" \in P /\ "ETHERNET_CBS" \in P /\ "ETHERNET_EIR" \in P
      /\ "ETHERNET_EBS" \in P
  BY DEF EthernetBandwidth, EthernetLink
<1>2. /\ Short("ETHERNET_SW_GRANUALITY") \in FieldsOf(P) /\ Char("ETHERNET_PROFILE") \in FieldsOf(P)
      /\ Char("ETHERNET_INDEX") \in FieldsOf(P) /\ Float("ETHERNET_CIR") \in FieldsOf(P)
      /\ Float("ETHERNET_CBS") \in FieldsOf(P) /\ Float("ETHERNET_EIR") \in FieldsOf(P)
      /\ Float("ETHERNET_EBS") \in FieldsOf(P)
  BY <1>1, SingleIn
<1>3. Pad(6) \in FieldsOf(P) /\ Pad(2) \in FieldsOf(P)
  BY PadIn
<1> QED BY <1>2, <1>3 DEF ReadEthernet

(* An object of a message that has a header of its own: its fields, and    *)
(* the name of a session, where it holds one, as a length.                 *)
WireClasses == Classes \ Subobjects

Shaped(object) ==
  /\ object.class \in WireClasses /\ object.length \in Int
  /\ \E n \in Nat : DOMAIN object.fields = 1..n
  /\ \A k \in DOMAIN object.fields :
       object.fields[k].kind = "name" => object.fields[k].val \in Int

LEMMA ReadSessionIn ==
  ASSUME NEW object, NEW P, SessionId \subseteq P
  PROVE  ReadSession(object) \in Seq(FieldsOf(P))
<1>1. "SESSION_DEST_ADDR" \in P /\ "TUNNEL_ID" \in P /\ "EXTENDED_IPV4_ADDR" \in P
  BY DEF SessionId
<1>2. /\ Addr("SESSION_DEST_ADDR") \in FieldsOf(P) /\ Short("TUNNEL_ID") \in FieldsOf(P)
      /\ Addr("EXTENDED_IPV4_ADDR") \in FieldsOf(P)
  BY <1>1, SingleIn
<1>3. Pad(2) \in FieldsOf(P)
  BY PadIn
<1> QED BY <1>2, <1>3 DEF ReadSession

(* One part for each field of the object. *)
LEMMA PartsIn ==
  ASSUME NEW W, NEW n \in Nat, NEW parts, DOMAIN parts = 1..n,
         parts = [k \in 1..n |-> parts[k]], \A k \in 1..n : parts[k] \in Seq(W)
  PROVE  FlattenSeq(parts) \in Seq(W)
<1>1. parts \in Seq(Seq(W))
  OBVIOUS
<1> QED BY <1>1, FlattenSeqOf

LEMMA ReadHopIn ==
  ASSUME NEW object, Shaped(object), NEW P,
         {"CONTROL_OUT_IF_ADDR", "CONTROL_OUT_IF_HANDLE"} \cup Beyond \subseteq P
  PROVE  /\ ReadHop(object) \in Seq(FieldsOf(P)) /\ ReadHop(object) # << >>
         /\ ReadHop(object)[1] = Addr("CONTROL_OUT_IF_ADDR")
<1> DEFINE tlv(t) == CASE t = 1 -> << Pad(4), Addr("DATA_OUT_IF_ADDR") >>
                  [] t = 3 -> << Pad(4), Addr("DATA_OUT_IF_ADDR"),
                                 Word("DATA_OUT_IF_HANDLE"), Pad(8) >>
                  [] t = 4 -> << Pad(4), Addr("DATA_OUT_IF_ADDR"),
                                 Word("DATA_OUT_IF_HANDLE") >>
                  [] t = 5 -> << Pad(4), Addr("DATA_IN_IF_ADDR"),
                                 Word("DATA_IN_IF_HANDLE") >>
                  [] OTHER -> << >>
           parts == [k \in DOMAIN object.fields |-> tlv(Tag(object, k))]
           head == << Addr("CONTROL_OUT_IF_ADDR"), Word("CONTROL_OUT_IF_HANDLE") >>
           rest == IF object.class = "IPV4_RSVP_HOP" THEN << >> ELSE FlattenSeq(parts)
<1>1. /\ "CONTROL_OUT_IF_ADDR" \in P /\ "CONTROL_OUT_IF_HANDLE" \in P
      /\ "DATA_OUT_IF_ADDR" \in P /\ "DATA_OUT_IF_HANDLE" \in P
      /\ "DATA_IN_IF_ADDR" \in P /\ "DATA_IN_IF_HANDLE" \in P
  BY DEF Beyond
<1>2. /\ Addr("CONTROL_OUT_IF_ADDR") \in FieldsOf(P) /\ Word("CONTROL_OUT_IF_HANDLE") \in FieldsOf(P)
      /\ Addr("DATA_OUT_IF_ADDR") \in FieldsOf(P) /\ Word("DATA_OUT_IF_HANDLE") \in FieldsOf(P)
      /\ Addr("DATA_IN_IF_ADDR") \in FieldsOf(P) /\ Word("DATA_IN_IF_HANDLE") \in FieldsOf(P)
  BY <1>1, SingleIn
<1>3. Pad(4) \in FieldsOf(P) /\ Pad(8) \in FieldsOf(P)
  BY PadIn
<1>4. \A t : tlv(t) \in Seq(FieldsOf(P))
  BY <1>2, <1>3
<1>5. head \in Seq(FieldsOf(P))
  BY <1>2
<1>6. FlattenSeq(parts) \in Seq(FieldsOf(P))
  <2>1. PICK n \in Nat : DOMAIN object.fields = 1..n
    BY DEF Shaped
  <2>2. parts = [k \in 1..n |-> tlv(Tag(object, k))]
    BY <2>1
  <2> HIDE DEF tlv
  <2>3. DOMAIN parts = 1..n /\ parts = [k \in 1..n |-> parts[k]]
        /\ \A k \in 1..n : parts[k] \in Seq(FieldsOf(P))
    BY <1>4, <2>2
  <2> HIDE DEF parts
  <2> QED BY <2>3, PartsIn
<1>7. rest \in Seq(FieldsOf(P))
  BY <1>6
<1>8. ReadHop(object) = head \o rest
  BY DEF ReadHop
<1>9. Len(head) = 2 /\ head[1] = Addr("CONTROL_OUT_IF_ADDR")
  OBVIOUS
<1> HIDE DEF head, rest
<1>10. /\ head \o rest \in Seq(FieldsOf(P)) /\ Len(head \o rest) = Len(head) + Len(rest)
       /\ \A j \in 1..Len(head) : j \in 1..Len(head \o rest) /\ (head \o rest)[j] = head[j]
  BY <1>5, <1>7, Joined
<1>11. head \o rest # << >> /\ (head \o rest)[1] = head[1]
  BY <1>9, <1>10
<1> QED BY <1>8, <1>9, <1>10, <1>11

LEMMA ReadTimeErrorStyleIn ==
  ASSUME NEW object, Shaped(object), NEW P, requirements[object.class] \subseteq P,
         object.class \in {"TIME_VALUES", "ERROR_SPEC", "SCOPE", "STYLE"}
  PROVE  ReadTimeErrorStyle(object) \in Seq(FieldsOf(P))
<1>1. CASE object.class = "TIME_VALUES"
  <2>1. "REFRESH_PERIOD" \in P
    BY <1>1 DEF requirements
  <2>2. Word("REFRESH_PERIOD") \in FieldsOf(P)
    BY <2>1, SingleIn
  <2> QED BY <1>1, <2>2 DEF ReadTimeErrorStyle
<1>2. CASE object.class = "ERROR_SPEC"
  <2>1. "ERROR_NODE_ADDR" \in P /\ "ERROR_FLAGS" \in P /\ "ERROR_CODE" \in P /\ "ERROR_VALUE" \in P
    BY <1>2 DEF requirements
  <2>2. /\ Addr("ERROR_NODE_ADDR") \in FieldsOf(P) /\ Char("ERROR_FLAGS") \in FieldsOf(P)
        /\ Char("ERROR_CODE") \in FieldsOf(P) /\ Short("ERROR_VALUE") \in FieldsOf(P)
    BY <2>1, SingleIn
  <2> QED BY <1>2, <2>2 DEF ReadTimeErrorStyle
<1>3. CASE object.class = "SCOPE"
  <2>1. "SCOPE_ADDR" \in P
    BY <1>3 DEF requirements
  <2>2. Addr("SCOPE_ADDR") \in FieldsOf(P)
    BY <2>1, SingleIn
  <2>3. PICK n \in Nat : DOMAIN object.fields = 1..n
    BY DEF Shaped
  <2>4. ReadTimeErrorStyle(object) = [k \in 1..n |-> Addr("SCOPE_ADDR")]
    BY <1>3, <2>3 DEF ReadTimeErrorStyle
  <2> QED BY <2>2, <2>4
<1>4. CASE object.class = "STYLE"
  <2>1. "WILDCARD_FILTER" \in P /\ "FIXED_FILTER" \in P
    BY <1>4 DEF requirements, StyleFlags
  <2>2. Given("WILDCARD_FILTER", 1) \in FieldsOf(P) /\ Given("FIXED_FILTER", 1) \in FieldsOf(P)
    <3>1. "given" \in Kinds
      BY DEF Kinds
    <3> QED BY <2>1, <3>1, FieldIn DEF Given
  <2>3. Pad(4) \in FieldsOf(P)
    BY PadIn
  <2> QED BY <1>4, <2>2, <2>3 DEF ReadTimeErrorStyle
<1> QED BY <1>1, <1>2, <1>3, <1>4

LEMMA ReadFlowspecIn ==
  ASSUME NEW object, NEW P, MayCarry(object.class) \subseteq P,
         object.class \in {"TOKEN_FLOWSPEC", "SONETSDH_FLOWSPEC", "ETHERNET_FLOWSPEC"}
  PROVE  ReadFlowspec(object) \in Seq(FieldsOf(P))
<1>1. CASE object.class = "TOKEN_FLOWSPEC"
  <2>1. TokenBucket \subseteq P /\ "RATE" \in P /\ "SLACK_TERM" \in P
    BY <1>1 DEF MayCarry, requirements, Beyond
  <2>2. Float("RATE") \in FieldsOf(P) /\ Word("SLACK_TERM") \in FieldsOf(P)
    BY <2>1, SingleIn
  <2>3. Pad(12) \in FieldsOf(P) /\ Pad(4) \in FieldsOf(P)
    BY PadIn
  <2> DEFINE F == FieldsOf(P)
             a == << Pad(12) >>
             b == << Pad(4), Float("RATE"), Word("SLACK_TERM") >>
  <2>4. ReadTokens \in Seq(F)
    BY <2>1, ReadTokensIn
  <2>5. a \in Seq(F) /\ b \in Seq(F) /\ << >> \in Seq(F)
    BY <2>2, <2>3
  <2>6. \/ ReadFlowspec(object) = a \o ReadTokens \o b
        \/ ReadFlowspec(object) = a \o ReadTokens
        \/ ReadFlowspec(object) = << >>
    BY <1>1 DEF ReadFlowspec
  <2> HIDE DEF F, a, b
  <2>7. a \o ReadTokens \in Seq(F) /\ a \o ReadTokens \o b \in Seq(F)
    BY <2>4, <2>5
  <2>8. ReadFlowspec(object) \in Seq(F)
    BY <2>5, <2>6, <2>7
  <2> QED BY <2>8 DEF F
<1>2. CASE object.class = "SONETSDH_FLOWSPEC"
  <2>1. Sonet \subseteq P
    BY <1>2 DEF MayCarry, requirements
  <2>2. ReadFlowspec(object) = ReadSonet
    BY <1>2 DEF ReadFlowspec
  <2> QED BY <2>1, <2>2, ReadSonetIn
<1>3. CASE object.class = "ETHERNET_FLOWSPEC"
  <2>1. EthernetBandwidth \subseteq P /\ EthernetLink \subseteq P
    BY <1>3 DEF MayCarry, requirements
  <2>2. ReadFlowspec(object) = ReadEthernet
    BY <1>3 DEF ReadFlowspec
  <2> QED BY <2>1, <2>2, ReadEthernetIn
<1> QED BY <1>1, <1>2, <1>3

LEMMA ReadSenderAndFilterIn ==
  ASSUME NEW object, NEW P, requirements[object.class] \subseteq P,
         object.class \in {"FILTER_SPEC", "SENDER_TEMPLATE", "TOKEN_SENDER_TSPEC",
                           "SONETSDH_SENDER_TSPEC", "ETHERNET_SENDER_TSPEC"}
  PROVE  ReadSenderAndFilter(object) \in Seq(FieldsOf(P))
<1>1. CASE object.class = "FILTER_SPEC"
  <2>1. "FILTER_SRC_ADDR" \in P /\ "FILTER_SRC_PORT" \in P
    BY <1>1 DEF requirements
  <2>2. Addr("FILTER_SRC_ADDR") \in FieldsOf(P) /\ Short("FILTER_SRC_PORT") \in FieldsOf(P)
    BY <2>1, SingleIn
  <2>3. Pad(2) \in FieldsOf(P)
    BY PadIn
  <2> QED BY <1>1, <2>2, <2>3 DEF ReadSenderAndFilter
<1>2. CASE object.class = "SENDER_TEMPLATE"
  <2>1. "SENDER_SRC_ADDR" \in P /\ "SENDER_SRC_ID" \in P
    BY <1>2 DEF requirements
  <2>2. Addr("SENDER_SRC_ADDR") \in FieldsOf(P) /\ Short("SENDER_SRC_ID") \in FieldsOf(P)
    BY <2>1, SingleIn
  <2>3. Pad(2) \in FieldsOf(P)
    BY PadIn
  <2> QED BY <1>2, <2>2, <2>3 DEF ReadSenderAndFilter
<1>3. CASE object.class = "TOKEN_SENDER_TSPEC"
  <2> DEFINE F == FieldsOf(P)
             a == << Pad(12) >>
  <2>1. TokenBucket \subseteq P
    BY <1>3 DEF requirements
  <2>2. ReadTokens \in Seq(F)
    BY <2>1, ReadTokensIn
  <2>3. a \in Seq(F) /\ << >> \in Seq(F)
    <3>1. Pad(12) \in F
      BY PadIn
    <3> HIDE DEF F
    <3> QED BY <3>1
  <2>4. ReadSenderAndFilter(object) = a \o ReadTokens \/ ReadSenderAndFilter(object) = << >>
    BY <1>3 DEF ReadSenderAndFilter
  <2> HIDE DEF F, a
  <2>5. a \o ReadTokens \in Seq(F)
    BY <2>2, <2>3
  <2>6. ReadSenderAndFilter(object) \in Seq(F)
    BY <2>3, <2>4, <2>5
  <2> QED BY <2>6 DEF F
<1>4. CASE object.class = "SONETSDH_SENDER_TSPEC"
  <2>1. Sonet \subseteq P
    BY <1>4 DEF requirements
  <2>2. ReadSenderAndFilter(object) = ReadSonet
    BY <1>4 DEF ReadSenderAndFilter
  <2> QED BY <2>1, <2>2, ReadSonetIn
<1>5. CASE object.class = "ETHERNET_SENDER_TSPEC"
  <2>1. EthernetBandwidth \subseteq P /\ EthernetLink \subseteq P
    BY <1>5 DEF requirements
  <2>2. ReadSenderAndFilter(object) = ReadEthernet
    BY <1>5 DEF ReadSenderAndFilter
  <2> QED BY <2>1, <2>2, ReadEthernetIn
<1> QED BY <1>1, <1>2, <1>3, <1>4, <1>5

LEMMA ReadLabelAndRouteIn ==
  ASSUME NEW object, Shaped(object), NEW P, requirements[object.class] \subseteq P,
         object.class \in {"RESV_CONFIRM", "GENERALIZED_LABEL",
                           "GENERALIZED_LABEL_REQUEST", "ERO"}
  PROVE  ReadLabelAndRoute(object) \in Seq(FieldsOf(P))
<1>1. CASE object.class = "RESV_CONFIRM"
  <2>1. "RESV_CONFIRM_RECV_ADDR" \in P
    BY <1>1 DEF requirements
  <2>2. Addr("RESV_CONFIRM_RECV_ADDR") \in FieldsOf(P)
    BY <2>1, SingleIn
  <2> QED BY <1>1, <2>2 DEF ReadLabelAndRoute
<1>2. CASE object.class = "GENERALIZED_LABEL"
  <2>1. "LABEL" \in P /\ object.length \in Int
    BY <1>2 DEF requirements, Shaped
  <2>2. Field("label", << "LABEL" >>, object.length, 0) \in FieldsOf(P)
    BY <2>1, SingleIn
  <2> QED BY <1>2, <2>2 DEF ReadLabelAndRoute
<1>3. CASE object.class = "GENERALIZED_LABEL_REQUEST"
  <2>1. "LSP_ENC_TYPE" \in P /\ "LSP_SWITCHING_TYPE" \in P /\ "LSP_GPID" \in P
    BY <1>3 DEF requirements
  <2>2. /\ Char("LSP_ENC_TYPE") \in FieldsOf(P) /\ Char("LSP_SWITCHING_TYPE") \in FieldsOf(P)
        /\ Short("LSP_GPID") \in FieldsOf(P)
    BY <2>1, SingleIn
  <2> QED BY <1>3, <2>2 DEF ReadLabelAndRoute
<1>4. CASE object.class = "ERO"
  <2>1. "ERO" \in P
    BY <1>4 DEF requirements
  <2>2. Field("ero", << "ERO" >>, 8, 0) \in FieldsOf(P)
    BY <2>1, SingleIn
  <2>3. PICK n \in Nat : DOMAIN object.fields = 1..n
    BY DEF Shaped
  <2>4. ReadLabelAndRoute(object) = [k \in 1..n |-> Field("ero", << "ERO" >>, 8, 0)]
    BY <1>4, <2>3 DEF ReadLabelAndRoute
  <2> QED BY <2>2, <2>4
<1> QED BY <1>1, <1>2, <1>3, <1>4

LEMMA GivenIn ==
  ASSUME NEW P, NEW p \in P, NEW n \in Int
  PROVE  Given(p, n) \in FieldsOf(P)
<1>1. "given" \in Kinds
  BY DEF Kinds
<1> QED BY <1>1, FieldIn DEF Given

LEMMA ReadHelloAndIdIn ==
  ASSUME NEW object, NEW P, requirements[object.class] \cup Beyond \subseteq P,
         object.class \in {"HELLO_REQUEST", "HELLO_ACK", "MESSAGE_ID", "MESSAGE_ID_ACK",
                           "MESSAGE_ID_NACK", "MESSAGE_ID_LIST"}
  PROVE  ReadHelloAndId(object) \in Seq(FieldsOf(P))
<1> DEFINE F == FieldsOf(P)
           id == << Char("MSG_ID_FLAGS"), Int24("MSG_ID_EPOCH"), Word("MSG_ID_ID") >>
           hello == << Word("HELLO_SRC_INSTANCE"), Word("HELLO_DST_INSTANCE") >>
<1>1. CASE object.class \in {"HELLO_REQUEST", "HELLO_ACK"}
  <2>1. /\ "HELLO_SRC_INSTANCE" \in P /\ "HELLO_DST_INSTANCE" \in P
        /\ "HELLO_REQ_ACK" \in P
    <3>1. requirements[object.class] = {"HELLO_SRC_INSTANCE", "HELLO_DST_INSTANCE"}
      BY <1>1 DEF requirements
    <3> QED BY <3>1 DEF Beyond
  <2>2. Word("HELLO_SRC_INSTANCE") \in F /\ Word("HELLO_DST_INSTANCE") \in F
    BY <2>1, SingleIn
  <2>3. Given("HELLO_REQ_ACK", 1) \in F /\ Given("HELLO_REQ_ACK", 2) \in F
    BY <2>1, GivenIn
  <2>4. hello \in Seq(F)
    <3> HIDE DEF F
    <3> QED BY <2>2
  <2>5. \/ ReadHelloAndId(object) = Append(hello, Given("HELLO_REQ_ACK", 1))
        \/ ReadHelloAndId(object) = Append(hello, Given("HELLO_REQ_ACK", 2))
    BY <1>1 DEF ReadHelloAndId
  <2> HIDE DEF F, hello
  <2>6. ReadHelloAndId(object) \in Seq(F)
    BY <2>3, <2>4, <2>5
  <2> QED BY <2>6 DEF F
<1>2. CASE object.class \in {"MESSAGE_ID", "MESSAGE_ID_ACK", "MESSAGE_ID_NACK"}
  <2>1. /\ "MSG_ID_FLAGS" \in P /\ "MSG_ID_EPOCH" \in P /\ "MSG_ID_ID" \in P
        /\ "MSG_ID_ACK_NACK" \in P
    <3>1. requirements[object.class] = MessageId
      BY <1>2 DEF requirements
    <3> QED BY <3>1 DEF Beyond, MessageId
  <2>2. Char("MSG_ID_FLAGS") \in F /\ Int24("MSG_ID_EPOCH") \in F /\ Word("MSG_ID_ID") \in F
    BY <2>1, SingleIn
  <2>3. Given("MSG_ID_ACK_NACK", 1) \in F /\ Given("MSG_ID_ACK_NACK", 2) \in F
    BY <2>1, GivenIn
  <2>4. id \in Seq(F)
    <3> HIDE DEF F
    <3> QED BY <2>2
  <2>5. \/ ReadHelloAndId(object) = Append(id, Given("MSG_ID_ACK_NACK", 1))
        \/ ReadHelloAndId(object) = Append(id, Given("MSG_ID_ACK_NACK", 2))
        \/ ReadHelloAndId(object) = id
    BY <1>2 DEF ReadHelloAndId
  <2> HIDE DEF F, id
  <2>6. ReadHelloAndId(object) \in Seq(F)
    BY <2>3, <2>4, <2>5
  <2> QED BY <2>6 DEF F
<1>3. CASE object.class = "MESSAGE_ID_LIST"
  <2>1. "SREFRESH_MESSAGE_ID" \in P
    BY <1>3 DEF requirements
  <2>2. Word("SREFRESH_MESSAGE_ID") \in F
    BY <2>1, SingleIn
  <2>3. Pad(4) \in F
    BY PadIn
  <2> HIDE DEF F
  <2>4. ReadHelloAndId(object) \in Seq(F)
    BY <1>3, <2>2, <2>3 DEF ReadHelloAndId
  <2> QED BY <2>4 DEF F
<1> QED BY <1>1, <1>2, <1>3

LEMMA ReadStatusAndAttributeIn ==
  ASSUME NEW object, Shaped(object), NEW P, requirements[object.class] \cup Beyond \subseteq P,
         object.class \in {"UPSTREAM_LABEL", "RESTART_CAP", "NOTIFY_REQUEST",
                           "ADMIN_STATUS", "SESSION_ATTRIBUTE"}
  PROVE  ReadStatusAndAttribute(object) \in Seq(FieldsOf(P))
<1>1. CASE object.class = "UPSTREAM_LABEL"
  <2>1. "UPSTREAM_LABEL" \in P
    BY <1>1 DEF requirements
  <2>2. Word("UPSTREAM_LABEL") \in FieldsOf(P)
    BY <2>1, SingleIn
  <2> QED BY <1>1, <2>2 DEF ReadStatusAndAttribute
<1>2. CASE object.class = "RESTART_CAP"
  <2>1. "RECOVERY_TIME" \in P
    BY <1>2 DEF requirements
  <2>2. Word("RECOVERY_TIME") \in FieldsOf(P)
    BY <2>1, SingleIn
  <2> QED BY <1>2, <2>2 DEF ReadStatusAndAttribute
<1>3. CASE object.class = "NOTIFY_REQUEST"
  <2>1. "NOTIFY_ADDRESS" \in P
    BY <1>3 DEF requirements
  <2>2. Word("NOTIFY_ADDRESS") \in FieldsOf(P)
    BY <2>1, SingleIn
  <2> QED BY <1>3, <2>2 DEF ReadStatusAndAttribute
<1>4. CASE object.class = "ADMIN_STATUS"
  <2>1. "ADMIN_STATUS_RTAD_FLAGS" \in P
    BY <1>4 DEF requirements
  <2>2. Field("rtad", << "ADMIN_STATUS_RTAD_FLAGS" >>, 4, 0) \in FieldsOf(P)
    BY <2>1, SingleIn
  <2> QED BY <1>4, <2>2 DEF ReadStatusAndAttribute
<1>5. CASE object.class = "SESSION_ATTRIBUTE"
  <2>1. /\ "SESSION_NAME" \in P /\ "SETUP_PRIORITY" \in P /\ "HOLDING_PRIORITY" \in P
        /\ "LOCAL_PROTECTION_FLAG" \in P /\ "LABEL_RECORDING_FLAG" \in P
        /\ "SE_STYLE_FLAG" \in P
    BY <1>5 DEF requirements
  <2>2. object.length - 3 \in Int
    BY DEF Shaped
  <2> DEFINE n == object.length - 3
  <2>3. Char("SETUP_PRIORITY") \in FieldsOf(P) /\ Char("HOLDING_PRIORITY") \in FieldsOf(P)
    BY <2>1, SingleIn
  <2>4. Field("name", << "SESSION_NAME" >>, n, 0) \in FieldsOf(P)
    <3>1. "name" \in Kinds
      BY DEF Kinds
    <3> HIDE DEF n
    <3> QED BY <2>1, <2>2, <3>1, FieldIn DEF n
  <2>5. Field("flags", SessionFlags, 1, 0) \in FieldsOf(P)
    <3>1. SessionFlags \in Seq(P) /\ "flags" \in Kinds
      BY <2>1 DEF SessionFlags, Kinds
    <3> QED BY <3>1 DEF Field, FieldsOf
  <2>6. ReadStatusAndAttribute(object) =
          << Char("SETUP_PRIORITY"), Char("HOLDING_PRIORITY"),
             Field("flags", SessionFlags, 1, 0), Field("name", << "SESSION_NAME" >>, n, 0) >>
    BY <1>5 DEF ReadStatusAndAttribute
  <2> HIDE DEF n
  <2> QED BY <2>3, <2>4, <2>5, <2>6
<1> QED BY <1>1, <1>2, <1>3, <1>4, <1>5

LEMMA ReadUniIn ==
  ASSUME NEW object, Shaped(object), NEW P, requirements[object.class] \subseteq P,
         object.class \in {"GENERALIZED_UNI", "CALL_ID_0", "CALL_ID_1", "CALL_ID_2"}
  PROVE  ReadUni(object) \in Seq(FieldsOf(P))
<1> DEFINE F == FieldsOf(P)
           gu(t) == CASE t = 1 -> << Pad(4), Addr("TNA_SRC_ADDR") >>
                 [] t = 2 -> << Pad(4), Addr("TNA_DST_ADDR") >>
                 [] t = 5 -> << Pad(4), Char("SERVICE_LEVEL"), Pad(3) >>
                 [] OTHER -> << >>
           parts == [k \in DOMAIN object.fields |-> gu(Tag(object, k))]
           source == IF object.fields # << >> /\ object.fields[1].val = 1
                     THEN Addr("CALL_ID_SRC_TN_ADDR") ELSE Pad(4)
           local == << source, Word("CALL_ID_LOCAL_ID1"), Word("CALL_ID_LOCAL_ID2") >>
           one == << Char("CALL_ID_ADDR_TYPE"), Pad(3) >>
           two == << Char("CALL_ID_ADDR_TYPE"), Int24("CALL_ID_IS"),
                Word("CALL_ID_ITU_CC1"), Short("CALL_ID_ITU_CC2"),
                Short("CALL_ID_UAPC1"), Word("CALL_ID_UAPC2") >>
<1>0. Pad(4) \in F /\ Pad(3) \in F
  BY PadIn
<1>1. CASE object.class = "GENERALIZED_UNI"
  <2>1. "TNA_SRC_ADDR" \in P /\ "TNA_DST_ADDR" \in P /\ "SERVICE_LEVEL" \in P
    BY <1>1 DEF requirements
  <2>2. Addr("TNA_SRC_ADDR") \in F /\ Addr("TNA_DST_ADDR") \in F /\ Char("SERVICE_LEVEL") \in F
    BY <2>1, SingleIn
  <2>3. \A t : gu(t) \in Seq(F)
    <3> HIDE DEF F
    <3> QED BY <1>0, <2>2
  <2>4. PICK n \in Nat : DOMAIN object.fields = 1..n
    BY DEF Shaped
  <2>5. parts = [k \in 1..n |-> gu(Tag(object, k))]
    BY <2>4
  <2>6. ReadUni(object) = FlattenSeq(parts)
    BY <1>1 DEF ReadUni
  <2> HIDE DEF gu, F
  <2>7. DOMAIN parts = 1..n /\ parts = [k \in 1..n |-> parts[k]]
        /\ \A k \in 1..n : parts[k] \in Seq(F)
    BY <2>3, <2>5
  <2> HIDE DEF parts
  <2>8. FlattenSeq(parts) \in Seq(F)
    BY <2>7, PartsIn
  <2> QED BY <2>6, <2>8 DEF F
<1>2. CASE object.class = "CALL_ID_0"
  <2>1. "CALL_ID" \in P
    BY <1>2 DEF requirements
  <2>2. Word("CALL_ID") \in FieldsOf(P)
    BY <2>1, SingleIn
  <2> QED BY <1>2, <2>2 DEF ReadUni
<1>3. CASE object.class \in {"CALL_ID_1", "CALL_ID_2"}
  <2>1. /\ "CALL_ID_ADDR_TYPE" \in P /\ "CALL_ID_SRC_TN_ADDR" \in P
        /\ "CALL_ID_LOCAL_ID1" \in P /\ "CALL_ID_LOCAL_ID2" \in P
    <3>1. LocalCallId \subseteq requirements[object.class]
      BY <1>3 DEF requirements
    <3> QED BY <3>1 DEF LocalCallId
  <2>2. /\ Char("CALL_ID_ADDR_TYPE") \in F /\ Addr("CALL_ID_SRC_TN_ADDR") \in F
        /\ Word("CALL_ID_LOCAL_ID1") \in F /\ Word("CALL_ID_LOCAL_ID2") \in F
    BY <2>1, SingleIn
  <2>3. local \in Seq(F)
    <3>1. source \in F
      BY <1>0, <2>2
    <3> HIDE DEF F, source
    <3> QED BY <2>2, <3>1
  <2>4. CASE object.class = "CALL_ID_1"
    <3>1. ReadUni(object) = one \o local
      BY <2>4 DEF ReadUni
    <3>2. one \in Seq(F)
      <4> HIDE DEF F
      <4> QED BY <1>0, <2>2
    <3> HIDE DEF one, local, F
    <3>3. ReadUni(object) \in Seq(F)
      BY <2>3, <3>1, <3>2
    <3> QED BY <3>3 DEF F
  <2>5. CASE object.class = "CALL_ID_2"
    <3>1. /\ "CALL_ID_IS" \in P /\ "CALL_ID_ITU_CC1" \in P /\ "CALL_ID_ITU_CC2" \in P
          /\ "CALL_ID_UAPC1" \in P /\ "CALL_ID_UAPC2" \in P
      BY <2>5 DEF requirements
    <3>2. /\ Int24("CALL_ID_IS") \in F /\ Word("CALL_ID_ITU_CC1") \in F
          /\ Short("CALL_ID_ITU_CC2") \in F /\ Short("CALL_ID_UAPC1") \in F
          /\ Word("CALL_ID_UAPC2") \in F
      BY <3>1, SingleIn
    <3>3. ReadUni(object) = two \o local
      BY <2>5 DEF ReadUni
    <3>4. two \in Seq(F)
      <4> HIDE DEF F
      <4> QED BY <2>2, <3>2
    <3> HIDE DEF two, local, F
    <3>5. ReadUni(object) \in Seq(F)
      BY <2>3, <3>3, <3>4
    <3> QED BY <3>5 DEF F
  <2> QED BY <1>3, <2>4, <2>5
<1> QED BY <1>1, <1>2, <1>3

(* The readers of the nine groups of classes. *)
LEMMA WireClassList ==
  WireClasses =
    {"SESSION_IETF", "SESSION_OIF"} \cup {"IPV4_RSVP_HOP", "IPV4_IF_ID_RSVP_HOP"}
    \cup {"TIME_VALUES", "ERROR_SPEC", "SCOPE", "STYLE"}
    \cup {"TOKEN_FLOWSPEC", "SONETSDH_FLOWSPEC", "ETHERNET_FLOWSPEC"}
    \cup {"FILTER_SPEC", "SENDER_TEMPLATE", "TOKEN_SENDER_TSPEC",
          "SONETSDH_SENDER_TSPEC", "ETHERNET_SENDER_TSPEC"}
    \cup {"RESV_CONFIRM", "GENERALIZED_LABEL", "GENERALIZED_LABEL_REQUEST", "ERO"}
    \cup {"HELLO_REQUEST", "HELLO_ACK", "MESSAGE_ID", "MESSAGE_ID_ACK",
          "MESSAGE_ID_NACK", "MESSAGE_ID_LIST"}
    \cup {"UPSTREAM_LABEL", "RESTART_CAP", "NOTIFY_REQUEST", "ADMIN_STATUS",
          "SESSION_ATTRIBUTE"}
    \cup {"GENERALIZED_UNI", "CALL_ID_0", "CALL_ID_1", "CALL_ID_2"}
BY DEF WireClasses, Classes, requirements, Subobjects

LEMMA ReadFieldsIn ==
  ASSUME NEW object, Shaped(object)
  PROVE  ReadFields(object) \in Seq(FieldsOf(MayCarry(object.class)))
<1> DEFINE P == MayCarry(object.class)
           class == object.class
<1>1. /\ requirements[object.class] \subseteq P /\ Beyond \subseteq P
      /\ requirements[object.class] \cup Beyond \subseteq P /\ MayCarry(object.class) \subseteq P
  BY DEF MayCarry
<1>2. CASE class \in {"SESSION_IETF", "SESSION_OIF"}
  <2>1. ReadFields(object) = ReadSession(object)
    BY <1>2 DEF ReadFields
  <2>2. SessionId \subseteq P
    BY <1>1, <1>2 DEF requirements
  <2> HIDE DEF P
  <2>3. ReadFields(object) \in Seq(FieldsOf(P))
    BY <2>1, <2>2, ReadSessionIn
  <2> QED BY <2>3 DEF P
<1>3. CASE class \in {"IPV4_RSVP_HOP", "IPV4_IF_ID_RSVP_HOP"}
  <2>1. ReadFields(object) = ReadHop(object)
    BY <1>3 DEF ReadFields
  <2>2. {"CONTROL_OUT_IF_ADDR", "CONTROL_OUT_IF_HANDLE"} \cup Beyond \subseteq P
    <3>1. {"CONTROL_OUT_IF_ADDR", "CONTROL_OUT_IF_HANDLE"} \subseteq requirements[class]
      BY <1>3 DEF requirements
    <3> QED BY <1>1, <3>1
  <2> HIDE DEF P
  <2>3. ReadFields(object) \in Seq(FieldsOf(P))
    BY <2>1, <2>2, ReadHopIn
  <2> QED BY <2>3 DEF P
<1>4. CASE class \in {"TIME_VALUES", "ERROR_SPEC", "SCOPE", "STYLE"}
  <2>1. ReadFields(object) = ReadTimeErrorStyle(object)
    BY <1>4 DEF ReadFields
  <2> HIDE DEF P
  <2>3. ReadFields(object) \in Seq(FieldsOf(P))
    BY <1>1, <1>4, <2>1, ReadTimeErrorStyleIn
  <2> QED BY <2>3 DEF P
<1>5. CASE class \in {"TOKEN_FLOWSPEC", "SONETSDH_FLOWSPEC", "ETHERNET_FLOWSPEC"}
  <2>1. ReadFields(object) = ReadFlowspec(object)
    BY <1>5 DEF ReadFields
  <2> HIDE DEF P
  <2>3. ReadFields(object) \in Seq(FieldsOf(P))
    BY <1>1, <1>5, <2>1, ReadFlowspecIn
  <2> QED BY <2>3 DEF P
<1>6. CASE class \in {"FILTER_SPEC", "SENDER_TEMPLATE", "TOKEN_SENDER_TSPEC",
                      "SONETSDH_SENDER_TSPEC", "ETHERNET_SENDER_TSPEC"}
  <2>1. ReadFields(object) = ReadSenderAndFilter(object)
    BY <1>6 DEF ReadFields
  <2> HIDE DEF P
  <2>3. ReadFields(object) \in Seq(FieldsOf(P))
    BY <1>1, <1>6, <2>1, ReadSenderAndFilterIn
  <2> QED BY <2>3 DEF P
<1>7. CASE class \in {"RESV_CONFIRM", "GENERALIZED_LABEL", "GENERALIZED_LABEL_REQUEST", "ERO"}
  <2>1. ReadFields(object) = ReadLabelAndRoute(object)
    BY <1>7 DEF ReadFields
  <2> HIDE DEF P
  <2>3. ReadFields(object) \in Seq(FieldsOf(P))
    BY <1>1, <1>7, <2>1, ReadLabelAndRouteIn
  <2> QED BY <2>3 DEF P
<1>8. CASE class \in {"HELLO_REQUEST", "HELLO_ACK", "MESSAGE_ID", "MESSAGE_ID_ACK",
                      "MESSAGE_ID_NACK", "MESSAGE_ID_LIST"}
  <2>1. ReadFields(object) = ReadHelloAndId(object)
    BY <1>8 DEF ReadFields
  <2> HIDE DEF P
  <2>3. ReadFields(object) \in Seq(FieldsOf(P))
    BY <1>1, <1>8, <2>1, ReadHelloAndIdIn
  <2> QED BY <2>3 DEF P
<1>9. CASE class \in {"UPSTREAM_LABEL", "RESTART_CAP", "NOTIFY_REQUEST", "ADMIN_STATUS",
                      "SESSION_ATTRIBUTE"}
  <2>1. ReadFields(object) = ReadStatusAndAttribute(object)
    BY <1>9 DEF ReadFields
  <2> HIDE DEF P
  <2>3. ReadFields(object) \in Seq(FieldsOf(P))
    BY <1>1, <1>9, <2>1, ReadStatusAndAttributeIn
  <2> QED BY <2>3 DEF P
<1>10. CASE class \in {"GENERALIZED_UNI", "CALL_ID_0", "CALL_ID_1", "CALL_ID_2"}
  <2>1. ReadFields(object) = ReadUni(object)
    BY <1>10 DEF ReadFields
  <2> HIDE DEF P
  <2>3. ReadFields(object) \in Seq(FieldsOf(P))
    BY <1>1, <1>10, <2>1, ReadUniIn
  <2> QED BY <2>3 DEF P
<1>11. class \in WireClasses
  BY DEF Shaped
<1> HIDE DEF P, class
<1>12. \/ class \in {"SESSION_IETF", "SESSION_OIF"}
       \/ class \in {"IPV4_RSVP_HOP", "IPV4_IF_ID_RSVP_HOP"}
       \/ class \in {"TIME_VALUES", "ERROR_SPEC", "SCOPE", "STYLE"}
       \/ class \in {"TOKEN_FLOWSPEC", "SONETSDH_FLOWSPEC", "ETHERNET_FLOWSPEC"}
       \/ class \in {"FILTER_SPEC", "SENDER_TEMPLATE", "TOKEN_SENDER_TSPEC",
                     "SONETSDH_SENDER_TSPEC", "ETHERNET_SENDER_TSPEC"}
       \/ class \in {"RESV_CONFIRM", "GENERALIZED_LABEL", "GENERALIZED_LABEL_REQUEST", "ERO"}
       \/ class \in {"HELLO_REQUEST", "HELLO_ACK", "MESSAGE_ID", "MESSAGE_ID_ACK",
                     "MESSAGE_ID_NACK", "MESSAGE_ID_LIST"}
       \/ class \in {"UPSTREAM_LABEL", "RESTART_CAP", "NOTIFY_REQUEST", "ADMIN_STATUS",
                     "SESSION_ATTRIBUTE"}
       \/ class \in {"GENERALIZED_UNI", "CALL_ID_0", "CALL_ID_1", "CALL_ID_2"}
  BY <1>11, WireClassList
<1> QED BY <1>2, <1>3, <1>4, <1>5, <1>6, <1>7, <1>8, <1>9, <1>10, <1>12

-----------------------------------------------------------------------------
(* The calls of add.                                                       *)

LEMMA AddTypes ==
  ASSUME NEW kind \in Kinds \ {"pad"}
  PROVE  AddType(kind) \in Types /\ (AddType(kind) = "CS" => kind = "name")
BY DEF Kinds, AddType, Types

(* A field that is read gives calls for its own parameters, none of them   *)
(* when it is padding.                                                     *)
LEMMA CallsForIn ==
  ASSUME NEW P, NEW f \in FieldsOf(P), NEW v, NEW V, v \in V, 1 \in V,
         f.kind = "name" => v \in Int
  PROVE  /\ CallsFor(f, v) \in Seq(AddCalls(V, P))
         /\ \A i \in 1..Len(CallsFor(f, v)) : CallsFor(f, v)[i].par \in P
         /\ f.kind # "pad" /\ f.kind # "flags" =>
              CallsFor(f, v) = [i \in 1..Len(f.pars) |->
                                  Call(f.pars[i], AddType(f.kind), v, f.width)]
         /\ f.kind = "pad" => CallsFor(f, v) = << >>
<1> DEFINE set  == Ascending({i \in DOMAIN f.pars : v[i]})
           pars == CASE f.kind = "pad"   -> << >>
                     [] f.kind = "flags" -> [j \in DOMAIN set |-> f.pars[set[j]]]
                     [] OTHER            -> f.pars
           w == IF f.kind = "flags" THEN 1 ELSE v
<1>1. f.kind \in Kinds /\ f.pars \in Seq(P) /\ f.width \in Int
  BY DEF FieldsOf
<1>2. pars \in Seq(P) /\ (f.kind = "pad" => pars = << >>)
      /\ (f.kind # "pad" /\ f.kind # "flags" => pars = f.pars)
  <2>1. CASE f.kind = "flags"
    <3> DEFINE S == {i \in DOMAIN f.pars : v[i]}
    <3>1. S \in SUBSET (1..Len(f.pars)) /\ Len(f.pars) \in Nat
      BY <1>1
    <3>2. set \in Seq(S)
      <4> HIDE DEF S
      <4>1. Ascending(S) \in Seq(S)
        BY <3>1, AscendingOf
      <4> QED BY <4>1 DEF S
    <3>3. pars = [j \in DOMAIN set |-> f.pars[set[j]]]
      BY <2>1
    <3> HIDE DEF S, set, pars
    <3>4. \A j \in DOMAIN set : set[j] \in 1..Len(f.pars) /\ f.pars[set[j]] \in P
      BY <1>1, <3>1, <3>2
    <3>5. DOMAIN set = 1..Len(set) /\ Len(set) \in Nat
      BY <3>2
    <3>6. pars \in Seq(P)
      BY <3>3, <3>4, <3>5
    <3> QED BY <2>1, <3>6
  <2>2. CASE f.kind = "pad"
    BY <2>2
  <2>3. CASE f.kind # "flags" /\ f.kind # "pad"
    BY <1>1, <2>3
  <2> QED BY <2>1, <2>2, <2>3
<1>3. CallsFor(f, v) = [j \in DOMAIN pars |-> Call(pars[j], AddType(f.kind), w, f.width)]
  BY DEF CallsFor
<1>4. f.kind = "name" => w \in Int
  OBVIOUS
<1>5. w \in V
  OBVIOUS
<1> HIDE DEF set, pars, w
<1>6. DOMAIN pars = 1..Len(pars) /\ Len(pars) \in Nat /\ \A j \in 1..Len(pars) : pars[j] \in P
  BY <1>2
<1>7. ASSUME NEW j \in 1..Len(pars)
      PROVE  Call(pars[j], AddType(f.kind), w, f.width) \in AddCalls(V, P)
  <2>1. f.kind # "pad"
    BY <1>2
  <2>2. AddType(f.kind) \in Types /\ (AddType(f.kind) = "CS" => w \in Int)
    BY <1>1, <1>4, <2>1, AddTypes
  <2>3. pars[j] \in P
    BY <1>6
  <2> QED BY <1>1, <1>5, <2>2, <2>3 DEF Call, AddCalls
<1>8. CallsFor(f, v) \in Seq(AddCalls(V, P)) /\ Len(CallsFor(f, v)) = Len(pars)
  BY <1>3, <1>6, <1>7
<1>9. \A i \in 1..Len(CallsFor(f, v)) : CallsFor(f, v)[i].par \in P
  <2>1. \A i \in 1..Len(pars) : CallsFor(f, v)[i].par = pars[i]
    BY <1>3, <1>6 DEF Call
  <2> QED BY <1>6, <1>8, <2>1
<1>10. f.kind = "pad" => CallsFor(f, v) = << >>
  <2> SUFFICES ASSUME f.kind = "pad" PROVE CallsFor(f, v) = << >>
    OBVIOUS
  <2> DEFINE s == CallsFor(f, v)
             S == AddCalls(V, P)
  <2>1. s \in Seq(S) /\ Len(s) = Len(pars)
    BY <1>8
  <2>2. Len(pars) = 0
    BY <1>2
  <2> HIDE DEF s, S
  <2>3. s = << >>
    BY <2>1, <2>2
  <2> QED BY <2>3 DEF s
<1>11. f.kind # "pad" /\ f.kind # "flags" =>
         CallsFor(f, v) = [i \in 1..Len(f.pars) |-> Call(f.pars[i], AddType(f.kind), v, f.width)]
  <2> SUFFICES ASSUME f.kind # "pad", f.kind # "flags"
               PROVE  CallsFor(f, v) = [i \in 1..Len(f.pars) |->
                                          Call(f.pars[i], AddType(f.kind), v, f.width)]
    OBVIOUS
  <2>1. pars = f.pars /\ DOMAIN f.pars = 1..Len(f.pars)
    BY <1>2, <1>6
  <2>2. w = v
    BY DEF w
  <2> QED BY <1>3, <2>1, <2>2
<1> QED BY <1>8, <1>9, <1>10, <1>11

LEMMA NameIsRead ==
  ASSUME NEW object, Shaped(object), NEW offset, NEW f, f.kind = "name"
  PROVE  ReadValue(object, offset, f) \in Int
<1> DEFINE starts == {k \in DOMAIN object.fields :
                   /\ BytesOf(SubSeq(object.fields, 1, k - 1)) = offset
                   /\ object.fields[k].width = f.width}
           field  == object.fields[CHOOSE k \in starts : TRUE]
<1>1. ReadValue(object, offset, f) =
        IF starts = {} THEN Garbage
        ELSE IF field.kind = f.kind THEN field.val
        ELSE IF {field.kind, f.kind} = {"addr", "int"} THEN - field.val
        ELSE Garbage
  BY DEF ReadValue
<1>2. Garbage \in Int
  BY DEF Garbage
<1>3. starts # {} => (CHOOSE k \in starts : TRUE) \in DOMAIN object.fields
  OBVIOUS
<1> HIDE DEF starts
<1>4. starts # {} /\ field.kind = f.kind => field.val \in Int
  BY <1>3 DEF Shaped
<1> HIDE DEF field
<1>5. {field.kind, f.kind} # {"addr", "int"}
  <2>1. "name" \notin {"addr", "int"}
    OBVIOUS
  <2> QED BY <2>1
<1> QED BY <1>1, <1>2, <1>4, <1>5

(* What is read with a field. *)
ReadWith(object, reads, k) ==
  IF reads[k].kind = "given" THEN reads[k].tag
  ELSE ReadValue(object, BytesOf(SubSeq(reads, 1, k - 1)), reads[k])

CallsOf(object, reads) == [k \in DOMAIN reads |-> CallsFor(reads[k], ReadWith(object, reads, k))]

LEMMA AddsForIn ==
  ASSUME NEW object, Shaped(object), NEW P, NEW reads \in Seq(FieldsOf(P))
  PROVE  \E V : /\ AddsFor(object, reads) \in Seq(AddCalls(V, P))
                /\ CallsOf(object, reads) \in Seq(Seq(AddCalls(V, P)))
                /\ AddsFor(object, reads) = FlattenSeq(CallsOf(object, reads))
<1> DEFINE v(k) == ReadWith(object, reads, k)
           V == {1} \cup {v(k) : k \in 1..Len(reads)}
           parts == CallsOf(object, reads)
           W == AddCalls(V, P)
<1>1. DOMAIN reads = 1..Len(reads) /\ Len(reads) \in Nat
  OBVIOUS
<1>2. ASSUME NEW k \in 1..Len(reads)
      PROVE  CallsFor(reads[k], v(k)) \in Seq(W)
  <2>1. reads[k] \in FieldsOf(P) /\ v(k) \in V /\ 1 \in V
    OBVIOUS
  <2>2. reads[k].kind = "name" => v(k) \in Int
    BY NameIsRead DEF ReadWith
  <2> DEFINE calls == CallsFor(reads[k], v(k))
  <2> HIDE DEF v, V
  <2>3. calls \in Seq(AddCalls(V, P)) /\ \A i \in 1..Len(calls) : calls[i].par \in P
    BY <2>1, <2>2, CallsForIn
  <2> QED BY <2>3 DEF calls
<1>3. parts = [k \in 1..Len(reads) |-> CallsFor(reads[k], v(k))]
  BY <1>1 DEF CallsOf
<1>4. AddsFor(object, reads) = FlattenSeq(parts)
  BY DEF AddsFor, CallsOf, ReadWith
<1>5. parts \in Seq(Seq(W))
  <2> HIDE DEF v, W, V, parts
  <2> QED BY <1>1, <1>2, <1>3
<1>6. FlattenSeq(parts) \in Seq(W)
  <2> HIDE DEF W, parts
  <2> QED BY <1>5, FlattenSeqOf
<1> HIDE DEF parts, V
<1> QED BY <1>4, <1>5, <1>6 DEF parts

-----------------------------------------------------------------------------
(* One object, and all of them.                                            *)

(* Of the calls those in front of the first that is refused are made: the  *)
(* first one, and all of them where none is refused.                       *)
Refuses(c, calls, k) ==
  \/ AddRefused(c, calls[k].par, calls[k].type, calls[k].size)
  \/ \E j \in 1..(k - 1) : calls[j].par = calls[k].par /\ calls[k].par \notin PT_TAB

LEMMA AddUntilRefusedIn ==
  ASSUME NEW V, NEW P, NEW c \in StoresOver(V), NEW calls \in Seq(AddCalls(V, P))
  PROVE  \E m \in 0..Len(calls) :
           /\ SubSeq(calls, 1, m) \in Seq(AddCalls(V, P))
           /\ AddUntilRefused(c, calls) = AddEach(c, SubSeq(calls, 1, m))
           /\ \A k \in 1..Len(calls) : (\A i \in 1..k : ~ Refuses(c, calls, i)) => k <= m
<1> DEFINE fails == {k \in DOMAIN calls :
                  \/ AddRefused(c, calls[k].par, calls[k].type, calls[k].size)
                  \/ \E j \in 1..(k - 1) : /\ calls[j].par = calls[k].par
                                          /\ calls[k].par \notin PT_TAB}
           good  == {n \in DOMAIN calls : \A k \in fails : n < k}
           N == Len(calls)
<1>1. DOMAIN calls = 1..N /\ N \in Nat
  OBVIOUS
<1>2. AddUntilRefused(c, calls) = AddEach(c, SubSeq(calls, 1, Cardinality(good)))
  BY DEF AddUntilRefused
<1>3. \A k \in fails : k \in 1..N /\ Refuses(c, calls, k)
  BY DEF Refuses
<1>4. good \in SUBSET (1..N) /\ \A n \in 1..N : (\A k \in fails : n < k) => n \in good
  BY <1>1
<1> HIDE DEF fails, good, N
<1>5. Cardinality(good) \in 0..N /\ IsFiniteSet(good)
  <2>1. IsFiniteSet(1..N) /\ Cardinality(1..N) = N
    BY <1>1, FS_Interval
  <2>2. IsFiniteSet(good) /\ Cardinality(good) \in Nat /\ Cardinality(good) <= N
    BY <1>4, <2>1, FS_Subset, FS_CardinalityType
  <2> QED BY <1>1, <2>2
<1>6. ASSUME NEW k \in 1..N, \A i \in 1..k : ~ Refuses(c, calls, i)
      PROVE  k <= Cardinality(good)
  <2>1. \A i \in fails : k < i
    BY <1>3, <1>6
  <2>2. 1..k \subseteq good
    <3> SUFFICES ASSUME NEW n \in 1..k PROVE n \in good
      OBVIOUS
    <3>1. n \in 1..N
      BY <1>1
    <3>2. \A i \in fails : n < i
      BY <1>3, <2>1
    <3> QED BY <1>4, <3>1, <3>2
  <2>3. IsFiniteSet(1..k) /\ Cardinality(1..k) = k /\ k \in Nat
    BY FS_Interval
  <2> QED BY <1>5, <2>2, <2>3, FS_Subset
<1>7. SubSeq(calls, 1, Cardinality(good)) \in Seq(AddCalls(V, P))
  <2> DEFINE m == Cardinality(good)
  <2>2. m \in 0..Len(calls)
    BY <1>5 DEF N
  <2> HIDE DEF m
  <2>3. SubSeq(calls, 1, m) \in Seq(AddCalls(V, P))
    BY <2>2
  <2> QED BY <2>3 DEF m
<1> QED BY <1>2, <1>5, <1>6, <1>7 DEF N

(* A field that is read into one slot. *)
Single(f, p) ==
  /\ f.pars = << p >> /\ f.kind # "pad" /\ f.kind # "flags"
  /\ HasType(p, AddType(f.kind)) /\ p \in Parameters /\ p \notin PT_TAB

CallOf(object, reads, k, p) ==
  Call(p, AddType(reads[k].kind), ReadWith(object, reads, k), reads[k].width)

LEMMA SingleCall ==
  ASSUME NEW object, Shaped(object), NEW P, NEW reads \in Seq(FieldsOf(P)),
         NEW k \in 1..Len(reads), NEW p, Single(reads[k], p)
  PROVE  CallsOf(object, reads)[k] = << CallOf(object, reads, k, p) >>
<1> DEFINE v == ReadWith(object, reads, k)
           f == reads[k]
           U == {1, v}
<1>1. k \in DOMAIN reads /\ f \in FieldsOf(P)
  OBVIOUS
<1>2. CallsOf(object, reads)[k] = CallsFor(f, v)
  BY <1>1 DEF CallsOf
<1>3. f.kind = "name" => v \in Int
  BY NameIsRead DEF ReadWith
<1>4. 1 \in U /\ v \in U
  OBVIOUS
<1>5. f.kind # "pad" /\ f.kind # "flags" /\ f.pars = << p >>
  BY DEF Single
<1>6. Len(f.pars) = 1 /\ \A i \in 1..1 : f.pars[i] = p
  BY <1>5
<1>b. f \in FieldsOf(P) /\ (f.kind = "name" => v \in Int) /\ f.kind # "pad" /\ f.kind # "flags"
  BY <1>1, <1>3, <1>5
<1> HIDE DEF v, f, U
<1>7. CallsFor(f, v) = [i \in 1..Len(f.pars) |-> Call(f.pars[i], AddType(f.kind), v, f.width)]
  BY <1>4, <1>b, CallsForIn
<1>8. CallsFor(f, v) = << Call(p, AddType(f.kind), v, f.width) >>
  BY <1>6, <1>7
<1> QED BY <1>2, <1>8 DEF f, v, CallOf

(* What a field gives are calls for its own parameters, none if it is      *)
(* padding.                                                                *)
OwnOnly(f, calls) ==
  /\ \A i \in 1..Len(calls) : \E t \in 1..Len(f.pars) : calls[i].par = f.pars[t]
  /\ f.kind = "pad" => calls = << >>

LEMMA OwnCalls ==
  ASSUME NEW object, Shaped(object), NEW P, NEW reads \in Seq(FieldsOf(P)),
         NEW k \in 1..Len(reads)
  PROVE  OwnOnly(reads[k], CallsOf(object, reads)[k])
<1> DEFINE v == ReadWith(object, reads, k)
           f == reads[k]
           U == {1, v}
           Q == {f.pars[t] : t \in 1..Len(f.pars)}
<1>1. k \in DOMAIN reads /\ f \in FieldsOf(P)
  OBVIOUS
<1>2. CallsOf(object, reads)[k] = CallsFor(f, v)
  BY <1>1 DEF CallsOf
<1>3. f.kind = "name" => v \in Int
  BY NameIsRead DEF ReadWith
<1>4. 1 \in U /\ v \in U
  OBVIOUS
<1>5. f.pars \in Seq(P) /\ f.kind \in Kinds /\ f.width \in Int /\ f.tag \in Int
      /\ f = [kind |-> f.kind, pars |-> f.pars, width |-> f.width, tag |-> f.tag]
  BY <1>1 DEF FieldsOf
<1>6. f.pars \in Seq(Q)
  BY <1>5
<1> HIDE DEF v, f, U, Q
<1>7. f \in FieldsOf(Q)
  BY <1>5, <1>6 DEF FieldsOf
<1>8. /\ \A i \in 1..Len(CallsFor(f, v)) : CallsFor(f, v)[i].par \in Q
      /\ f.kind = "pad" => CallsFor(f, v) = << >>
  BY <1>3, <1>4, <1>7, CallsForIn
<1> QED BY <1>2, <1>8 DEF f, v, Q, OwnOnly

(* The calls of add for an object: where those of each field are, and how  *)
(* many of them are made.                                                  *)
CallsMade(object, c, V, P, off, m) ==
  LET reads == ReadFields(object)
      calls == AddsFor(object, reads)
      made  == SubSeq(calls, 1, m)
  IN  /\ m \in 0..Len(calls) /\ calls \in Seq(AddCalls(V, P))
      /\ Placed(off, calls, CallsOf(object, reads))
      /\ made \in Seq(AddCalls(V, P)) /\ Len(made) = m
      /\ \A k \in 1..m : made[k] = calls[k] /\ k \in 1..Len(calls)
      /\ parse_object(c, object) = AddEach(c, made)
      /\ \A k \in 1..Len(calls) : (\A i \in 1..k : ~ Refuses(c, calls, i)) => k <= m

LEMMA ObjectCalls ==
  ASSUME NEW object, Shaped(object), NEW P, ReadFields(object) \in Seq(FieldsOf(P)),
         NEW V, NEW c \in StoresOver(V),
         AddsFor(object, ReadFields(object)) \in Seq(AddCalls(V, P)),
         CallsOf(object, ReadFields(object)) \in Seq(Seq(AddCalls(V, P)))
  PROVE  \E off, m : CallsMade(object, c, V, P, off, m)
<1> DEFINE reads == ReadFields(object)
           calls == AddsFor(object, reads)
           parts == CallsOf(object, reads)
<1>1. calls = FlattenSeq(parts)
  BY DEF AddsFor, CallsOf, ReadWith
<1>2. calls \in Seq(AddCalls(V, P)) /\ parts \in Seq(Seq(AddCalls(V, P)))
  OBVIOUS
<1>3. parse_object(c, object) = AddUntilRefused(c, calls)
  BY DEF parse_object
<1> HIDE DEF calls, parts
<1>4. PICK m \in 0..Len(calls) :
           /\ SubSeq(calls, 1, m) \in Seq(AddCalls(V, P))
           /\ AddUntilRefused(c, calls) = AddEach(c, SubSeq(calls, 1, m))
           /\ \A k \in 1..Len(calls) : (\A i \in 1..k : ~ Refuses(c, calls, i)) => k <= m
  BY <1>2, AddUntilRefusedIn
<1>5. PICK off : Placed(off, calls, parts)
  BY <1>1, <1>2, FlattenPlaces
<1> DEFINE made == SubSeq(calls, 1, m)
<1>6. Len(made) = m /\ \A k \in 1..m : made[k] = calls[k] /\ k \in 1..Len(calls)
  BY <1>2, <1>4
<1>7. CallsMade(object, c, V, P, off, m)
  BY <1>2, <1>3, <1>4, <1>5, <1>6 DEF CallsMade, calls, parts
<1> QED BY <1>7

(* The store c after the object has been read: what it had remains, and    *)
(* what the object cannot carry is not added.                              *)
LEMMA ObjectRead ==
  ASSUME NEW object, NEW V, NEW c \in StoresOver(V), NEW P, NEW off, NEW m,
         CallsMade(object, c, V, P, off, m)
  PROVE  /\ parse_object(c, object) \in StoresOver(V)
         /\ \A p \in Parameters :
              /\ c.data[p] # << >> => parse_object(c, object).data[p] # << >>
              /\ c.data[p] # << >> /\ p \notin PT_TAB =>
                   parse_object(c, object).data[p] = c.data[p]
              /\ p \notin P => parse_object(c, object).data[p] = c.data[p]
<1> DEFINE after == parse_object(c, object)
           made == SubSeq(AddsFor(object, ReadFields(object)), 1, m)
<1>1. made \in Seq(AddCalls(V, P)) /\ after = AddEach(c, made)
  BY DEF CallsMade
<1> HIDE DEF made, after
<1>2. after \in StoresOver(V)
  BY <1>1, AddEachIn
<1>3. ASSUME NEW p \in Parameters
      PROVE  /\ c.data[p] # << >> => after.data[p] # << >>
             /\ c.data[p] # << >> /\ p \notin PT_TAB => after.data[p] = c.data[p]
             /\ p \notin P => after.data[p] = c.data[p]
  <2>1. \A k \in 1..Len(made) : made[k].par \in P
    <3> TAKE k \in 1..Len(made)
    <3>1. made[k] \in AddCalls(V, P)
      BY <1>1
    <3> QED BY <3>1 DEF AddCalls
  <2>2. p \notin P => \A k \in 1..Len(made) : made[k].par # p
    BY <2>1
  <2> QED BY <1>1, <2>2, AddEachHas
<1> QED BY <1>2, <1>3 DEF after

(* A call with one place among the calls of the object. *)
HasPlace(object, reads, off, k, p) ==
  LET calls == AddsFor(object, reads)
      n     == off[k - 1] + 1
  IN  /\ off[k - 1] \in Nat /\ off[k] = n /\ n \in 1..Len(calls)
      /\ calls[n] = CallOf(object, reads, k, p)

LEMMA SinglePlace ==
  ASSUME NEW object, Shaped(object), NEW V, NEW c \in StoresOver(V), NEW P, NEW off, NEW m,
         CallsMade(object, c, V, P, off, m), NEW reads, reads = ReadFields(object),
         reads \in Seq(FieldsOf(P)), NEW k \in 1..Len(reads), NEW p, Single(reads[k], p)
  PROVE  HasPlace(object, reads, off, k, p)
<1> DEFINE parts == CallsOf(object, reads)
           calls == AddsFor(object, reads)
           call == CallOf(object, reads, k, p)
<1>1. parts[k] = << call >>
  BY SingleCall
<1>2. Placed(off, calls, parts) /\ DOMAIN parts = 1..Len(reads)
  BY DEF CallsMade, CallsOf
<1> HIDE DEF call, calls
<1>3. Len(parts) = Len(reads)
  BY <1>2 DEF CallsOf
<1> HIDE DEF parts
<1>4. Len(parts[k]) = 1 /\ 1 \in 1..Len(parts[k]) /\ parts[k][1] = call
  BY <1>1
<1>5. k \in 1..Len(parts) /\ k - 1 \in 0..Len(parts)
  BY <1>3
<1>6. /\ off[k - 1] \in Nat /\ off[k] = off[k - 1] + 1
      /\ off[k - 1] + 1 \in 1..Len(calls) /\ calls[off[k - 1] + 1] = call
  BY <1>2, <1>4, <1>5 DEF Placed
<1> QED BY <1>6 DEF call, calls, HasPlace

(* Every call belongs to one of the fields. *)
PlacedAll(object, reads, off) ==
  LET calls == AddsFor(object, reads)
  IN  /\ \A i \in 0..Len(reads), j \in 0..Len(reads) : i <= j => off[i] <= off[j]
      /\ \A k \in 1..Len(calls) : \E j \in 1..Len(reads) :
           /\ off[j - 1] \in Nat /\ off[j - 1] < k /\ k <= off[j] /\ reads[j].kind # "pad"
           /\ \E t \in 1..Len(reads[j].pars) : calls[k].par = reads[j].pars[t]

LEMMA PlaceOf ==
  ASSUME NEW object, Shaped(object), NEW V, NEW c \in StoresOver(V), NEW P, NEW off, NEW m,
         CallsMade(object, c, V, P, off, m), NEW reads, reads = ReadFields(object),
         reads \in Seq(FieldsOf(P)), CallsOf(object, reads) \in Seq(Seq(AddCalls(V, P)))
  PROVE  PlacedAll(object, reads, off)
<1> DEFINE parts == CallsOf(object, reads)
           calls == AddsFor(object, reads)
           N == Len(reads)
<1>1. Placed(off, calls, parts)
  BY DEF CallsMade
<1>2. parts \in Seq(Seq(AddCalls(V, P))) /\ DOMAIN parts = 1..N /\ N \in Nat
  BY DEF CallsOf
<1>a. \A j \in 1..N : OwnOnly(reads[j], parts[j])
  BY OwnCalls
<1>3. \A j \in 1..N : /\ \A i \in 1..Len(parts[j]) : \E t \in 1..Len(reads[j].pars) :
                           parts[j][i].par = reads[j].pars[t]
                      /\ reads[j].kind = "pad" => parts[j] = << >>
  BY <1>a DEF OwnOnly
<1> HIDE DEF parts, calls
<1>4. Len(parts) = N /\ \A k \in 1..N : Len(parts[k]) \in Nat
  BY <1>2
<1> HIDE DEF N
<1>5. /\ \A i \in 0..N, j \in 0..N : i <= j => off[i] <= off[j]
      /\ \A k \in 1..Len(calls) : \E j \in 1..N : off[j - 1] < k /\ k <= off[j]
  BY <1>1, <1>2, <1>4, PlacesInOrder
<1>6. ASSUME NEW k \in 1..Len(calls)
      PROVE  \E j \in 1..N :
               /\ off[j - 1] \in Nat /\ off[j - 1] < k /\ k <= off[j] /\ reads[j].kind # "pad"
               /\ \E t \in 1..Len(reads[j].pars) : calls[k].par = reads[j].pars[t]
  <2>1. PICK j \in 1..N : off[j - 1] < k /\ k <= off[j]
    BY <1>5
  <2>2. j - 1 \in 0..N /\ j \in 1..Len(parts) /\ Len(parts[j]) \in Nat
    BY <1>2, <1>4
  <2>3. off[j - 1] \in Nat /\ off[j] = off[j - 1] + Len(parts[j])
    BY <1>1, <1>4, <2>2 DEF Placed
  <2>4. k - off[j - 1] \in 1..Len(parts[j]) /\ off[j - 1] + (k - off[j - 1]) = k
    BY <2>1, <2>2, <2>3
  <2>5. calls[off[j - 1] + (k - off[j - 1])] = parts[j][k - off[j - 1]]
    BY <1>1, <2>2, <2>4 DEF Placed
  <2>6. calls[k] = parts[j][k - off[j - 1]]
    BY <2>4, <2>5
  <2>7. reads[j].kind # "pad"
    <3>1. Len(parts[j]) # 0
      BY <2>2, <2>4
    <3> QED BY <1>3, <3>1
  <2>8. \E t \in 1..Len(reads[j].pars) : parts[j][k - off[j - 1]].par = reads[j].pars[t]
    BY <1>3, <2>4
  <2> QED BY <2>1, <2>3, <2>6, <2>7, <2>8
<1> QED BY <1>5, <1>6 DEF N, calls, PlacedAll

LEMMA AddEachLeaves ==
  ASSUME NEW V, NEW c \in StoresOver(V), NEW P, NEW calls \in Seq(AddCalls(V, P)),
         NEW p \in Parameters
  PROVE  (\A k \in 1..Len(calls) : calls[k].par # p) => AddEach(c, calls).data[p] = c.data[p]
BY AddEachHas

LEMMA AddEachFills ==
  ASSUME NEW V, NEW c \in StoresOver(V), NEW P, NEW calls \in Seq(AddCalls(V, P)),
         NEW p \in Parameters, p \notin PT_TAB,
         NEW k \in 1..Len(calls), calls[k].par = p, HasType(p, calls[k].type)
  PROVE  AddEach(c, calls).data[p] # << >>
BY AddEachHas

LEMMA AddEachOnce ==
  ASSUME NEW V, NEW c \in StoresOver(V), NEW P, NEW calls \in Seq(AddCalls(V, P)),
         NEW p \in Parameters, p \notin PT_TAB, c.data[p] = << >>,
         NEW k \in 1..Len(calls), calls[k].par = p, HasType(p, calls[k].type),
         \A j \in 1..Len(calls) : calls[j].par = p => j = k
  PROVE  AddEach(c, calls).data[p] = << calls[k].val >>
BY AddEachHas

Carries(f, p) == \E t \in 1..Len(f.pars) : f.pars[t] = p

(* A field that is read is read behind those in front of it: the parameter *)
(* of a field that was absent and is present now comes with theirs.        *)
LEMMA ReadBefore ==
  ASSUME NEW object, Shaped(object), NEW V, NEW c \in StoresOver(V), NEW P, NEW off, NEW m,
         CallsMade(object, c, V, P, off, m), NEW reads, reads = ReadFields(object),
         reads \in Seq(FieldsOf(P)), CallsOf(object, reads) \in Seq(Seq(AddCalls(V, P))),
         NEW i \in 1..Len(reads), NEW j \in 1..Len(reads), i < j, NEW q, NEW p \in Parameters,
         Single(reads[i], q), \A k \in 1..Len(reads) : Carries(reads[k], p) => k = j,
         c.data[p] = << >>, parse_object(c, object).data[p] # << >>
  PROVE  parse_object(c, object).data[q] # << >>
<1> DEFINE calls == AddsFor(object, reads)
           made == SubSeq(calls, 1, m)
           after == parse_object(c, object)
           call == CallOf(object, reads, i, q)
<1>1. /\ m \in 0..Len(calls) /\ made \in Seq(AddCalls(V, P)) /\ Len(made) = m
      /\ \A k \in 1..m : made[k] = calls[k] /\ k \in 1..Len(calls)
      /\ after = AddEach(c, made)
  BY DEF CallsMade
<1>2. /\ \A k \in 0..Len(reads), l \in 0..Len(reads) : k <= l => off[k] <= off[l]
      /\ \A k \in 1..Len(calls) : \E l \in 1..Len(reads) :
           /\ off[l - 1] \in Nat /\ off[l - 1] < k /\ k <= off[l]
           /\ \E t \in 1..Len(reads[l].pars) : calls[k].par = reads[l].pars[t]
  <2>1. PlacedAll(object, reads, off)
    BY PlaceOf
  <2> QED BY <2>1 DEF PlacedAll
<1>3. /\ off[i - 1] \in Nat /\ off[i] = off[i - 1] + 1 /\ off[i - 1] + 1 \in 1..Len(calls)
      /\ calls[off[i - 1] + 1] = call
  <2>1. HasPlace(object, reads, off, i, q)
    BY SinglePlace
  <2> QED BY <2>1 DEF HasPlace
<1> HIDE DEF calls, made, after
<1>4. PICK k \in 1..Len(made) : made[k].par = p
  <2>1. AddEach(c, made).data[p] # c.data[p]
    BY <1>1 DEF after
  <2>2. (\A k \in 1..Len(made) : made[k].par # p) => AddEach(c, made).data[p] = c.data[p]
    <3>1. made \in Seq(AddCalls(V, P))
      BY <1>1
    <3> QED BY <3>1, AddEachLeaves
  <2> QED BY <2>1, <2>2
<1>5. PICK l \in 1..Len(reads) :
           /\ off[l - 1] \in Nat /\ off[l - 1] < k /\ k <= off[l]
           /\ \E t \in 1..Len(reads[l].pars) : calls[k].par = reads[l].pars[t]
  BY <1>1, <1>2
<1>6. l = j
  BY <1>1, <1>4, <1>5 DEF Carries
<1>7. off[i] <= off[j - 1]
  <2>1. Len(reads) \in Nat
    OBVIOUS
  <2>2. i \in 0..Len(reads) /\ j - 1 \in 0..Len(reads) /\ i <= j - 1
    BY <2>1
  <2> QED BY <1>2, <2>2
<1> DEFINE n == off[i - 1] + 1
<1>8. n \in 1..m
  <2>1. k \in Int /\ k <= m /\ m \in Int
    BY <1>1
  <2>2. off[j - 1] \in Nat /\ off[j - 1] < k
    BY <1>5, <1>6
  <2>3. off[i] = n /\ n \in Nat /\ 1 <= n
    BY <1>3
  <2> HIDE DEF n
  <2>4. n <= m
    BY <1>7, <2>1, <2>2, <2>3
  <2> QED BY <2>1, <2>3, <2>4
<1> HIDE DEF call
<1>9. made[n] = call /\ n \in 1..Len(made)
  <2>1. made[n] = calls[n]
    BY <1>1, <1>8
  <2>2. calls[n] = call
    BY <1>3
  <2> HIDE DEF n
  <2>3. n \in 1..Len(made)
    BY <1>1, <1>8
  <2> QED BY <2>1, <2>2, <2>3
<1>10. call.par = q /\ HasType(q, call.type) /\ q \notin PT_TAB /\ q \in Parameters
  BY DEF call, CallOf, Call, Single
<1> HIDE DEF n
<1> HIDE DEF made
<1>11. AddEach(c, made).data[q] # << >>
  <2>1. made \in Seq(AddCalls(V, P))
    BY <1>1
  <2>2. made[n].par = q /\ HasType(q, made[n].type)
    BY <1>9, <1>10
  <2> QED BY <1>9, <1>10, <2>1, <2>2, AddEachFills
<1> QED BY <1>1, <1>11 DEF after

(* An object whose fields are for one slot each, all different and absent  *)
(* so far, is read as a whole.                                             *)
Apart(reads) ==
  \A i, j \in 1..Len(reads) : \A p : Carries(reads[i], p) /\ Carries(reads[j], p) => i = j

NoneYet(reads, c) ==
  \A k \in 1..Len(reads) :
    reads[k].kind = "pad" \/ \E p : Single(reads[k], p) /\ c.data[p] = << >>

LEMMA ReadAll ==
  ASSUME NEW object, Shaped(object), NEW V, NEW c \in StoresOver(V), NEW P, NEW off, NEW m,
         CallsMade(object, c, V, P, off, m), NEW reads, reads = ReadFields(object),
         reads \in Seq(FieldsOf(P)), CallsOf(object, reads) \in Seq(Seq(AddCalls(V, P))),
         NoneYet(reads, c), Apart(reads), NEW k \in 1..Len(reads), NEW q, Single(reads[k], q)
  PROVE  parse_object(c, object).data[q] = << ReadWith(object, reads, k) >>
<1> DEFINE calls == AddsFor(object, reads)
           made == SubSeq(calls, 1, m)
           after == parse_object(c, object)
           At(n, j) == /\ off[j - 1] \in Nat /\ off[j - 1] < n /\ n <= off[j]
                       /\ reads[j].kind # "pad"
                       /\ \E t \in 1..Len(reads[j].pars) : calls[n].par = reads[j].pars[t]
<1>1. /\ m \in 0..Len(calls) /\ made \in Seq(AddCalls(V, P)) /\ Len(made) = m
      /\ calls \in Seq(AddCalls(V, P))
      /\ \A n \in 1..m : made[n] = calls[n] /\ n \in 1..Len(calls)
      /\ after = AddEach(c, made)
      /\ \A n \in 1..Len(calls) : (\A i \in 1..n : ~ Refuses(c, calls, i)) => n <= m
  BY DEF CallsMade
<1>2. \A n \in 1..Len(calls) : \E j \in 1..Len(reads) : At(n, j)
  <2>1. PlacedAll(object, reads, off)
    BY PlaceOf
  <2> QED BY <2>1 DEF PlacedAll
<1> DEFINE Here(j, p) ==
             /\ off[j - 1] \in Nat /\ off[j] = off[j - 1] + 1 /\ off[j - 1] + 1 \in 1..Len(calls)
             /\ calls[off[j - 1] + 1] = CallOf(object, reads, j, p)
<1>3. ASSUME NEW j \in 1..Len(reads), NEW p, Single(reads[j], p) PROVE Here(j, p)
  <2>1. HasPlace(object, reads, off, j, p)
    BY <1>3, SinglePlace
  <2> QED BY <2>1 DEF HasPlace
<1> HIDE DEF calls, made, after
<1>4. ASSUME NEW n \in 1..Len(calls)
      PROVE  \E j \in 1..Len(reads) : \E p :
               n = off[j - 1] + 1 /\ Single(reads[j], p) /\ c.data[p] = << >> /\ Here(j, p)
  <2>1. PICK j \in 1..Len(reads) : At(n, j)
    BY <1>2
  <2>2. PICK p : Single(reads[j], p) /\ c.data[p] = << >>
    BY <2>1 DEF NoneYet
  <2>3. Here(j, p)
    BY <1>3, <2>2
  <2>4. n = off[j - 1] + 1
    BY <2>1, <2>3
  <2> HIDE DEF Here, At
  <2> QED BY <2>2, <2>3, <2>4
<1>5. ASSUME NEW j \in 1..Len(reads), NEW p, Single(reads[j], p) PROVE Carries(reads[j], p)
  <2>1. reads[j].pars = << p >>
    BY <1>5 DEF Single
  <2>2. 1 \in 1..Len(reads[j].pars) /\ reads[j].pars[1] = p
    BY <2>1
  <2> QED BY <2>2 DEF Carries
<1>6. ASSUME NEW n \in 1..Len(calls) PROVE ~ Refuses(c, calls, n)
  <2> HIDE DEF Here
  <2>0. PICK j \in 1..Len(reads) : \E p :
             n = off[j - 1] + 1 /\ Single(reads[j], p) /\ c.data[p] = << >> /\ Here(j, p)
    BY <1>4
  <2>1. PICK p : n = off[j - 1] + 1 /\ Single(reads[j], p) /\ c.data[p] = << >> /\ Here(j, p)
    BY <2>0
  <2> USE DEF Here
  <2>2. calls[n].par = p /\ HasType(p, calls[n].type) /\ p \notin PT_TAB /\ p \in Parameters
    BY <2>1 DEF CallOf, Call, Single
  <2>3. ~ AddRefused(c, calls[n].par, calls[n].type, calls[n].size)
    BY <2>1, <2>2, PresentIn DEF AddRefused
  <2>4. ASSUME NEW o \in 1..(n - 1), calls[o].par = p PROVE FALSE
    <3>1. o \in 1..Len(calls)
      OBVIOUS
    <3> HIDE DEF Here
    <3>a. PICK i \in 1..Len(reads) : \E r :
               o = off[i - 1] + 1 /\ Single(reads[i], r) /\ c.data[r] = << >> /\ Here(i, r)
      BY <1>4, <3>1
    <3>2. PICK r : o = off[i - 1] + 1 /\ Single(reads[i], r) /\ c.data[r] = << >> /\ Here(i, r)
      BY <3>a
    <3> USE DEF Here
    <3>3. r = p
      BY <2>4, <3>2 DEF CallOf, Call
    <3>4. Carries(reads[i], p) /\ Carries(reads[j], p)
      <4> HIDE DEF Here
      <4> QED BY <1>5, <2>1, <3>2, <3>3
    <3>5. i = j
      BY <3>4 DEF Apart
    <3> HIDE DEF Here
    <3>6. o = n
      BY <2>1, <3>2, <3>5
    <3> QED BY <3>6
  <2> QED BY <2>2, <2>3, <2>4 DEF Refuses
<1>7. m = Len(calls)
  <2>0. Len(calls) \in Nat
    BY <1>1
  <2>1. CASE Len(calls) = 0
    BY <1>1, <2>1
  <2>2. CASE Len(calls) # 0
    <3>1. Len(calls) \in 1..Len(calls)
      BY <2>0, <2>2
    <3>2. \A i \in 1..Len(calls) : ~ Refuses(c, calls, i)
      BY <1>6
    <3>3. Len(calls) <= m
      BY <1>1, <3>1, <3>2
    <3> QED BY <1>1, <2>0, <3>3
  <2> QED BY <2>1, <2>2
<1> DEFINE n == off[k - 1] + 1
           v == ReadWith(object, reads, k)
<1>8. Here(k, q)
  BY <1>3
<1>9. n \in 1..Len(made) /\ made[n] = CallOf(object, reads, k, q)
  BY <1>1, <1>7, <1>8
<1>10. ASSUME NEW o \in 1..Len(made), made[o].par = q PROVE o = n
  <2>1. o \in 1..Len(calls) /\ calls[o].par = q
    BY <1>1, <1>10
  <2> HIDE DEF Here
  <2>a. PICK i \in 1..Len(reads) : \E r :
             o = off[i - 1] + 1 /\ Single(reads[i], r) /\ c.data[r] = << >> /\ Here(i, r)
    BY <1>4, <2>1
  <2>2. PICK r : o = off[i - 1] + 1 /\ Single(reads[i], r) /\ c.data[r] = << >> /\ Here(i, r)
    BY <2>a
  <2> USE DEF Here
  <2>3. r = q
    BY <2>1, <2>2 DEF CallOf, Call
  <2>4. Carries(reads[i], q) /\ Carries(reads[k], q)
    <3> HIDE DEF Here
    <3> QED BY <1>5, <2>2, <2>3
  <2>5. i = k
    BY <2>4 DEF Apart
  <2> HIDE DEF Here
  <2> QED BY <2>2, <2>5
<1> HIDE DEF n, v, Here
<1>11. c.data[q] = << >> /\ q \in Parameters /\ q \notin PT_TAB
  <2>1. PICK p : Single(reads[k], p) /\ c.data[p] = << >>
    BY DEF NoneYet, Single
  <2> QED BY <2>1 DEF Single
<1>12. made[n].par = q /\ HasType(q, made[n].type) /\ made[n].val = v
  BY <1>9 DEF CallOf, Call, Single, v
<1>13. AddEach(c, made).data[q] = << made[n].val >>
  <2>1. made \in Seq(AddCalls(V, P)) /\ n \in 1..Len(made)
    BY <1>1, <1>9
  <2>2. \A o \in 1..Len(made) : made[o].par = q => o = n
    BY <1>10
  <2> QED BY <1>11, <1>12, <2>1, <2>2, AddEachOnce
<1> QED BY <1>1, <1>12, <1>13 DEF after, v

ShapedWire(wire) ==
  /\ \E n \in Nat : DOMAIN wire = 1..n
  /\ \A k \in DOMAIN wire : Shaped(wire[k])

(* One object after the other: the stores in between. *)
Reading(wire, N, V, f) ==
  /\ f[0] = Empty /\ f[N] = parse_data(wire)
  /\ \A n \in 0..N : f[n] \in StoresOver(V)
  /\ \A n \in 0..(N - 1) : f[n + 1] = parse_object(f[n], wire[n + 1])
  /\ \A k \in 1..N :
       LET P == MayCarry(wire[k].class)
           reads == ReadFields(wire[k])
       IN  /\ Shaped(wire[k]) /\ reads \in Seq(FieldsOf(P))
           /\ AddsFor(wire[k], reads) \in Seq(AddCalls(V, P))
           /\ CallsOf(wire[k], reads) \in Seq(Seq(AddCalls(V, P)))

(* Calls with values of some V_k each are calls with values of all of them.*)
LEMMA MoreCalls ==
  ASSUME NEW V, NEW W, NEW P, V \subseteq W
  PROVE  /\ Seq(AddCalls(V, P)) \subseteq Seq(AddCalls(W, P))
         /\ Seq(Seq(AddCalls(V, P))) \subseteq Seq(Seq(AddCalls(W, P)))
<1> DEFINE A == AddCalls(V, P)
           B == AddCalls(W, P)
<1>1. A \subseteq B
  BY DEF AddCalls
<1> HIDE DEF A, B
<1>2. Seq(A) \subseteq Seq(B)
  BY <1>1
<1> DEFINE SA == Seq(A)
           SB == Seq(B)
<1>3. SA \subseteq SB
  BY <1>2
<1>4. Seq(SA) \subseteq Seq(SB)
  <2> HIDE DEF SA, SB
  <2> QED BY <1>3
<1> QED BY <1>2, <1>4 DEF A, B

LEMMA ParsedInTurn ==
  ASSUME NEW wire, ShapedWire(wire), NEW N \in Nat, DOMAIN wire = 1..N
  PROVE  \E V, f : Reading(wire, N, V, f)
<1> DEFINE Fit(k, U) == LET P == MayCarry(wire[k].class)
                            reads == ReadFields(wire[k])
                        IN  /\ AddsFor(wire[k], reads) \in Seq(AddCalls(U, P))
                            /\ CallsOf(wire[k], reads) \in Seq(Seq(AddCalls(U, P)))
           vals(k) == CHOOSE U : Fit(k, U)
           V == UNION {vals(k) : k \in 1..N}
           D == StoresOver(V)
<1>1. ASSUME NEW k \in 1..N
      PROVE  Shaped(wire[k]) /\ ReadFields(wire[k]) \in Seq(FieldsOf(MayCarry(wire[k].class)))
  <2>1. Shaped(wire[k])
    BY DEF ShapedWire
  <2> QED BY <2>1, ReadFieldsIn
<1>2. ASSUME NEW k \in 1..N PROVE Fit(k, V)
  <2> DEFINE P == MayCarry(wire[k].class)
             reads == ReadFields(wire[k])
  <2>1. \E U : Fit(k, U)
    <3>1. Shaped(wire[k]) /\ reads \in Seq(FieldsOf(P))
      BY <1>1
    <3> HIDE DEF reads, P
    <3>2. \E U : /\ AddsFor(wire[k], reads) \in Seq(AddCalls(U, P))
                 /\ CallsOf(wire[k], reads) \in Seq(Seq(AddCalls(U, P)))
      BY <3>1, AddsForIn
    <3> QED BY <3>2 DEF reads, P
  <2>2. Fit(k, vals(k))
    <3> HIDE DEF Fit
    <3> QED BY <2>1
  <2>3. vals(k) \subseteq V
    <3> HIDE DEF vals
    <3> QED OBVIOUS
  <2> HIDE DEF vals, V
  <2>4. /\ Seq(AddCalls(vals(k), P)) \subseteq Seq(AddCalls(V, P))
        /\ Seq(Seq(AddCalls(vals(k), P))) \subseteq Seq(Seq(AddCalls(V, P)))
    <3> HIDE DEF P
    <3> QED BY <2>3, MoreCalls
  <2> QED BY <2>2, <2>4
<1> HIDE DEF V, vals
<1>3. ASSUME NEW k \in 1..N, NEW c \in D PROVE parse_object(c, wire[k]) \in D
  <2> DEFINE P == MayCarry(wire[k].class)
  <2>1. PICK off, m : CallsMade(wire[k], c, V, P, off, m)
    <3>1. Shaped(wire[k]) /\ ReadFields(wire[k]) \in Seq(FieldsOf(P)) /\ Fit(k, V)
      BY <1>1, <1>2
    <3> QED BY <3>1, ObjectCalls
  <2> HIDE DEF P
  <2> QED BY <2>1, ObjectRead
<1>4. Empty \in D
  <2>2. {} \subseteq V
    OBVIOUS
  <2>3. Empty \in StoresOver({})
    BY EmptyHasNone
  <2> QED BY <2>2, <2>3, MoreValues
<1> HIDE DEF D, Fit
<1> DEFINE step == [x \in D \X (1..N) |-> parse_object(x[1], wire[x[2]])]
           iter == CHOOSE g : g = [s \in SUBSET (1..N) |->
                     IF s = {} THEN Empty
                     ELSE parse_object(g[s \ {Max(s)}], wire[Max(s)])]
<1>5. step \in [D \X (1..N) -> D]
  BY <1>3
<1>6. \A c \in D, k \in 1..N : step[<< c, k >>] = parse_object(c, wire[k])
  OBVIOUS
<1> HIDE DEF step
<1>7. \E g : g = [s \in SUBSET (1..N) |->
                     IF s = {} THEN Empty
                     ELSE parse_object(g[s \ {Max(s)}], wire[Max(s)])]
  <2>a. PICK g : FoldOf(g, D, Empty, N, step)
    BY <1>4, <1>5, FoldExists
  <2>1. /\ g \in [SUBSET (1..N) -> D]
        /\ \A s \in SUBSET (1..N) :
             g[s] = IF s = {} THEN Empty ELSE step[<< g[s \ {Max(s)}], Max(s) >>]
    BY <2>a DEF FoldOf
  <2>2. \A s \in SUBSET (1..N) :
           g[s] = IF s = {} THEN Empty ELSE parse_object(g[s \ {Max(s)}], wire[Max(s)])
    <3> TAKE s \in SUBSET (1..N)
    <3>1. CASE s = {}
      BY <2>1, <3>1
    <3>2. CASE s # {}
      <4>1. Max(s) \in 1..N /\ g[s \ {Max(s)}] \in D
        <5>1. Max(s) \in s
          BY <3>2, LargestIn
        <5>2. s \ {Max(s)} \in SUBSET (1..N)
          OBVIOUS
        <5> QED BY <2>1, <5>1, <5>2
      <4>2. g[s] = step[<< g[s \ {Max(s)}], Max(s) >>]
        BY <2>1, <3>2
      <4> QED BY <1>6, <3>2, <4>1, <4>2
    <3> QED BY <3>1, <3>2
  <2> QED BY <2>1, <2>2
<1>8. iter = [s \in SUBSET (1..N) |->
                     IF s = {} THEN Empty
                     ELSE parse_object(iter[s \ {Max(s)}], wire[Max(s)])]
  BY <1>7
<1>9. parse_data(wire) = iter[1..N]
  <2> HIDE DEF iter
  <2> QED BY DEF iter, parse_data, FoldLeft, MapThenFoldSet
<1> HIDE DEF iter
<1>10. iter[{}] = Empty
  <2>1. {} \in SUBSET (1..N)
    OBVIOUS
  <2> QED BY <1>8, <2>1
<1>11. \A s \in SUBSET (1..N) :
         s # {} /\ iter[s \ {Max(s)}] \in D => iter[s] = step[<< iter[s \ {Max(s)}], Max(s) >>]
  <2> TAKE s \in SUBSET (1..N)
  <2> SUFFICES ASSUME s # {}, iter[s \ {Max(s)}] \in D
               PROVE  iter[s] = step[<< iter[s \ {Max(s)}], Max(s) >>]
    OBVIOUS
  <2>1. Max(s) \in 1..N
    <3>1. Max(s) \in s
      BY LargestIn
    <3> QED BY <3>1
  <2>2. iter[s] = parse_object(iter[s \ {Max(s)}], wire[Max(s)])
    BY <1>8
  <2> QED BY <1>6, <2>1, <2>2
<1>12. /\ \A n \in 0..N : iter[1..n] \in D
       /\ iter[1..0] = Empty
       /\ \A n \in 0..(N - 1) : iter[1..(n + 1)] = step[<< iter[1..n], n + 1 >>]
  <2>1. FoldsBy(iter, D, Empty, N, step)
    BY <1>10, <1>11 DEF FoldsBy
  <2>2. InTurn(iter, D, Empty, N, step)
    BY <1>4, <1>5, <2>1, FoldSteps
  <2> QED BY <2>2 DEF InTurn
<1> DEFINE f == [n \in 0..N |-> iter[1..n]]
<1>13. \A n \in 0..N : f[n] = iter[1..n] /\ f[n] \in D
  BY <1>12
<1>14. f[0] = Empty /\ f[N] = parse_data(wire)
  BY <1>9, <1>12, <1>13
<1>15. \A n \in 0..(N - 1) : f[n + 1] = parse_object(f[n], wire[n + 1])
  <2> TAKE n \in 0..(N - 1)
  <2>1. n \in 0..N /\ n + 1 \in 0..N /\ n + 1 \in 1..N
    OBVIOUS
  <2>2. f[n] = iter[1..n] /\ f[n + 1] = iter[1..(n + 1)] /\ iter[1..n] \in D
    BY <1>13, <2>1
  <2>3. iter[1..(n + 1)] = step[<< iter[1..n], n + 1 >>]
    BY <1>12
  <2> HIDE DEF f
  <2> QED BY <1>6, <2>1, <2>2, <2>3
<1> HIDE DEF f
<1>16. Reading(wire, N, V, f)
  BY <1>1, <1>2, <1>13, <1>14, <1>15 DEF Reading, Fit, D
<1> QED BY <1>16

-----------------------------------------------------------------------------
(* What a whole message gives.                                             *)

(* One object of the message, from the store in front of it.               *)
OneRead(wire, V, f, n, off, m) ==
  /\ f[n] \in StoresOver(V) /\ f[n + 1] = parse_object(f[n], wire[n + 1])
  /\ f[n + 1] \in StoresOver(V) /\ Shaped(wire[n + 1])
  /\ ReadFields(wire[n + 1]) \in Seq(FieldsOf(MayCarry(wire[n + 1].class)))
  /\ CallsOf(wire[n + 1], ReadFields(wire[n + 1])) \in
       Seq(Seq(AddCalls(V, MayCarry(wire[n + 1].class))))
  /\ CallsMade(wire[n + 1], f[n], V, MayCarry(wire[n + 1].class), off, m)

LEMMA ReadingStep ==
  ASSUME NEW wire, NEW N \in Nat, NEW V, NEW f, Reading(wire, N, V, f), NEW n \in 0..(N - 1)
  PROVE  \E off, m : OneRead(wire, V, f, n, off, m)
<1> DEFINE object == wire[n + 1]
           P == MayCarry(object.class)
<1>0. n \in 0..N /\ n + 1 \in 0..N /\ n + 1 \in 1..N
  OBVIOUS
<1>1. /\ f[n] \in StoresOver(V) /\ f[n + 1] \in StoresOver(V) /\ f[n + 1] = parse_object(f[n], object)
      /\ Shaped(object) /\ ReadFields(object) \in Seq(FieldsOf(P))
      /\ AddsFor(object, ReadFields(object)) \in Seq(AddCalls(V, P))
      /\ CallsOf(object, ReadFields(object)) \in Seq(Seq(AddCalls(V, P)))
  BY <1>0 DEF Reading
<1>2. PICK off, m : CallsMade(object, f[n], V, P, off, m)
  <2> HIDE DEF object, P
  <2> QED BY <1>1, ObjectCalls
<1>3. OneRead(wire, V, f, n, off, m)
  BY <1>1, <1>2 DEF OneRead
<1> QED BY <1>3

(* What every object leaves in the set S is there in the end.              *)
LEMMA ReadingKeeps ==
  ASSUME NEW wire, NEW N \in Nat, NEW V, NEW f, Reading(wire, N, V, f), NEW S,
         NEW k \in 0..N, f[k] \in S, \A n \in k..(N - 1) : f[n] \in S => f[n + 1] \in S
  PROVE  parse_data(wire) \in S
<1> DEFINE T == {n \in 0..(N - k) : f[k + n] \in S}
<1>1. 0 \in T
  OBVIOUS
<1>2. ASSUME NEW n \in 0..((N - k) - 1), n \in T PROVE n + 1 \in T
  <2>1. k + n \in k..(N - 1) /\ (k + n) + 1 = k + (n + 1) /\ n + 1 \in 0..(N - k)
    OBVIOUS
  <2>2. f[(k + n) + 1] \in S
    BY <1>2, <2>1
  <2> QED BY <2>1, <2>2
<1>3. N - k \in Nat /\ N - k \in 0..(N - k) /\ k + (N - k) = N
  OBVIOUS
<1>4. 0..(N - k) \subseteq T
  <2> HIDE DEF T
  <2> QED BY <1>1, <1>2, <1>3, UpTo
<1>5. f[k + (N - k)] \in S
  BY <1>3, <1>4
<1> QED BY <1>3, <1>5 DEF Reading

LEMMA Readings ==
  ASSUME NEW wire, ShapedWire(wire)
  PROVE  \E N \in Nat : \E V, f : DOMAIN wire = 1..N /\ Reading(wire, N, V, f)
<1>1. PICK N \in Nat : DOMAIN wire = 1..N
  BY DEF ShapedWire
<1> QED BY <1>1, ParsedInTurn

(* Whatever a message holds, what parse_data makes of it is a store whose  *)
(* slots fit their types, as long as its objects are shaped as the agent   *)
(* expects them.                                                           *)
THEOREM ParsedGood ==
  ASSUME NEW wire, ShapedWire(wire)
  PROVE  Good(parse_data(wire))
<1>r. PICK N \in Nat : \E V, f : DOMAIN wire = 1..N /\ Reading(wire, N, V, f)
  BY Readings
<1>1. PICK V, f : DOMAIN wire = 1..N /\ Reading(wire, N, V, f)
  BY <1>r
<1>2. N \in 0..N
  OBVIOUS
<1> QED BY <1>1, <1>2 DEF Reading, Good

(* What no object can carry is not in what is read.                        *)
LEMMA ParsedAbsent ==
  ASSUME NEW wire, ShapedWire(wire), NEW p \in Parameters,
         \A k \in DOMAIN wire : p \notin MayCarry(wire[k].class)
  PROVE  parse_data(wire).data[p] = << >>
<1>r. PICK N \in Nat : \E V, f : DOMAIN wire = 1..N /\ Reading(wire, N, V, f)
  BY Readings
<1>1. PICK V, f : DOMAIN wire = 1..N /\ Reading(wire, N, V, f)
  BY <1>r
<1> DEFINE S == {c \in StoresOver(V) : c.data[p] = << >>}
<1>2. f[0] \in S /\ 0 \in 0..N
  <2>1. 0 \in 0..N
    OBVIOUS
  <2>2. f[0] = Empty /\ f[0] \in StoresOver(V)
    BY <1>1, <2>1 DEF Reading
  <2>3. Empty.data[p] = << >>
    BY DEF Empty
  <2> QED BY <2>1, <2>2, <2>3
<1>3. ASSUME NEW n \in 0..(N - 1), f[n] \in S PROVE f[n + 1] \in S
  <2>1. PICK off, m : OneRead(wire, V, f, n, off, m)
    BY <1>1, ReadingStep
  <2>2. p \notin MayCarry(wire[n + 1].class)
    <3>1. n + 1 \in 1..N
      OBVIOUS
    <3> QED BY <1>1, <3>1
  <2> DEFINE object == wire[n + 1]
             P == MayCarry(object.class)
             c == f[n]
  <2>3. /\ CallsMade(object, c, V, P, off, m) /\ c \in StoresOver(V)
        /\ f[n + 1] = parse_object(c, object) /\ f[n + 1] \in StoresOver(V)
    BY <2>1 DEF OneRead
  <2> HIDE DEF object, P, c
  <2>4. p \notin P => parse_object(c, object).data[p] = c.data[p]
    BY <2>3, ObjectRead
  <2> QED BY <1>3, <2>2, <2>3, <2>4 DEF P, c, object
<1> HIDE DEF S
<1>4. parse_data(wire) \in S
  <2>1. \A n \in 0..(N - 1) : f[n] \in S => f[n + 1] \in S
    BY <1>3
  <2> QED BY <1>1, <1>2, <2>1, ReadingKeeps
<1> QED BY <1>4 DEF S

(* The parameter of the first field is there once the object is read.      *)
LEMMA FirstRead ==
  ASSUME NEW object, Shaped(object), NEW V, NEW c \in StoresOver(V), NEW P, NEW off, NEW m,
         CallsMade(object, c, V, P, off, m), NEW reads, reads = ReadFields(object),
         reads \in Seq(FieldsOf(P)), reads # << >>, NEW p, Single(reads[1], p)
  PROVE  parse_object(c, object).data[p] # << >>
<1> DEFINE calls == AddsFor(object, reads)
           made == SubSeq(calls, 1, m)
           after == parse_object(c, object)
           call == CallOf(object, reads, 1, p)
<1>1. /\ made \in Seq(AddCalls(V, P)) /\ Len(made) = m /\ m \in 0..Len(calls)
      /\ \A n \in 1..m : made[n] = calls[n]
      /\ after = AddEach(c, made)
      /\ \A n \in 1..Len(calls) : (\A i \in 1..n : ~ Refuses(c, calls, i)) => n <= m
      /\ off[0] = 0
  BY DEF CallsMade, Placed
<1>2. 1 \in 1..Len(calls) /\ calls[1] = call
  <2>1. 1 \in 1..Len(reads)
    OBVIOUS
  <2>2. HasPlace(object, reads, off, 1, p)
    BY <2>1, SinglePlace
  <2>3. 1 - 1 = 0 /\ 0 + 1 = 1
    OBVIOUS
  <2> HIDE DEF calls, call
  <2> QED BY <1>1, <2>2, <2>3 DEF HasPlace, calls, call
<1> HIDE DEF calls, made, after
<1>3. call.par = p /\ HasType(p, call.type) /\ p \notin PT_TAB /\ p \in Parameters
  BY DEF CallOf, Call, Single
<1> HIDE DEF call
<1>4. CASE c.data[p] # << >>
  <2>1. c.data[p] # << >> => parse_object(c, object).data[p] # << >>
    BY <1>3, ObjectRead
  <2> QED BY <1>4, <2>1
<1>5. CASE c.data[p] = << >>
  <2>1. ~ AddRefused(c, p, call.type, call.size)
    BY <1>3, <1>5, PresentIn DEF AddRefused
  <2>2. \A i \in 1..1 : ~ Refuses(c, calls, i)
    BY <1>2, <1>3, <2>1 DEF Refuses
  <2>3. 1 \in 1..Len(made) /\ made[1] = call
    BY <1>1, <1>2, <2>2
  <2>4. AddEach(c, made).data[p] # << >>
    BY <1>1, <1>3, <2>3, AddEachHas
  <2> QED BY <1>1, <2>4 DEF after
<1> QED BY <1>4, <1>5

LEMMA ParsedPresent ==
  ASSUME NEW wire, ShapedWire(wire), NEW k \in DOMAIN wire,
         ReadFields(wire[k]) # << >>, NEW p, Single(ReadFields(wire[k])[1], p)
  PROVE  parse_data(wire).data[p] # << >>
<1>r. PICK N \in Nat : \E V, f : DOMAIN wire = 1..N /\ Reading(wire, N, V, f)
  BY Readings
<1>1. PICK V, f : DOMAIN wire = 1..N /\ Reading(wire, N, V, f)
  BY <1>r
<1> DEFINE S == {c \in StoresOver(V) : c.data[p] # << >>}
<1>a. p \in Parameters
  BY DEF Single
<1>2. ASSUME NEW n \in 0..(N - 1), f[n] \in S \/ n + 1 = k PROVE f[n + 1] \in S
  <2>1. PICK off, m : OneRead(wire, V, f, n, off, m)
    BY <1>1, ReadingStep
  <2> DEFINE object == wire[n + 1]
             P == MayCarry(object.class)
             c == f[n]
             reads == ReadFields(object)
  <2>2. /\ CallsMade(object, c, V, P, off, m) /\ c \in StoresOver(V) /\ Shaped(object)
        /\ f[n + 1] = parse_object(c, object) /\ f[n + 1] \in StoresOver(V)
        /\ reads \in Seq(FieldsOf(P))
    BY <2>1 DEF OneRead
  <2>3. n + 1 = k => reads # << >> /\ Single(reads[1], p)
    OBVIOUS
  <2>4. n + 1 # k => c.data[p] # << >>
    BY <1>2
  <2>5. reads = ReadFields(object)
    OBVIOUS
  <2> HIDE DEF object, P, c, reads
  <2>6. CASE n + 1 = k
    <3>1. reads # << >> /\ Single(reads[1], p)
      BY <2>3, <2>6
    <3>2. parse_object(c, object).data[p] # << >>
      BY <2>2, <2>5, <3>1, FirstRead
    <3> QED BY <2>2, <3>2
  <2>7. CASE n + 1 # k
    <3>1. c.data[p] # << >> => parse_object(c, object).data[p] # << >>
      BY <1>a, <2>2, ObjectRead
    <3> QED BY <2>2, <2>4, <2>7, <3>1
  <2> QED BY <2>6, <2>7
<1>3. k \in 0..N /\ k - 1 \in 0..(N - 1) /\ (k - 1) + 1 = k
  BY <1>1
<1>4. f[k] \in S
  <2>1. f[(k - 1) + 1] \in S
    <3> HIDE DEF S
    <3> QED BY <1>2, <1>3
  <2> QED BY <1>3, <2>1
<1>5. \A n \in k..(N - 1) : f[n] \in S => f[n + 1] \in S
  <2> HIDE DEF S
  <2>1. \A n \in k..(N - 1) : n \in 0..(N - 1)
    BY <1>3
  <2> QED BY <1>2, <2>1
<1> HIDE DEF S
<1>6. parse_data(wire) \in S
  BY <1>1, <1>3, <1>4, <1>5, ReadingKeeps
<1> QED BY <1>6 DEF S

(* The classes that carry what names the sender, the label and the         *)
(* bandwidth.                                                              *)
LEMMA Carriers ==
  ASSUME NEW class \in WireClasses
  PROVE  /\ "SENDER_SRC_ADDR" \in MayCarry(class) \/ "SENDER_SRC_ID" \in MayCarry(class) =>
              class = "SENDER_TEMPLATE"
         /\ "LABEL" \in MayCarry(class) => class = "GENERALIZED_LABEL"
         /\ (\E p \in EthernetBandwidth : p \in MayCarry(class)) =>
              class \in {"ETHERNET_FLOWSPEC", "ETHERNET_SENDER_TSPEC"}
BY WireClassList DEF MayCarry, Beyond, requirements, WireClasses, Classes, TokenBucket, Sonet,
                     EthernetBandwidth, EthernetLink, SessionId, MessageId, LocalCallId, StyleFlags

LEMMA SlotsOfSender ==
  LET reads == << Addr("SENDER_SRC_ADDR"), Pad(2), Short("SENDER_SRC_ID") >>
  IN  /\ Len(reads) = 3 /\ reads[2].kind = "pad" /\ reads[2].pars = << >>
      /\ Single(reads[1], "SENDER_SRC_ADDR") /\ Single(reads[3], "SENDER_SRC_ID")
BY DEF Addr, Short, Pad, Field, Single, HasType, AddType, Parameters, PT_UI, PT_US, PT_TAB

LEMMA ParsedSender ==
  ASSUME NEW wire, ShapedWire(wire), NEW k \in DOMAIN wire, wire[k].class = "SENDER_TEMPLATE"
  PROVE  /\ parse_data(wire).data["SENDER_SRC_ADDR"] # << >>
         /\ parse_data(wire).data["SENDER_SRC_ID"] # << >>
<1> DEFINE p == "SENDER_SRC_ADDR"
           q == "SENDER_SRC_ID"
           slots == << Addr(p), Pad(2), Short(q) >>
<1>r. PICK N \in Nat : \E V, f : DOMAIN wire = 1..N /\ Reading(wire, N, V, f)
  BY Readings
<1>1. PICK V, f : DOMAIN wire = 1..N /\ Reading(wire, N, V, f)
  BY <1>r
<1>2. /\ p \in Parameters /\ q \in Parameters /\ p # q
      /\ Len(slots) = 3 /\ slots[2].kind = "pad" /\ slots[2].pars = << >>
      /\ Single(slots[1], p) /\ Single(slots[3], q)
  BY SlotsOfSender DEF Single
<1>3. slots # << >> /\ slots[1].pars = << p >> /\ slots[3].pars = << q >>
  BY <1>2 DEF Single
<1>4. ASSUME NEW object, object.class = "SENDER_TEMPLATE" PROVE ReadFields(object) = slots
  BY <1>4 DEF ReadFields, ReadSenderAndFilter
<1> DEFINE S == {c \in StoresOver(V) : c.data[p] # << >> <=> c.data[q] # << >>}
<1> HIDE DEF p, q, slots
<1>5. f[0] \in S /\ 0 \in 0..N
  <2>1. 0 \in 0..N
    OBVIOUS
  <2>2. f[0] = Empty /\ f[0] \in StoresOver(V)
    BY <1>1, <2>1 DEF Reading
  <2>3. Empty.data[p] = << >> /\ Empty.data[q] = << >>
    BY <1>2 DEF Empty
  <2> QED BY <2>1, <2>2, <2>3
<1>6. ASSUME NEW n \in 0..(N - 1), f[n] \in S PROVE f[n + 1] \in S
  <2>1. PICK off, m : OneRead(wire, V, f, n, off, m)
    BY <1>1, ReadingStep
  <2> DEFINE object == wire[n + 1]
             P == MayCarry(object.class)
             c == f[n]
             reads == ReadFields(object)
  <2>2. /\ CallsMade(object, c, V, P, off, m) /\ c \in StoresOver(V) /\ Shaped(object)
        /\ f[n + 1] = parse_object(c, object) /\ f[n + 1] \in StoresOver(V)
        /\ reads \in Seq(FieldsOf(P)) /\ CallsOf(object, reads) \in Seq(Seq(AddCalls(V, P)))
    BY <2>1 DEF OneRead
  <2>3. reads = ReadFields(object) /\ (c.data[p] # << >> <=> c.data[q] # << >>)
    BY <1>6
  <2>4. object.class # "SENDER_TEMPLATE" => p \notin P /\ q \notin P
    <3>1. object.class \in WireClasses
      BY <2>2 DEF Shaped
    <3> QED BY <3>1, Carriers DEF p, q
  <2>5. object.class = "SENDER_TEMPLATE" => reads = slots
    BY <1>4
  <2> HIDE DEF object, P, c, reads
  <2> DEFINE after == parse_object(c, object)
  <2>6. \A r \in Parameters : /\ c.data[r] # << >> => after.data[r] # << >>
                              /\ r \notin P => after.data[r] = c.data[r]
    BY <2>2, ObjectRead
  <2> HIDE DEF after
  <2>7. CASE c.data[p] # << >>
    BY <1>2, <2>2, <2>3, <2>6, <2>7 DEF after
  <2>8. CASE object.class # "SENDER_TEMPLATE"
    BY <1>2, <2>2, <2>3, <2>4, <2>6, <2>8 DEF after
  <2>9. CASE object.class = "SENDER_TEMPLATE" /\ c.data[p] = << >>
    <3>1. reads = slots /\ c.data[p] = << >> /\ c.data[q] = << >>
      BY <2>3, <2>5, <2>9
    <3>2. Len(reads) = 3 /\ Single(reads[1], p) /\ Single(reads[3], q) /\ reads[2].kind = "pad"
      BY <1>2, <3>1
    <3>3. NoneYet(reads, c)
      <4> SUFFICES ASSUME NEW i \in 1..Len(reads)
                   PROVE  reads[i].kind = "pad" \/ \E r : Single(reads[i], r) /\ c.data[r] = << >>
        BY DEF NoneYet
      <4>1. i = 1 \/ i = 2 \/ i = 3
        BY <3>2
      <4> QED BY <3>1, <3>2, <4>1
    <3>4. Apart(reads)
      <4>1. /\ \A r : Carries(reads[1], r) => r = p
            /\ \A r : ~ Carries(reads[2], r)
            /\ \A r : Carries(reads[3], r) => r = q
        BY <1>2, <1>3, <3>1 DEF Carries
      <4> SUFFICES ASSUME NEW i \in 1..Len(reads), NEW j \in 1..Len(reads), NEW r,
                          Carries(reads[i], r), Carries(reads[j], r)
                   PROVE  i = j
        BY DEF Apart
      <4>2. (i = 1 \/ i = 2 \/ i = 3) /\ (j = 1 \/ j = 2 \/ j = 3)
        BY <3>2
      <4> QED BY <1>2, <4>1, <4>2
    <3> DEFINE i == 1
               j == 3
    <3>5. i \in 1..Len(reads) /\ j \in 1..Len(reads)
      BY <3>2
    <3>6. Single(reads[i], p) /\ Single(reads[j], q)
      BY <3>2
    <3> HIDE DEF i, j
    <3>8. parse_object(c, object).data[p] = << ReadWith(object, reads, i) >>
      BY <2>2, <2>3, <3>3, <3>4, <3>5, <3>6, ReadAll
    <3>9. parse_object(c, object).data[q] = << ReadWith(object, reads, j) >>
      BY <2>2, <2>3, <3>3, <3>4, <3>5, <3>6, ReadAll
    <3>7. parse_object(c, object).data[p] # << >> /\ parse_object(c, object).data[q] # << >>
      BY <3>8, <3>9
    <3> QED BY <2>2, <3>7
  <2> QED BY <2>7, <2>8, <2>9
<1> HIDE DEF S
<1>7. parse_data(wire) \in S
  <2>1. \A n \in 0..(N - 1) : f[n] \in S => f[n + 1] \in S
    BY <1>6
  <2> QED BY <1>1, <1>5, <2>1, ReadingKeeps
<1>8. parse_data(wire).data[p] # << >>
  <2>1. ReadFields(wire[k]) = slots
    BY <1>4
  <2> QED BY <1>2, <1>3, <2>1, ParsedPresent
<1> QED BY <1>7, <1>8 DEF S, p, q

(* The bandwidth comes with the link.                                      *)
LEMMA SlotsOfEthernet ==
  /\ Len(ReadEthernet) = 9
  /\ \A q \in EthernetLink : \E i \in {1, 3, 4} : Single(ReadEthernet[i], q)
  /\ \A p \in EthernetBandwidth : p \in Parameters /\ \E j \in 6..9 : \A k \in 1..9 :
       Carries(ReadEthernet[k], p) => k = j
<1> DEFINE r == ReadEthernet
<1>1. /\ Len(r) = 9
      /\ r[1].pars = << "ETHERNET_SW_GRANUALITY" >> /\ r[2].pars = << >>
      /\ r[3].pars = << "ETHERNET_PROFILE" >> /\ r[4].pars = << "ETHERNET_INDEX" >>
      /\ r[5].pars = << >> /\ r[6].pars = << "ETHERNET_CIR" >>
      /\ r[7].pars = << "ETHERNET_CBS" >> /\ r[8].pars = << "ETHERNET_EIR" >>
      /\ r[9].pars = << "ETHERNET_EBS" >>
      /\ r[1].kind = "short" /\ r[3].kind = "char" /\ r[4].kind = "char"
  BY DEF ReadEthernet, Addr, Short, Char, Float, Pad, Field
<1> HIDE DEF r
<1>2. /\ Single(r[1], "ETHERNET_SW_GRANUALITY") /\ Single(r[3], "ETHERNET_PROFILE")
      /\ Single(r[4], "ETHERNET_INDEX")
  BY <1>1 DEF Single, HasType, AddType, Parameters, PT_UC, PT_US, PT_TAB
<1>3. \A q \in EthernetLink : \E i \in {1, 3, 4} : Single(r[i], q)
  BY <1>2 DEF EthernetLink
<1>4. ASSUME NEW p \in EthernetBandwidth, NEW k \in 1..9, Carries(r[k], p)
      PROVE  r[k].pars = << p >>
  <2>1. k \in {1, 2, 3, 4, 5, 6, 7, 8, 9}
    OBVIOUS
  <2>2. r[k].pars # << >> => \E x : r[k].pars = << x >>
    BY <1>1, <2>1
  <2> QED BY <1>4, <2>2 DEF Carries
<1>5. ASSUME NEW p \in EthernetBandwidth
      PROVE  \E j \in 6..9 : \A k \in 1..9 : r[k].pars = << p >> => k = j
  <2> DEFINE j == CASE p = "ETHERNET_CIR" -> 6 [] p = "ETHERNET_CBS" -> 7
                    [] p = "ETHERNET_EIR" -> 8 [] OTHER -> 9
  <2>1. p \in {"ETHERNET_CIR", "ETHERNET_CBS", "ETHERNET_EIR", "ETHERNET_EBS"}
    BY DEF EthernetBandwidth
  <2>2. j \in 6..9
    OBVIOUS
  <2>3. ASSUME NEW k \in 1..9, r[k].pars = << p >> PROVE k = j
    <3>1. k \in {1, 2, 3, 4, 5, 6, 7, 8, 9}
      OBVIOUS
    <3>2. r[k].pars # << >> /\ r[k].pars[1] = p
      BY <2>3
    <3> QED BY <1>1, <2>1, <3>1, <3>2
  <2> QED BY <2>2, <2>3
<1>6. \A p \in EthernetBandwidth : p \in Parameters
  BY DEF EthernetBandwidth, Parameters, PT_F
<1> QED BY <1>1, <1>3, <1>4, <1>5, <1>6 DEF r

LEMMA ParsedEthernet ==
  ASSUME NEW wire, ShapedWire(wire), NEW p \in EthernetBandwidth,
         parse_data(wire).data[p] # << >>, NEW q \in EthernetLink
  PROVE  parse_data(wire).data[q] # << >>
<1>r. PICK N \in Nat : \E V, f : DOMAIN wire = 1..N /\ Reading(wire, N, V, f)
  BY Readings
<1>1. PICK V, f : DOMAIN wire = 1..N /\ Reading(wire, N, V, f)
  BY <1>r
<1>2. p \in Parameters /\ \E j \in 6..9 : \A k \in 1..9 : Carries(ReadEthernet[k], p) => k = j
  BY SlotsOfEthernet
<1>3. \E i \in {1, 3, 4} : Single(ReadEthernet[i], q)
  BY SlotsOfEthernet
<1>4. q \in Parameters
  BY <1>3 DEF Single
<1> DEFINE S == {c \in StoresOver(V) : c.data[p] # << >> => c.data[q] # << >>}
<1>5. f[0] \in S /\ 0 \in 0..N
  <2>1. 0 \in 0..N
    OBVIOUS
  <2>2. f[0] = Empty /\ f[0] \in StoresOver(V)
    BY <1>1, <2>1 DEF Reading
  <2>3. Empty.data[p] = << >>
    BY <1>2 DEF Empty
  <2> QED BY <2>1, <2>2, <2>3
<1>6. ASSUME NEW n \in 0..(N - 1), f[n] \in S PROVE f[n + 1] \in S
  <2>1. PICK off, m : OneRead(wire, V, f, n, off, m)
    BY <1>1, ReadingStep
  <2> DEFINE object == wire[n + 1]
             P == MayCarry(object.class)
             c == f[n]
             reads == ReadFields(object)
  <2>2. /\ CallsMade(object, c, V, P, off, m) /\ c \in StoresOver(V) /\ Shaped(object)
        /\ f[n + 1] = parse_object(c, object) /\ f[n + 1] \in StoresOver(V)
        /\ reads \in Seq(FieldsOf(P)) /\ CallsOf(object, reads) \in Seq(Seq(AddCalls(V, P)))
    BY <2>1 DEF OneRead
  <2>3. reads = ReadFields(object) /\ (c.data[p] # << >> => c.data[q] # << >>)
    BY <1>6
  <2>4. p \in P => object.class \in {"ETHERNET_FLOWSPEC", "ETHERNET_SENDER_TSPEC"}
    <3>1. object.class \in WireClasses
      BY <2>2 DEF Shaped
    <3> QED BY <3>1, Carriers
  <2>5. p \in P => reads = ReadEthernet
    BY <2>4 DEF ReadFields, ReadFlowspec, ReadSenderAndFilter
  <2> HIDE DEF object, P, c, reads
  <2> DEFINE after == parse_object(c, object)
  <2>6. \A r \in Parameters : /\ c.data[r] # << >> => after.data[r] # << >>
                              /\ r \notin P => after.data[r] = c.data[r]
    BY <2>2, ObjectRead
  <2> SUFFICES ASSUME after.data[p] # << >> PROVE after.data[q] # << >>
    BY <2>2
  <2> HIDE DEF after
  <2>7. CASE c.data[p] # << >>
    BY <1>4, <2>3, <2>6, <2>7
  <2>8. CASE c.data[p] = << >>
    <3>1. reads = ReadEthernet
      BY <1>2, <2>5, <2>6, <2>8
    <3>2. PICK j \in 6..9 : \A k \in 1..9 : Carries(reads[k], p) => k = j
      BY <1>2, <3>1
    <3>3. PICK i \in {1, 3, 4} : Single(reads[i], q)
      BY <1>3, <3>1
    <3>4. Len(reads) = 9
      BY <3>1, SlotsOfEthernet
    <3>5. i \in 1..Len(reads) /\ j \in 1..Len(reads) /\ i < j
      BY <3>4
    <3>6. \A k \in 1..Len(reads) : Carries(reads[k], p) => k = j
      BY <3>2, <3>4
    <3>7. parse_object(c, object).data[q] # << >>
      BY <1>2, <2>2, <2>3, <2>8, <3>3, <3>5, <3>6, ReadBefore DEF after
    <3> QED BY <3>7 DEF after
  <2> QED BY <2>7, <2>8
<1> HIDE DEF S
<1>7. parse_data(wire) \in S
  <2>1. \A n \in 0..(N - 1) : f[n] \in S => f[n + 1] \in S
    BY <1>6
  <2> QED BY <1>1, <1>5, <2>1, ReadingKeeps
<1> QED BY <1>7 DEF S

-----------------------------------------------------------------------------
(* The length of a body: the widths of its fields, one after the other.    *)

Widths(b, fields, N) ==
  /\ b[0] = 0 /\ b[N] = BytesOf(fields) /\ \A n \in 0..N : b[n] \in Int
  /\ \A n \in 0..(N - 1) : b[n + 1] = b[n] + fields[n + 1].width

LEMMA WidthsInTurn ==
  ASSUME NEW fields, NEW N \in Nat, DOMAIN fields = 1..N, \A k \in 1..N : fields[k].width \in Int
  PROVE  \E b : Widths(b, fields, N)
<1> DEFINE step == [x \in Int \X (1..N) |-> x[1] + fields[x[2]].width]
           iter == CHOOSE g : g = [s \in SUBSET (1..N) |->
                     IF s = {} THEN 0 ELSE g[s \ {Max(s)}] + fields[Max(s)].width]
<1>1. step \in [Int \X (1..N) -> Int] /\ 0 \in Int
  OBVIOUS
<1>2. \A c \in Int, k \in 1..N : step[<< c, k >>] = c + fields[k].width
  OBVIOUS
<1> HIDE DEF step
<1>3. \E g : g = [s \in SUBSET (1..N) |->
                     IF s = {} THEN 0 ELSE g[s \ {Max(s)}] + fields[Max(s)].width]
  <2>1. PICK g : FoldOf(g, Int, 0, N, step)
    BY <1>1, FoldExists
  <2>2. /\ g \in [SUBSET (1..N) -> Int]
        /\ \A s \in SUBSET (1..N) :
             g[s] = IF s = {} THEN 0 ELSE step[<< g[s \ {Max(s)}], Max(s) >>]
    BY <2>1 DEF FoldOf
  <2>3. \A s \in SUBSET (1..N) :
           g[s] = IF s = {} THEN 0 ELSE g[s \ {Max(s)}] + fields[Max(s)].width
    <3> TAKE s \in SUBSET (1..N)
    <3>1. CASE s = {}
      BY <2>2, <3>1
    <3>2. CASE s # {}
      <4>1. Max(s) \in 1..N /\ g[s \ {Max(s)}] \in Int
        <5>1. Max(s) \in s
          BY <3>2, LargestIn
        <5>2. s \ {Max(s)} \in SUBSET (1..N)
          OBVIOUS
        <5> QED BY <2>2, <5>1, <5>2
      <4>2. g[s] = step[<< g[s \ {Max(s)}], Max(s) >>]
        BY <2>2, <3>2
      <4> QED BY <1>2, <3>2, <4>1, <4>2
    <3> QED BY <3>1, <3>2
  <2> QED BY <2>2, <2>3
<1>4. iter = [s \in SUBSET (1..N) |->
                     IF s = {} THEN 0 ELSE iter[s \ {Max(s)}] + fields[Max(s)].width]
  BY <1>3
<1>5. BytesOf(fields) = iter[1..N]
  <2> HIDE DEF iter
  <2> QED BY DEF iter, BytesOf, FoldLeft, MapThenFoldSet
<1> HIDE DEF iter
<1>6. iter[{}] = 0
  <2>1. {} \in SUBSET (1..N)
    OBVIOUS
  <2> QED BY <1>4, <2>1
<1>7. \A s \in SUBSET (1..N) :
         s # {} /\ iter[s \ {Max(s)}] \in Int => iter[s] = step[<< iter[s \ {Max(s)}], Max(s) >>]
  <2> TAKE s \in SUBSET (1..N)
  <2> SUFFICES ASSUME s # {}, iter[s \ {Max(s)}] \in Int
               PROVE  iter[s] = step[<< iter[s \ {Max(s)}], Max(s) >>]
    OBVIOUS
  <2>1. Max(s) \in 1..N
    <3>1. Max(s) \in s
      BY LargestIn
    <3> QED BY <3>1
  <2>2. iter[s] = iter[s \ {Max(s)}] + fields[Max(s)].width
    BY <1>4
  <2> QED BY <1>2, <2>1, <2>2
<1>8. InTurn(iter, Int, 0, N, step)
  <2>1. FoldsBy(iter, Int, 0, N, step)
    BY <1>6, <1>7 DEF FoldsBy
  <2> QED BY <1>1, <2>1, FoldSteps
<1> DEFINE b == [n \in 0..N |-> iter[1..n]]
<1>9. /\ \A n \in 0..N : iter[1..n] \in Int
      /\ iter[1..0] = 0
      /\ \A n \in 0..(N - 1) : iter[1..(n + 1)] = step[<< iter[1..n], n + 1 >>]
  BY <1>8 DEF InTurn
<1>10. \A n \in 0..N : b[n] = iter[1..n] /\ b[n] \in Int
  BY <1>9
<1>11. \A n \in 0..(N - 1) : b[n + 1] = b[n] + fields[n + 1].width
  <2> TAKE n \in 0..(N - 1)
  <2>1. n \in 0..N /\ n + 1 \in 0..N /\ n + 1 \in 1..N
    OBVIOUS
  <2>2. b[n] = iter[1..n] /\ b[n + 1] = iter[1..(n + 1)] /\ iter[1..n] \in Int
    BY <1>10, <2>1
  <2>3. iter[1..(n + 1)] = step[<< iter[1..n], n + 1 >>]
    BY <1>9
  <2> HIDE DEF b
  <2> QED BY <1>2, <2>1, <2>2, <2>3
<1>12. b[0] = 0 /\ b[N] = BytesOf(fields)
  BY <1>5, <1>9, <1>10
<1> HIDE DEF b
<1>13. Widths(b, fields, N)
  BY <1>10, <1>11, <1>12 DEF Widths
<1> QED BY <1>13

(* Fields of the same widths are of the same length.                       *)
LEMMA SameWidths ==
  ASSUME NEW a, NEW b, NEW N \in Nat, DOMAIN a = 1..N, DOMAIN b = 1..N,
         \A k \in 1..N : a[k].width \in Int /\ b[k].width = a[k].width
  PROVE  BytesOf(a) = BytesOf(b)
<1>1. PICK x : Widths(x, a, N)
  BY WidthsInTurn
<1>2. PICK y : Widths(y, b, N)
  <2>1. \A k \in 1..N : b[k].width \in Int
    OBVIOUS
  <2> QED BY <2>1, WidthsInTurn
<1> DEFINE T == {n \in 0..N : x[n] = y[n]}
<1>3. 0 \in T
  BY <1>1, <1>2 DEF Widths
<1>4. ASSUME NEW n \in 0..(N - 1), n \in T PROVE n + 1 \in T
  <2>1. n + 1 \in 1..N /\ n + 1 \in 0..N
    OBVIOUS
  <2> QED BY <1>1, <1>2, <1>4, <2>1 DEF Widths
<1>5. N \in 0..N
  OBVIOUS
<1>6. 0..N \subseteq T
  <2> HIDE DEF T
  <2> QED BY <1>3, <1>4, UpTo
<1> QED BY <1>1, <1>2, <1>5, <1>6 DEF Widths

LEMMA NoBytes ==
  ASSUME NEW fields, DOMAIN fields = 1..0
  PROVE  BytesOf(fields) = 0
<1>1. PICK b : Widths(b, fields, 0)
  BY WidthsInTurn
<1> QED BY <1>1 DEF Widths

-----------------------------------------------------------------------------
(* A label is read as it was written.                                      *)

LabelIs(object, v) ==
  object.fields = << [kind |-> "label", width |-> object.length, tag |-> 0, val |-> v] >>

LEMMA LabelRead ==
  ASSUME NEW object, Shaped(object), object.class = "GENERALIZED_LABEL", NEW v, LabelIs(object, v)
  PROVE  /\ Len(ReadFields(object)) = 1 /\ Single(ReadFields(object)[1], "LABEL")
         /\ ReadWith(object, ReadFields(object), 1) = v
<1> DEFINE f == Field("label", << "LABEL" >>, object.length, 0)
           reads == ReadFields(object)
           starts == {k \in DOMAIN object.fields :
                        /\ BytesOf(SubSeq(object.fields, 1, k - 1)) = 0
                        /\ object.fields[k].width = f.width}
<1>1. reads = << f >>
  BY DEF ReadFields, ReadLabelAndRoute
<1>2. f.kind = "label" /\ f.width = object.length /\ f.pars = << "LABEL" >>
  BY DEF Field
<1>3. Single(f, "LABEL")
  BY <1>2 DEF Single, HasType, AddType, Parameters, PT_VS, PT_TAB
<1> HIDE DEF f
<1>4. Len(reads) = 1 /\ reads[1] = f
  BY <1>1
<1> HIDE DEF reads
<1>5. BytesOf(SubSeq(reads, 1, 1 - 1)) = 0
  <2>1. DOMAIN SubSeq(reads, 1, 1 - 1) = 1..0
    BY <1>1
  <2> QED BY <2>1, NoBytes
<1>6. starts = {1}
  <2> DEFINE fields == object.fields
  <2>1. fields = << [kind |-> "label", width |-> object.length, tag |-> 0, val |-> v] >>
    BY DEF LabelIs
  <2>2. DOMAIN fields = {1} /\ fields[1].width = f.width
    BY <1>2, <2>1
  <2>3. BytesOf(SubSeq(fields, 1, 1 - 1)) = 0
    <3>1. DOMAIN SubSeq(fields, 1, 1 - 1) = 1..0
      BY <2>1
    <3> QED BY <3>1, NoBytes
  <2> HIDE DEF fields
  <2>4. \A k \in DOMAIN fields : k = 1
    BY <2>2
  <2> QED BY <2>2, <2>3, <2>4 DEF fields
<1> HIDE DEF starts
<1>7. (CHOOSE k \in starts : TRUE) = 1 /\ starts # {}
  BY <1>6
<1>8. object.fields[1].kind = "label" /\ object.fields[1].val = v
  BY DEF LabelIs
<1>9. ReadValue(object, 0, f) = v
  <2>1. ReadValue(object, 0, f) =
          IF starts = {} THEN Garbage
          ELSE IF object.fields[CHOOSE k \in starts : TRUE].kind = f.kind
               THEN object.fields[CHOOSE k \in starts : TRUE].val
          ELSE IF {object.fields[CHOOSE k \in starts : TRUE].kind, f.kind} = {"addr", "int"}
               THEN - object.fields[CHOOSE k \in starts : TRUE].val
          ELSE Garbage
    BY DEF ReadValue, starts
  <2> QED BY <1>2, <1>7, <1>8, <2>1
<1>10. ReadWith(object, reads, 1) = v
  BY <1>2, <1>4, <1>5, <1>9 DEF ReadWith
<1> QED BY <1>3, <1>4, <1>10 DEF reads

LEMMA ParsedLabel ==
  ASSUME NEW wire, ShapedWire(wire), NEW k \in DOMAIN wire, wire[k].class = "GENERALIZED_LABEL",
         NEW v, \A i \in DOMAIN wire : wire[i].class = "GENERALIZED_LABEL" => LabelIs(wire[i], v)
  PROVE  parse_data(wire).data["LABEL"] = << v >>
<1> DEFINE p == "LABEL"
<1>r. PICK N \in Nat : \E V, f : DOMAIN wire = 1..N /\ Reading(wire, N, V, f)
  BY Readings
<1>1. PICK V, f : DOMAIN wire = 1..N /\ Reading(wire, N, V, f)
  BY <1>r
<1>2. p \in Parameters /\ p \notin PT_TAB
  BY DEF Parameters, PT_VS, PT_TAB
<1> DEFINE S == {c \in StoresOver(V) : c.data[p] = << >> \/ c.data[p] = << v >>}
<1>3. ASSUME NEW object, object.class # "GENERALIZED_LABEL", Shaped(object)
      PROVE  p \notin MayCarry(object.class)
  BY <1>3, Carriers DEF Shaped
<1>4. ASSUME NEW object, object.class = "GENERALIZED_LABEL", Shaped(object), LabelIs(object, v)
      PROVE  /\ Len(ReadFields(object)) = 1 /\ Single(ReadFields(object)[1], p)
             /\ ReadWith(object, ReadFields(object), 1) = v
  BY <1>4, LabelRead
<1> HIDE DEF p
<1>5. f[0] \in S /\ 0 \in 0..N
  <2>1. 0 \in 0..N
    OBVIOUS
  <2>2. f[0] = Empty /\ f[0] \in StoresOver(V)
    BY <1>1, <2>1 DEF Reading
  <2>3. Empty.data[p] = << >>
    BY <1>2 DEF Empty
  <2> QED BY <2>1, <2>2, <2>3
<1>6. ASSUME NEW n \in 0..(N - 1), f[n] \in S PROVE f[n + 1] \in S
  <2>1. PICK off, m : OneRead(wire, V, f, n, off, m)
    BY <1>1, ReadingStep
  <2> DEFINE object == wire[n + 1]
             P == MayCarry(object.class)
             c == f[n]
             reads == ReadFields(object)
  <2>2. /\ CallsMade(object, c, V, P, off, m) /\ c \in StoresOver(V) /\ Shaped(object)
        /\ f[n + 1] = parse_object(c, object) /\ f[n + 1] \in StoresOver(V)
        /\ reads \in Seq(FieldsOf(P)) /\ CallsOf(object, reads) \in Seq(Seq(AddCalls(V, P)))
    BY <2>1 DEF OneRead
  <2>3. reads = ReadFields(object) /\ (c.data[p] = << >> \/ c.data[p] = << v >>)
    BY <1>6
  <2>4. object.class = "GENERALIZED_LABEL" => LabelIs(object, v)
    <3>1. n + 1 \in DOMAIN wire
      BY <1>1
    <3> QED BY <3>1
  <2>5. object.class # "GENERALIZED_LABEL" => p \notin P
    BY <1>3, <2>2
  <2> HIDE DEF object, P, c, reads
  <2> DEFINE after == parse_object(c, object)
  <2>6. /\ c.data[p] # << >> => after.data[p] = c.data[p]
        /\ p \notin P => after.data[p] = c.data[p]
    BY <1>2, <2>2, ObjectRead
  <2> HIDE DEF after
  <2>7. CASE c.data[p] # << >> \/ object.class # "GENERALIZED_LABEL"
    BY <2>2, <2>3, <2>5, <2>6, <2>7 DEF after
  <2>8. CASE object.class = "GENERALIZED_LABEL" /\ c.data[p] = << >>
    <3>1. Len(reads) = 1 /\ Single(reads[1], p) /\ ReadWith(object, reads, 1) = v
      BY <1>4, <2>2, <2>3, <2>4, <2>8
    <3>2. \A i \in 1..Len(reads) : i = 1
      BY <3>1
    <3>3. NoneYet(reads, c)
      BY <2>8, <3>1, <3>2 DEF NoneYet
    <3>4. Apart(reads)
      BY <3>2 DEF Apart
    <3> DEFINE i == 1
    <3>5. i \in 1..Len(reads) /\ Single(reads[i], p) /\ ReadWith(object, reads, i) = v
      BY <3>1
    <3> HIDE DEF i
    <3>6. parse_object(c, object).data[p] = << ReadWith(object, reads, i) >>
      BY <2>2, <2>3, <3>3, <3>4, <3>5, ReadAll
    <3> QED BY <2>2, <3>5, <3>6
  <2> QED BY <2>7, <2>8
<1> HIDE DEF S
<1>7. parse_data(wire) \in S
  <2>1. \A n \in 0..(N - 1) : f[n] \in S => f[n + 1] \in S
    BY <1>6
  <2> QED BY <1>1, <1>5, <2>1, ReadingKeeps
<1>8. parse_data(wire).data[p] # << >>
  <2>1. Shaped(wire[k])
    BY DEF ShapedWire
  <2>2. Len(ReadFields(wire[k])) = 1 /\ Single(ReadFields(wire[k])[1], p)
    BY <1>4, <2>1
  <2>3. ReadFields(wire[k]) # << >>
    BY <2>2
  <2> QED BY <2>2, <2>3, ParsedPresent
<1> QED BY <1>7, <1>8 DEF S, p

-----------------------------------------------------------------------------
(* What is written into an object: the bytes its header announces, of      *)
(* parameters the store holds.                                             *)

WrittenKinds == Kinds \cup {"granularity"}

WFieldsOf(P) ==
  {f \in [kind : WrittenKinds, pars : Seq(P), width : Int, tag : Int] :
     f.kind = "name" => f.pars = << "SESSION_NAME" >>}

LEMMA WSingle ==
  ASSUME NEW P, NEW p \in P
  PROVE  /\ Addr(p) \in WFieldsOf(P) /\ Addr(p).width = 4
         /\ Word(p) \in WFieldsOf(P) /\ Word(p).width = 4
         /\ Float(p) \in WFieldsOf(P) /\ Float(p).width = 4
         /\ Short(p) \in WFieldsOf(P) /\ Short(p).width = 2
         /\ Char(p) \in WFieldsOf(P) /\ Char(p).width = 1
         /\ Int24(p) \in WFieldsOf(P) /\ Int24(p).width = 3
<1> DEFINE K == WrittenKinds \ {"name"}
<1>1. /\ "addr" \in K /\ "int" \in K /\ "float" \in K /\ "short" \in K /\ "char" \in K
      /\ "int24" \in K
  BY DEF WrittenKinds, Kinds
<1>2. << p >> \in Seq(P)
  OBVIOUS
<1>3. /\ Addr(p) \in WFieldsOf(P) /\ Word(p) \in WFieldsOf(P) /\ Float(p) \in WFieldsOf(P)
      /\ Short(p) \in WFieldsOf(P) /\ Char(p) \in WFieldsOf(P) /\ Int24(p) \in WFieldsOf(P)
  <2> HIDE DEF K
  <2>1. \A kind \in K, w \in Int : Field(kind, << p >>, w, 0) \in WFieldsOf(P)
    <3> TAKE kind \in K, w \in Int
    <3>1. kind \in WrittenKinds /\ kind # "name"
      BY DEF K
    <3> QED BY <1>2, <3>1 DEF Field, WFieldsOf
  <2> QED BY <1>1, <2>1 DEF Addr, Word, Float, Short, Char, Int24
<1>4. /\ Addr(p).width = 4 /\ Word(p).width = 4 /\ Float(p).width = 4 /\ Short(p).width = 2
      /\ Char(p).width = 1 /\ Int24(p).width = 3
  BY DEF Addr, Word, Float, Short, Char, Int24, Field
<1> QED BY <1>3, <1>4

(* The fields with fixed contents that are written. *)
LEMMA WPads ==
  ASSUME NEW P
  PROVE  /\ Pad(2) \in WFieldsOf(P) /\ Pad(2).width = 2
         /\ Pad(3) \in WFieldsOf(P) /\ Pad(3).width = 3
         /\ Mark(1, 10) \in WFieldsOf(P) /\ Mark(1, 10).width = 1
         /\ Mark(1, 17) \in WFieldsOf(P) /\ Mark(1, 17).width = 1
         /\ Mark(1, 18) \in WFieldsOf(P) /\ Mark(1, 18).width = 1
         /\ Mark(4, 1) \in WFieldsOf(P) /\ Mark(4, 1).width = 4
         /\ Mark(4, 2) \in WFieldsOf(P) /\ Mark(4, 2).width = 4
         /\ Mark(4, 3) \in WFieldsOf(P) /\ Mark(4, 3).width = 4
         /\ Mark(4, 5) \in WFieldsOf(P) /\ Mark(4, 5).width = 4
         /\ Mark(4, 129) \in WFieldsOf(P) /\ Mark(4, 129).width = 4
         /\ Mark(4, 130) \in WFieldsOf(P) /\ Mark(4, 130).width = 4
         /\ Mark(12, 1) \in WFieldsOf(P) /\ Mark(12, 1).width = 12
         /\ Mark(12, 2) \in WFieldsOf(P) /\ Mark(12, 2).width = 12
         /\ Mark(12, 5) \in WFieldsOf(P) /\ Mark(12, 5).width = 12
         /\ Field("int", << >>, 4, 0) \in WFieldsOf(P) /\ Field("int", << >>, 4, 0).width = 4
<1>1. << >> \in Seq(P) /\ "pad" \in WrittenKinds \ {"name"} /\ "int" \in WrittenKinds \ {"name"}
  BY DEF WrittenKinds, Kinds
<1> QED BY <1>1 DEF Pad, Mark, Field, WFieldsOf

(* Fields of kinds of their own. *)
LEMMA WSpecial ==
  ASSUME NEW P
  PROVE  /\ \A p \in P :
              /\ Field("granularity", << p >>, 2, 0) \in WFieldsOf(P)
              /\ Field("granularity", << p >>, 2, 0).width = 2
              /\ Field("rtad", << p >>, 4, 0) \in WFieldsOf(P)
              /\ Field("rtad", << p >>, 4, 0).width = 4
         /\ \A p \in P, n \in Int :
              /\ Field("label", << p >>, n, 0) \in WFieldsOf(P)
              /\ Field("label", << p >>, n, 0).width = n
              /\ Field("ero", << p >>, 8, n) \in WFieldsOf(P)
              /\ Field("ero", << p >>, 8, n).width = 8
              /\ p = "SESSION_NAME" => /\ Field("name", << p >>, n, 0) \in WFieldsOf(P)
                                       /\ Field("name", << p >>, n, 0).width = n
         /\ \A pars \in Seq(P) : /\ Field("flags", pars, 1, 0) \in WFieldsOf(P)
                                  /\ Field("flags", pars, 1, 0).width = 1
<1>1. /\ "granularity" \in WrittenKinds \ {"name"} /\ "rtad" \in WrittenKinds \ {"name"}
      /\ "label" \in WrittenKinds \ {"name"} /\ "ero" \in WrittenKinds \ {"name"}
      /\ "flags" \in WrittenKinds \ {"name"} /\ "name" \in WrittenKinds
  BY DEF WrittenKinds, Kinds
<1> QED BY <1>1 DEF Field, WFieldsOf

(* The widths of up to ten fields, added. *)
WidthAt(fields, N, k) == IF k <= N THEN fields[k].width ELSE 0
Summed(fields, N) ==
  LET w(k) == WidthAt(fields, N, k)
  IN  w(1) + w(2) + w(3) + w(4) + w(5) + w(6) + w(7) + w(8) + w(9) + w(10)

LEMMA Total ==
  ASSUME NEW fields, NEW N \in 1..10, DOMAIN fields = 1..N,
         \A k \in 1..N : fields[k].width \in Int
  PROVE  BytesOf(fields) = Summed(fields, N)
<1> DEFINE w(k) == IF k <= N THEN fields[k].width ELSE 0
<1>1. PICK b : Widths(b, fields, N)
  <2>1. N \in Nat
    OBVIOUS
  <2> QED BY <2>1, WidthsInTurn
<1> DEFINE s(k) == IF k <= N THEN b[k] ELSE b[N]
<1>2. b[0] = 0 /\ b[N] = BytesOf(fields)
  BY <1>1 DEF Widths
<1>3. \A n \in 0..9 : s(n + 1) = s(n) + w(n + 1) /\ w(n + 1) \in Int /\ s(n) \in Int
  <2> TAKE n \in 0..9
  <2>1. CASE n < N
    <3>1. n \in 0..(N - 1) /\ n + 1 \in 1..N /\ n \in 0..N
      BY <2>1
    <3>2. b[n + 1] = b[n] + fields[n + 1].width /\ b[n] \in Int
      BY <1>1, <3>1 DEF Widths
    <3> QED BY <2>1, <3>1, <3>2
  <2>2. CASE ~ (n < N)
    <3>1. s(n) = b[N] /\ s(n + 1) = b[N] /\ w(n + 1) = 0 /\ N \in 0..N
      BY <2>2
    <3>2. b[N] \in Int
      BY <1>1, <3>1 DEF Widths
    <3> QED BY <3>1, <3>2
  <2> QED BY <2>1, <2>2
<1>4. s(0) = 0 /\ s(10) = BytesOf(fields)
  BY <1>2
<1> HIDE DEF s, w
<1>5. /\ s(1) = s(0) + w(1) /\ s(2) = s(1) + w(2) /\ s(3) = s(2) + w(3) /\ s(4) = s(3) + w(4)
      /\ s(5) = s(4) + w(5) /\ s(6) = s(5) + w(6) /\ s(7) = s(6) + w(7) /\ s(8) = s(7) + w(8)
      /\ s(9) = s(8) + w(9) /\ s(10) = s(9) + w(10)
  <2>1. ASSUME NEW n \in 0..9, NEW m, m = n + 1 PROVE s(m) = s(n) + w(m)
    BY <1>3, <2>1
  <2>2. \A n \in 0..9 : \A m : m = n + 1 => s(m) = s(n) + w(m)
    BY <2>1
  <2>3. /\ 0 \in 0..9 /\ 1 = 0 + 1 /\ 1 \in 0..9 /\ 2 = 1 + 1 /\ 2 \in 0..9 /\ 3 = 2 + 1
        /\ 3 \in 0..9 /\ 4 = 3 + 1 /\ 4 \in 0..9 /\ 5 = 4 + 1 /\ 5 \in 0..9 /\ 6 = 5 + 1
        /\ 6 \in 0..9 /\ 7 = 6 + 1 /\ 7 \in 0..9 /\ 8 = 7 + 1 /\ 8 \in 0..9 /\ 9 = 8 + 1
        /\ 9 \in 0..9 /\ 10 = 9 + 1
    OBVIOUS
  <2> QED BY <2>2, <2>3, Zenon
<1>6. /\ w(1) \in Int /\ w(2) \in Int /\ w(3) \in Int /\ w(4) \in Int /\ w(5) \in Int
      /\ w(6) \in Int /\ w(7) \in Int /\ w(8) \in Int /\ w(9) \in Int /\ w(10) \in Int
  <2>1. ASSUME NEW n \in 0..9, NEW m, m = n + 1 PROVE w(m) \in Int
    BY <1>3, <2>1
  <2>2. \A n \in 0..9 : \A m : m = n + 1 => w(m) \in Int
    BY <2>1
  <2>3. /\ 0 \in 0..9 /\ 1 = 0 + 1 /\ 1 \in 0..9 /\ 2 = 1 + 1 /\ 2 \in 0..9 /\ 3 = 2 + 1
        /\ 3 \in 0..9 /\ 4 = 3 + 1 /\ 4 \in 0..9 /\ 5 = 4 + 1 /\ 5 \in 0..9 /\ 6 = 5 + 1
        /\ 6 \in 0..9 /\ 7 = 6 + 1 /\ 7 \in 0..9 /\ 8 = 7 + 1 /\ 8 \in 0..9 /\ 9 = 8 + 1
        /\ 9 \in 0..9 /\ 10 = 9 + 1
    OBVIOUS
  <2> QED BY <2>2, <2>3, Zenon
<1>7. BytesOf(fields) = w(1) + w(2) + w(3) + w(4) + w(5) + w(6) + w(7) + w(8) + w(9) + w(10)
  BY <1>4, <1>5, <1>6
<1> QED BY <1>7 DEF w, Summed, WidthAt

(* A body of parameters of P, as long as it says. *)
Sound(body, P) ==
  /\ body.length \in Int /\ body.fields \in Seq(WFieldsOf(P))
  /\ BytesOf(body.fields) = body.length

LEMMA Filled ==
  ASSUME NEW P, NEW fields \in Seq(WFieldsOf(P)), Len(fields) \in 1..10
  PROVE  Sound(Body(Summed(fields, Len(fields)), fields), P)
<1> DEFINE N == Len(fields)
<1>1. DOMAIN fields = 1..N
  OBVIOUS
<1>2. \A k \in 1..N : fields[k].width \in Int
  <2> TAKE k \in 1..N
  <2>1. fields[k] \in WFieldsOf(P)
    OBVIOUS
  <2> QED BY <2>1 DEF WFieldsOf
<1>3. N \in 1..10
  OBVIOUS
<1> HIDE DEF N
<1>4. BytesOf(fields) = Summed(fields, N)
  BY <1>1, <1>2, <1>3, Total
<1>5. BytesOf(fields) \in Int
  <2>1. N \in Nat
    BY <1>3
  <2>2. PICK b : Widths(b, fields, N)
    BY <1>1, <1>2, <2>1, WidthsInTurn
  <2> QED BY <2>1, <2>2 DEF Widths
<1> QED BY <1>4, <1>5 DEF Sound, Body, N

(* Two bodies one behind the other. *)
LEMMA JoinedBytes ==
  ASSUME NEW P, NEW a \in Seq(WFieldsOf(P)), NEW b \in Seq(WFieldsOf(P))
  PROVE  BytesOf(a \o b) = BytesOf(a) + BytesOf(b)
<1> DEFINE W == WFieldsOf(P)
           ab == a \o b
           N == Len(a)
           M == Len(b)
<1>1. \A f \in W : f.width \in Int
  BY DEF WFieldsOf
<1>2. a \in Seq(W) /\ b \in Seq(W)
  OBVIOUS
<1> HIDE DEF W
<1>3. /\ ab \in Seq(W) /\ Len(ab) = N + M
      /\ \A j \in 1..N : ab[j] = a[j]
      /\ \A j \in 1..M : ab[N + j] = b[j]
  BY <1>2, Joined
<1>4. /\ N \in Nat /\ M \in Nat /\ N + M \in Nat /\ DOMAIN a = 1..N /\ DOMAIN b = 1..M
      /\ DOMAIN ab = 1..(N + M)
  BY <1>2, <1>3
<1>5. /\ \A k \in 1..N : a[k].width \in Int
      /\ \A k \in 1..M : b[k].width \in Int
      /\ \A k \in 1..(N + M) : ab[k].width \in Int
  BY <1>1, <1>2, <1>3, <1>4
<1> HIDE DEF ab, N, M
<1>6. PICK x : Widths(x, a, N)
  BY <1>4, <1>5, WidthsInTurn
<1>7. PICK y : Widths(y, b, M)
  BY <1>4, <1>5, WidthsInTurn
<1>8. PICK z : Widths(z, ab, N + M)
  BY <1>4, <1>5, WidthsInTurn
<1>9. z[N] = x[N]
  <2> DEFINE T == {n \in 0..N : z[n] = x[n]}
  <2>1. 0 \in T
    BY <1>4, <1>6, <1>8 DEF Widths
  <2>2. ASSUME NEW n \in 0..(N - 1), n \in T PROVE n + 1 \in T
    <3>1. n + 1 \in 1..N /\ n + 1 \in 0..N /\ n \in 0..(N + M - 1)
      BY <1>4
    <3>2. x[n + 1] = x[n] + a[n + 1].width
      BY <1>6 DEF Widths
    <3>3. z[n + 1] = z[n] + ab[n + 1].width
      BY <1>4, <1>8, <3>1 DEF Widths
    <3>4. ab[n + 1] = a[n + 1] /\ z[n] = x[n]
      BY <1>3, <2>2, <3>1
    <3> QED BY <3>1, <3>2, <3>3, <3>4
  <2> HIDE DEF T
  <2>3. 0..N \subseteq T
    BY <1>4, <2>1, <2>2, UpTo
  <2>4. N \in T
    BY <1>4, <2>3
  <2> QED BY <2>4 DEF T
<1>10. z[N + M] = x[N] + y[M]
  <2> DEFINE T == {n \in 0..M : z[N + n] = x[N] + y[n]}
  <2>0. x[N] \in Int
    BY <1>4, <1>6 DEF Widths
  <2>1. 0 \in T
    <3>1. y[0] = 0 /\ N + 0 = N /\ 0 \in 0..M
      BY <1>4, <1>7 DEF Widths
    <3> QED BY <1>9, <2>0, <3>1
  <2>2. ASSUME NEW n \in 0..(M - 1), n \in T PROVE n + 1 \in T
    <3>1. /\ n + 1 \in 1..M /\ n + 1 \in 0..M /\ N + n \in 0..(N + M - 1)
          /\ (N + n) + 1 = N + (n + 1) /\ n \in 0..M
      BY <1>4
    <3>2. y[n + 1] = y[n] + b[n + 1].width /\ y[n] \in Int
      BY <1>7, <3>1 DEF Widths
    <3>3. z[(N + n) + 1] = z[N + n] + ab[(N + n) + 1].width
      BY <1>4, <1>8, <3>1 DEF Widths
    <3>4. ab[N + (n + 1)] = b[n + 1] /\ z[N + n] = x[N] + y[n]
      BY <1>3, <2>2, <3>1
    <3>5. b[n + 1].width \in Int
      BY <1>5, <3>1
    <3>6. z[N + (n + 1)] = (x[N] + y[n]) + b[n + 1].width
      BY <3>1, <3>3, <3>4
    <3>7. (x[N] + y[n]) + b[n + 1].width = x[N] + y[n + 1]
      BY <2>0, <3>2, <3>5
    <3> QED BY <3>1, <3>6, <3>7
  <2> HIDE DEF T
  <2>3. 0..M \subseteq T
    BY <1>4, <2>1, <2>2, UpTo
  <2>4. M \in T
    BY <1>4, <2>3
  <2> QED BY <2>4 DEF T
<1>11. x[N] = BytesOf(a) /\ y[M] = BytesOf(b) /\ z[N + M] = BytesOf(ab)
  BY <1>6, <1>7, <1>8 DEF Widths
<1> QED BY <1>10, <1>11 DEF ab

LEMMA BothSound ==
  ASSUME NEW P, NEW m, NEW a, NEW n, NEW b, Sound(Body(m, a), P), Sound(Body(n, b), P)
  PROVE  Sound(Body(m + n, a \o b), P)
<1> DEFINE W == WFieldsOf(P)
<1>1. /\ m \in Int /\ n \in Int /\ a \in Seq(W) /\ b \in Seq(W)
      /\ BytesOf(a) = m /\ BytesOf(b) = n
  BY DEF Sound, Body
<1>2. BytesOf(a \o b) = m + n
  BY <1>1, JoinedBytes
<1> HIDE DEF W
<1>3. a \o b \in Seq(W) /\ m + n \in Int
  BY <1>1, Joined
<1> QED BY <1>2, <1>3 DEF Sound, Body, W
(* A hop to a data interface without a handle announces a TLV that is not  *)
(* written: its fields are what they should be, its length is not.         *)
NoTlv(class, c) == class = "IPV4_IF_ID_RSVP_HOP" /\ ~ IsPresent(c, "DATA_OUT_IF_HANDLE")
Formed(body, P) == body.length \in Int /\ body.fields \in Seq(WFieldsOf(P))


LEMMA WriteSessionAndHopIn ==
  ASSUME NEW c, NEW P, NEW class,
         class \in {"SESSION_IETF", "SESSION_OIF", "IPV4_RSVP_HOP", "IPV4_IF_ID_RSVP_HOP"},
         requirements[class] \subseteq P,
         IsPresent(c, "DATA_OUT_IF_HANDLE") => "DATA_OUT_IF_HANDLE" \in P
  PROVE  \/ Sound(WriteSessionAndHop(class, c), P)
         \/ NoTlv(class, c) /\ Formed(WriteSessionAndHop(class, c), P)
<1> DEFINE F == WFieldsOf(P)
<1>1. CASE class \in {"SESSION_IETF", "SESSION_OIF"}
  <2> DEFINE f == << Addr("SESSION_DEST_ADDR"), Pad(2), Short("TUNNEL_ID"),
                     Addr("EXTENDED_IPV4_ADDR") >>
  <2>1. "SESSION_DEST_ADDR" \in P /\ "TUNNEL_ID" \in P /\ "EXTENDED_IPV4_ADDR" \in P
    BY <1>1 DEF requirements, SessionId
  <2>2. /\ Addr("SESSION_DEST_ADDR") \in F /\ Addr("SESSION_DEST_ADDR").width = 4
       /\ Pad(2) \in F /\ Pad(2).width = 2
       /\ Short("TUNNEL_ID") \in F /\ Short("TUNNEL_ID").width = 2
       /\ Addr("EXTENDED_IPV4_ADDR") \in F /\ Addr("EXTENDED_IPV4_ADDR").width = 4
    BY <2>1, WSingle, WPads
  <2>3. /\ f \in Seq(F) /\ Len(f) = 4 /\ Len(f) \in 1..10 /\ f[1].width = 4 /\ f[2].width = 2
       /\ f[3].width = 2 /\ f[4].width = 4
    <3> HIDE DEF F
    <3> QED BY <2>2
  <2>4. WriteSessionAndHop(class, c) = Body(12, f)
    BY <1>1 DEF WriteSessionAndHop
  <2> HIDE DEF f
  <2>5. Summed(f, Len(f)) = 12
    BY <2>3 DEF Summed, WidthAt
  <2>6. Sound(Body(Summed(f, Len(f)), f), P)
    BY <2>3, Filled
  <2> QED BY <2>4, <2>5, <2>6
<1>2. CASE class = "IPV4_RSVP_HOP"
  <2> DEFINE f == << Addr("CONTROL_OUT_IF_ADDR"), Word("CONTROL_OUT_IF_HANDLE") >>
  <2>1. "CONTROL_OUT_IF_ADDR" \in P /\ "CONTROL_OUT_IF_HANDLE" \in P
    BY <1>2 DEF requirements
  <2>2. /\ Addr("CONTROL_OUT_IF_ADDR") \in F /\ Addr("CONTROL_OUT_IF_ADDR").width = 4
       /\ Word("CONTROL_OUT_IF_HANDLE") \in F /\ Word("CONTROL_OUT_IF_HANDLE").width = 4
    BY <2>1, WSingle, WPads
  <2>3. f \in Seq(F) /\ Len(f) = 2 /\ Len(f) \in 1..10 /\ f[1].width = 4 /\ f[2].width = 4
    <3> HIDE DEF F
    <3> QED BY <2>2
  <2>4. WriteSessionAndHop(class, c) = Body(8, f)
    BY <1>2 DEF WriteSessionAndHop
  <2> HIDE DEF f
  <2>5. Summed(f, Len(f)) = 8
    BY <2>3 DEF Summed, WidthAt
  <2>6. Sound(Body(Summed(f, Len(f)), f), P)
    BY <2>3, Filled
  <2> QED BY <2>4, <2>5, <2>6
<1>3. CASE class = "IPV4_IF_ID_RSVP_HOP" /\ IsPresent(c, "DATA_OUT_IF_HANDLE")
  <2> DEFINE f == << Addr("CONTROL_OUT_IF_ADDR"), Field("int", << >>, 4, 0), Mark(4, 3),
                     Addr("DATA_OUT_IF_ADDR"), Word("DATA_OUT_IF_HANDLE") >>
  <2>1. "CONTROL_OUT_IF_ADDR" \in P /\ "DATA_OUT_IF_ADDR" \in P /\ "DATA_OUT_IF_HANDLE" \in P
    BY <1>3 DEF requirements
  <2>2. /\ Addr("CONTROL_OUT_IF_ADDR") \in F /\ Addr("CONTROL_OUT_IF_ADDR").width = 4
       /\ Field("int", << >>, 4, 0) \in F /\ Field("int", << >>, 4, 0).width = 4
       /\ Mark(4, 3) \in F /\ Mark(4, 3).width = 4
       /\ Addr("DATA_OUT_IF_ADDR") \in F /\ Addr("DATA_OUT_IF_ADDR").width = 4
       /\ Word("DATA_OUT_IF_HANDLE") \in F /\ Word("DATA_OUT_IF_HANDLE").width = 4
    BY <2>1, WSingle, WPads
  <2>3. /\ f \in Seq(F) /\ Len(f) = 5 /\ Len(f) \in 1..10 /\ f[1].width = 4 /\ f[2].width = 4
       /\ f[3].width = 4 /\ f[4].width = 4 /\ f[5].width = 4
    <3> HIDE DEF F
    <3> QED BY <2>2
  <2>4. WriteSessionAndHop(class, c) = Body(20, f)
    BY <1>3 DEF WriteSessionAndHop
  <2> HIDE DEF f
  <2>5. Summed(f, Len(f)) = 20
    BY <2>3 DEF Summed, WidthAt
  <2>6. Sound(Body(Summed(f, Len(f)), f), P)
    BY <2>3, Filled
  <2> QED BY <2>4, <2>5, <2>6
<1>4. CASE class = "IPV4_IF_ID_RSVP_HOP" /\ ~ IsPresent(c, "DATA_OUT_IF_HANDLE")
  <2> DEFINE f == << Addr("CONTROL_OUT_IF_ADDR"), Field("int", << >>, 4, 0) >>
  <2>1. "CONTROL_OUT_IF_ADDR" \in P
    BY <1>4 DEF requirements
  <2>2. Addr("CONTROL_OUT_IF_ADDR") \in F /\ Field("int", << >>, 4, 0) \in F
    BY <2>1, WSingle, WPads
  <2>3. f \in Seq(F)
    <3> HIDE DEF F
    <3> QED BY <2>2
  <2>4. WriteSessionAndHop(class, c) = Body(16, f)
    BY <1>4 DEF WriteSessionAndHop
  <2> HIDE DEF f
  <2> QED BY <1>4, <2>3, <2>4 DEF Formed, Body, NoTlv
<1> QED BY <1>1, <1>2, <1>3, <1>4

(* A style has an option vector where one of its flags is 1. *)
OnePresent(c, p) == IsPresent(c, p) /\ Read(c, p) = 1
Styled(c) == \E p \in StyleFlags : OnePresent(c, p)

LEMMA WriteTimeErrorStyleIn ==
  ASSUME NEW c, NEW P, NEW class,
         class \in {"TIME_VALUES", "ERROR_SPEC", "STYLE"},
         class # "STYLE" => requirements[class] \subseteq P,
         class = "STYLE" => Styled(c)
  PROVE  Sound(WriteTimeErrorStyle(class, c), P)
<1> DEFINE F == WFieldsOf(P)
<1>1. CASE class = "TIME_VALUES"
  <2> DEFINE f == << Word("REFRESH_PERIOD") >>
  <2>1. "REFRESH_PERIOD" \in P
    BY <1>1 DEF requirements
  <2>2. Word("REFRESH_PERIOD") \in F /\ Word("REFRESH_PERIOD").width = 4
    BY <2>1, WSingle, WPads
  <2>3. f \in Seq(F) /\ Len(f) = 1 /\ Len(f) \in 1..10 /\ f[1].width = 4
    <3> HIDE DEF F
    <3> QED BY <2>2
  <2>4. WriteTimeErrorStyle(class, c) = Body(4, f)
    BY <1>1 DEF WriteTimeErrorStyle
  <2> HIDE DEF f
  <2>5. Summed(f, Len(f)) = 4
    BY <2>3 DEF Summed, WidthAt
  <2>6. Sound(Body(Summed(f, Len(f)), f), P)
    BY <2>3, Filled
  <2> QED BY <2>4, <2>5, <2>6
<1>2. CASE class = "ERROR_SPEC"
  <2> DEFINE f == << Addr("ERROR_NODE_ADDR"), Char("ERROR_FLAGS"), Char("ERROR_CODE"),
                     Short("ERROR_VALUE") >>
  <2>1. /\ "ERROR_NODE_ADDR" \in P /\ "ERROR_FLAGS" \in P /\ "ERROR_CODE" \in P
       /\ "ERROR_VALUE" \in P
    BY <1>2 DEF requirements
  <2>2. /\ Addr("ERROR_NODE_ADDR") \in F /\ Addr("ERROR_NODE_ADDR").width = 4
       /\ Char("ERROR_FLAGS") \in F /\ Char("ERROR_FLAGS").width = 1
       /\ Char("ERROR_CODE") \in F /\ Char("ERROR_CODE").width = 1
       /\ Short("ERROR_VALUE") \in F /\ Short("ERROR_VALUE").width = 2
    BY <2>1, WSingle, WPads
  <2>3. /\ f \in Seq(F) /\ Len(f) = 4 /\ Len(f) \in 1..10 /\ f[1].width = 4 /\ f[2].width = 1
       /\ f[3].width = 1 /\ f[4].width = 2
    <3> HIDE DEF F
    <3> QED BY <2>2
  <2>4. WriteTimeErrorStyle(class, c) = Body(8, f)
    BY <1>2 DEF WriteTimeErrorStyle
  <2> HIDE DEF f
  <2>5. Summed(f, Len(f)) = 8
    BY <2>3 DEF Summed, WidthAt
  <2>6. Sound(Body(Summed(f, Len(f)), f), P)
    BY <2>3, Filled
  <2> QED BY <2>4, <2>5, <2>6
<1>3. CASE class = "STYLE" /\ OnePresent(c, "WILDCARD_FILTER")
  <2> DEFINE f == << Pad(3), Mark(1, 17) >>
  <2>2. /\ Pad(3) \in F /\ Pad(3).width = 3
       /\ Mark(1, 17) \in F /\ Mark(1, 17).width = 1
    BY WPads
  <2>3. f \in Seq(F) /\ Len(f) = 2 /\ Len(f) \in 1..10 /\ f[1].width = 3 /\ f[2].width = 1
    <3> HIDE DEF F
    <3> QED BY <2>2
  <2>4. WriteTimeErrorStyle(class, c) = Body(4, f)
    BY <1>3 DEF WriteTimeErrorStyle, OnePresent
  <2> HIDE DEF f
  <2>5. Summed(f, Len(f)) = 4
    BY <2>3 DEF Summed, WidthAt
  <2>6. Sound(Body(Summed(f, Len(f)), f), P)
    BY <2>3, Filled
  <2> QED BY <2>4, <2>5, <2>6
<1>4. CASE class = "STYLE" /\ ~ OnePresent(c, "WILDCARD_FILTER") /\ OnePresent(c, "FIXED_FILTER")
  <2> DEFINE f == << Pad(3), Mark(1, 10) >>
  <2>2. /\ Pad(3) \in F /\ Pad(3).width = 3
       /\ Mark(1, 10) \in F /\ Mark(1, 10).width = 1
    BY WPads
  <2>3. f \in Seq(F) /\ Len(f) = 2 /\ Len(f) \in 1..10 /\ f[1].width = 3 /\ f[2].width = 1
    <3> HIDE DEF F
    <3> QED BY <2>2
  <2>4. WriteTimeErrorStyle(class, c) = Body(4, f)
    BY <1>4 DEF WriteTimeErrorStyle, OnePresent
  <2> HIDE DEF f
  <2>5. Summed(f, Len(f)) = 4
    BY <2>3 DEF Summed, WidthAt
  <2>6. Sound(Body(Summed(f, Len(f)), f), P)
    BY <2>3, Filled
  <2> QED BY <2>4, <2>5, <2>6
<1>5. CASE class = "STYLE" /\ ~ OnePresent(c, "WILDCARD_FILTER") /\ ~ OnePresent(c, "FIXED_FILTER")
  <2> DEFINE f == << Pad(3), Mark(1, 18) >>
  <2>2. /\ Pad(3) \in F /\ Pad(3).width = 3
       /\ Mark(1, 18) \in F /\ Mark(1, 18).width = 1
    BY WPads
  <2>3. f \in Seq(F) /\ Len(f) = 2 /\ Len(f) \in 1..10 /\ f[1].width = 3 /\ f[2].width = 1
    <3> HIDE DEF F
    <3> QED BY <2>2
  <2>4. WriteTimeErrorStyle(class, c) = Body(4, f)
    BY <1>5 DEF WriteTimeErrorStyle, OnePresent, Styled, StyleFlags
  <2> HIDE DEF f
  <2>5. Summed(f, Len(f)) = 4
    BY <2>3 DEF Summed, WidthAt
  <2>6. Sound(Body(Summed(f, Len(f)), f), P)
    BY <2>3, Filled
  <2> QED BY <2>4, <2>5, <2>6
<1> QED BY <1>1, <1>2, <1>3, <1>4, <1>5

LEMMA TokensSound ==
  ASSUME NEW P, TokenBucket \subseteq P
  PROVE  Sound(Body(20, TokenFields), P)
<1> DEFINE F == WFieldsOf(P)
           f == << Float("TOKEN_BUCKET_RATE"), Float("TOKEN_BUCKET_SIZE"),
                   Float("PEAK_DATA_RATE"), Word("MINIMUM_POLICED_UNIT"),
                   Word("MAXIMUM_PACKET_SIZE") >>
<1>1. /\ "TOKEN_BUCKET_RATE" \in P /\ "TOKEN_BUCKET_SIZE" \in P /\ "PEAK_DATA_RATE" \in P
      /\ "MINIMUM_POLICED_UNIT" \in P /\ "MAXIMUM_PACKET_SIZE" \in P
  BY DEF TokenBucket
<1>2. /\ Float("TOKEN_BUCKET_RATE") \in F /\ Float("TOKEN_BUCKET_RATE").width = 4
      /\ Float("TOKEN_BUCKET_SIZE") \in F /\ Float("TOKEN_BUCKET_SIZE").width = 4
      /\ Float("PEAK_DATA_RATE") \in F /\ Float("PEAK_DATA_RATE").width = 4
      /\ Word("MINIMUM_POLICED_UNIT") \in F /\ Word("MINIMUM_POLICED_UNIT").width = 4
      /\ Word("MAXIMUM_PACKET_SIZE") \in F /\ Word("MAXIMUM_PACKET_SIZE").width = 4
  BY <1>1, WSingle, WPads
<1>3. /\ f \in Seq(F) /\ Len(f) = 5 /\ Len(f) \in 1..10 /\ f[1].width = 4 /\ f[2].width = 4
      /\ f[3].width = 4 /\ f[4].width = 4 /\ f[5].width = 4
  <2> HIDE DEF F
  <2> QED BY <1>2
<1>4. TokenFields = f
  BY DEF TokenFields
<1> HIDE DEF f
<1>5. Summed(f, Len(f)) = 20
  BY <1>3 DEF Summed, WidthAt
<1>6. Sound(Body(Summed(f, Len(f)), f), P)
  BY <1>3, Filled
<1> QED BY <1>4, <1>5, <1>6

LEMMA SonetSound ==
  ASSUME NEW P, Sonet \subseteq P
  PROVE  Sound(Body(16, SonetFields), P)
<1> DEFINE F == WFieldsOf(P)
           f == << Char("SSDH_SIGNAL_TYPE"), Char("SSDH_RCC"), Short("SSDH_NCC"),
                   Short("SSDH_NVC"), Short("SSDH_MULTIPLIER"),
                   Word("SSDH_TRANSPARENCY"), Word("SSDH_PROFILE") >>
<1>1. /\ "SSDH_SIGNAL_TYPE" \in P /\ "SSDH_RCC" \in P /\ "SSDH_NCC" \in P /\ "SSDH_NVC" \in P
      /\ "SSDH_MULTIPLIER" \in P /\ "SSDH_TRANSPARENCY" \in P /\ "SSDH_PROFILE" \in P
  BY DEF Sonet
<1>2. /\ Char("SSDH_SIGNAL_TYPE") \in F /\ Char("SSDH_SIGNAL_TYPE").width = 1
      /\ Char("SSDH_RCC") \in F /\ Char("SSDH_RCC").width = 1
      /\ Short("SSDH_NCC") \in F /\ Short("SSDH_NCC").width = 2
      /\ Short("SSDH_NVC") \in F /\ Short("SSDH_NVC").width = 2
      /\ Short("SSDH_MULTIPLIER") \in F /\ Short("SSDH_MULTIPLIER").width = 2
      /\ Word("SSDH_TRANSPARENCY") \in F /\ Word("SSDH_TRANSPARENCY").width = 4
      /\ Word("SSDH_PROFILE") \in F /\ Word("SSDH_PROFILE").width = 4
  BY <1>1, WSingle, WPads
<1>3. /\ f \in Seq(F) /\ Len(f) = 7 /\ Len(f) \in 1..10 /\ f[1].width = 1 /\ f[2].width = 1
      /\ f[3].width = 2 /\ f[4].width = 2 /\ f[5].width = 2 /\ f[6].width = 4
      /\ f[7].width = 4
  <2> HIDE DEF F
  <2> QED BY <1>2
<1>4. SonetFields = f
  BY DEF SonetFields
<1> HIDE DEF f
<1>5. Summed(f, Len(f)) = 16
  BY <1>3 DEF Summed, WidthAt
<1>6. Sound(Body(Summed(f, Len(f)), f), P)
  BY <1>3, Filled
<1> QED BY <1>4, <1>5, <1>6

LEMMA EthernetSound ==
  ASSUME NEW P, EthernetBandwidth \subseteq P, EthernetLink \subseteq P
  PROVE  Sound(Body(28, EthernetFields), P)
<1> DEFINE F == WFieldsOf(P)
           f == << Field("granularity", << "ETHERNET_SW_GRANUALITY" >>, 2, 0), Pad(2),
                   Mark(4, 129), Char("ETHERNET_PROFILE"),
                   Char("ETHERNET_INDEX"), Pad(2), Float("ETHERNET_CIR"),
                   Float("ETHERNET_CBS"), Float("ETHERNET_EIR"),
                   Float("ETHERNET_EBS") >>
<1>1. /\ "ETHERNET_SW_GRANUALITY" \in P /\ "ETHERNET_PROFILE" \in P /\ "ETHERNET_INDEX" \in P
      /\ "ETHERNET_CIR" \in P /\ "ETHERNET_CBS" \in P /\ "ETHERNET_EIR" \in P
      /\ "ETHERNET_EBS" \in P
  BY DEF EthernetBandwidth, EthernetLink
<1>2. /\ Field("granularity", << "ETHERNET_SW_GRANUALITY" >>, 2, 0) \in F /\ Field("granularity", << "ETHERNET_SW_GRANUALITY" >>, 2, 0).width = 2
      /\ Pad(2) \in F /\ Pad(2).width = 2
      /\ Mark(4, 129) \in F /\ Mark(4, 129).width = 4
      /\ Char("ETHERNET_PROFILE") \in F /\ Char("ETHERNET_PROFILE").width = 1
      /\ Char("ETHERNET_INDEX") \in F /\ Char("ETHERNET_INDEX").width = 1
      /\ Float("ETHERNET_CIR") \in F /\ Float("ETHERNET_CIR").width = 4
      /\ Float("ETHERNET_CBS") \in F /\ Float("ETHERNET_CBS").width = 4
      /\ Float("ETHERNET_EIR") \in F /\ Float("ETHERNET_EIR").width = 4
      /\ Float("ETHERNET_EBS") \in F /\ Float("ETHERNET_EBS").width = 4
  BY <1>1, WSingle, WPads, WSpecial
<1>3. /\ f \in Seq(F) /\ Len(f) = 10 /\ Len(f) \in 1..10 /\ f[1].width = 2 /\ f[2].width = 2
      /\ f[3].width = 4 /\ f[4].width = 1 /\ f[5].width = 1 /\ f[6].width = 2
      /\ f[7].width = 4 /\ f[8].width = 4 /\ f[9].width = 4 /\ f[10].width = 4
  <2> HIDE DEF F
  <2> QED BY <1>2
<1>4. EthernetFields = f
  BY DEF EthernetFields
<1> HIDE DEF f
<1>5. Summed(f, Len(f)) = 28
  BY <1>3 DEF Summed, WidthAt
<1>6. Sound(Body(Summed(f, Len(f)), f), P)
  BY <1>3, Filled
<1> QED BY <1>4, <1>5, <1>6

LEMMA MarkedTokens ==
  ASSUME NEW P, TokenBucket \subseteq P, NEW n \in {1, 2, 5}
  PROVE  Sound(Body(32, << Mark(12, n) >> \o TokenFields), P)
<1> DEFINE F == WFieldsOf(P)
           f == << Mark(12, n) >>
<1>1. Mark(12, n) \in F /\ Mark(12, n).width = 12
  <2>1. \A k \in {1, 2, 5} : Mark(12, k) \in F /\ Mark(12, k).width = 12
    BY WPads
  <2> QED BY <2>1
<1>2. f \in Seq(F) /\ Len(f) = 1 /\ Len(f) \in 1..10 /\ f[1].width = 12
  <2> HIDE DEF F
  <2> QED BY <1>1
<1> HIDE DEF f
<1>3. Summed(f, Len(f)) = 12
  BY <1>2 DEF Summed, WidthAt
<1>4. Sound(Body(Summed(f, Len(f)), f), P)
  BY <1>2, Filled
<1>5. Sound(Body(12, f), P) /\ Sound(Body(20, TokenFields), P)
  BY <1>3, <1>4, TokensSound
<1> DEFINE x == 12
           y == 20
           t == TokenFields
<1>6. x + y = 32
  OBVIOUS
<1>7. Sound(Body(x, f), P) /\ Sound(Body(y, t), P)
  BY <1>5
<1> HIDE DEF x, y, t
<1>8. Sound(Body(x + y, f \o t), P)
  BY <1>7, BothSound
<1> QED BY <1>6, <1>8 DEF f, t

LEMMA WriteFlowspecIn ==
  ASSUME NEW c, NEW P, NEW class,
         class \in {"TOKEN_FLOWSPEC", "SONETSDH_FLOWSPEC", "ETHERNET_FLOWSPEC"},
         requirements[class] \subseteq P,
         IsPresent(c, "RATE") => "RATE" \in P,
         IsPresent(c, "SLACK_TERM") => "SLACK_TERM" \in P,
         class = "ETHERNET_FLOWSPEC" => EthernetLink \subseteq P
  PROVE  Sound(WriteFlowspec(class, c), P)
<1> DEFINE F == WFieldsOf(P)
           both == IsPresent(c, "RATE") /\ IsPresent(c, "SLACK_TERM")
<1>1. CASE class = "TOKEN_FLOWSPEC" /\ ~ both
  <2>1. TokenBucket \subseteq P
    BY <1>1 DEF requirements
  <2> DEFINE n == 5
  <2>2. n \in {1, 2, 5}
    OBVIOUS
  <2>3. WriteFlowspec(class, c) = Body(32, << Mark(12, n) >> \o TokenFields)
    BY <1>1 DEF WriteFlowspec
  <2> HIDE DEF n
  <2> QED BY <2>1, <2>2, <2>3, MarkedTokens
<1>2. CASE class = "TOKEN_FLOWSPEC" /\ both
  <2>1. TokenBucket \subseteq P /\ "RATE" \in P /\ "SLACK_TERM" \in P
    BY <1>2 DEF requirements
  <2> DEFINE n == 2
             f == << Mark(4, 130), Float("RATE"), Word("SLACK_TERM") >>
             t == << Mark(12, n) >> \o TokenFields
  <2>2. n \in {1, 2, 5}
    OBVIOUS
  <2>3. WriteFlowspec(class, c) = Body(44, t \o f)
    BY <1>2 DEF WriteFlowspec
  <2>4. Sound(Body(32, t), P)
    <3> HIDE DEF n
    <3> QED BY <2>1, <2>2, MarkedTokens
  <2>5. /\ Mark(4, 130) \in F /\ Mark(4, 130).width = 4
        /\ Float("RATE") \in F /\ Float("RATE").width = 4
        /\ Word("SLACK_TERM") \in F /\ Word("SLACK_TERM").width = 4
    BY <2>1, WSingle, WPads
  <2>6. /\ f \in Seq(F) /\ Len(f) = 3 /\ Len(f) \in 1..10
        /\ f[1].width = 4 /\ f[2].width = 4 /\ f[3].width = 4
    <3> HIDE DEF F
    <3> QED BY <2>5
  <2> HIDE DEF f, t
  <2>7. Summed(f, Len(f)) = 12
    BY <2>6 DEF Summed, WidthAt
  <2>8. Sound(Body(Summed(f, Len(f)), f), P)
    BY <2>6, Filled
  <2> DEFINE x == 32
             y == 12
  <2>9. Sound(Body(x, t), P) /\ Sound(Body(y, f), P) /\ x + y = 44
    BY <2>4, <2>7, <2>8
  <2> HIDE DEF x, y
  <2>10. Sound(Body(x + y, t \o f), P)
    BY <2>9, BothSound
  <2> QED BY <2>3, <2>9, <2>10
<1>3. CASE class = "SONETSDH_FLOWSPEC"
  <2>1. Sonet \subseteq P
    BY <1>3 DEF requirements
  <2> QED BY <1>3, <2>1, SonetSound DEF WriteFlowspec
<1>4. CASE class = "ETHERNET_FLOWSPEC"
  <2>1. EthernetBandwidth \subseteq P /\ EthernetLink \subseteq P
    BY <1>4 DEF requirements
  <2> QED BY <1>4, <2>1, EthernetSound DEF WriteFlowspec
<1> QED BY <1>1, <1>2, <1>3, <1>4

LEMMA WriteSenderAndFilterIn ==
  ASSUME NEW c, NEW P, NEW class,
         class \in {"FILTER_SPEC", "SENDER_TEMPLATE", "TOKEN_SENDER_TSPEC", "SONETSDH_SENDER_TSPEC", "ETHERNET_SENDER_TSPEC"},
         requirements[class] \subseteq P
  PROVE  Sound(WriteSenderAndFilter(class, c), P)
<1> DEFINE F == WFieldsOf(P)
<1>1. CASE class = "FILTER_SPEC"
  <2> DEFINE f == << Addr("FILTER_SRC_ADDR"), Pad(2), Short("FILTER_SRC_PORT") >>
  <2>1. "FILTER_SRC_ADDR" \in P /\ "FILTER_SRC_PORT" \in P
    BY <1>1 DEF requirements
  <2>2. /\ Addr("FILTER_SRC_ADDR") \in F /\ Addr("FILTER_SRC_ADDR").width = 4
       /\ Pad(2) \in F /\ Pad(2).width = 2
       /\ Short("FILTER_SRC_PORT") \in F /\ Short("FILTER_SRC_PORT").width = 2
    BY <2>1, WSingle, WPads
  <2>3. /\ f \in Seq(F) /\ Len(f) = 3 /\ Len(f) \in 1..10 /\ f[1].width = 4 /\ f[2].width = 2
       /\ f[3].width = 2
    <3> HIDE DEF F
    <3> QED BY <2>2
  <2>4. WriteSenderAndFilter(class, c) = Body(8, f)
    BY <1>1 DEF WriteSenderAndFilter
  <2> HIDE DEF f
  <2>5. Summed(f, Len(f)) = 8
    BY <2>3 DEF Summed, WidthAt
  <2>6. Sound(Body(Summed(f, Len(f)), f), P)
    BY <2>3, Filled
  <2> QED BY <2>4, <2>5, <2>6
<1>2. CASE class = "SENDER_TEMPLATE"
  <2> DEFINE f == << Addr("SENDER_SRC_ADDR"), Pad(2), Short("SENDER_SRC_ID") >>
  <2>1. "SENDER_SRC_ADDR" \in P /\ "SENDER_SRC_ID" \in P
    BY <1>2 DEF requirements
  <2>2. /\ Addr("SENDER_SRC_ADDR") \in F /\ Addr("SENDER_SRC_ADDR").width = 4
       /\ Pad(2) \in F /\ Pad(2).width = 2
       /\ Short("SENDER_SRC_ID") \in F /\ Short("SENDER_SRC_ID").width = 2
    BY <2>1, WSingle, WPads
  <2>3. /\ f \in Seq(F) /\ Len(f) = 3 /\ Len(f) \in 1..10 /\ f[1].width = 4 /\ f[2].width = 2
       /\ f[3].width = 2
    <3> HIDE DEF F
    <3> QED BY <2>2
  <2>4. WriteSenderAndFilter(class, c) = Body(8, f)
    BY <1>2 DEF WriteSenderAndFilter
  <2> HIDE DEF f
  <2>5. Summed(f, Len(f)) = 8
    BY <2>3 DEF Summed, WidthAt
  <2>6. Sound(Body(Summed(f, Len(f)), f), P)
    BY <2>3, Filled
  <2> QED BY <2>4, <2>5, <2>6
<1>3. CASE class = "TOKEN_SENDER_TSPEC"
  <2>1. TokenBucket \subseteq P
    BY <1>3 DEF requirements
  <2> DEFINE n == 1
  <2>2. n \in {1, 2, 5}
    OBVIOUS
  <2>3. WriteSenderAndFilter(class, c) = Body(32, << Mark(12, n) >> \o TokenFields)
    BY <1>3 DEF WriteSenderAndFilter
  <2> HIDE DEF n
  <2> QED BY <2>1, <2>2, <2>3, MarkedTokens
<1>4. CASE class = "SONETSDH_SENDER_TSPEC"
  <2>1. Sonet \subseteq P
    BY <1>4 DEF requirements
  <2> QED BY <1>4, <2>1, SonetSound DEF WriteSenderAndFilter
<1>5. CASE class = "ETHERNET_SENDER_TSPEC"
  <2>1. EthernetBandwidth \subseteq P /\ EthernetLink \subseteq P
    BY <1>5 DEF requirements
  <2> QED BY <1>5, <2>1, EthernetSound DEF WriteSenderAndFilter
<1> QED BY <1>1, <1>2, <1>3, <1>4, <1>5

(* The parameters a store has a value of. *)
Held(c) == {p \in Parameters : c.data[p] # << >>}

LEMMA RouteSound ==
  ASSUME NEW P, "ERO" \in P, NEW n \in Nat
  PROVE  Sound(Body(8 * n, [i \in 1..n |-> Field("ero", << "ERO" >>, 8, i)]), P)
<1> DEFINE F == WFieldsOf(P)
           f == [i \in 1..n |-> Field("ero", << "ERO" >>, 8, i)]
<1>1. \A i \in 1..n : Field("ero", << "ERO" >>, 8, i) \in F /\ Field("ero", << "ERO" >>, 8, i).width = 8
  BY WSpecial
<1>2. f \in Seq(F) /\ DOMAIN f = 1..n /\ \A i \in 1..n : f[i].width = 8
  <2> HIDE DEF F
  <2> QED BY <1>1
<1> HIDE DEF f
<1>3. PICK b : Widths(b, f, n)
  BY <1>2, WidthsInTurn
<1> DEFINE T == {k \in 0..n : b[k] = 8 * k}
<1>4. 0 \in T
  BY <1>3 DEF Widths
<1>5. ASSUME NEW k \in 0..(n - 1), k \in T PROVE k + 1 \in T
  <2>1. k + 1 \in 1..n /\ k + 1 \in 0..n
    OBVIOUS
  <2>2. b[k + 1] = b[k] + f[k + 1].width
    BY <1>3 DEF Widths
  <2>3. f[k + 1].width = 8 /\ b[k] = 8 * k
    BY <1>2, <1>5, <2>1
  <2> QED BY <2>1, <2>2, <2>3
<1>6. b[n] = 8 * n
  <2> HIDE DEF T
  <2>1. 0..n \subseteq T
    BY <1>4, <1>5, UpTo
  <2>2. n \in T
    BY <2>1
  <2> QED BY <2>2 DEF T
<1>7. BytesOf(f) = 8 * n
  BY <1>3, <1>6 DEF Widths
<1> QED BY <1>2, <1>7 DEF Sound, Body, f

LEMMA WriteLabelAndRouteIn ==
  ASSUME NEW c, NEW P, NEW class,
         class \in {"RESV_CONFIRM", "GENERALIZED_LABEL", "GENERALIZED_LABEL_REQUEST", "ERO"},
         requirements[class] \subseteq P,
         NEW V, c \in StoresOver(V)
  PROVE  Sound(WriteLabelAndRoute(class, c), P)
<1> DEFINE F == WFieldsOf(P)
<1>1. CASE class = "RESV_CONFIRM"
  <2> DEFINE f == << Addr("RESV_CONFIRM_RECV_ADDR") >>
  <2>1. "RESV_CONFIRM_RECV_ADDR" \in P
    BY <1>1 DEF requirements
  <2>2. Addr("RESV_CONFIRM_RECV_ADDR") \in F /\ Addr("RESV_CONFIRM_RECV_ADDR").width = 4
    BY <2>1, WSingle, WPads
  <2>3. f \in Seq(F) /\ Len(f) = 1 /\ Len(f) \in 1..10 /\ f[1].width = 4
    <3> HIDE DEF F
    <3> QED BY <2>2
  <2>4. WriteLabelAndRoute(class, c) = Body(4, f)
    BY <1>1 DEF WriteLabelAndRoute
  <2> HIDE DEF f
  <2>5. Summed(f, Len(f)) = 4
    BY <2>3 DEF Summed, WidthAt
  <2>6. Sound(Body(Summed(f, Len(f)), f), P)
    BY <2>3, Filled
  <2> QED BY <2>4, <2>5, <2>6
<1>2. CASE class = "GENERALIZED_LABEL_REQUEST"
  <2> DEFINE f == << Char("LSP_ENC_TYPE"), Char("LSP_SWITCHING_TYPE"), Short("LSP_GPID") >>
  <2>1. "LSP_ENC_TYPE" \in P /\ "LSP_SWITCHING_TYPE" \in P /\ "LSP_GPID" \in P
    BY <1>2 DEF requirements
  <2>2. /\ Char("LSP_ENC_TYPE") \in F /\ Char("LSP_ENC_TYPE").width = 1
       /\ Char("LSP_SWITCHING_TYPE") \in F /\ Char("LSP_SWITCHING_TYPE").width = 1
       /\ Short("LSP_GPID") \in F /\ Short("LSP_GPID").width = 2
    BY <2>1, WSingle, WPads
  <2>3. /\ f \in Seq(F) /\ Len(f) = 3 /\ Len(f) \in 1..10 /\ f[1].width = 1 /\ f[2].width = 1
       /\ f[3].width = 2
    <3> HIDE DEF F
    <3> QED BY <2>2
  <2>4. WriteLabelAndRoute(class, c) = Body(4, f)
    BY <1>2 DEF WriteLabelAndRoute
  <2> HIDE DEF f
  <2>5. Summed(f, Len(f)) = 4
    BY <2>3 DEF Summed, WidthAt
  <2>6. Sound(Body(Summed(f, Len(f)), f), P)
    BY <2>3, Filled
  <2> QED BY <2>4, <2>5, <2>6
<1>3. CASE class = "GENERALIZED_LABEL"
  <2> DEFINE size == Pad4(c.void_size["LABEL"])
             f == << Field("label", << "LABEL" >>, size, 0) >>
  <2>1. "LABEL" \in P
    BY <1>3 DEF requirements
  <2>2. size \in Int
    <3>1. "LABEL" \in Parameters
      BY DEF Parameters, PT_VS
    <3>2. c.void_size["LABEL"] \in Int
      BY <3>1, StoreHas
    <3> QED BY <3>2 DEF Pad4
  <2>3. WriteLabelAndRoute(class, c) = Body(size, f)
    BY <1>3 DEF WriteLabelAndRoute
  <2> HIDE DEF size
  <2>4. /\ Field("label", << "LABEL" >>, size, 0) \in F
        /\ Field("label", << "LABEL" >>, size, 0).width = size
    BY <2>1, <2>2, WSpecial
  <2>5. f \in Seq(F) /\ Len(f) = 1 /\ Len(f) \in 1..10 /\ f[1].width = size
    <3> HIDE DEF F
    <3> QED BY <2>4
  <2> HIDE DEF f
  <2>6. Summed(f, Len(f)) = size
    BY <2>2, <2>5 DEF Summed, WidthAt
  <2>7. Sound(Body(Summed(f, Len(f)), f), P)
    BY <2>5, Filled
  <2> QED BY <2>3, <2>6, <2>7
<1>4. CASE class = "ERO"
  <2>1. "ERO" \in P
    BY <1>4 DEF requirements
  <2> DEFINE n == Len(c.data["ERO"])
  <2>2. n \in Nat /\ DOMAIN c.data["ERO"] = 1..n
    <3>1. "ERO" \in Parameters
      BY DEF Parameters, PT_VS
    <3>2. c.data["ERO"] \in Seq(V)
      BY <3>1, StoreHas
    <3> QED BY <3>2
  <2>3. WriteLabelAndRoute(class, c) =
          Body(8 * n, [i \in 1..n |-> Field("ero", << "ERO" >>, 8, i)])
    BY <1>4, <2>2 DEF WriteLabelAndRoute
  <2> HIDE DEF n
  <2> QED BY <2>1, <2>2, <2>3, RouteSound
<1> QED BY <1>1, <1>2, <1>3, <1>4

LEMMA WriteHelloAndIdIn ==
  ASSUME NEW c, NEW P, NEW class,
         class \in {"HELLO_REQUEST", "HELLO_ACK", "MESSAGE_ID", "MESSAGE_ID_ACK", "MESSAGE_ID_NACK"},
         requirements[class] \subseteq P
  PROVE  Sound(WriteHelloAndId(class, c), P)
<1> DEFINE F == WFieldsOf(P)
<1>1. CASE class \in {"HELLO_REQUEST", "HELLO_ACK"}
  <2> DEFINE f == << Word("HELLO_SRC_INSTANCE"), Word("HELLO_DST_INSTANCE") >>
  <2>1. "HELLO_SRC_INSTANCE" \in P /\ "HELLO_DST_INSTANCE" \in P
    BY <1>1 DEF requirements
  <2>2. /\ Word("HELLO_SRC_INSTANCE") \in F /\ Word("HELLO_SRC_INSTANCE").width = 4
       /\ Word("HELLO_DST_INSTANCE") \in F /\ Word("HELLO_DST_INSTANCE").width = 4
    BY <2>1, WSingle, WPads
  <2>3. f \in Seq(F) /\ Len(f) = 2 /\ Len(f) \in 1..10 /\ f[1].width = 4 /\ f[2].width = 4
    <3> HIDE DEF F
    <3> QED BY <2>2
  <2>4. WriteHelloAndId(class, c) = Body(8, f)
    BY <1>1 DEF WriteHelloAndId
  <2> HIDE DEF f
  <2>5. Summed(f, Len(f)) = 8
    BY <2>3 DEF Summed, WidthAt
  <2>6. Sound(Body(Summed(f, Len(f)), f), P)
    BY <2>3, Filled
  <2> QED BY <2>4, <2>5, <2>6
<1>2. CASE class \in {"MESSAGE_ID", "MESSAGE_ID_ACK", "MESSAGE_ID_NACK"}
  <2> DEFINE f == << Char("MSG_ID_FLAGS"), Int24("MSG_ID_EPOCH"), Word("MSG_ID_ID") >>
  <2>1. "MSG_ID_FLAGS" \in P /\ "MSG_ID_EPOCH" \in P /\ "MSG_ID_ID" \in P
    BY <1>2 DEF requirements, MessageId
  <2>2. /\ Char("MSG_ID_FLAGS") \in F /\ Char("MSG_ID_FLAGS").width = 1
       /\ Int24("MSG_ID_EPOCH") \in F /\ Int24("MSG_ID_EPOCH").width = 3
       /\ Word("MSG_ID_ID") \in F /\ Word("MSG_ID_ID").width = 4
    BY <2>1, WSingle, WPads
  <2>3. /\ f \in Seq(F) /\ Len(f) = 3 /\ Len(f) \in 1..10 /\ f[1].width = 1 /\ f[2].width = 3
       /\ f[3].width = 4
    <3> HIDE DEF F
    <3> QED BY <2>2
  <2>4. WriteHelloAndId(class, c) = Body(8, f)
    BY <1>2 DEF WriteHelloAndId
  <2> HIDE DEF f
  <2>5. Summed(f, Len(f)) = 8
    BY <2>3 DEF Summed, WidthAt
  <2>6. Sound(Body(Summed(f, Len(f)), f), P)
    BY <2>3, Filled
  <2> QED BY <2>4, <2>5, <2>6
<1> QED BY <1>1, <1>2

LEMMA WriteStatusAndAttributeIn ==
  ASSUME NEW c, NEW P, NEW class,
         class \in {"UPSTREAM_LABEL", "RESTART_CAP", "NOTIFY_REQUEST", "ADMIN_STATUS", "SESSION_ATTRIBUTE"},
         requirements[class] \subseteq P,
         NEW V, c \in StoresOver(V), class = "SESSION_ATTRIBUTE" => c.data["SESSION_NAME"] # << >>
  PROVE  Sound(WriteStatusAndAttribute(class, c), P)
<1> DEFINE F == WFieldsOf(P)
<1>1. CASE class = "UPSTREAM_LABEL"
  <2> DEFINE f == << Word("UPSTREAM_LABEL") >>
  <2>1. "UPSTREAM_LABEL" \in P
    BY <1>1 DEF requirements
  <2>2. Word("UPSTREAM_LABEL") \in F /\ Word("UPSTREAM_LABEL").width = 4
    BY <2>1, WSingle, WPads
  <2>3. f \in Seq(F) /\ Len(f) = 1 /\ Len(f) \in 1..10 /\ f[1].width = 4
    <3> HIDE DEF F
    <3> QED BY <2>2
  <2>4. WriteStatusAndAttribute(class, c) = Body(4, f)
    BY <1>1 DEF WriteStatusAndAttribute
  <2> HIDE DEF f
  <2>5. Summed(f, Len(f)) = 4
    BY <2>3 DEF Summed, WidthAt
  <2>6. Sound(Body(Summed(f, Len(f)), f), P)
    BY <2>3, Filled
  <2> QED BY <2>4, <2>5, <2>6
<1>2. CASE class = "RESTART_CAP"
  <2> DEFINE f == << Word("RESTART_TIME"), Word("RECOVERY_TIME") >>
  <2>1. "RESTART_TIME" \in P /\ "RECOVERY_TIME" \in P
    BY <1>2 DEF requirements
  <2>2. /\ Word("RESTART_TIME") \in F /\ Word("RESTART_TIME").width = 4
       /\ Word("RECOVERY_TIME") \in F /\ Word("RECOVERY_TIME").width = 4
    BY <2>1, WSingle, WPads
  <2>3. f \in Seq(F) /\ Len(f) = 2 /\ Len(f) \in 1..10 /\ f[1].width = 4 /\ f[2].width = 4
    <3> HIDE DEF F
    <3> QED BY <2>2
  <2>4. WriteStatusAndAttribute(class, c) = Body(8, f)
    BY <1>2 DEF WriteStatusAndAttribute
  <2> HIDE DEF f
  <2>5. Summed(f, Len(f)) = 8
    BY <2>3 DEF Summed, WidthAt
  <2>6. Sound(Body(Summed(f, Len(f)), f), P)
    BY <2>3, Filled
  <2> QED BY <2>4, <2>5, <2>6
<1>3. CASE class = "NOTIFY_REQUEST"
  <2> DEFINE f == << Addr("NOTIFY_ADDRESS") >>
  <2>1. "NOTIFY_ADDRESS" \in P
    BY <1>3 DEF requirements
  <2>2. Addr("NOTIFY_ADDRESS") \in F /\ Addr("NOTIFY_ADDRESS").width = 4
    BY <2>1, WSingle, WPads
  <2>3. f \in Seq(F) /\ Len(f) = 1 /\ Len(f) \in 1..10 /\ f[1].width = 4
    <3> HIDE DEF F
    <3> QED BY <2>2
  <2>4. WriteStatusAndAttribute(class, c) = Body(4, f)
    BY <1>3 DEF WriteStatusAndAttribute
  <2> HIDE DEF f
  <2>5. Summed(f, Len(f)) = 4
    BY <2>3 DEF Summed, WidthAt
  <2>6. Sound(Body(Summed(f, Len(f)), f), P)
    BY <2>3, Filled
  <2> QED BY <2>4, <2>5, <2>6
<1>4. CASE class = "ADMIN_STATUS"
  <2> DEFINE f == << Field("rtad", << "ADMIN_STATUS_RTAD_FLAGS" >>, 4, 0) >>
  <2>1. "ADMIN_STATUS_RTAD_FLAGS" \in P
    BY <1>4 DEF requirements
  <2>2. /\ Field("rtad", << "ADMIN_STATUS_RTAD_FLAGS" >>, 4, 0) \in F
        /\ Field("rtad", << "ADMIN_STATUS_RTAD_FLAGS" >>, 4, 0).width = 4
    BY <2>1, WSpecial
  <2>3. f \in Seq(F) /\ Len(f) = 1 /\ Len(f) \in 1..10 /\ f[1].width = 4
    <3> HIDE DEF F
    <3> QED BY <2>2
  <2>4. WriteStatusAndAttribute(class, c) = Body(4, f)
    BY <1>4 DEF WriteStatusAndAttribute
  <2> HIDE DEF f
  <2>5. Summed(f, Len(f)) = 4
    BY <2>3 DEF Summed, WidthAt
  <2>6. Sound(Body(Summed(f, Len(f)), f), P)
    BY <2>3, Filled
  <2> QED BY <2>4, <2>5, <2>6
<1>5. CASE class = "SESSION_ATTRIBUTE"
  <2> DEFINE size == Pad4(Read(c, "SESSION_NAME"))
             n == size + 1
             p == "SESSION_NAME"
             flags == SessionFlags
             f == << Char("SETUP_PRIORITY"), Char("HOLDING_PRIORITY"),
                     Field("flags", flags, 1, 0), Field("name", << p >>, n, 0) >>
  <2>1. /\ "SESSION_NAME" \in P /\ "SETUP_PRIORITY" \in P /\ "HOLDING_PRIORITY" \in P
        /\ "LOCAL_PROTECTION_FLAG" \in P /\ "LABEL_RECORDING_FLAG" \in P
        /\ "SE_STYLE_FLAG" \in P
    BY <1>5 DEF requirements
  <2>2. size \in Int /\ n \in Int
    <3>1. /\ "SESSION_NAME" \in Parameters /\ "SESSION_NAME" \notin PT_TAB
      BY ListTypes
    <3>2. c.data["SESSION_NAME"] \in Seq(Int) /\ c.data["SESSION_NAME"] # << >>
      BY <1>5, <3>1, StoreHas
    <3>3. Read(c, "SESSION_NAME") \in Int
      BY <3>1, <3>2 DEF Read, ReadAt
    <3> QED BY <3>3 DEF Pad4
  <2>3. WriteStatusAndAttribute(class, c) = Body(size + 4, f)
    BY <1>5 DEF WriteStatusAndAttribute
  <2>4. flags \in Seq(P) /\ p \in P
    BY <2>1 DEF SessionFlags
  <2>5. p = "SESSION_NAME"
    OBVIOUS
  <2> HIDE DEF size, n, p, flags
  <2>6. Field("name", << p >>, n, 0) \in F /\ Field("name", << p >>, n, 0).width = n
    BY <2>2, <2>4, <2>5, WSpecial DEF n
  <2>7. Field("flags", flags, 1, 0) \in F /\ Field("flags", flags, 1, 0).width = 1
    BY <2>4, WSpecial
  <2>8. /\ Char("SETUP_PRIORITY") \in F /\ Char("SETUP_PRIORITY").width = 1
        /\ Char("HOLDING_PRIORITY") \in F /\ Char("HOLDING_PRIORITY").width = 1
    BY <2>1, WSingle
  <2>9. /\ f \in Seq(F) /\ Len(f) = 4 /\ Len(f) \in 1..10
        /\ f[1].width = 1 /\ f[2].width = 1 /\ f[3].width = 1 /\ f[4].width = n
    <3> HIDE DEF F
    <3> QED BY <2>6, <2>7, <2>8
  <2> HIDE DEF f
  <2>10. Summed(f, Len(f)) = size + 4
    BY <2>2, <2>9 DEF Summed, WidthAt, n
  <2>11. Sound(Body(Summed(f, Len(f)), f), P)
    BY <2>9, Filled
  <2> QED BY <2>3, <2>10, <2>11
<1> QED BY <1>1, <1>2, <1>3, <1>4, <1>5

LEMMA AnySound ==
  ASSUME NEW P, NEW fields \in Seq(WFieldsOf(P))
  PROVE  Sound(Body(BytesOf(fields), fields), P)
<1> DEFINE N == Len(fields)
<1>1. N \in Nat /\ DOMAIN fields = 1..N
  OBVIOUS
<1>2. \A k \in 1..N : fields[k].width \in Int
  <2> TAKE k \in 1..N
  <2>1. fields[k] \in WFieldsOf(P)
    OBVIOUS
  <2> QED BY <2>1 DEF WFieldsOf
<1> HIDE DEF N
<1>3. PICK b : Widths(b, fields, N)
  BY <1>1, <1>2, WidthsInTurn
<1>4. BytesOf(fields) \in Int
  BY <1>1, <1>3 DEF Widths
<1> QED BY <1>4 DEF Sound, Body

LEMMA WriteUniIn ==
  ASSUME NEW c, NEW P, NEW class, NEW objs \in Seq(Classes),
         class \in {"GENERALIZED_UNI", "CALL_ID_0", "CALL_ID_1", "CALL_ID_2"},
         class # "GENERALIZED_UNI" => requirements[class] \subseteq P,
         \A i \in DOMAIN objs : objs[i] \in Subobjects => requirements[objs[i]] \subseteq P
  PROVE  Sound(WriteUni(class, c, objs), P)
<1> DEFINE F == WFieldsOf(P)
           gu(x) == CASE x = "GU_SOURCE_TNA_ADDRESS" ->
                      << Mark(4, 1), Addr("TNA_SRC_ADDR") >>
                 [] x = "GU_DESTINATION_TNA_ADDRESS" ->
                      << Mark(4, 2), Addr("TNA_DST_ADDR") >>
                 [] x = "GU_SERVICE_LEVEL" ->
                      << Mark(4, 5), Char("SERVICE_LEVEL"), Pad(3) >>
           S == {i \in DOMAIN objs : objs[i] \in Subobjects}
           at == Ascending(S)
           parts == [k \in DOMAIN at |-> gu(objs[at[k]])]
<1>1. CASE class = "GENERALIZED_UNI"
  <2>1. /\ Mark(4, 1) \in F /\ Mark(4, 2) \in F /\ Mark(4, 5) \in F /\ Pad(3) \in F
    BY WPads
  <2>2. ASSUME NEW x \in Subobjects, requirements[x] \subseteq P
        PROVE  gu(x) \in Seq(F)
    <3>1. CASE x = "GU_SOURCE_TNA_ADDRESS"
      <4>1. "TNA_SRC_ADDR" \in P
        BY <2>2, <3>1 DEF requirements
      <4>2. Addr("TNA_SRC_ADDR") \in F
        BY <4>1, WSingle
      <4>3. gu(x) = << Mark(4, 1), Addr("TNA_SRC_ADDR") >>
        BY <3>1
      <4> HIDE DEF F, gu
      <4> QED BY <2>1, <4>2, <4>3
    <3>2. CASE x = "GU_DESTINATION_TNA_ADDRESS"
      <4>1. "TNA_DST_ADDR" \in P
        BY <2>2, <3>2 DEF requirements
      <4>2. Addr("TNA_DST_ADDR") \in F
        BY <4>1, WSingle
      <4>3. gu(x) = << Mark(4, 2), Addr("TNA_DST_ADDR") >>
        BY <3>2
      <4> HIDE DEF F, gu
      <4> QED BY <2>1, <4>2, <4>3
    <3>3. CASE x = "GU_SERVICE_LEVEL"
      <4>1. "SERVICE_LEVEL" \in P
        BY <2>2, <3>3 DEF requirements
      <4>2. Char("SERVICE_LEVEL") \in F
        BY <4>1, WSingle
      <4>3. gu(x) = << Mark(4, 5), Char("SERVICE_LEVEL"), Pad(3) >>
        BY <3>3
      <4> HIDE DEF F, gu
      <4> QED BY <2>1, <4>2, <4>3
    <3> QED BY <3>1, <3>2, <3>3 DEF Subobjects
  <2>3. Len(objs) \in Nat /\ S \in SUBSET (1..Len(objs))
    OBVIOUS
  <2>4. \A i \in S : objs[i] \in Subobjects /\ requirements[objs[i]] \subseteq P
    OBVIOUS
  <2>5. WriteUni(class, c, objs) = Body(BytesOf(FlattenSeq(parts)), FlattenSeq(parts))
    BY <1>1 DEF WriteUni
  <2> HIDE DEF F, gu, S
  <2>6. at \in Seq(S)
    BY <2>3, AscendingOf
  <2> DEFINE n == Len(at)
  <2>7. n \in Nat /\ DOMAIN at = 1..n /\ \A k \in 1..n : at[k] \in S
    BY <2>6
  <2> HIDE DEF at
  <2>8. DOMAIN parts = 1..n /\ parts = [k \in 1..n |-> parts[k]]
    BY <2>7
  <2>9. \A k \in 1..n : parts[k] \in Seq(F)
    <3> TAKE k \in 1..n
    <3>1. objs[at[k]] \in Subobjects /\ requirements[objs[at[k]]] \subseteq P
      BY <2>4, <2>7
    <3>2. gu(objs[at[k]]) \in Seq(F)
      BY <2>2, <3>1
    <3> QED BY <2>7, <3>2
  <2> HIDE DEF parts, n
  <2>10. FlattenSeq(parts) \in Seq(F)
    BY <2>7, <2>8, <2>9, PartsIn
  <2> QED BY <2>5, <2>10, AnySound DEF F
<1>2. CASE class = "CALL_ID_0"
  <2>1. WriteUni(class, c, objs) = Body(0, << >>)
    BY <1>2 DEF WriteUni
  <2> DEFINE f == << >>
  <2>2. f \in Seq(F) /\ DOMAIN f = 1..0
    OBVIOUS
  <2> HIDE DEF f
  <2>3. BytesOf(f) = 0
    BY <2>2, NoBytes
  <2> QED BY <2>1, <2>2, <2>3, AnySound DEF f
<1>3. CASE class = "CALL_ID_1"
  <2> DEFINE f == << Char("CALL_ID_ADDR_TYPE"), Pad(3), Addr("CALL_ID_SRC_TN_ADDR"),
                     Word("CALL_ID_LOCAL_ID1"), Word("CALL_ID_LOCAL_ID2") >>
  <2>1. /\ "CALL_ID_ADDR_TYPE" \in P /\ "CALL_ID_SRC_TN_ADDR" \in P /\ "CALL_ID_LOCAL_ID1" \in P
       /\ "CALL_ID_LOCAL_ID2" \in P
    BY <1>3 DEF requirements, LocalCallId
  <2>2. /\ Char("CALL_ID_ADDR_TYPE") \in F /\ Char("CALL_ID_ADDR_TYPE").width = 1
       /\ Pad(3) \in F /\ Pad(3).width = 3
       /\ Addr("CALL_ID_SRC_TN_ADDR") \in F /\ Addr("CALL_ID_SRC_TN_ADDR").width = 4
       /\ Word("CALL_ID_LOCAL_ID1") \in F /\ Word("CALL_ID_LOCAL_ID1").width = 4
       /\ Word("CALL_ID_LOCAL_ID2") \in F /\ Word("CALL_ID_LOCAL_ID2").width = 4
    BY <2>1, WSingle, WPads
  <2>3. /\ f \in Seq(F) /\ Len(f) = 5 /\ Len(f) \in 1..10 /\ f[1].width = 1 /\ f[2].width = 3
       /\ f[3].width = 4 /\ f[4].width = 4 /\ f[5].width = 4
    <3> HIDE DEF F
    <3> QED BY <2>2
  <2>4. WriteUni(class, c, objs) = Body(16, f)
    BY <1>3 DEF WriteUni
  <2> HIDE DEF f
  <2>5. Summed(f, Len(f)) = 16
    BY <2>3 DEF Summed, WidthAt
  <2>6. Sound(Body(Summed(f, Len(f)), f), P)
    BY <2>3, Filled
  <2> QED BY <2>4, <2>5, <2>6
<1>4. CASE class = "CALL_ID_2"
  <2> DEFINE f == << Char("CALL_ID_ADDR_TYPE"), Int24("CALL_ID_IS"), Word("CALL_ID_ITU_CC1"),
                     Short("CALL_ID_ITU_CC2"), Short("CALL_ID_UAPC1"),
                     Word("CALL_ID_UAPC2"), Addr("CALL_ID_SRC_TN_ADDR"),
                     Word("CALL_ID_LOCAL_ID1"), Word("CALL_ID_LOCAL_ID2") >>
  <2>1. /\ "CALL_ID_ADDR_TYPE" \in P /\ "CALL_ID_IS" \in P /\ "CALL_ID_ITU_CC1" \in P
       /\ "CALL_ID_ITU_CC2" \in P /\ "CALL_ID_UAPC1" \in P /\ "CALL_ID_UAPC2" \in P
       /\ "CALL_ID_SRC_TN_ADDR" \in P /\ "CALL_ID_LOCAL_ID1" \in P /\ "CALL_ID_LOCAL_ID2" \in P
    BY <1>4 DEF requirements, LocalCallId
  <2>2. /\ Char("CALL_ID_ADDR_TYPE") \in F /\ Char("CALL_ID_ADDR_TYPE").width = 1
       /\ Int24("CALL_ID_IS") \in F /\ Int24("CALL_ID_IS").width = 3
       /\ Word("CALL_ID_ITU_CC1") \in F /\ Word("CALL_ID_ITU_CC1").width = 4
       /\ Short("CALL_ID_ITU_CC2") \in F /\ Short("CALL_ID_ITU_CC2").width = 2
       /\ Short("CALL_ID_UAPC1") \in F /\ Short("CALL_ID_UAPC1").width = 2
       /\ Word("CALL_ID_UAPC2") \in F /\ Word("CALL_ID_UAPC2").width = 4
       /\ Addr("CALL_ID_SRC_TN_ADDR") \in F /\ Addr("CALL_ID_SRC_TN_ADDR").width = 4
       /\ Word("CALL_ID_LOCAL_ID1") \in F /\ Word("CALL_ID_LOCAL_ID1").width = 4
       /\ Word("CALL_ID_LOCAL_ID2") \in F /\ Word("CALL_ID_LOCAL_ID2").width = 4
    BY <2>1, WSingle, WPads
  <2>3. /\ f \in Seq(F) /\ Len(f) = 9 /\ Len(f) \in 1..10 /\ f[1].width = 1 /\ f[2].width = 3
       /\ f[3].width = 4 /\ f[4].width = 2 /\ f[5].width = 2 /\ f[6].width = 4
       /\ f[7].width = 4 /\ f[8].width = 4 /\ f[9].width = 4
    <3> HIDE DEF F
    <3> QED BY <2>2
  <2>4. WriteUni(class, c, objs) = Body(28, f)
    BY <1>4 DEF WriteUni
  <2> HIDE DEF f
  <2>5. Summed(f, Len(f)) = 28
    BY <2>3 DEF Summed, WidthAt
  <2>6. Sound(Body(Summed(f, Len(f)), f), P)
    BY <2>3, Filled
  <2> QED BY <2>4, <2>5, <2>6
<1> QED BY <1>1, <1>2, <1>3, <1>4

-----------------------------------------------------------------------------
(* What is written of a store that has all a class requires.               *)

LEMMA RequiredParameters ==
  ASSUME NEW class \in Classes
  PROVE  requirements[class] \subseteq Parameters
<1>1. class \in WireClasses \/ class \in Subobjects
  BY DEF WireClasses
<1>2. ASSUME NEW p \in requirements[class] PROVE p \in Parameters
  BY <1>1, WireClassList DEF requirements, Subobjects, TokenBucket, Sonet, EthernetBandwidth,
     EthernetLink, SessionId, MessageId, LocalCallId, StyleFlags, Parameters, PT_UC, PT_US,
     PT_UI, PT_F, PT_CS, PT_VS, Untyped
<1> QED BY <1>2

LEMMA AddableHeld ==
  ASSUME NEW c, Good(c), NEW class \in Classes, check_addable(class, c), class \notin AnyOf
  PROVE  requirements[class] \subseteq Held(c)
<1> SUFFICES ASSUME NEW p \in requirements[class] PROVE p \in Held(c)
  OBVIOUS
<1>1. p \in Parameters
  BY RequiredParameters
<1>2. IsPresent(c, p)
  BY DEF check_addable
<1> QED BY <1>1, <1>2, GoodPresent DEF Held

(* The objects a message is made of can be added to it.                    *)
Addable(objs, c) == \A i \in DOMAIN objs : check_addable(objs[i], c)

(* A store a class can be written from: one style is chosen where there    *)
(* are styles, and the parts of the link are there with the bandwidth.     *)
Writable(class, c, objs) ==
  /\ class \in WireClasses /\ class \notin {"SCOPE", "MESSAGE_ID_LIST"}
  /\ check_addable(class, c) /\ objs \in Seq(Classes) /\ Addable(objs, c)
  /\ class = "STYLE" => Styled(c)
  /\ class = "ETHERNET_FLOWSPEC" => EthernetLink \subseteq Held(c)

LEMMA WrittenIn ==
  ASSUME NEW c, Good(c), NEW class, NEW objs, Writable(class, c, objs)
  PROVE  /\ Formed(Written(class, c, objs), Held(c))
         /\ NoTlv(class, c) \/ Sound(Written(class, c, objs), Held(c))
<1> DEFINE P == Held(c)
           body == Written(class, c, objs)
<1>1. /\ class \in WireClasses /\ class \notin {"SCOPE", "MESSAGE_ID_LIST"}
      /\ class \in Classes /\ objs \in Seq(Classes)
      /\ class = "STYLE" => Styled(c)
      /\ class = "ETHERNET_FLOWSPEC" => EthernetLink \subseteq P
  BY DEF Writable, WireClasses
<1>2. class \notin {"STYLE", "GENERALIZED_UNI"} => requirements[class] \subseteq P
  BY <1>1, AddableHeld DEF Writable, AnyOf
<1>3. /\ IsPresent(c, "DATA_OUT_IF_HANDLE") => "DATA_OUT_IF_HANDLE" \in P
      /\ IsPresent(c, "RATE") => "RATE" \in P
      /\ IsPresent(c, "SLACK_TERM") => "SLACK_TERM" \in P
  <2>1. /\ "DATA_OUT_IF_HANDLE" \in Parameters /\ "RATE" \in Parameters
        /\ "SLACK_TERM" \in Parameters
    BY DEF Parameters, PT_UI, PT_F
  <2> QED BY <2>1, GoodPresent DEF Held
<1>4. \A i \in DOMAIN objs : objs[i] \in Subobjects => requirements[objs[i]] \subseteq P
  <2> SUFFICES ASSUME NEW i \in DOMAIN objs, objs[i] \in Subobjects
               PROVE  requirements[objs[i]] \subseteq P
    OBVIOUS
  <2> DEFINE x == objs[i]
  <2>1. x \in Classes /\ check_addable(x, c) /\ x \notin AnyOf
    BY <1>1 DEF Writable, Addable, AnyOf, Subobjects
  <2> HIDE DEF x
  <2>2. requirements[x] \subseteq P
    BY <2>1, AddableHeld
  <2> QED BY <2>2 DEF x
<1>5. PICK V : c \in StoresOver(V)
  BY DEF Good
<1> HIDE DEF P
<1>6. ASSUME class \in {"SESSION_IETF", "SESSION_OIF", "IPV4_RSVP_HOP", "IPV4_IF_ID_RSVP_HOP"}
      PROVE  Sound(body, P) \/ (NoTlv(class, c) /\ Formed(body, P))
  <2>1. body = WriteSessionAndHop(class, c)
    BY <1>6 DEF Written
  <2>2. requirements[class] \subseteq P
    BY <1>2, <1>6
  <2> HIDE DEF body
  <2>4. \/ Sound(WriteSessionAndHop(class, c), P)
        \/ NoTlv(class, c) /\ Formed(WriteSessionAndHop(class, c), P)
    BY <1>3, <1>6, <2>2, WriteSessionAndHopIn
  <2> QED BY <2>1, <2>4
<1>7. ASSUME class \in {"TIME_VALUES", "ERROR_SPEC", "STYLE"}
      PROVE  Sound(body, P) \/ (NoTlv(class, c) /\ Formed(body, P))
  <2>1. body = WriteTimeErrorStyle(class, c)
    BY <1>7 DEF Written
  <2>2. /\ class # "STYLE" => requirements[class] \subseteq P
        /\ class = "STYLE" => Styled(c)
    BY <1>1, <1>2, <1>7
  <2> HIDE DEF body
  <2>4. Sound(WriteTimeErrorStyle(class, c), P)
    BY <1>7, <2>2, WriteTimeErrorStyleIn
  <2> QED BY <2>1, <2>4
<1>8. ASSUME class \in {"TOKEN_FLOWSPEC", "SONETSDH_FLOWSPEC", "ETHERNET_FLOWSPEC"}
      PROVE  Sound(body, P) \/ (NoTlv(class, c) /\ Formed(body, P))
  <2>1. body = WriteFlowspec(class, c)
    BY <1>8 DEF Written
  <2>2. requirements[class] \subseteq P
    BY <1>2, <1>8
  <2> HIDE DEF body
  <2>4. Sound(WriteFlowspec(class, c), P)
    BY <1>1, <1>3, <1>8, <2>2, WriteFlowspecIn
  <2> QED BY <2>1, <2>4
<1>9. ASSUME class \in {"FILTER_SPEC", "SENDER_TEMPLATE", "TOKEN_SENDER_TSPEC",
                      "SONETSDH_SENDER_TSPEC", "ETHERNET_SENDER_TSPEC"}
      PROVE  Sound(body, P) \/ (NoTlv(class, c) /\ Formed(body, P))
  <2>1. body = WriteSenderAndFilter(class, c)
    BY <1>9 DEF Written
  <2>2. requirements[class] \subseteq P
    BY <1>2, <1>9
  <2> HIDE DEF body
  <2>4. Sound(WriteSenderAndFilter(class, c), P)
    BY <1>9, <2>2, WriteSenderAndFilterIn
  <2> QED BY <2>1, <2>4
<1>10. ASSUME class \in {"RESV_CONFIRM", "GENERALIZED_LABEL", "GENERALIZED_LABEL_REQUEST",
                       "ERO"}
      PROVE  Sound(body, P) \/ (NoTlv(class, c) /\ Formed(body, P))
  <2>1. body = WriteLabelAndRoute(class, c)
    BY <1>10 DEF Written
  <2>2. requirements[class] \subseteq P
    BY <1>2, <1>10
  <2> HIDE DEF body
  <2>4. Sound(WriteLabelAndRoute(class, c), P)
    BY <1>5, <1>10, <2>2, WriteLabelAndRouteIn
  <2> QED BY <2>1, <2>4
<1>11. ASSUME class \in {"HELLO_REQUEST", "HELLO_ACK", "MESSAGE_ID", "MESSAGE_ID_ACK",
                       "MESSAGE_ID_NACK"}
      PROVE  Sound(body, P) \/ (NoTlv(class, c) /\ Formed(body, P))
  <2>1. body = WriteHelloAndId(class, c)
    BY <1>11 DEF Written
  <2>2. requirements[class] \subseteq P
    BY <1>2, <1>11
  <2> HIDE DEF body
  <2>4. Sound(WriteHelloAndId(class, c), P)
    BY <1>11, <2>2, WriteHelloAndIdIn
  <2> QED BY <2>1, <2>4
<1>12. ASSUME class \in {"UPSTREAM_LABEL", "RESTART_CAP", "NOTIFY_REQUEST", "ADMIN_STATUS",
                       "SESSION_ATTRIBUTE"}
      PROVE  Sound(body, P) \/ (NoTlv(class, c) /\ Formed(body, P))
  <2>1. body = WriteStatusAndAttribute(class, c)
    BY <1>12 DEF Written
  <2>2. requirements[class] \subseteq P
    BY <1>2, <1>12
  <2>3. class = "SESSION_ATTRIBUTE" => c.data["SESSION_NAME"] # << >>
    <3>1. class = "SESSION_ATTRIBUTE" => "SESSION_NAME" \in P
      BY <2>2 DEF requirements
    <3> QED BY <3>1 DEF P, Held
  <2> HIDE DEF body
  <2>4. Sound(WriteStatusAndAttribute(class, c), P)
    BY <1>5, <1>12, <2>2, <2>3, WriteStatusAndAttributeIn
  <2> QED BY <2>1, <2>4
<1>13. ASSUME class \in {"GENERALIZED_UNI", "CALL_ID_0", "CALL_ID_1", "CALL_ID_2"}
      PROVE  Sound(body, P) \/ (NoTlv(class, c) /\ Formed(body, P))
  <2>1. body = WriteUni(class, c, objs)
    BY <1>13 DEF Written
  <2>2. class # "GENERALIZED_UNI" => requirements[class] \subseteq P
    BY <1>2, <1>13
  <2> HIDE DEF body
  <2>4. Sound(WriteUni(class, c, objs), P)
    BY <1>1, <1>4, <1>13, <2>2, WriteUniIn
  <2> QED BY <2>1, <2>4
<1> HIDE DEF body
<1>14. \/ class \in {"SESSION_IETF", "SESSION_OIF", "IPV4_RSVP_HOP", "IPV4_IF_ID_RSVP_HOP"}
       \/ class \in {"TIME_VALUES", "ERROR_SPEC", "STYLE"}
       \/ class \in {"TOKEN_FLOWSPEC", "SONETSDH_FLOWSPEC", "ETHERNET_FLOWSPEC"}
       \/ class \in {"FILTER_SPEC", "SENDER_TEMPLATE", "TOKEN_SENDER_TSPEC",
                     "SONETSDH_SENDER_TSPEC", "ETHERNET_SENDER_TSPEC"}
       \/ class \in {"RESV_CONFIRM", "GENERALIZED_LABEL", "GENERALIZED_LABEL_REQUEST", "ERO"}
       \/ class \in {"HELLO_REQUEST", "HELLO_ACK", "MESSAGE_ID", "MESSAGE_ID_ACK",
                     "MESSAGE_ID_NACK"}
       \/ class \in {"UPSTREAM_LABEL", "RESTART_CAP", "NOTIFY_REQUEST", "ADMIN_STATUS",
                     "SESSION_ATTRIBUTE"}
       \/ class \in {"GENERALIZED_UNI", "CALL_ID_0", "CALL_ID_1", "CALL_ID_2"}
  BY <1>1, WireClassList
<1>15. Sound(body, P) \/ (NoTlv(class, c) /\ Formed(body, P))
  BY <1>6, <1>7, <1>8, <1>9, <1>10, <1>11, <1>12, <1>13, <1>14
<1> QED BY <1>15 DEF Sound, Formed, body, P

(* A writer reads no parameter through a NULL pointer.                     *)
LEMMA NoNullInWritten ==
  ASSUME NEW c, Good(c), NEW class, NEW objs, Writable(class, c, objs)
  PROVE  NullReads(class, c, objs) = {}
<1> DEFINE fields == Written(class, c, objs).fields
<1>1. fields \in Seq(WFieldsOf(Held(c)))
  BY WrittenIn DEF Formed
<1>2. \A k \in DOMAIN fields : fields[k] \in WFieldsOf(Held(c))
  <2> HIDE DEF fields
  <2> QED BY <1>1
<1>3. ASSUME NEW f \in ToSet(fields), NEW p \in ToSet(f.pars)
      PROVE  IsPresent(c, p)
  <2>1. f \in WFieldsOf(Held(c))
    <3> HIDE DEF fields
    <3> QED BY <1>2 DEF ToSet
  <2>2. f.pars \in Seq(Held(c))
    BY <2>1 DEF WFieldsOf
  <2>3. p \in Held(c)
    <3> DEFINE s == f.pars
    <3>1. s \in Seq(Held(c)) /\ p \in ToSet(s)
      BY <2>2
    <3> HIDE DEF s
    <3>2. PICK i \in DOMAIN s : p = s[i]
      BY <3>1 DEF ToSet
    <3> QED BY <3>1, <3>2
  <2> QED BY <2>3, GoodPresent DEF Held
<1> HIDE DEF fields
<1>4. NullReads(class, c, objs) =
        {p \in UNION {ToSet(f.pars) : f \in ToSet(fields)} : ~ IsPresent(c, p)}
  BY DEF NullReads, fields
<1> QED BY <1>3, <1>4

(* The value of the one field that stands for a length is a number.        *)
LEMMA NameEncoded ==
  ASSUME NEW c, Good(c), NEW P, NEW f \in WFieldsOf(P), f.kind = "name"
  PROVE  Encoded(f, c) \in Int
<1> DEFINE p == f.pars[1]
           v == IF IsPresent(c, p) THEN Read(c, p) ELSE 0
<1>1. f.pars = << "SESSION_NAME" >>
  BY DEF WFieldsOf
<1>2. p = "SESSION_NAME" /\ f.pars # << >>
  BY <1>1
<1>3. PICK V : c \in StoresOver(V)
  BY DEF Good
<1>4. c.data["SESSION_NAME"] \in Seq(Int) /\ "SESSION_NAME" \in Parameters
      /\ "SESSION_NAME" \notin PT_TAB
  BY <1>3, ListTypes, StoreHas
<1>5. v \in Int
  <2> DEFINE s == c.data["SESSION_NAME"]
  <2>1. IsPresent(c, p) => s # << >>
    BY <1>2, <1>4, GoodPresent
  <2>2. Read(c, p) = s[1]
    BY <1>2, <1>4 DEF Read, ReadAt
  <2>3. s \in Seq(Int)
    BY <1>4
  <2> HIDE DEF s
  <2>4. s # << >> => s[1] \in Int
    BY <2>3
  <2> QED BY <2>1, <2>2, <2>4
<1>6. Encoded(f, c) = v
  <2> HIDE DEF v
  <2> QED BY <1>2 DEF Encoded, v
<1> HIDE DEF v
<1> QED BY <1>5, <1>6

(* An object as it is written: one a reader can go through, and as long as *)
(* its header says where its body is.                                      *)
LEMMA WrittenObjectIn ==
  ASSUME NEW c, Good(c), NEW P, NEW body, Formed(body, P), NEW class \in WireClasses
  PROVE  /\ Shaped(WrittenObject(class, body, c))
         /\ WrittenObject(class, body, c).class = class
         /\ Sound(body, P) => Fills(WrittenObject(class, body, c))
<1> DEFINE N == Len(body.fields)
           o == WrittenObject(class, body, c)
           fs == o.fields
           fb == body.fields
<1>1. N \in Nat /\ DOMAIN fb = 1..N /\ body.length \in Int
      /\ \A k \in 1..N : fb[k] \in WFieldsOf(P)
  BY DEF Formed
<1>2. o.class = class /\ o.length = body.length
      /\ fs = [k \in DOMAIN fb |-> WrittenField(fb[k], c)]
  BY DEF WrittenObject
<1> HIDE DEF N, o, fs, fb
<1>3. DOMAIN fs = 1..N /\ \A k \in 1..N : fs[k] = WrittenField(fb[k], c)
  BY <1>1, <1>2
<1>4. ASSUME NEW k \in 1..N
      PROVE  /\ fs[k].width = fb[k].width /\ fb[k].width \in Int
             /\ fs[k].kind = "name" => fs[k].val \in Int
  <2> DEFINE f == fb[k]
  <2>1. fs[k] = WrittenField(f, c) /\ f \in WFieldsOf(P)
    BY <1>1, <1>3
  <2> HIDE DEF f
  <2>2. f.width \in Int
    BY <2>1 DEF WFieldsOf
  <2>3. fs[k].width = f.width /\ fs[k].val = Encoded(f, c)
        /\ fs[k].kind = IF f.kind = "granularity" THEN "short" ELSE f.kind
    BY <2>1 DEF WrittenField
  <2>4. fs[k].kind = "name" => f.kind = "name"
    BY <2>3
  <2>5. f.kind = "name" => Encoded(f, c) \in Int
    BY <2>1, NameEncoded
  <2> QED BY <2>2, <2>3, <2>4, <2>5 DEF f
<1>5. Shaped(o)
  BY <1>1, <1>2, <1>3, <1>4 DEF Shaped, fs
<1>6. BytesOf(fb) = BytesOf(fs)
  BY <1>1, <1>3, <1>4, SameWidths
<1>7. Sound(body, P) => Fills(o)
  BY <1>2, <1>6 DEF Sound, Fills, fb, fs
<1> QED BY <1>2, <1>5, <1>7 DEF o

-----------------------------------------------------------------------------
(* A message as it is written.                                             *)

AllWritable(objs, c) ==
  \A i \in DOMAIN objs : objs[i] \notin Subobjects => Writable(objs[i], c, objs)

Own(objs) == {i \in DOMAIN objs : objs[i] \notin Subobjects}

(* The k-th object on the wire.                                            *)
Wired(o, objs, c, i) ==
  /\ i \in DOMAIN objs /\ objs[i] \notin Subobjects /\ Writable(objs[i], c, objs)
  /\ o = WrittenObject(objs[i], Written(objs[i], c, objs), c)
  /\ o.class = objs[i] /\ Shaped(o)
  /\ Fills(o) \/ NoTlv(objs[i], c)

(* What get_data writes: one object for each class of the list that is no  *)
(* subobject, shaped as a reader expects it and as long as its header says,*)
(* but for a hop without a handle; and nothing else.                       *)
THEOREM WireOf ==
  ASSUME NEW c, Good(c), NEW objs \in Seq(Classes), AllWritable(objs, c)
  PROVE  /\ ShapedWire(get_data(objs, c))
         /\ \A k \in DOMAIN get_data(objs, c) : \E i : Wired(get_data(objs, c)[k], objs, c, i)
         /\ \A i \in Own(objs) : \E k \in DOMAIN get_data(objs, c) :
              Wired(get_data(objs, c)[k], objs, c, i)
<1> DEFINE N == Len(objs)
           own == Ascending(Own(objs))
           wire == get_data(objs, c)
           n == Cardinality(Own(objs))
<1>1. N \in Nat /\ DOMAIN objs = 1..N /\ Own(objs) \in SUBSET (1..N)
  BY DEF Own
<1>2. own \in Seq(Own(objs)) /\ Len(own) = n /\ n \in Nat
      /\ \A k \in Own(objs) : \E i \in 1..n : own[i] = k
  <2> DEFINE S == Own(objs)
  <2>1. S \in SUBSET (1..N) /\ N \in Nat
    BY <1>1
  <2> HIDE DEF N, S
  <2>2. /\ Cardinality(S) \in 0..N
        /\ Ascending(S) \in Seq(S) /\ Len(Ascending(S)) = Cardinality(S)
        /\ \A k \in S : \E i \in 1..Cardinality(S) : Ascending(S)[i] = k
    BY <2>1, AscendingOf
  <2>3. Cardinality(S) \in Nat
    BY <2>1, <2>2
  <2> QED BY <2>2, <2>3 DEF S
<1>3. DOMAIN own = 1..n /\ \A k \in 1..n : own[k] \in Own(objs)
  <2> HIDE DEF own
  <2> QED BY <1>2
<1>4. wire = [k \in DOMAIN own |->
                WrittenObject(objs[own[k]], Written(objs[own[k]], c, objs), c)]
  BY Zenon DEF get_data, Own
<1>5. ASSUME NEW i \in Own(objs)
      PROVE  Wired(WrittenObject(objs[i], Written(objs[i], c, objs), c), objs, c, i)
  <2> DEFINE x == objs[i]
             body == Written(x, c, objs)
  <2>1. i \in DOMAIN objs /\ x \notin Subobjects /\ Writable(x, c, objs)
    BY <1>5 DEF Own, AllWritable
  <2>2. x \in WireClasses
    BY <2>1 DEF Writable
  <2> HIDE DEF x
  <2>3. Formed(body, Held(c)) /\ (NoTlv(x, c) \/ Sound(body, Held(c)))
    BY <2>1, WrittenIn
  <2> DEFINE o == WrittenObject(x, body, c)
  <2> HIDE DEF body
  <2>4. Shaped(o) /\ o.class = x /\ (Sound(body, Held(c)) => Fills(o))
    BY <2>2, <2>3, WrittenObjectIn
  <2> HIDE DEF o
  <2>5. Fills(o) \/ NoTlv(x, c)
    BY <2>3, <2>4
  <2> QED BY <2>1, <2>4, <2>5 DEF Wired, x, body, o
<1> HIDE DEF own, n, wire
<1>6. /\ DOMAIN wire = 1..n
      /\ \A k \in 1..n : own[k] \in Own(objs) /\ Wired(wire[k], objs, c, own[k])
  BY <1>3, <1>4, <1>5
<1>7. ShapedWire(wire)
  BY <1>2, <1>6 DEF ShapedWire, Wired
<1>8. \A k \in DOMAIN wire : \E i : Wired(wire[k], objs, c, i)
  BY <1>6
<1>9. \A i \in Own(objs) : \E k \in DOMAIN wire : Wired(wire[k], objs, c, i)
  BY <1>2, <1>6
<1> QED BY <1>7, <1>8, <1>9 DEF wire

-----------------------------------------------------------------------------
(* A style that is read is one whose flag is 1.                            *)

LEMMA AddEachFrom ==
  ASSUME NEW V, NEW c \in StoresOver(V), NEW P, NEW calls \in Seq(AddCalls(V, P)),
         NEW p \in Parameters, p \notin PT_TAB
  PROVE  \/ AddEach(c, calls).data[p] = c.data[p]
         \/ \E k \in 1..Len(calls) : AddEach(c, calls).data[p] = << calls[k].val >>
<1> DEFINE taken == {k \in DOMAIN calls : /\ calls[k].par = p
                                         /\ ~ AddRefused(c, p, calls[k].type, calls[k].size)}
           after == AddEach(c, calls).data[p]
<1>1. after = IF taken = {} THEN c.data[p] ELSE << calls[Min(taken)].val >>
  BY DEF AddEach
<1>2. Len(calls) \in Nat /\ taken \in SUBSET (1..Len(calls))
  OBVIOUS
<1> HIDE DEF taken, after
<1>3. taken # {} => Min(taken) \in taken
  BY <1>2, LeastPosition
<1>4. taken # {} => Min(taken) \in 1..Len(calls)
  BY <1>2, <1>3
<1>5. after = c.data[p] \/ \E k \in 1..Len(calls) : after = << calls[k].val >>
  BY <1>1, <1>4
<1> QED BY <1>5 DEF after

LEMMA StyleCalls ==
  ASSUME NEW object, Shaped(object), object.class = "STYLE"
  PROVE  \A k \in 1..Len(AddsFor(object, ReadFields(object))) :
           AddsFor(object, ReadFields(object))[k].val = 1
<1> DEFINE P == MayCarry("STYLE")
           reads == ReadFields(object)
           made == CallsOf(object, reads)
           p == IF 17 \in Tags(object) THEN "WILDCARD_FILTER" ELSE "FIXED_FILTER"
<1>1. reads = << Pad(4), Given(p, 1) >>
  BY DEF ReadFields, ReadTimeErrorStyle
<1>2. reads \in Seq(FieldsOf(P))
  BY ReadFieldsIn
<1> HIDE DEF p
<1>3. /\ DOMAIN reads = 1..2 /\ reads[1].kind = "pad" /\ reads[2].kind = "given"
      /\ reads[2].tag = 1
      /\ reads[1] \in FieldsOf(P) /\ reads[2] \in FieldsOf(P)
  <2>1. /\ DOMAIN reads = 1..2 /\ reads[1].kind = "pad" /\ reads[2].kind = "given"
        /\ reads[2].tag = 1
    BY <1>1 DEF Pad, Given, Field
  <2> DEFINE F == FieldsOf(P)
  <2>2. reads \in Seq(F)
    BY <1>2
  <2> HIDE DEF reads, F
  <2>3. \A k \in DOMAIN reads : reads[k] \in F
    BY <2>2
  <2>4. 1 \in DOMAIN reads /\ 2 \in DOMAIN reads
    BY <2>1
  <2>5. reads[1] \in F /\ reads[2] \in F
    BY <2>3, <2>4
  <2> QED BY <2>1, <2>5 DEF F
<1> HIDE DEF reads, P
<1>4. made = [k \in 1..2 |-> CallsFor(reads[k], ReadWith(object, reads, k))]
  BY <1>3 DEF CallsOf
<1> DEFINE V == {1}
<1>5. 1 \in V
  OBVIOUS
<1>6. ReadWith(object, reads, 2) = 1
  BY <1>3 DEF ReadWith
<1> HIDE DEF V
<1>7. CallsFor(reads[2], 1) \in Seq(AddCalls(V, P))
  <2> DEFINE f == reads[2]
             v == 1
  <2>1. f \in FieldsOf(P) /\ f.kind # "name" /\ v \in V
    BY <1>3, <1>5
  <2> HIDE DEF f, v
  <2>2. CallsFor(f, v) \in Seq(AddCalls(V, P))
    BY <1>5, <2>1, CallsForIn
  <2> QED BY <2>2 DEF f, v
<1>8. CallsFor(reads[1], ReadWith(object, reads, 1)) = << >>
  <2> DEFINE f == reads[1]
             v == ReadWith(object, reads, 1)
             U == {1, v}
  <2>1. f \in FieldsOf(P) /\ f.kind = "pad" /\ v \in U /\ 1 \in U /\ f.kind # "name"
    BY <1>3
  <2> HIDE DEF f, v, U
  <2>2. CallsFor(f, v) = << >>
    BY <2>1, CallsForIn
  <2> QED BY <2>2 DEF f, v
<1> DEFINE W == AddCalls(V, P)
<1>9. \A k \in 1..2 : made[k] \in Seq(W)
  <2>1. made[1] = << >> /\ made[2] = CallsFor(reads[2], 1)
    BY <1>4, <1>6, <1>8
  <2>2. << >> \in Seq(W)
    OBVIOUS
  <2> HIDE DEF made
  <2>3. \A k \in 1..2 : k = 1 \/ k = 2
    OBVIOUS
  <2> QED BY <1>7, <2>1, <2>2, <2>3
<1>10. made \in Seq(Seq(W))
  <2> HIDE DEF W
  <2>1. 2 \in Nat
    OBVIOUS
  <2> QED BY <1>4, <1>9, <2>1
<1>11. AddsFor(object, reads) = FlattenSeq(made)
  <2> HIDE DEF made, W
  <2>1. \E U : /\ AddsFor(object, reads) \in Seq(AddCalls(U, P))
                /\ CallsOf(object, reads) \in Seq(Seq(AddCalls(U, P)))
                /\ AddsFor(object, reads) = FlattenSeq(CallsOf(object, reads))
    BY <1>2, AddsForIn
  <2> QED BY <2>1 DEF made
<1> DEFINE flat == FlattenSeq(made)
<1>12. flat \in Seq(W)
  <2> HIDE DEF made, W
  <2> QED BY <1>10, FlattenSeqOf
<1> HIDE DEF made, flat
<1>13. ASSUME NEW k \in 1..Len(flat) PROVE flat[k].val = 1
  <2>1. flat[k] \in W
    <3> HIDE DEF W
    <3> QED BY <1>12
  <2> QED BY <2>1 DEF AddCalls, V
<1> QED BY <1>11, <1>13 DEF flat, reads

LEMMA ParsedStyle ==
  ASSUME NEW wire, ShapedWire(wire), NEW p \in StyleFlags
  PROVE  parse_data(wire).data[p] = << >> \/ parse_data(wire).data[p] = << 1 >>
<1>r. PICK N \in Nat : \E V, f : DOMAIN wire = 1..N /\ Reading(wire, N, V, f)
  BY Readings
<1>1. PICK V, f : DOMAIN wire = 1..N /\ Reading(wire, N, V, f)
  BY <1>r
<1>a. p \in Parameters /\ p \notin PT_TAB
  BY DEF StyleFlags, Parameters, PT_UC, PT_TAB
<1>b. \A class \in WireClasses : p \in MayCarry(class) => class = "STYLE"
  BY WireClassList DEF StyleFlags, MayCarry, Beyond, requirements, TokenBucket, Sonet,
     EthernetBandwidth, EthernetLink, SessionId, MessageId, LocalCallId
<1> DEFINE S == {c \in StoresOver(V) : c.data[p] = << >> \/ c.data[p] = << 1 >>}
<1>2. f[0] \in S /\ 0 \in 0..N
  <2>1. 0 \in 0..N
    OBVIOUS
  <2>2. f[0] = Empty /\ f[0] \in StoresOver(V)
    BY <1>1, <2>1 DEF Reading
  <2>3. Empty.data[p] = << >>
    BY <1>a DEF Empty
  <2> QED BY <2>1, <2>2, <2>3
<1>3. ASSUME NEW n \in 0..(N - 1), f[n] \in S PROVE f[n + 1] \in S
  <2>1. PICK off, m : OneRead(wire, V, f, n, off, m)
    BY <1>1, ReadingStep
  <2> DEFINE object == wire[n + 1]
             P == MayCarry(object.class)
             c == f[n]
  <2>3. /\ CallsMade(object, c, V, P, off, m) /\ c \in StoresOver(V) /\ Shaped(object)
        /\ f[n + 1] = parse_object(c, object) /\ f[n + 1] \in StoresOver(V)
    BY <2>1 DEF OneRead
  <2>a. object.class \in WireClasses
    BY <2>3 DEF Shaped
  <2>b. p \in P => object.class = "STYLE"
    BY <1>b, <2>a
  <2> HIDE DEF object, P, c
  <2>4. p \notin P => parse_object(c, object).data[p] = c.data[p]
    BY <1>a, <2>3, ObjectRead
  <2>5. ASSUME object.class = "STYLE"
        PROVE  \/ parse_object(c, object).data[p] = c.data[p]
               \/ parse_object(c, object).data[p] = << 1 >>
    <3> DEFINE calls == AddsFor(object, ReadFields(object))
               made == SubSeq(calls, 1, m)
    <3>1. /\ made \in Seq(AddCalls(V, P)) /\ Len(made) = m
          /\ \A k \in 1..m : made[k] = calls[k] /\ k \in 1..Len(calls)
          /\ parse_object(c, object) = AddEach(c, made)
      BY <2>3 DEF CallsMade
    <3>2. \A k \in 1..Len(calls) : calls[k].val = 1
      BY <2>3, <2>5, StyleCalls
    <3> HIDE DEF made, calls
    <3>3. \A k \in 1..Len(made) : made[k].val = 1
      BY <3>1, <3>2
    <3>4. \/ AddEach(c, made).data[p] = c.data[p]
          \/ \E k \in 1..Len(made) : AddEach(c, made).data[p] = << made[k].val >>
      BY <1>a, <2>3, <3>1, AddEachFrom
    <3> QED BY <3>1, <3>3, <3>4
  <2>6. c.data[p] = << >> \/ c.data[p] = << 1 >>
    BY <1>3 DEF c
  <2>7. parse_object(c, object).data[p] = << >> \/ parse_object(c, object).data[p] = << 1 >>
    BY <2>b, <2>4, <2>5, <2>6
  <2> QED BY <2>3, <2>7
<1> HIDE DEF S
<1>4. parse_data(wire) \in S
  <2>1. \A n \in 0..(N - 1) : f[n] \in S => f[n + 1] \in S
    BY <1>3
  <2> QED BY <1>1, <1>2, <2>1, ReadingKeeps
<1> QED BY <1>4 DEF S

-----------------------------------------------------------------------------
(* What is read of an object whose parameters are absent.                  *)

(* A call that is not refused: of its parameter's type, for a parameter    *)
(* that is absent and that no call before it is for.                       *)
Fresh(c, calls, i) ==
  LET p == calls[i].par
  IN  /\ p \in Parameters /\ p \notin PT_TAB /\ HasType(p, calls[i].type)
      /\ c.data[p] = << >> /\ \A j \in 1..(i - 1) : calls[j].par # p

LEMMA FreshAccepted ==
  ASSUME NEW c, NEW calls, NEW i, Fresh(c, calls, i)
  PROVE  ~ Refuses(c, calls, i)
<1> DEFINE p == calls[i].par
<1>1. p \in Parameters /\ p \notin PT_TAB /\ HasType(p, calls[i].type)
      /\ c.data[p] = << >> /\ \A j \in 1..(i - 1) : calls[j].par # p
  BY DEF Fresh
<1>2. ~ IsPresent(c, p)
  BY <1>1 DEF IsPresent, IsPresentAt
<1> QED BY <1>1, <1>2 DEF Refuses, AddRefused

LEMMA AddEachFirst ==
  ASSUME NEW V, NEW c \in StoresOver(V), NEW P, NEW calls \in Seq(AddCalls(V, P)),
         NEW k \in 1..Len(calls), Fresh(c, calls, k)
  PROVE  AddEach(c, calls).data[calls[k].par] = << calls[k].val >>
<1> DEFINE p == calls[k].par
           taken == {n \in DOMAIN calls : /\ calls[n].par = p
                                         /\ ~ AddRefused(c, p, calls[n].type, calls[n].size)}
           listed == [i \in DOMAIN Ascending(taken) |-> calls[Ascending(taken)[i]].val]
<1>1. p \in Parameters /\ p \notin PT_TAB /\ HasType(p, calls[k].type)
      /\ c.data[p] = << >> /\ \A j \in 1..(k - 1) : calls[j].par # p
  BY DEF Fresh
<1>2. AddEach(c, calls).data[p] = IF taken = {} THEN c.data[p]
              ELSE IF p \in PT_TAB THEN c.data[p] \o listed
              ELSE << calls[Min(taken)].val >>
  BY <1>1 DEF AddEach
<1>3. DOMAIN calls = 1..Len(calls) /\ Len(calls) \in Nat
  OBVIOUS
<1>4. ~ IsPresent(c, p)
  BY <1>1 DEF IsPresent, IsPresentAt
<1>5. k \in taken
  BY <1>1, <1>3, <1>4 DEF AddRefused
<1>6. Min(taken) \in taken /\ \A n \in taken : Min(taken) <= n
  <2>1. taken \in SUBSET (1..Len(calls))
    BY <1>3
  <2> HIDE DEF taken
  <2> QED BY <1>3, <1>5, <2>1, LeastPosition
<1>7. \A n \in taken : n \in 1..Len(calls) /\ calls[n].par = p
  BY <1>3
<1> HIDE DEF taken, listed
<1>8. Min(taken) = k
  <2> DEFINE n == Min(taken)
  <2>1. n \in 1..Len(calls) /\ calls[n].par = p /\ n <= k
    BY <1>5, <1>6, <1>7
  <2> HIDE DEF n
  <2>2. n \in 1..(k - 1) \/ n = k
    BY <2>1
  <2>3. n = k
    BY <1>1, <2>1, <2>2
  <2> QED BY <2>3 DEF n
<1> HIDE DEF p
<1>9. taken # {}
  BY <1>5
<1>10. AddEach(c, calls).data[p] = << calls[k].val >>
  BY <1>1, <1>2, <1>8, <1>9
<1> QED BY <1>10 DEF p

AllFresh(c, calls, n) == \A i \in 1..n : Fresh(c, calls, i)

(* Calls that are not refused are made, and the parameter of the last of   *)
(* them gets its value.                                                    *)
LEMMA CallsUpTo ==
  ASSUME NEW object, NEW V, NEW c \in StoresOver(V), NEW P, NEW off, NEW m,
         CallsMade(object, c, V, P, off, m), NEW calls, calls = AddsFor(object, ReadFields(object)),
         NEW n \in 1..Len(calls), AllFresh(c, calls, n)
  PROVE  parse_object(c, object).data[calls[n].par] = << calls[n].val >>
<1> DEFINE made == SubSeq(calls, 1, m)
           after == parse_object(c, object)
<1>1. /\ m \in 0..Len(calls) /\ made \in Seq(AddCalls(V, P)) /\ Len(made) = m
      /\ \A k \in 1..m : made[k] = calls[k] /\ k \in 1..Len(calls)
      /\ after = AddEach(c, made)
      /\ \A k \in 1..Len(calls) : (\A i \in 1..k : ~ Refuses(c, calls, i)) => k <= m
  BY DEF CallsMade
<1> HIDE DEF made, after
<1>2. n <= m
  <2>1. \A i \in 1..n : ~ Refuses(c, calls, i)
    BY FreshAccepted DEF AllFresh
  <2> QED BY <1>1, <2>1
<1>3. n \in 1..Len(made) /\ made[n] = calls[n]
  BY <1>1, <1>2
<1>4. Fresh(c, made, n)
  <2>1. n \in 1..n /\ Fresh(c, calls, n)
    BY DEF AllFresh
  <2>2. \A j \in 1..(n - 1) : made[j] = calls[j]
    BY <1>1, <1>2
  <2> QED BY <1>3, <2>1, <2>2 DEF Fresh
<1>5. AddEach(c, made).data[made[n].par] = << made[n].val >>
  <2>1. made \in Seq(AddCalls(V, P)) /\ n \in 1..Len(made)
    BY <1>1, <1>3
  <2> QED BY <1>4, <2>1, AddEachFirst
<1> QED BY <1>1, <1>3, <1>5 DEF after

(* A field of flags: every parameter a flag of its own. *)
Flags(f, c) ==
  /\ f.kind = "flags"
  /\ \A t \in 1..Len(f.pars) :
       /\ f.pars[t] \in PT_UC /\ f.pars[t] \notin PT_TAB /\ c.data[f.pars[t]] = << >>
       /\ \A u \in 1..Len(f.pars) : f.pars[u] = f.pars[t] => u = t

(* A field whose calls are accepted: it is skipped, it carries an absent   *)
(* parameter, or absent flags.                                             *)
Ready(f, c) ==
  \/ f.kind = "pad"
  \/ \E p : Single(f, p) /\ c.data[p] = << >>
  \/ Flags(f, c)

ReadyUpTo(reads, c, k) ==
  \A i \in 1..k : /\ Ready(reads[i], c)
                  /\ \A j \in 1..k, p \in Parameters : Carries(reads[i], p) /\ Carries(reads[j], p) => i = j

FlagCall(c, calls) ==
  \A i \in 1..Len(calls) :
    /\ calls[i].type = "UC" /\ calls[i].par \in PT_UC /\ calls[i].par \notin PT_TAB
    /\ c.data[calls[i].par] = << >>
    /\ \A j \in 1..Len(calls) : calls[j].par = calls[i].par => j = i

LEMMA FlagCalls ==
  ASSUME NEW object, NEW P, NEW reads \in Seq(FieldsOf(P)), NEW k \in 1..Len(reads),
         NEW c, Flags(reads[k], c), NEW calls, calls = CallsOf(object, reads)[k]
  PROVE  FlagCall(c, calls)
<1> DEFINE f == reads[k]
           v == ReadWith(object, reads, k)
           S == {i \in DOMAIN f.pars : v[i]}
           set == Ascending(S)
           pars == [j \in DOMAIN set |-> f.pars[set[j]]]
           M == Len(f.pars)
<1>1. f \in FieldsOf(P) /\ f.kind = "flags" /\ f.pars \in Seq(P)
  <2>1. f \in FieldsOf(P) /\ f.kind = "flags"
    BY DEF Flags
  <2> HIDE DEF f
  <2> QED BY <2>1 DEF FieldsOf
<1>2. calls = CallsFor(f, v)
  BY DEF CallsOf
<1>3. CallsFor(f, v) = [j \in DOMAIN pars |-> Call(pars[j], "UC", 1, f.width)]
  BY <1>1 DEF CallsFor, AddType
<1>4. M \in Nat /\ DOMAIN f.pars = 1..M /\ S \in SUBSET (1..M)
  BY <1>1
<1>5. set \in Seq(S) /\ \A i, j \in DOMAIN set : set[i] = set[j] => i = j
  <2> HIDE DEF S, M
  <2>1. set \in Seq(S)
    BY <1>4, AscendingOf
  <2>2. \A i \in DOMAIN set, j \in DOMAIN set : set[i] = set[j] => i = j
    BY <1>4, AscendingApart
  <2> QED BY <2>1, <2>2
<1>6. DOMAIN set = 1..Len(set) /\ Len(set) \in Nat /\ \A j \in DOMAIN set : set[j] \in S
  <2> HIDE DEF S
  <2> QED BY <1>5
<1> HIDE DEF S, set
<1>7. DOMAIN pars = 1..Len(set) /\ \A j \in 1..Len(set) : pars[j] = f.pars[set[j]] /\ set[j] \in 1..M
  BY <1>4, <1>6
<1> HIDE DEF pars, v
<1>8. /\ Len(calls) = Len(set)
      /\ \A j \in 1..Len(set) : calls[j].par = f.pars[set[j]] /\ calls[j].type = "UC"
  <2>1. calls = [j \in 1..Len(set) |-> Call(pars[j], "UC", 1, f.width)]
    BY <1>2, <1>3, <1>7
  <2> DEFINE g(j) == Call(pars[j], "UC", 1, f.width)
  <2> HIDE DEF g, f
  <2>2. Len(calls) = Len(set) /\ \A j \in 1..Len(set) : calls[j] = g(j)
    <3>1. calls = [j \in 1..Len(set) |-> g(j)]
      BY <2>1 DEF g
    <3> QED BY <1>6, <3>1
  <2>3. \A j \in 1..Len(set) : g(j).par = pars[j] /\ g(j).type = "UC"
    BY DEF g, Call
  <2> QED BY <1>7, <2>2, <2>3
<1>9. \A t \in 1..M :
         /\ f.pars[t] \in PT_UC /\ f.pars[t] \notin PT_TAB /\ c.data[f.pars[t]] = << >>
         /\ \A u \in 1..M : f.pars[u] = f.pars[t] => u = t
  BY DEF Flags
<1> HIDE DEF f, M
<1>10. ASSUME NEW i \in 1..Len(calls), NEW j \in 1..Len(calls), calls[j].par = calls[i].par
       PROVE  j = i
  <2>1. set[j] = set[i]
    BY <1>7, <1>8, <1>9, <1>10
  <2> QED BY <1>5, <1>6, <1>8, <2>1
<1> QED BY <1>7, <1>8, <1>9, <1>10 DEF FlagCall

OwnFresh(f, c, calls) ==
  \A i \in 1..Len(calls) :
    LET p == calls[i].par
    IN  /\ p \in Parameters /\ p \notin PT_TAB /\ HasType(p, calls[i].type)
        /\ c.data[p] = << >> /\ Carries(f, p)
        /\ \A j \in 1..Len(calls) : calls[j].par = p => j = i

LEMMA ReadyCalls ==
  ASSUME NEW object, Shaped(object), NEW P, NEW reads \in Seq(FieldsOf(P)),
         NEW k \in 1..Len(reads), NEW c, Ready(reads[k], c)
  PROVE  OwnFresh(reads[k], c, CallsOf(object, reads)[k])
<1> DEFINE f == reads[k]
           calls == CallsOf(object, reads)[k]
<1>1. OwnOnly(f, calls)
  BY OwnCalls
<1>2. ASSUME f.kind = "pad" PROVE OwnFresh(f, c, calls)
  <2>1. calls = << >>
    BY <1>1, <1>2 DEF OwnOnly
  <2> HIDE DEF calls
  <2> QED BY <2>1 DEF OwnFresh
<1>3. ASSUME Flags(f, c) PROVE OwnFresh(f, c, calls)
  <2>0. FlagCall(c, calls)
    BY <1>3, FlagCalls
  <2>1. \A i \in 1..Len(calls) :
           /\ calls[i].type = "UC" /\ calls[i].par \in PT_UC /\ calls[i].par \notin PT_TAB
           /\ c.data[calls[i].par] = << >>
           /\ \A j \in 1..Len(calls) : calls[j].par = calls[i].par => j = i
    BY <2>0 DEF FlagCall
  <2> HIDE DEF calls, f
  <2>2. ASSUME NEW i \in 1..Len(calls) PROVE Carries(f, calls[i].par)
    BY <1>1 DEF OwnOnly, Carries
  <2>3. \A i \in 1..Len(calls) : calls[i].par \in Parameters /\ HasType(calls[i].par, calls[i].type)
    BY <2>1 DEF HasType, Parameters
  <2> QED BY <2>1, <2>2, <2>3 DEF OwnFresh
<1>4. ASSUME \E p : Single(f, p) /\ c.data[p] = << >> PROVE OwnFresh(f, c, calls)
  <2>1. PICK p : Single(f, p) /\ c.data[p] = << >>
    BY <1>4
  <2>2. calls = << CallOf(object, reads, k, p) >>
    BY <2>1, SingleCall
  <2>3. CallOf(object, reads, k, p).par = p /\ CallOf(object, reads, k, p).type = AddType(f.kind)
    BY DEF CallOf, Call
  <2> HIDE DEF calls, f
  <2>4. \A i \in 1..Len(calls) : i = 1 /\ calls[i].par = p /\ calls[i].type = AddType(f.kind)
    BY <2>2, <2>3
  <2>5. Carries(f, p)
    <3>1. Len(f.pars) = 1 /\ f.pars[1] = p
      BY <2>1 DEF Single
    <3> QED BY <3>1 DEF Carries
  <2> QED BY <2>1, <2>4, <2>5 DEF OwnFresh, Single
<1> QED BY <1>2, <1>3, <1>4 DEF Ready

GivesUpTo(object, c, n) ==
  LET calls == AddsFor(object, ReadFields(object))
  IN  AllFresh(c, calls, n) => parse_object(c, object).data[calls[n].par] = << calls[n].val >>

LEMMA ParsedUpTo ==
  ASSUME NEW object, NEW V, NEW c \in StoresOver(V), NEW P, NEW off, NEW m,
         CallsMade(object, c, V, P, off, m)
  PROVE  \A n \in 1..Len(AddsFor(object, ReadFields(object))) : GivesUpTo(object, c, n)
BY CallsUpTo DEF GivesUpTo

(* The call of a field is made when it and those before it are accepted.   *)
FreshField(object, c, reads, off, k, q) ==
  /\ HasPlace(object, reads, off, k, q)
  /\ AllFresh(c, AddsFor(object, reads), off[k])

LEMMA ReadFresh ==
  ASSUME NEW object, NEW V, NEW c \in StoresOver(V), NEW P, NEW off, NEW m,
         CallsMade(object, c, V, P, off, m),
         NEW k, NEW q, FreshField(object, c, ReadFields(object), off, k, q)
  PROVE  parse_object(c, object).data[q] = << ReadWith(object, ReadFields(object), k) >>
<1> DEFINE calls == AddsFor(object, ReadFields(object))
           n == off[k]
<1>1. n \in 1..Len(calls) /\ calls[n] = CallOf(object, ReadFields(object), k, q)
  BY DEF HasPlace, FreshField
<1>2. AllFresh(c, calls, n)
  BY DEF FreshField
<1>3. GivesUpTo(object, c, n)
  BY <1>1, ParsedUpTo
<1>4. parse_object(c, object).data[calls[n].par] = << calls[n].val >>
  BY <1>2, <1>3 DEF GivesUpTo
<1> QED BY <1>1, <1>4 DEF CallOf, Call

(* What is read of a field when the fields up to it can be read.           *)
LEMMA ReadUpTo ==
  ASSUME NEW object, Shaped(object), NEW V, NEW c \in StoresOver(V), NEW P, NEW off, NEW m,
         CallsMade(object, c, V, P, off, m), NEW reads, reads = ReadFields(object),
         reads \in Seq(FieldsOf(P)), CallsOf(object, reads) \in Seq(Seq(AddCalls(V, P))),
         NEW k \in 1..Len(reads), ReadyUpTo(reads, c, k), NEW q, Single(reads[k], q)
  PROVE  parse_object(c, object).data[q] = << ReadWith(object, reads, k) >>
<1> DEFINE calls == AddsFor(object, reads)
           parts == CallsOf(object, reads)
           n == off[k]
           N == Len(reads)
<1>1. Placed(off, calls, parts)
  BY DEF CallsMade
<1>2. N \in Nat /\ Len(parts) = N
  BY DEF CallsOf
<1>3. /\ \A i \in 0..N, j \in 0..N : i <= j => off[i] <= off[j]
      /\ \A i \in 1..Len(calls) : \E j \in 1..N : off[j - 1] \in Nat /\ off[j - 1] < i /\ i <= off[j]
  <2>1. PlacedAll(object, reads, off)
    BY PlaceOf
  <2> QED BY <2>1 DEF PlacedAll
<1>4. n \in 1..Len(calls) /\ calls[n] = CallOf(object, reads, k, q)
  <2>1. HasPlace(object, reads, off, k, q)
    BY SinglePlace
  <2> QED BY <2>1 DEF HasPlace
<1>5. \A j \in 1..k : OwnFresh(reads[j], c, parts[j])
  <2> TAKE j \in 1..k
  <2>1. j \in 1..Len(reads) /\ Ready(reads[j], c)
    BY DEF ReadyUpTo
  <2> HIDE DEF parts
  <2> QED BY <2>1, ReadyCalls DEF parts
<1>6. Len(calls) \in Nat
  BY DEF CallsMade
<1> DEFINE At(i, j, t) == /\ j \in 1..k /\ t \in 1..Len(parts[j]) /\ calls[i] = parts[j][t]
                          /\ off[j - 1] \in Int /\ i = off[j - 1] + t
<1> HIDE DEF calls, parts, N
<1>7. ASSUME NEW i \in 1..n PROVE \E j, t : At(i, j, t)
  <2>1. i \in 1..Len(calls)
    BY <1>4, <1>6
  <2>2. PICK j \in 1..N : off[j - 1] \in Nat /\ off[j - 1] < i /\ i <= off[j]
    BY <1>3, <2>1
  <2>3. j <= k
    <3> SUFFICES ASSUME k <= j - 1 PROVE FALSE
      BY <1>2 DEF N
    <3>1. off[k] <= off[j - 1]
      <4>1. k \in 0..N /\ j - 1 \in 0..N
        BY <1>2 DEF N
      <4> QED BY <1>3, <4>1
    <3> QED BY <1>4, <2>2, <3>1
  <2>4. /\ off[j] = off[j - 1] + Len(parts[j]) /\ Len(parts[j]) \in Int
        /\ \A t \in 1..Len(parts[j]) : calls[off[j - 1] + t] = parts[j][t]
    <3>1. j \in 1..Len(parts)
      BY <1>2
    <3>2. j \in 0..Len(parts) /\ off[j] \in Nat
      BY <1>1, <3>1, <1>2 DEF Placed
    <3>3. parts[j] \in Seq(AddCalls(V, P))
      <4>1. parts \in Seq(Seq(AddCalls(V, P)))
        BY DEF parts
      <4> DEFINE W == Seq(AddCalls(V, P))
      <4> HIDE DEF W
      <4>2. parts \in Seq(W)
        BY <4>1 DEF W
      <4>3. parts[j] \in W
        BY <3>1, <4>2
      <4> QED BY <4>3 DEF W
    <3>4. Len(parts[j]) \in Nat
      BY <3>3
    <3> QED BY <1>1, <3>1, <3>4 DEF Placed
  <2> DEFINE t == i - off[j - 1]
  <2>5. t \in 1..Len(parts[j]) /\ off[j - 1] + t = i
    BY <2>2, <2>4
  <2> HIDE DEF t
  <2>6. calls[i] = parts[j][t]
    BY <2>4, <2>5
  <2>7. j \in 1..k
    BY <1>2, <2>2, <2>3 DEF N
  <2>8. At(i, j, t)
    BY <2>2, <2>5, <2>6, <2>7
  <2> HIDE DEF At
  <2> QED BY <2>8
<1>8. ASSUME NEW i \in 1..n PROVE Fresh(c, calls, i)
  <2>1. PICK j, t : At(i, j, t)
    BY <1>7
  <2> DEFINE p == calls[i].par
  <2>2. /\ p \in Parameters /\ p \notin PT_TAB /\ HasType(p, calls[i].type)
        /\ c.data[p] = << >> /\ Carries(reads[j], p)
        /\ \A u \in 1..Len(parts[j]) : parts[j][u].par = p => u = t
    <3>1. OwnFresh(reads[j], c, parts[j])
      BY <1>5, <2>1
    <3> QED BY <2>1, <3>1 DEF OwnFresh
  <2>3. ASSUME NEW o \in 1..(i - 1), calls[o].par = p PROVE FALSE
    <3>1. o \in 1..n
      BY <1>4, <1>6
    <3>2. PICK l, u : At(o, l, u)
      BY <1>7, <3>1
    <3>3. Carries(reads[l], p)
      <4>1. OwnFresh(reads[l], c, parts[l])
        BY <1>5, <3>2
      <4> QED BY <2>3, <3>2, <4>1 DEF OwnFresh
    <3>4. l = j
      BY <2>1, <2>2, <3>2, <3>3 DEF ReadyUpTo
    <3>5. u = t
      <4> HIDE DEF p
      <4> QED BY <2>2, <2>3, <3>2, <3>4
    <3>6. o = i
      <4> HIDE DEF p
      <4> QED BY <2>1, <3>2, <3>4, <3>5
    <3> QED BY <3>6
  <2> HIDE DEF At
  <2> QED BY <2>2, <2>3 DEF Fresh
<1> HIDE DEF At, n
<1>9. AllFresh(c, AddsFor(object, reads), off[k])
  BY <1>8 DEF AllFresh, calls, n
<1>10. HasPlace(object, reads, off, k, q)
  BY SinglePlace
<1>11. FreshField(object, c, ReadFields(object), off, k, q)
  BY <1>9, <1>10 DEF FreshField
<1> QED BY <1>11, ReadFresh

(* Parameters that come together: the readers of the classes S read all of *)
(* Q, with values of T where it says any, and perhaps flags of F.          *)
FlagsOf(f, F) ==
  /\ f.kind = "flags" /\ F \subseteq PT_UC \ PT_TAB
  /\ \A t \in 1..Len(f.pars) : /\ f.pars[t] \in F
                               /\ \A u \in 1..Len(f.pars) : f.pars[u] = f.pars[t] => u = t

GroupUpTo(object, Q, F, T, n) ==
  LET reads == ReadFields(object)
  IN  /\ n \in 1..Len(reads)
      /\ \A i \in 1..n : reads[i].kind = "pad" \/ (\E p \in Q : Single(reads[i], p)) \/ FlagsOf(reads[i], F)
      /\ \A i \in 1..n, j \in 1..n, p \in Parameters : Carries(reads[i], p) /\ Carries(reads[j], p) => i = j
      /\ \A q \in Q : \E i \in 1..n : /\ Single(reads[i], q)
                                      /\ q \in DOMAIN T => ReadWith(object, reads, i) \in T[q]

AllRead(c, Q, T) ==
  \A q \in Q : /\ c.data[q] # << >>
               /\ q \in DOMAIN T => \E v \in T[q] : c.data[q] = << v >>

NoneRead(c, Q, F) == \A p \in Q \cup F : c.data[p] = << >>

GroupClasses(wire, S, Q, F, T) ==
  /\ Q \cup F \subseteq Parameters \ PT_TAB
  /\ \A k \in DOMAIN wire :
       /\ wire[k].class \in S => \E n : GroupUpTo(wire[k], Q, F, T, n)
       /\ wire[k].class \notin S => \A p \in Q \cup F : p \notin MayCarry(wire[k].class)

LEMMA GroupFilled ==
  ASSUME NEW object, Shaped(object), NEW V, NEW c \in StoresOver(V), NEW P, NEW off, NEW m,
         CallsMade(object, c, V, P, off, m), NEW reads, reads = ReadFields(object),
         reads \in Seq(FieldsOf(P)), CallsOf(object, reads) \in Seq(Seq(AddCalls(V, P))),
         NEW Q, NEW F, NEW T, NEW n, GroupUpTo(object, Q, F, T, n), NoneRead(c, Q, F)
  PROVE  AllRead(parse_object(c, object), Q, T)
<1> DEFINE after == parse_object(c, object)
<1>1. /\ n \in 1..Len(reads)
      /\ \A i \in 1..n : reads[i].kind = "pad" \/ (\E p \in Q : Single(reads[i], p)) \/ FlagsOf(reads[i], F)
      /\ \A i \in 1..n, j \in 1..n, p \in Parameters : Carries(reads[i], p) /\ Carries(reads[j], p) => i = j
      /\ \A q \in Q : \E i \in 1..n : /\ Single(reads[i], q)
                                      /\ q \in DOMAIN T => ReadWith(object, reads, i) \in T[q]
  BY DEF GroupUpTo
<1>2. ASSUME NEW i \in 1..n PROVE Ready(reads[i], c)
  <2>1. CASE reads[i].kind = "pad"
    BY <2>1 DEF Ready
  <2>2. CASE \E p \in Q : Single(reads[i], p)
    BY <2>2 DEF Ready, NoneRead
  <2>3. CASE FlagsOf(reads[i], F)
    BY <2>3 DEF Ready, NoneRead, FlagsOf, Flags
  <2> QED BY <1>1, <2>1, <2>2, <2>3
<1>3. ASSUME NEW k \in 1..n PROVE ReadyUpTo(reads, c, k) /\ k \in 1..Len(reads)
  <2>1. \A i \in 1..k : i \in 1..n
    BY <1>1
  <2> QED BY <1>1, <1>2, <2>1 DEF ReadyUpTo
<1>4. ASSUME NEW q \in Q
      PROVE  /\ after.data[q] # << >>
             /\ q \in DOMAIN T => \E v \in T[q] : after.data[q] = << v >>
  <2>1. PICK i \in 1..n : Single(reads[i], q) /\ (q \in DOMAIN T => ReadWith(object, reads, i) \in T[q])
    BY <1>1
  <2>2. i \in 1..Len(reads) /\ ReadyUpTo(reads, c, i)
    BY <1>3
  <2> DEFINE v == ReadWith(object, reads, i)
  <2>3. after.data[q] = << v >> /\ (q \in DOMAIN T => v \in T[q])
    BY <2>1, <2>2, ReadUpTo
  <2> HIDE DEF v, after
  <2> QED BY <2>3
<1> HIDE DEF after
<1>5. AllRead(after, Q, T)
  BY <1>4 DEF AllRead
<1> QED BY <1>5 DEF after

LEMMA GroupStep ==
  ASSUME NEW wire, NEW N \in Nat, DOMAIN wire = 1..N, NEW V, NEW f, Reading(wire, N, V, f),
         NEW S, NEW Q, NEW F, NEW T, GroupClasses(wire, S, Q, F, T), NEW n \in 0..(N - 1)
  PROVE  /\ f[n + 1] \in StoresOver(V)
         /\ AllRead(f[n], Q, T) => AllRead(f[n + 1], Q, T)
         /\ NoneRead(f[n], Q, F) =>
              IF wire[n + 1].class \in S THEN AllRead(f[n + 1], Q, T) ELSE NoneRead(f[n + 1], Q, F)
<1>1. PICK off, m : OneRead(wire, V, f, n, off, m)
  BY ReadingStep
<1> DEFINE object == wire[n + 1]
           P == MayCarry(object.class)
           c == f[n]
           reads == ReadFields(object)
           after == parse_object(c, object)
<1>2. /\ CallsMade(object, c, V, P, off, m) /\ c \in StoresOver(V) /\ Shaped(object)
      /\ f[n + 1] = after /\ f[n + 1] \in StoresOver(V)
      /\ reads \in Seq(FieldsOf(P)) /\ CallsOf(object, reads) \in Seq(Seq(AddCalls(V, P)))
  BY <1>1 DEF OneRead
<1>3. /\ object.class \in S => \E i : GroupUpTo(object, Q, F, T, i)
      /\ object.class \notin S => \A p \in Q \cup F : p \notin P
      /\ \A p \in Q \cup F : p \in Parameters /\ p \notin PT_TAB
  <2>1. n + 1 \in DOMAIN wire
    OBVIOUS
  <2> QED BY <2>1 DEF GroupClasses
<1>4. reads = ReadFields(object)
  OBVIOUS
<1> HIDE DEF object, P, c, reads, after
<1>5. \A p \in Parameters :
        /\ c.data[p] # << >> /\ p \notin PT_TAB => after.data[p] = c.data[p]
        /\ p \notin P => after.data[p] = c.data[p]
  BY <1>2, ObjectRead DEF after
<1>6. ASSUME AllRead(c, Q, T) PROVE AllRead(after, Q, T)
  BY <1>3, <1>5, <1>6 DEF AllRead
<1>7. ASSUME NoneRead(c, Q, F), object.class \in S PROVE AllRead(after, Q, T)
  <2>1. PICK i : GroupUpTo(object, Q, F, T, i)
    BY <1>3, <1>7
  <2> QED BY <1>2, <1>4, <1>7, <2>1, GroupFilled DEF after
<1>8. ASSUME NoneRead(c, Q, F), object.class \notin S PROVE NoneRead(after, Q, F)
  BY <1>3, <1>5, <1>8 DEF NoneRead
<1>9. f[n + 1] = after /\ f[n] = c /\ wire[n + 1].class = object.class
  BY <1>2 DEF c, object
<1> QED BY <1>2, <1>6, <1>7, <1>8, <1>9

(* What a message says of them: nothing when none of its objects carries   *)
(* them, all of them and their values otherwise.                           *)
LEMMA GroupRead ==
  ASSUME NEW wire, ShapedWire(wire),
         NEW S, NEW Q, NEW F, NEW T, GroupClasses(wire, S, Q, F, T)
  PROVE  IF \E k \in DOMAIN wire : wire[k].class \in S
         THEN AllRead(parse_data(wire), Q, T) ELSE NoneRead(parse_data(wire), Q, F)
<1>r. PICK N \in Nat : \E V, f : DOMAIN wire = 1..N /\ Reading(wire, N, V, f)
  BY Readings
<1>1. PICK V, f : DOMAIN wire = 1..N /\ Reading(wire, N, V, f)
  BY <1>r
<1>2. \A n \in 0..(N - 1) :
        /\ f[n + 1] \in StoresOver(V)
        /\ AllRead(f[n], Q, T) => AllRead(f[n + 1], Q, T)
        /\ NoneRead(f[n], Q, F) =>
             IF wire[n + 1].class \in S THEN AllRead(f[n + 1], Q, T) ELSE NoneRead(f[n + 1], Q, F)
  <2> TAKE n \in 0..(N - 1)
  <2> QED BY <1>1, GroupStep
<1>3. f[0] = Empty /\ f[0] \in StoresOver(V) /\ 0 \in 0..N
  <2>1. 0 \in 0..N
    OBVIOUS
  <2> QED BY <1>1, <2>1 DEF Reading
<1>4. NoneRead(f[0], Q, F)
  BY <1>3 DEF NoneRead, GroupClasses, Empty
<1> DEFINE All == {c \in StoresOver(V) : AllRead(c, Q, T)}
           None == {c \in StoresOver(V) : NoneRead(c, Q, F)}
           Both == All \cup None
<1>5. ASSUME NEW k \in DOMAIN wire, wire[k].class \in S PROVE AllRead(parse_data(wire), Q, T)
  <2>1. k - 1 \in 0..(N - 1) /\ k \in 0..N /\ (k - 1) + 1 = k /\ k - 1 \in 0..N
    BY <1>1
  <2>2. \A n \in 0..(N - 1) : f[n] \in All => f[n + 1] \in All
    BY <1>2
  <2>3. \A n \in 0..(N - 1) : f[n] \in Both => f[n + 1] \in Both
    BY <1>2
  <2>4. f[0] \in Both
    BY <1>3, <1>4
  <2> HIDE DEF Both, All
  <2>5. f[k - 1] \in Both
    <3> DEFINE Up == {n \in 0..N : f[n] \in Both}
    <3>1. 0 \in Up
      BY <1>3, <2>4
    <3>2. ASSUME NEW n \in 0..(N - 1), n \in Up PROVE n + 1 \in Up
      BY <2>3, <3>2
    <3>3. 0..N \subseteq Up
      <4> HIDE DEF Up
      <4> QED BY <3>1, <3>2, UpTo
    <3> QED BY <2>1, <3>3
  <2>6. f[k] \in All
    BY <1>2, <1>5, <2>1, <2>5 DEF Both, All
  <2>7. parse_data(wire) \in All
    <3>1. \A n \in k..(N - 1) : f[n] \in All => f[n + 1] \in All
      BY <1>1, <2>2
    <3> QED BY <1>1, <2>1, <2>6, <3>1, ReadingKeeps
  <2> QED BY <2>7 DEF All
<1>6. ASSUME ~ \E k \in DOMAIN wire : wire[k].class \in S PROVE NoneRead(parse_data(wire), Q, F)
  <2>1. \A n \in 0..(N - 1) : f[n] \in None => f[n + 1] \in None
    <3> TAKE n \in 0..(N - 1)
    <3>1. n + 1 \in DOMAIN wire
      BY <1>1
    <3> QED BY <1>2, <1>6, <3>1
  <2>2. f[0] \in None
    BY <1>3, <1>4
  <2> HIDE DEF None
  <2>3. parse_data(wire) \in None
    BY <1>1, <1>3, <2>1, <2>2, ReadingKeeps
  <2> QED BY <2>3 DEF None
<1> QED BY <1>5, <1>6

(* Fields with a width begin at different places.                          *)
Filling(fields, N) == DOMAIN fields = 1..N /\ \A k \in 1..N : fields[k].width \in Nat \ {0}

LEMMA PrefixBytes ==
  ASSUME NEW fields, NEW N \in Nat, DOMAIN fields = 1..N, \A k \in 1..N : fields[k].width \in Int
  PROVE  \E b : Widths(b, fields, N) /\ \A n \in 0..N : BytesOf(SubSeq(fields, 1, n)) = b[n]
<1>1. PICK b : Widths(b, fields, N)
  BY WidthsInTurn
<1>2. ASSUME NEW n \in 0..N PROVE BytesOf(SubSeq(fields, 1, n)) = b[n]
  <2> DEFINE part == SubSeq(fields, 1, n)
  <2>1. DOMAIN part = 1..n /\ \A k \in 1..n : part[k] = fields[k] /\ k \in 1..N
    <3>1. part = [i \in 1..n |-> fields[1 + i - 1]]
      BY DEF SubSeq
    <3>2. \A i \in 1..n : 1 + i - 1 = i
      OBVIOUS
    <3> HIDE DEF part
    <3> QED BY <3>1, <3>2
  <2> HIDE DEF part
  <2>2. PICK a : Widths(a, part, n)
    BY <2>1, WidthsInTurn
  <2> DEFINE T == {k \in 0..n : a[k] = b[k]}
  <2>3. 0 \in T
    BY <1>1, <2>2 DEF Widths
  <2>4. ASSUME NEW k \in 0..(n - 1), k \in T PROVE k + 1 \in T
    <3>1. k \in 0..(N - 1) /\ k + 1 \in 1..n
      OBVIOUS
    <3>2. a[k + 1] = a[k] + part[k + 1].width
      BY <2>2 DEF Widths
    <3>3. b[k + 1] = b[k] + fields[k + 1].width
      BY <1>1, <3>1 DEF Widths
    <3> QED BY <2>1, <2>4, <3>1, <3>2, <3>3
  <2>5. 0..n \subseteq T
    <3>1. n \in Nat
      OBVIOUS
    <3> HIDE DEF T
    <3> QED BY <2>3, <2>4, <3>1, UpTo
  <2>6. a[n] = b[n]
    BY <2>5
  <2> QED BY <2>2, <2>6 DEF Widths, part
<1> QED BY <1>1, <1>2

LEMMA StartsApart ==
  ASSUME NEW fields, NEW N \in Nat, Filling(fields, N), NEW i \in 1..N, NEW j \in 1..N,
         BytesOf(SubSeq(fields, 1, i - 1)) = BytesOf(SubSeq(fields, 1, j - 1))
  PROVE  i = j
<1>1. PICK b : Widths(b, fields, N) /\ \A n \in 0..N : BytesOf(SubSeq(fields, 1, n)) = b[n]
  BY PrefixBytes DEF Filling
<1>2. ASSUME NEW k \in 0..N PROVE \A n \in k..N : n = k \/ b[k] < b[n]
  <2> DEFINE T == {n \in 0..(N - k) : n = 0 \/ b[k] < b[k + n]}
  <2>1. 0 \in T /\ N - k \in Nat
    OBVIOUS
  <2>2. ASSUME NEW n \in 0..((N - k) - 1), n \in T PROVE n + 1 \in T
    <3>1. k + n \in 0..(N - 1) /\ (k + n) + 1 = k + (n + 1) /\ n + 1 \in 0..(N - k) /\ k + n \in 0..N /\ k + n + 1 \in 1..N
      OBVIOUS
    <3>2. b[(k + n) + 1] = b[k + n] + fields[(k + n) + 1].width
      BY <1>1, <3>1 DEF Widths
    <3>3. fields[(k + n) + 1].width \in Nat \ {0}
      BY <3>1 DEF Filling
    <3>4. b[k + n] \in Int /\ b[k] \in Int
      BY <1>1, <3>1 DEF Widths
    <3>5. n = 0 \/ b[k] < b[k + n]
      BY <2>2
    <3>6. b[k] < b[k + (n + 1)]
      <4>1. CASE n = 0
        <5>1. k + n = k
          BY <4>1
        <5> QED BY <3>1, <3>2, <3>3, <3>4, <5>1
      <4>2. CASE b[k] < b[k + n]
        BY <3>1, <3>2, <3>3, <3>4, <4>2
      <4> QED BY <3>5, <4>1, <4>2
    <3> QED BY <3>1, <3>6
  <2>3. 0..(N - k) \subseteq T
    <3> HIDE DEF T
    <3> QED BY <2>1, <2>2, UpTo
  <2>4. ASSUME NEW n \in k..N PROVE n = k \/ b[k] < b[n]
    <3>1. n - k \in 0..(N - k) /\ k + (n - k) = n
      OBVIOUS
    <3>2. n - k \in T
      BY <2>3, <3>1
    <3> QED BY <3>1, <3>2
  <2> QED BY <2>4
<1>3. i - 1 \in 0..N /\ j - 1 \in 0..N
  OBVIOUS
<1>4. b[i - 1] = b[j - 1] /\ b[i - 1] \in Int /\ b[j - 1] \in Int
  BY <1>1, <1>3 DEF Widths
<1>5. CASE i < j
  <2>1. j - 1 \in (i - 1)..N
    BY <1>5
  <2>2. j - 1 = i - 1 \/ b[i - 1] < b[j - 1]
    BY <1>2, <1>3, <2>1
  <2> QED BY <1>4, <1>5, <2>2
<1>6. CASE j < i
  <2>1. i - 1 \in (j - 1)..N
    BY <1>6
  <2>2. j - 1 = i - 1 \/ b[j - 1] < b[i - 1]
    BY <1>2, <1>3, <2>1
  <2> QED BY <1>4, <1>6, <2>2
<1> QED BY <1>5, <1>6

(* A value is read back where a field of its kind and width begins.        *)
LEMMA ReadAtOffset ==
  ASSUME NEW object, NEW N \in Nat, Filling(object.fields, N), NEW reads, NEW k, NEW j \in 1..N,
         BytesOf(SubSeq(object.fields, 1, j - 1)) = BytesOf(SubSeq(reads, 1, k - 1)),
         object.fields[j].width = reads[k].width, object.fields[j].kind = reads[k].kind,
         reads[k].kind # "given"
  PROVE  ReadWith(object, reads, k) = object.fields[j].val
<1> DEFINE fields == object.fields
           offset == BytesOf(SubSeq(reads, 1, k - 1))
           starts == {n \in DOMAIN fields :
                        /\ BytesOf(SubSeq(fields, 1, n - 1)) = offset
                        /\ fields[n].width = reads[k].width}
<1>1. starts = {j}
  <2>1. j \in starts
    BY DEF Filling
  <2>2. ASSUME NEW n \in starts PROVE n = j
    <3>1. n \in 1..N /\ BytesOf(SubSeq(fields, 1, n - 1)) = BytesOf(SubSeq(fields, 1, j - 1))
      BY DEF Filling
    <3> HIDE DEF starts
    <3> QED BY <3>1, StartsApart
  <2> HIDE DEF starts
  <2> QED BY <2>1, <2>2
<1>2. (CHOOSE n \in starts : TRUE) = j
  <2> HIDE DEF starts
  <2> QED BY <1>1
<1>3. ReadValue(object, offset, reads[k]) =
        IF starts = {} THEN Garbage
        ELSE IF fields[CHOOSE n \in starts : TRUE].kind = reads[k].kind
             THEN fields[CHOOSE n \in starts : TRUE].val
        ELSE IF {fields[CHOOSE n \in starts : TRUE].kind, reads[k].kind} = {"addr", "int"}
             THEN - fields[CHOOSE n \in starts : TRUE].val
        ELSE Garbage
  BY DEF ReadValue
<1> HIDE DEF starts
<1>4. ReadValue(object, offset, reads[k]) = fields[j].val
  BY <1>1, <1>2, <1>3
<1> QED BY <1>4 DEF ReadWith

Mirrors(fields, reads, k) == \A i \in 1..k : reads[i].width = fields[i].width

LEMMA ReadMirrored ==
  ASSUME NEW object, NEW N \in Nat, Filling(object.fields, N), NEW reads, NEW k \in 1..N,
         Mirrors(object.fields, reads, k), object.fields[k].kind = reads[k].kind,
         reads[k].kind # "given"
  PROVE  ReadWith(object, reads, k) = object.fields[k].val
<1> DEFINE a == SubSeq(object.fields, 1, k - 1)
           b == SubSeq(reads, 1, k - 1)
<1>1. k - 1 \in Nat /\ \A i \in 1..(k - 1) : i \in 1..k /\ i \in 1..N /\ 1 + i - 1 = i
  OBVIOUS
<1>2. DOMAIN a = 1..(k - 1) /\ \A i \in 1..(k - 1) : a[i] = object.fields[i]
  <2>1. a = [i \in 1..(k - 1) |-> object.fields[1 + i - 1]]
    BY DEF SubSeq
  <2> HIDE DEF a
  <2> QED BY <1>1, <2>1
<1>3. DOMAIN b = 1..(k - 1) /\ \A i \in 1..(k - 1) : b[i] = reads[i]
  <2>1. b = [i \in 1..(k - 1) |-> reads[1 + i - 1]]
    BY DEF SubSeq
  <2> HIDE DEF b
  <2> QED BY <1>1, <2>1
<1> HIDE DEF a, b
<1>4. \A i \in 1..(k - 1) : a[i].width \in Int /\ b[i].width = a[i].width
  BY <1>1, <1>2, <1>3 DEF Mirrors, Filling
<1>5. BytesOf(a) = BytesOf(b)
  BY <1>1, <1>2, <1>3, <1>4, SameWidths
<1>6. reads[k].width = object.fields[k].width
  BY DEF Mirrors
<1> QED BY <1>5, <1>6, ReadAtOffset DEF a, b

(* What is read is the value of a field of the kind, or has no meaning.    *)
LEMMA ReadOneOf ==
  ASSUME NEW object, NEW reads, NEW k, reads[k].kind \notin {"given", "addr", "int"}
  PROVE  \/ ReadWith(object, reads, k) = Garbage
         \/ \E j \in DOMAIN object.fields : /\ object.fields[j].kind = reads[k].kind
                                            /\ ReadWith(object, reads, k) = object.fields[j].val
<1> DEFINE fields == object.fields
           offset == BytesOf(SubSeq(reads, 1, k - 1))
           starts == {n \in DOMAIN fields :
                        /\ BytesOf(SubSeq(fields, 1, n - 1)) = offset
                        /\ fields[n].width = reads[k].width}
<1> DEFINE j == CHOOSE n \in starts : TRUE
<1>1. starts # {} => j \in DOMAIN fields
  OBVIOUS
<1>2. ReadWith(object, reads, k) =
        IF starts = {} THEN Garbage
        ELSE IF fields[j].kind = reads[k].kind THEN fields[j].val
        ELSE IF {fields[j].kind, reads[k].kind} = {"addr", "int"} THEN - fields[j].val
        ELSE Garbage
  BY DEF ReadValue, ReadWith
<1> HIDE DEF j, starts, offset
<1>3. {fields[j].kind, reads[k].kind} # {"addr", "int"}
  <2>1. reads[k].kind \in {fields[j].kind, reads[k].kind}
    OBVIOUS
  <2> QED BY <2>1
<1> HIDE DEF fields
<1>4. \/ ReadWith(object, reads, k) = Garbage
      \/ starts # {} /\ fields[j].kind = reads[k].kind /\ ReadWith(object, reads, k) = fields[j].val
  BY <1>2, <1>3
<1> QED BY <1>1, <1>4 DEF fields

SameField(a, b) == a.kind = b.kind /\ a.width = b.width /\ a.pars = b.pars

PlainKinds == {"addr", "int", "float", "short", "char", "int24", "name"}

(* A reader that goes through the fields as they were written.             *)
Copies(reads, fields, Q, F, n) ==
  /\ n \in 1..Len(reads) /\ n \in 1..Len(fields) /\ Filling(fields, Len(fields))
  /\ \A i \in 1..n : SameField(reads[i], fields[i])
  /\ \A i \in 1..n : \/ reads[i].kind = "pad"
                     \/ reads[i].kind \in PlainKinds /\ (\E p \in Q : Single(reads[i], p))
                     \/ FlagsOf(reads[i], F)
  /\ \A i \in 1..n, j \in 1..n, p \in Parameters : Carries(reads[i], p) /\ Carries(reads[j], p) => i = j
  /\ \A q \in Q : \E i \in 1..n : Single(reads[i], q)

(* What a store says of the parameters of Q. *)
Said(c, Q) == [q \in Q |-> {Read(c, q)}]

Sayable(c, Q) ==
  /\ \A q \in Q : IsPresent(c, q)
  /\ \A q \in Q \cap {"MSG_ID_EPOCH", "CALL_ID_IS"} : Read(c, q) % 2^24 = Read(c, q)

OnlyIds(reads) ==
  \A i \in DOMAIN reads : reads[i].kind = "int24" =>
    reads[i].pars \in {<< "MSG_ID_EPOCH" >>, << "CALL_ID_IS" >>}

LEMMA PlainEncoded ==
  ASSUME NEW f, NEW q, f.pars = << q >>, f.kind \in PlainKinds, NEW c, IsPresent(c, q),
         f.kind = "int24" => Read(c, q) % 2^24 = Read(c, q)
  PROVE  WrittenField(f, c).val = Read(c, q) /\ WrittenField(f, c).kind = f.kind
<1>1. f.pars # << >> /\ f.pars[1] = q
  OBVIOUS
<1>2. Encoded(f, c) = Read(c, q)
  <2>1. CASE f.kind = "int24"
    BY <1>1, <2>1 DEF Encoded
  <2>2. CASE f.kind # "int24"
    <3>1. /\ f.kind # "granularity" /\ f.kind # "rtad" /\ f.kind # "flags" /\ f.kind # "ero"
      BY DEF PlainKinds
    <3> QED BY <1>1, <2>2, <3>1 DEF Encoded
  <2> QED BY <2>1, <2>2
<1>3. f.kind # "granularity"
  BY DEF PlainKinds
<1> QED BY <1>2, <1>3 DEF WrittenField

LEMMA CopyGroup ==
  ASSUME NEW class, NEW body, NEW c, NEW Q, NEW F, NEW n, NEW object,
         object = WrittenObject(class, body, c),
         Copies(ReadFields(object), body.fields, Q, F, n), OnlyIds(ReadFields(object)),
         Sayable(c, Q)
  PROVE  GroupUpTo(object, Q, F, Said(c, Q), n)
<1> DEFINE reads == ReadFields(object)
           fields == body.fields
           N == Len(fields)
           T == Said(c, Q)
<1>1. /\ n \in 1..Len(reads) /\ n \in 1..N /\ Filling(fields, N)
      /\ \A i \in 1..n : SameField(reads[i], fields[i])
      /\ \A i \in 1..n : \/ reads[i].kind = "pad"
                         \/ reads[i].kind \in PlainKinds /\ (\E p \in Q : Single(reads[i], p))
                         \/ FlagsOf(reads[i], F)
      /\ \A i \in 1..n, j \in 1..n, p \in Parameters : Carries(reads[i], p) /\ Carries(reads[j], p) => i = j
      /\ \A q \in Q : \E i \in 1..n : Single(reads[i], q)
  BY DEF Copies
<1>2. object.fields = [k \in DOMAIN fields |-> WrittenField(fields[k], c)]
  BY DEF WrittenObject
<1> HIDE DEF reads, fields
<1>3. N \in Nat /\ DOMAIN fields = 1..N
  BY <1>1 DEF Filling
<1>4. Filling(object.fields, N)
  BY <1>1, <1>2, <1>3 DEF Filling, WrittenField
<1> HIDE DEF N
<1>5. ASSUME NEW q \in Q PROVE \E i \in 1..n : Single(reads[i], q) /\ ReadWith(object, reads, i) \in T[q]
  <2>1. PICK i \in 1..n : Single(reads[i], q)
    BY <1>1
  <2>2. reads[i].pars = << q >> /\ reads[i].kind \in PlainKinds
    <3>1. reads[i].pars = << q >> /\ reads[i].kind # "pad" /\ reads[i].kind # "flags"
      BY <2>1 DEF Single
    <3> QED BY <1>1, <3>1 DEF FlagsOf
  <2>3. i \in 1..N /\ i \in 1..Len(reads) /\ i \in DOMAIN reads
    BY <1>1, <1>3
  <2>4. fields[i].pars = << q >> /\ fields[i].kind = reads[i].kind
    BY <1>1, <2>2 DEF SameField
  <2>5. reads[i].kind = "int24" => Read(c, q) % 2^24 = Read(c, q)
    <3>1. reads[i].kind = "int24" => q \in {"MSG_ID_EPOCH", "CALL_ID_IS"}
      <4>1. reads[i].kind = "int24" => << q >> \in {<< "MSG_ID_EPOCH" >>, << "CALL_ID_IS" >>}
        BY <2>2, <2>3 DEF OnlyIds, reads
      <4>2. << q >>[1] = q /\ << "MSG_ID_EPOCH" >>[1] = "MSG_ID_EPOCH" /\ << "CALL_ID_IS" >>[1] = "CALL_ID_IS"
        OBVIOUS
      <4> QED BY <4>1, <4>2
    <3> QED BY <3>1 DEF Sayable
  <2>6. WrittenField(fields[i], c).val = Read(c, q) /\ WrittenField(fields[i], c).kind = reads[i].kind
    BY <2>2, <2>4, <2>5, PlainEncoded DEF Sayable
  <2>7. object.fields[i].val = Read(c, q) /\ object.fields[i].kind = reads[i].kind
    BY <1>2, <1>3, <2>3, <2>6
  <2>8. Mirrors(object.fields, reads, i)
    <3>1. \A k \in 1..i : k \in 1..n /\ k \in DOMAIN fields
      BY <1>1, <1>3, <2>3
    <3> QED BY <1>1, <1>2, <3>1 DEF Mirrors, SameField, WrittenField
  <2>9. reads[i].kind # "given"
    BY <2>2 DEF PlainKinds
  <2>10. ReadWith(object, reads, i) = object.fields[i].val
    BY <1>3, <1>4, <2>3, <2>7, <2>8, <2>9, ReadMirrored
  <2> QED BY <2>1, <2>7, <2>10 DEF Said
<1>6. \A i \in 1..n : reads[i].kind = "pad" \/ (\E p \in Q : Single(reads[i], p)) \/ FlagsOf(reads[i], F)
  BY <1>1
<1>7. \A q \in Q : \E i \in 1..n : /\ Single(reads[i], q)
                                   /\ q \in DOMAIN T => ReadWith(object, reads, i) \in T[q]
  BY <1>5
<1> QED BY <1>1, <1>6, <1>7 DEF GroupUpTo, reads

ClassCopies(class, c, objs, Q, F) ==
  LET body == Written(class, c, objs)
      reads == ReadFields(WrittenObject(class, body, c))
  IN  OnlyIds(reads) /\ \E n : Copies(reads, body.fields, Q, F, n)

LEMMA OneCarried ==
  ASSUME NEW f, NEW p, Single(f, p)
  PROVE  \A q : Carries(f, q) => q = p
<1>1. f.pars = << p >>
  BY DEF Single
<1>2. Len(f.pars) = 1 /\ f.pars[1] = p
  BY <1>1
<1> QED BY <1>2 DEF Carries

LEMMA CopiesThree ==
  ASSUME NEW p, NEW q, NEW a, NEW b, NEW d, p # q,
         Single(a, p), a.kind \in PlainKinds, b.kind = "pad", b.pars = << >>, Single(d, q), d.kind \in PlainKinds,
         a.width \in Nat \ {0}, b.width \in Nat \ {0}, d.width \in Nat \ {0},
         NEW fields, fields = << a, b, d >>
  PROVE  Copies(fields, fields, {p, q}, {}, 3)
<1>1. Len(fields) = 3 /\ fields[1] = a /\ fields[2] = b /\ fields[3] = d /\ DOMAIN fields = 1..3
  OBVIOUS
<1>2. \A i \in 1..3 : i = 1 \/ i = 2 \/ i = 3
  OBVIOUS
<1>3. Filling(fields, 3)
  BY <1>1, <1>2 DEF Filling
<1>4. \A x : Carries(a, x) => x = p
  BY OneCarried
<1>5. \A x : Carries(d, x) => x = q
  BY OneCarried
<1>6. \A x : ~ Carries(b, x)
  <2>1. Len(b.pars) = 0
    OBVIOUS
  <2> QED BY <2>1 DEF Carries
<1>7. \A i \in 1..3, j \in 1..3, x \in Parameters : Carries(fields[i], x) /\ Carries(fields[j], x) => i = j
  BY <1>1, <1>2, <1>4, <1>5, <1>6
<1>8. \A i \in 1..3 :
                     \/ fields[i].kind = "pad"
                     \/ fields[i].kind \in PlainKinds /\ (\E x \in {p, q} : Single(fields[i], x))
                     \/ FlagsOf(fields[i], {})
  BY <1>1, <1>2
<1>9. \A x \in {p, q} : \E i \in 1..3 : Single(fields[i], x)
  BY <1>1
<1>10. \A i \in 1..3 : SameField(fields[i], fields[i])
  BY DEF SameField
<1> QED BY <1>1, <1>3, <1>7, <1>8, <1>9, <1>10 DEF Copies

LEMMA CopiesFour ==
  ASSUME NEW p, NEW q, NEW r, NEW a, NEW b, NEW d, NEW e, p # q, p # r, q # r,
         Single(a, p), a.kind \in PlainKinds, b.kind = "pad", b.pars = << >>, Single(d, q), d.kind \in PlainKinds,
         Single(e, r), e.kind \in PlainKinds,
         a.width \in Nat \ {0}, b.width \in Nat \ {0}, d.width \in Nat \ {0}, e.width \in Nat \ {0},
         NEW fields, fields = << a, b, d, e >>
  PROVE  Copies(fields, fields, {p, q, r}, {}, 4)
<1>1. Len(fields) = 4 /\ fields[1] = a /\ fields[2] = b /\ fields[3] = d /\ fields[4] = e /\ DOMAIN fields = 1..4
  OBVIOUS
<1>2. \A i \in 1..4 : i = 1 \/ i = 2 \/ i = 3 \/ i = 4
  OBVIOUS
<1>3. Filling(fields, 4)
  BY <1>1, <1>2 DEF Filling
<1>4. \A x : Carries(a, x) => x = p
  BY OneCarried
<1>5. \A x : Carries(d, x) => x = q
  BY OneCarried
<1>e. \A x : Carries(e, x) => x = r
  BY OneCarried
<1>6. \A x : ~ Carries(b, x)
  <2>1. Len(b.pars) = 0
    OBVIOUS
  <2> QED BY <2>1 DEF Carries
<1>7. \A i \in 1..4, j \in 1..4, x \in Parameters : Carries(fields[i], x) /\ Carries(fields[j], x) => i = j
  BY <1>1, <1>2, <1>4, <1>5, <1>6, <1>e
<1>8. \A i \in 1..4 :
                     \/ fields[i].kind = "pad"
                     \/ fields[i].kind \in PlainKinds /\ (\E x \in {p, q, r} : Single(fields[i], x))
                     \/ FlagsOf(fields[i], {})
  BY <1>1, <1>2
<1>9. \A x \in {p, q, r} : \E i \in 1..4 : Single(fields[i], x)
  BY <1>1
<1>10. \A i \in 1..4 : SameField(fields[i], fields[i])
  BY DEF SameField
<1> QED BY <1>1, <1>3, <1>7, <1>8, <1>9, <1>10 DEF Copies

LEMMA CopiesMore ==
  ASSUME NEW reads, NEW fields, NEW Q, NEW F, NEW n, Copies(fields, fields, Q, F, n),
         n \in 1..Len(reads), \A i \in 1..n : reads[i] = fields[i]
  PROVE  Copies(reads, fields, Q, F, n)
BY DEF Copies

LEMMA SlotFields ==
  /\ \A p \in {"SESSION_DEST_ADDR", "EXTENDED_IPV4_ADDR", "FILTER_SRC_ADDR", "SENDER_SRC_ADDR"} :
       Single(Addr(p), p) /\ Addr(p).kind = "addr" /\ Addr(p).width = 4
  /\ \A p \in {"TUNNEL_ID", "FILTER_SRC_PORT", "SENDER_SRC_ID"} :
       Single(Short(p), p) /\ Short(p).kind = "short" /\ Short(p).width = 2
  /\ Pad(2).kind = "pad" /\ Pad(2).pars = << >> /\ Pad(2).width = 2
BY DEF Addr, Short, Pad, Field, Single, HasType, AddType, Parameters, PT_UI, PT_US, PT_TAB

LEMMA SessionCopies ==
  ASSUME NEW class \in {"SESSION_IETF", "SESSION_OIF"}, NEW c, NEW objs
  PROVE  ClassCopies(class, c, objs, SessionId, {})
<1> DEFINE body == Written(class, c, objs)
           object == WrittenObject(class, body, c)
           fields == << Addr("SESSION_DEST_ADDR"), Pad(2), Short("TUNNEL_ID"), Addr("EXTENDED_IPV4_ADDR") >>
<1>1. body.fields = fields
  BY DEF Written, WriteSessionAndHop, Body
<1>2. object.class = class
  BY DEF WrittenObject
<1>3. ReadFields(object) = fields
  <2> HIDE DEF object
  <2> QED BY <1>2 DEF ReadFields, ReadSession
<1>4. Copies(fields, fields, SessionId, {}, 4)
  <2>1. SessionId = {"SESSION_DEST_ADDR", "TUNNEL_ID", "EXTENDED_IPV4_ADDR"}
    BY DEF SessionId
  <2>2. "addr" \in PlainKinds /\ "short" \in PlainKinds /\ 4 \in Nat \ {0} /\ 2 \in Nat \ {0}
    BY DEF PlainKinds
  <2> HIDE DEF fields
  <2> QED BY <2>1, <2>2, SlotFields, CopiesFour DEF fields
<1>5. OnlyIds(fields)
  <2>1. \A i \in DOMAIN fields : fields[i].kind # "int24"
    BY SlotFields
  <2> QED BY <2>1 DEF OnlyIds
<1> HIDE DEF fields, object, body
<1> QED BY <1>1, <1>3, <1>4, <1>5 DEF ClassCopies, object, body

LEMMA SenderCopies ==
  ASSUME NEW class \in {"SENDER_TEMPLATE", "FILTER_SPEC"}, NEW c, NEW objs, NEW p, NEW q,
         class = "SENDER_TEMPLATE" => p = "SENDER_SRC_ADDR" /\ q = "SENDER_SRC_ID",
         class = "FILTER_SPEC" => p = "FILTER_SRC_ADDR" /\ q = "FILTER_SRC_PORT"
  PROVE  ClassCopies(class, c, objs, {p, q}, {})
<1> DEFINE body == Written(class, c, objs)
           object == WrittenObject(class, body, c)
           fields == << Addr(p), Pad(2), Short(q) >>
<1>1. body.fields = fields
  BY DEF Written, WriteSenderAndFilter, Body
<1>2. object.class = class
  BY DEF WrittenObject
<1>3. ReadFields(object) = fields
  <2> HIDE DEF object
  <2> QED BY <1>2 DEF ReadFields, ReadSenderAndFilter
<1>0. /\ Single(Addr(p), p) /\ Addr(p).kind = "addr" /\ Addr(p).width = 4
      /\ Single(Short(q), q) /\ Short(q).kind = "short" /\ Short(q).width = 2 /\ p # q
  BY SlotFields
<1>4. Copies(fields, fields, {p, q}, {}, 3)
  <2>2. "addr" \in PlainKinds /\ "short" \in PlainKinds /\ 4 \in Nat \ {0} /\ 2 \in Nat \ {0}
    BY DEF PlainKinds
  <2> HIDE DEF fields
  <2> QED BY <1>0, <2>2, SlotFields, CopiesThree DEF fields
<1>5. OnlyIds(fields)
  <2>1. \A i \in DOMAIN fields : fields[i].kind # "int24"
    BY <1>0, SlotFields
  <2> QED BY <2>1 DEF OnlyIds
<1> HIDE DEF fields, object, body
<1> QED BY <1>1, <1>3, <1>4, <1>5 DEF ClassCopies, object, body

LEMMA WrittenGroup ==
  ASSUME NEW c, Good(c), NEW objs \in Seq(Classes), AllWritable(objs, c), NEW S, NEW Q, NEW F,
         Q \cup F \subseteq Parameters \ PT_TAB,
         \A class \in S : ClassCopies(class, c, objs, Q, F),
         \A class \in WireClasses \ S : \A p \in Q \cup F : p \notin MayCarry(class),
         (\E i \in Own(objs) : objs[i] \in S) => Sayable(c, Q)
  PROVE  IF \E i \in Own(objs) : objs[i] \in S
         THEN AllRead(parse_data(get_data(objs, c)), Q, Said(c, Q))
         ELSE NoneRead(parse_data(get_data(objs, c)), Q, F)
<1> DEFINE wire == get_data(objs, c)
           T == Said(c, Q)
<1>1. /\ ShapedWire(wire)
      /\ \A k \in DOMAIN wire : \E i : Wired(wire[k], objs, c, i)
      /\ \A i \in Own(objs) : \E k \in DOMAIN wire : Wired(wire[k], objs, c, i)
  BY WireOf
<1> HIDE DEF wire, T
<1>2. ASSUME NEW k \in DOMAIN wire
      PROVE  /\ wire[k].class \in S => \E n : GroupUpTo(wire[k], Q, F, T, n)
             /\ wire[k].class \notin S => \A p \in Q \cup F : p \notin MayCarry(wire[k].class)
             /\ wire[k].class \in S => \E i \in Own(objs) : objs[i] \in S
  <2>1. PICK i : Wired(wire[k], objs, c, i)
    BY <1>1
  <2> DEFINE class == objs[i]
             body == Written(class, c, objs)
  <2>2. /\ wire[k].class = class /\ wire[k] = WrittenObject(class, body, c) /\ i \in Own(objs)
        /\ class \in WireClasses
    BY <2>1 DEF Wired, Own, Shaped
  <2> HIDE DEF class, body
  <2>3. ASSUME class \in S PROVE \E n : GroupUpTo(wire[k], Q, F, T, n)
    <3>0. ClassCopies(class, c, objs, Q, F)
      BY <2>3
    <3>1. OnlyIds(ReadFields(wire[k])) /\ \E n : Copies(ReadFields(wire[k]), body.fields, Q, F, n)
      BY <3>0, <2>2 DEF ClassCopies, body
    <3>2. PICK n : Copies(ReadFields(wire[k]), body.fields, Q, F, n)
      BY <3>1
    <3>3. Sayable(c, Q)
      BY <2>2, <2>3 DEF class
    <3>4. GroupUpTo(wire[k], Q, F, T, n)
      BY <2>2, <3>1, <3>2, <3>3, CopyGroup DEF T
    <3> QED BY <3>4
  <2> QED BY <2>2, <2>3 DEF class
<1>3. GroupClasses(wire, S, Q, F, T)
  BY <1>2 DEF GroupClasses
<1>4. IF \E k \in DOMAIN wire : wire[k].class \in S
      THEN AllRead(parse_data(wire), Q, T) ELSE NoneRead(parse_data(wire), Q, F)
  BY <1>1, <1>3, GroupRead
<1>5. (\E k \in DOMAIN wire : wire[k].class \in S) <=> \E i \in Own(objs) : objs[i] \in S
  <2>1. ASSUME NEW i \in Own(objs), objs[i] \in S PROVE \E k \in DOMAIN wire : wire[k].class \in S
    <3>1. PICK k \in DOMAIN wire : Wired(wire[k], objs, c, i)
      BY <1>1
    <3> QED BY <2>1, <3>1 DEF Wired
  <2> QED BY <1>2, <2>1
<1> QED BY <1>4, <1>5 DEF wire, T

LEMMA NameCarriers ==
  ASSUME NEW class \in WireClasses
  PROVE  /\ (\E p \in SessionId : p \in MayCarry(class)) => class \in {"SESSION_IETF", "SESSION_OIF"}
         /\ (\E p \in {"FILTER_SRC_ADDR", "FILTER_SRC_PORT"} : p \in MayCarry(class)) => class = "FILTER_SPEC"
         /\ (\E p \in MessageId : p \in MayCarry(class)) =>
              class \in {"MESSAGE_ID", "MESSAGE_ID_ACK", "MESSAGE_ID_NACK"}
BY WireClassList DEF MayCarry, Beyond, requirements, WireClasses, Classes, TokenBucket, Sonet,
                     EthernetBandwidth, EthernetLink, SessionId, MessageId, LocalCallId, StyleFlags

IdClasses == {"MESSAGE_ID", "MESSAGE_ID_ACK", "MESSAGE_ID_NACK"}
IdFields == << Char("MSG_ID_FLAGS"), Int24("MSG_ID_EPOCH"), Word("MSG_ID_ID") >>

LEMMA SlotsOfId ==
  /\ Single(Char("MSG_ID_FLAGS"), "MSG_ID_FLAGS") /\ Char("MSG_ID_FLAGS").kind = "char" /\ Char("MSG_ID_FLAGS").width = 1
  /\ Single(Int24("MSG_ID_EPOCH"), "MSG_ID_EPOCH") /\ Int24("MSG_ID_EPOCH").kind = "int24" /\ Int24("MSG_ID_EPOCH").width = 3
  /\ Int24("MSG_ID_EPOCH").pars = << "MSG_ID_EPOCH" >>
  /\ Single(Word("MSG_ID_ID"), "MSG_ID_ID") /\ Word("MSG_ID_ID").kind = "int" /\ Word("MSG_ID_ID").width = 4
BY DEF Char, Int24, Word, Field, Single, HasType, AddType, Parameters, PT_UI, PT_UC, PT_TAB

(* The numbers of three bytes a message of the router holds.               *)
Byte3(object) ==
  \A i \in DOMAIN object.fields :
    object.fields[i].kind = "int24" => object.fields[i].val \in 0..(2^24 - 1)

LEMMA AppendedAt ==
  ASSUME NEW X, NEW s \in Seq(X), NEW e \in X
  PROVE  /\ Append(s, e) \in Seq(X) /\ Len(Append(s, e)) = Len(s) + 1
         /\ \A i \in 1..Len(s) : Append(s, e)[i] = s[i]
         /\ Append(s, e)[Len(s) + 1] = e
OBVIOUS

HasId(reads) ==
  /\ Len(reads) \in {3, 4} /\ DOMAIN reads = 1..Len(reads)
  /\ \A i \in 1..3 : reads[i] = IdFields[i]
  /\ \A i \in 4..Len(reads) : reads[i].kind = "given"

LEMMA IdReads ==
  ASSUME NEW object, object.class \in IdClasses
  PROVE  HasId(ReadFields(object))
<1> DEFINE given(n) == Given("MSG_ID_ACK_NACK", n)
<1>1. \/ ReadFields(object) = IdFields
      \/ ReadFields(object) = Append(IdFields, given(1))
      \/ ReadFields(object) = Append(IdFields, given(2))
  BY DEF ReadFields, ReadHelloAndId, IdFields, IdClasses
<1>2. Len(IdFields) = 3 /\ IdFields \in Seq({IdFields[1], IdFields[2], IdFields[3]})
  BY DEF IdFields
<1>3. \A n : given(n).kind = "given"
  BY DEF Given, Field
<1> HIDE DEF given
<1>4. HasId(IdFields)
  <2>1. 4..Len(IdFields) = {}
    BY <1>2
  <2> QED BY <1>2, <2>1 DEF HasId
<1>5. ASSUME NEW n PROVE HasId(Append(IdFields, given(n)))
  <2> DEFINE reads == Append(IdFields, given(n))
             X == {IdFields[1], IdFields[2], IdFields[3], given(n)}
  <2>1. IdFields \in Seq(X)
    BY <1>2
  <2> HIDE DEF X
  <2>2. given(n) \in X
    BY DEF X
  <2> DEFINE s == IdFields
             e == given(n)
  <2>0. s \in Seq(X) /\ e \in X /\ Len(s) = 3
    BY <1>2, <2>1, <2>2
  <2> HIDE DEF s, e
  <2>a. /\ Append(s, e) \in Seq(X) /\ Len(Append(s, e)) = Len(s) + 1
        /\ \A i \in 1..Len(s) : Append(s, e)[i] = s[i]
        /\ Append(s, e)[Len(s) + 1] = e
    BY <2>0, AppendedAt
  <2>3. Len(reads) = 4 /\ (\A i \in 1..3 : reads[i] = IdFields[i]) /\ reads[4] = given(n) /\ DOMAIN reads = 1..4
    <3> DEFINE r == Append(s, e)
    <3>1. r \in Seq(X) /\ Len(r) = 4 /\ (\A i \in 1..3 : r[i] = s[i]) /\ r[4] = e
      BY <2>0, <2>a
    <3> HIDE DEF r
    <3>2. DOMAIN r = 1..4
      BY <3>1
    <3> QED BY <3>1, <3>2 DEF r, s, e
  <2> HIDE DEF reads
  <2>4. \A i \in 4..4 : i = 4
    OBVIOUS
  <2>5. HasId(reads)
    BY <1>3, <2>3, <2>4 DEF HasId
  <2> QED BY <2>5 DEF reads
<1> QED BY <1>1, <1>4, <1>5

LEMMA IdCopies ==
  ASSUME NEW c, NEW objs, NEW class \in IdClasses
  PROVE  ClassCopies(class, c, objs, MessageId, {})
<1> DEFINE body == Written(class, c, objs)
           object == WrittenObject(class, body, c)
           reads == ReadFields(object)
<1>1. body.fields = IdFields
  BY DEF Written, WriteHelloAndId, Body, IdFields, IdClasses
<1>2. object.class \in IdClasses
  BY DEF WrittenObject
<1>3. /\ Len(reads) \in {3, 4} /\ \A i \in 1..3 : reads[i] = IdFields[i]
      /\ \A i \in 4..Len(reads) : reads[i].kind = "given"
      /\ DOMAIN reads = 1..Len(reads)
  <2> HIDE DEF object
  <2> QED BY <1>2, IdReads DEF HasId
<1>5. /\ Len(IdFields) = 3 /\ IdFields[1] = Char("MSG_ID_FLAGS") /\ IdFields[2] = Int24("MSG_ID_EPOCH")
      /\ IdFields[3] = Word("MSG_ID_ID") /\ DOMAIN IdFields = 1..3 /\ \A i \in 1..3 : i = 1 \/ i = 2 \/ i = 3
  BY DEF IdFields
<1> HIDE DEF reads, object, body
<1>6. Filling(IdFields, 3)
  BY <1>5, SlotsOfId DEF Filling
<1>7. MessageId = {"MSG_ID_FLAGS", "MSG_ID_EPOCH", "MSG_ID_ID"}
  BY DEF MessageId
<1>8. Copies(IdFields, IdFields, MessageId, {}, 3)
  <2>1. \A i \in 1..3, j \in 1..3, x \in Parameters : Carries(IdFields[i], x) /\ Carries(IdFields[j], x) => i = j
    <3>1. \A x : Carries(IdFields[1], x) => x = "MSG_ID_FLAGS"
      BY <1>5, SlotsOfId, OneCarried
    <3>2. \A x : Carries(IdFields[2], x) => x = "MSG_ID_EPOCH"
      BY <1>5, SlotsOfId, OneCarried
    <3>3. \A x : Carries(IdFields[3], x) => x = "MSG_ID_ID"
      BY <1>5, SlotsOfId, OneCarried
    <3> QED BY <1>5, <3>1, <3>2, <3>3
  <2>2. \A i \in 1..3 : IdFields[i].kind \in PlainKinds /\ \E x \in MessageId : Single(IdFields[i], x)
    BY <1>5, <1>7, SlotsOfId DEF PlainKinds
  <2>3. \A x \in MessageId : \E i \in 1..3 : Single(IdFields[i], x)
    BY <1>5, <1>7, SlotsOfId
  <2>4. \A i \in 1..3 : SameField(IdFields[i], IdFields[i])
    BY DEF SameField
  <2> QED BY <1>5, <1>6, <2>1, <2>2, <2>3, <2>4 DEF Copies
<1>9. Copies(reads, IdFields, MessageId, {}, 3)
  BY <1>3, <1>8, CopiesMore
<1>10. OnlyIds(reads)
  <2>1. ASSUME NEW i \in DOMAIN reads, reads[i].kind = "int24" PROVE reads[i].pars = << "MSG_ID_EPOCH" >>
    <3>1. i \in 1..3
      BY <1>3, <2>1
    <3> QED BY <1>3, <1>5, <2>1, <3>1, SlotsOfId
  <2> QED BY <2>1 DEF OnlyIds
<1> QED BY <1>1, <1>9, <1>10 DEF ClassCopies, reads, object, body

(* The number of a message: parse_data finds all of it or nothing, and the *)
(* epoch fits three bytes.                                                 *)
Identified(c) ==
  \/ \A p \in MessageId : c.data[p] = << >>
  \/ /\ \A p \in MessageId : c.data[p] # << >>
     /\ \E v \in 0..(2^24 - 1) : c.data["MSG_ID_EPOCH"] = << v >>

LEMMA ParsedIdentified ==
  ASSUME NEW wire, ShapedWire(wire), \A k \in DOMAIN wire : Byte3(wire[k])
  PROVE  Identified(parse_data(wire))
<1> DEFINE S == IdClasses
           T == [q \in {"MSG_ID_EPOCH"} |-> 0..(2^24 - 1)]
<1>1. MessageId = {"MSG_ID_FLAGS", "MSG_ID_EPOCH", "MSG_ID_ID"} /\ MessageId \subseteq Parameters \ PT_TAB
  BY DEF MessageId, Parameters, PT_UI, PT_UC, PT_TAB
<1>5. /\ Len(IdFields) = 3 /\ IdFields[1] = Char("MSG_ID_FLAGS") /\ IdFields[2] = Int24("MSG_ID_EPOCH")
      /\ IdFields[3] = Word("MSG_ID_ID") /\ DOMAIN IdFields = 1..3 /\ \A i \in 1..3 : i = 1 \/ i = 2 \/ i = 3
  BY DEF IdFields
<1>2. ASSUME NEW k \in DOMAIN wire, wire[k].class \in S PROVE \E n : GroupUpTo(wire[k], MessageId, {}, T, n)
  <2> DEFINE object == wire[k]
             reads == ReadFields(object)
  <2>1. /\ Len(reads) \in {3, 4} /\ \A i \in 1..3 : reads[i] = IdFields[i]
    BY <1>2, IdReads DEF HasId
  <2>2. Byte3(object)
    OBVIOUS
  <2> HIDE DEF object, reads, T
  <2>3. reads[2].kind = "int24"
    BY <1>5, <2>1, SlotsOfId
  <2>4. ReadWith(object, reads, 2) \in 0..(2^24 - 1)
    <3> DEFINE n == 2
    <3>1. reads[n].kind \notin {"given", "addr", "int"} /\ reads[n].kind = "int24"
      BY <2>3
    <3> HIDE DEF n
    <3>2. \/ ReadWith(object, reads, n) = Garbage
          \/ \E j \in DOMAIN object.fields : /\ object.fields[j].kind = reads[n].kind
                                             /\ ReadWith(object, reads, n) = object.fields[j].val
      BY <3>1, ReadOneOf
    <3>g. Garbage \in 0..(2^24 - 1)
      BY DEF Garbage
    <3>3. ReadWith(object, reads, n) \in 0..(2^24 - 1)
      BY <2>2, <3>1, <3>2, <3>g DEF Byte3
    <3> QED BY <3>3 DEF n
  <2>5. \A i \in 1..3, j \in 1..3, x \in Parameters : Carries(reads[i], x) /\ Carries(reads[j], x) => i = j
    <3>1. \A x : Carries(reads[1], x) => x = "MSG_ID_FLAGS"
      BY <1>5, <2>1, SlotsOfId, OneCarried
    <3>2. \A x : Carries(reads[2], x) => x = "MSG_ID_EPOCH"
      BY <1>5, <2>1, SlotsOfId, OneCarried
    <3>3. \A x : Carries(reads[3], x) => x = "MSG_ID_ID"
      BY <1>5, <2>1, SlotsOfId, OneCarried
    <3> QED BY <1>5, <3>1, <3>2, <3>3
  <2>6. \A i \in 1..3 : \E x \in MessageId : Single(reads[i], x)
    BY <1>1, <1>5, <2>1, SlotsOfId
  <2>7. ASSUME NEW x \in MessageId
        PROVE  \E i \in 1..3 : Single(reads[i], x) /\ (x \in DOMAIN T => ReadWith(object, reads, i) \in T[x])
    <3>1. DOMAIN T = {"MSG_ID_EPOCH"} /\ T["MSG_ID_EPOCH"] = 0..(2^24 - 1)
      BY DEF T
    <3>r. /\ Single(reads[1], "MSG_ID_FLAGS") /\ Single(reads[2], "MSG_ID_EPOCH") /\ Single(reads[3], "MSG_ID_ID")
          /\ 1 \in 1..3 /\ 2 \in 1..3 /\ 3 \in 1..3
      BY <1>5, <2>1, SlotsOfId
    <3>2. CASE x = "MSG_ID_FLAGS"
      BY <3>1, <3>2, <3>r
    <3>3. CASE x = "MSG_ID_EPOCH"
      <4>1. Single(reads[2], x) /\ ReadWith(object, reads, 2) \in T[x]
        BY <2>4, <3>1, <3>3, <3>r
      <4> QED BY <3>r, <4>1
    <3>4. CASE x = "MSG_ID_ID"
      BY <3>1, <3>4, <3>r
    <3> QED BY <1>1, <3>2, <3>3, <3>4
  <2>8. 3 \in 1..Len(reads)
    BY <2>1
  <2>9. GroupUpTo(object, MessageId, {}, T, 3)
    BY <2>5, <2>6, <2>7, <2>8 DEF GroupUpTo, reads
  <2> QED BY <2>9 DEF object
<1>3. ASSUME NEW k \in DOMAIN wire, wire[k].class \notin S PROVE \A p \in MessageId \cup {} : p \notin MayCarry(wire[k].class)
  BY <1>3, NameCarriers DEF ShapedWire, Shaped, IdClasses
<1> HIDE DEF S
<1>4. GroupClasses(wire, S, MessageId, {}, T)
  BY <1>1, <1>2, <1>3 DEF GroupClasses
<1>6. AllRead(parse_data(wire), MessageId, T) \/ NoneRead(parse_data(wire), MessageId, {})
  <2> HIDE DEF T
  <2> QED BY <1>4, GroupRead
<1>7. CASE AllRead(parse_data(wire), MessageId, T)
  BY <1>1, <1>7 DEF AllRead, Identified
<1>8. CASE NoneRead(parse_data(wire), MessageId, {})
  BY <1>8 DEF NoneRead, Identified
<1> QED BY <1>6, <1>7, <1>8

(* One object of a class among others that carry none of its parameters is *)
(* read whole.                                                             *)
Grouped(class, c, objs, Q, F, T) ==
  \E n : GroupUpTo(WrittenObject(class, Written(class, c, objs), c), Q, F, T, n)

LEMMA CopiesGrouped ==
  ASSUME NEW class, NEW c, NEW objs, NEW Q, NEW F, ClassCopies(class, c, objs, Q, F),
         Sayable(c, Q)
  PROVE  Grouped(class, c, objs, Q, F, Said(c, Q))
<1> DEFINE body == Written(class, c, objs)
           object == WrittenObject(class, body, c)
<1>1. OnlyIds(ReadFields(object)) /\ \E n : Copies(ReadFields(object), body.fields, Q, F, n)
  BY DEF ClassCopies
<1> HIDE DEF body
<1>2. PICK n : Copies(ReadFields(object), body.fields, Q, F, n)
  BY <1>1
<1>3. GroupUpTo(object, Q, F, Said(c, Q), n)
  BY <1>1, <1>2, CopyGroup
<1> QED BY <1>3 DEF Grouped, body

LEMMA GroupSays ==
  ASSUME NEW c, Good(c), NEW objs \in Seq(Classes), AllWritable(objs, c), NEW K, NEW Q, NEW F,
         NEW T, Q \cup F \subseteq Parameters \ PT_TAB, Grouped(K, c, objs, Q, F, T),
         \A i \in Own(objs) : objs[i] # K => \A p \in Q \cup F : p \notin MayCarry(objs[i]),
         \E i \in Own(objs) : objs[i] = K
  PROVE  AllRead(parse_data(get_data(objs, c)), Q, T)
<1> DEFINE wire == get_data(objs, c)
<1>1. /\ ShapedWire(wire)
      /\ \A k \in DOMAIN wire : \E i : Wired(wire[k], objs, c, i)
      /\ \A i \in Own(objs) : \E k \in DOMAIN wire : Wired(wire[k], objs, c, i)
  BY WireOf
<1> HIDE DEF wire
<1>2. ASSUME NEW k \in DOMAIN wire
      PROVE  /\ wire[k].class \in {K} => \E n : GroupUpTo(wire[k], Q, F, T, n)
             /\ wire[k].class \notin {K} => \A p \in Q \cup F : p \notin MayCarry(wire[k].class)
  <2>1. PICK i : Wired(wire[k], objs, c, i)
    BY <1>1
  <2>2. /\ wire[k].class = objs[i] /\ i \in Own(objs)
        /\ wire[k] = WrittenObject(objs[i], Written(objs[i], c, objs), c)
    BY <2>1 DEF Wired, Own
  <2> QED BY <2>2 DEF Grouped
<1>3. GroupClasses(wire, {K}, Q, F, T)
  BY <1>2 DEF GroupClasses
<1>4. \E k \in DOMAIN wire : wire[k].class \in {K}
  <2>1. PICK i \in Own(objs) : objs[i] = K
    OBVIOUS
  <2>2. PICK k \in DOMAIN wire : Wired(wire[k], objs, c, i)
    BY <1>1
  <2> QED BY <2>1, <2>2 DEF Wired
<1>5. AllRead(parse_data(wire), Q, T)
  BY <1>1, <1>3, <1>4, GroupRead
<1> QED BY <1>5 DEF wire

LEMMA ReadFirst ==
  ASSUME NEW object, NEW N \in Nat \ {0}, Filling(object.fields, N), NEW reads,
         object.fields[1].width = reads[1].width, object.fields[1].kind = reads[1].kind,
         reads[1].kind # "given"
  PROVE  ReadWith(object, reads, 1) = object.fields[1].val
<1>1. PICK j : j = 1 /\ j \in 1..N
  OBVIOUS
<1>2. SubSeq(object.fields, 1, j - 1) = << >> /\ SubSeq(reads, 1, j - 1) = << >>
  BY <1>1
<1>3. BytesOf(SubSeq(object.fields, 1, j - 1)) = BytesOf(SubSeq(reads, 1, j - 1))
  BY <1>2
<1>4. /\ object.fields[j].width = reads[j].width /\ object.fields[j].kind = reads[j].kind
      /\ reads[j].kind # "given" /\ N \in Nat
  BY <1>1
<1>5. ReadWith(object, reads, j) = object.fields[j].val
  BY <1>1, <1>3, <1>4, ReadAtOffset
<1> QED BY <1>1, <1>5

(* Readers and writers of plain fields and fixed bytes.                    *)
PlainOrPad(f, Q) ==
  \/ f.kind = "pad" /\ f.pars = << >>
  \/ f.kind \in PlainKinds /\ \E p \in Q : Single(f, p)

LEMMA FieldCopies ==
  ASSUME NEW N \in Nat \ {0}, NEW reads, Len(reads) = N, NEW fields, Len(fields) = N,
         Filling(fields, N), NEW Q,
         \A i \in 1..N : SameField(reads[i], fields[i]) /\ PlainOrPad(reads[i], Q),
         \A i \in 1..N, j \in 1..N, p \in Q : Single(reads[i], p) /\ Single(reads[j], p) => i = j,
         \A q \in Q : \E i \in 1..N : Single(reads[i], q)
  PROVE  Copies(reads, fields, Q, {}, N)
<1>1. ASSUME NEW i \in 1..N, NEW p, Carries(reads[i], p) PROVE p \in Q /\ Single(reads[i], p)
  <2>1. reads[i].pars # << >>
    <3>1. reads[i].pars = << >> => Len(reads[i].pars) = 0
      OBVIOUS
    <3> QED BY <1>1, <3>1 DEF Carries
  <2>2. PICK q \in Q : Single(reads[i], q)
    BY <2>1 DEF PlainOrPad
  <2>3. p = q
    BY <1>1, <2>2, OneCarried
  <2> QED BY <2>2, <2>3
<1>2. \A i \in 1..N, j \in 1..N, p \in Parameters : Carries(reads[i], p) /\ Carries(reads[j], p) => i = j
  BY <1>1
<1>3. \A i \in 1..N : \/ reads[i].kind = "pad"
                      \/ reads[i].kind \in PlainKinds /\ (\E p \in Q : Single(reads[i], p))
                      \/ FlagsOf(reads[i], {})
  BY DEF PlainOrPad
<1>4. N \in 1..Len(reads) /\ N \in 1..Len(fields) /\ Filling(fields, Len(fields))
  OBVIOUS
<1> QED BY <1>2, <1>3, <1>4 DEF Copies

LEMMA SelfSame == ASSUME NEW f PROVE SameField(f, f)
BY DEF SameField

LEMMA OnePlain ==
  ASSUME NEW f, NEW p, Single(f, p), f.kind \in PlainKinds, f.width \in Nat \ {0}
  PROVE  Copies(<< f >>, << f >>, {p}, {}, 1)
<1> DEFINE fields == << f >>
<1>1. Len(fields) = 1 /\ DOMAIN fields = 1..1 /\ fields[1] = f /\ \A i \in 1..1 : i = 1
  OBVIOUS
<1> HIDE DEF fields
<1>2. Filling(fields, 1)
  BY <1>1 DEF Filling
<1>3. \A i \in 1..1 : SameField(fields[i], fields[i]) /\ PlainOrPad(fields[i], {p})
  BY <1>1, SelfSame DEF PlainOrPad
<1>4. /\ \A i \in 1..1, j \in 1..1, x \in {p} : Single(fields[i], x) /\ Single(fields[j], x) => i = j
      /\ \A x \in {p} : \E i \in 1..1 : Single(fields[i], x)
  BY <1>1
<1>5. 1 \in Nat \ {0}
  OBVIOUS
<1>6. Len(fields) = 1
  BY <1>1
<1>7. Copies(fields, fields, {p}, {}, 1)
  BY <1>2, <1>3, <1>4, <1>5, <1>6, FieldCopies, Zenon
<1> QED BY <1>7 DEF fields

LEMMA ThreePlain ==
  ASSUME NEW a, NEW b, NEW d, NEW p, NEW q, NEW r, p # q, p # r, q # r,
         Single(a, p), a.kind \in PlainKinds, a.width \in Nat \ {0},
         Single(b, q), b.kind \in PlainKinds, b.width \in Nat \ {0},
         Single(d, r), d.kind \in PlainKinds, d.width \in Nat \ {0}
  PROVE  Copies(<< a, b, d >>, << a, b, d >>, {p, q, r}, {}, 3)
<1> DEFINE fields == << a, b, d >>
           Q == {p, q, r}
<1>1. /\ Len(fields) = 3 /\ DOMAIN fields = 1..3 /\ fields[1] = a /\ fields[2] = b /\ fields[3] = d
      /\ \A i \in 1..3 : i = 1 \/ i = 2 \/ i = 3
  OBVIOUS
<1> HIDE DEF fields
<1>2. Filling(fields, 3)
  BY <1>1 DEF Filling
<1>3. \A i \in 1..3 : SameField(fields[i], fields[i]) /\ PlainOrPad(fields[i], Q)
  BY <1>1, SelfSame DEF PlainOrPad
<1>4. \A x : /\ Single(a, x) => x = p
             /\ Single(b, x) => x = q
             /\ Single(d, x) => x = r
  <2>1. << p >>[1] = p /\ << q >>[1] = q /\ << r >>[1] = r /\ \A x : << x >>[1] = x
    OBVIOUS
  <2> QED BY <2>1 DEF Single
<1>5. \A i \in 1..3, j \in 1..3, x \in Q : Single(fields[i], x) /\ Single(fields[j], x) => i = j
  BY <1>1, <1>4
<1>6. \A x \in Q : \E i \in 1..3 : Single(fields[i], x)
  BY <1>1
<1>7. 3 \in Nat \ {0}
  OBVIOUS
<1>8. Len(fields) = 3
  BY <1>1
<1>9. Copies(fields, fields, Q, {}, 3)
  BY <1>2, <1>3, <1>5, <1>6, <1>7, <1>8, FieldCopies, Zenon
<1> QED BY <1>9 DEF fields

LEMMA RequestSlots ==
  /\ \A p \in {"REFRESH_PERIOD", "UPSTREAM_LABEL"} :
       Single(Word(p), p) /\ Word(p).kind = "int" /\ Word(p).width = 4
  /\ \A p \in {"LSP_ENC_TYPE", "LSP_SWITCHING_TYPE", "SETUP_PRIORITY", "HOLDING_PRIORITY",
               "SERVICE_LEVEL", "ETHERNET_INDEX", "ETHERNET_PROFILE"} :
       Single(Char(p), p) /\ Char(p).kind = "char" /\ Char(p).width = 1
  /\ \A p \in {"LSP_GPID", "ETHERNET_SW_GRANUALITY"} :
       Single(Short(p), p) /\ Short(p).kind = "short" /\ Short(p).width = 2
  /\ \A p \in {"TNA_SRC_ADDR", "TNA_DST_ADDR"} :
       Single(Addr(p), p) /\ Addr(p).kind = "addr" /\ Addr(p).width = 4
<1>1. \A p \in {"REFRESH_PERIOD", "UPSTREAM_LABEL"} :
        Single(Word(p), p) /\ Word(p).kind = "int" /\ Word(p).width = 4
  BY DEF Word, Field, Single, HasType, AddType, Parameters, PT_UI, PT_TAB
<1>2. \A p \in {"LSP_ENC_TYPE", "LSP_SWITCHING_TYPE", "SETUP_PRIORITY", "HOLDING_PRIORITY",
                "SERVICE_LEVEL", "ETHERNET_INDEX", "ETHERNET_PROFILE"} :
        Single(Char(p), p) /\ Char(p).kind = "char" /\ Char(p).width = 1
  BY DEF Char, Field, Single, HasType, AddType, Parameters, PT_UC, PT_TAB
<1>3. \A p \in {"LSP_GPID", "ETHERNET_SW_GRANUALITY"} :
        Single(Short(p), p) /\ Short(p).kind = "short" /\ Short(p).width = 2
  BY DEF Short, Field, Single, HasType, AddType, Parameters, PT_US, PT_TAB
<1>4. \A p \in {"TNA_SRC_ADDR", "TNA_DST_ADDR"} :
        Single(Addr(p), p) /\ Addr(p).kind = "addr" /\ Addr(p).width = 4
  BY DEF Addr, Field, Single, HasType, AddType, Parameters, PT_UI, PT_TAB
<1> QED BY <1>1, <1>2, <1>3, <1>4

LEMMA NoId ==
  ASSUME NEW reads, \A i \in DOMAIN reads : reads[i].kind # "int24"
  PROVE  OnlyIds(reads)
BY DEF OnlyIds

LEMMA KindsPlain ==
  /\ "addr" \in PlainKinds /\ "int" \in PlainKinds /\ "float" \in PlainKinds
  /\ "short" \in PlainKinds /\ "char" \in PlainKinds /\ "name" \in PlainKinds
  /\ \A n \in {1, 2, 3, 4, 12} : n \in Nat \ {0}
BY DEF PlainKinds

LEMMA WordCopies ==
  ASSUME NEW class, NEW c, NEW objs, NEW p,
         (class = "TIME_VALUES" /\ p = "REFRESH_PERIOD")
         \/ (class = "UPSTREAM_LABEL" /\ p = "UPSTREAM_LABEL")
  PROVE  ClassCopies(class, c, objs, {p}, {})
<1> DEFINE body == Written(class, c, objs)
           object == WrittenObject(class, body, c)
           fields == << Word(p) >>
<1>1. body.fields = fields
  BY DEF Written, WriteTimeErrorStyle, WriteStatusAndAttribute, Body
<1>2. object.class = class
  BY DEF WrittenObject
<1>3. ReadFields(object) = fields
  <2> HIDE DEF object
  <2> QED BY <1>2 DEF ReadFields, ReadTimeErrorStyle, ReadStatusAndAttribute
<1>4. Single(Word(p), p) /\ Word(p).kind = "int" /\ Word(p).width = 4
  BY RequestSlots
<1>5. Copies(fields, fields, {p}, {}, 1)
  BY <1>4, OnePlain, KindsPlain
<1>6. OnlyIds(fields)
  BY <1>4, NoId
<1> HIDE DEF fields, object, body
<1> QED BY <1>1, <1>3, <1>5, <1>6 DEF ClassCopies, object, body

LspRequest == {"LSP_ENC_TYPE", "LSP_SWITCHING_TYPE", "LSP_GPID"}

LEMMA LabelRequestCopies ==
  ASSUME NEW c, NEW objs
  PROVE  ClassCopies("GENERALIZED_LABEL_REQUEST", c, objs, LspRequest, {})
<1> DEFINE class == "GENERALIZED_LABEL_REQUEST"
           body == Written(class, c, objs)
           object == WrittenObject(class, body, c)
           fields == << Char("LSP_ENC_TYPE"), Char("LSP_SWITCHING_TYPE"), Short("LSP_GPID") >>
<1>1. body.fields = fields
  BY DEF Written, WriteLabelAndRoute, Body
<1>2. object.class = class
  BY DEF WrittenObject
<1>3. ReadFields(object) = fields
  <2> HIDE DEF object
  <2> QED BY <1>2 DEF ReadFields, ReadLabelAndRoute
<1>4. /\ Single(Char("LSP_ENC_TYPE"), "LSP_ENC_TYPE") /\ Char("LSP_ENC_TYPE").kind = "char"
      /\ Char("LSP_ENC_TYPE").width = 1
      /\ Single(Char("LSP_SWITCHING_TYPE"), "LSP_SWITCHING_TYPE")
      /\ Char("LSP_SWITCHING_TYPE").kind = "char" /\ Char("LSP_SWITCHING_TYPE").width = 1
      /\ Single(Short("LSP_GPID"), "LSP_GPID") /\ Short("LSP_GPID").kind = "short"
      /\ Short("LSP_GPID").width = 2
  BY RequestSlots
<1>5. Copies(fields, fields, LspRequest, {}, 3)
  BY <1>4, ThreePlain, KindsPlain DEF LspRequest
<1>6. OnlyIds(fields)
  BY <1>4, NoId
<1> HIDE DEF fields, object, body
<1> QED BY <1>1, <1>3, <1>5, <1>6 DEF ClassCopies, object, body

AttributeFlags == {"LOCAL_PROTECTION_FLAG", "LABEL_RECORDING_FLAG", "SE_STYLE_FLAG"}
Attribute == {"SESSION_NAME", "SETUP_PRIORITY", "HOLDING_PRIORITY"}

LEMMA FlagSlot ==
  LET f == Field("flags", SessionFlags, 1, 0)
  IN  /\ FlagsOf(f, AttributeFlags) /\ f.kind = "flags" /\ f.width = 1
      /\ \A p : Carries(f, p) => p \in AttributeFlags
<1> DEFINE f == Field("flags", SessionFlags, 1, 0)
<1>1. f.kind = "flags" /\ f.width = 1 /\ f.pars = SessionFlags
  BY DEF Field
<1>2. AttributeFlags \subseteq PT_UC \ PT_TAB
  BY DEF AttributeFlags, PT_UC, PT_TAB
<1>3. /\ Len(SessionFlags) = 3 /\ SessionFlags[1] = "LOCAL_PROTECTION_FLAG"
      /\ SessionFlags[2] = "LABEL_RECORDING_FLAG" /\ SessionFlags[3] = "SE_STYLE_FLAG"
      /\ \A t \in 1..3 : t = 1 \/ t = 2 \/ t = 3
  BY DEF SessionFlags
<1> HIDE DEF f
<1>4. \A t \in 1..3 : SessionFlags[t] \in AttributeFlags
  BY <1>3 DEF AttributeFlags
<1>5. \A t \in 1..3, u \in 1..3 : SessionFlags[u] = SessionFlags[t] => u = t
  BY <1>3
<1>6. FlagsOf(f, AttributeFlags)
  BY <1>1, <1>2, <1>3, <1>4, <1>5 DEF FlagsOf
<1>7. \A p : Carries(f, p) => p \in AttributeFlags
  BY <1>1, <1>3, <1>4 DEF Carries
<1> QED BY <1>1, <1>6, <1>7 DEF f

LEMMA NameSlot ==
  ASSUME NEW w \in Nat \ {0}
  PROVE  LET f == Field("name", << "SESSION_NAME" >>, w, 0)
         IN  Single(f, "SESSION_NAME") /\ f.kind = "name" /\ f.width = w
BY DEF Field, Single, HasType, AddType, Parameters, PT_CS, PT_TAB

LEMMA AttributeCopies ==
  ASSUME NEW c, NEW objs, Read(c, "SESSION_NAME") \in Nat
  PROVE  ClassCopies("SESSION_ATTRIBUTE", c, objs, Attribute, AttributeFlags)
<1> DEFINE class == "SESSION_ATTRIBUTE"
           body == Written(class, c, objs)
           object == WrittenObject(class, body, c)
           size == Pad4(Read(c, "SESSION_NAME"))
           flags == Field("flags", SessionFlags, 1, 0)
           name == Field("name", << "SESSION_NAME" >>, size + 1, 0)
           fields == << Char("SETUP_PRIORITY"), Char("HOLDING_PRIORITY"), flags, name >>
<1>1. body = Body(size + 4, fields)
  BY DEF Written, WriteStatusAndAttribute
<1>2. body.fields = fields /\ body.length = size + 4
  BY <1>1 DEF Body
<1>3. object.class = class /\ object.length = size + 4
  BY <1>2 DEF WrittenObject
<1>4. size \in Nat
  BY DEF Pad4
<1>5. ReadFields(object) = fields
  <2> HIDE DEF object, size
  <2>1. object.length - 3 = size + 1
    BY <1>3, <1>4
  <2> QED BY <1>3, <2>1 DEF ReadFields, ReadStatusAndAttribute
<1>6. /\ Single(fields[1], "SETUP_PRIORITY") /\ fields[1].kind = "char" /\ fields[1].width = 1
      /\ Single(fields[2], "HOLDING_PRIORITY") /\ fields[2].kind = "char" /\ fields[2].width = 1
      /\ FlagsOf(fields[3], AttributeFlags) /\ fields[3].kind = "flags" /\ fields[3].width = 1
      /\ \A p : Carries(fields[3], p) => p \in AttributeFlags
      /\ Single(fields[4], "SESSION_NAME") /\ fields[4].kind = "name" /\ fields[4].width = size + 1
      /\ Len(fields) = 4 /\ DOMAIN fields = 1..4
  <2>1. Len(fields) = 4 /\ DOMAIN fields = 1..4
    OBVIOUS
  <2>2. fields[1] = Char("SETUP_PRIORITY") /\ fields[2] = Char("HOLDING_PRIORITY") /\ fields[3] = flags
        /\ fields[4] = name
    OBVIOUS
  <2> HIDE DEF fields, size
  <2>3. /\ Single(name, "SESSION_NAME") /\ name.kind = "name" /\ name.width = size + 1
    BY <1>4, NameSlot
  <2> HIDE DEF name
  <2>4. FlagsOf(flags, AttributeFlags) /\ flags.kind = "flags" /\ flags.width = 1
        /\ \A p : Carries(flags, p) => p \in AttributeFlags
    BY FlagSlot
  <2> HIDE DEF flags
  <2> QED BY <2>1, <2>2, <2>3, <2>4, RequestSlots
<1> HIDE DEF fields, object, body, size
<1>7. \A i \in 1..4 : i = 1 \/ i = 2 \/ i = 3 \/ i = 4
  OBVIOUS
<1>8. Filling(fields, 4)
  BY <1>4, <1>6, <1>7 DEF Filling
<1>9. /\ "SETUP_PRIORITY" # "HOLDING_PRIORITY" /\ "SETUP_PRIORITY" # "SESSION_NAME"
      /\ "HOLDING_PRIORITY" # "SESSION_NAME" /\ \A p \in AttributeFlags : p \notin Attribute
      /\ Attribute = {"SESSION_NAME", "SETUP_PRIORITY", "HOLDING_PRIORITY"}
  BY DEF AttributeFlags, Attribute
<1>10. /\ \A p : Carries(fields[1], p) => p = "SETUP_PRIORITY"
       /\ \A p : Carries(fields[2], p) => p = "HOLDING_PRIORITY"
       /\ \A p : Carries(fields[4], p) => p = "SESSION_NAME"
  BY <1>6, OneCarried
<1>11. \A i \in 1..4, j \in 1..4, p \in Parameters : Carries(fields[i], p) /\ Carries(fields[j], p) => i = j
  BY <1>6, <1>7, <1>9, <1>10
<1>12. \A i \in 1..4 : \/ fields[i].kind = "pad"
                       \/ fields[i].kind \in PlainKinds /\ (\E p \in Attribute : Single(fields[i], p))
                       \/ FlagsOf(fields[i], AttributeFlags)
  BY <1>6, <1>7, <1>9, KindsPlain
<1>13. \A q \in Attribute : \E i \in 1..4 : Single(fields[i], q)
  BY <1>6, <1>9
<1>14. 4 \in 1..Len(fields) /\ Filling(fields, Len(fields)) /\ \A i \in 1..4 : SameField(fields[i], fields[i])
  BY <1>6, <1>8, SelfSame
<1>15. Copies(fields, fields, Attribute, AttributeFlags, 4)
  BY <1>11, <1>12, <1>13, <1>14 DEF Copies
<1>16. OnlyIds(fields)
  BY <1>6, <1>7, NoId
<1> QED BY <1>2, <1>5, <1>15, <1>16 DEF ClassCopies, object, body

FiveBehindOne(t, a, s) == Len(t) = 6 /\ DOMAIN t = 1..6 /\ t[1] = a[1] /\ \A i \in 1..5 : t[i + 1] = s[i]

LEMMA FiveHeaded ==
  ASSUME NEW W, NEW a, NEW s, NEW t, a \in Seq(W), s \in Seq(W), Len(a) = 1, Len(s) = 5, t = a \o s
  PROVE  FiveBehindOne(t, a, s)
<1>1. /\ a \o s \in Seq(W) /\ Len(a \o s) = Len(a) + Len(s)
      /\ \A j \in 1..Len(a) : (a \o s)[j] = a[j]
      /\ \A j \in 1..Len(s) : (a \o s)[Len(a) + j] = s[j]
  BY ONLY a \in Seq(W), s \in Seq(W), Joined
<1>2. /\ t \in Seq(W) /\ Len(t) = Len(a) + Len(s)
      /\ \A j \in 1..Len(a) : t[j] = a[j]
      /\ \A j \in 1..Len(s) : t[Len(a) + j] = s[j]
  BY ONLY <1>1, t = a \o s
<1>3. Len(t) = 6 /\ DOMAIN t = 1..6
  BY ONLY <1>2, Len(a) = 1, Len(s) = 5
<1>4. t[1] = a[1] /\ \A i \in 1..5 : t[i + 1] = s[i]
  BY ONLY <1>2, Len(a) = 1, Len(s) = 5
<1> QED BY ONLY <1>3, <1>4 DEF FiveBehindOne

(* The token bucket behind its fixed header.                               *)
LEMMA TokenSlots ==
  /\ ReadTokens = TokenFields /\ TokenFields \in Seq(FieldsOf(TokenBucket)) /\ Len(TokenFields) = 5
  /\ \A i \in 1..5 : /\ TokenFields[i].width = 4 /\ TokenFields[i].kind \in PlainKinds \ {"int24"}
                     /\ \E p \in TokenBucket : Single(TokenFields[i], p)
  /\ \A i \in 1..5, j \in 1..5, p \in TokenBucket :
       Single(TokenFields[i], p) /\ Single(TokenFields[j], p) => i = j
  /\ \A p \in TokenBucket : \E i \in 1..5 : Single(TokenFields[i], p)
<1>1. /\ Len(TokenFields) = 5
      /\ TokenFields[1] = Float("TOKEN_BUCKET_RATE") /\ TokenFields[2] = Float("TOKEN_BUCKET_SIZE")
      /\ TokenFields[3] = Float("PEAK_DATA_RATE") /\ TokenFields[4] = Word("MINIMUM_POLICED_UNIT")
      /\ TokenFields[5] = Word("MAXIMUM_PACKET_SIZE")
      /\ \A i \in 1..5 : i = 1 \/ i = 2 \/ i = 3 \/ i = 4 \/ i = 5
  BY DEF TokenFields
<1>2. \A p \in {"TOKEN_BUCKET_RATE", "TOKEN_BUCKET_SIZE", "PEAK_DATA_RATE"} :
        Single(Float(p), p) /\ Float(p).kind = "float" /\ Float(p).width = 4
  BY DEF Float, Field, Single, HasType, AddType, Parameters, PT_F, PT_TAB
<1>3. \A p \in {"MINIMUM_POLICED_UNIT", "MAXIMUM_PACKET_SIZE"} :
        Single(Word(p), p) /\ Word(p).kind = "int" /\ Word(p).width = 4
  BY DEF Word, Field, Single, HasType, AddType, Parameters, PT_UI, PT_TAB
<1>4. /\ TokenBucket = {"TOKEN_BUCKET_RATE", "TOKEN_BUCKET_SIZE", "PEAK_DATA_RATE",
                        "MINIMUM_POLICED_UNIT", "MAXIMUM_PACKET_SIZE"}
      /\ "float" \in PlainKinds \ {"int24"} /\ "int" \in PlainKinds \ {"int24"}
  BY DEF TokenBucket, PlainKinds
<1>5. /\ \A p : Single(TokenFields[1], p) => p = "TOKEN_BUCKET_RATE"
      /\ \A p : Single(TokenFields[2], p) => p = "TOKEN_BUCKET_SIZE"
      /\ \A p : Single(TokenFields[3], p) => p = "PEAK_DATA_RATE"
      /\ \A p : Single(TokenFields[4], p) => p = "MINIMUM_POLICED_UNIT"
      /\ \A p : Single(TokenFields[5], p) => p = "MAXIMUM_PACKET_SIZE"
  <2>1. /\ TokenFields[1].pars = << "TOKEN_BUCKET_RATE" >> /\ TokenFields[2].pars = << "TOKEN_BUCKET_SIZE" >>
        /\ TokenFields[3].pars = << "PEAK_DATA_RATE" >> /\ TokenFields[4].pars = << "MINIMUM_POLICED_UNIT" >>
        /\ TokenFields[5].pars = << "MAXIMUM_PACKET_SIZE" >>
    BY <1>1 DEF Float, Word, Field
  <2>2. \A p, q : << p >> = << q >> => p = q
    <3>1. \A p : << p >>[1] = p
      OBVIOUS
    <3> QED BY <3>1
  <2> QED BY <2>1, <2>2 DEF Single
<1>6. ReadTokens = TokenFields /\ TokenFields \in Seq(FieldsOf(TokenBucket))
  <2>1. ReadTokens = TokenFields
    BY DEF ReadTokens, TokenFields
  <2> QED BY <2>1, ReadTokensIn
<1>7. \A i \in 1..5 : /\ TokenFields[i].width = 4 /\ TokenFields[i].kind \in PlainKinds \ {"int24"}
                     /\ \E p \in TokenBucket : Single(TokenFields[i], p)
  BY <1>1, <1>2, <1>3, <1>4
<1>8. \A i \in 1..5, j \in 1..5, p \in TokenBucket :
       Single(TokenFields[i], p) /\ Single(TokenFields[j], p) => i = j
  BY <1>1, <1>5
<1>9. \A p \in TokenBucket : \E i \in 1..5 : Single(TokenFields[i], p)
  BY <1>1, <1>2, <1>3, <1>4
<1> QED BY <1>1, <1>6, <1>7, <1>8, <1>9

LEMMA TokenCopies ==
  ASSUME NEW c, NEW objs
  PROVE  ClassCopies("TOKEN_SENDER_TSPEC", c, objs, TokenBucket, {})
<1> DEFINE class == "TOKEN_SENDER_TSPEC"
           body == Written(class, c, objs)
           object == WrittenObject(class, body, c)
           fields == << Mark(12, 1) >> \o TokenFields
           reads == << Pad(12) >> \o ReadTokens
<1>1. body.fields = fields
  BY DEF Written, WriteSenderAndFilter, Body
<1>2. object.class = class
  BY DEF WrittenObject
<1>3. /\ Len(fields) = 6 /\ DOMAIN fields = 1..6 /\ fields[1] = Mark(12, 1)
      /\ \A i \in 1..5 : fields[i + 1] = TokenFields[i]
  <2>1. Mark(12, 1) \in FieldsOf(TokenBucket)
    <3>1. << >> \in Seq(TokenBucket) /\ "pad" \in Kinds
      BY DEF Kinds
    <3> QED BY <3>1 DEF Mark, Field, FieldsOf
  <2>2. TokenFields \in Seq(FieldsOf(TokenBucket)) /\ Len(TokenFields) = 5
    BY TokenSlots
  <2>3. PICK s, a, t : s = TokenFields /\ a = << Mark(12, 1) >> /\ t = fields
    OBVIOUS
  <2>4. t = a \o s /\ a[1] = Mark(12, 1) /\ Len(a) = 1 /\ a \in Seq(FieldsOf(TokenBucket))
    BY <2>1, <2>2, <2>3
  <2> HIDE DEF fields
  <2>5. s \in Seq(FieldsOf(TokenBucket)) /\ Len(s) = 5
    BY <2>1, <2>2, <2>3
  <2>6. FiveBehindOne(t, a, s)
    BY ONLY <2>4, <2>5, FiveHeaded
  <2> QED BY <2>3, <2>4, <2>6 DEF FiveBehindOne
<1>4. /\ Len(reads) = 6 /\ DOMAIN reads = 1..6 /\ reads[1] = Pad(12)
      /\ \A i \in 1..5 : reads[i + 1] = TokenFields[i]
  <2>1. ReadTokens \in Seq(FieldsOf(TokenBucket)) /\ Len(ReadTokens) = 5 /\ ReadTokens = TokenFields
    BY TokenSlots
  <2>2. Pad(12) \in FieldsOf(TokenBucket)
    BY PadIn
  <2>3. PICK s, a, t : s = TokenFields /\ a = << Pad(12) >> /\ t = reads
    OBVIOUS
  <2>4. t = a \o s /\ a[1] = Pad(12) /\ Len(a) = 1 /\ a \in Seq(FieldsOf(TokenBucket))
    BY <2>1, <2>2, <2>3
  <2> HIDE DEF reads
  <2>5. s \in Seq(FieldsOf(TokenBucket)) /\ Len(s) = 5
    BY <2>1, <2>2, <2>3
  <2>6. FiveBehindOne(t, a, s)
    BY ONLY <2>4, <2>5, FiveHeaded
  <2> QED BY <2>3, <2>4, <2>6 DEF FiveBehindOne
<1> HIDE DEF fields, reads
<1>5. object.fields[1].tag = 1
  <2>1. 1 \in DOMAIN body.fields
    BY <1>1, <1>3
  <2>2. object.fields[1] = WrittenField(body.fields[1], c)
    BY <2>1 DEF WrittenObject
  <2>3. object.fields[1].tag = body.fields[1].tag
    BY <2>2 DEF WrittenField
  <2> HIDE DEF body, object
  <2>4. Mark(12, 1).tag = 1
    BY DEF Mark, Field
  <2> QED BY <1>1, <1>3, <2>3, <2>4
<1>6. ReadFields(object) = reads
  <2> HIDE DEF object
  <2> QED BY <1>2, <1>5 DEF ReadFields, ReadSenderAndFilter, Tag, reads
<1> HIDE DEF object, body
<1>7. /\ Mark(12, 1).kind = "pad" /\ Mark(12, 1).pars = << >> /\ Mark(12, 1).width = 12
      /\ Pad(12).kind = "pad" /\ Pad(12).pars = << >> /\ Pad(12).width = 12
      /\ \A p : ~ Single(Pad(12), p)
  BY DEF Mark, Pad, Field, Single
<1>8. \A i \in 1..6 : i = 1 \/ \E j \in 1..5 : i = j + 1
  <2>1. ASSUME NEW i \in 1..6, i # 1 PROVE \E j \in 1..5 : i = j + 1
    <3>1. i - 1 \in 1..5 /\ i = (i - 1) + 1
      BY <2>1
    <3> QED BY <3>1
  <2> QED BY <2>1
<1>9. \A j \in 1..5 : j + 1 \in 1..6
  OBVIOUS
<1>10. Filling(fields, 6)
  BY <1>3, <1>7, <1>8, TokenSlots DEF Filling
<1>11. \A i \in 1..6 : SameField(reads[i], fields[i]) /\ PlainOrPad(reads[i], TokenBucket)
  BY <1>3, <1>4, <1>7, <1>8, TokenSlots DEF SameField, PlainOrPad
<1>12. \A i \in 1..6, j \in 1..6, p \in TokenBucket : Single(reads[i], p) /\ Single(reads[j], p) => i = j
  BY <1>4, <1>7, <1>8, TokenSlots
<1>13. \A q \in TokenBucket : \E i \in 1..6 : Single(reads[i], q)
  BY <1>4, <1>9, TokenSlots
<1>14. 6 \in Nat \ {0}
  OBVIOUS
<1>15. Copies(reads, fields, TokenBucket, {}, 6)
  BY <1>3, <1>4, <1>10, <1>11, <1>12, <1>13, <1>14, FieldCopies
<1>16. OnlyIds(reads)
  BY <1>4, <1>7, <1>8, TokenSlots, NoId
<1> QED BY <1>1, <1>6, <1>15, <1>16 DEF ClassCopies, object, body

(* The subobjects of a UNI object, as written and as read.                 *)
WrittenSub(x) ==
  CASE x = "GU_SOURCE_TNA_ADDRESS" -> << Mark(4, 1), Addr("TNA_SRC_ADDR") >>
    [] x = "GU_DESTINATION_TNA_ADDRESS" -> << Mark(4, 2), Addr("TNA_DST_ADDR") >>
    [] x = "GU_SERVICE_LEVEL" -> << Mark(4, 5), Char("SERVICE_LEVEL"), Pad(3) >>

ReadSub(t) ==
  CASE t = 1 -> << Pad(4), Addr("TNA_SRC_ADDR") >>
    [] t = 2 -> << Pad(4), Addr("TNA_DST_ADDR") >>
    [] t = 5 -> << Pad(4), Char("SERVICE_LEVEL"), Pad(3) >>
    [] OTHER -> << >>

UniPar(x) ==
  CASE x = "GU_SOURCE_TNA_ADDRESS" -> "TNA_SRC_ADDR"
    [] x = "GU_DESTINATION_TNA_ADDRESS" -> "TNA_DST_ADDR"
    [] x = "GU_SERVICE_LEVEL" -> "SERVICE_LEVEL"

SubWidth(x) == IF x = "GU_SERVICE_LEVEL" THEN 3 ELSE 2

(* Element i of a subobject read: the parameter second, nothing elsewhere. *)
SubSlot(f, x, i) ==
  /\ f.kind \in {"pad", "addr", "char"}
  /\ IF i = 2 THEN f.kind \in PlainKinds /\ Single(f, UniPar(x))
     ELSE f.kind = "pad" /\ f.pars = << >>

SubCopied(x) ==
  LET w == WrittenSub(x)
      r == ReadSub(w[1].tag)
  IN  /\ w \in Seq(FieldsOf(Parameters)) /\ Len(w) = SubWidth(x) /\ Len(r) = SubWidth(x)
      /\ \A i \in 2..SubWidth(x) : ReadSub(w[i].tag) = << >>
      /\ \A i \in 1..SubWidth(x) : /\ SameField(r[i], w[i]) /\ w[i].width \in Nat \ {0}
                                   /\ SubSlot(r[i], x, i)

LEMMA SubSlots ==
  /\ \A w \in {3, 4} : Pad(w).kind = "pad" /\ Pad(w).pars = << >> /\ Pad(w).width = w /\ Pad(w).tag = 0
  /\ \A n \in {1, 2, 5} : Mark(4, n).kind = "pad" /\ Mark(4, n).pars = << >> /\ Mark(4, n).width = 4
                          /\ Mark(4, n).tag = n
  /\ \A p \in {"TNA_SRC_ADDR", "TNA_DST_ADDR"} :
       Single(Addr(p), p) /\ Addr(p).kind = "addr" /\ Addr(p).width = 4 /\ Addr(p).tag = 0
       /\ Addr(p) \in FieldsOf(Parameters)
  /\ Single(Char("SERVICE_LEVEL"), "SERVICE_LEVEL") /\ Char("SERVICE_LEVEL").kind = "char"
  /\ Char("SERVICE_LEVEL").width = 1 /\ Char("SERVICE_LEVEL").tag = 0
  /\ Char("SERVICE_LEVEL") \in FieldsOf(Parameters)
  /\ \A w \in {3, 4} : Pad(w) \in FieldsOf(Parameters)
  /\ \A n \in {1, 2, 5} : Mark(4, n) \in FieldsOf(Parameters)
<1>1. \A w \in {3, 4} : Pad(w).kind = "pad" /\ Pad(w).pars = << >> /\ Pad(w).width = w /\ Pad(w).tag = 0
  BY DEF Pad, Field
<1>2. \A n \in {1, 2, 5} : Mark(4, n).kind = "pad" /\ Mark(4, n).pars = << >> /\ Mark(4, n).width = 4
                          /\ Mark(4, n).tag = n
  BY DEF Mark, Field
<1>3. \A p \in {"TNA_SRC_ADDR", "TNA_DST_ADDR"} : Addr(p).tag = 0
  BY DEF Addr, Field
<1>4. Char("SERVICE_LEVEL").tag = 0
  BY DEF Char, Field
<1>5. \A p \in {"TNA_SRC_ADDR", "TNA_DST_ADDR", "SERVICE_LEVEL"} : p \in Parameters
  BY RequestSlots DEF Single
<1>6. /\ \A p \in {"TNA_SRC_ADDR", "TNA_DST_ADDR"} : Addr(p) \in FieldsOf(Parameters)
      /\ Char("SERVICE_LEVEL") \in FieldsOf(Parameters)
  BY <1>5, SingleIn
<1>7. \A w \in {3, 4} : Pad(w) \in FieldsOf(Parameters)
  BY PadIn
<1>8. \A n \in {1, 2, 5} : Mark(4, n) \in FieldsOf(Parameters)
  <2>1. << >> \in Seq(Parameters) /\ "pad" \in Kinds
    BY DEF Kinds
  <2> QED BY <2>1 DEF Mark, Field, FieldsOf
<1>9. /\ \A p \in {"TNA_SRC_ADDR", "TNA_DST_ADDR"} :
           Single(Addr(p), p) /\ Addr(p).kind = "addr" /\ Addr(p).width = 4
      /\ Single(Char("SERVICE_LEVEL"), "SERVICE_LEVEL") /\ Char("SERVICE_LEVEL").kind = "char"
      /\ Char("SERVICE_LEVEL").width = 1
  BY RequestSlots
<1> QED BY <1>1, <1>2, <1>3, <1>4, <1>6, <1>7, <1>8, <1>9

LEMMA AddressCopied ==
  ASSUME NEW x, NEW n, NEW p,
         \/ x = "GU_SOURCE_TNA_ADDRESS" /\ n = 1 /\ p = "TNA_SRC_ADDR"
         \/ x = "GU_DESTINATION_TNA_ADDRESS" /\ n = 2 /\ p = "TNA_DST_ADDR"
  PROVE  SubCopied(x)
<1> DEFINE w == << Mark(4, n), Addr(p) >>
           r == << Pad(4), Addr(p) >>
<1>1. WrittenSub(x) = w /\ UniPar(x) = p /\ SubWidth(x) = 2
  BY DEF WrittenSub, UniPar, SubWidth
<1>2. ReadSub(n) = r /\ ReadSub(0) = << >>
  BY DEF ReadSub
<1>3. /\ w \in Seq(FieldsOf(Parameters)) /\ Len(w) = 2 /\ w[1] = Mark(4, n) /\ w[2] = Addr(p)
      /\ Len(r) = 2 /\ r[1] = Pad(4) /\ r[2] = Addr(p)
  BY SubSlots
<1>4. /\ w[1].tag = n /\ w[2].tag = 0 /\ w[1].width = 4 /\ w[2].width = 4
      /\ SameField(r[1], w[1]) /\ SameField(r[2], w[2])
      /\ r[1].kind = "pad" /\ r[1].pars = << >> /\ r[2].kind = "addr" /\ Single(r[2], p)
  <2> HIDE DEF w, r
  <2> QED BY <1>3, SubSlots DEF SameField
<1> HIDE DEF w, r
<1>5. SubSlot(r[1], x, 1) /\ SubSlot(r[2], x, 2)
  BY <1>1, <1>4, KindsPlain DEF SubSlot
<1>6. (\A i \in 1..2 : i = 1 \/ i = 2) /\ (\A i \in 2..2 : i = 2) /\ 4 \in Nat \ {0}
  OBVIOUS
<1>7. /\ \A i \in 2..2 : ReadSub(w[i].tag) = << >>
      /\ \A i \in 1..2 : SameField(r[i], w[i]) /\ w[i].width \in Nat \ {0} /\ SubSlot(r[i], x, i)
  BY <1>2, <1>4, <1>5, <1>6
<1> QED BY <1>1, <1>2, <1>3, <1>4, <1>7 DEF SubCopied

LEMMA LevelCopied == SubCopied("GU_SERVICE_LEVEL")
<1> DEFINE x == "GU_SERVICE_LEVEL"
           p == "SERVICE_LEVEL"
           w == << Mark(4, 5), Char(p), Pad(3) >>
           r == << Pad(4), Char(p), Pad(3) >>
<1>1. WrittenSub(x) = w /\ UniPar(x) = p /\ SubWidth(x) = 3
  BY DEF WrittenSub, UniPar, SubWidth
<1>2. ReadSub(5) = r /\ ReadSub(0) = << >>
  BY DEF ReadSub
<1>3. /\ w \in Seq(FieldsOf(Parameters)) /\ Len(w) = 3 /\ w[1] = Mark(4, 5) /\ w[2] = Char(p)
      /\ w[3] = Pad(3) /\ Len(r) = 3 /\ r[1] = Pad(4) /\ r[2] = Char(p) /\ r[3] = Pad(3)
  BY SubSlots
<1>4. /\ w[1].tag = 5 /\ w[2].tag = 0 /\ w[3].tag = 0
      /\ w[1].width = 4 /\ w[2].width = 1 /\ w[3].width = 3
      /\ SameField(r[1], w[1]) /\ SameField(r[2], w[2]) /\ SameField(r[3], w[3])
      /\ r[1].kind = "pad" /\ r[1].pars = << >> /\ r[2].kind = "char" /\ Single(r[2], p)
      /\ r[3].kind = "pad" /\ r[3].pars = << >>
  <2> HIDE DEF w, r
  <2> QED BY <1>3, SubSlots DEF SameField
<1> HIDE DEF w, r
<1>5. SubSlot(r[1], x, 1) /\ SubSlot(r[2], x, 2) /\ SubSlot(r[3], x, 3)
  BY <1>1, <1>4, KindsPlain DEF SubSlot
<1>6. /\ \A i \in 1..3 : i = 1 \/ i = 2 \/ i = 3
      /\ \A i \in 2..3 : i = 2 \/ i = 3
      /\ 4 \in Nat \ {0} /\ 1 \in Nat \ {0} /\ 3 \in Nat \ {0}
  OBVIOUS
<1>7. /\ \A i \in 2..3 : ReadSub(w[i].tag) = << >>
      /\ \A i \in 1..3 : SameField(r[i], w[i]) /\ w[i].width \in Nat \ {0} /\ SubSlot(r[i], x, i)
  BY <1>2, <1>4, <1>5, <1>6
<1> QED BY <1>1, <1>2, <1>3, <1>4, <1>7 DEF SubCopied

LEMMA SubsOf ==
  /\ \A x \in Subobjects : SubCopied(x) /\ SubWidth(x) \in {2, 3}
  /\ \A t : ReadSub(t) \in Seq(FieldsOf(Parameters))
  /\ \A x \in Subobjects, y \in Subobjects : UniPar(x) = UniPar(y) => x = y
<1>1. \A x \in Subobjects : x = "GU_SOURCE_TNA_ADDRESS" \/ x = "GU_DESTINATION_TNA_ADDRESS"
                            \/ x = "GU_SERVICE_LEVEL"
  BY DEF Subobjects
<1>2. \A x \in Subobjects : SubCopied(x)
  <2>1. SubCopied("GU_SOURCE_TNA_ADDRESS") /\ SubCopied("GU_DESTINATION_TNA_ADDRESS")
    BY AddressCopied
  <2> QED BY <1>1, <2>1, LevelCopied
<1>3. \A x : SubWidth(x) \in {2, 3}
  BY DEF SubWidth
<1>4. ASSUME NEW t PROVE ReadSub(t) \in Seq(FieldsOf(Parameters))
  <2>1. /\ << Pad(4), Addr("TNA_SRC_ADDR") >> \in Seq(FieldsOf(Parameters))
        /\ << Pad(4), Addr("TNA_DST_ADDR") >> \in Seq(FieldsOf(Parameters))
        /\ << Pad(4), Char("SERVICE_LEVEL"), Pad(3) >> \in Seq(FieldsOf(Parameters))
        /\ << >> \in Seq(FieldsOf(Parameters))
    BY SubSlots
  <2>2. \/ ReadSub(t) = << Pad(4), Addr("TNA_SRC_ADDR") >>
        \/ ReadSub(t) = << Pad(4), Addr("TNA_DST_ADDR") >>
        \/ ReadSub(t) = << Pad(4), Char("SERVICE_LEVEL"), Pad(3) >>
        \/ ReadSub(t) = << >>
    BY DEF ReadSub
  <2> QED BY <2>1, <2>2
<1>5. \A x \in Subobjects, y \in Subobjects : UniPar(x) = UniPar(y) => x = y
  BY <1>1 DEF UniPar
<1> QED BY <1>2, <1>3, <1>4, <1>5

(* Reading back a UNI object: each subobject is read from where it was     *)
(* written.                                                                *)
SubsWritten(x, n) == [k \in 1..n |-> WrittenSub(x[k])]
SubsRead(fields) == [j \in DOMAIN fields |-> ReadSub(fields[j].tag)]

SubAt(reads, fields, x, off, j, k, i) ==
  /\ i \in 1..SubWidth(x[k]) /\ j = off[k - 1] + i
  /\ SameField(reads[j], fields[j]) /\ fields[j].width \in Nat \ {0} /\ SubSlot(reads[j], x[k], i)

SubsAt(reads, fields, x, n, off) ==
  /\ \A k \in 1..n : off[k - 1] \in Nat /\ off[k - 1] + SubWidth(x[k]) = off[k]
  /\ \A k \in 1..n : \A i \in 1..SubWidth(x[k]) :
       /\ off[k - 1] + i \in 1..Len(fields)
       /\ SubAt(reads, fields, x, off, off[k - 1] + i, k, i)
  /\ \A j \in 1..Len(fields) : \E k \in 1..n, i \in Nat : SubAt(reads, fields, x, off, j, k, i)

LEMMA SubsPlaced ==
  ASSUME NEW n \in Nat \ {0}, NEW x, \A k \in 1..n : x[k] \in Subobjects,
         NEW fields, fields = FlattenSeq(SubsWritten(x, n)),
         NEW reads, reads = FlattenSeq(SubsRead(fields))
  PROVE  /\ Len(fields) \in Nat \ {0} /\ DOMAIN fields = 1..Len(fields) /\ Len(reads) = Len(fields)
         /\ DOMAIN reads = 1..Len(reads)
         /\ \E off : SubsAt(reads, fields, x, n, off)
<1> DEFINE W == FieldsOf(Parameters)
           parts == SubsWritten(x, n)
<1>1. /\ \A k \in 1..n : parts[k] = WrittenSub(x[k]) /\ Len(parts[k]) = SubWidth(x[k])
                         /\ SubWidth(x[k]) \in {2, 3}
      /\ parts \in Seq(Seq(W)) /\ Len(parts) = n
  <2>1. \A k \in 1..n : /\ WrittenSub(x[k]) \in Seq(W) /\ Len(WrittenSub(x[k])) = SubWidth(x[k])
                       /\ SubWidth(x[k]) \in {2, 3}
    BY SubsOf DEF SubCopied
  <2> HIDE DEF W
  <2> QED BY <2>1 DEF SubsWritten
<1> HIDE DEF W
<1>2. fields \in Seq(W) /\ \E off : Placed(off, fields, parts)
  BY <1>1, FlattenPlaces
<1>3. PICK off : Placed(off, fields, parts)
  BY <1>2
<1> DEFINE rparts == SubsRead(fields)
           M == Len(fields)
<1>4. M \in Nat /\ DOMAIN fields = 1..M
  BY <1>2
<1>5. rparts \in Seq(Seq(W)) /\ Len(rparts) = M /\ \A j \in 1..M : rparts[j] = ReadSub(fields[j].tag)
  <2>1. \A j \in 1..M : ReadSub(fields[j].tag) \in Seq(W)
    BY SubsOf DEF W
  <2>2. rparts = [j \in 1..M |-> ReadSub(fields[j].tag)]
    BY <1>4 DEF SubsRead
  <2> HIDE DEF rparts, M
  <2> QED BY <1>4, <2>1, <2>2
<1>6. reads \in Seq(W) /\ \E roff : Placed(roff, reads, rparts)
  BY <1>5, FlattenPlaces
<1>7. PICK roff : Placed(roff, reads, rparts)
  BY <1>6
<1> HIDE DEF rparts, M, parts
<1>8. /\ off \in [0..n -> Nat] /\ off[0] = 0 /\ off[n] = M
      /\ \A k \in 1..n : /\ off[k] = off[k - 1] + SubWidth(x[k])
                         /\ \A i \in 1..SubWidth(x[k]) : /\ off[k - 1] + i \in 1..M
                                                         /\ fields[off[k - 1] + i] = WrittenSub(x[k])[i]
  <2>1. /\ off \in [0..n -> Nat] /\ off[0] = 0 /\ off[n] = M
        /\ \A k \in 1..n : /\ off[k] = off[k - 1] + Len(parts[k])
                           /\ \A i \in 1..Len(parts[k]) : /\ off[k - 1] + i \in 1..M
                                                          /\ fields[off[k - 1] + i] = parts[k][i]
    <3>1. PICK m : m = Len(parts)
      OBVIOUS
    <3>2. m = n
      BY <1>1, <3>1
    <3> QED BY <1>3, <3>1, <3>2 DEF Placed, M
  <2> SUFFICES ASSUME NEW k \in 1..n
               PROVE  /\ off[k] = off[k - 1] + SubWidth(x[k])
                      /\ \A i \in 1..SubWidth(x[k]) : /\ off[k - 1] + i \in 1..M
                                                      /\ fields[off[k - 1] + i] = WrittenSub(x[k])[i]
    BY <2>1
  <2>2. PICK part : part = parts[k]
    OBVIOUS
  <2>3. part = WrittenSub(x[k]) /\ Len(part) = SubWidth(x[k])
    BY <1>1, <2>2
  <2>4. /\ off[k] = off[k - 1] + Len(part)
        /\ \A i \in 1..Len(part) : off[k - 1] + i \in 1..M /\ fields[off[k - 1] + i] = part[i]
    BY <2>1, <2>2
  <2>5. PICK width : width = SubWidth(x[k])
    OBVIOUS
  <2> QED BY <2>3, <2>4, <2>5
<1>9. /\ roff \in [0..M -> Nat] /\ roff[0] = 0 /\ roff[M] = Len(reads)
      /\ \A j \in 1..M : /\ roff[j] = roff[j - 1] + Len(ReadSub(fields[j].tag))
                         /\ \A i \in 1..Len(ReadSub(fields[j].tag)) :
                              /\ roff[j - 1] + i \in 1..Len(reads)
                              /\ reads[roff[j - 1] + i] = ReadSub(fields[j].tag)[i]
  BY <1>5, <1>7 DEF Placed
<1>20. ASSUME NEW j \in 1..M, NEW r, r = ReadSub(fields[j].tag)
       PROVE  /\ roff[j] = roff[j - 1] + Len(r)
              /\ \A i \in 1..Len(r) : reads[roff[j - 1] + i] = r[i]
  BY <1>9, <1>20
<1>10. ASSUME NEW k \in 0..(n - 1), roff[off[k]] = off[k]
       PROVE  /\ roff[off[k + 1]] = off[k + 1]
              /\ \A i \in 1..SubWidth(x[k + 1]) :
                   reads[off[k] + i] = ReadSub(WrittenSub(x[k + 1])[1].tag)[i]
  <2> DEFINE y == x[k + 1]
             o == off[k]
             d == SubWidth(y)
  <2>1. k + 1 \in 1..n /\ (k + 1) - 1 = k /\ k \in 0..n
    OBVIOUS
  <2>2. y \in Subobjects /\ SubCopied(y) /\ d \in {2, 3}
    BY <2>1, SubsOf
  <2>3. /\ o \in Nat /\ off[k + 1] = o + d
        /\ \A i \in 1..d : o + i \in 1..M /\ fields[o + i] = WrittenSub(y)[i]
    BY <1>8, <2>1
  <2>4. Len(ReadSub(WrittenSub(y)[1].tag)) = d /\ \A i \in 2..d : ReadSub(WrittenSub(y)[i].tag) = << >>
    BY <2>2 DEF SubCopied
  <2> HIDE DEF y, o, d
  <2>5. 1 \in 1..d /\ 2 \in 2..d /\ 2 \in 1..d /\ Len(<< >>) = 0
    BY <2>2
  <2>6. o + 1 \in 1..M /\ (o + 1) - 1 = o /\ fields[o + 1] = WrittenSub(y)[1]
    BY <2>3, <2>5
  <2>7. /\ roff[o + 1] = roff[o] + d
        /\ \A i \in 1..d : reads[roff[o] + i] = ReadSub(WrittenSub(y)[1].tag)[i]
    <3>1. PICK r : r = ReadSub(WrittenSub(y)[1].tag)
      OBVIOUS
    <3>2. r = ReadSub(fields[o + 1].tag) /\ Len(r) = d
      BY <2>4, <2>6, <3>1
    <3>3. /\ roff[o + 1] = roff[(o + 1) - 1] + Len(r)
          /\ \A i \in 1..Len(r) : reads[roff[(o + 1) - 1] + i] = r[i]
      BY <1>20, <2>6, <3>2
    <3> QED BY <2>6, <3>1, <3>2, <3>3
  <2>8. roff[o] = o
    BY <1>10 DEF o
  <2>9. roff[o + 1] = o + d
    BY <2>7, <2>8
  <2>10. roff[o + 2] = o + d
    <3>1. o + 2 \in 1..M /\ (o + 2) - 1 = o + 1 /\ fields[o + 2] = WrittenSub(y)[2]
      BY <2>3, <2>5
    <3>2. roff[o + 2] = roff[o + 1] + 0
      <4>1. << >> = ReadSub(fields[o + 2].tag)
        BY <2>4, <2>5, <3>1
      <4> QED BY <1>20, <2>5, <3>1, <4>1
    <3> QED BY <2>2, <2>3, <2>9, <3>2
  <2>11. roff[o + d] = o + d
    <3>1. CASE d = 2
      BY <2>10, <3>1
    <3>2. CASE d = 3
      <4>1. 3 \in 1..d /\ 3 \in 2..d
        BY <3>2
      <4>2. o + 3 \in 1..M /\ (o + 3) - 1 = o + 2 /\ fields[o + 3] = WrittenSub(y)[3]
        BY <2>3, <4>1
      <4>3. roff[o + 3] = roff[o + 2] + 0
        <5>1. << >> = ReadSub(fields[o + 3].tag)
          BY <2>4, <4>1, <4>2
        <5> QED BY <1>20, <2>5, <4>2, <5>1
      <4> QED BY <2>2, <2>3, <2>10, <3>2, <4>3
    <3> QED BY <2>2, <3>1, <3>2
  <2>12. roff[off[k + 1]] = off[k + 1]
    BY <2>3, <2>11
  <2>13. \A i \in 1..d : reads[o + i] = ReadSub(WrittenSub(y)[1].tag)[i]
    BY <2>7, <2>8
  <2> QED BY <2>12, <2>13 DEF y, o, d
<1>11. \A k \in 0..n : roff[off[k]] = off[k]
  <2> DEFINE T == {k \in 0..n : roff[off[k]] = off[k]}
  <2>1. 0 \in T
    BY <1>8, <1>9
  <2>2. \A k \in 0..(n - 1) : k \in T => k + 1 \in T
    <3>1. \A k \in 0..(n - 1) : k + 1 \in 0..n
      OBVIOUS
    <3> QED BY <1>10, <3>1
  <2>3. n \in Nat
    OBVIOUS
  <2> HIDE DEF T
  <2>4. 0..n \subseteq T
    BY <2>1, <2>2, <2>3, UpTo
  <2> QED BY <2>4 DEF T
<1>12. Len(reads) = M
  BY <1>8, <1>9, <1>11
<1>13. ASSUME NEW k \in 1..n, NEW i \in 1..SubWidth(x[k])
       PROVE  /\ off[k - 1] + i \in 1..M
              /\ SubAt(reads, fields, x, off, off[k - 1] + i, k, i)
  <2> DEFINE j == off[k - 1] + i
             w == WrittenSub(x[k])
             r == ReadSub(w[1].tag)
  <2>1. k - 1 \in 0..(n - 1) /\ (k - 1) + 1 = k
    OBVIOUS
  <2>2. reads[j] = r[i]
    BY <1>10, <1>11, <2>1
  <2>3. j \in 1..M /\ fields[j] = w[i]
    BY <1>8
  <2>4. SameField(r[i], w[i]) /\ w[i].width \in Nat \ {0} /\ SubSlot(r[i], x[k], i)
    BY SubsOf DEF SubCopied
  <2> HIDE DEF r, w
  <2> QED BY <2>2, <2>3, <2>4 DEF SubAt
<1>14. ASSUME NEW j \in 1..M
       PROVE  \E k \in 1..n, i \in Nat : SubAt(reads, fields, x, off, j, k, i)
  <2>1. /\ \A k \in 1..n : Len(parts[k]) \in Nat
        /\ n \in Nat
    BY <1>1
  <2>2. \E k \in 1..n : off[k - 1] < j /\ j <= off[k]
    BY <1>1, <1>3, <2>1, PlacesInOrder DEF M
  <2>3. PICK k \in 1..n : off[k - 1] < j /\ j <= off[k]
    BY <2>2
  <2>4. off[k - 1] \in Nat /\ off[k] = off[k - 1] + SubWidth(x[k]) /\ SubWidth(x[k]) \in Nat
    BY <1>1, <1>8
  <2>5. PICK i \in Int : i = j - off[k - 1]
    BY <1>4, <2>4
  <2>6. i \in 1..SubWidth(x[k]) /\ i \in Nat /\ j = off[k - 1] + i
    BY <2>3, <2>4, <2>5
  <2> QED BY <1>13, <2>6
<1>15. \A k \in 1..n : off[k - 1] \in Nat /\ off[k - 1] + SubWidth(x[k]) = off[k]
  BY <1>8
<1>16. M # 0
  <2>1. 1 \in 1..n /\ 1 - 1 = 0
    OBVIOUS
  <2>2. 1 \in 1..SubWidth(x[1])
    <3>1. SubWidth(x[1]) \in {2, 3}
      BY <1>1, <2>1
    <3> QED BY <3>1
  <2>3. off[0] + 1 \in 1..M
    BY <1>8, <2>1, <2>2
  <2> QED BY <1>4, <1>8, <2>3
<1>17. DOMAIN reads = 1..Len(reads)
  BY <1>6
<1>18. SubsAt(reads, fields, x, n, off)
  BY <1>13, <1>14, <1>15 DEF SubsAt, M
<1> QED BY <1>4, <1>12, <1>16, <1>17, <1>18 DEF M

LEMMA SubsCopied ==
  ASSUME NEW n \in Nat \ {0}, NEW x, \A k \in 1..n : x[k] \in Subobjects,
         \A k \in 1..n, l \in 1..n : x[k] = x[l] => k = l,
         NEW fields, fields = FlattenSeq(SubsWritten(x, n)),
         NEW reads, reads = FlattenSeq(SubsRead(fields)),
         NEW Q, Q = {UniPar(x[k]) : k \in 1..n}
  PROVE  Copies(reads, fields, Q, {}, Len(fields)) /\ OnlyIds(reads)
<1>1. /\ Len(fields) \in Nat \ {0} /\ DOMAIN fields = 1..Len(fields) /\ Len(reads) = Len(fields)
      /\ DOMAIN reads = 1..Len(reads)
      /\ \E off : SubsAt(reads, fields, x, n, off)
  BY SubsPlaced
<1>2. PICK off : /\ \A k \in 1..n : off[k - 1] \in Nat /\ off[k - 1] + SubWidth(x[k]) = off[k]
                 /\ \A k \in 1..n : \A i \in 1..SubWidth(x[k]) :
                      /\ off[k - 1] + i \in 1..Len(fields)
                      /\ SubAt(reads, fields, x, off, off[k - 1] + i, k, i)
                 /\ \A j \in 1..Len(fields) : \E k \in 1..n, i \in Nat :
                      SubAt(reads, fields, x, off, j, k, i)
  BY <1>1 DEF SubsAt
<1> DEFINE N == Len(fields)
<1>3. \A k \in 1..n : UniPar(x[k]) \in Q
  OBVIOUS
<1>4. \A q \in Q : \E k \in 1..n : q = UniPar(x[k])
  OBVIOUS
<1>5. Filling(fields, N)
  BY <1>1, <1>2 DEF Filling, SubAt
<1>6. \A j \in 1..N : SameField(reads[j], fields[j]) /\ PlainOrPad(reads[j], Q)
  <2> TAKE j \in 1..N
  <2>1. PICK k \in 1..n, i \in Nat : SubAt(reads, fields, x, off, j, k, i)
    BY <1>2
  <2> QED BY <1>3, <2>1 DEF SubAt, SubSlot, PlainOrPad
<1>7. ASSUME NEW j \in 1..N, NEW p, Single(reads[j], p)
      PROVE  \E k \in 1..n : p = UniPar(x[k]) /\ j = off[k - 1] + 2
  <2>1. PICK k \in 1..n, i \in Nat : SubAt(reads, fields, x, off, j, k, i)
    BY <1>2
  <2>2. i = 2
    BY <1>7, <2>1 DEF SubAt, SubSlot, Single
  <2>3. Single(reads[j], UniPar(x[k])) /\ j = off[k - 1] + 2
    BY <2>1, <2>2 DEF SubAt, SubSlot
  <2>4. << p >> = << UniPar(x[k]) >>
    BY <1>7, <2>3 DEF Single
  <2>5. p = UniPar(x[k])
    <3>1. << p >>[1] = p /\ << UniPar(x[k]) >>[1] = UniPar(x[k])
      OBVIOUS
    <3> QED BY <2>4, <3>1
  <2> QED BY <2>3, <2>5
<1>8. \A i \in 1..N, j \in 1..N, p \in Q : Single(reads[i], p) /\ Single(reads[j], p) => i = j
  <2> SUFFICES ASSUME NEW i \in 1..N, NEW j \in 1..N, NEW p \in Q,
                      Single(reads[i], p), Single(reads[j], p)
               PROVE  i = j
    OBVIOUS
  <2>1. PICK k \in 1..n : p = UniPar(x[k]) /\ i = off[k - 1] + 2
    BY <1>7
  <2>2. PICK l \in 1..n : p = UniPar(x[l]) /\ j = off[l - 1] + 2
    BY <1>7
  <2>3. x[k] = x[l]
    BY <2>1, <2>2, SubsOf
  <2> QED BY <2>1, <2>2, <2>3
<1>9. \A q \in Q : \E j \in 1..N : Single(reads[j], q)
  <2> TAKE q \in Q
  <2>1. PICK k \in 1..n : q = UniPar(x[k])
    BY <1>4
  <2>2. 2 \in 1..SubWidth(x[k])
    <3>1. SubWidth(x[k]) \in {2, 3}
      BY SubsOf
    <3> QED BY <3>1
  <2>3. off[k - 1] + 2 \in 1..N /\ SubAt(reads, fields, x, off, off[k - 1] + 2, k, 2)
    BY <1>2, <2>2
  <2> QED BY <2>1, <2>3 DEF SubAt, SubSlot
<1>10. Copies(reads, fields, Q, {}, N)
  <2> HIDE DEF N
  <2>1. N \in Nat \ {0} /\ Len(fields) = N /\ Len(reads) = N
    BY <1>1 DEF N
  <2> QED BY <1>5, <1>6, <1>8, <1>9, <2>1, FieldCopies
<1>11. \A j \in DOMAIN reads : reads[j].kind # "int24"
  <2> TAKE j \in DOMAIN reads
  <2>1. PICK k \in 1..n, i \in Nat : SubAt(reads, fields, x, off, j, k, i)
    BY <1>1, <1>2
  <2> QED BY <2>1 DEF SubAt, SubSlot
<1> QED BY <1>10, <1>11, NoId

Subs(objs) == {i \in DOMAIN objs : objs[i] \in Subobjects}

LEMMA UniFields ==
  ASSUME NEW c, NEW objs, NEW at, at = Ascending(Subs(objs)), NEW n \in Nat, DOMAIN at = 1..n,
         NEW x, \A k \in 1..n : x[k] = objs[at[k]], NEW object,
         object = WrittenObject("GENERALIZED_UNI", Written("GENERALIZED_UNI", c, objs), c)
  PROVE  /\ Written("GENERALIZED_UNI", c, objs).fields = FlattenSeq(SubsWritten(x, n))
         /\ ReadFields(object) = FlattenSeq(SubsRead(Written("GENERALIZED_UNI", c, objs).fields))
<1> DEFINE body == Written("GENERALIZED_UNI", c, objs)
           subs == FlattenSeq([k \in DOMAIN at |-> WrittenSub(objs[at[k]])])
<1>1. body = Body(BytesOf(subs), subs)
  <2>1. body = WriteUni("GENERALIZED_UNI", c, objs)
    BY DEF Written
  <2> HIDE DEF body
  <2>2. WriteUni("GENERALIZED_UNI", c, objs) = Body(BytesOf(subs), subs)
    <3>1. WriteUni("GENERALIZED_UNI", c, objs)
            = Body(BytesOf(FlattenSeq([k \in DOMAIN Ascending(Subs(objs)) |->
                                        WrittenSub(objs[Ascending(Subs(objs))[k]])])),
                   FlattenSeq([k \in DOMAIN Ascending(Subs(objs)) |->
                                WrittenSub(objs[Ascending(Subs(objs))[k]])]))
      BY Zenon DEF WriteUni, Subs, WrittenSub
    <3> QED BY <3>1, Zenon
  <2> QED BY <2>1, <2>2
<1>2. body.fields = subs
  BY <1>1 DEF Body
<1>3. [k \in DOMAIN at |-> WrittenSub(objs[at[k]])] = SubsWritten(x, n)
  BY DEF SubsWritten
<1>4. body.fields = FlattenSeq(SubsWritten(x, n))
  BY <1>2, <1>3
<1> HIDE DEF body, subs
<1>5. object.class = "GENERALIZED_UNI" /\ object.fields = [k \in DOMAIN body.fields |-> WrittenField(body.fields[k], c)]
  BY DEF WrittenObject, body
<1>6. \A k \in DOMAIN body.fields : Tag(object, k) = body.fields[k].tag
  BY <1>5 DEF Tag, WrittenField
<1>7. ReadFields(object) = ReadUni(object)
  BY <1>5 DEF ReadFields
<1>8. ReadUni(object) = FlattenSeq([k \in DOMAIN object.fields |-> ReadSub(Tag(object, k))])
  BY <1>5 DEF ReadUni, ReadSub
<1>9. [k \in DOMAIN object.fields |-> ReadSub(Tag(object, k))] = SubsRead(body.fields)
  BY <1>5, <1>6 DEF SubsRead
<1> QED BY <1>4, <1>7, <1>8, <1>9 DEF body

LEMMA UniCopies ==
  ASSUME NEW c, NEW objs \in Seq(Classes), Subs(objs) # {},
         \A i \in Subs(objs), j \in Subs(objs) : objs[i] = objs[j] => i = j,
         NEW Q, Q = {UniPar(objs[i]) : i \in Subs(objs)}
  PROVE  ClassCopies("GENERALIZED_UNI", c, objs, Q, {})
<1> DEFINE S == Subs(objs)
           at == Ascending(S)
           n == Cardinality(S)
           body == Written("GENERALIZED_UNI", c, objs)
           object == WrittenObject("GENERALIZED_UNI", body, c)
           x == [k \in 1..n |-> objs[at[k]]]
<1>1. Len(objs) \in Nat /\ S \in SUBSET (1..Len(objs))
  BY DEF Subs
<1>2. /\ n \in 0..Len(objs) /\ at \in Seq(S) /\ Len(at) = n
      /\ \A k \in S : \E i \in 1..n : at[i] = k
      /\ \A i, j \in 1..n : at[i] = at[j] => i = j
  BY <1>1, AscendingPlaces
<1>3. n \in Nat /\ DOMAIN at = 1..n /\ \A k \in 1..n : at[k] \in S
  <2> HIDE DEF at, S, n
  <2> QED BY <1>1, <1>2
<1>4. n # 0
  <2> HIDE DEF at, n
  <2>1. PICK k \in S : TRUE
    OBVIOUS
  <2>2. PICK i \in 1..n : at[i] = k
    BY <1>2
  <2> QED BY <1>3, <2>2
<1>5. \A k \in 1..n : x[k] = objs[at[k]]
  OBVIOUS
<1> HIDE DEF x, n
<1>6. /\ body.fields = FlattenSeq(SubsWritten(x, n))
      /\ ReadFields(object) = FlattenSeq(SubsRead(body.fields))
  BY <1>3, <1>5, UniFields
<1> HIDE DEF at, S, body, object
<1>7. \A k \in 1..n : x[k] \in Subobjects
  BY <1>3, <1>5 DEF S, Subs
<1>8. \A k \in 1..n, l \in 1..n : x[k] = x[l] => k = l
  BY <1>2, <1>3, <1>5 DEF S
<1>9. Q = {UniPar(x[k]) : k \in 1..n}
  <2>1. \A k \in 1..n : \E i \in S : UniPar(x[k]) = UniPar(objs[i])
    BY <1>3, <1>5
  <2>2. \A i \in S : \E k \in 1..n : UniPar(x[k]) = UniPar(objs[i])
    BY <1>2, <1>5
  <2> QED BY <2>1, <2>2 DEF S
<1>10. Copies(ReadFields(object), body.fields, Q, {}, Len(body.fields)) /\ OnlyIds(ReadFields(object))
  BY <1>3, <1>4, <1>6, <1>7, <1>8, <1>9, SubsCopied
<1> QED BY <1>10 DEF ClassCopies, body, object

Ethernet == EthernetLink \cup EthernetBandwidth

(* An Ethernet descriptor: written in ten fields, read in nine.            *)
LEMMA EthernetWritten ==
  /\ Len(EthernetFields) = 10 /\ DOMAIN EthernetFields = 1..10
  /\ EthernetFields[1].width = 2 /\ EthernetFields[2].width = 2 /\ EthernetFields[3].width = 4
  /\ EthernetFields[4] = Char("ETHERNET_PROFILE") /\ EthernetFields[5] = Char("ETHERNET_INDEX")
  /\ EthernetFields[6] = Pad(2)
  /\ EthernetFields[7] = Float("ETHERNET_CIR") /\ EthernetFields[8] = Float("ETHERNET_CBS")
  /\ EthernetFields[9] = Float("ETHERNET_EIR") /\ EthernetFields[10] = Float("ETHERNET_EBS")
<1>1. /\ Len(EthernetFields) = 10 /\ DOMAIN EthernetFields = 1..10
      /\ EthernetFields[1] = Field("granularity", << "ETHERNET_SW_GRANUALITY" >>, 2, 0)
      /\ EthernetFields[2] = Pad(2) /\ EthernetFields[3] = Mark(4, 129)
      /\ EthernetFields[4] = Char("ETHERNET_PROFILE") /\ EthernetFields[5] = Char("ETHERNET_INDEX")
      /\ EthernetFields[6] = Pad(2)
      /\ EthernetFields[7] = Float("ETHERNET_CIR") /\ EthernetFields[8] = Float("ETHERNET_CBS")
      /\ EthernetFields[9] = Float("ETHERNET_EIR") /\ EthernetFields[10] = Float("ETHERNET_EBS")
  BY DEF EthernetFields
<1>2. /\ Field("granularity", << "ETHERNET_SW_GRANUALITY" >>, 2, 0).width = 2
      /\ Pad(2).width = 2 /\ Mark(4, 129).width = 4
  BY DEF Field, Pad, Mark
<1> QED BY <1>1, <1>2

LEMMA EthernetReads ==
  /\ Len(ReadEthernet) = 9 /\ DOMAIN ReadEthernet = 1..9
  /\ ReadEthernet[1] = Short("ETHERNET_SW_GRANUALITY") /\ ReadEthernet[2] = Pad(6)
  /\ ReadEthernet[3] = Char("ETHERNET_PROFILE") /\ ReadEthernet[4] = Char("ETHERNET_INDEX")
  /\ ReadEthernet[5] = Pad(2)
  /\ ReadEthernet[6] = Float("ETHERNET_CIR") /\ ReadEthernet[7] = Float("ETHERNET_CBS")
  /\ ReadEthernet[8] = Float("ETHERNET_EIR") /\ ReadEthernet[9] = Float("ETHERNET_EBS")
BY DEF ReadEthernet

LEMMA EthernetSlots ==
  /\ \A p \in EthernetBandwidth :
       Single(Float(p), p) /\ Float(p).kind = "float" /\ Float(p).width = 4 /\ Float(p).pars = << p >>
  /\ \A p \in {"ETHERNET_INDEX", "ETHERNET_PROFILE"} :
       Single(Char(p), p) /\ Char(p).kind = "char" /\ Char(p).width = 1 /\ Char(p).pars = << p >>
  /\ Single(Short("ETHERNET_SW_GRANUALITY"), "ETHERNET_SW_GRANUALITY")
  /\ Short("ETHERNET_SW_GRANUALITY").width = 2
  /\ \A w \in {2, 6} : Pad(w).kind = "pad" /\ Pad(w).pars = << >> /\ Pad(w).width = w
<1>1. \A p \in EthernetBandwidth :
       Single(Float(p), p) /\ Float(p).kind = "float" /\ Float(p).width = 4 /\ Float(p).pars = << p >>
  BY DEF EthernetBandwidth, Float, Field, Single, HasType, AddType, Parameters, PT_F, PT_TAB
<1>2. \A p \in {"ETHERNET_INDEX", "ETHERNET_PROFILE"} : Char(p).pars = << p >>
  BY DEF Char, Field
<1>3. \A w \in {2, 6} : Pad(w).kind = "pad" /\ Pad(w).pars = << >> /\ Pad(w).width = w
  BY DEF Pad, Field
<1> QED BY <1>1, <1>2, <1>3, RequestSlots

LEMMA EthernetOffsets ==
  ASSUME NEW fields, DOMAIN fields = 1..10,
         \A k \in 1..10 : fields[k].width = EthernetFields[k].width, NEW i \in 3..9
  PROVE  BytesOf(SubSeq(fields, 1, (i + 1) - 1)) = BytesOf(SubSeq(ReadEthernet, 1, i - 1))
<1>1. /\ fields[1].width = 2 /\ fields[2].width = 2 /\ fields[3].width = 4 /\ fields[4].width = 1
      /\ fields[5].width = 1 /\ fields[6].width = 2 /\ fields[7].width = 4 /\ fields[8].width = 4
      /\ fields[9].width = 4 /\ fields[10].width = 4
  <2>1. 1 \in 1..10 /\ 2 \in 1..10 /\ 3 \in 1..10 /\ 4 \in 1..10 /\ 5 \in 1..10 /\ 6 \in 1..10
        /\ 7 \in 1..10 /\ 8 \in 1..10 /\ 9 \in 1..10 /\ 10 \in 1..10
    OBVIOUS
  <2>2. \A p \in {"ETHERNET_CIR", "ETHERNET_CBS", "ETHERNET_EIR", "ETHERNET_EBS"} : Float(p).width = 4
    BY EthernetSlots DEF EthernetBandwidth
  <2> QED BY <2>1, <2>2, EthernetWritten, EthernetSlots
<1>2. \A k \in 1..10 : fields[k].width \in Int
  <2>1. \A k \in 1..10 : k = 1 \/ k = 2 \/ k = 3 \/ k = 4 \/ k = 5 \/ k = 6 \/ k = 7 \/ k = 8
                         \/ k = 9 \/ k = 10
    OBVIOUS
  <2> QED BY <1>1, <2>1
<1>3. 10 \in Nat /\ 9 \in Nat
  OBVIOUS
<1>4. PICK b : Widths(b, fields, 10) /\ \A n \in 0..10 : BytesOf(SubSeq(fields, 1, n)) = b[n]
  BY <1>2, <1>3, PrefixBytes
<1> DEFINE reads == ReadEthernet
<1>5. /\ reads[1].width = 2 /\ reads[2].width = 6 /\ reads[3].width = 1 /\ reads[4].width = 1
      /\ reads[5].width = 2 /\ reads[6].width = 4 /\ reads[7].width = 4 /\ reads[8].width = 4
      /\ reads[9].width = 4 /\ DOMAIN reads = 1..9
  <2>1. \A p \in {"ETHERNET_CIR", "ETHERNET_CBS", "ETHERNET_EIR", "ETHERNET_EBS"} : Float(p).width = 4
    BY EthernetSlots DEF EthernetBandwidth
  <2> QED BY <2>1, EthernetReads, EthernetSlots
<1> HIDE DEF reads
<1>6. \A k \in 1..9 : reads[k].width \in Int
  <2>1. \A k \in 1..9 : k = 1 \/ k = 2 \/ k = 3 \/ k = 4 \/ k = 5 \/ k = 6 \/ k = 7 \/ k = 8 \/ k = 9
    OBVIOUS
  <2> QED BY <1>5, <2>1
<1>7. PICK r : Widths(r, reads, 9) /\ \A n \in 0..9 : BytesOf(SubSeq(reads, 1, n)) = r[n]
  BY <1>3, <1>5, <1>6, PrefixBytes
<1>8. /\ b[0] = 0 /\ b[1] = 2 /\ b[2] = 4 /\ b[3] = 8 /\ b[4] = 9 /\ b[5] = 10 /\ b[6] = 12
      /\ b[7] = 16 /\ b[8] = 20 /\ b[9] = 24
  <2>1. b[0] = 0 /\ \A n \in 0..9 : b[n + 1] = b[n] + fields[n + 1].width
    BY <1>4 DEF Widths
  <2>2. b[0 + 1] = b[0] + fields[0 + 1].width /\ b[1 + 1] = b[1] + fields[1 + 1].width
        /\ b[2 + 1] = b[2] + fields[2 + 1].width /\ b[3 + 1] = b[3] + fields[3 + 1].width
        /\ b[4 + 1] = b[4] + fields[4 + 1].width /\ b[5 + 1] = b[5] + fields[5 + 1].width
        /\ b[6 + 1] = b[6] + fields[6 + 1].width /\ b[7 + 1] = b[7] + fields[7 + 1].width
        /\ b[8 + 1] = b[8] + fields[8 + 1].width
    BY <2>1
  <2> QED BY <1>1, <2>1, <2>2
<1>9. r[0] = 0 /\ r[1] = 2 /\ r[2] = 8 /\ r[3] = 9 /\ r[4] = 10 /\ r[5] = 12 /\ r[6] = 16
      /\ r[7] = 20 /\ r[8] = 24
  <2>1. r[0] = 0 /\ \A n \in 0..8 : r[n + 1] = r[n] + reads[n + 1].width
    BY <1>7 DEF Widths
  <2>2. r[0 + 1] = r[0] + reads[0 + 1].width /\ r[1 + 1] = r[1] + reads[1 + 1].width
        /\ r[2 + 1] = r[2] + reads[2 + 1].width /\ r[3 + 1] = r[3] + reads[3 + 1].width
        /\ r[4 + 1] = r[4] + reads[4 + 1].width /\ r[5 + 1] = r[5] + reads[5 + 1].width
        /\ r[6 + 1] = r[6] + reads[6 + 1].width /\ r[7 + 1] = r[7] + reads[7 + 1].width
    BY <2>1
  <2> QED BY <1>5, <2>1, <2>2
<1>10. i - 1 \in 0..9 /\ (i + 1) - 1 \in 0..10 /\ (i + 1) - 1 = i
       /\ (i = 3 \/ i = 4 \/ i = 5 \/ i = 6 \/ i = 7 \/ i = 8 \/ i = 9)
  OBVIOUS
<1>11. b[i] = r[i - 1]
  BY <1>8, <1>9, <1>10
<1> QED BY <1>4, <1>7, <1>10, <1>11 DEF reads

(* The granularity is written as one signed byte.                          *)
EtherPars(c) ==
  Ethernet \ (IF Read(c, "ETHERNET_SW_GRANUALITY") \in 0..127 THEN {} ELSE {"ETHERNET_SW_GRANUALITY"})
EthernetSaid(c) == [q \in EtherPars(c) |-> {Read(c, q)}]

LEMMA GranularityWritten ==
  ASSUME NEW c, IsPresent(c, "ETHERNET_SW_GRANUALITY"), Read(c, "ETHERNET_SW_GRANUALITY") \in 0..127
  PROVE  /\ WrittenField(EthernetFields[1], c).val = Read(c, "ETHERNET_SW_GRANUALITY")
         /\ WrittenField(EthernetFields[1], c).kind = "short"
<1> DEFINE f == EthernetFields[1]
<1>1. f = Field("granularity", << "ETHERNET_SW_GRANUALITY" >>, 2, 0)
  BY DEF EthernetFields
<1> HIDE DEF f
<1>2. f.kind = "granularity" /\ f.pars = << "ETHERNET_SW_GRANUALITY" >>
  BY <1>1 DEF Field
<1>3. f.pars # << >> /\ f.pars[1] = "ETHERNET_SW_GRANUALITY"
  BY <1>2
<1>4. PICK v \in 0..127 : v = Read(c, "ETHERNET_SW_GRANUALITY")
  OBVIOUS
<1>5. v % 256 = v /\ v < 128
  OBVIOUS
<1>6. Encoded(f, c) = v
  BY <1>2, <1>3, <1>4, <1>5 DEF Encoded
<1> QED BY <1>2, <1>4, <1>6 DEF WrittenField, f

LEMMA EthernetGrouped ==
  ASSUME NEW c, NEW objs, \A q \in Ethernet : IsPresent(c, q)
  PROVE  Grouped("ETHERNET_SENDER_TSPEC", c, objs, Ethernet, {}, EthernetSaid(c))
<1> DEFINE class == "ETHERNET_SENDER_TSPEC"
           body == Written(class, c, objs)
           object == WrittenObject(class, body, c)
           T == EthernetSaid(c)
           N == 10
<1>1. body.fields = EthernetFields
  BY DEF Written, WriteSenderAndFilter, Body
<1>2. object.class = class
  BY DEF WrittenObject
<1>3. ReadFields(object) = ReadEthernet
  <2> HIDE DEF object
  <2> QED BY <1>2 DEF ReadFields, ReadSenderAndFilter
<1>4. /\ DOMAIN object.fields = 1..10
      /\ \A k \in 1..10 : object.fields[k] = WrittenField(EthernetFields[k], c)
  BY <1>1, EthernetWritten DEF WrittenObject
<1> HIDE DEF object, body
<1>5. \A k \in 1..10 : object.fields[k].width = EthernetFields[k].width
  BY <1>4 DEF WrittenField
<1>6. \A k \in 1..10 : k = 1 \/ k = 2 \/ k = 3 \/ k = 4 \/ k = 5 \/ k = 6 \/ k = 7 \/ k = 8
                       \/ k = 9 \/ k = 10
  OBVIOUS
<1>7. Filling(object.fields, 10)
  <2>1. \A p \in {"ETHERNET_CIR", "ETHERNET_CBS", "ETHERNET_EIR", "ETHERNET_EBS"} : Float(p).width = 4
    BY EthernetSlots DEF EthernetBandwidth
  <2>2. 1 \in Nat \ {0} /\ 2 \in Nat \ {0} /\ 4 \in Nat \ {0}
    OBVIOUS
  <2>3. \A k \in 1..10 : EthernetFields[k].width \in Nat \ {0}
    BY <1>6, <2>1, <2>2, EthernetWritten, EthernetSlots
  <2> QED BY <1>4, <1>5, <2>3 DEF Filling
<1>8. ASSUME NEW i \in 3..9, NEW q, EthernetFields[i + 1] = ReadEthernet[i],
             ReadEthernet[i].pars = << q >>, ReadEthernet[i].kind \in {"float", "char"}, IsPresent(c, q)
      PROVE  ReadWith(object, ReadEthernet, i) = Read(c, q)
  <2>1. i + 1 \in 1..10 /\ 10 \in Nat
    OBVIOUS
  <2>2. "float" \in PlainKinds /\ "char" \in PlainKinds
    BY DEF PlainKinds
  <2>3. /\ WrittenField(EthernetFields[i + 1], c).val = Read(c, q)
        /\ WrittenField(EthernetFields[i + 1], c).kind = ReadEthernet[i].kind
    BY <1>8, <2>2, PlainEncoded
  <2>4. BytesOf(SubSeq(object.fields, 1, (i + 1) - 1)) = BytesOf(SubSeq(ReadEthernet, 1, i - 1))
    BY <1>4, <1>5, EthernetOffsets
  <2>5. object.fields[i + 1].width = ReadEthernet[i].width
    BY <1>5, <1>8, <2>1
  <2>6. object.fields[i + 1].kind = ReadEthernet[i].kind /\ object.fields[i + 1].val = Read(c, q)
    BY <1>4, <2>1, <2>3
  <2>7. ReadEthernet[i].kind # "given"
    BY <1>8
  <2> QED BY <1>7, <2>1, <2>4, <2>5, <2>6, <2>7, ReadAtOffset
<1>9. /\ Ethernet = {"ETHERNET_SW_GRANUALITY", "ETHERNET_INDEX", "ETHERNET_PROFILE",
                     "ETHERNET_CIR", "ETHERNET_CBS", "ETHERNET_EIR", "ETHERNET_EBS"}
      /\ EthernetBandwidth = {"ETHERNET_CIR", "ETHERNET_CBS", "ETHERNET_EIR", "ETHERNET_EBS"}
  BY DEF Ethernet, EthernetLink, EthernetBandwidth
<1>10. DOMAIN T = EtherPars(c) /\ \A q \in DOMAIN T : T[q] = {Read(c, q)}
  BY DEF EthernetSaid
<1> HIDE DEF T
<1>20. ASSUME Read(c, "ETHERNET_SW_GRANUALITY") \in 0..127
       PROVE  ReadWith(object, ReadEthernet, 1) = Read(c, "ETHERNET_SW_GRANUALITY")
  <2>1. IsPresent(c, "ETHERNET_SW_GRANUALITY") /\ 1 \in 1..10 /\ 10 \in Nat
    BY <1>9
  <2>2. /\ object.fields[1].val = Read(c, "ETHERNET_SW_GRANUALITY")
        /\ object.fields[1].kind = "short"
    BY <1>4, <1>20, <2>1, GranularityWritten
  <2>3. ReadEthernet[1].kind = "short" /\ ReadEthernet[1].width = 2
    BY EthernetReads DEF Short, Field
  <2>4. object.fields[1].width = 2
    BY <1>5, <2>1, EthernetWritten
  <2>5. "short" # "given" /\ 10 \in Nat \ {0}
    OBVIOUS
  <2> QED BY <1>7, <2>2, <2>3, <2>4, <2>5, ReadFirst
<1>11. /\ Single(ReadEthernet[1], "ETHERNET_SW_GRANUALITY") /\ ReadEthernet[2].kind = "pad"
       /\ Single(ReadEthernet[3], "ETHERNET_PROFILE") /\ Single(ReadEthernet[4], "ETHERNET_INDEX")
       /\ ReadEthernet[5].kind = "pad"
       /\ Single(ReadEthernet[6], "ETHERNET_CIR") /\ Single(ReadEthernet[7], "ETHERNET_CBS")
       /\ Single(ReadEthernet[8], "ETHERNET_EIR") /\ Single(ReadEthernet[9], "ETHERNET_EBS")
       /\ ReadEthernet[2].pars = << >> /\ ReadEthernet[5].pars = << >>
  BY <1>9, EthernetReads, EthernetSlots
<1>12. /\ ReadWith(object, ReadEthernet, 3) = Read(c, "ETHERNET_PROFILE")
       /\ ReadWith(object, ReadEthernet, 4) = Read(c, "ETHERNET_INDEX")
       /\ ReadWith(object, ReadEthernet, 6) = Read(c, "ETHERNET_CIR")
       /\ ReadWith(object, ReadEthernet, 7) = Read(c, "ETHERNET_CBS")
       /\ ReadWith(object, ReadEthernet, 8) = Read(c, "ETHERNET_EIR")
       /\ ReadWith(object, ReadEthernet, 9) = Read(c, "ETHERNET_EBS")
  <2>1. /\ IsPresent(c, "ETHERNET_PROFILE") /\ IsPresent(c, "ETHERNET_INDEX")
        /\ IsPresent(c, "ETHERNET_CIR") /\ IsPresent(c, "ETHERNET_CBS")
        /\ IsPresent(c, "ETHERNET_EIR") /\ IsPresent(c, "ETHERNET_EBS")
    BY <1>9
  <2>2. /\ 3 \in 3..9 /\ 4 \in 3..9 /\ 6 \in 3..9 /\ 7 \in 3..9 /\ 8 \in 3..9 /\ 9 \in 3..9
        /\ 3 + 1 = 4 /\ 4 + 1 = 5 /\ 6 + 1 = 7 /\ 7 + 1 = 8 /\ 8 + 1 = 9 /\ 9 + 1 = 10
    OBVIOUS
  <2>3. ReadWith(object, ReadEthernet, 3) = Read(c, "ETHERNET_PROFILE")
    BY <1>8, <1>9, <2>1, <2>2, EthernetReads, EthernetWritten, EthernetSlots
  <2>4. ReadWith(object, ReadEthernet, 4) = Read(c, "ETHERNET_INDEX")
    BY <1>8, <1>9, <2>1, <2>2, EthernetReads, EthernetWritten, EthernetSlots
  <2>5. ReadWith(object, ReadEthernet, 6) = Read(c, "ETHERNET_CIR")
    BY <1>8, <1>9, <2>1, <2>2, EthernetReads, EthernetWritten, EthernetSlots
  <2>6. ReadWith(object, ReadEthernet, 7) = Read(c, "ETHERNET_CBS")
    BY <1>8, <1>9, <2>1, <2>2, EthernetReads, EthernetWritten, EthernetSlots
  <2>7. ReadWith(object, ReadEthernet, 8) = Read(c, "ETHERNET_EIR")
    BY <1>8, <1>9, <2>1, <2>2, EthernetReads, EthernetWritten, EthernetSlots
  <2>8. ReadWith(object, ReadEthernet, 9) = Read(c, "ETHERNET_EBS")
    BY <1>8, <1>9, <2>1, <2>2, EthernetReads, EthernetWritten, EthernetSlots
  <2> QED BY <2>3, <2>4, <2>5, <2>6, <2>7, <2>8
<1>13. \A i \in 1..9 : i = 1 \/ i = 2 \/ i = 3 \/ i = 4 \/ i = 5 \/ i = 6 \/ i = 7 \/ i = 8 \/ i = 9
  OBVIOUS
<1>14. \A i \in 1..9 : ReadEthernet[i].kind = "pad" \/ (\E p \in Ethernet : Single(ReadEthernet[i], p))
                                                   \/ FlagsOf(ReadEthernet[i], {})
  BY <1>9, <1>11, <1>13
<1>15. /\ \A p : Carries(ReadEthernet[1], p) => p = "ETHERNET_SW_GRANUALITY"
       /\ \A p : ~ Carries(ReadEthernet[2], p)
       /\ \A p : Carries(ReadEthernet[3], p) => p = "ETHERNET_PROFILE"
       /\ \A p : Carries(ReadEthernet[4], p) => p = "ETHERNET_INDEX"
       /\ \A p : ~ Carries(ReadEthernet[5], p)
       /\ \A p : Carries(ReadEthernet[6], p) => p = "ETHERNET_CIR"
       /\ \A p : Carries(ReadEthernet[7], p) => p = "ETHERNET_CBS"
       /\ \A p : Carries(ReadEthernet[8], p) => p = "ETHERNET_EIR"
       /\ \A p : Carries(ReadEthernet[9], p) => p = "ETHERNET_EBS"
  <2>1. \A f, p : f.pars = << >> => ~ Carries(f, p)
    <3>1. Len(<< >>) = 0
      OBVIOUS
    <3> QED BY <3>1 DEF Carries
  <2> QED BY <1>11, <2>1, OneCarried
<1>16. \A i \in 1..9, j \in 1..9, p \in Parameters :
         Carries(ReadEthernet[i], p) /\ Carries(ReadEthernet[j], p) => i = j
  BY <1>13, <1>15
<1>17. \A q \in Ethernet : \E i \in 1..9 : /\ Single(ReadEthernet[i], q)
                                           /\ q \in DOMAIN T => ReadWith(object, ReadEthernet, i) \in T[q]
  <2>1. /\ "ETHERNET_SW_GRANUALITY" \in DOMAIN T => Read(c, "ETHERNET_SW_GRANUALITY") \in 0..127
        /\ \A q \in DOMAIN T : T[q] = {Read(c, q)}
    BY <1>10 DEF EtherPars
  <2>2. \A i \in 1..9 : \A q : Single(ReadEthernet[i], q) /\ ReadWith(object, ReadEthernet, i) = Read(c, q)
          => (q \in DOMAIN T => ReadWith(object, ReadEthernet, i) \in T[q])
    BY <2>1
  <2>3. "ETHERNET_SW_GRANUALITY" \in DOMAIN T
          => ReadWith(object, ReadEthernet, 1) \in T["ETHERNET_SW_GRANUALITY"]
    BY <1>20, <2>1
  <2>4. /\ 1 \in 1..9 /\ 3 \in 1..9 /\ 4 \in 1..9 /\ 6 \in 1..9 /\ 7 \in 1..9 /\ 8 \in 1..9
        /\ 9 \in 1..9
    OBVIOUS
  <2> QED BY ONLY <1>9, <1>11, <1>12, <2>2, <2>3, <2>4
<1>18. 9 \in 1..Len(ReadEthernet)
  BY EthernetReads
<1>19. GroupUpTo(object, Ethernet, {}, T, 9)
  BY <1>3, <1>14, <1>16, <1>17, <1>18 DEF GroupUpTo
<1> QED BY <1>19 DEF Grouped, object, body, T

-----------------------------------------------------------------------------
(* The calls of add_object.                                                *)

Calls(f, c, list) ==
  f = [s \in SUBSET DOMAIN list |->
         IF s = {} THEN << >>
         ELSE add_object(f[s \ {Max(s)}], c, list[Max(s)])]

(* The recursive definition of the fold has a solution. *)
LEMMA CallsExist ==
  ASSUME NEW c, NEW list, NEW N \in Nat, DOMAIN list = 1..N
  PROVE  \E f : Calls(f, c, list)
<1> DEFINE Sol(g, n) ==
      g = [s \in SUBSET (1..n) |->
             IF s = {} THEN << >>
             ELSE add_object(g[s \ {Max(s)}], c, list[Max(s)])]
           T == {n \in Nat : \E g : Sol(g, n)}
<1>1. 0 \in T
  <2> DEFINE g == [s \in {{}} |-> << >>]
  <2>1. SUBSET (1..0) = {{}}
    OBVIOUS
  <2>2. Sol(g, 0)
    BY <2>1
  <2> QED BY <2>2
<1>2. ASSUME NEW n \in Nat, n \in T PROVE n + 1 \in T
  <2>1. PICK g : Sol(g, n)
    BY <1>2
  <2> DEFINE h == [s \in SUBSET (1..(n + 1)) |->
                     IF n + 1 \in s
                     THEN add_object(g[s \ {n + 1}], c, list[n + 1])
                     ELSE g[s]]
  <2>2. \A s \in SUBSET (1..n) : s \in SUBSET (1..(n + 1)) /\ n + 1 \notin s /\ h[s] = g[s]
    OBVIOUS
  <2>3. ASSUME NEW s \in SUBSET (1..(n + 1))
        PROVE  h[s] = IF s = {} THEN << >>
                      ELSE add_object(h[s \ {Max(s)}], c, list[Max(s)])
    <3>1. CASE n + 1 \in s
      <4>1. Max(s) = n + 1
        BY <3>1, LargestOfInitial
      <4>2. s \ {n + 1} \in SUBSET (1..n)
        OBVIOUS
      <4>3. h[s \ {n + 1}] = g[s \ {n + 1}]
        BY <2>2, <4>2
      <4>4. h[s] = add_object(g[s \ {n + 1}], c, list[n + 1])
        BY <3>1
      <4> HIDE DEF h
      <4> QED BY <3>1, <4>1, <4>3, <4>4
    <3>2. CASE n + 1 \notin s
      <4>1. s \in SUBSET (1..n)
        BY <3>2
      <4>2. h[s] = g[s]
        BY <2>2, <4>1
      <4>3. g[s] = IF s = {} THEN << >>
                   ELSE add_object(g[s \ {Max(s)}], c, list[Max(s)])
        BY <2>1, <4>1
      <4>4. s # {} => s \ {Max(s)} \in SUBSET (1..n)
        BY <4>1
      <4>5. s # {} => h[s \ {Max(s)}] = g[s \ {Max(s)}]
        BY <2>2, <4>4
      <4> HIDE DEF h
      <4> QED BY <4>2, <4>3, <4>5
    <3> QED BY <3>1, <3>2
  <2>4. h = [s \in SUBSET (1..(n + 1)) |-> h[s]]
    OBVIOUS
  <2>5. Sol(h, n + 1)
    <3> HIDE DEF h
    <3> QED BY <2>3, <2>4
  <2> HIDE DEF h, Sol
  <2> QED BY <2>5
<1>3. N \in T
  <2>1. 0..N \subseteq T
    <3> HIDE DEF T
    <3> QED BY <1>1, <1>2, UpTo
  <2> HIDE DEF T
  <2> QED BY <2>1
<1>4. \E f : Sol(f, N)
  <2> HIDE DEF Sol
  <2> QED BY <1>3
<1> QED BY <1>4 DEF Calls

(* The objects after n calls: none at first, then those add_object makes.  *)
(* The objects after n calls: none at first, then those add_object makes.  *)
ObjectsInTurn(c, list, N) ==
  \E f : /\ f[0] = << >>
         /\ \A n \in 0..(N - 1) : f[n + 1] = add_object(f[n], c, list[n + 1])
         /\ add_objects(<< >>, c, list) = f[N]

LEMMA CallsInTurn ==
  ASSUME NEW c, NEW list, NEW N \in Nat, DOMAIN list = 1..N
  PROVE  ObjectsInTurn(c, list, N)
<1>1. PICK g : Calls(g, c, list) /\ add_objects(<< >>, c, list) = g[DOMAIN list]
  <2>0. \E h : Calls(h, c, list)
    BY CallsExist
  <2>1. \E h : h = [s \in SUBSET DOMAIN list |->
                     IF s = {} THEN << >>
                     ELSE add_object(h[s \ {Max(s)}], c, list[Max(s)])]
    BY <2>0 DEF Calls
  <2> QED BY <2>1 DEF Calls, add_objects, FoldLeft, MapThenFoldSet
<1> DEFINE f == [n \in 0..N |-> g[1..n]]
<1>2. f[0] = << >>
  <2>1. 1..0 = {} /\ {} \in SUBSET DOMAIN list
    OBVIOUS
  <2>2. g[{}] = << >>
    BY <1>1, <2>1 DEF Calls
  <2> QED BY <2>1, <2>2
<1>3. ASSUME NEW n \in 0..(N - 1)
      PROVE  f[n + 1] = add_object(f[n], c, list[n + 1])
  <2>1. /\ 1..(n + 1) \in SUBSET DOMAIN list
        /\ 1..(n + 1) # {} /\ (1..(n + 1)) \ {n + 1} = 1..n
    OBVIOUS
  <2>2. Max(1..(n + 1)) = n + 1
    BY LargestOfInitial
  <2>3. g[1..(n + 1)] = add_object(g[1..n], c, list[n + 1])
    BY <1>1, <2>1, <2>2 DEF Calls
  <2> QED BY <2>3
<1>4. add_objects(<< >>, c, list) = f[N]
  BY <1>1
<1> QED
  <2> HIDE DEF f
  <2> QED BY <1>2, <1>3, <1>4 DEF ObjectsInTurn

-----------------------------------------------------------------------------
(* The order of the objects.                                               *)

InOrder(objs) ==
  \A i, j \in DOMAIN objs : i < j => get_object_order[objs[i]] <= get_object_order[objs[j]]

LEMMA OrderType == get_object_order \in [Classes -> Int]
<1> SUFFICES ASSUME NEW class \in Classes
             PROVE  get_object_order[class] \in Int
  <2>1. get_object_order = [x \in Classes |-> get_object_order[x]]
    BY DEF get_object_order
  <2> QED BY <2>1
<1> DEFINE I == {i \in 1..Len(add_order) : add_order[i] = class}
           n == IF I # {} THEN Min(I) ELSE 0
<1>1. Len(add_order) \in Nat
  BY DEF add_order
<1>2. n \in Int
  <2>1. I \in SUBSET (1..Len(add_order)) /\ (I # {} => Min(I) \in I)
    BY <1>1, LeastPosition
  <2>2. Min(I) \in 1..Len(add_order) \/ I = {}
    BY <2>1
  <2> HIDE DEF I
  <2> QED BY <1>1, <2>2
<1>3. get_object_order[class] = IF n <= NUM_OBJECTS THEN n ELSE MAX_OBJECTS + NUM_OBJECTS
  BY DEF get_object_order, SelectInSeq
<1> HIDE DEF n
<1> QED BY <1>2, <1>3 DEF MAX_OBJECTS, NUM_OBJECTS
(* Where the elements are after one is put in at pos. *)
Inserted(all, objs, pos, class) ==
  /\ all \in Seq(Classes) /\ Len(all) = Len(objs) + 1
  /\ \A i \in 1..(Len(objs) + 1) :
       all[i] = IF i < pos THEN objs[i] ELSE IF i = pos THEN class ELSE objs[i - 1]

LEMMA InsertedAt ==
  ASSUME NEW objs \in Seq(Classes), NEW class \in Classes, NEW pos \in 1..(Len(objs) + 1)
  PROVE  Inserted(InsertAt(objs, pos, class), objs, pos, class)
<1> DEFINE all == InsertAt(objs, pos, class)
<1> DEFINE a == SubSeq(objs, 1, pos - 1)
           b == SubSeq(objs, pos, Len(objs))
<1>1. /\ a \in Seq(Classes) /\ Len(a) = pos - 1
      /\ \A i \in 1..(pos - 1) : a[i] = objs[i]
  OBVIOUS
<1>2. /\ b \in Seq(Classes) /\ Len(b) = Len(objs) - pos + 1
      /\ \A i \in 1..(Len(objs) - pos + 1) : b[i] = objs[pos + i - 1]
  OBVIOUS
<1>3. all = a \o << class >> \o b
  BY DEF InsertAt
<1> HIDE DEF a, b, all
<1> DEFINE ac == a \o << class >>
<1>4. /\ ac \in Seq(Classes) /\ Len(ac) = pos
      /\ \A i \in 1..pos : ac[i] = IF i < pos THEN objs[i] ELSE class
  BY <1>1
<1>a. all = ac \o b
  BY <1>3
<1> HIDE DEF ac
<1>5. all \in Seq(Classes) /\ Len(all) = Len(objs) + 1
  <2>0. ac \in Seq(Classes) /\ b \in Seq(Classes)
    BY <1>2, <1>4
  <2>1. ac \o b \in Seq(Classes)
    BY <2>0
  <2>a. Len(ac \o b) = Len(ac) + Len(b)
    BY <2>0
  <2>2. Len(ac) = pos /\ Len(b) = Len(objs) - pos + 1
    BY <1>2, <1>4
  <2>3. Len(objs) \in Nat /\ pos \in Nat
    OBVIOUS
  <2>4. Len(ac) + Len(b) = Len(objs) + 1
    BY <2>2, <2>3
  <2> QED BY <1>a, <2>1, <2>a, <2>4
<1>6. ASSUME NEW i \in 1..(Len(objs) + 1)
      PROVE  all[i] = IF i < pos THEN objs[i] ELSE IF i = pos THEN class ELSE objs[i - 1]
  <2>1. CASE i <= pos
    BY <1>2, <1>a, <1>4, <2>1
  <2>2. CASE i > pos
    <3>1. i - pos \in 1..(Len(objs) - pos + 1) /\ pos + (i - pos) - 1 = i - 1
      BY <2>2
    <3>2. all[i] = b[i - pos]
      <4> DEFINE j == i - pos
      <4>1. j \in 1..Len(b) /\ Len(ac) + j = i
        BY <1>2, <1>4, <3>1
      <4> HIDE DEF j
      <4>2. (ac \o b)[Len(ac) + j] = b[j]
        BY <1>2, <1>4, <4>1, Joined
      <4>3. all[i] = b[j]
        BY <1>a, <4>1, <4>2
      <4> QED BY <4>3 DEF j
    <3> QED BY <1>2, <2>2, <3>1, <3>2
  <2> QED BY <2>1, <2>2
<1> QED BY <1>5, <1>6 DEF all, Inserted

(* An element put in front of the first that is not lower leaves the rest  *)
(* in order.                                                               *)
LEMMA InsertedInOrder ==
  ASSUME NEW objs \in Seq(Classes), InOrder(objs), NEW class \in Classes,
         NEW pos \in 1..(Len(objs) + 1),
         \A i \in 1..(pos - 1) : get_object_order[objs[i]] <= get_object_order[class],
         pos <= Len(objs) => get_object_order[class] <= get_object_order[objs[pos]]
  PROVE  LET all == InsertAt(objs, pos, class)
         IN  all \in Seq(Classes) /\ Len(all) = Len(objs) + 1 /\ InOrder(all)
<1> DEFINE all == InsertAt(objs, pos, class)
           ord(x) == get_object_order[x]
<1>1. /\ all \in Seq(Classes) /\ Len(all) = Len(objs) + 1
      /\ \A i \in 1..(Len(objs) + 1) :
           all[i] = IF i < pos THEN objs[i] ELSE IF i = pos THEN class ELSE objs[i - 1]
  BY InsertedAt DEF Inserted
<1>2. DOMAIN all = 1..(Len(objs) + 1) /\ DOMAIN objs = 1..Len(objs)
  <2> HIDE DEF all
  <2> QED BY <1>1
<1>3. /\ ord(class) \in Int
      /\ \A i \in 1..Len(objs) : ord(objs[i]) \in Int
  BY OrderType
<1>4. \A i \in pos..Len(objs) : ord(class) <= ord(objs[i])
  <2> TAKE i \in pos..Len(objs)
  <2>1. i \in DOMAIN objs /\ pos \in DOMAIN objs /\ ord(class) <= ord(objs[pos])
    BY <1>2
  <2>2. ord(objs[pos]) <= ord(objs[i])
    BY <1>3, <2>1 DEF InOrder
  <2> QED BY <1>3, <2>1, <2>2
<1> HIDE DEF all
<1>5. ASSUME NEW i \in 1..(Len(objs) + 1), NEW j \in 1..(Len(objs) + 1), i < j
      PROVE  ord(all[i]) <= ord(all[j])
  <2>1. CASE j < pos
    BY <1>1, <1>2, <1>5, <2>1 DEF InOrder
  <2>2. CASE j = pos
    BY <1>1, <1>5, <2>2
  <2>3. CASE j > pos /\ i < pos
    <3>1. j - 1 \in pos..Len(objs) /\ i \in 1..(pos - 1)
      BY <2>3
    <3>2. all[i] = objs[i] /\ all[j] = objs[j - 1]
      BY <1>1, <2>3
    <3>3. ord(objs[i]) <= ord(class) /\ ord(class) <= ord(objs[j - 1])
      BY <1>4, <3>1
    <3>4. ord(objs[i]) \in Int /\ ord(objs[j - 1]) \in Int
      BY <1>3, <3>1
    <3> QED BY <1>3, <3>2, <3>3, <3>4
  <2>4. CASE j > pos /\ i = pos
    <3>1. j - 1 \in pos..Len(objs) /\ all[i] = class /\ all[j] = objs[j - 1]
      BY <1>1, <2>4
    <3> QED BY <1>4, <3>1
  <2>5. CASE j > pos /\ i > pos
    <3>1. i - 1 \in DOMAIN objs /\ j - 1 \in DOMAIN objs /\ i - 1 < j - 1
      BY <1>2, <1>5, <2>5
    <3>2. all[i] = objs[i - 1] /\ all[j] = objs[j - 1]
      BY <1>1, <2>5
    <3> QED BY <3>1, <3>2 DEF InOrder
  <2> QED BY <2>1, <2>2, <2>3, <2>4, <2>5
<1>6. InOrder(all)
  BY <1>2, <1>5 DEF InOrder
<1> QED BY <1>1, <1>6 DEF all

(* What the array of MAX_OBJECTS objects cuts off leaves the rest in order.*)
LEMMA MovedInOrder ==
  ASSUME NEW all \in Seq(Classes), InOrder(all)
  PROVE  MovedDown(all) \in Seq(Classes) /\ InOrder(MovedDown(all))
<1> DEFINE n == IF Len(all) < MAX_OBJECTS THEN Len(all) ELSE MAX_OBJECTS - 1
<1>1. n \in 0..Len(all)
  BY DEF MAX_OBJECTS
<1>2. MovedDown(all) = SubSeq(all, 1, n)
  BY DEF MovedDown
<1> HIDE DEF n
<1>3. /\ SubSeq(all, 1, n) \in Seq(Classes) /\ DOMAIN SubSeq(all, 1, n) = 1..n
      /\ \A i \in 1..n : SubSeq(all, 1, n)[i] = all[i] /\ i \in DOMAIN all
  BY <1>1
<1> QED BY <1>2, <1>3 DEF InOrder

(* add_object keeps the objects in order. *)
LEMMA AddedInOrder ==
  ASSUME NEW objs \in Seq(Classes), InOrder(objs), NEW c, NEW class \in Classes
  PROVE  add_object(objs, c, class) \in Seq(Classes) /\ InOrder(add_object(objs, c, class))
<1> DEFINE I == {i \in 1..Len(objs) : get_object_order[class] <= get_object_order[objs[i]]}
           at == IF I # {} THEN Min(I) ELSE 0
           pos == IF at = 0 THEN Len(objs) + 1 ELSE at
<1>1. I # {} => Min(I) \in I /\ \A k \in I : Min(I) <= k
  <2>1. I \in SUBSET (1..Len(objs)) /\ Len(objs) \in Nat
    OBVIOUS
  <2> HIDE DEF I
  <2> QED BY <2>1, LeastPosition
<1>2. pos \in 1..(Len(objs) + 1)
  BY <1>1
<1>3. pos <= Len(objs) => get_object_order[class] <= get_object_order[objs[pos]]
  <2>1. pos <= Len(objs) => pos \in I
    BY <1>1
  <2> QED BY <2>1
<1>4. ASSUME NEW i \in 1..(pos - 1)
      PROVE  get_object_order[objs[i]] <= get_object_order[class]
  <2>1. i \in 1..Len(objs) /\ i < pos
    BY <1>2
  <2>2. i \notin I
    <3> SUFFICES ASSUME i \in I PROVE FALSE
      OBVIOUS
    <3>1. pos = Min(I) /\ Min(I) \in 1..Len(objs) /\ Min(I) <= i
      BY <1>1
    <3> QED BY <2>1, <3>1
  <2>3. get_object_order[class] \in Int /\ get_object_order[objs[i]] \in Int
    BY <2>1, OrderType
  <2> QED BY <2>1, <2>2, <2>3
<1>5. add_object(objs, c, class) = IF ~ check_addable(class, c) THEN objs
                                   ELSE MovedDown(InsertAt(objs, pos, class))
  BY DEF add_object, SelectInSeq
<1> HIDE DEF pos
<1>6. InsertAt(objs, pos, class) \in Seq(Classes) /\ InOrder(InsertAt(objs, pos, class))
  BY <1>2, <1>3, <1>4, InsertedInOrder
<1> QED BY <1>5, <1>6, MovedInOrder

(* The objects of a message are in order, for every store and every list   *)
Occurs(x, s) == \E i \in DOMAIN s : s[i] = x

(* What add_object leaves: what was there, and the class if the store has  *)
(* what it needs.                                                          *)
AddedTo(new, objs, c, class) ==
  /\ Len(new) <= Len(objs) + 1
  /\ \A i \in DOMAIN new :
       Occurs(new[i], objs) \/ (new[i] = class /\ check_addable(class, c))
  /\ Len(objs) + 1 < MAX_OBJECTS =>
       /\ \A i \in DOMAIN objs : Occurs(objs[i], new)
       /\ check_addable(class, c) => Occurs(class, new)

LEMMA InsertedHas ==
  ASSUME NEW objs \in Seq(Classes), NEW class \in Classes, NEW pos \in 1..(Len(objs) + 1)
  PROVE  LET all == InsertAt(objs, pos, class)
         IN  /\ \A i \in DOMAIN all : Occurs(all[i], objs) \/ all[i] = class
             /\ \A i \in DOMAIN objs : Occurs(objs[i], all)
             /\ Occurs(class, all)
<1> DEFINE all == InsertAt(objs, pos, class)
<1>1. /\ all \in Seq(Classes) /\ Len(all) = Len(objs) + 1
      /\ \A i \in 1..(Len(objs) + 1) :
           all[i] = IF i < pos THEN objs[i] ELSE IF i = pos THEN class ELSE objs[i - 1]
  <2>1. Inserted(all, objs, pos, class)
    BY InsertedAt
  <2> HIDE DEF all
  <2> QED BY <2>1 DEF Inserted
<1>2. DOMAIN all = 1..(Len(objs) + 1) /\ DOMAIN objs = 1..Len(objs) /\ Len(objs) \in Nat
  <2> HIDE DEF all
  <2> QED BY <1>1
<1> HIDE DEF all
<1>3. ASSUME NEW i \in DOMAIN all PROVE Occurs(all[i], objs) \/ all[i] = class
  <2>1. CASE i < pos
    <3>1. i \in DOMAIN objs /\ all[i] = objs[i]
      BY <1>1, <1>2, <2>1
    <3> QED BY <3>1 DEF Occurs
  <2>2. CASE i = pos
    BY <1>1, <1>2, <2>2
  <2>3. CASE i > pos
    <3>1. i - 1 \in DOMAIN objs /\ all[i] = objs[i - 1]
      BY <1>1, <1>2, <2>3
    <3> QED BY <3>1 DEF Occurs
  <2> QED BY <1>2, <2>1, <2>2, <2>3
<1>4. ASSUME NEW i \in DOMAIN objs PROVE Occurs(objs[i], all)
  <2>1. CASE i < pos
    <3>1. i \in DOMAIN all /\ all[i] = objs[i]
      BY <1>1, <1>2, <2>1
    <3> QED BY <3>1 DEF Occurs
  <2>2. CASE i >= pos
    <3>1. i + 1 \in DOMAIN all /\ all[i + 1] = objs[i]
      BY <1>1, <1>2, <2>2
    <3> QED BY <3>1 DEF Occurs
  <2> QED BY <1>2, <2>1, <2>2
<1>5. Occurs(class, all)
  <2>1. pos \in DOMAIN all /\ all[pos] = class
    BY <1>1, <1>2
  <2> QED BY <2>1 DEF Occurs
<1> QED BY <1>3, <1>4, <1>5 DEF all

LEMMA Inserts ==
  ASSUME NEW objs \in Seq(Classes), NEW c, NEW class \in Classes
  PROVE  \E pos \in 1..(Len(objs) + 1) :
           add_object(objs, c, class) = IF ~ check_addable(class, c) THEN objs
                                        ELSE MovedDown(InsertAt(objs, pos, class))
<1> DEFINE I == {i \in 1..Len(objs) : get_object_order[class] <= get_object_order[objs[i]]}
           at == IF I # {} THEN Min(I) ELSE 0
           pos == IF at = 0 THEN Len(objs) + 1 ELSE at
<1>1. I # {} => Min(I) \in I
  <2>1. I \in SUBSET (1..Len(objs)) /\ Len(objs) \in Nat
    OBVIOUS
  <2> HIDE DEF I
  <2> QED BY <2>1, LeastPosition
<1>2. pos \in 1..(Len(objs) + 1)
  BY <1>1
<1>3. add_object(objs, c, class) = IF ~ check_addable(class, c) THEN objs
                                   ELSE MovedDown(InsertAt(objs, pos, class))
  BY DEF add_object, SelectInSeq
<1> HIDE DEF pos
<1> QED BY <1>2, <1>3

LEMMA AddedHas ==
  ASSUME NEW objs \in Seq(Classes), NEW c, NEW class \in Classes
  PROVE  AddedTo(add_object(objs, c, class), objs, c, class)
<1> DEFINE new == add_object(objs, c, class)
<1>1. PICK pos \in 1..(Len(objs) + 1) :
        new = IF ~ check_addable(class, c) THEN objs ELSE MovedDown(InsertAt(objs, pos, class))
  BY Inserts
<1>2. Len(objs) \in Nat /\ DOMAIN objs = 1..Len(objs)
  OBVIOUS
<1> HIDE DEF new
<1>3. CASE ~ check_addable(class, c)
  <2>1. new = objs
    BY <1>1, <1>3
  <2> QED BY <1>2, <1>3, <2>1 DEF AddedTo, Occurs, new
<1>4. CASE check_addable(class, c)
  <2> DEFINE all == InsertAt(objs, pos, class)
             n == IF Len(all) < MAX_OBJECTS THEN Len(all) ELSE MAX_OBJECTS - 1
  <2>1. all \in Seq(Classes) /\ Len(all) = Len(objs) + 1
    BY InsertedAt DEF Inserted
  <2>2. /\ \A i \in DOMAIN all : Occurs(all[i], objs) \/ all[i] = class
        /\ \A i \in DOMAIN objs : Occurs(objs[i], all)
        /\ Occurs(class, all)
    BY InsertedHas
  <2>3. new = MovedDown(all)
    BY <1>1, <1>4
  <2> HIDE DEF all
  <2>4. n \in 0..Len(all) /\ (Len(objs) + 1 < MAX_OBJECTS => n = Len(all))
    BY <1>2, <2>1 DEF MAX_OBJECTS
  <2>5. new = SubSeq(all, 1, n)
    BY <2>3 DEF MovedDown
  <2> HIDE DEF n
  <2>6. /\ DOMAIN new = 1..n /\ Len(new) = n /\ DOMAIN all = 1..Len(all)
        /\ \A i \in 1..n : new[i] = all[i] /\ i \in DOMAIN all
    BY <2>1, <2>4, <2>5
  <2>7. Len(new) <= Len(objs) + 1
    BY <1>2, <2>1, <2>4, <2>6
  <2>8. \A i \in DOMAIN new : Occurs(new[i], objs) \/ new[i] = class
    BY <2>2, <2>6
  <2>9. ASSUME Len(objs) + 1 < MAX_OBJECTS
        PROVE  (\A i \in DOMAIN objs : Occurs(objs[i], new)) /\ Occurs(class, new)
    <3>1. DOMAIN new = DOMAIN all /\ \A i \in DOMAIN all : new[i] = all[i]
      BY <2>4, <2>6, <2>9
    <3> QED BY <2>2, <3>1 DEF Occurs
  <2> QED BY <1>4, <2>7, <2>8, <2>9 DEF AddedTo, new
<1> QED BY <1>3, <1>4

(* Every object of a message is one that was asked for and has what it     *)
(* needs; while there is room, every such object is there; and they are in *)
(* order, for every store and every list of classes, of whatever length.   *)
Fitting(objs, c, list) ==
  /\ objs \in Seq(Classes) /\ InOrder(objs) /\ Addable(objs, c)
  /\ \A i \in DOMAIN objs : Occurs(objs[i], list)
  /\ Len(list) < MAX_OBJECTS =>
       \A k \in DOMAIN list : check_addable(list[k], c) => Occurs(list[k], objs)

SoFar(objs, c, list, n) ==
  /\ objs \in Seq(Classes) /\ InOrder(objs) /\ Addable(objs, c) /\ Len(objs) <= n
  /\ \A i \in DOMAIN objs : Occurs(objs[i], list)
  /\ Len(list) < MAX_OBJECTS =>
       \A k \in 1..n : check_addable(list[k], c) => Occurs(list[k], objs)

LEMMA OneMore ==
  ASSUME NEW c, NEW list \in Seq(Classes), NEW n \in 0..(Len(list) - 1), NEW objs,
         SoFar(objs, c, list, n)
  PROVE  SoFar(add_object(objs, c, list[n + 1]), c, list, n + 1)
<1> DEFINE new == add_object(objs, c, list[n + 1])
           class == list[n + 1]
<1>1. n \in Nat /\ n + 1 \in DOMAIN list /\ list[n + 1] \in Classes /\ n + 1 <= Len(list)
  OBVIOUS
<1>2. objs \in Seq(Classes) /\ InOrder(objs) /\ Addable(objs, c) /\ Len(objs) <= n
  BY DEF SoFar
<1>3. new \in Seq(Classes) /\ InOrder(new)
  BY <1>1, <1>2, AddedInOrder
<1>4. AddedTo(new, objs, c, class)
  BY <1>1, <1>2, AddedHas
<1>5. Occurs(class, list)
  BY <1>1 DEF Occurs
<1> HIDE DEF new, class
<1>6. Len(new) <= n + 1
  <2>1. Len(objs) \in Nat /\ Len(new) \in Nat
    BY <1>2, <1>3
  <2> QED BY <1>1, <1>2, <1>4, <2>1 DEF AddedTo
<1>7. \A i \in DOMAIN new : Occurs(new[i], list) /\ check_addable(new[i], c)
  <2> TAKE i \in DOMAIN new
  <2>1. CASE Occurs(new[i], objs)
    <3>1. PICK j \in DOMAIN objs : objs[j] = new[i]
      BY <2>1 DEF Occurs
    <3>2. Occurs(objs[j], list) /\ check_addable(objs[j], c)
      BY <1>2 DEF SoFar, Addable
    <3> QED BY <3>1, <3>2
  <2>2. CASE new[i] = class /\ check_addable(class, c)
    BY <1>5, <2>2
  <2> QED BY <1>4, <2>1, <2>2 DEF AddedTo
<1>8. ASSUME Len(list) < MAX_OBJECTS, NEW k \in 1..(n + 1), check_addable(list[k], c)
      PROVE  Occurs(list[k], new)
  <2>1. Len(objs) + 1 < MAX_OBJECTS
    BY <1>1, <1>2, <1>8 DEF MAX_OBJECTS
  <2>2. CASE k = n + 1
    BY <1>4, <1>8, <2>1, <2>2 DEF AddedTo, class
  <2>3. CASE k \in 1..n
    <3>1. Occurs(list[k], objs)
      BY <1>8, <2>3 DEF SoFar
    <3>2. PICK j \in DOMAIN objs : objs[j] = list[k]
      BY <3>1 DEF Occurs
    <3> QED BY <1>4, <2>1, <3>2 DEF AddedTo
  <2> QED BY <1>1, <2>2, <2>3
<1>9. Addable(new, c)
  BY <1>7 DEF Addable
<1> QED BY <1>3, <1>6, <1>7, <1>8, <1>9 DEF SoFar, new

THEOREM ObjectsAdded ==
  ASSUME NEW c, NEW list \in Seq(Classes)
  PROVE  Fitting(add_objects(<< >>, c, list), c, list)
<1> DEFINE N == Len(list)
<1>1. N \in Nat /\ DOMAIN list = 1..N
  OBVIOUS
<1>2. PICK f : /\ f[0] = << >>
               /\ \A n \in 0..(N - 1) : f[n + 1] = add_object(f[n], c, list[n + 1])
               /\ add_objects(<< >>, c, list) = f[N]
  <2> HIDE DEF N
  <2>1. ObjectsInTurn(c, list, N)
    BY <1>1, CallsInTurn
  <2> QED BY <2>1, Zenon DEF ObjectsInTurn
<1> DEFINE T == {n \in 0..N : SoFar(f[n], c, list, n)}
<1>3. 0 \in T
  <2>1. << >> \in Seq(Classes) /\ DOMAIN << >> = {} /\ Len(<< >>) = 0
    OBVIOUS
  <2>2. SoFar(<< >>, c, list, 0)
    BY <2>1 DEF SoFar, InOrder, Addable
  <2>3. 0 \in 0..N
    BY <1>1
  <2> QED BY <1>2, <2>2, <2>3
<1>4. ASSUME NEW n \in 0..(N - 1), n \in T PROVE n + 1 \in T
  <2>1. n + 1 \in 0..N /\ SoFar(f[n], c, list, n)
    BY <1>1, <1>4
  <2>2. SoFar(add_object(f[n], c, list[n + 1]), c, list, n + 1)
    BY <2>1, OneMore
  <2>3. SoFar(f[n + 1], c, list, n + 1)
    BY <1>2, <2>2
  <2> QED BY <2>1, <2>3
<1>5. N \in T
  <2>1. 0..N \subseteq T
    <3> HIDE DEF T
    <3> QED BY <1>1, <1>3, <1>4, UpTo
  <2> HIDE DEF T
  <2> QED BY <1>1, <2>1
<1>6. SoFar(f[N], c, list, N)
  BY <1>5
<1> QED BY <1>1, <1>2, <1>6 DEF SoFar, Fitting

-----------------------------------------------------------------------------
(* Stores a message can be made of.                                        *)

Usual == {"ADMIN_STATUS", "CALL_ID_0", "CALL_ID_1", "CALL_ID_2", "ERO", "ERROR_SPEC",
          "ETHERNET_SENDER_TSPEC", "FILTER_SPEC", "GENERALIZED_LABEL",
          "GENERALIZED_LABEL_REQUEST", "GENERALIZED_UNI", "GU_DESTINATION_TNA_ADDRESS",
          "GU_SERVICE_LEVEL", "GU_SOURCE_TNA_ADDRESS", "IPV4_IF_ID_RSVP_HOP",
          "IPV4_RSVP_HOP", "MESSAGE_ID", "MESSAGE_ID_ACK", "NOTIFY_REQUEST",
          "RESV_CONFIRM", "SENDER_TEMPLATE", "SESSION_ATTRIBUTE", "SESSION_IETF",
          "SESSION_OIF", "SONETSDH_FLOWSPEC", "SONETSDH_SENDER_TSPEC", "STYLE",
          "TIME_VALUES", "TOKEN_FLOWSPEC", "TOKEN_SENDER_TSPEC", "UPSTREAM_LABEL"}

Added == Usual \cup {"ETHERNET_FLOWSPEC"}

LEMMA AddedAreClasses ==
  Added \subseteq Classes /\ "SCOPE" \notin Added /\ "MESSAGE_ID_LIST" \notin Added
BY DEF Added, Usual, Classes, requirements

(* Where one flag of the style is there, one is 1: else the option vector  *)
(* of STYLE is not written.                                                *)
StyleFit(c) ==
  \/ \A p \in StyleFlags : c.data[p] = << >>
  \/ \E p \in StyleFlags : c.data[p] = << 1 >>

(* ETHERNET_FLOWSPEC is added for the bandwidth alone, but written with    *)
(* the link's parameters.                                                  *)
LinkFit(c) == EthernetBandwidth \subseteq Held(c) => EthernetLink \subseteq Held(c)

Fit(c) == Good(c) /\ StyleFit(c)

MessageFit(c, list) ==
  /\ Fit(c) /\ list \in Seq(Added)
  /\ Occurs("ETHERNET_FLOWSPEC", list) => LinkFit(c)

LEMMA StyleParameters ==
  ASSUME NEW p \in StyleFlags
  PROVE  p \in Parameters /\ p \notin PT_TAB
BY DEF StyleFlags, Parameters, PT_UC, PT_TAB

LEMMA StyleAddable ==
  ASSUME NEW c, Fit(c), check_addable("STYLE", c)
  PROVE  Styled(c)
<1>1. Good(c) /\ StyleFit(c)
  BY DEF Fit
<1>2. requirements["STYLE"] = StyleFlags /\ "STYLE" \in AnyOf
  BY DEF requirements, AnyOf
<1>3. PICK q \in StyleFlags : IsPresent(c, q)
  BY <1>2 DEF check_addable
<1>4. c.data[q] # << >>
  BY <1>1, <1>3, StyleParameters, GoodPresent
<1>5. PICK p \in StyleFlags : c.data[p] = << 1 >>
  BY <1>1, <1>4 DEF StyleFit
<1>6. p \in Parameters /\ p \notin PT_TAB
  BY StyleParameters
<1>7. IsPresent(c, p)
  BY <1>1, <1>5, <1>6, GoodPresent
<1>8. Read(c, p) = 1
  BY <1>5, <1>6 DEF Read, ReadAt
<1> QED BY <1>7, <1>8 DEF Styled, OnePresent

LEMMA SequenceIn ==
  ASSUME NEW S, NEW T, S \subseteq T, NEW s \in Seq(S)
  PROVE  s \in Seq(T) /\ \A k \in DOMAIN s : s[k] \in S
OBVIOUS

LEMMA ObjectsWritable ==
  ASSUME NEW c, NEW list, MessageFit(c, list), NEW objs, objs = add_objects(<< >>, c, list)
  PROVE  Fitting(objs, c, list) /\ AllWritable(objs, c)
<1>1. /\ Fit(c) /\ list \in Seq(Classes) /\ \A k \in DOMAIN list : list[k] \in Added
      /\ Occurs("ETHERNET_FLOWSPEC", list) => LinkFit(c)
  <2>1. list \in Seq(Added) /\ Added \subseteq Classes
    BY AddedAreClasses DEF MessageFit
  <2>2. list \in Seq(Classes) /\ \A k \in DOMAIN list : list[k] \in Added
    BY <2>1, SequenceIn
  <2> QED BY <2>2 DEF MessageFit
<1>2. Fitting(objs, c, list)
  BY <1>1, ObjectsAdded
<1>3. ASSUME NEW i \in DOMAIN objs, objs[i] \notin Subobjects
      PROVE  Writable(objs[i], c, objs)
  <2> DEFINE class == objs[i]
  <2>1. objs \in Seq(Classes) /\ Addable(objs, c) /\ Occurs(class, list)
    BY <1>2 DEF Fitting
  <2>2. class \in Added
    BY <1>1, <2>1 DEF Occurs
  <2>3. class \in Classes /\ class # "SCOPE" /\ class # "MESSAGE_ID_LIST"
    BY <2>2, AddedAreClasses
  <2>4. check_addable(class, c)
    BY <2>1 DEF Addable
  <2>5. class = "STYLE" => Styled(c)
    BY <1>1, <2>4, StyleAddable
  <2>6. ASSUME class = "ETHERNET_FLOWSPEC" PROVE EthernetLink \subseteq Held(c)
    <3>1. "ETHERNET_FLOWSPEC" \notin AnyOf /\ "ETHERNET_FLOWSPEC" \in Classes
          /\ requirements["ETHERNET_FLOWSPEC"] = EthernetBandwidth
      BY DEF AnyOf, requirements, Classes
    <3>2. Good(c) /\ check_addable("ETHERNET_FLOWSPEC", c)
      BY <1>1, <2>4, <2>6 DEF Fit
    <3>3. EthernetBandwidth \subseteq Held(c)
      BY <3>1, <3>2, AddableHeld
    <3>4. Occurs("ETHERNET_FLOWSPEC", list)
      BY <2>1, <2>6
    <3> QED BY <1>1, <3>3, <3>4 DEF LinkFit
  <2> QED BY <1>3, <2>1, <2>3, <2>4, <2>5, <2>6 DEF Writable, WireClasses
<1> QED BY <1>2, <1>3 DEF AllWritable

-----------------------------------------------------------------------------
(* A class that is asked for once is there once.                           *)
Once(s, x) == \A i \in DOMAIN s, j \in DOMAIN s : s[i] = x /\ s[j] = x => i = j

LEMMA InsertedOnce ==
  ASSUME NEW all, NEW objs \in Seq(Classes), NEW pos \in 1..(Len(objs) + 1), NEW class, NEW x,
         Inserted(all, objs, pos, class), Once(objs, x), class = x => ~ Occurs(x, objs)
  PROVE  Once(all, x)
<1> DEFINE n == Len(objs)
<1>1. /\ n \in Nat /\ DOMAIN objs = 1..n /\ DOMAIN all = 1..(n + 1)
      /\ \A i \in 1..(n + 1) :
           all[i] = IF i < pos THEN objs[i] ELSE IF i = pos THEN class ELSE objs[i - 1]
  <2>1. n \in Nat /\ DOMAIN objs = 1..n
    OBVIOUS
  <2>2. /\ all \in Seq(Classes) /\ Len(all) = n + 1
        /\ \A i \in 1..(n + 1) :
             all[i] = IF i < pos THEN objs[i] ELSE IF i = pos THEN class ELSE objs[i - 1]
    BY DEF Inserted
  <2>3. DOMAIN all = 1..(n + 1)
    BY <2>2
  <2> HIDE DEF n
  <2> QED BY <2>1, <2>2, <2>3
<1> DEFINE from(i) == IF i < pos THEN i ELSE i - 1
<1>2. ASSUME NEW i \in 1..(n + 1), i # pos PROVE from(i) \in 1..n /\ all[i] = objs[from(i)]
  BY <1>1, <1>2
<1>3. ASSUME NEW i \in 1..(n + 1), NEW j \in 1..(n + 1), i # pos, j # pos, from(i) = from(j)
      PROVE  i = j
  BY <1>1, <1>3
<1>4. ASSUME NEW i \in 1..(n + 1), i # pos, class = x PROVE all[i] # x
  BY <1>1, <1>2, <1>4 DEF Occurs
<1>5. all[pos] = class /\ pos \in 1..(n + 1)
  BY <1>1
<1> HIDE DEF n, from
<1> SUFFICES ASSUME NEW i \in 1..(n + 1), NEW j \in 1..(n + 1), all[i] = x, all[j] = x
             PROVE  i = j
  BY <1>1 DEF Once
<1>6. CASE i = pos
  BY <1>4, <1>5, <1>6
<1>7. CASE j = pos
  BY <1>4, <1>5, <1>7
<1>8. CASE i # pos /\ j # pos
  <2>1. from(i) \in 1..n /\ from(j) \in 1..n /\ objs[from(i)] = x /\ objs[from(j)] = x
    BY <1>2, <1>8
  <2>2. from(i) = from(j)
    BY <1>1, <2>1 DEF Once
  <2> QED BY <1>3, <1>8, <2>2
<1> QED BY <1>6, <1>7, <1>8

LEMMA MovedOnce ==
  ASSUME NEW all \in Seq(Classes), NEW x, Once(all, x)
  PROVE  Once(MovedDown(all), x)
<1> DEFINE n == IF Len(all) < MAX_OBJECTS THEN Len(all) ELSE MAX_OBJECTS - 1
<1>1. n \in 0..Len(all)
  BY DEF MAX_OBJECTS
<1>2. MovedDown(all) = SubSeq(all, 1, n)
  BY DEF MovedDown
<1> HIDE DEF n
<1>3. /\ DOMAIN SubSeq(all, 1, n) = 1..n
      /\ \A i \in 1..n : SubSeq(all, 1, n)[i] = all[i] /\ i \in DOMAIN all
  BY <1>1
<1> QED BY <1>2, <1>3 DEF Once

LEMMA AddedOnce ==
  ASSUME NEW objs \in Seq(Classes), NEW c, NEW class \in Classes, NEW x, Once(objs, x),
         class = x => ~ Occurs(x, objs)
  PROVE  Once(add_object(objs, c, class), x)
<1>1. PICK pos \in 1..(Len(objs) + 1) :
        add_object(objs, c, class) = IF ~ check_addable(class, c) THEN objs
                                     ELSE MovedDown(InsertAt(objs, pos, class))
  BY Inserts
<1> DEFINE all == InsertAt(objs, pos, class)
<1>2. Inserted(all, objs, pos, class)
  BY InsertedAt
<1> HIDE DEF all
<1>3. Once(all, x)
  BY <1>2, InsertedOnce
<1>4. all \in Seq(Classes)
  BY <1>2 DEF Inserted
<1>5. Once(MovedDown(all), x)
  BY <1>3, <1>4, MovedOnce
<1> QED BY <1>1, <1>5 DEF all

LEMMA ObjectsOnce ==
  ASSUME NEW c, NEW list \in Seq(Classes), NEW x, Once(list, x)
  PROVE  Once(add_objects(<< >>, c, list), x)
<1> DEFINE N == Len(list)
<1>1. N \in Nat /\ DOMAIN list = 1..N
  OBVIOUS
<1>2. PICK f : /\ f[0] = << >>
               /\ \A n \in 0..(N - 1) : f[n + 1] = add_object(f[n], c, list[n + 1])
               /\ add_objects(<< >>, c, list) = f[N]
  <2> HIDE DEF N
  <2>1. ObjectsInTurn(c, list, N)
    BY <1>1, CallsInTurn
  <2> QED BY <2>1, Zenon DEF ObjectsInTurn
<1> DEFINE Good1(n) == /\ f[n] \in Seq(Classes) /\ InOrder(f[n]) /\ Once(f[n], x)
                       /\ Occurs(x, f[n]) => \E k \in 1..n : list[k] = x
           T == {n \in 0..N : Good1(n)}
<1>3. 0 \in T
  <2>1. << >> \in Seq(Classes) /\ DOMAIN << >> = {} /\ InOrder(<< >>)
    BY DEF InOrder
  <2>2. Once(<< >>, x) /\ ~ Occurs(x, << >>)
    BY <2>1 DEF Once, Occurs
  <2>3. Good1(0)
    BY <1>2, <2>1, <2>2
  <2> HIDE DEF Good1
  <2> QED BY <1>1, <2>3
<1>4. ASSUME NEW n \in 0..(N - 1), n \in T PROVE n + 1 \in T
  <2>1. n + 1 \in 0..N /\ Good1(n) /\ n + 1 \in DOMAIN list /\ list[n + 1] \in Classes
    BY <1>1, <1>4
  <2> DEFINE class == list[n + 1]
  <2>2. ASSUME class = x, Occurs(x, f[n]) PROVE FALSE
    <3>1. PICK k \in 1..n : list[k] = x
      BY <2>1, <2>2
    <3>2. k \in DOMAIN list /\ k # n + 1
      BY <1>1
    <3> QED BY <2>1, <2>2, <3>1, <3>2 DEF Once
  <2>3. Once(add_object(f[n], c, class), x)
    BY <2>1, <2>2, AddedOnce
  <2>4. add_object(f[n], c, class) \in Seq(Classes) /\ InOrder(add_object(f[n], c, class))
    BY <2>1, AddedInOrder
  <2>5. AddedTo(add_object(f[n], c, class), f[n], c, class)
    BY <2>1, AddedHas
  <2> DEFINE new == add_object(f[n], c, class)
  <2>6. f[n + 1] = new
    BY <1>2
  <2> HIDE DEF new
  <2>7. ASSUME Occurs(x, new) PROVE \E k \in 1..(n + 1) : list[k] = x
    <3>1. Occurs(x, f[n]) \/ class = x
      BY <2>5, <2>7 DEF AddedTo, Occurs, new
    <3>2. CASE Occurs(x, f[n])
      <4>1. PICK k \in 1..n : list[k] = x
        BY <2>1, <3>2
      <4>2. k \in 1..(n + 1)
        OBVIOUS
      <4> QED BY <4>1, <4>2
    <3>3. CASE class = x
      BY <3>3
    <3> QED BY <3>1, <3>2, <3>3
  <2>8. Good1(n + 1)
    BY <2>3, <2>4, <2>6, <2>7 DEF new
  <2> HIDE DEF Good1
  <2> QED BY <2>1, <2>8
<1>5. N \in T
  <2>1. 0..N \subseteq T
    <3> HIDE DEF T
    <3> QED BY <1>1, <1>3, <1>4, UpTo
  <2> HIDE DEF T
  <2> QED BY <1>1, <2>1
<1>6. Once(f[N], x)
  BY <1>5
<1> QED BY <1>2, <1>6

LEMMA JoinedOnce ==
  ASSUME NEW W, NEW a, NEW b, a \in Seq(W), b \in Seq(W), NEW x,
         (Once(a, x) /\ ~ Occurs(x, b)) \/ (~ Occurs(x, a) /\ Once(b, x))
  PROVE  Once(a \o b, x) /\ (~ Occurs(x, a) /\ ~ Occurs(x, b) => ~ Occurs(x, a \o b))
<1> DEFINE u == a \o b
<1>1. PICK m, n : m = Len(a) /\ n = Len(b)
  OBVIOUS
<1>2. /\ m \in Nat /\ n \in Nat /\ DOMAIN a = 1..m /\ DOMAIN b = 1..n /\ DOMAIN u = 1..(m + n)
      /\ \A j \in 1..m : u[j] = a[j]
      /\ \A j \in 1..n : u[m + j] = b[j]
  <2>1. /\ u \in Seq(W) /\ Len(u) = Len(a) + Len(b)
        /\ \A j \in 1..Len(a) : j \in 1..Len(u) /\ u[j] = a[j]
        /\ \A j \in 1..Len(b) : Len(a) + j \in 1..Len(u) /\ u[Len(a) + j] = b[j]
    BY Joined
  <2> HIDE DEF u
  <2> QED BY <1>1, <2>1
<1> HIDE DEF u
<1>3. ASSUME NEW i \in DOMAIN u
      PROVE  \/ i \in 1..m /\ u[i] = a[i]
             \/ i - m \in 1..n /\ u[i] = b[i - m]
  <2>1. i \in 1..m \/ (i - m \in 1..n /\ m + (i - m) = i)
    BY <1>2
  <2> QED BY <1>2, <2>1
<1>4. Once(u, x)
  <2> SUFFICES ASSUME NEW i \in DOMAIN u, NEW j \in DOMAIN u, u[i] = x, u[j] = x PROVE i = j
    BY DEF Once
  <2>1. CASE Once(a, x) /\ ~ Occurs(x, b)
    <3>1. i \in 1..m /\ j \in 1..m /\ a[i] = x /\ a[j] = x
      BY <1>2, <1>3, <2>1 DEF Occurs
    <3> QED BY <1>2, <2>1, <3>1 DEF Once
  <2>2. CASE ~ Occurs(x, a) /\ Once(b, x)
    <3>1. i - m \in 1..n /\ j - m \in 1..n /\ b[i - m] = x /\ b[j - m] = x
      BY <1>2, <1>3, <2>2 DEF Occurs
    <3>2. i - m = j - m
      BY <1>2, <2>2, <3>1 DEF Once
    <3> QED BY <1>2, <3>2
  <2> QED BY <2>1, <2>2
<1>5. ~ Occurs(x, a) /\ ~ Occurs(x, b) => ~ Occurs(x, u)
  BY <1>2, <1>3 DEF Occurs
<1> QED BY <1>4, <1>5 DEF u

-----------------------------------------------------------------------------
(* What a message of a fit store says of it, and what names a path.        *)

LEMMA FitSetEach ==
  ASSUME NEW c, Fit(c), NEW P, P \cap StyleFlags = {}, NEW calls, Sets(calls, P)
  PROVE  Fit(SetEach(c, calls))
<1>1. Good(SetEach(c, calls))
  BY GoodSetEach DEF Fit, Sets
<1>2. \A p \in StyleFlags : SetEach(c, calls).data[p] = c.data[p]
  BY StyleParameters, SetEachLeaves
<1> QED BY <1>1, <1>2 DEF Fit, StyleFit

LEMMA FitSetFixed ==
  ASSUME NEW c, Good(c), NEW calls, GoodSettings(calls),
         NEW k \in DOMAIN calls, calls[k][1] = "FIXED_FILTER", calls[k][2] = "UC",
         \A j \in DOMAIN calls : calls[j][1] = "FIXED_FILTER" => calls[j][3] = 1
  PROVE  Fit(SetEach(c, calls))
<1>1. "FIXED_FILTER" \in StyleFlags /\ HasType("FIXED_FILTER", "UC")
      /\ "FIXED_FILTER" \in Parameters
  BY DEF StyleFlags, HasType, PT_UC, Parameters
<1>2. SetEach(c, calls).data["FIXED_FILTER"] = << 1 >>
  <2>1. PICK p : p = "FIXED_FILTER"
    OBVIOUS
  <2>2. /\ p \in Parameters /\ calls[k][1] = p /\ HasType(p, calls[k][2])
        /\ \A j \in DOMAIN calls : calls[j][1] = p => calls[j][3] = 1
    BY <1>1, <2>1
  <2>3. SetEach(c, calls).data[p] = << 1 >>
    BY <2>2, SetEachGives
  <2> QED BY <2>1, <2>3
<1> QED BY <1>1, <1>2, GoodSetEach DEF Fit, StyleFit

LEMMA FitCopy ==
  ASSUME NEW c, NEW e, Fit(c), Fit(e)
  PROVE  Fit(AddMissing(c, e)) /\ Fit(Update(c, e))
<1>1. Good(c) /\ Good(e) /\ StyleFit(c) /\ StyleFit(e)
  BY DEF Fit
<1>2. Good(AddMissing(c, e)) /\ Good(Update(c, e))
  BY <1>1, GoodCopy
<1>3. \A p \in StyleFlags :
        /\ AddMissing(c, e).data[p] = IF c.data[p] # << >> THEN c.data[p] ELSE e.data[p]
        /\ Update(c, e).data[p] = IF e.data[p] # << >> THEN e.data[p] ELSE c.data[p]
  BY <1>1, StyleParameters, Copied
<1>4. << 1 >> # << >>
  OBVIOUS
<1>5. StyleFit(AddMissing(c, e)) /\ StyleFit(Update(c, e))
  BY <1>1, <1>3, <1>4, Zenon DEF StyleFit
<1> QED BY <1>2, <1>5 DEF Fit

LEMMA FitRemove ==
  ASSUME NEW c, Fit(c)
  PROVE  /\ \A S : S \cap StyleFlags = {} => Fit(RemoveEach(c, S))
         /\ \A p \in (Parameters \ PT_TAB) \ StyleFlags : Fit(RemoveParam(c, p))
<1>1. ASSUME NEW S, S \cap StyleFlags = {} PROVE Fit(RemoveEach(c, S))
  <2>1. Good(RemoveEach(c, S))
    BY GoodRemove DEF Fit
  <2>2. \A q \in StyleFlags : RemoveEach(c, S).data[q] = c.data[q]
    BY <1>1, StyleParameters DEF RemoveEach
  <2> QED BY <2>1, <2>2 DEF Fit, StyleFit
<1>2. ASSUME NEW p \in (Parameters \ PT_TAB) \ StyleFlags PROVE Fit(RemoveParam(c, p))
  <2>1. Good(RemoveParam(c, p))
    BY GoodRemove DEF Fit
  <2>2. RemoveParam(c, p) = Slot(c, p, << >>, 0)
    BY DEF RemoveParam, RemoveValue
  <2>3. \A q \in StyleFlags : Slot(c, p, << >>, 0).data[q] = c.data[q]
    BY StyleParameters DEF Slot
  <2> QED BY <2>1, <2>2, <2>3 DEF Fit, StyleFit
<1> QED BY <1>1, <1>2

LEMMA FitAdd ==
  ASSUME NEW c, Fit(c), NEW p, p \notin StyleFlags, NEW ty \in Types, NEW v,
         NEW size \in Int, ty = "CS" => v \in Int
  PROVE  Fit(SetAddAt(c, p, ty, v, size, 0)) /\ Fit(SetAt(c, p, ty, v, size, 0))
<1>0. 0 \in Nat
  OBVIOUS
<1>1. Good(SetAddAt(c, p, ty, v, size, 0)) /\ Good(SetAt(c, p, ty, v, size, 0))
  BY <1>0, GoodAdd DEF Fit
<1>2. \A q \in StyleFlags :
        /\ SetAddAt(c, p, ty, v, size, 0).data[q] = c.data[q]
        /\ SetAt(c, p, ty, v, size, 0).data[q] = c.data[q]
  BY StyleParameters, AddLeaves
<1> QED BY <1>1, <1>2 DEF Fit, StyleFit

LEMMA EmptyIsFit == Fit(Empty)
BY EmptyIsGood, StyleParameters DEF Fit, StyleFit, Empty

(* What a message says is fit for an answer: the flags of its style are 1. *)
LEMMA ParsedFit ==
  ASSUME NEW wire, ShapedWire(wire)
  PROVE  Fit(parse_data(wire)) /\ LinkFit(parse_data(wire))
<1> DEFINE c == parse_data(wire)
<1>1. Good(c)
  BY ParsedGood
<1>2. \A p \in StyleFlags : c.data[p] = << >> \/ c.data[p] = << 1 >>
  BY ParsedStyle
<1>3. \A p \in EthernetBandwidth, q \in EthernetLink : c.data[p] # << >> => c.data[q] # << >>
  BY ParsedEthernet
<1>4. EthernetLink \subseteq Parameters /\ "ETHERNET_CIR" \in EthernetBandwidth
  BY DEF EthernetLink, EthernetBandwidth, Parameters, PT_UC, PT_US
<1> HIDE DEF c
<1>5. StyleFit(c)
  BY <1>2 DEF StyleFit
<1>6. LinkFit(c)
  BY <1>3, <1>4 DEF LinkFit, Held
<1> QED BY <1>1, <1>5, <1>6 DEF Fit, c

LEMMA SequenceSets ==
  ASSUME NEW V, NEW P, NEW calls \in Seq(SettingsIn(V, P))
  PROVE  Sets(calls, P)
<1>1. SettingsIn(V, P) \subseteq Settings(V)
  BY DEF SettingsIn
<1>2. calls \in Seq(Settings(V)) /\ \A k \in DOMAIN calls : calls[k] \in SettingsIn(V, P)
  BY <1>1, SequenceIn
<1> QED BY <1>2 DEF Sets, GoodSettings, SettingsIn

Kinded == {"UPSTREAM_LABEL", "ERO", "LSP_SWITCHING_TYPE"}

LEMMA JoinedOccurs ==
  ASSUME NEW P, NEW a, NEW b, Sets(a, P), Sets(b, P), NEW x, Occurs(x, a) \/ Occurs(x, b)
  PROVE  Occurs(x, a \o b)
<1>1. PICK V : a \in Seq(V)
  BY DEF Sets, GoodSettings
<1>2. PICK W : b \in Seq(W)
  BY DEF Sets, GoodSettings
<1>3. a \in Seq(V \cup W) /\ b \in Seq(V \cup W)
  BY <1>1, <1>2, SequenceIn
<1> DEFINE ab == a \o b
<1>4. /\ DOMAIN ab = 1..Len(ab) /\ DOMAIN a = 1..Len(a) /\ DOMAIN b = 1..Len(b)
      /\ \A j \in 1..Len(a) : j \in 1..Len(ab) /\ ab[j] = a[j]
      /\ \A j \in 1..Len(b) : Len(a) + j \in 1..Len(ab) /\ ab[Len(a) + j] = b[j]
  BY <1>3, Joined
<1> HIDE DEF ab
<1>5. Occurs(x, ab)
  BY <1>4 DEF Occurs
<1> QED BY <1>5 DEF ab

(* What a RESV is made of. *)
ResvKinds == {"SESSION_IETF", "IPV4_RSVP_HOP", "TIME_VALUES", "STYLE", "TOKEN_FLOWSPEC",
              "FILTER_SPEC", "GENERALIZED_LABEL", "MESSAGE_ID", "SESSION_OIF",
              "IPV4_IF_ID_RSVP_HOP", "SONETSDH_FLOWSPEC", "RESV_CONFIRM",
              "CALL_ID_0", "CALL_ID_1", "CALL_ID_2"}

WireFrom(c, list) == get_data(add_objects(<< >>, c, list), c)

LEMMA WireShaped ==
  ASSUME NEW c, NEW list, MessageFit(c, list)
  PROVE  /\ ShapedWire(WireFrom(c, list))
         /\ \A k \in DOMAIN WireFrom(c, list) : Occurs(WireFrom(c, list)[k].class, list)
<1> DEFINE objs == add_objects(<< >>, c, list)
<1>1. Fitting(objs, c, list) /\ AllWritable(objs, c)
  BY ObjectsWritable
<1>2. Good(c) /\ objs \in Seq(Classes) /\ \A i \in DOMAIN objs : Occurs(objs[i], list)
  BY <1>1 DEF Fitting, MessageFit, Fit
<1> HIDE DEF objs
<1>3. /\ ShapedWire(get_data(objs, c))
      /\ \A k \in DOMAIN get_data(objs, c) : \E i : Wired(get_data(objs, c)[k], objs, c, i)
  BY <1>1, <1>2, WireOf
<1>4. \A k \in DOMAIN get_data(objs, c) : Occurs(get_data(objs, c)[k].class, list)
  BY <1>2, <1>3 DEF Wired
<1> QED BY <1>3, <1>4 DEF WireFrom, objs

(* An object that is asked for is there if it can be and there is room.    *)
LEMMA WireHas ==
  ASSUME NEW c, NEW list, MessageFit(c, list), Len(list) < MAX_OBJECTS, NEW class,
         Occurs(class, list), class \notin Subobjects, check_addable(class, c)
  PROVE  \E k \in DOMAIN WireFrom(c, list) : WireFrom(c, list)[k].class = class
<1> DEFINE objs == add_objects(<< >>, c, list)
<1>1. Fitting(objs, c, list) /\ AllWritable(objs, c)
  BY ObjectsWritable
<1>2. Good(c) /\ objs \in Seq(Classes) /\ Occurs(class, objs)
  BY <1>1 DEF Fitting, MessageFit, Fit, Occurs
<1>3. PICK i \in DOMAIN objs : objs[i] = class
  BY <1>2 DEF Occurs
<1> HIDE DEF objs
<1>4. i \in Own(objs)
  BY <1>3 DEF Own
<1>5. \A j \in Own(objs) : \E k \in DOMAIN get_data(objs, c) :
        Wired(get_data(objs, c)[k], objs, c, j)
  BY <1>1, <1>2, WireOf
<1>6. PICK k \in DOMAIN get_data(objs, c) : Wired(get_data(objs, c)[k], objs, c, i)
  BY <1>4, <1>5
<1>7. get_data(objs, c)[k].class = class
  BY <1>3, <1>6 DEF Wired
<1> QED BY <1>7 DEF WireFrom, objs

(* A label of four bytes is one field, which holds what the store does.    *)
LEMMA LabelWritten ==
  ASSUME NEW c, Good(c), NEW v, c.data["LABEL"] = << v >>, c.void_size["LABEL"] = 4,
         NEW objs, NEW o,
         o = WrittenObject("GENERALIZED_LABEL", Written("GENERALIZED_LABEL", c, objs), c)
  PROVE  LabelIs(o, v)
<1> DEFINE f == Field("label", << "LABEL" >>, 4, 0)
<1>1. Written("GENERALIZED_LABEL", c, objs) = Body(4, << f >>)
  <2>1. Written("GENERALIZED_LABEL", c, objs) = WriteLabelAndRoute("GENERALIZED_LABEL", c)
    BY DEF Written
  <2>2. WriteLabelAndRoute("GENERALIZED_LABEL", c)
          = Body(Pad4(c.void_size["LABEL"]),
                 << Field("label", << "LABEL" >>, Pad4(c.void_size["LABEL"]), 0) >>)
    BY DEF WriteLabelAndRoute
  <2>3. Pad4(4) = 4
    BY DEF Pad4
  <2> QED BY <2>1, <2>2, <2>3
<1>2. "LABEL" \in Parameters /\ "LABEL" \notin PT_TAB
  BY DEF Parameters, PT_VS, PT_TAB
<1>3. IsPresent(c, "LABEL") /\ Read(c, "LABEL") = v
  BY <1>2, GoodPresent DEF Read, ReadAt
<1>4. f.kind = "label" /\ f.pars = << "LABEL" >> /\ f.width = 4 /\ f.tag = 0
  BY DEF Field
<1> HIDE DEF f
<1>5. Encoded(f, c) = v
  BY <1>3, <1>4 DEF Encoded
<1>6. WrittenField(f, c) = [kind |-> "label", width |-> 4, tag |-> 0, val |-> v]
  BY <1>4, <1>5 DEF WrittenField
<1>7. o.length = 4 /\ o.fields = << WrittenField(f, c) >>
  BY <1>1 DEF WrittenObject, Body
<1> QED BY <1>6, <1>7 DEF LabelIs

LEMMA WireLabel ==
  ASSUME NEW c, NEW list, MessageFit(c, list), Len(list) < MAX_OBJECTS,
         Occurs("GENERALIZED_LABEL", list), NEW v, c.data["LABEL"] = << v >>,
         c.void_size["LABEL"] = 4
  PROVE  parse_data(WireFrom(c, list)).data["LABEL"] = << v >>
<1> DEFINE wire == WireFrom(c, list)
           objs == add_objects(<< >>, c, list)
<1>1. Good(c)
  BY DEF MessageFit, Fit
<1>2. check_addable("GENERALIZED_LABEL", c)
  <2>1. "LABEL" \in Parameters /\ requirements["GENERALIZED_LABEL"] = {"LABEL"}
        /\ "GENERALIZED_LABEL" \notin AnyOf
    BY DEF Parameters, PT_VS, requirements, AnyOf
  <2>2. IsPresent(c, "LABEL")
    <3>1. PICK p : p = "LABEL"
      OBVIOUS
    <3>2. p \in Parameters /\ c.data[p] # << >>
      BY <2>1, <3>1
    <3>3. IsPresent(c, p)
      BY <1>1, <3>2, GoodPresent
    <3> QED BY <3>1, <3>3
  <2> QED BY <2>1, <2>2 DEF check_addable
<1>3. PICK k \in DOMAIN wire : wire[k].class = "GENERALIZED_LABEL"
  <2>1. "GENERALIZED_LABEL" \notin Subobjects
    BY DEF Subobjects
  <2> QED BY <1>2, <2>1, WireHas
<1>4. ShapedWire(wire)
  BY WireShaped
<1>5. ASSUME NEW i \in DOMAIN wire, wire[i].class = "GENERALIZED_LABEL"
      PROVE  LabelIs(wire[i], v)
  <2>1. AllWritable(objs, c) /\ objs \in Seq(Classes)
    BY ObjectsWritable DEF Fitting
  <2> HIDE DEF objs
  <2>2. \A n \in DOMAIN get_data(objs, c) : \E j : Wired(get_data(objs, c)[n], objs, c, j)
    BY <1>1, <2>1, WireOf
  <2>3. wire = get_data(objs, c)
    BY DEF wire, WireFrom, objs
  <2>4. PICK j : Wired(wire[i], objs, c, j)
    BY <1>5, <2>2, <2>3
  <2>5. wire[i] = WrittenObject("GENERALIZED_LABEL", Written("GENERALIZED_LABEL", c, objs), c)
    BY <1>5, <2>4 DEF Wired
  <2> QED BY <1>1, <2>5, LabelWritten
<1> HIDE DEF wire
<1>6. parse_data(wire).data["LABEL"] = << v >>
  BY <1>3, <1>4, <1>5, ParsedLabel
<1> QED BY <1>6 DEF wire

(* A hop says first where it comes from. *)
HopClasses == {"IPV4_RSVP_HOP", "IPV4_IF_ID_RSVP_HOP"}

LEMMA HopSlot ==
  LET f == Addr("CONTROL_OUT_IF_ADDR")
  IN  Single(f, "CONTROL_OUT_IF_ADDR") /\ f.kind = "addr" /\ f.width = 4
      /\ f.pars = << "CONTROL_OUT_IF_ADDR" >>
<1>1. /\ "CONTROL_OUT_IF_ADDR" \in PT_UI /\ "CONTROL_OUT_IF_ADDR" \in Parameters
      /\ "CONTROL_OUT_IF_ADDR" \notin PT_TAB
  BY DEF PT_UI, Parameters, PT_TAB
<1>2. AddType("addr") = "UI"
  BY DEF AddType
<1>3. HasType("CONTROL_OUT_IF_ADDR", "UI")
  BY <1>1 DEF HasType
<1>4. Addr("CONTROL_OUT_IF_ADDR").kind = "addr" /\ Addr("CONTROL_OUT_IF_ADDR").width = 4
      /\ Addr("CONTROL_OUT_IF_ADDR").pars = << "CONTROL_OUT_IF_ADDR" >>
  BY DEF Addr, Field
<1> QED BY <1>1, <1>2, <1>3, <1>4 DEF Single

LEMMA HopGrouped ==
  ASSUME NEW class \in HopClasses, NEW c, NEW objs, IsPresent(c, "CONTROL_OUT_IF_ADDR"),
         NEW object, object = WrittenObject(class, Written(class, c, objs), c), Shaped(object),
         NEW T, T = [q \in {"CONTROL_OUT_IF_ADDR"} |-> {Read(c, q)}]
  PROVE  GroupUpTo(object, {"CONTROL_OUT_IF_ADDR"}, {}, T, 1)
<1> DEFINE fields == Written(class, c, objs).fields
           reads == ReadFields(object)
           f == Addr("CONTROL_OUT_IF_ADDR")
<1>1. PICK N \in 2..5 : /\ DOMAIN fields = 1..N /\ fields[1] = f
                        /\ \A k \in 1..N : fields[k].width = 4
  <2>1. CASE class = "IPV4_RSVP_HOP"
    <3>1. fields = << f, Word("CONTROL_OUT_IF_HANDLE") >>
      BY <2>1 DEF Written, WriteSessionAndHop, Body
    <3>2. f.width = 4 /\ Word("CONTROL_OUT_IF_HANDLE").width = 4
      BY DEF Addr, Word, Field
    <3> HIDE DEF fields, f
    <3>3. DOMAIN fields = 1..2 /\ fields[1] = f /\ fields[2] = Word("CONTROL_OUT_IF_HANDLE")
      BY <3>1
    <3>4. \A k \in 1..2 : k = 1 \/ k = 2
      OBVIOUS
    <3>5. \A k \in 1..2 : fields[k].width = 4
      BY <3>2, <3>3, <3>4
    <3> QED BY <3>3, <3>5
  <2>2. CASE class = "IPV4_IF_ID_RSVP_HOP" /\ IsPresent(c, "DATA_OUT_IF_HANDLE")
    <3>1. fields = << f, Field("int", << >>, 4, 0), Mark(4, 3), Addr("DATA_OUT_IF_ADDR"),
                      Word("DATA_OUT_IF_HANDLE") >>
      BY <2>2 DEF Written, WriteSessionAndHop, Body
    <3>2. /\ f.width = 4 /\ Field("int", << >>, 4, 0).width = 4 /\ Mark(4, 3).width = 4
          /\ Addr("DATA_OUT_IF_ADDR").width = 4 /\ Word("DATA_OUT_IF_HANDLE").width = 4
      BY DEF Addr, Word, Mark, Field
    <3> HIDE DEF fields, f
    <3>3. /\ DOMAIN fields = 1..5 /\ fields[1] = f /\ fields[2] = Field("int", << >>, 4, 0)
          /\ fields[3] = Mark(4, 3) /\ fields[4] = Addr("DATA_OUT_IF_ADDR")
          /\ fields[5] = Word("DATA_OUT_IF_HANDLE")
      BY <3>1
    <3>4. \A k \in 1..5 : k = 1 \/ k = 2 \/ k = 3 \/ k = 4 \/ k = 5
      OBVIOUS
    <3>5. \A k \in 1..5 : fields[k].width = 4
      BY <3>2, <3>3, <3>4
    <3> QED BY <3>3, <3>5
  <2>3. CASE class = "IPV4_IF_ID_RSVP_HOP" /\ ~ IsPresent(c, "DATA_OUT_IF_HANDLE")
    <3>1. fields = << f, Field("int", << >>, 4, 0) >>
      BY <2>3 DEF Written, WriteSessionAndHop, Body
    <3>2. f.width = 4 /\ Field("int", << >>, 4, 0).width = 4
      BY DEF Addr, Field
    <3> HIDE DEF fields, f
    <3>3. DOMAIN fields = 1..2 /\ fields[1] = f /\ fields[2] = Field("int", << >>, 4, 0)
      BY <3>1
    <3>4. \A k \in 1..2 : k = 1 \/ k = 2
      OBVIOUS
    <3>5. \A k \in 1..2 : fields[k].width = 4
      BY <3>2, <3>3, <3>4
    <3> QED BY <3>3, <3>5
  <2> QED BY <2>1, <2>2, <2>3 DEF HopClasses
<1>2. reads # << >> /\ reads[1] = f /\ 1 \in 1..Len(reads)
  <2>1. object.class = class
    BY DEF WrittenObject
  <2>2. reads = ReadHop(object)
    BY <2>1 DEF ReadFields, HopClasses
  <2>3. {"CONTROL_OUT_IF_ADDR", "CONTROL_OUT_IF_HANDLE"} \cup Beyond \subseteq Parameters
    BY DEF Beyond, Parameters, PT_UI, PT_UC, PT_US, PT_F, EthernetLink
  <2>4. ReadHop(object) \in Seq(FieldsOf(Parameters)) /\ ReadHop(object) # << >>
        /\ ReadHop(object)[1] = f
    BY <2>3, ReadHopIn
  <2> HIDE DEF reads, f
  <2> QED BY <2>2, <2>4
<1>3. /\ DOMAIN object.fields = DOMAIN fields
      /\ \A k \in DOMAIN fields : object.fields[k] = WrittenField(fields[k], c)
  BY DEF WrittenObject
<1> HIDE DEF fields, reads
<1>4. Filling(object.fields, N)
  <2>1. \A g : WrittenField(g, c).width = g.width
    BY DEF WrittenField
  <2>2. \A k \in 1..N : object.fields[k].width = 4 /\ 4 \in Nat \ {0}
    BY <1>1, <1>3, <2>1
  <2> QED BY <1>1, <1>3, <2>2 DEF Filling
<1>5. ReadWith(object, reads, 1) = Read(c, "CONTROL_OUT_IF_ADDR")
  <2>1. "addr" \in PlainKinds /\ N \in Nat /\ 1 \in 1..N
    BY KindsPlain
  <2>2. f.kind = "addr" /\ f.pars = << "CONTROL_OUT_IF_ADDR" >> /\ f.width = 4
    BY HopSlot
  <2> HIDE DEF f
  <2>3. WrittenField(f, c).val = Read(c, "CONTROL_OUT_IF_ADDR") /\ WrittenField(f, c).kind = "addr"
    BY <2>1, <2>2, PlainEncoded
  <2>4. object.fields[1] = WrittenField(f, c) /\ object.fields[1].width = 4
    BY <1>1, <1>3, <2>1, <2>2 DEF WrittenField
  <2>5. "addr" # "given" /\ N \in Nat \ {0}
    OBVIOUS
  <2> QED BY <1>2, <1>4, <2>2, <2>3, <2>4, <2>5, ReadFirst
<1>6. Single(f, "CONTROL_OUT_IF_ADDR")
  BY HopSlot
<1> HIDE DEF f
<1>7. \A i \in 1..1 : i = 1
  OBVIOUS
<1> QED BY <1>2, <1>5, <1>6, <1>7 DEF GroupUpTo, reads

LEMMA HopFirst ==
  ASSUME NEW wire, ShapedWire(wire), NEW k \in DOMAIN wire,
         wire[k].class \in {"IPV4_RSVP_HOP", "IPV4_IF_ID_RSVP_HOP"}
  PROVE  parse_data(wire).data["CONTROL_OUT_IF_ADDR"] # << >>
<1> DEFINE object == wire[k]
<1>1. Shaped(object)
  BY DEF ShapedWire
<1>2. ReadFields(object) = ReadHop(object)
  BY DEF ReadFields
<1>3. {"CONTROL_OUT_IF_ADDR", "CONTROL_OUT_IF_HANDLE"} \cup Beyond \subseteq Parameters
  BY DEF Beyond, Parameters, PT_UI, PT_UC, PT_US, PT_F, EthernetLink
<1>4. ReadHop(object) # << >> /\ ReadHop(object)[1] = Addr("CONTROL_OUT_IF_ADDR")
  <2> HIDE DEF object
  <2> QED BY <1>1, <1>3, ReadHopIn
<1>5. Single(Addr("CONTROL_OUT_IF_ADDR"), "CONTROL_OUT_IF_ADDR")
  BY HopSlot
<1>6. PICK p : p = "CONTROL_OUT_IF_ADDR"
  OBVIOUS
<1>7. ReadFields(wire[k]) # << >> /\ Single(ReadFields(wire[k])[1], p)
  BY <1>2, <1>4, <1>5, <1>6
<1> HIDE DEF object
<1>8. parse_data(wire).data[p] # << >>
  BY <1>7, ParsedPresent
<1> QED BY <1>6, <1>8

RouterKinds == ResvKinds \cup {"ETHERNET_FLOWSPEC", "ADMIN_STATUS"}

(* No object of a RESV carries what tells the kinds of PATH apart. *)
LEMMA NoKindCarried ==
  ASSUME NEW class \in RouterKinds, NEW p \in Kinded
  PROVE  p \notin MayCarry(class)
<1>1. p \notin Beyond
  BY DEF Kinded, Beyond, EthernetLink
<1>2. p \notin SessionId /\ p \notin TokenBucket /\ p \notin Sonet /\ p \notin EthernetLink
      /\ p \notin EthernetBandwidth /\ p \notin MessageId /\ p \notin LocalCallId
      /\ p \notin StyleFlags
  BY DEF Kinded, SessionId, TokenBucket, Sonet, EthernetLink, EthernetBandwidth,
         MessageId, LocalCallId, StyleFlags
<1>3. CASE class \in {"SESSION_IETF", "SESSION_OIF", "IPV4_RSVP_HOP", "IPV4_IF_ID_RSVP_HOP",
                      "TIME_VALUES", "STYLE"}
  BY <1>1, <1>2, <1>3 DEF MayCarry, requirements, Kinded
<1>4. CASE class \in {"TOKEN_FLOWSPEC", "SONETSDH_FLOWSPEC", "ETHERNET_FLOWSPEC",
                      "FILTER_SPEC", "GENERALIZED_LABEL", "ADMIN_STATUS"}
  BY <1>1, <1>2, <1>4 DEF MayCarry, requirements, Kinded
<1>5. CASE class \in {"MESSAGE_ID", "RESV_CONFIRM", "CALL_ID_0", "CALL_ID_1", "CALL_ID_2"}
  BY <1>1, <1>2, <1>5 DEF MayCarry, requirements, Kinded
<1> QED BY <1>3, <1>4, <1>5 DEF RouterKinds, ResvKinds

LEMMA FlagFit ==
  ASSUME NEW c, Fit(c), NEW v
  PROVE  Fit(SetAdd(c, "ADMIN_STATUS_RTAD_FLAGS", "UC", v))
<1>1. PICK q, ty : q = "ADMIN_STATUS_RTAD_FLAGS" /\ ty = "UC"
  OBVIOUS
<1>2. q \notin StyleFlags /\ ty \in Types /\ ty # "CS" /\ 0 \in Int
  BY <1>1 DEF StyleFlags, Types
<1>3. Fit(SetAddAt(c, q, ty, v, 0, 0))
  BY <1>2, FitAdd
<1> QED BY <1>1, <1>3 DEF SetAdd

(* The classes S carry the parameters Q of the store, and no other does.   *)
Carrying(S, Q, F) ==
  /\ Q \cup F \subseteq Parameters \ PT_TAB
  /\ S \subseteq WireClasses \ AnyOf
  /\ \A class \in S : /\ Q \subseteq requirements[class]
                      /\ \A c, objs : ClassCopies(class, c, objs, Q, F)
  /\ \A class \in WireClasses \ S : \A p \in Q \cup F : p \notin MayCarry(class)

Listed(c, list, S) ==
  Len(list) < MAX_OBJECTS /\ \E class \in S : Occurs(class, list) /\ check_addable(class, c)

LEMMA WireSays ==
  ASSUME NEW c, NEW list, MessageFit(c, list), NEW S, NEW Q, NEW F, Carrying(S, Q, F),
         Small(c, Q)
  PROVE  /\ \/ Same(parse_data(WireFrom(c, list)), c, Q) /\ Has(c, Q)
            \/ Lacks(parse_data(WireFrom(c, list)), Q \cup F)
         /\ Listed(c, list, S) => Same(parse_data(WireFrom(c, list)), c, Q)
<1> DEFINE objs == add_objects(<< >>, c, list)
           r == parse_data(get_data(objs, c))
<1>1. Fitting(objs, c, list) /\ AllWritable(objs, c)
  BY ObjectsWritable
<1>2. Good(c) /\ objs \in Seq(Classes) /\ Addable(objs, c)
  BY <1>1 DEF Fitting, MessageFit, Fit
<1>3. ASSUME NEW q \in Q PROVE q \in Parameters \ PT_TAB /\ q \in Parameters
  BY DEF Carrying
<1> HIDE DEF objs
<1>4. ASSUME NEW i \in Own(objs), objs[i] \in S PROVE Sayable(c, Q) /\ Has(c, Q)
  <2>1. check_addable(objs[i], c) /\ objs[i] \in Classes /\ objs[i] \notin AnyOf
    BY <1>2, <1>4 DEF Own, Addable, Carrying
  <2>2. requirements[objs[i]] \subseteq Held(c)
    BY <1>2, <2>1, AddableHeld
  <2>3. \A q \in Q : c.data[q] # << >>
    BY <1>4, <2>2 DEF Carrying, Held
  <2>4. \A q \in Q : IsPresent(c, q)
    BY <1>2, <1>3, <2>3, GoodPresent
  <2> QED BY <2>3, <2>4 DEF Sayable, Small, Has
<1>5. /\ Q \cup F \subseteq Parameters \ PT_TAB
      /\ \A class \in S : ClassCopies(class, c, objs, Q, F)
      /\ \A class \in WireClasses \ S : \A p \in Q \cup F : p \notin MayCarry(class)
  BY DEF Carrying
<1>6. IF \E i \in Own(objs) : objs[i] \in S
      THEN AllRead(r, Q, Said(c, Q)) ELSE NoneRead(r, Q, F)
  BY <1>1, <1>2, <1>4, <1>5, WrittenGroup
<1> HIDE DEF r
<1>7. ASSUME NEW i \in Own(objs), objs[i] \in S, AllRead(r, Q, Said(c, Q)) PROVE Same(r, c, Q)
  <2> SUFFICES ASSUME NEW q \in Q PROVE r.data[q] = c.data[q]
    BY DEF Same
  <2>1. IsPresent(c, q)
    BY <1>4, <1>7 DEF Sayable
  <2>2. c.data[q] = << Read(c, q) >>
    BY <1>2, <1>3, <2>1, OneValue
  <2>3. r.data[q] = << Read(c, q) >>
    BY <1>7 DEF AllRead, Said
  <2> QED BY <2>2, <2>3
<1>8. ASSUME Listed(c, list, S) PROVE \E i \in Own(objs) : objs[i] \in S
  <2>1. PICK class \in S : Len(list) < MAX_OBJECTS /\ Occurs(class, list) /\ check_addable(class, c)
    BY <1>8 DEF Listed
  <2>2. Occurs(class, objs)
    BY <1>1, <2>1 DEF Fitting, Occurs
  <2>3. PICK i \in DOMAIN objs : objs[i] = class
    BY <2>2 DEF Occurs
  <2>4. i \in Own(objs)
    BY <2>3 DEF Own, Carrying, WireClasses
  <2> QED BY <2>3, <2>4
<1>9. CASE \E i \in Own(objs) : objs[i] \in S
  BY <1>4, <1>6, <1>7, <1>9 DEF WireFrom, objs, r
<1>10. CASE ~ \E i \in Own(objs) : objs[i] \in S
  <2>1. Lacks(r, Q \cup F)
    BY <1>6, <1>10 DEF NoneRead, Lacks
  <2> QED BY <1>8, <1>10, <2>1 DEF WireFrom, objs, r
<1> QED BY <1>9, <1>10
SessionClasses == {"SESSION_IETF", "SESSION_OIF"}

(* A message has nothing of a parameter whose only class is not asked for. *)
LEMMA WireLacks ==
  ASSUME NEW c, NEW list, MessageFit(c, list), NEW class, ~ Occurs(class, list), NEW Q,
         Carrying({class}, Q, {})
  PROVE  Lacks(parse_data(WireFrom(c, list)), Q)
<1> DEFINE wire == WireFrom(c, list)
<1>1. ShapedWire(wire) /\ \A k \in DOMAIN wire : Occurs(wire[k].class, list)
  BY WireShaped
<1> HIDE DEF wire
<1>2. ASSUME NEW q \in Q PROVE parse_data(wire).data[q] = << >>
  <2>1. q \in Parameters /\ \A x \in WireClasses \ {class} : q \notin MayCarry(x)
    BY DEF Carrying
  <2>2. \A k \in DOMAIN wire : q \notin MayCarry(wire[k].class)
    BY <1>1, <2>1 DEF ShapedWire, Shaped
  <2> QED BY <1>1, <2>1, <2>2, ParsedAbsent
<1> QED BY <1>2 DEF Lacks, wire

(* The list asks for a session and for one of two classes.                 *)
Naming(list, own, other) ==
  /\ Len(list) < MAX_OBJECTS
  /\ \E class \in SessionClasses : Occurs(class, list)
  /\ Occurs(own, list) /\ ~ Occurs(other, list)
AnswerTo(c, s) ==
  /\ \A q \in SessionId : c.data[q] = s.data[q]
  /\ c.data["FILTER_SRC_ADDR"] = s.data["SENDER_SRC_ADDR"]
  /\ c.data["FILTER_SRC_PORT"] = s.data["SENDER_SRC_ID"]
Shows(list, K, n, X) ==
  /\ list \in Seq(K) /\ n \in Nat /\ Len(list) <= n
  /\ \A x \in X : Occurs(x, list)

SenderKinds == Usual \ {"FILTER_SPEC"}
FilterKinds == Added \ {"SENDER_TEMPLATE"}

LEMMA BothShow ==
  ASSUME NEW K, NEW a, NEW b, NEW m, NEW n, NEW X, NEW Y, Shows(a, K, m, X), Shows(b, K, n, Y)
  PROVE  Shows(a \o b, K, m + n, X \cup Y)
<1>1. /\ a \in Seq(K) /\ b \in Seq(K) /\ m \in Nat /\ n \in Nat /\ Len(a) <= m /\ Len(b) <= n
  BY DEF Shows
<1>2. /\ a \o b \in Seq(K) /\ Len(a \o b) = Len(a) + Len(b)
      /\ \A j \in 1..Len(a) : j \in 1..Len(a \o b) /\ (a \o b)[j] = a[j]
      /\ \A j \in 1..Len(b) : Len(a) + j \in 1..Len(a \o b) /\ (a \o b)[Len(a) + j] = b[j]
  BY <1>1, Joined
<1>3. Len(a) \in Nat /\ Len(b) \in Nat /\ DOMAIN a = 1..Len(a) /\ DOMAIN b = 1..Len(b)
      /\ DOMAIN (a \o b) = 1..Len(a \o b)
  BY <1>1, <1>2
<1> DEFINE u == a \o b
<1>4. u \in Seq(K) /\ Len(u) <= m + n /\ m + n \in Nat
  BY <1>1, <1>2, <1>3
<1>5. ASSUME NEW x, Occurs(x, a) PROVE Occurs(x, u)
  <2>1. PICK j \in 1..Len(a) : a[j] = x
    BY <1>3, <1>5 DEF Occurs
  <2>2. j \in 1..Len(u) /\ u[j] = x
    BY <1>2, <2>1
  <2>3. DOMAIN u = 1..Len(u)
    BY <1>3
  <2> HIDE DEF u
  <2> QED BY <2>2, <2>3 DEF Occurs
<1>6. ASSUME NEW x, Occurs(x, b) PROVE Occurs(x, u)
  <2>1. PICK j \in 1..Len(b) : b[j] = x
    BY <1>3, <1>6 DEF Occurs
  <2>2. Len(a) + j \in 1..Len(u) /\ u[Len(a) + j] = x
    BY <1>2, <2>1
  <2>3. DOMAIN u = 1..Len(u)
    BY <1>3
  <2> HIDE DEF u
  <2> QED BY <2>2, <2>3 DEF Occurs
<1> HIDE DEF u
<1> QED BY <1>4, <1>5, <1>6 DEF Shows, u

LEMMA SenderNaming ==
  ASSUME NEW list, NEW n, n < 100, NEW x \in SessionClasses,
         Shows(list, SenderKinds, n, {x, "SENDER_TEMPLATE"})
  PROVE  list \in Seq(Usual) /\ Naming(list, "SENDER_TEMPLATE", "FILTER_SPEC")
<1>1. list \in Seq(SenderKinds) /\ n \in Nat /\ Len(list) <= n /\ Len(list) \in Nat
  BY DEF Shows
<1>2. list \in Seq(Usual) /\ \A k \in DOMAIN list : list[k] \in SenderKinds
  BY <1>1, SequenceIn DEF SenderKinds
<1>3. ~ Occurs("FILTER_SPEC", list)
  BY <1>2 DEF Occurs, SenderKinds
<1>4. Occurs(x, list) /\ Occurs("SENDER_TEMPLATE", list)
  BY DEF Shows
<1>5. Len(list) < 100
  BY <1>1
<1> QED BY <1>2, <1>3, <1>4, <1>5 DEF Naming, MAX_OBJECTS

LEMMA FilterNaming ==
  ASSUME NEW list, NEW n, n < 100, NEW x \in SessionClasses,
         Shows(list, FilterKinds, n, {x, "FILTER_SPEC"})
  PROVE  list \in Seq(Added) /\ Naming(list, "FILTER_SPEC", "SENDER_TEMPLATE")
<1>1. list \in Seq(FilterKinds) /\ n \in Nat /\ Len(list) <= n /\ Len(list) \in Nat
  BY DEF Shows
<1>2. list \in Seq(Added) /\ \A k \in DOMAIN list : list[k] \in FilterKinds
  BY <1>1, SequenceIn DEF FilterKinds
<1>3. ~ Occurs("SENDER_TEMPLATE", list)
  BY <1>2 DEF Occurs, FilterKinds
<1>4. Occurs(x, list) /\ Occurs("FILTER_SPEC", list)
  BY DEF Shows
<1>5. Len(list) < 100
  BY <1>1
<1> QED BY <1>2, <1>3, <1>4, <1>5 DEF Naming, MAX_OBJECTS

CallKinds == {"CALL_ID_0", "CALL_ID_1", "CALL_ID_2"}

LEMMA KindsOfCalls == CallKinds \subseteq SenderKinds /\ CallKinds \subseteq FilterKinds
BY DEF CallKinds, SenderKinds, FilterKinds, Usual, Added

LEMMA MoreShow ==
  ASSUME NEW K, NEW list, NEW n, NEW X, Shows(list, K, n, X), NEW Y, Shows(Y, K, 40, {})
  PROVE  Shows(list \o Y, K, n + 40, X)
<1>1. Shows(list \o Y, K, n + 40, X \cup {})
  BY BothShow
<1> QED BY <1>1 DEF Shows

Aside ==
  StyleFlags \cup
  {"CONTROL_OUT_IF_ADDR", "ERROR_NODE_ADDR", "ERROR_FLAGS", "ERROR_CODE", "ERROR_VALUE",
   "RESV_CONFIRM_RECV_ADDR", "MSG_ID_FLAGS", "MSG_ID_EPOCH", "MSG_ID_ID",
   "ADMIN_STATUS_RTAD_FLAGS"}

FilterAddr(e) == UI("FILTER_SRC_ADDR", Read(e, "SENDER_SRC_ADDR"))
FilterPort(e) == US("FILTER_SRC_PORT", Read(e, "SENDER_SRC_ID"))
TunnelAgain(e) == US("TUNNEL_ID", Read(e, "TUNNEL_ID"))
Answers(calls, e) ==
  /\ GoodSettings(calls)
  /\ \A j \in DOMAIN calls : \/ calls[j][1] \in Aside
                             \/ calls[j] \in {FilterAddr(e), FilterPort(e), TunnelAgain(e)}

LEMMA AsideAnswers ==
  ASSUME NEW calls, NEW e, Sets(calls, Aside)
  PROVE  Answers(calls, e)
BY DEF Sets, Answers

LEMMA JoinedAnswers ==
  ASSUME NEW e, NEW a, NEW b, Answers(a, e), Answers(b, e)
  PROVE  /\ Answers(a \o b, e)
         /\ \A x : Occurs(x, a) \/ Occurs(x, b) => Occurs(x, a \o b)
<1> DEFINE ab == a \o b
<1>0. GoodSettings(a) /\ GoodSettings(b)
  BY DEF Answers
<1>1. PICK V : a \in Seq(V)
  BY <1>0 DEF GoodSettings
<1>2. PICK W : b \in Seq(W)
  BY <1>0 DEF GoodSettings
<1>3. a \in Seq(V \cup W) /\ b \in Seq(V \cup W)
  BY <1>1, <1>2, SequenceIn
<1>4. /\ DOMAIN ab = 1..(Len(a) + Len(b)) /\ Len(a) \in Nat /\ Len(b) \in Nat
      /\ DOMAIN a = 1..Len(a) /\ DOMAIN b = 1..Len(b)
      /\ \A j \in 1..Len(a) : j \in DOMAIN ab /\ ab[j] = a[j]
      /\ \A j \in 1..Len(b) : Len(a) + j \in DOMAIN ab /\ ab[Len(a) + j] = b[j]
  BY <1>3, Joined
<1>5. GoodSettings(ab)
  BY <1>0, JoinedSettings
<1> HIDE DEF ab
<1>6. ASSUME NEW j \in DOMAIN ab
      PROVE  (\E i \in DOMAIN a : ab[j] = a[i]) \/ (\E i \in DOMAIN b : ab[j] = b[i])
  <2>1. CASE j <= Len(a)
    BY <1>4, <2>1
  <2>2. CASE ~ (j <= Len(a))
    <3>1. j - Len(a) \in 1..Len(b) /\ Len(a) + (j - Len(a)) = j
      BY <1>4, <2>2
    <3> QED BY <1>4, <3>1
  <2> QED BY <2>1, <2>2
<1>7. Answers(ab, e)
  BY <1>5, <1>6, Zenon DEF Answers
<1>8. ASSUME NEW x, Occurs(x, a) \/ Occurs(x, b) PROVE Occurs(x, ab)
  BY <1>4, <1>8 DEF Occurs
<1> QED BY <1>7, <1>8 DEF ab

LEMMA UsualFits ==
  ASSUME NEW c, Fit(c), NEW list \in Seq(Usual)
  PROVE  MessageFit(c, list)
<1>1. Usual \subseteq Added /\ "ETHERNET_FLOWSPEC" \notin Usual
  BY DEF Added, Usual
<1>2. list \in Seq(Added) /\ \A k \in DOMAIN list : list[k] \in Usual
  BY <1>1, SequenceIn
<1>3. ~ Occurs("ETHERNET_FLOWSPEC", list)
  BY <1>1, <1>2 DEF Occurs
<1> QED BY <1>2, <1>3 DEF MessageFit

(* What the router reads in a message that tells. *)
Reads(c, s) ==
  /\ \A p \in SessionId : IsPresent(c, p) /\ Read(c, p) = Read(s, p)
  /\ IsPresent(c, "SENDER_SRC_ADDR") => Read(c, "SENDER_SRC_ADDR") = Read(s, "SENDER_SRC_ADDR")
  /\ IsPresent(c, "SENDER_SRC_ID") => Read(c, "SENDER_SRC_ID") = Read(s, "SENDER_SRC_ID")
  /\ IsPresent(c, "FILTER_SRC_ADDR") => Read(c, "FILTER_SRC_ADDR") = Read(s, "SENDER_SRC_ADDR")
  /\ IsPresent(c, "FILTER_SRC_PORT") => Read(c, "FILTER_SRC_PORT") = Read(s, "SENDER_SRC_ID")
  /\ IsPresent(c, "SENDER_SRC_ADDR") \/ IsPresent(c, "FILTER_SRC_ADDR")

LEMMA JoinedWell ==
  ASSUME NEW a, NEW b, NEW Y, NEW Z, SetsWell(a, Y), SetsWell(b, Z)
  PROVE  SetsWell(a \o b, Y \cup Z)
<1>1. PICK V : a \in Seq(V)
  BY DEF SetsWell, Sets, GoodSettings
<1>2. PICK W : b \in Seq(W)
  BY DEF SetsWell, Sets, GoodSettings
<1>3. a \in Seq(V \cup W) /\ b \in Seq(V \cup W)
  BY <1>1, <1>2, SequenceIn
<1>4. PICK ab : ab = a \o b
  OBVIOUS
<1>5. PICK m, n : m = Len(a) /\ n = Len(b)
  OBVIOUS
<1>6. /\ m \in Nat /\ n \in Nat /\ DOMAIN ab = 1..(m + n) /\ DOMAIN a = 1..m /\ DOMAIN b = 1..n
      /\ \A j \in 1..m : j \in 1..(m + n) /\ ab[j] = a[j]
      /\ \A j \in 1..n : m + j \in 1..(m + n) /\ ab[m + j] = b[j]
  <2>1. /\ ab \in Seq(V \cup W) /\ Len(ab) = Len(a) + Len(b)
        /\ \A j \in 1..Len(a) : j \in 1..Len(ab) /\ ab[j] = a[j]
        /\ \A j \in 1..Len(b) : Len(a) + j \in 1..Len(ab) /\ ab[Len(a) + j] = b[j]
    BY <1>3, <1>4, Joined
  <2> QED BY <1>3, <1>5, <2>1
<1>7. Sets(ab, Defaulted)
  BY <1>4, JoinedSets DEF SetsWell
<1>8. NameIs(ab)
  <2> SUFFICES ASSUME NEW k \in 1..(m + n), ab[k][1] = "SESSION_NAME" PROVE ab[k][3] = 12
    BY <1>6 DEF NameIs
  <2>1. CASE k \in 1..m
    BY <1>6, <2>1 DEF SetsWell, NameIs
  <2>2. CASE k \notin 1..m
    <3>1. PICK j \in 1..n : k = m + j
      <4>1. k - m \in 1..n /\ k = m + (k - m)
        BY <1>6, <2>2
      <4> QED BY <4>1
    <3>2. b[j][1] = "SESSION_NAME" /\ j \in DOMAIN b /\ ab[k] = b[j]
      BY <1>6, <3>1
    <3> QED BY <3>2 DEF SetsWell, NameIs
  <2> QED BY <2>1, <2>2
<1>9. \A p : Gives(a, p) \/ Gives(b, p) => Gives(ab, p)
  BY <1>6 DEF Gives
<1>10. SetsWell(ab, Y \cup Z)
  BY <1>7, <1>8, <1>9 DEF SetsWell
<1> QED BY <1>4, <1>10
-----------------------------------------------------------------------------
(* What the flags of ADMIN_STATUS do not change: a PATH of IETF_RSVP is    *)
(* made of objects that do not hold them.                                  *)

Unflagged == Parameters \ {"ADMIN_STATUS_RTAD_FLAGS"}
ButFlags(c, d) ==
  \A p \in Unflagged : c.data[p] = d.data[p] /\ c.void_size[p] = d.void_size[p]
PathKinds == {"GENERALIZED_LABEL_REQUEST", "SENDER_TEMPLATE", "UPSTREAM_LABEL", "ERO",
              "SESSION_IETF", "IPV4_IF_ID_RSVP_HOP", "IPV4_RSVP_HOP", "TIME_VALUES",
              "SESSION_ATTRIBUTE", "TOKEN_SENDER_TSPEC"}

LEMMA FlagsButFlags ==
  ASSUME NEW c, NEW v
  PROVE  ButFlags(SetAdd(c, "ADMIN_STATUS_RTAD_FLAGS", "UC", v), c)
<1>1. PICK p, ty, size : p = "ADMIN_STATUS_RTAD_FLAGS" /\ ty = "UC" /\ size = 0
  OBVIOUS
<1> SUFFICES ASSUME NEW q \in Unflagged
             PROVE  /\ SetAddAt(c, p, ty, v, size, 0).data[q] = c.data[q]
                    /\ SetAddAt(c, p, ty, v, size, 0).void_size[q] = c.void_size[q]
  BY <1>1 DEF ButFlags, SetAdd
<1>2. q \in Parameters /\ q # p
  BY <1>1 DEF Unflagged
<1>3. \A values, n : Slot(c, p, values, n).void_size[q] = c.void_size[q]
  BY <1>2 DEF Slot
<1>4. Add(c, p, ty, v, size).void_size[q] = c.void_size[q]
  BY <1>3 DEF Add
<1>5. SetAt(c, p, ty, v, size, 0).void_size[q] = c.void_size[q]
  BY <1>3 DEF SetAt
<1>6. SetAddAt(c, p, ty, v, size, 0).void_size[q] = c.void_size[q]
  BY <1>4, <1>5 DEF SetAddAt
<1> QED BY <1>2, <1>6, AddLeaves

LEMMA PathKindsRequire ==
  /\ PathKinds \subseteq Classes /\ PathKinds \cap AnyOf = {} /\ PathKinds \cap Subobjects = {}
  /\ \A class \in PathKinds : requirements[class] \subseteq Unflagged
<1>1. PathKinds \subseteq Classes /\ PathKinds \cap AnyOf = {} /\ PathKinds \cap Subobjects = {}
  BY DEF PathKinds, Classes, requirements, AnyOf, Subobjects
<1>2. ASSUME NEW class \in PathKinds PROVE requirements[class] \subseteq Unflagged
  <2>1. requirements[class] \subseteq Parameters
    BY <1>1, RequiredParameters
  <2>2. "ADMIN_STATUS_RTAD_FLAGS" \notin requirements[class]
    BY DEF PathKinds, requirements, SessionId, TokenBucket
  <2> QED BY <2>1, <2>2 DEF Unflagged
<1> QED BY <1>1, <1>2

LEMMA UnflaggedReads ==
  ASSUME NEW c, NEW d, ButFlags(c, d), NEW p \in Unflagged
  PROVE  /\ IsPresent(c, p) <=> IsPresent(d, p)
         /\ \A i : ReadAt(c, p, i) = ReadAt(d, p, i)
         /\ Read(c, p) = Read(d, p)
<1>1. c.data[p] = d.data[p]
  BY DEF ButFlags
<1> QED BY <1>1 DEF IsPresent, IsPresentAt, Read, ReadAt

LEMMA UnflaggedAddable ==
  ASSUME NEW c, NEW d, ButFlags(c, d), NEW class \in PathKinds
  PROVE  check_addable(class, c) <=> check_addable(class, d)
<1>1. \A p \in requirements[class] : IsPresent(c, p) <=> IsPresent(d, p)
  BY PathKindsRequire, UnflaggedReads
<1>2. {p \in requirements[class] : IsPresent(c, p)}
        = {p \in requirements[class] : IsPresent(d, p)}
  BY <1>1
<1> QED BY <1>2, Zenon DEF check_addable

LEMMA UnflaggedAdded ==
  ASSUME NEW c, NEW d, ButFlags(c, d), NEW list \in Seq(PathKinds)
  PROVE  add_objects(<< >>, c, list) = add_objects(<< >>, d, list)
<1> DEFINE N == Len(list)
<1>1. N \in Nat /\ DOMAIN list = 1..N /\ \A n \in 0..(N - 1) : list[n + 1] \in PathKinds
  OBVIOUS
<1> HIDE DEF N
<1>2. PICK f : /\ f[0] = << >>
               /\ \A n \in 0..(N - 1) : f[n + 1] = add_object(f[n], c, list[n + 1])
               /\ add_objects(<< >>, c, list) = f[N]
  <2>1. ObjectsInTurn(c, list, N)
    BY <1>1, CallsInTurn
  <2> QED BY <2>1, Zenon DEF ObjectsInTurn
<1>3. PICK g : /\ g[0] = << >>
               /\ \A n \in 0..(N - 1) : g[n + 1] = add_object(g[n], d, list[n + 1])
               /\ add_objects(<< >>, d, list) = g[N]
  <2>1. ObjectsInTurn(d, list, N)
    BY <1>1, CallsInTurn
  <2> QED BY <2>1, Zenon DEF ObjectsInTurn
<1> DEFINE T == {n \in 0..N : f[n] = g[n]}
<1>4. 0 \in T
  BY <1>1, <1>2, <1>3
<1>5. ASSUME NEW n \in 0..(N - 1), n \in T PROVE n + 1 \in T
  <2>1. n + 1 \in 0..N /\ f[n] = g[n]
    BY <1>1, <1>5
  <2> DEFINE class == list[n + 1]
  <2>2. check_addable(class, c) <=> check_addable(class, d)
    BY <1>1, UnflaggedAddable
  <2> HIDE DEF class
  <2>3. add_object(f[n], c, class) = add_object(f[n], d, class)
    BY <2>2, Zenon DEF add_object
  <2>4. f[n + 1] = g[n + 1]
    BY <1>2, <1>3, <2>1, <2>3 DEF class
  <2> QED BY <2>1, <2>4
<1> HIDE DEF T
<1>6. 0..N \subseteq T
  BY <1>1, <1>4, <1>5, UpTo
<1>7. f[N] = g[N]
  <2>1. N \in T
    BY <1>1, <1>6
  <2> QED BY <2>1 DEF T
<1> QED BY <1>2, <1>3, <1>7

(* Each is written alike, of fields that are not the flags. *)
LEMMA UnflaggedWritten ==
  ASSUME NEW c, NEW d, ButFlags(c, d), Good(c), NEW class \in PathKinds,
         check_addable(class, c), NEW objs
  PROVE  /\ Written(class, c, objs) = Written(class, d, objs)
         /\ Written(class, c, objs).fields \in Seq(WFieldsOf(Unflagged))
<1> DEFINE P == Unflagged
           body == Written(class, c, objs)
<1>1. requirements[class] \subseteq P
  BY PathKindsRequire
<1>2. "DATA_OUT_IF_HANDLE" \in P /\ "SESSION_NAME" \in P /\ "ERO" \in P
  BY DEF Unflagged, Parameters, PT_UI, PT_CS, PT_VS
<1>3. PICK V : c \in StoresOver(V)
  BY DEF Good
<1> HIDE DEF P
<1>4. CASE class \in {"SESSION_IETF", "IPV4_RSVP_HOP", "IPV4_IF_ID_RSVP_HOP"}
  <2>1. \A e : Written(class, e, objs) = WriteSessionAndHop(class, e)
    BY <1>4 DEF Written
  <2>2. Formed(WriteSessionAndHop(class, c), P)
    BY <1>1, <1>2, <1>4, WriteSessionAndHopIn DEF Sound, Formed
  <2>3. IsPresent(c, "DATA_OUT_IF_HANDLE") <=> IsPresent(d, "DATA_OUT_IF_HANDLE")
    BY <1>2, UnflaggedReads DEF P
  <2>4. WriteSessionAndHop(class, c) = WriteSessionAndHop(class, d)
    BY <1>4, <2>3 DEF WriteSessionAndHop
  <2> QED BY <2>1, <2>2, <2>4 DEF Formed, P
<1>5. CASE class = "TIME_VALUES"
  <2>1. \A e : Written(class, e, objs) = WriteTimeErrorStyle(class, e)
    BY <1>5 DEF Written
  <2>2. Formed(WriteTimeErrorStyle(class, c), P)
    BY <1>1, <1>5, WriteTimeErrorStyleIn DEF Sound, Formed
  <2>3. WriteTimeErrorStyle(class, c) = WriteTimeErrorStyle(class, d)
    BY <1>5 DEF WriteTimeErrorStyle
  <2> QED BY <2>1, <2>2, <2>3 DEF Formed, P
<1>6. CASE class \in {"SENDER_TEMPLATE", "TOKEN_SENDER_TSPEC"}
  <2>1. \A e : Written(class, e, objs) = WriteSenderAndFilter(class, e)
    BY <1>6 DEF Written
  <2>2. Formed(WriteSenderAndFilter(class, c), P)
    BY <1>1, <1>6, WriteSenderAndFilterIn DEF Sound, Formed
  <2>3. WriteSenderAndFilter(class, c) = WriteSenderAndFilter(class, d)
    BY <1>6 DEF WriteSenderAndFilter
  <2> QED BY <2>1, <2>2, <2>3 DEF Formed, P
<1>7. CASE class \in {"GENERALIZED_LABEL_REQUEST", "ERO"}
  <2>1. \A e : Written(class, e, objs) = WriteLabelAndRoute(class, e)
    BY <1>7 DEF Written
  <2>2. Formed(WriteLabelAndRoute(class, c), P)
    BY <1>1, <1>3, <1>7, WriteLabelAndRouteIn DEF Sound, Formed
  <2>3. c.data["ERO"] = d.data["ERO"]
    BY <1>2 DEF ButFlags, P
  <2>4. WriteLabelAndRoute(class, c) = WriteLabelAndRoute(class, d)
    BY <1>7, <2>3 DEF WriteLabelAndRoute
  <2> QED BY <2>1, <2>2, <2>4 DEF Formed, P
<1>8. CASE class \in {"UPSTREAM_LABEL", "SESSION_ATTRIBUTE"}
  <2>1. \A e : Written(class, e, objs) = WriteStatusAndAttribute(class, e)
    BY <1>8 DEF Written
  <2>2. class = "SESSION_ATTRIBUTE" => c.data["SESSION_NAME"] # << >>
    <3>1. requirements[class] \subseteq Held(c)
      BY PathKindsRequire, AddableHeld
    <3>2. class = "SESSION_ATTRIBUTE" => "SESSION_NAME" \in requirements[class]
      BY DEF requirements
    <3> QED BY <3>1, <3>2 DEF Held
  <2>3. Formed(WriteStatusAndAttribute(class, c), P)
    BY <1>1, <1>3, <1>8, <2>2, WriteStatusAndAttributeIn DEF Sound, Formed
  <2>4. Read(c, "SESSION_NAME") = Read(d, "SESSION_NAME")
    BY <1>2, UnflaggedReads DEF P
  <2>5. WriteStatusAndAttribute(class, c) = WriteStatusAndAttribute(class, d)
    BY <1>8, <2>4 DEF WriteStatusAndAttribute
  <2> QED BY <2>1, <2>3, <2>5 DEF Formed, P
<1> QED BY <1>4, <1>5, <1>6, <1>7, <1>8 DEF PathKinds

EncodedAs(f, v, flags, hop) ==
  IF f.pars = << >> THEN 0
  ELSE CASE f.kind = "granularity" -> IF v % 256 < 128 THEN v % 256 ELSE 65280 + (v % 256)
         [] f.kind = "int24" -> v % 2^24
         [] f.kind = "rtad"  -> v % 16
         [] f.kind = "flags" -> flags
         [] f.kind = "ero"   -> [hop EXCEPT !.loose = IF @ = 1 THEN 1 ELSE 0]
         [] OTHER -> v
FirstHeld(f, c) == IF IsPresent(c, f.pars[1]) THEN Read(c, f.pars[1]) ELSE 0
FlagsHeld(f, c) == [i \in DOMAIN f.pars |-> Read(c, f.pars[i]) # 0]

LEMMA EncodedIs ==
  ASSUME NEW f, NEW c
  PROVE  Encoded(f, c) = EncodedAs(f, FirstHeld(f, c), FlagsHeld(f, c), ReadAt(c, "ERO", f.tag - 1))
<1>1. PICK v, w, h : /\ v = FirstHeld(f, c) /\ w = FlagsHeld(f, c)
                     /\ h = ReadAt(c, "ERO", f.tag - 1)
  OBVIOUS
<1>2. Encoded(f, c) =
        IF f.pars = << >> THEN 0
        ELSE CASE f.kind = "granularity" -> IF v % 256 < 128 THEN v % 256 ELSE 65280 + (v % 256)
               [] f.kind = "int24" -> v % 2^24
               [] f.kind = "rtad"  -> v % 16
               [] f.kind = "flags" -> w
               [] f.kind = "ero"   -> [h EXCEPT !.loose = IF @ = 1 THEN 1 ELSE 0]
               [] OTHER -> v
  BY <1>1, SMT DEF Encoded, FirstHeld, FlagsHeld
<1> QED BY <1>1, <1>2 DEF EncodedAs

LEMMA UnflaggedEncoded ==
  ASSUME NEW c, NEW d, ButFlags(c, d), NEW f \in WFieldsOf(Unflagged)
  PROVE  WrittenField(f, c) = WrittenField(f, d)
<1>1. f.pars \in Seq(Unflagged) /\ "ERO" \in Unflagged
  BY DEF WFieldsOf, Unflagged, Parameters, PT_VS
<1>2. \A i \in DOMAIN f.pars : f.pars[i] \in Unflagged
  <2>1. PICK s : s = f.pars
    OBVIOUS
  <2>2. s \in Seq(Unflagged)
    BY <1>1, <2>1
  <2>3. \A i \in DOMAIN s : s[i] \in Unflagged
    BY <2>2
  <2> QED BY <2>1, <2>3
<1>3. Encoded(f, c) = Encoded(f, d)
  <2>1. CASE f.pars = << >>
    <3>1. \A v, flags, hop : EncodedAs(f, v, flags, hop) = 0
      BY <2>1 DEF EncodedAs
    <3> QED BY <3>1, EncodedIs
  <2>2. CASE f.pars # << >>
    <3>1. 1 \in DOMAIN f.pars
      BY <1>1, <2>2
    <3>2. FirstHeld(f, c) = FirstHeld(f, d)
      <4>1. /\ IsPresent(c, f.pars[1]) <=> IsPresent(d, f.pars[1])
            /\ Read(c, f.pars[1]) = Read(d, f.pars[1])
        BY <1>2, <3>1, UnflaggedReads
      <4> QED BY <4>1 DEF FirstHeld
    <3>3. FlagsHeld(f, c) = FlagsHeld(f, d)
      <4>1. \A i \in DOMAIN f.pars : Read(c, f.pars[i]) = Read(d, f.pars[i])
        BY <1>2, UnflaggedReads
      <4> QED BY <4>1 DEF FlagsHeld
    <3>4. ReadAt(c, "ERO", f.tag - 1) = ReadAt(d, "ERO", f.tag - 1)
      BY <1>1, UnflaggedReads
    <3> QED BY <3>2, <3>3, <3>4, EncodedIs
  <2> QED BY <2>1, <2>2
<1> QED BY <1>3 DEF WrittenField

LEMMA UnflaggedWire ==
  ASSUME NEW c, NEW d, ButFlags(c, d), Fit(c), NEW list \in Seq(PathKinds)
  PROVE  WireFrom(c, list) = WireFrom(d, list)
<1> DEFINE objs == add_objects(<< >>, c, list)
           own == Ascending({i \in DOMAIN objs : objs[i] \notin Subobjects})
<1>1. objs = add_objects(<< >>, d, list)
  BY UnflaggedAdded
<1>2. list \in Seq(Usual)
  <2>1. PathKinds \subseteq Usual
    BY DEF PathKinds, Usual
  <2> QED BY <2>1, SequenceIn
<1>3. Fitting(objs, c, list)
  BY <1>2, UsualFits, ObjectsWritable
<1>4. objs \in Seq(Classes) /\ \A i \in DOMAIN objs : objs[i] \in PathKinds /\ check_addable(objs[i], c)
  <2>1. objs \in Seq(Classes) /\ Addable(objs, c) /\ \A i \in DOMAIN objs : Occurs(objs[i], list)
    BY <1>3 DEF Fitting
  <2>2. \A x : Occurs(x, list) => x \in PathKinds
    BY DEF Occurs
  <2> HIDE DEF objs
  <2> QED BY <2>1, <2>2 DEF Addable
<1> HIDE DEF objs
<1>5. ASSUME NEW k \in DOMAIN own PROVE own[k] \in DOMAIN objs
  <2> DEFINE S == {i \in DOMAIN objs : objs[i] \notin Subobjects}
  <2>1. S \in SUBSET (1..Len(objs)) /\ Len(objs) \in Nat /\ DOMAIN objs = 1..Len(objs)
    BY <1>4
  <2> HIDE DEF S
  <2>2. \A i \in DOMAIN Ascending(S) : Ascending(S)[i] \in S
    BY <2>1, AscendingPlaces
  <2> QED BY <1>5, <2>2 DEF S
<1> HIDE DEF own
<1>6. ASSUME NEW k \in DOMAIN own
      PROVE  WrittenObject(objs[own[k]], Written(objs[own[k]], c, objs), c)
               = WrittenObject(objs[own[k]], Written(objs[own[k]], d, objs), d)
  <2>1. PICK class : class = objs[own[k]]
    OBVIOUS
  <2>2. class \in PathKinds /\ check_addable(class, c)
    BY <1>4, <1>5, <2>1
  <2>3. PICK body : body = Written(class, c, objs)
    OBVIOUS
  <2>4. body = Written(class, d, objs) /\ body.fields \in Seq(WFieldsOf(Unflagged))
    BY <2>2, <2>3, UnflaggedWritten DEF Fit
  <2>5. \A i \in DOMAIN body.fields : WrittenField(body.fields[i], c) = WrittenField(body.fields[i], d)
    <3>1. PICK s : s = body.fields
      OBVIOUS
    <3>2. s \in Seq(WFieldsOf(Unflagged))
      BY <2>4, <3>1
    <3>3. \A i \in DOMAIN s : s[i] \in WFieldsOf(Unflagged)
      BY <3>2
    <3>4. \A i \in DOMAIN s : WrittenField(s[i], c) = WrittenField(s[i], d)
      BY <3>3, UnflaggedEncoded
    <3> QED BY <3>1, <3>4
  <2>6. WrittenObject(class, body, c) = WrittenObject(class, body, d)
    BY <2>5 DEF WrittenObject
  <2> QED BY <2>1, <2>3, <2>4, <2>6
<1>7. get_data(objs, c) = get_data(objs, d)
  BY <1>6, Zenon DEF get_data, own
<1> QED BY <1>1, <1>7 DEF WireFrom, objs
================================================================================
