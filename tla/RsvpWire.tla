------------------------------- MODULE RsvpWire -------------------------------
(***************************************************************************)
(* The contents of the objects of an RSVP message: what get_data writes    *)
(* for a class and what parse_data reads of it (rsvp_packet.cpp).          *)
(*                                                                         *)
(* Bytes are abstracted to fields.  A written object is its class, the     *)
(* length of the body its header announces, and the fields written behind  *)
(* the header, each with its width in bytes.  Numbers keep the narrowings  *)
(* of the code (one byte of a short, 24 bits of an epoch).  Of the byte    *)
(* order only the exchange of a value written by add_addr (as it is) and   *)
(* read by get_int (swapped) is kept, as a change of sign: like the swap   *)
(* it leaves zero alone and undoes itself.  The name of a session stands   *)
(* for its length.  A reader takes from a field only what begins there: a  *)
(* read where no field of that width begins yields Garbage.                *)
(***************************************************************************)
EXTENDS RsvpPacket

(* What it is does not matter; it fits the three bytes of an epoch. *)
Garbage == 999999

(* A field: its kind, the parameters it carries, its width, and for the    *)
(* fields with fixed contents what a reader tells them apart by.           *)
Field(kind, pars, width, tag) ==
  [kind |-> kind, pars |-> pars, width |-> width, tag |-> tag]

Addr(p)  == Field("addr",  <<p>>, 4, 0)      \* add_addr, get_addr
Word(p)   == Field("int",   <<p>>, 4, 0)      \* add_int, get_int
Float(p) == Field("float", <<p>>, 4, 0)      \* add_float, get_float
Short(p) == Field("short", <<p>>, 2, 0)      \* add_short, get_short
Char(p)  == Field("char",  <<p>>, 1, 0)      \* add_char, get_char
Int24(p) == Field("int24", <<p>>, 3, 0)      \* three add_char of one number
Pad(w)   == Field("pad",   << >>, w, 0)      \* fixed bytes no reader looks at
Mark(w, n) == Field("pad", << >>, w, n)      \* fixed bytes a reader looks at

Pad4(n) == IF n % 4 = 0 THEN n ELSE n + 4 - (n % 4)

-----------------------------------------------------------------------------
(* What get_data writes: the length for add_obj_header and the fields.     *)

Body(length, fields) == [length |-> length, fields |-> fields]

BytesOf(fields) == FoldLeft(LAMBDA n, f : n + f.width, 0, fields)

TokenFields == << Float("TOKEN_BUCKET_RATE"), Float("TOKEN_BUCKET_SIZE"),
                  Float("PEAK_DATA_RATE"), Word("MINIMUM_POLICED_UNIT"),
                  Word("MAXIMUM_PACKET_SIZE") >>

(* Since "DEPRECATED IN FINAL UNI2.0Eth" a hop without a data handle has   *)
(* no TLV, though the header still announces one of 8 bytes; the control   *)
(* handle is written as 0.                                                 *)
WriteSessionAndHop(class, c) ==
  CASE class \in {"SESSION_IETF", "SESSION_OIF"} ->
         Body(12, << Addr("SESSION_DEST_ADDR"), Pad(2), Short("TUNNEL_ID"),
                     Addr("EXTENDED_IPV4_ADDR") >>)
    [] class = "IPV4_RSVP_HOP" ->
         Body(8, << Addr("CONTROL_OUT_IF_ADDR"), Word("CONTROL_OUT_IF_HANDLE") >>)
    [] class = "IPV4_IF_ID_RSVP_HOP" ->
         IF IsPresent(c, "DATA_OUT_IF_HANDLE")
         THEN Body(20, << Addr("CONTROL_OUT_IF_ADDR"), Field("int", << >>, 4, 0),
                          Mark(4, 3), Addr("DATA_OUT_IF_ADDR"),
                          Word("DATA_OUT_IF_HANDLE") >>)
         ELSE Body(16, << Addr("CONTROL_OUT_IF_ADDR"), Field("int", << >>, 4, 0) >>)

(* The option vector of a style whose flags are all zero is left out. *)
WriteTimeErrorStyle(class, c) ==
  LET on(p) == IsPresent(c, p) /\ Read(c, p) = 1
  IN  CASE class = "TIME_VALUES" -> Body(4, << Word("REFRESH_PERIOD") >>)
        [] class = "ERROR_SPEC" ->
             Body(8, << Addr("ERROR_NODE_ADDR"), Char("ERROR_FLAGS"),
                        Char("ERROR_CODE"), Short("ERROR_VALUE") >>)
        [] class = "STYLE" ->
             Body(4, IF on("WILDCARD_FILTER") THEN << Pad(3), Mark(1, 17) >>
                     ELSE IF on("FIXED_FILTER") THEN << Pad(3), Mark(1, 10) >>
                     ELSE IF on("SHARED_EXPLICIT") THEN << Pad(3), Mark(1, 18) >>
                     ELSE << Pad(3) >>)

SonetFields == << Char("SSDH_SIGNAL_TYPE"), Char("SSDH_RCC"), Short("SSDH_NCC"),
                  Short("SSDH_NVC"), Short("SSDH_MULTIPLIER"),
                  Word("SSDH_TRANSPARENCY"), Word("SSDH_PROFILE") >>

(* The granularity, an unsigned short, is read as a char and widened. *)
EthernetFields == << Field("granularity", << "ETHERNET_SW_GRANUALITY" >>, 2, 0),
                     Pad(2), Mark(4, 129), Char("ETHERNET_PROFILE"),
                     Char("ETHERNET_INDEX"), Pad(2), Float("ETHERNET_CIR"),
                     Float("ETHERNET_CBS"), Float("ETHERNET_EIR"),
                     Float("ETHERNET_EBS") >>

WriteFlowspec(class, c) ==
  CASE class = "TOKEN_FLOWSPEC" ->
         IF IsPresent(c, "RATE") /\ IsPresent(c, "SLACK_TERM")
         THEN Body(44, << Mark(12, 2) >> \o TokenFields
                       \o << Mark(4, 130), Float("RATE"), Word("SLACK_TERM") >>)
         ELSE Body(32, << Mark(12, 5) >> \o TokenFields)
    [] class = "SONETSDH_FLOWSPEC" -> Body(16, SonetFields)
    [] class = "ETHERNET_FLOWSPEC" -> Body(28, EthernetFields)

WriteSenderAndFilter(class, c) ==
  CASE class = "FILTER_SPEC" ->
         Body(8, << Addr("FILTER_SRC_ADDR"), Pad(2), Short("FILTER_SRC_PORT") >>)
    [] class = "SENDER_TEMPLATE" ->
         Body(8, << Addr("SENDER_SRC_ADDR"), Pad(2), Short("SENDER_SRC_ID") >>)
    [] class = "TOKEN_SENDER_TSPEC" -> Body(32, << Mark(12, 1) >> \o TokenFields)
    [] class = "SONETSDH_SENDER_TSPEC" -> Body(16, SonetFields)
    [] class = "ETHERNET_SENDER_TSPEC" -> Body(28, EthernetFields)

(* A route entry is one field of 8 bytes; a label is padded to four bytes. *)
WriteLabelAndRoute(class, c) ==
  CASE class = "RESV_CONFIRM" -> Body(4, << Addr("RESV_CONFIRM_RECV_ADDR") >>)
    [] class = "GENERALIZED_LABEL" ->
         LET size == Pad4(c.void_size["LABEL"])
         IN  Body(size, << Field("label", << "LABEL" >>, size, 0) >>)
    [] class = "GENERALIZED_LABEL_REQUEST" ->
         Body(4, << Char("LSP_ENC_TYPE"), Char("LSP_SWITCHING_TYPE"),
                    Short("LSP_GPID") >>)
    [] class = "ERO" ->
         Body(8 * Len(c.data["ERO"]),
              [i \in DOMAIN c.data["ERO"] |-> Field("ero", << "ERO" >>, 8, i)])

(* Mutant: all four bytes of the epoch are written behind the flags. *)
WriteWholeEpoch(class, c) ==
  CASE class \in {"HELLO_REQUEST", "HELLO_ACK"} ->
         Body(8, << Word("HELLO_SRC_INSTANCE"), Word("HELLO_DST_INSTANCE") >>)
    [] class \in {"MESSAGE_ID", "MESSAGE_ID_ACK", "MESSAGE_ID_NACK"} ->
         Body(8, << Char("MSG_ID_FLAGS"), Addr("MSG_ID_EPOCH"), Word("MSG_ID_ID") >>)

WriteHelloAndId(class, c) ==
  CASE class \in {"HELLO_REQUEST", "HELLO_ACK"} ->
         Body(8, << Word("HELLO_SRC_INSTANCE"), Word("HELLO_DST_INSTANCE") >>)
    [] class \in {"MESSAGE_ID", "MESSAGE_ID_ACK", "MESSAGE_ID_NACK"} ->
         Body(8, << Char("MSG_ID_FLAGS"), Int24("MSG_ID_EPOCH"), Word("MSG_ID_ID") >>)

(* The three flags of a session attribute are the bits 0 to 2 of one byte; *)
(* of the RTAD flags, R is bit 31 and T, A and D are bits 0 to 2 of a word.*)
SessionFlags == << "LOCAL_PROTECTION_FLAG", "LABEL_RECORDING_FLAG", "SE_STYLE_FLAG" >>

WriteStatusAndAttribute(class, c) ==
  CASE class = "UPSTREAM_LABEL" -> Body(4, << Word("UPSTREAM_LABEL") >>)
    [] class = "RESTART_CAP" ->
         Body(8, << Word("RESTART_TIME"), Word("RECOVERY_TIME") >>)
    [] class = "NOTIFY_REQUEST" -> Body(4, << Addr("NOTIFY_ADDRESS") >>)
    [] class = "ADMIN_STATUS" ->
         Body(4, << Field("rtad", << "ADMIN_STATUS_RTAD_FLAGS" >>, 4, 0) >>)
    [] class = "SESSION_ATTRIBUTE" ->
         LET size == Pad4(Read(c, "SESSION_NAME"))
         IN  Body(size + 4,
                  << Char("SETUP_PRIORITY"), Char("HOLDING_PRIORITY"),
                     Field("flags", SessionFlags, 1, 0),
                     Field("name", << "SESSION_NAME" >>, size + 1, 0) >>)

Subobjects == {"GU_SOURCE_TNA_ADDRESS", "GU_DESTINATION_TNA_ADDRESS",
               "GU_SERVICE_LEVEL"}

(* The subobjects of a UNI object are those the message was given, in the  *)
(* message's order; set_short patches the length afterwards.  CALL_ID_0 is *)
(* an empty object.                                                        *)
WriteUni(class, c, objs) ==
  LET gu(x) == CASE x = "GU_SOURCE_TNA_ADDRESS" ->
                      << Mark(4, 1), Addr("TNA_SRC_ADDR") >>
                 [] x = "GU_DESTINATION_TNA_ADDRESS" ->
                      << Mark(4, 2), Addr("TNA_DST_ADDR") >>
                 [] x = "GU_SERVICE_LEVEL" ->
                      << Mark(4, 5), Char("SERVICE_LEVEL"), Pad(3) >>
      at   == Ascending({i \in DOMAIN objs : objs[i] \in Subobjects})
      subs == FlattenSeq([k \in DOMAIN at |-> gu(objs[at[k]])])
  IN  CASE class = "GENERALIZED_UNI" -> Body(BytesOf(subs), subs)
        [] class = "CALL_ID_0" -> Body(0, << >>)
        [] class = "CALL_ID_1" ->
             Body(16, << Char("CALL_ID_ADDR_TYPE"), Pad(3),
                         Addr("CALL_ID_SRC_TN_ADDR"), Word("CALL_ID_LOCAL_ID1"),
                         Word("CALL_ID_LOCAL_ID2") >>)
        [] class = "CALL_ID_2" ->
             Body(28, << Char("CALL_ID_ADDR_TYPE"), Int24("CALL_ID_IS"),
                         Word("CALL_ID_ITU_CC1"), Short("CALL_ID_ITU_CC2"),
                         Short("CALL_ID_UAPC1"), Word("CALL_ID_UAPC2"),
                         Addr("CALL_ID_SRC_TN_ADDR"), Word("CALL_ID_LOCAL_ID1"),
                         Word("CALL_ID_LOCAL_ID2") >>)

(* No code adds MESSAGE_ID_LIST, which get_data could not write, or SCOPE, *)
(* for which it would not return.                                          *)
Written(class, c, objs) ==
  CASE class \in {"SESSION_IETF", "SESSION_OIF", "IPV4_RSVP_HOP",
                  "IPV4_IF_ID_RSVP_HOP"} -> WriteSessionAndHop(class, c)
    [] class \in {"TIME_VALUES", "ERROR_SPEC", "STYLE"} ->
         WriteTimeErrorStyle(class, c)
    [] class \in {"TOKEN_FLOWSPEC", "SONETSDH_FLOWSPEC", "ETHERNET_FLOWSPEC"} ->
         WriteFlowspec(class, c)
    [] class \in {"FILTER_SPEC", "SENDER_TEMPLATE", "TOKEN_SENDER_TSPEC",
                  "SONETSDH_SENDER_TSPEC", "ETHERNET_SENDER_TSPEC"} ->
         WriteSenderAndFilter(class, c)
    [] class \in {"RESV_CONFIRM", "GENERALIZED_LABEL",
                  "GENERALIZED_LABEL_REQUEST", "ERO"} ->
         WriteLabelAndRoute(class, c)
    [] class \in {"HELLO_REQUEST", "HELLO_ACK", "MESSAGE_ID", "MESSAGE_ID_ACK",
                  "MESSAGE_ID_NACK"} -> WriteHelloAndId(class, c)
    [] class \in {"UPSTREAM_LABEL", "RESTART_CAP", "NOTIFY_REQUEST",
                  "ADMIN_STATUS", "SESSION_ATTRIBUTE"} ->
         WriteStatusAndAttribute(class, c)
    [] class \in {"GENERALIZED_UNI", "CALL_ID_0", "CALL_ID_1", "CALL_ID_2"} ->
         WriteUni(class, c, objs)

(* The parameters the writer of a class reads through a pointer that is    *)
(* NULL when they are absent.                                              *)
NullReads(class, c, objs) ==
  {p \in UNION {ToSet(f.pars) : f \in ToSet(Written(class, c, objs).fields)} :
     ~ IsPresent(c, p)}

(* What a field holds on the wire. *)
Encoded(f, c) ==
  LET v == IF IsPresent(c, f.pars[1]) THEN Read(c, f.pars[1]) ELSE 0
  IN  IF f.pars = << >> THEN 0
      ELSE CASE f.kind = "granularity" ->
                  IF v % 256 < 128 THEN v % 256 ELSE 65280 + (v % 256)
             [] f.kind = "int24" -> v % 2^24
             [] f.kind = "rtad"  -> v % 16
             [] f.kind = "flags" -> [i \in DOMAIN f.pars |-> Read(c, f.pars[i]) # 0]
             [] f.kind = "ero"   ->
                  [ReadAt(c, "ERO", f.tag - 1) EXCEPT !.loose = IF @ = 1 THEN 1 ELSE 0]
             [] OTHER -> v

WrittenField(f, c) ==
  [kind  |-> IF f.kind = "granularity" THEN "short" ELSE f.kind,
   width |-> f.width, tag |-> f.tag, val |-> Encoded(f, c)]

WrittenObject(class, body, c) ==
  [class |-> class, length |-> body.length,
   fields |-> [k \in DOMAIN body.fields |-> WrittenField(body.fields[k], c)]]

(* get_data: the objects of the message that have a header of their own. *)
get_data(objs, c) ==
  LET own == Ascending({i \in DOMAIN objs : objs[i] \notin Subobjects})
  IN  [k \in DOMAIN own |->
         WrittenObject(objs[own[k]], Written(objs[own[k]], c, objs), c)]

(* The body is as long as the header says. *)
Fills(object) == BytesOf(object.fields) = object.length

-----------------------------------------------------------------------------
(* What parse_data takes from an object: the fields it reads, in order.    *)

Tag(object, k) == object.fields[k].tag
Tags(object) == {f.tag : f \in ToSet(object.fields)} \ {0}

Given(p, n) == Field("given", <<p>>, 0, n)    \* add of a constant

ReadSession(object) ==
  << Addr("SESSION_DEST_ADDR"), Pad(2), Short("TUNNEL_ID"),
     Addr("EXTENDED_IPV4_ADDR") >>

(* The TLVs of types 1, 4 and 5 follow each other; one of type 3 is read   *)
(* and then skipped again, which ends the object when it comes last.       *)
ReadHop(object) ==
  LET tlv(t) == CASE t = 1 -> << Pad(4), Addr("DATA_OUT_IF_ADDR") >>
                  [] t = 3 -> << Pad(4), Addr("DATA_OUT_IF_ADDR"),
                                 Word("DATA_OUT_IF_HANDLE"), Pad(8) >>
                  [] t = 4 -> << Pad(4), Addr("DATA_OUT_IF_ADDR"),
                                 Word("DATA_OUT_IF_HANDLE") >>
                  [] t = 5 -> << Pad(4), Addr("DATA_IN_IF_ADDR"),
                                 Word("DATA_IN_IF_HANDLE") >>
                  [] OTHER -> << >>
  IN  << Addr("CONTROL_OUT_IF_ADDR"), Word("CONTROL_OUT_IF_HANDLE") >>
      \o IF object.class = "IPV4_RSVP_HOP" THEN << >>
         ELSE FlattenSeq([k \in DOMAIN object.fields |-> tlv(Tag(object, k))])

(* The tests of the option vector after the first are assignments: every   *)
(* style but the wildcard's is taken for the fixed filter.                 *)
ReadTimeErrorStyle(object) ==
  CASE object.class = "TIME_VALUES" -> << Word("REFRESH_PERIOD") >>
    [] object.class = "ERROR_SPEC" ->
         << Addr("ERROR_NODE_ADDR"), Char("ERROR_FLAGS"), Char("ERROR_CODE"),
            Short("ERROR_VALUE") >>
    [] object.class = "SCOPE" ->
         [k \in DOMAIN object.fields |-> Addr("SCOPE_ADDR")]
    [] object.class = "STYLE" ->
         << Pad(4), IF 17 \in Tags(object) THEN Given("WILDCARD_FILTER", 1)
                    ELSE Given("FIXED_FILTER", 1) >>

ReadEthernet == << Short("ETHERNET_SW_GRANUALITY"), Pad(6),
                   Char("ETHERNET_PROFILE"), Char("ETHERNET_INDEX"), Pad(2),
                   Float("ETHERNET_CIR"), Float("ETHERNET_CBS"),
                   Float("ETHERNET_EIR"), Float("ETHERNET_EBS") >>

ReadTokens == << Float("TOKEN_BUCKET_RATE"), Float("TOKEN_BUCKET_SIZE"),
                 Float("PEAK_DATA_RATE"), Word("MINIMUM_POLICED_UNIT"),
                 Word("MAXIMUM_PACKET_SIZE") >>

ReadSonet == << Char("SSDH_SIGNAL_TYPE"), Char("SSDH_RCC"), Short("SSDH_NCC"),
                Short("SSDH_NVC"), Short("SSDH_MULTIPLIER"),
                Word("SSDH_TRANSPARENCY"), Word("SSDH_PROFILE") >>

ReadFlowspec(object) ==
  CASE object.class = "TOKEN_FLOWSPEC" ->
         IF Tag(object, 1) = 2
         THEN << Pad(12) >> \o ReadTokens
              \o << Pad(4), Float("RATE"), Word("SLACK_TERM") >>
         ELSE IF Tag(object, 1) = 5 THEN << Pad(12) >> \o ReadTokens ELSE << >>
    [] object.class = "SONETSDH_FLOWSPEC" -> ReadSonet
    [] object.class = "ETHERNET_FLOWSPEC" -> ReadEthernet

ReadSenderAndFilter(object) ==
  CASE object.class = "FILTER_SPEC" ->
         << Addr("FILTER_SRC_ADDR"), Pad(2), Short("FILTER_SRC_PORT") >>
    [] object.class = "SENDER_TEMPLATE" ->
         << Addr("SENDER_SRC_ADDR"), Pad(2), Short("SENDER_SRC_ID") >>
    [] object.class = "TOKEN_SENDER_TSPEC" ->
         IF Tag(object, 1) \in {1, 5} THEN << Pad(12) >> \o ReadTokens ELSE << >>
    [] object.class = "SONETSDH_SENDER_TSPEC" -> ReadSonet
    [] object.class = "ETHERNET_SENDER_TSPEC" -> ReadEthernet

ReadLabelAndRoute(object) ==
  CASE object.class = "RESV_CONFIRM" -> << Addr("RESV_CONFIRM_RECV_ADDR") >>
    [] object.class = "GENERALIZED_LABEL" ->
         << Field("label", << "LABEL" >>, object.length, 0) >>
    [] object.class = "GENERALIZED_LABEL_REQUEST" ->
         << Char("LSP_ENC_TYPE"), Char("LSP_SWITCHING_TYPE"), Short("LSP_GPID") >>
    [] object.class = "ERO" ->
         [k \in DOMAIN object.fields |-> Field("ero", << "ERO" >>, 8, 0)]

ReadHelloAndId(object) ==
  LET id == << Char("MSG_ID_FLAGS"), Int24("MSG_ID_EPOCH"), Word("MSG_ID_ID") >>
      hello == << Word("HELLO_SRC_INSTANCE"), Word("HELLO_DST_INSTANCE") >>
  IN  CASE object.class = "HELLO_REQUEST"   -> Append(hello, Given("HELLO_REQ_ACK", 1))
        [] object.class = "HELLO_ACK"       -> Append(hello, Given("HELLO_REQ_ACK", 2))
        [] object.class = "MESSAGE_ID"      -> id
        [] object.class = "MESSAGE_ID_ACK"  -> Append(id, Given("MSG_ID_ACK_NACK", 1))
        [] object.class = "MESSAGE_ID_NACK" -> Append(id, Given("MSG_ID_ACK_NACK", 2))
        [] object.class = "MESSAGE_ID_LIST" -> << Pad(4), Word("SREFRESH_MESSAGE_ID") >>

(* RESTART_CAP is taken for its second number only, from the place of the  *)
(* first; the address to notify is read as a number.                       *)
ReadStatusAndAttribute(object) ==
  CASE object.class = "UPSTREAM_LABEL" -> << Word("UPSTREAM_LABEL") >>
    [] object.class = "RESTART_CAP"    -> << Word("RECOVERY_TIME") >>
    [] object.class = "NOTIFY_REQUEST" -> << Word("NOTIFY_ADDRESS") >>
    [] object.class = "ADMIN_STATUS"   ->
         << Field("rtad", << "ADMIN_STATUS_RTAD_FLAGS" >>, 4, 0) >>
    [] object.class = "SESSION_ATTRIBUTE" ->
         << Char("SETUP_PRIORITY"), Char("HOLDING_PRIORITY"),
            Field("flags", SessionFlags, 1, 0),
            Field("name", << "SESSION_NAME" >>, object.length - 3, 0) >>

(* An address of another type than 1 is skipped; the number of the object  *)
(* CALL_ID_0 is read from behind its empty body.                           *)
ReadUni(object) ==
  LET gu(t) == CASE t = 1 -> << Pad(4), Addr("TNA_SRC_ADDR") >>
                 [] t = 2 -> << Pad(4), Addr("TNA_DST_ADDR") >>
                 [] t = 5 -> << Pad(4), Char("SERVICE_LEVEL"), Pad(3) >>
                 [] OTHER -> << >>
      source == IF object.fields # << >> /\ object.fields[1].val = 1
                THEN Addr("CALL_ID_SRC_TN_ADDR") ELSE Pad(4)
      local  == << source, Word("CALL_ID_LOCAL_ID1"), Word("CALL_ID_LOCAL_ID2") >>
  IN  CASE object.class = "GENERALIZED_UNI" ->
             FlattenSeq([k \in DOMAIN object.fields |-> gu(Tag(object, k))])
        [] object.class = "CALL_ID_0" -> << Word("CALL_ID") >>
        [] object.class = "CALL_ID_1" ->
             << Char("CALL_ID_ADDR_TYPE"), Pad(3) >> \o local
        [] object.class = "CALL_ID_2" ->
             << Char("CALL_ID_ADDR_TYPE"), Int24("CALL_ID_IS"),
                Word("CALL_ID_ITU_CC1"), Short("CALL_ID_ITU_CC2"),
                Short("CALL_ID_UAPC1"), Word("CALL_ID_UAPC2") >> \o local

ReadFields(object) ==
  LET class == object.class
  IN  CASE class \in {"SESSION_IETF", "SESSION_OIF"} -> ReadSession(object)
        [] class \in {"IPV4_RSVP_HOP", "IPV4_IF_ID_RSVP_HOP"} -> ReadHop(object)
        [] class \in {"TIME_VALUES", "ERROR_SPEC", "SCOPE", "STYLE"} ->
             ReadTimeErrorStyle(object)
        [] class \in {"TOKEN_FLOWSPEC", "SONETSDH_FLOWSPEC", "ETHERNET_FLOWSPEC"} ->
             ReadFlowspec(object)
        [] class \in {"FILTER_SPEC", "SENDER_TEMPLATE", "TOKEN_SENDER_TSPEC",
                      "SONETSDH_SENDER_TSPEC", "ETHERNET_SENDER_TSPEC"} ->
             ReadSenderAndFilter(object)
        [] class \in {"RESV_CONFIRM", "GENERALIZED_LABEL",
                      "GENERALIZED_LABEL_REQUEST", "ERO"} ->
             ReadLabelAndRoute(object)
        [] class \in {"HELLO_REQUEST", "HELLO_ACK", "MESSAGE_ID", "MESSAGE_ID_ACK",
                      "MESSAGE_ID_NACK", "MESSAGE_ID_LIST"} -> ReadHelloAndId(object)
        [] class \in {"UPSTREAM_LABEL", "RESTART_CAP", "NOTIFY_REQUEST",
                      "ADMIN_STATUS", "SESSION_ATTRIBUTE"} ->
             ReadStatusAndAttribute(object)
        [] class \in {"GENERALIZED_UNI", "CALL_ID_0", "CALL_ID_1", "CALL_ID_2"} ->
             ReadUni(object)

-----------------------------------------------------------------------------
(* Reading: get_int and the like at an offset, and add of what they return.*)

ReadValue(object, offset, f) ==
  LET starts == {k \in DOMAIN object.fields :
                   /\ BytesOf(SubSeq(object.fields, 1, k - 1)) = offset
                   /\ object.fields[k].width = f.width}
      field  == object.fields[CHOOSE k \in starts : TRUE]
  IN  IF starts = {} THEN Garbage
      ELSE IF field.kind = f.kind THEN field.val
      ELSE IF {field.kind, f.kind} = {"addr", "int"} THEN - field.val
      ELSE Garbage

(* The overload of add the type of a get_ function selects. *)
AddType(kind) ==
  CASE kind \in {"addr", "int", "int24"}             -> "UI"
    [] kind = "short"                               -> "US"
    [] kind \in {"char", "rtad", "flags", "given"}    -> "UC"
    [] kind = "float"                               -> "F"
    [] kind = "name"                                -> "CS"
    [] kind \in {"label", "ero"}                     -> "VS"

(* The calls of add for a field read with the value v; of the session      *)
(* flags only those that are set are added, as 1.                          *)
CallsFor(f, v) ==
  LET set  == Ascending({i \in DOMAIN f.pars : v[i]})
      pars == CASE f.kind = "pad"   -> << >>
                [] f.kind = "flags" -> [j \in DOMAIN set |-> f.pars[set[j]]]
                [] OTHER            -> f.pars
  IN  [j \in DOMAIN pars |->
         Call(pars[j], AddType(f.kind), IF f.kind = "flags" THEN 1 ELSE v, f.width)]

AddsFor(object, reads) ==
  FlattenSeq([k \in DOMAIN reads |->
    CallsFor(reads[k],
             IF reads[k].kind = "given" THEN reads[k].tag
             ELSE ReadValue(object, BytesOf(SubSeq(reads, 1, k - 1)), reads[k]))])

(* Each reader returns at the first add that fails, which a parameter of   *)
(* an earlier object, or twice in one, makes it do.                        *)
AddUntilRefused(c, calls) ==
  LET fails == {k \in DOMAIN calls :
                  \/ AddRefused(c, calls[k].par, calls[k].type, calls[k].size)
                  \/ \E j \in 1..(k - 1) : /\ calls[j].par = calls[k].par
                                          /\ calls[k].par \notin PT_TAB}
      good  == {n \in DOMAIN calls : \A k \in fails : n < k}
  IN  AddEach(c, SubSeq(calls, 1, Cardinality(good)))

parse_object(c, object) == AddUntilRefused(c, AddsFor(object, ReadFields(object)))

(* parse_data goes from header to header by the lengths they announce: it  *)
(* is defined here for messages whose objects fill theirs.                 *)
parse_data(wire) == FoldLeft(parse_object, Empty, wire)
=============================================================================
