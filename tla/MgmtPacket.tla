------------------------------- MODULE MgmtPacket -------------------------------
(***************************************************************************)
(* The messages between the agent and its client (mgmt_packet.cpp on       *)
(* either side): what a store of parameters becomes on the way, and what   *)
(* the other side makes of it.                                             *)
(*                                                                         *)
(* An object is its number, its data type and its value; both sides step   *)
(* from object to object by the length of the data type, which is the one  *)
(* written.  A name stands for its length, taken to be below 256, the      *)
(* range of the byte it is announced in.                                   *)
(***************************************************************************)
EXTENDS RsvpConfiguration, SequencesExt

Row(id, par, type) == [id |-> id, par |-> par, type |-> type]

(* The objects in the order they are written.  The entries of a route are  *)
(* three objects each, 13 to 15.                                           *)
Table ==
  << Row(1, "SESSION_DEST_ADDR", "UI"),     Row(2, "EXTENDED_IPV4_ADDR", "UI"),
     Row(3, "CONTROL_OUT_IF_ADDR", "UI"),   Row(4, "REFRESH_PERIOD", "UI"),
     Row(5, "TOKEN_BUCKET_RATE", "F"),      Row(6, "TOKEN_BUCKET_SIZE", "F"),
     Row(7, "PEAK_DATA_RATE", "F"),         Row(8, "UPSTREAM_LABEL", "UI"),
     Row(9, "LSP_ENC_TYPE", "UC"),          Row(10, "LSP_SWITCHING_TYPE", "UC"),
     Row(11, "LSP_GPID", "US"),             Row(12, "SESSION_NAME", "CS"),
     Row(13, "ERO", "VS"),                  Row(16, "RSVP_HOP_TLVS", "UI"),
     Row(17, "ERROR_NODE_ADDR", "UI"),      Row(18, "ERROR_FLAGS", "UC"),
     Row(19, "ERROR_CODE", "UC"),           Row(20, "ERROR_VALUE", "US"),
     Row(23, "TUNNEL_ID", "US"),            Row(24, "TR_D_ADDR", "UI"),
     Row(25, "TR_RD_ADDR", "UI"),           Row(26, "CONTROL_OUT_IF_HANDLE", "UI"),
     Row(27, "TNA_SRC_ADDR", "UI"),         Row(28, "TNA_DST_ADDR", "UI"),
     Row(29, "CALL_ID_LOCAL_ID1", "UI"),    Row(30, "CALL_ID_LOCAL_ID2", "UI"),
     Row(31, "SENDER_SRC_ID", "US"),        Row(32, "SETUP_PRIORITY", "UC"),
     Row(33, "HOLDING_PRIORITY", "UC"),     Row(34, "PATH_STATUS", "US"),
     Row(35, "SERVICE_LEVEL", "UC"),        Row(36, "ETHERNET_CIR", "F"),
     Row(37, "ETHERNET_CBS", "F"),          Row(38, "ETHERNET_EIR", "F"),
     Row(39, "ETHERNET_EBS", "F"),          Row(40, "ETHERNET_SW_GRANUALITY", "US"),
     Row(41, "ETHERNET_INDEX", "UC"),       Row(42, "ETHERNET_PROFILE", "UC") >>

Object(id, type, val) == [id |-> id, type |-> type, val |-> val]

RouteObjects(hop) == << Object(13, "UI", hop.address),
                        Object(14, "UC", hop.prefix_length),
                        Object(15, "UC", hop.loose) >>

(* The route is one row of Table and three objects of a message. *)
MultiPart == [id \in {21, 22} |-> "UI"]
DataType(id) ==
  CASE id \in {21, 22} -> MultiPart[id]
    [] id = 13 -> "UI"
    [] id \in {14, 15} -> "UC"
    [] OTHER -> Table[SelectInSeq(Table, LAMBDA row : row.id = id)].type

-----------------------------------------------------------------------------
(* The agent writes.                                                       *)

(* The number of objects is one byte of the message. *)
Message(id, type, comm, objects) ==
  [id |-> id, type |-> type, comm |-> comm, count |-> Len(objects) % 256,
   objects |-> objects]

add_objects_of(row, c) ==
  IF row.par = "ERO"
  THEN FlattenSeq([i \in DOMAIN c.data["ERO"] |-> RouteObjects(c.data["ERO"][i])])
  ELSE [i \in DOMAIN c.data[row.par] |-> Object(row.id, row.type, c.data[row.par][i])]

mgmt_packet(c, id, type, comm, num, count) ==
  LET part == IF num >= 0 /\ num < count
              THEN << Object(21, "UI", num), Object(22, "UI", count) >> ELSE << >>
  IN  Message(id, type, comm,
              part \o FlattenSeq([k \in DOMAIN Table |-> add_objects_of(Table[k], c)]))

(* A message without parameters: every answer that refuses. *)
mgmt_packet_nack(id, type, comm) ==
  Message(id, type, comm, << Object(21, "UI", 0), Object(22, "UI", 0) >>)

-----------------------------------------------------------------------------
(* The agent reads.                                                        *)

(* The parameters an object is added as; 21 and 22 are only for the client.*)
AddedAs(id) ==
  CASE id = 3  -> << "CONTROL_OUT_IF_ADDR", "DATA_IN_IF_ADDR", "DATA_OUT_IF_ADDR" >>
    [] id = 26 -> << "CONTROL_OUT_IF_HANDLE", "DATA_OUT_IF_HANDLE",
                     "DATA_IN_IF_HANDLE" >>
    [] id = 27 -> << "TNA_SRC_ADDR", "CALL_ID_SRC_TN_ADDR" >>
    [] id \in {13, 14, 15, 21, 22} -> << >>
    [] OTHER -> << Table[SelectInSeq(Table, LAMBDA row : row.id = id)].par >>

(* Mutant: the flag of a hop is taken for its prefix. *)
RouteOfFlags(objects) ==
  LET part(id) == Ascending({k \in DOMAIN objects : objects[k].id = id})
      nth(id, n) == objects[part(id)[n]].val
  IN  [n \in 1..Min({Len(part(13)), Len(part(14)), Len(part(15))}) |->
         [address |-> nth(13, n), prefix_length |-> nth(15, n), loose |-> nth(15, n)]]

(* The n-th address, prefix and flag make the n-th entry of the route; an  *)
(* entry that lacks one is dropped.  A hop is eight bytes.                 *)
RouteOf(objects) ==
  LET part(id) == Ascending({k \in DOMAIN objects : objects[k].id = id})
      nth(id, n) == objects[part(id)[n]].val
  IN  [n \in 1..Min({Len(part(13)), Len(part(14)), Len(part(15))}) |->
         [address |-> nth(13, n), prefix_length |-> nth(14, n), loose |-> nth(15, n)]]

(* PATH_STATUS, written as a short and kept as an int, is refused by add.  *)
parse(message) ==
  LET objects  == SubSeq(message.objects, 1, message.count)
      calls(o) == [k \in DOMAIN AddedAs(o.id) |->
                     Call(AddedAs(o.id)[k], o.type, o.val, 0)]
      route    == RouteOf(objects)
  IN  AddEach(Empty,
              FlattenSeq([k \in DOMAIN objects |-> calls(objects[k])])
              \o [n \in DOMAIN route |-> Call("ERO", "VS", route[n], 8)])

-----------------------------------------------------------------------------
(* The client library: its configuration has one field per object, used or *)
(* not, and is here the function of the used ones.                         *)

client_packet(conf, id, type, comm) ==
  LET used == Ascending(DOMAIN conf \cap 1..42)
  IN  Message(id, type, comm,
              [k \in DOMAIN used |-> Object(used[k], DataType(used[k]), conf[used[k]])])

(* Mutant: the loop ends one object early. *)
client_parse_short(message) ==
  LET objects == SubSeq(message.objects, 1, message.count - 1)
      last(n) == objects[SelectLastInSeq(objects, LAMBDA o : o.id = n)].val
  IN  [n \in {o.id : o \in ToSet(objects)} |->
         IF n = 15 /\ last(n) # 1 THEN 0 ELSE last(n)]

(* Of several objects with one number the last is kept; the flag of a hop  *)
(* is 1 or not.                                                            *)
client_parse(message) ==
  LET objects == SubSeq(message.objects, 1, message.count)
      last(n) == objects[SelectLastInSeq(objects, LAMBDA o : o.id = n)].val
  IN  [n \in {o.id : o \in ToSet(objects)} |->
         IF n = 15 /\ last(n) # 1 THEN 0 ELSE last(n)]
=============================================================================
