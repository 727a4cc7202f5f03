--------------------------- MODULE RsvpConfiguration ---------------------------
(***************************************************************************)
(* The parameter store of the agent (rsvp_configuration.cpp): 256 slots,   *)
(* each with a type, holding one value or, for the types marked PT_TAB, a  *)
(* list.  Every request of the client, every message of the router and     *)
(* every connection is one such store.                                     *)
(*                                                                         *)
(* A slot is the sequence of its values: <<>> stands for data[p] == NULL   *)
(* and for a list whose first entry is NULL, which no operation of the     *)
(* class tells apart.  void_size[p] is the length of a PT_VS value.  The   *)
(* six overloads of add, set and setadd differ in the type they accept and *)
(* are one operator with the overload as its argument ty.  An allocation   *)
(* that fails is not modelled.                                             *)
(***************************************************************************)
EXTENDS Integers, Sequences, FiniteSetsExt

-----------------------------------------------------------------------------
(* parameter_types[], with the prefix RC_ left out.                        *)

PT_UC == {"WILDCARD_FILTER", "FIXED_FILTER", "SHARED_EXPLICIT",
          "LSP_ENC_TYPE", "LSP_SWITCHING_TYPE", "HELLO_REQ_ACK",
          "SETUP_PRIORITY", "HOLDING_PRIORITY", "LOCAL_PROTECTION_FLAG",
          "LABEL_RECORDING_FLAG", "SE_STYLE_FLAG", "ERROR_FLAGS", "ERROR_CODE",
          "SSDH_SIGNAL_TYPE", "SSDH_RCC", "MSG_ID_FLAGS", "MSG_ID_ACK_NACK",
          "ADMIN_STATUS_RTAD_FLAGS", "CALL_ID_ADDR_TYPE", "SERVICE_LEVEL",
          "ETHERNET_INDEX", "ETHERNET_PROFILE"}

PT_US == {"TUNNEL_ID", "FILTER_SRC_PORT", "SENDER_SRC_ID", "LSP_GPID",
          "ERROR_VALUE", "SSDH_NCC", "SSDH_NVC", "SSDH_MULTIPLIER",
          "CALL_ID_ITU_CC2", "CALL_ID_UAPC1", "ETHERNET_SW_GRANUALITY"}

PT_UI == {"SESSION_DEST_ADDR", "EXTENDED_IPV4_ADDR", "CONTROL_OUT_IF_ADDR",
          "CONTROL_OUT_IF_HANDLE", "REFRESH_PERIOD", "SCOPE_ADDR",
          "MINIMUM_POLICED_UNIT", "MAXIMUM_PACKET_SIZE", "SLACK_TERM",
          "FILTER_SRC_ADDR", "SENDER_SRC_ADDR", "RESV_CONFIRM_RECV_ADDR",
          "HELLO_SRC_INSTANCE", "HELLO_DST_INSTANCE", "RESTART_TIME",
          "RECOVERY_TIME", "RSVP_HOP_TLVS", "ERROR_NODE_ADDR",
          "SSDH_TRANSPARENCY", "SSDH_PROFILE", "MSG_ID_EPOCH", "MSG_ID_ID",
          "UPSTREAM_LABEL", "TNA_SRC_ADDR", "TNA_DST_ADDR",
          "DATA_OUT_IF_ADDR", "DATA_OUT_IF_HANDLE", "DATA_IN_IF_ADDR",
          "DATA_IN_IF_HANDLE", "TR_D_ADDR", "TR_RD_ADDR", "CALL_ID",
          "CALL_ID_SRC_TN_ADDR", "CALL_ID_LOCAL_ID1", "CALL_ID_LOCAL_ID2",
          "CALL_ID_IS", "CALL_ID_ITU_CC1", "CALL_ID_UAPC2", "PATH_STATUS",
          "NOTIFY_ADDRESS"}

PT_F  == {"TOKEN_BUCKET_RATE", "TOKEN_BUCKET_SIZE", "PEAK_DATA_RATE", "RATE",
          "ETHERNET_CIR", "ETHERNET_CBS", "ETHERNET_EIR", "ETHERNET_EBS"}

PT_CS == {"SESSION_NAME"}

PT_VS == {"LABEL", "ERO"}

PT_TAB == {"SCOPE_ADDR", "ERO", "RSVP_HOP_TLVS"}

(* SREFRESH_MESSAGE_ID is the one name of rsvp_configuration.h the         *)
(* constructor gives no type: every overload refuses it.                   *)
Untyped == {"SREFRESH_MESSAGE_ID"}

Parameters == PT_UC \cup PT_US \cup PT_UI \cup PT_F \cup PT_CS \cup PT_VS \cup Untyped

Types == {"UC", "US", "UI", "F", "CS", "VS"}

(* (parameter_types[p] & PT_ty) != 0 *)
HasType(p, ty) ==
  CASE ty = "UC" -> p \in PT_UC
    [] ty = "US" -> p \in PT_US
    [] ty = "UI" -> p \in PT_UI
    [] ty = "F"  -> p \in PT_F
    [] ty = "CS" -> p \in PT_CS
    [] ty = "VS" -> p \in PT_VS

-----------------------------------------------------------------------------
(* The stores.  Values are whatever the caller stores: the class copies    *)
(* bytes and looks at none.                                                *)

Empty == [data      |-> [p \in Parameters |-> << >>],
          void_size |-> [p \in Parameters |-> 0]]

(* The copy constructor and operator= copy every slot and every length:    *)
(* assigning a store is assigning the value of this state.                 *)
Stores(V) == [data : [Parameters -> Seq(V)], void_size : [Parameters -> Nat]]

(* The store c with the slot p replaced. *)
Slot(c, p, values, size) ==
  [data      |-> [q \in Parameters |-> IF q = p THEN values ELSE c.data[q]],
   void_size |-> [q \in Parameters |-> IF q = p THEN size ELSE c.void_size[q]]]

(* ispresent(p, i): the index counts for a list only. *)
IsPresentAt(c, p, i) ==
  IF p \in PT_TAB THEN i < Len(c.data[p]) ELSE Len(c.data[p]) # 0

IsPresent(c, p) == IsPresentAt(c, p, 0)

(* read(p, i) of a value that is present. *)
ReadAt(c, p, i) == IF p \in PT_TAB THEN c.data[p][i + 1] ELSE c.data[p][1]

Read(c, p) == ReadAt(c, p, 0)

-----------------------------------------------------------------------------
(* add: a value is appended to a list, and stored in an empty slot.        *)

(* Why add returns an error: the overload is not the parameter's type      *)
(* (ERROR_INC_PAR), the slot is taken (ERROR_VAL_PRES), or the length      *)
(* differs from that of the values listed so far (ERROR_DIFF_VOID_SIZE).   *)
AddRefused(c, p, ty, size) ==
  \/ ~ HasType(p, ty)
  \/ p \notin PT_TAB /\ IsPresent(c, p)
  \/ ty = "VS" /\ p \in PT_TAB /\ c.void_size[p] \notin {0, size}

Add(c, p, ty, v, size) ==
  IF AddRefused(c, p, ty, size)
  THEN c
  ELSE Slot(c, p, Append(c.data[p], v), IF ty = "VS" THEN size ELSE c.void_size[p])

(* set: replaces a value that is there; a listed one keeps its length. *)
SetRefused(c, p, ty, size, i) ==
  \/ ~ HasType(p, ty)
  \/ ~ IsPresentAt(c, p, i)
  \/ ty = "VS" /\ p \in PT_TAB /\ c.void_size[p] # size

(* Mutant: the old value is not deleted. *)
SetBehindOld(c, p, ty, v, size, i) ==
  IF SetRefused(c, p, ty, size, i)
  THEN c
  ELSE Slot(c, p, Append(c.data[p], v), IF ty = "VS" THEN size ELSE c.void_size[p])

SetAt(c, p, ty, v, size, i) ==
  IF SetRefused(c, p, ty, size, i)
  THEN c
  ELSE Slot(c, p, IF p \in PT_TAB THEN [c.data[p] EXCEPT ![i + 1] = v] ELSE << v >>,
            IF ty = "VS" THEN size ELSE c.void_size[p])

(* setadd: add is tried whatever the reason set failed for. *)
SetAddAt(c, p, ty, v, size, i) ==
  IF SetRefused(c, p, ty, size, i)
  THEN Add(c, p, ty, v, size)
  ELSE SetAt(c, p, ty, v, size, i)

SetAdd(c, p, ty, v) == SetAddAt(c, p, ty, v, 0, 0)

(* remove(p, i): the values behind a removed one move down; the length is  *)
(* forgotten with the last value.                                          *)
RemoveValue(c, p, i) ==
  IF p \notin PT_TAB
  THEN Slot(c, p, << >>, 0)
  ELSE IF i >= Len(c.data[p])
  THEN c
  ELSE Slot(c, p, SubSeq(c.data[p], 1, i) \o SubSeq(c.data[p], i + 2, Len(c.data[p])),
            IF Len(c.data[p]) = 1 THEN 0 ELSE c.void_size[p])

RemoveParam(c, p) == RemoveValue(c, p, 0)

-----------------------------------------------------------------------------
(* Calls one after the other, as one operator each: the callers' blocks of *)
(* adds and setadds.                                                       *)

Call(par, type, val, size) == [par |-> par, type |-> type, val |-> val, size |-> size]

(* The members of a finite set of numbers, the least first. *)
Ascending(S) ==
  [i \in 1..Cardinality(S) |-> CHOOSE k \in S : Cardinality({j \in S : j <= k}) = i]

(* Calls of add; of several for a parameter that is no list the first that *)
(* is accepted counts.  The entries of a list given here are of one size.  *)
AddEach(c, calls) ==
  LET taken(p) == {k \in DOMAIN calls : /\ calls[k].par = p
                                       /\ ~ AddRefused(c, p, calls[k].type, calls[k].size)}
      listed(p) == [i \in DOMAIN Ascending(taken(p)) |-> calls[Ascending(taken(p))[i]].val]
  IN  [data      |-> [p \in Parameters |->
                        IF taken(p) = {} THEN c.data[p]
                        ELSE IF p \in PT_TAB THEN c.data[p] \o listed(p)
                        ELSE << calls[Min(taken(p))].val >>],
       void_size |-> [p \in Parameters |->
                        IF p \in PT_VS /\ taken(p) # {} THEN calls[Min(taken(p))].size
                        ELSE c.void_size[p]]]

(* A call of setadd, by the type of its overload. *)
UC(p, v) == << p, "UC", v >>
US(p, v) == << p, "US", v >>
UI(p, v) == << p, "UI", v >>
FL(p, v) == << p, "F", v >>
CS(p, v) == << p, "CS", v >>
VS(p, v) == << p, "VS", v >>

(* Calls of setadd for parameters that are neither lists nor of type PT_VS:*)
(* what is stored last remains, whatever was there, unless the overload is *)
(* not the parameter's.                                                    *)
SetEach(c, calls) ==
  LET given(p) == {k \in DOMAIN calls : calls[k][1] = p /\ HasType(p, calls[k][2])}
  IN  [data      |-> [p \in Parameters |->
                        IF given(p) = {} THEN c.data[p]
                        ELSE << calls[Max(given(p))][3] >>],
       void_size |-> c.void_size]

(* Calls of remove for parameters that are no lists. *)
RemoveEach(c, S) ==
  [data      |-> [p \in Parameters |-> IF p \in S THEN << >> ELSE c.data[p]],
   void_size |-> [p \in Parameters |-> IF p \in S THEN 0 ELSE c.void_size[p]]]

-----------------------------------------------------------------------------
(* copy_from empties the slot and adds the source's values one by one:     *)
(* what is left is the source's slot and, for PT_VS, its length.           *)
CopyFrom(c, p, from) ==
  IF ~ IsPresent(from, p)
  THEN c
  ELSE Slot(c, p, from.data[p], IF p \in PT_VS THEN from.void_size[p] ELSE 0)

(* add_missing and update run copy_from for every parameter of add_from    *)
(* that is absent here, and for every one.                                 *)
CopySelected(c, from, S) ==
  [data      |-> [p \in Parameters |->
                    IF p \in S THEN from.data[p] ELSE c.data[p]],
   void_size |-> [p \in Parameters |->
                    IF p \notin S THEN c.void_size[p]
                    ELSE IF p \in PT_VS THEN from.void_size[p] ELSE 0]]

AddMissing(c, from) ==
  CopySelected(c, from,
               {p \in Parameters : ~ IsPresent(c, p) /\ IsPresent(from, p)})

Update(c, from) ==
  CopySelected(c, from, {p \in Parameters : IsPresent(from, p)})

-----------------------------------------------------------------------------
(* What the users of the class rely on: one value in a slot that is not a  *)
(* list, nothing under a name without a type, and a length of zero exactly *)
(* where no PT_VS value is, since read copies void_size bytes whatever the *)
(* value's own length was.                                                 *)
WellFormed(c) ==
  /\ \A p \in Parameters \ PT_TAB : Len(c.data[p]) <= 1
  /\ \A p \in Untyped : c.data[p] = << >>
  /\ \A p \in Parameters \ PT_VS : c.void_size[p] = 0
  /\ \A p \in PT_VS : c.data[p] = << >> => c.void_size[p] = 0
=============================================================================
