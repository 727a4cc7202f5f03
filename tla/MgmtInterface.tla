----------------------------- MODULE MgmtInterface -----------------------------
(***************************************************************************)
(* mgmt_interface: between the connections, which ask the client about     *)
(* messages of the router (ask_gui), and the client, which creates and     *)
(* deletes paths and answers.  Two arrays of slots and the table of the    *)
(* client's paths, without a lock: askers fill pending_rsvp_packets, the   *)
(* socket thread fills pending_mgmt_packets, the listener empties both.    *)
(*                                                                         *)
(* Of what is sent to the client only the CREATE REQs are followed, since  *)
(* they are answered; what the messages hold is MgmtPacket's.  What a      *)
(* connection does with an answer or a request is RsvpConnection's.  The   *)
(* agent that connects to another agent's interface is left out.           *)
(***************************************************************************)
EXTENDS Integers, Sequences, FiniteSets, SequencesExt

CONSTANTS
  Paths,                       \* tunnel ids
  Askers,                      \* the receiver and refresh threads
  MAX_PENDING_RSVP_PACKETS,    \* 100 in the program,
  MAX_PENDING_MGMT_PACKETS,    \* 100,
  MAX_MGMT_PATHS,              \* 100
  ID_RANGE,                    \* 2^16: message ids are unsigned short
  MaxAsked, MaxClient          \* bounds: what is asked, what the client sends

ASSUME MgmtAssumption ==
  /\ MAX_PENDING_RSVP_PACKETS \in Nat \ {0} /\ MAX_PENDING_MGMT_PACKETS \in Nat \ {0}
  /\ MAX_MGMT_PATHS \in Nat \ {0} /\ ID_RANGE \in Nat \ {0}
  /\ MaxAsked \in Nat /\ MaxClient \in Nat
  /\ Paths \subseteq Nat /\ Paths # {}

RsvpSlots == 0 .. MAX_PENDING_RSVP_PACKETS - 1
MgmtSlots == 0 .. MAX_PENDING_MGMT_PACKETS - 1

(* What is asked: a PATH, a PATH that asks for deletion (flags R and D), a *)
(* RESV; an error or a tear-down ends a path.  n: its number. *)
Kinds == {"path", "path rd", "resv", "end"}
Messages == [n : Nat \ {0}, cid : Paths, kind : Kinds]
NoMessage == [n |-> 0, cid |-> -1, kind |-> "none"]

(* What the client sends: its n-th message; other: a CREATE REQ or STATUS  *)
(* REQ.  request: for an answer, the number of what was asked. *)
Whats == {"delete", "other", "ack", "nack"}
Packets == [n : Nat \ {0}, what : Whats, path : Paths, id : Nat, request : Nat]
NoPacket == [n |-> 0, what |-> "none", path |-> -1, id |-> 0, request |-> 0]

(* What became of a report. *)
Reports == [n : Nat, how : {"none", "told", "no client", "not listed"}]

VARIABLES
  pending_rsvp_packets,    \* conf holds mtype too; of a free slot nothing
                           \* but mmid is looked at again
  pending_mgmt_packets,
  local_next_m_id,
  paths,                   \* paths[0 .. paths_count - 1], their tunnel ids
  connected,               \* STATE_CONNECTED
  touches,                 \* the semaphore of generic_interface
  lpc, k,                  \* listener: where it is, at which slot
  apc, slot, asking,       \* an asker: where, which slot, which message
  asked, sent,             \* how many messages were asked, how many read
  requests,                \* the CREATE REQs the client may answer
  delivered,               \* the answer the listener has just delivered
  report,                  \* what became of the report it has just taken
  answered,                \* numbers of PATHs whose answer was read, not served
  confirmed, doubled,      \* history: paths set up and not deleted; has a path
                           \* been listed twice, or not for lack of room?
  wild                     \* history: two threads met in one slot

arrays == << pending_rsvp_packets, pending_mgmt_packets >>
askers == << apc, slot, asking, asked >>
table == << paths, confirmed, doubled >>
listens == << lpc, k, local_next_m_id, table, delivered, report >>
socket == << connected, sent >>
history == << requests, answered >>
vars == << arrays, touches, askers, listens, socket, history, wild >>

TypeOK ==
  /\ pending_rsvp_packets \in
       [RsvpSlots -> [cid : Paths \cup {-1}, mmid : -1 .. ID_RANGE - 1,
                      waiting_confirmation : BOOLEAN, conf : Messages \cup {NoMessage}]]
  /\ pending_mgmt_packets \in
       [MgmtSlots -> [packet : Packets \cup {NoPacket}, filled : BOOLEAN]]
  /\ local_next_m_id \in 0 .. ID_RANGE - 1
  /\ paths \in Seq(Paths) /\ Len(paths) <= MAX_MGMT_PATHS
  /\ connected \in BOOLEAN /\ touches \in Nat
  /\ lpc \in {"wait", "rsvp", "mgmt", "free"}
  /\ k \in IF lpc = "rsvp" THEN RsvpSlots ELSE MgmtSlots
  /\ apc \in [Askers -> {"idle", "cid", "rest"}]
  /\ slot \in [Askers -> RsvpSlots] /\ asking \in [Askers -> Messages \cup {NoMessage}]
  /\ \A a \in Askers : apc[a] # "idle" => asking[a] \in Messages
  /\ asked \in Nat /\ sent \in Nat
  /\ requests \subseteq [id : Nat, request : Nat, cid : Paths]
  /\ delivered \in [request : Nat, conf : Nat, asked : Paths \cup {-1}, cid : Paths \cup {-1}]
  /\ report \in Reports
  /\ answered \subseteq Nat
  /\ confirmed \subseteq Paths
  /\ doubled \in BOOLEAN /\ wild \in BOOLEAN

NoReport == [n |-> 0, how |-> "none"]
NoAnswer == [request |-> 0, conf |-> 0, asked |-> -1, cid |-> -1]

Init ==
  /\ pending_rsvp_packets =
       [s \in RsvpSlots |-> [cid |-> -1, mmid |-> -1, waiting_confirmation |-> FALSE,
                             conf |-> NoMessage]]
  /\ pending_mgmt_packets = [s \in MgmtSlots |-> [packet |-> NoPacket, filled |-> FALSE]]
  /\ local_next_m_id = 0 /\ paths = << >> /\ connected = FALSE /\ touches = 0
  /\ lpc = "wait" /\ k = 0
  /\ apc = [a \in Askers |-> "idle"]
  /\ slot = [a \in Askers |-> 0] /\ asking = [a \in Askers |-> NoMessage]
  /\ asked = 0 /\ sent = 0
  /\ requests = {} /\ delivered = NoAnswer /\ report = NoReport /\ answered = {}
  /\ confirmed = {} /\ doubled = FALSE /\ wild = FALSE

Lowest(S) == CHOOSE s \in S : \A t \in S : s <= t

-----------------------------------------------------------------------------
(* ask_gui, in the thread of the connection.  No lock: an asker may choose *)
(* a slot another has chosen, and the listener may look at a slot that is  *)
(* half filled.  What follows is not described (wild).                     *)

Unused == {s \in RsvpSlots : pending_rsvp_packets[s].cid = -1}

(* With no client, or no slot, the connection goes on without an answer;   *)
(* nothing changes here. *)
Choose(a) ==
  /\ apc[a] = "idle" /\ connected /\ Unused # {} /\ asked < MaxAsked
  /\ apc' = [apc EXCEPT ![a] = "cid"]
  /\ slot' = [slot EXCEPT ![a] = Lowest(Unused)]
  /\ asked' = asked + 1
  /\ \E p \in Paths, kind \in Kinds :
       asking' = [asking EXCEPT ![a] = [n |-> asked + 1, cid |-> p, kind |-> kind]]
  /\ UNCHANGED << arrays, touches, listens, socket, history, wild >>

SetCid(a) ==
  /\ apc[a] = "cid" /\ apc' = [apc EXCEPT ![a] = "rest"]
  /\ pending_rsvp_packets' =
       [pending_rsvp_packets EXCEPT ![slot[a]].cid = asking[a].cid]
  /\ wild' = (\/ pending_rsvp_packets[slot[a]].cid # -1
              \/ \E b \in Askers \ {a} : apc[b] # "idle" /\ slot[b] = slot[a])
  /\ UNCHANGED << pending_mgmt_packets, touches, slot, asking, asked, listens, socket,
                  history >>

(* The rest of the slot; the asker is done with it and its message. *)
Asked(a) ==
  /\ apc[a] = "rest" /\ apc' = [apc EXCEPT ![a] = "idle"]
  /\ slot' = [slot EXCEPT ![a] = 0] /\ asking' = [asking EXCEPT ![a] = NoMessage]
  /\ pending_rsvp_packets' =
       [pending_rsvp_packets EXCEPT ![slot[a]].conf = asking[a],
                                    ![slot[a]].waiting_confirmation = FALSE]
  /\ UNCHANGED << pending_mgmt_packets, asked, listens, socket, history, wild >>

(* Mutant: the listener is awakened only by messages it has to answer. *)
SetRestForAnswer(a) ==
  /\ Asked(a)
  /\ touches' = IF asking[a].kind = "path" THEN touches + 1 ELSE touches

(* ... and touch(): a listener that comes in between only finds the touch  *)
(* still to come. *)
SetRest(a) == Asked(a) /\ touches' = touches + 1

-----------------------------------------------------------------------------
(* The table of paths.                                                     *)

(* add_path: a path is not listed twice in a row. *)
Added(p) ==
  IF Len(paths) >= MAX_MGMT_PATHS \/ (paths # << >> /\ Last(paths) = p)
  THEN paths
  ELSE Append(paths, p)

Doubles(p) ==
  \/ Len(paths) >= MAX_MGMT_PATHS
  \/ \E i \in DOMAIN paths : paths[i] = p /\ i # Len(paths)

(* Mutant: the entries behind are not moved. *)
DeletedAtEnd(p) ==
  IF \E i \in DOMAIN paths : paths[i] = p THEN SubSeq(paths, 1, Len(paths) - 1) ELSE paths

(* find_path and delete_path: the first with that tunnel id. *)
Deleted(p) ==
  LET found == {i \in DOMAIN paths : paths[i] = p} IN
  IF found = {} THEN paths ELSE RemoveAt(paths, Lowest(found))

Confirm(p) ==
  /\ paths' = Added(p) /\ confirmed' = confirmed \cup {p}
  /\ doubled' = (doubled \/ Doubles(p))

Forget(p) ==
  /\ paths' = Deleted(p) /\ confirmed' = confirmed \ {p}
  /\ UNCHANGED doubled

-----------------------------------------------------------------------------
(* listener: check_pending_rsvp_packet for each slot, then                 *)
(* check_pending_mgnt_packet for each.                                     *)

Wake ==
  /\ lpc = "wait" /\ touches > 0 /\ touches' = touches - 1
  /\ lpc' = "rsvp" /\ k' = 0
  /\ UNCHANGED << arrays, askers, local_next_m_id, table, delivered, socket, history, wild >>

Pending == pending_rsvp_packets[k]

(* Some asker has written the connection into the slot, not yet the rest.  *)
HalfFilled(s) == \E a \in Askers : apc[a] = "rest" /\ slot[a] = s

(* Mutant: one slot too many is looked at. *)
NextRsvpPast ==
  /\ IF k = MAX_PENDING_RSVP_PACKETS
     THEN lpc' = "mgmt" /\ k' = 0
     ELSE lpc' = lpc /\ k' = k + 1
  /\ UNCHANGED << pending_mgmt_packets, touches, askers, delivered, answered, socket >>

(* To the next slot; after the last to the messages of the client. *)
NextRsvp ==
  /\ IF k = MAX_PENDING_RSVP_PACKETS - 1
     THEN lpc' = "mgmt" /\ k' = 0
     ELSE lpc' = lpc /\ k' = k + 1
  /\ UNCHANGED << pending_mgmt_packets, touches, askers, delivered, answered, socket >>

(* and after the last of these the listener waits. *)
NextMgmt ==
  IF k = MAX_PENDING_MGMT_PACKETS - 1
  THEN lpc' = "wait" /\ k' = 0
  ELSE lpc' = "mgmt" /\ k' = k + 1

(* What is left in the slot is taken for the message of the connection. *)
HalfRead ==
  /\ lpc = "rsvp" /\ NextRsvp /\ HalfFilled(k) /\ wild' = TRUE
  /\ UNCHANGED << pending_rsvp_packets, local_next_m_id, table, requests >>

NothingPending ==
  /\ lpc = "rsvp" /\ NextRsvp /\ ~ HalfFilled(k)
  /\ \/ Pending.cid = -1
     \/ Pending.conf.kind \in {"path", "path rd"} /\ Pending.waiting_confirmation
  /\ UNCHANGED << pending_rsvp_packets, local_next_m_id, table, requests, wild >>

(* A PATH is put to the client with the next id. *)
RequestCreate ==
  /\ lpc = "rsvp" /\ NextRsvp /\ ~ HalfFilled(k)
  /\ Pending.cid # -1 /\ Pending.conf.kind = "path" /\ ~ Pending.waiting_confirmation
  /\ pending_rsvp_packets' =
       [pending_rsvp_packets EXCEPT ![k].mmid = local_next_m_id,
                                    ![k].waiting_confirmation = TRUE]
  /\ local_next_m_id' = (local_next_m_id + 1) % ID_RANGE
  /\ requests' = IF connected
                 THEN requests \cup {[id |-> local_next_m_id, request |-> Pending.conf.n,
                                      cid |-> Pending.conf.cid]}
                 ELSE requests
  /\ UNCHANGED << table, wild >>

(* A PATH that asks for deletion is reported, and keeps its slot. *)
RequestDelete ==
  /\ lpc = "rsvp" /\ NextRsvp /\ ~ HalfFilled(k)
  /\ Pending.cid # -1 /\ Pending.conf.kind = "path rd" /\ ~ Pending.waiting_confirmation
  /\ pending_rsvp_packets' = [pending_rsvp_packets EXCEPT ![k].waiting_confirmation = TRUE]
  /\ UNCHANGED << local_next_m_id, table, requests, wild >>

(* cid = -1: the slot is free. *)
FreeSlot(s) ==
  pending_rsvp_packets' = [pending_rsvp_packets EXCEPT ![s].cid = -1, ![s].conf = NoMessage,
                                                       ![s].waiting_confirmation = FALSE]

(* What the client hears: nothing if there is none (send_mgnt_packet fails *)
(* and nobody looks), nor of a RESV if add_path does not list the path.    *)
Told(m) ==
  [n |-> m.n, how |-> CASE ~ connected                                   -> "no client"
                        [] connected /\ m.kind = "resv" /\ Added(m.cid) = paths -> "not listed"
                        [] OTHER                                         -> "told"]

(* A RESV confirms a path of the client; errors and tear-downs end one. *)
Inform ==
  /\ lpc = "rsvp" /\ NextRsvp /\ ~ HalfFilled(k)
  /\ Pending.cid # -1 /\ Pending.conf.kind \in {"resv", "end"}
  /\ IF Pending.conf.kind = "resv" THEN Confirm(Pending.cid) ELSE Forget(Pending.cid)
  /\ FreeSlot(k) /\ report' = Told(Pending.conf)
  /\ UNCHANGED << local_next_m_id, requests, wild >>

Message == pending_mgmt_packets[k].packet

NoneReceived ==
  /\ lpc = "mgmt" /\ ~ pending_mgmt_packets[k].filled
  /\ NextMgmt
  /\ UNCHANGED << arrays, touches, askers, local_next_m_id, table, delivered, socket,
                  history, wild >>

(* The end of check_pending_mgnt_packet: length = -1, *)
Served ==
  /\ lpc = "mgmt" /\ pending_mgmt_packets[k].filled
  /\ lpc' = "free"
  /\ pending_mgmt_packets' =
       [pending_mgmt_packets EXCEPT ![k] = [packet |-> NoPacket, filled |-> FALSE]]
  /\ UNCHANGED << touches, askers, k, local_next_m_id, socket, requests >>

(* free(packet): by then the socket thread may have put another there. *)
Free ==
  /\ lpc = "free" /\ NextMgmt
  /\ wild' = (Message # NoPacket)
  /\ delivered' = NoAnswer
  /\ UNCHANGED << arrays, touches, askers, local_next_m_id, table, socket, history >>

(* CREATE REQ makes a connection, STATUS REQ is answered from the table    *)
(* and the connections.  DELETE REQ drops the path if there is a           *)
(* connection, whatever destroy_path did. *)
ServeRequest ==
  /\ Served /\ Message.what \in {"delete", "other"}
  /\ \/ Message.what = "delete" /\ Forget(Message.path)
     \/ UNCHANGED table
  /\ UNCHANGED << pending_rsvp_packets, delivered, answered, wild >>

Unnumbered == {s \in RsvpSlots : pending_rsvp_packets[s].mmid = -1}

(* Mutant: the id is not compared. *)
FindByPath(m) ==
  {s \in RsvpSlots : /\ \A t \in Unnumbered : s < t
                     /\ pending_rsvp_packets[s].cid = m.path}

(* Mutant: the id is compared with the one before. *)
FindByNextId(m) ==
  {s \in RsvpSlots :
     /\ \A t \in Unnumbered : s < t
     /\ pending_rsvp_packets[s].cid = m.path /\ pending_rsvp_packets[s].mmid - 1 = m.id}

(* Slots behind one that never had an id are not looked at. *)
find_pending_rsvp_packet(m) ==
  {s \in RsvpSlots :
     /\ \A t \in Unnumbered : s < t
     /\ pending_rsvp_packets[s].cid = m.path /\ pending_rsvp_packets[s].mmid = m.id}

(* CREATE ACK or NACK: the pending message goes to its connection again,   *)
(* after an ACK the path is listed, whatever the connection did.           *)
ServeAnswer ==
  /\ Served /\ Message.what \in {"ack", "nack"}
  /\ find_pending_rsvp_packet(Message) # {}
  /\ LET s == Lowest(find_pending_rsvp_packet(Message))
         p == pending_rsvp_packets[s] IN
     /\ delivered' = [request |-> Message.request, conf |-> p.conf.n,
                      asked |-> p.conf.cid, cid |-> p.cid]
     /\ IF Message.what = "ack" THEN Confirm(p.cid) ELSE UNCHANGED table
     /\ FreeSlot(s)
     /\ answered' = answered \ {p.conf.n}
     /\ wild' = HalfFilled(s)

(* No pending message is found; the answer is dropped.  The message may be *)
(* behind a slot that never had an id. *)
DropAnswer ==
  /\ Served /\ Message.what \in {"ack", "nack"}
  /\ find_pending_rsvp_packet(Message) = {}
  /\ answered' = IF \E s \in RsvpSlots, t \in Unnumbered :
                      t < s /\ pending_rsvp_packets[s].conf.n = Message.request
                 THEN answered \ {Message.request}
                 ELSE answered
  /\ UNCHANGED << delivered, table, pending_rsvp_packets, wild >>

Listen ==
  \/ Inform
  \/ /\ report' = NoReport
     /\ \/ Wake \/ HalfRead \/ NothingPending \/ RequestCreate \/ RequestDelete
        \/ NoneReceived \/ ServeRequest \/ ServeAnswer \/ DropAnswer \/ Free

-----------------------------------------------------------------------------
(* socket_listener and the client.                                         *)

accepting_connection ==
  /\ ~ connected /\ connected' = TRUE
  /\ UNCHANGED << arrays, touches, askers, listens, sent, history, wild >>

FreeSlots == {s \in MgmtSlots : ~ pending_mgmt_packets[s].filled}

(* Mutant: the last free slot is taken. *)
HighestFree == CHOOSE s \in FreeSlots : \A t \in FreeSlots : t <= s

FirstFree == Lowest(FreeSlots)

Packet(what, path, id, request) ==
  [n |-> sent + 1, what |-> what, path |-> path, id |-> id, request |-> request]

(* agent_api::send_message, with the client's own ids; which path is to be *)
(* created or reported makes no difference to this interface. *)
Requests ==
  {Packet("other", Lowest(Paths), 0, 0)} \cup {Packet("delete", p, 0, 0) : p \in Paths}

(* Or with the id of a CREATE REQ of the agent. *)
Answers ==
  {Packet(what, r.cid, r.id, r.request) : r \in requests, what \in {"ack", "nack"}}

(* The CREATE REQs m does not answer: each is answered once. *)
StillOpen(m) == {r \in requests : r.request # m.request}

(* read_mgnt_packets, with a free slot: a message of the client.  The       *)
(* listener sees nothing of the slot before its length is set.             *)
read_mgnt_packets ==
  /\ connected /\ sent < MaxClient /\ FreeSlots # {}
  /\ sent' = sent + 1
  /\ \E m \in Requests \cup Answers :
       /\ pending_mgmt_packets' = [pending_mgmt_packets EXCEPT ![FirstFree] = [packet |-> m, filled |-> TRUE]]
       /\ answered' = IF m \in Answers THEN answered \cup {m.request} ELSE answered
       /\ \/ requests' = StillOpen(m)
          \/ \E n \in Answers :       \* n is behind m in one read, and lost
               n.request # m.request /\ requests' = StillOpen(m) \cap StillOpen(n)
  /\ touches' = touches + 1
  /\ UNCHANGED << pending_rsvp_packets, askers, listens, connected, wild >>

(* api_disconnect: read returns 0. *)
Closed ==
  /\ connected /\ FreeSlots # {} /\ connected' = FALSE
  /\ UNCHANGED << arrays, touches, askers, listens, sent, history, wild >>

-----------------------------------------------------------------------------

Fill(a) == SetCid(a) \/ SetRest(a)

Next ==
  /\ ~ wild
  /\ \/ \E a \in Askers : Choose(a) \/ Fill(a)
     \/ Listen \/ accepting_connection \/ read_mgnt_packets \/ Closed

(* The threads go on when they can; nothing is expected of the client: it  *)
(* may stay away.                                                          *)
Fairness ==
  /\ \A a \in Askers : WF_vars(~ wild /\ Fill(a))
  /\ WF_vars(~ wild /\ Listen)

Spec == Init /\ [][Next]_vars /\ Fairness

-----------------------------------------------------------------------------
(* Properties, as long as no two threads have met in a slot.               *)

(* An answer of the client reaches the connection and the PATH it was      *)
(* asked about, though slots are used again and several requests are open  *)
(* (check_pending_mgnt_packet, find_pending_rsvp_packet).                  *)
AnswersMatch ==
  ~ wild => delivered.conf = delivered.request /\ delivered.cid = delivered.asked

(* The table lists the paths that were confirmed and not deleted since,    *)
(* unless one was listed twice or there was no room (add_path,             *)
(* delete_path).                                                           *)
TableListsConfirmed ==
  ~ wild /\ ~ doubled => {paths[i] : i \in DOMAIN paths} = confirmed

(* In one pass over the slots the listener takes the client's messages in  *)
(* the order the client sent them: from the slot it comes to next, or the  *)
(* first when it starts over, later slots hold later messages.  It is no   *)
(* more than that: a message put behind the pass is overtaken by the next  *)
(* one put ahead of it (read_mgnt_packets, listener).                      *)
PassInOrder ==
  LET from == CASE lpc = "mgmt" -> k [] lpc = "free" -> k + 1 [] OTHER -> 0
      held(s) == pending_mgmt_packets[s].packet.n IN
  ~ wild => \A s, t \in MgmtSlots :
              from <= s /\ s < t /\ held(s) # 0 /\ held(t) # 0 => held(s) < held(t)

(* Reports that wait for the listener. *)
Due == {m.n : m \in {x \in {asking[a] : a \in Askers}
                           \cup {pending_rsvp_packets[s].conf : s \in RsvpSlots} :
                      x.kind \in {"resv", "end"}}}

(* A RESV, an error or a tear-down that ask_gui took is told to the client *)
(* if the client does not go away meanwhile, however the askers, the       *)
(* listener and the client interleave; but for a RESV whose path add_path  *)
(* does not list again, or has no room for (check_pending_rsvp_packet).    *)
ReportsTold ==
  \A n \in 1 .. MaxAsked :
    n \in Due ~> \/ wild \/ ~ connected
                 \/ report.n = n /\ report.how \in {"told", "not listed"}

(* A PATH whose answer was read is settled, unless an earlier slot never   *)
(* had an id (read_mgnt_packets, listener, find_pending_rsvp_packet).      *)
AnswersSettled == \A n \in 1 .. MaxAsked : n \in answered ~> (wild \/ n \notin answered)
=============================================================================
