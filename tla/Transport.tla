------------------------------- MODULE Transport -------------------------------
(***************************************************************************)
(* The two ends of the agent's raw socket: packets on their way to the     *)
(* handlers (rsvp_socket.cpp and the loop of                               *)
(* rsvp_dispatcher::receiver_thread), and the numbers of the messages sent *)
(* (globals.message_id, rsvp_connection::send_rsvp_message).               *)
(*                                                                         *)
(* What a handler does with a packet is RsvpConnection's; here it may send *)
(* one message.  An SREFRESH is not among the packets: the loop reads a    *)
(* parameter through a NULL pointer for one (rsvp_dispatcher.cpp:167) and  *)
(* the process ends.                                                       *)
(***************************************************************************)
EXTENDS Naturals, Sequences

CONSTANTS
  Packets,      \* what the router and others may send to the machine
  Allowed,      \* those check_packet_valid lets pass, by their destination
  Intact,       \* those with a right checksum
  Hello,        \* HELLO messages, which no connection gets
  NumberIn,     \* of a packet, the number in its MESSAGE_ID (0: no such object)
  Unread,       \* the entry of a read that failed
  Filtered,     \* is there an address to check?
  MAX_RECV,     \* entries of recv_buffer, 256 in the program
  Senders,      \* the refresh threads and the listener
  MaxQueue,     \* bound: packets the kernel holds for the socket
  MaxSent       \* bound: messages the agent sends

ASSUME TransportAssumption ==
  /\ Allowed \subseteq Packets /\ Intact \subseteq Packets /\ Hello \subseteq Packets
  /\ NumberIn \in [Packets -> Nat]
  /\ Unread \notin Packets
  /\ Filtered \in BOOLEAN
  /\ MAX_RECV \in Nat \ {0}
  /\ "recv" \notin Senders /\ "free" \notin Senders
  /\ MaxQueue \in Nat /\ MaxSent \in Nat

Threads == Senders \cup {"recv"}

VARIABLES
  socket_queue,        \* packets the kernel holds for the socket (external)
  recv_buffer,         \* recv_buffer[0 .. recv_buffer_count - 1]
  something_received,  \* local of wait_for_packet
  rpc,                 \* where the receiver thread is
  packet,              \* the packet it has taken
  turn,                \* history: whether the number of packets taken is odd
  broken,              \* history: select or read has failed
  message_id, message_id_sem,  \* the latter: who is between wait and signal_plus
  spc, m_id,           \* of a sending thread: where it is, the number it holds
  loaded,              \* of inc_message_id: the value that is incremented
  sent,                \* history: the new numbers sent, in order
  resends,             \* how many messages went out without a new number
  set_back,            \* history: a packet has set message_id to a lower value
  crossed              \* history: a number was read before it was counted

receive == << socket_queue, recv_buffer, something_received, rpc, packet, turn,
              broken >>
counter == << message_id, message_id_sem, spc, m_id, loaded, sent, resends,
              set_back, crossed >>
vars == << receive, counter >>

TypeOK ==
  /\ socket_queue \in Seq(Packets)
  /\ recv_buffer \in Seq(Allowed \cup {Unread})
  /\ Len(recv_buffer) <= MAX_RECV
  /\ something_received \in BOOLEAN
  /\ rpc \in {"select", "read", "drain", "handle", "parse", "reply", "sent", "ended"}
  /\ packet \in Packets \cup {Unread}
  /\ turn \in BOOLEAN
  /\ broken \in BOOLEAN
  /\ message_id \in Nat
  /\ message_id_sem \in Threads \cup {"free"}
  /\ spc \in [Threads -> {"idle", "send", "inc", "store"}]
  /\ m_id \in [Threads -> Nat]
  /\ loaded \in [Threads -> Nat]
  /\ sent \in Seq(Nat)
  /\ resends \in Nat
  /\ set_back \in BOOLEAN
  /\ crossed \in BOOLEAN

Init ==
  /\ socket_queue = << >> /\ recv_buffer = << >> /\ something_received = FALSE
  /\ rpc = "select" /\ packet = Unread /\ turn = FALSE /\ broken = FALSE
  /\ message_id = 1 /\ message_id_sem = "free"
  /\ spc = [t \in Threads |-> "idle"]
  /\ m_id = [t \in Threads |-> 0] /\ loaded = [t \in Threads |-> 0]
  /\ sent = << >> /\ resends = 0 /\ set_back = FALSE /\ crossed = FALSE

-----------------------------------------------------------------------------
(* rsvp_socket::wait_for_packet, called by receiver_thread.                *)

(* External: a packet reaches the machine.  They need never stop coming;   *)
(* those the kernel has no room for are lost before it.                    *)
Arrive ==
  /\ Len(socket_queue) < MaxQueue
  /\ \E p \in Packets : socket_queue' = Append(socket_queue, p)
  /\ UNCHANGED << recv_buffer, something_received, rpc, packet, turn, broken, counter >>

Full == Len(recv_buffer) = MAX_RECV

(* Mutant: only a positive return value is looked at. *)
ReturnPacketsUnlessFull ==
  /\ rpc = "select" /\ rpc' = "drain"
  /\ ~ Full /\ socket_queue = << >> /\ something_received
  /\ UNCHANGED << socket_queue, recv_buffer, something_received, packet, turn,
                  broken, counter >>

(* The buffer is full, or something was received and nothing more is there:*)
(* receiver_thread goes on with what is in the buffer.                     *)
ReturnPackets ==
  /\ rpc = "select" /\ rpc' = "drain"
  /\ Full \/ (socket_queue = << >> /\ something_received)
  /\ UNCHANGED << socket_queue, recv_buffer, something_received, packet, turn,
                  broken, counter >>

(* Nothing was received: send_hellos does nothing, and select is called    *)
(* again.                                                                  *)
Timeout ==
  /\ rpc = "select" /\ ~ Full /\ socket_queue = << >> /\ ~ something_received
  /\ UNCHANGED vars

(* select fails: the thread ends, whatever is in the buffer. *)
SelectFails ==
  /\ rpc = "select" /\ ~ Full
  /\ rpc' = "ended" /\ broken' = TRUE
  /\ UNCHANGED << socket_queue, recv_buffer, something_received, packet, turn, counter >>

(* Mutant: the count is not compared with the size of the array. *)
SelectedUnchecked ==
  /\ rpc = "select" /\ socket_queue # << >>
  /\ rpc' = "read"
  /\ UNCHANGED << socket_queue, recv_buffer, something_received, packet, turn,
                  broken, counter >>

Selected ==
  /\ rpc = "select" /\ ~ Full /\ socket_queue # << >>
  /\ rpc' = "read"
  /\ UNCHANGED << socket_queue, recv_buffer, something_received, packet, turn,
                  broken, counter >>

(* Mutant: the entry is put in front of the others. *)
ReadInFront ==
  /\ rpc = "read" /\ rpc' = "select"
  /\ socket_queue' = Tail(socket_queue)
  /\ IF Head(socket_queue) \in Allowed
     THEN /\ recv_buffer' = << Head(socket_queue) >> \o recv_buffer
          /\ something_received' = TRUE
     ELSE UNCHANGED << recv_buffer, something_received >>
  /\ UNCHANGED << packet, turn, broken, counter >>

Read ==
  /\ rpc = "read" /\ rpc' = "select"
  /\ socket_queue' = Tail(socket_queue)
  /\ IF Head(socket_queue) \in Allowed
     THEN /\ recv_buffer' = Append(recv_buffer, Head(socket_queue))
          /\ something_received' = TRUE
     ELSE UNCHANGED << recv_buffer, something_received >>
  /\ UNCHANGED << packet, turn, broken, counter >>

(* The buffer of a read that fails is looked at as if it held a packet:    *)
(* with addresses to check, memory nothing was written to is compared.     *)
ReadFails ==
  /\ rpc = "read" /\ rpc' = "select" /\ broken' = TRUE
  /\ \/ /\ recv_buffer' = Append(recv_buffer, Unread)
        /\ something_received' = TRUE
     \/ Filtered /\ UNCHANGED << recv_buffer, something_received >>
  /\ UNCHANGED << socket_queue, packet, turn, counter >>

-----------------------------------------------------------------------------
(* The inner loop of receiver_thread.                                      *)

(* get_packet: ERROR_RECV_BUF_EMPTY. *)
Emptied ==
  /\ rpc = "drain" /\ recv_buffer = << >>
  /\ rpc' = "select" /\ something_received' = FALSE
  /\ UNCHANGED << socket_queue, recv_buffer, packet, turn, broken, counter >>

(* get_packet: the length -1 of an entry, compared as unsigned, is above   *)
(* that of every buffer; the entry stays and the loop asks again.          *)
TooSmall ==
  /\ rpc = "drain" /\ recv_buffer # << >> /\ Head(recv_buffer) = Unread
  /\ UNCHANGED vars

GetPacket ==
  /\ rpc = "drain" /\ recv_buffer # << >> /\ Head(recv_buffer) # Unread
  /\ packet' = Head(recv_buffer)
  /\ turn' = ~ turn
  /\ recv_buffer' = Tail(recv_buffer)
  /\ rpc' = IF Head(recv_buffer) \in Intact THEN "handle" ELSE "drain"
  /\ UNCHANGED << socket_queue, something_received, broken, counter >>

(* parse_data of a MESSAGE_ID sets the agent's own number, without the     *)
(* semaphore (rsvp_packet.cpp:917). *)
Parse(p) ==
  IF NumberIn[p] = 0
  THEN UNCHANGED << message_id, set_back >>
  ELSE /\ message_id' = NumberIn[p] + 1
       /\ set_back' = (set_back \/ NumberIn[p] + 1 < message_id)

(* A HELLO is answered with a message that has no number; any other packet *)
(* is given to its connection, which parses it once more and then sends at *)
(* most one message with a new number.                                     *)
Handle ==
  /\ rpc = "handle" /\ rpc' = IF packet \in Hello THEN "drain" ELSE "parse"
  /\ Parse(packet)
  /\ UNCHANGED << socket_queue, recv_buffer, something_received, packet, turn,
                  broken, message_id_sem, spc, m_id, loaded, sent,
                  resends, crossed >>

ParseAgain ==
  /\ rpc = "parse" /\ rpc' = "reply"
  /\ Parse(packet)
  /\ UNCHANGED << socket_queue, recv_buffer, something_received, packet, turn,
                  broken, message_id_sem, spc, m_id, loaded, sent,
                  resends, crossed >>

Replied ==
  /\ rpc \in {"reply", "sent"} /\ spc["recv"] = "idle" /\ rpc' = "drain"
  /\ UNCHANGED << socket_queue, recv_buffer, something_received, packet, turn,
                  broken, counter >>

-----------------------------------------------------------------------------
(* Numbers of messages.                                                    *)

MaySend(t) == spc[t] = "idle" /\ (t = "recv" => rpc = "reply")

(* A number has been read and the message is not counted yet. *)
Uncounted(t) == m_id[t] # 0

(* get_message_id *)
GetMessageId(t) ==
  /\ MaySend(t) /\ Len(sent) + resends < MaxSent
  /\ message_id_sem = "free"
  /\ m_id' = [m_id EXCEPT ![t] = message_id]
  /\ spc' = [spc EXCEPT ![t] = "send"]
  /\ crossed' = (crossed \/ \E u \in Threads : Uncounted(u))
  /\ rpc' = IF t = "recv" THEN "sent" ELSE rpc
  /\ UNCHANGED << socket_queue, recv_buffer, something_received, packet, turn,
                  broken, message_id, message_id_sem, loaded, sent, resends,
                  set_back >>

(* Mutant: the message is counted only if the socket refuses it. *)
SendUncounted(t) ==
  /\ spc[t] = "send"
  /\ \/ /\ sent' = Append(sent, m_id[t])
        /\ spc' = [spc EXCEPT ![t] = "idle"]
        /\ m_id' = [m_id EXCEPT ![t] = 0]
     \/ /\ spc' = [spc EXCEPT ![t] = "inc"]
        /\ UNCHANGED << sent, m_id >>
  /\ UNCHANGED << receive, message_id, message_id_sem, loaded, resends, set_back, crossed >>

(* send_rsvp_message: the message is counted unless the socket refuses it. *)
Send(t) ==
  /\ spc[t] = "send"
  /\ \/ /\ sent' = Append(sent, m_id[t])
        /\ spc' = [spc EXCEPT ![t] = "inc"]
        /\ UNCHANGED m_id
     \/ /\ spc' = [spc EXCEPT ![t] = "idle"]
        /\ m_id' = [m_id EXCEPT ![t] = 0]
        /\ UNCHANGED sent
  /\ UNCHANGED << receive, message_id, message_id_sem, loaded, resends, set_back, crossed >>

(* A message that takes no new number counts as well: the PATH of          *)
(* refresh_path, with the path's first number, and the PATHTEAR that       *)
(* answers a RESV with the flag D, which has no number at all.             *)
Resend(t) ==
  /\ MaySend(t) /\ Len(sent) + resends < MaxSent
  /\ resends' = resends + 1
  /\ spc' = [spc EXCEPT ![t] = "inc"]
  /\ rpc' = IF t = "recv" THEN "sent" ELSE rpc
  /\ UNCHANGED << socket_queue, recv_buffer, something_received, packet, turn,
                  broken, message_id, message_id_sem, m_id, loaded, sent, set_back,
                  crossed >>

(* inc_message_id: message_id++ is a load and a store, between which a     *)
(* packet may set it. *)
IncLoad(t) ==
  /\ spc[t] = "inc" /\ message_id_sem = "free"
  /\ message_id_sem' = t
  /\ loaded' = [loaded EXCEPT ![t] = message_id]
  /\ spc' = [spc EXCEPT ![t] = "store"]
  /\ UNCHANGED << receive, message_id, m_id, sent, resends, set_back, crossed >>

IncStore(t) ==
  /\ spc[t] = "store"
  /\ message_id' = loaded[t] + 1
  /\ message_id_sem' = "free"
  /\ spc' = [spc EXCEPT ![t] = "idle"]
  /\ m_id' = [m_id EXCEPT ![t] = 0]
  /\ UNCHANGED << receive, loaded, sent, resends, set_back, crossed >>

-----------------------------------------------------------------------------

Receive ==
  \/ ReturnPackets \/ Timeout \/ Selected \/ Read \/ Emptied \/ TooSmall
  \/ GetPacket \/ Handle \/ ParseAgain \/ Replied

Count(t) == Send(t) \/ IncLoad(t) \/ IncStore(t)

Next ==
  \/ Arrive \/ SelectFails \/ ReadFails \/ Receive
  \/ \E t \in Threads : GetMessageId(t) \/ Resend(t) \/ Count(t)

(* A thread that can go on does: select and read return, sending and       *)
(* counting do not wait for anything but the semaphore.                    *)
Fairness ==
  /\ WF_vars(Receive)
  /\ \A t \in Threads : WF_vars(Count(t))

Spec == Init /\ [][Next]_vars /\ Fairness

-----------------------------------------------------------------------------
(* Properties.                                                             *)

(* The receive buffer and the kernel's queue together are the queue of     *)
(* PacketQueue: filling, draining at the limit and stopping loses, repeats *)
(* and reorders no packet (recv_buffer of rsvp_socket.cpp).                *)
Queue == INSTANCE PacketQueue WITH
           waiting <- recv_buffer \o socket_queue, last <- packet

QueueImplemented == Queue!Spec

(* What has been read into the buffer is handled, even if packets for the  *)
(* agent never stop coming, unless select or read has failed: then they    *)
(* may stay there for good (the inner loop of receiver_thread).  Packets   *)
(* to other addresses must come to an end: as long as one is always        *)
(* waiting, wait_for_packet neither times out nor fills the buffer, and    *)
(* what is in the buffer stays (rsvp_socket.cpp:218-278).                  *)
OnlyOurs == \A i \in DOMAIN socket_queue : socket_queue[i] \in Allowed

BufferedHandled ==
  <>[]OnlyOurs => ((recv_buffer # << >>) ~> (recv_buffer = << >> \/ broken))

(* Every new message of the agent has a higher number than those before    *)
(* it, while the router does not set the number back and no thread reads   *)
(* it between another's read and count (get_message_id, inc_message_id).   *)
NumbersGrow ==
  ~ set_back /\ ~ crossed =>
    \A i, j \in DOMAIN sent : i < j => sent[i] < sent[j]
=============================================================================
