---------------------------- MODULE Transport_proofs ----------------------------
(***************************************************************************)
(* Proofs about Transport, for every size of the receive buffer, every set *)
(* of packets and any number of sending threads.                           *)
(***************************************************************************)
EXTENDS Transport, SequenceTheorems, TLAPS

(* A read happens only with something to read and room to keep it, which   *)
(* is what select returned for; and a packet is taken before it is parsed. *)
Ready ==
  /\ rpc = "read" => socket_queue # << >> /\ Len(recv_buffer) < MAX_RECV
  /\ rpc \in {"handle", "parse"} => packet \in Packets

TypeInv == TypeOK /\ Ready

(* The receiver's steps leave the numbers' part alone and the other way    *)
(* round: each half of TypeOK is kept by its own steps.                    *)
TypeReceive ==
  /\ socket_queue \in Seq(Packets)
  /\ recv_buffer \in Seq(Allowed \cup {Unread})
  /\ Len(recv_buffer) <= MAX_RECV
  /\ something_received \in BOOLEAN
  /\ rpc \in {"select", "read", "drain", "handle", "parse", "reply", "sent", "ended"}
  /\ packet \in Packets \cup {Unread}
  /\ turn \in BOOLEAN
  /\ broken \in BOOLEAN

TypeCounter ==
  /\ message_id \in Nat
  /\ message_id_sem \in Threads \cup {"free"}
  /\ spc \in [Threads -> {"idle", "send", "inc", "store"}]
  /\ m_id \in [Threads -> Nat]
  /\ loaded \in [Threads -> Nat]
  /\ sent \in Seq(Nat)
  /\ resends \in Nat
  /\ set_back \in BOOLEAN
  /\ crossed \in BOOLEAN

LEMMA TypeSplit == TypeOK <=> TypeReceive /\ TypeCounter
  BY DEF TypeOK, TypeReceive, TypeCounter

LEMMA Constants ==
  /\ Allowed \subseteq Packets /\ Unread \notin Packets
  /\ MAX_RECV \in Nat /\ MAX_RECV > 0
  BY TransportAssumption

LEMMA TypeInit == Init => TypeInv
  <1> SUFFICES ASSUME Init PROVE TypeInv
    OBVIOUS
  <1>1. TypeReceive
    <2>1. /\ << >> \in Seq(Packets) /\ << >> \in Seq(Allowed \cup {Unread})
          /\ Len(<< >>) <= MAX_RECV
      BY Constants
    <2> QED
      BY <2>1 DEF Init, TypeReceive
  <1>2. TypeCounter
    <2>1. message_id_sem \in Threads \cup {"free"}
      BY DEF Init
    <2>2. << >> \in Seq(Nat) /\ 0 \in Nat /\ 1 \in Nat
      OBVIOUS
    <2> QED
      BY <2>1, <2>2 DEF Init, TypeCounter
  <1> QED
    BY <1>1, <1>2, TypeSplit DEF Init, Ready, TypeInv

LEMMA ReceiveTyped ==
  ASSUME TypeReceive, Ready,
         Arrive \/ SelectFails \/ ReadFails \/ ReturnPackets \/ Selected \/ Read
           \/ Emptied \/ GetPacket \/ Replied
  PROVE  TypeReceive' /\ Ready'
  <1> USE Constants DEF TypeReceive, Ready
  <1>1. CASE Arrive
    <2>1. PICK p \in Packets : socket_queue' = Append(socket_queue, p)
      BY <1>1 DEF Arrive
    <2>2. socket_queue' \in Seq(Packets) /\ socket_queue' # << >>
      BY <2>1
    <2> QED
      BY <1>1, <2>2 DEF Arrive
  <1>2. CASE SelectFails
    BY <1>2 DEF SelectFails, Full
  <1>3. CASE ReadFails
    <2>1. /\ Append(recv_buffer, Unread) \in Seq(Allowed \cup {Unread})
          /\ Len(Append(recv_buffer, Unread)) <= MAX_RECV
      BY <1>3 DEF ReadFails
    <2> QED
      BY <1>3, <2>1 DEF ReadFails
  <1>4. CASE ReturnPackets
    BY <1>4 DEF ReturnPackets
  <1>5. CASE Selected
    BY <1>5 DEF Selected, Full
  <1>6. CASE Read
    <2>1. Head(socket_queue) \in Packets /\ Tail(socket_queue) \in Seq(Packets)
      BY <1>6 DEF Read
    <2>2. recv_buffer' \in Seq(Allowed \cup {Unread}) /\ Len(recv_buffer') <= MAX_RECV
      <3>1. CASE Head(socket_queue) \in Allowed
        <4>1. recv_buffer' = Append(recv_buffer, Head(socket_queue))
          BY <1>6, <3>1 DEF Read
        <4>2. Len(recv_buffer) < MAX_RECV
          BY <1>6 DEF Read
        <4> QED
          BY <3>1, <4>1, <4>2
      <3>2. CASE Head(socket_queue) \notin Allowed
        BY <1>6, <3>2 DEF Read
      <3> QED
        BY <3>1, <3>2
    <2>3. something_received' \in BOOLEAN
      BY <1>6 DEF Read
    <2> QED
      BY <1>6, <2>1, <2>2, <2>3 DEF Read
  <1>7. CASE Emptied
    BY <1>7 DEF Emptied
  <1>8. CASE GetPacket
    <2>1. Head(recv_buffer) \in Packets
      BY <1>8 DEF GetPacket
    <2>2. Tail(recv_buffer) \in Seq(Allowed \cup {Unread})
          /\ Len(Tail(recv_buffer)) <= MAX_RECV
      BY <1>8 DEF GetPacket
    <2> QED
      BY <1>8, <2>1, <2>2 DEF GetPacket
  <1>9. CASE Replied
    BY <1>9 DEF Replied
  <1> QED
    BY <1>1, <1>2, <1>3, <1>4, <1>5, <1>6, <1>7, <1>8, <1>9

LEMMA ParseTyped ==
  ASSUME TypeOK, packet \in Packets, Parse(packet)
  PROVE  message_id' \in Nat /\ set_back' \in BOOLEAN
  <1>1. NumberIn[packet] \in Nat /\ message_id \in Nat /\ set_back \in BOOLEAN
    <2>0. message_id \in Nat /\ set_back \in BOOLEAN
      BY DEF TypeOK
    <2>1. NumberIn \in [Packets -> Nat]
      BY TransportAssumption
    <2> QED
      BY <2>0, <2>1
  <1>2. CASE NumberIn[packet] = 0
    BY <1>1, <1>2 DEF Parse
  <1>3. CASE NumberIn[packet] # 0
    <2>1. message_id' = NumberIn[packet] + 1
      BY <1>3 DEF Parse
    <2>2. set_back' = (set_back \/ NumberIn[packet] + 1 < message_id)
      BY <1>3 DEF Parse
    <2> QED
      BY <1>1, <2>1, <2>2
  <1> QED
    BY <1>2, <1>3

LEMMA TypeStep == TypeInv /\ [Next]_vars => TypeInv'
  <1> SUFFICES ASSUME TypeInv, [Next]_vars PROVE TypeInv'
    OBVIOUS
  <1> USE DEF TypeInv
  <1>0. TypeReceive /\ TypeCounter
    BY TypeSplit
  <1>1. ASSUME Arrive \/ SelectFails \/ ReadFails \/ ReturnPackets \/ Selected \/ Read
                 \/ Emptied \/ GetPacket \/ Replied
        PROVE  TypeInv'
    <2>1. TypeReceive' /\ Ready'
      BY <1>0, <1>1, ReceiveTyped
    <2>2. UNCHANGED counter
      BY <1>1 DEF Arrive, SelectFails, ReadFails, ReturnPackets, Selected, Read,
                  Emptied, GetPacket, Replied
    <2>3. TypeCounter'
      BY <1>0, <2>2 DEF TypeCounter, counter
    <2> QED
      BY <2>1, <2>3 DEF TypeOK, TypeReceive, TypeCounter
  <1>2. ASSUME Handle \/ ParseAgain PROVE TypeInv'
    <2>1. packet \in Packets /\ Parse(packet)
      BY <1>2 DEF Ready, Handle, ParseAgain
    <2>2. message_id' \in Nat /\ set_back' \in BOOLEAN
      BY <2>1, ParseTyped
    <2>3. TypeCounter'
      BY <1>0, <1>2, <2>2 DEF TypeCounter, Handle, ParseAgain
    <2>4. TypeReceive' /\ Ready'
      BY <1>0, <1>2, <2>1 DEF TypeReceive, Ready, Handle, ParseAgain
    <2> QED
      BY <2>3, <2>4 DEF TypeOK, TypeReceive, TypeCounter
  <1>3. ASSUME UNCHANGED vars PROVE TypeInv'
    BY <1>3 DEF vars, receive, counter, TypeOK, Ready
  <1>4. ASSUME NEW t \in Threads, GetMessageId(t) \/ Resend(t) \/ Count(t)
        PROVE  TypeInv'
    <2>1. TypeReceive' /\ Ready'
      BY <1>0, <1>4 DEF TypeReceive, Ready, GetMessageId, Resend, Count, Send, IncLoad,
                        IncStore, receive, MaySend
    <2>2. TypeCounter'
      <3>1. CASE GetMessageId(t)
        BY <1>0, <3>1 DEF GetMessageId, TypeCounter
      <3>2. CASE Resend(t)
        BY <1>0, <3>2 DEF Resend, TypeCounter
      <3>3. CASE Send(t)
        <4>1. m_id[t] \in Nat
          BY <1>0, <1>4 DEF TypeCounter
        <4>2. CASE sent' = Append(sent, m_id[t]) /\ spc' = [spc EXCEPT ![t] = "inc"]
                   /\ UNCHANGED m_id
          <5>1. sent' \in Seq(Nat)
            BY <1>0, <4>1, <4>2 DEF TypeCounter
          <5> QED
            BY <1>0, <3>3, <4>2, <5>1 DEF Send, TypeCounter
        <4>3. CASE UNCHANGED sent /\ spc' = [spc EXCEPT ![t] = "idle"]
                   /\ m_id' = [m_id EXCEPT ![t] = 0]
          BY <1>0, <3>3, <4>3 DEF Send, TypeCounter
        <4> QED
          BY <3>3, <4>2, <4>3 DEF Send
      <3>4. CASE IncLoad(t)
        BY <1>0, <3>4 DEF IncLoad, TypeCounter
      <3>5. CASE IncStore(t)
        BY <1>0, <3>5 DEF IncStore, TypeCounter
      <3> QED
        BY <1>4, <3>1, <3>2, <3>3, <3>4, <3>5 DEF Count
    <2> QED
      BY <2>1, <2>2 DEF TypeOK, TypeReceive, TypeCounter
  <1> QED
    BY <1>1, <1>2, <1>3, <1>4 DEF Next, Receive, Timeout, TooSmall

(* Every variable keeps its type, and the receive buffer its limit         *)
(* (rsvp_socket::wait_for_packet), in every behaviour.                     *)
THEOREM TypeCorrect == Spec => []TypeOK
  <1>1. Spec => []TypeInv
    BY TypeInit, TypeStep, PTL DEF Spec
  <1> QED
    BY <1>1, PTL DEF TypeInv

-----------------------------------------------------------------------------
(* Numbers grow.  A number that has been sent and not counted is the       *)
(* present one; a thread in message_id++ holds the semaphore and has       *)
(* loaded a number not below those sent or about to be sent, so that what  *)
(* it stores is above them all.                                            *)

Bookkeeping ==
  /\ message_id > 0
  /\ \A t \in Threads : /\ spc[t] = "idle" => m_id[t] = 0
                        /\ spc[t] = "send" => m_id[t] # 0
                        /\ spc[t] = "store" => message_id_sem = t

Below(n) == \A i \in DOMAIN sent : sent[i] < n
NotAbove(n) == \A i \in DOMAIN sent : sent[i] <= n
Increasing == \A i, j \in DOMAIN sent : i < j => sent[i] < sent[j]
OneUncounted == \A t, u \in Threads : m_id[t] # 0 /\ m_id[u] # 0 => t = u
Sending(t) == spc[t] = "send" => Below(m_id[t])
Storing(t) ==
  spc[t] = "store" => NotAbove(loaded[t]) /\ \A u \in Threads : m_id[u] <= loaded[t]

Ordered ==
  /\ Increasing
  /\ OneUncounted
  /\ NotAbove(message_id)
  /\ \A u \in Threads : m_id[u] <= message_id
  /\ (\A u \in Threads : m_id[u] # 0 => spc[u] = "send") => Below(message_id)
  /\ \A t \in Threads : Sending(t) /\ Storing(t)

Quiet == ~ set_back /\ ~ crossed

NumberInv == TypeInv /\ Bookkeeping /\ (Quiet => Ordered)

LEMMA FreeIsNoThread == "free" \notin Threads
  BY TransportAssumption DEF Threads

LEMMA NumberInit == Init => NumberInv
  <1> SUFFICES ASSUME Init PROVE NumberInv
    OBVIOUS
  <1>1. TypeInv
    BY TypeInit
  <1>2. Bookkeeping
    BY DEF Init, Bookkeeping
  <1>3. Ordered
    <2>1. DOMAIN sent = {}
      BY DEF Init
    <2> QED
      BY <2>1 DEF Init, Ordered, Increasing, OneUncounted, NotAbove, Below, Sending,
                  Storing
  <1> QED
    BY <1>1, <1>2, <1>3 DEF NumberInv

LEMMA BookkeepingStep ==
  ASSUME NumberInv, [Next]_vars PROVE Bookkeeping'
  <1> USE DEF NumberInv, TypeInv, Bookkeeping
  <1>0. TypeCounter
    BY TypeSplit
  <1>1. CASE UNCHANGED counter
    BY <1>1 DEF counter
  <1>2. CASE Handle \/ ParseAgain
    <2>1. NumberIn[packet] \in Nat
      BY <1>2, TransportAssumption DEF Ready, Handle, ParseAgain
    <2>2. message_id' > 0
      BY <1>0, <1>2, <2>1 DEF Handle, ParseAgain, Parse, TypeCounter
    <2> QED
      BY <1>2, <2>2 DEF Handle, ParseAgain
  <1>3. ASSUME NEW t \in Threads, GetMessageId(t) \/ Resend(t) \/ Count(t)
        PROVE  Bookkeeping'
    <2>1. CASE GetMessageId(t)
      BY <1>0, <1>3, <2>1 DEF GetMessageId, MaySend, TypeCounter
    <2>2. CASE Resend(t)
      BY <1>0, <1>3, <2>2 DEF Resend, MaySend, TypeCounter
    <2>3. CASE Send(t)
      BY <1>0, <1>3, <2>3 DEF Send, TypeCounter
    <2>4. CASE IncLoad(t)
      <3>1. \A u \in Threads : spc[u] # "store"
        BY <2>4, FreeIsNoThread DEF IncLoad
      <3> QED
        BY <1>0, <1>3, <2>4, <3>1 DEF IncLoad, TypeCounter
    <2>5. CASE IncStore(t)
      <3>1. \A u \in Threads : spc[u] = "store" => u = t
        BY <1>3, <2>5 DEF IncStore
      <3> QED
        BY <1>0, <1>3, <2>5, <3>1 DEF IncStore, TypeCounter
    <2> QED
      BY <1>3, <2>1, <2>2, <2>3, <2>4, <2>5 DEF Count
  <1> QED
    BY <1>1, <1>2, <1>3 DEF Next, Receive, Timeout, TooSmall, vars, Arrive, SelectFails,
       ReadFails, ReturnPackets, Selected, Read, Emptied, GetPacket, Replied

LEMMA OrderedStep ==
  ASSUME NumberInv, [Next]_vars, Quiet' PROVE Ordered'
  <1> USE DEF NumberInv, TypeInv
  <1>0. TypeCounter /\ TypeCounter'
    <2>1. TypeInv'
      BY TypeStep
    <2> QED
      BY <2>1, TypeSplit DEF TypeOK, TypeCounter
  <1>a. Quiet
    <2>1. CASE UNCHANGED counter
      BY <2>1 DEF Quiet, counter
    <2>2. CASE \E t \in Threads : GetMessageId(t) \/ Resend(t) \/ Count(t)
      BY <2>2, <1>0 DEF Quiet, TypeCounter, GetMessageId, Resend, Count, Send, IncLoad,
                        IncStore
    <2>3. CASE Handle \/ ParseAgain
      BY <2>3, <1>0 DEF Quiet, TypeCounter, Handle, ParseAgain, Parse
    <2> QED
      BY <2>1, <2>2, <2>3 DEF Next, Receive, Timeout, TooSmall, vars, Arrive, SelectFails,
         ReadFails, ReturnPackets, Selected, Read, Emptied, GetPacket, Replied
  <1>b. Ordered /\ Bookkeeping
    BY <1>a
  <1> USE DEF Increasing, OneUncounted, NotAbove, Below, Sending, Storing
  <1>1. CASE UNCHANGED counter
    BY <1>b, <1>1 DEF counter, Ordered
  <1>2. CASE Handle \/ ParseAgain
    <2>1. message_id' \in Nat /\ message_id \in Nat
      BY <1>0 DEF TypeCounter
    <2>2. message_id' >= message_id
      <3>1. NumberIn[packet] \in Nat
        BY <1>2, TransportAssumption DEF Ready, Handle, ParseAgain
      <3>2. Parse(packet)
        BY <1>2 DEF Handle, ParseAgain
      <3>3. CASE NumberIn[packet] = 0
        BY <2>1, <3>2, <3>3 DEF Parse
      <3>4. CASE NumberIn[packet] # 0
        <4>1. message_id' = NumberIn[packet] + 1
          BY <3>2, <3>4 DEF Parse
        <4>2. ~ (NumberIn[packet] + 1 < message_id)
          <5>1. set_back' = (set_back \/ NumberIn[packet] + 1 < message_id)
            BY <3>2, <3>4 DEF Parse
          <5>2. ~ set_back'
            BY DEF Quiet
          <5> QED
            BY <5>1, <5>2
        <4> QED
          BY <2>1, <3>1, <4>1, <4>2
      <3> QED
        BY <3>3, <3>4
    <2>3. UNCHANGED << message_id_sem, spc, m_id, loaded, sent >>
      BY <1>2 DEF Handle, ParseAgain
    <2>4. sent \in Seq(Nat) /\ m_id \in [Threads -> Nat]
      BY <1>0 DEF TypeCounter
    <2> QED
      BY <1>b, <2>1, <2>2, <2>3, <2>4 DEF Ordered
  <1>3. ASSUME NEW t \in Threads, GetMessageId(t) PROVE Ordered'
    <2>1. \A u \in Threads : m_id[u] = 0
      BY <1>3 DEF GetMessageId, Quiet, Uncounted
    <2>2. \A u \in Threads : spc[u] # "store"
      BY <1>b, <1>3, FreeIsNoThread DEF GetMessageId, Bookkeeping
    <2>3. Below(message_id)
      BY <1>b, <2>1 DEF Ordered
    <2> QED
      BY <1>0, <1>b, <1>3, <2>1, <2>2, <2>3 DEF Ordered, GetMessageId, TypeCounter
  <1>4. ASSUME NEW t \in Threads, Resend(t) PROVE Ordered'
    <2>1. m_id[t] = 0
      BY <1>b, <1>4 DEF Bookkeeping, Resend, MaySend
    <2> QED
      BY <1>0, <1>b, <1>4, <2>1 DEF Ordered, Resend, TypeCounter
  <1>5. ASSUME NEW t \in Threads, Send(t) PROVE Ordered'
    <2>1. m_id[t] # 0 /\ Below(m_id[t])
      BY <1>b, <1>5 DEF Bookkeeping, Ordered, Send
    <2>2. \A u \in Threads \ {t} : m_id[u] = 0
      BY <1>b, <2>1 DEF Ordered
    <2>3. CASE UNCHANGED sent /\ spc' = [spc EXCEPT ![t] = "idle"]
               /\ m_id' = [m_id EXCEPT ![t] = 0]
      <3>1. Below(message_id)
        BY <1>b, <1>5, <2>2 DEF Ordered, Send
      <3> QED
        BY <1>0, <1>b, <1>5, <2>3, <3>1 DEF Ordered, Send, TypeCounter
    <2>4. CASE sent' = Append(sent, m_id[t]) /\ spc' = [spc EXCEPT ![t] = "inc"]
               /\ UNCHANGED m_id
      <3>1. sent \in Seq(Nat) /\ m_id[t] \in Nat
        BY <1>0, <1>5 DEF TypeCounter
      <3>2. /\ DOMAIN sent' = DOMAIN sent \cup {Len(sent) + 1}
            /\ sent'[Len(sent) + 1] = m_id[t]
            /\ \A i \in DOMAIN sent : sent'[i] = sent[i] /\ i < Len(sent) + 1
                                       /\ i \in Nat
        BY <2>4, <3>1
      <3>3. Increasing'
        BY <1>b, <2>1, <3>1, <3>2 DEF Ordered
      <3>4. NotAbove(message_id)'
        BY <1>b, <1>5, <3>1, <3>2 DEF Ordered, Send
      <3>5. \A u \in Threads : Sending(u)' /\ Storing(u)'
        <4> SUFFICES ASSUME NEW u \in Threads PROVE Sending(u)' /\ Storing(u)'
          OBVIOUS
        <4>1. Sending(u)'
          <5>1. CASE u = t
            BY <1>0, <2>4, <5>1 DEF TypeCounter
          <5>2. CASE u # t
            BY <1>0, <1>b, <2>2, <2>4, <5>2 DEF TypeCounter, Bookkeeping
          <5> QED
            BY <5>1, <5>2
        <4>2. Storing(u)'
          <5>1. spc'[u] = "store" => spc[u] = "store"
            BY <1>0, <2>4 DEF TypeCounter
          <5>2. UNCHANGED << loaded, m_id >>
            BY <1>5, <2>4 DEF Send
          <5>3. Storing(u)
            BY <1>b DEF Ordered
          <5> QED
            BY <1>5, <3>2, <5>1, <5>2, <5>3
        <4> QED
          BY <4>1, <4>2
      <3>6. (\A u \in Threads : m_id'[u] # 0 => spc'[u] = "send") => Below(message_id)'
        BY <1>0, <1>5, <2>1, <2>4 DEF TypeCounter
      <3> QED
        BY <1>b, <1>5, <2>4, <3>3, <3>4, <3>5, <3>6 DEF Ordered, Send
    <2> QED
      BY <1>5, <2>3, <2>4 DEF Send
  <1>6. ASSUME NEW t \in Threads, IncLoad(t) PROVE Ordered'
    <2>1. UNCHANGED << message_id, m_id, sent >> /\ spc[t] = "inc"
      BY <1>6 DEF IncLoad
    <2>2. loaded' = [loaded EXCEPT ![t] = message_id] /\ spc' = [spc EXCEPT ![t] = "store"]
      BY <1>6 DEF IncLoad
    <2>3. \A u \in Threads : Sending(u)' /\ Storing(u)'
      <3> SUFFICES ASSUME NEW u \in Threads PROVE Sending(u)' /\ Storing(u)'
        OBVIOUS
      <3>1. Sending(u) /\ Storing(u)
        BY <1>b DEF Ordered
      <3>2. CASE u = t
        <4>1. loaded'[u] = message_id /\ spc'[u] = "store"
          BY <1>0, <2>2, <3>2 DEF TypeCounter
        <4>2. NotAbove(message_id) /\ \A w \in Threads : m_id[w] <= message_id
          BY <1>b DEF Ordered
        <4> QED
          BY <2>1, <4>1, <4>2
      <3>3. CASE u # t
        <4>1. loaded'[u] = loaded[u] /\ spc'[u] = spc[u]
          BY <1>0, <2>2, <3>3 DEF TypeCounter
        <4> QED
          BY <2>1, <3>1, <4>1
      <3> QED
        BY <3>2, <3>3
    <2>4. spc'[t] = "store" /\ \A u \in Threads \ {t} : spc'[u] = spc[u]
      BY <1>0, <2>2 DEF TypeCounter
    <2>5. (\A u \in Threads : m_id'[u] # 0 => spc'[u] = "send") => Below(message_id)'
      BY <1>b, <2>1, <2>4 DEF Ordered
    <2> QED
      BY <1>b, <2>1, <2>3, <2>5 DEF Ordered
  <1>7. ASSUME NEW t \in Threads, IncStore(t) PROVE Ordered'
    <2>1. /\ spc[t] = "store" /\ message_id' = loaded[t] + 1
          /\ spc' = [spc EXCEPT ![t] = "idle"] /\ m_id' = [m_id EXCEPT ![t] = 0]
          /\ UNCHANGED << loaded, sent >>
      BY <1>7 DEF IncStore
    <2>2. NotAbove(loaded[t]) /\ \A u \in Threads : m_id[u] <= loaded[t]
      BY <1>b, <2>1 DEF Ordered
    <2>3. loaded[t] \in Nat /\ sent \in Seq(Nat) /\ m_id \in [Threads -> Nat]
      BY <1>0 DEF TypeCounter
    <2>4. Below(message_id)' /\ NotAbove(message_id)'
          /\ \A u \in Threads : m_id'[u] <= message_id'
      BY <2>1, <2>2, <2>3
    <2>5. \A u \in Threads : Sending(u)' /\ Storing(u)'
      <3>1. \A u \in Threads : spc[u] = "store" => u = t
        BY <1>b, <2>1 DEF Bookkeeping
      <3> QED
        BY <1>0, <1>b, <2>1, <3>1 DEF Ordered, TypeCounter
    <2>6. Increasing' /\ OneUncounted'
      BY <1>b, <2>1, <2>3 DEF Ordered
    <2> QED
      BY <2>4, <2>5, <2>6 DEF Ordered
  <1> QED
    BY <1>1, <1>2, <1>3, <1>4, <1>5, <1>6, <1>7 DEF Count, Next, Receive, Timeout,
       TooSmall, vars, Arrive, SelectFails, ReadFails, ReturnPackets, Selected, Read,
       Emptied, GetPacket, Replied

(* Between two set-backs by the router, and as long as no thread reads the *)
(* number while another's message is not counted yet, each new message has *)
(* a higher number than those before it (configuration.cpp:222-237).       *)
THEOREM NumbersGrowAlways == Spec => []NumbersGrow
  <1>1. NumberInv /\ [Next]_vars => NumberInv'
    BY TypeStep, BookkeepingStep, OrderedStep DEF NumberInv
  <1>2. NumberInv => NumbersGrow
    BY DEF NumberInv, Ordered, Increasing, NumbersGrow, Quiet
  <1> QED
    BY NumberInit, <1>1, <1>2, PTL DEF Spec

-----------------------------------------------------------------------------
(* The buffer and the kernel's queue are one queue.                        *)

(* A packet read goes from the front of one part to the end of the other.  *)
LEMMA MoveAcross ==
  ASSUME NEW E, NEW s \in Seq(E), NEW t \in Seq(E), t # << >>
  PROVE  Append(s, Head(t)) \o Tail(t) = s \o t
  <1> DEFINE left == Append(s, Head(t)) \o Tail(t)
             right == s \o t
  <1>1. /\ Head(t) \in E /\ Tail(t) \in Seq(E) /\ Len(Tail(t)) = Len(t) - 1
        /\ \A i \in 1 .. Len(t) - 1 : Tail(t)[i] = t[i + 1]
        /\ Head(t) = t[1] /\ Len(t) \in Nat \ {0} /\ Len(s) \in Nat
    BY HeadTailProperties
  <1>2. /\ Append(s, Head(t)) \in Seq(E) /\ Len(Append(s, Head(t))) = Len(s) + 1
        /\ \A i \in 1 .. Len(s) : Append(s, Head(t))[i] = s[i]
        /\ Append(s, Head(t))[Len(s) + 1] = Head(t)
    BY <1>1
  <1>3. /\ left \in Seq(E) /\ Len(left) = Len(s) + Len(t)
        /\ \A i \in 1 .. Len(s) + Len(t) :
             left[i] = IF i <= Len(s) + 1 THEN Append(s, Head(t))[i]
                       ELSE Tail(t)[i - (Len(s) + 1)]
    BY <1>1, <1>2, ConcatProperties
  <1>4. /\ right \in Seq(E) /\ Len(right) = Len(s) + Len(t)
        /\ \A i \in 1 .. Len(s) + Len(t) :
             right[i] = IF i <= Len(s) THEN s[i] ELSE t[i - Len(s)]
    BY ConcatProperties
  <1>5. \A i \in 1 .. Len(left) : left[i] = right[i]
    <2> SUFFICES ASSUME NEW i \in 1 .. Len(s) + Len(t) PROVE left[i] = right[i]
      BY <1>3
    <2>1. CASE i <= Len(s)
      BY <1>1, <1>2, <1>3, <1>4, <2>1
    <2>2. CASE i = Len(s) + 1
      BY <1>1, <1>2, <1>3, <1>4, <2>2
    <2>3. CASE i > Len(s) + 1
      <3>1. i - (Len(s) + 1) \in 1 .. Len(t) - 1
        BY <1>1, <2>3
      <3>2. Tail(t)[i - (Len(s) + 1)] = t[i - Len(s)]
        BY <1>1, <3>1
      <3> QED
        BY <1>1, <1>3, <1>4, <2>3, <3>2
    <2> QED
      BY <1>1, <2>1, <2>2, <2>3
  <1> QED
    BY <1>3, <1>4, <1>5, SeqEqual

(* The two parts of a queue that is cut behind the first. *)
LEMMA CutBehind ==
  ASSUME NEW E, NEW s \in Seq(E), NEW t \in Seq(E)
  PROVE  /\ SubSeq(s \o t, 1, Len(s)) = s
         /\ SubSeq(s \o t, Len(s) + 1, Len(s \o t)) = t
         /\ t # << >> => SubSeq(s \o t, Len(s) + 2, Len(s \o t)) = Tail(t)
  <1>1. /\ s \o t \in Seq(E) /\ Len(s \o t) = Len(s) + Len(t)
        /\ Len(s) \in Nat /\ Len(t) \in Nat
        /\ \A i \in 1 .. Len(s) + Len(t) :
             (s \o t)[i] = IF i <= Len(s) THEN s[i] ELSE t[i - Len(s)]
    BY ConcatProperties
  <1>2. \A i \in 1 .. Len(s \o t) : (s \o t)[i] \in E
    BY <1>1, ElementOfSeq
  <1>3. SubSeq(s \o t, 1, Len(s)) = s
    <2>1. /\ SubSeq(s \o t, 1, Len(s)) \in Seq(E)
          /\ Len(SubSeq(s \o t, 1, Len(s))) = Len(s)
          /\ \A i \in 1 .. Len(s) : SubSeq(s \o t, 1, Len(s))[i] = s[i]
      BY <1>1, <1>2, SubSeqProperties
    <2> QED
      BY <2>1, SeqEqual
  <1>4. SubSeq(s \o t, Len(s) + 1, Len(s \o t)) = t
    <2>1. /\ SubSeq(s \o t, Len(s) + 1, Len(s \o t)) \in Seq(E)
          /\ Len(SubSeq(s \o t, Len(s) + 1, Len(s \o t))) = Len(t)
          /\ \A i \in 1 .. Len(t) :
               SubSeq(s \o t, Len(s) + 1, Len(s \o t))[i] = (s \o t)[Len(s) + i]
      BY <1>1, <1>2, SubSeqProperties
    <2>2. \A i \in 1 .. Len(t) : (s \o t)[Len(s) + i] = t[i]
      BY <1>1
    <2> QED
      BY <2>1, <2>2, SeqEqual
  <1>5. ASSUME t # << >>
        PROVE  SubSeq(s \o t, Len(s) + 2, Len(s \o t)) = Tail(t)
    <2>0. /\ Tail(t) \in Seq(E) /\ Len(Tail(t)) = Len(t) - 1
          /\ \A i \in 1 .. Len(t) - 1 : Tail(t)[i] = t[i + 1]
          /\ Len(t) > 0
      BY <1>5, HeadTailProperties
    <2>1. /\ SubSeq(s \o t, Len(s) + 2, Len(s \o t)) \in Seq(E)
          /\ Len(SubSeq(s \o t, Len(s) + 2, Len(s \o t))) = Len(t) - 1
          /\ \A i \in 1 .. Len(t) - 1 :
               SubSeq(s \o t, Len(s) + 2, Len(s \o t))[i] = (s \o t)[Len(s) + 1 + i]
      BY <1>1, <1>2, <2>0, SubSeqProperties
    <2>2. \A i \in 1 .. Len(t) - 1 : (s \o t)[Len(s) + 1 + i] = t[i + 1]
      BY <1>1
    <2> QED
      BY <2>0, <2>1, <2>2, SeqEqual
  <1> QED
    BY <1>3, <1>4, <1>5

LEMMA TakeFront ==
  ASSUME NEW E, NEW s \in Seq(E), NEW t \in Seq(E), s # << >>
  PROVE  /\ s \o t # << >> /\ Head(s \o t) = Head(s)
         /\ Tail(s) \o t = Tail(s \o t)
  <1>1. /\ s \o t \in Seq(E) /\ Len(s \o t) = Len(s) + Len(t)
        /\ Len(s) \in Nat \ {0} /\ Len(t) \in Nat
        /\ \A i \in 1 .. Len(s) + Len(t) :
             (s \o t)[i] = IF i <= Len(s) THEN s[i] ELSE t[i - Len(s)]
    BY ConcatProperties, EmptySeq
  <1>2. s \o t # << >>
    BY <1>1
  <1>3. Head(s \o t) = Head(s)
    BY <1>1
  <1>4. /\ Tail(s) \in Seq(E) /\ Len(Tail(s)) = Len(s) - 1
        /\ \A i \in 1 .. Len(s) - 1 : Tail(s)[i] = s[i + 1]
    BY HeadTailProperties
  <1>5. /\ Tail(s \o t) \in Seq(E) /\ Len(Tail(s \o t)) = Len(s) + Len(t) - 1
        /\ \A i \in 1 .. Len(s) + Len(t) - 1 : Tail(s \o t)[i] = (s \o t)[i + 1]
    BY <1>1, <1>2, HeadTailProperties
  <1>6. /\ Tail(s) \o t \in Seq(E) /\ Len(Tail(s) \o t) = Len(s) + Len(t) - 1
        /\ \A i \in 1 .. Len(s) + Len(t) - 1 :
             (Tail(s) \o t)[i] = IF i <= Len(s) - 1 THEN Tail(s)[i]
                                 ELSE t[i - (Len(s) - 1)]
    <2>1. /\ Tail(s) \o t \in Seq(E) /\ Len(Tail(s) \o t) = Len(Tail(s)) + Len(t)
          /\ \A i \in 1 .. Len(Tail(s)) + Len(t) :
               (Tail(s) \o t)[i] = IF i <= Len(Tail(s)) THEN Tail(s)[i]
                                   ELSE t[i - Len(Tail(s))]
      BY <1>4, ConcatProperties
    <2> QED
      BY <1>1, <1>4, <2>1
  <1>7. \A i \in 1 .. Len(s) + Len(t) - 1 : (Tail(s) \o t)[i] = Tail(s \o t)[i]
    <2> SUFFICES ASSUME NEW i \in 1 .. Len(s) + Len(t) - 1
                 PROVE  (Tail(s) \o t)[i] = Tail(s \o t)[i]
      OBVIOUS
    <2>1. CASE i <= Len(s) - 1
      BY <1>1, <1>4, <1>5, <1>6, <2>1
    <2>2. CASE i > Len(s) - 1
      <3>1. (s \o t)[i + 1] = t[i + 1 - Len(s)]
        BY <1>1, <2>2
      <3>2. i + 1 - Len(s) = i - (Len(s) - 1)
        BY <1>1
      <3> QED
        BY <1>1, <1>5, <1>6, <2>2, <3>1, <3>2
    <2> QED
      BY <1>1, <2>1, <2>2
  <1>8. Tail(s) \o t = Tail(s \o t)
    BY <1>5, <1>6, <1>7, SeqEqual
  <1> QED
    BY <1>2, <1>3, <1>8

LEMMA QueueStep == TypeInv /\ [Next]_vars => [Queue!Next]_(Queue!vars)
  <1> SUFFICES ASSUME TypeInv, [Next]_vars PROVE [Queue!Next]_(Queue!vars)
    OBVIOUS
  <1> DEFINE E == Packets \cup {Unread}
             W == recv_buffer \o socket_queue
  <1>0. /\ recv_buffer \in Seq(E) /\ socket_queue \in Seq(E)
        /\ recv_buffer \in Seq(Allowed \cup {Unread}) /\ socket_queue \in Seq(Packets)
        /\ Allowed \subseteq Packets /\ Unread \notin Packets
    BY TransportAssumption, SeqMonotonic DEF TypeInv, TypeOK
  <1>1. CASE UNCHANGED << recv_buffer, socket_queue, packet, turn >>
    BY <1>1 DEF Queue!vars
  <1>2. CASE Arrive
    <2>1. PICK p \in Packets : socket_queue' = Append(socket_queue, p)
      BY <1>2 DEF Arrive
    <2>2. recv_buffer \o Append(socket_queue, p) = Append(W, p)
      <3>1. Append(socket_queue, p) = socket_queue \o << p >> /\ << p >> \in Seq(E)
        BY <1>0, AppendIsConcat
      <3>2. W \in Seq(E) /\ Append(W, p) = W \o << p >>
        BY <1>0, ConcatProperties, AppendIsConcat
      <3> QED
        BY <1>0, <3>1, <3>2, ConcatAssociative
    <2>3. Queue!Arrive
      BY <1>2, <2>1, <2>2 DEF Arrive, Queue!Arrive
    <2> QED
      BY <2>3 DEF Queue!Next
  <1>3. CASE Read
    <2>0. /\ socket_queue # << >> /\ socket_queue' = Tail(socket_queue)
          /\ UNCHANGED << packet, turn >>
      BY <1>3 DEF Read, TypeInv, Ready
    <2>1. CASE Head(socket_queue) \in Allowed
      <3>1. recv_buffer' = Append(recv_buffer, Head(socket_queue))
        BY <1>3, <2>1 DEF Read
      <3>2. recv_buffer' \o socket_queue' = W
        BY <1>0, <2>0, <3>1, MoveAcross
      <3> QED
        BY <2>0, <3>2 DEF Queue!vars
    <2>2. CASE Head(socket_queue) \notin Allowed
      <3>1. recv_buffer' = recv_buffer
        BY <1>3, <2>2 DEF Read
      <3>2. W' = SubSeq(W, 1, Len(recv_buffer)) \o SubSeq(W, Len(recv_buffer) + 2, Len(W))
        <4>1. /\ SubSeq(W, 1, Len(recv_buffer)) = recv_buffer
              /\ SubSeq(W, Len(recv_buffer) + 2, Len(W)) = Tail(socket_queue)
          <5>1. recv_buffer \in Seq(E) /\ socket_queue \in Seq(E) /\ socket_queue # << >>
            BY <1>0, <2>0
          <5> HIDE DEF E
          <5> QED
            BY <5>1, CutBehind
        <4>2. W' = recv_buffer \o Tail(socket_queue)
          BY <2>0, <3>1
        <4> HIDE DEF W
        <4> QED
          BY <4>1, <4>2
      <3>3. /\ Len(recv_buffer) + 1 \in DOMAIN W
            /\ W[Len(recv_buffer) + 1] = Head(socket_queue)
        <4>1. /\ Len(recv_buffer) \in Nat /\ Len(socket_queue) \in Nat
              /\ Len(socket_queue) >= 1 /\ Head(socket_queue) = socket_queue[1]
          BY <1>0, <2>0
        <4>2. W \in Seq(E) /\ Len(W) = Len(recv_buffer) + Len(socket_queue)
          BY <1>0, ConcatProperties
        <4>3. DOMAIN W = 1 .. Len(W)
          BY <4>2
        <4>4. Len(recv_buffer) + 1 \in 1 .. Len(W)
          BY <4>1, <4>2
        <4>5. W[Len(recv_buffer) + 1] = socket_queue[Len(recv_buffer) + 1 - Len(recv_buffer)]
          <5>1. ~ (Len(recv_buffer) + 1 <= Len(recv_buffer))
            BY <4>1
          <5> QED
            BY <1>0, <4>2, <4>4, <5>1, ConcatProperties
        <4>6. Len(recv_buffer) + 1 - Len(recv_buffer) = 1
          BY <4>1
        <4> QED
          BY <4>1, <4>3, <4>4, <4>5, <4>6
      <3>4. Len(recv_buffer) + 1 - 1 = Len(recv_buffer)
            /\ Len(recv_buffer) + 1 + 1 = Len(recv_buffer) + 2
        BY <1>0, LenProperties
      <3>5. \E i \in DOMAIN W :
              /\ W[i] \notin Allowed
              /\ W' = SubSeq(W, 1, i - 1) \o SubSeq(W, i + 1, Len(W))
        <4>1. PICK n : n = Len(recv_buffer) + 1
          OBVIOUS
        <4>2. n \in DOMAIN W /\ W[n] \notin Allowed
          BY <2>2, <3>3, <4>1
        <4>3. n - 1 = Len(recv_buffer) /\ n + 1 = Len(recv_buffer) + 2
          BY <3>4, <4>1
        <4>4. W' = SubSeq(W, 1, n - 1) \o SubSeq(W, n + 1, Len(W))
          BY <3>2, <4>3
        <4> QED
          BY <4>2, <4>4
      <3>6. Queue!Drop
        BY <2>0, <3>5 DEF Queue!Drop
      <3> QED
        BY <3>6 DEF Queue!Next
    <2> QED
      BY <2>1, <2>2
  <1>4. CASE ReadFails
    <2>1. CASE UNCHANGED recv_buffer
      BY <1>1, <1>4, <2>1 DEF ReadFails
    <2>2. CASE recv_buffer' = Append(recv_buffer, Unread)
      <3>1. recv_buffer' = recv_buffer \o << Unread >>
        BY <1>0, <2>2, AppendIsConcat
      <3>2. W' = SubSeq(W, 1, Len(recv_buffer)) \o << Unread >>
                 \o SubSeq(W, Len(recv_buffer) + 1, Len(W))
        <4>1. /\ SubSeq(W, 1, Len(recv_buffer)) = recv_buffer
              /\ SubSeq(W, Len(recv_buffer) + 1, Len(W)) = socket_queue
          <5>1. recv_buffer \in Seq(E) /\ socket_queue \in Seq(E)
            BY <1>0
          <5> HIDE DEF E
          <5> QED
            BY <5>1, CutBehind
        <4>2. W' = (recv_buffer \o << Unread >>) \o socket_queue
          BY <1>4, <3>1 DEF ReadFails
        <4> HIDE DEF W
        <4> QED
          BY <4>1, <4>2
      <3>3. Len(recv_buffer) \in 0 .. Len(W)
        BY <1>0, ConcatProperties, LenProperties
      <3>4. Queue!Block
        BY <1>4, <3>2, <3>3 DEF ReadFails, Queue!Block
      <3> QED
        BY <3>4 DEF Queue!Next
    <2> QED
      BY <1>4, <2>1, <2>2 DEF ReadFails
  <1>5. CASE GetPacket
    <2>1. recv_buffer # << >> /\ Head(recv_buffer) \in Allowed
      BY <1>0, <1>5, HeadTailProperties DEF GetPacket
    <2>2. W # << >> /\ Head(W) = Head(recv_buffer)
          /\ Tail(recv_buffer) \o socket_queue = Tail(W)
      BY <1>0, <2>1, TakeFront
    <2>3. Queue!Deliver
      BY <1>5, <2>1, <2>2 DEF GetPacket, Queue!Deliver
    <2> QED
      BY <2>3 DEF Queue!Next
  <1> QED
    BY <1>1, <1>2, <1>3, <1>4, <1>5 DEF Next, Receive, Timeout, TooSmall, vars, receive,
       SelectFails, ReturnPackets, Selected, Emptied, Handle, ParseAgain, Replied,
       GetMessageId, Resend, Count, Send, IncLoad, IncStore

(* For every capacity of the buffer and every choice of addresses, what    *)
(* the receiver hands to the handlers is what arrived for the agent, once  *)
(* and in order, until a read fails (rsvp_socket::wait_for_packet and      *)
(* get_packet implement PacketQueue).                                      *)
THEOREM QueueRefinement == Spec => QueueImplemented
  <1>1. Init => Queue!Init
    <2>1. << >> \o << >> = << >>
      BY ConcatEmptySeq
    <2> QED
      BY <2>1 DEF Init, Queue!Init
  <1>2. Spec => []TypeInv
    BY TypeInit, TypeStep, PTL DEF Spec
  <1> QED
    BY <1>1, <1>2, QueueStep, PTL DEF Spec, Queue!Spec, QueueImplemented
=============================================================================
