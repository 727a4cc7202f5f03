------------------------------ MODULE PacketQueue ------------------------------
(***************************************************************************)
(* What the agent's raw socket promises the code that acts on packets: the *)
(* packets to its addresses, each once, in the order they arrived.  Others *)
(* are dropped.  A read that fails may leave something in the queue that   *)
(* nothing gets past.                                                      *)
(***************************************************************************)
EXTENDS Naturals, Sequences

CONSTANTS
  Packets,   \* what may arrive
  Allowed,   \* the packets to addresses the agent listens for
  Unread     \* what a failed read leaves

VARIABLES
  waiting,
  last,      \* the packet delivered last
  turn       \* flips with every delivery, so that equal packets are told apart

vars == << waiting, last, turn >>

Init == waiting = << >> /\ last = Unread /\ turn = FALSE

Arrive ==
  /\ \E p \in Packets : waiting' = Append(waiting, p)
  /\ UNCHANGED << last, turn >>

Drop ==
  /\ \E i \in DOMAIN waiting :
       /\ waiting[i] \notin Allowed
       /\ waiting' = SubSeq(waiting, 1, i - 1) \o SubSeq(waiting, i + 1, Len(waiting))
  /\ UNCHANGED << last, turn >>

Block ==
  /\ \E i \in 0 .. Len(waiting) :
       waiting' = SubSeq(waiting, 1, i) \o << Unread >>
                  \o SubSeq(waiting, i + 1, Len(waiting))
  /\ UNCHANGED << last, turn >>

Deliver ==
  /\ waiting # << >> /\ Head(waiting) \in Allowed
  /\ last' = Head(waiting) /\ turn' = ~ turn
  /\ waiting' = Tail(waiting)

Next == Arrive \/ Drop \/ Block \/ Deliver

Spec == Init /\ [][Next]_vars
=============================================================================
