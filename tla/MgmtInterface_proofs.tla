------------------------- MODULE MgmtInterface_proofs -------------------------
(***************************************************************************)
(* Proofs about MgmtInterface, for any number of slots, paths and askers,  *)
(* and any range of message ids.                                           *)
(***************************************************************************)
EXTENDS MgmtInterface, SequenceTheorems, FiniteSetTheorems, WellFoundedInduction, TLAPS

LEMMA Constants ==
  /\ MAX_PENDING_RSVP_PACKETS \in Nat /\ MAX_PENDING_RSVP_PACKETS > 0
  /\ MAX_PENDING_MGMT_PACKETS \in Nat /\ MAX_PENDING_MGMT_PACKETS > 0
  /\ MAX_MGMT_PATHS \in Nat /\ MAX_MGMT_PATHS > 0
  /\ ID_RANGE \in Nat /\ ID_RANGE > 0
  /\ Paths \subseteq Nat /\ Paths # {} /\ -1 \notin Paths
  BY MgmtAssumption

LEMMA Slots ==
  /\ RsvpSlots \subseteq Nat /\ 0 \in RsvpSlots
  /\ MgmtSlots \subseteq Nat /\ 0 \in MgmtSlots
  BY Constants DEF RsvpSlots, MgmtSlots

(* Lowest is defined on every set of numbers there is something in. *)
LEMMA LowestOf ==
  ASSUME NEW S \in SUBSET Nat, S # {}
  PROVE  Lowest(S) \in S /\ \A t \in S : Lowest(S) <= t
  <1> DEFINE R == {ss \in Nat \X Nat : ss[1] < ss[2]}
  <1>1. IsWellFoundedOn(R, Nat)
    BY NatLessThanWellFounded DEF OpToRel
  <1>2. \A t, s \in Nat : t < s => << t, s >> \in R
    OBVIOUS
  <1> HIDE DEF R
  <1>3. PICK s \in S : \A t \in S : ~ (<< t, s >> \in R)
    BY <1>1, WFMin
  <1>4. ASSUME NEW t \in S
        PROVE  s <= t
    <2>1. s \in Nat /\ t \in Nat
      OBVIOUS
    <2>2. ~ (t < s)
      BY <1>2, <1>3, <2>1
    <2> QED
      BY <2>1, <2>2
  <1> QED
    BY <1>3, <1>4 DEF Lowest

-----------------------------------------------------------------------------
(* The table of paths.                                                     *)

Listed(s) == {s[i] : i \in DOMAIN s}
Once(s) == \A i, j \in DOMAIN s : s[i] = s[j] => i = j

(* add_path keeps the table within its bounds; a path that is not there    *)
(* before the last entry is there once afterwards.                         *)
LEMMA AddedTo ==
  ASSUME NEW p \in Paths, paths \in Seq(Paths), Len(paths) <= MAX_MGMT_PATHS
  PROVE  /\ Added(p) \in Seq(Paths) /\ Len(Added(p)) <= MAX_MGMT_PATHS
         /\ ~ Doubles(p) /\ Once(paths) =>
              Once(Added(p)) /\ Listed(Added(p)) = Listed(paths) \cup {p}
  <1>1. CASE Added(p) = paths
    <2>1. ~ Doubles(p) => paths # << >> /\ Last(paths) = p
      <3>1. Append(paths, p) # paths
        BY AppendProperties, LenProperties
      <3> QED
        BY <1>1, <3>1 DEF Added, Doubles
    <2>2. paths # << >> => Len(paths) \in DOMAIN paths
      BY LenProperties, EmptySeq
    <2> QED
      BY <1>1, <2>1, <2>2 DEF Listed, Last
  <1>2. CASE Added(p) # paths
    <2>1. Added(p) = Append(paths, p) /\ Len(paths) < MAX_MGMT_PATHS
          /\ (paths # << >> => Last(paths) # p)
      BY <1>2, Constants, LenProperties DEF Added
    <2>2. /\ Append(paths, p) \in Seq(Paths) /\ Len(Append(paths, p)) = Len(paths) + 1
          /\ \A i \in 1 .. Len(paths) : Append(paths, p)[i] = paths[i]
          /\ Append(paths, p)[Len(paths) + 1] = p
      BY AppendProperties
    <2>3. DOMAIN paths = 1 .. Len(paths) /\ Len(paths) \in Nat
          /\ DOMAIN Append(paths, p) = 1 .. Len(paths) + 1
      BY <2>2, LenProperties
    <2>4. ~ Doubles(p) => \A i \in DOMAIN paths : paths[i] # p
      BY <2>1, <2>3 DEF Doubles, Last
    <2>5. Listed(Append(paths, p)) = Listed(paths) \cup {p}
      BY <2>2, <2>3 DEF Listed
    <2>6. ~ Doubles(p) /\ Once(paths) => Once(Append(paths, p))
      BY <2>2, <2>3, <2>4 DEF Once
    <2> QED
      BY <2>1, <2>2, <2>3, <2>5, <2>6, Constants
  <1> QED
    BY <1>1, <1>2

LEMMA PartOf ==
  ASSUME NEW S, NEW s \in Seq(S), NEW m \in Nat, NEW n \in Nat,
         1 <= m, m <= n + 1, n <= Len(s)
  PROVE  /\ SubSeq(s, m, n) \in Seq(S) /\ Len(SubSeq(s, m, n)) = n - m + 1
         /\ \A i \in 1 .. n - m + 1 : SubSeq(s, m, n)[i] = s[m + i - 1]
  <1>1. \A i \in m .. n : s[i] \in S
    BY LenProperties
  <1>2. /\ SubSeq(s, m, n) \in Seq(S)
        /\ Len(SubSeq(s, m, n)) = IF m <= n THEN n - m + 1 ELSE 0
        /\ \A i \in 1 .. n - m + 1 : SubSeq(s, m, n)[i] = s[m + i - 1]
    BY <1>1, SubSeqProperties
  <1> QED
    BY <1>2

(* What is left of a sequence without its x-th element. *)
LEMMA RemovedAt ==
  ASSUME NEW S, NEW s \in Seq(S), NEW x \in 1 .. Len(s)
  PROVE  /\ RemoveAt(s, x) \in Seq(S) /\ Len(RemoveAt(s, x)) = Len(s) - 1
         /\ \A i \in 1 .. Len(s) - 1 :
              RemoveAt(s, x)[i] = IF i < x THEN s[i] ELSE s[i + 1]
  <1> DEFINE n == Len(s)
             l == SubSeq(s, 1, x - 1)
             r == SubSeq(s, x + 1, n)
  <1>1. n \in Nat /\ x \in Nat /\ x - 1 \in Nat /\ x + 1 \in Nat /\ 1 <= x /\ x <= n
    BY LenProperties
  <1>2. /\ l \in Seq(S) /\ Len(l) = (x - 1) - 1 + 1
        /\ \A i \in 1 .. (x - 1) - 1 + 1 : l[i] = s[1 + i - 1]
    <2>1. 1 <= x /\ 1 <= (x - 1) + 1 /\ x - 1 <= n
      BY <1>1
    <2> QED
      BY <1>1, <2>1, PartOf
  <1>3. /\ r \in Seq(S) /\ Len(r) = n - (x + 1) + 1
        /\ \A i \in 1 .. n - (x + 1) + 1 : r[i] = s[(x + 1) + i - 1]
    <2>1. 1 <= x + 1 /\ x + 1 <= n + 1 /\ n <= n
      BY <1>1
    <2> QED
      BY <1>1, <2>1, PartOf
  <1> HIDE DEF l, r
  <1>4. /\ l \o r \in Seq(S) /\ Len(l \o r) = Len(l) + Len(r)
        /\ \A i \in 1 .. Len(l) + Len(r) :
             (l \o r)[i] = IF i <= Len(l) THEN l[i] ELSE r[i - Len(l)]
    BY <1>2, <1>3, ConcatProperties
  <1>5. RemoveAt(s, x) = l \o r
    BY DEF RemoveAt, l, r
  <1>6. Len(l) = x - 1 /\ Len(r) = n - x /\ Len(l) + Len(r) = n - 1
    BY <1>1, <1>2, <1>3
  <1>7. ASSUME NEW i \in 1 .. n - 1
        PROVE  (l \o r)[i] = IF i < x THEN s[i] ELSE s[i + 1]
    <2>1. CASE i < x
      BY <1>1, <1>2, <1>4, <1>6, <2>1
    <2>2. CASE ~ (i < x)
      <3>1. i - Len(l) \in 1 .. n - (x + 1) + 1 /\ (x + 1) + (i - Len(l)) - 1 = i + 1
        BY <1>1, <1>6, <2>2
      <3>2. r[i - Len(l)] = s[i + 1]
        BY <1>3, <3>1
      <3> QED
        BY <1>1, <1>4, <1>6, <2>2, <3>2, SMTT(30)
    <2> QED
      BY <2>1, <2>2
  <1> QED
    BY <1>4, <1>5, <1>6, <1>7

(* delete_path removes a path that is listed once, and no other. *)
LEMMA DeletedFrom ==
  ASSUME NEW p, paths \in Seq(Paths), Len(paths) <= MAX_MGMT_PATHS
  PROVE  /\ Deleted(p) \in Seq(Paths) /\ Len(Deleted(p)) <= MAX_MGMT_PATHS
         /\ Once(paths) => Once(Deleted(p)) /\ Listed(Deleted(p)) = Listed(paths) \ {p}
  <1> DEFINE found == {i \in DOMAIN paths : paths[i] = p}
             n == Len(paths)
             x == Lowest(found)
             d == RemoveAt(paths, x)
  <1>1. DOMAIN paths = 1 .. n /\ n \in Nat
    BY LenProperties
  <1>2. CASE found = {}
    BY <1>2 DEF Deleted, Listed
  <1>3. CASE found # {}
    <2>1. x \in 1 .. n /\ paths[x] = p
      <3>1. found \in SUBSET Nat
        BY <1>1
      <3>2. x \in found
        BY <1>3, <3>1, LowestOf
      <3> QED
        BY <1>1, <3>2
    <2>2. Deleted(p) = d
      BY <1>3 DEF Deleted
    <2>3. /\ d \in Seq(Paths) /\ Len(d) = n - 1
          /\ \A i \in 1 .. n - 1 : d[i] = IF i < x THEN paths[i] ELSE paths[i + 1]
      <3> HIDE DEF x
      <3> QED
        BY <2>1, RemovedAt
    <2> HIDE DEF d, x
    <2>4. DOMAIN d = 1 .. n - 1
      BY <2>3, LenProperties
    <2>5. Once(paths) => Once(d)
      <3> SUFFICES ASSUME Once(paths), NEW i \in 1 .. n - 1, NEW j \in 1 .. n - 1,
                          d[i] = d[j]
                   PROVE  i = j
        BY <2>4 DEF Once
      <3> DEFINE at(y) == IF y < x THEN y ELSE y + 1
      <3>1. at(i) \in 1 .. n /\ at(j) \in 1 .. n /\ paths[at(i)] = paths[at(j)]
        BY <1>1, <2>1, <2>3
      <3>2. at(i) = at(j)
        BY <1>1, <3>1 DEF Once
      <3> QED
        BY <1>1, <2>1, <3>2
    <2>6. ASSUME Once(paths) PROVE Listed(d) = Listed(paths) \ {p}
      <3>1. \A i \in 1 .. n : paths[i] = p => i = x
        BY <1>1, <2>1, <2>6 DEF Once
      <3>2. ASSUME NEW i \in 1 .. n - 1
            PROVE  d[i] # p /\ \E j \in 1 .. n : d[i] = paths[j]
        <4>1. CASE i < x
          BY <1>1, <2>1, <2>3, <3>1, <4>1
        <4>2. CASE ~ (i < x)
          <5>1. i + 1 \in 1 .. n /\ i + 1 # x /\ d[i] = paths[i + 1]
            BY <1>1, <2>1, <2>3, <4>2
          <5> QED
            BY <3>1, <5>1
        <4> QED
          BY <4>1, <4>2
      <3>3. ASSUME NEW j \in 1 .. n, paths[j] # p
            PROVE  \E i \in 1 .. n - 1 : d[i] = paths[j]
        <4>1. CASE j < x
          BY <1>1, <2>1, <2>3, <4>1
        <4>2. CASE j > x
          <5>1. j - 1 \in 1 .. n - 1 /\ ~ (j - 1 < x) /\ (j - 1) + 1 = j
            BY <1>1, <2>1, <4>2
          <5>2. d[j - 1] = paths[j]
            BY <2>3, <5>1
          <5> QED
            BY <5>1, <5>2
        <4> QED
          BY <1>1, <2>1, <3>3, <4>1, <4>2
      <3>4. Listed(d) \subseteq Listed(paths) \ {p}
        BY <1>1, <2>4, <3>2 DEF Listed
      <3>5. Listed(paths) \ {p} \subseteq Listed(d)
        BY <1>1, <2>4, <3>3 DEF Listed
      <3> QED
        BY <3>4, <3>5
    <2>7. Len(d) <= MAX_MGMT_PATHS
      BY <1>1, <2>3, Constants
    <2> QED
      BY <2>2, <2>3, <2>5, <2>6, <2>7
  <1> QED
    BY <1>2, <1>3

-----------------------------------------------------------------------------
(* Types.                                                                  *)

Slot == [cid : Paths \cup {-1}, mmid : -1 .. ID_RANGE - 1,
         waiting_confirmation : BOOLEAN, conf : Messages \cup {NoMessage}]

(* What a slot for a message of a connection is written with is a slot. *)
LEMMA SlotWritten ==
  ASSUME NEW f \in [RsvpSlots -> Slot], NEW s \in RsvpSlots
  PROVE  /\ \A c \in Paths \cup {-1} : [f EXCEPT ![s].cid = c] \in [RsvpSlots -> Slot]
         /\ \A m \in Messages \cup {NoMessage} :
              [f EXCEPT ![s].conf = m, ![s].waiting_confirmation = FALSE]
                \in [RsvpSlots -> Slot]
         /\ \A i \in -1 .. ID_RANGE - 1 :
              [f EXCEPT ![s].mmid = i, ![s].waiting_confirmation = TRUE]
                \in [RsvpSlots -> Slot]
         /\ [f EXCEPT ![s].waiting_confirmation = TRUE] \in [RsvpSlots -> Slot]
         /\ [f EXCEPT ![s].cid = -1, ![s].conf = NoMessage, ![s].waiting_confirmation = FALSE]
              \in [RsvpSlots -> Slot]
  <1>1. /\ f[s].cid \in Paths \cup {-1} /\ f[s].mmid \in -1 .. ID_RANGE - 1
        /\ f[s].waiting_confirmation \in BOOLEAN /\ f[s].conf \in Messages \cup {NoMessage}
    BY DEF Slot
  <1>2. \A c \in Paths \cup {-1} : [f EXCEPT ![s].cid = c] \in [RsvpSlots -> Slot]
    BY <1>1 DEF Slot
  <1>3. \A m \in Messages \cup {NoMessage} :
          [f EXCEPT ![s].conf = m, ![s].waiting_confirmation = FALSE] \in [RsvpSlots -> Slot]
    BY <1>1, ZenonT(60) DEF Slot
  <1>4. \A i \in -1 .. ID_RANGE - 1 :
          [f EXCEPT ![s].mmid = i, ![s].waiting_confirmation = TRUE] \in [RsvpSlots -> Slot]
    BY <1>1 DEF Slot
  <1>5. [f EXCEPT ![s].waiting_confirmation = TRUE] \in [RsvpSlots -> Slot]
    BY <1>1 DEF Slot
  <1>6. [f EXCEPT ![s].cid = -1, ![s].conf = NoMessage, ![s].waiting_confirmation = FALSE]
          \in [RsvpSlots -> Slot]
    <2> DEFINE g == [f EXCEPT ![s].cid = -1]
    <2>1. g \in [RsvpSlots -> Slot]
      BY <1>2
    <2>2. [g EXCEPT ![s].conf = NoMessage, ![s].waiting_confirmation = FALSE]
            \in [RsvpSlots -> Slot]
      <3> HIDE DEF g
      <3>1. /\ g[s].cid \in Paths \cup {-1} /\ g[s].mmid \in -1 .. ID_RANGE - 1
            /\ g[s].waiting_confirmation \in BOOLEAN
        BY <2>1 DEF Slot
      <3> DEFINE h == [g EXCEPT ![s].conf = NoMessage]
      <3>2. h \in [RsvpSlots -> Slot] /\ h = [g EXCEPT ![s] = [g[s] EXCEPT !.conf = NoMessage]]
        BY <2>1, <3>1 DEF Slot
      <3>3. [h EXCEPT ![s].waiting_confirmation = FALSE] \in [RsvpSlots -> Slot]
        <4> HIDE DEF h
        <4>1. h[s] \in Slot
          BY <3>2
        <4> QED
          BY <3>2, <4>1 DEF Slot
      <3> QED
        BY <3>3
    <2> QED
      BY <2>2
  <1> QED
    BY <1>2, <1>3, <1>4, <1>5, <1>6

LEMMA ConfirmTyped ==
  ASSUME TypeOK, NEW p \in Paths, Confirm(p)
  PROVE  /\ paths' \in Seq(Paths) /\ Len(paths') <= MAX_MGMT_PATHS
         /\ confirmed' \subseteq Paths /\ doubled' \in BOOLEAN
  <1>1. paths \in Seq(Paths) /\ Len(paths) <= MAX_MGMT_PATHS
        /\ confirmed \subseteq Paths /\ doubled \in BOOLEAN
    BY DEF TypeOK
  <1>2. Added(p) \in Seq(Paths) /\ Len(Added(p)) <= MAX_MGMT_PATHS
    BY <1>1, AddedTo
  <1> QED
    BY <1>1, <1>2 DEF Confirm, Doubles

LEMMA ForgetTyped ==
  ASSUME TypeOK, NEW p, Forget(p)
  PROVE  /\ paths' \in Seq(Paths) /\ Len(paths') <= MAX_MGMT_PATHS
         /\ confirmed' \subseteq Paths /\ doubled' \in BOOLEAN
  <1>1. paths \in Seq(Paths) /\ Len(paths) <= MAX_MGMT_PATHS
        /\ confirmed \subseteq Paths /\ doubled \in BOOLEAN
    BY DEF TypeOK
  <1>2. Deleted(p) \in Seq(Paths) /\ Len(Deleted(p)) <= MAX_MGMT_PATHS
    BY <1>1, DeletedFrom
  <1> QED
    BY <1>1, <1>2 DEF Forget

(* Variables are of their types in every reachable state, whatever the     *)
(* number of slots, paths and askers, and though ids wrap.                 *)
THEOREM TypeCorrect == Spec => []TypeOK
  <1>1. Init => TypeOK
    <2>1. << >> \in Seq(Paths) /\ Len(<< >>) = 0
      BY EmptySeq
    <2>2. ASSUME Init
          PROVE  pending_rsvp_packets \in [RsvpSlots -> Slot]
      BY <2>2, Constants DEF Init, Slot
    <2>3. NoAnswer \in [request : Nat, conf : Nat, asked : Paths \cup {-1},
                        cid : Paths \cup {-1}]
      BY DEF NoAnswer
    <2>4. Init => report \in Reports
      BY DEF Init, NoReport, Reports
    <2> QED
      <3> SUFFICES ASSUME Init PROVE TypeOK
        OBVIOUS
      <3>1. pending_mgmt_packets \in
              [MgmtSlots -> [packet : Packets \cup {NoPacket}, filled : BOOLEAN]]
        BY DEF Init
      <3>2. local_next_m_id \in 0 .. ID_RANGE - 1
        BY Constants DEF Init
      <3>3. paths \in Seq(Paths) /\ Len(paths) <= MAX_MGMT_PATHS
        BY <2>1, Constants DEF Init
      <3>4. lpc = "wait" /\ k \in MgmtSlots
        BY Slots DEF Init
      <3>5. /\ slot \in [Askers -> RsvpSlots]
            /\ asking \in [Askers -> Messages \cup {NoMessage}]
            /\ apc \in [Askers -> {"idle", "cid", "rest"}]
            /\ \A a \in Askers : apc[a] = "idle"
        BY Slots DEF Init
      <3>6. /\ asked \in Nat /\ sent \in Nat /\ touches \in Nat
            /\ connected \in BOOLEAN /\ doubled \in BOOLEAN /\ wild \in BOOLEAN
            /\ requests = {} /\ answered = {} /\ confirmed = {} /\ delivered = NoAnswer
        BY DEF Init
      <3> QED
        BY <2>2, <2>3, <2>4, <3>1, <3>2, <3>3, <3>4, <3>5, <3>6 DEF TypeOK, Slot
  <1>2. TypeOK /\ [Next]_vars => TypeOK'
    <2> SUFFICES ASSUME TypeOK, [Next]_vars
                 PROVE  TypeOK'
      OBVIOUS
    <2> USE Constants, Slots
    <2>s. pending_rsvp_packets \in [RsvpSlots -> Slot]
      BY DEF TypeOK, Slot
    <2>r. report' \in Reports
      <3>1. CASE Inform
        <4>1. k \in RsvpSlots /\ Pending.conf \in Messages
          BY <2>s, <3>1 DEF Inform, TypeOK, Slot, Pending, NoMessage
        <4>2. Pending.conf.n \in Nat
          BY <4>1 DEF Messages
        <4> QED
          BY <3>1, <4>2 DEF Inform, Told, Reports
      <3>2. CASE report' = NoReport
        BY <3>2 DEF NoReport, Reports
      <3>3. CASE UNCHANGED report
        BY <3>3 DEF TypeOK
      <3> QED
        BY <3>1, <3>2, <3>3 DEF Next, Listen, Fill, Choose, SetCid, SetRest, Asked,
             accepting_connection, read_mgnt_packets, Closed, listens, vars
    <2>1. ASSUME NEW a \in Askers, Choose(a)
          PROVE  TypeOK'
      <3>1. Lowest(Unused) \in RsvpSlots
        BY <2>1, LowestOf DEF Choose, Unused
      <3> QED
        BY <2>1, <3>1, SMTT(30) DEF Choose, TypeOK, Messages, arrays, listens, table, socket, history
    <2>2. ASSUME NEW a \in Askers, SetCid(a)
          PROVE  TypeOK'
      <3>1. slot[a] \in RsvpSlots /\ asking[a].cid \in Paths
        BY <2>2 DEF SetCid, TypeOK, Messages
      <3>2. pending_rsvp_packets' \in [RsvpSlots -> Slot]
        BY <2>2, <2>s, <3>1, SlotWritten DEF SetCid
      <3> QED
        BY <2>2, <3>2 DEF SetCid, TypeOK, Slot, listens, table, socket, history
    <2>3. ASSUME NEW a \in Askers, SetRest(a)
          PROVE  TypeOK'
      <3>1. slot[a] \in RsvpSlots /\ asking[a] \in Messages \cup {NoMessage}
        BY DEF TypeOK
      <3>2. pending_rsvp_packets' \in [RsvpSlots -> Slot]
        BY <2>3, <2>s, <3>1, SlotWritten DEF SetRest, Asked
      <3> QED
        <4>1. /\ slot' \in [Askers -> RsvpSlots]
              /\ asking' \in [Askers -> Messages \cup {NoMessage}]
              /\ apc' \in [Askers -> {"idle", "cid", "rest"}]
              /\ \A b \in Askers : apc'[b] # "idle" => asking'[b] \in Messages
          BY <2>3 DEF SetRest, Asked, TypeOK
        <4>2. touches' \in Nat
          BY <2>3 DEF SetRest, TypeOK
        <4> QED
          BY <2>3, <3>2, <4>1, <4>2
             DEF SetRest, Asked, TypeOK, Slot, listens, table, socket, history
    <2>4. CASE Wake
      BY <2>r, <2>4 DEF Wake, TypeOK, arrays, askers, table, socket, history
    <2>5. ASSUME lpc = "rsvp", NextRsvp
          PROVE  lpc' \in {"rsvp", "mgmt"} /\ (k' \in IF lpc' = "rsvp" THEN RsvpSlots ELSE MgmtSlots)
      BY <2>5 DEF NextRsvp, TypeOK, RsvpSlots, MgmtSlots
    <2>6. CASE HalfRead
      BY <2>r, <2>5, <2>6 DEF HalfRead, NextRsvp, TypeOK, askers, table, socket
    <2>7. CASE NothingPending
      BY <2>r, <2>5, <2>7 DEF NothingPending, NextRsvp, TypeOK, askers, table, socket
    <2>8. CASE RequestCreate
      <3>1. k \in RsvpSlots
        BY <2>8 DEF RequestCreate, TypeOK
      <3>2. Pending.conf \in Messages
        BY <2>8, <2>s, <3>1 DEF RequestCreate, Slot, Pending, NoMessage
      <3>3. local_next_m_id \in Nat /\ local_next_m_id \in -1 .. ID_RANGE - 1
            /\ (local_next_m_id + 1) % ID_RANGE \in 0 .. ID_RANGE - 1
        BY DEF TypeOK
      <3>4. requests \subseteq [id : Nat, request : Nat, cid : Paths]
        BY DEF TypeOK
      <3>5. requests' \subseteq [id : Nat, request : Nat, cid : Paths]
        BY <2>8, <3>2, <3>3, <3>4 DEF RequestCreate, Messages
      <3>6. pending_rsvp_packets' \in [RsvpSlots -> Slot]
        BY <2>8, <2>s, <3>1, <3>3, SlotWritten DEF RequestCreate
      <3> QED
        BY <2>r, <2>5, <2>8, <3>3, <3>5, <3>6
           DEF RequestCreate, NextRsvp, TypeOK, Slot, askers, table, socket
    <2>9. CASE RequestDelete
      <3>1. k \in RsvpSlots
        BY <2>9 DEF RequestDelete, TypeOK
      <3>2. pending_rsvp_packets' \in [RsvpSlots -> Slot]
        BY <2>9, <2>s, <3>1, SlotWritten DEF RequestDelete
      <3> QED
        BY <2>r, <2>5, <2>9, <3>2 DEF RequestDelete, NextRsvp, TypeOK, Slot, askers, table, socket
    <2>10. ASSUME NEW s \in RsvpSlots, FreeSlot(s)
           PROVE  pending_rsvp_packets' \in [RsvpSlots -> Slot]
      BY <2>10, <2>s, SlotWritten DEF FreeSlot
    <2>11. CASE Inform
      <3>1. k \in RsvpSlots /\ Pending.cid \in Paths
        BY <2>11 DEF Inform, TypeOK, Pending
      <3>2. /\ paths' \in Seq(Paths) /\ Len(paths') <= MAX_MGMT_PATHS
            /\ confirmed' \subseteq Paths /\ doubled' \in BOOLEAN
        BY <2>11, <3>1, ConfirmTyped, ForgetTyped DEF Inform
      <3> QED
        BY <2>r, <2>5, <2>10, <2>11, <3>1, <3>2 DEF Inform, NextRsvp, TypeOK, Slot, askers, socket
    <2>12. ASSUME lpc \in {"mgmt", "free"}, NextMgmt
           PROVE  lpc' \in {"mgmt", "wait"} /\ k' \in MgmtSlots
      BY <2>12 DEF NextMgmt, TypeOK, MgmtSlots
    <2>13. CASE NoneReceived
      BY <2>r, <2>12, <2>13 DEF NoneReceived, TypeOK, arrays, askers, table, socket, history
    <2>14. CASE Free
      BY <2>r, <2>12, <2>14 DEF Free, TypeOK, arrays, askers, table, socket, history, NoAnswer
    <2>15. ASSUME Served
           PROVE  /\ k \in MgmtSlots /\ lpc' = "free" /\ k' = k
                  /\ pending_mgmt_packets' \in
                       [MgmtSlots -> [packet : Packets \cup {NoPacket}, filled : BOOLEAN]]
                  /\ (Message.what # "none" => Message \in Packets)
      BY <2>15 DEF Served, TypeOK, Message, NoPacket
    <2>16. CASE ServeRequest
      <3>1. /\ paths' \in Seq(Paths) /\ Len(paths') <= MAX_MGMT_PATHS
            /\ confirmed' \subseteq Paths /\ doubled' \in BOOLEAN
        <4>1. CASE Forget(Message.path)
          BY <4>1, ForgetTyped
        <4>2. CASE UNCHANGED table
          BY <4>2 DEF table, TypeOK
        <4> QED
          BY <2>16, <4>1, <4>2 DEF ServeRequest
      <3> QED
        BY <2>r, <2>15, <2>16, <3>1 DEF ServeRequest, Served, TypeOK, askers, socket
    <2>17. CASE ServeAnswer
      <3> DEFINE found == find_pending_rsvp_packet(Message)
                 s == Lowest(found)
      <3>1. found \subseteq RsvpSlots /\ found \in SUBSET Nat /\ found # {}
        BY <2>17 DEF ServeAnswer, find_pending_rsvp_packet
      <3>2. s \in found /\ s \in RsvpSlots
        BY <3>1, LowestOf
      <3>3. Message \in Packets
        BY <2>15, <2>17 DEF ServeAnswer
      <3>4. pending_rsvp_packets[s].cid \in Paths
        BY <3>2, <3>3 DEF find_pending_rsvp_packet, Packets
      <3> HIDE DEF s, found
      <3>5. FreeSlot(s) /\ wild' = HalfFilled(s)
            /\ (Confirm(pending_rsvp_packets[s].cid) \/ UNCHANGED table)
            /\ answered' = answered \ {pending_rsvp_packets[s].conf.n}
            /\ delivered' = [request |-> Message.request,
                             conf |-> pending_rsvp_packets[s].conf.n,
                             asked |-> pending_rsvp_packets[s].conf.cid,
                             cid |-> pending_rsvp_packets[s].cid]
        BY <2>17 DEF ServeAnswer, s, found
      <3>6. /\ paths' \in Seq(Paths) /\ Len(paths') <= MAX_MGMT_PATHS
            /\ confirmed' \subseteq Paths /\ doubled' \in BOOLEAN
        BY <3>4, <3>5, ConfirmTyped DEF table, TypeOK
      <3>7. pending_rsvp_packets[s].conf.n \in Nat
            /\ pending_rsvp_packets[s].conf.cid \in Paths \cup {-1}
        BY <3>2 DEF TypeOK, Messages, NoMessage
      <3>8. delivered' \in [request : Nat, conf : Nat, asked : Paths \cup {-1},
                            cid : Paths \cup {-1}]
        BY <3>3, <3>4, <3>5, <3>7 DEF Packets
      <3>9. wild' \in BOOLEAN
        BY <3>5 DEF HalfFilled
      <3>10. Served
        BY <2>17 DEF ServeAnswer
      <3> QED
        BY <2>r, <2>10, <2>15, <3>2, <3>5, <3>6, <3>8, <3>9, <3>10
           DEF Served, TypeOK, Slot, askers, socket
    <2>18. CASE DropAnswer
      BY <2>r, <2>15, <2>18 DEF DropAnswer, Served, TypeOK, askers, socket, table
    <2>19. CASE accepting_connection
      BY <2>19 DEF accepting_connection, TypeOK, arrays, askers, listens, table, history
    <2>20. CASE read_mgnt_packets
      <3>1. FirstFree \in MgmtSlots
        BY <2>20, LowestOf DEF read_mgnt_packets, FirstFree, FreeSlots
      <3>2. Lowest(Paths) \in Paths
        BY LowestOf
      <3>3. sent + 1 \in Nat \ {0}
        BY DEF TypeOK
      <3>4. Requests \subseteq Packets
        BY <3>2, <3>3 DEF Requests, Packet, Packets, Whats
      <3>5. Answers \subseteq Packets
        BY <3>3 DEF Answers, Packet, Packets, Whats, TypeOK
      <3>6. PICK m \in Requests \cup Answers :
              /\ pending_mgmt_packets' =
                   [pending_mgmt_packets EXCEPT ![FirstFree] = [packet |-> m, filled |-> TRUE]]
              /\ answered' = IF m \in Answers THEN answered \cup {m.request} ELSE answered
              /\ requests' \subseteq requests
        BY <2>20 DEF read_mgnt_packets, StillOpen
      <3>7. m \in Packets /\ m.request \in Nat
        BY <3>4, <3>5 DEF Packets
      <3>8. answered' \subseteq Nat /\ requests' \subseteq [id : Nat, request : Nat, cid : Paths]
        BY <3>6, <3>7 DEF TypeOK
      <3>9. pending_mgmt_packets' \in
              [MgmtSlots -> [packet : Packets \cup {NoPacket}, filled : BOOLEAN]]
        BY <3>1, <3>6, <3>7 DEF TypeOK
      <3> QED
        BY <2>20, <3>3, <3>8, <3>9, SMTT(30) DEF read_mgnt_packets, TypeOK, askers, listens, table
    <2>21. CASE Closed
      BY <2>21 DEF Closed, TypeOK, arrays, askers, listens, table, history
    <2>22. CASE UNCHANGED vars
      BY <2>22 DEF vars, TypeOK, arrays, askers, listens, table, socket, history
    <2> QED
      BY <2>1, <2>2, <2>3, <2>4, <2>6, <2>7, <2>8, <2>9, <2>11, <2>13, <2>14, <2>16,
         <2>17, <2>18, <2>19, <2>20, <2>21, <2>22 DEF Next, Listen, Fill
  <1> QED
    BY <1>1, <1>2, PTL DEF Spec

-----------------------------------------------------------------------------
(* The table of paths.                                                     *)

TableInv == ~ doubled => Once(paths) /\ Listed(paths) = confirmed

LEMMA ConfirmListed ==
  ASSUME TypeOK, TableInv, NEW p \in Paths, Confirm(p)
  PROVE  TableInv'
  <1>1. paths \in Seq(Paths) /\ Len(paths) <= MAX_MGMT_PATHS
        /\ doubled \in BOOLEAN
    BY DEF TypeOK
  <1>2. ~ Doubles(p) /\ Once(paths) =>
          Once(Added(p)) /\ Listed(Added(p)) = Listed(paths) \cup {p}
    BY <1>1, AddedTo
  <1>3. SUFFICES ASSUME ~ doubled'
                 PROVE  Once(paths') /\ Listed(paths') = confirmed'
    BY DEF TableInv
  <1>4. ~ doubled /\ ~ Doubles(p) /\ paths' = Added(p) /\ confirmed' = confirmed \cup {p}
    BY <1>3 DEF Confirm
  <1> QED
    BY <1>2, <1>4 DEF TableInv

LEMMA ForgetListed ==
  ASSUME TypeOK, TableInv, NEW p, Forget(p)
  PROVE  TableInv'
  <1>1. paths \in Seq(Paths) /\ Len(paths) <= MAX_MGMT_PATHS
    BY DEF TypeOK
  <1>2. Once(paths) => Once(Deleted(p)) /\ Listed(Deleted(p)) = Listed(paths) \ {p}
    BY <1>1, DeletedFrom
  <1>3. SUFFICES ASSUME ~ doubled'
                 PROVE  Once(paths') /\ Listed(paths') = confirmed'
    BY DEF TableInv
  <1>4. ~ doubled /\ paths' = Deleted(p) /\ confirmed' = confirmed \ {p}
    BY <1>3 DEF Forget
  <1> QED
    BY <1>2, <1>4 DEF TableInv

(* The table lists the paths that were confirmed and not deleted since,    *)
(* for any number of paths, slots and askers (add_path, delete_path).      *)
THEOREM TableCorrect == Spec => []TableListsConfirmed
  <1>1. Init => TableInv
    <2>1. DOMAIN << >> = {}
      BY EmptySeq
    <2> QED
      BY <2>1 DEF Init, TableInv, Once, Listed
  <1>2. TypeOK /\ TableInv /\ [Next]_vars => TableInv'
    <2> SUFFICES ASSUME TypeOK, TableInv, [Next]_vars
                 PROVE  TableInv'
      OBVIOUS
    <2>1. ASSUME UNCHANGED table
          PROVE  TableInv'
      BY <2>1 DEF table, TableInv
    <2>2. CASE Inform
      <3>1. Pending.cid \in Paths
        BY <2>2 DEF Inform, TypeOK, Pending
      <3> QED
        BY <2>2, <3>1, ConfirmListed, ForgetListed DEF Inform
    <2>3. CASE ServeRequest
      BY <2>1, <2>3, ForgetListed DEF ServeRequest
    <2>4. CASE ServeAnswer
      <3> DEFINE found == find_pending_rsvp_packet(Message)
                 s == Lowest(found)
      <3>a. Message \in Packets
        <4>1. Message.what \in {"ack", "nack"} /\ lpc = "mgmt"
          BY <2>4 DEF ServeAnswer, Served
        <4>2. Message \in Packets \cup {NoPacket}
          BY <4>1 DEF TypeOK, Message
        <4> QED
          BY <4>1, <4>2 DEF NoPacket
      <3>1. s \in found
        <4>1. found # {} /\ found \subseteq Nat
          BY <2>4, Slots DEF ServeAnswer, find_pending_rsvp_packet
        <4> QED
          BY <4>1, LowestOf
      <3>2. pending_rsvp_packets[s].cid = Message.path /\ Message \in Packets
        BY <3>1, <3>a DEF find_pending_rsvp_packet
      <3>3. pending_rsvp_packets[s].cid \in Paths
        BY <3>2 DEF Packets
      <3> HIDE DEF s, found
      <3>4. Confirm(pending_rsvp_packets[s].cid) \/ UNCHANGED table
        BY <2>4 DEF ServeAnswer, s, found
      <3> QED
        BY <2>1, <3>3, <3>4, ConfirmListed
    <2>5. CASE UNCHANGED vars
      BY <2>1, <2>5 DEF vars, listens
    <2>6. ASSUME \/ \E a \in Askers : Choose(a) \/ Fill(a)
                 \/ Wake \/ HalfRead \/ NothingPending \/ RequestCreate \/ RequestDelete
                 \/ NoneReceived \/ DropAnswer \/ Free
                 \/ accepting_connection \/ read_mgnt_packets \/ Closed
          PROVE  UNCHANGED table
      BY <2>6 DEF Choose, Fill, SetCid, SetRest, Asked, Wake, HalfRead, NothingPending,
                  RequestCreate, RequestDelete, NoneReceived, DropAnswer, Free,
                  accepting_connection, read_mgnt_packets, Closed, listens
    <2> QED
      BY <2>1, <2>2, <2>3, <2>4, <2>5, <2>6 DEF Next, Listen
  <1>3. TableInv => TableListsConfirmed
    BY DEF TableInv, TableListsConfirmed, Listed
  <1> QED
    BY <1>1, <1>2, <1>3, TypeCorrect, PTL DEF Spec

-----------------------------------------------------------------------------
(* The order of the client's messages.  What is ahead of the pass and what *)
(* is behind it are each filled from the front, with rising numbers.       *)

Filled(s) == pending_mgmt_packets[s].filled
Number(s) == pending_mgmt_packets[s].packet.n
Ahead == CASE lpc = "mgmt" -> k [] lpc = "free" -> k + 1 [] OTHER -> 0

OrderInv ==
  /\ \A s \in MgmtSlots : (Filled(s) <=> Number(s) # 0) /\ Number(s) <= sent
  /\ \A s, t \in MgmtSlots :
       s < t /\ (t < Ahead \/ Ahead <= s) /\ Filled(t)
         => Filled(s) /\ Number(s) < Number(t)

(* Everything OrderInv is about is left alone. *)
LEMMA OrderKept ==
  ASSUME TypeOK, OrderInv, UNCHANGED << pending_mgmt_packets, sent >>, Ahead' = Ahead
  PROVE  OrderInv'
  BY DEF OrderInv, Filled, Number

(* The pass goes on from a slot that is empty; behind the last slot it     *)
(* starts over.                                                            *)
LEMMA OrderPassed ==
  ASSUME TypeOK, OrderInv, UNCHANGED << pending_mgmt_packets, sent >>, NextMgmt,
         \/ lpc = "mgmt" /\ ~ Filled(k)
         \/ lpc = "free"
  PROVE  OrderInv'
  <1> USE Slots
  <1>1. k \in MgmtSlots /\ MAX_PENDING_MGMT_PACKETS \in Nat
    BY Constants DEF TypeOK
  <1>2. \A s \in MgmtSlots : s \in Nat /\ s <= MAX_PENDING_MGMT_PACKETS - 1
    BY Constants DEF MgmtSlots
  <1>3. Ahead' = IF k = MAX_PENDING_MGMT_PACKETS - 1 THEN 0 ELSE k + 1
    BY DEF NextMgmt, Ahead
  <1>4. \/ Ahead = k + 1
        \/ Ahead = k /\ ~ Filled(k)
    BY DEF Ahead
  <1>5. \A s, t \in MgmtSlots :
          s < t /\ (t < Ahead' \/ Ahead' <= s) /\ Filled(t)
            => Filled(s) /\ Number(s) < Number(t)
    <2> SUFFICES ASSUME NEW s \in MgmtSlots, NEW t \in MgmtSlots,
                        s < t, t < Ahead' \/ Ahead' <= s, Filled(t)
                 PROVE  Filled(s) /\ Number(s) < Number(t)
      OBVIOUS
    <2>1. t < Ahead \/ Ahead <= s
      BY <1>1, <1>2, <1>3, <1>4
    <2> QED
      BY <2>1 DEF OrderInv
  <1> QED
    BY <1>5 DEF OrderInv, Filled, Number

(* A message is taken out of the slot the pass has come to. *)
LEMMA OrderServed ==
  ASSUME TypeOK, OrderInv, Served
  PROVE  OrderInv'
  <1> USE Slots
  <1>1. k \in MgmtSlots /\ lpc = "mgmt" /\ lpc' = "free" /\ k' = k /\ sent' = sent
        /\ sent \in Nat
    BY DEF Served, TypeOK, socket
  <1>2. Ahead = k /\ Ahead' = k + 1
    BY <1>1 DEF Ahead
  <1>3. /\ ~ Filled(k)' /\ Number(k)' = 0
        /\ \A s \in MgmtSlots : s # k => Filled(s)' = Filled(s) /\ Number(s)' = Number(s)
    BY <1>1 DEF Served, Filled, Number, TypeOK, NoPacket
  <1>4. \A s \in MgmtSlots : (Filled(s)' <=> Number(s)' # 0) /\ Number(s)' <= sent'
    BY <1>1, <1>3 DEF OrderInv
  <1>5. ASSUME NEW s \in MgmtSlots, NEW t \in MgmtSlots,
               s < t, t < k + 1 \/ k + 1 <= s, Filled(t)'
        PROVE  Filled(s)' /\ Number(s)' < Number(t)'
    <2>1. s # k /\ t # k /\ (t < k \/ k <= s)
      BY <1>1, <1>3, <1>5
    <2> QED
      BY <1>2, <1>3, <1>5, <2>1 DEF OrderInv
  <1> QED
    BY <1>1, <1>2, <1>4, <1>5 DEF OrderInv, Filled, Number

(* A new message is put into the first free slot of all. *)
LEMMA OrderReceived ==
  ASSUME TypeOK, OrderInv, read_mgnt_packets
  PROVE  OrderInv'
  <1> USE Slots
  <1>1. FirstFree \in MgmtSlots /\ ~ Filled(FirstFree)
        /\ \A s \in MgmtSlots : ~ Filled(s) => FirstFree <= s
    BY LowestOf DEF read_mgnt_packets, FirstFree, FreeSlots, Filled
  <1>2. sent \in Nat /\ sent' = sent + 1 /\ Ahead' = Ahead /\ Ahead \in Nat
    BY DEF read_mgnt_packets, TypeOK, listens, Ahead
  <1>3. PICK m \in Requests \cup Answers :
          pending_mgmt_packets' =
            [pending_mgmt_packets EXCEPT ![FirstFree] = [packet |-> m, filled |-> TRUE]]
    BY DEF read_mgnt_packets
  <1>4. m.n = sent + 1
    BY DEF Requests, Answers, Packet
  <1>f. PICK f \in MgmtSlots : f = FirstFree
    BY <1>1
  <1>5. /\ Filled(f)' /\ Number(f)' = sent + 1 /\ ~ Filled(f)
        /\ \A s \in MgmtSlots : s # f => Filled(s)' = Filled(s) /\ Number(s)' = Number(s)
        /\ \A s \in MgmtSlots : ~ Filled(s) => f <= s
    BY <1>1, <1>3, <1>4, <1>f DEF Filled, Number, TypeOK
  <1>6. \A s \in MgmtSlots : Number(s) \in Nat
    BY DEF TypeOK, Number, Packets, NoPacket
  <1>7. \A s \in MgmtSlots : (Filled(s)' <=> Number(s)' # 0) /\ Number(s)' <= sent'
    BY <1>2, <1>5, <1>6 DEF OrderInv
  <1>8. ASSUME NEW s \in MgmtSlots, NEW t \in MgmtSlots,
               s < t, t < Ahead \/ Ahead <= s, Filled(t)'
        PROVE  Filled(s)' /\ Number(s)' < Number(t)'
    <2>1. CASE t = f
      <3>1. s # f /\ Filled(s)
        BY <1>5, <1>8, <2>1
      <3>2. Number(s) <= sent /\ Number(s) \in Nat
        BY <1>6 DEF OrderInv
      <3> QED
        BY <1>2, <1>5, <2>1, <3>1, <3>2
    <2>2. CASE t # f
      <3>1. Filled(t) /\ Filled(s) /\ Number(s) < Number(t)
        BY <1>5, <1>8, <2>2 DEF OrderInv
      <3> QED
        BY <1>5, <2>2, <3>1
    <2> QED
      BY <2>1, <2>2
  <1> QED
    BY <1>2, <1>7, <1>8 DEF OrderInv, Filled, Number

(* In one pass the listener takes the client's messages in the order the   *)
(* client sent them, for any number of slots (read_mgnt_packets, listener).*)
THEOREM OrderCorrect == Spec => []PassInOrder
  <1>1. Init => OrderInv
    BY DEF Init, OrderInv, Filled, Number, NoPacket
  <1>2. TypeOK /\ OrderInv /\ [Next]_vars => OrderInv'
    <2> SUFFICES ASSUME TypeOK, OrderInv, [Next]_vars
                 PROVE  OrderInv'
      OBVIOUS
    <2>1. CASE ServeRequest \/ ServeAnswer \/ DropAnswer
      BY <2>1, OrderServed DEF ServeRequest, ServeAnswer, DropAnswer
    <2>2. CASE NoneReceived
      BY <2>2, OrderPassed DEF NoneReceived, arrays, socket, Filled
    <2>3. CASE Free
      BY <2>3, OrderPassed DEF Free, arrays, socket
    <2>4. CASE read_mgnt_packets
      BY <2>4, OrderReceived
    <2>5. ASSUME lpc = "rsvp", NextRsvp
          PROVE  OrderInv'
      <3>1. Ahead = 0 /\ Ahead' = 0
        BY <2>5 DEF NextRsvp, Ahead
      <3> QED
        BY <2>5, <3>1, OrderKept DEF NextRsvp, socket
    <2>6. CASE HalfRead \/ NothingPending \/ RequestCreate \/ RequestDelete \/ Inform
      BY <2>5, <2>6 DEF HalfRead, NothingPending, RequestCreate, RequestDelete, Inform
    <2>7. CASE Wake
      <3>1. Ahead = 0 /\ Ahead' = 0
        BY <2>7 DEF Wake, Ahead
      <3> QED
        BY <2>7, <3>1, OrderKept DEF Wake, arrays, socket
    <2>8. ASSUME \/ \E a \in Askers : Choose(a) \/ Fill(a)
                 \/ accepting_connection \/ Closed
                 \/ UNCHANGED vars
          PROVE  UNCHANGED << pending_mgmt_packets, sent, lpc, k >>
      BY <2>8 DEF Choose, Fill, SetCid, SetRest, Asked, accepting_connection, Closed, vars,
                  arrays, listens, socket
    <2>9. ASSUME UNCHANGED << pending_mgmt_packets, sent, lpc, k >>
          PROVE  OrderInv'
      BY <2>9, OrderKept DEF Ahead
    <2> QED
      BY <2>1, <2>2, <2>3, <2>4, <2>6, <2>7, <2>8, <2>9 DEF Next, Listen
  <1>3. TypeOK /\ OrderInv => PassInOrder
    <2> SUFFICES ASSUME TypeOK, OrderInv, NEW s \in MgmtSlots, NEW t \in MgmtSlots,
                        Ahead <= s, s < t, Number(s) # 0, Number(t) # 0
                 PROVE  Number(s) < Number(t)
      BY DEF PassInOrder, Ahead, Number
    <2> QED
      BY DEF OrderInv
  <1> QED
    BY <1>1, <1>2, <1>3, TypeCorrect, PTL DEF Spec

-----------------------------------------------------------------------------
(***************************************************************************)
(* An answer of the client reaches the PATH it was asked about, although   *)
(* slots are used again and keep their old id.                             *)
(*                                                                         *)
(* The reason is that the id of a CREATE REQ is given once and is answered *)
(* once.  A slot whose mmid is an id that is still open is the one that    *)
(* waits for that answer; the id that is left over in any other slot is no *)
(* longer open, so no answer can be taken for the message that has come    *)
(* into the slot since.  Ids are given once until they wrap.               *)
(***************************************************************************)

Kept(s) == pending_rsvp_packets[s]
Held(s) == pending_mgmt_packets[s].packet
IsAnswer(s) == Held(s).what \in {"ack", "nack"}
Busy(a) == apc[a] # "idle"

(* Until the threads meet: a slot that is half filled belongs to one asker *)
(* and has no message yet; a free slot has none, any other has the message *)
(* of its own connection. *)
SlotsApart ==
  /\ \A a, b \in Askers : apc[a] = "rest" /\ Busy(b) /\ slot[a] = slot[b] => a = b
  /\ \A a \in Askers :
       apc[a] = "rest" => /\ Kept(slot[a]).conf = NoMessage
                          /\ Kept(slot[a]).cid = asking[a].cid
  /\ \A s \in RsvpSlots :
       /\ Kept(s).cid = -1 => Kept(s).conf = NoMessage
       /\ Kept(s).conf # NoMessage => Kept(s).cid = Kept(s).conf.cid

(* A message is in one place. *)
NumbersApart ==
  /\ \A a, b \in Askers : Busy(a) /\ Busy(b) /\ asking[a].n = asking[b].n => a = b
  /\ \A a \in Askers, s \in RsvpSlots : Busy(a) => asking[a].n # Kept(s).conf.n
  /\ \A s, t \in RsvpSlots :
       Kept(s).conf.n = Kept(t).conf.n /\ Kept(s).conf.n # 0 => s = t
  /\ \A a \in Askers : Busy(a) => asking[a].n <= asked
  /\ \A s \in RsvpSlots : Kept(s).conf.n <= asked

(* G: the numbers of the messages that were given an id, and the ids count *)
(* them.                                                                   *)
Numbered(G) ==
  /\ G \subseteq 1 .. asked
  /\ local_next_m_id = Cardinality(G) % ID_RANGE
  /\ \A a \in Askers : Busy(a) => asking[a].n \notin G
  /\ \A s \in RsvpSlots :
       Kept(s).conf.kind = "path" /\ ~ Kept(s).waiting_confirmation => Kept(s).conf.n \notin G
  /\ \A s \in RsvpSlots : Kept(s).mmid < Cardinality(G)
  /\ \A r \in requests : r.id < Cardinality(G)
  /\ \A s \in MgmtSlots : IsAnswer(s) => Held(s).id < Cardinality(G)

(* An id is open once: as a request or as an answer that waits.            *)
OpenApart ==
  /\ \A r, q \in requests : r.id = q.id => r = q
  /\ \A r \in requests, s \in MgmtSlots : IsAnswer(s) => Held(s).id # r.id
  /\ \A s, t \in MgmtSlots :
       IsAnswer(s) /\ IsAnswer(t) /\ Held(s).id = Held(t).id => s = t

(* A slot with the id i waits for the answer about the n-th message, c.    *)
AsGiven(i, n, c) ==
  \A s \in RsvpSlots : Kept(s).mmid = i =>
    Kept(s).waiting_confirmation /\ Kept(s).conf = [n |-> n, cid |-> c, kind |-> "path"]

OpenGiven ==
  /\ \A r \in requests : AsGiven(r.id, r.request, r.cid)
  /\ \A s \in MgmtSlots : IsAnswer(s) => AsGiven(Held(s).id, Held(s).request, Held(s).path)

Matching(G) == SlotsApart /\ NumbersApart /\ Numbered(G) /\ OpenApart /\ OpenGiven

-----------------------------------------------------------------------------
(* What the values look like.                                              *)

LEMMA SlotValues ==
  ASSUME TypeOK
  PROVE  /\ pending_rsvp_packets \in [RsvpSlots -> Slot]
         /\ \A s \in RsvpSlots :
              /\ Kept(s) \in Slot
              /\ Kept(s).conf \in Messages \cup {NoMessage} /\ Kept(s).mmid \in Int
              /\ Kept(s).conf.n \in Nat
              /\ Kept(s).conf # NoMessage <=> Kept(s).conf.n # 0
              /\ Kept(s).conf # NoMessage => Kept(s).conf \in Messages
  <1>1. pending_rsvp_packets \in [RsvpSlots -> Slot]
    BY DEF TypeOK, Slot
  <1>2. ASSUME NEW s \in RsvpSlots
        PROVE  /\ Kept(s) \in Slot
               /\ Kept(s).conf \in Messages \cup {NoMessage}
               /\ Kept(s).mmid \in -1 .. ID_RANGE - 1
    BY <1>1 DEF Kept, Slot
  <1>3. \A m \in Messages : m.n \in Nat /\ m.n # 0 /\ m # NoMessage
    BY DEF Messages, NoMessage
  <1>4. NoMessage.n = 0
    BY DEF NoMessage
  <1> QED
    BY <1>1, <1>2, <1>3, <1>4, Constants

LEMMA AskerValues ==
  ASSUME TypeOK, NEW a \in Askers
  PROVE  /\ slot[a] \in RsvpSlots
         /\ Busy(a) => asking[a] \in Messages /\ asking[a].n \in Nat \ {0} /\ asking[a].cid # -1
  BY Constants DEF TypeOK, Busy, Messages

LEMMA HeldValues ==
  ASSUME TypeOK, NEW s \in MgmtSlots, IsAnswer(s)
  PROVE  Held(s) \in Packets /\ Held(s).id \in Nat
  <1>1. Held(s) \in Packets \cup {NoPacket}
    BY DEF TypeOK, Held
  <1>2. Held(s) # NoPacket
    BY DEF IsAnswer, NoPacket
  <1> QED
    BY <1>1, <1>2 DEF Packets

-----------------------------------------------------------------------------
(* The ids that are still open keep their slots.                           *)
LEMMA OpenGivenKept ==
  ASSUME OpenGiven, requests' \subseteq requests,
         \A s \in MgmtSlots : IsAnswer(s)' => IsAnswer(s) /\ Held(s)' = Held(s),
         \A i, n, c :
           /\ \/ \E r \in requests' : r.id = i
              \/ \E s \in MgmtSlots : IsAnswer(s)' /\ Held(s)'.id = i
           /\ AsGiven(i, n, c)
           => AsGiven(i, n, c)'
  PROVE  OpenGiven'
  <1>1. ASSUME NEW r \in requests'
        PROVE  AsGiven(r.id, r.request, r.cid)'
    BY <1>1 DEF OpenGiven
  <1>2. ASSUME NEW s \in MgmtSlots, IsAnswer(s)'
        PROVE  AsGiven(Held(s).id, Held(s).request, Held(s).path)'
    <2>1. PICK m : m = Held(s)'
      OBVIOUS
    <2>2. m = Held(s) /\ IsAnswer(s)
      BY <1>2, <2>1
    <2>3. AsGiven(m.id, m.request, m.path)
      BY <2>2 DEF OpenGiven
    <2>4. AsGiven(m.id, m.request, m.path)'
      BY <1>2, <2>1, <2>3
    <2> QED
      BY <2>1, <2>4 DEF AsGiven
  <1> QED
    BY <1>1, <1>2 DEF OpenGiven

(* Requests and answers are dropped, and nothing else changes.             *)
LEMMA DroppedKeeps ==
  ASSUME NEW G, Matching(G), UNCHANGED << pending_rsvp_packets, askers, local_next_m_id >>,
         requests' \subseteq requests,
         \A s \in MgmtSlots : IsAnswer(s)' => IsAnswer(s) /\ Held(s)' = Held(s)
  PROVE  Matching(G)'
  <1>1. UNCHANGED << pending_rsvp_packets, apc, slot, asking, asked, local_next_m_id >>
    BY DEF askers
  <1>2. SlotsApart'
    BY <1>1 DEF Matching, SlotsApart, Kept, Busy
  <1>3. NumbersApart'
    BY <1>1 DEF Matching, NumbersApart, Kept, Busy
  <1>4. Numbered(G)'
    BY <1>1 DEF Matching, Numbered, Kept, Busy
  <1>5. OpenApart'
    BY DEF Matching, OpenApart
  <1>6. OpenGiven'
    BY <1>1 DEF Matching, OpenGiven, AsGiven, Kept
  <1> QED
    BY <1>2, <1>3, <1>4, <1>5, <1>6 DEF Matching
-----------------------------------------------------------------------------
(* An asker takes a slot, marks it, and fills it.                          *)

LEMMA ChooseKeeps ==
  ASSUME TypeOK, NEW G, Matching(G), NEW a \in Askers, Choose(a)
  PROVE  Matching(G)'
  <1>1. /\ ~ Busy(a) /\ apc' = [apc EXCEPT ![a] = "cid"]
        /\ slot' = [slot EXCEPT ![a] = Lowest(Unused)] /\ asked' = asked + 1
        /\ \E p \in Paths, kind \in Kinds :
             asking' = [asking EXCEPT ![a] = [n |-> asked + 1, cid |-> p, kind |-> kind]]
        /\ UNCHANGED << pending_rsvp_packets, pending_mgmt_packets, requests,
                        local_next_m_id >>
    BY DEF Choose, Busy, arrays, listens, history
  <1>2. /\ asking'[a].n = asked + 1 /\ apc'[a] = "cid"
        /\ \A b \in Askers \ {a} : apc'[b] = apc[b] /\ slot'[b] = slot[b] /\ asking'[b] = asking[b]
    BY <1>1 DEF TypeOK
  <1>3. asked \in Nat /\ \A b \in Askers : Busy(b) => asking[b].n \in Nat
    BY AskerValues DEF TypeOK
  <1>4. \A s \in RsvpSlots : Kept(s).conf.n \in Nat
    BY SlotValues
  <1>5. \A b \in Askers \ {a} : (Busy(b)' <=> Busy(b)) /\ (apc'[b] = "rest" => apc[b] = "rest")
    BY <1>2 DEF Busy
  <1>6. SlotsApart'
    <2> SUFFICES ASSUME NEW b \in Askers, apc'[b] = "rest"
                 PROVE  /\ \A c \in Askers : Busy(c)' /\ slot'[b] = slot'[c] => b = c
                        /\ Kept(slot[b]).conf = NoMessage /\ Kept(slot[b]).cid = asking[b].cid
                        /\ slot'[b] = slot[b] /\ asking'[b] = asking[b]
      BY <1>1 DEF Matching, SlotsApart, Kept
    <2>1. b # a /\ slot'[b] = slot[b] /\ asking'[b] = asking[b] /\ apc[b] = "rest"
      BY <1>2
    <2>2. Kept(slot[b]).conf = NoMessage /\ Kept(slot[b]).cid = asking[b].cid
      BY <2>1 DEF Matching, SlotsApart
    <2>3. slot'[a] # slot[b]
      <3>1. Kept(slot[b]).cid # -1
        BY <2>1, <2>2, AskerValues DEF Busy
      <3>2. Lowest(Unused) \in Unused
        BY LowestOf, Slots DEF Choose, Unused
      <3>3. slot'[a] = Lowest(Unused)
        BY <1>1 DEF TypeOK
      <3> QED
        BY <3>1, <3>2, <3>3 DEF Unused, Kept
    <2>4. ASSUME NEW c \in Askers, Busy(c)', slot'[b] = slot'[c]
          PROVE  b = c
      <3>1. c # a
        BY <2>1, <2>3, <2>4
      <3> QED
        BY <1>2, <1>5, <2>1, <2>4, <3>1 DEF Matching, SlotsApart
    <2> QED
      BY <2>1, <2>2, <2>4
  <1>7. NumbersApart'
    <2>1. \A b \in Askers \ {a} : Busy(b) => asking'[b].n # asked + 1
      BY <1>2, <1>3 DEF Matching, NumbersApart
    <2>2. \A b, c \in Askers : Busy(b)' /\ Busy(c)' /\ asking'[b].n = asking'[c].n => b = c
      BY <1>2, <1>5, <2>1 DEF Matching, NumbersApart
    <2>3. \A b \in Askers, s \in RsvpSlots : Busy(b)' => asking'[b].n # Kept(s).conf.n
      BY <1>2, <1>3, <1>4, <1>5 DEF Matching, NumbersApart
    <2>4. /\ \A b \in Askers : Busy(b)' => asking'[b].n <= asked'
          /\ \A s \in RsvpSlots : Kept(s).conf.n <= asked'
      BY <1>1, <1>2, <1>3, <1>4, <1>5 DEF Matching, NumbersApart
    <2> QED
      BY <1>1, <2>2, <2>3, <2>4 DEF Matching, NumbersApart, Kept
  <1>8. Numbered(G)'
    <2>1. G \subseteq 1 .. asked' /\ asked + 1 \notin G
      BY <1>1, <1>3 DEF Matching, Numbered
    <2>2. \A b \in Askers : Busy(b)' => asking'[b].n \notin G
      BY <1>2, <1>5, <2>1 DEF Matching, Numbered
    <2> QED
      BY <1>1, <2>1, <2>2 DEF Matching, Numbered, Kept, IsAnswer, Held
  <1>9. OpenApart' /\ OpenGiven'
    BY <1>1 DEF Matching, OpenApart, OpenGiven, AsGiven, IsAnswer, Held, Kept
  <1> QED
    BY <1>6, <1>7, <1>8, <1>9 DEF Matching

LEMMA SetCidKeeps ==
  ASSUME TypeOK, NEW G, Matching(G), NEW a \in Askers, SetCid(a), ~ wild'
  PROVE  Matching(G)'
  <1>s. PICK s \in RsvpSlots : s = slot[a]
    BY AskerValues
  <1>c. PICK c : c = asking[a].cid
    OBVIOUS
  <1>1. /\ apc[a] = "cid" /\ Busy(a) /\ apc' = [apc EXCEPT ![a] = "rest"]
        /\ pending_rsvp_packets' = [pending_rsvp_packets EXCEPT ![s].cid = c]
        /\ UNCHANGED << pending_mgmt_packets, slot, asking, asked, requests,
                        local_next_m_id >>
    BY <1>s, <1>c DEF SetCid, Busy, listens, history
  <1>2. /\ Kept(s).cid = -1
        /\ \A b \in Askers \ {a} : Busy(b) => slot[b] # s
    BY <1>s DEF SetCid, Kept, Busy
  <1>3. c # -1
    BY <1>1, <1>c, AskerValues
  <1>4. /\ Kept(s)'.cid = c /\ Kept(s)'.conf = Kept(s).conf /\ Kept(s)'.mmid = Kept(s).mmid
        /\ Kept(s)'.waiting_confirmation = Kept(s).waiting_confirmation
        /\ \A t \in RsvpSlots : t # s => Kept(t)' = Kept(t)
    BY <1>1, <1>3, SlotValues DEF Kept, Slot
  <1>5. /\ apc'[a] = "rest" /\ \A b \in Askers \ {a} : apc'[b] = apc[b]
        /\ \A b \in Askers : Busy(b)' <=> Busy(b)
    BY <1>1 DEF TypeOK, Busy
  <1>6. Kept(s).conf = NoMessage
    BY <1>2, <1>3 DEF Matching, SlotsApart
  <1>7. \A t \in RsvpSlots : /\ Kept(t)'.conf = Kept(t).conf /\ Kept(t)'.mmid = Kept(t).mmid
                             /\ Kept(t)'.waiting_confirmation = Kept(t).waiting_confirmation
    BY <1>4
  <1>8. SlotsApart'
    <2>1. \A b, d \in Askers : apc'[b] = "rest" /\ Busy(d)' /\ slot[b] = slot[d] => b = d
      BY <1>2, <1>5, <1>s DEF Matching, SlotsApart, Busy
    <2>2. ASSUME NEW b \in Askers, apc'[b] = "rest"
          PROVE  Kept(slot[b])'.conf = NoMessage /\ Kept(slot[b])'.cid = asking'[b].cid
      <3>1. CASE b = a
        BY <1>1, <1>4, <1>6, <1>s, <1>c, <3>1 DEF Kept
      <3>2. CASE b # a
        <4>1. apc[b] = "rest" /\ slot[b] # s /\ slot[b] \in RsvpSlots
          BY <1>2, <1>5, <2>2, <3>2, AskerValues DEF Busy
        <4> QED
          BY <1>1, <1>4, <4>1 DEF Matching, SlotsApart, Kept
      <3> QED
        BY <3>1, <3>2
    <2>3. ASSUME NEW t \in RsvpSlots
          PROVE  /\ Kept(t)'.cid = -1 => Kept(t)'.conf = NoMessage
                 /\ Kept(t)'.conf # NoMessage => Kept(t)'.cid = Kept(t)'.conf.cid
      BY <1>3, <1>4, <1>6 DEF Matching, SlotsApart
    <2> QED
      BY <1>1, <2>1, <2>2, <2>3 DEF SlotsApart, Kept
  <1>9. NumbersApart'
    BY <1>1, <1>5, <1>7 DEF Matching, NumbersApart
  <1>10. Numbered(G)'
    BY <1>1, <1>5, <1>7 DEF Matching, Numbered, IsAnswer, Held
  <1>11. OpenApart'
    BY <1>1 DEF Matching, OpenApart, IsAnswer, Held
  <1>12. OpenGiven'
    BY <1>1, <1>7 DEF Matching, OpenGiven, AsGiven, IsAnswer, Held
  <1> QED
    BY <1>8, <1>9, <1>10, <1>11, <1>12 DEF Matching

LEMMA SetRestKeeps ==
  ASSUME TypeOK, NEW G, Matching(G), NEW a \in Askers, SetRest(a)
  PROVE  Matching(G)'
  <1>s. PICK s \in RsvpSlots : s = slot[a]
    BY AskerValues
  <1>m. PICK m : m = asking[a]
    OBVIOUS
  <1>1. /\ apc[a] = "rest" /\ Busy(a)
        /\ apc' = [apc EXCEPT ![a] = "idle"] /\ slot' = [slot EXCEPT ![a] = 0]
        /\ asking' = [asking EXCEPT ![a] = NoMessage]
        /\ pending_rsvp_packets' =
             [pending_rsvp_packets EXCEPT ![s].conf = m, ![s].waiting_confirmation = FALSE]
        /\ UNCHANGED << pending_mgmt_packets, asked, requests, local_next_m_id >>
    BY <1>s, <1>m DEF SetRest, Asked, Busy, listens, history
  <1>2. m \in Messages /\ m.n \in Nat /\ m.n # 0 /\ m.cid # -1
    BY <1>1, <1>m, AskerValues
  <1>3. Kept(s).conf = NoMessage /\ Kept(s).cid = m.cid
    BY <1>1, <1>s, <1>m DEF Matching, SlotsApart
  <1>4. /\ Kept(s)'.conf = m /\ Kept(s)'.waiting_confirmation = FALSE
        /\ Kept(s)'.cid = Kept(s).cid /\ Kept(s)'.mmid = Kept(s).mmid
        /\ \A t \in RsvpSlots : t # s => Kept(t)' = Kept(t)
    <2>1. Kept(s) \in Slot
      BY SlotValues
    <2> QED
      BY <1>1, <1>2, <2>1, SlotValues DEF Kept, Slot
  <1>5. /\ ~ Busy(a)' /\ apc'[a] # "rest"
        /\ \A b \in Askers \ {a} : /\ apc'[b] = apc[b] /\ slot'[b] = slot[b]
                                   /\ asking'[b] = asking[b] /\ (Busy(b)' <=> Busy(b))
    BY <1>1 DEF TypeOK, Busy
  <1>6. m.n <= asked /\ m.n \notin G
    BY <1>1, <1>m DEF Matching, NumbersApart, Numbered
  <1>7. \A t \in RsvpSlots : Kept(t).conf.n # m.n
    BY <1>1, <1>m DEF Matching, NumbersApart
  <1>8. \A b \in Askers \ {a} : Busy(b) => asking[b].n # m.n
    BY <1>1, <1>m DEF Matching, NumbersApart
  <1>9. \A b \in Askers \ {a} : Busy(b) => slot[b] # s
    BY <1>1, <1>s DEF Matching, SlotsApart
  <1>10. SlotsApart'
    <2>1. \A b, d \in Askers : apc'[b] = "rest" /\ Busy(d)' /\ slot'[b] = slot'[d] => b = d
      BY <1>5 DEF Matching, SlotsApart
    <2>2. ASSUME NEW b \in Askers, apc'[b] = "rest"
          PROVE  Kept(slot[b])'.conf = NoMessage /\ Kept(slot[b])'.cid = asking'[b].cid
      <3>1. b # a /\ slot'[b] = slot[b] /\ asking'[b] = asking[b] /\ apc[b] = "rest"
        BY <1>5, <2>2
      <3>2. slot[b] # s /\ slot[b] \in RsvpSlots
        BY <1>9, <3>1, AskerValues DEF Busy
      <3> QED
        BY <1>4, <3>1, <3>2 DEF Matching, SlotsApart, Kept
    <2>3. ASSUME NEW t \in RsvpSlots
          PROVE  /\ Kept(t)'.cid = -1 => Kept(t)'.conf = NoMessage
                 /\ Kept(t)'.conf # NoMessage => Kept(t)'.cid = Kept(t)'.conf.cid
      BY <1>2, <1>3, <1>4 DEF Matching, SlotsApart
    <2> QED
      BY <2>1, <2>2, <2>3 DEF SlotsApart, Kept
  <1>11. NumbersApart'
    <2>1. \A b, d \in Askers : Busy(b)' /\ Busy(d)' /\ asking'[b].n = asking'[d].n => b = d
      BY <1>5 DEF Matching, NumbersApart
    <2>2. \A b \in Askers, t \in RsvpSlots : Busy(b)' => asking'[b].n # Kept(t)'.conf.n
      BY <1>4, <1>5, <1>8 DEF Matching, NumbersApart
    <2>3. \A t, u \in RsvpSlots :
            Kept(t)'.conf.n = Kept(u)'.conf.n /\ Kept(t)'.conf.n # 0 => t = u
      BY <1>4, <1>7 DEF Matching, NumbersApart
    <2>4. \A b \in Askers : Busy(b)' => asking'[b].n <= asked'
      BY <1>1, <1>5 DEF Matching, NumbersApart
    <2>5. \A t \in RsvpSlots : Kept(t)'.conf.n <= asked'
      BY <1>1, <1>4, <1>6 DEF Matching, NumbersApart
    <2> QED
      BY <2>1, <2>2, <2>3, <2>4, <2>5 DEF NumbersApart
  <1>12. Numbered(G)'
    <2>1. \A b \in Askers : Busy(b)' => asking'[b].n \notin G
      BY <1>5 DEF Matching, Numbered
    <2>2. \A t \in RsvpSlots :
            /\ Kept(t)'.conf.kind = "path" /\ ~ Kept(t)'.waiting_confirmation
                 => Kept(t)'.conf.n \notin G
            /\ Kept(t)'.mmid < Cardinality(G)
      BY <1>4, <1>6 DEF Matching, Numbered
    <2> QED
      BY <1>1, <2>1, <2>2 DEF Matching, Numbered, IsAnswer, Held
  <1>13. OpenApart'
    BY <1>1 DEF Matching, OpenApart, IsAnswer, Held
  <1>14. \A i, n, c : AsGiven(i, n, c) => AsGiven(i, n, c)'
    <2> SUFFICES ASSUME NEW i, NEW n, NEW c, AsGiven(i, n, c)
                 PROVE  AsGiven(i, n, c)'
      OBVIOUS
    <2>1. Kept(s).mmid # i
      BY <1>2, <1>3 DEF AsGiven, NoMessage
    <2> QED
      BY <1>4, <2>1 DEF AsGiven
  <1>15. OpenGiven'
    <2>1. UNCHANGED requests /\ \A t \in MgmtSlots : IsAnswer(t)' => IsAnswer(t) /\ Held(t)' = Held(t)
      BY <1>1 DEF IsAnswer, Held
    <2> QED
      BY <1>14, <2>1, OpenGivenKept DEF Matching
  <1> QED
    BY <1>10, <1>11, <1>12, <1>13, <1>15 DEF Matching
-----------------------------------------------------------------------------
(* The listener empties a slot, or puts its message to the client.         *)

(* The slot s is emptied, whose id, if it was ever open, is so no longer.  *)
LEMMA FreeKeeps ==
  ASSUME TypeOK, NEW G, Matching(G), NEW s \in RsvpSlots, FreeSlot(s), ~ HalfFilled(s),
         UNCHANGED << askers, local_next_m_id >>, requests' \subseteq requests,
         \A t \in MgmtSlots : IsAnswer(t)' => IsAnswer(t) /\ Held(t)' = Held(t),
         \A r \in requests' : r.id # Kept(s).mmid,
         \A t \in MgmtSlots : IsAnswer(t)' => Held(t)'.id # Kept(s).mmid
  PROVE  Matching(G)'
  <1>1. UNCHANGED << apc, slot, asking, asked, local_next_m_id >>
    BY DEF askers
  <1>2. /\ Kept(s)'.cid = -1 /\ Kept(s)'.conf = NoMessage
        /\ Kept(s)'.waiting_confirmation = FALSE /\ Kept(s)'.mmid = Kept(s).mmid
        /\ \A t \in RsvpSlots : t # s => Kept(t)' = Kept(t)
    <2>1. Kept(s) \in Slot
      BY SlotValues
    <2> QED
      BY <2>1, SlotValues DEF FreeSlot, Kept, Slot
  <1>3. \A a \in Askers : apc[a] = "rest" => slot[a] # s
    BY DEF HalfFilled
  <1>4. NoMessage.n = 0 /\ NoMessage.kind # "path" /\ asked \in Nat
    BY DEF NoMessage, TypeOK
  <1>5. SlotsApart'
    <2>1. \A a \in Askers :
            apc[a] = "rest" => /\ Kept(slot[a])'.conf = NoMessage
                               /\ Kept(slot[a])'.cid = asking[a].cid
      <3> SUFFICES ASSUME NEW a \in Askers, apc[a] = "rest"
                   PROVE  /\ Kept(slot[a])'.conf = NoMessage
                          /\ Kept(slot[a])'.cid = asking[a].cid
        OBVIOUS
      <3>1. slot[a] # s /\ slot[a] \in RsvpSlots
        BY <1>3, AskerValues
      <3> QED
        BY <1>1, <1>2, <3>1 DEF Matching, SlotsApart, Kept
    <2>2. ASSUME NEW t \in RsvpSlots
          PROVE  /\ Kept(t)'.cid = -1 => Kept(t)'.conf = NoMessage
                 /\ Kept(t)'.conf # NoMessage => Kept(t)'.cid = Kept(t)'.conf.cid
      BY <1>2 DEF Matching, SlotsApart
    <2>3. \A a, b \in Askers : apc[a] = "rest" /\ Busy(b) /\ slot[a] = slot[b] => a = b
      BY DEF Matching, SlotsApart
    <2> QED
      BY <1>1, <2>1, <2>2, <2>3 DEF SlotsApart, Busy
  <1>6. NumbersApart'
    <2>1. \A t \in RsvpSlots : Kept(t)'.conf.n = 0 \/ (t # s /\ Kept(t)' = Kept(t))
      BY <1>2, <1>4
    <2>2. \A a \in Askers, t \in RsvpSlots : Busy(a) => asking[a].n # Kept(t)'.conf.n
      BY <2>1, AskerValues DEF Matching, NumbersApart
    <2>3. \A t, u \in RsvpSlots :
            Kept(t)'.conf.n = Kept(u)'.conf.n /\ Kept(t)'.conf.n # 0 => t = u
      BY <2>1 DEF Matching, NumbersApart
    <2>4. \A t \in RsvpSlots : Kept(t)'.conf.n <= asked
      BY <1>4, <2>1 DEF Matching, NumbersApart
    <2> QED
      BY <1>1, <2>2, <2>3, <2>4 DEF Matching, NumbersApart, Busy
  <1>7. Numbered(G)'
    <2>1. \A t \in RsvpSlots :
            /\ Kept(t)'.conf.kind = "path" /\ ~ Kept(t)'.waiting_confirmation
                 => Kept(t)'.conf.n \notin G
            /\ Kept(t)'.mmid < Cardinality(G)
      BY <1>2, <1>4 DEF Matching, Numbered
    <2>2. /\ \A r \in requests' : r.id < Cardinality(G)
          /\ \A t \in MgmtSlots : IsAnswer(t)' => Held(t)'.id < Cardinality(G)
      BY DEF Matching, Numbered
    <2> QED
      BY <1>1, <2>1, <2>2 DEF Matching, Numbered, Busy
  <1>8. OpenApart'
    BY DEF Matching, OpenApart
  <1>9. \A i, n, c : i # Kept(s).mmid /\ AsGiven(i, n, c) => AsGiven(i, n, c)'
    BY <1>2 DEF AsGiven
  <1>10. OpenGiven'
    BY <1>9, OpenGivenKept DEF Matching
  <1> QED
    BY <1>5, <1>6, <1>7, <1>8, <1>10 DEF Matching

(* The id of a slot that holds no PATH that waits is not open.             *)
LEMMA NotOpen ==
  ASSUME OpenGiven, NEW s \in RsvpSlots,
         ~ (Kept(s).waiting_confirmation /\ Kept(s).conf.kind = "path")
  PROVE  /\ \A r \in requests : r.id # Kept(s).mmid
         /\ \A t \in MgmtSlots : IsAnswer(t) => Held(t).id # Kept(s).mmid
  <1>1. \A i, n, c : AsGiven(i, n, c) => i # Kept(s).mmid
    BY DEF AsGiven
  <1> QED
    BY <1>1 DEF OpenGiven

(* Slots keep their messages: they stay apart.                             *)
LEMMA MarkedApart ==
  ASSUME TypeOK, SlotsApart, NumbersApart, UNCHANGED << apc, slot, asking, asked >>,
         \A t \in RsvpSlots : Kept(t)'.cid = Kept(t).cid /\ Kept(t)'.conf = Kept(t).conf
  PROVE  SlotsApart' /\ NumbersApart'
  <1>1. \A a \in Askers :
          apc[a] = "rest" => /\ Kept(slot[a])'.conf = NoMessage
                             /\ Kept(slot[a])'.cid = asking[a].cid
    BY AskerValues DEF SlotsApart, Kept
  <1>2. \A a, b \in Askers : apc[a] = "rest" /\ Busy(b) /\ slot[a] = slot[b] => a = b
    BY DEF SlotsApart
  <1>3. \A t \in RsvpSlots : /\ Kept(t)'.cid = -1 => Kept(t)'.conf = NoMessage
                             /\ Kept(t)'.conf # NoMessage => Kept(t)'.cid = Kept(t)'.conf.cid
    BY DEF SlotsApart
  <1>4. SlotsApart'
    BY <1>1, <1>2, <1>3 DEF SlotsApart, Busy
  <1>5. NumbersApart'
    BY DEF NumbersApart, Busy
  <1> QED
    BY <1>4, <1>5

LEMMA RequestDeleteKeeps ==
  ASSUME TypeOK, NEW G, Matching(G), RequestDelete
  PROVE  Matching(G)'
  <1>s. PICK s \in RsvpSlots : s = k
    BY DEF RequestDelete, TypeOK
  <1>k. Kept(s).conf.kind # "path"
    BY <1>s DEF RequestDelete, Pending, Kept
  <1>1. /\ pending_rsvp_packets' =
             [pending_rsvp_packets EXCEPT ![s].waiting_confirmation = TRUE]
        /\ UNCHANGED << pending_mgmt_packets, apc, slot, asking, asked, local_next_m_id,
                        requests >>
    BY <1>s DEF RequestDelete, NextRsvp, Pending, Kept, askers
  <1>2. /\ Kept(s)'.cid = Kept(s).cid /\ Kept(s)'.conf = Kept(s).conf
        /\ Kept(s)'.mmid = Kept(s).mmid
        /\ \A t \in RsvpSlots : t # s => Kept(t)' = Kept(t)
    <2>1. Kept(s) \in Slot
      BY SlotValues
    <2> QED
      BY <1>1, <2>1, SlotValues DEF Kept, Slot
  <1>3. SlotsApart' /\ NumbersApart'
    BY <1>1, <1>2, MarkedApart DEF Matching
  <1>4. Numbered(G)'
    <2>1. \A t \in RsvpSlots :
            /\ Kept(t)'.conf.kind = "path" /\ ~ Kept(t)'.waiting_confirmation
                 => Kept(t)'.conf.n \notin G
            /\ Kept(t)'.mmid < Cardinality(G)
      <3> SUFFICES ASSUME NEW t \in RsvpSlots
                   PROVE  /\ Kept(t)'.conf.kind = "path" /\ ~ Kept(t)'.waiting_confirmation
                               => Kept(t)'.conf.n \notin G
                          /\ Kept(t)'.mmid < Cardinality(G)
        OBVIOUS
      <3>1. CASE t = s
        BY <1>k, <1>2, <3>1 DEF Matching, Numbered
      <3>2. CASE t # s
        BY <1>2, <3>2 DEF Matching, Numbered
      <3> QED
        BY <3>1, <3>2
    <2> QED
      BY <1>1, <2>1 DEF Matching, Numbered, Busy, IsAnswer, Held
  <1>5. OpenApart'
    BY <1>1 DEF Matching, OpenApart, IsAnswer, Held
  <1>6. ASSUME NEW i, NEW n, NEW c, AsGiven(i, n, c)
        PROVE  AsGiven(i, n, c)'
    <2>1. Kept(s).mmid # i
      BY <1>k, <1>6 DEF AsGiven
    <2> QED
      BY <1>2, <1>6, <2>1 DEF AsGiven
  <1>7. OpenGiven'
    <2>1. \A t \in MgmtSlots : IsAnswer(t)' => IsAnswer(t) /\ Held(t)' = Held(t)
      BY <1>1 DEF IsAnswer, Held
    <2> QED
      BY <1>1, <1>6, <2>1, OpenGivenKept DEF Matching
  <1> QED
    BY <1>3, <1>4, <1>5, <1>7 DEF Matching

(* The next id is given to the message of slot s.  It is an id that was    *)
(* never given, as there are more ids than messages.                       *)
LEMMA RequestCreateKeeps ==
  ASSUME MaxAsked <= ID_RANGE, TypeOK, asked <= MaxAsked,
         NEW G, Matching(G), RequestCreate
  PROVE  \E H : Matching(H)'
  <1>s. PICK s \in RsvpSlots : s = k
    BY DEF RequestCreate, TypeOK
  <1>i. PICK id : id = local_next_m_id
    OBVIOUS
  <1>m. PICK m : m = Kept(s).conf
    OBVIOUS
  <1>1. /\ Kept(s).cid # -1 /\ m.kind = "path" /\ ~ Kept(s).waiting_confirmation
        /\ pending_rsvp_packets' =
             [pending_rsvp_packets EXCEPT ![s].mmid = id, ![s].waiting_confirmation = TRUE]
        /\ local_next_m_id' = (id + 1) % ID_RANGE
        /\ \/ requests' = requests \cup {[id |-> id, request |-> m.n, cid |-> m.cid]}
           \/ requests' = requests
        /\ UNCHANGED << pending_mgmt_packets, apc, slot, asking, asked >>
    BY <1>s, <1>i, <1>m DEF RequestCreate, NextRsvp, Pending, Kept, askers
  <1>2. /\ Kept(s)'.cid = Kept(s).cid /\ Kept(s)'.conf = m
        /\ Kept(s)'.mmid = id /\ Kept(s)'.waiting_confirmation = TRUE
        /\ \A t \in RsvpSlots : t # s => Kept(t)' = Kept(t)
    <2>1. Kept(s) \in Slot
      BY SlotValues
    <2> QED
      BY <1>1, <1>m, <2>1, SlotValues DEF Kept, Slot
  <1>3. m \in Messages /\ m.n \in Nat /\ m.n # 0 /\ m = [n |-> m.n, cid |-> m.cid, kind |-> "path"]
    <2>1. m \in Messages
      BY <1>1, <1>m, SlotValues DEF NoMessage
    <2> QED
      BY <1>1, <2>1 DEF Messages
  <1>4. m.n \notin G /\ m.n \in 1 .. asked /\ asked \in Nat /\ G \subseteq 1 .. asked
    BY <1>1, <1>3, <1>m DEF Matching, NumbersApart, Numbered, TypeOK
  <1> DEFINE H == G \cup {m.n}
             g == Cardinality(G)
  <1>5. g \in Nat /\ Cardinality(H) = g + 1 /\ g + 1 <= asked
    <2>1. IsFiniteSet(1 .. asked) /\ Cardinality(1 .. asked) = asked
      BY <1>4, FS_Interval
    <2>2. IsFiniteSet(G)
      BY <1>4, <2>1, FS_Subset
    <2>3. g \in Nat
      BY <2>2, FS_CardinalityType
    <2>4. Cardinality(H) = g + 1
      BY <1>4, <2>2, FS_AddElement
    <2>5. H \subseteq 1 .. asked
      BY <1>4
    <2>6. Cardinality(H) <= asked
      BY <2>1, <2>5, FS_Subset
    <2> QED
      BY <2>3, <2>4, <2>6
  <1>6. id = g
    <2>1. g < ID_RANGE /\ id = g % ID_RANGE /\ asked <= MaxAsked /\ MaxAsked \in Nat
      BY <1>4, <1>5, <1>i, Constants, MgmtAssumption DEF Matching, Numbered
    <2> QED
      BY <1>5, <2>1, Constants
  <1> HIDE DEF g
  <1>7. SlotsApart' /\ NumbersApart'
    BY <1>1, <1>2, <1>m, MarkedApart DEF Matching
  <1>8. Numbered(H)'
    <2>1. H \subseteq 1 .. asked' /\ local_next_m_id' = Cardinality(H) % ID_RANGE
      BY <1>1, <1>4, <1>5, <1>6
    <2>2. \A a \in Askers : Busy(a)' => asking'[a].n \notin H
      BY <1>1, <1>m DEF Matching, Numbered, NumbersApart, Busy
    <2>3. \A t \in RsvpSlots :
            Kept(t)'.conf.kind = "path" /\ ~ Kept(t)'.waiting_confirmation
              => Kept(t)'.conf.n \notin H
      <3> SUFFICES ASSUME NEW t \in RsvpSlots,
                          Kept(t)'.conf.kind = "path", ~ Kept(t)'.waiting_confirmation
                   PROVE  Kept(t)'.conf.n \notin H
        OBVIOUS
      <3>1. t # s /\ Kept(t)' = Kept(t)
        BY <1>2
      <3>2. Kept(t).conf.n # m.n
        BY <1>3, <1>m, <3>1 DEF Matching, NumbersApart
      <3>3. Kept(t).conf.n \notin G
        BY <3>1 DEF Matching, Numbered
      <3> QED
        BY <3>1, <3>2, <3>3
    <2>4. ASSUME NEW t \in RsvpSlots
          PROVE  Kept(t)'.mmid < Cardinality(H)
      <3>1. CASE t = s
        BY <1>2, <1>5, <1>6, <3>1
      <3>2. CASE t # s
        <4>1. Kept(t)'.mmid = Kept(t).mmid /\ Kept(t).mmid < g /\ Kept(t).mmid \in Int
          BY <1>2, <3>2, SlotValues DEF Matching, Numbered, g
        <4> QED
          BY <1>5, <4>1
      <3> QED
        BY <3>1, <3>2
    <2>5. ASSUME NEW r \in requests'
          PROVE  r.id < Cardinality(H)
      <3>1. CASE r \in requests
        <4>1. r.id < g /\ r.id \in Nat
          BY <3>1 DEF Matching, Numbered, g, TypeOK
        <4> QED
          BY <1>5, <4>1
      <3>2. CASE r \notin requests
        BY <1>1, <1>5, <1>6, <2>5, <3>2
      <3> QED
        BY <3>1, <3>2
    <2>6. ASSUME NEW t \in MgmtSlots, IsAnswer(t)'
          PROVE  Held(t)'.id < Cardinality(H)
      <3>1. Held(t)' = Held(t) /\ Held(t).id < g /\ Held(t).id \in Nat
        BY <1>1, <2>6, HeldValues DEF Matching, Numbered, g, IsAnswer, Held
      <3> QED
        BY <1>5, <3>1
    <2> QED
      BY <2>1, <2>2, <2>3, <2>4, <2>5, <2>6 DEF Numbered
  <1>9. /\ \A r \in requests : r.id # id
        /\ \A t \in MgmtSlots : IsAnswer(t) => Held(t).id # id
    BY <1>5, <1>6 DEF Matching, Numbered, g
  <1>10. OpenApart'
    <2>1. \A r \in requests' : r \in requests \/ r = [id |-> id, request |-> m.n, cid |-> m.cid]
      BY <1>1
    <2>2. \A r, q \in requests' : r.id = q.id => r = q
      BY <1>9, <2>1 DEF Matching, OpenApart
    <2>3. \A r \in requests', t \in MgmtSlots : IsAnswer(t) => Held(t).id # r.id
      BY <1>9, <2>1 DEF Matching, OpenApart
    <2> QED
      BY <1>1, <2>2, <2>3 DEF Matching, OpenApart, IsAnswer, Held
  <1>11. ASSUME NEW i, NEW n, NEW c, i # id, AsGiven(i, n, c)
         PROVE  AsGiven(i, n, c)'
    BY <1>2, <1>11 DEF AsGiven
  <1>12. AsGiven(id, m.n, m.cid)'
    <2> SUFFICES ASSUME NEW t \in RsvpSlots, Kept(t)'.mmid = id
                 PROVE  /\ Kept(t)'.waiting_confirmation
                        /\ Kept(t)'.conf = [n |-> m.n, cid |-> m.cid, kind |-> "path"]
      BY DEF AsGiven
    <2>1. t = s
      BY <1>2, <1>5, <1>6, SlotValues DEF Matching, Numbered, g
    <2> QED
      BY <1>2, <1>3, <2>1
  <1>13. OpenGiven'
    <2>1. ASSUME NEW r \in requests'
          PROVE  AsGiven(r.id, r.request, r.cid)'
      <3>1. CASE r \in requests
        BY <1>9, <1>11, <3>1 DEF Matching, OpenGiven
      <3>2. CASE r \notin requests
        BY <1>1, <1>12, <2>1, <3>2
      <3> QED
        BY <3>1, <3>2
    <2>2. ASSUME NEW t \in MgmtSlots, IsAnswer(t)'
          PROVE  AsGiven(Held(t).id, Held(t).request, Held(t).path)'
      <3>1. PICK h : h = Held(t)
        OBVIOUS
      <3>2. h = Held(t)' /\ IsAnswer(t)
        BY <1>1, <2>2, <3>1 DEF Held, IsAnswer
      <3>3. AsGiven(h.id, h.request, h.path) /\ h.id # id
        BY <1>9, <3>1, <3>2 DEF Matching, OpenGiven
      <3>4. AsGiven(h.id, h.request, h.path)'
        BY <1>11, <3>3
      <3> QED
        BY <3>2, <3>4 DEF AsGiven
    <2> QED
      BY <2>1, <2>2 DEF OpenGiven
  <1>14. Matching(H)'
    BY <1>7, <1>8, <1>10, <1>13 DEF Matching
  <1> QED
    BY <1>14

(* A message that is only reported leaves its slot.                        *)
LEMMA InformKeeps ==
  ASSUME TypeOK, NEW G, Matching(G), Inform
  PROVE  Matching(G)'
  <1>s. PICK s \in RsvpSlots : s = k
    BY DEF Inform, TypeOK
  <1>1. FreeSlot(s) /\ ~ HalfFilled(s) /\ Kept(s).conf.kind # "path"
        /\ UNCHANGED << pending_mgmt_packets, askers, local_next_m_id, requests >>
    BY <1>s DEF Inform, NextRsvp, Pending, Kept
  <1>2. \A t \in MgmtSlots : IsAnswer(t)' => IsAnswer(t) /\ Held(t)' = Held(t)
    BY <1>1 DEF IsAnswer, Held
  <1>3. /\ \A r \in requests' : r.id # Kept(s).mmid
        /\ \A t \in MgmtSlots : IsAnswer(t)' => Held(t)'.id # Kept(s).mmid
    BY <1>1, <1>2, NotOpen DEF Matching
  <1> QED
    BY <1>1, <1>2, <1>3, FreeKeeps

(* What is left of the client's messages when one was served.              *)
LEMMA ServedDrops ==
  ASSUME TypeOK, Served
  PROVE  /\ k \in MgmtSlots /\ UNCHANGED << askers, local_next_m_id, requests >>
         /\ \A t \in MgmtSlots : IsAnswer(t)' => t # k /\ IsAnswer(t) /\ Held(t)' = Held(t)
  <1>1. k \in MgmtSlots /\ UNCHANGED << askers, local_next_m_id, requests >>
    BY DEF Served, TypeOK
  <1>2. PICK f : f = k
    OBVIOUS
  <1>3. Held(f)'.what = "none" /\ \A t \in MgmtSlots : t # f => Held(t)' = Held(t)
    BY <1>1, <1>2 DEF Served, TypeOK, Held, NoPacket
  <1> QED
    BY <1>1, <1>2, <1>3 DEF IsAnswer

AnswerGood == delivered.conf = delivered.request /\ delivered.cid = delivered.asked

(* The answer goes to the connection that asked, about what it asked.      *)
LEMMA ServeAnswerKeeps ==
  ASSUME TypeOK, NEW G, Matching(G), ServeAnswer, ~ wild'
  PROVE  Matching(G)' /\ AnswerGood'
  <1>h. PICK h : h = Held(k)
    OBVIOUS
  <1>s. PICK s : s = Lowest(find_pending_rsvp_packet(Message))
    OBVIOUS
  <1>1. Served /\ IsAnswer(k) /\ h = Message /\ k \in MgmtSlots
    BY <1>h, ServedDrops DEF ServeAnswer, IsAnswer, Held, Message
  <1>2. s \in RsvpSlots /\ Kept(s).cid = h.path /\ Kept(s).mmid = h.id
    <2>1. /\ find_pending_rsvp_packet(Message) # {}
          /\ find_pending_rsvp_packet(Message) \subseteq Nat
      BY Slots DEF ServeAnswer, find_pending_rsvp_packet
    <2>2. s \in find_pending_rsvp_packet(Message)
      BY <1>s, <2>1, LowestOf
    <2> QED
      BY <1>1, <2>2 DEF find_pending_rsvp_packet, Kept
  <1>3. /\ FreeSlot(s) /\ ~ HalfFilled(s)
        /\ delivered' = [request |-> h.request, conf |-> Kept(s).conf.n,
                         asked |-> Kept(s).conf.cid, cid |-> Kept(s).cid]
    BY <1>1, <1>s DEF ServeAnswer, Kept
  <1>4. Kept(s).conf = [n |-> h.request, cid |-> h.path, kind |-> "path"]
    <2>1. AsGiven(h.id, h.request, h.path)
      BY <1>1, <1>h DEF Matching, OpenGiven
    <2> QED
      BY <1>2, <2>1 DEF AsGiven
  <1>5. /\ \A r \in requests' : r.id # Kept(s).mmid
        /\ \A t \in MgmtSlots : IsAnswer(t)' => Held(t)'.id # Kept(s).mmid
    BY <1>1, <1>2, <1>h, ServedDrops DEF Matching, OpenApart
  <1>6. Matching(G)'
    BY <1>1, <1>2, <1>3, <1>5, ServedDrops, FreeKeeps
  <1>7. AnswerGood'
    BY <1>2, <1>3, <1>4 DEF AnswerGood
  <1> QED
    BY <1>6, <1>7

(* The client answers a request that is open, which it then is no longer.  *)
LEMMA ReadKeeps ==
  ASSUME TypeOK, NEW G, Matching(G), read_mgnt_packets
  PROVE  Matching(G)'
  <1>f. PICK f \in MgmtSlots : f = FirstFree
    BY LowestOf, Slots DEF read_mgnt_packets, FirstFree, FreeSlots
  <1>1. PICK m \in Requests \cup Answers :
          /\ pending_mgmt_packets' =
               [pending_mgmt_packets EXCEPT ![f] = [packet |-> m, filled |-> TRUE]]
          /\ requests' \subseteq StillOpen(m)
    BY <1>f DEF read_mgnt_packets
  <1>2. UNCHANGED << pending_rsvp_packets, apc, slot, asking, asked, local_next_m_id >>
    BY DEF read_mgnt_packets, askers, listens
  <1>3. requests' \subseteq requests /\ \A r \in requests' : r.request # m.request
    BY <1>1 DEF StillOpen
  <1>4. Held(f)' = m /\ \A t \in MgmtSlots : t # f => Held(t)' = Held(t)
    BY <1>1 DEF Held, TypeOK
  <1>5. ASSUME IsAnswer(f)'
        PROVE  \E r \in requests : m.id = r.id /\ m.request = r.request /\ m.path = r.cid
    <2>1. m \notin Requests
      BY <1>4, <1>5 DEF IsAnswer, Requests, Packet
    <2> QED
      BY <2>1 DEF Answers, Packet
  <1>6. \A t \in MgmtSlots : t # f => (IsAnswer(t)' <=> IsAnswer(t))
    BY <1>4 DEF IsAnswer
  <1>7. SlotsApart' /\ NumbersApart'
    BY <1>2 DEF Matching, SlotsApart, NumbersApart, Kept, Busy
  <1>8. Numbered(G)'
    <2>1. \A t \in MgmtSlots : IsAnswer(t)' => Held(t)'.id < Cardinality(G)
      BY <1>4, <1>5, <1>6 DEF Matching, Numbered
    <2>2. \A r \in requests' : r.id < Cardinality(G)
      BY <1>3 DEF Matching, Numbered
    <2> QED
      BY <1>2, <2>1, <2>2 DEF Matching, Numbered, Kept, Busy
  <1>9. OpenApart'
    <2>1. \A r \in requests' : IsAnswer(f)' => m.id # r.id
      BY <1>3, <1>5 DEF Matching, OpenApart
    <2>2. \A t \in MgmtSlots : t # f /\ IsAnswer(f)' /\ IsAnswer(t) => Held(t).id # m.id
      BY <1>5 DEF Matching, OpenApart
    <2>3. \A r \in requests', t \in MgmtSlots : IsAnswer(t)' => Held(t)'.id # r.id
      BY <1>3, <1>4, <1>6, <2>1 DEF Matching, OpenApart
    <2>4. \A t, u \in MgmtSlots :
            IsAnswer(t)' /\ IsAnswer(u)' /\ Held(t)'.id = Held(u)'.id => t = u
      BY <1>4, <1>6, <2>2 DEF Matching, OpenApart
    <2>5. \A r, q \in requests' : r.id = q.id => r = q
      BY <1>3 DEF Matching, OpenApart
    <2> QED
      BY <2>3, <2>4, <2>5 DEF OpenApart
  <1>10. ASSUME NEW i, NEW n, NEW c, AsGiven(i, n, c)
         PROVE  AsGiven(i, n, c)'
    BY <1>2, <1>10 DEF AsGiven, Kept
  <1>11. OpenGiven'
    <2>1. \A r \in requests' : AsGiven(r.id, r.request, r.cid)'
      BY <1>3, <1>10 DEF Matching, OpenGiven
    <2>2. ASSUME NEW t \in MgmtSlots, IsAnswer(t)'
          PROVE  AsGiven(Held(t).id, Held(t).request, Held(t).path)'
      <3>1. PICK h : h = Held(t)'
        OBVIOUS
      <3>2. AsGiven(h.id, h.request, h.path)
        <4>1. CASE t = f
          BY <1>4, <1>5, <2>2, <3>1, <4>1 DEF Matching, OpenGiven
        <4>2. CASE t # f
          BY <1>4, <1>6, <2>2, <3>1, <4>2 DEF Matching, OpenGiven
        <4> QED
          BY <4>1, <4>2
      <3>3. AsGiven(h.id, h.request, h.path)'
        BY <1>10, <3>2
      <3> QED
        BY <3>1, <3>3 DEF AsGiven
    <2> QED
      BY <2>1, <2>2 DEF OpenGiven
  <1> QED
    BY <1>7, <1>8, <1>9, <1>11 DEF Matching

-----------------------------------------------------------------------------

Matched == asked <= MaxAsked /\ (~ wild => AnswerGood /\ \E G : Matching(G))

LEMMA InitMatched == Init => Matched
  <1> SUFFICES ASSUME Init
               PROVE  Matched
    OBVIOUS
  <1>1. /\ \A s \in RsvpSlots : /\ Kept(s).cid = -1 /\ Kept(s).mmid = -1
                                /\ Kept(s).conf = NoMessage
        /\ \A s \in MgmtSlots : ~ IsAnswer(s)
        /\ \A a \in Askers : ~ Busy(a) /\ apc[a] # "rest"
        /\ requests = {} /\ asked = 0 /\ local_next_m_id = 0
    BY DEF Init, Kept, IsAnswer, Held, NoPacket, Busy
  <1>2. Cardinality({}) = 0 /\ 0 = 0 % ID_RANGE
    BY Constants, FS_EmptySet
  <1>3. NoMessage.n = 0 /\ NoMessage.kind # "path"
    BY DEF NoMessage
  <1>4. SlotsApart /\ NumbersApart
    BY <1>1, <1>3 DEF SlotsApart, NumbersApart
  <1>5. Numbered({})
    BY <1>1, <1>2, <1>3 DEF Numbered
  <1>6. OpenApart /\ OpenGiven
    BY <1>1 DEF OpenApart, OpenGiven
  <1>7. AnswerGood
    BY DEF Init, NoAnswer, AnswerGood
  <1>8. asked <= MaxAsked
    BY <1>1, MgmtAssumption
  <1> QED
    BY <1>4, <1>5, <1>6, <1>7, <1>8 DEF Matching, Matched

LEMMA MatchedKept ==
  ASSUME MaxAsked <= ID_RANGE, TypeOK, Matched, [Next]_vars
  PROVE  Matched'
  <1>a. asked' <= MaxAsked
    <2>1. CASE \E a \in Askers : Choose(a)
      BY <2>1, MgmtAssumption DEF Choose, TypeOK
    <2>2. CASE ~ \E a \in Askers : Choose(a)
      <3>1. UNCHANGED asked
        BY <2>2 DEF Next, Fill, SetCid, SetRest, Asked, Listen, Wake, HalfRead, NothingPending,
             RequestCreate, RequestDelete, Inform, NextRsvp, NoneReceived, ServeRequest,
             ServeAnswer, DropAnswer, Served, Free, accepting_connection,
             read_mgnt_packets, Closed, askers, vars
      <3> QED
        BY <3>1 DEF Matched
    <2> QED
      BY <2>1, <2>2
  <1> SUFFICES ASSUME ~ wild'
               PROVE  AnswerGood' /\ \E G : Matching(G)'
    BY <1>a DEF Matched
  <1>w. ~ wild
    BY DEF Next, vars
  <1>g. PICK G : Matching(G)
    BY <1>w DEF Matched
  <1>d. AnswerGood /\ asked <= MaxAsked
    BY <1>w DEF Matched
  <1>1. CASE \E a \in Askers : Choose(a) \/ Fill(a)
    <2>1. Matching(G)'
      BY <1>1, <1>g, ChooseKeeps, SetCidKeeps, SetRestKeeps DEF Fill
    <2>2. UNCHANGED delivered
      BY <1>1 DEF Choose, Fill, SetCid, SetRest, Asked, listens
    <2> QED
      BY <1>d, <2>1, <2>2 DEF AnswerGood
  <1>2. CASE RequestCreate
    BY <1>2, <1>d, <1>g, RequestCreateKeeps DEF RequestCreate, NextRsvp, AnswerGood
  <1>3. CASE RequestDelete
    BY <1>3, <1>d, <1>g, RequestDeleteKeeps DEF RequestDelete, NextRsvp, AnswerGood
  <1>4. CASE Inform
    BY <1>4, <1>d, <1>g, InformKeeps DEF Inform, NextRsvp, AnswerGood
  <1>5. CASE ServeAnswer
    BY <1>5, <1>g, ServeAnswerKeeps
  <1>6. CASE ServeRequest \/ DropAnswer
    <2>1. Served /\ UNCHANGED << pending_rsvp_packets, delivered >>
      BY <1>6 DEF ServeRequest, DropAnswer
    <2>2. Matching(G)'
      BY <1>g, <2>1, ServedDrops, DroppedKeeps
    <2> QED
      BY <1>d, <2>1, <2>2 DEF AnswerGood
  <1>7. CASE read_mgnt_packets
    <2>1. UNCHANGED delivered
      BY <1>7 DEF read_mgnt_packets, listens
    <2> QED
      BY <1>7, <1>d, <1>g, <2>1, ReadKeeps DEF AnswerGood
  <1>8. CASE \/ Wake \/ HalfRead \/ NothingPending \/ NoneReceived \/ Free
             \/ accepting_connection \/ Closed \/ UNCHANGED vars
    <2>1. UNCHANGED << pending_rsvp_packets, pending_mgmt_packets, askers, local_next_m_id,
                       requests >>
      BY <1>8 DEF Wake, HalfRead, NothingPending, NoneReceived, Free, NextRsvp,
           accepting_connection, Closed, vars, arrays, listens, history
    <2>2. \A t \in MgmtSlots : IsAnswer(t)' => IsAnswer(t) /\ Held(t)' = Held(t)
      BY <2>1 DEF IsAnswer, Held
    <2>3. Matching(G)'
      BY <1>g, <2>1, <2>2, DroppedKeeps
    <2>4. delivered' = delivered \/ delivered' = NoAnswer
      BY <1>8 DEF Wake, HalfRead, NothingPending, NoneReceived, Free, NextRsvp,
           accepting_connection, Closed, vars, listens
    <2> QED
      BY <1>d, <2>3, <2>4 DEF AnswerGood, NoAnswer
  <1> QED
    BY <1>1, <1>2, <1>3, <1>4, <1>5, <1>6, <1>7, <1>8 DEF Next, Listen

(* An answer of the client reaches the connection and the PATH it was      *)
(* asked about, for any number of slots, paths and askers and for whatever *)
(* the client answers, in any order, as long as no more is asked than      *)
(* there are ids (unsigned short: 65536 messages).                         *)
THEOREM AnswersCorrect ==
  ASSUME MaxAsked <= ID_RANGE
  PROVE  Spec => []AnswersMatch
  <1>1. TypeOK /\ Matched /\ [Next]_vars => Matched'
    BY MatchedKept
  <1>2. Matched => AnswersMatch
    BY DEF Matched, AnswersMatch, AnswerGood
  <1> QED
    BY <1>1, <1>2, InitMatched, TypeCorrect, PTL DEF Spec
===============================================================================
