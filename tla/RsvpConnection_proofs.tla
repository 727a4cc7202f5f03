------------------------ MODULE RsvpConnection_proofs ------------------------
(***************************************************************************)
(* Proofs about RsvpConnection: type correctness, the exclusion that the   *)
(* semaphore gives, and what follows from it.                              *)
(***************************************************************************)
EXTENDS RsvpConnection, FiniteSetTheorems, TLAPS

\* Where each thread can be, and that the division by RefreshInterval was
\* survived by a refresh thread that is past it.
PcOK ==
  /\ pc["main"] \in {"idle", "wait", "in"}
  /\ pc["recv"] \in {"idle", "wait", "in", "resvup", "dsleep"}
  /\ pc["list"] \in {"idle", "wait", "in", "resvup", "dsleep", "csent", "tsleep"}
  /\ pc["refr"] \in {"top", "count", "sleep", "twait", "rwait", "tin", "rin",
                     "rsend", "scan", "delete", "done"}
  /\ pc["refr"] \in {"rwait", "rin", "rsend", "sleep"} => RefreshInterval > 0

Typed == TypeOK /\ PcOK

USE DEF Threads

\* Labels, from the router or absent, are natural numbers.
LEMMA LabelsAreNat == UpstreamLabels \cup ResvLabels \cup {0} \subseteq Nat
BY ConnectionAssumption

\* What a packet of the router, or none, looks like.
LEMMA PacketType ==
  ASSUME NEW p \in Packets \cup {NoPacket}
  PROVE  p.lab \in Nat
BY LabelsAreNat, SMT DEF Packets, NoPacket

\* The initial state has the types, and the threads are where they may be.
LEMMA InitTyped == Init => Typed
<1> SUFFICES ASSUME Init PROVE Typed
  OBVIOUS
<1>1. PICK c \in Creators, p \in Packets :
        /\ c = "recv" => p.type = "PATH"
        /\ upstream \in IF ProtocolVers # "IETF_RSVP" THEN {TRUE}
                        ELSE IF c = "list" THEN BOOLEAN ELSE {FALSE}
        /\ pc = [t \in Threads |->
                   CASE t = c -> "wait" [] t = "refr" -> "top" [] OTHER -> "idle"]
        /\ job = [t \in Threads |->
                    IF t # c THEN NoJob
                    ELSE IF c = "list" THEN Job("create", NoPacket)
                    ELSE Job("packet", p)]
  BY DEF Init
<1>2. c \in {"recv", "list"}
  BY ConnectionAssumption
<1>3. PcOK
  BY <1>1, <1>2 DEF PcOK
<1>4. job \in [Threads -> Jobs]
  BY <1>1, <1>2 DEF Jobs, Ops, Job, NoJob
<1>5. pc \in [Threads -> PcStates]
  BY <1>1, <1>2 DEF PcStates
<1>6. upstream \in BOOLEAN
  BY <1>1
<1>7. TypeOK
  BY <1>4, <1>5, <1>6, ConnectionAssumption DEF TypeOK, Init, PathStates
<1> QED
  BY <1>3, <1>7 DEF Typed

\* Entering and leaving keep the types of pc, job, access and reg_holder.
LEMMA GotoTyped ==
  ASSUME Typed, NEW t \in Threads, NEW place \in PcStates, Goto(t, place)
  PROVE  /\ pc' \in [Threads -> PcStates]
         /\ pc'[t] = place
         /\ \A u \in Threads \ {t} : pc'[u] = pc[u]
BY DEF Typed, TypeOK, Goto

\* Giving units back keeps the types of pc, job, access and reg_holder.
LEMMA LeaveTyped ==
  ASSUME Typed, NEW t \in Threads, NEW place \in PcStates, NEW n \in Nat,
         LeaveAdding(t, place, n)
  PROVE  /\ pc' \in [Threads -> PcStates]
         /\ pc'[t] = place
         /\ \A u \in Threads \ {t} : pc'[u] = pc[u]
         /\ access' \in Nat
         /\ job' \in [Threads -> Jobs]
         /\ reg_holder' \in Threads \cup {"none"}
<1>1. NoJob \in Jobs
  BY DEF Jobs, NoJob, Job, Ops
<1>2. pc' \in [Threads -> PcStates] /\ pc'[t] = place
      /\ \A u \in Threads \ {t} : pc'[u] = pc[u]
  BY GotoTyped DEF LeaveAdding
<1>3. access' \in Nat
  BY DEF LeaveAdding, Typed, TypeOK
<1>4. job' \in [Threads -> Jobs]
  BY <1>1 DEF LeaveAdding, Typed, TypeOK
<1>5. reg_holder' \in Threads \cup {"none"}
  BY DEF LeaveAdding, Typed, TypeOK
<1> QED
  BY <1>2, <1>3, <1>4, <1>5

\* What is left to show of a step once pc, job and the locks are dealt with.
DataOK ==
  /\ path_state \in PathStates
  /\ path_direction \in {"UNDEFINED", "INCOMING", "OUTGOING"}
  /\ label \in Nat
  /\ key \in Keys \cup {0}
  /\ dest_address \in {"uninit", "zero", "TR_D"}
  /\ upstream \in BOOLEAN
  /\ in_labels \subseteq Nat
  /\ out_keys \subseteq Keys
  /\ routes \subseteq {"uninit", "zero", "TR_D"}
  /\ label_id \in 0 .. LabelIdRange - 1
  /\ pending \in Packets \cup {NoPacket}
  /\ status \in {"live", "deleted", "crashed"}

\* What the handlers of get_packet do to the types.
LEMMA CallerTyped ==
  ASSUME Typed, NEW t \in {"recv", "list"}, Caller(t)
  PROVE  Typed'
<1> USE DEF Typed, GetPacket, Serve, At
<1>0. t \in Threads /\ {"idle", "resvup", "dsleep"} \subseteq PcStates
  BY DEF PcStates
<1>a. ASSUME Leave(t, "idle"), surplus' = surplus, other' = other, UNCHANGED loop, DataOK'
      PROVE  Typed'
  <2>1. LeaveAdding(t, "idle", 1)
    BY <1>a DEF Leave
  <2>2. PcOK'
    BY <2>1, <1>0, LeaveTyped DEF PcOK
  <2>3. TypeOK'
    BY <1>a, <1>0, <2>1, LeaveTyped DEF TypeOK, DataOK, loop
  <2> QED
    BY <2>2, <2>3
<1>b. ASSUME NEW place \in {"resvup", "dsleep"}, Goto(t, place),
             UNCHANGED <<sema, loop, job, reg>>, DataOK'
      PROVE  Typed'
  <2>1. PcOK'
    BY <1>b, <1>0, GotoTyped DEF PcOK
  <2>2. TypeOK'
    BY <1>b, <1>0, GotoTyped DEF TypeOK, DataOK, loop, sema, reg
  <2> QED
    BY <2>1, <2>2
<1>c. DataOK
  BY DEF TypeOK, DataOK
<1>d. /\ job[t].pkt \in Packets \cup {NoPacket}
      /\ job[t].pkt.lab \in Nat
  BY <1>0, PacketType DEF TypeOK, Jobs
<1>e. NextLabelId \in 0 .. LabelIdRange - 1 /\ OwnLabel \in Nat
  BY <1>c, ConnectionAssumption DEF DataOK, NextLabelId, OwnLabel
<1> USE DEF DataOK, path, kernel, PathStates
<1>1. CASE Ignore(t)
  BY <1>1, <1>a, <1>c DEF Ignore
<1>2. CASE AskClient(t)
  BY <1>2, <1>a, <1>c, <1>d DEF AskClient
<1>3. CASE respond_path(t)
  BY <1>3, <1>a, <1>c, <1>d, <1>e DEF respond_path, WithInLabel
<1>4. CASE PathErr_RD_flags_response(t)
  <2>1. Leave(t, "idle") /\ surplus' = surplus /\ other' = other /\ UNCHANGED loop
    BY <1>4 DEF PathErr_RD_flags_response
  <2>2. DataOK'
    <3>1. CASE ProtocolVers = "IETF_RSVP"
      <4>1. /\ path_direction' = "INCOMING" /\ label_id' = NextLabelId
            /\ label' = OwnLabel /\ path_state' = "PATH_RECV"
            /\ UNCHANGED <<key, in_labels, dest_address, upstream, out_keys,
                           routes, pending, status>>
        BY <1>4, <3>1 DEF PathErr_RD_flags_response
      <4> QED
        BY <4>1, <1>c, <1>e
    <3>2. CASE ProtocolVers # "IETF_RSVP"
      <4>1. /\ path_direction' = "INCOMING" /\ label_id' = NextLabelId
            /\ label' = 0 /\ key' = 0 /\ path_state' = "DOWN"
            /\ in_labels' = WithoutInLabel(OwnLabel)
            /\ UNCHANGED <<dest_address, upstream, out_keys, routes, pending,
                           status>>
        BY <1>4, <3>2 DEF PathErr_RD_flags_response
      <4> QED
        BY <4>1, <1>c, <1>e DEF WithoutInLabel
    <3> QED
      BY <3>1, <3>2
  <2> QED
    BY <1>a, <2>1, <2>2
<1>5. CASE respond_path_nack(t)
  BY <1>5, <1>a, <1>c DEF respond_path_nack
<1>6. CASE RespondResvBegin(t)
  BY <1>6, <1>b, <1>c DEF RespondResvBegin
<1>7. CASE RespondResvEnd(t)
  BY <1>7, <1>a, <1>c, <1>d DEF RespondResvEnd, NewKeys
<1>8. CASE RespondResvAgain(t)
  BY <1>8, <1>a, <1>c DEF RespondResvAgain
<1>9. CASE PathTear_RD_flags_response(t)
  <2>1. CASE ProtocolVers = "IETF_RSVP"
    <3>1. /\ UNCHANGED <<label, key, in_labels, path_state, pc, job, access,
                         reg_holder, path_direction, dest_address, upstream,
                         out_keys, routes, label_id, surplus, loop, other, pending>>
          /\ status' = "crashed"
      BY <1>9, <2>1 DEF PathTear_RD_flags_response
    <3>2. TypeOK'
      BY <3>1, <1>c DEF TypeOK, loop
    <3>3. PcOK'
      BY <3>1 DEF PcOK
    <3> QED
      BY <3>2, <3>3
  <2>2. CASE ProtocolVers # "IETF_RSVP"
    <3>1. /\ Leave(t, "idle") /\ surplus' = surplus /\ other' = other
          /\ UNCHANGED loop
          /\ label' = 0 /\ key' = 0 /\ path_state' = "DOWN"
          /\ in_labels' = WithoutInLabel(label)
          /\ UNCHANGED <<path_direction, dest_address, upstream, out_keys,
                         routes, label_id, pending, status>>
      BY <1>9, <2>2 DEF PathTear_RD_flags_response
    <3>2. DataOK'
      BY <3>1, <1>c DEF WithoutInLabel
    <3> QED
      BY <3>1, <3>2, <1>a
  <2> QED
    BY <2>1, <2>2
<1>10. CASE RespondResvDelete(t)
  BY <1>10, <1>b, <1>c, ZenonT(60) DEF RespondResvDelete, DeleteRoute
<1>11. CASE RespondResvDeleted(t)
  <2>1. LeaveAdding(t, "idle", 2) /\ surplus' = surplus + 1 /\ UNCHANGED <<loop, other>>
    BY <1>11 DEF RespondResvDeleted
  <2>2. DataOK'
    BY <1>11, <1>c DEF RespondResvDeleted, WithoutOutLabel
  <2>3. PcOK'
    BY <2>1, <1>0, LeaveTyped DEF PcOK
  <2>4. TypeOK'
    BY <2>1, <2>2, <1>0, LeaveTyped DEF TypeOK, loop
  <2> QED
    BY <2>3, <2>4
<1>12. CASE RespondEnd(t)
  BY <1>12, <1>a, <1>c DEF RespondEnd, WithoutInLabel, WithoutOutLabel
<1>13. CASE ReadsAbsent(t)
  <2>1. /\ UNCHANGED <<label, key, dest_address, upstream, kernel, sema, loop,
                       pc, job, reg, pending>>
        /\ path_direction' \in {"INCOMING", path_direction}
        /\ path_state' \in {"PATH_RECV", path_state} /\ status' = "crashed"
    BY <1>13 DEF ReadsAbsent
  <2>2. TypeOK'
    BY <2>1, <1>c DEF TypeOK, loop, sema, reg
  <2>3. PcOK'
    BY <2>1 DEF PcOK
  <2> QED
    BY <2>2, <2>3
<1> QED
  BY <1>1, <1>2, <1>3, <1>4, <1>5, <1>6, <1>7, <1>8, <1>9, <1>10, <1>11, <1>12,
     <1>13 DEF Caller

\* The rest of TypeOK: locks, threads and the variables of refresh_path.
ControlOK ==
  /\ access \in Nat
  /\ surplus \in Nat
  /\ refresh_tread_state \in {0, 1}
  /\ till_state_up_count \in 0 .. PathSetupTimeout + 1
  /\ tick_count \in Nat
  /\ pc \in [Threads -> PcStates]
  /\ job \in [Threads -> Jobs]
  /\ other \in {"idle", "delete"}
  /\ reg_holder \in Threads \cup {"none"}

\* Typed, split into what the handlers change and what the threads do.
LEMMA TypedParts == Typed <=> DataOK /\ ControlOK /\ PcOK
BY DEF Typed, TypeOK, DataOK, ControlOK

\* The parts are enough to conclude Typed in the next state.
LEMMA TypedFromParts ==
  ASSUME DataOK', ControlOK', PcOK'
  PROVE  Typed'
BY DEF Typed, TypeOK, DataOK, ControlOK

\* Callers only come with the jobs Jobs allows.
LEMMA RequestTyped ==
  ASSUME Typed, NEW t \in {"recv", "list", "main"}, NEW j \in Jobs,
         NEW holds \in BOOLEAN, Request(t, j, holds),
         pending' \in Packets \cup {NoPacket}
  PROVE  Typed'
<1>1. DataOK /\ ControlOK /\ PcOK
  BY TypedParts
<1>2. DataOK'
  BY <1>1 DEF DataOK, Request, path, kernel
<1>3. "wait" \in PcStates /\ t \in Threads
  BY DEF PcStates
<1>4. /\ pc' = [pc EXCEPT ![t] = "wait"]
      /\ job' = [job EXCEPT ![t] = j]
      /\ reg_holder' = IF holds THEN t ELSE reg_holder
      /\ UNCHANGED <<access, surplus, refresh_tread_state, till_state_up_count,
                     tick_count, other>>
  BY DEF Request, Goto, sema, loop
<1>5. ControlOK'
  BY <1>1, <1>3, <1>4 DEF ControlOK
<1>6. pc'[t] = "wait" /\ \A u \in Threads \ {t} : pc'[u] = pc[u]
  BY <1>1, <1>3, <1>4 DEF ControlOK
<1>7. PcOK'
  BY <1>1, <1>6 DEF PcOK
<1> QED
  BY <1>2, <1>5, <1>7, TypedFromParts

\* A step that leaves the semaphore with one unit.
LEMMA LeaveControl ==
  ASSUME Typed, NEW t \in Threads, NEW place \in PcStates, Leave(t, place),
         UNCHANGED <<surplus, other>>,
         refresh_tread_state' \in {0, 1},
         UNCHANGED <<till_state_up_count, tick_count>>,
         \/ t = "main" /\ place = "idle"
         \/ t = "list" /\ place = "idle"
         \/ t = "refr" /\ place \in {"sleep", "done"} /\ RefreshInterval > 0
         \/ t = "refr" /\ place = "done"
  PROVE  ControlOK' /\ PcOK'
<1>1. DataOK /\ ControlOK /\ PcOK
  BY TypedParts
<1>2. LeaveAdding(t, place, 1) /\ 1 \in Nat
  BY DEF Leave
<1>3. PcOK'
  BY <1>1, <1>2, LeaveTyped DEF PcOK
<1>4. ControlOK'
  BY <1>1, <1>2, LeaveTyped DEF ControlOK
<1> QED
  BY <1>3, <1>4

\* A step that only moves a thread, other variables of control unchanged.
LEMMA GotoControl ==
  ASSUME Typed, NEW t \in Threads, NEW place \in PcStates, Goto(t, place),
         UNCHANGED <<sema, job, reg>>,
         refresh_tread_state' \in {0, 1},
         till_state_up_count' \in 0 .. PathSetupTimeout + 1,
         tick_count' \in Nat,
         \/ t = "list" /\ place \in {"csent", "tsleep"}
         \/ t = "refr" /\ place \in {"top", "count", "scan", "delete", "done", "twait"}
         \/ t = "refr" /\ place \in {"rwait", "sleep", "rsend"} /\ RefreshInterval > 0
  PROVE  ControlOK' /\ PcOK'
<1>1. DataOK /\ ControlOK /\ PcOK
  BY TypedParts
<1>2. PcOK'
  BY <1>1, GotoTyped DEF PcOK
<1>3. ControlOK'
  BY <1>1, GotoTyped DEF ControlOK, sema, reg
<1> QED
  BY <1>2, <1>3

\* Passing access.wait() keeps the types and the places of the threads.
LEMMA EnterTyped ==
  ASSUME Typed, NEW t \in Threads, Enter(t)
  PROVE  Typed'
<1>1. DataOK /\ ControlOK /\ PcOK
  BY TypedParts
<1>2. access' \in Nat
  BY <1>1 DEF ControlOK, Enter
<1>3. PICK place \in {"in", "tin", "rin"} :
        /\ Goto(t, place)
        /\ place = "in" <=> pc[t] = "wait"
        /\ place = "tin" <=> pc[t] = "twait"
        /\ place = "rin" <=> pc[t] = "rwait"
  BY DEF Enter
<1>4. place \in PcStates
  BY DEF PcStates
<1>5. /\ pc' \in [Threads -> PcStates] /\ pc'[t] = place
      /\ \A u \in Threads \ {t} : pc'[u] = pc[u]
  BY <1>3, <1>4, GotoTyped
<1>6. PcOK'
  <2>1. pc[t] \in {"wait", "twait", "rwait"}
    BY DEF Enter
  <2>2. t # "refr" => place = "in"
    BY <1>1, <1>3, <2>1 DEF PcOK
  <2>3. t = "refr" => /\ place \in {"tin", "rin"}
                      /\ place = "rin" => pc[t] = "rwait"
    BY <1>1, <1>3, <2>1 DEF PcOK
  <2> QED
    BY <1>1, <1>5, <2>2, <2>3 DEF PcOK
<1>7. DataOK'
  BY <1>1 DEF DataOK, Enter, path, kernel
<1>8. ControlOK'
  BY <1>1, <1>2, <1>5 DEF ControlOK, Enter, loop, reg
<1> QED
  BY <1>6, <1>7, <1>8, TypedFromParts

\* Both halves of create_path keep the types.
LEMMA CreateTyped ==
  ASSUME Typed, CreatePathBegin \/ CreatePathEnd
  PROVE  Typed'
<1>1. DataOK /\ ControlOK /\ PcOK
  BY TypedParts
<1>2. {"csent", "idle"} \subseteq PcStates /\ "list" \in Threads
  BY DEF PcStates
<1>3. CASE CreatePathBegin
  <2>1. DataOK'
    BY <1>1, <1>3 DEF DataOK, CreatePathBegin, kernel, PathStates
  <2>2. ControlOK' /\ PcOK'
    BY <1>1, <1>2, <1>3, GotoControl DEF CreatePathBegin, ControlOK, loop
  <2> QED
    BY <2>1, <2>2, TypedFromParts
<1>4. CASE CreatePathEnd
  <2>1. DataOK'
    BY <1>1, <1>4 DEF DataOK, CreatePathEnd, kernel, PathStates
  <2>2. ControlOK' /\ PcOK'
    BY <1>1, <1>2, <1>4, LeaveControl DEF CreatePathEnd, ControlOK, loop
  <2> QED
    BY <2>1, <2>2, TypedFromParts
<1> QED
  BY <1>3, <1>4

\* Every outcome of destroy_path keeps the types.
LEMMA DestroyTyped ==
  ASSUME Typed,
         DestroyByFlags \/ DestroyLocallyBegin \/ DestroyLocallyEnd \/ DestroyFails
  PROVE  Typed'
<1>1. DataOK /\ ControlOK /\ PcOK
  BY TypedParts
<1>2. {"tsleep", "idle"} \subseteq PcStates /\ "list" \in Threads
  BY DEF PcStates
<1>3. CASE DestroyByFlags \/ DestroyFails
  <2>1. DataOK'
    BY <1>1, <1>3 DEF DataOK, DestroyByFlags, DestroyFails, path, kernel
  <2>2. ControlOK' /\ PcOK'
    BY <1>1, <1>2, <1>3, LeaveControl
       DEF DestroyByFlags, DestroyFails, ControlOK, loop
  <2> QED
    BY <2>1, <2>2, TypedFromParts
<1>4. CASE DestroyLocallyBegin
  <2>1. routes' \subseteq routes
    BY <1>4 DEF DestroyLocallyBegin, DeleteRoute
  <2>2. DataOK'
    BY <1>1, <1>4, <2>1 DEF DataOK, DestroyLocallyBegin, PathStates
  <2>3. ControlOK' /\ PcOK'
    BY <1>1, <1>2, <1>4, GotoControl DEF DestroyLocallyBegin, ControlOK, loop
  <2> QED
    BY <2>2, <2>3, TypedFromParts
<1>5. CASE DestroyLocallyEnd
  <2>1. DataOK'
    BY <1>1, <1>5 DEF DataOK, DestroyLocallyEnd, WithoutOutLabel, PathStates
  <2>2. ControlOK' /\ PcOK'
    BY <1>1, <1>2, <1>5, LeaveControl DEF DestroyLocallyEnd, ControlOK, loop
  <2> QED
    BY <2>1, <2>2, TypedFromParts
<1> QED
  BY <1>3, <1>4, <1>5

\* Every step of refresh_path keeps the types.
LEMMA RefreshTyped ==
  ASSUME Typed, RefreshThread \/ OtherScan \/ Delete
  PROVE  Typed'
<1>1. DataOK /\ ControlOK /\ PcOK
  BY TypedParts
<1>2. /\ {"top", "count", "scan", "delete", "done", "twait", "rwait", "sleep",
          "rsend"} \subseteq PcStates
      /\ "refr" \in Threads
  BY DEF PcStates
<1>3. PathSetupTimeout \in Nat /\ RefreshInterval \in Nat
  BY ConnectionAssumption
<1>4. CASE RefreshTop
  <2>1. DataOK'
    BY <1>1, <1>4 DEF DataOK, RefreshTop, path, kernel
  <2>2. PICK place \in {"scan", "count"} : Goto("refr", place)
    BY <1>4 DEF RefreshTop
  <2>3. ControlOK' /\ PcOK'
    BY <1>1, <1>2, <1>4, <2>2, GotoControl DEF RefreshTop, ControlOK
  <2> QED
    BY <2>1, <2>3, TypedFromParts
<1>5. CASE RefreshCount
  <2>1. DataOK'
    BY <1>1, <1>5 DEF DataOK, RefreshCount, path, kernel
  <2>2. till_state_up_count' \in 0 .. PathSetupTimeout + 1
    BY <1>1, <1>3, <1>5 DEF ControlOK, RefreshCount, NextCount
  <2>3. \/ UNCHANGED pc
        \/ Goto("refr", "twait")
        \/ RefreshInterval > 0 /\ (Goto("refr", "rwait") \/ Goto("refr", "sleep"))
    BY <1>3, <1>5 DEF RefreshCount
  <2>4. /\ UNCHANGED <<sema, job, reg, tick_count, refresh_tread_state>>
    BY <1>5 DEF RefreshCount
  <2>5. CASE UNCHANGED pc
    BY <1>1, <2>1, <2>2, <2>4, <2>5, TypedFromParts
       DEF ControlOK, PcOK, sema, reg
  <2>6. CASE ~UNCHANGED pc
    BY <1>1, <1>2, <2>1, <2>2, <2>3, <2>4, <2>6, GotoControl, TypedFromParts
       DEF ControlOK
  <2> QED
    BY <2>5, <2>6
<1>6. CASE SetupTimeout
  <2>1. DataOK'
    BY <1>1, <1>6 DEF DataOK, SetupTimeout, kernel, PathStates
  <2>2. ControlOK' /\ PcOK'
    BY <1>1, <1>2, <1>6, LeaveControl DEF SetupTimeout, ControlOK
  <2> QED
    BY <2>1, <2>2, TypedFromParts
<1>7. CASE RefreshBegin
  <2>1. DataOK'
    BY <1>1, <1>7 DEF DataOK, RefreshBegin, path, kernel
  <2>2. ControlOK' /\ PcOK'
    BY <1>1, <1>2, <1>7, GotoControl DEF RefreshBegin, At, ControlOK, PcOK, loop
  <2> QED
    BY <2>1, <2>2, TypedFromParts
<1>8. CASE RefreshSend \/ RefreshSkip
  <2>1. DataOK'
    BY <1>1, <1>8 DEF DataOK, RefreshSend, RefreshSkip, path, kernel
  <2>2. RefreshInterval > 0
    BY <1>1, <1>8 DEF RefreshSend, RefreshSkip, At, PcOK
  <2>3. ControlOK' /\ PcOK'
    BY <1>1, <1>2, <1>8, <2>2, LeaveControl
       DEF RefreshSend, RefreshSkip, ControlOK, loop
  <2> QED
    BY <2>1, <2>3, TypedFromParts
<1>9. CASE RefreshSleep
  <2>1. DataOK'
    BY <1>1, <1>9 DEF DataOK, RefreshSleep, path, kernel
  <2>2. RefreshInterval > 0 /\ tick_count \in Nat
    BY <1>1, <1>9 DEF RefreshSleep, At, PcOK, ControlOK
  <2>3. tick_count' \in Nat
    <3>1. tick_count' = (tick_count + 1) % RefreshInterval
      BY <1>9 DEF RefreshSleep
    <3> QED
      BY <1>3, <2>2, <3>1
  <2>4. ControlOK' /\ PcOK'
    BY <1>1, <1>2, <1>9, <2>3, GotoControl DEF RefreshSleep, ControlOK
  <2> QED
    BY <2>1, <2>4, TypedFromParts
<1>10. CASE RefreshScan
  <2>1. DataOK'
    BY <1>1, <1>10 DEF DataOK, RefreshScan, path, kernel
  <2>2. PICK place \in {"delete", "done"} : Goto("refr", place)
    BY <1>10 DEF RefreshScan
  <2>3. ControlOK' /\ PcOK'
    BY <1>1, <1>2, <1>10, <2>2, GotoControl DEF RefreshScan, ControlOK, loop
  <2> QED
    BY <2>1, <2>3, TypedFromParts
<1>11. CASE OtherScan
  BY <1>1, <1>11, TypedFromParts
     DEF DataOK, ControlOK, PcOK, OtherScan, path, kernel, sema, loop
<1>12. CASE Delete
  BY <1>1, <1>12, TypedFromParts
     DEF DataOK, ControlOK, PcOK, Delete, path, kernel, sema, loop, reg
<1> QED
  BY <1>4, <1>5, <1>6, <1>7, <1>8, <1>9, <1>10, <1>11, <1>12 DEF RefreshThread

\* Report and a signal in the main thread keep the types.
LEMMA MainTyped ==
  ASSUME Typed, Interrupted \/ ReportDone
  PROVE  Typed'
<1>1. DataOK /\ ControlOK /\ PcOK
  BY TypedParts
<1>2. {"in", "idle"} \subseteq PcStates /\ "main" \in Threads
  BY DEF PcStates
<1>3. DataOK'
  BY <1>1 DEF DataOK, Interrupted, ReportDone, path, kernel
<1>4. CASE Interrupted
  <2>1. /\ pc' \in [Threads -> PcStates] /\ pc'["main"] = "in"
        /\ \A u \in Threads \ {"main"} : pc'[u] = pc[u]
    BY <1>2, <1>4, GotoTyped DEF Interrupted
  <2>2. PcOK'
    BY <1>1, <2>1 DEF PcOK
  <2>3. ControlOK'
    BY <1>1, <1>4, <2>1 DEF ControlOK, Interrupted, loop, reg
  <2> QED
    BY <1>3, <2>2, <2>3, TypedFromParts
<1>5. CASE ReportDone
  <2>1. ControlOK' /\ PcOK'
    BY <1>1, <1>2, <1>5, LeaveControl DEF ReportDone, ControlOK, loop
  <2> QED
    BY <1>3, <2>1, TypedFromParts
<1> QED
  BY <1>4, <1>5

\* Packets, answers and requests arriving keep the types.
LEMMA RequestsTyped ==
  ASSUME Typed, RecvPacket \/ DeliverAnswer \/ DestroyRequest \/ Report
  PROVE  Typed'
<1>1. pending \in Packets \cup {NoPacket}
  BY DEF Typed, TypeOK
<1>2. /\ \A op \in Ops, p \in Packets \cup {NoPacket} : Job(op, p) \in Jobs
      /\ NoJob \in Jobs
  BY DEF Jobs, Job, NoJob, Ops
<1>3. CASE RecvPacket
  <2>1. PICK p \in Packets : Request("recv", Job("packet", p), TRUE)
    BY <1>3 DEF RecvPacket
  <2>2. Job("packet", p) \in Jobs
    BY <1>2 DEF Ops
  <2> QED
    BY <1>1, <1>3, <2>1, <2>2, RequestTyped DEF RecvPacket
<1>4. CASE DeliverAnswer
  <2>1. PICK op \in {"ack", "nack"} : Request("list", Job(op, pending), TRUE)
    BY <1>4 DEF DeliverAnswer
  <2>2. Job(op, pending) \in Jobs
    BY <1>1, <1>2 DEF Ops
  <2> QED
    BY <1>4, <2>1, <2>2, RequestTyped DEF DeliverAnswer
<1>5. CASE DestroyRequest
  <2>1. Job("destroy", NoPacket) \in Jobs
    BY <1>2 DEF Ops
  <2> QED
    BY <1>1, <1>5, <2>1, RequestTyped DEF DestroyRequest
<1>6. CASE Report
  BY <1>1, <1>2, <1>6, RequestTyped DEF Report
<1> QED
  BY <1>3, <1>4, <1>5, <1>6

\* Every step of the system keeps the types and the places of the threads.
LEMMA NextTyped == Typed /\ [Next]_vars => Typed'
<1> SUFFICES ASSUME Typed, [Next]_vars PROVE Typed'
  OBVIOUS
<1>1. CASE RecvPacket \/ DeliverAnswer \/ DestroyRequest \/ Report
  BY <1>1, RequestsTyped
<1>2. CASE \E t \in {"recv", "list"} : Caller(t)
  BY <1>2, CallerTyped
<1>3. CASE CreatePathBegin \/ CreatePathEnd
  BY <1>3, CreateTyped
<1>4. CASE DestroyByFlags \/ DestroyLocallyBegin \/ DestroyLocallyEnd \/ DestroyFails
  BY <1>4, DestroyTyped
<1>5. CASE Interrupted \/ ReportDone
  BY <1>5, MainTyped
<1>6. CASE \E t \in Threads : Enter(t)
  BY <1>6, EnterTyped
<1>7. CASE RefreshThread \/ OtherScan \/ Delete
  BY <1>7, RefreshTyped
<1>8. CASE Gone \/ UNCHANGED vars
  <2>1. UNCHANGED vars
    BY <1>8 DEF Gone
  <2> QED
    BY <2>1 DEF Typed, TypeOK, PcOK, vars, path, kernel, sema, loop, reg
<1> QED
  BY <1>1, <1>2, <1>3, <1>4, <1>5, <1>6, <1>7, <1>8 DEF Next, Listener

\* The types, and the place of each thread, in every reachable state.
THEOREM TypedAlways == Spec => []Typed
<1>1. Init => Typed
  BY InitTyped
<1>2. Typed /\ [Next]_vars => Typed'
  BY NextTyped
<1> QED
  BY <1>1, <1>2, PTL DEF Spec

\* For every value of the constants, each variable keeps the type the code
\* declares or the range it can take: till_state_up_count never passes the
\* timeout by more than one, and label_id stays in its range.
THEOREM TypeCorrect == Spec => []TypeOK
<1>1. Typed => TypeOK
  BY DEF Typed
<1> QED
  BY <1>1, TypedAlways, PTL

-----------------------------------------------------------------------------
(***************************************************************************)
(* Exclusion.  Every unit of the semaphore is either free or held by the   *)
(* one thread that runs inside, and units only grow by the surplus.        *)
(***************************************************************************)
In(t) == IF pc[t] \in Inside THEN 1 ELSE 0

Units == access + In("recv") + In("list") + In("refr") + In("main") = 1 + surplus

\* A thread that enters, stays or leaves, and the units it takes or gives back.
LEMMA MoveKeepsUnits ==
  ASSUME Typed, Units, NEW t \in Threads, NEW place \in PcStates, Goto(t, place),
         access' \in Nat, surplus' \in Nat,
         access' + In(t)' + surplus = access + In(t) + surplus'
  PROVE  Units'
<1>1. /\ access \in Nat /\ surplus \in Nat
      /\ pc \in [Threads -> PcStates]
  BY DEF Typed, TypeOK
<1>2. \A u \in Threads \ {t} : In(u)' = In(u)
  BY GotoTyped DEF In
<1>3. \A u \in Threads : In(u) \in {0, 1} /\ In(u)' \in {0, 1}
  BY DEF In
<1>4. CASE t = "recv"
  BY <1>1, <1>2, <1>3, <1>4 DEF Units
<1>5. CASE t = "list"
  BY <1>1, <1>2, <1>3, <1>5 DEF Units
<1>6. CASE t = "refr"
  BY <1>1, <1>2, <1>3, <1>6 DEF Units
<1>7. CASE t = "main"
  BY <1>1, <1>2, <1>3, <1>7 DEF Units
<1> QED
  BY <1>4, <1>5, <1>6, <1>7

\* A thread that moves but stays inside, or outside, changes no unit.
LEMMA StayKeepsUnits ==
  ASSUME Typed, Units, NEW t \in Threads, NEW place \in PcStates, Goto(t, place),
         UNCHANGED sema, pc[t] \in Inside <=> place \in Inside
  PROVE  Units'
<1>1. In(t)' = In(t)
  BY GotoTyped DEF In
<1>2. UNCHANGED <<access, surplus>> /\ access \in Nat /\ surplus \in Nat
  BY DEF sema, Typed, TypeOK
<1>3. In(t) \in {0, 1}
  BY DEF In
<1>4. access' + In(t)' + surplus = access + In(t) + surplus'
  BY <1>1, <1>2, <1>3
<1> QED
  BY <1>2, <1>4, MoveKeepsUnits

\* A thread that leaves with one unit gives back the one it took.
LEMMA LeaveKeepsUnits ==
  ASSUME Typed, Units, NEW t \in Threads, NEW place \in PcStates \ Inside,
         pc[t] \in Inside, NEW n \in {1, 2}, LeaveAdding(t, place, n),
         surplus' = surplus + (n - 1)
  PROVE  Units'
<1>1. In(t) = 1 /\ In(t)' = 0
  BY LeaveTyped DEF In
<1>2. access' = access + n /\ access \in Nat /\ surplus \in Nat
  BY DEF LeaveAdding, Typed, TypeOK
<1>3. access' + In(t)' + surplus = access + In(t) + surplus'
  BY <1>1, <1>2
<1>4. access' \in Nat /\ surplus' \in Nat
  BY <1>2
<1>5. Goto(t, place)
  BY DEF LeaveAdding
<1> QED
  BY <1>3, <1>4, <1>5, MoveKeepsUnits

\* A thread that enters takes exactly one unit.
LEMMA EnterKeepsUnits ==
  ASSUME Typed, Units, NEW t \in Threads, Enter(t)
  PROVE  Units'
<1>1. PICK place \in {"in", "tin", "rin"} : Goto(t, place)
  BY DEF Enter
<1>2. place \in PcStates \cap Inside /\ pc[t] \notin Inside
  BY DEF PcStates, Inside, Enter
<1>3. In(t) = 0 /\ In(t)' = 1
  BY <1>1, <1>2, GotoTyped DEF In
<1>4. /\ access \in Nat /\ access > 0 /\ access' = access - 1
      /\ surplus \in Nat /\ surplus' = surplus
  BY DEF Enter, Typed, TypeOK
<1>5. access' + In(t)' + surplus = access + In(t) + surplus'
  BY <1>3, <1>4
<1> QED
  BY <1>1, <1>2, <1>4, <1>5, MoveKeepsUnits

\* The handlers of get_packet account for their units, the early returns and
\* the surplus unit of a deletion included.
LEMMA CallerKeepsUnits ==
  ASSUME Typed, Units, NEW t \in {"recv", "list"}, Caller(t)
  PROVE  Units'
<1>0. t \in Threads /\ "idle" \in PcStates \ Inside
      /\ {"in", "resvup", "dsleep"} \subseteq PcStates \cap Inside
  BY DEF PcStates, Inside
<1>a. ASSUME Leave(t, "idle"), surplus' = surplus, pc[t] \in Inside
      PROVE  Units'
  <2>1. LeaveAdding(t, "idle", 1) /\ surplus' = surplus + (1 - 1)
    BY <1>a DEF Leave, Typed, TypeOK
  <2> QED
    BY <1>0, <1>a, <2>1, LeaveKeepsUnits
<1>b. ASSUME NEW place \in {"resvup", "dsleep"}, Goto(t, place), UNCHANGED sema,
             pc[t] \in Inside
      PROVE  Units'
  BY <1>0, <1>b, StayKeepsUnits
<1>1. pc[t] \in Inside
  BY DEF Caller, Ignore, AskClient, ReadsAbsent, respond_path, PathErr_RD_flags_response,
         respond_path_nack, RespondResvBegin, RespondResvEnd, RespondResvAgain,
         PathTear_RD_flags_response, RespondResvDelete, RespondResvDeleted,
         RespondEnd, Serve, GetPacket, At, Inside
<1>2. CASE \/ Ignore(t) \/ AskClient(t) \/ respond_path(t)
           \/ PathErr_RD_flags_response(t) \/ respond_path_nack(t)
           \/ RespondResvEnd(t) \/ RespondResvAgain(t) \/ RespondEnd(t)
  BY <1>1, <1>2, <1>a
     DEF Ignore, AskClient, ReadsAbsent, respond_path, PathErr_RD_flags_response,
         respond_path_nack, RespondResvEnd, RespondResvAgain, RespondEnd
<1>3. CASE RespondResvBegin(t) \/ RespondResvDelete(t)
  BY <1>1, <1>3, <1>b DEF RespondResvBegin, RespondResvDelete
<1>4. CASE PathTear_RD_flags_response(t)
  <2>1. CASE ProtocolVers = "IETF_RSVP"
    BY <1>4, <2>1 DEF PathTear_RD_flags_response, Units, In
  <2>2. CASE ProtocolVers # "IETF_RSVP"
    BY <1>1, <1>4, <2>2, <1>a DEF PathTear_RD_flags_response
  <2> QED
    BY <2>1, <2>2
<1>5. CASE RespondResvDeleted(t)
  <2>1. LeaveAdding(t, "idle", 2) /\ surplus' = surplus + (2 - 1)
    BY <1>5 DEF RespondResvDeleted, Typed, TypeOK
  <2> QED
    BY <1>0, <1>1, <2>1, LeaveKeepsUnits
<1>6. CASE ReadsAbsent(t)
  BY <1>6 DEF ReadsAbsent, Units, In, sema
<1> QED
  BY <1>2, <1>3, <1>4, <1>5, <1>6 DEF Caller

\* Every step accounts for the units of access.
LEMMA UnitsKept == Typed /\ Units /\ [Next]_vars => Units'
<1> SUFFICES ASSUME Typed, Units, [Next]_vars PROVE Units'
  OBVIOUS
<1>0. surplus = surplus + (1 - 1) /\ access \in Nat /\ surplus \in Nat
  BY DEF Typed, TypeOK
<1>1. ASSUME NEW t \in {"recv", "list", "main"}, NEW j, NEW h, Request(t, j, h)
      PROVE  Units'
  <2>1. "wait" \in PcStates \ Inside /\ pc[t] \notin Inside /\ t \in Threads
    BY <1>1 DEF PcStates, Inside, Request, At
  <2> QED
    BY <1>1, <2>1, StayKeepsUnits DEF Request
<1>2. CASE RecvPacket \/ DeliverAnswer \/ DestroyRequest \/ Report
  BY <1>1, <1>2 DEF RecvPacket, DeliverAnswer, DestroyRequest, Report
<1>3. CASE \E t \in {"recv", "list"} : Caller(t)
  BY <1>3, CallerKeepsUnits
<1>4. CASE CreatePathBegin \/ DestroyLocallyBegin
  <2>1. {"csent", "tsleep", "in"} \subseteq PcStates \cap Inside
    BY DEF PcStates, Inside
  <2> QED
    BY <1>4, <2>1, StayKeepsUnits
       DEF CreatePathBegin, DestroyLocallyBegin, DestroyPath, At
<1>5. CASE CreatePathEnd \/ DestroyByFlags \/ DestroyLocallyEnd \/ DestroyFails
  <2>1. "idle" \in PcStates \ Inside /\ {"csent", "tsleep", "in"} \subseteq Inside
    BY DEF PcStates, Inside
  <2>2. pc["list"] \in Inside /\ Leave("list", "idle") /\ surplus' = surplus
    BY <1>5, <2>1 DEF CreatePathEnd, DestroyByFlags, DestroyLocallyEnd,
                      DestroyFails, DestroyPath, At
  <2> QED
    BY <1>0, <2>1, <2>2, LeaveKeepsUnits DEF Leave
<1>6. CASE \E t \in Threads : Enter(t)
  BY <1>6, EnterKeepsUnits
<1>7. CASE ReportDone
  <2>1. "idle" \in PcStates \ Inside /\ pc["main"] \in Inside
    BY <1>7 DEF PcStates, Inside, ReportDone, At
  <2> QED
    BY <1>0, <1>7, <2>1, LeaveKeepsUnits DEF Leave, ReportDone
<1>8. CASE Interrupted
  <2>1. "in" \in PcStates \cap Inside /\ pc["main"] \notin Inside
    BY <1>8 DEF PcStates, Inside, Interrupted, At
  <2>2. In("main") = 0 /\ In("main")' = 1
    BY <1>8, <2>1, GotoTyped DEF Interrupted, In
  <2>3. access' + In("main")' + surplus = access + In("main") + surplus'
    BY <1>0, <1>8, <2>2 DEF Interrupted
  <2> QED
    BY <1>0, <1>8, <2>1, <2>3, MoveKeepsUnits DEF Interrupted
<1>9. CASE SetupTimeout \/ RefreshSend \/ RefreshSkip
  <2>1. /\ {"done", "sleep"} \subseteq PcStates \ Inside
        /\ {"tin", "rsend", "rin"} \subseteq Inside
    BY DEF PcStates, Inside
  <2>2. PICK place \in {"done", "sleep"} : Leave("refr", place)
    BY <1>9 DEF SetupTimeout, RefreshSend, RefreshSkip
  <2>3. pc["refr"] \in Inside /\ surplus' = surplus
    BY <1>9, <2>1 DEF SetupTimeout, RefreshSend, RefreshSkip, At
  <2> QED
    BY <1>0, <2>1, <2>2, <2>3, LeaveKeepsUnits DEF Leave
<1>10. CASE RefreshBegin
  <2>1. {"rin", "rsend"} \subseteq PcStates \cap Inside
    BY DEF PcStates, Inside
  <2> QED
    BY <1>10, <2>1, StayKeepsUnits DEF RefreshBegin, At
<1>11. CASE RefreshTop \/ RefreshSleep \/ RefreshScan
  <2>1. {"top", "count", "scan", "sleep", "delete", "done"} \subseteq PcStates \ Inside
    BY DEF PcStates, Inside
  <2>2. PICK place \in {"scan", "count", "top", "delete", "done"} : Goto("refr", place)
    BY <1>11 DEF RefreshTop, RefreshSleep, RefreshScan
  <2>3. pc["refr"] \notin Inside /\ UNCHANGED sema
    BY <1>11, <2>1 DEF RefreshTop, RefreshSleep, RefreshScan, At
  <2> QED
    BY <2>1, <2>2, <2>3, StayKeepsUnits
<1>12. CASE RefreshCount
  <2>1. {"count", "twait", "rwait", "sleep"} \subseteq PcStates \ Inside
    BY DEF PcStates, Inside
  <2>2. \/ UNCHANGED pc
        \/ \E place \in {"twait", "rwait", "sleep"} : Goto("refr", place)
    BY <1>12 DEF RefreshCount
  <2>3. pc["refr"] \notin Inside /\ UNCHANGED sema
    BY <1>12, <2>1 DEF RefreshCount, At
  <2>4. CASE UNCHANGED pc
    BY <2>3, <2>4 DEF Units, In, sema
  <2> QED
    BY <2>1, <2>2, <2>3, <2>4, StayKeepsUnits
<1>13. CASE OtherScan \/ Delete \/ Gone \/ UNCHANGED vars
  <2>1. UNCHANGED <<pc, access, surplus>>
    BY <1>13 DEF OtherScan, Delete, Gone, vars, sema
  <2> QED
    BY <2>1 DEF Units, In
<1> QED
  BY <1>2, <1>3, <1>4, <1>5, <1>6, <1>7, <1>8, <1>9, <1>10, <1>11, <1>12, <1>13
     DEF Next, Listener, RefreshThread

\* access plus the threads inside is one more than the surplus, always: no
\* handler loses a unit and only the counted ones add any.
THEOREM UnitsAlways == Spec => [](Typed /\ Units)
<1>1. Init => Units
  <2> SUFFICES ASSUME Init PROVE Units
    OBVIOUS
  <2>1. access = 1 /\ surplus = 0
    BY DEF Init
  <2>2. \A t \in Threads : pc[t] \notin Inside
    BY DEF Init, Inside
  <2> QED
    BY <2>1, <2>2 DEF Units, In
<1>2. Typed /\ Units /\ [Next]_vars => Units'
  BY UnitsKept
<1>3. Spec => []Typed
  BY TypedAlways
<1> QED
  BY <1>1, <1>2, <1>3, PTL DEF Spec

\* A set of threads without two different members has at most one.
LEMMA AtMostOne ==
  ASSUME NEW S, \A x, y \in S : x = y
  PROVE  Cardinality(S) <= 1
<1>1. CASE S = {}
  BY <1>1, FS_EmptySet
<1>2. CASE S # {}
  <2>1. PICK x \in S : S = {x}
    BY <1>2
  <2> QED
    BY <2>1, FS_Singleton
<1> QED
  BY <1>1, <1>2

\* Until respond_resv adds a unit (or a signal interrupts the main thread) the
\* semaphore excludes, for any setting of the agent and any router.
THEOREM Exclusion == Spec => []MutualExclusion
<1>1. Typed /\ Units => MutualExclusion
  <2> SUFFICES ASSUME Typed, Units, surplus = 0
               PROVE  Cardinality(InsideThreads) <= 1
    BY DEF MutualExclusion
  <2>1. access \in Nat
    BY DEF Typed, TypeOK
  <2>2. \A t \in Threads : In(t) \in {0, 1} /\ (In(t) = 1 <=> t \in InsideThreads)
    BY DEF In, InsideThreads
  <2>3. In("recv") + In("list") + In("refr") + In("main") <= 1
    BY <2>1, <2>2 DEF Units
  <2>4. \A t, u \in InsideThreads : t = u
    BY <2>2, <2>3 DEF InsideThreads
  <2> QED
    BY <2>4, AtMostOne
<1> QED
  BY <1>1, UnitsAlways, PTL

\* No handler returns without signal_plus, whatever the constants.
THEOREM NeverLost == Spec => []AccessNeverLost
<1>1. Typed /\ Units => AccessNeverLost
  <2> SUFFICES ASSUME Typed, Units, InsideThreads = {}
               PROVE  access > 0
    BY DEF AccessNeverLost
  <2>1. access \in Nat /\ surplus \in Nat
    BY DEF Typed, TypeOK
  <2>2. \A t \in Threads : In(t) = 0
    BY DEF In, InsideThreads
  <2> QED
    BY <2>1, <2>2 DEF Units
<1> QED
  BY <1>1, UnitsAlways, PTL

-----------------------------------------------------------------------------
(***************************************************************************)
(* Where a path can be.  Directed holds whatever the semaphore does: an    *)
(* outgoing path never turns back, and only a path with a direction has    *)
(* left PATH_STATE_NULL.  Protected is what the semaphore adds.            *)
(***************************************************************************)
Visited == {"NULL", "INITIATED", "PATH_SENT", "PATH_RECV", "RESV_RECV", "UP",
            "PATHTEAR_SENT", "DOWN"}

Outgoing == path_direction = "OUTGOING"

Directed ==
  /\ path_state \in Visited
  /\ path_direction = "UNDEFINED" <=> path_state = "NULL"
  /\ \A t \in {"recv", "list"} : pc[t] \in {"resvup", "dsleep"} => Outgoing
  /\ pc["list"] = "csent" => Outgoing
  /\ pc["list"] = "tsleep" => path_direction # "UNDEFINED"
  /\ pc["refr"] \in {"twait", "tin"} => Outgoing
  /\ pc["refr"] = "delete" \/ other = "delete" => path_state # "NULL"
  /\ pc["list"] \in {"wait", "in"} /\ job["list"].op = "create" => ~Outgoing

Protected ==
  surplus = 0 =>
    /\ \A t \in {"recv", "list"} : pc[t] = "resvup" => path_state = "RESV_RECV"
    /\ path_state = "PATHTEAR_SENT" <=> pc["list"] = "tsleep"
    /\ pc["list"] = "csent" => path_state = "INITIATED"
    /\ pc["refr"] = "rsend" => path_state = "UP" /\ Outgoing

\* What a handler of get_packet may do to the direction and the state: leave
\* them, or give the path a state other than NULL without turning it around.
LEMMA CallerEffect ==
  ASSUME Typed, Directed, NEW t \in {"recv", "list"}, Caller(t)
  PROVE  /\ \/ UNCHANGED <<path_state, path_direction>>
            \/ /\ path_state' \in Visited \ {"NULL", "PATHTEAR_SENT", "INITIATED"}
               /\ path_direction' # "UNDEFINED"
               /\ Outgoing' <=> Outgoing
         /\ \/ Leave(t, "idle") \/ LeaveAdding(t, "idle", 2)
            \/ /\ Goto(t, "resvup") /\ Outgoing /\ job' = job
               /\ path_state' = "RESV_RECV"
            \/ Goto(t, "dsleep") /\ Outgoing /\ job' = job
            \/ UNCHANGED <<pc, job>> /\ pc[t] = "in"
         /\ UNCHANGED other
<1> USE DEF Outgoing, Visited
<1>1. path_direction \in {"UNDEFINED", "INCOMING", "OUTGOING"}
  BY DEF Typed, TypeOK
<1>2. ASSUME Serve(t, "PATH") PROVE ~Outgoing
  BY <1>2 DEF Serve, check_if_packet_valid
<1>3. ASSUME Serve(t, "RESV") PROVE Outgoing
  BY <1>1, <1>3 DEF Serve, check_if_packet_valid
<1>4. CASE Ignore(t) \/ RespondResvAgain(t)
  BY <1>4 DEF Ignore, RespondResvAgain, path
<1>5. CASE AskClient(t)
  BY <1>2, <1>5 DEF AskClient
<1>6. CASE respond_path(t)
  BY <1>2, <1>6 DEF respond_path
<1>7. CASE PathErr_RD_flags_response(t)
  <2>1. /\ path_state' \in {"PATH_RECV", "DOWN"}
        /\ path_direction' = "INCOMING" /\ Leave(t, "idle") /\ UNCHANGED other
    BY <1>7 DEF PathErr_RD_flags_response
  <2> QED
    BY <1>2, <1>7, <2>1 DEF PathErr_RD_flags_response
<1>8. CASE respond_path_nack(t)
  BY <1>2, <1>8 DEF respond_path_nack
<1>9. CASE RespondResvBegin(t) \/ RespondResvDelete(t)
  BY <1>3, <1>9 DEF RespondResvBegin, RespondResvDelete, reg, path
<1>10. CASE RespondResvEnd(t)
  <2>1. Outgoing
    BY <1>10 DEF RespondResvEnd, At, Directed
  <2> QED
    BY <1>10, <2>1 DEF RespondResvEnd
<1>11. CASE RespondResvDeleted(t)
  <2>1. Outgoing
    BY <1>11 DEF RespondResvDeleted, At, Directed
  <2> QED
    BY <1>11, <2>1 DEF RespondResvDeleted
<1>12. CASE PathTear_RD_flags_response(t)
  <2>1. CASE ProtocolVers = "IETF_RSVP"
    BY <1>12, <2>1 DEF PathTear_RD_flags_response, Serve, GetPacket, At
  <2>2. CASE ProtocolVers # "IETF_RSVP"
    BY <1>3, <1>12, <2>2 DEF PathTear_RD_flags_response
  <2> QED
    BY <2>1, <2>2
<1>13. CASE RespondEnd(t)
  <2>1. path_direction # "UNDEFINED"
    BY <1>13 DEF RespondEnd, Serve, check_if_packet_valid
  <2>2. path_state' = "DOWN" /\ UNCHANGED <<path_direction, other>> /\ Leave(t, "idle")
    BY <1>13 DEF RespondEnd
  <2> QED
    BY <2>1, <2>2
<1>14. CASE ReadsAbsent(t)
  <2>1. UNCHANGED <<pc, job, other>> /\ GetPacket(t) /\ ~Complete(t)
    BY <1>14 DEF ReadsAbsent, reg
  <2>2. CASE job[t].pkt.type = "PATH"
    <3>1. Serve(t, "PATH")
      BY <2>1, <2>2 DEF Complete, Reads, Serve
    <3>2. path_direction' = "INCOMING" /\ path_state' = "PATH_RECV"
      BY <1>14, <2>2 DEF ReadsAbsent
    <3> QED
      BY <1>2, <2>1, <3>1, <3>2 DEF GetPacket, At
  <2>3. CASE job[t].pkt.type # "PATH"
    BY <1>14, <2>1, <2>3 DEF ReadsAbsent, GetPacket, At
  <2> QED
    BY <2>2, <2>3
<1> QED
  BY <1>4, <1>5, <1>6, <1>7, <1>8, <1>9, <1>10, <1>11, <1>12, <1>13, <1>14
     DEF Caller

\* A thread moves; the path keeps its direction once it has one.
LEMMA MoveKeepsDirected ==
  ASSUME Typed, Directed, NEW t \in Threads, NEW place \in PcStates,
         Goto(t, place), UNCHANGED other,
         \/ UNCHANGED <<path_state, path_direction>>
         \/ /\ path_state' \in Visited \ {"NULL"}
            /\ path_direction' # "UNDEFINED"
            /\ Outgoing => Outgoing',
         place \in {"resvup", "dsleep", "csent", "twait", "tin"} => Outgoing',
         place = "tsleep" => path_direction' # "UNDEFINED",
         place = "delete" => path_state' # "NULL",
         pc'["list"] \in {"wait", "in"} /\ job'["list"].op = "create" => ~Outgoing'
  PROVE  Directed'
<1>1. pc'[t] = place /\ \A u \in Threads \ {t} : pc'[u] = pc[u]
  BY GotoTyped
<1>2. path_state' \in Visited /\ (path_direction' = "UNDEFINED" <=> path_state' = "NULL")
  BY DEF Directed
<1>3. Outgoing => Outgoing'
  BY DEF Outgoing
<1>4. path_state # "NULL" => path_state' # "NULL"
  OBVIOUS
<1>5. path_direction # "UNDEFINED" => path_direction' # "UNDEFINED"
  OBVIOUS
<1>6. \A u \in {"recv", "list"} : pc'[u] \in {"resvup", "dsleep"} => Outgoing'
  BY <1>1, <1>3 DEF Directed
<1>7. /\ pc'["list"] = "csent" => Outgoing'
      /\ pc'["refr"] \in {"twait", "tin"} => Outgoing'
  BY <1>1, <1>3 DEF Directed
<1>8. pc'["list"] = "tsleep" => path_direction' # "UNDEFINED"
  BY <1>1, <1>5 DEF Directed
<1>9. pc'["refr"] = "delete" \/ other' = "delete" => path_state' # "NULL"
  BY <1>1, <1>4 DEF Directed
<1> QED
  BY <1>2, <1>6, <1>7, <1>8, <1>9 DEF Directed

\* The listener keeps the request it came with, and drops it when it leaves.
LEMMA CreateNotOutgoing ==
  ASSUME Typed, Directed, NEW t \in Threads, NEW place \in PcStates,
         Goto(t, place), Outgoing' => Outgoing,
         job' = job \/ job' = [job EXCEPT ![t] = NoJob],
         place \in {"wait", "in"} => pc[t] \in {"wait", "in"}
  PROVE  pc'["list"] \in {"wait", "in"} /\ job'["list"].op = "create" => ~Outgoing'
<1>1. pc'[t] = place /\ \A u \in Threads \ {t} : pc'[u] = pc[u]
  BY GotoTyped
<1>2. SUFFICES ASSUME pc'["list"] \in {"wait", "in"}, job'["list"].op = "create"
               PROVE  pc["list"] \in {"wait", "in"} /\ job["list"].op = "create"
  BY DEF Directed
<1>3. pc["list"] \in {"wait", "in"}
  BY <1>1, <1>2
<1>4. NoJob.op = "none" /\ job \in [Threads -> Jobs]
  BY DEF NoJob, Job, Typed, TypeOK
<1>5. job["list"].op = "create"
  BY <1>2, <1>4
<1> QED
  BY <1>3, <1>5

\* A step that leaves path_state, path_direction and other alone.
LEMMA QuietMove ==
  ASSUME Typed, Directed, NEW t \in Threads, NEW place \in PcStates,
         Goto(t, place), UNCHANGED <<path_state, path_direction, other>>,
         job' = job \/ job' = [job EXCEPT ![t] = NoJob],
         place \in {"wait", "in"} => pc[t] \in {"wait", "in"},
         place \in {"resvup", "dsleep", "csent", "twait", "tin"} => Outgoing,
         place # "tsleep",
         place = "delete" => path_state # "NULL"
  PROVE  Directed'
<1>1. Outgoing' <=> Outgoing
  BY DEF Outgoing
<1>2. pc'["list"] \in {"wait", "in"} /\ job'["list"].op = "create" => ~Outgoing'
  BY <1>1, CreateNotOutgoing
<1> QED
  BY <1>1, <1>2, MoveKeepsDirected

\* The handlers of get_packet keep a directed path directed.
LEMMA CallerKeepsDirected ==
  ASSUME Typed, Directed, NEW t \in {"recv", "list"}, Caller(t)
  PROVE  Directed'
<1>0. {"idle", "resvup", "dsleep"} \subseteq PcStates /\ t \in Threads
  BY DEF PcStates
<1>1. /\ \/ UNCHANGED <<path_state, path_direction>>
         \/ /\ path_state' \in Visited \ {"NULL"}
            /\ path_direction' # "UNDEFINED"
            /\ Outgoing' <=> Outgoing
      /\ UNCHANGED other
  BY CallerEffect
<1>2. Outgoing' <=> Outgoing
  BY <1>1 DEF Outgoing
<1>a. ASSUME NEW place \in {"idle", "resvup", "dsleep"}, Goto(t, place),
             job' = job \/ job' = [job EXCEPT ![t] = NoJob],
             place # "idle" => Outgoing
      PROVE  Directed'
  <2>1. pc'["list"] \in {"wait", "in"} /\ job'["list"].op = "create" => ~Outgoing'
    BY <1>0, <1>2, <1>a, CreateNotOutgoing
  <2> QED
    BY <1>0, <1>1, <1>2, <1>a, <2>1, MoveKeepsDirected
<1>3. CASE Leave(t, "idle") \/ LeaveAdding(t, "idle", 2)
  BY <1>3, <1>a DEF Leave, LeaveAdding
<1>4. CASE /\ Outgoing /\ job' = job
           /\ Goto(t, "resvup") \/ Goto(t, "dsleep")
  BY <1>4, <1>a
<1>5. CASE UNCHANGED <<pc, job>>
  BY <1>1, <1>2, <1>5 DEF Directed, Outgoing
<1> QED
  BY <1>3, <1>4, <1>5, CallerEffect

\* Every step keeps Directed.
LEMMA DirectedKept == Typed /\ Directed /\ [Next]_vars => Directed'
<1> SUFFICES ASSUME Typed, Directed, [Next]_vars PROVE Directed'
  OBVIOUS
<1>0. /\ {"idle", "wait", "in", "csent", "tsleep", "top", "count", "sleep", "twait",
          "rwait", "tin", "rin", "rsend", "scan", "delete", "done"} \subseteq PcStates
      /\ {"list", "main", "refr"} \subseteq Threads
  BY DEF PcStates
<1>1. ASSUME NEW t \in {"recv", "list", "main"}, NEW j, NEW h, Request(t, j, h),
             j.op # "create"
      PROVE  Directed'
  <2>1. Goto(t, "wait") /\ UNCHANGED <<path_state, path_direction, other>>
        /\ job' = [job EXCEPT ![t] = j] /\ t \in Threads
    BY <1>1 DEF Request, path
  <2>2. /\ \A u \in Threads \ {t} : pc'[u] = pc[u] /\ job'[u] = job[u]
        /\ job'[t].op # "create"
    BY <1>0, <1>1, <2>1, GotoTyped DEF Typed, TypeOK
  <2>3. pc'["list"] \in {"wait", "in"} /\ job'["list"].op = "create" => ~Outgoing'
    BY <2>1, <2>2 DEF Directed, Outgoing
  <2> QED
    BY <1>0, <2>1, <2>3, MoveKeepsDirected
<1>2. CASE RecvPacket \/ DeliverAnswer \/ DestroyRequest \/ Report
  BY <1>1, <1>2 DEF RecvPacket, DeliverAnswer, DestroyRequest, Report, Job, NoJob
<1>3. CASE \E t \in {"recv", "list"} : Caller(t)
  BY <1>3, CallerKeepsDirected
<1>4. CASE CreatePathBegin
  <2>1. /\ path_state' = "INITIATED" /\ path_direction' = "OUTGOING"
        /\ Goto("list", "csent") /\ UNCHANGED other
    BY <1>4 DEF CreatePathBegin, reg
  <2>2. pc'["list"] = "csent"
    BY <1>0, <2>1, GotoTyped
  <2> QED
    BY <1>0, <2>1, <2>2, MoveKeepsDirected DEF Outgoing, Visited
<1>5. CASE CreatePathEnd
  <2>1. path_state' = "PATH_SENT" /\ UNCHANGED <<path_direction, other>> /\ Outgoing
    BY <1>5 DEF CreatePathEnd, Directed, At
  <2>2. Goto("list", "idle") /\ pc'["list"] = "idle"
    BY <1>0, <1>5, GotoTyped DEF CreatePathEnd, Leave, LeaveAdding
  <2> QED
    BY <1>0, <2>1, <2>2, MoveKeepsDirected DEF Outgoing, Visited
<1>6. CASE DestroyLocallyBegin
  <2>1. /\ path_state' = "PATHTEAR_SENT" /\ path_direction # "UNDEFINED"
        /\ UNCHANGED <<path_direction, other>>
    BY <1>6 DEF DestroyLocallyBegin, reg
  <2>2. Goto("list", "tsleep") /\ pc'["list"] = "tsleep"
    BY <1>0, <1>6, GotoTyped DEF DestroyLocallyBegin
  <2> QED
    BY <1>0, <2>1, <2>2, MoveKeepsDirected DEF Outgoing, Visited
<1>7. CASE DestroyLocallyEnd
  <2>1. /\ path_state' = "DOWN" /\ path_direction # "UNDEFINED"
        /\ UNCHANGED <<path_direction, other>>
    BY <1>7 DEF DestroyLocallyEnd, Directed, At
  <2>2. Goto("list", "idle") /\ pc'["list"] = "idle"
    BY <1>0, <1>7, GotoTyped DEF DestroyLocallyEnd, Leave, LeaveAdding
  <2> QED
    BY <1>0, <2>1, <2>2, MoveKeepsDirected DEF Outgoing, Visited
<1>8. CASE DestroyByFlags \/ DestroyFails
  <2>1. /\ UNCHANGED <<path_state, path_direction, other>>
        /\ Goto("list", "idle") /\ job' = [job EXCEPT !["list"] = NoJob]
    BY <1>8 DEF DestroyByFlags, DestroyFails, path, Leave, LeaveAdding
  <2> QED
    BY <1>0, <2>1, QuietMove
<1>9. CASE ReportDone \/ Interrupted
  <2>1. /\ UNCHANGED <<path_state, path_direction, other>>
        /\ \/ Goto("main", "idle")
           \/ Goto("main", "in") /\ pc["main"] = "wait"
        /\ job' = job \/ job' = [job EXCEPT !["main"] = NoJob]
    BY <1>9 DEF ReportDone, Interrupted, path, reg, At, Leave, LeaveAdding
  <2> QED
    BY <1>0, <2>1, QuietMove
<1>10. CASE \E t \in Threads : Enter(t)
  <2>1. PICK t \in Threads : Enter(t)
    BY <1>10
  <2>2. PICK place \in {"in", "tin", "rin"} :
          /\ Goto(t, place)
          /\ place = "in" => pc[t] = "wait"
          /\ place = "tin" => pc[t] = "twait"
    BY <2>1 DEF Enter
  <2>3. UNCHANGED <<path_state, path_direction, other, job>>
    BY <2>1 DEF Enter, path, reg
  <2>4. place = "tin" => Outgoing
    BY <2>2 DEF Directed, Typed, PcOK
  <2> QED
    BY <1>0, <2>2, <2>3, <2>4, QuietMove
<1>11. CASE RefreshTop \/ RefreshBegin \/ RefreshSend \/ RefreshSkip \/ RefreshSleep
  <2>1. PICK place \in {"scan", "count", "rsend", "sleep", "top"} : Goto("refr", place)
    BY <1>11 DEF RefreshTop, RefreshBegin, RefreshSend, RefreshSkip, RefreshSleep,
                 Leave, LeaveAdding
  <2>2. /\ UNCHANGED <<path_state, path_direction, other>>
        /\ job' = job \/ job' = [job EXCEPT !["refr"] = NoJob]
    BY <1>11 DEF RefreshTop, RefreshBegin, RefreshSend, RefreshSkip, RefreshSleep,
                 Leave, LeaveAdding, path, reg
  <2> QED
    BY <1>0, <2>1, <2>2, QuietMove
<1>12. CASE RefreshCount
  <2>1. UNCHANGED <<path_state, path_direction, other, job>>
    BY <1>12 DEF RefreshCount, path, reg
  <2>2. \/ UNCHANGED pc
        \/ Goto("refr", "twait") /\ Outgoing
        \/ Goto("refr", "rwait") \/ Goto("refr", "sleep")
    BY <1>12 DEF RefreshCount, Outgoing
  <2>3. CASE UNCHANGED pc
    BY <2>1, <2>3 DEF Directed, Outgoing
  <2> QED
    BY <1>0, <2>1, <2>2, <2>3, QuietMove
<1>13. CASE SetupTimeout
  <2>1. path_state' = "DOWN" /\ UNCHANGED <<path_direction, other>> /\ Outgoing
    BY <1>13 DEF SetupTimeout, Directed, At
  <2>2. Goto("refr", "done") /\ job' = [job EXCEPT !["refr"] = NoJob]
    BY <1>13 DEF SetupTimeout, Leave, LeaveAdding
  <2>3. pc'["list"] \in {"wait", "in"} /\ job'["list"].op = "create" => ~Outgoing'
    BY <1>0, <2>1, <2>2, CreateNotOutgoing
  <2> QED
    BY <1>0, <2>1, <2>2, <2>3, MoveKeepsDirected DEF Outgoing, Visited
<1>14. CASE RefreshScan
  <2>1. /\ UNCHANGED <<path_state, path_direction, other, job>>
        /\ \/ Goto("refr", "delete") /\ Torn
           \/ Goto("refr", "done")
    BY <1>14 DEF RefreshScan, Reapable, path, reg
  <2> QED
    BY <1>0, <2>1, QuietMove DEF Torn
<1>15. CASE OtherScan \/ Delete \/ Gone \/ UNCHANGED vars
  <2>1. UNCHANGED <<path_state, path_direction, pc, job>>
    BY <1>15 DEF OtherScan, Delete, Gone, vars, path
  <2>2. other' = other \/ path_state # "NULL"
    BY <1>15 DEF OtherScan, Delete, Gone, vars, reg, Reapable, Torn
  <2> QED
    BY <2>1, <2>2 DEF Directed, Outgoing
<1> QED
  BY <1>2, <1>3, <1>4, <1>5, <1>6, <1>7, <1>8, <1>9, <1>10, <1>11, <1>12, <1>13,
     <1>14, <1>15
     DEF Next, Listener, RefreshThread

\* Exclusion in the form the proofs use: who is inside is alone.
LEMMA Alone ==
  ASSUME Typed, Units, surplus = 0, NEW t \in Threads, pc[t] \in Inside
  PROVE  \A u \in Threads \ {t} : pc[u] \notin Inside
<1>1. access \in Nat /\ access + In("recv") + In("list") + In("refr") + In("main") = 1
  BY DEF Typed, TypeOK, Units
<1>2. \A u \in Threads : In(u) \in {0, 1} /\ (In(u) = 1 <=> pc[u] \in Inside)
  BY DEF In
<1> QED
  BY <1>1, <1>2

\* The surplus of units never shrinks.
LEMMA SurplusGrows ==
  ASSUME Typed, [Next]_vars, surplus' = 0
  PROVE  surplus = 0
<1>1. surplus \in Nat
  BY DEF Typed, TypeOK
<1>2. surplus' = surplus \/ surplus' = surplus + 1
  BY DEF Next, Caller, Listener, RefreshThread, RecvPacket, DeliverAnswer,
         DestroyRequest, Report, Request, Interrupted, ReportDone, Enter,
         Ignore, AskClient, ReadsAbsent, respond_path, PathErr_RD_flags_response,
         respond_path_nack, RespondResvBegin, RespondResvEnd, RespondResvAgain,
         PathTear_RD_flags_response, RespondResvDelete, RespondResvDeleted,
         RespondEnd, CreatePathBegin, CreatePathEnd, DestroyByFlags,
         DestroyLocallyBegin, DestroyLocallyEnd, DestroyFails, RefreshTop,
         RefreshCount, SetupTimeout, RefreshBegin, RefreshSend, RefreshSkip,
         RefreshSleep, RefreshScan, OtherScan, Delete, Gone, vars, sema
<1> QED
  BY <1>1, <1>2

\* A thread that moves while it is inside: only its own new place matters.
LEMMA InsideMoveKeepsProtected ==
  ASSUME Typed, Units, surplus = 0, NEW t \in Threads, NEW place \in PcStates,
         Goto(t, place), pc[t] \in Inside,
         place = "resvup" => path_state' = "RESV_RECV",
         path_state' = "PATHTEAR_SENT" <=> t = "list" /\ place = "tsleep",
         place = "csent" => path_state' = "INITIATED",
         place = "rsend" => path_state' = "UP" /\ Outgoing'
  PROVE  Protected'
<1>1. pc'[t] = place /\ \A u \in Threads \ {t} : pc'[u] = pc[u]
  BY GotoTyped
<1>2. \A u \in Threads \ {t} : pc'[u] \notin {"resvup", "tsleep", "csent", "rsend"}
  BY <1>1, Alone DEF Inside
<1> QED
  BY <1>1, <1>2 DEF Protected

\* A thread that moves to a place where it can do nothing yet.
LEMMA QuietMoveKeepsProtected ==
  ASSUME Typed, Protected, NEW t \in Threads, NEW place \in PcStates,
         Goto(t, place), UNCHANGED <<path_state, path_direction, surplus>>,
         place \notin {"resvup", "tsleep", "csent", "rsend"}, pc[t] # "tsleep"
  PROVE  Protected'
<1>1. pc'[t] = place /\ \A u \in Threads \ {t} : pc'[u] = pc[u]
  BY GotoTyped
<1> QED
  BY <1>1 DEF Protected, Outgoing

\* The handlers of get_packet do not disturb what a thread inside relies on.
LEMMA CallerKeepsProtected ==
  ASSUME Typed, Units, Directed, Protected, surplus = 0,
         NEW t \in {"recv", "list"}, Caller(t)
  PROVE  Protected'
<1>0. {"idle", "resvup", "dsleep"} \subseteq PcStates /\ t \in Threads
  BY DEF PcStates
<1>1. pc[t] \in {"in", "resvup", "dsleep"}
  BY DEF Caller, Ignore, AskClient, ReadsAbsent, respond_path, PathErr_RD_flags_response,
         respond_path_nack, RespondResvBegin, RespondResvEnd, RespondResvAgain,
         PathTear_RD_flags_response, RespondResvDelete, RespondResvDeleted,
         RespondEnd, Serve, GetPacket, At
<1>2. pc["list"] # "tsleep"
  BY <1>0, <1>1, Alone DEF Inside
<1>3. path_state' # "PATHTEAR_SENT"
  BY <1>2, CallerEffect DEF Protected
<1>4. ASSUME NEW place \in {"idle", "dsleep"}, Goto(t, place)
      PROVE  Protected'
  BY <1>0, <1>1, <1>3, <1>4, InsideMoveKeepsProtected DEF Inside
<1>5. CASE Leave(t, "idle") \/ LeaveAdding(t, "idle", 2) \/ Goto(t, "dsleep")
  BY <1>4, <1>5 DEF Leave, LeaveAdding
<1>6. CASE Goto(t, "resvup") /\ path_state' = "RESV_RECV"
  BY <1>0, <1>1, <1>6, InsideMoveKeepsProtected DEF Inside
<1>7. CASE UNCHANGED <<pc, job>> /\ pc[t] = "in"
  <2>1. \A u \in Threads : pc'[u] \notin {"resvup", "tsleep", "csent", "rsend"}
    BY <1>0, <1>1, <1>7, Alone DEF Inside
  <2> QED
    BY <1>3, <2>1 DEF Protected
<1> QED
  BY <1>5, <1>6, <1>7, CallerEffect

\* Every step keeps Protected as long as there is no surplus unit.
LEMMA ProtectedKept ==
  Typed /\ Units /\ Directed /\ Protected /\ [Next]_vars => Protected'
<1> SUFFICES ASSUME Typed, Units, Directed, Protected, [Next]_vars, surplus' = 0
             PROVE  Protected'
  BY DEF Protected
<1>s. surplus = 0
  BY SurplusGrows
<1>0. /\ {"idle", "wait", "in", "csent", "tsleep", "top", "count", "sleep", "twait",
          "rwait", "tin", "rin", "rsend", "scan", "delete", "done"} \subseteq PcStates
      /\ {"recv", "list", "main", "refr"} \subseteq Threads
  BY DEF PcStates
<1>2. CASE RecvPacket \/ DeliverAnswer \/ DestroyRequest \/ Report
  <2>1. PICK t \in {"recv", "list", "main"} : \E j, h : Request(t, j, h)
    BY <1>2 DEF RecvPacket, DeliverAnswer, DestroyRequest, Report
  <2>2. /\ Goto(t, "wait") /\ pc[t] = "idle"
        /\ UNCHANGED <<path_state, path_direction, surplus>>
    BY <2>1 DEF Request, At, path, sema
  <2> QED
    BY <1>0, <2>2, QuietMoveKeepsProtected
<1>3. CASE \E t \in {"recv", "list"} : Caller(t)
  BY <1>s, <1>3, CallerKeepsProtected
<1>4. CASE CreatePathBegin
  <2>1. Goto("list", "csent") /\ pc["list"] = "in" /\ path_state' = "INITIATED"
    BY <1>4 DEF CreatePathBegin, At
  <2> QED
    BY <1>0, <1>s, <2>1, InsideMoveKeepsProtected DEF Inside
<1>5. CASE CreatePathEnd \/ DestroyLocallyEnd
  <2>1. /\ Goto("list", "idle") /\ pc["list"] \in {"csent", "tsleep"}
        /\ path_state' \in {"PATH_SENT", "DOWN"}
    BY <1>5 DEF CreatePathEnd, DestroyLocallyEnd, At, Leave, LeaveAdding
  <2> QED
    BY <1>0, <1>s, <2>1, InsideMoveKeepsProtected DEF Inside
<1>6. CASE DestroyLocallyBegin
  <2>1. Goto("list", "tsleep") /\ pc["list"] = "in" /\ path_state' = "PATHTEAR_SENT"
    BY <1>6 DEF DestroyLocallyBegin, DestroyPath, At
  <2> QED
    BY <1>0, <1>s, <2>1, InsideMoveKeepsProtected DEF Inside
<1>7. CASE DestroyByFlags \/ DestroyFails
  <2>1. /\ Goto("list", "idle") /\ pc["list"] = "in"
        /\ UNCHANGED <<path_state, path_direction, surplus>>
    BY <1>7 DEF DestroyByFlags, DestroyFails, DestroyPath, At, Leave, LeaveAdding, path
  <2> QED
    BY <1>0, <2>1, QuietMoveKeepsProtected
<1>8. CASE ReportDone \/ Interrupted
  <2>1. PICK place \in {"idle", "in"} : Goto("main", place)
    BY <1>8 DEF ReportDone, Interrupted, Leave, LeaveAdding
  <2>2. UNCHANGED <<path_state, path_direction>> /\ pc["main"] \in {"in", "wait"}
    BY <1>8 DEF ReportDone, Interrupted, At, path
  <2> QED
    BY <1>0, <1>s, <2>1, <2>2, QuietMoveKeepsProtected
<1>9. CASE \E t \in Threads : Enter(t)
  <2>1. PICK t \in Threads, place \in {"in", "tin", "rin"} :
          /\ Goto(t, place) /\ pc[t] \in {"wait", "twait", "rwait"}
          /\ UNCHANGED <<path_state, path_direction, surplus>>
    BY <1>9 DEF Enter, path
  <2> QED
    BY <1>0, <2>1, QuietMoveKeepsProtected
<1>10. CASE RefreshTop \/ RefreshSend \/ RefreshSkip \/ RefreshSleep \/ RefreshScan
  <2>1. PICK place \in {"scan", "count", "sleep", "top", "delete", "done"} :
          Goto("refr", place)
    BY <1>10 DEF RefreshTop, RefreshSend, RefreshSkip, RefreshSleep, RefreshScan,
                 Leave, LeaveAdding
  <2>2. /\ UNCHANGED <<path_state, path_direction, surplus>>
        /\ pc["refr"] # "tsleep"
    BY <1>10 DEF RefreshTop, RefreshSend, RefreshSkip, RefreshSleep, RefreshScan,
                 At, path, sema
  <2> QED
    BY <1>0, <2>1, <2>2, QuietMoveKeepsProtected
<1>11. CASE RefreshCount
  <2>1. /\ UNCHANGED <<path_state, path_direction, surplus>> /\ pc["refr"] = "count"
        /\ \/ UNCHANGED pc
           \/ \E place \in {"twait", "rwait", "sleep"} : Goto("refr", place)
    BY <1>11 DEF RefreshCount, At, path, sema
  <2>2. CASE UNCHANGED pc
    BY <2>1, <2>2 DEF Protected, Outgoing
  <2> QED
    BY <1>0, <2>1, <2>2, QuietMoveKeepsProtected
<1>12. CASE RefreshBegin
  <2>1. /\ Goto("refr", "rsend") /\ pc["refr"] = "rin"
        /\ path_state' = "UP" /\ Outgoing'
    BY <1>12 DEF RefreshBegin, At, path, Outgoing
  <2> QED
    BY <1>0, <1>s, <2>1, InsideMoveKeepsProtected DEF Inside
<1>13. CASE SetupTimeout
  <2>1. Goto("refr", "done") /\ pc["refr"] = "tin" /\ path_state' = "DOWN"
    BY <1>13 DEF SetupTimeout, At, Leave, LeaveAdding
  <2> QED
    BY <1>0, <1>s, <2>1, InsideMoveKeepsProtected DEF Inside
<1>14. CASE OtherScan \/ Delete \/ Gone \/ UNCHANGED vars
  <2>1. UNCHANGED <<path_state, path_direction, pc, surplus>>
    BY <1>14 DEF OtherScan, Delete, Gone, vars, path, sema
  <2> QED
    BY <2>1 DEF Protected, Outgoing
<1> QED
  BY <1>2, <1>3, <1>4, <1>5, <1>6, <1>7, <1>8, <1>9, <1>10, <1>11, <1>12, <1>13, <1>14
     DEF Next, Listener, RefreshThread

\* The inductive invariant of the connection.
IInv == Typed /\ Units /\ Directed /\ Protected

\* The inductive invariant holds when the object has been constructed.
LEMMA InitIInv == Init => IInv
<1> SUFFICES ASSUME Init PROVE IInv
  OBVIOUS
<1>1. Typed
  BY InitTyped
<1>2. access = 1 /\ surplus = 0 /\ path_state = "NULL"
      /\ path_direction = "UNDEFINED" /\ other = "idle"
  BY DEF Init
<1>3. \A t \in Threads : pc[t] \in {"wait", "top", "idle"}
  BY DEF Init
<1>4. Units
  BY <1>2, <1>3 DEF Units, In, Inside
<1>5. Directed
  BY <1>2, <1>3 DEF Directed, Outgoing, Visited
<1>6. Protected
  BY <1>2, <1>3 DEF Protected
<1> QED
  BY <1>1, <1>4, <1>5, <1>6 DEF IInv

\* The inductive invariant is inductive.
LEMMA IInvKept == IInv /\ [Next]_vars => IInv'
BY NextTyped, UnitsKept, DirectedKept, ProtectedKept DEF IInv

\* The inductive invariant holds in every reachable state, for every value of
\* the constants.
THEOREM Invariant == Spec => []IInv
BY InitIInv, IInvKept, PTL DEF Spec

\* refresh_path never sends PATH for a path that is not up, whatever the other
\* threads do in the meantime.
THEOREM RefreshIsSafe == Spec => []RefreshOnlyWhileUp
<1>1. IInv => RefreshOnlyWhileUp
  BY DEF IInv, Protected, RefreshOnlyWhileUp, Outgoing
<1> QED
  BY <1>1, Invariant, PTL

\* No handler of get_packet sets an outgoing path up again once it is torn.
LEMMA CallerKeepsTorn ==
  ASSUME IInv, surplus = 0, Outgoing, Torn, NEW t \in {"recv", "list"}, Caller(t)
  PROVE  Torn'
<1>1. /\ path_state = "DOWN" \/ (path_state = "PATHTEAR_SENT" /\ pc["list"] = "tsleep")
      /\ path_direction = "OUTGOING"
  BY DEF IInv, Directed, Protected, Visited, Torn, Outgoing
<1>2. t \in Threads
  OBVIOUS
<1>3. ASSUME NEW m \in {"PATH", "RESV"}, Serve(t, m) PROVE FALSE
  <2>1. pc[t] = "in" /\ check_if_packet_valid(m)
    BY <1>3 DEF Serve, GetPacket, At
  <2>2. pc["list"] # "tsleep"
    BY <1>2, <2>1, Alone DEF Inside, IInv
  <2> QED
    BY <1>1, <2>1, <2>2 DEF check_if_packet_valid
<1>4. pc[t] # "resvup"
  BY <1>1 DEF IInv, Protected
<1>5. ~AskClient(t) /\ ~respond_path(t) /\ ~PathErr_RD_flags_response(t)
      /\ ~respond_path_nack(t)
  BY <1>3 DEF AskClient, respond_path, PathErr_RD_flags_response, respond_path_nack
<1>6. ~RespondResvBegin(t) /\ ~RespondResvEnd(t) /\ ~RespondResvAgain(t)
      /\ ~PathTear_RD_flags_response(t) /\ ~RespondResvDelete(t)
  BY <1>3, <1>4 DEF RespondResvBegin, RespondResvEnd, RespondResvAgain,
     PathTear_RD_flags_response, RespondResvDelete, At
<1>7. CASE Ignore(t)
  BY <1>7 DEF Ignore, path, Torn
<1>8. CASE RespondResvDeleted(t) \/ RespondEnd(t)
  BY <1>8 DEF RespondResvDeleted, RespondEnd, Torn
<1>9. CASE ReadsAbsent(t)
  <2>1. job[t].pkt.type \notin {"PATH", "RESV"}
    BY <1>3, <1>9 DEF ReadsAbsent, Complete, Reads, Serve
  <2> QED
    BY <1>9, <2>1 DEF ReadsAbsent, Torn
<1> QED
  BY <1>5, <1>6, <1>7, <1>8, <1>9 DEF Caller

\* An outgoing path that is torn down stays so: no late RESV, no confirmation
\* and no crossing of two teardowns brings it back, for any router and client.
THEOREM TornForGood == Spec => OutgoingStaysDown
<1>1. IInv /\ [Next]_vars
        => [(path_direction = "OUTGOING" /\ Torn /\ surplus' = 0) => Torn']_vars
  <2> SUFFICES ASSUME IInv, [Next]_vars, path_direction = "OUTGOING", Torn,
                      surplus' = 0
               PROVE  Torn'
    OBVIOUS
  <2>1. surplus = 0
    BY SurplusGrows DEF IInv
  <2>2. Outgoing
    BY DEF Outgoing
  <2>3. CASE \E t \in {"recv", "list"} : Caller(t)
    BY <2>1, <2>2, <2>3, CallerKeepsTorn
  <2>4. ~CreatePathBegin
    BY <2>2 DEF IInv, Directed, CreatePathBegin, At
  <2>5. ~CreatePathEnd
    BY <2>1 DEF IInv, Protected, CreatePathEnd, At, Torn
  <2>6. CASE DestroyLocallyBegin \/ DestroyLocallyEnd \/ SetupTimeout
    BY <2>6 DEF DestroyLocallyBegin, DestroyLocallyEnd, SetupTimeout, Torn
  <2>7. CASE ~(\E t \in {"recv", "list"} : Caller(t))
             /\ ~DestroyLocallyBegin /\ ~DestroyLocallyEnd /\ ~SetupTimeout
    <3>1. path_state' = path_state
      BY <2>4, <2>5, <2>7
         DEF Next, Listener, RefreshThread, RecvPacket, DeliverAnswer,
             DestroyRequest, Report, Request, Interrupted, ReportDone, Enter,
             DestroyByFlags, DestroyFails, RefreshTop, RefreshCount,
             RefreshBegin, RefreshSend, RefreshSkip, RefreshSleep, RefreshScan,
             OtherScan, Delete, Gone, vars, path
    <3> QED
      BY <3>1 DEF Torn
  <2> QED
    BY <2>3, <2>6, <2>7
<1> QED
  BY <1>1, Invariant, PTL DEF Spec, OutgoingStaysDown

-----------------------------------------------------------------------------
(***************************************************************************)
(* What the forwarding tables of the kernel hold for the connection, and   *)
(* that the route goes with it.                                            *)
(*                                                                         *)
(* The tables change under access, so as long as no surplus unit was added *)
(* they can be related to path_state alone, but for the two sleeps between *)
(* the removal of the route and the end of the path.                       *)
(***************************************************************************)

\* A thread sleeps in respond_resv, the route removed and the path still up.
Deleting == \E t \in {"recv", "list"} : pc[t] = "dsleep"

\* The tables of a path the client has created: empty until the RESV, the key
\* and the route while it is up, at most the route after that; none with a
\* zeroed address, in a teardown or in a deletion.
ForwardedOut ==
  /\ path_state # "PATH_RECV"
  /\ dest_address \in {"zero", "TR_D"}
  /\ routes \subseteq {"TR_D"}
  /\ dest_address = "zero" \/ path_state = "PATHTEAR_SENT" \/ Deleting => routes = {}
  /\ path_state \in {"INITIATED", "PATH_SENT", "RESV_RECV"} =>
       routes = {} /\ out_keys = {} /\ dest_address = "TR_D"
  /\ path_state = "UP" =>
       /\ dest_address = "TR_D"
       /\ MplsLinux /\ Keys # {} => out_keys = {key}
       /\ ~Deleting => routes = {"TR_D"}

\* The tables of any other path: its label, when it is up.
ForwardedIn ==
  /\ routes = {} /\ out_keys = {}
  /\ path_state = "UP" /\ MplsLinux => label \in in_labels

Forwarded == surplus = 0 => IF Outgoing THEN ForwardedOut ELSE ForwardedIn

\* What Forwarded reads, but for Deleting.
data == <<path_state, path_direction, dest_address, label, key, in_labels, out_keys,
          routes, surplus>>

\* A step that leaves all of it alone.
LEMMA QuietKeepsForwarded ==
  ASSUME Forwarded, UNCHANGED data, Deleting' <=> Deleting
  PROVE  Forwarded'
BY DEF Forwarded, ForwardedOut, ForwardedIn, Outgoing, data

\* A thread moves, not into the sleep of respond_resv nor out of it.
LEMMA MoveKeepsDeleting ==
  ASSUME Typed, NEW t \in Threads, NEW place \in PcStates, Goto(t, place),
         pc[t] # "dsleep", place # "dsleep"
  PROVE  Deleting' <=> Deleting
<1>1. pc'[t] = place /\ \A u \in Threads \ {t} : pc'[u] = pc[u]
  BY GotoTyped
<1>2. \A u \in Threads : pc'[u] = "dsleep" <=> pc[u] = "dsleep"
  BY <1>1
<1> QED
  BY <1>2 DEF Deleting

\* A thread that runs inside is the only one that can be in that sleep.
LEMMA InsideDeleting ==
  ASSUME Typed, Units, surplus = 0, NEW t \in Threads, NEW place \in PcStates,
         Goto(t, place), pc[t] \in Inside
  PROVE  /\ place # "dsleep" => ~Deleting'
         /\ pc[t] # "dsleep" => ~Deleting
<1>1. pc'[t] = place /\ \A u \in Threads \ {t} : pc'[u] = pc[u]
  BY GotoTyped
<1>2. \A u \in Threads \ {t} : pc[u] # "dsleep"
  BY Alone DEF Inside
<1>3. \A u \in Threads \ {t} : pc'[u] # "dsleep"
  BY <1>1, <1>2
<1>4. {"recv", "list"} \subseteq Threads
  OBVIOUS
<1>5. place # "dsleep" => ~Deleting'
  <2> HAVE place # "dsleep"
  <2>1. \A u \in Threads : pc'[u] # "dsleep"
    BY <1>1, <1>3
  <2> QED
    BY <2>1 DEF Deleting
<1>6. pc[t] # "dsleep" => ~Deleting
  <2> HAVE pc[t] # "dsleep"
  <2>1. \A u \in Threads : pc[u] # "dsleep"
    BY <1>2
  <2> QED
    BY <2>1 DEF Deleting
<1> QED
  BY <1>5, <1>6

\* DeleteRoute leaves no route of a path the client has created.
LEMMA RouteDeleted ==
  ASSUME Outgoing, ForwardedOut, DeleteRoute
  PROVE  routes' = {}
BY DEF ForwardedOut, DeleteRoute

\* Of any other path there was none.
LEMMA NoRouteDeleted ==
  ASSUME ForwardedIn, DeleteRoute
  PROVE  routes' = {}
BY DEF ForwardedIn, DeleteRoute

\* The handlers of get_packet keep the tables in step with the path.
LEMMA CallerKeepsForwarded ==
  ASSUME IInv, Forwarded, surplus = 0, surplus' = 0, NEW t \in {"recv", "list"}, Caller(t)
  PROVE  Forwarded'
<1> USE DEF IInv
<1>0. {"idle", "resvup", "dsleep"} \subseteq PcStates /\ t \in Threads
  BY DEF PcStates
<1>i. {"in", "resvup", "dsleep"} \subseteq Inside
  BY DEF Inside
<1>d. path_direction \in {"UNDEFINED", "INCOMING", "OUTGOING"}
  BY DEF Typed, TypeOK
<1>g. ASSUME NEW m, Serve(t, m)
      PROVE  /\ pc[t] = "in"
             /\ m = "PATH" => ~Outgoing
             /\ m = "RESV" => Outgoing /\ path_state # "DOWN"
  BY <1>d, <1>g DEF Serve, GetPacket, At, check_if_packet_valid, Outgoing
<1>l. ASSUME NEW n \in Nat, pc[t] \in {"in", "resvup"}, LeaveAdding(t, "idle", n)
      PROVE  ~Deleting /\ ~Deleting'
  BY <1>0, <1>i, <1>l, InsideDeleting DEF LeaveAdding
<1>o. Outgoing => ForwardedOut
  BY DEF Forwarded
<1>n. ~Outgoing => ForwardedIn
  BY DEF Forwarded
<1>1. CASE Ignore(t) \/ RespondResvAgain(t)
  <2>1. LeaveAdding(t, "idle", 1) /\ pc[t] = "in" /\ UNCHANGED data
    BY <1>1 DEF Ignore, RespondResvAgain, Serve, GetPacket, At, Leave, data, path, kernel
  <2> QED
    BY <1>l, <2>1, QuietKeepsForwarded
<1>2. CASE AskClient(t) \/ respond_path_nack(t)
  <2>1. Serve(t, "PATH")
    BY <1>2 DEF AskClient, respond_path_nack
  <2>2. /\ path_state' \in {"PATH_RECV", "DOWN"} /\ path_direction' = "INCOMING"
        /\ UNCHANGED <<routes, out_keys>>
    BY <1>2 DEF AskClient, respond_path_nack, kernel
  <2> QED
    BY <1>g, <1>n, <2>1, <2>2 DEF Forwarded, ForwardedIn, Outgoing
<1>3. CASE respond_path(t)
  <2>1. Serve(t, "PATH")
    BY <1>3 DEF respond_path
  <2>2. /\ in_labels' = WithInLabel(label') /\ path_direction' = "INCOMING"
        /\ UNCHANGED <<routes, out_keys>>
    BY <1>3 DEF respond_path
  <2>3. MplsLinux => label' \in in_labels'
    BY <2>2 DEF WithInLabel
  <2> QED
    BY <1>g, <1>n, <2>1, <2>2, <2>3 DEF Forwarded, ForwardedIn, Outgoing
<1>4. CASE PathErr_RD_flags_response(t)
  <2>1. Serve(t, "PATH")
    BY <1>4 DEF PathErr_RD_flags_response
  <2>2. /\ path_state' \in {"PATH_RECV", "DOWN"} /\ path_direction' = "INCOMING"
        /\ UNCHANGED <<routes, out_keys>>
    BY <1>4 DEF PathErr_RD_flags_response
  <2> QED
    BY <1>g, <1>n, <2>1, <2>2 DEF Forwarded, ForwardedIn, Outgoing
<1>5. CASE RespondResvBegin(t)
  <2>1. Serve(t, "RESV") /\ path_state # "UP" /\ path_state' = "RESV_RECV"
        /\ Goto(t, "resvup") /\ UNCHANGED <<path_direction, dest_address, kernel>>
    BY <1>5 DEF RespondResvBegin
  <2>2. Outgoing /\ path_state \notin {"DOWN", "UP", "PATH_RECV", "NULL"} /\ pc[t] = "in"
    BY <1>g, <1>o, <2>1 DEF ForwardedOut, Directed, Outgoing
  <2>3. pc["list"] # "tsleep"
    BY <1>0, <2>2, <1>i, Alone DEF Inside
  <2>4. path_state \in {"INITIATED", "PATH_SENT", "RESV_RECV"}
    BY <2>2, <2>3 DEF Directed, Protected, Visited
  <2>5. routes' = {} /\ out_keys' = {} /\ dest_address' = "TR_D" /\ Outgoing'
    BY <1>o, <2>1, <2>2, <2>4 DEF ForwardedOut, Outgoing, kernel
  <2> QED
    BY <2>1, <2>5 DEF Forwarded, ForwardedOut
<1>6. CASE RespondResvEnd(t)
  <2>1. /\ pc[t] = "resvup" /\ key' \in NewKeys
        /\ out_keys' = out_keys \cup ({key'} \ {0})
        /\ routes' = routes \cup {dest_address} /\ path_state' = "UP"
        /\ LeaveAdding(t, "idle", 1) /\ UNCHANGED <<path_direction, dest_address>>
    BY <1>6 DEF RespondResvEnd, At, Leave
  <2>2. Outgoing /\ path_state = "RESV_RECV"
    BY <2>1 DEF Directed, Protected
  <2>3. routes = {} /\ out_keys = {} /\ dest_address = "TR_D"
    BY <1>o, <2>2 DEF ForwardedOut
  <2>4. routes' = {"TR_D"} /\ dest_address' = "TR_D" /\ Outgoing'
    BY <2>1, <2>2, <2>3 DEF Outgoing
  <2>5. MplsLinux /\ Keys # {} => out_keys' = {key'}
    <3>1. MplsLinux /\ Keys # {} => key' \in Keys
      BY <2>1, <2>3 DEF NewKeys
    <3>2. 0 \notin Keys
      BY ConnectionAssumption
    <3> QED
      BY <2>1, <2>3, <3>1, <3>2
  <2>6. ~Deleting'
    BY <1>l, <2>1
  <2> QED
    BY <2>1, <2>4, <2>5, <2>6 DEF Forwarded, ForwardedOut
<1>7. CASE PathTear_RD_flags_response(t)
  <2>1. Serve(t, "RESV") /\ UNCHANGED <<path_direction, dest_address, out_keys, routes>>
    BY <1>7 DEF PathTear_RD_flags_response
  <2>2. CASE ProtocolVers = "IETF_RSVP"
    <3>1. UNCHANGED data /\ UNCHANGED pc
      BY <1>7, <2>1, <2>2 DEF PathTear_RD_flags_response, data
    <3> QED
      BY <3>1, QuietKeepsForwarded DEF Deleting
  <2>3. CASE ProtocolVers # "IETF_RSVP"
    <3>1. path_state' = "DOWN" /\ LeaveAdding(t, "idle", 1)
      BY <1>7, <2>3 DEF PathTear_RD_flags_response, Leave
    <3>2. ~Deleting' /\ Outgoing
      BY <1>g, <1>l, <2>1, <3>1
    <3> QED
      BY <1>o, <2>1, <3>1, <3>2 DEF Forwarded, ForwardedOut, Outgoing
  <2> QED
    BY <2>2, <2>3
<1>8. CASE RespondResvDelete(t)
  <2>1. /\ Serve(t, "RESV") /\ DeleteRoute
        /\ UNCHANGED <<path, out_keys>>
    BY <1>8 DEF RespondResvDelete
  <2>2. Outgoing /\ Outgoing' /\ routes' = {}
    BY <1>g, <1>o, <2>1, RouteDeleted DEF Outgoing, path
  <2>3. Goto(t, "dsleep") /\ pc'[t] = "dsleep"
    BY <1>0, <1>8, GotoTyped DEF RespondResvDelete
  <2>4. Deleting'
    BY <2>3 DEF Deleting
  <2> QED
    BY <1>o, <2>1, <2>2, <2>4 DEF Forwarded, ForwardedOut, path
<1>9. CASE RespondResvDeleted(t)
  <2>1. surplus' = surplus + 1
    BY <1>9 DEF RespondResvDeleted
  <2> QED
    BY <2>1
<1>10. CASE RespondEnd(t)
  <2>1. /\ pc[t] = "in" /\ path_state' = "DOWN" /\ LeaveAdding(t, "idle", 1)
        /\ UNCHANGED <<path_direction, dest_address, routes>>
        /\ out_keys' = out_keys \/ out_keys' = WithoutOutLabel(key)
    BY <1>10 DEF RespondEnd, Serve, GetPacket, At, Leave
  <2>2. ~Deleting'
    BY <1>l, <2>1
  <2>3. CASE Outgoing
    BY <1>o, <2>1, <2>2, <2>3 DEF Forwarded, ForwardedOut, Outgoing
  <2>4. CASE ~Outgoing
    BY <1>n, <2>1, <2>4 DEF Forwarded, ForwardedIn, Outgoing, WithoutOutLabel
  <2> QED
    BY <2>3, <2>4
<1>11. CASE ReadsAbsent(t)
  <2>1. UNCHANGED <<label, key, dest_address, upstream, kernel, surplus, pc>>
        /\ GetPacket(t) /\ ~Complete(t)
    BY <1>11 DEF ReadsAbsent, sema
  <2>2. CASE job[t].pkt.type = "PATH"
    <3>1. Serve(t, "PATH")
      BY <2>1, <2>2 DEF Complete, Reads, Serve
    <3>2. path_direction' = "INCOMING" /\ path_state' = "PATH_RECV"
      BY <1>11, <2>2 DEF ReadsAbsent
    <3>3. ~Outgoing /\ ~Outgoing' /\ pc[t] = "in"
      BY <1>g, <3>1, <3>2 DEF Outgoing
    <3>4. UNCHANGED <<out_keys, routes>>
      BY <2>1 DEF kernel
    <3>5. ForwardedIn
      BY <1>n, <3>3
    <3>6. ForwardedIn'
      BY <3>2, <3>4, <3>5 DEF ForwardedIn
    <3> QED
      BY <3>3, <3>6 DEF Forwarded
  <2>3. CASE job[t].pkt.type # "PATH"
    <3>1. UNCHANGED data /\ UNCHANGED pc
      BY <1>11, <2>1, <2>3 DEF ReadsAbsent, data, kernel
    <3> QED
      BY <3>1, QuietKeepsForwarded DEF Deleting
  <2> QED
    BY <2>2, <2>3
<1> QED
  BY <1>1, <1>2, <1>3, <1>4, <1>5, <1>6, <1>7, <1>8, <1>9, <1>10, <1>11
     DEF Caller

\* Every step keeps the tables in step with the path.
LEMMA ForwardedKept ==
  ASSUME IInv, Forwarded, [Next]_vars
  PROVE  Forwarded'
<1> SUFFICES ASSUME surplus' = 0 PROVE Forwarded'
  BY DEF Forwarded
<1> USE DEF IInv
<1>s. surplus = 0
  BY SurplusGrows
<1>0. /\ {"idle", "wait", "in", "csent", "tsleep", "top", "count", "sleep", "twait",
          "rwait", "tin", "rin", "rsend", "scan", "delete", "done"} \subseteq PcStates
      /\ {"recv", "list", "main", "refr"} \subseteq Threads
  BY DEF PcStates
<1>i. {"in", "csent", "tsleep", "tin"} \subseteq Inside
  BY DEF Inside
<1>o. Outgoing => ForwardedOut
  BY <1>s DEF Forwarded
<1>n. ~Outgoing => ForwardedIn
  BY <1>s DEF Forwarded
<1>q. ASSUME NEW t \in Threads, NEW place \in PcStates \ {"dsleep"}, Goto(t, place),
             pc[t] # "dsleep", UNCHANGED data
      PROVE  Forwarded'
  BY <1>q, MoveKeepsDeleting, QuietKeepsForwarded
<1>1. CASE RecvPacket \/ DeliverAnswer \/ DestroyRequest \/ Report
  <2>1. PICK t \in {"recv", "list", "main"} : \E j, h : Request(t, j, h)
    BY <1>1 DEF RecvPacket, DeliverAnswer, DestroyRequest, Report
  <2>2. Goto(t, "wait") /\ pc[t] = "idle" /\ UNCHANGED data
    BY <2>1 DEF Request, At, data, path, kernel, sema
  <2> QED
    BY <1>0, <1>q, <2>2
<1>2. CASE \E t \in {"recv", "list"} : Caller(t)
  BY <1>2, <1>s, CallerKeepsForwarded
<1>3. CASE CreatePathBegin
  <2>1. /\ pc["list"] = "in" /\ job["list"].op = "create" /\ path_direction' = "OUTGOING"
        /\ path_state' = "INITIATED" /\ dest_address' = "TR_D"
        /\ Goto("list", "csent") /\ UNCHANGED <<out_keys, routes>>
    BY <1>3 DEF CreatePathBegin, At, kernel
  <2>2. ~Outgoing
    BY <2>1 DEF Directed
  <2> QED
    BY <1>n, <2>1, <2>2 DEF Forwarded, ForwardedOut, ForwardedIn, Outgoing
<1>4. CASE CreatePathEnd
  <2>1. /\ pc["list"] = "csent" /\ path_state' = "PATH_SENT" /\ Goto("list", "idle")
        /\ UNCHANGED <<path_direction, dest_address, out_keys, routes>>
    BY <1>4 DEF CreatePathEnd, At, Leave, LeaveAdding, kernel
  <2>2. Outgoing /\ path_state = "INITIATED"
    BY <1>s, <2>1 DEF Directed, Protected
  <2> QED
    BY <1>o, <2>1, <2>2 DEF Forwarded, ForwardedOut, Outgoing
<1>5. CASE DestroyLocallyBegin
  <2>1. /\ DeleteRoute /\ path_state' = "PATHTEAR_SENT"
        /\ UNCHANGED <<path_direction, dest_address, out_keys>>
    BY <1>5 DEF DestroyLocallyBegin
  <2>2. routes' = {}
    BY <1>o, <1>n, <2>1, RouteDeleted, NoRouteDeleted
  <2>3. CASE Outgoing
    BY <1>o, <2>1, <2>2, <2>3 DEF Forwarded, ForwardedOut, Outgoing
  <2>4. CASE ~Outgoing
    BY <1>n, <2>1, <2>2, <2>4 DEF Forwarded, ForwardedIn, Outgoing
  <2> QED
    BY <2>3, <2>4
<1>6. CASE DestroyLocallyEnd
  <2>1. /\ pc["list"] = "tsleep" /\ path_state' = "DOWN" /\ dest_address' = "zero"
        /\ out_keys' = WithoutOutLabel(key)
        /\ UNCHANGED <<path_direction, routes>>
    BY <1>6 DEF DestroyLocallyEnd, At
  <2>2. path_state = "PATHTEAR_SENT"
    BY <1>s, <2>1 DEF Protected
  <2>3. CASE Outgoing
    BY <1>o, <2>1, <2>2, <2>3 DEF Forwarded, ForwardedOut, Outgoing
  <2>4. CASE ~Outgoing
    BY <1>n, <2>1, <2>4 DEF Forwarded, ForwardedIn, Outgoing, WithoutOutLabel
  <2> QED
    BY <2>3, <2>4
<1>7. CASE DestroyByFlags \/ DestroyFails
  <2>1. Goto("list", "idle") /\ pc["list"] = "in" /\ UNCHANGED data
    BY <1>7 DEF DestroyByFlags, DestroyFails, DestroyPath, At, Leave, LeaveAdding,
                data, path, kernel
  <2> QED
    BY <1>0, <1>q, <2>1
<1>8. CASE ReportDone \/ Interrupted
  <2>1. PICK place \in {"idle", "in"} : Goto("main", place)
    BY <1>8 DEF ReportDone, Interrupted, Leave, LeaveAdding
  <2>2. UNCHANGED data /\ pc["main"] \in {"in", "wait"}
    BY <1>s, <1>8 DEF ReportDone, Interrupted, At, data, path, kernel
  <2> QED
    BY <1>0, <1>q, <2>1, <2>2
<1>9. CASE \E t \in Threads : Enter(t)
  <2>1. PICK t \in Threads, place \in {"in", "tin", "rin"} :
          Goto(t, place) /\ pc[t] \in {"wait", "twait", "rwait"} /\ UNCHANGED data
    BY <1>9 DEF Enter, data, path, kernel
  <2> QED
    BY <1>0, <1>q, <2>1
<1>10. CASE \/ RefreshTop \/ RefreshBegin \/ RefreshSend \/ RefreshSkip \/ RefreshSleep
            \/ RefreshScan
  <2>1. PICK place \in {"scan", "count", "rsend", "sleep", "top", "delete", "done"} :
          Goto("refr", place)
    BY <1>10 DEF RefreshTop, RefreshBegin, RefreshSend, RefreshSkip, RefreshSleep,
                 RefreshScan, Leave, LeaveAdding
  <2>2. UNCHANGED data /\ pc["refr"] # "dsleep"
    BY <1>10 DEF RefreshTop, RefreshBegin, RefreshSend, RefreshSkip, RefreshSleep,
                 RefreshScan, At, data, path, kernel, sema
  <2> QED
    BY <1>0, <1>q, <2>1, <2>2
<1>11. CASE RefreshCount
  <2>1. /\ UNCHANGED data /\ pc["refr"] = "count"
        /\ \/ UNCHANGED pc
           \/ \E place \in {"twait", "rwait", "sleep"} : Goto("refr", place)
    BY <1>11 DEF RefreshCount, At, data, path, kernel, sema
  <2>2. CASE UNCHANGED pc
    BY <2>1, <2>2, QuietKeepsForwarded DEF Deleting
  <2> QED
    BY <1>0, <1>q, <2>1, <2>2
<1>12. CASE SetupTimeout
  <2>1. /\ Goto("refr", "done") /\ pc["refr"] = "tin" /\ path_state' = "DOWN"
        /\ UNCHANGED <<path_direction, dest_address, out_keys, routes>>
    BY <1>12 DEF SetupTimeout, At, Leave, LeaveAdding, kernel
  <2>2. ~Deleting'
    BY <1>0, <1>i, <1>s, <2>1, InsideDeleting
  <2>3. Outgoing
    BY <2>1 DEF Directed
  <2> QED
    BY <1>o, <2>1, <2>2, <2>3 DEF Forwarded, ForwardedOut, Outgoing
<1>13. CASE OtherScan \/ Delete \/ Gone \/ UNCHANGED vars
  <2>1. UNCHANGED <<data, pc>>
    BY <1>13 DEF OtherScan, Delete, Gone, vars, data, path, kernel, sema
  <2> QED
    BY <2>1, QuietKeepsForwarded DEF Deleting
<1> QED
  BY <1>1, <1>2, <1>3, <1>4, <1>5, <1>6, <1>7, <1>8, <1>9, <1>10, <1>11, <1>12, <1>13
     DEF Next, Listener, RefreshThread

\* The tables are empty when the object has been constructed.
LEMMA InitForwarded == Init => Forwarded
BY DEF Init, Forwarded, ForwardedIn, Outgoing

\* What the connection believes of the forwarding tables is so in every
\* reachable state.
THEOREM ForwardedAlways == Spec => []Forwarded
<1>1. IInv /\ Forwarded /\ [Next]_vars => Forwarded'
  BY ForwardedKept
<1> QED
  BY <1>1, InitForwarded, Invariant, PTL DEF Spec

\* When nobody is inside and the path counts as up, the kernel forwards on the
\* label of an incoming path, and with exactly the key and the route of an
\* outgoing one.  The kernel must have a key to give: where set_outgoing_label
\* gets none the path is up without one.
THEOREM TablesMatchUp ==
  ASSUME MplsLinux => Keys # {}
  PROVE  Spec => []ForwardingMatchesUp
<1>1. IInv /\ Forwarded => ForwardingMatchesUp
  <2> SUFFICES ASSUME IInv, Forwarded, path_state = "UP", InsideThreads = {}, surplus = 0
               PROVE  IF path_direction = "INCOMING"
                      THEN MplsLinux => label \in in_labels
                      ELSE /\ routes = {dest_address} /\ dest_address = "TR_D"
                           /\ MplsLinux => out_keys = {key}
    BY DEF ForwardingMatchesUp
  <2>1. path_direction \in {"INCOMING", "OUTGOING"}
    BY DEF IInv, Directed, Typed, TypeOK
  <2>2. ~Deleting
    BY DEF Deleting, InsideThreads, Inside
  <2> QED
    BY <2>1, <2>2 DEF Forwarded, ForwardedOut, ForwardedIn, Outgoing
<1> QED
  BY <1>1, ForwardedAlways, Invariant, PTL

\* Once a local teardown has zeroed the address, the route is gone for good.
THEOREM RouteGone == Spec => []RouteGoneOnceDestroyed
<1>1. Forwarded => RouteGoneOnceDestroyed
  BY DEF Forwarded, ForwardedOut, RouteGoneOnceDestroyed, Outgoing
<1> QED
  BY <1>1, ForwardedAlways, PTL

===============================================================================
