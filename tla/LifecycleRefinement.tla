------------------------- MODULE LifecycleRefinement -------------------------
(***************************************************************************)
(* Proofs that the connection takes only the steps of a PathLifecycle, and *)
(* that the client hears of every teardown it did not ask for.             *)
(***************************************************************************)
EXTENDS RsvpConnection_proofs

\* What the listener brings to a connection: only a PATH the client was asked
\* about, never one with flags; and what the receiver brings is never an answer.
Confirmed ==
  /\ pending.type \in {"PATH", "none"}
  /\ job["list"].op # "packet"
  /\ job["list"].pkt.type \in {"PATH", "none"} /\ job["list"].pkt.rtad = "none"
  /\ pc["list"] \notin {"resvup", "dsleep"}
  /\ job["recv"].op \in {"none", "packet"}

\* At first there is nothing to confirm.
LEMMA InitConfirmed == Init => Confirmed
<1> SUFFICES ASSUME Init PROVE Confirmed
  OBVIOUS
<1>1. PICK c \in {"recv", "list"}, p \in Packets :
        /\ pc = [t \in Threads |->
                   CASE t = c -> "wait" [] t = "refr" -> "top" [] OTHER -> "idle"]
        /\ job = [t \in Threads |->
                    IF t # c THEN NoJob
                    ELSE IF c = "list" THEN Job("create", NoPacket)
                    ELSE Job("packet", p)]
  BY ConnectionAssumption DEF Init
<1>2. pc["list"] \in {"wait", "idle"}
  BY <1>1 DEF Threads
<1>3. job["recv"] \in {NoJob, Job("packet", p)}
      /\ job["list"] \in {NoJob, Job("create", NoPacket)}
  BY <1>1 DEF Threads
<1>4. pending = NoPacket
  BY DEF Init
<1> QED
  BY <1>2, <1>3, <1>4 DEF Confirmed, NoJob, Job, NoPacket

\* A thread that moves, keeping or dropping the request it came with.
LEMMA MoveKeepsConfirmed ==
  ASSUME Typed, Confirmed, NEW t \in Threads, NEW place \in PcStates,
         Goto(t, place), t = "list" => place \notin {"resvup", "dsleep"},
         job' = job \/ job' = [job EXCEPT ![t] = NoJob],
         pending'.type \in {"PATH", "none"}
  PROVE  Confirmed'
<1>1. pc'[t] = place /\ \A u \in Threads \ {t} : pc'[u] = pc[u]
  BY GotoTyped
<1>2. \A u \in Threads : job'[u] = job[u] \/ job'[u] = NoJob
  BY DEF Typed, TypeOK
<1>3. NoJob.op = "none" /\ NoJob.pkt.type = "none" /\ NoJob.pkt.rtad = "none"
  BY DEF NoJob, Job, NoPacket
<1>4. pc'["list"] \notin {"resvup", "dsleep"}
  BY <1>1 DEF Threads, Confirmed
<1>5. job'["list"].op # "packet" /\ job'["list"].pkt.type \in {"PATH", "none"}
      /\ job'["list"].pkt.rtad = "none" /\ job'["recv"].op \in {"none", "packet"}
  BY <1>2, <1>3 DEF Threads, Confirmed
<1> QED
  BY <1>4, <1>5 DEF Confirmed

\* The handlers of get_packet only hold back a PATH without flags D.
LEMMA CallerKeepsConfirmed ==
  ASSUME IInv, Confirmed, NEW t \in {"recv", "list"}, Caller(t)
  PROVE  Confirmed'
<1>0. {"idle", "resvup", "dsleep"} \subseteq PcStates /\ t \in Threads /\ Typed /\ Directed
  BY DEF PcStates, Threads, IInv
<1>1. pending'.type \in {"PATH", "none"}
  <2>1. CASE AskClient(t)
    BY <2>1 DEF AskClient, Serve
  <2>2. CASE ~AskClient(t)
    BY <2>2
       DEF Caller, Ignore, ReadsAbsent, respond_path, PathErr_RD_flags_response,
           respond_path_nack, RespondResvBegin, RespondResvEnd, RespondResvAgain,
           PathTear_RD_flags_response, RespondResvDelete, RespondResvDeleted,
           RespondEnd, Confirmed
  <2> QED
    BY <2>1, <2>2
<1>2. CASE Leave(t, "idle") \/ LeaveAdding(t, "idle", 2)
  BY <1>0, <1>1, <1>2, MoveKeepsConfirmed DEF Leave, LeaveAdding
<1>3. CASE (Goto(t, "resvup") \/ Goto(t, "dsleep")) /\ job' = job
  <2>1. CASE t = "recv"
    BY <1>0, <1>1, <1>3, <2>1, MoveKeepsConfirmed
  <2>2. CASE t = "list"
    <3>1. pc'["list"] \in {"resvup", "dsleep"}
      BY <1>0, <1>3, <2>2, GotoTyped
    <3>2. ~Serve(t, "RESV")
      BY <2>2 DEF Serve, Confirmed
    <3>a. ~ReadsAbsent(t)
      BY <2>2, <3>1 DEF ReadsAbsent, GetPacket, At
    <3>3. Leave(t, "idle") \/ LeaveAdding(t, "idle", 2)
      BY <2>2, <3>2, <3>a
         DEF Caller, Ignore, AskClient, respond_path, PathErr_RD_flags_response,
             respond_path_nack, RespondResvBegin, RespondResvEnd, RespondResvAgain,
             PathTear_RD_flags_response, RespondResvDelete, RespondResvDeleted,
             RespondEnd
    <3> QED
      BY <1>2, <3>3
  <2> QED
    BY <2>1, <2>2
<1>4. CASE UNCHANGED <<pc, job>>
  BY <1>1, <1>4 DEF Confirmed
<1> QED
  BY <1>0, <1>2, <1>3, <1>4, CallerEffect

\* Every step keeps Confirmed.
LEMMA ConfirmedKept == IInv /\ Confirmed /\ [Next]_vars => Confirmed'
<1> SUFFICES ASSUME IInv, Confirmed, [Next]_vars PROVE Confirmed'
  OBVIOUS
<1>0. /\ {"idle", "wait", "in", "csent", "tsleep", "top", "count", "sleep", "twait",
          "rwait", "tin", "rin", "rsend", "scan", "delete", "done"} \subseteq PcStates
      /\ {"list", "main", "refr", "recv"} = Threads
      /\ Typed
  BY DEF PcStates, Threads, IInv
<1>1. ASSUME NEW t \in {"recv", "list", "main"}, NEW j, NEW h, Request(t, j, h),
             t = "recv" => j.op \in {"none", "packet"},
             t = "list" => /\ j.op # "packet" /\ j.pkt.rtad = "none"
                           /\ j.pkt.type \in {"PATH", "none"},
             pending'.type \in {"PATH", "none"}
      PROVE  Confirmed'
  <2>1. Goto(t, "wait") /\ job' = [job EXCEPT ![t] = j]
    BY <1>1 DEF Request
  <2>2. /\ pc'[t] = "wait" /\ job'[t] = j
        /\ \A u \in Threads \ {t} : pc'[u] = pc[u] /\ job'[u] = job[u]
    BY <1>0, <2>1, GotoTyped DEF Typed, TypeOK
  <2> QED
    BY <1>0, <1>1, <2>2 DEF Confirmed
<1>2. CASE RecvPacket
  <2>1. PICK p \in Packets : Request("recv", Job("packet", p), TRUE)
    BY <1>2 DEF RecvPacket
  <2> QED
    BY <1>1, <1>2, <2>1 DEF RecvPacket, Job, Confirmed
<1>3. CASE DeliverAnswer
  <2>1. PICK op \in {"ack", "nack"} : Request("list", Job(op, pending), TRUE)
    BY <1>3 DEF DeliverAnswer
  <2>2. pending \in Packets /\ pending.rtad # "RD" /\ pending' = NoPacket
    BY <1>0, <1>3 DEF DeliverAnswer, Typed, TypeOK
  <2>3. pending.type = "PATH" /\ pending.rtad = "none"
    <3>1. pending.type # "none"
      BY <2>2, ConnectionAssumption DEF Packets, MTypes
    <3>2. pending.type = "PATH"
      BY <3>1 DEF Confirmed
    <3> QED
      BY <2>2, <3>2, ConnectionAssumption DEF Packets
  <2> QED
    BY <1>1, <2>1, <2>2, <2>3 DEF Job, NoPacket
<1>4. CASE DestroyRequest
  BY <1>1, <1>4 DEF DestroyRequest, Job, NoPacket, Confirmed
<1>5. CASE Report
  BY <1>1, <1>5 DEF Report, Confirmed
<1>6. CASE \E t \in {"recv", "list"} : Caller(t)
  BY <1>6, CallerKeepsConfirmed
<1>7. CASE \/ CreatePathBegin \/ CreatePathEnd \/ DestroyByFlags \/ DestroyLocallyBegin
           \/ DestroyLocallyEnd \/ DestroyFails
  <2>1. PICK place \in {"csent", "idle", "tsleep"} : Goto("list", place)
    BY <1>7 DEF CreatePathBegin, CreatePathEnd, DestroyByFlags, DestroyLocallyBegin,
                DestroyLocallyEnd, DestroyFails, Leave, LeaveAdding
  <2>2. pending' = pending /\ (job' = job \/ job' = [job EXCEPT !["list"] = NoJob])
    BY <1>7 DEF CreatePathBegin, CreatePathEnd, DestroyByFlags, DestroyLocallyBegin,
                DestroyLocallyEnd, DestroyFails, Leave, LeaveAdding
  <2> QED
    BY <1>0, <2>1, <2>2, MoveKeepsConfirmed DEF Confirmed
<1>8. CASE ReportDone \/ Interrupted
  <2>1. PICK place \in {"in", "idle"} : Goto("main", place)
    BY <1>8 DEF ReportDone, Interrupted, Leave, LeaveAdding
  <2>2. pending' = pending /\ (job' = job \/ job' = [job EXCEPT !["main"] = NoJob])
    BY <1>8 DEF ReportDone, Interrupted, Leave, LeaveAdding
  <2> QED
    BY <1>0, <2>1, <2>2, MoveKeepsConfirmed DEF Confirmed
<1>9. CASE \E t \in Threads : Enter(t)
  <2>1. PICK t \in Threads, place \in {"in", "tin", "rin"} :
          Goto(t, place) /\ UNCHANGED <<job, pending>>
    BY <1>9 DEF Enter
  <2> QED
    BY <1>0, <2>1, MoveKeepsConfirmed DEF Confirmed
<1>10. CASE \/ RefreshTop \/ SetupTimeout \/ RefreshBegin \/ RefreshSend
            \/ RefreshSkip \/ RefreshSleep \/ RefreshScan
  <2>1. PICK place \in {"scan", "count", "done", "rsend", "sleep", "top", "delete"} :
          Goto("refr", place)
    BY <1>10 DEF RefreshTop, SetupTimeout, RefreshBegin, RefreshSend, RefreshSkip,
                 RefreshSleep, RefreshScan, Leave, LeaveAdding
  <2>2. pending' = pending /\ (job' = job \/ job' = [job EXCEPT !["refr"] = NoJob])
    BY <1>10 DEF RefreshTop, SetupTimeout, RefreshBegin, RefreshSend, RefreshSkip,
                 RefreshSleep, RefreshScan, Leave, LeaveAdding
  <2> QED
    BY <1>0, <2>1, <2>2, MoveKeepsConfirmed DEF Confirmed
<1>11. CASE RefreshCount
  <2>1. /\ UNCHANGED <<job, pending>>
        /\ \/ UNCHANGED pc
           \/ \E place \in {"twait", "rwait", "sleep"} : Goto("refr", place)
    BY <1>11 DEF RefreshCount
  <2>2. CASE UNCHANGED pc
    BY <2>1, <2>2 DEF Confirmed
  <2> QED
    BY <1>0, <2>1, <2>2, MoveKeepsConfirmed DEF Confirmed
<1>12. CASE OtherScan \/ Delete \/ Gone \/ UNCHANGED vars
  <2>1. UNCHANGED <<pc, job, pending>>
    BY <1>12 DEF OtherScan, Delete, Gone, vars
  <2> QED
    BY <2>1 DEF Confirmed
<1> QED
  BY <1>2, <1>3, <1>4, <1>5, <1>6, <1>7, <1>8, <1>9, <1>10, <1>11, <1>12
     DEF Next, Listener, RefreshThread

\* What each handler of get_packet means for the life of the path.
LEMMA CallerLifecycle ==
  ASSUME IInv, Confirmed, surplus = 0, status = "live",
         NEW t \in {"recv", "list"}, Caller(t), pc[t] # "dsleep"
  PROVE  [Lifecycle!Next]_<<Role, Phase>>
<1> USE DEF Lifecycle!Next, Lifecycle!Offer, Lifecycle!Establish, Lifecycle!End,
            Role, Phase
<1>0. /\ path_direction \in {"UNDEFINED", "INCOMING", "OUTGOING"}
      /\ path_state \in Visited
      /\ path_direction = "UNDEFINED" <=> path_state = "NULL"
      /\ t \in Threads
  BY DEF IInv, Typed, TypeOK, Directed, Threads
<1>1. ASSUME Serve(t, "PATH") PROVE path_direction # "OUTGOING"
  BY <1>1 DEF Serve, check_if_packet_valid
<1>2. ASSUME Serve(t, "RESV")
      PROVE  path_direction = "OUTGOING" /\ ~Torn
  <2>1. path_direction = "OUTGOING" /\ path_state # "DOWN" /\ pc[t] = "in"
    BY <1>0, <1>2 DEF Serve, GetPacket, At, check_if_packet_valid
  <2>2. path_state # "PATHTEAR_SENT"
    BY <1>0, <2>1, Alone DEF IInv, Protected, Inside, Threads
  <2> QED
    BY <1>0, <2>1, <2>2 DEF Torn, Visited
<1>3. CASE Ignore(t) \/ RespondResvAgain(t)
  <2>1. UNCHANGED <<path_state, path_direction, status>>
    BY <1>3 DEF Ignore, RespondResvAgain, path
  <2> QED
    BY <2>1 DEF Torn
<1>4. CASE AskClient(t)
  <2>1. /\ path_state = "NULL" /\ path_state' = "PATH_RECV"
        /\ path_direction' = "INCOMING" /\ status' = "live"
    BY <1>4 DEF AskClient
  <2> QED
    BY <1>0, <2>1 DEF Torn
<1>5. CASE respond_path(t) \/ respond_path_nack(t)
  <2>1. /\ path_state' \in {"UP", "DOWN"} /\ path_direction' = "INCOMING"
        /\ status' = "live" /\ path_direction # "OUTGOING"
    BY <1>1, <1>5 DEF respond_path, respond_path_nack
  <2> QED
    BY <1>0, <2>1 DEF Torn
<1>6. CASE PathErr_RD_flags_response(t)
  <2>1. /\ path_state' \in {"PATH_RECV", "DOWN"} /\ path_direction' = "INCOMING"
        /\ status' = "live" /\ path_direction # "OUTGOING"
    BY <1>1, <1>6 DEF PathErr_RD_flags_response
  <2>2. path_state \in {"NULL", "UP"}
    BY <1>6 DEF PathErr_RD_flags_response, Accepted, Confirmed
  <2> QED
    BY <1>0, <2>1, <2>2 DEF Torn
<1>7. CASE RespondResvBegin(t)
  <2>1. /\ path_state \notin {"UP", "NULL"} /\ path_state' = "RESV_RECV" /\ ~Torn
        /\ UNCHANGED <<path_direction, status>>
    BY <1>0, <1>2, <1>7 DEF RespondResvBegin
  <2> QED
    BY <2>1 DEF Torn
<1>8. CASE RespondResvEnd(t)
  <2>1. path_state = "RESV_RECV" /\ path_direction = "OUTGOING"
    BY <1>8 DEF RespondResvEnd, At, IInv, Protected, Directed, Outgoing
  <2>2. path_state' = "UP" /\ UNCHANGED <<path_direction, status>>
    BY <1>8 DEF RespondResvEnd
  <2> QED
    BY <2>1, <2>2 DEF Torn
<1>9. CASE PathTear_RD_flags_response(t)
  <2>1. path_direction = "OUTGOING" /\ ~Torn /\ path_state # "NULL"
    BY <1>0, <1>2, <1>9 DEF PathTear_RD_flags_response
  <2>2. (status' = "crashed" \/ path_state' = "DOWN") /\ UNCHANGED path_direction
    BY <1>9 DEF PathTear_RD_flags_response
  <2> QED
    BY <2>1, <2>2 DEF Torn
<1>10. CASE RespondResvDelete(t)
  <2>1. UNCHANGED <<path_state, path_direction, status>>
    BY <1>10 DEF RespondResvDelete, path
  <2> QED
    BY <2>1 DEF Torn
<1>11. CASE RespondEnd(t)
  <2>1. path_direction # "UNDEFINED"
    BY <1>11 DEF RespondEnd, Serve, check_if_packet_valid
  <2>2. path_state' = "DOWN" /\ UNCHANGED <<path_direction, status>>
    BY <1>11 DEF RespondEnd
  <2> QED
    BY <1>0, <2>1, <2>2 DEF Torn
<1>12. ~RespondResvDeleted(t)
  BY DEF RespondResvDeleted, At
<1>13. CASE ReadsAbsent(t)
  <2>1. status' = "crashed" /\ ~Complete(t) /\ GetPacket(t)
    BY <1>13 DEF ReadsAbsent
  <2>2. CASE job[t].pkt.type = "PATH"
    <3>1. path_direction # "OUTGOING"
      BY <1>1, <2>1, <2>2 DEF Complete, Reads, Serve
    <3>2. path_direction' = "INCOMING" /\ path_state' = "PATH_RECV"
      BY <1>13, <2>2 DEF ReadsAbsent
    <3> QED
      BY <1>0, <2>1, <3>1, <3>2
  <2>3. CASE job[t].pkt.type # "PATH"
    <3>1. path_direction = "OUTGOING"
      BY <1>2, <2>1, <2>3, Zenon DEF Complete, Reads, Serve
    <3>2. UNCHANGED <<path_direction, path_state>>
      BY <1>13, <2>3 DEF ReadsAbsent
    <3> QED
      BY <1>0, <2>1, <3>1, <3>2
  <2> QED
    BY <2>2, <2>3
<1> QED
  BY <1>3, <1>4, <1>5, <1>6, <1>7, <1>8, <1>9, <1>10, <1>11, <1>12, <1>13
     DEF Caller

\* With MaxSurplus = 0 nothing adds a unit: no RESV with the flag D alone.
NoDelete ==
  /\ surplus = 0
  /\ pc["recv"] # "dsleep"
  /\ job["recv"].pkt.rtad # "D"

\* At first no RESV with the flag D alone is being handled.
LEMMA InitNoDelete == Init => NoDelete
<1> SUFFICES ASSUME Init PROVE NoDelete
  OBVIOUS
<1>1. PICK c \in {"recv", "list"}, p \in Packets :
        /\ c = "recv" => p.type = "PATH"
        /\ pc = [t \in Threads |->
                   CASE t = c -> "wait" [] t = "refr" -> "top" [] OTHER -> "idle"]
        /\ job = [t \in Threads |->
                    IF t # c THEN NoJob
                    ELSE IF c = "list" THEN Job("create", NoPacket)
                    ELSE Job("packet", p)]
  BY ConnectionAssumption DEF Init
<1>2. pc["recv"] \in {"wait", "idle"}
  BY <1>1 DEF Threads
<1>3. job["recv"].pkt = NoPacket \/ (job["recv"].pkt = p /\ p.type = "PATH")
  BY <1>1 DEF Threads, NoJob, Job
<1>4. job["recv"].pkt.rtad # "D"
  BY <1>3 DEF NoPacket, Packets
<1> QED
  BY <1>2, <1>4 DEF NoDelete, Init

\* Without surplus units no handler starts a deletion by the flag D.
LEMMA CallerKeepsNoDelete ==
  ASSUME IInv, Confirmed, NoDelete, NEW t \in {"recv", "list"}, Caller(t)
  PROVE  NoDelete'
<1>0. Typed /\ t \in Threads /\ {"idle", "resvup"} \subseteq PcStates
  BY DEF IInv, Threads, PcStates
<1>1. ~RespondResvDelete(t) /\ ~RespondResvDeleted(t)
  <2>1. CASE t = "recv"
    BY <2>1 DEF NoDelete, RespondResvDelete, RespondResvDeleted, At
  <2>2. CASE t = "list"
    BY <2>2 DEF Confirmed, RespondResvDelete, RespondResvDeleted, Serve, At
  <2> QED
    BY <2>1, <2>2
<1>2. /\ surplus' = surplus
      /\ \/ Leave(t, "idle")
         \/ Goto(t, "resvup") /\ job' = job
         \/ UNCHANGED <<pc, job>>
  BY <1>1
     DEF Caller, Ignore, AskClient, ReadsAbsent, respond_path, PathErr_RD_flags_response,
         respond_path_nack, RespondResvBegin, RespondResvEnd, RespondResvAgain,
         PathTear_RD_flags_response, RespondEnd, sema
<1>3. \A u \in Threads : job'[u] = job[u] \/ job'[u] = NoJob
  BY <1>0, <1>2 DEF Leave, LeaveAdding, Typed, TypeOK
<1>4. NoJob.pkt.rtad # "D"
  BY DEF NoJob, Job, NoPacket
<1>5. job'["recv"].pkt.rtad # "D"
  BY <1>3, <1>4 DEF NoDelete, Threads
<1>6. pc'["recv"] # "dsleep"
  <2>1. CASE Leave(t, "idle")
    BY <1>0, <2>1, GotoTyped DEF Leave, LeaveAdding, NoDelete, Threads
  <2>2. CASE Goto(t, "resvup")
    BY <1>0, <2>2, GotoTyped DEF NoDelete, Threads
  <2> QED
    BY <1>2, <2>1, <2>2 DEF NoDelete
<1> QED
  BY <1>2, <1>5, <1>6 DEF NoDelete

\* Every step keeps NoDelete when MaxSurplus is zero.
LEMMA NoDeleteKept ==
  ASSUME MaxSurplus = 0
  PROVE  IInv /\ Confirmed /\ NoDelete /\ [Next]_vars => NoDelete'
<1> SUFFICES ASSUME IInv, Confirmed, NoDelete, [Next]_vars PROVE NoDelete'
  OBVIOUS
<1>0. Typed /\ Threads = {"recv", "list", "refr", "main"}
      /\ {"wait", "in", "tin", "rin"} \subseteq PcStates
  BY DEF IInv, Threads, PcStates
<1>1. CASE RecvPacket
  <2>1. PICK p \in Packets : /\ p.rtad = "D" => surplus < MaxSurplus
                             /\ Request("recv", Job("packet", p), TRUE)
    BY <1>1 DEF RecvPacket
  <2>2. p.rtad # "D"
    BY <2>1 DEF NoDelete
  <2>3. Goto("recv", "wait") /\ surplus' = surplus
        /\ job' = [job EXCEPT !["recv"] = Job("packet", p)]
    BY <2>1 DEF Request, sema
  <2>4. pc'["recv"] = "wait" /\ job'["recv"] = Job("packet", p)
    BY <1>0, <2>3, GotoTyped DEF Typed, TypeOK
  <2> QED
    BY <2>2, <2>3, <2>4 DEF NoDelete, Job
<1>2. CASE \E t \in {"recv", "list"} : Caller(t)
  BY <1>2, CallerKeepsNoDelete
<1>3. CASE \E t \in Threads : Enter(t)
  <2>1. PICK t \in Threads, place \in {"in", "tin", "rin"} :
          Goto(t, place) /\ UNCHANGED <<job, surplus>>
    BY <1>3 DEF Enter
  <2>2. pc'["recv"] # "dsleep"
    BY <1>0, <2>1, GotoTyped DEF NoDelete
  <2> QED
    BY <2>1, <2>2 DEF NoDelete
<1>4. ~Interrupted
  BY DEF Interrupted, NoDelete
<1>5. CASE Delete \/ Gone \/ OtherScan \/ UNCHANGED vars
  <2>1. UNCHANGED <<pc, job, surplus>>
    BY <1>5 DEF Delete, Gone, OtherScan, vars, sema
  <2> QED
    BY <2>1 DEF NoDelete
<1>6. CASE ~(\/ RecvPacket \/ (\E t \in {"recv", "list"} : Caller(t))
             \/ (\E t \in Threads : Enter(t))
             \/ Delete \/ Gone \/ OtherScan \/ UNCHANGED vars)
  <2>1. PICK t \in {"list", "refr", "main"} :
          /\ pc' = pc \/ \E place : pc' = [pc EXCEPT ![t] = place]
          /\ job' = job \/ \E j : job' = [job EXCEPT ![t] = j]
          /\ surplus' = surplus
    BY <1>4, <1>6
       DEF Next, Listener, RefreshThread, DeliverAnswer, DestroyRequest, Report,
           Request, ReportDone, CreatePathBegin, CreatePathEnd, DestroyByFlags,
           DestroyLocallyBegin, DestroyLocallyEnd, DestroyFails, RefreshTop,
           RefreshCount, SetupTimeout, RefreshBegin, RefreshSend, RefreshSkip,
           RefreshSleep, RefreshScan, Leave, LeaveAdding, Goto, sema
  <2>2. pc'["recv"] = pc["recv"] /\ job'["recv"] = job["recv"]
    BY <1>0, <2>1 DEF Typed, TypeOK
  <2> QED
    BY <2>1, <2>2 DEF NoDelete
<1> QED
  BY <1>1, <1>2, <1>3, <1>5, <1>6

\* Every step of the connection is a step of PathLifecycle or a stutter.
LEMMA LifecycleStep ==
  ASSUME RefreshInterval # 0
  PROVE  IInv /\ Confirmed /\ NoDelete /\ [Next]_vars
           => [Lifecycle!Next]_<<Role, Phase>>
<1> SUFFICES ASSUME IInv, Confirmed, NoDelete, [Next]_vars
             PROVE  [Lifecycle!Next]_<<Role, Phase>>
  OBVIOUS
<1> USE DEF Lifecycle!Next, Lifecycle!Open, Lifecycle!End, Role, Phase
<1>0. /\ path_direction \in {"UNDEFINED", "INCOMING", "OUTGOING"}
      /\ path_direction = "UNDEFINED" <=> path_state = "NULL"
      /\ status \in {"live", "deleted", "crashed"}
  BY DEF IInv, Typed, TypeOK, Directed
<1>1. CASE \E t \in {"recv", "list"} : Caller(t)
  <2>1. PICK t \in {"recv", "list"} : Caller(t)
    BY <1>1
  <2>2. status = "live"
    BY <2>1 DEF Caller, Ignore, AskClient, ReadsAbsent, respond_path, PathErr_RD_flags_response,
       respond_path_nack, RespondResvBegin, RespondResvEnd, RespondResvAgain,
       PathTear_RD_flags_response, RespondResvDelete, RespondResvDeleted,
       RespondEnd, Serve, GetPacket, At
  <2>3. pc[t] # "dsleep"
    BY DEF Confirmed, NoDelete
  <2> QED
    BY <2>1, <2>2, <2>3, CallerLifecycle DEF NoDelete
<1>2. CASE CreatePathBegin
  <2>1. /\ path_direction # "OUTGOING" /\ path_direction' = "OUTGOING"
        /\ path_state' = "INITIATED" /\ status = "live" /\ status' = status
    BY <1>2 DEF CreatePathBegin, At, IInv, Directed, Outgoing
  <2> QED
    BY <1>0, <2>1 DEF Torn
<1>3. CASE CreatePathEnd
  <2>1. /\ path_state = "INITIATED" /\ path_state' = "PATH_SENT"
        /\ UNCHANGED <<path_direction, status>>
    BY <1>3 DEF CreatePathEnd, At, IInv, Protected, NoDelete
  <2> QED
    BY <2>1 DEF Torn
<1>4. CASE DestroyLocallyBegin \/ DestroyLocallyEnd \/ SetupTimeout
  <2>1. path_direction # "UNDEFINED"
    BY <1>4 DEF DestroyLocallyBegin, DestroyLocallyEnd, SetupTimeout, At, IInv,
                Directed, Outgoing
  <2>2. path_state' \in {"PATHTEAR_SENT", "DOWN"} /\ UNCHANGED <<path_direction, status>>
    BY <1>4 DEF DestroyLocallyBegin, DestroyLocallyEnd, SetupTimeout
  <2> QED
    BY <1>0, <2>1, <2>2 DEF Torn
<1>5. CASE Delete
  <2>1. path_state # "NULL" /\ status' = "deleted"
    BY <1>5 DEF Delete, IInv, Directed
  <2>2. UNCHANGED <<path_state, path_direction>>
    BY <1>5 DEF Delete, path
  <2> QED
    BY <1>0, <2>1, <2>2 DEF Torn
<1>6. CASE RefreshCount
  <2>1. UNCHANGED <<path_state, path_direction, status>>
    BY <1>6 DEF RefreshCount, path
  <2> QED
    BY <2>1 DEF Torn
<1>7. CASE ~(\/ (\E t \in {"recv", "list"} : Caller(t)) \/ CreatePathBegin
             \/ CreatePathEnd \/ DestroyLocallyBegin \/ DestroyLocallyEnd
             \/ SetupTimeout \/ Delete \/ RefreshCount)
  <2>1. UNCHANGED <<path_state, path_direction, status>>
    BY <1>7
       DEF Next, Listener, RefreshThread, RecvPacket, DeliverAnswer,
           DestroyRequest, Report, Request, Interrupted, ReportDone, Enter,
           DestroyByFlags, DestroyFails, RefreshTop, RefreshBegin, RefreshSend,
           RefreshSkip, RefreshSleep, RefreshScan, OtherScan, Gone, vars, path
  <2> QED
    BY <2>1 DEF Torn
<1> QED
  BY <1>1, <1>2, <1>3, <1>4, <1>5, <1>6, <1>7

\* For every agent that refreshes (RefreshInterval is not zero) and never gets
\* the flag D alone, the connection implements the abstract life of a path: set
\* up once, ended once, and turned around only by the client's own request.
THEOREM ConnectionRefines ==
  MaxSurplus = 0 /\ RefreshInterval # 0 => (Spec => StepsAsLifecycle)
<1> SUFFICES ASSUME MaxSurplus = 0, RefreshInterval # 0
             PROVE  Spec => StepsAsLifecycle
  OBVIOUS
<1>1. Init => Lifecycle!Init
  BY DEF Init, Lifecycle!Init, Role, Phase, Torn
<1>2. Init => Confirmed /\ NoDelete
  BY InitConfirmed, InitNoDelete
<1>3. IInv /\ Confirmed /\ NoDelete /\ [Next]_vars => Confirmed' /\ NoDelete'
  BY ConfirmedKept, NoDeleteKept
<1>4. IInv /\ Confirmed /\ NoDelete /\ [Next]_vars => [Lifecycle!Next]_<<Role, Phase>>
  BY LifecycleStep
<1>5. Spec => []IInv
  BY Invariant
<1> QED
  BY <1>1, <1>2, <1>3, <1>4, <1>5, PTL DEF Spec, StepsAsLifecycle, Lifecycle!Spec

\* What the client must hear when its path ends in this step.
Heard == IF RespondResvDeleted("recv") THEN {"RESV"} ELSE {"PATHERR", "RESVTEAR"}

\* A handler of get_packet that ends an outgoing path tells the client.
LEMMA CallerReports ==
  ASSUME Confirmed, NEW t \in {"recv", "list"}, Caller(t),
         path_direction = "OUTGOING", ~Torn, Torn'
  PROVE  \E i \in DOMAIN asked' : asked'[i] \in Heard
<1>1. ~Serve(t, "PATH")
  BY DEF Serve, check_if_packet_valid
<1>2. CASE RespondResvDeleted(t)
  <2>1. RespondResvDeleted("recv")
    BY <1>2 DEF RespondResvDeleted, At, Confirmed
  <2>2. asked' = <<"RESV">>
    BY <1>2 DEF RespondResvDeleted, Out
  <2>3. 1 \in DOMAIN asked' /\ asked'[1] = "RESV"
    BY <2>2
  <2> QED
    BY <2>1, <2>3 DEF Heard
<1>3. ~RespondResvBegin(t) /\ ~RespondResvEnd(t) /\ ~RespondResvAgain(t)
      /\ ~RespondResvDelete(t) /\ ~Ignore(t)
  BY DEF RespondResvBegin, RespondResvEnd, RespondResvAgain, RespondResvDelete,
         Ignore, path, Torn
<1>a. ASSUME NEW m, m \notin {"PATH", "none"}, Serve(t, m)
      PROVE  Heard = {"PATHERR", "RESVTEAR"}
  <2>1. t = "recv"
    BY <1>a DEF Serve, Confirmed
  <2>2. ~RespondResvDeleted("recv")
    BY <1>a, <2>1 DEF Serve, GetPacket, At, RespondResvDeleted
  <2> QED
    BY <2>2 DEF Heard
<1>4. CASE PathTear_RD_flags_response(t)
  <2>1. path_state' # path_state /\ Serve(t, "RESV")
    BY <1>4 DEF Torn, PathTear_RD_flags_response
  <2>2. asked' = <<"RESVTEAR", "RESV">>
    BY <1>4, <2>1 DEF PathTear_RD_flags_response, Out
  <2>3. 1 \in DOMAIN asked' /\ asked'[1] = "RESVTEAR"
    BY <2>2
  <2> QED
    BY <1>a, <2>1, <2>3
<1>5. CASE RespondEnd(t)
  <2>1. PICK m \in {"PATHERR", "RESVERR", "PATHTEAR", "RESVTEAR"} :
          Serve(t, m) /\ Out(Ack(t), <<m>>)
    BY <1>5 DEF RespondEnd
  <2>2. m \in {"PATHERR", "RESVTEAR"}
    BY <2>1 DEF Serve, check_if_packet_valid
  <2>3. asked' = <<m>>
    BY <2>1 DEF Out
  <2>4. 1 \in DOMAIN asked' /\ asked'[1] = m
    BY <2>3
  <2> QED
    BY <1>a, <2>1, <2>2, <2>4
<1>6. ~ReadsAbsent(t)
  <2>1. SUFFICES ASSUME ReadsAbsent(t) PROVE FALSE
    OBVIOUS
  <2>2. job[t].pkt.type # "PATH"
    BY <1>1, <2>1 DEF ReadsAbsent, Complete, Reads, Serve
  <2>3. path_state' = path_state
    BY <2>1, <2>2 DEF ReadsAbsent
  <2> QED
    BY <2>3 DEF Torn
<1> QED
  BY <1>1, <1>2, <1>3, <1>4, <1>5, <1>6
     DEF Caller, AskClient, respond_path, PathErr_RD_flags_response,
         respond_path_nack

\* The client hears of the end of its path, whoever ended it: the router by any
\* of its messages, the flag D among them, or the set-up timeout.  Only the two
\* steps of the client's own destroy_path are not told.
THEOREM TeardownReported == Spec => EveryTeardownReported
<1>1. IInv /\ Confirmed /\ [Next]_vars
        => [(/\ path_direction = "OUTGOING" /\ ~Torn /\ Torn'
             /\ ~DestroyLocallyBegin /\ ~DestroyLocallyEnd)
            => \E i \in DOMAIN asked' :
                 asked'[i] \in IF RespondResvDeleted("recv") THEN {"RESV"}
                               ELSE {"PATHERR", "RESVTEAR"}]_vars
  <2> SUFFICES ASSUME IInv, Confirmed, [Next]_vars, path_direction = "OUTGOING",
                      ~Torn, Torn', ~DestroyLocallyBegin, ~DestroyLocallyEnd
               PROVE  \E i \in DOMAIN asked' : asked'[i] \in Heard
    BY DEF Heard
  <2>1. CASE \E t \in {"recv", "list"} : Caller(t)
    BY <2>1, CallerReports
  <2>2. CASE SetupTimeout
    <3>1. asked' = <<"PATHERR">>
      BY <2>2 DEF SetupTimeout, Out
    <3>2. 1 \in DOMAIN asked' /\ asked'[1] = "PATHERR"
      BY <3>1
    <3>3. ~RespondResvDeleted("recv")
      BY <3>2 DEF RespondResvDeleted, Out
    <3> QED
      BY <3>2, <3>3 DEF Heard
  <2>5. ~CreatePathBegin /\ ~CreatePathEnd
    BY DEF CreatePathBegin, CreatePathEnd, Torn
  <2>6. path_state' # path_state
    BY DEF Torn
  <2> QED
    BY <2>1, <2>2, <2>5, <2>6
       DEF Next, Listener, RefreshThread, RecvPacket, DeliverAnswer,
           DestroyRequest, Report, Request, Interrupted, ReportDone, Enter,
           DestroyByFlags, DestroyFails, RefreshTop, RefreshCount, RefreshBegin,
           RefreshSend, RefreshSkip, RefreshSleep, RefreshScan, OtherScan,
           Delete, Gone, vars, path
<1>2. Spec => []IInv
  BY Invariant
<1>3. Init => Confirmed
  BY InitConfirmed
<1>4. IInv /\ Confirmed /\ [Next]_vars => Confirmed'
  BY ConfirmedKept
<1> QED
  BY <1>1, <1>2, <1>3, <1>4, PTL DEF Spec, EveryTeardownReported

=============================================================================
