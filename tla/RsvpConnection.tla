--------------------------- MODULE RsvpConnection ---------------------------
(***************************************************************************)
(* One rsvp_connection object of the agent (rsvp_connection.cpp) together  *)
(* with every thread that touches it:                                      *)
(*                                                                         *)
(*   recv   rsvp_dispatcher::receiver_thread, delivers packets of the      *)
(*          router through get_packet                                      *)
(*   list   mgmt_interface::listener, creates, confirms and destroys the   *)
(*          path for the client                                            *)
(*   refr   refresh_path, the thread the object starts for itself          *)
(*   main   the main thread, which prints path states (report_paths)       *)
(*   other  refresh_path of some other connection, whose clean-up scan     *)
(*          also visits this object                                        *)
(*                                                                         *)
(* Threads exclude one another with the counting semaphore "access"; path  *)
(* state is also read without it.  A handler is one action from the moment *)
(* the semaphore is passed, except where the code can be overtaken in the  *)
(* middle (a sleep, or two assignments of path_state that another thread   *)
(* can tell apart).                                                        *)
(***************************************************************************)
EXTENDS Naturals, Sequences, FiniteSets

CONSTANTS
  ProtocolVers,      \* globals.protocol_vers
  MplsLinux,         \* FALSE when built with __LINUX_MPLS_ABSENCE__
  PathSetupTimeout,  \* globals.path_setup_timeout, in rounds of refresh_path
  RefreshInterval,   \* refresh_interval: RC_REFRESH_PERIOD / 1000
  Creators,          \* which threads may construct the object
  NetTypes,          \* message types the router may send
  RtadValues,        \* ADMIN_STATUS flags the router may set
  UpstreamLabels,    \* UPSTREAM_LABEL values of PATH messages (0: absent)
  ResvLabels,        \* labels the router assigns in RESV messages
  Lacking,           \* objects a message of the router may come without
  AckRequested,      \* do the router's messages ask for a MESSAGE_ID_ACK?
  Keys,              \* NHLFE keys the kernel can hand out
  Translator,        \* globals.translator
  LabelIdRange,      \* range of globals.label_id, 2^32 in the program
  MaxSurplus         \* bound: no new surplus units from this surplus on

PathStates ==
  {"NULL", "INITIATED", "PATH_SENT", "PATH_RECV", "RESV_RECV", "RESV_SENT",
   "UP", "RESVTEAR_RECV", "RESVTEAR_SENT", "PATHTEAR_SENT", "PATHTEAR_RECV",
   "DOWN"}

MTypes ==
  {"PATH", "RESV", "PATHERR", "RESVERR", "PATHTEAR", "RESVTEAR", "RESVCONF",
   "OTHER"}                    \* OTHER: the unassigned types 8 to 11

ASSUME ConnectionAssumption ==
  /\ ProtocolVers \in {"IETF_RSVP", "OIFUNI10", "OIFUNI20"}
  /\ MplsLinux \in BOOLEAN
  /\ AckRequested \in BOOLEAN
  /\ PathSetupTimeout \in Nat
  /\ RefreshInterval \in Nat
  /\ Creators \subseteq {"recv", "list"}
  /\ NetTypes \subseteq MTypes
  /\ RtadValues \subseteq {"none", "RD", "D"}
  /\ UpstreamLabels \subseteq Nat
  /\ ResvLabels \subseteq Nat \ {0}
  /\ Lacking \subseteq {"hop", "sender", "label"}
  /\ Keys \subseteq Nat \ {0}
  /\ Translator \in BOOLEAN
  /\ LabelIdRange \in Nat \ {0}
  /\ MaxSurplus \in Nat

Threads == {"recv", "list", "refr", "main"}

\* Places a thread can be in; the comment gives the holder of the semaphore.
PcStates ==
  {"idle", "wait",             \* outside, blocked in access.wait()
   "in",                       \* inside
   "csent",                    \* inside create_path, INITIATED
   "resvup",                   \* inside respond_resv, RESV_RECV
   "dsleep", "tsleep",         \* inside, in the sleep(1) of a teardown
   "top", "count", "sleep",    \* refresh_path, outside
   "twait", "rwait",           \* refresh_path, blocked in access.wait()
   "tin", "rin", "rsend",      \* refresh_path, inside
   "scan", "delete", "done"}   \* refresh_path, clean-up scan and exit

Inside == {"in", "csent", "resvup", "dsleep", "tsleep", "tin", "rin", "rsend"}

\* lacks names the object a message came without: RSVP_HOP, GENERALIZED_LABEL,
\* or the sender of the path (SENDER_TEMPLATE in PATH, FILTER_SPEC in RESV).
Packets ==
  {p \in [type : NetTypes, rtad : RtadValues \cup {"none"},
          lab  : UpstreamLabels \cup ResvLabels \cup {0},
          lacks : Lacking \cup {"nothing"}] :
     /\ p.type = "PATH" =>
          p.lab \in UpstreamLabels /\ p.rtad # "D" /\ p.lacks # "label"
     /\ p.type = "RESV" => p.lab \in ResvLabels
     /\ p.type \notin {"PATH", "RESV"} =>
          p.lab = 0 /\ p.rtad = "none" /\ p.lacks = "nothing"}

NoPacket ==
  [type |-> "none", rtad |-> "none", lab |-> 0, lacks |-> "nothing"]

\* What a thread has been asked to do to the connection.
Ops  == {"none", "packet", "ack", "nack", "create", "destroy"}
Jobs == [op : Ops, pkt : Packets \cup {NoPacket}]
Job(op, pkt) == [op |-> op, pkt |-> pkt]
NoJob == Job("none", NoPacket)

VARIABLES
  path_state,            \* rsvp_connection::path_state
  path_direction,        \* rsvp_connection::path_direction
  label, key,            \* rsvp_connection::label and ::key (0: none)
  dest_address,          \* "uninit", "zero" or "TR_D"
  upstream,              \* does configuration hold RC_UPSTREAM_LABEL?
  in_labels,             \* kernel: labels in the ILM table
  out_keys,              \* kernel: keys in the NHLFE table
  routes,                \* kernel: destinations with an MPLS route
  label_id,              \* globals.label_id
  access,                \* value of the semaphore
  surplus,               \* history: units added beyond the initial one
  refresh_tread_state,   \* 1 while refresh_path runs
  till_state_up_count,   \* local of refresh_path, saturated past the timeout
  tick_count,            \* local of refresh_path, modulo RefreshInterval
  pc, job,               \* of the threads in Threads
  other,                 \* "idle" or "delete": the other refresh thread
  reg_holder,            \* who holds registered_conns_access
  pending,               \* PATH the client has been asked to confirm
  status,                \* "live", "deleted" (object) or "crashed" (process)
  sent, asked            \* messages to the router and ask_interface calls of
                         \* the last step

path   == <<path_state, path_direction, label, key, dest_address, upstream>>
kernel == <<in_labels, out_keys, routes, label_id>>
sema   == <<access, surplus>>
loop   == <<refresh_tread_state, till_state_up_count, tick_count>>
reg    == <<other, reg_holder>>
vars   == <<path, kernel, sema, loop, pc, job, reg, pending, status, sent,
            asked>>

\* Every variable keeps the values its declaration, or its use, allows.
TypeOK ==
  /\ path_state \in PathStates
  /\ path_direction \in {"UNDEFINED", "INCOMING", "OUTGOING"}
  /\ label \in Nat
  /\ key \in Keys \cup {0}
  /\ dest_address \in {"uninit", "zero", "TR_D"}
  /\ upstream \in BOOLEAN
  /\ in_labels \subseteq Nat
  /\ out_keys \subseteq Keys
  /\ routes \subseteq {"uninit", "zero", "TR_D"}
  /\ label_id \in 0 .. LabelIdRange - 1
  /\ access \in Nat
  /\ surplus \in Nat
  /\ refresh_tread_state \in {0, 1}
  /\ till_state_up_count \in 0 .. PathSetupTimeout + 1
  /\ tick_count \in Nat
  /\ pc \in [Threads -> PcStates]
  /\ job \in [Threads -> Jobs]
  /\ other \in {"idle", "delete"}
  /\ reg_holder \in Threads \cup {"none"}
  /\ pending \in Packets \cup {NoPacket}
  /\ status \in {"live", "deleted", "crashed"}

(***************************************************************************)
(* The constructors: init and create_refresh_thread.  The thread that      *)
(* constructs the object goes on at once to create_path or get_packet.     *)
(***************************************************************************)
Init ==
  /\ path_state = "NULL"
  /\ path_direction = "UNDEFINED"
  /\ label = 0 /\ key = 0
  /\ dest_address = "uninit"
  /\ in_labels = {} /\ out_keys = {} /\ routes = {}
  /\ label_id = 0
  /\ access = 1 /\ surplus = 0
  /\ refresh_tread_state = 1
  /\ till_state_up_count = 0 /\ tick_count = 0
  /\ other = "idle" /\ reg_holder = "none"
  /\ pending = NoPacket
  /\ status = "live"
  /\ sent = <<>> /\ asked = <<>>
  /\ \E c \in Creators, p \in Packets :
       /\ c = "recv" => p.type = "PATH"
       /\ upstream \in IF ProtocolVers # "IETF_RSVP" THEN {TRUE}
                       ELSE IF c = "list" THEN BOOLEAN ELSE {FALSE}
       /\ pc = [t \in Threads |->
                  CASE t = c -> "wait" [] t = "refr" -> "top" [] OTHER -> "idle"]
       /\ job = [t \in Threads |->
                   IF t # c THEN NoJob
                   ELSE IF c = "list" THEN Job("create", NoPacket)
                   ELSE Job("packet", p)]

-----------------------------------------------------------------------------
(***************************************************************************)
(* The semaphore access and the lock of the registry.                      *)
(***************************************************************************)
At(t, place) == status = "live" /\ pc[t] = place

Goto(t, place) == pc' = [pc EXCEPT ![t] = place]

Out(s, a) == sent' = s /\ asked' = a

\* Mutant of Enter: goes on when there is no unit.
EnterUnchecked(t) ==
  /\ status = "live"
  /\ pc[t] \in {"wait", "twait", "rwait"}
  /\ access' = access - 1
  /\ Goto(t, CASE pc[t] = "wait"  -> "in"
               [] pc[t] = "twait" -> "tin"
               [] pc[t] = "rwait" -> "rin")
  /\ Out(<<>>, <<>>)
  /\ UNCHANGED <<path, kernel, surplus, loop, job, reg, pending, status>>

\* access.wait() returns.
Enter(t) ==
  /\ status = "live"
  /\ pc[t] \in {"wait", "twait", "rwait"}
  /\ access > 0
  /\ access' = access - 1
  /\ Goto(t, CASE pc[t] = "wait"  -> "in"
               [] pc[t] = "twait" -> "tin"
               [] pc[t] = "rwait" -> "rin")
  /\ Out(<<>>, <<>>)
  /\ UNCHANGED <<path, kernel, surplus, loop, job, reg, pending, status>>

\* A signal handled by the main thread makes semop fail with EINTR; wait()
\* returns an error nobody looks at, and the caller goes on without a unit.
Interrupted ==
  /\ At("main", "wait")
  /\ surplus < MaxSurplus
  /\ surplus' = surplus + 1
  /\ Goto("main", "in")
  /\ Out(<<>>, <<>>)
  /\ UNCHANGED <<path, kernel, access, loop, job, reg, pending, status>>

\* access.signal_plus(), n times, and the caller's signal_plus on the registry.
LeaveAdding(t, place, n) ==
  /\ Goto(t, place)
  /\ access' = access + n
  /\ job' = [job EXCEPT ![t] = NoJob]
  /\ reg_holder' = IF reg_holder = t THEN "none" ELSE reg_holder

Leave(t, place) == LeaveAdding(t, place, 1)

\* Asked to do something to the connection, and blocked in access.wait().
\* holds: does the caller keep registered_conns_access until it is done?
Request(t, what, holds) ==
  /\ At(t, "idle")
  /\ reg_holder = "none"
  /\ Goto(t, "wait")
  /\ job' = [job EXCEPT ![t] = what]
  /\ reg_holder' = IF holds THEN t ELSE reg_holder
  /\ Out(<<>>, <<>>)
  /\ UNCHANGED <<path, kernel, sema, loop, other, status>>

\* receiver_thread has found the connection of a packet.
RecvPacket ==
  \E p \in Packets :
    /\ p.rtad = "D" => surplus < MaxSurplus
    /\ Request("recv", Job("packet", p), TRUE)
    /\ UNCHANGED pending

\* The client answers a CREATE REQ and the listener delivers the PATH held
\* back.  A PATH with the flags R and D has no message id and no answer.
DeliverAnswer ==
  \E op \in {"ack", "nack"} :
    /\ pending # NoPacket
    /\ pending.rtad # "RD"
    /\ Request("list", Job(op, pending), TRUE)
    /\ pending' = NoPacket

DestroyRequest ==
  Request("list", Job("destroy", NoPacket), FALSE) /\ UNCHANGED pending

\* report_paths, and get_path_state(char*) on the connection.
Report == Request("main", NoJob, TRUE) /\ UNCHANGED pending

ReportDone ==
  /\ At("main", "in")
  /\ Leave("main", "idle")
  /\ Out(<<>>, <<>>)
  /\ UNCHANGED <<path, kernel, surplus, loop, other, pending, status>>

-----------------------------------------------------------------------------
(***************************************************************************)
(* The forwarding tables of the kernel (mpls_ioctl, ip_route).             *)
(***************************************************************************)
WithInLabel(l)    == IF MplsLinux THEN in_labels \cup {l} ELSE in_labels

WithoutInLabel(l) == IF MplsLinux THEN in_labels \ {l} ELSE in_labels

WithoutOutLabel(k) == IF MplsLinux THEN out_keys \ {k} ELSE out_keys

\* The key the kernel gives a new label; 0 without MPLS, and when it has none.
NewKeys ==
  IF MplsLinux /\ Keys \ out_keys # {} THEN Keys \ out_keys ELSE {0}

\* Deleting the route of an address that was never set may hit any route.
DeleteRoute ==
  IF dest_address = "uninit"
  THEN routes' \in {routes} \cup {routes \ {r} : r \in routes}
  ELSE routes' = routes \ {dest_address}

-----------------------------------------------------------------------------
(***************************************************************************)
(* get_packet, for a packet of the router (op "packet") or for a PATH the  *)
(* client has confirmed ("ack") or refused ("nack").                       *)
(***************************************************************************)
\* Mutant of check_if_packet_valid: messages are accepted after DOWN.
ValidWhenDown(m) ==
  /\ path_direction = "OUTGOING" =>
       m \notin {"PATH", "RESVERR", "PATHTEAR", "RESVCONF"}
  /\ path_direction = "INCOMING" => m \notin {"RESV", "PATHERR", "RESVTEAR"}
  /\ path_direction = "UNDEFINED" => m = "PATH"
  /\ path_state = "PATH_SENT" => m \in {"RESV", "PATHERR"}

check_if_packet_valid(m) ==
  /\ path_direction = "OUTGOING" =>
       m \notin {"PATH", "RESVERR", "PATHTEAR", "RESVCONF"}
  /\ path_direction = "INCOMING" => m \notin {"RESV", "PATHERR", "RESVTEAR"}
  /\ path_direction = "UNDEFINED" => m = "PATH"
  /\ path_state \in {"NULL", "DOWN"} => m \in {"PATH", "PATHERR"}
  /\ path_state = "PATH_SENT" => m \in {"RESV", "PATHERR"}

\* respond_ackreq: only the router's own messages are acknowledged.
Ack(t) == IF job[t].op = "packet" /\ AckRequested THEN <<"ACK">> ELSE <<>>

GetPacket(t) == At(t, "in") /\ job[t].op \in {"packet", "ack", "nack"}

\* Mutant of Ignore: the early return forgets signal_plus.
IgnoreInside(t) ==
  /\ GetPacket(t)
  /\ \/ ~check_if_packet_valid(job[t].pkt.type)
     \/ job[t].pkt.type \in {"RESVCONF", "OTHER"}
  /\ LeaveAdding(t, "idle", 0)
  /\ Out(Ack(t), <<>>)
  /\ UNCHANGED <<path, kernel, surplus, loop, other, pending, status>>

\* Discarded, or one of the messages the switch does nothing for.
Ignore(t) ==
  /\ GetPacket(t)
  /\ \/ ~check_if_packet_valid(job[t].pkt.type)
     \/ job[t].pkt.type \in {"RESVCONF", "OTHER"}
  /\ Leave(t, "idle")
  /\ Out(Ack(t), <<>>)
  /\ UNCHANGED <<path, kernel, surplus, loop, other, pending, status>>

Serve(t, m) ==
  GetPacket(t) /\ job[t].pkt.type = m /\ check_if_packet_valid(m)

\* The first PATH: the client is asked whether it wants the path ...
AskClient(t) ==
  /\ Serve(t, "PATH")
  /\ job[t].op = "packet" /\ path_state = "NULL"
  /\ path_direction' = "INCOMING"
  /\ path_state' = "PATH_RECV"
  /\ pending' = job[t].pkt
  /\ Leave(t, "idle")
  /\ Out(Ack(t), <<"PATH">>)
  /\ UNCHANGED <<label, key, dest_address, upstream, kernel, surplus, loop,
                 other, status>>

\* ... unless ask_interface fails: no client, or its table is full.
Accepted(t) ==
  \/ job[t].op = "ack"
  \/ job[t].op = "packet" /\ path_state = "UP"
  \/ job[t].op = "packet" /\ path_state = "NULL" /\ ~Translator

Refused(t) ==
  \/ job[t].op = "nack"
  \/ job[t].op = "packet" /\ path_state \notin {"NULL", "UP"}
  \/ job[t].op = "packet" /\ path_state = "NULL" /\ Translator

\* respond_path takes a label for the path when it has none.
NextLabelId == IF label = 0 THEN (label_id + 1) % LabelIdRange ELSE label_id
OwnLabel    == IF label = 0 THEN NextLabelId ELSE label

\* What a handler reads from a message without looking whether it is there.
Reads(t) ==
  CASE Serve(t, "PATH") /\ Accepted(t) -> {"hop", "sender"}
    [] Serve(t, "PATH") /\ Refused(t)  -> {"sender"}
    [] Serve(t, "RESV") /\ job[t].pkt.rtad = "RD" -> {"sender"}
    [] Serve(t, "RESV") /\ job[t].pkt.rtad = "none" /\ path_state # "UP" ->
         {"hop", "label"}
    [] OTHER -> {}

Complete(t) == job[t].pkt.lacks \notin Reads(t)

\* A handler that does not find what it reads follows a null pointer and ends
\* the process, before it has sent anything but the acknowledgement.
ReadsAbsent(t) ==
  /\ GetPacket(t) /\ ~Complete(t)
  /\ IF job[t].pkt.type = "PATH"
     THEN path_direction' = "INCOMING" /\ path_state' = "PATH_RECV"
     ELSE UNCHANGED <<path_direction, path_state>>
  /\ status' = "crashed"
  /\ Out(Ack(t), <<>>)
  /\ UNCHANGED <<label, key, dest_address, upstream, kernel, sema, loop, pc,
                 job, reg, pending>>

respond_path(t) ==
  /\ Serve(t, "PATH") /\ Accepted(t) /\ Complete(t)
  /\ job[t].pkt.rtad # "RD"
  /\ path_direction' = "INCOMING"
  /\ label' = IF job[t].pkt.lab # 0 THEN job[t].pkt.lab ELSE OwnLabel
  /\ label_id' = NextLabelId
  /\ upstream' = (job[t].pkt.lab # 0)
  /\ in_labels' = WithInLabel(label')
  /\ path_state' = "UP"
  /\ Leave(t, "idle")
  /\ Out(Append(Ack(t), "RESV"), <<>>)
  /\ UNCHANGED <<key, dest_address, out_keys, routes, surplus, loop, other,
                 pending, status>>

\* respond_path of a PATH with the flags R and D.  IETF: answer and keep the
\* state, the router is expected to follow up with PATHTEAR.
PathErr_RD_flags_response(t) ==
  /\ Serve(t, "PATH") /\ Accepted(t) /\ Complete(t)
  /\ job[t].pkt.rtad = "RD"
  /\ path_direction' = "INCOMING"
  /\ label_id' = NextLabelId
  /\ IF ProtocolVers = "IETF_RSVP"
     THEN /\ label' = OwnLabel
          /\ path_state' = "PATH_RECV"
          /\ UNCHANGED <<key, in_labels>>
          /\ Out(Append(Ack(t), "RESV_D"), <<>>)
     ELSE /\ in_labels' = WithoutInLabel(OwnLabel)
          /\ label' = 0 /\ key' = 0
          /\ path_state' = "DOWN"
          /\ Out(Append(Ack(t), "PATHERR"), <<"PATHTEAR">>)
  /\ Leave(t, "idle")
  /\ UNCHANGED <<dest_address, upstream, out_keys, routes, surplus, loop,
                 other, pending, status>>

respond_path_nack(t) ==
  /\ Serve(t, "PATH") /\ Refused(t) /\ Complete(t)
  /\ path_direction' = "INCOMING"
  /\ upstream' = (job[t].pkt.lab # 0)
  /\ path_state' = "DOWN"
  /\ Leave(t, "idle")
  /\ Out(Append(Ack(t), "PATHERR"), <<>>)
  /\ UNCHANGED <<label, key, dest_address, kernel, surplus, loop, other,
                 pending, status>>

\* Mutant of RespondResvBegin: no return when the path is up.
RespondResvEachTime(t) ==
  /\ Serve(t, "RESV") /\ Complete(t)
  /\ job[t].pkt.rtad = "none"
  /\ path_state' = "RESV_RECV"
  /\ Goto(t, "resvup")
  /\ Out(Ack(t), <<>>)
  /\ UNCHANGED <<path_direction, label, key, dest_address, upstream, kernel,
                 sema, loop, job, reg, pending, status>>

\* RESV of the router: RESV_RECV, then the forwarding tables, then UP.  Both
\* states are visible to the refresh thread, which reads without access.
RespondResvBegin(t) ==
  /\ Serve(t, "RESV")
  /\ job[t].pkt.rtad = "none"
  /\ path_state # "UP" /\ Complete(t)
  /\ path_state' = "RESV_RECV"
  /\ Goto(t, "resvup")
  /\ Out(Ack(t), <<>>)
  /\ UNCHANGED <<path_direction, label, key, dest_address, upstream, kernel,
                 sema, loop, job, reg, pending, status>>

RespondResvEnd(t) ==
  /\ At(t, "resvup")
  /\ label' = job[t].pkt.lab
  /\ key' \in NewKeys
  /\ out_keys' = out_keys \cup ({key'} \ {0})
  /\ routes' = routes \cup {dest_address}
  /\ path_state' = "UP"
  /\ Leave(t, "idle")
  /\ Out(IF ProtocolVers = "IETF_RSVP" THEN <<>> ELSE <<"RESVCONF">>,
         <<"RESV">>)
  /\ UNCHANGED <<path_direction, dest_address, upstream, in_labels, label_id,
                 surplus, loop, other, pending, status>>

RespondResvAgain(t) ==
  /\ Serve(t, "RESV")
  /\ job[t].pkt.rtad = "none"
  /\ path_state = "UP"
  /\ Leave(t, "idle")
  /\ Out(Ack(t), <<"RESV">>)
  /\ UNCHANGED <<path, kernel, surplus, loop, other, pending, status>>

\* RESV with the flags R and D.  IETF: RC_LSP_SWITCHING_TYPE is read from the
\* configuration of a RESV, which has none, and a null pointer followed.
PathTear_RD_flags_response(t) ==
  /\ Serve(t, "RESV") /\ Complete(t)
  /\ job[t].pkt.rtad = "RD"
  /\ IF ProtocolVers = "IETF_RSVP"
     THEN /\ status' = "crashed"
          /\ Out(Ack(t), <<>>)
          /\ UNCHANGED <<label, key, in_labels, path_state, pc, job, access,
                         reg_holder>>
     ELSE /\ in_labels' = WithoutInLabel(label)
          /\ label' = 0 /\ key' = 0
          /\ path_state' = "DOWN"
          /\ Leave(t, "idle")
          /\ Out(Append(Ack(t), "PATHTEAR"), <<"RESVTEAR", "RESV">>)
          /\ UNCHANGED status
  /\ UNCHANGED <<path_direction, dest_address, upstream, out_keys, routes,
                 label_id, surplus, loop, other, pending>>

\* RESV with the flag D alone; after the sleep, signal_plus runs twice.
RespondResvDelete(t) ==
  /\ Serve(t, "RESV")
  /\ job[t].pkt.rtad = "D"
  /\ DeleteRoute
  /\ Goto(t, "dsleep")
  /\ Out(Append(Ack(t), "PATHTEAR"), <<>>)
  /\ UNCHANGED <<path, in_labels, out_keys, label_id, sema, loop, job, reg,
                 pending, status>>

RespondResvDeleted(t) ==
  /\ At(t, "dsleep")
  /\ out_keys' = WithoutOutLabel(key)
  /\ label' = 0 /\ key' = 0
  /\ dest_address' = "zero"
  /\ path_state' = "DOWN"
  /\ LeaveAdding(t, "idle", 2)
  /\ surplus' = surplus + 1
  /\ Out(<<>>, <<"RESV">>)
  /\ UNCHANGED <<path_direction, upstream, in_labels, routes, label_id, loop,
                 other, pending, status>>

\* The messages that end a path: respond_patherr, respond_resverr,
\* respond_pathtear and respond_resvtear.
RespondEnd(t) ==
  \E m \in {"PATHERR", "RESVERR", "PATHTEAR", "RESVTEAR"} :
    /\ Serve(t, m)
    /\ path_state' = "DOWN"
    /\ label' = 0
    /\ key' = IF m = "RESVERR" THEN key ELSE 0
    /\ in_labels' = IF m = "PATHTEAR" \/ (m = "PATHERR" /\ label # 0)
                    THEN WithoutInLabel(label) ELSE in_labels
    /\ out_keys' = IF m = "RESVTEAR" THEN WithoutOutLabel(key) ELSE out_keys
    /\ Leave(t, "idle")
    /\ Out(Ack(t), <<m>>)
    /\ UNCHANGED <<path_direction, dest_address, upstream, routes, label_id,
                   surplus, loop, other, pending, status>>

-----------------------------------------------------------------------------
(***************************************************************************)
(* create_path and destroy_path, called by the listener for the client.    *)
(***************************************************************************)
CreatePathBegin ==
  /\ At("list", "in") /\ job["list"].op = "create"
  /\ path_direction' = "OUTGOING"
  /\ path_state' = "INITIATED"
  /\ dest_address' = "TR_D"
  /\ Goto("list", "csent")
  /\ Out(<<>>, <<>>)
  /\ UNCHANGED <<label, key, upstream, kernel, sema, loop, job, reg, pending,
                 status>>

CreatePathEnd ==
  /\ At("list", "csent")
  /\ path_state' = "PATH_SENT"
  /\ Leave("list", "idle")
  /\ Out(<<"PATH">>, <<>>)
  /\ UNCHANGED <<path_direction, label, key, dest_address, upstream, kernel,
                 surplus, loop, other, pending, status>>

DestroyPath == At("list", "in") /\ job["list"].op = "destroy"

\* Only asks the router to end the path; the state stays what it is.
DestroyByFlags ==
  /\ DestroyPath
  /\ path_direction # "UNDEFINED"
  /\ ProtocolVers = "IETF_RSVP" => upstream
  /\ Leave("list", "idle")
  /\ Out(IF path_direction = "OUTGOING" THEN <<"PATH_RD">> ELSE <<"RESV_RD">>,
         <<>>)
  /\ UNCHANGED <<path, kernel, surplus, loop, other, pending, status>>

DestroyLocallyBegin ==
  /\ DestroyPath
  /\ path_direction # "UNDEFINED"
  /\ ProtocolVers = "IETF_RSVP" /\ ~upstream
  /\ path_state' = "PATHTEAR_SENT"
  /\ DeleteRoute
  /\ Goto("list", "tsleep")
  /\ Out(IF path_direction = "OUTGOING" THEN <<"PATHTEAR">>
         ELSE <<"RESVTEAR">>, <<>>)
  /\ UNCHANGED <<path_direction, label, key, dest_address, upstream,
                 in_labels, out_keys, label_id, sema, loop, job, reg,
                 pending, status>>

\* Mutant of DestroyLocallyEnd: signal_plus twice, as in respond_resv.
DestroyLocallyEndTwice ==
  /\ At("list", "tsleep")
  /\ out_keys' = WithoutOutLabel(key)
  /\ label' = 0 /\ key' = 0
  /\ dest_address' = "zero"
  /\ path_state' = "DOWN"
  /\ LeaveAdding("list", "idle", 2)
  /\ Out(<<>>, <<>>)
  /\ UNCHANGED <<path_direction, upstream, in_labels, routes, label_id,
                 surplus, loop, other, pending, status>>

DestroyLocallyEnd ==
  /\ At("list", "tsleep")
  /\ out_keys' = WithoutOutLabel(key)
  /\ label' = 0 /\ key' = 0
  /\ dest_address' = "zero"
  /\ path_state' = "DOWN"
  /\ Leave("list", "idle")
  /\ Out(<<>>, <<>>)
  /\ UNCHANGED <<path_direction, upstream, in_labels, routes, label_id,
                 surplus, loop, other, pending, status>>

\* ERROR_CANNOT_DESTROY
DestroyFails ==
  /\ DestroyPath
  /\ path_direction = "UNDEFINED"
  /\ Leave("list", "idle")
  /\ Out(<<>>, <<>>)
  /\ UNCHANGED <<path, kernel, surplus, loop, other, pending, status>>

-----------------------------------------------------------------------------
(***************************************************************************)
(* refresh_path.  It reads path_state without access, and decides before   *)
(* it waits for access.                                                    *)
(***************************************************************************)
\* get_path_state() = PATH_STATE_DOWN, also read without access.
Torn == path_state \in {"RESVTEAR_RECV", "RESVTEAR_SENT", "PATHTEAR_SENT",
                        "PATHTEAR_RECV", "DOWN"}

\* Mutant of RefreshTop: compares with the wrong state.
RefreshTopOnTear ==
  /\ At("refr", "top")
  /\ IF path_state = "PATHTEAR_RECV"
     THEN refresh_tread_state' = 0 /\ Goto("refr", "scan")
     ELSE UNCHANGED refresh_tread_state /\ Goto("refr", "count")
  /\ Out(<<>>, <<>>)
  /\ UNCHANGED <<path, kernel, sema, till_state_up_count, tick_count, job, reg,
                 pending, status>>

RefreshTop ==
  /\ At("refr", "top")
  /\ IF path_state = "DOWN"
     THEN refresh_tread_state' = 0 /\ Goto("refr", "scan")
     ELSE UNCHANGED refresh_tread_state /\ Goto("refr", "count")
  /\ Out(<<>>, <<>>)
  /\ UNCHANGED <<path, kernel, sema, till_state_up_count, tick_count, job, reg,
                 pending, status>>

\* Mutant of NextCount: counts before PATH is sent only.
NextCountInitiated ==
  IF path_state = "INITIATED" /\ till_state_up_count <= PathSetupTimeout
  THEN till_state_up_count + 1 ELSE till_state_up_count

\* till_state_up_count++ unless the path is up or down; saturates here once
\* past the timeout, where larger values make no difference.
NextCount ==
  IF path_state \notin {"UP", "DOWN"} /\ till_state_up_count <= PathSetupTimeout
  THEN till_state_up_count + 1 ELSE till_state_up_count

\* Path setup timeout, or refresh time (tick_count % refresh_interval), or not.
\* The division by a refresh_interval of zero kills the process.
RefreshCount ==
  /\ At("refr", "count")
  /\ till_state_up_count' = NextCount
  /\ IF NextCount > PathSetupTimeout /\ path_direction = "OUTGOING"
     THEN Goto("refr", "twait") /\ UNCHANGED status
     ELSE IF RefreshInterval = 0
     THEN status' = "crashed" /\ UNCHANGED pc
     ELSE /\ Goto("refr", IF tick_count = 0 THEN "rwait" ELSE "sleep")
          /\ UNCHANGED status
  /\ Out(<<>>, <<>>)
  /\ UNCHANGED <<path, kernel, sema, refresh_tread_state, tick_count, job, reg,
                 pending>>

\* Mutant of SetupTimeout: the client is not told.
SetupTimeoutSilent ==
  /\ At("refr", "tin")
  /\ path_state' = "DOWN"
  /\ refresh_tread_state' = 0
  /\ Leave("refr", "done")
  /\ Out(<<>>, <<>>)
  /\ UNCHANGED <<path_direction, label, key, dest_address, upstream, kernel,
                 surplus, till_state_up_count, tick_count, other, pending,
                 status>>

SetupTimeout ==
  /\ At("refr", "tin")
  /\ path_state' = "DOWN"
  /\ refresh_tread_state' = 0
  /\ Leave("refr", "done")
  /\ Out(<<>>, <<"PATHERR">>)
  /\ UNCHANGED <<path_direction, label, key, dest_address, upstream, kernel,
                 surplus, till_state_up_count, tick_count, other, pending,
                 status>>

\* Mutant of RefreshBegin: does not wait for access.
RefreshBeginUnlocked ==
  /\ status = "live" /\ pc["refr"] \in {"rwait", "rin"}
  /\ path_state = "UP" /\ path_direction = "OUTGOING"
  /\ Goto("refr", "rsend")
  /\ Out(<<>>, <<>>)
  /\ UNCHANGED <<path, kernel, sema, loop, job, reg, pending, status>>

\* A path that is up and outgoing is refreshed; building and sending the PATH
\* takes a while.
RefreshBegin ==
  /\ At("refr", "rin")
  /\ path_state = "UP" /\ path_direction = "OUTGOING"
  /\ Goto("refr", "rsend")
  /\ Out(<<>>, <<>>)
  /\ UNCHANGED <<path, kernel, sema, loop, job, reg, pending, status>>

RefreshSend ==
  /\ At("refr", "rsend")
  /\ Leave("refr", "sleep")
  /\ Out(<<"PATH">>, <<>>)
  /\ UNCHANGED <<path, kernel, surplus, loop, other, pending, status>>

\* Mutants of RefreshSkip: returns instead of going on; keeps access.
RefreshSkipExits ==
  /\ At("refr", "rin")
  /\ ~(path_state = "UP" /\ path_direction = "OUTGOING")
  /\ Leave("refr", "done")
  /\ Out(<<>>, <<>>)
  /\ UNCHANGED <<path, kernel, surplus, loop, other, pending, status>>

RefreshSkipInside ==
  /\ At("refr", "rin")
  /\ ~(path_state = "UP" /\ path_direction = "OUTGOING")
  /\ LeaveAdding("refr", "sleep", 0)
  /\ Out(<<>>, <<>>)
  /\ UNCHANGED <<path, kernel, surplus, loop, other, pending, status>>

RefreshSkip ==
  /\ At("refr", "rin")
  /\ ~(path_state = "UP" /\ path_direction = "OUTGOING")
  /\ Leave("refr", "sleep")
  /\ Out(<<>>, <<>>)
  /\ UNCHANGED <<path, kernel, surplus, loop, other, pending, status>>

RefreshSleep ==
  /\ At("refr", "sleep")
  /\ tick_count' = (tick_count + 1) % RefreshInterval
  /\ Goto("refr", "top")
  /\ Out(<<>>, <<>>)
  /\ UNCHANGED <<path, kernel, sema, refresh_tread_state, till_state_up_count,
                 job, reg, pending, status>>

\* The clean-up scan of an exiting refresh thread reaches this connection: it
\* looks (no lock held) and then deletes.
Reapable == Torn /\ refresh_tread_state = 0

RefreshScan ==
  /\ At("refr", "scan")
  /\ Goto("refr", IF Reapable THEN "delete" ELSE "done")
  /\ Out(<<>>, <<>>)
  /\ UNCHANGED <<path, kernel, sema, loop, job, reg, pending, status>>

OtherScan ==
  /\ status = "live" /\ other = "idle" /\ Reapable
  /\ other' = "delete"
  /\ Out(<<>>, <<>>)
  /\ UNCHANGED <<path, kernel, sema, loop, pc, job, reg_holder, pending,
                 status>>

Delete ==
  /\ status = "live"
  /\ pc["refr"] = "delete" \/ other = "delete"
  /\ status' = "deleted"
  /\ Out(<<>>, <<>>)
  /\ UNCHANGED <<path, kernel, sema, loop, pc, job, reg, pending>>

-----------------------------------------------------------------------------
Caller(t) ==
  \/ Ignore(t) \/ AskClient(t) \/ ReadsAbsent(t)
  \/ respond_path(t) \/ PathErr_RD_flags_response(t) \/ respond_path_nack(t)
  \/ RespondResvBegin(t) \/ RespondResvEnd(t) \/ RespondResvAgain(t)
  \/ PathTear_RD_flags_response(t)
  \/ RespondResvDelete(t) \/ RespondResvDeleted(t)
  \/ RespondEnd(t)

Listener ==
  \/ Caller("list")
  \/ CreatePathBegin \/ CreatePathEnd
  \/ DestroyByFlags \/ DestroyLocallyBegin \/ DestroyLocallyEnd
  \/ DestroyFails

RefreshThread ==
  \/ RefreshTop \/ RefreshCount \/ SetupTimeout
  \/ RefreshBegin \/ RefreshSend \/ RefreshSkip \/ RefreshSleep
  \/ RefreshScan \/ (pc["refr"] = "delete" /\ Delete)

\* The object, or the process, is gone.
Gone == status # "live" /\ UNCHANGED vars

Next ==
  \/ RecvPacket \/ Caller("recv")
  \/ DeliverAnswer \/ DestroyRequest \/ Listener
  \/ Report \/ Interrupted \/ ReportDone
  \/ \E t \in Threads : Enter(t)
  \/ RefreshThread
  \/ OtherScan \/ Delete
  \/ Gone

Spec == Init /\ [][Next]_vars

\* Every thread that can run does; the waiters of a semaphore are queued by the
\* kernel in order of arrival, so none is passed over for ever.  Nothing is
\* assumed of the router, the client, the operator or other connections.
Fairness ==
  /\ WF_vars(Caller("recv")) /\ WF_vars(Listener)
  /\ WF_vars(ReportDone) /\ WF_vars(RefreshThread)
  /\ \A t \in Threads : SF_vars(Enter(t))

FairSpec == Spec /\ Fairness

-----------------------------------------------------------------------------
(***************************************************************************)
(* Properties.                                                             *)
(***************************************************************************)
InsideThreads == {t \in Threads : pc[t] \in Inside}

\* access excludes: as long as no surplus unit was added, at most one thread
\* runs inside get_packet, create_path, destroy_path, the locked parts of
\* refresh_path or get_path_state(char*).
MutualExclusion == surplus = 0 => Cardinality(InsideThreads) <= 1

\* No early return of a handler keeps the semaphore: when nobody is inside,
\* the next caller gets in.
AccessNeverLost == status = "live" /\ InsideThreads = {} => access > 0

\* When nobody is inside and the path counts as up, the forwarding tables hold
\* what the connection believes: the label it receives on, or exactly its own
\* key and its route.
ForwardingMatchesUp ==
  (path_state = "UP" /\ InsideThreads = {} /\ surplus = 0) =>
    IF path_direction = "INCOMING"
    THEN MplsLinux => label \in in_labels
    ELSE /\ routes = {dest_address} /\ dest_address = "TR_D"
         /\ MplsLinux => out_keys = {key}

\* Once a local teardown has zeroed dest_address the route is gone, whatever
\* messages arrive during its sleep or after it.
RouteGoneOnceDestroyed ==
  (path_direction = "OUTGOING" /\ dest_address = "zero" /\ surplus = 0) =>
    routes = {}

\* A PATH refresh is only sent for a path that is up and ours at that moment;
\* a teardown in progress is never overtaken by a refresh.
RefreshOnlyWhileUp ==
  (status = "live" /\ pc["refr"] = "rsend" /\ surplus = 0) =>
    path_state = "UP" /\ path_direction = "OUTGOING"

\* An outgoing path that was torn down is never set up again by a late RESV, a
\* late confirmation or a second request.
OutgoingStaysDown ==
  [][(path_direction = "OUTGOING" /\ Torn /\ surplus' = 0) => Torn']_vars

\* The client hears that its path has ended, whichever thread or message ended
\* it, except by the two steps of its own destroy_path.  It hears PATHERR or
\* RESVTEAR, but RESV when the router deleted the path by a RESV with flag D.
EveryTeardownReported ==
  [][(/\ path_direction = "OUTGOING" /\ ~Torn /\ Torn'
      /\ ~DestroyLocallyBegin /\ ~DestroyLocallyEnd)
     => \E i \in DOMAIN asked' :
          asked'[i] \in IF RespondResvDeleted("recv") THEN {"RESV"}
                        ELSE {"PATHERR", "RESVTEAR"}]_vars

\* A path the client asked for is decided: it comes up or it goes down, even
\* when the router never answers (path_setup_timeout, configuration.h:49: "how
\* long agent is waiting for RSVP RESV").
SetupDecided ==
  (path_state = "PATH_SENT") ~>
    (path_state # "PATH_SENT" \/ status # "live" \/ other = "delete")

\* The refresh thread of an outgoing path that is down and stays down ends, so
\* that the connection can be cleaned up.
TornThreadExits ==
  (path_direction = "OUTGOING" /\ path_state = "DOWN") ~>
    (refresh_tread_state = 0 \/ path_state # "DOWN" \/ status # "live")

\* The router's messages have ended the path before the listener, which made
\* the object, comes to create_path: the refresh thread may end, and create_path
\* sets the path up without it (see SetupDecided).
Overtaken == job["list"].op = "create" /\ path_state = "DOWN"

\* While an outgoing path stays up, PATH is sent again and again (the comment at
\* rsvp_connection.h:104), unless the path was overtaken.
RefreshGoesOn ==
  \/ <>Overtaken
  \/ (path_state = "UP" /\ path_direction = "OUTGOING") ~>
       (pc["refr"] = "rsend" \/ path_state # "UP" \/ status = "deleted")

\* The receiver thread, which serves every connection, is never stuck in one.
ReceiverServed ==
  (pc["recv"] = "wait") ~> (pc["recv"] = "idle" \/ status = "deleted")

\* What rsvp_connection.cpp:1073 and configuration.h:49 say of the timeout: it
\* ends a path that still waits for RESV, so never one that is up.
TimeoutSparesUp ==
  [][(pc["refr"] = "tin" /\ pc["refr"]' # "tin") => path_state # "UP"]_vars

\* What the comment at rsvp_connection.cpp:544 says of a RESV with the flags R
\* and D: "we should delete the path!"
DeleteFlagsEndPath ==
  [][PathTear_RD_flags_response("recv") => path_state' = "DOWN"]_vars

-----------------------------------------------------------------------------
(***************************************************************************)
(* The connection seen as a PathLifecycle.                                 *)
(***************************************************************************)
Role == CASE path_direction = "UNDEFINED" -> "none"
          [] path_direction = "INCOMING"  -> "in"
          [] path_direction = "OUTGOING"  -> "out"

Phase == IF status # "live" \/ Torn THEN "gone"
         ELSE IF path_state = "NULL" THEN "idle"
         ELSE IF path_state = "UP" THEN "up" ELSE "setup"

Lifecycle == INSTANCE PathLifecycle WITH role <- Role, phase <- Phase

\* Every step of the connection is a step of PathLifecycle or a stutter.
StepsAsLifecycle == Lifecycle!Spec

\* The connection implements PathLifecycle; its promise to decide it keeps
\* unless the path was overtaken.
ImplementsLifecycle ==
  Lifecycle!Spec /\ (<>Overtaken \/ Lifecycle!Decides)

=============================================================================
