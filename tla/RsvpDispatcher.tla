----------------------------- MODULE RsvpDispatcher -----------------------------
(***************************************************************************)
(* The table of connections (rsvp_dispatcher::registered_conns) and all    *)
(* that walks it: receiver_thread, the listener of mgmt_interface, the     *)
(* reports of main, and the clean-up every refresh thread runs before it   *)
(* ends.                                                                   *)
(*                                                                         *)
(* Each operation is cut where another thread can come between: at the     *)
(* semaphores registered_conns_access and access, and at each read of the  *)
(* table that is made without the former.  What a handler does to a path   *)
(* is RsvpConnection's; here it moves the state as far as the table can    *)
(* tell.                                                                   *)
(***************************************************************************)
EXTENDS Integers, FiniteSets

CONSTANTS
  Objects,   \* bound: the connection objects that can be created
  Ids,       \* tunnel ids
  Nothing,   \* a NULL pointer
  MAX_REGISTERED_CONNS,  \* the size of registered_conns: 10 in rsvp_dispatcher.h
  MaxRequests  \* bound: messages of the router and the client, and reports

ASSUME DispatcherAssumption ==
  /\ MAX_REGISTERED_CONNS \in Nat
  /\ IsFiniteSet(Objects) /\ Objects # {} /\ Nothing \notin Objects
  /\ {"recv", "list", "main", "free"} \cap Objects = {}
  /\ Nothing \notin Ids
  /\ MaxRequests \in Nat

Users == {"recv", "list", "main"}
Threads == Users \cup Objects      \* a refresh thread is named by its object
Places == 0 .. MAX_REGISTERED_CONNS   \* the last lies behind the array
Entries == [conn : Objects \cup {Nothing}, id : Ids \cup {Nothing}]

VARIABLES
  registered_conns, registered_conns_count, registered_conns_access,
  life,                   \* of an object: allocated or not, and deleted
  connection_id, path_state, path_direction, refresh_tread_state, access,
  pc, op,                 \* of a user: where it is, what it is doing
  wanted,                 \* the tunnel id it does it for
  conn,                   \* the object it holds a pointer to
  x,                      \* index into the table, of a user or a refresh thread
  requests,               \* how many there have been
  refused,                \* history: objects register_connection did not take
  found, behind,          \* history: the entries a clean-up had to remove when
                          \* it began, and those with another just in front
  overlap                 \* history: a clean-up ran while another thread used
                          \* the table or an object, or the table ran over

table == << registered_conns, registered_conns_count >>
object == << life, connection_id, path_direction >>
scans == << found, behind, requests >>
vars == << table, registered_conns_access, object, path_state, refresh_tread_state,
           access, pc, op, wanted, conn, x, refused, scans,
           overlap >>

UserSteps == {"idle", "wait", "construct", "wait to register", "spawn", "fetch", "next",
              "read", "enter", "inside"}
RefreshSteps == {"not started", "loop", "timeout", "signal", "zeroed", "scan", "delete",
                 "unregister", "ended"}
Ops == {"none", "path", "message", "create", "answer", "get", "status",
        "report"}

(* t has a pointer to an object and goes on to use it. *)
Holding(t) == pc[t] \in {"wait to register", "spawn", "read", "enter", "inside"}

TypeOK ==
  /\ registered_conns \in [Places -> Entries]
  /\ registered_conns_count \in Places
  /\ registered_conns_access \in Users \cup {"free"}
  /\ life \in [Objects -> {"none", "live", "deleted"}]
  /\ connection_id \in [Objects -> Ids \cup {Nothing}]
  /\ path_state \in [Objects -> {"null", "setup", "up", "down"}]
  /\ path_direction \in [Objects -> {"undefined", "incoming", "outgoing"}]
  /\ refresh_tread_state \in [Objects -> {0, 1}]
  /\ access \in [Objects -> Threads \cup {"free"}]
  /\ pc \in [Threads -> UserSteps \cup RefreshSteps]
  /\ op \in [Users -> Ops]
  /\ wanted \in [Users -> Ids \cup {Nothing}]
  /\ conn \in [Users -> Objects \cup {Nothing}]
  /\ \A t \in Users : Holding(t) => conn[t] \in Objects
  /\ x \in [Threads -> Places]
  /\ requests \in 0 .. MaxRequests
  /\ refused \subseteq Objects
  /\ found \subseteq Objects /\ behind \subseteq Objects
  /\ overlap \in BOOLEAN

Init ==
  /\ registered_conns = [i \in Places |-> [conn |-> Nothing, id |-> Nothing]]
  /\ registered_conns_count = 0
  /\ registered_conns_access = "free"
  /\ life = [o \in Objects |-> "none"]
  /\ connection_id = [o \in Objects |-> Nothing]
  /\ path_state = [o \in Objects |-> "null"]
  /\ path_direction = [o \in Objects |-> "undefined"]
  /\ refresh_tread_state = [o \in Objects |-> 0]
  /\ access = [o \in Objects |-> "free"]
  /\ pc = [t \in Threads |-> IF t \in Users THEN "idle" ELSE "not started"]
  /\ op = [t \in Users |-> "none"]
  /\ wanted = [t \in Users |-> Nothing]
  /\ conn = [t \in Users |-> Nothing]
  /\ x = [t \in Threads |-> 0]
  /\ requests = 0 /\ refused = {} /\ found = {} /\ behind = {} /\ overlap = FALSE

-----------------------------------------------------------------------------
(* Reading and changing the table.                                         *)

Listed == 0 .. registered_conns_count - 1
Matches(i) == {k \in Listed : registered_conns[k].id = i}
Least(S) == CHOOSE k \in S : \A j \in S : k <= j
Greatest(S) == CHOOSE k \in S : \A j \in S : j <= k
To(t, step) == pc' = [pc EXCEPT ![t] = step]

(* A user is done: its locals are gone. *)
Return(t) ==
  /\ To(t, "idle")
  /\ op' = [op EXCEPT ![t] = "none"]
  /\ wanted' = [wanted EXCEPT ![t] = Nothing]
  /\ conn' = [conn EXCEPT ![t] = Nothing]
  /\ x' = [x EXCEPT ![t] = 0]

(* Mutant: whether the refresh thread has ended is not asked. *)
FinishedByState(o) == path_state[o] = "down"

(* An object the clean-up removes, as it tells it. *)
Finished(o) == path_state[o] = "down" /\ refresh_tread_state[o] = 0

(* Mutant: an id that is in the table gets the new object. *)
RegisterReplacing(t) ==
  /\ pc[t] = "wait to register" /\ To(t, "spawn")
  /\ registered_conns_access = "free"
  /\ LET m == Matches(wanted[t])
         k == IF m = {} THEN registered_conns_count ELSE Least(m) IN
     /\ registered_conns' =
          [registered_conns EXCEPT ![k] = [conn |-> conn[t], id |-> wanted[t]]]
     /\ registered_conns_count' = registered_conns_count + IF m = {} THEN 1 ELSE 0
  /\ UNCHANGED << registered_conns_access, object, path_state, refresh_tread_state, access,
                  op, wanted, conn, x, refused, scans >>

(* register_connection, under the semaphore: an id that is in the table is *)
(* refused, and nobody looks at the result.                                *)
Register(t) ==
  /\ pc[t] = "wait to register" /\ To(t, "spawn")
  /\ registered_conns_access = "free"
  /\ IF Matches(wanted[t]) # {}
     THEN refused' = refused \cup {conn[t]} /\ UNCHANGED table
     ELSE /\ registered_conns_count < MAX_REGISTERED_CONNS
          /\ registered_conns' =
               [registered_conns EXCEPT ![registered_conns_count] =
                 [conn |-> conn[t], id |-> wanted[t]]]
          /\ registered_conns_count' = registered_conns_count + 1
          /\ UNCHANGED refused
  /\ UNCHANGED << registered_conns_access, object, path_state, refresh_tread_state, access,
                  op, wanted, conn, x, scans >>

(* One entry too many is written behind the array, over what lies there.   *)
RegisterBehind(t) ==
  /\ pc[t] = "wait to register" /\ To(t, "spawn")
  /\ registered_conns_access = "free"
  /\ Matches(wanted[t]) = {} /\ registered_conns_count = MAX_REGISTERED_CONNS
  /\ ~ overlap /\ overlap' = TRUE
  /\ UNCHANGED << table, registered_conns_access, object, path_state, refresh_tread_state,
                  access, op, wanted, conn, x, refused, scans >>

-----------------------------------------------------------------------------
(* receiver_thread, the listener and main.                                 *)

(* receiver_thread has a packet with a tunnel id, a PATH or another.  The  *)
(* listener has a CREATE REQ, a CREATE ACK or NACK ("answer"), a DELETE    *)
(* REQ ("get"), or one of the two look-ups of a STATUS REQ ("status").     *)
(* main reports.                                                           *)
Begin(t) ==
  /\ pc[t] = "idle"
  /\ requests < MaxRequests /\ requests' = requests + 1
  /\ \E o \in CASE t = "recv" -> {"path", "message"}
                [] t = "list" -> {"create", "answer", "get", "status"}
                [] OTHER -> {"report"} :
       /\ op' = [op EXCEPT ![t] = o]
       /\ To(t, IF o = "create" THEN "construct" ELSE "wait")
       /\ IF o = "report" THEN UNCHANGED wanted
          ELSE \E i \in Ids : wanted' = [wanted EXCEPT ![t] = i]
  /\ UNCHANGED << table, registered_conns_access, object, path_state,
                  refresh_tread_state, access, conn, x, refused, found,
                  behind >>

(* receiver_thread takes the last match, deliver the first; both keep the  *)
(* semaphore while the object handles the message.                         *)
Look(t) ==
  /\ pc[t] = "wait" /\ op[t] \in {"path", "message", "answer"} /\ To(t, "enter")
  /\ registered_conns_access = "free" /\ registered_conns_access' = t
  /\ LET m == Matches(wanted[t]) IN
     /\ m # {}
     /\ conn' = [conn EXCEPT ![t] =
          registered_conns[IF t = "recv" THEN Greatest(m) ELSE Least(m)].conn]
  /\ UNCHANGED << table, object, path_state, refresh_tread_state, access, op, wanted, x,
                  refused, scans >>

(* Nobody has the id: a PATH gets a new object, others are lost. *)
NotFound(t) ==
  /\ pc[t] = "wait" /\ op[t] # "report" /\ Matches(wanted[t]) = {}
  /\ registered_conns_access = "free"
  /\ IF op[t] = "path" THEN To(t, "construct") /\ UNCHANGED << op, wanted, conn, x >>
                       ELSE Return(t)
  /\ UNCHANGED << table, registered_conns_access, object, path_state,
                  refresh_tread_state, access, refused, scans >>

(* get_connection, get_connection_state, get_connection_configuration:     *)
(* find the index, give the semaphore back, *)
Find(t) ==
  /\ pc[t] = "wait" /\ op[t] \in {"get", "status"} /\ To(t, "fetch")
  /\ registered_conns_access = "free"
  /\ LET m == Matches(wanted[t]) IN m # {} /\ x' = [x EXCEPT ![t] = Least(m)]
  /\ UNCHANGED << table, registered_conns_access, object, path_state,
                  refresh_tread_state, access, op, wanted, conn, refused, scans >>

(* Mutant: the index is one too high. *)
FetchNext(t) ==
  /\ pc[t] = "fetch" /\ To(t, IF op[t] = "status" THEN "read" ELSE "enter")
  /\ conn' = [conn EXCEPT ![t] = registered_conns[x[t] + 1].conn]
  /\ x' = [x EXCEPT ![t] = 0]
  /\ UNCHANGED << table, registered_conns_access, object, path_state,
                  refresh_tread_state, access, op, wanted, refused, scans >>

(* and read the entry. *)
Fetch(t) ==
  /\ pc[t] = "fetch" /\ To(t, IF op[t] = "status" THEN "read" ELSE "enter")
  /\ conn' = [conn EXCEPT ![t] = registered_conns[x[t]].conn]
  /\ x' = [x EXCEPT ![t] = 0]
  /\ UNCHANGED << table, registered_conns_access, object, path_state,
                  refresh_tread_state, access, op, wanted, refused, scans >>

(* get_path_state() and the copy of path_configuration do not wait for     *)
(* access. *)
ReadStatus(t) ==
  /\ pc[t] = "read" /\ Return(t)
  /\ UNCHANGED << table, registered_conns_access, object, path_state,
                  refresh_tread_state, access, refused, scans >>

(* report_paths asks one object after the other for its state. *)
Report ==
  /\ pc["main"] = "wait" /\ To("main", "next")
  /\ registered_conns_access = "free" /\ registered_conns_access' = "main"
  /\ UNCHANGED << table, object, path_state, refresh_tread_state, access, op, wanted,
                  conn, x, refused, scans >>

ReportNext ==
  /\ pc["main"] = "next" /\ x["main"] \in Listed /\ To("main", "enter")
  /\ conn' = [conn EXCEPT !["main"] = registered_conns[x["main"]].conn]
  /\ UNCHANGED << table, registered_conns_access, object, path_state,
                  refresh_tread_state, access, op, wanted, x, refused, scans >>

(* Mutant: the return for an empty table keeps the semaphore. *)
ReportDoneIfAny ==
  /\ pc["main"] = "next" /\ x["main"] \notin Listed /\ Return("main")
  /\ registered_conns_access' = IF registered_conns_count = 0 THEN "main" ELSE "free"
  /\ UNCHANGED << table, object, path_state, refresh_tread_state, access, refused, scans >>

ReportDone ==
  /\ pc["main"] = "next" /\ x["main"] \notin Listed /\ Return("main")
  /\ registered_conns_access' = "free"
  /\ UNCHANGED << table, object, path_state, refresh_tread_state, access, refused, scans >>

(* The constructor of rsvp_connection up to register_connection; nothing   *)
(* sets refresh_tread_state before that. *)
Construct(t) ==
  /\ pc[t] = "construct" /\ To(t, "wait to register")
  /\ \E o \in Objects : life[o] = "none"
  /\ LET o == CHOOSE o \in Objects : life[o] = "none" IN
       /\ life' = [life EXCEPT ![o] = "live"]
       /\ connection_id' = [connection_id EXCEPT ![o] = wanted[t]]
       /\ conn' = [conn EXCEPT ![t] = o]
       /\ \E b \in {0, 1} : refresh_tread_state' = [refresh_tread_state EXCEPT ![o] = b]
  /\ UNCHANGED << table, registered_conns_access, path_direction, path_state, access, op,
                  wanted, x, refused, scans >>

(* The rest of create_refresh_thread. *)
Spawn(t) ==
  /\ pc[t] = "spawn"
  /\ refresh_tread_state' = [refresh_tread_state EXCEPT ![conn[t]] = 1]
  /\ pc' = [pc EXCEPT ![t] = "enter", ![conn[t]] = "loop"]
  /\ UNCHANGED << table, registered_conns_access, object, path_state, access, op, wanted,
                  conn, x, refused, scans >>

(* access.wait() of the object *)
Enter(t) ==
  /\ pc[t] = "enter" /\ To(t, "inside")
  /\ access[conn[t]] = "free" /\ access' = [access EXCEPT ![conn[t]] = t]
  /\ UNCHANGED << table, registered_conns_access, object, path_state,
                  refresh_tread_state, op, wanted, conn, x, refused, scans >>

-----------------------------------------------------------------------------
(* What the object does then: direction d and state s afterwards.          *)

(* create_path *)
Created(o, d, s) == d = "outgoing" /\ s = "setup"

(* destroy_path with tear-down, or with a message that asks for it *)
Destroyed(o, d, s) ==
  /\ d = path_direction[o]
  /\ s \in {path_state[o]} \cup IF d = "undefined" THEN {} ELSE {"down"}

(* get_packet of a packet from the router; a PATH with R and D is set up   *)
(* again under IETF_RSVP *)
Received(o, message, d, s) ==
  \/ /\ message = "path" /\ path_direction[o] = "undefined"
     /\ d = "incoming" /\ s \in {"setup", "up", "down"}
  \/ /\ message = "path" /\ path_direction[o] = "incoming"
     /\ d = "incoming"
     /\ s \in {"down"} \cup IF path_state[o] = "up" THEN {"up", "setup"} ELSE {}
  \/ /\ message = "path" /\ path_direction[o] = "outgoing"
     /\ d = path_direction[o] /\ s = path_state[o]
  \/ /\ message = "message" /\ d = path_direction[o]
     /\ s \in {path_state[o]}
              \cup (IF d = "undefined" THEN {} ELSE {"down"})
              \cup (IF d = "outgoing" /\ path_state[o] = "setup" THEN {"up"} ELSE {})

(* get_packet of the client's answer to a PATH *)
Answered(o, d, s) ==
  \/ /\ path_direction[o] = "outgoing"
     /\ d = path_direction[o] /\ s = path_state[o]
  \/ /\ path_direction[o] # "outgoing" /\ d = "incoming" /\ s \in {"setup", "up", "down"}

Handled(t, d, s) ==
  LET o == conn[t] IN
  CASE op[t] = "create"               -> Created(o, d, s)
    [] op[t] = "get"                  -> Destroyed(o, d, s)
    [] op[t] \in {"path", "message"}  -> Received(o, op[t], d, s)
    [] op[t] = "answer"               -> Answered(o, d, s)
    [] OTHER                          -> d = path_direction[o] /\ s = path_state[o]

(* The handler returns, and so does its caller. *)
Leave(t) ==
  /\ pc[t] = "inside"
  /\ \E d \in {"undefined", "incoming", "outgoing"}, s \in {"null", "setup", "up", "down"} :
       /\ Handled(t, d, s)
       /\ path_direction' = [path_direction EXCEPT ![conn[t]] = d]
       /\ path_state' = [path_state EXCEPT ![conn[t]] = s]
  /\ access' = [access EXCEPT ![conn[t]] = "free"]
  /\ IF op[t] = "report"
     THEN /\ To(t, "next")
          /\ x' = [x EXCEPT ![t] = x[t] + 1]
          /\ UNCHANGED << registered_conns_access, op, wanted, conn >>
     ELSE /\ Return(t)
          /\ registered_conns_access' =
               IF registered_conns_access = t THEN "free" ELSE registered_conns_access
  /\ UNCHANGED << table, life, connection_id, refresh_tread_state, refused, scans >>

-----------------------------------------------------------------------------
(* rsvp_connection::refresh_path; what it sends again is RsvpConnection's. *)

TimeoutBegins(o) ==
  /\ pc[o] = "loop" /\ To(o, "timeout")
  /\ path_direction[o] = "outgoing" /\ path_state[o] \notin {"up", "down"}
  /\ UNCHANGED << table, registered_conns_access, object, path_state,
                  refresh_tread_state, access, op, wanted, conn, x, refused, scans >>

TimesOut(o) ==
  /\ pc[o] = "timeout" /\ To(o, "signal")
  /\ access[o] = "free" /\ access' = [access EXCEPT ![o] = o]
  /\ path_state' = [path_state EXCEPT ![o] = "down"]
  /\ refresh_tread_state' = [refresh_tread_state EXCEPT ![o] = 0]
  /\ UNCHANGED << table, registered_conns_access, object, op, wanted, conn, x, refused,
                  scans >>

(* After the timeout the thread ends without a clean-up. *)
TimeoutEnds(o) ==
  /\ pc[o] = "signal" /\ To(o, "ended")
  /\ access' = [access EXCEPT ![o] = "free"]
  /\ UNCHANGED << table, registered_conns_access, object, path_state,
                  refresh_tread_state, op, wanted, conn, x, refused, scans >>

SeesDown(o) ==
  /\ pc[o] = "loop" /\ path_state[o] = "down" /\ To(o, "zeroed")
  /\ refresh_tread_state' = [refresh_tread_state EXCEPT ![o] = 0]
  /\ UNCHANGED << table, registered_conns_access, object, path_state, access, op,
                  wanted, conn, x, refused, scans >>

ScanBegins(o) ==
  /\ pc[o] = "zeroed" /\ To(o, "scan")
  /\ x' = [x EXCEPT ![o] = 0]
  /\ LET due == {k \in Listed : Finished(registered_conns[k].conn)} IN
     /\ found' = {registered_conns[k].conn : k \in due}
     /\ behind' = {registered_conns[k].conn : k \in {j \in due : j - 1 \in due}}
  /\ UNCHANGED << table, registered_conns_access, object, path_state,
                  refresh_tread_state, access, op, wanted, conn, refused,
                  requests >>

(* Mutant: the loop stops before the last entry. *)
ScanEndsEarly(o) ==
  /\ pc[o] = "scan" /\ x[o] >= registered_conns_count - 1 /\ To(o, "ended")
  /\ UNCHANGED << table, registered_conns_access, object, path_state,
                  refresh_tread_state, access, op, wanted, conn, x, refused, scans >>

ScanEnds(o) ==
  /\ pc[o] = "scan" /\ x[o] >= registered_conns_count /\ To(o, "ended")
  /\ UNCHANGED << table, registered_conns_access, object, path_state,
                  refresh_tread_state, access, op, wanted, conn, x, refused, scans >>

ScanTests(o) ==
  /\ pc[o] = "scan" /\ x[o] < registered_conns_count
  /\ IF Finished(registered_conns[x[o]].conn)
     THEN To(o, "delete") /\ UNCHANGED x
     ELSE x' = [x EXCEPT ![o] = x[o] + 1] /\ UNCHANGED pc
  /\ UNCHANGED << table, registered_conns_access, object, path_state,
                  refresh_tread_state, access, op, wanted, conn, refused, scans >>

(* delete registered_conns[x].conn *)
ScanDeletes(o) ==
  /\ pc[o] = "delete" /\ To(o, "unregister")
  /\ life' = [life EXCEPT ![registered_conns[x[o]].conn] = "deleted"]
  /\ UNCHANGED << table, registered_conns_access, connection_id, path_direction,
                  path_state, refresh_tread_state, access, op, wanted, conn, x,
                  refused, scans >>

(* Mutant: the loop that moves the entries starts one too late. *)
UnregisterNext(pos) ==
  /\ registered_conns' =
       [k \in Places |-> IF k > pos /\ k + 1 \in Listed THEN registered_conns[k + 1]
                                                        ELSE registered_conns[k]]
  /\ registered_conns_count' = registered_conns_count - 1

(* Mutant: the last entry goes without its place. *)
UnregisterKeepsCount(pos) ==
  IF pos \notin Listed
  THEN UNCHANGED table
  ELSE /\ registered_conns' =
            [k \in Places |-> IF k >= pos /\ k + 1 \in Listed THEN registered_conns[k + 1]
                                                              ELSE registered_conns[k]]
       /\ registered_conns_count' =
            registered_conns_count - IF pos = registered_conns_count - 1 THEN 0 ELSE 1

unregister_connection(pos) ==
  IF pos \notin Listed
  THEN UNCHANGED table
  ELSE /\ registered_conns' =
            [k \in Places |-> IF k >= pos /\ k + 1 \in Listed THEN registered_conns[k + 1]
                                                              ELSE registered_conns[k]]
       /\ registered_conns_count' = registered_conns_count - 1

(* The loop then goes on with x + 1. *)
ScanUnregisters(o) ==
  /\ pc[o] = "unregister" /\ To(o, "scan")
  /\ unregister_connection(x[o])
  /\ x' = [x EXCEPT ![o] = x[o] + 1]
  /\ UNCHANGED << registered_conns_access, object, path_state, refresh_tread_state,
                  access, op, wanted, conn, refused, scans >>

-----------------------------------------------------------------------------

Scanning(o) == pc[o] \in {"scan", "delete", "unregister"}

(* t is between the first and the last use of the table or of an object    *)
(* whose deletion would matter to it. *)
Using(t) ==
  IF t \in Users
  THEN pc[t] \in {"spawn", "fetch", "next", "read", "enter", "inside"}
  ELSE Scanning(t) \/ pc[t] \in {"zeroed", "signal"}

Overlapping == \E o \in Objects, t \in Threads : t # o /\ Scanning(o) /\ Using(t)

(* One that looks into the table while a clean-up runs. *)
Intruding ==
  /\ \E o \in Objects : Scanning(o)
  /\ \E t \in Users : pc[t] \in {"wait", "wait to register"} /\ pc'[t] # pc[t]

UserStep(t) ==
  \/ Look(t) \/ NotFound(t) \/ Find(t) \/ Fetch(t) \/ ReadStatus(t)
  \/ Construct(t) \/ Register(t) \/ Spawn(t) \/ Leave(t)
  \/ t = "main" /\ (Report \/ ReportNext \/ ReportDone)

Scan(o) ==
  ScanBegins(o) \/ ScanEnds(o) \/ ScanTests(o) \/ ScanDeletes(o) \/ ScanUnregisters(o)
Timeout(o) == TimesOut(o) \/ TimeoutEnds(o)

(* Where a clean-up has met another user, or an entry went behind the      *)
(* array (RegisterBehind), the program may go on anyhow: nothing is said   *)
(* of it from there.                                                       *)
Note == ~ overlap /\ overlap' = (Overlapping' \/ Intruding)

Next ==
  \/ \E t \in Users : Begin(t) /\ Note
  \/ \E t \in Users : (Enter(t) \/ UserStep(t)) /\ Note
  \/ \E t \in Users : RegisterBehind(t)
  \/ \E o \in Objects : (TimeoutBegins(o) \/ SeesDown(o) \/ Timeout(o) \/ Scan(o)) /\ Note

(* A thread that can go on does, unless it waits for a message or for the  *)
(* next second.                                                            *)
Fairness ==
  /\ \A t \in Users : /\ WF_vars(Enter(t) /\ Note)
                     /\ WF_vars((UserStep(t) /\ Note) \/ RegisterBehind(t))
  /\ \A o \in Objects :
       WF_vars((SeesDown(o) \/ Timeout(o) \/ Scan(o)) /\ Note)

Spec == Init /\ [][Next]_vars /\ Fairness

-----------------------------------------------------------------------------
(* Properties.  Those that speak of ~ overlap say what the table is good   *)
(* for as long as no clean-up meets another user of it and it does not run *)
(* over: the code does not see to either.                                  *)

(* The table lists live objects, each under its own id, no id twice        *)
(* (register_connection, unregister_connection).                           *)
TableConsistent ==
  ~ overlap /\ (\A o \in Objects : pc[o] # "unregister") =>
    \A j, k \in Listed :
      LET e == registered_conns[j] IN
      /\ e.conn # Nothing /\ life[e.conn] = "live" /\ connection_id[e.conn] = e.id
      /\ e.id = registered_conns[k].id => j = k

(* An object that is constructed and not deleted can be found by its id,   *)
(* unless it was refused: no clean-up and no registration drops another    *)
(* connection from the table.                                              *)
NobodyDropped ==
  ~ overlap /\ (\A o \in Objects : pc[o] # "unregister") =>
    \A o \in Objects :
      life[o] = "live" /\ pc[o] # "not started" /\ o \notin refused =>
        \E k \in Matches(connection_id[o]) : registered_conns[k].conn = o

(* No thread goes on with a deleted object: not a refresh thread that has  *)
(* yet to end, not one that got the pointer from the table.                *)
NoDeletedUsed ==
  ~ overlap =>
    /\ \A t \in Users : Holding(t) => life[conn[t]] = "live"
    /\ \A o \in Objects :
         life[o] = "deleted" => pc[o] \in {"scan", "delete", "unregister", "ended"}

(* A clean-up removes what it finds finished, except an entry behind       *)
(* another such entry (refresh_path, rsvp_connection.cpp:1060).            *)
CleanUpRemoves ==
  ~ overlap /\ (\A o \in Objects : ~ Scanning(o)) =>
    \A o \in found \ behind : life[o] = "deleted"

(* rsvp_connection.cpp:1059, above the loop: "remove old pathes            *)
(* (teardowned)".  The loop goes on behind the entry that took the place   *)
(* of a removed one.                                                       *)
CleanUpComplete ==
  ~ overlap /\ (\A o \in Objects : ~ Scanning(o)) =>
    \A o \in found : life[o] = "deleted"

(* register_connection writes behind the array only when more connections  *)
(* live than it has places: each clean-up gives the place of what it       *)
(* removes back, no registration takes two.                                *)
OverrunByMany ==
  [][\A t \in Users :
       RegisterBehind(t) /\ (\A o \in Objects : pc[o] # "unregister") =>
         Cardinality({o \in Objects : life[o] = "live"}) > MAX_REGISTERED_CONNS]_vars

(* Who holds registered_conns_access gives it back, though receiver_thread,*)
(* deliver and report_paths wait for an object's semaphore with it.        *)
AccessGivenBack ==
  \A t \in Users :
    (registered_conns_access = t) ~> (registered_conns_access # t \/ overlap)
=============================================================================
