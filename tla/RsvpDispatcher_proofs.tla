-------------------------- MODULE RsvpDispatcher_proofs --------------------------
(***************************************************************************)
(* Proofs about RsvpDispatcher, for any number of connections, tunnel ids  *)
(* and requests.                                                           *)
(***************************************************************************)
EXTENDS RsvpDispatcher, FiniteSetTheorems, TLAPS

Entry(j) == registered_conns[j].conn
IsFinished(o) == path_state[o] = "down" /\ refresh_tread_state[o] = 0

(* No clean-up meets another user of the table. *)
Apart ==
  \A o \in Objects : Scanning(o) =>
    /\ \A t \in Users : pc[t] \notin {"spawn", "fetch", "next", "read", "enter", "inside"}
    /\ \A p \in Objects \ {o} :
         pc[p] \notin {"zeroed", "signal", "scan", "delete", "unregister"}

(* Nobody comes to the table while a clean-up runs: a property of a step.  *)
Shut ==
  \A o \in Objects, t \in Users :
    Scanning(o) /\ pc[t] \in {"wait", "wait to register"} => pc'[t] = pc[t]

(* The object a user has constructed and has not handed out yet. *)
Building(t) == pc[t] \in {"wait to register", "spawn"}
Mine ==
  /\ \A t \in Users : Building(t) => /\ life[conn[t]] = "live"
                                     /\ pc[conn[t]] = "not started"
                                     /\ connection_id[conn[t]] = wanted[t]
  /\ \A t, u \in Users : Building(t) /\ Building(u) /\ conn[t] = conn[u] => t = u
  /\ \A t \in Users : pc[t] = "wait to register" => \A j \in Listed : Entry(j) # conn[t]

(* Refresh threads: none before the object, the flag while it runs. *)
Threading ==
  /\ \A o \in Objects : pc[o] \in RefreshSteps
  /\ \A o \in Objects : life[o] = "none" => pc[o] = "not started"
  /\ \A o \in Objects : pc[o] \in {"loop", "timeout"} => refresh_tread_state[o] = 1

(* The table; of a clean-up between delete and unregister it still has the *)
(* deleted entry.                                                          *)
Table ==
  \A j \in Listed :
    /\ Entry(j) \in Objects /\ life[Entry(j)] # "none"
    /\ connection_id[Entry(j)] = registered_conns[j].id
    /\ \A k \in Listed : registered_conns[k].id = registered_conns[j].id => k = j
    /\ life[Entry(j)] = "deleted" => \E o \in Objects : pc[o] = "unregister" /\ x[o] = j
    /\ pc[Entry(j)] = "not started" =>
         \E t \in Users : pc[t] = "spawn" /\ conn[t] = Entry(j)

(* Who must be in it. *)
Handed(o) == pc[o] # "not started" \/ \E t \in Users : pc[t] = "spawn" /\ conn[t] = o
Kept ==
  \A o \in Objects :
    life[o] = "live" /\ o \notin refused /\ Handed(o) => \E k \in Listed : Entry(k) = o

(* Pointers and indices that are held. *)
Held ==
  /\ \A t \in Users : Holding(t) => life[conn[t]] = "live"
  /\ \A o \in Objects : life[o] = "deleted" =>
       pc[o] \in {"scan", "delete", "unregister", "ended"}
  /\ \A t \in Users : pc[t] = "fetch" => x[t] \in Listed
  /\ \A t \in Users :
       pc[t] \in {"construct", "wait to register", "spawn", "fetch"} => op[t] # "report"
  /\ \A t \in Users : op[t] = "report" /\ pc[t] \in {"enter", "inside"} => x[t] \in Listed

(* Where a clean-up is.                                                    *)
AtEntry ==
  \A o \in Objects :
    /\ pc[o] \in {"delete", "unregister"} => x[o] \in Listed /\ IsFinished(Entry(x[o]))
    /\ pc[o] = "unregister" => life[Entry(x[o])] = "deleted"

(* What a clean-up has yet to remove: entries from where it is, and of two *)
(* in a row the second may stay.                                           *)
Left(o) ==
  /\ \A k \in Listed :
       k >= x[o] /\ k + 1 \in Listed /\ IsFinished(Entry(k)) /\ IsFinished(Entry(k + 1))
         => Entry(k + 1) \in behind
  /\ \A c \in found \ behind :
       life[c] = "deleted" \/ \E k \in Listed : k >= x[o] /\ Entry(k) = c /\ IsFinished(c)
ToRemove == \A o \in Objects : Scanning(o) => Left(o)

Removed ==
  (\A o \in Objects : ~ Scanning(o)) => \A o \in found \ behind : life[o] = "deleted"

Orderly == Apart /\ Mine /\ Threading /\ Table /\ Kept /\ Held /\ AtEntry /\ ToRemove /\ Removed
IInv == TypeOK /\ (~ overlap => Orderly)

-----------------------------------------------------------------------------
(* What a step may be, as far as the invariant can tell.                   *)

UserGoes(t) ==
  \/ Begin(t) \/ Look(t) \/ NotFound(t) \/ Find(t) \/ Fetch(t) \/ Enter(t) \/ Leave(t)
  \/ ReadStatus(t)
  \/ t = "main" /\ (Report \/ ReportNext \/ ReportDone)

(* A user goes on and changes neither the table nor which objects there    *)
(* are. *)
UserMoves(t) ==
  /\ pc[t] \notin {"construct", "wait to register", "spawn"}
  /\ \E s \in UserSteps \ {"wait to register", "spawn"} : pc' = [pc EXCEPT ![t] = s]
  /\ \A u \in Users \ {t} : /\ op'[u] = op[u] /\ wanted'[u] = wanted[u]
                            /\ conn'[u] = conn[u] /\ x'[u] = x[u]
  /\ \A o \in Objects : x'[o] = x[o]
  /\ path_state' = path_state \/ pc[t] = "inside"
  /\ UNCHANGED << table, life, connection_id, refresh_tread_state, refused, found, behind >>

(* A refresh thread goes on, but for the two steps that delete.            *)
RefreshMoves(o) ==
  /\ pc[o] \notin {"not started", "delete", "unregister"}
  /\ \E s \in RefreshSteps \ {"not started", "loop", "unregister"} :
       pc' = [pc EXCEPT ![o] = s]
  /\ pc'[o] = "timeout" => refresh_tread_state'[o] = refresh_tread_state[o] /\ pc[o] = "loop"
  /\ pc'[o] \in {"scan", "delete", "ended"} \/ life[o] # "deleted"
  /\ \/ UNCHANGED << path_state, refresh_tread_state >>
     \/ pc'[o] \in {"zeroed", "signal"}
  /\ pc'[o] = "delete" => x' = x /\ x[o] \in Listed /\ IsFinished(Entry(x[o]))
  /\ \A p \in Threads \ {o} : x'[p] = x[p]
  /\ \A p \in Objects \ {o} : refresh_tread_state'[p] = refresh_tread_state[p]
  /\ UNCHANGED << table, life, connection_id, op, wanted, conn, refused >>

(* The constants. *)
LEMMA Names ==
  /\ Users \cap Objects = {} /\ Users \subseteq Threads /\ Objects \subseteq Threads
  /\ Nothing \notin Objects
  /\ MAX_REGISTERED_CONNS \in Nat /\ Places \subseteq Nat /\ 0 \in Places
  /\ \A k \in Nat : k <= MAX_REGISTERED_CONNS => k \in Places
  BY DispatcherAssumption DEF Users, Threads, Places

(* Who is listed, after a step that leaves the table alone or not. *)
LEMMA Lists ==
  ASSUME TypeOK
  PROVE  /\ registered_conns_count \in Nat
         /\ \A j : j \in Listed <=> j \in Nat /\ j < registered_conns_count
         /\ \A j \in Listed : j \in Places
         /\ UNCHANGED table => Listed' = Listed
  BY Names DEF TypeOK, Places, Listed, table

(* A step after which nothing is said to have met keeps the users away     *)
(* from a clean-up.                                                        *)
LEMMA NoteApart ==
  ASSUME Note, ~ overlap'
  PROVE  Apart' /\ Shut
  <1>1. ~ Overlapping' /\ ~ Intruding
    BY DEF Note
  <1>2. \A o \in Objects, t \in Threads : t # o => ~ (Scanning(o)' /\ Using(t)')
    BY <1>1 DEF Overlapping
  <1>3. ASSUME NEW o \in Objects, Scanning(o)'
        PROVE  /\ \A t \in Users : pc'[t] \notin {"spawn", "fetch", "next", "read", "enter", "inside"}
               /\ \A p \in Objects \ {o} :
                    pc'[p] \notin {"zeroed", "signal", "scan", "delete", "unregister"}
    <2>1. ASSUME NEW t \in Users
          PROVE  pc'[t] \notin {"spawn", "fetch", "next", "read", "enter", "inside"}
      BY <1>2, <1>3, Names DEF Using
    <2>2. ASSUME NEW p \in Objects \ {o}
          PROVE  pc'[p] \notin {"zeroed", "signal", "scan", "delete", "unregister"}
      BY <1>2, <1>3, Names DEF Using, Scanning
    <2> QED
      BY <2>1, <2>2
  <1>4. Shut
    BY <1>1 DEF Intruding, Shut
  <1> QED
    BY <1>3, <1>4 DEF Apart, Scanning

LEMMA UsersMove ==
  ASSUME TypeOK, NEW t \in Users, UserGoes(t)
  PROVE  UserMoves(t)
  <1> USE Names DEF UserMoves, UserSteps, To, table, object, scans
  <1>0. /\ pc \in [Threads -> UserSteps \cup RefreshSteps]
        /\ op \in [Users -> Ops] /\ wanted \in [Users -> Ids \cup {Nothing}]
        /\ conn \in [Users -> Objects \cup {Nothing}] /\ x \in [Threads -> Places]
    BY DEF TypeOK
  <1>r. Return(t) => /\ pc' = [pc EXCEPT ![t] = "idle"]
                     /\ \A u \in Users \ {t} : /\ op'[u] = op[u] /\ wanted'[u] = wanted[u]
                                               /\ conn'[u] = conn[u] /\ x'[u] = x[u]
                     /\ \A o \in Objects : x'[o] = x[o]
    BY <1>0 DEF Return
  <1>1. CASE Begin(t)
    BY <1>0, <1>1 DEF Begin
  <1>2. CASE Look(t)
    BY <1>0, <1>2 DEF Look
  <1>3. CASE NotFound(t)
    <2>1. CASE op[t] = "path"
      BY <1>0, <1>3, <2>1 DEF NotFound
    <2>2. CASE op[t] # "path"
      BY <1>0, <1>3, <1>r, <2>2 DEF NotFound
    <2> QED
      BY <2>1, <2>2
  <1>4. CASE Find(t)
    BY <1>0, <1>4 DEF Find
  <1>5. CASE Fetch(t)
    BY <1>0, <1>5 DEF Fetch
  <1>6. CASE Enter(t)
    BY <1>0, <1>6 DEF Enter
  <1>7. CASE Leave(t)
    <2>1. CASE op[t] = "report"
      BY <1>0, <1>7, <2>1 DEF Leave
    <2>2. CASE op[t] # "report"
      BY <1>0, <1>7, <1>r, <2>2 DEF Leave
    <2> QED
      BY <2>1, <2>2
  <1>8. CASE t = "main" /\ Report
    BY <1>0, <1>8 DEF Report
  <1>9. CASE t = "main" /\ ReportNext
    BY <1>0, <1>9 DEF ReportNext
  <1>10. CASE t = "main" /\ ReportDone
    BY <1>0, <1>r, <1>10 DEF ReportDone
  <1>11. CASE ReadStatus(t)
    BY <1>0, <1>r, <1>11 DEF ReadStatus
  <1> QED
    BY <1>1, <1>2, <1>3, <1>4, <1>5, <1>6, <1>7, <1>8, <1>9, <1>10, <1>11 DEF UserGoes

LEMMA RefreshesMove ==
  ASSUME TypeOK, Held, NEW o \in Objects,
         \/ TimeoutBegins(o) \/ SeesDown(o) \/ Timeout(o)
         \/ ScanBegins(o) \/ ScanEnds(o) \/ ScanTests(o)
  PROVE  RefreshMoves(o)
  <1> USE Names DEF RefreshMoves, RefreshSteps, To, table, object, scans
  <1>0. /\ pc \in [Threads -> UserSteps \cup RefreshSteps] /\ x \in [Threads -> Places]
        /\ refresh_tread_state \in [Objects -> {0, 1}]
        /\ life[o] = "deleted" => pc[o] \in {"scan", "delete", "unregister", "ended"}
    BY DEF TypeOK, Held
  <1>1. CASE TimeoutBegins(o)
    BY <1>0, <1>1 DEF TimeoutBegins
  <1>2. CASE SeesDown(o)
    BY <1>0, <1>2 DEF SeesDown
  <1>3. CASE TimesOut(o)
    BY <1>0, <1>3 DEF TimesOut
  <1>4. CASE TimeoutEnds(o)
    BY <1>0, <1>4 DEF TimeoutEnds
  <1>5. CASE ScanBegins(o)
    BY <1>0, <1>5 DEF ScanBegins
  <1>6. CASE ScanEnds(o)
    BY <1>0, <1>6 DEF ScanEnds
  <1>7. CASE ScanTests(o)
    <2>1. CASE Finished(registered_conns[x[o]].conn)
      <3>1. x[o] \in Listed
        BY <1>0, <1>7, Lists DEF ScanTests
      <3>2. IsFinished(Entry(x[o]))
        BY <2>1 DEF Finished, IsFinished, Entry
      <3> QED
        BY <1>0, <1>7, <2>1, <3>1, <3>2 DEF ScanTests
    <2>2. CASE ~ Finished(registered_conns[x[o]].conn)
      BY <1>0, <1>7, <2>2 DEF ScanTests
    <2> QED
      BY <2>1, <2>2
  <1> QED
    BY <1>1, <1>2, <1>3, <1>4, <1>5, <1>6, <1>7 DEF Timeout

(* The constructor has made o, whose refresh thread does not run yet.      *)
LEMMA Constructs ==
  ASSUME TypeOK, NEW t \in Users, Construct(t)
  PROVE  \E o \in Objects :
           /\ pc[t] = "construct" /\ pc' = [pc EXCEPT ![t] = "wait to register"]
           /\ life[o] = "none" /\ life' = [life EXCEPT ![o] = "live"]
           /\ connection_id' = [connection_id EXCEPT ![o] = wanted[t]]
           /\ conn' = [conn EXCEPT ![t] = o]
           /\ refresh_tread_state' \in [Objects -> {0, 1}]
           /\ \A p \in Objects \ {o} : refresh_tread_state'[p] = refresh_tread_state[p]
           /\ UNCHANGED << table, path_state, op, wanted, x, refused, found, behind >>
  <1> DEFINE o == CHOOSE o \in Objects : life[o] = "none"
  <1>1. o \in Objects /\ life[o] = "none"
    BY DEF Construct
  <1> HIDE DEF o
  <1>2. PICK b \in {0, 1} : refresh_tread_state' = [refresh_tread_state EXCEPT ![o] = b]
    BY DEF Construct, o
  <1>3. refresh_tread_state \in [Objects -> {0, 1}]
    BY DEF TypeOK
  <1>4. /\ life' = [life EXCEPT ![o] = "live"]
        /\ connection_id' = [connection_id EXCEPT ![o] = wanted[t]]
        /\ conn' = [conn EXCEPT ![t] = o]
    BY DEF Construct, o
  <1> QED
    BY <1>1, <1>2, <1>3, <1>4 DEF Construct, To, scans, table

(* The table after register_connection: as before, or with one entry more, *)
(* whose id was not there. *)
Enters(t) ==
  /\ \A j \in Listed : registered_conns[j].id # wanted[t]
  /\ registered_conns_count' = registered_conns_count + 1
  /\ \A j \in Listed : registered_conns'[j] = registered_conns[j]
  /\ registered_conns'[registered_conns_count] = [conn |-> conn[t], id |-> wanted[t]]
  /\ refused' = refused

LEMMA Registers ==
  ASSUME TypeOK, NEW t \in Users, Register(t)
  PROVE  /\ pc[t] = "wait to register" /\ pc' = [pc EXCEPT ![t] = "spawn"]
         /\ UNCHANGED << object, path_state, refresh_tread_state, op, wanted, conn, x,
                         found, behind >>
         /\ \/ refused' = refused \cup {conn[t]} /\ UNCHANGED table
            \/ Enters(t)
  <1>1. CASE Matches(wanted[t]) # {}
    BY <1>1 DEF Register, To, scans
  <1>2. CASE Matches(wanted[t]) = {}
    <2>1. \A j \in Listed : registered_conns[j].id # wanted[t]
      BY <1>2 DEF Matches
    <2>2. /\ registered_conns' = [registered_conns EXCEPT ![registered_conns_count] =
                                   [conn |-> conn[t], id |-> wanted[t]]]
          /\ registered_conns_count' = registered_conns_count + 1
          /\ UNCHANGED refused
      BY <1>2 DEF Register
    <2>3. /\ DOMAIN registered_conns = Places /\ registered_conns_count \in Places
          /\ registered_conns_count \in Nat
      BY Names DEF TypeOK
    <2>4. \A j \in Listed : registered_conns'[j] = registered_conns[j]
      BY <2>2, <2>3 DEF Listed
    <2>5. registered_conns'[registered_conns_count] = [conn |-> conn[t], id |-> wanted[t]]
      BY <2>2, <2>3
    <2> QED
      BY <2>1, <2>2, <2>4, <2>5 DEF Register, To, scans, Enters
  <1> QED
    BY <1>1, <1>2

(* The table without the entry the clean-up is at. *)
LEMMA Unregisters ==
  ASSUME TypeOK, AtEntry, NEW o \in Objects, ScanUnregisters(o)
  PROVE  /\ pc[o] = "unregister" /\ pc' = [pc EXCEPT ![o] = "scan"]
         /\ x[o] \in Listed /\ x' = [x EXCEPT ![o] = x[o] + 1]
         /\ registered_conns_count' = registered_conns_count - 1
         /\ \A j \in 0 .. registered_conns_count - 2 :
              registered_conns'[j] = registered_conns[IF j < x[o] THEN j ELSE j + 1]
         /\ registered_conns' \in [Places -> Entries]
         /\ UNCHANGED << object, path_state, refresh_tread_state, op, wanted, conn, refused,
                         found, behind >>
  <1>1. pc[o] = "unregister" /\ x[o] \in Listed
    BY DEF ScanUnregisters, AtEntry
  <1>2. /\ registered_conns' =
             [k \in Places |-> IF k >= x[o] /\ k + 1 \in Listed
                               THEN registered_conns[k + 1] ELSE registered_conns[k]]
        /\ registered_conns_count' = registered_conns_count - 1
    BY <1>1 DEF ScanUnregisters, unregister_connection
  <1>3. registered_conns_count \in Nat /\ registered_conns_count <= MAX_REGISTERED_CONNS
    BY Names DEF TypeOK, Places
  <1>4. \A j \in Listed : j \in Places /\ j \in Nat
    BY <1>3, Names DEF Listed
  <1>5. \A j \in 0 .. registered_conns_count - 2 :
          registered_conns'[j] = registered_conns[IF j < x[o] THEN j ELSE j + 1]
    BY <1>1, <1>2, <1>3, <1>4 DEF Listed
  <1>6. registered_conns' \in [Places -> Entries]
    BY <1>2, <1>4 DEF TypeOK
  <1> QED
    BY <1>1, <1>2, <1>5, <1>6 DEF ScanUnregisters, To, scans

-----------------------------------------------------------------------------
(* Each part of the invariant, from the parts before the step.             *)

(* A step that does not run over the end of the table. *)
Within ==
  \/ \E t \in Users : Begin(t) /\ Note
  \/ \E t \in Users : (Enter(t) \/ UserStep(t)) /\ Note
  \/ \E o \in Objects : (TimeoutBegins(o) \/ SeesDown(o) \/ Timeout(o) \/ Scan(o)) /\ Note

(* Its cases, as the lemmas above sort them. *)
LEMMA Cases ==
  ASSUME TypeOK, Held, Within
  PROVE  /\ Note
         /\ \/ \E t \in Users : UserMoves(t) /\ UserGoes(t)
            \/ \E o \in Objects : RefreshMoves(o)
            \/ \E t \in Users : Construct(t) \/ Register(t) \/ Spawn(t)
            \/ \E o \in Objects : ScanDeletes(o) \/ ScanUnregisters(o)
  BY UsersMove, RefreshesMove DEF Within, UserStep, Scan, UserGoes

LEMMA ThreadingKept ==
  ASSUME TypeOK, Held, Mine, Threading, AtEntry, Within
  PROVE  Threading'
  <1> USE Names DEF Threading, RefreshSteps
  <1>0. /\ pc \in [Threads -> UserSteps \cup RefreshSteps]
        /\ life \in [Objects -> {"none", "live", "deleted"}]
        /\ refresh_tread_state \in [Objects -> {0, 1}]
        /\ \A t \in Users : Building(t) => conn[t] \in Objects
    BY DEF TypeOK, Holding, Building
  <1>1. ASSUME NEW t \in Users, UserMoves(t)
        PROVE  Threading'
    BY <1>0, <1>1, ZenonT(60) DEF UserMoves
  <1>2. ASSUME NEW o \in Objects, RefreshMoves(o)
        PROVE  Threading'
    BY <1>0, <1>2 DEF RefreshMoves
  <1>3. ASSUME NEW t \in Users, Construct(t)
        PROVE  Threading'
    <2>1. PICK p \in Objects :
            /\ pc' = [pc EXCEPT ![t] = "wait to register"]
            /\ life[p] = "none" /\ life' = [life EXCEPT ![p] = "live"]
            /\ \A q \in Objects \ {p} : refresh_tread_state'[q] = refresh_tread_state[q]
      BY <1>3, Constructs
    <2>2. \A o \in Objects : pc'[o] = pc[o]
      BY <1>0, <2>1
    <2>3. pc[p] = "not started"
      BY <2>1
    <2>4. \A o \in Objects : life'[o] = "none" => life[o] = "none"
      BY <1>0, <2>1
    <2> QED
      BY <2>1, <2>2, <2>3, <2>4
  <1>4. ASSUME NEW t \in Users, Register(t)
        PROVE  Threading'
    BY <1>0, <1>4, Registers DEF object
  <1>5. ASSUME NEW t \in Users, Spawn(t)
        PROVE  Threading'
    BY <1>0, <1>5 DEF Spawn, object, Mine, Building
  <1>6. ASSUME NEW o \in Objects, ScanDeletes(o)
        PROVE  Threading'
    BY <1>0, <1>6 DEF ScanDeletes, To
  <1>7. ASSUME NEW o \in Objects, ScanUnregisters(o)
        PROVE  Threading'
    BY <1>0, <1>7, Unregisters DEF object
  <1> QED
    BY Cases, <1>1, <1>2, <1>3, <1>4, <1>5, <1>6, <1>7

(* The table after a step holds no object it did not hold before. *)
NoNewEntries == \A j \in Listed' : \E k \in Listed : Entry(j)' = Entry(k)

LEMMA SameEntries ==
  ASSUME UNCHANGED table
  PROVE  NoNewEntries /\ Listed' = Listed /\ \A j : Entry(j)' = Entry(j)
  <1>1. registered_conns' = registered_conns /\ registered_conns_count' = registered_conns_count
    BY DEF table
  <1>2. Listed' = Listed /\ \A j : Entry(j)' = Entry(j)
    BY <1>1 DEF Listed, Entry
  <1> QED
    BY <1>2 DEF NoNewEntries

LEMMA FewerEntries ==
  ASSUME TypeOK, AtEntry, NEW o \in Objects, ScanUnregisters(o)
  PROVE  /\ NoNewEntries
         /\ \A j \in Listed' : /\ j \in Listed /\ j + 1 \in Listed
                              /\ registered_conns'[j]
                                   = registered_conns[IF j < x[o] THEN j ELSE j + 1]
                              /\ Entry(j)' = IF j < x[o] THEN Entry(j) ELSE Entry(j + 1)
         /\ \A k \in Listed :
              /\ k < x[o] => k \in Listed' /\ Entry(k)' = Entry(k)
              /\ k > x[o] => k - 1 \in Listed' /\ Entry(k - 1)' = Entry(k)
         /\ x[o] \in Listed /\ x[o] \in Nat
  <1>1. /\ x[o] \in Listed
        /\ registered_conns_count' = registered_conns_count - 1
        /\ \A j \in 0 .. registered_conns_count - 2 :
             registered_conns'[j] = registered_conns[IF j < x[o] THEN j ELSE j + 1]
    BY Unregisters
  <1>2. registered_conns_count \in Nat /\ Listed = 0 .. registered_conns_count - 1
    BY Lists DEF Listed
  <1>3. Listed' = 0 .. registered_conns_count - 2
    BY <1>1, <1>2 DEF Listed
  <1>4. \A j \in Listed' : /\ j \in Listed /\ j + 1 \in Listed
                           /\ registered_conns'[j]
                                = registered_conns[IF j < x[o] THEN j ELSE j + 1]
    BY <1>1, <1>2, <1>3
  <1>5. \A j \in Listed' : Entry(j)' = IF j < x[o] THEN Entry(j) ELSE Entry(j + 1)
    BY <1>4 DEF Entry
  <1>6. ASSUME NEW k \in Listed
        PROVE  /\ k < x[o] => k \in Listed' /\ Entry(k)' = Entry(k)
               /\ k > x[o] => k - 1 \in Listed' /\ Entry(k - 1)' = Entry(k)
    <2>1. k < x[o] => k \in Listed'
      BY <1>1, <1>2, <1>3
    <2>2. k > x[o] => k - 1 \in Listed' /\ ~ (k - 1 < x[o]) /\ (k - 1) + 1 = k
      BY <1>1, <1>2, <1>3
    <2> QED
      BY <1>5, <2>1, <2>2
  <1> QED
    BY <1>1, <1>2, <1>4, <1>5, <1>6 DEF NoNewEntries

(* Who is building after the step was before it, and nothing has happened  *)
(* to what it builds. *)
LEMMA StillBuilding ==
  ASSUME Mine,
         \A t \in Users : Building(t)' =>
           /\ Building(t) /\ conn'[t] = conn[t] /\ wanted'[t] = wanted[t]
           /\ life'[conn[t]] = "live" /\ pc'[conn[t]] = pc[conn[t]]
           /\ connection_id'[conn[t]] = connection_id[conn[t]],
         \A t \in Users : pc'[t] = "wait to register" =>
           pc[t] = "wait to register" /\ \A j \in Listed' : Entry(j)' # conn[t]
  PROVE  Mine'
  <1>1. \A t \in Users : pc'[t] = "wait to register" => Building(t)'
    BY DEF Building
  <1>2. /\ \A t \in Users : Building(t) => /\ life[conn[t]] = "live"
                                     /\ pc[conn[t]] = "not started"
                                     /\ connection_id[conn[t]] = wanted[t]
        /\ \A t, u \in Users : Building(t) /\ Building(u) /\ conn[t] = conn[u] => t = u
    BY DEF Mine
  <1>3. ASSUME NEW t \in Users, Building(t)'
        PROVE  /\ life'[conn'[t]] = "live" /\ pc'[conn'[t]] = "not started"
               /\ connection_id'[conn'[t]] = wanted'[t]
    <2>1. /\ Building(t) /\ conn'[t] = conn[t] /\ wanted'[t] = wanted[t]
          /\ life'[conn[t]] = "live" /\ pc'[conn[t]] = pc[conn[t]]
          /\ connection_id'[conn[t]] = connection_id[conn[t]]
      BY <1>3
    <2> QED
      BY <1>2, <2>1
  <1>4. ASSUME NEW t \in Users, NEW u \in Users, Building(t)', Building(u)', conn'[t] = conn'[u]
        PROVE  t = u
    <2>1. Building(t) /\ Building(u) /\ conn'[t] = conn[t] /\ conn'[u] = conn[u]
      BY <1>4
    <2> QED
      BY <1>2, <1>4, <2>1
  <1>5. \A t \in Users : pc'[t] = "wait to register" =>
          \A j \in Listed' : Entry(j)' # conn'[t]
    BY <1>1, ZenonT(60)
  <1> QED
    BY <1>3, <1>4, <1>5 DEF Mine

LEMMA MineKept ==
  ASSUME TypeOK, Held, Apart, Mine, Threading, Table, AtEntry, Within
  PROVE  Mine'
  <1> USE Names
  <1>0. /\ pc \in [Threads -> UserSteps \cup RefreshSteps]
        /\ life \in [Objects -> {"none", "live", "deleted"}]
        /\ connection_id \in [Objects -> Ids \cup {Nothing}]
        /\ conn \in [Users -> Objects \cup {Nothing}]
        /\ \A t \in Users : Building(t) => conn[t] \in Objects
    BY DEF TypeOK, Holding, Building
  <1>b. /\ \A t \in Users : Building(t) => /\ life[conn[t]] = "live"
                                        /\ pc[conn[t]] = "not started"
        /\ \A t, u \in Users : Building(t) /\ Building(u) /\ conn[t] = conn[u] => t = u
    BY DEF Mine
  <1>w. /\ \A t \in Users, j \in Listed : pc[t] = "wait to register" => Entry(j) # conn[t]
        /\ \A t \in Users, j \in Listed' :
             NoNewEntries /\ pc[t] = "wait to register" => Entry(j)' # conn[t]
    <2>1. \A t \in Users, j \in Listed : pc[t] = "wait to register" => Entry(j) # conn[t]
      BY DEF Mine
    <2>2. ASSUME NEW t \in Users, NEW j \in Listed', NoNewEntries, pc[t] = "wait to register"
          PROVE  Entry(j)' # conn[t]
      <3>1. PICK k \in Listed : Entry(j)' = Entry(k)
        BY <2>2 DEF NoNewEntries
      <3> QED
        BY <2>1, <2>2, <3>1
    <2> QED
      BY <2>1, <2>2
  <1>1. ASSUME NEW t \in Users, UserMoves(t)
        PROVE  Mine'
    <2>1. NoNewEntries
      BY <1>1, SameEntries DEF UserMoves, table
    <2>2. ~ Building(t)' /\ pc'[t] # "wait to register"
      BY <1>0, <1>1 DEF UserMoves, Building
    <2>3. \A u \in Threads : u # t => pc'[u] = pc[u]
      BY <1>0, <1>1 DEF UserMoves
    <2>5. \A p \in Objects : pc'[p] = pc[p]
      BY <2>3
    <2>6. ASSUME NEW u \in Users, Building(u)'
          PROVE  u # t /\ Building(u)
      <3>1. u # t
        BY <2>2, <2>6
      <3> QED
        BY <2>3, <2>6, <3>1 DEF Building
    <2>4. /\ UNCHANGED << life, connection_id >>
          /\ \A u \in Users \ {t} : wanted'[u] = wanted[u] /\ conn'[u] = conn[u]
      BY <1>1 DEF UserMoves
    <2>7. ASSUME NEW u \in Users, Building(u)'
          PROVE  /\ Building(u) /\ conn'[u] = conn[u] /\ wanted'[u] = wanted[u]
                 /\ life'[conn[u]] = "live" /\ pc'[conn[u]] = pc[conn[u]]
                 /\ connection_id'[conn[u]] = connection_id[conn[u]]
      BY <1>0, <1>b, <2>4, <2>5, <2>6, <2>7
    <2>8. ASSUME NEW u \in Users, pc'[u] = "wait to register"
          PROVE  pc[u] = "wait to register" /\ \A j \in Listed' : Entry(j)' # conn[u]
      BY <1>w, <2>1, <2>2, <2>3, <2>8
    <2> QED
      BY <2>7, <2>8, StillBuilding
  <1>2. ASSUME NEW o \in Objects, RefreshMoves(o)
        PROVE  Mine'
    <2>1. NoNewEntries
      BY <1>2, SameEntries DEF RefreshMoves, table
    <2>2. \A u \in Threads : u # o => pc'[u] = pc[u]
      BY <1>0, <1>2 DEF RefreshMoves
    <2>3. \A u \in Users : Building(u) => conn[u] # o
      BY <1>b, <1>2 DEF RefreshMoves
    <2>4. UNCHANGED << life, connection_id, wanted, conn >>
      BY <1>2 DEF RefreshMoves
    <2> QED
      BY <1>0, <1>b, <1>w, <2>1, <2>2, <2>3, <2>4, StillBuilding DEF Building
  <1>3. ASSUME NEW t \in Users, Construct(t)
        PROVE  Mine'
    <2>1. PICK o \in Objects :
            /\ pc[t] = "construct" /\ pc' = [pc EXCEPT ![t] = "wait to register"]
            /\ life[o] = "none" /\ life' = [life EXCEPT ![o] = "live"]
            /\ connection_id' = [connection_id EXCEPT ![o] = wanted[t]]
            /\ conn' = [conn EXCEPT ![t] = o]
            /\ UNCHANGED table /\ wanted' = wanted
      BY <1>3, Constructs DEF table
    <2>2. pc[o] = "not started"
      BY <2>1 DEF Threading
    <2>3. \A u \in Users : Building(u) => conn[u] # o
      BY <1>b, <2>1
    <2>4. ASSUME NEW j \in Listed'
          PROVE  Entry(j)' # o
      <3>1. j \in Listed /\ Entry(j)' = Entry(j)
        BY <2>1, SameEntries
      <3>2. life[Entry(j)] # "none"
        BY <3>1 DEF Table
      <3> QED
        BY <2>1, <3>1, <3>2
    <2>5. \A u \in Users \ {t} : pc'[u] = pc[u] /\ conn'[u] = conn[u]
      BY <1>0, <2>1
    <2>6. /\ conn'[t] = o /\ pc'[t] = "wait to register" /\ life'[o] = "live"
          /\ pc'[o] = "not started" /\ connection_id'[o] = wanted[t]
      BY <1>0, <2>1, <2>2
    <2>7. \A p \in Objects \ {o} : /\ life'[p] = life[p] /\ pc'[p] = pc[p]
                                  /\ connection_id'[p] = connection_id[p]
      BY <1>0, <2>1
    <2>8. \A u \in Users \ {t} : Building(u)' <=> Building(u)
      BY <2>5 DEF Building
    <2>9. /\ \A u \in Users : Building(u)' => /\ life'[conn'[u]] = "live"
                                        /\ pc'[conn'[u]] = "not started"
                                        /\ connection_id'[conn'[u]] = wanted'[u]
      BY <1>0, <2>1, <2>3, <2>5, <2>6, <2>7, <2>8, ZenonT(60) DEF Mine
    <2>10. \A u, v \in Users : Building(u)' /\ Building(v)' /\ conn'[u] = conn'[v] => u = v
      BY <1>b, <2>3, <2>5, <2>6, <2>8, ZenonT(60)
    <2>11. \A u \in Users, j \in Listed' : pc'[u] = "wait to register" => Entry(j)' # conn'[u]
      BY <1>w, <2>1, <2>4, <2>5, <2>6, SameEntries, ZenonT(60)
    <2> QED
      BY <2>9, <2>10, <2>11 DEF Mine
  <1>4. ASSUME NEW t \in Users, Register(t)
        PROVE  Mine'
    <2>1. /\ pc[t] = "wait to register" /\ pc' = [pc EXCEPT ![t] = "spawn"]
          /\ UNCHANGED << life, connection_id, conn, wanted >>
      BY <1>4, Registers DEF object
    <2>2. ASSUME NEW u \in Users, u # t, pc[u] = "wait to register",
                 NEW j \in Listed'
          PROVE  Entry(j)' # conn[u]
      <3>1. CASE UNCHANGED table
        BY <1>w, <2>2, <3>1, SameEntries
      <3>2. CASE Enters(t)
        <4>1. j \in Listed \/ j = registered_conns_count
          BY <3>2, Lists DEF Enters, Listed
        <4>2. CASE j \in Listed
          BY <1>w, <2>2, <3>2, <4>2 DEF Enters, Entry
        <4>3. CASE j = registered_conns_count
          <5>1. Entry(j)' = conn[t]
            BY <3>2, <4>3 DEF Enters, Entry
          <5> QED
            BY <1>b, <2>1, <2>2, <5>1 DEF Building
        <4> QED
          BY <4>1, <4>2, <4>3
      <3> QED
        BY <1>4, <3>1, <3>2, Registers
    <2>3. \A u \in Threads : u # t => pc'[u] = pc[u]
      BY <1>0, <2>1
    <2>4. pc'[t] = "spawn"
      BY <1>0, <2>1
    <2> QED
      BY <1>0, <1>b, <2>1, <2>2, <2>3, <2>4, StillBuilding, ZenonT(60) DEF Building
  <1>5. ASSUME NEW t \in Users, Spawn(t)
        PROVE  Mine'
    <2>1. /\ pc[t] = "spawn" /\ pc' = [pc EXCEPT ![t] = "enter", ![conn[t]] = "loop"]
          /\ UNCHANGED << life, connection_id, conn, wanted >> /\ UNCHANGED table
      BY <1>5 DEF Spawn, object
    <2>2. Building(t) /\ conn[t] \in Objects
      BY <1>0, <2>1 DEF Building
    <2>3. pc'[t] = "enter" /\ \A u \in Threads : u # t /\ u # conn[t] => pc'[u] = pc[u]
      BY <1>0, <2>1, <2>2
    <2>4. \A u \in Users : u # conn[t]
      BY <2>2
    <2> QED
      BY <1>0, <1>b, <1>w, <2>1, <2>2, <2>3, <2>4, SameEntries, StillBuilding, ZenonT(60) DEF Building
  <1>6. ASSUME NEW o \in Objects, ScanDeletes(o)
        PROVE  Mine'
    <2>1. /\ pc[o] = "delete" /\ pc' = [pc EXCEPT ![o] = "unregister"]
          /\ life' = [life EXCEPT ![Entry(x[o])] = "deleted"]
          /\ UNCHANGED << connection_id, wanted, conn >> /\ UNCHANGED table
      BY <1>6 DEF ScanDeletes, To, Entry
    <2>2. x[o] \in Listed
      BY <2>1 DEF AtEntry
    <2>3. \A t \in Users : Building(t) => pc[t] = "wait to register"
      BY <2>1 DEF Apart, Scanning, Building
    <2>4. \A t \in Users : Building(t) => conn[t] # Entry(x[o])
      BY <1>w, <2>2, <2>3
    <2>5. \A u \in Threads : u # o => pc'[u] = pc[u]
      BY <1>0, <2>1
    <2>6. \A u \in Users : Building(u) => conn[u] # o
      BY <1>b, <2>1
    <2> QED
      BY <1>0, <1>b, <1>w, <2>1, <2>4, <2>5, <2>6, SameEntries, StillBuilding DEF Building
  <1>7. ASSUME NEW o \in Objects, ScanUnregisters(o)
        PROVE  Mine'
    <2>1. /\ pc[o] = "unregister" /\ pc' = [pc EXCEPT ![o] = "scan"]
          /\ UNCHANGED << life, connection_id, wanted, conn >>
      BY <1>7, Unregisters DEF object
    <2>2. NoNewEntries
      BY <1>7, FewerEntries
    <2>3. \A u \in Threads : u # o => pc'[u] = pc[u]
      BY <1>0, <2>1
    <2>4. \A u \in Users : Building(u) => conn[u] # o
      BY <1>b, <2>1
    <2> QED
      BY <1>0, <1>b, <1>w, <2>1, <2>2, <2>3, <2>4, StillBuilding DEF Building
  <1> QED
    BY Cases, <1>1, <1>2, <1>3, <1>4, <1>5, <1>6, <1>7

(* What makes an entry of the table right, but for its id being the only   *)
(* one. *)
Sound(j) ==
  /\ Entry(j) \in Objects /\ life[Entry(j)] # "none"
  /\ connection_id[Entry(j)] = registered_conns[j].id
  /\ life[Entry(j)] = "deleted" => \E o \in Objects : pc[o] = "unregister" /\ x[o] = j
  /\ pc[Entry(j)] = "not started" =>
       \E t \in Users : pc[t] = "spawn" /\ conn[t] = Entry(j)

Unique(j) == \A k \in Listed : registered_conns[k].id = registered_conns[j].id => k = j

LEMMA TableIs == Table <=> \A j \in Listed : Sound(j) /\ Unique(j)
  BY DEF Table, Sound, Unique

LEMMA SoundKept ==
  ASSUME NEW j, NEW k, Sound(k), registered_conns'[j] = registered_conns[k],
         life'[Entry(k)] = life[Entry(k)],
         connection_id'[Entry(k)] = connection_id[Entry(k)],
         \/ life[Entry(k)] # "deleted"
         \/ k = j /\ \A o \in Objects : pc[o] = "unregister" =>
                                      pc'[o] = "unregister" /\ x'[o] = x[o],
         pc'[Entry(k)] = "not started" =>
           /\ pc[Entry(k)] = "not started"
           /\ \A t \in Users : pc[t] = "spawn" /\ conn[t] = Entry(k) =>
                                pc'[t] = "spawn" /\ conn'[t] = conn[t]
  PROVE  Sound(j)'
  <1>1. Entry(j)' = Entry(k)
    BY DEF Entry
  <1>2. /\ Entry(j)' \in Objects /\ life'[Entry(j)'] # "none"
        /\ connection_id'[Entry(j)'] = registered_conns'[j].id
    BY <1>1 DEF Sound
  <1>3. life'[Entry(j)'] = "deleted" => \E o \in Objects : pc'[o] = "unregister" /\ x'[o] = j
    BY <1>1 DEF Sound
  <1>4. pc'[Entry(j)'] = "not started" =>
          \E t \in Users : pc'[t] = "spawn" /\ conn'[t] = Entry(j)'
    BY <1>1 DEF Sound
  <1> QED
    BY <1>2, <1>3, <1>4 DEF Sound

LEMMA UniqueKept ==
  ASSUME TypeOK, UNCHANGED table, \A j \in Listed : Unique(j)
  PROVE  \A j \in Listed' : Unique(j)'
  <1>1. registered_conns' = registered_conns /\ Listed' = Listed
    BY Lists DEF table
  <1> QED
    BY <1>1 DEF Unique

LEMMA TableKept ==
  ASSUME TypeOK, Held, Apart, Mine, Threading, Table, AtEntry, Within
  PROVE  Table'
  <1> USE Names
  <1>0. /\ pc \in [Threads -> UserSteps \cup RefreshSteps]
        /\ life \in [Objects -> {"none", "live", "deleted"}]
        /\ connection_id \in [Objects -> Ids \cup {Nothing}]
        /\ conn \in [Users -> Objects \cup {Nothing}]
        /\ x \in [Threads -> Places]
        /\ \A t \in Users : Building(t) => conn[t] \in Objects
    BY DEF TypeOK, Holding, Building
  <1>t. \A j \in Listed : Sound(j) /\ Unique(j)
    BY TableIs
  <1>p. (\A j \in Listed' : Sound(j)' /\ Unique(j)') => Table'
    <2> SUFFICES ASSUME \A j \in Listed' : Sound(j)' /\ Unique(j)'
                 PROVE  Table'
      OBVIOUS
    <2> QED
      BY DEF Table, Sound, Unique
  <1>s. ASSUME UNCHANGED table
        PROVE  /\ \A j \in Listed' : Unique(j)'
               /\ registered_conns' = registered_conns /\ Listed' = Listed
    BY <1>t, <1>s, UniqueKept, SameEntries DEF table
  <1>e. \A j \in Listed : Entry(j) \in Objects
    BY <1>t DEF Sound
  <1>1. ASSUME NEW t \in Users, UserMoves(t)
        PROVE  Table'
    <2>1. UNCHANGED table /\ UNCHANGED << life, connection_id >>
      BY <1>1 DEF UserMoves, table
    <2>2. /\ \A u \in Threads : u # t => pc'[u] = pc[u]
          /\ pc[t] # "spawn"
          /\ \A u \in Users \ {t} : conn'[u] = conn[u] /\ \A o \in Objects : x'[o] = x[o]
      BY <1>0, <1>1 DEF UserMoves
    <2>3. /\ \A o \in Objects : pc'[o] = pc[o] /\ x'[o] = x[o]
          /\ \A u \in Users : pc[u] = "spawn" => pc'[u] = "spawn" /\ conn'[u] = conn[u]
      BY <1>0, <1>1, <2>2 DEF UserMoves
    <2>4. ASSUME NEW j \in Listed'
          PROVE  Sound(j)'
      BY <1>s, <1>t, <1>e, <2>1, <2>3, <2>4, SoundKept
    <2> QED
      BY <1>p, <1>s, <2>1, <2>4
  <1>2. ASSUME NEW o \in Objects, RefreshMoves(o)
        PROVE  Table'
    <2>1. UNCHANGED table /\ UNCHANGED << life, connection_id, conn >>
      BY <1>2 DEF RefreshMoves, table
    <2>2. /\ \A u \in Threads : u # o => pc'[u] = pc[u] /\ x'[u] = x[u]
          /\ pc[o] \notin {"unregister", "not started"} /\ pc'[o] # "not started"
      BY <1>0, <1>2 DEF RefreshMoves
    <2>3. ASSUME NEW j \in Listed'
          PROVE  Sound(j)'
      BY <1>s, <1>t, <1>e, <2>1, <2>2, <2>3, SoundKept
    <2> QED
      BY <1>p, <1>s, <2>1, <2>3
  <1>3. ASSUME NEW t \in Users, Construct(t)
        PROVE  Table'
    <2>1. PICK o \in Objects :
            /\ pc[t] = "construct" /\ pc' = [pc EXCEPT ![t] = "wait to register"]
            /\ life[o] = "none" /\ life' = [life EXCEPT ![o] = "live"]
            /\ connection_id' = [connection_id EXCEPT ![o] = wanted[t]]
            /\ conn' = [conn EXCEPT ![t] = o]
            /\ UNCHANGED table /\ x' = x
      BY <1>3, Constructs DEF table
    <2>2. /\ \A p \in Objects : pc'[p] = pc[p]
          /\ \A u \in Users : pc[u] = "spawn" => pc'[u] = "spawn" /\ conn'[u] = conn[u]
          /\ \A p \in Objects \ {o} : life'[p] = life[p] /\ connection_id'[p] = connection_id[p]
      BY <1>0, <2>1
    <2>3. ASSUME NEW j \in Listed'
          PROVE  Sound(j)'
      <3>1. j \in Listed /\ Entry(j) # o /\ Entry(j) \in Objects
        <4>1. j \in Listed
          BY <1>s, <2>1
        <4>2. Entry(j) \in Objects /\ life[Entry(j)] # "none"
          BY <1>t, <4>1 DEF Sound
        <4> QED
          BY <2>1, <4>1, <4>2
      <3> QED
        BY <1>s, <1>t, <2>1, <2>2, <3>1, SoundKept
    <2> QED
      BY <1>p, <1>s, <2>1, <2>3
  <1>4. ASSUME NEW t \in Users, Register(t)
        PROVE  Table'
    <2>1. /\ pc[t] = "wait to register" /\ pc' = [pc EXCEPT ![t] = "spawn"]
          /\ UNCHANGED << life, connection_id, conn, wanted, x >>
      BY <1>4, Registers DEF object
    <2>2. /\ \A u \in Threads : u # t => pc'[u] = pc[u]
          /\ pc'[t] = "spawn"
      BY <1>0, <2>1
    <2>3. /\ \A o \in Objects : pc'[o] = pc[o]
          /\ \A u \in Users : pc[u] = "spawn" => pc'[u] = "spawn"
      BY <2>1, <2>2
    <2>4. CASE UNCHANGED table
      <3>1. ASSUME NEW j \in Listed'
            PROVE  Sound(j)'
        BY <1>s, <1>t, <1>e, <2>1, <2>3, <2>4, <3>1, SoundKept
      <3> QED
        BY <1>p, <1>s, <2>4, <3>1
    <2>5. CASE Enters(t)
      <3>1. /\ registered_conns_count' = registered_conns_count + 1
            /\ \A j \in Listed : registered_conns'[j] = registered_conns[j]
            /\ \A j \in Listed : registered_conns[j].id # wanted[t]
            /\ registered_conns'[registered_conns_count] = [conn |-> conn[t], id |-> wanted[t]]
        BY <2>5 DEF Enters
      <3>2. \A j \in Listed' : j \in Listed \/ j = registered_conns_count
        BY <3>1, Lists DEF Listed
      <3>3. conn[t] \in Objects /\ life[conn[t]] = "live" /\ connection_id[conn[t]] = wanted[t]
        BY <1>0, <2>1 DEF Mine, Building
      <3>4. ASSUME NEW j \in Listed'
            PROVE  Sound(j)'
        <4>1. CASE j \in Listed
          <5>1. registered_conns'[j] = registered_conns[j] /\ Sound(j)
            BY <1>t, <3>1, <4>1
          <5> QED
            BY <1>e, <2>1, <2>3, <4>1, <5>1, SoundKept
        <4>2. CASE j = registered_conns_count
          <5>1. registered_conns'[j] = [conn |-> conn[t], id |-> wanted[t]]
            BY <3>1, <4>2
          <5>2. registered_conns'[j].conn = conn[t] /\ registered_conns'[j].id = wanted[t]
            BY <5>1
          <5> QED
            BY <2>1, <2>2, <3>3, <5>2 DEF Sound, Entry
        <4> QED
          BY <3>2, <4>1, <4>2
      <3>5. ASSUME NEW j \in Listed', NEW k \in Listed',
                   registered_conns'[k].id = registered_conns'[j].id
            PROVE  k = j
        <4>1. \A i \in Listed : registered_conns'[i].id = registered_conns[i].id
                                /\ registered_conns'[i].id # wanted[t]
          BY <3>1
        <4>2. registered_conns'[registered_conns_count].id = wanted[t]
          BY <3>1
        <4>3. j \in Listed /\ k \in Listed => k = j
          BY <1>t, <3>5, <4>1 DEF Unique
        <4> QED
          BY <3>2, <3>5, <4>1, <4>2, <4>3
      <3> QED
        BY <1>p, <3>4, <3>5 DEF Unique
    <2> QED
      BY <1>4, <2>4, <2>5, Registers
  <1>5. ASSUME NEW t \in Users, Spawn(t)
        PROVE  Table'
    <2>1. /\ pc[t] = "spawn" /\ pc' = [pc EXCEPT ![t] = "enter", ![conn[t]] = "loop"]
          /\ UNCHANGED << life, connection_id, conn, x >> /\ UNCHANGED table
      BY <1>5 DEF Spawn, object
    <2>2. Building(t) /\ conn[t] \in Objects /\ pc[conn[t]] = "not started"
      BY <1>0, <2>1 DEF Building, Mine
    <2>3. /\ pc'[conn[t]] = "loop"
          /\ \A u \in Threads : u # t /\ u # conn[t] => pc'[u] = pc[u]
      BY <1>0, <2>1, <2>2
    <2>4. ASSUME NEW j \in Listed'
          PROVE  Sound(j)'
      <3>1. j \in Listed /\ Entry(j) \in Objects
        BY <1>s, <1>e, <2>1, <2>4
      <3>2. pc'[Entry(j)] = "not started" =>
              Entry(j) # conn[t] /\ pc[Entry(j)] = "not started"
        BY <2>2, <2>3, <3>1
      <3>3. \A u \in Users : u # t /\ pc[u] = "spawn" => pc'[u] = "spawn"
        BY <2>2, <2>3
      <3>4. \A p \in Objects : pc[p] = "unregister" => pc'[p] = "unregister"
        BY <2>2, <2>3
      <3> QED
        BY <1>s, <1>t, <2>1, <3>1, <3>2, <3>3, <3>4, SoundKept
    <2> QED
      BY <1>p, <1>s, <2>1, <2>4
  <1>6. ASSUME NEW o \in Objects, ScanDeletes(o)
        PROVE  Table'
    <2>1. /\ pc[o] = "delete" /\ pc' = [pc EXCEPT ![o] = "unregister"]
          /\ life' = [life EXCEPT ![Entry(x[o])] = "deleted"]
          /\ UNCHANGED << connection_id, conn, x >> /\ UNCHANGED table
      BY <1>6 DEF ScanDeletes, To, Entry
    <2>2. x[o] \in Listed
      BY <2>1 DEF AtEntry
    <2>3. pc'[o] = "unregister" /\ \A u \in Threads : u # o => pc'[u] = pc[u]
      BY <1>0, <2>1
    <2>4. \A j \in Listed : life[Entry(j)] # "deleted"
      <3>1. \A p \in Objects : pc[p] # "unregister"
        BY <2>1 DEF Apart, Scanning
      <3> QED
        BY <1>t, <3>1 DEF Sound
    <2>5. ASSUME NEW j \in Listed, Entry(j) = Entry(x[o])
          PROVE  j = x[o]
      <3>1. registered_conns[j].id = registered_conns[x[o]].id
        <4>1. Sound(j) /\ Sound(x[o])
          BY <1>t, <2>2
        <4>2. connection_id[Entry(j)] = registered_conns[j].id
              /\ connection_id[Entry(x[o])] = registered_conns[x[o]].id
          BY <4>1 DEF Sound
        <4> QED
          BY <2>5, <4>2
      <3> QED
        BY <1>t, <2>2, <3>1 DEF Unique
    <2>6. ASSUME NEW j \in Listed'
          PROVE  Sound(j)'
      <3>1. j \in Listed /\ Entry(j)' = Entry(j) /\ Sound(j)
            /\ registered_conns'[j].id = registered_conns[j].id
        BY <1>s, <1>t, <2>1 DEF Entry
      <3>2. Entry(j) \in Objects /\ life[Entry(j)] # "none"
            /\ connection_id[Entry(j)] = registered_conns[j].id
        BY <3>1 DEF Sound
      <3>3. CASE j = x[o]
        <4>1. Entry(j)' = Entry(x[o])
          BY <3>1, <3>3
        <4>2. /\ Entry(j)' \in Objects
              /\ connection_id'[Entry(j)'] = registered_conns'[j].id
          BY <2>1, <3>1, <3>2
        <4>3. life'[Entry(j)'] # "none"
          BY <1>0, <2>1, <3>1, <3>2, <3>3
        <4>4. pc'[Entry(j)'] = "not started" =>
                \E t \in Users : pc'[t] = "spawn" /\ conn'[t] = Entry(j)'
          BY <1>0, <2>1, <2>3, <3>1 DEF Sound
        <4>5. \E p \in Objects : pc'[p] = "unregister" /\ x'[p] = j
          BY <2>1, <2>3, <3>3
        <4> QED
          BY <4>2, <4>3, <4>4, <4>5 DEF Sound
      <3>4. CASE j # x[o]
        <4>1. life'[Entry(j)] = life[Entry(j)]
          BY <1>0, <2>1, <2>5, <3>1, <3>2, <3>4
        <4> QED
          BY <1>0, <2>1, <2>3, <2>4, <3>1, <3>2, <4>1, ZenonT(60) DEF Sound, Entry
      <3> QED
        BY <3>3, <3>4
    <2> QED
      BY <1>p, <1>s, <2>1, <2>6
  <1>7. ASSUME NEW o \in Objects, ScanUnregisters(o)
        PROVE  Table'
    <2>1. /\ pc[o] = "unregister" /\ pc' = [pc EXCEPT ![o] = "scan"]
          /\ UNCHANGED << life, connection_id, conn >>
      BY <1>7, Unregisters DEF object
    <2>2. pc'[o] = "scan" /\ \A u \in Threads : u # o => pc'[u] = pc[u]
      BY <1>0, <2>1
    <2>3. \A p \in Objects : pc[p] = "unregister" => p = o
      BY <2>1 DEF Apart, Scanning
    <2>4. ASSUME NEW j \in Listed'
          PROVE  \E k \in Listed : /\ k # x[o] /\ registered_conns'[j] = registered_conns[k]
                                   /\ k = IF j < x[o] THEN j ELSE j + 1
      <3>1. /\ j \in Listed /\ j + 1 \in Listed /\ x[o] \in Nat
            /\ registered_conns'[j] = registered_conns[IF j < x[o] THEN j ELSE j + 1]
        BY <1>7, <2>4, FewerEntries
      <3>2. j \in Nat
        BY <3>1, Lists
      <3> QED
        BY <3>1, <3>2
    <2>5. ASSUME NEW j \in Listed'
          PROVE  Sound(j)'
      <3>1. PICK k \in Listed : k # x[o] /\ registered_conns'[j] = registered_conns[k]
        BY <2>4
      <3>2. Sound(k) /\ life[Entry(k)] # "deleted"
        BY <1>t, <2>3, <3>1 DEF Sound
      <3> QED
        BY <2>1, <2>2, <3>1, <3>2 DEF Sound, Entry
    <2>6. ASSUME NEW j \in Listed', NEW k \in Listed',
                 registered_conns'[k].id = registered_conns'[j].id
          PROVE  k = j
      <3>1. PICK i \in Listed : registered_conns'[j] = registered_conns[i]
                                /\ i = IF j < x[o] THEN j ELSE j + 1
        BY <2>4
      <3>2. PICK m \in Listed : registered_conns'[k] = registered_conns[m]
                                /\ m = IF k < x[o] THEN k ELSE k + 1
        BY <2>4
      <3>3. m = i
        BY <1>t, <2>6, <3>1, <3>2 DEF Unique
      <3>4. j \in Nat /\ k \in Nat /\ x[o] \in Nat
        BY <1>7, FewerEntries, Lists
      <3> QED
        BY <3>1, <3>2, <3>3, <3>4
    <2> QED
      BY <1>p, <2>5, <2>6 DEF Unique
  <1> QED
    BY Cases, <1>1, <1>2, <1>3, <1>4, <1>5, <1>6, <1>7

LEMMA KeptKept ==
  ASSUME TypeOK, Held, Apart, Mine, Threading, Table, AtEntry, Kept, Within
  PROVE  Kept'
  <1> USE Names
  <1>0. /\ pc \in [Threads -> UserSteps \cup RefreshSteps]
        /\ life \in [Objects -> {"none", "live", "deleted"}]
        /\ conn \in [Users -> Objects \cup {Nothing}]
        /\ \A t \in Users : Building(t) => conn[t] \in Objects
    BY DEF TypeOK, Holding, Building
  <1>k. \A o \in Objects :
          life[o] = "live" /\ o \notin refused /\ Handed(o) => \E k \in Listed : Entry(k) = o
    BY DEF Kept
  <1>p. (\A o \in Objects :
           (life'[o] = "live" /\ o \notin refused' /\ Handed(o)') =>
              \E k \in Listed' : Entry(k)' = o)
        => Kept'
    BY DEF Kept
  <1>s. ASSUME UNCHANGED table, NEW o \in Objects, life[o] = "live", o \notin refused, Handed(o)
        PROVE  \E k \in Listed' : Entry(k)' = o
    BY <1>k, <1>s, SameEntries
  <1>1. ASSUME NEW t \in Users, UserMoves(t)
        PROVE  Kept'
    <2>1. UNCHANGED table /\ UNCHANGED << life, refused >>
      BY <1>1 DEF UserMoves, table
    <2>2. /\ \A u \in Threads : u # t => pc'[u] = pc[u]
          /\ pc'[t] # "spawn"
          /\ \A u \in Users \ {t} : conn'[u] = conn[u]
      BY <1>0, <1>1 DEF UserMoves
    <2>3. ASSUME NEW o \in Objects, Handed(o)'
          PROVE  Handed(o)
      BY <2>2, <2>3 DEF Handed
    <2> QED
      BY <1>p, <1>s, <2>1, <2>3
  <1>2. ASSUME NEW p \in Objects, RefreshMoves(p)
        PROVE  Kept'
    <2>1. UNCHANGED table /\ UNCHANGED << life, refused, conn >>
      BY <1>2 DEF RefreshMoves, table
    <2>2. /\ \A u \in Threads : u # p => pc'[u] = pc[u]
          /\ pc[p] # "not started"
      BY <1>0, <1>2 DEF RefreshMoves
    <2>3. ASSUME NEW o \in Objects, Handed(o)'
          PROVE  Handed(o)
      BY <2>1, <2>2, <2>3 DEF Handed
    <2> QED
      BY <1>p, <1>s, <2>1, <2>3
  <1>3. ASSUME NEW t \in Users, Construct(t)
        PROVE  Kept'
    <2>1. PICK p \in Objects :
            /\ pc[t] = "construct" /\ pc' = [pc EXCEPT ![t] = "wait to register"]
            /\ life[p] = "none" /\ life' = [life EXCEPT ![p] = "live"]
            /\ conn' = [conn EXCEPT ![t] = p]
            /\ UNCHANGED table /\ refused' = refused
      BY <1>3, Constructs DEF table
    <2>2. /\ \A u \in Threads : u # t => pc'[u] = pc[u]
          /\ pc'[t] # "spawn"
          /\ \A u \in Users \ {t} : conn'[u] = conn[u]
      BY <1>0, <2>1
    <2>3. ASSUME NEW o \in Objects, Handed(o)'
          PROVE  Handed(o)
      BY <2>2, <2>3 DEF Handed
    <2>4. ~ Handed(p)
      <3>1. pc[p] = "not started"
        BY <2>1 DEF Threading
      <3>2. \A u \in Users : pc[u] = "spawn" => life[conn[u]] = "live"
        BY DEF Mine, Building
      <3> QED
        BY <2>1, <3>1, <3>2 DEF Handed
    <2>5. \A o \in Objects : o # p => life'[o] = life[o]
      BY <1>0, <2>1
    <2>6. ASSUME NEW o \in Objects, life'[o] = "live", o \notin refused', Handed(o)'
          PROVE  \E k \in Listed' : Entry(k)' = o
      <3>1. Handed(o) /\ o # p
        BY <2>3, <2>4, <2>6
      <3> QED
        BY <1>s, <2>1, <2>5, <2>6, <3>1
    <2> QED
      BY <1>p, <2>6
  <1>4. ASSUME NEW t \in Users, Register(t)
        PROVE  Kept'
    <2>1. /\ pc[t] = "wait to register" /\ pc' = [pc EXCEPT ![t] = "spawn"]
          /\ UNCHANGED << life, conn >>
      BY <1>4, Registers DEF object
    <2>2. \A u \in Threads : u # t => pc'[u] = pc[u]
      BY <1>0, <2>1
    <2>3. ASSUME NEW o \in Objects, Handed(o)', o # conn[t]
          PROVE  Handed(o)
      BY <2>1, <2>2, <2>3 DEF Handed
    <2>4. CASE refused' = refused \cup {conn[t]} /\ UNCHANGED table
      BY <1>p, <1>s, <2>1, <2>3, <2>4
    <2>5. CASE Enters(t)
      <3>1. /\ registered_conns_count' = registered_conns_count + 1 /\ refused' = refused
            /\ \A j \in Listed : registered_conns'[j] = registered_conns[j]
            /\ registered_conns'[registered_conns_count] = [conn |-> conn[t], id |-> wanted[t]]
        BY <2>5 DEF Enters
      <3>n. PICK n \in Nat : n = registered_conns_count
        BY Lists
      <3>2. n \in Listed' /\ \A j \in Listed : j \in Listed'
        BY <3>1, <3>n, Lists DEF Listed
      <3>3. Entry(n)' = conn[t]
        BY <3>1, <3>n DEF Entry
      <3>4. ASSUME NEW o \in Objects, life'[o] = "live", o \notin refused', Handed(o)'
            PROVE  \E k \in Listed' : Entry(k)' = o
        <4>1. CASE o = conn[t]
          BY <3>2, <3>3, <4>1
        <4>2. CASE o # conn[t]
          <5>1. PICK k \in Listed : Entry(k) = o
            BY <1>k, <2>1, <2>3, <3>1, <3>4, <4>2
          <5>2. Entry(k)' = o
            BY <3>1, <5>1 DEF Entry
          <5> QED
            BY <3>2, <5>2
        <4> QED
          BY <4>1, <4>2
      <3> QED
        BY <1>p, <3>4
    <2> QED
      BY <1>4, <2>4, <2>5, Registers
  <1>5. ASSUME NEW t \in Users, Spawn(t)
        PROVE  Kept'
    <2>1. /\ pc[t] = "spawn" /\ pc' = [pc EXCEPT ![t] = "enter", ![conn[t]] = "loop"]
          /\ UNCHANGED << life, conn >> /\ UNCHANGED table /\ refused' = refused
      BY <1>5 DEF Spawn, object, scans
    <2>2. Building(t) /\ conn[t] \in Objects
      BY <1>0, <2>1 DEF Building
    <2>3. /\ pc'[t] = "enter"
          /\ \A u \in Threads : u # t /\ u # conn[t] => pc'[u] = pc[u]
      BY <1>0, <2>1, <2>2
    <2>4. ASSUME NEW o \in Objects, Handed(o)'
          PROVE  Handed(o)
      BY <2>1, <2>2, <2>3, <2>4 DEF Handed
    <2> QED
      BY <1>p, <1>s, <2>1, <2>4
  <1>6. ASSUME NEW p \in Objects, ScanDeletes(p)
        PROVE  Kept'
    <2>1. /\ pc[p] = "delete" /\ pc' = [pc EXCEPT ![p] = "unregister"]
          /\ life' = [life EXCEPT ![Entry(x[p])] = "deleted"]
          /\ conn' = conn /\ UNCHANGED table /\ refused' = refused
      BY <1>6 DEF ScanDeletes, To, Entry
    <2>2. \A u \in Threads : u # p => pc'[u] = pc[u]
      BY <1>0, <2>1
    <2>3. ASSUME NEW o \in Objects, Handed(o)'
          PROVE  Handed(o)
      BY <2>1, <2>2, <2>3 DEF Handed
    <2>4. \A o \in Objects : life'[o] = "live" => life[o] = "live"
      BY <1>0, <2>1
    <2> QED
      BY <1>p, <1>s, <2>1, <2>3, <2>4
  <1>7. ASSUME NEW p \in Objects, ScanUnregisters(p)
        PROVE  Kept'
    <2>1. /\ pc[p] = "unregister" /\ pc' = [pc EXCEPT ![p] = "scan"]
          /\ UNCHANGED << life, conn, refused >>
      BY <1>7, Unregisters DEF object
    <2>2. \A u \in Threads : u # p => pc'[u] = pc[u]
      BY <1>0, <2>1
    <2>3. ASSUME NEW o \in Objects, Handed(o)'
          PROVE  Handed(o)
      BY <2>1, <2>2, <2>3 DEF Handed
    <2>4. life[Entry(x[p])] = "deleted"
      BY <2>1 DEF AtEntry
    <2>5. ASSUME NEW o \in Objects, life'[o] = "live", o \notin refused', Handed(o)'
          PROVE  \E k \in Listed' : Entry(k)' = o
      <3>1. PICK k \in Listed : Entry(k) = o
        BY <1>k, <2>1, <2>3, <2>5
      <3>2. k # x[p]
        BY <2>1, <2>4, <2>5, <3>1
      <3>3. k < x[p] \/ k > x[p]
        BY <1>7, <3>2, FewerEntries, Lists
      <3> QED
        BY <1>7, <3>1, <3>3, FewerEntries
    <2> QED
      BY <1>p, <2>5
  <1> QED
    BY Cases, <1>1, <1>2, <1>3, <1>4, <1>5, <1>6, <1>7

LEMMA AtEntryKept ==
  ASSUME TypeOK, Held, Apart, Apart', Mine, Threading, Table, AtEntry, Within
  PROVE  AtEntry'
  <1> USE Names
  <1> DEFINE At(o) == pc[o] \in {"delete", "unregister"} =>
                        /\ x[o] \in Listed /\ IsFinished(Entry(x[o]))
                        /\ pc[o] = "unregister" => life[Entry(x[o])] = "deleted"
  <1>0. /\ pc \in [Threads -> UserSteps \cup RefreshSteps]
        /\ life \in [Objects -> {"none", "live", "deleted"}]
        /\ x \in [Threads -> Places]
        /\ \A t \in Users : Building(t) => conn[t] \in Objects
    BY DEF TypeOK, Holding, Building
  <1>a. \A o \in Objects : At(o)
    BY DEF AtEntry
  <1>p. (\A o \in Objects : At(o)') => AtEntry'
    BY DEF AtEntry
  <1>s. ASSUME NEW o \in Objects, UNCHANGED table, pc'[o] = pc[o], x'[o] = x[o],
               path_state' = path_state,
               refresh_tread_state'[Entry(x[o])] = refresh_tread_state[Entry(x[o])],
               life'[Entry(x[o])] = life[Entry(x[o])]
        PROVE  At(o)'
    <2>1. Listed' = Listed /\ Entry(x[o])' = Entry(x[o])
      BY <1>s, SameEntries DEF table, Entry
    <2> QED
      BY <1>a, <1>s, <2>1 DEF IsFinished
  <1>f. \A o \in Objects : /\ x[o] \in Listed => Entry(x[o]) \in Objects
                                                 /\ life[Entry(x[o])] # "none"
    BY DEF Table
  <1>1. ASSUME NEW t \in Users, UserMoves(t)
        PROVE  AtEntry'
    <2>1. UNCHANGED table /\ UNCHANGED << life, refresh_tread_state >>
          /\ (path_state' = path_state \/ pc[t] = "inside")
          /\ \A o \in Objects : x'[o] = x[o]
      BY <1>1 DEF UserMoves, table
    <2>2. \A o \in Objects : pc'[o] = pc[o]
      BY <1>0, <1>1 DEF UserMoves
    <2>3. ASSUME NEW o \in Objects
          PROVE  At(o)'
      <3>1. CASE path_state' = path_state
        BY <1>s, <2>1, <2>2, <3>1
      <3>2. CASE pc[t] = "inside"
        BY <2>2, <3>2 DEF Apart, Scanning
      <3> QED
        BY <2>1, <3>1, <3>2
    <2> QED
      BY <1>p, <2>3
  <1>2. ASSUME NEW p \in Objects, RefreshMoves(p)
        PROVE  AtEntry'
    <2>1. /\ UNCHANGED table /\ life' = life
          /\ pc'[p] = "delete" => x' = x /\ x[p] \in Listed /\ IsFinished(Entry(x[p]))
          /\ \/ path_state' = path_state /\ refresh_tread_state' = refresh_tread_state
             \/ pc'[p] \in {"zeroed", "signal"}
          /\ \A u \in Threads \ {p} : x'[u] = x[u]
      BY <1>2 DEF RefreshMoves, table
    <2>2. /\ \A u \in Threads : u # p => pc'[u] = pc[u]
          /\ pc'[p] # "unregister"
      BY <1>0, <1>2 DEF RefreshMoves
    <2>3. ASSUME NEW o \in Objects
          PROVE  At(o)'
      <3>1. CASE path_state' = path_state /\ refresh_tread_state' = refresh_tread_state
        <4>1. CASE o = p
          <5>1. CASE pc'[p] = "delete"
            <6>1. Listed' = Listed /\ Entry(x[p])' = Entry(x[p])
              BY <2>1, <5>1, SameEntries DEF table, Entry
            <6> QED
              BY <2>1, <3>1, <4>1, <5>1, <6>1 DEF IsFinished
          <5> QED
            BY <2>2, <4>1, <5>1
        <4>2. CASE o # p
          BY <1>s, <2>1, <2>2, <3>1, <4>2
        <4> QED
          BY <4>1, <4>2
      <3>2. CASE pc'[p] \in {"zeroed", "signal"}
        BY <2>2, <3>2 DEF Apart, Scanning
      <3> QED
        BY <2>1, <3>1, <3>2
    <2> QED
      BY <1>p, <2>3
  <1>3. ASSUME NEW t \in Users, Construct(t)
        PROVE  AtEntry'
    <2>1. PICK p \in Objects :
            /\ pc[t] = "construct" /\ pc' = [pc EXCEPT ![t] = "wait to register"]
            /\ life[p] = "none" /\ life' = [life EXCEPT ![p] = "live"]
            /\ \A q \in Objects \ {p} : refresh_tread_state'[q] = refresh_tread_state[q]
            /\ UNCHANGED table /\ path_state' = path_state /\ x' = x
      BY <1>3, Constructs DEF table
    <2>2. \A o \in Objects : pc'[o] = pc[o]
      BY <1>0, <2>1
    <2>3. ASSUME NEW o \in Objects
          PROVE  At(o)'
      <3>1. CASE pc[o] \in {"delete", "unregister"}
        <4>1. Entry(x[o]) \in Objects /\ Entry(x[o]) # p
          BY <1>a, <1>f, <2>1, <3>1
        <4>2. life'[Entry(x[o])] = life[Entry(x[o])]
          BY <1>0, <2>1, <4>1
        <4> QED
          BY <1>s, <2>1, <2>2, <4>1, <4>2
      <3>2. CASE pc[o] \notin {"delete", "unregister"}
        BY <2>2, <3>2
      <3> QED
        BY <3>1, <3>2
    <2> QED
      BY <1>p, <2>3
  <1>4. ASSUME NEW t \in Users, Register(t)
        PROVE  AtEntry'
    <2>1. pc[t] = "wait to register" /\ pc' = [pc EXCEPT ![t] = "spawn"]
      BY <1>4, Registers
    <2>2. pc'[t] = "spawn"
      BY <1>0, <2>1
    <2> QED
      BY <1>p, <2>2 DEF Apart, Scanning
  <1>5. ASSUME NEW t \in Users, Spawn(t)
        PROVE  AtEntry'
    <2>1. pc[t] = "spawn" /\ pc' = [pc EXCEPT ![t] = "enter", ![conn[t]] = "loop"]
      BY <1>5 DEF Spawn
    <2>2. Building(t) /\ conn[t] \in Objects
      BY <1>0, <2>1 DEF Building
    <2>3. pc'[t] = "enter"
      BY <1>0, <2>1, <2>2
    <2> QED
      BY <1>p, <2>3 DEF Apart, Scanning
  <1>6. ASSUME NEW p \in Objects, ScanDeletes(p)
        PROVE  AtEntry'
    <2>1. /\ pc[p] = "delete" /\ pc' = [pc EXCEPT ![p] = "unregister"]
          /\ life' = [life EXCEPT ![Entry(x[p])] = "deleted"]
          /\ UNCHANGED << path_state, refresh_tread_state, x >> /\ UNCHANGED table
      BY <1>6 DEF ScanDeletes, To, Entry
    <2>2. /\ x[p] \in Listed /\ IsFinished(Entry(x[p])) /\ Entry(x[p]) \in Objects
      BY <1>a, <1>f, <2>1
    <2>3. pc'[p] = "unregister" /\ life'[Entry(x[p])] = "deleted"
      BY <1>0, <2>1, <2>2
    <2>4. At(p)'
      <3>1. Listed' = Listed /\ Entry(x[p])' = Entry(x[p])
        BY <2>1, SameEntries DEF table, Entry
      <3> QED
        BY <2>1, <2>2, <2>3, <3>1 DEF IsFinished
    <2>5. \A o \in Objects \ {p} : pc'[o] \notin {"delete", "unregister"}
      BY <2>3 DEF Apart, Scanning
    <2>6. ASSUME NEW o \in Objects
          PROVE  At(o)'
      BY <2>4, <2>5
    <2> QED
      BY <1>p, <2>6
  <1>7. ASSUME NEW p \in Objects, ScanUnregisters(p)
        PROVE  AtEntry'
    <2>1. pc[p] = "unregister" /\ pc' = [pc EXCEPT ![p] = "scan"]
      BY <1>7, Unregisters
    <2>2. pc'[p] = "scan"
      BY <1>0, <2>1
    <2>3. \A o \in Objects : pc'[o] \notin {"delete", "unregister"}
      BY <2>2 DEF Apart, Scanning
    <2> QED
      BY <1>p, <2>3
  <1> QED
    BY Cases, <1>1, <1>2, <1>3, <1>4, <1>5, <1>6, <1>7

(* What a user may rely on. *)
Holds(t) ==
  /\ Holding(t) => life[conn[t]] = "live"
  /\ pc[t] = "fetch" => x[t] \in Listed
  /\ pc[t] \in {"construct", "wait to register", "spawn", "fetch"} => op[t] # "report"
  /\ op[t] = "report" /\ pc[t] \in {"enter", "inside"} => x[t] \in Listed

EndOfThread == {"scan", "delete", "unregister", "ended"}

LEMMA HeldIs ==
  Held <=> /\ \A t \in Users : Holds(t)
           /\ \A o \in Objects : life[o] = "deleted" => pc[o] \in EndOfThread
  BY DEF Held, Holds, EndOfThread

LEMMA NothingDeleted ==
  ASSUME Table, Apart, NEW t \in Users,
         \/ pc[t] \in {"spawn", "fetch", "next", "read", "enter", "inside"}
         \/ \A o \in Objects : ~ Scanning(o)
  PROVE  \A j \in Listed : Entry(j) \in Objects /\ life[Entry(j)] \notin {"none", "deleted"}
  <1>1. \A o \in Objects : pc[o] # "unregister"
    BY DEF Apart, Scanning
  <1> QED
    BY <1>1 DEF Table

(* An id is in the table once, so first and last match are the same.       *)
LEMMA OneMatch ==
  ASSUME TypeOK, Table, NEW i, Matches(i) # {}
  PROVE  Least(Matches(i)) \in Listed /\ Greatest(Matches(i)) \in Listed
  <1>1. PICK j \in Matches(i) : TRUE
    OBVIOUS
  <1>2. j \in Listed /\ j \in Nat /\ registered_conns[j].id = i
    BY <1>1, Lists DEF Matches
  <1>3. \A k \in Matches(i) : k = j
    BY <1>2, ZenonT(60) DEF Matches, Table
  <1>4. \A k \in Matches(i) : k <= j /\ j <= k
    BY <1>2, <1>3
  <1>5. Least(Matches(i)) \in Matches(i) /\ Greatest(Matches(i)) \in Matches(i)
    BY <1>1, <1>4 DEF Least, Greatest
  <1> QED
    BY <1>2, <1>3, <1>5

(* A user that goes on has what it holds. *)
LEMMA HoldsAfter ==
  ASSUME TypeOK, Held, Apart, Table, Shut, NEW t \in Users, UserGoes(t)
  PROVE  Holds(t)'
  <1> USE Names DEF To, table, object, scans
  <1>0. /\ pc \in [Threads -> UserSteps \cup RefreshSteps]
        /\ op \in [Users -> Ops] /\ wanted \in [Users -> Ids \cup {Nothing}]
        /\ conn \in [Users -> Objects \cup {Nothing}] /\ x \in [Threads -> Places]
        /\ life \in [Objects -> {"none", "live", "deleted"}]
    BY DEF TypeOK
  <1>h. Holds(t)
    BY HeldIs
  <1>r. Return(t) => pc'[t] = "idle"
    BY <1>0 DEF Return
  <1>1. CASE Begin(t)
    <2>1. pc'[t] = "wait" \/ (pc'[t] = "construct" /\ op'[t] = "create")
      BY <1>0, <1>1 DEF Begin
    <2> QED
      BY <2>1 DEF Holds, Holding
  <1>2. CASE Look(t)
    <2>1. /\ pc[t] = "wait" /\ pc'[t] = "enter" /\ op'[t] # "report" /\ life' = life
          /\ Matches(wanted[t]) # {}
          /\ \E k \in {Least(Matches(wanted[t])), Greatest(Matches(wanted[t]))} :
               conn'[t] = Entry(k)
      BY <1>0, <1>2 DEF Look, Entry
    <2>2. \E k \in Listed : conn'[t] = Entry(k)
      BY <2>1, OneMatch
    <2>3. \A o \in Objects : ~ Scanning(o)
      BY <2>1 DEF Shut
    <2>4. life'[conn'[t]] = "live"
      BY <1>0, <2>1, <2>2, <2>3, NothingDeleted
    <2> QED
      BY <2>1, <2>4 DEF Holds, Holding
  <1>3. CASE NotFound(t)
    <2>1. pc'[t] = "idle" \/ (pc'[t] = "construct" /\ op'[t] = "path")
      BY <1>0, <1>3, <1>r DEF NotFound
    <2> QED
      BY <2>1 DEF Holds, Holding
  <1>4. CASE Find(t)
    <2>1. /\ pc'[t] = "fetch" /\ op'[t] \in {"get", "status"} /\ x'[t] = Least(Matches(wanted[t]))
          /\ Matches(wanted[t]) # {} /\ UNCHANGED table
      BY <1>0, <1>4 DEF Find
    <2>2. x'[t] \in Listed'
      BY <2>1, OneMatch, SameEntries
    <2> QED
      BY <2>1, <2>2 DEF Holds, Holding
  <1>5. CASE Fetch(t)
    <2>1. /\ pc[t] = "fetch" /\ pc'[t] \in {"read", "enter"} /\ op'[t] = op[t] /\ life' = life
          /\ conn'[t] = Entry(x[t])
      BY <1>0, <1>5 DEF Fetch, Entry
    <2>2. x[t] \in Listed /\ op[t] # "report"
      BY <1>h, <2>1 DEF Holds
    <2>3. life'[conn'[t]] = "live"
      BY <1>0, <2>1, <2>2, NothingDeleted
    <2> QED
      BY <2>1, <2>2, <2>3 DEF Holds, Holding
  <1>6. CASE Enter(t)
    <2>1. /\ pc[t] = "enter" /\ pc'[t] = "inside" /\ UNCHANGED << op, x, conn, life >>
          /\ UNCHANGED table
      BY <1>0, <1>6 DEF Enter
    <2>2. life[conn[t]] = "live" /\ (op[t] = "report" => x[t] \in Listed)
      BY <1>h, <2>1 DEF Holds, Holding
    <2> QED
      BY <2>1, <2>2, SameEntries DEF Holds, Holding
  <1>7. CASE Leave(t)
    <2>1. pc'[t] \in {"idle", "next"}
      BY <1>0, <1>7, <1>r DEF Leave
    <2> QED
      BY <2>1 DEF Holds, Holding
  <1>8. CASE t = "main" /\ Report
    <2>1. pc'[t] = "next"
      BY <1>0, <1>8 DEF Report
    <2> QED
      BY <2>1 DEF Holds, Holding
  <1>9. CASE t = "main" /\ ReportNext
    <2>1. /\ pc[t] = "next" /\ pc'[t] = "enter" /\ life' = life /\ x' = x
          /\ conn'[t] = Entry(x[t]) /\ x[t] \in Listed /\ UNCHANGED table
      BY <1>0, <1>9 DEF ReportNext, Entry
    <2>2. life'[conn'[t]] = "live"
      BY <1>0, <2>1, NothingDeleted
    <2>3. x'[t] \in Listed'
      BY <2>1, SameEntries
    <2> QED
      BY <2>1, <2>2, <2>3 DEF Holds, Holding
  <1>10. CASE t = "main" /\ ReportDone
    <2>1. pc'[t] = "idle"
      BY <1>r, <1>10 DEF ReportDone
    <2> QED
      BY <2>1 DEF Holds, Holding
  <1>11. CASE ReadStatus(t)
    <2>1. pc'[t] = "idle"
      BY <1>r, <1>11 DEF ReadStatus
    <2> QED
      BY <2>1 DEF Holds, Holding
  <1> QED
    BY <1>1, <1>2, <1>3, <1>4, <1>5, <1>6, <1>7, <1>8, <1>9, <1>10, <1>11 DEF UserGoes

LEMMA HeldKept ==
  ASSUME TypeOK, Held, Apart, Apart', Shut, Mine, Threading, Table, AtEntry, Within
  PROVE  Held'
  <1> USE Names
  <1>0. /\ pc \in [Threads -> UserSteps \cup RefreshSteps]
        /\ life \in [Objects -> {"none", "live", "deleted"}]
        /\ conn \in [Users -> Objects \cup {Nothing}]
        /\ \A t \in Users : Holding(t) => conn[t] \in Objects
    BY DEF TypeOK
  <1>h. /\ \A t \in Users : Holds(t)
        /\ \A o \in Objects : life[o] = "deleted" => pc[o] \in EndOfThread
    BY HeldIs
  <1>p. /\ (\A t \in Users : Holds(t)')
        /\ (\A o \in Objects : life'[o] = "deleted" => pc'[o] \in EndOfThread)
        => Held'
    BY DEF Held, Holds, EndOfThread
  <1>s. ASSUME NEW t \in Users, \A j \in Listed : j \in Listed',
               pc'[t] = pc[t], conn'[t] = conn[t], op'[t] = op[t], x'[t] = x[t],
               Holding(t) => life'[conn[t]] = "live"
        PROVE  Holds(t)'
    BY <1>h, <1>s DEF Holds, Holding
  <1>1. ASSUME NEW t \in Users, UserMoves(t), UserGoes(t)
        PROVE  Held'
    <2>1. UNCHANGED table /\ life' = life
          /\ \A u \in Users \ {t} : conn'[u] = conn[u] /\ op'[u] = op[u] /\ x'[u] = x[u]
      BY <1>1 DEF UserMoves, table
    <2>2. \A u \in Threads : u # t => pc'[u] = pc[u]
      BY <1>0, <1>1 DEF UserMoves
    <2>3. ASSUME NEW u \in Users
          PROVE  Holds(u)'
      <3>1. CASE u = t
        BY <1>1, <3>1, HoldsAfter
      <3>2. CASE u # t
        <4>1. Holding(u) => life[conn[u]] = "live"
          BY <1>h DEF Holds
        <4> QED
          BY <1>s, <2>1, <2>2, <3>2, <4>1, SameEntries
      <3> QED
        BY <3>1, <3>2
    <2>4. \A o \in Objects : pc'[o] = pc[o]
      BY <2>2
    <2> QED
      BY <1>h, <1>p, <2>1, <2>3, <2>4
  <1>2. ASSUME NEW p \in Objects, RefreshMoves(p)
        PROVE  Held'
    <2>1. UNCHANGED table /\ UNCHANGED << life, conn, op >>
          /\ (pc'[p] \in {"scan", "delete", "ended"} \/ life[p] # "deleted")
          /\ \A u \in Threads \ {p} : x'[u] = x[u]
      BY <1>2 DEF RefreshMoves, table
    <2>2. \A u \in Threads : u # p => pc'[u] = pc[u]
      BY <1>0, <1>2 DEF RefreshMoves
    <2>3. ASSUME NEW u \in Users
          PROVE  Holds(u)'
      <3>1. u # p /\ (Holding(u) => life[conn[u]] = "live")
        BY <1>h DEF Holds
      <3> QED
        BY <1>s, <2>1, <2>2, <3>1, SameEntries
    <2>4. ASSUME NEW o \in Objects, life'[o] = "deleted"
          PROVE  pc'[o] \in EndOfThread
      BY <1>h, <2>1, <2>2, <2>4 DEF EndOfThread
    <2> QED
      BY <1>p, <2>3, <2>4
  <1>3. ASSUME NEW t \in Users, Construct(t)
        PROVE  Held'
    <2>1. PICK p \in Objects :
            /\ pc[t] = "construct" /\ pc' = [pc EXCEPT ![t] = "wait to register"]
            /\ life[p] = "none" /\ life' = [life EXCEPT ![p] = "live"]
            /\ conn' = [conn EXCEPT ![t] = p]
            /\ UNCHANGED table /\ op' = op /\ x' = x
      BY <1>3, Constructs DEF table
    <2>2. /\ \A u \in Threads : u # t => pc'[u] = pc[u]
          /\ pc'[t] = "wait to register" /\ conn'[t] = p /\ life'[p] = "live"
          /\ \A u \in Users \ {t} : conn'[u] = conn[u]
      BY <1>0, <2>1
    <2>3. ASSUME NEW o \in Objects, life[o] = "live"
          PROVE  life'[o] = "live"
      BY <1>0, <2>1, <2>3
    <2>4. ASSUME NEW u \in Users
          PROVE  Holds(u)'
      <3>1. CASE u = t
        <4>1. op[t] # "report"
          BY <1>h, <2>1 DEF Holds
        <4> QED
          BY <2>1, <2>2, <3>1, <4>1 DEF Holds
      <3>2. CASE u # t
        <4>1. Holding(u) => life'[conn[u]] = "live"
          BY <1>0, <1>h, <2>3 DEF Holds
        <4> QED
          BY <1>s, <2>1, <2>2, <3>2, <4>1, SameEntries
      <3> QED
        BY <3>1, <3>2
    <2>5. \A o \in Objects : life'[o] = "deleted" => life[o] = "deleted" /\ pc'[o] = pc[o]
      BY <1>0, <2>1, <2>2
    <2> QED
      BY <1>h, <1>p, <2>4, <2>5
  <1>4. ASSUME NEW t \in Users, Register(t)
        PROVE  Held'
    <2>1. /\ pc[t] = "wait to register" /\ pc' = [pc EXCEPT ![t] = "spawn"]
          /\ UNCHANGED << life, conn, op, x >>
      BY <1>4, Registers DEF object
    <2>2. /\ \A u \in Threads : u # t => pc'[u] = pc[u]
          /\ pc'[t] = "spawn"
      BY <1>0, <2>1
    <2>3. \A j \in Listed : j \in Listed'
      <3>1. CASE UNCHANGED table
        BY <3>1, SameEntries
      <3>2. CASE Enters(t)
        <4>1. registered_conns_count \in Nat /\ Listed = 0 .. registered_conns_count - 1
          BY Lists DEF Listed
        <4>2. Listed' = 0 .. registered_conns_count' - 1
          BY DEF Listed
        <4>3. registered_conns_count' = registered_conns_count + 1
          BY <3>2 DEF Enters
        <4>4. ASSUME NEW j \in Listed
              PROVE  j \in Listed'
          <5>1. j \in 0 .. registered_conns_count - 1
            BY <4>1
          <5>2. j \in 0 .. (registered_conns_count + 1) - 1
            BY <4>1, <5>1
          <5> QED
            BY <4>2, <4>3, <5>2
        <4> QED
          BY <4>4
      <3> QED
        BY <1>4, <3>1, <3>2, Registers
    <2>4. ASSUME NEW u \in Users
          PROVE  Holds(u)'
      <3>1. CASE u = t
        <4>1. op[t] # "report" /\ life[conn[t]] = "live"
          BY <1>h, <2>1 DEF Holds, Holding
        <4> QED
          BY <2>1, <2>2, <3>1, <4>1 DEF Holds
      <3>2. CASE u # t
        <4>1. Holding(u) => life'[conn[u]] = "live"
          BY <1>h, <2>1 DEF Holds
        <4> QED
          BY <1>s, <2>1, <2>2, <2>3, <3>2, <4>1
      <3> QED
        BY <3>1, <3>2
    <2>5. \A o \in Objects : pc'[o] = pc[o]
      BY <2>1, <2>2
    <2> QED
      BY <1>h, <1>p, <2>1, <2>4, <2>5
  <1>5. ASSUME NEW t \in Users, Spawn(t)
        PROVE  Held'
    <2>1. /\ pc[t] = "spawn" /\ pc' = [pc EXCEPT ![t] = "enter", ![conn[t]] = "loop"]
          /\ UNCHANGED << life, conn, op, x >> /\ UNCHANGED table
      BY <1>5 DEF Spawn, object
    <2>2. conn[t] \in Objects /\ life[conn[t]] = "live" /\ op[t] # "report"
      BY <1>0, <1>h, <2>1 DEF Holds, Holding
    <2>3. /\ pc'[t] = "enter"
          /\ \A u \in Threads : u # t /\ u # conn[t] => pc'[u] = pc[u]
      BY <1>0, <2>1, <2>2
    <2>4. ASSUME NEW u \in Users
          PROVE  Holds(u)'
      <3>1. CASE u = t
        BY <2>1, <2>2, <2>3, <3>1 DEF Holds
      <3>2. CASE u # t
        <4>1. (Holding(u) => life'[conn[u]] = "live") /\ u # conn[t]
          BY <1>h, <2>1, <2>2 DEF Holds
        <4> QED
          BY <1>s, <2>1, <2>3, <3>2, <4>1, SameEntries
      <3> QED
        BY <3>1, <3>2
    <2>5. \A o \in Objects : life[o] = "deleted" => pc'[o] = pc[o]
      BY <2>1, <2>2, <2>3
    <2> QED
      BY <1>h, <1>p, <2>1, <2>4, <2>5
  <1>6. ASSUME NEW p \in Objects, ScanDeletes(p)
        PROVE  Held'
    <2>1. /\ pc[p] = "delete" /\ pc' = [pc EXCEPT ![p] = "unregister"]
          /\ life' = [life EXCEPT ![Entry(x[p])] = "deleted"]
          /\ UNCHANGED << conn, op, x >> /\ UNCHANGED table
      BY <1>6 DEF ScanDeletes, To, Entry
    <2>2. /\ x[p] \in Listed /\ IsFinished(Entry(x[p])) /\ Entry(x[p]) \in Objects
      BY <2>1 DEF AtEntry, Table
    <2>3. pc'[p] = "unregister" /\ \A u \in Threads : u # p => pc'[u] = pc[u]
      BY <1>0, <2>1
    <2>4. ASSUME NEW u \in Users, Holding(u)
          PROVE  life'[conn[u]] = "live"
      <3>1. pc[u] = "wait to register"
        BY <2>1, <2>4 DEF Apart, Scanning, Holding
      <3>2. conn[u] # Entry(x[p])
        BY <2>2, <3>1 DEF Mine
      <3> QED
        BY <1>0, <1>h, <2>1, <2>4, <3>2 DEF Holds
    <2>5. ASSUME NEW u \in Users
          PROVE  Holds(u)'
      BY <1>s, <2>1, <2>3, <2>4, SameEntries
    <2>6. pc[Entry(x[p])] \in EndOfThread
      <3>1. PICK c \in Objects : c = Entry(x[p])
        BY <2>2
      <3>2. /\ \A u \in Users : pc[u] # "spawn"
            /\ \A q \in Objects \ {p} : pc[q] \notin {"zeroed", "signal"}
        BY <2>1 DEF Apart, Scanning
      <3>3. pc[c] # "not started"
        <4>1. pc[c] = "not started" => \E u \in Users : pc[u] = "spawn" /\ conn[u] = c
          BY <2>2, <3>1, ZenonT(60) DEF Table
        <4> QED
          BY <3>2, <4>1
      <3>4. pc[c] \notin {"loop", "timeout"}
        <4>1. refresh_tread_state[c] = 0
          BY <2>2, <3>1 DEF IsFinished
        <4>2. pc[c] \in {"loop", "timeout"} => refresh_tread_state[c] = 1
          BY <3>1 DEF Threading
        <4> QED
          BY <4>1, <4>2
      <3>5. pc[c] \notin {"zeroed", "signal"}
        BY <2>1, <3>2
      <3>6. pc[c] \in RefreshSteps
        BY <3>1 DEF Threading
      <3> QED
        BY <3>1, <3>3, <3>4, <3>5, <3>6 DEF RefreshSteps, EndOfThread
    <2>7. ASSUME NEW o \in Objects, life'[o] = "deleted"
          PROVE  pc'[o] \in EndOfThread
      <3>1. pc[o] \in EndOfThread
        BY <1>0, <1>h, <2>1, <2>6, <2>7
      <3> QED
        BY <2>3, <3>1 DEF EndOfThread
    <2> QED
      BY <1>p, <2>5, <2>7
  <1>7. ASSUME NEW p \in Objects, ScanUnregisters(p)
        PROVE  Held'
    <2>1. /\ pc[p] = "unregister" /\ pc' = [pc EXCEPT ![p] = "scan"]
          /\ UNCHANGED << life, conn, op >>
      BY <1>7, Unregisters DEF object
    <2>2. pc'[p] = "scan" /\ \A u \in Threads : u # p => pc'[u] = pc[u]
      BY <1>0, <2>1
    <2>3. \A u \in Users : pc[u] \notin {"spawn", "fetch", "next", "read", "enter", "inside"}
      BY <2>1 DEF Apart, Scanning
    <2>4. ASSUME NEW u \in Users
          PROVE  Holds(u)'
      <3>1. pc'[u] = pc[u]
        BY <2>2
      <3> QED
        BY <1>h, <2>1, <2>3, <3>1 DEF Holds, Holding
    <2>5. ASSUME NEW o \in Objects, life'[o] = "deleted"
          PROVE  pc'[o] \in EndOfThread
      BY <1>h, <2>1, <2>2, <2>5 DEF EndOfThread
    <2> QED
      BY <1>p, <2>4, <2>5
  <1> QED
    BY Cases, <1>1, <1>2, <1>3, <1>4, <1>5, <1>6, <1>7

(* What is deleted stays so, and what a clean-up had to remove is noted    *)
(* once. *)
LEMMA Remembered ==
  ASSUME TypeOK, Table, AtEntry, Within
  PROVE  /\ \A c \in Objects : life[c] = "deleted" => life'[c] = "deleted"
         /\ (found' = found /\ behind' = behind) \/ \E o \in Objects : ScanBegins(o)
  <1> USE Names DEF object, scans
  <1>0. life \in [Objects -> {"none", "live", "deleted"}]
    BY DEF TypeOK
  <1>1. ASSUME NEW t \in Users, Construct(t)
        PROVE  /\ \A c \in Objects : life[c] = "deleted" => life'[c] = "deleted"
               /\ found' = found /\ behind' = behind
    <2>1. PICK o \in Objects : /\ life[o] = "none" /\ life' = [life EXCEPT ![o] = "live"]
                               /\ UNCHANGED << found, behind >>
      BY <1>1, Constructs
    <2> QED
      BY <1>0, <2>1
  <1>2. ASSUME NEW o \in Objects, ScanDeletes(o)
        PROVE  /\ \A c \in Objects : life[c] = "deleted" => life'[c] = "deleted"
               /\ found' = found /\ behind' = behind
    BY <1>0, <1>2 DEF ScanDeletes
  <1>3. ASSUME NEW t \in Users,
               \/ Begin(t) \/ Enter(t) \/ Look(t) \/ NotFound(t) \/ Find(t) \/ Fetch(t)
               \/ Register(t) \/ Spawn(t) \/ Leave(t)
               \/ Report \/ ReportNext \/ ReportDone \/ ReadStatus(t)
        PROVE  life' = life /\ found' = found /\ behind' = behind
    BY <1>3 DEF Begin, Enter, Look, NotFound, Find, Fetch, Register, Spawn, Leave,
                Report, ReportNext, ReportDone, ReadStatus
  <1>4. ASSUME NEW o \in Objects,
               \/ TimeoutBegins(o) \/ SeesDown(o) \/ Timeout(o)
               \/ ScanEnds(o) \/ ScanTests(o) \/ ScanUnregisters(o)
        PROVE  life' = life /\ found' = found /\ behind' = behind
    BY <1>4 DEF TimeoutBegins, SeesDown, Timeout, TimesOut, TimeoutEnds, ScanEnds,
                ScanTests, ScanUnregisters
  <1>5. ASSUME NEW o \in Objects, ScanBegins(o)
        PROVE  life' = life
    BY <1>5 DEF ScanBegins
  <1>6. \/ \E t \in Users : Construct(t)
        \/ \E o \in Objects : ScanDeletes(o) \/ ScanBegins(o)
        \/ \E t \in Users : \/ Begin(t) \/ Enter(t) \/ Look(t) \/ NotFound(t) \/ Find(t)
                            \/ Fetch(t) \/ Register(t) \/ Spawn(t) \/ Leave(t)
                            \/ Report \/ ReportNext \/ ReportDone \/ ReadStatus(t)
        \/ \E o \in Objects : \/ TimeoutBegins(o) \/ SeesDown(o) \/ Timeout(o)
                              \/ ScanEnds(o) \/ ScanTests(o) \/ ScanUnregisters(o)
    BY DEF Within, UserStep, Scan
  <1> QED
    BY <1>1, <1>2, <1>3, <1>4, <1>5, <1>6

(* A clean-up another thread passes by. *)
LEMMA LeftAlone ==
  ASSUME Table, UNCHANGED << table, found, behind >>, NEW o \in Objects, Left(o), x'[o] = x[o],
         \A c \in Objects : life[c] = "deleted" => life'[c] = "deleted",
         \A c \in Objects : life[c] # "none" => (IsFinished(c)' <=> IsFinished(c)),
         found \subseteq Objects
  PROVE  Left(o)'
  <1>1. Listed' = Listed /\ \A j : Entry(j)' = Entry(j)
    BY SameEntries DEF table
  <1>2. found' = found /\ behind' = behind
    OBVIOUS
  <1>3. \A j \in Listed : Entry(j) \in Objects /\ life[Entry(j)] # "none"
    BY DEF Table
  <1>4. ASSUME NEW k \in Listed
        PROVE  path_state'[Entry(k)] = "down" /\ refresh_tread_state'[Entry(k)] = 0
                 <=> IsFinished(Entry(k))
    <2>1. PICK c \in Objects : c = Entry(k) /\ life[c] # "none"
      BY <1>3
    <2> QED
      BY <2>1 DEF IsFinished
  <1>5. ASSUME NEW k \in Listed', k >= x'[o], k + 1 \in Listed',
               IsFinished(Entry(k))', IsFinished(Entry(k + 1))'
        PROVE  Entry(k + 1)' \in behind'
    <2>1. k \in Listed /\ k + 1 \in Listed /\ k >= x[o]
      BY <1>1, <1>5
    <2>2. IsFinished(Entry(k)) /\ IsFinished(Entry(k + 1))
      BY <1>1, <1>4, <1>5, <2>1 DEF IsFinished
    <2> QED
      BY <1>1, <1>2, <2>1, <2>2 DEF Left
  <1>6. ASSUME NEW c \in found' \ behind', life'[c] # "deleted"
        PROVE  \E k \in Listed' : k >= x'[o] /\ Entry(k)' = c /\ IsFinished(c)'
    <2>1. c \in found \ behind /\ c \in Objects /\ life[c] # "deleted"
      BY <1>2, <1>6
    <2>2. PICK k \in Listed : k >= x[o] /\ Entry(k) = c /\ IsFinished(c)
      BY <2>1 DEF Left
    <2>3. IsFinished(c)'
      BY <1>3, <2>1, <2>2
    <2> QED
      BY <1>1, <2>2, <2>3
  <1> QED
    BY <1>5, <1>6 DEF Left

LEMMA ToRemoveKept ==
  ASSUME TypeOK, Held, Apart, Apart', Table, AtEntry, ToRemove, Within
  PROVE  ToRemove'
  <1> USE Names
  <1>0. /\ pc \in [Threads -> UserSteps \cup RefreshSteps] /\ x \in [Threads -> Places]
        /\ found \subseteq Objects
        /\ \A t \in Users : Building(t) => conn[t] \in Objects
    BY DEF TypeOK, Holding, Building
  <1>d. /\ \A c \in Objects : life[c] = "deleted" => life'[c] = "deleted"
        /\ (found' = found /\ behind' = behind) \/ \E o \in Objects : ScanBegins(o)
    BY Remembered
  <1>p. (\A o \in Objects : Scanning(o)' => Left(o)') => ToRemove'
    BY DEF ToRemove
  <1>l. \A o \in Objects : Scanning(o) => Left(o)
    BY DEF ToRemove
  <1>s. ASSUME NEW o \in Objects, Scanning(o), x'[o] = x[o], UNCHANGED table,
               found' = found, behind' = behind,
               \A c \in Objects : life[c] # "none" => (IsFinished(c)' <=> IsFinished(c))
        PROVE  Left(o)'
    BY <1>0, <1>d, <1>l, <1>s, LeftAlone
  <1>a. ASSUME NEW o \in Objects, Scanning(o)'
        PROVE  /\ \A t \in Users : pc'[t] \notin {"spawn", "fetch", "next", "read", "enter", "inside"}
               /\ \A p \in Objects \ {o} :
                    pc'[p] \notin {"zeroed", "signal", "scan", "delete", "unregister"}
    BY <1>a DEF Apart
  <1>1. ASSUME NEW t \in Users, UserMoves(t), NEW o \in Objects, Scanning(o)'
        PROVE  Left(o)'
    <2>1. pc'[o] = pc[o]
      BY <1>0, <1>1 DEF UserMoves
    <2>2. Scanning(o)
      BY <1>1, <2>1 DEF Scanning
    <2>3. pc[t] # "inside"
      BY <2>2 DEF Apart
    <2>4. /\ x'[o] = x[o] /\ found' = found /\ behind' = behind /\ UNCHANGED table
          /\ path_state' = path_state /\ refresh_tread_state' = refresh_tread_state
      BY <1>1, <2>3 DEF UserMoves, table
    <2> QED
      BY <1>s, <2>2, <2>4 DEF IsFinished
  <1>2. ASSUME NEW t \in Users, Construct(t), NEW o \in Objects, Scanning(o)'
        PROVE  Left(o)'
    <2>1. PICK p \in Objects :
            /\ pc' = [pc EXCEPT ![t] = "wait to register"] /\ life[p] = "none"
            /\ \A q \in Objects \ {p} : refresh_tread_state'[q] = refresh_tread_state[q]
            /\ UNCHANGED table /\ UNCHANGED << path_state, x, found, behind >>
      BY <1>2, Constructs DEF table
    <2>2. pc'[o] = pc[o]
      BY <1>0, <2>1
    <2>3. Scanning(o)
      BY <1>2, <2>2 DEF Scanning
    <2>4. \A c \in Objects : life[c] # "none" => (IsFinished(c)' <=> IsFinished(c))
      BY <2>1 DEF IsFinished
    <2> QED
      BY <1>s, <2>1, <2>3, <2>4
  <1>3. ASSUME NEW t \in Users, Register(t), NEW o \in Objects, Scanning(o)'
        PROVE  Left(o)'
    <2>1. pc' = [pc EXCEPT ![t] = "spawn"]
      BY <1>3, Registers
    <2>2. pc'[t] = "spawn"
      BY <1>0, <2>1
    <2> QED
      BY <1>3, <1>a, <2>2
  <1>4. ASSUME NEW t \in Users, Spawn(t), NEW o \in Objects, Scanning(o)'
        PROVE  Left(o)'
    <2>1. /\ pc[t] = "spawn" /\ pc' = [pc EXCEPT ![t] = "enter", ![conn[t]] = "loop"]
          /\ conn[t] \in Objects
      BY <1>0, <1>4 DEF Spawn, Building
    <2>2. pc'[t] = "enter"
      BY <1>0, <2>1
    <2> QED
      BY <1>4, <1>a, <2>2
  <1>5. ASSUME NEW p \in Objects, TimeoutBegins(p) \/ SeesDown(p) \/ Timeout(p),
               NEW o \in Objects, Scanning(o)'
        PROVE  Left(o)'
    <2>1. /\ RefreshMoves(p) /\ pc'[p] \in {"timeout", "zeroed", "signal", "ended"}
      <3>1. RefreshMoves(p)
        BY <1>5, RefreshesMove
      <3>2. pc'[p] \in {"timeout", "zeroed", "signal", "ended"}
        BY <1>0, <1>5 DEF TimeoutBegins, SeesDown, Timeout, TimesOut, TimeoutEnds, To
      <3> QED
        BY <3>1, <3>2
    <2>2. o # p
      BY <1>5, <2>1 DEF Scanning
    <2>3. pc'[o] = pc[o]
      BY <1>0, <2>1, <2>2 DEF RefreshMoves
    <2>4. Scanning(o)
      BY <1>5, <2>3 DEF Scanning
    <2>5. pc'[p] \notin {"zeroed", "signal"}
      BY <1>5, <1>a, <2>2
    <2>6. /\ x'[o] = x[o] /\ UNCHANGED table
          /\ path_state' = path_state /\ refresh_tread_state' = refresh_tread_state
      BY <2>1, <2>2, <2>5 DEF RefreshMoves, table
    <2>7. found' = found /\ behind' = behind
      BY <1>5 DEF TimeoutBegins, SeesDown, Timeout, TimesOut, TimeoutEnds, scans
    <2> QED
      BY <1>s, <2>4, <2>6, <2>7 DEF IsFinished
  <1>6. ASSUME NEW p \in Objects, ScanBegins(p), NEW o \in Objects, Scanning(o)'
        PROVE  Left(o)'
    <2>1. pc'[p] = "scan" /\ x'[p] = 0
      BY <1>0, <1>6 DEF ScanBegins, To
    <2>2. o = p
      BY <1>6, <1>a, <2>1
    <2>3. /\ UNCHANGED table
          /\ UNCHANGED << life, path_state, refresh_tread_state >>
      BY <1>6 DEF ScanBegins, table, object
    <2> DEFINE due == {k \in Listed : IsFinished(Entry(k))}
    <2>4. /\ found' = {Entry(k) : k \in due}
          /\ behind' = {Entry(k) : k \in {j \in due : j - 1 \in due}}
      BY <1>6 DEF ScanBegins, Finished, IsFinished, Entry
    <2>5. Listed' = Listed /\ \A j : Entry(j)' = Entry(j)
      BY <2>3, SameEntries
    <2>6. \A j : IsFinished(Entry(j))' <=> IsFinished(Entry(j))
      BY <2>3, <2>5 DEF IsFinished
    <2>7. ASSUME NEW k \in Listed', k + 1 \in Listed',
                 IsFinished(Entry(k))', IsFinished(Entry(k + 1))'
          PROVE  Entry(k + 1)' \in behind'
      <3>1. k \in due /\ k + 1 \in due /\ (k + 1) - 1 = k
        BY <2>5, <2>6, <2>7, Lists
      <3> QED
        BY <2>4, <2>5, <3>1
    <2>8. ASSUME NEW c \in found'
          PROVE  \E k \in Listed' : k >= 0 /\ Entry(k)' = c /\ IsFinished(c)'
      <3>1. PICK k \in due : c = Entry(k)
        BY <2>4, <2>8
      <3>2. k \in Listed' /\ k >= 0 /\ Entry(k)' = c
        BY <2>5, <3>1, Lists
      <3>3. IsFinished(c)'
        BY <2>3, <3>1 DEF IsFinished
      <3> QED
        BY <3>2, <3>3
    <2> HIDE DEF due
    <2> QED
      BY <2>1, <2>2, <2>7, <2>8 DEF Left
  <1>7. ASSUME NEW p \in Objects, ScanEnds(p), NEW o \in Objects, Scanning(o)'
        PROVE  Left(o)'
    <2>1. /\ pc[p] = "scan" /\ pc' = [pc EXCEPT ![p] = "ended"] /\ UNCHANGED table
          /\ UNCHANGED << x, found, behind, path_state, refresh_tread_state >>
      BY <1>7 DEF ScanEnds, To, table, scans
    <2>2. o # p
      BY <1>0, <1>7, <2>1 DEF Scanning
    <2>3. Scanning(o)
      BY <1>0, <1>7, <2>1, <2>2 DEF Scanning
    <2> QED
      BY <1>s, <2>1, <2>3 DEF IsFinished
  <1>8. ASSUME NEW p \in Objects, ScanTests(p), NEW o \in Objects, Scanning(o)'
        PROVE  Left(o)'
    <2>1. /\ pc[p] = "scan" /\ x[p] < registered_conns_count /\ UNCHANGED table
          /\ UNCHANGED << found, behind, path_state, refresh_tread_state, life >>
      BY <1>8 DEF ScanTests, table, scans, object
    <2>2. Scanning(p)
      BY <2>1 DEF Scanning
    <2>3. o = p
      <3>1. \A q \in Objects \ {p} : ~ Scanning(q)
        BY <2>2 DEF Apart, Scanning
      <3>2. \A q \in Objects \ {p} : pc'[q] = pc[q]
        BY <1>0, <1>8 DEF ScanTests, To
      <3> QED
        BY <1>8, <3>1, <3>2 DEF Scanning
    <2>4. CASE IsFinished(Entry(x[p]))
      <3>1. x' = x
        BY <1>8, <2>4 DEF ScanTests, Finished, IsFinished, Entry
      <3> QED
        BY <1>s, <2>1, <2>2, <2>3, <3>1 DEF IsFinished
    <2>5. CASE ~ IsFinished(Entry(x[p]))
      <3>1. x'[p] = x[p] + 1 /\ x[p] \in Nat
        BY <1>0, <1>8, <2>5 DEF ScanTests, Finished, IsFinished, Entry
      <3>2. Listed' = Listed /\ \A j : Entry(j)' = Entry(j)
        BY <2>1, SameEntries
      <3>3. \A c : IsFinished(c)' <=> IsFinished(c)
        BY <2>1 DEF IsFinished
      <3>4. \A j : IsFinished(Entry(j))' <=> IsFinished(Entry(j))
        BY <2>1, <3>2 DEF IsFinished
      <3>5. Left(p)
        BY <1>l, <2>2
      <3>6. ASSUME NEW k \in Listed', k >= x'[p], k + 1 \in Listed',
                   IsFinished(Entry(k))', IsFinished(Entry(k + 1))'
            PROVE  Entry(k + 1)' \in behind'
        <4>1. k \in Listed /\ k \in Nat /\ k >= x[p] /\ k + 1 \in Listed
          BY <3>1, <3>2, <3>6, Lists
        <4> QED
          BY <2>1, <3>2, <3>4, <3>5, <3>6, <4>1 DEF Left
      <3>7. ASSUME NEW c \in found' \ behind', life'[c] # "deleted"
            PROVE  \E k \in Listed' : k >= x'[p] /\ Entry(k)' = c /\ IsFinished(c)'
        <4>1. PICK k \in Listed : k >= x[p] /\ Entry(k) = c /\ IsFinished(c)
          BY <2>1, <3>5, <3>7 DEF Left
        <4>2. k # x[p] /\ k \in Nat
          BY <2>5, <4>1, Lists
        <4>3. k >= x'[p]
          BY <3>1, <4>1, <4>2
        <4> QED
          BY <3>2, <3>3, <4>1, <4>3
      <3> QED
        BY <2>3, <3>6, <3>7 DEF Left
    <2> QED
      BY <2>4, <2>5
  <1>9. ASSUME NEW p \in Objects, ScanDeletes(p), NEW o \in Objects, Scanning(o)'
        PROVE  Left(o)'
    <2>1. /\ pc[p] = "delete" /\ pc' = [pc EXCEPT ![p] = "unregister"] /\ UNCHANGED table
          /\ UNCHANGED << x, found, behind, path_state, refresh_tread_state >>
      BY <1>9 DEF ScanDeletes, To, table, scans
    <2>2. Scanning(o)
      BY <1>0, <1>9, <2>1 DEF Scanning
    <2> QED
      BY <1>s, <2>1, <2>2 DEF IsFinished
  <1>10. ASSUME NEW p \in Objects, ScanUnregisters(p), NEW o \in Objects, Scanning(o)'
         PROVE  Left(o)'
    <2>1. /\ pc[p] = "unregister" /\ pc' = [pc EXCEPT ![p] = "scan"]
          /\ x' = [x EXCEPT ![p] = x[p] + 1]
          /\ UNCHANGED << found, behind, path_state, refresh_tread_state, life >>
      BY <1>10, Unregisters DEF object
    <2>2. x'[p] = x[p] + 1 /\ pc'[p] = "scan"
      BY <1>0, <2>1
    <2>3. o = p
      BY <1>10, <1>a, <2>2
    <2>4. /\ \A j \in Listed' : /\ j \in Listed /\ j + 1 \in Listed
                               /\ Entry(j)' = IF j < x[p] THEN Entry(j) ELSE Entry(j + 1)
          /\ \A k \in Listed : k > x[p] => k - 1 \in Listed' /\ Entry(k - 1)' = Entry(k)
          /\ x[p] \in Listed /\ x[p] \in Nat
      BY <1>10, FewerEntries
    <2>5. IsFinished(Entry(x[p])) /\ life[Entry(x[p])] = "deleted"
      BY <2>1 DEF AtEntry
    <2>6. Left(p)
      BY <1>l, <2>1 DEF Scanning
    <2>7. \A c : IsFinished(c)' <=> IsFinished(c)
      BY <2>1 DEF IsFinished
    <2>8. ASSUME NEW k \in Listed', k >= x'[p], k + 1 \in Listed',
                 IsFinished(Entry(k))', IsFinished(Entry(k + 1))'
          PROVE  Entry(k + 1)' \in behind'
      <3>1. /\ k \in Nat /\ k + 1 \in Nat /\ k + 1 >= x[p] /\ ~ (k < x[p]) /\ ~ (k + 1 < x[p])
            /\ k + 1 \in Listed /\ (k + 1) + 1 \in Listed
        BY <2>2, <2>4, <2>8, Lists
      <3>2. Entry(k)' = Entry(k + 1) /\ Entry(k + 1)' = Entry((k + 1) + 1)
        BY <2>4, <2>8, <3>1
      <3>3. IsFinished(Entry(k + 1)) /\ IsFinished(Entry((k + 1) + 1))
        BY <2>1, <2>8, <3>2 DEF IsFinished
      <3>4. Entry((k + 1) + 1) \in behind
        BY <2>6, <3>1, <3>3 DEF Left
      <3> QED
        BY <2>1, <3>2, <3>4
    <2>9. ASSUME NEW c \in found' \ behind', life'[c] # "deleted"
          PROVE  \E k \in Listed' : k >= x'[p] /\ Entry(k)' = c /\ IsFinished(c)'
      <3>1. PICK k \in Listed : k >= x[p] /\ Entry(k) = c /\ IsFinished(c)
        BY <2>1, <2>6, <2>9 DEF Left
      <3>2. k \in Nat /\ k # x[p]
        BY <2>1, <2>5, <2>9, <3>1, Lists
      <3>3. k # x[p] + 1
        <4>1. SUFFICES ASSUME k = x[p] + 1
                       PROVE  FALSE
          OBVIOUS
        <4>2. Entry(x[p] + 1) \in behind
          BY <2>4, <2>5, <2>6, <3>1, <4>1 DEF Left
        <4> QED
          BY <2>1, <2>9, <3>1, <4>1, <4>2
      <3>4. k > x[p] /\ k - 1 >= x'[p]
        BY <2>2, <2>4, <3>1, <3>2, <3>3
      <3>5. k - 1 \in Listed' /\ Entry(k - 1)' = c
        BY <2>4, <3>1, <3>4
      <3> QED
        BY <2>7, <3>1, <3>4, <3>5
    <2> QED
      BY <2>3, <2>8, <2>9 DEF Left
  <1>11. \/ \E t \in Users : UserMoves(t)
         \/ \E t \in Users : Construct(t) \/ Register(t) \/ Spawn(t)
         \/ \E o \in Objects : TimeoutBegins(o) \/ SeesDown(o) \/ Timeout(o)
         \/ \E o \in Objects : ScanBegins(o) \/ ScanEnds(o) \/ ScanTests(o)
         \/ \E o \in Objects : ScanDeletes(o) \/ ScanUnregisters(o)
    BY UsersMove DEF Within, UserStep, Scan, UserGoes
  <1> QED
    BY <1>1, <1>2, <1>3, <1>4, <1>5, <1>6, <1>7, <1>8, <1>9, <1>10, <1>11, <1>p

LEMMA RemovedKept ==
  ASSUME TypeOK, Held, Apart, Table, AtEntry, ToRemove, Removed, Within
  PROVE  Removed'
  <1> USE Names
  <1>0. /\ pc \in [Threads -> UserSteps \cup RefreshSteps] /\ found \subseteq Objects
        /\ x \in [Threads -> Places]
        /\ \A t \in Users : Building(t) => conn[t] \in Objects
    BY DEF TypeOK, Holding, Building
  <1>d. /\ \A c \in Objects : life[c] = "deleted" => life'[c] = "deleted"
        /\ (found' = found /\ behind' = behind) \/ \E o \in Objects : ScanBegins(o)
    BY Remembered
  <1>1. SUFFICES ASSUME \A o \in Objects : ~ Scanning(o)', NEW c \in found' \ behind'
                 PROVE  life'[c] = "deleted"
    BY DEF Removed
  <1>2. ASSUME NEW o \in Objects, ScanBegins(o)
        PROVE  FALSE
    <2>1. pc'[o] = "scan"
      BY <1>0, <1>2 DEF ScanBegins, To
    <2> QED
      BY <1>1, <2>1 DEF Scanning
  <1>3. c \in found \ behind /\ c \in Objects
    BY <1>0, <1>d, <1>1, <1>2
  <1>4. CASE \A o \in Objects : ~ Scanning(o)
    BY <1>d, <1>3, <1>4 DEF Removed
  <1>5. CASE \E o \in Objects : Scanning(o)
    <2>1. PICK o \in Objects : Scanning(o)
      BY <1>5
    <2>2. pc'[o] # pc[o]
      BY <1>1, <2>1 DEF Scanning
    <2>3. ScanEnds(o)
      <3>1. ASSUME NEW t \in Users, UserMoves(t)
            PROVE  pc'[o] = pc[o]
        BY <1>0, <3>1 DEF UserMoves
      <3>2. ASSUME NEW t \in Users, Construct(t)
            PROVE  pc'[o] = pc[o]
        BY <1>0, <3>2 DEF Construct, To
      <3>3. ASSUME NEW t \in Users, Register(t)
            PROVE  pc'[o] = pc[o]
        BY <1>0, <3>3 DEF Register, To
      <3>4. ASSUME NEW t \in Users, Spawn(t)
            PROVE  FALSE
        BY <2>1, <3>4 DEF Spawn, Apart
      <3>5. ASSUME NEW p \in Objects, TimeoutBegins(p) \/ SeesDown(p) \/ Timeout(p) \/ ScanBegins(p)
            PROVE  pc'[o] = pc[o]
        <4>1. \E s \in RefreshSteps : pc' = [pc EXCEPT ![p] = s]
                                      /\ pc[p] \in {"loop", "timeout", "signal", "zeroed"}
          BY <3>5 DEF TimeoutBegins, SeesDown, Timeout, TimesOut, TimeoutEnds, ScanBegins,
                      To, RefreshSteps
        <4>2. p # o
          BY <2>1, <4>1 DEF Scanning
        <4> QED
          BY <1>0, <4>1, <4>2
      <3>6. ASSUME NEW p \in Objects, ScanTests(p) \/ ScanDeletes(p) \/ ScanUnregisters(p)
            PROVE  FALSE
        <4>1. Scanning(p) /\ Scanning(p)'
          BY <1>0, <3>6 DEF ScanTests, ScanDeletes, ScanUnregisters, To, Scanning
        <4> QED
          BY <1>1, <4>1
      <3>7. ASSUME NEW p \in Objects, ScanEnds(p)
            PROVE  p = o
        BY <1>0, <2>2, <3>7 DEF ScanEnds, To
      <3>8. \/ \E t \in Users : UserMoves(t)
            \/ \E t \in Users : Construct(t) \/ Register(t) \/ Spawn(t)
            \/ \E p \in Objects : TimeoutBegins(p) \/ SeesDown(p) \/ Timeout(p) \/ ScanBegins(p)
            \/ \E p \in Objects : ScanTests(p) \/ ScanDeletes(p) \/ ScanUnregisters(p)
            \/ \E p \in Objects : ScanEnds(p)
        BY UsersMove DEF Within, UserStep, Scan, UserGoes
      <3> QED
        BY <2>2, <3>1, <3>2, <3>3, <3>4, <3>5, <3>6, <3>7, <3>8
    <2>4. x[o] >= registered_conns_count /\ x[o] \in Nat
      BY <1>0, <2>3 DEF ScanEnds
    <2>5. \A k \in Listed : ~ (k >= x[o])
      BY <2>4, Lists
    <2>6. Left(o)
      BY <2>1 DEF ToRemove
    <2>7. life[c] = "deleted"
      BY <1>3, <2>5, <2>6 DEF Left
    <2> QED
      BY <1>d, <1>3, <2>7
  <1> QED
    BY <1>4, <1>5

-----------------------------------------------------------------------------
(* The types.                                                              *)

(* As many different things as there are places. *)
LEMMA PlacesSuffice ==
  ASSUME NEW n \in Nat, NEW T, IsFiniteSet(T), NEW f \in [0 .. n - 1 -> T],
         \A j, k \in 0 .. n - 1 : f[j] = f[k] => j = k
  PROVE  n <= Cardinality(T)
  <1>1. Cardinality(T) \in Nat
    BY FS_CardinalityType
  <1>2. IsFiniteSet(0 .. n - 1) /\ Cardinality(0 .. n - 1) = IF 0 > n - 1 THEN 0 ELSE n - 1 - 0 + 1
    BY FS_Interval
  <1>3. Cardinality(0 .. n - 1) = n
    BY <1>2
  <1>4. ~ (Cardinality(T) < Cardinality(0 .. n - 1))
    <2>1. SUFFICES ASSUME Cardinality(T) < Cardinality(0 .. n - 1)
                   PROVE  FALSE
      OBVIOUS
    <2>2. \E a, b \in 0 .. n - 1 : a # b /\ f[a] = f[b]
      BY <1>2, <2>1, FS_PigeonHole
    <2> QED
      BY <2>2
  <1> QED
    BY <1>1, <1>3, <1>4

Waits(t) == pc[t] = "wait to register"

Living == {o \in Objects : life[o] = "live"}

(* The constructor's object is in no entry, and the entries are of         *)
(* different objects, all live while none is being removed: there are      *)
(* fewer entries than live objects.                                        *)
LEMMA Room ==
  ASSUME TypeOK, Mine, Table, NEW t \in Users, Waits(t),
         \A o \in Objects : pc[o] # "unregister"
  PROVE  registered_conns_count < Cardinality(Living)
  <1>1. PICK n \in Nat : n = registered_conns_count /\ Listed = 0 .. n - 1
    BY Lists DEF Listed
  <1>2. PICK c \in Objects : c = conn[t]
    BY DEF TypeOK, Holding, Waits
  <1>3. PICK T : T = Living \ {c}
    OBVIOUS
  <1>c. c \in Living
    BY <1>2 DEF Mine, Building, Waits, Living
  <1>4. \A j \in Listed : Entry(j) \in Living /\ Entry(j) # c
    <2>1. ASSUME NEW j \in Listed
          PROVE  Entry(j) \in Living
      <3>1. PICK e \in Objects : e = Entry(j) /\ life[e] # "none" /\ life[e] # "deleted"
        BY DEF Table
      <3>2. life[e] \in {"none", "live", "deleted"}
        BY DEF TypeOK
      <3> QED
        BY <3>1, <3>2 DEF Living
    <2>2. \A j \in Listed : Entry(j) # conn[t]
      BY DEF Mine, Waits
    <2> QED
      BY <1>2, <2>1, <2>2
  <1>5. \A j, k \in Listed : Entry(j) = Entry(k) => j = k
    <2>1. SUFFICES ASSUME NEW j \in Listed, NEW k \in Listed, Entry(j) = Entry(k)
                   PROVE  j = k
      OBVIOUS
    <2>2. /\ connection_id[Entry(j)] = registered_conns[j].id
          /\ connection_id[Entry(k)] = registered_conns[k].id
      BY TableIs DEF Sound
    <2>3. registered_conns[k].id = registered_conns[j].id => k = j
      BY TableIs DEF Unique
    <2>4. registered_conns[k].id = registered_conns[j].id
      BY <2>1, <2>2
    <2> QED
      BY <2>3, <2>4
  <1>6. PICK f : f = [j \in 0 .. n - 1 |-> Entry(j)]
    OBVIOUS
  <1>7. f \in [0 .. n - 1 -> T]
    BY <1>1, <1>3, <1>4, <1>6
  <1>8. \A j, k \in 0 .. n - 1 : f[j] = f[k] => j = k
    BY <1>1, <1>5, <1>6
  <1>f. IsFiniteSet(Living)
    BY DispatcherAssumption, FS_Subset DEF Living
  <1>9. IsFiniteSet(T) /\ Cardinality(T) = Cardinality(Living) - 1 /\ Cardinality(Living) \in Nat
    BY <1>3, <1>c, <1>f, FS_RemoveElement, FS_CardinalityType
  <1>10. n <= Cardinality(T)
    BY <1>7, <1>8, <1>9, PlacesSuffice
  <1> QED
    BY <1>1, <1>9, <1>10

TableType == registered_conns \in [Places -> Entries] /\ registered_conns_count \in Places
PcType == pc \in [Threads -> UserSteps \cup RefreshSteps]
ConnType ==
  /\ conn \in [Users -> Objects \cup {Nothing}]
  /\ \A t \in Users : Holding(t) => conn[t] \in Objects
XType == x \in [Threads -> Places]
ObjectType ==
  /\ life \in [Objects -> {"none", "live", "deleted"}]
  /\ connection_id \in [Objects -> Ids \cup {Nothing}]
  /\ path_state \in [Objects -> {"null", "setup", "up", "down"}]
  /\ path_direction \in [Objects -> {"undefined", "incoming", "outgoing"}]
  /\ refresh_tread_state \in [Objects -> {0, 1}]
  /\ access \in [Objects -> Threads \cup {"free"}]
UserType ==
  /\ registered_conns_access \in Users \cup {"free"}
  /\ op \in [Users -> Ops]
  /\ wanted \in [Users -> Ids \cup {Nothing}]
  /\ requests \in 0 .. MaxRequests
HistoryType ==
  refused \subseteq Objects /\ found \subseteq Objects /\ behind \subseteq Objects
    /\ overlap \in BOOLEAN

LEMMA Types ==
  TypeOK <=> /\ TableType /\ PcType /\ ConnType /\ XType
             /\ ObjectType /\ UserType /\ HistoryType
  BY DEF TypeOK, TableType, PcType, ConnType, XType, ObjectType, UserType, HistoryType

LEMMA PcTypeKept ==
  ASSUME TypeOK, Held, Within
  PROVE  PcType'
  <1> USE Names
  <1>0. PcType /\ \A t \in Users : Holding(t) => conn[t] \in Objects
    BY Types DEF ConnType
  <1>1. ASSUME NEW t \in Threads, NEW s \in UserSteps \cup RefreshSteps,
               pc' = [pc EXCEPT ![t] = s]
        PROVE  PcType'
    BY <1>0, <1>1 DEF PcType
  <1>2. ASSUME NEW t \in Users, UserMoves(t)
        PROVE  PcType'
    BY <1>1, <1>2 DEF UserMoves
  <1>3. ASSUME NEW o \in Objects, RefreshMoves(o)
        PROVE  PcType'
    BY <1>1, <1>3 DEF RefreshMoves
  <1>4. ASSUME NEW t \in Users, Construct(t) \/ Register(t)
        PROVE  PcType'
    BY <1>1, <1>4 DEF Construct, Register, To, UserSteps
  <1>5. ASSUME NEW o \in Objects, ScanDeletes(o) \/ ScanUnregisters(o)
        PROVE  PcType'
    BY <1>1, <1>5 DEF ScanDeletes, ScanUnregisters, To, RefreshSteps
  <1>6. ASSUME NEW t \in Users, Spawn(t)
        PROVE  PcType'
    <2>1. conn[t] \in Threads
      BY <1>0, <1>6 DEF Spawn, Holding
    <2>2. "enter" \in UserSteps /\ "loop" \in RefreshSteps
      BY DEF UserSteps, RefreshSteps
    <2> QED
      BY <1>0, <1>6, <2>1, <2>2 DEF Spawn, PcType
  <1> QED
    BY Cases, <1>2, <1>3, <1>4, <1>5, <1>6

LEMMA TableTypeKept ==
  ASSUME TypeOK, Held, Mine, Table, AtEntry, Within
  PROVE  TableType'
  <1>0. /\ registered_conns \in [Places -> Entries] /\ registered_conns_count \in Places
        /\ registered_conns_count \in Nat /\ registered_conns_count <= MAX_REGISTERED_CONNS
    BY Names DEF TypeOK, Places
  <1>s. UNCHANGED table => TableType'
    BY <1>0 DEF table, TableType
  <1>1. ASSUME NEW t \in Users, Register(t)
        PROVE  TableType'
    <2>1. CASE Matches(wanted[t]) # {}
      BY <1>1, <1>s, <2>1 DEF Register
    <2>2. CASE Matches(wanted[t]) = {}
      <3>1. registered_conns_count < MAX_REGISTERED_CONNS
        BY <1>1, <2>2 DEF Register
      <3>2. registered_conns_count + 1 \in Places
        BY <1>0, <3>1, Names
      <3>3. [conn |-> conn[t], id |-> wanted[t]] \in Entries
        BY DEF TypeOK, Entries
      <3>4. /\ registered_conns' = [registered_conns EXCEPT ![registered_conns_count] =
                                     [conn |-> conn[t], id |-> wanted[t]]]
            /\ registered_conns_count' = registered_conns_count + 1
        BY <1>1, <2>2 DEF Register
      <3> QED
        BY <1>0, <3>2, <3>3, <3>4 DEF TableType
    <2> QED
      BY <2>1, <2>2
  <1>2. ASSUME NEW o \in Objects, ScanUnregisters(o)
        PROVE  TableType'
    <2>1. /\ x[o] \in Listed /\ registered_conns_count' = registered_conns_count - 1
          /\ registered_conns' \in [Places -> Entries]
      BY <1>2, Unregisters
    <2>2. registered_conns_count - 1 \in Places
      <3>1. x[o] \in Nat /\ x[o] < registered_conns_count
        BY <2>1, Lists
      <3> QED
        BY <1>0, <3>1, Names
    <2> QED
      BY <2>1, <2>2 DEF TableType
  <1>3. ASSUME NEW t \in Users, UserMoves(t) \/ Construct(t) \/ Spawn(t)
        PROVE  UNCHANGED table
    BY <1>3 DEF UserMoves, Construct, Spawn
  <1>4. ASSUME NEW o \in Objects, RefreshMoves(o) \/ ScanDeletes(o)
        PROVE  UNCHANGED table
    BY <1>4 DEF RefreshMoves, ScanDeletes
  <1> QED
    BY Cases, <1>1, <1>2, <1>3, <1>4, <1>s

LEMMA ConnTypeKept ==
  ASSUME TypeOK, Held, Mine, Table, AtEntry, Within
  PROVE  ConnType'
  <1> USE Names
  <1>0. /\ pc \in [Threads -> UserSteps \cup RefreshSteps]
        /\ conn \in [Users -> Objects \cup {Nothing}] /\ x \in [Threads -> Places]
        /\ \A t \in Users : Holding(t) => conn[t] \in Objects
    BY DEF TypeOK
  <1>h. /\ \A t \in Users : Holds(t)
        /\ \A j \in Listed : Entry(j) \in Objects
    BY HeldIs DEF Table
  <1>t. ASSUME NEW t \in Users, NEW c \in Objects \cup {Nothing}, conn' = [conn EXCEPT ![t] = c],
               Holding(t)' => c \in Objects,
               \A u \in Users \ {t} : Holding(u)' => Holding(u)
        PROVE  ConnType'
    BY <1>0, <1>t DEF ConnType
  <1>s. ASSUME conn' = conn, \A u \in Users : Holding(u)' => Holding(u)
        PROVE  ConnType'
    BY <1>0, <1>s DEF ConnType
  <1>1. ASSUME NEW t \in Users, UserGoes(t)
        PROVE  ConnType'
    <2>u. \A u \in Users \ {t} : Holding(u)' => Holding(u)
      BY <1>0, <1>1, UsersMove, ZenonT(60) DEF UserMoves, Holding
    <2>r. Return(t) => ConnType'
      <3>1. SUFFICES ASSUME Return(t)
                     PROVE  ConnType'
        OBVIOUS
      <3>2. ~ Holding(t)'
        BY <1>0, <3>1 DEF Return, To, Holding
      <3> QED
        BY <1>t, <2>u, <3>1, <3>2 DEF Return
    <2>1. CASE Look(t)
      <3>1. /\ Matches(wanted[t]) # {}
            /\ \E k \in {Least(Matches(wanted[t])), Greatest(Matches(wanted[t]))} :
                 conn' = [conn EXCEPT ![t] = Entry(k)]
        BY <2>1 DEF Look, Entry
      <3>2. \E k \in Listed : conn' = [conn EXCEPT ![t] = Entry(k)]
        BY <3>1, OneMatch
      <3> QED
        BY <1>h, <1>t, <2>u, <3>2
    <2>2. CASE Fetch(t)
      <3>1. x[t] \in Listed /\ conn' = [conn EXCEPT ![t] = Entry(x[t])]
        BY <1>h, <2>2 DEF Fetch, Entry, Holds
      <3> QED
        BY <1>h, <1>t, <2>u, <3>1
    <2>3. CASE t = "main" /\ ReportNext
      <3>1. x[t] \in Listed /\ conn' = [conn EXCEPT ![t] = Entry(x[t])]
        BY <2>3 DEF ReportNext, Entry
      <3> QED
        BY <1>h, <1>t, <2>u, <3>1
    <2>4. CASE Enter(t)
      <3>1. conn' = conn /\ Holding(t)
        BY <2>4 DEF Enter, Holding
      <3> QED
        BY <1>s, <2>u, <3>1
    <2>5. CASE Begin(t) \/ Find(t) \/ (t = "main" /\ Report)
      <3>1. conn' = conn /\ \E s \in {"wait", "construct", "fetch", "next"} :
                              pc' = [pc EXCEPT ![t] = s]
        BY <2>5 DEF Begin, Find, Report, To
      <3>2. ~ Holding(t)'
        BY <1>0, <3>1 DEF Holding
      <3> QED
        BY <1>s, <2>u, <3>1, <3>2
    <2>6. CASE NotFound(t)
      <3>1. CASE op[t] = "path"
        <4>1. conn' = conn /\ pc' = [pc EXCEPT ![t] = "construct"]
          BY <2>6, <3>1 DEF NotFound, To
        <4>2. ~ Holding(t)'
          BY <1>0, <4>1 DEF Holding
        <4> QED
          BY <1>s, <2>u, <4>1, <4>2
      <3>2. CASE op[t] # "path"
        BY <2>6, <2>r, <3>2 DEF NotFound
      <3> QED
        BY <3>1, <3>2
    <2>7. CASE Leave(t)
      <3>1. CASE op[t] = "report"
        <4>1. conn' = conn /\ pc' = [pc EXCEPT ![t] = "next"]
          BY <2>7, <3>1 DEF Leave, To
        <4>2. ~ Holding(t)'
          BY <1>0, <4>1 DEF Holding
        <4> QED
          BY <1>s, <2>u, <4>1, <4>2
      <3>2. CASE op[t] # "report"
        BY <2>7, <2>r, <3>2 DEF Leave
      <3> QED
        BY <3>1, <3>2
    <2>8. CASE (t = "main" /\ ReportDone) \/ ReadStatus(t)
      BY <2>8, <2>r DEF ReportDone, ReadStatus
    <2>9. \/ Look(t) \/ Fetch(t) \/ Enter(t) \/ NotFound(t) \/ Leave(t)
          \/ (Begin(t) \/ Find(t) \/ (t = "main" /\ Report))
          \/ t = "main" /\ ReportNext
          \/ (t = "main" /\ ReportDone) \/ ReadStatus(t)
      BY <1>1 DEF UserGoes
    <2> QED
      BY <2>1, <2>2, <2>3, <2>4, <2>5, <2>6, <2>7, <2>8, <2>9
  <1>2. ASSUME NEW o \in Objects, RefreshMoves(o) \/ ScanDeletes(o) \/ ScanUnregisters(o)
        PROVE  ConnType'
    <2>1. conn' = conn /\ \E s : pc' = [pc EXCEPT ![o] = s]
      BY <1>2 DEF RefreshMoves, ScanDeletes, ScanUnregisters, To
    <2>2. \A u \in Users : pc'[u] = pc[u]
      BY <1>0, <2>1
    <2> QED
      BY <1>s, <2>1, <2>2 DEF Holding
  <1>3. ASSUME NEW t \in Users, Construct(t)
        PROVE  ConnType'
    <2>1. PICK p \in Objects : /\ pc' = [pc EXCEPT ![t] = "wait to register"]
                               /\ conn' = [conn EXCEPT ![t] = p]
      BY <1>3, Constructs
    <2>2. \A u \in Users \ {t} : pc'[u] = pc[u]
      BY <1>0, <2>1
    <2> QED
      BY <1>t, <2>1, <2>2 DEF Holding
  <1>4. ASSUME NEW t \in Users, Register(t)
        PROVE  ConnType'
    <2>1. /\ pc[t] = "wait to register" /\ pc' = [pc EXCEPT ![t] = "spawn"] /\ conn' = conn
      BY <1>4, Registers
    <2>2. Holding(t) /\ \A u \in Users \ {t} : pc'[u] = pc[u]
      BY <1>0, <2>1 DEF Holding
    <2> QED
      BY <1>s, <2>1, <2>2 DEF Holding
  <1>5. ASSUME NEW t \in Users, Spawn(t)
        PROVE  ConnType'
    <2>1. /\ pc[t] = "spawn" /\ pc' = [pc EXCEPT ![t] = "enter", ![conn[t]] = "loop"]
          /\ conn' = conn
      BY <1>5 DEF Spawn
    <2>2. Holding(t) /\ conn[t] \in Objects
      BY <1>0, <2>1 DEF Holding
    <2>3. \A u \in Users \ {t} : pc'[u] = pc[u]
      BY <1>0, <2>1, <2>2
    <2> QED
      BY <1>s, <2>1, <2>2, <2>3 DEF Holding
  <1> QED
    BY Cases, <1>1, <1>2, <1>3, <1>4, <1>5

LEMMA XTypeKept ==
  ASSUME TypeOK, Held, Table, AtEntry, Within
  PROVE  XType'
  <1> USE Names
  <1>0. /\ x \in [Threads -> Places] /\ 0 \in Places /\ Places \subseteq Nat
        /\ registered_conns_count \in Nat /\ registered_conns_count <= MAX_REGISTERED_CONNS
    BY Names DEF TypeOK, Places
  <1>t. ASSUME NEW t \in Threads, NEW k \in Places, x' = [x EXCEPT ![t] = k]
        PROVE  XType'
    BY <1>0, <1>t DEF XType
  <1>s. x' = x => XType'
    BY <1>0 DEF XType
  <1>n. ASSUME NEW k \in Nat, k < registered_conns_count
        PROVE  k \in Places /\ k + 1 \in Places
    BY <1>0, <1>n, Names
  <1>r. ASSUME NEW t \in Users, Return(t)
        PROVE  XType'
    BY <1>0, <1>r, <1>t DEF Return
  <1>1. ASSUME NEW t \in Users, Find(t)
        PROVE  XType'
    <2>1. Matches(wanted[t]) # {} /\ x' = [x EXCEPT ![t] = Least(Matches(wanted[t]))]
      BY <1>1 DEF Find
    <2>2. Least(Matches(wanted[t])) \in Places
      BY <2>1, OneMatch, Lists
    <2> QED
      BY <1>t, <2>1, <2>2
  <1>2. ASSUME NEW t \in Users, Fetch(t)
        PROVE  XType'
    BY <1>0, <1>2, <1>t DEF Fetch
  <1>3. ASSUME NEW t \in Users, Leave(t)
        PROVE  XType'
    <2>1. CASE op[t] = "report"
      <3>1. x' = [x EXCEPT ![t] = x[t] + 1] /\ pc[t] = "inside"
        BY <1>3, <2>1 DEF Leave
      <3>2. x[t] \in Nat /\ x[t] < registered_conns_count
        BY <2>1, <3>1, Lists DEF Held
      <3> QED
        BY <1>n, <1>t, <3>1, <3>2
    <2>2. CASE op[t] # "report"
      BY <1>3, <1>r, <2>2 DEF Leave
    <2> QED
      BY <2>1, <2>2
  <1>4. ASSUME NEW t \in Users, NotFound(t)
        PROVE  XType'
    <2>1. CASE op[t] = "path"
      BY <1>4, <1>s, <2>1 DEF NotFound
    <2>2. CASE op[t] # "path"
      BY <1>4, <1>r, <2>2 DEF NotFound
    <2> QED
      BY <2>1, <2>2
  <1>5. ASSUME ReportDone
        PROVE  XType'
    <2>1. "main" \in Users
      BY DEF Users
    <2> QED
      BY <1>5, <1>r, <2>1 DEF ReportDone
  <1>6. ASSUME NEW t \in Users, \/ Begin(t) \/ Enter(t) \/ Look(t) \/ Construct(t) \/ Register(t)
                                \/ Spawn(t) \/ Report \/ ReportNext
        PROVE  XType'
    BY <1>6, <1>s DEF Begin, Enter, Look, Construct, Register, Spawn, Report, ReportNext
  <1>7. ASSUME NEW o \in Objects, ScanBegins(o)
        PROVE  XType'
    BY <1>0, <1>7, <1>t DEF ScanBegins
  <1>12. ASSUME NEW t \in Users, ReadStatus(t)
         PROVE  XType'
    BY <1>r, <1>12 DEF ReadStatus
  <1>8. ASSUME NEW o \in Objects, ScanTests(o)
        PROVE  XType'
    <2>1. x[o] \in Nat /\ x[o] < registered_conns_count
      BY <1>0, <1>8 DEF ScanTests
    <2> QED
      BY <1>8, <1>n, <1>s, <1>t, <2>1 DEF ScanTests
  <1>9. ASSUME NEW o \in Objects, ScanUnregisters(o)
        PROVE  XType'
    <2>1. x[o] \in Listed /\ x' = [x EXCEPT ![o] = x[o] + 1]
      BY <1>9, Unregisters
    <2>2. x[o] \in Nat /\ x[o] < registered_conns_count
      BY <2>1, Lists
    <2> QED
      BY <1>n, <1>t, <2>1, <2>2
  <1>10. ASSUME NEW o \in Objects,
                TimeoutBegins(o) \/ SeesDown(o) \/ Timeout(o) \/ ScanEnds(o) \/ ScanDeletes(o)
         PROVE  XType'
    BY <1>10, <1>s DEF TimeoutBegins, SeesDown, Timeout, TimesOut, TimeoutEnds, ScanEnds, ScanDeletes
  <1>11. \/ \E t \in Users : \/ Find(t) \/ Fetch(t) \/ Leave(t) \/ NotFound(t) \/ ReportDone
                             \/ ReadStatus(t)
                             \/ \/ Begin(t) \/ Enter(t) \/ Look(t) \/ Construct(t)
                                \/ Register(t) \/ Spawn(t) \/ Report \/ ReportNext
         \/ \E o \in Objects : \/ ScanBegins(o) \/ ScanTests(o) \/ ScanUnregisters(o)
                               \/ \/ TimeoutBegins(o) \/ SeesDown(o) \/ Timeout(o)
                                  \/ ScanEnds(o) \/ ScanDeletes(o)
    BY DEF Within, UserStep, Scan
  <1> QED
    BY <1>1, <1>2, <1>3, <1>4, <1>5, <1>6, <1>7, <1>8, <1>9, <1>10, <1>11, <1>12

LEMMA ObjectTypeKept ==
  ASSUME TypeOK, Held, Within
  PROVE  ObjectType'
  <1> USE Names DEF object
  <1>0. /\ life \in [Objects -> {"none", "live", "deleted"}]
        /\ connection_id \in [Objects -> Ids \cup {Nothing}]
        /\ path_state \in [Objects -> {"null", "setup", "up", "down"}]
        /\ path_direction \in [Objects -> {"undefined", "incoming", "outgoing"}]
        /\ refresh_tread_state \in [Objects -> {0, 1}]
        /\ access \in [Objects -> Threads \cup {"free"}]
        /\ wanted \in [Users -> Ids \cup {Nothing}]
        /\ \A t \in Users : Holding(t) => conn[t] \in Objects
    BY DEF TypeOK
  <1>s. UNCHANGED << life, connection_id, path_state, path_direction, refresh_tread_state,
                     access >> => ObjectType'
    BY <1>0 DEF ObjectType
  <1>1. ASSUME NEW t \in Users, Enter(t)
        PROVE  ObjectType'
    BY <1>0, <1>1 DEF Enter, ObjectType
  <1>2. ASSUME NEW t \in Users, Leave(t)
        PROVE  ObjectType'
    <2>1. PICK d \in {"undefined", "incoming", "outgoing"},
               s \in {"null", "setup", "up", "down"} :
            /\ path_direction' = [path_direction EXCEPT ![conn[t]] = d]
            /\ path_state' = [path_state EXCEPT ![conn[t]] = s]
      BY <1>2 DEF Leave
    <2>2. /\ access' = [access EXCEPT ![conn[t]] = "free"]
          /\ UNCHANGED << life, connection_id, refresh_tread_state >>
      BY <1>2 DEF Leave
    <2> QED
      BY <1>0, <2>1, <2>2 DEF ObjectType
  <1>3. ASSUME NEW t \in Users, Construct(t)
        PROVE  ObjectType'
    <2>1. PICK o \in Objects :
            /\ life' = [life EXCEPT ![o] = "live"]
            /\ connection_id' = [connection_id EXCEPT ![o] = wanted[t]]
            /\ refresh_tread_state' \in [Objects -> {0, 1}]
      BY <1>3, Constructs
    <2>2. UNCHANGED << path_state, path_direction, access >>
      BY <1>3 DEF Construct
    <2> QED
      BY <1>0, <2>1, <2>2 DEF ObjectType
  <1>4. ASSUME NEW t \in Users, Spawn(t)
        PROVE  ObjectType'
    BY <1>0, <1>4 DEF Spawn, ObjectType
  <1>5. ASSUME NEW o \in Objects, TimesOut(o)
        PROVE  ObjectType'
    BY <1>0, <1>5 DEF TimesOut, ObjectType
  <1>6. ASSUME NEW o \in Objects, TimeoutEnds(o)
        PROVE  ObjectType'
    BY <1>0, <1>6 DEF TimeoutEnds, ObjectType
  <1>7. ASSUME NEW o \in Objects, SeesDown(o)
        PROVE  ObjectType'
    BY <1>0, <1>7 DEF SeesDown, ObjectType
  <1>8. ASSUME NEW o \in Objects, ScanDeletes(o)
        PROVE  ObjectType'
    BY <1>0, <1>8 DEF ScanDeletes, ObjectType
  <1>9. ASSUME NEW t \in Users, \/ Begin(t) \/ Look(t) \/ NotFound(t) \/ Find(t) \/ Fetch(t)
                                \/ Register(t) \/ Report \/ ReportNext \/ ReportDone
                                \/ ReadStatus(t)
        PROVE  ObjectType'
    BY <1>9, <1>s DEF Begin, Look, NotFound, Find, Fetch, Register, Report, ReportNext, ReportDone,
                      ReadStatus
  <1>10. ASSUME NEW o \in Objects, \/ TimeoutBegins(o) \/ ScanBegins(o) \/ ScanEnds(o)
                                   \/ ScanTests(o) \/ ScanUnregisters(o)
         PROVE  ObjectType'
    BY <1>10, <1>s DEF TimeoutBegins, ScanBegins, ScanEnds, ScanTests, ScanUnregisters
  <1>11. \/ \E t \in Users : \/ Enter(t) \/ Leave(t) \/ Construct(t) \/ Spawn(t)
                             \/ \/ Begin(t) \/ Look(t) \/ NotFound(t) \/ Find(t) \/ Fetch(t)
                                \/ Register(t) \/ Report \/ ReportNext \/ ReportDone
                                \/ ReadStatus(t)
         \/ \E o \in Objects : \/ TimesOut(o) \/ TimeoutEnds(o) \/ SeesDown(o) \/ ScanDeletes(o)
                               \/ \/ TimeoutBegins(o) \/ ScanBegins(o) \/ ScanEnds(o)
                                  \/ ScanTests(o) \/ ScanUnregisters(o)
    BY DEF Within, UserStep, Scan, Timeout
  <1> QED
    BY <1>1, <1>2, <1>3, <1>4, <1>5, <1>6, <1>7, <1>8, <1>9, <1>10, <1>11

LEMMA UserTypeKept ==
  ASSUME TypeOK, Held, Within
  PROVE  UserType'
  <1> USE Names
  <1>0. /\ registered_conns_access \in Users \cup {"free"}
        /\ op \in [Users -> Ops]
        /\ wanted \in [Users -> Ids \cup {Nothing}]
        /\ requests \in 0 .. MaxRequests
    BY DEF TypeOK
  <1>m. MaxRequests \in Nat /\ {"none", "path", "message", "create", "answer", "get", "status", "report"} = Ops
    BY DispatcherAssumption DEF Ops
  <1>a. ASSUME UNCHANGED << op, wanted, requests >>,
               registered_conns_access' \in {registered_conns_access, "free"}
        PROVE  UserType'
    BY <1>0, <1>a DEF UserType
  <1>r. ASSUME NEW t \in Users, Return(t), requests' = requests,
               registered_conns_access' \in {registered_conns_access, "free"}
        PROVE  UserType'
    BY <1>0, <1>m, <1>r DEF Return, UserType
  <1>1. ASSUME NEW t \in Users, Begin(t)
        PROVE  UserType'
    <2>1. requests' \in 0 .. MaxRequests /\ registered_conns_access' = registered_conns_access
      BY <1>0, <1>m, <1>1 DEF Begin
    <2>2. op' \in [Users -> Ops]
      <3>1. \E o \in Ops : op' = [op EXCEPT ![t] = o]
        BY <1>1 DEF Begin, Ops
      <3> QED
        BY <1>0, <3>1
    <2>3. wanted' \in [Users -> Ids \cup {Nothing}]
      <3>1. wanted' = wanted \/ \E i \in Ids : wanted' = [wanted EXCEPT ![t] = i]
        BY <1>1 DEF Begin
      <3> QED
        BY <1>0, <3>1
    <2> QED
      BY <1>0, <2>1, <2>2, <2>3 DEF UserType
  <1>2. ASSUME NEW t \in Users, Look(t)
        PROVE  UserType'
    BY <1>0, <1>2 DEF Look, UserType, scans
  <1>3. ASSUME Report
        PROVE  UserType'
    BY <1>0, <1>3 DEF Report, UserType, scans, Users
  <1>4. ASSUME NEW t \in Users, NotFound(t)
        PROVE  UserType'
    <2>1. CASE op[t] = "path"
      BY <1>a, <1>4, <2>1 DEF NotFound, scans
    <2>2. CASE op[t] # "path"
      BY <1>r, <1>4, <2>2 DEF NotFound, scans
    <2> QED
      BY <2>1, <2>2
  <1>5. ASSUME NEW t \in Users, Leave(t)
        PROVE  UserType'
    <2>1. CASE op[t] = "report"
      BY <1>a, <1>5, <2>1 DEF Leave, scans
    <2>2. CASE op[t] # "report"
      BY <1>r, <1>5, <2>2 DEF Leave, scans
    <2> QED
      BY <2>1, <2>2
  <1>6. ASSUME ReportDone
        PROVE  UserType'
    <2>1. "main" \in Users
      BY DEF Users
    <2> QED
      BY <1>r, <1>6, <2>1 DEF ReportDone, scans
  <1>10. ASSUME NEW t \in Users, ReadStatus(t)
         PROVE  UserType'
    BY <1>r, <1>10 DEF ReadStatus, scans
  <1>7. ASSUME NEW t \in Users, \/ Enter(t) \/ Fetch(t) \/ Construct(t) \/ Register(t)
                                \/ Spawn(t) \/ ReportNext \/ Find(t)
        PROVE  UserType'
    BY <1>a, <1>7 DEF Enter, Fetch, Construct, Register, Spawn, ReportNext, Find, scans
  <1>8. ASSUME NEW o \in Objects,
               \/ TimeoutBegins(o) \/ SeesDown(o) \/ TimesOut(o) \/ TimeoutEnds(o)
               \/ ScanBegins(o) \/ ScanEnds(o) \/ ScanTests(o) \/ ScanDeletes(o)
               \/ ScanUnregisters(o)
        PROVE  UserType'
    BY <1>a, <1>8 DEF TimeoutBegins, SeesDown, TimesOut, TimeoutEnds, ScanBegins, ScanEnds,
                      ScanTests, ScanDeletes, ScanUnregisters, scans
  <1>9. \/ \E t \in Users : \/ Begin(t) \/ Look(t) \/ Report \/ NotFound(t) \/ Leave(t)
                            \/ ReportDone \/ ReadStatus(t)
                            \/ \/ Enter(t) \/ Fetch(t) \/ Construct(t) \/ Register(t)
                               \/ Spawn(t) \/ ReportNext \/ Find(t)
        \/ \E o \in Objects : \/ TimeoutBegins(o) \/ SeesDown(o) \/ TimesOut(o) \/ TimeoutEnds(o)
                              \/ ScanBegins(o) \/ ScanEnds(o) \/ ScanTests(o) \/ ScanDeletes(o)
                              \/ ScanUnregisters(o)
    BY DEF Within, UserStep, Scan, Timeout
  <1> QED
    BY <1>1, <1>2, <1>3, <1>4, <1>5, <1>6, <1>7, <1>8, <1>9, <1>10

LEMMA HistoryTypeKept ==
  ASSUME TypeOK, Held, Table, AtEntry, Within
  PROVE  HistoryType'
  <1> USE Names
  <1>0. /\ refused \subseteq Objects /\ found \subseteq Objects /\ behind \subseteq Objects
        /\ \A t \in Users : Holding(t) => conn[t] \in Objects
    BY DEF TypeOK
  <1>1. overlap' \in BOOLEAN
    BY Cases DEF Note, Overlapping, Intruding
  <1>2. refused' \subseteq Objects
    <2>1. ASSUME NEW t \in Users, Register(t)
          PROVE  refused' \subseteq Objects
      <3>1. conn[t] \in Objects /\ (refused' = refused \/ refused' = refused \cup {conn[t]})
        BY <1>0, <2>1 DEF Register, Holding
      <3> QED
        BY <1>0, <3>1
    <2>2. ASSUME NEW t \in Users, UserMoves(t) \/ Construct(t) \/ Spawn(t)
          PROVE  refused' = refused
      BY <2>2 DEF UserMoves, Construct, Spawn
    <2>3. ASSUME NEW o \in Objects, RefreshMoves(o) \/ ScanDeletes(o) \/ ScanUnregisters(o)
          PROVE  refused' = refused
      BY <2>3 DEF RefreshMoves, ScanDeletes, ScanUnregisters
    <2> QED
      BY Cases, <1>0, <2>1, <2>2, <2>3
  <1>3. found' \subseteq Objects /\ behind' \subseteq Objects
    <2>1. ASSUME NEW o \in Objects, ScanBegins(o)
          PROVE  found' \subseteq Objects /\ behind' \subseteq Objects
      <3>1. \A j \in Listed : Entry(j) \in Objects
        BY DEF Table
      <3> DEFINE due == {k \in Listed : Finished(registered_conns[k].conn)}
      <3>2. /\ found' = {registered_conns[k].conn : k \in due}
            /\ behind' = {registered_conns[k].conn : k \in {j \in due : j - 1 \in due}}
        BY <2>1 DEF ScanBegins
      <3> QED
        BY <3>1, <3>2 DEF Entry
    <2> QED
      BY <1>0, <2>1, Remembered
  <1> QED
    BY <1>1, <1>2, <1>3 DEF HistoryType

-----------------------------------------------------------------------------
(* The invariant.                                                          *)

LEMMA InitIInv == Init => IInv
  <1> SUFFICES ASSUME Init
               PROVE  IInv
    OBVIOUS
  <1> USE Names
  <1>1. TypeOK
    <2>1. TableType
      BY DEF Init, TableType, Entries
    <2>2. PcType
      BY DEF Init, PcType, Threads, UserSteps, RefreshSteps
    <2>3. ConnType
      <3>1. \A t \in Users : ~ Holding(t)
        BY DEF Init, Holding
      <3> QED
        BY <3>1 DEF Init, ConnType
    <2>4. XType
      BY DEF Init, XType
    <2>5. ObjectType
      BY DEF Init, ObjectType
    <2>6. UserType
      <3>1. 0 \in 0 .. MaxRequests
        BY DispatcherAssumption
      <3> QED
        BY <3>1 DEF Init, UserType, Ops
    <2>7. HistoryType
      BY DEF Init, HistoryType
    <2> QED
      BY <2>1, <2>2, <2>3, <2>4, <2>5, <2>6, <2>7, Types
  <1>2. Listed = {}
    <2>1. registered_conns_count = 0
      BY DEF Init
    <2> QED
      BY <2>1 DEF Listed
  <1>3. /\ \A t \in Users : pc[t] = "idle"
        /\ \A o \in Objects : pc[o] = "not started" /\ ~ Scanning(o)
    BY DEF Init, Scanning
  <1>4. Apart /\ Mine /\ Table /\ AtEntry
    BY <1>2, <1>3 DEF Apart, Mine, Building, Table, AtEntry
  <1>5. Threading
    BY <1>3 DEF Threading, RefreshSteps
  <1>6. Kept
    BY <1>3 DEF Kept, Handed, Init
  <1>7. Held
    BY <1>3 DEF Held, Holding, Init
  <1>8. ToRemove /\ Removed
    BY <1>3 DEF ToRemove, Removed, Init
  <1> QED
    BY <1>1, <1>4, <1>5, <1>6, <1>7, <1>8 DEF IInv, Orderly

LEMMA NextIInv == IInv /\ [Next]_vars => IInv'
  <1>1. ASSUME IInv, Within
        PROVE  IInv'
    <2>1. TypeOK /\ ~ overlap /\ Note
      BY <1>1 DEF IInv, Within, Note
    <2>2. /\ Apart /\ Mine /\ Threading /\ Table /\ Kept /\ Held /\ AtEntry
          /\ ToRemove /\ Removed
      BY <1>1, <2>1 DEF IInv, Orderly
    <2>3. TypeOK'
      <3>1. TableType' /\ PcType' /\ ConnType' /\ XType' /\ ObjectType' /\ UserType'
            /\ HistoryType'
        BY <1>1, <2>1, <2>2, PcTypeKept, TableTypeKept, ConnTypeKept, XTypeKept,
           ObjectTypeKept, UserTypeKept, HistoryTypeKept
      <3> QED
        BY <3>1, Types, PTL
    <2>4. ASSUME ~ overlap'
          PROVE  Orderly'
      <3>1. Apart' /\ Shut
        BY <2>1, <2>4, NoteApart
      <3>2. Mine' /\ Threading' /\ Kept'
        BY <1>1, <2>1, <2>2, MineKept, ThreadingKept, KeptKept
      <3>3. Table' /\ AtEntry'
        BY <1>1, <2>1, <2>2, <3>1, TableKept, AtEntryKept
      <3>4. Held'
        BY <1>1, <2>1, <2>2, <3>1, HeldKept
      <3>5. ToRemove' /\ Removed'
        BY <1>1, <2>1, <2>2, <3>1, ToRemoveKept, RemovedKept
      <3> QED
        BY <3>1, <3>2, <3>3, <3>4, <3>5 DEF Orderly
    <2> QED
      BY <2>3, <2>4 DEF IInv
  <1>3. ASSUME IInv, NEW t \in Users, RegisterBehind(t)
        PROVE  IInv'
    <2>1. /\ TypeOK /\ pc' = [pc EXCEPT ![t] = "spawn"] /\ pc[t] = "wait to register"
          /\ overlap' = TRUE
      BY <1>3 DEF IInv, RegisterBehind, To
    <2>2. UNCHANGED << registered_conns, registered_conns_count, registered_conns_access,
                       life, connection_id, path_direction, path_state, refresh_tread_state,
                       access, op, wanted, conn, x, refused, found, behind, requests >>
      BY <1>3 DEF RegisterBehind, table, object, scans
    <2>3. PcType'
      <3>1. "spawn" \in UserSteps
        BY DEF UserSteps
      <3> QED
        BY <2>1, <3>1, Names, Types DEF PcType
    <2>4. ConnType'
      <3>1. ASSUME NEW u \in Users, Holding(u)'
            PROVE  conn[u] \in Objects
        <4>1. Holding(u)
          BY <2>1, <2>3, <3>1, Names DEF Holding, PcType, TypeOK
        <4> QED
          BY <2>1, <4>1 DEF TypeOK
      <3> QED
        BY <2>1, <2>2, <3>1 DEF TypeOK, ConnType
    <2>5. TableType' /\ XType' /\ ObjectType' /\ UserType' /\ HistoryType'
      BY <2>1, <2>2 DEF TypeOK, TableType, XType, ObjectType, UserType, HistoryType
    <2>6. TypeOK'
      BY <2>3, <2>4, <2>5, Types, PTL
    <2> QED
      BY <2>1, <2>6 DEF IInv
  <1>2. ASSUME IInv, UNCHANGED vars
        PROVE  IInv'
    <2>1. UNCHANGED << registered_conns, registered_conns_count, registered_conns_access,
                       life, connection_id, path_direction, path_state, refresh_tread_state,
                       access, pc, op, wanted, conn, x, refused, found, behind, requests,
                       overlap >>
      BY <1>2 DEF vars, table, object, scans
    <2>2. Listed' = Listed /\ \A j : Entry(j)' = Entry(j)
      BY <2>1 DEF Listed, Entry
    <2>3. \A o : IsFinished(o)' <=> IsFinished(o)
      BY <2>1 DEF IsFinished
    <2>4. TypeOK' <=> TypeOK
      BY <2>1 DEF TypeOK, Holding
    <2>5. Apart' <=> Apart
      BY <2>1 DEF Apart, Scanning
    <2>6. Mine' <=> Mine
      BY <2>1, <2>2, ZenonT(60) DEF Mine, Building
    <2>7. Threading' <=> Threading
      BY <2>1 DEF Threading
    <2>8. Table => Table'
      <3>1. SUFFICES ASSUME Table
                     PROVE  Table'
        OBVIOUS
      <3>2. ASSUME NEW j \in Listed'
            PROVE  Sound(j)' /\ Unique(j)'
        <4>1. Sound(j) /\ Unique(j)
          BY <2>2, <3>1, TableIs
        <4>2. Entry(j)' = Entry(j)
          BY <2>2
        <4> QED
          BY <2>1, <2>2, <4>1, <4>2 DEF Sound, Unique
      <3> QED
        BY <3>2 DEF Table, Sound, Unique
    <2>9. Kept' <=> Kept
      BY <2>1, <2>2 DEF Kept, Handed
    <2>10. Held' <=> Held
      BY <2>1, <2>2 DEF Held, Holding
    <2>11. AtEntry' <=> AtEntry
      BY <2>1, <2>2 DEF AtEntry, IsFinished
    <2>12. ToRemove' <=> ToRemove
      BY <2>1, <2>2 DEF ToRemove, Left, Scanning, IsFinished
    <2>13. Removed' <=> Removed
      BY <2>1 DEF Removed, Scanning
    <2> QED
      BY <1>2, <2>1, <2>4, <2>5, <2>6, <2>7, <2>8, <2>9, <2>10, <2>11, <2>12, <2>13
         DEF IInv, Orderly
  <1> QED
    BY <1>1, <1>2, <1>3 DEF Next, Within

THEOREM Invariant == Spec => []IInv
  BY InitIInv, NextIInv, PTL DEF Spec

(* TypeOK: every variable has its type; the table keeps within             *)
(* MAX_REGISTERED_CONNS up to the step that writes behind it               *)
(* (RegisterBehind), which is no error of this theorem's: see the last.    *)
THEOREM TypeCorrect == Spec => []TypeOK
  <1>1. IInv => TypeOK
    BY DEF IInv
  <1> QED
    BY <1>1, Invariant, PTL

(* TableConsistent: while no clean-up has met another user of the table,   *)
(* it lists live objects, each under its own id, no id twice.              *)
THEOREM TableCorrect == Spec => []TableConsistent
  <1>1. IInv => TableConsistent
    <2>1. SUFFICES ASSUME Table, \A o \in Objects : pc[o] # "unregister",
                          NEW j \in Listed, NEW k \in Listed, TypeOK
                   PROVE  LET e == registered_conns[j] IN
                          /\ e.conn # Nothing /\ life[e.conn] = "live"
                          /\ connection_id[e.conn] = e.id
                          /\ e.id = registered_conns[k].id => j = k
      BY DEF IInv, Orderly, TableConsistent
    <2>2. Sound(j) /\ Unique(k)
      BY <2>1, TableIs
    <2>3. Entry(j) # Nothing
      BY <2>2, Names DEF Sound
    <2>4. life[Entry(j)] = "live"
      <3>1. PICK c \in Objects : c = Entry(j)
        BY <2>2 DEF Sound
      <3>2. life[c] \in {"none", "live", "deleted"} /\ life[c] # "none" /\ life[c] # "deleted"
        BY <2>1, <2>2, <3>1 DEF Sound, TypeOK
      <3> QED
        BY <3>1, <3>2
    <2> QED
      BY <2>2, <2>3, <2>4 DEF Entry, Sound, Unique
  <1> QED
    BY <1>1, Invariant, PTL

(* NobodyDropped: meanwhile an object that lives and was not refused can   *)
(* be found by its id.                                                     *)
THEOREM KeptCorrect == Spec => []NobodyDropped
  <1>1. IInv => NobodyDropped
    <2>1. SUFFICES ASSUME Table, Kept, NEW o \in Objects, life[o] = "live", Handed(o),
                          o \notin refused
                   PROVE  \E k \in Matches(connection_id[o]) : registered_conns[k].conn = o
      BY DEF IInv, Orderly, NobodyDropped, Handed
    <2>2. PICK k \in Listed : Entry(k) = o
      BY <2>1 DEF Kept
    <2>3. registered_conns[k].id = connection_id[o]
      BY <2>1, <2>2, TableIs DEF Sound
    <2> QED
      BY <2>2, <2>3 DEF Matches, Entry
  <1> QED
    BY <1>1, Invariant, PTL

(* NoDeletedUsed: meanwhile nobody goes on with a deleted object.          *)
THEOREM NoUseAfterDelete == Spec => []NoDeletedUsed
  <1>1. IInv => NoDeletedUsed
    BY DEF IInv, Orderly, Held, NoDeletedUsed
  <1> QED
    BY <1>1, Invariant, PTL

(* CleanUpRemoves: meanwhile a clean-up removes all it had to, but for an  *)
(* entry behind another it removes.                                        *)
THEOREM CleanUpCorrect == Spec => []CleanUpRemoves
  <1>1. IInv => CleanUpRemoves
    BY DEF IInv, Orderly, Removed, CleanUpRemoves
  <1> QED
    BY <1>1, Invariant, PTL

(* OverrunByMany: register_connection, which does not check, writes behind *)
(* the array only when more connections live than the array has places.    *)
THEOREM OverrunCorrect == Spec => OverrunByMany
  <1>1. ASSUME IInv, Next
        PROVE  \A t \in Users :
                 RegisterBehind(t) /\ (\A o \in Objects : pc[o] # "unregister") =>
                   Cardinality({o \in Objects : life[o] = "live"}) > MAX_REGISTERED_CONNS
    <2>1. SUFFICES ASSUME NEW t \in Users, RegisterBehind(t),
                          \A o \in Objects : pc[o] # "unregister"
                   PROVE  Cardinality(Living) > MAX_REGISTERED_CONNS
      BY DEF Living
    <2>2. /\ Waits(t) /\ registered_conns_count = MAX_REGISTERED_CONNS /\ ~ overlap
      BY <2>1 DEF RegisterBehind, Waits
    <2>3. TypeOK /\ Mine /\ Table
      BY <1>1, <2>2 DEF IInv, Orderly
    <2>4. registered_conns_count < Cardinality(Living)
      BY <2>1, <2>2, <2>3, Room
    <2>5. Cardinality(Living) \in Nat
      BY DispatcherAssumption, FS_Subset, FS_CardinalityType DEF Living
    <2> QED
      BY <2>2, <2>4, <2>5, Names
  <1>2. ASSUME IInv, [Next]_vars
        PROVE  [\A t \in Users :
                  RegisterBehind(t) /\ (\A o \in Objects : pc[o] # "unregister") =>
                    Cardinality({o \in Objects : life[o] = "live"})
                      > MAX_REGISTERED_CONNS]_vars
    BY <1>1, <1>2
  <1> QED
    BY <1>2, Invariant, PTL DEF Spec, OverrunByMany
=============================================================================
