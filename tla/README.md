# A verification of the RSVP-TE agent

This directory holds TLA+ models of `agent_rsvp`, the RSVP-TE/UNI client agent of
this repository, the TLC runs that check them and the TLAPS proofs about them. All
paths below are relative to `src/agent_rsvp/src/` unless they say otherwise.

## 1. The system

The agent sits between a **client** (one TCP connection, the management protocol:
CREATE, DELETE, STATUS with REQ/ACK/NACK) and a **router** (RSVP messages over a raw
IP socket). For each tunnel id it keeps a *connection*: the set-up, refresh and
teardown of one LSP, with the kernel's MPLS tables and routes as its effect.

| component | state | operations |
|---|---|---|
| `rsvp_connection` | `path_state`, `path_direction`, `label`, `key`, `dest_address`, configurations, semaphore `access`, `refresh_tread_state` | `get_packet` (with `respond_*`), `create_path`, `destroy_path`, thread `refresh_path`, `get_path_state` |
| `rsvp_dispatcher` | `registered_conns[10]`, semaphore `registered_conns_access`, one interface | `receiver_thread`, `register_connection`, `unregister_connection`, `deliver`, `get_connection*`, `report_paths`, `ask_interface` |
| `mgmt_interface` | `pending_rsvp_packets[100]`, `pending_mgmt_packets[100]`, `paths[100]`, message ids, sockets, `state` | threads `listener` and `socket_listener`, `ask_gui`, `check_pending_*`, `add_path`, `delete_path`, `find_*` |
| `configuration` (globals) | `message_id`, `label_id`, protocol version, timeouts | `get_message_id`, `inc_message_id`, `load_configuration` (SIGUSR1) |
| `rsvp_socket` | `recv_buffer[256]`, address filter | `wait_for_packet`, `get_packet`, `send` |
| `rsvp_configuration` | an array of typed parameters | `add`, `set`, `setadd`, `remove`, `read`, `update`, `add_missing` |
| `rsvp_packet`, `mgmt_packet` | objects to send, tables of requirements and order | `add_object`, `generate`, `parse_data` |
| `mpls_ioctl`, `ip_route` | none (the kernel's) | add and delete labels and routes |
| `semaphore` | a SysV semaphore | `wait`, `signal_plus` |

**Threads.** `receiver_thread` (router packets), `listener` (acts on client messages
and on packets handed to it), `socket_listener` (reads the client), one `refresh_path`
per connection, and the main thread (prints path states, gets the signals).

**Interactions.** receiver → `registered_conns_access` → `get_packet` → `access` →
`ask_gui` puts a packet into a pending table → listener → message to the client.
Client → listener → `create_path`, `destroy_path` or `deliver` → `get_packet`.
`refresh_path` reads `path_state` without a lock, then takes `access` to refresh or to
time out; when its path is down it scans the registry, without the registry's lock,
and deletes what is down.

**What is hard.** Five kinds of thread enter one object; two teardowns sleep a second
while they hold `access`; the refresh thread decides on what it read before it waits;
a path can be ended by either side, by an error, a timeout or a refusal, in every
stage of its life, and each end has its own set of kernel calls; an object is
published to other threads before it is set up and deleted while others may hold it.
`PROJECT.json` lists the hazards, each at its line.

**What makes each component right.**

- `rsvp_connection`: handlers exclude one another; each returns the semaphore; a path
  that is up has exactly its kernel state; an outgoing path is set up once and ended
  once; set-up is decided; the client hears of the end.
- `rsvp_dispatcher`: ids are unique, the array is not overrun, a thread never uses a
  deleted connection, clean-up finally removes every dead connection.
- `mgmt_interface`: an answer reaches the packet it answers, a slot is never used
  twice, the client's table agrees with the connections, every request is answered.
- globals: message ids are not reused, labels are not given twice.
- `rsvp_socket`: packets are delivered once, in order; the receiver never spins.
- `rsvp_configuration`, `rsvp_packet`, `mgmt_packet`: what the client asked for is what
  the router reads, what the router sent is what the client reads; every object is as
  long as it says and stands where the protocol wants it; nothing absent is read.

**How far each is modelled.** `rsvp_connection`, `rsvp_configuration`, `rsvp_packet`
and `mgmt_packet` in full (of packets, without the IP and RSVP headers);
`rsvp_dispatcher`, `rsvp_socket`, `mgmt_interface`, `semaphore`, `mpls_ioctl`,
`ip_route`, `configuration`, the client library and the main program in part; `ip_mask`,
printing and address formatting, the client programs and vendored files not at all.
Section 5 says what is left out and why.

## 2. Modules

| module | what it is |
|---|---|
| `RsvpConnection` | one connection object and every thread that touches it |
| `PathLifecycle` | what a connection promises, seen from outside (role and phase) |
| `RsvpDispatcher` | the table of connections: registration, look-up, clean-up, deletion |
| `MgmtInterface` | the pending arrays, the path table, the session with the client |
| `Transport` | the raw socket's receive buffer; the numbers of the messages sent |
| `PacketQueue` | what the receive buffer promises: a queue |
| `RsvpConfiguration` | the typed store of parameters |
| `RsvpPacket` | which objects an RSVP message takes, and their order |
| `RsvpWire` | the objects as written and as read |
| `MgmtPacket` | the management protocol as the agent and the client library write and read it |
| `PathSetup` | one path end to end: what each handler sends, stores and reports |
| `MCConnection`, `MCTransport`, `MCPathSetup` | values of constants for TLC |
| `RsvpConnection_proofs`, `LifecycleRefinement`, `RsvpDispatcher_proofs`, `MgmtInterface_proofs`, `Transport_proofs`, `RsvpConfiguration_proofs`, `RsvpWire_proofs`, `PathSetup_proofs` | the proofs (section 4) |

**How they fit.** `PathSetup` EXTENDS `MgmtPacket` and `RsvpWire`, which EXTENDS
`RsvpPacket` and `RsvpConfiguration`: together they are the *contents* of a path's life. `RsvpConnection` is its *control*, with all threads. `RsvpDispatcher`
takes many connections, each reduced to null, set-up, up and down, and is about who may
hold a pointer to one. `MgmtInterface` takes what connections ask of the client.
`Transport` stands at the other end, between the socket and the handlers. Each of the
first two boundaries has an abstract specification (`PathLifecycle`, `PacketQueue`)
that the detailed module is shown to implement.

### RsvpConnection

The variables have the names of the fields they stand for. `in_labels`, `out_keys`
and `routes` are the kernel's tables; `pc` and `job` say where each thread is and what
it was asked to do; `reg_holder` is the holder of `registered_conns_access`, which the
receiver and the listener's `deliver` keep for the whole of `get_packet`; `sent` and
`asked` are the messages and the `ask_interface` calls of the last step; `surplus`
counts the units of `access` beyond the first and is history only.

- **Grain.** Passing `access.wait()` (`Enter`) is an action, and a handler is one
  action from there to `signal_plus`, except where another thread can see the middle:
  the sleeps of `destroy_path` and of the deletion by RESV, `INITIATED` in
  `create_path`, `RESV_RECV` in `respond_resv`, and the sending of a refresh.
  `refresh_path` has an action for each read of `path_state` outside the lock.
- **The semaphore.** `semop` can be interrupted by a signal of the main thread;
  `wait()` then returns an error that callers ignore (`Interrupted`). A RESV with the
  flag D runs `signal_plus` twice, in `respond_resv` and in `get_packet`; this is one
  step that adds two. Both are bounded by `MaxSurplus`.
- **Router.** A packet is its type, its ADMIN_STATUS flags (`RD`, `D`, none), its
  label, and which object it comes without (`lacks`: the hop, the sender, the label); the
  router may send any at any time, lose, repeat and reorder them. A handler reads what it
  needs of the message without asking whether it is there (`Reads`), and the process ends
  where it is not (`ReadsAbsent`, e.g. `rsvp_connection.cpp:600`). Types 8
  to 11, which the dispatcher lets through, are `OTHER`; 12 and above it answers
  itself. In a PATH the flag D alone is treated as no flag, as the code does.
- **Client.** May answer, never answer, or destroy at any time. Only a first PATH is
  handed to it for confirmation; a PATH with flags R and D is announced as a deletion
  and gets no message id, so no answer can find it (`mgmt_interface.cpp:182-190`).
  `ask_interface` succeeds (there is a client and a free slot); for a path still
  `NULL` its failure is what `Accepted` and `Refused` also allow.
- **Kernel.** No caller looks at the result of an ioctl or of `ip`; they are taken to
  succeed, except that the kernel may have no key left (`NewKeys`). With
  `__LINUX_MPLS_ABSENCE__`, the default of the build, `MplsLinux` is FALSE.
- **Numbers.** `label_id` counts modulo `LabelIdRange`, in the program 2^32;
  `till_state_up_count` stops once past the timeout, after which only the comparison
  matters; `tick_count` is kept modulo the interval.
- **Left out.** The contents of configurations except the parameters that decide
  something (upstream label, flags, label), message ids, and `router_address`, which
  is taken as set. What a thread does after another has deleted the object belongs to
  the dispatcher: here the behaviour ends (`Gone`), as it does when the process dies.

### PathLifecycle

Role (none, in, out) and phase (idle, setup, up, gone). The promise for an outgoing
path is strong: up once, gone once, and set-up is decided. For an incoming path it is
weak because the code's is: a late confirmation brings back a path that was refused
in the meantime (`rsvp_connection.cpp:840` and `:820`), a deletion by flags goes back
to set-up (`:280`), and a client's CREATE turns the connection around when a PATH for
its tunnel came first. `Role` and `Phase` in `RsvpConnection` are the mapping.

### RsvpDispatcher

`registered_conns`, its count and `registered_conns_access` have their names;
`life`, `path_state`, `access` and `refresh_tread_state` are functions of the object.
Users of the table are `recv` (receiver_thread), `list` (the listener) and `main` (the
reports); a refresh thread is named by its object and its `pc` walks through the end of
`refresh_path`: time-out, `signal`, clearing `refresh_tread_state`, the loop.

- **Grain.** An operation is cut at the two semaphores and at each read of the table made
  without `registered_conns_access`: between `Find` and `Fetch` in `get_connection*`
  (the index is used after the lock is returned), between construction, registration and
  the start of the thread in the constructor, and at every round of the clean-up loop,
  where deleting the object (`ScanDeletes`) and moving the entries down
  (`ScanUnregisters`) are two steps.
- **Registration** refuses an id already listed; the object and its thread live on all
  the same (`refused`). It does not compare the count with `MAX_REGISTERED_CONNS`:
  `RegisterBehind` is the entry written behind the array.
- **Without the object's semaphore.** The look-ups of a STATUS request read the state and
  copy the configuration without `access` (`ReadStatus`); all others wait for it (`Enter`).
- **The conditional.** The clean-up takes no lock. `overlap` is set in the step in which
  it first meets another user, and in the step that writes behind the array; from then on
  the program may do anything, and nothing is
  claimed. All properties say what the table is good for until then; the other users
  among themselves, and the clean-up of one thread with everyone outside, are covered.

### MgmtInterface

Slots of `pending_rsvp_packets` and `pending_mgmt_packets`, `paths` (a sequence of tunnel
ids), `local_next_m_id` (a 16-bit counter), `touches` (the semaphore of
`generic_interface` that wakes the listener).

- **Askers** are the receiver and the refresh threads in `ask_gui`: choose a free slot,
  write the connection, write the rest and touch, three steps with no lock.
- **Listener**: one step per slot, over the RSVP slots and then the client's. Marking a
  client slot free and freeing its buffer are two steps, as in
  `check_pending_mgnt_packet`.
- **Client and socket thread**: connects, goes away, sends requests and answers, several
  in one read, of which those that find no slot are lost (`read_mgnt_packets`).
- **Reports.** `report` is what the listener's last step made of a RESV, an error or a
  tear-down: told, lost because no client is connected (`send_mgnt_packet` returns an error
  nobody looks at), or not told because `add_path` did not list the path (`Told`).
- `find_pending_rsvp_packet` stops at the first slot that never had an id; `DropAnswer`
  is the answer it then misses.
- **The conditionals.** `wild`: two threads met in one slot (two askers chose the same, a
  half-filled slot was looked at, a client's packet came between the two steps of
  freeing); the behaviour ends there. `doubled`: a path was listed twice or found no
  room, after which `delete_path` removes only one of the two.

### Transport, PacketQueue

`wait_for_packet` (full buffer, `select`, read, filter by destination), the inner loop of
`receiver_thread` (`get_packet`, checksum, HELLO, the handler) and, on the other side,
`get_message_id`, sending and `inc_message_id`, whose `message_id++` is a load and a
store. `parse_data` sets `message_id` without its semaphore, twice for one packet. A read
that fails leaves an entry of length -1 that `get_packet` compares as unsigned: `TooSmall`
is the receiver going round for ever.

Packets may arrive for ever; the kernel holds `MaxQueue` of them and loses the others. A
message without a new number is counted too (`Resend`): the PATH of a refresh, and the
receiver's PATHTEAR for a RESV with the flag D.

`PacketQueue` has four actions: Arrive, Drop (not for the agent's addresses), Block
(what a failed read leaves), Deliver. The mapping is `waiting <- recv_buffer \o
socket_queue`, `last <- packet`; `turn` flips with each delivery, on both sides, so that
equal packets one after the other are two. Conditions: `broken` (select or read failed),
`set_back` (the router set the number to a lower one), `crossed` (a number was
read between another thread's reading and counting).

### RsvpConfiguration, RsvpPacket, RsvpWire, MgmtPacket

- A store is a function from parameters to sequences of values; the empty sequence is the
  NULL pointer. The six overloads of `add`, `set` and `setadd` are one operator each with
  the overload as an argument: an overload that is not the parameter's type does nothing,
  and the types are the source's table. A block of `setadd` calls is a sequence of
  `UC(p, v)` ... `VS(p, v)`, one operator for each overload, given to `SetEach`.
- What the code does in a loop over some of a list's entries is a function over their
  positions in `Ascending` order, which TLC evaluates and the provers can reason about.
- `RsvpPacket` has the tables of `add_object`: for each class what the store must hold for
  it to be taken, and its rank.
- A written object is a class, the length its header announces and a sequence of fields
  with widths. Values are integers; a narrowing in the code (a priority to a byte, a label
  to its bits) is a narrowing here, a byte order applied on one side only is a change of
  sign, and a read at the wrong offset is `Garbage`.
- `MgmtPacket` holds both sides' tables, the agent's and the client library's; an object is
  its number, its type and its value.

### PathSetup

Each handler is one step; its subject is what it sends, stores and reports. Protocol and
translator are chosen at the start, requests and PATHs by the action that takes them; the
router's messages are built with the same writers. `seen` is what a reader understands
of the path's first PATH, `first` its objects, `null` the parameters a step read through
a NULL pointer. Where that is a parameter of the router's own message (a RESV without label
or hop, a PATH without hop or sender) the process ends (`ReadsAbsent`, phase `ended`). The
case in which RESV flags end the process is `RsvpConnection`'s. After a deletion by flags
(`DestroyByFlags`) the path is what it was: refreshes, RESVs and PATHs go on.
A RESV of the router (`RouterResv`, external) always names the sender and holds a style;
it may lack the label and the hop.

The inputs are constants with assumptions. `RequestsAssumption`: a request is a function
from object numbers, it names the destination and the tunnel (without the tunnel the
constructor reads through a NULL pointer, `rsvp_connection.cpp:99`, and there is no
path), and a name in it stands for its length. A function from object numbers has one
object of each number, so a request names at most one hop of a route.
`RouterPathsAssumption`: a PATH is a
sequence of objects with any lengths and contents, among them a session (the dispatcher
finds no connection without one); which of the others come, in which order, and what is in
them is up to the router, but a field of three bytes holds what three bytes hold.

## 3. Runs

The connection runs check for deadlock. The other passing runs and `cleanup_skip`
do not: their inputs are bounded and end, and in `Transport` and `MgmtInterface` the
process may stop (`select` fails, two threads meet in a slot).

| run | question | result |
|---|---|---|
| `connection_ietf` | IETF, kernel MPLS, both directions, all flags, incomplete messages, one surplus unit: types, exclusion, no unit lost, kernel tables, refreshes, teardown is final and reported | holds, 4.8 M states |
| `connection_oif` | OIF UNI 2.0, translator, upstream labels, acknowledgements, all types, incomplete messages: every step is one of `PathLifecycle` | holds, 1.8 M states |
| `connection_live` | one path under fairness, any message at any time: set-up decided and refresh goes on unless a PATH overtakes `create_path`, dead refresh thread ends, receiver served | holds, 109 k states |
| `dispatcher` | a table of two with three connections, three users and three refresh threads: entries, look-up, deletion, clean-up, no place is lost, lock given back | holds, 367 k states |
| `mgmt` | answers reach what was asked, reports are told to a client that stays, the path table follows confirmations, order within a pass | holds, 517 k states |
| `receive` | the buffer is a queue at its limit; what is buffered is handled, though packets never stop coming; the numbers of new messages grow | holds, 3.2 M states |
| `parameters` | what is in every message, store and report along the life of a path, under all protocols | holds, 19 k states |
| `late_timeout` | the timeout ends only what still waits for RESV | violated |
| `crossed_setup` | a PATH sent is answered, or given up after the timeout | violated |
| `refresh_zero` | an up path is refreshed again and again | violated for a period below 1000 |
| `resv_rd` | RESV with R and D ends the path | violated under IETF |
| `cleanup_skip` | the clean-up removes every torn-down path | violated by two in a row |

### Bounds, and why they are enough

**Connection.** A connection object is constructed for one path, so
one object with all its threads is the whole of its concurrency; there is one receiver,
one listener, one refresh thread and one main thread in the program. *Two keys* allow a
second key to be taken while the first is held, which is how a doubled RESV shows.
*One label* of the router, with zero or one upstream label and the agent's own labels
1 and 0 (`LabelIdRange = 2`, so it wraps), is all that the code compares. *A timeout* of 0
or 1 rounds and *an interval* of 1 or 2 make the timeout, the refresh and the round
without either all happen. *MaxSurplus = 1* gives one exclusion failure, and
nothing in the properties depends on how many. The liveness run has the client construct the
connection, and no flags; the router sends every type that acts, PATH among them: before
`create_path` the direction is UNDEFINED and a PATH is accepted.

**Dispatcher.** Three objects and three ids: an entry before or behind the one that is
removed, one that moves up, and a second object for an id in use. Three requests let each
user be in the middle of one. The table has two places for three objects, as the program has
ten for any number, so that the count is at its limit and the entry behind the array is
written; longer tables are the theorems' (section 4). `cleanup_skip` has room for all.

**Management.** Two slots of each kind and two askers fill the array and let a slot be
used again while the other waits; two messages asked and two from the client let answers
cross. Ids keep their 16 bits; they wrap only after more messages than the run sends. The
path table has three entries for two paths, so a path listed twice occurs and a full
table does not; the theorem about the table (section 4) covers that too.

**Receive.** A buffer of two fills, drains and is full with one more waiting in the kernel's
one place, which is refilled without end, by refused and accepted packets in any order. Two
messages are a new one of each thread, or of one, or one with a refresh or a tear-down before
or behind it, with the parsing, answering and counting of the two threads in any order;
`NumbersGrowAlways` is for any number of them.

**Parameters.** Eight requests and ten PATHs (one with the flags R and D, one without a hop, one
without a sender) are chosen so that each group of objects
that belong together is there and absent; with three protocols and both values of
`translator`. `MaxMessageId = 3` stops after set-up, a refresh or an answer, and a
tear-down, or after set-up, a deletion by flags and the refresh that follows it.

### What the properties leave open

Most connection properties say `surplus = 0`: they describe the agent until a RESV with
the flag D, or a signal in the wrong moment, has broken the semaphore. That it breaks is
source (`rsvp_connection.cpp:589` with `:859`); the condition says exactly how far the
other guarantees reach. `AccessNeverLost`, `EveryTeardownReported` and `TypeOK` do not need
it; the liveness run has no surplus units. `overlap`, `wild`, `doubled`, `broken`, `set_back` and
`crossed` (section 2) have the same role: each names the one event, possible in the
program, after which the guarantee ends, and each is a race or a missing check one can
point to.

`ImplementsLifecycle` and `RefreshGoesOn` except one case by name, `Overtaken`: the listener
has a CREATE to carry out and the state is DOWN, because a PATH of the router was refused
between the constructor and `create_path`. The refresh thread then ends, and what it alone
does (time-out, refresh) is not done for the path that `create_path` sets up all the same.
`crossed_setup` shows that behaviour, and it is why `StepsAsLifecycle`, the safety half,
is stated on its own: it needs no such exception.

`EveryTeardownReported` excepts only the client's own DELETE (the two steps of
`destroy_path`, which the listener answers itself). The deletion by a RESV with the
flag D is reported with the type RESV (`:548`, `:809`), which
`mgmt_interface` tells the client as a path that came up: the property asks for that report,
and does not call it right. `ForwardingMatchesUp` speaks of
paths that are up. The code leaves entries behind on some ends (RESVERR keeps the in
label, a local destroy of an incoming path deletes an out label instead, RESVTEAR and
the timeout leave the route), so "no entries when down" does not hold and is not
claimed, except for the route after a local destroy (`RouteGoneOnceDestroyed`).

`PassInOrder` holds within one pass of the listener and not beyond: a message stored
behind the pass is overtaken by the next one stored ahead of it, so a DELETE may overtake
a CREATE. `ObjectsFill` excepts the hop without a data handle (`rsvp_packet.cpp:1632`
announces a TLV it does not write), `RequestReachesRouter` the numbers its comment lists with
the reason for each (`Kept`): the ends that translation replaces, what has no object of its own in
the PATH of the protocol in use, the control handle (in whose place the agent puts a number
of its own), the label where OIF UNI 2.0 puts that handle, and a granularity above 127,
of which one signed byte is written. The hop of a route is `RouteReachesRouter`'s. `ReportReadsBack` excepts a report of more than 255
objects, which a long route makes and whose count does not fit its byte
(`mgmt_packet.cpp:337`): the client reads only some of it. `NoNullRead` excepts the hop, sender and label that the router's own message
lacks, which the code reads unasked, and says that the process ends there.
`BufferedHandled` asks that packets to other addresses come to an end, the agent's own need
not: with an address filter, as long as one to be refused is always waiting,
`wait_for_packet` goes round (`rsvp_socket.cpp:218-278`) with what is for the agent in its buffer.
`ReportsTold` asks that the client does not go away, and lets a RESV go untold whose path
`add_path` does not list, because it is the last in the table or the table is full.
`OverrunByMany` does not say that the table is not overrun, which it is by eleven connections, but that
nothing else overruns it. `TableListsConfirmed` is about what was
confirmed: the code does not ask what the connection made of a confirmation.

### Fairness

Each thread runs on when it can (weak fairness of its steps): they are POSIX threads
of an ordinary scheduler and no step of theirs waits for anything but a semaphore, a
sleep, `select` or the kernel. In `RsvpConnection`, `Enter` is strongly fair: Linux queues
the waiters of a SysV semaphore and grants in order, so a waiter is not passed over for
ever. In `MgmtInterface` that goes for askers and the listener; in
`Transport` for the receiver and the counting of a sender; in `RsvpDispatcher` for users
and for refresh threads, but not for the next second to come. Nothing is assumed of the
router, the client, the operator or of other connections: no message must arrive, none
must be answered and no client must connect (`accept` waits for one without end).

### Findings

The five violated runs each check what a comment of the source says.
`late_timeout`: the comparison with the timeout is made before `access.wait()` and the
state is not read again (`rsvp_connection.cpp:1074-1083`), so a RESV served in between is
undone, with the router left believing in the path. `crossed_setup`: the constructor
registers the object and starts its thread before the listener calls `create_path`
(`mgmt_interface.cpp:269-270`); a stray PATH for the same tunnel is refused, the thread
sees DOWN and exits, and no one times out the PATH then sent. `refresh_zero` and
`resv_rd`: the process ends by a division by zero and a null pointer (`:1086`, `:344`).
`cleanup_skip`: the loop deletes an entry, the next one moves into its place, and the loop
goes on behind it; the comment at `rsvp_connection.cpp:1059` says "remove old pathes
(teardowned)". The path that stays is removed only when another refresh thread ends.

**Mutants.** Every property of a passing run has a mutant of the code in
`PROJECT.json` that violates it: a dropped guard, a missing or doubled `signal_plus`,
a refresh without the lock, a wrong comparison, an entry put in front, a slot too many
looked at. Those that need a definition of their own are marked "Mutant" in the modules;
nothing else uses them.

## 4. Proofs

TLAPS checks eight modules, for every value of the constants that the named assumptions of
the modules allow (`ConnectionAssumption`, `DispatcherAssumption`, `MgmtAssumption`,
`TransportAssumption`, and the three of `PathSetup`): names of the protocol versions, finite sets of objects, naturals,
sizes of at least one, and constants that differ where the program's do. Where a theorem
needs more, its statement says so and the text below says why.

| module | theorem | statement |
|---|---|---|
| `RsvpConnection_proofs` | `TypeCorrect` | `Spec => []TypeOK` |
| | `Exclusion` | `Spec => []MutualExclusion` |
| | `NeverLost` | `Spec => []AccessNeverLost` |
| | `Invariant` | `Spec => []IInv` |
| | `RefreshIsSafe` | `Spec => []RefreshOnlyWhileUp` |
| | `TornForGood` | `Spec => OutgoingStaysDown` |
| | `ForwardedAlways` | `Spec => []Forwarded` |
| | `TablesMatchUp` | `(MplsLinux => Keys # {}) => (Spec => []ForwardingMatchesUp)` |
| | `RouteGone` | `Spec => []RouteGoneOnceDestroyed` |
| `LifecycleRefinement` | `TeardownReported` | `Spec => EveryTeardownReported` |
| | `ConnectionRefines` | `MaxSurplus = 0 /\ RefreshInterval # 0 => (Spec => StepsAsLifecycle)` |
| `RsvpDispatcher_proofs` | `TypeCorrect` | `Spec => []TypeOK` |
| | `OverrunCorrect` | `Spec => OverrunByMany` |
| | `TableCorrect` | `Spec => []TableConsistent` |
| | `KeptCorrect` | `Spec => []NobodyDropped` |
| | `NoUseAfterDelete` | `Spec => []NoDeletedUsed` |
| | `CleanUpCorrect` | `Spec => []CleanUpRemoves` |
| `MgmtInterface_proofs` | `TypeCorrect` | `Spec => []TypeOK` |
| | `TableCorrect` | `Spec => []TableListsConfirmed` |
| | `OrderCorrect` | `Spec => []PassInOrder` |
| | `AnswersCorrect` | `MaxAsked <= ID_RANGE => (Spec => []AnswersMatch)` |
| `Transport_proofs` | `TypeCorrect` | `Spec => []TypeOK` |
| | `NumbersGrowAlways` | `Spec => []NumbersGrow` |
| | `QueueRefinement` | `Spec => QueueImplemented` |
| `RsvpWire_proofs` | `ParsedGood` | what `parse_data` makes of any message is a well-formed store |
| | `WireOf` | what `get_data` writes: an object for each class, as long as it says |
| | `ObjectsAdded` | what `add_object` makes of any list of classes |
| `PathSetup_proofs` | `PathInvariant` | `Spec => []IInv` |
| | `TypeCorrect` | `Spec => []TypeOK` |
| | `NeverNull` | `Spec => []NoNullRead` |
| | `AlwaysFill` | `Spec => []ObjectsFill` |
| | `MessagesInOrder` | `Spec => []ObjectsInOrder` |
| | `RefreshCorrect` | `Spec => []RefreshIsSamePath` |
| | `LabelCorrect` | `Spec => []LabelAgreed` |
| | `RequestCorrect` | `Spec => []RequestReachesRouter` |
| | `NamesCorrect` | `Spec => []NamesPath` |
| | `AckCorrect` | `Spec => []AckNamesMessage` |
| | `ReportCorrect` | `Spec => []ReportReadsBack` |

**The connection.** None of the properties is inductive. `IInv` has four named parts, each
proved inductive after the ones before it:

- `Typed`: `TypeOK` and where each thread can be (`PcOK`), without which an action of
  one thread would have to be considered for all.
- `Units`: `access` plus the number of threads inside is one plus `surplus`. This is
  the accounting that gives exclusion (`Exclusion`: with no surplus there is one unit
  for all) and that no early return keeps a unit (`NeverLost`). Written as a sum over
  the four threads, it needs no cardinality until the last step.
- `Directed`: a state other than NULL goes with a direction; threads inside a handler of
  an outgoing path find it outgoing; the timeout concerns outgoing paths only.
- `Protected`: what a thread inside may rely on while there is no surplus: in the
  second half of `respond_resv` the state still is `RESV_RECV`, `PATHTEAR_SENT` goes
  with the listener's sleep and nothing else, the refresh being sent is for a path
  that is up. It holds because who is inside is alone (`Alone`).

`TornForGood` and `TeardownReported` are step properties: under `IInv` each action is
examined once. `ConnectionRefines` maps initial states and every step; `Confirmed` (what
the listener brings is an answer to a PATH without flags) and `NoDelete` (without surplus
units no deletion by the flag D) are the further invariants. Its two conditions are
needed: a surplus unit lets a handler overtake another in the middle, and an interval of
zero ends the process before the path exists.

**The kernel's tables.** What `ForwardingMatchesUp` and `RouteGoneOnceDestroyed` say is not
inductive: it speaks of a path that is up, or destroyed, and an earlier message may have
left anything behind. `Forwarded` says what the tables hold while there is no surplus
unit, of an outgoing path in every state (`ForwardedOut`): its route is to `TR_D` or
none; none, and no outgoing key, before the RESV is taken; exactly its own route and key
while it is up; no route once `dest_address` is zero, a tear-down has been sent, or a
deletion by the flag D sleeps (`Deleting`); and of an incoming one (`ForwardedIn`): it
makes no route or outgoing key, and while it is up its label is in the table. It builds on
`IInv`: without it a step of one thread could find the tables half written by another.
`TablesMatchUp` needs a key to be had: where the kernel has none, `set_out_label` answers
0 (`mpls_ioctl.cpp:98-116`), which nobody looks at (`rsvp_connection.cpp:602`): the path is
up all the same and the property is false.
`RouteGone` needs no condition.

**The dispatcher.** `IInv` is `TypeOK` and, while there is no `overlap`, `Orderly`, whose
parts are:

- `Apart`: no clean-up is under way while another thread uses the table or an object. This
  is what the absence of `overlap` means for a state, and every step starts from it.
- `Mine`: an object under construction belongs to one user and is in no entry yet.
- `Threading`: where a refresh thread is agrees with `refresh_tread_state`, which is what
  the clean-up asks before it deletes.
- `Table`: entries are of different objects under different ids, each under the object's
  own id; an entry's object is deleted only between the two steps of removing it.
- `Kept`: what was handed out and not refused is listed.
- `Held`: pointers and indices a thread holds are good.
- `AtEntry`, `ToRemove`, `Removed`: where a clean-up is in the table; which of what it had to
  remove is still ahead of it, where of two in a row the second may have slipped behind; and
  that nothing else is left when it has ended.

`TypeCorrect` says of the table's count what the model's guard says: up to
`RegisterBehind` there is a place, from there nothing is known. What it takes to get there is
`OverrunCorrect`, and it needs `Table` and the pigeonhole principle: the entries are of
different living objects, so with as many entries as places there are as many connections,
and the one that is being registered is one more.

**The management interface.** `TableInv`: until a path is doubled, each path is listed once
and the listed are the confirmed; `delete_path` moves the rest down, so the proof is one of
sequences (`RemoveAt`). `OrderInv`: the client's slots ahead of the pass and those behind
it are each filled from the front, with growing numbers. `PassInOrder` alone is not
inductive: a message put into the first free slot keeps the order only because no free
slot lies in front of a filled one on the same side. The first slot with a property
(`Lowest`) exists by well-foundedness of < on the naturals (`LowestOf`).

`AnswersMatch` says that an answer of the client reaches the PATH it was asked about, though
slots are used again and keep their old id. `Matching` says why: a message is in one place
(`NumbersApart`), an id is given once (`Numbered`: the ids count the messages that got
one) and is open once, as a request or as an answer that waits (`OpenApart`), and a slot
whose id is open is the one that waits for that answer (`OpenGiven`), so the id left over in
any other slot is no longer open; `SlotsApart` keeps an asker's half-filled slot from being
taken for a full one. All of it holds until the threads meet (`wild`). The ids wrap: with
more messages than ids two of them share one, the condition `MaxAsked <= ID_RANGE` is used
exactly there, and TLC finds the property violated with one id and two messages. The
program has 2^16 ids and nothing in it bounds the messages of a run.

**The transport.** `NumbersGrow` needs `NumberInv`: while the two conditions hold,
`message_id` is not below any number sent or held, it is above all numbers sent unless one
of them is still to be counted, at most one number is held, and a value loaded to be
incremented is as good as `message_id`. `QueueRefinement` maps every step: reading moves a packet from the head of
one sequence to the end of the other, which is a stutter of the concatenation, or a Drop in
the middle of it; the lemmas about concatenation, head and tail are stated once.

**The folds.** `add_objects`, `BytesOf` and `parse_data` fold over sequences of any length,
`FlattenSeq` is recursive, and `Ascending` chooses. The library's induction theorems take
an operator as a parameter, which the provers cannot instantiate; `UpTo` is induction over
the *set* of numbers reached, and follows from the well-foundedness of <
(`LeastMember`). `FoldExists` and `FoldSteps` show with it that the recursive definition of
a fold has a solution, and that it is what the calls leave one after the other;
`FlattenSeqOf` and `AscendingOf` do the same for the other two. These are in
`RsvpConfiguration_proofs`, with what every operation of a store keeps: `StoresOver(V)` are
the well-formed stores of values in V, and `AddIn`, `SetAtIn`, `CopySelectedIn`,
`SetEachIn`, `AddEachIn` lead from there to there. What a store has to hold is never
assumed of a value: V is any set, but a name is its length.

**The objects.** `RsvpWire_proofs` goes through every writer and every reader. A body is
`Formed` when its fields are readable and read only parameters that are held, `Sound` when
it is also as long as it says; `WrittenIn` says that every writer gives a sound body when
`check_addable` holds for its class, but for the hop without a handle (`NoTlv`), and for two
classes whose requirements say less than the writers read: STYLE needs one of its flags
to *be* 1 (`Styled`), and ETHERNET_FLOWSPEC reads the link's parameters though only the
bandwidth is required. So `check_addable` alone is not enough, and what makes up for it is an
invariant of the stores (below). In the other direction `ParsedGood` says that whatever a
message holds, in whatever order and however often, the store read from it is well-formed.

**The messages.** `AddedInOrder` is the step of `ObjectsAdded`: inserted in front of the first
object that is not lower, a class leaves the rest in order, also where the array of
`MAX_OBJECTS` cuts the end off (`MovedInOrder`) and for the class the order table has no room
for; and below that limit nothing that was addable is lost. A message is `Sendable` when its
objects are in order, none was written from a NULL pointer, each is shaped as a reader
expects it and as long as it says; `MessageSendable` gives this for each list the handlers
add to a store that is `Fit`: well-formed, and with one of the style's flags 1 where one
is present (`StyleFit`). ETHERNET_FLOWSPEC is added only to RESVCONF, from a store that was
read from a RESV, and who reads an Ethernet object reads the link with it (`LinkFit`).

**The path.** The invariant `IInv` of `PathSetup_proofs`:

- `AllFit`: every store the path has is `Fit`, so that the next message is `Sendable`; `AllSent`:
  the last ones are. `set_conf_defaults`, each handler's block of `setadd`, `parse_data` and
  `parse` lead from fit stores to fit stores (`DefaultsFit`, `PathConfFit`, `ParsedFit`,
  `AskedFit` and their like).
- `FirstSeen`, `FromRouter`, `AskedFirst`: `seen` is what `first` says, `first` is the router's
  for an incoming path, and what the client is asked about is that PATH. They keep
  `NoNullRead`: the answers read the sender's parameters (`PathRead`) from it.
- `FirstIsPath`: while an outgoing path is set up, `first` is what `path_configuration` is
  written as now, and `configuration` has the same upstream label, route and kind of
  switching. This is why `RefreshIsSamePath` holds though the refresh asks `configuration`
  for the objects: what a RESV adds to it is none of the three (`ConfStays`), because no
  object of a RESV carries them (`NoKindCarried`). A deletion by flags leaves the path up and,
  under IETF_RSVP, puts flags into `path_configuration`: the PATH of a refresh is the same
  because no class in it writes them.
- `Started` and `Bounded` say where a path can be; `LabelProposed` keeps the label of an incoming
  path; `LabelAgreed` is a part of `IInv` itself, because the object GENERALIZED_LABEL that is
  written is read back, first and only, as the label that is stored (`WireLabel`).

There is one lemma for each action (`CreateStep`, `RefreshStep`, `ResvStep`, `FirstStep`,
`AnswerStep`, `AgainStep`, `DestroyStep`, `ReportStep`).

**What the other side reads.** Four properties compare parameters on one side with those on
the other, through a writer, a reader and the rule that the first object with a parameter
counts. For an RSVP message, a set of parameters is carried by a group of classes
(`Carrying`): the writer of each class in it copies the parameters into fields at the offsets
at which the reader of that class looks (`ClassCopies`), and nothing another class
carries (`MayCarry`) is among them. `WireSays` draws the conclusion for any list of
classes: what is read is all of the group as the store has it, or none of it, and all of it
if a class of the group was listed and could be added. What stands on it:

- `NameInv`: once the path has a direction, `seen` has a session and a sender (of the
  router's PATH because a session is present and its fields reach far enough: `ParsedSession`);
  the stores of an outgoing path name the same sender, those of an incoming one the same
  filter or, before the answer, none at all (`AnswerNamed`); and each message sent names
  the path from the sender's side or from the other (`BySender`, `ByFilter`), or is
  silent, as what is sent for a path without an answer is. The condition
  `unanswered` of `NamesPath` is about the store of the answers, not the flags: a path
  answered with R and D has no answer in that store either.
- `AckInv`: an ACK is written from the store just read; its epoch is three bytes, of which
  a greater number would lose the rest (`Small`), and a PATH has it from a field of three.
- `ReportInv`: a report is `mgmt_packet` of some well-formed store. What the client reads of
  it is, for each row of the two tables, what the store holds, and of a list its last entry:
  one induction over the rows for the writer, one over the objects for the reader.
- `RequestInv`: the store read from the first PATH has of each row of the request what the
  client gave. `create_path` is followed from end to end: the message puts the value into
  the store (`AskedGives`, and `AskedLacks` for a row that is not given), completing and
  copying keep it (`PathConfStays`: whatever is not in `Touched`, the few parameters that
  are set on the way), each class of the PATH that is held completely is added
  (`PathListIs`, `NeedsAll`) and once at most (`ObjectsOnce`), and what is read is what was
  written (`PathTells`). The defaults are what makes the classes complete (`RequestComplete`):
  a name left out is twelve bytes by default, and SESSION_ATTRIBUTE is there for priorities
  given without a name. Three classes need more than `ClassCopies` asks of a field: the
  Ethernet parameters, written in ten fields and read in nine (`Grouped`), of the first of
  which one signed byte is written (`GranularityWritten`); the hop, which comes in one of two
  classes and, with a data interface, in TLVs (`HopGrouped`); and
  GENERALIZED_UNI, whose body is a sequence of subobjects that the reader takes apart
  (`SubsWritten`, `SubsRead`).

**Only model-checked.** Every action property and every invariant of the passing runs but
`RouteReachesRouter` is a theorem. What is left besides it is liveness
(`ImplementsLifecycle`, `TornThreadExits`, `RefreshGoesOn`, `ReceiverServed`,
`BufferedHandled`, `AccessGivenBack`, `ReportsTold`, `AnswersSettled`): TLAPS has no support
for ENABLED and fairness. The other way round, `AckNamesMessage` is proved and no run checks
it; and `ForwardingMatchesUp` is checked under IETF_RSVP and proved (`TablesMatchUp`) for
every value of the constants.

No module with a theorem uses a RECURSIVE operator.

## 5. What is left

Not modelled:

- *The table of interfaces* (`register_interface`, `unregister_interface`): filled once by
  the main program and never emptied while the agent runs.
- *Start-up, shutdown, signals, SIGUSR1*: the models begin with a running agent. Shutdown
  deletes objects in use (`agent_rsvp.cpp:130`) and the reload replaces strings that are
  being read (`:142`); both are in the list of hazards and neither has a property.
- *What an eleventh connection destroys*: it is written behind the table
  (`rsvp_dispatcher.cpp:265`, `RegisterBehind`); what follows depends on the layout of memory.
- *Routes of more than one hop* as the client asks for them (section 2); reports of them are
  covered, since a PATH of the router may carry any.
- *SREFRESH* ends the process (`rsvp_dispatcher.cpp:167` reads a parameter through a NULL
  pointer) and is therefore not among the router's packets.
- *label_id* with several incoming paths: `RsvpConnection` has one path, so that two paths
  get one label (`rsvp_connection.cpp:403`) cannot be seen in it.
- *remote_next_m_id*: one variable for the ids of all of the client's requests
  (`mgmt_interface.cpp:267`); `MgmtInterface` follows only the agent's own ids.
- *The agent as a client of another agent* (`uni_proxy_server` FALSE) and a read that
  returns -1 on the client's connection.
- *IP and RSVP headers, checksums and the format of floats*: constants of `Transport` decide
  which packets pass, and a float is a value.
- *Reading the configuration file, opening sockets, printing, error texts, `ip_mask`* (a
  list that nothing adds to in this version): no state of the protocol.
- *The client programs* (`src/agent_client`) and the example part of `src/agent_api`: the
  client is an environment that may send any request at any time; of the library, what it
  writes and reads is in `MgmtPacket`.
- *GetPot and the build system*: third-party or generated.

Worth doing next: the composition of
`RsvpDispatcher`, `MgmtInterface` and `PathLifecycle`, to compare what the client was told
with what is up; several incoming paths with one `label_id`.
