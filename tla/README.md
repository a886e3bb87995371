# A verification of mqtt_push_server

TLA+ models, TLC runs and TLAPS proofs for the MQTT 3.1 push server in `src/src`
(C, one process, one main thread and one detached thread per input event, Redis
for client ids and credentials). The repository has no tests and no documentation
besides its comments, log messages and assertions; every definition here was
translated from the code.

## 1. The system

| component | state | operations | talks to |
|---|---|---|---|
| start-up and main loop, `server.c` | epoll set, `env->clients[1024]` (one slot per descriptor), listening socket, self-pipe of signals, the alarm | connect to Redis, listen, empty the id set, then for ever: accept, start a handler on EPOLLIN, send on EPOLLOUT, run the timers on SIGALRM | everything |
| handler threads, `conn_handler` and `mqtt_handler.c` | a pointer to `fds_arg` on the main thread's stack, the packet being read | CONNECT, PUBLISH, SUBSCRIBE, UNSUBSCRIBE, PINGREQ, DISCONNECT, `shut_dead_conn` | all tables below |
| timers, `mqtt_timer.c` | sorted doubly linked list, a timer embedded in each slot, one mutex | `add_timer`, `inc_timer`, `remove_timer`, `timer_tick` | handlers, main thread |
| client ids, `redis_com.c` | the Redis set `clientIDs`, one context, one static `reply` | SISMEMBER, SADD, SREM, GET of a password, DEL at start | handlers, start-up |
| tables, `mqtt_hash.c` | chained hash table of topics and one of clients, no lock | get, set | handlers |
| delivery, `mqtt_message.c`, `client_ds.c` | subscriber list per topic, queue per client node, `sockfd` in the node, node in the slot, no lock | subscribe, publish, drain a queue | tables, epoll |
| epoll registrations, `util.c` | one registration per connection, its `epoll_data` | `addfd`, `reset_oneshot`, `set_fd_out`, `set_fd_in`, `removefd` | main, handlers |
| packet codec, `mqtt_packet.c`, `net.c` | cursor and remaining length of one packet | read and write lengths, strings and fields | socket |
| log, `log.c` | one global `FILE *`, the counter `SESSION_TRACKER` | `log_print` | called by every thread at almost every step |

What makes it hard:

- handlers run concurrently with each other and with the main thread; only the
  timer list has a lock, and one test of it is made outside;
- descriptors are reused while slots, client nodes and handlers still refer to
  their last use;
- a connection has one edge-triggered registration, which input and output take
  from each other; the listening socket and the signal pipe are edge-triggered too,
  and are read once per event;
- CONNECT is a sequence of Redis commands that can fail or be overtaken;
- the process ends in many places (assertions, `exit`), and Redis keeps its ids;
- TCP delivers packets in parts, and the codec has branches at 128, 256 and other
  lengths.

What would make each part correct: the list is the sorted list of the registered
timers and a tick shuts the expired ones; an id belongs to one connection, is
free afterwards, and does not outlive the process; ticks go on and whoever connects is
accepted; all input is read, all answers are sent, in order; the tables are
maps; messages reach the subscribers and nobody else; a packet is read as it was sent;
`log.txt` has every line.

`PROJECT.json` lists the hazards at their lines, with the properties that watch them.

## 2. Modules

| module | models |
|---|---|
| `TimerSet` | what the timers promise: a set of deadlines, without pointers, threads or lock |
| `TimerList` | `mqtt_timer.c` pointer by pointer, with the threads that call it; implements `TimerSet` |
| `TimerListProofs` | the theorems about `TimerList` |
| `Server` | the life of the process: start-up, the loop with accept and signals, its end, what Redis keeps |
| `ClientIds` | what the id set promises: who may take an id and when it is free again |
| `Session`, `SessionProofs` | who is connected under which id: main thread, handlers, slots, Redis |
| `EpollConn`, `EpollConnProofs` | one connection between the epoll loop and its handlers |
| `TopicTable`, `TopicTableProofs` | the hash table as concurrent handlers use it for topics |
| `Fanout`, `FanoutProofs` | subscriber list and client queues under concurrent handlers, descriptors fixed |
| `Delivery`, `DeliveryProofs` | subscriptions, queues, client nodes and reused descriptors, one packet at a time |
| `PacketReader`, `PacketReaderProofs` | the codec on one connection, from a byte stream cut anywhere |
| `Log` | `log_print` under all threads |
| `ServerProofs` | the theorems about the process: `Server` and, in its second part, `Log` (whose definitions begin with `Log`, so that the two can be extended together) |
| `MC...` | model values, symmetry and packets for TLC |

The modules cut the program by state, not by file: the steps of `conn_handler` that
touch the list are in `TimerList`, those that touch the ids in `Session`, and so on. Each
module says in its header what it leaves to which other. Definitions whose comment
begins with "Variant" are not part of any behaviour: each is the code with one plausible
mistake, and the property it is listed with in `PROJECT.json` fails with it.

**TimerList.** `next`, `prev`, `expire` are the fields of the timer in each slot,
`head`, `tail`, `mutex` those of the list, `pc[h]` where handler `h` is and `timer[h]` the slot it works on. That
slot is `packet->fd->sockfd`, read through a pointer to `fds_arg` on the stack of `et`, which the next event
overwrites: in the model it is any slot that was ever accepted, chosen anew for each operation, whether open,
closed or reused, and also one another handler is at work on. So an error shut that `conn_handler` repeats on the
closed descriptor, a renewal that hits another connection and two handlers of one connection
are all there. Taking the mutex and running the critical section up to its next wait is one action; the search
of `add_timer_after` is one action per iteration because the clock and other
handlers go on meanwhile. `remove_timer`'s unlocked test of `list->head` is a guard read
before the lock. A thread that locks the mutex it holds stays where it is (`pthread`
default mutex). `expire_time` keeps its 16 bits. Three history variables: `registered`, the timers `add_timer` has taken and
`remove_timer` has not; `crossed`, the slots on which two handlers have met; `spoiled`, set when
CONNECT or `accept` overwrites the expiry of a timer that is listed or on its way there, which it does without the mutex.

**Server.** `stage` is where the main thread stands, one action per call of `main` that
others can notice and one per event that `et` handles. `newConn` and `newSignal` are epoll's edges:
an arrival sets one, `epoll_wait` clears it, and `et` then calls `accept` or `recv` once.
`Die` is every end of the process; it keeps the ids and nothing else.
`timer_tick` either returns or, if a connection has expired, does not (`stuck`, from
`TimerList`). The last descriptor may be taken by another thread's `log_print` (then `accept`
fails) or by `accept` (then the next `log_print` ends the process). Connections come, store
an id and go: the rest of their life is in the other modules.

**Session.** One action per Redis command and one for reading its reply, since all threads share
`reply`; `fdsArg` is the variable on the stack of `et`, overwritten by the next event.
A command without a reply ends the process in `had_client_id` and `add_client_id` (`exit`) and
in `check_auth`, which prints the error number with `%s`; an integer in `reply`, left there by
another thread, ends it there too. An error reply is looked at nowhere: Redis has done nothing, and the handler goes on as after a
success; `unstored` and `unfreed` record the ids to which that happened. `shut_dead_conn` is two actions, the Redis command and the close. Reads of a whole packet
are one action: what they do inside is `PacketReader`'s. `acked` is a history
variable: the id the peer has been told it has. With one handler and no reuse the module implements
`ClientIds`: `taken` is the set in Redis, an id is claimed from SADD to CONNACK, and a connection has its id from CONNACK
to SREM; what Redis has refused to do is on record there too.

**EpollConn.** `reg`, `outData` and `edge` are the kernel's registration, `event`
what `et` is about to handle. `EPOLL_CTL_MOD` reports waiting input at once and output
always, as the kernel does for a socket with buffer space.

**TopicTable.** One action per read or write of the table that another thread can
see, `mqtt_string_copy` included (`len` is written before `body`). The hash function is a
constant: which names collide is all that matters.

**Fanout and Delivery.** Delivery has two difficulties that do not meet: threads on
lists without a lock, and descriptors that are reused. `Fanout` has the first: every read and write of a list is an
action, clients keep their descriptors, and a message is "sent" when
`mqtt_send_client_msg` comes to it. The makefile builds without optimisation, so that
`head = tail = node` writes the tail, reads it again and writes what it read to the head; both
assignments of that form have the extra step (`Reread`, `RereadReset`), in which another thread's
tail can become this thread's head. The test of `msg_bf_list` and its store are two steps as well. A node that is not in a list yet belongs to its thread and gets its
number when it is linked. `Delivery` has the second difficulty: one packet is handled
at a time, with the main thread sending in between: `epoll_wait` takes what is registered (`held`), and `et`
sends it later, to whoever is at the descriptor by then; clients leave and come back on any descriptor. Messages
are numbers, and there is one topic.

**PacketReader.** A packet is its kind, flags and string lengths; its bytes follow by the
MQTT 3.1 encoding, written from the client's side. The handler's buffer and cursor are offsets into
the stream, so that a handler that is out of step really reads other bytes. `WellFormed` says what a packet
may be: what MQTT 3.1 allows, and qos 3, which it does not, for the kinds where the code looks at it. Return
values that the code forgets (`mqtt_handler_connect` without a user name) are a choice. `listed` counts the CONNECTs
that have put the timer in the list, since a renewal ends the process when there was none; `plain` is the number of bytes of
a content up to its first NUL, which is what `strlen` sees. There is one reader, and it reads its own descriptor: the code
reads all but the command byte from `packet->fd->sockfd`, which is its own only until the next event, and `EpollConn` says how
long a connection has one reader.

**Log.** A `FILE` is its number in the order of `fopen`, `fp` the global pointer, `tracker`
the counter with the width of an `int` (`IntMax`). Test, open, write, count and close
are a step each, and descriptors are shared with the connections (`taken`, `MaxFds`): when there is none, `fopen` returns NULL. Writing to or closing a closed `FILE` is undefined: a choice between going on and the end of the process.

## 3. Runs

Passing runs (all exhaustive within their bounds):

| run | bounds | shows |
|---|---|---|
| `timer` | 3 slots, 2 handlers on any of them, keep-alives 0 (default 30, at most one slot at a time) and 1, clock to 1, until an expiry is overwritten (1 million states) | list sorted and exact (`ListOK`), what threads rely on between steps (`ThreadsOK`), null pointers followed only for unregistered timers, descriptors closed with the timer unlisted, refinement of `TimerSet` |
| `server` | 2 ids, a listening queue of 3, 2 connections before the last descriptor, 2 signals in the pipe, any number of restarts | no id of an earlier process refuses anybody (`NoGhosts`), ticks go on, connections are accepted, each with its exception |
| `session` | 2 descriptors, 2 ids, 1 handler, each descriptor accepted once, Redis may fail or answer any command with an error | `AckedRegistered`, `UniqueIds`, `ClosedIdFree`, the end of a handler whose descriptor is closed, refinement of `ClientIds` |
| `epoll` | 3 handlers, 3 packets, 2 pushed messages | all input is read, nothing is sent twice or out of order, one reader until an answer has been sent |
| `topics` | 2 handlers, 3 packets, 3 names of which 2 collide | chains well formed, a topic has its own name, walks end, and the table is a map unless a call that adds a name overlapped another call on its bucket |
| `fanout` | 2 handlers, 2 clients, 4 packets of any kind | links lead forward within a list, a queue on which no two handlers met is exact, who subscribed before a PUBLISH gets it unless two SUBSCRIBEs overlapped |
| `delivery` | 2 clients, 2 descriptors accepted twice each, 2 messages, 2 subscriptions | a message waits only if the recorded descriptor was taken, per-connection order, acknowledged clients get their own, but for what `et` had taken before the CONNECT |
| `packets` | 2 packets out of 38 at the codec's boundaries, 3 cuts or whole | in step, fields as sent, the inputs that stop the server, forwarding |
| `log` | main and 2 handlers, 5 lines, an `int` that ends at 3, 2 descriptors for files and connections, restarts | every line is kept unless calls overlapped or the counter wrapped; what is on disk stays |

Why these bounds: three timers give a list a head, a middle and a tail, and a renewal
from each; three waiting connections let one come before, during and after an accept; two
descriptors and two ids let an id be presented while another connection has it, and a connection present two; three names give a shared bucket of two nodes and one of its own;
four packets are two subscriptions and two messages, or a subscription, a message and two drains of its
queue, in any overlap of two handlers; two packets on a connection give every pair "what was before, what comes next"; the packet sizes are one
below and at each number the codec compares with; an `int` that ends at 3 wraps within the five lines. Clocks, accepts, calls, packets
and messages are bounded by the constants named `Max...`, `Backlog` and `PipeSize`. The two hash-like modules, `TopicTable` and `Fanout`, use two
threads in the runs; their safety properties are proved for any number.

Symmetry is used in `timer` (slots, handlers) and `fanout` (threads, clients), which check no liveness. `timer`
stops at a state with an overwritten expiry (`CONSTRAINT Unspoiled`), about which its properties say nothing, and at a second
slot with the long expiry (`OneSlow`); the theorems about it have neither limit.

`CHECK_DEADLOCK FALSE` throughout: a model stops when its clients have sent all they may,
and the timers can also really stop (below).

Violations, each a disagreement between the code and a text of its own (quoted in
`PROJECT.json`):

| run | what happens |
|---|---|
| `timer_expiry` | the expired connection is not shut: `timer_tick` calls `shut_dead_conn` with the mutex held, and waits for itself |
| `session_reuse` | with descriptors reused, closing a connection that never sent CONNECT frees the id of the slot's previous user, and two clients are acknowledged under one id |
| `epoll_answer` | `reset_oneshot` replaces the registration that carries the answer |

Other defects have no text in the repository that contradicts them. The passing properties deal
with them by saying under which condition the promise holds, and the condition is part of the formula or of the bounds:

- `Session` passes with one handler and no reuse of descriptors, and `UniqueIds` fails if either is relaxed: with reuse in `session_reuse`, and
  with two handlers because both can get one id past SISMEMBER before either stores it. Ids for which Redis has answered SADD or SREM with an error are an exception of the properties. A CONNECT that fails after
  SADD leaves its id in Redis: `ClientIds` has this step (`Abandon`).
- `MapUnlessOverlap`: two handlers that add to one bucket at once can lose a topic, or get NULL and
  fail an assertion.
- `ExactUnlessMixed`, `EarlierSubscribersReached`: two handlers at once on one queue or on the subscriber list
  lose or repeat entries, or follow a null tail.
- `WaitsOnlyIfTaken`: `sockfd` of a client node is never renewed, so that a message can be left waiting, and
  an unacknowledged peer can get one (`ClientsGetTheirOwn` speaks of acknowledged ones).
- `GotInOrder`, `ClientsGetTheirOwn`: a CONNECT does not recall a message that `et` has taken from `epoll_wait` for the
  descriptor; the new client may get that one, as its first.
- `OneReaderUntilAnswer`: `set_fd_in` drops EPOLLONESHOT.
- The properties of `TimerList` hold until a second CONNECT on a slot, or an `accept` on a slot whose timer a shut has left behind,
  overwrites the expiry of a listed timer without the mutex. After that the list may be unsorted or circular, and a search of it may
  never end. `CrashOnlyUnlisted`: a renewal before CONNECT, or after another handler's shut of the slot. `ClosedOffList`:
  when two handlers meet on a slot, one may close it while the other puts its timer in the list.
- `ServedUnlessLate`: a connection that comes while another is still to be reported, or while `accept` fails, may wait
  for ever. `TicksGoOn`: a full pipe loses the alarm, and an expired connection stops the main thread. `NoGhosts`: an error
  reply to DEL is taken for success.
- `LinesUnlessOverlap`, `LogKept`: overlapping calls close each other's file; a wrapped counter empties the log; when connections have
  taken all descriptors `fopen` returns NULL and the next `fprintf` ends the process.
- `StopsOnlyOn`, `AsSent`, `InStep` and `Forwarded` name the inputs for which they fail: packets in parts, PUBACK, UNSUBSCRIBE,
  empty strings and contents, a content that begins with NUL, a user name without a password, PUBLISH or PINGREQ other than after
  one CONNECT, strings of 256 bytes and topics of 16. A content is forwarded up to its first NUL.

Renewing the timer at
the head of the list hangs its handler (`add_timer` under `inc_timer`'s lock): `TimerList` has
this step, `ListOK` and the refinement hold across it, and nobody passes the
mutex afterwards.

Some hazards of `PROJECT.json` are in the models but are caught by no run: a condition of the formula or a bound excludes them, and
the hazard's note says so. They are the second CONNECT on a slot, two handlers with one id between SISMEMBER and
SADD, what a shared `fds_arg` and a shared `reply` do to the ids once two handlers run, the shut of a descriptor that another connection has by then, readers of a half-made table node, two
handlers that add one topic (the second gets NULL and fails `assert(topic != NULL)`), two SUBSCRIBEs to one list, two handlers on one
client's queue or on `msg_bf_list`, and files closed by other threads; and `SentInOrder` and `GotInOrder` hold however many messages are
lost to a replaced registration. For most of these no text of the repository says what should happen, so that there is nothing for a
violation to disagree with; where the exception is part of the formula, TLC finds the violation as soon as it is taken out.

**Fairness.** Only where a property needs it. `Server`: weak fairness on the main thread once the process has
been started, which waits only in `epoll_wait`, and on an alarm that is set, which rings; none on starting the process, on
clients or on signals. `Session`: weak fairness on what a
handler does without its peer, and on `recv` of a closed descriptor, which returns at once.
`EpollConn`: weak fairness on the main thread and on each handler, which never wait for
one another there. `TimerList` (`FairSpec`, for the violation only): strong fairness on taking the
mutex, weak on the rest; it is the most the scheduler could give, so the counterexample is no artefact of
a weak scheduler. `TopicTable`: weak fairness on each thread. Clients never owe
a packet.

## 4. Proofs

All of them hold for every value of the constants, under the modules' `ConstantsOK`, which says
only that bounds are natural numbers and that model values differ; `PacketReader` adds that the packets a client may send are well-formed, of any number and size.

### Timers

| theorem | statement |
|---|---|
| `TypeCorrect` | `Spec => []TypeOK`, repeated CONNECTs included |
| `ListCorrect` | `Spec => []ListOK` |
| `ThreadsCorrect` | `Spec => []ThreadsOK` |
| `ClosedOff` | `Spec => []ClosedOffList` |
| `CrashesOnlyUnlisted` | `Spec => []CrashOnlyUnlisted` |
| `Implements` | `Spec => ImplementsTimerSet` |

For any finite number of slots, any number of handlers on any slots, any keep-alives and any clock.

The argument: "the list is sorted and holds exactly the registered timers" is not
inductive alone. `Base` holds of every state: types, who may hold the mutex (`MutexOK`), and that two handlers at work on
one slot are recorded in `crossed` (`CrossOK`). While no expiry has been overwritten there is more. The list is that of `ListOK`,
with a sequence of any length (`HasList`; the bound by the number of slots is a pigeonhole lemma at the end). A search that is under
way stands on a listed timer that expires no later than its own (`SearchOK`); a handler that waits to enter the list has an unregistered
timer (`EntersOK`), and no two have the same one (`AloneOK`), both because entering twice would have overwritten an expiry; a
renewed expiry is never earlier than the old one, which is why `adjust_timer` only ever moves
backwards (`ExpiryOK`); the list is never empty while a timer is being placed, so that the unlocked test of `list->head` tells the truth about
the timer of the handler that makes it (`NotEmptyOK`, `ShutOK`). Two
lemmas say what inserting after a timer and removing one do to pointers that spell a
sequence; each action then is one of them, or leaves the list alone. The refinement maps the
deadlines to the listed timers and the one being placed, and `due` to the head while the tick waits for the mutex; a step that overwrites an expiry is
`TimerSet`'s `Overwritten`, after which it promises nothing.

### Process

| theorem | statement |
|---|---|
| `TypeCorrect` | `Spec => []TypeOK`: `accept` and `recv` are only called for what is there |
| `NoGhostsHolds` | `Spec => []NoGhosts` |
| `LeftOnlyIfLateHolds` | `Spec => []LeftOnlyIfLate`, the safety half of `ServedUnlessLate` |
| `OneAlarmHolds` | `Spec => []OneAlarm`, the safety half of `TicksGoOn` |

`NoGhosts` needs that ids are stored by handlers only, hence after the DEL, and that a failed context stays
failed, so that a process whose DEL had no reply never answers a CONNECT. `LeftOnlyIfLate` counts: as many
connections wait as there are edges and events to come. `OneAlarm` is inductive with "no alarm before `main`
sets it".

### Client ids

| theorem | statement |
|---|---|
| `TypeCorrect` | `Spec => []TypeOK`, for any handlers at once and any reuse of descriptors |
| `UniqueIdsHold` | `Serial => (Spec => []UniqueIds)` |
| `AckedRegisteredHolds` | `Serial => (Spec => []AckedRegistered)` |
| `SubscriberKnownHolds` | `Serial => (Spec => []SubscriberKnown)` |
| `ClosedIdFreeHolds` | `Serial => (Spec => ClosedIdFree)` |
| `Implements` | `Serial => (Spec => ImplementsClientIds)` |

`Serial` says that one handler runs at a time and that no descriptor is accepted twice; the
number of descriptors and ids is arbitrary, and Redis may fail or answer with an error anywhere. Without the second half the run
`session_reuse` refutes `UniqueIds`; without the first, two handlers that overlap between SISMEMBER and SADD do. `SerialInv` adds to the
properties what they rest on: with one handler `fds_arg`, `sockfd` and the argument of
`shut_dead_conn` are one descriptor (`OneFd`); the slot of an open connection names the
acknowledged id, except between CONNACK and `mqtt_set_env` (`SlotNamesPeer`); an id found
free stays free until SADD and is nobody else's from then on (`IdClaimed`). The conjunct that
is easily missed is `SlotIsOwn`: after an error the loop goes on, `recv` fails, and `shut_dead_conn`
runs a second time on the closed descriptor and removes the id in its slot again, which
must not be another's by then. The refinement needs a little more of the same: while a handler goes on with a closed
descriptor, the id in its slot is not in the set (`IdGivenUp`), so that the second SREM frees nothing. It says more than
the invariants: an id leaves the set only with the connection that has it, and never with another one's close or a
refused CONNECT.

### Connections and tables

| module | theorem | statement |
|---|---|---|
| `EpollConn` | `TypeCorrect`, `SentInOrderHolds`, `OneReaderHolds` | `TypeOK`, `SentInOrder`, `OneReaderUntilAnswer` |
| `TopicTable` | `TypeCorrect`, `ChainsHold`, `OwnTopicHolds`, `MapHolds` | `TypeOK`, `ChainsOK`, `OwnTopic`, `MapUnlessOverlap` |
| `Fanout` | `TypeCorrect`, `ChainsHold`, `ExactHolds`, `EarlierReachedHolds` | `TypeOK`, `ChainsOK`, `ExactUnlessMixed`, `EarlierSubscribersReached` |
| `Delivery` | `TypeCorrect`, `WaitsHolds`, `GotInOrderHolds`, `ClientsGetTheirOwnHolds` | `TypeOK`, `WaitsOnlyIfTaken`, `GotInOrder`, `ClientsGetTheirOwn` |
| `PacketReader` | `TypeCorrect`, `InStepHolds`, `StopsOnlyOnHolds`, `AsSentHolds`, `ForwardedHolds` | `TypeOK`, `InStep`, `StopsOnlyOn`, `AsSent`, `Forwarded` |
| `Log` (in `ServerProofs`) | `LinesHold`, `KeptHolds` | `LinesUnlessOverlap`, `LogKept` |

*EpollConn*, any number of handlers. `OrderInv`: the answer `et` holds is newer than all that were sent, and the one in
the registration, unless its event was taken, is newer still. `ReaderInv`: until an answer has been
sent the registration is EPOLLONESHOT or for output, and an event for input means that nobody reads.

*TopicTable*, any number of threads, names and packets and any hash function. That links do not cross buckets
cannot be said of the keys alone, because a node is linked before it has one. `HomeInv` says that
there is an assignment of nodes to buckets with which keys, links, table entries and the
nodes threads stand on agree; each new node extends it. `OwnInv`: a node's data is a topic of its key, and a
node being filled belongs to one thread and has no key.

`MapUnlessOverlap` needs to know what the table looks like in the middle of a call. `MapInv` says, while no overlap has
happened: the nodes of a bucket that have their key are full, differ in key and form one chain (`Chained`), to which the
table leads and whose nodes have data, but for what a thread has still to do (`BucketOK`); where the thread that adds stands, and that the
name it adds has no node yet (`StagesOK`); and every topic that was made is in the one node of its name or
still in the hands of the thread that made it. `overlap` is a history variable, and `MapInv` also says that it is set as soon as the condition holds. `Chain` is
defined without recursion, as the least set that has the head and is closed under `next`. That a whole bucket is reached from its
head is an induction along the links; the provers cannot use the induction theorems of the library, but they can use
that a set of natural numbers has a least element (`Smallest`, from `WellFoundedInduction`): the first node that is
missing would be the successor of one that is not.

*Fanout*, any number of threads, clients and packets. What a thread goes by (`new`, `at`, `cur`) is 0 or a node of the list it works
on, whatever the other threads wrote between its steps (`ThreadsOK`); with that every link and every
end of a list is of the list, and leads to a later node. Lists only gain nodes (`Of` grows), so what is right for a thread stays right (`Grown`).
`ExactInv`, for a client on whose queue two threads have never been at once: between calls the queue is empty and all that
was given is sent (`Quiet`); the one thread on it has at most one node there, with the one message that is given and not yet
sent, at a place that its label says (`Stage`); and where two threads are at once is on record in `mixed`. `ReachInv`, while no two threads have met on the subscriber list: it has no gap (`Shape`),
whoever has joined is on it (`JoinedOK`), and a client that a running PUBLISH owes the message has got it or is on a node
still ahead of the walk (`DueOK`).

*Delivery*, any descriptors, clients, reuse and packets. `WaitInv`: a client whose slot and recorded descriptor agree has messages in its queue only during
its own send. `OwnInv`: an acknowledged connection's slot is its client's, and what is registered for it that
client subscribed to. `OrderInv`: what a peer has, what is registered for it and what waits for the client of its slot
come in order, leaving out the part of the queue that a send under way is done with; `NewestInv`: during a distribution the
newest message is only where it has been given. `GotInOrder` speaks of cardinalities, hence the theorems on finite sets.

*PacketReader*, any well-formed packets, any number of them, any pieces. `TypeInv` needs no packet: what was received bounds what is read
(`Fits`), whatever the bytes are. `StepInv` says, while no PUBACK has been sent, in which packet the handler stands, how many digits of its remaining
length it has and that their sum is the length modulo 128 to that number (`DigitSum` carries it to the next one), and, for a packet without long
strings, how many of its strings have been read, which fields are still to come and that the cursor is where the encoding puts them
(`FieldsOK`, `AtField`). The facts about the stream come first: `FlattenSeq` is defined by a recursive function and the provers have no induction over
it, so `FlattenAppend` is proved from the uniqueness of that function, again by the least number at which two of them
could differ; from it follow where a packet starts in the stream and a string in its payload (`Sent`, `StringAt`).
`remain_bytes` is proved to decode to the number it encodes by its four cases.

*Log*, any threads, lines and open files. `LogInv`: before there are threads only `main` writes, and later calls do not empty the file as long as the
counter counts (`FirstLine`); while calls come one by one, all lines but the one under way are on disk, that one is in the buffer of the
one open `FILE`, and the counter is the number of lines (`OneByOne`).

### Not proved

Only model-checked: all liveness, which the prover does not reach. `Session`'s invariants are proved for one handler at a time
only, because they fail for more.

## 5. Not modelled

- `mqtt_hash_del`, `mqtt_topic_add_msg`, `mqtt_topic_unsub`, `mqtt_unsubscribe_ack`, `mqtt_send_connack`,
  `mqtt_add_client_s`, `mqtt_packet_init`: nothing reaches them
  (`mqtt_handler_unsubscribe` follows a null pointer first);
- memory: nothing is freed, and growth is out of reach of bounded instances;
- descriptors from 1024 on, which index `env->clients` out of bounds: undefined at once. `Server` has the limit of
  descriptors, not the size of the array;
- what start-up does when a call fails (it exits, which is `Die`) and the wording of the log;
- CONNACK, PINGRESP and the header bits of what is sent: constants of the code;
- five-byte remaining lengths, which no conforming client sends;
- a connection's whole life in one module: timers, ids, registration and queues are each complete, and what they
  exchange is a choice in the others where that is possible (`TimerList`: the slot of each operation; `Server`: whether a tick
  returns and how many descriptors are left; `Log`: the descriptors of the connections). It is not everywhere. `TimerList` lets `fds_arg`
  have any value that `et` has written, not what is left on the stack once `et` has returned. `PacketReader` has one reader, which reads its own
  descriptor, and a list of timers that other connections have not spoiled; `Fanout` has fixed descriptors; `Delivery` and the passing run and
  theorems of `Session` have one handler at a time. What two readers of one descriptor do to a packet is in no module.

## 6. Plan

Done: timers and ids with their abstract specifications, the process, epoll, topic table,
fan-out, delivery, codec and log, and proofs of the safety properties of all of them. What could come next:

1. A module that composes a connection's life for closes that come from the tick, the peer and
   an error at once. The tick's close never returns (`timer_expiry`), so the case worth having is the peer's against the error's, which
   `Session` and `TimerList` already have, each for its own state.
2. Two readers of one descriptor in `PacketReader`, and `fds_arg` overwritten between two fields of a packet.
