------------------------------- MODULE Server -------------------------------
(***************************************************************************)
(* The life of the process: main of server.c up to its loop, the loop with *)
(* its two own sources of events, the listening socket and the pipe of     *)
(* signals, and what a restart finds in Redis.                             *)
(*                                                                         *)
(* Both sources are edge-triggered: epoll_wait reports one only if         *)
(* something has arrived since it last did, and et then calls accept once. *)
(* What connections do is in the other modules; here they come, store an   *)
(* id, and go.                                                             *)
(***************************************************************************)
EXTENDS Naturals, Sequences

CONSTANTS Ids,       \* client ids
          Backlog,   \* connections the listening socket holds
          MaxOpen,   \* connections beside which there is one descriptor left
          PipeSize   \* signals the pipe holds; recv takes them all

ASSUME ConstantsOK ==
    /\ Backlog \in Nat \ {0} /\ MaxOpen \in Nat \ {0} /\ PipeSize \in Nat \ {0}

VARIABLES
    stage,      \* where the main thread stands
    redis,      \* "up" or "down": a failed context stays so
    ids,        \* the set clientIDs in Redis; outlives the process
    waiting,    \* connections not yet accepted
    newConn,    \* does epoll know of an arrival it has not reported?
    open,       \* accepted connections that are open
    pipe,       \* the signals in the pipe
    newSignal,  \* does epoll know of a signal it has not reported?
    events,     \* what epoll_wait has returned and et not yet handled
    armed,      \* is an alarm set?
    own,        \* history: the ids stored since the process started
    uncleared,  \* history: Redis has answered its DEL with an error
    late,       \* history: a connection has come while epoll knew of another,
                \* or accept has failed
    lost        \* history: a SIGALRM has found the pipe full

signals == <<pipe, newSignal>>
socket == <<waiting, newConn>>
store == <<redis, ids, own, uncleared>>
vars == <<stage, store, socket, open, signals, events, armed, late, lost>>

Init ==
    /\ stage = "off" /\ ids = {}
    /\ redis = "up"
    /\ waiting = 0 /\ newConn = FALSE /\ open = 0
    /\ pipe = <<>> /\ newSignal = FALSE
    /\ events = {} /\ armed = FALSE
    /\ own = {} /\ uncleared = FALSE /\ late = FALSE /\ lost = FALSE

\* Signals and connections get through to a process that has these.
hasPipe == stage \in {"alarm", "clear", "wait", "et", "tick", "stuck"}
listens == stage = "epoll" \/ stage = "pipe" \/ hasPipe

\* An exit, a failed assertion, SIGINT, SIGKILL, a crash.  Redis keeps the set.
Die ==
    /\ stage # "off"
    /\ stage' = "off"
    /\ redis' = "up"
    /\ waiting' = 0 /\ newConn' = FALSE /\ open' = 0
    /\ pipe' = <<>> /\ newSignal' = FALSE
    /\ events' = {} /\ armed' = FALSE
    /\ own' = {} /\ uncleared' = FALSE /\ late' = FALSE /\ lost' = FALSE
    /\ UNCHANGED ids

-----------------------------------------------------------------------------
(* Start-up.                                                               *)

To(s) == stage' = s

\* redisConnectWithTimeout, and addsig: from here on SIGTERM does not end the
\* process.  Without Redis it exits.
ConnectRedis ==
    /\ stage = "off"
    /\ To("listen")
    /\ UNCHANGED <<store, socket, open, signals, events, armed, late, lost>>

Listen ==
    /\ stage = "listen"
    /\ To("epoll")
    /\ UNCHANGED <<store, socket, open, signals, events, armed, late, lost>>

\* addfd of the listening socket: epoll looks at once whether it is ready.
AddListener ==
    /\ stage = "epoll"
    /\ newConn' = (waiting > 0)
    /\ late' = (waiting > 1)
    /\ To("pipe")
    /\ UNCHANGED <<store, waiting, open, signals, events, armed, lost>>

MakePipe ==
    /\ stage = "pipe"
    /\ To("alarm")
    /\ UNCHANGED <<store, socket, open, signals, events, armed, late, lost>>

Alarm ==
    /\ stage = "alarm"
    /\ armed' = TRUE
    /\ To("clear")
    /\ UNCHANGED <<store, socket, open, signals, events, late, lost>>

\* Variant: the loop is entered without DEL.
ClearIdsLeft ==
    /\ stage = "clear"
    /\ To("wait")
    /\ UNCHANGED <<store, socket, open, signals, events, armed, late, lost>>

\* clear_id_set: DEL.  A missing reply is reported and an error reply is not;
\* the loop is entered in any case.
ClearIds ==
    /\ stage = "clear"
    /\ \/ redis = "up" /\ ids' = {} /\ UNCHANGED uncleared
       \/ redis = "up" /\ uncleared' = TRUE /\ UNCHANGED ids
       \/ redis = "down" /\ UNCHANGED <<ids, uncleared>>
    /\ To("wait")
    /\ UNCHANGED <<redis, own, socket, open, signals, events, armed, late, lost>>

-----------------------------------------------------------------------------
(* The loop.                                                               *)

Reported == {e \in {"listen", "signals"} :
               \/ e = "listen" /\ newConn /\ waiting > 0
               \/ e = "signals" /\ newSignal /\ pipe # <<>>}

\* Variant: only one event is taken, the other one is not kept.
EpollWaitOne ==
    /\ stage = "wait"
    /\ \E e \in Reported : events' = {e}
    /\ newConn' = FALSE /\ newSignal' = FALSE
    /\ To("et")
    /\ UNCHANGED <<store, waiting, open, pipe, armed, late, lost>>

\* epoll_wait returns what is ready and has not been reported.  After a signal
\* or a timeout it is called again.
EpollWait ==
    /\ stage = "wait" /\ Reported # {}
    /\ events' = Reported
    /\ newConn' = FALSE /\ newSignal' = FALSE
    /\ To("et")
    /\ UNCHANGED <<store, waiting, open, pipe, armed, late, lost>>

\* Variant: the number of descriptors is not limited.
AcceptUnlimited ==
    /\ stage = "et" /\ "listen" \in events
    /\ events' = events \ {"listen"}
    /\ waiting' = waiting - 1 /\ open' = open + 1
    /\ UNCHANGED <<stage, store, newConn, signals, armed, late, lost>>

\* One accept, with a descriptor to spare.
Accepted ==
    /\ open < MaxOpen
    /\ waiting' = waiting - 1 /\ open' = open + 1
    /\ events' = events \ {"listen"}
    /\ UNCHANGED <<stage, store, newConn, signals, armed, late, lost>>

\* The file of another thread's log_print has the last descriptor: accept
\* returns -1, and the connection stays where it is.  env->clients[-1], which
\* is then written, are the last of env->events.
AcceptFails ==
    /\ open = MaxOpen
    /\ late' = TRUE
    /\ events' = events \ {"listen"}
    /\ UNCHANGED <<stage, store, socket, open, signals, armed, lost>>

\* accept takes the last descriptor: the log_print after it gets none for its
\* file, and the process ends.
AcceptLast == open = MaxOpen /\ Die

\* et, listening socket.
Accept == /\ stage = "et" /\ "listen" \in events
          /\ Accepted \/ AcceptFails \/ AcceptLast

Alarms == {i \in DOMAIN pipe : pipe[i] = "SIGALRM"}

\* et, pipe: recv.  Any signal but SIGALRM is ignored.
ReadSignals ==
    /\ stage = "et" /\ "signals" \in events
    /\ events' = events \ {"signals"}
    /\ pipe' = <<>>
    /\ To(IF Alarms # {} THEN "tick" ELSE "et")
    /\ UNCHANGED <<store, socket, open, newSignal, armed, late, lost>>

\* Variant: the alarm is not set again.
TickOnce ==
    /\ stage = "tick"
    /\ \/ To("et")
       \/ open > 0 /\ To("stuck")
    /\ UNCHANGED <<store, socket, open, signals, events, armed, late, lost>>

\* timer_handler: timer_tick, which does not return if a connection has expired
\* (TimerList), and alarm.
Tick ==
    /\ stage = "tick"
    /\ \/ armed' = TRUE /\ To("et")
       \/ open > 0 /\ To("stuck") /\ UNCHANGED armed
    /\ UNCHANGED <<store, socket, open, signals, events, late, lost>>

EtDone ==
    /\ stage = "et" /\ events = {}
    /\ To("wait")
    /\ UNCHANGED <<store, socket, open, signals, events, armed, late, lost>>

-----------------------------------------------------------------------------
(* Signals.                                                                *)

\* sig_handler: the pipe does not wait for room.
Put(sig) == IF Len(pipe) < PipeSize
            THEN pipe' = Append(pipe, sig) /\ newSignal' = TRUE
            ELSE UNCHANGED signals

AlarmRings ==
    /\ hasPipe /\ armed
    /\ armed' = FALSE
    /\ Put("SIGALRM")
    /\ lost' = (lost \/ Len(pipe) = PipeSize)
    /\ UNCHANGED <<stage, store, socket, open, events, late>>

Terminate ==
    /\ hasPipe
    /\ Put("SIGTERM")
    /\ UNCHANGED <<stage, store, socket, open, events, armed, late, lost>>

-----------------------------------------------------------------------------
(* Clients and handlers.                                                   *)

\* A connection is made with a listening socket that has room; one that has
\* none does not answer, and tells nobody.
Arrive ==
    /\ listens /\ waiting < Backlog
    /\ waiting' = waiting + 1
    /\ newConn' = (stage # "epoll")
    /\ late' = (late \/ newConn)
    /\ UNCHANGED <<stage, store, open, signals, events, armed, lost>>

\* A handler leaves a connection: its id, if it has one, is removed.
Leave ==
    /\ open > 0
    /\ open' = open - 1
    /\ \/ UNCHANGED ids
       \/ redis = "up" /\ \E i \in own : ids' = ids \ {i}
    /\ UNCHANGED <<stage, redis, own, uncleared, socket, signals, events, armed,
                   late, lost>>

\* A CONNECT with an id that is not in the set stores it.
Register(i) ==
    /\ open > 0 /\ redis = "up" /\ i \notin ids
    /\ ids' = ids \cup {i} /\ own' = own \cup {i}
    /\ UNCHANGED <<stage, redis, uncleared, socket, open, signals, events,
                   armed, late, lost>>

\* A command fails; the next CONNECT then ends the process.
RedisDown ==
    /\ stage # "off"
    /\ redis' = "down"
    /\ UNCHANGED <<stage, ids, own, uncleared, socket, open, signals, events,
                   armed, late, lost>>

-----------------------------------------------------------------------------
Starts == Listen \/ AddListener \/ MakePipe \/ Alarm \/ ClearIds

Loops == EpollWait \/ Accept \/ ReadSignals \/ Tick \/ EtDone

Others == \/ AlarmRings \/ Terminate \/ Arrive \/ Leave
          \/ (\E i \in Ids : Register(i)) \/ RedisDown \/ Die

Next == ConnectRedis \/ Starts \/ Loops \/ Others

Spec == Init /\ [][Next]_vars

\* The main thread of a process that has been started runs, and an alarm that
\* is set rings.
Fairness == WF_vars(Starts \/ Loops) /\ WF_vars(AlarmRings)

FairSpec == Spec /\ Fairness

-----------------------------------------------------------------------------
(* Properties.                                                             *)

\* Every variable has its type.  What et has still to handle is there: accept
\* and recv do not find the socket or the pipe empty.
TypeOK ==
    /\ stage \in {"off", "listen", "epoll", "pipe", "alarm", "clear", "wait",
                  "et", "tick", "stuck"}
    /\ redis \in {"up", "down"}
    /\ ids \subseteq Ids /\ own \subseteq Ids
    /\ waiting \in 0 .. Backlog
    /\ open \in 0 .. MaxOpen
    /\ pipe \in Seq({"SIGALRM", "SIGTERM"}) /\ Len(pipe) \in 0 .. PipeSize
    /\ events \subseteq {"listen", "signals"}
    /\ newConn \in BOOLEAN /\ newSignal \in BOOLEAN /\ armed \in BOOLEAN
    /\ uncleared \in BOOLEAN /\ late \in BOOLEAN /\ lost \in BOOLEAN
    /\ "listen" \in events => waiting > 0
    /\ "signals" \in events => pipe # <<>>

inLoop == stage \in {"wait", "et", "tick", "stuck"}

\* Nobody is refused for an id that a process which is gone has left in Redis:
\* by the time CONNECTs are answered the set holds what this process has
\* stored, whether or not its DEL got a reply, unless Redis has answered DEL
\* with an error, which clear_id_set takes for success.
NoGhosts == inLoop /\ redis = "up" /\ ~ uncleared => ids \subseteq own

\* The chain of alarms is neither broken nor doubled: the next tick is in the
\* alarm, in the pipe or under way, and in one of them only, unless the pipe
\* was full when the alarm rang.
OneAlarm ==
    stage \in {"clear", "wait", "et", "tick"} /\ ~ lost =>
        \/ armed /\ stage # "tick" /\ Alarms = {}
        \/ ~ armed /\ stage = "tick" /\ Alarms = {}
        \/ ~ armed /\ stage # "tick" /\ \E i \in DOMAIN pipe : Alarms = {i}

\* Every second the timers are looked at, for as long as the process runs,
\* unless timer_tick has stopped the main thread or signals that nobody reads
\* have filled the pipe.
TicksGoOn ==
    stage = "wait" ~> stage \in {"tick", "stuck", "off"} \/ lost

Coming == (IF newConn THEN 1 ELSE 0) + (IF "listen" \in events THEN 1 ELSE 0)

\* A connection is left without an event that will accept it only after one
\* has come while another was still to be reported, or accept has failed.
LeftOnlyIfLate ==
    stage \notin {"off", "listen", "epoll"} =>
        Coming <= waiting /\ (~ late => Coming = waiting)

\* A client that connects is accepted, although et calls accept once for each
\* event, unless a connection has come while another was still to be reported,
\* or accept has failed.
ServedUnlessLate ==
    waiting > 0 ~> "listen" \in events \/ late \/ stage \in {"stuck", "off"}
=============================================================================
