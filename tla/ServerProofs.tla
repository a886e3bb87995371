---------------------------- MODULE ServerProofs ----------------------------
(***************************************************************************)
(* Proofs about the process: about Server, for any sets of ids and any     *)
(* sizes of the queue of the listening socket, the descriptor table and    *)
(* the pipe; and about Log, its log, for any number of threads and lines   *)
(* and any int.                                                            *)
(***************************************************************************)
EXTENDS Server, Log, FiniteSetTheorems, SequenceTheorems, TLAPS

\* The listening socket holds nothing before listen and epoll knows of nothing
\* before addfd; events are those et is working on.
SocketOK ==
    /\ stage \in {"off", "listen"} => waiting = 0
    /\ stage \in {"off", "listen", "epoll"} => ~ newConn
    /\ events # {} => stage \in {"et", "tick", "stuck"}

TypeInv == TypeOK /\ SocketOK

LEMMA EmptyPipe ==
    /\ <<>> \in Seq({"SIGALRM", "SIGTERM"})
    /\ Len(<<>>) \in 0 .. PipeSize
BY ConstantsOK

LEMMA InitTyped == Init => TypeInv
<1> SUFFICES ASSUME Init PROVE TypeInv
  OBVIOUS
<1>1. pipe \in Seq({"SIGALRM", "SIGTERM"}) /\ Len(pipe) \in 0 .. PipeSize
  BY EmptyPipe DEF Init
<1>2. waiting \in 0 .. Backlog /\ open \in 0 .. MaxOpen
  BY ConstantsOK DEF Init
<1>3. /\ newConn \in BOOLEAN /\ newSignal \in BOOLEAN /\ armed \in BOOLEAN
      /\ uncleared \in BOOLEAN /\ late \in BOOLEAN /\ lost \in BOOLEAN
  BY DEF Init
<1>4. /\ ids \subseteq Ids /\ own \subseteq Ids /\ events \subseteq {"listen", "signals"}
  BY DEF Init
<1>5. SocketOK
  BY DEF Init, SocketOK
<1> QED BY <1>1, <1>2, <1>3, <1>4, <1>5 DEF Init, TypeInv, TypeOK

LEMMA DieTyped == ASSUME TypeInv, Die PROVE TypeInv'
<1>1. pipe' \in Seq({"SIGALRM", "SIGTERM"}) /\ Len(pipe') \in 0 .. PipeSize
  BY EmptyPipe DEF Die
<1>2. waiting' \in 0 .. Backlog /\ open' \in 0 .. MaxOpen
  BY ConstantsOK DEF Die
<1>3. /\ newConn' \in BOOLEAN /\ newSignal' \in BOOLEAN /\ armed' \in BOOLEAN
      /\ uncleared' \in BOOLEAN /\ late' \in BOOLEAN /\ lost' \in BOOLEAN
  BY DEF Die
<1>4. ids' \subseteq Ids /\ own' \subseteq Ids /\ events' \subseteq {"listen", "signals"}
  BY DEF Die, TypeInv, TypeOK
<1>5. SocketOK'
  BY DEF Die, SocketOK
<1> QED BY <1>1, <1>2, <1>3, <1>4, <1>5 DEF Die, TypeInv, TypeOK

LEMMA StartsTyped ==
    ASSUME TypeInv, ConnectRedis \/ Starts
    PROVE  TypeInv'
<1> USE ConstantsOK DEF TypeInv, TypeOK, SocketOK, store, socket, signals, To
<1>1. CASE ConnectRedis
  BY <1>1 DEF ConnectRedis
<1>2. CASE Listen
  BY <1>2 DEF Listen
<1>3. CASE AddListener
  BY <1>3 DEF AddListener
<1>4. CASE MakePipe
  BY <1>4 DEF MakePipe
<1>5. CASE Alarm
  BY <1>5 DEF Alarm
<1>6. CASE ClearIds
  BY <1>6 DEF ClearIds
<1> QED BY <1>1, <1>2, <1>3, <1>4, <1>5, <1>6 DEF Starts

LEMMA LoopsTyped == ASSUME TypeInv, Loops PROVE TypeInv'
<1> USE ConstantsOK DEF TypeInv, TypeOK, SocketOK, store, socket, signals, To
<1>1. CASE EpollWait
  <2>1. /\ events' \subseteq {"listen", "signals"}
        /\ "listen" \in events' => waiting > 0
        /\ "signals" \in events' => pipe # <<>>
    BY <1>1 DEF EpollWait, Reported
  <2>2. newConn' \in BOOLEAN /\ newSignal' \in BOOLEAN
    BY <1>1 DEF EpollWait
  <2> QED BY <1>1, <2>1, <2>2 DEF EpollWait
<1>2. CASE Accept
  <2>1. CASE Accepted
    BY <1>2, <2>1 DEF Accept, Accepted
  <2>2. CASE AcceptFails
    BY <1>2, <2>2 DEF Accept, AcceptFails
  <2>3. CASE AcceptLast
    BY <2>3, DieTyped DEF AcceptLast
  <2> QED BY <1>2, <2>1, <2>2, <2>3 DEF Accept
<1>3. CASE ReadSignals
  <2>1. pipe' \in Seq({"SIGALRM", "SIGTERM"}) /\ Len(pipe') = 0
    BY <1>3 DEF ReadSignals
  <2> QED BY <1>3, <2>1 DEF ReadSignals
<1>4. CASE Tick
  <2>1. /\ stage' \in {"et", "stuck"} /\ stage = "tick"
        /\ armed' \in BOOLEAN
    BY <1>4 DEF Tick
  <2>2. UNCHANGED <<ids, own, redis, uncleared, waiting, newConn, open, pipe,
                    newSignal, events, late, lost>>
    BY <1>4 DEF Tick
  <2> QED BY <2>1, <2>2
<1>5. CASE EtDone
  BY <1>5 DEF EtDone
<1> QED BY <1>1, <1>2, <1>3, <1>4, <1>5 DEF Loops

\* What sig_handler does to the pipe.
LEMMA PutTyped ==
    ASSUME TypeInv, NEW sig \in {"SIGALRM", "SIGTERM"}, Put(sig)
    PROVE  /\ pipe' \in Seq({"SIGALRM", "SIGTERM"}) /\ Len(pipe') \in 0 .. PipeSize
           /\ newSignal' \in BOOLEAN
           /\ pipe # <<>> => pipe' # <<>>
<1>1. CASE Len(pipe) < PipeSize
  <2>1. pipe' = Append(pipe, sig) /\ newSignal' = TRUE
    BY <1>1 DEF Put
  <2>2. /\ pipe' \in Seq({"SIGALRM", "SIGTERM"})
        /\ Len(pipe') = Len(pipe) + 1
    BY <2>1 DEF TypeInv, TypeOK
  <2>3. Len(pipe') # 0
    BY <2>2 DEF TypeInv, TypeOK
  <2> QED BY <1>1, <2>1, <2>2, <2>3, ConstantsOK DEF TypeInv, TypeOK
<1>2. CASE ~ (Len(pipe) < PipeSize)
  BY <1>2 DEF Put, TypeInv, TypeOK, signals
<1> QED BY <1>1, <1>2

LEMMA OthersTyped == ASSUME TypeInv, Others PROVE TypeInv'
<1> USE ConstantsOK DEF TypeInv, TypeOK, SocketOK, store, socket, signals
<1>1. CASE AlarmRings
  <2>1. Put("SIGALRM") /\ armed' = FALSE
    BY <1>1 DEF AlarmRings
  <2>2. lost' \in BOOLEAN
    <3>1. lost' = (lost \/ Len(pipe) = PipeSize)
      BY <1>1 DEF AlarmRings
    <3> QED BY ONLY <3>1, Zenon
  <2>3. /\ pipe' \in Seq({"SIGALRM", "SIGTERM"}) /\ Len(pipe') \in 0 .. PipeSize
        /\ newSignal' \in BOOLEAN
        /\ pipe # <<>> => pipe' # <<>>
    BY <2>1, PutTyped
  <2>4. UNCHANGED <<stage, ids, own, redis, uncleared, waiting, newConn, open,
                    events, late>>
    BY <1>1 DEF AlarmRings
  <2>5. armed' \in BOOLEAN
    BY <2>1
  <2> QED BY <2>2, <2>3, <2>4, <2>5
<1>2. CASE Terminate
  <2>1. Put("SIGTERM")
    BY <1>2 DEF Terminate
  <2>2. /\ pipe' \in Seq({"SIGALRM", "SIGTERM"}) /\ Len(pipe') \in 0 .. PipeSize
        /\ newSignal' \in BOOLEAN
        /\ pipe # <<>> => pipe' # <<>>
    BY <2>1, PutTyped
  <2>3. UNCHANGED <<stage, store, socket, open, events, armed, late, lost>>
    BY <1>2 DEF Terminate
  <2> QED BY <2>2, <2>3
<1>3. CASE Arrive
  BY <1>3 DEF Arrive, listens, hasPipe
<1>4. CASE Leave
  BY <1>4 DEF Leave
<1>5. CASE \E i \in Ids : Register(i)
  BY <1>5 DEF Register
<1>6. CASE RedisDown
  BY <1>6 DEF RedisDown
<1>7. CASE Die
  BY <1>7, DieTyped
<1> QED BY <1>1, <1>2, <1>3, <1>4, <1>5, <1>6, <1>7 DEF Others

LEMMA StepTyped == TypeInv /\ [Next]_vars => TypeInv'
<1> SUFFICES ASSUME TypeInv, [Next]_vars PROVE TypeInv'
  OBVIOUS
<1>1. CASE UNCHANGED vars
  BY <1>1 DEF TypeInv, TypeOK, SocketOK, vars, store, socket, signals
<1> QED BY <1>1, StartsTyped, LoopsTyped, OthersTyped DEF Next

\* Every variable has its type, and accept and recv are only called for what is
\* there.
THEOREM TypeCorrect == Spec => []TypeOK
<1>1. TypeInv => TypeOK
  BY DEF TypeInv
<1> QED BY <1>1, InitTyped, StepTyped, PTL DEF Spec

-----------------------------------------------------------------------------
(* What a restart finds in Redis.                                          *)

\* NoGhosts is inductive: the loop is entered from clear_id_set only.
LEMMA StepNoGhosts ==
    ASSUME TypeInv, NoGhosts, [Next]_vars
    PROVE  NoGhosts'
<1> USE DEF NoGhosts, inLoop, store, To
<1>1. CASE UNCHANGED vars
  BY <1>1 DEF vars
<1>2. CASE ConnectRedis \/ Listen \/ AddListener \/ MakePipe \/ Alarm
  BY <1>2 DEF ConnectRedis, Listen, AddListener, MakePipe, Alarm
<1>3. CASE ClearIds
  BY <1>3 DEF ClearIds
<1>4. CASE Die
  BY <1>4 DEF Die
<1>5. CASE EpollWait \/ ReadSignals \/ Tick \/ EtDone
  BY <1>5 DEF EpollWait, ReadSignals, Tick, EtDone
<1>6. CASE Accept
  BY <1>4, <1>6 DEF Accept, Accepted, AcceptFails, AcceptLast
<1>7. CASE AlarmRings \/ Terminate \/ Arrive
  BY <1>7 DEF AlarmRings, Terminate, Arrive
<1>8. CASE Leave
  BY <1>8 DEF Leave
<1>9. CASE \E i \in Ids : Register(i)
  BY <1>9 DEF Register
<1>10. CASE RedisDown
  BY <1>10 DEF RedisDown
<1> QED BY <1>1, <1>2, <1>3, <1>4, <1>5, <1>6, <1>7, <1>8, <1>9, <1>10
        DEF Next, Starts, Loops, Others

\* However often the process ends, wherever it is, and whatever becomes of its
\* commands: it never refuses an id because of a process before it, unless
\* Redis has answered its DEL with an error.
THEOREM NoGhostsHolds == Spec => []NoGhosts
<1>1. Init => NoGhosts
  BY DEF Init, NoGhosts, inLoop
<1> QED BY <1>1, InitTyped, StepTyped, StepNoGhosts, PTL DEF Spec

-----------------------------------------------------------------------------
(* The listening socket.                                                   *)

LEMMA StepLeft ==
    ASSUME TypeInv, LeftOnlyIfLate, [Next]_vars
    PROVE  LeftOnlyIfLate'
<1> USE DEF LeftOnlyIfLate, Coming, TypeInv, TypeOK, SocketOK, store, socket,
            signals, To
<1>1. CASE UNCHANGED vars
  BY <1>1 DEF vars
<1>2. CASE ConnectRedis \/ Listen \/ MakePipe \/ Alarm \/ ClearIds
  BY <1>2 DEF ConnectRedis, Listen, MakePipe, Alarm, ClearIds
<1>3. CASE AddListener
  <2>1. "listen" \notin events'
    BY <1>3 DEF AddListener
  <2>2. CASE waiting = 0
    <3>1. ~ newConn'
      BY <1>3, <2>2 DEF AddListener
    <3> QED BY <1>3, <2>1, <2>2, <3>1 DEF AddListener
  <2>3. CASE waiting > 0
    <3>1. newConn' = (waiting > 0) /\ late' = (waiting > 1) /\ waiting' = waiting
      BY <1>3 DEF AddListener
    <3>2. newConn' /\ (~ late' => ~ (waiting > 1))
      BY ONLY <2>3, <3>1, Zenon
    <3>3. ~ late' => waiting = 1
      BY <2>3, <3>2
    <3> QED BY <2>1, <2>3, <3>1, <3>2, <3>3
  <2> QED BY <2>2, <2>3
<1>4. CASE Die
  BY <1>4 DEF Die
<1>5. CASE EpollWait
  BY <1>5 DEF EpollWait, Reported
<1>6. CASE ReadSignals \/ Tick \/ EtDone
  BY <1>6 DEF ReadSignals, Tick, EtDone
<1>7. CASE Accept
  <2>1. CASE Accepted
    BY <1>7, <2>1 DEF Accept, Accepted
  <2>2. CASE AcceptFails
    BY <1>7, <2>2 DEF Accept, AcceptFails
  <2> QED BY <1>4, <1>7, <2>1, <2>2 DEF Accept, AcceptLast
<1>8. CASE Arrive
  <2>1. CASE stage \in {"off", "listen", "epoll"}
    BY <1>8, <2>1 DEF Arrive
  <2>2. CASE stage \notin {"off", "listen", "epoll"} /\ newConn
    <3>1. newConn' /\ late' /\ UNCHANGED events /\ waiting' = waiting + 1
      BY <1>8, <2>2 DEF Arrive
    <3> QED BY <2>2, <3>1
  <2>3. CASE stage \notin {"off", "listen", "epoll"} /\ ~ newConn
    <3>1. newConn' /\ (late' <=> late) /\ UNCHANGED events
          /\ waiting' = waiting + 1
      BY <1>8, <2>3 DEF Arrive
    <3> QED BY <2>3, <3>1
  <2> QED BY <2>1, <2>2, <2>3
<1>9. CASE AlarmRings \/ Terminate
  BY <1>9 DEF AlarmRings, Terminate
<1>10. CASE Leave \/ (\E i \in Ids : Register(i)) \/ RedisDown
  BY <1>10 DEF Leave, Register, RedisDown
<1> QED BY <1>1, <1>2, <1>3, <1>4, <1>5, <1>6, <1>7, <1>8, <1>9, <1>10
        DEF Next, Starts, Loops, Others

\* Every waiting connection has an event to come that will accept it, until
\* one has come too soon after another or accept has failed.
THEOREM LeftOnlyIfLateHolds == Spec => []LeftOnlyIfLate
<1>1. Init => LeftOnlyIfLate
  BY DEF Init, LeftOnlyIfLate
<1> QED BY <1>1, InitTyped, StepTyped, StepLeft, PTL DEF Spec

-----------------------------------------------------------------------------
(* The alarm.                                                              *)

\* Until main has set the alarm there is none.
NoAlarmYet ==
    stage \in {"off", "listen", "epoll", "pipe", "alarm"} =>
        ~ armed /\ Alarms = {}

AlarmInv == OneAlarm /\ NoAlarmYet

\* SIGTERM in the pipe leaves the alarms where they are.
LEMMA PutTerm ==
    ASSUME TypeInv, Put("SIGTERM")
    PROVE  Alarms' = Alarms /\ DOMAIN pipe \subseteq DOMAIN pipe'
<1>1. CASE Len(pipe) < PipeSize
  <2>1. pipe' = Append(pipe, "SIGTERM")
    BY <1>1 DEF Put
  <2>2. /\ DOMAIN pipe = 1 .. Len(pipe) /\ DOMAIN pipe' = 1 .. Len(pipe) + 1
        /\ Len(pipe) \in Nat
        /\ \A i \in DOMAIN pipe : pipe'[i] = pipe[i]
        /\ pipe'[Len(pipe) + 1] = "SIGTERM"
    BY <2>1 DEF TypeInv, TypeOK
  <2> QED BY <2>2 DEF Alarms
<1>2. CASE ~ (Len(pipe) < PipeSize)
  BY <1>2 DEF Put, signals, Alarms
<1> QED BY <1>1, <1>2

\* SIGALRM becomes the one alarm in a pipe that has none and is not full.
LEMMA PutAlarm ==
    ASSUME TypeInv, Put("SIGALRM"), Len(pipe) # PipeSize, Alarms = {}
    PROVE  \E i \in DOMAIN pipe' : Alarms' = {i}
<1>1. pipe' = Append(pipe, "SIGALRM")
  BY ConstantsOK DEF Put, TypeInv, TypeOK
<1>2. Alarms' = {Len(pipe) + 1} /\ Len(pipe) + 1 \in DOMAIN pipe'
  <2>1. /\ DOMAIN pipe = 1 .. Len(pipe) /\ DOMAIN pipe' = 1 .. Len(pipe) + 1
        /\ Len(pipe) \in Nat
        /\ \A i \in DOMAIN pipe : pipe'[i] = pipe[i]
        /\ pipe'[Len(pipe) + 1] = "SIGALRM"
    BY <1>1 DEF TypeInv, TypeOK
  <2> QED BY <2>1 DEF Alarms
<1> QED BY <1>2

LEMMA StepAlarm ==
    ASSUME TypeInv, AlarmInv, [Next]_vars
    PROVE  AlarmInv'
<1> USE DEF AlarmInv, OneAlarm, NoAlarmYet, store, socket, signals, To
<1>1. ASSUME UNCHANGED pipe PROVE Alarms' = Alarms /\ DOMAIN pipe' = DOMAIN pipe
  BY <1>1 DEF Alarms
<1>2. ASSUME pipe' = <<>> PROVE Alarms' = {}
  BY <1>2 DEF Alarms
<1>3. CASE UNCHANGED vars
  BY <1>1, <1>3 DEF vars
<1>4. CASE ConnectRedis \/ Listen \/ AddListener \/ MakePipe \/ ClearIds
  BY <1>1, <1>4 DEF ConnectRedis, Listen, AddListener, MakePipe, ClearIds
<1>5. CASE Alarm
  BY <1>1, <1>5 DEF Alarm
<1>6. CASE Die
  BY <1>2, <1>6 DEF Die
<1>7. CASE EpollWait \/ Tick \/ EtDone
  BY <1>1, <1>7 DEF EpollWait, Tick, EtDone
<1>8. CASE ReadSignals
  BY <1>2, <1>8 DEF ReadSignals
<1>9. CASE Accept
  BY <1>1, <1>6, <1>9 DEF Accept, Accepted, AcceptFails, AcceptLast
<1>10. CASE AlarmRings
  BY <1>10, PutAlarm DEF AlarmRings, hasPipe, TypeInv, TypeOK
<1>11. CASE Terminate
  BY <1>11, PutTerm DEF Terminate, hasPipe
<1>12. CASE Arrive \/ Leave \/ (\E i \in Ids : Register(i)) \/ RedisDown
  BY <1>1, <1>12 DEF Arrive, Leave, Register, RedisDown
<1> QED BY <1>3, <1>4, <1>5, <1>6, <1>7, <1>8, <1>9, <1>10, <1>11, <1>12
        DEF Next, Starts, Loops, Others

\* The next tick is set, in the pipe or under way, and only once, until the
\* pipe has been full when the alarm rang: what TicksGoOn rests on.
THEOREM OneAlarmHolds == Spec => []OneAlarm
<1>1. Init => AlarmInv
  BY DEF Init, AlarmInv, OneAlarm, NoAlarmYet, Alarms
<1>2. AlarmInv => OneAlarm
  BY DEF AlarmInv
<1> QED BY <1>1, <1>2, InitTyped, StepTyped, StepAlarm, PTL DEF Spec
-----------------------------------------------------------------------------
(* The log: what log.txt holds while calls do not overlap, and that it     *)
(* only grows.                                                             *)

File == [open : BOOLEAN, buf : Seq(Nat)]

\* A descriptor is taken by a connection, or given back.
Fds == /\ TakeFd \/ GiveFd
       /\ UNCHANGED <<file, fp, tracker, disk, pc, line, calls, threaded, fault,
                      history>>

\* Where a thread uses fp.
Using == {"write", "count", "close"}

Types ==
    /\ file \in Seq(File) /\ fp \in 0 .. Len(file)
    /\ tracker \in Int /\ taken \in 0 .. MaxFds
    /\ disk \in Seq(Nat) /\ lines \in Seq(Nat)
    /\ pc \in [Threads -> {"idle", "empty", "append"} \cup Using]
    /\ line \in [Threads -> Nat]
    /\ calls \in Nat
    /\ threaded \in BOOLEAN /\ overlap \in BOOLEAN /\ wrapped \in BOOLEAN

\* A thread that uses fp has opened a FILE.
FpOK == \A t \in Threads : pc[t] \in Using => fp # 0

\* The first line is main's, and no other call empties the file as long as
\* SESSION_TRACKER counts.
FirstLine ==
    /\ ~ threaded => \A t \in Threads : t # Main => pc[t] = "idle"
    /\ ~ wrapped =>
          /\ tracker >= 0
          /\ pc[Main] = "close" => tracker > 0
          /\ threaded => tracker > 0 /\ \A t \in Threads : pc[t] # "empty"

\* The one call under way, if there is any, is t's; its line is in the buffer
\* of its FILE once it has been written.
CallOK(t) ==
    /\ \A u \in Threads : u # t => pc[u] = "idle"
    /\ pc[t] = "empty" => lines = <<>>
    /\ pc[t] = "append" => lines # <<>>
    /\ pc[t] \in {"empty", "append"} => OpenFiles = {}
    /\ pc[t] \in Using =>
          /\ OpenFiles = {fp} /\ disk = lines
          /\ file[fp].buf = IF pc[t] = "write" THEN <<>> ELSE <<line[t]>>
    /\ tracker = IF pc[t] = "close" THEN Len(lines) + 1 ELSE Len(lines)

\* fopen has failed because of the connections alone.
FaultOK == fault # "none" => fault = "null" /\ taken = MaxFds

\* Calls one by one: every line is counted, and the FILEs are closed.
OneByOne ==
    ~ overlap /\ ~ wrapped =>
        /\ FaultOK
        /\ lines # <<>> => disk = lines
        /\ pc = Idle => OpenFiles = {} /\ tracker = Len(lines)
        /\ \A t \in Threads : pc[t] # "idle" => CallOK(t)

LogInv == Types /\ FpOK /\ FirstLine /\ OneByOne

-----------------------------------------------------------------------------
LEMMA Empty == /\ <<>> \in Seq(Nat) /\ <<>> \in Seq(File) /\ Len(<<>>) = 0
               /\ Idle \in [Threads -> {"idle", "empty", "append"} \cup Using]
               /\ [t \in Threads |-> 0] \in [Threads -> Nat]
               /\ \A t \in Threads : Idle[t] = "idle" /\ Idle[t] \notin Using
  BY DEF Idle, Using

LEMMA InitOK == LogInit => LogInv
<1> SUFFICES ASSUME LogInit PROVE LogInv
  OBVIOUS
<1>1. Types /\ FpOK /\ FirstLine
  <2>1. file \in Seq(File) /\ fp \in 0 .. Len(file)
    BY Empty DEF LogInit
  <2>2. disk \in Seq(Nat) /\ lines \in Seq(Nat) /\ tracker = 0 /\ calls = 0
        /\ taken \in 0 .. MaxFds
    BY Empty, LogConstantsOK DEF LogInit
  <2>3. pc \in [Threads -> {"idle", "empty", "append"} \cup Using]
        /\ line \in [Threads -> Nat]
    BY Empty DEF LogInit
  <2>4. \A t \in Threads : pc[t] = "idle" /\ pc[t] \notin Using
    BY Empty DEF LogInit
  <2>5. /\ threaded \in BOOLEAN /\ overlap \in BOOLEAN /\ wrapped \in BOOLEAN
        /\ ~ threaded /\ ~ overlap /\ ~ wrapped
    BY DEF LogInit
  <2>6. Types
    BY <2>1, <2>2, <2>3, <2>5 DEF Types
  <2> QED BY <2>2, <2>4, <2>5, <2>6, LogConstantsOK DEF FpOK, FirstLine
<1>2. OneByOne
  BY DEF LogInit, OneByOne, FaultOK, Idle, OpenFiles
<1> QED BY <1>1, <1>2 DEF LogInv

-----------------------------------------------------------------------------
(* The steps of log_print.                                                 *)

\* The variables keep their types, and a thread that uses fp has one.
LEMMA TypesStep ==
    ASSUME LogInv, [LogNext]_logVars PROVE Types' /\ FpOK'
<1>0. Types /\ FpOK
  BY DEF LogInv
<1>1. CASE UNCHANGED logVars
  BY <1>0, <1>1 DEF logVars, history, Types, FpOK
<1>2. CASE Restart
  <2>0. taken' \in 0 .. MaxFds
    BY <1>2, LogConstantsOK DEF Restart
  <2>1. file' \in Seq(File) /\ fp' \in 0 .. Len(file')
    BY <1>2, Empty DEF Restart
  <2>2. disk' \in Seq(Nat) /\ lines' \in Seq(Nat) /\ tracker' = 0 /\ calls' \in Nat
    BY <1>0, <1>2, Empty DEF Restart, Types
  <2>3. pc' \in [Threads -> {"idle", "empty", "append"} \cup Using]
        /\ line' \in [Threads -> Nat]
    BY <1>2, Empty DEF Restart
  <2>4. \A t \in Threads : pc'[t] \notin Using
    BY <1>2, Empty DEF Restart
  <2>5. threaded' \in BOOLEAN /\ overlap' \in BOOLEAN /\ wrapped' \in BOOLEAN
    BY <1>2 DEF Restart
  <2> QED BY <2>0, <2>1, <2>2, <2>3, <2>4, <2>5 DEF Types, FpOK
<1>3. ASSUME NEW t \in Threads, Call(t), UNCHANGED taken PROVE Types' /\ FpOK'
  <2>1. /\ calls' = calls + 1 /\ line' = [line EXCEPT ![t] = calls + 1]
        /\ pc' = [pc EXCEPT ![t] = pc'[t]] /\ pc'[t] \in {"empty", "append"}
        /\ overlap' \in BOOLEAN
        /\ UNCHANGED <<file, fp, tracker, disk, threaded, lines, wrapped>>
    BY <1>0, <1>3 DEF Call, Begins, Goto, Types
  <2>2. calls + 1 \in Nat
    BY <1>0 DEF Types
  <2> QED BY <1>0, <1>3, <2>1, <2>2 DEF Types, FpOK, Using
<1>4. ASSUME NEW t \in Threads, Open(t), UNCHANGED taken PROVE Types' /\ FpOK'
  <2>1. CASE Ends("null")
    BY <1>0, <1>4, <2>1 DEF Ends, history, Types, FpOK
  <2>2. CASE ~ Ends("null")
    <3> DEFINE new == [open |-> TRUE, buf |-> <<>>]
    <3>1. /\ file' = Append(file, new) /\ fp' = Len(file')
          /\ disk' \in {<<>>, disk} /\ pc' = [pc EXCEPT ![t] = "write"]
          /\ UNCHANGED <<tracker, line, calls, threaded, lines, overlap, wrapped>>
      BY <1>4, <2>2 DEF Open, Goto, history
    <3>2. new \in File
      BY Empty DEF File
    <3> HIDE DEF new
    <3>3. file' \in Seq(File) /\ Len(file') = Len(file) + 1 /\ Len(file) \in Nat
      BY <1>0, <3>1, <3>2 DEF Types
    <3>4. fp' \in 0 .. Len(file') /\ fp' # 0
      BY <3>1, <3>3
    <3> QED BY <1>0, <1>4, <3>1, <3>3, <3>4, Empty DEF Types, FpOK, Using
  <2> QED BY <2>1, <2>2
<1>5. ASSUME NEW t \in Threads, Write(t), UNCHANGED taken PROVE Types' /\ FpOK'
  <2>1. CASE Ends("closed")
    BY <1>0, <1>5, <2>1 DEF Ends, history, Types, FpOK
  <2>2. CASE UNCHANGED file /\ ~ Ends("closed")
    BY <1>0, <1>5, <2>2 DEF Write, At, Goto, history, Types, FpOK, Using
  <2>3. CASE file' = [file EXCEPT ![fp].buf = Append(@, line[t])] /\ ~ Ends("closed")
    <3>1. /\ pc' = [pc EXCEPT ![t] = "count"] /\ pc[t] = "write"
          /\ UNCHANGED <<fp, tracker, disk, line, calls, threaded, lines, overlap, wrapped>>
      BY <1>5, <2>3 DEF Write, At, Goto, history
    <3>2. fp \in 1 .. Len(file)
      BY <1>0, <1>5, <3>1 DEF Types, FpOK, Using
    <3>3. file[fp] \in File
      BY <1>0, <3>2, ElementOfSeq DEF Types
    <3> DEFINE new == [file[fp] EXCEPT !.buf = Append(@, line[t])]
    <3>4. new \in File /\ file' = [file EXCEPT ![fp] = new]
      <4>1. Append(file[fp].buf, line[t]) \in Seq(Nat)
        BY <1>0, <3>3 DEF File, Types
      <4>2. new \in File
        BY <3>3, <4>1 DEF File
      <4> QED BY <2>3, <4>2
    <3> HIDE DEF new
    <3>5. file' \in Seq(File) /\ Len(file') = Len(file)
      BY <1>0, <3>2, <3>4, ExceptSeq DEF Types
    <3> QED BY <1>0, <1>5, <3>1, <3>2, <3>5 DEF Types, FpOK, Using
  <2> QED BY <1>5, <2>1, <2>2, <2>3 DEF Write
<1>6. ASSUME NEW t \in Threads, Count(t), UNCHANGED taken PROVE Types' /\ FpOK'
  BY <1>0, <1>6, LogConstantsOK DEF Count, At, Goto, Types, FpOK, Using
<1>7. ASSUME NEW t \in Threads, Close(t), UNCHANGED taken PROVE Types' /\ FpOK'
  <2>1. CASE Ends("closed")
    BY <1>0, <1>7, <2>1 DEF Ends, history, Types, FpOK
  <2>2. CASE Returns(t)
    <3>1. /\ pc[t] = "close" /\ pc' = [pc EXCEPT ![t] = "idle"]
          /\ lines' = Append(lines, line[t]) /\ threaded' \in BOOLEAN
          /\ UNCHANGED <<fp, tracker, line, calls, overlap, wrapped>>
      BY <1>0, <1>7, <2>2 DEF Close, At, Returns, Goto, Types
    <3>2. fp \in 1 .. Len(file)
      BY <1>0, <1>7, <3>1 DEF Types, FpOK, Using
    <3>3. file[fp] \in File
      BY <1>0, <3>2, ElementOfSeq DEF Types
    <3>4. lines' \in Seq(Nat)
      BY <1>0, <3>1 DEF Types
    <3>5. file' \in Seq(File) /\ Len(file') = Len(file) /\ disk' \in Seq(Nat)
      <4>1. CASE UNCHANGED <<file, disk>>
        BY <1>0, <4>1 DEF Types
      <4>2. CASE ~ UNCHANGED <<file, disk>>
        <5>1. disk' = disk \o file[fp].buf /\ file' = [file EXCEPT ![fp].open = FALSE]
          BY <1>7, <4>2 DEF Close, Ends
        <5>2. [file[fp] EXCEPT !.open = FALSE] \in File /\ file[fp].buf \in Seq(Nat)
          BY <3>3 DEF File
        <5> QED BY <1>0, <3>2, <5>1, <5>2 DEF Types
      <4> QED BY <4>1, <4>2
    <3> QED BY <1>0, <1>7, <3>1, <3>2, <3>4, <3>5 DEF Types, FpOK, Using
  <2> QED BY <1>7, <2>1, <2>2 DEF Close
<1>8. CASE Fds
  <2>1. /\ UNCHANGED <<file, fp, tracker, disk, pc, line, calls, threaded, fault,
                        history>>
        /\ taken' \in 0 .. MaxFds
    <3>1. \/ taken' = taken + 1 /\ taken + Cardinality(OpenFiles) < MaxFds
          \/ taken' = taken - 1 /\ taken > 0
      BY <1>8 DEF Fds, TakeFd, GiveFd
    <3>2. OpenFiles \subseteq 1 .. Len(file) /\ Len(file) \in Nat
      BY <1>0 DEF Types, OpenFiles
    <3>3. Cardinality(OpenFiles) \in Nat
      <4>1. IsFiniteSet(1 .. Len(file))
        BY <3>2, FS_Interval
      <4>2. IsFiniteSet(OpenFiles)
        BY <3>2, <4>1, FS_Subset
      <4> QED BY <4>2, FS_CardinalityType
    <3>4. taken' \in 0 .. MaxFds
      BY <1>0, <3>1, <3>3, LogConstantsOK DEF Types
    <3> QED BY <1>8, <3>4 DEF Fds
  <2> QED BY <1>0, <2>1 DEF history, Types, FpOK
<1> QED BY <1>1, <1>2, <1>3, <1>4, <1>5, <1>6, <1>7, <1>8 DEF LogNext, Fds

\* main prints the first line before there are threads.
LEMMA FirstLineStep ==
    ASSUME LogInv, [LogNext]_logVars PROVE FirstLine'
<1>0. Types /\ FirstLine /\ Main \in Threads
  BY LogConstantsOK DEF LogInv
<1>1. CASE UNCHANGED logVars
  BY <1>0, <1>1 DEF logVars, history, FirstLine
<1>2. CASE Restart
  <2>1. \A t \in Threads : pc'[t] = "idle"
    BY <1>2, Empty DEF Restart
  <2> QED BY <1>0, <1>2, <2>1 DEF Restart, FirstLine
<1>3. ASSUME NEW t \in Threads, Call(t) PROVE FirstLine'
  <2>1. /\ pc[t] = "idle" /\ (t = Main \/ threaded)
        /\ pc' = [pc EXCEPT ![t] = IF tracker > 0 THEN "append" ELSE "empty"]
        /\ UNCHANGED <<tracker, threaded, wrapped>>
    BY <1>3 DEF Call, Begins, At, Goto
  <2> QED BY <1>0, <2>1 DEF Types, FirstLine
<1>4. ASSUME NEW t \in Threads, Open(t) \/ Write(t) PROVE FirstLine'
  <2>1. /\ pc[t] # "idle" /\ UNCHANGED <<tracker, threaded, wrapped>>
        /\ \/ UNCHANGED pc
           \/ pc' = [pc EXCEPT ![t] = "write"]
           \/ pc' = [pc EXCEPT ![t] = "count"]
    BY <1>4 DEF Open, Write, Ends, At, Goto, history
  <2>2. \A u \in Threads : pc'[u] = pc[u] \/ (u = t /\ pc'[u] \in {"write", "count"})
    BY <1>0, <2>1 DEF Types
  <2>3. /\ ~ threaded' => \A u \in Threads : u # Main => pc'[u] = "idle"
        /\ pc'[Main] = "close" => pc[Main] = "close"
        /\ \A u \in Threads : pc'[u] = "empty" => pc[u] = "empty"
    BY <1>0, <2>1, <2>2 DEF FirstLine
  <2> QED BY <1>0, <2>1, <2>3 DEF FirstLine
<1>5. ASSUME NEW t \in Threads, Count(t) PROVE FirstLine'
  <2>1. /\ pc[t] # "idle" /\ pc' = [pc EXCEPT ![t] = "close"] /\ UNCHANGED threaded
        /\ wrapped' = (wrapped \/ tracker = IntMax)
        /\ tracker # IntMax => tracker' = tracker + 1
    BY <1>5 DEF Count, At, Goto
  <2>2. \A u \in Threads : pc'[u] = pc[u] \/ (u = t /\ pc'[u] = "close")
    BY <1>0, <2>1 DEF Types
  <2>3. ~ wrapped' => ~ wrapped /\ tracker' = tracker + 1
    BY <2>1
  <2>4. ~ wrapped' => tracker' > 0
    BY <1>0, <2>3 DEF Types, FirstLine
  <2>5. ~ threaded' => \A u \in Threads : u # Main => pc'[u] = "idle"
    BY <1>0, <2>1, <2>2 DEF FirstLine
  <2>6. ~ wrapped' /\ threaded' => \A u \in Threads : pc'[u] # "empty"
    BY <1>0, <2>1, <2>2, <2>3 DEF FirstLine
  <2>7. tracker' > 0 => tracker' >= 0
    BY <1>0, <2>1, LogConstantsOK, <1>5 DEF Types, Count
  <2> QED BY <2>4, <2>5, <2>6, <2>7 DEF FirstLine
<1>6. ASSUME NEW t \in Threads, Close(t) PROVE FirstLine'
  <2>1. pc[t] = "close"
    BY <1>6 DEF Close, At
  <2>2. CASE Ends("closed")
    BY <1>0, <2>2 DEF Ends, history, FirstLine
  <2>3. CASE Returns(t)
    <3>1. /\ pc' = [pc EXCEPT ![t] = "idle"] /\ threaded' = (threaded \/ t = Main)
          /\ UNCHANGED <<tracker, wrapped>>
      BY <2>3 DEF Returns, Goto
    <3>2. ~ threaded => t = Main
      BY <1>0, <2>1 DEF FirstLine
    <3>3. \A u \in Threads : pc'[u] # "idle" =>
             pc'[u] = pc[u] /\ (threaded \/ (u = Main /\ u # t))
      BY <1>0, <3>1 DEF Types, FirstLine
    <3> QED BY <1>0, <2>1, <3>1, <3>2, <3>3 DEF Types, FirstLine
  <2> QED BY <1>6, <2>2, <2>3 DEF Close
<1>7. CASE UNCHANGED <<tracker, pc, threaded, wrapped>>
  BY <1>0, <1>7 DEF FirstLine
<1> QED BY <1>1, <1>2, <1>3, <1>4, <1>5, <1>6, <1>7 DEF LogNext, history

\* The call under way is t's, or there is none and it becomes t's.
LEMMA OneByOneStep ==
    ASSUME LogInv, [LogNext]_logVars PROVE OneByOne'
<1>0. Types /\ FpOK /\ FirstLine /\ OneByOne
  BY DEF LogInv
<1>1. CASE UNCHANGED logVars
  BY <1>0, <1>1 DEF logVars, history, OneByOne, FaultOK, CallOK, OpenFiles
<1>2. CASE Restart
  <2>1. /\ file' = <<>> /\ tracker' = 0 /\ lines' = <<>> /\ fault' = "none" /\ pc' = Idle
    BY <1>2 DEF Restart
  <2>2. OpenFiles' = {}
    BY <2>1 DEF OpenFiles
  <2> QED BY <2>1, <2>2, Empty DEF OneByOne, FaultOK
<1>11. CASE Fds
  <2>1. UNCHANGED <<file, fp, tracker, disk, pc, line, fault, history>> /\ fault = "none"
    BY <1>11 DEF Fds, TakeFd, GiveFd, At
  <2>2. OpenFiles' = OpenFiles
    BY <2>1 DEF OpenFiles
  <2>3. \A t \in Threads : CallOK(t)' <=> CallOK(t)
    BY <2>1, <2>2 DEF history, CallOK
  <2> QED BY <1>0, <2>1, <2>2, <2>3 DEF history, OneByOne, FaultOK
<1> SUFFICES ASSUME ~ overlap', ~ wrapped', LogNext, ~ Restart, ~ Fds,
                    ~ UNCHANGED logVars
             PROVE  OneByOne'
  BY <1>1, <1>2, <1>11 DEF OneByOne
<1>3. PICK t \in Threads : Call(t) \/ Open(t) \/ Write(t) \/ Count(t) \/ Close(t)
  BY DEF LogNext, Fds
<1>4. ~ overlap /\ ~ wrapped
  <2>1. CASE Call(t)
    BY <2>1 DEF Call, Begins
  <2>2. CASE Open(t)
    BY <2>2 DEF Open, Ends, history
  <2>3. CASE Write(t)
    BY <2>3 DEF Write, Ends, history
  <2>4. CASE Count(t)
    BY <2>4 DEF Count
  <2>5. CASE Close(t)
    BY <2>5 DEF Close, Returns, Ends, history
  <2> QED BY <1>3, <2>1, <2>2, <2>3, <2>4, <2>5
<1>5. /\ (lines # <<>> => disk = lines)
      /\ pc = Idle => OpenFiles = {} /\ tracker = Len(lines)
      /\ pc[t] # "idle" => CallOK(t)
      /\ Len(lines) \in Nat /\ (Len(lines) = 0 <=> lines = <<>>)
  BY <1>0, <1>4, <1>3, LenProperties, EmptySeq DEF OneByOne, Types
<1>12. fault = "none" /\ FaultOK
  BY <1>3 DEF Call, Begins, Open, Write, Count, Close, At, FaultOK
\* It suffices that t is right where it is, and that no other thread is busy.
<1>6. ASSUME FaultOK', lines' # <<>> => disk' = lines',
             \A u \in Threads : u # t => pc'[u] = "idle",
             pc'[t] = "idle" => OpenFiles' = {} /\ tracker' = Len(lines'),
             pc'[t] # "idle" => CallOK(t)'
      PROVE  OneByOne'
  <2>1. pc' = Idle => pc'[t] = "idle"
    BY Empty
  <2> QED BY <1>6, <2>1 DEF OneByOne
<1>7. CASE Call(t)
  <2>1. /\ pc = Idle /\ Goto(t, IF tracker > 0 THEN "append" ELSE "empty")
        /\ UNCHANGED <<file, fp, tracker, disk, fault, lines>>
    BY <1>7 DEF Call, Begins
  <2>2. /\ pc'[t] = IF tracker > 0 THEN "append" ELSE "empty"
        /\ \A u \in Threads : u # t => pc'[u] = "idle"
    BY <1>0, <2>1, Empty DEF Goto, Types
  <2>3. OpenFiles' = OpenFiles
    BY <2>1 DEF OpenFiles
  <2>4. CallOK(t)'
    BY <1>5, <2>1, <2>2, <2>3 DEF CallOK, Using
  <2> QED BY <1>5, <1>6, <1>12, <2>1, <2>2, <2>4 DEF FaultOK
<1>8. CASE Open(t)
  <2>1. pc[t] \in {"empty", "append"} /\ CallOK(t)
    BY <1>5, <1>8 DEF Open, At
  <2>2. OpenFiles = {} /\ Cardinality(OpenFiles) = 0
    BY <2>1, FS_EmptySet DEF CallOK
  <2>10. CASE taken + Cardinality(OpenFiles) >= MaxFds
    <3>1. /\ fault' = "null"
          /\ UNCHANGED <<file, fp, tracker, disk, pc, line, lines>>
      BY <1>8, <2>10 DEF Open, Ends, history
    <3>2. taken' = taken /\ taken = MaxFds
      <4>1. taken' = taken
        BY DEF LogNext, Fds
      <4>2. taken >= MaxFds
        BY <1>0, <2>2, <2>10, LogConstantsOK DEF Types
      <4> QED BY <1>0, <4>1, <4>2, LogConstantsOK DEF Types
    <3>3. CallOK(t)'
      BY <2>1, <3>1 DEF CallOK, OpenFiles
    <3>4. \A u \in Threads : u # t => pc'[u] = "idle"
      BY <2>1, <3>1 DEF CallOK
    <3> QED BY <1>5, <1>6, <2>1, <3>1, <3>2, <3>3, <3>4 DEF FaultOK
  <2> SUFFICES ASSUME ~ (taken + Cardinality(OpenFiles) >= MaxFds) PROVE OneByOne'
    BY <2>10
  <2> DEFINE new == [open |-> TRUE, buf |-> <<>>]
  <2>3. /\ file' = Append(file, new) /\ fp' = Len(file')
        /\ disk' = IF pc[t] = "empty" THEN <<>> ELSE disk
        /\ pc' = [pc EXCEPT ![t] = "write"]
        /\ UNCHANGED <<tracker, fault, lines>>
    BY <1>8 DEF Open, Goto, history
  <2>4. new \in File /\ new.open = TRUE /\ new.buf = <<>>
    BY Empty DEF File
  <2> HIDE DEF new
  <2>5. /\ Len(file') = Len(file) + 1 /\ fp' = Len(file) + 1 /\ file'[fp'] = new
        /\ DOMAIN file' = DOMAIN file \cup {fp'} /\ fp' \notin DOMAIN file
        /\ \A f \in DOMAIN file : file'[f] = file[f]
    BY <1>0, <2>3, <2>4 DEF Types
  <2>6. OpenFiles' = {fp'}
    BY <2>2, <2>4, <2>5 DEF OpenFiles
  <2>7. disk' = lines'
    BY <1>5, <2>1, <2>3 DEF CallOK
  <2>8. pc'[t] = "write" /\ \A u \in Threads : u # t => pc'[u] = "idle"
    BY <1>0, <2>1, <2>3 DEF CallOK, Types
  <2>9. CallOK(t)'
    BY <2>1, <2>3, <2>4, <2>5, <2>6, <2>7, <2>8 DEF CallOK, Using
  <2> QED BY <1>5, <1>6, <1>12, <2>3, <2>7, <2>8, <2>9 DEF FaultOK
<1>9. CASE Write(t) \/ Count(t)
  <2>1. /\ pc[t] \in {"write", "count"} /\ pc[t] \in Using /\ CallOK(t)
    BY <1>5, <1>9 DEF Write, Count, At, Using
  <2>2. /\ OpenFiles = {fp} /\ file[fp].open /\ fp \in DOMAIN file /\ disk = lines
    BY <2>1 DEF CallOK, OpenFiles
  <2>3. \A p \in {"count", "close"} : pc' = [pc EXCEPT ![t] = p] =>
           /\ pc'[t] = p
           /\ \A u \in Threads : u # t => pc'[u] = "idle"
    BY <1>0, <2>1 DEF CallOK, Types
  <2>4. CASE Write(t)
    <3>1. /\ file' = [file EXCEPT ![fp].buf = Append(@, line[t])]
          /\ pc' = [pc EXCEPT ![t] = "count"] /\ pc[t] = "write"
          /\ UNCHANGED <<fp, tracker, disk, line, fault, lines>>
      BY <2>2, <2>4 DEF Write, At, Goto, history
    <3>2. file[fp] \in File /\ file[fp].buf = <<>>
      BY <1>0, <2>1, <2>2, <3>1, ElementOfSeq DEF Types, CallOK, Using
    <3>3. /\ DOMAIN file' = DOMAIN file /\ file'[fp].open = file[fp].open
          /\ file'[fp].buf = <<line[t]>>
          /\ \A f \in DOMAIN file : f # fp => file'[f] = file[f]
      <4> DEFINE new == [file[fp] EXCEPT !.buf = Append(@, line[t])]
      <4>1. new.open = file[fp].open /\ new.buf = <<line[t]>>
        BY <3>2 DEF File
      <4>2. file' = [file EXCEPT ![fp] = new]
        BY <3>1
      <4> HIDE DEF new
      <4> QED BY <1>0, <2>2, <4>1, <4>2 DEF Types
    <3>4. OpenFiles' = OpenFiles
      BY <2>2, <3>3 DEF OpenFiles
    <3>5. CallOK(t)'
      BY <2>1, <2>2, <2>3, <3>1, <3>3, <3>4 DEF CallOK, Using
    <3> QED BY <1>5, <1>6, <1>12, <2>3, <3>1, <3>5 DEF FaultOK
  <2>5. CASE Count(t)
    <3>1. /\ pc' = [pc EXCEPT ![t] = "close"] /\ tracker' = tracker + 1 /\ pc[t] = "count"
          /\ UNCHANGED <<file, fp, disk, line, fault, lines>>
      BY <2>5 DEF Count, At, Goto
    <3>2. OpenFiles' = OpenFiles
      BY <3>1 DEF OpenFiles
    <3>3. CallOK(t)'
      BY <2>1, <2>2, <2>3, <3>1, <3>2 DEF CallOK, Using
    <3> QED BY <1>5, <1>6, <1>12, <2>3, <3>1, <3>3 DEF FaultOK
  <2> QED BY <1>9, <2>4, <2>5
<1>10. CASE Close(t)
  <2>1. pc[t] = "close" /\ pc[t] \in Using /\ CallOK(t)
    BY <1>5, <1>10 DEF Close, At, Using
  <2>2. /\ OpenFiles = {fp} /\ file[fp].open /\ fp \in DOMAIN file /\ disk = lines
        /\ file[fp].buf = <<line[t]>> /\ tracker = Len(lines) + 1
    BY <2>1 DEF CallOK, OpenFiles
  <2>3. /\ disk' = disk \o file[fp].buf
        /\ file' = [file EXCEPT ![fp].open = FALSE]
        /\ lines' = Append(lines, line[t]) /\ pc' = [pc EXCEPT ![t] = "idle"]
        /\ UNCHANGED <<tracker, fault>>
    BY <1>10, <2>2 DEF Close, Returns, Goto, Ends
  <2>4. disk' = lines' /\ Len(lines') = Len(lines) + 1
    BY <1>0, <2>2, <2>3, AppendIsConcat DEF Types
  <2>5. file[fp] \in File
    BY <1>0, <2>2, ElementOfSeq DEF Types
  <2>6. OpenFiles' = {}
    <3>1. /\ DOMAIN file' = DOMAIN file /\ file'[fp].open = FALSE
          /\ \A f \in DOMAIN file : f # fp => file'[f] = file[f]
      BY <1>0, <2>2, <2>3, <2>5 DEF Types, File
    <3> QED BY <2>2, <3>1 DEF OpenFiles
  <2>7. pc'[t] = "idle" /\ \A u \in Threads : u # t => pc'[u] = "idle"
    BY <1>0, <2>1, <2>3 DEF CallOK, Types
  <2> QED BY <1>5, <1>6, <1>12, <2>2, <2>3, <2>4, <2>6, <2>7 DEF FaultOK
<1> QED BY <1>3, <1>7, <1>8, <1>9, <1>10

LEMMA InvStep == LogInv /\ [LogNext]_logVars => LogInv'
  BY TypesStep, FirstLineStep, OneByOneStep DEF LogInv

-----------------------------------------------------------------------------
\* While calls of log_print come one by one, and SESSION_TRACKER has not passed
\* IntMax, log.txt has every line of the process in order, and the log ends the
\* process only when connections have taken every descriptor.
THEOREM LinesHold == LogSpec => []LinesUnlessOverlap
<1>1. LogInv => LinesUnlessOverlap
  BY DEF LogInv, OneByOne, FaultOK, LinesUnlessOverlap
<1> QED BY <1>1, InitOK, InvStep, PTL DEF LogSpec

\* However calls overlap, no step of log_print takes a line out of log.txt.
THEOREM KeptHolds == LogSpec => LogKept
<1>1. ASSUME LogInv, [LogNext]_logVars
      PROVE  [threaded /\ threaded' /\ ~ wrapped => IsPrefix(disk, disk')]_logVars
  <2>1. Types /\ FirstLine /\ disk \in Seq(Nat)
    BY <1>1 DEF LogInv, Types
  <2>2. ASSUME NEW s \in Seq(Nat) PROVE IsPrefix(disk, disk \o s)
    BY <2>1, <2>2, SubSeqOfConcat1, SubSeqFull DEF IsPrefix
  <2>3. IsPrefix(disk, disk)
    BY <2>1, <2>2, Empty, ConcatEmptySeq
  <2> SUFFICES ASSUME threaded, threaded', ~ wrapped, LogNext PROVE IsPrefix(disk, disk')
    BY <1>1
  <2>4. ~ Restart
    BY DEF Restart
  <2>8. CASE UNCHANGED disk
    BY <2>3, <2>8
  <2> SUFFICES ASSUME disk' # disk PROVE IsPrefix(disk, disk')
    BY <2>8
  <2>5. PICK t \in Threads : Call(t) \/ Open(t) \/ Write(t) \/ Count(t) \/ Close(t)
    BY <2>4 DEF LogNext
  <2>6. CASE Close(t) /\ disk' # disk
    <3>1. disk' = disk \o file[fp].buf /\ pc[t] = "close"
      BY <2>6 DEF Close, At, Ends
    <3>2. fp \in 1 .. Len(file)
      BY <1>1, <3>1 DEF LogInv, Types, FpOK, Using
    <3>3. file[fp] \in File
      BY <2>1, <3>2, ElementOfSeq DEF Types
    <3> QED BY <2>2, <3>1, <3>3 DEF File
  <2>7. CASE ~ Close(t)
    <3>1. pc[t] # "empty"
      BY <2>1 DEF FirstLine
    <3>2. disk' = disk
      BY <2>5, <2>7, <3>1 DEF Call, Begins, Open, Write, Count, Ends
    <3> QED BY <2>3, <3>2
  <2> QED BY <2>3, <2>6, <2>7
<1> QED BY <1>1, InitOK, InvStep, PTL DEF LogSpec, LogKept
=============================================================================
