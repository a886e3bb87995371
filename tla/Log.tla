-------------------------------- MODULE Log --------------------------------
(***************************************************************************)
(* log_print of log.c, which every LOG_PRINT of every thread calls: a file *)
(* is opened, written and closed for each line, through one global FILE    *)
(* pointer, fp, without a lock.  SESSION_TRACKER tells the first line of a *)
(* process, which empties log.txt, from the others, which are appended.    *)
(*                                                                         *)
(* A FILE is its number, in the order of fopen; a line is a number too,    *)
(* and goes to log.txt when its FILE is closed.  Working on a closed FILE  *)
(* is undefined: the process ends, or it seems to go well.                 *)
(***************************************************************************)
EXTENDS Integers, FiniteSets, SequencesExt

CONSTANTS Threads,    \* all threads that log
          Main,       \* the one that runs main
          IntMax,     \* the largest int
          MaxFds,     \* descriptors left for connections and for FILEs
          MaxCalls    \* bound on the calls of log_print

ASSUME LogConstantsOK ==
    Main \in Threads /\ IntMax \in Nat /\ MaxFds \in Nat

VARIABLES
    file,      \* the FILEs: whether open, the lines in the buffer
    fp,        \* the global pointer, 0 before the first fopen
    tracker,   \* SESSION_TRACKER
    disk,      \* the lines of log.txt
    taken,     \* the descriptors that connections have
    pc,        \* where each thread stands in log_print
    line,      \* the line it prints
    calls,     \* calls so far
    threaded,  \* has main printed a line, and may handlers run?
    fault,     \* why the process has ended, "none" while it runs
    lines,     \* history: the lines whose calls have returned
    overlap,   \* history: two calls have been under way at once
    wrapped    \* history: SESSION_TRACKER has passed IntMax

history == <<lines, overlap, wrapped>>
logVars == <<file, fp, tracker, disk, taken, pc, line, calls, threaded, fault,
             history>>

Idle == [t \in Threads |-> "idle"]

LogInit ==
    /\ file = <<>> /\ fp = 0 /\ tracker = 0 /\ disk = <<>> /\ taken = 0
    /\ pc = Idle /\ line = [t \in Threads |-> 0]
    /\ calls = 0
    /\ threaded = FALSE
    /\ fault = "none"
    /\ lines = <<>> /\ overlap = FALSE /\ wrapped = FALSE

At(t, label) == fault = "none" /\ pc[t] = label

Goto(t, label) == pc' = [pc EXCEPT ![t] = label]

Ends(why) == /\ fault' = why
             /\ UNCHANGED <<file, fp, tracker, disk, pc, line, calls, threaded,
                            history>>

-----------------------------------------------------------------------------
(* log_print.                                                              *)

Begins(t, append) ==
    /\ At(t, "idle") /\ calls < MaxCalls
    /\ t = Main \/ threaded
    /\ calls' = calls + 1
    /\ line' = [line EXCEPT ![t] = calls']
    /\ overlap' = (overlap \/ pc # Idle)
    /\ Goto(t, IF append THEN "append" ELSE "empty")
    /\ UNCHANGED <<file, fp, tracker, disk, threaded, fault, lines, wrapped>>

\* Variant: the second line empties the file as well.
CallLate(t) == Begins(t, tracker > 1)

\* The test of SESSION_TRACKER.  Handlers are created by et, which has printed
\* that there is a connection.
Call(t) == Begins(t, tracker > 0)

OpenFiles == {f \in DOMAIN file : file[f].open}

\* fopen, "w" or "a+".  NULL, if there are no descriptors left, is followed.
Open(t) ==
    /\ At(t, "append") \/ At(t, "empty")
    /\ IF taken + Cardinality(OpenFiles) >= MaxFds
       THEN Ends("null")
       ELSE /\ file' = Append(file, [open |-> TRUE, buf |-> <<>>])
            /\ fp' = Len(file')
            /\ disk' = IF pc[t] = "empty" THEN <<>> ELSE disk
            /\ Goto(t, "write")
            /\ UNCHANGED <<tracker, line, calls, threaded, fault, history>>

\* fprintf and fputc, to whatever fp is by now.
Write(t) ==
    /\ At(t, "write")
    /\ \/ /\ file[fp].open
          /\ file' = [file EXCEPT ![fp].buf = Append(@, line[t])]
          /\ Goto(t, "count")
          /\ UNCHANGED <<fp, tracker, disk, line, calls, threaded, fault, history>>
       \/ /\ ~ file[fp].open
          /\ Goto(t, "count")
          /\ UNCHANGED <<file, fp, tracker, disk, line, calls, threaded, fault,
                         history>>
       \/ ~ file[fp].open /\ Ends("closed")

\* SESSION_TRACKER++; a lost increment would change nothing once it is above 0.
Count(t) ==
    /\ At(t, "count")
    /\ tracker' = IF tracker = IntMax THEN -IntMax - 1 ELSE tracker + 1
    /\ wrapped' = (wrapped \/ tracker = IntMax)
    /\ Goto(t, "close")
    /\ UNCHANGED <<file, fp, disk, line, calls, threaded, fault, lines, overlap>>

Returns(t) ==
    /\ Goto(t, "idle")
    /\ lines' = Append(lines, line[t])
    /\ threaded' = (threaded \/ t = Main)
    /\ UNCHANGED <<fp, tracker, line, calls, fault, overlap, wrapped>>

\* Variant: the file is not closed.
CloseForgotten(t) == At(t, "close") /\ Returns(t) /\ UNCHANGED <<file, disk>>

\* fclose writes the buffer to the end of log.txt.
Close(t) ==
    /\ At(t, "close")
    /\ \/ /\ file[fp].open
          /\ disk' = disk \o file[fp].buf
          /\ file' = [file EXCEPT ![fp].open = FALSE]
          /\ Returns(t)
       \/ ~ file[fp].open /\ Returns(t) /\ UNCHANGED <<file, disk>>
       \/ ~ file[fp].open /\ Ends("closed")

\* et takes a descriptor for a connection, and a handler closes one.
TakeFd ==
    /\ At(Main, "idle") /\ threaded
    /\ taken + Cardinality(OpenFiles) < MaxFds
    /\ taken' = taken + 1

GiveFd ==
    /\ \E t \in Threads \ {Main} : At(t, "idle")
    /\ taken > 0
    /\ taken' = taken - 1

\* The process is started again.
Restart ==
    /\ fault' = "none" /\ taken' = 0
    /\ file' = <<>> /\ fp' = 0 /\ tracker' = 0
    /\ pc' = Idle /\ line' = [t \in Threads |-> 0]
    /\ threaded' = FALSE
    /\ lines' = <<>> /\ overlap' = FALSE /\ wrapped' = FALSE
    /\ UNCHANGED <<disk, calls>>

LogNext ==
    \/ /\ \E t \in Threads : Call(t) \/ Open(t) \/ Write(t) \/ Count(t) \/ Close(t)
       /\ UNCHANGED taken
    \/ /\ TakeFd \/ GiveFd
       /\ UNCHANGED <<file, fp, tracker, disk, pc, line, calls, threaded, fault,
                      history>>
    \/ Restart

LogSpec == LogInit /\ [][LogNext]_logVars

-----------------------------------------------------------------------------
(* Properties.                                                             *)

\* As long as no two calls of log_print have overlapped and SESSION_TRACKER has
\* not passed IntMax, log.txt has every line of the process, in order, and the
\* log keeps no descriptor: it ends the process only when connections have taken
\* every one, for then fopen returns NULL.
LinesUnlessOverlap ==
    ~ overlap /\ ~ wrapped =>
        /\ lines # <<>> => disk = lines
        /\ fault # "none" => fault = "null" /\ taken = MaxFds

\* However calls overlap, what is in log.txt stays there until the process is
\* started again, because its first line is printed before it has threads, or
\* until SESSION_TRACKER has passed IntMax.
LogKept ==
    [][threaded /\ threaded' /\ ~ wrapped => IsPrefix(disk, disk')]_logVars
=============================================================================
