------------------------------- MODULE LogFile -------------------------------
(***************************************************************************)
(* Class FileLogAppender, shared by threads that log by different loggers. *)
(* An event that comes three seconds or more after the last reopening      *)
(* reopens the file first, so that a file that was moved away or deleted   *)
(* is made again.  The file system and the stream are modelled from how    *)
(* the code uses them.                                                     *)
(***************************************************************************)
EXTENDS Integers, FiniteSets

CONSTANTS
  Writers,      \* the threads that log
  StartTime,    \* time(0) when the appender is made
  MaxTime,      \* bound: the time at which the clock stops
  MaxTroubles   \* bound: how often the file is moved away, cannot be opened any more, or meets a full disk

Interval == 3

ASSUME FileAssumption ==
  /\ StartTime \in Nat /\ StartTime >= Interval
  /\ MaxTime \in Nat /\ MaxTime >= StartTime /\ MaxTroubles \in Nat

VARIABLES
  clock,     \* time(0)
  path,      \* file system: the number of the file that the name stands for
  rotatedAt, \* file system: when that file took its place
  openable,  \* file system: open() would succeed
  refusals,  \* file system: how often it stopped to be so
  stream,    \* m_filestream: the open file, and whether it has failed
  lastTime,  \* m_lastTime
  line,      \* the event that each thread is logging
  failedAt   \* history: the time at which open() failed last

fileVars == <<clock, path, rotatedAt, openable, refusals, stream, lastTime, line, failedAt>>

NoLine == [step |-> "none", time |-> 0]
Closed == 0

(* reopen(): a stream that has failed is not closed, and open() fails on a *)
(* stream that has a file open.                                            *)
Reopened ==
  LET file == IF stream.failed THEN stream.file ELSE Closed
  IN IF openable /\ file = Closed THEN [file |-> path, failed |-> FALSE]
     ELSE [file |-> file, failed |-> TRUE]

(* A stream whose file is open and that has failed stays so for ever.      *)
Stuck == stream.failed /\ stream.file # Closed

Troubles == path - 1 + refusals + (IF Stuck THEN 1 ELSE 0)

(* The constructor has opened the file.                                    *)
FileInit ==
  /\ clock = StartTime
  /\ path = 1 /\ rotatedAt = 0 /\ openable = TRUE /\ refusals = 0
  /\ stream = [file |-> 1, failed |-> FALSE]
  /\ lastTime = 0
  /\ line = [t \in Writers |-> NoLine]
  /\ failedAt = 0

-----------------------------------------------------------------------------
(* The world: the clock, the file system.                                  *)
Tick ==
  /\ clock < MaxTime
  /\ clock' = clock + 1
  /\ UNCHANGED <<path, rotatedAt, openable, refusals, stream, lastTime, line, failedAt>>

Rotate ==
  /\ Troubles < MaxTroubles
  /\ path' = path + 1
  /\ rotatedAt' = clock
  /\ UNCHANGED <<clock, openable, refusals, stream, lastTime, line, failedAt>>

Refuse ==
  /\ IF openable THEN Troubles < MaxTroubles /\ refusals' = refusals + 1 ELSE UNCHANGED refusals
  /\ openable' = ~openable
  /\ UNCHANGED <<clock, path, rotatedAt, stream, lastTime, line, failedAt>>

-----------------------------------------------------------------------------
(* FileLogAppender::log().                                                 *)

LineAt(t, step) == line[t].step = step
GoesTo(t, step) == line' = [line EXCEPT ![t].step = step]

(* The event gets its time when it is made.                                *)
MakeEvent(t) ==
  /\ LineAt(t, "none")
  /\ line' = [line EXCEPT ![t] = [step |-> "check", time |-> clock]]
  /\ UNCHANGED <<clock, path, rotatedAt, openable, refusals, stream, lastTime, failedAt>>

(* Mutant: every event counts as a reopening.                              *)
CheckTime_Slides(t) ==
  /\ LineAt(t, "check")
  /\ GoesTo(t, IF line[t].time >= lastTime + Interval THEN "reopen" ELSE "write")
  /\ lastTime' = line[t].time
  /\ UNCHANGED <<clock, path, rotatedAt, openable, refusals, stream, failedAt>>

(* The time is compared without the lock.                                  *)
CheckTime(t) ==
  /\ LineAt(t, "check")
  /\ GoesTo(t, IF line[t].time >= lastTime + Interval THEN "reopen" ELSE "write")
  /\ UNCHANGED <<clock, path, rotatedAt, openable, refusals, stream, lastTime, failedAt>>

(* Mutant: a stream is not opened while it has failed.                     *)
Reopen_GivesUp(t) ==
  /\ LineAt(t, "reopen")
  /\ stream' = IF stream.failed THEN stream ELSE Reopened
  /\ failedAt' = IF stream'.failed /\ ~stream.failed THEN clock ELSE failedAt
  /\ GoesTo(t, "mark")
  /\ UNCHANGED <<clock, path, rotatedAt, openable, refusals, lastTime>>

(* reopen(), under the lock.                                               *)
Reopen(t) ==
  /\ LineAt(t, "reopen")
  /\ stream' = Reopened
  /\ failedAt' = IF stream'.failed THEN clock ELSE failedAt
  /\ GoesTo(t, "mark")
  /\ UNCHANGED <<clock, path, rotatedAt, openable, refusals, lastTime>>

(* m_lastTime is set without the lock.                                     *)
MarkTime(t) ==
  /\ LineAt(t, "mark")
  /\ lastTime' = line[t].time
  /\ GoesTo(t, "write")
  /\ UNCHANGED <<clock, path, rotatedAt, openable, refusals, stream, failedAt>>

(* The line is written under the lock; a stream that has failed takes no   *)
(* more.  The disk may be full.                                            *)
Write(t) ==
  /\ LineAt(t, "write")
  /\ \/ UNCHANGED stream
     \/ Troubles < MaxTroubles /\ stream' = [stream EXCEPT !.failed = TRUE]
  /\ line' = [line EXCEPT ![t] = NoLine]
  /\ UNCHANGED <<clock, path, rotatedAt, openable, refusals, lastTime, failedAt>>

-----------------------------------------------------------------------------
FileTypeOK ==
  /\ clock \in StartTime..MaxTime
  /\ path \in 1..MaxTroubles + 1 /\ rotatedAt \in 0..MaxTime
  /\ openable \in BOOLEAN /\ refusals \in 0..MaxTroubles
  /\ stream \in [file : 0..MaxTroubles + 1, failed : BOOLEAN]
  /\ lastTime \in 0..MaxTime /\ failedAt \in 0..MaxTime
  /\ line \in [Writers -> [step : {"none", "check", "reopen", "mark", "write"}, time : 0..MaxTime]]

(* An event that is made three seconds after the file was moved away, or   *)
(* later, goes to the new file, whatever other threads do between the test *)
(* of m_lastTime and the reopening.                                        *)
FollowsRotation ==
  \A t \in Writers :
    line[t].step = "write" /\ ~stream.failed /\ line[t].time >= rotatedAt + Interval
      => stream.file = path

(* A file that could not be opened is tried again: an event finds the      *)
(* stream closed only if open() failed less than three seconds before the  *)
(* event was made, or later.                                               *)
RetriesOpen ==
  \A t \in Writers :
    line[t].step = "write" /\ stream.failed /\ stream.file = Closed
      => line[t].time < failedAt + Interval
=============================================================================
