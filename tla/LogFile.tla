------------------------------- MODULE LogFile -------------------------------
(***************************************************************************)
(* LogFile and FileUtil (src/logger/LogFile.cc, FileUtil.cc): appending to *)
(* a stdio stream, and rolling to a new file by size and by day.  The      *)
(* actions belong to the one thread that holds the LogFile; the clock      *)
(* ticks between them.                                                     *)
(***************************************************************************)
EXTENDS Integers, Sequences

CONSTANTS
    rollSize, flushInterval, checkEveryN, kRollPerSeconds,
    Lost,       \* stands on the disk for a byte that did not get there
    MaxTime     \* where the clock stops (bound)

ASSUME LogFileAssumptions ==
    /\ rollSize \in Nat /\ flushInterval \in Nat /\ MaxTime \in Nat
    /\ checkEveryN \in Nat \ {0} /\ kRollPerSeconds \in Nat \ {0}

VARIABLES
    now,        \* what time() returns
    log,        \* the fields of LogFile and of its current FileUtil; history:
                \* late counts appends to a file whose day is over,
                \* lastAppend is the time of the last append
    appending,  \* append is under way
    rest,       \* what FileUtil::append has still to hand to fwrite
    fp,         \* bytes in the buffer of the stream
    disk        \* what left the stream, oldest file first: each byte in its
                \* place, Lost where a failing write lost it

fileVars == <<log, appending, rest, fp, disk>>

PeriodOf(time) == (time \div kRollPerSeconds) * kRollPerSeconds

-----------------------------------------------------------------------------
NewFile(l) ==
    [l EXCEPT !.lastRoll = now, !.lastFlush = now,
              !.startOfPeriod = PeriodOf(now),
              !.writtenBytes = 0, !.late = 0, !.lastAppend = now]

(* fflush and fclose write all that is in the stream, or fail behind its   *)
(* first n bytes and drop the others.                                      *)
FlushedUpTo(n) ==
    /\ disk' = disk \o [k \in 1..Len(fp) |-> IF k <= n THEN fp[k] ELSE Lost]
    /\ fp' = <<>>

(* flush(), and fclose in ~FileUtil: neither looks at the result. *)
Flush == \E n \in 0..Len(fp) : FlushedUpTo(n)

(* rollFile: at most one file a second; fclose of the old one flushes it. *)
rollFile(l) ==
    IF now > l.lastRoll THEN log' = NewFile(l) /\ Flush
                        ELSE log' = l /\ UNCHANGED <<fp, disk>>

(* The constructor rolls to the first file; the clock is past 0. *)
Init ==
    /\ now = 1
    /\ log = NewFile([count |-> 0, startOfPeriod |-> 0, lastRoll |-> 0,
                      lastFlush |-> 0, writtenBytes |-> 0, late |-> 0,
                      lastAppend |-> 0])
    /\ appending = FALSE /\ rest = <<>> /\ fp = <<>> /\ disk = <<>>

BeginAppend(data) ==
    /\ ~appending /\ appending' = TRUE
    /\ rest' = data
    /\ UNCHANGED <<now, log, fp, disk>>

(* Fault for DiskIsPrefix: the retry begins at data again. *)
FwriteRestarts(n) ==
    /\ appending /\ rest # <<>>
    /\ fp' = fp \o SubSeq(rest, 1, n)
    /\ rest' = IF n = Len(rest) THEN <<>> ELSE rest
    /\ log' = [log EXCEPT !.writtenBytes = @ + n]
    /\ UNCHANGED <<now, appending, disk>>

(* One round of the loop in FileUtil::append: fwrite takes n bytes, fewer  *)
(* than it was given when the disk fails.  writtenBytes_ is brought up to  *)
(* date after the loop, and not read before.                               *)
Fwrite(n) ==
    /\ appending /\ rest # <<>>
    /\ fp' = fp \o SubSeq(rest, 1, n)
    /\ rest' = SubSeq(rest, n + 1, Len(rest))
    /\ log' = [log EXCEPT !.writtenBytes = @ + n]
    /\ UNCHANGED <<now, appending, disk>>

(* Fault for RolledInTime: the day is looked at one append too late. *)
CheckDueLate(count) == count > checkEveryN

CheckDue(count) == count >= checkEveryN

(* The log after the append, as the two history variables see it. *)
Appended ==
    [log EXCEPT !.lastAppend = now,
                !.late = IF PeriodOf(now) = log.startOfPeriod THEN @ ELSE @ + 1]

AppendOversize ==
    /\ log.writtenBytes > rollSize
    /\ rollFile(Appended)

AppendUnchecked ==
    /\ log.writtenBytes <= rollSize
    /\ ~CheckDue(log.count + 1)
    /\ log' = [Appended EXCEPT !.count = @ + 1]
    /\ UNCHANGED <<fp, disk>>

AppendNewDay ==
    /\ log.writtenBytes <= rollSize
    /\ CheckDue(log.count + 1)
    /\ PeriodOf(now) # log.startOfPeriod
    /\ rollFile([Appended EXCEPT !.count = 0])

AppendSameDay ==
    /\ log.writtenBytes <= rollSize
    /\ CheckDue(log.count + 1)
    /\ PeriodOf(now) = log.startOfPeriod
    /\ IF now - log.lastFlush > flushInterval
       THEN /\ log' = [Appended EXCEPT !.count = 0, !.lastFlush = now]
            /\ Flush
       ELSE /\ log' = [Appended EXCEPT !.count = 0]
            /\ UNCHANGED <<fp, disk>>

(* appendInLock behind file_->append. *)
EndAppend ==
    /\ appending /\ rest = <<>> /\ appending' = FALSE
    /\ AppendOversize \/ AppendUnchecked \/ AppendNewDay \/ AppendSameDay
    /\ UNCHANGED <<now, rest>>

(* stdio may write its buffer out at any time, and may fail to. *)
StdioSpills ==
    /\ fp # <<>>
    /\ \/ \E n \in 1..Len(fp) :
             disk' = disk \o SubSeq(fp, 1, n) /\ fp' = SubSeq(fp, n + 1, Len(fp))
       \/ Flush
    /\ UNCHANGED <<now, log, appending, rest>>

Tick == now < MaxTime /\ now' = now + 1 /\ UNCHANGED fileVars

-----------------------------------------------------------------------------
(* Between two appends, a file has had fewer than checkEveryN appends      *)
(* since its day was over, and it is beyond rollSize only if all of that   *)
(* came in the second in which it was opened, when no new one can be.      *)
RolledInTime ==
    ~appending =>
        /\ log.late < checkEveryN
        /\ log.writtenBytes > rollSize => log.lastAppend = log.lastRoll
=============================================================================
