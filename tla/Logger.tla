------------------------------- MODULE Logger -------------------------------
(***************************************************************************)
(* A log statement from the LOG_ macro to the disk (src/logger/Logging.h,  *)
(* Logging.cc): the Logger formats the line (module LogStream) and hands   *)
(* it to g_output, which is stdout or, after setOutput, AsyncLogging.      *)
(*                                                                         *)
(* Of AsyncLogging this module has the order in which the slots of its     *)
(* buffers are filled and written; which buffer is which is the matter of  *)
(* module AsyncLogging.  The back end writes whole buffers: a slot that no *)
(* line was appended to goes to the LogFile too, with whatever it holds    *)
(* (zeros, junk, or the line of an earlier use), and is Stale here.        *)
(***************************************************************************)
EXTENDS LogStream, LogFile

CONSTANTS
    Statements,     \* the LOG_ statements of the application
    Levels,         \* the levels that it sets
    LineLen,        \* bytes of a line (Logger passes its buffer's length())
    Slots,          \* lines that fill a FixedBuffer of AsyncLogging: SIZE / len
    MaxLines,       \* how many lines are logged (bound)
    MaxSlots        \* behind so many slots no empty buffer is written (bound)

ASSUME LoggerAssumptions ==
    /\ LineLen \in Nat \ {0} /\ Slots \in Nat /\ Slots >= 2
    /\ MaxLines \in Nat /\ MaxSlots \in Nat

(* What the LOG_ macros pass on, and the operands of the << behind them.   *)
(* The numeral of an integer of the machine has at most 20 characters, and *)
(* kMaxNumericSize is 48.                                                  *)
Statement ==
    [level : STRING, func : STRING, file : Seq(STRING), line : Int,
     args : Seq(Piece)]

NumeralsFit(pieces) ==
    \A k \in DOMAIN pieces :
        "num" \in DOMAIN pieces[k] =>
            Len(Numeral(pieces[k].num)) < kMaxNumericSize

ASSUME StatementsAssumption ==
    Statements \subseteq Statement /\ \A s \in Statements : NumeralsFit(Pieces(s))

VARIABLES
    g_logLevel, g_output,
    logged,         \* history: what each line came from and went to
    stdout,         \* lines in the buffer of stdout, and lines shown
    pending,        \* slots the back end has not collected
    sent,           \* history: the slots of all buffers, oldest first
    batch,          \* slots it has collected and not appended
    running,        \* running_
    backEnd,        \* where the back end is
    aborted         \* the process has ended

frontVars == <<g_logLevel, g_output, logged, stdout>>
asyncVars == <<pending, sent, batch, running, backEnd>>
vars == <<now, fileVars, frontVars, asyncVars, aborted>>

(* A line is known by its number; on disk a slot is LineLen bytes. *)
Stale == 0

BytesOf(slots) ==
    [b \in 1..(LineLen * Len(slots)) |->
        <<slots[((b - 1) \div LineLen) + 1], ((b - 1) % LineLen) + 1>>]

LogLevels == <<"TRACE", "DEBUG", "INFO", "WARN", "ERROR", "FATAL">>
LevelNumber(level) == CHOOSE n \in DOMAIN LogLevels : LogLevels[n] = level

(* LOG_DEBUG and LOG_INFO test the level, the other macros do not. *)
Enabled(s) ==
    s.level \in {"DEBUG", "INFO"} =>
        LevelNumber(g_logLevel) <= LevelNumber(s.level)

(* AsyncLogging has been started. *)
LoggerInit ==
    /\ Init
    /\ g_logLevel = "INFO" /\ g_output = "stdout"
    /\ logged = <<>>
    /\ stdout = [buffered |-> <<>>, shown |-> <<>>]
    /\ pending = <<>> /\ sent = <<>> /\ batch = <<>>
    /\ running = TRUE /\ backEnd = "test"
    /\ aborted = FALSE

-----------------------------------------------------------------------------
setLogLevel(level) ==
    /\ g_logLevel' = level
    /\ UNCHANGED <<now, fileVars, g_output, logged, stdout, asyncVars, aborted>>

setOutput ==
    /\ g_output' = "async"
    /\ UNCHANGED <<now, fileVars, g_logLevel, logged, stdout, asyncVars, aborted>>

NextLine == Len(logged) + 1

LineOf == [s \in Statements |-> LogLine(s)]

(* The slots filled in the current buffer. *)
Filled == Len(pending) % Slots

(* What AsyncLogging::append adds to the slots: the line, behind the last  *)
(* slot of the current buffer if only that one is left, which append does  *)
(* not fill (avail() > len).                                               *)
Appending == IF Filled = Slots - 1 THEN <<Stale, NextLine>> ELSE <<NextLine>>

(* defaultOutput: fwrite to stdout. *)
Buffered ==
    IF g_output = "stdout" THEN Append(stdout.buffered, NextLine)
                           ELSE stdout.buffered

(* ~Logger: the line goes to g_output. *)
Record(s) ==
    /\ Enabled(s) /\ NextLine <= MaxLines
    /\ logged' = Append(logged,
                        [from |-> s, text |-> LineOf[s], to |-> g_output])
    /\ \/ g_output = "stdout" /\ UNCHANGED <<pending, sent>>
       \/ /\ g_output = "async"
          /\ pending' = pending \o Appending /\ sent' = sent \o Appending
    /\ UNCHANGED <<now, g_logLevel, g_output, batch, running, backEnd>>

Log(s) ==
    /\ s.level # "FATAL" /\ Record(s)
    /\ stdout' = [stdout EXCEPT !.buffered = Buffered]
    /\ UNCHANGED <<fileVars, aborted>>

(* A FATAL statement goes on with g_flush, which flushes stdout (setFlush  *)
(* is called nowhere), and abort: no thread takes another step, and what   *)
(* AsyncLogging and the stream hold never gets to the disk.                *)
LogFatal(s) ==
    /\ s.level = "FATAL" /\ Record(s)
    /\ stdout' = [buffered |-> <<>>, shown |-> stdout.shown \o Buffered]
    /\ aborted' = TRUE /\ fp' = <<>>
    /\ UNCHANGED <<log, appending, rest, disk>>

(* stop(), or the destructor; the join waits for "done". *)
Stop ==
    /\ running /\ running' = FALSE
    /\ UNCHANGED <<now, fileVars, frontVars, pending, sent, batch, backEnd, aborted>>

-----------------------------------------------------------------------------
(* threadFunc, the back end of AsyncLogging. *)

TestRunning ==
    /\ backEnd = "test" /\ running /\ backEnd' = "collect"
    /\ UNCHANGED <<now, fileVars, frontVars, pending, sent, batch, running, aborted>>

(* The rest of the current buffer, which is collected as it is. *)
Unfilled == [k \in 1..(Slots - Filled) |-> Stale]

(* Behind the wait, which ends by itself after three seconds: all buffers. *)
Collect ==
    /\ backEnd = "collect"
    /\ pending # <<>> \/ Len(sent) < MaxSlots
    /\ batch' = pending \o Unfilled /\ sent' = sent \o Unfilled
    /\ pending' = <<>> /\ backEnd' = "write"
    /\ UNCHANGED <<now, fileVars, frontVars, running, aborted>>

(* output.append(buffer->data(), buffer->length()): all of one buffer. *)
Write ==
    /\ backEnd = "write" /\ batch # <<>>
    /\ BeginAppend(BytesOf(SubSeq(batch, 1, Slots)))
    /\ batch' = SubSeq(batch, Slots + 1, Len(batch))
    /\ UNCHANGED <<frontVars, pending, sent, running, backEnd, aborted>>

(* Fault for LoggedReachesDisk: the round ends without output.flush(). *)
EndRoundUnflushed ==
    /\ backEnd = "write" /\ batch = <<>> /\ ~appending
    /\ backEnd' = "test"
    /\ UNCHANGED <<now, fileVars, frontVars, pending, sent, batch, running, aborted>>

EndRound ==
    /\ backEnd = "write" /\ batch = <<>> /\ ~appending
    /\ Flush /\ backEnd' = "test"
    /\ UNCHANGED <<now, log, appending, rest, frontVars, pending, sent, batch,
                   running, aborted>>

(* After stop() the loop is left; what was appended since the last Collect *)
(* stays where it is.                                                      *)
Finish ==
    /\ backEnd = "test" /\ ~running
    /\ Flush /\ backEnd' = "done"
    /\ UNCHANGED <<now, log, appending, rest, frontVars, pending, sent, batch,
                   running, aborted>>

BackEndAppends ==
    /\ (\E n \in 0..Len(rest) : Fwrite(n)) \/ EndAppend
    /\ UNCHANGED <<frontVars, asyncVars, aborted>>

Spill == StdioSpills /\ UNCHANGED <<frontVars, asyncVars, aborted>>

Time == Tick /\ UNCHANGED <<frontVars, asyncVars, aborted>>

BackEnd ==
    /\ ~aborted
    /\ TestRunning \/ Collect \/ Write \/ BackEndAppends \/ EndRound \/ Finish

FrontEnd ==
    /\ ~aborted
    /\ \/ \E level \in Levels : setLogLevel(level)
       \/ setOutput
       \/ \E s \in Statements : Log(s) \/ LogFatal(s)
       \/ Stop

Next == FrontEnd \/ BackEnd \/ (~aborted /\ (Spill \/ Time))

(* The back end runs, and the disk takes a byte in the end. *)
Fairness == WF_vars(BackEnd)

Spec == LoggerInit /\ [][Next]_vars /\ Fairness

-----------------------------------------------------------------------------
(* The slots hold the lines handed to AsyncLogging, each once, in the      *)
(* order of the statements.                                                *)
SentInOrder ==
    /\ Range(sent) \ {Stale}
         = {i \in DOMAIN logged : logged[i].to = "async"}
    /\ \A m, n \in DOMAIN sent :
            m < n /\ sent[n] # Stale => sent[m] < sent[n]

(* s is the beginning of t, but for bytes that were lost. *)
InPlace(s, t) ==
    Len(s) <= Len(t) /\ \A b \in 1..Len(s) : s[b] \in {t[b], Lost}

OnTheWay == disk \o fp \o rest \o BytesOf(batch \o pending)

(* What left the stream, the stream holds and the back end has still to do *)
(* is the bytes of all buffers, stale ones included, each byte in its      *)
(* place, through partial writes, rolls and flushes: a failing flush loses *)
(* bytes, and moves or repeats none; abort loses a suffix, and stop() what *)
(* is not collected, which stays pending.                                  *)
DiskIsPrefix ==
    /\ SentInOrder
    /\ IF aborted
       THEN InPlace(disk, BytesOf(sent))
       ELSE /\ InPlace(OnTheWay, BytesOf(sent))
            /\ Len(OnTheWay) = Len(BytesOf(sent))

(* What operator<< is to make of a number, from its front. *)
NumeralOf[n \in Int] ==
    IF n < 0 THEN <<"-">> \o NumeralOf[-n]
    ELSE IF n < 10 THEN <<SubSeq(digits, 10, 19)[n + 1]>>
    ELSE NumeralOf[n \div 10] \o NumeralOf[n % 10]

TextOf(piece) ==
    IF "num" \in DOMAIN piece THEN NumeralOf[piece.num] ELSE piece.text

TextOfAll(pieces) ==
    LET Upto[i \in 0..Len(pieces)] ==
            IF i = 0 THEN <<>> ELSE Upto[i - 1] \o TextOf(pieces[i])
    IN  Upto[Len(pieces)]

Without(pieces, lost) ==
    TextOfAll([k \in 1..Len(pieces) |->
                  IF k \in lost THEN Text(<<>>) ELSE pieces[k]])

(* The whole text if there is room for it, or what is left of it without  *)
(* some of its pieces.                                                     *)
LinesFor(s) ==
    IF Len(Without(Pieces(s), {})) + kMaxNumericSize <= kSmallBuffer
    THEN {Without(Pieces(s), {})}
    ELSE {Without(Pieces(s), lost) : lost \in SUBSET (1..Len(Pieces(s)))}

Expected == [s \in Statements |-> LinesFor(s)]

(* A line is the text of its statement, with all numbers right; a          *)
(* statement that is too long loses whole pieces, never a part of one, and *)
(* a line never fills the buffer to its end.                               *)
LineIsStatement ==
    \A i \in DOMAIN logged :
        /\ logged[i].text \in Expected[logged[i].from]
        /\ Len(logged[i].text) < kSmallBuffer

OnDisk(line) == \E b \in DOMAIN disk : disk[b] = <<line, LineLen>>

(* A line handed to AsyncLogging gets to the disk, however fwrite cuts it  *)
(* up, unless the process aborts, a write of stdio fails and its bytes are *)
(* dropped, or stop() finds the line in a buffer that the back end has not *)
(* collected: a line that is collected gets to the disk also after stop(). *)
LoggedReachesDisk ==
    \A i \in 1..MaxLines :
        (i <= Len(logged) /\ logged[i].to = "async")
            ~> \/ OnDisk(i)
               \/ aborted \/ Lost \in Range(disk)
               \/ ~running /\ i \in Range(pending)
=============================================================================
