---------------------------- MODULE AsyncLogging ----------------------------
(***************************************************************************)
(* AsyncLogging (src/logger/AsyncLogging.cc): front-end threads append log *)
(* lines to FixedBuffers under mutex_, one back-end thread collects the    *)
(* buffers, writes them to the LogFile and gives two of them back.         *)
(*                                                                         *)
(* A line is one slot of a buffer: every line reaches append with the same *)
(* len (Logger passes the fixed length of its own buffer).  A step is one  *)
(* critical section of mutex_ or one piece of work on the back end's local *)
(* buffers.                                                                *)
(***************************************************************************)
EXTENDS Naturals, Sequences, FiniteSets, FiniteSetsExt, SequencesExt

CONSTANTS
    MaxLines,   \* how many lines are logged (bound)
    Slots,      \* lines that fill a FixedBuffer: SIZE / len
    Null,       \* the null BufferPtr
    Blank,      \* what bzero leaves in a slot
    Junk        \* what an uninitialised slot may hold

(* A log line is named by its place in the order of the calls of append. *)
Lines == 1..MaxLines

ASSUME AsyncLoggingAssumptions ==
    /\ MaxLines \in Nat
    /\ Slots \in Nat /\ Slots >= 2
    /\ Blank \notin Lines /\ Junk \notin Lines

VARIABLES
    currentBuffer, nextBuffer, buffers,     \* the fields under mutex_
    newBuffer1, newBuffer2, buffersToWrite, \* locals of threadFunc
    written,        \* how many of buffersToWrite are written
    running,        \* running_
    pc,             \* where the back-end thread is
    copies,         \* how often the LogFile has each line, or junk
    appended,       \* history: lines in the order of append
    flushed         \* history: lines written from the filled part of buffers

front == <<currentBuffer, nextBuffer, buffers>>
back == <<newBuffer1, newBuffer2, buffersToWrite, written>>
vars == <<front, back, running, pc, copies, appended, flushed>>

-----------------------------------------------------------------------------
(* FixedBuffer.                                                            *)

BufferType ==
    [data : [1..Slots -> Lines \cup {Blank, Junk}], cur : 0..Slots]

ASSUME NullAssumption == Null \notin BufferType

(* A new buffer is blank after bzero() and holds anything without it. *)
NewBuffer(fill) == [data |-> [i \in 1..Slots |-> fill], cur |-> 0]

avail(b) == Slots - b.cur

(* FixedBuffer::append: a line that does not fit is dropped. *)
AppendLine(b, line) ==
    IF avail(b) > 1
    THEN [data |-> [b.data EXCEPT ![b.cur + 1] = line], cur |-> b.cur + 1]
    ELSE b

(* Fault for WritesInOrder: the buffer that is given back is not rewound. *)
NoReset(b) == b

(* FixedBuffer::reset moves cur_ back and leaves data_ as it is. *)
reset(b) == [b EXCEPT !.cur = 0]

(* data() up to length(), which is end() - data_: all slots, not cur_.     *)
(* Counting stops at MaxCopies.                                            *)
MaxCopies == 2

SlotsWith(b, x) == Cardinality({i \in 1..Slots : b.data[i] = x})

AddContents(b) ==
    [x \in DOMAIN copies |-> Min({MaxCopies, copies[x] + SlotsWith(b, x)})]

(* The part that append has filled. *)
Filled(b) == [i \in 1..b.cur |-> b.data[i]]

-----------------------------------------------------------------------------
PCs == {"unstarted", "test", "collect", "wait", "write", "giveBack", "done"}

PoolTypeOK ==
    /\ currentBuffer \in BufferType \cup {Null}
    /\ nextBuffer \in BufferType \cup {Null}
    /\ buffers \in Seq(BufferType)
    /\ newBuffer1 \in BufferType \cup {Null}
    /\ newBuffer2 \in BufferType \cup {Null}
    /\ buffersToWrite \in Seq(BufferType)
    /\ written \in Nat
    /\ running \in BOOLEAN
    /\ pc \in PCs

TypeOK ==
    /\ PoolTypeOK
    /\ copies \in [Lines \cup {Junk} -> 0..MaxCopies]
    /\ appended \in Seq(Lines)
    /\ flushed \in Seq(Lines \cup {Blank, Junk})

(* AsyncLogging::AsyncLogging, and the locals of threadFunc. *)
Init ==
    /\ currentBuffer = NewBuffer(Blank)
    /\ nextBuffer = NewBuffer(Blank)
    /\ buffers = <<>>
    /\ newBuffer1 = NewBuffer(Blank)
    /\ newBuffer2 = NewBuffer(Blank)
    /\ buffersToWrite = <<>>
    /\ written = 0
    /\ running = FALSE
    /\ pc = "unstarted"
    /\ copies = [x \in Lines \cup {Junk} |-> 0]
    /\ appended = <<>>
    /\ flushed = <<>>

-----------------------------------------------------------------------------
(* The front end.                                                          *)

(* append: the line fits into currentBuffer_ ... *)
AppendFits(line) ==
    /\ avail(currentBuffer) > 1
    /\ currentBuffer' = AppendLine(currentBuffer, line)
    /\ UNCHANGED <<nextBuffer, buffers>>

(* Fault for BuffersSuffice: the spare buffer is taken without handing the *)
(* full one over.                                                          *)
TakeNextLosesFull(line) ==
    /\ avail(currentBuffer) <= 1
    /\ nextBuffer # Null
    /\ currentBuffer' = AppendLine(nextBuffer, line)
    /\ nextBuffer' = Null
    /\ UNCHANGED buffers

(* ... or the buffer is handed over and the spare one takes its place ...  *)
TakeNext(line) ==
    /\ avail(currentBuffer) <= 1
    /\ nextBuffer # Null
    /\ buffers' = Append(buffers, currentBuffer)
    /\ currentBuffer' = AppendLine(nextBuffer, line)
    /\ nextBuffer' = Null

(* ... or, with the spare one in use, a new buffer, which nothing clears.  *)
Allocate(line) ==
    /\ avail(currentBuffer) <= 1
    /\ nextBuffer = Null
    /\ buffers' = Append(buffers, currentBuffer)
    /\ \E fill \in {Blank, Junk} :
            currentBuffer' = AppendLine(NewBuffer(fill), line)
    /\ UNCHANGED nextBuffer

Log(line) ==
    /\ line = Len(appended) + 1
    /\ AppendFits(line) \/ TakeNext(line) \/ Allocate(line)
    /\ appended' = Append(appended, line)
    /\ UNCHANGED <<back, running, pc, copies, flushed>>

Start ==
    /\ pc = "unstarted"
    /\ running' = TRUE
    /\ pc' = "test"
    /\ UNCHANGED <<front, back, copies, appended, flushed>>

(* stop: running_ falls, the back end is notified; join waits for "done".  *)
Stop ==
    /\ running
    /\ running' = FALSE
    /\ UNCHANGED <<front, back, pc, copies, appended, flushed>>

-----------------------------------------------------------------------------
(* The back end: threadFunc.                                               *)

(* Fault for LineReachesFile: the loop ends after one round. *)
TestRunningOnce ==
    /\ pc = "test"
    /\ pc' = IF running /\ flushed = <<>> THEN "collect" ELSE "done"
    /\ UNCHANGED <<front, back, running, copies, appended, flushed>>

TestRunning ==
    /\ pc = "test"
    /\ pc' = IF running THEN "collect" ELSE "done"
    /\ UNCHANGED <<front, back, running, copies, appended, flushed>>

(* With nothing handed over, wait_for gives the mutex up ... *)
Wait ==
    /\ pc = "collect"
    /\ buffers = <<>>
    /\ pc' = "wait"
    /\ UNCHANGED <<front, back, running, copies, appended, flushed>>

(* Fault for TypeOK: the spare buffer is collected too, without a look     *)
(* whether there is one.                                                   *)
CollectBoth ==
    /\ pc = "wait" \/ (pc = "collect" /\ buffers # <<>>)
    /\ buffersToWrite' = buffers \o <<currentBuffer, nextBuffer>>
    /\ buffers' = buffersToWrite
    /\ currentBuffer' = newBuffer1
    /\ newBuffer1' = Null
    /\ nextBuffer' = newBuffer2
    /\ newBuffer2' = Null
    /\ written' = 0
    /\ pc' = "write"
    /\ UNCHANGED <<running, copies, appended, flushed>>

(* ... and ends by notification, after three seconds or for no reason;     *)
(* the buffers are collected and the spare ones handed out.                *)
Collect ==
    /\ pc = "wait" \/ (pc = "collect" /\ buffers # <<>>)
    /\ buffersToWrite' = Append(buffers, currentBuffer)
    /\ buffers' = buffersToWrite
    /\ currentBuffer' = newBuffer1
    /\ newBuffer1' = Null
    /\ \/ /\ nextBuffer = Null
          /\ nextBuffer' = newBuffer2
          /\ newBuffer2' = Null
       \/ /\ nextBuffer # Null
          /\ UNCHANGED <<nextBuffer, newBuffer2>>
    /\ written' = 0
    /\ pc' = "write"
    /\ UNCHANGED <<running, copies, appended, flushed>>

Write ==
    /\ pc = "write"
    /\ written < Len(buffersToWrite)
    /\ LET b == buffersToWrite[written + 1]
       IN  /\ copies' = AddContents(b)
           /\ flushed' = flushed \o Filled(b)
    /\ written' = written + 1
    /\ UNCHANGED <<front, newBuffer1, newBuffer2, buffersToWrite, running, pc,
                   appended>>

(* resize(2): at most two buffers are kept. *)
WriteDone ==
    /\ pc = "write"
    /\ written = Len(buffersToWrite)
    /\ buffersToWrite' = IF Len(buffersToWrite) > 2
                         THEN SubSeq(buffersToWrite, 1, 2)
                         ELSE buffersToWrite
    /\ pc' = "giveBack"
    /\ UNCHANGED <<front, newBuffer1, newBuffer2, written, running, copies,
                   appended, flushed>>

(* newBuffer1 and newBuffer2 are refilled from the back of the vector,     *)
(* whatever is left is freed.                                              *)
GiveBack ==
    /\ pc = "giveBack"
    /\ LET popped == IF newBuffer1 = Null THEN Front(buffersToWrite)
                                          ELSE buffersToWrite
       IN  /\ newBuffer1' = IF newBuffer1 = Null THEN reset(Last(buffersToWrite))
                                                 ELSE newBuffer1
           /\ newBuffer2' = IF newBuffer2 = Null THEN reset(Last(popped))
                                                 ELSE newBuffer2
    /\ buffersToWrite' = <<>>
    /\ pc' = "test"
    /\ UNCHANGED <<front, written, running, copies, appended, flushed>>

Terminated == pc = "done" /\ UNCHANGED vars

BackEnd ==
    TestRunning \/ Wait \/ Collect \/ Write \/ WriteDone \/ GiveBack

Next ==
    \/ \E line \in Lines : Log(line)
    \/ Start \/ Stop
    \/ BackEnd
    \/ Terminated

Spec == Init /\ [][Next]_vars

(* The back-end thread runs; wait_for ends at the latest after 3 seconds.  *)
FairSpec == Spec /\ WF_vars(BackEnd)

-----------------------------------------------------------------------------
(* Properties.                                                             *)

(* The pool of buffers never runs dry: append always has a current buffer, *)
(* threadFunc always has newBuffer1 to hand out, newBuffer2 when the spare *)
(* one is gone, and enough written buffers to refill both (back() of an    *)
(* empty vector is undefined).                                             *)
BuffersSuffice ==
    /\ currentBuffer # Null
    /\ pc \in {"test", "collect", "wait"}
        => newBuffer1 # Null /\ newBuffer2 # Null
    /\ pc = "giveBack" =>
        Len(buffersToWrite) >= (IF newBuffer1 = Null THEN 1 ELSE 0)
                                 + (IF newBuffer2 = Null THEN 1 ELSE 0)

(* The buffers whose lines are not written yet, oldest first, and the      *)
(* places of those lines: buffer and slot.                                 *)
Pending ==
    LET left == IF pc = "write"
                THEN SubSeq(buffersToWrite, written + 1, Len(buffersToWrite))
                ELSE <<>>
    IN  left \o buffers \o <<currentBuffer>>

PlacesIn(bs) == {p \in (1..Len(bs)) \X (1..Slots) : p[2] <= bs[p[1]].cur}
LineAt(bs, p) == bs[p[1]].data[p[2]]
Before(p, q) == p[1] < q[1] \/ (p[1] = q[1] /\ p[2] < q[2])

(* The swap of the two buffer vectors loses, repeats and reorders nothing: *)
(* the lines written from the filled parts are the first ones of append,   *)
(* and the filled parts still to be written hold all the others, each once *)
(* and in the order of append.                                             *)
WritesInOrder ==
    /\ IsPrefix(flushed, appended)
    /\ {LineAt(Pending, p) : p \in PlacesIn(Pending)}
            = {appended[i] : i \in (Len(flushed) + 1)..Len(appended)}
    /\ \A p, q \in PlacesIn(Pending) :
            Before(p, q) => LineAt(Pending, p) < LineAt(Pending, q)

InFile(line) == copies[line] > 0

(* A line appended while the logger runs reaches the file, unless stop()   *)
(* is called.                                                              *)
LineReachesFile ==
    \A line \in Lines :
        running /\ line <= Len(appended)
            ~> InFile(line) \/ ~running

(* README.md:10 says that the back-end thread writes the front end's log   *)
(* lines to disk: what it writes are those lines, each as often as it was  *)
(* logged.                                                                 *)
WritesWhatWasLogged ==
    /\ copies[Junk] = 0
    /\ \A line \in Lines : copies[line] <= 1
=============================================================================
