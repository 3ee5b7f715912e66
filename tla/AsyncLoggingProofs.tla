------------------------- MODULE AsyncLoggingProofs -------------------------
(***************************************************************************)
(* Proofs about module AsyncLogging, for any number of lines and any       *)
(* buffer size: the buffer pool never runs dry, and no line is lost,       *)
(* repeated or reordered on its way through the buffers.                   *)
(***************************************************************************)
EXTENDS AsyncLogging, TLAPS, SequenceTheorems, FiniteSetTheorems

(* The spare buffer is gone only if append has handed a full one over. *)
SpareInv == nextBuffer = Null => buffers # <<>>

(* threadFunc holds buffers to write only between the swap and the refill; *)
(* there are as many as it will need to get its own two back.              *)
ToWriteInv ==
    /\ pc \notin {"write", "giveBack"} =>
        buffersToWrite = <<>> /\ newBuffer1 # Null /\ newBuffer2 # Null
    /\ pc \in {"write", "giveBack"} =>
        /\ Len(buffersToWrite) >= 1
        /\ newBuffer2 = Null => Len(buffersToWrite) >= 2

PoolInv ==
    /\ PoolTypeOK
    /\ currentBuffer # Null
    /\ SpareInv
    /\ ToWriteInv

-----------------------------------------------------------------------------
(* The operations on a buffer give a buffer. *)
LEMMA BufferOps ==
    /\ \A fill \in {Blank, Junk} : NewBuffer(fill) \in BufferType
    /\ \A b \in BufferType : reset(b) \in BufferType
    /\ \A b \in BufferType, line \in Lines : AppendLine(b, line) \in BufferType
  <1>1. Slots \in Nat
    BY AsyncLoggingAssumptions DEF AsyncLoggingAssumptions
  <1>2. \A fill \in {Blank, Junk} : NewBuffer(fill) \in BufferType
    BY <1>1 DEF NewBuffer, BufferType
  <1>3. \A b \in BufferType : reset(b) \in BufferType
    BY <1>1 DEF reset, BufferType
  <1>4. ASSUME NEW b \in BufferType, NEW line \in Lines
        PROVE  AppendLine(b, line) \in BufferType
    <2>1. CASE avail(b) > 1
      <3>1. b.cur \in 0..Slots /\ b.cur + 1 \in 1..Slots
        BY <1>1, <2>1 DEF avail, BufferType
      <3>2. [b.data EXCEPT ![b.cur + 1] = line]
                \in [1..Slots -> Lines \cup {Blank, Junk}]
        BY <3>1 DEF BufferType
      <3> QED
        BY <1>1, <2>1, <3>1, <3>2 DEF AppendLine, BufferType
    <2>2. CASE ~(avail(b) > 1)
      BY <2>2 DEF AppendLine
    <2> QED
      BY <2>1, <2>2
  <1> QED
    BY <1>2, <1>3, <1>4

LEMMA PoolInit == Init => PoolInv
  <1> SUFFICES ASSUME Init PROVE PoolInv
    OBVIOUS
  <1>1. NewBuffer(Blank) \in BufferType /\ NewBuffer(Blank) # Null
    BY BufferOps, NullAssumption
  <1>2. PoolTypeOK
    BY <1>1, EmptySeq DEF Init, PoolTypeOK, PCs
  <1> QED
    BY <1>1, <1>2 DEF Init, PoolInv, SpareInv, ToWriteInv

(* append keeps the pool: it hands a buffer over whenever it takes the     *)
(* spare one.                                                              *)
LEMMA PoolLog ==
    ASSUME PoolInv, NEW line \in Lines, Log(line)
    PROVE  PoolInv'
  <1> USE DEF PoolInv, PoolTypeOK, SpareInv, ToWriteInv
  <1>1. /\ UNCHANGED <<newBuffer1, newBuffer2, buffersToWrite, written,
                       running, pc>>
    BY DEF Log, back
  <1>2. currentBuffer \in BufferType
    OBVIOUS
  <1>3. CASE AppendFits(line)
    <2>1. currentBuffer' \in BufferType /\ UNCHANGED <<nextBuffer, buffers>>
      BY <1>2, <1>3, BufferOps DEF AppendFits
    <2> QED
      BY <1>1, <2>1, NullAssumption
  <1>4. CASE TakeNext(line)
    <2>1. currentBuffer' \in BufferType /\ nextBuffer' = Null
      BY <1>4, BufferOps DEF TakeNext
    <2>2. buffers' \in Seq(BufferType) /\ buffers' # <<>>
      BY <1>2, <1>4 DEF TakeNext
    <2> QED
      BY <1>1, <2>1, <2>2, NullAssumption
  <1>5. CASE Allocate(line)
    <2>1. currentBuffer' \in BufferType /\ nextBuffer' = nextBuffer
      BY <1>5, BufferOps DEF Allocate
    <2>2. buffers' \in Seq(BufferType) /\ buffers' # <<>>
      BY <1>2, <1>5 DEF Allocate
    <2> QED
      BY <1>1, <2>1, <2>2, NullAssumption
  <1> QED
    BY <1>3, <1>4, <1>5 DEF Log

(* The swap keeps the pool: if it had to hand out newBuffer2, at least two *)
(* buffers were collected.                                                 *)
LEMMA PoolCollect ==
    ASSUME PoolInv, Collect
    PROVE  PoolInv'
  <1> USE DEF PoolInv, PoolTypeOK, SpareInv, ToWriteInv
  <1>1. pc \in {"wait", "collect"} /\ pc' = "write" /\ written' = 0
          /\ running' = running
    BY DEF Collect
  <1>2. /\ buffersToWrite = <<>>
        /\ newBuffer1 \in BufferType /\ newBuffer2 \in BufferType
        /\ currentBuffer \in BufferType
    BY <1>1
  <1>3. /\ currentBuffer' = newBuffer1 /\ newBuffer1' = Null
        /\ buffers' = <<>>
    BY <1>2 DEF Collect
  <1>4. /\ buffersToWrite' \in Seq(BufferType)
        /\ Len(buffersToWrite') = Len(buffers) + 1
        /\ Len(buffers) \in Nat
    BY <1>2 DEF Collect
  <1>5. CASE nextBuffer = Null
    <2>1. nextBuffer' = newBuffer2 /\ newBuffer2' = Null
      BY <1>5 DEF Collect
    <2>2. buffers # <<>>
      BY <1>5
    <2>3. Len(buffers) >= 1
      BY <1>4, <2>2, EmptySeq
    <2> QED
      BY <1>1, <1>2, <1>3, <1>4, <2>1, <2>3, NullAssumption DEF PCs
  <1>6. CASE nextBuffer # Null
    <2>1. UNCHANGED <<nextBuffer, newBuffer2>>
      BY <1>6 DEF Collect
    <2> QED
      BY <1>1, <1>2, <1>3, <1>4, <1>6, <2>1, NullAssumption DEF PCs
  <1> QED
    BY <1>5, <1>6

LEMMA PoolGiveBack ==
    ASSUME PoolInv, GiveBack
    PROVE  PoolInv'
  <1> USE DEF PoolInv, PoolTypeOK, SpareInv, ToWriteInv
  <1>1. pc = "giveBack" /\ pc' = "test" /\ buffersToWrite' = <<>>
          /\ UNCHANGED <<currentBuffer, nextBuffer, buffers, written, running>>
    BY DEF GiveBack, front
  <1> DEFINE n == Len(buffersToWrite)
  <1>2. /\ n \in Nat /\ n >= 1
        /\ newBuffer2 = Null => n >= 2
        /\ Last(buffersToWrite) \in BufferType
        /\ n >= 2 => Last(Front(buffersToWrite)) \in BufferType
    <2>1. n \in Nat /\ n >= 1 /\ (newBuffer2 = Null => n >= 2)
      BY <1>1
    <2>2. Last(buffersToWrite) \in BufferType
      BY <2>1 DEF Last
    <2>3. ASSUME n >= 2 PROVE Last(Front(buffersToWrite)) \in BufferType
      <3>1. Front(buffersToWrite) \in Seq(BufferType)
              /\ Len(Front(buffersToWrite)) = n - 1
        BY <2>1, <2>3 DEF Front
      <3> QED
        BY <2>1, <2>3, <3>1 DEF Last
    <2> QED
      BY <2>1, <2>2, <2>3
  <1>3. newBuffer1' \in BufferType
    BY <1>1, <1>2, BufferOps DEF GiveBack
  <1>4. newBuffer2' \in BufferType
    BY <1>1, <1>2, BufferOps DEF GiveBack
  <1> QED
    BY <1>1, <1>3, <1>4, NullAssumption, EmptySeq DEF PCs

(* The other steps move no buffer between the two sides. *)
LEMMA PoolRest ==
    ASSUME PoolInv,
           \/ Start \/ Stop \/ TestRunning \/ Wait \/ Write \/ WriteDone
           \/ UNCHANGED vars
    PROVE  PoolInv'
  <1> USE DEF PoolInv, PoolTypeOK, SpareInv, ToWriteInv, front, back, PCs
  <1>1. CASE Start \/ Stop
    BY <1>1 DEF Start, Stop
  <1>2. CASE TestRunning \/ Wait
    BY <1>2 DEF TestRunning, Wait
  <1>3. CASE Write
    BY <1>3 DEF Write
  <1>4. CASE WriteDone
    <2>1. pc = "write" /\ pc' = "giveBack"
            /\ UNCHANGED <<front, newBuffer1, newBuffer2, written, running>>
      BY <1>4 DEF WriteDone
    <2>2. /\ buffersToWrite' \in Seq(BufferType)
          /\ Len(buffersToWrite') >= 1
          /\ Len(buffersToWrite) >= 2 => Len(buffersToWrite') >= 2
      <3>1. CASE Len(buffersToWrite) > 2
        <4>1. buffersToWrite' = SubSeq(buffersToWrite, 1, 2)
          BY <1>4, <3>1 DEF WriteDone
        <4>2. Len(SubSeq(buffersToWrite, 1, 2)) = 2
                /\ SubSeq(buffersToWrite, 1, 2) \in Seq(BufferType)
          BY <3>1
        <4> QED
          BY <4>1, <4>2
      <3>2. CASE ~(Len(buffersToWrite) > 2)
        BY <1>4, <2>1, <3>2 DEF WriteDone
      <3> QED
        BY <3>1, <3>2
    <2> QED
      BY <2>1, <2>2
  <1>5. CASE UNCHANGED vars
    BY <1>5 DEF vars
  <1> QED
    BY <1>1, <1>2, <1>3, <1>4, <1>5

LEMMA PoolNext == PoolInv /\ [Next]_vars => PoolInv'
  BY PoolLog, PoolCollect, PoolGiveBack, PoolRest
     DEF Next, BackEnd, Terminated

-----------------------------------------------------------------------------
(* The order of the lines.                                                 *)

(* The filled parts of the buffers bs hold the lines lo + 1 .. hi: each    *)
(* part is consecutive, no line is missing, a later buffer has later       *)
(* lines.                                                                  *)
Consecutive(b) == \A i \in 1..b.cur : b.data[i] = b.data[1] + (i - 1)

Ordered(bs, lo, hi) ==
    /\ \A k \in 1..Len(bs) :
            /\ Consecutive(bs[k])
            /\ \A i \in 1..bs[k].cur : bs[k].data[i] \in (lo + 1)..hi
    /\ \A n \in (lo + 1)..hi :
            \E k \in 1..Len(bs) : \E i \in 1..bs[k].cur : bs[k].data[i] = n
    /\ \A k, m \in 1..Len(bs) :
            k < m => \A i \in 1..bs[k].cur, j \in 1..bs[m].cur :
                        bs[k].data[i] < bs[m].data[j]

LEMMA OrderedInterval ==
    ASSUME NEW bs \in Seq(BufferType), NEW lo \in Nat, NEW hi \in Nat,
           Ordered(bs, lo, hi), NEW k \in 1..Len(bs)
    PROVE  /\ bs[k] \in BufferType /\ bs[k].cur \in Nat /\ bs[k].cur <= Slots
           /\ Slots \in Nat
           /\ \A i \in 1..bs[k].cur : bs[k].data[i] \in Nat
  <1>1. Slots \in Nat /\ bs[k] \in BufferType
    BY AsyncLoggingAssumptions DEF AsyncLoggingAssumptions
  <1>2. bs[k].cur \in 0..Slots
    BY <1>1 DEF BufferType
  <1>3. \A i \in 1..bs[k].cur : bs[k].data[i] \in (lo + 1)..hi
    BY DEF Ordered
  <1> QED
    BY <1>1, <1>2, <1>3

(* An empty buffer behind the others changes nothing. *)
LEMMA OrderedSnoc ==
    ASSUME NEW bs \in Seq(BufferType), NEW lo \in Nat, NEW hi \in Nat,
           Ordered(bs, lo, hi), NEW b \in BufferType, b.cur = 0
    PROVE  Ordered(Append(bs, b), lo, hi)
  <1> DEFINE cs == Append(bs, b)
  <1>1. /\ Len(bs) \in Nat /\ Len(cs) = Len(bs) + 1
        /\ \A k \in 1..Len(bs) : cs[k] = bs[k]
        /\ cs[Len(bs) + 1] = b
    BY AppendProperties
  <1>2. \A k \in 1..Len(cs) : k \in 1..Len(bs) \/ cs[k].cur = 0
    BY <1>1
  <1>3. 1..Len(bs) \subseteq 1..Len(cs)
    BY <1>1
  <1> HIDE DEF cs
  <1>4. ASSUME NEW k \in 1..Len(cs)
        PROVE  /\ Consecutive(cs[k])
               /\ \A i \in 1..cs[k].cur : cs[k].data[i] \in (lo + 1)..hi
    <2>1. CASE k \in 1..Len(bs)
      BY <1>1, <2>1 DEF Ordered
    <2>2. CASE cs[k].cur = 0
      BY <2>2 DEF Consecutive
    <2> QED
      BY <1>2, <2>1, <2>2
  <1>5. ASSUME NEW n \in (lo + 1)..hi
        PROVE  \E k \in 1..Len(cs) : \E i \in 1..cs[k].cur : cs[k].data[i] = n
    <2>1. PICK k \in 1..Len(bs) : \E i \in 1..bs[k].cur : bs[k].data[i] = n
      BY DEF Ordered
    <2>2. k \in 1..Len(cs) /\ cs[k] = bs[k]
      BY <1>1, <1>3
    <2> QED
      BY <2>1, <2>2
  <1>6. ASSUME NEW k \in 1..Len(cs), NEW m \in 1..Len(cs), k < m,
               NEW i \in 1..cs[k].cur, NEW j \in 1..cs[m].cur
        PROVE  cs[k].data[i] < cs[m].data[j]
    <2>1. k \in 1..Len(bs) /\ m \in 1..Len(bs)
      BY <1>2
    <2> QED
      BY <1>1, <1>6, <2>1 DEF Ordered
  <1> QED
    BY <1>4, <1>5, <1>6 DEF Ordered, cs

(* The next line, put into the last buffer, extends what is there by one.  *)
LEMMA OrderedAdd ==
    ASSUME NEW bs \in Seq(BufferType), NEW lo \in Nat, NEW hi \in Nat,
           lo <= hi, Ordered(bs, lo, hi), Len(bs) >= 1,
           avail(bs[Len(bs)]) > 1
    PROVE  Ordered([bs EXCEPT ![Len(bs)] = AppendLine(bs[Len(bs)], hi + 1)],
                   lo, hi + 1)
  <1> DEFINE n == Len(bs)
             b == bs[n]
             c == AppendLine(b, hi + 1)
             cs == [bs EXCEPT ![n] = c]
  <1>1. n \in Nat /\ n \in 1..Len(bs)
    OBVIOUS
  <1>2. /\ b.cur \in Nat /\ Slots \in Nat /\ b.cur + 1 \in 1..Slots
        /\ b.data \in [1..Slots -> Lines \cup {Blank, Junk}]
    <2>1. b \in BufferType /\ b.cur \in Nat /\ Slots \in Nat
      BY <1>1, OrderedInterval
    <2>2. Slots - b.cur > 1
      BY DEF avail
    <2> HIDE DEF b
    <2>3. b.data \in [1..Slots -> Lines \cup {Blank, Junk}]
      BY <2>1 DEF BufferType
    <2> QED
      BY <2>1, <2>2, <2>3
  <1>3. /\ c.cur = b.cur + 1
        /\ \A i \in 1..b.cur : c.data[i] = b.data[i]
        /\ c.data[b.cur + 1] = hi + 1
    BY <1>2, SMTT(30) DEF AppendLine
  <1>4. /\ Len(cs) = n /\ cs[n] = c
        /\ \A k \in 1..n : k # n => cs[k] = bs[k]
    BY <1>1
  <1> HIDE DEF cs, c, b, n
  <1>5. Consecutive(b) /\ \A i \in 1..b.cur : b.data[i] \in (lo + 1)..hi
    BY <1>1 DEF Ordered, b
  (* The last line so far is hi. *)
  <1>6. b.cur # 0 => b.data[b.cur] = hi
    <2> SUFFICES ASSUME b.cur # 0 PROVE b.data[b.cur] = hi
      OBVIOUS
    <2>1. b.cur \in 1..b.cur /\ b.data[b.cur] \in (lo + 1)..hi
      BY <1>2, <1>5, SMTT(30)
    <2>2. hi \in (lo + 1)..hi
      BY <2>1
    <2>3. PICK k \in 1..Len(bs) : \E i \in 1..bs[k].cur : bs[k].data[i] = hi
      BY <2>2 DEF Ordered
    <2>3i. PICK i \in 1..bs[k].cur : bs[k].data[i] = hi
      BY <2>3
    <2>4. CASE k = n
      <3>1. i \in 1..b.cur /\ b.data[i] = hi
        BY <2>3i, <2>4 DEF b
      <3>2. b.data[i] = b.data[1] + (i - 1) /\ b.data[b.cur] = b.data[1] + (b.cur - 1)
        BY <1>5, <2>1, <3>1 DEF Consecutive
      <3>3. b.data[1] \in (lo + 1)..hi
        BY <1>2, <1>5, <2>1, SMTT(30)
      <3>4. i \in Int /\ i <= b.cur /\ b.data[b.cur] <= hi
        BY <1>2, <2>1, <3>1
      <3>5. PICK d \in Int : d = b.data[1]
        BY <3>3
      <3>6. hi = d + (i - 1) /\ d + (b.cur - 1) <= hi
        BY <3>1, <3>2, <3>4, <3>5
      <3>7. ASSUME NEW c1 \in Int, NEW d1 \in Int, NEW i1 \in Int,
                   hi = d1 + (i1 - 1), d1 + (c1 - 1) <= hi, i1 <= c1
            PROVE  i1 = c1
        BY <3>7
      <3>8. b.cur \in Int
        BY <1>2
      <3>9. i = b.cur
        BY <3>4, <3>5, <3>6, <3>7, <3>8
      <3> QED
        BY <3>1, <3>9
    <2>5. CASE k # n
      <3>1. k < n
        BY <1>1, <2>5 DEF n
      <3>2. bs[k].data[i] < b.data[b.cur]
        BY <1>1, <2>1, <2>3i, <3>1 DEF Ordered, b
      <3> QED
        BY <2>1, <2>3i, <3>2
    <2> QED
      BY <2>4, <2>5
  <1>7. /\ Consecutive(c)
        /\ \A i \in 1..c.cur : c.data[i] \in (lo + 1)..(hi + 1)
    <2>1. ASSUME NEW i \in 1..c.cur
          PROVE  /\ c.data[i] = c.data[1] + (i - 1)
                 /\ c.data[i] \in (lo + 1)..(hi + 1)
      <3>1. CASE b.cur = 0
        BY <1>2, <1>3, <2>1, <3>1
      <3>2. CASE b.cur # 0 /\ i = b.cur + 1
        <4>1. 1 \in 1..b.cur /\ b.cur \in 1..b.cur
          BY <1>2, <3>2
        <4>2. hi = b.data[1] + (b.cur - 1) /\ b.data[1] \in (lo + 1)..hi
          BY <1>5, <1>6, <3>2, <4>1 DEF Consecutive
        <4>3. c.data[1] = b.data[1] /\ c.data[i] = hi + 1
          BY <1>3, <3>2, <4>1
        <4>4. b.data[1] \in Int /\ lo + 1 <= hi + 1 /\ b.cur \in Int
          BY <1>2, <4>2
        <4>5. hi + 1 = b.data[1] + ((b.cur + 1) - 1)
          BY <4>2, <4>4, SMTT(30)
        <4> QED
          BY <3>2, <4>3, <4>4, <4>5
      <3>3. CASE b.cur # 0 /\ i # b.cur + 1
        <4>1. i \in 1..b.cur /\ 1 \in 1..b.cur
          BY <1>2, <1>3, <3>3
        <4>2. c.data[i] = b.data[i] /\ c.data[1] = b.data[1]
          BY <1>3, <4>1
        <4>3. b.data[i] = b.data[1] + (i - 1) /\ b.data[i] \in (lo + 1)..hi
          BY <1>5, <4>1 DEF Consecutive
        <4> QED
          BY <4>2, <4>3
      <3> QED
        BY <3>1, <3>2, <3>3
    <2> QED
      BY <2>1 DEF Consecutive
  <1>8. ASSUME NEW k \in 1..Len(cs)
        PROVE  /\ Consecutive(cs[k])
               /\ \A i \in 1..cs[k].cur : cs[k].data[i] \in (lo + 1)..(hi + 1)
    <2>1. CASE k = n
      BY <1>4, <1>7, <2>1
    <2>2. CASE k # n
      <3>1. k \in 1..Len(bs) /\ cs[k] = bs[k]
        BY <1>4, <2>2 DEF n
      <3>2. Consecutive(bs[k])
              /\ \A i \in 1..bs[k].cur : bs[k].data[i] \in (lo + 1)..hi
        BY <3>1 DEF Ordered
      <3> QED
        BY <3>1, <3>2
    <2> QED
      BY <2>1, <2>2
  <1>9. ASSUME NEW x \in (lo + 1)..(hi + 1)
        PROVE  \E k \in 1..Len(cs) : \E i \in 1..cs[k].cur : cs[k].data[i] = x
    <2>1. n \in 1..Len(cs) /\ 1..b.cur \subseteq 1..c.cur /\ b.cur + 1 \in 1..c.cur
      BY <1>1, <1>2, <1>3, <1>4 DEF n
    <2>2. CASE x = hi + 1
      BY <1>3, <1>4, <2>1, <2>2
    <2>3. CASE x # hi + 1
      <3>1. x \in (lo + 1)..hi
        BY <2>3
      <3>2. PICK k \in 1..Len(bs) : \E i \in 1..bs[k].cur : bs[k].data[i] = x
        BY <3>1 DEF Ordered
      <3>2i. PICK i \in 1..bs[k].cur : bs[k].data[i] = x
        BY <3>2
      <3>3. CASE k = n
        <4>1. i \in 1..b.cur /\ b.data[i] = x
          BY <3>2i, <3>3 DEF b
        <4> QED
          BY <1>3, <1>4, <2>1, <4>1
      <3>4. CASE k # n
        <4>1. k \in 1..Len(cs) /\ cs[k] = bs[k]
          BY <1>4, <3>4 DEF n
        <4> QED
          BY <3>2i, <4>1
      <3> QED
        BY <3>3, <3>4
    <2> QED
      BY <2>2, <2>3
  <1>10. ASSUME NEW k \in 1..Len(cs), NEW m \in 1..Len(cs), k < m,
                NEW i \in 1..cs[k].cur, NEW j \in 1..cs[m].cur
         PROVE  cs[k].data[i] < cs[m].data[j]
    <2>1. /\ k \in 1..Len(bs) /\ m \in 1..Len(bs) /\ cs[k] = bs[k]
          /\ bs[k].data[i] \in (lo + 1)..hi
      BY <1>1, <1>4, <1>10 DEF n, Ordered
    <2>2. CASE m # n
      BY <1>4, <1>10, <2>1, <2>2 DEF Ordered
    <2>3. CASE m = n /\ j = b.cur + 1
      <3>1. cs[m].data[j] = hi + 1
        BY <1>3, <1>4, <2>3
      <3> QED
        BY <2>1, <3>1
    <2>4. CASE m = n /\ j # b.cur + 1
      <3>1. j \in 1..b.cur /\ cs[m].data[j] = b.data[j]
        BY <1>2, <1>3, <1>4, <1>10, <2>4
      <3>2. bs[k].data[i] < b.data[j]
        BY <1>10, <2>1, <2>4, <3>1 DEF Ordered, b
      <3> QED
        BY <2>1, <3>1, <3>2
    <2> QED
      BY <2>2, <2>3, <2>4
  <1> QED
    BY <1>8, <1>9, <1>10 DEF Ordered, cs, c, b, n

(* Writing the first buffer writes exactly the next lines. *)
LEMMA OrderedTail ==
    ASSUME NEW bs \in Seq(BufferType), NEW lo \in Nat, NEW hi \in Nat,
           lo <= hi, Ordered(bs, lo, hi), bs # <<>>
    PROVE  /\ \A i \in 1..bs[1].cur : bs[1].data[i] = lo + i
           /\ lo + bs[1].cur <= hi
           /\ Ordered(Tail(bs), lo + bs[1].cur, hi)
  <1> DEFINE b == bs[1]
             ts == Tail(bs)
             mid == lo + b.cur
  <1>1. /\ Len(bs) \in Nat /\ 1 \in 1..Len(bs) /\ Len(ts) = Len(bs) - 1
        /\ \A k \in 1..Len(ts) : ts[k] = bs[k + 1]
    BY HeadTailProperties
  <1>2. b.cur \in Nat /\ mid \in Nat
    BY <1>1, OrderedInterval
  <1>3. Consecutive(b) /\ \A i \in 1..b.cur : b.data[i] \in (lo + 1)..hi
    BY <1>1 DEF Ordered
  <1> HIDE DEF b, ts
  <1>4. b.cur # 0 => b.data[1] = lo + 1
    <2> SUFFICES ASSUME b.cur # 0 PROVE b.data[1] = lo + 1
      OBVIOUS
    <2>1. 1 \in 1..b.cur /\ b.data[1] \in (lo + 1)..hi
      BY <1>2, <1>3
    <2>2. lo + 1 \in (lo + 1)..hi
      BY <2>1
    <2>3. PICK k \in 1..Len(bs) : \E i \in 1..bs[k].cur : bs[k].data[i] = lo + 1
      BY <2>2 DEF Ordered
    <2>3i. PICK i \in 1..bs[k].cur : bs[k].data[i] = lo + 1
      BY <2>3
    <2>4. CASE k = 1
      <3>1. i \in 1..b.cur /\ b.data[i] = lo + 1
        BY <2>3i, <2>4 DEF b
      <3>2. b.data[i] = b.data[1] + (i - 1)
        BY <1>3, <3>1 DEF Consecutive
      <3> QED
        BY <1>2, <2>1, <3>1, <3>2
    <2>5. CASE k # 1
      <3>1. 1 < k
        BY <1>1, <2>5
      <3>2. b.data[1] < bs[k].data[i]
        BY <1>1, <2>1, <2>3i, <3>1 DEF Ordered, b
      <3> QED
        BY <2>1, <2>3i, <3>2
    <2> QED
      BY <2>4, <2>5
  <1>5. \A i \in 1..b.cur : b.data[i] = lo + i
    <2> SUFFICES ASSUME NEW i \in 1..b.cur PROVE b.data[i] = lo + i
      OBVIOUS
    <2>1. b.cur # 0
      BY <1>2
    <2>2. b.data[i] = b.data[1] + (i - 1) /\ b.data[1] = lo + 1
      BY <1>3, <1>4, <2>1 DEF Consecutive
    <2>3. i \in Int
      BY <1>2
    <2> QED
      BY <2>2, <2>3
  <1>6. mid <= hi
    <2>1. CASE b.cur = 0
      BY <1>2, <2>1
    <2>2. CASE b.cur # 0
      <3>1. b.cur \in 1..b.cur
        BY <1>2, <2>2
      <3>2. b.data[b.cur] = mid /\ b.data[b.cur] \in (lo + 1)..hi
        BY <1>3, <1>5, <3>1
      <3> QED
        BY <1>2, <3>2
    <2> QED
      BY <2>1, <2>2
  <1>7. ASSUME NEW k \in 1..Len(ts)
        PROVE  /\ Consecutive(ts[k])
               /\ \A i \in 1..ts[k].cur : ts[k].data[i] \in (mid + 1)..hi
    <2>1. k + 1 \in 1..Len(bs) /\ ts[k] = bs[k + 1] /\ 1 < k + 1
      BY <1>1
    <2>2. Consecutive(ts[k])
            /\ \A i \in 1..ts[k].cur : ts[k].data[i] \in (lo + 1)..hi
      BY <2>1 DEF Ordered
    <2>3. ASSUME NEW i \in 1..ts[k].cur
          PROVE  ts[k].data[i] \in (mid + 1)..hi
      <3>1. ts[k].data[i] \in (lo + 1)..hi
        BY <2>2
      <3>2. CASE b.cur = 0
        BY <3>1, <3>2
      <3>3. CASE b.cur # 0
        <4>1. b.cur \in 1..b.cur
          BY <1>2, <3>3
        <4>2. b.data[b.cur] < ts[k].data[i]
          BY <1>1, <2>1, <4>1 DEF Ordered, b
        <4> QED
          BY <1>2, <1>5, <3>1, <4>1, <4>2, SMTT(30)
      <3> QED
        BY <3>2, <3>3
    <2> QED
      BY <2>2, <2>3
  <1>8. ASSUME NEW x \in (mid + 1)..hi
        PROVE  \E k \in 1..Len(ts) : \E i \in 1..ts[k].cur : ts[k].data[i] = x
    <2>1. x \in (lo + 1)..hi
      BY <1>2
    <2>2. PICK k \in 1..Len(bs) : \E i \in 1..bs[k].cur : bs[k].data[i] = x
      BY <2>1 DEF Ordered
    <2>2i. PICK i \in 1..bs[k].cur : bs[k].data[i] = x
      BY <2>2
    <2>3. k # 1
      <3> SUFFICES ASSUME k = 1 PROVE FALSE
        OBVIOUS
      <3>1. i \in 1..b.cur /\ b.data[i] = x
        BY <2>2i DEF b
      <3> QED
        BY <1>2, <1>5, <3>1
    <2>4. k - 1 \in 1..Len(ts) /\ ts[k - 1] = bs[k]
      BY <1>1, <2>3
    <2> QED
      BY <2>2i, <2>4
  <1>9. ASSUME NEW k \in 1..Len(ts), NEW m \in 1..Len(ts), k < m,
               NEW i \in 1..ts[k].cur, NEW j \in 1..ts[m].cur
        PROVE  ts[k].data[i] < ts[m].data[j]
    <2>1. /\ k + 1 \in 1..Len(bs) /\ m + 1 \in 1..Len(bs) /\ k + 1 < m + 1
          /\ ts[k] = bs[k + 1] /\ ts[m] = bs[m + 1]
      BY <1>1, <1>9
    <2> QED
      BY <1>9, <2>1 DEF Ordered
  <1> QED
    BY <1>5, <1>6, <1>7, <1>8, <1>9 DEF Ordered, ts, b

(* The same two facts for a sequence with its last buffer split off. *)
LEMMA OrderedAddToLast ==
    ASSUME NEW ps \in Seq(BufferType), NEW b \in BufferType,
           NEW lo \in Nat, NEW hi \in Nat, lo <= hi,
           Ordered(Append(ps, b), lo, hi), avail(b) > 1
    PROVE  Ordered(Append(ps, AppendLine(b, hi + 1)), lo, hi + 1)
  <1> DEFINE bs == Append(ps, b)
             c == AppendLine(b, hi + 1)
  <1>1. /\ bs \in Seq(BufferType) /\ Len(bs) = Len(ps) + 1 /\ Len(ps) \in Nat
        /\ bs[Len(bs)] = b
    BY AppendProperties
  <1> HIDE DEF c
  <1>2. [bs EXCEPT ![Len(bs)] = c] = Append(ps, c)
    <2> DEFINE T == BufferType \cup {c}
    <2>1. ps \in Seq(T) /\ bs \in Seq(T) /\ c \in T /\ Len(bs) \in 1..Len(bs)
      BY <1>1
    <2> HIDE DEF T, bs
    <2>2. /\ [bs EXCEPT ![Len(bs)] = c] \in Seq(T)
          /\ Len([bs EXCEPT ![Len(bs)] = c]) = Len(bs)
          /\ \A i \in 1..Len(bs) :
                [bs EXCEPT ![Len(bs)] = c][i] = IF i = Len(bs) THEN c ELSE bs[i]
      BY <2>1, ExceptSeq
    <2>3. /\ Append(ps, c) \in Seq(T) /\ Len(Append(ps, c)) = Len(bs)
          /\ \A i \in 1..Len(ps) : Append(ps, c)[i] = ps[i]
          /\ Append(ps, c)[Len(bs)] = c
      BY <1>1, <2>1, AppendProperties
    <2>4. \A i \in 1..Len(ps) : bs[i] = ps[i]
      BY AppendProperties DEF bs
    <2>5. ASSUME NEW i \in 1..Len(bs)
          PROVE  [bs EXCEPT ![Len(bs)] = c][i] = Append(ps, c)[i]
      <3>1. i = Len(bs) \/ i \in 1..Len(ps)
        BY <1>1
      <3>2. i \in 1..Len(ps) => i # Len(bs)
        BY <1>1
      <3> QED
        BY <2>2, <2>3, <2>4, <3>1, <3>2
    <2> QED
      BY <2>2, <2>3, <2>5, SeqEqual
  <1> HIDE DEF bs
  <1>3. Len(bs) >= 1
    BY <1>1
  <1>4. Ordered([bs EXCEPT ![Len(bs)] = AppendLine(bs[Len(bs)], hi + 1)],
                lo, hi + 1)
    BY <1>1, <1>3, OrderedAdd DEF bs
  <1> QED
    BY <1>1, <1>2, <1>4 DEF c

LEMMA OrderedAddToNew ==
    ASSUME NEW bs \in Seq(BufferType), NEW b \in BufferType, b.cur = 0,
           NEW lo \in Nat, NEW hi \in Nat, lo <= hi, Ordered(bs, lo, hi)
    PROVE  Ordered(Append(bs, AppendLine(b, hi + 1)), lo, hi + 1)
  <1>1. avail(b) > 1
    BY AsyncLoggingAssumptions DEF AsyncLoggingAssumptions, avail
  <1>2. Ordered(Append(bs, b), lo, hi)
    BY OrderedSnoc
  <1> QED
    BY <1>1, <1>2, OrderedAddToLast

-----------------------------------------------------------------------------
(* The inductive invariant.                                                *)

(* Line i is the i-th of the sequence. *)
Numbered(s) == \A i \in 1..Len(s) : s[i] = i

(* A buffer that waits to be used is empty: reset() was not forgotten. *)
EmptyInv ==
    \A b \in {nextBuffer, newBuffer1, newBuffer2} : b # Null => b.cur = 0

OrderInv ==
    /\ pc = "write" => written <= Len(buffersToWrite)
    /\ Numbered(appended)
    /\ Numbered(flushed)
    /\ Len(flushed) <= Len(appended)
    /\ Ordered(Pending, Len(flushed), Len(appended))

IInv ==
    /\ PoolInv
    /\ TypeOK
    /\ EmptyInv
    /\ OrderInv

(* What is pending before the current buffer. *)
Handed ==
    (IF pc = "write"
     THEN SubSeq(buffersToWrite, written + 1, Len(buffersToWrite))
     ELSE <<>>) \o buffers

LEMMA PendingSplit ==
    ASSUME IInv
    PROVE  /\ Handed \in Seq(BufferType)
           /\ currentBuffer \in BufferType
           /\ Pending = Append(Handed, currentBuffer)
           /\ Pending \in Seq(BufferType)
  <1>1. /\ currentBuffer \in BufferType /\ buffers \in Seq(BufferType)
        /\ buffersToWrite \in Seq(BufferType) /\ written \in Nat
    BY DEF IInv, PoolInv, PoolTypeOK
  <1> DEFINE left == IF pc = "write"
                     THEN SubSeq(buffersToWrite, written + 1,
                                 Len(buffersToWrite))
                     ELSE <<>>
  <1>2. left \in Seq(BufferType)
    <2>1. CASE pc = "write"
      <3>1. written + 1 \in 1..(Len(buffersToWrite) + 1)
        BY <1>1, <2>1 DEF IInv, OrderInv
      <3> QED
        BY <1>1, <2>1, <3>1, SubSeqProperties
    <2>2. CASE pc # "write"
      BY <2>2
    <2> QED
      BY <2>1, <2>2
  <1>3. Handed = left \o buffers /\ Pending = (left \o buffers) \o <<currentBuffer>>
    BY DEF Handed, Pending
  <1> HIDE DEF left
  <1>4. Handed \in Seq(BufferType)
    BY <1>1, <1>2, <1>3, ConcatProperties
  <1>5. Pending = Append(Handed, currentBuffer)
    BY <1>1, <1>3, <1>4
  <1> QED
    BY <1>1, <1>4, <1>5, AppendProperties

-----------------------------------------------------------------------------
(* The steps.                                                              *)

LEMMA SnocConcat ==
    ASSUME NEW S, NEW s \in Seq(S), NEW e \in S
    PROVE  (s \o <<>>) \o <<e>> = Append(s, e)
  OBVIOUS

LEMMA TailConcat ==
    ASSUME NEW S, NEW s \in Seq(S), NEW t \in Seq(S), s # <<>>
    PROVE  s \o t # <<>> /\ Tail(s \o t) = Tail(s) \o t
  <1> DEFINE u == s \o t
             v == Tail(s) \o t
  <1>1. /\ Len(s) \in Nat /\ Len(s) >= 1 /\ Len(t) \in Nat
        /\ Tail(s) \in Seq(S) /\ Len(Tail(s)) = Len(s) - 1
        /\ \A i \in 1..(Len(s) - 1) : Tail(s)[i] = s[i + 1]
    BY HeadTailProperties, EmptySeq
  <1>2. /\ u \in Seq(S) /\ Len(u) = Len(s) + Len(t)
        /\ \A i \in 1..(Len(s) + Len(t)) :
                u[i] = IF i <= Len(s) THEN s[i] ELSE t[i - Len(s)]
    BY ConcatProperties
  <1>3. /\ v \in Seq(S) /\ Len(v) = Len(s) - 1 + Len(t)
        /\ \A i \in 1..(Len(s) - 1 + Len(t)) :
                v[i] = IF i <= Len(s) - 1 THEN Tail(s)[i]
                                          ELSE t[i - (Len(s) - 1)]
    BY <1>1, ConcatProperties
  <1> HIDE DEF u, v
  <1>4. u # <<>>
    BY <1>1, <1>2
  <1>5. /\ Tail(u) \in Seq(S) /\ Len(Tail(u)) = Len(s) - 1 + Len(t)
        /\ \A i \in 1..(Len(s) - 1 + Len(t)) : Tail(u)[i] = u[i + 1]
    BY <1>1, <1>2, <1>4, HeadTailProperties
  <1>6. ASSUME NEW i \in 1..(Len(s) - 1 + Len(t))
        PROVE  Tail(u)[i] = v[i]
    <2>1. i + 1 \in 1..(Len(s) + Len(t)) /\ (i + 1) - Len(s) = i - (Len(s) - 1)
      BY <1>1
    <2>2. CASE i <= Len(s) - 1
      BY <1>1, <1>2, <1>3, <1>5, <2>1, <2>2
    <2>3. CASE ~(i <= Len(s) - 1)
      BY <1>1, <1>2, <1>3, <1>5, <2>1, <2>3
    <2> QED
      BY <2>2, <2>3
  <1>7. Tail(u) = v
    BY <1>3, <1>5, <1>6, SeqEqual
  <1> QED
    BY <1>4, <1>7 DEF u, v

LEMMA MinOfTwo ==
    ASSUME NEW a \in Nat, NEW b \in Nat
    PROVE  Min({a, b}) \in Nat /\ Min({a, b}) <= a
  <1>1. \E x \in {a, b} : \A y \in {a, b} : x =< y
    OBVIOUS
  <1> QED
    BY <1>1 DEF Min

(* Counting what a buffer brings stays within MaxCopies. *)
LEMMA CopiesType ==
    ASSUME copies \in [Lines \cup {Junk} -> 0..MaxCopies], NEW b
    PROVE  AddContents(b) \in [Lines \cup {Junk} -> 0..MaxCopies]
  <1>1. Slots \in Nat /\ MaxCopies \in Nat
    BY AsyncLoggingAssumptions DEF AsyncLoggingAssumptions, MaxCopies
  <1>2. ASSUME NEW x \in Lines \cup {Junk}
        PROVE  Min({MaxCopies, copies[x] + SlotsWith(b, x)}) \in 0..MaxCopies
    <2>1. IsFiniteSet(1..Slots)
      BY <1>1, FS_Interval
    <2>2. IsFiniteSet({i \in 1..Slots : b.data[i] = x})
      BY <2>1, FS_Subset
    <2>3. SlotsWith(b, x) \in Nat
      BY <2>2, FS_CardinalityType DEF SlotsWith
    <2>4. copies[x] + SlotsWith(b, x) \in Nat
      BY <1>1, <2>3
    <2> QED
      BY <1>1, <2>4, MinOfTwo
  <1> QED
    BY <1>2 DEF AddContents

(* A step that leaves the pending lines and the histories alone. *)
LEMMA OrderFrame ==
    ASSUME IInv, Pending' = Pending, UNCHANGED <<appended, flushed>>,
           pc' = "write" => written' <= Len(buffersToWrite')
    PROVE  OrderInv'
  BY DEF IInv, OrderInv, Numbered

LEMMA IInvInit == Init => IInv
  <1> SUFFICES ASSUME Init PROVE IInv
    OBVIOUS
  <1>1. PoolInv
    BY PoolInit
  <1>2. TypeOK
    BY <1>1 DEF Init, TypeOK, PoolInv, MaxCopies
  <1>3. EmptyInv
    BY DEF Init, EmptyInv, NewBuffer
  <1>4. Pending = <<NewBuffer(Blank)>>
    BY DEF Init, Pending
  <1>5. Ordered(Pending, 0, 0)
    BY <1>4 DEF Ordered, Consecutive, NewBuffer
  <1>6. OrderInv
    BY <1>5 DEF Init, OrderInv, Numbered
  <1> QED
    BY <1>1, <1>2, <1>3, <1>6 DEF IInv

LEMMA StepLog ==
    ASSUME IInv, NEW line \in Lines, Log(line)
    PROVE  IInv'
  <1> DEFINE lo == Len(flushed)
             hi == Len(appended)
  <1>1. /\ appended \in Seq(Lines) /\ flushed \in Seq(Lines \cup {Blank, Junk})
        /\ lo \in Nat /\ hi \in Nat /\ lo <= hi /\ line = hi + 1
        /\ Ordered(Pending, lo, hi)
    BY DEF IInv, TypeOK, OrderInv, Log
  <1>2. PoolInv'
    BY PoolLog DEF IInv
  <1>3. /\ UNCHANGED <<buffersToWrite, written, pc, copies, flushed>>
        /\ appended' = Append(appended, line)
        /\ UNCHANGED <<newBuffer1, newBuffer2>>
    BY DEF Log, back
  <1>4. /\ appended' \in Seq(Lines) /\ Len(appended') = hi + 1
        /\ Numbered(appended')
    BY <1>1, <1>3 DEF IInv, OrderInv, Numbered
  <1>5. TypeOK'
    BY <1>2, <1>3, <1>4 DEF IInv, TypeOK, PoolInv
  <1>6. nextBuffer' = nextBuffer \/ nextBuffer' = Null
    BY DEF Log, AppendFits, TakeNext, Allocate
  <1>7. EmptyInv'
    BY <1>3, <1>6 DEF IInv, EmptyInv
  <1>8. /\ Handed \in Seq(BufferType) /\ currentBuffer \in BufferType
        /\ Pending = Append(Handed, currentBuffer)
        /\ Pending \in Seq(BufferType)
    BY PendingSplit
  <1> DEFINE left == IF pc = "write"
                     THEN SubSeq(buffersToWrite, written + 1,
                                 Len(buffersToWrite))
                     ELSE <<>>
  <1>9. /\ left \in Seq(BufferType) /\ buffers \in Seq(BufferType)
        /\ Handed = left \o buffers
        /\ Pending' = (left \o buffers') \o <<currentBuffer'>>
    <2>1. left \in Seq(BufferType)
      <3>1. buffersToWrite \in Seq(BufferType) /\ written \in Nat
        BY DEF IInv, PoolInv, PoolTypeOK
      <3>2. CASE pc = "write"
        <4>1. written + 1 \in 1..(Len(buffersToWrite) + 1)
          BY <3>1, <3>2 DEF IInv, OrderInv
        <4> QED
          BY <3>1, <3>2, <4>1, SubSeqProperties
      <3>3. CASE pc # "write"
        BY <3>3
      <3> QED
        BY <3>2, <3>3
    <2>2. Pending' = (left \o buffers') \o <<currentBuffer'>>
      BY <1>3 DEF Pending
    <2> QED
      BY <2>1, <2>2 DEF Handed, IInv, PoolInv, PoolTypeOK
  <1> HIDE DEF left, lo, hi
  <1>10. Ordered(Pending', lo, hi + 1)
    <2>1. CASE AppendFits(line)
      <3>1. /\ avail(currentBuffer) > 1 /\ buffers' = buffers
            /\ currentBuffer' = AppendLine(currentBuffer, hi + 1)
        BY <1>1, <2>1 DEF AppendFits
      <3>2. Pending' = Append(Handed, AppendLine(currentBuffer, hi + 1))
        BY <1>8, <1>9, <3>1
      <3> QED
        BY <1>1, <1>8, <3>1, <3>2, OrderedAddToLast
    <2>2. CASE TakeNext(line) \/ Allocate(line)
      <3>1. PICK b \in BufferType :
                /\ b.cur = 0
                /\ buffers' = Append(buffers, currentBuffer)
                /\ currentBuffer' = AppendLine(b, hi + 1)
        <4>1. CASE TakeNext(line)
          <5>1. nextBuffer \in BufferType /\ nextBuffer.cur = 0
            BY <4>1 DEF TakeNext, IInv, EmptyInv, PoolInv, PoolTypeOK
          <5> QED
            BY <1>1, <4>1, <5>1 DEF TakeNext
        <4>2. CASE Allocate(line)
          <5>1. PICK fill \in {Blank, Junk} :
                    currentBuffer' = AppendLine(NewBuffer(fill), line)
            BY <4>2 DEF Allocate
          <5>2. NewBuffer(fill) \in BufferType /\ NewBuffer(fill).cur = 0
            BY BufferOps DEF NewBuffer
          <5> QED
            BY <1>1, <4>2, <5>1, <5>2 DEF Allocate
        <4> QED
          BY <2>2, <4>1, <4>2
      <3>2. left \o Append(buffers, currentBuffer) = Append(Handed, currentBuffer)
        BY <1>8, <1>9
      <3>3. Pending' = Append(Pending, AppendLine(b, hi + 1))
        BY <1>8, <1>9, <3>1, <3>2
      <3> QED
        BY <1>1, <1>8, <3>1, <3>3, OrderedAddToNew
    <2> QED
      BY <2>1, <2>2 DEF Log
  <1>11. OrderInv'
    <2>1. Len(flushed') = lo /\ Len(appended') = hi + 1 /\ lo <= hi + 1
      BY <1>1, <1>3, <1>4 DEF lo, hi
    <2>2. Numbered(flushed') /\ (pc' = "write" => written' <= Len(buffersToWrite'))
      BY <1>3 DEF IInv, OrderInv
    <2> QED
      BY <1>4, <1>10, <2>1, <2>2 DEF OrderInv
  <1> QED
    BY <1>2, <1>5, <1>7, <1>11 DEF IInv

(* The swap: all that was pending is now in front of an empty buffer. *)
LEMMA StepCollect ==
    ASSUME IInv, Collect
    PROVE  IInv'
  <1>1. PoolInv'
    BY PoolCollect DEF IInv
  <1>2. /\ pc # "write" /\ pc' = "write" /\ written' = 0
        /\ UNCHANGED <<copies, appended, flushed>>
    BY DEF Collect
  <1>3. TypeOK'
    BY <1>1, <1>2 DEF IInv, TypeOK, PoolInv
  <1>4. EmptyInv'
    BY DEF IInv, EmptyInv, Collect
  <1>5. /\ buffersToWrite = <<>> /\ newBuffer1 \in BufferType
        /\ newBuffer1.cur = 0
        /\ buffers \in Seq(BufferType) /\ currentBuffer \in BufferType
    BY DEF IInv, PoolInv, PoolTypeOK, ToWriteInv, EmptyInv, Collect
  <1>6. Pending = Append(buffers, currentBuffer)
    BY <1>2, <1>5 DEF Pending
  <1>7. Pending \in Seq(BufferType)
    BY PendingSplit
  <1>8. Pending' = Append(Pending, newBuffer1)
    <2>1. /\ buffersToWrite' = Pending /\ buffers' = <<>>
          /\ currentBuffer' = newBuffer1
      BY <1>5, <1>6 DEF Collect
    <2>2. SubSeq(Pending, 0 + 1, Len(Pending)) = Pending
      BY <1>7, SubSeqFull
    <2>3. Pending' = (SubSeq(Pending, 0 + 1, Len(Pending)) \o <<>>)
                        \o <<newBuffer1>>
      BY <1>2, <2>1 DEF Pending
    <2>4. (Pending \o <<>>) \o <<newBuffer1>> = Append(Pending, newBuffer1)
      BY <1>5, <1>7, SnocConcat
    <2> QED
      BY <2>2, <2>3, <2>4
  <1>9. Ordered(Pending', Len(flushed'), Len(appended'))
    <2>1. Len(flushed) \in Nat /\ Len(appended) \in Nat
      BY DEF IInv, TypeOK
    <2> QED
      BY <1>2, <1>5, <1>7, <1>8, <2>1, OrderedSnoc DEF IInv, OrderInv
  <1>10. written' <= Len(buffersToWrite')
    BY <1>1, <1>2 DEF PoolInv, PoolTypeOK
  <1> QED
    BY <1>1, <1>2, <1>3, <1>4, <1>9, <1>10 DEF IInv, OrderInv, Numbered

(* A buffer is written: its filled part is what follows the lines that     *)
(* were written before.                                                    *)
LEMMA StepWrite ==
    ASSUME IInv, Write
    PROVE  IInv'
  <1> DEFINE b == buffersToWrite[written + 1]
             lo == Len(flushed)
             hi == Len(appended)
             w == Len(buffersToWrite)
  <1>1. PoolInv'
    BY PoolRest DEF IInv
  <1>2. /\ pc = "write" /\ written < w /\ written' = written + 1
        /\ flushed' = flushed \o Filled(b) /\ copies' = AddContents(b)
        /\ UNCHANGED <<currentBuffer, nextBuffer, buffers, newBuffer1,
                       newBuffer2, buffersToWrite, pc, appended>>
    BY DEF Write, front
  <1>3. /\ written \in Nat /\ w \in Nat
        /\ buffersToWrite \in Seq(BufferType)
        /\ written + 1 \in 1..w
        /\ buffers \in Seq(BufferType) /\ currentBuffer \in BufferType
    BY <1>2 DEF IInv, PoolInv, PoolTypeOK
  <1>4. b \in BufferType /\ b.cur \in Nat /\ b.cur <= Slots /\ Slots \in Nat
    <2>1. b \in BufferType /\ Slots \in Nat
      BY <1>3, AsyncLoggingAssumptions DEF AsyncLoggingAssumptions
    <2> HIDE DEF b
    <2>2. b.cur \in 0..Slots
      BY <2>1 DEF BufferType
    <2> QED
      BY <2>1, <2>2
  <1> DEFINE left == SubSeq(buffersToWrite, written + 1, w)
             rest == SubSeq(buffersToWrite, (written + 1) + 1, w)
  <1>5. /\ Pending = (left \o buffers) \o <<currentBuffer>>
        /\ Pending' = (rest \o buffers) \o <<currentBuffer>>
    BY <1>2 DEF Pending
  <1>6. /\ left \in Seq(BufferType) /\ left # <<>>
        /\ left[1] = b /\ Tail(left) = rest /\ rest \in Seq(BufferType)
    <2>1. /\ left \in Seq(BufferType) /\ Len(left) = w - written
          /\ \A i \in 1..(w - written) : left[i] = buffersToWrite[written + i]
      BY <1>3, SubSeqProperties
    <2>2. /\ rest \in Seq(BufferType) /\ Len(rest) = w - written - 1
          /\ \A i \in 1..(w - written - 1) :
                rest[i] = buffersToWrite[(written + 1) + i]
      BY <1>3, SubSeqProperties
    <2> HIDE DEF left, rest
    <2>3. left # <<>>
      BY <1>3, <2>1
    <2>4. /\ Tail(left) \in Seq(BufferType) /\ Len(Tail(left)) = Len(rest)
          /\ \A i \in 1..Len(Tail(left)) : Tail(left)[i] = left[i + 1]
      BY <1>3, <2>1, <2>2, <2>3, HeadTailProperties
    <2>5. \A i \in 1..Len(Tail(left)) : Tail(left)[i] = rest[i]
      BY <1>3, <2>1, <2>2, <2>4
    <2>6. Tail(left) = rest
      BY <2>2, <2>4, <2>5, SeqEqual
    <2>7. left[1] = b
      BY <1>3, <2>1
    <2> QED
      BY <2>1, <2>2, <2>3, <2>6, <2>7
  <1> HIDE DEF left, rest
  <1>7. Pending \in Seq(BufferType) /\ Pending # <<>> /\ Pending[1] = b
    <2>1. Pending \in Seq(BufferType)
      BY PendingSplit
    <2> QED
      BY <1>3, <1>5, <1>6, <2>1
  <1>8. Pending' = Tail(Pending)
    <2>1. left \o buffers \in Seq(BufferType) /\ left \o buffers # <<>>
            /\ Tail(left \o buffers) = rest \o buffers
      BY <1>3, <1>6, TailConcat, ConcatProperties
    <2>2. Tail((left \o buffers) \o <<currentBuffer>>)
            = Tail(left \o buffers) \o <<currentBuffer>>
      <3>1. <<currentBuffer>> \in Seq(BufferType)
        BY <1>3
      <3> QED
        BY <2>1, <3>1, TailConcat
    <2> QED
      BY <1>5, <2>1, <2>2
  <1>9. /\ lo \in Nat /\ hi \in Nat /\ lo <= hi /\ Ordered(Pending, lo, hi)
        /\ flushed \in Seq(Lines \cup {Blank, Junk})
    BY DEF IInv, OrderInv, TypeOK
  <1>10. /\ \A i \in 1..b.cur : b.data[i] = lo + i
         /\ lo + b.cur <= hi
         /\ Ordered(Pending', lo + b.cur, hi)
    <2> HIDE DEF b, lo, hi
    <2> QED
      BY <1>7, <1>8, <1>9, OrderedTail
  <1>11. /\ Filled(b) \in Seq(Lines \cup {Blank, Junk})
         /\ Len(Filled(b)) = b.cur
         /\ \A i \in 1..b.cur : Filled(b)[i] = b.data[i]
    BY <1>4 DEF Filled, BufferType
  <1> HIDE DEF b
  <1>12. /\ flushed' \in Seq(Lines \cup {Blank, Junk})
         /\ Len(flushed') = lo + b.cur
         /\ \A i \in 1..(lo + b.cur) :
                flushed'[i] = IF i <= lo THEN flushed[i] ELSE Filled(b)[i - lo]
    BY <1>2, <1>9, <1>11, ConcatProperties, SMTT(30)
  <1>13. Numbered(flushed')
    <2>1. ASSUME NEW i \in 1..(lo + b.cur) PROVE flushed'[i] = i
      <3>1. CASE i <= lo
        <4>1. i \in 1..Len(flushed)
          BY <1>9, <3>1
        <4> QED
          BY <1>12, <3>1, <4>1 DEF IInv, OrderInv, Numbered
      <3>2. CASE ~(i <= lo)
        <4>1. i - lo \in 1..b.cur
          BY <1>4, <1>9, <3>2
        <4>2. flushed'[i] = lo + (i - lo)
          BY <1>10, <1>11, <1>12, <3>2, <4>1
        <4>3. lo \in Int /\ i \in Int
          BY <1>4, <1>9
        <4> QED
          BY <4>2, <4>3
      <3> QED
        BY <3>1, <3>2
    <2> QED
      BY <1>12, <2>1 DEF Numbered
  <1>14. TypeOK'
    BY <1>1, <1>2, <1>12, CopiesType DEF IInv, TypeOK, PoolInv
  <1>15. EmptyInv'
    BY <1>2 DEF IInv, EmptyInv
  <1>16. OrderInv'
    <2>1. Numbered(appended') /\ written' <= Len(buffersToWrite')
      BY <1>2, <1>3 DEF IInv, OrderInv
    <2>2. Len(appended') = hi
      BY <1>2
    <2> QED
      BY <1>10, <1>12, <1>13, <2>1, <2>2 DEF OrderInv
  <1> QED
    BY <1>1, <1>14, <1>15, <1>16 DEF IInv

LEMMA StepGiveBack ==
    ASSUME IInv, GiveBack
    PROVE  IInv'
  <1>1. PoolInv'
    BY PoolGiveBack DEF IInv
  <1>2. /\ pc = "giveBack" /\ pc' = "test"
        /\ UNCHANGED <<currentBuffer, nextBuffer, buffers, copies, appended,
                       flushed>>
    BY DEF GiveBack, front
  <1>3. TypeOK'
    BY <1>1, <1>2 DEF IInv, TypeOK, PoolInv
  <1>4. ASSUME NEW b \in BufferType PROVE reset(b).cur = 0
    BY DEF reset, BufferType
  <1>5. EmptyInv'
    <2>1. newBuffer1 = Null => newBuffer1' = reset(Last(buffersToWrite))
      BY DEF GiveBack
    <2>2. newBuffer1 # Null => newBuffer1' = newBuffer1
      BY DEF GiveBack
    <2>3. newBuffer2 # Null => newBuffer2' = newBuffer2
      BY DEF GiveBack
    <2>4. newBuffer2 = Null =>
            newBuffer2' \in {reset(Last(buffersToWrite)),
                             reset(Last(Front(buffersToWrite)))}
      BY DEF GiveBack
    <2>5. /\ Last(buffersToWrite) \in BufferType
          /\ newBuffer2 = Null => Last(Front(buffersToWrite)) \in BufferType
      <3> DEFINE n == Len(buffersToWrite)
      <3>1. /\ buffersToWrite \in Seq(BufferType) /\ n \in Nat /\ n >= 1
            /\ newBuffer2 = Null => n >= 2
        BY <1>2 DEF IInv, PoolInv, PoolTypeOK, ToWriteInv
      <3>2. Last(buffersToWrite) \in BufferType
        BY <3>1 DEF Last
      <3>3. ASSUME n >= 2 PROVE Last(Front(buffersToWrite)) \in BufferType
        <4>1. Front(buffersToWrite) \in Seq(BufferType)
                /\ Len(Front(buffersToWrite)) = n - 1
          BY <3>1, <3>3 DEF Front
        <4> QED
          BY <3>1, <3>3, <4>1 DEF Last
      <3> QED
        BY <3>1, <3>2, <3>3
    <2>6. newBuffer1' # Null => newBuffer1'.cur = 0
      BY <1>4, <2>1, <2>2, <2>5 DEF IInv, EmptyInv
    <2>7. newBuffer2' # Null => newBuffer2'.cur = 0
      BY <1>4, <2>3, <2>4, <2>5 DEF IInv, EmptyInv
    <2> QED
      BY <1>2, <2>6, <2>7 DEF IInv, EmptyInv
  <1>6. OrderInv'
    <2>1. Pending' = Pending
      BY <1>2 DEF Pending
    <2> QED
      BY <1>2, <2>1, OrderFrame
  <1> QED
    BY <1>1, <1>3, <1>5, <1>6 DEF IInv

(* The other steps leave the pending lines alone. *)
LEMMA StepRest ==
    ASSUME IInv,
           \/ Start \/ Stop \/ TestRunning \/ Wait \/ WriteDone
           \/ UNCHANGED vars
    PROVE  IInv'
  <1>1. PoolInv'
    BY PoolRest DEF IInv
  <1>2. UNCHANGED <<currentBuffer, nextBuffer, buffers, newBuffer1, newBuffer2,
                    written, copies, appended, flushed>>
    BY DEF Start, Stop, TestRunning, Wait, WriteDone, vars, front, back
  <1>3. TypeOK'
    BY <1>1, <1>2 DEF IInv, TypeOK, PoolInv
  <1>4. EmptyInv'
    BY <1>2 DEF IInv, EmptyInv
  <1>5. CASE WriteDone
    <2>1. /\ pc = "write" /\ pc' = "giveBack"
          /\ written = Len(buffersToWrite)
      BY <1>5 DEF WriteDone
    <2>2. buffersToWrite \in Seq(BufferType) /\ Len(buffersToWrite) \in Nat
      BY DEF IInv, PoolInv, PoolTypeOK
    <2>3. SubSeq(buffersToWrite, written + 1, Len(buffersToWrite)) = <<>>
      BY <2>1, <2>2, SubSeqEmpty
    <2>4. Pending' = Pending
      BY <1>2, <2>1, <2>3 DEF Pending
    <2>5. OrderInv'
      BY <1>2, <2>1, <2>4, OrderFrame
    <2> QED
      BY <1>1, <1>3, <1>4, <2>5 DEF IInv
  <1>6. CASE ~WriteDone
    <2>1. /\ buffersToWrite' = buffersToWrite
          /\ pc = "write" <=> pc' = "write"
      BY <1>6 DEF Start, Stop, TestRunning, Wait, vars, back
    <2>2. Pending' = Pending
      BY <1>2, <2>1 DEF Pending
    <2>3. pc' = "write" => written' <= Len(buffersToWrite')
      BY <1>2, <2>1 DEF IInv, OrderInv
    <2>4. OrderInv'
      BY <1>2, <2>2, <2>3, OrderFrame
    <2> QED
      BY <1>1, <1>3, <1>4, <2>4 DEF IInv
  <1> QED
    BY <1>5, <1>6

LEMMA IInvCorrect == Spec => []IInv
  <1>1. IInv /\ [Next]_vars => IInv'
    BY StepLog, StepCollect, StepWrite, StepGiveBack, StepRest
       DEF Next, BackEnd, Terminated
  <1> QED
    BY IInvInit, <1>1, PTL DEF Spec

-----------------------------------------------------------------------------
(* The theorems.                                                           *)

(* The buffers, the vectors and the histories keep their types: only lines *)
(* of append, and what bzero or new leaves, are ever in a buffer.          *)
THEOREM TypeCorrect == Spec => []TypeOK
  <1>1. IInv => TypeOK
    BY DEF IInv
  <1> QED
    BY <1>1, IInvCorrect, PTL

(* The pool of buffers never runs dry: no null buffer is written to by     *)
(* append, and threadFunc never takes back() of an empty vector.           *)
THEOREM PoolNeverDry == Spec => []BuffersSuffice
  <1>1. PoolInv => BuffersSuffice
    BY DEF PoolInv, PoolTypeOK, ToWriteInv, BuffersSuffice
  <1> QED
    BY PoolInit, PoolNext, <1>1, PTL DEF Spec

(* append and threadFunc lose, repeat and reorder no line on its way       *)
(* through the buffers and vectors they swap.                              *)
THEOREM LinesStayInOrder == Spec => []WritesInOrder
  <1>1. IInv => WritesInOrder
    <2> SUFFICES ASSUME IInv PROVE WritesInOrder
      OBVIOUS
    <2> DEFINE lo == Len(flushed)
               hi == Len(appended)
               bs == Pending
    <2>1. /\ bs \in Seq(BufferType) /\ lo \in Nat /\ hi \in Nat /\ lo <= hi
          /\ Ordered(bs, lo, hi) /\ Numbered(flushed) /\ Numbered(appended)
          /\ appended \in Seq(Lines)
          /\ flushed \in Seq(Lines \cup {Blank, Junk})
      BY PendingSplit DEF IInv, OrderInv, TypeOK
    <2>2. IsPrefix(flushed, appended)
      <3> DEFINE T == Lines \cup {Blank, Junk}
      <3>1. appended \in Seq(T) /\ flushed \in Seq(T)
        BY <2>1
      <3> HIDE DEF T
      <3>2. SubSeq(flushed, 1, lo) = flushed
        BY <3>1, SubSeqFull
      <3>3. /\ SubSeq(appended, 1, lo) \in Seq(T)
            /\ Len(SubSeq(appended, 1, lo)) = lo
            /\ \A i \in 1..lo : SubSeq(appended, 1, lo)[i] = appended[i]
        BY <2>1, <3>1, SubSeqProperties
      <3>4. \A i \in 1..lo : SubSeq(appended, 1, lo)[i] = flushed[i]
        BY <2>1, <3>3 DEF Numbered
      <3>5. SubSeq(appended, 1, lo) = flushed
        BY <3>1, <3>3, <3>4, SeqEqual
      <3> QED
        BY <2>1, <3>2, <3>5 DEF IsPrefix
    <2>3. ASSUME NEW p \in PlacesIn(bs)
          PROVE  /\ p[1] \in 1..Len(bs) /\ p[2] \in 1..bs[p[1]].cur
                 /\ bs[p[1]].cur \in Nat
      <3>1. p[1] \in 1..Len(bs) /\ p[2] \in 1..Slots /\ p[2] <= bs[p[1]].cur
        BY DEF PlacesIn
      <3>2. bs[p[1]].cur \in Nat /\ Slots \in Nat
        BY <2>1, <3>1, OrderedInterval
      <3> QED
        BY <3>1, <3>2
    <2>4. {appended[i] : i \in (lo + 1)..hi} = (lo + 1)..hi
      BY <2>1 DEF Numbered
    <2>5. {LineAt(bs, p) : p \in PlacesIn(bs)} = (lo + 1)..hi
      <3>1. ASSUME NEW p \in PlacesIn(bs) PROVE LineAt(bs, p) \in (lo + 1)..hi
        BY <2>1, <2>3 DEF Ordered, LineAt
      <3>2. ASSUME NEW n \in (lo + 1)..hi
            PROVE  \E p \in PlacesIn(bs) : LineAt(bs, p) = n
        <4>1. PICK k \in 1..Len(bs) : \E i \in 1..bs[k].cur : bs[k].data[i] = n
          BY <2>1 DEF Ordered
        <4>2. PICK i \in 1..bs[k].cur : bs[k].data[i] = n
          BY <4>1
        <4>3. bs[k].cur \in Nat /\ bs[k].cur <= Slots /\ Slots \in Nat
          BY <2>1, OrderedInterval
        <4>4. i \in 1..Slots /\ i <= bs[k].cur
          BY <4>3
        <4>5. <<k, i>> \in PlacesIn(bs) /\ LineAt(bs, <<k, i>>) = n
          BY <4>2, <4>4 DEF PlacesIn, LineAt
        <4> QED
          BY <4>5
      <3> QED
        BY <3>1, <3>2
    <2>6. ASSUME NEW p \in PlacesIn(bs), NEW q \in PlacesIn(bs), Before(p, q)
          PROVE  LineAt(bs, p) < LineAt(bs, q)
      <3>1. CASE p[1] < q[1]
        BY <2>1, <2>3, <3>1 DEF Ordered, LineAt
      <3>2. CASE p[1] = q[1] /\ p[2] < q[2]
        <4>1. PICK k \in 1..Len(bs) : k = p[1] /\ k = q[1]
          BY <2>3, <3>2
        <4>2. Consecutive(bs[k]) /\ \A i \in 1..bs[k].cur : bs[k].data[i] \in Nat
          BY <2>1, OrderedInterval DEF Ordered
        <4>3. PICK i \in 1..bs[k].cur, j \in 1..bs[k].cur :
                    i = p[2] /\ j = q[2] /\ i < j
          BY <2>3, <3>2, <4>1
        <4>4. bs[k].cur \in Nat /\ 1 \in 1..bs[k].cur
          BY <2>3, <4>1, <4>3
        <4>5. /\ bs[k].data[i] = bs[k].data[1] + (i - 1)
              /\ bs[k].data[j] = bs[k].data[1] + (j - 1)
              /\ bs[k].data[1] \in Nat
          BY <4>2, <4>4 DEF Consecutive
        <4>6. bs[k].data[i] < bs[k].data[j]
          BY <4>3, <4>4, <4>5
        <4> QED
          BY <4>1, <4>3, <4>6 DEF LineAt
      <3> QED
        BY <2>6, <3>1, <3>2 DEF Before
    <2> QED
      BY <2>2, <2>4, <2>5, <2>6 DEF WritesInOrder
  <1> QED
    BY <1>1, IInvCorrect, PTL
=============================================================================
