---------------------------- MODULE LoggerProofs ----------------------------
(***************************************************************************)
(* Proofs about modules Logger, LogFile and LogStream, for any statements, *)
(* any length of a line, any size of the buffers, any way fwrite and stdio *)
(* cut them or fail, and any rolling parameters.                           *)
(***************************************************************************)
EXTENDS Logger, TLAPS, SequenceTheorems, WellFoundedInduction

Bytes == (Nat \X Nat) \cup {Lost}

(* What was logged is what was made of the statement it came from. *)
LineType ==
    {[from |-> s, text |-> LineOf[s], to |-> output] :
        s \in Statements, output \in {"stdout", "async"}}

StreamTypeOK ==
    /\ g_output \in {"stdout", "async"} /\ logged \in Seq(LineType)
    /\ sent \in Seq(Nat) /\ pending \in Seq(Nat) /\ batch \in Seq(Nat)
    /\ disk \in Seq(Bytes) /\ fp \in Seq(Bytes) /\ rest \in Seq(Bytes)
    /\ appending \in BOOLEAN /\ aborted \in BOOLEAN

(* Nothing is left of an append that is over, nor of a round; the back end *)
(* has whole buffers to write.                                             *)
IdleInv ==
    /\ ~appending => rest = <<>>
    /\ backEnd # "write" => batch = <<>>
    /\ Len(batch) % Slots = 0

LogTypeOK ==
    /\ now \in Nat
    /\ log \in [count : Nat, startOfPeriod : Int, lastRoll : Nat,
                lastFlush : Nat, writtenBytes : Nat, late : Nat,
                lastAppend : Nat]

(* The clock does not go back, so a day that is over stays over; each late *)
(* append has been counted since the last check.                           *)
RollInv ==
    /\ log.lastRoll <= now
    /\ log.startOfPeriod = PeriodOf(log.lastRoll)
    /\ log.late <= log.count /\ log.count < checkEveryN
    /\ log.late > 0 => log.startOfPeriod < PeriodOf(now)

IInv ==
    /\ StreamTypeOK
    /\ IdleInv
    /\ DiskIsPrefix
    /\ LogTypeOK
    /\ RollInv
    /\ RolledInTime

-----------------------------------------------------------------------------
(* Division.                                                               *)

LEMMA DivMod ==
    ASSUME NEW a \in Nat, NEW L \in Nat \ {0}
    PROVE  /\ a \div L \in Nat /\ a % L \in 0..(L - 1)
           /\ a % L = a - L * (a \div L)
  OBVIOUS

LEMMA DivModOf ==
    ASSUME NEW m \in Nat, NEW L \in Nat \ {0}, NEW k \in 0..(L - 1)
    PROVE  (L * m + k) \div L = m /\ (L * m + k) % L = k
  OBVIOUS

LEMMA DivShift ==
    ASSUME NEW a \in Nat, NEW j \in Nat, NEW L \in Nat \ {0}
    PROVE  (L * j + a) \div L = j + (a \div L) /\ (L * j + a) % L = a % L
  <1>1. PICK m \in Nat : m = a \div L
    BY DivMod
  <1>2. PICK k \in 0..(L - 1) : k = a % L
    BY DivMod
  <1>3. k = a - L * m
    BY <1>1, <1>2, DivMod
  <1>4. L * j + a = L * (j + m) + k
    <2>1. L * (j + m) = L * j + L * m /\ L * m \in Int /\ L * j \in Int
      OBVIOUS
    <2> QED
      BY <1>3, <2>1
  <1>5. (L * j + a) \div L = j + m /\ (L * j + a) % L = k
    <2>1. PICK i \in Nat : i = j + m
      OBVIOUS
    <2>2. (L * i + k) \div L = i /\ (L * i + k) % L = k
      BY DivModOf
    <2> QED
      BY <1>4, <2>1, <2>2
  <1> QED
    BY <1>1, <1>2, <1>5

LEMMA DivBelow ==
    ASSUME NEW n \in Nat, NEW L \in Nat \ {0}, NEW a \in 0..(L * n - 1)
    PROVE  (a \div L) \in 0..(n - 1)
  <1>1. PICK m \in Nat : m = a \div L
    BY DivMod
  <1>2. L * m <= a
    BY <1>1, DivMod
  <1>3. m < n
    <2> SUFFICES ASSUME m >= n PROVE FALSE
      OBVIOUS
    <2>1. L * m >= L * n
      OBVIOUS
    <2> QED
      BY <1>2, <2>1
  <1> QED
    BY <1>1, <1>3

LEMMA DivMonotone ==
    ASSUME NEW a \in Nat, NEW b \in Nat, a <= b, NEW L \in Nat \ {0}
    PROVE  (a \div L) * L <= (b \div L) * L
  <1>1. (a \div L) <= (b \div L) /\ a \div L \in Nat /\ b \div L \in Nat
    OBVIOUS
  <1> QED
    BY <1>1

-----------------------------------------------------------------------------
(* The bytes of lines.                                                     *)

LEMMA BytesSeq ==
    ASSUME NEW s \in Seq(Nat)
    PROVE  /\ BytesOf(s) \in Seq(Bytes)
           /\ LineLen * Len(s) \in Nat
           /\ Len(BytesOf(s)) = LineLen * Len(s)
           /\ \A b \in 1..(LineLen * Len(s)) :
                /\ ((b - 1) \div LineLen) + 1 \in 1..Len(s)
                /\ BytesOf(s)[b] = <<s[((b - 1) \div LineLen) + 1],
                                     ((b - 1) % LineLen) + 1>>
  <1>1. LineLen \in Nat \ {0} /\ Len(s) \in Nat
    BY LoggerAssumptions DEF LoggerAssumptions
  <1>2. LineLen * Len(s) \in Nat
    BY <1>1
  <1>3. PICK n \in Nat : n = LineLen * Len(s)
    BY <1>2
  <1>4. ASSUME NEW b \in 1..n
        PROVE  /\ ((b - 1) \div LineLen) + 1 \in 1..Len(s)
               /\ ((b - 1) % LineLen) + 1 \in Nat
    <2>1. b - 1 \in 0..(LineLen * Len(s) - 1) /\ b - 1 \in Nat
      BY <1>3
    <2>2. ((b - 1) \div LineLen) \in 0..(Len(s) - 1)
      BY <1>1, <2>1, DivBelow
    <2>3. (b - 1) % LineLen \in 0..(LineLen - 1)
      BY <1>1, <2>1, DivMod
    <2> QED
      BY <1>1, <2>2, <2>3
  <1>5. \A b \in 1..n :
            <<s[((b - 1) \div LineLen) + 1], ((b - 1) % LineLen) + 1>> \in Bytes
    BY <1>4 DEF Bytes
  <1>6. BytesOf(s) = [b \in 1..n |-> <<s[((b - 1) \div LineLen) + 1],
                                      ((b - 1) % LineLen) + 1>>]
    BY <1>3 DEF BytesOf
  <1>7. BytesOf(s) \in Seq(Bytes) /\ Len(BytesOf(s)) = n
    BY <1>5, <1>6
  <1> QED
    BY <1>2, <1>3, <1>4, <1>6, <1>7

LEMMA BytesNone ==
    BytesOf(<<>>) = <<>>
  <1>1. <<>> \in Seq(Nat) /\ Len(<<>>) = 0
    OBVIOUS
  <1>2. LineLen * 0 = 0
    BY LoggerAssumptions DEF LoggerAssumptions
  <1>3. Len(BytesOf(<<>>)) = 0 /\ BytesOf(<<>>) \in Seq(Bytes)
    <2>1. PICK s \in Seq(Nat) : s = <<>> /\ Len(s) = 0
      BY <1>1
    <2>2. Len(BytesOf(s)) = LineLen * Len(s) /\ BytesOf(s) \in Seq(Bytes)
      BY BytesSeq
    <2> QED
      BY <1>2, <2>1, <2>2
  <1> QED
    BY <1>3, EmptySeq

LEMMA BytesJoin ==
    ASSUME NEW s \in Seq(Nat), NEW t \in Seq(Nat)
    PROVE  BytesOf(s \o t) = BytesOf(s) \o BytesOf(t)
  <1> DEFINE a == s \o t
             u == BytesOf(a)
             v == BytesOf(s) \o BytesOf(t)
  <1>1. /\ a \in Seq(Nat) /\ Len(a) = Len(s) + Len(t)
        /\ Len(s) \in Nat /\ Len(t) \in Nat
        /\ \A j \in 1..Len(s) : a[j] = s[j]
        /\ \A j \in 1..Len(t) : a[Len(s) + j] = t[j]
    BY ConcatProperties
  <1> HIDE DEF a
  <1>2. LineLen \in Nat \ {0}
    BY LoggerAssumptions DEF LoggerAssumptions
  <1>3. PICK n \in Nat, k \in Nat : n = LineLen * Len(s) /\ k = LineLen * Len(t)
    BY BytesSeq
  <1>4. LineLen * Len(a) = n + k
    BY <1>1, <1>2, <1>3
  <1>5. /\ u \in Seq(Bytes) /\ Len(u) = n + k
        /\ \A b \in 1..(n + k) :
                u[b] = <<a[((b - 1) \div LineLen) + 1],
                         ((b - 1) % LineLen) + 1>>
    BY <1>1, <1>4, BytesSeq
  <1>6. /\ BytesOf(s) \in Seq(Bytes) /\ Len(BytesOf(s)) = n
        /\ \A b \in 1..n :
                /\ ((b - 1) \div LineLen) + 1 \in 1..Len(s)
                /\ BytesOf(s)[b] = <<s[((b - 1) \div LineLen) + 1],
                                     ((b - 1) % LineLen) + 1>>
    BY <1>3, BytesSeq
  <1>7. /\ BytesOf(t) \in Seq(Bytes) /\ Len(BytesOf(t)) = k
        /\ \A b \in 1..k :
                /\ ((b - 1) \div LineLen) + 1 \in 1..Len(t)
                /\ BytesOf(t)[b] = <<t[((b - 1) \div LineLen) + 1],
                                     ((b - 1) % LineLen) + 1>>
    BY <1>3, BytesSeq
  <1>8. /\ v \in Seq(Bytes) /\ Len(v) = n + k
        /\ \A b \in 1..(n + k) :
                v[b] = IF b <= n THEN BytesOf(s)[b] ELSE BytesOf(t)[b - n]
    BY <1>6, <1>7, ConcatProperties
  <1> HIDE DEF u, v
  <1>9. ASSUME NEW b \in 1..(n + k)
        PROVE  u[b] = v[b]
    <2>1. CASE b <= n
      <3>1. b \in 1..n
        BY <2>1
      <3> QED
        BY <1>1, <1>5, <1>6, <1>8, <2>1, <3>1
    <2>2. CASE b > n
      <3>1. PICK c \in 1..k : b = n + c
        <4>1. b - n \in 1..k
          BY <2>2
        <4> QED
          BY <4>1
      <3>2. c - 1 \in Nat /\ b - 1 = LineLen * Len(s) + (c - 1)
        BY <1>3, <3>1
      <3>3. /\ (b - 1) \div LineLen = Len(s) + ((c - 1) \div LineLen)
            /\ (b - 1) % LineLen = (c - 1) % LineLen
        <4>1. PICK d \in Nat, i \in Nat : d = c - 1 /\ i = Len(s)
          BY <1>1, <3>2
        <4>2. /\ (LineLen * i + d) \div LineLen = i + (d \div LineLen)
              /\ (LineLen * i + d) % LineLen = d % LineLen
          BY <1>2, DivShift
        <4> QED
          BY <3>2, <4>1, <4>2
      <3>4. PICK m \in 1..Len(t) : m = ((c - 1) \div LineLen) + 1
        BY <1>7
      <3>5. (c - 1) \div LineLen \in Nat
        BY <1>2, <3>2, DivMod
      <3>6. ((b - 1) \div LineLen) + 1 = Len(s) + m
        BY <1>1, <3>3, <3>4, <3>5
      <3>7. u[b] = <<a[Len(s) + m], ((c - 1) % LineLen) + 1>>
        BY <1>5, <3>3, <3>6
      <3>8. BytesOf(t)[c] = <<t[m], ((c - 1) % LineLen) + 1>>
        BY <1>7, <3>4
      <3>9. b - n = c /\ v[b] = BytesOf(t)[b - n]
        BY <1>8, <2>2, <3>1
      <3> QED
        BY <1>1, <3>7, <3>8, <3>9
    <2> QED
      BY <2>1, <2>2
  <1>10. u = v
    BY <1>5, <1>8, <1>9, SeqEqual
  <1> QED
    BY <1>10 DEF u, v, a

-----------------------------------------------------------------------------
(* Cutting and joining.                                                    *)

LEMMA Cut ==
    ASSUME NEW S, NEW s \in Seq(S), NEW n \in 0..Len(s)
    PROVE  /\ SubSeq(s, 1, n) \in Seq(S)
           /\ SubSeq(s, n + 1, Len(s)) \in Seq(S)
           /\ SubSeq(s, 1, n) \o SubSeq(s, n + 1, Len(s)) = s
  <1>1. Len(s) \in Nat /\ n \in Nat
    OBVIOUS
  <1>2. /\ SubSeq(s, 1, n) \in Seq(S)
        /\ SubSeq(s, n + 1, Len(s)) \in Seq(S)
    BY <1>1, SubSeqProperties
  <1>3. 1 \in 1..(Len(s) + 1) /\ n \in (1 - 1)..Len(s) /\ Len(s) \in n..Len(s)
    BY <1>1
  <1>4. SubSeq(s, 1, n) \o SubSeq(s, n + 1, Len(s)) = SubSeq(s, 1, Len(s))
    BY <1>3, ConcatAdjacentSubSeq
  <1>5. SubSeq(s, 1, Len(s)) = s
    BY SubSeqFull
  <1> QED
    BY <1>2, <1>4, <1>5

(* The order in which three sequences are joined does not matter. *)
Associates(d, a, b) == (d \o a) \o b = d \o (a \o b)

LEMMA Regroup ==
    ASSUME NEW S, NEW d \in Seq(S), NEW a \in Seq(S), NEW b \in Seq(S)
    PROVE  Associates(d, a, b)
  <1>1. (d \o a) \o b = d \o (a \o b)
    OBVIOUS
  <1> QED
    BY <1>1 DEF Associates

LEMMA Joined ==
    ASSUME NEW S, NEW d \in Seq(S), NEW a \in Seq(S)
    PROVE  d \o a \in Seq(S)
  OBVIOUS

Joins(a, s, t) ==
    /\ Len(a) = Len(s) + Len(t)
    /\ \A b \in 1..(Len(s) + Len(t)) :
            a[b] = IF b <= Len(s) THEN s[b] ELSE t[b - Len(s)]

LEMMA JoinedAt ==
    ASSUME NEW S, NEW s \in Seq(S), NEW t \in Seq(S)
    PROVE  Joins(s \o t, s, t)
  BY ConcatProperties DEF Joins

(* The same length, and every byte in its place or lost. *)
Whole(s, t) == InPlace(s, t) /\ Len(s) = Len(t)

LEMMA WholeSelf ==
    ASSUME NEW s \in Seq(Bytes)
    PROVE  Whole(s, s)
  BY DEF Whole, InPlace

LEMMA WholeTrans ==
    ASSUME NEW s \in Seq(Bytes), NEW t \in Seq(Bytes), NEW u \in Seq(Bytes),
           Whole(s, t), Whole(t, u)
    PROVE  Whole(s, u)
  BY DEF Whole, InPlace

LEMMA WholeJoin ==
    ASSUME NEW s \in Seq(Bytes), NEW t \in Seq(Bytes), NEW u \in Seq(Bytes),
           Whole(s, t)
    PROVE  Whole(s \o u, t \o u)
  <1>1. PICK n \in Nat, k \in Nat : n = Len(s) /\ n = Len(t) /\ k = Len(u)
    BY DEF Whole
  <1>2. \A b \in 1..n : s[b] \in {t[b], Lost}
    BY <1>1 DEF Whole, InPlace
  <1> DEFINE a == s \o u
             c == t \o u
  <1>0. Joins(a, s, u) /\ Joins(c, t, u)
    BY JoinedAt
  <1> HIDE DEF a, c
  <1>3. /\ Len(a) = n + k
        /\ \A b \in 1..(n + k) : a[b] = IF b <= n THEN s[b] ELSE u[b - n]
    BY <1>0, <1>1 DEF Joins
  <1>4. /\ Len(c) = n + k
        /\ \A b \in 1..(n + k) : c[b] = IF b <= n THEN t[b] ELSE u[b - n]
    BY <1>0, <1>1 DEF Joins
  <1>5. ASSUME NEW b \in 1..(n + k)
        PROVE  a[b] \in {c[b], Lost}
    <2>1. CASE b <= n
      <3>1. b \in 1..n
        BY <2>1
      <3> QED
        BY <1>2, <1>3, <1>4, <2>1, <3>1
    <2>2. CASE ~(b <= n)
      BY <1>3, <1>4, <2>2
    <2> QED
      BY <2>1, <2>2
  <1>6. Whole(a, c)
    BY <1>3, <1>4, <1>5 DEF Whole, InPlace
  <1> QED
    BY <1>6 DEF a, c

(* What is kept of the whole is kept of its beginning. *)
LEMMA KeptFront ==
    ASSUME NEW s \in Seq(Bytes), NEW a \in Seq(Bytes), NEW t \in Seq(Bytes),
           NEW u \in Seq(Bytes), Whole(s \o a, t)
    PROVE  InPlace(s, t \o u)
  <1>1. PICK n \in Nat, k \in Nat, m \in Nat :
            n = Len(s) /\ k = Len(a) /\ m = Len(u)
    OBVIOUS
  <1> DEFINE c == s \o a
             d == t \o u
  <1>0. Joins(c, s, a) /\ Joins(d, t, u) /\ Whole(c, t)
    BY JoinedAt
  <1> HIDE DEF c, d
  <1>2. Len(c) = n + k /\ \A b \in 1..n : c[b] = s[b]
    BY <1>0, <1>1 DEF Joins
  <1>3. Len(t) = n + k /\ \A b \in 1..(n + k) : c[b] \in {t[b], Lost}
    BY <1>0, <1>2 DEF Whole, InPlace
  <1>4. Len(d) = n + k + m /\ \A b \in 1..(n + k) : d[b] = t[b]
    BY <1>0, <1>1, <1>3 DEF Joins
  <1>5. \A b \in 1..n : b \in 1..(n + k)
    OBVIOUS
  <1>6. \A b \in 1..n : s[b] \in {d[b], Lost}
    BY <1>2, <1>3, <1>4, <1>5
  <1>7. Len(s) <= Len(d)
    BY <1>1, <1>4
  <1>8. InPlace(s, d)
    BY <1>1, <1>6, <1>7 DEF InPlace
  <1> QED
    BY <1>8 DEF d

-----------------------------------------------------------------------------
(* What steps leave alone.                                                 *)

(* A step that moves neither the clock nor the LogFile's fields. *)
LEMMA LogFrame ==
    ASSUME IInv, UNCHANGED <<now, log>>, appending' \in {appending, TRUE}
    PROVE  LogTypeOK' /\ RollInv' /\ RolledInTime'
  BY DEF IInv, LogTypeOK, RollInv, RolledInTime, PeriodOf

LEMMA WaySeq ==
    ASSUME NEW d \in Seq(Bytes), NEW p \in Seq(Bytes), NEW r \in Seq(Bytes),
           NEW s \in Seq(Nat), NEW t \in Seq(Nat)
    PROVE  d \o p \o r \o BytesOf(s \o t) \in Seq(Bytes)
  <1>1. PICK q \in Seq(Nat) : q = s \o t
    BY Joined
  <1>2. PICK b \in Seq(Bytes) : b = BytesOf(q)
    BY BytesSeq
  <1>3. PICK x \in Seq(Bytes) : x = d \o p
    BY Joined
  <1>4. PICK y \in Seq(Bytes) : y = x \o r
    BY Joined
  <1>5. y \o b \in Seq(Bytes)
    BY Joined
  <1> QED
    BY <1>1, <1>2, <1>3, <1>4, <1>5

LEMMA OnTheWaySeq ==
    ASSUME StreamTypeOK
    PROVE  OnTheWay \in Seq(Bytes) /\ BytesOf(sent) \in Seq(Bytes)
  BY WaySeq, BytesSeq DEF StreamTypeOK, OnTheWay

(* A step that logs nothing, moves no byte and repeats none. *)
LEMMA StreamFrame ==
    ASSUME IInv, StreamTypeOK', ~aborted, UNCHANGED <<logged, sent, aborted>>,
           Whole(OnTheWay', OnTheWay)
    PROVE  DiskIsPrefix'
  <1>1. SentInOrder'
    BY DEF IInv, DiskIsPrefix, SentInOrder
  <1>2. Whole(OnTheWay, BytesOf(sent)) /\ StreamTypeOK
    BY DEF IInv, DiskIsPrefix, Whole
  <1>3. OnTheWay \in Seq(Bytes) /\ BytesOf(sent) \in Seq(Bytes)
    BY <1>2, OnTheWaySeq
  <1>4. OnTheWay' \in Seq(Bytes)
    <2>1. OnTheWay' = disk' \o fp' \o rest' \o BytesOf(batch' \o pending')
      BY DEF OnTheWay, BytesOf
    <2> QED
      BY <2>1, WaySeq DEF StreamTypeOK
  <1>5. PICK a \in Seq(Bytes), b \in Seq(Bytes), c \in Seq(Bytes) :
            a = OnTheWay' /\ b = OnTheWay /\ c = BytesOf(sent)
    BY <1>3, <1>4
  <1>6. Whole(a, c)
    <2>1. Whole(a, b) /\ Whole(b, c)
      BY <1>2, <1>5
    <2> QED
      BY <2>1, WholeTrans
  <1>7. BytesOf(sent)' = c
    BY <1>5 DEF BytesOf
  <1>8. DiskIsPrefix' = (SentInOrder' /\ Whole(OnTheWay', BytesOf(sent)'))
    BY DEF DiskIsPrefix, Whole, InPlace
  <1> QED
    BY <1>1, <1>5, <1>6, <1>7, <1>8

(* Whatever fflush loses of the stream, the rest is where it belongs. *)
LEMMA FlushOK ==
    ASSUME IInv, Flush
    PROVE  /\ disk' \in Seq(Bytes) /\ fp' \in Seq(Bytes)
           /\ disk' \o fp' \in Seq(Bytes) /\ disk \o fp \in Seq(Bytes)
           /\ Whole(disk' \o fp', disk \o fp)
  <1>1. PICK n \in 0..Len(fp) : FlushedUpTo(n)
    BY DEF Flush
  <1>2. PICK d \in Seq(Bytes), p \in Seq(Bytes) : d = disk /\ p = fp
    BY DEF IInv, StreamTypeOK
  <1> DEFINE w == [k \in 1..Len(p) |-> IF k <= n THEN p[k] ELSE Lost]
  <1>3. Lost \in Bytes
    BY DEF Bytes
  <1>4. w \in Seq(Bytes) /\ Len(w) = Len(p)
          /\ \A k \in 1..Len(p) : w[k] \in {p[k], Lost}
    BY <1>2, <1>3
  <1>5. disk' = d \o w /\ fp' = <<>>
    BY <1>1, <1>2 DEF FlushedUpTo
  <1> HIDE DEF w
  <1>6. Whole(d \o w, d \o p)
    <2>1. PICK m \in Nat, k \in Nat : m = Len(d) /\ k = Len(p)
      OBVIOUS
    <2> DEFINE a == d \o w
               c == d \o p
    <2>0. Joins(a, d, w) /\ Joins(c, d, p)
      BY <1>4, JoinedAt
    <2> HIDE DEF a, c
    <2>2. /\ Len(a) = m + k
          /\ \A b \in 1..(m + k) : a[b] = IF b <= m THEN d[b] ELSE w[b - m]
      BY <1>4, <2>0, <2>1 DEF Joins
    <2>3. /\ Len(c) = m + k
          /\ \A b \in 1..(m + k) : c[b] = IF b <= m THEN d[b] ELSE p[b - m]
      BY <2>0, <2>1 DEF Joins
    <2>4. ASSUME NEW b \in 1..(m + k)
          PROVE  a[b] \in {c[b], Lost}
      <3>1. CASE b <= m
        BY <2>2, <2>3, <3>1
      <3>2. CASE ~(b <= m)
        <4>1. b - m \in 1..k
          BY <3>2
        <4> QED
          BY <1>4, <2>1, <2>2, <2>3, <3>2, <4>1
      <3> QED
        BY <3>1, <3>2
    <2>5. Whole(a, c)
      BY <2>2, <2>3, <2>4 DEF Whole, InPlace
    <2> QED
      BY <2>5 DEF a, c
  <1>7. PICK x \in Seq(Bytes), y \in Seq(Bytes) : x = d \o w /\ y = d \o p
    BY <1>4, Joined
  <1>8. disk' = x /\ disk' \o fp' = x /\ disk \o fp = y /\ Whole(x, y)
    BY <1>2, <1>5, <1>6, <1>7, ConcatEmptySeq
  <1> QED
    BY <1>5, <1>7, <1>8, EmptySeq

(* What is kept of the stream is kept with all that comes behind it. *)
LEMMA BehindStream ==
    ASSUME NEW x \in Seq(Bytes), NEW y \in Seq(Bytes), Whole(x, y),
           NEW r \in Seq(Bytes), NEW b \in Seq(Bytes)
    PROVE  Whole((x \o r) \o b, (y \o r) \o b)
  <1>1. PICK v \in Seq(Bytes), w \in Seq(Bytes) : v = x \o r /\ w = y \o r
    BY Joined
  <1>2. Whole(v, w)
    BY <1>1, WholeJoin
  <1>3. Whole(v \o b, w \o b)
    BY <1>2, WholeJoin
  <1> QED
    BY <1>1, <1>3

(* The stream is flushed or left alone, and nothing else moves. *)
LEMMA StreamKeep ==
    ASSUME IInv, ~aborted, Flush \/ UNCHANGED <<fp, disk>>,
           UNCHANGED <<rest, g_output, logged, sent, pending, batch, aborted>>,
           appending' \in BOOLEAN
    PROVE  StreamTypeOK' /\ DiskIsPrefix'
  <1>1. /\ disk \in Seq(Bytes) /\ fp \in Seq(Bytes) /\ rest \in Seq(Bytes)
        /\ batch \in Seq(Nat) /\ pending \in Seq(Nat)
    BY DEF IInv, StreamTypeOK
  <1>2. /\ disk' \in Seq(Bytes) /\ fp' \in Seq(Bytes)
        /\ disk' \o fp' \in Seq(Bytes) /\ disk \o fp \in Seq(Bytes)
        /\ Whole(disk' \o fp', disk \o fp)
    <2>1. CASE Flush
      BY <2>1, FlushOK
    <2>2. CASE UNCHANGED <<fp, disk>>
      <3>1. PICK x \in Seq(Bytes) : x = disk \o fp
        BY <1>1, Joined
      <3>2. Whole(x, x)
        BY WholeSelf
      <3> QED
        BY <1>1, <2>2, <3>1, <3>2
    <2> QED
      BY <2>1, <2>2
  <1>3. StreamTypeOK'
    BY <1>2 DEF IInv, StreamTypeOK
  <1>4. Whole(OnTheWay', OnTheWay)
    <2>1. PICK x \in Seq(Bytes), y \in Seq(Bytes), r \in Seq(Bytes) :
              x = disk' \o fp' /\ y = disk \o fp /\ r = rest
      BY <1>1, <1>2
    <2>2. PICK b \in Seq(Bytes) : b = BytesOf(batch \o pending)
      <3>1. batch \o pending \in Seq(Nat)
        BY <1>1, Joined
      <3> QED
        BY <3>1, BytesSeq
    <2>3. Whole((x \o r) \o b, (y \o r) \o b)
      BY <1>2, <2>1, BehindStream
    <2>4. OnTheWay' = (x \o r) \o b /\ OnTheWay = (y \o r) \o b
      BY <2>1, <2>2 DEF OnTheWay, BytesOf
    <2> QED
      BY <2>3, <2>4
  <1>5. DiskIsPrefix'
    BY <1>3, <1>4, StreamFrame
  <1> QED
    BY <1>3, <1>5

-----------------------------------------------------------------------------
(* The slots.                                                              *)

InOrder(slots, lines) ==
    /\ Range(slots) \ {Stale} = lines
    /\ \A m, n \in DOMAIN slots :
            m < n /\ slots[n] # Stale => slots[m] < slots[n]

AsyncLines == {i \in DOMAIN logged : logged[i].to = "async"}

(* Stale slots behind the others change nothing. *)
LEMMA OrderStale ==
    ASSUME NEW s \in Seq(Nat), NEW z \in Seq(Nat), NEW lines,
           InOrder(s, lines), \A k \in 1..Len(z) : z[k] = Stale
    PROVE  InOrder(s \o z, lines)
  <1> DEFINE a == s \o z
  <1>1. PICK n \in Nat, k \in Nat : n = Len(s) /\ k = Len(z)
    OBVIOUS
  <1>2. /\ a \in Seq(Nat) /\ Len(a) = n + k
        /\ \A i \in 1..(n + k) : a[i] = IF i <= n THEN s[i] ELSE z[i - n]
    BY <1>1, ConcatProperties
  <1>3. /\ DOMAIN a = 1..(n + k) /\ DOMAIN s = 1..n
    BY <1>1, <1>2
  <1> HIDE DEF a
  <1>4. \A i \in 1..(n + k) : i <= n => i \in 1..n /\ a[i] = s[i]
    BY <1>2
  <1>5. ASSUME NEW i \in 1..(n + k), ~(i <= n)
        PROVE  a[i] = Stale
    <2>1. i - n \in 1..k
      BY <1>5
    <2> QED
      BY <1>1, <1>2, <1>5, <2>1
  <1>6. Range(a) \ {Stale} = Range(s) \ {Stale}
    <2>1. ASSUME NEW x \in Range(a) \ {Stale}
          PROVE  x \in Range(s) \ {Stale}
      BY <1>3, <1>4, <1>5 DEF Range
    <2>2. ASSUME NEW x \in Range(s) \ {Stale}
          PROVE  x \in Range(a) \ {Stale}
      <3>1. PICK i \in 1..n : x = s[i]
        BY <1>3 DEF Range
      <3>2. i \in 1..(n + k) /\ i <= n
        OBVIOUS
      <3> QED
        BY <1>3, <1>4, <3>1, <3>2 DEF Range
    <2> QED
      BY <2>1, <2>2
  <1>7. ASSUME NEW i \in DOMAIN a, NEW j \in DOMAIN a, i < j, a[j] # Stale
        PROVE  a[i] < a[j]
    <2>1. i \in 1..(n + k) /\ j \in 1..(n + k) /\ j <= n
      BY <1>3, <1>5, <1>7
    <2>2. i \in 1..n /\ j \in 1..n /\ a[i] = s[i] /\ a[j] = s[j]
      BY <1>4, <1>7, <2>1
    <2> QED
      BY <1>3, <1>7, <2>2 DEF InOrder
  <1>8. InOrder(a, lines)
    BY <1>6, <1>7 DEF InOrder
  <1> QED
    BY <1>8 DEF a

(* Nor does a line that comes behind all the others. *)
LEMMA OrderLine ==
    ASSUME NEW s \in Seq(Nat), NEW lines, NEW x \in Nat, x # Stale,
           InOrder(s, lines), \A i \in lines : i \in Nat /\ i < x
    PROVE  InOrder(Append(s, x), lines \cup {x})
  <1> DEFINE a == Append(s, x)
  <1>1. PICK n \in Nat : n = Len(s) /\ DOMAIN s = 1..n
    OBVIOUS
  <1>2. /\ a \in Seq(Nat) /\ Len(a) = n + 1 /\ DOMAIN a = 1..(n + 1)
        /\ \A i \in 1..n : a[i] = s[i]
        /\ a[n + 1] = x
    BY <1>1, AppendProperties
  <1> HIDE DEF a
  <1>3. 1..(n + 1) = 1..n \cup {n + 1}
    OBVIOUS
  <1>4. Range(a) = Range(s) \cup {x}
    BY <1>1, <1>2, <1>3 DEF Range
  <1>5. Range(a) \ {Stale} = lines \cup {x}
    BY <1>4 DEF InOrder
  <1>6. ASSUME NEW i \in DOMAIN a, NEW j \in DOMAIN a, i < j, a[j] # Stale
        PROVE  a[i] < a[j]
    <2>1. i \in 1..n /\ a[i] = s[i] /\ s[i] \in Nat
      BY <1>1, <1>2, <1>6
    <2>2. CASE j \in 1..n
      BY <1>1, <1>2, <1>6, <2>1, <2>2 DEF InOrder
    <2>3. CASE j = n + 1
      <3>1. s[i] = Stale \/ s[i] \in lines
        BY <1>1, <2>1 DEF InOrder, Range
      <3>2. s[i] < x
        BY <2>1, <3>1 DEF Stale
      <3> QED
        BY <1>2, <2>1, <2>3, <3>2
    <2> QED
      BY <1>2, <1>3, <2>2, <2>3
  <1>7. InOrder(a, lines \cup {x})
    BY <1>5, <1>6 DEF InOrder
  <1> QED
    BY <1>7 DEF a

(* The slots that are handed over are on their way. *)
LEMMA SlotsAdded ==
    ASSUME IInv, ~aborted, NEW u \in Seq(Nat), UNCHANGED <<disk, fp, rest>>,
           batch' \o pending' = (batch \o pending) \o u, sent' = sent \o u
    PROVE  Whole(OnTheWay', BytesOf(sent'))
  <1>1. /\ StreamTypeOK /\ batch \in Seq(Nat) /\ pending \in Seq(Nat)
        /\ sent \in Seq(Nat)
    BY DEF IInv, StreamTypeOK
  <1>2. Whole(OnTheWay, BytesOf(sent))
    BY DEF IInv, DiskIsPrefix, Whole
  <1>3. PICK q \in Seq(Nat) : q = batch \o pending
    BY <1>1, Joined
  <1>4. PICK b \in Seq(Bytes), c \in Seq(Bytes), t \in Seq(Bytes) :
            b = BytesOf(q) /\ c = BytesOf(u) /\ t = BytesOf(sent)
    BY <1>1, BytesSeq
  <1>5. PICK y \in Seq(Bytes) : y = disk \o fp \o rest
    <2>1. PICK d \in Seq(Bytes), p \in Seq(Bytes), r \in Seq(Bytes) :
              d = disk /\ p = fp /\ r = rest
      BY <1>1 DEF StreamTypeOK
    <2>2. PICK x \in Seq(Bytes) : x = d \o p
      BY Joined
    <2>3. x \o r \in Seq(Bytes)
      BY Joined
    <2> QED
      BY <2>1, <2>2, <2>3
  <1>6. PICK a \in Seq(Bytes) : a = y \o b
    BY Joined
  <1>7. BytesOf(q \o u) = b \o c /\ BytesOf(sent \o u) = t \o c
    BY <1>1, <1>4, BytesJoin
  <1>8. OnTheWay = a
    BY <1>3, <1>4, <1>5, <1>6 DEF OnTheWay
  <1>9. OnTheWay' = y \o (b \o c)
    <2>1. OnTheWay' = disk' \o fp' \o rest' \o BytesOf(batch' \o pending')
      BY DEF OnTheWay, BytesOf
    <2> QED
      BY <1>3, <1>5, <1>7, <2>1
  <1>10. y \o (b \o c) = a \o c
    <2>1. Associates(y, b, c)
      BY Regroup
    <2> QED
      BY <1>6, <2>1 DEF Associates
  <1>11. Whole(a \o c, t \o c)
    <2>1. Whole(a, t)
      BY <1>2, <1>4, <1>8
    <2> QED
      BY <2>1, WholeJoin
  <1> QED
    BY <1>7, <1>9, <1>10, <1>11

-----------------------------------------------------------------------------
(* The back end.                                                           *)

LEMMA SlotsAssumption == Slots \in Nat \ {0} /\ Slots >= 2
  BY LoggerAssumptions DEF LoggerAssumptions

LEMMA NoneLeft ==
    ASSUME NEW j \in Nat
    PROVE  (Slots * j) % Slots = 0
  <1>1. (Slots * j + 0) % Slots = 0
    BY SlotsAssumption, DivModOf
  <1>2. Slots * j + 0 = Slots * j
    BY SlotsAssumption
  <1> QED
    BY <1>1, <1>2

(* The unfilled rest makes the slots whole buffers. *)
LEMMA UnfilledOK ==
    ASSUME pending \in Seq(Nat)
    PROVE  /\ Unfilled \in Seq(Nat)
           /\ \A k \in 1..Len(Unfilled) : Unfilled[k] = Stale
           /\ pending \o Unfilled \in Seq(Nat)
           /\ Len(pending \o Unfilled) % Slots = 0
  <1>1. PICK n \in Nat : n = Len(pending)
    OBVIOUS
  <1>2. PICK k \in 0..(Slots - 1), m \in Nat :
            k = n % Slots /\ m = n \div Slots /\ k = n - Slots * m
    BY SlotsAssumption, DivMod
  <1>3. PICK u \in Nat : u = Slots - k
    BY SlotsAssumption
  <1>4. Unfilled = [i \in 1..u |-> Stale]
    BY <1>1, <1>2, <1>3 DEF Unfilled, Filled
  <1>5. /\ Unfilled \in Seq(Nat) /\ Len(Unfilled) = u
        /\ \A i \in 1..u : Unfilled[i] = Stale
    BY <1>4 DEF Stale
  <1>6. PICK z \in Seq(Nat) : z = Unfilled
    BY <1>5
  <1>7. pending \o z \in Seq(Nat) /\ Len(pending \o z) = n + u
    BY <1>1, <1>5, <1>6, ConcatProperties
  <1>8. PICK j \in Nat : j = m + 1
    OBVIOUS
  <1>9. (n + u) % Slots = 0
    <2>1. Slots * j = Slots * m + Slots /\ Slots * m \in Int
      BY <1>8, SlotsAssumption
    <2>2. n + u = Slots * j
      BY <1>2, <1>3, <2>1, SlotsAssumption
    <2> QED
      BY <2>2, NoneLeft
  <1> QED
    BY <1>5, <1>6, <1>7, <1>9

LEMMA CollectStep ==
    ASSUME IInv, ~aborted, Collect
    PROVE  IInv'
  <1>1. /\ batch' = pending \o Unfilled /\ sent' = sent \o Unfilled
        /\ pending' = <<>> /\ backEnd' = "write" /\ batch = <<>>
        /\ UNCHANGED <<now, log, appending, rest, fp, disk, g_output, logged,
                       aborted>>
    BY DEF Collect, fileVars, frontVars, IInv, IdleInv
  <1>2. pending \in Seq(Nat) /\ sent \in Seq(Nat) /\ SentInOrder
    BY DEF IInv, StreamTypeOK, DiskIsPrefix
  <1>3. PICK u \in Seq(Nat) :
            /\ u = Unfilled /\ \A k \in 1..Len(u) : u[k] = Stale
            /\ pending \o u \in Seq(Nat) /\ Len(pending \o u) % Slots = 0
    BY <1>2, UnfilledOK
  <1>4. StreamTypeOK' /\ IdleInv'
    <2>1. sent \o u \in Seq(Nat)
      BY <1>2, Joined
    <2>2. /\ batch' \in Seq(Nat) /\ sent' \in Seq(Nat) /\ pending' \in Seq(Nat)
          /\ Len(batch') % Slots = 0
      BY <1>1, <1>3, <2>1, EmptySeq
    <2> QED
      BY <1>1, <2>2 DEF IInv, StreamTypeOK, IdleInv
  <1>5. SentInOrder'
    <2>1. InOrder(sent, AsyncLines)
      BY <1>2 DEF SentInOrder, InOrder, AsyncLines
    <2>2. InOrder(sent \o u, AsyncLines)
      BY <1>2, <1>3, <2>1, OrderStale
    <2>3. InOrder(sent', AsyncLines')
      BY <1>1, <1>3, <2>2 DEF AsyncLines
    <2> QED
      BY <2>3 DEF SentInOrder, InOrder, AsyncLines
  <1>6. Whole(OnTheWay', BytesOf(sent'))
    <2>1. PICK w \in Seq(Nat) : w = pending \o u
      BY <1>3
    <2>2. w \o <<>> = w
      BY ConcatEmptySeq
    <2>3. <<>> \o pending = pending
      BY <1>2, ConcatEmptySeq
    <2>4. batch' \o pending' = (batch \o pending) \o u
      BY <1>1, <1>3, <2>1, <2>2, <2>3
    <2> QED
      BY <1>1, <1>3, <2>4, SlotsAdded
  <1>7. DiskIsPrefix'
    <2>1. BytesOf(sent)' = BytesOf(sent')
      BY DEF BytesOf
    <2> QED
      BY <1>1, <1>5, <1>6, <2>1 DEF DiskIsPrefix, Whole, InPlace
  <1> QED
    BY <1>1, <1>4, <1>7, LogFrame DEF IInv

(* The first of some whole buffers, and the others. *)
LEMMA FirstBuffer ==
    ASSUME NEW s \in Seq(Nat), s # <<>>, Len(s) % Slots = 0
    PROVE  /\ Slots \in 0..Len(s)
           /\ Len(SubSeq(s, Slots + 1, Len(s))) % Slots = 0
  <1>1. PICK n \in Nat : n = Len(s) /\ n # 0
    BY EmptySeq
  <1>2. PICK m \in Nat : n = Slots * m
    <2>1. n \div Slots \in Nat /\ n % Slots = n - Slots * (n \div Slots)
      BY SlotsAssumption, DivMod
    <2>2. PICK m \in Nat : m = n \div Slots
      BY <2>1
    <2>3. Slots * m \in Int
      BY SlotsAssumption
    <2> QED
      BY <1>1, <2>1, <2>2, <2>3
  <1>3. PICK j \in Nat : m = j + 1
    <2>1. m # 0
      BY <1>1, <1>2, SlotsAssumption
    <2>2. m - 1 \in Nat /\ m = (m - 1) + 1
      BY <2>1
    <2> QED
      BY <2>2
  <1>4. n = Slots * j + Slots /\ Slots * j \in Nat
    BY <1>2, <1>3, SlotsAssumption
  <1>5. Slots <= n /\ n - Slots = Slots * j
    BY <1>4, SlotsAssumption
  <1>6. (n - Slots) % Slots = 0
    BY <1>5, NoneLeft
  <1>7. Len(SubSeq(s, Slots + 1, n)) = n - Slots
    <2>1. \A i \in (Slots + 1)..n : s[i] \in Nat
      BY <1>1, SlotsAssumption
    <2>2. Len(SubSeq(s, Slots + 1, n))
            = IF Slots + 1 <= n THEN n - (Slots + 1) + 1 ELSE 0
      BY <2>1, SlotsAssumption, SubSeqProperties
    <2> QED
      BY <1>5, <2>2, SlotsAssumption
  <1>8. Slots \in 0..n
    BY <1>5, SlotsAssumption
  <1>9. Len(SubSeq(s, Slots + 1, n)) % Slots = 0
    BY <1>6, <1>7
  <1> QED
    BY <1>1, <1>8, <1>9

LEMMA WriteStep ==
    ASSUME IInv, ~aborted, Write
    PROVE  IInv'
  <1>1. /\ backEnd = "write" /\ batch # <<>> /\ ~appending
        /\ appending' = TRUE /\ rest' = BytesOf(SubSeq(batch, 1, Slots))
        /\ batch' = SubSeq(batch, Slots + 1, Len(batch))
        /\ UNCHANGED <<now, log, fp, disk, g_output, logged, sent, pending,
                       backEnd, aborted>>
    BY DEF Write, BeginAppend, frontVars
  <1>2. /\ batch \in Seq(Nat) /\ pending \in Seq(Nat) /\ disk \in Seq(Bytes)
        /\ fp \in Seq(Bytes) /\ rest = <<>> /\ Len(batch) % Slots = 0
    BY <1>1 DEF IInv, StreamTypeOK, IdleInv
  <1>3. Slots \in 0..Len(batch) /\ Len(batch') % Slots = 0
    BY <1>1, <1>2, FirstBuffer
  <1>4. PICK a \in Seq(Nat), t \in Seq(Nat) :
            /\ a = SubSeq(batch, 1, Slots) /\ t = batch' /\ a \o t = batch
    <2>1. /\ SubSeq(batch, 1, Slots) \in Seq(Nat)
          /\ SubSeq(batch, Slots + 1, Len(batch)) \in Seq(Nat)
          /\ SubSeq(batch, 1, Slots) \o SubSeq(batch, Slots + 1, Len(batch))
                = batch
      BY <1>2, <1>3, Cut
    <2> QED
      BY <1>1, <2>1
  <1>5. PICK q \in Seq(Nat) : q = t \o pending
    BY <1>2, Joined
  <1>6. PICK b \in Seq(Bytes), c \in Seq(Bytes) :
            b = BytesOf(a) /\ c = BytesOf(q)
    BY BytesSeq
  <1>7. StreamTypeOK' /\ IdleInv'
    BY <1>1, <1>3, <1>4, <1>6 DEF IInv, StreamTypeOK, IdleInv
  <1>8. OnTheWay' = OnTheWay
    <2>1. batch \o pending = a \o q
      <3>1. Associates(a, t, pending)
        BY <1>2, Regroup
      <3> QED
        BY <1>4, <1>5, <3>1 DEF Associates
    <2>2. BytesOf(a \o q) = b \o c
      BY <1>6, BytesJoin
    <2>3. PICK d \in Seq(Bytes) : d = disk \o fp
      BY <1>2, Joined
    <2>4. d \o <<>> = d
      BY ConcatEmptySeq
    <2>5. OnTheWay = d \o (b \o c)
      BY <1>2, <2>1, <2>2, <2>3, <2>4 DEF OnTheWay
    <2>6. OnTheWay' = (d \o b) \o c
      <3>1. OnTheWay' = disk' \o fp' \o rest' \o BytesOf(batch' \o pending')
        BY DEF OnTheWay, BytesOf
      <3> QED
        BY <1>1, <1>4, <1>5, <1>6, <2>3, <3>1
    <2>7. Associates(d, b, c)
      BY Regroup
    <2> QED
      BY <2>5, <2>6, <2>7 DEF Associates
  <1>9. Whole(OnTheWay', OnTheWay)
    BY <1>8, OnTheWaySeq, WholeSelf DEF IInv
  <1>10. DiskIsPrefix'
    BY <1>1, <1>7, <1>9, StreamFrame
  <1> QED
    BY <1>1, <1>7, <1>10, LogFrame DEF IInv

LEMMA EndRoundStep ==
    ASSUME IInv, ~aborted, EndRound \/ Finish
    PROVE  IInv'
  <1>1. /\ batch = <<>> /\ Flush
        /\ UNCHANGED <<now, log, appending, rest, g_output, logged, sent,
                       pending, batch, aborted>>
    BY DEF EndRound, Finish, frontVars, IInv, IdleInv
  <1>2. StreamTypeOK' /\ DiskIsPrefix'
    BY <1>1, StreamKeep DEF IInv, StreamTypeOK
  <1>3. IdleInv'
    BY <1>1 DEF IInv, IdleInv
  <1> QED
    BY <1>1, <1>2, <1>3, LogFrame DEF IInv

(* Steps of the two sides that only set a flag. *)
LEMMA FlagStep ==
    ASSUME IInv, ~aborted, TestRunning \/ Stop
    PROVE  IInv'
  <1>1. /\ UNCHANGED <<now, log, appending, rest, fp, disk, g_output, logged,
                       sent, pending, batch, aborted>>
        /\ backEnd' # "write" => batch = <<>>
    BY DEF TestRunning, Stop, frontVars, fileVars, IInv, IdleInv
  <1>2. StreamTypeOK' /\ DiskIsPrefix'
    BY <1>1, StreamKeep DEF IInv, StreamTypeOK
  <1>3. IdleInv'
    BY <1>1 DEF IInv, IdleInv
  <1> QED
    BY <1>1, <1>2, <1>3, LogFrame DEF IInv

(* stdio writes a part of its buffer, or fails to. *)
LEMMA SpillStep ==
    ASSUME IInv, ~aborted, Spill
    PROVE  IInv'
  <1>1. UNCHANGED <<now, log, appending, rest, g_output, logged, sent, pending,
                    batch, backEnd, aborted>>
    BY DEF Spill, StdioSpills, frontVars, asyncVars
  <1>2. CASE Flush
    <2>1. StreamTypeOK' /\ DiskIsPrefix'
      BY <1>1, <1>2, StreamKeep DEF IInv, StreamTypeOK
    <2>2. IdleInv'
      BY <1>1 DEF IInv, IdleInv
    <2> QED
      BY <1>1, <2>1, <2>2, LogFrame DEF IInv
  <1>3. ASSUME NEW n \in 1..Len(fp), disk' = disk \o SubSeq(fp, 1, n),
               fp' = SubSeq(fp, n + 1, Len(fp))
        PROVE  IInv'
    <2>1. /\ disk \in Seq(Bytes) /\ fp \in Seq(Bytes) /\ n \in 0..Len(fp)
      BY DEF IInv, StreamTypeOK
    <2>2. PICK a \in Seq(Bytes), r \in Seq(Bytes) :
              a = SubSeq(fp, 1, n) /\ r = fp' /\ a \o r = fp
      <3>1. /\ SubSeq(fp, 1, n) \in Seq(Bytes)
            /\ SubSeq(fp, n + 1, Len(fp)) \in Seq(Bytes)
            /\ SubSeq(fp, 1, n) \o SubSeq(fp, n + 1, Len(fp)) = fp
        BY <2>1, Cut
      <3> QED
        BY <1>3, <3>1
    <2>3. disk \o a \in Seq(Bytes)
      BY <2>1, Joined
    <2>4. StreamTypeOK' /\ IdleInv'
      BY <1>1, <1>3, <2>2, <2>3 DEF IInv, StreamTypeOK, IdleInv
    <2>5. disk' \o fp' = disk \o fp
      <3>1. Associates(disk, a, r)
        BY <2>1, Regroup
      <3> QED
        BY <1>3, <2>2, <3>1 DEF Associates
    <2>6. OnTheWay' = OnTheWay
      <3>1. OnTheWay' = disk' \o fp' \o rest' \o BytesOf(batch' \o pending')
        BY DEF OnTheWay, BytesOf
      <3> QED
        BY <1>1, <2>5, <3>1 DEF OnTheWay
    <2>7. Whole(OnTheWay', OnTheWay)
      BY <2>6, OnTheWaySeq, WholeSelf DEF IInv
    <2>8. DiskIsPrefix'
      BY <1>1, <2>4, <2>7, StreamFrame
    <2> QED
      BY <1>1, <2>4, <2>8, LogFrame DEF IInv
  <1> QED
    BY <1>2, <1>3 DEF Spill, StdioSpills

-----------------------------------------------------------------------------
(* The LogFile.                                                            *)

LEMMA Period ==
    ASSUME NEW s \in Nat, NEW t \in Nat, s <= t
    PROVE  /\ PeriodOf(s) \in Int /\ PeriodOf(t) \in Int
           /\ PeriodOf(s) <= PeriodOf(t)
  <1>1. kRollPerSeconds \in Nat \ {0}
    BY LogFileAssumptions DEF LogFileAssumptions
  <1>2. s \div kRollPerSeconds \in Nat /\ t \div kRollPerSeconds \in Nat
    BY <1>1, DivMod
  <1>3. PeriodOf(s) \in Int /\ PeriodOf(t) \in Int
    BY <1>1, <1>2 DEF PeriodOf
  <1> QED
    BY <1>1, <1>3, DivMonotone DEF PeriodOf

(* fwrite takes some of the bytes of the append. *)
LEMMA FwriteStep ==
    ASSUME IInv, ~aborted, NEW n \in 0..Len(rest), Fwrite(n),
           UNCHANGED <<frontVars, asyncVars, aborted>>
    PROVE  IInv'
  <1>1. /\ fp' = fp \o SubSeq(rest, 1, n)
        /\ rest' = SubSeq(rest, n + 1, Len(rest))
        /\ log' = [log EXCEPT !.writtenBytes = @ + n]
        /\ appending
        /\ UNCHANGED <<now, appending, disk, g_output, logged, sent, pending,
                       batch, backEnd, aborted>>
    BY DEF Fwrite, frontVars, asyncVars
  <1>2. /\ disk \in Seq(Bytes) /\ fp \in Seq(Bytes) /\ rest \in Seq(Bytes)
        /\ batch \in Seq(Nat) /\ pending \in Seq(Nat) /\ n \in Nat
    BY DEF IInv, StreamTypeOK
  <1>3. PICK a \in Seq(Bytes) : a = SubSeq(rest, 1, n)
    BY <1>2, Cut
  <1>4. rest' \in Seq(Bytes) /\ a \o rest' = rest
    BY <1>1, <1>2, <1>3, Cut
  <1>5. fp \o a \in Seq(Bytes) /\ fp' = fp \o a
    BY <1>1, <1>2, <1>3, Joined
  <1>6. disk' \o fp' \o rest' = disk \o fp \o rest
    <2>1. PICK d \in Seq(Bytes) : d = disk \o fp
      BY <1>2, Joined
    <2>2. Associates(disk, fp, a) /\ Associates(d, a, rest')
      BY <1>2, <1>4, Regroup
    <2>3. d \o a = disk \o (fp \o a)
      BY <2>1, <2>2 DEF Associates
    <2>4. (d \o a) \o rest' = d \o (a \o rest')
      BY <2>2 DEF Associates
    <2> QED
      BY <1>1, <1>4, <1>5, <2>1, <2>3, <2>4
  <1>7. StreamTypeOK' /\ IdleInv'
    <2>1. StreamTypeOK'
      BY <1>1, <1>4, <1>5 DEF IInv, StreamTypeOK
    <2>2. IdleInv'
      BY <1>1 DEF IInv, IdleInv
    <2> QED
      BY <2>1, <2>2
  <1>8. DiskIsPrefix'
    <2>1. OnTheWay' = OnTheWay
      <3>1. OnTheWay' = disk' \o fp' \o rest' \o BytesOf(batch' \o pending')
        BY DEF OnTheWay, BytesOf
      <3> QED
        BY <1>1, <1>6, <3>1 DEF OnTheWay
    <2>2. Whole(OnTheWay', OnTheWay)
      BY <2>1, OnTheWaySeq, WholeSelf DEF IInv
    <2> QED
      BY <1>1, <1>7, <2>2, StreamFrame
  <1>9. PICK w \in Nat : w = log.writtenBytes + n
    BY <1>2 DEF IInv, LogTypeOK
  <1>10. log' = [log EXCEPT !.writtenBytes = w]
    BY <1>1, <1>9
  <1>11. LogTypeOK' /\ RollInv' /\ RolledInTime'
    BY <1>1, <1>9, <1>10 DEF IInv, LogTypeOK, RollInv, RolledInTime, PeriodOf
  <1> QED
    BY <1>7, <1>8, <1>11 DEF IInv

(* What the end of an append makes of the LogFile's fields. *)
RollOK(l) ==
    /\ l \in [count : Nat, startOfPeriod : Int, lastRoll : Nat,
              lastFlush : Nat, writtenBytes : Nat, late : Nat,
              lastAppend : Nat]
    /\ l.lastRoll <= now
    /\ l.startOfPeriod = PeriodOf(l.lastRoll)
    /\ l.late <= l.count /\ l.count < checkEveryN
    /\ l.late > 0 => l.startOfPeriod < PeriodOf(now)
    /\ l.writtenBytes > rollSize => l.lastAppend = l.lastRoll

LEMMA EndAppendRolls ==
    ASSUME IInv, EndAppend
    PROVE  RollOK(log') /\ (Flush \/ UNCHANGED <<fp, disk>>)
  <1>1. /\ now \in Nat
        /\ log \in [count : Nat, startOfPeriod : Int, lastRoll : Nat,
                    lastFlush : Nat, writtenBytes : Nat, late : Nat,
                    lastAppend : Nat]
        /\ log.lastRoll <= now
        /\ log.startOfPeriod = PeriodOf(log.lastRoll)
        /\ log.late <= log.count /\ log.count < checkEveryN
        /\ log.late > 0 => log.startOfPeriod < PeriodOf(now)
    BY DEF IInv, LogTypeOK, RollInv
  <1>2. checkEveryN \in Nat \ {0} /\ rollSize \in Nat
    BY LogFileAssumptions DEF LogFileAssumptions
  <1>3. /\ log.lastRoll \in Nat /\ log.count \in Nat /\ log.late \in Nat
        /\ log.lastFlush \in Nat /\ log.writtenBytes \in Nat
        /\ log.startOfPeriod \in Int /\ log.lastAppend \in Nat
    BY <1>1
  <1>4. /\ PeriodOf(now) \in Int /\ log.startOfPeriod <= PeriodOf(now)
    BY <1>1, <1>3, Period
  <1> DEFINE T == [count : Nat, startOfPeriod : Int, lastRoll : Nat,
                   lastFlush : Nat, writtenBytes : Nat, late : Nat,
                   lastAppend : Nat]
  <1>5. ASSUME NEW l \in T
        PROVE  RollOK(NewFile(l)) \/ l.count >= checkEveryN
    <2> DEFINE m == NewFile(l)
    <2>1. /\ m \in T /\ m.lastRoll = now /\ m.startOfPeriod = PeriodOf(now)
          /\ m.late = 0 /\ m.writtenBytes = 0 /\ m.count = l.count
      BY <1>1, <1>4 DEF NewFile
    <2> HIDE DEF m
    <2>2. m.count \in Nat /\ ~(m.writtenBytes > rollSize)
      BY <1>2, <2>1
    <2>3. RollOK(m) \/ l.count >= checkEveryN
      BY <1>1, <1>2, <2>1, <2>2 DEF RollOK
    <2> QED
      BY <2>3 DEF m
  <1>6. PICK late \in Nat :
            /\ late = IF PeriodOf(now) = log.startOfPeriod
                      THEN log.late ELSE log.late + 1
            /\ late <= log.late + 1
            /\ late > 0 => log.startOfPeriod < PeriodOf(now)
            /\ PeriodOf(now) = log.startOfPeriod => late = 0
    <2>1. CASE PeriodOf(now) = log.startOfPeriod
      BY <1>1, <1>3, <1>4, <2>1
    <2>2. CASE PeriodOf(now) # log.startOfPeriod
      BY <1>1, <1>3, <1>4, <2>2
    <2> QED
      BY <2>1, <2>2
  <1> DEFINE A == Appended
  <1>7. /\ A \in T /\ A.lastAppend = now /\ A.late = late
        /\ A.count = log.count /\ A.lastRoll = log.lastRoll
        /\ A.startOfPeriod = log.startOfPeriod /\ A.lastFlush = log.lastFlush
        /\ A.writtenBytes = log.writtenBytes
    <2>1. A = [log EXCEPT !.lastAppend = now, !.late = late]
      BY <1>6 DEF Appended
    <2> HIDE DEF A
    <2> QED
      BY <1>1, <2>1
  <1> HIDE DEF A
  <1>8. CASE AppendOversize
    <2>1. CASE now > log.lastRoll
      <3>1. log' = NewFile(A) /\ Flush
        BY <1>7, <1>8, <2>1 DEF AppendOversize, rollFile, A
      <3> QED
        BY <1>1, <1>2, <1>3, <1>5, <1>7, <3>1
    <2>2. CASE ~(now > log.lastRoll)
      <3>1. log' = A /\ UNCHANGED <<fp, disk>>
        BY <1>7, <1>8, <2>2 DEF AppendOversize, rollFile, A
      <3>2. now = log.lastRoll
        BY <1>1, <1>3, <2>2
      <3>3. late = 0
        BY <1>1, <1>6, <3>2
      <3>4. RollOK(A)
        BY <1>1, <1>2, <1>3, <1>7, <3>2, <3>3 DEF RollOK
      <3> QED
        BY <3>1, <3>4
    <2> QED
      BY <2>1, <2>2
  <1>9. CASE AppendUnchecked
    <2>1. PICK c \in Nat : c = log.count + 1
      BY <1>3
    <2>2. /\ log.writtenBytes <= rollSize /\ c < checkEveryN
          /\ log' = [A EXCEPT !.count = c] /\ UNCHANGED <<fp, disk>>
      BY <1>2, <1>7, <1>9, <2>1 DEF AppendUnchecked, CheckDue, A
    <2>3. /\ log' \in T /\ log'.late = late /\ log'.count = c
          /\ log'.lastRoll = log.lastRoll
          /\ log'.startOfPeriod = log.startOfPeriod
          /\ log'.writtenBytes = log.writtenBytes
      BY <1>7, <2>2
    <2>4. late <= c /\ ~(log.writtenBytes > rollSize)
      BY <1>1, <1>2, <1>3, <1>6, <2>1, <2>2
    <2>5. RollOK(log')
      BY <1>1, <1>6, <2>2, <2>3, <2>4 DEF RollOK
    <2> QED
      BY <2>2, <2>5
  <1>10. CASE AppendNewDay
    <2> DEFINE B == [A EXCEPT !.count = 0]
    <2>1. B \in T /\ B.count = 0 /\ B.lastRoll = log.lastRoll
      BY <1>7
    <2>2. PeriodOf(now) # log.startOfPeriod /\ rollFile(B)
      BY <1>10 DEF AppendNewDay, A
    <2> HIDE DEF B
    <2>3. now > log.lastRoll
      BY <1>1, <1>3, <2>2
    <2>4. log' = NewFile(B) /\ Flush
      BY <2>1, <2>2, <2>3 DEF rollFile
    <2> QED
      BY <1>2, <1>5, <2>1, <2>4
  <1>11. CASE AppendSameDay
    <2>1. late = 0 /\ log.writtenBytes <= rollSize
      BY <1>6, <1>11 DEF AppendSameDay
    <2>2. /\ \/ log' = [A EXCEPT !.count = 0, !.lastFlush = now]
             \/ log' = [A EXCEPT !.count = 0]
          /\ Flush \/ UNCHANGED <<fp, disk>>
      BY <1>11 DEF AppendSameDay, A
    <2>3. /\ log' \in T /\ log'.late = 0 /\ log'.count = 0
          /\ log'.lastRoll = log.lastRoll
          /\ log'.startOfPeriod = log.startOfPeriod
          /\ log'.writtenBytes = log.writtenBytes
      BY <1>1, <1>7, <2>1, <2>2
    <2>4. ~(log.writtenBytes > rollSize) /\ 0 < checkEveryN
      BY <1>2, <1>3, <2>1
    <2>5. RollOK(log')
      BY <1>1, <2>3, <2>4 DEF RollOK
    <2> QED
      BY <2>2, <2>5
  <1> QED
    BY <1>8, <1>9, <1>10, <1>11 DEF EndAppend

LEMMA EndAppendStep ==
    ASSUME IInv, ~aborted, EndAppend,
           UNCHANGED <<frontVars, asyncVars, aborted>>
    PROVE  IInv'
  <1>1. /\ appending' = FALSE /\ rest = <<>> /\ UNCHANGED <<now, rest>>
        /\ UNCHANGED <<g_output, logged, sent, pending, batch, backEnd, aborted>>
    BY DEF EndAppend, frontVars, asyncVars
  <1>2. RollOK(log') /\ (Flush \/ UNCHANGED <<fp, disk>>)
    BY EndAppendRolls
  <1>3. StreamTypeOK' /\ DiskIsPrefix'
    BY <1>1, <1>2, StreamKeep
  <1>4. IdleInv'
    BY <1>1 DEF IInv, IdleInv
  <1>5. LogTypeOK' /\ RollInv'
    BY <1>1, <1>2 DEF RollOK, LogTypeOK, RollInv, IInv, PeriodOf
  <1>6. RolledInTime'
    <2>1. /\ log'.late \in Nat /\ log'.count \in Nat /\ checkEveryN \in Nat
          /\ log'.late <= log'.count /\ log'.count < checkEveryN
      BY <1>2, LogFileAssumptions DEF RollOK, LogFileAssumptions
    <2>2. log'.late < checkEveryN
      BY <2>1
    <2> QED
      BY <1>2, <2>2 DEF RollOK, RolledInTime
  <1> QED
    BY <1>3, <1>4, <1>5, <1>6 DEF IInv

(* The clock ticks: a day may end, never begin again. *)
LEMMA TimeStep ==
    ASSUME IInv, ~aborted, Time
    PROVE  IInv'
  <1>1. /\ now' = now + 1
        /\ UNCHANGED <<log, appending, rest, fp, disk, g_output, logged, sent,
                       pending, batch, backEnd, aborted>>
    BY DEF Time, Tick, fileVars, frontVars, asyncVars
  <1>2. StreamTypeOK' /\ DiskIsPrefix'
    BY <1>1, StreamKeep DEF IInv, StreamTypeOK
  <1>3. now \in Nat /\ now' \in Nat /\ now <= now'
    BY <1>1 DEF IInv, LogTypeOK
  <1>4. /\ PeriodOf(now) \in Int /\ PeriodOf(now') \in Int
        /\ PeriodOf(now) <= PeriodOf(now')
    BY <1>3, Period
  <1>5. LogTypeOK'
    BY <1>1, <1>3 DEF IInv, LogTypeOK
  <1>6. RollInv'
    <2>1. /\ log.lastRoll \in Nat /\ log.startOfPeriod \in Int
          /\ log.lastRoll <= now
          /\ log.startOfPeriod = PeriodOf(log.lastRoll)
          /\ log.late <= log.count /\ log.count < checkEveryN
          /\ log.late > 0 => log.startOfPeriod < PeriodOf(now)
      BY DEF IInv, LogTypeOK, RollInv
    <2>2. log.lastRoll <= now'
      BY <1>3, <2>1
    <2>3. log.late > 0 => log.startOfPeriod < PeriodOf(now')
      BY <1>4, <2>1
    <2>4. PeriodOf(log.lastRoll)' = PeriodOf(log.lastRoll)
            /\ PeriodOf(now)' = PeriodOf(now')
      BY <1>1 DEF PeriodOf
    <2> QED
      BY <1>1, <2>1, <2>2, <2>3, <2>4 DEF RollInv
  <1>7. IdleInv' /\ RolledInTime'
    BY <1>1 DEF IInv, IdleInv, RolledInTime
  <1> QED
    BY <1>2, <1>5, <1>6, <1>7 DEF IInv

-----------------------------------------------------------------------------
(* The front end.                                                          *)

LEMMA TwoSlots ==
    ASSUME NEW s \in Seq(Nat), NEW x \in Nat, NEW y \in Nat
    PROVE  s \o <<x, y>> = Append(s \o <<x>>, y)
  OBVIOUS

(* One more statement, and its line in the order of the slots. *)
LEMMA RecordOK ==
    ASSUME IInv, ~aborted, NEW s \in Statements, Record(s)
    PROVE  /\ logged' \in Seq(LineType) /\ SentInOrder'
           /\ \E u \in Seq(Nat) : sent' = sent \o u /\ pending' = pending \o u
           /\ UNCHANGED <<now, g_output, batch, backEnd>>
  <1>1. /\ logged \in Seq(LineType) /\ sent \in Seq(Nat) /\ pending \in Seq(Nat)
        /\ g_output \in {"stdout", "async"} /\ InOrder(sent, AsyncLines)
    BY DEF IInv, StreamTypeOK, DiskIsPrefix, SentInOrder, InOrder, AsyncLines
  <1>2. PICK x \in LineType :
            logged' = Append(logged, x) /\ x.to = g_output
    <2> DEFINE x == [from |-> s, text |-> LineOf[s], to |-> g_output]
    <2>1. x \in LineType /\ x.to = g_output
      BY <1>1 DEF LineType
    <2>2. logged' = Append(logged, x)
      BY DEF Record
    <2> HIDE DEF x
    <2> QED
      BY <2>1, <2>2
  <1>3. PICK n \in Nat :
            /\ n = Len(logged) /\ NextLine = n + 1 /\ DOMAIN logged = 1..n
    BY <1>1 DEF NextLine
  <1>4. /\ logged' \in Seq(LineType)
        /\ DOMAIN logged' = 1..n \cup {n + 1}
        /\ \A i \in 1..n : logged'[i] = logged[i]
        /\ logged'[n + 1] = x
    <2>1. /\ logged' \in Seq(LineType) /\ Len(logged') = n + 1
          /\ \A i \in 1..n : logged'[i] = logged[i]
          /\ logged'[n + 1] = x
      BY <1>1, <1>2, <1>3, AppendProperties
    <2>2. DOMAIN logged' = 1..(n + 1)
      BY <2>1
    <2>3. 1..(n + 1) = 1..n \cup {n + 1}
      OBVIOUS
    <2> QED
      BY <2>1, <2>2, <2>3
  <1>5. UNCHANGED <<now, g_output, batch, backEnd>>
    BY DEF Record
  <1>6. CASE g_output = "stdout"
    <2>1. sent' = sent /\ pending' = pending
      BY <1>6 DEF Record
    <2>2. AsyncLines' = AsyncLines
      BY <1>2, <1>3, <1>4, <1>6 DEF AsyncLines
    <2>3. SentInOrder'
      BY <1>1, <2>1, <2>2 DEF SentInOrder, InOrder, AsyncLines
    <2>4. <<>> \in Seq(Nat) /\ sent \o <<>> = sent /\ pending \o <<>> = pending
      BY <1>1, ConcatEmptySeq, EmptySeq
    <2> QED
      BY <1>4, <1>5, <2>1, <2>3, <2>4
  <1>7. CASE g_output = "async"
    <2>1. sent' = sent \o Appending /\ pending' = pending \o Appending
      BY <1>7 DEF Record
    <2>2. AsyncLines' = AsyncLines \cup {n + 1}
      BY <1>2, <1>3, <1>4, <1>7 DEF AsyncLines
    <2>3. \A i \in AsyncLines : i \in Nat /\ i < n + 1
      BY <1>3 DEF AsyncLines
    <2>4. PICK y \in Nat : y = n + 1 /\ y # Stale
      BY DEF Stale
    <2>5. PICK u \in Seq(Nat) : u = Appending /\ InOrder(sent \o u, AsyncLines')
      <3>1. CASE Appending = <<y>>
        <4>1. <<y>> \in Seq(Nat) /\ sent \o <<y>> = Append(sent, y)
          BY <1>1
        <4>2. InOrder(Append(sent, y), AsyncLines \cup {y})
          BY <1>1, <2>3, <2>4, OrderLine
        <4> QED
          BY <2>2, <2>4, <3>1, <4>1, <4>2
      <3>2. CASE Appending = <<Stale, y>>
        <4>1. PICK z \in Seq(Nat) :
                  z = <<Stale>> /\ \A k \in 1..Len(z) : z[k] = Stale
          <5>1. <<Stale>> \in Seq(Nat)
            BY DEF Stale
          <5>2. \A k \in 1..Len(<<Stale>>) : <<Stale>>[k] = Stale
            OBVIOUS
          <5> QED
            BY <5>1, <5>2
        <4>2. PICK t \in Seq(Nat) : t = sent \o z
          BY <1>1, Joined
        <4>3. InOrder(t, AsyncLines)
          BY <1>1, <4>1, <4>2, OrderStale
        <4>4. InOrder(Append(t, y), AsyncLines \cup {y})
          BY <2>3, <2>4, <4>3, OrderLine
        <4>5. <<Stale, y>> \in Seq(Nat) /\ sent \o <<Stale, y>> = Append(t, y)
          BY <1>1, <4>1, <4>2, TwoSlots DEF Stale
        <4> QED
          BY <2>2, <2>4, <3>2, <4>4, <4>5
      <3> QED
        BY <1>3, <2>4, <3>1, <3>2 DEF Appending
    <2>6. SentInOrder'
      BY <2>1, <2>5 DEF SentInOrder, InOrder, AsyncLines
    <2> QED
      BY <1>4, <1>5, <2>1, <2>5, <2>6
  <1> QED
    BY <1>1, <1>6, <1>7

LEMMA LogStep ==
    ASSUME IInv, ~aborted, NEW s \in Statements, Log(s)
    PROVE  IInv'
  <1>1. Record(s) /\ UNCHANGED <<log, appending, rest, fp, disk, aborted>>
    BY DEF Log, fileVars
  <1>2. /\ logged' \in Seq(LineType) /\ SentInOrder'
        /\ UNCHANGED <<now, g_output, batch, backEnd>>
    BY <1>1, RecordOK
  <1>3. PICK u \in Seq(Nat) : sent' = sent \o u /\ pending' = pending \o u
    BY <1>1, RecordOK
  <1>4. sent \in Seq(Nat) /\ pending \in Seq(Nat) /\ batch \in Seq(Nat)
    BY DEF IInv, StreamTypeOK
  <1>5. StreamTypeOK' /\ IdleInv'
    <2>1. sent \o u \in Seq(Nat) /\ pending \o u \in Seq(Nat)
      BY <1>4, Joined
    <2> QED
      BY <1>1, <1>2, <1>3, <2>1 DEF IInv, StreamTypeOK, IdleInv
  <1>6. Whole(OnTheWay', BytesOf(sent'))
    <2>1. Associates(batch, pending, u)
      BY <1>4, Regroup
    <2>2. batch' \o pending' = (batch \o pending) \o u
      BY <1>2, <1>3, <2>1 DEF Associates
    <2> QED
      BY <1>1, <1>3, <2>2, SlotsAdded
  <1>7. DiskIsPrefix'
    <2>1. BytesOf(sent)' = BytesOf(sent')
      BY DEF BytesOf
    <2> QED
      BY <1>1, <1>2, <1>6, <2>1 DEF DiskIsPrefix, Whole, InPlace
  <1> QED
    BY <1>1, <1>2, <1>5, <1>7, LogFrame DEF IInv

(* abort() loses what the stream and AsyncLogging hold, a suffix. *)
LEMMA LogFatalStep ==
    ASSUME IInv, ~aborted, NEW s \in Statements, LogFatal(s)
    PROVE  IInv'
  <1>1. /\ Record(s) /\ aborted' = TRUE /\ fp' = <<>>
        /\ UNCHANGED <<log, appending, rest, disk>>
    BY DEF LogFatal
  <1>2. /\ logged' \in Seq(LineType) /\ SentInOrder'
        /\ UNCHANGED <<now, g_output, batch, backEnd>>
    BY <1>1, RecordOK
  <1>3. PICK u \in Seq(Nat) : sent' = sent \o u /\ pending' = pending \o u
    BY <1>1, RecordOK
  <1>4. /\ sent \in Seq(Nat) /\ pending \in Seq(Nat) /\ batch \in Seq(Nat)
        /\ Whole(OnTheWay, BytesOf(sent))
    BY DEF IInv, StreamTypeOK, DiskIsPrefix, Whole
  <1>5. StreamTypeOK' /\ IdleInv'
    <2>1. sent \o u \in Seq(Nat) /\ pending \o u \in Seq(Nat)
      BY <1>4, Joined
    <2> QED
      BY <1>1, <1>2, <1>3, <2>1, EmptySeq DEF IInv, StreamTypeOK, IdleInv
  <1>6. PICK d \in Seq(Bytes), p \in Seq(Bytes), r \in Seq(Bytes),
             b \in Seq(Bytes), t \in Seq(Bytes), c \in Seq(Bytes) :
            /\ d = disk /\ p = fp /\ r = rest /\ b = BytesOf(batch \o pending)
            /\ t = BytesOf(sent) /\ c = BytesOf(u)
    <2>1. batch \o pending \in Seq(Nat)
      BY <1>4, Joined
    <2>2. BytesOf(batch \o pending) \in Seq(Bytes)
      BY <2>1, BytesSeq
    <2>3. BytesOf(sent) \in Seq(Bytes) /\ BytesOf(u) \in Seq(Bytes)
      BY <1>4, BytesSeq
    <2> QED
      BY <2>2, <2>3 DEF IInv, StreamTypeOK
  <1>7. PICK a \in Seq(Bytes) : OnTheWay = d \o a
    <2>1. PICK m \in Seq(Bytes) : m = p \o r
      BY Joined
    <2>2. PICK a \in Seq(Bytes) : a = m \o b
      BY Joined
    <2>3. Associates(d, p, r) /\ Associates(d, m, b)
      BY Regroup
    <2>4. (d \o p) \o r = d \o m /\ (d \o m) \o b = d \o a
      BY <2>1, <2>2, <2>3 DEF Associates
    <2>5. OnTheWay = ((d \o p) \o r) \o b
      BY <1>6 DEF OnTheWay
    <2> QED
      BY <2>4, <2>5
  <1>8. InPlace(d, t \o c)
    BY <1>4, <1>6, <1>7, KeptFront
  <1>9. BytesOf(sent)' = t \o c
    <2>1. BytesOf(sent \o u) = t \o c
      BY <1>4, <1>6, BytesJoin
    <2> QED
      BY <1>3, <2>1 DEF BytesOf
  <1>10. DiskIsPrefix'
    <2>1. InPlace(disk, BytesOf(sent))' = InPlace(disk', BytesOf(sent)')
      BY DEF InPlace
    <2> QED
      BY <1>1, <1>2, <1>6, <1>8, <1>9, <2>1 DEF DiskIsPrefix
  <1> QED
    BY <1>1, <1>2, <1>5, <1>10, LogFrame DEF IInv

LEMMA SettingStep ==
    ASSUME IInv, ~aborted, setOutput \/ \E level \in Levels : setLogLevel(level)
    PROVE  IInv'
  <1>1. /\ UNCHANGED <<now, log, appending, rest, fp, disk, logged, sent,
                       pending, batch, backEnd, aborted>>
        /\ g_output' \in {g_output, "async"}
    BY DEF setOutput, setLogLevel, fileVars, asyncVars
  <1>2. StreamTypeOK' /\ IdleInv'
    BY <1>1 DEF IInv, StreamTypeOK, IdleInv
  <1>3. OnTheWay' = OnTheWay
    BY <1>1 DEF OnTheWay, BytesOf
  <1>4. Whole(OnTheWay', OnTheWay)
    BY <1>3, OnTheWaySeq, WholeSelf DEF IInv
  <1>5. DiskIsPrefix'
    BY <1>1, <1>2, <1>4, StreamFrame
  <1> QED
    BY <1>1, <1>2, <1>5, LogFrame DEF IInv

-----------------------------------------------------------------------------
(* Least numbers, and induction with a set for the property.               *)

(* Every set of numbers that has a member has a least one. *)
LEMMA LeastNumber ==
    ASSUME NEW T, T \subseteq Nat, T # {}
    PROVE  \E n \in T : \A m \in T : n <= m
  <1>1. PICK n \in T : \A m \in T : ~(<<m, n>> \in OpToRel(<, Nat))
    BY NatLessThanWellFounded, WFMin
  <1>2. \A m \in T : ~(m < n)
    BY <1>1 DEF OpToRel
  <1> QED
    BY <1>2

(* Induction, by the least number that is not in T. *)
LEMMA Induction ==
    ASSUME NEW T, 0 \in T, \A n \in Nat : n \in T => n + 1 \in T
    PROVE  \A n \in Nat : n \in T
  <1> SUFFICES ASSUME Nat \ T # {} PROVE FALSE
    OBVIOUS
  <1>1. PICK n \in Nat \ T : \A m \in Nat \ T : n <= m
    BY LeastNumber
  <1>2. n # 0 /\ n - 1 \in Nat /\ n - 1 \in T
    BY <1>1
  <1> QED
    BY <1>1, <1>2

-----------------------------------------------------------------------------
(* The digits of a number.                                                 *)

(* The symbols of a line.  The ones of the layout are named because the    *)
(* provers do not know which strings there are.                            *)
Digits == {digits[k] : k \in 1..19}
Symbols ==
    STRING \cup Digits
    \cup {"date", "hour", "minute", "micros", "sp", "-", ":", "nl"}

(* A division makes a number smaller. *)
LEMMA QuotientIs ==
    ASSUME NEW m \in Nat, NEW num \in (-(m + 1))..(m + 1)
    PROVE  /\ Quotient(num) \in (-m)..m
           /\ Remainder(num) \in (-9)..9
  BY DEF Quotient, Remainder

LEMMA ZeroIs ==
    /\ Quotient(0) = 0
    /\ \A num \in Int : Quotient(num) \in Int /\ Remainder(num) \in (-9)..9
  BY DEF Quotient, Remainder

LEMMA DigitIs ==
    ASSUME NEW r \in (-9)..9
    PROVE  zero(r) \in Digits
  <1>1. 10 + r \in 1..19
    OBVIOUS
  <1> QED
    BY <1>1 DEF zero, Digits

(* One round of convert's loop, with f for the rounds behind it. *)
Round(f, num) ==
    <<zero(Remainder(num))>>
    \o IF MoreDigits(Quotient(num)) THEN f[Quotient(num)] ELSE <<>>

(* f is what the definition of Backwards asks for, for the numbers up to   *)
(* m and down to -m.                                                       *)
Rounds(f, m) == f = [num \in (-m)..m |-> Round(f, num)]

LEMMA RoundsAt ==
    ASSUME NEW f, NEW m \in Nat, Rounds(f, m), NEW num \in (-m)..m
    PROVE  f[num] = Round(f, num)
  <1> DEFINE G == [i \in (-m)..m |-> Round(f, i)]
  <1>1. f = G
    BY DEF Rounds
  <1>2. G[num] = Round(f, num)
    OBVIOUS
  <1> HIDE DEF G
  <1> QED
    BY <1>1, <1>2

LEMMA RoundEqual ==
    ASSUME NEW f, NEW g, NEW num \in Int,
           MoreDigits(Quotient(num)) => f[Quotient(num)] = g[Quotient(num)]
    PROVE  Round(f, num) = Round(g, num)
  BY DEF Round

(* There is such a function for every m. *)
LEMMA RoundsExist ==
    ASSUME NEW n \in Nat
    PROVE  \E f : Rounds(f, n)
  <1> DEFINE T == {m \in Nat : \E f : Rounds(f, m)}
  <1>1. 0 \in T
    <2> DEFINE g == [num \in (-0)..0 |-> Round(<<>>, num)]
    <2>1. Rounds(g, 0)
      <3>1. ASSUME NEW num \in (-0)..0
            PROVE  Round(g, num) = Round(<<>>, num)
        <4>1. num = 0
          OBVIOUS
        <4>2. ~MoreDigits(Quotient(num))
          BY <4>1, ZeroIs DEF MoreDigits
        <4> QED
          BY <4>2 DEF Round
      <3> QED
        BY <3>1 DEF Rounds
    <2> HIDE DEF g
    <2> QED
      BY <2>1
  <1>2. ASSUME NEW m \in Nat, m \in T
        PROVE  m + 1 \in T
    <2>1. PICK f : Rounds(f, m)
      BY <1>2
    <2> DEFINE g == [num \in (-(m + 1))..(m + 1) |-> Round(f, num)]
    <2>2. Rounds(g, m + 1)
      <3>1. ASSUME NEW num \in (-(m + 1))..(m + 1)
            PROVE  Round(g, num) = Round(f, num)
        <4>1. PICK q \in (-m)..m : q = Quotient(num)
          BY QuotientIs
        <4>2. g[q] = Round(f, q)
          OBVIOUS
        <4>3. f[q] = Round(f, q)
          BY <2>1, RoundsAt
        <4>4. num \in Int
          OBVIOUS
        <4> HIDE DEF g
        <4> QED
          BY <4>1, <4>2, <4>3, <4>4, RoundEqual
      <3> QED
        BY <3>1 DEF Rounds
    <2> HIDE DEF g
    <2> QED
      BY <2>2
  <1> HIDE DEF T
  <1>3. \A m \in Nat : m \in T
    BY <1>1, <1>2, Induction
  <1> QED
    BY <1>3 DEF T

(* Two such functions agree where both are defined. *)
LEMMA RoundsAgree ==
    ASSUME NEW f, NEW g, NEW m \in Nat, NEW n \in Nat,
           Rounds(f, m), Rounds(g, n), NEW num \in (-m)..m, num \in (-n)..n
    PROVE  f[num] = g[num]
  <1> DEFINE Common == {i \in Int : i \in (-m)..m /\ i \in (-n)..n}
             T == {d \in Nat : \A i \in Common : i \in (-d)..d => f[i] = g[i]}
  <1>1. ASSUME NEW i \in Common,
               MoreDigits(Quotient(i)) => f[Quotient(i)] = g[Quotient(i)]
        PROVE  f[i] = g[i]
    <2>1. f[i] = Round(f, i) /\ g[i] = Round(g, i)
      BY RoundsAt
    <2> QED
      BY <1>1, <2>1, RoundEqual
  <1>2. 0 \in T
    <2>1. ASSUME NEW i \in Common, i \in (-0)..0
          PROVE  f[i] = g[i]
      <3>1. i = 0
        BY <2>1
      <3>2. ~MoreDigits(Quotient(i))
        BY <3>1, ZeroIs DEF MoreDigits
      <3> QED
        BY <1>1, <3>2
    <2> QED
      BY <2>1
  <1>3. ASSUME NEW d \in Nat, d \in T
        PROVE  d + 1 \in T
    <2>1. ASSUME NEW i \in Common, i \in (-(d + 1))..(d + 1)
          PROVE  f[i] = g[i]
      <3>1. PICK q \in (-d)..d : q = Quotient(i)
        BY <2>1, QuotientIs
      <3>2. q \in Common
        <4>1. ASSUME NEW k \in Nat, i \in (-k)..k
              PROVE  Quotient(i) \in (-k)..k
          <5>1. i \in (-(k + 1))..(k + 1)
            BY <4>1
          <5> QED
            BY <5>1, QuotientIs
        <4> QED
          BY <3>1, <4>1
      <3>3. f[q] = g[q]
        BY <1>3, <3>2
      <3> QED
        BY <1>1, <3>1, <3>3
    <2> QED
      BY <2>1
  <1> HIDE DEF T
  <1>4. \A d \in Nat : d \in T
    BY <1>2, <1>3, Induction
  <1>5. m \in T
    BY <1>4
  <1> QED
    BY <1>5 DEF T

(* So Backwards is what its definition says. *)
LEMMA BackwardsIs ==
    \A num \in Int : Backwards[num] = Round(Backwards, num)
  <1> DEFINE Abs(num) == IF num < 0 THEN -num ELSE num
             Approx(m) == CHOOSE f : Rounds(f, m)
             F == [num \in Int |-> Approx(Abs(num))[num]]
  <1>1. \A m \in Nat : Rounds(Approx(m), m)
    BY RoundsExist
  <1>2. \A num \in Int : Abs(num) \in Nat /\ num \in (-Abs(num))..Abs(num)
    OBVIOUS
  <1> HIDE DEF Abs, Approx
  <1>3. ASSUME NEW num \in Int
        PROVE  F[num] = Round(F, num)
    <2>1. PICK m \in Nat : m = Abs(num) /\ num \in (-m)..m
      BY <1>2
    <2>2. PICK q \in Int : q = Quotient(num) /\ q \in (-m)..m
      <3>1. num \in (-(m + 1))..(m + 1)
        BY <2>1
      <3>2. Quotient(num) \in (-m)..m
        <4>1. num \in Int /\ m \in Nat /\ num <= m /\ -m <= num
          BY <2>1
        <4> QED
          BY <4>1 DEF Quotient
      <3> QED
        BY <3>2
    <2>3. PICK k \in Nat : k = Abs(q) /\ q \in (-k)..k
      BY <1>2
    <2>4. PICK f, g : f = Approx(m) /\ g = Approx(k)
      OBVIOUS
    <2>5. Rounds(f, m) /\ Rounds(g, k)
      BY <1>1, <2>4
    <2>6. f[q] = g[q]
      BY <2>2, <2>3, <2>5, RoundsAgree
    <2>7. F[num] = f[num] /\ F[q] = g[q]
      BY <2>1, <2>3, <2>4
    <2>8. f[num] = Round(f, num)
      BY <2>1, <2>5, RoundsAt
    <2> HIDE DEF F
    <2>9. Round(f, num) = Round(F, num)
      BY <2>2, <2>6, <2>7, RoundEqual
    <2> QED
      BY <2>7, <2>8, <2>9
  <1>4. F = [num \in Int |-> Round(F, num)]
    <2>1. F = [num \in Int |-> F[num]]
      OBVIOUS
    <2> HIDE DEF F
    <2> QED
      BY <1>3, <2>1
  <1> HIDE DEF F
  <1>5. Backwards = [num \in Int |-> Round(Backwards, num)]
    BY <1>4 DEF Backwards, Round
  <1> DEFINE G == [num \in Int |-> Round(Backwards, num)]
  <1>6. Backwards = G /\ \A num \in Int : G[num] = Round(Backwards, num)
    BY <1>5
  <1> HIDE DEF G
  <1> QED
    BY <1>6
-----------------------------------------------------------------------------
(* Reverse.                                                                *)

LEMMA ReverseSeq ==
    ASSUME NEW S, NEW s \in Seq(S)
    PROVE  /\ Reverse(s) \in Seq(S) /\ Len(Reverse(s)) = Len(s)
           /\ \A i \in 1..Len(s) : Reverse(s)[i] = s[(Len(s) - i) + 1]
  <1>1. \A i \in 1..Len(s) : s[(Len(s) - i) + 1] \in S
    OBVIOUS
  <1> QED
    BY <1>1 DEF Reverse

LEMMA ReverseOne ==
    ASSUME NEW d
    PROVE  Reverse(<<d>>) = <<d>>
  BY DEF Reverse

LEMMA ConsProperties ==
    ASSUME NEW S, NEW s \in Seq(S), NEW d \in S
    PROVE  /\ <<d>> \o s \in Seq(S) /\ Len(<<d>> \o s) = Len(s) + 1
           /\ (<<d>> \o s)[1] = d
           /\ \A i \in 1..Len(s) : (<<d>> \o s)[i + 1] = s[i]
  OBVIOUS

LEMMA SnocProperties ==
    ASSUME NEW S, NEW s \in Seq(S), NEW d \in S
    PROVE  /\ s \o <<d>> \in Seq(S) /\ Len(s \o <<d>>) = Len(s) + 1
           /\ (s \o <<d>>)[Len(s) + 1] = d
           /\ \A i \in 1..Len(s) : (s \o <<d>>)[i] = s[i]
  OBVIOUS

LEMMA ReverseCons ==
    ASSUME NEW S, NEW s \in Seq(S), NEW d \in S
    PROVE  Reverse(<<d>> \o s) = Reverse(s) \o <<d>>
  <1>1. PICK r \in Seq(S) : r = Reverse(s)
    BY ReverseSeq
  <1>2. PICK c \in Seq(S) : c = <<d>> \o s
    BY ConsProperties
  <1>3. PICK u \in Seq(S) : u = Reverse(c)
    BY ReverseSeq
  <1>4. PICK v \in Seq(S) : v = r \o <<d>>
    BY SnocProperties
  <1>5. Len(r) = Len(s) /\ \A i \in 1..Len(s) : r[i] = s[(Len(s) - i) + 1]
    BY <1>1, ReverseSeq
  <1>6. /\ Len(c) = Len(s) + 1 /\ c[1] = d
        /\ \A i \in 1..Len(s) : c[i + 1] = s[i]
    BY <1>2, ConsProperties
  <1>7. Len(u) = Len(c) /\ \A i \in 1..Len(c) : u[i] = c[(Len(c) - i) + 1]
    BY <1>3, ReverseSeq
  <1>8. /\ Len(v) = Len(r) + 1 /\ v[Len(r) + 1] = d
        /\ \A i \in 1..Len(r) : v[i] = r[i]
    BY <1>4, SnocProperties
  <1>9. PICK n \in Nat : n = Len(s)
    OBVIOUS
  <1>10. ASSUME NEW i \in 1..(n + 1)
         PROVE  u[i] = v[i]
    <2>1. u[i] = c[((n + 1) - i) + 1]
      BY <1>6, <1>7, <1>9
    <2>2. CASE i = n + 1
      BY <1>5, <1>6, <1>8, <1>9, <2>1, <2>2
    <2>3. CASE i # n + 1
      <3>1. i \in 1..n /\ (n - i) + 1 \in 1..n
              /\ ((n + 1) - i) + 1 = ((n - i) + 1) + 1
        BY <2>3
      <3>2. c[((n - i) + 1) + 1] = s[(n - i) + 1]
        BY <1>6, <1>9, <3>1
      <3>3. v[i] = s[(n - i) + 1]
        BY <1>5, <1>8, <1>9, <3>1
      <3> QED
        BY <2>1, <3>1, <3>2, <3>3
    <2> QED
      BY <2>2, <2>3
  <1>11. Len(u) = n + 1 /\ Len(v) = n + 1
    BY <1>5, <1>6, <1>7, <1>8, <1>9
  <1>12. u = v
    BY <1>10, <1>11, SeqEqual
  <1> QED
    BY <1>1, <1>2, <1>3, <1>4, <1>12

LEMMA ReverseSnoc ==
    ASSUME NEW S, NEW s \in Seq(S), NEW d \in S
    PROVE  Reverse(s \o <<d>>) = <<d>> \o Reverse(s)
  <1>1. PICK r \in Seq(S) : r = Reverse(s)
    BY ReverseSeq
  <1>2. PICK c \in Seq(S) : c = s \o <<d>>
    BY SnocProperties
  <1>3. PICK u \in Seq(S) : u = Reverse(c)
    BY ReverseSeq
  <1>4. PICK v \in Seq(S) : v = <<d>> \o r
    BY ConsProperties
  <1>5. Len(r) = Len(s) /\ \A i \in 1..Len(s) : r[i] = s[(Len(s) - i) + 1]
    BY <1>1, ReverseSeq
  <1>6. /\ Len(c) = Len(s) + 1 /\ c[Len(s) + 1] = d
        /\ \A i \in 1..Len(s) : c[i] = s[i]
    BY <1>2, SnocProperties
  <1>7. Len(u) = Len(c) /\ \A i \in 1..Len(c) : u[i] = c[(Len(c) - i) + 1]
    BY <1>3, ReverseSeq
  <1>8. /\ Len(v) = Len(r) + 1 /\ v[1] = d
        /\ \A i \in 1..Len(r) : v[i + 1] = r[i]
    BY <1>4, ConsProperties
  <1>9. PICK n \in Nat : n = Len(s)
    OBVIOUS
  <1>10. ASSUME NEW i \in 1..(n + 1)
         PROVE  u[i] = v[i]
    <2>1. u[i] = c[((n + 1) - i) + 1]
      BY <1>6, <1>7, <1>9
    <2>2. CASE i = 1
      BY <1>6, <1>8, <1>9, <2>1, <2>2
    <2>3. CASE i # 1
      <3>1. PICK j \in 1..n : i = j + 1
        <4>1. i - 1 \in 1..n /\ i = (i - 1) + 1
          BY <2>3
        <4> QED
          BY <4>1
      <3>2. ((n + 1) - i) + 1 = (n - j) + 1 /\ (n - j) + 1 \in 1..n
        BY <3>1
      <3>3. c[(n - j) + 1] = s[(n - j) + 1]
        BY <1>6, <1>9, <3>2
      <3>4. v[i] = s[(n - j) + 1]
        BY <1>5, <1>8, <1>9, <3>1
      <3> QED
        BY <2>1, <3>2, <3>3, <3>4
    <2> QED
      BY <2>2, <2>3
  <1>11. Len(u) = n + 1 /\ Len(v) = n + 1
    BY <1>5, <1>6, <1>7, <1>8, <1>9
  <1>12. u = v
    BY <1>10, <1>11, SeqEqual
  <1> QED
    BY <1>1, <1>2, <1>3, <1>4, <1>12

-----------------------------------------------------------------------------
(* Numerals.                                                               *)

LEMMA OneSeq ==
    ASSUME NEW S, NEW d \in S
    PROVE  <<d>> \in Seq(S) /\ <<d>> \o <<>> = <<d>>
  OBVIOUS

(* The loop writes digits. *)
LEMMA BackwardsSeq ==
    ASSUME NEW n \in Int
    PROVE  Backwards[n] \in Seq(Digits)
  <1> DEFINE T == {m \in Nat : \A i \in (-m)..m : Backwards[i] \in Seq(Digits)}
  <1>1. ASSUME NEW i \in Int,
               MoreDigits(Quotient(i)) =>
                   Backwards[Quotient(i)] \in Seq(Digits)
        PROVE  Backwards[i] \in Seq(Digits)
    <2>1. Backwards[i] = Round(Backwards, i)
      BY BackwardsIs
    <2>2. PICK d \in Digits : d = zero(Remainder(i))
      BY ZeroIs, DigitIs
    <2>3. CASE MoreDigits(Quotient(i))
      <3>1. PICK b \in Seq(Digits) : b = Backwards[Quotient(i)]
        BY <1>1, <2>3
      <3>2. Backwards[i] = <<d>> \o b
        BY <2>1, <2>2, <2>3, <3>1 DEF Round
      <3> QED
        BY <3>2, ConsProperties
    <2>4. CASE ~MoreDigits(Quotient(i))
      <3>1. Backwards[i] = <<d>> \o <<>>
        BY <2>1, <2>2, <2>4 DEF Round
      <3> QED
        BY <3>1, OneSeq
    <2> QED
      BY <2>3, <2>4
  <1>2. 0 \in T
    <2>1. ASSUME NEW i \in (-0)..0
          PROVE  Backwards[i] \in Seq(Digits)
      <3>1. i = 0 /\ i \in Int
        OBVIOUS
      <3>2. ~MoreDigits(Quotient(i))
        BY <3>1, ZeroIs DEF MoreDigits
      <3> QED
        BY <1>1, <3>1, <3>2
    <2> QED
      BY <2>1
  <1>3. ASSUME NEW m \in Nat, m \in T
        PROVE  m + 1 \in T
    <2>1. ASSUME NEW i \in (-(m + 1))..(m + 1)
          PROVE  Backwards[i] \in Seq(Digits)
      <3>1. Quotient(i) \in (-m)..m /\ i \in Int
        BY QuotientIs
      <3>2. Backwards[Quotient(i)] \in Seq(Digits)
        BY <1>3, <3>1
      <3> QED
        BY <1>1, <3>1, <3>2
    <2> QED
      BY <2>1
  <1> HIDE DEF T
  <1>4. \A m \in Nat : m \in T
    BY <1>2, <1>3, Induction
  <1>5. CASE n >= 0
    <2>1. n \in Nat /\ n \in (-n)..n
      BY <1>5
    <2> QED
      BY <1>4, <2>1 DEF T
  <1>6. CASE n < 0
    <2>1. PICK m \in Nat : m = -n
      BY <1>6
    <2>2. n \in (-m)..m
      BY <2>1
    <2> QED
      BY <1>4, <2>2 DEF T
  <1> QED
    BY <1>5, <1>6

LEMMA DigitsMirror ==
    ASSUME NEW r \in 0..9
    PROVE  zero(-r) = zero(r)
  <1>1. \/ r = 0 \/ r = 1 \/ r = 2 \/ r = 3 \/ r = 4
        \/ r = 5 \/ r = 6 \/ r = 7 \/ r = 8 \/ r = 9
    OBVIOUS
  <1>2. CASE r = 0 \/ r = 1 \/ r = 2 \/ r = 3 \/ r = 4
    BY <1>2 DEF zero, digits
  <1>3. CASE r = 5 \/ r = 6 \/ r = 7 \/ r = 8 \/ r = 9
    BY <1>3 DEF zero, digits
  <1> QED
    BY <1>1, <1>2, <1>3

LEMMA QuotientMirror ==
    ASSUME NEW n \in Nat
    PROVE  /\ Quotient(n) = n \div 10 /\ Quotient(-n) = -(n \div 10)
           /\ Remainder(n) = n % 10 /\ Remainder(-n) = -(n % 10)
           /\ n \div 10 \in Nat /\ n % 10 \in 0..9
           /\ n > 0 => n \div 10 < n
           /\ n < 10 => n \div 10 = 0 /\ n % 10 = n
           /\ n >= 10 => n \div 10 > 0
  BY DEF Quotient, Remainder

LEMMA MinusZero ==
    ASSUME NEW i \in Int, i <= 0, 0 <= i
    PROVE  -i = i
  OBVIOUS

(* A negative number has the digits of its absolute value: the table of    *)
(* digits is the same on both sides of its zero.                           *)
LEMMA BackwardsMirror ==
    ASSUME NEW n \in Nat
    PROVE  Backwards[-n] = Backwards[n]
  <1> DEFINE T == {m \in Nat : \A i \in 0..m : Backwards[-i] = Backwards[i]}
  <1>1. ASSUME NEW i \in Nat,
               i \div 10 # 0 => Backwards[-(i \div 10)] = Backwards[i \div 10]
        PROVE  Backwards[-i] = Backwards[i]
    <2>1. PICK q \in Nat, r \in 0..9 : q = i \div 10 /\ r = i % 10
      BY QuotientMirror
    <2>2. /\ Quotient(i) = q /\ Quotient(-i) = -q
          /\ Remainder(i) = r /\ Remainder(-i) = -r
      BY <2>1, QuotientMirror
    <2>3. zero(-r) = zero(r)
      BY DigitsMirror
    <2>4. /\ Backwards[i] = Round(Backwards, i)
          /\ Backwards[-i] = Round(Backwards, -i)
      BY BackwardsIs
    <2>5. Round(Backwards, i)
            = <<zero(r)>> \o IF q # 0 THEN Backwards[q] ELSE <<>>
      BY <2>2 DEF Round, MoreDigits
    <2>6. Round(Backwards, -i)
            = <<zero(r)>> \o IF -q # 0 THEN Backwards[-q] ELSE <<>>
      BY <2>2, <2>3 DEF Round, MoreDigits
    <2>7. -q # 0 <=> q # 0
      OBVIOUS
    <2> QED
      BY <1>1, <2>1, <2>4, <2>5, <2>6, <2>7
  <1>2. 0 \in T
    <2>1. ASSUME NEW i \in 0..0
          PROVE  Backwards[-i] = Backwards[i]
      <3>1. i \in Int /\ i <= 0 /\ 0 <= i
        OBVIOUS
      <3>2. -i = i
        BY <3>1, MinusZero
      <3> QED
        BY <3>2
    <2> QED
      BY <2>1
  <1>3. ASSUME NEW m \in Nat, m \in T
        PROVE  m + 1 \in T
    <2>1. ASSUME NEW i \in 0..(m + 1)
          PROVE  Backwards[-i] = Backwards[i]
      <3>1. i \in Nat /\ i <= m + 1
        OBVIOUS
      <3>2. PICK q \in Nat : q = i \div 10
        BY <3>1, QuotientMirror
      <3>3. q # 0 => q \in 0..m
        BY <3>1, <3>2
      <3>4. q # 0 => Backwards[-q] = Backwards[q]
        BY <1>3, <3>3
      <3> QED
        BY <1>1, <3>1, <3>2, <3>4
    <2> QED
      BY <2>1
  <1> HIDE DEF T
  <1>4. n \in T
    BY <1>2, <1>3, Induction
  <1>5. n \in 0..n
    OBVIOUS
  <1> QED
    BY <1>4, <1>5 DEF T

(* Numeral has the three properties by which NumeralOf is defined. *)
LEMMA NumeralNegative ==
    ASSUME NEW n \in Int, n < 0
    PROVE  Numeral(n) = <<"-">> \o Numeral(-n)
  <1>1. PICK m \in Nat : m = -n /\ -m = n /\ ~(m < 0)
    OBVIOUS
  <1>2. PICK b \in Seq(Symbols) : b = Backwards[m]
    <2>1. Backwards[m] \in Seq(Digits)
      BY BackwardsSeq
    <2>2. Digits \subseteq Symbols
      BY DEF Symbols
    <2>3. Backwards[m] \in Seq(Symbols)
      BY <2>1, <2>2
    <2> QED
      BY <2>3
  <1>3. "-" \in Symbols
    BY DEF Symbols
  <1>4. Backwards[n] = b
    BY <1>1, <1>2, BackwardsMirror
  <1>5. Numeral(n) = Reverse(b \o <<"-">>)
    BY <1>4 DEF Numeral
  <1>6. Numeral(m) = Reverse(b)
    <2>1. b \o <<>> = b
      OBVIOUS
    <2> QED
      BY <1>1, <1>2, <2>1 DEF Numeral
  <1>7. Reverse(b \o <<"-">>) = <<"-">> \o Reverse(b)
    BY <1>3, ReverseSnoc
  <1> QED
    BY <1>1, <1>5, <1>6, <1>7

LEMMA NumeralPositive ==
    ASSUME NEW n \in Nat
    PROVE  /\ Numeral(n) = Reverse(Backwards[n])
           /\ Backwards[n] \in Seq(Digits) /\ Numeral(n) \in Seq(Digits)
  <1>1. PICK b \in Seq(Digits) : b = Backwards[n]
    BY BackwardsSeq
  <1>2. ~(n < 0) /\ b \o <<>> = b
    OBVIOUS
  <1>3. Numeral(n) = Reverse(b)
    BY <1>1, <1>2 DEF Numeral
  <1>4. Reverse(b) \in Seq(Digits)
    BY ReverseSeq
  <1> QED
    BY <1>1, <1>3, <1>4

LEMMA DigitFront ==
    ASSUME NEW n \in 0..9
    PROVE  SubSeq(digits, 10, 19)[n + 1] = zero(n)
  <1> DEFINE X == {"0", "1", "2", "3", "4", "5", "6", "7", "8", "9"}
  <1>1. digits \in Seq(X) /\ Len(digits) = 19
    BY DEF digits
  <1>2. PICK ds \in Seq(X) : ds = digits /\ Len(ds) = 19
    BY <1>1
  <1> HIDE DEF X
  <1>3. SubSeq(ds, 10, 19)[n + 1] = ds[10 + n]
    OBVIOUS
  <1> QED
    BY <1>2, <1>3 DEF zero

LEMMA NumeralDigit ==
    ASSUME NEW n \in 0..9
    PROVE  Numeral(n) = <<SubSeq(digits, 10, 19)[n + 1]>>
  <1>1. n \in Nat /\ n < 10
    OBVIOUS
  <1>2. Quotient(n) = 0 /\ Remainder(n) = n
    BY <1>1, QuotientMirror
  <1>3. PICK d \in Digits : d = zero(n)
    BY DigitIs
  <1>4. Backwards[n] = Round(Backwards, n)
    BY BackwardsIs
  <1>5. Round(Backwards, n) = <<d>> \o <<>>
    BY <1>2, <1>3 DEF Round, MoreDigits
  <1>6. Backwards[n] = <<d>>
    BY <1>4, <1>5, OneSeq
  <1>7. Numeral(n) = Reverse(<<d>>)
    BY <1>1, <1>6, NumeralPositive
  <1>8. Numeral(n) = <<d>>
    BY <1>7, ReverseOne
  <1> QED
    BY <1>3, <1>8, DigitFront

LEMMA NumeralMore ==
    ASSUME NEW n \in Nat, n >= 10
    PROVE  Numeral(n) = Numeral(n \div 10) \o Numeral(n % 10)
  <1>1. PICK q \in Nat, r \in 0..9 :
            q = n \div 10 /\ r = n % 10 /\ q # 0
    BY QuotientMirror
  <1>2. Quotient(n) = q /\ Remainder(n) = r
    BY <1>1, QuotientMirror
  <1>3. PICK d \in Digits : d = zero(r)
    BY DigitIs
  <1>4. PICK b \in Seq(Digits) : b = Backwards[q] /\ Numeral(q) = Reverse(b)
    BY NumeralPositive
  <1>5. Backwards[n] = <<d>> \o b
    <2>1. Backwards[n] = Round(Backwards, n)
      BY BackwardsIs
    <2> QED
      BY <1>1, <1>2, <1>3, <1>4, <2>1 DEF Round, MoreDigits
  <1>6. Numeral(n) = Reverse(<<d>> \o b)
    BY <1>5, NumeralPositive
  <1>7. Reverse(<<d>> \o b) = Reverse(b) \o <<d>>
    BY ReverseCons
  <1>8. Numeral(r) = <<d>>
    BY <1>3, NumeralDigit, DigitFront
  <1> QED
    BY <1>1, <1>4, <1>6, <1>7, <1>8

(* One unfolding of NumeralOf. *)
Unfolded(f, n) ==
    IF n < 0 THEN <<"-">> \o f[-n]
    ELSE IF n < 10 THEN <<SubSeq(digits, 10, 19)[n + 1]>>
    ELSE f[n \div 10] \o f[n % 10]

LEMMA NumeralOfIs ==
    \A n \in Int : NumeralOf[n] = Unfolded(NumeralOf, n)
  <1> DEFINE F == [n \in Int |-> Numeral(n)]
  <1>1. ASSUME NEW n \in Int
        PROVE  Numeral(n) = Unfolded(F, n)
    <2>1. CASE n < 0
      <3>1. -n \in Int
        OBVIOUS
      <3>2. F[-n] = Numeral(-n)
        BY <3>1
      <3> HIDE DEF F
      <3> QED
        BY <2>1, <3>2, NumeralNegative DEF Unfolded
    <2>2. CASE n \in 0..9
      <3>1. ~(n < 0) /\ n < 10
        BY <2>2
      <3> HIDE DEF F
      <3> QED
        BY <2>2, <3>1, NumeralDigit DEF Unfolded
    <2>3. CASE n >= 10
      <3>1. PICK q \in Int, r \in Int : q = n \div 10 /\ r = n % 10
        OBVIOUS
      <3>2. F[q] = Numeral(q) /\ F[r] = Numeral(r)
        OBVIOUS
      <3>3. n \in Nat /\ ~(n < 0) /\ ~(n < 10)
        BY <2>3
      <3>4. Numeral(n) = Numeral(q) \o Numeral(r)
        BY <2>3, <3>1, <3>3, NumeralMore
      <3> HIDE DEF F
      <3> QED
        BY <3>1, <3>2, <3>3, <3>4 DEF Unfolded
    <2> QED
      BY <2>1, <2>2, <2>3
  <1>2. F = [n \in Int |-> Unfolded(F, n)]
    <2>1. \A n \in Int : Numeral(n) = Unfolded(F, n)
      BY <1>1
    <2>2. F = [n \in Int |-> Numeral(n)]
      OBVIOUS
    <2> HIDE DEF F
    <2> QED
      BY <2>1, <2>2
  <1> HIDE DEF F
  <1>3. NumeralOf = [n \in Int |-> Unfolded(NumeralOf, n)]
    BY <1>2 DEF NumeralOf, Unfolded
  <1> DEFINE G == [n \in Int |-> Unfolded(NumeralOf, n)]
  <1>4. NumeralOf = G /\ \A n \in Int : G[n] = Unfolded(NumeralOf, n)
    BY <1>3
  <1> HIDE DEF G
  <1> QED
    BY <1>4

(* What operator<< makes of a number is its numeral. *)
LEMMA NumeralRight ==
    ASSUME NEW n \in Int
    PROVE  Numeral(n) = NumeralOf[n]
  <1> DEFINE T == {m \in Nat : \A i \in 0..m : Numeral(i) = NumeralOf[i]}
  <1>1. ASSUME NEW i \in 0..9
        PROVE  Numeral(i) = NumeralOf[i]
    <2>1. i \in Int /\ ~(i < 0) /\ i < 10
      OBVIOUS
    <2>2. NumeralOf[i] = Unfolded(NumeralOf, i)
      BY <2>1, NumeralOfIs
    <2> QED
      BY <2>1, <2>2, NumeralDigit DEF Unfolded
  <1>2. 0 \in T
    BY <1>1
  <1>3. ASSUME NEW m \in Nat, m \in T
        PROVE  m + 1 \in T
    <2>1. ASSUME NEW i \in 0..(m + 1)
          PROVE  Numeral(i) = NumeralOf[i]
      <3>1. i \in Nat /\ i <= m + 1
        OBVIOUS
      <3>2. CASE i < 10
        BY <1>1, <3>1, <3>2
      <3>3. CASE i >= 10
        <4>1. PICK q \in 0..m, r \in 0..9 : q = i \div 10 /\ r = i % 10
          BY <3>1, <3>3
        <4>2. Numeral(q) = NumeralOf[q] /\ Numeral(r) = NumeralOf[r]
          BY <1>1, <1>3
        <4>3. Numeral(i) = Numeral(q) \o Numeral(r)
          BY <3>1, <3>3, <4>1, NumeralMore
        <4>4. i \in Int /\ ~(i < 0) /\ ~(i < 10)
          BY <3>1, <3>3
        <4>5. NumeralOf[i] = Unfolded(NumeralOf, i)
          BY <4>4, NumeralOfIs
        <4> QED
          BY <4>1, <4>2, <4>3, <4>4, <4>5 DEF Unfolded
      <3> QED
        BY <3>1, <3>2, <3>3
    <2> QED
      BY <2>1
  <1> HIDE DEF T
  <1>4. \A m \in Nat : m \in T
    BY <1>2, <1>3, Induction
  <1>5. \A m \in Nat : Numeral(m) = NumeralOf[m]
    <2> SUFFICES ASSUME NEW m \in Nat PROVE Numeral(m) = NumeralOf[m]
      OBVIOUS
    <2>1. m \in T /\ m \in 0..m
      BY <1>4
    <2> QED
      BY <2>1 DEF T
  <1>6. CASE n >= 0
    BY <1>5, <1>6
  <1>7. CASE n < 0
    <2>1. PICK m \in Nat : m = -n
      BY <1>7
    <2>2. Numeral(n) = <<"-">> \o Numeral(m)
      BY <1>7, <2>1, NumeralNegative
    <2>3. NumeralOf[n] = Unfolded(NumeralOf, n)
      BY NumeralOfIs
    <2> QED
      BY <1>5, <1>7, <2>1, <2>2, <2>3 DEF Unfolded
  <1> QED
    BY <1>6, <1>7

LEMMA NumeralSeq ==
    ASSUME NEW n \in Int
    PROVE  Numeral(n) \in Seq(Symbols)
  <1>1. \A m \in Nat : Numeral(m) \in Seq(Symbols)
    <2> SUFFICES ASSUME NEW m \in Nat PROVE Numeral(m) \in Seq(Symbols)
      OBVIOUS
    <2>1. Numeral(m) \in Seq(Digits)
      BY NumeralPositive
    <2>2. Digits \subseteq Symbols
      BY DEF Symbols
    <2> QED
      BY <2>1, <2>2
  <1>2. CASE n < 0
    <2>1. PICK s \in Seq(Symbols) : s = Numeral(-n)
      <3>1. -n \in Nat
        BY <1>2
      <3> QED
        BY <1>1, <3>1
    <2>2. "-" \in Symbols
      BY DEF Symbols
    <2>3. <<"-">> \o s \in Seq(Symbols)
      BY <2>2, ConsProperties
    <2> QED
      BY <1>2, <2>1, <2>3, NumeralNegative
  <1> QED
    BY <1>1, <1>2
-----------------------------------------------------------------------------
(* The pieces of a line.                                                   *)

PieceType == [text : Seq(Symbols)] \cup [num : Int]

Fits(p) == "num" \in DOMAIN p => Len(Numeral(p.num)) < kMaxNumericSize

LEMMA PieceCases ==
    ASSUME NEW p \in PieceType
    PROVE  \/ "num" \in DOMAIN p /\ p.num \in Int
           \/ "num" \notin DOMAIN p /\ p.text \in Seq(Symbols)
  BY DEF PieceType

LEMMA TextOfSeq ==
    ASSUME NEW p \in PieceType
    PROVE  TextOf(p) \in Seq(Symbols)
  <1>1. CASE "num" \in DOMAIN p /\ p.num \in Int
    <2>1. TextOf(p) = Numeral(p.num)
      BY <1>1, NumeralRight DEF TextOf
    <2> QED
      BY <1>1, <2>1, NumeralSeq
  <1>2. CASE "num" \notin DOMAIN p /\ p.text \in Seq(Symbols)
    BY <1>2 DEF TextOf
  <1> QED
    BY <1>1, <1>2, PieceCases

LEMMA JoinedLen ==
    ASSUME NEW S, NEW a \in Seq(S), NEW b \in Seq(S)
    PROVE  /\ a \o b \in Seq(S) /\ Len(a \o b) = Len(a) + Len(b)
           /\ Len(a) \in Nat /\ Len(b) \in Nat
  OBVIOUS

(* A << adds its whole text or nothing, never fills the buffer, and adds   *)
(* the text when kMaxNumericSize is free behind it.                        *)
PutOK(buf, text, new) ==
    /\ new \in Seq(Symbols) /\ Len(new) < kSmallBuffer
    /\ new # buf => new = buf \o text
    /\ Len(buf) + Len(text) + kMaxNumericSize <= kSmallBuffer =>
           new = buf \o text

LEMMA PutIs ==
    ASSUME NEW buf \in Seq(Symbols), Len(buf) < kSmallBuffer,
           NEW p \in PieceType, Fits(p)
    PROVE  PutOK(buf, TextOf(p), Put(buf, p))
  <1>1. PICK t \in Seq(Symbols) : t = TextOf(p)
    BY TextOfSeq
  <1>2. PICK both \in Seq(Symbols) : both = buf \o t
    BY JoinedLen
  <1>3. Len(both) = Len(buf) + Len(t) /\ Len(buf) \in Nat /\ Len(t) \in Nat
    BY <1>2, JoinedLen
  <1>4. kSmallBuffer \in Nat /\ kMaxNumericSize \in Nat /\ kMaxNumericSize >= 1
    BY LogStreamAssumptions DEF LogStreamAssumptions
  <1>5. CASE "num" \in DOMAIN p /\ p.num \in Int
    <2>1. t = Numeral(p.num)
      BY <1>1, <1>5, NumeralRight DEF TextOf
    <2>2. Len(t) < kMaxNumericSize
      BY <1>5, <2>1 DEF Fits
    <2>3. Put(buf, p) = IF avail(buf) >= kMaxNumericSize THEN both ELSE buf
      BY <1>2, <1>5, <2>1 DEF Put, formatInteger
    <2>4. CASE avail(buf) >= kMaxNumericSize
      <3>1. Put(buf, p) = both
        BY <2>3, <2>4
      <3>2. Len(both) < kSmallBuffer
        BY <1>3, <1>4, <2>2, <2>4 DEF avail
      <3> QED
        BY <1>1, <1>2, <3>1, <3>2 DEF PutOK
    <2>5. CASE ~(avail(buf) >= kMaxNumericSize)
      <3>1. Put(buf, p) = buf
        BY <2>3, <2>5
      <3>2. ~(Len(buf) + Len(t) + kMaxNumericSize <= kSmallBuffer)
        BY <1>3, <1>4, <2>5 DEF avail
      <3> QED
        BY <1>1, <3>1, <3>2 DEF PutOK
    <2> QED
      BY <2>4, <2>5
  <1>6. CASE "num" \notin DOMAIN p /\ p.text \in Seq(Symbols)
    <2>1. t = p.text
      BY <1>1, <1>6 DEF TextOf
    <2>2. Put(buf, p) = IF avail(buf) > Len(t) THEN both ELSE buf
      BY <1>2, <1>6, <2>1 DEF Put, append
    <2>3. CASE avail(buf) > Len(t)
      <3>1. Put(buf, p) = both
        BY <2>2, <2>3
      <3>2. Len(both) < kSmallBuffer
        BY <1>3, <1>4, <2>3 DEF avail
      <3> QED
        BY <1>1, <1>2, <3>1, <3>2 DEF PutOK
    <2>4. CASE ~(avail(buf) > Len(t))
      <3>1. Put(buf, p) = buf
        BY <2>2, <2>4
      <3>2. ~(Len(buf) + Len(t) + kMaxNumericSize <= kSmallBuffer)
        BY <1>3, <1>4, <2>4 DEF avail
      <3> QED
        BY <1>1, <3>1, <3>2 DEF PutOK
    <2> QED
      BY <2>3, <2>4
  <1> QED
    BY <1>5, <1>6, PieceCases

(* f[i] is the buffer after the first i pieces. *)
Puts(f, pieces, n) ==
    f = [i \in 0..n |-> IF i = 0 THEN <<>> ELSE Put(f[i - 1], pieces[i])]

LEMMA PutsExists ==
    ASSUME NEW pieces, NEW n \in Nat
    PROVE  \E f : Puts(f, pieces, n)
  <1> DEFINE T == {m \in Nat : \E f : Puts(f, pieces, m)}
  <1>1. 0 \in T
    <2> DEFINE f == [i \in 0..0 |-> <<>>]
    <2>1. Puts(f, pieces, 0)
      BY DEF Puts
    <2> QED
      BY <2>1
  <1>2. ASSUME NEW m \in Nat, m \in T
        PROVE  m + 1 \in T
    <2>1. PICK f : Puts(f, pieces, m)
      BY <1>2
    <2> DEFINE g == [i \in 0..(m + 1) |->
                        IF i <= m THEN f[i] ELSE Put(f[m], pieces[m + 1])]
    <2>2. Puts(g, pieces, m + 1)
      BY <2>1 DEF Puts
    <2> HIDE DEF g
    <2> QED
      BY <2>2
  <1> HIDE DEF T
  <1>3. \A m \in Nat : m \in T
    BY <1>1, <1>2, Induction
  <1> QED
    BY <1>3 DEF T

LEMMA PutAllIs ==
    ASSUME NEW pieces, NEW n \in Nat, n = Len(pieces)
    PROVE  \E U : /\ U[0] = <<>> /\ U[n] = PutAll(pieces)
                  /\ \A i \in 1..n : U[i] = Put(U[i - 1], pieces[i])
  <1> DEFINE Upto[i \in 0..Len(pieces)] ==
                IF i = 0 THEN <<>> ELSE Put(Upto[i - 1], pieces[i])
  <1>1. PutAll(pieces) = Upto[Len(pieces)]
    BY DEF PutAll
  <1>2. \E f : Puts(f, pieces, Len(pieces))
    BY PutsExists
  <1>3. Puts(Upto, pieces, Len(pieces))
    BY <1>2 DEF Puts
  <1>4. PICK U : U = Upto
    OBVIOUS
  <1> DEFINE G == [i \in 0..n |->
                      IF i = 0 THEN <<>> ELSE Put(U[i - 1], pieces[i])]
  <1> HIDE DEF Upto
  <1>5. U = G
    BY <1>3, <1>4 DEF Puts
  <1>6. G[0] = <<>>
    OBVIOUS
  <1>7. ASSUME NEW i \in 1..n
        PROVE  G[i] = Put(U[i - 1], pieces[i])
    <2>1. i \in 0..n /\ i # 0
      OBVIOUS
    <2> QED
      BY <2>1, Zenon
  <1> HIDE DEF G
  <1> QED
    BY <1>1, <1>4, <1>5, <1>6, <1>7

(* f[i] is the text of the first i pieces. *)
Texts(f, pieces, n) ==
    f = [i \in 0..n |-> IF i = 0 THEN <<>> ELSE f[i - 1] \o TextOf(pieces[i])]

LEMMA TextsExists ==
    ASSUME NEW pieces, NEW n \in Nat
    PROVE  \E f : Texts(f, pieces, n)
  <1> DEFINE T == {m \in Nat : \E f : Texts(f, pieces, m)}
  <1>1. 0 \in T
    <2> DEFINE f == [i \in 0..0 |-> <<>>]
    <2>1. Texts(f, pieces, 0)
      BY DEF Texts
    <2> QED
      BY <2>1
  <1>2. ASSUME NEW m \in Nat, m \in T
        PROVE  m + 1 \in T
    <2>1. PICK f : Texts(f, pieces, m)
      BY <1>2
    <2> DEFINE g == [i \in 0..(m + 1) |->
                        IF i <= m THEN f[i] ELSE f[m] \o TextOf(pieces[m + 1])]
    <2>2. /\ f[0] = <<>>
          /\ \A i \in 1..m : f[i] = f[i - 1] \o TextOf(pieces[i])
      <3> DEFINE G == [i \in 0..m |-> IF i = 0 THEN <<>>
                                      ELSE f[i - 1] \o TextOf(pieces[i])]
      <3>1. f = G
        BY <2>1 DEF Texts
      <3>2. G[0] = <<>>
        OBVIOUS
      <3>3. ASSUME NEW i \in 1..m
            PROVE  G[i] = f[i - 1] \o TextOf(pieces[i])
        <4>1. i \in 0..m /\ i # 0
          OBVIOUS
        <4> QED
          BY <4>1, Zenon
      <3> HIDE DEF G
      <3> QED
        BY <3>1, <3>2, <3>3
    <2>3. ASSUME NEW i \in 0..(m + 1)
          PROVE  g[i] = IF i = 0 THEN <<>> ELSE g[i - 1] \o TextOf(pieces[i])
      <3>1. \A j \in 0..m : g[j] = f[j]
        OBVIOUS
      <3>2. g[m + 1] = f[m] \o TextOf(pieces[m + 1])
        OBVIOUS
      <3> HIDE DEF g
      <3>3. CASE i = 0
        BY <2>2, <3>1, <3>3
      <3>4. CASE i \in 1..m
        <4>1. i - 1 \in 0..m /\ i \in 0..m /\ i # 0
          BY <3>4
        <4> QED
          BY <2>2, <3>1, <3>4, <4>1
      <3>5. CASE i = m + 1
        <4>1. i - 1 = m /\ m \in 0..m /\ i # 0
          BY <3>5
        <4> QED
          BY <3>1, <3>2, <3>5, <4>1
      <3> QED
        BY <3>3, <3>4, <3>5
    <2>4. Texts(g, pieces, m + 1)
      <3>1. g = [i \in 0..(m + 1) |-> g[i]]
        OBVIOUS
      <3> HIDE DEF g
      <3> QED
        BY <2>3, <3>1 DEF Texts
    <2> HIDE DEF g
    <2> QED
      BY <2>4
  <1> HIDE DEF T
  <1>3. \A m \in Nat : m \in T
    BY <1>1, <1>2, Induction
  <1> QED
    BY <1>3 DEF T

LEMMA TextOfAllIs ==
    ASSUME NEW pieces, NEW n \in Nat, n = Len(pieces)
    PROVE  \E W : /\ W[0] = <<>> /\ W[n] = TextOfAll(pieces)
                  /\ \A i \in 1..n : W[i] = W[i - 1] \o TextOf(pieces[i])
  <1> DEFINE Upto[i \in 0..Len(pieces)] ==
                IF i = 0 THEN <<>> ELSE Upto[i - 1] \o TextOf(pieces[i])
  <1>1. TextOfAll(pieces) = Upto[Len(pieces)]
    BY DEF TextOfAll
  <1>2. \E f : Texts(f, pieces, Len(pieces))
    BY TextsExists
  <1>3. Texts(Upto, pieces, Len(pieces))
    BY <1>2 DEF Texts
  <1>4. PICK W : W = Upto
    OBVIOUS
  <1> DEFINE G == [i \in 0..n |->
                      IF i = 0 THEN <<>> ELSE W[i - 1] \o TextOf(pieces[i])]
  <1> HIDE DEF Upto
  <1>5. W = G
    BY <1>3, <1>4 DEF Texts
  <1>6. G[0] = <<>>
    OBVIOUS
  <1>7. ASSUME NEW i \in 1..n
        PROVE  G[i] = W[i - 1] \o TextOf(pieces[i])
    <2>1. i \in 0..n /\ i # 0
      OBVIOUS
    <2> QED
      BY <2>1, Zenon
  <1> HIDE DEF G
  <1> QED
    BY <1>1, <1>4, <1>5, <1>6, <1>7

(* The pieces from which the lost ones are left out. *)
Kept(pieces, lost) ==
    [k \in 1..Len(pieces) |-> IF k \in lost THEN Text(<<>>) ELSE pieces[k]]

LEMMA EmptyText == TextOf(Text(<<>>)) = <<>>
  BY DEF TextOf, Text

(* W[i] is the text of the first i pieces without the lost ones. *)
KeptTexts(W, pieces, lost, n) ==
    /\ W[0] = <<>> /\ W[n] = Without(pieces, lost)
    /\ \A i \in 1..n : W[i] = W[i - 1]
                              \o IF i \in lost THEN <<>> ELSE TextOf(pieces[i])

LEMMA KeptTextsExist ==
    ASSUME NEW pieces \in Seq(PieceType), NEW lost, NEW n \in Nat,
           n = Len(pieces)
    PROVE  \E W : KeptTexts(W, pieces, lost, n)
  <1>1. PICK kept : kept = Kept(pieces, lost)
    OBVIOUS
  <1>2. n = Len(kept) /\ \A i \in 1..n : kept[i] = IF i \in lost THEN Text(<<>>)
                                                    ELSE pieces[i]
    BY <1>1 DEF Kept
  <1>3. PICK W : /\ W[0] = <<>> /\ W[n] = TextOfAll(kept)
                 /\ \A i \in 1..n : W[i] = W[i - 1] \o TextOf(kept[i])
    BY <1>2, TextOfAllIs
  <1>4. TextOfAll(kept) = Without(pieces, lost)
    BY <1>1 DEF Kept, Without
  <1>5. \A i \in 1..n : TextOf(kept[i]) = IF i \in lost THEN <<>>
                                          ELSE TextOf(pieces[i])
    BY <1>2, EmptyText
  <1> QED
    BY <1>3, <1>4, <1>5 DEF KeptTexts

(* U[i] is the buffer after the first i pieces. *)
Buffers(U, pieces, n) ==
    /\ U[0] = <<>> /\ U[n] = PutAll(pieces)
    /\ \A i \in 1..n : PutOK(U[i - 1], TextOf(pieces[i]), U[i])
    /\ \A i \in 0..n : U[i] \in Seq(Symbols) /\ Len(U[i]) < kSmallBuffer

LEMMA BuffersExist ==
    ASSUME NEW pieces \in Seq(PieceType), NumeralsFit(pieces), NEW n \in Nat,
           n = Len(pieces)
    PROVE  \E U : Buffers(U, pieces, n)
  <1>1. PICK U : /\ U[0] = <<>> /\ U[n] = PutAll(pieces)
                 /\ \A i \in 1..n : U[i] = Put(U[i - 1], pieces[i])
    BY PutAllIs
  <1>2. \A i \in 1..n : pieces[i] \in PieceType /\ Fits(pieces[i])
    BY DEF NumeralsFit, Fits
  <1> DEFINE Good(b) == b \in Seq(Symbols) /\ Len(b) < kSmallBuffer
  <1>3. ASSUME NEW i \in 1..n, Good(U[i - 1])
        PROVE  PutOK(U[i - 1], TextOf(pieces[i]), U[i]) /\ Good(U[i])
    <2>1. PICK b \in Seq(Symbols) : b = U[i - 1] /\ Len(b) < kSmallBuffer
      BY <1>3
    <2>2. PICK p \in PieceType : p = pieces[i] /\ Fits(p)
      BY <1>2
    <2>3. PutOK(b, TextOf(p), Put(b, p))
      BY <2>1, <2>2, PutIs
    <2>4. PutOK(U[i - 1], TextOf(pieces[i]), U[i])
      BY <1>1, <2>1, <2>2, <2>3
    <2> QED
      BY <2>4 DEF PutOK
  <1> DEFINE T == {i \in Nat : i <= n => Good(U[i])}
  <1>4. 0 \in T
    <2>1. <<>> \in Seq(Symbols) /\ Len(<<>>) = 0
      OBVIOUS
    <2>2. 0 < kSmallBuffer
      BY LogStreamAssumptions DEF LogStreamAssumptions
    <2> QED
      BY <1>1, <2>1, <2>2
  <1>5. ASSUME NEW i \in Nat, i \in T
        PROVE  i + 1 \in T
    <2> SUFFICES ASSUME i + 1 <= n PROVE Good(U[i + 1])
      OBVIOUS
    <2>1. i + 1 \in 1..n /\ (i + 1) - 1 = i /\ Good(U[i])
      BY <1>5
    <2> HIDE DEF Good
    <2> QED
      BY <1>3, <2>1
  <1> HIDE DEF T
  <1>6. \A i \in Nat : i \in T
    BY <1>4, <1>5, Induction
  <1>7. \A i \in 0..n : Good(U[i])
    BY <1>6 DEF T
  <1>8. \A i \in 1..n : PutOK(U[i - 1], TextOf(pieces[i]), U[i])
    <2> SUFFICES ASSUME NEW i \in 1..n
                 PROVE  PutOK(U[i - 1], TextOf(pieces[i]), U[i])
      OBVIOUS
    <2>1. i - 1 \in 0..n
      OBVIOUS
    <2> HIDE DEF Good
    <2> QED
      BY <1>3, <1>7, <2>1
  <1> QED
    BY <1>1, <1>7, <1>8 DEF Buffers

LEMMA NothingJoined ==
    ASSUME NEW S, NEW s \in Seq(S)
    PROVE  s \o <<>> = s
  OBVIOUS

(* The line is the text without the pieces at which the buffer stayed as   *)
(* it was.                                                                 *)
LEMMA LineWithout ==
    ASSUME NEW pieces \in Seq(PieceType), NumeralsFit(pieces)
    PROVE  \E lost \in SUBSET (1..Len(pieces)) :
               PutAll(pieces) = Without(pieces, lost)
  <1>1. PICK n \in Nat : n = Len(pieces)
    OBVIOUS
  <1>2. PICK U : Buffers(U, pieces, n)
    BY <1>1, BuffersExist
  <1> DEFINE lost == {i \in 1..n : U[i] = U[i - 1]}
  <1>3. PICK W : KeptTexts(W, pieces, lost, n)
    BY <1>1, KeptTextsExist
  <1> DEFINE T == {i \in Nat : i <= n => U[i] = W[i]}
  <1>4. 0 \in T
    BY <1>2, <1>3 DEF Buffers, KeptTexts
  <1>5. ASSUME NEW i \in Nat, i \in T
        PROVE  i + 1 \in T
    <2> SUFFICES ASSUME i + 1 <= n PROVE U[i + 1] = W[i + 1]
      OBVIOUS
    <2>1. PICK j \in 1..n : j = i + 1 /\ j - 1 = i /\ i \in 0..n
      OBVIOUS
    <2>2. U[j - 1] = W[j - 1]
      BY <1>5, <2>1
    <2>3. /\ PutOK(U[j - 1], TextOf(pieces[j]), U[j])
          /\ U[j - 1] \in Seq(Symbols)
      BY <1>2, <2>1 DEF Buffers
    <2>4. W[j] = W[j - 1] \o IF j \in lost THEN <<>> ELSE TextOf(pieces[j])
      BY <1>3 DEF KeptTexts
    <2>5. CASE j \in lost
      <3>1. W[j] = U[j - 1] \o <<>> /\ U[j] = U[j - 1]
        BY <2>2, <2>4, <2>5
      <3>2. U[j - 1] \o <<>> = U[j - 1]
        BY <2>3, NothingJoined
      <3> QED
        BY <2>1, <3>1, <3>2
    <2>6. CASE j \notin lost
      <3>1. U[j] # U[j - 1]
        BY <2>6
      <3>2. U[j] = U[j - 1] \o TextOf(pieces[j])
        BY <2>3, <3>1 DEF PutOK
      <3>3. W[j] = W[j - 1] \o TextOf(pieces[j])
        BY <2>4, <2>6
      <3> QED
        BY <2>1, <2>2, <3>2, <3>3
    <2> QED
      BY <2>5, <2>6
  <1> HIDE DEF T
  <1>6. n \in T
    BY <1>4, <1>5, Induction
  <1>7. PutAll(pieces) = Without(pieces, lost)
    <2> HIDE DEF lost
    <2>1. U[n] = W[n]
      BY <1>6 DEF T
    <2> QED
      BY <1>2, <1>3, <2>1 DEF Buffers, KeptTexts
  <1>8. lost \in SUBSET (1..Len(pieces))
    BY <1>1
  <1> HIDE DEF lost
  <1> QED
    BY <1>7, <1>8

(* A text is as long as its beginnings, or longer. *)
LEMMA TextGrows ==
    ASSUME NEW pieces \in Seq(PieceType), NEW n \in Nat, n = Len(pieces),
           NEW W, KeptTexts(W, pieces, {}, n)
    PROVE  \A i \in 0..n : W[i] \in Seq(Symbols) /\ Len(W[i]) <= Len(W[n])
  <1>1. ASSUME NEW j \in 1..n
        PROVE  W[j] = W[j - 1] \o TextOf(pieces[j])
                 /\ TextOf(pieces[j]) \in Seq(Symbols)
    <2>1. j \notin {}
      OBVIOUS
    <2>2. W[j] = W[j - 1] \o TextOf(pieces[j])
      BY <2>1 DEF KeptTexts
    <2>3. pieces[j] \in PieceType
      OBVIOUS
    <2> QED
      BY <2>2, <2>3, TextOfSeq
  <1>2. ASSUME NEW j \in 1..n, W[j - 1] \in Seq(Symbols)
        PROVE  W[j] \in Seq(Symbols) /\ Len(W[j - 1]) <= Len(W[j])
    <2>1. PICK a \in Seq(Symbols), b \in Seq(Symbols) :
              a = W[j - 1] /\ b = TextOf(pieces[j]) /\ W[j] = a \o b
      BY <1>1, <1>2
    <2>2. /\ a \o b \in Seq(Symbols) /\ Len(a \o b) = Len(a) + Len(b)
          /\ Len(a) \in Nat /\ Len(b) \in Nat
      BY JoinedLen
    <2>3. Len(a) <= Len(a \o b)
      BY <2>2
    <2> QED
      BY <2>1, <2>2, <2>3
  <1> DEFINE T == {i \in Nat : i <= n => W[i] \in Seq(Symbols)}
  <1>3. 0 \in T
    <2>1. <<>> \in Seq(Symbols)
      OBVIOUS
    <2> QED
      BY <2>1 DEF KeptTexts
  <1>4. ASSUME NEW i \in Nat, i \in T
        PROVE  i + 1 \in T
    <2> SUFFICES ASSUME i + 1 <= n PROVE W[i + 1] \in Seq(Symbols)
      OBVIOUS
    <2>1. i + 1 \in 1..n /\ (i + 1) - 1 = i /\ W[i] \in Seq(Symbols)
      BY <1>4
    <2> QED
      BY <1>2, <2>1
  <1> HIDE DEF T
  <1>5. \A i \in Nat : i \in T
    BY <1>3, <1>4, Induction
  <1>6. \A i \in 0..n : W[i] \in Seq(Symbols)
    BY <1>5 DEF T
  <1> DEFINE L(i) == Len(W[i])
             Q == {d \in Nat : d <= n => L(n - d) <= L(n)}
  <1>7. \A i \in 0..n : L(i) \in Nat
    BY <1>6
  <1>8. \A j \in 1..n : L(j - 1) <= L(j)
    BY <1>2, <1>6
  <1> HIDE DEF L
  <1>9. 0 \in Q
    <2>1. n - 0 = n /\ n \in 0..n
      OBVIOUS
    <2> QED
      BY <1>7, <2>1
  <1>10. ASSUME NEW d \in Nat, d \in Q
         PROVE  d + 1 \in Q
    <2> SUFFICES ASSUME d + 1 <= n PROVE L(n - (d + 1)) <= L(n)
      OBVIOUS
    <2>1. PICK j \in 1..n : j = n - d /\ j - 1 = n - (d + 1)
                              /\ j \in 0..n /\ j - 1 \in 0..n /\ n \in 0..n
      <3>1. /\ n - d \in 1..n /\ (n - d) - 1 = n - (d + 1)
            /\ n - d \in 0..n /\ (n - d) - 1 \in 0..n /\ n \in 0..n
        OBVIOUS
      <3> QED
        BY <3>1
    <2>2. L(j) <= L(n) /\ L(j - 1) <= L(j)
      BY <1>8, <1>10, <2>1
    <2>3. L(j) \in Nat /\ L(j - 1) \in Nat /\ L(n) \in Nat
      BY <1>7, <2>1
    <2> QED
      BY <2>1, <2>2, <2>3
  <1> HIDE DEF Q
  <1>11. \A d \in Nat : d \in Q
    BY <1>9, <1>10, Induction
  <1>12. ASSUME NEW i \in 0..n
         PROVE  L(i) <= L(n)
    <2>1. n - i \in Nat /\ n - (n - i) = i /\ n - i <= n
      OBVIOUS
    <2>2. n - i \in Q
      BY <1>11, <2>1
    <2> QED
      BY <2>1, <2>2 DEF Q
  <1> QED
    BY <1>6, <1>12 DEF L

(* A line loses nothing when its text leaves kMaxNumericSize free. *)
LEMMA LineWhole ==
    ASSUME NEW pieces \in Seq(PieceType), NumeralsFit(pieces),
           Len(Without(pieces, {})) + kMaxNumericSize <= kSmallBuffer
    PROVE  PutAll(pieces) = Without(pieces, {})
  <1>1. PICK n \in Nat : n = Len(pieces)
    OBVIOUS
  <1>2. PICK U : Buffers(U, pieces, n)
    BY <1>1, BuffersExist
  <1>3. PICK W : KeptTexts(W, pieces, {}, n)
    BY <1>1, KeptTextsExist
  <1>4. \A i \in 0..n : W[i] \in Seq(Symbols) /\ Len(W[i]) <= Len(W[n])
    BY <1>1, <1>3, TextGrows
  <1>5. Len(W[n]) + kMaxNumericSize <= kSmallBuffer
    BY <1>3 DEF KeptTexts
  <1>6. kSmallBuffer \in Nat /\ kMaxNumericSize \in Nat
    BY LogStreamAssumptions DEF LogStreamAssumptions
  <1> DEFINE T == {i \in Nat : i <= n => U[i] = W[i]}
  <1>7. 0 \in T
    BY <1>2, <1>3 DEF Buffers, KeptTexts
  <1>8. ASSUME NEW i \in Nat, i \in T
        PROVE  i + 1 \in T
    <2> SUFFICES ASSUME i + 1 <= n PROVE U[i + 1] = W[i + 1]
      OBVIOUS
    <2>1. PICK j \in 1..n : j = i + 1 /\ j - 1 = i /\ i \in 0..n
                              /\ j \in 0..n /\ n \in 0..n
      OBVIOUS
    <2>2. U[j - 1] = W[j - 1]
      BY <1>8, <2>1
    <2>3. PutOK(U[j - 1], TextOf(pieces[j]), U[j])
      BY <1>2 DEF Buffers
    <2>4. W[j] = W[j - 1] \o TextOf(pieces[j])
      BY <1>3 DEF KeptTexts
    <2>5. PICK a \in Seq(Symbols), b \in Seq(Symbols) :
              a = W[j - 1] /\ b = TextOf(pieces[j])
      <3>1. pieces[j] \in PieceType /\ W[j - 1] \in Seq(Symbols)
        BY <1>1, <1>4, <2>1
      <3> QED
        BY <3>1, TextOfSeq
    <2>6. /\ Len(W[j]) = Len(a) + Len(b) /\ Len(a) \in Nat /\ Len(b) \in Nat
      BY <2>4, <2>5, JoinedLen
    <2>7. Len(a) + Len(b) + kMaxNumericSize <= kSmallBuffer
      <3>1. PICK x \in Nat, y \in Nat : x = Len(W[j]) /\ y = Len(W[n])
        BY <1>4, <2>1
      <3>2. x <= y /\ y + kMaxNumericSize <= kSmallBuffer
        BY <1>4, <1>5, <2>1, <3>1
      <3> QED
        BY <1>6, <2>6, <3>1, <3>2
    <2>8. U[j] = a \o b
      BY <2>2, <2>3, <2>5, <2>7 DEF PutOK
    <2> QED
      BY <2>1, <2>4, <2>5, <2>8
  <1> HIDE DEF T
  <1>9. n \in T
    BY <1>7, <1>8, Induction
  <1>10. U[n] = W[n]
    BY <1>9 DEF T
  <1> QED
    BY <1>2, <1>3, <1>10 DEF Buffers, KeptTexts

LEMMA LineShort ==
    ASSUME NEW pieces \in Seq(PieceType), NumeralsFit(pieces)
    PROVE  Len(PutAll(pieces)) < kSmallBuffer
  <1>1. PICK n \in Nat : n = Len(pieces)
    OBVIOUS
  <1>2. PICK U : Buffers(U, pieces, n)
    BY <1>1, BuffersExist
  <1>3. n \in 0..n
    OBVIOUS
  <1> QED
    BY <1>2, <1>3 DEF Buffers

-----------------------------------------------------------------------------
(* The pieces of a statement.                                              *)

LEMMA SeqMono ==
    ASSUME NEW S, NEW T, S \subseteq T, NEW s \in Seq(S)
    PROVE  s \in Seq(T)
  OBVIOUS

(* The last slash of a path, if any, is in it. *)
LEMMA SourceFileSeq ==
    ASSUME NEW path \in Seq(STRING)
    PROVE  SourceFile(path) \in Seq(Symbols)
  <1> DEFINE I == {i \in 1..Len(path) : path[i] = "/"}
  <1>1. PICK n \in Nat : n = Len(path)
    OBVIOUS
  <1>2. SelectLastInSeq(path, LAMBDA c : c = "/")
          = IF I # {} THEN Max(I) ELSE 0
    BY DEF SelectLastInSeq
  <1>3. PICK last \in 0..n : last = IF I # {} THEN Max(I) ELSE 0
    <2>1. CASE I = {}
      BY <2>1
    <2>2. CASE I # {}
      <3>1. I \subseteq 1..n
        BY <1>1
      <3>2. PICK m \in I : \A i \in I : m >= i
        <4> DEFINE T == {n - i : i \in I}
        <4> HIDE DEF I
        <4>1. T \subseteq Nat /\ T # {}
          <5>1. ASSUME NEW i \in I
                PROVE  n - i \in Nat
            <6>1. i \in 1..n
              BY <3>1
            <6> QED
              BY <6>1
          <5>2. T \subseteq Nat
            BY <5>1
          <5>3. T # {}
            BY <2>2
          <5> QED
            BY <5>2, <5>3
        <4>2. PICK d \in T : \A e \in T : d <= e
          BY <4>1, LeastNumber
        <4>3. PICK m \in I : d = n - m
          BY <4>2
        <4>4. ASSUME NEW i \in I
              PROVE  m >= i
          <5>1. n - i \in T /\ i \in Int /\ m \in Int
            BY <3>1
          <5>2. n - m <= n - i
            BY <4>2, <4>3, <5>1
          <5> QED
            BY <5>1, <5>2
        <4> QED
          BY <4>4
      <3> HIDE DEF I
      <3>3. Max(I) \in I
        BY <3>2 DEF Max
      <3>4. Max(I) \in 0..n
        <4>1. Max(I) \in 1..n
          BY <3>1, <3>3
        <4> QED
          BY <4>1
      <3> QED
        BY <2>2, <3>4
    <2> QED
      BY <2>1, <2>2
  <1> HIDE DEF I
  <1>4. SourceFile(path) = SubSeq(path, 1 + last, n)
    BY <1>1, <1>2, <1>3 DEF SourceFile
  <1>5. \A i \in (1 + last)..n : path[i] \in STRING
    BY <1>1
  <1>6. SubSeq(path, 1 + last, n) \in Seq(STRING)
    BY <1>1, <1>5, SubSeqProperties
  <1>7. STRING \subseteq Symbols
    BY DEF Symbols
  <1>8. PICK t \in Seq(STRING) : t = SubSeq(path, 1 + last, n)
    BY <1>6
  <1>9. t \in Seq(Symbols)
    BY <1>7, SeqMono
  <1> QED
    BY <1>4, <1>8, <1>9

LEMMA TextPiece ==
    ASSUME NEW t \in Seq(Symbols)
    PROVE  Text(t) \in PieceType
  BY DEF Text, PieceType

LEMMA WordPiece ==
    ASSUME NEW w \in Symbols
    PROVE  Text(<<w>>) \in PieceType
  <1>1. <<w>> \in Seq(Symbols)
    BY OneSeq
  <1> QED
    BY <1>1, TextPiece

LEMMA TimePieces == formatTime \in Seq(PieceType)
  <1>1. <<"date", "hour", "minute">> \in Seq(Symbols)
    <2>1. "date" \in Symbols /\ "hour" \in Symbols /\ "minute" \in Symbols
      BY DEF Symbols
    <2> QED
      BY <2>1
  <1>2. "micros" \in Symbols
    BY DEF Symbols
  <1>3. PICK a \in PieceType, b \in PieceType :
            a = Text(<<"date", "hour", "minute">>) /\ b = Text(<<"micros">>)
    BY <1>1, <1>2, TextPiece, WordPiece
  <1>4. formatTime = <<a, b>>
    BY <1>3 DEF formatTime
  <1>5. <<a, b>> \in Seq(PieceType)
    OBVIOUS
  <1> QED
    BY <1>4, <1>5

LEMMA PrefixPieces ==
    ASSUME NEW s \in Statement
    PROVE  Prefix(s) \in Seq(PieceType)
  <1>1. s.level \in Symbols /\ s.func \in Symbols /\ "sp" \in Symbols
    BY DEF Statement, Symbols
  <1>2. PICK a \in PieceType, b \in PieceType, c \in PieceType :
            a = Text(<<s.level>>) /\ b = Text(<<s.func>>) /\ c = Text(<<"sp">>)
    BY <1>1, WordPiece
  <1>3. PICK time \in Seq(PieceType) : time = formatTime
    BY TimePieces
  <1>4. PICK one \in Seq(PieceType), two \in Seq(PieceType) :
            one = <<a>> /\ two = <<b, c>>
    <2>1. <<a>> \in Seq(PieceType) /\ <<b, c>> \in Seq(PieceType)
      OBVIOUS
    <2> QED
      BY <2>1
  <1>5. PICK tail \in Seq(PieceType) :
            tail = IF s.level = "DEBUG" THEN two ELSE <<>>
    <2>1. <<>> \in Seq(PieceType)
      OBVIOUS
    <2> QED
      BY <2>1
  <1>6. PICK front \in Seq(PieceType) : front = time \o one
    BY JoinedLen
  <1>7. front \o tail \in Seq(PieceType)
    BY JoinedLen
  <1>8. Prefix(s) = front \o tail
    BY <1>2, <1>3, <1>4, <1>5, <1>6 DEF Prefix
  <1> QED
    BY <1>7, <1>8

LEMMA FinishPieces ==
    ASSUME NEW s \in Statement
    PROVE  finish(s) \in Seq(PieceType)
  <1>1. "-" \in Symbols /\ ":" \in Symbols /\ "nl" \in Symbols
    BY DEF Symbols
  <1>2. Text(<<"-">>) \in PieceType /\ Text(<<":">>) \in PieceType
          /\ Text(<<"nl">>) \in PieceType
    BY <1>1, WordPiece
  <1>3. Text(SourceFile(s.file)) \in PieceType
    <2>1. PICK path \in Seq(STRING) : path = s.file
      BY DEF Statement
    <2> QED
      BY <2>1, SourceFileSeq, TextPiece
  <1>4. Num(s.line) \in PieceType
    BY DEF Statement, Num, PieceType
  <1>5. PICK a \in PieceType, b \in PieceType, c \in PieceType,
             d \in PieceType, e \in PieceType :
            /\ a = Text(<<"-">>) /\ b = Text(SourceFile(s.file))
            /\ c = Text(<<":">>) /\ d = Num(s.line) /\ e = Text(<<"nl">>)
    BY <1>2, <1>3, <1>4
  <1>6. finish(s) = <<a, b, c, d, e>>
    BY <1>5 DEF finish
  <1>7. <<a, b, c, d, e>> \in Seq(PieceType)
    OBVIOUS
  <1> QED
    BY <1>6, <1>7

LEMMA StatementPieces ==
    ASSUME NEW s \in Statements
    PROVE  Pieces(s) \in Seq(PieceType) /\ NumeralsFit(Pieces(s))
  <1>1. s \in Statement /\ NumeralsFit(Pieces(s))
    BY StatementsAssumption DEF StatementsAssumption
  <1>2. PICK a \in Seq(PieceType), b \in Seq(PieceType), c \in Seq(PieceType) :
            a = Prefix(s) /\ b = s.args /\ c = finish(s)
    <2>1. s.args \in Seq(Piece)
      BY <1>1 DEF Statement
    <2>2. Piece \subseteq PieceType
      <3>1. STRING \subseteq Symbols
        BY DEF Symbols
      <3>2. Seq(STRING) \subseteq Seq(Symbols)
        BY <3>1, SeqMono
      <3> QED
        BY <3>2 DEF Piece, PieceType
    <2>3. s.args \in Seq(PieceType)
      BY <2>1, <2>2
    <2> QED
      BY <1>1, <2>3, PrefixPieces, FinishPieces
  <1>3. PICK d \in Seq(PieceType) : d = a \o b
    BY JoinedLen
  <1>4. d \o c \in Seq(PieceType)
    BY JoinedLen
  <1>5. Pieces(s) = d \o c
    BY <1>2, <1>3 DEF Pieces
  <1> QED
    BY <1>1, <1>4, <1>5

(* The line that Logger makes of a statement is one that is expected. *)
LEMMA LineExpected ==
    ASSUME NEW s \in Statements
    PROVE  LineOf[s] \in Expected[s] /\ Len(LineOf[s]) < kSmallBuffer
  <1>1. PICK P \in Seq(PieceType) : P = Pieces(s) /\ NumeralsFit(P)
    BY StatementPieces
  <1>2. LineOf[s] = PutAll(P)
    BY <1>1 DEF LineOf, LogLine
  <1>3. Expected[s] = LinesFor(s)
    BY DEF Expected
  <1>4. Len(PutAll(P)) < kSmallBuffer
    BY <1>1, LineShort
  <1>5. CASE Len(Without(P, {})) + kMaxNumericSize <= kSmallBuffer
    <2>1. PutAll(P) = Without(P, {})
      BY <1>1, <1>5, LineWhole
    <2>2. LinesFor(s) = {Without(P, {})}
      BY <1>1, <1>5 DEF LinesFor
    <2> QED
      BY <1>2, <1>3, <1>4, <2>1, <2>2
  <1>6. CASE ~(Len(Without(P, {})) + kMaxNumericSize <= kSmallBuffer)
    <2>1. PICK lost \in SUBSET (1..Len(P)) : PutAll(P) = Without(P, lost)
      BY <1>1, LineWithout
    <2>2. LinesFor(s) = {Without(P, l) : l \in SUBSET (1..Len(P))}
      BY <1>1, <1>6 DEF LinesFor
    <2> QED
      BY <1>2, <1>3, <1>4, <2>1, <2>2
  <1> QED
    BY <1>5, <1>6

-----------------------------------------------------------------------------
LEMMA IInvInit == LoggerInit => IInv
  <1> SUFFICES ASSUME LoggerInit PROVE IInv
    OBVIOUS
  <1>1. /\ now = 1 /\ appending = FALSE /\ rest = <<>> /\ fp = <<>>
        /\ disk = <<>> /\ g_output = "stdout" /\ logged = <<>> /\ sent = <<>>
        /\ pending = <<>> /\ batch = <<>> /\ aborted = FALSE
    BY DEF LoggerInit, Init
  <1>2. StreamTypeOK /\ IdleInv
    <2>1. 0 % Slots = 0
      BY SlotsAssumption
    <2> QED
      BY <1>1, <2>1, EmptySeq DEF StreamTypeOK, IdleInv
  <1>3. DiskIsPrefix
    <2>1. BytesOf(sent) = <<>> /\ BytesOf(batch \o pending) = <<>>
      BY <1>1, BytesNone
    <2>2. OnTheWay = <<>>
      BY <1>1, <2>1 DEF OnTheWay
    <2>3. SentInOrder
      BY <1>1 DEF SentInOrder, Range
    <2> QED
      BY <1>1, <2>1, <2>2, <2>3 DEF DiskIsPrefix, InPlace
  <1>4. PeriodOf(1) \in Int
    BY Period
  <1>5. log = [count |-> 0, startOfPeriod |-> PeriodOf(1), lastRoll |-> 1,
               lastFlush |-> 1, writtenBytes |-> 0, late |-> 0,
               lastAppend |-> 1]
    BY <1>1 DEF LoggerInit, Init, NewFile
  <1>6. LogTypeOK
    BY <1>1, <1>4, <1>5 DEF LogTypeOK
  <1>7. checkEveryN \in Nat \ {0} /\ rollSize \in Nat
    BY LogFileAssumptions DEF LogFileAssumptions
  <1>8. RollInv /\ RolledInTime
    BY <1>1, <1>5, <1>7 DEF RollInv, RolledInTime
  <1> QED
    BY <1>2, <1>3, <1>6, <1>8 DEF IInv

LEMMA IInvNext == IInv /\ [Next]_vars => IInv'
  <1> SUFFICES ASSUME IInv, [Next]_vars PROVE IInv'
    OBVIOUS
  <1>1. CASE FrontEnd
    <2>1. ~aborted
      BY <1>1 DEF FrontEnd
    <2>2. CASE setOutput \/ \E level \in Levels : setLogLevel(level)
      BY <2>1, <2>2, SettingStep
    <2>3. CASE \E s \in Statements : Log(s) \/ LogFatal(s)
      BY <2>1, <2>3, LogStep, LogFatalStep
    <2>4. CASE Stop
      BY <2>1, <2>4, FlagStep
    <2> QED
      BY <1>1, <2>2, <2>3, <2>4 DEF FrontEnd
  <1>2. CASE BackEnd
    <2>1. ~aborted
      BY <1>2 DEF BackEnd
    <2>2. CASE TestRunning
      BY <2>1, <2>2, FlagStep
    <2>3. CASE Collect \/ Write
      BY <2>1, <2>3, CollectStep, WriteStep
    <2>4. CASE BackEndAppends
      BY <2>1, <2>4, FwriteStep, EndAppendStep DEF BackEndAppends
    <2>5. CASE EndRound \/ Finish
      BY <2>1, <2>5, EndRoundStep
    <2> QED
      BY <1>2, <2>2, <2>3, <2>4, <2>5 DEF BackEnd
  <1>3. CASE ~aborted /\ (Spill \/ Time)
    BY <1>3, SpillStep, TimeStep
  <1>4. CASE UNCHANGED vars
    <2>1. UNCHANGED <<now, log, appending, rest, fp, disk, g_output, logged,
                      sent, pending, batch, backEnd, aborted>>
      BY <1>4 DEF vars, fileVars, frontVars, asyncVars
    <2>2. StreamTypeOK' /\ IdleInv'
      BY <2>1 DEF IInv, StreamTypeOK, IdleInv
    <2>3. DiskIsPrefix'
      <3>1. SentInOrder' /\ SentInOrder
        BY <2>1 DEF IInv, DiskIsPrefix, SentInOrder
      <3>2. OnTheWay' = OnTheWay /\ BytesOf(sent)' = BytesOf(sent)
        BY <2>1 DEF OnTheWay, BytesOf
      <3>3. /\ InPlace(OnTheWay, BytesOf(sent))' = InPlace(OnTheWay', BytesOf(sent)')
            /\ InPlace(disk, BytesOf(sent))' = InPlace(disk', BytesOf(sent)')
        BY DEF InPlace
      <3> QED
        BY <2>1, <3>1, <3>2, <3>3 DEF IInv, DiskIsPrefix
    <2> QED
      BY <2>1, <2>2, <2>3, LogFrame DEF IInv
  <1> QED
    BY <1>1, <1>2, <1>3, <1>4 DEF Next

LEMMA IInvCorrect == Spec => []IInv
  BY IInvInit, IInvNext, PTL DEF Spec

(* However many lines the buffers hold when they are collected, whatever   *)
(* fwrite and stdio make of the appends, whenever the file is rolled or    *)
(* flushed and whichever write fails, the bytes of the buffers leave the   *)
(* stream in their order, none moved and none repeated, and those that did *)
(* not leave it are with the stream and the back end; the slots hold the   *)
(* lines handed to AsyncLogging, each once and in the order of the         *)
(* statements.  After abort() what left the stream is a prefix.            *)
THEOREM DiskStaysPrefix == Spec => []DiskIsPrefix
  <1>1. IInv => DiskIsPrefix
    BY DEF IInv
  <1> QED
    BY <1>1, IInvCorrect, PTL

(* appendInLock rolls in time: fewer than checkEveryN appends go to a file *)
(* whose day is over, and a file stays beyond rollSize only within the     *)
(* second that it was opened in.                                           *)
THEOREM FilesRollInTime == Spec => []RolledInTime
  <1>1. IInv => RolledInTime
    BY DEF IInv
  <1> QED
    BY <1>1, IInvCorrect, PTL

(* The LogStream of a statement holds its text, every number as the        *)
(* numeral that it is; if the buffer is too small the line lacks whole     *)
(* pieces, and only then; the buffer is never filled to its end.           *)
THEOREM LinesAreStatements == Spec => []LineIsStatement
  <1>1. IInv => LineIsStatement
    <2> SUFFICES ASSUME IInv, NEW i \in DOMAIN logged
                 PROVE  /\ logged[i].text \in Expected[logged[i].from]
                        /\ Len(logged[i].text) < kSmallBuffer
      BY DEF LineIsStatement
    <2>1. logged[i] \in LineType
      BY DEF IInv, StreamTypeOK
    <2>2. PICK s \in Statements, output \in {"stdout", "async"} :
              logged[i] = [from |-> s, text |-> LineOf[s], to |-> output]
      BY <2>1 DEF LineType
    <2>3. logged[i].from = s /\ logged[i].text = LineOf[s]
      BY <2>2
    <2> QED
      BY <2>3, LineExpected
  <1> QED
    BY <1>1, IInvCorrect, PTL
=============================================================================
