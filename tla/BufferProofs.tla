---------------------------- MODULE BufferProofs ----------------------------
(***************************************************************************)
(* Proofs about module Buffer, for any sizes.                              *)
(***************************************************************************)
EXTENDS Buffer, TLAPS, SequenceTheorems

(* A buffer whose indices are in order. *)
WellFormed(b) ==
    /\ b \in BufferType
    /\ InitialPrependSize <= b.readIndex
    /\ b.readIndex <= b.writeIndex
    /\ b.writeIndex <= size(b)

LEMMA StoreType ==
    ASSUME NEW mem \in Seq(Nat), NEW at \in Nat, NEW data \in Seq(Nat)
    PROVE  /\ Store(mem, at, data) \in Seq(Nat)
           /\ Len(Store(mem, at, data)) = Len(mem)
           /\ \A i \in 1..Len(mem) : Store(mem, at, data)[i] =
                IF i > at /\ i <= at + Len(data) THEN data[i - at] ELSE mem[i]
  <1>1. ASSUME NEW i \in 1..Len(mem)
        PROVE  (IF i > at /\ i <= at + Len(data) THEN data[i - at] ELSE mem[i])
                    \in Nat
    <2>1. CASE i > at /\ i <= at + Len(data)
      <3>1. i - at \in 1..Len(data)
        BY <2>1
      <3> QED
        BY <2>1, <3>1
    <2>2. CASE ~(i > at /\ i <= at + Len(data))
      BY <2>2
    <2> QED
      BY <2>1, <2>2
  <1> QED
    BY <1>1 DEF Store

(* The part of mem from index r up to index w. *)
Part(mem, r, w) == [i \in 1..(w - r) |-> mem[r + i]]

LEMMA PartType ==
    ASSUME NEW mem \in Seq(Nat), NEW r \in Nat, NEW w \in Nat,
           r <= w, w <= Len(mem)
    PROVE  /\ Part(mem, r, w) \in Seq(Nat) /\ Len(Part(mem, r, w)) = w - r
           /\ \A i \in 1..(w - r) : Part(mem, r, w)[i] = mem[r + i]
  <1>1. \A i \in 1..(w - r) : mem[r + i] \in Nat
    OBVIOUS
  <1>2. w - r \in Nat
    OBVIOUS
  <1> QED
    BY <1>1, <1>2 DEF Part

(* Storing data behind a part makes the part longer. *)
LEMMA StoreBehind ==
    ASSUME NEW mem \in Seq(Nat), NEW r \in Nat, NEW w \in Nat,
           NEW data \in Seq(Nat), r <= w, w + Len(data) <= Len(mem)
    PROVE  Part(Store(mem, w, data), r, w + Len(data))
                = Part(mem, r, w) \o data
  <1> DEFINE new == Store(mem, w, data)
             x == Part(new, r, w + Len(data))
             p == Part(mem, r, w)
             y == p \o data
  <1>1. /\ new \in Seq(Nat) /\ Len(new) = Len(mem)
        /\ \A i \in 1..Len(mem) : new[i] =
                IF i > w /\ i <= w + Len(data) THEN data[i - w] ELSE mem[i]
    BY StoreType
  <1>2. /\ Len(data) \in Nat /\ w + Len(data) \in Nat /\ Len(mem) \in Nat
        /\ r <= w + Len(data) /\ w <= Len(mem) /\ w - r \in Nat
    OBVIOUS
  <1> HIDE DEF new
  <1>3. /\ x \in Seq(Nat) /\ Len(x) = w + Len(data) - r
        /\ \A i \in 1..(w + Len(data) - r) : x[i] = new[r + i]
    <2>1. PICK e \in Nat : e = w + Len(data)
      BY <1>2
    <2>2. r <= e /\ e <= Len(new)
      BY <1>1, <1>2, <2>1
    <2>3. /\ Part(new, r, e) \in Seq(Nat) /\ Len(Part(new, r, e)) = e - r
          /\ \A i \in 1..(e - r) : Part(new, r, e)[i] = new[r + i]
      BY <1>1, <2>2, PartType
    <2> QED
      BY <2>1, <2>3
  <1>4. /\ p \in Seq(Nat) /\ Len(p) = w - r
        /\ \A i \in 1..(w - r) : p[i] = mem[r + i]
    BY <1>2, PartType
  <1> HIDE DEF x, p
  <1>5. /\ y \in Seq(Nat) /\ Len(y) = w - r + Len(data)
        /\ \A i \in 1..(w - r + Len(data)) :
                y[i] = IF i <= w - r THEN p[i] ELSE data[i - (w - r)]
    <2>1. /\ p \o data \in Seq(Nat) /\ Len(p \o data) = Len(p) + Len(data)
          /\ \A i \in 1..(Len(p) + Len(data)) :
                (p \o data)[i] = IF i <= Len(p) THEN p[i] ELSE data[i - Len(p)]
      BY <1>4, ConcatProperties
    <2> QED
      BY <1>4, <2>1
  <1> HIDE DEF y
  <1>6. ASSUME NEW i \in 1..(w + Len(data) - r)
        PROVE  x[i] = y[i]
    <2>1. CASE i <= w - r
      <3>1. i \in 1..(w - r) /\ r + i \in 1..Len(mem) /\ ~(r + i > w)
        BY <1>2, <2>1
      <3>2. new[r + i] = mem[r + i]
        BY <1>1, <3>1
      <3>3. y[i] = p[i]
        <4>1. i \in 1..(w - r + Len(data))
          BY <1>2
        <4> QED
          BY <1>5, <2>1, <4>1
      <3> QED
        BY <1>3, <1>4, <3>1, <3>2, <3>3
    <2>2. CASE i > w - r
      <3>1. /\ r + i \in 1..Len(mem) /\ r + i > w /\ r + i <= w + Len(data)
            /\ (r + i) - w = i - (w - r)
            /\ i - (w - r) \in 1..Len(data)
        BY <1>2, <2>2
      <3>2. new[r + i] = data[(r + i) - w]
        BY <1>1, <3>1
      <3>3. y[i] = data[i - (w - r)]
        <4>1. i \in 1..(w - r + Len(data)) /\ ~(i <= w - r)
          BY <1>2, <2>2
        <4> QED
          BY <1>5, <4>1
      <3> QED
        BY <1>3, <3>1, <3>2, <3>3
    <2> QED
      BY <1>2, <2>1, <2>2
  <1>7. x = y
    <2>1. Len(x) = Len(y) /\ \A i \in 1..Len(x) : x[i] = y[i]
      BY <1>2, <1>3, <1>5, <1>6
    <2> QED
      BY <1>3, <1>5, <2>1, SeqEqual
  <1> QED
    BY <1>7 DEF x, y, p, new

(* What the record of a well-formed buffer holds. *)
LEMMA Fields ==
    ASSUME NEW b, WellFormed(b)
    PROVE  /\ b.mem \in Seq(Nat) /\ b.readIndex \in Nat /\ b.writeIndex \in Nat
           /\ Len(b.mem) \in Nat /\ InitialPrependSize \in Nat
           /\ InitialPrependSize <= b.readIndex
           /\ b.readIndex <= b.writeIndex /\ b.writeIndex <= Len(b.mem)
           /\ readableBytes(b) = b.writeIndex - b.readIndex
           /\ writeableBytes(b) = Len(b.mem) - b.writeIndex
           /\ size(b) = Len(b.mem)
           /\ Readable(b) = Part(b.mem, b.readIndex, b.writeIndex)
  BY BufferAssumptions
     DEF BufferAssumptions, WellFormed, BufferType, size, readableBytes,
         writeableBytes, Readable, Part

(* The readable bytes form a sequence. *)
LEMMA ReadableType ==
    ASSUME NEW b, WellFormed(b)
    PROVE  /\ readableBytes(b) \in Nat /\ writeableBytes(b) \in Nat
           /\ Readable(b) \in Seq(Nat)
           /\ Len(Readable(b)) = readableBytes(b)
           /\ \A i \in 1..readableBytes(b) :
                Readable(b)[i] = b.mem[b.readIndex + i]
  <1>1. PICK mem \in Seq(Nat), r \in Nat, w \in Nat :
            /\ b.mem = mem /\ b.readIndex = r /\ b.writeIndex = w
            /\ Len(mem) \in Nat /\ r <= w /\ w <= Len(mem)
            /\ readableBytes(b) = w - r
            /\ writeableBytes(b) = Len(mem) - w
            /\ Readable(b) = Part(mem, r, w)
    BY Fields
  <1>2. r <= w /\ w <= Len(mem)
    BY <1>1
  <1>3. /\ Part(mem, r, w) \in Seq(Nat) /\ Len(Part(mem, r, w)) = w - r
        /\ \A i \in 1..(w - r) : Part(mem, r, w)[i] = mem[r + i]
    BY <1>2, PartType
  <1>4. w - r \in Nat /\ Len(mem) - w \in Nat
    BY <1>1
  <1> QED
    BY <1>1, <1>3, <1>4

(* Filling free space appends to the readable bytes. *)
LEMMA FillAppends ==
    ASSUME NEW b, WellFormed(b), NEW data \in Seq(Nat),
           Len(data) <= writeableBytes(b)
    PROVE  /\ WellFormed(Fill(b, data))
           /\ Readable(Fill(b, data)) = Readable(b) \o data
           /\ size(Fill(b, data)) = size(b)
           /\ readableBytes(Fill(b, data)) = readableBytes(b) + Len(data)
           /\ writeableBytes(Fill(b, data)) = writeableBytes(b) - Len(data)
           /\ Fill(b, data).readIndex = b.readIndex
  <1>1. PICK mem \in Seq(Nat), r \in Nat, w \in Nat :
            /\ b.mem = mem /\ b.readIndex = r /\ b.writeIndex = w
            /\ InitialPrependSize \in Nat /\ InitialPrependSize <= r
            /\ r <= w /\ w + Len(data) <= Len(mem)
            /\ Len(data) \in Nat /\ Len(mem) \in Nat
    <2>1. /\ b.mem \in Seq(Nat) /\ b.readIndex \in Nat /\ b.writeIndex \in Nat
          /\ Len(b.mem) \in Nat /\ InitialPrependSize \in Nat
          /\ InitialPrependSize <= b.readIndex
          /\ b.readIndex <= b.writeIndex
          /\ writeableBytes(b) = Len(b.mem) - b.writeIndex
      BY Fields
    <2>2. Len(data) \in Nat
      OBVIOUS
    <2>3. b.writeIndex + Len(data) <= Len(b.mem)
      BY <2>1, <2>2
    <2> QED
      BY <2>1, <2>2, <2>3
  <1> DEFINE new == Store(mem, w, data)
             c == Fill(b, data)
  <1>2. new \in Seq(Nat) /\ Len(new) = Len(mem)
    BY StoreType
  <1>3. Part(new, r, w + Len(data)) = Part(mem, r, w) \o data
    BY <1>1, StoreBehind
  <1>4. c = [b EXCEPT !.mem = new, !.writeIndex = w + Len(data)]
    BY <1>1 DEF Fill
  <1> HIDE DEF new, c
  <1>5. /\ c \in BufferType /\ c.mem = new /\ c.readIndex = r
        /\ c.writeIndex = w + Len(data)
    <2>1. b \in BufferType /\ w + Len(data) \in Nat
      BY <1>1 DEF WellFormed
    <2> QED
      BY <1>1, <1>2, <1>4, <2>1 DEF BufferType
  <1>6. WellFormed(c)
    BY <1>1, <1>2, <1>5 DEF WellFormed, size
  <1>7. Readable(c) = Readable(b) \o data
    BY <1>1, <1>3, <1>5, <1>6, Fields
  <1>8. /\ size(c) = size(b)
        /\ readableBytes(c) = readableBytes(b) + Len(data)
        /\ writeableBytes(c) = writeableBytes(b) - Len(data)
    BY <1>1, <1>2, <1>5 DEF size, readableBytes, writeableBytes
  <1> QED
    BY <1>1, <1>5, <1>6, <1>7, <1>8 DEF c

(* resize makes room, keeps the readable bytes and grows by no more than   *)
(* the readable bytes and the room asked for, twice.                       *)
LEMMA ResizeMakesRoom ==
    ASSUME NEW b, WellFormed(b), NEW len \in Nat, writeableBytes(b) < len
    PROVE  /\ WellFormed(resize(b, len))
           /\ Readable(resize(b, len)) = Readable(b)
           /\ readableBytes(resize(b, len)) = readableBytes(b)
           /\ len <= writeableBytes(resize(b, len))
           /\ \/ size(resize(b, len)) = size(b)
              \/ size(resize(b, len))
                    <= InitialPrependSize + 2 * (readableBytes(b) + len)
  <1>1. PICK mem \in Seq(Nat), r \in Nat, w \in Nat :
            /\ b.mem = mem /\ b.readIndex = r /\ b.writeIndex = w
            /\ InitialPrependSize \in Nat /\ InitialPrependSize <= r
            /\ r <= w /\ w <= Len(mem) /\ Len(mem) \in Nat
            /\ readableBytes(b) = w - r
            /\ writeableBytes(b) = Len(mem) - w
            /\ size(b) = Len(mem)
            /\ Readable(b) = Part(mem, r, w)
    BY Fields
  <1> DEFINE P == InitialPrependSize
             c == resize(b, len)
  <1>2. CASE prependableBytes(b) + writeableBytes(b) < len + P
    <2> DEFINE new == [i \in 1..(w + len) |->
                            IF i <= Len(mem) THEN mem[i] ELSE Zero]
    <2>1. w + len \in Nat /\ Len(mem) < w + len
      BY <1>1
    <2>2. new \in Seq(Nat) /\ Len(new) = w + len
            /\ \A i \in 1..Len(mem) : new[i] = mem[i]
      BY <1>1, <2>1, SMTT(30) DEF Zero
    <2>3. c = [b EXCEPT !.mem = new]
      BY <1>1, <1>2 DEF resize, size
    <2> HIDE DEF new, c
    <2>4. c \in BufferType /\ c.mem = new /\ c.readIndex = r /\ c.writeIndex = w
      BY <1>1, <2>2, <2>3 DEF BufferType, WellFormed
    <2>5. WellFormed(c)
      BY <1>1, <2>1, <2>2, <2>4 DEF WellFormed, size
    <2>6. Part(new, r, w) = Part(mem, r, w)
      <3>0. r <= w /\ w <= Len(mem)
        BY <1>1
      <3>1. w <= Len(new) /\ new \in Seq(Nat)
        BY <1>1, <2>1, <2>2
      <3>2. /\ Part(new, r, w) \in Seq(Nat) /\ Len(Part(new, r, w)) = w - r
            /\ \A i \in 1..(w - r) : Part(new, r, w)[i] = new[r + i]
        BY <3>0, <3>1, PartType
      <3>3. /\ Part(mem, r, w) \in Seq(Nat) /\ Len(Part(mem, r, w)) = w - r
            /\ \A i \in 1..(w - r) : Part(mem, r, w)[i] = mem[r + i]
        BY <3>0, PartType
      <3>4. \A i \in 1..(w - r) : r + i \in 1..Len(mem)
        BY <1>1
      <3> QED
        BY <2>2, <3>2, <3>3, <3>4, SeqEqual
    <2>7. Readable(c) = Readable(b) /\ readableBytes(c) = readableBytes(b)
      BY <1>1, <2>4, <2>5, <2>6, Fields
    <2>8. size(c) = w + len /\ writeableBytes(c) = len
      BY <1>1, <2>2, <2>4 DEF size, writeableBytes
    <2>9. w + len <= P + 2 * ((w - r) + len)
      <3>1. r + (Len(mem) - w) < len + P
        BY <1>1, <1>2 DEF prependableBytes
      <3> QED
        BY <1>1, <3>1
    <2> QED
      BY <1>1, <2>5, <2>7, <2>8, <2>9 DEF c
  <1>3. CASE ~(prependableBytes(b) + writeableBytes(b) < len + P)
    <2> DEFINE data == Part(mem, r, w)
               new == Store(mem, P, data)
    <2>1. data \in Seq(Nat) /\ Len(data) = w - r
      BY <1>1, PartType
    <2>2. c = [mem |-> new, readIndex |-> P, writeIndex |-> P + (w - r)]
      BY <1>1, <1>3 DEF resize
    <2> HIDE DEF data
    <2>3. new \in Seq(Nat) /\ Len(new) = Len(mem)
      BY <1>1, <2>1, StoreType
    <2>4. P + Len(data) <= Len(mem)
      BY <1>1, <2>1
    <2>5. Part(new, P, P + Len(data)) = data
      <3>1. Part(new, P, P + Len(data)) = Part(mem, P, P) \o data
        <4>1. P \in Nat /\ P <= P /\ data \in Seq(Nat)
          BY <1>1, <2>1
        <4> QED
          BY <2>4, <4>1, StoreBehind
      <3>2. Part(mem, P, P) = <<>>
        <4>1. Part(mem, P, P) \in Seq(Nat) /\ Len(Part(mem, P, P)) = P - P
          <5>1. P \in Nat /\ P <= P /\ P <= Len(mem)
            BY <1>1
          <5> QED
            BY <5>1, PartType
        <4>2. P - P = 0
          BY <1>1
        <4> QED
          BY <4>1, <4>2, EmptySeq
      <3> QED
        BY <2>1, <3>1, <3>2, ConcatEmptySeq
    <2> HIDE DEF new, c
    <2>6. /\ c \in BufferType /\ c.mem = new /\ c.readIndex = P
          /\ c.writeIndex = P + Len(data)
      BY <1>1, <2>1, <2>2, <2>3 DEF BufferType
    <2>7. WellFormed(c)
      BY <1>1, <2>1, <2>3, <2>4, <2>6 DEF WellFormed, size
    <2>8. Readable(c) = Readable(b)
      BY <1>1, <2>5, <2>6, <2>7, Fields DEF data
    <2>9. /\ readableBytes(c) = readableBytes(b) /\ size(c) = size(b)
      BY <1>1, <2>1, <2>3, <2>6 DEF readableBytes, size
    <2>10. len <= writeableBytes(c)
      <3>1. r + (Len(mem) - w) >= len + P
        BY <1>1, <1>3 DEF prependableBytes
      <3>2. writeableBytes(c) = Len(mem) - (P + (w - r))
        BY <2>1, <2>3, <2>6 DEF writeableBytes, size
      <3> QED
        BY <1>1, <3>1, <3>2
    <2> QED
      BY <2>7, <2>8, <2>9, <2>10 DEF c
  <1> QED
    BY <1>2, <1>3

(* append puts the data behind the readable bytes. *)
LEMMA AppendAppends ==
    ASSUME NEW b, WellFormed(b), NEW data \in Seq(Nat)
    PROVE  /\ WellFormed(append(b, data))
           /\ Readable(append(b, data)) = Readable(b) \o data
           /\ readableBytes(append(b, data)) = readableBytes(b) + Len(data)
           /\ \/ size(append(b, data)) = size(b)
              \/ size(append(b, data))
                    <= InitialPrependSize + 2 * readableBytes(append(b, data))
  <1> DEFINE e == ensureWriteableBytes(b, Len(data))
  <1>1. Len(data) \in Nat /\ writeableBytes(b) \in Nat
    BY ReadableType
  <1>2. /\ WellFormed(e) /\ Readable(e) = Readable(b)
        /\ readableBytes(e) = readableBytes(b)
        /\ Len(data) <= writeableBytes(e)
        /\ \/ size(e) = size(b)
           \/ size(e) <= InitialPrependSize + 2 * (readableBytes(b) + Len(data))
    <2>1. CASE writeableBytes(b) < Len(data)
      BY <1>1, <2>1, ResizeMakesRoom DEF ensureWriteableBytes
    <2>2. CASE ~(writeableBytes(b) < Len(data))
      BY <1>1, <2>2 DEF ensureWriteableBytes
    <2> QED
      BY <2>1, <2>2
  <1>3. append(b, data) = Fill(e, data)
    BY DEF append
  <1> HIDE DEF e
  <1>4. PICK f : f = Fill(e, data)
    OBVIOUS
  <1>5. /\ WellFormed(f) /\ Readable(f) = Readable(e) \o data
        /\ size(f) = size(e) /\ readableBytes(f) = readableBytes(e) + Len(data)
    BY <1>2, <1>4, FillAppends
  <1> QED
    BY <1>2, <1>3, <1>4, <1>5

LEMMA JoinAssociative ==
    ASSUME NEW x \in Seq(Nat), NEW y \in Seq(Nat), NEW z \in Seq(Nat)
    PROVE  (x \o y) \o z = x \o (y \o z)
  OBVIOUS

(* readFd does too, whether or not extrabuf was needed. *)
LEMMA ReadFdAppends ==
    ASSUME NEW b, WellFormed(b), NEW data \in Seq(Nat)
    PROVE  /\ WellFormed(readFd(b, data))
           /\ Readable(readFd(b, data)) = Readable(b) \o data
           /\ \/ size(readFd(b, data)) = size(b)
              \/ size(readFd(b, data))
                    <= InitialPrependSize + 2 * readableBytes(readFd(b, data))
  <1>1. PICK k \in Nat : k = writeableBytes(b)
    BY ReadableType
  <1>2. CASE Len(data) <= k
    BY <1>1, <1>2, FillAppends DEF readFd
  <1>3. CASE ~(Len(data) <= k)
    <2> DEFINE d1 == SubSeq(data, 1, k)
               d2 == SubSeq(data, k + 1, Len(data))
               c == Fill(b, d1)
    <2>1. readFd(b, data) = append(c, d2)
      BY <1>1, <1>3 DEF readFd
    <2>2. /\ d1 \in Seq(Nat) /\ d2 \in Seq(Nat) /\ Len(d1) = k
          /\ d1 \o d2 = data
      <3>1. Len(data) \in Nat /\ k \in 0..Len(data)
        BY <1>3
      <3>2. \A i \in 1..Len(data) : data[i] \in Nat
        OBVIOUS
      <3>3. d1 \in Seq(Nat) /\ Len(d1) = k
        BY <3>1, <3>2, SubSeqProperties
      <3>4. d2 \in Seq(Nat)
        BY <3>1, <3>2, SubSeqProperties
      <3>5. d1 \o d2 = SubSeq(data, 1, Len(data))
        <4>1. /\ 1 \in 1..(Len(data) + 1) /\ k \in (1 - 1)..Len(data)
              /\ Len(data) \in k..Len(data)
          BY <3>1
        <4> QED
          BY <4>1, ConcatAdjacentSubSeq
      <3>6. SubSeq(data, 1, Len(data)) = data
        BY SubSeqFull
      <3> QED
        BY <3>3, <3>4, <3>5, <3>6
    <2> HIDE DEF d1, d2
    <2>3. WellFormed(c) /\ Readable(c) = Readable(b) \o d1 /\ size(c) = size(b)
      <3>1. d1 \in Seq(Nat) /\ Len(d1) <= writeableBytes(b)
        BY <1>1, <2>2
      <3> QED
        BY <3>1, FillAppends
    <2> HIDE DEF c
    <2>4. /\ WellFormed(append(c, d2))
          /\ Readable(append(c, d2)) = Readable(c) \o d2
          /\ \/ size(append(c, d2)) = size(c)
             \/ size(append(c, d2))
                    <= InitialPrependSize + 2 * readableBytes(append(c, d2))
      BY <2>2, <2>3, AppendAppends
    <2>5. (Readable(b) \o d1) \o d2 = Readable(b) \o (d1 \o d2)
      <3>1. Readable(b) \in Seq(Nat)
        BY ReadableType
      <3>2. d1 \in Seq(Nat) /\ d2 \in Seq(Nat)
        BY <2>2
      <3> QED
        BY <3>1, <3>2, JoinAssociative, Zenon
    <2> QED
      BY <2>1, <2>2, <2>3, <2>4, <2>5
  <1> QED
    BY <1>2, <1>3

(* retrieve removes from the front. *)
LEMMA RetrieveTakes ==
    ASSUME NEW b, WellFormed(b), NEW n \in Nat, n <= readableBytes(b)
    PROVE  /\ WellFormed(retrieve(b, n))
           /\ Readable(retrieve(b, n))
                = SubSeq(Readable(b), n + 1, Len(Readable(b)))
           /\ readableBytes(retrieve(b, n)) = readableBytes(b) - n
           /\ size(retrieve(b, n)) = size(b)
  <1>1. PICK mem \in Seq(Nat), r \in Nat, w \in Nat :
            /\ b.mem = mem /\ b.readIndex = r /\ b.writeIndex = w
            /\ InitialPrependSize \in Nat /\ InitialPrependSize <= r
            /\ r <= w /\ w <= Len(mem) /\ Len(mem) \in Nat
            /\ readableBytes(b) = w - r
            /\ size(b) = Len(mem)
            /\ Readable(b) = Part(mem, r, w)
    BY Fields
  <1> DEFINE p == Part(mem, r, w)
             c == retrieve(b, n)
             t == SubSeq(p, n + 1, w - r)
  <1>2. /\ p \in Seq(Nat) /\ Len(p) = w - r
        /\ \A i \in 1..(w - r) : p[i] = mem[r + i]
    <2>1. r <= w /\ w <= Len(mem)
      BY <1>1
    <2> QED
      BY <2>1, PartType
  <1> HIDE DEF p
  <1>3. /\ t \in Seq(Nat) /\ Len(t) = (w - r) - n
        /\ \A i \in 1..((w - r) - n) : t[i] = p[n + i]
    <2>1. PICK k \in Nat : k = w - r
      BY <1>1
    <2>2. n <= k /\ Len(p) = k /\ \A i \in 1..k : p[i] \in Nat
      <3>1. n <= k /\ Len(p) = k
        BY <1>1, <1>2, <2>1
      <3> QED
        BY <1>2, <3>1, SMTT(30)
    <2>3. /\ SubSeq(p, n + 1, k) \in Seq(Nat)
          /\ Len(SubSeq(p, n + 1, k)) = k - n
          /\ \A i \in 1..(k - n) : SubSeq(p, n + 1, k)[i] = p[n + i]
      <3>1. CASE n + 1 <= k + 1
        BY <2>2, <3>1, SubSeqProperties
      <3> QED
        BY <2>2, <3>1
    <2> QED
      BY <2>1, <2>3
  <1> HIDE DEF t
  <1>4. CASE n < w - r
    <2>1. c = [b EXCEPT !.readIndex = r + n]
      BY <1>1, <1>4 DEF retrieve
    <2> HIDE DEF c
    <2>2. /\ c \in BufferType /\ c.mem = mem /\ c.readIndex = r + n
          /\ c.writeIndex = w
      <3>1. b \in BufferType /\ r + n \in Nat
        BY DEF WellFormed
      <3> QED
        BY <1>1, <2>1, <3>1 DEF BufferType
    <2>3. WellFormed(c)
      BY <1>1, <1>4, <2>2 DEF WellFormed, size
    <2>4. Part(mem, r + n, w) = t
      <3>1. PICK m \in Nat : m = r + n
        BY <1>1
      <3>2. m <= w /\ w <= Len(mem)
        BY <1>1, <1>4, <3>1
      <3>3. /\ Part(mem, m, w) \in Seq(Nat) /\ Len(Part(mem, m, w)) = w - m
            /\ \A i \in 1..(w - m) : Part(mem, m, w)[i] = mem[m + i]
        BY <3>2, PartType
      <3>4. w - m = (w - r) - n
        BY <1>1, <3>1
      <3>5. ASSUME NEW i \in 1..(w - m)
            PROVE  t[i] = mem[m + i]
        <4>1. n + i \in 1..(w - r) /\ r + (n + i) = m + i
          BY <1>1, <1>4, <3>1
        <4> QED
          BY <1>2, <1>3, <3>4, <4>1
      <3> DEFINE x == Part(mem, m, w)
      <3> HIDE DEF x
      <3>6. /\ x \in Seq(Nat) /\ Len(x) = Len(t)
            /\ \A i \in 1..Len(x) : x[i] = t[i]
        BY <1>3, <3>3, <3>4, <3>5 DEF x
      <3>7. x = t
        BY <1>3, <3>6, SeqEqual
      <3> QED
        BY <3>1, <3>7 DEF x
    <2>5. Readable(c) = t
      BY <2>2, <2>3, <2>4, Fields
    <2>6. readableBytes(c) = readableBytes(b) - n /\ size(c) = size(b)
      BY <1>1, <2>2 DEF readableBytes, size
    <2> QED
      BY <1>1, <1>2, <2>3, <2>5, <2>6 DEF c, t, p
  <1>5. CASE ~(n < w - r)
    <2>1. n = w - r
      BY <1>1, <1>5
    <2>2. c = [b EXCEPT !.readIndex = InitialPrependSize,
                        !.writeIndex = InitialPrependSize]
      BY <1>1, <1>5 DEF retrieve, retrieveAll
    <2> HIDE DEF c
    <2>3. /\ c \in BufferType /\ c.mem = mem
          /\ c.readIndex = InitialPrependSize
          /\ c.writeIndex = InitialPrependSize
      BY <1>1, <2>2 DEF BufferType, WellFormed
    <2>4. WellFormed(c)
      BY <1>1, <2>3 DEF WellFormed, size
    <2>5. readableBytes(c) = 0 /\ size(c) = size(b)
      BY <1>1, <2>3 DEF readableBytes, size
    <2>6. Readable(c) = <<>>
      BY <2>4, <2>5, ReadableType, EmptySeq
    <2>7. t = <<>>
      BY <1>1, <1>3, <2>1, EmptySeq
    <2>8. readableBytes(c) = readableBytes(b) - n
      BY <1>1, <2>1, <2>5
    <2> QED
      BY <1>1, <1>2, <2>4, <2>5, <2>6, <2>7, <2>8 DEF c, t, p
  <1> QED
    BY <1>4, <1>5

-----------------------------------------------------------------------------
(* The specification.                                                      *)

(* The readable bytes are at most the bytes that were put in: emptying the *)
(* buffer is then one of ByteQueue's Take steps.                           *)
IInv ==
    /\ TypeOK
    /\ IndicesInBounds
    /\ SizeBounded
    /\ readableBytes(buf) <= produced

LEMMA IInvWellFormed ==
    ASSUME IInv
    PROVE  /\ WellFormed(buf) /\ produced \in Nat /\ peak \in Nat
           /\ produced <= MaxBytes /\ MaxBytes \in Nat
           /\ InitialPrependSize \in Nat /\ InitialSize \in Nat
  BY BufferAssumptions DEF BufferAssumptions, IInv, TypeOK, IndicesInBounds,
     WellFormed

LEMMA ChunkType ==
    ASSUME NEW n \in Nat, produced \in Nat
    PROVE  /\ Chunk(n) \in Seq(Nat) /\ Len(Chunk(n)) = n
           /\ \A i \in 1..n : Chunk(n)[i] = produced + i
  BY DEF Chunk

(* SizeBounded survives a step that keeps the size, or grows it by no more *)
(* than what is readable afterwards allows.                                *)
LEMMA SizeStep ==
    ASSUME IInv, Changed, readableBytes(buf') \in Nat, size(buf) \in Nat,
           size(buf') \in Nat,
           \/ size(buf') = size(buf)
           \/ size(buf') <= InitialPrependSize + 2 * readableBytes(buf')
    PROVE  peak' \in Nat /\ SizeBounded'
  <1>1. peak \in Nat /\ InitialPrependSize \in Nat /\ InitialSize \in Nat
    BY IInvWellFormed
  <1>2. peak' \in Nat /\ peak <= peak' /\ readableBytes(buf') <= peak'
    BY <1>1 DEF Changed
  <1>3. \/ size(buf) <= InitialPrependSize + InitialSize
        \/ size(buf) <= InitialPrependSize + 2 * peak
    BY DEF IInv, SizeBounded
  <1>4. \/ size(buf') <= InitialPrependSize + InitialSize
        \/ size(buf') <= InitialPrependSize + 2 * peak'
    BY <1>1, <1>2, <1>3
  <1> QED
    BY <1>2, <1>4 DEF SizeBounded

LEMMA SizeType ==
    ASSUME NEW b, WellFormed(b)
    PROVE  size(b) \in Nat
  BY Fields

(* Putting n bytes behind the readable ones is a Put step. *)
LEMMA PutStep ==
    ASSUME IInv, NEW n \in 0..MaxBytes, Changed,
           produced + n <= MaxBytes, produced' = produced + n,
           WellFormed(buf'), Readable(buf') = Readable(buf) \o Chunk(n),
           \/ size(buf') = size(buf)
           \/ size(buf') <= InitialPrependSize + 2 * readableBytes(buf')
    PROVE  IInv' /\ BQ!Next
  <1>1. WellFormed(buf) /\ produced \in Nat /\ n \in Nat /\ MaxBytes \in Nat
    BY IInvWellFormed
  <1> DEFINE q == Readable(buf)
             c == Chunk(n)
             k == readableBytes(buf)
  <1>2. /\ q \in Seq(Nat) /\ Len(q) = k /\ k \in Nat
    BY <1>1, ReadableType
  <1>3. c \in Seq(Nat) /\ Len(c) = n /\ \A i \in 1..n : c[i] = produced + i
    BY <1>1, ChunkType
  <1>4. /\ readableBytes(buf') \in Nat /\ Len(q \o c) = readableBytes(buf')
    BY ReadableType
  <1>5. k <= produced /\ \A i \in 1..k : q[i] \in 1..produced
    BY DEF IInv, TypeOK
  <1>6. BQ!Next
    <2>1. BQ!Put(n)
      BY DEF BQ!Put, BQ!Chunk, Chunk
    <2> QED
      BY <2>1 DEF BQ!Next
  <1> HIDE DEF q, c, k
  <1>7. /\ Len(q \o c) = k + n
        /\ \A i \in 1..(k + n) :
                (q \o c)[i] = IF i <= k THEN q[i] ELSE c[i - k]
    <2>1. /\ Len(q \o c) = Len(q) + Len(c)
          /\ \A i \in 1..(Len(q) + Len(c)) :
                (q \o c)[i] = IF i <= Len(q) THEN q[i] ELSE c[i - Len(q)]
      BY <1>2, <1>3, ConcatProperties
    <2> QED
      BY <1>2, <1>3, <2>1
  <1>8. \A i \in 1..(k + n) : (q \o c)[i] \in 1..(produced + n)
    <2> SUFFICES ASSUME NEW i \in 1..(k + n)
                 PROVE  (q \o c)[i] \in 1..(produced + n)
      OBVIOUS
    <2>1. CASE i <= k
      <3>1. i \in 1..k
        BY <1>2, <2>1
      <3>2. (q \o c)[i] = q[i] /\ q[i] \in 1..produced
        BY <1>5, <1>7, <2>1, <3>1
      <3> QED
        BY <1>1, <3>2
    <2>2. CASE ~(i <= k)
      <3>1. i - k \in 1..n
        BY <1>1, <1>2, <2>2
      <3>2. (q \o c)[i] = produced + (i - k)
        BY <1>3, <1>7, <2>2, <3>1
      <3> QED
        BY <1>1, <3>1, <3>2
    <2> QED
      BY <2>1, <2>2
  <1>9. /\ readableBytes(buf') = k + n
        /\ \A i \in 1..readableBytes(buf') : Readable(buf')[i] \in 1..produced'
    BY <1>4, <1>7, <1>8 DEF q, c
  <1>10. size(buf) \in Nat /\ size(buf') \in Nat
    BY <1>1, SizeType
  <1>11. peak' \in Nat /\ SizeBounded'
    BY <1>4, <1>10, SizeStep
  <1>12. TypeOK'
    <2>1. buf' \in BufferType
      BY DEF WellFormed
    <2>2. produced' \in 0..MaxBytes
      BY <1>1
    <2> QED
      BY <1>9, <1>11, <2>1, <2>2 DEF TypeOK
  <1>13. IndicesInBounds' /\ readableBytes(buf') <= produced'
    BY <1>1, <1>2, <1>5, <1>9 DEF IndicesInBounds, WellFormed
  <1> QED
    BY <1>6, <1>11, <1>12, <1>13 DEF IInv

(* Removing n bytes from the front is a Take step. *)
LEMMA TakeStep ==
    ASSUME IInv, NEW n \in Nat, n <= readableBytes(buf), Changed,
           buf' = retrieve(buf, n), UNCHANGED produced
    PROVE  IInv' /\ BQ!Next
  <1>1. WellFormed(buf) /\ produced \in Nat /\ MaxBytes \in Nat
          /\ produced <= MaxBytes
    BY IInvWellFormed
  <1> DEFINE q == Readable(buf)
             k == readableBytes(buf)
  <1>2. q \in Seq(Nat) /\ Len(q) = k /\ k \in Nat
    BY <1>1, ReadableType
  <1>3. /\ WellFormed(buf') /\ Readable(buf') = SubSeq(q, n + 1, Len(q))
        /\ readableBytes(buf') = k - n /\ size(buf') = size(buf)
    BY <1>1, RetrieveTakes
  <1>4. k <= produced /\ \A i \in 1..k : q[i] \in 1..produced
    BY DEF IInv, TypeOK
  <1>5. BQ!Next
    <2>1. BQ!Take(n)
      BY <1>2, <1>3 DEF BQ!Take
    <2>2. n \in 0..MaxBytes
      BY <1>1, <1>2, <1>4
    <2> QED
      BY <2>1, <2>2 DEF BQ!Next
  <1> HIDE DEF q, k
  <1>6. n <= k
    BY DEF k
  <1>7. ASSUME NEW i \in 1..(k - n)
        PROVE  Readable(buf')[i] \in 1..produced
    <2>1. n + i \in 1..k /\ \A j \in 1..k : q[j] \in Nat
      BY <1>2, <1>6
    <2>2. \A j \in 1..(k - n) : SubSeq(q, n + 1, k)[j] = q[n + j]
      <3>1. n + 1 \in Nat
        OBVIOUS
      <3> QED
        BY <1>2, <1>6, <2>1, SubSeqProperties
    <2>3. Readable(buf')[i] = q[n + i]
      BY <1>2, <1>3, <2>2
    <2> QED
      BY <1>4, <2>1, <2>3
  <1>8. readableBytes(buf') \in Nat /\ size(buf) \in Nat /\ size(buf') \in Nat
    BY <1>1, <1>3, ReadableType, SizeType
  <1>9. peak' \in Nat /\ SizeBounded'
    BY <1>3, <1>8, SizeStep
  <1>10. TypeOK'
    <2>1. buf' \in BufferType
      BY <1>3 DEF WellFormed
    <2>2. \A i \in 1..readableBytes(buf') : Readable(buf')[i] \in 1..produced'
      BY <1>3, <1>7
    <2>3. produced' \in 0..MaxBytes
      BY <1>1
    <2> QED
      BY <1>9, <2>1, <2>2, <2>3 DEF TypeOK
  <1>11. IndicesInBounds' /\ readableBytes(buf') <= produced'
    <2>1. IndicesInBounds'
      BY <1>3 DEF IndicesInBounds, WellFormed
    <2>2. k - n <= produced
      BY <1>1, <1>2, <1>4
    <2> QED
      BY <1>3, <2>1, <2>2
  <1> QED
    BY <1>5, <1>9, <1>10, <1>11 DEF IInv

LEMMA BufferStep ==
    ASSUME IInv, Next
    PROVE  IInv' /\ BQ!Next
  <1>1. WellFormed(buf) /\ produced \in Nat /\ MaxBytes \in Nat
    BY IInvWellFormed
  <1>2. ASSUME NEW n \in 0..MaxBytes, AppendData(n)
        PROVE  IInv' /\ BQ!Next
    <2>1. Chunk(n) \in Seq(Nat)
      BY <1>1, ChunkType
    <2>2. /\ WellFormed(buf') /\ Readable(buf') = Readable(buf) \o Chunk(n)
          /\ \/ size(buf') = size(buf)
             \/ size(buf') <= InitialPrependSize + 2 * readableBytes(buf')
      BY <1>1, <1>2, <2>1, AppendAppends DEF AppendData
    <2> QED
      BY <1>2, <2>2, PutStep DEF AppendData
  <1>3. ASSUME NEW n \in 0..MaxBytes, ReadFd(n)
        PROVE  IInv' /\ BQ!Next
    <2>1. Chunk(n) \in Seq(Nat)
      BY <1>1, ChunkType
    <2>2. /\ WellFormed(buf') /\ Readable(buf') = Readable(buf) \o Chunk(n)
          /\ \/ size(buf') = size(buf)
             \/ size(buf') <= InitialPrependSize + 2 * readableBytes(buf')
      BY <1>1, <1>3, <2>1, ReadFdAppends DEF ReadFd
    <2> QED
      BY <1>3, <2>2, PutStep DEF ReadFd
  <1>4. ASSUME NEW n \in 0..MaxBytes, Retrieve(n)
        PROVE  IInv' /\ BQ!Next
    <2>1. n \in Nat
      BY <1>1
    <2> QED
      BY <1>4, <2>1, TakeStep DEF Retrieve
  <1>5. CASE RetrieveAll
    <2>1. PICK k \in Nat : k = readableBytes(buf)
      BY <1>1, ReadableType
    <2>2. retrieve(buf, k) = retrieveAll(buf)
      BY <2>1 DEF retrieve
    <2> QED
      BY <1>5, <2>1, <2>2, TakeStep DEF RetrieveAll
  <1> QED
    BY <1>2, <1>3, <1>4, <1>5 DEF Next

LEMMA InitEstablishesIInv ==
    ASSUME Init
    PROVE  IInv /\ BQ!Init
  <1>1. /\ InitialPrependSize \in Nat /\ InitialSize \in Nat /\ MaxBytes \in Nat
        /\ InitialPrependSize + InitialSize \in Nat
    BY BufferAssumptions DEF BufferAssumptions
  <1>2. /\ buf.mem \in Seq(Nat) /\ buf \in BufferType
        /\ Len(buf.mem) = InitialPrependSize + InitialSize
        /\ buf.readIndex = InitialPrependSize
        /\ buf.writeIndex = InitialPrependSize
    BY <1>1 DEF Init, NewBuffer, BufferType, Zero
  <1>3. readableBytes(buf) = 0 /\ size(buf) = InitialPrependSize + InitialSize
    BY <1>1, <1>2 DEF readableBytes, size
  <1>4. WellFormed(buf)
    BY <1>1, <1>2 DEF WellFormed, size
  <1>5. Readable(buf) = <<>>
    BY <1>3, <1>4, ReadableType, EmptySeq
  <1>6. produced = 0 /\ peak = 0
    BY DEF Init
  <1>7. TypeOK
    BY <1>1, <1>2, <1>3, <1>6 DEF TypeOK
  <1>8. IndicesInBounds /\ SizeBounded
    BY <1>1, <1>3, <1>4 DEF IndicesInBounds, SizeBounded, WellFormed
  <1> QED
    BY <1>3, <1>5, <1>6, <1>7, <1>8 DEF IInv, BQ!Init

LEMMA IInvCorrect ==
    Spec => []IInv
  <1>1. Init => IInv
    BY InitEstablishesIInv
  <1>2. IInv /\ [Next]_vars => IInv'
    <2>1. IInv /\ Next => IInv'
      BY BufferStep
    <2>2. IInv /\ UNCHANGED vars => IInv'
      BY DEF vars, IInv, TypeOK, IndicesInBounds, SizeBounded
    <2> QED
      BY <2>1, <2>2
  <1> QED
    BY <1>1, <1>2, PTL DEF Spec

-----------------------------------------------------------------------------
(* The readable part holds only bytes that were put in, never what resize  *)
(* or the constructor left in the vector.                                  *)
THEOREM TypeCorrect ==
    Spec => []TypeOK
  <1>1. IInv => TypeOK
    BY DEF IInv
  <1> QED
    BY <1>1, IInvCorrect, PTL

(* readIndex_ and writeIndex_ never leave the vector or the order they     *)
(* must have, over every sequence of append, readFd and retrieve.          *)
THEOREM IndicesStayInBounds ==
    Spec => []IndicesInBounds
  <1>1. IInv => IndicesInBounds
    BY DEF IInv
  <1> QED
    BY <1>1, IInvCorrect, PTL

(* The vector that resize_ grows is never more than the reserved part and  *)
(* twice the largest number of bytes that were readable at once.           *)
THEOREM SizeStaysBounded ==
    Spec => []SizeBounded
  <1>1. IInv => SizeBounded
    BY DEF IInv
  <1> QED
    BY <1>1, IInvCorrect, PTL

(* Buffer implements ByteQueue: resize_, the move to the front and the way *)
(* through extrabuf are invisible to who reads the bytes.                  *)
THEOREM ImplementsByteQueue ==
    Spec => ByteQueueSpec
  <1>1. Init => BQ!Init
    BY InitEstablishesIInv
  <1>2. IInv /\ [Next]_vars => [BQ!Next]_(BQ!vars)
    <2>1. IInv /\ Next => BQ!Next
      BY BufferStep
    <2>2. UNCHANGED vars => UNCHANGED BQ!vars
      BY DEF vars, BQ!vars
    <2> QED
      BY <2>1, <2>2
  <1> QED
    BY <1>1, <1>2, IInvCorrect, PTL DEF Spec, ByteQueueSpec, BQ!Spec
=============================================================================
