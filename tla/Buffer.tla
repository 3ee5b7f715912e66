------------------------------- MODULE Buffer -------------------------------
(***************************************************************************)
(* Buffer (src/net/Buffer.h, Buffer.cc): a vector of chars with a reserved *)
(* front part, a read index and a write index.  The operations are         *)
(* operators on a record; the specification calls them in any order, as    *)
(* the owners of an inputBuffer_ or an outputBuffer_ do.                   *)
(*                                                                         *)
(* A byte is named by its position in the stream (see ByteQueue).          *)
(***************************************************************************)
EXTENDS Integers, Sequences

CONSTANTS
    InitialPrependSize, \* the reserved front part
    InitialSize,        \* first size of the rest
    ExtraSize,          \* sizeof extrabuf in readFd
    MaxBytes            \* bytes ever put in (bound)

ASSUME BufferAssumptions ==
    /\ InitialPrependSize \in Nat
    /\ InitialSize \in Nat
    /\ ExtraSize \in Nat
    /\ MaxBytes \in Nat

VARIABLES
    buf,        \* the Buffer
    produced,   \* how many bytes were put in
    peak        \* history: the most bytes that were readable at once

vars == <<buf, produced, peak>>

-----------------------------------------------------------------------------
(* The operations.                                                         *)

Zero == 0       \* what the vector puts into new elements

NewBuffer ==
    [mem |-> [i \in 1..(InitialPrependSize + InitialSize) |-> Zero],
     readIndex |-> InitialPrependSize, writeIndex |-> InitialPrependSize]

size(b) == Len(b.mem)
readableBytes(b) == b.writeIndex - b.readIndex
writeableBytes(b) == size(b) - b.writeIndex
prependableBytes(b) == b.readIndex

(* The bytes from peek() to beginWrite(). *)
Readable(b) == [i \in 1..readableBytes(b) |-> b.mem[b.readIndex + i]]

(* std::copy of data to index `at`.  What lies beyond the vector is not    *)
(* written (in the program: a write out of bounds).                        *)
Store(mem, at, data) ==
    [i \in 1..Len(mem) |->
        IF i > at /\ i <= at + Len(data) THEN data[i - at] ELSE mem[i]]

retrieveAll(b) ==
    [b EXCEPT !.readIndex = InitialPrependSize,
              !.writeIndex = InitialPrependSize]

retrieve(b, len) ==
    IF len < readableBytes(b) THEN [b EXCEPT !.readIndex = @ + len]
                              ELSE retrieveAll(b)

(* Fault for SizeBounded: the bytes are never moved to the front. *)
resizeAlways(b, len) ==
    [b EXCEPT !.mem = [i \in 1..(b.writeIndex + len) |->
                        IF i <= size(b) THEN b.mem[i] ELSE Zero]]

(* Fault for IndicesInBounds: the reserved part is counted as room. *)
resizeUsesPrepend(b, len) ==
    IF prependableBytes(b) + writeableBytes(b) < len
    THEN [b EXCEPT !.mem = [i \in 1..(b.writeIndex + len) |->
                                IF i <= size(b) THEN b.mem[i] ELSE Zero]]
    ELSE [mem |-> Store(b.mem, InitialPrependSize, Readable(b)),
          readIndex |-> InitialPrependSize,
          writeIndex |-> InitialPrependSize + readableBytes(b)]

(* The vector grows, or the readable bytes move to the front. *)
resize(b, len) ==
    IF prependableBytes(b) + writeableBytes(b) < len + InitialPrependSize
    THEN [b EXCEPT !.mem = [i \in 1..(b.writeIndex + len) |->
                                IF i <= size(b) THEN b.mem[i] ELSE Zero]]
    ELSE [mem |-> Store(b.mem, InitialPrependSize, Readable(b)),
          readIndex |-> InitialPrependSize,
          writeIndex |-> InitialPrependSize + readableBytes(b)]

ensureWriteableBytes(b, len) ==
    IF writeableBytes(b) < len THEN resize(b, len) ELSE b

(* Fault for TypeOK: writeIndex_ is moved before the copy. *)
FillLate(b, data) ==
    [b EXCEPT !.mem = Store(@, b.writeIndex + Len(data), data),
              !.writeIndex = @ + Len(data)]

(* std::copy to beginWrite(), and writeIndex_ behind it. *)
Fill(b, data) ==
    [b EXCEPT !.mem = Store(@, b.writeIndex, data),
              !.writeIndex = @ + Len(data)]

append(b, data) == Fill(ensureWriteableBytes(b, Len(data)), data)

(* readFd: how much one readv may bring. *)
ReadRoom(b) ==
    writeableBytes(b) + (IF writeableBytes(b) < ExtraSize THEN ExtraSize ELSE 0)

(* Fault for ByteQueueSpec: what readv put into extrabuf is forgotten. *)
readFdOneVector(b, data) ==
    IF Len(data) <= writeableBytes(b)
    THEN Fill(b, data)
    ELSE Fill(b, SubSeq(data, 1, writeableBytes(b)))

(* readFd: data goes to the free space, the rest through extrabuf.         *)
readFd(b, data) ==
    IF Len(data) <= writeableBytes(b)
    THEN Fill(b, data)
    ELSE append(Fill(b, SubSeq(data, 1, writeableBytes(b))),
                SubSeq(data, writeableBytes(b) + 1, Len(data)))

-----------------------------------------------------------------------------
BufferType ==
    [mem : Seq(Nat), readIndex : Nat, writeIndex : Nat]

(* The readable bytes are bytes of the stream, not what a resize left. *)
TypeOK ==
    /\ buf \in BufferType
    /\ \A i \in 1..readableBytes(buf) : Readable(buf)[i] \in 1..produced
    /\ produced \in 0..MaxBytes
    /\ peak \in Nat

Init ==
    /\ buf = NewBuffer
    /\ produced = 0
    /\ peak = 0

Chunk(n) == [i \in 1..n |-> produced + i]

Changed ==
    peak' = IF readableBytes(buf') > peak THEN readableBytes(buf') ELSE peak

AppendData(n) ==
    /\ produced + n <= MaxBytes
    /\ buf' = append(buf, Chunk(n))
    /\ produced' = produced + n
    /\ Changed

(* readv brings n bytes; n = 0 is the end of the stream. *)
ReadFd(n) ==
    /\ produced + n <= MaxBytes
    /\ n <= ReadRoom(buf)
    /\ buf' = readFd(buf, Chunk(n))
    /\ produced' = produced + n
    /\ Changed

(* retrieve, retrieveUtil, retrieveAsString, and the retrieve(n) that      *)
(* handleWrite calls after writeFd wrote n bytes: never more than there is.*)
Retrieve(n) ==
    /\ n <= readableBytes(buf)
    /\ buf' = retrieve(buf, n)
    /\ UNCHANGED produced
    /\ Changed

RetrieveAll ==
    /\ buf' = retrieveAll(buf)
    /\ UNCHANGED produced
    /\ Changed

Next ==
    \/ \E n \in 0..MaxBytes : AppendData(n) \/ ReadFd(n) \/ Retrieve(n)
    \/ RetrieveAll

Spec == Init /\ [][Next]_vars

-----------------------------------------------------------------------------
(* Properties.                                                             *)

(* The indices stay in the vector, in order, behind the reserved part,     *)
(* whatever mixture of growing, moving and emptying came before.           *)
IndicesInBounds ==
    /\ InitialPrependSize <= buf.readIndex
    /\ buf.readIndex <= buf.writeIndex
    /\ buf.writeIndex <= size(buf)

(* resize_ wastes at most as much as it serves: the vector never exceeds   *)
(* twice the largest backlog (or its first size) and the reserved part.    *)
SizeBounded ==
    \/ size(buf) <= InitialPrependSize + InitialSize
    \/ size(buf) <= InitialPrependSize + 2 * peak

(* The buffer is a queue of bytes: what append and readFd put in comes out *)
(* of retrieve once, unchanged and in order, across resizes and moves.     *)
BQ == INSTANCE ByteQueue WITH queue <- Readable(buf)

ByteQueueSpec == BQ!Spec
=============================================================================
