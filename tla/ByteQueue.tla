----------------------------- MODULE ByteQueue ------------------------------
(***************************************************************************)
(* What a Buffer promises to its users (TcpConnection, HttpContext): a     *)
(* queue of bytes.  A byte is named by its position in the stream of all   *)
(* bytes ever put in, so that a lost, repeated, reordered or made-up byte  *)
(* shows.  Module Buffer, with its memory block and its two indices, is    *)
(* shown to implement this; module TcpConnection uses its outputBuffer_ as *)
(* such a queue.                                                           *)
(***************************************************************************)
EXTENDS Integers, Sequences

CONSTANT MaxBytes       \* bytes ever put in (bound)

VARIABLES
    queue,              \* the readable bytes
    produced            \* how many bytes were put in

vars == <<queue, produced>>

(* The next n bytes of the stream. *)
Chunk(n) == [i \in 1..n |-> produced + i]

Init == queue = <<>> /\ produced = 0

Put(n) ==
    /\ produced' = produced + n
    /\ queue' = queue \o Chunk(n)

Take(n) ==
    /\ n <= Len(queue)
    /\ queue' = SubSeq(queue, n + 1, Len(queue))
    /\ UNCHANGED produced

Next == \E n \in 0..MaxBytes : Put(n) \/ Take(n)

Spec == Init /\ [][Next]_vars
=============================================================================
