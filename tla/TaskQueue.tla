----------------------------- MODULE TaskQueue ------------------------------
(***************************************************************************)
(* What EventLoop::runInLoop and EventLoop::queueInLoop promise to their   *)
(* callers: a functor that is handed over is run by the loop thread at     *)
(* most once, and queued functors are run in the order in which they were  *)
(* queued.  How the hand-over is done (the vector under mutex_, the swap,  *)
(* the eventfd) is the business of module EventLoop, which is shown to     *)
(* implement this specification.                                           *)
(***************************************************************************)
EXTENDS Sequences

CONSTANT Functors           \* the callbacks handed to the loop

VARIABLES
    submitted,              \* functors some thread has handed over
    queue,                  \* queued and not yet started, oldest first
    executed                \* functors that have been started

vars == <<submitted, queue, executed>>

Init ==
    /\ submitted = {}
    /\ queue = <<>>
    /\ executed = {}

(* A functor is queued for the loop thread. *)
Submit(f) ==
    /\ f \notin submitted
    /\ submitted' = submitted \cup {f}
    /\ queue' = Append(queue, f)
    /\ UNCHANGED executed

(* The oldest queued functor is started. *)
Execute ==
    /\ queue # <<>>
    /\ Head(queue) \notin executed
    /\ executed' = executed \cup {Head(queue)}
    /\ queue' = Tail(queue)
    /\ UNCHANGED submitted

(* runInLoop called on the loop thread runs the functor at once.           *)
ExecuteNow(f) ==
    /\ f \notin submitted
    /\ submitted' = submitted \cup {f}
    /\ executed' = executed \cup {f}
    /\ UNCHANGED queue

Next ==
    \/ \E f \in Functors : Submit(f) \/ ExecuteNow(f)
    \/ Execute

Spec == Init /\ [][Next]_vars
=============================================================================
