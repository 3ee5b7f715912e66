------------------------- MODULE EventLoopThreadPool ------------------------
(***************************************************************************)
(* EventLoopThreadPool (src/net/EventLoopThreadPool.cc), the               *)
(* EventLoopThreads it owns (src/net/EventLoopThread.cc) and their Threads *)
(* (src/base/Thread.cc): start() brings the loops up one after the other,  *)
(* getNextLoop deals them out, destruction takes them down in order.       *)
(*                                                                         *)
(* Of an EventLoop only its life is kept: quit_, which loop() clears on    *)
(* entry (module EventLoop), and whether the object on the thread's stack  *)
(* exists.                                                                 *)
(***************************************************************************)
EXTENDS Naturals, Sequences, FiniteSets

CONSTANTS
    numThreads,     \* numThreads_
    MaxGiven        \* how often each loop is dealt out (bound)

ASSUME PoolAssumptions ==
    /\ numThreads \in Nat
    /\ MaxGiven \in Nat

VARIABLES
    owner,      \* where the thread that owns the pool is
    cur,        \* the EventLoopThread it starts or destroys
    loops,      \* loops_: whose loops, in order
    next,       \* next_, counted from 1
    given,      \* history: how often getNextLoop returned each loop
    notified,   \* cond_ was notified while the owner waits
    place,      \* where each thread is
    loopPtr,    \* loop_ of each EventLoopThread is not null
    alive,      \* the EventLoop on each thread's stack exists
    quit,       \* its quit_
    destroyed,  \* the EventLoopThread is destroyed
    badAccess,  \* something that does not exist was used
    userQuits   \* user code, too, calls quit() on the pool's loops

ownerVars == <<owner, cur, loops, next, given>>
threadVars == <<place, loopPtr, alive, quit>>
vars == <<ownerVars, notified, threadVars, destroyed, badAccess,
          userQuits>>

Ids == 1..numThreads
BaseLoop == 0

OwnerPlaces == {"start", "sem", "lock", "waiting", "serving", "test", "quit",
                "join", "done"}
Places == {"none", "spawned", "init", "publish", "enter", "looping", "clear",
           "unwind", "ended"}

TypeOK ==
    /\ owner \in OwnerPlaces
    /\ cur \in 1..(numThreads + 1)
    /\ loops \in Seq(Ids)
    /\ next \in 1..(IF loops = <<>> THEN 1 ELSE Len(loops))
    /\ given \in [Ids \cup {BaseLoop} -> 0..MaxGiven]
    /\ notified \in BOOLEAN
    /\ place \in [Ids -> Places]
    /\ loopPtr \in [Ids -> BOOLEAN]
    /\ alive \in [Ids -> BOOLEAN]
    /\ quit \in [Ids -> BOOLEAN]
    /\ destroyed \in [Ids -> BOOLEAN]
    /\ badAccess \in BOOLEAN
    /\ userQuits \in BOOLEAN

(* The pool is built, setThreadNum was called, start() begins. *)
Init ==
    /\ owner = IF numThreads = 0 THEN "serving" ELSE "start"
    /\ cur = 1
    /\ loops = <<>>
    /\ next = 1
    /\ given = [i \in Ids \cup {BaseLoop} |-> 0]
    /\ notified = FALSE
    /\ place = [i \in Ids |-> "none"]
    /\ loopPtr = [i \in Ids |-> FALSE]
    /\ alive = [i \in Ids |-> FALSE]
    /\ quit = [i \in Ids |-> FALSE]
    /\ destroyed = [i \in Ids |-> FALSE]
    /\ badAccess = FALSE
    /\ userQuits \in BOOLEAN

-----------------------------------------------------------------------------
(* The owner: start().                                                     *)

(* EventLoopThread::startLoop: Thread::start creates the thread ... *)
ThreadStart ==
    /\ owner = "start"
    /\ place' = [place EXCEPT ![cur] = "spawned"]
    /\ owner' = "sem"
    /\ UNCHANGED <<cur, loops, next, given, notified, loopPtr, alive, quit,
                   destroyed, badAccess, userQuits>>

(* ... and waits for its tid_; ... *)
SemWait ==
    /\ owner = "sem"
    /\ place[cur] # "spawned"
    /\ owner' = "lock"
    /\ UNCHANGED <<cur, loops, next, given, notified, threadVars, destroyed,
                   badAccess, userQuits>>

(* ... under mutex_: wait on cond_ while loop_ is null ... *)
StartLoopWait ==
    /\ owner = "lock"
    /\ ~loopPtr[cur]
    /\ owner' = "waiting"
    /\ UNCHANGED <<cur, loops, next, given, notified, threadVars, destroyed,
                   badAccess, userQuits>>

(* Fault for DealtLoopsLive: the wait ends on any wakeup, loop_ is not     *)
(* tested again.                                                           *)
StartLoopAnyway ==
    /\ owner = "lock"
    /\ loops' = Append(loops, cur)
    /\ cur' = cur + 1
    /\ owner' = IF cur = numThreads THEN "serving" ELSE "start"
    /\ UNCHANGED <<next, given, notified, threadVars, destroyed, badAccess,
                   userQuits>>

(* ... or return it; start() goes on to the next thread. *)
StartLoopReturn ==
    /\ owner = "lock"
    /\ loopPtr[cur]
    /\ loops' = Append(loops, cur)
    /\ cur' = cur + 1
    /\ owner' = IF cur = numThreads THEN "serving" ELSE "start"
    /\ UNCHANGED <<next, given, notified, threadVars, destroyed, badAccess,
                   userQuits>>

(* The wait ends because of a notification, or for no reason. *)
Wake ==
    /\ owner = "waiting"
    /\ owner' = "lock"
    /\ notified' = FALSE
    /\ UNCHANGED <<cur, loops, next, given, threadVars, destroyed, badAccess,
                   userQuits>>

NotifiedWake == notified /\ Wake

-----------------------------------------------------------------------------
(* The owner: getNextLoop.                                                 *)

(* Fault for TypeOK: next_ wraps one too late. *)
AdvanceTooFar == IF next > Len(loops) THEN 1 ELSE next + 1

Advance == IF next + 1 > Len(loops) THEN 1 ELSE next + 1

GetNextLoop ==
    /\ owner = "serving"
    /\ LET loop == IF loops = <<>> THEN BaseLoop ELSE loops[next]
       IN  /\ given[loop] < MaxGiven
           /\ given' = [given EXCEPT ![loop] = @ + 1]
    /\ next' = IF loops = <<>> THEN next ELSE Advance
    /\ UNCHANGED <<owner, cur, loops, notified, threadVars, destroyed,
                   badAccess, userQuits>>

-----------------------------------------------------------------------------
(* The owner: the EventLoopThreads are destroyed, first to last.           *)

BeginDestruction ==
    /\ owner = "serving"
    /\ cur' = 1
    /\ owner' = IF numThreads = 0 THEN "done" ELSE "test"
    /\ UNCHANGED <<loops, next, given, notified, threadVars, destroyed,
                   badAccess, userQuits>>

Destroyed ==
    /\ destroyed' = [destroyed EXCEPT ![cur] = TRUE]
    /\ cur' = cur + 1
    /\ owner' = IF cur = numThreads THEN "done" ELSE "test"

(* ~EventLoopThread reads loop_ without mutex_.  When it is null, ~Thread  *)
(* detaches the thread.                                                    *)
DtorNoLoop ==
    /\ owner = "test"
    /\ ~loopPtr[cur]
    /\ Destroyed
    /\ UNCHANGED <<loops, next, given, notified, threadVars, badAccess,
                   userQuits>>

DtorLoop ==
    /\ owner = "test"
    /\ loopPtr[cur]
    /\ owner' = "quit"
    /\ UNCHANGED <<cur, loops, next, given, notified, threadVars, destroyed,
                   badAccess, userQuits>>

(* Fault for NoBadAccess: the thread is not joined. *)
DtorQuitOnly ==
    /\ owner = "quit"
    /\ badAccess' = (badAccess \/ ~alive[cur])
    /\ quit' = [quit EXCEPT ![cur] = TRUE]
    /\ Destroyed
    /\ UNCHANGED <<loops, next, given, notified, place, loopPtr, alive,
                   userQuits>>

(* loop_->quit(), which reads loop_ again or uses what was read before. *)
DtorQuit ==
    /\ owner = "quit"
    /\ \E ptr \in {TRUE, loopPtr[cur]} :
            badAccess' = (badAccess \/ ~ptr \/ ~alive[cur])
    /\ quit' = [quit EXCEPT ![cur] = TRUE]
    /\ owner' = "join"
    /\ UNCHANGED <<cur, loops, next, given, notified, place, loopPtr, alive,
                   destroyed, userQuits>>

DtorJoin ==
    /\ owner = "join"
    /\ place[cur] = "ended"
    /\ Destroyed
    /\ UNCHANGED <<loops, next, given, notified, threadVars, badAccess,
                   userQuits>>

-----------------------------------------------------------------------------
(* The threads: EventLoopThread::threadFunc.                               *)

(* The new thread sets tid_ and posts the semaphore. *)
PostTid(i) ==
    /\ place[i] = "spawned"
    /\ place' = [place EXCEPT ![i] = "init"]
    /\ UNCHANGED <<ownerVars, notified, loopPtr, alive, quit, destroyed,
                   badAccess, userQuits>>

(* EventLoop loop; callback_(&loop). *)
CreateLoop(i) ==
    /\ place[i] = "init"
    /\ alive' = [alive EXCEPT ![i] = TRUE]
    /\ place' = [place EXCEPT ![i] = "publish"]
    /\ UNCHANGED <<ownerVars, notified, loopPtr, quit, destroyed, badAccess,
                   userQuits>>

(* Fault for PoolStarts: cond_ is not notified. *)
PublishSilently(i) ==
    /\ place[i] = "publish"
    /\ loopPtr' = [loopPtr EXCEPT ![i] = TRUE]
    /\ place' = [place EXCEPT ![i] = "enter"]
    /\ UNCHANGED <<ownerVars, notified, alive, quit, destroyed, badAccess,
                   userQuits>>

(* Under mutex_: loop_ = &loop, notify_one. *)
Publish(i) ==
    /\ place[i] = "publish"
    /\ loopPtr' = [loopPtr EXCEPT ![i] = TRUE]
    /\ notified' = (owner = "waiting" /\ cur = i)
    /\ place' = [place EXCEPT ![i] = "enter"]
    /\ UNCHANGED <<ownerVars, alive, quit, destroyed, badAccess, userQuits>>

(* loop.loop() begins: quit_ = false. *)
EnterLoop(i) ==
    /\ place[i] = "enter"
    /\ quit' = [quit EXCEPT ![i] = FALSE]
    /\ place' = [place EXCEPT ![i] = "looping"]
    /\ UNCHANGED <<ownerVars, notified, loopPtr, alive, destroyed, badAccess,
                   userQuits>>

(* loop.loop() returns (module EventLoop, QuitEnds). *)
LeaveLoop(i) ==
    /\ place[i] = "looping"
    /\ quit[i]
    /\ place' = [place EXCEPT ![i] = "clear"]
    /\ UNCHANGED <<ownerVars, notified, loopPtr, alive, quit, destroyed,
                   badAccess, userQuits>>

(* Fault for PoolStops: the thread waits for someone else to clear loop_. *)
ClearLoopLate(i) ==
    /\ place[i] = "clear"
    /\ destroyed[i]
    /\ place' = [place EXCEPT ![i] = "unwind"]
    /\ UNCHANGED <<ownerVars, notified, loopPtr, alive, quit, destroyed,
                   badAccess, userQuits>>

(* Fault for PointerIsLive: loop_ is left as it is. *)
ClearNothing(i) ==
    /\ place[i] = "clear"
    /\ place' = [place EXCEPT ![i] = "unwind"]
    /\ UNCHANGED <<ownerVars, notified, loopPtr, alive, quit, destroyed,
                   badAccess, userQuits>>

(* mutex_ is taken and loop_ set to null ... *)
ClearLoop(i) ==
    /\ place[i] = "clear"
    /\ loopPtr' = [loopPtr EXCEPT ![i] = FALSE]
    /\ badAccess' = (badAccess \/ destroyed[i])
    /\ place' = [place EXCEPT ![i] = "unwind"]
    /\ UNCHANGED <<ownerVars, notified, alive, quit, destroyed, userQuits>>

(* ... then the lock, and after it the EventLoop, go out of scope. *)
Unwind(i) ==
    /\ place[i] = "unwind"
    /\ badAccess' = (badAccess \/ destroyed[i])
    /\ alive' = [alive EXCEPT ![i] = FALSE]
    /\ place' = [place EXCEPT ![i] = "ended"]
    /\ UNCHANGED <<ownerVars, notified, loopPtr, quit, destroyed, userQuits>>

(* callback_, a functor, or whoever got the loop from getAllLoops.         *)
UserQuit(i) ==
    /\ userQuits
    /\ place[i] \in {"publish", "enter", "looping"}
    /\ quit' = [quit EXCEPT ![i] = TRUE]
    /\ UNCHANGED <<ownerVars, notified, place, loopPtr, alive, destroyed,
                   badAccess, userQuits>>

Terminated == owner = "done" /\ UNCHANGED vars

-----------------------------------------------------------------------------
StartStep == ThreadStart \/ SemWait \/ StartLoopWait \/ StartLoopReturn
                \/ NotifiedWake

DestroyStep == DtorNoLoop \/ DtorLoop \/ DtorQuit \/ DtorJoin

ThreadStep(i) ==
    \/ PostTid(i) \/ CreateLoop(i) \/ Publish(i) \/ EnterLoop(i)
    \/ LeaveLoop(i) \/ ClearLoop(i) \/ Unwind(i)

Next ==
    \/ StartStep \/ Wake
    \/ GetNextLoop \/ BeginDestruction
    \/ DestroyStep
    \/ \E i \in Ids : ThreadStep(i) \/ UserQuit(i)
    \/ Terminated

Spec == Init /\ [][Next]_vars

(* Threads run; a wait on cond_ ends when it was notified. *)
FairSpec ==
    /\ Spec
    /\ WF_vars(StartStep) /\ WF_vars(DestroyStep)
    /\ \A i \in Ids : WF_vars(ThreadStep(i))

-----------------------------------------------------------------------------
(* Properties.                                                             *)

(* loop_ never outlives the EventLoop on its thread's stack. *)
PointerIsLive == \A i \in Ids : loopPtr[i] => alive[i]

(* No step uses an EventLoop or an EventLoopThread that is gone: quit() is *)
(* called on a live loop, and the thread has unwound before the object is  *)
(* gone, as long as user code leaves quit() to the pool.                   *)
NoBadAccess == badAccess => userQuits

(* While the server accepts, each loop that getNextLoop can return exists, *)
(* as long as user code leaves quit() to the pool.                         *)
DealtLoopsLive ==
    owner = "serving" /\ ~userQuits =>
        /\ Len(loops) = numThreads
        /\ \A i \in DOMAIN loops : alive[loops[i]]

(* start() returns: no notification is lost between loop_ and cond_.  (A   *)
(* loop that user code ends before startLoop looks leaves it waiting.)     *)
PoolStarts == owner = "start" /\ ~userQuits ~> owner = "serving"

(* The destruction of the pool ends if it starts when all loops are in     *)
(* loop().  (A quit() before that is lost: EventLoop, QuitIsHonoured.)     *)
PoolStops ==
    (/\ owner = "test" /\ cur = 1 /\ ~userQuits
     /\ \A i \in Ids : place[i] = "looping")
        ~> owner = "done"
=============================================================================
