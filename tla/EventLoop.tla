----------------------------- MODULE EventLoop ------------------------------
(***************************************************************************)
(* One EventLoop (src/net/EventLoop.cc) with its poller's epoll_wait, the  *)
(* thread that runs loop(), and other threads that call runInLoop,         *)
(* queueInLoop, wakeup and quit on it.                                     *)
(*                                                                         *)
(* Each step is one region no other thread can observe in the middle: a    *)
(* critical section of mutex_, one access to an atomic flag, one system    *)
(* call.  User code (event callbacks, functors, code before loop()) is an  *)
(* arbitrary finite sequence of calls on the loop.                         *)
(***************************************************************************)
EXTENDS Naturals, Sequences, FiniteSets, FiniteSetsExt

CONSTANTS
    Threads,        \* threads other than the loop's own
    LoopThread,     \* the thread whose id is threadId_
    Functors,       \* callbacks; each is submitted at most once (bound)
    IoChannels,     \* channels other than wakeupChannel_
    WakeupChannel,  \* wakeupChannel_
    InitEventListSize,  \* kInitEventListSize: first length of events_
    MaxEventfd      \* largest value of the eventfd counter

ASSUME EventLoopAssumptions ==
    /\ LoopThread \notin Threads
    /\ WakeupChannel \notin IoChannels
    /\ IsFiniteSet(IoChannels)
    /\ InitEventListSize \in Nat \ {0}
    /\ MaxEventfd \in Nat \ {0}

VARIABLES
    pc,                     \* where the loop thread is
    looping,                \* looping_
    quit,                   \* quit_
    callingPendingFunctors, \* callingPendingFunctors_
    wakeupFd,               \* the eventfd counter behind wakeupFd_
    pendingFunctors,        \* pendingFunctors_
    functors,               \* local vector of doPendingFunctors, not yet run
    activeChannels,         \* activeChannels_ still to be handled
    eventsSize,             \* events_.size() of the EpollPoller
    ready,                  \* io channels with a level-triggered event
    caller,                 \* per thread: inside queueInLoop or not
    submitted,              \* history: functors handed over
    executed,               \* history: functors started
    early                   \* history: queued by the loop thread before loop()

vars == <<pc, looping, quit, callingPendingFunctors, wakeupFd,
          pendingFunctors, functors, activeChannels, eventsSize, ready,
          caller, submitted, executed, early>>

Callers == Threads \cup {LoopThread}

PCs == {"setup", "test", "poll", "handle", "callback", "swap", "run",
        "functor", "done"}

(* The loop thread is in user code: before loop(), in an event callback or *)
(* in a functor.                                                           *)
UserCode == pc \in {"setup", "callback", "functor"}

(* The elements of a sequence. *)
Elems(s) == {s[i] : i \in DOMAIN s}

TypeOK ==
    /\ pc \in PCs
    /\ looping \in BOOLEAN
    /\ quit \in BOOLEAN
    /\ callingPendingFunctors \in BOOLEAN
    /\ wakeupFd \in 0..MaxEventfd
    /\ pendingFunctors \in Seq(Functors)
    /\ functors \in Seq(Functors)
    /\ activeChannels \subseteq (IoChannels \cup {WakeupChannel})
    /\ eventsSize \in Nat \ {0}
    /\ ready \subseteq IoChannels
    /\ caller \in [Callers -> {"idle", "pushed"}]
    /\ submitted \subseteq Functors
    /\ executed \subseteq Functors
    /\ early \subseteq Functors

(* EventLoop::EventLoop: flags false, empty queue, wakeupChannel_ watched. *)
Init ==
    /\ pc = "setup"
    /\ looping = FALSE
    /\ quit = FALSE
    /\ callingPendingFunctors = FALSE
    /\ wakeupFd = 0
    /\ pendingFunctors = <<>>
    /\ functors = <<>>
    /\ activeChannels = {}
    /\ eventsSize = InitEventListSize
    /\ ready = {}
    /\ caller = [t \in Callers |-> "idle"]
    /\ submitted = {}
    /\ executed = {}
    /\ early = {}

-----------------------------------------------------------------------------
(* Calls on the loop.                                                      *)

(* The loop thread calls only from user code and is back in it before it   *)
(* calls again.                                                            *)
MayCall(t) ==
    /\ caller[t] = "idle"
    /\ t = LoopThread => UserCode

(* write(wakeupFd_, 1): a full counter refuses the write (EAGAIN).         *)
Bump(n) == IF n < MaxEventfd THEN n + 1 ELSE n

(* queueInLoop, the block under mutex_. *)
QueueInLoop(t, f) ==
    /\ MayCall(t)
    /\ f \notin submitted
    /\ pendingFunctors' = Append(pendingFunctors, f)
    /\ caller' = [caller EXCEPT ![t] = "pushed"]
    /\ submitted' = submitted \cup {f}
    /\ early' = IF t = LoopThread /\ pc = "setup" THEN early \cup {f}
                                                  ELSE early
    /\ UNCHANGED <<pc, looping, quit, callingPendingFunctors, wakeupFd,
                   functors, activeChannels, eventsSize, ready, executed>>

(* Fault for NoLostWakeup: functors queued by a functor send no wakeup. *)
MustWakeOthersOnly(t) == t # LoopThread

(* queueInLoop, after the block: the test that decides on wakeup(). *)
MustWake(t) == t # LoopThread \/ callingPendingFunctors

QueueInLoopWake(t) ==
    /\ caller[t] = "pushed"
    /\ wakeupFd' = IF MustWake(t) THEN Bump(wakeupFd) ELSE wakeupFd
    /\ caller' = [caller EXCEPT ![t] = "idle"]
    /\ UNCHANGED <<pc, looping, quit, callingPendingFunctors,
                   pendingFunctors, functors, activeChannels, eventsSize,
                   ready, submitted, executed, early>>

(* runInLoop on the loop thread calls the functor at once; from any other  *)
(* thread it is queueInLoop.                                               *)
RunInLoop(f) ==
    /\ MayCall(LoopThread)
    /\ f \notin submitted
    /\ submitted' = submitted \cup {f}
    /\ executed' = executed \cup {f}
    /\ UNCHANGED <<pc, looping, quit, callingPendingFunctors, wakeupFd,
                   pendingFunctors, functors, activeChannels, eventsSize,
                   ready, caller, early>>

Wakeup(t) ==
    /\ MayCall(t)
    /\ wakeupFd' = Bump(wakeupFd)
    /\ UNCHANGED <<pc, looping, quit, callingPendingFunctors,
                   pendingFunctors, functors, activeChannels, eventsSize,
                   ready, caller, submitted, executed, early>>

(* quit(): the wakeup is sent only when the caller IS the loop thread. *)
Quit(t) ==
    /\ MayCall(t)
    /\ quit' = TRUE
    /\ wakeupFd' = IF t = LoopThread THEN Bump(wakeupFd) ELSE wakeupFd
    /\ UNCHANGED <<pc, looping, callingPendingFunctors, pendingFunctors,
                   functors, activeChannels, eventsSize, ready, caller,
                   submitted, executed, early>>

-----------------------------------------------------------------------------
(* The loop thread.                                                        *)

LoopIdle == caller[LoopThread] = "idle"

(* loop(): entry. *)
StartLoop ==
    /\ pc = "setup" /\ LoopIdle
    /\ looping' = TRUE
    /\ quit' = FALSE
    /\ pc' = "test"
    /\ UNCHANGED <<callingPendingFunctors, wakeupFd, pendingFunctors,
                   functors, activeChannels, eventsSize, ready, caller,
                   submitted, executed, early>>

(* loop(): while (!quit_), then clear activeChannels_ or leave. *)
TestQuit ==
    /\ pc = "test"
    /\ IF quit
       THEN pc' = "done" /\ looping' = FALSE /\ UNCHANGED activeChannels
       ELSE pc' = "poll" /\ activeChannels' = {} /\ UNCHANGED looping
    /\ UNCHANGED <<quit, callingPendingFunctors, wakeupFd, pendingFunctors,
                   functors, eventsSize, ready, caller, submitted, executed,
                   early>>

(* What epoll_wait can report: level-triggered readiness. *)
Reportable ==
    ready \cup (IF wakeupFd > 0 THEN {WakeupChannel} ELSE {})

(* Fault for ReadyIsHandled: events_ is not grown when it was filled. *)
PollFixedList ==
    /\ pc = "poll"
    /\ Reportable # {}
    /\ \E S \in SUBSET Reportable :
        /\ Cardinality(S) = Min({eventsSize, Cardinality(Reportable)})
        /\ activeChannels' = S
    /\ pc' = "handle"
    /\ UNCHANGED <<looping, quit, callingPendingFunctors, wakeupFd,
                   pendingFunctors, functors, eventsSize, ready, caller,
                   submitted, executed, early>>

(* EpollPoller::poll with events: as many as fit in events_, which doubles *)
(* when it was filled.                                                     *)
Poll ==
    /\ pc = "poll"
    /\ Reportable # {}
    /\ \E S \in SUBSET Reportable :
        /\ Cardinality(S) = Min({eventsSize, Cardinality(Reportable)})
        /\ activeChannels' = S
        /\ eventsSize' = IF Cardinality(S) = eventsSize THEN 2 * eventsSize
                                                        ELSE eventsSize
    /\ pc' = "handle"
    /\ UNCHANGED <<looping, quit, callingPendingFunctors, wakeupFd,
                   pendingFunctors, functors, ready, caller, submitted,
                   executed, early>>

(* Fault for QuitEnds: a timeout is retried inside poll. *)
PollRetries == pc = "poll" /\ UNCHANGED vars

(* Fault for TypeOK: events_ is resized to the number of events reported,  *)
(* here none, so that the next epoll_wait has no room for any.             *)
PollNothingShrinks ==
    /\ pc = "poll"
    /\ Reportable = {}
    /\ eventsSize' = 0
    /\ pc' = "handle"
    /\ UNCHANGED <<looping, quit, callingPendingFunctors, wakeupFd,
                   pendingFunctors, functors, activeChannels, ready, caller,
                   submitted, executed, early>>

(* EpollPoller::poll without events, when nothing is there to be reported: *)
(* the kPollTimeMs timeout or EINTR (numEvents is then (size_t)-1, for     *)
(* which fillActiveChannels adds no channel).                              *)
PollNothing ==
    /\ pc = "poll"
    /\ Reportable = {}
    /\ pc' = "handle"
    /\ UNCHANGED <<looping, quit, callingPendingFunctors, wakeupFd,
                   pendingFunctors, functors, activeChannels, eventsSize,
                   ready, caller, submitted, executed, early>>

(* handleEvent of wakeupChannel_: handleRead reads the eventfd to zero. *)
HandleRead ==
    /\ pc = "handle"
    /\ WakeupChannel \in activeChannels
    /\ wakeupFd' = 0
    /\ activeChannels' = activeChannels \ {WakeupChannel}
    /\ UNCHANGED <<pc, looping, quit, callingPendingFunctors,
                   pendingFunctors, functors, eventsSize, ready, caller,
                   submitted, executed, early>>

(* handleEvent of any other channel: its callback starts and may or may    *)
(* not use up what made the channel ready.                                 *)
HandleEvent(c) ==
    /\ pc = "handle"
    /\ c \in activeChannels \ {WakeupChannel}
    /\ activeChannels' = activeChannels \ {c}
    /\ ready' \in {ready, ready \ {c}}
    /\ pc' = "callback"
    /\ UNCHANGED <<looping, quit, callingPendingFunctors, wakeupFd,
                   pendingFunctors, functors, eventsSize, caller, submitted,
                   executed, early>>

EventReturns ==
    /\ pc = "callback" /\ LoopIdle
    /\ pc' = "handle"
    /\ UNCHANGED <<looping, quit, callingPendingFunctors, wakeupFd,
                   pendingFunctors, functors, activeChannels, eventsSize,
                   ready, caller, submitted, executed, early>>

(* doPendingFunctors: the flag goes up ... *)
BeginPending ==
    /\ pc = "handle"
    /\ activeChannels = {}
    /\ callingPendingFunctors' = TRUE
    /\ pc' = "swap"
    /\ UNCHANGED <<looping, quit, wakeupFd, pendingFunctors, functors,
                   activeChannels, eventsSize, ready, caller, submitted,
                   executed, early>>

(* Fault for TaskQueueSpec: the queue is copied and not emptied. *)
CopyPending ==
    /\ pc = "swap"
    /\ functors' = pendingFunctors
    /\ pc' = "run"
    /\ UNCHANGED <<looping, quit, callingPendingFunctors, wakeupFd,
                   pendingFunctors, activeChannels, eventsSize, ready,
                   caller, submitted, executed, early>>

(* Fault for QueuedFunctorRuns: the flag goes down before the functors run. *)
SwapLowersFlag ==
    /\ pc = "swap"
    /\ functors' = pendingFunctors
    /\ pendingFunctors' = functors
    /\ callingPendingFunctors' = FALSE
    /\ pc' = "run"
    /\ UNCHANGED <<looping, quit, wakeupFd, activeChannels, eventsSize, ready,
                   caller, submitted, executed, early>>

(* ... the queue is swapped out under mutex_ ... *)
SwapPending ==
    /\ pc = "swap"
    /\ functors' = pendingFunctors
    /\ pendingFunctors' = functors
    /\ pc' = "run"
    /\ UNCHANGED <<looping, quit, callingPendingFunctors, wakeupFd,
                   activeChannels, eventsSize, ready, caller, submitted,
                   executed, early>>

(* ... its functors are called one after the other ... *)
RunFunctor ==
    /\ pc = "run"
    /\ functors # <<>>
    /\ executed' = executed \cup {Head(functors)}
    /\ functors' = Tail(functors)
    /\ pc' = "functor"
    /\ UNCHANGED <<looping, quit, callingPendingFunctors, wakeupFd,
                   pendingFunctors, activeChannels, eventsSize, ready,
                   caller, submitted, early>>

FunctorReturns ==
    /\ pc = "functor" /\ LoopIdle
    /\ pc' = "run"
    /\ UNCHANGED <<looping, quit, callingPendingFunctors, wakeupFd,
                   pendingFunctors, functors, activeChannels, eventsSize,
                   ready, caller, submitted, executed, early>>

(* ... and the flag goes down. *)
EndPending ==
    /\ pc = "run"
    /\ functors = <<>>
    /\ callingPendingFunctors' = FALSE
    /\ pc' = "test"
    /\ UNCHANGED <<looping, quit, wakeupFd, pendingFunctors, functors,
                   activeChannels, eventsSize, ready, caller, submitted,
                   executed, early>>

-----------------------------------------------------------------------------
(* The kernel: an event arrives on an io channel. *)
EventArrives(c) ==
    /\ c \notin ready
    /\ ready' = ready \cup {c}
    /\ UNCHANGED <<pc, looping, quit, callingPendingFunctors, wakeupFd,
                   pendingFunctors, functors, activeChannels, eventsSize,
                   caller, submitted, executed, early>>

(* loop() has returned; nothing is left for the loop thread to do. *)
Terminated == pc = "done" /\ UNCHANGED vars

LoopStep ==
    \/ StartLoop \/ TestQuit \/ Poll
    \/ HandleRead \/ (\E c \in IoChannels : HandleEvent(c)) \/ EventReturns
    \/ BeginPending \/ SwapPending \/ RunFunctor \/ FunctorReturns
    \/ EndPending

CallStep ==
    \/ \E t \in Callers :
        \/ \E f \in Functors : QueueInLoop(t, f)
        \/ QueueInLoopWake(t)
        \/ Wakeup(t)
        \/ Quit(t)
    \/ \E f \in Functors : RunInLoop(f)

Next ==
    \/ LoopStep
    \/ PollNothing
    \/ CallStep
    \/ \E c \in IoChannels : EventArrives(c)
    \/ Terminated

Spec == Init /\ [][Next]_vars

(* Threads run: the loop thread leaves every place but a blocked           *)
(* epoll_wait, user code returns, a call of queueInLoop completes.  The    *)
(* timeout of epoll_wait is NOT relied on.                                 *)
FairSpec ==
    /\ Spec
    /\ WF_vars(LoopStep)
    /\ \A t \in Callers : WF_vars(QueueInLoopWake(t))

(* The same, and an epoll_wait that reports nothing returns after          *)
(* kPollTimeMs.                                                            *)
TimedSpec == FairSpec /\ WF_vars(PollNothing)

-----------------------------------------------------------------------------
(* Properties.                                                             *)

(* While the loop thread is about to block, or blocks, in epoll_wait, a    *)
(* functor waiting in pendingFunctors_ has its wakeup in the eventfd or on *)
(* its way there: the emplace_back under mutex_, the swap in               *)
(* doPendingFunctors, the read in handleRead and the write in wakeup()     *)
(* never leave a functor stranded.  Functors queued by the loop thread     *)
(* itself before loop() are the exception: queueInLoop wakes nobody then,  *)
(* and the first epoll_wait may sleep for kPollTimeMs on top of them.      *)
NoLostWakeup ==
    pc \in {"test", "poll"} /\ ~(Elems(pendingFunctors) \subseteq early)
        => wakeupFd > 0 \/ \E t \in Threads : caller[t] = "pushed"

(* The loop implements the task queue: functors run once, in the order in  *)
(* which queueInLoop appended them, across any number of swaps.            *)
TQ == INSTANCE TaskQueue WITH queue <- functors \o pendingFunctors

TaskQueueSpec == TQ!Spec

(* A queued functor is run, without the help of the epoll_wait timeout,    *)
(* unless loop() returns first.                                            *)
QueuedFunctorRuns ==
    \A f \in Functors :
        (f \in Elems(pendingFunctors) \ early)
            ~> (f \in executed \/ pc = "done")

(* A channel that is ready is handled, however often other channels and    *)
(* the wakeup are ready too: events_ grows until poll leaves none out.     *)
ReadyIsHandled ==
    \A c \in IoChannels : c \in ready ~> (c \in activeChannels \/ pc = "done")

(* quit() called at any time after loop() has begun ends loop() if an      *)
(* epoll_wait that reports nothing returns after kPollTimeMs: a quit()     *)
(* from another thread, which sends no wakeup, is late but not lost.       *)
QuitEnds ==
    WF_vars(PollNothing) => ((quit /\ pc # "setup") ~> pc = "done")

(* EventLoop.h:35 says quit_ marks leaving the event loop: once it is set, *)
(* the loop is left.                                                       *)
QuitIsHonoured == quit ~> pc = "done"
=============================================================================
