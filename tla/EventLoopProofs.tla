-------------------------- MODULE EventLoopProofs ---------------------------
(***************************************************************************)
(* Proofs about module EventLoop, for any number of threads, functors and  *)
(* channels, any initial length of events_ and any eventfd limit.          *)
(***************************************************************************)
EXTENDS EventLoop, TLAPS, SequenceTheorems, FiniteSetTheorems

(* callingPendingFunctors_ is up exactly inside doPendingFunctors. *)
FlagInv == callingPendingFunctors <=> (pc \in {"swap", "run", "functor"})

(* The loop thread is inside queueInLoop only while it runs user code. *)
LoopCallInv == caller[LoopThread] = "pushed" => UserCode

(* The local vector is empty outside the loop over it. *)
FunctorsInv == pc \notin {"run", "functor"} => functors = <<>>

(* A wakeup is in the eventfd or on its way there. *)
WakeupUnderWay ==
    \/ wakeupFd > 0
    \/ \E t \in Threads : caller[t] = "pushed"
    \/ pc = "functor" /\ caller[LoopThread] = "pushed"

(* NoLostWakeup, extended to all places from which the loop thread gets to *)
(* epoll_wait without passing the swap.                                    *)
WakeInv ==
    pc \in {"setup", "test", "poll", "run", "functor", "done"}
        => Elems(pendingFunctors) \subseteq early \/ WakeupUnderWay

IInv == TypeOK /\ FlagInv /\ LoopCallInv /\ FunctorsInv /\ WakeInv

(* The functors that wait, oldest first: the rest of the local vector,     *)
(* then the queue.                                                         *)
Waiting == functors \o pendingFunctors

(* No functor waits twice, or waits and has been started. *)
QueueInv ==
    /\ executed \subseteq submitted
    /\ \A i \in 1 .. Len(Waiting) : Waiting[i] \in submitted \ executed
    /\ \A i, j \in 1 .. Len(Waiting) : Waiting[i] = Waiting[j] => i = j

-----------------------------------------------------------------------------
(* What appending does to the elements of a queue. *)
LEMMA ElemsAppend ==
    ASSUME NEW S, NEW s \in Seq(S), NEW e \in S
    PROVE  Elems(Append(s, e)) = Elems(s) \cup {e}
  <1>1. /\ DOMAIN s = 1 .. Len(s)
        /\ DOMAIN Append(s, e) = 1 .. Len(s) + 1
        /\ Len(s) \in Nat
    OBVIOUS
  <1>2. Append(s, e)[Len(s) + 1] = e
    OBVIOUS
  <1>3. \A i \in 1 .. Len(s) : Append(s, e)[i] = s[i]
    OBVIOUS
  <1>4. Elems(Append(s, e)) \subseteq Elems(s) \cup {e}
    BY <1>1, <1>2, <1>3 DEF Elems
  <1>5. Elems(s) \cup {e} \subseteq Elems(Append(s, e))
    BY <1>1, <1>2, <1>3 DEF Elems
  <1> QED
    BY <1>4, <1>5

(* The wakeups counted in the eventfd are never forgotten by a write to    *)
(* it, also when the counter is full.                                      *)
LEMMA BumpPositive ==
    ASSUME NEW n \in 0..MaxEventfd
    PROVE  Bump(n) \in 0..MaxEventfd /\ Bump(n) > 0
  BY EventLoopAssumptions DEF EventLoopAssumptions, Bump

(* Every operation of the loop and of its callers keeps the types. *)
LEMMA TypeStep == TypeOK /\ [Next]_vars => TypeOK'
  <1> SUFFICES ASSUME TypeOK, [Next]_vars PROVE TypeOK'
    OBVIOUS
  <1> USE DEF TypeOK, Callers
  <1>1. ASSUME NEW t \in Callers, NEW f \in Functors, QueueInLoop(t, f)
        PROVE  TypeOK'
    BY <1>1 DEF QueueInLoop
  <1>2. ASSUME NEW t \in Callers, QueueInLoopWake(t) PROVE TypeOK'
    BY <1>2, BumpPositive DEF QueueInLoopWake
  <1>3. ASSUME NEW t \in Callers, Wakeup(t) PROVE TypeOK'
    BY <1>3, BumpPositive DEF Wakeup
  <1>4. ASSUME NEW t \in Callers, Quit(t) PROVE TypeOK'
    BY <1>4, BumpPositive DEF Quit
  <1>5. ASSUME NEW f \in Functors, RunInLoop(f) PROVE TypeOK'
    BY <1>5 DEF RunInLoop
  <1>6. CASE StartLoop
    BY <1>6 DEF StartLoop, PCs
  <1>7. CASE TestQuit
    BY <1>7 DEF TestQuit, PCs
  <1>8. CASE Poll
    <2>1. PICK S \in SUBSET Reportable :
            /\ activeChannels' = S
            /\ eventsSize' = IF Cardinality(S) = eventsSize
                                THEN 2 * eventsSize ELSE eventsSize
      BY <1>8 DEF Poll
    <2>2. activeChannels' \subseteq (IoChannels \cup {WakeupChannel})
      BY <2>1 DEF Reportable
    <2>3. eventsSize' \in Nat \ {0}
      BY <2>1
    <2> QED
      BY <1>8, <2>2, <2>3 DEF Poll, PCs
  <1>9. CASE PollNothing
    BY <1>9 DEF PollNothing, PCs
  <1>10. CASE HandleRead
    BY <1>10, EventLoopAssumptions DEF HandleRead, EventLoopAssumptions
  <1>11. ASSUME NEW c \in IoChannels, HandleEvent(c) PROVE TypeOK'
    BY <1>11 DEF HandleEvent, PCs
  <1>12. CASE EventReturns
    BY <1>12 DEF EventReturns, PCs
  <1>13. CASE BeginPending
    BY <1>13 DEF BeginPending, PCs
  <1>14. CASE SwapPending
    BY <1>14 DEF SwapPending, PCs
  <1>15. CASE RunFunctor
    BY <1>15, HeadTailProperties DEF RunFunctor, PCs
  <1>16. CASE FunctorReturns
    BY <1>16 DEF FunctorReturns, PCs
  <1>17. CASE EndPending
    BY <1>17 DEF EndPending, PCs
  <1>18. ASSUME NEW c \in IoChannels, EventArrives(c) PROVE TypeOK'
    BY <1>18 DEF EventArrives
  <1>19. CASE UNCHANGED vars
    BY <1>19 DEF vars
  <1> QED
    BY <1>1, <1>2, <1>3, <1>4, <1>5, <1>6, <1>7, <1>8, <1>9, <1>10, <1>11,
       <1>12, <1>13, <1>14, <1>15, <1>16, <1>17, <1>18, <1>19
       DEF Next, LoopStep, CallStep, Terminated

(* Init establishes the inductive invariant. *)
LEMMA InitIInv == Init => IInv
  <1> SUFFICES ASSUME Init PROVE IInv
    OBVIOUS
  <1>1. TypeOK
    <2>1. /\ pc \in PCs
          /\ looping \in BOOLEAN
          /\ quit \in BOOLEAN
          /\ callingPendingFunctors \in BOOLEAN
          /\ caller \in [Callers -> {"idle", "pushed"}]
      BY DEF Init, PCs
    <2>2. wakeupFd \in 0..MaxEventfd /\ eventsSize \in Nat \ {0}
      BY EventLoopAssumptions DEF Init, EventLoopAssumptions
    <2>3. pendingFunctors \in Seq(Functors) /\ functors \in Seq(Functors)
      BY EmptySeq DEF Init
    <2> QED
      BY <2>1, <2>2, <2>3 DEF Init, TypeOK
  <1>2. FlagInv /\ FunctorsInv
    BY DEF Init, FlagInv, FunctorsInv
  <1>3. LoopCallInv
    BY DEF Init, LoopCallInv, UserCode
  <1>4. WakeInv
    BY DEF Init, WakeInv, Elems
  <1> QED
    BY <1>1, <1>2, <1>3, <1>4 DEF IInv

(* Type correctness of the event loop in every reachable state: the        *)
(* eventfd counter stays within its limit, only callbacks enter the two    *)
(* vectors, only known channels become active.                             *)
THEOREM TypeCorrect == Spec => []TypeOK
  <1>1. Init => TypeOK
    BY InitIInv DEF IInv
  <1> QED
    BY <1>1, TypeStep, PTL DEF Spec

-----------------------------------------------------------------------------
(* The flag, the local vector and the position of the loop thread agree    *)
(* after every step.                                                       *)
LEMMA PhaseStep ==
    IInv /\ [Next]_vars => FlagInv' /\ LoopCallInv' /\ FunctorsInv'
  <1> SUFFICES ASSUME IInv, [Next]_vars
               PROVE  FlagInv' /\ LoopCallInv' /\ FunctorsInv'
    OBVIOUS
  <1> DEFINE Goal == FlagInv' /\ LoopCallInv' /\ FunctorsInv'
  <1> USE DEF IInv, TypeOK, Callers, FlagInv, LoopCallInv, FunctorsInv,
              UserCode, MayCall, LoopIdle
  <1>1. ASSUME NEW t \in Callers, NEW f \in Functors, QueueInLoop(t, f)
        PROVE  Goal
    BY <1>1 DEF QueueInLoop
  <1>2. ASSUME NEW t \in Callers, QueueInLoopWake(t) PROVE Goal
    BY <1>2 DEF QueueInLoopWake
  <1>3. ASSUME NEW t \in Callers, Wakeup(t) \/ Quit(t) PROVE Goal
    BY <1>3 DEF Wakeup, Quit
  <1>4. ASSUME NEW f \in Functors, RunInLoop(f) PROVE Goal
    BY <1>4 DEF RunInLoop
  <1>5. CASE StartLoop
    BY <1>5 DEF StartLoop
  <1>6. CASE TestQuit
    BY <1>6 DEF TestQuit
  <1>7. CASE Poll \/ PollNothing
    BY <1>7 DEF Poll, PollNothing
  <1>8. CASE HandleRead
    BY <1>8 DEF HandleRead
  <1>9. ASSUME NEW c \in IoChannels, HandleEvent(c) PROVE Goal
    BY <1>9 DEF HandleEvent
  <1>10. CASE EventReturns
    BY <1>10 DEF EventReturns
  <1>11. CASE BeginPending
    BY <1>11 DEF BeginPending
  <1>12. CASE SwapPending
    BY <1>12 DEF SwapPending
  <1>13. CASE RunFunctor
    BY <1>13 DEF RunFunctor
  <1>14. CASE FunctorReturns
    BY <1>14 DEF FunctorReturns
  <1>15. CASE EndPending
    BY <1>15 DEF EndPending
  <1>16. ASSUME NEW c \in IoChannels, EventArrives(c) PROVE Goal
    BY <1>16 DEF EventArrives
  <1>17. CASE UNCHANGED vars
    BY <1>17 DEF vars
  <1> QED
    BY <1>1, <1>2, <1>3, <1>4, <1>5, <1>6, <1>7, <1>8, <1>9, <1>10, <1>11,
       <1>12, <1>13, <1>14, <1>15, <1>16, <1>17
       DEF Next, LoopStep, CallStep, Terminated

(* A functor that waits where the loop can still reach epoll_wait keeps    *)
(* its wakeup.  The read of the eventfd is harmless because the swap       *)
(* follows it; the swap is harmless because it empties the queue; a        *)
(* functor queued by a functor is covered by callingPendingFunctors_.      *)
LEMMA WakeStep == IInv /\ [Next]_vars => WakeInv'
  <1> SUFFICES ASSUME IInv, [Next]_vars PROVE WakeInv'
    OBVIOUS
  <1> USE DEF IInv, TypeOK, Callers, WakeInv, WakeupUnderWay, MayCall,
              UserCode, LoopIdle
  <1>1. ASSUME NEW t \in Callers, NEW f \in Functors, QueueInLoop(t, f)
        PROVE  WakeInv'
    <2>1. caller'[t] = "pushed" /\ \A u \in Callers : u # t => caller'[u] = caller[u]
      BY <1>1 DEF QueueInLoop
    <2>2. CASE t \in Threads
      BY <1>1, <2>1, <2>2 DEF QueueInLoop
    <2>3. CASE t = LoopThread
      <3>1. CASE pc = "setup"
        <4>1. Elems(pendingFunctors') = Elems(pendingFunctors) \cup {f}
          BY <1>1, ElemsAppend DEF QueueInLoop
        <4>2. early' = early \cup {f} /\ pc' = pc /\ wakeupFd' = wakeupFd
          BY <1>1, <2>3, <3>1 DEF QueueInLoop
        <4>3. (\E u \in Threads : caller[u] = "pushed")
                => \E u \in Threads : caller'[u] = "pushed"
          BY <2>1
        <4> QED
          BY <3>1, <4>1, <4>2, <4>3
      <3>2. CASE pc = "callback"
        BY <1>1, <3>2 DEF QueueInLoop
      <3>3. CASE pc = "functor"
        BY <1>1, <2>1, <2>3, <3>3 DEF QueueInLoop
      <3> QED
        BY <1>1, <2>3, <3>1, <3>2, <3>3 DEF QueueInLoop
    <2> QED
      BY <2>2, <2>3
  <1>2. ASSUME NEW t \in Callers, QueueInLoopWake(t) PROVE WakeInv'
    <2>1. CASE MustWake(t)
      <3>1. wakeupFd' > 0
        BY <1>2, <2>1, BumpPositive DEF QueueInLoopWake
      <3> QED
        BY <3>1
    <2>2. CASE ~MustWake(t)
      <3>1. t = LoopThread /\ pc # "functor"
        BY <2>2 DEF MustWake, FlagInv
      <3>2. /\ UNCHANGED <<pc, wakeupFd, pendingFunctors, early>>
            /\ \A u \in Threads : caller'[u] = caller[u]
        BY <1>2, <2>2, <3>1, EventLoopAssumptions
           DEF QueueInLoopWake, EventLoopAssumptions
      <3> QED
        BY <3>1, <3>2
    <2> QED
      BY <2>1, <2>2
  <1>3. ASSUME NEW t \in Callers, Wakeup(t) PROVE WakeInv'
    BY <1>3, BumpPositive DEF Wakeup
  <1>4. ASSUME NEW t \in Callers, Quit(t) PROVE WakeInv'
    BY <1>4, BumpPositive DEF Quit
  <1>5. ASSUME NEW f \in Functors, RunInLoop(f) PROVE WakeInv'
    BY <1>5 DEF RunInLoop
  <1>6. CASE StartLoop
    BY <1>6 DEF StartLoop
  <1>7. CASE TestQuit
    BY <1>7 DEF TestQuit
  <1>8. CASE Poll \/ PollNothing
    BY <1>8 DEF Poll, PollNothing
  <1>9. CASE HandleRead
    BY <1>9 DEF HandleRead
  <1>10. ASSUME NEW c \in IoChannels, HandleEvent(c) PROVE WakeInv'
    BY <1>10 DEF HandleEvent
  <1>11. CASE EventReturns
    BY <1>11 DEF EventReturns
  <1>12. CASE BeginPending
    BY <1>12 DEF BeginPending
  <1>13. CASE SwapPending
    BY <1>13 DEF SwapPending, FunctorsInv, Elems
  <1>14. CASE RunFunctor
    BY <1>14 DEF RunFunctor, LoopCallInv
  <1>15. CASE FunctorReturns
    BY <1>15 DEF FunctorReturns
  <1>16. CASE EndPending
    BY <1>16 DEF EndPending
  <1>17. ASSUME NEW c \in IoChannels, EventArrives(c) PROVE WakeInv'
    BY <1>17 DEF EventArrives
  <1>18. CASE UNCHANGED vars
    BY <1>18 DEF vars
  <1> QED
    BY <1>1, <1>2, <1>3, <1>4, <1>5, <1>6, <1>7, <1>8, <1>9, <1>10, <1>11,
       <1>12, <1>13, <1>14, <1>15, <1>16, <1>17, <1>18
       DEF Next, LoopStep, CallStep, Terminated

(* The inductive invariant holds in every reachable state. *)
LEMMA IInvCorrect == Spec => []IInv
  <1>1. IInv /\ [Next]_vars => IInv'
    BY TypeStep, PhaseStep, WakeStep DEF IInv
  <1> QED
    BY InitIInv, <1>1, PTL DEF Spec

(* No wakeup is lost: for any number of threads, functors and channels,    *)
(* when the loop thread is about to enter epoll_wait or is in it, a        *)
(* functor in pendingFunctors_ has a wakeup in the eventfd or a caller     *)
(* about to write it.                                                      *)
THEOREM WakeupNeverLost == Spec => []NoLostWakeup
  <1>1. IInv => NoLostWakeup
    BY DEF IInv, WakeInv, WakeupUnderWay, NoLostWakeup
  <1> QED
    BY IInvCorrect, <1>1, PTL

-----------------------------------------------------------------------------
(* How the operations change the functors that wait. *)
LEMMA WaitingType ==
    ASSUME TypeOK
    PROVE  Waiting \in Seq(Functors) /\ Len(Waiting) \in Nat
  BY ConcatProperties, LenProperties DEF TypeOK, Waiting

LEMMA WaitingQueue ==
    ASSUME TypeOK, NEW t \in Callers, NEW f \in Functors, QueueInLoop(t, f)
    PROVE  Waiting' = Append(Waiting, f)
  <1>1. Waiting' = functors \o Append(pendingFunctors, f)
    BY DEF QueueInLoop, Waiting
  <1>2. functors \in Seq(Functors) /\ pendingFunctors \in Seq(Functors)
    BY DEF TypeOK
  <1>3. functors \o Append(pendingFunctors, f)
          = Append(functors \o pendingFunctors, f)
    BY <1>2
  <1> QED
    BY <1>1, <1>3 DEF Waiting

LEMMA WaitingSwap ==
    ASSUME TypeOK, FunctorsInv, SwapPending
    PROVE  Waiting' = Waiting
  <1>1. functors = <<>>
    BY DEF FunctorsInv, SwapPending
  <1>2. Waiting' = pendingFunctors \o <<>> /\ Waiting = <<>> \o pendingFunctors
    BY <1>1 DEF SwapPending, Waiting
  <1> QED
    BY <1>2, ConcatEmptySeq DEF TypeOK

LEMMA WaitingRun ==
    ASSUME TypeOK, RunFunctor
    PROVE  /\ Waiting # <<>>
           /\ Head(Waiting) = Head(functors)
           /\ Waiting' = Tail(Waiting)
  <1>1. /\ functors \in Seq(Functors) /\ functors # <<>>
        /\ pendingFunctors \in Seq(Functors)
    BY DEF TypeOK, RunFunctor
  <1>2. Waiting # <<>> /\ Head(Waiting) = Head(functors)
    BY <1>1 DEF Waiting
  <1>3. Tail(functors \o pendingFunctors) = Tail(functors) \o pendingFunctors
    BY <1>1
  <1> QED
    BY <1>2, <1>3 DEF Waiting, RunFunctor

(* Every other step leaves the functors that wait, and the histories,      *)
(* alone.                                                                  *)
LEMMA StepKinds ==
    ASSUME [Next]_vars
    PROVE  \/ \E t \in Callers, f \in Functors : QueueInLoop(t, f)
           \/ \E f \in Functors : RunInLoop(f)
           \/ SwapPending
           \/ RunFunctor
           \/ UNCHANGED <<Waiting, submitted, executed>>
  <1> USE DEF Waiting
  <1>1. ASSUME NEW t \in Callers, QueueInLoopWake(t) \/ Wakeup(t) \/ Quit(t)
        PROVE  UNCHANGED <<Waiting, submitted, executed>>
    BY <1>1 DEF QueueInLoopWake, Wakeup, Quit
  <1>2. CASE StartLoop \/ TestQuit \/ Poll \/ PollNothing \/ HandleRead
    BY <1>2 DEF StartLoop, TestQuit, Poll, PollNothing, HandleRead
  <1>3. ASSUME NEW c \in IoChannels, HandleEvent(c) \/ EventArrives(c)
        PROVE  UNCHANGED <<Waiting, submitted, executed>>
    BY <1>3 DEF HandleEvent, EventArrives
  <1>4. CASE EventReturns \/ BeginPending \/ FunctorReturns \/ EndPending
    BY <1>4 DEF EventReturns, BeginPending, FunctorReturns, EndPending
  <1>5. CASE UNCHANGED vars
    BY <1>5 DEF vars
  <1> HIDE DEF Waiting
  <1> QED
    BY <1>1, <1>2, <1>3, <1>4, <1>5 DEF Next, LoopStep, CallStep, Terminated

(* No functor enters the queue twice, or after it was started. *)
LEMMA QueueStep == IInv /\ QueueInv /\ [Next]_vars => QueueInv'
  <1> SUFFICES ASSUME IInv, QueueInv, [Next]_vars PROVE QueueInv'
    OBVIOUS
  <1>1. TypeOK /\ FunctorsInv
    BY DEF IInv
  <1>2. Waiting \in Seq(Functors) /\ Len(Waiting) \in Nat
    BY <1>1, WaitingType
  <1>3. ASSUME NEW t \in Callers, NEW f \in Functors, QueueInLoop(t, f)
        PROVE  QueueInv'
    <2>1. Waiting' = Append(Waiting, f)
      BY <1>1, <1>3, WaitingQueue
    <2>2. f \notin submitted /\ submitted' = submitted \cup {f}
            /\ executed' = executed
      BY <1>3 DEF QueueInLoop
    <2>3. /\ Len(Waiting') = Len(Waiting) + 1
          /\ \A i \in 1 .. Len(Waiting) : Waiting'[i] = Waiting[i]
          /\ Waiting'[Len(Waiting) + 1] = f
      BY <1>2, <2>1
    <2> QED
      BY <1>2, <2>2, <2>3 DEF QueueInv
  <1>4. ASSUME NEW f \in Functors, RunInLoop(f) PROVE QueueInv'
    <2>1. /\ Waiting' = Waiting
          /\ f \notin submitted /\ submitted' = submitted \cup {f}
          /\ executed' = executed \cup {f}
      BY <1>4 DEF RunInLoop, Waiting
    <2> QED
      BY <2>1 DEF QueueInv
  <1>5. CASE SwapPending
    <2>1. UNCHANGED <<Waiting, submitted, executed>>
      BY <1>1, <1>5, WaitingSwap DEF SwapPending
    <2> QED
      BY <2>1 DEF QueueInv
  <1>6. CASE RunFunctor
    <2>1. Waiting # <<>> /\ Waiting' = Tail(Waiting)
            /\ Head(Waiting) = Head(functors)
      BY <1>1, <1>6, WaitingRun
    <2>2. /\ Len(Waiting') = Len(Waiting) - 1
          /\ \A i \in 1 .. Len(Waiting') : Waiting'[i] = Waiting[i + 1]
          /\ Len(Waiting) > 0 /\ Head(Waiting) = Waiting[1]
      BY <1>2, <2>1, HeadTailProperties
    <2>3. submitted' = submitted /\ executed' = executed \cup {Waiting[1]}
      BY <1>6, <2>1, <2>2 DEF RunFunctor
    <2>4. executed' \subseteq submitted'
      BY <1>2, <2>2, <2>3 DEF QueueInv
    <2>5. ASSUME NEW i \in 1 .. Len(Waiting')
          PROVE  Waiting'[i] \in submitted' \ executed'
      <3>1. i + 1 \in 1 .. Len(Waiting) /\ 1 \in 1 .. Len(Waiting)
              /\ i + 1 # 1
        BY <1>2, <2>2
      <3>2. Waiting[i + 1] # Waiting[1]
        BY <3>1 DEF QueueInv
      <3> QED
        BY <2>2, <2>3, <3>1, <3>2 DEF QueueInv
    <2>6. ASSUME NEW i \in 1 .. Len(Waiting'), NEW j \in 1 .. Len(Waiting'),
                 Waiting'[i] = Waiting'[j]
          PROVE  i = j
      <3>1. i + 1 \in 1 .. Len(Waiting) /\ j + 1 \in 1 .. Len(Waiting)
        BY <1>2, <2>2
      <3>2. i + 1 = j + 1
        BY <2>2, <2>6, <3>1 DEF QueueInv
      <3> QED
        BY <3>2
    <2> QED
      BY <2>4, <2>5, <2>6 DEF QueueInv
  <1>7. CASE UNCHANGED <<Waiting, submitted, executed>>
    BY <1>7 DEF QueueInv
  <1> QED
    BY <1>3, <1>4, <1>5, <1>6, <1>7, StepKinds

(* The event loop implements the task queue: functors are run at most once *)
(* and in the order in which queueInLoop appended them, across the swaps   *)
(* of doPendingFunctors and for any interleaving of its callers.           *)
THEOREM ImplementsTaskQueue == Spec => TaskQueueSpec
  <1>1. Init => QueueInv /\ TQ!Init
    <2> SUFFICES ASSUME Init PROVE QueueInv /\ TQ!Init
      OBVIOUS
    <2>1. functors \o pendingFunctors = <<>> /\ submitted = {} /\ executed = {}
      BY DEF Init
    <2> QED
      BY <2>1 DEF QueueInv, Waiting, TQ!Init
  <1>2. IInv /\ QueueInv /\ [Next]_vars => [TQ!Next]_(TQ!vars)
    <2> SUFFICES ASSUME IInv, QueueInv, [Next]_vars
                 PROVE  TQ!Next \/ UNCHANGED TQ!vars
      BY DEF TQ!vars
    <2>1. TypeOK /\ FunctorsInv
      BY DEF IInv
    <2>2. ASSUME NEW t \in Callers, NEW f \in Functors, QueueInLoop(t, f)
          PROVE  TQ!Next
      <3>1. Waiting' = Append(Waiting, f)
        BY <2>1, <2>2, WaitingQueue
      <3>2. TQ!Submit(f)
        BY <2>2, <3>1 DEF Waiting, TQ!Submit, QueueInLoop
      <3> QED
        BY <3>2 DEF TQ!Next
    <2>3. ASSUME NEW f \in Functors, RunInLoop(f) PROVE TQ!Next
      <3>1. TQ!ExecuteNow(f)
        BY <2>3 DEF TQ!ExecuteNow, RunInLoop
      <3> QED
        BY <3>1 DEF TQ!Next
    <2>4. CASE SwapPending
      <3>1. UNCHANGED <<Waiting, submitted, executed>>
        BY <2>1, <2>4, WaitingSwap DEF SwapPending
      <3> QED
        BY <3>1 DEF Waiting, TQ!vars
    <2>5. CASE RunFunctor
      <3>1. Waiting # <<>> /\ Waiting' = Tail(Waiting)
              /\ Head(Waiting) = Head(functors)
        BY <2>1, <2>5, WaitingRun
      <3>2. Head(Waiting) \notin executed
        <4>1. Waiting \in Seq(Functors) /\ Len(Waiting) \in Nat
          BY <2>1, WaitingType
        <4>2. 1 \in 1 .. Len(Waiting) /\ Head(Waiting) = Waiting[1]
          BY <3>1, <4>1
        <4> QED
          BY <4>2 DEF QueueInv
      <3>3. submitted' = submitted /\ executed' = executed \cup {Head(Waiting)}
        BY <2>5, <3>1 DEF RunFunctor
      <3>4. TQ!Execute
        BY <3>1, <3>2, <3>3 DEF Waiting, TQ!Execute
      <3> QED
        BY <3>4 DEF TQ!Next
    <2>6. CASE UNCHANGED <<Waiting, submitted, executed>>
      BY <2>6 DEF Waiting, TQ!vars
    <2> QED
      BY <2>2, <2>3, <2>4, <2>5, <2>6, StepKinds
  <1> QED
    BY <1>1, <1>2, IInvCorrect, QueueStep, PTL DEF Spec, TaskQueueSpec, TQ!Spec
=============================================================================
