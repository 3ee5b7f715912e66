--------------------- MODULE EventLoopThreadPoolProofs ----------------------
(***************************************************************************)
(* Proofs about module EventLoopThreadPool, for any number of threads.     *)
(***************************************************************************)
EXTENDS EventLoopThreadPool, TLAPS, SequenceTheorems

Starting == owner \in {"start", "sem", "lock", "waiting"}
Destroying == owner \in {"test", "quit", "join"}

(* start() and the destruction work on a thread that exists. *)
CurInv == Starting \/ Destroying => cur \in Ids

(* loops_ holds the loops of the threads start() is done with, in order. *)
LoopsInv ==
    /\ Len(loops) = IF Starting THEN cur - 1 ELSE numThreads
    /\ \A i \in 1..Len(loops) : loops[i] = i

(* The EventLoop exists, and loop_ points to it, while threadFunc is in    *)
(* the right part of its body.                                             *)
LifeInv ==
    \A i \in Ids :
        /\ alive[i] <=> place[i] \in {"publish", "enter", "looping", "clear",
                                      "unwind"}
        /\ loopPtr[i] <=> place[i] \in {"enter", "looping", "clear"}

(* start() has seen the loop_ of every thread it is done with, and has not *)
(* created the ones to come.                                               *)
StartInv ==
    \A i \in Ids :
        /\ ~Starting \/ i < cur
                => place[i] \notin {"none", "spawned", "init", "publish"}
        /\ Starting /\ i > cur => place[i] = "none"
        /\ owner = "start" /\ i = cur => place[i] = "none"

(* The destructor of thread i has not called quit() yet. *)
Untouched(i) ==
    \/ Starting
    \/ owner = "serving"
    \/ owner \in {"test", "quit"} /\ i >= cur
    \/ owner = "join" /\ i > cur

(* As long as user code leaves quit() to the pool, a loop that is          *)
(* untouched has not begun to end, and a thread whose object is gone has   *)
(* ended.                                                                  *)
QuietInv ==
    ~userQuits =>
        \A i \in Ids :
            /\ Untouched(i) => ~quit[i]
            /\ Untouched(i) => place[i] \notin {"clear", "unwind", "ended"}
            /\ destroyed[i] => place[i] = "ended"

IInv ==
    /\ TypeOK
    /\ CurInv
    /\ LoopsInv
    /\ LifeInv
    /\ StartInv
    /\ QuietInv
    /\ NoBadAccess

-----------------------------------------------------------------------------
(* Every step of the owner keeps the invariant. *)
LEMMA OwnerSteps ==
    ASSUME IInv, StartStep \/ Wake \/ GetNextLoop \/ BeginDestruction
                    \/ DestroyStep
    PROVE  IInv'
  <1> USE PoolAssumptions DEF PoolAssumptions, IInv, ownerVars, threadVars, Ids
  <1>1. ASSUME ThreadStart PROVE IInv'
    <2>1. TypeOK'
      BY <1>1 DEF ThreadStart, TypeOK, OwnerPlaces, Places
    <2>2. CurInv' /\ LoopsInv' /\ NoBadAccess'
      BY <1>1 DEF ThreadStart, TypeOK, CurInv, LoopsInv, NoBadAccess,
         OwnerPlaces, Places, Starting, Destroying
    <2>3. LifeInv'
      BY <1>1 DEF ThreadStart, TypeOK, LifeInv, CurInv, StartInv,
         OwnerPlaces, Places, Starting, Destroying
    <2>4. StartInv'
      BY <1>1 DEF ThreadStart, TypeOK, CurInv, LifeInv, StartInv,
         OwnerPlaces, Places, Starting, Destroying
    <2>5. QuietInv'
      BY <1>1 DEF ThreadStart, TypeOK, CurInv, StartInv, QuietInv,
         OwnerPlaces, Places, Starting, Destroying, Untouched
    <2> QED
      BY <2>1, <2>2, <2>3, <2>4, <2>5 DEF IInv
  <1>2. ASSUME SemWait PROVE IInv'
    <2>1. TypeOK'
      BY <1>2 DEF SemWait, TypeOK, OwnerPlaces, Places
    <2>2. CurInv' /\ LoopsInv' /\ LifeInv' /\ NoBadAccess'
      BY <1>2 DEF SemWait, TypeOK, CurInv, LoopsInv, LifeInv,
         NoBadAccess, OwnerPlaces, Places, Starting, Destroying
    <2>3. StartInv'
      BY <1>2 DEF SemWait, TypeOK, CurInv, LifeInv, StartInv,
         OwnerPlaces, Places, Starting, Destroying
    <2>4. QuietInv'
      BY <1>2 DEF SemWait, TypeOK, CurInv, StartInv, QuietInv,
         OwnerPlaces, Places, Starting, Destroying, Untouched
    <2> QED
      BY <2>1, <2>2, <2>3, <2>4 DEF IInv
  <1>3. ASSUME StartLoopWait PROVE IInv'
    <2>1. TypeOK'
      BY <1>3 DEF StartLoopWait, TypeOK, OwnerPlaces, Places
    <2>2. CurInv' /\ LoopsInv' /\ LifeInv' /\ NoBadAccess'
      BY <1>3 DEF StartLoopWait, TypeOK, CurInv, LoopsInv, LifeInv,
         NoBadAccess, OwnerPlaces, Places, Starting, Destroying
    <2>3. StartInv'
      BY <1>3 DEF StartLoopWait, TypeOK, CurInv, LifeInv, StartInv,
         OwnerPlaces, Places, Starting, Destroying
    <2>4. QuietInv'
      BY <1>3 DEF StartLoopWait, TypeOK, CurInv, StartInv, QuietInv,
         OwnerPlaces, Places, Starting, Destroying, Untouched
    <2> QED
      BY <2>1, <2>2, <2>3, <2>4 DEF IInv
  <1>4. ASSUME StartLoopReturn PROVE IInv'
    <2>1. /\ loops \in Seq(Ids) /\ cur \in Ids /\ Len(loops) = cur - 1
          /\ numThreads \in Nat
      BY <1>4, PoolAssumptions
         DEF StartLoopReturn, TypeOK, CurInv, LoopsInv, Starting,
             PoolAssumptions
    <2>2. /\ loops' \in Seq(Ids) /\ Len(loops') = cur
          /\ \A i \in 1..cur : loops'[i] = i
      BY <1>4, <2>1 DEF StartLoopReturn, LoopsInv
    <2>3. /\ cur' = cur + 1
          /\ cur < numThreads => owner' = "start"
          /\ cur = numThreads => owner' = "serving"
          /\ cur <= numThreads
      BY <1>4, <2>1 DEF StartLoopReturn
    <2>4. TypeOK'
      <3>1. loops' # <<>> /\ next' \in 1..Len(loops')
        BY <1>4, <2>1, <2>2 DEF StartLoopReturn, TypeOK
      <3>2. owner' \in OwnerPlaces /\ cur' \in 1..(numThreads + 1)
        BY <2>1, <2>3 DEF OwnerPlaces
      <3> QED
        BY <1>4, <2>2, <3>1, <3>2 DEF StartLoopReturn, TypeOK
    <2>5. CurInv' /\ LoopsInv'
      BY <2>1, <2>2, <2>3 DEF CurInv, LoopsInv, Starting, Destroying
    <2>6. LifeInv' /\ NoBadAccess'
      BY <1>4 DEF StartLoopReturn, LifeInv, NoBadAccess
    <2>7. place[cur] \notin {"none", "spawned", "init", "publish"}
      BY <1>4, <2>1 DEF StartLoopReturn, LifeInv
    <2>8. StartInv'
      BY <1>4, <2>1, <2>3, <2>7 DEF StartLoopReturn, StartInv, Starting
    <2>9. QuietInv'
      BY <1>4, <2>1, <2>3
         DEF StartLoopReturn, QuietInv, Untouched, Starting
    <2> QED
      BY <2>4, <2>5, <2>6, <2>8, <2>9 DEF IInv
  <1>5. ASSUME Wake PROVE IInv'
    <2>1. TypeOK'
      BY <1>5 DEF Wake, TypeOK, OwnerPlaces, Places
    <2>2. CurInv' /\ LoopsInv' /\ LifeInv' /\ NoBadAccess'
      BY <1>5 DEF Wake, TypeOK, CurInv, LoopsInv, LifeInv, NoBadAccess,
         OwnerPlaces, Places, Starting, Destroying
    <2>3. StartInv'
      BY <1>5 DEF Wake, TypeOK, CurInv, LifeInv, StartInv, OwnerPlaces,
         Places, Starting, Destroying
    <2>4. QuietInv'
      BY <1>5 DEF Wake, TypeOK, CurInv, StartInv, QuietInv, OwnerPlaces,
         Places, Starting, Destroying, Untouched
    <2> QED
      BY <2>1, <2>2, <2>3, <2>4 DEF IInv
  <1>6. ASSUME GetNextLoop PROVE IInv'
    <2>1. TypeOK'
      BY <1>6, SMTT(30) DEF GetNextLoop, TypeOK, Advance, BaseLoop, LoopsInv,
         OwnerPlaces, Places, Starting
    <2>2. /\ CurInv' /\ LoopsInv' /\ LifeInv'
          /\ StartInv' /\ QuietInv' /\ NoBadAccess'
      BY <1>6 DEF GetNextLoop, TypeOK, CurInv, LoopsInv, LifeInv,
         StartInv, QuietInv, NoBadAccess, OwnerPlaces, Places, Starting,
         Destroying, Untouched
    <2> QED
      BY <2>1, <2>2 DEF IInv
  <1>7. ASSUME BeginDestruction PROVE IInv'
    <2>1. TypeOK'
      BY <1>7 DEF BeginDestruction, TypeOK, OwnerPlaces, Places
    <2>2. CurInv' /\ LoopsInv'
      BY <1>7 DEF BeginDestruction, TypeOK, CurInv, LoopsInv,
         OwnerPlaces, Places, Starting, Destroying
    <2>3. StartInv'
      BY <1>7 DEF BeginDestruction, TypeOK, CurInv, LifeInv, StartInv,
         OwnerPlaces, Places, Starting, Destroying
    <2>4. QuietInv'
      BY <1>7 DEF BeginDestruction, TypeOK, CurInv, StartInv, QuietInv,
         OwnerPlaces, Places, Starting, Destroying, Untouched
    <2>5. LifeInv' /\ NoBadAccess'
      BY <1>7 DEF BeginDestruction, TypeOK, LifeInv, CurInv,
         NoBadAccess, OwnerPlaces, Places, Starting, Destroying
    <2> QED
      BY <2>1, <2>2, <2>3, <2>4, <2>5 DEF IInv
  <1>8. ASSUME DtorNoLoop PROVE IInv'
    <2>1. TypeOK'
      BY <1>8, SMTT(30) DEF DtorNoLoop, TypeOK, Destroyed, CurInv, OwnerPlaces,
         Places, Starting, Destroying
    <2>2. CurInv' /\ LoopsInv'
      BY <1>8 DEF DtorNoLoop, TypeOK, CurInv, LoopsInv, Destroyed,
         OwnerPlaces, Places, Starting, Destroying
    <2>3. StartInv'
      BY <1>8 DEF DtorNoLoop, TypeOK, CurInv, LifeInv, StartInv,
         Destroyed, OwnerPlaces, Places, Starting, Destroying
    <2>4. QuietInv'
      BY <1>8 DEF DtorNoLoop, TypeOK, CurInv, StartInv, QuietInv,
         Destroyed, LifeInv, OwnerPlaces, Places, Starting, Destroying,
         Untouched
    <2>5. LifeInv' /\ NoBadAccess'
      BY <1>8 DEF DtorNoLoop, TypeOK, LifeInv, CurInv, NoBadAccess,
         Destroyed, OwnerPlaces, Places, Starting, Destroying
    <2> QED
      BY <2>1, <2>2, <2>3, <2>4, <2>5 DEF IInv
  <1>9. ASSUME DtorLoop PROVE IInv'
    <2>1. TypeOK'
      BY <1>9 DEF DtorLoop, TypeOK, OwnerPlaces, Places
    <2>2. CurInv' /\ LoopsInv' /\ LifeInv' /\ NoBadAccess'
      BY <1>9 DEF DtorLoop, TypeOK, CurInv, LoopsInv, LifeInv,
         NoBadAccess, OwnerPlaces, Places, Starting, Destroying
    <2>3. StartInv'
      BY <1>9 DEF DtorLoop, TypeOK, CurInv, LifeInv, StartInv,
         OwnerPlaces, Places, Starting, Destroying
    <2>4. QuietInv'
      BY <1>9 DEF DtorLoop, TypeOK, CurInv, StartInv, QuietInv,
         OwnerPlaces, Places, Starting, Destroying, Untouched
    <2> QED
      BY <2>1, <2>2, <2>3, <2>4 DEF IInv
  <1>10. ASSUME DtorQuit PROVE IInv'
    <2>1. cur \in Ids /\ Untouched(cur)
      BY <1>10 DEF DtorQuit, TypeOK, CurInv, Destroying, Untouched
    <2>2. TypeOK'
      BY <1>10 DEF DtorQuit, TypeOK, OwnerPlaces
    <2>3. CurInv' /\ LoopsInv' /\ LifeInv' /\ StartInv'
      BY <1>10 DEF DtorQuit, CurInv, LoopsInv, LifeInv, StartInv, Starting,
                   Destroying
    <2>4. QuietInv'
      BY <1>10 DEF DtorQuit, TypeOK, QuietInv, Untouched, Starting
    <2>5. NoBadAccess'
      <3>1. CASE userQuits
        BY <1>10, <3>1 DEF DtorQuit, NoBadAccess
      <3>2. CASE ~userQuits
        <4>1. place[cur] \notin {"none", "spawned", "init", "publish", "clear",
                                 "unwind", "ended"}
          BY <1>10, <2>1, <3>2 DEF DtorQuit, QuietInv, StartInv, Starting
        <4>2. loopPtr[cur] /\ alive[cur]
          BY <2>1, <4>1 DEF LifeInv, TypeOK, Places
        <4>3. ~badAccess
          BY <3>2 DEF NoBadAccess
        <4>4. ~badAccess'
          BY <1>10, <4>2, <4>3, Zenon DEF DtorQuit
        <4> QED
          BY <4>4 DEF NoBadAccess
      <3> QED
        BY <3>1, <3>2
    <2> QED
      BY <2>2, <2>3, <2>4, <2>5 DEF IInv
  <1>11. ASSUME DtorJoin PROVE IInv'
    <2>1. TypeOK'
      BY <1>11, SMTT(30) DEF DtorJoin, TypeOK, Destroyed, CurInv, OwnerPlaces,
         Places, Starting, Destroying
    <2>2. CurInv' /\ LoopsInv'
      BY <1>11 DEF DtorJoin, TypeOK, CurInv, LoopsInv, Destroyed,
         OwnerPlaces, Places, Starting, Destroying
    <2>3. StartInv'
      BY <1>11 DEF DtorJoin, TypeOK, CurInv, LifeInv, StartInv,
         Destroyed, OwnerPlaces, Places, Starting, Destroying
    <2>4. QuietInv'
      BY <1>11 DEF DtorJoin, TypeOK, CurInv, StartInv, QuietInv,
         Destroyed, OwnerPlaces, Places, Starting, Destroying, Untouched
    <2>5. LifeInv' /\ NoBadAccess'
      BY <1>11 DEF DtorJoin, TypeOK, LifeInv, CurInv, NoBadAccess,
         Destroyed, OwnerPlaces, Places, Starting, Destroying
    <2> QED
      BY <2>1, <2>2, <2>3, <2>4, <2>5 DEF IInv
  <1> QED
    BY <1>1, <1>2, <1>3, <1>4, <1>5, <1>6, <1>7,
       <1>8, <1>9, <1>10, <1>11 DEF StartStep, NotifiedWake, DestroyStep

(* Every step of a thread, and a quit() of user code, keeps it. *)
LEMMA ThreadSteps ==
    ASSUME IInv, NEW i \in Ids, ThreadStep(i) \/ UserQuit(i)
    PROVE  IInv'
  <1> USE PoolAssumptions DEF PoolAssumptions, IInv, ownerVars, threadVars, Ids
  <1>1. ASSUME PostTid(i) PROVE IInv'
    <2>1. TypeOK'
      BY <1>1 DEF PostTid, TypeOK, OwnerPlaces, Places
    <2>2. CurInv' /\ LoopsInv'
      BY <1>1 DEF PostTid, TypeOK, CurInv, LoopsInv, OwnerPlaces,
         Places, Starting, Destroying
    <2>3. LifeInv'
      BY <1>1 DEF PostTid, TypeOK, LifeInv, OwnerPlaces, Places
    <2>4. StartInv'
      BY <1>1 DEF PostTid, TypeOK, CurInv, LifeInv, StartInv,
         OwnerPlaces, Places, Starting, Destroying
    <2>5. QuietInv'
      BY <1>1 DEF PostTid, TypeOK, CurInv, StartInv, QuietInv,
         OwnerPlaces, Places, Starting, Destroying, Untouched
    <2>6. NoBadAccess'
      BY <1>1 DEF PostTid, TypeOK, CurInv, NoBadAccess, OwnerPlaces,
         Places, Starting, Destroying
    <2> QED
      BY <2>1, <2>2, <2>3, <2>4, <2>5, <2>6 DEF IInv
  <1>2. ASSUME CreateLoop(i) PROVE IInv'
    <2>1. TypeOK'
      BY <1>2 DEF CreateLoop, TypeOK, OwnerPlaces, Places
    <2>2. CurInv' /\ LoopsInv'
      BY <1>2 DEF CreateLoop, TypeOK, CurInv, LoopsInv, OwnerPlaces,
         Places, Starting, Destroying
    <2>3. LifeInv'
      BY <1>2 DEF CreateLoop, TypeOK, LifeInv, OwnerPlaces, Places
    <2>4. StartInv'
      BY <1>2 DEF CreateLoop, TypeOK, CurInv, LifeInv, StartInv,
         OwnerPlaces, Places, Starting, Destroying
    <2>5. QuietInv'
      BY <1>2 DEF CreateLoop, TypeOK, CurInv, StartInv, QuietInv,
         OwnerPlaces, Places, Starting, Destroying, Untouched
    <2>6. NoBadAccess'
      BY <1>2 DEF CreateLoop, TypeOK, CurInv, NoBadAccess, OwnerPlaces,
         Places, Starting, Destroying
    <2> QED
      BY <2>1, <2>2, <2>3, <2>4, <2>5, <2>6 DEF IInv
  <1>3. ASSUME Publish(i) PROVE IInv'
    <2>1. TypeOK'
      BY <1>3 DEF Publish, TypeOK, OwnerPlaces, Places
    <2>2. CurInv' /\ LoopsInv'
      BY <1>3 DEF Publish, TypeOK, CurInv, LoopsInv, OwnerPlaces,
         Places, Starting, Destroying
    <2>3. LifeInv'
      BY <1>3 DEF Publish, TypeOK, LifeInv, OwnerPlaces, Places
    <2>4. StartInv'
      BY <1>3 DEF Publish, TypeOK, CurInv, LifeInv, StartInv,
         OwnerPlaces, Places, Starting, Destroying
    <2>5. QuietInv'
      BY <1>3 DEF Publish, TypeOK, CurInv, StartInv, QuietInv,
         OwnerPlaces, Places, Starting, Destroying, Untouched
    <2>6. NoBadAccess'
      BY <1>3 DEF Publish, TypeOK, CurInv, NoBadAccess, OwnerPlaces,
         Places, Starting, Destroying
    <2> QED
      BY <2>1, <2>2, <2>3, <2>4, <2>5, <2>6 DEF IInv
  <1>4. ASSUME EnterLoop(i) PROVE IInv'
    <2>1. TypeOK'
      BY <1>4 DEF EnterLoop, TypeOK, OwnerPlaces, Places
    <2>2. CurInv' /\ LoopsInv'
      BY <1>4 DEF EnterLoop, TypeOK, CurInv, LoopsInv, OwnerPlaces,
         Places, Starting, Destroying
    <2>3. LifeInv'
      BY <1>4 DEF EnterLoop, TypeOK, LifeInv, OwnerPlaces, Places
    <2>4. StartInv'
      BY <1>4 DEF EnterLoop, TypeOK, CurInv, LifeInv, StartInv,
         OwnerPlaces, Places, Starting, Destroying
    <2>5. QuietInv'
      BY <1>4 DEF EnterLoop, TypeOK, CurInv, StartInv, QuietInv,
         OwnerPlaces, Places, Starting, Destroying, Untouched
    <2>6. NoBadAccess'
      BY <1>4 DEF EnterLoop, TypeOK, CurInv, NoBadAccess, OwnerPlaces,
         Places, Starting, Destroying
    <2> QED
      BY <2>1, <2>2, <2>3, <2>4, <2>5, <2>6 DEF IInv
  <1>5. ASSUME LeaveLoop(i) PROVE IInv'
    <2>1. TypeOK'
      BY <1>5 DEF LeaveLoop, TypeOK, OwnerPlaces, Places
    <2>2. CurInv' /\ LoopsInv'
      BY <1>5 DEF LeaveLoop, TypeOK, CurInv, LoopsInv, OwnerPlaces,
         Places, Starting, Destroying
    <2>3. LifeInv'
      BY <1>5 DEF LeaveLoop, TypeOK, LifeInv, OwnerPlaces, Places
    <2>4. StartInv'
      BY <1>5 DEF LeaveLoop, TypeOK, CurInv, LifeInv, StartInv,
         OwnerPlaces, Places, Starting, Destroying
    <2>5. QuietInv'
      BY <1>5 DEF LeaveLoop, TypeOK, CurInv, StartInv, QuietInv,
         OwnerPlaces, Places, Starting, Destroying, Untouched
    <2>6. NoBadAccess'
      BY <1>5 DEF LeaveLoop, TypeOK, CurInv, NoBadAccess, OwnerPlaces,
         Places, Starting, Destroying
    <2> QED
      BY <2>1, <2>2, <2>3, <2>4, <2>5, <2>6 DEF IInv
  <1>6. ASSUME ClearLoop(i) PROVE IInv'
    <2>1. TypeOK'
      BY <1>6 DEF ClearLoop, TypeOK, OwnerPlaces, Places
    <2>2. CurInv' /\ LoopsInv'
      BY <1>6 DEF ClearLoop, TypeOK, CurInv, LoopsInv, OwnerPlaces,
         Places, Starting, Destroying
    <2>3. LifeInv'
      BY <1>6 DEF ClearLoop, TypeOK, LifeInv, OwnerPlaces, Places
    <2>4. StartInv'
      BY <1>6 DEF ClearLoop, TypeOK, CurInv, LifeInv, StartInv,
         OwnerPlaces, Places, Starting, Destroying
    <2>5. QuietInv'
      BY <1>6 DEF ClearLoop, TypeOK, CurInv, StartInv, QuietInv,
         OwnerPlaces, Places, Starting, Destroying, Untouched
    <2>6. NoBadAccess'
      BY <1>6 DEF ClearLoop, TypeOK, CurInv, NoBadAccess, QuietInv,
         OwnerPlaces, Places, Starting, Destroying, Untouched
    <2> QED
      BY <2>1, <2>2, <2>3, <2>4, <2>5, <2>6 DEF IInv
  <1>7. ASSUME Unwind(i) PROVE IInv'
    <2>1. TypeOK'
      BY <1>7 DEF Unwind, TypeOK, OwnerPlaces, Places
    <2>2. CurInv' /\ LoopsInv'
      BY <1>7 DEF Unwind, TypeOK, CurInv, LoopsInv, OwnerPlaces, Places,
         Starting, Destroying
    <2>3. LifeInv'
      BY <1>7 DEF Unwind, TypeOK, LifeInv, OwnerPlaces, Places
    <2>4. StartInv'
      BY <1>7 DEF Unwind, TypeOK, CurInv, LifeInv, StartInv,
         OwnerPlaces, Places, Starting, Destroying
    <2>5. QuietInv'
      BY <1>7 DEF Unwind, TypeOK, CurInv, StartInv, QuietInv,
         OwnerPlaces, Places, Starting, Destroying, Untouched
    <2>6. NoBadAccess'
      BY <1>7 DEF Unwind, TypeOK, CurInv, NoBadAccess, QuietInv,
         OwnerPlaces, Places, Starting, Destroying, Untouched
    <2> QED
      BY <2>1, <2>2, <2>3, <2>4, <2>5, <2>6 DEF IInv
  <1>8. ASSUME UserQuit(i) PROVE IInv'
    <2>1. TypeOK'
      BY <1>8 DEF UserQuit, TypeOK, OwnerPlaces, Places
    <2>2. CurInv' /\ LoopsInv'
      BY <1>8 DEF UserQuit, TypeOK, CurInv, LoopsInv, OwnerPlaces,
         Places, Starting, Destroying
    <2>3. LifeInv'
      BY <1>8 DEF UserQuit, TypeOK, LifeInv, OwnerPlaces, Places
    <2>4. StartInv'
      BY <1>8 DEF UserQuit, TypeOK, CurInv, LifeInv, StartInv,
         OwnerPlaces, Places, Starting, Destroying
    <2>5. QuietInv'
      BY <1>8 DEF UserQuit, TypeOK, CurInv, StartInv, QuietInv,
         OwnerPlaces, Places, Starting, Destroying, Untouched
    <2>6. NoBadAccess'
      BY <1>8 DEF UserQuit, TypeOK, CurInv, NoBadAccess, OwnerPlaces,
         Places, Starting, Destroying
    <2> QED
      BY <2>1, <2>2, <2>3, <2>4, <2>5, <2>6 DEF IInv
  <1> QED
    BY <1>1, <1>2, <1>3, <1>4, <1>5, <1>6, <1>7, <1>8 DEF ThreadStep

LEMMA IInvInit ==
    ASSUME Init PROVE IInv
  <1>1. TypeOK
    <2>1. loops \in Seq(Ids) /\ next \in 1..(IF loops = <<>> THEN 1 ELSE Len(loops))
      BY DEF Init
    <2>2. given \in [Ids \cup {BaseLoop} -> 0..MaxGiven]
      BY PoolAssumptions DEF PoolAssumptions, Init
    <2>3. owner \in OwnerPlaces /\ cur \in 1..(numThreads + 1)
      BY PoolAssumptions DEF PoolAssumptions, Init, OwnerPlaces
    <2> QED
      BY <2>1, <2>2, <2>3 DEF Init, TypeOK, Places
  <1>2. CurInv /\ LoopsInv /\ LifeInv /\ StartInv
    BY PoolAssumptions DEF PoolAssumptions, Init, CurInv, LoopsInv, LifeInv,
                           StartInv, Starting, Destroying, Ids
  <1>3. QuietInv /\ NoBadAccess
    BY DEF Init, QuietInv, NoBadAccess, Ids
  <1> QED
    BY <1>1, <1>2, <1>3 DEF IInv

LEMMA IInvNext ==
    ASSUME IInv, [Next]_vars PROVE IInv'
  <1>1. CASE UNCHANGED vars
    BY <1>1 DEF vars, ownerVars, threadVars, IInv, TypeOK, CurInv, LoopsInv,
                LifeInv, StartInv, QuietInv, NoBadAccess, Starting,
                Destroying, Untouched
  <1>2. CASE Terminated
    BY <1>1, <1>2 DEF Terminated
  <1> QED
    BY <1>1, <1>2, OwnerSteps, ThreadSteps DEF Next

LEMMA IInvCorrect == Spec => []IInv
  BY IInvInit, IInvNext, PTL DEF Spec

-----------------------------------------------------------------------------
(* The pool's state keeps its types; next_ stays an index of loops_.       *)
THEOREM TypeCorrect == Spec => []TypeOK
  <1>1. IInv => TypeOK
    BY DEF IInv
  <1> QED
    BY <1>1, IInvCorrect, PTL

(* loop_ of an EventLoopThread is null or points to a living EventLoop, at *)
(* every step of threadFunc, whoever calls quit() and whenever.            *)
THEOREM LoopPointerIsLive == Spec => []PointerIsLive
  <1>1. IInv => PointerIsLive
    BY DEF IInv, LifeInv, PointerIsLive
  <1> QED
    BY <1>1, IInvCorrect, PTL

(* If only the pool calls quit(), ~EventLoopThread quits a living loop and *)
(* no thread touches its EventLoopThread after the destructor returned.    *)
THEOREM DestructionIsClean == Spec => []NoBadAccess
  <1>1. IInv => NoBadAccess
    BY DEF IInv
  <1> QED
    BY <1>1, IInvCorrect, PTL

(* If only the pool calls quit(), start() leaves one living loop for each  *)
(* thread and getNextLoop returns none but those.                          *)
THEOREM EveryDealtLoopLives == Spec => []DealtLoopsLive
  <1>1. IInv => DealtLoopsLive
    <2> SUFFICES ASSUME IInv, owner = "serving", ~userQuits
                 PROVE  /\ Len(loops) = numThreads
                        /\ \A i \in DOMAIN loops : alive[loops[i]]
      BY DEF DealtLoopsLive
    <2>1. /\ Len(loops) = numThreads /\ DOMAIN loops = Ids
          /\ \A i \in Ids : loops[i] = i
      BY DEF IInv, TypeOK, LoopsInv, Starting, Ids
    <2>2. \A i \in Ids : alive[i]
      BY DEF IInv, TypeOK, Places, StartInv, QuietInv, LifeInv, Untouched,
             Starting
    <2> QED
      BY <2>1, <2>2
  <1> QED
    BY <1>1, IInvCorrect, PTL
=============================================================================
