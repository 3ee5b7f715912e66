------------------------------ MODULE TcpServer ------------------------------
(***************************************************************************)
(* The TcpServer (src/net/TcpServer.cc) with its Acceptor, the base loop,  *)
(* the io loops of its pool and all its connections, from start() to the   *)
(* destructor.  The bytes of a connection are in TcpConnection; here a     *)
(* connection is who still points to it (the server's map, functors in the *)
(* loops' queues, the application, and the bare pointers of epoll and of   *)
(* the functors that bind this) and what decides over its end: its state,  *)
(* its Channel, whether it has output left, and its socket.                *)
(*                                                                         *)
(* The loops keep the promise of TaskQueue.  Loop 0 is the base loop; with *)
(* no pool threads it is also the io loop.  The server is destroyed, as in *)
(* the examples, by the base loop's thread after loop() has returned.      *)
(***************************************************************************)
EXTENDS Integers, Sequences, FiniteSets, Channel

CONSTANTS
    MaxClients,     \* how many clients connect (bound)
    Setups,         \* the ways the server is set up and used, see SetupType
    AppKeepsPtr     \* the application keeps its TcpConnectionPtr until the
                    \* functors of its calls have run

(* threads: what setThreadNum was called with; fds: the descriptors there  *)
(* are for connections; off: what the application calls off the loop       *)
(* thread; calls: how often it calls send and shutdown (bound).            *)
SetupType == [threads : Nat, fds : Nat \ {0},
              off : SUBSET {"send", "shutdown"}, calls : Nat]

ASSUME TcpServerAssumptions ==
    /\ MaxClients \in Nat
    /\ Setups \subseteq SetupType
    /\ AppKeepsPtr \in BOOLEAN

VARIABLES
    setup,          \* how this server is set up
    server,         \* where the server's thread is: see Stages
    listenning,     \* listenning_, acceptChannel_ reads
    nextConnId,     \* nextConnId_
    next,           \* next_ of the pool
    connections,    \* connections_
    conn,           \* the TcpConnection objects made so far, by number
    queue,          \* per loop: pendingFunctors_
    active,         \* per loop: what is left of activeChannels_
    revents,        \* per connection: revents_ of its channel
    running,        \* per loop: inside loop()
    clients,        \* how many clients have connected
    backlog,        \* how many of them wait in the accept queue
    calls           \* how many calls of send and shutdown there were

serverVars == <<setup, server, listenning, nextConnId, next, connections>>
eventVars == <<active, revents>>
loopVars == <<queue, eventVars, running>>
clientVars == <<clients, backlog, calls>>
vars == <<serverVars, conn, loopVars, clientVars>>

Ids == 1..MaxClients
acceptChannel == 0
Stages == {"new", "started", "looping", "stopped", "destroying", "joining",
           "gone"}
BaseLoop == 0
Loops == {BaseLoop} \cup UNION {1..s.threads : s \in Setups}
numThreads == setup.threads     \* numThreads_ of the pool
IoLoops == IF numThreads = 0 THEN {BaseLoop} ELSE 1..numThreads

(* connectEstablished, connectDestroyed, removeConnectionInLoop and the    *)
(* user's callbacks (writeCompleteCallback_, highWaterMarkCallback_) are   *)
(* bound with a TcpConnectionPtr, the functors of send() and shutdown()    *)
(* with a bare this.                                                       *)
Owning == {"connectEstablished", "connectDestroyed", "removeConnectionInLoop",
           "userCallback"}
Bare == {"sendInLoop", "shutdownInLoop"}
Functor(kind, c) == [kind |-> kind, conn |-> c]
Functors == [kind : Owning \cup Bare, conn : Ids]

(* out: outputBuffer_ is not empty; peer: what the client has done; err: a *)
(* pending socket error; shutWr: SHUT_WR was done; app: the application's  *)
(* thread that has a TcpConnectionPtr, and how far it is in a call.        *)
NewTcpConnection(l) ==
    [loop |-> l, state |-> "kConnecting", channel |-> NewChannel, ups |-> 0,
     downs |-> 0, app |-> "none", out |-> FALSE, peer |-> "open",
     err |-> FALSE, shutWr |-> FALSE]

AppAt == {"none", "held", "sending", "checked", "set"}

ConnType ==
    [loop : Loops, channel : ChannelType, ups : Nat, downs : Nat,
     state : {"kConnecting", "kConnected", "kDisconnecting", "kDisconnected"},
     app : AppAt, out : BOOLEAN, peer : {"open", "closed", "reset"},
     err : BOOLEAN, shutWr : BOOLEAN]

Events == AllEvents \cup {"hup", "err"}

TypeOK ==
    /\ setup \in Setups
    /\ server \in Stages
    /\ listenning \in BOOLEAN
    /\ nextConnId = Len(conn) + 1
    /\ next \in Nat /\ next < Cardinality(IoLoops)
    /\ connections \subseteq DOMAIN conn
    /\ conn \in Seq(ConnType) /\ Len(conn) <= MaxClients
    /\ queue \in [Loops -> Seq(Functors)]
    /\ active \in [Loops -> SUBSET (Ids \cup {acceptChannel})]
    /\ revents \in [Ids -> SUBSET Events]
    /\ running \in [Loops -> BOOLEAN]
    /\ clients \in 0..MaxClients /\ backlog \in 0..clients
    /\ calls \in 0..setup.calls

Init ==
    /\ setup \in Setups
    /\ server = "new" /\ listenning = FALSE
    /\ nextConnId = 1 /\ next = 0
    /\ connections = {} /\ conn = <<>>
    /\ queue = [l \in Loops |-> <<>>]
    /\ active = [l \in Loops |-> {}]
    /\ revents = [c \in Ids |-> {}]
    /\ running = [l \in Loops |-> FALSE]
    /\ clients = 0 /\ backlog = 0 /\ calls = 0

-----------------------------------------------------------------------------
(* Lifetimes.                                                              *)

Queued(l) == {queue[l][i] : i \in DOMAIN queue[l]}

(* Some TcpConnectionPtr to c exists; without one, ~TcpConnection has run  *)
(* and ~Socket has closed the descriptor.                                  *)
Alive(c) ==
    \/ c \in connections
    \/ conn[c].app # "none"
    \/ \E l \in Loops : \E f \in Queued(l) : f.conn = c /\ f.kind \in Owning

OpenFds == Cardinality({c \in DOMAIN conn : Alive(c)})

-----------------------------------------------------------------------------
(* What the functors and handlers of a connection do to it.                *)

(* connectEstablished; the connection callback may keep the pointer. *)
connectEstablished(k, app) ==
    [k EXCEPT !.state = "kConnected", !.channel = enableReading(@),
              !.ups = @ + 1, !.app = app]

connectDestroyed(k) ==
    IF k.state = "kConnected"
    THEN [k EXCEPT !.state = "kDisconnected", !.downs = @ + 1,
                   !.channel = removeChannel(disableAll(@))]
    ELSE [k EXCEPT !.channel = removeChannel(@)]

handleClose(k) ==
    [k EXCEPT !.state = "kDisconnected", !.channel = disableAll(@),
              !.downs = @ + 1]

(* The kernel takes no more bytes: write fails with EPIPE or ECONNRESET,   *)
(* which also hands over the pending error.                                *)
Broken(k) == k.peer = "reset" \/ k.shutWr

(* sendInLoop: nothing is ahead of the bytes, so they go to write at once. *)
WriteAtOnce(k) == ~isWriting(k.channel) /\ ~k.out

(* sendInLoop: the bytes that were not written. *)
KeepRest(k) ==
    [k EXCEPT !.out = TRUE,
              !.channel = IF isWriting(@) THEN @ ELSE enableWriting(@)]

(* Fault for UpThenDown: the test of kDisconnected is missing. *)
sendInLoopAnyway(k) ==
    CASE ~WriteAtOnce(k) -> {KeepRest(k)}
      [] OTHER -> IF Broken(k) THEN {[k EXCEPT !.err = FALSE]}
                               ELSE {k, KeepRest(k)}

(* sendInLoop: what it may make of the connection.  write takes all bytes, *)
(* or some, or none. *)
sendInLoop(k) ==
    CASE k.state = "kDisconnected" -> {k}
      [] k.state # "kDisconnected" /\ ~WriteAtOnce(k) -> {KeepRest(k)}
      [] OTHER -> IF Broken(k) THEN {[k EXCEPT !.err = FALSE]}
                               ELSE {k, KeepRest(k)}

(* It may have a callback to queue (all written, or the mark reached). *)
SendNotifies(k) ==
    k.state # "kDisconnected" /\ ~(WriteAtOnce(k) /\ Broken(k))

shutdownInLoop(k) ==
    IF isWriting(k.channel) THEN k ELSE [k EXCEPT !.shutWr = TRUE]

(* handleWrite has emptied the buffer. *)
Drained(k) ==
    LET w == [k EXCEPT !.out = FALSE, !.channel = disableWriting(@)]
    IN  IF k.state = "kDisconnecting" THEN shutdownInLoop(w) ELSE w

(* handleWrite: it may also write a part, or nothing, or fail. *)
handleWrite(k) ==
    {k} \cup {w \in {Drained(k)} : isWriting(k.channel) /\ k.out /\ ~Broken(k)}

(* The queues q when the user has set the callback for c, or has not. *)
Notified(q, c) ==
    {q, [q EXCEPT ![conn[c].loop] = Append(@, Functor("userCallback", c))]}

(* Faults: connectDestroyed is not queued; the map keeps the connection.   *)
removeConnectionInLoopOnly(c, q) ==
    /\ connections' = connections \ {c}
    /\ queue' = q

removeConnectionInLoopNever(c, q) ==
    /\ queue' = [q EXCEPT ![conn[c].loop] =
                    Append(@, Functor("connectDestroyed", c))]
    /\ UNCHANGED connections

(* removeConnectionInLoop, with q the queues when it is called. *)
removeConnectionInLoop(c, q) ==
    /\ connections' = connections \ {c}
    /\ queue' = [q EXCEPT ![conn[c].loop] =
                    Append(@, Functor("connectDestroyed", c))]

-----------------------------------------------------------------------------
(* The server.                                                             *)

(* Acceptor::listen: the listening socket is watched from here on. *)
listen == listenning' = TRUE

(* start(): the pool's loops run, and listen() is called at once, since    *)
(* this is the base loop's thread.                                         *)
Start ==
    /\ server = "new"
    /\ server' = "started"
    /\ listen
    /\ running' = [l \in Loops |-> l \in IoLoops \ {BaseLoop}]
    /\ UNCHANGED <<setup, nextConnId, next, connections, conn, queue,
                   eventVars, clientVars>>

(* loop() of the base loop begins, and returns when the application quits. *)
EnterLoop ==
    /\ server = "started"
    /\ server' = "looping"
    /\ running' = [running EXCEPT ![BaseLoop] = TRUE]
    /\ UNCHANGED <<setup, listenning, nextConnId, next, connections,
                   conn, queue, eventVars, clientVars>>

LeaveLoop ==
    /\ server = "looping" /\ active[BaseLoop] = {}
    /\ server' = "stopped"
    /\ running' = [running EXCEPT ![BaseLoop] = FALSE]
    /\ UNCHANGED <<setup, listenning, nextConnId, next, connections,
                   conn, queue, eventVars, clientVars>>

(* Fault for TypeOK: next_ does not wrap. *)
AfterNextUnwrapped == next + 1

AfterNext == (next + 1) % Cardinality(IoLoops)

(* newConnection: the next loop gets the connection and, unless it is this *)
(* one, connectEstablished in its queue.                                   *)
newConnection ==
    LET l == IF numThreads = 0 THEN BaseLoop ELSE next + 1
        c == nextConnId
    IN  /\ next' = AfterNext
        /\ nextConnId' = nextConnId + 1
        /\ connections' = connections \cup {c}
        /\ \/ /\ l = BaseLoop
              /\ \E app \in {"none", "held"} :
                   conn' = Append(conn,
                              connectEstablished(NewTcpConnection(l), app))
              /\ UNCHANGED queue
           \/ /\ l # BaseLoop
              /\ conn' = Append(conn, NewTcpConnection(l))
              /\ queue' = [queue EXCEPT ![l] =
                              Append(@, Functor("connectEstablished", c))]

(* Fault for WaitingClientServed: the listening socket is given up. *)
AcceptFailsForGood ==
    /\ listenning' = FALSE
    /\ UNCHANGED <<backlog, next, nextConnId, connections, conn, queue>>

(* accept: no descriptor is left; a line in the log, and the listening     *)
(* socket stays ready.                                                     *)
AcceptFails ==
    UNCHANGED <<listenning, backlog, next, nextConnId, connections, conn, queue>>

(* Acceptor::handleRead. *)
handleRead ==
    /\ acceptChannel \in active[BaseLoop]
    /\ active' = [active EXCEPT ![BaseLoop] = @ \ {acceptChannel}]
    /\ \/ /\ OpenFds < setup.fds
          /\ backlog' = backlog - 1
          /\ newConnection
          /\ UNCHANGED listenning
       \/ OpenFds >= setup.fds /\ AcceptFails
    /\ UNCHANGED <<setup, server, revents, running, clients, calls>>

(* ~TcpServer lets go of one connection after the other.  The application  *)
(* is not in the middle of a call on one.                                  *)
BeginDestruction ==
    /\ server = "stopped"
    /\ \A c \in DOMAIN conn : conn[c].app \in {"none", "held"}
    /\ server' = "destroying"
    /\ UNCHANGED <<setup, listenning, nextConnId, next, connections,
                   conn, loopVars, clientVars>>

DestroyConnection(c) ==
    /\ server = "destroying"
    /\ c \in connections
    /\ connections' = connections \ {c}
    /\ \/ /\ conn[c].loop = BaseLoop
          /\ conn' = [conn EXCEPT ![c] = connectDestroyed(@)]
          /\ UNCHANGED queue
       \/ /\ conn[c].loop # BaseLoop
          /\ queue' = [queue EXCEPT ![conn[c].loop] =
                          Append(@, Functor("connectDestroyed", c))]
          /\ UNCHANGED conn
    /\ UNCHANGED <<setup, server, listenning, nextConnId, next, eventVars,
                   running, clientVars>>

(* The members: first the pool, which quits and joins its loops ... *)
DestroyPool ==
    /\ server = "destroying" /\ connections = {}
    /\ server' = "joining"
    /\ UNCHANGED <<setup, listenning, nextConnId, next, connections,
                   conn, loopVars, clientVars>>

(* ... then the Acceptor. *)
DestroyAcceptor ==
    /\ server = "joining"
    /\ \A l \in Loops : ~running[l]
    /\ server' = "gone"
    /\ listenning' = FALSE
    /\ UNCHANGED <<setup, nextConnId, next, connections, conn, loopVars,
                   clientVars>>

-----------------------------------------------------------------------------
(* The loops.                                                              *)

(* What epoll_wait reports of c, room telling whether the kernel's send    *)
(* buffer has some: EPOLLHUP and EPOLLERR need no interest.                *)
Reported(c, room) ==
    LET k == conn[c]
        happened == {e \in Events :
                        CASE e = "in" -> k.peer # "open"
                          [] e = "out" -> room
                          [] e = "hup" -> \/ k.peer = "reset"
                                          \/ k.peer = "closed" /\ k.shutWr
                          [] e = "err" -> k.err}
    IN  IF k.channel.interest.in
        THEN happened \cap (k.channel.interest.events \cup {"hup", "err"})
        ELSE {}

Ready(l, room) ==
    {c \in DOMAIN conn : conn[c].loop = l /\ Reported(c, c \in room) # {}}
    \cup {a \in {acceptChannel} : l = BaseLoop /\ listenning /\ backlog > 0}

Writers(l) == {c \in DOMAIN conn : conn[c].loop = l /\ isWriting(conn[c].channel)}

LoopFree(l) == running[l] /\ active[l] = {}

Poll(l) ==
    /\ LoopFree(l)
    /\ \E room \in SUBSET Writers(l) :
         /\ Ready(l, room) # {}
         /\ active' = [active EXCEPT ![l] = Ready(l, room)]
         /\ revents' = [c \in Ids |-> IF c \in Ready(l, room)
                                      THEN Reported(c, c \in room)
                                      ELSE revents[c]]
    /\ UNCHANGED <<serverVars, conn, queue, running, clientVars>>

(* handleEventWithGuard ends in handleClose: for EPOLLHUP without EPOLLIN, *)
(* or because readFd returns 0, as it does once the peer has closed and    *)
(* the error of a reset is read or was cleared by handleError just before. *)
Closes(c) ==
    \/ "hup" \in revents[c] /\ "in" \notin revents[c]
    \/ "in" \in revents[c] /\ (conn[c].err => "err" \in revents[c])

(* handleEvent of c takes place. *)
Dispatch(l, c) ==
    /\ c \in active[l]
    /\ active' = [active EXCEPT ![l] = @ \ {c}]
    /\ revents' = [revents EXCEPT ![c] = {}]
    /\ UNCHANGED <<setup, server, listenning, nextConnId, next, running,
                   clientVars>>

(* handleClose, and removeConnection, which is runInLoop on the base loop. *)
ConnectionCloses(l, c) ==
    /\ Dispatch(l, c)
    /\ Closes(c)
    /\ conn' = [conn EXCEPT ![c] = [handleClose(@) EXCEPT !.err = FALSE]]
    /\ \/ /\ l = BaseLoop
          /\ removeConnectionInLoop(c, queue)
       \/ /\ l # BaseLoop
          /\ queue' = [queue EXCEPT ![BaseLoop] =
                          Append(@, Functor("removeConnectionInLoop", c))]
          /\ UNCHANGED connections

(* The other events: handleError, a readFd that fails, handleWrite.  Each  *)
(* of them clears the socket's error.                                      *)
ConnectionEvent(l, c) ==
    /\ Dispatch(l, c)
    /\ ~Closes(c)
    /\ \E x \in IF "out" \in revents[c] THEN handleWrite(conn[c]) ELSE {conn[c]} :
         /\ conn' = [conn EXCEPT ![c] = [x EXCEPT !.err = FALSE]]
         /\ queue' \in IF conn[c].out /\ ~x.out THEN Notified(queue, c)
                                                ELSE {queue}
    /\ UNCHANGED connections

NextFunctor(l, kind) ==
    LoopFree(l) /\ queue[l] # <<>> /\ Head(queue[l]).kind = kind

Popped(l) == [queue EXCEPT ![l] = Tail(@)]

(* A functor that changes nothing but its connection k: what k becomes.    *)
Effects(kind, k) ==
    CASE kind = "connectEstablished" ->
            {connectEstablished(k, app) : app \in {"none", "held"}}
      [] kind = "connectDestroyed" -> {connectDestroyed(k)}
      [] kind = "shutdownInLoop" -> {shutdownInLoop(k)}
      [] kind = "sendInLoop" -> sendInLoop(k)
      [] kind = "userCallback" -> {k}

RunOnConnection(l) ==
    /\ \E kind \in {"connectEstablished", "connectDestroyed", "userCallback"}
                        \cup Bare :
         /\ NextFunctor(l, kind)
         /\ LET c == Head(queue[l]).conn
            IN  /\ \E x \in Effects(kind, conn[c]) :
                       conn' = [conn EXCEPT ![c] = x]
                /\ queue' \in IF kind = "sendInLoop" /\ SendNotifies(conn[c])
                              THEN Notified(Popped(l), c)
                              ELSE {Popped(l)}
    /\ UNCHANGED <<serverVars, eventVars, running, clientVars>>

RunRemoveConnection ==
    /\ NextFunctor(BaseLoop, "removeConnectionInLoop")
    /\ removeConnectionInLoop(Head(queue[BaseLoop]).conn, Popped(BaseLoop))
    /\ UNCHANGED <<setup, server, listenning, nextConnId, next, conn,
                   eventVars, running, clientVars>>

(* ~EventLoopThread: quit() ends the loop wherever it is between rounds;   *)
(* functors still queued are destroyed with the EventLoop.                 *)
IoLoopEnds(l) ==
    /\ server = "joining"
    /\ LoopFree(l)
    /\ running' = [running EXCEPT ![l] = FALSE]
    /\ queue' = [queue EXCEPT ![l] = <<>>]
    /\ UNCHANGED <<serverVars, conn, eventVars, clientVars>>

-----------------------------------------------------------------------------
(* User code on the loop thread, in a callback or in a functor of its own: *)
(* send and shutdown act at once.                                          *)

UserCode(c) ==
    /\ running[conn[c].loop]
    /\ conn[c].state = "kConnected"
    /\ calls < setup.calls /\ calls' = calls + 1
    /\ UNCHANGED <<serverVars, eventVars, running, clients, backlog>>

UserSends(c) ==
    /\ UserCode(c)
    /\ \E x \in sendInLoop(conn[c]) : conn' = [conn EXCEPT ![c] = x]
    /\ queue' \in IF SendNotifies(conn[c]) THEN Notified(queue, c) ELSE {queue}

UserShuts(c) ==
    /\ UserCode(c)
    /\ conn' = [conn EXCEPT ![c] =
                    shutdownInLoop([@ EXCEPT !.state = "kDisconnecting"])]
    /\ UNCHANGED queue

-----------------------------------------------------------------------------
(* The application's thread that holds a pointer: send() reads state_ and  *)
(* hands sendInLoop to the loop in two steps; shutdown() reads state_,     *)
(* sets it and hands shutdownInLoop to the loop in three.                  *)

AppStep(c, from, to) ==
    /\ conn[c].app = from
    /\ UNCHANGED <<serverVars, eventVars, running, clients, backlog>>
    /\ conn' = [conn EXCEPT ![c].app = to,
                            ![c].state = IF to = "set" THEN "kDisconnecting"
                                                       ELSE @]

AppCalls(call, c) ==
    /\ call \in setup.off
    /\ server \in {"looping", "stopped"}
    /\ conn[c].state = "kConnected"
    /\ calls < setup.calls /\ calls' = calls + 1

AppQueues(kind, c) ==
    queue' = [queue EXCEPT ![conn[c].loop] = Append(@, Functor(kind, c))]

SendCheck(c) ==
    /\ AppCalls("send", c)
    /\ AppStep(c, "held", "sending") /\ UNCHANGED queue

SendQueue(c) ==
    /\ AppStep(c, "sending", "held") /\ AppQueues("sendInLoop", c)
    /\ UNCHANGED calls

ShutdownCheck(c) ==
    /\ AppCalls("shutdown", c)
    /\ AppStep(c, "held", "checked") /\ UNCHANGED queue

ShutdownSet(c) == AppStep(c, "checked", "set") /\ UNCHANGED <<queue, calls>>

ShutdownQueue(c) ==
    /\ AppStep(c, "set", "held") /\ AppQueues("shutdownInLoop", c)
    /\ UNCHANGED calls

AppDrops(c) ==
    /\ AppKeepsPtr =>
         \A kind \in Bare : Functor(kind, c) \notin Queued(conn[c].loop)
    /\ AppStep(c, "held", "none") /\ UNCHANGED <<queue, calls>>

-----------------------------------------------------------------------------
(* The clients.                                                            *)

ClientConnects ==
    /\ clients < MaxClients
    /\ listenning
    /\ clients' = clients + 1 /\ backlog' = backlog + 1
    /\ UNCHANGED <<serverVars, conn, loopVars, calls>>

PeerCloses(c) ==
    /\ Alive(c) /\ conn[c].peer = "open"
    /\ conn' = [conn EXCEPT ![c].peer = "closed"]
    /\ UNCHANGED <<serverVars, loopVars, clientVars>>

PeerResets(c) ==
    /\ Alive(c) /\ conn[c].peer # "reset"
    /\ conn' = [conn EXCEPT ![c].peer = "reset", ![c].err = TRUE]
    /\ UNCHANGED <<serverVars, loopVars, clientVars>>

-----------------------------------------------------------------------------
LoopStep(l) ==
    \/ Poll(l)
    \/ \E c \in DOMAIN conn : ConnectionCloses(l, c) \/ ConnectionEvent(l, c)

Destruction ==
    \/ BeginDestruction \/ DestroyPool \/ DestroyAcceptor
    \/ \E c \in DOMAIN conn : DestroyConnection(c)
    \/ \E l \in Loops : IoLoopEnds(l)

AppContinues(c) == SendQueue(c) \/ ShutdownSet(c) \/ ShutdownQueue(c)

Next ==
    \/ Start \/ EnterLoop \/ LeaveLoop \/ Destruction
    \/ handleRead \/ RunRemoveConnection
    \/ \E l \in Loops : LoopStep(l) \/ RunOnConnection(l)
    \/ \E c \in DOMAIN conn :
          \/ UserSends(c) \/ UserShuts(c)
          \/ SendCheck(c) \/ ShutdownCheck(c) \/ AppContinues(c) \/ AppDrops(c)
          \/ PeerCloses(c) \/ PeerResets(c)
    \/ ClientConnects

Spec == Init /\ [][Next]_vars

(* Every round of a loop polls, handles its events and runs its functors,  *)
(* so a functor waits no longer than a round; clients close, and the       *)
(* application drops its pointers, sooner or later.                        *)
FairSpec ==
    /\ Spec
    /\ WF_vars(handleRead) /\ SF_vars(RunRemoveConnection)
    /\ \A l \in Loops : WF_vars(LoopStep(l)) /\ SF_vars(RunOnConnection(l))
    /\ \A c \in Ids : /\ WF_vars(c \in DOMAIN conn /\ PeerCloses(c))
                      /\ WF_vars(c \in DOMAIN conn /\ AppContinues(c))
                      /\ WF_vars(c \in DOMAIN conn /\ AppDrops(c))

-----------------------------------------------------------------------------
(* Properties.                                                             *)

(* The application's threads may send() or may shutdown(), not both: the   *)
(* second overwrites kDisconnected (TcpConnection.cc:158), and then the    *)
(* sendInLoop of the first no longer sees that the connection is gone.     *)
OneKind == \A s \in Setups : s.off # {"send", "shutdown"}

(* Every functor in the queue of a running loop finds its connection       *)
(* there, the ones that bind a bare this (TcpConnection.cc:69, 83 and 160) *)
(* included.  TcpConnection.cc:177-178 promises that a connection is not   *)
(* deleted while it still has events to be handled.                        *)
FunctorsFindConnection ==
    \A l \in Loops : running[l] => \A f \in Queued(l) : Alive(f.conn)

(* A Channel that a running loop's poller or its list of active channels   *)
(* points to belongs to a connection that exists.                          *)
ChannelsFindConnection ==
    \A c \in DOMAIN conn, l \in Loops :
        /\ running[l]
        /\ c \in active[l] \/ (conn[c].loop = l /\ conn[c].channel.mapped)
        => Alive(c)

(* Nothing dangles, given OneKind: a late sendInLoop, whoever closed or    *)
(* destroyed the connection before, finds it and registers no channel of a *)
(* connection that is about to go.                                         *)
NothingDangles == FunctorsFindConnection /\ ChannelsFindConnection

(* Whoever ends a connection, its peer or ~TcpServer or both, the user     *)
(* hears of it once at most, and only after it was reported up, given      *)
(* OneKind: no late sendInLoop makes epoll report its end again.           *)
UpThenDown ==
    \A c \in DOMAIN conn : conn[c].downs <= conn[c].ups /\ conn[c].ups <= 1

(* The connection has had output waiting, and disableWriting then took it  *)
(* EPOLLIN instead of EPOLLOUT (Channel.h:40).                             *)
Deaf(k) == k.channel.interest.in /\ "in" \notin k.channel.interest.events

(* A connection its peer has closed or reset gives its descriptor back, on *)
(* whatever loop it lives, while the base loop runs, unless it is deaf to  *)
(* a close.                                                                *)
ClosedIsReleased ==
    \A c \in Ids :
        c \in DOMAIN conn /\ conn[c].peer # "open"
            ~> \/ server # "looping"
               \/ c \in DOMAIN conn /\ ~Alive(c)
               \/ /\ c \in DOMAIN conn
                  /\ Deaf(conn[c]) /\ conn[c].peer = "closed"

(* With accept failing for want of descriptors, the clients that wait are  *)
(* accepted all the same once connections have ended, unless a deaf one    *)
(* keeps its descriptor.                                                   *)
WaitingClientServed ==
    backlog > 0 ~> \/ backlog = 0 \/ server # "looping"
                   \/ \E c \in DOMAIN conn : Deaf(conn[c])
=============================================================================
