--------------------------- MODULE TcpConnection ----------------------------
(***************************************************************************)
(* One TcpConnection (src/net/TcpConnection.cc) from newConnection to      *)
(* connectDestroyed: its Channel and epoll registration, the socket behind *)
(* it, its io loop, the base loop that owns the TcpServer, and worker      *)
(* threads that call send and shutdown.                                    *)
(*                                                                         *)
(* The io loop appears as what TaskQueue promises of it (EventLoop         *)
(* implements TaskQueue): functors run one at a time, in queueing order,   *)
(* between dispatches of events.  A handler is one step up to the user     *)
(* callback that ends it; user code on the loop thread is any finite       *)
(* sequence of send and shutdown.  Worker threads take one step per access *)
(* to state_ or to the loop's queue.                                       *)
(***************************************************************************)
EXTENDS Integers, Sequences, FiniteSets, FiniteSetsExt, Channel

CONSTANTS
    Workers,            \* threads other than the io loop's
    Messages,           \* data blocks; each is sent at most once (bound)
    MsgLen,             \* bytes per message
    SndBuf,             \* bytes the kernel's send buffer holds
    MaxPeerSends,       \* how often the peer sends (bound)
    highWaterMark,      \* highWaterMark_
    WorkersMayShutdown  \* shutdown() is called off the loop thread, too

ASSUME TcpConnectionAssumptions ==
    /\ MsgLen \in Nat \ {0}
    /\ SndBuf \in Nat \ {0}
    /\ MaxPeerSends \in Nat
    /\ highWaterMark \in Nat \ {0}
    /\ WorkersMayShutdown \in BOOLEAN

VARIABLES
    singleLoop,     \* the io loop is the base loop (no pool threads)
    state,          \* state_
    channel,        \* channel_, with its entry in the poller
    outputBuffer,   \* readable bytes of outputBuffer_
    todo,           \* handlers still to be called for the last revents
    inCallback,     \* the loop thread runs user code
    tasks,          \* functors of this connection queued in its io loop
    baseTasks,      \* removeConnectionInLoop functors in the base loop
    inServer,       \* connections_ of the TcpServer has the connection
    worker,         \* per worker: which call it is in the middle of
    sock,           \* the kernel's side of the socket
    sent,           \* history: messages given to send
    accepted,       \* history: bytes sendInLoop took responsibility for
    wire,           \* history: bytes the kernel took
    ups, downs,     \* history: calls of connectionCallback_
    peerSends       \* how often the peer has sent

connVars == <<state, channel, outputBuffer>>
loopVars == <<todo, inCallback, tasks>>
serverVars == <<baseTasks, inServer, singleLoop>>
histVars == <<accepted, wire, ups, downs>>
vars == <<connVars, loopVars, serverVars, worker, sock, sent, histVars,
          peerSends>>

Bytes(m) == [i \in 1..MsgLen |-> <<m, i>>]

AllBytes == Messages \X (1..MsgLen)

States == {"kConnecting", "kConnected", "kDisconnecting", "kDisconnected"}

Handlers == {"close", "error", "read", "write"}

Task(kind) == [kind |-> kind]
SendTask(m) == [kind |-> "sendInLoop", msg |-> m]

Tasks == {Task(k) : k \in {"connectEstablished", "connectDestroyed",
                           "shutdownInLoop", "writeComplete", "highWater"}}
            \cup {SendTask(m) : m \in Messages}

Idle == [at |-> "idle"]
WorkerStates == {Idle, [at |-> "shutdownChecked"], [at |-> "shutdownSet"]}
                    \cup [at : {"sendChecked"}, msg : Messages]

(* inflight: bytes in the send buffer; unread: what the peer sent and      *)
(* readFd has not read; fin, reset: the peer has closed, or reset, the     *)
(* connection; err: a pending socket error; shutWr: SHUT_WR was done.      *)
SockType ==
    [inflight : 0..SndBuf, unread : 0..MaxPeerSends, fin : BOOLEAN,
     reset : BOOLEAN, err : BOOLEAN, shutWr : BOOLEAN]

TypeOK ==
    /\ singleLoop \in BOOLEAN
    /\ state \in States
    /\ channel \in ChannelType
    /\ outputBuffer \in Seq(AllBytes)
    /\ todo \in Seq(Handlers)
    /\ inCallback \in BOOLEAN
    /\ tasks \in Seq(Tasks)
    /\ baseTasks \in Nat
    /\ inServer \in BOOLEAN
    /\ worker \in [Workers -> WorkerStates]
    /\ sock \in SockType
    /\ sent \subseteq Messages
    /\ accepted \in Seq(AllBytes)
    /\ wire \in Seq(AllBytes)
    /\ ups \in Nat /\ downs \in Nat
    /\ peerSends \in 0..MaxPeerSends
    /\ sock.unread <= peerSends

(* TcpServer::newConnection has built the connection, put it into          *)
(* connections_ and handed connectEstablished to the io loop.              *)
Init ==
    /\ singleLoop \in BOOLEAN
    /\ state = "kConnecting"
    /\ channel = NewChannel
    /\ outputBuffer = <<>>
    /\ todo = <<>>
    /\ inCallback = FALSE
    /\ tasks = <<Task("connectEstablished")>>
    /\ baseTasks = 0
    /\ inServer = TRUE
    /\ worker = [w \in Workers |-> Idle]
    /\ sock = [inflight |-> 0, unread |-> 0, fin |-> FALSE, reset |-> FALSE,
               err |-> FALSE, shutWr |-> FALSE]
    /\ sent = {}
    /\ accepted = <<>> /\ wire = <<>>
    /\ ups = 0 /\ downs = 0
    /\ peerSends = 0

-----------------------------------------------------------------------------
(* The socket.                                                             *)

Fault == -2     \* write fails with EPIPE or ECONNRESET
Again == -1     \* write fails with EWOULDBLOCK

(* What ::write of n bytes may return. *)
WriteResults(n) ==
    IF sock.reset \/ sock.shutWr THEN {Fault}
    ELSE IF n = 0 THEN {0}
    ELSE IF sock.inflight = SndBuf THEN {Again}
    ELSE 1..Min({n, SndBuf - sock.inflight})

(* The socket after a write that returned r: a fault also hands over, and  *)
(* so clears, the pending socket error.                                    *)
AfterWrite(r) ==
    IF r = Fault THEN [sock EXCEPT !.err = FALSE]
    ELSE IF r > 0 THEN [sock EXCEPT !.inflight = @ + r]
    ELSE sock

(* The epoll events of the descriptor; hup and err need no interest. *)
Ready ==
    (IF sock.unread > 0 \/ sock.fin \/ sock.reset THEN {"in"} ELSE {})
    \cup (IF sock.inflight < SndBuf \/ sock.reset \/ sock.shutWr
          THEN {"out"} ELSE {})
    \cup (IF sock.reset \/ (sock.fin /\ sock.shutWr) THEN {"hup"} ELSE {})
    \cup (IF sock.err THEN {"err"} ELSE {})

Reportable ==
    IF channel.interest.in
    THEN Ready \cap (channel.interest.events \cup {"hup", "err"})
    ELSE {}

-----------------------------------------------------------------------------
(* sendInLoop, shutdownInLoop, handleClose: called by several handlers.    *)
(* q is what is in the loop's queue when the call is made.                 *)

(* Fault for InOrder: write to the socket whatever is still buffered. *)
WriteAtOnceAlways == TRUE

(* sendInLoop: nothing is ahead of these bytes. *)
WriteAtOnce == ~isWriting(channel) /\ outputBuffer = <<>>

(* Fault for OutputIsWatched: what was left over is kept, but EPOLLOUT is  *)
(* not asked for.                                                          *)
KeepRestUnwatched(rest) ==
    /\ outputBuffer' = outputBuffer \o rest
    /\ UNCHANGED channel

(* sendInLoop: the bytes that were not written. *)
KeepRest(rest) ==
    /\ outputBuffer' = outputBuffer \o rest
    /\ channel' = IF isWriting(channel) THEN channel
                                        ELSE enableWriting(channel)

(* sendInLoop: the callbacks it queues. *)
Notices(tried, r, rest) ==
    (IF tried /\ r >= 0 /\ rest = <<>> THEN <<Task("writeComplete")>> ELSE <<>>)
    \o (IF /\ r # Fault /\ rest # <<>>
           /\ Len(outputBuffer) < highWaterMark
           /\ Len(outputBuffer) + Len(rest) >= highWaterMark
        THEN <<Task("highWater")>> ELSE <<>>)

(* Fault for TypeOK: nwrote is still -1 after a write that failed with     *)
(* EWOULDBLOCK, so that what is kept starts one byte before the message.   *)
UnwrittenFromBefore(m, r) ==
    [i \in 1..(IF r > 0 THEN MsgLen - r ELSE MsgLen) |->
        <<m, IF r >= Again THEN i + r ELSE i>>]

(* sendInLoop: the bytes of m left when write returned r; a failed write   *)
(* has written nothing.                                                    *)
Unwritten(m, r) ==
    SubSeq(Bytes(m), (IF r > 0 THEN r ELSE 0) + 1, MsgLen)

SendInLoop(m, q) ==
    \/ /\ state = "kDisconnected"
       /\ tasks' = q
       /\ UNCHANGED <<channel, outputBuffer, sock, accepted, wire>>
    \/ /\ state # "kDisconnected"
       /\ \E r \in IF WriteAtOnce THEN WriteResults(MsgLen) ELSE {0} :
            LET nwrote == IF r > 0 THEN r ELSE 0
                rest == Unwritten(m, r)
            IN  /\ sock' = AfterWrite(r)
                /\ wire' = wire \o SubSeq(Bytes(m), 1, nwrote)
                /\ tasks' = q \o Notices(WriteAtOnce, r, rest)
                /\ accepted' = IF r = Fault THEN accepted
                                            ELSE accepted \o Bytes(m)
                /\ IF r # Fault /\ rest # <<>>
                   THEN KeepRest(rest)
                   ELSE UNCHANGED <<outputBuffer, channel>>

(* shutdownInLoop on a channel ch. *)
ShutdownInLoop(ch, s) ==
    IF isWriting(ch) THEN s ELSE [s EXCEPT !.shutWr = TRUE]

(* removeConnection: runInLoop on the base loop; removeConnectionInLoop    *)
(* erases the connection and queues connectDestroyed in the io loop.       *)
RemoveConnection(q) ==
    /\ \/ /\ singleLoop
          /\ inServer' = FALSE
          /\ tasks' = Append(q, Task("connectDestroyed"))
          /\ UNCHANGED baseTasks
       \/ /\ ~singleLoop
          /\ baseTasks' = baseTasks + 1
          /\ tasks' = q
          /\ UNCHANGED inServer
    /\ UNCHANGED singleLoop

HandleClose ==
    /\ state' = "kDisconnected"
    /\ channel' = disableAll(channel)
    /\ downs' = downs + 1
    /\ RemoveConnection(tasks)

-----------------------------------------------------------------------------
(* The io loop: events.                                                    *)

LoopFree == todo = <<>> /\ ~inCallback

(* handleEventWithGuard: which handlers revents calls for. *)
Fires(h, revents) ==
    CASE h = "close" -> "hup" \in revents /\ "in" \notin revents
      [] h = "error" -> "err" \in revents
      [] h = "read" -> "in" \in revents
      [] h = "write" -> "out" \in revents

(* epoll_wait reports the channel; its handlers are called in this order.  *)
Poll ==
    /\ LoopFree
    /\ Reportable # {}
    /\ LET Call(h) == IF Fires(h, Reportable) THEN <<h>> ELSE <<>>
       IN  todo' = Call("close") \o Call("error") \o Call("read")
                        \o Call("write")
    /\ UNCHANGED <<connVars, inCallback, tasks, serverVars, worker, sock,
                   sent, histVars, peerSends>>

NextHandler(h) == ~inCallback /\ todo # <<>> /\ Head(todo) = h

(* closeCallback_ of the channel. *)
ChannelClose ==
    /\ NextHandler("close")
    /\ todo' = Tail(todo)
    /\ HandleClose
    /\ UNCHANGED <<outputBuffer, inCallback, worker, sock, sent, accepted,
                   wire, ups, peerSends>>

(* handleError: getsockopt(SO_ERROR) also clears the error. *)
HandleError ==
    /\ NextHandler("error")
    /\ todo' = Tail(todo)
    /\ sock' = [sock EXCEPT !.err = FALSE]
    /\ UNCHANGED <<connVars, inCallback, tasks, serverVars, worker, sent,
                   histVars, peerSends>>

(* handleRead: readFd takes what there is, then messageCallback_ runs ... *)
HandleReadData ==
    /\ NextHandler("read")
    /\ sock.unread > 0
    /\ todo' = Tail(todo)
    /\ sock' = [sock EXCEPT !.unread = 0]
    /\ inCallback' = TRUE
    /\ UNCHANGED <<connVars, tasks, serverVars, worker, sent, histVars,
                   peerSends>>

(* ... or readFd returns 0 ... *)
HandleReadEof ==
    /\ NextHandler("read")
    /\ sock.unread = 0 /\ ~sock.err /\ (sock.fin \/ sock.reset)
    /\ todo' = Tail(todo)
    /\ HandleClose
    /\ UNCHANGED <<outputBuffer, inCallback, worker, sock, sent, accepted,
                   wire, ups, peerSends>>

(* ... or it fails and handleError is called. *)
HandleReadError ==
    /\ NextHandler("read")
    /\ sock.unread = 0 /\ (sock.err \/ ~(sock.fin \/ sock.reset))
    /\ todo' = Tail(todo)
    /\ sock' = [sock EXCEPT !.err = FALSE]
    /\ UNCHANGED <<connVars, inCallback, tasks, serverVars, worker, sent,
                   histVars, peerSends>>

(* handleWrite: what is left of the buffer after n bytes went out. *)
HandleWrite ==
    /\ NextHandler("write")
    /\ todo' = Tail(todo)
    /\ \/ /\ ~isWriting(channel)
          /\ UNCHANGED <<channel, outputBuffer, sock, tasks, wire>>
       \/ /\ isWriting(channel)
          /\ \E r \in WriteResults(Len(outputBuffer)) :
                /\ wire' = IF r > 0 THEN wire \o SubSeq(outputBuffer, 1, r)
                                    ELSE wire
                /\ IF r > 0
                   THEN outputBuffer' = SubSeq(outputBuffer, r + 1,
                                               Len(outputBuffer))
                   ELSE UNCHANGED outputBuffer
                /\ IF r > 0 /\ r = Len(outputBuffer)
                   THEN /\ channel' = disableWriting(channel)
                        /\ tasks' = Append(tasks, Task("writeComplete"))
                        /\ sock' = IF state = "kDisconnecting"
                                   THEN ShutdownInLoop(channel', AfterWrite(r))
                                   ELSE AfterWrite(r)
                   ELSE /\ sock' = AfterWrite(r)
                        /\ UNCHANGED <<channel, tasks>>
    /\ UNCHANGED <<state, inCallback, serverVars, worker, sent, accepted,
                   ups, downs, peerSends>>

-----------------------------------------------------------------------------
(* The io loop: functors.                                                  *)

NextTask(t) == LoopFree /\ tasks # <<>> /\ Head(tasks) = t

ConnectEstablished ==
    /\ NextTask(Task("connectEstablished"))
    /\ state' = "kConnected"
    /\ channel' = enableReading(channel)
    /\ ups' = ups + 1
    /\ inCallback' = TRUE
    /\ tasks' = Tail(tasks)
    /\ UNCHANGED <<outputBuffer, todo, serverVars, worker, sock, sent,
                   accepted, wire, downs, peerSends>>

ConnectDestroyed ==
    /\ NextTask(Task("connectDestroyed"))
    /\ IF state = "kConnected"
       THEN /\ state' = "kDisconnected"
            /\ channel' = removeChannel(disableAll(channel))
            /\ downs' = downs + 1
       ELSE /\ channel' = removeChannel(channel)
            /\ UNCHANGED <<state, downs>>
    /\ tasks' = Tail(tasks)
    /\ UNCHANGED <<outputBuffer, todo, inCallback, serverVars, worker, sock,
                   sent, accepted, wire, ups, peerSends>>

RunSendInLoop(m) ==
    /\ NextTask(SendTask(m))
    /\ SendInLoop(m, Tail(tasks))
    /\ UNCHANGED <<state, todo, inCallback, serverVars, worker, sent, ups,
                   downs, peerSends>>

RunShutdownInLoop ==
    /\ NextTask(Task("shutdownInLoop"))
    /\ sock' = ShutdownInLoop(channel, sock)
    /\ tasks' = Tail(tasks)
    /\ UNCHANGED <<connVars, todo, inCallback, serverVars, worker, sent,
                   histVars, peerSends>>

(* writeCompleteCallback_ and highWaterMarkCallback_ run user code. *)
RunUserCallback ==
    /\ \E k \in {"writeComplete", "highWater"} : NextTask(Task(k))
    /\ inCallback' = TRUE
    /\ tasks' = Tail(tasks)
    /\ UNCHANGED <<connVars, todo, serverVars, worker, sock, sent, histVars,
                   peerSends>>

-----------------------------------------------------------------------------
(* User code on the loop thread: send and shutdown act at once.            *)

Send(m) ==
    /\ inCallback
    /\ state = "kConnected"
    /\ m \notin sent
    /\ sent' = sent \cup {m}
    /\ SendInLoop(m, tasks)
    /\ UNCHANGED <<state, todo, inCallback, serverVars, worker, ups, downs,
                   peerSends>>

Shutdown ==
    /\ inCallback
    /\ state = "kConnected"
    /\ state' = "kDisconnecting"
    /\ sock' = ShutdownInLoop(channel, sock)
    /\ UNCHANGED <<channel, outputBuffer, loopVars, serverVars, worker, sent,
                   histVars, peerSends>>

CallbackReturns ==
    /\ inCallback
    /\ inCallback' = FALSE
    /\ UNCHANGED <<connVars, todo, tasks, serverVars, worker, sock, sent,
                   histVars, peerSends>>

-----------------------------------------------------------------------------
(* Other threads.  state_ is read in one step and used in the next.        *)

AtIdle(w) == worker[w] = Idle

SendCheck(w, m) ==
    /\ AtIdle(w)
    /\ state = "kConnected"
    /\ m \notin sent
    /\ sent' = sent \cup {m}
    /\ worker' = [worker EXCEPT ![w] = [at |-> "sendChecked", msg |-> m]]
    /\ UNCHANGED <<connVars, loopVars, serverVars, sock, histVars, peerSends>>

SendQueue(w) ==
    /\ worker[w].at = "sendChecked"
    /\ tasks' = Append(tasks, SendTask(worker[w].msg))
    /\ worker' = [worker EXCEPT ![w] = Idle]
    /\ UNCHANGED <<connVars, todo, inCallback, serverVars, sock, sent,
                   histVars, peerSends>>

ShutdownCheck(w) ==
    /\ WorkersMayShutdown
    /\ AtIdle(w)
    /\ state = "kConnected"
    /\ worker' = [worker EXCEPT ![w] = [at |-> "shutdownChecked"]]
    /\ UNCHANGED <<connVars, loopVars, serverVars, sock, sent, histVars,
                   peerSends>>

ShutdownSet(w) ==
    /\ worker[w].at = "shutdownChecked"
    /\ state' = "kDisconnecting"
    /\ worker' = [worker EXCEPT ![w] = [at |-> "shutdownSet"]]
    /\ UNCHANGED <<channel, outputBuffer, loopVars, serverVars, sock, sent,
                   histVars, peerSends>>

ShutdownQueue(w) ==
    /\ worker[w].at = "shutdownSet"
    /\ tasks' = Append(tasks, Task("shutdownInLoop"))
    /\ worker' = [worker EXCEPT ![w] = Idle]
    /\ UNCHANGED <<connVars, todo, inCallback, serverVars, sock, sent,
                   histVars, peerSends>>

(* Fault for DownIsCleanedUp: connectDestroyed is not queued. *)
RemoveConnectionOnly ==
    /\ baseTasks > 0
    /\ baseTasks' = baseTasks - 1
    /\ inServer' = FALSE
    /\ UNCHANGED <<connVars, loopVars, singleLoop, worker, sock, sent,
                   histVars, peerSends>>

(* The base loop runs removeConnectionInLoop. *)
RemoveConnectionInLoop ==
    /\ baseTasks > 0
    /\ baseTasks' = baseTasks - 1
    /\ inServer' = FALSE
    /\ tasks' = Append(tasks, Task("connectDestroyed"))
    /\ UNCHANGED <<connVars, todo, inCallback, singleLoop, worker, sock, sent,
                   histVars, peerSends>>

-----------------------------------------------------------------------------
(* The peer and the network.                                               *)

PeerOnly == UNCHANGED <<connVars, loopVars, serverVars, worker, sent, histVars>>

PeerReads ==
    /\ sock.inflight > 0
    /\ sock' = [sock EXCEPT !.inflight = @ - 1]
    /\ UNCHANGED peerSends
    /\ PeerOnly

PeerSends ==
    /\ peerSends < MaxPeerSends
    /\ ~sock.fin /\ ~sock.reset
    /\ sock' = [sock EXCEPT !.unread = @ + 1]
    /\ peerSends' = peerSends + 1
    /\ PeerOnly

PeerCloses ==
    /\ ~sock.fin /\ ~sock.reset
    /\ sock' = [sock EXCEPT !.fin = TRUE]
    /\ UNCHANGED peerSends
    /\ PeerOnly

PeerResets ==
    /\ ~sock.reset
    /\ sock' = [sock EXCEPT !.reset = TRUE, !.err = TRUE]
    /\ UNCHANGED peerSends
    /\ PeerOnly

-----------------------------------------------------------------------------
Dispatch ==
    \/ Poll \/ ChannelClose \/ HandleError \/ HandleReadData
    \/ HandleReadEof \/ HandleReadError \/ HandleWrite

RunTask ==
    \/ ConnectEstablished \/ ConnectDestroyed \/ RunShutdownInLoop
    \/ RunUserCallback
    \/ \E m \in Messages : RunSendInLoop(m)

UserCode == Shutdown \/ \E m \in Messages : Send(m)

WorkerContinues(w) == SendQueue(w) \/ ShutdownSet(w) \/ ShutdownQueue(w)

WorkerStep(w) ==
    \/ \E m \in Messages : SendCheck(w, m)
    \/ ShutdownCheck(w)
    \/ WorkerContinues(w)

Peer == PeerReads \/ PeerSends \/ PeerCloses \/ PeerResets

Next ==
    \/ Dispatch \/ RunTask \/ CallbackReturns \/ UserCode
    \/ \E w \in Workers : WorkerStep(w)
    \/ RemoveConnectionInLoop
    \/ Peer

Spec == Init /\ [][Next]_vars

(* The loops run their functors and dispatch the events that stay ready    *)
(* (EventLoop's QueuedFunctorRuns), callbacks return, a call once begun is *)
(* finished, the peer keeps reading.                                       *)
FairSpec ==
    /\ Spec
    /\ SF_vars(Dispatch) /\ SF_vars(RunTask)
    /\ WF_vars(CallbackReturns)
    /\ WF_vars(RemoveConnectionInLoop)
    /\ \A w \in Workers : WF_vars(WorkerContinues(w))
    /\ WF_vars(PeerReads)

-----------------------------------------------------------------------------
(* Properties.                                                             *)

(* The byte stream: what the kernel took, followed by what outputBuffer_   *)
(* holds, is exactly what sendInLoop accepted, in order.  Direct writes    *)
(* never overtake buffered bytes and no partial write loses or repeats any.*)
InOrder == wire \o outputBuffer = accepted

(* While the connection is up, bytes in outputBuffer_ are waited for: the  *)
(* kernel's epoll set has EPOLLOUT for the descriptor.                     *)
OutputIsWatched ==
    outputBuffer # <<>> /\ downs = 0
        => channel.interest.in /\ "out" \in channel.interest.events

(* The channel, the poller's map and the epoll set agree after any history *)
(* of events, functors and calls; no epoll_ctl add or mod fails.           *)
PollerConsistent == Consistent(channel)

(* When the connection is down, it leaves the server's map and the poller  *)
(* for good: nothing registers its channel again.                          *)
DownIsCleanedUp == downs > 0 ~> [](~inServer /\ channel.index = "kNew")

(* Buffered bytes all reach the kernel while the connection stays up.      *)
OutputDrains ==
    outputBuffer # <<>> ~> outputBuffer = <<>> \/ downs > 0 \/ sock.reset

(* TcpConnection.cc:226 says that once the buffer is written to the client *)
(* the connection can be shut down: a shutdown that waits for the buffer   *)
(* is carried out when the buffer is empty.                                *)
ShutdownCompletes ==
    state = "kDisconnecting" ~> sock.shutWr \/ downs > 0 \/ sock.reset
=============================================================================
