--------------------------- MODULE TcpServerProofs --------------------------
(***************************************************************************)
(* Proofs about module TcpServer, for any number of pool threads, clients, *)
(* descriptors and calls, with application threads that send() or          *)
(* shutdown() (OneKind).                                                   *)
(***************************************************************************)
EXTENDS TcpServer, TLAPS, SequenceTheorems, FiniteSetTheorems

(* Only loop() runs the base loop, only a running loop has active          *)
(* channels, and there is no connection before the first poll.             *)
StageInv ==
    /\ server = "new" => \A l \in Loops : ~running[l]
    /\ server \in {"new", "started"} => conn = <<>>
    /\ running[BaseLoop] => server = "looping"
    /\ \A l \in Loops : active[l] # {} => running[l]

(* A client is accepted or waits. *)
AcceptInv == Len(conn) + backlog = clients

(* One connection: its channel is registered properly; a connection that   *)
(* is not up yet is untouched; what epoll watches is up and not down.      *)
ConnOK(k) ==
    /\ Consistent(k.channel)
    /\ k.ups = 0 => /\ k.downs = 0 /\ ~k.channel.mapped /\ k.app = "none"
                    /\ k.state = "kConnecting"
    /\ k.ups <= 1 /\ k.downs <= k.ups
    /\ k.channel.interest.in => k.ups = 1 /\ k.downs = 0
    /\ k.state = "kConnected" => k.channel.interest.in

ConnInv == \A c \in DOMAIN conn : ConnOK(conn[c])

(* A channel that poll reported is still watched when its turn comes. *)
ActiveInv ==
    \A l \in Loops :
        \A c \in active[l] :
            IF c = acceptChannel
            THEN l = BaseLoop => backlog > 0
            ELSE /\ c \in DOMAIN conn
                 /\ conn[c].loop = l
                 /\ conn[c].channel.interest.in

(* A functor is in the queue of the loop it belongs to; connectEstablished *)
(* is there only before it ran; those that bind a bare this only while the *)
(* application holds the pointer it called through.                        *)
FunctorOK(f, l, cs) ==
    /\ f.conn \in 1..Len(cs)
    /\ f.kind # "removeConnectionInLoop" => cs[f.conn].loop = l
    /\ f.kind = "connectEstablished" => cs[f.conn].ups = 0
    /\ f.kind \in Bare /\ AppKeepsPtr => cs[f.conn].app # "none"

Elems(q) == {q[i] : i \in DOMAIN q}

FunctorInv ==
    \A l \in Loops : \A f \in Elems(queue[l]) : FunctorOK(f, l, conn)

(* connectEstablished is the first functor of its connection. *)
EstablishedFirst(q) ==
    \A i, j \in 1..Len(q) :
        i < j /\ q[j].kind = "connectEstablished" => q[i].conn # q[j].conn

OrderInv == \A l \in Loops : EstablishedFirst(queue[l])

(* A connection of a running loop is in the map, or has connectDestroyed   *)
(* before it, or is unknown to the poller for good.                        *)
Linked(c) ==
    running[conn[c].loop] =>
        \/ c \in connections
        \/ Functor("connectDestroyed", c) \in Elems(queue[conn[c].loop])
        \/ /\ ~conn[c].channel.mapped
           /\ Functor("connectEstablished", c)
                \notin Elems(queue[conn[c].loop])

LinkInv == \A c \in DOMAIN conn : Linked(c)

(* A sendInLoop of c waits behind its connectDestroyed. *)
Overtaken(q, c) ==
    \E i, j \in 1..Len(q) :
        /\ i < j
        /\ q[i] = Functor("connectDestroyed", c)
        /\ q[j] = Functor("sendInLoop", c)

Ending == server \in {"destroying", "joining", "gone"}

(* No thread of the application is about to send on c. *)
NoSend(c) ==
    /\ conn[c].app # "sending"
    /\ \A l \in Loops : Functor("sendInLoop", c) \notin Elems(queue[l])

(* When a sendInLoop of c runs that does not find kDisconnected, epoll     *)
(* still watches the channel: only ~TcpServer has queued connectDestroyed, *)
(* and only behind it.                                                     *)
Sendable(c) ==
    /\ \A l \in Loops :
            Functor("removeConnectionInLoop", c) \notin Elems(queue[l])
    /\ Functor("connectDestroyed", c) \in Elems(queue[conn[c].loop]) => Ending
    /\ ~Overtaken(queue[conn[c].loop], c)
    /\ /\ running[conn[c].loop]
       /\ \/ conn[c].app = "sending"
          \/ Functor("sendInLoop", c) \in Elems(queue[conn[c].loop])
       => conn[c].channel.interest.in

(* Off the loop thread there is no send(), or no shutdown(), so that       *)
(* kDisconnected stays; and no call goes on while ~TcpServer runs.         *)
SendOK(c) ==
    /\ Ending => conn[c].app \in {"none", "held"}
    /\ IF "shutdown" \in setup.off
       THEN NoSend(c)
       ELSE /\ conn[c].app \notin {"checked", "set"}
            /\ conn[c].state # "kDisconnected" => Sendable(c)

SendInv == \A c \in DOMAIN conn : SendOK(c)

IInv ==
    /\ TypeOK
    /\ StageInv
    /\ AcceptInv
    /\ ConnInv
    /\ ActiveInv
    /\ FunctorInv
    /\ OrderInv
    /\ LinkInv
    /\ SendInv

-----------------------------------------------------------------------------
(* The channel: whatever is asked of its poller, index_, channels_ and the *)
(* epoll set stay in step.                                                 *)

(* What updateChannel relies on: the registration is coherent; events_     *)
(* may have just changed.                                                  *)
Registered(ch) ==
    /\ ~ch.fatal
    /\ ch.mapped <=> ch.index # "kNew"
    /\ ch.interest.in <=> ch.index = "kAdded"

(* updateChannel leaves the poller consistent and watches every channel    *)
(* that has events.                                                        *)
LEMMA UpdateChannel ==
    ASSUME NEW ch \in ChannelType, Registered(ch)
    PROVE  /\ updateChannel(ch) \in ChannelType
           /\ Consistent(updateChannel(ch))
           /\ updateChannel(ch).events = ch.events
           /\ ch.events # {} => updateChannel(ch).index = "kAdded"
  <1> USE DEF ChannelType, Registered, Consistent, updateChannel, EpollAdd,
              EpollMod, EpollDel, isNoneEvent, InEpoll, NotInEpoll, kNoneEvent,
              AllEvents
  <1>1. CASE ch.index = "kNew"
    BY <1>1
  <1>2. CASE ch.index = "kDeleted"
    BY <1>2
  <1>3. CASE ch.index = "kAdded" /\ ch.events = {}
    BY <1>3
  <1>4. CASE ch.index = "kAdded" /\ ch.events # {}
    BY <1>4
  <1> QED
    BY <1>1, <1>2, <1>3, <1>4

(* Changing events_ alone keeps the registration coherent. *)
LEMMA SetEvents ==
    ASSUME NEW ch \in ChannelType, Consistent(ch), NEW ev \in SUBSET AllEvents
    PROVE  /\ [ch EXCEPT !.events = ev] \in ChannelType
           /\ Registered([ch EXCEPT !.events = ev])
           /\ [ch EXCEPT !.events = ev].events = ev
  BY DEF ChannelType, Consistent, Registered

(* enableReading: the channel is watched for what it was and for reading. *)
LEMMA EnableReading ==
    ASSUME NEW ch \in ChannelType, Consistent(ch)
    PROVE  /\ enableReading(ch) \in ChannelType
           /\ Consistent(enableReading(ch))
           /\ enableReading(ch).events = ch.events \cup kReadEvent
           /\ enableReading(ch).index = "kAdded"
  <1> DEFINE ev == ch.events \cup kReadEvent
  <1>1. ev \in SUBSET AllEvents /\ ev # {}
    BY DEF ChannelType, AllEvents, kReadEvent
  <1>2. enableReading(ch) = updateChannel([ch EXCEPT !.events = ev])
    BY DEF enableReading
  <1> HIDE DEF ev
  <1>3. QED
    BY <1>1, <1>2, SetEvents, UpdateChannel DEF ev

(* enableWriting likewise. *)
LEMMA EnableWriting ==
    ASSUME NEW ch \in ChannelType, Consistent(ch)
    PROVE  /\ enableWriting(ch) \in ChannelType
           /\ Consistent(enableWriting(ch))
           /\ enableWriting(ch).index = "kAdded"
  <1> DEFINE ev == ch.events \cup kWriteEvent
  <1>1. ev \in SUBSET AllEvents /\ ev # {}
    BY DEF ChannelType, AllEvents, kWriteEvent
  <1>2. enableWriting(ch) = updateChannel([ch EXCEPT !.events = ev])
    BY DEF enableWriting
  <1> HIDE DEF ev
  <1>3. QED
    BY <1>1, <1>2, SetEvents, UpdateChannel DEF ev

(* disableWriting leaves a channel that writes with the write event, and   *)
(* watched.                                                                *)
LEMMA DisableWriting ==
    ASSUME NEW ch \in ChannelType, Consistent(ch), isWriting(ch)
    PROVE  /\ disableWriting(ch) \in ChannelType
           /\ Consistent(disableWriting(ch))
           /\ disableWriting(ch).index = "kAdded"
           /\ isWriting(disableWriting(ch))
  <1> DEFINE ev == ch.events \cap kWriteEvent
  <1>1. ev \in SUBSET AllEvents /\ ev = kWriteEvent /\ ev # {}
    BY DEF ChannelType, AllEvents, kWriteEvent, isWriting
  <1>2. disableWriting(ch) = updateChannel([ch EXCEPT !.events = ev])
    BY DEF disableWriting
  <1> HIDE DEF ev
  <1>3. /\ disableWriting(ch) \in ChannelType
        /\ Consistent(disableWriting(ch))
        /\ disableWriting(ch).index = "kAdded"
        /\ disableWriting(ch).events = ev
    BY <1>1, <1>2, SetEvents, UpdateChannel
  <1> QED
    BY <1>1, <1>3 DEF isWriting

(* disableAll. *)
LEMMA Disable ==
    ASSUME NEW ch \in ChannelType, Consistent(ch)
    PROVE  disableAll(ch) \in ChannelType /\ Consistent(disableAll(ch))
  <1>1. ch.events \cap kNoneEvent \in SUBSET AllEvents
    BY DEF AllEvents, kNoneEvent
  <1> QED
    BY <1>1, SetEvents, UpdateChannel DEF disableAll

(* removeChannel. *)
LEMMA Remove ==
    ASSUME NEW ch \in ChannelType, Consistent(ch)
    PROVE  removeChannel(ch) \in ChannelType /\ Consistent(removeChannel(ch))
  BY DEF removeChannel, EpollDel, NotInEpoll, ChannelType, Consistent,
         AllEvents

(* handleClose: a watched channel is no longer watched after disableAll,   *)
(* but the poller still knows it.                                          *)
LEMMA DisableWatched ==
    ASSUME NEW ch \in ChannelType, Consistent(ch), ch.interest.in
    PROVE  ~disableAll(ch).interest.in /\ disableAll(ch).mapped
  <1>1. ch.index = "kAdded" /\ ch.mapped
    BY DEF Consistent
  <1> QED
    BY <1>1 DEF disableAll, updateChannel, EpollDel, isNoneEvent, kNoneEvent,
                NotInEpoll, ChannelType

(* After removeChannel neither the poller nor epoll knows the channel. *)
LEMMA Removed ==
    ASSUME NEW ch \in ChannelType, Consistent(ch)
    PROVE  ~removeChannel(ch).interest.in /\ ~removeChannel(ch).mapped
  BY DEF removeChannel, EpollDel, NotInEpoll, ChannelType, Consistent

-----------------------------------------------------------------------------
(* One connection.                                                         *)

LEMMA NewOK ==
    ASSUME NEW l \in Loops
    PROVE  /\ NewTcpConnection(l) \in ConnType
           /\ ConnOK(NewTcpConnection(l))
           /\ NewTcpConnection(l).loop = l /\ NewTcpConnection(l).ups = 0
           /\ NewTcpConnection(l).app = "none"
           /\ NewTcpConnection(l).state = "kConnecting"
           /\ ~NewTcpConnection(l).channel.interest.in
  BY DEF NewTcpConnection, ConnType, ConnOK, NewChannel, ChannelType,
         Consistent, NotInEpoll, kNoneEvent, AllEvents, AppAt

LEMMA EstablishedOK ==
    ASSUME NEW k \in ConnType, ConnOK(k), k.ups = 0, NEW app \in {"none", "held"}
    PROVE  /\ connectEstablished(k, app) \in ConnType
           /\ ConnOK(connectEstablished(k, app))
           /\ connectEstablished(k, app).loop = k.loop
           /\ connectEstablished(k, app).ups = 1
           /\ connectEstablished(k, app).app = app
           /\ connectEstablished(k, app).channel.interest.in
  <1> DEFINE ch == enableReading(k.channel)
             x == connectEstablished(k, app)
  <1>1. k.channel \in ChannelType /\ Consistent(k.channel) /\ k.downs = 0
    BY DEF ConnType, ConnOK
  <1>2. ch \in ChannelType /\ Consistent(ch) /\ ch.index = "kAdded"
    BY <1>1, EnableReading
  <1>3. ch.interest.in
    BY <1>2 DEF Consistent
  <1> HIDE DEF ch
  <1>4. x = [k EXCEPT !.state = "kConnected", !.channel = ch, !.ups = 1,
                      !.app = app]
    <2>1. k.ups + 1 = 1
      OBVIOUS
    <2> QED
      BY <2>1 DEF connectEstablished, ch
  <1>5. /\ x \in ConnType /\ x.loop = k.loop /\ x.ups = 1 /\ x.downs = 0
        /\ x.state = "kConnected" /\ x.channel = ch /\ x.app = app
    <2>1. app \in AppAt
      BY DEF AppAt
    <2> HIDE DEF x
    <2>2. x \in ConnType
      BY <1>2, <1>4, <2>1 DEF ConnType
    <2>3. /\ x.loop = k.loop /\ x.ups = 1 /\ x.downs = k.downs
          /\ x.state = "kConnected" /\ x.channel = ch /\ x.app = app
      BY <1>4 DEF ConnType
    <2> QED
      BY <1>1, <2>2, <2>3
  <1> HIDE DEF x
  <1>6. ConnOK(x)
    BY <1>2, <1>3, <1>5 DEF ConnOK
  <1> QED
    BY <1>3, <1>5, <1>6 DEF x

LEMMA DestroyedOK ==
    ASSUME NEW k \in ConnType, ConnOK(k)
    PROVE  /\ connectDestroyed(k) \in ConnType
           /\ ConnOK(connectDestroyed(k))
           /\ connectDestroyed(k).loop = k.loop
           /\ connectDestroyed(k).ups = k.ups
           /\ connectDestroyed(k).app = k.app
           /\ connectDestroyed(k).state \in {k.state, "kDisconnected"}
           /\ ~connectDestroyed(k).channel.mapped
  <1> DEFINE x == connectDestroyed(k)
  <1>1. k.channel \in ChannelType /\ Consistent(k.channel)
    BY DEF ConnType, ConnOK
  <1>2. CASE k.state = "kConnected"
    <2> DEFINE ch == removeChannel(disableAll(k.channel))
    <2>1. disableAll(k.channel) \in ChannelType
            /\ Consistent(disableAll(k.channel))
      BY <1>1, Disable
    <2>2. /\ ch \in ChannelType /\ Consistent(ch)
          /\ ~ch.interest.in /\ ~ch.mapped
      BY <2>1, Remove, Removed
    <2> HIDE DEF ch
    <2>3. k.ups = 1 /\ k.downs = 0
      BY <1>2 DEF ConnOK
    <2>4. x = [k EXCEPT !.state = "kDisconnected", !.downs = 1,
                        !.channel = ch]
      <3>1. k.downs + 1 = 1
        BY <2>3
      <3> QED
        BY <1>2, <3>1 DEF connectDestroyed, ch
    <2>5. /\ x \in ConnType /\ x.loop = k.loop /\ x.ups = 1 /\ x.downs = 1
          /\ x.state = "kDisconnected" /\ x.channel = ch /\ x.app = k.app
      BY <2>2, <2>3, <2>4 DEF ConnType
    <2> HIDE DEF x
    <2>6. ConnOK(x)
      BY <2>2, <2>5 DEF ConnOK
    <2> QED
      BY <2>2, <2>3, <2>5, <2>6 DEF x
  <1>3. CASE k.state # "kConnected"
    <2> DEFINE ch == removeChannel(k.channel)
    <2>1. /\ ch \in ChannelType /\ Consistent(ch)
          /\ ~ch.interest.in /\ ~ch.mapped
      BY <1>1, Remove, Removed
    <2> HIDE DEF ch
    <2>2. x = [k EXCEPT !.channel = ch]
      BY <1>3 DEF connectDestroyed, ch
    <2>3. /\ x \in ConnType /\ x.loop = k.loop /\ x.ups = k.ups
          /\ x.downs = k.downs /\ x.state = k.state /\ x.channel = ch
          /\ x.app = k.app
      BY <2>1, <2>2 DEF ConnType
    <2> HIDE DEF x
    <2>4. ConnOK(x)
      BY <1>3, <2>1, <2>3 DEF ConnOK
    <2> QED
      BY <2>1, <2>3, <2>4 DEF x
  <1> QED
    BY <1>2, <1>3

ClosedWith(k, ch, x) ==
    x = [k EXCEPT !.state = "kDisconnected", !.channel = ch, !.downs = 1,
                  !.err = FALSE]

LEMMA ClosedType ==
    ASSUME NEW k \in ConnType, NEW ch \in ChannelType,
           NEW x, ClosedWith(k, ch, x)
    PROVE  /\ x \in ConnType
           /\ x.loop = k.loop /\ x.ups = k.ups /\ x.downs = 1
           /\ x.state = "kDisconnected" /\ x.channel = ch /\ x.app = k.app
  <1>1. x \in ConnType
    BY DEF ConnType, ClosedWith
  <1>2. /\ x.loop = k.loop /\ x.ups = k.ups /\ x.downs = 1
        /\ x.state = "kDisconnected" /\ x.channel = ch /\ x.app = k.app
    BY DEF ConnType, ClosedWith
  <1> QED
    BY <1>1, <1>2

Closed(k, x) == x = [handleClose(k) EXCEPT !.err = FALSE]

LEMMA ClosedOK ==
    ASSUME NEW k \in ConnType, ConnOK(k), k.channel.interest.in,
           NEW x, Closed(k, x)
    PROVE  /\ x \in ConnType
           /\ ConnOK(x)
           /\ x.loop = k.loop
           /\ x.ups = k.ups
           /\ x.app = k.app
           /\ x.state = "kDisconnected"
           /\ k.channel.mapped
  <1> DEFINE ch == disableAll(k.channel)
  <1>1. k.channel \in ChannelType /\ Consistent(k.channel)
    BY DEF ConnType, ConnOK
  <1>2. /\ ch \in ChannelType /\ Consistent(ch)
        /\ ~ch.interest.in /\ ch.mapped
    BY <1>1, Disable, DisableWatched
  <1>3. k.ups = 1 /\ k.downs = 0 /\ k.channel.mapped
    BY DEF ConnOK, Consistent
  <1> HIDE DEF ch
  <1>4. ClosedWith(k, ch, x)
    <2>1. k.downs + 1 = 1
      BY <1>3
    <2> QED
      BY <2>1 DEF Closed, ClosedWith, handleClose, ch, ConnType
  <1>5. /\ x \in ConnType
        /\ x.loop = k.loop /\ x.ups = k.ups /\ x.downs = 1
        /\ x.state = "kDisconnected" /\ x.channel = ch /\ x.app = k.app
    BY <1>2, <1>4, ClosedType
  <1>6. ConnOK(x)
    BY <1>2, <1>3, <1>5 DEF ConnOK
  <1> QED
    BY <1>3, <1>5, <1>6

(* x is k with its socket, its output or its events touched; the poller    *)
(* and epoll have the channel or not, as before.                           *)
Touched(k, x) ==
    /\ x \in ConnType /\ ConnOK(x)
    /\ x.loop = k.loop /\ x.ups = k.ups /\ x.app = k.app
    /\ x.channel.mapped = k.channel.mapped
    /\ x.channel.interest.in = k.channel.interest.in
    /\ x.state = k.state

LEMMA TouchedItself ==
    ASSUME NEW k \in ConnType, ConnOK(k)
    PROVE  Touched(k, k)
  BY DEF Touched

LEMMA TouchedSocket ==
    ASSUME NEW k \in ConnType, ConnOK(k), NEW p \in {"open", "closed", "reset"},
           NEW e \in BOOLEAN, NEW w \in BOOLEAN,
           NEW x, x = [k EXCEPT !.peer = p, !.err = e, !.shutWr = w]
    PROVE  Touched(k, x)
  <1>1. /\ x \in ConnType /\ x.loop = k.loop /\ x.ups = k.ups
        /\ x.downs = k.downs /\ x.state = k.state /\ x.channel = k.channel
        /\ x.app = k.app
    BY DEF ConnType
  <1>2. ConnOK(x)
    BY <1>1 DEF ConnOK
  <1> QED
    BY <1>1, <1>2 DEF Touched

(* The pending error is cleared. *)
LEMMA TouchedError ==
    ASSUME NEW k \in ConnType, ConnOK(k), NEW y, Touched(k, y),
           NEW x, x = [y EXCEPT !.err = FALSE]
    PROVE  Touched(k, x)
  <1>1. /\ y \in ConnType /\ ConnOK(y) /\ y.peer \in {"open", "closed", "reset"}
        /\ y.shutWr \in BOOLEAN
    BY DEF Touched, ConnType
  <1>2. x = [y EXCEPT !.peer = y.peer, !.err = FALSE, !.shutWr = y.shutWr]
    BY <1>1 DEF ConnType
  <1>3. Touched(y, x)
    BY <1>1, <1>2, TouchedSocket
  <1> QED
    BY <1>3 DEF Touched

LEMMA TouchedOutput ==
    ASSUME NEW k \in ConnType, ConnOK(k), NEW o \in BOOLEAN,
           NEW ch \in ChannelType, Consistent(ch), ch.index = "kAdded",
           k.channel.interest.in,
           NEW x, x = [k EXCEPT !.out = o, !.channel = ch]
    PROVE  Touched(k, x)
  <1>1. ch.interest.in /\ ch.mapped /\ k.channel.mapped
    BY DEF Consistent, ConnOK
  <1>2. /\ x \in ConnType /\ x.loop = k.loop /\ x.ups = k.ups
        /\ x.downs = k.downs /\ x.state = k.state /\ x.channel = ch
        /\ x.app = k.app
    BY DEF ConnType
  <1>3. k.channel.interest.in \in BOOLEAN /\ ch.interest.in \in BOOLEAN
        /\ k.channel.mapped \in BOOLEAN /\ ch.mapped \in BOOLEAN
    BY DEF ConnType, ChannelType
  <1>4. ConnOK(x)
    BY <1>1, <1>2 DEF ConnOK
  <1> QED
    BY <1>1, <1>2, <1>3, <1>4 DEF Touched

LEMMA ShutdownTouches ==
    ASSUME NEW k \in ConnType, ConnOK(k)
    PROVE  Touched(k, shutdownInLoop(k))
  <1>1. CASE isWriting(k.channel)
    BY <1>1, TouchedItself DEF shutdownInLoop
  <1>2. CASE ~isWriting(k.channel)
    <2>1. PICK x : x = [k EXCEPT !.shutWr = TRUE]
      OBVIOUS
    <2>2. /\ x = [k EXCEPT !.peer = k.peer, !.err = k.err, !.shutWr = TRUE]
          /\ k.peer \in {"open", "closed", "reset"} /\ k.err \in BOOLEAN
      BY <2>1 DEF ConnType
    <2>3. Touched(k, x)
      BY <2>2, TouchedSocket
    <2> QED
      BY <1>2, <2>1, <2>3 DEF shutdownInLoop
  <1> QED
    BY <1>1, <1>2

(* sendInLoop on a connection that is down, or that epoll watches. *)
LEMMA SendTouches ==
    ASSUME NEW k \in ConnType, ConnOK(k),
           k.state = "kDisconnected" \/ k.channel.interest.in,
           NEW x \in sendInLoop(k)
    PROVE  Touched(k, x)
  <1>1. k.channel \in ChannelType /\ Consistent(k.channel)
    BY DEF ConnType, ConnOK
  <1>2. CASE x = k
    BY <1>2, TouchedItself
  <1>3. CASE x = [k EXCEPT !.err = FALSE]
    BY <1>3, TouchedItself, TouchedError
  <1>4. CASE x = KeepRest(k) /\ k.state # "kDisconnected"
    <2>1. PICK ch : ch = IF isWriting(k.channel) THEN k.channel
                                                 ELSE enableWriting(k.channel)
      OBVIOUS
    <2>2. k.channel.interest.in
      BY <1>4
    <2>3. ch \in ChannelType /\ Consistent(ch) /\ ch.index = "kAdded"
      BY <1>1, <2>1, <2>2, EnableWriting DEF Consistent
    <2>4. x = [k EXCEPT !.out = TRUE, !.channel = ch]
      BY <1>4, <2>1 DEF KeepRest
    <2> QED
      BY <2>2, <2>3, <2>4, TouchedOutput
  <1> QED
    BY <1>2, <1>3, <1>4 DEF sendInLoop

LEMMA WriteTouches ==
    ASSUME NEW k \in ConnType, ConnOK(k), k.channel.interest.in,
           NEW x \in handleWrite(k)
    PROVE  Touched(k, x)
  <1>1. k.channel \in ChannelType /\ Consistent(k.channel)
    BY DEF ConnType, ConnOK
  <1>2. CASE x = k
    BY <1>2, TouchedItself
  <1>3. CASE x = Drained(k) /\ isWriting(k.channel)
    <2>1. PICK ch : ch = disableWriting(k.channel)
      OBVIOUS
    <2>2. PICK w : w = [k EXCEPT !.out = FALSE, !.channel = ch]
      OBVIOUS
    <2>3. ch \in ChannelType /\ Consistent(ch) /\ ch.index = "kAdded"
      BY <1>1, <1>3, <2>1, DisableWriting
    <2>4. Touched(k, w)
      BY <2>2, <2>3, TouchedOutput
    <2>5. w \in ConnType /\ ConnOK(w)
      BY <2>4 DEF Touched
    <2>6. Touched(w, shutdownInLoop(w))
      BY <2>5, ShutdownTouches
    <2>7. x \in {w, shutdownInLoop(w)}
      BY <1>3, <2>1, <2>2 DEF Drained
    <2> QED
      BY <2>4, <2>6, <2>7 DEF Touched
  <1> QED
    BY <1>2, <1>3 DEF handleWrite

-----------------------------------------------------------------------------
(* One queue.                                                              *)

LEMMA AppendElems ==
    ASSUME NEW q \in Seq(Functors), NEW f \in Functors
    PROVE  /\ Append(q, f) \in Seq(Functors)
           /\ Elems(Append(q, f)) = Elems(q) \cup {f}
  <1> DEFINE a == Append(q, f)
  <1>1. /\ a \in Seq(Functors) /\ Len(q) \in Nat /\ DOMAIN q = 1..Len(q)
        /\ DOMAIN a = 1..(Len(q) + 1)
        /\ \A i \in 1..Len(q) : a[i] = q[i]
        /\ a[Len(q) + 1] = f
    BY AppendProperties
  <1> HIDE DEF a
  <1>2. 1..(Len(q) + 1) = 1..Len(q) \cup {Len(q) + 1}
    BY <1>1
  <1>3. Elems(a) = Elems(q) \cup {f}
    BY <1>1, <1>2 DEF Elems
  <1> QED
    BY <1>1, <1>3 DEF a

LEMMA TailElems ==
    ASSUME NEW q \in Seq(Functors), q # <<>>
    PROVE  /\ Tail(q) \in Seq(Functors)
           /\ Head(q) \in Functors /\ Head(q) \in Elems(q)
           /\ Elems(Tail(q)) \subseteq Elems(q)
           /\ Elems(q) \subseteq Elems(Tail(q)) \cup {Head(q)}
  <1>1. /\ Len(q) \in Nat /\ Len(q) >= 1 /\ DOMAIN q = 1..Len(q)
        /\ Tail(q) \in Seq(Functors) /\ Len(Tail(q)) = Len(q) - 1
        /\ DOMAIN Tail(q) = 1..(Len(q) - 1)
        /\ \A i \in 1..(Len(q) - 1) : Tail(q)[i] = q[i + 1]
        /\ Head(q) = q[1] /\ Head(q) \in Functors
    BY HeadTailProperties, EmptySeq
  <1>2. Head(q) \in Elems(q)
    BY <1>1 DEF Elems
  <1>3. Elems(Tail(q)) \subseteq Elems(q)
    <2>1. ASSUME NEW i \in 1..(Len(q) - 1) PROVE Tail(q)[i] \in Elems(q)
      <3>1. i + 1 \in 1..Len(q) /\ Tail(q)[i] = q[i + 1]
        BY <1>1
      <3> QED
        BY <1>1, <3>1 DEF Elems
    <2> QED
      BY <1>1, <2>1 DEF Elems
  <1>4. Elems(q) \subseteq Elems(Tail(q)) \cup {Head(q)}
    <2>1. ASSUME NEW i \in 1..Len(q), i # 1 PROVE q[i] \in Elems(Tail(q))
      <3>1. i - 1 \in 1..(Len(q) - 1) /\ (i - 1) + 1 = i
        BY <1>1, <2>1
      <3>2. Tail(q)[i - 1] = q[i]
        BY <1>1, <3>1
      <3> QED
        BY <1>1, <3>1, <3>2 DEF Elems
    <2> QED
      BY <1>1, <2>1 DEF Elems
  <1> QED
    BY <1>1, <1>2, <1>3, <1>4

LEMMA AppendFirst ==
    ASSUME NEW q \in Seq(Functors), NEW f \in Functors, EstablishedFirst(q),
           \/ f.kind # "connectEstablished"
           \/ \A g \in Elems(q) : g.conn # f.conn
    PROVE  EstablishedFirst(Append(q, f))
  <1>1. /\ Len(q) \in Nat /\ Len(Append(q, f)) = Len(q) + 1
        /\ \A i \in 1..Len(q) : Append(q, f)[i] = q[i]
        /\ Append(q, f)[Len(q) + 1] = f
    BY AppendProperties
  <1> SUFFICES ASSUME NEW i \in 1..(Len(q) + 1), NEW j \in 1..(Len(q) + 1),
                      i < j, Append(q, f)[j].kind = "connectEstablished"
               PROVE  Append(q, f)[i].conn # Append(q, f)[j].conn
    BY <1>1 DEF EstablishedFirst
  <1>2. i \in 1..Len(q)
    BY <1>1
  <1>3. CASE j \in 1..Len(q)
    BY <1>1, <1>2, <1>3 DEF EstablishedFirst
  <1>4. CASE j = Len(q) + 1
    <2>1. q[i] \in Elems(q)
      BY <1>2 DEF Elems
    <2> QED
      BY <1>1, <1>2, <1>4, <2>1
  <1> QED
    BY <1>1, <1>3, <1>4

LEMMA TailFirst ==
    ASSUME NEW q \in Seq(Functors), q # <<>>, EstablishedFirst(q)
    PROVE  /\ EstablishedFirst(Tail(q))
           /\ \A f \in Elems(Tail(q)) :
                f.kind = "connectEstablished" => f.conn # Head(q).conn
  <1>1. /\ Len(q) \in Nat /\ Len(q) >= 1
        /\ Tail(q) \in Seq(Functors) /\ Len(Tail(q)) = Len(q) - 1
        /\ DOMAIN Tail(q) = 1..(Len(q) - 1)
        /\ \A i \in 1..(Len(q) - 1) : Tail(q)[i] = q[i + 1]
        /\ Head(q) = q[1]
    BY HeadTailProperties, EmptySeq
  <1>2. ASSUME NEW i \in 1..(Len(q) - 1), NEW j \in 1..(Len(q) - 1), i < j,
               Tail(q)[j].kind = "connectEstablished"
        PROVE  Tail(q)[i].conn # Tail(q)[j].conn
    <2>1. i + 1 \in 1..Len(q) /\ j + 1 \in 1..Len(q) /\ i + 1 < j + 1
      BY <1>1, <1>2
    <2> QED
      BY <1>1, <1>2, <2>1 DEF EstablishedFirst
  <1>3. ASSUME NEW i \in 1..(Len(q) - 1), Tail(q)[i].kind = "connectEstablished"
        PROVE  Tail(q)[i].conn # Head(q).conn
    <2>1. i + 1 \in 1..Len(q) /\ 1 \in 1..Len(q) /\ 1 < i + 1
      BY <1>1
    <2> QED
      BY <1>1, <1>3, <2>1 DEF EstablishedFirst
  <1> QED
    BY <1>1, <1>2, <1>3 DEF EstablishedFirst, Elems

LEMMA AppendOvertaken ==
    ASSUME NEW q \in Seq(Functors), NEW f \in Functors, NEW c,
           Overtaken(Append(q, f), c)
    PROVE  \/ Overtaken(q, c)
           \/ /\ f = Functor("sendInLoop", c)
              /\ Functor("connectDestroyed", c) \in Elems(q)
  <1>1. /\ Len(q) \in Nat /\ Len(Append(q, f)) = Len(q) + 1
        /\ DOMAIN q = 1..Len(q)
        /\ \A i \in 1..Len(q) : Append(q, f)[i] = q[i]
        /\ Append(q, f)[Len(q) + 1] = f
    BY AppendProperties
  <1>2. PICK i \in 1..(Len(q) + 1), j \in 1..(Len(q) + 1) :
            /\ i < j
            /\ Append(q, f)[i] = Functor("connectDestroyed", c)
            /\ Append(q, f)[j] = Functor("sendInLoop", c)
    BY <1>1 DEF Overtaken
  <1>3. i \in 1..Len(q) /\ q[i] = Functor("connectDestroyed", c)
    BY <1>1, <1>2
  <1>4. CASE j \in 1..Len(q)
    BY <1>1, <1>2, <1>3, <1>4 DEF Overtaken
  <1>5. CASE j = Len(q) + 1
    BY <1>1, <1>2, <1>3, <1>5 DEF Elems
  <1> QED
    BY <1>1, <1>4, <1>5

LEMMA TailOvertaken ==
    ASSUME NEW q \in Seq(Functors), q # <<>>, NEW c,
           \/ Overtaken(Tail(q), c)
           \/ /\ Head(q) = Functor("connectDestroyed", c)
              /\ Functor("sendInLoop", c) \in Elems(Tail(q))
    PROVE  Overtaken(q, c)
  <1>1. /\ Len(q) \in Nat /\ Len(q) >= 1
        /\ Tail(q) \in Seq(Functors) /\ Len(Tail(q)) = Len(q) - 1
        /\ DOMAIN Tail(q) = 1..(Len(q) - 1)
        /\ \A i \in 1..(Len(q) - 1) : Tail(q)[i] = q[i + 1]
        /\ Head(q) = q[1]
    BY HeadTailProperties, EmptySeq
  <1>2. CASE Overtaken(Tail(q), c)
    <2>1. PICK i \in 1..(Len(q) - 1), j \in 1..(Len(q) - 1) :
            /\ i < j
            /\ Tail(q)[i] = Functor("connectDestroyed", c)
            /\ Tail(q)[j] = Functor("sendInLoop", c)
      BY <1>1, <1>2 DEF Overtaken
    <2>2. i + 1 \in 1..Len(q) /\ j + 1 \in 1..Len(q) /\ i + 1 < j + 1
      BY <1>1, <2>1
    <2> QED
      BY <1>1, <2>1, <2>2 DEF Overtaken
  <1>3. CASE /\ Head(q) = Functor("connectDestroyed", c)
             /\ Functor("sendInLoop", c) \in Elems(Tail(q))
    <2>1. PICK j \in 1..(Len(q) - 1) : Tail(q)[j] = Functor("sendInLoop", c)
      BY <1>1, <1>3 DEF Elems
    <2>2. 1 \in 1..Len(q) /\ j + 1 \in 1..Len(q) /\ 1 < j + 1
      BY <1>1, <2>1
    <2> QED
      BY <1>1, <1>3, <2>1, <2>2 DEF Overtaken
  <1> QED
    BY <1>2, <1>3

(* What happens to the queues when a functor is added, or the first one    *)
(* taken.                                                                  *)
Adds(Q, R, m, f) == R = [Q EXCEPT ![m] = Append(@, f)]
Takes(Q, R, m) == Q[m] # <<>> /\ R = [Q EXCEPT ![m] = Tail(@)]

QueuesOK(Q) ==
    /\ Q \in [Loops -> Seq(Functors)]
    /\ \A l \in Loops : EstablishedFirst(Q[l])

MayAdd(Q, m, f) ==
    /\ m \in Loops /\ f \in Functors
    /\ \/ f.kind # "connectEstablished"
       \/ \A g \in Elems(Q[m]) : g.conn # f.conn

Added(Q, R, m, f) ==
    /\ \A c : Overtaken(R[m], c) =>
            \/ Overtaken(Q[m], c)
            \/ /\ f = Functor("sendInLoop", c)
               /\ Functor("connectDestroyed", c) \in Elems(Q[m])
    /\ f \in Elems(R[m])
    /\ \A g \in Elems(Q[m]) : g \in Elems(R[m])
    /\ \A g \in Elems(R[m]) : g \in Elems(Q[m]) \/ g = f
    /\ \A l \in Loops : l # m => R[l] = Q[l]

Taken(Q, R, m) ==
    /\ \A c : Overtaken(R[m], c) => Overtaken(Q[m], c)
    /\ \A c : /\ Head(Q[m]) = Functor("connectDestroyed", c)
              /\ Functor("sendInLoop", c) \in Elems(R[m])
              => Overtaken(Q[m], c)
    /\ Head(Q[m]) \in Functors /\ Head(Q[m]) \in Elems(Q[m])
    /\ \A g \in Elems(R[m]) : g \in Elems(Q[m])
    /\ \A g \in Elems(Q[m]) : g \in Elems(R[m]) \/ g = Head(Q[m])
    /\ \A g \in Elems(R[m]) :
            g.kind = "connectEstablished" => g.conn # Head(Q[m]).conn
    /\ \A l \in Loops : l # m => R[l] = Q[l]

LEMMA QueueAppend ==
    ASSUME NEW Q, NEW R, NEW m, NEW f,
           QueuesOK(Q), MayAdd(Q, m, f), Adds(Q, R, m, f)
    PROVE  QueuesOK(R) /\ Added(Q, R, m, f)
  <1>0. R = [Q EXCEPT ![m] = Append(@, f)]
    BY DEF Adds
  <1>1. /\ Q \in [Loops -> Seq(Functors)]
        /\ \A l \in Loops : EstablishedFirst(Q[l])
        /\ m \in Loops /\ f \in Functors
    BY DEF QueuesOK, MayAdd
  <1>2. /\ \A l \in Loops : l # m => R[l] = Q[l]
        /\ R[m] = Append(Q[m], f)
    BY <1>0, <1>1
  <1>3. /\ Append(Q[m], f) \in Seq(Functors)
        /\ Elems(Append(Q[m], f)) = Elems(Q[m]) \cup {f}
    BY <1>1, AppendElems
  <1>4. EstablishedFirst(Append(Q[m], f))
    BY <1>1, AppendFirst DEF MayAdd
  <1>5. R \in [Loops -> Seq(Functors)]
    BY <1>0, <1>1, <1>3
  <1>6. \A c : Overtaken(R[m], c) =>
            \/ Overtaken(Q[m], c)
            \/ /\ f = Functor("sendInLoop", c)
               /\ Functor("connectDestroyed", c) \in Elems(Q[m])
    BY <1>1, <1>2, AppendOvertaken
  <1> QED
    BY <1>1, <1>2, <1>3, <1>4, <1>5, <1>6 DEF QueuesOK, Added

LEMMA QueuePop ==
    ASSUME NEW Q, NEW R, NEW m \in Loops, QueuesOK(Q), Takes(Q, R, m)
    PROVE  QueuesOK(R) /\ Taken(Q, R, m)
  <1>0. R = [Q EXCEPT ![m] = Tail(@)] /\ Q[m] # <<>>
    BY DEF Takes
  <1>1. /\ Q \in [Loops -> Seq(Functors)]
        /\ \A l \in Loops : EstablishedFirst(Q[l])
        /\ Q[m] \in Seq(Functors)
    BY DEF QueuesOK
  <1>2. /\ \A l \in Loops : l # m => R[l] = Q[l]
        /\ R[m] = Tail(Q[m])
    BY <1>0, <1>1
  <1>3. /\ Tail(Q[m]) \in Seq(Functors)
        /\ Head(Q[m]) \in Functors /\ Head(Q[m]) \in Elems(Q[m])
        /\ Elems(Tail(Q[m])) \subseteq Elems(Q[m])
        /\ Elems(Q[m]) \subseteq Elems(Tail(Q[m])) \cup {Head(Q[m])}
    BY <1>0, <1>1, TailElems
  <1>4. /\ EstablishedFirst(Tail(Q[m]))
        /\ \A g \in Elems(Tail(Q[m])) :
                g.kind = "connectEstablished" => g.conn # Head(Q[m]).conn
    BY <1>0, <1>1, TailFirst
  <1>5. R \in [Loops -> Seq(Functors)]
    BY <1>0, <1>1, <1>3
  <1>6. /\ \A c : Overtaken(R[m], c) => Overtaken(Q[m], c)
        /\ \A c : /\ Head(Q[m]) = Functor("connectDestroyed", c)
                  /\ Functor("sendInLoop", c) \in Elems(R[m])
                  => Overtaken(Q[m], c)
    BY <1>0, <1>1, <1>2, TailOvertaken
  <1> QED
    BY <1>1, <1>2, <1>3, <1>4, <1>5, <1>6 DEF QueuesOK, Taken

LEMMA AddedOrder ==
    ASSUME NEW Q, NEW R, NEW m, NEW f, Added(Q, R, m, f), f.kind # "sendInLoop"
    PROVE  \A l \in Loops : \A d : Overtaken(R[l], d) => Overtaken(Q[l], d)
  <1>1. \A d : Functor("sendInLoop", d).kind = "sendInLoop"
    BY DEF Functor
  <1> QED
    BY <1>1 DEF Added

(* The user's callback may be queued for c, and nothing else changes. *)
Grown(Q, R, c) ==
    \A l \in Loops :
        /\ \A g \in Elems(Q[l]) : g \in Elems(R[l])
        /\ \A g \in Elems(R[l]) :
                \/ g \in Elems(Q[l])
                \/ l = conn[c].loop /\ g = Functor("userCallback", c)
        /\ \A d : Overtaken(R[l], d) => Overtaken(Q[l], d)

LEMMA Notify ==
    ASSUME NEW Q, NEW R, NEW c \in Ids, conn[c].loop \in Loops, QueuesOK(Q),
           R \in Notified(Q, c)
    PROVE  QueuesOK(R) /\ Grown(Q, R, c)
  <1>1. CASE R = Q
    BY <1>1 DEF Grown
  <1>2. CASE R # Q
    <2>1. PICK f : f = Functor("userCallback", c)
      OBVIOUS
    <2>2. /\ f \in Functors /\ f.kind = "userCallback"
          /\ \A d : f # Functor("sendInLoop", d)
      BY <2>1 DEF Functor, Functors, Owning
    <2>3. Adds(Q, R, conn[c].loop, f)
      BY <1>2, <2>1 DEF Notified, Adds
    <2>4. MayAdd(Q, conn[c].loop, f)
      BY <2>2 DEF MayAdd
    <2>5. QueuesOK(R) /\ Added(Q, R, conn[c].loop, f)
      BY <2>3, <2>4, QueueAppend
    <2>6. Grown(Q, R, c)
      BY <2>1, <2>2, <2>5 DEF Added, Grown
    <2> QED
      BY <2>5, <2>6
  <1> QED
    BY <1>1, <1>2

-----------------------------------------------------------------------------
(* The types, ready for use.                                               *)
LEMMA Facts ==
    ASSUME IInv
    PROVE  /\ Len(conn) \in Nat /\ DOMAIN conn = 1..Len(conn)
           /\ DOMAIN conn \subseteq Ids
           /\ \A c \in DOMAIN conn : /\ conn[c] \in ConnType
                                     /\ conn[c].loop \in Loops
                                     /\ ConnOK(conn[c])
           /\ queue \in [Loops -> Seq(Functors)]
           /\ \A l \in Loops : EstablishedFirst(queue[l])
           /\ QueuesOK(queue)
           /\ BaseLoop \in Loops
           /\ MaxClients \in Nat
           /\ \A c \in DOMAIN conn : SendOK(c)
  <1>1. conn \in Seq(ConnType) /\ Len(conn) <= MaxClients /\ MaxClients \in Nat
    BY TcpServerAssumptions DEF TcpServerAssumptions, IInv, TypeOK
  <1>2. \A c \in DOMAIN conn : conn[c] \in ConnType
    BY <1>1
  <1>3. \A k \in ConnType : k.loop \in Loops
    BY DEF ConnType
  <1>4. Len(conn) \in Nat /\ DOMAIN conn = 1..Len(conn)
    BY <1>1
  <1>5. DOMAIN conn \subseteq Ids
    BY <1>1, <1>4 DEF Ids
  <1> QED
    BY <1>1, <1>2, <1>3, <1>4, <1>5
       DEF IInv, TypeOK, ConnInv, OrderInv, SendInv, Loops, QueuesOK

LEMMA FunctorType ==
    ASSUME NEW c \in Ids, NEW k \in Owning \cup Bare
    PROVE  /\ Functor(k, c) \in Functors
           /\ Functor(k, c).kind = k /\ Functor(k, c).conn = c
  BY DEF Functor, Functors

(* A connection changes. *)
LEMMA ConnStep ==
    ASSUME IInv, NEW c \in DOMAIN conn, NEW x \in ConnType, ConnOK(x),
           conn' = [conn EXCEPT ![c] = x], x.loop = conn[c].loop
    PROVE  /\ conn' \in Seq(ConnType) /\ Len(conn') = Len(conn)
           /\ DOMAIN conn' = DOMAIN conn
           /\ conn'[c] = x
           /\ \A d \in DOMAIN conn : d # c => conn'[d] = conn[d]
           /\ \A d \in DOMAIN conn : conn'[d].loop = conn[d].loop
           /\ ConnInv'
           /\ c # acceptChannel
  <1>1. conn \in Seq(ConnType) /\ c \in 1..Len(conn) /\ Len(conn) \in Nat
    BY Facts DEF IInv, TypeOK
  <1>2. /\ conn' \in Seq(ConnType) /\ Len(conn') = Len(conn)
        /\ \A d \in 1..Len(conn) : conn'[d] = IF d = c THEN x ELSE conn[d]
    BY <1>1, ExceptSeq
  <1>3. DOMAIN conn' = 1..Len(conn) /\ DOMAIN conn = 1..Len(conn)
    BY <1>1, <1>2
  <1>4. ConnInv'
    BY <1>2, <1>3, Facts DEF ConnInv
  <1> QED
    BY <1>1, <1>2, <1>3, <1>4 DEF acceptChannel

-----------------------------------------------------------------------------
LEMMA MembershipFcn ==
    ASSUME NEW S, NEW T
    PROVE  [l \in S |-> l \in T] \in [S -> BOOLEAN]
  <1>1. \A l \in S : (l \in T) \in BOOLEAN
    OBVIOUS
  <1> QED
    BY <1>1, Zenon

(* The server's stages: no connection and no queue changes. *)
LEMMA StageSteps ==
    ASSUME IInv,
           \/ Start \/ EnterLoop \/ LeaveLoop \/ BeginDestruction \/ DestroyPool
           \/ DestroyAcceptor \/ ClientConnects \/ UNCHANGED vars
    PROVE  IInv'
  <1> USE DEF serverVars, eventVars, loopVars, clientVars, vars
  <1>1. /\ UNCHANGED <<setup, nextConnId, next, connections, conn, queue,
                       active, revents, calls>>
    BY DEF Start, EnterLoop, LeaveLoop, BeginDestruction, DestroyPool,
           DestroyAcceptor, ClientConnects
  <1>2. /\ running' \in [Loops -> BOOLEAN] /\ server' \in Stages
        /\ listenning' \in BOOLEAN
    <2> USE DEF IInv, TypeOK, Stages
    <2>1. CASE Start
      <3>1. server' = "started" /\ listenning' = TRUE
        BY <2>1 DEF Start, listen
      <3>2. running' = [l \in Loops |-> l \in IoLoops \ {BaseLoop}]
        BY <2>1 DEF Start
      <3>3. running' \in [Loops -> BOOLEAN]
        BY <3>2, MembershipFcn
      <3> QED
        BY <3>1, <3>3
    <2>2. CASE EnterLoop \/ LeaveLoop
      BY <2>2 DEF EnterLoop, LeaveLoop
    <2>3. CASE BeginDestruction \/ DestroyPool \/ DestroyAcceptor
      BY <2>3 DEF BeginDestruction, DestroyPool, DestroyAcceptor
    <2>4. CASE ClientConnects \/ UNCHANGED vars
      BY <2>4 DEF ClientConnects
    <2> QED
      BY <2>1, <2>2, <2>3, <2>4
  <1>3. /\ clients' \in 0..MaxClients /\ backlog' \in 0..clients'
        /\ \/ clients' = clients /\ backlog' = backlog
           \/ clients' = clients + 1 /\ backlog' = backlog + 1
        /\ backlog' >= backlog
    BY TcpServerAssumptions
       DEF TcpServerAssumptions, Start, EnterLoop, LeaveLoop, BeginDestruction,
           DestroyPool, DestroyAcceptor, ClientConnects, IInv, TypeOK
  <1>4. TypeOK'
    BY <1>1, <1>2, <1>3 DEF IInv, TypeOK, IoLoops, numThreads
  <1>5. AcceptInv'
    <2>1. /\ Len(conn) \in Int /\ backlog \in Int /\ clients \in Int
          /\ backlog' \in Int /\ clients' \in Int
      BY <1>3, Facts, TcpServerAssumptions
         DEF TcpServerAssumptions, IInv, TypeOK
    <2>2. Len(conn) + backlog = clients /\ Len(conn') = Len(conn)
      BY <1>1 DEF IInv, AcceptInv
    <2>3. Len(conn') + backlog' = clients'
      BY <1>3, <2>1, <2>2
    <2> QED
      BY <2>3 DEF AcceptInv
  <1>6. ConnInv' /\ FunctorInv' /\ OrderInv'
    BY <1>1 DEF IInv, ConnInv, FunctorInv, OrderInv
  <1>7. ActiveInv'
    BY <1>1, <1>3 DEF IInv, TypeOK, ActiveInv
  <1>8. StageInv'
    <2>1. CASE Start
      BY <2>1 DEF Start, IInv, StageInv, Loops, Stages
    <2>2. CASE EnterLoop
      BY <2>2 DEF EnterLoop, IInv, TypeOK, StageInv, Loops
    <2>3. CASE LeaveLoop
      BY <2>3 DEF LeaveLoop, IInv, TypeOK, StageInv, Loops
    <2>4. CASE BeginDestruction \/ DestroyPool \/ DestroyAcceptor
                \/ ClientConnects \/ UNCHANGED vars
      BY <2>4 DEF BeginDestruction, DestroyPool, DestroyAcceptor,
                  ClientConnects, IInv, StageInv
    <2> QED
      BY <2>1, <2>2, <2>3, <2>4
  <1>9. LinkInv'
    <2>1. CASE conn = <<>>
      BY <1>1, <2>1 DEF LinkInv
    <2>2. CASE conn # <<>>
      <3>1. ~Start /\ ~EnterLoop
        BY <2>2 DEF IInv, StageInv, Start, EnterLoop
      <3>2. \A l \in Loops : running'[l] => running[l]
        BY <3>1 DEF LeaveLoop, BeginDestruction, DestroyPool, DestroyAcceptor,
                    ClientConnects, IInv, TypeOK
      <3> QED
        BY <1>1, <3>2, Facts DEF IInv, LinkInv, Linked
    <2> QED
      BY <2>1, <2>2
  <1>10. SendInv'
    <2> SUFFICES ASSUME NEW c \in DOMAIN conn PROVE SendOK(c)'
      BY <1>1 DEF SendInv
    <2>1. SendOK(c) /\ conn[c].loop \in Loops
      BY Facts
    <2>2. conn # <<>>
      OBVIOUS
    <2>3. ~Start /\ ~EnterLoop
      BY <2>2 DEF IInv, StageInv, Start, EnterLoop
    <2>4. running'[conn[c].loop] => running[conn[c].loop]
      BY <2>1, <2>3 DEF LeaveLoop, BeginDestruction, DestroyPool,
                        DestroyAcceptor, ClientConnects, IInv, TypeOK
    <2>5. Ending => Ending'
      BY <2>3 DEF Ending, LeaveLoop, BeginDestruction, DestroyPool,
                  DestroyAcceptor, ClientConnects
    <2>6. Ending' => Ending \/ conn[c].app \in {"none", "held"}
      BY <2>3 DEF Ending, LeaveLoop, BeginDestruction, DestroyPool,
                  DestroyAcceptor, ClientConnects
    <2> QED
      BY <1>1, <2>1, <2>4, <2>5, <2>6 DEF SendOK, NoSend, Sendable
  <1> QED
    BY <1>4, <1>5, <1>6, <1>7, <1>8, <1>9, <1>10 DEF IInv

LEMMA PollStep ==
    ASSUME IInv, NEW l \in Loops, Poll(l)
    PROVE  IInv'
  <1>0. PICK room \in SUBSET Writers(l) :
            /\ active' = [active EXCEPT ![l] = Ready(l, room)]
            /\ revents' = [c \in Ids |-> IF c \in Ready(l, room)
                                         THEN Reported(c, c \in room)
                                         ELSE revents[c]]
    BY DEF Poll
  <1>1. /\ UNCHANGED <<setup, server, listenning, nextConnId, next,
                       connections, conn, queue, running, clients, backlog,
                       calls>>
        /\ running[l]
    BY DEF Poll, serverVars, clientVars, LoopFree
  <1>2. Ready(l, room) \in SUBSET (Ids \cup {acceptChannel})
    BY Facts DEF Ready
  <1>3. revents' \in [Ids -> SUBSET Events]
    <2>1. \A c, b : Reported(c, b) \in SUBSET Events
      BY DEF Reported
    <2> QED
      BY <1>0, <2>1 DEF IInv, TypeOK
  <1>4. TypeOK'
    BY <1>0, <1>1, <1>2, <1>3 DEF IInv, TypeOK, IoLoops, numThreads
  <1>5. StageInv' /\ AcceptInv'
    BY <1>0, <1>1 DEF IInv, TypeOK, StageInv, AcceptInv
  <1>6. ConnInv' /\ FunctorInv' /\ OrderInv' /\ LinkInv' /\ SendInv'
    BY <1>1 DEF IInv, ConnInv, FunctorInv, OrderInv, LinkInv, Linked, SendInv,
                SendOK, NoSend, Sendable, Ending
  <1>7. ActiveInv'
    <2>1. ASSUME NEW c \in Ready(l, room)
          PROVE  IF c = acceptChannel
                 THEN l = BaseLoop => backlog > 0
                 ELSE /\ c \in DOMAIN conn
                      /\ conn[c].loop = l
                      /\ conn[c].channel.interest.in
      <3>1. acceptChannel \notin DOMAIN conn
        BY Facts DEF Ids, acceptChannel
      <3> QED
        BY <3>1 DEF Ready, Reported
    <2> QED
      BY <1>0, <1>1, <2>1 DEF IInv, TypeOK, ActiveInv
  <1> QED
    BY <1>4, <1>5, <1>6, <1>7 DEF IInv

LEMMA IoLoopEndsStep ==
    ASSUME IInv, NEW l \in Loops, IoLoopEnds(l)
    PROVE  IInv'
  <1>1. /\ running' = [running EXCEPT ![l] = FALSE]
        /\ queue' = [queue EXCEPT ![l] = <<>>]
        /\ UNCHANGED <<setup, server, listenning, nextConnId, next,
                       connections, conn, active, revents, clients, backlog,
                       calls>>
        /\ active[l] = {} /\ server = "joining"
    BY DEF IoLoopEnds, serverVars, eventVars, clientVars, LoopFree
  <1>2. queue' \in [Loops -> Seq(Functors)]
    BY <1>1, Facts
  <1>3. TypeOK'
    BY <1>1, <1>2 DEF IInv, TypeOK, IoLoops, numThreads
  <1>4. StageInv' /\ AcceptInv' /\ ConnInv' /\ ActiveInv'
    BY <1>1 DEF IInv, TypeOK, StageInv, AcceptInv, ConnInv, ActiveInv
  <1>5. \A m \in Loops : /\ m # l => queue'[m] = queue[m]
                         /\ queue'[l] = <<>>
    BY <1>1, Facts
  <1>6. FunctorInv' /\ OrderInv'
    BY <1>1, <1>5 DEF IInv, FunctorInv, OrderInv, Elems, EstablishedFirst
  <1>7. LinkInv'
    <2>1. ASSUME NEW c \in DOMAIN conn PROVE Linked(c)'
      <3>1. CASE conn[c].loop = l
        BY <1>1, <3>1 DEF Linked, IInv, TypeOK
      <3>2. CASE conn[c].loop # l
        <4>1. conn[c].loop \in Loops /\ Linked(c)
          BY Facts DEF IInv, LinkInv
        <4> QED
          BY <1>1, <1>5, <3>2, <4>1 DEF Linked, IInv, TypeOK
      <3> QED
        BY <3>1, <3>2
    <2> QED
      BY <1>1, <2>1 DEF LinkInv
  <1>8. SendInv'
    <2> SUFFICES ASSUME NEW c \in DOMAIN conn PROVE SendOK(c)'
      BY <1>1 DEF SendInv
    <2>1. SendOK(c) /\ conn[c].loop \in Loops
      BY Facts
    <2>2. /\ running'[conn[c].loop] => running[conn[c].loop]
          /\ \A m \in Loops : Elems(queue'[m]) \subseteq Elems(queue[m])
      BY <1>1, <1>5, <2>1 DEF IInv, TypeOK, Elems
    <2>3. Overtaken(queue'[conn[c].loop], c)
            => Overtaken(queue[conn[c].loop], c)
      <3>1. ~Overtaken(<<>>, c)
        BY DEF Overtaken
      <3> QED
        BY <1>5, <2>1, <3>1
    <2> QED
      BY <1>1, <2>1, <2>2, <2>3 DEF SendOK, NoSend, Sendable, Ending
  <1> QED
    BY <1>3, <1>4, <1>6, <1>7, <1>8 DEF IInv

-----------------------------------------------------------------------------
(* What most steps share.                                                  *)

(* The server stays where it is and no connection is made. *)
LEMMA Frame ==
    ASSUME IInv,
           UNCHANGED <<setup, server, listenning, nextConnId, next,
                       running, clients, backlog>>,
           calls' \in 0..setup.calls, revents' \in [Ids -> SUBSET Events],
           conn' \in Seq(ConnType), Len(conn') = Len(conn),
           queue' \in [Loops -> Seq(Functors)],
           connections' \subseteq connections,
           active' \in [Loops -> SUBSET (Ids \cup {acceptChannel})],
           \A l \in Loops : active'[l] \subseteq active[l]
    PROVE  TypeOK' /\ StageInv' /\ AcceptInv'
  <1>1. DOMAIN conn' = DOMAIN conn
    BY Facts
  <1>2. TypeOK'
    BY <1>1 DEF IInv, TypeOK, IoLoops, numThreads
  <1>3. conn = <<>> => conn' = <<>>
    <2> SUFFICES ASSUME conn = <<>> PROVE conn' = <<>>
      OBVIOUS
    <2>1. Len(conn') = 0
      OBVIOUS
    <2> QED
      BY <2>1, EmptySeq
  <1>4. StageInv'
    BY <1>3 DEF IInv, TypeOK, StageInv
  <1> QED
    BY <1>2, <1>4 DEF IInv, AcceptInv

LEMMA ActiveKeep ==
    ASSUME IInv, NEW c \in DOMAIN conn, NEW x \in ConnType, ConnOK(x),
           conn' = [conn EXCEPT ![c] = x], x.loop = conn[c].loop,
           \A l \in Loops : active'[l] \subseteq active[l],
           backlog' = backlog,
           \A l \in Loops : c \in active'[l] => x.channel.interest.in
    PROVE  ActiveInv'
  <1> SUFFICES ASSUME NEW l \in Loops, NEW d \in active'[l]
               PROVE  IF d = acceptChannel
                      THEN l = BaseLoop => backlog' > 0
                      ELSE /\ d \in DOMAIN conn'
                           /\ conn'[d].loop = l
                           /\ conn'[d].channel.interest.in
    BY DEF ActiveInv
  <1>1. d \in active[l]
    OBVIOUS
  <1>2. IF d = acceptChannel
        THEN l = BaseLoop => backlog > 0
        ELSE /\ d \in DOMAIN conn
             /\ conn[d].loop = l
             /\ conn[d].channel.interest.in
    BY <1>1 DEF IInv, ActiveInv
  <1>3. CASE d = acceptChannel
    BY <1>2, <1>3
  <1>4. CASE d # acceptChannel /\ d # c
    BY <1>2, <1>4, ConnStep
  <1>5. CASE d # acceptChannel /\ d = c
    BY <1>2, <1>5, ConnStep
  <1> QED
    BY <1>3, <1>4, <1>5

(* The functors of a changed connection are still in order, and so are the *)
(* new ones.                                                               *)
LEMMA FunctorKeep ==
    ASSUME IInv, NEW c \in DOMAIN conn, NEW x \in ConnType, ConnOK(x),
           conn' = [conn EXCEPT ![c] = x], x.loop = conn[c].loop,
           \A l \in Loops : \A f \in Elems(queue'[l]) :
                f \in Elems(queue[l]) \/ FunctorOK(f, l, conn'),
           \A l \in Loops : \A f \in Elems(queue'[l]) :
                f \in Elems(queue[l]) /\ f.conn = c =>
                    /\ f.kind = "connectEstablished" => x.ups = 0
                    /\ f.kind \in Bare /\ AppKeepsPtr => x.app # "none"
    PROVE  FunctorInv'
  <1> SUFFICES ASSUME NEW l \in Loops, NEW f \in Elems(queue'[l]),
                      f \in Elems(queue[l])
               PROVE  FunctorOK(f, l, conn')
    BY DEF FunctorInv
  <1>1. FunctorOK(f, l, conn) /\ f.conn \in DOMAIN conn
    BY Facts DEF IInv, FunctorInv, FunctorOK
  <1>2. CASE f.conn = c
    BY <1>1, <1>2, ConnStep DEF FunctorOK
  <1>3. CASE f.conn # c
    BY <1>1, <1>3, ConnStep DEF FunctorOK
  <1> QED
    BY <1>2, <1>3

(* A connection that is left alone stays linked. *)
LEMMA LinkKeep ==
    ASSUME IInv, NEW d \in DOMAIN conn, running' = running,
           conn'[d].loop = conn[d].loop,
           conn'[d].channel.mapped => conn[d].channel.mapped,
           d \in connections => d \in connections',
           \A k \in {"connectDestroyed", "connectEstablished"} :
                Functor(k, d) \in Elems(queue'[conn[d].loop])
                    <=> Functor(k, d) \in Elems(queue[conn[d].loop])
    PROVE  Linked(d)'
  <1>1. Linked(d)
    BY DEF IInv, LinkInv
  <1>2. /\ Functor("connectDestroyed", d) \in Elems(queue[conn[d].loop])
            => Functor("connectDestroyed", d) \in Elems(queue'[conn[d].loop])
        /\ Functor("connectEstablished", d) \in Elems(queue'[conn[d].loop])
            => Functor("connectEstablished", d) \in Elems(queue[conn[d].loop])
    OBVIOUS
  <1> QED
    BY <1>1, <1>2 DEF Linked

(* So is what is known of its senders. *)
LEMMA SendKeep ==
    ASSUME IInv, NEW d \in DOMAIN conn, UNCHANGED <<setup, server, running>>,
           conn'[d] = conn[d],
           \A l \in Loops : \A f \in Elems(queue'[l]) :
                f \in Elems(queue[l]) \/ f.conn # d,
           \A l \in Loops : Overtaken(queue'[l], d) => Overtaken(queue[l], d)
    PROVE  SendOK(d)'
  <1>1. SendOK(d) /\ conn[d].loop \in Loops
    BY Facts
  <1>2. \A l \in Loops, k \in Owning \cup Bare :
            Functor(k, d) \in Elems(queue'[l]) => Functor(k, d) \in Elems(queue[l])
    BY DEF Functor
  <1> QED
    BY <1>1, <1>2 DEF SendOK, NoSend, Sendable, Ending, Owning, Bare

-----------------------------------------------------------------------------
(* A step that is about one connection c and makes x of it, and what such  *)
(* a step must respect.                                                    *)
StepOn(c, x) ==
    /\ c \in DOMAIN conn /\ x \in ConnType /\ ConnOK(x)
    /\ conn' = [conn EXCEPT ![c] = x] /\ x.loop = conn[c].loop
    /\ UNCHANGED <<setup, server, listenning, nextConnId, next, running,
                   clients, backlog>>
    /\ calls' \in 0..setup.calls /\ revents' \in [Ids -> SUBSET Events]
    /\ QueuesOK(queue')
    /\ connections' \subseteq connections
    /\ \A d \in connections : d \in connections' \/ d = c
    /\ active' \in [Loops -> SUBSET (Ids \cup {acceptChannel})]
    /\ \A l \in Loops : active'[l] \subseteq active[l]
    /\ \A l \in Loops : c \in active'[l] => x.channel.interest.in
    /\ \A l \in Loops : \A f \in Elems(queue'[l]) :
            \/ f \in Elems(queue[l])
            \/ /\ f.conn = c /\ f.kind # "connectEstablished"
               /\ FunctorOK(f, l, conn')
    /\ \A l \in Loops : \A f \in Elems(queue'[l]) :
            f \in Elems(queue[l]) /\ f.conn = c =>
                /\ f.kind = "connectEstablished" => x.ups = 0
                /\ f.kind \in Bare /\ AppKeepsPtr => x.app # "none"
    /\ \A l \in Loops : \A f \in Elems(queue[l]) :
            f \in Elems(queue'[l]) \/ f.conn = c
    /\ \A l \in Loops, d \in DOMAIN conn :
            Overtaken(queue'[l], d) => Overtaken(queue[l], d) \/ d = c
    /\ Linked(c)'
    /\ SendOK(c)'

LEMMA OneConnection ==
    ASSUME IInv, NEW c, NEW x, StepOn(c, x)
    PROVE  IInv'
  <1> USE DEF StepOn
  <1>1. /\ conn' \in Seq(ConnType) /\ Len(conn') = Len(conn)
        /\ DOMAIN conn' = DOMAIN conn /\ ConnInv'
        /\ \A d \in DOMAIN conn : d # c => conn'[d] = conn[d]
        /\ \A d \in DOMAIN conn : conn'[d].loop = conn[d].loop
    BY ConnStep
  <1>2. queue' \in [Loops -> Seq(Functors)] /\ OrderInv'
    BY DEF QueuesOK, OrderInv
  <1>3. TypeOK' /\ StageInv' /\ AcceptInv'
    BY <1>1, <1>2, Frame
  <1>4. ActiveInv'
    BY ActiveKeep
  <1>5. FunctorInv'
    BY FunctorKeep
  <1>6. LinkInv'
    <2>1. ASSUME NEW d \in DOMAIN conn, d # c PROVE Linked(d)'
      <3>1. conn[d].loop \in Loops /\ d \in Ids
        BY Facts
      <3>2. ASSUME NEW kind \in {"connectDestroyed", "connectEstablished"}
            PROVE  Functor(kind, d) \in Elems(queue'[conn[d].loop])
                    <=> Functor(kind, d) \in Elems(queue[conn[d].loop])
        <4>1. Functor(kind, d).conn = d
          BY DEF Functor
        <4> QED
          BY <2>1, <3>1, <4>1
      <3>3. d \in connections => d \in connections'
        BY <2>1
      <3> QED
        BY <1>1, <2>1, <3>2, <3>3, LinkKeep
    <2> QED
      BY <1>1, <2>1 DEF LinkInv
  <1>7. SendInv'
    <2>1. ASSUME NEW d \in DOMAIN conn, d # c PROVE SendOK(d)'
      <3>1. /\ \A l \in Loops : \A f \in Elems(queue'[l]) :
                    f \in Elems(queue[l]) \/ f.conn # d
            /\ \A l \in Loops :
                    Overtaken(queue'[l], d) => Overtaken(queue[l], d)
        BY <2>1
      <3> QED
        BY <1>1, <2>1, <3>1, SendKeep
    <2> QED
      BY <1>1, <2>1 DEF SendInv
  <1> QED
    BY <1>1, <1>2, <1>3, <1>4, <1>5, <1>6, <1>7 DEF IInv

(* What is known of a connection. *)
LEMMA ConnFacts ==
    ASSUME IInv, NEW c \in DOMAIN conn
    PROVE  /\ conn[c] \in ConnType /\ ConnOK(conn[c])
           /\ conn = [conn EXCEPT ![c] = conn[c]]
           /\ \A l \in Loops : \A f \in Elems(queue[l]) :
                f.conn = c =>
                    /\ f.kind = "connectEstablished" => conn[c].ups = 0
                    /\ f.kind \in Bare /\ AppKeepsPtr => conn[c].app # "none"
           /\ \A l \in Loops :
                c \in active[l] =>
                    conn[c].loop = l /\ conn[c].channel.interest.in
  <1>1. conn[c] \in ConnType /\ ConnOK(conn[c]) /\ c # acceptChannel
    BY Facts DEF Ids, acceptChannel
  <1>2. conn = [conn EXCEPT ![c] = conn[c]]
    BY DEF IInv, TypeOK
  <1>3. \A l \in Loops : \A f \in Elems(queue[l]) :
            f.conn = c =>
                /\ f.kind = "connectEstablished" => conn[c].ups = 0
                /\ f.kind \in Bare /\ AppKeepsPtr => conn[c].app # "none"
    BY DEF IInv, FunctorInv, FunctorOK
  <1>4. \A l \in Loops :
            c \in active[l] => conn[c].loop = l /\ conn[c].channel.interest.in
    BY <1>1 DEF IInv, ActiveInv
  <1> QED
    BY <1>1, <1>2, <1>3, <1>4

LEMMA DestroyConnectionStep ==
    ASSUME IInv, NEW c \in DOMAIN conn, DestroyConnection(c)
    PROVE  IInv'
  <1> DEFINE k == conn[c]
             f0 == Functor("connectDestroyed", c)
  <1>1. /\ UNCHANGED <<setup, server, listenning, nextConnId, next,
                       active, revents, running, clients, backlog, calls>>
        /\ connections' = connections \ {c}
        /\ server = "destroying"
    BY DEF DestroyConnection, eventVars, clientVars
  <1>2. /\ k \in ConnType /\ ConnOK(k) /\ c \in Ids /\ k.loop \in Loops
        /\ QueuesOK(queue) /\ SendOK(c)
    BY Facts
  <1>3. /\ active' \in [Loops -> SUBSET (Ids \cup {acceptChannel})]
        /\ \A l \in Loops : active'[l] \subseteq active[l]
        /\ calls' \in 0..setup.calls /\ revents' \in [Ids -> SUBSET Events]
    BY <1>1 DEF IInv, TypeOK
  <1>4. CASE k.loop = BaseLoop
    <2> DEFINE x == connectDestroyed(k)
    <2>1. conn' = [conn EXCEPT ![c] = x] /\ queue' = queue
      BY <1>4 DEF DestroyConnection
    <2>2. /\ x \in ConnType /\ ConnOK(x) /\ x.loop = k.loop /\ x.ups = k.ups
          /\ x.app = k.app /\ x.state \in {k.state, "kDisconnected"}
      BY <1>2, DestroyedOK
    <2> HIDE DEF x
    <2>3. ~running[BaseLoop]
      BY DEF DestroyConnection, IInv, StageInv
    <2>4. \A l \in Loops : c \notin active'[l]
      BY <1>1, <1>2, <1>4, <2>3, ConnFacts DEF IInv, StageInv
    <2>5. conn'[c] = x
      BY <2>1, <2>2, ConnStep
    <2>6. Linked(c)'
      BY <1>1, <1>4, <2>1, <2>2, <2>3, <2>5 DEF Linked
    <2>7. SendOK(c)'
      BY <1>1, <1>2, <1>4, <2>1, <2>2, <2>3, <2>5
         DEF SendOK, NoSend, Sendable, Ending
    <2>8. \A l \in Loops : \A f \in Elems(queue[l]) :
            f.conn = c =>
                /\ f.kind = "connectEstablished" => x.ups = 0
                /\ f.kind \in Bare /\ AppKeepsPtr => x.app # "none"
      BY <2>2, ConnFacts
    <2>9. StepOn(c, x)
      BY <1>1, <1>2, <1>3, <2>1, <2>2, <2>4, <2>6, <2>7, <2>8 DEF StepOn
    <2> QED
      BY <2>9, OneConnection
  <1>5. CASE k.loop # BaseLoop
    <2>1. Adds(queue, queue', k.loop, f0) /\ conn' = conn
      BY <1>5 DEF DestroyConnection, Adds
    <2>2. f0 \in Functors /\ f0.kind = "connectDestroyed" /\ f0.conn = c
      BY <1>2, FunctorType DEF Owning
    <2>3. f0 = Functor("connectDestroyed", c)
      OBVIOUS
    <2> HIDE DEF f0
    <2>4. MayAdd(queue, k.loop, f0)
      BY <1>2, <2>2 DEF MayAdd
    <2>5. QueuesOK(queue') /\ Added(queue, queue', k.loop, f0)
      BY <1>2, <2>1, <2>4, QueueAppend
    <2>6. FunctorOK(f0, k.loop, conn')
      BY <2>1, <2>2, Facts DEF FunctorOK, Bare
    <2>7. Linked(c)'
      BY <2>1, <2>3, <2>5 DEF Linked, Added
    <2>8. \A l \in Loops : \A f \in Elems(queue'[l]) :
            f \in Elems(queue[l]) \/ (l = k.loop /\ f = f0)
      BY <2>5 DEF Added
    <2>9. \A l \in Loops : \A f \in Elems(queue[l]) : f \in Elems(queue'[l])
      BY <2>5 DEF Added
    <2>10. \A l \in Loops : \A d : Overtaken(queue'[l], d) => Overtaken(queue[l], d)
      BY <2>2, <2>5, AddedOrder
    <2>11. SendOK(c)'
      <3>1. ASSUME NEW l \in Loops,
                   NEW kind \in {"sendInLoop", "removeConnectionInLoop"},
                   Functor(kind, c) \in Elems(queue'[l])
            PROVE  Functor(kind, c) \in Elems(queue[l])
        <4>1. Functor(kind, c).kind = kind
          BY DEF Functor
        <4> QED
          BY <2>2, <2>8, <3>1, <4>1
      <3> QED
        BY <1>1, <1>2, <2>1, <2>10, <3>1 DEF SendOK, NoSend, Sendable, Ending
    <2>12. conn' = [conn EXCEPT ![c] = k]
      BY <2>1, ConnFacts
    <2>13. /\ \A l \in Loops : c \in active'[l] => k.channel.interest.in
           /\ \A l \in Loops : \A f \in Elems(queue[l]) :
                f.conn = c =>
                    /\ f.kind = "connectEstablished" => k.ups = 0
                    /\ f.kind \in Bare /\ AppKeepsPtr => k.app # "none"
      BY <1>1, ConnFacts
    <2>14. \A l \in Loops : \A f \in Elems(queue'[l]) :
            \/ f \in Elems(queue[l])
            \/ /\ f.conn = c /\ f.kind # "connectEstablished"
               /\ FunctorOK(f, l, conn')
      BY <2>2, <2>6, <2>8
    <2>15. StepOn(c, k)
      BY <1>1, <1>2, <1>3, <2>5, <2>7, <2>9, <2>10, <2>11, <2>12, <2>13, <2>14
         DEF StepOn
    <2> QED
      BY <2>15, OneConnection
  <1> QED
    BY <1>4, <1>5

(* The connection gives up its channel and goes to the base loop to be     *)
(* taken out of the map.                                                   *)
LEMMA ConnectionClosesStep ==
    ASSUME IInv, NEW l \in Loops, NEW c \in DOMAIN conn, ConnectionCloses(l, c)
    PROVE  IInv'
  <1> DEFINE k == conn[c]
             x == [handleClose(k) EXCEPT !.err = FALSE]
  <1>1. /\ UNCHANGED <<setup, server, listenning, nextConnId, next,
                       running, clients, backlog, calls>>
        /\ active' = [active EXCEPT ![l] = @ \ {c}]
        /\ revents' = [revents EXCEPT ![c] = {}]
        /\ conn' = [conn EXCEPT ![c] = x]
        /\ c \in active[l]
    BY DEF ConnectionCloses, Dispatch, clientVars
  <1>2. /\ k \in ConnType /\ ConnOK(k) /\ c \in Ids /\ k.loop \in Loops
        /\ QueuesOK(queue) /\ BaseLoop \in Loops /\ SendOK(c)
    BY Facts
  <1>3. k.loop = l /\ k.channel.interest.in
    BY <1>1, ConnFacts
  <1>4. /\ x \in ConnType /\ ConnOK(x) /\ x.loop = k.loop /\ x.ups = k.ups
        /\ x.app = k.app /\ x.state = "kDisconnected" /\ k.channel.mapped
    BY <1>2, <1>3, ClosedOK DEF Closed
  <1> HIDE DEF x
  <1>5. /\ active' \in [Loops -> SUBSET (Ids \cup {acceptChannel})]
        /\ \A m \in Loops : active'[m] \subseteq active[m]
        /\ c \notin active'[l]
        /\ calls' \in 0..setup.calls /\ revents' \in [Ids -> SUBSET Events]
    BY <1>1 DEF IInv, TypeOK
  <1>6. \A m \in Loops : c \notin active'[m]
    BY <1>3, <1>5, ConnFacts
  <1>7. \A m \in Loops : \A f \in Elems(queue[m]) :
          f.conn = c =>
              /\ f.kind = "connectEstablished" => x.ups = 0
              /\ f.kind \in Bare /\ AppKeepsPtr => x.app # "none"
    BY <1>4, ConnFacts
  <1>8. conn'[c] = x /\ Len(conn') = Len(conn) /\ c \in 1..Len(conn)
    BY <1>1, <1>4, ConnStep, Facts
  <1>9. PICK m \in Loops, kind \in Owning :
            /\ Adds(queue, queue', m, Functor(kind, c))
            /\ kind \in {"connectDestroyed", "removeConnectionInLoop"}
            /\ kind = "connectDestroyed" => m = k.loop
            /\ kind = "connectDestroyed" \/ connections' = connections
            /\ connections' \in {connections, connections \ {c}}
    <2>1. CASE l = BaseLoop
      <3>1. /\ Adds(queue, queue', k.loop, Functor("connectDestroyed", c))
            /\ connections' = connections \ {c}
        BY <2>1, <1>3 DEF ConnectionCloses, removeConnectionInLoop, Adds
      <3> QED
        BY <1>2, <3>1 DEF Owning
    <2>2. CASE l # BaseLoop
      <3>1. /\ Adds(queue, queue', BaseLoop,
                    Functor("removeConnectionInLoop", c))
            /\ connections' = connections
        BY <2>2 DEF ConnectionCloses, Adds
      <3> QED
        BY <1>2, <3>1 DEF Owning
    <2> QED
      BY <2>1, <2>2
  <1> DEFINE f0 == Functor(kind, c)
  <1>10. f0 \in Functors /\ f0.kind = kind /\ f0.conn = c
    BY <1>2, FunctorType
  <1> HIDE DEF f0
  <1>11. MayAdd(queue, m, f0)
    BY <1>9, <1>10 DEF MayAdd
  <1>12. QueuesOK(queue') /\ Added(queue, queue', m, f0)
    BY <1>2, <1>9, <1>11, QueueAppend DEF f0
  <1>13. FunctorOK(f0, m, conn') /\ f0.kind # "sendInLoop"
    BY <1>4, <1>8, <1>9, <1>10 DEF FunctorOK, Owning, Bare
  <1>14. \A n \in Loops : \A f \in Elems(queue'[n]) :
            f \in Elems(queue[n]) \/ (n = m /\ f = f0)
    BY <1>12 DEF Added
  <1>15. \A n \in Loops : \A f \in Elems(queue[n]) : f \in Elems(queue'[n])
    BY <1>12 DEF Added
  <1>16. Linked(c)'
    <2>1. CASE kind = "connectDestroyed"
      BY <1>4, <1>8, <1>9, <1>12, <2>1 DEF Linked, Added, f0
    <2>2. CASE kind # "connectDestroyed"
      <3>1. Linked(c) /\ connections' = connections
        BY <1>9, <2>2 DEF IInv, LinkInv
      <3> QED
        BY <1>1, <1>2, <1>4, <1>8, <1>15, <3>1 DEF Linked
    <2> QED
      BY <2>1, <2>2
  <1>17. /\ connections' \subseteq connections
         /\ \A d \in connections : d \in connections' \/ d = c
    BY <1>9
  <1>18. \A n \in Loops : \A f \in Elems(queue'[n]) :
            \/ f \in Elems(queue[n])
            \/ /\ f.conn = c /\ f.kind # "connectEstablished"
               /\ FunctorOK(f, n, conn')
    BY <1>9, <1>10, <1>13, <1>14
  <1>19. \A n \in Loops : \A d : Overtaken(queue'[n], d) => Overtaken(queue[n], d)
    BY <1>12, <1>13, AddedOrder
  <1>20. SendOK(c)'
    <2>1. \A n \in Loops : Functor("sendInLoop", c) \in Elems(queue'[n])
                            => Functor("sendInLoop", c) \in Elems(queue[n])
      <3>1. Functor("sendInLoop", c).kind = "sendInLoop"
        BY DEF Functor
      <3> QED
        BY <1>13, <1>14, <3>1
    <2> QED
      BY <1>1, <1>2, <1>4, <1>8, <2>1 DEF SendOK, NoSend, Ending
  <1>21. StepOn(c, x)
    BY <1>1, <1>4, <1>5, <1>6, <1>7, <1>12, <1>15, <1>16, <1>17, <1>18, <1>19,
       <1>20 DEF StepOn
  <1> QED
    BY <1>21, OneConnection

(* The connection is touched; the user's callback may be queued. *)
LEMMA TouchStep ==
    ASSUME IInv, NEW c \in DOMAIN conn, NEW x, NEW y, Touched(conn[c], y),
           x = y \/ /\ x = [y EXCEPT !.state = "kDisconnecting"]
                    /\ y.state = "kConnected",
           conn' = [conn EXCEPT ![c] = x],
           queue' \in Notified(queue, c),
           UNCHANGED <<setup, server, listenning, nextConnId, next, connections,
                       running, clients, backlog>>,
           calls' \in 0..setup.calls, revents' \in [Ids -> SUBSET Events],
           active' \in [Loops -> SUBSET (Ids \cup {acceptChannel})],
           \A l \in Loops : active'[l] \subseteq active[l]
    PROVE  IInv'
  <1> DEFINE k == conn[c]
             f0 == Functor("userCallback", c)
  <1>1. /\ k \in ConnType /\ ConnOK(k) /\ c \in Ids /\ k.loop \in Loops
        /\ QueuesOK(queue) /\ SendOK(c) /\ Linked(c) /\ c \in 1..Len(conn)
    BY Facts DEF IInv, LinkInv
  <1>2. /\ y \in ConnType /\ ConnOK(y)
        /\ y.loop = k.loop /\ y.ups = k.ups /\ y.app = k.app
        /\ y.channel.mapped = k.channel.mapped
        /\ y.channel.interest.in = k.channel.interest.in
        /\ y.state = k.state
    BY DEF Touched
  <1>3. /\ x \in ConnType /\ ConnOK(x)
        /\ x.loop = k.loop /\ x.ups = k.ups /\ x.app = k.app
        /\ x.channel.mapped = k.channel.mapped
        /\ x.channel.interest.in = k.channel.interest.in
        /\ x.state # "kDisconnected" => k.state # "kDisconnected"
    <2>1. CASE x = y
      BY <1>2, <2>1
    <2>2. CASE x = [y EXCEPT !.state = "kDisconnecting"] /\ y.state = "kConnected"
      <3>1. /\ x \in ConnType /\ x.loop = y.loop /\ x.ups = y.ups
            /\ x.downs = y.downs /\ x.app = y.app /\ x.channel = y.channel
            /\ x.state = "kDisconnecting"
        BY <1>2, <2>2 DEF ConnType
      <3>2. y.ups # 0
        BY <1>2, <2>2 DEF ConnOK
      <3>3. ConnOK(x)
        BY <1>2, <3>1, <3>2 DEF ConnOK
      <3> QED
        BY <1>2, <2>2, <3>1, <3>3
    <2> QED
      BY <2>1, <2>2
  <1>4. conn'[c] = x /\ Len(conn') = Len(conn)
    BY <1>3, ConnStep
  <1>5. QueuesOK(queue') /\ Grown(queue, queue', c)
    BY <1>1, Notify
  <1>6. f0.kind = "userCallback" /\ f0.conn = c
    BY DEF Functor
  <1>7. /\ \A l \in Loops : \A g \in Elems(queue[l]) : g \in Elems(queue'[l])
        /\ \A l \in Loops : \A g \in Elems(queue'[l]) :
                g \in Elems(queue[l]) \/ (l = k.loop /\ g = f0)
        /\ \A l \in Loops : \A d :
                Overtaken(queue'[l], d) => Overtaken(queue[l], d)
    BY <1>5 DEF Grown
  <1> HIDE DEF f0
  <1>8. ASSUME NEW l \in Loops, NEW kind, kind # "userCallback",
               Functor(kind, c) \in Elems(queue'[l])
        PROVE  Functor(kind, c) \in Elems(queue[l])
    <2>1. Functor(kind, c).kind = kind
      BY DEF Functor
    <2> QED
      BY <1>6, <1>7, <1>8, <2>1
  <1>9. FunctorOK(f0, k.loop, conn')
    BY <1>1, <1>3, <1>4, <1>6 DEF FunctorOK, Bare
  <1>10. \A l \in Loops : \A f \in Elems(queue'[l]) :
            \/ f \in Elems(queue[l])
            \/ /\ f.conn = c /\ f.kind # "connectEstablished"
               /\ FunctorOK(f, l, conn')
    BY <1>6, <1>7, <1>9
  <1>11. /\ \A l \in Loops : c \in active'[l] => x.channel.interest.in
         /\ \A l \in Loops : \A f \in Elems(queue[l]) :
                f.conn = c =>
                    /\ f.kind = "connectEstablished" => x.ups = 0
                    /\ f.kind \in Bare /\ AppKeepsPtr => x.app # "none"
    BY <1>3, ConnFacts
  <1>12. Linked(c)'
    BY <1>1, <1>3, <1>4, <1>7, <1>8 DEF Linked
  <1>13. SendOK(c)'
    BY <1>1, <1>3, <1>4, <1>7, <1>8 DEF SendOK, NoSend, Sendable, Ending
  <1>14. StepOn(c, x)
    BY <1>1, <1>3, <1>5, <1>7, <1>10, <1>11, <1>12, <1>13 DEF StepOn
  <1> QED
    BY <1>14, OneConnection

LEMMA ConnectionEventStep ==
    ASSUME IInv, NEW l \in Loops, NEW c \in DOMAIN conn, ConnectionEvent(l, c)
    PROVE  IInv'
  <1> DEFINE k == conn[c]
  <1>1. /\ UNCHANGED <<setup, server, listenning, nextConnId, next,
                       connections, running, clients, backlog, calls>>
        /\ active' = [active EXCEPT ![l] = @ \ {c}]
        /\ revents' = [revents EXCEPT ![c] = {}]
        /\ c \in active[l]
    BY DEF ConnectionEvent, Dispatch, clientVars
  <1>2. /\ k \in ConnType /\ ConnOK(k) /\ k.channel.interest.in
    BY <1>1, Facts, ConnFacts
  <1>3. PICK z \in IF "out" \in revents[c] THEN handleWrite(k) ELSE {k} :
            /\ conn' = [conn EXCEPT ![c] = [z EXCEPT !.err = FALSE]]
            /\ queue' \in IF k.out /\ ~z.out THEN Notified(queue, c)
                                             ELSE {queue}
    BY DEF ConnectionEvent
  <1>4. Touched(k, z)
    BY <1>2, <1>3, TouchedItself, WriteTouches
  <1>5. PICK x : x = [z EXCEPT !.err = FALSE]
    OBVIOUS
  <1>6. Touched(k, x)
    BY <1>2, <1>4, <1>5, TouchedError
  <1>7. queue' \in Notified(queue, c)
    BY <1>3 DEF Notified
  <1>8. /\ active' \in [Loops -> SUBSET (Ids \cup {acceptChannel})]
        /\ \A m \in Loops : active'[m] \subseteq active[m]
        /\ calls' \in 0..setup.calls /\ revents' \in [Ids -> SUBSET Events]
    BY <1>1 DEF IInv, TypeOK
  <1> QED
    BY <1>1, <1>3, <1>5, <1>6, <1>7, <1>8, TouchStep

(* Nothing but calls' and the connection and its loop's queue changes. *)
LEMMA PeerSteps ==
    ASSUME IInv, NEW c \in DOMAIN conn, PeerCloses(c) \/ PeerResets(c)
    PROVE  IInv'
  <1> DEFINE k == conn[c]
  <1>1. k \in ConnType /\ ConnOK(k)
    BY Facts
  <1>2. PICK x : x \in {[k EXCEPT !.peer = "closed"],
                        [k EXCEPT !.peer = "reset", !.err = TRUE]}
                 /\ conn' = [conn EXCEPT ![c] = x]
    BY DEF PeerCloses, PeerResets
  <1>3. Touched(k, x)
    <2>1. /\ k.err \in BOOLEAN /\ k.shutWr \in BOOLEAN
      BY <1>1 DEF ConnType
    <2>2. \/ x = [k EXCEPT !.peer = "closed", !.err = k.err, !.shutWr = k.shutWr]
          \/ x = [k EXCEPT !.peer = "reset", !.err = TRUE, !.shutWr = k.shutWr]
      BY <1>1, <1>2 DEF ConnType
    <2> QED
      BY <1>1, <2>1, <2>2, TouchedSocket
  <1>4. UNCHANGED <<setup, server, listenning, nextConnId, next, connections,
                    queue, active, revents, running, clients, backlog, calls>>
    BY DEF PeerCloses, PeerResets, serverVars, eventVars, loopVars, clientVars
  <1>5. /\ active' \in [Loops -> SUBSET (Ids \cup {acceptChannel})]
        /\ \A m \in Loops : active'[m] \subseteq active[m]
        /\ calls' \in 0..setup.calls /\ revents' \in [Ids -> SUBSET Events]
    BY <1>4 DEF IInv, TypeOK
  <1>6. queue' \in Notified(queue, c)
    BY <1>4 DEF Notified
  <1> QED
    BY <1>2, <1>3, <1>4, <1>5, <1>6, TouchStep

LEMMA CallsBound ==
    ASSUME IInv, \/ calls' = calls
                 \/ calls < setup.calls /\ calls' = calls + 1
    PROVE  calls' \in 0..setup.calls
  <1>1. setup.calls \in Nat /\ calls \in 0..setup.calls
    BY TcpServerAssumptions DEF TcpServerAssumptions, SetupType, IInv, TypeOK
  <1> QED
    BY <1>1

(* User code on the loop thread. *)
LEMMA UserSteps ==
    ASSUME IInv, NEW c \in DOMAIN conn, UserSends(c) \/ UserShuts(c)
    PROVE  IInv'
  <1> DEFINE k == conn[c]
  <1>1. /\ UNCHANGED <<setup, server, listenning, nextConnId, next, connections,
                       active, revents, running, clients, backlog>>
        /\ calls < setup.calls /\ calls' = calls + 1
        /\ k.state = "kConnected"
    BY DEF UserSends, UserShuts, UserCode, serverVars, eventVars
  <1>2. k \in ConnType /\ ConnOK(k) /\ k.channel.interest.in
    BY <1>1, Facts DEF ConnOK
  <1>3. /\ active' \in [Loops -> SUBSET (Ids \cup {acceptChannel})]
        /\ \A m \in Loops : active'[m] \subseteq active[m]
        /\ calls' \in 0..setup.calls /\ revents' \in [Ids -> SUBSET Events]
    BY <1>1, CallsBound DEF IInv, TypeOK
  <1>4. queue' \in Notified(queue, c)
    BY DEF UserSends, UserShuts, Notified
  <1>5. CASE UserSends(c)
    <2>1. PICK x \in sendInLoop(k) : conn' = [conn EXCEPT ![c] = x]
      BY <1>5 DEF UserSends
    <2>2. Touched(k, x)
      BY <1>2, SendTouches
    <2> QED
      BY <1>1, <1>3, <1>4, <2>1, <2>2, TouchStep
  <1>6. CASE UserShuts(c)
    <2>1. PICK d : d = [k EXCEPT !.state = "kDisconnecting"]
      OBVIOUS
    <2>2. PICK x : x = shutdownInLoop(d)
      OBVIOUS
    <2>3. PICK y : y = shutdownInLoop(k)
      OBVIOUS
    <2>4. conn' = [conn EXCEPT ![c] = x]
      BY <1>6, <2>1, <2>2 DEF UserShuts
    <2>5. Touched(k, y)
      BY <1>2, <2>3, ShutdownTouches
    <2>6. y.state = "kConnected"
      BY <1>1, <2>5 DEF Touched
    <2>7. x = [y EXCEPT !.state = "kDisconnecting"]
      <3>1. d.channel = k.channel
        BY <1>2, <2>1 DEF ConnType
      <3> QED
        BY <1>2, <2>1, <2>2, <2>3, <3>1 DEF shutdownInLoop, ConnType
    <2> QED
      BY <1>1, <1>3, <1>4, <2>4, <2>5, <2>6, <2>7, TouchStep
  <1> QED
    BY <1>5, <1>6

-----------------------------------------------------------------------------
(* The application's threads.                                              *)

(* AppStep makes x of the connection. *)
AppMade(c, x, to) ==
    /\ x \in ConnType /\ ConnOK(x) /\ conn' = [conn EXCEPT ![c] = x]
    /\ conn'[c] = x /\ Len(conn') = Len(conn)
    /\ x.loop = conn[c].loop /\ x.ups = conn[c].ups /\ x.app = to
    /\ x.channel = conn[c].channel
    /\ x.state = IF to = "set" THEN "kDisconnecting" ELSE conn[c].state

LEMMA AppMakes ==
    ASSUME IInv, NEW c \in DOMAIN conn, NEW from \in AppAt \ {"none"},
           NEW to \in AppAt, AppStep(c, from, to)
    PROVE  \E x : AppMade(c, x, to)
  <1> DEFINE k == conn[c]
  <1>1. k \in ConnType /\ ConnOK(k) /\ k.app = from /\ k.ups # 0
    BY Facts DEF AppStep, ConnOK
  <1>2. PICK s : s = IF to = "set" THEN "kDisconnecting" ELSE k.state
    OBVIOUS
  <1>3. s \in {k.state, "kDisconnecting"}
    BY <1>2
  <1>4. PICK x : x = [k EXCEPT !.app = to, !.state = s]
    OBVIOUS
  <1>5. conn' = [conn EXCEPT ![c] = x]
    BY <1>2, <1>4 DEF AppStep
  <1>6. /\ x \in ConnType /\ x.loop = k.loop /\ x.ups = k.ups
        /\ x.downs = k.downs /\ x.channel = k.channel /\ x.app = to
        /\ x.state = s
    BY <1>1, <1>3, <1>4 DEF ConnType
  <1>7. ConnOK(x)
    BY <1>1, <1>3, <1>6 DEF ConnOK
  <1>8. conn'[c] = x /\ Len(conn') = Len(conn)
    BY <1>5, <1>6, <1>7, ConnStep
  <1> QED
    BY <1>2, <1>5, <1>6, <1>7, <1>8 DEF AppMade

(* It may queue a functor that binds a bare this. *)
AppQueued(c, to) ==
    \/ queue' = queue
    \/ /\ to # "none"
       /\ \E kind \in Bare :
            Adds(queue, queue', conn[c].loop, Functor(kind, c))

LEMMA AppMove ==
    ASSUME IInv, NEW c \in DOMAIN conn, NEW from \in AppAt \ {"none"},
           NEW to \in AppAt, AppStep(c, from, to), AppQueued(c, to),
           calls' \in 0..setup.calls, to = "none" => AppDrops(c),
           NEW x, AppMade(c, x, to), SendOK(c)'
    PROVE  IInv'
  <1> DEFINE k == conn[c]
  <1>1. /\ k \in ConnType /\ ConnOK(k) /\ c \in Ids /\ k.loop \in Loops
        /\ QueuesOK(queue) /\ Linked(c) /\ c \in 1..Len(conn)
    BY Facts DEF IInv, LinkInv
  <1>2. /\ x \in ConnType /\ ConnOK(x) /\ conn' = [conn EXCEPT ![c] = x]
        /\ conn'[c] = x /\ Len(conn') = Len(conn)
        /\ x.loop = k.loop /\ x.ups = k.ups /\ x.app = to
        /\ x.channel = k.channel
    BY DEF AppMade
  <1>3. UNCHANGED <<setup, server, listenning, nextConnId, next, connections,
                    active, revents, running, clients, backlog>>
    BY DEF AppStep, serverVars, eventVars
  <1>4. /\ QueuesOK(queue')
        /\ \A l \in Loops : \A f \in Elems(queue[l]) : f \in Elems(queue'[l])
        /\ \A l \in Loops : \A f \in Elems(queue'[l]) :
                \/ f \in Elems(queue[l])
                \/ /\ f.conn = c /\ f.kind \in Bare
                   /\ l = k.loop /\ to # "none"
        /\ \A l \in Loops, d \in DOMAIN conn :
                Overtaken(queue'[l], d) => Overtaken(queue[l], d) \/ d = c
    <2>1. CASE queue' = queue
      BY <1>1, <2>1
    <2>2. CASE queue' # queue
      <3>1. PICK kind \in Bare :
                Adds(queue, queue', k.loop, Functor(kind, c)) /\ to # "none"
        BY <2>2 DEF AppQueued
      <3>2. PICK f0 : f0 = Functor(kind, c)
        OBVIOUS
      <3>3. f0 \in Functors /\ f0.kind = kind /\ f0.conn = c
        BY <1>1, <3>2, FunctorType
      <3>4. MayAdd(queue, k.loop, f0)
        BY <1>1, <3>3 DEF MayAdd, Bare
      <3>5. QueuesOK(queue') /\ Added(queue, queue', k.loop, f0)
        BY <1>1, <3>1, <3>2, <3>4, QueueAppend
      <3>6. \A d : f0 = Functor("sendInLoop", d) => d = c
        BY <3>2 DEF Functor
      <3> QED
        BY <3>1, <3>3, <3>5, <3>6 DEF Added
    <2> QED
      BY <2>1, <2>2
  <1>5. \A l \in Loops : \A f \in Elems(queue'[l]) :
            \/ f \in Elems(queue[l])
            \/ /\ f.conn = c /\ f.kind # "connectEstablished"
               /\ FunctorOK(f, l, conn')
    BY <1>1, <1>2, <1>4 DEF FunctorOK, Bare
  <1>6. ASSUME NEW l \in Loops, NEW f \in Elems(queue[l]), f.conn = c
        PROVE  /\ f.kind = "connectEstablished" => x.ups = 0
               /\ f.kind \in Bare /\ AppKeepsPtr => x.app # "none"
    <2>1. FunctorOK(f, l, conn) /\ f \in Functors
      BY Facts DEF IInv, FunctorInv, Elems
    <2>2. f.kind = "connectEstablished" => x.ups = 0
      BY <1>2, <1>6, ConnFacts
    <2>3. ASSUME f.kind \in Bare, AppKeepsPtr PROVE x.app # "none"
      <3>1. l = k.loop
        BY <1>6, <2>1, <2>3 DEF FunctorOK, Bare
      <3>2. f = Functor(f.kind, c)
        BY <1>6, <2>1 DEF Functors, Functor
      <3>3. ~AppDrops(c)
        BY <2>3, <3>1, <3>2 DEF AppDrops, Queued, Elems
      <3> QED
        BY <1>2, <3>3
    <2> QED
      BY <2>2, <2>3
  <1>7. Linked(c)'
    <2>1. Functor("connectEstablished", c) \in Elems(queue'[k.loop])
            => Functor("connectEstablished", c) \in Elems(queue[k.loop])
      <3>1. Functor("connectEstablished", c).kind \notin Bare
        BY DEF Functor, Bare
      <3> QED
        BY <1>1, <1>4, <3>1
    <2> QED
      BY <1>1, <1>2, <1>3, <1>4, <2>1 DEF Linked
  <1>8. /\ active' \in [Loops -> SUBSET (Ids \cup {acceptChannel})]
        /\ \A l \in Loops : active'[l] \subseteq active[l]
        /\ revents' \in [Ids -> SUBSET Events]
    BY <1>3 DEF IInv, TypeOK
  <1>9. \A l \in Loops : c \in active'[l] => x.channel.interest.in
    BY <1>2, <1>3, ConnFacts
  <1>10. StepOn(c, x)
    BY <1>1, <1>2, <1>3, <1>4, <1>5, <1>6, <1>7, <1>8, <1>9 DEF StepOn
  <1> QED
    BY <1>10, OneConnection

(* A functor that AppQueued adds leaves the others as they are. *)
LEMMA QueuesOther ==
    ASSUME IInv, NEW c \in DOMAIN conn, NEW kind \in Bare,
           Adds(queue, queue', conn[c].loop, Functor(kind, c))
    PROVE  /\ \A l \in Loops : \A other : other # kind =>
                (Functor(other, c) \in Elems(queue'[l])
                    => Functor(other, c) \in Elems(queue[l]))
           /\ Overtaken(queue'[conn[c].loop], c) =>
                \/ Overtaken(queue[conn[c].loop], c)
                \/ /\ kind = "sendInLoop"
                   /\ Functor("connectDestroyed", c) \in Elems(queue[conn[c].loop])
  <1>1. c \in Ids /\ conn[c].loop \in Loops /\ QueuesOK(queue)
    BY Facts
  <1>2. PICK f0 : f0 = Functor(kind, c)
    OBVIOUS
  <1>3. f0 \in Functors /\ f0.kind = kind /\ f0.conn = c
    BY <1>1, <1>2, FunctorType
  <1>4. MayAdd(queue, conn[c].loop, f0)
    BY <1>1, <1>3 DEF MayAdd, Bare
  <1>5. Added(queue, queue', conn[c].loop, f0)
    BY <1>1, <1>2, <1>4, QueueAppend
  <1>6. \A other : Functor(other, c) = f0 => other = kind
    BY <1>2 DEF Functor
  <1> QED
    BY <1>1, <1>5, <1>6 DEF Added

LEMMA AppSteps ==
    ASSUME OneKind, IInv, NEW c \in DOMAIN conn,
           SendCheck(c) \/ ShutdownCheck(c) \/ AppContinues(c) \/ AppDrops(c)
    PROVE  IInv'
  <1> DEFINE k == conn[c]
  <1>1. /\ SendOK(c) /\ ConnOK(k) /\ k.loop \in Loops
        /\ setup \in Setups /\ QueuesOK(queue)
    BY Facts DEF IInv, TypeOK
  <1>2. setup.off = {"send", "shutdown"} => FALSE
    BY <1>1 DEF OneKind
  <1>3. setup.off \subseteq {"send", "shutdown"}
    BY <1>1, TcpServerAssumptions DEF TcpServerAssumptions, SetupType
  <1>4. "send" \in setup.off => "shutdown" \notin setup.off
    BY <1>2, <1>3
  <1>5. calls' \in 0..setup.calls
    BY CallsBound DEF SendCheck, ShutdownCheck, AppContinues, SendQueue,
                      ShutdownSet, ShutdownQueue, AppDrops, AppCalls
  <1>6. CASE SendCheck(c)
    <2>1. /\ AppStep(c, "held", "sending") /\ queue' = queue
          /\ "send" \in setup.off /\ server \in {"looping", "stopped"}
          /\ k.state = "kConnected"
      BY <1>6 DEF SendCheck, AppCalls
    <2>2. PICK x : AppMade(c, x, "sending")
      BY <2>1, AppMakes DEF AppAt
    <2>3. UNCHANGED <<setup, server, running>>
      BY <2>1 DEF AppStep, serverVars
    <2>4. SendOK(c)'
      BY <1>1, <1>4, <2>1, <2>2, <2>3
         DEF AppMade, ConnOK, SendOK, Sendable, Ending
    <2> QED
      BY <1>5, <2>1, <2>2, <2>4, AppMove DEF AppAt, AppQueued
  <1>7. CASE SendQueue(c)
    <2>1. /\ AppStep(c, "sending", "held") /\ k.app = "sending"
          /\ Adds(queue, queue', k.loop, Functor("sendInLoop", c))
      BY <1>7 DEF SendQueue, AppQueues, Adds, AppStep
    <2>2. PICK x : AppMade(c, x, "held")
      BY <2>1, AppMakes DEF AppAt
    <2>3. UNCHANGED <<setup, server, running>>
      BY <2>1 DEF AppStep, serverVars
    <2>4. /\ \A l \in Loops : \A other : other # "sendInLoop" =>
                (Functor(other, c) \in Elems(queue'[l])
                    => Functor(other, c) \in Elems(queue[l]))
          /\ Overtaken(queue'[k.loop], c) =>
                \/ Overtaken(queue[k.loop], c)
                \/ Functor("connectDestroyed", c) \in Elems(queue[k.loop])
      BY <2>1, QueuesOther DEF Bare
    <2>5. ~Ending /\ "shutdown" \notin setup.off
      BY <1>1, <2>1 DEF SendOK, NoSend
    <2>6. SendOK(c)'
      BY <1>1, <2>1, <2>2, <2>3, <2>4, <2>5
         DEF AppMade, SendOK, Sendable, Ending
    <2> QED
      BY <1>5, <2>1, <2>2, <2>6, AppMove DEF AppAt, AppQueued, Bare
  <1>8. CASE ShutdownCheck(c)
    <2>1. /\ AppStep(c, "held", "checked") /\ queue' = queue
          /\ "shutdown" \in setup.off /\ server \in {"looping", "stopped"}
      BY <1>8 DEF ShutdownCheck, AppCalls
    <2>2. PICK x : AppMade(c, x, "checked")
      BY <2>1, AppMakes DEF AppAt
    <2>3. UNCHANGED <<setup, server, running>>
      BY <2>1 DEF AppStep, serverVars
    <2>4. SendOK(c)'
      BY <1>1, <2>1, <2>2, <2>3 DEF AppMade, SendOK, NoSend, Ending
    <2> QED
      BY <1>5, <2>1, <2>2, <2>4, AppMove DEF AppAt, AppQueued
  <1>9. CASE ShutdownSet(c)
    <2>1. /\ AppStep(c, "checked", "set") /\ queue' = queue /\ k.app = "checked"
      BY <1>9 DEF ShutdownSet, AppStep
    <2>2. PICK x : AppMade(c, x, "set")
      BY <2>1, AppMakes DEF AppAt
    <2>3. UNCHANGED <<setup, server, running>>
      BY <2>1 DEF AppStep, serverVars
    <2>4. SendOK(c)'
      BY <1>1, <2>1, <2>2, <2>3 DEF AppMade, SendOK, NoSend, Ending
    <2> QED
      BY <1>5, <2>1, <2>2, <2>4, AppMove DEF AppAt, AppQueued
  <1>10. CASE ShutdownQueue(c)
    <2>1. /\ AppStep(c, "set", "held") /\ k.app = "set"
          /\ Adds(queue, queue', k.loop, Functor("shutdownInLoop", c))
      BY <1>10 DEF ShutdownQueue, AppQueues, Adds, AppStep
    <2>2. PICK x : AppMade(c, x, "held")
      BY <2>1, AppMakes DEF AppAt
    <2>3. UNCHANGED <<setup, server, running>>
      BY <2>1 DEF AppStep, serverVars
    <2>4. \A l \in Loops : Functor("sendInLoop", c) \in Elems(queue'[l])
                            => Functor("sendInLoop", c) \in Elems(queue[l])
      BY <2>1, QueuesOther DEF Bare
    <2>5. SendOK(c)'
      BY <1>1, <2>1, <2>2, <2>3, <2>4 DEF AppMade, SendOK, NoSend, Ending
    <2> QED
      BY <1>5, <2>1, <2>2, <2>5, AppMove DEF AppAt, AppQueued, Bare
  <1>11. CASE AppDrops(c)
    <2>1. /\ AppStep(c, "held", "none") /\ queue' = queue /\ k.app = "held"
      BY <1>11 DEF AppDrops, AppStep
    <2>2. PICK x : AppMade(c, x, "none")
      BY <2>1, AppMakes DEF AppAt
    <2>3. UNCHANGED <<setup, server, running>>
      BY <2>1 DEF AppStep, serverVars
    <2>4. SendOK(c)'
      BY <1>1, <2>1, <2>2, <2>3 DEF AppMade, SendOK, NoSend, Sendable, Ending
    <2> QED
      BY <1>5, <1>11, <2>1, <2>2, <2>4, AppMove DEF AppAt, AppQueued
  <1> QED
    BY <1>6, <1>7, <1>8, <1>9, <1>10, <1>11 DEF AppContinues

-----------------------------------------------------------------------------
(* The functors.                                                           *)

(* The functor at the head of a running loop's queue and its connection. *)
LEMMA HeadFacts ==
    ASSUME IInv, NEW l \in Loops, NEW kind, NextFunctor(l, kind),
           NEW R, R = Popped(l)
    PROVE  /\ Head(queue[l]).conn \in DOMAIN conn
           /\ Head(queue[l]) = Functor(kind, Head(queue[l]).conn)
           /\ Head(queue[l]) \in Elems(queue[l])
           /\ FunctorOK(Head(queue[l]), l, conn)
           /\ QueuesOK(R) /\ Taken(queue, R, l)
           /\ running[l] /\ active[l] = {}
  <1>1. /\ running[l] /\ active[l] = {} /\ queue[l] # <<>>
        /\ Head(queue[l]).kind = kind
    BY DEF NextFunctor, LoopFree
  <1>2. Takes(queue, R, l) /\ QueuesOK(queue)
    BY <1>1, Facts DEF Takes, Popped
  <1>3. QueuesOK(R) /\ Taken(queue, R, l)
    BY <1>2, QueuePop
  <1>4. Head(queue[l]) \in Functors /\ Head(queue[l]) \in Elems(queue[l])
    BY <1>3 DEF Taken
  <1>5. FunctorOK(Head(queue[l]), l, conn)
    BY <1>4 DEF IInv, FunctorInv
  <1>6. Head(queue[l]).conn \in DOMAIN conn
    BY <1>5, Facts DEF FunctorOK
  <1>7. \A f \in Functors : f = Functor(f.kind, f.conn)
    BY DEF Functors, Functor
  <1> QED
    BY <1>1, <1>3, <1>4, <1>5, <1>6, <1>7

(* The head's functor leaves the queue; the user's callback may be queued. *)
PopOf(l, c, kind) ==
    /\ c \in DOMAIN conn /\ conn[c].loop = l /\ running[l] /\ active[l] = {}
    /\ Functor(kind, c) \in Elems(queue[l])
    /\ FunctorOK(Functor(kind, c), l, conn)
    /\ QueuesOK(queue')
    /\ \A m \in Loops : \A f \in Elems(queue'[m]) :
            \/ f \in Elems(queue[m])
            \/ m = l /\ f = Functor("userCallback", c)
    /\ \A m \in Loops : \A f \in Elems(queue[m]) :
            f \in Elems(queue'[m]) \/ f = Functor(kind, c)
    /\ \A f \in Elems(queue'[l]) :
            f.kind = "connectEstablished" => f.conn # c
    /\ \A m \in Loops : \A d : Overtaken(queue'[m], d) => Overtaken(queue[m], d)
    /\ kind = "connectDestroyed"
            /\ Functor("sendInLoop", c) \in Elems(queue'[l])
            => Overtaken(queue[l], c)

LEMMA PopFacts ==
    ASSUME IInv, NEW l \in Loops, NEW kind, NextFunctor(l, kind),
           kind # "removeConnectionInLoop", NEW c, c = Head(queue[l]).conn,
           NEW R, R = Popped(l), queue' \in Notified(R, c)
    PROVE  PopOf(l, c, kind)
  <1>1. /\ c \in DOMAIN conn /\ Head(queue[l]) = Functor(kind, c)
        /\ Functor(kind, c) \in Elems(queue[l])
        /\ FunctorOK(Functor(kind, c), l, conn)
        /\ QueuesOK(R) /\ Taken(queue, R, l)
        /\ running[l] /\ active[l] = {}
    BY HeadFacts
  <1>2. c \in Ids /\ conn[c].loop \in Loops
    BY <1>1, Facts
  <1>3. Functor(kind, c).kind = kind /\ Functor(kind, c).conn = c
    BY DEF Functor
  <1>4. conn[c].loop = l
    BY <1>1, <1>3 DEF FunctorOK
  <1>5. QueuesOK(queue') /\ Grown(R, queue', c)
    BY <1>1, <1>2, Notify
  <1>6. /\ \A m \in Loops : \A g \in Elems(R[m]) : g \in Elems(queue[m])
        /\ \A m \in Loops : \A g \in Elems(queue[m]) :
                g \in Elems(R[m]) \/ g = Functor(kind, c)
        /\ \A g \in Elems(R[l]) :
                g.kind = "connectEstablished" => g.conn # c
        /\ \A m \in Loops : \A d : Overtaken(R[m], d) => Overtaken(queue[m], d)
    BY <1>1, <1>3 DEF Taken
  <1>7. kind = "connectDestroyed" /\ Functor("sendInLoop", c) \in Elems(R[l])
            => Overtaken(queue[l], c)
    BY <1>1 DEF Taken
  <1>8. /\ \A m \in Loops : \A g \in Elems(R[m]) : g \in Elems(queue'[m])
        /\ \A m \in Loops : \A g \in Elems(queue'[m]) :
                g \in Elems(R[m]) \/ (m = l /\ g = Functor("userCallback", c))
        /\ \A m \in Loops : \A d : Overtaken(queue'[m], d) => Overtaken(R[m], d)
    BY <1>4, <1>5 DEF Grown
  <1>9. /\ Functor("userCallback", c).kind = "userCallback"
        /\ Functor("sendInLoop", c).kind = "sendInLoop"
    BY DEF Functor
  <1>10. \A f \in Elems(queue'[l]) :
            f.kind = "connectEstablished" => f.conn # c
    BY <1>6, <1>8, <1>9
  <1>11. Functor("sendInLoop", c) \in Elems(queue'[l])
            => Functor("sendInLoop", c) \in Elems(R[l])
    BY <1>8, <1>9
  <1>12. \A m \in Loops : \A f \in Elems(queue'[m]) :
            \/ f \in Elems(queue[m])
            \/ m = l /\ f = Functor("userCallback", c)
    BY <1>6, <1>8
  <1>13. \A m \in Loops : \A f \in Elems(queue[m]) :
            f \in Elems(queue'[m]) \/ f = Functor(kind, c)
    BY <1>6, <1>8
  <1>14. \A m \in Loops : \A d : Overtaken(queue'[m], d) => Overtaken(queue[m], d)
    BY <1>6, <1>8
  <1> QED
    BY <1>1, <1>4, <1>5, <1>7, <1>10, <1>11, <1>12, <1>13, <1>14 DEF PopOf

(* A functor makes x of its connection. *)
LEMMA PopStep ==
    ASSUME IInv, NEW l \in Loops, NEW kind, NEW c, PopOf(l, c, kind),
           UNCHANGED <<serverVars, eventVars, running, clientVars>>,
           NEW x \in ConnType, ConnOK(x),
           conn' = [conn EXCEPT ![c] = x], x.loop = conn[c].loop,
           \/ x.ups = conn[c].ups /\ x.app = conn[c].app
           \/ kind = "connectEstablished" /\ x.app \in {"none", "held"},
           x.state # "kDisconnected" => conn[c].state # "kDisconnected",
           \/ kind = "connectDestroyed"
           \/ conn[c].channel.interest.in => x.channel.interest.in,
           Linked(c)'
    PROVE  IInv'
  <1> DEFINE k == conn[c]
             u == Functor("userCallback", c)
  <1>1. /\ c \in DOMAIN conn /\ k.loop = l /\ running[l] /\ active[l] = {}
        /\ Functor(kind, c) \in Elems(queue[l])
        /\ FunctorOK(Functor(kind, c), l, conn) /\ QueuesOK(queue')
        /\ \A m \in Loops : \A f \in Elems(queue'[m]) :
                f \in Elems(queue[m]) \/ (m = l /\ f = u)
        /\ \A m \in Loops : \A f \in Elems(queue[m]) :
                f \in Elems(queue'[m]) \/ f = Functor(kind, c)
        /\ \A f \in Elems(queue'[l]) :
                f.kind = "connectEstablished" => f.conn # c
        /\ \A m \in Loops : \A d :
                Overtaken(queue'[m], d) => Overtaken(queue[m], d)
        /\ kind = "connectDestroyed"
                /\ Functor("sendInLoop", c) \in Elems(queue'[l])
                => Overtaken(queue[l], c)
    BY DEF PopOf
  <1>2. Functor(kind, c).kind = kind /\ Functor(kind, c).conn = c
    BY DEF Functor
  <1>3. u.kind = "userCallback" /\ u.conn = c
    BY DEF Functor
  <1> HIDE DEF u
  <1>4. UNCHANGED <<setup, server, listenning, nextConnId, next, connections,
                    active, revents, running, clients, backlog, calls>>
    BY DEF serverVars, eventVars, clientVars
  <1>5. /\ conn'[c] = x /\ Len(conn') = Len(conn) /\ c \in 1..Len(conn)
        /\ SendOK(c) /\ ConnOK(k)
    BY <1>1, ConnStep, Facts
  <1>6. \A m \in Loops : c \notin active'[m]
    BY <1>1, <1>4, ConnFacts
  <1>7. kind = "connectEstablished" => k.ups = 0 /\ k.app = "none"
    BY <1>1, <1>2, <1>5 DEF FunctorOK, ConnOK
  <1>8. ASSUME NEW m \in Loops, NEW f \in Elems(queue'[m]),
               f \in Elems(queue[m]), f.conn = c
        PROVE  /\ f.kind = "connectEstablished" => x.ups = 0
               /\ f.kind \in Bare /\ AppKeepsPtr => x.app # "none"
    <2>1. FunctorOK(f, m, conn)
      BY <1>8 DEF IInv, FunctorInv
    <2>2. f.kind # "connectEstablished"
      <3> SUFFICES ASSUME f.kind = "connectEstablished" PROVE FALSE
        OBVIOUS
      <3>1. m = l
        BY <1>1, <1>8, <2>1 DEF FunctorOK
      <3> QED
        BY <1>1, <1>8, <3>1
    <2>3. f.kind \in Bare /\ AppKeepsPtr => k.app # "none"
      BY <1>8, <2>1 DEF FunctorOK
    <2> QED
      BY <1>7, <2>2, <2>3
  <1>9. FunctorOK(u, l, conn')
    BY <1>1, <1>3, <1>5 DEF FunctorOK, Bare
  <1>10. \A m \in Loops : \A f \in Elems(queue'[m]) :
            \/ f \in Elems(queue[m])
            \/ /\ f.conn = c /\ f.kind # "connectEstablished"
               /\ FunctorOK(f, m, conn')
    BY <1>1, <1>3, <1>9
  <1>11. \A m \in Loops : \A f \in Elems(queue[m]) :
            f \in Elems(queue'[m]) \/ f.conn = c
    BY <1>1, <1>2
  <1>12. \A m \in Loops : \A other : other # "userCallback" =>
            (Functor(other, c) \in Elems(queue'[m])
                => Functor(other, c) \in Elems(queue[m]))
    <2>1. \A other : Functor(other, c).kind = other
      BY DEF Functor
    <2> QED
      BY <1>1, <1>3, <2>1
  <1>13. /\ Functor("sendInLoop", c) \in Elems(queue'[l])
                => Functor("sendInLoop", c) \in Elems(queue[l])
         /\ Functor("connectDestroyed", c) \in Elems(queue'[l])
                => Functor("connectDestroyed", c) \in Elems(queue[l])
         /\ \A m \in Loops :
                /\ Functor("sendInLoop", c) \in Elems(queue'[m])
                    => Functor("sendInLoop", c) \in Elems(queue[m])
                /\ Functor("removeConnectionInLoop", c) \in Elems(queue'[m])
                    => Functor("removeConnectionInLoop", c) \in Elems(queue[m])
    BY <1>12
  <1>14. SendOK(c)'
    <2>1. Ending => x.app \in {"none", "held"}
      BY <1>5 DEF SendOK
    <2>2. CASE "shutdown" \in setup.off
      <3>1. NoSend(c)
        BY <1>5, <2>2 DEF SendOK
      <3>2. NoSend(c)'
        BY <1>5, <1>13, <3>1 DEF NoSend
      <3> QED
        BY <1>4, <1>5, <2>1, <2>2, <3>2 DEF SendOK, Ending
    <2>3. CASE "shutdown" \notin setup.off
      <3>1. x.app \notin {"checked", "set"}
        BY <1>5, <2>3 DEF SendOK
      <3>2. ASSUME x.state # "kDisconnected" PROVE Sendable(c)'
        <4>1. Sendable(c)
          BY <1>5, <2>3, <3>2 DEF SendOK
        <4>2. /\ \A m \in Loops :
                    Functor("removeConnectionInLoop", c) \notin Elems(queue'[m])
              /\ Functor("connectDestroyed", c) \in Elems(queue'[l]) => Ending
              /\ ~Overtaken(queue'[l], c)
          BY <1>1, <1>13, <4>1 DEF Sendable
        <4>3. CASE kind = "connectDestroyed"
          <5>1. Ending /\ ~Overtaken(queue[l], c)
            BY <1>1, <4>1, <4>3 DEF Sendable
          <5>2. x.app # "sending"
            BY <2>1, <5>1
          <5>3. Functor("sendInLoop", c) \notin Elems(queue'[l])
            BY <1>1, <4>3, <5>1
          <5> QED
            BY <1>1, <1>4, <1>5, <4>2, <5>2, <5>3 DEF Sendable, Ending
        <4>4. CASE kind # "connectDestroyed"
          <5>1. \/ x.app = "sending"
                \/ Functor("sendInLoop", c) \in Elems(queue'[l])
                => x.channel.interest.in
            BY <1>1, <1>13, <4>1, <4>4 DEF Sendable
          <5> QED
            BY <1>1, <1>4, <1>5, <4>2, <5>1 DEF Sendable, Ending
        <4> QED
          BY <4>3, <4>4
      <3> QED
        BY <1>4, <1>5, <2>1, <2>3, <3>1, <3>2 DEF SendOK, Ending
    <2> QED
      BY <2>2, <2>3
  <1>15. /\ active' \in [Loops -> SUBSET (Ids \cup {acceptChannel})]
         /\ \A m \in Loops : active'[m] \subseteq active[m]
         /\ calls' \in 0..setup.calls /\ revents' \in [Ids -> SUBSET Events]
    BY <1>4 DEF IInv, TypeOK
  <1>16. StepOn(c, x)
    BY <1>1, <1>4, <1>6, <1>8, <1>10, <1>11, <1>14, <1>15 DEF StepOn
  <1> QED
    BY <1>16, OneConnection

LEMMA RunOnConnectionStep ==
    ASSUME IInv, NEW l \in Loops, RunOnConnection(l)
    PROVE  IInv'
  <1>1. PICK c : c = Head(queue[l]).conn
    OBVIOUS
  <1> DEFINE k == conn[c]
  <1>2. PICK kind \in {"connectEstablished", "connectDestroyed",
                       "userCallback"} \cup Bare :
            /\ NextFunctor(l, kind)
            /\ \E x \in Effects(kind, k) : conn' = [conn EXCEPT ![c] = x]
            /\ queue' \in IF kind = "sendInLoop" /\ SendNotifies(k)
                          THEN Notified(Popped(l), c) ELSE {Popped(l)}
    BY <1>1 DEF RunOnConnection
  <1>3. PICK x \in Effects(kind, k) : conn' = [conn EXCEPT ![c] = x]
    BY <1>2
  <1>4. UNCHANGED <<serverVars, eventVars, running, clientVars>>
    BY DEF RunOnConnection
  <1>5. PICK R : R = Popped(l)
    OBVIOUS
  <1>6. queue' \in Notified(R, c)
    BY <1>2, <1>5 DEF Notified
  <1>7. PopOf(l, c, kind)
    BY <1>1, <1>2, <1>5, <1>6, PopFacts DEF Bare
  <1>8. /\ c \in DOMAIN conn /\ k.loop = l /\ running[l]
        /\ Functor(kind, c) \in Elems(queue[l])
        /\ FunctorOK(Functor(kind, c), l, conn)
    BY <1>7 DEF PopOf
  <1>9. k \in ConnType /\ ConnOK(k) /\ Linked(c) /\ SendOK(c)
    BY <1>8, Facts DEF IInv, LinkInv
  <1>10. UNCHANGED <<connections, running>>
    BY <1>4 DEF serverVars
  <1>11. \A a, b : Functor(a, c) = Functor(b, c) => a = b
    BY DEF Functor
  <1>12. Functor("connectEstablished", c) \notin Elems(queue'[l])
    <2>1. /\ Functor("connectEstablished", c).kind = "connectEstablished"
          /\ Functor("connectEstablished", c).conn = c
      BY DEF Functor
    <2> QED
      BY <1>7, <2>1 DEF PopOf
  <1>13. kind # "connectDestroyed"
            /\ Functor("connectDestroyed", c) \in Elems(queue[l])
            => Functor("connectDestroyed", c) \in Elems(queue'[l])
    BY <1>7, <1>11 DEF PopOf
  <1>14. CASE kind = "connectEstablished"
    <2>1. PICK app \in {"none", "held"} : x = connectEstablished(k, app)
      BY <1>3, <1>14 DEF Effects
    <2>2. k.ups = 0
      BY <1>8, <1>14 DEF FunctorOK, Functor
    <2>3. /\ x \in ConnType /\ ConnOK(x) /\ x.loop = k.loop /\ x.app = app
          /\ x.channel.interest.in
      BY <1>9, <2>1, <2>2, EstablishedOK
    <2>4. k.state # "kDisconnected"
      BY <1>9, <2>2 DEF ConnOK
    <2>5. conn'[c] = x
      BY <1>3, <1>8, <2>3, ConnStep
    <2>6. Linked(c)'
      <3>1. \/ c \in connections
            \/ Functor("connectDestroyed", c) \in Elems(queue[l])
        BY <1>8, <1>9, <1>14 DEF Linked
      <3> QED
        BY <1>8, <1>10, <1>13, <1>14, <2>3, <2>5, <3>1 DEF Linked
    <2> QED
      BY <1>3, <1>4, <1>7, <1>14, <2>3, <2>4, <2>6, PopStep
  <1>15. CASE kind = "connectDestroyed"
    <2>1. x = connectDestroyed(k)
      BY <1>3, <1>15 DEF Effects
    <2>2. /\ x \in ConnType /\ ConnOK(x) /\ x.loop = k.loop /\ x.ups = k.ups
          /\ x.app = k.app /\ ~x.channel.mapped
          /\ x.state \in {k.state, "kDisconnected"}
      BY <1>9, <2>1, DestroyedOK
    <2>3. conn'[c] = x
      BY <1>3, <1>8, <2>2, ConnStep
    <2>4. Linked(c)'
      BY <1>8, <1>12, <2>2, <2>3 DEF Linked
    <2> QED
      BY <1>3, <1>4, <1>7, <1>15, <2>2, <2>4, PopStep
  <1>16. CASE kind \in Bare \cup {"userCallback"}
    <2>1. Touched(k, x)
      <3>1. CASE kind = "userCallback"
        BY <1>3, <1>9, <3>1, TouchedItself DEF Effects
      <3>2. CASE kind = "shutdownInLoop"
        BY <1>3, <1>9, <3>2, ShutdownTouches DEF Effects
      <3>3. CASE kind = "sendInLoop"
        <4>1. k.state = "kDisconnected" \/ k.channel.interest.in
          BY <1>8, <1>9, <3>3 DEF SendOK, NoSend, Sendable
        <4>2. x \in sendInLoop(k)
          BY <1>3, <3>3 DEF Effects
        <4> QED
          BY <1>9, <4>1, <4>2, SendTouches
      <3> QED
        BY <1>16, <3>1, <3>2, <3>3 DEF Bare
    <2>2. /\ x \in ConnType /\ ConnOK(x)
          /\ x.loop = k.loop /\ x.ups = k.ups /\ x.app = k.app
          /\ x.channel.mapped = k.channel.mapped
          /\ x.channel.interest.in = k.channel.interest.in
          /\ x.state = k.state
      BY <2>1 DEF Touched
    <2>3. conn'[c] = x
      BY <1>3, <1>8, <2>2, ConnStep
    <2>4. Linked(c)'
      BY <1>8, <1>9, <1>10, <1>12, <1>13, <1>16, <2>2, <2>3 DEF Linked, Bare
    <2> QED
      BY <1>3, <1>4, <1>7, <2>2, <2>4, PopStep
  <1> QED
    BY <1>14, <1>15, <1>16

LEMMA RunRemoveConnectionStep ==
    ASSUME IInv, RunRemoveConnection
    PROVE  IInv'
  <1>0. PICK h : h = Head(queue[BaseLoop])
    OBVIOUS
  <1> DEFINE c == h.conn
             k == conn[c]
             P == Popped(BaseLoop)
             f0 == Functor("connectDestroyed", c)
  <1>1. /\ NextFunctor(BaseLoop, "removeConnectionInLoop")
        /\ connections' = connections \ {c}
        /\ Adds(P, queue', k.loop, f0)
        /\ UNCHANGED <<setup, server, listenning, nextConnId, next, conn,
                       active, revents, running, clients, backlog, calls>>
    BY <1>0 DEF RunRemoveConnection, removeConnectionInLoop, Adds, eventVars,
                clientVars
  <1>2. /\ c \in DOMAIN conn /\ QueuesOK(P) /\ Taken(queue, P, BaseLoop)
        /\ Functor("removeConnectionInLoop", c) \in Elems(queue[BaseLoop])
    BY <1>0, <1>1, HeadFacts, Facts
  <1>3. /\ \A g \in Elems(P[BaseLoop]) : g \in Elems(queue[BaseLoop])
        /\ \A g \in Elems(queue[BaseLoop]) : g \in Elems(P[BaseLoop]) \/ g = h
        /\ \A m \in Loops : m # BaseLoop => P[m] = queue[m]
        /\ \A m \in Loops : \A d : Overtaken(P[m], d) => Overtaken(queue[m], d)
    BY <1>0, <1>2 DEF Taken
  <1> HIDE DEF P
  <1>4. /\ k \in ConnType /\ ConnOK(k) /\ c \in Ids /\ k.loop \in Loops
        /\ SendOK(c) /\ BaseLoop \in Loops
    BY <1>2, Facts
  <1>5. f0 \in Functors /\ f0.kind = "connectDestroyed" /\ f0.conn = c
    BY <1>4, FunctorType DEF Owning
  <1>6. f0 = Functor("connectDestroyed", c)
    OBVIOUS
  <1> HIDE DEF f0
  <1>7. MayAdd(P, k.loop, f0)
    BY <1>4, <1>5 DEF MayAdd
  <1>8. QueuesOK(queue') /\ Added(P, queue', k.loop, f0)
    BY <1>1, <1>2, <1>7, QueueAppend
  <1>9. \A m \in Loops : \A f \in Elems(queue'[m]) :
            f \in Elems(P[m]) \/ (m = k.loop /\ f = f0)
    BY <1>8 DEF Added
  <1>10. \A m \in Loops : \A f \in Elems(P[m]) : f \in Elems(queue'[m])
    BY <1>8 DEF Added
  <1>11. \A m \in Loops : \A f \in Elems(queue'[m]) :
            f \in Elems(queue[m]) \/ (m = k.loop /\ f = f0)
    BY <1>3, <1>9
  <1>12. \A m \in Loops : \A f \in Elems(queue[m]) :
            f \in Elems(queue'[m]) \/ f.conn = c
    BY <1>3, <1>10
  <1>13. FunctorOK(f0, k.loop, conn')
    BY <1>1, <1>2, <1>5, Facts DEF FunctorOK, Bare
  <1>14. Linked(c)'
    BY <1>1, <1>6, <1>8 DEF Linked, Added
  <1>15. conn' = [conn EXCEPT ![c] = k]
    BY <1>1, <1>2, ConnFacts
  <1>16. /\ \A m \in Loops : c \in active'[m] => k.channel.interest.in
         /\ \A m \in Loops : \A f \in Elems(queue[m]) :
              f.conn = c =>
                  /\ f.kind = "connectEstablished" => k.ups = 0
                  /\ f.kind \in Bare /\ AppKeepsPtr => k.app # "none"
    BY <1>1, <1>2, ConnFacts
  <1>17. /\ active' \in [Loops -> SUBSET (Ids \cup {acceptChannel})]
         /\ \A m \in Loops : active'[m] \subseteq active[m]
         /\ calls' \in 0..setup.calls /\ revents' \in [Ids -> SUBSET Events]
    BY <1>1 DEF IInv, TypeOK
  <1>18. \A m \in Loops : \A f \in Elems(queue'[m]) :
            \/ f \in Elems(queue[m])
            \/ /\ f.conn = c /\ f.kind # "connectEstablished"
               /\ FunctorOK(f, m, conn')
    BY <1>5, <1>11, <1>13
  <1>19. /\ connections' \subseteq connections
         /\ \A d \in connections : d \in connections' \/ d = c
    BY <1>1
  <1>20. \A m \in Loops : \A d : Overtaken(queue'[m], d) => Overtaken(queue[m], d)
    BY <1>3, <1>5, <1>8, AddedOrder
  <1>21. SendOK(c)'
    <2>1. \A m \in Loops : Functor("sendInLoop", c) \in Elems(queue'[m])
                            => Functor("sendInLoop", c) \in Elems(queue[m])
      <3>1. Functor("sendInLoop", c).kind = "sendInLoop"
        BY DEF Functor
      <3> QED
        BY <1>5, <1>11, <3>1
    <2>2. "shutdown" \notin setup.off => k.state = "kDisconnected"
      BY <1>2, <1>4 DEF SendOK, Sendable
    <2> QED
      BY <1>1, <1>4, <2>1, <2>2 DEF SendOK, NoSend, Ending
  <1>22. StepOn(c, k)
    BY <1>1, <1>2, <1>4, <1>8, <1>12, <1>14, <1>15, <1>16, <1>17,
       <1>18, <1>19, <1>20, <1>21 DEF StepOn
  <1> QED
    BY <1>22, OneConnection

-----------------------------------------------------------------------------
(* Accepting a client.                                                     *)

LEMMA LoopCount ==
    ASSUME setup \in Setups
    PROVE  /\ numThreads \in Nat /\ Cardinality(IoLoops) \in Nat \ {0}
           /\ numThreads # 0 =>
                Cardinality(IoLoops) = numThreads /\ 1..numThreads \subseteq Loops
  <1>1. numThreads \in Nat
    BY TcpServerAssumptions DEF TcpServerAssumptions, SetupType, numThreads
  <1>2. CASE numThreads = 0
    <2>1. Cardinality({BaseLoop}) = 1
      BY FS_Singleton
    <2> QED
      BY <1>1, <1>2, <2>1 DEF IoLoops
  <1>3. CASE numThreads # 0
    <2>1. Cardinality(1..numThreads) = numThreads
      BY <1>1, <1>3, FS_Interval
    <2>2. 1..numThreads \subseteq Loops
      BY DEF Loops, numThreads
    <2> QED
      BY <1>1, <1>3, <2>1, <2>2 DEF IoLoops
  <1> QED
    BY <1>2, <1>3

LEMMA NextLoop ==
    ASSUME TypeOK, numThreads # 0
    PROVE  next + 1 \in Loops
  <1>1. /\ numThreads \in Nat /\ next \in Nat /\ next < numThreads
        /\ 1..numThreads \subseteq Loops
    BY LoopCount DEF TypeOK
  <1>2. next + 1 \in 1..numThreads
    BY <1>1
  <1> QED
    BY <1>1, <1>2

LEMMA AfterNextOK ==
    ASSUME TypeOK
    PROVE  AfterNext \in Nat /\ AfterNext < Cardinality(IoLoops)
  <1>1. Cardinality(IoLoops) \in Nat \ {0} /\ next \in Nat
    BY LoopCount DEF TypeOK
  <1>2. \A a \in Nat, b \in Nat \ {0} : a % b \in Nat /\ a % b < b
    OBVIOUS
  <1>3. next + 1 \in Nat
    BY <1>1
  <1> QED
    BY <1>1, <1>2, <1>3 DEF AfterNext

LEMMA AcceptFailsStep ==
    ASSUME IInv, handleRead, AcceptFails
    PROVE  IInv'
  <1>1. /\ active' = [active EXCEPT ![BaseLoop] = @ \ {acceptChannel}]
        /\ UNCHANGED <<setup, server, listenning, nextConnId, next,
                       connections, conn, queue, revents, running, clients,
                       backlog, calls>>
    BY DEF handleRead, AcceptFails
  <1>2. /\ active' \in [Loops -> SUBSET (Ids \cup {acceptChannel})]
        /\ \A l \in Loops : active'[l] \subseteq active[l]
    BY <1>1 DEF IInv, TypeOK
  <1>3. TypeOK' /\ StageInv' /\ AcceptInv'
    BY <1>1, <1>2, Frame DEF IInv, TypeOK
  <1>4. ConnInv' /\ FunctorInv' /\ OrderInv' /\ LinkInv' /\ SendInv'
    BY <1>1 DEF IInv, ConnInv, FunctorInv, OrderInv, LinkInv, Linked, SendInv,
                SendOK, NoSend, Sendable, Ending
  <1>5. ActiveInv'
    BY <1>1, <1>2 DEF IInv, ActiveInv
  <1> QED
    BY <1>3, <1>4, <1>5 DEF IInv

(* The new connection is in the map, and no functor names it yet. *)
LEMMA NewConnectionStep ==
    ASSUME IInv, handleRead, newConnection, backlog' = backlog - 1,
           UNCHANGED listenning
    PROVE  IInv'
  <1>1. PICK c : c = nextConnId
    OBVIOUS
  <1>2. PICK l : l = IF numThreads = 0 THEN BaseLoop ELSE next + 1
    OBVIOUS
  <1>3. l \in Loops
    BY <1>2, NextLoop, Facts DEF IInv
  <1>4. /\ acceptChannel \in active[BaseLoop]
        /\ active' = [active EXCEPT ![BaseLoop] = @ \ {acceptChannel}]
        /\ UNCHANGED <<setup, server, revents, running, clients, calls>>
        /\ next' = AfterNext /\ nextConnId' = nextConnId + 1
        /\ connections' = connections \cup {c}
    BY <1>1 DEF handleRead, newConnection
  <1>5. /\ conn \in Seq(ConnType) /\ Len(conn) \in Nat /\ c = Len(conn) + 1
        /\ DOMAIN conn = 1..Len(conn) /\ QueuesOK(queue)
    BY <1>1, Facts DEF IInv, TypeOK
  <1>6. server = "looping" /\ backlog > 0
    BY <1>4, Facts DEF IInv, StageInv, ActiveInv
  <1>7. c \in Ids /\ c <= MaxClients
    <2>1. /\ backlog \in Int /\ clients \in Int /\ clients <= MaxClients
          /\ MaxClients \in Int /\ Len(conn) + backlog = clients
      BY TcpServerAssumptions
         DEF TcpServerAssumptions, IInv, TypeOK, AcceptInv
    <2> QED
      BY <1>5, <1>6, <2>1 DEF Ids
  <1>8. /\ \A m \in Loops : \A f \in Elems(queue[m]) : f.conn \in DOMAIN conn
        /\ c \notin DOMAIN conn
    BY <1>5, Facts DEF IInv, FunctorInv, FunctorOK
  <1>9. PICK y \in ConnType :
            /\ conn' = Append(conn, y) /\ ConnOK(y) /\ y.loop = l
            /\ y.app \in {"none", "held"}
            /\ \/ queue' = queue
               \/ /\ y.ups = 0
                  /\ Adds(queue, queue', l, Functor("connectEstablished", c))
    <2> DEFINE n == NewTcpConnection(l)
    <2>1. /\ n \in ConnType /\ ConnOK(n) /\ n.loop = l /\ n.ups = 0
          /\ n.app = "none"
      BY <1>3, NewOK
    <2> HIDE DEF n
    <2>2. CASE l = BaseLoop
      <3>1. PICK app \in {"none", "held"} :
                conn' = Append(conn, connectEstablished(n, app))
        BY <1>2, <2>2 DEF newConnection, n
      <3>2. queue' = queue
        BY <1>2, <2>2 DEF newConnection
      <3>3. /\ connectEstablished(n, app) \in ConnType
            /\ ConnOK(connectEstablished(n, app))
            /\ connectEstablished(n, app).loop = l
            /\ connectEstablished(n, app).app = app
        BY <2>1, EstablishedOK
      <3> QED
        BY <3>1, <3>2, <3>3
    <2>3. CASE l # BaseLoop
      <3>1. /\ conn' = Append(conn, n)
            /\ Adds(queue, queue', l, Functor("connectEstablished", c))
        BY <1>1, <1>2, <2>3 DEF newConnection, n, Adds
      <3> QED
        BY <2>1, <3>1
    <2> QED
      BY <2>2, <2>3
  <1>10. /\ conn' \in Seq(ConnType) /\ Len(conn') = Len(conn) + 1
         /\ DOMAIN conn' = DOMAIN conn \cup {c}
         /\ conn'[c] = y
         /\ \A d \in DOMAIN conn : conn'[d] = conn[d]
    <2>1. /\ conn' \in Seq(ConnType) /\ Len(conn') = Len(conn) + 1
          /\ \A d \in 1..Len(conn) : conn'[d] = conn[d]
          /\ conn'[Len(conn) + 1] = y
      BY <1>5, <1>9, AppendProperties
    <2>2. DOMAIN conn' = 1..(Len(conn) + 1)
      BY <2>1
    <2>3. 1..(Len(conn) + 1) = 1..Len(conn) \cup {Len(conn) + 1}
      BY <1>5
    <2> QED
      BY <1>5, <2>1, <2>2, <2>3
  <1> DEFINE f0 == Functor("connectEstablished", c)
  <1>11. f0 \in Functors /\ f0.kind = "connectEstablished" /\ f0.conn = c
    BY <1>7, FunctorType DEF Owning
  <1> HIDE DEF f0
  <1>12. /\ QueuesOK(queue')
         /\ \A m \in Loops : \A f \in Elems(queue[m]) : f \in Elems(queue'[m])
         /\ \A m \in Loops : \A f \in Elems(queue'[m]) :
                f \in Elems(queue[m]) \/ (m = l /\ f = f0 /\ y.ups = 0)
         /\ \A m \in Loops : \A d :
                Overtaken(queue'[m], d) => Overtaken(queue[m], d)
    <2>1. CASE queue' = queue
      BY <1>5, <2>1
    <2>2. CASE y.ups = 0 /\ Adds(queue, queue', l, f0)
      <3>1. MayAdd(queue, l, f0)
        BY <1>3, <1>8, <1>11 DEF MayAdd
      <3>2. QueuesOK(queue') /\ Added(queue, queue', l, f0)
        BY <1>5, <2>2, <3>1, QueueAppend
      <3>3. \A m \in Loops : \A d :
                Overtaken(queue'[m], d) => Overtaken(queue[m], d)
        BY <1>11, <3>2, AddedOrder
      <3> QED
        BY <2>2, <3>2, <3>3 DEF Added
    <2> QED
      BY <1>9, <2>1, <2>2 DEF f0
  <1>13. /\ active' \in [Loops -> SUBSET (Ids \cup {acceptChannel})]
         /\ \A m \in Loops : active'[m] \subseteq active[m]
         /\ acceptChannel \notin active'[BaseLoop]
    BY <1>4, Facts DEF IInv, TypeOK
  <1>14. /\ backlog' \in 0..clients'
         /\ Len(conn') + backlog' = clients'
    <2>1. /\ backlog \in Int /\ clients \in Int /\ backlog <= clients
          /\ Len(conn) + backlog = clients
      BY TcpServerAssumptions
         DEF TcpServerAssumptions, IInv, TypeOK, AcceptInv
    <2> QED
      BY <1>4, <1>5, <1>6, <1>10, <2>1, SMTT(30)
  <1>15. TypeOK'
    <2>1. nextConnId' = Len(conn') + 1 /\ Len(conn') <= MaxClients
      BY <1>1, <1>4, <1>5, <1>7, <1>10
    <2>2. /\ next' \in Nat /\ next' < Cardinality(IoLoops)
          /\ IoLoops' = IoLoops
      BY <1>4, AfterNextOK DEF IInv, IoLoops, numThreads
    <2>3. connections' \subseteq DOMAIN conn'
      BY <1>4, <1>10 DEF IInv, TypeOK
    <2> QED
      BY <1>4, <1>10, <1>12, <1>13, <1>14, <2>1, <2>2, <2>3
         DEF IInv, TypeOK, QueuesOK
  <1>16. StageInv' /\ AcceptInv'
    BY <1>4, <1>6, <1>13, <1>14 DEF IInv, StageInv, AcceptInv
  <1>17. ConnInv'
    BY <1>9, <1>10, Facts DEF ConnInv
  <1>18. ActiveInv'
    <2> SUFFICES ASSUME NEW m \in Loops, NEW d \in active'[m]
                 PROVE  IF d = acceptChannel
                        THEN m = BaseLoop => backlog' > 0
                        ELSE /\ d \in DOMAIN conn'
                             /\ conn'[d].loop = m
                             /\ conn'[d].channel.interest.in
      BY DEF ActiveInv
    <2>1. d \in active[m]
      BY <1>13
    <2>2. d # acceptChannel => /\ d \in DOMAIN conn
                               /\ conn[d].loop = m
                               /\ conn[d].channel.interest.in
      BY <2>1 DEF IInv, ActiveInv
    <2> QED
      BY <1>10, <1>13, <2>2
  <1>19. FunctorInv' /\ OrderInv'
    <2>1. ASSUME NEW m \in Loops, NEW f \in Elems(queue'[m])
          PROVE  FunctorOK(f, m, conn')
      <3>1. CASE f \in Elems(queue[m])
        <4>1. FunctorOK(f, m, conn) /\ f.conn \in DOMAIN conn
          BY <1>8, <3>1 DEF IInv, FunctorInv
        <4>2. f.conn \in 1..Len(conn')
          BY <1>5, <1>10, <4>1
        <4> QED
          BY <1>10, <4>1, <4>2 DEF FunctorOK
      <3>2. CASE m = l /\ f = f0 /\ y.ups = 0
        <4>1. c \in 1..Len(conn')
          BY <1>5, <1>10
        <4> QED
          BY <1>9, <1>10, <1>11, <3>2, <4>1 DEF FunctorOK, Bare
      <3> QED
        BY <1>12, <3>1, <3>2
    <2> QED
      BY <1>12, <2>1 DEF FunctorInv, OrderInv, QueuesOK
  <1>20. LinkInv'
    <2>1. Linked(c)'
      BY <1>4 DEF Linked
    <2>2. ASSUME NEW d \in DOMAIN conn PROVE Linked(d)'
      <3>1. conn[d].loop \in Loops /\ d # c
        BY <1>8, Facts
      <3>2. ASSUME NEW kind \in {"connectDestroyed", "connectEstablished"}
            PROVE  Functor(kind, d) \in Elems(queue'[conn[d].loop])
                    <=> Functor(kind, d) \in Elems(queue[conn[d].loop])
        <4>1. Functor(kind, d).conn = d
          BY DEF Functor
        <4> QED
          BY <1>11, <1>12, <3>1, <4>1
      <3> QED
        BY <1>4, <1>10, <3>2, LinkKeep
    <2> QED
      BY <1>10, <2>1, <2>2 DEF LinkInv
  <1>21. SendInv'
    <2>1. \A m \in Loops, kind \in Owning \cup Bare :
            kind # "connectEstablished" => Functor(kind, c) \notin Elems(queue'[m])
      <3>1. \A kind : Functor(kind, c).kind = kind /\ Functor(kind, c).conn = c
        BY DEF Functor
      <3> QED
        BY <1>8, <1>11, <1>12, <3>1
    <2>2. ~Overtaken(queue'[l], c)
      BY <1>3, <2>1 DEF Overtaken, Elems, Owning, Bare, QueuesOK
    <2>3. SendOK(c)'
      BY <1>3, <1>4, <1>6, <1>9, <1>10, <2>1, <2>2
         DEF SendOK, NoSend, Sendable, Ending, Owning, Bare
    <2>4. ASSUME NEW d \in DOMAIN conn PROVE SendOK(d)'
      <3>1. \A m \in Loops : \A f \in Elems(queue'[m]) :
                f \in Elems(queue[m]) \/ f.conn # d
        BY <1>8, <1>11, <1>12
      <3> QED
        BY <1>4, <1>10, <1>12, <3>1, SendKeep
    <2> QED
      BY <1>10, <2>3, <2>4 DEF SendInv
  <1> QED
    BY <1>15, <1>16, <1>17, <1>18, <1>19, <1>20, <1>21 DEF IInv

-----------------------------------------------------------------------------
LEMMA IInvInit == Init => IInv
  <1> SUFFICES ASSUME Init PROVE IInv
    OBVIOUS
  <1>1. /\ conn = <<>> /\ Len(conn) = 0 /\ DOMAIN conn = {}
        /\ conn \in Seq(ConnType)
    BY DEF Init
  <1>2. setup \in Setups /\ setup.calls \in Nat /\ MaxClients \in Nat
    BY TcpServerAssumptions DEF TcpServerAssumptions, SetupType, Init
  <1>3. 0 < Cardinality(IoLoops)
    <2>1. Cardinality(IoLoops) \in Nat \ {0}
      BY <1>2, LoopCount
    <2> QED
      BY <2>1
  <1>4. /\ queue \in [Loops -> Seq(Functors)]
        /\ active \in [Loops -> SUBSET (Ids \cup {acceptChannel})]
        /\ running \in [Loops -> BOOLEAN]
        /\ revents \in [Ids -> SUBSET Events]
    BY DEF Init
  <1>5. /\ nextConnId = Len(conn) + 1 /\ Len(conn) <= MaxClients
        /\ clients \in 0..MaxClients /\ backlog \in 0..clients
        /\ connections \subseteq DOMAIN conn /\ next \in Nat
        /\ next < Cardinality(IoLoops) /\ calls \in 0..setup.calls
    BY <1>1, <1>2, <1>3 DEF Init
  <1>6. TypeOK
    BY <1>1, <1>4, <1>5 DEF Init, TypeOK, Stages
  <1>7. StageInv /\ AcceptInv /\ ConnInv /\ ActiveInv /\ LinkInv /\ SendInv
    BY <1>1 DEF Init, StageInv, AcceptInv, ConnInv, ActiveInv, LinkInv,
                SendInv, Loops
  <1>8. FunctorInv /\ OrderInv
    BY DEF Init, FunctorInv, OrderInv, Elems, EstablishedFirst
  <1> QED
    BY <1>6, <1>7, <1>8 DEF IInv

LEMMA IInvNext ==
    ASSUME OneKind
    PROVE  IInv /\ [Next]_vars => IInv'
  <1> SUFFICES ASSUME IInv, [Next]_vars PROVE IInv'
    OBVIOUS
  <1>1. CASE Start \/ EnterLoop \/ LeaveLoop \/ ClientConnects
    BY <1>1, StageSteps
  <1>2. CASE Destruction
    <2>1. CASE BeginDestruction \/ DestroyPool \/ DestroyAcceptor
      BY <2>1, StageSteps
    <2>2. CASE \E c \in DOMAIN conn : DestroyConnection(c)
      BY <2>2, DestroyConnectionStep
    <2>3. CASE \E l \in Loops : IoLoopEnds(l)
      BY <2>3, IoLoopEndsStep
    <2> QED
      BY <1>2, <2>1, <2>2, <2>3 DEF Destruction
  <1>3. CASE handleRead
    <2>1. CASE AcceptFails
      BY <1>3, <2>1, AcceptFailsStep
    <2>2. CASE ~AcceptFails
      <3>1. newConnection /\ backlog' = backlog - 1 /\ UNCHANGED listenning
        BY <1>3, <2>2 DEF handleRead
      <3> QED
        BY <1>3, <3>1, NewConnectionStep
    <2> QED
      BY <2>1, <2>2
  <1>4. CASE RunRemoveConnection
    BY <1>4, RunRemoveConnectionStep
  <1>5. CASE \E l \in Loops : LoopStep(l) \/ RunOnConnection(l)
    <2>1. PICK l \in Loops : LoopStep(l) \/ RunOnConnection(l)
      BY <1>5
    <2>2. CASE Poll(l)
      BY <2>2, PollStep
    <2>3. CASE \E c \in DOMAIN conn : ConnectionCloses(l, c)
      BY <2>3, ConnectionClosesStep
    <2>4. CASE \E c \in DOMAIN conn : ConnectionEvent(l, c)
      BY <2>4, ConnectionEventStep
    <2>5. CASE RunOnConnection(l)
      BY <2>5, RunOnConnectionStep
    <2> QED
      BY <2>1, <2>2, <2>3, <2>4, <2>5 DEF LoopStep
  <1>6. ASSUME NEW c \in DOMAIN conn,
               \/ UserSends(c) \/ UserShuts(c)
               \/ SendCheck(c) \/ ShutdownCheck(c) \/ AppContinues(c)
               \/ AppDrops(c) \/ PeerCloses(c) \/ PeerResets(c)
        PROVE  IInv'
    <2>1. CASE UserSends(c) \/ UserShuts(c)
      BY <2>1, UserSteps
    <2>2. CASE PeerCloses(c) \/ PeerResets(c)
      BY <2>2, PeerSteps
    <2>3. CASE SendCheck(c) \/ ShutdownCheck(c) \/ AppContinues(c) \/ AppDrops(c)
      BY <2>3, AppSteps
    <2> QED
      BY <1>6, <2>1, <2>2, <2>3
  <1>7. CASE UNCHANGED vars
    BY <1>7, StageSteps
  <1> QED
    BY <1>1, <1>2, <1>3, <1>4, <1>5, <1>6, <1>7 DEF Next

(* The inductive invariant holds throughout, from start() to the end of    *)
(* ~TcpServer, when the application's threads send() or shutdown().        *)
THEOREM IInvCorrect ==
    ASSUME OneKind
    PROVE  Spec => []IInv
  <1>1. IInv /\ [Next]_vars => IInv'
    BY IInvNext
  <1> QED
    BY <1>1, IInvInit, PTL DEF Spec

(* With any number of threads, clients, descriptors and calls the server's *)
(* variables keep their types: getNextLoop never runs past the loops of    *)
(* the pool, and the map names connections that were made.                 *)
THEOREM TypeCorrect ==
    ASSUME OneKind
    PROVE  Spec => []TypeOK
  <1>1. IInv => TypeOK
    BY DEF IInv
  <1>2. Spec => []IInv
    BY IInvCorrect
  <1> QED
    BY <1>1, <1>2, PTL

(* The connection callback reports every connection up once at most, and   *)
(* down once at most and only after it was up, whether its peer closes or  *)
(* resets it or ~TcpServer ends it, and whatever sends and output are      *)
(* under way then: sendInLoop (TcpConnection.cc:95-153) puts no channel    *)
(* back in the poller after connectDestroyed.  The application's threads   *)
(* send() or shutdown() (OneKind), and keep their TcpConnectionPtr until   *)
(* the functors that bind a bare this have run.                            *)
THEOREM ReportedUpThenDown ==
    ASSUME OneKind, AppKeepsPtr
    PROVE  Spec => []UpThenDown
  <1>1. IInv => UpThenDown
    BY DEF IInv, ConnInv, ConnOK, UpThenDown
  <1>2. Spec => []IInv
    BY IInvCorrect
  <1> QED
    BY <1>1, <1>2, PTL

-----------------------------------------------------------------------------
LEMMA ChannelsOwned == IInv => ChannelsFindConnection
  <1> SUFFICES ASSUME IInv, NEW c \in DOMAIN conn, NEW l \in Loops, running[l],
                      c \in active[l]
                        \/ (conn[c].loop = l /\ conn[c].channel.mapped)
               PROVE  Alive(c)
    BY DEF ChannelsFindConnection
  <1>1. conn[c] \in ConnType /\ ConnOK(conn[c])
    BY Facts
  <1>2. conn[c].loop = l /\ conn[c].channel.mapped
    BY <1>1, ConnFacts DEF ConnOK, Consistent
  <1>3. \/ c \in connections
        \/ Functor("connectDestroyed", c) \in Elems(queue[l])
    BY <1>2 DEF IInv, LinkInv, Linked
  <1>4. /\ Functor("connectDestroyed", c).conn = c
        /\ Functor("connectDestroyed", c).kind \in Owning
    BY DEF Functor, Owning
  <1> QED
    BY <1>3, <1>4 DEF Alive, Queued, Elems

(* Under the same two conditions nothing dangles: the functors of send()   *)
(* and shutdown() that bind a bare this (TcpConnection.cc:69 and 160) find *)
(* their connection, and a Channel that the poller of a running loop knows *)
(* or that waits to be handled belongs to a TcpConnection that has not     *)
(* been deleted (TcpConnection.cc:177-178), late sends included.           *)
THEOREM NothingEverDangles ==
    ASSUME OneKind, AppKeepsPtr
    PROVE  Spec => []NothingDangles
  <1>1. ASSUME IInv PROVE NothingDangles
    <2>1. ASSUME NEW l \in Loops, NEW f \in Elems(queue[l])
          PROVE  Alive(f.conn)
      <3>1. FunctorOK(f, l, conn) /\ f \in Functors
        BY Facts, <1>1 DEF IInv, FunctorInv, Elems
      <3>2. CASE f.kind \in Owning
        BY <3>2 DEF Alive, Queued, Elems
      <3>3. CASE f.kind \in Bare
        BY <3>1, <3>3 DEF FunctorOK, Alive
      <3> QED
        BY <3>1, <3>2, <3>3 DEF Functors
    <2>2. FunctorsFindConnection
      BY <2>1 DEF FunctorsFindConnection, Queued, Elems
    <2> QED
      BY <1>1, <2>2, ChannelsOwned DEF NothingDangles
  <1>2. Spec => []IInv
    BY IInvCorrect
  <1> QED
    BY <1>1, <1>2, PTL
=============================================================================
