------------------------ MODULE TcpConnectionProofs -------------------------
(***************************************************************************)
(* Proofs about module TcpConnection, for any number of workers, messages  *)
(* and bytes, any kernel buffer and any peer.                              *)
(***************************************************************************)
EXTENDS TcpConnection, TLAPS, SequenceTheorems

(* No functor of a queue destroys the connection. *)
Harmless(q) == \A i \in 1..Len(q) : q[i] # Task("connectDestroyed")

(* connectDestroyed is queued only after the connection went down. *)
DownInv == downs = 0 => baseTasks = 0 /\ Harmless(tasks)

(* Buffered bytes keep the channel writing, and a writing channel is       *)
(* registered.                                                             *)
OutputInv ==
    downs = 0 =>
        /\ outputBuffer # <<>> => isWriting(channel)
        /\ isWriting(channel) => channel.index = "kAdded"

IInv ==
    /\ TypeOK
    /\ PollerConsistent
    /\ DownInv
    /\ OutputInv
    /\ InOrder

-----------------------------------------------------------------------------
(* The channel: whatever is asked of its poller, index_, channels_ and the *)
(* epoll set stay in step.                                                 *)

(* What updateChannel relies on: the registration is coherent; events_     *)
(* may have just changed.                                                  *)
Registered(ch) ==
    /\ ~ch.fatal
    /\ ch.mapped <=> ch.index # "kNew"
    /\ ch.interest.in <=> ch.index = "kAdded"

(* updateChannel leaves the poller consistent and watches every channel    *)
(* that has events.                                                        *)
LEMMA UpdateChannel ==
    ASSUME NEW ch \in ChannelType, Registered(ch)
    PROVE  /\ updateChannel(ch) \in ChannelType
           /\ Consistent(updateChannel(ch))
           /\ updateChannel(ch).events = ch.events
           /\ ch.events # {} => updateChannel(ch).index = "kAdded"
  <1> USE DEF ChannelType, Registered, Consistent, updateChannel, EpollAdd,
              EpollMod, EpollDel, isNoneEvent, InEpoll, NotInEpoll, kNoneEvent,
              AllEvents
  <1>1. CASE ch.index = "kNew"
    BY <1>1
  <1>2. CASE ch.index = "kDeleted"
    BY <1>2
  <1>3. CASE ch.index = "kAdded" /\ ch.events = {}
    BY <1>3
  <1>4. CASE ch.index = "kAdded" /\ ch.events # {}
    BY <1>4
  <1> QED
    BY <1>1, <1>2, <1>3, <1>4

(* Changing events_ alone keeps the registration coherent. *)
LEMMA SetEvents ==
    ASSUME NEW ch \in ChannelType, Consistent(ch), NEW ev \in SUBSET AllEvents
    PROVE  /\ [ch EXCEPT !.events = ev] \in ChannelType
           /\ Registered([ch EXCEPT !.events = ev])
           /\ [ch EXCEPT !.events = ev].events = ev
  BY DEF ChannelType, Consistent, Registered

(* enableReading: the channel is watched for what it was and for reading. *)
LEMMA EnableReading ==
    ASSUME NEW ch \in ChannelType, Consistent(ch)
    PROVE  /\ enableReading(ch) \in ChannelType
           /\ Consistent(enableReading(ch))
           /\ enableReading(ch).events = ch.events \cup kReadEvent
           /\ enableReading(ch).index = "kAdded"
  <1> DEFINE ev == ch.events \cup kReadEvent
  <1>1. ev \in SUBSET AllEvents /\ ev # {}
    BY DEF ChannelType, AllEvents, kReadEvent
  <1>2. enableReading(ch) = updateChannel([ch EXCEPT !.events = ev])
    BY DEF enableReading
  <1> HIDE DEF ev
  <1>3. QED
    BY <1>1, <1>2, SetEvents, UpdateChannel DEF ev

(* enableWriting: the channel is watched, for writing too. *)
LEMMA EnableWriting ==
    ASSUME NEW ch \in ChannelType, Consistent(ch)
    PROVE  /\ enableWriting(ch) \in ChannelType
           /\ Consistent(enableWriting(ch))
           /\ isWriting(enableWriting(ch))
           /\ enableWriting(ch).index = "kAdded"
  <1> DEFINE ev == ch.events \cup kWriteEvent
  <1>1. ev \in SUBSET AllEvents /\ ev # {} /\ kWriteEvent \subseteq ev
    BY DEF ChannelType, AllEvents, kWriteEvent
  <1>2. enableWriting(ch) = updateChannel([ch EXCEPT !.events = ev])
    BY DEF enableWriting
  <1> HIDE DEF ev
  <1>3. PICK c \in ChannelType : /\ c = [ch EXCEPT !.events = ev]
                                 /\ Registered(c) /\ c.events = ev
    BY <1>1, SetEvents
  <1>4. /\ updateChannel(c) \in ChannelType /\ Consistent(updateChannel(c))
        /\ updateChannel(c).events = ev /\ updateChannel(c).index = "kAdded"
    BY <1>1, <1>3, UpdateChannel
  <1>5. isWriting(updateChannel(c))
    BY <1>1, <1>4 DEF isWriting, kWriteEvent
  <1> QED
    BY <1>2, <1>3, <1>4, <1>5

(* disableWriting, which keeps only kWriteEvent, and disableAll. *)
LEMMA Disable ==
    ASSUME NEW ch \in ChannelType, Consistent(ch)
    PROVE  /\ disableWriting(ch) \in ChannelType
           /\ Consistent(disableWriting(ch))
           /\ isWriting(disableWriting(ch))
                => disableWriting(ch).index = "kAdded"
           /\ disableAll(ch) \in ChannelType
           /\ Consistent(disableAll(ch))
  <1>1. ASSUME NEW ev \in SUBSET AllEvents
        PROVE  /\ updateChannel([ch EXCEPT !.events = ev]) \in ChannelType
               /\ Consistent(updateChannel([ch EXCEPT !.events = ev]))
               /\ isWriting(updateChannel([ch EXCEPT !.events = ev]))
                    => updateChannel([ch EXCEPT !.events = ev]).index = "kAdded"
    BY SetEvents, UpdateChannel DEF isWriting, kWriteEvent
  <1>2. /\ ch.events \cap kWriteEvent \in SUBSET AllEvents
        /\ ch.events \cap kNoneEvent \in SUBSET AllEvents
    BY DEF AllEvents, kNoneEvent
  <1>3. /\ disableWriting(ch) \in ChannelType
        /\ Consistent(disableWriting(ch))
        /\ isWriting(disableWriting(ch))
             => disableWriting(ch).index = "kAdded"
    BY <1>1, <1>2 DEF disableWriting
  <1>4. disableAll(ch) \in ChannelType /\ Consistent(disableAll(ch))
    BY <1>1, <1>2 DEF disableAll
  <1> QED
    BY <1>3, <1>4

(* removeChannel. *)
LEMMA Remove ==
    ASSUME NEW ch \in ChannelType, Consistent(ch)
    PROVE  removeChannel(ch) \in ChannelType /\ Consistent(removeChannel(ch))
  BY DEF removeChannel, EpollDel, NotInEpoll, ChannelType, Consistent,
         AllEvents

-----------------------------------------------------------------------------
(* The socket and the output buffer.                                       *)

LEMMA MinOfTwo ==
    ASSUME NEW a \in Int, NEW b \in Int
    PROVE  Min({a, b}) \in Int /\ Min({a, b}) <= a /\ Min({a, b}) <= b
  <1>1. \E x \in {a, b} : \A y \in {a, b} : x =< y
    OBVIOUS
  <1> QED
    BY <1>1 DEF Min

(* ::write takes no more than it is given and than there is room for. *)
LEMMA WriteResult ==
    ASSUME sock \in SockType, NEW n \in Nat, NEW r \in WriteResults(n)
    PROVE  /\ r \in Int /\ r <= n
           /\ AfterWrite(r) \in SockType
           /\ AfterWrite(r).unread = sock.unread
  <1>1. sock.inflight \in 0..SndBuf /\ SndBuf \in Nat
    BY TcpConnectionAssumptions DEF SockType, TcpConnectionAssumptions
  <1>2. /\ r \in Int /\ r <= n
        /\ r > 0 => sock.inflight + r \in 0..SndBuf
    <2>1. PICK room \in Int : room = SndBuf - sock.inflight
      BY <1>1
    <2>2. Min({n, room}) \in Int /\ Min({n, room}) <= n /\ Min({n, room}) <= room
      BY <2>1, MinOfTwo, SMTT(30)
    <2> DEFINE k == Min({n, room})
    <2> HIDE DEF k
    <2>3. r \in {Fault, Again, 0} \/ r \in 1..k
      BY <2>1 DEF WriteResults, k
    <2>4. CASE r \in {Fault, Again, 0}
      BY <1>1, <2>4 DEF Fault, Again
    <2>5. CASE r \in 1..k
      <3>1. k \in Int /\ k <= n /\ k <= room
        BY <2>2 DEF k
      <3> QED
        BY <1>1, <2>1, <2>5, <3>1
    <2> QED
      BY <2>3, <2>4, <2>5
  <1>3. AfterWrite(r) \in SockType /\ AfterWrite(r).unread = sock.unread
    BY <1>2 DEF AfterWrite, SockType
  <1> QED
    BY <1>2, <1>3

(* Cutting a sequence anywhere loses nothing. *)
LEMMA Cut ==
    ASSUME NEW S, NEW s \in Seq(S), NEW k \in 0..Len(s)
    PROVE  /\ SubSeq(s, 1, k) \in Seq(S)
           /\ SubSeq(s, k + 1, Len(s)) \in Seq(S)
           /\ SubSeq(s, 1, k) \o SubSeq(s, k + 1, Len(s)) = s
           /\ SubSeq(s, k + 1, Len(s)) = <<>> <=> k = Len(s)
  <1>1. Len(s) \in Nat /\ k \in Nat
    OBVIOUS
  <1>2. \A i \in 1..Len(s) : s[i] \in S
    OBVIOUS
  <1>3. /\ SubSeq(s, 1, k) \in Seq(S)
        /\ Len(SubSeq(s, 1, k)) = k
        /\ \A i \in 1..k : SubSeq(s, 1, k)[i] = s[i]
    BY <1>1, <1>2, SubSeqProperties
  <1>4. /\ SubSeq(s, k + 1, Len(s)) \in Seq(S)
        /\ Len(SubSeq(s, k + 1, Len(s))) = Len(s) - k
        /\ \A i \in 1..(Len(s) - k) :
                SubSeq(s, k + 1, Len(s))[i] = s[k + i]
    BY <1>1, <1>2, SubSeqProperties
  <1>5. SubSeq(s, 1, k) \o SubSeq(s, k + 1, Len(s)) = SubSeq(s, 1, Len(s))
    <2>1. CASE Len(s) = 0
      BY <1>1, <2>1, SubSeqEmpty
    <2>2. CASE Len(s) # 0
      <3>1. /\ 1 \in 1..(Len(s) + 1) /\ k \in (1 - 1)..Len(s)
            /\ Len(s) \in k..Len(s)
        BY <1>1, <2>2
      <3> QED
        BY <3>1, ConcatAdjacentSubSeq
    <2> QED
      BY <2>1, <2>2
  <1>6. SubSeq(s, 1, Len(s)) = s
    BY SubSeqFull
  <1>7. SubSeq(s, k + 1, Len(s)) = <<>> <=> k = Len(s)
    <2> DEFINE t == SubSeq(s, k + 1, Len(s))
    <2> HIDE DEF t
    <2>1. t \in Seq(S) /\ Len(t) = Len(s) - k
      BY <1>4 DEF t
    <2>2. t = <<>> <=> Len(t) = 0
      BY <2>1, EmptySeq
    <2>3. t = <<>> <=> k = Len(s)
      BY <1>1, <2>1, <2>2
    <2> QED
      BY <2>3 DEF t
  <1> QED
    BY <1>3, <1>4, <1>5, <1>6, <1>7

(* The order in which three sequences are joined does not matter. *)
Associates(s, t, u) == (s \o t) \o u = s \o (t \o u)

LEMMA Associative ==
    ASSUME NEW s \in Seq(AllBytes), NEW t \in Seq(AllBytes),
           NEW u \in Seq(AllBytes)
    PROVE  Associates(s, t, u)
  <1>1. (s \o t) \o u = s \o (t \o u)
    OBVIOUS
  <1> QED
    BY <1>1 DEF Associates

LEMMA Joined ==
    ASSUME NEW S, NEW s \in Seq(S), NEW t \in Seq(S)
    PROVE  s \o t \in Seq(S)
  OBVIOUS

LEMMA MessageBytes ==
    ASSUME NEW m \in Messages
    PROVE  Bytes(m) \in Seq(AllBytes) /\ Len(Bytes(m)) = MsgLen
             /\ MsgLen \in Nat
  <1>1. MsgLen \in Nat
    BY TcpConnectionAssumptions DEF TcpConnectionAssumptions
  <1> QED
    BY <1>1 DEF Bytes, AllBytes

(* The callbacks sendInLoop queues do not destroy the connection. *)
LEMMA NoticeTasks ==
    ASSUME NEW tried, NEW r, NEW rest
    PROVE  /\ Notices(tried, r, rest) \in Seq(Tasks)
           /\ \A i \in 1..Len(Notices(tried, r, rest)) :
                Notices(tried, r, rest)[i] # Task("connectDestroyed")
  <1> DEFINE wc == Task("writeComplete")
             hw == Task("highWater")
  <1>1. wc \in Tasks /\ hw \in Tasks
    BY DEF Tasks
  <1>2. wc # Task("connectDestroyed") /\ hw # Task("connectDestroyed")
    BY DEF Task
  <1> DEFINE a == IF tried /\ r >= 0 /\ rest = <<>> THEN <<wc>> ELSE <<>>
             b == IF /\ r # Fault /\ rest # <<>>
                     /\ Len(outputBuffer) < highWaterMark
                     /\ Len(outputBuffer) + Len(rest) >= highWaterMark
                  THEN <<hw>> ELSE <<>>
  <1>3. Notices(tried, r, rest) = a \o b
    BY DEF Notices
  <1>4. a \in {<<>>, <<wc>>} /\ b \in {<<>>, <<hw>>}
    BY Zenon
  <1> HIDE DEF a, b, wc, hw
  <1>5. ASSUME NEW t \in Tasks, t # Task("connectDestroyed"),
               NEW s \in {<<>>, <<t>>}
        PROVE  /\ s \in Seq(Tasks) /\ Len(s) \in Nat
               /\ \A i \in 1..Len(s) : s[i] # Task("connectDestroyed")
    <2>1. CASE s = <<>>
      BY <2>1
    <2>2. CASE s = <<t>>
      BY <1>5, <2>2
    <2> QED
      BY <1>5, <2>1, <2>2
  <1>6. /\ a \in Seq(Tasks) /\ Len(a) \in Nat
        /\ \A i \in 1..Len(a) : a[i] # Task("connectDestroyed")
    BY <1>1, <1>2, <1>4, <1>5
  <1>7. /\ b \in Seq(Tasks) /\ Len(b) \in Nat
        /\ \A i \in 1..Len(b) : b[i] # Task("connectDestroyed")
    BY <1>1, <1>2, <1>4, <1>5
  <1> QED
    BY <1>3, <1>6, <1>7, ConcatProperties

-----------------------------------------------------------------------------
LEMMA HarmlessQueue ==
    ASSUME NEW q \in Seq(Tasks)
    PROVE  /\ \A p \in Seq(Tasks) :
                Harmless(q) /\ Harmless(p) => Harmless(q \o p)
           /\ \A t \in Tasks : Harmless(q) /\ t # Task("connectDestroyed")
                                => Harmless(Append(q, t))
           /\ q # <<>> /\ Harmless(q) => Harmless(Tail(q))
           /\ q # <<>> => Tail(q) \in Seq(Tasks)
           /\ \A t \in Tasks : Append(q, t) \in Seq(Tasks)
  <1>1. ASSUME NEW p \in Seq(Tasks), Harmless(q), Harmless(p)
        PROVE  Harmless(q \o p)
    <2>1. /\ Len(q) \in Nat /\ Len(p) \in Nat
          /\ Len(q \o p) = Len(q) + Len(p)
          /\ \A i \in 1..(Len(q) + Len(p)) :
                (q \o p)[i] = IF i <= Len(q) THEN q[i] ELSE p[i - Len(q)]
      BY ConcatProperties
    <2>2. ASSUME NEW i \in 1..(Len(q) + Len(p))
          PROVE  (q \o p)[i] # Task("connectDestroyed")
      <3>1. CASE i <= Len(q)
        <4>1. i \in 1..Len(q)
          BY <2>1, <3>1
        <4> QED
          BY <1>1, <2>1, <3>1, <4>1 DEF Harmless
      <3>2. CASE ~(i <= Len(q))
        <4>1. i - Len(q) \in 1..Len(p)
          BY <2>1, <3>2
        <4> QED
          BY <1>1, <2>1, <3>2, <4>1 DEF Harmless
      <3> QED
        BY <3>1, <3>2
    <2> QED
      BY <2>1, <2>2 DEF Harmless
  <1>2. ASSUME NEW t \in Tasks, Harmless(q), t # Task("connectDestroyed")
        PROVE  Harmless(Append(q, t))
    BY <1>2 DEF Harmless
  <1>3. ASSUME q # <<>>, Harmless(q) PROVE Harmless(Tail(q))
    BY <1>3, HeadTailProperties DEF Harmless
  <1> QED
    BY <1>1, <1>2, <1>3, HeadTailProperties

(* sendInLoop keeps the stream in order and what it leaves over watched. *)
LEMMA SendInLoopStep ==
    ASSUME IInv, NEW m \in Messages, NEW q \in Seq(Tasks), SendInLoop(m, q)
    PROVE  /\ channel' \in ChannelType /\ Consistent(channel')
           /\ outputBuffer' \in Seq(AllBytes) /\ wire' \in Seq(AllBytes)
           /\ accepted' \in Seq(AllBytes)
           /\ sock' \in SockType /\ sock'.unread = sock.unread
           /\ tasks' \in Seq(Tasks) /\ (Harmless(q) => Harmless(tasks'))
           /\ downs = 0 => /\ outputBuffer' # <<>> => isWriting(channel')
                           /\ isWriting(channel') => channel'.index = "kAdded"
           /\ InOrder'
  <1> DEFINE Goal ==
           /\ channel' \in ChannelType /\ Consistent(channel')
           /\ outputBuffer' \in Seq(AllBytes) /\ wire' \in Seq(AllBytes)
           /\ accepted' \in Seq(AllBytes)
           /\ sock' \in SockType /\ sock'.unread = sock.unread
           /\ tasks' \in Seq(Tasks) /\ (Harmless(q) => Harmless(tasks'))
           /\ downs = 0 => /\ outputBuffer' # <<>> => isWriting(channel')
                           /\ isWriting(channel') => channel'.index = "kAdded"
           /\ InOrder'
  <1>1. /\ channel \in ChannelType /\ Consistent(channel)
        /\ outputBuffer \in Seq(AllBytes) /\ wire \in Seq(AllBytes)
        /\ accepted \in Seq(AllBytes) /\ sock \in SockType
        /\ wire \o outputBuffer = accepted
        /\ downs = 0 => /\ outputBuffer # <<>> => isWriting(channel)
                        /\ isWriting(channel) => channel.index = "kAdded"
    BY DEF IInv, TypeOK, PollerConsistent, OutputInv, InOrder
  <1>2. CASE /\ state = "kDisconnected"
             /\ tasks' = q
             /\ UNCHANGED <<channel, outputBuffer, sock, accepted, wire>>
    BY <1>1, <1>2 DEF InOrder
  <1>3. ASSUME NEW r \in IF WriteAtOnce THEN WriteResults(MsgLen) ELSE {0},
               LET nwrote == IF r > 0 THEN r ELSE 0
                   rest == SubSeq(Bytes(m), nwrote + 1, MsgLen)
               IN  /\ sock' = AfterWrite(r)
                   /\ wire' = wire \o SubSeq(Bytes(m), 1, nwrote)
                   /\ tasks' = q \o Notices(WriteAtOnce, r, rest)
                   /\ accepted' = IF r = Fault THEN accepted
                                               ELSE accepted \o Bytes(m)
                   /\ IF r # Fault /\ rest # <<>>
                      THEN KeepRest(rest)
                      ELSE UNCHANGED <<outputBuffer, channel>>
        PROVE  Goal
    <2> DEFINE B == Bytes(m)
               n == IF r > 0 THEN r ELSE 0
               sent1 == SubSeq(B, 1, n)
               rest1 == SubSeq(B, n + 1, MsgLen)
    <2>1. B \in Seq(AllBytes) /\ Len(B) = MsgLen /\ MsgLen \in Nat
      BY MessageBytes
    <2>2. /\ r \in Int /\ r <= MsgLen
          /\ AfterWrite(r) \in SockType /\ AfterWrite(r).unread = sock.unread
      <3>1. CASE WriteAtOnce
        BY <1>1, <1>3, <2>1, <3>1, WriteResult
      <3>2. CASE ~WriteAtOnce
        <4>1. r = 0
          BY <1>3, <3>2
        <4> QED
          BY <1>1, <2>1, <4>1 DEF AfterWrite, Fault
      <3> QED
        BY <3>1, <3>2
    <2>3. n \in 0..MsgLen
      BY <2>1, <2>2
    <2>4. /\ sock' = AfterWrite(r)
          /\ wire' = wire \o sent1
          /\ tasks' = q \o Notices(WriteAtOnce, r, rest1)
          /\ accepted' = IF r = Fault THEN accepted ELSE accepted \o B
          /\ IF r # Fault /\ rest1 # <<>>
             THEN KeepRest(rest1)
             ELSE UNCHANGED <<outputBuffer, channel>>
      BY <1>3
    <2> HIDE DEF B
    <2>5. /\ sent1 \in Seq(AllBytes) /\ rest1 \in Seq(AllBytes)
          /\ sent1 \o rest1 = B
          /\ n = 0 => sent1 = <<>>
      <3>1. sent1 \in Seq(AllBytes) /\ rest1 \in Seq(AllBytes)
              /\ sent1 \o rest1 = B
        <4> HIDE DEF n
        <4> QED
          BY <2>1, <2>3, Cut
      <3>2. n = 0 => sent1 = <<>>
        BY SubSeqEmpty
      <3> QED
        BY <3>1, <3>2
    <2>6. r = Fault => n = 0
      BY DEF Fault
    <2>7. ~WriteAtOnce => n = 0
      BY <1>3
    <2> HIDE DEF n, sent1, rest1
    <2>8. outputBuffer' \in Seq(AllBytes) /\ wire' \in Seq(AllBytes)
            /\ accepted' \in Seq(AllBytes)
      <3>1. wire \o sent1 \in Seq(AllBytes) /\ accepted \o B \in Seq(AllBytes)
              /\ outputBuffer \o rest1 \in Seq(AllBytes)
        BY <1>1, <2>1, <2>5, Joined, Zenon
      <3>2. outputBuffer' \in {outputBuffer, outputBuffer \o rest1}
        BY <2>4 DEF KeepRest
      <3>3. accepted' \in {accepted, accepted \o B}
        BY <2>4
      <3> QED
        BY <1>1, <2>4, <3>1, <3>2, <3>3, Zenon
    <2>9. tasks' \in Seq(Tasks) /\ (Harmless(q) => Harmless(tasks'))
      <3>1. Notices(WriteAtOnce, r, rest1) \in Seq(Tasks)
              /\ Harmless(Notices(WriteAtOnce, r, rest1))
        BY NoticeTasks DEF Harmless
      <3> QED
        BY <2>4, <3>1, HarmlessQueue, ConcatProperties
    <2>10. CASE r # Fault /\ rest1 # <<>>
      <3>1. outputBuffer' = outputBuffer \o rest1
        BY <2>4, <2>10 DEF KeepRest
      <3>2. /\ channel' \in ChannelType /\ Consistent(channel')
            /\ isWriting(channel')
            /\ downs = 0 => channel'.index = "kAdded"
        BY <1>1, <2>4, <2>10, EnableWriting DEF KeepRest
      <3>3. accepted' = accepted \o B
        BY <2>4, <2>10
      <3>4. wire' \o outputBuffer' = accepted'
        <4>1. CASE WriteAtOnce
          <5>1. outputBuffer = <<>>
            BY <4>1 DEF WriteAtOnce
          <5>2. outputBuffer' = rest1 /\ wire = accepted
            BY <1>1, <2>5, <3>1, <5>1, ConcatEmptySeq
          <5>3. (accepted \o sent1) \o rest1 = accepted \o (sent1 \o rest1)
            <6>1. Associates(accepted, sent1, rest1)
              BY <1>1, <2>5, Associative
            <6> QED
              BY <6>1 DEF Associates
          <5> QED
            BY <2>4, <2>5, <3>3, <5>2, <5>3
        <4>2. CASE ~WriteAtOnce
          <5>1. sent1 = <<>>
            BY <2>5, <2>7, <4>2
          <5>2. rest1 = B /\ wire' = wire
            BY <1>1, <2>4, <2>5, <5>1, ConcatEmptySeq
          <5>3. wire \o (outputBuffer \o B) = (wire \o outputBuffer) \o B
            <6>1. Associates(wire, outputBuffer, B)
              BY <1>1, <2>1, Associative
            <6> QED
              BY <6>1 DEF Associates
          <5> QED
            BY <1>1, <3>1, <3>3, <5>2, <5>3
        <4> QED
          BY <4>1, <4>2
      <3> QED
        BY <2>2, <2>4, <2>8, <2>9, <3>2, <3>3, <3>4 DEF InOrder
    <2>11. CASE ~(r # Fault /\ rest1 # <<>>)
      <3>1. UNCHANGED <<outputBuffer, channel>>
        BY <2>4, <2>11
      <3>2. CASE r = Fault
        <4>1. sent1 = <<>> /\ accepted' = accepted
          BY <2>4, <2>5, <2>6, <3>2
        <4>2. wire' = wire
          BY <1>1, <2>4, <4>1, ConcatEmptySeq
        <4> QED
          BY <1>1, <2>2, <2>4, <2>8, <2>9, <3>1, <4>1, <4>2 DEF InOrder
      <3>3. CASE r # Fault
        <4>1. rest1 = <<>> /\ accepted' = accepted \o B
          BY <2>4, <2>11, <3>3
        <4>2. sent1 = B
          BY <2>5, <4>1, ConcatEmptySeq
        <4>3. WriteAtOnce
          <5>1. SUFFICES ASSUME ~WriteAtOnce PROVE FALSE
            OBVIOUS
          <5>2. B = <<>>
            BY <2>5, <2>7, <4>2, <5>1
          <5>3. Len(B) = 0
            BY <5>2
          <5> QED
            BY <2>1, <5>3, TcpConnectionAssumptions
               DEF TcpConnectionAssumptions
        <4>4. outputBuffer = <<>>
          BY <4>3 DEF WriteAtOnce
        <4>5. wire = accepted
          BY <1>1, <4>4, ConcatEmptySeq
        <4>6. wire' = accepted' /\ wire' \o <<>> = wire'
          BY <2>4, <2>8, <4>1, <4>2, <4>5, ConcatEmptySeq
        <4> QED
          BY <1>1, <2>2, <2>4, <2>8, <2>9, <3>1, <4>4, <4>6 DEF InOrder
      <3> QED
        BY <3>2, <3>3
    <2> QED
      BY <2>10, <2>11
  <1> QED
    BY <1>2, <1>3 DEF SendInLoop, Unwritten

-----------------------------------------------------------------------------
(* A step that touches neither the channel nor the stream. *)
LEMMA QuietStep ==
    ASSUME IInv, TypeOK',
           UNCHANGED <<channel, outputBuffer, accepted, wire, downs>>,
           baseTasks = 0 => baseTasks' = 0,
           downs = 0 /\ Harmless(tasks) => Harmless(tasks')
    PROVE  IInv'
  <1>1. PollerConsistent' /\ OutputInv' /\ InOrder'
    BY DEF IInv, PollerConsistent, OutputInv, InOrder
  <1>2. DownInv'
    BY DEF IInv, DownInv
  <1> QED
    BY <1>1, <1>2 DEF IInv

(* handleClose: the connection goes down, the stream is left alone. *)
LEMMA HandleCloseStep ==
    ASSUME IInv, HandleClose, todo' = Tail(todo), todo # <<>>,
           UNCHANGED <<outputBuffer, inCallback, worker, sock, sent, accepted,
                       wire, ups, peerSends>>
    PROVE  IInv'
  <1>1. channel' \in ChannelType /\ Consistent(channel')
    BY Disable DEF IInv, TypeOK, PollerConsistent, HandleClose
  <1>2. downs' \in Nat /\ downs' # 0
    BY DEF IInv, TypeOK, HandleClose
  <1>3. state' \in States
    BY DEF HandleClose, States
  <1>4. tasks' \in Seq(Tasks)
    <2>1. tasks \in Seq(Tasks) /\ Task("connectDestroyed") \in Tasks
      BY DEF IInv, TypeOK, Tasks
    <2> QED
      BY <2>1, SMTT(30) DEF HandleClose, RemoveConnection
  <1>5. singleLoop' \in BOOLEAN /\ inServer' \in BOOLEAN /\ baseTasks' \in Nat
    <2>1. singleLoop \in BOOLEAN /\ inServer \in BOOLEAN /\ baseTasks \in Nat
      BY DEF IInv, TypeOK
    <2>2. /\ singleLoop' = singleLoop /\ inServer' \in {inServer, FALSE}
          /\ baseTasks' = baseTasks \/ baseTasks' = baseTasks + 1
      BY Zenon DEF HandleClose, RemoveConnection
    <2>3. singleLoop' \in BOOLEAN /\ inServer' \in BOOLEAN
      BY <2>1, <2>2, Zenon
    <2>4. baseTasks' \in Nat
      BY <2>1, <2>2
    <2> QED
      BY <2>3, <2>4
  <1>6. todo' \in Seq(Handlers)
    BY HeadTailProperties DEF IInv, TypeOK
  <1>7. TypeOK'
    BY <1>1, <1>2, <1>3, <1>4, <1>5, <1>6 DEF IInv, TypeOK
  <1>8. DownInv' /\ OutputInv'
    BY <1>2 DEF DownInv, OutputInv
  <1> QED
    BY <1>1, <1>7, <1>8 DEF IInv, PollerConsistent, InOrder

(* shutdownInLoop changes nothing of the socket but shutWr. *)
LEMMA ShutdownSock ==
    ASSUME NEW s \in SockType, NEW ch
    PROVE  /\ ShutdownInLoop(ch, s) \in SockType
           /\ ShutdownInLoop(ch, s).unread = s.unread
  BY DEF ShutdownInLoop, SockType

(* handleWrite moves a prefix of the buffer to the wire. *)
LEMMA HandleWriteStep ==
    ASSUME IInv, HandleWrite
    PROVE  IInv'
  <1>1. /\ channel \in ChannelType /\ Consistent(channel)
        /\ outputBuffer \in Seq(AllBytes) /\ wire \in Seq(AllBytes)
        /\ sock \in SockType /\ wire \o outputBuffer = accepted
        /\ tasks \in Seq(Tasks)
        /\ downs = 0 => /\ outputBuffer # <<>> => isWriting(channel)
                        /\ isWriting(channel) => channel.index = "kAdded"
    BY DEF IInv, TypeOK, PollerConsistent, OutputInv, InOrder
  <1>2. todo' \in Seq(Handlers)
    BY HeadTailProperties DEF IInv, TypeOK, HandleWrite, NextHandler
  <1>3. UNCHANGED <<state, inCallback, serverVars, worker, sent, accepted,
                    ups, downs, peerSends>>
    BY DEF HandleWrite
  <1> DEFINE Moved ==
        /\ channel' \in ChannelType /\ Consistent(channel')
        /\ outputBuffer' \in Seq(AllBytes) /\ wire' \in Seq(AllBytes)
        /\ sock' \in SockType /\ sock'.unread = sock.unread
        /\ tasks' \in Seq(Tasks) /\ (Harmless(tasks) => Harmless(tasks'))
        /\ downs = 0 => /\ outputBuffer' # <<>> => isWriting(channel')
                        /\ isWriting(channel') => channel'.index = "kAdded"
        /\ wire' \o outputBuffer' = accepted
  <1>4. CASE UNCHANGED <<channel, outputBuffer, sock, tasks, wire>>
    <2>1. Moved
      BY <1>1, <1>4
    <2> QED
      BY <1>2, <1>3, <1>4, <2>1 DEF IInv, TypeOK, PollerConsistent, DownInv,
         OutputInv, InOrder, serverVars
  <1>5. ASSUME isWriting(channel),
               NEW r \in WriteResults(Len(outputBuffer)),
               wire' = IF r > 0 THEN wire \o SubSeq(outputBuffer, 1, r)
                                ELSE wire,
               IF r > 0
               THEN outputBuffer' = SubSeq(outputBuffer, r + 1,
                                           Len(outputBuffer))
               ELSE UNCHANGED outputBuffer,
               IF r > 0 /\ r = Len(outputBuffer)
               THEN /\ channel' = disableWriting(channel)
                    /\ tasks' = Append(tasks, Task("writeComplete"))
                    /\ sock' = IF state = "kDisconnecting"
                               THEN ShutdownInLoop(channel', AfterWrite(r))
                               ELSE AfterWrite(r)
               ELSE /\ sock' = AfterWrite(r)
                    /\ UNCHANGED <<channel, tasks>>
        PROVE  IInv'
    <2>1. Len(outputBuffer) \in Nat
      BY <1>1
    <2>2. /\ r \in Int /\ r <= Len(outputBuffer)
          /\ AfterWrite(r) \in SockType
          /\ AfterWrite(r).unread = sock.unread
      BY <1>1, <1>5, <2>1, WriteResult
    <2>3. /\ outputBuffer' \in Seq(AllBytes) /\ wire' \in Seq(AllBytes)
          /\ wire' \o outputBuffer' = accepted
          /\ r > 0 => (outputBuffer' = <<>> <=> r = Len(outputBuffer))
      <3>1. CASE r > 0
        <4> DEFINE p == SubSeq(outputBuffer, 1, r)
                   t == SubSeq(outputBuffer, r + 1, Len(outputBuffer))
        <4>1. r \in 0..Len(outputBuffer)
          BY <2>1, <2>2, <3>1
        <4>2. /\ p \in Seq(AllBytes) /\ t \in Seq(AllBytes)
              /\ p \o t = outputBuffer /\ (t = <<>> <=> r = Len(outputBuffer))
          BY <1>1, <4>1, Cut
        <4>3. wire' = wire \o p /\ outputBuffer' = t
          BY <1>5, <3>1
        <4> HIDE DEF p, t
        <4>4. wire \o (p \o t) = (wire \o p) \o t
          <5>1. Associates(wire, p, t)
            BY <1>1, <4>2, Associative
          <5> QED
            BY <5>1 DEF Associates
        <4>5. wire \o p \in Seq(AllBytes)
          BY <1>1, <4>2, Joined, Zenon
        <4> QED
          BY <1>1, <4>2, <4>3, <4>4, <4>5
      <3>2. CASE ~(r > 0)
        BY <1>1, <1>5, <3>2
      <3> QED
        BY <3>1, <3>2
    <2>4. Moved
      <3>1. CASE r > 0 /\ r = Len(outputBuffer)
        <4>1. channel' \in ChannelType /\ Consistent(channel')
                /\ (isWriting(channel') => channel'.index = "kAdded")
          BY <1>1, <1>5, <3>1, Disable
        <4>2. sock' \in SockType /\ sock'.unread = sock.unread
          BY <1>5, <2>2, <3>1, ShutdownSock
        <4>3. Task("writeComplete") \in Tasks
                /\ Task("writeComplete") # Task("connectDestroyed")
          BY DEF Tasks, Task
        <4>4. tasks' \in Seq(Tasks) /\ (Harmless(tasks) => Harmless(tasks'))
          BY <1>1, <1>5, <3>1, <4>3, HarmlessQueue
        <4> QED
          BY <2>3, <3>1, <4>1, <4>2, <4>4
      <3>2. CASE ~(r > 0 /\ r = Len(outputBuffer))
        <4>1. sock' = AfterWrite(r) /\ UNCHANGED <<channel, tasks>>
          BY <1>5, <3>2
        <4> QED
          BY <1>1, <1>5, <2>2, <2>3, <4>1
      <3> QED
        BY <3>1, <3>2
    <2> HIDE DEF Moved
    <2>5. TypeOK'
      BY <1>2, <1>3, <2>4 DEF IInv, TypeOK, serverVars, Moved
    <2>6. PollerConsistent' /\ DownInv' /\ OutputInv' /\ InOrder'
      BY <1>3, <2>4 DEF IInv, PollerConsistent, DownInv, OutputInv, InOrder,
         serverVars, Moved
    <2> QED
      BY <2>5, <2>6 DEF IInv
  <1> QED
    BY <1>4, <1>5 DEF HandleWrite

(* connectEstablished registers the channel. *)
LEMMA ConnectEstablishedStep ==
    ASSUME IInv, ConnectEstablished
    PROVE  IInv'
  <1>1. /\ tasks \in Seq(Tasks) /\ tasks # <<>> /\ tasks' = Tail(tasks)
        /\ channel \in ChannelType /\ Consistent(channel)
        /\ channel' = enableReading(channel)
    BY DEF IInv, TypeOK, PollerConsistent, ConnectEstablished, NextTask
  <1>2. channel' \in ChannelType /\ Consistent(channel')
          /\ channel'.events = channel.events \cup kReadEvent
          /\ channel'.index = "kAdded"
    BY <1>1, EnableReading
  <1>3. tasks' \in Seq(Tasks) /\ (Harmless(tasks) => Harmless(tasks'))
    BY <1>1, HarmlessQueue
  <1>4. state' \in States /\ ups' \in Nat /\ inCallback' = TRUE
    BY DEF ConnectEstablished, States, IInv, TypeOK
  <1>5. UNCHANGED <<outputBuffer, todo, baseTasks, inServer, singleLoop,
                    worker, sock, sent, accepted, wire, downs, peerSends>>
    BY DEF ConnectEstablished, serverVars
  <1>6. TypeOK'
    BY <1>2, <1>3, <1>4, <1>5 DEF IInv, TypeOK
  <1>7. OutputInv'
    BY <1>2, <1>5 DEF IInv, OutputInv, isWriting
  <1>8. PollerConsistent' /\ DownInv' /\ InOrder'
    BY <1>2, <1>3, <1>5 DEF IInv, PollerConsistent, DownInv, InOrder
  <1> QED
    BY <1>6, <1>7, <1>8 DEF IInv

(* connectDestroyed takes the channel out of the poller; it runs only      *)
(* after the connection went down.                                         *)
LEMMA ConnectDestroyedStep ==
    ASSUME IInv, ConnectDestroyed
    PROVE  IInv'
  <1>1. /\ tasks \in Seq(Tasks) /\ tasks # <<>> /\ tasks' = Tail(tasks)
        /\ tasks[1] = Task("connectDestroyed")
        /\ channel \in ChannelType /\ Consistent(channel)
    BY DEF IInv, TypeOK, PollerConsistent, ConnectDestroyed, NextTask
  <1>2. downs # 0
    <2>1. 1 \in 1..Len(tasks)
      BY <1>1, EmptySeq
    <2> QED
      BY <1>1, <2>1 DEF IInv, DownInv, Harmless
  <1>3. channel' \in ChannelType /\ Consistent(channel')
    BY <1>1, Disable, Remove DEF ConnectDestroyed
  <1>4. tasks' \in Seq(Tasks)
    BY <1>1, HarmlessQueue
  <1>5. state' \in States /\ downs' \in Nat /\ downs' # 0
    BY <1>2 DEF ConnectDestroyed, States, IInv, TypeOK
  <1>6. UNCHANGED <<outputBuffer, todo, inCallback, baseTasks, inServer,
                    singleLoop, worker, sock, sent, accepted, wire, ups,
                    peerSends>>
    BY DEF ConnectDestroyed, serverVars
  <1>7. TypeOK'
    BY <1>3, <1>4, <1>5, <1>6 DEF IInv, TypeOK
  <1>8. PollerConsistent' /\ DownInv' /\ OutputInv' /\ InOrder'
    BY <1>3, <1>5, <1>6 DEF IInv, PollerConsistent, DownInv, OutputInv, InOrder
  <1> QED
    BY <1>7, <1>8 DEF IInv

(* send on the loop thread, or the sendInLoop functor a worker queued. *)
LEMMA SendStep ==
    ASSUME IInv, NEW m \in Messages, RunSendInLoop(m) \/ Send(m)
    PROVE  IInv'
  <1>1. tasks \in Seq(Tasks)
    BY DEF IInv, TypeOK
  <1>2. PICK q \in Seq(Tasks) :
            SendInLoop(m, q) /\ (Harmless(tasks) => Harmless(q))
    <2>1. CASE RunSendInLoop(m)
      BY <1>1, <2>1, HarmlessQueue DEF RunSendInLoop, NextTask
    <2>2. CASE Send(m)
      BY <1>1, <2>2 DEF Send
    <2> QED
      BY <2>1, <2>2
  <1>3. /\ channel' \in ChannelType /\ Consistent(channel')
        /\ outputBuffer' \in Seq(AllBytes) /\ wire' \in Seq(AllBytes)
        /\ accepted' \in Seq(AllBytes)
        /\ sock' \in SockType /\ sock'.unread = sock.unread
        /\ tasks' \in Seq(Tasks) /\ (Harmless(q) => Harmless(tasks'))
        /\ downs = 0 => /\ outputBuffer' # <<>> => isWriting(channel')
                        /\ isWriting(channel') => channel'.index = "kAdded"
        /\ InOrder'
    BY <1>2, SendInLoopStep
  <1>4. /\ UNCHANGED <<state, todo, inCallback, baseTasks, inServer,
                       singleLoop, worker, ups, downs, peerSends>>
        /\ sent' \in {sent, sent \cup {m}}
    BY DEF RunSendInLoop, Send, serverVars
  <1>5. TypeOK'
    BY <1>3, <1>4 DEF IInv, TypeOK
  <1>6. PollerConsistent' /\ OutputInv'
    BY <1>3, <1>4 DEF PollerConsistent, OutputInv
  <1>7. DownInv'
    BY <1>2, <1>3, <1>4 DEF IInv, DownInv
  <1> QED
    BY <1>3, <1>5, <1>6, <1>7 DEF IInv

-----------------------------------------------------------------------------
(* Every step preserves the invariant, one action at a time. *)

LEMMA DispatchStep ==
    ASSUME IInv, Dispatch
    PROVE  IInv'
  <1> USE DEF connVars, loopVars, serverVars, histVars
  <1>1. CASE Poll
    <2>1. todo' \in Seq(Handlers)
      <3> DEFINE Call(h) == IF Fires(h, Reportable) THEN <<h>> ELSE <<>>
      <3>1. ASSUME NEW h \in Handlers PROVE Call(h) \in Seq(Handlers)
        OBVIOUS
      <3>2. todo' = Call("close") \o Call("error") \o Call("read")
                        \o Call("write")
        BY <1>1 DEF Poll
      <3> HIDE DEF Call
      <3>3. /\ Call("close") \in Seq(Handlers)
            /\ Call("error") \in Seq(Handlers)
            /\ Call("read") \in Seq(Handlers)
            /\ Call("write") \in Seq(Handlers)
        BY <3>1 DEF Handlers
      <3> QED
        BY <3>2, <3>3, Joined
    <2>2. TypeOK'
      BY <1>1, <2>1 DEF IInv, TypeOK, Poll
    <2> QED
      BY <1>1, <2>2, QuietStep DEF Poll
  <1>2. CASE ChannelClose
    BY <1>2, HandleCloseStep DEF ChannelClose, NextHandler
  <1>3. CASE HandleError \/ HandleReadError
    <2>1. todo' \in Seq(Handlers)
      <3>1. todo \in Seq(Handlers) /\ todo # <<>> /\ todo' = Tail(todo)
        BY <1>3 DEF IInv, TypeOK, HandleError, HandleReadError, NextHandler
      <3> QED
        BY <3>1, HeadTailProperties
    <2>2. sock' \in SockType /\ sock'.unread = sock.unread
      BY <1>3 DEF IInv, TypeOK, SockType, HandleError, HandleReadError
    <2>3. TypeOK'
      BY <1>3, <2>1, <2>2 DEF IInv, TypeOK, HandleError, HandleReadError
    <2> QED
      BY <1>3, <2>3, QuietStep DEF HandleError, HandleReadError
  <1>4. CASE HandleReadData
    <2>1. todo' \in Seq(Handlers)
      BY <1>4, HeadTailProperties DEF IInv, TypeOK, HandleReadData, NextHandler
    <2>2. sock' \in SockType /\ sock'.unread = 0
      <3>1. 0 \in 0..MaxPeerSends
        BY TcpConnectionAssumptions DEF TcpConnectionAssumptions
      <3>2. sock \in SockType /\ sock' = [sock EXCEPT !.unread = 0]
        BY <1>4 DEF IInv, TypeOK, HandleReadData
      <3> HIDE DEF connVars, loopVars, serverVars, histVars
      <3> QED
        BY <3>1, <3>2 DEF SockType
    <2>3. TypeOK'
      BY <1>4, <2>1, <2>2 DEF IInv, TypeOK, HandleReadData
    <2> QED
      BY <1>4, <2>3, QuietStep DEF HandleReadData
  <1>5. CASE HandleReadEof
    BY <1>5, HandleCloseStep DEF HandleReadEof, NextHandler
  <1>6. CASE HandleWrite
    BY <1>6, HandleWriteStep
  <1> QED
    BY <1>1, <1>2, <1>3, <1>4, <1>5, <1>6 DEF Dispatch

LEMMA LoopThreadStep ==
    ASSUME IInv, RunTask \/ CallbackReturns \/ UserCode
    PROVE  IInv'
  <1> USE DEF connVars, loopVars, serverVars, histVars
  <1>1. CASE ConnectEstablished
    BY <1>1, ConnectEstablishedStep
  <1>2. CASE ConnectDestroyed
    BY <1>2, ConnectDestroyedStep
  <1>3. CASE \E m \in Messages : RunSendInLoop(m) \/ Send(m)
    BY <1>3, SendStep
  <1>4. CASE RunShutdownInLoop
    <2>1. tasks' \in Seq(Tasks) /\ (Harmless(tasks) => Harmless(tasks'))
      BY <1>4, HarmlessQueue DEF IInv, TypeOK, RunShutdownInLoop, NextTask
    <2>2. sock' \in SockType /\ sock'.unread = sock.unread
      BY <1>4, ShutdownSock DEF IInv, TypeOK, RunShutdownInLoop
    <2>3. TypeOK'
      BY <1>4, <2>1, <2>2 DEF IInv, TypeOK, RunShutdownInLoop
    <2> QED
      BY <1>4, <2>1, <2>3, QuietStep DEF RunShutdownInLoop
  <1>5. CASE RunUserCallback
    <2>1. tasks' \in Seq(Tasks) /\ (Harmless(tasks) => Harmless(tasks'))
      BY <1>5, HarmlessQueue DEF IInv, TypeOK, RunUserCallback, NextTask
    <2>2. TypeOK'
      BY <1>5, <2>1 DEF IInv, TypeOK, RunUserCallback
    <2> QED
      BY <1>5, <2>1, <2>2, QuietStep DEF RunUserCallback
  <1>6. CASE CallbackReturns
    <2>1. TypeOK'
      BY <1>6 DEF IInv, TypeOK, CallbackReturns
    <2> QED
      BY <1>6, <2>1, QuietStep DEF CallbackReturns
  <1>7. CASE Shutdown
    <2>1. sock' \in SockType /\ sock'.unread = sock.unread
      BY <1>7, ShutdownSock DEF IInv, TypeOK, Shutdown
    <2>2. TypeOK'
      BY <1>7, <2>1 DEF IInv, TypeOK, Shutdown, States
    <2> QED
      BY <1>7, <2>2, QuietStep DEF Shutdown
  <1> QED
    BY <1>1, <1>2, <1>3, <1>4, <1>5, <1>6, <1>7 DEF RunTask, UserCode

LEMMA OtherThreadsStep ==
    ASSUME IInv,
           RemoveConnectionInLoop \/ \E w \in Workers : WorkerStep(w)
    PROVE  IInv'
  <1> USE DEF connVars, loopVars, serverVars, histVars
  <1>1. CASE RemoveConnectionInLoop
    <2>1. downs # 0 /\ baseTasks' \in Nat
      BY <1>1 DEF IInv, TypeOK, DownInv, RemoveConnectionInLoop
    <2>2. tasks' \in Seq(Tasks)
      BY <1>1, HarmlessQueue DEF IInv, TypeOK, RemoveConnectionInLoop, Tasks
    <2>3. TypeOK'
      BY <1>1, <2>1, <2>2 DEF IInv, TypeOK, RemoveConnectionInLoop
    <2>4. PollerConsistent' /\ DownInv' /\ OutputInv' /\ InOrder'
      BY <1>1, <2>1 DEF IInv, PollerConsistent, DownInv, OutputInv, InOrder,
         RemoveConnectionInLoop
    <2> QED
      BY <2>3, <2>4 DEF IInv
  <1>2. ASSUME NEW w \in Workers, NEW m \in Messages, SendCheck(w, m)
        PROVE  IInv'
    <2>1. worker' \in [Workers -> WorkerStates]
      BY <1>2 DEF IInv, TypeOK, SendCheck, WorkerStates
    <2>2. TypeOK'
      BY <1>2, <2>1 DEF IInv, TypeOK, SendCheck
    <2> QED
      BY <1>2, <2>2, QuietStep DEF SendCheck
  <1>3. ASSUME NEW w \in Workers, ShutdownCheck(w) \/ ShutdownSet(w)
        PROVE  IInv'
    <2>1. worker' \in [Workers -> WorkerStates] /\ state' \in States
      BY <1>3 DEF IInv, TypeOK, ShutdownCheck, ShutdownSet, WorkerStates, States
    <2>2. TypeOK'
      BY <1>3, <2>1 DEF IInv, TypeOK, ShutdownCheck, ShutdownSet
    <2> QED
      BY <1>3, <2>2, QuietStep DEF ShutdownCheck, ShutdownSet
  <1>4. ASSUME NEW w \in Workers, NEW t \in Tasks,
               t # Task("connectDestroyed"), tasks' = Append(tasks, t),
               worker' = [worker EXCEPT ![w] = Idle],
               UNCHANGED <<connVars, todo, inCallback, serverVars, sock, sent,
                           histVars, peerSends>>
        PROVE  IInv'
    <2>1. tasks' \in Seq(Tasks) /\ (Harmless(tasks) => Harmless(tasks'))
      BY <1>4, HarmlessQueue DEF IInv, TypeOK
    <2>2. worker' \in [Workers -> WorkerStates]
      BY <1>4 DEF IInv, TypeOK, WorkerStates
    <2>3. TypeOK'
      BY <1>4, <2>1, <2>2 DEF IInv, TypeOK
    <2> QED
      BY <1>4, <2>1, <2>3, QuietStep
  <1>5. ASSUME NEW w \in Workers, SendQueue(w)
        PROVE  IInv'
    <2>1. worker[w].msg \in Messages
      BY <1>5, SMTT(30) DEF IInv, TypeOK, SendQueue, WorkerStates, Idle
    <2>2. /\ SendTask(worker[w].msg) \in Tasks
          /\ SendTask(worker[w].msg) # Task("connectDestroyed")
      BY <2>1 DEF Tasks, SendTask, Task
    <2> QED
      BY <1>4, <1>5, <2>2 DEF SendQueue
  <1>6. ASSUME NEW w \in Workers, ShutdownQueue(w)
        PROVE  IInv'
    <2>1. /\ Task("shutdownInLoop") \in Tasks
          /\ Task("shutdownInLoop") # Task("connectDestroyed")
      BY DEF Tasks, Task
    <2> QED
      BY <1>4, <1>6, <2>1 DEF ShutdownQueue
  <1> QED
    BY <1>1, <1>2, <1>3, <1>5, <1>6 DEF WorkerStep, WorkerContinues

LEMMA PeerStep ==
    ASSUME IInv, Peer
    PROVE  IInv'
  <1> USE DEF connVars, loopVars, serverVars, histVars
  <1>1. PeerOnly
    BY DEF Peer, PeerReads, PeerSends, PeerCloses, PeerResets
  <1>2. /\ sock' \in SockType /\ peerSends' \in 0..MaxPeerSends
        /\ sock'.unread <= peerSends'
    <2> USE TcpConnectionAssumptions DEF TcpConnectionAssumptions
    <2>1. sock \in SockType /\ peerSends \in 0..MaxPeerSends
            /\ sock.unread <= peerSends
      BY DEF IInv, TypeOK
    <2>2. CASE PeerReads
      BY <2>1, <2>2 DEF PeerReads, SockType
    <2>3. CASE PeerSends
      BY <2>1, <2>3 DEF PeerSends, SockType
    <2>4. CASE PeerCloses
      BY <2>1, <2>4 DEF PeerCloses, SockType
    <2>5. CASE PeerResets
      BY <2>1, <2>5 DEF PeerResets, SockType
    <2> QED
      BY <2>2, <2>3, <2>4, <2>5 DEF Peer
  <1>3. TypeOK'
    BY <1>1, <1>2 DEF IInv, TypeOK, PeerOnly
  <1> QED
    BY <1>1, <1>3, QuietStep DEF PeerOnly

LEMMA InitEstablishesIInv ==
    Init => IInv
  <1> SUFFICES ASSUME Init PROVE IInv
    OBVIOUS
  <1> USE TcpConnectionAssumptions DEF Init, TcpConnectionAssumptions
  <1>1. TypeOK
    <2>1. channel \in ChannelType
      BY DEF NewChannel, ChannelType, kNoneEvent, NotInEpoll
    <2>2. tasks \in Seq(Tasks)
      BY DEF Tasks
    <2>3. worker \in [Workers -> WorkerStates] /\ state \in States
      BY DEF WorkerStates, States
    <2>4. sock \in SockType /\ sock.unread = 0
      BY DEF SockType
    <2>5. peerSends \in 0..MaxPeerSends /\ sock.unread <= peerSends
      BY <2>4
    <2>6. singleLoop \in BOOLEAN /\ inCallback \in BOOLEAN
            /\ inServer \in BOOLEAN
      BY Zenon
    <2> QED
      BY <2>1, <2>2, <2>3, <2>4, <2>5, <2>6 DEF TypeOK
  <1>2. PollerConsistent
    BY DEF PollerConsistent, Consistent, NewChannel, NotInEpoll
  <1>3. DownInv
    BY DEF DownInv, Harmless, Task
  <1>4. OutputInv
    BY DEF OutputInv, isWriting, kWriteEvent, NewChannel, kNoneEvent
  <1>5. InOrder
    BY DEF InOrder
  <1> QED
    BY <1>1, <1>2, <1>3, <1>4, <1>5 DEF IInv

(* IInv is an invariant of the connection. *)
LEMMA IInvCorrect ==
    Spec => []IInv
  <1>1. Init => IInv
    BY InitEstablishesIInv
  <1>2. IInv /\ [Next]_vars => IInv'
    <2> SUFFICES ASSUME IInv, [Next]_vars PROVE IInv'
      OBVIOUS
    <2>1. CASE Next
      BY <2>1, DispatchStep, LoopThreadStep, OtherThreadsStep, PeerStep
         DEF Next
    <2>2. CASE UNCHANGED vars
      BY <2>2 DEF vars, connVars, loopVars, serverVars, histVars, IInv, TypeOK,
         PollerConsistent, DownInv, OutputInv, InOrder
    <2> QED
      BY <2>1, <2>2
  <1> QED
    BY <1>1, <1>2, PTL DEF Spec

-----------------------------------------------------------------------------
(* The theorems.                                                           *)

(* The connection's state keeps its types: state_ is one of the four, the  *)
(* kernel's send buffer never holds more than SO_SNDBUF allows, and        *)
(* pendingFunctors_ has only functors of this connection.                  *)
THEOREM TypeCorrect ==
    Spec => []TypeOK
  <1>1. IInv => TypeOK
    BY DEF IInv
  <1> QED
    BY <1>1, IInvCorrect, PTL

(* The bytes the kernel took (handleWrite, and sendInLoop's direct write), *)
(* followed by outputBuffer_, are the bytes sendInLoop accepted, in order. *)
THEOREM StreamInOrder ==
    Spec => []InOrder
  <1>1. IInv => InOrder
    BY DEF IInv
  <1> QED
    BY <1>1, IInvCorrect, PTL

(* While the connection is up, buffered output has EPOLLOUT in the         *)
(* kernel's epoll set: sendInLoop's leftover is never stranded.            *)
THEOREM BufferedOutputWatched ==
    Spec => []OutputIsWatched
  <1>1. IInv => OutputIsWatched
    <2> SUFFICES ASSUME IInv, outputBuffer # <<>>, downs = 0
                 PROVE  /\ channel.interest.in
                        /\ "out" \in channel.interest.events
      BY DEF OutputIsWatched
    <2>1. isWriting(channel) /\ channel.index = "kAdded"
      BY DEF IInv, OutputInv
    <2> QED
      BY <2>1 DEF IInv, PollerConsistent, Consistent, isWriting, kWriteEvent
  <1> QED
    BY <1>1, IInvCorrect, PTL

(* updateChannel and removeChannel keep index_, channels_ and the epoll    *)
(* set in step over every history of a connection: no epoll_ctl call can   *)
(* reach the LOG_FATAL that aborts the process.                            *)
THEOREM PollerStaysConsistent ==
    Spec => []PollerConsistent
  <1>1. IInv => PollerConsistent
    BY DEF IInv
  <1> QED
    BY <1>1, IInvCorrect, PTL
=============================================================================
