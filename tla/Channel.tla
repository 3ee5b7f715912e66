------------------------------ MODULE Channel -------------------------------
(***************************************************************************)
(* A Channel (src/net/Channel.h) and its registration with the EpollPoller *)
(* (src/poller/EpollPoller.cc), as operators on a record:                  *)
(*   events    events_: a subset of {"in", "out"}                          *)
(*   index     index_: "kNew", "kAdded" or "kDeleted"                      *)
(*   mapped    whether channels_ of the poller has the channel             *)
(*   interest  what the kernel's epoll set holds for the descriptor        *)
(*   fatal     epoll_ctl failed in a way that LOG_FATAL answers with abort *)
(***************************************************************************)

kNoneEvent == {}
kReadEvent == {"in"}          \* EPOLLIN | EPOLLPRI
kWriteEvent == {"out"}        \* EPOLLOUT

AllEvents == kReadEvent \cup kWriteEvent

NotInEpoll == [in |-> FALSE, events |-> {}]
InEpoll(ev) == [in |-> TRUE, events |-> ev]

ChannelType ==
    [events : SUBSET AllEvents, index : {"kNew", "kAdded", "kDeleted"},
     mapped : BOOLEAN, interest : [in : BOOLEAN, events : SUBSET AllEvents],
     fatal : BOOLEAN]

(* Channel::Channel. *)
NewChannel ==
    [events |-> kNoneEvent, index |-> "kNew", mapped |-> FALSE,
     interest |-> NotInEpoll, fatal |-> FALSE]

isNoneEvent(ch) == ch.events = kNoneEvent
isWriting(ch) == kWriteEvent \subseteq ch.events
isReading(ch) == kReadEvent \subseteq ch.events

(* EpollPoller::update and the kernel's epoll_ctl: ADD refuses a           *)
(* descriptor that is there, MOD one that is not (both LOG_FATAL); a DEL   *)
(* of one that is not there is only logged.                                *)
EpollAdd(ch) ==
    IF ch.interest.in THEN [ch EXCEPT !.fatal = TRUE]
                      ELSE [ch EXCEPT !.interest = InEpoll(ch.events)]

EpollMod(ch) ==
    IF ch.interest.in THEN [ch EXCEPT !.interest = InEpoll(ch.events)]
                      ELSE [ch EXCEPT !.fatal = TRUE]

EpollDel(ch) == [ch EXCEPT !.interest = NotInEpoll]

(* EpollPoller::updateChannel. *)
updateChannel(ch) ==
    CASE ch.index = "kNew" ->
            EpollAdd([ch EXCEPT !.mapped = TRUE, !.index = "kAdded"])
      [] ch.index = "kDeleted" ->
            EpollAdd([ch EXCEPT !.index = "kAdded"])
      [] ch.index = "kAdded" /\ isNoneEvent(ch) ->
            [EpollDel(ch) EXCEPT !.index = "kDeleted"]
      [] OTHER -> EpollMod(ch)

(* Fault for PollerConsistent: the epoll set is forgotten. *)
removeChannelKeepsFd(ch) == [ch EXCEPT !.mapped = FALSE, !.index = "kNew"]

(* EpollPoller::removeChannel. *)
removeChannel(ch) ==
    LET erased == [ch EXCEPT !.mapped = FALSE]
    IN [(IF ch.index = "kAdded" THEN EpollDel(erased) ELSE erased)
            EXCEPT !.index = "kNew"]

enableReading(ch) == updateChannel([ch EXCEPT !.events = @ \cup kReadEvent])
disableReading(ch) == updateChannel([ch EXCEPT !.events = @ \ kReadEvent])

(* Fault for OutputDrains: update() is forgotten. *)
enableWritingNoUpdate(ch) == [ch EXCEPT !.events = @ \cup kWriteEvent]

enableWriting(ch) == updateChannel([ch EXCEPT !.events = @ \cup kWriteEvent])

(* Channel.h:40 is events_ &= kWriteEvent: it KEEPS the write event and    *)
(* clears the others.                                                      *)
disableWriting(ch) ==
    updateChannel([ch EXCEPT !.events = @ \cap kWriteEvent])

disableAll(ch) == updateChannel([ch EXCEPT !.events = @ \cap kNoneEvent])

-----------------------------------------------------------------------------
(* index_, the poller's map, the epoll set and events_ tell the same       *)
(* story, and no epoll_ctl has failed fatally.                             *)
Consistent(ch) ==
    /\ ~ch.fatal
    /\ ch.mapped <=> ch.index # "kNew"
    /\ ch.interest.in <=> ch.index = "kAdded"
    /\ ch.interest.in => ch.interest.events = ch.events
=============================================================================
