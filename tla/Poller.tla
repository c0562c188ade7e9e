------------------------------- MODULE Poller -------------------------------
(***************************************************************************)
(* muduo::net::Poller with Channel: EPollPoller and PollPoller side by     *)
(* side, given the same calls on the loop thread.  A loop has one of them; *)
(* index_, whose meaning is each poller's own, is therefore kept twice.    *)
(*                                                                         *)
(* A Channel is created for an open descriptor, changes its interest,      *)
(* is removed when it has none, and is destroyed with its descriptor,      *)
(* whose number the next channel may get.                                  *)
(***************************************************************************)
EXTENDS Integers, Sequences, FiniteSets, SequencesExt, Functions

CONSTANTS
  Channels,  \* Channel objects
  Fds        \* numbers of descriptors

\* A channel is not nullptr, and descriptors are not negative.
ASSUME PollerAssumption ==
  IsFiniteSet(Channels) /\ "none" \notin Channels /\ Fds \subseteq Nat

VARIABLES
  fd,          \* fd_ of each channel, Closed if the channel does not exist
  events,      \* events_ of each channel
  channels,    \* channels_: the channel registered for each descriptor
  epollIndex,  \* index_ under EPollPoller
  epollSet,    \* the kernel's epoll set: channel and events of a descriptor
  pollIndex,   \* index_ under PollPoller, counted from 1, 0 when it is new
  pollfds      \* pollfds_

pollerVars == <<fd, events, channels, epollIndex, epollSet, pollIndex, pollfds>>

Closed == -1
None == "none"
Events == {"read", "write"}

PollerTypeOK ==
  /\ fd \in [Channels -> Fds \cup {Closed}]
  /\ events \in [Channels -> SUBSET Events]
  /\ channels \in [Fds -> Channels \cup {None}]
  /\ epollIndex \in [Channels -> {"kNew", "kAdded", "kDeleted"}]
  /\ DOMAIN epollSet \subseteq Fds
  /\ Range(epollSet) \subseteq [channel : Channels, events : SUBSET Events]
  /\ pollIndex \in [Channels -> 0 .. Cardinality(Channels)]
  /\ pollfds \in Seq([fd : Int, events : SUBSET Events])

PollerInit ==
  /\ fd = [c \in Channels |-> Closed]
  /\ events = [c \in Channels |-> {}]
  /\ channels = [f \in Fds |-> None]
  /\ epollIndex = [c \in Channels |-> "kNew"]
  /\ epollSet = <<>>
  /\ pollIndex = [c \in Channels |-> 0]
  /\ pollfds = <<>>

Registered(c) == fd[c] # Closed /\ channels[fd[c]] = c

-----------------------------------------------------------------------------
(* EPollPoller.                                                            *)

\* update(): EPOLL_CTL_ADD and EPOLL_CTL_MOD.
EPollAsk(c, ev) ==
  epollSet' = [f \in DOMAIN epollSet \cup {fd[c]} |->
                 IF f = fd[c] THEN [channel |-> c, events |-> ev]
                 ELSE epollSet[f]]

\* update(): EPOLL_CTL_DEL.
EPollForget(c) == epollSet' = RestrictDomain(epollSet, LAMBDA f : f # fd[c])

EPollUpdate(c, ev) ==
  IF epollIndex[c] = "kAdded" /\ ev = {}
    THEN /\ epollIndex' = [epollIndex EXCEPT ![c] = "kDeleted"]
         /\ EPollForget(c)
    ELSE /\ epollIndex' = [epollIndex EXCEPT ![c] = "kAdded"]
         /\ EPollAsk(c, ev)

EPollRemove(c) ==
  /\ epollIndex' = [epollIndex EXCEPT ![c] = "kNew"]
  /\ IF epollIndex[c] = "kAdded" THEN EPollForget(c) ELSE UNCHANGED epollSet

\* fillActiveChannels(): the channels of the descriptors that are ready.
EPollActive(ready) ==
  {epollSet[f].channel : f \in ready \cap DOMAIN epollSet}

-----------------------------------------------------------------------------
(* PollPoller.                                                             *)

\* poll(2) ignores a negative fd; -fd alone would not do for descriptor 0.
Ignored(f) == -f - 1

PollUpdate(c, ev) ==
  IF pollIndex[c] = 0
    THEN /\ pollfds' = Append(pollfds, [fd |-> fd[c], events |-> ev])
         /\ pollIndex' = [pollIndex EXCEPT ![c] = Len(pollfds) + 1]
    ELSE /\ pollfds' = [pollfds EXCEPT ![pollIndex[c]] =
              [fd |-> IF ev = {} THEN Ignored(fd[c]) ELSE fd[c],
               events |-> ev]]
         /\ UNCHANGED pollIndex

\* Mutant of AtEnd: the channel of an ignored descriptor is not found.
AtEndAsked == {c \in Channels : fd[c] = Last(pollfds).fd}

\* The channel of the last pollfd, whose descriptor may be ignored.
AtEnd ==
  {c \in Channels : Registered(c)
          /\ Last(pollfds).fd \in {fd[c], Ignored(fd[c])}}

\* The last pollfd takes the place of the one that goes.
PollRemove(c) ==
  LET idx == pollIndex[c]
  IN  /\ pollfds' = Front([pollfds EXCEPT ![idx] = Last(pollfds)])
      /\ pollIndex' = [d \in Channels |->
           IF d = c THEN 0 ELSE IF d \in AtEnd THEN idx ELSE pollIndex[d]]

PollActive(ready) ==
  {channels[p.fd] : p \in {q \in Range(pollfds) : q.fd \in ready}}

-----------------------------------------------------------------------------
(* Channel.                                                                *)

Create(c, f) ==
  /\ fd[c] = Closed
  /\ f \notin Range(fd)
  /\ fd' = [fd EXCEPT ![c] = f]
  /\ UNCHANGED <<events, channels, epollIndex, epollSet, pollIndex, pollfds>>

\* enableReading() and the like.
Update(c, ev) ==
  /\ fd[c] # Closed
  /\ events' = [events EXCEPT ![c] = ev]
  /\ channels' = [channels EXCEPT ![fd[c]] = c]
  /\ EPollUpdate(c, ev)
  /\ PollUpdate(c, ev)
  /\ UNCHANGED fd

Enable(c, e) == Update(c, events[c] \cup {e})
Disable(c, e) == Update(c, events[c] \ {e})
DisableAll(c) == Update(c, {})

RemoveChannel(c) ==
  /\ Registered(c)
  /\ events[c] = {}
  /\ channels' = [channels EXCEPT ![fd[c]] = None]
  /\ EPollRemove(c)
  /\ PollRemove(c)
  /\ UNCHANGED <<fd, events>>

\* ~Channel, which asserts that it is not registered, and close().
DestroyChannel(c) ==
  /\ fd[c] # Closed
  /\ ~Registered(c)
  /\ fd' = [fd EXCEPT ![c] = Closed]
  /\ UNCHANGED <<events, channels, epollIndex, epollSet, pollIndex, pollfds>>

PollerNext ==
  \E c \in Channels :
    \/ \E f \in Fds : Create(c, f)
    \/ \E e \in Events : Enable(c, e) \/ Disable(c, e)
    \/ DisableAll(c) \/ RemoveChannel(c) \/ DestroyChannel(c)

PollerSpec == PollerInit /\ [][PollerNext]_pollerVars

-----------------------------------------------------------------------------
(* Properties                                                              *)

Interested == {c \in Channels : Registered(c) /\ events[c] # {}}

\* Whatever descriptors become ready, either poller reports every channel
\* that is interested, and none that is no longer registered or not of that
\* descriptor (the asserts of both fillActiveChannels(); data.ptr is raw).
ReportsRight ==
  \A ready \in SUBSET Fds :
    LET due == {c \in Interested : fd[c] \in ready}
    IN  \A active \in {EPollActive(ready), PollActive(ready)} :
          /\ due \subseteq active
          /\ \A c \in active :
               c \in Channels /\ Registered(c) /\ fd[c] \in ready

\* Each poller asks the kernel for what the channels want now, and epoll knows
\* no descriptor of a channel that is gone (updateChannel, removeChannel).
AsksRight ==
  /\ \A f \in DOMAIN epollSet :
       LET c == epollSet[f].channel
       IN  Registered(c) /\ fd[c] = f /\ epollSet[f].events = events[c]
  /\ \A c \in Interested : pollfds[pollIndex[c]] =
                             [fd |-> fd[c], events |-> events[c]]

\* Every index_ points to the channel's own pollfd, and there is no other
\* (the swap in removeChannel; PollPoller.cc:102 and :124).
IndexesOwn ==
  /\ \A c \in Channels :
       IF Registered(c)
         THEN /\ pollIndex[c] \in DOMAIN pollfds
              /\ pollfds[pollIndex[c]].fd \in {fd[c], Ignored(fd[c])}
         ELSE pollIndex[c] = 0
  /\ \A c, d \in Channels : pollIndex[c] = pollIndex[d] /\ pollIndex[c] # 0
                              => c = d
  /\ \A i \in DOMAIN pollfds : \E c \in Channels : pollIndex[c] = i

\* A channel whose interest has just been taken away is not reported until it
\* asks for events again (EPollPoller.cc:139, PollPoller.cc:106); one that had
\* none before and is updated once more may be (EPollPoller.cc:113).
DisabledIsIgnored ==
  [][\A c \in Channels :
       (Registered(c) /\ events[c] # {} /\ events'[c] = {})
         => /\ c \notin EPollActive(Fds)'
            /\ c \notin PollActive(Fds)']_pollerVars

\* What the loop asked for is what it is told (the parts above).
PollersRight ==
  /\ [](ReportsRight /\ AsksRight /\ IndexesOwn)
  /\ DisabledIsIgnored
=============================================================================
