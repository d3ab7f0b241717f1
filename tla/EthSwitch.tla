------------------------------ MODULE EthSwitch ------------------------------
(***************************************************************************)
(* The switch of EthSwitch.h/.cc: it joins the network, keeps replicas of  *)
(* the manager's log and of the users' logs it relays, remembers which     *)
(* neighbours are interested in which author, and gossips about the        *)
(* replicas it holds.                                                      *)
(*                                                                         *)
(* recvPkt is one step, since ns-3 runs one event at a time. It is split   *)
(* into one action per outcome; the guards follow the order of its tests.  *)
(***************************************************************************)
EXTENDS NetworkDevice

VARIABLES
    manager,                \* manager[s]: the manager's id, None until assigned
    interestedNeighbours,   \* multimap author -> subscriber, as a bag of pairs
    gossipTimers            \* gossipTimers[s]: scheduled events running gossip

switchVars == <<manager, interestedNeighbours, gossipTimers>>

SwitchInit ==
    /\ manager = [s \in Switches |-> None]
    /\ interestedNeighbours = [s \in Switches |-> EmptyBag]
    /\ gossipTimers = [s \in Switches |-> 0]

-----------------------------------------------------------------------------
(* Types, as recvPkt tells them apart *)

ForManager(type) == type[2] = MANAGER_ALL
ForSwitch(type) == type[2] \in Switches \cup {SWITCH_ALL}
ForUser(type) == type[2] \in Users \cup {USER_ALL}

\* Mutant: the logs switches keep for each other are gossiped about as well.
MutIsSubscription(type) ==
    \/ type[2] \in {USER_ALL} \cup Switches
    \/ type[2] = SWITCH_ALL /\ type[1] = ManagerId

\* getCommType: the replicas of published logs, which gossip draws from.
IsSubscription(type) ==
    \/ type[2] = USER_ALL
    \/ type[2] = SWITCH_ALL /\ type[1] = ManagerId

ContentOf(author) == LOGTYPE(author, USER_ALL)

\* interestedNeighbours.insert: a multimap keeps every copy.
Interested(interests, author, subscriber) == interests (+) SetToBag({<<author, subscriber>>})

-----------------------------------------------------------------------------
(* Joining *)

\* StartApplication, requestJoiningNetwork: the request goes out on every
\* device, the users' included.
StartSwitch(s) ==
    LET type == LOGTYPE(s, MANAGER_ALL)
        log == appendLogShell(NewLog(s), ContentShell("addToNetwork", s, 0))
    IN  /\ fault = "none"
        /\ s \notin started
        /\ started' = started \cup {s}
        /\ logPacket' = [logPacket EXCEPT ![s] = Insert(@, type, log)]
        /\ channel' = Sending(channel, s,
               [m \in Nodes |-> IF m \in Peers(s)
                                THEN <<NetShell(type, 0, getLastEntry(log))>> ELSE << >>])
        /\ UNCHANGED <<myPersonalLog, neighbourMap, familyMembers, fault, switchVars>>

-----------------------------------------------------------------------------
(* What the outcomes of recvPkt share *)

\* The map of neighbours after the head of recvPkt.
Known(s, d) == LearnNeighbour(neighbourMap[s], d, Arrived(s, d).shell.authorId)

\* The author whose content an entry's argument asks for is known here: the
\* test processReceivedSwitchPacket starts with.
IsServed(s, d) ==
    LET content == Arrived(s, d).shell.shell
    IN  \/ isNeighbour(Known(s, d), content.params) /\ content.function = "getContentFrom"
        \/ exists(logPacket[s], ContentOf(content.params))

\* A replica of the packet's log exists and is ahead of the packet.
IsAheadOf(s, d) ==
    LET p == Arrived(s, d)
    IN  exists(logPacket[s], p.type) /\ isGossipEntryOlder(logPacket[s], p)

\* A switch packet that gets as far as the last line of
\* processReceivedSwitchPacket, concatenateEntry.
IsConcatenating(s, d) ==
    /\ Receiving(s, d)
    /\ ForSwitch(Arrived(s, d).type)
    /\ ~IsServed(s, d)
    /\ ~IsAheadOf(s, d)

\* It does, and its entry continues the log; recvPkt then looks at the entry.
IsAccepting(s, d) ==
    /\ IsConcatenating(s, d)
    /\ ~Unparsable(Arrived(s, d).shell)
    /\ isEntryConcatenated(logPacket[s], Arrived(s, d).type, Arrived(s, d).shell)

Concatenated(s, d) ==
    concatenateEntry(logPacket[s], Arrived(s, d).type, Arrived(s, d).shell)

\* Mutant: the assignment is repeated with every packet of the manager.
MutAssigningManager(s, d) ==
    IF Arrived(s, d).type[1] = ManagerId
    THEN /\ manager' = [manager EXCEPT ![s] = Arrived(s, d).type[1]]
         /\ gossipTimers' = [gossipTimers EXCEPT ![s] = @ + 1]
    ELSE UNCHANGED <<manager, gossipTimers>>

\* The first switch packet written by the manager assigns it and schedules
\* the gossip.
AssigningManager(s, d) ==
    IF Arrived(s, d).type[1] = ManagerId /\ manager[s] = None
    THEN /\ manager' = [manager EXCEPT ![s] = Arrived(s, d).type[1]]
         /\ gossipTimers' = [gossipTimers EXCEPT ![s] = @ + 1]
    ELSE UNCHANGED <<manager, gossipTimers>>

\* What every outcome of recvPkt does: the packet is read, its sender is
\* learnt, and the packets of out are sent.
Handling(s, d, out) ==
    /\ neighbourMap' = [neighbourMap EXCEPT ![s] = Known(s, d)]
    /\ channel' = Sending(Taking(s, d), s, out)
    /\ UNCHANGED <<myPersonalLog, started>>

-----------------------------------------------------------------------------
(* Switch packets *)

\* Requests to join are for the manager alone; a type recvPkt knows no
\* reader of is dropped as unknown.
DropPacket(s, d) ==
    /\ Receiving(s, d)
    /\ ~ForSwitch(Arrived(s, d).type)
    /\ ~ForUser(Arrived(s, d).type)
    /\ Handling(s, d, Nothing)
    /\ UNCHANGED <<logPacket, familyMembers, fault, switchVars>>

\* The wanted author is attached here, or a log of the author's content is
\* held: the requester becomes interested and gets all that log has. Only
\* the argument decides this, unless the log does not exist yet.
ServeRequest(s, d) ==
    LET p == Arrived(s, d)
        author == p.shell.shell.params
        logs == Concatenated(s, d)
        content == ContentOf(author)
        requester == getKeyByValue(Known(s, d), d)
    IN  /\ Receiving(s, d)
        /\ ForSwitch(p.type)
        /\ IsServed(s, d)
        /\ logPacket' = [logPacket EXCEPT ![s] = logs]
        /\ interestedNeighbours' =
               [interestedNeighbours EXCEPT ![s] = Interested(@, author, p.shell.authorId)]
        /\ Handling(s, d, IF exists(logs, content)
               THEN sendEntryFromIndexTo(logs[content], Known(s, d), requester, 0, content)
               ELSE Nothing)
        /\ Ends(exists(logs, content) /\ ReadsEmptyLog(logs[content], requester),
                Unparsable(p.shell))
        /\ AssigningManager(s, d)
        /\ UNCHANGED familyMembers

\* The sender is behind: it gets the log from the entry it showed on.
AnswerSwitchGossip(s, d) ==
    LET p == Arrived(s, d)
    IN  /\ Receiving(s, d)
        /\ ForSwitch(p.type)
        /\ ~IsServed(s, d)
        /\ IsAheadOf(s, d)
        /\ Handling(s, d, sendEntryFromIndexTo(logPacket[s][p.type], Known(s, d),
               getKeyByValue(Known(s, d), d), p.shell.sequenceNum, p.type))
        /\ AssigningManager(s, d)
        /\ UNCHANGED <<logPacket, familyMembers, interestedNeighbours, fault>>

\* The entry does not continue its log; a log that did not exist is created
\* and stays empty.
RejectEntry(s, d) ==
    /\ IsConcatenating(s, d)
    /\ ~IsAccepting(s, d)
    /\ logPacket' = [logPacket EXCEPT ![s] = Concatenated(s, d)]
    /\ Handling(s, d, Nothing)
    /\ Ends(FALSE, Unparsable(Arrived(s, d).shell))
    /\ AssigningManager(s, d)
    /\ UNCHANGED <<familyMembers, interestedNeighbours>>

Accepts(s, d, function) ==
    /\ IsAccepting(s, d)
    /\ Arrived(s, d).shell.shell.function = function

\* addMemberToNetwork
AcceptMember(s, d) ==
    /\ Accepts(s, d, "addMemberToNetwork")
    /\ logPacket' = [logPacket EXCEPT ![s] = Concatenated(s, d)]
    /\ familyMembers' =
           [familyMembers EXCEPT ![s] = Append(@, Arrived(s, d).shell.shell.params)]
    /\ Handling(s, d, Nothing)
    /\ AssigningManager(s, d)
    /\ UNCHANGED <<interestedNeighbours, fault>>

\* sendPlugAndPlayConfirmation: the switch opens its log to the user. The
\* packet carries the last entry of the log now listed under that type, which
\* must not be empty.
AcceptPlugAndPlay(s, d) ==
    LET user == Arrived(s, d).shell.authorId
        type == LOGTYPE(s, user)
        log == appendLogShell(NewLog(s), ContentShell("addSwitch", s, 0))
        logs == Insert(Concatenated(s, d), type, log)
    IN  /\ Accepts(s, d, "plugAndPlay")
        /\ logPacket' = [logPacket EXCEPT ![s] = logs]
        /\ Handling(s, d, [m \in Nodes |->
               IF m = d /\ ~empty(logs[type])
               THEN <<NetShell(type, 0, getLastEntry(logs[type]))>> ELSE << >>])
        /\ Ends(empty(logs[type]), FALSE)
        /\ AssigningManager(s, d)
        /\ UNCHANGED <<familyMembers, interestedNeighbours>>

\* Entries that nothing but their concatenation follows from: the opening
\* entries of logs.
AcceptOther(s, d) ==
    /\ IsAccepting(s, d)
    /\ Arrived(s, d).shell.shell.function \notin
           {"addMemberToNetwork", "plugAndPlay", "getContentFrom", "removeUserFromInl"}
    /\ logPacket' = [logPacket EXCEPT ![s] = Concatenated(s, d)]
    /\ Handling(s, d, Nothing)
    /\ AssigningManager(s, d)
    /\ UNCHANGED <<familyMembers, interestedNeighbours, fault>>

-----------------------------------------------------------------------------
(* Subscriptions on their way to the author *)


\* Mutant: the request also goes back to where it came from.
MutEchoTo(s, d) == {k \in DOMAIN Known(s, d) : k # manager[s]}

\* broadcastToNeighbours: everyone known but the device the request came
\* from and the manager.
BroadcastTo(s, d) ==
    {k \in DOMAIN Known(s, d) : Known(s, d)[k] # d /\ k # manager[s]}

\* Nobody here knows the author: the sender becomes interested and each
\* receiver gets the request as an entry of the log this switch keeps for
\* it, opened by an initial entry if there is none yet.
AcceptRequest(s, d) ==
    LET content == Arrived(s, d).shell.shell
        map == Known(s, d)
        logs == Concatenated(s, d)
        To == BroadcastTo(s, d)
        Type(k) == LOGTYPE(s, k)
        Log(k) == IF exists(logs, Type(k))
                  THEN appendLogShell(logs[Type(k)], content)
                  ELSE AppendLogShells(NewLog(s), <<InitialContent(None), content>>)
        From(k) == IF exists(logs, Type(k)) THEN getCurrentSeqNum(logs[Type(k)]) + 1 ELSE 0
    IN  /\ Accepts(s, d, "getContentFrom")
        /\ interestedNeighbours' = [interestedNeighbours EXCEPT ![s] =
               Interested(@, content.params, getKeyByValue(map, d))]
        /\ logPacket' = [logPacket EXCEPT ![s] =
               [t \in DOMAIN logs \cup {Type(k) : k \in To} |->
                   IF t[1] = s /\ t[2] \in To THEN Log(t[2]) ELSE logs[t]]]
        /\ Handling(s, d, [m \in Nodes |->
               LET k == getKeyByValue(map, m)
               IN  IF k \in To THEN EntriesFrom(Log(k), From(k), Type(k)) ELSE << >>])
        /\ AssigningManager(s, d)
        /\ UNCHANGED <<familyMembers, fault>>

\* How often <<author, k>> is among the interests, for some author not k.
InterestsOf(interests, k) ==
    Cardinality(UNION {{<<p, i>> : i \in 1..interests[p]} :
                           p \in {q \in DOMAIN interests : q[2] = k /\ q[1] # k}})

\* removeUserFromInl with forwardDeletion: one copy of the canceller's
\* interest goes. If a subscriber that is no user remains, for any author,
\* the cancellation is appended to the log of, and sent to, the subscriber
\* of every remaining interest; unless a user interested in itself was among
\* them, all interests are then cleared. A subscriber without a log is a
\* null pointer. (removeSubscription finds no replica to remove: a switch
\* that holds one has served the entry instead.)
AcceptUnsubscribe(s, d) ==
    LET content == Arrived(s, d).shell.shell
        map == Known(s, d)
        cancelled == <<content.params, Arrived(s, d).shell.authorId>>
        left == interestedNeighbours[s] (-) SetToBag({cancelled})
        Subscribers == {p[2] : p \in {q \in DOMAIN left : q[1] # q[2]}}
        Forwarding == \E p \in DOMAIN left : p[2] \notin Users
        logs == IF Forwarding THEN Without(Concatenated(s, d), ContentOf(content.params))
                ELSE Concatenated(s, d)
        To == IF Forwarding THEN {k \in Subscribers : exists(logs, LOGTYPE(s, k))} ELSE {}
        Log(k) == AppendLogShells(logs[LOGTYPE(s, k)],
                      [i \in 1..InterestsOf(left, k) |-> content])
        From(k) == getCurrentSeqNum(logs[LOGTYPE(s, k)]) + 1
    IN  /\ IsAccepting(s, d)
        /\ content.function = "removeUserFromInl"
        /\ interestedNeighbours' = [interestedNeighbours EXCEPT ![s] =
               IF Forwarding /\ \A p \in DOMAIN left : p[1] # p[2] THEN EmptyBag ELSE left]
        /\ logPacket' = [logPacket EXCEPT ![s] =
               [t \in DOMAIN logs |-> IF t[1] = s /\ t[2] \in To THEN Log(t[2]) ELSE logs[t]]]
        /\ Handling(s, d, [m \in Nodes |->
               LET k == getKeyByValue(map, m)
               IN  IF k \in To THEN EntriesFrom(Log(k), From(k), LOGTYPE(s, k)) ELSE << >>])
        /\ Ends(Forwarding /\ Subscribers \ To # {}, FALSE)
        /\ AssigningManager(s, d)
        /\ UNCHANGED familyMembers

-----------------------------------------------------------------------------
(* User packets: published content *)

\* Mutant of forward: every neighbour is served.
MutFlooded(map, interests, p, d) ==
    [m \in Nodes |-> IF getKeyByValue(map, m) \notin {None, p.type[1]} /\ m # d
                     THEN <<p>> ELSE << >>]

\* forward: a copy for each interest in the log's writer, but the writer's
\* own and those behind the device the packet came from.
Forwarded(map, interests, p, d) ==
    [m \in Nodes |->
        LET k == getKeyByValue(map, m)
            interest == <<p.type[1], k>>
        IN  IF interest \in DOMAIN interests /\ k # None /\ k # p.type[1] /\ m # d
            THEN [i \in 1..interests[interest] |-> p] ELSE << >>]

\* The subscriber of such an interest has no device: a null pointer.
IsForwardingToStranger(map, interests, author) ==
    \E p \in DOMAIN interests : p[1] = author /\ p[2] # author /\ p[2] \notin DOMAIN map

\* processReceivedUserPacket with flag 0: an entry that continues the replica
\* is forwarded, after its sender has become an interest of its own unless
\* it is one.
ReceiveContent(s, d) ==
    LET p == Arrived(s, d)
        map == Known(s, d)
        own == <<p.shell.authorId, getKeyByValue(map, d)>>
        interests == IF own \in DOMAIN interestedNeighbours[s]
                     THEN interestedNeighbours[s]
                     ELSE Interested(interestedNeighbours[s], own[1], own[2])
        accepted == isEntryConcatenated(logPacket[s], p.type, p.shell)
    IN  /\ Receiving(s, d)
        /\ ForUser(p.type)
        /\ p.flag = 0
        /\ p.shell.shell.function = "pushContent"
        /\ logPacket' = [logPacket EXCEPT ![s] = Concatenated(s, d)]
        /\ interestedNeighbours' = [interestedNeighbours EXCEPT ![s] =
               IF accepted THEN interests ELSE @]
        /\ Handling(s, d, IF accepted THEN Forwarded(map, interests, p, d) ELSE Nothing)
        /\ Ends(accepted /\ IsForwardingToStranger(map, interests, p.type[1]),
                Unparsable(p.shell))
        /\ UNCHANGED <<familyMembers, manager, gossipTimers>>

\* With flag 1 the packet asks for what the sender lacks of the log.
ReceiveUserGossip(s, d) ==
    LET p == Arrived(s, d)
        map == Known(s, d)
    IN  /\ Receiving(s, d)
        /\ ForUser(p.type)
        /\ p.flag = 1
        /\ Handling(s, d,
               IF IsAheadOf(s, d)
               THEN sendEntryFromIndexTo(logPacket[s][p.type], map,
                        getKeyByValue(map, d), p.shell.sequenceNum, p.type)
               ELSE Nothing)
        /\ UNCHANGED <<logPacket, familyMembers, fault, switchVars>>

-----------------------------------------------------------------------------
(* Gossip *)

\* What gossip shows of an empty log: an entry before the first, in the
\* manager's name and not signed.
FakeEntry(s) ==
    LogShell(-1, NoHash, manager[s], NoSignature, ContentShell("f", "p", 0))

\* gossip, for the subscription log of type t that rand() picked: its last
\* entry goes to every neighbour, with flag 1; the event schedules itself
\* again.
Gossip(s, t) ==
    LET log == logPacket[s][t]
        shown == IF empty(log) THEN FakeEntry(s) ELSE getLastEntry(log)
        map == neighbourMap[s]
    IN  /\ Running(s)
        /\ gossipTimers[s] > 0
        /\ t \in DOMAIN logPacket[s]
        /\ IsSubscription(t)
        /\ channel' = Sending(channel, s, [m \in Nodes |->
               IF getKeyByValue(map, m) # None THEN <<NetShell(t, 1, shown)>> ELSE << >>])
        /\ UNCHANGED <<logPacket, myPersonalLog, neighbourMap, familyMembers, started,
                       fault, switchVars>>

-----------------------------------------------------------------------------

ReceiveSwitch(s, d) ==
    \/ DropPacket(s, d)
    \/ ServeRequest(s, d)
    \/ AnswerSwitchGossip(s, d)
    \/ RejectEntry(s, d)
    \/ AcceptMember(s, d)
    \/ AcceptPlugAndPlay(s, d)
    \/ AcceptRequest(s, d)
    \/ AcceptUnsubscribe(s, d)
    \/ AcceptOther(s, d)
    \/ ReceiveContent(s, d)
    \/ ReceiveUserGossip(s, d)
=============================================================================
