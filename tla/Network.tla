------------------------------- MODULE Network -------------------------------
(***************************************************************************)
(* The simulated network of network.cc: users, switches and one manager    *)
(* over point-to-point links that keep the order of packets and, between   *)
(* switches, may lose them; and the calls the program schedules.           *)
(*                                                                         *)
(* Time is abstracted to the order it enforces. The schedule leaves long   *)
(* gaps between its phases (switches at 1 s, users at 2 s, losses from     *)
(* 2.5 s, calls from 5 s) against 2 ms for a link, so a phase starts once  *)
(* the packets of the one before have arrived; within a phase everything   *)
(* may interleave.                                                         *)
(***************************************************************************)
EXTENDS EthSwitch, User, Manager

CONSTANTS
    LossyLinks,     \* the links an error model is installed on
    Subscriptions,  \* the calls to subscribe: pairs <<user, author>>
    Cancellations,  \* the calls to unsubscribe: pairs <<user, author>>
    Pushes,         \* Pushes[u]: calls of u to pushLogToSwitch
    EarlyPush,      \* users may publish before their switch has confirmed them
    EarlyGossip,    \* switches gossip as soon as they have a manager
    MaxGossips,     \* gossip rounds that are run, of all switches together
    MaxLosses       \* packets that are lost

\* nodesSetup sets ReceiveErrorModel on devices of switch-to-switch links.
ASSUME LossBetweenSwitches == LossyLinks \subseteq Links \cap (Switches \X Switches)

ASSUME CallsAreOfUsers ==
    /\ Subscriptions \subseteq Users \X Users
    /\ Cancellations \subseteq Subscriptions
    /\ Pushes \in [Users -> Nat]

ASSUME BoundsAreTyped ==
    /\ EarlyPush \in BOOLEAN
    /\ EarlyGossip \in BOOLEAN
    /\ MaxGossips \in Nat
    /\ MaxLosses \in Nat

\* The schedule calls its first two users (user_apps[0], user_apps[1]).
ASSUME UsersExist == Users # {}

VARIABLE agenda     \* what the schedule has yet to do, and may yet happen

vars == <<deviceVars, switchVars, agenda>>

Init ==
    /\ DeviceInit
    /\ SwitchInit
    /\ agenda = [subscribe |-> Subscriptions, unsubscribe |-> Cancellations,
                 push |-> Pushes, gossip |-> MaxGossips, loss |-> MaxLosses]

-----------------------------------------------------------------------------
(* The schedule *)

AllStarted == started = Nodes

\* Nothing is on its way but what users send.
OnlyUsersSend == \A l \in Links : l[1] \in Users \/ channel[l] = << >>

\* Users start a second after the switches. They do so whether or not switches
\* are gossiping; with EarlyGossip the wait for OnlyUsersSend is a restriction:
\* a round that is under way ends first, and where rounds never end users stay off.
StartUsers(u) ==
    /\ Switches \subseteq started
    /\ OnlyUsersSend
    /\ StartUser(u)
    /\ UNCHANGED <<switchVars, agenda>>

\* The calls come three seconds later, when every switch has confirmed its
\* user; with EarlyPush a user also pushes before that.
PlugAndPlayOver == AllStarted /\ \A u \in Users : neighbourMap[u] # << >>

CallSubscribe(u, a) ==
    /\ PlugAndPlayOver
    /\ <<u, a>> \in agenda.subscribe
    /\ Subscribe(u, a)
    /\ agenda' = [agenda EXCEPT !.subscribe = @ \ {<<u, a>>}]
    /\ UNCHANGED switchVars

CallUnsubscribe(u, a) ==
    /\ PlugAndPlayOver
    /\ <<u, a>> \in agenda.unsubscribe \ agenda.subscribe
    /\ Unsubscribe(u, a)
    /\ agenda' = [agenda EXCEPT !.unsubscribe = @ \ {<<u, a>>}]
    /\ UNCHANGED switchVars

CallPush(u) ==
    /\ AllStarted
    /\ EarlyPush \/ PlugAndPlayOver
    /\ agenda.push[u] > 0
    /\ PushLogToSwitch(u)
    /\ agenda' = [agenda EXCEPT !.push[u] = @ - 1]
    /\ UNCHANGED switchVars

\* A switch gossips first an interval (1 s by default) after it was assigned
\* its manager, which is after the users' start; with EarlyGossip the interval
\* given on the command line is so short that registration is still going on.
GossipRound(s) ==
    /\ EarlyGossip \/ AllStarted
    /\ agenda.gossip > 0
    /\ \E t \in DOMAIN logPacket[s] : Gossip(s, t)
    /\ agenda' = [agenda EXCEPT !.gossip = @ - 1]

\* RateErrorModel, enabled after the users have started: the receiving
\* device drops a packet as corrupted.
LosePacket(l) ==
    /\ fault = "none"
    /\ AllStarted
    /\ agenda.loss > 0
    /\ channel[l] # << >>
    /\ channel' = [channel EXCEPT ![l] = Tail(@)]
    /\ agenda' = [agenda EXCEPT !.loss = @ - 1]
    /\ UNCHANGED <<logPacket, myPersonalLog, neighbourMap, familyMembers, started,
                   fault, switchVars>>

-----------------------------------------------------------------------------

SwitchStep(s) ==
    \/ StartSwitch(s) /\ UNCHANGED agenda
    \/ \E d \in Peers(s) : ReceiveSwitch(s, d) /\ UNCHANGED agenda
    \/ GossipRound(s)

UserStep(u) ==
    \/ StartUsers(u)
    \/ \E a \in Users : CallSubscribe(u, a)
    \/ \E a \in Users : CallUnsubscribe(u, a)
    \/ CallPush(u)
    \/ \E d \in Peers(u) : ReceiveUser(u, d) /\ UNCHANGED <<switchVars, agenda>>

ManagerStep ==
    \E d \in Peers(ManagerId) : ReceiveManager(d) /\ UNCHANGED <<switchVars, agenda>>

Next ==
    \/ \E s \in Switches : SwitchStep(s)
    \/ \E u \in Users : UserStep(u)
    \/ ManagerStep
    \/ \E l \in LossyLinks : LosePacket(l)

Spec == Init /\ [][Next]_vars

-----------------------------------------------------------------------------
(* The network left running: no bound on the number of gossip rounds. *)

Quiet == \A l \in Links : channel[l] = << >>

\* The interval is long enough for a round to be over before the next.
GossipTick(s, t) ==
    /\ AllStarted
    /\ Quiet
    /\ t \in DOMAIN logPacket[s]
    /\ Gossip(s, t)
    /\ UNCHANGED agenda

NextRound == \E s \in Switches : \E t \in DOMAIN logPacket[s] : GossipTick(s, t)

\* The simulator runs every event that is due: nodes start and packets that are
\* not lost arrive. Calls and losses need not happen.
Arrivals ==
    /\ \A s \in Switches : WF_vars(StartSwitch(s) /\ UNCHANGED agenda)
    /\ \A u \in Users : WF_vars(StartUsers(u))
    /\ \A s \in Switches : \A d \in Peers(s) :
          WF_vars(ReceiveSwitch(s, d) /\ UNCHANGED agenda)
    /\ \A u \in Users : \A d \in Peers(u) :
          WF_vars(ReceiveUser(u, d) /\ UNCHANGED <<switchVars, agenda>>)
    /\ \A d \in Peers(ManagerId) :
          WF_vars(ReceiveManager(d) /\ UNCHANGED <<switchVars, agenda>>)

\* Every gossip timer expires again and again, rand() picking each log at some
\* time.
Fairness ==
    /\ Arrivals
    /\ \A s \in Switches : \A t \in {ContentOf(u) : u \in Users} :
          SF_vars(GossipTick(s, t))

\* As many gossip rounds as the agenda has, and every packet arrives.
ArrivingSpec == Spec /\ Arrivals

FairSpec == Init /\ [][Next \/ NextRound]_vars /\ Fairness

-----------------------------------------------------------------------------
(* Types *)

Functions == {"", "f", "addToNetwork", "addMemberToNetwork", "plugAndPlay", "addSwitch",
              "getContentFrom", "pushContent", "removeUserFromInl"}

\* The argument of a content that a handler acts on is an author.
Contents ==
    {c \in [function : Functions, params : Nodes \cup {None, "p"}, contMessage : Nat] :
        c.function \in {"addMemberToNetwork", "getContentFrom", "removeUserFromInl"}
            => c.params \in Nodes}

Entries == [sequenceNum : Int, prevEventHash : Seq(Contents), authorId : Nodes,
            signature : Seq(Int), shell : Contents]

Logs == [owner : Nodes, log : Seq(Entries)]

LogTypes == Nodes \X (Nodes \cup {USER_ALL, SWITCH_ALL, MANAGER_ALL})

Packets == [type : LogTypes \cup {GossipAnswerType}, flag : {0, 1}, shell : Entries]

IsLogList(list) == DOMAIN list \subseteq LogTypes /\ list \in [DOMAIN list -> Logs]

IsNeighbourMap(map) == DOMAIN map \subseteq Nodes /\ map \in [DOMAIN map -> Nodes]

\* A subscriber is None where getKeyByValue found no name for its device.
IsInterests(bag) ==
    DOMAIN bag \subseteq Nodes \X (Nodes \cup {None}) /\ bag \in [DOMAIN bag -> Nat \ {0}]

Agendas == [subscribe : SUBSET Subscriptions, unsubscribe : SUBSET Cancellations,
            push : [Users -> Nat], gossip : Nat, loss : Nat]

\* Every variable keeps its type; a link never holds more than its queue
\* takes (NetworkDevice::sendPacket drops the rest), and a switch has at most
\* one gossip event scheduled.
TypeOK ==
    /\ DOMAIN logPacket = Nodes /\ \A n \in Nodes : IsLogList(logPacket[n])
    /\ myPersonalLog \in [Users \cup {ManagerId} -> Logs]
    /\ DOMAIN neighbourMap = Nodes /\ \A n \in Nodes : IsNeighbourMap(neighbourMap[n])
    /\ familyMembers \in [Switches \cup {ManagerId} -> Seq(Nodes)]
    /\ started \subseteq Nodes
    /\ channel \in [Links -> Seq(Packets)] /\ \A l \in Links : Len(channel[l]) <= QueueSize
    /\ fault \in {"none", "stod", "undefined"}
    /\ manager \in [Switches -> {None, ManagerId}]
    /\ DOMAIN interestedNeighbours = Switches
    /\ \A s \in Switches : IsInterests(interestedNeighbours[s])
    /\ gossipTimers \in [Switches -> {0, 1}]
    /\ agenda \in Agendas

-----------------------------------------------------------------------------
(* Safety *)

\* What users and the manager publish is a log of its own; all others are in
\* the list of their writer.
IsPublished(type) == type[2] = USER_ALL \/ type = MyType

\* The log of a type as its writer holds it.
WrittenLog(type) ==
    IF IsPublished(type) THEN myPersonalLog[type[1]].log ELSE logPacket[type[1]][type].log

\* There is one.
IsWritten(type) ==
    IF IsPublished(type) THEN type = MyType \/ type[1] \in Users
    ELSE type \in DOMAIN logPacket[type[1]]

\* Whatever is lost, repeated by gossip or relayed over several switches,
\* every log a device holds is a prefix of the log its writer has written
\* (isSubsequentEntry, concatenateEntry).
ReplicaIsPrefix ==
    \A n \in Nodes : \A t \in DOMAIN logPacket[n] :
        IsPrefix(logPacket[n][t].log, WrittenLog(t))

\* What gossip shows of an empty log (gossip).
ShownOfEmptyLog == LogShell(-1, NoHash, ManagerId, NoSignature, ContentShell("f", "p", 0))

\* The entry a packet carries is the one its writer wrote at that place, or the
\* one that gossip shows of an empty log.
IsGenuine(p) ==
    \/ p.type = GossipAnswerType
    \/ /\ IsWritten(p.type)
       /\ \/ IsSubscription(p.type) /\ p.flag = 1 /\ p.shell = ShownOfEmptyLog
          \/ /\ p.shell.sequenceNum + 1 \in 1..Len(WrittenLog(p.type))
             /\ p.shell = WrittenLog(p.type)[p.shell.sequenceNum + 1]

IsNumbered(log) == \A i \in 1..Len(log) : log[i].sequenceNum = i - 1

\* What makes replicas prefixes: a switch or user sends under a log's type only
\* what the log's writer has written there, at the place it was written, however
\* often it has been relayed and asked for again; writers number without gaps
\* (createPacket, sendEntryFromIndexTo, forward, appendLogShell). A device that
\* has not started holds nothing.
LogIntegrity ==
    /\ \A t \in LogTypes : IsWritten(t) => IsNumbered(WrittenLog(t))
    /\ \A n \in Nodes : \A t \in DOMAIN logPacket[n] :
          IsWritten(t) /\ IsPrefix(logPacket[n][t].log, WrittenLog(t))
    /\ \A l \in Links : \A i \in 1..Len(channel[l]) : IsGenuine(channel[l][i])
    /\ \A n \in Nodes \ started : DOMAIN logPacket[n] = {}

\* A device is known under the id of the node it leads to, and no other: the
\* first packet through it was written by its sender (recvPkt, registerUser).
NeighbourNaming ==
    \A n \in Nodes : \A a \in DOMAIN neighbourMap[n] :
        neighbourMap[n][a] = a /\ a \in Peers(n)

\* forward and forwardDeletion find a device for every subscriber.
InterestsAreNeighbours ==
    \A s \in Switches : \A p \in DOMAIN interestedNeighbours[s] :
        p[2] \in DOMAIN neighbourMap[s]

\* Gossip is scheduled when the manager is assigned, and only then.
TimersFollowManager ==
    \A s \in Switches : gossipTimers[s] = IF manager[s] = None THEN 0 ELSE 1

\* Once a switch has a manager it gossips, and rand() % size has a log to
\* choose (gossip); before, no gossip is scheduled.
GossipHasALog ==
    /\ TimersFollowManager
    /\ \A s \in Switches : manager[s] # None =>
           \E t \in DOMAIN logPacket[s] : IsSubscription(t)

\* Each entry of log but the opening one adds a member, and members are these
\* in its order.
AreMembersOf(members, log) ==
    /\ \A i \in 2..Len(log) : log[i].shell.function = "addMemberToNetwork"
    /\ members = [i \in 1..(Len(log) - 1) |-> log[i + 1].shell.params]

\* The members a switch or the manager knows are the ones its copy of the
\* manager's log adds: no entry is executed twice, or kept and not executed
\* (recvPkt, registerUser).
MembersFollowLog ==
    /\ AreMembersOf(familyMembers[ManagerId], myPersonalLog[ManagerId].log)
    /\ \A s \in Switches :
          AreMembersOf(familyMembers[s], IF MyType \in DOMAIN logPacket[s]
                                         THEN logPacket[s][MyType].log ELSE << >>)

\* How often log asks for, or cancels, the content of author.
Mentions(log, author, functions) ==
    Cardinality({i \in 1..Len(log) : /\ log[i].shell.function \in functions
                                     /\ log[i].shell.params = author})

\* A request does not go round: however many switches it passes, and in
\* whichever order it meets others, a switch asks each neighbour for an author's
\* content at most once for every user that has subscribed to it
\* (broadcastToNeighbours leaves out the device a request came from; the switch
\* that knows the author answers).
RequestsEnd ==
    \A s \in Switches : \A k \in Nodes : \A a \in Users :
        LOGTYPE(s, k) \in DOMAIN logPacket[s] =>
            Mentions(logPacket[s][LOGTYPE(s, k)].log, a, {"getContentFrom"})
                <= Cardinality({u \in Users : <<u, a>> \in Subscriptions \ agenda.subscribe})

\* The log subscriber k writes its requests to switch s in.
RequestLog(k, s) == IF k \in Users THEN SwitchLog(k) ELSE LOGTYPE(k, s)

\* Interests are kept in a multimap and inserted without a look at it: each copy
\* goes back to an entry of the subscriber's own log, handled once, or to the
\* author's content having come from there. Entries would otherwise be sent to
\* it several times over (processReceivedSwitchPacket, recvPkt, forward).
InterestsFollowRequests ==
    \A s \in Switches : \A p \in DOMAIN interestedNeighbours[s] :
        LET type == RequestLog(p[2], s)
            asked == IF IsWritten(type)
                     THEN Mentions(WrittenLog(type), p[1], {"getContentFrom", "removeUserFromInl"})
                     ELSE 0
            source == IF ContentOf(p[1]) \in DOMAIN logPacket[s] THEN 1 ELSE 0
        IN  interestedNeighbours[s][p] <= asked + source

\* Without gossip, published content reaches the users that have subscribed to
\* it and no others, however the requests spread (forward, AcceptRequest). With
\* gossip it does reach others: a user stores any entry it is shown.
OnlySubscribersHold ==
    \A u \in Users : \A a \in Users :
        ContentOf(a) \in DOMAIN logPacket[u] => <<u, a>> \in Subscriptions \ agenda.subscribe

\* An entry of the log switch s keeps for switch k is neither at k nor on its way.
IsLost(s, k) ==
    LET type == LOGTYPE(s, k)
        next == IF type \in DOMAIN logPacket[k] THEN Len(logPacket[k][type].log) ELSE 0
    IN  /\ type \in DOMAIN logPacket[s]
        /\ next < Len(logPacket[s][type].log)
        /\ \A i \in 1..Len(channel[<<s, k>>]) :
              \/ channel[<<s, k>>][i].type # type
              \/ channel[<<s, k>>][i].shell.sequenceNum # next

\* Nothing sends such an entry again: gossip draws from the logs of content and
\* membership only, so no later request of s gets through to k
\* (getLogPacketsWithType, isSubsequentEntry).
LostRequestsStayLost ==
    [][\A s \in Switches : \A k \in Switches \cap Peers(s) :
          IsLost(s, k) => IsLost(s, k)']_vars


-----------------------------------------------------------------------------
(* What has arrived once nothing is on its way *)

\* With every switch started and nothing on its way, all switches hold the
\* manager's whole log: registration needs no gossip (recvPkt of Manager).
MembershipComplete ==
    Switches \subseteq started /\ Quiet /\ fault = "none" =>
        \A s \in Switches :
            /\ MyType \in DOMAIN logPacket[s]
            /\ logPacket[s][MyType].log = myPersonalLog[ManagerId].log
            /\ ToSet(familyMembers[s]) = Switches

\* Subscriber p[1] holds all that author p[2] has published.
HoldsAll(p) ==
    LET log == myPersonalLog[p[2]].log
    IN  log # << >> => /\ ContentOf(p[2]) \in DOMAIN logPacket[p[1]]
                       /\ logPacket[p[1]][ContentOf(p[2])].log = log

\* With nothing lost or on its way, and until somebody unsubscribes, a subscriber
\* holds all its author has published, in whichever order subscriptions and
\* pushes were made and passed each other on the way, and whatever gossip sends
\* besides.
SubscribersServed ==
    Quiet /\ fault = "none" /\ agenda.loss = MaxLosses /\ agenda.unsubscribe = Cancellations =>
        \A p \in Subscriptions \ agenda.subscribe : HoldsAll(p)

\* The same of those who stay when another leaves: interests go "If no user is
\* anymore interested" (EthSwitch.cc, removeUserFromInl), and only then.
RemainingReadersServed ==
    Quiet /\ fault = "none" /\ agenda.loss = MaxLosses =>
        \A p \in Subscriptions \ (agenda.subscribe \cup Cancellations) : HoldsAll(p)

\* A user that has unsubscribed is in no switch's list of interests:
\* "Remove user from interested list" (EthSwitch.cc, removeUserFromInl).
UnsubscribedIsForgotten ==
    Quiet /\ fault = "none" =>
        \A p \in Cancellations \ agenda.unsubscribe : \A s \in Peers(p[1]) :
            <<p[2], p[1]>> \notin DOMAIN interestedNeighbours[s]

\* An empty log is no error: "Logs can have been initialised, but being
\* empty" (EthSwitch.cc, gossip).
EmptyLogsAreHandled == fault # "undefined"

-----------------------------------------------------------------------------
(* Liveness, under FairSpec *)

\* Every switch ends up with the whole membership, and stays there.
EventuallyJoined ==
    <>[](\A s \in Switches : ToSet(familyMembers[s]) = Switches)

\* What answers gossip is a "Gossip answer" (EthSwitch.cc,
\* processReceivedSwitchPacket), and not gossip again: answers do not answer
\* each other for ever, and after the last round the links fall silent.
TrafficEnds == <>[]Quiet

\* Once a switch has a replica of a user's log, however incomplete or empty,
\* gossip makes it complete, unless a fault ends the program first: entries
\* that were lost, or published before the user was confirmed, are asked for
\* and sent again (gossip, processReceivedUserPacket).
GossipRepairs ==
    \A s \in Switches : \A u \in Users :
        LET held == ContentOf(u) \in DOMAIN logPacket[s]
        IN  held ~> \/ held /\ logPacket[s][ContentOf(u)].log = myPersonalLog[u].log
                    \/ fault # "none"
=============================================================================
