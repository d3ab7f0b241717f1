-------------------------------- MODULE User --------------------------------
(***************************************************************************)
(* The user of User.h/.cc: it announces itself to its switch, subscribes   *)
(* to other users, publishes its own log and keeps replicas of the logs    *)
(* it receives. count, the number of pushes so far, is the length of the   *)
(* log it publishes.                                                       *)
(***************************************************************************)
EXTENDS NetworkDevice

SwitchLog(u) == LOGTYPE(u, SWITCH_ALL)

OwnLog(u) == LOGTYPE(u, USER_ALL)

\* A user with one link knows at most one neighbour; whatever the map holds,
\* out goes to every device in it.
ToNeighbours(u, packets) ==
    [m \in Nodes |-> IF getKeyByValue(neighbourMap[u], m) # None THEN packets ELSE << >>]

-----------------------------------------------------------------------------
(* Operations the schedule calls *)

\* StartApplication, plugAndPlay: on every device.
StartUser(u) ==
    LET log == appendLogShell(NewLog(u), ContentShell("plugAndPlay", u, 0))
    IN  /\ fault = "none"
        /\ u \notin started
        /\ started' = started \cup {u}
        /\ logPacket' = [logPacket EXCEPT ![u] = Insert(@, SwitchLog(u), log)]
        /\ channel' = Sending(channel, u,
               [m \in Nodes |-> IF m \in Peers(u)
                                THEN <<NetShell(SwitchLog(u), 0, getLastEntry(log))>>
                                ELSE << >>])
        /\ UNCHANGED <<myPersonalLog, neighbourMap, familyMembers, fault>>

\* One entry of the log kept for the switches, for each neighbour; nothing
\* at all before the switch has confirmed the user.
Telling(u, content) ==
    LET log == appendLogShell(logPacket[u][SwitchLog(u)], content)
    IN  IF neighbourMap[u] = << >>
        THEN UNCHANGED <<logPacket, channel>>
        ELSE /\ logPacket' = [logPacket EXCEPT ![u][SwitchLog(u)] = log]
             /\ channel' = Sending(channel, u,
                    ToNeighbours(u, <<NetShell(SwitchLog(u), 0, getLastEntry(log))>>))

\* subscribe
Subscribe(u, author) ==
    /\ Running(u)
    /\ Telling(u, ContentShell("getContentFrom", author, 0))
    /\ UNCHANGED <<myPersonalLog, neighbourMap, familyMembers, started, fault>>

\* unsubscribe, with removeSubscription: the replica goes at once.
Unsubscribe(u, author) ==
    LET type == LOGTYPE(author, USER_ALL)
        log == appendLogShell(logPacket[u][SwitchLog(u)],
                              ContentShell("removeUserFromInl", author, 0))
        told == IF neighbourMap[u] = << >> THEN logPacket[u]
                ELSE [logPacket[u] EXCEPT ![SwitchLog(u)] = log]
    IN  /\ Running(u)
        /\ logPacket' = [logPacket EXCEPT ![u] = Without(told, type)]
        /\ channel' = Sending(channel, u,
               ToNeighbours(u, <<NetShell(SwitchLog(u), 0, getLastEntry(log))>>))
        /\ UNCHANGED <<myPersonalLog, neighbourMap, familyMembers, started, fault>>

\* pushLogToSwitch: the entry is appended whether or not a neighbour is known
\* to send it to.
PushLogToSwitch(u) ==
    LET log == appendLogShell(myPersonalLog[u],
                              ContentShell("pushContent", None, Len(myPersonalLog[u].log)))
    IN  /\ Running(u)
        /\ myPersonalLog' = [myPersonalLog EXCEPT ![u] = log]
        /\ channel' = Sending(channel, u,
               ToNeighbours(u, <<NetShell(OwnLog(u), 0, getLastEntry(log))>>))
        /\ UNCHANGED <<logPacket, neighbourMap, familyMembers, started, fault>>

-----------------------------------------------------------------------------
(* recvPkt *)

Learnt(u, d) == LearnNeighbour(neighbourMap[u], d, Arrived(u, d).shell.authorId)

\* Packets for users that another author's entry is in; all others change
\* nothing.
IsForeign(u, d) ==
    LET p == Arrived(u, d)
    IN  p.type[2] \in Users \cup {USER_ALL} /\ p.shell.authorId # u

\* The default case: asked about its own log, the user sends it from the
\* index the packet shows.
OwnAnswer(u, d) ==
    IF Arrived(u, d).type = OwnLog(u)
    THEN sendEntryFromIndexTo(myPersonalLog[u], Learnt(u, d), getKeyByValue(Learnt(u, d), d),
                              Arrived(u, d).shell.sequenceNum, OwnLog(u))
    ELSE Nothing

AnswersFromEmptyLog(u, d) == Arrived(u, d).type = OwnLog(u) /\ empty(myPersonalLog[u])

Reading(u, d, map, out) ==
    /\ neighbourMap' = [neighbourMap EXCEPT ![u] = map]
    /\ channel' = Sending(Taking(u, d), u, out)
    /\ UNCHANGED <<myPersonalLog, familyMembers, started>>

\* addSwitch: the confirmation of plugAndPlay.
AddSwitch(u, d) ==
    LET p == Arrived(u, d)
    IN  /\ Receiving(u, d)
        /\ IsForeign(u, d)
        /\ p.shell.shell.function = "addSwitch"
        /\ Reading(u, d, Insert(Learnt(u, d), p.shell.authorId, d), Nothing)
        /\ UNCHANGED <<logPacket, fault>>

\* pushContent falls through to the default case.
UpdateContent(u, d) ==
    LET p == Arrived(u, d)
    IN  /\ Receiving(u, d)
        /\ IsForeign(u, d)
        /\ p.shell.shell.function = "pushContent"
        /\ logPacket' =
               [logPacket EXCEPT ![u] = concatenateEntry(@, p.type, p.shell)]
        /\ Reading(u, d, Learnt(u, d), OwnAnswer(u, d))
        /\ Ends(AnswersFromEmptyLog(u, d), Unparsable(p.shell))

AnswerOwnGossip(u, d) ==
    /\ Receiving(u, d)
    /\ IsForeign(u, d)
    /\ Arrived(u, d).shell.shell.function \notin {"addSwitch", "pushContent"}
    /\ Reading(u, d, Learnt(u, d), OwnAnswer(u, d))
    /\ Ends(AnswersFromEmptyLog(u, d), FALSE)
    /\ UNCHANGED logPacket

IgnorePacket(u, d) ==
    /\ Receiving(u, d)
    /\ ~IsForeign(u, d)
    /\ Reading(u, d, Learnt(u, d), Nothing)
    /\ UNCHANGED <<logPacket, fault>>

\* A packet for a user that has not started: no handler is registered yet.
MissPacket(u, d) ==
    /\ Arriving(u, d)
    /\ u \notin started
    /\ channel' = Taking(u, d)
    /\ UNCHANGED <<logPacket, myPersonalLog, neighbourMap, familyMembers, started, fault>>

ReceiveUser(u, d) ==
    \/ AddSwitch(u, d)
    \/ UpdateContent(u, d)
    \/ AnswerOwnGossip(u, d)
    \/ IgnorePacket(u, d)
    \/ MissPacket(u, d)
=============================================================================
