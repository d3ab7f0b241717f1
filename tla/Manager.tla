------------------------------- MODULE Manager -------------------------------
(***************************************************************************)
(* The manager of Manager.h/.cc: it registers switches that ask to join    *)
(* and publishes the membership as a log of its own. currSeq is written    *)
(* and never read.                                                         *)
(***************************************************************************)
EXTENDS NetworkDevice

MyType == LOGTYPE(ManagerId, SWITCH_ALL)

\* "manager" + authorId + "/switch*", the type gossip is answered under: no
\* reader that a handler looks for.
GossipAnswerType == LOGTYPE(ManagerId, "switch*")

\* The manager's own concatenateEntry creates the same log as the one of
\* NetworkDevice; its reader, which nothing reads, is the manager.
Registered(d) ==
    concatenateEntry(logPacket[ManagerId], Arrived(ManagerId, d).type, Arrived(ManagerId, d).shell)

\* Mutant of broadcastLastNetworkChange: switches that joined earlier are not
\* told.
MutJoinAnswers(log, map, author) ==
    [m \in Nodes |->
        LET k == getKeyByValue(map, m)
        IN  IF k = author THEN EntriesFrom(log, 0, MyType) ELSE << >>]

\* The whole log for the new member; its last entry for everyone else known
\* (broadcastLastNetworkChange).
JoinAnswers(log, map, author) ==
    [m \in Nodes |->
        LET k == getKeyByValue(map, m)
        IN  IF k = author THEN EntriesFrom(log, 0, MyType)
            ELSE IF k # None THEN EntriesFrom(log, getLastEntry(log).sequenceNum, MyType)
            ELSE << >>]

\* recvPkt with a request to join, and registerUser. Whether the request was
\* concatenated is not looked at, only the last entry of its log is.
RegisterSwitch(d) ==
    LET p == Arrived(ManagerId, d)
        author == p.shell.authorId
        request == Registered(d)[p.type]
        map == Insert(neighbourMap[ManagerId], author, d)
        log == appendLogShell(myPersonalLog[ManagerId],
                              ContentShell("addMemberToNetwork", author, 0))
    IN  /\ Receiving(ManagerId, d)
        /\ p.type[2] = MANAGER_ALL
        /\ logPacket' = [logPacket EXCEPT ![ManagerId] = Registered(d)]
        /\ Ends(empty(request), Unparsable(p.shell))
        /\ IF ~empty(request) /\ getLastEntry(request).shell.function = "addToNetwork"
           THEN /\ neighbourMap' = [neighbourMap EXCEPT ![ManagerId] = map]
                /\ familyMembers' = [familyMembers EXCEPT ![ManagerId] = Append(@, author)]
                /\ myPersonalLog' = [myPersonalLog EXCEPT ![ManagerId] = log]
                /\ channel' = Sending(Taking(ManagerId, d), ManagerId,
                                      JoinAnswers(log, map, author))
           ELSE /\ channel' = Taking(ManagerId, d)
                /\ UNCHANGED <<neighbourMap, familyMembers, myPersonalLog>>
        /\ UNCHANGED started

\* recvPkt with gossip about the manager's log: a switch that is behind gets
\* the entries from the one it showed on.
AnswerManagerGossip(d) ==
    LET p == Arrived(ManagerId, d)
        map == neighbourMap[ManagerId]
    IN  /\ Receiving(ManagerId, d)
        /\ p.type = MyType
        /\ channel' = Sending(Taking(ManagerId, d), ManagerId,
               IF getCurrentSeqNum(myPersonalLog[ManagerId]) > p.shell.sequenceNum
               THEN sendEntryFromIndexTo(myPersonalLog[ManagerId], map, getKeyByValue(map, d),
                                         p.shell.sequenceNum, GossipAnswerType)
               ELSE Nothing)
        /\ UNCHANGED <<logPacket, myPersonalLog, neighbourMap, familyMembers, started, fault>>

\* Anything else is unknown content.
DropUnknown(d) ==
    LET p == Arrived(ManagerId, d)
    IN  /\ Receiving(ManagerId, d)
        /\ p.type[2] # MANAGER_ALL
        /\ p.type # MyType
        /\ channel' = Taking(ManagerId, d)
        /\ UNCHANGED <<logPacket, myPersonalLog, neighbourMap, familyMembers, started, fault>>

ReceiveManager(d) ==
    \/ RegisterSwitch(d)
    \/ AnswerManagerGossip(d)
    \/ DropUnknown(d)
=============================================================================
