---------------------------- MODULE NetworkDevice ----------------------------
(***************************************************************************)
(* What users, switches and the manager share: the base class of           *)
(* NetworkDevice.h/.cc, the log list of LogPacket.h, and the point-to-     *)
(* point links network.cc installs between the nodes.                      *)
(*                                                                         *)
(* An author id, a node and the device of a link that leads to it are one  *)
(* value: every node has one id, and two nodes share at most one link.     *)
(* A log type "writer/reader" is the pair <<writer, reader>>.              *)
(***************************************************************************)
EXTENDS CommunicationLog

CONSTANTS
    Users, Switches,    \* author ids of the users and of the switches
    ManagerId,          \* the author id of the manager
    None,               \* no id: the empty string, and the "-1" of getKeyByValue
    Links,              \* ordered pairs of nodes a link connects
    QueueSize           \* packets a link holds before it drops what is sent

Nodes == Users \cup Switches \cup {ManagerId}

\* The readers that are not one node: "user:*", "switch:*" and "manager:*".
USER_ALL == "user:*"
SWITCH_ALL == "switch:*"
MANAGER_ALL == "manager:*"

ASSUME IdsDistinct ==
    /\ Users \cap Switches = {}
    /\ ManagerId \notin Users \cup Switches
    /\ None \notin Nodes
    /\ {USER_ALL, SWITCH_ALL, MANAGER_ALL, "switch*", "p"} \cap (Nodes \cup {None}) = {}

ASSUME FiniteNetwork == IsFiniteSet(Users) /\ IsFiniteSet(Switches)

\* A point-to-point link carries both directions.
ASSUME LinksConnectNodes ==
    /\ Links \subseteq Nodes \X Nodes
    /\ \A l \in Links : l[1] # l[2] /\ <<l[2], l[1]>> \in Links

\* nodesSetup gives every user one link, to a switch; the manager has links
\* to switches only.
ASSUME UsersSingleHomed ==
    \A u \in Users :
        \E s \in Switches : \A n \in Nodes : <<u, n>> \in Links <=> n = s

ASSUME QueueSizeIsPositive == QueueSize \in Nat \ {0}

Peers(n) == {m \in Nodes : <<n, m>> \in Links}

LOGTYPE(writer, reader) == <<writer, reader>>

\* A packet is a printed NetShell. Its hop count is 0 wherever one is built
\* and its receiver is never printed, so neither is kept.
NetShell(type, flag, entry) == [type |-> type, flag |-> flag, shell |-> entry]

-----------------------------------------------------------------------------
VARIABLES
    logPacket,      \* logPacket[n]: the logs n holds, by log type
    myPersonalLog,  \* myPersonalLog[n]: the log a user or the manager publishes
    neighbourMap,   \* neighbourMap[n]: the device n reaches each known author by
    familyMembers,  \* familyMembers[n]: members n knows, in order of arrival
    started,        \* nodes whose application has registered its handler
    channel,        \* channel[<<n, m>>]: packets sent from n to m, in order
    fault           \* "none", or what ended the simulation

deviceVars ==
    <<logPacket, myPersonalLog, neighbourMap, familyMembers, started, channel, fault>>

DeviceInit ==
    /\ logPacket = [n \in Nodes |-> << >>]
    /\ myPersonalLog = [n \in Users \cup {ManagerId} |->
           IF n \in Users THEN NewLog(n)
           ELSE appendLogShell(NewLog(n), InitialContent(None))]
    /\ neighbourMap = [n \in Nodes |-> << >>]
    /\ familyMembers = [n \in Switches \cup {ManagerId} |-> << >>]
    /\ started = {ManagerId}
    /\ channel = [l \in Links |-> << >>]
    /\ fault = "none"

-----------------------------------------------------------------------------
(* LogList and the map of neighbours: an insertion never replaces. *)

Insert(map, key, value) ==
    [k \in DOMAIN map \cup {key} |-> IF k \in DOMAIN map THEN map[k] ELSE value]

\* LogList::remove
Without(list, type) == [t \in DOMAIN list \ {type} |-> list[t]]

exists(list, type) == type \in DOMAIN list

\* The author known behind device dev, None if there is none.
getKeyByValue(map, dev) ==
    IF \E a \in DOMAIN map : map[a] = dev
    THEN CHOOSE a \in DOMAIN map : map[a] = dev
    ELSE None

isNeighbour(map, author) == author \in DOMAIN map

\* Mutant: the sender is recorded under every author it relays an entry of.
MutLearnNeighbour(map, dev, author) == Insert(map, author, dev)

\* Mutant: nobody is ever recorded.
MutLearnNobody(map, dev, author) == map

\* The first packet through an unknown device names it: isNeighbourToAdd and
\* addNeighbour at the head of the handlers of switches and users.
LearnNeighbour(map, dev, author) ==
    IF getKeyByValue(map, dev) = None THEN Insert(map, author, dev) ELSE map

-----------------------------------------------------------------------------
(* Concatenating a received entry *)

\* Mutant: the log is created anew for every entry.
MutConcatenateEntry(list, type, entry) ==
    [t \in DOMAIN list \cup {type} |->
        IF t = type THEN addToLog(NewLog(entry.authorId), entry) ELSE list[t]]

\* logs after concatenateEntry: a log seen for the first time is created,
\* owned by the author of the entry, whether or not it takes the entry.
concatenateEntry(list, type, entry) ==
    LET known == Insert(list, type, NewLog(entry.authorId))
    IN  [known EXCEPT ![type] = addToLog(@, entry)]

\* Mutant: any entry of a log that exists counts.
MutIsEntryConcatenated(list, type, entry) ==
    type \in DOMAIN list \/ entry.sequenceNum = 0

isEntryConcatenated(list, type, entry) ==
    isSubsequentEntry(Insert(list, type, NewLog(entry.authorId))[type], entry)

\* Mutant: being ahead by one entry does not count.
MutIsGossipEntryOlder(list, packet) ==
    getCurrentSeqNum(list[packet.type]) > packet.shell.sequenceNum + 1

\* The packet shows an entry of a log this node is ahead of.
isGossipEntryOlder(list, packet) ==
    getCurrentSeqNum(list[packet.type]) > packet.shell.sequenceNum

-----------------------------------------------------------------------------
(* Sending: what goes out is a function from peers to sequences of packets. *)

Nothing == [m \in Nodes |-> << >>]

\* Mutant of sendEntryFromIndexTo's loop: it starts after the index.
MutEntriesFrom(l, from, type) ==
    LET first == IF from < 0 THEN 0 ELSE from
        sent == SubSeq(l.log, first + 2, Len(l.log))
    IN  [i \in 1..Len(sent) |-> NetShell(type, 0, sent[i])]

\* The entries of l from index from on (-1 reads as 0), each in a packet.
EntriesFrom(l, from, type) ==
    LET first == IF from < 0 THEN 0 ELSE from
        sent == SubSeq(l.log, first + 1, Len(l.log))
    IN  [i \in 1..Len(sent) |-> NetShell(type, 0, sent[i])]

\* sendEntryFromIndexTo: no packets without a receiver; the caller has
\* checked that the log exists.
sendEntryFromIndexTo(l, map, receiver, from, type) ==
    [m \in Nodes |->
        IF receiver \in DOMAIN map /\ map[receiver] = m
        THEN EntriesFrom(l, from, type) ELSE << >>]

\* It reads getLastEntry before its loop, which is undefined on an empty log.
ReadsEmptyLog(l, receiver) == receiver # None /\ empty(l)

\* Mutant: a queue without end.
MutEnqueue(queue, packets) == queue \o packets

\* DropTail: what no longer fits is dropped ("Unable to send packet").
Enqueue(queue, packets) ==
    LET all == queue \o packets
    IN  IF Len(all) <= QueueSize THEN all ELSE SubSeq(all, 1, QueueSize)

\* The links once n has sent out.
Sending(links, n, out) ==
    [l \in Links |-> IF l[1] = n THEN Enqueue(links[l], out[l[2]]) ELSE links[l]]

\* The links once the head packet of d's link to n has been read.
Taking(n, d) == [channel EXCEPT ![<<d, n>>] = Tail(@)]

-----------------------------------------------------------------------------
(* Guards every action or receive handler starts from *)

\* A node acts while the simulation runs, once its application has started.
Running(n) == fault = "none" /\ n \in started

\* Switches start together, and a link takes 2 ms: no packet arrives before
\* all of them have registered their handlers.
Arriving(n, d) ==
    /\ fault = "none"
    /\ Switches \subseteq started
    /\ <<d, n>> \in Links
    /\ channel[<<d, n>>] # << >>

Receiving(n, d) == Arriving(n, d) /\ n \in started

Arrived(n, d) == Head(channel[<<d, n>>])

\* The outcome of a step: a cause of abnormal termination, if one applies.
Ends(undefined, unparsable) ==
    fault' = IF unparsable THEN "stod" ELSE IF undefined THEN "undefined" ELSE fault
=============================================================================
