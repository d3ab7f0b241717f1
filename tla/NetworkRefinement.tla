-------------------------- MODULE NetworkRefinement --------------------------
(***************************************************************************)
(* Network implements ReplicatedLogs: the writers' logs are what is        *)
(* written, the other logs in the devices' lists are the copies, and users *)
(* may drop copies of published logs.                                      *)
(***************************************************************************)
EXTENDS Network

\* A log that node n writes and keeps in its list.
IsOwn(n, type) == type[1] = n /\ ~IsPublished(type)

WrittenLogs == [t \in {u \in LogTypes : IsWritten(u)} |-> WrittenLog(t)]

Held(n) == {t \in DOMAIN logPacket[n] : ~IsOwn(n, t)}

HeldLogs == [n \in Nodes |-> [t \in Held(n) |-> logPacket[n][t].log]]

UserSubscriptions == Users \X {ContentOf(a) : a \in Users}

Replicas == INSTANCE ReplicatedLogs WITH
    written <- WrittenLogs, copies <- HeldLogs, Droppable <- UserSubscriptions

\* Every step of the network is a turn of one node: it adds to the logs that
\* node writes, and hands it at most one entry, the next one of a log; copies
\* are given up by users alone (recvPkt, concatenateEntry, unsubscribe).
ImplementsReplicatedLogs == Replicas!Spec
=============================================================================
