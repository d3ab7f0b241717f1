----------------------------- MODULE NamingProofs -----------------------------
(***************************************************************************)
(* Who sends what to whom: a log that is not published travels from its    *)
(* writer to its reader only, each entry once, and the first packet        *)
(* through a device was written by its sender. NamingInv says so. It is    *)
(* shown to be kept by whatever is an Exchange; then what the network      *)
(* does, handler by handler, is shown to be one. So devices are known      *)
(* under the id of the node they lead to; RequestProofs draws on it too.   *)
(***************************************************************************)
EXTENDS MembershipProofs

\* Logs of requests: what a switch reads of them it acts upon at once.
IsRequestLog(t) == t # MyType /\ t[2] \in Switches \cup {SWITCH_ALL}

\* What may be on its way on link l: users and the manager send their own
\* entries only; switches relay what is published, and send all else to the
\* reader it is written for.
IsRouted(l, p) ==
    /\ l[1] \in Users \cup {ManagerId} => p.shell.authorId = l[1]
    /\ \/ p.type \in {MyType, GossipAnswerType}
       \/ p.type[2] = USER_ALL
       \/ p.type[1] = l[1] /\ (p.type[2] \in Nodes => p.type[2] = l[2])

Routing == \A l \in Links : \A i \in 1..Len(channel[l]) : IsRouted(l, channel[l][i])

\* The entries of request logs in a queue are in ascending order ...
IsAscending(queue) ==
    \A i \in 1..Len(queue) : \A j \in 1..Len(queue) :
        i < j /\ IsRequestLog(queue[i].type) /\ queue[i].type = queue[j].type
            => queue[i].shell.sequenceNum < queue[j].shell.sequenceNum

CopyIn(list, t) == IF t \in DOMAIN list THEN list[t].log ELSE << >>

\* ... and none of them is in the list of the node they are sent to.
IsAhead(list, queue) ==
    \A i \in 1..Len(queue) :
        IsRequestLog(queue[i].type)
            => queue[i].shell.sequenceNum >= Len(CopyIn(list, queue[i].type))

Freshness == \A l \in Links : IsAscending(channel[l]) /\ IsAhead(logPacket[l[2]], channel[l])

\* A node is silent, and unknown, until it has started.
SilentUntilStarted ==
    \A l \in Links : l[1] \notin started =>
        channel[l] = << >> /\ l[1] \notin DOMAIN neighbourMap[l[2]]

\* A packet of the sender's own is the next to be read.
IsIntroducing(l) == channel[l] # << >> /\ Head(channel[l]).shell.authorId = l[1]

\* Before a switch knows another, the other's request to join is on its way;
\* users start when that is over.
SwitchesMeet ==
    /\ Users \cap started = {} \/ Switches \subseteq started
    /\ \A l \in Links \cap (Switches \X Switches) :
          l[1] \in started /\ l[1] \notin DOMAIN neighbourMap[l[2]]
              => IsIntroducing(l) /\ Users \cap started = {}

\* No entry of log t is anywhere, and none is on its way.
NoneIsSent(t) ==
    /\ \A n \in Nodes : t \notin DOMAIN logPacket[n]
    /\ \A l \in Links : \A i \in 1..Len(channel[l]) : channel[l][i].type # t

\* User u has not been heard of by its switch s, nor anyone else: it has not
\* published, it knows no one, and its plugAndPlay is the next to be read.
IsUnheard(u, s) ==
    /\ DOMAIN neighbourMap[u] = {}
    /\ SwitchLog(u) \notin DOMAIN logPacket[s]
    /\ NoneIsSent(ContentOf(u))
    /\ u \in started =>
           /\ channel[<<s, u>>] = << >> /\ channel[<<u, s>>] # << >>
           /\ Head(channel[<<u, s>>]).type = SwitchLog(u)
           /\ Head(channel[<<u, s>>]).shell.sequenceNum = 0
           /\ ~Unparsable(Head(channel[<<u, s>>]).shell)

\* When it has, what the switch tells it first is the switch's own.
UsersMeet ==
    \A l \in Links : l[1] \in Users =>
        \/ l[1] \notin DOMAIN neighbourMap[l[2]] /\ IsUnheard(l[1], l[2])
        \/ /\ l[1] \in DOMAIN neighbourMap[l[2]]
           /\ l[2] \in DOMAIN neighbourMap[l[1]] \/ IsIntroducing(<<l[2], l[1]>>)

NamingInv ==
    /\ NeighbourNaming /\ Routing /\ Freshness
    /\ SilentUntilStarted /\ SwitchesMeet /\ UsersMeet

-----------------------------------------------------------------------------
(* Queues *)

\* What a queue holds after it was sent packets.
LEMMA EnqueueIs ==
    ASSUME NEW q \in Seq(Packets), NEW ps \in Seq(Packets), Len(q) <= QueueSize
    PROVE  LET e == Enqueue(q, ps)
           IN  /\ e \in Seq(Packets) /\ Len(q) \in Nat /\ Len(e) \in Nat
               /\ Len(ps) \in Nat /\ Len(q) <= Len(e) /\ Len(e) <= Len(q) + Len(ps)
               /\ \A i \in 1..Len(q) : e[i] = q[i]
               /\ \A i \in 1..Len(e) : i > Len(q) => e[i] = ps[i - Len(q)]
               /\ Len(q) = 0 /\ Len(ps) > 0 => Len(e) > 0
<1> DEFINE all == q \o ps
           e == Enqueue(q, ps)
<1>1. /\ all \in Seq(Packets) /\ Len(all) = Len(q) + Len(ps)
      /\ \A i \in 1..Len(all) : all[i] = IF i <= Len(q) THEN q[i] ELSE ps[i - Len(q)]
  BY ConcatProperties
<1>2. Len(q) \in Nat /\ Len(ps) \in Nat /\ QueueSize \in Nat /\ QueueSize > 0
  BY LenProperties, QueueSizeIsPositive
<1>3. e \in Seq(Packets)
  BY EnqueueProperties
<1>4. /\ Len(e) = IF Len(all) <= QueueSize THEN Len(all) ELSE QueueSize
      /\ \A i \in 1..Len(e) : e[i] = all[i]
  <2>1. CASE Len(all) <= QueueSize
    BY <2>1 DEF Enqueue
  <2>2. CASE Len(all) > QueueSize
    <3>1. e = SubSeq(all, 1, QueueSize)
      BY <1>1, <1>2, <2>2 DEF Enqueue
    <3>2. \A i \in 1..QueueSize : all[i] \in Packets
      BY <1>1, <1>2, <2>2, ElementOfSeq
    <3> HIDE DEF all, e
    <3>3. Len(e) = QueueSize /\ \A i \in 1..QueueSize : e[i] = all[i]
      BY <1>2, <3>1, <3>2, SubSeqProperties
    <3> QED BY <1>1, <1>2, <2>2, <3>3
  <2> QED BY <1>1, <1>2, <2>1, <2>2
<1> HIDE DEF all, e
<1>5. /\ Len(e) \in Nat /\ Len(q) <= Len(e) /\ Len(e) <= Len(q) + Len(ps)
      /\ Len(e) <= Len(all)
      /\ Len(q) = 0 /\ Len(ps) > 0 => Len(e) > 0
  BY <1>1, <1>2, <1>4
<1>6. \A i \in 1..Len(e) : e[i] = IF i <= Len(q) THEN q[i] ELSE ps[i - Len(q)]
  BY <1>1, <1>2, <1>4, <1>5
<1>7. \A i \in 1..Len(q) : e[i] = q[i]
  BY <1>2, <1>5, <1>6
<1>8. \A i \in 1..Len(e) : i > Len(q) => e[i] = ps[i - Len(q)]
  BY <1>2, <1>5, <1>6
<1> QED
  BY <1>2, <1>3, <1>5, <1>7, <1>8 DEF e

\* The head of a queue stays at its head.
LEMMA EnqueueHead ==
    ASSUME NEW q \in Seq(Packets), NEW ps \in Seq(Packets), Len(q) <= QueueSize
    PROVE  /\ q # << >> => Enqueue(q, ps) # << >> /\ Head(Enqueue(q, ps)) = Head(q)
           /\ q = << >> /\ ps # << >> => Enqueue(q, ps) # << >> /\ Head(Enqueue(q, ps)) = ps[1]
           /\ q = << >> /\ ps = << >> => Enqueue(q, ps) = << >>
<1> DEFINE e == Enqueue(q, ps)
<1> HIDE DEF e
<1>1. /\ e \in Seq(Packets) /\ Len(q) \in Nat /\ Len(e) \in Nat
      /\ Len(ps) \in Nat /\ Len(q) <= Len(e) /\ Len(e) <= Len(q) + Len(ps)
      /\ \A i \in 1..Len(q) : e[i] = q[i]
      /\ \A i \in 1..Len(e) : i > Len(q) => e[i] = ps[i - Len(q)]
      /\ Len(q) = 0 /\ Len(ps) > 0 => Len(e) > 0
  BY EnqueueIs DEF e
<1>2. /\ q = << >> <=> Len(q) = 0
      /\ ps = << >> <=> Len(ps) = 0
      /\ e = << >> <=> Len(e) = 0
  BY <1>1, EmptySeq
<1>3. ASSUME q # << >> PROVE e # << >> /\ Head(e) = Head(q)
  <2>1. Len(q) > 0 /\ Len(e) > 0
    BY <1>1, <1>2, <1>3
  <2>2. e[1] = q[1]
    BY <1>1, <2>1
  <2>3. Head(e) = e[1] /\ Head(q) = q[1]
    BY <1>1, <1>2, <2>1
  <2> QED BY <1>2, <2>1, <2>2, <2>3
<1>4. ASSUME q = << >>, ps # << >> PROVE e # << >> /\ Head(e) = ps[1]
  <2>1. Len(q) = 0 /\ Len(e) > 0
    BY <1>1, <1>2, <1>4
  <2>2. e[1] = ps[1 - Len(q)]
    BY <1>1, <2>1
  <2>3. Head(e) = e[1]
    BY <1>1, <1>2, <2>1
  <2> QED BY <1>2, <2>1, <2>2, <2>3
<1>5. ASSUME q = << >>, ps = << >> PROVE e = << >>
  BY <1>1, <1>2, <1>5
<1> QED
  BY <1>3, <1>4, <1>5 DEF e

LEMMA TailIs ==
    ASSUME NEW q \in Seq(Packets), q # << >>
    PROVE  /\ Head(q) \in Packets /\ Head(q) = q[1]
           /\ Tail(q) \in Seq(Packets) /\ Len(q) \in Nat /\ Len(q) > 0
           /\ Len(Tail(q)) = Len(q) - 1
           /\ \A i \in 1..Len(Tail(q)) : i + 1 \in 1..Len(q) /\ Tail(q)[i] = q[i + 1]
<1>1. Len(q) \in Nat /\ Len(q) > 0
  BY EmptySeq, LenProperties
<1> QED
  BY <1>1, HeadTailProperties, ElementOfSeq

-----------------------------------------------------------------------------
(* Steps: what a node reads, sends and learns *)

\* What may be relayed to anyone.
IsRelayed(t) == t \in {MyType, GossipAnswerType} \/ t[2] = USER_ALL

\* Node n has a log of type t to send from: it writes or holds it, or has just
\* been sent an entry of it.
IsAtHand(n, d, t) == t[1] = n \/ t \in DOMAIN logPacket[n] \/ (d # None /\ t = Arrived(n, d).type)

\* Packets that n may send to m once it has read from d.
IsOutgoing(n, d, m, packets) ==
    /\ \A i \in 1..Len(packets) :
          /\ IsRouted(<<n, m>>, packets[i])
          /\ packets[i].type[2] = USER_ALL => IsAtHand(n, d, packets[i].type)
    /\ IsAhead(logPacket[n], packets) /\ IsAscending(packets)

\* The links after n has read from d, unless d is None, and sent out.
LinksStep(n, d, out) ==
    /\ out \in [Nodes -> Seq(Packets)]
    /\ d # None => Arriving(n, d)
    /\ channel' = Sending(IF d = None THEN channel ELSE Taking(n, d), n, out)
    /\ \A m \in Nodes : IsOutgoing(n, d, m, out[m])

\* Node n takes the entry that arrived from d.
IsTaken(n, d, t) ==
    LET p == Arrived(n, d)
    IN  /\ t = p.type /\ t \in DOMAIN logPacket'[n]
        /\ \/ logPacket'[n][t].log = CopyIn(logPacket[n], t)
           \/ /\ p.shell.sequenceNum = Len(CopyIn(logPacket[n], t))
              /\ logPacket'[n][t].log = Append(CopyIn(logPacket[n], t), p.shell)

\* Of what others write n holds the same as before, but for the entry that
\* arrived and what it gives up of what is published.
ListsStep(n, d) ==
    /\ \A m \in Nodes \ {n} : logPacket'[m] = logPacket[m]
    /\ \A t \in LogTypes :
          ~IsOwn(n, t) => \/ SameCopy(n, logPacket[n], logPacket'[n], t)
                          \/ t[2] = USER_ALL /\ t \notin DOMAIN logPacket'[n]
                          \/ d # None /\ IsTaken(n, d, t)

\* A map names every device after the node it leads to.
IsNaming(map) == \A a \in DOMAIN map : map[a] = a

\* n learns the name of d, and sends to whom it can name.
NamesStep(n, d, out) ==
    /\ n \in started /\ UNCHANGED started
    /\ d # None => Receiving(n, d)
    /\ \A m \in Nodes \ {n} : neighbourMap'[m] = neighbourMap[m]
    /\ IsNaming(neighbourMap'[n])
    /\ DOMAIN neighbourMap[n] \subseteq DOMAIN neighbourMap'[n]
    /\ DOMAIN neighbourMap'[n] \subseteq DOMAIN neighbourMap[n] \cup {d}
    /\ d # None /\ n # ManagerId => d \in DOMAIN neighbourMap'[n]
    /\ \A m \in Nodes : out[m] # << >> => m \in DOMAIN neighbourMap'[n]

\* To a user it has not heard of before, a switch sends an entry of its own.
Introduces(n, d, out) ==
    n \in Switches /\ d \in Users /\ d \notin DOMAIN neighbourMap[n]
        => out[d] # << >> /\ out[d][1].shell.authorId = n

Exchange(n, d, out) ==
    /\ n \in Nodes /\ d \in Nodes \cup {None}
    /\ LinksStep(n, d, out) /\ ListsStep(n, d) /\ NamesStep(n, d, out)
    /\ Introduces(n, d, out)

LEMMA LinkOfType ==
    ASSUME TypeInv, NEW l \in Links
    PROVE  /\ channel[l] \in Seq(Packets) /\ Len(channel[l]) <= QueueSize
           /\ l[1] \in Nodes /\ l[2] \in Nodes /\ l[1] # l[2] /\ l = <<l[1], l[2]>>
           /\ <<l[2], l[1]>> \in Links
  BY LinksConnectNodes DEF TypeInv, LinksOK

\* Each link has been read from, or been sent to, or neither.
LEMMA LinksStepIs ==
    ASSUME TypeInv, NEW n \in Nodes, NEW d \in Nodes \cup {None}, NEW out,
           LinksStep(n, d, out), NEW l \in Links
    PROVE  /\ l[1] = n => /\ channel'[l] = Enqueue(channel[l], out[l[2]])
                          /\ out[l[2]] \in Seq(Packets)
                          /\ IsOutgoing(n, d, l[2], out[l[2]])
           /\ l[1] = d /\ l[2] = n => /\ channel[l] # << >> /\ channel'[l] = Tail(channel[l])
                                      /\ Arriving(n, d) /\ Head(channel[l]) = Arrived(n, d)
           /\ l[1] # n /\ (l[1] # d \/ l[2] # n) => channel'[l] = channel[l]
<1> DEFINE links == IF d = None THEN channel ELSE Taking(n, d)
<1>1. /\ l[1] \in Nodes /\ l[2] \in Nodes /\ l[1] # l[2] /\ l = <<l[1], l[2]>>
  BY LinkOfType
<1>2. channel \in [Links -> Seq(Packets)]
  BY DEF TypeInv, LinksOK
<1>3. d # None => /\ <<d, n>> \in Links /\ channel[<<d, n>>] # << >>
  BY DEF LinksStep, Arriving
<1>4. /\ l[1] = d /\ l[2] = n => links[l] = Tail(channel[l])
      /\ ~(l[1] = d /\ l[2] = n) => links[l] = channel[l]
  <2>1. CASE d = None
    BY <1>1, <2>1, Identifiers
  <2>2. CASE d # None
    <3>1. links = [channel EXCEPT ![<<d, n>>] = Tail(@)]
      BY <2>2 DEF Taking
    <3>2. l = <<d, n>> <=> l[1] = d /\ l[2] = n
      BY <1>1
    <3> QED BY <1>2, <3>1, <3>2
  <2> QED BY <2>1, <2>2
<1>5. channel'[l] = IF l[1] = n THEN Enqueue(links[l], out[l[2]]) ELSE links[l]
  BY DEF LinksStep, Sending
<1> HIDE DEF links
<1>6. ASSUME l[1] = n
      PROVE  /\ channel'[l] = Enqueue(channel[l], out[l[2]])
             /\ out[l[2]] \in Seq(Packets) /\ IsOutgoing(n, d, l[2], out[l[2]])
  <2>1. l[2] # n
    BY <1>1, <1>6
  <2>2. channel'[l] = Enqueue(channel[l], out[l[2]])
    BY <1>4, <1>5, <1>6, <2>1
  <2> QED BY <1>1, <2>2 DEF LinksStep
<1>7. ASSUME l[1] = d, l[2] = n
      PROVE  /\ channel[l] # << >> /\ channel'[l] = Tail(channel[l])
             /\ Arriving(n, d) /\ Head(channel[l]) = Arrived(n, d)
  <2>1. d # None /\ l = <<d, n>> /\ l[1] # n
    BY <1>1, <1>7, Identifiers
  <2>2. channel'[l] = Tail(channel[l])
    BY <1>4, <1>5, <1>7, <2>1
  <2> QED BY <1>3, <2>1, <2>2 DEF LinksStep, Arrived
<1>8. ASSUME l[1] # n, l[1] # d \/ l[2] # n
      PROVE  channel'[l] = channel[l]
  BY <1>4, <1>5, <1>8
<1> QED
  BY <1>6, <1>7, <1>8

LEMMA SentIs ==
    ASSUME TypeInv, NEW n \in Nodes, NEW d \in Nodes \cup {None}, NEW out,
           LinksStep(n, d, out), NEW l \in Links, l[1] = n
    PROVE  /\ channel'[l] = Enqueue(channel[l], out[l[2]])
           /\ out[l[2]] \in Seq(Packets)
           /\ IsOutgoing(n, d, l[2], out[l[2]])
  BY LinksStepIs

LEMMA ReadIs ==
    ASSUME TypeInv, NEW n \in Nodes, NEW d \in Nodes \cup {None}, NEW out,
           LinksStep(n, d, out), NEW l \in Links, l[1] = d, l[2] = n
    PROVE  /\ channel[l] # << >> /\ channel'[l] = Tail(channel[l])
           /\ Arriving(n, d) /\ Head(channel[l]) = Arrived(n, d)
  BY LinksStepIs

LEMMA UntouchedIs ==
    ASSUME TypeInv, NEW n \in Nodes, NEW d \in Nodes \cup {None}, NEW out,
           LinksStep(n, d, out), NEW l \in Links, l[1] # n, l[1] # d \/ l[2] # n
    PROVE  channel'[l] = channel[l]
  BY LinksStepIs

-----------------------------------------------------------------------------
(* Routing and freshness *)

\* A request log has one reader and one writer, and what is relayed is none.
LEMMA RequestLogs ==
    ASSUME NEW p \in Packets, IsRequestLog(p.type)
    PROVE  /\ p.type \in LogTypes /\ ~IsPublished(p.type) /\ ~IsSubscription(p.type)
           /\ p.type # GossipAnswerType /\ p.type[2] # USER_ALL /\ p.type # MyType
           /\ IsOwn(p.type[1], p.type) /\ p.type[1] \in Nodes
           /\ \A n \in Nodes : n # p.type[1] => ~IsOwn(n, p.type)
<1>1. /\ GossipAnswerType[2] = "switch*" /\ GossipAnswerType[1] = ManagerId
      /\ MyType = <<ManagerId, SWITCH_ALL>>
  BY DEF GossipAnswerType, MyType, LOGTYPE
<1>2. /\ "switch*" \notin Nodes /\ "switch*" # SWITCH_ALL /\ USER_ALL \notin Nodes
      /\ USER_ALL # SWITCH_ALL /\ Switches \subseteq Nodes /\ SWITCH_ALL \notin Nodes
  BY Identifiers DEF USER_ALL, SWITCH_ALL
<1>3. p.type \in LogTypes \cup {GossipAnswerType}
  BY PacketType
<1>4. /\ p.type # MyType /\ p.type[2] \in Switches \cup {SWITCH_ALL}
  BY DEF IsRequestLog
<1>5. p.type # GossipAnswerType /\ p.type \in LogTypes
  BY <1>1, <1>2, <1>3, <1>4
<1>6. p.type[1] \in Nodes /\ p.type = <<p.type[1], p.type[2]>>
  BY <1>5 DEF LogTypes
<1>7. p.type[2] # USER_ALL
  BY <1>2, <1>4
<1>8. ~IsPublished(p.type)
  BY <1>4, <1>7 DEF IsPublished
<1>9. ~IsSubscription(p.type)
  BY <1>1, <1>4, <1>6, <1>7 DEF IsSubscription
<1> QED
  BY <1>4, <1>5, <1>6, <1>7, <1>8, <1>9 DEF IsOwn

\* An entry of a request log comes from its writer.
LEMMA RequestIsRouted ==
    ASSUME NEW p \in Packets, IsRequestLog(p.type), NEW l, IsRouted(l, p)
    PROVE  p.type[1] = l[1] /\ (p.type[2] \in Nodes => p.type[2] = l[2])
  BY RequestLogs DEF IsRouted

LEMMA ArrivedIsRouted ==
    ASSUME TypeInv, Routing, NEW n, NEW d, Arriving(n, d)
    PROVE  IsRouted(<<d, n>>, Arrived(n, d)) /\ Arrived(n, d) \in Packets
<1>1. <<d, n>> \in Links /\ channel[<<d, n>>] # << >>
  BY DEF Arriving
<1>2. channel[<<d, n>>] \in Seq(Packets)
  BY <1>1, LinkOfType
<1>3. /\ Head(channel[<<d, n>>]) = channel[<<d, n>>][1] /\ Head(channel[<<d, n>>]) \in Packets
      /\ 1 \in 1..Len(channel[<<d, n>>])
  BY <1>1, <1>2, TailIs
<1> QED
  BY <1>1, <1>3 DEF Routing, Arrived

LEMMA RoutingStep ==
    ASSUME TypeInv, Routing, NEW n \in Nodes, NEW d \in Nodes \cup {None}, NEW out,
           LinksStep(n, d, out)
    PROVE  Routing'
<1> SUFFICES ASSUME NEW l \in Links, NEW i \in 1..Len(channel'[l])
             PROVE  IsRouted(l, channel'[l][i])
  BY DEF Routing, IsRouted, Nodes
<1>1. /\ channel[l] \in Seq(Packets) /\ Len(channel[l]) <= QueueSize
      /\ l = <<l[1], l[2]>> /\ l[2] \in Nodes
  BY LinkOfType
<1>2. \A j \in 1..Len(channel[l]) : IsRouted(l, channel[l][j])
  BY DEF Routing
<1>3. CASE l[1] = n
  <2> DEFINE ps == out[l[2]]
  <2>1. channel'[l] = Enqueue(channel[l], ps) /\ ps \in Seq(Packets)
    BY <1>3, LinksStepIs
  <2>2. \A j \in 1..Len(ps) : IsRouted(l, ps[j])
    <3>1. IsOutgoing(n, d, l[2], ps) /\ <<n, l[2]>> = l
      BY <1>1, <1>3, LinksStepIs
    <3> QED BY <3>1 DEF IsOutgoing
  <2> HIDE DEF ps
  <2> DEFINE q == channel[l]
             e == channel'[l]
  <2>3. /\ Len(q) \in Nat /\ Len(e) \in Nat /\ Len(ps) \in Nat
        /\ Len(q) <= Len(e) /\ Len(e) <= Len(q) + Len(ps)
        /\ \A j \in 1..Len(q) : e[j] = q[j]
        /\ \A j \in 1..Len(e) : j > Len(q) => e[j] = ps[j - Len(q)]
    BY <1>1, <2>1, EnqueueIs
  <2> HIDE DEF q, e
  <2>4. CASE i <= Len(q)
    <3>1. i \in 1..Len(q)
      BY <2>3, <2>4 DEF e
    <3> QED BY <1>2, <2>3, <3>1 DEF q, e
  <2>5. CASE i > Len(q)
    <3>1. i - Len(q) \in 1..Len(ps) /\ i \in 1..Len(e)
      BY <2>3, <2>5 DEF e
    <3> QED BY <2>2, <2>3, <2>5, <3>1 DEF e
  <2> QED BY <2>3, <2>4, <2>5 DEF e
<1>4. CASE l[1] = d /\ l[2] = n
  <2>1. channel[l] # << >> /\ channel'[l] = Tail(channel[l])
    BY <1>4, LinksStepIs
  <2>2. i + 1 \in 1..Len(channel[l]) /\ channel'[l][i] = channel[l][i + 1]
    BY <1>1, <2>1, TailIs
  <2> QED BY <1>2, <2>2
<1>5. CASE l[1] # n /\ (l[1] # d \/ l[2] # n)
  <2>1. channel'[l] = channel[l]
    BY <1>5, LinksStepIs
  <2> QED BY <1>2, <2>1
<1> QED
  BY <1>3, <1>4, <1>5

LEMMA AscendingEnqueued ==
    ASSUME NEW q \in Seq(Packets), NEW ps \in Seq(Packets), Len(q) <= QueueSize,
           IsAscending(q), IsAscending(ps),
           \A i \in 1..Len(q) : \A j \in 1..Len(ps) :
               IsRequestLog(q[i].type) /\ q[i].type = ps[j].type
                   => q[i].shell.sequenceNum < ps[j].shell.sequenceNum
    PROVE  IsAscending(Enqueue(q, ps))
<1> DEFINE e == Enqueue(q, ps)
<1>1. /\ Len(q) \in Nat /\ Len(e) \in Nat /\ Len(ps) \in Nat
      /\ Len(q) <= Len(e) /\ Len(e) <= Len(q) + Len(ps)
      /\ \A j \in 1..Len(q) : e[j] = q[j]
      /\ \A j \in 1..Len(e) : j > Len(q) => e[j] = ps[j - Len(q)]
  BY EnqueueIs
<1> HIDE DEF e
<1> SUFFICES ASSUME NEW i \in 1..Len(e), NEW j \in 1..Len(e),
                    i < j, IsRequestLog(e[i].type), e[i].type = e[j].type
             PROVE  e[i].shell.sequenceNum < e[j].shell.sequenceNum
  BY DEF IsAscending, e
<1>2. CASE j <= Len(q)
  <2>1. i \in 1..Len(q) /\ j \in 1..Len(q)
    BY <1>1, <1>2
  <2>2. e[i] = q[i] /\ e[j] = q[j]
    BY <1>1, <2>1
  <2> QED BY <2>1, <2>2 DEF IsAscending
<1>3. CASE i > Len(q)
  <2>1. /\ i - Len(q) \in 1..Len(ps) /\ j - Len(q) \in 1..Len(ps)
        /\ i - Len(q) < j - Len(q) /\ j > Len(q)
    BY <1>1, <1>3
  <2>2. e[i] = ps[i - Len(q)] /\ e[j] = ps[j - Len(q)]
    BY <1>1, <1>3, <2>1
  <2> QED BY <2>1, <2>2 DEF IsAscending
<1>4. CASE i <= Len(q) /\ j > Len(q)
  <2>1. i \in 1..Len(q) /\ j - Len(q) \in 1..Len(ps)
    BY <1>1, <1>4
  <2>2. e[i] = q[i] /\ e[j] = ps[j - Len(q)]
    BY <1>1, <1>4, <2>1
  <2> QED BY <2>1, <2>2
<1> QED
  BY <1>1, <1>2, <1>3, <1>4

LEMMA AscendingTail ==
    ASSUME NEW q \in Seq(Packets), q # << >>, IsAscending(q)
    PROVE  /\ IsAscending(Tail(q))
           /\ \A i \in 1..Len(Tail(q)) :
                  IsRequestLog(Tail(q)[i].type) /\ Tail(q)[i].type = Head(q).type
                      => Tail(q)[i].shell.sequenceNum > Head(q).shell.sequenceNum
<1> DEFINE r == Tail(q)
           p == Head(q)
<1>1. /\ p = q[1] /\ p \in Packets /\ Len(q) \in Nat /\ Len(q) > 0 /\ Len(r) = Len(q) - 1
      /\ \A i \in 1..Len(r) : i + 1 \in 1..Len(q) /\ r[i] = q[i + 1]
  BY TailIs
<1>2. \A i \in 1..Len(q) : q[i] \in Packets /\ q[i].shell.sequenceNum \in Int
  BY ElementOfSeq, PacketType, EntryType
<1> HIDE DEF r, p
<1>3. IsAscending(r)
  <2> SUFFICES ASSUME NEW i \in 1..Len(r), NEW j \in 1..Len(r),
                      i < j, IsRequestLog(r[i].type), r[i].type = r[j].type
               PROVE  r[i].shell.sequenceNum < r[j].shell.sequenceNum
    BY DEF IsAscending
  <2>1. i + 1 < j + 1 /\ i + 1 \in 1..Len(q) /\ j + 1 \in 1..Len(q)
    BY <1>1
  <2> QED BY <1>1, <2>1 DEF IsAscending
<1>4. ASSUME NEW i \in 1..Len(r), IsRequestLog(r[i].type), r[i].type = p.type
      PROVE  r[i].shell.sequenceNum > p.shell.sequenceNum
  <2>1. i + 1 \in 1..Len(q) /\ 1 \in 1..Len(q) /\ 1 < i + 1 /\ r[i] = q[i + 1] /\ p = q[1]
    BY <1>1
  <2>2. q[1].shell.sequenceNum < q[i + 1].shell.sequenceNum
    BY <1>4, <2>1 DEF IsAscending
  <2> QED BY <1>2, <2>1, <2>2
<1> QED
  BY <1>3, <1>4 DEF r, p

LEMMA CopyOfType ==
    ASSUME TypeInv, NEW n \in Nodes, NEW t
    PROVE  CopyIn(logPacket[n], t) \in Seq(Entries) /\ Len(CopyIn(logPacket[n], t)) \in Nat
<1>1. CopyIn(logPacket[n], t) \in Seq(Entries)
  BY ListType DEF CopyIn
<1> QED
  BY <1>1, LenProperties

\* No copy of a log that is not published is longer than its writer's.
LEMMA CopyIsShorter ==
    ASSUME TypeInv, LogIntegrity, NEW t \in LogTypes, ~IsPublished(t), NEW n \in Nodes
    PROVE  Len(CopyIn(logPacket[n], t)) <= Len(CopyIn(logPacket[t[1]], t))
<1>1. t[1] \in Nodes
  BY LogTypeParts
<1>2. CASE t \notin DOMAIN logPacket[n]
  <2>1. Len(CopyIn(logPacket[n], t)) = 0
    BY <1>2 DEF CopyIn
  <2> QED BY <1>1, <2>1, CopyOfType
<1>3. CASE t \in DOMAIN logPacket[n]
  <2>1. /\ IsWritten(t) /\ IsPrefix(logPacket[n][t].log, WrittenLog(t))
    BY <1>3 DEF LogIntegrity
  <2>2. t \in DOMAIN logPacket[t[1]] /\ WrittenLog(t) = CopyIn(logPacket[t[1]], t)
    BY <2>1 DEF IsWritten, WrittenLog, CopyIn
  <2>3. logPacket[n][t].log = CopyIn(logPacket[n], t)
    BY <1>3 DEF CopyIn
  <2>4. CopyIn(logPacket[n], t) \in Seq(Entries) /\ CopyIn(logPacket[t[1]], t) \in Seq(Entries)
    BY <1>1, CopyOfType
  <2> QED BY <2>1, <2>2, <2>3, <2>4, PrefixIs
<1> QED
  BY <1>2, <1>3

\* What is on its way of such a log has been written.
LEMMA QueuedIsWritten ==
    ASSUME TypeInv, LogIntegrity, NEW l \in Links, NEW i \in 1..Len(channel[l]),
           IsRequestLog(channel[l][i].type)
    PROVE  LET p == channel[l][i]
           IN  /\ p \in Packets /\ p.shell.sequenceNum \in Nat
               /\ p.shell.sequenceNum < Len(CopyIn(logPacket[p.type[1]], p.type))
<1> DEFINE p == channel[l][i]
<1>1. p \in Packets
  BY LinkOfType, ElementOfSeq
<1>2. IsGenuine(p)
  BY DEF LogIntegrity
<1> HIDE DEF p
<1>3. /\ p.type \in LogTypes /\ ~IsPublished(p.type) /\ ~IsSubscription(p.type)
      /\ p.type # GossipAnswerType /\ p.type[1] \in Nodes
  BY <1>1, RequestLogs DEF p
<1>4. /\ IsWritten(p.type) /\ p.shell.sequenceNum + 1 \in 1..Len(WrittenLog(p.type))
  BY <1>2, <1>3 DEF IsGenuine
<1>5. WrittenLog(p.type) = CopyIn(logPacket[p.type[1]], p.type)
  BY <1>3, <1>4 DEF IsWritten, WrittenLog, CopyIn
<1>6. p.shell.sequenceNum \in Int
  BY <1>1, PacketType, EntryType
<1>7. Len(CopyIn(logPacket[p.type[1]], p.type)) \in Nat
  BY <1>3, CopyOfType
<1> QED
  BY <1>1, <1>4, <1>5, <1>6, <1>7 DEF p

LEMMA CopiesKept ==
    ASSUME NEW n, NEW d, ListsStep(n, d), NEW m \in Nodes, m # n, NEW t
    PROVE  CopyIn(logPacket'[m], t) = CopyIn(logPacket[m], t)
  BY DEF ListsStep, CopyIn

\* A copy of a request log changes by the entry that arrived from its writer.
LEMMA RequestCopies ==
    ASSUME TypeInv, TypeInv', Routing, NEW n \in Nodes, NEW d \in Nodes \cup {None}, NEW out,
           LinksStep(n, d, out), ListsStep(n, d),
           NEW p \in Packets, IsRequestLog(p.type), p.type[1] # n
    PROVE  \/ CopyIn(logPacket'[n], p.type) = CopyIn(logPacket[n], p.type)
           \/ /\ d # None /\ p.type = Arrived(n, d).type /\ p.type[1] = d
              /\ Arrived(n, d).shell.sequenceNum = Len(CopyIn(logPacket[n], p.type))
              /\ CopyIn(logPacket'[n], p.type) = Append(CopyIn(logPacket[n], p.type), Arrived(n, d).shell)
<1> DEFINE t == p.type
<1>1. t \in LogTypes /\ ~IsOwn(n, t) /\ t[2] # USER_ALL
  BY RequestLogs
<1>2. \/ SameCopy(n, logPacket[n], logPacket'[n], t)
      \/ d # None /\ IsTaken(n, d, t)
  BY <1>1 DEF ListsStep
<1>3. ASSUME SameCopy(n, logPacket[n], logPacket'[n], t)
      PROVE  CopyIn(logPacket'[n], t) = CopyIn(logPacket[n], t)
  BY <1>3 DEF SameCopy, CopyIn
<1>4. ASSUME d # None, IsTaken(n, d, t)
      PROVE  /\ t = Arrived(n, d).type /\ t[1] = d
             /\ \/ CopyIn(logPacket'[n], t) = CopyIn(logPacket[n], t)
                \/ /\ Arrived(n, d).shell.sequenceNum = Len(CopyIn(logPacket[n], t))
                   /\ CopyIn(logPacket'[n], t) = Append(CopyIn(logPacket[n], t), Arrived(n, d).shell)
  <2>1. t = Arrived(n, d).type /\ CopyIn(logPacket'[n], t) = logPacket'[n][t].log
    BY <1>4 DEF IsTaken, CopyIn
  <2>2. Arriving(n, d)
    BY <1>4 DEF LinksStep
  <2>3. Arrived(n, d) \in Packets /\ IsRouted(<<d, n>>, Arrived(n, d))
    BY <2>2, ArrivedIsRouted
  <2>4. t[1] = <<d, n>>[1]
    BY <2>1, <2>3, RequestIsRouted
  <2> QED BY <1>4, <2>1, <2>4 DEF IsTaken
<1> HIDE DEF t
<1>5. QED
  BY <1>2, <1>3, <1>4 DEF t

LEMMA FreshSending ==
    ASSUME TypeInv, LogIntegrity, Routing, Freshness,
           NEW n \in Nodes, NEW d \in Nodes \cup {None}, NEW out,
           LinksStep(n, d, out), ListsStep(n, d), NEW l \in Links, l[1] = n
    PROVE  IsAscending(channel'[l]) /\ IsAhead(logPacket'[l[2]], channel'[l])
<1> DEFINE q == channel[l]
           ps == out[l[2]]
           m == l[2]
           e == channel'[l]
<1>1. /\ q \in Seq(Packets) /\ Len(q) <= QueueSize /\ m \in Nodes /\ m # n
      /\ e = Enqueue(q, ps) /\ ps \in Seq(Packets)
  <2>1. /\ q \in Seq(Packets) /\ Len(q) <= QueueSize /\ m \in Nodes /\ m # n
    BY LinkOfType
  <2>2. e = Enqueue(q, ps) /\ ps \in Seq(Packets)
    BY SentIs
  <2> QED BY <2>1, <2>2
<1>2. /\ IsAscending(q) /\ IsAhead(logPacket[m], q)
  BY DEF Freshness
<1>3. IsOutgoing(n, d, m, ps)
  BY SentIs
<1>4. /\ IsAscending(ps) /\ IsAhead(logPacket[n], ps)
      /\ \A j \in 1..Len(ps) : IsRouted(<<n, m>>, ps[j])
  BY <1>3 DEF IsOutgoing
<1>5. ASSUME NEW j \in 1..Len(ps), IsRequestLog(ps[j].type)
      PROVE  /\ ps[j] \in Packets /\ ps[j].type[1] = n /\ ps[j].type \in LogTypes
             /\ ~IsPublished(ps[j].type) /\ ps[j].shell.sequenceNum \in Int
             /\ ps[j].shell.sequenceNum >= Len(CopyIn(logPacket[n], ps[j].type))
  <2>1. ps[j] \in Packets
    BY <1>1, ElementOfSeq
  <2>2. ps[j].type[1] = <<n, m>>[1]
    BY <1>4, <1>5, <2>1, RequestIsRouted
  <2>3. ps[j].shell.sequenceNum >= Len(CopyIn(logPacket[n], ps[j].type))
    BY <1>4, <1>5 DEF IsAhead
  <2>4. ps[j].type \in LogTypes /\ ~IsPublished(ps[j].type) /\ ps[j].shell.sequenceNum \in Int
    BY <1>5, <2>1, RequestLogs, PacketType, EntryType
  <2> QED BY <2>1, <2>2, <2>3, <2>4
<1>6. \A i \in 1..Len(q) : IsRequestLog(q[i].type) =>
          /\ q[i] \in Packets /\ q[i].shell.sequenceNum \in Nat
          /\ q[i].shell.sequenceNum < Len(CopyIn(logPacket[q[i].type[1]], q[i].type))
  BY QueuedIsWritten
<1> HIDE DEF q, ps, m, e
<1>7. ASSUME NEW i \in 1..Len(q), NEW j \in 1..Len(ps),
             IsRequestLog(q[i].type), q[i].type = ps[j].type
      PROVE  q[i].shell.sequenceNum < ps[j].shell.sequenceNum
  <2> DEFINE t == q[i].type
  <2>1. /\ t[1] = n /\ ps[j].shell.sequenceNum \in Int
        /\ ps[j].shell.sequenceNum >= Len(CopyIn(logPacket[n], t))
    BY <1>5, <1>7
  <2>2. q[i].shell.sequenceNum \in Nat /\ q[i].shell.sequenceNum < Len(CopyIn(logPacket[n], t))
    BY <1>6, <1>7, <2>1
  <2>3. Len(CopyIn(logPacket[n], t)) \in Nat
    BY CopyOfType
  <2> QED BY <2>1, <2>2, <2>3
<1>8. IsAscending(e)
  BY <1>1, <1>2, <1>4, <1>7, AscendingEnqueued
<1>9. ASSUME NEW i \in 1..Len(e), IsRequestLog(e[i].type)
      PROVE  e[i].shell.sequenceNum >= Len(CopyIn(logPacket'[m], e[i].type))
  <2>1. CopyIn(logPacket'[m], e[i].type) = CopyIn(logPacket[m], e[i].type)
    BY <1>1, CopiesKept
  <2>2. /\ Len(q) \in Nat /\ Len(e) \in Nat /\ Len(ps) \in Nat
        /\ Len(q) <= Len(e) /\ Len(e) <= Len(q) + Len(ps)
        /\ \A j \in 1..Len(q) : e[j] = q[j]
        /\ \A j \in 1..Len(e) : j > Len(q) => e[j] = ps[j - Len(q)]
    BY <1>1, EnqueueIs
  <2>3. CASE i <= Len(q)
    <3>1. i \in 1..Len(q) /\ e[i] = q[i]
      BY <2>2, <2>3
    <3> QED BY <1>2, <1>9, <2>1, <3>1 DEF IsAhead
  <2>4. CASE i > Len(q)
    <3>1. i - Len(q) \in 1..Len(ps) /\ e[i] = ps[i - Len(q)]
      BY <2>2, <2>4
    <3> DEFINE p == e[i]
    <3>2. /\ p.type[1] = n /\ p.type \in LogTypes /\ ~IsPublished(p.type)
          /\ p.shell.sequenceNum \in Int /\ p.shell.sequenceNum >= Len(CopyIn(logPacket[n], p.type))
      BY <1>5, <1>9, <3>1
    <3> HIDE DEF p
    <3>3. Len(CopyIn(logPacket[m], p.type)) <= Len(CopyIn(logPacket[n], p.type))
      BY <1>1, <3>2, CopyIsShorter
    <3>4. Len(CopyIn(logPacket[m], p.type)) \in Nat /\ Len(CopyIn(logPacket[n], p.type)) \in Nat
      BY <1>1, CopyOfType
    <3> QED BY <2>1, <3>2, <3>3, <3>4 DEF p
  <2> QED BY <2>2, <2>3, <2>4
<1>10. IsAhead(logPacket'[m], e)
  BY <1>9 DEF IsAhead
<1> QED
  BY <1>8, <1>10 DEF e, m

LEMMA FreshReading ==
    ASSUME TypeInv, TypeInv', LogIntegrity, Routing, Freshness,
           NEW n \in Nodes, NEW d \in Nodes \cup {None}, NEW out,
           LinksStep(n, d, out), ListsStep(n, d), NEW l \in Links, l[1] = d, l[2] = n
    PROVE  IsAscending(channel'[l]) /\ IsAhead(logPacket'[l[2]], channel'[l])
<1> DEFINE q == channel[l]
           r == channel'[l]
           h == Arrived(n, d)
<1>1. q \in Seq(Packets) /\ l[1] # n /\ n = l[2]
  BY LinkOfType
<1>2. q # << >> /\ r = Tail(q) /\ h = Head(q)
  BY ReadIs
<1>3. IsAscending(q) /\ IsAhead(logPacket[n], q)
  BY <1>1 DEF Freshness
<1>4. \A i \in 1..Len(q) : IsRouted(l, q[i])
  BY DEF Routing
<1> HIDE DEF q, r, h
<1>5. /\ h = q[1] /\ h \in Packets /\ r \in Seq(Packets) /\ Len(q) \in Nat /\ Len(q) > 0
      /\ \A i \in 1..Len(r) : i + 1 \in 1..Len(q) /\ r[i] = q[i + 1]
  BY <1>1, <1>2, TailIs
<1>6. /\ IsAscending(r)
      /\ \A i \in 1..Len(r) : IsRequestLog(r[i].type) /\ r[i].type = h.type
             => r[i].shell.sequenceNum > h.shell.sequenceNum
  BY <1>1, <1>2, <1>3, AscendingTail
<1>7. ASSUME NEW i \in 1..Len(r), IsRequestLog(r[i].type)
      PROVE  r[i].shell.sequenceNum >= Len(CopyIn(logPacket'[n], r[i].type))
  <2> DEFINE p == r[i]
             old == CopyIn(logPacket[n], p.type)
             new == CopyIn(logPacket'[n], p.type)
  <2>1. p \in Packets /\ i + 1 \in 1..Len(q) /\ p = q[i + 1]
    BY <1>5, ElementOfSeq
  <2>2. IsRouted(l, p) /\ p.shell.sequenceNum >= Len(old)
    BY <1>3, <1>4, <1>7, <2>1 DEF IsAhead
  <2>3. p.type[1] # n
    BY <1>1, <1>7, <2>1, <2>2, RequestIsRouted
  <2>4. p.shell.sequenceNum \in Int /\ h.shell.sequenceNum \in Int
    BY <1>5, <2>1, PacketType, EntryType
  <2>5. old \in Seq(Entries) /\ Len(old) \in Nat
    BY CopyOfType
  <2>6. IsRequestLog(p.type) /\ (p.type = h.type => p.shell.sequenceNum > h.shell.sequenceNum)
    BY <1>6, <1>7
  <2> HIDE DEF p
  <2>7. \/ new = old
        \/ /\ p.type = h.type /\ h.shell.sequenceNum = Len(old)
           /\ new = Append(old, h.shell)
    BY <2>1, <2>3, <2>6, RequestCopies DEF h
  <2> HIDE DEF new, old
  <2>8. ASSUME p.type = h.type, h.shell.sequenceNum = Len(old), new = Append(old, h.shell)
        PROVE  p.shell.sequenceNum >= Len(new)
    <3>1. Len(new) = Len(old) + 1
      BY <1>5, <2>5, <2>8, PacketType, AppendProperties
    <3> QED BY <2>4, <2>5, <2>6, <2>8, <3>1
  <2>9. p.shell.sequenceNum >= Len(new)
    BY <2>2, <2>7, <2>8 DEF old
  <2> QED BY <2>9 DEF p, new
<1>8. IsAhead(logPacket'[n], r)
  BY <1>7 DEF IsAhead
<1> QED
  BY <1>1, <1>6, <1>8 DEF r

LEMMA FreshUntouched ==
    ASSUME TypeInv, TypeInv', LogIntegrity, Routing, Freshness,
           NEW n \in Nodes, NEW d \in Nodes \cup {None}, NEW out,
           LinksStep(n, d, out), ListsStep(n, d),
           NEW l \in Links, l[1] # n, l[1] # d \/ l[2] # n
    PROVE  IsAscending(channel'[l]) /\ IsAhead(logPacket'[l[2]], channel'[l])
<1> DEFINE q == channel[l]
           m == l[2]
<1>1. q \in Seq(Packets) /\ m \in Nodes
  BY LinkOfType
<1>2. channel'[l] = q
  BY UntouchedIs
<1>3. IsAscending(q) /\ IsAhead(logPacket[m], q)
  BY DEF Freshness
<1>4. \A i \in 1..Len(q) : IsRouted(l, q[i])
  BY DEF Routing
<1> HIDE DEF q
<1>5. ASSUME NEW i \in 1..Len(q), IsRequestLog(q[i].type)
      PROVE  CopyIn(logPacket'[m], q[i].type) = CopyIn(logPacket[m], q[i].type)
  <2>1. CASE m # n
    BY <1>1, <2>1, CopiesKept
  <2>2. CASE m = n
    <3> DEFINE p == q[i]
    <3>1. p \in Packets /\ p.type[1] = l[1]
      BY <1>1, <1>4, <1>5, ElementOfSeq, RequestIsRouted
    <3>2. p.type[1] # n /\ p.type[1] # d
      BY <2>2, <3>1
    <3> HIDE DEF p
    <3>3. IsRequestLog(p.type)
      BY <1>5 DEF p
    <3>4. CopyIn(logPacket'[n], p.type) = CopyIn(logPacket[n], p.type)
      BY <3>1, <3>2, <3>3, RequestCopies
    <3> QED BY <2>2, <3>4 DEF p
  <2> QED BY <2>1, <2>2
<1> HIDE DEF m
<1>6. IsAhead(logPacket'[m], q)
  BY <1>3, <1>5 DEF IsAhead
<1> QED
  BY <1>2, <1>3, <1>6 DEF m

LEMMA FreshStep ==
    ASSUME TypeInv, TypeInv', LogIntegrity, Routing, Freshness,
           NEW n \in Nodes, NEW d \in Nodes \cup {None}, NEW out,
           LinksStep(n, d, out), ListsStep(n, d)
    PROVE  Freshness'
<1>1. ASSUME NEW l \in Links
      PROVE  IsAscending(channel'[l]) /\ IsAhead(logPacket'[l[2]], channel'[l])
  <2>1. CASE l[1] = n
    BY <2>1, FreshSending
  <2>2. CASE l[1] = d /\ l[2] = n
    BY <2>2, FreshReading
  <2>3. CASE l[1] # n /\ (l[1] # d \/ l[2] # n)
    BY <2>3, FreshUntouched
  <2> QED BY <2>1, <2>2, <2>3
<1> QED
  BY <1>1 DEF Freshness

\* A step by which packets leave the links and nothing else happens to them.
IsThinning ==
    \A l \in Links : \/ channel'[l] = channel[l]
                     \/ channel[l] # << >> /\ channel'[l] = Tail(channel[l])

LEMMA ThinningKeeps ==
    ASSUME TypeInv, Routing, Freshness, IsThinning, UNCHANGED logPacket
    PROVE  Routing' /\ Freshness'
<1>1. ASSUME NEW l \in Links
      PROVE  /\ \A i \in 1..Len(channel'[l]) : IsRouted(l, channel'[l][i])
             /\ IsAscending(channel'[l]) /\ IsAhead(logPacket[l[2]], channel'[l])
  <2> DEFINE q == channel[l]
             r == channel'[l]
  <2>1. /\ q \in Seq(Packets) /\ IsAscending(q) /\ IsAhead(logPacket[l[2]], q)
        /\ \A i \in 1..Len(q) : IsRouted(l, q[i])
    BY LinkOfType DEF Routing, Freshness
  <2>2. r = q \/ (q # << >> /\ r = Tail(q))
    BY DEF IsThinning
  <2> HIDE DEF q, r
  <2>3. ASSUME q # << >>, r = Tail(q)
        PROVE  /\ IsAscending(r) /\ IsAhead(logPacket[l[2]], r)
               /\ \A i \in 1..Len(r) : IsRouted(l, r[i])
    <3>1. IsAscending(r)
      BY <2>1, <2>3, AscendingTail
    <3>2. \A i \in 1..Len(r) : i + 1 \in 1..Len(q) /\ r[i] = q[i + 1]
      BY <2>1, <2>3, TailIs
    <3> QED BY <2>1, <3>1, <3>2 DEF IsAhead
  <2>4. /\ IsAscending(r) /\ IsAhead(logPacket[l[2]], r)
        /\ \A i \in 1..Len(r) : IsRouted(l, r[i])
    BY <2>1, <2>2, <2>3
  <2> QED BY <2>4 DEF r
<1>2. Freshness'
  BY <1>1 DEF Freshness
<1>3. Routing'
  BY <1>1 DEF Routing, IsRouted, Nodes
<1> QED
  BY <1>2, <1>3

-----------------------------------------------------------------------------
(* Names *)

LEMMA MapType ==
    ASSUME TypeInv, NEW n \in Nodes
    PROVE  IsNeighbourMap(neighbourMap[n])
  BY DEF TypeInv, NeighboursOK

\* A name that is new after an exchange is that of the node read from.
LEMMA NameStep ==
    ASSUME NEW n, NEW d, NEW out, NamesStep(n, d, out),
           NEW m \in Nodes, NEW a, a \in DOMAIN neighbourMap'[m]
    PROVE  a \in DOMAIN neighbourMap[m] \/ (m = n /\ a = d)
  BY DEF NamesStep

LEMMA NameKept ==
    ASSUME NEW n, NEW d, NEW out, NamesStep(n, d, out),
           NEW m \in Nodes, NEW a, a \in DOMAIN neighbourMap[m]
    PROVE  a \in DOMAIN neighbourMap'[m]
  BY DEF NamesStep

LEMMA NamingStep ==
    ASSUME TypeInv, TypeInv', NeighbourNaming, NEW n, NEW d, NEW out, Exchange(n, d, out)
    PROVE  NeighbourNaming'
<1> SUFFICES ASSUME NEW m \in Nodes, NEW a \in DOMAIN neighbourMap'[m]
             PROVE  neighbourMap'[m][a] = a /\ a \in Peers(m)
  BY DEF NeighbourNaming, Peers, Nodes
<1>1. NamesStep(n, d, out) /\ n \in Nodes
  BY DEF Exchange
<1>2. a \in Nodes
  BY DEF TypeInv, NeighboursOK, IsNeighbourMap
<1>3. a \in DOMAIN neighbourMap[m] \/ (m = n /\ a = d)
  BY <1>1, NameStep
<1>4. neighbourMap'[m][a] = a
  <2>1. CASE m = n
    BY <1>1, <2>1 DEF NamesStep, IsNaming
  <2>2. CASE m # n
    BY <1>1, <2>2 DEF NamesStep, NeighbourNaming
  <2> QED BY <2>1, <2>2
<1>5. a \in Peers(m)
  <2>1. CASE a \in DOMAIN neighbourMap[m]
    BY <2>1 DEF NeighbourNaming
  <2>2. CASE m = n /\ a = d
    <3>1. d # None
      BY <1>2, <2>2, Identifiers
    <3>2. <<d, n>> \in Links
      BY <1>1, <3>1 DEF NamesStep, Receiving, Arriving
    <3>3. <<n, d>> \in Links
      BY <3>2, LinksAreOfNodes
    <3> QED BY <1>2, <2>2, <3>3 DEF Peers
  <2> QED BY <1>3, <2>1, <2>2
<1> QED
  BY <1>4, <1>5

\* A packet that introduces its sender is next until it is read.
LEMMA IntroducingStays ==
    ASSUME TypeInv, NEW n \in Nodes, NEW d \in Nodes \cup {None}, NEW out,
           LinksStep(n, d, out), NEW l \in Links, ~(l[1] = d /\ l[2] = n), IsIntroducing(l)
    PROVE  IsIntroducing(l)'
<1>1. /\ channel[l] \in Seq(Packets) /\ Len(channel[l]) <= QueueSize
      /\ channel[l] # << >> /\ Head(channel[l]).shell.authorId = l[1]
  BY LinkOfType DEF IsIntroducing
<1>2. CASE l[1] = n
  <2>1. channel'[l] = Enqueue(channel[l], out[l[2]]) /\ out[l[2]] \in Seq(Packets)
    BY <1>2, SentIs
  <2>2. channel'[l] # << >> /\ Head(channel'[l]) = Head(channel[l])
    BY <1>1, <2>1, EnqueueHead
  <2> QED BY <1>1, <2>2 DEF IsIntroducing
<1>3. CASE l[1] # n
  <2>1. channel'[l] = channel[l]
    BY <1>3, UntouchedIs
  <2> QED BY <1>1, <2>1 DEF IsIntroducing
<1> QED
  BY <1>2, <1>3

LEMMA SilentStep ==
    ASSUME TypeInv, SilentUntilStarted, NEW n, NEW d, NEW out, Exchange(n, d, out)
    PROVE  SilentUntilStarted'
<1> SUFFICES ASSUME NEW l \in Links, l[1] \notin started'
             PROVE  channel'[l] = << >> /\ l[1] \notin DOMAIN neighbourMap'[l[2]]
  BY DEF SilentUntilStarted
<1>1. /\ n \in Nodes /\ d \in Nodes \cup {None} /\ LinksStep(n, d, out) /\ NamesStep(n, d, out)
      /\ n \in started /\ started' = started
  BY DEF Exchange, NamesStep
<1>2. channel[l] = << >> /\ l[1] \notin DOMAIN neighbourMap[l[2]]
  BY <1>1 DEF SilentUntilStarted
<1>3. l[1] # n /\ l[1] \in Nodes /\ l[2] \in Nodes
  BY <1>1, LinkOfType
<1>4. ~(l[1] = d /\ l[2] = n)
  BY <1>1, <1>2, ReadIs, ZenonT(60)
<1>5. channel'[l] = channel[l]
  BY <1>1, <1>3, <1>4, UntouchedIs
<1>6. l[1] \notin DOMAIN neighbourMap'[l[2]]
  BY <1>1, <1>2, <1>3, <1>4, NameStep
<1> QED
  BY <1>2, <1>5, <1>6

LEMMA SwitchesMeetStep ==
    ASSUME TypeInv, SwitchesMeet, NEW n, NEW d, NEW out, Exchange(n, d, out)
    PROVE  SwitchesMeet'
<1>1. /\ n \in Nodes /\ d \in Nodes \cup {None} /\ LinksStep(n, d, out) /\ NamesStep(n, d, out)
      /\ started' = started
  BY DEF Exchange, NamesStep
<1>2. ASSUME NEW l \in Links \cap (Switches \X Switches), l[1] \in started,
             l[1] \notin DOMAIN neighbourMap'[l[2]]
      PROVE  IsIntroducing(l)' /\ Users \cap started = {}
  <2>1. l \in Links /\ l[1] \in Switches /\ l[2] \in Switches
    OBVIOUS
  <2>2. l[2] \in Nodes /\ l[1] \in Nodes /\ l[2] # ManagerId
    BY <2>1, Identifiers
  <2>3. l[1] \notin DOMAIN neighbourMap[l[2]]
    BY <1>1, <1>2, <2>2, NameKept
  <2>4. IsIntroducing(l) /\ Users \cap started = {}
    BY <1>2, <2>3 DEF SwitchesMeet
  <2>5. ~(l[1] = d /\ l[2] = n)
    BY <1>1, <1>2, <2>2, Identifiers DEF NamesStep
  <2> QED BY <1>1, <2>1, <2>4, <2>5, IntroducingStays
<1>3. \A l \in Links \cap (Switches \X Switches) :
          l[1] \in started' /\ l[1] \notin DOMAIN neighbourMap'[l[2]]
              => IsIntroducing(l)' /\ Users \cap started' = {}
  BY <1>1, <1>2
<1>4. Users \cap started' = {} \/ Switches \subseteq started'
  BY <1>1 DEF SwitchesMeet
<1> QED
  BY <1>3, <1>4 DEF SwitchesMeet

\* A user has one link, to a switch.
LEMMA HomeIs ==
    ASSUME NEW l \in Links, l[1] \in Users
    PROVE  /\ l[2] \in Switches /\ l[2] \in Nodes /\ l[1] \in Nodes /\ l[1] # l[2]
           /\ l = <<l[1], l[2]>> /\ <<l[2], l[1]>> \in Links
           /\ l[1] # ManagerId /\ l[2] # ManagerId /\ l[2] \notin Users
           /\ \A k \in Links : k[1] = l[1] \/ k[2] = l[1]
                  => k = l \/ k = <<l[2], l[1]>>
<1>1. /\ l[1] \in Nodes /\ l[2] \in Nodes /\ l = <<l[1], l[2]>> /\ l[1] # l[2]
      /\ <<l[2], l[1]>> \in Links
  BY LinksConnectNodes
<1>2. PICK s \in Switches : \A n \in Nodes : <<l[1], n>> \in Links <=> n = s
  BY UsersSingleHomed
<1>3. l[2] = s
  BY <1>1, <1>2
<1>4. ASSUME NEW k \in Links, k[1] = l[1] \/ k[2] = l[1]
      PROVE  k = l \/ k = <<l[2], l[1]>>
  <2>1. k[1] \in Nodes /\ k[2] \in Nodes /\ k = <<k[1], k[2]>> /\ <<k[2], k[1]>> \in Links
    BY LinksConnectNodes
  <2>2. CASE k[1] = l[1]
    BY <1>1, <1>2, <1>3, <2>1, <2>2
  <2>3. CASE k[2] = l[1]
    BY <1>1, <1>2, <1>3, <2>1, <2>3
  <2> QED BY <1>4, <2>2, <2>3
<1> QED
  BY <1>1, <1>3, <1>4, Identifiers

LEMMA ContentTypes ==
    ASSUME NEW u \in Users
    PROVE  /\ ContentOf(u) \in LogTypes /\ ContentOf(u)[1] = u /\ ContentOf(u)[2] = USER_ALL
           /\ IsPublished(ContentOf(u)) /\ ~IsRequestLog(ContentOf(u))
           /\ \A n : ~IsOwn(n, ContentOf(u))
           /\ SwitchLog(u) \in LogTypes /\ SwitchLog(u)[1] = u
           /\ IsRequestLog(SwitchLog(u)) /\ SwitchLog(u)[2] # USER_ALL
           /\ SwitchLog(u) # ContentOf(u)
<1>1. u \in Nodes /\ u # ManagerId
  BY Identifiers
<1>2. /\ ContentOf(u)[1] = u /\ ContentOf(u)[2] = USER_ALL
      /\ SwitchLog(u)[1] = u /\ SwitchLog(u)[2] = SWITCH_ALL
      /\ MyType[1] = ManagerId
  BY DEF ContentOf, SwitchLog, LOGTYPE, MyType
<1>3. ContentOf(u) \in LogTypes /\ SwitchLog(u) \in LogTypes
  BY <1>1, LogTypesAre DEF ContentOf, SwitchLog
<1>4. USER_ALL # SWITCH_ALL /\ USER_ALL \notin Nodes
  BY Identifiers DEF USER_ALL, SWITCH_ALL
<1>5. IsPublished(ContentOf(u)) /\ \A n : ~IsOwn(n, ContentOf(u))
  BY <1>2 DEF IsPublished, IsOwn
<1>6. ~IsRequestLog(ContentOf(u)) /\ IsRequestLog(SwitchLog(u))
  BY <1>1, <1>2, <1>4, Identifiers DEF IsRequestLog
<1> QED
  BY <1>2, <1>3, <1>4, <1>5, <1>6

\* That stays so while its writer sends nothing.
LEMMA NoneIsSentStep ==
    ASSUME TypeInv, NEW u \in Users, NoneIsSent(ContentOf(u)),
           NEW n \in Nodes, NEW d \in Nodes \cup {None}, NEW out,
           LinksStep(n, d, out), ListsStep(n, d),
           n = u => d = None /\ \A m \in Nodes : out[m] = << >>
    PROVE  NoneIsSent(ContentOf(u))'
<1> DEFINE t == ContentOf(u)
<1>1. /\ t \in LogTypes /\ t[1] = u /\ t[2] = USER_ALL /\ ~IsOwn(n, t)
  BY ContentTypes
<1> HIDE DEF t
<1>2. /\ \A m \in Nodes : t \notin DOMAIN logPacket[m]
      /\ \A l \in Links : \A i \in 1..Len(channel[l]) : channel[l][i].type # t
  BY DEF NoneIsSent, t
<1>3. ASSUME d # None PROVE Arrived(n, d).type # t
  <2>1. Arriving(n, d)
    BY <1>3 DEF LinksStep
  <2>2. <<d, n>> \in Links /\ channel[<<d, n>>] # << >>
    BY <2>1 DEF Arriving
  <2>3. channel[<<d, n>>] \in Seq(Packets)
    BY <2>2, LinkOfType
  <2>4. Head(channel[<<d, n>>]) = channel[<<d, n>>][1] /\ 1 \in 1..Len(channel[<<d, n>>])
    BY <2>2, <2>3, TailIs
  <2> QED BY <1>2, <2>2, <2>4 DEF Arrived
<1>4. ASSUME NEW m \in Nodes PROVE t \notin DOMAIN logPacket'[m]
  <2>1. CASE m # n
    BY <1>2, <2>1 DEF ListsStep
  <2>2. CASE m = n
    <3>1. \/ SameCopy(n, logPacket[n], logPacket'[n], t)
          \/ t \notin DOMAIN logPacket'[n]
          \/ d # None /\ IsTaken(n, d, t)
      BY <1>1 DEF ListsStep
    <3> QED BY <1>2, <1>3, <2>2, <3>1 DEF SameCopy, IsTaken
  <2> QED BY <2>1, <2>2
<1>5. ASSUME NEW l \in Links, NEW i \in 1..Len(channel'[l])
      PROVE  channel'[l][i].type # t
  <2> DEFINE q == channel[l]
             e == channel'[l]
  <2>1. /\ q \in Seq(Packets) /\ Len(q) <= QueueSize /\ l[2] \in Nodes
        /\ \A j \in 1..Len(q) : q[j].type # t
    BY <1>2, LinkOfType
  <2>2. CASE l[1] = n
    <3> DEFINE ps == out[l[2]]
    <3>0. /\ channel'[l] = Enqueue(channel[l], out[l[2]])
          /\ out[l[2]] \in Seq(Packets)
          /\ IsOutgoing(n, d, l[2], out[l[2]])
      BY <2>2, SentIs, ZenonT(60)
    <3>1. e = Enqueue(q, ps) /\ ps \in Seq(Packets)
      BY <3>0
    <3>2. n = u => ps = << >>
      BY <2>1
    <3>3. \A j \in 1..Len(ps) : ps[j].type[2] = USER_ALL => IsAtHand(n, d, ps[j].type)
      BY <3>0 DEF IsOutgoing
    <3>4. n # u => ~IsAtHand(n, d, t)
      BY <1>1, <1>2, <1>3 DEF IsAtHand
    <3> HIDE DEF q, e, ps
    <3>5. /\ Len(q) \in Nat /\ Len(e) \in Nat /\ Len(ps) \in Nat
          /\ Len(q) <= Len(e) /\ Len(e) <= Len(q) + Len(ps)
          /\ \A j \in 1..Len(q) : e[j] = q[j]
          /\ \A j \in 1..Len(e) : j > Len(q) => e[j] = ps[j - Len(q)]
      BY <2>1, <3>1, EnqueueIs
    <3>6. \A j \in 1..Len(ps) : ps[j].type # t
      <4>1. CASE n = u
        <5>1. Len(ps) = 0
          BY <3>2, <4>1
        <5> QED BY <5>1
      <4>2. CASE n # u
        BY <1>1, <3>3, <3>4, <4>2
      <4> QED BY <4>1, <4>2
    <3>7. i \in 1..Len(e)
      BY DEF e
    <3>8. CASE i <= Len(q)
      <4>1. i \in 1..Len(q)
        BY <3>5, <3>7, <3>8
      <4> QED BY <2>1, <3>5, <4>1 DEF e
    <3>9. CASE i > Len(q)
      <4>1. i - Len(q) \in 1..Len(ps)
        BY <3>5, <3>7, <3>9
      <4> QED BY <3>5, <3>6, <3>7, <3>9, <4>1 DEF e
    <3> QED BY <3>5, <3>7, <3>8, <3>9
  <2>3. CASE l[1] = d /\ l[2] = n
    <3>1. q # << >> /\ e = Tail(q)
      BY <2>3, ReadIs
    <3>2. i + 1 \in 1..Len(q) /\ e[i] = q[i + 1]
      BY <2>1, <3>1, TailIs
    <3> QED BY <2>1, <3>2
  <2>4. CASE l[1] # n /\ (l[1] # d \/ l[2] # n)
    <3>1. e = q
      BY <2>4, UntouchedIs
    <3> QED BY <2>1, <3>1
  <2> QED BY <2>2, <2>3, <2>4
<1> QED
  BY <1>4, <1>5 DEF NoneIsSent, t, ContentOf, LOGTYPE, Nodes

LEMMA NothingSent ==
    ASSUME TypeInv, NEW n \in Nodes, NEW d \in Nodes \cup {None}, NEW out,
           LinksStep(n, d, out), NEW l \in Links, l[1] = n, out[l[2]] = << >>
    PROVE  channel'[l] = channel[l]
<1>1. channel'[l] = Enqueue(channel[l], out[l[2]])
  BY SentIs
<1>2. channel[l] \in Seq(Packets) /\ Len(channel[l]) <= QueueSize
  BY LinkOfType
<1>3. channel[l] \o << >> = channel[l]
  BY <1>2, ConcatEmptySeq
<1> QED
  BY <1>1, <1>2, <1>3 DEF Enqueue

LEMMA UnheardStays ==
    ASSUME TypeInv, TypeInv', Routing, NEW n, NEW d, NEW out, Exchange(n, d, out),
           NEW l \in Links, l[1] \in Users, IsUnheard(l[1], l[2]),
           l[1] \notin DOMAIN neighbourMap'[l[2]]
    PROVE  IsUnheard(l[1], l[2])'
<1> DEFINE u == l[1]
           s == l[2]
           r == <<s, u>>
           t == SwitchLog(u)
<1>1. /\ n \in Nodes /\ d \in Nodes \cup {None} /\ LinksStep(n, d, out) /\ ListsStep(n, d)
      /\ NamesStep(n, d, out) /\ n \in started /\ started' = started
  BY DEF Exchange, NamesStep
<1>a. /\ n \in Nodes /\ d \in Nodes \cup {None} /\ LinksStep(n, d, out)
  BY <1>1
<1>2. /\ s \in Switches /\ s \in Nodes /\ u \in Nodes /\ u # s /\ u \in Users
      /\ l = <<u, s>> /\ r \in Links /\ r[1] = s /\ r[2] = u
      /\ u # ManagerId /\ s # ManagerId /\ s \notin Users
      /\ \A k \in Links : k[1] = u \/ k[2] = u => k = l \/ k = r
  BY HomeIs
<1>3. /\ DOMAIN neighbourMap[u] = {} /\ t \notin DOMAIN logPacket[s] /\ NoneIsSent(ContentOf(u))
      /\ u \in started =>
             /\ channel[r] = << >> /\ channel[l] # << >>
             /\ Head(channel[l]).type = t /\ Head(channel[l]).shell.sequenceNum = 0
             /\ ~Unparsable(Head(channel[l]).shell)
  BY <1>2 DEF IsUnheard
<1>4. u \notin DOMAIN neighbourMap'[s]
  OBVIOUS
<1>5. /\ t \in LogTypes /\ t[1] = u /\ IsRequestLog(t) /\ t[2] # USER_ALL
  BY <1>2, ContentTypes
<1> HIDE DEF u, s, r, t
<1>6. ASSUME n = u PROVE d = None
  <2> SUFFICES ASSUME d # None PROVE FALSE
    OBVIOUS
  <2>1. <<d, u>> \in Links /\ channel[<<d, u>>] # << >>
    BY <1>1, <1>6 DEF LinksStep, Arriving
  <2>2. <<d, u>> = r
    BY <1>2, <2>1
  <2> QED BY <1>1, <1>3, <1>6, <2>1, <2>2
<1>7. ~(n = s /\ d = u)
  <2> SUFFICES ASSUME n = s, d = u PROVE FALSE
    OBVIOUS
  <2>1. d # None /\ n # ManagerId
    BY <1>2, Identifiers
  <2>2. d \in DOMAIN neighbourMap'[n]
    BY <1>1, <2>1 DEF NamesStep
  <2> QED BY <1>4, <2>2
<1>8. n = u => \A m \in Nodes : out[m] = << >>
  <2> SUFFICES ASSUME n = u, NEW m \in Nodes, out[m] # << >> PROVE FALSE
    OBVIOUS
  <2>1. m \in DOMAIN neighbourMap'[n]
    BY <1>1 DEF NamesStep
  <2>2. m \in DOMAIN neighbourMap[n] \cup {d}
    BY <1>1, <2>1 DEF NamesStep
  <2> QED BY <1>3, <1>6, <2>2, Identifiers
<1>9. DOMAIN neighbourMap'[u] = {}
  <2>1. CASE n = u
    <3>1. DOMAIN neighbourMap'[u] \subseteq {None}
      BY <1>1, <1>3, <1>6, <2>1 DEF NamesStep
    <3>2. DOMAIN neighbourMap'[u] \subseteq Nodes
      BY <1>2 DEF TypeInv, NeighboursOK, IsNeighbourMap
    <3> QED BY <3>1, <3>2, Identifiers
  <2>2. CASE n # u
    BY <1>1, <1>2, <1>3, <2>2 DEF NamesStep
  <2> QED BY <2>1, <2>2
<1>10. t \notin DOMAIN logPacket'[s]
  <2>1. CASE n # s
    BY <1>1, <1>2, <1>3, <2>1 DEF ListsStep
  <2>2. CASE n = s
    <3>1. ~IsOwn(s, t)
      BY <1>2, <1>5 DEF IsOwn
    <3>2. \/ SameCopy(s, logPacket[s], logPacket'[s], t)
          \/ t \notin DOMAIN logPacket'[s]
          \/ d # None /\ IsTaken(s, d, t)
      BY <1>1, <1>5, <2>2, <3>1 DEF ListsStep
    <3>3. ASSUME d # None, IsTaken(s, d, t) PROVE FALSE
      <4>1. Arriving(s, d) /\ t = Arrived(s, d).type
        BY <1>1, <2>2, <3>3 DEF LinksStep, IsTaken
      <4>2. IsRouted(<<d, s>>, Arrived(s, d)) /\ Arrived(s, d) \in Packets
        BY <4>1, ArrivedIsRouted
      <4>3. t[1] = d
        BY <1>5, <4>1, <4>2, RequestIsRouted
      <4> QED BY <1>5, <1>7, <2>2, <4>3
    <3> QED BY <1>3, <3>2, <3>3 DEF SameCopy
  <2> QED BY <2>1, <2>2
<1>11. NoneIsSent(ContentOf(u))'
  BY <1>1, <1>2, <1>3, <1>6, <1>8, NoneIsSentStep DEF u
<1>12. ASSUME u \in started'
       PROVE  /\ channel'[r] = << >> /\ channel'[l] # << >>
              /\ Head(channel'[l]).type = t /\ Head(channel'[l]).shell.sequenceNum = 0
              /\ ~Unparsable(Head(channel'[l]).shell)
  <2>1. /\ channel[r] = << >> /\ channel[l] # << >>
        /\ Head(channel[l]).type = t /\ Head(channel[l]).shell.sequenceNum = 0
        /\ ~Unparsable(Head(channel[l]).shell)
    BY <1>1, <1>3, <1>12
  <2>2. /\ channel[r] \in Seq(Packets) /\ Len(channel[r]) <= QueueSize
        /\ channel[l] \in Seq(Packets) /\ Len(channel[l]) <= QueueSize
    BY <1>2, LinkOfType
  <2>3. channel'[r] = << >>
    <3>1. CASE n = s
      <4>1. out[u] = << >>
        BY <1>1, <1>2, <1>4, <3>1 DEF NamesStep
      <4>2. r[1] = n /\ out[r[2]] = << >>
        BY <1>2, <3>1, <4>1
      <4>3. channel'[r] = channel[r]
        BY <1>a, <1>2, <4>2, NothingSent
      <4> QED BY <2>1, <4>3
    <3>2. CASE n # s
      <4>1. ~(d = s /\ n = u)
        BY <1>2, <1>6, Identifiers
      <4>2. channel'[r] = channel[r]
        BY <1>1, <1>2, <3>2, <4>1, UntouchedIs
      <4> QED BY <2>1, <4>2
    <3> QED BY <3>1, <3>2
  <2>4. channel'[l] # << >> /\ Head(channel'[l]) = Head(channel[l])
    <3>1. CASE n = u
      <4>1. l[1] = n /\ out[l[2]] = << >>
        BY <1>2, <1>8, <3>1 DEF u, s
      <4>2. channel'[l] = channel[l]
        BY <1>a, <4>1, NothingSent, ZenonT(60)
      <4> QED BY <2>1, <4>2
    <3>2. CASE n # u
      <4>1. channel'[l] = channel[l]
        BY <1>1, <1>7, <3>2, UntouchedIs DEF u, s
      <4> QED BY <2>1, <4>1
    <3> QED BY <3>1, <3>2
  <2> QED BY <2>1, <2>3, <2>4
<1>13. IsUnheard(u, s)'
  BY <1>2, <1>9, <1>10, <1>11, <1>12 DEF IsUnheard, r, t
<1> QED
  BY <1>13 DEF u, s

LEMMA HeardOf ==
    ASSUME TypeInv, SilentUntilStarted, NEW n, NEW d, NEW out, Exchange(n, d, out),
           NEW l \in Links, l[1] \in Users, IsUnheard(l[1], l[2]),
           l[1] \notin DOMAIN neighbourMap[l[2]], l[1] \in DOMAIN neighbourMap'[l[2]]
    PROVE  IsIntroducing(<<l[2], l[1]>>)'
<1> DEFINE u == l[1]
           s == l[2]
           r == <<s, u>>
<1>1. /\ n \in Nodes /\ d \in Nodes \cup {None} /\ LinksStep(n, d, out)
      /\ NamesStep(n, d, out) /\ Introduces(n, d, out)
  BY DEF Exchange
<1>2. /\ s \in Switches /\ s \in Nodes /\ u \in Nodes /\ u \in Users
      /\ l = <<u, s>> /\ r \in Links /\ r[1] = s /\ r[2] = u
  BY HomeIs
<1>3. n = s /\ d = u
  BY <1>1, <1>2, NameStep
<1>4. channel[l] # << >>
  BY <1>1, <1>2, <1>3, ReadIs
<1>5. u \in started
  BY <1>4 DEF SilentUntilStarted
<1>6. channel[r] = << >>
  BY <1>2, <1>5 DEF IsUnheard
<1>7. out[u] # << >> /\ out[u][1].shell.authorId = s
  BY <1>1, <1>2, <1>3 DEF Introduces
<1>8. channel'[r] = Enqueue(channel[r], out[u]) /\ out[u] \in Seq(Packets)
  BY <1>1, <1>2, <1>3, SentIs
<1>9. channel[r] \in Seq(Packets) /\ Len(channel[r]) <= QueueSize
  BY <1>2, LinkOfType
<1> HIDE DEF u, s, r
<1>10. channel'[r] # << >> /\ Head(channel'[r]) = out[u][1]
  BY <1>6, <1>7, <1>8, <1>9, EnqueueHead, ZenonT(60)
<1>11. IsIntroducing(r)'
  BY <1>2, <1>7, <1>10 DEF IsIntroducing, r
<1> QED
  BY <1>11 DEF r, s, u

LEMMA HeardStays ==
    ASSUME TypeInv, NEW n, NEW d, NEW out, Exchange(n, d, out),
           NEW l \in Links, l[1] \in Users, l[1] \in DOMAIN neighbourMap[l[2]],
           l[2] \in DOMAIN neighbourMap[l[1]] \/ IsIntroducing(<<l[2], l[1]>>)
    PROVE  /\ l[1] \in DOMAIN neighbourMap'[l[2]]
           /\ l[2] \in DOMAIN neighbourMap'[l[1]] \/ IsIntroducing(<<l[2], l[1]>>)'
<1> DEFINE u == l[1]
           s == l[2]
           r == <<s, u>>
<1>1. /\ n \in Nodes /\ d \in Nodes \cup {None} /\ LinksStep(n, d, out) /\ NamesStep(n, d, out)
  BY DEF Exchange
<1>2. /\ s \in Switches /\ s \in Nodes /\ u \in Nodes /\ u \in Users
      /\ r \in Links /\ r[1] = s /\ r[2] = u /\ u # ManagerId
  BY HomeIs
<1>3. u \in DOMAIN neighbourMap[s] /\ (s \in DOMAIN neighbourMap[u] \/ IsIntroducing(r))
  OBVIOUS
<1> HIDE DEF u, s, r
<1>4. u \in DOMAIN neighbourMap'[s]
  BY <1>1, <1>2, <1>3, NameKept
<1>5. s \in DOMAIN neighbourMap'[u] \/ IsIntroducing(r)'
  <2>1. CASE s \in DOMAIN neighbourMap[u]
    BY <1>1, <1>2, <2>1, NameKept
  <2>2. CASE n = u /\ d = s
    BY <1>1, <1>2, <2>2, Identifiers DEF NamesStep
  <2>3. CASE IsIntroducing(r) /\ ~(n = u /\ d = s)
    BY <1>1, <1>2, <2>3, IntroducingStays
  <2> QED BY <1>3, <2>1, <2>2, <2>3
<1> QED
  BY <1>4, <1>5 DEF u, s, r

LEMMA UsersMeetStep ==
    ASSUME TypeInv, TypeInv', Routing, SilentUntilStarted, UsersMeet,
           NEW n, NEW d, NEW out, Exchange(n, d, out)
    PROVE  UsersMeet'
<1> SUFFICES ASSUME NEW l \in Links, l[1] \in Users
             PROVE  \/ l[1] \notin DOMAIN neighbourMap'[l[2]] /\ IsUnheard(l[1], l[2])'
                    \/ /\ l[1] \in DOMAIN neighbourMap'[l[2]]
                       /\ \/ l[2] \in DOMAIN neighbourMap'[l[1]]
                          \/ IsIntroducing(<<l[2], l[1]>>)'
  BY DEF UsersMeet, IsUnheard, IsIntroducing
<1>1. \/ l[1] \notin DOMAIN neighbourMap[l[2]] /\ IsUnheard(l[1], l[2])
      \/ /\ l[1] \in DOMAIN neighbourMap[l[2]]
         /\ l[2] \in DOMAIN neighbourMap[l[1]] \/ IsIntroducing(<<l[2], l[1]>>)
  BY DEF UsersMeet
<1>2. CASE l[1] \in DOMAIN neighbourMap[l[2]]
  BY <1>1, <1>2, HeardStays
<1>3. CASE l[1] \notin DOMAIN neighbourMap[l[2]]
  <2>1. CASE l[1] \in DOMAIN neighbourMap'[l[2]]
    BY <1>1, <1>3, <2>1, HeardOf
  <2>2. CASE l[1] \notin DOMAIN neighbourMap'[l[2]]
    BY <1>1, <1>3, <2>2, UnheardStays
  <2> QED BY <2>1, <2>2
<1> QED
  BY <1>2, <1>3

\* Exchanges preserve all of it.
LEMMA ExchangeNames ==
    ASSUME TypeInv, TypeInv', LogIntegrity, NamingInv, NEW n, NEW d, NEW out, Exchange(n, d, out)
    PROVE  NamingInv'
<1>1. n \in Nodes /\ d \in Nodes \cup {None} /\ LinksStep(n, d, out) /\ ListsStep(n, d)
  BY DEF Exchange
<1>2. NeighbourNaming'
  BY NamingStep DEF NamingInv
<1>3. Routing'
  BY <1>1, RoutingStep DEF NamingInv
<1>4. Freshness'
  BY <1>1, FreshStep DEF NamingInv
<1>5. SilentUntilStarted'
  BY SilentStep DEF NamingInv
<1>6. SwitchesMeet'
  BY SwitchesMeetStep DEF NamingInv
<1>7. UsersMeet'
  BY UsersMeetStep DEF NamingInv
<1> QED
  BY <1>2, <1>3, <1>4, <1>5, <1>6, <1>7 DEF NamingInv

-----------------------------------------------------------------------------
(* What may be sent *)

\* Entries of log t may go from n to m, after n has read from d.
IsSendable(n, d, m, t) ==
    /\ IsRelayed(t) \/ (t[1] = n /\ (t[2] \in Nodes => t[2] = m))
    /\ t[2] = USER_ALL => IsAtHand(n, d, t)

IsAuthored(n, log) ==
    n \in Users \cup {ManagerId} => \A i \in 1..Len(log) : log[i].authorId = n

LEMMA EmptyOutgoing ==
    ASSUME NEW n, NEW d, NEW m
    PROVE  IsOutgoing(n, d, m, << >>)
<1>1. Len(<< >>) = 0
  OBVIOUS
<1>2. 1..Len(<< >>) = {}
  BY <1>1
<1> QED
  BY <1>2 DEF IsOutgoing, IsAhead, IsAscending

LEMMA NothingOutgoing ==
    ASSUME NEW n, NEW d
    PROVE  /\ Nothing \in [Nodes -> Seq(Packets)]
           /\ \A m \in Nodes : Nothing[m] = << >> /\ IsOutgoing(n, d, m, Nothing[m])
<1>1. \A m \in Nodes : Nothing[m] = << >>
  BY DEF Nothing
<1> QED
  BY <1>1, NothingCarries, EmptyOutgoing

LEMMA SingleOutgoing ==
    ASSUME NEW n, NEW d, NEW m, NEW p \in Packets,
           n \in Users \cup {ManagerId} => p.shell.authorId = n,
           IsSendable(n, d, m, p.type),
           IsRequestLog(p.type) => p.shell.sequenceNum >= Len(CopyIn(logPacket[n], p.type))
    PROVE  <<p>> \in Seq(Packets) /\ IsOutgoing(n, d, m, <<p>>)
<1> DEFINE ps == <<p>>
<1>1. ps \in Seq(Packets) /\ Len(ps) = 1 /\ ps[1] = p
  BY SingleIsSeq
<1>2. <<n, m>>[1] = n /\ <<n, m>>[2] = m
  OBVIOUS
<1>3. IsRouted(<<n, m>>, p)
  BY <1>2 DEF IsSendable, IsRelayed, IsRouted
<1>4. p.type[2] = USER_ALL => IsAtHand(n, d, p.type)
  BY DEF IsSendable
<1> HIDE DEF ps
<1>5. IsAhead(logPacket[n], ps)
  BY <1>1 DEF IsAhead
<1>6. IsAscending(ps)
  BY <1>1 DEF IsAscending
<1>7. \A i \in 1..Len(ps) : ps[i] = p
  BY <1>1
<1>8. IsOutgoing(n, d, m, ps)
  BY <1>3, <1>4, <1>5, <1>6, <1>7 DEF IsOutgoing
<1> QED
  BY <1>1, <1>8 DEF ps

\* The packets that carry the entries of a log from an index on.
LEMMA EntriesFromIs ==
    ASSUME NEW l \in Logs, IsNumbered(l.log), NEW t, NEW from \in Int
    PROVE  LET ps == EntriesFrom(l, from, t)
           IN  /\ Len(ps) \in Nat
               /\ \A i \in 1..Len(ps) :
                     /\ ps[i].type = t /\ ps[i].flag = 0
                     /\ ps[i].shell.sequenceNum \in Int /\ ps[i].shell.sequenceNum >= from
                     /\ \E j \in 1..Len(l.log) : ps[i].shell = l.log[j]
               /\ \A i \in 1..Len(ps) : \A j \in 1..Len(ps) :
                     i < j => ps[i].shell.sequenceNum < ps[j].shell.sequenceNum
<1> DEFINE first == IF from < 0 THEN 0 ELSE from
           sent == SubSeq(l.log, first + 1, Len(l.log))
           n == IF first + 1 <= Len(l.log) THEN Len(l.log) - first ELSE 0
           ps == EntriesFrom(l, from, t)
<1>1. /\ l.log \in Seq(Entries) /\ Len(l.log) \in Nat
      /\ \A i \in 1..Len(l.log) : l.log[i] \in Entries
  BY LogType
<1>2. first \in Nat /\ first >= from /\ n \in Nat
  BY <1>1
<1>3. /\ Len(sent) = n
      /\ \A i \in 1..n : sent[i] = l.log[first + i]
  <2>1. \A i \in (first + 1)..Len(l.log) : l.log[i] \in Entries
    BY <1>1, <1>2
  <2> HIDE DEF first
  <2>2. /\ Len(sent) = IF first + 1 <= Len(l.log) THEN Len(l.log) - (first + 1) + 1 ELSE 0
        /\ \A i \in 1 .. Len(l.log) - (first + 1) + 1 : sent[i] = l.log[first + 1 + i - 1]
    BY <1>1, <1>2, <2>1, SubSeqProperties
  <2> QED
    BY <1>1, <1>2, <2>2
<1>4. ps = [i \in 1..n |-> NetShell(t, 0, sent[i])]
  BY <1>3 DEF EntriesFrom
<1>5. \A i \in 1..n : first + i \in 1..Len(l.log)
  BY <1>1, <1>2
<1> HIDE DEF n, sent, first
<1>6. Len(ps) = n
  <2> DEFINE f == [i \in 1..n |-> NetShell(t, 0, sent[i])]
  <2>1. DOMAIN f = 1..n
    OBVIOUS
  <2>2. f \in Seq({NetShell(t, 0, sent[i]) : i \in 1..n}) /\ Len(f) = n
    <3>1. f \in [1..n -> {NetShell(t, 0, sent[i]) : i \in 1..n}]
      OBVIOUS
    <3> HIDE DEF f
    <3> QED BY <1>2, <3>1, FunctionIsSeq
  <2> QED BY <1>4, <2>2
<1>7. ASSUME NEW i \in 1..n
      PROVE  /\ ps[i].type = t /\ ps[i].flag = 0 /\ ps[i].shell = l.log[first + i]
             /\ ps[i].shell.sequenceNum = first + i - 1
  <2>1. ps[i] = NetShell(t, 0, l.log[first + i])
    BY <1>3, <1>4
  <2>2. ps[i].type = t /\ ps[i].flag = 0 /\ ps[i].shell = l.log[first + i]
    BY <2>1 DEF NetShell
  <2>3. l.log[first + i].sequenceNum = first + i - 1
    <3> DEFINE k == first + i
    <3>1. k \in 1..Len(l.log)
      BY <1>5
    <3> HIDE DEF k
    <3>2. l.log[k].sequenceNum = k - 1
      BY <3>1 DEF IsNumbered
    <3> QED BY <1>2, <3>2 DEF k
  <2> QED BY <2>2, <2>3
<1> HIDE DEF ps
<1>8. ASSUME NEW i \in 1..Len(ps)
      PROVE  /\ ps[i].type = t /\ ps[i].flag = 0
             /\ ps[i].shell.sequenceNum \in Int /\ ps[i].shell.sequenceNum >= from
             /\ \E j \in 1..Len(l.log) : ps[i].shell = l.log[j]
  <2>1. i \in 1..n
    BY <1>6
  <2>2. /\ ps[i].type = t /\ ps[i].flag = 0 /\ ps[i].shell = l.log[first + i]
        /\ ps[i].shell.sequenceNum = first + i - 1
    BY <1>7, <2>1
  <2>3. first + i \in 1..Len(l.log)
    BY <1>5, <2>1
  <2> QED BY <1>2, <2>1, <2>2, <2>3
<1>9. ASSUME NEW i \in 1..Len(ps), NEW j \in 1..Len(ps), i < j
      PROVE  ps[i].shell.sequenceNum < ps[j].shell.sequenceNum
  <2>1. i \in 1..n /\ j \in 1..n
    BY <1>6
  <2>2. /\ ps[i].shell.sequenceNum = first + i - 1
        /\ ps[j].shell.sequenceNum = first + j - 1
    BY <1>7, <2>1
  <2> QED BY <1>2, <1>9, <2>1, <2>2
<1>10. Len(ps) \in Nat
  BY <1>2, <1>6
<1> QED
  BY <1>8, <1>9, <1>10 DEF ps

LEMMA EntriesOutgoing ==
    ASSUME NEW n, NEW d, NEW m, NEW l \in Logs, IsNumbered(l.log), IsAuthored(n, l.log),
           NEW t \in LogTypes \cup {GossipAnswerType}, IsSendable(n, d, m, t), NEW from \in Int,
           IsRequestLog(t) => /\ Len(CopyIn(logPacket[n], t)) \in Nat
                              /\ from >= Len(CopyIn(logPacket[n], t))
    PROVE  IsOutgoing(n, d, m, EntriesFrom(l, from, t))
<1> DEFINE ps == EntriesFrom(l, from, t)
<1> HIDE DEF ps
<1>1. /\ Len(ps) \in Nat
      /\ \A i \in 1..Len(ps) :
            /\ ps[i].type = t /\ ps[i].shell.sequenceNum \in Int
            /\ ps[i].shell.sequenceNum >= from
            /\ \E j \in 1..Len(l.log) : ps[i].shell = l.log[j]
      /\ \A i \in 1..Len(ps) : \A j \in 1..Len(ps) :
            i < j => ps[i].shell.sequenceNum < ps[j].shell.sequenceNum
  BY EntriesFromIs DEF ps
<1>2. IsAscending(ps)
  BY <1>1 DEF IsAscending
<1>3. IsAhead(logPacket[n], ps)
  <2> SUFFICES ASSUME NEW i \in 1..Len(ps), IsRequestLog(ps[i].type)
               PROVE  ps[i].shell.sequenceNum >= Len(CopyIn(logPacket[n], ps[i].type))
    BY DEF IsAhead
  <2>1. ps[i].type = t /\ ps[i].shell.sequenceNum \in Int /\ ps[i].shell.sequenceNum >= from
    BY <1>1
  <2>2. Len(CopyIn(logPacket[n], t)) \in Nat /\ from >= Len(CopyIn(logPacket[n], t))
    BY <2>1
  <2> DEFINE len == Len(CopyIn(logPacket[n], t))
  <2>3. len = Len(CopyIn(logPacket[n], ps[i].type))
    BY <2>1
  <2> HIDE DEF len
  <2>4. ps[i].shell.sequenceNum >= len
    BY <2>1, <2>2 DEF len
  <2> QED BY <2>3, <2>4
<1>4. ASSUME NEW i \in 1..Len(ps)
      PROVE  /\ IsRouted(<<n, m>>, ps[i])
             /\ ps[i].type[2] = USER_ALL => IsAtHand(n, d, ps[i].type)
  <2>1. ps[i].type = t /\ \E j \in 1..Len(l.log) : ps[i].shell = l.log[j]
    BY <1>1
  <2>2. n \in Users \cup {ManagerId} => ps[i].shell.authorId = n
    BY <2>1 DEF IsAuthored
  <2>3. <<n, m>>[1] = n /\ <<n, m>>[2] = m
    OBVIOUS
  <2> QED BY <2>1, <2>2, <2>3 DEF IsSendable, IsRelayed, IsRouted
<1>5. IsOutgoing(n, d, m, ps)
  BY <1>2, <1>3, <1>4 DEF IsOutgoing
<1> QED
  BY <1>5 DEF ps

-----------------------------------------------------------------------------
(* What is read *)

LEMMA SameListsStep ==
    ASSUME TypeInv, NEW n, NEW d, UNCHANGED logPacket
    PROVE  ListsStep(n, d)
  BY DEF ListsStep, SameCopy

\* A list in which n has the entry that arrived from d concatenated.
LEMMA ConcatenationTakes ==
    ASSUME TypeInv, LogIntegrity, NEW n \in Nodes, NEW d, Arriving(n, d),
           Arrived(n, d).type \in LogTypes, NEW t \in LogTypes, ~IsOwn(n, t)
    PROVE  LET p == Arrived(n, d)
               list == concatenateEntry(logPacket[n], p.type, p.shell)
           IN  \/ SameCopy(n, logPacket[n], list, t)
               \/ /\ t = p.type /\ t \in DOMAIN list
                  /\ \/ list[t].log = CopyIn(logPacket[n], t)
                     \/ /\ p.shell.sequenceNum = Len(CopyIn(logPacket[n], t))
                        /\ list[t].log = Append(CopyIn(logPacket[n], t), p.shell)
<1> DEFINE p == Arrived(n, d)
           e == p.shell
           type == p.type
           logs == logPacket[n]
           old == IF type \in DOMAIN logs THEN logs[type] ELSE NewLog(e.authorId)
           list == concatenateEntry(logs, type, e)
<1>1. e \in Entries /\ e.authorId \in Nodes /\ type \in LogTypes
  BY ArrivedType
<1>2. IsLogList(logs)
  BY ListType
<1>3. /\ IsLogList(list)
      /\ DOMAIN list = DOMAIN logs \cup {type}
      /\ \A u \in DOMAIN logs \ {type} : list[u] = logs[u]
      /\ list[type] = addToLog(old, e)
      /\ old \in Logs
  <2> HIDE DEF logs, type, e
  <2> QED BY <1>1, <1>2, concatenateEntryType
<1>4. IsNumbered(old.log)
  <2>1. CASE type \in DOMAIN logs
    <3>1. /\ IsWritten(type) /\ IsPrefix(logs[type].log, WrittenLog(type))
          /\ IsNumbered(WrittenLog(type))
      BY <1>1, <2>1 DEF LogIntegrity
    <3>2. logs[type].log \in Seq(Entries) /\ WrittenLog(type) \in Seq(Entries)
      BY <1>1, <2>1, <3>1, ListType, WrittenLogType
    <3> QED BY <2>1, <3>1, <3>2, NumberedPrefix
  <2>2. CASE type \notin DOMAIN logs
    BY <1>1, <2>2, NewLogIsNumbered
  <2> QED BY <2>1, <2>2
<1>5. CopyIn(logs, type) = old.log
  BY DEF CopyIn, NewLog
<1> HIDE DEF old, list, p, e, logs, type
<1>6. CASE t # type
  BY <1>3, <1>6 DEF SameCopy, logs, list, p, e, type
<1>7. CASE t = type
  <2>1. t \in DOMAIN list /\ list[t] = addToLog(old, e)
    BY <1>3, <1>7
  <2>2. CASE isSubsequentEntry(old, e)
    <3>1. e.sequenceNum = getCurrentSeqNum(old) + 1
      BY <2>2 DEF isSubsequentEntry, getCurrentSeqNum
    <3>2. getCurrentSeqNum(old) = Len(old.log) - 1 /\ Len(old.log) \in Nat
      BY <1>3, <1>4, NumberedLog, LogType
    <3>3. e.sequenceNum = Len(old.log)
      BY <3>1, <3>2
    <3>4. addToLog(old, e).log = Append(old.log, e)
      BY <1>3, <2>2 DEF addToLog, Logs
    <3> QED BY <1>5, <1>7, <2>1, <3>3, <3>4 DEF logs, list, p, e, type
  <2>3. CASE ~isSubsequentEntry(old, e)
    <3>1. addToLog(old, e) = old
      BY <2>3 DEF addToLog
    <3> QED BY <1>5, <1>7, <2>1, <3>1 DEF logs, list, p, e, type
  <2> QED BY <2>2, <2>3
<1> QED
  BY <1>6, <1>7

\* It takes that entry, and changes none of the other copies.
LEMMA TakingStep ==
    ASSUME TypeInv, LogIntegrity, NEW n \in Nodes, NEW d \in Nodes, Arriving(n, d),
           Arrived(n, d).type \in LogTypes, NEW list,
           SameCopies(n, concatenateEntry(logPacket[n], Arrived(n, d).type, Arrived(n, d).shell),
                      list),
           logPacket' = [logPacket EXCEPT ![n] = list]
    PROVE  ListsStep(n, d)
<1> DEFINE p == Arrived(n, d)
           logs == concatenateEntry(logPacket[n], p.type, p.shell)
<1>1. logPacket'[n] = list /\ \A m \in Nodes \ {n} : logPacket'[m] = logPacket[m]
  BY ReplacingList DEF ListReplaced
<1>2. d # None
  BY Identifiers
<1>3. ASSUME NEW t \in LogTypes, ~IsOwn(n, t)
      PROVE  SameCopy(n, logPacket[n], logPacket'[n], t) \/ IsTaken(n, d, t)
  <2>1. SameCopy(n, logs, list, t)
    BY <1>3 DEF SameCopies
  <2>2. \/ SameCopy(n, logPacket[n], logs, t)
        \/ /\ t = p.type /\ t \in DOMAIN logs
           /\ \/ logs[t].log = CopyIn(logPacket[n], t)
              \/ /\ p.shell.sequenceNum = Len(CopyIn(logPacket[n], t))
                 /\ logs[t].log = Append(CopyIn(logPacket[n], t), p.shell)
    BY <1>3, ConcatenationTakes
  <2> HIDE DEF logs
  <2>3. CASE SameCopy(n, logPacket[n], logs, t)
    BY <1>1, <2>1, <2>3 DEF SameCopy
  <2>4. CASE /\ t = p.type /\ t \in DOMAIN logs
             /\ \/ logs[t].log = CopyIn(logPacket[n], t)
                \/ /\ p.shell.sequenceNum = Len(CopyIn(logPacket[n], t))
                   /\ logs[t].log = Append(CopyIn(logPacket[n], t), p.shell)
    BY <1>1, <2>1, <2>4 DEF SameCopy, IsTaken
  <2> QED BY <2>2, <2>3, <2>4
<1> QED
  BY <1>1, <1>2, <1>3 DEF ListsStep

-----------------------------------------------------------------------------
(* Whom a packet names *)

\* The name of a device in a map that names every device after its node.
LEMMA KeyOfNaming ==
    ASSUME NEW map, IsNaming(map), NEW m \in Nodes
    PROVE  getKeyByValue(map, m) = IF m \in DOMAIN map THEN m ELSE None
<1>1. CASE m \in DOMAIN map
  <2>1. map[m] = m /\ \A a \in DOMAIN map : map[a] = m => a = m
    BY <1>1 DEF IsNaming
  <2> QED BY <1>1, <2>1 DEF getKeyByValue
<1>2. CASE m \notin DOMAIN map
  BY <1>2 DEF IsNaming, getKeyByValue
<1> QED
  BY <1>1, <1>2

IInv == TypeInv /\ LogIntegrity /\ ContentsInv /\ NamingInv

LEMMA NamesAre ==
    ASSUME IInv, NEW n \in Nodes
    PROVE  IsNaming(neighbourMap[n]) /\ IsNeighbourMap(neighbourMap[n])
  BY MapType DEF IInv, NamingInv, NeighbourNaming, IsNaming

\* The first packet through a device was written by the node it leads to.
LEMMA FirstAuthor ==
    ASSUME IInv, NEW n \in Nodes, NEW d, Receiving(n, d), n # ManagerId,
           d \notin DOMAIN neighbourMap[n]
    PROVE  Arrived(n, d).shell.authorId = d
<1> DEFINE l == <<d, n>>
<1>1. /\ Arriving(n, d) /\ n \in started /\ Switches \subseteq started
      /\ l \in Links /\ channel[l] # << >> /\ Arrived(n, d) = Head(channel[l])
  BY DEF Receiving, Arriving, Arrived
<1>2. /\ TypeInv /\ Routing /\ SwitchesMeet /\ UsersMeet
  BY DEF IInv, NamingInv
<1>3. d \in Nodes /\ l[1] = d /\ l[2] = n
  BY <1>1, <1>2, ArrivedType
<1>4. CASE d \in Users \cup {ManagerId}
  <2>1. IsRouted(l, Arrived(n, d))
    BY <1>1, <1>2, ArrivedIsRouted
  <2> QED BY <1>3, <1>4, <2>1 DEF IsRouted
<1>5. CASE d \in Switches /\ n \in Switches
  <2>1. IsIntroducing(l)
    BY <1>1, <1>2, <1>3, <1>5 DEF SwitchesMeet
  <2> QED BY <1>1, <1>3, <2>1 DEF IsIntroducing
<1>6. CASE d \in Switches /\ n \in Users
  <2> DEFINE k == <<n, d>>
  <2>1. k \in Links /\ k[1] = n /\ k[2] = d
    BY <1>1, LinksAreOfNodes
  <2>2. \/ k[1] \notin DOMAIN neighbourMap[k[2]] /\ IsUnheard(k[1], k[2])
        \/ k[2] \in DOMAIN neighbourMap[k[1]]
        \/ IsIntroducing(<<k[2], k[1]>>)
    BY <1>2, <1>6, <2>1 DEF UsersMeet
  <2>3. \/ IsUnheard(n, d) \/ IsIntroducing(l)
    BY <2>1, <2>2
  <2>4. ~IsUnheard(n, d)
    BY <1>1 DEF IsUnheard
  <2> QED BY <1>1, <1>3, <2>3, <2>4 DEF IsIntroducing
<1> QED
  BY <1>3, <1>4, <1>5, <1>6 DEF Nodes

\* The map of a node after LearnNeighbour.
LEMMA LearntNames ==
    ASSUME IInv, NEW n \in Nodes, NEW d, Receiving(n, d), n # ManagerId
    PROVE  LET map == LearnNeighbour(neighbourMap[n], d, Arrived(n, d).shell.authorId)
           IN  /\ IsNaming(map) /\ IsNeighbourMap(map)
               /\ DOMAIN map = DOMAIN neighbourMap[n] \cup {d}
               /\ d \in Nodes /\ d # None
<1> DEFINE old == neighbourMap[n]
           a == Arrived(n, d).shell.authorId
           map == LearnNeighbour(old, d, a)
<1>1. TypeInv /\ Arriving(n, d)
  BY DEF IInv, Receiving
<1>2. d \in Nodes /\ d # None /\ a \in Nodes
  BY <1>1, ArrivedType, Identifiers
<1>3. IsNaming(old) /\ IsNeighbourMap(old)
  BY NamesAre
<1>4. d \notin DOMAIN old => a = d
  BY FirstAuthor
<1> HIDE DEF old, a
<1>5. IsNeighbourMap(map)
  BY <1>2, <1>3, LearnNeighbourType
<1>6. getKeyByValue(old, d) = IF d \in DOMAIN old THEN d ELSE None
  BY <1>2, <1>3, KeyOfNaming
<1>7. CASE d \in DOMAIN old
  <2>1. map = old
    BY <1>2, <1>6, <1>7 DEF LearnNeighbour
  <2> QED BY <1>2, <1>3, <1>5, <1>7, <2>1 DEF old, a
<1>8. CASE d \notin DOMAIN old
  <2>1. map = Insert(old, d, d)
    BY <1>4, <1>6, <1>8 DEF LearnNeighbour
  <2>2. DOMAIN map = DOMAIN old \cup {d} /\ IsNaming(map)
    BY <1>3, <1>8, <2>1 DEF Insert, IsNaming
  <2> QED BY <1>2, <1>5, <2>2 DEF old, a
<1> QED
  BY <1>7, <1>8

\* The first packet from a user a switch has not heard of is its plugAndPlay,
\* and the switch accepts it.
LEMMA UnheardReads ==
    ASSUME IInv, NEW s \in Switches, NEW d \in Users, Receiving(s, d),
           d \notin DOMAIN neighbourMap[s]
    PROVE  /\ IsAccepting(s, d) /\ Arrived(s, d).shell.shell.function = "plugAndPlay"
           /\ ForSwitch(Arrived(s, d).type) /\ ~ForUser(Arrived(s, d).type)
           /\ ~IsServed(s, d) /\ ~IsAheadOf(s, d)
<1> DEFINE l == <<d, s>>
           p == Arrived(s, d)
           t == SwitchLog(d)
<1>1. /\ Arriving(s, d) /\ l \in Links /\ channel[l] # << >> /\ p = Head(channel[l])
      /\ l[1] = d /\ l[2] = s
  BY DEF Receiving, Arriving, Arrived
<1>2. TypeInv /\ LogIntegrity /\ ContentsInv /\ UsersMeet /\ SilentUntilStarted
  BY DEF IInv, NamingInv
<1>3. d \in started
  BY <1>1, <1>2 DEF SilentUntilStarted
<1>4. IsUnheard(d, s)
  BY <1>1, <1>2 DEF UsersMeet
<1>5. /\ p.type = t /\ p.shell.sequenceNum = 0 /\ ~Unparsable(p.shell)
      /\ t \notin DOMAIN logPacket[s] /\ NoneIsSent(ContentOf(d))
  BY <1>1, <1>3, <1>4 DEF IsUnheard
<1>6. /\ t \in LogTypes /\ t[1] = d /\ IsRequestLog(t) /\ t[2] = SWITCH_ALL
  BY ContentTypes DEF SwitchLog, LOGTYPE
<1>7. IsFittingPacket(p)
  BY <1>1, <1>2, <1>5, <1>6, ArrivedFits, AnswersHaveNoLog
<1>8. SWITCH_ALL \notin Users \cup {USER_ALL}
  BY Identifiers DEF SWITCH_ALL, USER_ALL
<1>9. ~IsSubscription(t)
  BY <1>6, <1>8, Identifiers DEF IsSubscription
<1>10. p.shell.shell.function = "plugAndPlay" /\ p.shell.shell.params = d
  <2>1. Fits(t, p.shell.sequenceNum + 1, p.shell.shell)
    BY <1>5, <1>7, <1>9 DEF IsFittingPacket
  <2>2. Fits(t, 1, p.shell.shell)
    BY <1>5, <2>1
  <2> QED BY <1>6, <2>2 DEF Fits
<1>11. ForSwitch(p.type) /\ ~ForUser(p.type)
  BY <1>5, <1>6, <1>8 DEF ForSwitch, ForUser
<1>12. ~IsServed(s, d)
  <2>1. s \in Nodes
    BY Identifiers
  <2>2. ContentOf(d) \notin DOMAIN logPacket[s]
    BY <1>5, <2>1 DEF NoneIsSent
  <2> QED BY <1>10, <2>2 DEF IsServed, exists
<1>13. ~IsAheadOf(s, d)
  BY <1>5 DEF IsAheadOf, exists
<1>14. isEntryConcatenated(logPacket[s], p.type, p.shell)
  <2>1. Insert(logPacket[s], t, NewLog(p.shell.authorId))[t] = NewLog(p.shell.authorId)
    BY <1>5 DEF Insert
  <2>2. empty(NewLog(p.shell.authorId))
    BY DEF empty, NewLog
  <2> QED BY <1>5, <2>1, <2>2 DEF isEntryConcatenated, isSubsequentEntry
<1> QED
  BY <1>5, <1>10, <1>11, <1>12, <1>13, <1>14 DEF IsAccepting, IsConcatenating

LEMMA NothingToIntroduce ==
    ASSUME IInv, NEW s \in Switches, NEW d, Receiving(s, d), NEW out,
           \/ Arrived(s, d).shell.shell.function # "plugAndPlay"
           \/ ~ForSwitch(Arrived(s, d).type) \/ ForUser(Arrived(s, d).type)
           \/ IsServed(s, d) \/ IsAheadOf(s, d) \/ ~IsAccepting(s, d)
    PROVE  Introduces(s, d, out)
  BY UnheardReads DEF Introduces

-----------------------------------------------------------------------------
(* Exchanges *)

\* What n sends once it has read from d and knows the devices of map.
Sends(n, d, map, out) ==
    /\ out \in [Nodes -> Seq(Packets)]
    /\ \A m \in Nodes : /\ IsOutgoing(n, d, m, out[m])
                        /\ out[m] # << >> => m \in DOMAIN map

LEMMA ReadingIsExchange ==
    ASSUME IInv, NEW n \in Nodes, NEW d, Receiving(n, d),
           NEW map, IsNaming(map), n = ManagerId \/ d \in DOMAIN map,
           DOMAIN neighbourMap[n] \subseteq DOMAIN map,
           DOMAIN map \subseteq DOMAIN neighbourMap[n] \cup {d},
           neighbourMap' = [neighbourMap EXCEPT ![n] = map],
           NEW out, Sends(n, d, map, out), channel' = Sending(Taking(n, d), n, out),
           UNCHANGED started, ListsStep(n, d), Introduces(n, d, out)
    PROVE  Exchange(n, d, out)
<1>1. TypeInv /\ Arriving(n, d) /\ n \in started
  BY DEF IInv, Receiving
<1>2. d \in Nodes /\ d # None
  BY <1>1, ArrivedType, Identifiers
<1>3. LinksStep(n, d, out)
  BY <1>1, <1>2 DEF LinksStep, Sends
<1>4. neighbourMap'[n] = map /\ \A m \in Nodes \ {n} : neighbourMap'[m] = neighbourMap[m]
  <2>1. DOMAIN neighbourMap = Nodes
    BY <1>1 DEF TypeInv, NeighboursOK
  <2> QED BY <2>1
<1>5. NamesStep(n, d, out)
  BY <1>1, <1>2, <1>4 DEF NamesStep, Sends
<1> QED
  BY <1>2, <1>3, <1>5 DEF Exchange

LEMMA CallIsExchange ==
    ASSUME IInv, NEW n \in started, NEW out, Sends(n, None, neighbourMap[n], out),
           channel' = Sending(channel, n, out),
           UNCHANGED <<neighbourMap, started>>, ListsStep(n, None)
    PROVE  Exchange(n, None, out)
<1>1. n \in Nodes
  BY DEF IInv, TypeInv, ListsOK
<1>2. LinksStep(n, None, out)
  BY DEF LinksStep, Sends
<1>3. IsNaming(neighbourMap[n])
  BY <1>1, NamesAre
<1>4. NamesStep(n, None, out)
  BY <1>3 DEF NamesStep, Sends
<1>5. Introduces(n, None, out)
  BY Identifiers DEF Introduces
<1> QED
  BY <1>1, <1>2, <1>4, <1>5 DEF Exchange

\* Sending nothing.
LEMMA SendingNothing ==
    ASSUME NEW links, Carry(links, Packets), NEW n
    PROVE  Sending(links, n, Nothing) = links
<1>1. links \in [Links -> Seq(Packets)] /\ \A l \in Links : Len(links[l]) <= QueueSize
  BY DEF Carry
<1>2. ASSUME NEW l \in Links, l[1] = n
      PROVE  Enqueue(links[l], Nothing[l[2]]) = links[l]
  <2>1. links[l] \in Seq(Packets) /\ l[2] \in Nodes
    BY <1>1, LinksConnectNodes
  <2>2. Nothing[l[2]] = << >>
    BY <2>1 DEF Nothing
  <2>3. links[l] \o << >> = links[l]
    BY <2>1, ConcatEmptySeq
  <2> QED BY <1>1, <2>2, <2>3 DEF Enqueue
<1> QED
  BY <1>1, <1>2 DEF Sending

LEMMA NothingSends ==
    ASSUME NEW n, NEW d, NEW map
    PROVE  Sends(n, d, map, Nothing)
  BY NothingOutgoing DEF Sends

\* One packet, or none, for each node.
LEMMA OneEachSends ==
    ASSUME NEW n, NEW d, NEW map, NEW p \in Packets, NEW Wanted, NEW out,
           out = [m \in Nodes |-> IF m \in Wanted THEN <<p>> ELSE << >>],
           n \in Users \cup {ManagerId} => p.shell.authorId = n,
           \A m \in Nodes : m \in Wanted => m \in DOMAIN map /\ IsSendable(n, d, m, p.type),
           IsRequestLog(p.type) => p.shell.sequenceNum >= Len(CopyIn(logPacket[n], p.type))
    PROVE  Sends(n, d, map, out)
<1>1. ASSUME NEW m \in Nodes
      PROVE  /\ out[m] \in Seq(Packets) /\ IsOutgoing(n, d, m, out[m])
             /\ out[m] # << >> => m \in DOMAIN map
  <2>1. CASE m \in Wanted
    <3>1. out[m] = <<p>>
      BY <2>1
    <3>2. <<p>> \in Seq(Packets) /\ IsOutgoing(n, d, m, <<p>>)
      BY <2>1, SingleOutgoing
    <3> QED BY <2>1, <3>1, <3>2
  <2>2. CASE m \notin Wanted
    <3>1. out[m] = << >>
      BY <2>2
    <3>2. << >> \in Seq(Packets)
      OBVIOUS
    <3> QED BY <3>1, <3>2, EmptyOutgoing
  <2> QED BY <2>1, <2>2
<1>2. out \in [Nodes -> Seq(Packets)]
  BY <1>1
<1> QED
  BY <1>1, <1>2 DEF Sends

\* Entries of a log that is relayed, to a device that is known.
LEMMA SendEntrySends ==
    ASSUME NEW n, NEW d, NEW l \in Logs, IsNumbered(l.log), IsAuthored(n, l.log),
           NEW t \in LogTypes \cup {GossipAnswerType}, IsRelayed(t),
           t[2] = USER_ALL => IsAtHand(n, d, t),
           NEW from \in Int, NEW map, IsNaming(map), NEW receiver
    PROVE  Sends(n, d, map, sendEntryFromIndexTo(l, map, receiver, from, t))
<1> DEFINE ps == EntriesFrom(l, from, t)
           out == sendEntryFromIndexTo(l, map, receiver, from, t)
<1>1. out \in [Nodes -> Seq(Packets)]
  BY SendEntryType
<1>2. ~IsRequestLog(t)
  <2>1. GossipAnswerType[2] = "switch*" /\ MyType[2] = SWITCH_ALL
    BY DEF GossipAnswerType, MyType, LOGTYPE
  <2>2. {"switch*", USER_ALL} \cap (Switches \cup {SWITCH_ALL}) = {}
    BY Identifiers DEF USER_ALL, SWITCH_ALL
  <2> QED BY <2>1, <2>2 DEF IsRelayed, IsRequestLog
<1>3. ASSUME NEW m \in Nodes
      PROVE  IsOutgoing(n, d, m, out[m]) /\ (out[m] # << >> => m \in DOMAIN map)
  <2>1. IsSendable(n, d, m, t)
    BY DEF IsSendable
  <2>2. IsOutgoing(n, d, m, ps)
    BY <1>2, <2>1, EntriesOutgoing
  <2> HIDE DEF ps
  <2>3. out[m] = IF receiver \in DOMAIN map /\ map[receiver] = m THEN ps ELSE << >>
    BY DEF sendEntryFromIndexTo, ps
  <2> HIDE DEF out
  <2> QED BY <2>2, <2>3, EmptyOutgoing DEF IsNaming
<1> HIDE DEF out
<1>4. Sends(n, d, map, out)
  BY <1>1, <1>3 DEF Sends
<1> QED
  BY <1>4 DEF out

-----------------------------------------------------------------------------
(* The steps of switches are exchanges *)

LEMMA HandlingIsExchange ==
    ASSUME IInv, NEW s \in Switches, NEW d, Receiving(s, d), NEW out, Handling(s, d, out),
           Sends(s, d, Known(s, d), out), ListsStep(s, d), Introduces(s, d, out)
    PROVE  Exchange(s, d, out)
<1> DEFINE map == Known(s, d)
<1>1. s \in Nodes /\ s # ManagerId
  BY Identifiers
<1>2. IsNaming(map) /\ DOMAIN map = DOMAIN neighbourMap[s] \cup {d}
  BY <1>1, LearntNames DEF Known
<1>3. /\ neighbourMap' = [neighbourMap EXCEPT ![s] = map]
      /\ channel' = Sending(Taking(s, d), s, out) /\ UNCHANGED started
  BY DEF Handling
<1> HIDE DEF map
<1>4. Sends(s, d, map, out)
  BY DEF map
<1> QED
  BY <1>1, <1>2, <1>3, <1>4, ReadingIsExchange

LEMMA HandlingNothing ==
    ASSUME IInv, NEW s \in Switches, NEW d, Receiving(s, d), Handling(s, d, Nothing),
           ListsStep(s, d),
           \/ Arrived(s, d).shell.shell.function # "plugAndPlay"
           \/ ~ForSwitch(Arrived(s, d).type) \/ ~IsAccepting(s, d)
    PROVE  Exchange(s, d, Nothing)
<1>1. Introduces(s, d, Nothing)
  BY NothingToIntroduce
<1> QED
  BY <1>1, NothingSends, HandlingIsExchange

LEMMA ReadingParts ==
    ASSUME IInv, NEW s \in Switches, NEW d, Receiving(s, d)
    PROVE  /\ TypeInv /\ LogIntegrity /\ ContentsInv /\ Routing /\ Freshness
           /\ s \in Nodes /\ s # ManagerId /\ s \notin Users /\ Arriving(s, d)
           /\ d \in Nodes /\ Arrived(s, d) \in Packets /\ Arrived(s, d).shell \in Entries
           /\ IsRouted(<<d, s>>, Arrived(s, d))
           /\ IsNaming(Known(s, d)) /\ DOMAIN Known(s, d) = DOMAIN neighbourMap[s] \cup {d}
<1>1. TypeInv /\ LogIntegrity /\ ContentsInv /\ Routing /\ Freshness
  BY DEF IInv, NamingInv
<1>2. s \in Nodes /\ s # ManagerId /\ s \notin Users /\ Arriving(s, d)
  BY Identifiers DEF Receiving
<1>3. IsRouted(<<d, s>>, Arrived(s, d))
  BY <1>1, <1>2, ArrivedIsRouted
<1>4. IsNaming(Known(s, d)) /\ DOMAIN Known(s, d) = DOMAIN neighbourMap[s] \cup {d}
  BY <1>2, LearntNames DEF Known
<1> QED
  BY <1>1, <1>2, <1>3, <1>4, ArrivedType

\* Requests come from their writer, and are not behind.
LEMMA RequestArrived ==
    ASSUME IInv, NEW s \in Switches, NEW d, Receiving(s, d), IsRequestLog(Arrived(s, d).type)
    PROVE  /\ Arrived(s, d).type[1] = d /\ Arrived(s, d).type \in LogTypes
           /\ Arrived(s, d).shell.sequenceNum >= Len(CopyIn(logPacket[s], Arrived(s, d).type))
<1> DEFINE l == <<d, s>>
           p == Arrived(s, d)
<1>1. /\ TypeInv /\ Freshness /\ Arriving(s, d) /\ p \in Packets /\ IsRouted(l, p)
  BY ReadingParts
<1>2. l \in Links /\ channel[l] # << >> /\ p = Head(channel[l]) /\ l[2] = s /\ l[1] = d
  BY <1>1 DEF Arriving, Arrived
<1>3. channel[l] \in Seq(Packets)
  BY <1>1, <1>2, LinkOfType
<1>4. channel[l][1] = p /\ 1 \in 1..Len(channel[l])
  BY <1>2, <1>3, TailIs
<1>5. IsAhead(logPacket[s], channel[l])
  BY <1>1, <1>2 DEF Freshness
<1> HIDE DEF p
<1>6. p.shell.sequenceNum >= Len(CopyIn(logPacket[s], p.type))
  BY <1>4, <1>5 DEF IsAhead, p
<1>7. p.type[1] = d /\ p.type \in LogTypes
  BY <1>1, <1>2, RequestIsRouted, RequestLogs DEF p
<1> QED
  BY <1>6, <1>7 DEF p

\* What reaches a switch for users is published content.
LEMMA ForUserIsPublished ==
    ASSUME IInv, NEW s \in Switches, NEW d, Receiving(s, d), ForUser(Arrived(s, d).type)
    PROVE  /\ Arrived(s, d).type \in LogTypes /\ Arrived(s, d).type[2] = USER_ALL
           /\ IsRelayed(Arrived(s, d).type)
<1> DEFINE t == Arrived(s, d).type
<1>1. /\ TypeInv /\ Arriving(s, d) /\ IsRouted(<<d, s>>, Arrived(s, d)) /\ s \in Nodes
      /\ s \notin Users
  BY ReadingParts
<1>2. t \in LogTypes
  BY <1>1, HandledTypes
<1>3. MyType[2] = SWITCH_ALL /\ GossipAnswerType[2] = "switch*"
  BY DEF MyType, GossipAnswerType, LOGTYPE
<1>4. SWITCH_ALL \notin Users \cup {USER_ALL} /\ "switch*" \notin Users \cup {USER_ALL}
  BY Identifiers DEF SWITCH_ALL, USER_ALL
<1>5. t[2] = USER_ALL
  <2> SUFFICES ASSUME t[2] \in Users PROVE t[2] = USER_ALL
    BY DEF ForUser
  <2>1. t[2] \in Nodes
    BY Identifiers
  <2>2. <<d, s>>[2] = s
    OBVIOUS
  <2> QED BY <1>1, <1>3, <1>4, <2>1, <2>2 DEF IsRouted
<1> QED
  BY <1>2, <1>5 DEF IsRelayed

LEMMA DropPacketExchange ==
    ASSUME IInv, NEW s \in Switches, NEW d, DropPacket(s, d)
    PROVE  \E out : Exchange(s, d, out)
<1>1. /\ Receiving(s, d) /\ ~ForSwitch(Arrived(s, d).type) /\ Handling(s, d, Nothing)
      /\ UNCHANGED logPacket
  BY DEF DropPacket
<1>2. ListsStep(s, d)
  BY <1>1, SameListsStep DEF IInv
<1> QED
  BY <1>1, <1>2, HandlingNothing

\* The logs of a switch that has concatenated what arrived.
LEMMA ConcatenatedLogs ==
    ASSUME IInv, NEW s \in Switches, NEW d, Receiving(s, d), Arrived(s, d).type \in LogTypes
    PROVE  /\ IsLogList(Concatenated(s, d))
           /\ DOMAIN Concatenated(s, d) = DOMAIN logPacket[s] \cup {Arrived(s, d).type}
           /\ OwnLogsStay(s, Concatenated(s, d)) /\ OwnLogsFit(s, Concatenated(s, d))
           /\ \A t \in DOMAIN Concatenated(s, d) :
                  /\ t \in LogTypes /\ Concatenated(s, d)[t] \in Logs
                  /\ IsNumbered(Concatenated(s, d)[t].log)
<1> DEFINE logs == Concatenated(s, d)
<1>1. TypeInv /\ LogIntegrity /\ ContentsInv
  BY DEF IInv
<1>2. /\ LogsOK /\ IsLogList(logs) /\ OwnLogsStay(s, logs) /\ OwnLogsGrow(s, logs)
      /\ OthersArePrefixes(s, logs)
  BY <1>1, SwitchConcatenates
<1>3. DOMAIN logs = DOMAIN logPacket[s] \cup {Arrived(s, d).type}
  BY <1>1, SwitchReads
<1>4. OwnLogsFit(s, logs)
  BY <1>1, ConcatenatedFits
<1> HIDE DEF logs
<1>5. ASSUME NEW t \in DOMAIN logs
      PROVE  t \in LogTypes /\ logs[t] \in Logs /\ IsNumbered(logs[t].log)
  <2>1. t \in LogTypes /\ logs[t] \in Logs /\ logs[t].log \in Seq(Entries)
    BY <1>2, LogOfList, LogType
  <2>2. CASE IsOwn(s, t)
    BY <1>2, <2>1, <2>2 DEF OwnLogsGrow
  <2>3. CASE ~IsOwn(s, t)
    <3>1. IsWritten(t) /\ IsPrefix(logs[t].log, WrittenLog(t))
      BY <1>2, <2>3 DEF OthersArePrefixes
    <3>2. IsNumbered(WrittenLog(t)) /\ WrittenLog(t) \in Seq(Entries)
      BY <1>1, <1>2, <2>1, <3>1, WrittenLogType DEF LogsOK
    <3> QED BY <2>1, <3>1, <3>2, NumberedPrefix
  <2> QED BY <2>1, <2>2, <2>3
<1> QED
  BY <1>2, <1>3, <1>4, <1>5 DEF logs

LEMMA ConcatenatingStep ==
    ASSUME IInv, NEW s \in Switches, NEW d, Receiving(s, d), Arrived(s, d).type \in LogTypes,
           NEW list, SameCopies(s, Concatenated(s, d), list),
           logPacket' = [logPacket EXCEPT ![s] = list]
    PROVE  ListsStep(s, d)
<1>1. TypeInv /\ LogIntegrity /\ s \in Nodes /\ d \in Nodes /\ Arriving(s, d)
  BY ReadingParts
<1> QED
  BY <1>1, TakingStep DEF Concatenated

LEMMA SameListCopies ==
    ASSUME NEW n, NEW list
    PROVE  SameCopies(n, list, list)
  BY DEF SameCopies, SameCopy

LEMMA ServeRequestExchange ==
    ASSUME IInv, NEW s \in Switches, NEW d, ServeRequest(s, d)
    PROVE  \E out : Exchange(s, d, out)
<1> DEFINE p == Arrived(s, d)
           logs == Concatenated(s, d)
           content == ContentOf(p.shell.shell.params)
           map == Known(s, d)
           requester == getKeyByValue(map, d)
           out == IF exists(logs, content)
                  THEN sendEntryFromIndexTo(logs[content], map, requester, 0, content)
                  ELSE Nothing
<1>1. /\ Receiving(s, d) /\ ForSwitch(p.type) /\ IsServed(s, d)
      /\ logPacket' = [logPacket EXCEPT ![s] = logs] /\ Handling(s, d, out)
  BY DEF ServeRequest
<1>2. /\ TypeInv /\ s \in Nodes /\ s # ManagerId /\ s \notin Users /\ Arriving(s, d)
      /\ d \in Nodes /\ IsNaming(map)
  BY <1>1, ReadingParts
<1>3. p.type \in LogTypes /\ d # None
  BY <1>1, <1>2, HandledTypes, Identifiers
<1>4. /\ DOMAIN logs = DOMAIN logPacket[s] \cup {p.type}
      /\ \A t \in DOMAIN logs : t \in LogTypes /\ logs[t] \in Logs /\ IsNumbered(logs[t].log)
  BY <1>1, <1>3, ConcatenatedLogs
<1>5. Introduces(s, d, out)
  BY <1>1, NothingToIntroduce
<1>6. ListsStep(s, d)
  BY <1>1, <1>3, SameListCopies, ConcatenatingStep
<1>7. content[2] = USER_ALL
  BY DEF ContentOf, LOGTYPE
<1> HIDE DEF logs, content, map, requester
<1>8. Sends(s, d, map, out)
  <2>1. CASE content \in DOMAIN logs
    <3>1. /\ content \in LogTypes /\ logs[content] \in Logs /\ IsNumbered(logs[content].log)
          /\ IsAtHand(s, d, content)
      BY <1>3, <1>4, <2>1 DEF IsAtHand
    <3>2. IsAuthored(s, logs[content].log) /\ IsRelayed(content)
      BY <1>2, <1>7 DEF IsAuthored, IsRelayed
    <3>3. out = sendEntryFromIndexTo(logs[content], map, requester, 0, content)
      BY <2>1 DEF exists
    <3> HIDE DEF out
    <3> QED BY <1>2, <3>1, <3>2, <3>3, SendEntrySends
  <2>2. CASE content \notin DOMAIN logs
    BY <2>2, NothingSends DEF exists
  <2> QED BY <2>1, <2>2
<1> HIDE DEF out
<1>9. Exchange(s, d, out)
  BY <1>1, <1>5, <1>6, <1>8, HandlingIsExchange DEF map
<1> QED
  BY <1>9

LEMMA AnswerSwitchGossipExchange ==
    ASSUME IInv, NEW s \in Switches, NEW d, AnswerSwitchGossip(s, d)
    PROVE  \E out : Exchange(s, d, out)
<1> DEFINE p == Arrived(s, d)
           t == p.type
           l == logPacket[s][t]
           map == Known(s, d)
           receiver == getKeyByValue(map, d)
           from == p.shell.sequenceNum
           out == sendEntryFromIndexTo(l, map, receiver, from, t)
<1>1. /\ Receiving(s, d) /\ ForSwitch(t) /\ IsAheadOf(s, d)
      /\ Handling(s, d, out) /\ UNCHANGED logPacket
  BY DEF AnswerSwitchGossip
<1>2. /\ TypeInv /\ LogIntegrity /\ s \in Nodes /\ s # ManagerId /\ s \notin Users
      /\ Arriving(s, d) /\ d \in Nodes /\ IsNaming(map) /\ p.shell \in Entries
  BY <1>1, ReadingParts
<1>3. t \in LogTypes /\ d # None
  BY <1>1, <1>2, HandledTypes, Identifiers
<1>4. t \in DOMAIN logPacket[s] /\ getCurrentSeqNum(l) > from
  BY <1>1 DEF IsAheadOf, exists, isGossipEntryOlder
<1>5. l \in Logs /\ l.log \in Seq(Entries) /\ Len(l.log) \in Nat /\ from \in Int
  BY <1>2, <1>4, ListType, LogType, EntryType
<1>6. IsNumbered(l.log)
  <2>1. IsWritten(t) /\ IsPrefix(l.log, WrittenLog(t)) /\ IsNumbered(WrittenLog(t))
    BY <1>2, <1>3, <1>4 DEF LogIntegrity
  <2>2. WrittenLog(t) \in Seq(Entries)
    BY <1>2, <1>3, <2>1, WrittenLogType
  <2> QED BY <1>5, <2>1, <2>2, NumberedPrefix
<1>7. t = MyType
  <2> SUFFICES ASSUME t # MyType PROVE FALSE
    OBVIOUS
  <2>1. IsRequestLog(t)
    BY <1>1 DEF ForSwitch, IsRequestLog
  <2>2. from >= Len(CopyIn(logPacket[s], t))
    BY <1>1, <2>1, RequestArrived
  <2>3. CopyIn(logPacket[s], t) = l.log
    BY <1>4 DEF CopyIn
  <2>4. getCurrentSeqNum(l) = Len(l.log) - 1
    BY <1>5, <1>6, NumberedLog
  <2> HIDE DEF l, from, t
  <2> QED BY <1>4, <1>5, <2>2, <2>3, <2>4
<1>8. /\ IsRelayed(t) /\ IsAuthored(s, l.log) /\ IsAtHand(s, d, t)
  BY <1>2, <1>4, <1>7 DEF IsRelayed, IsAuthored, IsAtHand
<1>9. ListsStep(s, d)
  BY <1>1, <1>2, SameListsStep
<1>10. Introduces(s, d, out)
  BY <1>1, NothingToIntroduce
<1> HIDE DEF map, receiver, from, l, t
<1>11. Sends(s, d, map, out)
  BY <1>2, <1>3, <1>5, <1>6, <1>8, SendEntrySends
<1> HIDE DEF out
<1>12. Exchange(s, d, out)
  BY <1>1, <1>9, <1>10, <1>11, HandlingIsExchange DEF map
<1> QED
  BY <1>12

-----------------------------------------------------------------------------
(* What the network does *)

\* A switch that takes nothing and sends nothing.
LEMMA ConcatenatingExchange ==
    ASSUME IInv, NEW s \in Switches, NEW d, IsConcatenating(s, d),
           logPacket' = [logPacket EXCEPT ![s] = Concatenated(s, d)],
           Handling(s, d, Nothing),
           \/ Arrived(s, d).shell.shell.function # "plugAndPlay"
           \/ ~IsAccepting(s, d)
    PROVE  Exchange(s, d, Nothing)
<1>1. Receiving(s, d) /\ ForSwitch(Arrived(s, d).type)
  BY DEF IsConcatenating
<1>2. TypeInv /\ Arriving(s, d)
  BY <1>1, ReadingParts
<1>3. Arrived(s, d).type \in LogTypes
  BY <1>1, <1>2, HandledTypes
<1>4. ListsStep(s, d)
  BY <1>1, <1>3, SameListCopies, ConcatenatingStep
<1> QED
  BY <1>1, <1>4, HandlingNothing

LEMMA RejectEntryExchange ==
    ASSUME IInv, NEW s \in Switches, NEW d, RejectEntry(s, d)
    PROVE  \E out : Exchange(s, d, out)
  BY ConcatenatingExchange DEF RejectEntry

LEMMA AcceptMemberExchange ==
    ASSUME IInv, NEW s \in Switches, NEW d, AcceptMember(s, d)
    PROVE  \E out : Exchange(s, d, out)
<1>1. /\ IsConcatenating(s, d) /\ Handling(s, d, Nothing)
      /\ logPacket' = [logPacket EXCEPT ![s] = Concatenated(s, d)]
      /\ Arrived(s, d).shell.shell.function = "addMemberToNetwork"
  BY DEF AcceptMember, Accepts, IsAccepting
<1> QED
  BY <1>1, ConcatenatingExchange

LEMMA AcceptOtherExchange ==
    ASSUME IInv, NEW s \in Switches, NEW d, AcceptOther(s, d)
    PROVE  \E out : Exchange(s, d, out)
<1>1. /\ IsConcatenating(s, d) /\ Handling(s, d, Nothing)
      /\ logPacket' = [logPacket EXCEPT ![s] = Concatenated(s, d)]
      /\ Arrived(s, d).shell.shell.function # "plugAndPlay"
  BY DEF AcceptOther, IsAccepting
<1> QED
  BY <1>1, ConcatenatingExchange

\* What is accepted of logs that are not the manager's was written by the node
\* it came from.
LEMMA AcceptedFrom ==
    ASSUME IInv, NEW s \in Switches, NEW d, IsAccepting(s, d),
           Arrived(s, d).type # MyType
    PROVE  /\ IsRequestLog(Arrived(s, d).type) /\ Arrived(s, d).type[1] = d
           /\ Arrived(s, d).shell.authorId = d
<1>1. TypeInv /\ LogIntegrity /\ ContentsInv /\ Receiving(s, d)
  BY DEF IInv, IsAccepting, IsConcatenating
<1>2. ForSwitch(Arrived(s, d).type) /\ Arrived(s, d).shell.authorId = Arrived(s, d).type[1]
  BY <1>1, AcceptedFits
<1>3. IsRequestLog(Arrived(s, d).type)
  BY <1>2 DEF ForSwitch, IsRequestLog
<1> QED
  BY <1>1, <1>2, <1>3, RequestArrived

LEMMA PlugAndPlayFrom ==
    ASSUME IInv, NEW s \in Switches, NEW d, IsAccepting(s, d),
           Arrived(s, d).shell.shell.function = "plugAndPlay"
    PROVE  d \in Users /\ Arrived(s, d).shell.authorId = d
<1> DEFINE p == Arrived(s, d)
           t == p.type
<1>1. TypeInv /\ LogIntegrity /\ ContentsInv
  BY DEF IInv
<1>2. /\ t \in LogTypes /\ Writable(t) /\ ForSwitch(t)
      /\ p.shell.sequenceNum \in Nat /\ Fits(t, p.shell.sequenceNum + 1, p.shell.shell)
  BY <1>1, AcceptedFits
<1>3. p.shell.shell.function = "plugAndPlay"
  OBVIOUS
<1> DEFINE i == p.shell.sequenceNum + 1
           content == p.shell.shell
<1>4. Fits(t, i, content) /\ content.function = "plugAndPlay"
  BY <1>2
<1> HIDE DEF p, t, i, content
<1>5. t # MyType
  BY <1>4 DEF Fits
<1>6. ~(t[1] \in Switches /\ t[2] \in Nodes)
  BY <1>4 DEF Fits, Requests
<1>7. t[1] \in Users
  BY <1>2, <1>5, <1>6, ReadersDiffer, Identifiers DEF Writable, ForSwitch
<1> QED
  BY <1>5, <1>7, AcceptedFrom DEF p, t

LEMMA AcceptPlugAndPlayExchange ==
    ASSUME IInv, NEW s \in Switches, NEW d, AcceptPlugAndPlay(s, d)
    PROVE  \E out : Exchange(s, d, out)
<1> DEFINE type == LOGTYPE(s, Arrived(s, d).shell.authorId)
           content == ContentShell("addSwitch", s, 0)
           log == appendLogShell(NewLog(s), content)
           old == Concatenated(s, d)
           logs == Insert(old, type, log)
           p == NetShell(type, 0, getLastEntry(logs[type]))
           out == [m \in Nodes |->
                      IF m = d /\ ~empty(logs[type])
                      THEN <<NetShell(type, 0, getLastEntry(logs[type]))>> ELSE << >>]
<1>1. /\ IsAccepting(s, d) /\ Arrived(s, d).shell.shell.function = "plugAndPlay"
      /\ logPacket' = [logPacket EXCEPT ![s] = logs]
      /\ Handling(s, d, out)
  BY DEF AcceptPlugAndPlay, Accepts
<1>2. /\ TypeInv /\ LogIntegrity /\ ContentsInv
  BY DEF IInv
<1>3. /\ Receiving(s, d) /\ s \in Nodes /\ LogsOK
      /\ IsLogList(old) /\ OwnLogsStay(s, old) /\ OthersArePrefixes(s, old)
  BY <1>1, <1>2, AcceptingReads
<1>4. d \in Users /\ d \in Nodes /\ type = <<s, d>>
  BY <1>1, PlugAndPlayFrom, Identifiers DEF LOGTYPE
<1>5. /\ type \in LogTypes /\ IsOwn(s, type) /\ type[1] = s /\ type[2] = d
      /\ type # MyType /\ type[2] # USER_ALL /\ ~IsRequestLog(type)
  BY <1>3, <1>4, OwnTypes, Identifiers DEF LOGTYPE, MyType, USER_ALL, SWITCH_ALL, IsRequestLog
<1>6. content \in Contents /\ Writable(type) /\ Fits(type, 1, content)
  <2>1. content \in Contents
    BY <1>3, ContentShellType DEF Functions
  <2>2. Writable(type)
    BY <1>4 DEF Writable
  <2>3. content.function = "addSwitch" /\ content.params \notin Users
    BY Identifiers DEF ContentShell
  <2> HIDE DEF type, content
  <2>4. Fits(type, 1, content)
    BY <1>4, <1>5, <2>3, Identifiers DEF Fits, USER_ALL, SWITCH_ALL, MANAGER_ALL
  <2> QED BY <2>1, <2>2, <2>4
<1>7. OwnLogsFit(s, old)
  BY <1>2, <1>3, <1>1, AcceptedFits, ConcatenatedFits
<1>8. Arrived(s, d).type \in LogTypes
  BY <1>1, <1>2, AcceptedFits
<1>9. log \in Logs /\ IsNumbered(log.log)
  <2> HIDE DEF content
  <2> QED BY <1>3, <1>6, OpenedLog
<1> HIDE DEF old, type, content
<1>10. OwnLogsFit(s, logs)
  BY <1>3, <1>5, <1>6, <1>7, OpeningFits
<1> HIDE DEF log
<1>11. IsLogList(logs) /\ type \in DOMAIN logs /\ SameCopies(s, old, logs)
  BY <1>2, <1>3, <1>5, <1>9, OpeningOwnLog
<1> HIDE DEF logs
<1>12. ListsStep(s, d)
  BY <1>1, <1>3, <1>8, <1>11, ConcatenatingStep DEF old
<1>13. /\ ~empty(logs[type]) /\ getLastEntry(logs[type]) \in Entries
       /\ getLastEntry(logs[type]).authorId = s
  <2> DEFINE l == logs[type]
  <2>1. l \in Logs /\ l.log # << >> /\ IsFitting(type, l.log)
    BY <1>5, <1>10, <1>11, LogOfList DEF OwnLogsFit
  <2> HIDE DEF l
  <2>2. Len(l.log) \in Nat /\ Len(l.log) > 0 /\ getLastEntry(l) \in Entries /\ ~empty(l)
    BY <2>1, LogType DEF empty
  <2>3. getLastEntry(l).authorId = s
    BY <1>5, <2>1, <2>2 DEF IsFitting, getLastEntry
  <2> QED BY <2>2, <2>3 DEF l
<1>14. p \in Packets /\ p.type = type /\ p.shell.authorId = s
  BY <1>5, <1>13, NetShellType DEF NetShell
<1>15. out = [m \in Nodes |-> IF m \in {d} THEN <<p>> ELSE << >>]
  BY <1>13
<1>16. s \notin Users \cup {ManagerId} /\ d \in DOMAIN Known(s, d)
  BY <1>3, ReadingParts, Identifiers
<1>17. IsSendable(s, d, d, type)
  BY <1>5 DEF IsSendable
<1> HIDE DEF p
<1> DEFINE W == {d}
<1>18. Sends(s, d, Known(s, d), out)
  <2>1. \A m \in Nodes : m \in W => m \in DOMAIN Known(s, d) /\ IsSendable(s, d, m, p.type)
    BY <1>14, <1>16, <1>17
  <2>2. out = [m \in Nodes |-> IF m \in W THEN <<p>> ELSE << >>]
    BY <1>15
  <2> HIDE DEF out, W
  <2> QED BY <1>5, <1>14, <1>16, <2>1, <2>2, OneEachSends
<1>19. Introduces(s, d, out)
  <2>1. out[d] = <<p>>
    BY <1>4, <1>15
  <2>2. out[d] # << >> /\ out[d][1] = p
    BY <2>1
  <2> QED BY <1>14, <2>2 DEF Introduces
<1> HIDE DEF out
<1>20. Exchange(s, d, out)
  BY <1>1, <1>3, <1>12, <1>18, <1>19, HandlingIsExchange
<1> QED
  BY <1>20

-----------------------------------------------------------------------------
(* Requests that are passed on *)

\* Lists that differ in the logs kept for nodes only.
LEMMA OwnReplaced ==
    ASSUME NEW s, NEW logs, NEW list, NEW To, To \subseteq Nodes,
           \A t \in LogTypes :
               ~(t[1] = s /\ t[2] \in To) =>
                   /\ t \in DOMAIN list <=> t \in DOMAIN logs
                   /\ t \in DOMAIN logs => list[t] = logs[t]
    PROVE  SameCopies(s, logs, list)
<1> SUFFICES ASSUME NEW t \in LogTypes, ~IsOwn(s, t)
             PROVE  SameCopy(s, logs, list, t)
  BY DEF SameCopies
<1>1. ~(t[1] = s /\ t[2] \in To)
  <2> SUFFICES ASSUME t[1] = s, t[2] \in Nodes PROVE IsOwn(s, t)
    OBVIOUS
  <2>1. t[2] # USER_ALL /\ t # MyType
    BY Identifiers DEF USER_ALL, SWITCH_ALL, MyType, LOGTYPE
  <2> QED BY <2>1 DEF IsOwn, IsPublished
<1> QED
  BY <1>1 DEF SameCopy

\* Packets that are no gossip, and carry nothing that is published for users.
IsDirect(out) ==
    \A m \in Nodes : \A i \in 1..Len(out[m]) :
        out[m][i].flag = 0 /\ out[m][i].type[2] # USER_ALL

\* What a switch appends to the logs it keeps for others it sends to those it
\* can name.
LEMMA AppendedSends ==
    ASSUME IInv, NEW s \in Switches, NEW d, Receiving(s, d), NEW To, To \subseteq Nodes,
           NEW new \in [To -> Logs], NEW from \in [To -> Int],
           \A k \in To : /\ IsNumbered(new[k].log)
                         /\ from[k] = Len(CopyIn(logPacket[s], LOGTYPE(s, k))),
           NEW out,
           out = [m \in Nodes |->
                     LET k == getKeyByValue(Known(s, d), m)
                     IN  IF k \in To THEN EntriesFrom(new[k], from[k], LOGTYPE(s, k)) ELSE << >>]
    PROVE  Sends(s, d, Known(s, d), out) /\ IsDirect(out)
<1> DEFINE map == Known(s, d)
<1>1. /\ TypeInv /\ s \in Nodes /\ s \notin Users \cup {ManagerId} /\ IsNaming(map)
  BY ReadingParts
<1> HIDE DEF map
<1>2. ASSUME NEW m \in Nodes
      PROVE  out[m] = IF m \in DOMAIN map /\ m \in To
                      THEN EntriesFrom(new[m], from[m], LOGTYPE(s, m)) ELSE << >>
  <2>1. getKeyByValue(map, m) = IF m \in DOMAIN map THEN m ELSE None
    BY <1>1, KeyOfNaming
  <2>2. None \notin To
    BY Identifiers
  <2> QED BY <2>1, <2>2 DEF map
<1>3. ASSUME NEW m \in To
      PROVE  /\ EntriesFrom(new[m], from[m], LOGTYPE(s, m)) \in Seq(Packets)
             /\ IsOutgoing(s, d, m, EntriesFrom(new[m], from[m], LOGTYPE(s, m)))
             /\ \A i \in 1..Len(EntriesFrom(new[m], from[m], LOGTYPE(s, m))) :
                   /\ EntriesFrom(new[m], from[m], LOGTYPE(s, m))[i].flag = 0
                   /\ EntriesFrom(new[m], from[m], LOGTYPE(s, m))[i].type[2] # USER_ALL
  <2> DEFINE t == LOGTYPE(s, m)
  <2>1. t \in LogTypes /\ t[1] = s /\ t[2] = m /\ m \in Nodes /\ t[2] # USER_ALL
    BY <1>1, OwnTypes, Identifiers DEF LOGTYPE, USER_ALL
  <2>2. IsSendable(s, d, m, t)
    BY <2>1 DEF IsSendable
  <2>3. /\ from[m] \in Int /\ from[m] = Len(CopyIn(logPacket[s], t))
        /\ Len(CopyIn(logPacket[s], t)) \in Nat
    BY <1>1, CopyOfType
  <2>4. new[m] \in Logs /\ IsNumbered(new[m].log) /\ IsAuthored(s, new[m].log)
    BY <1>1 DEF IsAuthored
  <2> DEFINE l == new[m]
             i == from[m]
  <2> HIDE DEF t, l, i
  <2>5. EntriesFrom(l, i, t) \in Seq(Packets)
    BY <2>1, <2>3, <2>4, EntriesFromType DEF l, i
  <2>6. i >= Len(CopyIn(logPacket[s], t))
    BY <2>3 DEF i
  <2>7. IsOutgoing(s, d, m, EntriesFrom(l, i, t))
    BY <2>1, <2>2, <2>3, <2>4, <2>6, EntriesOutgoing DEF l, i
  <2> DEFINE ps == EntriesFrom(l, i, t)
  <2>8. \A j \in 1..Len(ps) : ps[j].type = t /\ ps[j].flag = 0
    BY <2>3, <2>4, EntriesFromIs DEF l, i
  <2> HIDE DEF ps
  <2>9. \A j \in 1..Len(ps) : ps[j].flag = 0 /\ ps[j].type[2] # USER_ALL
    BY <2>1, <2>8
  <2> QED BY <2>5, <2>7, <2>9 DEF ps, l, i, t
<1>4. ASSUME NEW m \in Nodes
      PROVE  /\ out[m] \in Seq(Packets) /\ IsOutgoing(s, d, m, out[m])
             /\ out[m] # << >> => m \in DOMAIN map
             /\ \A i \in 1..Len(out[m]) : out[m][i].flag = 0 /\ out[m][i].type[2] # USER_ALL
  <2>1. CASE m \in DOMAIN map /\ m \in To
    BY <1>2, <1>3, <2>1
  <2>2. CASE ~(m \in DOMAIN map /\ m \in To)
    <3>1. out[m] = << >> /\ << >> \in Seq(Packets)
      BY <1>2, <2>2
    <3>2. 1..Len(<< >>) = {}
      OBVIOUS
    <3>3. \A i \in 1..Len(out[m]) : out[m][i].flag = 0 /\ out[m][i].type[2] # USER_ALL
      BY <3>1, <3>2
    <3> QED BY <3>1, <3>3, EmptyOutgoing
  <2> QED BY <2>1, <2>2
<1>5. out \in [Nodes -> Seq(Packets)]
  BY <1>4
<1> QED
  BY <1>4, <1>5 DEF Sends, IsDirect, map

\* The number of the next entry of a log a switch keeps for another.
LEMMA NextNumber ==
    ASSUME IInv, NEW s \in Nodes, NEW logs, OwnLogsStay(s, logs), NEW t \in LogTypes, IsOwn(s, t)
    PROVE  /\ t \in DOMAIN logs =>
                  getCurrentSeqNum(logs[t]) + 1 = Len(CopyIn(logPacket[s], t))
           /\ t \notin DOMAIN logs => 0 = Len(CopyIn(logPacket[s], t))
<1>1. TypeInv /\ LogIntegrity
  BY DEF IInv
<1>2. t \in DOMAIN logs <=> t \in DOMAIN logPacket[s]
  BY DEF OwnLogsStay
<1>3. CASE t \in DOMAIN logs
  <2> DEFINE l == logPacket[s][t]
  <2>1. logs[t] = l
    BY <1>3 DEF OwnLogsStay
  <2>2. l \in Logs /\ l.log \in Seq(Entries)
    BY <1>1, <1>2, <1>3, ListType
  <2>3. IsWritten(t) /\ IsPrefix(l.log, WrittenLog(t)) /\ IsNumbered(WrittenLog(t))
    BY <1>1, <1>2, <1>3 DEF LogIntegrity
  <2>4. WrittenLog(t) \in Seq(Entries)
    BY <1>1, <2>3, WrittenLogType
  <2>5. CopyIn(logPacket[s], t) = l.log
    BY <1>2, <1>3 DEF CopyIn
  <2> HIDE DEF l
  <2>6. getCurrentSeqNum(l) = Len(l.log) - 1 /\ Len(l.log) \in Nat
    BY <2>2, <2>3, <2>4, NumberedPrefix, NumberedLog, LogType
  <2>7. getCurrentSeqNum(l) + 1 = Len(l.log)
    BY <2>6
  <2> QED BY <1>3, <2>1, <2>5, <2>7
<1>4. CASE t \notin DOMAIN logs
  <2>1. CopyIn(logPacket[s], t) = << >>
    BY <1>2, <1>4 DEF CopyIn
  <2> QED BY <1>4, <2>1
<1> QED
  BY <1>3, <1>4

LEMMA AcceptRequestExchange ==
    ASSUME IInv, NEW s \in Switches, NEW d, AcceptRequest(s, d)
    PROVE  \E out : Exchange(s, d, out) /\ IsDirect(out)
<1> DEFINE content == Arrived(s, d).shell.shell
           map == Known(s, d)
           logs == Concatenated(s, d)
           To == BroadcastTo(s, d)
           Type(k) == LOGTYPE(s, k)
           Log(k) == IF exists(logs, Type(k))
                     THEN appendLogShell(logs[Type(k)], content)
                     ELSE AppendLogShells(NewLog(s), <<InitialContent(None), content>>)
           From(k) == IF exists(logs, Type(k))
                      THEN getCurrentSeqNum(logs[Type(k)]) + 1 ELSE 0
           list == [t \in DOMAIN logs \cup {Type(k) : k \in To} |->
                       IF t[1] = s /\ t[2] \in To THEN Log(t[2]) ELSE logs[t]]
           out == [m \in Nodes |->
                      LET k == getKeyByValue(map, m)
                      IN  IF k \in To THEN EntriesFrom(Log(k), From(k), Type(k)) ELSE << >>]
           new == [k \in To |-> Log(k)]
           from == [k \in To |-> From(k)]
<1>1. /\ IsAccepting(s, d) /\ content.function = "getContentFrom"
      /\ logPacket' = [logPacket EXCEPT ![s] = list]
      /\ Handling(s, d, out)
  BY DEF AcceptRequest, Accepts
<1>2. TypeInv /\ LogIntegrity /\ ContentsInv
  BY DEF IInv
<1>3. /\ Receiving(s, d) /\ s \in Nodes /\ content \in Contents
      /\ IsLogList(logs) /\ OwnLogsStay(s, logs)
  BY <1>1, <1>2, AcceptingReads
<1>4. To \subseteq Nodes
  BY <1>2, <1>3, SwitchReads DEF BroadcastTo, IsNeighbourMap
<1>5. Arrived(s, d).type \in LogTypes
  BY <1>1, <1>2, AcceptedFits
<1>6. Introduces(s, d, out)
  <2>1. content.function # "plugAndPlay"
    BY <1>1
  <2> QED BY <1>3, <2>1, NothingToIntroduce
<1> HIDE DEF logs, To, map, content
<1>7. ASSUME NEW k \in To
      PROVE  /\ Type(k) \in LogTypes /\ IsOwn(s, Type(k))
             /\ Type(k)[1] = s /\ Type(k)[2] = k
             /\ Log(k) \in Logs /\ IsNumbered(Log(k).log)
             /\ From(k) \in Int /\ From(k) = Len(CopyIn(logPacket[s], Type(k)))
  <2>1. /\ Type(k) \in LogTypes /\ IsOwn(s, Type(k)) /\ Type(k)[1] = s /\ Type(k)[2] = k
    <3>1. k \in Nodes
      BY <1>4
    <3>2. LOGTYPE(s, k)[1] = s /\ LOGTYPE(s, k)[2] = k
      BY DEF LOGTYPE
    <3> QED BY <1>3, <3>1, <3>2, OwnTypes
  <2> HIDE DEF Type
  <2>2. From(k) = Len(CopyIn(logPacket[s], Type(k)))
    BY <1>3, <2>1, NextNumber DEF exists
  <2>3. Len(CopyIn(logPacket[s], Type(k))) \in Nat
    BY <1>2, <1>3, CopyOfType
  <2> HIDE DEF From
  <2>4. CASE Type(k) \in DOMAIN logs
    <3> DEFINE old == logs[Type(k)]
               appended == appendLogShell(old, content)
    <3>1. Log(k) = appended
      BY <2>4 DEF exists
    <3>2. old \in Logs /\ IsNumbered(old.log)
      BY <1>3, <1>5, <2>4, ConcatenatedLogs DEF logs
    <3> HIDE DEF old
    <3>3. appended \in Logs /\ IsNumbered(appended.log)
      BY <1>3, <3>2, AppendingNumbersOne
    <3> HIDE DEF appended, Log
    <3> QED BY <2>1, <2>2, <2>3, <3>1, <3>3
  <2>5. CASE Type(k) \notin DOMAIN logs
    <3> DEFINE cs == <<InitialContent(None), content>>
               opened == AppendLogShells(NewLog(s), cs)
    <3>1. Log(k) = opened
      BY <2>5 DEF exists
    <3>2. InitialContent(None) \in Contents
      BY ContentShellType DEF InitialContent, Functions
    <3>3. cs \in Seq(Contents)
      BY <1>3, <3>2
    <3> HIDE DEF cs
    <3>4. NewLog(s) \in Logs /\ IsNumbered(NewLog(s).log)
      BY <1>3, NewLogIsNumbered
    <3>5. opened \in Logs /\ IsNumbered(opened.log)
      BY <3>3, <3>4, AppendingNumbers
    <3> HIDE DEF opened, Log
    <3> QED BY <2>1, <2>2, <2>3, <3>1, <3>5
  <2> QED BY <2>4, <2>5
<1>8. SameCopies(s, logs, list)
  <2>1. ASSUME NEW t \in LogTypes, ~(t[1] = s /\ t[2] \in To)
        PROVE  /\ t \in DOMAIN list <=> t \in DOMAIN logs
               /\ t \in DOMAIN logs => list[t] = logs[t]
    <3>1. t \notin {Type(k) : k \in To}
      BY <1>7, <2>1, ZenonT(60)
    <3> QED BY <2>1, <3>1
  <2> HIDE DEF list
  <2> QED BY <1>4, <2>1, OwnReplaced
<1>9. ListsStep(s, d)
  <2> HIDE DEF list
  <2> QED BY <1>1, <1>3, <1>5, <1>8, ConcatenatingStep DEF logs
<1> HIDE DEF list
<1>10. /\ new \in [To -> Logs] /\ from \in [To -> Int]
       /\ \A k \in To : new[k] = Log(k) /\ from[k] = From(k)
  <2> HIDE DEF Log, From, Type
  <2> QED BY <1>7
<1>11. \A k \in To : /\ IsNumbered(new[k].log)
                     /\ from[k] = Len(CopyIn(logPacket[s], LOGTYPE(s, k)))
  <2> HIDE DEF Log, From, new, from
  <2> QED BY <1>7, <1>10
<1>12. out = [m \in Nodes |->
                 LET k == getKeyByValue(map, m)
                 IN  IF k \in To THEN EntriesFrom(new[k], from[k], LOGTYPE(s, k)) ELSE << >>]
  <2> HIDE DEF Log, From, new, from
  <2> QED BY <1>10
<1> HIDE DEF out, new, from, Log, From, Type
<1>13. Sends(s, d, map, out) /\ IsDirect(out)
  BY <1>3, <1>4, <1>10, <1>11, <1>12, AppendedSends, SMTT(60) DEF map
<1>14. Exchange(s, d, out)
  BY <1>1, <1>3, <1>6, <1>9, <1>13, HandlingIsExchange DEF map
<1> QED
  BY <1>13, <1>14

LEMMA AcceptUnsubscribeExchange ==
    ASSUME IInv, NEW s \in Switches, NEW d, AcceptUnsubscribe(s, d)
    PROVE  \E out : Exchange(s, d, out) /\ IsDirect(out)
<1> DEFINE content == Arrived(s, d).shell.shell
           map == Known(s, d)
           cancelled == <<content.params, Arrived(s, d).shell.authorId>>
           left == interestedNeighbours[s] (-) SetToBag({cancelled})
           Subscribers == {p[2] : p \in {q \in DOMAIN left : q[1] # q[2]}}
           Forwarding == \E p \in DOMAIN left : p[2] \notin Users
           old == Concatenated(s, d)
           dropped == ContentOf(content.params)
           logs == IF Forwarding THEN Without(old, dropped) ELSE old
           To == IF Forwarding THEN {k \in Subscribers : exists(logs, LOGTYPE(s, k))} ELSE {}
           Log(k) == AppendLogShells(logs[LOGTYPE(s, k)],
                         [i \in 1..InterestsOf(left, k) |-> content])
           From(k) == getCurrentSeqNum(logs[LOGTYPE(s, k)]) + 1
           list == [t \in DOMAIN logs |->
                       IF t[1] = s /\ t[2] \in To THEN Log(t[2]) ELSE logs[t]]
           out == [m \in Nodes |->
                      LET k == getKeyByValue(map, m)
                      IN  IF k \in To THEN EntriesFrom(Log(k), From(k), LOGTYPE(s, k)) ELSE << >>]
           new == [k \in To |-> Log(k)]
           from == [k \in To |-> From(k)]
<1>1. /\ IsAccepting(s, d) /\ content.function = "removeUserFromInl"
      /\ logPacket' = [logPacket EXCEPT ![s] = list]
      /\ Handling(s, d, out)
  BY DEF AcceptUnsubscribe
<1>2. TypeInv /\ LogIntegrity /\ ContentsInv
  BY DEF IInv
<1>3. /\ Receiving(s, d) /\ s \in Nodes /\ content \in Contents
      /\ IsLogList(old) /\ OwnLogsStay(s, old)
  BY <1>1, <1>2, AcceptingReads
<1>4. Arrived(s, d).type \in LogTypes
  BY <1>1, <1>2, AcceptedFits
<1>5. IsInterests(left)
  <2> HIDE DEF cancelled
  <2> QED BY <1>2, CancelledType DEF TypeInv, InterestsOK
<1>6. Introduces(s, d, out)
  <2>1. content.function # "plugAndPlay"
    BY <1>1
  <2> HIDE DEF content, out
  <2> QED BY <1>3, <2>1, NothingToIntroduce DEF content
<1>7. /\ IsLogList(logs) /\ OwnLogsStay(s, logs) /\ SameCopies(s, old, logs)
      /\ \A t \in DOMAIN logs : logs[t] \in Logs /\ IsNumbered(logs[t].log)
  <2>1. dropped \notin DOMAIN old
    BY <1>1, <1>2, NothingToRemove
  <2>2. \A t \in DOMAIN old : old[t] \in Logs /\ IsNumbered(old[t].log)
    BY <1>3, <1>4, ConcatenatedLogs
  <2> DEFINE rest == Without(old, dropped)
  <2> HIDE DEF old, dropped, rest
  <2>3. /\ IsLogList(rest) /\ DOMAIN rest = DOMAIN old
        /\ \A t \in DOMAIN old : rest[t] = old[t]
    BY <1>3, <2>1, WithoutType, SMTT(60) DEF rest
  <2>4. OwnLogsStay(s, rest) /\ SameCopies(s, old, rest)
    BY <1>3, <2>3 DEF OwnLogsStay, SameCopies, SameCopy
  <2> QED BY <1>3, <2>2, <2>3, <2>4, SameListCopies DEF rest
<1> HIDE DEF content, map, left, old, logs, Forwarding
<1>8. ASSUME NEW k \in To
      PROVE  /\ LOGTYPE(s, k) \in DOMAIN logs /\ LOGTYPE(s, k) \in LogTypes
             /\ IsOwn(s, LOGTYPE(s, k)) /\ k \in Nodes
  <2>1. LOGTYPE(s, k) \in DOMAIN logs /\ k \in Subscribers
    BY DEF exists
  <2>2. LOGTYPE(s, k) \in LogTypes
    BY <1>7, <2>1, LogOfList
  <2>3. k \in Nodes \cup {None}
    BY <1>5, <2>1 DEF IsInterests
  <2>4. k \in Nodes
    BY <2>2, <2>3, Identifiers DEF LOGTYPE, LogTypes
  <2> QED BY <1>3, <2>1, <2>2, <2>4, OwnTypes
<1> HIDE DEF To, Subscribers
<1>9. ASSUME NEW k \in To
      PROVE  /\ Log(k) \in Logs /\ IsNumbered(Log(k).log)
             /\ From(k) \in Int /\ From(k) = Len(CopyIn(logPacket[s], LOGTYPE(s, k)))
  <2> DEFINE t == LOGTYPE(s, k)
             log == logs[t]
             n == InterestsOf(left, k)
             copies == [i \in 1..n |-> content]
             appended == AppendLogShells(log, copies)
  <2>1. Log(k) = appended
    OBVIOUS
  <2>2. log \in Logs /\ IsNumbered(log.log)
    BY <1>7, <1>8
  <2>3. From(k) = Len(CopyIn(logPacket[s], t)) /\ Len(CopyIn(logPacket[s], t)) \in Nat
    BY <1>2, <1>3, <1>7, <1>8, NextNumber, CopyOfType
  <2> HIDE DEF log, From
  <2>4. n \in Nat
    BY <1>5, InterestsOfType
  <2> HIDE DEF n
  <2>5. copies \in [1..n -> Contents]
    BY <1>3
  <2> HIDE DEF copies
  <2>6. copies \in Seq(Contents)
    BY <2>4, <2>5, FunctionIsSeq
  <2>7. appended \in Logs /\ IsNumbered(appended.log)
    BY <2>2, <2>6, AppendingNumbers
  <2> HIDE DEF appended, Log, t
  <2> QED BY <2>1, <2>3, <2>7 DEF t
<1>10. SameCopies(s, logs, list)
  <2>1. ASSUME NEW t \in LogTypes, ~(t[1] = s /\ t[2] \in To)
        PROVE  /\ t \in DOMAIN list <=> t \in DOMAIN logs
               /\ t \in DOMAIN logs => list[t] = logs[t]
    BY <2>1
  <2>2. To \subseteq Nodes
    BY <1>8
  <2> HIDE DEF list
  <2> QED BY <2>1, <2>2, OwnReplaced
<1> HIDE DEF list
<1>11. SameCopies(s, old, list)
  BY <1>7, <1>10 DEF SameCopies, SameCopy
<1>12. ListsStep(s, d)
  BY <1>1, <1>3, <1>4, <1>11, ConcatenatingStep DEF old
<1> HIDE DEF Log, From
<1>13. /\ new \in [To -> Logs] /\ from \in [To -> Int] /\ To \subseteq Nodes
       /\ \A k \in To : new[k] = Log(k) /\ from[k] = From(k)
  BY <1>8, <1>9
<1> HIDE DEF new, from
<1>14. \A k \in To : /\ IsNumbered(new[k].log)
                     /\ from[k] = Len(CopyIn(logPacket[s], LOGTYPE(s, k)))
  BY <1>9, <1>13
<1>15. out = [m \in Nodes |->
                 LET k == getKeyByValue(map, m)
                 IN  IF k \in To THEN EntriesFrom(new[k], from[k], LOGTYPE(s, k)) ELSE << >>]
  BY <1>13
<1> HIDE DEF out
<1>16. Sends(s, d, map, out) /\ IsDirect(out)
  BY <1>3, <1>13, <1>14, <1>15, AppendedSends, SMTT(60) DEF map
<1>17. Exchange(s, d, out)
  BY <1>1, <1>3, <1>6, <1>12, <1>16, HandlingIsExchange DEF map
<1> QED
  BY <1>16, <1>17

-----------------------------------------------------------------------------
(* Published content *)

\* Copies of a packet that is not a request.
LEMMA RepeatedOutgoing ==
    ASSUME NEW n, NEW d, NEW m, NEW p \in Packets, NEW k \in Nat,
           n \in Users \cup {ManagerId} => p.shell.authorId = n,
           IsSendable(n, d, m, p.type), ~IsRequestLog(p.type)
    PROVE  LET ps == [i \in 1..k |-> p]
           IN  ps \in Seq(Packets) /\ IsOutgoing(n, d, m, ps)
<1> DEFINE ps == [i \in 1..k |-> p]
<1>1. ps \in [1..k -> Packets] /\ \A i \in 1..k : ps[i] = p
  OBVIOUS
<1> HIDE DEF ps
<1>2. ps \in Seq(Packets) /\ Len(ps) = k
  BY <1>1, FunctionIsSeq
<1>3. \A i \in 1..Len(ps) : ps[i] = p
  BY <1>1, <1>2
<1>4. <<n, m>>[1] = n /\ <<n, m>>[2] = m
  OBVIOUS
<1>5. IsRouted(<<n, m>>, p) /\ (p.type[2] = USER_ALL => IsAtHand(n, d, p.type))
  BY <1>4 DEF IsSendable, IsRelayed, IsRouted
<1>6. IsAhead(logPacket[n], ps) /\ IsAscending(ps)
  BY <1>3 DEF IsAhead, IsAscending
<1>7. IsOutgoing(n, d, m, ps)
  BY <1>3, <1>5, <1>6 DEF IsOutgoing
<1> QED
  BY <1>2, <1>7 DEF ps

LEMMA ForwardedSends ==
    ASSUME IInv, NEW s \in Switches, NEW d, Receiving(s, d), ForUser(Arrived(s, d).type),
           NEW interests, IsInterests(interests)
    PROVE  Sends(s, d, Known(s, d), Forwarded(Known(s, d), interests, Arrived(s, d), d))
<1> DEFINE map == Known(s, d)
           p == Arrived(s, d)
           out == Forwarded(map, interests, p, d)
<1>1. /\ s \notin Users \cup {ManagerId} /\ IsNaming(map) /\ p \in Packets /\ d # None
  BY ReadingParts, Identifiers
<1>2. IsRelayed(p.type) /\ p.type[2] = USER_ALL
  BY ForUserIsPublished
<1>3. ~IsRequestLog(p.type)
  BY <1>2, Identifiers DEF IsRequestLog, USER_ALL, SWITCH_ALL
<1>4. \A m \in Nodes : IsSendable(s, d, m, p.type)
  BY <1>1, <1>2 DEF IsSendable, IsAtHand
<1> HIDE DEF map, p
<1>5. ASSUME NEW m \in Nodes
      PROVE  /\ out[m] \in Seq(Packets) /\ IsOutgoing(s, d, m, out[m])
             /\ out[m] # << >> => m \in DOMAIN map
  <2> DEFINE k == getKeyByValue(map, m)
             interest == <<p.type[1], k>>
             copies == [i \in 1..interests[interest] |-> p]
             sent == interest \in DOMAIN interests /\ k # None /\ k # p.type[1] /\ m # d
  <2>1. out[m] = IF sent THEN copies ELSE << >>
    BY DEF Forwarded
  <2>2. k # None => m \in DOMAIN map
    BY <1>1, KeyOfNaming
  <2>3. CASE sent
    <3>1. interests[interest] \in Nat
      BY <2>3 DEF IsInterests
    <3> DEFINE count == interests[interest]
    <3> HIDE DEF interest
    <3>2. copies \in Seq(Packets) /\ IsOutgoing(s, d, m, copies)
      <4> HIDE DEF count
      <4>1. count \in Nat
        BY <3>1 DEF count
      <4> DEFINE repeated == [i \in 1..count |-> p]
      <4>2. repeated \in Seq(Packets) /\ IsOutgoing(s, d, m, repeated)
        BY <1>1, <1>3, <1>4, <4>1, RepeatedOutgoing
      <4> QED BY <4>2 DEF count
    <3> HIDE DEF out, copies
    <3> QED BY <2>1, <2>2, <2>3, <3>2
  <2>4. CASE ~sent
    <3>1. out[m] = << >> /\ << >> \in Seq(Packets)
      BY <2>1, <2>4
    <3> QED BY <3>1, EmptyOutgoing
  <2> QED BY <2>3, <2>4
<1>6. out \in [Nodes -> Seq(Packets)]
  <2>1. out = [m \in Nodes |-> out[m]]
    BY DEF Forwarded
  <2> HIDE DEF out
  <2> QED BY <1>5, <2>1
<1> HIDE DEF out
<1>7. Sends(s, d, map, out)
  BY <1>5, <1>6 DEF Sends
<1> QED
  BY <1>7 DEF out, map, p

LEMMA ReceiveContentExchange ==
    ASSUME IInv, NEW s \in Switches, NEW d, ReceiveContent(s, d)
    PROVE  \E out : Exchange(s, d, out)
<1> DEFINE p == Arrived(s, d)
           map == Known(s, d)
           own == <<p.shell.authorId, getKeyByValue(map, d)>>
           interests == IF own \in DOMAIN interestedNeighbours[s]
                        THEN interestedNeighbours[s]
                        ELSE Interested(interestedNeighbours[s], own[1], own[2])
           accepted == isEntryConcatenated(logPacket[s], p.type, p.shell)
           out == IF accepted THEN Forwarded(map, interests, p, d) ELSE Nothing
<1>1. /\ Receiving(s, d) /\ ForUser(p.type)
      /\ p.shell.shell.function = "pushContent"
      /\ logPacket' = [logPacket EXCEPT ![s] = Concatenated(s, d)]
      /\ Handling(s, d, out)
  BY DEF ReceiveContent
<1>2. TypeInv /\ p.shell \in Entries /\ s \in Nodes
  BY <1>1, ReadingParts
<1>3. p.type \in LogTypes
  BY <1>1, ForUserIsPublished
<1>4. ListsStep(s, d)
  BY <1>1, <1>3, SameListCopies, ConcatenatingStep
<1>5. Introduces(s, d, out)
  BY <1>1, NothingToIntroduce
<1>6. IsInterests(interests)
  <2>1. IsInterests(interestedNeighbours[s])
    BY <1>2 DEF TypeInv, InterestsOK
  <2>2. own[1] \in Nodes /\ own[2] \in Nodes \cup {None}
    <3>1. IsNeighbourMap(map)
      BY <1>1, <1>2, SwitchReads
    <3> HIDE DEF map
    <3>2. getKeyByValue(map, d) \in Nodes \cup {None}
      BY <3>1, getKeyByValueType
    <3> QED BY <1>2, <3>2, EntryType
  <2> HIDE DEF own
  <2> QED BY <2>1, <2>2, InterestedType
<1> HIDE DEF interests, accepted
<1>7. Sends(s, d, map, out)
  BY <1>1, <1>6, ForwardedSends, NothingSends
<1> HIDE DEF out
<1>8. Exchange(s, d, out)
  BY <1>1, <1>4, <1>5, <1>7, HandlingIsExchange
<1> QED
  BY <1>8

LEMMA ReceiveUserGossipExchange ==
    ASSUME IInv, NEW s \in Switches, NEW d, ReceiveUserGossip(s, d)
    PROVE  \E out : Exchange(s, d, out)
<1> DEFINE p == Arrived(s, d)
           t == p.type
           l == logPacket[s][t]
           map == Known(s, d)
           receiver == getKeyByValue(map, d)
           from == p.shell.sequenceNum
           out == IF IsAheadOf(s, d) THEN sendEntryFromIndexTo(l, map, receiver, from, t)
                  ELSE Nothing
<1>1. /\ Receiving(s, d) /\ ForUser(t) /\ Handling(s, d, out) /\ UNCHANGED logPacket
  BY DEF ReceiveUserGossip
<1>2. /\ TypeInv /\ LogIntegrity /\ s \in Nodes /\ s \notin Users \cup {ManagerId}
      /\ IsNaming(map) /\ p.shell \in Entries
  BY <1>1, ReadingParts
<1>3. t \in LogTypes /\ IsRelayed(t)
  BY <1>1, ForUserIsPublished
<1>4. ListsStep(s, d)
  BY <1>1, <1>2, SameListsStep
<1>5. Introduces(s, d, out)
  BY <1>1, NothingToIntroduce
<1>6. Sends(s, d, map, out)
  <2>1. CASE IsAheadOf(s, d)
    <3>1. t \in DOMAIN logPacket[s]
      BY <2>1 DEF IsAheadOf, exists
    <3>2. l \in Logs /\ l.log \in Seq(Entries) /\ from \in Int
      BY <1>2, <3>1, ListType, EntryType
    <3>3. IsNumbered(l.log)
      <4>1. IsWritten(t) /\ IsPrefix(l.log, WrittenLog(t)) /\ IsNumbered(WrittenLog(t))
        BY <1>2, <1>3, <3>1 DEF LogIntegrity
      <4>2. WrittenLog(t) \in Seq(Entries)
        BY <1>2, <1>3, <4>1, WrittenLogType
      <4> QED BY <3>2, <4>1, <4>2, NumberedPrefix
    <3>4. IsAuthored(s, l.log) /\ IsAtHand(s, d, t)
      BY <1>2, <3>1 DEF IsAuthored, IsAtHand
    <3> DEFINE sent == sendEntryFromIndexTo(l, map, receiver, from, t)
    <3>5. out = sent
      BY <2>1
    <3> HIDE DEF l, map, receiver, from, t, out
    <3>6. Sends(s, d, map, sent)
      BY <1>2, <1>3, <3>2, <3>3, <3>4, SendEntrySends
    <3> QED BY <3>5, <3>6
  <2>2. CASE ~IsAheadOf(s, d)
    <3>1. out = Nothing
      BY <2>2
    <3> HIDE DEF out
    <3> QED BY <3>1, NothingSends
  <2> QED BY <2>1, <2>2
<1> HIDE DEF out
<1>7. Exchange(s, d, out)
  BY <1>1, <1>4, <1>5, <1>6, HandlingIsExchange
<1> QED
  BY <1>7

LEMMA ReceiveSwitchExchange ==
    ASSUME IInv, NEW s \in Switches, NEW d, ReceiveSwitch(s, d)
    PROVE  \E out : Exchange(s, d, out)
  BY DropPacketExchange, ServeRequestExchange, AnswerSwitchGossipExchange,
     RejectEntryExchange, AcceptMemberExchange, AcceptPlugAndPlayExchange,
     AcceptRequestExchange, AcceptUnsubscribeExchange, AcceptOtherExchange,
     ReceiveContentExchange, ReceiveUserGossipExchange DEF ReceiveSwitch

-----------------------------------------------------------------------------
(* Gossip, and what the schedule calls *)

LEMMA GossipExchange ==
    ASSUME IInv, NEW s \in Switches, NEW t, Gossip(s, t)
    PROVE  \E out : Exchange(s, None, out)
<1> DEFINE log == logPacket[s][t]
           shown == IF empty(log) THEN FakeEntry(s) ELSE getLastEntry(log)
           map == neighbourMap[s]
           packet == NetShell(t, 1, shown)
           W == DOMAIN map
           out == [m \in Nodes |->
                      IF getKeyByValue(map, m) # None THEN <<packet>> ELSE << >>]
<1>1. /\ s \in started /\ gossipTimers[s] > 0 /\ t \in DOMAIN logPacket[s] /\ IsSubscription(t)
      /\ channel' = Sending(channel, s, out)
      /\ UNCHANGED <<logPacket, neighbourMap, started>>
  BY DEF Gossip, Running
<1>2. TypeInv /\ s \in Nodes /\ s \notin Users \cup {ManagerId}
  BY Identifiers DEF IInv
<1>3. manager[s] = ManagerId
  BY <1>1, <1>2 DEF TypeInv, ManagerOK, TimersFollowManager
<1>4. log \in Logs /\ t \in LogTypes
  BY <1>1, <1>2, ListType
<1>5. packet \in Packets /\ packet.type = t
  <2>1. ContentShell("f", "p", 0) \in Contents
    BY ContentShellType DEF Functions
  <2>2. FakeEntry(s) \in Entries
    BY <1>3, <2>1, Identifiers DEF FakeEntry, LogShell, Entries, NoHash, NoSignature
  <2>3. shown \in Entries
    BY <1>4, <2>2, LogType
  <2> HIDE DEF shown
  <2> QED BY <1>4, <2>3, NetShellType DEF NetShell
<1>6. IsRelayed(t) /\ ~IsRequestLog(t)
  <2>1. t = <<t[1], t[2]>>
    BY <1>4 DEF LogTypes
  <2> QED
    BY <1>1, <2>1, Identifiers
    DEF IsSubscription, IsRelayed, IsRequestLog, MyType, LOGTYPE, USER_ALL, SWITCH_ALL
<1>7. \A m : IsSendable(s, None, m, t)
  BY <1>1, <1>6 DEF IsSendable, IsAtHand
<1>8. IsNaming(map)
  BY <1>2, NamesAre
<1> HIDE DEF packet, map
<1>9. out = [m \in Nodes |-> IF m \in W THEN <<packet>> ELSE << >>]
  <2>1. \A m \in Nodes : getKeyByValue(map, m) = IF m \in DOMAIN map THEN m ELSE None
    BY <1>8, KeyOfNaming
  <2> QED BY <2>1, Identifiers
<1> HIDE DEF out
<1>10. Sends(s, None, map, out)
  BY <1>2, <1>5, <1>6, <1>7, <1>9, OneEachSends
<1>11. ListsStep(s, None)
  BY <1>1, <1>2, SameListsStep
<1>12. Exchange(s, None, out)
  BY <1>1, <1>10, <1>11, CallIsExchange DEF map
<1> QED
  BY <1>12

LEMMA ToNeighboursSends ==
    ASSUME IInv, NEW u \in Users, NEW p \in Packets, p.shell.authorId = u,
           p.type \in {SwitchLog(u), ContentOf(u)},
           IsRequestLog(p.type) => p.shell.sequenceNum >= Len(CopyIn(logPacket[u], p.type))
    PROVE  Sends(u, None, neighbourMap[u], ToNeighbours(u, <<p>>))
<1> DEFINE map == neighbourMap[u]
           W == DOMAIN map
           out == ToNeighbours(u, <<p>>)
<1>1. IsNaming(map)
  BY NamesAre, Identifiers
<1>2. \A m : IsSendable(u, None, m, p.type)
  <2>1. SWITCH_ALL \notin Nodes /\ SWITCH_ALL # USER_ALL
    BY Identifiers DEF SWITCH_ALL, USER_ALL
  <2>2. SwitchLog(u)[1] = u /\ SwitchLog(u)[2] = SWITCH_ALL
    BY DEF SwitchLog, LOGTYPE
  <2>3. ContentOf(u)[1] = u /\ ContentOf(u)[2] = USER_ALL
    BY ContentTypes
  <2>4. CASE p.type = SwitchLog(u)
    BY <2>1, <2>2, <2>4 DEF IsSendable
  <2>5. CASE p.type = ContentOf(u)
    BY <2>3, <2>5 DEF IsSendable, IsRelayed, IsAtHand
  <2> QED
    BY <2>4, <2>5
<1>3. out = [m \in Nodes |-> IF getKeyByValue(map, m) # None THEN <<p>> ELSE << >>]
  BY DEF ToNeighbours
<1> HIDE DEF map, out
<1>4. out = [m \in Nodes |-> IF m \in W THEN <<p>> ELSE << >>]
  <2>1. \A m \in Nodes : getKeyByValue(map, m) = IF m \in DOMAIN map THEN m ELSE None
    BY <1>1, KeyOfNaming
  <2> QED BY <1>3, <2>1, Identifiers
<1>5. Sends(u, None, map, out)
  BY <1>2, <1>4, OneEachSends
<1> QED
  BY <1>5 DEF map, out

\* A node that changes its own logs, or gives up what is published.
LEMMA OwnListsStep ==
    ASSUME TypeInv, NEW n \in Nodes, NEW list, logPacket' = [logPacket EXCEPT ![n] = list],
           \A t \in LogTypes : ~IsOwn(n, t) => \/ SameCopy(n, logPacket[n], list, t)
                                               \/ t[2] = USER_ALL /\ t \notin DOMAIN list
    PROVE  ListsStep(n, None)
<1>1. logPacket'[n] = list /\ \A m \in Nodes \ {n} : logPacket'[m] = logPacket[m]
  BY ReplacingList DEF ListReplaced
<1> QED
  BY <1>1 DEF ListsStep

\* The next entry of a user's log for the switches.
LEMMA ToldIs ==
    ASSUME IInv, NEW u \in Users \cap started,
           NEW f \in Requests, NEW a \in Users,
           NEW log, log = appendLogShell(logPacket[u][SwitchLog(u)], ContentShell(f, a, 0))
    PROVE  /\ log \in Logs /\ u \in Nodes /\ SwitchLog(u) \in DOMAIN logPacket[u]
           /\ Sends(u, None, neighbourMap[u],
                    ToNeighbours(u, <<NetShell(SwitchLog(u), 0, getLastEntry(log))>>))
<1> DEFINE t == SwitchLog(u)
           l == logPacket[u][t]
           e == getLastEntry(log)
           p == NetShell(t, 0, e)
<1>1. TypeInv /\ LogIntegrity /\ ContentsInv
  BY DEF IInv
<1>2. u \in Nodes /\ t \in LogTypes /\ t \in DOMAIN logPacket[u] /\ l \in Logs /\ IsOwn(u, t)
  BY <1>1, SwitchLogType, OwnTypes
<1>3. l.owner = u
  BY <1>1, <1>2 DEF ContentsInv, OwnLogsFit
<1>4. ContentShell(f, a, 0) \in Contents
  BY Identifiers, ContentShellType DEF Functions, Requests
<1> HIDE DEF l, t
<1>5. /\ log \in Logs /\ e \in Entries /\ e.authorId = u
      /\ e.sequenceNum = getCurrentSeqNum(l) + 1
  BY <1>2, <1>3, <1>4, appendLogShellType DEF l, t
<1>6. LogsOK
  BY <1>1, IntegrityParts
<1>7. OwnLogsStay(u, logPacket[u])
  BY <1>2, <1>6, SameList
<1>8. getCurrentSeqNum(l) + 1 = Len(CopyIn(logPacket[u], t))
  BY <1>2, <1>7, NextNumber DEF l
<1>9. Len(CopyIn(logPacket[u], t)) \in Nat
  BY <1>1, <1>2, CopyOfType
<1> HIDE DEF e
<1>10. p \in Packets /\ p.type = t /\ p.shell = e
  BY <1>2, <1>5, NetShellType DEF NetShell
<1> HIDE DEF p
<1>11. p.shell.sequenceNum >= Len(CopyIn(logPacket[u], p.type))
  BY <1>5, <1>8, <1>9, <1>10
<1>12. Sends(u, None, neighbourMap[u], ToNeighbours(u, <<p>>))
  BY <1>5, <1>10, <1>11, ToNeighboursSends DEF t
<1> QED
  BY <1>2, <1>5, <1>12 DEF p, e, t

LEMMA CallSubscribeExchange ==
    ASSUME IInv, NEW u \in Users, NEW a \in Users, CallSubscribe(u, a)
    PROVE  \E out : Exchange(u, None, out)
<1> DEFINE t == SwitchLog(u)
           log == appendLogShell(logPacket[u][SwitchLog(u)], ContentShell("getContentFrom", a, 0))
           out == ToNeighbours(u, <<NetShell(SwitchLog(u), 0, getLastEntry(log))>>)
           list == [logPacket[u] EXCEPT ![t] = log]
<1>1. /\ u \in started /\ neighbourMap[u] # << >>
      /\ UNCHANGED <<neighbourMap, started>>
      /\ logPacket' = [logPacket EXCEPT ![u][SwitchLog(u)] = log]
      /\ channel' = Sending(channel, u, out)
  BY DEF CallSubscribe, Subscribe, Telling, Running, PlugAndPlayOver
<1>2. TypeInv
  BY DEF IInv
<1>3. log \in Logs /\ u \in Nodes /\ t \in DOMAIN logPacket[u] /\ Sends(u, None, neighbourMap[u], out)
  BY <1>1, ToldIs DEF Requests
<1>4. logPacket' = [logPacket EXCEPT ![u] = list]
  BY <1>1
<1>5. IsOwn(u, t)
  BY OwnTypes
<1> HIDE DEF log, out, t
<1>6. \A v \in LogTypes : ~IsOwn(u, v) => SameCopy(u, logPacket[u], list, v)
  BY <1>3, <1>5 DEF SameCopy
<1> HIDE DEF list
<1>7. ListsStep(u, None)
  BY <1>2, <1>3, <1>4, <1>6, OwnListsStep
<1>8. Exchange(u, None, out)
  BY <1>1, <1>3, <1>7, CallIsExchange
<1> QED
  BY <1>8

LEMMA CallUnsubscribeExchange ==
    ASSUME IInv, NEW u \in Users, NEW a \in Users, CallUnsubscribe(u, a)
    PROVE  \E out : Exchange(u, None, out)
<1> DEFINE t == SwitchLog(u)
           type == LOGTYPE(a, USER_ALL)
           log == appendLogShell(logPacket[u][SwitchLog(u)],
                                 ContentShell("removeUserFromInl", a, 0))
           out == ToNeighbours(u, <<NetShell(SwitchLog(u), 0, getLastEntry(log))>>)
           told == IF neighbourMap[u] = << >> THEN logPacket[u]
                   ELSE [logPacket[u] EXCEPT ![t] = log]
           list == Without(told, type)
<1>1. /\ u \in started /\ UNCHANGED <<neighbourMap, started>>
      /\ logPacket' = [logPacket EXCEPT ![u] = list]
      /\ channel' = Sending(channel, u, out)
  BY DEF CallUnsubscribe, Unsubscribe, Running
<1>2. TypeInv
  BY DEF IInv
<1>3. log \in Logs /\ u \in Nodes /\ t \in DOMAIN logPacket[u] /\ Sends(u, None, neighbourMap[u], out)
  BY <1>1, ToldIs DEF Requests
<1>4. IsOwn(u, t) /\ type[2] = USER_ALL /\ IsLogList(logPacket[u])
  BY <1>2, <1>3, OwnTypes, ListType DEF LOGTYPE
<1> HIDE DEF log, out, t, type
<1>5. /\ DOMAIN told = DOMAIN logPacket[u]
      /\ \A v \in DOMAIN told : v # t => told[v] = logPacket[u][v]
  BY <1>3
<1> HIDE DEF told
<1>6. DOMAIN list = DOMAIN told \ {type} /\ \A v \in DOMAIN told \ {type} : list[v] = told[v]
  BY DEF Without
<1> HIDE DEF list
<1>7. \A v \in LogTypes : ~IsOwn(u, v) => \/ SameCopy(u, logPacket[u], list, v)
                                          \/ v[2] = USER_ALL /\ v \notin DOMAIN list
  BY <1>4, <1>5, <1>6 DEF SameCopy
<1>8. ListsStep(u, None)
  BY <1>1, <1>2, <1>3, <1>7, OwnListsStep
<1>9. Exchange(u, None, out)
  BY <1>1, <1>3, <1>8, CallIsExchange
<1> QED
  BY <1>9

LEMMA CallPushExchange ==
    ASSUME IInv, NEW u \in Users, CallPush(u)
    PROVE  \E out : Exchange(u, None, out)
<1> DEFINE content == ContentShell("pushContent", None, Len(myPersonalLog[u].log))
           log == appendLogShell(myPersonalLog[u], content)
           e == getLastEntry(log)
           p == NetShell(OwnLog(u), 0, e)
           out == ToNeighbours(u, <<p>>)
<1>1. /\ u \in started /\ UNCHANGED <<logPacket, neighbourMap, started>>
      /\ channel' = Sending(channel, u, out)
  BY DEF CallPush, PushLogToSwitch, Running
<1>2. TypeInv /\ ContentsInv /\ u \in Nodes
  BY Identifiers DEF IInv
<1>3. myPersonalLog[u] \in Logs /\ myPersonalLog[u].owner = u
  BY <1>2, PersonalType DEF ContentsInv, PersonalFits
<1>4. content \in Contents
  BY <1>3, LogType, ContentShellType DEF Functions
<1> HIDE DEF content
<1>5. e \in Entries /\ e.authorId = u
  BY <1>3, <1>4, appendLogShellType
<1>6. OwnLog(u) = ContentOf(u) /\ ContentOf(u) \in LogTypes /\ ~IsRequestLog(ContentOf(u))
  BY ContentTypes DEF OwnLog, ContentOf
<1> HIDE DEF e, log
<1>7. p \in Packets /\ p.type = ContentOf(u) /\ p.shell = e
  BY <1>5, <1>6, NetShellType DEF NetShell
<1> HIDE DEF p
<1>8. Sends(u, None, neighbourMap[u], out)
  BY <1>5, <1>6, <1>7, ToNeighboursSends
<1> HIDE DEF out
<1>9. ListsStep(u, None)
  BY <1>1, <1>2, SameListsStep
<1>10. Exchange(u, None, out)
  BY <1>1, <1>8, <1>9, CallIsExchange
<1> QED
  BY <1>10

-----------------------------------------------------------------------------
(* Users: what they read *)

\* What a user knows of the packet it reads.
LEMMA UserReadingParts ==
    ASSUME IInv, NEW u \in Users, NEW d, Receiving(u, d)
    PROVE  /\ TypeInv /\ LogIntegrity /\ ContentsInv /\ LogsOK
           /\ u \in Nodes /\ u # ManagerId /\ u \notin Switches /\ Arriving(u, d)
           /\ d \in Nodes /\ Arrived(u, d) \in Packets /\ Arrived(u, d).shell \in Entries
           /\ Arrived(u, d).shell.sequenceNum \in Int
           /\ IsRouted(<<d, u>>, Arrived(u, d))
           /\ IsNaming(Learnt(u, d)) /\ DOMAIN Learnt(u, d) = DOMAIN neighbourMap[u] \cup {d}
<1>1. TypeInv /\ LogIntegrity /\ ContentsInv /\ Routing
  BY DEF IInv, NamingInv
<1>2. u \in Nodes /\ u # ManagerId /\ u \notin Switches
  BY Identifiers
<1>3. Arriving(u, d)
  BY DEF Receiving
<1>4. d \in Nodes /\ Arrived(u, d) \in Packets /\ Arrived(u, d).shell \in Entries
  BY <1>1, <1>3, ArrivedType
<1>5. IsRouted(<<d, u>>, Arrived(u, d))
  BY <1>1, <1>3, ArrivedIsRouted
<1>6. IsNaming(Learnt(u, d)) /\ DOMAIN Learnt(u, d) = DOMAIN neighbourMap[u] \cup {d}
  BY <1>2, LearntNames DEF Learnt
<1>7. LogsOK /\ Arrived(u, d).shell.sequenceNum \in Int
  BY <1>1, <1>4, IntegrityParts, EntryType
<1> QED
  BY <1>1, <1>2, <1>3, <1>4, <1>5, <1>6, <1>7

LEMMA ReadingExchange ==
    ASSUME IInv, NEW u \in Users, NEW d, Receiving(u, d),
           NEW map, IsNaming(map), DOMAIN map = DOMAIN neighbourMap[u] \cup {d},
           NEW out, Sends(u, d, map, out), Reading(u, d, map, out), ListsStep(u, d)
    PROVE  Exchange(u, d, out)
<1>1. u \in Nodes /\ u \notin Switches
  BY Identifiers
<1>2. Introduces(u, d, out)
  BY <1>1 DEF Introduces
<1>3. /\ neighbourMap' = [neighbourMap EXCEPT ![u] = map]
      /\ channel' = Sending(Taking(u, d), u, out) /\ UNCHANGED started
  BY DEF Reading
<1>4. /\ d \in DOMAIN map /\ DOMAIN neighbourMap[u] \subseteq DOMAIN map
      /\ DOMAIN map \subseteq DOMAIN neighbourMap[u] \cup {d}
  OBVIOUS
<1> QED
  BY <1>1, <1>2, <1>3, <1>4, ReadingIsExchange

\* What a user answers about its own log.
LEMMA OwnAnswerSends ==
    ASSUME IInv, NEW u \in Users, NEW d, Receiving(u, d)
    PROVE  Sends(u, d, Learnt(u, d), OwnAnswer(u, d))
<1> DEFINE l == myPersonalLog[u]
           t == ContentOf(u)
           map == Learnt(u, d)
           from == Arrived(u, d).shell.sequenceNum
           receiver == getKeyByValue(map, d)
<1>1. CASE Arrived(u, d).type = OwnLog(u)
  <2>1. TypeInv /\ LogsOK /\ ContentsInv /\ from \in Int /\ IsNaming(map)
    BY UserReadingParts
  <2>2. l \in Logs /\ IsNumbered(l.log)
    BY <2>1, PersonalType, PersonalNumbered
  <2>3. IsFitting(PublishedType(u), l.log)
    BY <2>1 DEF ContentsInv, PersonalFits
  <2>4. PublishedType(u)[1] = u
    BY PublishedTypes
  <2>5. IsAuthored(u, l.log)
    BY <2>3, <2>4 DEF IsFitting, IsAuthored
  <2>6. t \in LogTypes /\ t[1] = u /\ t[2] = USER_ALL /\ t = OwnLog(u)
    BY ContentTypes DEF OwnLog, ContentOf
  <2>7. OwnAnswer(u, d) = sendEntryFromIndexTo(l, map, receiver, from, t)
    BY <1>1, <2>6 DEF OwnAnswer
  <2> HIDE DEF l, t, map, from, receiver
  <2>8. IsRelayed(t) /\ IsAtHand(u, d, t)
    BY <2>6 DEF IsRelayed, IsAtHand
  <2>9. Sends(u, d, map, sendEntryFromIndexTo(l, map, receiver, from, t))
    BY <2>1, <2>2, <2>5, <2>6, <2>8, SendEntrySends
  <2> QED
    BY <2>7, <2>9 DEF map
<1>2. CASE Arrived(u, d).type # OwnLog(u)
  BY <1>2, NothingSends DEF OwnAnswer
<1> QED
  BY <1>1, <1>2

\* The confirmation a user reads comes from the switch that wrote it.
LEMMA ConfirmationFrom ==
    ASSUME IInv, NEW u \in Users, NEW d, Receiving(u, d), IsForeign(u, d),
           Arrived(u, d).shell.shell.function = "addSwitch"
    PROVE  Arrived(u, d).shell.authorId = d
<1> DEFINE p == Arrived(u, d)
           t == p.type
<1>1. /\ TypeInv /\ LogIntegrity /\ ContentsInv /\ Arriving(u, d)
      /\ p \in Packets /\ IsRouted(<<d, u>>, p)
  BY UserReadingParts
<1>2. t[2] \in Users \cup {USER_ALL}
  BY DEF IsForeign
<1>3. t \in LogTypes
  BY <1>1, <1>2, HandledTypes DEF ForUser
<1>4. t # GossipAnswerType
  BY <1>3, AnswersHaveNoLog
<1>5. IsFittingPacket(p)
  BY <1>1, <1>4, ArrivedFits
<1>6. ShownOfEmptyLog.shell.function = "f"
  BY DEF ShownOfEmptyLog, LogShell, ContentShell
<1> HIDE DEF p
<1>7. p.shell.shell.function = "addSwitch"
  BY DEF p
<1>8. /\ p.shell.sequenceNum \in Nat /\ p.shell.authorId = t[1]
      /\ Fits(t, p.shell.sequenceNum + 1, p.shell.shell)
  BY <1>5, <1>6, <1>7 DEF IsFittingPacket
<1>9. t[2] # USER_ALL
  BY <1>7, <1>8 DEF Fits
<1>10. t[2] \in Users /\ t[2] \in Nodes
  BY <1>2, <1>9, Identifiers
<1>11. t # MyType
  BY <1>3, <1>10, ReadersDiffer
<1>12. t[1] = d
  BY <1>1, <1>4, <1>9, <1>11 DEF IsRouted
<1> QED
  BY <1>8, <1>12 DEF p

LEMMA AddSwitchExchange ==
    ASSUME IInv, NEW u \in Users, NEW d, AddSwitch(u, d)
    PROVE  \E out : Exchange(u, d, out)
<1> DEFINE map == Insert(Learnt(u, d), d, d)
<1>1. Receiving(u, d) /\ IsForeign(u, d) /\ UNCHANGED logPacket
      /\ Arrived(u, d).shell.shell.function = "addSwitch"
      /\ Reading(u, d, Insert(Learnt(u, d), Arrived(u, d).shell.authorId, d), Nothing)
  BY DEF AddSwitch
<1>2. Arrived(u, d).shell.authorId = d
  BY <1>1, ConfirmationFrom
<1>3. /\ TypeInv /\ IsNaming(Learnt(u, d))
      /\ DOMAIN Learnt(u, d) = DOMAIN neighbourMap[u] \cup {d}
  BY <1>1, UserReadingParts
<1>4. IsNaming(map) /\ DOMAIN map = DOMAIN neighbourMap[u] \cup {d}
  BY <1>3 DEF Insert, IsNaming
<1>5. Reading(u, d, map, Nothing)
  BY <1>1, <1>2
<1> HIDE DEF map
<1>6. ListsStep(u, d)
  BY <1>1, <1>3, SameListsStep
<1>7. Exchange(u, d, Nothing)
  BY <1>1, <1>4, <1>5, <1>6, NothingSends, ReadingExchange
<1> QED
  BY <1>7

LEMMA UpdateContentExchange ==
    ASSUME IInv, NEW u \in Users, NEW d, UpdateContent(u, d)
    PROVE  \E out : Exchange(u, d, out)
<1> DEFINE p == Arrived(u, d)
           list == concatenateEntry(logPacket[u], p.type, p.shell)
<1>1. /\ Receiving(u, d) /\ IsForeign(u, d)
      /\ logPacket' = [logPacket EXCEPT ![u] = concatenateEntry(@, p.type, p.shell)]
      /\ Reading(u, d, Learnt(u, d), OwnAnswer(u, d))
  BY DEF UpdateContent
<1>2. /\ TypeInv /\ LogIntegrity /\ u \in Nodes /\ d \in Nodes /\ Arriving(u, d)
      /\ IsNaming(Learnt(u, d)) /\ DOMAIN Learnt(u, d) = DOMAIN neighbourMap[u] \cup {d}
  BY <1>1, UserReadingParts
<1>3. p.type \in LogTypes
  BY <1>1, <1>2, HandledTypes DEF ForUser, IsForeign
<1>4. logPacket' = [logPacket EXCEPT ![u] = list]
  BY <1>1
<1>5. SameCopies(u, list, list)
  BY SameListCopies
<1> HIDE DEF list
<1>6. ListsStep(u, d)
  BY <1>2, <1>3, <1>4, <1>5, TakingStep DEF list
<1>7. Exchange(u, d, OwnAnswer(u, d))
  BY <1>1, <1>2, <1>6, OwnAnswerSends, ReadingExchange
<1> QED
  BY <1>7

LEMMA AnswerOwnGossipExchange ==
    ASSUME IInv, NEW u \in Users, NEW d, AnswerOwnGossip(u, d)
    PROVE  \E out : Exchange(u, d, out)
<1>1. Receiving(u, d) /\ UNCHANGED logPacket /\ Reading(u, d, Learnt(u, d), OwnAnswer(u, d))
  BY DEF AnswerOwnGossip
<1>2. /\ TypeInv /\ IsNaming(Learnt(u, d))
      /\ DOMAIN Learnt(u, d) = DOMAIN neighbourMap[u] \cup {d}
  BY <1>1, UserReadingParts
<1>3. ListsStep(u, d)
  BY <1>1, <1>2, SameListsStep
<1>4. Exchange(u, d, OwnAnswer(u, d))
  BY <1>1, <1>2, <1>3, OwnAnswerSends, ReadingExchange
<1> QED
  BY <1>4

LEMMA IgnorePacketExchange ==
    ASSUME IInv, NEW u \in Users, NEW d, IgnorePacket(u, d)
    PROVE  \E out : Exchange(u, d, out)
<1>1. Receiving(u, d) /\ UNCHANGED logPacket /\ Reading(u, d, Learnt(u, d), Nothing)
  BY DEF IgnorePacket
<1>2. /\ TypeInv /\ IsNaming(Learnt(u, d))
      /\ DOMAIN Learnt(u, d) = DOMAIN neighbourMap[u] \cup {d}
  BY <1>1, UserReadingParts
<1>3. ListsStep(u, d)
  BY <1>1, <1>2, SameListsStep
<1>4. Exchange(u, d, Nothing)
  BY <1>1, <1>2, <1>3, NothingSends, ReadingExchange
<1> QED
  BY <1>4

-----------------------------------------------------------------------------
(* The manager *)

\* The manager after it has read from d, whether or not d has registered.
LEMMA ManagerReads ==
    ASSUME IInv, NEW d, Receiving(ManagerId, d),
           NEW map, IsNaming(map), DOMAIN neighbourMap[ManagerId] \subseteq DOMAIN map,
           DOMAIN map \subseteq DOMAIN neighbourMap[ManagerId] \cup {d},
           neighbourMap'[ManagerId] = map,
           \A m \in Nodes \ {ManagerId} : neighbourMap'[m] = neighbourMap[m],
           NEW out, Sends(ManagerId, d, map, out),
           channel' = Sending(Taking(ManagerId, d), ManagerId, out),
           UNCHANGED started, ListsStep(ManagerId, d)
    PROVE  Exchange(ManagerId, d, out)
<1>1. TypeInv /\ Arriving(ManagerId, d) /\ ManagerId \in started
  BY DEF IInv, Receiving
<1>2. d \in Nodes /\ d # None /\ ManagerId \in Nodes /\ ManagerId \notin Switches
  BY <1>1, ArrivedType, Identifiers
<1>3. LinksStep(ManagerId, d, out)
  BY <1>1, <1>2 DEF LinksStep, Sends
<1>4. NamesStep(ManagerId, d, out)
  BY <1>1, <1>2 DEF NamesStep, Sends
<1>5. Introduces(ManagerId, d, out)
  BY <1>2 DEF Introduces
<1> QED
  BY <1>2, <1>3, <1>4, <1>5 DEF Exchange

LEMMA ManagerDrops ==
    ASSUME IInv, NEW d, Receiving(ManagerId, d), channel' = Taking(ManagerId, d),
           UNCHANGED <<neighbourMap, started>>, ListsStep(ManagerId, d)
    PROVE  Exchange(ManagerId, d, Nothing)
<1>1. TypeInv /\ Arriving(ManagerId, d)
  BY DEF IInv, Receiving
<1>2. ManagerId \in Nodes /\ IsNaming(neighbourMap[ManagerId])
  BY Identifiers, NamesAre
<1>3. Carry(Taking(ManagerId, d), Packets)
  BY <1>1, ArrivedType
<1>4. channel' = Sending(Taking(ManagerId, d), ManagerId, Nothing)
  BY <1>3, SendingNothing
<1> DEFINE map == neighbourMap[ManagerId]
<1>5. neighbourMap'[ManagerId] = map /\ \A m \in Nodes \ {ManagerId} : neighbourMap'[m] = neighbourMap[m]
  OBVIOUS
<1>6. DOMAIN map \subseteq DOMAIN neighbourMap[ManagerId] \cup {d}
      /\ DOMAIN neighbourMap[ManagerId] \subseteq DOMAIN map /\ IsNaming(map)
  BY <1>2
<1> HIDE DEF map
<1> QED
  BY <1>4, <1>5, <1>6, NothingSends, ManagerReads

\* What the manager publishes is of its own making.
LEMMA ManagersLog ==
    ASSUME TypeInv, LogsOK, ContentsInv
    PROVE  LET l == myPersonalLog[ManagerId]
           IN  /\ l \in Logs /\ IsNumbered(l.log) /\ IsAuthored(ManagerId, l.log)
               /\ l.owner = ManagerId
<1> DEFINE l == myPersonalLog[ManagerId]
<1>1. l \in Logs /\ IsNumbered(l.log)
  BY PersonalType, PersonalNumbered
<1>2. l.owner = ManagerId /\ IsFitting(PublishedType(ManagerId), l.log)
  BY DEF ContentsInv, PersonalFits
<1>3. PublishedType(ManagerId)[1] = ManagerId
  BY PublishedTypes
<1>4. IsAuthored(ManagerId, l.log)
  BY <1>2, <1>3 DEF IsFitting, IsAuthored
<1> QED
  BY <1>1, <1>2, <1>4

LEMMA MembershipSendable == \A n : \A d : \A m : IsSendable(n, d, m, MyType)
<1>1. MyType[2] # USER_ALL
  BY DEF MyType, LOGTYPE, USER_ALL, SWITCH_ALL
<1> QED
  BY <1>1 DEF IsSendable, IsRelayed

LEMMA JoinAnswersSends ==
    ASSUME NEW log \in Logs, ~empty(log), IsNumbered(log.log), IsAuthored(ManagerId, log.log),
           NEW map, IsNaming(map), NEW author \in Nodes, author \in DOMAIN map, NEW d
    PROVE  Sends(ManagerId, d, map, JoinAnswers(log, map, author))
<1> DEFINE out == JoinAnswers(log, map, author)
           last == getLastEntry(log).sequenceNum
<1>1. out \in [Nodes -> Seq(Packets)]
  BY JoinAnswersType
<1>2. last \in Int /\ 0 \in Int
  BY LogType, EntryType
<1>3. MyType \in LogTypes \cup {GossipAnswerType} /\ ~IsRequestLog(MyType)
  BY Identifiers, LogTypesAre DEF MyType, IsRequestLog
<1> HIDE DEF last
<1>4. ASSUME NEW m \in Nodes
      PROVE  /\ IsOutgoing(ManagerId, d, m, out[m])
             /\ out[m] # << >> => m \in DOMAIN map
  <2> DEFINE k == getKeyByValue(map, m)
  <2>1. k = IF m \in DOMAIN map THEN m ELSE None
    BY KeyOfNaming
  <2>2. out[m] = IF k = author THEN EntriesFrom(log, 0, MyType)
                 ELSE IF k # None THEN EntriesFrom(log, last, MyType) ELSE << >>
    BY DEF JoinAnswers, last
  <2>3. IsSendable(ManagerId, d, m, MyType)
    BY MembershipSendable
  <2>4. IsOutgoing(ManagerId, d, m, EntriesFrom(log, 0, MyType))
    BY <1>2, <1>3, <2>3, EntriesOutgoing
  <2>5. IsOutgoing(ManagerId, d, m, EntriesFrom(log, last, MyType))
    BY <1>2, <1>3, <2>3, EntriesOutgoing
  <2> HIDE DEF out, k
  <2> QED
    BY <2>1, <2>2, <2>4, <2>5, EmptyOutgoing, Identifiers
<1> HIDE DEF out
<1>5. Sends(ManagerId, d, map, out)
  BY <1>1, <1>4 DEF Sends
<1> QED
  BY <1>5 DEF out

\* A request to join comes from the switch that wrote it.
LEMMA JoinRequestFrom ==
    ASSUME IInv, NEW d, Receiving(ManagerId, d), Arrived(ManagerId, d).type[2] = MANAGER_ALL
    PROVE  d \in Switches /\ Arrived(ManagerId, d).shell.authorId = d
<1> DEFINE t == Arrived(ManagerId, d).type
<1>1. TypeInv /\ LogIntegrity /\ ContentsInv /\ Routing /\ Arriving(ManagerId, d)
  BY DEF IInv, NamingInv, Receiving
<1>2. t \in LogTypes /\ t[1] \in Switches /\ Arrived(ManagerId, d).shell.authorId = t[1]
  BY <1>1, JoinRequest
<1>3. IsRouted(<<d, ManagerId>>, Arrived(ManagerId, d))
  BY <1>1, ArrivedIsRouted
<1>4. t # GossipAnswerType
  BY <1>2, AnswersHaveNoLog
<1>5. t # MyType /\ t[2] # USER_ALL
  BY <1>2, ReadersDiffer, Identifiers
<1>6. t[1] = d
  BY <1>3, <1>4, <1>5 DEF IsRouted
<1> QED
  BY <1>2, <1>6

LEMMA RegisterSwitchExchange ==
    ASSUME IInv, NEW d, RegisterSwitch(d)
    PROVE  \E out : Exchange(ManagerId, d, out)
<1> DEFINE p == Arrived(ManagerId, d)
           old == neighbourMap[ManagerId]
           map == Insert(old, d, d)
           content == ContentShell("addMemberToNetwork", d, 0)
           log == appendLogShell(myPersonalLog[ManagerId], content)
           request == Registered(d)[p.type]
<1>1. /\ Receiving(ManagerId, d) /\ p.type[2] = MANAGER_ALL
      /\ logPacket' = [logPacket EXCEPT ![ManagerId] = Registered(d)]
      /\ UNCHANGED started
  BY DEF RegisterSwitch
<1>2. d \in Switches /\ p.shell.authorId = d
  BY <1>1, JoinRequestFrom
<1>3. /\ TypeInv /\ LogIntegrity /\ ContentsInv /\ Arriving(ManagerId, d)
      /\ ManagerId \in Nodes /\ d \in Nodes
  BY <1>1, <1>2, Identifiers DEF IInv, Receiving
<1>4. p.type \in LogTypes
  BY <1>1, <1>3, JoinRequest
<1>5. ListsStep(ManagerId, d)
  <2> DEFINE list == Registered(d)
  <2>1. list = concatenateEntry(logPacket[ManagerId], Arrived(ManagerId, d).type,
                                Arrived(ManagerId, d).shell)
    BY DEF Registered
  <2>2. SameCopies(ManagerId, list, list)
    BY SameListCopies
  <2>3. logPacket' = [logPacket EXCEPT ![ManagerId] = list]
    BY <1>1
  <2> HIDE DEF list
  <2> QED BY <1>3, <1>4, <2>1, <2>2, <2>3, TakingStep
<1>6. IsNaming(old) /\ IsNaming(map) /\ DOMAIN map = DOMAIN old \cup {d}
  BY <1>3, NamesAre DEF Insert, IsNaming
<1>7. CASE ~empty(request) /\ getLastEntry(request).shell.function = "addToNetwork"
  <2>1. /\ neighbourMap' = [neighbourMap EXCEPT ![ManagerId] = map]
        /\ channel' = Sending(Taking(ManagerId, d), ManagerId, JoinAnswers(log, map, d))
    BY <1>2, <1>7 DEF RegisterSwitch
  <2>2. content \in Contents
    BY <1>3, ContentShellType DEF Functions
  <2> HIDE DEF content
  <2>3. LogsOK
    BY <1>3, IntegrityParts
  <2> DEFINE l == myPersonalLog[ManagerId]
  <2>4. /\ l \in Logs /\ IsNumbered(l.log) /\ IsAuthored(ManagerId, l.log)
        /\ l.owner = ManagerId
    BY <1>3, <2>3, ManagersLog
  <2>5. log = appendLogShell(l, content)
    OBVIOUS
  <2> HIDE DEF l, log
  <2>6. log \in Logs /\ IsNumbered(log.log)
    BY <2>2, <2>4, <2>5, AppendingNumbersOne
  <2>7. /\ ~empty(log) /\ Len(log.log) = Len(l.log) + 1
        /\ \A i \in 1..Len(l.log) : log.log[i] = l.log[i]
        /\ log.log[Len(l.log) + 1].authorId = ManagerId
    BY <2>2, <2>4, <2>5, appendLogShellType
  <2>8. Len(l.log) \in Nat
    BY <2>4, LogType
  <2>9. \A i \in 1..Len(log.log) : i \in 1..Len(l.log) \/ i = Len(l.log) + 1
    BY <2>7, <2>8
  <2>10. IsAuthored(ManagerId, log.log)
    BY <2>4, <2>7, <2>9 DEF IsAuthored
  <2> HIDE DEF map
  <2>11. Sends(ManagerId, d, map, JoinAnswers(log, map, d))
    BY <1>3, <1>6, <2>6, <2>7, <2>10, JoinAnswersSends
  <2>12. DOMAIN old \subseteq DOMAIN map /\ DOMAIN map \subseteq DOMAIN old \cup {d}
    BY <1>6
  <2>13. Introduces(ManagerId, d, JoinAnswers(log, map, d))
    BY Identifiers DEF Introduces
  <2>14. Exchange(ManagerId, d, JoinAnswers(log, map, d))
    BY <1>1, <1>3, <1>5, <1>6, <2>1, <2>11, <2>12, <2>13, ReadingIsExchange
  <2> QED BY <2>14
<1>8. CASE ~(~empty(request) /\ getLastEntry(request).shell.function = "addToNetwork")
  <2>1. channel' = Taking(ManagerId, d) /\ UNCHANGED neighbourMap
    BY <1>8 DEF RegisterSwitch
  <2>2. Exchange(ManagerId, d, Nothing)
    BY <1>1, <1>5, <2>1, ManagerDrops
  <2> QED BY <2>2
<1> QED
  BY <1>7, <1>8

LEMMA AnswerManagerGossipExchange ==
    ASSUME IInv, NEW d, AnswerManagerGossip(d)
    PROVE  \E out : Exchange(ManagerId, d, out)
<1> DEFINE p == Arrived(ManagerId, d)
           l == myPersonalLog[ManagerId]
           map == neighbourMap[ManagerId]
           receiver == getKeyByValue(map, d)
           from == p.shell.sequenceNum
           answer == sendEntryFromIndexTo(l, map, receiver, from, GossipAnswerType)
           out == IF getCurrentSeqNum(l) > from THEN answer ELSE Nothing
<1>1. /\ Receiving(ManagerId, d) /\ channel' = Sending(Taking(ManagerId, d), ManagerId, out)
      /\ UNCHANGED <<logPacket, neighbourMap, started>>
  BY DEF AnswerManagerGossip
<1>2. TypeInv /\ LogIntegrity /\ ContentsInv /\ Arriving(ManagerId, d) /\ ManagerId \in Nodes
  BY <1>1, Identifiers DEF IInv, Receiving
<1>3. LogsOK
  BY <1>2, IntegrityParts
<1>4. l \in Logs /\ IsNumbered(l.log) /\ IsAuthored(ManagerId, l.log)
  BY <1>2, <1>3, ManagersLog
<1>5. from \in Int
  BY <1>2, ArrivedType, EntryType
<1>6. IsNaming(map)
  BY <1>2, NamesAre
<1>7. /\ GossipAnswerType \in LogTypes \cup {GossipAnswerType} /\ IsRelayed(GossipAnswerType)
      /\ GossipAnswerType[2] # USER_ALL
  BY DEF IsRelayed, GossipAnswerType, LOGTYPE, USER_ALL
<1> HIDE DEF l, receiver, from
<1>8. Sends(ManagerId, d, map, answer)
  BY <1>4, <1>5, <1>6, <1>7, SendEntrySends
<1>9. Sends(ManagerId, d, map, out)
  BY <1>8, NothingSends
<1>10. ListsStep(ManagerId, d)
  BY <1>1, <1>2, SameListsStep
<1> HIDE DEF out, answer
<1>11. neighbourMap'[ManagerId] = map /\ \A m \in Nodes \ {ManagerId} : neighbourMap'[m] = neighbourMap[m]
  BY <1>1
<1>12. DOMAIN map \subseteq DOMAIN neighbourMap[ManagerId] \cup {d}
       /\ DOMAIN neighbourMap[ManagerId] \subseteq DOMAIN map
  OBVIOUS
<1> HIDE DEF map
<1>13. Exchange(ManagerId, d, out)
  BY <1>1, <1>6, <1>9, <1>10, <1>11, <1>12, ManagerReads
<1> QED
  BY <1>13

LEMMA ReceiveManagerExchange ==
    ASSUME IInv, NEW d, ReceiveManager(d)
    PROVE  \E out : Exchange(ManagerId, d, out)
<1>1. CASE DropUnknown(d)
  <2>1. /\ Receiving(ManagerId, d) /\ channel' = Taking(ManagerId, d)
        /\ UNCHANGED <<logPacket, neighbourMap, started>>
    BY <1>1 DEF DropUnknown
  <2>2. ListsStep(ManagerId, d)
    BY <2>1, SameListsStep DEF IInv
  <2>3. Exchange(ManagerId, d, Nothing)
    BY <2>1, <2>2, ManagerDrops
  <2> QED BY <2>3
<1> QED
  BY <1>1, RegisterSwitchExchange, AnswerManagerGossipExchange DEF ReceiveManager

-----------------------------------------------------------------------------
(* Starting *)

\* The entry a log is opened with is signed, and numbered 0.
LEMMA OpeningEntry ==
    ASSUME NEW n \in Nodes, NEW content \in Contents
    PROVE  LET log == appendLogShell(NewLog(n), content)
               e == getLastEntry(log)
           IN  /\ log \in Logs /\ e \in Entries /\ e.sequenceNum = 0 /\ e.authorId = n
               /\ ~Unparsable(e)
<1> DEFINE l == NewLog(n)
           log == appendLogShell(l, content)
           e == getLastEntry(log)
           cur == getCurrentSeqNum(l)
           first == LogShell(cur + 1, NoHash, n, sign(cur + 1), content)
           contents == <<content>>
           PrevHash(i) == IF i > 1 THEN <<contents[i - 1]>>
                          ELSE IF empty(l) THEN NoHash ELSE createHash(getLastEntry(l))
           added == [i \in 1..1 |-> LogShell(cur + i, PrevHash(i), n, sign(cur + i), contents[i])]
<1>1. l \in Logs /\ empty(l) /\ l.owner = n /\ l.log = << >>
  BY NewLogType DEF NewLog
<1>2. cur = -1
  BY <1>1 DEF getCurrentSeqNum
<1>3. /\ log \in Logs /\ e \in Entries /\ e.authorId = n /\ e.sequenceNum = 0
  <2> HIDE DEF l
  <2> QED BY <1>1, <1>2, appendLogShellType
<1>4. Len(contents) = 1 /\ contents[1] = content
  OBVIOUS
<1>5. log.log = << >> \o added
  <2>1. log.log = l.log \o [i \in 1..Len(contents) |->
                    LogShell(cur + i, PrevHash(i), l.owner, sign(cur + i), contents[i])]
    BY <1>1 DEF appendLogShell, AppendLogShells, Logs
  <2> HIDE DEF l, log, contents, PrevHash, cur
  <2> QED BY <1>1, <1>4, <2>1
<1>6. added[1] = first
  BY <1>1, <1>4
<1>7. added = <<first>>
  <2>1. added = [i \in 1..1 |-> first]
    BY <1>1, <1>4
  <2> HIDE DEF added, first
  <2> QED BY <2>1
<1>8. first.signature = <<0>>
  BY <1>2 DEF LogShell, sign
<1> HIDE DEF first, added, log
<1>9. log.log = <<first>>
  BY <1>5, <1>7
<1>10. e = first
  BY <1>9 DEF getLastEntry
<1> HIDE DEF e
<1>11. ~Unparsable(e)
  <2>1. <<0>> # << >>
    OBVIOUS
  <2>2. e.signature = <<0>>
    BY <1>8, <1>10
  <2> QED BY <2>1, <2>2 DEF Unparsable, NoSignature
<1> QED
  BY <1>3, <1>11 DEF log, e

\* What a node sends and writes when it starts.
Opening(n, type, e) ==
    /\ e \in Entries /\ e.sequenceNum = 0 /\ e.authorId = n /\ ~Unparsable(e)
    /\ started' = started \cup {n}
    /\ channel' = Sending(channel, n,
           [m \in Nodes |-> IF m \in Peers(n) THEN <<NetShell(type, 0, e)>> ELSE << >>])
    /\ type \in DOMAIN logPacket'[n]
    /\ \A t : t \in DOMAIN logPacket'[n] => t \in DOMAIN logPacket[n] \/ t = type
    /\ \A m \in Nodes \ {n} : logPacket'[m] = logPacket[m]

LEMMA StartingStep ==
    ASSUME IInv, NEW n \in Nodes, n \notin started,
           NEW type \in LogTypes, IsOwn(n, type), type[2] \notin Nodes \cup {USER_ALL},
           NEW content \in Contents,
           NEW log, log = appendLogShell(NewLog(n), content),
           started' = started \cup {n},
           logPacket' = [logPacket EXCEPT ![n] = Insert(@, type, log)],
           channel' = Sending(channel, n,
               [m \in Nodes |-> IF m \in Peers(n)
                                THEN <<NetShell(type, 0, getLastEntry(log))>> ELSE << >>])
    PROVE  /\ \E out : LinksStep(n, None, out)
           /\ ListsStep(n, None) /\ Opening(n, type, getLastEntry(log))
<1> DEFINE e == getLastEntry(log)
           p == NetShell(type, 0, e)
           out == [m \in Nodes |-> IF m \in Peers(n) THEN <<p>> ELSE << >>]
           list == Insert(logPacket[n], type, log)
<1>1. TypeInv /\ LogIntegrity
  BY DEF IInv
<1>2. e \in Entries /\ e.sequenceNum = 0 /\ e.authorId = n /\ ~Unparsable(e)
  BY OpeningEntry
<1>3. DOMAIN logPacket[n] = {}
  BY <1>1, IntegrityParts DEF LogsOK
<1> HIDE DEF e
<1>4. p \in Packets /\ p.type = type /\ p.shell = e
  BY <1>2, NetShellType DEF NetShell
<1>5. type[1] = n /\ \A m : IsSendable(n, None, m, type)
  BY DEF IsOwn, IsSendable
<1>6. CopyIn(logPacket[n], type) = << >>
  BY <1>3 DEF CopyIn
<1>7. channel' = Sending(channel, n, out)
  BY DEF e
<1> HIDE DEF p
<1>8. LinksStep(n, None, out)
  <2>1. ASSUME NEW m \in Nodes
        PROVE  out[m] \in Seq(Packets) /\ IsOutgoing(n, None, m, out[m])
    <3>1. <<p>> \in Seq(Packets) /\ IsOutgoing(n, None, m, <<p>>)
      BY <1>2, <1>4, <1>5, <1>6, SingleOutgoing
    <3>2. out[m] = <<p>> \/ out[m] = << >>
      OBVIOUS
    <3>3. << >> \in Seq(Packets)
      OBVIOUS
    <3> QED BY <3>1, <3>2, <3>3, EmptyOutgoing
  <2>2. out \in [Nodes -> Seq(Packets)]
    BY <2>1
  <2> HIDE DEF out
  <2> QED BY <1>7, <2>1, <2>2 DEF LinksStep
<1>9. logPacket' = [logPacket EXCEPT ![n] = list]
  OBVIOUS
<1>10. DOMAIN list = {type} /\ list[type] = log
  BY <1>3 DEF Insert
<1> HIDE DEF list
<1>11. logPacket'[n] = list /\ \A m \in Nodes \ {n} : logPacket'[m] = logPacket[m]
  BY <1>1, <1>9, ReplacingList DEF ListReplaced
<1>12. ListsStep(n, None)
  <2>1. \A t \in LogTypes : ~IsOwn(n, t) => SameCopy(n, logPacket[n], list, t)
    BY <1>3, <1>10 DEF SameCopy
  <2> QED BY <1>1, <1>9, <2>1, OwnListsStep
<1>13. Opening(n, type, e)
  BY <1>2, <1>10, <1>11 DEF Opening, e
<1> QED
  BY <1>8, <1>12, <1>13 DEF e

\* What a link carries after node n has started.
LEMMA OpeningSent ==
    ASSUME TypeInv, SilentUntilStarted, NEW n \in Nodes, n \notin started,
           NEW type \in LogTypes, NEW e, Opening(n, type, e), NEW l \in Links
    PROVE  /\ l[1] # n => channel'[l] = channel[l]
           /\ l[1] = n => /\ channel[l] = << >> /\ channel'[l] # << >>
                          /\ Head(channel'[l]).type = type /\ Head(channel'[l]).shell = e
                          /\ \A i \in 1..Len(channel'[l]) : channel'[l][i].type = type
                          /\ IsIntroducing(l)'
<1> DEFINE p == NetShell(type, 0, e)
           out == [m \in Nodes |-> IF m \in Peers(n) THEN <<p>> ELSE << >>]
<1>1. e \in Entries /\ e.authorId = n /\ channel' = Sending(channel, n, out)
  BY DEF Opening
<1>2. p \in Packets /\ p.type = type /\ p.shell = e
  BY <1>1, NetShellType DEF NetShell
<1>3. /\ channel[l] \in Seq(Packets) /\ Len(channel[l]) <= QueueSize
      /\ l[2] \in Nodes /\ l = <<l[1], l[2]>>
  BY LinkOfType
<1> HIDE DEF p
<1>4. channel'[l] = IF l[1] = n THEN Enqueue(channel[l], out[l[2]]) ELSE channel[l]
  BY <1>1 DEF Sending
<1>5. ASSUME l[1] = n
      PROVE  /\ channel[l] = << >> /\ channel'[l] # << >>
             /\ Head(channel'[l]).type = type /\ Head(channel'[l]).shell = e
             /\ \A i \in 1..Len(channel'[l]) : channel'[l][i].type = type
             /\ IsIntroducing(l)'
  <2>1. channel[l] = << >>
    BY <1>5 DEF SilentUntilStarted
  <2>2. l[2] \in Peers(n)
    BY <1>3, <1>5 DEF Peers
  <2>3. out[l[2]] = <<p>>
    BY <1>3, <2>2
  <2> HIDE DEF out
  <2> DEFINE q == channel[l]
             ps == <<p>>
             new == Enqueue(q, ps)
  <2>4. channel'[l] = new
    BY <1>4, <1>5, <2>3
  <2>5. ps \in Seq(Packets) /\ ps # << >> /\ ps[1] = p /\ Len(ps) = 1
    BY <1>2, SingleIsSeq
  <2>6. q \in Seq(Packets) /\ Len(q) <= QueueSize /\ Len(q) = 0 /\ q = << >>
    BY <1>3, <2>1
  <2> HIDE DEF q, ps, new
  <2>7. new # << >> /\ Head(new) = p
    BY <2>5, <2>6, EnqueueHead DEF new
  <2>8. /\ Len(new) \in Nat /\ Len(new) <= Len(q) + Len(ps)
        /\ \A i \in 1..Len(new) : i > Len(q) => new[i] = ps[i - Len(q)]
    BY <2>5, <2>6, EnqueueIs DEF new
  <2>9. \A i \in 1..Len(new) : new[i] = p
    BY <2>5, <2>6, <2>8
  <2>10. IsIntroducing(l)'
    BY <1>1, <1>2, <1>5, <2>4, <2>7 DEF IsIntroducing
  <2> QED BY <1>2, <2>1, <2>4, <2>7, <2>9, <2>10
<1> QED
  BY <1>4, <1>5

LEMMA StartSwitchNames ==
    ASSUME IInv, TypeInv', NEW s \in Switches, StartSwitch(s)
    PROVE  NamingInv'
<1> DEFINE type == LOGTYPE(s, MANAGER_ALL)
           content == ContentShell("addToNetwork", s, 0)
           log == appendLogShell(NewLog(s), content)
           e == getLastEntry(log)
<1>1. /\ s \notin started /\ started' = started \cup {s} /\ UNCHANGED neighbourMap
      /\ logPacket' = [logPacket EXCEPT ![s] = Insert(@, type, log)]
      /\ channel' = Sending(channel, s,
             [m \in Nodes |-> IF m \in Peers(s) THEN <<NetShell(type, 0, e)>> ELSE << >>])
  BY DEF StartSwitch
<1>2. s \in Nodes /\ content \in Contents
  BY Identifiers, ContentShellType DEF Functions
<1>3. type \in LogTypes /\ IsOwn(s, type) /\ type[2] = MANAGER_ALL /\ type[1] = s
  BY OwnTypes DEF LOGTYPE
<1>4. type[2] \notin Nodes \cup {USER_ALL}
  BY <1>3, ReadersDiffer
<1> HIDE DEF type, content
<1>5. /\ \E out : LinksStep(s, None, out)
      /\ ListsStep(s, None) /\ Opening(s, type, e)
  BY <1>1, <1>2, <1>3, <1>4, StartingStep
<1> HIDE DEF e, log
<1>6. PICK out : LinksStep(s, None, out)
  BY <1>5
<1>7. TypeInv /\ LogIntegrity /\ NamingInv
  BY DEF IInv
<1>8. Routing' /\ Freshness'
  BY <1>2, <1>5, <1>6, <1>7, RoutingStep, FreshStep DEF NamingInv
<1>9. SilentUntilStarted /\ SwitchesMeet /\ UsersMeet /\ NeighbourNaming
  BY <1>7 DEF NamingInv
<1>10. NeighbourNaming'
  BY <1>1, <1>9 DEF NeighbourNaming, Peers, Nodes
<1>11. \A l \in Links : l[1] # s => channel'[l] = channel[l]
  BY <1>2, <1>3, <1>1, <1>5, <1>7, <1>9, OpeningSent
<1>12. \A l \in Links : l[1] = s => IsIntroducing(l)'
  BY <1>2, <1>3, <1>1, <1>5, <1>7, <1>9, OpeningSent
<1>13. SilentUntilStarted'
  BY <1>1, <1>9, <1>11 DEF SilentUntilStarted
<1>14. Users \cap started = {} /\ Users \cap started' = {}
  BY <1>1, <1>9, Identifiers DEF SwitchesMeet
<1>15. SwitchesMeet'
  <2>1. ASSUME NEW l \in Links \cap (Switches \X Switches),
               l[1] \in started', l[1] \notin DOMAIN neighbourMap'[l[2]]
        PROVE  IsIntroducing(l)'
    <3>1. CASE l[1] = s
      BY <1>12, <3>1
    <3>2. CASE l[1] # s
      <4>1. IsIntroducing(l)
        BY <1>1, <1>9, <2>1, <3>2 DEF SwitchesMeet
      <4> QED BY <1>11, <3>2, <4>1 DEF IsIntroducing
    <3> QED BY <3>1, <3>2
  <2> QED BY <1>14, <2>1 DEF SwitchesMeet
<1>16. UsersMeet'
  <2>1. ASSUME NEW l \in Links, l[1] \in Users
        PROVE  l[1] \notin DOMAIN neighbourMap'[l[2]] /\ IsUnheard(l[1], l[2])'
    <3> DEFINE u == l[1]
               h == l[2]
    <3>1. u \notin started /\ u \notin started' /\ h \in Switches /\ h \in Nodes /\ u \in Nodes
      BY <1>14, <2>1, HomeIs
    <3>2. u \notin DOMAIN neighbourMap[h]
      BY <1>9, <3>1 DEF SilentUntilStarted
    <3>3. IsUnheard(u, h)
      BY <1>9, <2>1, <3>2 DEF UsersMeet
    <3>4. DOMAIN neighbourMap[u] = {} /\ SwitchLog(u) \notin DOMAIN logPacket[h]
          /\ NoneIsSent(ContentOf(u))
      BY <3>3 DEF IsUnheard
    <3>5. u # s
      BY <2>1, Identifiers
    <3>6. NoneIsSent(ContentOf(u))'
      BY <1>2, <1>5, <1>6, <1>7, <2>1, <3>4, <3>5, NoneIsSentStep
    <3>7. SwitchLog(u) # type
      BY <1>3, <3>5 DEF SwitchLog, LOGTYPE
    <3>8. SwitchLog(u) \notin DOMAIN logPacket'[h]
      BY <1>5, <3>1, <3>4, <3>7 DEF Opening
    <3> HIDE DEF u, h
    <3>9. IsUnheard(u, h)'
      BY <1>1, <3>1, <3>4, <3>6, <3>8 DEF IsUnheard
    <3> QED BY <1>1, <3>2, <3>9 DEF u, h
  <2> QED BY <2>1 DEF UsersMeet
<1> QED
  BY <1>8, <1>10, <1>13, <1>15, <1>16 DEF NamingInv

LEMMA StartUsersNames ==
    ASSUME IInv, TypeInv', NEW u \in Users, StartUsers(u)
    PROVE  NamingInv'
<1> DEFINE type == SwitchLog(u)
           content == ContentShell("plugAndPlay", u, 0)
           log == appendLogShell(NewLog(u), content)
           e == getLastEntry(log)
<1>1. /\ Switches \subseteq started /\ OnlyUsersSend
      /\ u \notin started /\ started' = started \cup {u} /\ UNCHANGED neighbourMap
      /\ logPacket' = [logPacket EXCEPT ![u] = Insert(@, type, log)]
      /\ channel' = Sending(channel, u,
             [m \in Nodes |-> IF m \in Peers(u) THEN <<NetShell(type, 0, e)>> ELSE << >>])
  BY DEF StartUsers, StartUser
<1>2. u \in Nodes /\ content \in Contents
  BY Identifiers, ContentShellType DEF Functions
<1>3. type \in LogTypes /\ IsOwn(u, type) /\ type[2] = SWITCH_ALL /\ type[1] = u
  BY OwnTypes DEF SwitchLog, LOGTYPE
<1>4. type[2] \notin Nodes \cup {USER_ALL}
  BY <1>3, ReadersDiffer
<1> HIDE DEF content, type
<1>5. /\ \E out : LinksStep(u, None, out)
      /\ ListsStep(u, None) /\ Opening(u, type, e)
  BY <1>1, <1>2, <1>3, <1>4, StartingStep
<1> HIDE DEF e, log
<1>6. PICK out : LinksStep(u, None, out)
  BY <1>5
<1>7. TypeInv /\ LogIntegrity /\ NamingInv
  BY DEF IInv
<1>8. Routing' /\ Freshness'
  BY <1>2, <1>5, <1>6, <1>7, RoutingStep, FreshStep DEF NamingInv
<1>9. SilentUntilStarted /\ SwitchesMeet /\ UsersMeet /\ NeighbourNaming
  BY <1>7 DEF NamingInv
<1>10. NeighbourNaming'
  BY <1>1, <1>9 DEF NeighbourNaming, Peers, Nodes
<1>11. \A l \in Links : l[1] # u => channel'[l] = channel[l]
  BY <1>2, <1>3, <1>1, <1>5, <1>7, <1>9, OpeningSent
<1>12. \A l \in Links : l[1] = u => /\ channel'[l] # << >> /\ Head(channel'[l]).type = type
                                    /\ Head(channel'[l]).shell = e
                                    /\ \A i \in 1..Len(channel'[l]) : channel'[l][i].type = type
  BY <1>2, <1>3, <1>1, <1>5, <1>7, <1>9, OpeningSent
<1>13. SilentUntilStarted'
  BY <1>1, <1>9, <1>11 DEF SilentUntilStarted
<1>14. SwitchesMeet'
  <2>1. ASSUME NEW l \in Links \cap (Switches \X Switches)
        PROVE  l[1] \in DOMAIN neighbourMap[l[2]]
    <3>1. l[1] \in Switches /\ l[1] \in started /\ l[1] \notin Users
      BY <1>1, Identifiers
    <3>2. channel[l] = << >>
      BY <1>1, <3>1 DEF OnlyUsersSend
    <3> QED BY <1>9, <3>1, <3>2 DEF SwitchesMeet, IsIntroducing
  <2>2. Switches \subseteq started'
    BY <1>1
  <2> QED BY <1>1, <2>1, <2>2 DEF SwitchesMeet
<1>15. e.sequenceNum = 0 /\ ~Unparsable(e)
  BY <1>5 DEF Opening
<1>16. ASSUME NEW l \in Links, l[1] \in Users, l[1] \notin DOMAIN neighbourMap[l[2]]
       PROVE  IsUnheard(l[1], l[2])'
  <2> DEFINE v == l[1]
             h == l[2]
             back == <<h, v>>
  <2>1. /\ h \in Switches /\ h \in Nodes /\ v \in Nodes /\ v \in Users
        /\ l = <<v, h>> /\ back \in Links /\ h # u /\ back[1] = h
    BY <1>16, HomeIs, Identifiers
  <2>2. IsUnheard(v, h)
    BY <1>9, <1>16 DEF UsersMeet
  <2>3. DOMAIN neighbourMap[v] = {} /\ SwitchLog(v) \notin DOMAIN logPacket[h]
        /\ NoneIsSent(ContentOf(v))
    BY <2>2 DEF IsUnheard
  <2>4. SwitchLog(v) \notin DOMAIN logPacket'[h]
    BY <1>5, <2>1, <2>3 DEF Opening
  <2>5. channel'[back] = << >>
    <3>1. channel[back] = << >>
      BY <1>1, <2>1, Identifiers DEF OnlyUsersSend
    <3> QED BY <1>11, <2>1, <3>1
  <2>6. NoneIsSent(ContentOf(v))'
    <3>1. CASE v # u
      BY <1>2, <1>5, <1>6, <1>7, <2>1, <2>3, <3>1, NoneIsSentStep
    <3>2. CASE v = u
      <4>1. ContentOf(v) # type
        BY <3>2, ContentTypes DEF type
      <4> HIDE DEF v
      <4>2. \A m \in Nodes : ContentOf(v) \notin DOMAIN logPacket'[m]
        BY <1>5, <2>3, <4>1 DEF NoneIsSent, Opening
      <4>3. ASSUME NEW k \in Links, NEW i \in 1..Len(channel'[k])
            PROVE  channel'[k][i].type # ContentOf(v)
        <5>1. CASE k[1] = u
          BY <1>12, <4>1, <5>1
        <5>2. CASE k[1] # u
          BY <1>11, <2>3, <5>2 DEF NoneIsSent
        <5> QED BY <5>1, <5>2
      <4> QED BY <4>2, <4>3 DEF NoneIsSent, Nodes, ContentOf, LOGTYPE
    <3> QED BY <3>1, <3>2
  <2>7. ASSUME v \in started'
        PROVE  /\ channel'[l] # << >> /\ Head(channel'[l]).type = SwitchLog(v)
               /\ Head(channel'[l]).shell.sequenceNum = 0
               /\ ~Unparsable(Head(channel'[l]).shell)
    <3>1. CASE v # u
      <4>1. v \in started
        BY <1>1, <2>7, <3>1
      <4>2. channel'[l] = channel[l]
        BY <1>11, <3>1
      <4> QED BY <2>1, <2>2, <4>1, <4>2 DEF IsUnheard
    <3>2. CASE v = u
      BY <1>12, <1>15, <3>2 DEF type
    <3> QED BY <3>1, <3>2
  <2> HIDE DEF v, h
  <2>8. DOMAIN neighbourMap'[v] = {}
    BY <1>1, <2>3
  <2>9. IsUnheard(v, h)'
    BY <2>1, <2>4, <2>5, <2>6, <2>7, <2>8 DEF IsUnheard
  <2> QED BY <2>9 DEF v, h
<1>17. UsersMeet'
  <2>1. ASSUME NEW l \in Links, l[1] \in Users, l[1] \in DOMAIN neighbourMap[l[2]],
               l[2] \notin DOMAIN neighbourMap[l[1]]
        PROVE  IsIntroducing(<<l[2], l[1]>>)'
    <3>1. IsIntroducing(<<l[2], l[1]>>)
      BY <1>9, <2>1 DEF UsersMeet
    <3>2. /\ <<l[2], l[1]>> \in Links /\ l[2] # u
      BY <2>1, HomeIs, Identifiers
    <3>3. channel'[<<l[2], l[1]>>] = channel[<<l[2], l[1]>>]
      BY <1>11, <3>2
    <3> QED BY <3>1, <3>3 DEF IsIntroducing
  <2>2. UNCHANGED neighbourMap
    BY <1>1
  <2> QED BY <1>16, <2>1, <2>2 DEF UsersMeet
<1> QED
  BY <1>8, <1>10, <1>13, <1>14, <1>17 DEF NamingInv

-----------------------------------------------------------------------------
(* Packets that are missed or lost *)

LEMMA ThinningSendsNone ==
    ASSUME TypeInv, IsThinning, UNCHANGED logPacket, NEW u \in Users, NoneIsSent(ContentOf(u))
    PROVE  NoneIsSent(ContentOf(u))'
<1> DEFINE t == ContentOf(u)
<1>1. /\ \A n \in Nodes : t \notin DOMAIN logPacket[n]
      /\ \A l \in Links : \A i \in 1..Len(channel[l]) : channel[l][i].type # t
  BY DEF NoneIsSent
<1> HIDE DEF t
<1>2. ASSUME NEW l \in Links, NEW i \in 1..Len(channel'[l])
      PROVE  channel'[l][i].type # t
  <2>1. CASE channel'[l] = channel[l]
    BY <1>1, <1>2, <2>1
  <2>2. CASE channel[l] # << >> /\ channel'[l] = Tail(channel[l])
    <3> DEFINE q == channel[l]
    <3>1. q \in Seq(Packets) /\ q # << >>
      BY <2>2, LinkOfType
    <3>2. \A j \in 1..Len(q) : q[j].type # t
      BY <1>1
    <3>3. channel'[l] = Tail(q)
      BY <2>2
    <3> HIDE DEF q
    <3>4. i + 1 \in 1..Len(q) /\ Tail(q)[i] = q[i + 1]
      BY <1>2, <3>1, <3>3, TailIs
    <3> QED BY <3>2, <3>3, <3>4
  <2> QED BY <2>1, <2>2 DEF IsThinning
<1>3. \A n \in Nodes : t \notin DOMAIN logPacket'[n]
  BY <1>1
<1> QED
  BY <1>2, <1>3 DEF NoneIsSent, Nodes, t, ContentOf, LOGTYPE

\* The links of users stay as they are, but for what a user misses.
LEMMA ThinningMeets ==
    ASSUME TypeInv, SilentUntilStarted, UsersMeet, IsThinning,
           UNCHANGED <<logPacket, neighbourMap, started>>,
           \A l \in Links : l[1] \in Users => channel'[l] = channel[l],
           \A l \in Links : l[2] \in Users /\ l[2] \in started => channel'[l] = channel[l]
    PROVE  UsersMeet'
<1>1. ASSUME NEW l \in Links, l[1] \in Users
      PROVE  \/ l[1] \notin DOMAIN neighbourMap'[l[2]] /\ IsUnheard(l[1], l[2])'
             \/ /\ l[1] \in DOMAIN neighbourMap'[l[2]]
                /\ l[2] \in DOMAIN neighbourMap'[l[1]] \/ IsIntroducing(<<l[2], l[1]>>)'
  <2> DEFINE u == l[1]
             s == l[2]
             back == <<s, u>>
  <2>1. l = <<u, s>> /\ back \in Links /\ u \in Users /\ back[2] = u /\ back[1] = s
    BY <1>1, HomeIs
  <2>2. channel'[l] = channel[l] /\ (u \in started => channel'[back] = channel[back])
    BY <2>1
  <2>3. CASE u \notin DOMAIN neighbourMap[s]
    <3>1. IsUnheard(u, s)
      BY <1>1, <2>3 DEF UsersMeet
    <3>2. NoneIsSent(ContentOf(u))'
      BY <2>1, <3>1, ThinningSendsNone DEF IsUnheard
    <3> HIDE DEF u, s
    <3>3. IsUnheard(u, s)'
      BY <2>1, <2>2, <3>1, <3>2 DEF IsUnheard
    <3> QED BY <2>3, <3>3 DEF u, s
  <2>4. CASE u \in DOMAIN neighbourMap[s]
    <3>1. u \in started
      BY <2>1, <2>4 DEF SilentUntilStarted
    <3>2. s \in DOMAIN neighbourMap[u] \/ IsIntroducing(back)
      BY <1>1, <2>4 DEF UsersMeet
    <3>3. channel'[back] = channel[back]
      BY <2>2, <3>1
    <3> HIDE DEF u, s
    <3>4. s \in DOMAIN neighbourMap'[u] \/ IsIntroducing(back)'
      BY <3>2, <3>3 DEF IsIntroducing
    <3> QED BY <2>4, <3>4 DEF u, s
  <2> QED BY <2>3, <2>4
<1> QED
  BY <1>1 DEF UsersMeet

LEMMA MissPacketNames ==
    ASSUME IInv, NEW u \in Users, NEW d, MissPacket(u, d)
    PROVE  NamingInv'
<1>1. /\ Arriving(u, d) /\ u \notin started /\ channel' = Taking(u, d)
      /\ UNCHANGED <<logPacket, neighbourMap, started>>
  BY DEF MissPacket
<1>2. TypeInv /\ Routing /\ Freshness /\ SilentUntilStarted /\ SwitchesMeet /\ UsersMeet
      /\ NeighbourNaming
  BY DEF IInv, NamingInv
<1>3. <<d, u>> \in Links /\ channel[<<d, u>>] # << >>
  BY <1>1 DEF Arriving
<1>4. channel \in [Links -> Seq(Packets)]
  BY <1>2 DEF TypeInv, LinksOK
<1>5. /\ channel'[<<d, u>>] = Tail(channel[<<d, u>>])
      /\ \A l \in Links : l # <<d, u>> => channel'[l] = channel[l]
  BY <1>1, <1>3, <1>4 DEF Taking
<1>6. IsThinning
  BY <1>3, <1>5 DEF IsThinning
<1>7. \A l \in Links : l[2] # u => channel'[l] = channel[l]
  BY <1>5
<1>8. d \notin Users
  BY <1>3, HomeIs
<1>9. \A l \in Links : l[1] \in Users => channel'[l] = channel[l]
  BY <1>5, <1>8
<1>10. Routing' /\ Freshness'
  BY <1>1, <1>2, <1>6, ThinningKeeps
<1>11. NeighbourNaming'
  BY <1>1, <1>2 DEF NeighbourNaming, Peers, Nodes
<1>12. SilentUntilStarted'
  BY <1>1, <1>2, <1>3, <1>5 DEF SilentUntilStarted
<1>13. SwitchesMeet'
  <2>1. \A l \in Links \cap (Switches \X Switches) : l[2] # u
    BY Identifiers
  <2>2. \A l \in Links \cap (Switches \X Switches) : IsIntroducing(l) => IsIntroducing(l)'
    BY <1>7, <2>1 DEF IsIntroducing
  <2> QED BY <1>1, <1>2, <2>2 DEF SwitchesMeet
<1>14. \A l \in Links : l[2] \in Users /\ l[2] \in started => channel'[l] = channel[l]
  BY <1>1, <1>7
<1>15. UsersMeet'
  BY <1>1, <1>2, <1>6, <1>9, <1>14, ThinningMeets
<1> QED
  BY <1>10, <1>11, <1>12, <1>13, <1>15 DEF NamingInv

\* Packets are lost between switches only, and only after these have met.
LEMMA LosePacketNames ==
    ASSUME IInv, NEW l \in LossyLinks, LosePacket(l)
    PROVE  NamingInv'
<1>1. /\ AllStarted /\ channel[l] # << >> /\ channel' = [channel EXCEPT ![l] = Tail(@)]
      /\ UNCHANGED <<logPacket, neighbourMap, started>>
  BY DEF LosePacket
<1>2. TypeInv /\ Routing /\ Freshness /\ SilentUntilStarted /\ SwitchesMeet /\ UsersMeet
      /\ NeighbourNaming
  BY DEF IInv, NamingInv
<1>3. l \in Links /\ l[1] \in Switches /\ l[2] \in Switches
  BY LossBetweenSwitches
<1>4. channel \in [Links -> Seq(Packets)]
  BY <1>2 DEF TypeInv, LinksOK
<1>5. /\ channel'[l] = Tail(channel[l])
      /\ \A k \in Links : k # l => channel'[k] = channel[k]
  BY <1>1, <1>3, <1>4
<1>6. IsThinning
  BY <1>1, <1>5 DEF IsThinning
<1>7. \A k \in Links : k[1] \in Users \/ k[2] \in Users => channel'[k] = channel[k]
  BY <1>3, <1>5, Identifiers
<1>8. Users \cap started # {} /\ started = Nodes
  BY <1>1, UsersExist, Identifiers DEF AllStarted
<1>9. Routing' /\ Freshness'
  BY <1>1, <1>2, <1>6, ThinningKeeps
<1>10. NeighbourNaming'
  BY <1>1, <1>2 DEF NeighbourNaming, Peers, Nodes
<1>11. SilentUntilStarted'
  <2>1. \A k \in Links : k[1] \in Nodes
    BY LinksConnectNodes
  <2> QED BY <1>1, <1>8, <2>1 DEF SilentUntilStarted
<1>12. SwitchesMeet'
  <2>1. \A k \in Links \cap (Switches \X Switches) : k[1] \in started =>
            k[1] \in DOMAIN neighbourMap[k[2]]
    BY <1>2, <1>8 DEF SwitchesMeet
  <2>2. Switches \subseteq started
    BY <1>8, Identifiers
  <2> QED BY <1>1, <2>1, <2>2 DEF SwitchesMeet
<1>13. UsersMeet'
  BY <1>1, <1>2, <1>6, <1>7, ThinningMeets
<1> QED
  BY <1>9, <1>10, <1>11, <1>12, <1>13 DEF NamingInv

-----------------------------------------------------------------------------
(* Every step *)

LEMMA InitNames == Init => NamingInv
<1> SUFFICES ASSUME Init PROVE NamingInv
  OBVIOUS
<1>1. /\ \A n \in Nodes : logPacket[n] = << >> /\ neighbourMap[n] = << >>
      /\ \A l \in Links : channel[l] = << >>
      /\ started = {ManagerId}
  BY DEF Init, DeviceInit
<1>2. /\ \A n \in Nodes : DOMAIN logPacket[n] = {} /\ DOMAIN neighbourMap[n] = {}
      /\ \A l \in Links : Len(channel[l]) = 0
  BY <1>1
<1>3. \A l \in Links : l[1] \in Nodes /\ l[2] \in Nodes
  BY LinksConnectNodes
<1>4. NeighbourNaming
  BY <1>2 DEF NeighbourNaming
<1>5. Routing
  BY <1>2 DEF Routing
<1>6. Freshness
  BY <1>2 DEF Freshness, IsAscending, IsAhead
<1>7. SilentUntilStarted
  BY <1>1, <1>2, <1>3 DEF SilentUntilStarted
<1>8. Users \cap started = {} /\ Switches \cap started = {}
  BY <1>1, Identifiers
<1>9. SwitchesMeet
  BY <1>8 DEF SwitchesMeet
<1>10. UsersMeet
  <2>1. ASSUME NEW l \in Links, l[1] \in Users
        PROVE  l[1] \notin DOMAIN neighbourMap[l[2]] /\ IsUnheard(l[1], l[2])
    <3>1. NoneIsSent(ContentOf(l[1]))
      BY <1>2 DEF NoneIsSent
    <3>2. l[1] \notin started
      BY <1>8, <2>1
    <3> QED BY <1>2, <1>3, <3>1, <3>2 DEF IsUnheard
  <2> QED BY <2>1 DEF UsersMeet
<1> QED
  BY <1>4, <1>5, <1>6, <1>7, <1>9, <1>10 DEF NamingInv

LEMMA SwitchNames ==
    ASSUME IInv, TypeInv', NEW s \in Switches, SwitchStep(s)
    PROVE  NamingInv'
<1>1. CASE StartSwitch(s)
  BY <1>1, StartSwitchNames
<1>2. ASSUME NEW d, ReceiveSwitch(s, d) PROVE NamingInv'
  BY <1>2, ReceiveSwitchExchange, ExchangeNames DEF IInv
<1>3. ASSUME NEW t, Gossip(s, t) PROVE NamingInv'
  BY <1>3, GossipExchange, ExchangeNames DEF IInv
<1> QED
  BY <1>1, <1>2, <1>3 DEF SwitchStep, GossipRound

LEMMA UserNames ==
    ASSUME IInv, TypeInv', NEW u \in Users, UserStep(u)
    PROVE  NamingInv'
<1>1. CASE StartUsers(u)
  BY <1>1, StartUsersNames
<1>2. ASSUME NEW a \in Users, CallSubscribe(u, a) PROVE NamingInv'
  BY <1>2, CallSubscribeExchange, ExchangeNames DEF IInv
<1>3. ASSUME NEW a \in Users, CallUnsubscribe(u, a) PROVE NamingInv'
  BY <1>3, CallUnsubscribeExchange, ExchangeNames DEF IInv
<1>4. CASE CallPush(u)
  BY <1>4, CallPushExchange, ExchangeNames DEF IInv
<1>5. ASSUME NEW d, ReceiveUser(u, d) PROVE NamingInv'
  <2>1. CASE AddSwitch(u, d)
    BY <2>1, AddSwitchExchange, ExchangeNames DEF IInv
  <2>2. CASE UpdateContent(u, d)
    BY <2>2, UpdateContentExchange, ExchangeNames DEF IInv
  <2>3. CASE AnswerOwnGossip(u, d)
    BY <2>3, AnswerOwnGossipExchange, ExchangeNames DEF IInv
  <2>4. CASE IgnorePacket(u, d)
    BY <2>4, IgnorePacketExchange, ExchangeNames DEF IInv
  <2>5. CASE MissPacket(u, d)
    BY <2>5, MissPacketNames
  <2> QED BY <1>5, <2>1, <2>2, <2>3, <2>4, <2>5 DEF ReceiveUser
<1> QED
  BY <1>1, <1>2, <1>3, <1>4, <1>5 DEF UserStep

LEMMA NextNames == IInv /\ TypeInv' /\ [Next]_vars => NamingInv'
<1> SUFFICES ASSUME IInv, TypeInv', [Next]_vars PROVE NamingInv'
  OBVIOUS
<1>1. ASSUME NEW s \in Switches, SwitchStep(s) PROVE NamingInv'
  BY <1>1, SwitchNames
<1>2. ASSUME NEW u \in Users, UserStep(u) PROVE NamingInv'
  BY <1>2, UserNames
<1>3. ASSUME NEW d, ReceiveManager(d) PROVE NamingInv'
  BY <1>3, ReceiveManagerExchange, ExchangeNames DEF IInv
<1>4. ASSUME NEW l \in LossyLinks, LosePacket(l) PROVE NamingInv'
  BY <1>4, LosePacketNames
<1>5. CASE UNCHANGED vars
  <2>1. UNCHANGED <<logPacket, neighbourMap, started, channel>>
    BY <1>5 DEF vars, deviceVars
  <2>2. NamingInv
    BY DEF IInv
  <2>3. NeighbourNaming' /\ SilentUntilStarted'
    BY <2>1, <2>2 DEF NamingInv, NeighbourNaming, Peers, Nodes, SilentUntilStarted
  <2>4. Routing' /\ Freshness'
    BY <2>1, <2>2
    DEF NamingInv, Routing, IsRouted, Freshness, IsAscending, IsAhead, CopyIn, IsRequestLog
  <2>5. SwitchesMeet' /\ UsersMeet'
    BY <2>1, <2>2
    DEF NamingInv, SwitchesMeet, IsIntroducing, UsersMeet, IsUnheard, NoneIsSent
  <2> QED BY <2>3, <2>4, <2>5 DEF NamingInv
<1> QED
  BY <1>1, <1>2, <1>3, <1>4, <1>5 DEF Next, ManagerStep

LEMMA SpecNames == Spec => []IInv
<1>1. Init => NamingInv
  BY InitNames
<1>2. TypeInv /\ LogIntegrity /\ ContentsInv /\ TypeInv' /\ NamingInv /\ [Next]_vars => NamingInv'
  BY NextNames DEF IInv
<1>3. TypeInv /\ LogIntegrity /\ ContentsInv /\ NamingInv => IInv
  BY DEF IInv
<1> QED
  BY <1>1, <1>2, <1>3, SpecType, LogsHaveIntegrity, SpecContents, PTL DEF Spec

\* A device is known under the id of the node it leads to and no other
\* (recvPkt, registerUser, isNeighbourToAdd): the first packet through it was
\* written by its sender, whatever relaying and gossip have gone on meanwhile.
THEOREM NeighboursAreNamed == Spec => []NeighbourNaming
<1>1. IInv => NeighbourNaming
  BY DEF IInv, NamingInv
<1> QED
  BY <1>1, SpecNames, PTL
=============================================================================
