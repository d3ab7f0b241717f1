----------------------------- MODULE RequestProofs -----------------------------
(***************************************************************************)
(* What becomes of requests: whom switches take to be interested in an     *)
(* author, and how often; what is lost of the logs switches keep for each  *)
(* other; and that users get what they asked for alone. It rests on who    *)
(* sends what to whom (NamingProofs).                                      *)
(***************************************************************************)
EXTENDS NamingProofs

-----------------------------------------------------------------------------
(* Names stay *)

LEMMA ExchangeKeepsNames ==
    ASSUME NEW n, NEW d, NEW out, Exchange(n, d, out), NEW m \in Nodes
    PROVE  DOMAIN neighbourMap[m] \subseteq DOMAIN neighbourMap'[m]
  BY NameKept DEF Exchange

LEMMA SwitchKeepsNames ==
    ASSUME IInv, NEW s \in Switches, SwitchStep(s), NEW m \in Nodes
    PROVE  DOMAIN neighbourMap[m] \subseteq DOMAIN neighbourMap'[m]
<1>1. ASSUME StartSwitch(s) PROVE UNCHANGED neighbourMap
  BY <1>1 DEF StartSwitch
<1>2. ASSUME NEW d, ReceiveSwitch(s, d) PROVE DOMAIN neighbourMap[m] \subseteq DOMAIN neighbourMap'[m]
  BY <1>2, ReceiveSwitchExchange, ExchangeKeepsNames
<1>3. ASSUME NEW t, Gossip(s, t) PROVE UNCHANGED neighbourMap
  BY <1>3 DEF Gossip
<1> QED
  BY <1>1, <1>2, <1>3 DEF SwitchStep, GossipRound

LEMMA UserKeepsNames ==
    ASSUME IInv, NEW u \in Users, UserStep(u), NEW s \in Switches
    PROVE  neighbourMap'[s] = neighbourMap[s]
<1>1. s \in Nodes /\ u # s /\ DOMAIN neighbourMap = Nodes
  BY Identifiers DEF IInv, TypeInv, NeighboursOK
<1>2. ASSUME NEW d, ReceiveUser(u, d) PROVE neighbourMap'[s] = neighbourMap[s]
  <2>1. ASSUME NEW map, neighbourMap' = [neighbourMap EXCEPT ![u] = map]
        PROVE  neighbourMap'[s] = neighbourMap[s]
    BY <1>1, <2>1
  <2> QED
    BY <1>2, <2>1
    DEF ReceiveUser, AddSwitch, UpdateContent, AnswerOwnGossip, IgnorePacket, MissPacket, Reading
<1>3. CASE StartUsers(u)
  BY <1>3 DEF StartUsers, StartUser
<1>4. ASSUME NEW a \in Users, CallSubscribe(u, a) \/ CallUnsubscribe(u, a)
      PROVE  UNCHANGED neighbourMap
  BY <1>4 DEF CallSubscribe, CallUnsubscribe, Subscribe, Unsubscribe
<1>5. CASE CallPush(u)
  BY <1>5 DEF CallPush, PushLogToSwitch
<1> QED
  BY <1>2, <1>3, <1>4, <1>5 DEF UserStep

LEMMA NamesStay ==
    ASSUME IInv, [Next]_vars, NEW s \in Switches
    PROVE  DOMAIN neighbourMap[s] \subseteq DOMAIN neighbourMap'[s]
<1>1. s \in Nodes
  BY Identifiers
<1>2. ASSUME NEW r \in Switches, SwitchStep(r) PROVE DOMAIN neighbourMap[s] \subseteq DOMAIN neighbourMap'[s]
  BY <1>1, <1>2, SwitchKeepsNames
<1>3. ASSUME NEW u \in Users, UserStep(u) PROVE neighbourMap'[s] = neighbourMap[s]
  BY <1>3, UserKeepsNames
<1>4. ASSUME NEW d, ReceiveManager(d) PROVE DOMAIN neighbourMap[s] \subseteq DOMAIN neighbourMap'[s]
  BY <1>1, <1>4, ReceiveManagerExchange, ExchangeKeepsNames
<1>5. ASSUME NEW l \in LossyLinks, LosePacket(l) PROVE UNCHANGED neighbourMap
  BY <1>5 DEF LosePacket
<1>6. CASE UNCHANGED vars
  BY <1>6 DEF vars, deviceVars
<1> QED
  BY <1>2, <1>3, <1>4, <1>5, <1>6 DEF Next, ManagerStep

\* A switch learns the name of the node it reads from.
LEMMA NewName ==
    ASSUME IInv, [Next]_vars, NEW s \in Switches,
           NEW a, a \in DOMAIN neighbourMap'[s], a \notin DOMAIN neighbourMap[s]
    PROVE  \E out : Exchange(s, a, out)
<1>1. s \in Nodes /\ s # ManagerId
  BY Identifiers
<1>2. ASSUME NEW n, NEW d, NEW out, Exchange(n, d, out) PROVE s = n /\ a = d
  BY <1>1, <1>2, NameStep DEF Exchange
<1>3. ASSUME NEW r \in Switches, NEW d, ReceiveSwitch(r, d) PROVE \E out : Exchange(s, a, out)
  <2>1. PICK out : Exchange(r, d, out)
    BY <1>3, ReceiveSwitchExchange
  <2> QED BY <1>2, <2>1
<1>4. ASSUME NEW r \in Switches, StartSwitch(r) \/ \E t : Gossip(r, t) PROVE UNCHANGED neighbourMap
  BY <1>4 DEF StartSwitch, Gossip
<1>5. ASSUME NEW u \in Users, UserStep(u) PROVE neighbourMap'[s] = neighbourMap[s]
  BY <1>5, UserKeepsNames
<1>6. ASSUME NEW d, ReceiveManager(d) PROVE FALSE
  <2>1. PICK out : Exchange(ManagerId, d, out)
    BY <1>6, ReceiveManagerExchange
  <2> QED BY <1>1, <1>2, <2>1
<1>7. ASSUME NEW l \in LossyLinks, LosePacket(l) PROVE UNCHANGED neighbourMap
  BY <1>7 DEF LosePacket
<1>8. CASE UNCHANGED vars
  BY <1>8 DEF vars, deviceVars
<1> QED
  BY <1>3, <1>4, <1>5, <1>6, <1>7, <1>8 DEF Next, ManagerStep, SwitchStep, GossipRound

-----------------------------------------------------------------------------
(* Interests *)

LEMMA InterestedDomain ==
    ASSUME NEW bag, NEW a, NEW k
    PROVE  DOMAIN Interested(bag, a, k) = DOMAIN bag \cup {<<a, k>>}
<1> DEFINE one == SetToBag({<<a, k>>})
<1>1. DOMAIN one = {<<a, k>>}
  BY DEF SetToBag
<1> HIDE DEF one
<1> QED
  BY <1>1 DEF Interested, (+), one

LEMMA CancelledDomain ==
    ASSUME NEW bag, NEW x
    PROVE  DOMAIN (bag (-) SetToBag({x})) \subseteq DOMAIN bag
  BY DEF (-)

\* A request that is served was written by the neighbour it came from: what
\* the manager writes names no author whose content is held.
LEMMA ServedFrom ==
    ASSUME IInv, NEW s \in Switches, NEW d, Receiving(s, d),
           ForSwitch(Arrived(s, d).type), IsServed(s, d)
    PROVE  Arrived(s, d).type # MyType /\ Arrived(s, d).shell.authorId = d
<1> DEFINE p == Arrived(s, d)
           t == p.type
           c == p.shell.shell
<1>1. /\ TypeInv /\ LogIntegrity /\ ContentsInv /\ s \in Nodes /\ Arriving(s, d)
      /\ p \in Packets
  BY ReadingParts
<1>2. t \in LogTypes
  BY <1>1, HandledTypes
<1>3. t # GossipAnswerType
  BY <1>2, AnswersHaveNoLog
<1>4. IsFittingPacket(p)
  BY <1>1, <1>3, ArrivedFits
<1>5. CASE t # MyType
  <2>1. IsRequestLog(t)
    BY <1>5 DEF IsRequestLog, ForSwitch
  <2>2. t[1] = d
    BY <2>1, RequestArrived
  <2>3. ~IsSubscription(t)
    BY <1>1, <2>1, RequestLogs
  <2> QED
    BY <1>4, <1>5, <2>2, <2>3 DEF IsFittingPacket
<1>6. CASE t = MyType
  <2>1. \/ c.function = "f" /\ c.params = "p"
        \/ Fits(MyType, p.shell.sequenceNum + 1, c)
    BY <1>4, <1>6 DEF IsFittingPacket, ShownOfEmptyLog, LogShell, ContentShell
  <2>2. c.function # "getContentFrom" /\ c.params \notin Users
    <3>1. "p" \notin Users /\ None \notin Users /\ Switches \cap Users = {}
      BY Identifiers
    <3> QED BY <2>1, <3>1 DEF Fits
  <2>3. ContentOf(c.params) \in DOMAIN logPacket[s]
    BY <2>2 DEF IsServed, exists
  <2>4. ContentOf(c.params) \in LogTypes /\ IsWritten(ContentOf(c.params))
    BY <1>1, <2>3, HeldFits
  <2>5. ContentOf(c.params)[1] = c.params /\ ContentOf(c.params)[2] = USER_ALL
    BY DEF ContentOf, LOGTYPE
  <2>6. ContentOf(c.params) # MyType
    BY <2>5, ReadersDiffer, <2>4
  <2> QED
    BY <2>2, <2>4, <2>5, <2>6 DEF IsWritten, IsPublished
<1> QED
  BY <1>5, <1>6

\* What a packet is about: the author a request names, or the one of content.
Wanted(s, d) ==
    IF ForSwitch(Arrived(s, d).type) THEN Arrived(s, d).shell.shell.params
    ELSE Arrived(s, d).shell.authorId

\* Who is new among the interests of s is the neighbour s has read from.
LEMMA InterestsStep ==
    ASSUME IInv, NEW s \in Switches, NEW d, ReceiveSwitch(s, d),
           NEW r \in Switches, NEW p \in DOMAIN interestedNeighbours'[r]
    PROVE  p \in DOMAIN interestedNeighbours[r] \/ (r = s /\ p = <<Wanted(s, d), d>>)
<1> DEFINE old == interestedNeighbours[s]
           key == getKeyByValue(Known(s, d), d)
<1>1. Receiving(s, d)
  BY DEF ReceiveSwitch, DropPacket, ServeRequest, AnswerSwitchGossip, RejectEntry,
         AcceptMember, AcceptPlugAndPlay, AcceptRequest, AcceptUnsubscribe, AcceptOther,
         ReceiveContent, ReceiveUserGossip, Accepts, IsAccepting, IsConcatenating
<1>2. key = d
  <2>1. IsNaming(Known(s, d)) /\ d \in DOMAIN Known(s, d) /\ d \in Nodes
    BY <1>1, ReadingParts
  <2> QED BY <2>1, KeyOfNaming
<1>3. DOMAIN interestedNeighbours = Switches
  BY DEF IInv, TypeInv, InterestsOK
<1>4. ASSUME NEW bag, interestedNeighbours' = [interestedNeighbours EXCEPT ![s] = bag],
             \A q \in DOMAIN bag : q \in DOMAIN old \/ q = <<Wanted(s, d), d>>
      PROVE  p \in DOMAIN interestedNeighbours[r] \/ (r = s /\ p = <<Wanted(s, d), d>>)
  BY <1>3, <1>4
<1>5. ASSUME NEW a, NEW k, k = d, a = Wanted(s, d)
      PROVE  \A q \in DOMAIN Interested(old, a, k) : q \in DOMAIN old \/ q = <<Wanted(s, d), d>>
  <2> HIDE DEF old
  <2>1. DOMAIN Interested(old, a, k) = DOMAIN old \cup {<<a, k>>}
    BY InterestedDomain
  <2> QED BY <1>5, <2>1
<1>6. CASE ServeRequest(s, d)
  <2> DEFINE a == Arrived(s, d).shell.shell.params
             k == Arrived(s, d).shell.authorId
             bag == Interested(old, a, k)
  <2>1. /\ ForSwitch(Arrived(s, d).type) /\ IsServed(s, d)
        /\ interestedNeighbours' = [interestedNeighbours EXCEPT ![s] = bag]
    BY <1>6 DEF ServeRequest
  <2>2. k = d /\ a = Wanted(s, d)
    BY <1>1, <2>1, ServedFrom DEF Wanted
  <2> HIDE DEF a, k, old
  <2>3. \A q \in DOMAIN bag : q \in DOMAIN old \/ q = <<Wanted(s, d), d>>
    BY <1>5, <2>2
  <2> HIDE DEF bag
  <2> QED BY <1>4, <2>1, <2>3
<1>7. CASE AcceptRequest(s, d)
  <2> DEFINE a == Arrived(s, d).shell.shell.params
             bag == Interested(old, a, key)
  <2>1. interestedNeighbours' = [interestedNeighbours EXCEPT ![s] = bag]
    BY <1>7 DEF AcceptRequest
  <2>4. a = Wanted(s, d)
    BY <1>7 DEF AcceptRequest, Accepts, IsAccepting, IsConcatenating, Wanted
  <2> HIDE DEF a, key, old
  <2>2. \A q \in DOMAIN bag : q \in DOMAIN old \/ q = <<Wanted(s, d), d>>
    BY <1>2, <1>5, <2>4
  <2> HIDE DEF bag
  <2> QED BY <1>4, <2>1, <2>2
<1>8. CASE AcceptUnsubscribe(s, d)
  <2> DEFINE cancelled == <<Arrived(s, d).shell.shell.params, Arrived(s, d).shell.authorId>>
             left == old (-) SetToBag({cancelled})
             Forwarding == \E q \in DOMAIN left : q[2] \notin Users
             bag == IF Forwarding /\ \A q \in DOMAIN left : q[1] # q[2] THEN EmptyBag ELSE left
  <2>1. interestedNeighbours' = [interestedNeighbours EXCEPT ![s] = bag]
    BY <1>8 DEF AcceptUnsubscribe
  <2> HIDE DEF cancelled, old
  <2>2. DOMAIN left \subseteq DOMAIN old
    BY CancelledDomain
  <2>3. DOMAIN EmptyBag = {}
    BY DEF EmptyBag, SetToBag
  <2> HIDE DEF left, Forwarding
  <2>4. \A q \in DOMAIN bag : q \in DOMAIN old \/ q = <<Wanted(s, d), d>>
    BY <2>2, <2>3
  <2> HIDE DEF bag
  <2> QED BY <1>4, <2>1, <2>4
<1>9. CASE ReceiveContent(s, d)
  <2> DEFINE a == Arrived(s, d).shell.authorId
             interests == IF <<a, key>> \in DOMAIN old THEN old ELSE Interested(old, a, key)
             accepted == isEntryConcatenated(logPacket[s], Arrived(s, d).type, Arrived(s, d).shell)
             bag == IF accepted THEN interests ELSE old
  <2>1. interestedNeighbours' = [interestedNeighbours EXCEPT ![s] = bag]
    BY <1>9 DEF ReceiveContent
  <2>4. a = Wanted(s, d)
    BY <1>9, Identifiers DEF ReceiveContent, ForUser, ForSwitch, Wanted, USER_ALL, SWITCH_ALL
  <2> HIDE DEF a, key, old, accepted
  <2>2. \A q \in DOMAIN bag : q \in DOMAIN old \/ q = <<Wanted(s, d), d>>
    BY <1>2, <1>5, <2>4
  <2> HIDE DEF bag
  <2> QED BY <1>4, <2>1, <2>2
<1>10. ASSUME UNCHANGED interestedNeighbours
       PROVE  p \in DOMAIN interestedNeighbours[r]
  BY <1>10
<1> QED
  BY <1>6, <1>7, <1>8, <1>9, <1>10
  DEF ReceiveSwitch, DropPacket, AnswerSwitchGossip, RejectEntry, AcceptMember,
      AcceptPlugAndPlay, AcceptOther, ReceiveUserGossip, switchVars

LEMMA NextInterests ==
    IInv /\ InterestsAreNeighbours /\ [Next]_vars => InterestsAreNeighbours'
<1> SUFFICES ASSUME IInv, InterestsAreNeighbours, [Next]_vars,
                    NEW r \in Switches, NEW p \in DOMAIN interestedNeighbours'[r]
             PROVE  p[2] \in DOMAIN neighbourMap'[r]
  BY DEF InterestsAreNeighbours
<1>1. DOMAIN neighbourMap[r] \subseteq DOMAIN neighbourMap'[r]
  BY NamesStay
<1>2. ASSUME p \in DOMAIN interestedNeighbours[r]
      PROVE  p[2] \in DOMAIN neighbourMap'[r]
  BY <1>1, <1>2 DEF InterestsAreNeighbours
<1>3. ASSUME NEW s \in Switches, NEW d, ReceiveSwitch(s, d)
      PROVE  p[2] \in DOMAIN neighbourMap'[r]
  <2>1. p \in DOMAIN interestedNeighbours[r] \/ (r = s /\ p[2] = d)
    BY <1>3, InterestsStep
  <2>2. PICK out : Exchange(s, d, out)
    BY <1>3, ReceiveSwitchExchange
  <2>3. d \in DOMAIN neighbourMap'[s]
    <3>1. Receiving(s, d)
      BY <1>3 DEF ReceiveSwitch, DropPacket, ServeRequest, AnswerSwitchGossip, RejectEntry,
         AcceptMember, AcceptPlugAndPlay, AcceptRequest, AcceptUnsubscribe, AcceptOther,
         ReceiveContent, ReceiveUserGossip, Accepts, IsAccepting, IsConcatenating
    <3>2. d # None /\ s # ManagerId
      BY <3>1, ReadingParts, Identifiers
    <3> QED BY <2>2, <3>2 DEF Exchange, NamesStep
  <2> QED BY <1>2, <2>1, <2>3
<1>4. ASSUME UNCHANGED interestedNeighbours
      PROVE  p[2] \in DOMAIN neighbourMap'[r]
  BY <1>2, <1>4
<1>5. ASSUME NEW s \in Switches, SwitchStep(s)
      PROVE  p[2] \in DOMAIN neighbourMap'[r]
  BY <1>3, <1>4, <1>5 DEF SwitchStep, StartSwitch, GossipRound, Gossip, switchVars
<1>6. ASSUME NEW u \in Users, UserStep(u)
      PROVE  UNCHANGED interestedNeighbours
  BY <1>6 DEF UserStep, StartUsers, CallSubscribe, CallUnsubscribe, CallPush, switchVars
<1>7. ASSUME ManagerStep
      PROVE  UNCHANGED interestedNeighbours
  BY <1>7 DEF ManagerStep, switchVars
<1>8. ASSUME NEW l \in LossyLinks, LosePacket(l)
      PROVE  UNCHANGED interestedNeighbours
  BY <1>8 DEF LosePacket, switchVars
<1>9. CASE UNCHANGED vars
  BY <1>4, <1>9 DEF vars, switchVars
<1> QED
  BY <1>4, <1>5, <1>6, <1>7, <1>8, <1>9 DEF Next

\* forward and forwardDeletion find a device for every subscriber: whoever a
\* switch takes to be interested, it has read a packet from.
THEOREM SubscribersAreNeighbours == Spec => []InterestsAreNeighbours
<1>1. Init => InterestsAreNeighbours
  <2>1. DOMAIN EmptyBag = {}
    BY DEF EmptyBag, SetToBag
  <2> HIDE DEF EmptyBag
  <2>2. Init => \A s \in Switches : interestedNeighbours[s] = EmptyBag
    BY DEF Init, SwitchInit
  <2> QED BY <2>1, <2>2 DEF InterestsAreNeighbours
<1>2. IInv /\ InterestsAreNeighbours /\ [Next]_vars => InterestsAreNeighbours'
  BY NextInterests
<1> QED
  BY <1>1, <1>2, SpecNames, PTL DEF Spec

-----------------------------------------------------------------------------
(* Every step sends and reads as an exchange does, or takes packets off links *)

IsExchanging ==
    \E n \in Nodes : \E d \in Nodes \cup {None} : \E out :
        LinksStep(n, d, out) /\ ListsStep(n, d)

LEMMA StartSwitchExchanges ==
    ASSUME IInv, NEW s \in Switches, StartSwitch(s)
    PROVE  IsExchanging
<1> DEFINE type == LOGTYPE(s, MANAGER_ALL)
           content == ContentShell("addToNetwork", s, 0)
           log == appendLogShell(NewLog(s), content)
<1>1. /\ s \notin started /\ started' = started \cup {s}
      /\ logPacket' = [logPacket EXCEPT ![s] = Insert(@, type, log)]
      /\ channel' = Sending(channel, s,
             [m \in Nodes |-> IF m \in Peers(s)
                              THEN <<NetShell(type, 0, getLastEntry(log))>> ELSE << >>])
  BY DEF StartSwitch
<1>2. s \in Nodes /\ content \in Contents
  BY Identifiers, ContentShellType DEF Functions
<1>3. type \in LogTypes /\ IsOwn(s, type) /\ type[2] = MANAGER_ALL
  BY OwnTypes DEF LOGTYPE
<1>4. type[2] \notin Nodes \cup {USER_ALL}
  BY <1>3, ReadersDiffer
<1> HIDE DEF type, content
<1>5. (\E out : LinksStep(s, None, out)) /\ ListsStep(s, None)
  BY <1>1, <1>2, <1>3, <1>4, StartingStep
<1> QED
  BY <1>2, <1>5 DEF IsExchanging

LEMMA StartUsersExchanges ==
    ASSUME IInv, NEW u \in Users, StartUsers(u)
    PROVE  IsExchanging
<1> DEFINE type == SwitchLog(u)
           content == ContentShell("plugAndPlay", u, 0)
           log == appendLogShell(NewLog(u), content)
<1>1. /\ u \notin started /\ started' = started \cup {u}
      /\ logPacket' = [logPacket EXCEPT ![u] = Insert(@, type, log)]
      /\ channel' = Sending(channel, u,
             [m \in Nodes |-> IF m \in Peers(u)
                              THEN <<NetShell(type, 0, getLastEntry(log))>> ELSE << >>])
  BY DEF StartUsers, StartUser
<1>2. u \in Nodes /\ content \in Contents
  BY Identifiers, ContentShellType DEF Functions
<1>3. type \in LogTypes /\ IsOwn(u, type) /\ type[2] = SWITCH_ALL
  BY OwnTypes DEF SwitchLog, LOGTYPE
<1>4. type[2] \notin Nodes \cup {USER_ALL}
  BY <1>3, ReadersDiffer
<1> HIDE DEF content, type
<1>5. (\E out : LinksStep(u, None, out)) /\ ListsStep(u, None)
  BY <1>1, <1>2, <1>3, <1>4, StartingStep
<1> QED
  BY <1>2, <1>5 DEF IsExchanging

LEMMA OneLinkThins ==
    ASSUME TypeInv, NEW l \in Links, channel[l] # << >>,
           channel' = [channel EXCEPT ![l] = Tail(@)]
    PROVE  IsThinning
<1>1. channel \in [Links -> Seq(Packets)]
  BY DEF TypeInv, LinksOK
<1> QED
  BY <1>1 DEF IsThinning

LEMMA NextExchanges ==
    ASSUME IInv, [Next]_vars
    PROVE  IsExchanging \/ (IsThinning /\ UNCHANGED logPacket)
<1>1. ASSUME NEW n, NEW d, NEW out, Exchange(n, d, out) PROVE IsExchanging
  BY <1>1 DEF Exchange, IsExchanging
<1>2. ASSUME NEW s \in Switches, SwitchStep(s) PROVE IsExchanging
  BY <1>1, <1>2, StartSwitchExchanges, ReceiveSwitchExchange, GossipExchange
  DEF SwitchStep, GossipRound
<1>3. ASSUME NEW u \in Users, NEW d, ReceiveUser(u, d)
      PROVE  IsExchanging \/ (IsThinning /\ UNCHANGED logPacket)
  <2>1. CASE MissPacket(u, d)
    <3>1. /\ Arriving(u, d) /\ channel' = Taking(u, d) /\ UNCHANGED logPacket
      BY <2>1 DEF MissPacket
    <3>2. TypeInv
      BY DEF IInv
    <3> QED BY <3>1, <3>2, OneLinkThins DEF Arriving, Taking
  <2> QED
    BY <1>1, <1>3, <2>1, AddSwitchExchange, UpdateContentExchange, AnswerOwnGossipExchange,
       IgnorePacketExchange
    DEF ReceiveUser
<1>4. ASSUME NEW u \in Users, UserStep(u)
      PROVE  IsExchanging \/ (IsThinning /\ UNCHANGED logPacket)
  BY <1>1, <1>3, <1>4, StartUsersExchanges, CallSubscribeExchange, CallUnsubscribeExchange,
     CallPushExchange
  DEF UserStep
<1>5. ASSUME NEW d, ReceiveManager(d) PROVE IsExchanging
  BY <1>1, <1>5, ReceiveManagerExchange
<1>6. ASSUME NEW l \in LossyLinks, LosePacket(l) PROVE IsThinning /\ UNCHANGED logPacket
  BY <1>6, OneLinkThins, LossBetweenSwitches DEF LosePacket, IInv
<1>7. CASE UNCHANGED vars
  BY <1>7 DEF vars, deviceVars, IsThinning
<1> QED
  BY <1>2, <1>4, <1>5, <1>6, <1>7 DEF Next, ManagerStep

-----------------------------------------------------------------------------
(* What is lost *)

\* No packet of queue is entry number next of log t.
IsWithout(queue, t, next) ==
    \A i \in 1..Len(queue) : queue[i].type # t \/ queue[i].shell.sequenceNum # next

LEMMA LostIs ==
    \A s \in Switches : \A k \in Switches :
        LET t == LOGTYPE(s, k)
            next == Len(CopyIn(logPacket[k], t))
        IN  IsLost(s, k) <=> /\ t \in DOMAIN logPacket[s]
                             /\ next < Len(CopyIn(logPacket[s], t))
                             /\ IsWithout(channel[<<s, k>>], t, next)
<1> SUFFICES ASSUME NEW s \in Switches, NEW k \in Switches
             PROVE  LET t == LOGTYPE(s, k)
                        next == Len(CopyIn(logPacket[k], t))
                    IN  IsLost(s, k) <=> /\ t \in DOMAIN logPacket[s]
                                         /\ next < Len(CopyIn(logPacket[s], t))
                                         /\ IsWithout(channel[<<s, k>>], t, next)
  OBVIOUS
<1> DEFINE t == LOGTYPE(s, k)
<1>1. (IF t \in DOMAIN logPacket[k] THEN Len(logPacket[k][t].log) ELSE 0)
          = Len(CopyIn(logPacket[k], t))
  BY EmptySeq DEF CopyIn
<1>2. t \in DOMAIN logPacket[s] => Len(CopyIn(logPacket[s], t)) = Len(logPacket[s][t].log)
  BY DEF CopyIn
<1> QED
  BY <1>1, <1>2 DEF IsLost, IsWithout

LEMMA LostIsNext ==
    ASSUME NEW s \in Switches, NEW k \in Switches
    PROVE  LET t == LOGTYPE(s, k)
               next == Len(CopyIn(logPacket'[k], t))
           IN  IsLost(s, k)' <=> /\ t \in DOMAIN logPacket'[s]
                                 /\ next < Len(CopyIn(logPacket'[s], t))
                                 /\ IsWithout(channel'[<<s, k>>], t, next)
<1> DEFINE t == LOGTYPE(s, k)
<1>1. (IF t \in DOMAIN logPacket'[k] THEN Len(logPacket'[k][t].log) ELSE 0)
          = Len(CopyIn(logPacket'[k], t))
  BY EmptySeq DEF CopyIn
<1>2. t \in DOMAIN logPacket'[s]
          => Len(CopyIn(logPacket'[s], t)) = Len(logPacket'[s][t].log)
  BY DEF CopyIn
<1> QED
  BY <1>1, <1>2 DEF IsLost, IsWithout

LEMMA WithoutEnqueued ==
    ASSUME NEW q \in Seq(Packets), NEW ps \in Seq(Packets), Len(q) <= QueueSize,
           NEW t, NEW next, IsWithout(q, t, next), IsWithout(ps, t, next)
    PROVE  IsWithout(Enqueue(q, ps), t, next)
<1> DEFINE e == Enqueue(q, ps)
<1> HIDE DEF e
<1>1. /\ Len(q) \in Nat /\ Len(e) \in Nat /\ Len(ps) \in Nat
      /\ Len(q) <= Len(e) /\ Len(e) <= Len(q) + Len(ps)
      /\ \A i \in 1..Len(q) : e[i] = q[i]
      /\ \A i \in 1..Len(e) : i > Len(q) => e[i] = ps[i - Len(q)]
  BY EnqueueIs DEF e
<1>2. ASSUME NEW i \in 1..Len(e)
      PROVE  e[i].type # t \/ e[i].shell.sequenceNum # next
  <2>1. CASE i <= Len(q)
    <3>1. i \in 1..Len(q) /\ e[i] = q[i]
      BY <1>1, <2>1
    <3> QED BY <3>1 DEF IsWithout
  <2>2. CASE i > Len(q)
    <3>1. i - Len(q) \in 1..Len(ps) /\ e[i] = ps[i - Len(q)]
      BY <1>1, <2>2
    <3> QED BY <3>1 DEF IsWithout
  <2> QED BY <1>1, <2>1, <2>2
<1> QED
  BY <1>2 DEF IsWithout, e

LEMMA WithoutTail ==
    ASSUME NEW q \in Seq(Packets), q # << >>, NEW t, NEW next, IsWithout(q, t, next)
    PROVE  IsWithout(Tail(q), t, next)
<1>1. \A i \in 1..Len(Tail(q)) : i + 1 \in 1..Len(q) /\ Tail(q)[i] = q[i + 1]
  BY TailIs
<1> QED
  BY <1>1 DEF IsWithout

\* The log a switch keeps for another is a log of requests.
LEMMA KeptForSwitch ==
    ASSUME NEW s \in Switches, NEW k \in Switches
    PROVE  LET t == LOGTYPE(s, k)
           IN  /\ t \in LogTypes /\ t[1] = s /\ t[2] = k
               /\ IsRequestLog(t) /\ ~IsPublished(t)
<1>1. LOGTYPE(s, k) \in LogTypes
  BY Identifiers, LogTypesAre
<1>2. k # SWITCH_ALL /\ k # USER_ALL
  BY Identifiers, ReadersDiffer
<1>3. LOGTYPE(s, k) # MyType
  BY <1>2 DEF MyType, LOGTYPE
<1> QED
  BY <1>1, <1>2, <1>3 DEF LOGTYPE, IsRequestLog, IsPublished

\* What s has written for k stays, and is only added to.
LEMMA KeptGrows ==
    ASSUME TypeInv, TypeInv', WrittenLogsGrow, NEW s \in Switches, NEW k \in Switches,
           LOGTYPE(s, k) \in DOMAIN logPacket[s]
    PROVE  /\ LOGTYPE(s, k) \in DOMAIN logPacket'[s]
           /\ Len(CopyIn(logPacket[s], LOGTYPE(s, k))) \in Nat
           /\ Len(CopyIn(logPacket'[s], LOGTYPE(s, k))) \in Nat
           /\ Len(CopyIn(logPacket[s], LOGTYPE(s, k)))
                  <= Len(CopyIn(logPacket'[s], LOGTYPE(s, k)))
<1> DEFINE t == LOGTYPE(s, k)
<1>1. t \in LogTypes /\ t[1] = s /\ ~IsPublished(t) /\ s \in Nodes
  BY KeptForSwitch, Identifiers
<1> HIDE DEF t
<1>2. IsWritten(t)
  BY <1>1 DEF IsWritten, t
<1>3. IsWritten(t)' /\ IsPrefix(WrittenLog(t), WrittenLog(t)')
  BY <1>1, <1>2 DEF WrittenLogsGrow
<1>4. t \in DOMAIN logPacket'[s]
  BY <1>1, <1>3 DEF IsWritten, IsPublished, MyType
<1>5. /\ WrittenLog(t) = logPacket[s][t].log
      /\ WrittenLog(t)' = logPacket'[s][t].log
  BY <1>1 DEF WrittenLog, IsPublished, MyType
<1>6. IsLogList(logPacket[s]) /\ IsLogList(logPacket'[s])
  BY <1>1 DEF TypeInv, ListsOK
<1>7. logPacket[s][t] \in Logs /\ logPacket'[s][t] \in Logs
  BY <1>4, <1>6, LogOfList DEF t
<1>8. logPacket[s][t].log \in Seq(Entries) /\ logPacket'[s][t].log \in Seq(Entries)
  BY <1>7 DEF Logs
<1>9. /\ CopyIn(logPacket[s], t) = logPacket[s][t].log
      /\ CopyIn(logPacket'[s], t) = logPacket'[s][t].log
  BY <1>4 DEF CopyIn, t
<1>10. IsPrefix(logPacket[s][t].log, logPacket'[s][t].log)
  BY <1>3, <1>5
<1> QED
  BY <1>4, <1>8, <1>9, <1>10, PrefixIs, LenProperties DEF t

\* The next request k lacks cannot arrive: it is not on its way, and s sends
\* from the end of its log only.
LEMMA LostStep ==
    ASSUME IInv, TypeInv', WrittenLogsGrow, IsExchanging,
           NEW s \in Switches, NEW k \in Switches, <<s, k>> \in Links, IsLost(s, k)
    PROVE  IsLost(s, k)'
<1> DEFINE t == LOGTYPE(s, k)
           l == <<s, k>>
           next == Len(CopyIn(logPacket[k], t))
<1>1. /\ TypeInv /\ LogIntegrity /\ Routing
  BY DEF IInv, NamingInv
<1>2. PICK n \in Nodes, d \in Nodes \cup {None} : \E out : LinksStep(n, d, out) /\ ListsStep(n, d)
  BY DEF IsExchanging
<1>3. PICK out : LinksStep(n, d, out) /\ ListsStep(n, d)
  BY <1>2
<1>4. /\ t \in LogTypes /\ t[1] = s /\ IsRequestLog(t) /\ s \in Nodes /\ k \in Nodes /\ s # k
      /\ l \in Links /\ l[1] = s /\ l[2] = k
  BY KeptForSwitch, Identifiers, LinksConnectNodes
<1>5. /\ t \in DOMAIN logPacket[s]
      /\ next < Len(CopyIn(logPacket[s], t))
      /\ IsWithout(channel[l], t, next)
  BY LostIs
<1>6. /\ channel[l] \in Seq(Packets) /\ Len(channel[l]) <= QueueSize
  BY <1>1, <1>4, LinkOfType
<1>7. next \in Nat /\ Len(CopyIn(logPacket[s], t)) \in Nat
  BY <1>1, <1>4, CopyOfType
<1>8. /\ t \in DOMAIN logPacket'[s]
      /\ Len(CopyIn(logPacket'[s], t)) \in Nat
      /\ Len(CopyIn(logPacket[s], t)) <= Len(CopyIn(logPacket'[s], t))
  BY <1>1, <1>5, KeptGrows
<1> HIDE DEF t, l, next
<1>9. CopyIn(logPacket'[k], t) = CopyIn(logPacket[k], t)
  <2>1. CASE n # k
    BY <1>3, <1>4, <2>1, CopiesKept
  <2>2. CASE n = k
    <3> DEFINE e == CopyIn(logPacket[s], t)[1]
               p == NetShell(t, 0, e)
    <3>1. CopyIn(logPacket[s], t) \in Seq(Entries)
      BY <1>1, <1>4, CopyOfType
    <3>2. 1 \in 1..Len(CopyIn(logPacket[s], t))
      BY <1>5, <1>7
    <3>3. e \in Entries
      BY <3>1, <3>2, ElementOfSeq
    <3>4. p \in Packets /\ p.type = t
      BY <1>4, <3>3, NetShellType DEF NetShell
    <3> HIDE DEF p
    <3>5. \/ CopyIn(logPacket'[k], t) = CopyIn(logPacket[k], t)
          \/ d # None /\ t = Arrived(k, d).type /\ t[1] = d /\ Arrived(k, d).shell.sequenceNum = next
      BY <1>1, <1>3, <1>4, <2>2, <3>4, RequestCopies DEF next
    <3>6. ASSUME t = Arrived(k, d).type, t[1] = d, Arrived(k, d).shell.sequenceNum = next
          PROVE  FALSE
      <4>1. channel[l] # << >> /\ Head(channel[l]) = Arrived(k, d)
        BY <1>1, <1>3, <1>4, <2>2, <3>6, ReadIs
      <4>2. Head(channel[l]) = channel[l][1] /\ 1 \in 1..Len(channel[l])
        BY <1>6, <4>1, TailIs
      <4> QED BY <1>5, <3>6, <4>1, <4>2 DEF IsWithout
    <3> QED BY <3>5, <3>6
  <2> QED BY <2>1, <2>2
<1>10. IsWithout(channel'[l], t, next)
  <2>1. CASE n = s
    <3>1. /\ channel'[l] = Enqueue(channel[l], out[k])
          /\ out[k] \in Seq(Packets) /\ IsOutgoing(n, d, k, out[k])
      <4>1. TypeInv /\ LinksStep(n, d, out) /\ l \in Links /\ l[1] = n
        BY <1>1, <1>3, <1>4, <2>1
      <4>2. /\ channel'[l] = Enqueue(channel[l], out[l[2]])
            /\ out[l[2]] \in Seq(Packets) /\ IsOutgoing(n, d, l[2], out[l[2]])
        BY <4>1, SentIs, SMTT(60)
      <4> QED BY <1>4, <4>2
    <3>2. IsAhead(logPacket[s], out[k])
      BY <2>1, <3>1 DEF IsOutgoing
    <3>3. ASSUME NEW i \in 1..Len(out[k]), out[k][i].type = t
          PROVE  out[k][i].shell.sequenceNum # next
      <4>1. out[k][i].shell.sequenceNum >= Len(CopyIn(logPacket[s], t))
        BY <1>4, <3>2, <3>3 DEF IsAhead
      <4>2. out[k][i] \in Packets
        BY <3>1, ElementOfSeq
      <4>3. out[k][i].shell.sequenceNum \in Int
        BY <4>2, PacketType, EntryType
      <4> QED BY <1>5, <1>7, <4>1, <4>3
    <3>4. IsWithout(out[k], t, next)
      BY <3>3 DEF IsWithout
    <3> QED BY <1>5, <1>6, <3>1, <3>4, WithoutEnqueued
  <2>2. CASE n = k /\ d = s
    <3>1. channel[l] # << >> /\ channel'[l] = Tail(channel[l])
      BY <1>1, <1>3, <1>4, <2>2, ReadIs
    <3> QED BY <1>5, <1>6, <3>1, WithoutTail
  <2>3. CASE n # s /\ ~(n = k /\ d = s)
    <3>1. channel'[l] = channel[l]
      BY <1>1, <1>3, <1>4, <2>3, UntouchedIs
    <3> QED BY <1>5, <3>1
  <2> QED BY <2>1, <2>2, <2>3
<1>11. /\ t \in DOMAIN logPacket'[s]
       /\ Len(CopyIn(logPacket'[k], t)) < Len(CopyIn(logPacket'[s], t))
       /\ IsWithout(channel'[l], t, Len(CopyIn(logPacket'[k], t)))
  <2>1. Len(CopyIn(logPacket'[k], t)) = next
    BY <1>9 DEF next
  <2>2. next < Len(CopyIn(logPacket'[s], t))
    BY <1>5, <1>7, <1>8
  <2> QED BY <1>8, <1>10, <2>1, <2>2
<1> QED
  BY <1>11, LostIsNext DEF t, l

LEMMA LostThinning ==
    ASSUME TypeInv, IsThinning, UNCHANGED logPacket,
           NEW s \in Switches, NEW k \in Switches, <<s, k>> \in Links, IsLost(s, k)
    PROVE  IsLost(s, k)'
<1> DEFINE t == LOGTYPE(s, k)
           l == <<s, k>>
           next == Len(CopyIn(logPacket[k], t))
<1>1. /\ t \in DOMAIN logPacket[s]
      /\ next < Len(CopyIn(logPacket[s], t))
      /\ IsWithout(channel[l], t, next)
  BY LostIs
<1>2. channel[l] \in Seq(Packets)
  BY LinkOfType
<1>3. channel'[l] = channel[l] \/ (channel[l] # << >> /\ channel'[l] = Tail(channel[l]))
  BY DEF IsThinning
<1> HIDE DEF l, t, next
<1>4. IsWithout(channel'[l], t, next)
  BY <1>1, <1>2, <1>3, WithoutTail
<1>5. /\ t \in DOMAIN logPacket'[s]
      /\ Len(CopyIn(logPacket'[k], t)) < Len(CopyIn(logPacket'[s], t))
      /\ IsWithout(channel'[l], t, Len(CopyIn(logPacket'[k], t)))
  BY <1>1, <1>4 DEF next
<1> QED
  BY <1>5, LostIsNext DEF t, l

LEMMA NextLost ==
    IInv /\ TypeInv' /\ WrittenLogsGrow /\ [Next]_vars =>
        \A s \in Switches : \A k \in Switches \cap Peers(s) : IsLost(s, k) => IsLost(s, k)'
<1> SUFFICES ASSUME IInv, TypeInv', WrittenLogsGrow, [Next]_vars,
                    NEW s \in Switches, NEW k \in Switches \cap Peers(s), IsLost(s, k)
             PROVE  IsLost(s, k)'
  OBVIOUS
<1>1. <<s, k>> \in Links /\ TypeInv
  BY DEF Peers, IInv
<1>2. IsExchanging \/ (IsThinning /\ UNCHANGED logPacket)
  BY NextExchanges
<1>3. CASE IsExchanging
  BY <1>1, <1>3, LostStep
<1>4. CASE IsThinning /\ UNCHANGED logPacket
  BY <1>1, <1>4, LostThinning
<1> QED
  BY <1>2, <1>3, <1>4

\* A request a switch has written for another and that was dropped or lost on
\* the way stays lost, whatever the two exchange later: nothing sends an entry
\* of such a log again, and the other takes no later one before it
\* (getLogPacketsWithType, isSubsequentEntry, sendEntryFromIndexTo).
THEOREM RequestsStayLost == Spec => LostRequestsStayLost
<1> DEFINE Stays == \A s \in Switches : \A k \in Switches \cap Peers(s) :
                        IsLost(s, k) => IsLost(s, k)'
<1>1. TypeInv /\ LogIntegrity /\ [Next]_vars => WrittenLogsGrow
  BY NextLogs
<1>2. IInv => TypeInv /\ LogIntegrity
  BY DEF IInv
<1>3. IInv /\ TypeInv' /\ [Next]_vars => [Stays]_vars
  BY <1>1, <1>2, NextLost
<1> QED
  BY <1>3, SpecNames, SpecType, PTL DEF Spec, LostRequestsStayLost

-----------------------------------------------------------------------------
(* What has been asked for *)

\* The entries among the first q of a log that are requests for the content
\* of a.
Asked(log, q, a) ==
    {i \in 1..Len(log) : /\ i <= q
                         /\ log[i].shell.function \in Requests /\ log[i].shell.params = a}

\* n is no more than the log has requests for a, and no more than it has before
\* each of its entries in queue: these are still to be read.
AreAsked(n, a, log, queue, t) ==
    /\ n <= Cardinality(Asked(log, Len(log), a))
    /\ \A i \in 1..Len(queue) :
           queue[i].type = t => n <= Cardinality(Asked(log, queue[i].shell.sequenceNum, a))

Times(bag, p) == IF p \in DOMAIN bag THEN bag[p] ELSE 0

\* How often k is interested in a at switch s, not counting that content of a
\* may have come from there.
Excess(s, k, a) ==
    Times(interestedNeighbours[s], <<a, k>>)
        - (IF ContentOf(a) \in DOMAIN logPacket[s] THEN 1 ELSE 0)

\* Each interest goes back to a request of its own that has been read.
RequestsPrecede ==
    \A l \in Links : l[2] \in Switches =>
        \A a \in Nodes :
            AreAsked(Excess(l[2], l[1], a), a,
                     CopyIn(logPacket[l[1]], RequestLog(l[1], l[2])), channel[l],
                     RequestLog(l[1], l[2]))

\* A user that a switch has heard of, it does not hear of for the first time.
PlugAndPlayOnce ==
    \A l \in Links : l[1] \in Users /\ l[1] \in DOMAIN neighbourMap[l[2]] =>
        \A i \in 1..Len(channel[l]) :
            channel[l][i].type = SwitchLog(l[1]) => channel[l][i].shell.sequenceNum > 0

AskInv == RequestsPrecede /\ PlugAndPlayOnce

-----------------------------------------------------------------------------
(* Counting requests *)

LEMMA AskedIsFinite ==
    ASSUME NEW log, Len(log) \in Nat, NEW q, NEW a
    PROVE  /\ IsFiniteSet(Asked(log, q, a))
           /\ Cardinality(Asked(log, q, a)) \in Nat
<1>1. IsFiniteSet(1..Len(log))
  BY FS_Interval
<1>2. Asked(log, q, a) \in SUBSET (1..Len(log))
  BY DEF Asked
<1> QED
  BY <1>1, <1>2, FS_Subset, FS_CardinalityType

LEMMA AskedGrows ==
    ASSUME NEW log \in Seq(Entries), NEW new \in Seq(Entries), IsPrefix(log, new),
           NEW q \in Int, NEW r \in Int, q <= r \/ Len(log) <= r, NEW a
    PROVE  Cardinality(Asked(log, q, a)) <= Cardinality(Asked(new, r, a))
<1>1. /\ Len(log) \in Nat /\ Len(new) \in Nat /\ Len(log) <= Len(new)
      /\ \A i \in 1..Len(log) : log[i] = new[i]
  BY LenProperties, PrefixIs
<1>2. Asked(log, q, a) \in SUBSET Asked(new, r, a)
  BY <1>1 DEF Asked
<1> QED
  BY <1>1, <1>2, AskedIsFinite, FS_Subset

LEMMA AskedNext ==
    ASSUME NEW log, Len(log) \in Nat, NEW q \in Nat, q + 1 \in 1..Len(log), NEW a,
           log[q + 1].shell.function \in Requests, log[q + 1].shell.params = a
    PROVE  Cardinality(Asked(log, q + 1, a)) = Cardinality(Asked(log, q, a)) + 1
<1>1. Asked(log, q + 1, a) = Asked(log, q, a) \cup {q + 1}
  <2> HIDE DEF Requests
  <2> QED BY DEF Asked
<1>2. q + 1 \notin Asked(log, q, a)
  BY DEF Asked
<1> QED
  BY <1>1, <1>2, AskedIsFinite, FS_AddElement

\* Nothing needs no request.
LEMMA NoneAsked ==
    ASSUME NEW n \in Int, n <= 0, NEW a, NEW log, Len(log) \in Nat, NEW queue, NEW t
    PROVE  AreAsked(n, a, log, queue, t)
<1>1. \A q : Cardinality(Asked(log, q, a)) \in Nat
  BY AskedIsFinite
<1>2. \A q : n <= Cardinality(Asked(log, q, a))
  BY <1>1
<1> QED
  BY <1>2 DEF AreAsked

\* A queue loses entries, and gets those that are new to the log.
LEMMA StillAsked ==
    ASSUME NEW queue \in Seq(Packets), NEW next \in Seq(Packets), NEW t, NEW a,
           NEW log \in Seq(Entries), NEW new \in Seq(Entries), IsPrefix(log, new),
           NEW n \in Int, NEW m \in Int, m <= n, AreAsked(n, a, log, queue, t),
           \A j \in 1..Len(next) : next[j].type = t =>
               \/ \E i \in 1..Len(queue) : next[j] = queue[i]
               \/ next[j].shell.sequenceNum >= Len(log)
    PROVE  AreAsked(m, a, new, next, t)
<1>1. Len(log) \in Nat /\ Len(new) \in Nat /\ Len(log) <= Len(new)
  BY LenProperties, PrefixIs
<1>2. \A q : Cardinality(Asked(log, q, a)) \in Nat /\ Cardinality(Asked(new, q, a)) \in Nat
  BY <1>1, AskedIsFinite
<1>3. m <= Cardinality(Asked(new, Len(new), a))
  <2>1. Len(log) \in Int /\ Len(new) \in Int
    BY <1>1
  <2>3. Cardinality(Asked(log, Len(log), a)) <= Cardinality(Asked(new, Len(new), a))
    BY <1>1, <2>1, AskedGrows
  <2>2. n <= Cardinality(Asked(log, Len(log), a))
    BY DEF AreAsked
  <2> QED BY <1>2, <2>2, <2>3
<1>4. ASSUME NEW j \in 1..Len(next), next[j].type = t
      PROVE  m <= Cardinality(Asked(new, next[j].shell.sequenceNum, a))
  <2> DEFINE r == next[j].shell.sequenceNum
  <2>1. next[j] \in Packets
    BY ElementOfSeq
  <2>2. r \in Int
    BY <2>1, PacketType, EntryType
  <2>3. CASE \E i \in 1..Len(queue) : next[j] = queue[i]
    <3>1. n <= Cardinality(Asked(log, r, a))
      BY <1>4, <2>3 DEF AreAsked
    <3> HIDE DEF r
    <3>2. Cardinality(Asked(log, r, a)) <= Cardinality(Asked(new, r, a))
      BY <2>2, AskedGrows
    <3>3. m <= Cardinality(Asked(new, r, a))
      BY <1>2, <3>1, <3>2
    <3> QED BY <3>3 DEF r
  <2>4. CASE r >= Len(log)
    <3>1. n <= Cardinality(Asked(log, Len(log), a))
      BY DEF AreAsked
    <3> HIDE DEF r
    <3>2. Cardinality(Asked(log, Len(log), a)) <= Cardinality(Asked(new, r, a))
      BY <1>1, <2>2, <2>4, AskedGrows
    <3>3. m <= Cardinality(Asked(new, r, a))
      BY <1>2, <3>1, <3>2
    <3> QED BY <3>3 DEF r
  <2> QED BY <1>4, <2>3, <2>4
<1> QED
  BY <1>3, <1>4 DEF AreAsked

\* The request at the head of the queue is read.
LEMMA OneMoreAsked ==
    ASSUME NEW queue \in Seq(Packets), queue # << >>, IsAscending(queue),
           NEW t, IsRequestLog(t), Head(queue).type = t,
           NEW a, NEW log \in Seq(Entries), NEW new \in Seq(Entries), IsPrefix(log, new),
           NEW q \in Nat, q = Head(queue).shell.sequenceNum, q + 1 \in 1..Len(log),
           log[q + 1].shell.function \in Requests, log[q + 1].shell.params = a,
           NEW n \in Int, NEW m \in Int, m <= n + 1, AreAsked(n, a, log, queue, t)
    PROVE  AreAsked(m, a, new, Tail(queue), t)
<1>1. Len(log) \in Nat /\ Len(new) \in Nat /\ Len(log) <= Len(new)
  BY LenProperties, PrefixIs
<1>2. \A r : Cardinality(Asked(log, r, a)) \in Nat /\ Cardinality(Asked(new, r, a)) \in Nat
  BY <1>1, AskedIsFinite
<1>3. /\ Head(queue) = queue[1] /\ 1 \in 1..Len(queue) /\ Tail(queue) \in Seq(Packets)
      /\ \A i \in 1..Len(Tail(queue)) : Tail(queue)[i] = queue[i + 1]
  BY TailIs
<1>4. n <= Cardinality(Asked(log, q, a))
  BY <1>3 DEF AreAsked
<1>5. m <= Cardinality(Asked(log, q + 1, a))
  <2>1. Cardinality(Asked(log, q + 1, a)) = Cardinality(Asked(log, q, a)) + 1
    BY <1>1, AskedNext
  <2> QED BY <1>2, <1>4, <2>1
<1>6. ASSUME NEW r \in Int, q + 1 <= r
      PROVE  m <= Cardinality(Asked(new, r, a))
  <2>1. Cardinality(Asked(log, q + 1, a)) <= Cardinality(Asked(new, r, a))
    BY <1>6, AskedGrows
  <2> QED BY <1>2, <1>5, <2>1
<1>7. m <= Cardinality(Asked(new, Len(new), a))
  BY <1>1, <1>6
<1>8. ASSUME NEW i \in 1..Len(Tail(queue)), Tail(queue)[i].type = t
      PROVE  m <= Cardinality(Asked(new, Tail(queue)[i].shell.sequenceNum, a))
  <2>1. Tail(queue)[i].shell.sequenceNum > q
    BY <1>8, AscendingTail
  <2>2. Tail(queue)[i] \in Packets
    BY <1>3, ElementOfSeq
  <2>3. Tail(queue)[i].shell.sequenceNum \in Int
    BY <2>2, PacketType, EntryType
  <2> QED BY <1>6, <2>1, <2>3, SMTT(30)
<1> QED
  BY <1>7, <1>8 DEF AreAsked

-----------------------------------------------------------------------------
(* Requests on their way *)

LEMMA RequestLogIs ==
    ASSUME NEW s \in Switches, NEW k \in Nodes
    PROVE  LET t == RequestLog(k, s)
           IN  /\ t \in LogTypes /\ t[1] = k /\ IsRequestLog(t) /\ ~IsPublished(t)
<1>1. CASE k \in Users
  BY <1>1, ContentTypes DEF RequestLog, IsRequestLog, IsPublished
<1>2. CASE k \notin Users
  <2>1. LOGTYPE(k, s) \in LogTypes
    BY Identifiers, LogTypesAre
  <2>2. s # SWITCH_ALL /\ s # USER_ALL
    BY Identifiers, ReadersDiffer
  <2>3. LOGTYPE(k, s) # MyType
    BY <2>2 DEF MyType, LOGTYPE
  <2> QED
    BY <1>2, <2>1, <2>2, <2>3 DEF RequestLog, LOGTYPE, IsRequestLog, IsPublished
<1> QED
  BY <1>1, <1>2

\* A log that is not published is only added to by its writer.
LEMMA WrittenCopies ==
    ASSUME TypeInv, TypeInv', WrittenLogsGrow, NEW t \in LogTypes, ~IsPublished(t)
    PROVE  /\ CopyIn(logPacket[t[1]], t) \in Seq(Entries)
           /\ CopyIn(logPacket'[t[1]], t) \in Seq(Entries)
           /\ IsPrefix(CopyIn(logPacket[t[1]], t), CopyIn(logPacket'[t[1]], t))
<1> DEFINE n == t[1]
<1>1. n \in Nodes
  BY LogTypeParts
<1> HIDE DEF n
<1>2. CopyIn(logPacket[n], t) \in Seq(Entries)
  BY <1>1, CopyOfType
<1>3. IsLogList(logPacket'[n])
  BY <1>1 DEF TypeInv, ListsOK
<1>4. t \in DOMAIN logPacket'[n] => logPacket'[n][t].log \in Seq(Entries)
  BY <1>3, LogOfList, LogType
<1>5. CopyIn(logPacket'[n], t) \in Seq(Entries)
  BY <1>4 DEF CopyIn
<1>6. CASE t \in DOMAIN logPacket[n]
  <2>1. IsWritten(t)
    BY <1>6 DEF IsWritten, n
  <2>2. IsWritten(t)' /\ IsPrefix(WrittenLog(t), WrittenLog(t)')
    BY <2>1 DEF WrittenLogsGrow
  <2>3. t \in DOMAIN logPacket'[n]
    BY <2>2 DEF IsWritten, IsPublished, MyType, n
  <2>4. WrittenLog(t) = logPacket[n][t].log /\ WrittenLog(t)' = logPacket'[n][t].log
    BY DEF WrittenLog, IsPublished, MyType, n
  <2>5. IsPrefix(CopyIn(logPacket[n], t), CopyIn(logPacket'[n], t))
    BY <1>6, <2>2, <2>3, <2>4 DEF CopyIn
  <2> QED BY <1>2, <1>5, <2>5 DEF n
<1>7. CASE t \notin DOMAIN logPacket[n]
  <2> DEFINE x == CopyIn(logPacket[n], t)
             y == CopyIn(logPacket'[n], t)
  <2>1. x = << >>
    BY <1>7 DEF CopyIn
  <2>2. x \in Seq(Entries) /\ y \in Seq(Entries)
    BY <1>2, <1>5
  <2> HIDE DEF x, y
  <2>3. Len(x) = 0 /\ Len(y) \in Nat
    BY <2>1, <2>2, EmptySeq, LenProperties
  <2>5. Len(x) <= Len(y) /\ \A i \in 1..Len(x) : x[i] = y[i]
    BY <2>3
  <2>4. IsPrefix(x, y)
    BY <2>2, <2>5, PrefixIs
  <2> QED BY <2>2, <2>4 DEF x, y, n
<1> QED
  BY <1>6, <1>7

\* What is under way afterwards was before, or is new to its log.
LEMMA QueuedRequests ==
    ASSUME TypeInv, NEW n \in Nodes, NEW d \in Nodes \cup {None}, NEW out,
           LinksStep(n, d, out), NEW l \in Links, NEW t, IsRequestLog(t)
    PROVE  /\ channel'[l] \in Seq(Packets)
           /\ \A j \in 1..Len(channel'[l]) : channel'[l][j].type = t =>
                  \/ \E i \in 1..Len(channel[l]) : channel'[l][j] = channel[l][i]
                  \/ channel'[l][j].shell.sequenceNum >= Len(CopyIn(logPacket[l[1]], t))
<1> DEFINE q == channel[l]
           r == channel'[l]
           next == Len(CopyIn(logPacket[l[1]], t))
<1>1. q \in Seq(Packets) /\ Len(q) <= QueueSize
  BY LinkOfType
<1>2. CASE l[1] = n
  <2> DEFINE ps == out[l[2]]
  <2>1. r = Enqueue(q, ps) /\ ps \in Seq(Packets) /\ IsOutgoing(n, d, l[2], ps)
    BY <1>2, SentIs, ZenonT(60)
  <2>2. \A i \in 1..Len(ps) : ps[i].type = t => ps[i].shell.sequenceNum >= next
    BY <1>2, <2>1 DEF IsOutgoing, IsAhead
  <2> HIDE DEF q, r, ps, next
  <2>3. /\ r \in Seq(Packets) /\ Len(q) \in Nat /\ Len(r) \in Nat /\ Len(ps) \in Nat
        /\ Len(q) <= Len(r) /\ Len(r) <= Len(q) + Len(ps)
        /\ \A i \in 1..Len(q) : r[i] = q[i]
        /\ \A i \in 1..Len(r) : i > Len(q) => r[i] = ps[i - Len(q)]
    BY <1>1, <2>1, EnqueueIs
  <2>4. ASSUME NEW j \in 1..Len(r), r[j].type = t
        PROVE  (\E i \in 1..Len(q) : r[j] = q[i]) \/ r[j].shell.sequenceNum >= next
    <3>1. CASE j <= Len(q)
      <4>1. j \in 1..Len(q) /\ r[j] = q[j]
        BY <2>3, <3>1
      <4> QED BY <4>1
    <3>2. CASE j > Len(q)
      <4>1. j - Len(q) \in 1..Len(ps) /\ r[j] = ps[j - Len(q)]
        BY <2>3, <3>2
      <4> QED BY <2>2, <2>4, <4>1
    <3> QED BY <2>3, <3>1, <3>2
  <2> QED BY <2>3, <2>4 DEF q, r, next
<1>3. CASE l[1] = d /\ l[2] = n
  <2>1. q # << >> /\ r = Tail(q)
    BY <1>3, ReadIs
  <2> HIDE DEF q, r
  <2>2. r \in Seq(Packets) /\ \A j \in 1..Len(r) : j + 1 \in 1..Len(q) /\ r[j] = q[j + 1]
    BY <1>1, <2>1, TailIs
  <2> QED BY <2>2 DEF q, r
<1>4. CASE l[1] # n /\ (l[1] # d \/ l[2] # n)
  <2>1. r = q
    BY <1>4, UntouchedIs
  <2> QED BY <1>1, <2>1
<1> QED
  BY <1>2, <1>3, <1>4

LEMMA ThinnedRequests ==
    ASSUME TypeInv, IsThinning, NEW l \in Links
    PROVE  /\ channel'[l] \in Seq(Packets)
           /\ \A j \in 1..Len(channel'[l]) :
                  \E i \in 1..Len(channel[l]) : channel'[l][j] = channel[l][i]
<1> DEFINE q == channel[l]
           r == channel'[l]
<1>1. q \in Seq(Packets)
  BY LinkOfType
<1>2. r = q \/ (q # << >> /\ r = Tail(q))
  BY DEF IsThinning
<1> HIDE DEF q, r
<1>3. CASE r = q
  BY <1>1, <1>3 DEF q, r
<1>4. CASE q # << >> /\ r = Tail(q)
  <2>1. r \in Seq(Packets) /\ \A j \in 1..Len(r) : j + 1 \in 1..Len(q) /\ r[j] = q[j + 1]
    BY <1>1, <1>4, TailIs
  <2> QED BY <2>1 DEF q, r
<1> QED
  BY <1>2, <1>3, <1>4

LEMMA StepQueues ==
    ASSUME IInv, [Next]_vars, NEW l \in Links, NEW t, IsRequestLog(t)
    PROVE  /\ channel'[l] \in Seq(Packets)
           /\ \A j \in 1..Len(channel'[l]) : channel'[l][j].type = t =>
                  \/ \E i \in 1..Len(channel[l]) : channel'[l][j] = channel[l][i]
                  \/ channel'[l][j].shell.sequenceNum >= Len(CopyIn(logPacket[l[1]], t))
<1>1. TypeInv
  BY DEF IInv
<1>2. IsExchanging \/ (IsThinning /\ UNCHANGED logPacket)
  BY NextExchanges
<1>3. CASE IsExchanging
  BY <1>1, <1>3, QueuedRequests DEF IsExchanging
<1>4. CASE IsThinning
  BY <1>1, <1>4, ThinnedRequests
<1> QED
  BY <1>2, <1>3, <1>4

\* The packet of a log of requests that is read carries an entry of that log.
LEMMA ArrivedIsWritten ==
    ASSUME IInv, NEW s \in Switches, NEW d, Receiving(s, d), IsRequestLog(Arrived(s, d).type)
    PROVE  LET p == Arrived(s, d)
               log == CopyIn(logPacket[d], p.type)
           IN  /\ p.shell.sequenceNum \in Nat
               /\ p.shell.sequenceNum + 1 \in 1..Len(log)
               /\ log[p.shell.sequenceNum + 1] = p.shell
<1> DEFINE p == Arrived(s, d)
           t == p.type
           l == <<d, s>>
           log == CopyIn(logPacket[d], t)
<1>1. /\ TypeInv /\ LogIntegrity /\ Arriving(s, d) /\ p \in Packets /\ p.shell \in Entries
      /\ d \in Nodes
  BY ReadingParts
<1>2. t[1] = d
  BY RequestArrived
<1>3. l \in Links /\ channel[l] # << >> /\ p = Head(channel[l])
  BY <1>1 DEF Arriving, Arrived
<1>4. channel[l] \in Seq(Packets)
  BY <1>1, <1>3, LinkOfType
<1>5. p = channel[l][1] /\ 1 \in 1..Len(channel[l])
  BY <1>3, <1>4, TailIs
<1>6. IsGenuine(p)
  BY <1>1, <1>3, <1>5 DEF LogIntegrity
<1>7. ~IsPublished(t) /\ ~IsSubscription(t) /\ t # GossipAnswerType
  BY <1>1, RequestLogs
<1>8. p.shell.sequenceNum \in Int
  BY <1>1, EntryType
<1>9. /\ IsWritten(t)
      /\ p.shell.sequenceNum + 1 \in 1..Len(WrittenLog(t))
      /\ p.shell = WrittenLog(t)[p.shell.sequenceNum + 1]
  BY <1>6, <1>7 DEF IsGenuine
<1>10. t \in DOMAIN logPacket[d] /\ WrittenLog(t) = log
  <2>1. t \in DOMAIN logPacket[d]
    BY <1>2, <1>7, <1>9 DEF IsWritten, IsPublished, MyType
  <2>2. WrittenLog(t) = logPacket[d][t].log
    BY <1>2, <1>7 DEF WrittenLog, IsPublished, MyType
  <2> QED BY <2>1, <2>2 DEF CopyIn
<1> HIDE DEF p, t, log
<1>11. p.shell.sequenceNum \in Nat
  BY <1>8, <1>9
<1> QED
  BY <1>9, <1>10, <1>11 DEF p, t, log

\* What is read of a log of requests comes from the log's writer, its
\* subscriber here.
LEMMA RequestTypes ==
    ASSUME IInv, NEW s \in Switches, NEW d, Receiving(s, d),
           ForSwitch(Arrived(s, d).type), Arrived(s, d).type # MyType
    PROVE  LET p == Arrived(s, d)
           IN  /\ IsRequestLog(p.type) /\ p.type = RequestLog(d, s)
               /\ d \in Users \cup Switches
               /\ p.type[1] = d
               /\ d \in Users => p.type[2] = SWITCH_ALL /\ p.type = SwitchLog(d)
               /\ d \in Switches => p.type[2] = s
               /\ p.shell.sequenceNum \in Nat /\ p.shell.authorId = d
               /\ Fits(p.type, p.shell.sequenceNum + 1, p.shell.shell)
<1> DEFINE p == Arrived(s, d)
           t == p.type
<1>1. /\ TypeInv /\ LogIntegrity /\ ContentsInv /\ s \in Nodes /\ Arriving(s, d)
      /\ p \in Packets /\ IsRouted(<<d, s>>, p) /\ d \in Nodes
  BY ReadingParts
<1>2. IsRequestLog(t)
  BY DEF IsRequestLog, ForSwitch
<1>3. t \in LogTypes /\ ~IsSubscription(t) /\ t # GossipAnswerType /\ t[2] # USER_ALL
  BY <1>1, <1>2, RequestLogs
<1>4. IsFittingPacket(p)
  BY <1>1, <1>3, ArrivedFits
<1>5. /\ p.shell.sequenceNum \in Nat /\ p.shell.authorId = t[1] /\ Writable(t)
      /\ Fits(t, p.shell.sequenceNum + 1, p.shell.shell)
  BY <1>3, <1>4 DEF IsFittingPacket
<1>6. t[1] = d
  BY <1>2, RequestArrived
<1>7. t[2] \in Nodes => t[2] = s
  BY <1>1, <1>3 DEF IsRouted
<1>8. t = <<t[1], t[2]>>
  BY <1>3 DEF LogTypes
<1>9. t[2] \in Switches \cup {SWITCH_ALL}
  BY DEF ForSwitch
<1>10. /\ SWITCH_ALL \notin Nodes /\ SWITCH_ALL # MANAGER_ALL /\ Switches \subseteq Nodes
       /\ MANAGER_ALL \notin Nodes
  BY Identifiers DEF SWITCH_ALL, MANAGER_ALL
<1>0. t # MyType
  OBVIOUS
<1> HIDE DEF p, t
<1>11. CASE d \in Users
  <2>1. t[2] = SWITCH_ALL /\ d \notin Switches
    BY <1>0, <1>3, <1>5, <1>6, <1>11, Identifiers DEF Writable
  <2>2. t = SwitchLog(d)
    BY <1>6, <1>8, <2>1 DEF SwitchLog, LOGTYPE
  <2> QED BY <1>2, <1>5, <1>6, <1>11, <2>1, <2>2 DEF RequestLog, p, t
<1>12. CASE d \notin Users
  <2>1. d \in Switches
    BY <1>5, <1>6, <1>12 DEF Writable, t, p
  <2>2. t[2] \in Nodes
    BY <1>0, <1>5, <1>6, <1>9, <1>10, <1>12 DEF Writable
  <2>3. t = LOGTYPE(d, s)
    BY <1>6, <1>7, <1>8, <2>2 DEF LOGTYPE
  <2> QED BY <1>2, <1>5, <1>6, <1>7, <1>12, <2>1, <2>2, <2>3 DEF RequestLog, p, t
<1> QED
  BY <1>11, <1>12

\* The packet that s reads from d is a request for the content of a.
IsAsking(s, d, a) ==
    LET p == Arrived(s, d)
    IN  /\ IsRequestLog(p.type) /\ p.type = RequestLog(d, s)
        /\ p.shell.shell.function \in Requests /\ p.shell.shell.params = a

\* What is served is a request: the entry that opens a log names no author of
\* content, but that of a user, and that is read before the user publishes.
LEMMA ServedIsAsked ==
    ASSUME IInv, PlugAndPlayOnce, NEW s \in Switches, NEW d, Receiving(s, d),
           ForSwitch(Arrived(s, d).type), IsServed(s, d)
    PROVE  IsAsking(s, d, Arrived(s, d).shell.shell.params)
<1> DEFINE p == Arrived(s, d)
           t == p.type
           c == p.shell.shell
<1>1. t # MyType
  BY ServedFrom
<1>2. /\ IsRequestLog(t) /\ t = RequestLog(d, s) /\ d \in Users \cup Switches /\ t[1] = d
      /\ d \in Users => t[2] = SWITCH_ALL /\ t = SwitchLog(d)
      /\ d \in Switches => t[2] = s
      /\ p.shell.sequenceNum \in Nat /\ Fits(t, p.shell.sequenceNum + 1, c)
  BY <1>1, RequestTypes
<1>3. /\ TypeInv /\ LogIntegrity /\ ContentsInv /\ s \in Nodes /\ Arriving(s, d)
      /\ d \in Nodes
  BY ReadingParts
<1>4. \/ c.function = "getContentFrom"
      \/ ContentOf(c.params) \in DOMAIN logPacket[s]
  BY DEF IsServed, exists
<1>5. c.function \in Requests
  <2>1. CASE p.shell.sequenceNum + 1 # 1
    <3> HIDE DEF p, c, t
    <3> QED BY <1>2, <1>3, <2>1 DEF Fits
  <2>2. CASE p.shell.sequenceNum + 1 = 1 /\ d \in Users
    <3>1. CASE d \notin DOMAIN neighbourMap[s]
      BY <2>2, <3>1, UnheardReads
    <3>2. CASE d \in DOMAIN neighbourMap[s]
      <4> DEFINE l == <<d, s>>
      <4>1. l \in Links /\ channel[l] # << >> /\ p = Head(channel[l])
        BY <1>3 DEF Arriving, Arrived
      <4>2. channel[l] \in Seq(Packets)
        BY <1>3, <4>1, LinkOfType
      <4>3. p = channel[l][1] /\ 1 \in 1..Len(channel[l])
        BY <4>1, <4>2, TailIs
      <4>4. l[1] = d /\ l[2] = s
        OBVIOUS
      <4> HIDE DEF l, p
      <4>5. p.shell.sequenceNum > 0
        BY <1>2, <2>2, <3>2, <4>1, <4>3, <4>4 DEF PlugAndPlayOnce
      <4> QED BY <1>2, <2>2, <4>5
    <3> QED BY <3>1, <3>2
  <2>3. CASE p.shell.sequenceNum + 1 = 1 /\ d \in Switches
    <3>1. Fits(t, 1, c)
      BY <1>2, <2>3
    <3> HIDE DEF p, c, t
    <3>2. c.function \in {"", "addSwitch"} /\ c.params \notin Users
      BY <1>2, <1>3, <2>3, <3>1 DEF Fits
    <3>3. ContentOf(c.params) \in DOMAIN logPacket[s]
      BY <1>4, <3>2
    <3>4. ContentOf(c.params) \in LogTypes /\ IsWritten(ContentOf(c.params))
      BY <1>3, <3>3, HeldFits
    <3>5. ContentOf(c.params)[1] = c.params /\ ContentOf(c.params)[2] = USER_ALL
      BY DEF ContentOf, LOGTYPE
    <3>6. ContentOf(c.params) # MyType
      BY <3>4, <3>5, ReadersDiffer
    <3> QED BY <3>2, <3>4, <3>5, <3>6 DEF IsWritten, IsPublished
  <2> QED BY <1>2, <2>1, <2>2, <2>3
<1> QED
  BY <1>2, <1>5 DEF IsAsking

-----------------------------------------------------------------------------
(* How often a neighbour is interested *)

LEMMA TimesIs ==
    ASSUME NEW bag, IsInterests(bag), NEW p
    PROVE  /\ Times(bag, p) \in Nat
           /\ p \in DOMAIN bag => Times(bag, p) = bag[p]
           /\ p \notin DOMAIN bag => Times(bag, p) = 0
  BY DEF Times, IsInterests

LEMMA InterestedTimes ==
    ASSUME NEW bag, IsInterests(bag), NEW a, NEW k, NEW p
    PROVE  Times(Interested(bag, a, k), p) = Times(bag, p) + (IF p = <<a, k>> THEN 1 ELSE 0)
<1> DEFINE x == <<a, k>>
           one == SetToBag({x})
           new == Interested(bag, a, k)
<1>1. DOMAIN one = {x} /\ one[x] = 1
  BY DEF SetToBag
<1>2. new = [e \in (DOMAIN bag) \cup (DOMAIN one) |->
                (IF e \in DOMAIN bag THEN bag[e] ELSE 0) + (IF e \in DOMAIN one THEN one[e] ELSE 0)]
  BY DEF Interested, (+)
<1> HIDE DEF one, x, new
<1>3. /\ DOMAIN new = DOMAIN bag \cup {x}
      /\ \A e \in DOMAIN new :
             new[e] = (IF e \in DOMAIN bag THEN bag[e] ELSE 0) + (IF e = x THEN 1 ELSE 0)
  BY <1>1, <1>2
<1>4. Times(bag, p) \in Nat /\ Times(bag, p) = IF p \in DOMAIN bag THEN bag[p] ELSE 0
  BY TimesIs DEF Times
<1>5. CASE p \in DOMAIN new
  BY <1>3, <1>4, <1>5 DEF Times, new, x
<1>6. CASE p \notin DOMAIN new
  BY <1>3, <1>4, <1>6 DEF Times, new, x
<1> QED
  BY <1>5, <1>6

LEMMA CancelledTimes ==
    ASSUME NEW bag, IsInterests(bag), NEW x, NEW p
    PROVE  Times(bag (-) SetToBag({x}), p) <= Times(bag, p)
<1> DEFINE one == SetToBag({x})
           left == bag (-) one
<1>1. DOMAIN one = {x} /\ one[x] = 1
  BY DEF SetToBag
<1>2. p \in DOMAIN left => /\ p \in DOMAIN bag
                           /\ left[p] = IF p \in DOMAIN one THEN bag[p] - one[p] ELSE bag[p]
  BY DEF (-)
<1> HIDE DEF one, left
<1>3. Times(bag, p) \in Nat /\ (p \in DOMAIN bag => Times(bag, p) = bag[p])
  BY TimesIs
<1>4. CASE p \in DOMAIN left
  <2>1. Times(left, p) = left[p]
    BY <1>4 DEF Times
  <2>2. left[p] = IF p = x THEN Times(bag, p) - 1 ELSE Times(bag, p)
    BY <1>1, <1>2, <1>3, <1>4
  <2>3. Times(left, p) <= Times(bag, p)
    BY <1>3, <2>1, <2>2
  <2> QED BY <2>3 DEF left, one
<1>5. CASE p \notin DOMAIN left
  <2>1. Times(left, p) = 0
    BY <1>5 DEF Times
  <2>2. Times(left, p) <= Times(bag, p)
    BY <1>3, <2>1
  <2> QED BY <2>2 DEF left, one
<1> QED
  BY <1>4, <1>5

\* Interests in the content of a grow by one: when a request for it is read,
\* or when the content has come and there was none yet.
LEMMA TimesStep ==
    ASSUME IInv, PlugAndPlayOnce, NEW s \in Switches, NEW d, ReceiveSwitch(s, d),
           NEW r \in Switches, NEW k \in Nodes, NEW a \in Nodes
    PROVE  LET x == <<a, k>>
               old == Times(interestedNeighbours[r], x)
               new == Times(interestedNeighbours'[r], x)
           IN  \/ new <= old
               \/ r = s /\ k = d /\ IsAsking(s, d, a) /\ new <= old + 1
               \/ new <= 1 /\ ContentOf(a) \in DOMAIN logPacket'[r]
<1> DEFINE x == <<a, k>>
           old == interestedNeighbours[s]
           new == interestedNeighbours'[s]
           key == getKeyByValue(Known(s, d), d)
           Done == \/ Times(new, x) <= Times(old, x)
                   \/ k = d /\ IsAsking(s, d, a) /\ Times(new, x) <= Times(old, x) + 1
                   \/ Times(new, x) <= 1 /\ ContentOf(a) \in DOMAIN logPacket'[s]
<1>1. Receiving(s, d)
  BY DEF ReceiveSwitch, DropPacket, ServeRequest, AnswerSwitchGossip, RejectEntry,
         AcceptMember, AcceptPlugAndPlay, AcceptRequest, AcceptUnsubscribe, AcceptOther,
         ReceiveContent, ReceiveUserGossip, Accepts, IsAccepting, IsConcatenating
<1>2. key = d /\ s \in Nodes
  <2>1. IsNaming(Known(s, d)) /\ d \in DOMAIN Known(s, d) /\ d \in Nodes /\ s \in Nodes
    BY <1>1, ReadingParts
  <2> QED BY <2>1, KeyOfNaming
<1>3. DOMAIN interestedNeighbours = Switches /\ \A q \in Switches : IsInterests(interestedNeighbours[q])
  BY DEF IInv, TypeInv, InterestsOK
<1>4. Times(old, x) \in Nat
  BY <1>3, TimesIs
<1>5. ASSUME NEW bag, interestedNeighbours' = [interestedNeighbours EXCEPT ![s] = bag]
      PROVE  new = bag /\ \A q \in Switches \ {s} : interestedNeighbours'[q] = interestedNeighbours[q]
  BY <1>3, <1>5
<1>6. \/ interestedNeighbours' = interestedNeighbours
      \/ \E bag : interestedNeighbours' = [interestedNeighbours EXCEPT ![s] = bag]
  BY DEF ReceiveSwitch, DropPacket, ServeRequest, AnswerSwitchGossip, RejectEntry,
         AcceptMember, AcceptPlugAndPlay, AcceptRequest, AcceptUnsubscribe, AcceptOther,
         ReceiveContent, ReceiveUserGossip, switchVars
<1>7. ASSUME UNCHANGED interestedNeighbours PROVE Done
  BY <1>4, <1>7
<1>8. ASSUME ServeRequest(s, d) PROVE Done
  <2> DEFINE b == Arrived(s, d).shell.shell.params
             e == Arrived(s, d).shell.authorId
             bag == Interested(old, b, e)
  <2>1. /\ ForSwitch(Arrived(s, d).type) /\ IsServed(s, d)
        /\ interestedNeighbours' = [interestedNeighbours EXCEPT ![s] = bag]
    BY <1>8 DEF ServeRequest
  <2>2. e = d /\ IsAsking(s, d, b)
    BY <1>1, <2>1, ServedFrom, ServedIsAsked
  <2> HIDE DEF old, b, e
  <2>3. Times(bag, x) = Times(old, x) + (IF x = <<b, e>> THEN 1 ELSE 0)
    BY <1>3, InterestedTimes DEF old
  <2> HIDE DEF bag, new
  <2>4. new = bag
    BY <1>5, <2>1
  <2>5. CASE x = <<b, e>>
    <3>1. a = b /\ k = d
      BY <2>2, <2>5
    <3>2. IsAsking(s, d, a)
      BY <2>2, <3>1
    <3>3. Times(new, x) <= Times(old, x) + 1
      BY <1>4, <2>3, <2>4, <2>5
    <3> QED BY <3>1, <3>2, <3>3
  <2>6. CASE x # <<b, e>>
    BY <1>4, <2>3, <2>4, <2>6
  <2> QED BY <2>5, <2>6
<1>9. ASSUME AcceptRequest(s, d) PROVE Done
  <2> DEFINE b == Arrived(s, d).shell.shell.params
             bag == Interested(old, b, key)
  <2>1. /\ IsAccepting(s, d) /\ Arrived(s, d).shell.shell.function = "getContentFrom"
        /\ interestedNeighbours' = [interestedNeighbours EXCEPT ![s] = bag]
    BY <1>9 DEF AcceptRequest, Accepts
  <2>2. IsAsking(s, d, b)
    <3>1. /\ ForSwitch(Arrived(s, d).type)
          /\ Fits(Arrived(s, d).type, Arrived(s, d).shell.sequenceNum + 1, Arrived(s, d).shell.shell)
      BY <2>1, AcceptedFits DEF IInv
    <3>2. Arrived(s, d).type # MyType
      BY <2>1, <3>1 DEF Fits
    <3> QED BY <1>1, <2>1, <3>1, <3>2, RequestTypes DEF IsAsking, Requests
  <2> HIDE DEF old, b, key
  <2>3. Times(bag, x) = Times(old, x) + (IF x = <<b, key>> THEN 1 ELSE 0)
    BY <1>3, InterestedTimes DEF old
  <2> HIDE DEF bag, new
  <2>4. new = bag
    BY <1>5, <2>1
  <2>5. CASE x = <<b, key>>
    <3>1. a = b /\ k = d
      BY <1>2, <2>5
    <3>2. IsAsking(s, d, a)
      BY <2>2, <3>1
    <3>3. Times(new, x) <= Times(old, x) + 1
      BY <1>4, <2>3, <2>4, <2>5
    <3> QED BY <3>1, <3>2, <3>3
  <2>6. CASE x # <<b, key>>
    BY <1>4, <2>3, <2>4, <2>6
  <2> QED BY <2>5, <2>6
<1>10. ASSUME AcceptUnsubscribe(s, d) PROVE Done
  <2> DEFINE cancelled == <<Arrived(s, d).shell.shell.params, Arrived(s, d).shell.authorId>>
             left == old (-) SetToBag({cancelled})
             Forwarding == \E q \in DOMAIN left : q[2] \notin Users
             bag == IF Forwarding /\ \A q \in DOMAIN left : q[1] # q[2] THEN EmptyBag ELSE left
  <2>1. interestedNeighbours' = [interestedNeighbours EXCEPT ![s] = bag]
    BY <1>10 DEF AcceptUnsubscribe
  <2> HIDE DEF cancelled, old
  <2>2. Times(left, x) <= Times(old, x)
    BY <1>3, CancelledTimes DEF old
  <2>3. Times(EmptyBag, x) = 0
    BY EmptyInterestsType, TimesIs DEF EmptyBag, SetToBag
  <2> HIDE DEF left, Forwarding
  <2>4. Times(bag, x) <= Times(old, x)
    BY <1>4, <2>2, <2>3
  <2> HIDE DEF bag, new
  <2>5. new = bag
    BY <1>5, <2>1
  <2> QED BY <2>4, <2>5
<1>11. ASSUME ReceiveContent(s, d) PROVE Done
  <2> DEFINE p == Arrived(s, d)
             b == p.shell.authorId
             interests == IF <<b, key>> \in DOMAIN old THEN old ELSE Interested(old, b, key)
             accepted == isEntryConcatenated(logPacket[s], p.type, p.shell)
             bag == IF accepted THEN interests ELSE old
  <2>1. /\ interestedNeighbours' = [interestedNeighbours EXCEPT ![s] = bag]
        /\ ForUser(p.type) /\ p.flag = 0
        /\ logPacket' = [logPacket EXCEPT ![s] = Concatenated(s, d)]
    BY <1>11 DEF ReceiveContent
  <2>2. p.type = ContentOf(b) /\ p.type \in DOMAIN logPacket'[s]
    <3>1. p.type \in LogTypes /\ p.type[2] = USER_ALL
      BY <1>1, <2>1, ForUserIsPublished
    <3>2. p.type # GossipAnswerType
      BY <3>1, AnswersHaveNoLog
    <3>3. IsFittingPacket(p)
      BY <1>1, <3>2, ReadingParts, ArrivedFits
    <3>4. b = p.type[1]
      BY <2>1, <3>3 DEF IsFittingPacket
    <3>5. p.type = <<p.type[1], p.type[2]>>
      BY <3>1 DEF LogTypes
    <3>6. p.type \in DOMAIN Concatenated(s, d)
      BY <1>1, <3>1, ConcatenatedLogs
    <3>7. DOMAIN logPacket = Nodes
      BY DEF IInv, TypeInv, ListsOK
    <3>8. logPacket'[s] = Concatenated(s, d)
      BY <1>2, <2>1, <3>7
    <3> QED BY <3>1, <3>4, <3>5, <3>6, <3>8 DEF ContentOf, LOGTYPE
  <2> HIDE DEF old, b, key, accepted
  <2>3. <<b, key>> \notin DOMAIN old =>
            /\ Times(old, <<b, key>>) = 0
            /\ Times(interests, x) = Times(old, x) + (IF x = <<b, key>> THEN 1 ELSE 0)
    BY <1>3, TimesIs, InterestedTimes DEF old
  <2>4. <<b, key>> \in DOMAIN old => interests = old
    OBVIOUS
  <2> HIDE DEF interests
  <2>5. Times(bag, x) <= Times(old, x) \/ (x = <<b, key>> /\ Times(bag, x) <= 1)
    BY <1>4, <2>3, <2>4
  <2> HIDE DEF bag, new, p
  <2>6. new = bag
    BY <1>5, <2>1
  <2>7. CASE Times(bag, x) <= Times(old, x)
    BY <2>6, <2>7
  <2>8. CASE x = <<b, key>> /\ Times(bag, x) <= 1
    <3>1. a = b
      BY <2>8
    <3>2. ContentOf(a) \in DOMAIN logPacket'[s]
      BY <2>2, <3>1
    <3> QED BY <2>6, <2>8, <3>2
  <2> QED BY <2>5, <2>7, <2>8
<1>12. Done
  BY <1>7, <1>8, <1>9, <1>10, <1>11
  DEF ReceiveSwitch, DropPacket, AnswerSwitchGossip, RejectEntry, AcceptMember,
      AcceptPlugAndPlay, AcceptOther, ReceiveUserGossip, switchVars
<1>13. CASE r = s
  BY <1>12, <1>13
<1>14. CASE r # s
  <2>1. interestedNeighbours'[r] = interestedNeighbours[r]
    BY <1>5, <1>6, <1>14
  <2>2. Times(interestedNeighbours[r], x) \in Nat
    BY <1>3, TimesIs
  <2> HIDE DEF x
  <2>3. Times(interestedNeighbours'[r], x) <= Times(interestedNeighbours[r], x)
    BY <2>1, <2>2
  <2> QED BY <2>3 DEF x
<1> QED
  BY <1>13, <1>14

-----------------------------------------------------------------------------
(* What a step adds to the interests *)

\* A switch keeps its replica of a log: only users remove logs.
LEMMA HeldStays ==
    ASSUME NEW n \in Nodes, TurnOf(n), NEW s \in Switches,
           NEW t \in LogTypes, ~IsOwn(s, t), t \in DOMAIN logPacket[s]
    PROVE  t \in DOMAIN logPacket'[s]
<1>1. CASE n # s
  BY <1>1, Identifiers DEF TurnOf
<1>2. CASE n = s
  <2>1. CopiesStep(s, logPacket'[s])
    BY <1>2 DEF TurnOf
  <2>2. ASSUME NEW u \in LogTypes, Drops(s, logPacket'[s], u) PROVE FALSE
    BY <2>2, Identifiers DEF Drops, UserSubscriptions
  <2> QED BY <2>1, <2>2 DEF CopiesStep, SameCopies, SameCopy, Takes, SameButOne
<1> QED
  BY <1>1, <1>2

\* What neighbours are interested in beyond what they have asked for grows by
\* one with a request, and not at all otherwise.
LEMMA ExcessStep ==
    ASSUME IInv, TypeInv', PlugAndPlayOnce, [Next]_vars,
           NEW s \in Switches, NEW k \in Nodes, NEW a \in Nodes
    PROVE  /\ Excess(s, k, a) \in Int /\ Excess(s, k, a)' \in Int
           /\ \/ Excess(s, k, a)' <= Excess(s, k, a)
              \/ /\ ReceiveSwitch(s, k) /\ IsAsking(s, k, a)
                 /\ Excess(s, k, a)' <= Excess(s, k, a) + 1
              \/ Excess(s, k, a)' <= 0
<1> DEFINE x == <<a, k>>
           c == ContentOf(a)
           old == Times(interestedNeighbours[s], x)
           new == Times(interestedNeighbours'[s], x)
           had == IF c \in DOMAIN logPacket[s] THEN 1 ELSE 0
           has == IF c \in DOMAIN logPacket'[s] THEN 1 ELSE 0
<1>1. TypeInv /\ LogIntegrity
  BY DEF IInv
<1>2. Excess(s, k, a) = old - had /\ Excess(s, k, a)' = new - has
  BY DEF Excess, Times
<1>3. IsInterests(interestedNeighbours[s]) /\ IsInterests(interestedNeighbours'[s])
  BY <1>1 DEF TypeInv, InterestsOK
<1>4. old \in Nat /\ new \in Nat
  BY <1>3, TimesIs
<1>5. PICK n \in Nodes : TurnOf(n)
  BY <1>1, NextLogs
<1>6. c \in LogTypes /\ c[2] = USER_ALL
  BY Identifiers, LogTypesAre DEF ContentOf, LOGTYPE
<1>7. ~IsOwn(s, c)
  BY <1>6 DEF IsOwn, IsPublished
<1>8. c \in DOMAIN logPacket[s] => c \in DOMAIN logPacket'[s]
  BY <1>5, <1>6, <1>7, HeldStays
<1> HIDE DEF c
<1>9. had \in {0, 1} /\ has \in {0, 1} /\ had <= has /\ (c \in DOMAIN logPacket'[s] => has = 1)
  BY <1>8
<1> DEFINE Done == \/ new - has <= old - had
                   \/ ReceiveSwitch(s, k) /\ IsAsking(s, k, a) /\ new - has <= old - had + 1
                   \/ new - has <= 0
<1> HIDE DEF old, new, had, has
<1>10. ASSUME NEW r \in Switches, NEW d, ReceiveSwitch(r, d) PROVE Done
  <2>1. \/ new <= old
        \/ s = r /\ k = d /\ IsAsking(r, d, a) /\ new <= old + 1
        \/ new <= 1 /\ c \in DOMAIN logPacket'[s]
    BY <1>10, TimesStep DEF old, new, c
  <2>2. CASE new <= old
    BY <1>4, <1>9, <2>2
  <2>3. CASE s = r /\ k = d /\ IsAsking(r, d, a) /\ new <= old + 1
    <3>1. ReceiveSwitch(s, k) /\ IsAsking(s, k, a)
      BY <1>10, <2>3
    <3>2. new - has <= old - had + 1
      BY <1>4, <1>9, <2>3
    <3> QED BY <3>1, <3>2
  <2>4. CASE new <= 1 /\ c \in DOMAIN logPacket'[s]
    <3>1. new - has <= 0
      BY <1>4, <1>9, <2>4
    <3> QED BY <3>1
  <2> QED BY <2>1, <2>2, <2>3, <2>4
<1>11. ASSUME UNCHANGED interestedNeighbours PROVE Done
  <2>1. new = old
    BY <1>11 DEF new, old
  <2>2. new - has <= old - had
    BY <1>4, <1>9, <2>1
  <2> QED BY <2>2
<1>12. ASSUME NEW r \in Switches, SwitchStep(r) PROVE Done
  <2> HIDE DEF Done
  <2> QED BY <1>10, <1>11, <1>12 DEF SwitchStep, StartSwitch, GossipRound, Gossip, switchVars
<1>13. ASSUME NEW u \in Users, UserStep(u) PROVE UNCHANGED interestedNeighbours
  BY <1>13 DEF UserStep, StartUsers, CallSubscribe, CallUnsubscribe, CallPush, switchVars
<1>14. ASSUME ManagerStep PROVE UNCHANGED interestedNeighbours
  BY <1>14 DEF ManagerStep, switchVars
<1>15. ASSUME NEW l \in LossyLinks, LosePacket(l) PROVE UNCHANGED interestedNeighbours
  BY <1>15 DEF LosePacket, switchVars
<1>16. ASSUME UNCHANGED vars PROVE UNCHANGED interestedNeighbours
  BY <1>16 DEF vars, switchVars
<1>17. Done
  <2> HIDE DEF Done
  <2> QED BY <1>11, <1>12, <1>13, <1>14, <1>15, <1>16 DEF Next
<1>18. old - had \in Int /\ new - has \in Int
  BY <1>4, <1>9
<1>19. Excess(s, k, a) = old - had /\ Excess(s, k, a)' = new - has
  BY <1>2 DEF old, had, new, has, c
<1> QED
  BY <1>17, <1>18, <1>19

-----------------------------------------------------------------------------
(* Each interest was asked for *)

LEMMA PlugAndPlayStep ==
    ASSUME IInv, IInv', PlugAndPlayOnce, [Next]_vars
    PROVE  PlugAndPlayOnce'
<1>1. TypeInv /\ TypeInv' /\ NamingInv /\ ContentsInv
  BY DEF IInv
<1> SUFFICES ASSUME NEW l \in Links, l[1] \in Users, l[1] \in DOMAIN neighbourMap'[l[2]],
                    NEW i \in 1..Len(channel'[l]), channel'[l][i].type = SwitchLog(l[1])
             PROVE  channel'[l][i].shell.sequenceNum > 0
  BY DEF PlugAndPlayOnce
<1> DEFINE u == l[1]
           s == l[2]
           t == SwitchLog(u)
           q == channel[l]
           r == channel'[l]
<1>2. s \in Switches /\ s \in Nodes /\ u \in Nodes /\ u \in Users /\ l = <<u, s>>
  BY <1>1, HomeIs
<1>3. /\ IsRequestLog(t) /\ t \in LogTypes /\ t[1] = u
      /\ t[2] \notin Nodes \cup {USER_ALL} /\ IsOwn(u, t)
  <2>1. /\ IsRequestLog(t) /\ t \in LogTypes /\ t[1] = u /\ t[2] = SWITCH_ALL
    BY <1>2, ContentTypes DEF SwitchLog, LOGTYPE
  <2> HIDE DEF t
  <2>2. t[2] \notin Nodes \cup {USER_ALL}
    BY <2>1, Identifiers, ReadersDiffer
  <2> QED BY <2>1, <2>2 DEF IsRequestLog, IsOwn, IsPublished
<1>4. /\ r \in Seq(Packets)
      /\ \/ \E j \in 1..Len(q) : r[i] = q[j]
         \/ r[i].shell.sequenceNum >= Len(CopyIn(logPacket[u], t))
  BY <1>3, StepQueues
<1>5. r[i].shell.sequenceNum \in Int
  <2>1. r[i] \in Packets
    BY <1>4, ElementOfSeq
  <2> QED BY <2>1, PacketType, EntryType
<1>6. r[i].type = t /\ u \in DOMAIN neighbourMap'[s]
  OBVIOUS
<1> HIDE DEF r, q, t
<1>7. CASE u \in DOMAIN neighbourMap[s]
  <2>1. \A j \in 1..Len(q) : q[j].type = t => q[j].shell.sequenceNum > 0
    BY <1>7 DEF PlugAndPlayOnce, q, t
  <2>2. Len(CopyIn(logPacket[u], t)) \in Nat /\ Len(CopyIn(logPacket[u], t)) > 0
    <3>1. u \in started
      BY <1>1, <1>7 DEF NamingInv, SilentUntilStarted
    <3>2. t \in DOMAIN logPacket[u]
      BY <1>1, <1>2, <3>1 DEF TypeInv, ListsOK, t
    <3>3. CopyIn(logPacket[u], t) # << >>
      BY <1>1, <1>2, <1>3, <3>2 DEF ContentsInv, OwnLogsFit, CopyIn
    <3>4. CopyIn(logPacket[u], t) \in Seq(Entries) /\ Len(CopyIn(logPacket[u], t)) \in Nat
      BY <1>1, <1>2, CopyOfType
    <3> QED BY <3>3, <3>4, EmptySeq
  <2>3. CASE \E j \in 1..Len(q) : r[i] = q[j]
    BY <1>6, <2>1, <2>3 DEF r
  <2>4. CASE r[i].shell.sequenceNum >= Len(CopyIn(logPacket[u], t))
    BY <1>5, <2>2, <2>4 DEF r
  <2> QED BY <1>4, <2>3, <2>4
<1>8. CASE u \notin DOMAIN neighbourMap[s]
  <2>1. PICK out : Exchange(s, u, out)
    BY <1>2, <1>6, <1>8, NewName
  <2>2. q # << >> /\ r = Tail(q)
    <3>1. LinksStep(s, u, out)
      BY <2>1 DEF Exchange
    <3> QED BY <1>1, <1>2, <3>1, ReadIs DEF q, r
  <2>3. u \in started
    BY <1>1, <2>2 DEF NamingInv, SilentUntilStarted, q
  <2>4. IsUnheard(u, s)
    BY <1>1, <1>8 DEF NamingInv, UsersMeet
  <2>5. Head(q).type = t /\ Head(q).shell.sequenceNum = 0
    BY <1>2, <2>3, <2>4 DEF IsUnheard, q, t
  <2>6. q \in Seq(Packets) /\ IsAscending(q)
    BY <1>1, LinkOfType DEF NamingInv, Freshness, q
  <2>7. i \in 1..Len(Tail(q)) /\ Tail(q)[i].type = Head(q).type /\ IsRequestLog(Tail(q)[i].type)
    BY <1>3, <1>6, <2>2, <2>5 DEF r
  <2>8. Tail(q)[i].shell.sequenceNum > 0
    BY <2>2, <2>5, <2>6, <2>7, AscendingTail
  <2> QED BY <2>2, <2>8 DEF r
<1> QED
  BY <1>7, <1>8

LEMMA RequestsStep ==
    ASSUME IInv, TypeInv', RequestsPrecede, PlugAndPlayOnce, [Next]_vars
    PROVE  RequestsPrecede'
<1> SUFFICES ASSUME NEW l \in Links, l[2] \in Switches, NEW a \in Nodes
             PROVE  AreAsked(Excess(l[2], l[1], a)', a,
                             CopyIn(logPacket'[l[1]], RequestLog(l[1], l[2])), channel'[l],
                             RequestLog(l[1], l[2]))
  BY DEF RequestsPrecede
<1> DEFINE k == l[1]
           s == l[2]
           t == RequestLog(k, s)
           log == CopyIn(logPacket[k], t)
           new == CopyIn(logPacket'[k], t)
           n == Excess(s, k, a)
           m == Excess(s, k, a)'
<1>1. TypeInv /\ LogIntegrity /\ NamingInv /\ WrittenLogsGrow
  BY NextLogs DEF IInv
<1>2. k \in Nodes /\ s \in Nodes /\ s \in Switches /\ k # None
      /\ channel[l] \in Seq(Packets)
  BY <1>1, LinkOfType, Identifiers
<1>3. /\ t \in LogTypes /\ t[1] = k /\ IsRequestLog(t) /\ ~IsPublished(t)
  BY <1>2, RequestLogIs
<1>4. log \in Seq(Entries) /\ new \in Seq(Entries) /\ IsPrefix(log, new)
  <2> HIDE DEF t
  <2>1. /\ CopyIn(logPacket[t[1]], t) \in Seq(Entries)
        /\ CopyIn(logPacket'[t[1]], t) \in Seq(Entries)
        /\ IsPrefix(CopyIn(logPacket[t[1]], t), CopyIn(logPacket'[t[1]], t))
    BY <1>1, <1>3, WrittenCopies
  <2> QED BY <1>3, <2>1
<1>5. AreAsked(n, a, log, channel[l], t)
  BY DEF RequestsPrecede
<1>6. /\ n \in Int /\ m \in Int
      /\ \/ m <= n
         \/ ReceiveSwitch(s, k) /\ IsAsking(s, k, a) /\ m <= n + 1
         \/ m <= 0
  BY <1>2, ExcessStep
<1>7. /\ channel'[l] \in Seq(Packets)
      /\ \A j \in 1..Len(channel'[l]) : channel'[l][j].type = t =>
             \/ \E i \in 1..Len(channel[l]) : channel'[l][j] = channel[l][i]
             \/ channel'[l][j].shell.sequenceNum >= Len(log)
  BY <1>3, StepQueues
<1> DEFINE Goal == AreAsked(m, a, new, channel'[l], t)
<1>8. ASSUME ReceiveSwitch(s, k), IsAsking(s, k, a), m <= n + 1 PROVE Goal
  <2> DEFINE p == Arrived(s, k)
             q == p.shell.sequenceNum
  <2>1. PICK out : Exchange(s, k, out)
    BY <1>2, <1>8, ReceiveSwitchExchange
  <2>2. LinksStep(s, k, out) /\ Receiving(s, k)
    BY <1>2, <2>1 DEF Exchange, NamesStep
  <2>3. channel[l] # << >> /\ channel'[l] = Tail(channel[l]) /\ Head(channel[l]) = p
    BY <1>1, <1>2, <2>2, ReadIs
  <2>4. p.type = t /\ p.shell.shell.function \in Requests /\ p.shell.shell.params = a
    BY <1>8 DEF IsAsking
  <2>5. q \in Nat /\ q + 1 \in 1..Len(log) /\ log[q + 1] = p.shell
    BY <1>2, <1>3, <2>2, <2>4, ArrivedIsWritten
  <2>6. IsAscending(channel[l])
    BY <1>1 DEF NamingInv, Freshness
  <2>7. Head(channel[l]).type = t /\ q = Head(channel[l]).shell.sequenceNum
    BY <2>3, <2>4
  <2>8. log[q + 1].shell.function \in Requests /\ log[q + 1].shell.params = a
    BY <2>4, <2>5
  <2>9. q \in Nat /\ q + 1 \in 1..Len(log)
    BY <2>5
  <2> HIDE DEF k, s, t, log, new, n, m, p, q
  <2>10. AreAsked(m, a, new, Tail(channel[l]), t)
    BY <1>2, <1>3, <1>4, <1>5, <1>6, <1>8, <2>3, <2>6, <2>7, <2>8, <2>9, OneMoreAsked
  <2> QED BY <2>3, <2>10
<1>9. ASSUME m <= n PROVE Goal
  <2> HIDE DEF k, s, t, log, new, n, m
  <2> QED BY <1>2, <1>4, <1>5, <1>6, <1>7, <1>9, StillAsked
<1>10. ASSUME m <= 0 PROVE Goal
  <2> HIDE DEF k, s, t, log, new, n, m
  <2>1. Len(new) \in Nat
    BY <1>4, LenProperties
  <2> QED BY <1>6, <1>10, <2>1, NoneAsked
<1>11. Goal
  <2> HIDE DEF Goal, m, n
  <2> QED BY <1>6, <1>8, <1>9, <1>10
<1> QED
  BY <1>11

LEMMA InitAsks == Init => AskInv
<1> SUFFICES ASSUME Init PROVE AskInv
  OBVIOUS
<1>1. /\ TypeInv
      /\ \A s \in Switches : interestedNeighbours[s] = EmptyBag
      /\ \A n \in Nodes : DOMAIN neighbourMap[n] = {}
  <2>1. \A n \in Nodes : neighbourMap[n] = << >>
    BY DEF Init, DeviceInit
  <2>2. interestedNeighbours = [s \in Switches |-> EmptyBag]
    BY DEF Init, SwitchInit
  <2> QED BY <2>1, <2>2, InitType
<1>2. PlugAndPlayOnce
  <2>1. \A l \in Links : l[2] \in Nodes
    BY <1>1, LinkOfType
  <2> QED BY <1>1, <2>1 DEF PlugAndPlayOnce
<1>3. ASSUME NEW l \in Links, l[2] \in Switches, NEW a \in Nodes
      PROVE  AreAsked(Excess(l[2], l[1], a), a,
                      CopyIn(logPacket[l[1]], RequestLog(l[1], l[2])), channel[l],
                      RequestLog(l[1], l[2]))
  <2>1. Times(interestedNeighbours[l[2]], <<a, l[1]>>) = 0
    <3>1. interestedNeighbours[l[2]] = EmptyBag
      BY <1>1, <1>3
    <3>2. Times(EmptyBag, <<a, l[1]>>) = 0
      BY DEF Times, EmptyBag, SetToBag
    <3> QED BY <3>1, <3>2
  <2>2. Excess(l[2], l[1], a) \in Int /\ Excess(l[2], l[1], a) <= 0
    BY <2>1 DEF Excess
  <2>3. Len(CopyIn(logPacket[l[1]], RequestLog(l[1], l[2]))) \in Nat
    BY <1>1, LinkOfType, CopyOfType
  <2> QED BY <2>2, <2>3, NoneAsked
<1> QED
  BY <1>2, <1>3 DEF AskInv, RequestsPrecede

LEMMA SpecAsks == Spec => []AskInv
<1>1. AskInv <=> RequestsPrecede /\ PlugAndPlayOnce
  BY DEF AskInv
<1>2. IInv /\ IInv' /\ AskInv /\ [Next]_vars => AskInv'
  <2> SUFFICES ASSUME IInv, IInv', AskInv, [Next]_vars PROVE AskInv'
    OBVIOUS
  <2>1. TypeInv' /\ RequestsPrecede /\ PlugAndPlayOnce
    BY DEF IInv, AskInv
  <2>2. RequestsPrecede'
    BY <2>1, RequestsStep
  <2>3. PlugAndPlayOnce'
    BY <2>1, PlugAndPlayStep
  <2> QED BY <2>2, <2>3 DEF AskInv
<1> QED
  BY <1>2, InitAsks, SpecNames, PTL DEF Spec

\* A switch is interested in an author for a neighbour no more often than the
\* neighbour has asked it for the author, or taken that back: no request is
\* acted upon twice, none is taken for another's, and content that comes on its
\* own adds one interest, once (processReceivedSwitchPacket, recvPkt).
THEOREM InterestsAreAsked == Spec => []InterestsFollowRequests
<1>1. IInv /\ InterestsAreNeighbours /\ AskInv => InterestsFollowRequests
  <2> SUFFICES ASSUME IInv, InterestsAreNeighbours, AskInv,
                      NEW s \in Switches, NEW p \in DOMAIN interestedNeighbours[s]
               PROVE  LET type == RequestLog(p[2], s)
                          asked == IF IsWritten(type)
                                   THEN Mentions(WrittenLog(type), p[1], {"getContentFrom", "removeUserFromInl"})
                                   ELSE 0
                          source == IF ContentOf(p[1]) \in DOMAIN logPacket[s] THEN 1 ELSE 0
                      IN  interestedNeighbours[s][p] <= asked + source
    BY DEF InterestsFollowRequests
  <2> DEFINE a == p[1]
             k == p[2]
             l == <<k, s>>
             t == RequestLog(k, s)
             log == CopyIn(logPacket[k], t)
             source == IF ContentOf(a) \in DOMAIN logPacket[s] THEN 1 ELSE 0
  <2>1. TypeInv /\ NeighbourNaming /\ RequestsPrecede
    BY DEF IInv, NamingInv, AskInv
  <2>2. IsInterests(interestedNeighbours[s]) /\ s \in Nodes
    BY <2>1, Identifiers DEF TypeInv, InterestsOK
  <2>3. a \in Nodes /\ k \in Nodes /\ p = <<a, k>> /\ l \in Links
    <3>1. a \in Nodes /\ p = <<a, k>>
      BY <2>2 DEF IsInterests
    <3>2. k \in Peers(s)
      BY <2>1, <2>2 DEF InterestsAreNeighbours, NeighbourNaming
    <3> QED BY <2>2, <3>1, <3>2, LinksAreOfNodes DEF Peers
  <2>4. t \in LogTypes /\ t[1] = k /\ ~IsPublished(t)
    BY <2>3, RequestLogIs
  <2>5. AreAsked(Excess(s, k, a), a, log, channel[l], t)
    BY <2>1, <2>2, <2>3 DEF RequestsPrecede
  <2>6. Excess(s, k, a) <= Cardinality(Asked(log, Len(log), a))
    BY <2>5 DEF AreAsked
  <2>7. Excess(s, k, a) = interestedNeighbours[s][p] - source
    BY <2>3 DEF Excess, Times
  <2>8. interestedNeighbours[s][p] \in Nat
    BY <2>2, TimesIs
  <2>9. Len(log) \in Nat /\ Cardinality(Asked(log, Len(log), a)) \in Nat
    BY <2>1, <2>3, CopyOfType, AskedIsFinite
  <2> DEFINE asked == IF IsWritten(t) THEN Mentions(WrittenLog(t), a, Requests) ELSE 0
  <2>10. asked = Cardinality(Asked(log, Len(log), a))
    <3>1. CASE t \in DOMAIN logPacket[k]
      <4>1. IsWritten(t) /\ WrittenLog(t) = log
        BY <2>4, <3>1 DEF IsWritten, WrittenLog, CopyIn
      <4> HIDE DEF log, t, a, Requests
      <4>2. Asked(log, Len(log), a)
              = {i \in 1..Len(log) : log[i].shell.function \in Requests /\ log[i].shell.params = a}
        BY <2>9 DEF Asked
      <4> QED BY <4>1, <4>2 DEF Mentions
    <3>2. CASE t \notin DOMAIN logPacket[k]
      <4>1. ~IsWritten(t) /\ log = << >>
        BY <2>4, <3>2 DEF IsWritten, IsPublished, CopyIn
      <4>2. Asked(log, Len(log), a) = {}
        BY <4>1 DEF Asked
      <4> HIDE DEF log, t, a
      <4> QED BY <4>1, <4>2, FS_EmptySet
    <3> QED BY <3>1, <3>2
  <2> HIDE DEF log, source, asked
  <2>11. interestedNeighbours[s][p] <= asked + source
    <3>1. source \in {0, 1}
      BY DEF source
    <3> QED BY <2>6, <2>7, <2>8, <2>9, <2>10, <3>1
  <2> QED BY <2>11 DEF asked, source, Requests
<1> QED
  BY <1>1, SpecNames, SpecAsks, SubscribersAreNeighbours, PTL

-----------------------------------------------------------------------------
(* Who is served: without gossip, the users that have subscribed *)

\* User u has been made to subscribe to author a, or is the author.
MayHave(u, a) == a = u \/ <<u, a>> \in Subscriptions \ agenda.subscribe

\* A user's log of requests names no other authors ...
RequestsAreCalled ==
    \A u \in Users : \A i \in 1..Len(CopyIn(logPacket[u], SwitchLog(u))) :
        MayHave(u, CopyIn(logPacket[u], SwitchLog(u))[i].shell.params)

\* ... nor does an interest a switch has noted of a user ...
InterestsAreCalled ==
    \A s \in Switches : \A p \in DOMAIN interestedNeighbours[s] :
        p[2] \in Users => MayHave(p[2], p[1])

\* ... and nothing is under way to a user but what it may have, nor anything
\* that gossip sends.
Servable(m) ==
    {p \in Packets : /\ p.flag = 0
                     /\ m \in Users /\ p.type[2] = USER_ALL => MayHave(m, p.type[1])}

PacketsAreCalled == \A l \in Links : channel[l] \in Seq(Servable(l[2]))

ServingInv ==
    /\ agenda.gossip = 0
    /\ RequestsAreCalled /\ InterestsAreCalled /\ PacketsAreCalled /\ OnlySubscribersHold

\* Calls are not taken back.
CallsStay == agenda'.subscribe \subseteq agenda.subscribe

Plain == {p \in Packets : p.flag = 0}

Direct == {p \in Plain : p.type[2] # USER_ALL}

LEMMA CallsAreKept ==
    ASSUME TypeInv, [Next]_vars, agenda.gossip = 0
    PROVE  CallsStay /\ agenda'.gossip = 0 /\ \A s \in Switches : ~GossipRound(s)
<1>1. /\ agenda \in Agendas
      /\ agenda.subscribe \in SUBSET Subscriptions
  BY DEF TypeInv, Agendas
<1>2. \A s \in Switches : ~GossipRound(s)
  BY DEF GossipRound
<1>3. ASSUME UNCHANGED agenda PROVE CallsStay /\ agenda'.gossip = 0
  BY <1>3 DEF CallsStay
<1>4. ASSUME NEW x, agenda' = [agenda EXCEPT !.subscribe = @ \ {x}]
      PROVE  CallsStay /\ agenda'.gossip = 0
  <2>1. agenda'.subscribe \subseteq agenda.subscribe /\ agenda'.gossip = 0
    BY <1>1, <1>4 DEF Agendas
  <2> QED BY <2>1 DEF CallsStay
<1>5. ASSUME agenda'.subscribe = agenda.subscribe, agenda'.gossip = agenda.gossip
      PROVE  CallsStay /\ agenda'.gossip = 0
  BY <1>5 DEF CallsStay
<1>6. ASSUME NEW u \in Users, NEW a \in Users, CallSubscribe(u, a)
      PROVE  CallsStay /\ agenda'.gossip = 0
  BY <1>4, <1>6 DEF CallSubscribe
<1>7. ASSUME NEW u \in Users, NEW a \in Users, CallUnsubscribe(u, a)
      PROVE  CallsStay /\ agenda'.gossip = 0
  BY <1>1, <1>5, <1>7 DEF CallUnsubscribe, Agendas
<1>8. ASSUME NEW u \in Users, CallPush(u)
      PROVE  CallsStay /\ agenda'.gossip = 0
  BY <1>1, <1>5, <1>8 DEF CallPush, Agendas
<1>9. ASSUME NEW l \in LossyLinks, LosePacket(l)
      PROVE  CallsStay /\ agenda'.gossip = 0
  BY <1>1, <1>5, <1>9 DEF LosePacket, Agendas
<1>10. ASSUME UNCHANGED vars PROVE UNCHANGED agenda
  BY <1>10 DEF vars
<1>11. ASSUME NEW s \in Switches, SwitchStep(s) PROVE UNCHANGED agenda
  BY <1>2, <1>11 DEF SwitchStep
<1>12. ASSUME NEW u \in Users, UserStep(u) PROVE CallsStay /\ agenda'.gossip = 0
  BY <1>3, <1>6, <1>7, <1>8, <1>12 DEF UserStep, StartUsers
<1>13. ASSUME ManagerStep PROVE UNCHANGED agenda
  BY <1>13 DEF ManagerStep
<1> QED
  BY <1>2, <1>3, <1>9, <1>10, <1>11, <1>12, <1>13 DEF Next

LEMMA ServableStays ==
    ASSUME CallsStay, NEW m
    PROVE  Servable(m) \subseteq Servable(m)'
  BY DEF CallsStay, MayHave, Servable

LEMMA SeqGrows ==
    ASSUME NEW S, NEW T, S \subseteq T, NEW q \in Seq(S)
    PROVE  q \in Seq(T)
<1>1. Len(q) \in Nat /\ q \in [1..Len(q) -> S]
  BY LenProperties
<1>2. q \in [1..Len(q) -> T]
  BY <1>1
<1> QED
  BY <1>1, <1>2, FunctionIsSeq

\* A sequence of packets of a kind.
LEMMA SeqWithin ==
    ASSUME NEW S, NEW T, NEW q \in Seq(S), \A i \in 1..Len(q) : q[i] \in T
    PROVE  q \in Seq(T)
<1>1. Len(q) \in Nat /\ q \in [1..Len(q) -> S]
  BY LenProperties
<1>2. q \in [1..Len(q) -> T]
  BY <1>1
<1> QED
  BY <1>1, <1>2, FunctionIsSeq

\* The links carry what they should after n has sent what it should.
LEMMA LinksServe ==
    ASSUME TypeInv, CallsStay, NEW links, NEW n, NEW out,
           \A l \in Links : links[l] \in Seq(Servable(l[2])) /\ Len(links[l]) <= QueueSize,
           \A l \in Links : l[1] = n => out[l[2]] \in Seq(Servable(l[2])),
           channel' = Sending(links, n, out)
    PROVE  PacketsAreCalled'
<1> SUFFICES ASSUME NEW l \in Links
             PROVE  channel'[l] \in Seq(Servable(l[2])')
  BY DEF PacketsAreCalled
<1>1. channel'[l] = IF l[1] = n THEN Enqueue(links[l], out[l[2]]) ELSE links[l]
  BY DEF Sending
<1>2. channel'[l] \in Seq(Servable(l[2]))
  BY <1>1, EnqueueProperties
<1>3. Servable(l[2]) \subseteq Servable(l[2])'
  BY ServableStays
<1> QED
  BY <1>2, <1>3, SeqGrows

LEMMA TakenServes ==
    ASSUME TypeInv, PacketsAreCalled, NEW n, NEW d, Arriving(n, d)
    PROVE  /\ \A l \in Links : /\ Taking(n, d)[l] \in Seq(Servable(l[2]))
                               /\ Len(Taking(n, d)[l]) <= QueueSize
           /\ Arrived(n, d) \in Servable(n)
<1> DEFINE k == <<d, n>>
<1>1. k \in Links /\ channel[k] # << >> /\ channel[k] \in Seq(Servable(n))
  BY DEF Arriving, PacketsAreCalled
<1>2. /\ channel \in [Links -> Seq(Packets)]
      /\ \A l \in Links : Len(channel[l]) <= QueueSize
  BY DEF TypeInv, LinksOK
<1>3. Len(channel[k]) \in Nat /\ QueueSize \in Nat
  BY <1>1, LenProperties, QueueSizeIsPositive
<1>4. /\ Head(channel[k]) \in Servable(n) /\ Tail(channel[k]) \in Seq(Servable(n))
      /\ Len(Tail(channel[k])) = Len(channel[k]) - 1
  BY <1>1, HeadTailProperties
<1>5. Len(Tail(channel[k])) <= QueueSize
  BY <1>1, <1>2, <1>3, <1>4
<1>6. ASSUME NEW l \in Links
      PROVE  Taking(n, d)[l] \in Seq(Servable(l[2])) /\ Len(Taking(n, d)[l]) <= QueueSize
  <2>1. CASE l = k
    BY <1>1, <1>2, <1>4, <1>5, <2>1 DEF Taking
  <2>2. CASE l # k
    BY <1>2, <2>2 DEF Taking, PacketsAreCalled
  <2> QED BY <2>1, <2>2
<1> QED
  BY <1>4, <1>6 DEF Arrived

LEMMA ThinnedServes ==
    ASSUME TypeInv, CallsStay, PacketsAreCalled, IsThinning
    PROVE  PacketsAreCalled'
<1> SUFFICES ASSUME NEW l \in Links
             PROVE  channel'[l] \in Seq(Servable(l[2])')
  BY DEF PacketsAreCalled
<1>1. channel[l] \in Seq(Servable(l[2]))
  BY DEF PacketsAreCalled
<1>2. channel'[l] \in Seq(Servable(l[2]))
  BY <1>1, HeadTailProperties DEF IsThinning
<1> QED
  BY <1>2, ServableStays, SeqGrows

\* What is not published may be sent to anyone.
LEMMA DirectServes ==
    ASSUME NEW m
    PROVE  Direct \subseteq Servable(m)
  BY DEF Direct, Plain, Servable

\* Node n reads from d and sends.
LEMMA ReaderServes ==
    ASSUME TypeInv, CallsStay, PacketsAreCalled, NEW n, NEW d, Arriving(n, d), NEW out,
           \A l \in Links : l[1] = n => out[l[2]] \in Seq(Servable(l[2])),
           channel' = Sending(Taking(n, d), n, out)
    PROVE  PacketsAreCalled'
<1> DEFINE links == Taking(n, d)
<1>1. \A l \in Links : links[l] \in Seq(Servable(l[2])) /\ Len(links[l]) <= QueueSize
  BY TakenServes
<1>2. channel' = Sending(links, n, out)
  OBVIOUS
<1> HIDE DEF links
<1> QED
  BY <1>1, <1>2, LinksServe

\* ... packets that may be sent to anyone.
LEMMA DirectReaderServes ==
    ASSUME TypeInv, CallsStay, PacketsAreCalled, NEW n, NEW d, Arriving(n, d),
           NEW out \in [Nodes -> Seq(Direct)],
           channel' = Sending(Taking(n, d), n, out)
    PROVE  PacketsAreCalled'
<1>1. ASSUME NEW l \in Links PROVE out[l[2]] \in Seq(Servable(l[2]))
  <2>1. out[l[2]] \in Seq(Direct)
    BY LinksConnectNodes
  <2> QED BY <2>1, DirectServes, SeqGrows
<1> QED
  BY <1>1, ReaderServes

\* Node n sends without having read.
LEMMA SenderServes ==
    ASSUME TypeInv, CallsStay, PacketsAreCalled, NEW n, NEW out,
           \A l \in Links : l[1] = n => out[l[2]] \in Seq(Servable(l[2])),
           channel' = Sending(channel, n, out)
    PROVE  PacketsAreCalled'
<1>1. \A l \in Links : channel[l] \in Seq(Servable(l[2])) /\ Len(channel[l]) <= QueueSize
  BY DEF PacketsAreCalled, TypeInv, LinksOK
<1> QED
  BY <1>1, LinksServe

LEMMA DirectSenderServes ==
    ASSUME TypeInv, CallsStay, PacketsAreCalled, NEW n,
           NEW out \in [Nodes -> Seq(Direct)],
           channel' = Sending(channel, n, out)
    PROVE  PacketsAreCalled'
<1>1. ASSUME NEW l \in Links PROVE out[l[2]] \in Seq(Servable(l[2]))
  <2>1. out[l[2]] \in Seq(Direct)
    BY LinksConnectNodes
  <2> QED BY <2>1, DirectServes, SeqGrows
<1> QED
  BY <1>1, SenderServes

\* A user sends to its switch alone, which may read anything.
LEMMA UserServes ==
    ASSUME NEW u \in Users, NEW out \in [Nodes -> Seq(Plain)], NEW l \in Links, l[1] = u
    PROVE  out[l[2]] \in Seq(Servable(l[2]))
<1>1. l[2] \in Switches /\ l[2] \notin Users /\ l[2] \in Nodes
  BY HomeIs
<1>2. Plain \subseteq Servable(l[2])
  BY <1>1 DEF Plain, Servable
<1> QED
  BY <1>1, <1>2, SeqGrows

LEMMA DirectExchangeServes ==
    ASSUME TypeInv, CallsStay, PacketsAreCalled, NEW n, NEW d, NEW out, d # None,
           Exchange(n, d, out), IsDirect(out)
    PROVE  PacketsAreCalled'
<1>1. /\ out \in [Nodes -> Seq(Packets)] /\ Arriving(n, d)
      /\ channel' = Sending(Taking(n, d), n, out)
  BY DEF Exchange, LinksStep
<1>2. ASSUME NEW m \in Nodes PROVE out[m] \in Seq(Direct)
  <2>1. out[m] \in Seq(Packets)
    BY <1>1
  <2>2. \A i \in 1..Len(out[m]) : out[m][i] \in Direct
    BY <2>1, ElementOfSeq DEF IsDirect, Direct, Plain
  <2> QED BY <2>1, <2>2, SeqWithin
<1>3. out \in [Nodes -> Seq(Direct)]
  BY <1>1, <1>2
<1> QED
  BY <1>1, <1>3, DirectReaderServes

LEMMA PlainShell ==
    ASSUME NEW t \in LogTypes \cup {GossipAnswerType}, NEW e \in Entries
    PROVE  /\ NetShell(t, 0, e) \in Plain
           /\ t[2] # USER_ALL => NetShell(t, 0, e) \in Direct
<1>1. NetShell(t, 0, e) \in Packets
  BY NetShellType
<1>2. NetShell(t, 0, e).flag = 0 /\ NetShell(t, 0, e).type = t
  BY DEF NetShell
<1> QED
  BY <1>1, <1>2 DEF Plain, Direct

LEMMA SameLinksServe ==
    ASSUME CallsStay, PacketsAreCalled, UNCHANGED channel
    PROVE  PacketsAreCalled'
<1> SUFFICES ASSUME NEW l \in Links
             PROVE  channel'[l] \in Seq(Servable(l[2])')
  BY DEF PacketsAreCalled
<1> QED
  BY ServableStays, SeqGrows DEF PacketsAreCalled

\* What a user reads and sends.
LEMMA UserReaderServes ==
    ASSUME TypeInv, CallsStay, PacketsAreCalled, NEW u \in Users, NEW d, Arriving(u, d),
           NEW out \in [Nodes -> Seq(Plain)],
           channel' = Sending(Taking(u, d), u, out)
    PROVE  PacketsAreCalled'
<1>1. \A l \in Links : l[1] = u => out[l[2]] \in Seq(Servable(l[2]))
  BY UserServes
<1> QED
  BY <1>1, ReaderServes

LEMMA UserSenderServes ==
    ASSUME TypeInv, CallsStay, PacketsAreCalled, NEW u \in Users,
           NEW out \in [Nodes -> Seq(Plain)],
           channel' = Sending(channel, u, out)
    PROVE  PacketsAreCalled'
<1>1. \A l \in Links : l[1] = u => out[l[2]] \in Seq(Servable(l[2]))
  BY UserServes
<1> QED
  BY <1>1, SenderServes

LEMMA ToNeighboursPlain ==
    ASSUME NEW u, NEW p \in Plain
    PROVE  ToNeighbours(u, <<p>>) \in [Nodes -> Seq(Plain)]
<1>1. <<p>> \in Seq(Plain) /\ << >> \in Seq(Plain)
  OBVIOUS
<1> QED
  BY <1>1 DEF ToNeighbours

LEMMA StartUsersServes ==
    ASSUME TypeInv, CallsStay, PacketsAreCalled, NEW u \in Users, StartUsers(u)
    PROVE  PacketsAreCalled'
<1> DEFINE type == SwitchLog(u)
           content == ContentShell("plugAndPlay", u, 0)
           log == appendLogShell(NewLog(u), content)
           p == NetShell(type, 0, getLastEntry(log))
           out == [m \in Nodes |-> IF m \in Peers(u) THEN <<p>> ELSE << >>]
<1>1. channel' = Sending(channel, u, out)
  BY DEF StartUsers, StartUser
<1>2. u \in Nodes /\ content \in Contents
  BY Identifiers, ContentShellType DEF Functions
<1>3. type \in LogTypes
  BY OwnTypes
<1> HIDE DEF content, type
<1>4. getLastEntry(log) \in Entries
  BY <1>2, OpeningEntry
<1> HIDE DEF log
<1>5. p \in Plain
  BY <1>3, <1>4, PlainShell
<1> HIDE DEF p
<1>6. <<p>> \in Seq(Plain) /\ << >> \in Seq(Plain)
  BY <1>5
<1>7. out \in [Nodes -> Seq(Plain)]
  BY <1>6
<1> HIDE DEF out
<1> QED
  BY <1>1, <1>7, UserSenderServes

\* What a user appends to its log of requests.
LEMMA ToldIsPlain ==
    ASSUME TypeInv, NEW u \in Users \cap started, NEW f \in Requests, NEW a \in Users
    PROVE  LET log == appendLogShell(logPacket[u][SwitchLog(u)], ContentShell(f, a, 0))
           IN  ToNeighbours(u, <<NetShell(SwitchLog(u), 0, getLastEntry(log))>>)
                   \in [Nodes -> Seq(Plain)]
<1> DEFINE content == ContentShell(f, a, 0)
           log == appendLogShell(logPacket[u][SwitchLog(u)], content)
           p == NetShell(SwitchLog(u), 0, getLastEntry(log))
<1>1. logPacket[u][SwitchLog(u)] \in Logs /\ SwitchLog(u) \in LogTypes
  BY SwitchLogType
<1>2. content \in Contents
  BY Identifiers, ContentShellType DEF Functions, Requests
<1> HIDE DEF content
<1>3. getLastEntry(log) \in Entries
  BY <1>1, <1>2, appendLogShellType
<1> HIDE DEF log
<1>4. p \in Plain
  BY <1>1, <1>3, PlainShell
<1> HIDE DEF p
<1> QED
  BY <1>4, ToNeighboursPlain DEF p, log, content

LEMMA OwnAnswerPlain ==
    ASSUME IInv, NEW u \in Users, NEW d, Receiving(u, d)
    PROVE  OwnAnswer(u, d) \in [Nodes -> Seq(Plain)]
<1> DEFINE l == myPersonalLog[u]
           from == Arrived(u, d).shell.sequenceNum
           key == getKeyByValue(Learnt(u, d), d)
           map == Learnt(u, d)
           answer == sendEntryFromIndexTo(l, map, key, from, OwnLog(u))
<1>1. TypeInv /\ from \in Int
  BY UserReadingParts
<1>2. l \in Logs /\ l.log \in Seq(Entries)
  BY <1>1, PersonalType DEF Logs
<1>3. OwnLog(u) \in LogTypes
  BY ContentTypes DEF OwnLog, ContentOf
<1>4. Len(l.log) \in Nat /\ \A i \in 1..Len(l.log) : l.log[i] \in Entries
  BY <1>2, LenProperties, ElementOfSeq
<1>5. \A i \in 1..Len(l.log) : NetShell(OwnLog(u), 0, l.log[i]) \in Plain
  BY <1>3, <1>4, PlainShell
<1> HIDE DEF l, from, key, map
<1>6. answer \in [Nodes -> Seq(Plain)]
  BY <1>1, <1>2, <1>5, SendEntryCarries
<1>7. Nothing \in [Nodes -> Seq(Plain)]
  BY NothingCarries
<1> QED
  BY <1>6, <1>7 DEF OwnAnswer, l, from, key, map

LEMMA UserStepServes ==
    ASSUME IInv, CallsStay, PacketsAreCalled, NEW u \in Users, UserStep(u)
    PROVE  PacketsAreCalled'
<1>1. TypeInv
  BY DEF IInv
<1>2. CASE StartUsers(u)
  BY <1>1, <1>2, StartUsersServes
<1>3. ASSUME NEW a \in Users, CallSubscribe(u, a) PROVE PacketsAreCalled'
  <2> DEFINE log == appendLogShell(logPacket[u][SwitchLog(u)],
                                   ContentShell("getContentFrom", a, 0))
             out == ToNeighbours(u, <<NetShell(SwitchLog(u), 0, getLastEntry(log))>>)
  <2>1. u \in started /\ (UNCHANGED channel \/ channel' = Sending(channel, u, out))
    BY <1>3 DEF CallSubscribe, Subscribe, Running, Telling
  <2>2. out \in [Nodes -> Seq(Plain)]
    BY <1>1, <2>1, ToldIsPlain DEF Requests
  <2> HIDE DEF out
  <2> QED BY <1>1, <2>1, <2>2, SameLinksServe, UserSenderServes
<1>4. ASSUME NEW a \in Users, CallUnsubscribe(u, a) PROVE PacketsAreCalled'
  <2> DEFINE log == appendLogShell(logPacket[u][SwitchLog(u)],
                                   ContentShell("removeUserFromInl", a, 0))
             out == ToNeighbours(u, <<NetShell(SwitchLog(u), 0, getLastEntry(log))>>)
  <2>1. u \in started /\ channel' = Sending(channel, u, out)
    BY <1>4 DEF CallUnsubscribe, Unsubscribe, Running
  <2>2. out \in [Nodes -> Seq(Plain)]
    BY <1>1, <2>1, ToldIsPlain DEF Requests
  <2> HIDE DEF out
  <2> QED BY <1>1, <2>1, <2>2, UserSenderServes
<1>5. CASE CallPush(u)
  <2> DEFINE l == myPersonalLog[u]
             content == ContentShell("pushContent", None, Len(l.log))
             log == appendLogShell(l, content)
             p == NetShell(OwnLog(u), 0, getLastEntry(log))
             out == ToNeighbours(u, <<p>>)
  <2>1. channel' = Sending(channel, u, out)
    BY <1>5 DEF CallPush, PushLogToSwitch
  <2>2. l \in Logs /\ Len(l.log) \in Nat
    <3>1. l \in Logs /\ l.log \in Seq(Entries)
      BY <1>1, PersonalType DEF Logs
    <3> QED BY <3>1, LenProperties
  <2>3. content \in Contents
    BY <2>2, ContentShellType DEF Functions
  <2> HIDE DEF content, l
  <2>4. getLastEntry(log) \in Entries
    BY <2>2, <2>3, appendLogShellType
  <2>5. OwnLog(u) \in LogTypes
    BY ContentTypes DEF OwnLog, ContentOf
  <2> HIDE DEF log
  <2>6. p \in Plain
    BY <2>4, <2>5, PlainShell
  <2> HIDE DEF p
  <2>7. out \in [Nodes -> Seq(Plain)]
    BY <2>6, ToNeighboursPlain
  <2> HIDE DEF out
  <2> QED BY <1>1, <2>1, <2>7, UserSenderServes
<1>6. ASSUME NEW d \in Peers(u), ReceiveUser(u, d) PROVE PacketsAreCalled'
  <2>1. CASE MissPacket(u, d)
    <3> DEFINE l == <<d, u>>
    <3>1. /\ l \in Links /\ channel[l] # << >>
          /\ channel' = [channel EXCEPT ![l] = Tail(@)]
      BY <2>1 DEF MissPacket, Arriving, Taking
    <3> HIDE DEF l
    <3> QED BY <1>1, <3>1, OneLinkThins, ThinnedServes
  <2>2. ASSUME Receiving(u, d), NEW out, NEW map, Reading(u, d, map, out),
               out \in [Nodes -> Seq(Plain)]
        PROVE  PacketsAreCalled'
    BY <1>1, <2>2, UserReaderServes DEF Reading, Receiving
  <2>3. Nothing \in [Nodes -> Seq(Plain)]
    BY NothingCarries
  <2>4. CASE AddSwitch(u, d)
    BY <2>2, <2>3, <2>4 DEF AddSwitch
  <2>5. CASE UpdateContent(u, d)
    BY <2>2, <2>5, OwnAnswerPlain DEF UpdateContent
  <2>6. CASE AnswerOwnGossip(u, d)
    BY <2>2, <2>6, OwnAnswerPlain DEF AnswerOwnGossip
  <2>7. CASE IgnorePacket(u, d)
    BY <2>2, <2>3, <2>7 DEF IgnorePacket
  <2> QED BY <1>6, <2>1, <2>4, <2>5, <2>6, <2>7 DEF ReceiveUser
<1> QED
  BY <1>2, <1>3, <1>4, <1>5, <1>6 DEF UserStep

\* What the manager sends is published by none.
LEMMA ManagerServes ==
    ASSUME IInv, CallsStay, PacketsAreCalled, NEW d, ReceiveManager(d)
    PROVE  PacketsAreCalled'
<1> DEFINE p == Arrived(ManagerId, d)
<1>1. TypeInv /\ LogIntegrity /\ ContentsInv
  BY DEF IInv
<1>2. Receiving(ManagerId, d) /\ Arriving(ManagerId, d) /\ d \in Nodes
  <2>1. Receiving(ManagerId, d)
    BY DEF ReceiveManager, RegisterSwitch, AnswerManagerGossip, DropUnknown
  <2> QED BY <2>1, LinksConnectNodes DEF Receiving, Arriving
<1>3. p \in Packets /\ p.shell \in Entries /\ p.shell.sequenceNum \in Int
  <2>1. Carry(channel, Packets)
    BY <1>1 DEF TypeInv, LinksOK, Carry
  <2>2. p \in Packets
    BY <1>2, <2>1, ArrivedCarries
  <2> QED BY <2>2, PacketType, EntryType
<1>4. MyType \in LogTypes /\ MyType[2] # USER_ALL /\ GossipAnswerType[2] # USER_ALL
  BY Identifiers, LogTypesAre DEF MyType, GossipAnswerType, LOGTYPE, SWITCH_ALL, USER_ALL
<1>5. ASSUME NEW out \in [Nodes -> Seq(Direct)], channel' = Sending(Taking(ManagerId, d), ManagerId, out)
      PROVE  PacketsAreCalled'
  BY <1>1, <1>2, <1>5, DirectReaderServes
<1>6. ASSUME channel' = Taking(ManagerId, d)
      PROVE  PacketsAreCalled'
  <2> DEFINE l == <<d, ManagerId>>
  <2>1. /\ l \in Links /\ channel[l] # << >>
        /\ channel' = [channel EXCEPT ![l] = Tail(@)]
    BY <1>2, <1>6 DEF Arriving, Taking
  <2> HIDE DEF l
  <2> QED BY <1>1, <2>1, OneLinkThins, ThinnedServes
<1>7. ASSUME NEW log \in Logs, NEW t \in {MyType, GossipAnswerType}, NEW from \in Int
      PROVE  /\ log.log \in Seq(Entries)
             /\ \A i \in 1..Len(log.log) : NetShell(t, 0, log.log[i]) \in Direct
             /\ EntriesFrom(log, from, t) \in Seq(Direct)
  <2>1. log.log \in Seq(Entries)
    BY DEF Logs
  <2>2. Len(log.log) \in Nat /\ \A i \in 1..Len(log.log) : log.log[i] \in Entries
    BY <2>1, LenProperties, ElementOfSeq
  <2>3. \A i \in 1..Len(log.log) : NetShell(t, 0, log.log[i]) \in Direct
    BY <1>4, <2>2, PlainShell
  <2> QED BY <2>1, <2>3, EntriesFromCarries
<1> HIDE DEF p
<1>8. CASE RegisterSwitch(d)
  <2> DEFINE author == p.shell.authorId
             map == Insert(neighbourMap[ManagerId], author, d)
             content == ContentShell("addMemberToNetwork", author, 0)
             log == appendLogShell(myPersonalLog[ManagerId], content)
             out == JoinAnswers(log, map, author)
  <2>1. \/ channel' = Taking(ManagerId, d)
        \/ channel' = Sending(Taking(ManagerId, d), ManagerId, out)
    BY <1>8 DEF RegisterSwitch, p
  <2>2. author \in Nodes
    BY <1>3, EntryType
  <2>3. content \in Contents
    BY <2>2, ContentShellType DEF Functions
  <2>4. myPersonalLog[ManagerId] \in Logs
    BY <1>1, PersonalType
  <2> HIDE DEF content, map, author
  <2>5. log \in Logs /\ getLastEntry(log).sequenceNum \in Int
    BY <2>3, <2>4, appendLogShellType, EntryType
  <2> HIDE DEF log
  <2>6. /\ EntriesFrom(log, 0, MyType) \in Seq(Direct)
        /\ EntriesFrom(log, getLastEntry(log).sequenceNum, MyType) \in Seq(Direct)
        /\ << >> \in Seq(Direct)
    <3>1. \A from \in Int : EntriesFrom(log, from, MyType) \in Seq(Direct)
      BY <1>7, <2>5, Zenon
    <3>2. 0 \in Int
      OBVIOUS
    <3> QED BY <2>5, <3>1, <3>2
  <2>7. out \in [Nodes -> Seq(Direct)]
    BY <2>6 DEF JoinAnswers
  <2> HIDE DEF out
  <2> QED BY <1>5, <1>6, <2>1, <2>7
<1>9. CASE AnswerManagerGossip(d)
  <2> DEFINE map == neighbourMap[ManagerId]
             key == getKeyByValue(map, d)
             log == myPersonalLog[ManagerId]
             answer == sendEntryFromIndexTo(log, map, key, p.shell.sequenceNum, GossipAnswerType)
             out == IF getCurrentSeqNum(log) > p.shell.sequenceNum THEN answer ELSE Nothing
  <2>1. channel' = Sending(Taking(ManagerId, d), ManagerId, out)
    BY <1>9 DEF AnswerManagerGossip, p
  <2>2. log \in Logs
    BY <1>1, PersonalType
  <2> HIDE DEF map, key, log
  <2>3. answer \in [Nodes -> Seq(Direct)]
    BY <1>3, <1>7, <2>2, SendEntryCarries
  <2>4. Nothing \in [Nodes -> Seq(Direct)]
    BY NothingCarries
  <2> HIDE DEF answer
  <2>5. out \in [Nodes -> Seq(Direct)]
    BY <2>3, <2>4
  <2> HIDE DEF out
  <2> QED BY <1>5, <2>1, <2>5
<1>10. CASE DropUnknown(d)
  BY <1>6, <1>10 DEF DropUnknown
<1> QED
  BY <1>8, <1>9, <1>10 DEF ReceiveManager

LEMMA StartSwitchServes ==
    ASSUME TypeInv, CallsStay, PacketsAreCalled, NEW s \in Switches, StartSwitch(s)
    PROVE  PacketsAreCalled'
<1> DEFINE type == LOGTYPE(s, MANAGER_ALL)
           content == ContentShell("addToNetwork", s, 0)
           log == appendLogShell(NewLog(s), content)
           p == NetShell(type, 0, getLastEntry(log))
           out == [m \in Nodes |-> IF m \in Peers(s) THEN <<p>> ELSE << >>]
<1>1. channel' = Sending(channel, s, out)
  BY DEF StartSwitch
<1>2. s \in Nodes /\ content \in Contents
  BY Identifiers, ContentShellType DEF Functions
<1>3. type \in LogTypes /\ type[2] # USER_ALL
  BY OwnTypes DEF LOGTYPE, MANAGER_ALL, USER_ALL
<1> HIDE DEF content, type
<1>4. getLastEntry(log) \in Entries
  BY <1>2, OpeningEntry
<1> HIDE DEF log
<1>5. p \in Direct
  BY <1>3, <1>4, PlainShell
<1> HIDE DEF p
<1>6. <<p>> \in Seq(Direct) /\ << >> \in Seq(Direct)
  BY <1>5
<1>7. out \in [Nodes -> Seq(Direct)]
  BY <1>6
<1> HIDE DEF out
<1> QED
  BY <1>1, <1>7, DirectSenderServes

\* A switch that answers what was served, or gossip.
LEMMA ServeRequestServes ==
    ASSUME IInv, CallsStay, PacketsAreCalled, NEW s \in Switches, NEW d,
           ServeRequest(s, d),
           d \in Users => MayHave(d, Arrived(s, d).shell.shell.params)
    PROVE  PacketsAreCalled'
<1> DEFINE p == Arrived(s, d)
           author == p.shell.shell.params
           logs == Concatenated(s, d)
           content == ContentOf(author)
           map == Known(s, d)
           key == getKeyByValue(map, d)
           log == logs[content]
           out == IF exists(logs, content)
                  THEN sendEntryFromIndexTo(log, map, key, 0, content) ELSE Nothing
<1>1. /\ Receiving(s, d) /\ ForSwitch(p.type)
      /\ channel' = Sending(Taking(s, d), s, out)
  BY DEF ServeRequest, Handling
<1>2. /\ TypeInv /\ Arriving(s, d) /\ d \in Nodes /\ IsNaming(map) /\ d \in DOMAIN map
  BY <1>1, ReadingParts
<1>3. p.type \in LogTypes
  BY <1>1, <1>2, HandledTypes
<1>4. key = d
  BY <1>2, KeyOfNaming
<1>5. map[key] = d
  BY <1>2, <1>4 DEF IsNaming
<1>6. ASSUME exists(logs, content)
      PROVE  EntriesFrom(log, 0, content) \in Seq(Servable(d))
  <2>1. content \in LogTypes /\ log \in Logs
    BY <1>1, <1>3, <1>6, ConcatenatedLogs DEF exists
  <2>2. log.log \in Seq(Entries)
    BY <2>1 DEF Logs
  <2>3. Len(log.log) \in Nat /\ \A i \in 1..Len(log.log) : log.log[i] \in Entries
    BY <2>2, LenProperties, ElementOfSeq
  <2>4. content[1] = author
    BY DEF ContentOf, LOGTYPE
  <2>5. d \in Users => MayHave(d, content[1])
    BY <2>4
  <2> HIDE DEF log, content
  <2>6. ASSUME NEW e \in Entries PROVE NetShell(content, 0, e) \in Servable(d)
    <3>1. NetShell(content, 0, e) \in Plain
      BY <2>1, PlainShell
    <3>2. NetShell(content, 0, e).type = content
      BY DEF NetShell
    <3> QED BY <2>5, <3>1, <3>2 DEF Plain, Servable
  <2>7. \A i \in 1..Len(log.log) : NetShell(content, 0, log.log[i]) \in Servable(d)
    BY <2>3, <2>6
  <2> QED BY <2>2, <2>7, EntriesFromCarries
<1> HIDE DEF log, content, logs, key, map
<1>7. ASSUME NEW l \in Links, l[1] = s
      PROVE  out[l[2]] \in Seq(Servable(l[2]))
  <2>1. l[2] \in Nodes
    BY LinksConnectNodes
  <2>2. << >> \in Seq(Servable(l[2]))
    OBVIOUS
  <2>3. \/ out[l[2]] = << >>
        \/ /\ exists(logs, content) /\ key \in DOMAIN map /\ map[key] = l[2]
           /\ out[l[2]] = EntriesFrom(log, 0, content)
    BY <2>1 DEF sendEntryFromIndexTo, Nothing
  <2> HIDE DEF out
  <2> QED BY <1>5, <1>6, <2>2, <2>3
<1> HIDE DEF out
<1> QED
  BY <1>1, <1>2, <1>7, ReaderServes

LEMMA AnswerGossipServes ==
    ASSUME IInv, CallsStay, PacketsAreCalled, NEW s \in Switches, NEW d,
           AnswerSwitchGossip(s, d)
    PROVE  PacketsAreCalled'
<1> DEFINE p == Arrived(s, d)
           map == Known(s, d)
           key == getKeyByValue(map, d)
           log == logPacket[s][p.type]
           out == sendEntryFromIndexTo(log, map, key, p.shell.sequenceNum, p.type)
<1>1. /\ Receiving(s, d) /\ ForSwitch(p.type) /\ p.type \in DOMAIN logPacket[s]
      /\ channel' = Sending(Taking(s, d), s, out)
  BY DEF AnswerSwitchGossip, Handling, IsAheadOf, exists
<1>2. /\ TypeInv /\ Arriving(s, d) /\ s \in Nodes /\ p.shell \in Entries
  BY <1>1, ReadingParts
<1>3. p.type \in LogTypes /\ log.log \in Seq(Entries)
  BY <1>1, <1>2, ListType
<1>4. p.shell.sequenceNum \in Int
  BY <1>2, EntryType
<1>5. p.type[2] # USER_ALL
  BY <1>1, Identifiers DEF ForSwitch, USER_ALL, SWITCH_ALL
<1>6. Len(log.log) \in Nat /\ \A i \in 1..Len(log.log) : log.log[i] \in Entries
  BY <1>3, LenProperties, ElementOfSeq
<1>7. \A i \in 1..Len(log.log) : NetShell(p.type, 0, log.log[i]) \in Direct
  <2> HIDE DEF p, log
  <2> QED BY <1>3, <1>5, <1>6, PlainShell
<1> HIDE DEF log, map, key, p
<1>8. out \in [Nodes -> Seq(Direct)]
  BY <1>3, <1>4, <1>7, SendEntryCarries
<1> HIDE DEF out
<1> QED
  BY <1>1, <1>2, <1>8, DirectReaderServes

LEMMA PlugAndPlayServes ==
    ASSUME IInv, CallsStay, PacketsAreCalled, NEW s \in Switches, NEW d,
           AcceptPlugAndPlay(s, d)
    PROVE  PacketsAreCalled'
<1> DEFINE type == LOGTYPE(s, Arrived(s, d).shell.authorId)
           content == ContentShell("addSwitch", s, 0)
           log == appendLogShell(NewLog(s), content)
           old == Concatenated(s, d)
           logs == Insert(old, type, log)
           p == NetShell(type, 0, getLastEntry(logs[type]))
           out == [m \in Nodes |->
                      IF m = d /\ ~empty(logs[type])
                      THEN <<NetShell(type, 0, getLastEntry(logs[type]))>> ELSE << >>]
<1>1. /\ IsAccepting(s, d) /\ Arrived(s, d).shell.shell.function = "plugAndPlay"
      /\ channel' = Sending(Taking(s, d), s, out)
  BY DEF AcceptPlugAndPlay, Accepts, Handling
<1>2. TypeInv /\ LogIntegrity /\ ContentsInv
  BY DEF IInv
<1>3. /\ Receiving(s, d) /\ Arriving(s, d) /\ s \in Nodes
  BY <1>1, ReadingParts DEF IsAccepting, IsConcatenating
<1>4. d \in Users /\ d \in Nodes /\ type = <<s, d>>
  BY <1>1, PlugAndPlayFrom, Identifiers DEF LOGTYPE
<1>5. type \in LogTypes /\ type[2] # USER_ALL
  BY <1>3, <1>4, OwnTypes, Identifiers DEF LOGTYPE, USER_ALL
<1>6. Arrived(s, d).type \in LogTypes
  BY <1>1, <1>2, AcceptedFits
<1>7. \A t \in DOMAIN old : old[t] \in Logs
  BY <1>3, <1>6, ConcatenatedLogs
<1>8. log \in Logs
  <2>1. content \in Contents
    BY <1>3, ContentShellType DEF Functions
  <2> HIDE DEF content
  <2> QED BY <1>3, <2>1, OpeningEntry
<1> HIDE DEF old, log, type
<1>9. logs[type] \in Logs
  BY <1>7, <1>8 DEF Insert
<1> HIDE DEF logs
<1>10. ~empty(logs[type]) => p \in Direct
  <2> DEFINE l == logs[type]
  <2>1. l \in Logs
    BY <1>9
  <2> HIDE DEF l
  <2>2. l.log # << >> => getLastEntry(l) \in Entries
    BY <2>1, LogType
  <2>3. ~empty(l) => getLastEntry(l) \in Entries
    BY <2>2 DEF empty
  <2> QED BY <1>5, <2>3, PlainShell DEF l
<1>11. out \in [Nodes -> Seq(Direct)]
  <2> HIDE DEF p
  <2>1. ~empty(logs[type]) => <<p>> \in Seq(Direct)
    BY <1>10
  <2>2. << >> \in Seq(Direct)
    OBVIOUS
  <2> QED BY <2>1, <2>2 DEF p
<1> HIDE DEF out
<1> QED
  BY <1>1, <1>2, <1>3, <1>11, DirectReaderServes

\* What is forwarded goes to those whose interest was noted before: the sender
\* itself, who is noted now, is left out.
LEMMA ForwardingServes ==
    ASSUME IInv, CallsStay, PacketsAreCalled, InterestsAreCalled,
           NEW s \in Switches, NEW d, ReceiveContent(s, d)
    PROVE  PacketsAreCalled'
<1> DEFINE p == Arrived(s, d)
           map == Known(s, d)
           key == getKeyByValue(map, d)
           old == interestedNeighbours[s]
           own == <<p.shell.authorId, key>>
           interests == IF own \in DOMAIN old THEN old
                        ELSE Interested(old, p.shell.authorId, key)
           accepted == isEntryConcatenated(logPacket[s], p.type, p.shell)
           forwarded == Forwarded(map, interests, p, d)
           out == IF accepted THEN forwarded ELSE Nothing
<1>1. /\ Receiving(s, d) /\ p.flag = 0
      /\ channel' = Sending(Taking(s, d), s, out)
  BY DEF ReceiveContent, Handling
<1>2. /\ TypeInv /\ Arriving(s, d) /\ d \in Nodes /\ IsNaming(map) /\ d \in DOMAIN map
      /\ p \in Packets /\ p.shell \in Entries
  BY <1>1, ReadingParts
<1>3. key = d
  BY <1>2, KeyOfNaming
<1>4. IsInterests(old) /\ p.shell.authorId \in Nodes
  BY <1>2, EntryType DEF TypeInv, InterestsOK
<1>5. /\ IsInterests(interests)
      /\ \A q \in DOMAIN interests : q \in DOMAIN old \/ q[2] = d
  <2> DEFINE author == p.shell.authorId
  <2>1. author \in Nodes
    BY <1>4
  <2> HIDE DEF old, key, author
  <2>2. /\ IsInterests(Interested(old, author, key))
        /\ DOMAIN Interested(old, author, key) = DOMAIN old \cup {<<author, key>>}
    <3>1. IsInterests(old) /\ key \in Nodes \cup {None}
      BY ONLY <1>2, <1>3, <1>4
    <3>2. IsInterests(Interested(old, author, key))
      BY ONLY <2>1, <3>1, InterestedType
    <3>3. DOMAIN Interested(old, author, key) = DOMAIN old \cup {<<author, key>>}
      BY ONLY InterestedDomain
    <3> QED BY <3>2, <3>3
  <2>3. \A q \in DOMAIN Interested(old, author, key) : q \in DOMAIN old \/ q[2] = d
    <3>1. \A q : q = <<author, key>> => q[2] = d
      BY <1>3
    <3> QED BY <2>2, <3>1
  <2> QED BY <1>4, <2>2, <2>3 DEF author
<1>6. \A q \in DOMAIN interests : interests[q] \in Nat
  <2> HIDE DEF interests
  <2> QED BY <1>5 DEF IsInterests
<1>7. \A q \in DOMAIN old : q[2] \in Users => MayHave(q[2], q[1])
  BY DEF InterestsAreCalled
<1> HIDE DEF map, old, key, interests, p, accepted
<1>8. ASSUME NEW l \in Links, l[1] = s
      PROVE  out[l[2]] \in Seq(Servable(l[2]))
  <2> DEFINE m == l[2]
             k == getKeyByValue(map, m)
             interest == <<p.type[1], k>>
             n == interests[interest]
  <2>1. m \in Nodes
    BY LinksConnectNodes
  <2>2. << >> \in Seq(Servable(m))
    OBVIOUS
  <2>3. \/ out[m] = << >>
        \/ /\ interest \in DOMAIN interests /\ k # None /\ m # d
           /\ out[m] = [i \in 1..n |-> p]
    BY <2>1 DEF Forwarded, Nothing
  <2>4. ASSUME interest \in DOMAIN interests, k # None, m # d,
               out[m] = [i \in 1..n |-> p]
        PROVE  out[m] \in Seq(Servable(m))
    <3>1. k = m
      BY <1>2, <2>1, <2>4, KeyOfNaming
    <3>2. interest[1] = p.type[1] /\ interest[2] = m
      BY <3>1
    <3>3. interest \in DOMAIN old
      BY <1>5, <2>4, <3>2
    <3>4. m \in Users => MayHave(m, p.type[1])
      BY <1>7, <3>2, <3>3
    <3>5. n \in Nat
      BY <1>6, <2>4
    <3>6. p \in Servable(m)
      BY <1>1, <1>2, <3>4 DEF Servable
    <3> HIDE DEF n
    <3>7. out[m] \in [1..n -> Servable(m)]
      BY <2>4, <3>6
    <3> HIDE DEF m, out
    <3> QED BY <3>5, <3>7, FunctionIsSeq
  <2> QED BY <2>2, <2>3, <2>4
<1> HIDE DEF out
<1> QED
  BY <1>1, <1>2, <1>8, ReaderServes

\* What a switch serves a user it was asked for by the user itself, whose
\* requests are the calls.
LEMMA UserRequest ==
    ASSUME IInv, RequestsAreCalled, NEW s \in Switches, NEW d \in Users, Receiving(s, d),
           ForSwitch(Arrived(s, d).type), Arrived(s, d).type # MyType
    PROVE  MayHave(d, Arrived(s, d).shell.shell.params)
<1> DEFINE p == Arrived(s, d)
           log == CopyIn(logPacket[d], p.type)
           i == p.shell.sequenceNum + 1
<1>1. IsRequestLog(p.type) /\ p.type = SwitchLog(d)
  BY RequestTypes
<1>2. i \in 1..Len(log) /\ log[i] = p.shell
  BY <1>1, ArrivedIsWritten
<1> HIDE DEF i
<1> QED
  BY <1>1, <1>2 DEF RequestsAreCalled

LEMMA ReceiveSwitchServes ==
    ASSUME IInv, CallsStay, PacketsAreCalled, InterestsAreCalled, RequestsAreCalled,
           NEW s \in Switches, NEW d, ReceiveSwitch(s, d)
    PROVE  PacketsAreCalled'
<1>1. TypeInv
  BY DEF IInv
<1>2. Nothing \in [Nodes -> Seq(Direct)]
  BY NothingCarries
<1>3. ASSUME Receiving(s, d), Handling(s, d, Nothing)
      PROVE  PacketsAreCalled'
  BY <1>1, <1>2, <1>3, DirectReaderServes DEF Handling, Receiving
<1>4. ASSUME NEW out, Exchange(s, d, out), IsDirect(out), d # None
      PROVE  PacketsAreCalled'
  BY <1>1, <1>4, DirectExchangeServes
<1>5. ASSUME Receiving(s, d)
      PROVE  d # None /\ d \in Nodes /\ Arriving(s, d)
  BY <1>5, ReadingParts, Identifiers
<1>6. CASE DropPacket(s, d)
  BY <1>3, <1>6 DEF DropPacket
<1>7. CASE ServeRequest(s, d)
  <2>1. /\ Receiving(s, d) /\ ForSwitch(Arrived(s, d).type) /\ IsServed(s, d)
    BY <1>7 DEF ServeRequest
  <2>2. Arrived(s, d).type # MyType
    BY <2>1, ServedFrom
  <2>3. d \in Users => MayHave(d, Arrived(s, d).shell.shell.params)
    BY <2>1, <2>2, UserRequest
  <2> QED BY <1>7, <2>3, ServeRequestServes
<1>8. CASE AnswerSwitchGossip(s, d)
  BY <1>8, AnswerGossipServes
<1>9. CASE RejectEntry(s, d)
  BY <1>3, <1>9 DEF RejectEntry, IsConcatenating
<1>10. CASE AcceptMember(s, d)
  BY <1>3, <1>10 DEF AcceptMember, Accepts, IsAccepting, IsConcatenating
<1>11. CASE AcceptPlugAndPlay(s, d)
  BY <1>11, PlugAndPlayServes
<1>12. CASE AcceptRequest(s, d)
  <2>1. Receiving(s, d)
    BY <1>12 DEF AcceptRequest, Accepts, IsAccepting, IsConcatenating
  <2> QED BY <1>4, <1>5, <1>12, <2>1, AcceptRequestExchange
<1>13. CASE AcceptUnsubscribe(s, d)
  <2>1. Receiving(s, d)
    BY <1>13 DEF AcceptUnsubscribe, IsAccepting, IsConcatenating
  <2> QED BY <1>4, <1>5, <1>13, <2>1, AcceptUnsubscribeExchange
<1>14. CASE AcceptOther(s, d)
  BY <1>3, <1>14 DEF AcceptOther, IsAccepting, IsConcatenating
<1>15. CASE ReceiveContent(s, d)
  BY <1>15, ForwardingServes
<1>16. CASE ReceiveUserGossip(s, d)
  <2>1. Receiving(s, d) /\ Arrived(s, d).flag = 1
    BY <1>16 DEF ReceiveUserGossip
  <2>2. Arrived(s, d) \in Servable(s)
    BY <1>1, <1>5, <2>1, TakenServes
  <2> QED BY <2>1, <2>2 DEF Servable
<1> QED
  BY <1>6, <1>7, <1>8, <1>9, <1>10, <1>11, <1>12, <1>13, <1>14, <1>15, <1>16 DEF ReceiveSwitch

LEMMA NextServes ==
    ASSUME IInv, ServingInv, [Next]_vars
    PROVE  PacketsAreCalled'
<1>1. /\ TypeInv /\ agenda.gossip = 0
      /\ RequestsAreCalled /\ InterestsAreCalled /\ PacketsAreCalled
  BY DEF IInv, ServingInv
<1>2. CallsStay /\ \A s \in Switches : ~GossipRound(s)
  BY <1>1, CallsAreKept
<1>3. ASSUME NEW s \in Switches, SwitchStep(s) PROVE PacketsAreCalled'
  BY <1>1, <1>2, <1>3, StartSwitchServes, ReceiveSwitchServes DEF SwitchStep
<1>4. ASSUME NEW u \in Users, UserStep(u) PROVE PacketsAreCalled'
  BY <1>1, <1>2, <1>4, UserStepServes
<1>5. ASSUME ManagerStep PROVE PacketsAreCalled'
  BY <1>1, <1>2, <1>5, ManagerServes DEF ManagerStep
<1>6. ASSUME NEW l \in LossyLinks, LosePacket(l) PROVE PacketsAreCalled'
  <2>1. /\ l \in Links /\ channel[l] # << >>
        /\ channel' = [channel EXCEPT ![l] = Tail(@)]
    BY <1>6, LossBetweenSwitches DEF LosePacket
  <2> QED BY <1>1, <1>2, <2>1, OneLinkThins, ThinnedServes
<1>7. ASSUME UNCHANGED vars PROVE PacketsAreCalled'
  <2>1. UNCHANGED channel
    BY <1>7 DEF vars, deviceVars
  <2> QED BY <1>1, <1>2, <2>1, SameLinksServe
<1> QED
  BY <1>3, <1>4, <1>5, <1>6, <1>7 DEF Next

-----------------------------------------------------------------------------
(* What users ask for and hold *)

\* A list of logs changes by an act of its owner alone; a user's when it starts,
\* calls, or reads content.
LEMMA UserLists ==
    ASSUME IInv, [Next]_vars, NEW u \in Users
    PROVE  \/ logPacket'[u] = logPacket[u]
           \/ StartUsers(u)
           \/ \E a \in Users : CallSubscribe(u, a) \/ CallUnsubscribe(u, a)
           \/ \E d : UpdateContent(u, d)
<1>1. /\ u \in Nodes /\ u # ManagerId /\ u \notin Switches /\ DOMAIN logPacket = Nodes
  BY Identifiers DEF IInv, TypeInv, ListsOK
<1>2. ASSUME NEW n, NEW list, n # u, logPacket' = [logPacket EXCEPT ![n] = list]
      PROVE  logPacket'[u] = logPacket[u]
  BY <1>1, <1>2
<1>3. ASSUME NEW n, n # u, NEW d, NEW out, Exchange(n, d, out)
      PROVE  logPacket'[u] = logPacket[u]
  BY <1>1, <1>3 DEF Exchange, ListsStep
<1>4. ASSUME NEW s \in Switches, SwitchStep(s) PROVE logPacket'[u] = logPacket[u]
  <2>1. s # u
    BY <1>1
  <2>2. CASE StartSwitch(s)
    BY <1>2, <2>1, <2>2 DEF StartSwitch
  <2>3. ASSUME NEW d, ReceiveSwitch(s, d) PROVE logPacket'[u] = logPacket[u]
    BY <1>3, <2>1, <2>3, ReceiveSwitchExchange
  <2>4. CASE GossipRound(s)
    BY <2>4 DEF GossipRound, Gossip
  <2> QED BY <1>4, <2>2, <2>3, <2>4 DEF SwitchStep
<1>5. ASSUME NEW v \in Users, v # u, UserStep(v) PROVE logPacket'[u] = logPacket[u]
  <2>1. CASE StartUsers(v)
    BY <1>2, <1>5, <2>1 DEF StartUsers, StartUser
  <2>2. ASSUME NEW a \in Users, CallSubscribe(v, a) PROVE logPacket'[u] = logPacket[u]
    BY <1>1, <1>5, <2>2 DEF CallSubscribe, Subscribe, Telling
  <2>3. ASSUME NEW a \in Users, CallUnsubscribe(v, a) PROVE logPacket'[u] = logPacket[u]
    BY <1>2, <1>5, <2>3 DEF CallUnsubscribe, Unsubscribe
  <2>4. CASE CallPush(v)
    BY <2>4 DEF CallPush, PushLogToSwitch
  <2>5. ASSUME NEW d, ReceiveUser(v, d) PROVE logPacket'[u] = logPacket[u]
    BY <1>1, <1>5, <2>5
    DEF ReceiveUser, AddSwitch, UpdateContent, AnswerOwnGossip, IgnorePacket, MissPacket
  <2> QED BY <1>5, <2>1, <2>2, <2>3, <2>4, <2>5 DEF UserStep
<1>6. ASSUME UserStep(u)
      PROVE  \/ logPacket'[u] = logPacket[u]
             \/ StartUsers(u)
             \/ \E a \in Users : CallSubscribe(u, a) \/ CallUnsubscribe(u, a)
             \/ \E d : UpdateContent(u, d)
  <2>1. ASSUME CallPush(u) PROVE logPacket'[u] = logPacket[u]
    BY <2>1 DEF CallPush, PushLogToSwitch
  <2>2. ASSUME NEW d, ReceiveUser(u, d) PROVE logPacket'[u] = logPacket[u] \/ UpdateContent(u, d)
    BY <2>2 DEF ReceiveUser, AddSwitch, AnswerOwnGossip, IgnorePacket, MissPacket
  <2> QED BY <1>6, <2>1, <2>2 DEF UserStep
<1>7. ASSUME ManagerStep PROVE logPacket'[u] = logPacket[u]
  BY <1>1, <1>3, <1>7, ReceiveManagerExchange DEF ManagerStep
<1>8. ASSUME NEW l \in LossyLinks, LosePacket(l) PROVE logPacket'[u] = logPacket[u]
  BY <1>8 DEF LosePacket
<1>9. ASSUME UNCHANGED vars PROVE logPacket'[u] = logPacket[u]
  BY <1>9 DEF vars, deviceVars
<1> QED
  BY <1>4, <1>5, <1>6, <1>7, <1>8, <1>9 DEF Next

\* A list as it is after the owner's step: its log of requests has at most one
\* entry more, which names a; other logs may have gone.
AsksFor(u, list, a) ==
    /\ DOMAIN list \subseteq DOMAIN logPacket[u] \cup {SwitchLog(u)}
    /\ LET old == CopyIn(logPacket[u], SwitchLog(u))
           new == CopyIn(list, SwitchLog(u))
       IN  \A i \in 1..Len(new) : \/ i \in 1..Len(old) /\ new[i] = old[i]
                                  \/ new[i].shell.params = a

LEMMA AppendedAsks ==
    ASSUME NEW l \in Logs, NEW content \in Contents, NEW i \in 1..Len(appendLogShell(l, content).log)
    PROVE  LET new == appendLogShell(l, content).log
           IN  \/ i \in 1..Len(l.log) /\ new[i] = l.log[i]
               \/ new[i].shell = content
<1> DEFINE new == appendLogShell(l, content)
<1>1. /\ Len(new.log) = Len(l.log) + 1
      /\ \A j \in 1..Len(l.log) : new.log[j] = l.log[j]
      /\ getLastEntry(new) = new.log[Len(l.log) + 1]
      /\ getLastEntry(new).shell = content
  BY appendLogShellType
<1>2. Len(l.log) \in Nat
  BY LogType
<1> HIDE DEF new
<1>3. CASE i <= Len(l.log)
  BY <1>1, <1>2, <1>3 DEF new
<1>4. CASE i > Len(l.log)
  <2>1. i = Len(l.log) + 1
    BY <1>1, <1>2, <1>4 DEF new
  <2> QED BY <1>1, <2>1 DEF new
<1> QED
  BY <1>2, <1>3, <1>4

LEMMA StartUsersAsks ==
    ASSUME IInv, NEW u \in Users, StartUsers(u)
    PROVE  AsksFor(u, logPacket'[u], u)
<1> DEFINE type == SwitchLog(u)
           content == ContentShell("plugAndPlay", u, 0)
           log == appendLogShell(NewLog(u), content)
           list == Insert(logPacket[u], type, log)
<1>1. u \in Nodes /\ DOMAIN logPacket = Nodes
  BY Identifiers DEF IInv, TypeInv, ListsOK
<1>2. logPacket'[u] = list
  BY <1>1 DEF StartUsers, StartUser
<1>3. content \in Contents /\ NewLog(u) \in Logs /\ content.params = u
  BY <1>1, ContentShellType, NewLogType DEF Functions, ContentShell
<1>4. Len(NewLog(u).log) = 0 /\ 1..Len(NewLog(u).log) = {}
  BY DEF NewLog
<1> HIDE DEF content
<1>5. \A i \in 1..Len(log.log) : log.log[i].shell.params = u
  <2>1. ASSUME NEW i \in 1..Len(log.log) PROVE log.log[i].shell.params = u
    <3>1. \/ i \in 1..Len(NewLog(u).log) /\ log.log[i] = NewLog(u).log[i]
          \/ log.log[i].shell = content
      BY <1>3, AppendedAsks
    <3> QED BY <1>3, <1>4, <3>1
  <2> QED BY <2>1
<1> HIDE DEF log
<1>6. DOMAIN list = DOMAIN logPacket[u] \cup {type} /\ type \in DOMAIN list
  BY DEF Insert
<1>7. CASE type \in DOMAIN logPacket[u]
  <2>1. list[type] = logPacket[u][type]
    BY <1>7 DEF Insert
  <2>2. CopyIn(list, type) = CopyIn(logPacket[u], type)
    BY <1>6, <1>7, <2>1 DEF CopyIn
  <2> HIDE DEF list
  <2> QED BY <1>2, <1>6, <2>2 DEF AsksFor
<1>8. CASE type \notin DOMAIN logPacket[u]
  <2>1. list[type] = log
    BY <1>8 DEF Insert
  <2>2. CopyIn(list, type) = log.log
    BY <1>6, <2>1 DEF CopyIn
  <2> HIDE DEF list
  <2> QED BY <1>2, <1>5, <1>6, <2>2 DEF AsksFor
<1> QED
  BY <1>7, <1>8

\* A call appends one entry, which names the author; to cancel a subscription
\* takes the author's log from the list besides.
LEMMA CallsAsk ==
    ASSUME IInv, NEW u \in Users \cap started, NEW f \in Requests, NEW a \in Users,
           NEW list,
           \/ list = logPacket[u]
           \/ list = [logPacket[u] EXCEPT ![SwitchLog(u)] =
                         appendLogShell(logPacket[u][SwitchLog(u)], ContentShell(f, a, 0))]
    PROVE  AsksFor(u, list, a) /\ AsksFor(u, Without(list, ContentOf(a)), a)
<1> DEFINE t == SwitchLog(u)
           l == logPacket[u][t]
           content == ContentShell(f, a, 0)
           log == appendLogShell(l, content)
           old == CopyIn(logPacket[u], t)
           less == Without(list, ContentOf(a))
<1>1. /\ t \in DOMAIN logPacket[u] /\ l \in Logs /\ t # ContentOf(a)
  BY SwitchLogType DEF IInv, ContentOf
<1>2. content \in Contents /\ content.params = a
  BY Identifiers, ContentShellType DEF Functions, Requests, ContentShell
<1>3. old = l.log
  BY <1>1 DEF CopyIn
<1> HIDE DEF content
<1>4. \A i \in 1..Len(log.log) : \/ i \in 1..Len(old) /\ log.log[i] = old[i]
                                 \/ log.log[i].shell.params = a
  <2> HIDE DEF old, l
  <2>1. ASSUME NEW i \in 1..Len(log.log)
        PROVE  \/ i \in 1..Len(old) /\ log.log[i] = old[i]
               \/ log.log[i].shell.params = a
    <3>1. \/ i \in 1..Len(l.log) /\ log.log[i] = l.log[i]
          \/ log.log[i].shell = content
      BY <1>1, <1>2, AppendedAsks
    <3> QED BY <1>2, <1>3, <3>1
  <2> QED BY <2>1
<1> HIDE DEF log
<1>5. /\ DOMAIN list = DOMAIN logPacket[u]
      /\ list[t] = l \/ list[t] = log
  BY <1>1 DEF log, content
<1> HIDE DEF l, old, t
<1>6. \A i \in 1..Len(CopyIn(list, t)) :
          \/ i \in 1..Len(old) /\ CopyIn(list, t)[i] = old[i]
          \/ CopyIn(list, t)[i].shell.params = a
  <2>1. CopyIn(list, t) = old \/ CopyIn(list, t) = log.log
    BY <1>1, <1>3, <1>5 DEF CopyIn
  <2> QED BY <1>4, <2>1
<1>7. DOMAIN less \subseteq DOMAIN list /\ CopyIn(less, t) = CopyIn(list, t)
  BY <1>1 DEF Without, CopyIn
<1> HIDE DEF less
<1> QED
  BY <1>5, <1>6, <1>7 DEF AsksFor, old, t, less

\* What user u asks for and holds after a step.
MayHaveNext(u, a) == a = u \/ <<u, a>> \in Subscriptions \ agenda'.subscribe

AsksRightly(u) ==
    \A i \in 1..Len(CopyIn(logPacket'[u], SwitchLog(u))) :
        MayHaveNext(u, CopyIn(logPacket'[u], SwitchLog(u))[i].shell.params)

HoldsRightly(u) ==
    \A a \in Users : ContentOf(a) \in DOMAIN logPacket'[u]
                         => <<u, a>> \in Subscriptions \ agenda'.subscribe

LEMMA AskingServes ==
    ASSUME CallsStay, RequestsAreCalled, OnlySubscribersHold, NEW u \in Users,
           NEW a, AsksFor(u, logPacket'[u], a), MayHaveNext(u, a)
    PROVE  AsksRightly(u) /\ HoldsRightly(u)
<1> DEFINE t == SwitchLog(u)
           old == CopyIn(logPacket[u], t)
           new == CopyIn(logPacket'[u], t)
<1>1. \A i \in 1..Len(new) : (i \in 1..Len(old) /\ new[i] = old[i]) \/ new[i].shell.params = a
  BY DEF AsksFor
<1>2. \A i \in 1..Len(old) : MayHave(u, old[i].shell.params)
  BY DEF RequestsAreCalled
<1>3. \A b : MayHave(u, b) => MayHaveNext(u, b)
  BY DEF CallsStay, MayHave, MayHaveNext
<1>4. \A b : ContentOf(b) # t
  BY Identifiers DEF ContentOf, SwitchLog, LOGTYPE, USER_ALL, SWITCH_ALL
<1> HIDE DEF t
<1>5. HoldsRightly(u)
  <2>1. \A b : ContentOf(b) \in DOMAIN logPacket'[u] => ContentOf(b) \in DOMAIN logPacket[u]
    BY <1>4 DEF AsksFor, t
  <2> QED BY <2>1 DEF HoldsRightly, OnlySubscribersHold, CallsStay
<1>6. ASSUME NEW i \in 1..Len(new) PROVE MayHaveNext(u, new[i].shell.params)
  <2> HIDE DEF old, new
  <2>1. CASE i \in 1..Len(old) /\ new[i] = old[i]
    <3> DEFINE b == old[i].shell.params
    <3>1. MayHave(u, b)
      BY <1>2, <2>1
    <3>2. new[i].shell.params = b
      BY <2>1
    <3> HIDE DEF b
    <3>3. MayHaveNext(u, b)
      BY <1>3, <3>1
    <3> QED BY <3>2, <3>3
  <2>2. CASE new[i].shell.params = a
    BY <2>2
  <2> QED BY <1>1, <1>6, <2>1, <2>2
<1> QED
  BY <1>5, <1>6 DEF AsksRightly, new, t

LEMMA UserStepAsks ==
    ASSUME IInv, ServingInv, [Next]_vars, NEW u \in Users
    PROVE  AsksRightly(u) /\ HoldsRightly(u)
<1>1. /\ TypeInv /\ agenda.gossip = 0 /\ PacketsAreCalled
      /\ RequestsAreCalled /\ OnlySubscribersHold
  BY DEF IInv, ServingInv
<1>2. CallsStay
  BY <1>1, CallsAreKept
<1>3. /\ agenda.subscribe \in SUBSET Subscriptions /\ agenda.unsubscribe \in SUBSET Cancellations
      /\ agenda \in Agendas
  BY <1>1 DEF TypeInv, Agendas
<1>4. ASSUME NEW a, AsksFor(u, logPacket'[u], a), MayHaveNext(u, a)
      PROVE  AsksRightly(u) /\ HoldsRightly(u)
  BY <1>1, <1>2, <1>4, AskingServes
<1>5. CASE logPacket'[u] = logPacket[u]
  <2>1. AsksFor(u, logPacket'[u], u)
    BY <1>5 DEF AsksFor
  <2> QED BY <1>4, <2>1 DEF MayHaveNext
<1>6. CASE StartUsers(u)
  BY <1>4, <1>6, StartUsersAsks DEF MayHaveNext
<1>7. DOMAIN logPacket = Nodes /\ u \in Nodes
  BY <1>1, Identifiers DEF TypeInv, ListsOK
<1>8. ASSUME NEW a \in Users, CallSubscribe(u, a) PROVE AsksRightly(u) /\ HoldsRightly(u)
  <2> DEFINE log == appendLogShell(logPacket[u][SwitchLog(u)], ContentShell("getContentFrom", a, 0))
             list == logPacket'[u]
  <2>1. /\ u \in Users \cap started
        /\ \/ logPacket' = logPacket
           \/ logPacket' = [logPacket EXCEPT ![u][SwitchLog(u)] = log]
        /\ <<u, a>> \in agenda.subscribe
        /\ agenda' = [agenda EXCEPT !.subscribe = @ \ {<<u, a>>}]
    BY <1>8 DEF CallSubscribe, Subscribe, Running, Telling
  <2>2. \/ list = logPacket[u]
        \/ list = [logPacket[u] EXCEPT ![SwitchLog(u)] = log]
    BY <1>7, <2>1
  <2>3. MayHaveNext(u, a)
    <3>1. agenda'.subscribe = agenda.subscribe \ {<<u, a>>}
      BY <1>3, <2>1 DEF Agendas
    <3> QED BY <1>3, <2>1, <3>1 DEF MayHaveNext
  <2> HIDE DEF list
  <2>4. "getContentFrom" \in Requests
    BY DEF Requests
  <2>5. AsksFor(u, list, a)
    BY <2>1, <2>2, <2>4, CallsAsk
  <2> QED BY <1>4, <2>3, <2>5 DEF list
<1>9. ASSUME NEW a \in Users, CallUnsubscribe(u, a) PROVE AsksRightly(u) /\ HoldsRightly(u)
  <2> DEFINE log == appendLogShell(logPacket[u][SwitchLog(u)],
                                   ContentShell("removeUserFromInl", a, 0))
             told == IF neighbourMap[u] = << >> THEN logPacket[u]
                     ELSE [logPacket[u] EXCEPT ![SwitchLog(u)] = log]
  <2>1. /\ u \in Users \cap started
        /\ logPacket' = [logPacket EXCEPT ![u] = Without(told, ContentOf(a))]
        /\ <<u, a>> \in agenda.unsubscribe \ agenda.subscribe
        /\ agenda' = [agenda EXCEPT !.unsubscribe = @ \ {<<u, a>>}]
    BY <1>9 DEF CallUnsubscribe, Unsubscribe, Running, ContentOf
  <2>2. logPacket'[u] = Without(told, ContentOf(a))
    BY <1>7, <2>1
  <2>3. MayHaveNext(u, a)
    <3>1. agenda'.subscribe = agenda.subscribe
      BY <1>3, <2>1 DEF Agendas
    <3> QED BY <1>3, <2>1, <3>1, CallsAreOfUsers DEF MayHaveNext
  <2>4. "removeUserFromInl" \in Requests
    BY DEF Requests
  <2>5. \/ told = logPacket[u]
        \/ told = [logPacket[u] EXCEPT ![SwitchLog(u)] = log]
    OBVIOUS
  <2> HIDE DEF told
  <2>6. AsksFor(u, Without(told, ContentOf(a)), a)
    BY <2>1, <2>4, <2>5, CallsAsk
  <2> QED BY <1>4, <2>2, <2>3, <2>6
<1>10. ASSUME NEW d, UpdateContent(u, d) PROVE AsksRightly(u) /\ HoldsRightly(u)
  <2> DEFINE p == Arrived(u, d)
             t == SwitchLog(u)
             list == concatenateEntry(logPacket[u], p.type, p.shell)
  <2>1. /\ Receiving(u, d) /\ IsForeign(u, d)
        /\ logPacket' = [logPacket EXCEPT ![u] = list]
    BY <1>10 DEF UpdateContent
  <2>2. /\ LogIntegrity /\ ContentsInv /\ Arriving(u, d) /\ p \in Packets /\ p.shell \in Entries
    BY <2>1, UserReadingParts
  <2>3. /\ p.type[2] \in Users \cup {USER_ALL} /\ p.shell.authorId # u
    BY <2>1 DEF IsForeign
  <2>4. p.type \in LogTypes
    BY <1>1, <2>2, <2>3, HandledTypes DEF ForUser
  <2>5. p.type # t /\ p.type # GossipAnswerType
    BY <2>3, Identifiers, <2>4, AnswersHaveNoLog
    DEF SwitchLog, LOGTYPE, USER_ALL, SWITCH_ALL
  <2>6. IsLogList(logPacket[u])
    BY <1>1, <1>7, ListType
  <2>7. logPacket'[u] = list
    BY <1>7, <2>1
  <2> HIDE DEF p
  <2>8. /\ DOMAIN list = DOMAIN logPacket[u] \cup {p.type}
        /\ \A x \in DOMAIN logPacket[u] \ {p.type} : list[x] = logPacket[u][x]
    <3> DEFINE held == logPacket[u]
               type == p.type
               e == p.shell
    <3>1. IsLogList(held) /\ type \in LogTypes /\ e \in Entries
      BY <2>2, <2>4, <2>6
    <3> HIDE DEF held, type, e
    <3>2. /\ DOMAIN concatenateEntry(held, type, e) = DOMAIN held \cup {type}
          /\ \A x \in DOMAIN held \ {type} : concatenateEntry(held, type, e)[x] = held[x]
      BY <3>1, concatenateEntryType
    <3> QED BY <3>2 DEF held, type, e
  <2> HIDE DEF list
  <2>9. CopyIn(list, t) = CopyIn(logPacket[u], t)
    BY <2>5, <2>8 DEF CopyIn
  <2>10. AsksRightly(u)
    <3>1. \A i \in 1..Len(CopyIn(logPacket[u], t)) :
              MayHave(u, CopyIn(logPacket[u], t)[i].shell.params)
      BY <1>1 DEF RequestsAreCalled
    <3>2. \A b : MayHave(u, b) => MayHaveNext(u, b)
      BY <1>2 DEF CallsStay, MayHave, MayHaveNext
    <3> QED BY <2>7, <2>9, <3>1, <3>2 DEF AsksRightly
  <2>11. ASSUME NEW a \in Users, ContentOf(a) = p.type
         PROVE  <<u, a>> \in Subscriptions \ agenda.subscribe
    <3>1. p.type[1] = a /\ p.type[2] = USER_ALL
      BY <2>11 DEF ContentOf, LOGTYPE
    <3>2. p \in Servable(u)
      BY <1>1, <2>2, TakenServes DEF p
    <3>3. p.flag = 0 /\ MayHave(u, a)
      BY <3>1, <3>2 DEF Servable
    <3>4. IsFittingPacket(p)
      BY <1>1, <2>2, <2>5, ArrivedFits DEF p
    <3>5. p.shell.authorId = a
      BY <3>1, <3>3, <3>4 DEF IsFittingPacket
    <3> QED BY <2>3, <3>3, <3>5 DEF MayHave
  <2>12. HoldsRightly(u)
    BY <1>1, <1>2, <2>7, <2>8, <2>11 DEF HoldsRightly, OnlySubscribersHold, CallsStay
  <2> QED BY <2>10, <2>12
<1> QED
  BY <1>5, <1>6, <1>8, <1>9, <1>10, UserLists

LEMMA NextAsks ==
    ASSUME IInv, ServingInv, [Next]_vars
    PROVE  RequestsAreCalled' /\ OnlySubscribersHold'
<1>1. \A u \in Users : AsksRightly(u) /\ HoldsRightly(u)
  BY UserStepAsks
<1>2. RequestsAreCalled'
  BY <1>1 DEF AsksRightly, MayHaveNext, RequestsAreCalled, MayHave
<1>3. OnlySubscribersHold'
  BY <1>1 DEF HoldsRightly, OnlySubscribersHold
<1> QED
  BY <1>2, <1>3

\* A user becomes interested in what it asks for, or, sending its own content,
\* in itself.
LEMMA NextInterested ==
    ASSUME IInv, ServingInv, [Next]_vars
    PROVE  InterestsAreCalled'
<1>1. /\ TypeInv /\ agenda.gossip = 0 /\ PacketsAreCalled
      /\ RequestsAreCalled /\ InterestsAreCalled
  BY DEF IInv, ServingInv
<1>2. CallsStay /\ \A s \in Switches : ~GossipRound(s)
  BY <1>1, CallsAreKept
<1>3. \A k, a : MayHave(k, a) => MayHaveNext(k, a)
  BY <1>2 DEF CallsStay, MayHave, MayHaveNext
<1> SUFFICES ASSUME NEW r \in Switches, NEW x \in DOMAIN interestedNeighbours'[r], x[2] \in Users
             PROVE  MayHaveNext(x[2], x[1])
  BY DEF InterestsAreCalled, MayHave, MayHaveNext
<1>4. ASSUME x \in DOMAIN interestedNeighbours[r] PROVE MayHaveNext(x[2], x[1])
  BY <1>1, <1>3, <1>4 DEF InterestsAreCalled
<1>5. ASSUME NEW s \in Switches, NEW d, ReceiveSwitch(s, d)
      PROVE  MayHaveNext(x[2], x[1])
  <2> DEFINE p == Arrived(s, d)
  <2>1. x \in DOMAIN interestedNeighbours[r] \/ (r = s /\ x = <<Wanted(s, d), d>>)
    BY <1>5, InterestsStep
  <2>2. ASSUME x = <<Wanted(s, d), d>>
        PROVE  MayHaveNext(x[2], x[1])
    <3>1. d \in Users /\ x[1] = Wanted(s, d) /\ x[2] = d
      BY <2>2
    <3>2. Receiving(s, d)
      BY <1>5 DEF ReceiveSwitch, DropPacket, ServeRequest, AnswerSwitchGossip, RejectEntry,
         AcceptMember, AcceptPlugAndPlay, AcceptRequest, AcceptUnsubscribe, AcceptOther,
         ReceiveContent, ReceiveUserGossip, Accepts, IsAccepting, IsConcatenating
    <3>3. /\ LogIntegrity /\ ContentsInv /\ Arriving(s, d) /\ IsRouted(<<d, s>>, p)
          /\ d # ManagerId
      BY <3>1, <3>2, ReadingParts, Identifiers
    <3>4. p.shell.authorId = d
      BY <3>1, <3>3 DEF IsRouted
    <3>5. CASE ForSwitch(p.type)
      <4>1. p.flag = 0
        BY <1>1, <3>3, TakenServes DEF Servable
      <4>2. p.type # MyType
        <5>1. ASSUME p.type = MyType PROVE FALSE
          <6>1. p.type # GossipAnswerType
            BY <5>1, Identifiers DEF MyType, GossipAnswerType, LOGTYPE, SWITCH_ALL
          <6>2. IsFittingPacket(p)
            BY <1>1, <3>3, <6>1, ArrivedFits
          <6>3. p.shell.authorId = MyType[1]
            BY <4>1, <5>1, <6>2 DEF IsFittingPacket
          <6> QED BY <3>3, <3>4, <6>3 DEF MyType, LOGTYPE
        <5> QED BY <5>1
      <4>3. MayHave(d, p.shell.shell.params)
        BY <1>1, <3>1, <3>2, <3>5, <4>2, UserRequest
      <4> QED BY <1>3, <3>1, <3>5, <4>3 DEF Wanted
    <3>6. CASE ~ForSwitch(p.type)
      BY <3>1, <3>4, <3>6 DEF Wanted, MayHaveNext
    <3> QED BY <3>5, <3>6
  <2> QED BY <1>4, <2>1, <2>2
<1>6. ASSUME UNCHANGED interestedNeighbours PROVE MayHaveNext(x[2], x[1])
  BY <1>4, <1>6
<1>7. ASSUME NEW s \in Switches, SwitchStep(s) PROVE MayHaveNext(x[2], x[1])
  BY <1>2, <1>5, <1>6, <1>7 DEF SwitchStep, StartSwitch, switchVars
<1>8. ASSUME NEW u \in Users, UserStep(u)
      PROVE  UNCHANGED interestedNeighbours
  BY <1>8 DEF UserStep, StartUsers, CallSubscribe, CallUnsubscribe, CallPush, switchVars
<1>9. ASSUME ManagerStep
      PROVE  UNCHANGED interestedNeighbours
  BY <1>9 DEF ManagerStep, switchVars
<1>10. ASSUME NEW l \in LossyLinks, LosePacket(l)
       PROVE  UNCHANGED interestedNeighbours
  BY <1>10 DEF LosePacket, switchVars
<1>11. ASSUME UNCHANGED vars PROVE UNCHANGED interestedNeighbours
  BY <1>11 DEF vars, switchVars
<1> QED
  BY <1>6, <1>7, <1>8, <1>9, <1>10, <1>11 DEF Next

LEMMA InitServes ==
    ASSUME Init, MaxGossips = 0
    PROVE  ServingInv
<1>1. DOMAIN EmptyBag = {}
  BY DEF EmptyBag, SetToBag
<1> HIDE DEF EmptyBag
<1>2. /\ \A s \in Switches : interestedNeighbours[s] = EmptyBag
      /\ \A n \in Nodes : logPacket[n] = << >>
      /\ \A l \in Links : channel[l] = << >>
      /\ agenda.gossip = 0
  BY DEF Init, SwitchInit, DeviceInit
<1>3. \A n \in Nodes : DOMAIN logPacket[n] = {}
  BY <1>2
<1>4. Len(<< >>) = 0 /\ 1..0 = {}
  OBVIOUS
<1>5. RequestsAreCalled
  <2>1. \A u \in Users : CopyIn(logPacket[u], SwitchLog(u)) = << >>
    BY <1>3, Identifiers DEF CopyIn
  <2> QED BY <1>4, <2>1 DEF RequestsAreCalled
<1>6. InterestsAreCalled
  BY <1>1, <1>2 DEF InterestsAreCalled
<1>7. PacketsAreCalled
  <2>1. \A S : << >> \in Seq(S)
    OBVIOUS
  <2> QED BY <1>2, <2>1 DEF PacketsAreCalled
<1>8. OnlySubscribersHold
  BY <1>3, Identifiers DEF OnlySubscribersHold
<1> QED
  BY <1>2, <1>5, <1>6, <1>7, <1>8 DEF ServingInv

\* Content reaches subscribers only, for networks of any size and shape and all
\* interleavings, losses and full queues, as long as nobody gossips: a user's
\* requests name what it was made to subscribe to, a switch notes what they name,
\* and sends and forwards to whom it has noted (ServeRequest, forward). Gossip
\* would hand a user what it did not ask for.
THEOREM OnlySubscribersAreServed ==
    ASSUME MaxGossips = 0
    PROVE  Spec => []OnlySubscribersHold
<1>1. Init => ServingInv
  BY InitServes
<1>2. IInv /\ ServingInv /\ [Next]_vars => ServingInv'
  <2> SUFFICES ASSUME IInv, ServingInv, [Next]_vars PROVE ServingInv'
    OBVIOUS
  <2>1. TypeInv /\ agenda.gossip = 0
    BY DEF IInv, ServingInv
  <2>2. agenda'.gossip = 0
    BY <2>1, CallsAreKept
  <2> QED BY <2>2, NextServes, NextAsks, NextInterested DEF ServingInv
<1>3. ServingInv => OnlySubscribersHold
  BY DEF ServingInv
<1> QED
  BY <1>1, <1>2, <1>3, SpecNames, PTL DEF Spec

=============================================================================
