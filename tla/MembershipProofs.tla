--------------------------- MODULE MembershipProofs ---------------------------
(***************************************************************************)
(* What is written where: each kind of log has one kind of writer and one  *)
(* kind of content at each place, so that what a handler acts on was meant *)
(* for it. From this: members are executed once each and in order, and a   *)
(* switch that has a manager has a log to gossip about.                    *)
(***************************************************************************)
EXTENDS NetworkLogProofs

Requests == {"getContentFrom", "removeUserFromInl"}

\* The types of the logs that are written.
Writable(t) ==
    \/ t = MyType
    \/ t[1] \in Users /\ t[2] \in {USER_ALL, SWITCH_ALL}
    \/ t[1] \in Switches /\ t[2] \in Nodes \cup {MANAGER_ALL}

\* The contents entry i of a log of type t may have.
Fits(t, i, content) ==
    LET f == content.function
        a == content.params
    IN  /\ t = MyType =>
              IF i = 1 THEN f = "" /\ a = None ELSE f = "addMemberToNetwork" /\ a \in Switches
        /\ t[2] = USER_ALL => f = "pushContent"
        /\ t[2] = MANAGER_ALL => f = "addToNetwork"
        /\ t[1] \in Users /\ t[2] = SWITCH_ALL =>
              IF i = 1 THEN f = "plugAndPlay" /\ a = t[1] ELSE f \in Requests /\ a \in Users
        /\ t[1] \in Switches /\ t[2] \in Nodes =>
              IF i = 1 THEN f \in {"", "addSwitch"} /\ a \notin Users
              ELSE f \in Requests /\ a \in Users

\* A log of type t as its writer writes it.
IsFitting(t, log) ==
    \A i \in 1..Len(log) : log[i].authorId = t[1] /\ Fits(t, i, log[i].shell)

OwnLogsFit(n, list) ==
    \A t \in DOMAIN list :
        IsOwn(n, t) => /\ Writable(t)
                       /\ list[t].owner = n /\ list[t].log # << >>
                       /\ IsFitting(t, list[t].log)

PublishedType(w) == IF w = ManagerId THEN MyType ELSE OwnLog(w)

PersonalFits(w, l) ==
    /\ l.owner = w
    /\ w = ManagerId => l.log # << >>
    /\ IsFitting(PublishedType(w), l.log)

ContentsInv ==
    /\ \A n \in Nodes : OwnLogsFit(n, logPacket[n])
    /\ \A w \in Users \cup {ManagerId} : PersonalFits(w, myPersonalLog[w])

\* What is known of the packet at the head of a link.
IsFittingPacket(p) ==
    /\ Writable(p.type)
    /\ \/ IsSubscription(p.type) /\ p.flag = 1 /\ p.shell = ShownOfEmptyLog
       \/ /\ p.shell.sequenceNum \in Nat
          /\ p.shell.authorId = p.type[1]
          /\ Fits(p.type, p.shell.sequenceNum + 1, p.shell.shell)

\* A switch that has a manager holds a copy of the manager's log.
ManagerIsFollowed ==
    \A s \in Switches : manager[s] # None => MyType \in DOMAIN logPacket[s]

-----------------------------------------------------------------------------
(* Types of logs *)

\* What is published: the manager's membership and the users' own logs.
LEMMA PublishedTypes ==
    ASSUME NEW w \in Users \cup {ManagerId}
    PROVE  /\ PublishedType(w) \in LogTypes /\ PublishedType(w)[1] = w
           /\ IsPublished(PublishedType(w)) /\ IsWritten(PublishedType(w))
           /\ Writable(PublishedType(w)) /\ WrittenLog(PublishedType(w)) = myPersonalLog[w].log
           /\ \A t \in LogTypes :
                  t[1] = w /\ IsPublished(t) /\ IsWritten(t) => t = PublishedType(w)
<1> DEFINE t == PublishedType(w)
<1>1. t \in LogTypes /\ t[1] = w /\ IsPublished(t) /\ (t = MyType \/ w \in Users)
  BY Identifiers, LogTypesAre DEF PublishedType, MyType, OwnLog, LOGTYPE, IsPublished
<1>2. Writable(t)
  BY Identifiers DEF PublishedType, MyType, OwnLog, LOGTYPE, Writable
<1>3. ASSUME NEW v \in LogTypes, v[1] = w, IsPublished(v), IsWritten(v)
      PROVE  v = t
  <2>1. v = <<v[1], v[2]>>
    BY DEF LogTypes
  <2> QED
    BY <1>3, <2>1, Identifiers DEF PublishedType, MyType, OwnLog, LOGTYPE, IsPublished, IsWritten
<1> HIDE DEF t
<1> QED
  BY <1>1, <1>2, <1>3 DEF IsWritten, WrittenLog, t

\* The readers that are not nodes are told apart from nodes, and by handlers.
LEMMA ReadersDiffer ==
    ASSUME NEW t \in LogTypes
    PROVE  /\ t[2] = USER_ALL => t[2] \notin {SWITCH_ALL, MANAGER_ALL} \cup Nodes
           /\ t[2] = SWITCH_ALL => t[2] \notin {USER_ALL, MANAGER_ALL} \cup Nodes
           /\ t[2] = MANAGER_ALL => t[2] \notin {SWITCH_ALL, USER_ALL} \cup Nodes
           /\ MyType[1] = ManagerId /\ MyType[2] = SWITCH_ALL
           /\ t[1] = ManagerId /\ t[2] = SWITCH_ALL => t = MyType
  BY Identifiers DEF LogTypes, MyType, LOGTYPE, USER_ALL, SWITCH_ALL, MANAGER_ALL

-----------------------------------------------------------------------------
(* Fitting logs *)

\* What an owner appends to a fitting log fits if each content fits its place.
LEMMA AppendingFits ==
    ASSUME NEW t, NEW l \in Logs, l.owner = t[1], IsFitting(t, l.log),
           NEW contents \in Seq(Contents),
           \A i \in 1..Len(contents) : Fits(t, Len(l.log) + i, contents[i])
    PROVE  LET new == AppendLogShells(l, contents)
           IN  new.owner = l.owner /\ IsFitting(t, new.log)
<1> DEFINE new == AppendLogShells(l, contents)
<1> HIDE DEF new
<1>1. /\ new.owner = l.owner
      /\ Len(new.log) = Len(l.log) + Len(contents)
      /\ \A i \in 1..Len(l.log) : new.log[i] = l.log[i]
      /\ \A i \in 1..Len(contents) :
             LET e == new.log[Len(l.log) + i]
             IN  e.authorId = l.owner /\ e.shell = contents[i]
  BY AppendLogShellsType DEF new
<1>2. Len(l.log) \in Nat /\ Len(contents) \in Nat
  BY LogType, LenProperties
<1>3. ASSUME NEW i \in 1..Len(new.log)
      PROVE  new.log[i].authorId = t[1] /\ Fits(t, i, new.log[i].shell)
  <2>1. CASE i <= Len(l.log)
    <3>1. i \in 1..Len(l.log)
      BY <1>1, <1>2, <2>1
    <3> QED BY <1>1, <3>1 DEF IsFitting
  <2>2. CASE i > Len(l.log)
    <3>1. i - Len(l.log) \in 1..Len(contents) /\ i = Len(l.log) + (i - Len(l.log))
      BY <1>1, <1>2, <2>2
    <3> QED BY <1>1, <3>1
  <2> QED BY <1>2, <2>1, <2>2
<1> QED
  BY <1>1, <1>3 DEF IsFitting, new

LEMMA AppendingOneFits ==
    ASSUME NEW t, NEW l \in Logs, l.owner = t[1], IsFitting(t, l.log),
           NEW content \in Contents, Fits(t, Len(l.log) + 1, content)
    PROVE  LET new == appendLogShell(l, content)
           IN  /\ new \in Logs /\ new.owner = l.owner /\ new.log # << >>
               /\ IsFitting(t, new.log)
<1> DEFINE cs == <<content>>
           new == appendLogShell(l, content)
<1>1. /\ cs \in Seq(Contents) /\ Len(cs) = 1
      /\ \A i \in 1..Len(cs) : i = 1 /\ cs[i] = content
  OBVIOUS
<1>2. new = AppendLogShells(l, cs)
  BY DEF appendLogShell
<1>3. new \in Logs /\ new.log # << >>
  BY appendLogShellType DEF empty
<1> HIDE DEF cs, new
<1>4. \A i \in 1..Len(cs) : Fits(t, Len(l.log) + i, cs[i])
  BY <1>1
<1>5. new.owner = l.owner /\ IsFitting(t, new.log)
  BY <1>1, <1>2, <1>4, AppendingFits
<1> QED
  BY <1>3, <1>5 DEF new

LEMMA NewLogFits ==
    ASSUME NEW owner \in Nodes, NEW t
    PROVE  /\ NewLog(owner) \in Logs /\ NewLog(owner).owner = owner
           /\ Len(NewLog(owner).log) = 0 /\ IsFitting(t, NewLog(owner).log)
  BY NewLogType DEF NewLog, IsFitting

\* A prefix of a fitting log fits.
LEMMA PrefixFits ==
    ASSUME NEW t, NEW a \in Seq(Entries), NEW b \in Seq(Entries),
           IsPrefix(a, b), IsFitting(t, b)
    PROVE  IsFitting(t, a)
<1>1. Len(a) \in Nat /\ Len(b) \in Nat
  BY LenProperties
<1>2. Len(a) <= Len(b) /\ \A i \in 1..Len(a) : a[i] = b[i]
  BY PrefixIs
<1> QED
  BY <1>1, <1>2 DEF IsFitting

\* All that is written fits.
LEMMA WrittenFits ==
    ASSUME TypeInv, ContentsInv, NEW t \in LogTypes, IsWritten(t)
    PROVE  Writable(t) /\ IsFitting(t, WrittenLog(t))
<1>1. CASE IsPublished(t)
  <2>1. t[1] \in Users \cup {ManagerId}
    BY <1>1 DEF IsWritten, MyType, LOGTYPE
  <2>2. t = PublishedType(t[1])
    BY <1>1, <2>1, PublishedTypes
  <2>3. Writable(t) /\ WrittenLog(t) = myPersonalLog[t[1]].log
    BY <2>1, <2>2, PublishedTypes
  <2> QED BY <2>1, <2>2, <2>3 DEF ContentsInv, PersonalFits
<1>2. CASE ~IsPublished(t)
  <2>1. t[1] \in Nodes /\ IsOwn(t[1], t)
    BY <1>2, LogTypeParts
  <2>2. t \in DOMAIN logPacket[t[1]] /\ WrittenLog(t) = logPacket[t[1]][t].log
    BY <1>2 DEF IsWritten, WrittenLog
  <2> QED BY <2>1, <2>2 DEF ContentsInv, OwnLogsFit
<1> QED
  BY <1>1, <1>2

LEMMA HeldFits ==
    ASSUME TypeInv, LogIntegrity, ContentsInv, NEW n \in Nodes, NEW t \in DOMAIN logPacket[n]
    PROVE  /\ t \in LogTypes /\ IsWritten(t) /\ Writable(t)
           /\ IsFitting(t, logPacket[n][t].log)
<1>1. t \in LogTypes /\ logPacket[n][t].log \in Seq(Entries)
  BY ListType
<1>2. IsWritten(t) /\ IsPrefix(logPacket[n][t].log, WrittenLog(t))
  BY DEF LogIntegrity
<1> QED
  BY <1>1, <1>2, WrittenFits, WrittenLogType, PrefixFits

\* What arrives fits: it was written, or shown of an empty log.
LEMMA ArrivedFits ==
    ASSUME TypeInv, LogIntegrity, ContentsInv, NEW n, NEW d, Arriving(n, d),
           Arrived(n, d).type # GossipAnswerType
    PROVE  /\ Arrived(n, d).type \in LogTypes /\ IsWritten(Arrived(n, d).type)
           /\ IsFittingPacket(Arrived(n, d))
<1> DEFINE p == Arrived(n, d)
           t == p.type
           k == p.shell.sequenceNum + 1
<1>1. LogsOK /\ p \in GenuinePackets
  BY ArrivedIsGenuine
<1> HIDE DEF p
<1>2. /\ t \in LogTypes /\ IsWritten(t)
      /\ \/ IsSubscription(t) /\ p.flag = 1 /\ p.shell = ShownOfEmptyLog
         \/ k \in 1..Len(WrittenLog(t)) /\ p.shell = WrittenLog(t)[k]
  BY <1>1, GenuineParts DEF p
<1>3. Writable(t) /\ IsFitting(t, WrittenLog(t))
  BY <1>2, WrittenFits
<1>4. p.shell.sequenceNum \in Int
  BY <1>1, GenuineParts, PacketType, EntryType
<1>5. k \in 1..Len(WrittenLog(t)) => p.shell.sequenceNum \in Nat
  BY <1>4
<1> QED
  BY <1>2, <1>3, <1>5 DEF IsFittingPacket, IsFitting, p

-----------------------------------------------------------------------------
(* Writing what fits *)

\* Logs a node has left alone still fit.
LEMMA StayingFits ==
    ASSUME TypeInv, ContentsInv, NEW n \in Nodes, NEW list, IsLogList(list), OwnLogsStay(n, list)
    PROVE  OwnLogsFit(n, list)
<1>1. ASSUME NEW t \in DOMAIN list, IsOwn(n, t)
      PROVE  t \in DOMAIN logPacket[n] /\ list[t] = logPacket[n][t]
  BY <1>1, LogOfList DEF OwnLogsStay
<1> QED
  BY <1>1 DEF ContentsInv, OwnLogsFit

\* A node opens a log of its own.
LEMMA OpeningFits ==
    ASSUME NEW n \in Nodes, NEW logs, OwnLogsFit(n, logs), NEW type, type[1] = n, Writable(type),
           NEW content \in Contents, Fits(type, 1, content)
    PROVE  OwnLogsFit(n, Insert(logs, type, appendLogShell(NewLog(n), content)))
<1> DEFINE log == appendLogShell(NewLog(n), content)
           list == Insert(logs, type, log)
<1>1. NewLog(n) \in Logs /\ NewLog(n).owner = n /\ Len(NewLog(n).log) + 1 = 1
      /\ IsFitting(type, NewLog(n).log)
  BY NewLogFits
<1>2. log \in Logs /\ log.owner = n /\ log.log # << >> /\ IsFitting(type, log.log)
  BY <1>1, AppendingOneFits
<1> HIDE DEF log
<1>3. ASSUME NEW t \in DOMAIN list
      PROVE  \/ t \in DOMAIN logs /\ list[t] = logs[t]
             \/ t = type /\ list[t] = log
  <2>1. DOMAIN list = DOMAIN logs \cup {type}
    BY DEF Insert
  <2>2. list[t] = IF t \in DOMAIN logs THEN logs[t] ELSE log
    BY <2>1 DEF Insert
  <2> QED
    BY <2>1, <2>2
<1> HIDE DEF list
<1>4. OwnLogsFit(n, list)
  BY <1>2, <1>3 DEF OwnLogsFit
<1> QED
  BY <1>4 DEF list, log

\* A node replaces its list, or appends to what it publishes.
LEMMA ContentsStep ==
    ASSUME TypeInv, ContentsInv, NEW n \in Nodes, NEW list, OwnLogsFit(n, list),
           logPacket' = [logPacket EXCEPT ![n] = list], UNCHANGED myPersonalLog
    PROVE  ContentsInv'
<1>1. \A m \in Nodes : OwnLogsFit(m, logPacket'[m])
  BY DEF TypeInv, ListsOK, ContentsInv
<1>2. OwnLogsFit(n, list)' = OwnLogsFit(n, list)
  BY DEF OwnLogsFit, IsOwn, IsPublished, Writable, IsFitting, Fits
<1> QED
  BY <1>1 DEF ContentsInv

LEMMA ContentsStay ==
    ASSUME ContentsInv, UNCHANGED <<logPacket, myPersonalLog>>
    PROVE  ContentsInv'
  BY DEF ContentsInv

LEMMA PublishingFits ==
    ASSUME TypeInv, ContentsInv, NEW w \in Users \cup {ManagerId}, NEW content \in Contents,
           Fits(PublishedType(w), Len(myPersonalLog[w].log) + 1, content),
           myPersonalLog' = [myPersonalLog EXCEPT ![w] = appendLogShell(@, content)],
           \A n \in Nodes : OwnLogsFit(n, logPacket'[n])
    PROVE  ContentsInv'
<1> DEFINE log == appendLogShell(myPersonalLog[w], content)
           t == PublishedType(w)
<1>1. /\ myPersonalLog[w] \in Logs /\ myPersonalLog[w].owner = t[1]
      /\ IsFitting(t, myPersonalLog[w].log)
  BY PersonalType, PublishedTypes DEF ContentsInv, PersonalFits
<1>2. log.owner = t[1] /\ log.log # << >> /\ IsFitting(t, log.log)
  <2> HIDE DEF t
  <2> QED BY <1>1, AppendingOneFits DEF t
<1>3. PersonalFits(w, log)
  BY <1>2, PublishedTypes DEF PersonalFits
<1>4. /\ myPersonalLog'[w] = log
      /\ \A v \in (Users \cup {ManagerId}) \ {w} : myPersonalLog'[v] = myPersonalLog[v]
  BY DEF TypeInv, PersonalOK
<1> HIDE DEF log
<1> QED
  BY <1>3, <1>4 DEF ContentsInv

-----------------------------------------------------------------------------
(* What switches accept *)

\* An entry a switch accepts was written, and fits.
LEMMA AcceptedFits ==
    ASSUME TypeInv, LogIntegrity, ContentsInv, NEW s \in Switches, NEW d, IsAccepting(s, d)
    PROVE  LET p == Arrived(s, d)
           IN  /\ p.type \in LogTypes /\ IsWritten(p.type) /\ Writable(p.type)
               /\ ForSwitch(p.type)
               /\ p.shell.sequenceNum \in Nat /\ p.shell.authorId = p.type[1]
               /\ Fits(p.type, p.shell.sequenceNum + 1, p.shell.shell)
               /\ p.shell.shell.function \in Requests => p.shell.shell.params \in Users
<1> DEFINE p == Arrived(s, d)
<1>1. Arriving(s, d) /\ ForSwitch(p.type) /\ p.shell.signature # NoSignature
  BY DEF IsAccepting, IsConcatenating, Receiving, Unparsable
<1>2. p.type # GossipAnswerType
  BY <1>1, HandledTypes, AnswersHaveNoLog
<1>3. p.type \in LogTypes /\ IsWritten(p.type) /\ IsFittingPacket(p)
  BY <1>1, <1>2, ArrivedFits
<1> HIDE DEF p
<1>4. p.shell # ShownOfEmptyLog
  BY <1>1 DEF ShownOfEmptyLog, LogShell
<1>5. /\ Writable(p.type) /\ p.shell.sequenceNum \in Nat /\ p.shell.authorId = p.type[1]
      /\ Fits(p.type, p.shell.sequenceNum + 1, p.shell.shell)
  BY <1>3, <1>4 DEF IsFittingPacket
<1>6. p.shell.shell.function \in Requests => p.shell.shell.params \in Users
  BY <1>1, <1>3, <1>5, ReadersDiffer DEF Writable, Fits, Requests, ForSwitch
<1> QED
  BY <1>1, <1>3, <1>5, <1>6 DEF p

\* The list of a switch that has concatenated what has arrived.
LEMMA ConcatenatedFits ==
    ASSUME TypeInv, LogIntegrity, ContentsInv, NEW s \in Switches, NEW d, Receiving(s, d),
           Arrived(s, d).type \in LogTypes
    PROVE  OwnLogsFit(s, Concatenated(s, d))
  BY SwitchConcatenates, StayingFits

-----------------------------------------------------------------------------
(* Each action writes what fits *)

LEMMA StartSwitchFits ==
    ASSUME TypeInv, ContentsInv, NEW s \in Switches, StartSwitch(s)
    PROVE  ContentsInv'
<1> DEFINE type == LOGTYPE(s, MANAGER_ALL)
           content == ContentShell("addToNetwork", s, 0)
           list == Insert(logPacket[s], type, appendLogShell(NewLog(s), content))
<1>1. logPacket' = [logPacket EXCEPT ![s] = list] /\ UNCHANGED myPersonalLog
  BY DEF StartSwitch
<1>2. s \in Nodes /\ type[1] = s /\ Writable(type) /\ content \in Contents
  BY Identifiers, ContentShellType DEF LOGTYPE, Writable, Functions
<1>3. Fits(type, 1, content)
  BY Identifiers DEF Fits, LOGTYPE, MyType, ContentShell, USER_ALL, SWITCH_ALL, MANAGER_ALL
<1>4. OwnLogsFit(s, logPacket[s])
  BY <1>2 DEF ContentsInv
<1> HIDE DEF type, content
<1>5. OwnLogsFit(s, list)
  BY <1>2, <1>3, <1>4, OpeningFits
<1> HIDE DEF list
<1> QED
  BY <1>1, <1>2, <1>5, ContentsStep

LEMMA StartUserFits ==
    ASSUME TypeInv, ContentsInv, NEW u \in Users, StartUser(u)
    PROVE  ContentsInv'
<1> DEFINE type == SwitchLog(u)
           content == ContentShell("plugAndPlay", u, 0)
           list == Insert(logPacket[u], type, appendLogShell(NewLog(u), content))
<1>1. logPacket' = [logPacket EXCEPT ![u] = list] /\ UNCHANGED myPersonalLog
  BY DEF StartUser
<1>2. u \in Nodes /\ type[1] = u /\ Writable(type) /\ content \in Contents
  BY Identifiers, ContentShellType DEF SwitchLog, LOGTYPE, Writable, Functions
<1>3. Fits(type, 1, content)
  BY Identifiers DEF Fits, SwitchLog, LOGTYPE, MyType, ContentShell, USER_ALL, SWITCH_ALL, MANAGER_ALL
<1>4. OwnLogsFit(u, logPacket[u])
  BY <1>2 DEF ContentsInv
<1> HIDE DEF type, content
<1>5. OwnLogsFit(u, list)
  BY <1>2, <1>3, <1>4, OpeningFits
<1> HIDE DEF list
<1> QED
  BY <1>1, <1>2, <1>5, ContentsStep

\* A user's requests follow the opening entry of its log for the switches.
LEMMA ToldFits ==
    ASSUME TypeInv, ContentsInv, NEW u \in Users \cap started,
           NEW f \in Requests, NEW a \in Users,
           NEW log, log = appendLogShell(logPacket[u][SwitchLog(u)], ContentShell(f, a, 0))
    PROVE  OwnLogsFit(u, [logPacket[u] EXCEPT ![SwitchLog(u)] = log])
<1> DEFINE type == SwitchLog(u)
           old == logPacket[u]
           content == ContentShell(f, a, 0)
           list == [old EXCEPT ![type] = log]
<1>1. u \in Nodes /\ type \in DOMAIN old /\ old[type] \in Logs /\ IsOwn(u, type) /\ type[1] = u
  BY SwitchLogType, OwnTypes DEF SwitchLog, LOGTYPE
<1>2. /\ OwnLogsFit(u, old) /\ Writable(type)
      /\ old[type].owner = u /\ old[type].log # << >> /\ IsFitting(type, old[type].log)
  BY <1>1 DEF ContentsInv, OwnLogsFit
<1>3. content \in Contents
  BY Identifiers, ContentShellType DEF Functions, Requests
<1>4. Len(old[type].log) > 0
  BY <1>1, <1>2, LogType DEF empty
<1>5. Len(old[type].log) \in Nat /\ Len(old[type].log) + 1 # 1
  BY <1>1, <1>4, LogType
<1>6. Fits(type, Len(old[type].log) + 1, content)
  <2> DEFINE k == Len(old[type].log) + 1
  <2>1. k # 1
    BY <1>5
  <2> HIDE DEF k
  <2>2. type = <<u, SWITCH_ALL>> /\ content.function = f /\ content.params = a
    BY DEF SwitchLog, LOGTYPE, ContentShell
  <2>3. Fits(type, k, content)
    <3> HIDE DEF type, content
    <3> QED BY <2>1, <2>2, Identifiers
        DEF Fits, Requests, MyType, LOGTYPE, USER_ALL, SWITCH_ALL, MANAGER_ALL
  <2> QED BY <2>3 DEF k
<1> HIDE DEF type, content, old
<1>7. log.owner = u /\ log.log # << >> /\ IsFitting(type, log.log)
  BY <1>1, <1>2, <1>3, <1>6, AppendingOneFits DEF type, content, old
<1>8. DOMAIN list = DOMAIN old /\ \A t \in DOMAIN list : list[t] = IF t = type THEN log ELSE old[t]
  OBVIOUS
<1> HIDE DEF list
<1>9. OwnLogsFit(u, list)
  BY <1>2, <1>7, <1>8 DEF OwnLogsFit
<1> QED
  BY <1>9 DEF list, type, old

LEMMA SubscribeFits ==
    ASSUME TypeInv, ContentsInv, NEW u \in Users, NEW a \in Users, CallSubscribe(u, a)
    PROVE  ContentsInv'
<1> DEFINE log == appendLogShell(logPacket[u][SwitchLog(u)], ContentShell("getContentFrom", a, 0))
           list == [logPacket[u] EXCEPT ![SwitchLog(u)] = log]
<1>1. /\ u \in Users \cap started /\ UNCHANGED myPersonalLog
      /\ logPacket' = [logPacket EXCEPT ![u] = list]
  BY DEF CallSubscribe, Subscribe, Telling, Running, PlugAndPlayOver
<1>2. OwnLogsFit(u, list)
  BY <1>1, ToldFits DEF Requests
<1> HIDE DEF list
<1> QED
  BY <1>1, <1>2, Identifiers, ContentsStep

LEMMA UnsubscribeFits ==
    ASSUME TypeInv, ContentsInv, NEW u \in Users, NEW a \in Users, CallUnsubscribe(u, a)
    PROVE  ContentsInv'
<1> DEFINE log == appendLogShell(logPacket[u][SwitchLog(u)], ContentShell("removeUserFromInl", a, 0))
           told == [logPacket[u] EXCEPT ![SwitchLog(u)] = log]
           list == Without(told, LOGTYPE(a, USER_ALL))
<1>1. /\ u \in Users \cap started /\ UNCHANGED myPersonalLog
      /\ logPacket' = [logPacket EXCEPT ![u] = list]
  BY DEF CallUnsubscribe, Unsubscribe, Running, PlugAndPlayOver
<1>2. OwnLogsFit(u, told)
  BY <1>1, ToldFits DEF Requests
<1> HIDE DEF told
<1>3. OwnLogsFit(u, list)
  BY <1>2 DEF OwnLogsFit, Without
<1> HIDE DEF list
<1> QED
  BY <1>1, <1>3, Identifiers, ContentsStep

LEMMA PushFits ==
    ASSUME TypeInv, ContentsInv, NEW u \in Users, CallPush(u)
    PROVE  ContentsInv'
<1> DEFINE content == ContentShell("pushContent", None, Len(myPersonalLog[u].log))
<1>1. /\ myPersonalLog' = [myPersonalLog EXCEPT ![u] = appendLogShell(@, content)]
      /\ UNCHANGED logPacket
  BY DEF CallPush, PushLogToSwitch
<1>2. content \in Contents
  <2>1. Len(myPersonalLog[u].log) \in Nat
    BY PersonalType, LogType
  <2> QED BY <2>1, ContentShellType DEF Functions
<1>3. PublishedType(u) = <<u, USER_ALL>>
  BY Identifiers DEF PublishedType, OwnLog, LOGTYPE
<1>4. \A k : Fits(PublishedType(u), k, content)
  BY <1>3, Identifiers DEF Fits, ContentShell, MyType, LOGTYPE, USER_ALL, SWITCH_ALL, MANAGER_ALL
<1>5. \A n \in Nodes : OwnLogsFit(n, logPacket'[n])
  BY <1>1 DEF ContentsInv
<1> HIDE DEF content
<1> QED
  BY <1>1, <1>2, <1>4, <1>5, PublishingFits

LEMMA AcceptPlugAndPlayFits ==
    ASSUME TypeInv, LogIntegrity, ContentsInv, NEW s \in Switches, NEW d, AcceptPlugAndPlay(s, d)
    PROVE  ContentsInv'
<1> DEFINE user == Arrived(s, d).shell.authorId
           type == LOGTYPE(s, user)
           content == ContentShell("addSwitch", s, 0)
           old == Concatenated(s, d)
           list == Insert(old, type, appendLogShell(NewLog(s), content))
<1>1. /\ IsAccepting(s, d) /\ UNCHANGED myPersonalLog
      /\ logPacket' = [logPacket EXCEPT ![s] = list]
  BY DEF AcceptPlugAndPlay, Accepts, Handling
<1>2. /\ Receiving(s, d) /\ s \in Nodes /\ user \in Nodes /\ OwnLogsFit(s, old)
  BY <1>1, AcceptingReads, AcceptedFits, ConcatenatedFits
<1>3. type = <<s, user>> /\ Writable(type) /\ content \in Contents
  BY <1>2, ContentShellType DEF LOGTYPE, Writable, Functions
<1>4. Fits(type, 1, content)
  <2> HIDE DEF user, type
  <2> QED BY <1>2, <1>3, Identifiers
      DEF Fits, LOGTYPE, MyType, ContentShell, USER_ALL, SWITCH_ALL, MANAGER_ALL
<1>5. type[1] = s
  BY <1>3
<1> HIDE DEF user, type, content, old
<1>6. OwnLogsFit(s, list)
  BY <1>2, <1>3, <1>4, <1>5, OpeningFits
<1> HIDE DEF list
<1> QED
  BY <1>1, <1>2, <1>6, ContentsStep

\* What a request may follow in a log that a switch keeps for a node.
LEMMA RequestsFit ==
    ASSUME NEW s \in Switches, NEW k \in Nodes, NEW content, content.function \in Requests,
           content.params \in Users, NEW i \in Nat, i > 1
    PROVE  /\ Writable(LOGTYPE(s, k)) /\ LOGTYPE(s, k)[1] = s
           /\ Fits(LOGTYPE(s, k), i, content)
           /\ Fits(LOGTYPE(s, k), 1, InitialContent(None))
<1>1. LOGTYPE(s, k) = <<s, k>> /\ s \notin Users
  BY Identifiers DEF LOGTYPE
<1>2. /\ USER_ALL \notin Nodes /\ SWITCH_ALL \notin Nodes /\ MANAGER_ALL \notin Nodes
      /\ MyType = <<ManagerId, SWITCH_ALL>>
  <2> USE DEF USER_ALL, SWITCH_ALL, MANAGER_ALL
  <2> QED BY Identifiers DEF MyType, LOGTYPE
<1>3. InitialContent(None).function = "" /\ InitialContent(None).params \notin Users
  BY Identifiers DEF InitialContent, ContentShell
<1>4. Writable(LOGTYPE(s, k))
  BY <1>1 DEF Writable
<1> HIDE DEF Requests
<1> DEFINE t == LOGTYPE(s, k)
<1>5. t[1] = s /\ t[2] = k
  BY <1>1
<1>9. t # MyType
  BY <1>2, <1>5, Identifiers
<1> HIDE DEF t
<1>6. /\ t[2] # USER_ALL /\ t[2] # MANAGER_ALL /\ t[1] \notin Users
  BY <1>1, <1>2, <1>5
<1>10. i # 1
  OBVIOUS
<1>7. Fits(t, i, content)
  BY <1>5, <1>6, <1>9, <1>10, Zenon DEF Fits
<1>8. Fits(t, 1, InitialContent(None))
  BY <1>3, <1>5, <1>6, <1>9 DEF Fits
<1> QED
  BY <1>4, <1>5, <1>7, <1>8 DEF t

\* list lists new[k], which fits, for the logs that s keeps for the nodes k of
\* To, and what logs has for all others.
Replaces(s, logs, To, new, list) ==
    /\ \A k \in To : /\ new[k].owner = s /\ new[k].log # << >>
                    /\ Writable(LOGTYPE(s, k)) /\ IsFitting(LOGTYPE(s, k), new[k].log)
    /\ \A t \in DOMAIN list :
           /\ t[1] = s /\ t[2] \in To => list[t] = new[t[2]]
           /\ ~(t[1] = s /\ t[2] \in To) => list[t] = logs[t]
           /\ t \in DOMAIN logs \/ \E k \in To : t = LOGTYPE(s, k)

\* A switch lists new versions of logs it keeps for nodes.
LEMMA ReplacingFits ==
    ASSUME NEW s \in Switches, NEW logs, IsLogList(logs), OwnLogsFit(s, logs),
           NEW To, NEW new, NEW list, Replaces(s, logs, To, new, list)
    PROVE  OwnLogsFit(s, list)
<1> USE DEF Replaces
<1> SUFFICES ASSUME NEW t \in DOMAIN list, IsOwn(s, t)
             PROVE  /\ Writable(t) /\ list[t].owner = s /\ list[t].log # << >>
                    /\ IsFitting(t, list[t].log)
  BY DEF OwnLogsFit
<1>1. t = <<t[1], t[2]>>
  <2>1. CASE t \in DOMAIN logs
    BY <2>1, LogOfList DEF LogTypes
  <2>2. CASE t \notin DOMAIN logs
    BY <2>2 DEF LOGTYPE
  <2> QED BY <2>1, <2>2
<1>2. CASE t[1] = s /\ t[2] \in To
  <2>1. t = LOGTYPE(s, t[2]) /\ list[t] = new[t[2]]
    BY <1>1, <1>2 DEF LOGTYPE
  <2> QED BY <1>2, <2>1
<1>3. CASE ~(t[1] = s /\ t[2] \in To)
  <2>1. t \in DOMAIN logs /\ list[t] = logs[t]
    BY <1>3 DEF LOGTYPE
  <2> QED BY <2>1 DEF OwnLogsFit
<1> QED
  BY <1>2, <1>3

LEMMA AcceptRequestFits ==
    ASSUME TypeInv, LogIntegrity, ContentsInv, NEW s \in Switches, NEW d, AcceptRequest(s, d)
    PROVE  ContentsInv'
<1> DEFINE content == Arrived(s, d).shell.shell
           logs == Concatenated(s, d)
           To == BroadcastTo(s, d)
           Type(k) == LOGTYPE(s, k)
           Log(k) == IF exists(logs, Type(k))
                     THEN appendLogShell(logs[Type(k)], content)
                     ELSE AppendLogShells(NewLog(s), <<InitialContent(None), content>>)
           list == [t \in DOMAIN logs \cup {Type(k) : k \in To} |->
                       IF t[1] = s /\ t[2] \in To THEN Log(t[2]) ELSE logs[t]]
<1>1. /\ IsAccepting(s, d) /\ UNCHANGED myPersonalLog
      /\ content.function = "getContentFrom"
      /\ logPacket' = [logPacket EXCEPT ![s] = list]
  BY DEF AcceptRequest, Accepts, Handling
<1>2. /\ Receiving(s, d) /\ s \in Nodes /\ content \in Contents
      /\ IsLogList(logs) /\ OwnLogsFit(s, logs)
      /\ content.function \in Requests /\ content.params \in Users
  BY <1>1, AcceptingReads, AcceptedFits, ConcatenatedFits DEF Requests
<1>3. To \subseteq Nodes
  BY <1>2, SwitchReads DEF BroadcastTo, IsNeighbourMap
<1> HIDE DEF content, logs, To
<1>4. ASSUME NEW k \in To
      PROVE  /\ Log(k).owner = s /\ Log(k).log # << >>
             /\ Writable(LOGTYPE(s, k)) /\ IsFitting(LOGTYPE(s, k), Log(k).log)
  <2> DEFINE t == LOGTYPE(s, k)
  <2>1. /\ Writable(t) /\ t[1] = s /\ Fits(t, 1, InitialContent(None))
        /\ \A i \in Nat : i > 1 => Fits(t, i, content)
    <3>1. k \in Nodes
      BY <1>3
    <3>2. \A i \in Nat : i > 1 => /\ Writable(t) /\ t[1] = s /\ Fits(t, 1, InitialContent(None))
                                  /\ Fits(t, i, content)
      BY <1>2, <3>1, RequestsFit
    <3> HIDE DEF t
    <3>3. 2 \in Nat /\ 2 > 1
      OBVIOUS
    <3> QED BY <3>2, <3>3
  <2> HIDE DEF t
  <2>2. CASE t \in DOMAIN logs
    <3> DEFINE old == logs[t]
               new == appendLogShell(old, content)
    <3>1. Log(k) = new
      BY <2>2 DEF exists, t
    <3>2. old \in Logs /\ old.owner = s /\ old.log # << >> /\ IsFitting(t, old.log)
      <4>1. IsOwn(s, t)
        BY <1>2, <1>3, OwnTypes DEF t
      <4> QED BY <1>2, <2>2, <4>1, LogOfList DEF OwnLogsFit
    <3> HIDE DEF old
    <3>3. Len(old.log) + 1 \in Nat /\ Len(old.log) + 1 > 1
      BY <3>2, LogType DEF empty
    <3>4. new.owner = s /\ new.log # << >> /\ IsFitting(t, new.log)
      BY <1>2, <2>1, <3>2, <3>3, AppendingOneFits
    <3> HIDE DEF new, Log
    <3> QED BY <2>1, <3>1, <3>4 DEF t
  <2>3. CASE t \notin DOMAIN logs
    <3> DEFINE cs == <<InitialContent(None), content>>
               new == AppendLogShells(NewLog(s), cs)
    <3>1. Log(k) = new
      BY <2>3 DEF exists, t
    <3>2. InitialContent(None) \in Contents
      BY ContentShellType DEF InitialContent, Functions
    <3>3. /\ cs \in Seq(Contents) /\ Len(cs) = 2
          /\ cs[1] = InitialContent(None) /\ cs[2] = content
      BY <1>2, <3>2
    <3> HIDE DEF cs
    <3>4. /\ NewLog(s) \in Logs /\ NewLog(s).owner = s /\ Len(NewLog(s).log) = 0
          /\ IsFitting(t, NewLog(s).log)
      BY <1>2, NewLogFits
    <3>5. \A i \in 1..Len(cs) : Fits(t, Len(NewLog(s).log) + i, cs[i])
      BY <2>1, <3>3, <3>4
    <3>6. new.owner = s /\ IsFitting(t, new.log)
      BY <2>1, <3>3, <3>4, <3>5, AppendingFits
    <3>7. new \in Logs /\ Len(new.log) = 2
      BY <3>3, <3>4, AppendLogShellsType
    <3>8. new.log # << >>
      BY <3>7, LogType DEF empty
    <3> HIDE DEF new, Log
    <3> QED BY <2>1, <3>1, <3>6, <3>8 DEF t
  <2> QED BY <2>2, <2>3
<1> HIDE DEF Log
<1> DEFINE new == [k \in To |-> Log(k)]
<1>5. /\ DOMAIN list = DOMAIN logs \cup {LOGTYPE(s, k) : k \in To}
      /\ \A t \in DOMAIN list :
             list[t] = IF t[1] = s /\ t[2] \in To THEN new[t[2]] ELSE logs[t]
      /\ \A k \in To : new[k] = Log(k)
  OBVIOUS
<1> HIDE DEF list, new
<1>6. OwnLogsFit(s, list)
  <2>1. \A k \in To : /\ new[k].owner = s /\ new[k].log # << >>
                      /\ Writable(LOGTYPE(s, k)) /\ IsFitting(LOGTYPE(s, k), new[k].log)
    BY <1>4, <1>5
  <2>2. \A t \in DOMAIN list :
            /\ t[1] = s /\ t[2] \in To => list[t] = new[t[2]]
            /\ ~(t[1] = s /\ t[2] \in To) => list[t] = logs[t]
            /\ t \in DOMAIN logs \/ \E k \in To : t = LOGTYPE(s, k)
    BY <1>5
  <2>3. Replaces(s, logs, To, new, list)
    BY <2>1, <2>2 DEF Replaces
  <2> QED BY <1>2, <2>3, ReplacingFits
<1> QED
  BY <1>1, <1>2, <1>6, ContentsStep

LEMMA AcceptUnsubscribeFits ==
    ASSUME TypeInv, LogIntegrity, ContentsInv, NEW s \in Switches, NEW d, AcceptUnsubscribe(s, d)
    PROVE  ContentsInv'
<1> DEFINE content == Arrived(s, d).shell.shell
           cancelled == <<content.params, Arrived(s, d).shell.authorId>>
           left == interestedNeighbours[s] (-) SetToBag({cancelled})
           Subscribers == {p[2] : p \in {q \in DOMAIN left : q[1] # q[2]}}
           Forwarding == \E p \in DOMAIN left : p[2] \notin Users
           old == Concatenated(s, d)
           logs == IF Forwarding THEN Without(old, ContentOf(content.params)) ELSE old
           To == IF Forwarding THEN {k \in Subscribers : exists(logs, LOGTYPE(s, k))} ELSE {}
           Log(k) == AppendLogShells(logs[LOGTYPE(s, k)],
                         [i \in 1..InterestsOf(left, k) |-> content])
           list == [t \in DOMAIN logs |->
                       IF t[1] = s /\ t[2] \in To THEN Log(t[2]) ELSE logs[t]]
<1>1. /\ IsAccepting(s, d) /\ UNCHANGED myPersonalLog
      /\ content.function = "removeUserFromInl"
      /\ logPacket' = [logPacket EXCEPT ![s] = list]
  BY DEF AcceptUnsubscribe, Handling
<1>2. /\ Receiving(s, d) /\ s \in Nodes /\ content \in Contents
      /\ IsLogList(old) /\ OwnLogsFit(s, old)
      /\ content.function \in Requests /\ content.params \in Users
  BY <1>1, AcceptingReads, AcceptedFits, ConcatenatedFits DEF Requests
<1>3. IsInterests(left)
  <2> HIDE DEF cancelled
  <2> QED BY CancelledType DEF TypeInv, InterestsOK
<1>4. IsLogList(logs) /\ OwnLogsFit(s, logs)
  <2> DEFINE dropped == ContentOf(content.params)
             new == Without(old, dropped)
  <2> HIDE DEF old, dropped, new
  <2>1. /\ IsLogList(new) /\ DOMAIN new = DOMAIN old \ {dropped}
        /\ \A t \in DOMAIN old \ {dropped} : new[t] = old[t]
    BY <1>2, WithoutType DEF new
  <2>2. OwnLogsFit(s, new)
    BY <1>2, <2>1 DEF OwnLogsFit
  <2> QED BY <1>2, <2>1, <2>2 DEF new, dropped
<1> HIDE DEF content, left, logs, Forwarding
<1>5. ASSUME NEW k \in To
      PROVE  LOGTYPE(s, k) \in DOMAIN logs /\ k \in Nodes
  <2>1. LOGTYPE(s, k) \in DOMAIN logs /\ k \in Subscribers
    BY DEF exists
  <2>2. LOGTYPE(s, k) \in LogTypes
    BY <1>4, <2>1, LogOfList
  <2>3. k \in Nodes \cup {None}
    BY <1>3, <2>1 DEF IsInterests
  <2>4. k \in Nodes
    BY <2>2, <2>3, Identifiers DEF LOGTYPE, LogTypes
  <2> QED BY <2>1, <2>4
<1> HIDE DEF To, Subscribers
<1>6. ASSUME NEW k \in To
      PROVE  /\ Log(k).owner = s /\ Log(k).log # << >>
             /\ Writable(LOGTYPE(s, k)) /\ IsFitting(LOGTYPE(s, k), Log(k).log)
  <2> DEFINE t == LOGTYPE(s, k)
             log == logs[t]
             n == InterestsOf(left, k)
             copies == [i \in 1..n |-> content]
             new == AppendLogShells(log, copies)
  <2>1. Log(k) = new /\ t \in DOMAIN logs /\ IsOwn(s, t)
    BY <1>2, <1>5, OwnTypes
  <2>2. Writable(t) /\ t[1] = s /\ \A i \in Nat : i > 1 => Fits(t, i, content)
    <3>1. k \in Nodes
      BY <1>5
    <3>2. \A i \in Nat : i > 1 => Writable(t) /\ t[1] = s /\ Fits(t, i, content)
      BY <1>2, <3>1, RequestsFit
    <3> HIDE DEF t
    <3>3. 2 \in Nat /\ 2 > 1
      OBVIOUS
    <3> QED BY <3>2, <3>3
  <2> HIDE DEF t
  <2>3. log \in Logs /\ log.owner = s /\ log.log # << >> /\ IsFitting(t, log.log)
    BY <1>4, <2>1, LogOfList DEF OwnLogsFit
  <2> HIDE DEF log
  <2>4. Len(log.log) \in Nat /\ Len(log.log) > 0
    BY <2>3, LogType DEF empty
  <2>5. n \in Nat
    BY <1>3, InterestsOfType
  <2> HIDE DEF n
  <2>6. copies \in [1..n -> Contents]
    BY <1>2
  <2>7. \A i \in 1..n : copies[i] = content
    OBVIOUS
  <2> HIDE DEF copies
  <2>8. copies \in Seq(Contents) /\ Len(copies) = n
    BY <2>5, <2>6, FunctionIsSeq
  <2>9. \A i \in 1..Len(copies) : Fits(t, Len(log.log) + i, copies[i])
    <3> SUFFICES ASSUME NEW i \in 1..n PROVE Fits(t, Len(log.log) + i, content)
      BY <2>7, <2>8
    <3>1. Len(log.log) + i \in Nat /\ Len(log.log) + i > 1
      BY <2>4, <2>5
    <3> QED BY <2>2, <3>1
  <2>10. new.owner = s /\ IsFitting(t, new.log)
    BY <2>2, <2>3, <2>8, <2>9, AppendingFits
  <2>11. new \in Logs /\ Len(new.log) = Len(log.log) + Len(copies)
    BY <2>3, <2>8, AppendLogShellsType
  <2>12. new.log # << >>
    BY <2>4, <2>5, <2>8, <2>11, LogType DEF empty
  <2> HIDE DEF new, Log
  <2> QED BY <2>1, <2>2, <2>10, <2>12 DEF t
<1> HIDE DEF Log
<1> DEFINE new == [k \in To |-> Log(k)]
<1>7. Replaces(s, logs, To, new, list)
  <2>1. \A k \in To : new[k] = Log(k)
    OBVIOUS
  <2>2. \A t \in DOMAIN list :
            /\ t[1] = s /\ t[2] \in To => list[t] = new[t[2]]
            /\ ~(t[1] = s /\ t[2] \in To) => list[t] = logs[t]
            /\ t \in DOMAIN logs
    BY <2>1
  <2> HIDE DEF new, list
  <2> QED BY <1>6, <2>1, <2>2 DEF Replaces
<1> HIDE DEF new, list
<1>8. OwnLogsFit(s, list)
  BY <1>4, <1>7, ReplacingFits
<1> QED
  BY <1>1, <1>2, <1>8, ContentsStep

-----------------------------------------------------------------------------
(* The rest of the program *)

LEMMA ReceiveSwitchFits ==
    ASSUME TypeInv, LogIntegrity, ContentsInv, NEW s \in Switches, NEW d, ReceiveSwitch(s, d)
    PROVE  ContentsInv'
<1>1. ASSUME Receiving(s, d), Arrived(s, d).type \in LogTypes,
             logPacket' = [logPacket EXCEPT ![s] = Concatenated(s, d)], UNCHANGED myPersonalLog
      PROVE  ContentsInv'
  BY <1>1, Identifiers, ConcatenatedFits, ContentsStep
<1>2. ASSUME IsConcatenating(s, d), UNCHANGED myPersonalLog,
             logPacket' = [logPacket EXCEPT ![s] = Concatenated(s, d)]
      PROVE  ContentsInv'
  BY <1>1, <1>2, HandledTypes DEF IsConcatenating, Receiving
<1>3. CASE DropPacket(s, d)
  BY <1>3, ContentsStay DEF DropPacket, Handling
<1>4. CASE ServeRequest(s, d)
  BY <1>1, <1>4, HandledTypes DEF ServeRequest, Handling, Receiving
<1>5. CASE AnswerSwitchGossip(s, d)
  BY <1>5, ContentsStay DEF AnswerSwitchGossip, Handling
<1>6. CASE RejectEntry(s, d)
  BY <1>2, <1>6 DEF RejectEntry, Handling
<1>7. CASE AcceptMember(s, d)
  BY <1>2, <1>7 DEF AcceptMember, Accepts, IsAccepting, Handling
<1>8. CASE AcceptPlugAndPlay(s, d)
  BY <1>8, AcceptPlugAndPlayFits
<1>9. CASE AcceptRequest(s, d)
  BY <1>9, AcceptRequestFits
<1>10. CASE AcceptUnsubscribe(s, d)
  BY <1>10, AcceptUnsubscribeFits
<1>11. CASE AcceptOther(s, d)
  BY <1>2, <1>11 DEF AcceptOther, IsAccepting, Handling
<1>12. CASE ReceiveContent(s, d)
  BY <1>1, <1>12, HandledTypes DEF ReceiveContent, Handling, Receiving
<1>13. CASE ReceiveUserGossip(s, d)
  BY <1>13, ContentsStay DEF ReceiveUserGossip, Handling
<1> QED
  BY <1>3, <1>4, <1>5, <1>6, <1>7, <1>8, <1>9, <1>10, <1>11, <1>12, <1>13 DEF ReceiveSwitch

LEMMA ReceiveUserFits ==
    ASSUME TypeInv, LogIntegrity, ContentsInv, NEW u \in Users, NEW d, ReceiveUser(u, d)
    PROVE  ContentsInv'
<1>1. CASE UpdateContent(u, d)
  <2> DEFINE p == Arrived(u, d)
             new == concatenateEntry(logPacket[u], p.type, p.shell)
  <2>1. /\ Receiving(u, d) /\ IsForeign(u, d) /\ UNCHANGED myPersonalLog
        /\ logPacket' = [logPacket EXCEPT ![u] = new]
    BY <1>1 DEF UpdateContent, Reading
  <2>2. u \in Nodes /\ LogsOK /\ p \in GenuinePackets
    BY <2>1, Identifiers, ArrivedIsGenuine DEF Receiving
  <2>3. p.type \in LogTypes
    BY <2>1, HandledTypes DEF Receiving, IsForeign, ForUser
  <2> HIDE DEF p
  <2>4. OwnLogsFit(u, new)
    BY <2>2, <2>3, ConcatenationKeeps, StayingFits
  <2> HIDE DEF new
  <2> QED BY <2>1, <2>2, <2>4, ContentsStep
<1>2. CASE ~UpdateContent(u, d)
  BY <1>2, ContentsStay DEF ReceiveUser, AddSwitch, AnswerOwnGossip, IgnorePacket, MissPacket,
     Reading
<1> QED
  BY <1>1, <1>2

\* A request to join that a link leads to the manager is one a switch wrote.
LEMMA JoinRequest ==
    ASSUME TypeInv, LogIntegrity, ContentsInv, NEW d, Receiving(ManagerId, d),
           Arrived(ManagerId, d).type[2] = MANAGER_ALL
    PROVE  /\ Arrived(ManagerId, d).type \in LogTypes
           /\ Arrived(ManagerId, d).type[1] \in Switches
           /\ Arrived(ManagerId, d).shell.authorId = Arrived(ManagerId, d).type[1]
<1> DEFINE p == Arrived(ManagerId, d)
<1>1. p.type \in LogTypes
  BY HandledTypes DEF Receiving
<1>2. IsFittingPacket(p)
  BY <1>1, AnswersHaveNoLog, ArrivedFits DEF Receiving
<1>3. p.type[2] # USER_ALL /\ p.type[2] # SWITCH_ALL /\ p.type # MyType
  <2> HIDE DEF p
  <2> QED BY <1>1, ReadersDiffer DEF p
<1>4. p.type[1] \in Switches
  BY <1>2, <1>3 DEF IsFittingPacket, Writable
<1>5. ~IsSubscription(p.type)
  BY <1>3 DEF IsSubscription
<1> QED
  BY <1>1, <1>2, <1>4, <1>5 DEF IsFittingPacket

LEMMA RegisterSwitchFits ==
    ASSUME TypeInv, LogIntegrity, ContentsInv, NEW d, RegisterSwitch(d)
    PROVE  ContentsInv'
<1> DEFINE p == Arrived(ManagerId, d)
           author == p.shell.authorId
           content == ContentShell("addMemberToNetwork", author, 0)
           new == concatenateEntry(logPacket[ManagerId], p.type, p.shell)
<1>1. /\ Receiving(ManagerId, d) /\ p.type[2] = MANAGER_ALL
      /\ logPacket' = [logPacket EXCEPT ![ManagerId] = new]
      /\ \/ UNCHANGED myPersonalLog
         \/ myPersonalLog' = [myPersonalLog EXCEPT ![ManagerId] = appendLogShell(@, content)]
  BY DEF RegisterSwitch, Registered
<1>2. p.type \in LogTypes /\ author \in Switches /\ author \in Nodes
  BY <1>1, JoinRequest, Identifiers
<1>3. ManagerId \in Nodes /\ LogsOK /\ p \in GenuinePackets
  BY <1>1, Identifiers, ArrivedIsGenuine DEF Receiving
<1>4. OwnLogsFit(ManagerId, new)
  <2> HIDE DEF p
  <2> QED BY <1>2, <1>3, ConcatenationKeeps, StayingFits
<1> HIDE DEF new
<1>5. CASE UNCHANGED myPersonalLog
  BY <1>1, <1>3, <1>4, <1>5, ContentsStep
<1>6. CASE myPersonalLog' = [myPersonalLog EXCEPT ![ManagerId] = appendLogShell(@, content)]
  <2> HIDE DEF author
  <2>1. content \in Contents
    BY <1>2, ContentShellType DEF Functions
  <2>2. myPersonalLog[ManagerId] \in Logs /\ myPersonalLog[ManagerId].log # << >>
    BY PersonalType DEF ContentsInv, PersonalFits
  <2>3. Len(myPersonalLog[ManagerId].log) + 1 \in Nat /\ Len(myPersonalLog[ManagerId].log) + 1 # 1
    BY <2>2, LogType DEF empty
  <2>4. PublishedType(ManagerId) = MyType
    BY DEF PublishedType
  <2>5. content.function = "addMemberToNetwork" /\ content.params = author
    BY DEF ContentShell
  <2>6. \A k : k # 1 => Fits(MyType, k, content)
    <3> HIDE DEF content
    <3>1. /\ MyType[1] = ManagerId /\ MyType[2] \notin Nodes
          /\ MyType[2] # USER_ALL /\ MyType[2] # MANAGER_ALL
      BY Identifiers DEF MyType, LOGTYPE, USER_ALL, SWITCH_ALL, MANAGER_ALL
    <3> QED BY <1>2, <2>5, <3>1, Identifiers DEF Fits
  <2>7. \A n \in Nodes : OwnLogsFit(n, logPacket'[n])
    <3>1. /\ logPacket'[ManagerId] = new
          /\ \A n \in Nodes \ {ManagerId} : logPacket'[n] = logPacket[n]
      BY <1>1, <1>3 DEF TypeInv, ListsOK
    <3> QED BY <1>4, <3>1 DEF ContentsInv
  <2> HIDE DEF content
  <2> QED BY <1>6, <2>1, <2>3, <2>4, <2>6, <2>7, PublishingFits
<1> QED
  BY <1>1, <1>5, <1>6

LEMMA InitFits == Init => ContentsInv
<1> SUFFICES ASSUME Init PROVE ContentsInv
  OBVIOUS
<1>1. \A n \in Nodes : OwnLogsFit(n, logPacket[n])
  BY DEF Init, DeviceInit, OwnLogsFit
<1>2. ASSUME NEW u \in Users PROVE PersonalFits(u, myPersonalLog[u])
  <2>1. myPersonalLog[u] = NewLog(u) /\ u # ManagerId /\ u \in Nodes
    BY Identifiers DEF Init, DeviceInit
  <2> QED BY <2>1, NewLogFits DEF PersonalFits
<1>3. PersonalFits(ManagerId, myPersonalLog[ManagerId])
  <2> DEFINE content == InitialContent(None)
             log == appendLogShell(NewLog(ManagerId), content)
  <2>1. myPersonalLog[ManagerId] = log
    BY Identifiers DEF Init, DeviceInit
  <2>2. content \in Contents /\ content.function = "" /\ content.params = None
    BY ContentShellType DEF InitialContent, Functions, ContentShell
  <2>3. Fits(MyType, 1, content)
    <3> HIDE DEF content
    <3>1. /\ MyType[1] = ManagerId /\ MyType[2] \notin Nodes
          /\ MyType[2] # USER_ALL /\ MyType[2] # MANAGER_ALL
      BY Identifiers DEF MyType, LOGTYPE, USER_ALL, SWITCH_ALL, MANAGER_ALL
    <3> QED BY <2>2, <3>1, Identifiers DEF Fits
  <2>4. MyType[1] = ManagerId
    BY DEF MyType, LOGTYPE
  <2> HIDE DEF content
  <2>5. /\ NewLog(ManagerId) \in Logs /\ NewLog(ManagerId).owner = ManagerId
        /\ Len(NewLog(ManagerId).log) + 1 = 1 /\ IsFitting(MyType, NewLog(ManagerId).log)
    BY Identifiers, NewLogFits
  <2>6. log.owner = ManagerId /\ log.log # << >> /\ IsFitting(MyType, log.log)
    BY <2>2, <2>3, <2>4, <2>5, AppendingOneFits
  <2> HIDE DEF log
  <2> QED BY <2>1, <2>6 DEF PersonalFits, PublishedType
<1> QED
  BY <1>1, <1>2, <1>3 DEF ContentsInv

LEMMA NextFits == TypeInv /\ LogIntegrity /\ ContentsInv /\ [Next]_vars => ContentsInv'
<1> SUFFICES ASSUME TypeInv, LogIntegrity, ContentsInv, [Next]_vars PROVE ContentsInv'
  OBVIOUS
<1>1. ASSUME NEW s \in Switches, SwitchStep(s) PROVE ContentsInv'
  <2>1. CASE GossipRound(s)
    BY <2>1, ContentsStay DEF GossipRound, Gossip
  <2> QED BY <1>1, <2>1, StartSwitchFits, ReceiveSwitchFits DEF SwitchStep
<1>2. ASSUME NEW u \in Users, UserStep(u) PROVE ContentsInv'
  BY <1>2, StartUserFits, SubscribeFits, UnsubscribeFits, PushFits, ReceiveUserFits
     DEF UserStep, StartUsers
<1>3. ASSUME NEW d, ReceiveManager(d) PROVE ContentsInv'
  BY <1>3, RegisterSwitchFits, ContentsStay DEF ReceiveManager, AnswerManagerGossip, DropUnknown
<1>4. ASSUME NEW l \in LossyLinks, LosePacket(l) PROVE ContentsInv'
  BY <1>4, ContentsStay DEF LosePacket
<1>5. CASE UNCHANGED vars
  BY <1>5, ContentsStay DEF vars, deviceVars
<1> QED
  BY <1>1, <1>2, <1>3, <1>4, <1>5 DEF Next, ManagerStep

\* Nobody writes in a log what is not meant for it.
LEMMA SpecContents == Spec => []ContentsInv
  BY InitFits, NextFits, SpecType, LogsHaveIntegrity, PTL DEF Spec

-----------------------------------------------------------------------------
(* A switch with a manager follows it *)

\* The packet of the manager that a switch takes its manager from is about the
\* manager's log, which it then keeps a replica of.
LEMMA AssigningFollows ==
    ASSUME TypeInv, LogIntegrity, ContentsInv, NEW s \in Switches, NEW d,
           Receiving(s, d), ForSwitch(Arrived(s, d).type), AssigningManager(s, d),
           Arrived(s, d).type \in DOMAIN logPacket'[s]
    PROVE  \A r \in Switches :
               manager'[r] = manager[r] \/ (r = s /\ MyType \in DOMAIN logPacket'[s])
<1> DEFINE p == Arrived(s, d)
<1>1. p.type \in LogTypes /\ Writable(p.type)
  BY HandledTypes, AnswersHaveNoLog, ArrivedFits DEF Receiving, IsFittingPacket
<1>2. p.type[1] = ManagerId => p.type = MyType
  BY <1>1, Identifiers DEF Writable
<1> HIDE DEF p
<1>3. \A r \in Switches : manager'[r] = manager[r] \/ (r = s /\ p.type[1] = ManagerId)
  BY DEF AssigningManager, p, TypeInv, ManagerOK
<1> QED
  BY <1>2, <1>3 DEF p

LEMMA ReceivingFollows ==
    ASSUME TypeInv, LogIntegrity, ContentsInv, NEW s \in Switches, NEW d, ReceiveSwitch(s, d)
    PROVE  \A r \in Switches :
               manager'[r] = manager[r] \/ (r = s /\ MyType \in DOMAIN logPacket'[s])
<1> DEFINE p == Arrived(s, d)
           Goal == \A r \in Switches :
                       manager'[r] = manager[r] \/ (r = s /\ MyType \in DOMAIN logPacket'[s])
           Follows == /\ Receiving(s, d) /\ ForSwitch(p.type) /\ AssigningManager(s, d)
                      /\ p.type \in DOMAIN logPacket'[s]
<1> SUFFICES Goal
  OBVIOUS
<1>1. Follows => Goal
  BY AssigningFollows
<1>2. ASSUME Receiving(s, d), ForSwitch(p.type)
      PROVE  p.type \in DOMAIN Concatenated(s, d)
  BY <1>2, HandledTypes, SwitchReads DEF Receiving
<1>3. ASSUME NEW list, logPacket' = [logPacket EXCEPT ![s] = list]
      PROVE  logPacket'[s] = list
  BY <1>3, Identifiers DEF TypeInv, ListsOK
<1>4. IsConcatenating(s, d) => Receiving(s, d) /\ ForSwitch(p.type)
  BY DEF IsConcatenating
<1>5. IsAccepting(s, d) => Receiving(s, d) /\ ForSwitch(p.type)
  BY <1>4 DEF IsAccepting
<1> HIDE DEF p, Goal
<1>6. CASE ServeRequest(s, d)
  BY <1>1, <1>2, <1>3, <1>6 DEF ServeRequest, p
<1>7. CASE AnswerSwitchGossip(s, d)
  BY <1>1, <1>7 DEF AnswerSwitchGossip, IsAheadOf, exists, p
<1>8. CASE RejectEntry(s, d)
  BY <1>1, <1>2, <1>3, <1>4, <1>8 DEF RejectEntry
<1>9. CASE AcceptMember(s, d)
  BY <1>1, <1>2, <1>3, <1>5, <1>9 DEF AcceptMember, Accepts
<1>10. CASE AcceptPlugAndPlay(s, d)
  <2> DEFINE type == LOGTYPE(s, Arrived(s, d).shell.authorId)
             log == appendLogShell(NewLog(s), ContentShell("addSwitch", s, 0))
  <2>1. /\ IsAccepting(s, d) /\ AssigningManager(s, d)
        /\ logPacket' = [logPacket EXCEPT ![s] = Insert(Concatenated(s, d), type, log)]
    BY <1>10 DEF AcceptPlugAndPlay, Accepts
  <2>2. p.type \in DOMAIN Insert(Concatenated(s, d), type, log)
    BY <1>2, <1>5, <2>1 DEF Insert
  <2> HIDE DEF type, log
  <2> QED BY <1>1, <1>3, <1>5, <2>1, <2>2
<1>11. CASE AcceptRequest(s, d)
  <2>1. /\ IsAccepting(s, d) /\ AssigningManager(s, d)
        /\ DOMAIN Concatenated(s, d) \subseteq DOMAIN logPacket'[s]
    BY <1>3, <1>11 DEF AcceptRequest, Accepts
  <2> QED BY <1>1, <1>2, <1>5, <2>1
<1>12. CASE AcceptUnsubscribe(s, d)
  <2> DEFINE dropped == ContentOf(p.shell.shell.params)
  <2>1. /\ IsAccepting(s, d) /\ AssigningManager(s, d)
        /\ DOMAIN Concatenated(s, d) \ {dropped} \subseteq DOMAIN logPacket'[s]
    BY <1>3, <1>12 DEF AcceptUnsubscribe, Without, p
  <2>2. p.type # dropped
    <3>1. dropped[2] = USER_ALL
      BY DEF ContentOf, LOGTYPE
    <3> HIDE DEF dropped
    <3>2. p.type[2] # USER_ALL
      BY <1>5, <2>1, Identifiers DEF ForSwitch, USER_ALL, SWITCH_ALL
    <3> QED BY <3>1, <3>2
  <2> HIDE DEF dropped
  <2> QED BY <1>1, <1>2, <1>5, <2>1, <2>2
<1>13. CASE AcceptOther(s, d)
  BY <1>1, <1>2, <1>3, <1>5, <1>13 DEF AcceptOther
<1>14. CASE UNCHANGED manager
  BY <1>14 DEF Goal
<1> QED
  BY <1>6, <1>7, <1>8, <1>9, <1>10, <1>11, <1>12, <1>13, <1>14
     DEF ReceiveSwitch, DropPacket, ReceiveContent, ReceiveUserGossip, switchVars, Goal

\* A switch keeps its replica of the manager's log: only users remove logs.
LEMMA FollowingStays ==
    ASSUME NEW n \in Nodes, TurnOf(n), NEW s \in Switches, MyType \in DOMAIN logPacket[s]
    PROVE  MyType \in DOMAIN logPacket'[s]
<1>1. MyType \in LogTypes /\ ~IsOwn(s, MyType)
  BY Identifiers, LogTypesAre DEF MyType, IsOwn, IsPublished
<1>2. CASE n # s
  BY <1>2, Identifiers DEF TurnOf
<1>3. CASE n = s
  <2>1. CopiesStep(s, logPacket'[s])
    BY <1>3 DEF TurnOf
  <2>2. ASSUME NEW t \in LogTypes, Drops(s, logPacket'[s], t) PROVE FALSE
    BY <2>2, Identifiers DEF Drops, UserSubscriptions
  <2> QED BY <1>1, <2>1, <2>2 DEF CopiesStep, SameCopies, SameCopy, Takes, SameButOne
<1> QED
  BY <1>2, <1>3

LEMMA NextFollows ==
    TypeInv /\ LogIntegrity /\ ContentsInv /\ ManagerIsFollowed /\ [Next]_vars
        => ManagerIsFollowed'
<1> DEFINE Follows == \A r \in Switches : manager'[r] = manager[r] \/ MyType \in DOMAIN logPacket'[r]
<1> SUFFICES ASSUME TypeInv, LogIntegrity, ContentsInv, ManagerIsFollowed, [Next]_vars
             PROVE  ManagerIsFollowed'
  OBVIOUS
<1>1. PICK n \in Nodes : TurnOf(n)
  BY NextLogs
<1>2. ASSUME UNCHANGED manager PROVE Follows
  BY <1>2 DEF Follows
<1>3. ASSUME NEW s \in Switches, SwitchStep(s) PROVE Follows
  <2>1. ASSUME StartSwitch(s) \/ GossipRound(s) PROVE Follows
    BY <1>2, <2>1 DEF StartSwitch, GossipRound, Gossip, switchVars
  <2> QED BY <1>3, <2>1, ReceivingFollows DEF SwitchStep
<1>4. ASSUME NEW u \in Users, UserStep(u) PROVE Follows
  BY <1>2, <1>4 DEF UserStep, StartUsers, CallSubscribe, CallUnsubscribe, CallPush, switchVars
<1>5. ASSUME ManagerStep \/ \E l \in LossyLinks : LosePacket(l) PROVE Follows
  BY <1>2, <1>5 DEF ManagerStep, LosePacket, switchVars
<1>6. ASSUME UNCHANGED vars PROVE Follows
  BY <1>2, <1>6 DEF vars, switchVars
<1>7. Follows
  BY <1>3, <1>4, <1>5, <1>6 DEF Next
<1> HIDE DEF Follows
<1>8. ASSUME NEW r \in Switches, manager'[r] # None PROVE MyType \in DOMAIN logPacket'[r]
  BY <1>1, <1>7, <1>8, FollowingStays DEF Follows, ManagerIsFollowed
<1> QED
  BY <1>8 DEF ManagerIsFollowed

LEMMA SpecFollows == Spec => []ManagerIsFollowed
<1>1. Init => ManagerIsFollowed
  BY DEF Init, SwitchInit, ManagerIsFollowed
<1> QED
  BY <1>1, NextFollows, SpecType, LogsHaveIntegrity, SpecContents, PTL DEF Spec

\* Gossip runs at a switch from the moment it has a manager, at one event at a
\* time, and there is then a log for rand() % size to choose: it is never taken
\* modulo zero (AssigningManager, gossip).
THEOREM GossipAlwaysHasALog == Spec => []GossipHasALog
<1>1. TypeInv /\ ManagerIsFollowed => GossipHasALog
  BY DEF TypeInv, ManagerOK, ManagerIsFollowed, GossipHasALog, IsSubscription, MyType, LOGTYPE
<1> QED
  BY <1>1, SpecType, SpecFollows, PTL

-----------------------------------------------------------------------------
(* The members known are the ones the copy of the manager's log adds *)

\* The manager's log as far as list holds it.
Membership(list) == IF MyType \in DOMAIN list THEN list[MyType].log ELSE << >>

LEMMA NoMembersYet ==
    ASSUME NEW members, NEW log \in Seq(Entries), Len(log) = 0
    PROVE  AreMembersOf(members, log) <=> members = << >>
<1>1. 1..(Len(log) - 1) = {} /\ 2..Len(log) = {}
  OBVIOUS
<1>2. [i \in 1..(Len(log) - 1) |-> log[i + 1].shell.params] = << >>
  BY <1>1
<1> QED
  BY <1>1, <1>2 DEF AreMembersOf

\* An opening entry adds nobody.
LEMMA OpenedMembership ==
    ASSUME NEW members, NEW old \in Seq(Entries), Len(old) = 0, AreMembersOf(members, old),
           NEW new \in Seq(Entries), Len(new) <= 1
    PROVE  AreMembersOf(members, new)
<1>1. Len(new) \in Nat
  OBVIOUS
<1>2. 1..(Len(new) - 1) = {} /\ 2..Len(new) = {}
  BY <1>1
<1>3. [i \in 1..(Len(new) - 1) |-> new[i + 1].shell.params] = << >>
  BY <1>2
<1>4. members = << >>
  BY NoMembersYet
<1> QED
  BY <1>2, <1>3, <1>4 DEF AreMembersOf

\* Every later one adds its argument at the end.
LEMMA MemberAppended ==
    ASSUME NEW members, NEW log \in Seq(Entries), Len(log) > 0, AreMembersOf(members, log),
           NEW new \in Seq(Entries), Len(new) = Len(log) + 1,
           \A i \in 1..Len(log) : new[i] = log[i],
           new[Len(log) + 1].shell.function = "addMemberToNetwork",
           NEW member, member = new[Len(log) + 1].shell.params
    PROVE  AreMembersOf(Append(members, member), new)
<1> DEFINE n == Len(log) - 1
           Params(l) == [i \in 1..(Len(l) - 1) |-> l[i + 1].shell.params]
<1>1. n \in Nat /\ Len(log) = n + 1 /\ Len(new) = n + 2 /\ members = Params(log)
  BY DEF AreMembersOf
<1>2. \A i \in 2..Len(new) : new[i].shell.function = "addMemberToNetwork"
  <2> SUFFICES ASSUME NEW i \in 2..Len(new), i # Len(log) + 1
               PROVE  new[i].shell.function = "addMemberToNetwork"
    OBVIOUS
  <2>1. i \in 2..Len(log) /\ i \in 1..Len(log)
    BY <1>1
  <2> QED BY <2>1 DEF AreMembersOf
<1> DEFINE T == {Params(log)[i] : i \in 1..n} \cup {member}
<1>3. members \in [1..n -> T]
  BY <1>1
<1>4. members \in Seq(T) /\ Len(members) = n /\ member \in T
  <2> HIDE DEF n, Params
  <2>1. member \in T
    OBVIOUS
  <2> HIDE DEF T
  <2> QED BY <1>1, <1>3, <2>1, FunctionIsSeq
<1>5. Append(members, member) = Params(new)
  <2> DEFINE a == Append(members, member)
  <2> HIDE DEF T
  <2>1. a \in [1..(n + 1) -> T]
    <3> HIDE DEF n, Params
    <3>1. a \in Seq(T) /\ Len(a) = n + 1
      BY <1>4
    <3> HIDE DEF a
    <3> QED BY <3>1, LenProperties
  <2>2. ASSUME NEW i \in 1..(n + 1) PROVE a[i] = new[i + 1].shell.params
    <3>1. CASE i = n + 1
      BY <1>1, <1>4, <3>1
    <3>2. CASE i # n + 1
      <4>1. i \in 1..n /\ i + 1 \in 1..Len(log)
        <5>1. n \in Nat /\ Len(log) = n + 1
          BY <1>1
        <5> HIDE DEF n
        <5> QED BY <3>2, <5>1
      <4>2. a[i] = members[i]
        BY <1>4, <4>1
      <4>3. members[i] = log[i + 1].shell.params
        BY <1>1, <4>1
      <4> QED BY <4>1, <4>2, <4>3
    <3> QED BY <3>1, <3>2
  <2>3. Params(new) = [i \in 1..(n + 1) |-> new[i + 1].shell.params]
    <3>1. Len(new) - 1 = n + 1
      BY <1>1
    <3> QED BY <3>1
  <2> DEFINE D == 1..(n + 1)
  <2>4. a = [i \in D |-> a[i]]
    BY <2>1
  <2>5. [i \in D |-> a[i]] = [i \in D |-> new[i + 1].shell.params]
    BY <2>2
  <2> HIDE DEF Params, n
  <2> QED BY <2>3, <2>4, <2>5
<1> QED
  BY <1>2, <1>5 DEF AreMembersOf

\* A packet that continues a switch's copy of the manager's log is the next
\* entry the manager wrote.
LEMMA ConcatenatingMembership ==
    ASSUME TypeInv, LogIntegrity, ContentsInv, NEW s \in Switches, NEW d, Receiving(s, d),
           Arrived(s, d).type \in LogTypes
    PROVE  LET p == Arrived(s, d)
               old == Membership(logPacket[s])
               new == Membership(Concatenated(s, d))
           IN  /\ old \in Seq(Entries) /\ new \in Seq(Entries)
               /\ new # old => /\ p.type = MyType
                               /\ isEntryConcatenated(logPacket[s], p.type, p.shell)
                               /\ Len(old) > 0 => ~Unparsable(p.shell)
               /\ p.type = MyType /\ isEntryConcatenated(logPacket[s], p.type, p.shell)
                      => /\ new = Append(old, p.shell)
                         /\ Fits(MyType, Len(old) + 1, p.shell.shell)
<1> DEFINE p == Arrived(s, d)
           held == IF p.type \in DOMAIN logPacket[s] THEN logPacket[s][p.type]
                   ELSE NewLog(p.shell.authorId)
           list == Concatenated(s, d)
<1>1. s \in Nodes /\ IsLogList(logPacket[s]) /\ p.shell \in Entries /\ LogsOK
  BY Identifiers, ListType, ArrivedType, ArrivedIsGenuine DEF Receiving
<1>2. /\ IsLogList(list) /\ DOMAIN list = DOMAIN logPacket[s] \cup {p.type}
      /\ \A t \in DOMAIN logPacket[s] \ {p.type} : list[t] = logPacket[s][t]
      /\ list[p.type] = addToLog(held, p.shell) /\ held \in Logs
  <2> DEFINE base == logPacket[s]
             type == p.type
             e == p.shell
             old == IF type \in DOMAIN base THEN base[type] ELSE NewLog(e.authorId)
             new == concatenateEntry(base, type, e)
  <2>1. IsLogList(base) /\ type \in LogTypes /\ e \in Entries
    BY <1>1
  <2>2. list = new
    BY DEF Concatenated
  <2> HIDE DEF base, type, e, list
  <2> HIDE DEF p, held
  <2>3. /\ IsLogList(new)
        /\ DOMAIN new = DOMAIN base \cup {type}
        /\ \A t \in DOMAIN base \ {type} : new[t] = base[t]
        /\ new[type] = addToLog(old, e)
        /\ old \in Logs
    BY <2>1, concatenateEntryType
  <2> HIDE DEF new
  <2> QED BY <2>2, <2>3 DEF base, type, e, held
<1>3. isEntryConcatenated(logPacket[s], p.type, p.shell) <=> isSubsequentEntry(held, p.shell)
  BY DEF isEntryConcatenated, Insert
<1>4. IsFittingPacket(p)
  BY AnswersHaveNoLog, ArrivedFits DEF Receiving
<1> HIDE DEF p, list
<1>5. Membership(logPacket[s]) \in Seq(Entries) /\ Membership(list) \in Seq(Entries)
  BY <1>1, <1>2, LogOfList, LogType DEF Membership
<1>6. CASE p.type # MyType
  <2>1. Membership(list) = Membership(logPacket[s])
    BY <1>2, <1>6 DEF Membership
  <2> QED BY <1>5, <1>6, <2>1 DEF p, list
<1>7. CASE p.type = MyType
  <2>1. held.log = Membership(logPacket[s]) /\ Membership(list) = addToLog(held, p.shell).log
    BY <1>2, <1>7 DEF Membership, NewLog
  <2>2. IsNumbered(held.log)
    <3>1. CASE MyType \in DOMAIN logPacket[s]
      <4>1. /\ logPacket[s][MyType].log \in Seq(Entries) /\ MyType \in LogTypes
            /\ IsPrefix(logPacket[s][MyType].log, WrittenLog(MyType))
            /\ IsWritten(MyType)
        BY <1>1, <3>1, LogOfList, LogType DEF LogsOK
      <4> QED BY <1>1, <1>7, <3>1, <4>1, WrittenLogType, NumberedPrefix DEF LogsOK, held
    <3>2. CASE MyType \notin DOMAIN logPacket[s]
      BY <1>7, <3>2 DEF held, NewLog, IsNumbered
    <3> QED BY <3>1, <3>2
  <2> HIDE DEF held
  <2>3. CASE isSubsequentEntry(held, p.shell)
    <3>1. Membership(list) = Append(held.log, p.shell)
      BY <1>2, <2>1, <2>3 DEF addToLog, Logs
    <3>2. p.shell.sequenceNum = Len(held.log)
      <4>1. getCurrentSeqNum(held) = Len(held.log) - 1
        BY <1>2, <2>2, NumberedLog
      <4>2. CASE empty(held)
        BY <1>2, <2>3, <4>2, LogType DEF isSubsequentEntry
      <4>3. CASE ~empty(held)
        BY <1>2, <2>3, <4>1, <4>3, LogType DEF isSubsequentEntry
      <4> QED BY <4>2, <4>3
    <3>3. p.shell # ShownOfEmptyLog
      BY <1>2, <3>2, LogType, ShownIsFirst
    <3>4. Fits(MyType, Len(held.log) + 1, p.shell.shell)
      BY <1>4, <1>7, <3>2, <3>3 DEF IsFittingPacket
    <3>5. Len(held.log) > 0 => ~Unparsable(p.shell)
      <4> SUFFICES ASSUME Len(held.log) > 0 PROVE ~Unparsable(p.shell)
        OBVIOUS
      <4>1. ~empty(held)
        BY <1>2, LogType
      <4>2. p.shell.signature = <<p.shell.sequenceNum>>
        BY <2>3, <4>1 DEF isSubsequentEntry, verify
      <4>3. Len(<<p.shell.sequenceNum>>) = 1 /\ Len(<< >>) = 0
        OBVIOUS
      <4> QED BY <4>2, <4>3 DEF Unparsable, NoSignature
    <3> QED BY <1>3, <1>5, <1>7, <2>1, <2>3, <3>1, <3>4, <3>5 DEF p, list
  <2>4. CASE ~isSubsequentEntry(held, p.shell)
    BY <1>3, <1>5, <2>1, <2>4 DEF addToLog, p, list
  <2> QED BY <2>3, <2>4
<1> QED
  BY <1>6, <1>7

\* It says who joins, or is the first; what is served as a request for
\* content, or handled as anything else, is neither.
LEMMA LaterEntryAdds ==
    ASSUME TypeInv, LogIntegrity, ContentsInv, NEW s \in Switches, NEW d, Receiving(s, d),
           Arrived(s, d).type \in LogTypes,
           Membership(Concatenated(s, d)) # Membership(logPacket[s]),
           Len(Membership(logPacket[s])) > 0
    PROVE  /\ ForSwitch(Arrived(s, d).type) /\ ~IsServed(s, d)
           /\ Arrived(s, d).shell.shell.function = "addMemberToNetwork"
           /\ isEntryConcatenated(logPacket[s], Arrived(s, d).type, Arrived(s, d).shell)
           /\ ~Unparsable(Arrived(s, d).shell)
<1> DEFINE p == Arrived(s, d)
           content == p.shell.shell
           old == Membership(logPacket[s])
<1>1. /\ old \in Seq(Entries) /\ p.type = MyType /\ Fits(MyType, Len(old) + 1, content)
      /\ isEntryConcatenated(logPacket[s], p.type, p.shell) /\ ~Unparsable(p.shell)
  BY ConcatenatingMembership
<1> HIDE DEF p, content, old
<1>2. Len(old) + 1 # 1
  BY <1>1 DEF old
<1>3. content.function = "addMemberToNetwork" /\ content.params \in Switches
  BY <1>1, <1>2 DEF Fits
<1>4. ForSwitch(p.type)
  BY <1>1 DEF ForSwitch, MyType, LOGTYPE
<1>5. ContentOf(content.params) \notin DOMAIN logPacket[s]
  <2> SUFFICES ASSUME ContentOf(content.params) \in DOMAIN logPacket[s] PROVE FALSE
    OBVIOUS
  <2> DEFINE t == ContentOf(content.params)
  <2>1. t[1] \in Switches /\ t[2] = USER_ALL
    BY <1>3 DEF ContentOf, LOGTYPE
  <2>2. t \in LogTypes /\ Writable(t)
    BY Identifiers, HeldFits
  <2> HIDE DEF t
  <2>3. t[2] \notin {SWITCH_ALL, MANAGER_ALL} \cup Nodes
    BY <2>1, <2>2, ReadersDiffer
  <2>4. t # MyType
    BY <2>3, ReadersDiffer
  <2> QED BY <2>1, <2>2, <2>3, <2>4, Identifiers DEF Writable
<1>6. ~IsServed(s, d)
  BY <1>3, <1>5 DEF IsServed, exists, content, p
<1> QED
  BY <1>1, <1>3, <1>4, <1>6 DEF p, content

\* An entry that adds a member is the next of the manager's log.
LEMMA AcceptMemberFollows ==
    ASSUME TypeInv, LogIntegrity, ContentsInv, NEW s \in Switches, NEW d, AcceptMember(s, d),
           AreMembersOf(familyMembers[s], Membership(logPacket[s]))
    PROVE  AreMembersOf(familyMembers'[s], Membership(logPacket'[s]))
<1> DEFINE p == Arrived(s, d)
           content == p.shell.shell
           old == Membership(logPacket[s])
           new == Membership(logPacket'[s])
           list == Concatenated(s, d)
<1>1. /\ IsAccepting(s, d) /\ content.function = "addMemberToNetwork"
      /\ logPacket'[s] = Concatenated(s, d)
      /\ familyMembers'[s] = Append(familyMembers[s], content.params)
  BY Identifiers DEF AcceptMember, Accepts, TypeInv, ListsOK, FamilyOK
<1>2. /\ Receiving(s, d) /\ p.type \in LogTypes /\ p.shell \in Entries
      /\ isEntryConcatenated(logPacket[s], p.type, p.shell)
      /\ ForSwitch(p.type) /\ Writable(p.type)
      /\ Fits(p.type, p.shell.sequenceNum + 1, content)
  <2>1. /\ p.type \in LogTypes /\ ForSwitch(p.type) /\ Writable(p.type)
        /\ Fits(p.type, p.shell.sequenceNum + 1, content)
    BY <1>1, AcceptedFits
  <2>2. Receiving(s, d) /\ isEntryConcatenated(logPacket[s], p.type, p.shell)
    BY <1>1 DEF IsAccepting, IsConcatenating
  <2>3. p.shell \in Entries
    BY <2>2, ArrivedType DEF Receiving
  <2> QED BY <2>1, <2>2, <2>3
<1>3. p.type = MyType
  <2> HIDE DEF p, content
  <2>1. p.type[2] # USER_ALL /\ p.type[2] # MANAGER_ALL
    BY <1>2, ReadersDiffer, Identifiers DEF ForSwitch
  <2> QED BY <1>1, <1>2, <2>1 DEF Writable, Fits, Requests, ForSwitch
<1>4. /\ old \in Seq(Entries) /\ new = Append(old, p.shell)
      /\ Fits(MyType, Len(old) + 1, content)
  BY <1>1, <1>2, <1>3, ConcatenatingMembership
<1> HIDE DEF p, old, new
<1>5. Len(old) # 0
  BY <1>1, <1>4 DEF Fits
<1>6. /\ Len(old) \in Nat /\ new \in Seq(Entries) /\ Len(new) = Len(old) + 1
      /\ \A i \in 1..Len(old) : new[i] = old[i]
      /\ new[Len(old) + 1] = p.shell
  BY <1>2, <1>4
<1>7. AreMembersOf(familyMembers[s], old)
  BY DEF old
<1>8. Len(old) > 0 /\ new[Len(old) + 1].shell.function = "addMemberToNetwork"
      /\ content.params = new[Len(old) + 1].shell.params
  BY <1>1, <1>5, <1>6
<1> HIDE DEF content
<1>9. AreMembersOf(Append(familyMembers[s], content.params), new)
  BY <1>4, <1>6, <1>7, <1>8, MemberAppended
<1> QED
  BY <1>1, <1>9 DEF new

\* What a step may do to a switch that keeps AreMembersOf, if it is no member's.
KeepsMembers(s) ==
    /\ familyMembers'[s] = familyMembers[s]
    /\ \/ Membership(logPacket'[s]) = Membership(logPacket[s])
       \/ Len(Membership(logPacket[s])) = 0

LEMMA ReceivingFollowsMembers ==
    ASSUME TypeInv, LogIntegrity, ContentsInv, NEW s \in Switches, NEW d, ReceiveSwitch(s, d)
    PROVE  AcceptMember(s, d) \/ KeepsMembers(s)
<1> DEFINE p == Arrived(s, d)
           Stays == \/ Membership(logPacket'[s]) = Membership(logPacket[s])
                    \/ Len(Membership(logPacket[s])) = 0
           Same(list) == Membership(list) = Membership(Concatenated(s, d))
           Other == p.shell.shell.function # "addMemberToNetwork"
<1>1. ASSUME Receiving(s, d), p.type \in LogTypes, Same(logPacket'[s]),
             ~Stays
      PROVE  /\ ForSwitch(p.type) /\ ~IsServed(s, d)
             /\ ~Other /\ ~Unparsable(p.shell)
             /\ isEntryConcatenated(logPacket[s], p.type, p.shell)
  <2>1. Membership(logPacket[s]) \in Seq(Entries)
    BY <1>1, ConcatenatingMembership
  <2>2. Len(Membership(logPacket[s])) > 0
    BY <1>1, <2>1
  <2> QED BY <1>1, <2>2, LaterEntryAdds
<1>2. ASSUME NEW list, logPacket' = [logPacket EXCEPT ![s] = list]
      PROVE  logPacket'[s] = list
  BY <1>2, Identifiers DEF TypeInv, ListsOK
<1>3. ASSUME IsConcatenating(s, d)
      PROVE  Receiving(s, d) /\ p.type \in LogTypes /\ ForSwitch(p.type) /\ ~IsServed(s, d)
  BY <1>3, HandledTypes DEF IsConcatenating, Receiving
<1>4. IsAccepting(s, d) => IsConcatenating(s, d)
  BY DEF IsAccepting
<1>5. ASSUME NEW t, t[1] = s PROVE t # MyType
  BY <1>5, Identifiers DEF MyType, LOGTYPE
<1>6. ASSUME NEW r PROVE LOGTYPE(s, r) # MyType
  BY Identifiers DEF MyType, LOGTYPE
<1>7. ASSUME ReceiveSwitch(s, d), ~AcceptMember(s, d)
      PROVE  familyMembers' = familyMembers
  BY <1>7 DEF ReceiveSwitch, DropPacket, ServeRequest, AnswerSwitchGossip, RejectEntry,
     AcceptPlugAndPlay, AcceptRequest, AcceptUnsubscribe, AcceptOther, ReceiveContent,
     ReceiveUserGossip
<1> HIDE DEF p, Stays
<1>8. ASSUME UNCHANGED logPacket PROVE Stays
  BY <1>8 DEF Stays
<1>9. ASSUME IsAccepting(s, d), Other, Same(logPacket'[s]) PROVE Stays
  BY <1>1, <1>3, <1>4, <1>9
<1>10. ASSUME ServeRequest(s, d) PROVE Stays
  <2>1. /\ Receiving(s, d) /\ ForSwitch(p.type) /\ IsServed(s, d)
        /\ logPacket'[s] = Concatenated(s, d)
    BY <1>2, <1>10 DEF ServeRequest, p
  <2>2. p.type \in LogTypes
    BY <2>1, HandledTypes DEF Receiving, p
  <2> QED BY <1>1, <2>1, <2>2
<1>11. ASSUME RejectEntry(s, d) PROVE Stays
  <2>1. /\ IsConcatenating(s, d) /\ logPacket'[s] = Concatenated(s, d)
        /\ Unparsable(p.shell) \/ ~isEntryConcatenated(logPacket[s], p.type, p.shell)
    BY <1>2, <1>11 DEF RejectEntry, IsAccepting, p
  <2> QED BY <1>1, <1>3, <2>1
<1>12. ASSUME AcceptPlugAndPlay(s, d) PROVE Stays
  <2> DEFINE type == LOGTYPE(s, Arrived(s, d).shell.authorId)
             log == appendLogShell(NewLog(s), ContentShell("addSwitch", s, 0))
  <2>1. /\ IsAccepting(s, d) /\ p.shell.shell.function = "plugAndPlay"
        /\ logPacket'[s] = Insert(Concatenated(s, d), type, log)
    BY <1>2, <1>12 DEF AcceptPlugAndPlay, Accepts, p
  <2>2. type # MyType
    BY <1>6
  <2> HIDE DEF type, log
  <2>3. Same(logPacket'[s])
    BY <2>1, <2>2 DEF Insert, Membership
  <2> QED BY <1>9, <2>1, <2>3
<1>13. ASSUME AcceptRequest(s, d) PROVE Stays
  <2>1. /\ IsAccepting(s, d) /\ p.shell.shell.function = "getContentFrom"
        /\ MyType \in DOMAIN logPacket'[s] <=> MyType \in DOMAIN Concatenated(s, d)
        /\ MyType \in DOMAIN Concatenated(s, d)
               => logPacket'[s][MyType] = Concatenated(s, d)[MyType]
    BY <1>2, <1>5, <1>6, <1>13, ZenonT(60) DEF AcceptRequest, Accepts, p
  <2>2. Same(logPacket'[s])
    BY <2>1 DEF Membership
  <2> QED BY <1>9, <2>1, <2>2
<1>14. ASSUME AcceptUnsubscribe(s, d) PROVE Stays
  <2> DEFINE content == Arrived(s, d).shell.shell
             cancelled == <<content.params, Arrived(s, d).shell.authorId>>
             left == interestedNeighbours[s] (-) SetToBag({cancelled})
             Subscribers == {q[2] : q \in {r \in DOMAIN left : r[1] # r[2]}}
             Forwarding == \E q \in DOMAIN left : q[2] \notin Users
             dropped == ContentOf(content.params)
             old == Concatenated(s, d)
             logs == IF Forwarding THEN Without(old, dropped) ELSE old
             To == IF Forwarding THEN {k \in Subscribers : exists(logs, LOGTYPE(s, k))} ELSE {}
             Log(k) == AppendLogShells(logs[LOGTYPE(s, k)],
                           [i \in 1..InterestsOf(left, k) |-> content])
             list == [t \in DOMAIN logs |->
                         IF t[1] = s /\ t[2] \in To THEN Log(t[2]) ELSE logs[t]]
  <2>0. dropped # MyType
    BY Identifiers DEF MyType, LOGTYPE, ContentOf, USER_ALL, SWITCH_ALL
  <2>1. /\ IsAccepting(s, d) /\ p.shell.shell.function = "removeUserFromInl"
        /\ logPacket' = [logPacket EXCEPT ![s] = list]
    BY <1>14 DEF AcceptUnsubscribe, p
  <2>3. logPacket'[s] = list
    BY <1>2, <2>1
  <2> HIDE DEF Forwarding, dropped, old
  <2>4. /\ MyType \in DOMAIN logs <=> MyType \in DOMAIN old
        /\ MyType \in DOMAIN old => logs[MyType] = old[MyType]
    BY <2>0 DEF Without
  <2> HIDE DEF logs, To, Log
  <2>5. /\ MyType \in DOMAIN list <=> MyType \in DOMAIN logs
        /\ MyType \in DOMAIN logs => list[MyType] = logs[MyType]
    BY <1>5
  <2> HIDE DEF list
  <2>2. Same(logPacket'[s])
    BY <2>3, <2>4, <2>5 DEF Membership, old
  <2> QED BY <1>9, <2>1, <2>2
<1>15. ASSUME AcceptOther(s, d) PROVE Stays
  BY <1>2, <1>9, <1>15 DEF AcceptOther, p
<1>16. ASSUME ReceiveContent(s, d) PROVE Stays
  <2>1. /\ Receiving(s, d) /\ ForUser(p.type) /\ logPacket'[s] = Concatenated(s, d)
    BY <1>2, <1>16 DEF ReceiveContent, p
  <2>2. p.type \in LogTypes
    BY <2>1, HandledTypes DEF Receiving, p
  <2>3. ~ForSwitch(p.type)
    BY <2>1, Identifiers DEF ForSwitch, ForUser, USER_ALL, SWITCH_ALL
  <2> QED BY <1>1, <2>1, <2>2, <2>3
<1> QED
  BY <1>7, <1>8, <1>10, <1>11, <1>12, <1>13, <1>14, <1>15, <1>16
     DEF ReceiveSwitch, DropPacket, AnswerSwitchGossip, ReceiveUserGossip, KeepsMembers, Stays

LEMMA MembersKept ==
    ASSUME TypeInv, TypeInv', NEW s \in Switches, NEW n \in Nodes, TurnOf(n), KeepsMembers(s),
           AreMembersOf(familyMembers[s], Membership(logPacket[s]))
    PROVE  AreMembersOf(familyMembers'[s], Membership(logPacket'[s]))
<1> DEFINE old == Membership(logPacket[s])
           new == Membership(logPacket'[s])
<1>1. old \in Seq(Entries) /\ new \in Seq(Entries)
  BY Identifiers, ListType, ListTypeNext DEF Membership
<1>2. familyMembers'[s] = familyMembers[s] /\ (new = old \/ Len(old) = 0)
  BY DEF KeepsMembers
<1>3. new = old \/ Len(new) <= Len(old) + 1
  <2>1. CASE n # s
    BY <2>1, Identifiers DEF TurnOf
  <2>2. CASE n = s
    <3>1. CopiesStep(s, logPacket'[s]) /\ MyType \in LogTypes /\ ~IsOwn(s, MyType)
      BY <2>2, Identifiers, LogTypesAre DEF TurnOf, MyType, IsOwn, IsPublished
    <3>2. ASSUME NEW t \in LogTypes, Drops(s, logPacket'[s], t) PROVE FALSE
      BY <3>2, Identifiers DEF Drops, UserSubscriptions
    <3>3. ASSUME NEW t \in LogTypes, Takes(s, logPacket'[s], t) PROVE new = old \/ Len(new) <= Len(old) + 1
      <4>1. CASE t = MyType
        <5> DEFINE e == WrittenLog(MyType)[Len(old) + 1]
        <5>1. CopyOf(s, MyType) = old
          BY DEF CopyOf, Membership
        <5>2. new = old \/ new = Append(old, e)
          BY <3>3, <4>1, <5>1 DEF Takes, Membership
        <5> HIDE DEF new, old, e
        <5>3. Len(Append(old, e)) = Len(old) + 1 /\ Len(old) \in Nat
          BY <1>1
        <5> QED BY <5>2, <5>3
      <4>2. CASE t # MyType
        BY <3>1, <3>3, <4>2 DEF Takes, SameButOne, SameCopy, Membership
      <4> QED BY <4>1, <4>2
    <3> QED BY <3>1, <3>2, <3>3 DEF CopiesStep, SameCopies, SameCopy, Membership
  <2> QED BY <2>1, <2>2
<1>4. AreMembersOf(familyMembers[s], old)
  OBVIOUS
<1> HIDE DEF old, new
<1>5. CASE new = old
  BY <1>2, <1>4, <1>5 DEF old, new
<1>6. CASE new # old
  <2>1. Len(old) = 0 /\ Len(new) <= 1
    BY <1>1, <1>2, <1>3, <1>6
  <2>2. AreMembersOf(familyMembers[s], new)
    BY <1>1, <1>4, <2>1, OpenedMembership
  <2> QED BY <1>2, <2>2 DEF new
<1> QED
  BY <1>5, <1>6

LEMMA RegisterSwitchFollows ==
    ASSUME TypeInv, ContentsInv, NEW d, RegisterSwitch(d),
           AreMembersOf(familyMembers[ManagerId], myPersonalLog[ManagerId].log)
    PROVE  AreMembersOf(familyMembers'[ManagerId], myPersonalLog'[ManagerId].log)
<1> DEFINE author == Arrived(ManagerId, d).shell.authorId
           content == ContentShell("addMemberToNetwork", author, 0)
           l == myPersonalLog[ManagerId]
           new == appendLogShell(l, content)
<1>1. \/ UNCHANGED <<familyMembers, myPersonalLog>>
      \/ /\ familyMembers'[ManagerId] = Append(familyMembers[ManagerId], author)
         /\ myPersonalLog'[ManagerId] = new
  <2> HIDE DEF author
  <2> QED BY DEF RegisterSwitch, TypeInv, FamilyOK, PersonalOK, author
<1>2. content \in Contents /\ content.function = "addMemberToNetwork" /\ content.params = author
  <2>1. author \in Nodes
    BY ArrivedType DEF RegisterSwitch, Receiving
  <2> HIDE DEF author
  <2> QED BY <2>1, ContentShellType DEF Functions, ContentShell
<1>3. l \in Logs /\ l.log \in Seq(Entries) /\ l.log # << >>
  BY PersonalType DEF ContentsInv, PersonalFits
<1>4. Len(l.log) > 0
  BY <1>3, LogType DEF empty
<1> HIDE DEF content
<1>5. /\ new.log \in Seq(Entries) /\ Len(new.log) = Len(l.log) + 1
      /\ \A i \in 1..Len(l.log) : new.log[i] = l.log[i]
      /\ new.log[Len(l.log) + 1].shell = content
  <2> HIDE DEF l
  <2>1. /\ new \in Logs /\ Len(new.log) = Len(l.log) + 1
        /\ \A i \in 1..Len(l.log) : new.log[i] = l.log[i]
        /\ getLastEntry(new) = new.log[Len(l.log) + 1]
        /\ getLastEntry(new).shell = content
    BY <1>2, <1>3, appendLogShellType
  <2> HIDE DEF new
  <2> QED BY <2>1, LogType
<1>6. AreMembersOf(Append(familyMembers[ManagerId], author), new.log)
  <2>1. AreMembersOf(familyMembers[ManagerId], l.log)
    OBVIOUS
  <2> HIDE DEF l, new, author
  <2> QED BY <1>2, <1>3, <1>4, <1>5, <2>1, MemberAppended
<1> QED
  BY <1>1, <1>6

LEMMA NextMembers ==
    TypeInv /\ LogIntegrity /\ ContentsInv /\ MembersFollowLog /\ [Next]_vars => MembersFollowLog'
<1> DEFINE ManagerFollows ==
               AreMembersOf(familyMembers[ManagerId], myPersonalLog[ManagerId].log)
           Follows(s) == AreMembersOf(familyMembers[s], Membership(logPacket[s]))
           Same(s) == UNCHANGED <<familyMembers[s], logPacket[s]>>
<1>0. MembersFollowLog <=> ManagerFollows /\ \A s \in Switches : Follows(s)
  BY DEF MembersFollowLog, Membership
<1>1. MembersFollowLog' <=> ManagerFollows' /\ \A s \in Switches : Follows(s)'
  BY DEF MembersFollowLog, Membership
<1> SUFFICES ASSUME TypeInv, LogIntegrity, ContentsInv, [Next]_vars,
                    ManagerFollows, \A s \in Switches : Follows(s)
             PROVE  ManagerFollows' /\ \A s \in Switches : Follows(s)'
  BY <1>0, <1>1
<1>2. TypeInv'
  BY NextType
<1>3. ASSUME UNCHANGED <<familyMembers[ManagerId], myPersonalLog[ManagerId]>>
      PROVE  ManagerFollows'
  BY <1>3
<1>4. ASSUME NEW s \in Switches, Same(s) PROVE Follows(s)'
  BY <1>4
<1>5. ASSUME NEW s \in Switches, SwitchStep(s)
      PROVE  ManagerFollows' /\ \A r \in Switches : Follows(r)'
  <2>1. CASE \E d \in Peers(s) : ReceiveSwitch(s, d)
    <3>1. PICK d : ReceiveSwitch(s, d)
      BY <2>1
    <3>2. TurnOf(s)
      BY <1>2, <3>1, ReceiveSwitchLogs
    <3>3. /\ UNCHANGED myPersonalLog
          /\ \A r \in (Switches \cup {ManagerId}) \ {s} : familyMembers'[r] = familyMembers[r]
      BY <3>1 DEF ReceiveSwitch, DropPacket, ServeRequest, AnswerSwitchGossip, RejectEntry,
         AcceptMember, AcceptPlugAndPlay, AcceptRequest, AcceptUnsubscribe, AcceptOther,
         ReceiveContent, ReceiveUserGossip, Handling, TypeInv, FamilyOK
    <3>4. Follows(s)'
      <4>1. CASE AcceptMember(s, d)
        BY <4>1, AcceptMemberFollows
      <4>2. CASE KeepsMembers(s)
        BY <1>2, <3>2, <4>2, Identifiers, MembersKept
      <4> QED BY <3>1, <4>1, <4>2, ReceivingFollowsMembers
    <3>5. ASSUME NEW r \in Switches \ {s} PROVE Same(r)
      BY <3>2, <3>3, Identifiers DEF TurnOf
    <3>6. ManagerFollows'
      BY <1>3, <3>3, Identifiers
    <3> HIDE DEF Follows, ManagerFollows
    <3> QED BY <1>4, <3>4, <3>5, <3>6
  <2>2. CASE StartSwitch(s)
    <3>1. TurnOf(s)
      BY <1>2, <2>2, StartSwitchLogs
    <3>2. UNCHANGED <<familyMembers, myPersonalLog>>
      BY <2>2 DEF StartSwitch
    <3>3. Membership(logPacket'[s]) = Membership(logPacket[s])
      <4> DEFINE type == LOGTYPE(s, MANAGER_ALL)
                 log == appendLogShell(NewLog(s), ContentShell("addToNetwork", s, 0))
      <4>1. logPacket' = [logPacket EXCEPT ![s] = Insert(@, type, log)]
        BY <2>2 DEF StartSwitch
      <4>2. type # MyType
        BY Identifiers DEF MyType, LOGTYPE
      <4> HIDE DEF type, log
      <4>3. logPacket'[s] = Insert(logPacket[s], type, log)
        BY <4>1, Identifiers DEF TypeInv, ListsOK
      <4> QED BY <4>2, <4>3 DEF Insert, Membership
    <3>4. ASSUME NEW r \in Switches \ {s} PROVE Same(r)
      BY <3>1, <3>2, Identifiers DEF TurnOf
    <3>5. Follows(s)'
      BY <3>2, <3>3
    <3> HIDE DEF Follows, ManagerFollows
    <3> QED BY <1>3, <1>4, <3>2, <3>4, <3>5
  <2>3. CASE GossipRound(s)
    <3>1. UNCHANGED <<familyMembers, myPersonalLog, logPacket>>
      BY <2>3 DEF GossipRound, Gossip
    <3> QED BY <1>3, <1>4, <3>1
  <2> QED BY <1>5, <2>1, <2>2, <2>3 DEF SwitchStep
<1>6. ASSUME NEW u \in Users, UserStep(u)
      PROVE  ManagerFollows' /\ \A r \in Switches : Follows(r)'
  <2>1. TurnOf(u)
    BY <1>2, <1>6, StartUserLogs, CallSubscribeLogs, CallUnsubscribeLogs, CallPushLogs,
       ReceiveUserLogs DEF UserStep
  <2>2. UNCHANGED familyMembers
    BY <1>6 DEF UserStep, StartUsers, StartUser, CallSubscribe, Subscribe, CallUnsubscribe,
       Unsubscribe, CallPush, PushLogToSwitch, ReceiveUser, AddSwitch, UpdateContent,
       AnswerOwnGossip, IgnorePacket, MissPacket, Reading
  <2>3. /\ UNCHANGED <<familyMembers[ManagerId], myPersonalLog[ManagerId]>>
        /\ \A r \in Switches : Same(r)
    BY <2>1, <2>2, Identifiers DEF TurnOf
  <2> HIDE DEF Follows, ManagerFollows, Same
  <2> QED BY <1>3, <1>4, <2>3
<1>7. ASSUME NEW d, ReceiveManager(d)
      PROVE  ManagerFollows' /\ \A r \in Switches : Follows(r)'
  <2>1. TurnOf(ManagerId)
    BY <1>2, <1>7, ReceiveManagerLogs
  <2>2. \A r \in Switches : familyMembers'[r] = familyMembers[r]
    BY <1>7, Identifiers DEF ReceiveManager, RegisterSwitch, AnswerManagerGossip, DropUnknown,
       TypeInv, FamilyOK
  <2>3. \A r \in Switches : Same(r)
    BY <2>1, <2>2, Identifiers DEF TurnOf
  <2>4. ManagerFollows'
    <3>1. CASE RegisterSwitch(d)
      BY <3>1, RegisterSwitchFollows
    <3>2. CASE ~RegisterSwitch(d)
      BY <1>3, <1>7, <3>2 DEF ReceiveManager, AnswerManagerGossip, DropUnknown
    <3> QED BY <3>1, <3>2
  <2> HIDE DEF Follows, ManagerFollows, Same
  <2> QED BY <1>4, <2>3, <2>4
<1>8. ASSUME UNCHANGED <<familyMembers, myPersonalLog, logPacket>>
      PROVE  ManagerFollows' /\ \A r \in Switches : Follows(r)'
  BY <1>3, <1>4, <1>8
<1>9. CASE (\E l \in LossyLinks : LosePacket(l)) \/ UNCHANGED vars
  <2> HIDE DEF Follows, ManagerFollows
  <2> QED BY <1>8, <1>9 DEF LosePacket, vars, deviceVars
<1> HIDE DEF Follows, ManagerFollows
<1> QED
  BY <1>5, <1>6, <1>7, <1>9 DEF Next, ManagerStep

LEMMA InitMembers == Init => MembersFollowLog
<1> SUFFICES ASSUME Init PROVE MembersFollowLog
  OBVIOUS
<1>1. /\ \A s \in Switches : familyMembers[s] = << >> /\ logPacket[s] = << >>
      /\ familyMembers[ManagerId] = << >>
      /\ myPersonalLog[ManagerId] = appendLogShell(NewLog(ManagerId), InitialContent(None))
  BY Identifiers DEF Init, DeviceInit
<1>2. << >> \in Seq(Entries) /\ Len(<< >>) = 0 /\ DOMAIN << >> = {}
  OBVIOUS
<1>3. AreMembersOf(<< >>, << >>)
  BY <1>2, NoMembersYet
<1>4. AreMembersOf(<< >>, myPersonalLog[ManagerId].log)
  <2> DEFINE l == NewLog(ManagerId)
             content == InitialContent(None)
             new == appendLogShell(l, content)
  <2>1. l \in Logs /\ Len(l.log) = 0 /\ content \in Contents
    BY Identifiers, NewLogFits, ContentShellType DEF InitialContent, Functions
  <2>2. myPersonalLog[ManagerId] = new
    BY <1>1
  <2> HIDE DEF l, content
  <2>3. new \in Logs /\ Len(new.log) = 1
    <3>1. new \in Logs /\ Len(new.log) = Len(l.log) + 1
      BY <2>1, appendLogShellType
    <3> QED BY <2>1, <3>1
  <2> HIDE DEF new
  <2>4. new.log \in Seq(Entries) /\ Len(new.log) <= 1
    BY <2>3, LogType
  <2> DEFINE nothing == << >>
  <2>5. nothing \in Seq(Entries) /\ Len(nothing) = 0 /\ AreMembersOf(nothing, nothing)
    BY <1>2, <1>3
  <2>6. AreMembersOf(nothing, new.log)
    <3> HIDE DEF nothing
    <3> QED BY <2>4, <2>5, OpenedMembership
  <2> QED BY <2>2, <2>6
<1> QED
  BY <1>1, <1>2, <1>3, <1>4 DEF MembersFollowLog

\* Members are executed as they are concatenated: what a switch or the manager
\* takes for the members of the network is, entry for entry, what the manager's
\* log says as far as it holds it; none is executed twice, out of order, or
\* dropped after its entry was stored (recvPkt of EthSwitch, registerUser).
THEOREM MembersAreFollowed == Spec => []MembersFollowLog
  BY InitMembers, NextMembers, SpecType, LogsHaveIntegrity, SpecContents, PTL DEF Spec
=============================================================================
