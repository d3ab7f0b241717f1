-------------------------- MODULE NetworkLogProofs --------------------------
(***************************************************************************)
(* LogIntegrity is an invariant of Network, for every network and schedule *)
(* and whatever is lost: replicas are prefixes of what their writers wrote.*)
(* So the network implements ReplicatedLogs, which is shown at the end.    *)
(*                                                                         *)
(* The argument: a step of a node changes its own list of logs alone. The  *)
(* logs it writes itself grow at their end and stay numbered; every other  *)
(* log it holds stays a prefix, since the entry it may have taken was      *)
(* genuine and its number was the next one. So what is written only grows, *)
(* packets on their way stay genuine, and what the node sends is taken     *)
(* from a log it holds or writes.                                          *)
(***************************************************************************)
EXTENDS NetworkTypeProofs, NetworkRefinement

-----------------------------------------------------------------------------
(* Prefixes and numbered logs *)

LEMMA PrefixIs ==
    ASSUME NEW S, NEW s \in Seq(S), NEW t \in Seq(S)
    PROVE  IsPrefix(s, t) <=> /\ Len(s) <= Len(t)
                              /\ \A i \in 1..Len(s) : s[i] = t[i]
<1>1. /\ Len(s) \in Nat /\ Len(t) \in Nat
      /\ \A i \in 1..Len(s) : s[i] \in S
      /\ \A i \in 1..Len(t) : t[i] \in S
  BY LenProperties, ElementOfSeq
<1>2. CASE Len(s) <= Len(t)
  <2> DEFINE n == Len(s)
             a == SubSeq(s, 1, n)
             b == SubSeq(t, 1, n)
  <2>1. /\ n \in Nat
        /\ \A i \in 1..n : s[i] \in S
        /\ \A i \in 1..n : t[i] \in S
    BY <1>1, <1>2
  <2>2. IsPrefix(s, t) <=> a = b
    BY <1>2 DEF IsPrefix
  <2>3. a \in Seq(S) /\ Len(a) = n /\ \A i \in 1..n : a[i] = s[i]
    <3> HIDE DEF n
    <3> QED BY <2>1, SubSeqProperties
  <2>4. b \in Seq(S) /\ Len(b) = n /\ \A i \in 1..n : b[i] = t[i]
    <3> HIDE DEF n
    <3> QED BY <2>1, SubSeqProperties
  <2> HIDE DEF a, b
  <2>5. a = b <=> \A i \in 1..n : s[i] = t[i]
    <3>1. (\A i \in 1..n : s[i] = t[i]) => a = b
      BY <2>3, <2>4, SeqEqual
    <3> QED BY <2>3, <2>4, <3>1
  <2> QED BY <1>2, <2>2, <2>5
<1>3. CASE ~(Len(s) <= Len(t))
  BY <1>3 DEF IsPrefix
<1> QED
  BY <1>2, <1>3

LEMMA PrefixOfItself ==
    ASSUME NEW S, NEW s \in Seq(S)
    PROVE  IsPrefix(s, s)
  BY PrefixIs, LenProperties

LEMMA PrefixTransitive ==
    ASSUME NEW S, NEW s \in Seq(S), NEW t \in Seq(S), NEW u \in Seq(S),
           IsPrefix(s, t), IsPrefix(t, u)
    PROVE  IsPrefix(s, u)
<1>1. Len(s) \in Nat /\ Len(t) \in Nat /\ Len(u) \in Nat
  BY LenProperties
<1>2. /\ Len(s) <= Len(t) /\ \A i \in 1..Len(s) : s[i] = t[i]
      /\ Len(t) <= Len(u) /\ \A i \in 1..Len(t) : t[i] = u[i]
  BY PrefixIs
<1>3. Len(s) <= Len(u) /\ \A i \in 1..Len(s) : s[i] = u[i]
  BY <1>1, <1>2
<1> QED
  BY <1>3, PrefixIs

\* The current number of a numbered log is its length less one.
LEMMA NumberedLog ==
    ASSUME NEW l \in Logs, IsNumbered(l.log)
    PROVE  getCurrentSeqNum(l) = Len(l.log) - 1
<1>1. CASE empty(l)
  BY <1>1, LogType DEF getCurrentSeqNum
<1>2. CASE ~empty(l)
  <2>1. Len(l.log) \in Nat /\ Len(l.log) > 0
    BY <1>2, LogType
  <2>2. l.log[Len(l.log)].sequenceNum = Len(l.log) - 1
    BY <2>1 DEF IsNumbered
  <2> QED BY <1>2, <2>2 DEF getCurrentSeqNum, getLastEntry
<1> QED
  BY <1>1, <1>2

\* A prefix of a numbered log is numbered.
LEMMA NumberedPrefix ==
    ASSUME NEW s \in Seq(Entries), NEW t \in Seq(Entries), IsPrefix(s, t), IsNumbered(t)
    PROVE  IsNumbered(s)
<1>1. Len(s) \in Nat /\ Len(t) \in Nat
  BY LenProperties
<1>2. Len(s) <= Len(t) /\ \A i \in 1..Len(s) : s[i] = t[i]
  BY PrefixIs
<1> QED
  BY <1>1, <1>2 DEF IsNumbered

\* What its owner appends to a numbered log keeps it numbered, and extends it.
LEMMA AppendingNumbers ==
    ASSUME NEW l \in Logs, IsNumbered(l.log), NEW contents \in Seq(Contents)
    PROVE  LET new == AppendLogShells(l, contents)
           IN  /\ new \in Logs
               /\ Len(new.log) = Len(l.log) + Len(contents)
               /\ IsPrefix(l.log, new.log)
               /\ IsNumbered(new.log)
<1> DEFINE new == AppendLogShells(l, contents)
<1> HIDE DEF new
<1>1. /\ new \in Logs
      /\ Len(new.log) = Len(l.log) + Len(contents)
      /\ \A i \in 1..Len(l.log) : new.log[i] = l.log[i]
      /\ \A i \in 1..Len(contents) :
             new.log[Len(l.log) + i].sequenceNum = getCurrentSeqNum(l) + i
  BY AppendLogShellsType DEF new
<1>2. /\ Len(l.log) \in Nat /\ Len(contents) \in Nat
      /\ l.log \in Seq(Entries) /\ new.log \in Seq(Entries)
  BY <1>1, LogType, LenProperties
<1>3. getCurrentSeqNum(l) = Len(l.log) - 1
  BY NumberedLog
<1>4. IsPrefix(l.log, new.log)
  BY <1>1, <1>2, PrefixIs
<1>5. ASSUME NEW i \in 1..Len(new.log)
      PROVE  new.log[i].sequenceNum = i - 1
  <2>1. CASE i <= Len(l.log)
    <3>1. i \in 1..Len(l.log)
      BY <1>1, <1>2, <2>1
    <3>2. new.log[i] = l.log[i] /\ l.log[i].sequenceNum = i - 1
      BY <1>1, <3>1 DEF IsNumbered
    <3> QED BY <3>2
  <2>2. CASE i > Len(l.log)
    <3>1. i - Len(l.log) \in 1..Len(contents) /\ i = Len(l.log) + (i - Len(l.log))
      BY <1>1, <1>2, <2>2
    <3>2. new.log[i].sequenceNum = getCurrentSeqNum(l) + (i - Len(l.log))
      BY <1>1, <3>1
    <3> QED BY <1>2, <1>3, <3>2
  <2> QED BY <1>2, <2>1, <2>2
<1>6. IsNumbered(new.log)
  BY <1>5 DEF IsNumbered
<1> QED
  BY <1>1, <1>4, <1>6 DEF new

\* The same for one content, and for the entry that is then sent.
LEMMA AppendingNumbersOne ==
    ASSUME NEW l \in Logs, IsNumbered(l.log), NEW content \in Contents
    PROVE  LET new == appendLogShell(l, content)
           IN  /\ new \in Logs
               /\ IsPrefix(l.log, new.log)
               /\ IsNumbered(new.log)
               /\ Len(new.log) \in 1..Len(new.log)
               /\ getLastEntry(new) = new.log[Len(new.log)]
<1> DEFINE cs == <<content>>
           new == appendLogShell(l, content)
<1>1. cs \in Seq(Contents) /\ Len(cs) = 1
  OBVIOUS
<1>2. new = AppendLogShells(l, cs)
  BY DEF appendLogShell
<1> HIDE DEF cs, new
<1>3. /\ new \in Logs
      /\ Len(new.log) = Len(l.log) + 1
      /\ IsPrefix(l.log, new.log)
      /\ IsNumbered(new.log)
  BY <1>1, <1>2, AppendingNumbers
<1>4. Len(new.log) \in 1..Len(new.log)
  BY <1>3, LogType
<1> QED
  BY <1>3, <1>4 DEF new, getLastEntry

\* A log just opened.
LEMMA NewLogIsNumbered ==
    ASSUME NEW owner \in Nodes
    PROVE  /\ NewLog(owner) \in Logs
           /\ NewLog(owner).log = << >>
           /\ IsNumbered(NewLog(owner).log)
  BY NewLogType DEF NewLog, IsNumbered

-----------------------------------------------------------------------------
(* What is written, and what is held *)

\* LogIntegrity without the packets on their way.
LogsOK ==
    /\ \A t \in LogTypes : IsWritten(t) => IsNumbered(WrittenLog(t))
    /\ \A n \in Nodes : \A t \in DOMAIN logPacket[n] :
          IsWritten(t) /\ IsPrefix(logPacket[n][t].log, WrittenLog(t))
    /\ \A n \in Nodes \ started : DOMAIN logPacket[n] = {}

GenuinePackets == {p \in Packets : IsGenuine(p)}

\* What is written stays, and is only added to.
WrittenLogsGrow ==
    \A t \in LogTypes : IsWritten(t) => /\ IsWritten(t)'
                                        /\ IsPrefix(WrittenLog(t), WrittenLog(t)')

\* Node n's list of logs is the only one a step changes.
ListReplaced(n, list) ==
    logPacket'[n] = list /\ \A m \in Nodes \ {n} : logPacket'[m] = logPacket[m]

PersonalLogsGrow ==
    \A w \in Users \cup {ManagerId} :
        /\ IsPrefix(myPersonalLog[w].log, myPersonalLog'[w].log)
        /\ IsNumbered(myPersonalLog'[w].log)

\* A new list of node n: what n writes is as it was, only longer, or new ...
OwnLogsGrow(n, list) ==
    \A t \in LogTypes :
        IsOwn(n, t) =>
            /\ t \in DOMAIN logPacket[n] =>
                   t \in DOMAIN list /\ IsPrefix(logPacket[n][t].log, list[t].log)
            /\ t \in DOMAIN list => IsNumbered(list[t].log)

\* ... or just as it was ...
OwnLogsStay(n, list) ==
    \A t \in LogTypes :
        IsOwn(n, t) => /\ t \in DOMAIN list <=> t \in DOMAIN logPacket[n]
                       /\ t \in DOMAIN list => list[t] = logPacket[n][t]

\* ... and what others write is a prefix of it.
OthersArePrefixes(n, list) ==
    \A t \in DOMAIN list :
        ~IsOwn(n, t) => IsWritten(t) /\ IsPrefix(list[t].log, WrittenLog(t))

-----------------------------------------------------------------------------
(* Turns: what a step does to the logs that others write *)

\* Two lists of logs of node n hold the same of what others write.
SameCopy(n, a, b, t) ==
    /\ t \in DOMAIN a <=> t \in DOMAIN b
    /\ t \in DOMAIN a => a[t].log = b[t].log

SameCopies(n, a, b) == \A t \in LogTypes : ~IsOwn(n, t) => SameCopy(n, a, b, t)

SameButOne(n, a, b, t) == \A u \in LogTypes \ {t} : ~IsOwn(n, u) => SameCopy(n, a, b, u)

CopyOf(n, t) == IF t \in DOMAIN logPacket[n] THEN logPacket[n][t].log ELSE << >>

\* The list is one in which n has been handed an entry of t.
Takes(n, list, t) ==
    /\ ~IsOwn(n, t) /\ IsWritten(t) /\ t \in DOMAIN list
    /\ SameButOne(n, logPacket[n], list, t)
    /\ \/ list[t].log = CopyOf(n, t)
       \/ /\ Len(CopyOf(n, t)) + 1 \in 1..Len(WrittenLog(t))
          /\ list[t].log = Append(CopyOf(n, t), WrittenLog(t)[Len(CopyOf(n, t)) + 1])

\* ... or one in which user n has dropped its copy of t.
Drops(n, list, t) ==
    /\ <<n, t>> \in UserSubscriptions
    /\ ~IsOwn(n, t) /\ t \in DOMAIN logPacket[n] /\ t \notin DOMAIN list
    /\ SameButOne(n, logPacket[n], list, t)

CopiesStep(n, list) ==
    \/ SameCopies(n, logPacket[n], list)
    \/ \E t \in LogTypes : Takes(n, list, t) \/ Drops(n, list, t)

\* A step in which no node but n changes a log, and n changes one copy at most.
TurnOf(n) ==
    /\ n \in Nodes
    /\ \A m \in Nodes \ {n} : logPacket'[m] = logPacket[m]
    /\ \A w \in (Users \cup {ManagerId}) \ {n} : myPersonalLog'[w] = myPersonalLog[w]
    /\ CopiesStep(n, logPacket'[n])

LEMMA ListType ==
    ASSUME TypeInv, NEW n \in Nodes
    PROVE  /\ IsLogList(logPacket[n])
           /\ \A t \in DOMAIN logPacket[n] :
                  t \in LogTypes /\ logPacket[n][t] \in Logs /\ logPacket[n][t].log \in Seq(Entries)
<1>1. IsLogList(logPacket[n])
  BY DEF TypeInv, ListsOK
<1> QED
  BY <1>1, LogOfList, LogType

LEMMA ListTypeNext ==
    ASSUME TypeInv', NEW n \in Nodes
    PROVE  /\ IsLogList(logPacket'[n])
           /\ \A t \in DOMAIN logPacket'[n] :
                  t \in LogTypes /\ logPacket'[n][t] \in Logs /\ logPacket'[n][t].log \in Seq(Entries)
<1>1. IsLogList(logPacket'[n])
  BY DEF TypeInv, ListsOK
<1> QED
  BY <1>1, LogOfList, LogType

LEMMA PersonalType ==
    ASSUME TypeInv, NEW w \in Users \cup {ManagerId}
    PROVE  myPersonalLog[w] \in Logs /\ myPersonalLog[w].log \in Seq(Entries)
<1>1. myPersonalLog[w] \in Logs
  BY DEF TypeInv, PersonalOK
<1> QED
  BY <1>1, LogType

LEMMA PersonalTypeNext ==
    ASSUME TypeInv', NEW w \in Users \cup {ManagerId}
    PROVE  myPersonalLog'[w] \in Logs /\ myPersonalLog'[w].log \in Seq(Entries)
<1>1. myPersonalLog'[w] \in Logs
  BY DEF TypeInv, PersonalOK
<1> QED
  BY <1>1, LogType

\* Only users and the manager publish.
LEMMA LogTypeParts ==
    ASSUME NEW t \in LogTypes
    PROVE  t[1] \in Nodes /\ IsOwn(t[1], t) = ~IsPublished(t)
  BY DEF LogTypes, IsOwn

LEMMA WrittenLogType ==
    ASSUME TypeInv, NEW t \in LogTypes, IsWritten(t)
    PROVE  WrittenLog(t) \in Seq(Entries)
<1>1. CASE IsPublished(t)
  BY <1>1, PersonalType DEF IsWritten, WrittenLog, MyType, LOGTYPE
<1>2. CASE ~IsPublished(t)
  BY <1>2, LogTypeParts, ListType DEF IsWritten, WrittenLog
<1> QED
  BY <1>1, <1>2

LEMMA WrittenLogTypeNext ==
    ASSUME TypeInv', NEW t \in LogTypes, IsWritten(t)'
    PROVE  WrittenLog(t)' \in Seq(Entries)
<1>1. CASE IsPublished(t)
  <2>1. t[1] \in Users \cup {ManagerId} /\ WrittenLog(t)' = myPersonalLog'[t[1]].log
    BY <1>1 DEF IsWritten, WrittenLog, IsPublished, MyType, LOGTYPE
  <2> QED BY <2>1, PersonalTypeNext
<1>2. CASE ~IsPublished(t)
  <2>1. t \in DOMAIN logPacket'[t[1]] /\ WrittenLog(t)' = logPacket'[t[1]][t].log
    BY <1>2 DEF IsWritten, WrittenLog, IsPublished, MyType
  <2> QED BY <2>1, LogTypeParts, ListTypeNext
<1> QED
  BY <1>1, <1>2

LEMMA OwnLogsStayGrow ==
    ASSUME TypeInv, LogsOK, NEW n \in Nodes, NEW list, OwnLogsStay(n, list)
    PROVE  OwnLogsGrow(n, list)
<1> SUFFICES ASSUME NEW t \in LogTypes, IsOwn(n, t), t \in DOMAIN logPacket[n]
             PROVE  /\ t \in DOMAIN list /\ IsPrefix(logPacket[n][t].log, list[t].log)
                    /\ IsNumbered(list[t].log)
  BY DEF OwnLogsGrow, OwnLogsStay
<1>1. t \in DOMAIN list /\ list[t] = logPacket[n][t]
  BY DEF OwnLogsStay
<1>2. IsPrefix(logPacket[n][t].log, logPacket[n][t].log)
  BY ListType, PrefixOfItself
<1>3. IsWritten(t) /\ WrittenLog(t) = logPacket[n][t].log
  BY DEF IsOwn, IsWritten, WrittenLog
<1> QED
  BY <1>1, <1>2, <1>3 DEF LogsOK

LEMMA ReplacingList ==
    ASSUME TypeInv, NEW n \in Nodes, NEW list, logPacket' = [logPacket EXCEPT ![n] = list]
    PROVE  ListReplaced(n, list)
  BY DEF TypeInv, ListsOK, ListReplaced

\* A list that is not replaced.
LEMMA SameList ==
    ASSUME LogsOK, NEW n \in Nodes
    PROVE  OwnLogsStay(n, logPacket[n]) /\ OthersArePrefixes(n, logPacket[n])
  BY DEF LogsOK, OwnLogsStay, OthersArePrefixes

LEMMA PersonalNumbered ==
    ASSUME LogsOK, NEW w \in Users \cup {ManagerId}
    PROVE  IsNumbered(myPersonalLog[w].log)
<1> DEFINE t == IF w = ManagerId THEN MyType ELSE OwnLog(w)
<1>1. t \in LogTypes /\ t[1] = w /\ IsPublished(t) /\ (t = MyType \/ w \in Users)
  BY Identifiers, LogTypesAre DEF MyType, OwnLog, LOGTYPE, IsPublished
<1> HIDE DEF t
<1>2. IsWritten(t) /\ WrittenLog(t) = myPersonalLog[w].log
  BY <1>1 DEF IsWritten, WrittenLog
<1> QED
  BY <1>1, <1>2 DEF LogsOK

LEMMA PersonalLogsStay ==
    ASSUME TypeInv, LogsOK, UNCHANGED myPersonalLog
    PROVE  PersonalLogsGrow
<1> SUFFICES ASSUME NEW w \in Users \cup {ManagerId}
             PROVE  /\ IsPrefix(myPersonalLog[w].log, myPersonalLog[w].log)
                    /\ IsNumbered(myPersonalLog[w].log)
  BY DEF PersonalLogsGrow
<1> QED
  BY PersonalType, PersonalNumbered, PrefixOfItself

-----------------------------------------------------------------------------
(* A step of one node *)

\* A node that has started replaces its list of logs: what is written has only
\* grown, and all that is held is still a part of it.
LEMMA LogsStep ==
    ASSUME TypeInv, TypeInv', LogsOK, NEW n \in Nodes, NEW list, IsLogList(list),
           ListReplaced(n, list),
           OwnLogsGrow(n, list), OthersArePrefixes(n, list), PersonalLogsGrow,
           started \subseteq started', n \in started' \/ DOMAIN list = {}
    PROVE  LogsOK' /\ WrittenLogsGrow
<1>1. logPacket'[n] = list /\ \A m \in Nodes \ {n} : logPacket'[m] = logPacket[m]
  BY DEF ListReplaced
<1>2. ASSUME NEW t \in LogTypes, IsWritten(t)
      PROVE  IsWritten(t)' /\ IsPrefix(WrittenLog(t), WrittenLog(t)')
  <2>1. CASE IsPublished(t)
    <3>1. /\ t[1] \in Users \cup {ManagerId} /\ IsWritten(t)'
          /\ WrittenLog(t) = myPersonalLog[t[1]].log /\ WrittenLog(t)' = myPersonalLog'[t[1]].log
      BY <1>2, <2>1 DEF IsWritten, WrittenLog, IsPublished, MyType, LOGTYPE
    <3> QED BY <3>1 DEF PersonalLogsGrow
  <2>2. CASE ~IsPublished(t) /\ t[1] = n
    <3>1. IsOwn(n, t) /\ t \in DOMAIN logPacket[n]
      BY <1>2, <2>2 DEF IsOwn, IsWritten
    <3>2. t \in DOMAIN list /\ IsPrefix(logPacket[n][t].log, list[t].log)
      BY <3>1 DEF OwnLogsGrow
    <3>3. /\ WrittenLog(t) = logPacket[n][t].log /\ WrittenLog(t)' = list[t].log /\ IsWritten(t)'
      BY <1>1, <2>2, <3>2 DEF IsWritten, WrittenLog, IsPublished, MyType
    <3> QED BY <3>2, <3>3
  <2>3. CASE ~IsPublished(t) /\ t[1] # n
    <3>1. logPacket'[t[1]] = logPacket[t[1]]
      BY <1>1, <2>3, LogTypeParts
    <3>2. WrittenLog(t)' = WrittenLog(t) /\ IsWritten(t)'
      BY <1>2, <2>3, <3>1 DEF IsWritten, WrittenLog, IsPublished, MyType
    <3> QED BY <1>2, <3>2, WrittenLogType, PrefixOfItself
  <2> QED BY <2>1, <2>2, <2>3
<1>3. WrittenLogsGrow
  BY <1>2 DEF WrittenLogsGrow
<1>4. ASSUME NEW t \in LogTypes, IsWritten(t)'
      PROVE  IsNumbered(WrittenLog(t)')
  <2>1. CASE IsPublished(t)
    <3>1. t[1] \in Users \cup {ManagerId} /\ WrittenLog(t)' = myPersonalLog'[t[1]].log
      BY <1>4, <2>1 DEF IsWritten, WrittenLog, IsPublished, MyType, LOGTYPE
    <3> QED BY <3>1 DEF PersonalLogsGrow
  <2>2. CASE ~IsPublished(t) /\ t[1] = n
    <3>1. IsOwn(n, t) /\ t \in DOMAIN list /\ WrittenLog(t)' = list[t].log
      BY <1>1, <1>4, <2>2 DEF IsOwn, IsWritten, WrittenLog, IsPublished, MyType
    <3> QED BY <3>1 DEF OwnLogsGrow
  <2>3. CASE ~IsPublished(t) /\ t[1] # n
    <3>1. logPacket'[t[1]] = logPacket[t[1]]
      BY <1>1, <2>3, LogTypeParts
    <3>2. WrittenLog(t)' = WrittenLog(t) /\ IsWritten(t)
      BY <1>4, <2>3, <3>1 DEF IsWritten, WrittenLog, IsPublished, MyType
    <3> QED BY <3>2 DEF LogsOK
  <2> QED BY <2>1, <2>2, <2>3
\* What was a prefix before is one now.
<1>5. ASSUME NEW t \in LogTypes, NEW log \in Seq(Entries), IsWritten(t), IsPrefix(log, WrittenLog(t))
      PROVE  IsWritten(t)' /\ IsPrefix(log, WrittenLog(t)')
  <2>1. IsWritten(t)' /\ IsPrefix(WrittenLog(t), WrittenLog(t)')
    BY <1>2, <1>5
  <2>2. WrittenLog(t) \in Seq(Entries) /\ WrittenLog(t)' \in Seq(Entries)
    BY <1>5, <2>1, WrittenLogType, WrittenLogTypeNext
  <2> QED BY <1>5, <2>1, <2>2, PrefixTransitive
<1>6. ASSUME NEW m \in Nodes, NEW t \in DOMAIN logPacket'[m]
      PROVE  IsWritten(t)' /\ IsPrefix(logPacket'[m][t].log, WrittenLog(t)')
  <2>1. t \in LogTypes /\ logPacket'[m][t].log \in Seq(Entries)
    BY ListTypeNext
  <2>2. CASE m # n
    <3>1. t \in DOMAIN logPacket[m] /\ logPacket'[m] = logPacket[m]
      BY <1>1, <2>2
    <3>2. IsWritten(t) /\ IsPrefix(logPacket'[m][t].log, WrittenLog(t))
      BY <3>1 DEF LogsOK
    <3> QED BY <1>5, <2>1, <3>2
  <2>3. CASE m = n /\ ~IsOwn(n, t)
    <3>1. IsWritten(t) /\ IsPrefix(logPacket'[m][t].log, WrittenLog(t))
      BY <1>1, <2>3 DEF OthersArePrefixes
    <3> QED BY <1>5, <2>1, <3>1
  <2>4. CASE m = n /\ IsOwn(n, t)
    <3>1. IsWritten(t)' /\ WrittenLog(t)' = logPacket'[m][t].log
      BY <2>4 DEF IsOwn, IsWritten, WrittenLog, IsPublished, MyType
    <3> QED BY <2>1, <3>1, PrefixOfItself
  <2> QED BY <2>2, <2>3, <2>4
<1>7. ASSUME NEW m \in Nodes \ started'
      PROVE  DOMAIN logPacket'[m] = {}
  BY <1>1 DEF LogsOK
<1>8. LogsOK'
  <2>1. \A t \in LogTypes : IsWritten(t)' => IsNumbered(WrittenLog(t)')
    BY <1>4
  <2>2. \A t \in LogTypes : IsNumbered(WrittenLog(t)') <=> IsNumbered(WrittenLog(t))'
    BY DEF IsNumbered
  <2>3. \A m \in Nodes : \A t \in DOMAIN logPacket'[m] :
            IsWritten(t)' /\ IsPrefix(logPacket'[m][t].log, WrittenLog(t)')
    BY <1>6
  <2> QED BY <1>7, <2>1, <2>2, <2>3 DEF LogsOK
<1> QED
  BY <1>3, <1>8

\* A step that touches no list of logs.
LEMMA LogsUntouched ==
    ASSUME TypeInv, TypeInv', LogsOK, UNCHANGED logPacket, PersonalLogsGrow,
           started \subseteq started'
    PROVE  LogsOK' /\ WrittenLogsGrow
<1> DEFINE list == logPacket[ManagerId]
<1>1. ManagerId \in Nodes /\ IsLogList(list) /\ ListReplaced(ManagerId, list)
  BY Identifiers, ListType DEF ListReplaced
<1>2. OwnLogsGrow(ManagerId, list) /\ OthersArePrefixes(ManagerId, list)
  BY <1>1, SameList, OwnLogsStayGrow
<1>3. ManagerId \in started' \/ DOMAIN list = {}
  BY <1>1 DEF LogsOK
<1> HIDE DEF list
<1> QED
  BY <1>1, <1>2, <1>3, LogsStep

-----------------------------------------------------------------------------
(* Genuine packets *)

LEMMA GenuineParts ==
    ASSUME NEW p \in GenuinePackets
    PROVE  /\ p \in Packets
           /\ p.type # GossipAnswerType =>
                  /\ p.type \in LogTypes /\ IsWritten(p.type)
                  /\ \/ IsSubscription(p.type) /\ p.flag = 1 /\ p.shell = ShownOfEmptyLog
                     \/ /\ p.shell.sequenceNum + 1 \in 1..Len(WrittenLog(p.type))
                        /\ p.shell = WrittenLog(p.type)[p.shell.sequenceNum + 1]
  BY DEF GenuinePackets, IsGenuine, Packets

LEMMA ShownIsFirst == ShownOfEmptyLog.sequenceNum = -1
  BY DEF ShownOfEmptyLog, LogShell

LEMMA IntegrityParts ==
    TypeInv => (LogIntegrity <=> LogsOK /\ Carry(channel, GenuinePackets))
<1> SUFFICES ASSUME TypeInv
             PROVE  LogIntegrity <=> LogsOK /\ Carry(channel, GenuinePackets)
  OBVIOUS
<1> DEFINE Genuine == \A l \in Links : \A i \in 1..Len(channel[l]) : IsGenuine(channel[l][i])
<1>1. Carry(channel, Packets)
  BY ChannelIsCarried
<1>2. ASSUME Genuine
      PROVE  Carry(channel, GenuinePackets)
  <2>1. ASSUME NEW l \in Links
        PROVE  channel[l] \in Seq(GenuinePackets)
    <3> DEFINE n == Len(channel[l])
    <3>1. n \in Nat /\ channel[l] \in [1..n -> Packets]
      BY <1>1, LenProperties DEF Carry
    <3>2. \A i \in 1..n : IsGenuine(channel[l][i])
      BY <1>2
    <3> HIDE DEF n
    <3>3. channel[l] \in [1..n -> GenuinePackets]
      BY <3>1, <3>2 DEF GenuinePackets
    <3> QED BY <3>1, <3>3, FunctionIsSeq
  <2> QED BY <1>1, <2>1 DEF Carry
<1>3. ASSUME Carry(channel, GenuinePackets)
      PROVE  Genuine
  <2> SUFFICES ASSUME NEW l \in Links, NEW i \in 1..Len(channel[l])
               PROVE  IsGenuine(channel[l][i])
    OBVIOUS
  <2>1. channel[l] \in Seq(GenuinePackets)
    BY <1>3 DEF Carry
  <2>2. channel[l][i] \in GenuinePackets
    BY <2>1, ElementOfSeq
  <2> QED BY <2>2 DEF GenuinePackets
<1> QED
  BY <1>2, <1>3 DEF LogIntegrity, LogsOK

LEMMA IntegrityPartsNext ==
    ASSUME TypeInv', LogsOK', Carry(channel', GenuinePackets')
    PROVE  LogIntegrity'
<1>1. ASSUME NEW l \in Links, NEW i \in 1..Len(channel'[l])
      PROVE  IsGenuine(channel[l][i])'
  <2>1. channel'[l] \in Seq(GenuinePackets')
    BY DEF Carry
  <2>2. channel'[l][i] \in GenuinePackets'
    BY <2>1, ElementOfSeq
  <2> QED BY <2>2 DEF GenuinePackets, IsGenuine
<1> QED
  BY <1>1 DEF LogIntegrity, LogsOK

\* What is written only grows, so packets on their way stay genuine.
LEMMA GenuineStays ==
    ASSUME TypeInv, TypeInv', WrittenLogsGrow
    PROVE  GenuinePackets \subseteq GenuinePackets'
<1> SUFFICES ASSUME NEW p \in GenuinePackets
             PROVE  p \in GenuinePackets'
  OBVIOUS
<1>1. CASE p.type = GossipAnswerType
  BY <1>1, GenuineParts DEF GenuinePackets, IsGenuine
<1>2. CASE p.type # GossipAnswerType
  <2> DEFINE t == p.type
             k == p.shell.sequenceNum + 1
  <2>1. p \in Packets /\ t \in LogTypes /\ IsWritten(t)
    BY <1>2, GenuineParts
  <2>2. IsWritten(t)' /\ IsPrefix(WrittenLog(t), WrittenLog(t)')
    BY <2>1 DEF WrittenLogsGrow
  <2> DEFINE w == WrittenLog(t)
             v == WrittenLog(t)'
  <2>3. w \in Seq(Entries) /\ v \in Seq(Entries) /\ Len(w) \in Nat /\ Len(v) \in Nat
    BY <2>1, <2>2, WrittenLogType, WrittenLogTypeNext, LenProperties
  <2>4. Len(w) <= Len(v) /\ \A i \in 1..Len(w) : w[i] = v[i]
    BY <2>2, <2>3, PrefixIs
  <2> DEFINE first == IsSubscription(t) /\ p.flag = 1 /\ p.shell = ShownOfEmptyLog
  <2>5. first \/ (k \in 1..Len(w) /\ p.shell = w[k])
    BY <1>2, GenuineParts
  <2>6. first \/ (k \in 1..Len(v) /\ p.shell = v[k])
    <3> HIDE DEF first
    <3> HIDE DEF k, w, v
    <3> QED BY <2>3, <2>4, <2>5
  <2> QED BY <2>1, <2>2, <2>6 DEF GenuinePackets, IsGenuine
<1> QED
  BY <1>1, <1>2

\* The entries of a log that is a prefix of what is written go out as genuine
\* packets.
LEMMA PrefixIsGenuine ==
    ASSUME TypeInv', LogsOK', NEW t \in LogTypes, IsWritten(t)',
           NEW log \in Seq(Entries), IsPrefix(log, WrittenLog(t)'),
           NEW i \in 1..Len(log), NEW f \in {0, 1}
    PROVE  NetShell(t, f, log[i]) \in GenuinePackets'
<1> DEFINE w == WrittenLog(t)'
           p == NetShell(t, f, log[i])
<1>1. w \in Seq(Entries) /\ Len(w) \in Nat /\ Len(log) \in Nat /\ log[i] \in Entries
  BY WrittenLogTypeNext, LenProperties, ElementOfSeq
<1>2. Len(log) <= Len(w) /\ log[i] = w[i]
  BY <1>1, PrefixIs
<1>3. IsNumbered(w)
  <2>1. IsNumbered(WrittenLog(t))'
    BY DEF LogsOK
  <2> QED BY <2>1 DEF IsNumbered
<1>4. i \in 1..Len(w) /\ w[i].sequenceNum = i - 1
  BY <1>1, <1>2, <1>3 DEF IsNumbered
<1>5. p \in Packets /\ p.type = t /\ p.shell = log[i]
  BY <1>1, NetShellType DEF NetShell
<1>6. p.shell.sequenceNum + 1 = i
  BY <1>2, <1>4, <1>5
<1> HIDE DEF p
<1>7. p.shell.sequenceNum + 1 \in 1..Len(w) /\ p.shell = w[p.shell.sequenceNum + 1]
  BY <1>2, <1>4, <1>5, <1>6
<1>8. IsGenuine(p)'
  BY <1>5, <1>7 DEF IsGenuine
<1>9. p \in GenuinePackets'
  BY <1>5, <1>8 DEF GenuinePackets
<1> QED
  BY <1>9 DEF p

\* A log held after the step, sent as it is.
LEMMA HeldIsGenuine ==
    ASSUME TypeInv', LogsOK', NEW n \in Nodes, NEW t \in DOMAIN logPacket'[n],
           NEW f \in {0, 1}
    PROVE  /\ logPacket'[n][t] \in Logs /\ logPacket'[n][t].log \in Seq(Entries)
           /\ \A i \in 1..Len(logPacket'[n][t].log) :
                  NetShell(t, f, logPacket'[n][t].log[i]) \in GenuinePackets'
<1>1. t \in LogTypes /\ logPacket'[n][t] \in Logs /\ logPacket'[n][t].log \in Seq(Entries)
  BY ListTypeNext
<1>2. IsWritten(t)' /\ IsPrefix(logPacket'[n][t].log, WrittenLog(t)')
  <2>1. IsWritten(t)' /\ IsPrefix(logPacket[n][t].log, WrittenLog(t))'
    BY DEF LogsOK
  <2> QED BY <2>1 DEF IsPrefix
<1> QED
  BY <1>1, <1>2, PrefixIsGenuine

\* A published log, sent by its author.
LEMMA PublishedIsGenuine ==
    ASSUME TypeInv', LogsOK', NEW w \in Users \cup {ManagerId}, NEW t \in LogTypes,
           t[1] = w, IsPublished(t), t = MyType \/ w \in Users, NEW f \in {0, 1}
    PROVE  \A i \in 1..Len(myPersonalLog'[w].log) :
               NetShell(t, f, myPersonalLog'[w].log[i]) \in GenuinePackets'
<1>1. IsWritten(t)' /\ WrittenLog(t)' = myPersonalLog'[w].log
  BY DEF IsWritten, WrittenLog, IsPublished, MyType
<1>2. myPersonalLog'[w].log \in Seq(Entries)
  BY PersonalTypeNext
<1>3. IsPrefix(myPersonalLog'[w].log, WrittenLog(t)')
  BY <1>1, <1>2, PrefixOfItself
<1> QED
  BY <1>1, <1>2, <1>3, PrefixIsGenuine

-----------------------------------------------------------------------------
(* Receiving an entry, and sending *)

\* A replica takes a genuine entry at its place or not at all, and the
\* writer's own log never does: the place is taken.
LEMMA addToLogKeepsPrefix ==
    ASSUME NEW l \in Logs, NEW w \in Seq(Entries), IsNumbered(w), IsPrefix(l.log, w),
           NEW e \in Entries,
           \/ e.sequenceNum = -1
           \/ e.sequenceNum + 1 \in 1..Len(w) /\ e = w[e.sequenceNum + 1]
    PROVE  /\ IsPrefix(addToLog(l, e).log, w)
           /\ l.log = w => addToLog(l, e) = l
           /\ \/ addToLog(l, e).log = l.log
              \/ /\ Len(l.log) + 1 \in 1..Len(w)
                 /\ addToLog(l, e).log = Append(l.log, w[Len(l.log) + 1])
<1>1. l.log \in Seq(Entries) /\ Len(l.log) \in Nat /\ Len(w) \in Nat /\ e.sequenceNum \in Int
  BY LogType, LenProperties, EntryType
<1>2. Len(l.log) <= Len(w) /\ \A i \in 1..Len(l.log) : l.log[i] = w[i]
  BY <1>1, PrefixIs
<1>3. getCurrentSeqNum(l) = Len(l.log) - 1
  BY <1>1, NumberedPrefix, NumberedLog
<1>4. CASE ~isSubsequentEntry(l, e)
  BY <1>4 DEF addToLog
<1>5. CASE isSubsequentEntry(l, e)
  <2>1. e.sequenceNum = Len(l.log)
    <3>1. empty(l) => Len(l.log) = 0
      BY LogType
    <3> QED BY <1>1, <1>3, <1>5, <3>1 DEF isSubsequentEntry
  <2>2. Len(l.log) + 1 \in 1..Len(w) /\ e = w[Len(l.log) + 1]
    BY <1>1, <2>1
  <2>3. addToLog(l, e).log = Append(l.log, e)
    BY <1>5 DEF addToLog, Logs
  <2> DEFINE s == Append(l.log, e)
  <2>4. /\ s \in Seq(Entries) /\ Len(s) = Len(l.log) + 1
        /\ \A i \in 1..Len(l.log) : s[i] = l.log[i]
        /\ s[Len(l.log) + 1] = e
    BY <1>1, AppendProperties
  <2> HIDE DEF s
  <2>5. ASSUME NEW i \in 1..Len(s)
        PROVE  s[i] = w[i]
    <3>1. i \in 1..Len(l.log) \/ i = Len(l.log) + 1
      BY <1>1, <2>4
    <3> QED BY <1>2, <2>2, <2>4, <3>1
  <2>6. IsPrefix(s, w)
    BY <1>1, <2>2, <2>4, <2>5, PrefixIs
  <2>7. l.log # w
    BY <1>1, <2>2
  <2> QED BY <2>2, <2>3, <2>6, <2>7 DEF s
<1> QED
  BY <1>4, <1>5

LEMMA AnswersHaveNoLog == GossipAnswerType \notin LogTypes
  BY Identifiers DEF GossipAnswerType, LOGTYPE, LogTypes, USER_ALL, SWITCH_ALL, MANAGER_ALL

\* concatenateEntry with a packet that has arrived.
LEMMA ConcatenationKeeps ==
    ASSUME TypeInv, LogsOK, NEW n \in Nodes, NEW p \in GenuinePackets, p.type \in LogTypes
    PROVE  LET new == concatenateEntry(logPacket[n], p.type, p.shell)
           IN  /\ IsLogList(new) /\ OwnLogsStay(n, new) /\ OthersArePrefixes(n, new)
               /\ CopiesStep(n, new)
<1> DEFINE list == logPacket[n]
           type == p.type
           e == p.shell
           w == WrittenLog(type)
           old == IF type \in DOMAIN list THEN list[type] ELSE NewLog(e.authorId)
           new == concatenateEntry(list, type, e)
<1>1. /\ type \in LogTypes /\ IsWritten(type) /\ e \in Entries
      /\ \/ e.sequenceNum = -1
         \/ e.sequenceNum + 1 \in 1..Len(w) /\ e = w[e.sequenceNum + 1]
  BY GenuineParts, ShownIsFirst, PacketType, AnswersHaveNoLog
<1>2. IsLogList(list)
  BY ListType
<1>3. w \in Seq(Entries) /\ IsNumbered(w)
  BY <1>1, WrittenLogType DEF LogsOK
<1>4. OwnLogsStay(n, list) /\ OthersArePrefixes(n, list)
  BY SameList
<1>5. IsPrefix(old.log, w)
  <2>1. CASE type \in DOMAIN list
    BY <2>1 DEF LogsOK
  <2>2. CASE type \notin DOMAIN list
    <3> DEFINE s == old.log
    <3>1. s \in Seq(Entries) /\ Len(s) = 0
      BY <2>2 DEF NewLog
    <3>2. Len(w) \in Nat
      BY <1>3, LenProperties
    <3> HIDE DEF s, w
    <3>3. Len(s) <= Len(w) /\ \A i \in 1..Len(s) : s[i] = w[i]
      BY <3>1, <3>2
    <3>4. IsPrefix(s, w)
      BY <1>3, <3>1, <3>3, PrefixIs
    <3> QED BY <3>4 DEF s
  <2> QED BY <2>1, <2>2
<1>6. IsOwn(n, type) => type \in DOMAIN list /\ old.log = w
  BY <1>1 DEF IsOwn, IsWritten, WrittenLog
<1> HIDE DEF w
<1>7. /\ IsLogList(new)
      /\ DOMAIN new = DOMAIN list \cup {type}
      /\ \A t \in DOMAIN list \ {type} : new[t] = list[t]
      /\ new[type] = addToLog(old, e)
      /\ old \in Logs
  <2> HIDE DEF list, type, e
  <2> QED BY <1>1, <1>2, concatenateEntryType
<1> HIDE DEF old, new, e
<1>8. /\ IsPrefix(new[type].log, w) /\ (IsOwn(n, type) => new[type] = old)
      /\ \/ new[type].log = old.log
         \/ /\ Len(old.log) + 1 \in 1..Len(w)
            /\ new[type].log = Append(old.log, w[Len(old.log) + 1])
  BY <1>1, <1>3, <1>5, <1>6, <1>7, addToLogKeepsPrefix
<1>9. OwnLogsStay(n, new)
  <2> SUFFICES ASSUME NEW t \in LogTypes, IsOwn(n, t)
               PROVE  /\ t \in DOMAIN new <=> t \in DOMAIN list
                      /\ t \in DOMAIN new => new[t] = list[t]
    BY DEF OwnLogsStay
  <2>1. CASE t = type
    BY <1>6, <1>7, <1>8, <2>1 DEF old
  <2>2. CASE t # type
    BY <1>7, <2>2
  <2> QED BY <2>1, <2>2
<1>10. OthersArePrefixes(n, new)
  <2> SUFFICES ASSUME NEW t \in DOMAIN new, ~IsOwn(n, t)
               PROVE  IsWritten(t) /\ IsPrefix(new[t].log, WrittenLog(t))
    BY DEF OthersArePrefixes
  <2>1. CASE t = type
    BY <1>1, <1>8, <2>1 DEF w
  <2>2. CASE t # type
    BY <1>4, <1>7, <2>2 DEF OthersArePrefixes
  <2> QED BY <2>1, <2>2
<1>11. CopiesStep(n, new)
  <2>1. SameButOne(n, list, new, type)
    BY <1>7 DEF SameButOne, SameCopy
  <2>2. CASE IsOwn(n, type)
    <3>1. SameCopies(n, list, new)
      BY <2>1, <2>2 DEF SameButOne, SameCopies
    <3> QED BY <3>1 DEF CopiesStep
  <2>3. CASE ~IsOwn(n, type)
    <3>1. old.log = CopyOf(n, type)
      BY DEF old, CopyOf, NewLog
    <3>2. /\ type \in DOMAIN new /\ w = WrittenLog(type)
          /\ \/ new[type].log = CopyOf(n, type)
             \/ /\ Len(CopyOf(n, type)) + 1 \in 1..Len(w)
                /\ new[type].log = Append(CopyOf(n, type), w[Len(CopyOf(n, type)) + 1])
      BY <1>7, <1>8, <3>1 DEF w
    <3> HIDE DEF list, type
    <3>3. Takes(n, new, type)
      BY <1>1, <2>1, <2>3, <3>2 DEF Takes, list
    <3> QED BY <1>1, <3>3 DEF CopiesStep
  <2> QED BY <2>2, <2>3
<1> QED
  BY <1>7, <1>9, <1>10, <1>11 DEF new, e

\* A list that differs from a turn's in the logs the node writes is a turn's.
LEMMA CopiesStepThen ==
    ASSUME NEW n, NEW logs, NEW list, CopiesStep(n, logs), SameCopies(n, logs, list)
    PROVE  CopiesStep(n, list)
<1>1. ASSUME NEW t \in LogTypes, ~IsOwn(n, t)
      PROVE  /\ t \in DOMAIN logs <=> t \in DOMAIN list
             /\ t \in DOMAIN logs => logs[t].log = list[t].log
  BY <1>1 DEF SameCopies, SameCopy
<1>2. CASE SameCopies(n, logPacket[n], logs)
  <2>1. SameCopies(n, logPacket[n], list)
    BY <1>1, <1>2 DEF SameCopies, SameCopy
  <2> QED BY <2>1 DEF CopiesStep
<1>3. ASSUME NEW t \in LogTypes, SameButOne(n, logPacket[n], logs, t)
      PROVE  SameButOne(n, logPacket[n], list, t)
  BY <1>1, <1>3 DEF SameButOne, SameCopy
<1>4. ASSUME NEW t \in LogTypes, Takes(n, logs, t)
      PROVE  CopiesStep(n, list)
  <2>1. ~IsOwn(n, t) /\ t \in DOMAIN logs /\ SameButOne(n, logPacket[n], logs, t)
    BY <1>4 DEF Takes
  <2>2. t \in DOMAIN list /\ list[t].log = logs[t].log
    BY <1>1, <2>1
  <2>3. Takes(n, list, t)
    BY <1>3, <1>4, <2>1, <2>2 DEF Takes
  <2> QED BY <2>3 DEF CopiesStep
<1>5. ASSUME NEW t \in LogTypes, Drops(n, logs, t)
      PROVE  CopiesStep(n, list)
  <2>1. Drops(n, list, t)
    BY <1>1, <1>3, <1>5 DEF Drops
  <2> QED BY <2>1 DEF CopiesStep
<1> QED
  BY <1>2, <1>4, <1>5 DEF CopiesStep

\* A node's list before a turn is one it may have after.
LEMMA CopiesStay ==
    ASSUME NEW n
    PROVE  SameCopies(n, logPacket[n], logPacket[n]) /\ CopiesStep(n, logPacket[n])
  BY DEF SameCopies, SameCopy, CopiesStep

LEMMA ListTurn ==
    ASSUME NEW n \in Nodes, NEW list, ListReplaced(n, list), CopiesStep(n, list),
           \A w \in (Users \cup {ManagerId}) \ {n} : myPersonalLog'[w] = myPersonalLog[w]
    PROVE  TurnOf(n)
  BY DEF ListReplaced, TurnOf

\* A step that leaves every list alone is a turn of whoever publishes in it.
LEMMA NoListTurn ==
    ASSUME NEW n \in Nodes, UNCHANGED logPacket,
           \A w \in (Users \cup {ManagerId}) \ {n} : myPersonalLog'[w] = myPersonalLog[w]
    PROVE  TurnOf(n)
<1>1. \A m \in Nodes : logPacket'[m] = logPacket[m]
  OBVIOUS
<1>2. CopiesStep(n, logPacket'[n])
  BY CopiesStay
<1> QED
  BY <1>1, <1>2 DEF TurnOf

\* A packet that arrives is genuine, and so are the ones left behind.
LEMMA ArrivedIsGenuine ==
    ASSUME TypeInv, LogIntegrity, NEW n, NEW d, Arriving(n, d)
    PROVE  LogsOK /\ Arrived(n, d) \in GenuinePackets /\ Carry(Taking(n, d), GenuinePackets)
<1>1. LogsOK /\ Carry(channel, GenuinePackets)
  BY IntegrityParts
<1> QED
  BY <1>1, ArrivedCarries

LEMMA CarryMore ==
    ASSUME NEW links, NEW S, NEW T, S \subseteq T, Carry(links, S)
    PROVE  Carry(links, T)
<1>1. ASSUME NEW l \in Links
      PROVE  links[l] \in Seq(T)
  <2> DEFINE n == Len(links[l])
  <2>1. n \in Nat /\ links[l] \in [1..n -> S]
    BY LenProperties DEF Carry
  <2> HIDE DEF n
  <2>2. links[l] \in [1..n -> T]
    BY <2>1
  <2> QED BY <2>1, <2>2, FunctionIsSeq
<1> QED
  BY <1>1 DEF Carry

\* The end of every step: logs are in order, and what is sent is genuine.
LEMMA SentIsGenuine ==
    ASSUME TypeInv, TypeInv', LogsOK', WrittenLogsGrow,
           NEW links, Carry(links, GenuinePackets), NEW n,
           NEW out \in [Nodes -> Seq(GenuinePackets')],
           channel' = Sending(links, n, out)
    PROVE  LogIntegrity'
<1>1. Carry(links, GenuinePackets')
  BY GenuineStays, CarryMore
<1>2. Carry(channel', GenuinePackets')
  BY <1>1, SendingCarries
<1> QED
  BY <1>2, IntegrityPartsNext

LEMMA NothingIsSent ==
    ASSUME TypeInv, TypeInv', LogsOK', WrittenLogsGrow, Carry(channel', GenuinePackets)
    PROVE  LogIntegrity'
<1>1. Carry(channel', GenuinePackets')
  BY GenuineStays, CarryMore
<1> QED
  BY <1>1, IntegrityPartsNext

\* Entries of a log held after the step, in as many packets.
LEMMA HeldIsSent ==
    ASSUME TypeInv', LogsOK', NEW n \in Nodes, NEW t \in DOMAIN logPacket'[n],
           NEW l, l = logPacket'[n][t], NEW from \in Int, NEW map, NEW receiver
    PROVE  /\ EntriesFrom(l, from, t) \in Seq(GenuinePackets')
           /\ sendEntryFromIndexTo(l, map, receiver, from, t)
                  \in [Nodes -> Seq(GenuinePackets')]
<1>1. /\ l.log \in Seq(Entries)
      /\ \A i \in 1..Len(l.log) : NetShell(t, 0, l.log[i]) \in GenuinePackets'
  BY HeldIsGenuine
<1> QED
  BY <1>1, EntriesFromCarries, SendEntryCarries

\* The last entry of a log held after the step, with any flag.
LEMMA HeldLastIsSent ==
    ASSUME TypeInv', LogsOK', NEW n \in Nodes, NEW t \in DOMAIN logPacket'[n],
           NEW l, l = logPacket'[n][t], ~empty(l), NEW f \in {0, 1}
    PROVE  NetShell(t, f, getLastEntry(l)) \in GenuinePackets'
<1>1. /\ l \in Logs
      /\ \A i \in 1..Len(l.log) : NetShell(t, f, l.log[i]) \in GenuinePackets'
  BY HeldIsGenuine
<1>2. Len(l.log) \in 1..Len(l.log)
  BY <1>1, LogType
<1> QED
  BY <1>1, <1>2 DEF getLastEntry

-----------------------------------------------------------------------------
(* The actions of a switch *)

LEMMA HandledLogs ==
    ASSUME TypeInv, TypeInv', LogIntegrity, NEW s \in Switches, NEW d, Receiving(s, d),
           NEW out, Handling(s, d, out), NEW list, IsLogList(list),
           logPacket' = [logPacket EXCEPT ![s] = list],
           OwnLogsGrow(s, list), OthersArePrefixes(s, list), CopiesStep(s, list)
    PROVE  LogsOK' /\ WrittenLogsGrow /\ TurnOf(s)
<1>1. s \in Nodes /\ s \in started /\ LogsOK
  BY Identifiers, IntegrityParts DEF Receiving
<1>2. UNCHANGED <<myPersonalLog, started>>
  BY DEF Handling
<1>3. ListReplaced(s, list)
  BY <1>1, ReplacingList
<1>4. TurnOf(s)
  BY <1>1, <1>2, <1>3, ListTurn
<1> QED
  BY <1>1, <1>2, <1>3, <1>4, LogsStep, PersonalLogsStay

LEMMA HandledNoLogs ==
    ASSUME TypeInv, TypeInv', LogIntegrity, NEW s \in Switches, NEW d,
           NEW out, Handling(s, d, out), UNCHANGED logPacket
    PROVE  LogsOK' /\ WrittenLogsGrow /\ TurnOf(s)
<1>1. LogsOK
  BY IntegrityParts
<1>2. UNCHANGED <<myPersonalLog, started>>
  BY DEF Handling
<1>3. TurnOf(s)
  BY <1>2, Identifiers, NoListTurn
<1> QED
  BY <1>1, <1>2, <1>3, LogsUntouched, PersonalLogsStay

LEMMA HandledPackets ==
    ASSUME TypeInv, TypeInv', LogIntegrity, NEW s \in Switches, NEW d, Receiving(s, d),
           LogsOK', WrittenLogsGrow,
           NEW out \in [Nodes -> Seq(GenuinePackets')], Handling(s, d, out)
    PROVE  LogIntegrity'
<1>1. Carry(Taking(s, d), GenuinePackets)
  BY ArrivedIsGenuine DEF Receiving
<1>2. channel' = Sending(Taking(s, d), s, out)
  BY DEF Handling
<1> QED
  BY <1>1, <1>2, SentIsGenuine

LEMMA SwitchConcatenates ==
    ASSUME TypeInv, LogIntegrity, NEW s \in Switches, NEW d, Receiving(s, d),
           Arrived(s, d).type \in LogTypes
    PROVE  /\ LogsOK /\ s \in Nodes
           /\ IsLogList(Concatenated(s, d))
           /\ OwnLogsStay(s, Concatenated(s, d))
           /\ OwnLogsGrow(s, Concatenated(s, d))
           /\ OthersArePrefixes(s, Concatenated(s, d))
           /\ CopiesStep(s, Concatenated(s, d))
<1> DEFINE p == Arrived(s, d)
           new == concatenateEntry(logPacket[s], p.type, p.shell)
<1>1. s \in Nodes /\ LogsOK /\ p \in GenuinePackets /\ p.type \in LogTypes
  BY Identifiers, ArrivedIsGenuine DEF Receiving
<1>2. Concatenated(s, d) = new
  BY DEF Concatenated
<1> HIDE DEF p
<1>3. /\ IsLogList(new) /\ OwnLogsStay(s, new) /\ OthersArePrefixes(s, new)
      /\ CopiesStep(s, new)
  BY <1>1, ConcatenationKeeps
<1> HIDE DEF new
<1>4. OwnLogsGrow(s, new)
  BY <1>1, <1>3, OwnLogsStayGrow
<1> QED
  BY <1>1, <1>2, <1>3, <1>4

LEMMA DropPacketLogs ==
    ASSUME TypeInv, TypeInv', LogIntegrity, NEW s \in Switches, NEW d, DropPacket(s, d)
    PROVE  LogIntegrity' /\ WrittenLogsGrow /\ TurnOf(s)
<1>1. Receiving(s, d) /\ Handling(s, d, Nothing) /\ UNCHANGED logPacket
  BY DEF DropPacket
<1>2. LogsOK' /\ WrittenLogsGrow /\ TurnOf(s)
  BY <1>1, HandledNoLogs
<1> QED
  BY <1>1, <1>2, HandledPackets, NothingCarries

LEMMA ServeRequestLogs ==
    ASSUME TypeInv, TypeInv', LogIntegrity, NEW s \in Switches, NEW d, ServeRequest(s, d)
    PROVE  LogIntegrity' /\ WrittenLogsGrow /\ TurnOf(s)
<1> DEFINE logs == Concatenated(s, d)
           content == ContentOf(Arrived(s, d).shell.shell.params)
           requester == getKeyByValue(Known(s, d), d)
           out == IF exists(logs, content)
                  THEN sendEntryFromIndexTo(logs[content], Known(s, d), requester, 0, content)
                  ELSE Nothing
<1>1. /\ Receiving(s, d) /\ ForSwitch(Arrived(s, d).type)
      /\ logPacket' = [logPacket EXCEPT ![s] = logs]
      /\ Handling(s, d, out)
  BY DEF ServeRequest
<1>2. Arrived(s, d).type \in LogTypes
  BY <1>1, HandledTypes DEF Receiving
<1>3. /\ s \in Nodes /\ IsLogList(logs) /\ OwnLogsGrow(s, logs) /\ OthersArePrefixes(s, logs)
      /\ CopiesStep(s, logs)
  BY <1>1, <1>2, SwitchConcatenates
<1> HIDE DEF logs, content, requester
<1>4. LogsOK' /\ WrittenLogsGrow /\ TurnOf(s)
  <2> HIDE DEF out
  <2> QED BY <1>1, <1>3, HandledLogs
<1>5. logPacket'[s] = logs
  BY <1>1, <1>3, ReplacingList DEF ListReplaced
<1>6. out \in [Nodes -> Seq(GenuinePackets')]
  <2>1. CASE exists(logs, content)
    <3>1. content \in DOMAIN logPacket'[s] /\ logs[content] = logPacket'[s][content]
      BY <1>5, <2>1 DEF exists
    <3> DEFINE log == logs[content]
               from == 0
    <3>2. s \in Nodes /\ log = logPacket'[s][content] /\ from \in Int
      BY <1>3, <3>1
    <3> HIDE DEF log, from
    <3>3. sendEntryFromIndexTo(log, Known(s, d), requester, from, content)
              \in [Nodes -> Seq(GenuinePackets')]
      BY <1>4, <3>1, <3>2, HeldIsSent
    <3> QED BY <2>1, <3>3 DEF log, from
  <2>2. CASE ~exists(logs, content)
    BY <2>2, NothingCarries
  <2> QED BY <2>1, <2>2
<1> HIDE DEF out
<1> QED
  BY <1>1, <1>4, <1>6, HandledPackets

LEMMA AnswerSwitchGossipLogs ==
    ASSUME TypeInv, TypeInv', LogIntegrity, NEW s \in Switches, NEW d, AnswerSwitchGossip(s, d)
    PROVE  LogIntegrity' /\ WrittenLogsGrow /\ TurnOf(s)
<1> DEFINE p == Arrived(s, d)
           out == sendEntryFromIndexTo(logPacket[s][p.type], Known(s, d),
                      getKeyByValue(Known(s, d), d), p.shell.sequenceNum, p.type)
<1>1. Receiving(s, d) /\ IsAheadOf(s, d) /\ Handling(s, d, out) /\ UNCHANGED logPacket
  BY DEF AnswerSwitchGossip
<1>2. s \in Nodes /\ p.shell.sequenceNum \in Int /\ p.type \in DOMAIN logPacket[s]
  BY <1>1, Identifiers, ArrivedType, EntryType DEF Receiving, IsAheadOf, exists
<1>3. LogsOK' /\ WrittenLogsGrow /\ TurnOf(s)
  BY <1>1, HandledNoLogs
<1> HIDE DEF p
<1>4. out \in [Nodes -> Seq(GenuinePackets')]
  BY <1>1, <1>2, <1>3, HeldIsSent
<1> HIDE DEF out
<1> QED
  BY <1>1, <1>3, <1>4, HandledPackets

\* The outcomes that concatenate the entry and send nothing.
LEMMA ConcatenatingLogs ==
    ASSUME TypeInv, TypeInv', LogIntegrity, NEW s \in Switches, NEW d, IsConcatenating(s, d),
           logPacket' = [logPacket EXCEPT ![s] = Concatenated(s, d)], Handling(s, d, Nothing)
    PROVE  LogIntegrity' /\ WrittenLogsGrow /\ TurnOf(s)
<1>1. Receiving(s, d) /\ ForSwitch(Arrived(s, d).type)
  BY DEF IsConcatenating
<1>2. Arrived(s, d).type \in LogTypes
  BY <1>1, HandledTypes DEF Receiving
<1>3. /\ IsLogList(Concatenated(s, d)) /\ OwnLogsGrow(s, Concatenated(s, d))
      /\ OthersArePrefixes(s, Concatenated(s, d)) /\ CopiesStep(s, Concatenated(s, d))
  BY <1>1, <1>2, SwitchConcatenates
<1>4. LogsOK' /\ WrittenLogsGrow /\ TurnOf(s)
  BY <1>1, <1>3, HandledLogs
<1> QED
  BY <1>1, <1>4, HandledPackets, NothingCarries

LEMMA ReceiveContentLogs ==
    ASSUME TypeInv, TypeInv', LogIntegrity, NEW s \in Switches, NEW d, ReceiveContent(s, d)
    PROVE  LogIntegrity' /\ WrittenLogsGrow /\ TurnOf(s)
<1> DEFINE p == Arrived(s, d)
           map == Known(s, d)
           own == <<p.shell.authorId, getKeyByValue(map, d)>>
           interests == IF own \in DOMAIN interestedNeighbours[s]
                        THEN interestedNeighbours[s]
                        ELSE Interested(interestedNeighbours[s], own[1], own[2])
           accepted == isEntryConcatenated(logPacket[s], p.type, p.shell)
           out == IF accepted THEN Forwarded(map, interests, p, d) ELSE Nothing
<1>1. /\ Receiving(s, d) /\ ForUser(p.type)
      /\ logPacket' = [logPacket EXCEPT ![s] = Concatenated(s, d)]
      /\ Handling(s, d, out)
  BY DEF ReceiveContent
<1>2. p.type \in LogTypes /\ p.shell.authorId \in Nodes /\ IsNeighbourMap(map)
  BY <1>1, ArrivedType, HandledTypes, SwitchReads DEF Receiving
<1>3. IsInterests(interests)
  <2>1. own[1] \in Nodes /\ own[2] \in Nodes \cup {None}
    BY <1>2, getKeyByValueType
  <2>2. IsInterests(interestedNeighbours[s])
    BY DEF TypeInv, InterestsOK
  <2> HIDE DEF own
  <2> QED BY <2>1, <2>2, InterestedType
<1>4. /\ IsLogList(Concatenated(s, d)) /\ OwnLogsGrow(s, Concatenated(s, d))
      /\ OthersArePrefixes(s, Concatenated(s, d)) /\ CopiesStep(s, Concatenated(s, d))
  BY <1>1, <1>2, SwitchConcatenates
<1>5. LogsOK' /\ WrittenLogsGrow /\ TurnOf(s)
  <2> HIDE DEF out
  <2> QED BY <1>1, <1>4, HandledLogs
<1>6. p \in GenuinePackets'
  BY <1>1, <1>5, ArrivedIsGenuine, GenuineStays DEF Receiving
<1> HIDE DEF p, map, interests, accepted
<1>7. Forwarded(map, interests, p, d) \in [Nodes -> Seq(GenuinePackets')]
  <2> DEFINE G == GenuinePackets'
             copies(x) == [i \in 1..interests[x] |-> p]
  <2> HIDE DEF G
  <2>1. ASSUME NEW x \in DOMAIN interests
        PROVE  copies(x) \in Seq(G)
    <3> DEFINE n == interests[x]
               f == [i \in 1..n |-> p]
    <3>1. n \in Nat
      BY <1>3 DEF IsInterests
    <3> HIDE DEF n
    <3>2. f \in [1..n -> G]
      BY <1>6 DEF G
    <3> HIDE DEF f
    <3>3. f \in Seq(G)
      BY <3>1, <3>2, FunctionIsSeq
    <3> QED BY <3>3 DEF f, n
  <2>2. << >> \in Seq(G)
    OBVIOUS
  <2>3. Forwarded(map, interests, p, d)
            = [m \in Nodes |->
                  IF /\ <<p.type[1], getKeyByValue(map, m)>> \in DOMAIN interests
                     /\ getKeyByValue(map, m) # None
                     /\ getKeyByValue(map, m) # p.type[1]
                     /\ m # d
                  THEN copies(<<p.type[1], getKeyByValue(map, m)>>) ELSE << >>]
    BY DEF Forwarded
  <2> HIDE DEF copies
  <2>4. Forwarded(map, interests, p, d) \in [Nodes -> Seq(G)]
    BY <2>1, <2>2, <2>3
  <2> QED BY <2>4 DEF G
<1>8. out \in [Nodes -> Seq(GenuinePackets')]
  BY <1>7, NothingCarries
<1> HIDE DEF out
<1> QED
  BY <1>1, <1>5, <1>8, HandledPackets

LEMMA ReceiveUserGossipLogs ==
    ASSUME TypeInv, TypeInv', LogIntegrity, NEW s \in Switches, NEW d, ReceiveUserGossip(s, d)
    PROVE  LogIntegrity' /\ WrittenLogsGrow /\ TurnOf(s)
<1> DEFINE p == Arrived(s, d)
           answer == sendEntryFromIndexTo(logPacket[s][p.type], Known(s, d),
                         getKeyByValue(Known(s, d), d), p.shell.sequenceNum, p.type)
           out == IF IsAheadOf(s, d) THEN answer ELSE Nothing
<1>1. Receiving(s, d) /\ Handling(s, d, out) /\ UNCHANGED logPacket
  BY DEF ReceiveUserGossip
<1>2. /\ s \in Nodes /\ p.shell.sequenceNum \in Int
      /\ IsAheadOf(s, d) => p.type \in DOMAIN logPacket[s]
  BY <1>1, Identifiers, ArrivedType, EntryType DEF Receiving, IsAheadOf, exists
<1>3. LogsOK' /\ WrittenLogsGrow /\ TurnOf(s)
  BY <1>1, HandledNoLogs
<1> HIDE DEF p
<1>4. out \in [Nodes -> Seq(GenuinePackets')]
  BY <1>1, <1>2, <1>3, HeldIsSent, NothingCarries
<1> HIDE DEF out
<1> QED
  BY <1>1, <1>3, <1>4, HandledPackets

\* The logs a node writes for one reader, or one kind of readers, are its own.
LEMMA OwnTypes ==
    /\ \A n \in Nodes : \A k \in Nodes :
           LOGTYPE(n, k) \in LogTypes /\ IsOwn(n, LOGTYPE(n, k))
    /\ \A s \in Switches :
           LOGTYPE(s, MANAGER_ALL) \in LogTypes /\ IsOwn(s, LOGTYPE(s, MANAGER_ALL))
    /\ \A u \in Users : SwitchLog(u) \in LogTypes /\ IsOwn(u, SwitchLog(u))
<1> USE Identifiers, LogTypesAre
    DEF IsOwn, IsPublished, MyType, LOGTYPE, USER_ALL, SWITCH_ALL, MANAGER_ALL, SwitchLog
<1>1. \A n \in Nodes : \A k \in Nodes : LOGTYPE(n, k) \in LogTypes /\ IsOwn(n, LOGTYPE(n, k))
  OBVIOUS
<1>2. \A s \in Switches :
          LOGTYPE(s, MANAGER_ALL) \in LogTypes /\ IsOwn(s, LOGTYPE(s, MANAGER_ALL))
  OBVIOUS
<1>3. \A u \in Users : SwitchLog(u) \in LogTypes /\ IsOwn(u, SwitchLog(u))
  OBVIOUS
<1> QED
  BY <1>1, <1>2, <1>3

\* A node opens logs of its own, or appends to them.
LEMMA OwnLogsExtended ==
    ASSUME TypeInv, LogsOK, NEW n \in Nodes, NEW logs,
           OwnLogsStay(n, logs), OthersArePrefixes(n, logs),
           NEW list, IsLogList(list), DOMAIN logs \subseteq DOMAIN list,
           \A t \in DOMAIN list :
               \/ t \in DOMAIN logs /\ list[t] = logs[t]
               \/ /\ IsOwn(n, t) /\ IsNumbered(list[t].log)
                  /\ t \in DOMAIN logs => IsPrefix(logs[t].log, list[t].log)
    PROVE  /\ OwnLogsGrow(n, list) /\ OthersArePrefixes(n, list)
           /\ SameCopies(n, logs, list)
<1>1. OwnLogsGrow(n, logs)
  BY OwnLogsStayGrow
<1>2. ASSUME NEW t \in LogTypes, IsOwn(n, t), t \in DOMAIN logPacket[n]
      PROVE  t \in DOMAIN list /\ IsPrefix(logPacket[n][t].log, list[t].log)
  <2>1. t \in DOMAIN logs /\ logs[t] = logPacket[n][t] /\ t \in DOMAIN list
    BY <1>2 DEF OwnLogsStay
  <2>2. IsPrefix(logPacket[n][t].log, logs[t].log)
    BY <1>1, <1>2 DEF OwnLogsGrow
  <2> QED BY <2>1, <2>2
<1>3. ASSUME NEW t \in LogTypes, IsOwn(n, t), t \in DOMAIN list
      PROVE  IsNumbered(list[t].log)
  BY <1>1, <1>3 DEF OwnLogsGrow
<1>4. OwnLogsGrow(n, list)
  BY <1>2, <1>3 DEF OwnLogsGrow
<1>5. OthersArePrefixes(n, list)
  BY DEF OthersArePrefixes
<1>6. SameCopies(n, logs, list)
  BY DEF SameCopies, SameCopy
<1> QED
  BY <1>4, <1>5, <1>6

\* The first entry of a log just opened.
LEMMA OpenedLog ==
    ASSUME NEW n \in Nodes, NEW content \in Contents
    PROVE  LET log == appendLogShell(NewLog(n), content)
           IN  /\ log \in Logs /\ ~empty(log)
               /\ IsNumbered(log.log)
  BY NewLogIsNumbered, AppendingNumbersOne, appendLogShellType

LEMMA OpeningOwnLog ==
    ASSUME TypeInv, LogsOK, NEW n \in Nodes, NEW logs, IsLogList(logs),
           OwnLogsStay(n, logs), OthersArePrefixes(n, logs),
           NEW type \in LogTypes, IsOwn(n, type), NEW log \in Logs, IsNumbered(log.log)
    PROVE  LET list == Insert(logs, type, log)
           IN  /\ IsLogList(list) /\ type \in DOMAIN list
               /\ OwnLogsGrow(n, list) /\ OthersArePrefixes(n, list)
               /\ SameCopies(n, logs, list)
<1> DEFINE list == Insert(logs, type, log)
<1> HIDE DEF list
<1>1. /\ IsLogList(list)
      /\ DOMAIN list = DOMAIN logs \cup {type}
      /\ \A t \in DOMAIN logs : list[t] = logs[t]
      /\ type \notin DOMAIN logs => list[type] = log
  BY InsertLogType DEF list
<1>2. OwnLogsGrow(n, list) /\ OthersArePrefixes(n, list) /\ SameCopies(n, logs, list)
  BY <1>1, OwnLogsExtended
<1> QED
  BY <1>1, <1>2 DEF list

LEMMA AcceptingReads ==
    ASSUME TypeInv, LogIntegrity, NEW s \in Switches, NEW d, IsAccepting(s, d)
    PROVE  /\ Receiving(s, d) /\ s \in Nodes /\ LogsOK
           /\ Arrived(s, d).shell.shell \in Contents
           /\ Arrived(s, d).shell.authorId \in Nodes
           /\ IsLogList(Concatenated(s, d))
           /\ OwnLogsStay(s, Concatenated(s, d))
           /\ OthersArePrefixes(s, Concatenated(s, d))
           /\ CopiesStep(s, Concatenated(s, d))
<1>1. /\ Receiving(s, d) /\ Arrived(s, d).type \in LogTypes
      /\ Arrived(s, d).shell.shell \in Contents
  BY AcceptedContent
<1> QED
  BY <1>1, ArrivedType, SwitchConcatenates DEF Receiving

LEMMA AcceptPlugAndPlayLogs ==
    ASSUME TypeInv, TypeInv', LogIntegrity, NEW s \in Switches, NEW d, AcceptPlugAndPlay(s, d)
    PROVE  LogIntegrity' /\ WrittenLogsGrow /\ TurnOf(s)
<1> DEFINE type == LOGTYPE(s, Arrived(s, d).shell.authorId)
           content == ContentShell("addSwitch", s, 0)
           log == appendLogShell(NewLog(s), content)
           old == Concatenated(s, d)
           logs == Insert(old, type, log)
           out == [m \in Nodes |->
                      IF m = d /\ ~empty(logs[type])
                      THEN <<NetShell(type, 0, getLastEntry(logs[type]))>> ELSE << >>]
<1>1. /\ IsAccepting(s, d)
      /\ logPacket' = [logPacket EXCEPT ![s] = logs]
      /\ Handling(s, d, out)
  BY DEF AcceptPlugAndPlay, Accepts
<1>2. /\ Receiving(s, d) /\ s \in Nodes /\ LogsOK
      /\ IsLogList(old) /\ OwnLogsStay(s, old) /\ OthersArePrefixes(s, old)
      /\ CopiesStep(s, old)
      /\ type \in LogTypes /\ IsOwn(s, type)
  BY <1>1, AcceptingReads, OwnTypes
<1>3. log \in Logs /\ IsNumbered(log.log)
  <2>1. content \in Contents
    BY <1>2, ContentShellType DEF Functions
  <2> HIDE DEF content
  <2> QED BY <1>2, <2>1, OpenedLog
<1> HIDE DEF old, type, log
<1>4. /\ IsLogList(logs) /\ type \in DOMAIN logs /\ OwnLogsGrow(s, logs) /\ OthersArePrefixes(s, logs)
      /\ CopiesStep(s, logs)
  BY <1>2, <1>3, OpeningOwnLog, CopiesStepThen
<1> HIDE DEF logs
<1>5. LogsOK' /\ WrittenLogsGrow /\ TurnOf(s)
  <2> HIDE DEF out
  <2> QED BY <1>1, <1>2, <1>4, HandledLogs
<1>6. out \in [Nodes -> Seq(GenuinePackets')]
  <2> DEFINE packet == NetShell(type, 0, getLastEntry(logs[type]))
             G == GenuinePackets'
  <2>1. logPacket'[s] = logs
    BY <1>1, <1>2, ReplacingList DEF ListReplaced
  <2>2. type \in DOMAIN logPacket'[s] /\ logs[type] = logPacket'[s][type]
    BY <1>4, <2>1
  <2>3. ~empty(logs[type]) => packet \in G
    BY <1>2, <1>5, <2>2, HeldLastIsSent
  <2> HIDE DEF G, packet
  <2>4. ~empty(logs[type]) => <<packet>> \in Seq(G)
    BY <2>3, SingleIsSeq
  <2>5. << >> \in Seq(G)
    OBVIOUS
  <2>6. out = [m \in Nodes |-> IF m = d /\ ~empty(logs[type]) THEN <<packet>> ELSE << >>]
    BY DEF packet
  <2>7. out \in [Nodes -> Seq(G)]
    <3> HIDE DEF out
    <3> QED BY <2>4, <2>5, <2>6
  <2> QED BY <2>7 DEF G
<1> HIDE DEF out
<1> QED
  BY <1>1, <1>2, <1>5, <1>6, HandledPackets

LEMMA AcceptRequestLogs ==
    ASSUME TypeInv, TypeInv', LogIntegrity, NEW s \in Switches, NEW d, AcceptRequest(s, d)
    PROVE  LogIntegrity' /\ WrittenLogsGrow /\ TurnOf(s)
<1> DEFINE content == Arrived(s, d).shell.shell
           map == Known(s, d)
           logs == Concatenated(s, d)
           To == BroadcastTo(s, d)
           Type(k) == LOGTYPE(s, k)
           Log(k) == IF exists(logs, Type(k))
                     THEN appendLogShell(logs[Type(k)], content)
                     ELSE AppendLogShells(NewLog(s), <<InitialContent(None), content>>)
           From(k) == IF exists(logs, Type(k))
                      THEN getCurrentSeqNum(logs[Type(k)]) + 1 ELSE 0
           list == [t \in DOMAIN logs \cup {Type(k) : k \in To} |->
                       IF t[1] = s /\ t[2] \in To THEN Log(t[2]) ELSE logs[t]]
           out == [m \in Nodes |->
                      LET k == getKeyByValue(map, m)
                      IN  IF k \in To THEN EntriesFrom(Log(k), From(k), Type(k)) ELSE << >>]
<1>1. /\ IsAccepting(s, d)
      /\ logPacket' = [logPacket EXCEPT ![s] = list]
      /\ Handling(s, d, out)
  BY DEF AcceptRequest, Accepts
<1>2. /\ Receiving(s, d) /\ s \in Nodes /\ LogsOK /\ content \in Contents
      /\ IsLogList(logs) /\ OwnLogsStay(s, logs) /\ OthersArePrefixes(s, logs)
      /\ CopiesStep(s, logs)
  BY <1>1, AcceptingReads
<1>3. To \subseteq Nodes
  BY <1>2, SwitchReads DEF BroadcastTo, IsNeighbourMap
<1>4. OwnLogsGrow(s, logs)
  BY <1>2, OwnLogsStayGrow
<1> HIDE DEF content, map, logs, To
<1>5. ASSUME NEW k \in To
      PROVE  /\ Type(k) \in LogTypes /\ IsOwn(s, Type(k))
             /\ Type(k)[1] = s /\ Type(k)[2] = k
             /\ Log(k) \in Logs /\ From(k) \in Int /\ IsNumbered(Log(k).log)
             /\ Type(k) \in DOMAIN logs => IsPrefix(logs[Type(k)].log, Log(k).log)
  <2>1. /\ Type(k) \in LogTypes /\ IsOwn(s, Type(k))
        /\ Type(k)[1] = s /\ Type(k)[2] = k
    <3>1. k \in Nodes
      BY <1>3
    <3>2. LOGTYPE(s, k)[1] = s /\ LOGTYPE(s, k)[2] = k
      BY DEF LOGTYPE
    <3> QED BY <1>2, <3>1, <3>2, OwnTypes
  <2> HIDE DEF Type
  <2>2. CASE Type(k) \in DOMAIN logs
    <3> DEFINE old == logs[Type(k)]
               new == appendLogShell(old, content)
    <3>1. Log(k) = new /\ From(k) = getCurrentSeqNum(old) + 1
      BY <2>2 DEF exists
    <3>2. old \in Logs /\ IsNumbered(old.log)
      BY <1>2, <1>4, <2>1, <2>2, LogOfList DEF OwnLogsGrow
    <3> HIDE DEF old
    <3>3. new \in Logs /\ IsPrefix(old.log, new.log) /\ IsNumbered(new.log)
      BY <1>2, <3>2, AppendingNumbersOne
    <3>4. getCurrentSeqNum(old) \in Int
      BY <3>2, LogType
    <3> HIDE DEF new, Log, From
    <3> QED BY <2>1, <3>1, <3>3, <3>4 DEF old
  <2>3. CASE Type(k) \notin DOMAIN logs
    <3> DEFINE cs == <<InitialContent(None), content>>
               new == AppendLogShells(NewLog(s), cs)
    <3>1. Log(k) = new /\ From(k) = 0
      BY <2>3 DEF exists
    <3>2. InitialContent(None) \in Contents
      BY ContentShellType DEF InitialContent, Functions
    <3>3. cs \in Seq(Contents)
      BY <1>2, <3>2
    <3> HIDE DEF cs
    <3>4. NewLog(s) \in Logs /\ IsNumbered(NewLog(s).log)
      BY <1>2, NewLogIsNumbered
    <3>5. new \in Logs /\ IsNumbered(new.log)
      BY <3>3, <3>4, AppendingNumbers
    <3> HIDE DEF new, Log, From
    <3> QED BY <2>1, <2>3, <3>1, <3>5
  <2> QED BY <2>2, <2>3
<1> HIDE DEF Log, From, Type
<1>6. /\ DOMAIN list = DOMAIN logs \cup {Type(k) : k \in To}
      /\ \A k \in To : Type(k) \in DOMAIN list /\ list[Type(k)] = Log(k)
  BY <1>5
<1>7. ASSUME NEW t \in DOMAIN list
      PROVE  /\ t \in LogTypes /\ list[t] \in Logs
             /\ \/ t \in DOMAIN logs /\ list[t] = logs[t]
                \/ /\ IsOwn(s, t) /\ IsNumbered(list[t].log)
                   /\ t \in DOMAIN logs => IsPrefix(logs[t].log, list[t].log)
  <2>1. CASE t[1] = s /\ t[2] \in To
    <3>1. PICK k \in To : k = t[2]
      BY <2>1
    <3>2. t = Type(k)
      <4>1. t \in LogTypes
        <5>1. CASE t \in DOMAIN logs
          BY <1>2, <5>1, LogOfList
        <5>2. CASE t \notin DOMAIN logs
          BY <1>5, <1>6, <5>2
        <5> QED BY <5>1, <5>2
      <4> QED BY <2>1, <3>1, <4>1 DEF Type, LOGTYPE, LogTypes
    <3>3. list[t] = Log(k)
      BY <1>6, <3>2
    <3> HIDE DEF list
    <3> QED BY <1>5, <3>2, <3>3
  <2>2. CASE ~(t[1] = s /\ t[2] \in To)
    <3>1. t \in DOMAIN logs
      BY <1>5, <2>2
    <3>2. list[t] = logs[t]
      BY <2>2, <3>1
    <3> HIDE DEF list
    <3> QED BY <1>2, <3>1, <3>2, LogOfList
  <2> QED BY <2>1, <2>2
<1>8. IsLogList(list)
  <2>1. \A t \in DOMAIN list : t \in LogTypes /\ list[t] \in Logs
    BY <1>7
  <2> QED BY <2>1 DEF IsLogList
<1> HIDE DEF list
<1>9. OwnLogsGrow(s, list) /\ OthersArePrefixes(s, list) /\ CopiesStep(s, list)
  <2>1. DOMAIN logs \subseteq DOMAIN list
    BY <1>6
  <2>2. OwnLogsGrow(s, list) /\ OthersArePrefixes(s, list) /\ SameCopies(s, logs, list)
    BY <1>2, <1>7, <1>8, <2>1, OwnLogsExtended
  <2> QED BY <1>2, <2>2, CopiesStepThen
<1>10. LogsOK' /\ WrittenLogsGrow /\ TurnOf(s)
  <2> HIDE DEF out
  <2> QED BY <1>1, <1>2, <1>8, <1>9, HandledLogs
<1>11. out \in [Nodes -> Seq(GenuinePackets')]
  <2>1. logPacket'[s] = list
    BY <1>1, <1>2, ReplacingList DEF ListReplaced
  <2>2. ASSUME NEW k \in To
        PROVE  EntriesFrom(Log(k), From(k), Type(k)) \in Seq(GenuinePackets')
    <3>1. Type(k) \in DOMAIN logPacket'[s] /\ Log(k) = logPacket'[s][Type(k)]
      BY <1>6, <2>1
    <3> QED BY <1>2, <1>5, <1>10, <3>1, HeldIsSent
  <2>3. << >> \in Seq(GenuinePackets')
    OBVIOUS
  <2> QED BY <2>2, <2>3
<1> HIDE DEF out
<1> QED
  BY <1>1, <1>2, <1>10, <1>11, HandledPackets

\* What gossip shows of an empty log.
LEMMA FakeIsGenuine ==
    ASSUME NEW p \in Packets, p.shell = ShownOfEmptyLog, p.flag = 1, IsSubscription(p.type),
           IsWritten(p.type)'
    PROVE  p \in GenuinePackets'
  BY DEF GenuinePackets, IsGenuine

LEMMA GossipLogs ==
    ASSUME TypeInv, TypeInv', LogIntegrity, NEW s \in Switches, NEW t, Gossip(s, t)
    PROVE  LogIntegrity' /\ WrittenLogsGrow /\ TurnOf(s)
<1> DEFINE log == logPacket[s][t]
           shown == IF empty(log) THEN FakeEntry(s) ELSE getLastEntry(log)
           map == neighbourMap[s]
           packet == NetShell(t, 1, shown)
           out == [m \in Nodes |->
                      IF getKeyByValue(map, m) # None THEN <<packet>> ELSE << >>]
<1>1. /\ gossipTimers[s] > 0 /\ t \in DOMAIN logPacket[s] /\ IsSubscription(t)
      /\ channel' = Sending(channel, s, out)
      /\ UNCHANGED <<logPacket, myPersonalLog, started>>
  BY DEF Gossip
<1>2. s \in Nodes /\ LogsOK /\ Carry(channel, GenuinePackets)
  BY Identifiers, IntegrityParts
<1>3. LogsOK' /\ WrittenLogsGrow /\ TurnOf(s)
  BY <1>1, <1>2, LogsUntouched, PersonalLogsStay, NoListTurn
<1>4. t \in LogTypes /\ t \in DOMAIN logPacket'[s] /\ log = logPacket'[s][t]
  BY <1>1, <1>2, ListType
<1>5. packet \in GenuinePackets'
  <2>1. CASE empty(log)
    <3>1. manager[s] = ManagerId
      BY <1>1 DEF TypeInv, ManagerOK, TimersFollowManager
    <3>2. FakeEntry(s) \in Entries /\ FakeEntry(s) = ShownOfEmptyLog
      <4>1. ContentShell("f", "p", 0) \in Contents
        BY ContentShellType DEF Functions
      <4> QED
        BY <3>1, <4>1, Identifiers
        DEF FakeEntry, ShownOfEmptyLog, LogShell, Entries, NoHash, NoSignature
    <3>3. packet = NetShell(t, 1, FakeEntry(s))
      BY <2>1
    <3>4. packet \in Packets /\ packet.type = t /\ packet.shell = ShownOfEmptyLog /\ packet.flag = 1
      BY <1>4, <3>2, <3>3, NetShellType DEF NetShell
    <3>5. IsWritten(t)'
      BY <1>2, <1>3, <1>4 DEF LogsOK
    <3> HIDE DEF packet
    <3> QED BY <1>1, <3>4, <3>5, FakeIsGenuine
  <2>2. CASE ~empty(log)
    BY <1>2, <1>3, <1>4, <2>2, HeldLastIsSent
  <2> QED BY <2>1, <2>2
<1> HIDE DEF packet, map
<1>6. out \in [Nodes -> Seq(GenuinePackets')]
  <2> DEFINE G == GenuinePackets'
  <2>1. packet \in G
    BY <1>5
  <2> HIDE DEF G
  <2>2. <<packet>> \in Seq(G) /\ << >> \in Seq(G)
    BY <2>1
  <2>3. out \in [Nodes -> Seq(G)]
    BY <2>2
  <2> QED BY <2>3 DEF G
<1> HIDE DEF out
<1> QED
  BY <1>1, <1>2, <1>3, <1>6, SentIsGenuine

\* A cancellation that is accepted finds no replica to remove.
LEMMA NothingToRemove ==
    ASSUME TypeInv, NEW s \in Switches, NEW d, IsAccepting(s, d)
    PROVE  ContentOf(Arrived(s, d).shell.shell.params) \notin DOMAIN Concatenated(s, d)
<1> DEFINE p == Arrived(s, d)
           dropped == ContentOf(p.shell.shell.params)
<1>1. /\ Receiving(s, d) /\ ForSwitch(p.type) /\ dropped \notin DOMAIN logPacket[s]
      /\ Concatenated(s, d) = concatenateEntry(logPacket[s], p.type, p.shell)
  BY DEF IsAccepting, IsConcatenating, IsServed, exists, Concatenated
<1>2. p.type # dropped
  <2>1. dropped[2] = USER_ALL
    BY DEF ContentOf, LOGTYPE
  <2>2. p.type[2] # USER_ALL
    BY <1>1, Identifiers DEF ForSwitch, USER_ALL, SWITCH_ALL
  <2> QED BY <2>1, <2>2
<1> HIDE DEF p, dropped
<1>3. DOMAIN concatenateEntry(logPacket[s], p.type, p.shell) = DOMAIN logPacket[s] \cup {p.type}
  BY DEF concatenateEntry, Insert
<1> QED
  BY <1>1, <1>2, <1>3 DEF dropped, p

LEMMA AcceptUnsubscribeLogs ==
    ASSUME TypeInv, TypeInv', LogIntegrity, NEW s \in Switches, NEW d, AcceptUnsubscribe(s, d)
    PROVE  LogIntegrity' /\ WrittenLogsGrow /\ TurnOf(s)
<1> DEFINE content == Arrived(s, d).shell.shell
           map == Known(s, d)
           cancelled == <<content.params, Arrived(s, d).shell.authorId>>
           left == interestedNeighbours[s] (-) SetToBag({cancelled})
           Subscribers == {p[2] : p \in {q \in DOMAIN left : q[1] # q[2]}}
           Forwarding == \E p \in DOMAIN left : p[2] \notin Users
           old == Concatenated(s, d)
           dropped == ContentOf(content.params)
           logs == IF Forwarding THEN Without(old, dropped) ELSE old
           To == IF Forwarding THEN {k \in Subscribers : exists(logs, LOGTYPE(s, k))} ELSE {}
           Log(k) == AppendLogShells(logs[LOGTYPE(s, k)],
                         [i \in 1..InterestsOf(left, k) |-> content])
           From(k) == getCurrentSeqNum(logs[LOGTYPE(s, k)]) + 1
           list == [t \in DOMAIN logs |->
                       IF t[1] = s /\ t[2] \in To THEN Log(t[2]) ELSE logs[t]]
           out == [m \in Nodes |->
                      LET k == getKeyByValue(map, m)
                      IN  IF k \in To THEN EntriesFrom(Log(k), From(k), LOGTYPE(s, k)) ELSE << >>]
<1>1. /\ IsAccepting(s, d)
      /\ logPacket' = [logPacket EXCEPT ![s] = list]
      /\ Handling(s, d, out)
  BY DEF AcceptUnsubscribe
<1>2. /\ Receiving(s, d) /\ s \in Nodes /\ LogsOK /\ content \in Contents
      /\ IsLogList(old) /\ OwnLogsStay(s, old) /\ OthersArePrefixes(s, old)
      /\ CopiesStep(s, old)
  BY <1>1, AcceptingReads
<1>3. IsInterests(left)
  <2> HIDE DEF cancelled
  <2> QED BY CancelledType DEF TypeInv, InterestsOK
<1>4. \A t \in LogTypes : IsOwn(s, t) => t # dropped
  BY DEF IsOwn, IsPublished, ContentOf, LOGTYPE
<1>5. /\ IsLogList(logs) /\ OwnLogsStay(s, logs) /\ OthersArePrefixes(s, logs)
      /\ CopiesStep(s, logs)
  <2>0. dropped \notin DOMAIN old
    BY <1>1, NothingToRemove
  <2> DEFINE new == Without(old, dropped)
  <2> HIDE DEF old, dropped, new
  <2>1. /\ IsLogList(new) /\ DOMAIN new = DOMAIN old \ {dropped}
        /\ \A t \in DOMAIN old \ {dropped} : new[t] = old[t]
    BY <1>2, WithoutType DEF new
  <2>2. OwnLogsStay(s, new)
    BY <1>2, <1>4, <2>1 DEF OwnLogsStay
  <2>3. OthersArePrefixes(s, new)
    BY <1>2, <2>1 DEF OthersArePrefixes
  <2>4. CopiesStep(s, new)
    <3>1. SameCopies(s, old, new)
      BY <2>0, <2>1 DEF SameCopies, SameCopy
    <3> QED BY <1>2, <3>1, CopiesStepThen
  <2> QED BY <1>2, <2>1, <2>2, <2>3, <2>4 DEF new
<1>6. OwnLogsGrow(s, logs)
  BY <1>2, <1>5, OwnLogsStayGrow
<1> HIDE DEF content, map, left, logs, Forwarding
<1>7. ASSUME NEW k \in To
      PROVE  /\ LOGTYPE(s, k) \in DOMAIN logs /\ LOGTYPE(s, k) \in LogTypes
             /\ IsOwn(s, LOGTYPE(s, k))
             /\ LOGTYPE(s, k)[1] = s /\ LOGTYPE(s, k)[2] = k
  <2>1. LOGTYPE(s, k) \in DOMAIN logs /\ k \in Subscribers
    BY DEF exists
  <2>2. LOGTYPE(s, k) \in LogTypes
    BY <1>5, <2>1, LogOfList
  <2>3. k \in Nodes \cup {None}
    BY <1>3, <2>1 DEF IsInterests
  <2>4. k \in Nodes
    BY <2>2, <2>3, Identifiers DEF LOGTYPE, LogTypes
  <2>5. LOGTYPE(s, k)[1] = s /\ LOGTYPE(s, k)[2] = k
    BY DEF LOGTYPE
  <2> QED BY <1>2, <2>1, <2>2, <2>4, <2>5, OwnTypes
<1> HIDE DEF To, Subscribers
<1>8. ASSUME NEW k \in To
      PROVE  /\ Log(k) \in Logs /\ From(k) \in Int /\ IsNumbered(Log(k).log)
             /\ IsPrefix(logs[LOGTYPE(s, k)].log, Log(k).log)
  <2> DEFINE log == logs[LOGTYPE(s, k)]
             n == InterestsOf(left, k)
             copies == [i \in 1..n |-> content]
             new == AppendLogShells(log, copies)
  <2>1. Log(k) = new /\ From(k) = getCurrentSeqNum(log) + 1
    OBVIOUS
  <2>2. log \in Logs /\ IsNumbered(log.log)
    BY <1>5, <1>6, <1>7, LogOfList DEF OwnLogsGrow
  <2> HIDE DEF log
  <2>3. n \in Nat
    BY <1>3, InterestsOfType
  <2> HIDE DEF n
  <2>4. copies \in [1..n -> Contents]
    BY <1>2
  <2> HIDE DEF copies
  <2>5. copies \in Seq(Contents)
    BY <2>3, <2>4, FunctionIsSeq
  <2>6. new \in Logs /\ IsPrefix(log.log, new.log) /\ IsNumbered(new.log)
    BY <2>2, <2>5, AppendingNumbers
  <2>7. getCurrentSeqNum(log) \in Int
    BY <2>2, LogType
  <2> HIDE DEF new, Log, From
  <2> QED BY <2>1, <2>6, <2>7 DEF log
<1> HIDE DEF Log, From
<1>9. DOMAIN list = DOMAIN logs /\ \A k \in To : list[LOGTYPE(s, k)] = Log(k)
  BY <1>7
<1>10. ASSUME NEW t \in DOMAIN list
       PROVE  /\ t \in LogTypes /\ list[t] \in Logs
              /\ \/ list[t] = logs[t]
                 \/ /\ IsOwn(s, t) /\ IsNumbered(list[t].log)
                    /\ IsPrefix(logs[t].log, list[t].log)
  <2>1. t \in DOMAIN logs /\ t \in LogTypes /\ logs[t] \in Logs
    BY <1>5, <1>9, LogOfList
  <2>2. CASE t[1] = s /\ t[2] \in To
    <3>1. PICK k \in To : k = t[2]
      BY <2>2
    <3>2. t = LOGTYPE(s, k)
      BY <2>1, <2>2, <3>1 DEF LOGTYPE, LogTypes
    <3>3. list[t] = Log(k)
      BY <1>9, <3>2
    <3> HIDE DEF list
    <3> QED BY <1>7, <1>8, <2>1, <3>2, <3>3
  <2>3. CASE ~(t[1] = s /\ t[2] \in To)
    BY <2>1, <2>3
  <2> QED BY <2>2, <2>3
<1>11. IsLogList(list)
  <2>1. \A t \in DOMAIN list : t \in LogTypes /\ list[t] \in Logs
    BY <1>10
  <2> QED BY <2>1 DEF IsLogList
<1> HIDE DEF list
<1>12. OwnLogsGrow(s, list) /\ OthersArePrefixes(s, list) /\ CopiesStep(s, list)
  <2>1. OwnLogsGrow(s, list) /\ OthersArePrefixes(s, list) /\ SameCopies(s, logs, list)
    BY <1>2, <1>5, <1>9, <1>10, <1>11, OwnLogsExtended
  <2> QED BY <1>5, <2>1, CopiesStepThen
<1>13. LogsOK' /\ WrittenLogsGrow /\ TurnOf(s)
  <2> HIDE DEF out
  <2> QED BY <1>1, <1>2, <1>11, <1>12, HandledLogs
<1>14. out \in [Nodes -> Seq(GenuinePackets')]
  <2>1. logPacket'[s] = list
    BY <1>1, <1>2, ReplacingList DEF ListReplaced
  <2>2. ASSUME NEW k \in To
        PROVE  EntriesFrom(Log(k), From(k), LOGTYPE(s, k)) \in Seq(GenuinePackets')
    <3> DEFINE t == LOGTYPE(s, k)
    <3>1. t \in DOMAIN logPacket'[s] /\ Log(k) = logPacket'[s][t]
      BY <1>7, <1>9, <2>1
    <3> HIDE DEF t
    <3>2. EntriesFrom(Log(k), From(k), t) \in Seq(GenuinePackets')
      BY <1>2, <1>8, <1>13, <3>1, HeldIsSent
    <3> QED BY <3>2 DEF t
  <2>3. << >> \in Seq(GenuinePackets')
    OBVIOUS
  <2> QED BY <2>2, <2>3
<1> HIDE DEF out
<1> QED
  BY <1>1, <1>2, <1>13, <1>14, HandledPackets

-----------------------------------------------------------------------------
(* Starting, and the actions of a user *)

\* A packet, once it is genuine, for those it goes to.
LEMMA OnePacketEach ==
    ASSUME NEW S, NEW packet \in S, NEW Wanted
    PROVE  [m \in Nodes |-> IF m \in Wanted THEN <<packet>> ELSE << >>] \in [Nodes -> Seq(S)]
<1>1. <<packet>> \in Seq(S) /\ << >> \in Seq(S)
  BY SingleIsSeq
<1> QED
  BY <1>1

LEMMA ToNeighboursIsSent ==
    ASSUME NEW S, NEW packet \in S, NEW u
    PROVE  ToNeighbours(u, <<packet>>) \in [Nodes -> Seq(S)]
<1>1. <<packet>> \in Seq(S) /\ << >> \in Seq(S)
  BY SingleIsSeq
<1> QED
  BY <1>1 DEF ToNeighbours

\* An application starts: it opens its first log and sends the entry.
LEMMA StartingLogs ==
    ASSUME TypeInv, TypeInv', LogIntegrity, NEW n \in Nodes, n \notin started,
           NEW type \in LogTypes, IsOwn(n, type), NEW content \in Contents,
           NEW log, log = appendLogShell(NewLog(n), content),
           started' = started \cup {n}, UNCHANGED myPersonalLog,
           logPacket' = [logPacket EXCEPT ![n] = Insert(@, type, log)],
           channel' = Sending(channel, n,
               [m \in Nodes |-> IF m \in Peers(n)
                                THEN <<NetShell(type, 0, getLastEntry(log))>> ELSE << >>])
    PROVE  LogIntegrity' /\ WrittenLogsGrow /\ TurnOf(n)
<1> DEFINE old == logPacket[n]
           list == Insert(old, type, log)
           packet == NetShell(type, 0, getLastEntry(log))
<1>1. LogsOK /\ Carry(channel, GenuinePackets)
  BY IntegrityParts
<1>2. IsLogList(old) /\ OwnLogsStay(n, old) /\ OthersArePrefixes(n, old) /\ DOMAIN old = {}
  BY <1>1, ListType, SameList DEF LogsOK
<1>3. log \in Logs /\ ~empty(log) /\ IsNumbered(log.log)
  BY OpenedLog
<1>4. ListReplaced(n, list)
  <2>1. logPacket' = [logPacket EXCEPT ![n] = list]
    OBVIOUS
  <2> HIDE DEF list
  <2> QED BY <2>1, ReplacingList
<1> HIDE DEF old
<1>5. /\ IsLogList(list) /\ type \in DOMAIN list
      /\ OwnLogsGrow(n, list) /\ OthersArePrefixes(n, list) /\ SameCopies(n, old, list)
  BY <1>1, <1>2, <1>3, OpeningOwnLog
<1>6. list[type] = log
  BY <1>2, <1>3, InsertLogType
<1> HIDE DEF list
<1>7. LogsOK' /\ WrittenLogsGrow /\ TurnOf(n)
  <2>1. TurnOf(n)
    BY <1>4, <1>5, ListTurn DEF old, CopiesStep
  <2> QED BY <1>1, <1>4, <1>5, <2>1, LogsStep, PersonalLogsStay
<1>8. packet \in GenuinePackets'
  <2>1. type \in DOMAIN logPacket'[n] /\ log = logPacket'[n][type]
    BY <1>4, <1>5, <1>6 DEF ListReplaced
  <2> QED BY <1>3, <1>7, <2>1, HeldLastIsSent
<1> DEFINE out == [m \in Nodes |-> IF m \in Peers(n) THEN <<packet>> ELSE << >>]
<1>9. channel' = Sending(channel, n, out)
  OBVIOUS
<1> HIDE DEF packet
<1>10. out \in [Nodes -> Seq(GenuinePackets')]
  BY <1>8, OnePacketEach
<1> HIDE DEF out
<1> QED
  BY <1>1, <1>7, <1>9, <1>10, SentIsGenuine

LEMMA StartSwitchLogs ==
    ASSUME TypeInv, TypeInv', LogIntegrity, NEW s \in Switches, StartSwitch(s)
    PROVE  LogIntegrity' /\ WrittenLogsGrow /\ TurnOf(s)
<1> DEFINE type == LOGTYPE(s, MANAGER_ALL)
           content == ContentShell("addToNetwork", s, 0)
           log == appendLogShell(NewLog(s), content)
<1>1. /\ s \notin started /\ started' = started \cup {s} /\ UNCHANGED myPersonalLog
      /\ logPacket' = [logPacket EXCEPT ![s] = Insert(@, type, log)]
      /\ channel' = Sending(channel, s,
             [m \in Nodes |-> IF m \in Peers(s)
                              THEN <<NetShell(type, 0, getLastEntry(log))>> ELSE << >>])
  BY DEF StartSwitch
<1>2. s \in Nodes /\ type \in LogTypes /\ IsOwn(s, type) /\ content \in Contents
  BY Identifiers, OwnTypes, ContentShellType DEF Functions
<1> HIDE DEF type, content
<1> QED
  BY <1>1, <1>2, StartingLogs

LEMMA StartUserLogs ==
    ASSUME TypeInv, TypeInv', LogIntegrity, NEW u \in Users, StartUsers(u)
    PROVE  LogIntegrity' /\ WrittenLogsGrow /\ TurnOf(u)
<1> DEFINE type == SwitchLog(u)
           content == ContentShell("plugAndPlay", u, 0)
           log == appendLogShell(NewLog(u), content)
<1>1. /\ u \notin started /\ started' = started \cup {u} /\ UNCHANGED myPersonalLog
      /\ logPacket' = [logPacket EXCEPT ![u] = Insert(@, type, log)]
      /\ channel' = Sending(channel, u,
             [m \in Nodes |-> IF m \in Peers(u)
                              THEN <<NetShell(type, 0, getLastEntry(log))>> ELSE << >>])
  BY DEF StartUsers, StartUser
<1>2. u \in Nodes /\ type \in LogTypes /\ IsOwn(u, type) /\ content \in Contents
  BY Identifiers, OwnTypes, ContentShellType DEF Functions
<1> HIDE DEF type, content
<1> QED
  BY <1>1, <1>2, StartingLogs

\* The log for the switches, one entry longer.
LEMMA ToldLogs ==
    ASSUME TypeInv, LogsOK, NEW u \in Users \cap started, NEW content \in Contents,
           NEW log, log = appendLogShell(logPacket[u][SwitchLog(u)], content)
    PROVE  LET list == [logPacket[u] EXCEPT ![SwitchLog(u)] = log]
           IN  /\ IsLogList(list) /\ DOMAIN list = DOMAIN logPacket[u]
               /\ SwitchLog(u) \in DOMAIN list /\ list[SwitchLog(u)] = log
               /\ ~empty(log) /\ log \in Logs
               /\ OwnLogsGrow(u, list) /\ OthersArePrefixes(u, list)
               /\ SameCopies(u, logPacket[u], list)
<1> DEFINE old == logPacket[u]
           type == SwitchLog(u)
           list == [old EXCEPT ![type] = log]
<1>1. /\ u \in Nodes /\ IsLogList(old) /\ type \in LogTypes /\ type \in DOMAIN old
      /\ old[type] \in Logs /\ IsOwn(u, type)
  BY SwitchLogType, OwnTypes
<1>2. OwnLogsStay(u, old) /\ OthersArePrefixes(u, old)
  BY <1>1, SameList
<1> HIDE DEF old, type
<1>3. OwnLogsGrow(u, old)
  BY <1>1, <1>2, OwnLogsStayGrow
<1>4. IsNumbered(old[type].log)
  BY <1>1, <1>3 DEF OwnLogsGrow
<1>5. log = appendLogShell(old[type], content)
  BY DEF old, type
<1>6. log \in Logs /\ ~empty(log) /\ IsPrefix(old[type].log, log.log) /\ IsNumbered(log.log)
  BY <1>1, <1>4, <1>5, AppendingNumbersOne, appendLogShellType
<1>7. /\ IsLogList(list) /\ DOMAIN list = DOMAIN old /\ list[type] = log
      /\ \A t \in DOMAIN old \ {type} : list[t] = old[t]
  BY <1>1, <1>6, UpdateLogType DEF IsLogList
<1> HIDE DEF list
<1>8. OwnLogsGrow(u, list) /\ OthersArePrefixes(u, list) /\ SameCopies(u, old, list)
  BY <1>1, <1>2, <1>6, <1>7, OwnLogsExtended
<1> QED
  BY <1>1, <1>6, <1>7, <1>8 DEF list, old, type

\* A user's new list, with the entry sent to its neighbours.
LEMMA ToldIsSent ==
    ASSUME TypeInv, TypeInv', LogIntegrity, NEW u \in Users \cap started,
           NEW list, IsLogList(list), SwitchLog(u) \in DOMAIN list, ~empty(list[SwitchLog(u)]),
           OwnLogsGrow(u, list), OthersArePrefixes(u, list), CopiesStep(u, list),
           logPacket' = [logPacket EXCEPT ![u] = list], UNCHANGED <<myPersonalLog, started>>,
           channel' = Sending(channel, u, ToNeighbours(u,
               <<NetShell(SwitchLog(u), 0, getLastEntry(list[SwitchLog(u)]))>>))
    PROVE  LogIntegrity' /\ WrittenLogsGrow /\ TurnOf(u)
<1> DEFINE type == SwitchLog(u)
           log == list[type]
           packet == NetShell(type, 0, getLastEntry(log))
           out == ToNeighbours(u, <<packet>>)
<1>1. u \in Nodes /\ LogsOK /\ Carry(channel, GenuinePackets)
  BY Identifiers, IntegrityParts
<1>2. ListReplaced(u, list)
  BY <1>1, ReplacingList
<1>3. LogsOK' /\ WrittenLogsGrow /\ TurnOf(u)
  BY <1>1, <1>2, LogsStep, PersonalLogsStay, ListTurn
<1> HIDE DEF type
<1>4. type \in DOMAIN logPacket'[u] /\ log = logPacket'[u][type] /\ ~empty(log)
  BY <1>2 DEF ListReplaced, type
<1> HIDE DEF log
<1>5. packet \in GenuinePackets'
  BY <1>1, <1>3, <1>4, HeldLastIsSent
<1>6. channel' = Sending(channel, u, out)
  BY DEF type, log
<1> HIDE DEF packet
<1>7. out \in [Nodes -> Seq(GenuinePackets')]
  BY <1>5, ToNeighboursIsSent
<1> HIDE DEF out
<1> QED
  BY <1>1, <1>3, <1>6, <1>7, SentIsGenuine

LEMMA CallSubscribeLogs ==
    ASSUME TypeInv, TypeInv', LogIntegrity, NEW u \in Users, NEW a \in Users, CallSubscribe(u, a)
    PROVE  LogIntegrity' /\ WrittenLogsGrow /\ TurnOf(u)
<1> DEFINE type == SwitchLog(u)
           content == ContentShell("getContentFrom", a, 0)
           log == appendLogShell(logPacket[u][type], content)
           list == [logPacket[u] EXCEPT ![type] = log]
<1>1. /\ u \in Users \cap started /\ UNCHANGED <<myPersonalLog, started>>
      /\ logPacket' = [logPacket EXCEPT ![u][type] = log]
      /\ channel' = Sending(channel, u, ToNeighbours(u, <<NetShell(type, 0, getLastEntry(log))>>))
  BY DEF CallSubscribe, Subscribe, Telling, Running, PlugAndPlayOver
<1>2. logPacket' = [logPacket EXCEPT ![u] = list]
  BY <1>1
<1>3. content \in Contents
  BY Identifiers, ContentShellType DEF Functions
<1> HIDE DEF content
<1>4. /\ IsLogList(list) /\ type \in DOMAIN list /\ list[type] = log /\ ~empty(log)
      /\ OwnLogsGrow(u, list) /\ OthersArePrefixes(u, list) /\ CopiesStep(u, list)
  BY <1>1, <1>3, IntegrityParts, ToldLogs DEF CopiesStep
<1> HIDE DEF list, log
<1> QED
  BY <1>1, <1>2, <1>4, ToldIsSent

\* The replica that is dropped is not the user's own log for the switches.
LEMMA CallUnsubscribeLogs ==
    ASSUME TypeInv, TypeInv', LogIntegrity, NEW u \in Users, NEW a \in Users, CallUnsubscribe(u, a)
    PROVE  LogIntegrity' /\ WrittenLogsGrow /\ TurnOf(u)
<1> DEFINE type == SwitchLog(u)
           dropped == LOGTYPE(a, USER_ALL)
           content == ContentShell("removeUserFromInl", a, 0)
           log == appendLogShell(logPacket[u][type], content)
           told == [logPacket[u] EXCEPT ![type] = log]
           list == Without(told, dropped)
<1>1. /\ u \in Users \cap started /\ UNCHANGED <<myPersonalLog, started>>
      /\ logPacket' = [logPacket EXCEPT ![u] = list]
      /\ channel' = Sending(channel, u, ToNeighbours(u, <<NetShell(type, 0, getLastEntry(log))>>))
  BY DEF CallUnsubscribe, Unsubscribe, Running, PlugAndPlayOver
<1>2. content \in Contents
  BY Identifiers, ContentShellType DEF Functions
<1>3. \A t \in LogTypes : IsOwn(u, t) => t # dropped
  BY DEF IsOwn, IsPublished, LOGTYPE
<1>4. u \in Nodes /\ type \in LogTypes /\ type # dropped
  BY <1>3, Identifiers, OwnTypes
<1> HIDE DEF content, dropped
<1>5. /\ IsLogList(told) /\ type \in DOMAIN told /\ told[type] = log /\ ~empty(log)
      /\ OwnLogsGrow(u, told) /\ OthersArePrefixes(u, told)
      /\ SameCopies(u, logPacket[u], told)
  BY <1>1, <1>2, IntegrityParts, ToldLogs
<1> HIDE DEF told, log
<1>6. /\ IsLogList(list) /\ DOMAIN list = DOMAIN told \ {dropped}
      /\ \A t \in DOMAIN told \ {dropped} : list[t] = told[t]
  BY <1>5, WithoutType
<1> HIDE DEF list
<1>7. OwnLogsGrow(u, list)
  <2> SUFFICES ASSUME NEW t \in LogTypes, IsOwn(u, t)
               PROVE  /\ t \in DOMAIN logPacket[u] =>
                             t \in DOMAIN list /\ IsPrefix(logPacket[u][t].log, list[t].log)
                      /\ t \in DOMAIN list => IsNumbered(list[t].log)
    BY DEF OwnLogsGrow
  <2>1. t \in DOMAIN told => t \in DOMAIN list /\ list[t] = told[t]
    BY <1>3, <1>6
  <2> QED BY <1>5, <1>6, <2>1 DEF OwnLogsGrow
<1>8. OthersArePrefixes(u, list)
  BY <1>5, <1>6 DEF OthersArePrefixes
<1>9. type \in DOMAIN list /\ list[type] = log
  BY <1>4, <1>5, <1>6
<1>10. CopiesStep(u, list)
  <2>1. CASE dropped \in DOMAIN told
    <3>1. SameButOne(u, logPacket[u], list, dropped)
      BY <1>5, <1>6 DEF SameButOne, SameCopies, SameCopy
    <3>2. dropped \in LogTypes /\ ~IsOwn(u, dropped) /\ dropped \notin DOMAIN list
      BY <1>3, <1>5, <1>6, <2>1, LogOfList
    <3>3. dropped \in DOMAIN logPacket[u]
      BY <1>5, <2>1, <3>2 DEF SameCopies, SameCopy
    <3>4. <<u, dropped>> \in UserSubscriptions
      BY DEF UserSubscriptions, ContentOf, dropped
    <3>5. Drops(u, list, dropped)
      BY <3>1, <3>2, <3>3, <3>4 DEF Drops
    <3> QED BY <3>2, <3>5 DEF CopiesStep
  <2>2. CASE dropped \notin DOMAIN told
    <3>1. SameCopies(u, logPacket[u], list)
      BY <1>5, <1>6, <2>2 DEF SameCopies, SameCopy
    <3> QED BY <3>1 DEF CopiesStep
  <2> QED BY <2>1, <2>2
<1> QED
  BY <1>1, <1>5, <1>6, <1>7, <1>8, <1>9, <1>10, ToldIsSent

\* A published log, one entry longer.
LEMMA PersonalAppended ==
    ASSUME TypeInv, LogsOK, NEW w \in Users \cup {ManagerId}, NEW content \in Contents,
           NEW log, log = appendLogShell(myPersonalLog[w], content),
           myPersonalLog' = [myPersonalLog EXCEPT ![w] = log]
    PROVE  /\ PersonalLogsGrow /\ myPersonalLog'[w] = log
           /\ log \in Logs /\ ~empty(log)
           /\ \A v \in (Users \cup {ManagerId}) \ {w} : myPersonalLog'[v] = myPersonalLog[v]
<1>1. myPersonalLog[w] \in Logs /\ IsNumbered(myPersonalLog[w].log)
  BY PersonalType, PersonalNumbered
<1>2. /\ log \in Logs /\ ~empty(log)
      /\ IsPrefix(myPersonalLog[w].log, log.log) /\ IsNumbered(log.log)
  BY <1>1, AppendingNumbersOne, appendLogShellType
<1>3. myPersonalLog'[w] = log /\ \A v \in (Users \cup {ManagerId}) \ {w} :
                                     myPersonalLog'[v] = myPersonalLog[v]
  BY DEF TypeInv, PersonalOK
<1>4. ASSUME NEW v \in Users \cup {ManagerId}
      PROVE  /\ IsPrefix(myPersonalLog[v].log, myPersonalLog'[v].log)
             /\ IsNumbered(myPersonalLog'[v].log)
  <2>1. CASE v = w
    BY <1>2, <1>3, <2>1
  <2>2. CASE v # w
    <3>1. myPersonalLog'[v] = myPersonalLog[v]
      BY <1>3, <2>2
    <3> QED BY <3>1, PersonalType, PersonalNumbered, PrefixOfItself
  <2> QED BY <2>1, <2>2
<1> QED
  BY <1>2, <1>3, <1>4 DEF PersonalLogsGrow

LEMMA CallPushLogs ==
    ASSUME TypeInv, TypeInv', LogIntegrity, NEW u \in Users, CallPush(u)
    PROVE  LogIntegrity' /\ WrittenLogsGrow /\ TurnOf(u)
<1> DEFINE content == ContentShell("pushContent", None, Len(myPersonalLog[u].log))
           log == appendLogShell(myPersonalLog[u], content)
           packet == NetShell(OwnLog(u), 0, getLastEntry(log))
           out == ToNeighbours(u, <<packet>>)
<1>1. /\ myPersonalLog' = [myPersonalLog EXCEPT ![u] = log]
      /\ channel' = Sending(channel, u, out)
      /\ UNCHANGED <<logPacket, started>>
  BY DEF CallPush, PushLogToSwitch
<1>2. LogsOK /\ Carry(channel, GenuinePackets)
  BY IntegrityParts
<1>3. content \in Contents
  <2>1. Len(myPersonalLog[u].log) \in Nat
    BY PersonalType, LogType
  <2> QED BY <2>1, ContentShellType DEF Functions
<1> HIDE DEF content
<1>4. /\ PersonalLogsGrow /\ myPersonalLog'[u] = log /\ log \in Logs /\ ~empty(log)
      /\ \A v \in (Users \cup {ManagerId}) \ {u} : myPersonalLog'[v] = myPersonalLog[v]
  BY <1>1, <1>2, <1>3, PersonalAppended
<1>5. LogsOK' /\ WrittenLogsGrow /\ TurnOf(u)
  BY <1>1, <1>2, <1>4, Identifiers, LogsUntouched, NoListTurn
<1> HIDE DEF log
<1>6. packet \in GenuinePackets'
  <2>1. OwnLog(u) \in LogTypes /\ OwnLog(u)[1] = u /\ IsPublished(OwnLog(u))
    BY Identifiers, LogTypesAre DEF OwnLog, LOGTYPE, IsPublished
  <2>2. \A i \in 1..Len(log.log) : NetShell(OwnLog(u), 0, log.log[i]) \in GenuinePackets'
    BY <1>4, <1>5, <2>1, PublishedIsGenuine
  <2>3. Len(log.log) \in 1..Len(log.log)
    BY <1>4, LogType
  <2> QED BY <2>2, <2>3 DEF getLastEntry
<1> HIDE DEF packet
<1>7. out \in [Nodes -> Seq(GenuinePackets')]
  BY <1>6, ToNeighboursIsSent
<1> HIDE DEF out
<1> QED
  BY <1>1, <1>2, <1>5, <1>7, SentIsGenuine

LEMMA OwnAnswerIsSent ==
    ASSUME TypeInv, TypeInv', NEW u \in Users, NEW d, Receiving(u, d),
           LogsOK', UNCHANGED myPersonalLog
    PROVE  OwnAnswer(u, d) \in [Nodes -> Seq(GenuinePackets')]
<1> DEFINE l == myPersonalLog[u]
           t == OwnLog(u)
           from == Arrived(u, d).shell.sequenceNum
           G == GenuinePackets'
<1>1. t \in LogTypes /\ t[1] = u /\ IsPublished(t)
  BY Identifiers, LogTypesAre DEF OwnLog, LOGTYPE, IsPublished
<1>2. l.log \in Seq(Entries) /\ from \in Int
  BY PersonalType, ArrivedType, EntryType DEF Receiving
<1>3. \A i \in 1..Len(l.log) : NetShell(t, 0, l.log[i]) \in G
  BY <1>1, PublishedIsGenuine
<1> HIDE DEF G
<1>4. Nothing \in [Nodes -> Seq(G)]
  BY NothingCarries
<1>5. sendEntryFromIndexTo(l, Learnt(u, d), getKeyByValue(Learnt(u, d), d), from, t)
          \in [Nodes -> Seq(G)]
  <2> HIDE DEF l, t, from
  <2> QED BY <1>2, <1>3, SendEntryCarries
<1> QED
  BY <1>4, <1>5 DEF OwnAnswer, G

LEMMA ReadingIsSent ==
    ASSUME TypeInv, TypeInv', LogIntegrity, NEW u \in Users, NEW d, Receiving(u, d),
           LogsOK', WrittenLogsGrow, NEW map,
           NEW out \in [Nodes -> Seq(GenuinePackets')], Reading(u, d, map, out)
    PROVE  LogIntegrity'
<1>1. Carry(Taking(u, d), GenuinePackets) /\ channel' = Sending(Taking(u, d), u, out)
  BY ArrivedIsGenuine DEF Receiving, Reading
<1> QED
  BY <1>1, SentIsGenuine

LEMMA ReceiveUserLogs ==
    ASSUME TypeInv, TypeInv', LogIntegrity, NEW u \in Users, NEW d, ReceiveUser(u, d)
    PROVE  LogIntegrity' /\ WrittenLogsGrow /\ TurnOf(u)
<1>1. LogsOK
  BY IntegrityParts
<1>2. ASSUME UNCHANGED <<logPacket, myPersonalLog, started>>
      PROVE  LogsOK' /\ WrittenLogsGrow /\ TurnOf(u)
  BY <1>1, <1>2, Identifiers, LogsUntouched, PersonalLogsStay, NoListTurn
<1>3. CASE AddSwitch(u, d)
  <2> DEFINE map == Insert(Learnt(u, d), Arrived(u, d).shell.authorId, d)
  <2>1. Receiving(u, d) /\ Reading(u, d, map, Nothing) /\ UNCHANGED logPacket
    BY <1>3 DEF AddSwitch
  <2> HIDE DEF map
  <2>2. LogsOK' /\ WrittenLogsGrow /\ TurnOf(u)
    BY <1>2, <2>1 DEF Reading
  <2> QED BY <2>1, <2>2, ReadingIsSent, NothingCarries
<1>4. CASE UpdateContent(u, d)
  <2> DEFINE p == Arrived(u, d)
             new == concatenateEntry(logPacket[u], p.type, p.shell)
  <2>1. /\ Receiving(u, d) /\ IsForeign(u, d)
        /\ logPacket' = [logPacket EXCEPT ![u] = new]
        /\ Reading(u, d, Learnt(u, d), OwnAnswer(u, d))
    BY <1>4 DEF UpdateContent
  <2>2. UNCHANGED <<myPersonalLog, started>>
    BY <2>1 DEF Reading
  <2>3. u \in Nodes /\ u \in started /\ p \in GenuinePackets
    BY <2>1, Identifiers, ArrivedIsGenuine DEF Receiving
  <2>4. p.type \in LogTypes
    <3>1. p \in Packets /\ p.type[2] # "switch*"
      BY <2>1, ArrivedType, Identifiers DEF Receiving, IsForeign, USER_ALL
    <3> QED BY <3>1, PacketType
  <2> HIDE DEF p
  <2>5. /\ IsLogList(new) /\ OwnLogsStay(u, new) /\ OthersArePrefixes(u, new)
        /\ CopiesStep(u, new)
    BY <1>1, <2>3, <2>4, ConcatenationKeeps
  <2> HIDE DEF new
  <2>6. OwnLogsGrow(u, new) /\ ListReplaced(u, new)
    BY <1>1, <2>1, <2>3, <2>5, OwnLogsStayGrow, ReplacingList
  <2>7. LogsOK' /\ WrittenLogsGrow /\ TurnOf(u)
    BY <1>1, <2>2, <2>3, <2>5, <2>6, LogsStep, PersonalLogsStay, ListTurn
  <2>8. OwnAnswer(u, d) \in [Nodes -> Seq(GenuinePackets')]
    BY <2>1, <2>2, <2>7, OwnAnswerIsSent
  <2> QED BY <2>1, <2>7, <2>8, ReadingIsSent
<1>5. CASE AnswerOwnGossip(u, d)
  <2>1. /\ Receiving(u, d) /\ UNCHANGED logPacket
        /\ Reading(u, d, Learnt(u, d), OwnAnswer(u, d))
    BY <1>5 DEF AnswerOwnGossip
  <2>2. LogsOK' /\ WrittenLogsGrow /\ TurnOf(u)
    BY <1>2, <2>1 DEF Reading
  <2>3. OwnAnswer(u, d) \in [Nodes -> Seq(GenuinePackets')]
    BY <2>1, <2>2, OwnAnswerIsSent DEF Reading
  <2> QED BY <2>1, <2>2, <2>3, ReadingIsSent
<1>6. CASE IgnorePacket(u, d)
  <2>1. Receiving(u, d) /\ Reading(u, d, Learnt(u, d), Nothing) /\ UNCHANGED logPacket
    BY <1>6 DEF IgnorePacket
  <2>2. LogsOK' /\ WrittenLogsGrow /\ TurnOf(u)
    BY <1>2, <2>1 DEF Reading
  <2> QED BY <2>1, <2>2, ReadingIsSent, NothingCarries
<1>7. CASE MissPacket(u, d)
  <2>1. /\ Arriving(u, d) /\ channel' = Taking(u, d)
        /\ UNCHANGED <<logPacket, myPersonalLog, started>>
    BY <1>7 DEF MissPacket
  <2>2. LogsOK' /\ WrittenLogsGrow /\ TurnOf(u)
    BY <1>2, <2>1
  <2>3. Carry(channel', GenuinePackets)
    BY <2>1, ArrivedIsGenuine
  <2> QED BY <2>2, <2>3, NothingIsSent
<1> QED
  BY <1>3, <1>4, <1>5, <1>6, <1>7 DEF ReceiveUser

-----------------------------------------------------------------------------
(* The actions of the manager *)

\* The manager's whole log, and any part of it, under its type.
LEMMA JoinAnswersAreSent ==
    ASSUME TypeInv', LogsOK', NEW log, log = myPersonalLog'[ManagerId], ~empty(log),
           NEW map, NEW author
    PROVE  JoinAnswers(log, map, author) \in [Nodes -> Seq(GenuinePackets')]
<1> DEFINE G == GenuinePackets'
           last == getLastEntry(log).sequenceNum
           zero == 0
<1>1. log \in Logs /\ log.log \in Seq(Entries) /\ last \in Int /\ zero \in Int
  BY PersonalTypeNext, LogType, EntryType
<1>2. MyType \in LogTypes /\ MyType[1] = ManagerId /\ IsPublished(MyType)
  BY Identifiers, LogTypesAre DEF MyType, LOGTYPE, IsPublished
<1>3. \A i \in 1..Len(log.log) : NetShell(MyType, 0, log.log[i]) \in G
  BY <1>2, PublishedIsGenuine
<1> HIDE DEF G, last, zero
<1>4. EntriesFrom(log, zero, MyType) \in Seq(G) /\ EntriesFrom(log, last, MyType) \in Seq(G)
  BY <1>1, <1>3, EntriesFromCarries
<1>5. << >> \in Seq(G)
  OBVIOUS
<1>6. JoinAnswers(log, map, author)
          = [m \in Nodes |->
                IF getKeyByValue(map, m) = author THEN EntriesFrom(log, zero, MyType)
                ELSE IF getKeyByValue(map, m) # None THEN EntriesFrom(log, last, MyType)
                ELSE << >>]
  BY DEF JoinAnswers, zero, last
<1>7. JoinAnswers(log, map, author) \in [Nodes -> Seq(G)]
  BY <1>4, <1>5, <1>6
<1> QED
  BY <1>7 DEF G

LEMMA RegisterSwitchLogs ==
    ASSUME TypeInv, TypeInv', LogIntegrity, NEW d, RegisterSwitch(d)
    PROVE  LogIntegrity' /\ WrittenLogsGrow /\ TurnOf(ManagerId)
<1> DEFINE p == Arrived(ManagerId, d)
           author == p.shell.authorId
           request == Registered(d)[p.type]
           map == Insert(neighbourMap[ManagerId], author, d)
           content == ContentShell("addMemberToNetwork", author, 0)
           log == appendLogShell(myPersonalLog[ManagerId], content)
           registers == ~empty(request) /\ getLastEntry(request).shell.function = "addToNetwork"
           new == concatenateEntry(logPacket[ManagerId], p.type, p.shell)
<1>1. /\ Receiving(ManagerId, d) /\ p.type[2] = MANAGER_ALL
      /\ logPacket' = [logPacket EXCEPT ![ManagerId] = new]
      /\ IF registers
         THEN /\ myPersonalLog' = [myPersonalLog EXCEPT ![ManagerId] = log]
              /\ channel' = Sending(Taking(ManagerId, d), ManagerId, JoinAnswers(log, map, author))
         ELSE channel' = Taking(ManagerId, d) /\ UNCHANGED myPersonalLog
      /\ UNCHANGED started
  BY DEF RegisterSwitch, Registered
<1>2. /\ ManagerId \in Nodes /\ ManagerId \in started /\ author \in Nodes
      /\ p \in GenuinePackets /\ p.type \in LogTypes
      /\ LogsOK /\ Carry(Taking(ManagerId, d), GenuinePackets)
  BY <1>1, ArrivedType, HandledTypes, ArrivedIsGenuine DEF Receiving
<1>3. content \in Contents
  BY <1>2, ContentShellType DEF Functions
<1> HIDE DEF p, author, request, map, content
<1>4. /\ IsLogList(new) /\ OwnLogsStay(ManagerId, new) /\ OthersArePrefixes(ManagerId, new)
      /\ CopiesStep(ManagerId, new)
  BY <1>2, ConcatenationKeeps
<1> HIDE DEF new
<1>5. OwnLogsGrow(ManagerId, new) /\ ListReplaced(ManagerId, new)
  BY <1>1, <1>2, <1>4, OwnLogsStayGrow, ReplacingList
<1>6. CASE registers
  <2>1. /\ PersonalLogsGrow /\ myPersonalLog'[ManagerId] = log /\ ~empty(log)
        /\ \A v \in (Users \cup {ManagerId}) \ {ManagerId} : myPersonalLog'[v] = myPersonalLog[v]
    BY <1>1, <1>2, <1>3, <1>6, PersonalAppended
  <2> HIDE DEF log
  <2>2. LogsOK' /\ WrittenLogsGrow /\ TurnOf(ManagerId)
    BY <1>1, <1>2, <1>4, <1>5, <2>1, LogsStep, ListTurn
  <2>3. JoinAnswers(log, map, author) \in [Nodes -> Seq(GenuinePackets')]
    BY <2>1, <2>2, JoinAnswersAreSent
  <2> QED BY <1>1, <1>2, <1>6, <2>2, <2>3, SentIsGenuine
<1>7. CASE ~registers
  <2>1. /\ PersonalLogsGrow
        /\ \A v \in (Users \cup {ManagerId}) \ {ManagerId} : myPersonalLog'[v] = myPersonalLog[v]
    BY <1>1, <1>2, <1>7, PersonalLogsStay
  <2>2. LogsOK' /\ WrittenLogsGrow /\ TurnOf(ManagerId)
    BY <1>1, <1>2, <1>4, <1>5, <2>1, LogsStep, ListTurn
  <2> QED BY <1>1, <1>2, <1>7, <2>2, NothingIsSent
<1> QED
  BY <1>6, <1>7

LEMMA ReceiveManagerLogs ==
    ASSUME TypeInv, TypeInv', LogIntegrity, NEW d, ReceiveManager(d)
    PROVE  LogIntegrity' /\ WrittenLogsGrow /\ TurnOf(ManagerId)
<1>1. LogsOK
  BY IntegrityParts
<1>2. ASSUME UNCHANGED <<logPacket, myPersonalLog, started>>
      PROVE  LogsOK' /\ WrittenLogsGrow /\ TurnOf(ManagerId)
  BY <1>1, <1>2, Identifiers, LogsUntouched, PersonalLogsStay, NoListTurn
<1>3. CASE RegisterSwitch(d)
  BY <1>3, RegisterSwitchLogs
<1>4. CASE AnswerManagerGossip(d)
  <2> DEFINE p == Arrived(ManagerId, d)
             map == neighbourMap[ManagerId]
             l == myPersonalLog[ManagerId]
             from == p.shell.sequenceNum
             answer == sendEntryFromIndexTo(l, map, getKeyByValue(map, d), from, GossipAnswerType)
             out == IF getCurrentSeqNum(l) > from THEN answer ELSE Nothing
  <2>1. /\ Receiving(ManagerId, d)
        /\ channel' = Sending(Taking(ManagerId, d), ManagerId, out)
        /\ UNCHANGED <<logPacket, myPersonalLog, started>>
    BY <1>4 DEF AnswerManagerGossip
  <2>2. Carry(Taking(ManagerId, d), GenuinePackets) /\ from \in Int
    BY <2>1, ArrivedType, EntryType, ArrivedIsGenuine DEF Receiving
  <2>3. LogsOK' /\ WrittenLogsGrow /\ TurnOf(ManagerId)
    BY <1>2, <2>1
  <2>4. l \in Logs /\ l.log \in Seq(Entries)
    BY PersonalType
  <2>5. \A i \in 1..Len(l.log) : NetShell(GossipAnswerType, 0, l.log[i]) \in GenuinePackets'
    <3> SUFFICES ASSUME NEW e \in Entries
                 PROVE  NetShell(GossipAnswerType, 0, e) \in GenuinePackets'
      BY <2>4, LogType
    <3>1. NetShell(GossipAnswerType, 0, e) \in Packets
      BY NetShellType
    <3>2. NetShell(GossipAnswerType, 0, e).type = GossipAnswerType
      BY DEF NetShell
    <3> QED BY <3>1, <3>2 DEF GenuinePackets, IsGenuine
  <2> HIDE DEF l, from, map
  <2>6. out \in [Nodes -> Seq(GenuinePackets')]
    BY <2>2, <2>4, <2>5, SendEntryCarries, NothingCarries
  <2> HIDE DEF out
  <2> QED BY <2>1, <2>2, <2>3, <2>6, SentIsGenuine
<1>5. CASE DropUnknown(d)
  <2>1. /\ Arriving(ManagerId, d) /\ channel' = Taking(ManagerId, d)
        /\ UNCHANGED <<logPacket, myPersonalLog, started>>
    BY <1>5 DEF DropUnknown, Receiving
  <2>2. LogsOK' /\ WrittenLogsGrow /\ TurnOf(ManagerId)
    BY <1>2, <2>1
  <2>3. Carry(channel', GenuinePackets)
    BY <2>1, ArrivedIsGenuine
  <2> QED BY <2>2, <2>3, NothingIsSent
<1> QED
  BY <1>3, <1>4, <1>5 DEF ReceiveManager

-----------------------------------------------------------------------------
(* The network *)

LEMMA ReceiveSwitchLogs ==
    ASSUME TypeInv, TypeInv', LogIntegrity, NEW s \in Switches, NEW d, ReceiveSwitch(s, d)
    PROVE  LogIntegrity' /\ WrittenLogsGrow /\ TurnOf(s)
<1>1. CASE RejectEntry(s, d)
  BY <1>1, ConcatenatingLogs DEF RejectEntry
<1>2. CASE AcceptMember(s, d)
  BY <1>2, ConcatenatingLogs DEF AcceptMember, Accepts, IsAccepting
<1>3. CASE AcceptOther(s, d)
  BY <1>3, ConcatenatingLogs DEF AcceptOther, IsAccepting
<1> QED
  BY <1>1, <1>2, <1>3, DropPacketLogs, ServeRequestLogs, AnswerSwitchGossipLogs,
     AcceptPlugAndPlayLogs, AcceptRequestLogs, AcceptUnsubscribeLogs, ReceiveContentLogs,
     ReceiveUserGossipLogs DEF ReceiveSwitch

\* Losing a packet leaves the others.
LEMMA LosePacketLogs ==
    ASSUME TypeInv, TypeInv', LogIntegrity, NEW l \in LossyLinks, LosePacket(l)
    PROVE  LogIntegrity' /\ WrittenLogsGrow /\ TurnOf(ManagerId)
<1>1. /\ channel[l] # << >> /\ channel' = [channel EXCEPT ![l] = Tail(@)]
      /\ UNCHANGED <<logPacket, myPersonalLog, started>>
  BY DEF LosePacket
<1>2. LogsOK /\ Carry(channel, GenuinePackets)
  BY IntegrityParts
<1>3. LogsOK' /\ WrittenLogsGrow /\ TurnOf(ManagerId)
  BY <1>1, <1>2, Identifiers, LogsUntouched, PersonalLogsStay, NoListTurn
<1>4. Carry(channel', GenuinePackets)
  BY <1>1, <1>2, LossBetweenSwitches, TakingCarries
<1> QED
  BY <1>3, <1>4, NothingIsSent

LEMMA InitLogs == Init => LogIntegrity
<1> SUFFICES ASSUME Init PROVE LogIntegrity
  OBVIOUS
<1>1. /\ \A n \in Nodes : DOMAIN logPacket[n] = {}
      /\ \A l \in Links : channel[l] = << >>
      /\ \A u \in Users : myPersonalLog[u] = NewLog(u)
      /\ myPersonalLog[ManagerId] = appendLogShell(NewLog(ManagerId), InitialContent(None))
  BY Identifiers DEF Init, DeviceInit
<1>2. \A w \in Users \cup {ManagerId} : IsNumbered(myPersonalLog[w].log)
  <2>1. InitialContent(None) \in Contents
    BY ContentShellType DEF InitialContent, Functions
  <2>2. IsNumbered(myPersonalLog[ManagerId].log)
    BY <1>1, <2>1, Identifiers, OpenedLog
  <2>3. \A u \in Users : IsNumbered(myPersonalLog[u].log)
    BY <1>1, Identifiers, NewLogIsNumbered
  <2> QED BY <2>2, <2>3
<1>3. \A t \in LogTypes : IsWritten(t) => IsNumbered(WrittenLog(t))
  BY <1>1, <1>2, LogTypeParts DEF IsWritten, WrittenLog, MyType, LOGTYPE
<1>4. \A l \in Links : \A i \in 1..Len(channel[l]) : IsGenuine(channel[l][i])
  BY <1>1
<1> QED
  BY <1>1, <1>3, <1>4 DEF LogIntegrity

LEMMA NextLogs ==
    TypeInv /\ LogIntegrity /\ [Next]_vars =>
        LogIntegrity' /\ WrittenLogsGrow /\ \E n \in Nodes : TurnOf(n)
<1> DEFINE Done == LogIntegrity' /\ WrittenLogsGrow /\ \E n \in Nodes : TurnOf(n)
<1> SUFFICES ASSUME TypeInv, LogIntegrity, [Next]_vars PROVE Done
  OBVIOUS
<1>1. TypeInv'
  BY NextType
<1>0. /\ \A n \in Nodes : LogIntegrity' /\ WrittenLogsGrow /\ TurnOf(n) => Done
      /\ Switches \subseteq Nodes /\ Users \subseteq Nodes /\ ManagerId \in Nodes
  BY DEF Nodes
<1> HIDE DEF Done
<1>2. ASSUME NEW s \in Switches, SwitchStep(s) PROVE Done
  <2>1. CASE GossipRound(s)
    <3>1. PICK t \in DOMAIN logPacket[s] : Gossip(s, t)
      BY <2>1 DEF GossipRound
    <3> QED BY <1>1, <3>1, GossipLogs, <1>0
  <2> QED BY <1>0, <1>1, <1>2, <2>1, StartSwitchLogs, ReceiveSwitchLogs DEF SwitchStep
<1>3. ASSUME NEW u \in Users, UserStep(u) PROVE Done
  BY <1>0, <1>1, <1>3, StartUserLogs, CallSubscribeLogs, CallUnsubscribeLogs, CallPushLogs,
     ReceiveUserLogs DEF UserStep
<1>4. CASE ManagerStep
  BY <1>0, <1>1, <1>4, ReceiveManagerLogs DEF ManagerStep
<1>5. ASSUME NEW l \in LossyLinks, LosePacket(l) PROVE Done
  BY <1>0, <1>1, <1>5, LosePacketLogs
<1>6. CASE UNCHANGED vars
  <2>1. UNCHANGED <<logPacket, myPersonalLog, channel, started>>
    BY <1>6 DEF vars, deviceVars
  <2>2. LogsOK /\ Carry(channel, GenuinePackets)
    BY IntegrityParts
  <2>3. LogsOK' /\ WrittenLogsGrow /\ TurnOf(ManagerId)
    BY <1>0, <1>1, <2>1, <2>2, LogsUntouched, PersonalLogsStay, NoListTurn
  <2>4. LogIntegrity'
    BY <1>1, <2>1, <2>2, <2>3, NothingIsSent
  <2> QED BY <1>0, <2>3, <2>4
<1> QED
  BY <1>2, <1>3, <1>4, <1>5, <1>6 DEF Next

\* Whatever is lost, dropped by a full queue, relayed, or sent again: packets
\* carry what the writer of their log wrote at the place it was written, and
\* writers number their logs without gaps (createPacket, sendEntryFromIndexTo,
\* forward, appendLogShell).
THEOREM LogsHaveIntegrity == Spec => []LogIntegrity
<1>1. TypeInv /\ LogIntegrity /\ [Next]_vars => LogIntegrity'
  BY NextLogs
<1> QED
  BY InitLogs, SpecType, <1>1, PTL DEF Spec

\* Every log a device holds is, at every moment, a prefix of the log its writer
\* has written: isSubsequentEntry lets nothing else in (concatenateEntry).
THEOREM ReplicasArePrefixes == Spec => []ReplicaIsPrefix
<1>1. LogIntegrity => ReplicaIsPrefix
  BY DEF LogIntegrity, ReplicaIsPrefix
<1> QED
  BY LogsHaveIntegrity, <1>1, PTL

-----------------------------------------------------------------------------
(* A turn of a node of Network is one of ReplicatedLogs *)

LEMMA HeldLogsAre ==
    ASSUME TypeInv, NEW n \in Nodes
    PROVE  /\ Held(n) = {t \in LogTypes : t \in DOMAIN logPacket[n] /\ ~IsOwn(n, t)}
           /\ DOMAIN HeldLogs[n] = Held(n)
           /\ \A t \in Held(n) : HeldLogs[n][t] = logPacket[n][t].log
           /\ HeldLogs[n] = [t \in Held(n) |-> logPacket[n][t].log]
<1>1. DOMAIN logPacket[n] \subseteq LogTypes
  BY ListType
<1> QED
  BY <1>1 DEF Held, HeldLogs

LEMMA HeldLogsAreNext ==
    ASSUME TypeInv', NEW n \in Nodes
    PROVE  /\ Held(n)' = {t \in LogTypes : t \in DOMAIN logPacket'[n] /\ ~IsOwn(n, t)}
           /\ HeldLogs'[n] = [t \in Held(n)' |-> logPacket'[n][t].log]
<1>1. DOMAIN logPacket'[n] \subseteq LogTypes
  BY ListTypeNext
<1> QED
  BY <1>1 DEF Held, HeldLogs, IsOwn, IsPublished, MyType

\* What n writes grows, and nobody else writes.
LEMMA TurnWrites ==
    ASSUME TypeInv, TypeInv', WrittenLogsGrow, NEW n, TurnOf(n)
    PROVE  Replicas!Write(n)
<1>1. ASSUME NEW t \in LogTypes, t[1] # n
      PROVE  (IsWritten(t)' <=> IsWritten(t)) /\ (IsWritten(t) => WrittenLog(t)' = WrittenLog(t))
  <2>1. CASE IsPublished(t)
    BY <1>1, <2>1 DEF TurnOf, IsWritten, WrittenLog, IsPublished, MyType, LOGTYPE
  <2>2. CASE ~IsPublished(t)
    <3>1. logPacket'[t[1]] = logPacket[t[1]]
      BY <1>1, LogTypeParts DEF TurnOf
    <3> QED BY <2>2, <3>1 DEF IsWritten, WrittenLog, IsPublished, MyType
  <2> QED BY <2>1, <2>2
<1>2. /\ DOMAIN WrittenLogs = {t \in LogTypes : IsWritten(t)}
      /\ \A t \in DOMAIN WrittenLogs : WrittenLogs[t] = WrittenLog(t)
      /\ DOMAIN WrittenLogs' = {t \in LogTypes : IsWritten(t)'}
      /\ \A t \in DOMAIN WrittenLogs' : WrittenLogs'[t] = WrittenLog(t)'
  BY DEF WrittenLogs
<1>3. DOMAIN WrittenLogs \subseteq DOMAIN WrittenLogs'
  BY <1>2 DEF WrittenLogsGrow
<1>4. ASSUME NEW t \in DOMAIN WrittenLogs'
      PROVE  IF t[1] = n THEN t \in DOMAIN WrittenLogs => IsPrefix(WrittenLogs[t], WrittenLogs'[t])
             ELSE t \in DOMAIN WrittenLogs /\ WrittenLogs'[t] = WrittenLogs[t]
  <2>1. t \in LogTypes /\ IsWritten(t)'
    BY <1>2
  <2>2. CASE t[1] = n
    BY <1>2, <2>1, <2>2 DEF WrittenLogsGrow
  <2>3. CASE t[1] # n
    BY <1>1, <1>2, <2>1, <2>3
  <2> QED BY <2>2, <2>3
<1> QED
  BY <1>3, <1>4 DEF Replicas!Write, Replicas!IsPrefix, IsPrefix

\* What is held of logs that others write changes as ReplicatedLogs allows.
LEMMA TurnHands ==
    ASSUME TypeInv, TypeInv', NEW n, TurnOf(n)
    PROVE  \/ UNCHANGED HeldLogs
           \/ \E t \in DOMAIN WrittenLogs : Replicas!Take(n, t)
           \/ \E t \in DOMAIN HeldLogs[n] : Replicas!Drop(n, t)
<1> DEFINE list == logPacket'[n]
<1>1. n \in Nodes /\ CopiesStep(n, list)
  BY DEF TurnOf
<1>2. ASSUME NEW m \in Nodes \ {n}
      PROVE  HeldLogs'[m] = HeldLogs[m]
  <2>1. logPacket'[m] = logPacket[m]
    BY DEF TurnOf
  <2>2. Held(m)' = Held(m)
    BY <2>1, HeldLogsAre, HeldLogsAreNext
  <2> QED BY <2>1, <2>2, HeldLogsAre, HeldLogsAreNext, ZenonT(60)
<1>3. /\ Held(n) = {t \in LogTypes : t \in DOMAIN logPacket[n] /\ ~IsOwn(n, t)}
      /\ DOMAIN HeldLogs[n] = Held(n)
      /\ HeldLogs[n] = [t \in Held(n) |-> logPacket[n][t].log]
      /\ Held(n)' = {t \in LogTypes : t \in DOMAIN list /\ ~IsOwn(n, t)}
      /\ HeldLogs'[n] = [t \in Held(n)' |-> list[t].log]
  BY <1>1, HeldLogsAre, HeldLogsAreNext
<1>4. /\ HeldLogs = [m \in Nodes |-> HeldLogs[m]]
      /\ HeldLogs' = [m \in Nodes |-> HeldLogs'[m]]
  BY DEF HeldLogs
<1> HIDE DEF list
\* It is enough to look at n.
<1>5. ASSUME NEW new, HeldLogs'[n] = new
      PROVE  HeldLogs' = [HeldLogs EXCEPT ![n] = new]
  <2>1. \A m \in Nodes : HeldLogs'[m] = IF m = n THEN new ELSE HeldLogs[m]
    BY <1>2, <1>5
  <2>2. [HeldLogs EXCEPT ![n] = new] = [m \in Nodes |-> IF m = n THEN new ELSE HeldLogs[m]]
    BY <1>4
  <2> QED BY <1>4, <2>1, <2>2
<1>6. CASE SameCopies(n, logPacket[n], list)
  <2>1. Held(n)' = Held(n) /\ \A t \in Held(n) : list[t].log = logPacket[n][t].log
    BY <1>3, <1>6 DEF SameCopies, SameCopy
  <2>2. HeldLogs'[n] = HeldLogs[n]
    BY <1>3, <2>1
  <2> QED BY <1>2, <1>4, <2>2
<1>7. ASSUME NEW t \in LogTypes, Takes(n, list, t)
      PROVE  t \in DOMAIN WrittenLogs /\ Replicas!Take(n, t)
  <2> DEFINE copy == list[t].log
             new == [u \in DOMAIN HeldLogs[n] \cup {t} |->
                        IF u = t THEN copy ELSE HeldLogs[n][u]]
  <2>1. t \in DOMAIN WrittenLogs /\ WrittenLogs[t] = WrittenLog(t)
    BY <1>7 DEF Takes, WrittenLogs
  <2>2. t \in Held(n)' /\ (t \in DOMAIN HeldLogs[n] <=> t \in DOMAIN logPacket[n])
    BY <1>3, <1>7 DEF Takes
  <2>3. (IF t \in DOMAIN HeldLogs[n] THEN HeldLogs[n][t] ELSE << >>) = CopyOf(n, t)
    BY <1>3, <2>2 DEF CopyOf
  <2>4. copy \in Replicas!Handed(CopyOf(n, t), t)
    <3> DEFINE w == WrittenLog(t)
               old == CopyOf(n, t)
    <3>1. \/ copy = old
          \/ Len(old) + 1 \in 1..Len(w) /\ copy = Append(old, w[Len(old) + 1])
      BY <1>7 DEF Takes
    <3>2. w \in Seq(Entries)
      BY <1>7, WrittenLogType DEF Takes
    <3>3. DOMAIN w = 1..Len(w)
      BY <3>2, LenProperties
    <3> HIDE DEF old, w, copy
    <3>4. WrittenLogs[t] = w
      BY <2>1 DEF w
    <3>5. copy \in {old} \cup {Append(old, w[i]) : i \in {Len(old) + 1} \cap DOMAIN w}
      BY <3>1, <3>3
    <3>6. copy \in Replicas!Handed(old, t)
      BY <3>4, <3>5 DEF Replicas!Handed
    <3> QED BY <3>6 DEF old
  <2>5. \A u \in LogTypes \ {t} : ~IsOwn(n, u) => SameCopy(n, logPacket[n], list, u)
    BY <1>7 DEF Takes, SameButOne
  <2>6. Held(n)' = Held(n) \cup {t} /\ \A u \in Held(n) \ {t} : list[u].log = logPacket[n][u].log
    BY <1>3, <2>2, <2>5 DEF SameCopy
  <2>7. HeldLogs'[n] = new
    BY <1>3, <2>6
  <2>8. HeldLogs' = [HeldLogs EXCEPT ![n] = new]
    <3> HIDE DEF new
    <3> QED BY <1>5, <2>7
  <2> QED BY <2>1, <2>3, <2>4, <2>8 DEF Replicas!Take
<1>8. ASSUME NEW t \in LogTypes, Drops(n, list, t)
      PROVE  t \in DOMAIN HeldLogs[n] /\ Replicas!Drop(n, t)
  <2> DEFINE new == [u \in DOMAIN HeldLogs[n] \ {t} |-> HeldLogs[n][u]]
  <2>1. /\ <<n, t>> \in UserSubscriptions /\ t \in Held(n) /\ t \notin Held(n)'
        /\ \A u \in LogTypes \ {t} : ~IsOwn(n, u) => SameCopy(n, logPacket[n], list, u)
    BY <1>3, <1>8 DEF Drops, SameButOne
  <2>2. Held(n)' = Held(n) \ {t} /\ \A u \in Held(n) \ {t} : list[u].log = logPacket[n][u].log
    BY <1>3, <2>1 DEF SameCopy
  <2>3. HeldLogs'[n] = new
    BY <1>3, <2>2
  <2>4. HeldLogs' = [HeldLogs EXCEPT ![n] = new]
    <3> HIDE DEF new
    <3> QED BY <1>5, <2>3
  <2> QED BY <1>3, <2>1, <2>4 DEF Replicas!Drop
<1>9. CASE \E t \in LogTypes : Takes(n, list, t)
  BY <1>7, <1>9
<1>10. CASE \E t \in LogTypes : Drops(n, list, t)
  BY <1>8, <1>10
<1> QED
  BY <1>1, <1>6, <1>9, <1>10 DEF CopiesStep

LEMMA TurnIsATurn ==
    ASSUME TypeInv, TypeInv', WrittenLogsGrow, NEW n, TurnOf(n)
    PROVE  Replicas!Next
<1>1. n \in Nodes /\ Replicas!Write(n)
  BY TurnWrites DEF TurnOf
<1>2. Replicas!Turn(n)
  BY <1>1, TurnHands DEF Replicas!Turn
<1> QED
  BY <1>1, <1>2 DEF Replicas!Next

-----------------------------------------------------------------------------
(* The refinement *)

\* At first nothing is written but the manager's opening entry.
LEMMA InitRefines == Init => Replicas!Init
<1> SUFFICES ASSUME Init PROVE Replicas!Init
  OBVIOUS
<1>1. /\ \A n \in Nodes : DOMAIN logPacket[n] = {}
      /\ \A u \in Users : myPersonalLog[u] = NewLog(u)
      /\ myPersonalLog[ManagerId] = appendLogShell(NewLog(ManagerId), InitialContent(None))
  BY Identifiers DEF Init, DeviceInit
<1>2. ASSUME NEW w \in Users \cup {ManagerId}
      PROVE  Len(myPersonalLog[w].log) <= 1
  <2>1. CASE w \in Users
    <3>1. myPersonalLog[w] = NewLog(w) /\ NewLog(w).log = << >>
      BY <1>1, <2>1, Identifiers, NewLogIsNumbered
    <3>2. Len(<< >>) = 0
      OBVIOUS
    <3> QED BY <3>1, <3>2
  <2>2. CASE w = ManagerId
    <3> DEFINE cs == <<InitialContent(None)>>
    <3>1. cs \in Seq(Contents) /\ Len(cs) = 1
      <4>1. InitialContent(None) \in Contents
        BY ContentShellType DEF InitialContent, Functions
      <4> HIDE DEF Contents
      <4> QED BY <4>1
    <3>2. myPersonalLog[ManagerId] = AppendLogShells(NewLog(ManagerId), cs)
      BY <1>1 DEF appendLogShell
    <3> HIDE DEF cs
    <3>3. /\ NewLog(ManagerId) \in Logs /\ NewLog(ManagerId).log = << >>
          /\ IsNumbered(NewLog(ManagerId).log)
      BY Identifiers, NewLogIsNumbered
    <3>4. Len(myPersonalLog[ManagerId].log) = Len(NewLog(ManagerId).log) + Len(cs)
      BY <3>1, <3>2, <3>3, AppendingNumbers
    <3> QED BY <2>2, <3>1, <3>3, <3>4
  <2> QED BY <2>1, <2>2
<1>3. ASSUME NEW t \in DOMAIN WrittenLogs
      PROVE  Len(WrittenLogs[t]) <= 1
  <2>1. t \in LogTypes /\ IsWritten(t) /\ WrittenLogs[t] = WrittenLog(t)
    BY DEF WrittenLogs
  <2>2. IsPublished(t)
    BY <1>1, <2>1, LogTypeParts DEF IsWritten
  <2> QED BY <1>2, <2>1, <2>2 DEF IsWritten, WrittenLog, MyType, LOGTYPE
<1>4. HeldLogs = [n \in Nodes |-> << >>]
  <2>1. ASSUME NEW n \in Nodes
        PROVE  [t \in Held(n) |-> logPacket[n][t].log] = << >>
    <3>1. Held(n) = {}
      BY <1>1 DEF Held
    <3> QED BY <3>1
  <2> QED BY <2>1 DEF HeldLogs
<1> QED
  BY <1>3, <1>4 DEF Replicas!Init

LEMMA StepRefines ==
    TypeInv /\ TypeInv' /\ LogIntegrity /\ [Next]_vars => [Replicas!Next]_(Replicas!vars)
  BY NextLogs, TurnIsATurn

\* The network implements replicated logs: whatever is lost, relayed or asked
\* for again, every step is a turn of one node, which adds to the logs it
\* writes and is handed the next entry of at most one other log; only users
\* give a replica up (recvPkt, concatenateEntry, appendLogShell, unsubscribe).
THEOREM NetworkImplementsReplicatedLogs == Spec => ImplementsReplicatedLogs
<1>1. TypeInv /\ TypeInv' /\ LogIntegrity /\ [Next]_vars => [Replicas!Next]_(Replicas!vars)
  BY StepRefines
<1> QED
  BY InitRefines, SpecType, LogsHaveIntegrity, <1>1, PTL
     DEF Spec, ImplementsReplicatedLogs, Replicas!Spec

=============================================================================
