-------------------------- MODULE NetworkTypeProofs --------------------------
(***************************************************************************)
(* TypeOK is an invariant of Network, for every network and schedule.      *)
(***************************************************************************)
EXTENDS Network, SequenceTheorems, FiniteSetTheorems, TLAPS

-----------------------------------------------------------------------------
(* Sequences *)

\* A function on 1..n is a sequence of length n.
LEMMA FunctionIsSeq ==
    ASSUME NEW S, NEW n \in Nat, NEW f \in [1..n -> S]
    PROVE  f \in Seq(S) /\ Len(f) = n
<1>1. f \in Seq(S)
  BY SeqDef
<1>2. DOMAIN f = 1..Len(f) /\ Len(f) \in Nat
  BY <1>1, LenProperties
<1> QED
  BY <1>1, <1>2

\* A singleton sequence.
LEMMA SingleIsSeq ==
    ASSUME NEW S, NEW e \in S
    PROVE  <<e>> \in Seq(S) /\ Len(<<e>>) = 1 /\ <<e>>[1] = e
  OBVIOUS

\* sendPacket: a queue takes packets in order and up to its limit.
LEMMA EnqueueProperties ==
    ASSUME NEW S, NEW queue \in Seq(S), NEW packets \in Seq(S), Len(queue) <= QueueSize
    PROVE  /\ Enqueue(queue, packets) \in Seq(S)
           /\ Len(Enqueue(queue, packets)) <= QueueSize
<1> DEFINE all == queue \o packets
<1>1. all \in Seq(S)
  BY ConcatProperties
<1>2. Len(all) \in Nat /\ \A i \in 1..Len(all) : all[i] \in S
  BY <1>1, LenProperties, ElementOfSeq
<1>3. QueueSize \in Nat
  BY QueueSizeIsPositive
<1>4. CASE Len(all) <= QueueSize
  BY <1>1, <1>4 DEF Enqueue
<1>5. CASE Len(all) > QueueSize
  <2>1. \A i \in 1..QueueSize : all[i] \in S
    BY <1>2, <1>3, <1>5
  <2>2. SubSeq(all, 1, QueueSize) \in Seq(S) /\ Len(SubSeq(all, 1, QueueSize)) <= QueueSize
    <3> HIDE DEF all
    <3> QED BY <2>1, <1>3, SubSeqProperties
  <2> QED
    BY <2>2, <1>2, <1>3, <1>5 DEF Enqueue
<1> QED
  BY <1>2, <1>3, <1>4, <1>5

-----------------------------------------------------------------------------
(* Links *)

\* What the links carry is of type S, and within their limit.
Carry(links, S) ==
    links \in [Links -> Seq(S)] /\ \A l \in Links : Len(links[l]) <= QueueSize

\* A node sends packets of S only: the links still carry S.
LEMMA SendingCarries ==
    ASSUME NEW S, NEW links, Carry(links, S), NEW n, NEW out \in [Nodes -> Seq(S)]
    PROVE  Carry(Sending(links, n, out), S)
<1>1. ASSUME NEW l \in Links
      PROVE  /\ Sending(links, n, out)[l] \in Seq(S)
             /\ Len(Sending(links, n, out)[l]) <= QueueSize
  <2>1. out[l[2]] \in Seq(S)
    BY LinksConnectNodes
  <2>2. links[l] \in Seq(S) /\ Len(links[l]) <= QueueSize
    BY DEF Carry
  <2>3. /\ Enqueue(links[l], out[l[2]]) \in Seq(S)
        /\ Len(Enqueue(links[l], out[l[2]])) <= QueueSize
    BY <2>1, <2>2, EnqueueProperties
  <2> QED
    BY <2>2, <2>3 DEF Sending
<1>2. Sending(links, n, out) \in [Links -> Seq(S)]
  <2>1. Sending(links, n, out)
            = [l \in Links |-> IF l[1] = n THEN Enqueue(links[l], out[l[2]]) ELSE links[l]]
    BY DEF Sending
  <2> QED
    BY <1>1, <2>1
<1> QED
  BY <1>1, <1>2 DEF Carry

\* Reading a packet: it was of S, and the links still carry S.
LEMMA TakingCarries ==
    ASSUME NEW S, Carry(channel, S), NEW l \in Links, channel[l] # << >>
    PROVE  Head(channel[l]) \in S /\ Carry([channel EXCEPT ![l] = Tail(@)], S)
<1>1. channel[l] \in Seq(S) /\ Len(channel[l]) <= QueueSize
  BY DEF Carry
<1>2. Len(channel[l]) \in Nat /\ QueueSize \in Nat
  BY <1>1, LenProperties, QueueSizeIsPositive
<1>3. /\ Head(channel[l]) \in S
      /\ Tail(channel[l]) \in Seq(S)
      /\ Len(Tail(channel[l])) <= QueueSize
  BY <1>1, <1>2, HeadTailProperties
<1> QED
  BY <1>3 DEF Carry

LEMMA ArrivedCarries ==
    ASSUME NEW S, Carry(channel, S), NEW n, NEW d, Arriving(n, d)
    PROVE  Arrived(n, d) \in S /\ Carry(Taking(n, d), S)
  BY TakingCarries DEF Arriving, Arrived, Taking

\* sendEntryFromIndexTo sends entries of the log alone.
LEMMA EntriesFromCarries ==
    ASSUME NEW S, NEW l, NEW type, NEW from \in Int,
           l.log \in Seq(Entries),
           \A i \in 1..Len(l.log) : NetShell(type, 0, l.log[i]) \in S
    PROVE  EntriesFrom(l, from, type) \in Seq(S)
<1> DEFINE first == IF from < 0 THEN 0 ELSE from
           sent == SubSeq(l.log, first + 1, Len(l.log))
           n == IF first + 1 <= Len(l.log) THEN Len(l.log) - first ELSE 0
<1>1. Len(l.log) \in Nat /\ \A i \in 1..Len(l.log) : l.log[i] \in Entries
  BY LenProperties, ElementOfSeq
<1>2. first \in Nat /\ n \in Nat
  BY <1>1
<1>3. /\ Len(sent) = n
      /\ \A i \in 1..n : sent[i] = l.log[first + i]
  <2>1. \A i \in (first + 1)..Len(l.log) : l.log[i] \in Entries
    BY <1>1, <1>2
  <2> HIDE DEF first
  <2>2. /\ Len(sent) = IF first + 1 <= Len(l.log) THEN Len(l.log) - (first + 1) + 1 ELSE 0
        /\ \A i \in 1 .. Len(l.log) - (first + 1) + 1 : sent[i] = l.log[first + 1 + i - 1]
    BY <1>1, <1>2, <2>1, SubSeqProperties
  <2> QED
    BY <1>1, <1>2, <2>2
<1>4. \A i \in 1..n : NetShell(type, 0, sent[i]) \in S
  BY <1>1, <1>2, <1>3
<1>5. EntriesFrom(l, from, type) = [i \in 1..n |-> NetShell(type, 0, sent[i])]
  BY <1>3 DEF EntriesFrom
<1> HIDE DEF n, sent
<1>6. [i \in 1..n |-> NetShell(type, 0, sent[i])] \in [1..n -> S]
  BY <1>4
<1> QED
  BY <1>2, <1>5, <1>6, FunctionIsSeq

LEMMA SendEntryCarries ==
    ASSUME NEW S, NEW l, NEW type, NEW from \in Int, NEW map, NEW receiver,
           l.log \in Seq(Entries),
           \A i \in 1..Len(l.log) : NetShell(type, 0, l.log[i]) \in S
    PROVE  sendEntryFromIndexTo(l, map, receiver, from, type) \in [Nodes -> Seq(S)]
<1>1. EntriesFrom(l, from, type) \in Seq(S) /\ << >> \in Seq(S)
  BY EntriesFromCarries
<1> QED
  BY <1>1 DEF sendEntryFromIndexTo

LEMMA NothingCarries ==
    ASSUME NEW S
    PROVE  Nothing \in [Nodes -> Seq(S)]
  BY DEF Nothing

-----------------------------------------------------------------------------
(* Entries and logs *)

\* The constants of the identifiers, as the provers need them.
LEMMA Identifiers ==
    /\ ManagerId \in Nodes /\ Users \subseteq Nodes /\ Switches \subseteq Nodes
    /\ ManagerId \notin Users \cup Switches
    /\ Users \cap Switches = {}
    /\ None \notin Nodes
    /\ \A r \in {USER_ALL, SWITCH_ALL, MANAGER_ALL, "switch*", "p"} : r \notin Nodes \cup {None}
  BY IdsDistinct DEF Nodes

LEMMA LinksAreOfNodes ==
    ASSUME NEW n, NEW d, <<n, d>> \in Links
    PROVE  n \in Nodes /\ d \in Nodes /\ <<d, n>> \in Links
  BY LinksConnectNodes

\* What the operations write is content.
LEMMA ContentShellType ==
    ASSUME NEW f \in Functions, NEW a \in Nodes \cup {None, "p"}, NEW i \in Nat,
           a \in Nodes \/ f \notin {"addMemberToNetwork", "getContentFrom", "removeUserFromInl"}
    PROVE  ContentShell(f, a, i) \in Contents
  BY DEF ContentShell, Contents

LEMMA EntryType ==
    ASSUME NEW e \in Entries
    PROVE  /\ e.sequenceNum \in Int /\ e.authorId \in Nodes /\ e.shell \in Contents
           /\ e.shell.function \in Functions
           /\ e.shell.params \in Nodes \cup {None, "p"}
           /\ e.shell.function \in {"addMemberToNetwork", "getContentFrom", "removeUserFromInl"}
                  => e.shell.params \in Nodes
  BY DEF Entries, Contents

LEMMA LogType ==
    ASSUME NEW l \in Logs
    PROVE  /\ l.owner \in Nodes
           /\ l.log \in Seq(Entries)
           /\ Len(l.log) \in Nat
           /\ \A i \in 1..Len(l.log) : l.log[i] \in Entries
           /\ ~empty(l) => Len(l.log) > 0 /\ getLastEntry(l) \in Entries
           /\ empty(l) <=> Len(l.log) = 0
           /\ getCurrentSeqNum(l) \in Int
<1>1. l.owner \in Nodes /\ l.log \in Seq(Entries)
  BY DEF Logs
<1>2. Len(l.log) \in Nat /\ \A i \in 1..Len(l.log) : l.log[i] \in Entries
  BY <1>1, LenProperties, ElementOfSeq
<1>3. empty(l) <=> Len(l.log) = 0
  BY <1>1, EmptySeq DEF empty
<1>4. ~empty(l) => Len(l.log) > 0 /\ getLastEntry(l) \in Entries
  BY <1>2, <1>3 DEF getLastEntry
<1>5. getCurrentSeqNum(l) \in Int
  BY <1>4, EntryType DEF getCurrentSeqNum
<1> QED
  BY <1>1, <1>2, <1>3, <1>4, <1>5

LEMMA NewLogType ==
    ASSUME NEW owner \in Nodes
    PROVE  NewLog(owner) \in Logs /\ empty(NewLog(owner)) /\ NewLog(owner).owner = owner
  BY DEF NewLog, Logs, empty

\* appendLogShell: as many entries more, all those before untouched, and the
\* last one numbered after the current one.
LEMMA AppendLogShellsType ==
    ASSUME NEW l \in Logs, NEW contents \in Seq(Contents)
    PROVE  LET new == AppendLogShells(l, contents)
           IN  /\ new \in Logs
               /\ new.owner = l.owner
               /\ Len(new.log) = Len(l.log) + Len(contents)
               /\ \A i \in 1..Len(l.log) : new.log[i] = l.log[i]
               /\ \A i \in 1..Len(contents) :
                      LET e == new.log[Len(l.log) + i]
                      IN  /\ e.sequenceNum = getCurrentSeqNum(l) + i
                          /\ e.authorId = l.owner /\ e.shell = contents[i]
<1> DEFINE cur == getCurrentSeqNum(l)
           n == Len(contents)
           PrevHash(i) == IF i > 1 THEN <<contents[i - 1]>>
                          ELSE IF empty(l) THEN NoHash
                          ELSE createHash(getLastEntry(l))
           Entry(i) == LogShell(cur + i, PrevHash(i), l.owner, sign(cur + i), contents[i])
           added == [i \in 1..n |-> Entry(i)]
<1>1. n \in Nat /\ \A i \in 1..n : contents[i] \in Contents
  BY LenProperties, ElementOfSeq
<1>2. /\ cur \in Int /\ l.owner \in Nodes /\ l.log \in Seq(Entries)
      /\ ~empty(l) => getLastEntry(l).shell \in Contents
  BY LogType, EntryType
<1>3. ASSUME NEW i \in 1..n
      PROVE  /\ Entry(i) \in Entries /\ Entry(i).sequenceNum = cur + i
             /\ Entry(i).authorId = l.owner /\ Entry(i).shell = contents[i]
  <2>1. PrevHash(i) \in Seq(Contents)
    <3>1. CASE i > 1
      <4>1. contents[i - 1] \in Contents
        BY <1>1, <3>1
      <4> QED BY <3>1, <4>1
    <3>2. CASE ~(i > 1)
      BY <1>2, <3>2 DEF NoHash, createHash
    <3> QED BY <3>1, <3>2
  <2>2. cur + i \in Int /\ sign(cur + i) \in Seq(Int)
    BY <1>1, <1>2 DEF sign
  <2> HIDE DEF PrevHash, cur
  <2> QED
    BY <1>1, <1>2, <2>1, <2>2 DEF LogShell, Entries
<1>4. added \in [1..n -> Entries]
  BY <1>3
<1>5. added \in Seq(Entries) /\ Len(added) = n
  <2> HIDE DEF added, n
  <2> QED BY <1>1, <1>4, FunctionIsSeq
<1>6. AppendLogShells(l, contents) = [l EXCEPT !.log = @ \o added]
  BY DEF AppendLogShells
<1> DEFINE new == AppendLogShells(l, contents)
<1>7. new \in Logs /\ new.owner = l.owner /\ new.log = l.log \o added
  <2>1. l.log \o added \in Seq(Entries)
    BY <1>2, <1>5, ConcatProperties
  <2> HIDE DEF added
  <2> QED BY <1>6, <2>1 DEF Logs
<1>8. /\ Len(l.log \o added) = Len(l.log) + n
      /\ \A i \in 1 .. Len(l.log) + n : (l.log \o added)[i] =
             IF i <= Len(l.log) THEN l.log[i] ELSE added[i - Len(l.log)]
  <2> HIDE DEF added, n
  <2> QED BY <1>2, <1>5, ConcatProperties
<1>9. Len(l.log) \in Nat
  BY LogType
<1>10. ASSUME NEW i \in 1..Len(l.log)
       PROVE  new.log[i] = l.log[i]
  BY <1>1, <1>7, <1>8, <1>9
<1>11. ASSUME NEW i \in 1..n
       PROVE  /\ new.log[Len(l.log) + i].sequenceNum = cur + i
              /\ new.log[Len(l.log) + i].authorId = l.owner
              /\ new.log[Len(l.log) + i].shell = contents[i]
  <2>1. new.log[Len(l.log) + i] = added[i]
    BY <1>1, <1>7, <1>8, <1>9
  <2>2. added[i] = Entry(i)
    OBVIOUS
  <2> QED BY <1>3, <2>1, <2>2
<1> QED
  BY <1>7, <1>8, <1>10, <1>11

\* The same for one content.
LEMMA appendLogShellType ==
    ASSUME NEW l \in Logs, NEW content \in Contents
    PROVE  LET new == appendLogShell(l, content)
           IN  /\ new \in Logs
               /\ new.owner = l.owner
               /\ ~empty(new)
               /\ Len(new.log) = Len(l.log) + 1
               /\ \A i \in 1..Len(l.log) : new.log[i] = l.log[i]
               /\ getLastEntry(new) \in Entries
               /\ getLastEntry(new) = new.log[Len(l.log) + 1]
               /\ getLastEntry(new).sequenceNum = getCurrentSeqNum(l) + 1
               /\ getLastEntry(new).authorId = l.owner
               /\ getLastEntry(new).shell = content
<1>1. <<content>> \in Seq(Contents) /\ Len(<<content>>) = 1
  OBVIOUS
<1>2. LET new == appendLogShell(l, content)
      IN  /\ new \in Logs
          /\ new.owner = l.owner
          /\ Len(new.log) = Len(l.log) + 1
          /\ \A i \in 1..Len(l.log) : new.log[i] = l.log[i]
          /\ new.log[Len(l.log) + 1].sequenceNum = getCurrentSeqNum(l) + 1
          /\ new.log[Len(l.log) + 1].authorId = l.owner
          /\ new.log[Len(l.log) + 1].shell = content
  <2> DEFINE cs == <<content>>
  <2>1. cs \in Seq(Contents) /\ Len(cs) = 1 /\ 1 \in 1..Len(cs)
    BY <1>1
  <2> HIDE DEF cs
  <2>2. LET new == AppendLogShells(l, cs)
        IN  /\ new \in Logs
            /\ new.owner = l.owner
            /\ Len(new.log) = Len(l.log) + Len(cs)
            /\ \A i \in 1..Len(l.log) : new.log[i] = l.log[i]
            /\ new.log[Len(l.log) + 1].sequenceNum = getCurrentSeqNum(l) + 1
            /\ new.log[Len(l.log) + 1].authorId = l.owner
            /\ new.log[Len(l.log) + 1].shell = cs[1]
    BY <2>1, AppendLogShellsType
  <2>3. cs[1] = content /\ appendLogShell(l, content) = AppendLogShells(l, cs)
    BY DEF appendLogShell, cs
  <2> HIDE DEF cs
  <2> QED
    BY <2>1, <2>2, <2>3
<1>3. Len(l.log) \in Nat
  BY LogType
<1> DEFINE new == appendLogShell(l, content)
<1>4. ~empty(new) /\ getLastEntry(new) = new.log[Len(l.log) + 1]
  <2> HIDE DEF new
  <2>1. new \in Logs /\ Len(new.log) = Len(l.log) + 1
    BY <1>2 DEF new
  <2> QED
    BY <1>3, <2>1, LogType DEF getLastEntry
<1> HIDE DEF new
<1>5. getLastEntry(new) \in Entries
  BY <1>2, <1>4, LogType DEF new
<1> QED
  BY <1>2, <1>4, <1>5 DEF new

\* addToLog appends the entry or leaves the log alone.
LEMMA addToLogType ==
    ASSUME NEW l \in Logs, NEW e \in Entries
    PROVE  addToLog(l, e) \in Logs /\ addToLog(l, e).owner = l.owner
<1>1. Append(l.log, e) \in Seq(Entries)
  BY LogType, AppendProperties
<1> QED
  BY <1>1 DEF addToLog, Logs

-----------------------------------------------------------------------------
(* Lists of logs, maps of neighbours, interests *)

LEMMA InsertLogType ==
    ASSUME NEW list, IsLogList(list), NEW type \in LogTypes, NEW l \in Logs
    PROVE  /\ IsLogList(Insert(list, type, l))
           /\ DOMAIN Insert(list, type, l) = DOMAIN list \cup {type}
           /\ \A t \in DOMAIN list : Insert(list, type, l)[t] = list[t]
           /\ type \notin DOMAIN list => Insert(list, type, l)[type] = l
  BY DEF Insert, IsLogList

LEMMA UpdateLogType ==
    ASSUME NEW list, IsLogList(list), NEW type \in DOMAIN list, NEW l \in Logs
    PROVE  IsLogList([list EXCEPT ![type] = l])
  BY DEF IsLogList

LEMMA WithoutType ==
    ASSUME NEW list, IsLogList(list), NEW type
    PROVE  /\ IsLogList(Without(list, type))
           /\ DOMAIN Without(list, type) = DOMAIN list \ {type}
           /\ \A t \in DOMAIN list \ {type} : Without(list, type)[t] = list[t]
  BY DEF Without, IsLogList

\* concatenateEntry: the log of the type, created if need be, takes the entry
\* or not; the others stay.
LEMMA concatenateEntryType ==
    ASSUME NEW list, IsLogList(list), NEW type \in LogTypes, NEW e \in Entries
    PROVE  LET new == concatenateEntry(list, type, e)
               old == IF type \in DOMAIN list THEN list[type] ELSE NewLog(e.authorId)
           IN  /\ IsLogList(new)
               /\ DOMAIN new = DOMAIN list \cup {type}
               /\ \A t \in DOMAIN list \ {type} : new[t] = list[t]
               /\ new[type] = addToLog(old, e)
               /\ old \in Logs
<1> DEFINE new == concatenateEntry(list, type, e)
           known == Insert(list, type, NewLog(e.authorId))
           old == IF type \in DOMAIN list THEN list[type] ELSE NewLog(e.authorId)
<1>1. NewLog(e.authorId) \in Logs
  BY EntryType, NewLogType
<1>2. /\ IsLogList(known)
      /\ DOMAIN known = DOMAIN list \cup {type}
      /\ \A t \in DOMAIN list : known[t] = list[t]
      /\ type \notin DOMAIN list => known[type] = NewLog(e.authorId)
  BY <1>1, InsertLogType
<1>3. known[type] = old /\ old \in Logs
  BY <1>1, <1>2 DEF IsLogList
<1>4. new = [known EXCEPT ![type] = addToLog(old, e)]
  <2>1. new = [known EXCEPT ![type] = addToLog(@, e)]
    BY DEF concatenateEntry
  <2> QED BY <1>3, <2>1
<1>5. addToLog(old, e) \in Logs
  BY <1>3, addToLogType
<1> HIDE DEF known, old, new
<1>6. IsLogList(new)
  BY <1>2, <1>4, <1>5, UpdateLogType
<1>7. /\ DOMAIN new = DOMAIN list \cup {type}
      /\ \A t \in DOMAIN list \ {type} : new[t] = list[t]
      /\ new[type] = addToLog(old, e)
  BY <1>2, <1>4, <1>5 DEF IsLogList
<1> QED
  BY <1>3, <1>6, <1>7 DEF new, old

LEMMA InsertNeighbourType ==
    ASSUME NEW map, IsNeighbourMap(map), NEW a \in Nodes, NEW d \in Nodes
    PROVE  IsNeighbourMap(Insert(map, a, d))
  BY DEF Insert, IsNeighbourMap

LEMMA LearnNeighbourType ==
    ASSUME NEW map, IsNeighbourMap(map), NEW d \in Nodes, NEW a \in Nodes
    PROVE  IsNeighbourMap(LearnNeighbour(map, d, a))
  BY InsertNeighbourType DEF LearnNeighbour

\* getKeyByValue finds an author the device is known by, or none.
LEMMA getKeyByValueType ==
    ASSUME NEW map, IsNeighbourMap(map), NEW d
    PROVE  LET k == getKeyByValue(map, d)
           IN  /\ k \in Nodes \cup {None}
               /\ k # None => k \in DOMAIN map /\ map[k] = d
  BY DEF getKeyByValue, IsNeighbourMap

LEMMA InterestedType ==
    ASSUME NEW bag, IsInterests(bag), NEW a \in Nodes, NEW k \in Nodes \cup {None}
    PROVE  IsInterests(Interested(bag, a, k))
<1> DEFINE x == <<a, k>>
           one == SetToBag({x})
<1>1. DOMAIN one = {x} /\ one[x] = 1 /\ x \in Nodes \X (Nodes \cup {None})
  BY DEF SetToBag
<1>2. Interested(bag, a, k)
          = [e \in (DOMAIN bag) \cup (DOMAIN one) |->
                (IF e \in DOMAIN bag THEN bag[e] ELSE 0) + (IF e \in DOMAIN one THEN one[e] ELSE 0)]
  BY DEF Interested, (+)
<1> HIDE DEF x, one
<1>3. \A e \in (DOMAIN bag) \cup (DOMAIN one) :
          (IF e \in DOMAIN bag THEN bag[e] ELSE 0) + (IF e \in DOMAIN one THEN one[e] ELSE 0)
              \in Nat \ {0}
  BY <1>1 DEF IsInterests
<1> QED
  BY <1>1, <1>2, <1>3 DEF IsInterests

LEMMA CancelledType ==
    ASSUME NEW bag, IsInterests(bag), NEW x
    PROVE  IsInterests(bag (-) SetToBag({x}))
<1> DEFINE one == SetToBag({x})
           left == [e \in DOMAIN bag |-> IF e \in DOMAIN one THEN bag[e] - one[e] ELSE bag[e]]
<1>1. DOMAIN one = {x} /\ one[x] = 1
  BY DEF SetToBag
<1>2. bag (-) one = [e \in {d \in DOMAIN left : left[d] > 0} |-> left[e]]
  BY DEF (-)
<1>3. DOMAIN left = DOMAIN bag /\ \A e \in DOMAIN bag : left[e] \in Nat
  <2> HIDE DEF one
  <2> QED BY <1>1 DEF IsInterests
<1> DEFINE new == bag (-) one
<1>4. /\ DOMAIN new \subseteq DOMAIN bag
      /\ new = [e \in DOMAIN new |-> left[e]]
      /\ \A e \in DOMAIN new : left[e] \in Nat \ {0}
  <2> HIDE DEF left, one
  <2> QED BY <1>2, <1>3
<1>5. IsInterests(new)
  <2> HIDE DEF left, new
  <2> QED BY <1>4 DEF IsInterests
<1> QED
  BY <1>5

LEMMA EmptyInterestsType == IsInterests(EmptyBag)
  BY DEF IsInterests, EmptyBag, SetToBag

\* forwardDeletion forwards a number of times: there are finitely many
\* interests.
LEMMA InterestsOfType ==
    ASSUME NEW bag, IsInterests(bag), NEW k
    PROVE  InterestsOf(bag, k) \in Nat
<1> DEFINE D == {q \in DOMAIN bag : q[2] = k /\ q[1] # k}
           Copies(p) == {<<p, i>> : i \in 1..bag[p]}
           Family == {Copies(p) : p \in D}
<1>1. IsFiniteSet(D)
  <2>1. IsFiniteSet(Nodes) /\ IsFiniteSet(Nodes \cup {None})
    BY FiniteNetwork, FS_Singleton, FS_Union DEF Nodes
  <2>2. IsFiniteSet(Nodes \X (Nodes \cup {None}))
    BY <2>1, FS_Product
  <2>3. D \in SUBSET (Nodes \X (Nodes \cup {None}))
    BY DEF IsInterests
  <2> QED
    BY <2>2, <2>3, FS_Subset
<1>2. IsFiniteSet(Family)
  <2> DEFINE f == [p \in D |-> Copies(p)]
  <2>1. f \in Surjection(D, Family)
    BY DEF Surjection
  <2> HIDE DEF D, Family, f
  <2> QED
    BY <1>1, <2>1, FS_Surjection
<1>3. ASSUME NEW p \in D
      PROVE  IsFiniteSet(Copies(p))
  <2>1. bag[p] \in Nat
    BY DEF IsInterests
  <2>2. IsFiniteSet(1..bag[p]) /\ IsFiniteSet({p})
    <3>1. 1 \in Int /\ bag[p] \in Int
      BY <2>1
    <3> QED BY <3>1, FS_Interval, FS_Singleton
  <2>3. IsFiniteSet({p} \X (1..bag[p]))
    BY <2>2, FS_Product
  <2>4. Copies(p) \in SUBSET ({p} \X (1..bag[p]))
    OBVIOUS
  <2> QED
    BY <2>3, <2>4, FS_Subset
<1>4. IsFiniteSet(UNION Family)
  <2>1. \A T \in Family : IsFiniteSet(T)
    BY <1>3
  <2> HIDE DEF Family
  <2> QED BY <1>2, <2>1, FS_UNION
<1>5. InterestsOf(bag, k) = Cardinality(UNION Family)
  BY DEF InterestsOf
<1> HIDE DEF Family
<1> QED
  BY <1>4, <1>5, FS_CardinalityType

-----------------------------------------------------------------------------
(* What the handlers read and share *)

\* The parts of TypeOK, by what the actions change together.
\* A user that has started has opened the log it keeps for the switches.
ListsOK ==
    /\ DOMAIN logPacket = Nodes /\ \A n \in Nodes : IsLogList(logPacket[n])
    /\ \A u \in Users \cap started : SwitchLog(u) \in DOMAIN logPacket[u]
PersonalOK == myPersonalLog \in [Users \cup {ManagerId} -> Logs]
NeighboursOK == DOMAIN neighbourMap = Nodes /\ \A n \in Nodes : IsNeighbourMap(neighbourMap[n])
FamilyOK == familyMembers \in [Switches \cup {ManagerId} -> Seq(Nodes)]
LinksOK == channel \in [Links -> Seq(Packets)] /\ \A l \in Links : Len(channel[l]) <= QueueSize
FaultOK == fault \in {"none", "stod", "undefined"}
ManagerOK ==
    /\ manager \in [Switches -> {None, ManagerId}]
    /\ gossipTimers \in [Switches -> {0, 1}]
    /\ TimersFollowManager
InterestsOK ==
    /\ DOMAIN interestedNeighbours = Switches
    /\ \A s \in Switches : IsInterests(interestedNeighbours[s])

\* TypeOK with what it takes to be inductive: gossip runs only once there is
\* a manager for it to name.
TypeInv ==
    /\ ListsOK /\ PersonalOK /\ NeighboursOK /\ FamilyOK /\ LinksOK /\ FaultOK
    /\ ManagerOK /\ InterestsOK /\ started \subseteq Nodes /\ agenda \in Agendas

LEMMA TypeInvIsTypeOK == TypeInv => TypeOK
  BY DEF TypeInv, TypeOK, ListsOK, PersonalOK, NeighboursOK, FamilyOK, LinksOK, FaultOK,
         ManagerOK, InterestsOK

\* The parts after one node's share of them has been replaced.
LEMMA ListsUpdated ==
    ASSUME ListsOK, NEW n \in Nodes, NEW list, IsLogList(list),
           n \in Users => SwitchLog(n) \in DOMAIN list,
           logPacket' = [logPacket EXCEPT ![n] = list], started' \subseteq started \cup {n}
    PROVE  ListsOK'
  BY DEF ListsOK, SwitchLog

LEMMA SwitchListsUpdated ==
    ASSUME ListsOK, NEW n \in Switches \cup {ManagerId}, NEW list, IsLogList(list),
           logPacket' = [logPacket EXCEPT ![n] = list], started' \subseteq started \cup {n}
    PROVE  ListsOK'
  BY Identifiers, ListsUpdated

LEMMA NeighboursUpdated ==
    ASSUME NeighboursOK, NEW n \in Nodes, NEW map, IsNeighbourMap(map),
           neighbourMap' = [neighbourMap EXCEPT ![n] = map]
    PROVE  NeighboursOK'
  BY DEF NeighboursOK

LEMMA InterestsUpdated ==
    ASSUME InterestsOK, NEW s \in Switches, NEW bag, IsInterests(bag),
           interestedNeighbours' = [interestedNeighbours EXCEPT ![s] = bag]
    PROVE  InterestsOK'
  BY DEF InterestsOK

LEMMA FamilyUpdated ==
    ASSUME FamilyOK, NEW n \in Switches \cup {ManagerId}, NEW member \in Nodes,
           familyMembers' = [familyMembers EXCEPT ![n] = Append(@, member)]
    PROVE  FamilyOK'
<1>1. Append(familyMembers[n], member) \in Seq(Nodes)
  BY AppendProperties DEF FamilyOK
<1> QED
  BY <1>1 DEF FamilyOK

LEMMA PersonalUpdated ==
    ASSUME PersonalOK, NEW n \in Users \cup {ManagerId}, NEW l \in Logs,
           myPersonalLog' = [myPersonalLog EXCEPT ![n] = l]
    PROVE  PersonalOK'
  BY DEF PersonalOK

LEMMA FaultUpdated ==
    ASSUME FaultOK, NEW undefined, NEW unparsable, Ends(undefined, unparsable)
    PROVE  FaultOK'
  BY DEF FaultOK, Ends

\* What a step leaves alone keeps its type.
LEMMA PartsUnchanged ==
    /\ ListsOK /\ UNCHANGED <<logPacket, started>> => ListsOK'
    /\ PersonalOK /\ UNCHANGED myPersonalLog => PersonalOK'
    /\ NeighboursOK /\ UNCHANGED neighbourMap => NeighboursOK'
    /\ FamilyOK /\ UNCHANGED familyMembers => FamilyOK'
    /\ LinksOK /\ UNCHANGED channel => LinksOK'
    /\ FaultOK /\ UNCHANGED fault => FaultOK'
    /\ ManagerOK /\ UNCHANGED <<manager, gossipTimers>> => ManagerOK'
    /\ InterestsOK /\ UNCHANGED interestedNeighbours => InterestsOK'
  BY DEF ListsOK, PersonalOK, NeighboursOK, FamilyOK, LinksOK, FaultOK, ManagerOK,
         InterestsOK, TimersFollowManager

LEMMA ChannelIsCarried == TypeInv => Carry(channel, Packets)
  BY DEF TypeInv, LinksOK, Carry

LEMMA PacketType ==
    ASSUME NEW p \in Packets
    PROVE  /\ p.shell \in Entries /\ p.flag \in {0, 1}
           /\ p.type \in LogTypes \cup {GossipAnswerType}
           /\ p.type[2] # "switch*" => p.type \in LogTypes
  BY DEF Packets, GossipAnswerType, LOGTYPE

LEMMA NetShellType ==
    ASSUME NEW t \in LogTypes \cup {GossipAnswerType}, NEW f \in {0, 1}, NEW e \in Entries
    PROVE  NetShell(t, f, e) \in Packets
  BY DEF NetShell, Packets

LEMMA LogTypesAre ==
    ASSUME NEW w \in Nodes,
           NEW r \in Nodes \cup {USER_ALL, SWITCH_ALL, MANAGER_ALL}
    PROVE  LOGTYPE(w, r) \in LogTypes
  BY DEF LOGTYPE, LogTypes

\* A packet that arrives is well typed, and so are the ones left behind.
LEMMA ArrivedType ==
    ASSUME TypeInv, NEW n, NEW d, Arriving(n, d)
    PROVE  /\ n \in Nodes /\ d \in Nodes
           /\ Arrived(n, d) \in Packets
           /\ Arrived(n, d).shell \in Entries
           /\ Arrived(n, d).shell.authorId \in Nodes
           /\ Carry(Taking(n, d), Packets)
<1>1. Arrived(n, d) \in Packets /\ Carry(Taking(n, d), Packets)
  BY ChannelIsCarried, ArrivedCarries
<1>2. n \in Nodes /\ d \in Nodes
  BY LinksAreOfNodes DEF Arriving
<1> QED
  BY <1>1, <1>2, PacketType, EntryType

LEMMA SendEntryType ==
    ASSUME NEW l \in Logs, NEW type \in LogTypes \cup {GossipAnswerType}, NEW from \in Int,
           NEW map, NEW receiver
    PROVE  sendEntryFromIndexTo(l, map, receiver, from, type) \in [Nodes -> Seq(Packets)]
<1>1. l.log \in Seq(Entries) /\ \A i \in 1..Len(l.log) : l.log[i] \in Entries
  BY LogType
<1>2. \A i \in 1..Len(l.log) : NetShell(type, 0, l.log[i]) \in Packets
  BY <1>1, NetShellType
<1> QED
  BY <1>1, <1>2, SendEntryCarries

LEMMA EntriesFromType ==
    ASSUME NEW l \in Logs, NEW type \in LogTypes, NEW from \in Int
    PROVE  EntriesFrom(l, from, type) \in Seq(Packets)
<1>1. l.log \in Seq(Entries) /\ \A i \in 1..Len(l.log) : l.log[i] \in Entries
  BY LogType
<1>2. \A i \in 1..Len(l.log) : NetShell(type, 0, l.log[i]) \in Packets
  BY <1>1, NetShellType
<1> QED
  BY <1>1, <1>2, EntriesFromCarries

LEMMA LinksAfterSending ==
    ASSUME NEW links, Carry(links, Packets), NEW n, NEW out \in [Nodes -> Seq(Packets)],
           channel' = Sending(links, n, out)
    PROVE  LinksOK'
  BY SendingCarries DEF Carry, LinksOK

LEMMA SwitchReads ==
    ASSUME TypeInv, NEW s \in Switches, NEW d, Receiving(s, d)
    PROVE  /\ IsNeighbourMap(Known(s, d))
           /\ IsLogList(logPacket[s])
           /\ Arrived(s, d).type \in LogTypes =>
                  /\ IsLogList(Concatenated(s, d))
                  /\ DOMAIN Concatenated(s, d) = DOMAIN logPacket[s] \cup {Arrived(s, d).type}
<1>1. /\ s \in Nodes /\ d \in Nodes
      /\ Arrived(s, d).shell \in Entries
      /\ Arrived(s, d).shell.authorId \in Nodes
  BY ArrivedType DEF Receiving
<1>2. IsNeighbourMap(neighbourMap[s]) /\ IsLogList(logPacket[s])
  BY <1>1 DEF TypeInv, NeighboursOK, ListsOK
<1>3. IsNeighbourMap(Known(s, d))
  BY <1>1, <1>2, LearnNeighbourType DEF Known
<1>4. ASSUME Arrived(s, d).type \in LogTypes
      PROVE  /\ IsLogList(Concatenated(s, d))
             /\ DOMAIN Concatenated(s, d) = DOMAIN logPacket[s] \cup {Arrived(s, d).type}
  <2> DEFINE list == logPacket[s]
             type == Arrived(s, d).type
             e == Arrived(s, d).shell
  <2>1. IsLogList(list) /\ type \in LogTypes /\ e \in Entries
    BY <1>1, <1>2, <1>4
  <2>2. Concatenated(s, d) = concatenateEntry(list, type, e)
    BY DEF Concatenated
  <2> HIDE DEF list, type, e
  <2>3. /\ IsLogList(concatenateEntry(list, type, e))
        /\ DOMAIN concatenateEntry(list, type, e) = DOMAIN list \cup {type}
    BY <2>1, concatenateEntryType
  <2> QED
    BY <2>2, <2>3 DEF list, type
<1> QED
  BY <1>2, <1>3, <1>4

LEMMA HandlingType ==
    ASSUME TypeInv, NEW s \in Switches, NEW d, Receiving(s, d),
           NEW out \in [Nodes -> Seq(Packets)], Handling(s, d, out)
    PROVE  NeighboursOK' /\ LinksOK' /\ myPersonalLog' = myPersonalLog /\ started' = started
<1>1. s \in Nodes /\ Carry(Taking(s, d), Packets)
  BY ArrivedType DEF Receiving
<1>2. LinksOK'
  BY <1>1, LinksAfterSending DEF Handling
<1>3. neighbourMap' = [neighbourMap EXCEPT ![s] = Known(s, d)]
  BY DEF Handling
<1>4. NeighboursOK'
  BY <1>1, <1>3, SwitchReads, NeighboursUpdated DEF TypeInv
<1> QED
  BY <1>2, <1>4 DEF Handling

\* The manager is assigned together with the first gossip event.
LEMMA AssigningManagerType ==
    ASSUME TypeInv, NEW s \in Switches, NEW d, AssigningManager(s, d)
    PROVE  ManagerOK'
<1>1. /\ manager \in [Switches -> {None, ManagerId}]
      /\ gossipTimers \in [Switches -> {0, 1}]
      /\ \A r \in Switches : gossipTimers[r] = IF manager[r] = None THEN 0 ELSE 1
      /\ ManagerId # None
  BY Identifiers DEF TypeInv, ManagerOK, TimersFollowManager
<1>2. CASE Arrived(s, d).type[1] = ManagerId /\ manager[s] = None
  <2>1. /\ manager' = [manager EXCEPT ![s] = ManagerId]
        /\ gossipTimers' = [gossipTimers EXCEPT ![s] = @ + 1]
    BY <1>2 DEF AssigningManager
  <2> QED
    BY <1>1, <1>2, <2>1 DEF ManagerOK, TimersFollowManager
<1>3. CASE ~(Arrived(s, d).type[1] = ManagerId /\ manager[s] = None)
  BY <1>1, <1>3 DEF AssigningManager, ManagerOK, TimersFollowManager
<1> QED
  BY <1>2, <1>3

-----------------------------------------------------------------------------
(* The actions of a switch *)

\* The guards recvPkt's outcomes share, for the types of packets.
LEMMA HandledTypes ==
    ASSUME TypeInv, NEW n, NEW d, Arriving(n, d),
           \/ ForSwitch(Arrived(n, d).type)
           \/ ForUser(Arrived(n, d).type)
           \/ Arrived(n, d).type[2] = MANAGER_ALL
    PROVE  Arrived(n, d).type \in LogTypes
<1>1. Arrived(n, d) \in Packets
  BY ArrivedType
<1>2. Arrived(n, d).type[2] # "switch*"
  BY Identifiers DEF ForSwitch, ForUser, USER_ALL, SWITCH_ALL, MANAGER_ALL
<1> QED
  BY <1>1, <1>2, PacketType

LEMMA StartSwitchType ==
    ASSUME TypeInv, NEW s \in Switches, StartSwitch(s), UNCHANGED agenda
    PROVE  TypeInv'
<1> DEFINE type == LOGTYPE(s, MANAGER_ALL)
           log == appendLogShell(NewLog(s), ContentShell("addToNetwork", s, 0))
           out == [m \in Nodes |-> IF m \in Peers(s)
                                   THEN <<NetShell(type, 0, getLastEntry(log))>> ELSE << >>]
<1>1. s \in Nodes /\ type \in LogTypes
  BY Identifiers, LogTypesAre
<1>2. log \in Logs /\ getLastEntry(log) \in Entries
  <2>1. NewLog(s) \in Logs /\ ContentShell("addToNetwork", s, 0) \in Contents
    BY <1>1, NewLogType, ContentShellType DEF Functions
  <2> QED BY <2>1, appendLogShellType
<1>3. /\ started' = started \cup {s}
      /\ logPacket' = [logPacket EXCEPT ![s] = Insert(logPacket[s], type, log)]
      /\ channel' = Sending(channel, s, out)
      /\ UNCHANGED <<myPersonalLog, neighbourMap, familyMembers, fault, manager,
                     interestedNeighbours, gossipTimers>>
  BY DEF StartSwitch, switchVars
<1>4. out \in [Nodes -> Seq(Packets)]
  <2>1. NetShell(type, 0, getLastEntry(log)) \in Packets
    BY <1>1, <1>2, NetShellType
  <2> HIDE DEF type, log
  <2>2. <<NetShell(type, 0, getLastEntry(log))>> \in Seq(Packets) /\ << >> \in Seq(Packets)
    BY <2>1
  <2> QED BY <2>2
<1> HIDE DEF out, type, log
<1>5. LinksOK'
  BY <1>3, <1>4, ChannelIsCarried, LinksAfterSending
<1>6. ListsOK'
  <2>1. IsLogList(Insert(logPacket[s], type, log))
    BY <1>1, <1>2, InsertLogType DEF TypeInv, ListsOK
  <2> QED BY <1>3, <2>1, SwitchListsUpdated DEF TypeInv
<1> QED
  BY <1>1, <1>3, <1>5, <1>6, PartsUnchanged DEF TypeInv

LEMMA DropPacketType ==
    ASSUME TypeInv, NEW s \in Switches, NEW d, DropPacket(s, d), UNCHANGED agenda
    PROVE  TypeInv'
<1>1. /\ Receiving(s, d) /\ Handling(s, d, Nothing)
      /\ UNCHANGED <<logPacket, familyMembers, fault, manager, interestedNeighbours, gossipTimers>>
  BY DEF DropPacket, switchVars
<1>2. NeighboursOK' /\ LinksOK' /\ myPersonalLog' = myPersonalLog /\ started' = started
  BY <1>1, HandlingType, NothingCarries
<1> QED
  BY <1>1, <1>2, PartsUnchanged DEF TypeInv

LEMMA LogOfList ==
    ASSUME NEW list, IsLogList(list), NEW t \in DOMAIN list
    PROVE  list[t] \in Logs /\ t \in LogTypes
  BY DEF IsLogList

LEMMA ServeRequestType ==
    ASSUME TypeInv, NEW s \in Switches, NEW d, ServeRequest(s, d), UNCHANGED agenda
    PROVE  TypeInv'
<1> DEFINE p == Arrived(s, d)
           author == p.shell.shell.params
           logs == Concatenated(s, d)
           content == ContentOf(author)
           requester == getKeyByValue(Known(s, d), d)
           out == IF exists(logs, content)
                  THEN sendEntryFromIndexTo(logs[content], Known(s, d), requester, 0, content)
                  ELSE Nothing
           bag == Interested(interestedNeighbours[s], author, p.shell.authorId)
<1>1. /\ Receiving(s, d) /\ ForSwitch(p.type) /\ IsServed(s, d)
      /\ logPacket' = [logPacket EXCEPT ![s] = logs]
      /\ interestedNeighbours' = [interestedNeighbours EXCEPT ![s] = bag]
      /\ Handling(s, d, out)
      /\ Ends(exists(logs, content) /\ ReadsEmptyLog(logs[content], requester),
              Unparsable(p.shell))
      /\ AssigningManager(s, d)
      /\ UNCHANGED familyMembers
  BY DEF ServeRequest
<1>2. /\ s \in Nodes /\ d \in Nodes /\ p.type \in LogTypes /\ p.shell.authorId \in Nodes
      /\ IsNeighbourMap(Known(s, d)) /\ IsLogList(logPacket[s]) /\ IsLogList(logs)
  BY <1>1, ArrivedType, HandledTypes, SwitchReads DEF Receiving
<1>3. author \in Nodes
  BY <1>1, <1>2 DEF IsServed, isNeighbour, IsNeighbourMap, exists, IsLogList, ContentOf,
                    LOGTYPE, LogTypes
<1> HIDE DEF logs, author, requester, p
<1>4. out \in [Nodes -> Seq(Packets)]
  <2>1. CASE exists(logs, content)
    <3>1. logs[content] \in Logs /\ content \in LogTypes
      BY <1>2, <2>1, LogOfList DEF exists
    <3> HIDE DEF content
    <3> QED BY <2>1, <3>1, SendEntryType
  <2>2. CASE ~exists(logs, content)
    BY <2>2, NothingCarries
  <2> QED BY <2>1, <2>2
<1> HIDE DEF out, content
<1>5. NeighboursOK' /\ LinksOK' /\ myPersonalLog' = myPersonalLog /\ started' = started
  BY <1>1, <1>4, HandlingType
<1>6. ListsOK'
  BY <1>1, <1>2, <1>5, SwitchListsUpdated DEF TypeInv
<1>7. InterestsOK'
  <2>1. IsInterests(bag)
    BY <1>2, <1>3, InterestedType DEF TypeInv, InterestsOK
  <2> HIDE DEF bag
  <2> QED BY <1>1, <2>1, InterestsUpdated DEF TypeInv
<1>8. ManagerOK'
  BY <1>1, AssigningManagerType
<1>9. FaultOK'
  BY <1>1, FaultUpdated DEF TypeInv
<1> QED
  BY <1>1, <1>5, <1>6, <1>7, <1>8, <1>9, PartsUnchanged DEF TypeInv

LEMMA AnswerSwitchGossipType ==
    ASSUME TypeInv, NEW s \in Switches, NEW d, AnswerSwitchGossip(s, d), UNCHANGED agenda
    PROVE  TypeInv'
<1> DEFINE p == Arrived(s, d)
           out == sendEntryFromIndexTo(logPacket[s][p.type], Known(s, d),
                      getKeyByValue(Known(s, d), d), p.shell.sequenceNum, p.type)
<1>1. /\ Receiving(s, d) /\ ForSwitch(p.type) /\ IsAheadOf(s, d)
      /\ Handling(s, d, out) /\ AssigningManager(s, d)
      /\ UNCHANGED <<logPacket, familyMembers, interestedNeighbours, fault>>
  BY DEF AnswerSwitchGossip
<1>2. p.shell.sequenceNum \in Int /\ p.type \in LogTypes
  BY <1>1, ArrivedType, HandledTypes, EntryType DEF Receiving
<1>3. logPacket[s][p.type] \in Logs
  BY <1>1, SwitchReads, LogOfList DEF IsAheadOf, exists
<1> HIDE DEF p
<1>4. out \in [Nodes -> Seq(Packets)]
  BY <1>2, <1>3, SendEntryType
<1> HIDE DEF out
<1>5. NeighboursOK' /\ LinksOK' /\ myPersonalLog' = myPersonalLog /\ started' = started
  BY <1>1, <1>4, HandlingType
<1> QED
  BY <1>1, <1>5, AssigningManagerType, PartsUnchanged DEF TypeInv

\* The outcomes that concatenate the entry and send nothing.
LEMMA ConcatenatingType ==
    ASSUME TypeInv, NEW s \in Switches, NEW d, IsConcatenating(s, d),
           logPacket' = [logPacket EXCEPT ![s] = Concatenated(s, d)], Handling(s, d, Nothing)
    PROVE  ListsOK' /\ NeighboursOK' /\ LinksOK'
           /\ myPersonalLog' = myPersonalLog /\ started' = started
<1>1. Receiving(s, d) /\ ForSwitch(Arrived(s, d).type)
  BY DEF IsConcatenating
<1>2. s \in Nodes /\ IsLogList(Concatenated(s, d))
  BY <1>1, ArrivedType, HandledTypes, SwitchReads DEF Receiving
<1>3. NeighboursOK' /\ LinksOK' /\ myPersonalLog' = myPersonalLog /\ started' = started
  BY <1>1, HandlingType, NothingCarries
<1>4. ListsOK'
  BY <1>2, <1>3, SwitchListsUpdated DEF TypeInv
<1> QED
  BY <1>3, <1>4

LEMMA RejectEntryType ==
    ASSUME TypeInv, NEW s \in Switches, NEW d, RejectEntry(s, d), UNCHANGED agenda
    PROVE  TypeInv'
<1>1. /\ IsConcatenating(s, d)
      /\ logPacket' = [logPacket EXCEPT ![s] = Concatenated(s, d)]
      /\ Handling(s, d, Nothing)
      /\ Ends(FALSE, Unparsable(Arrived(s, d).shell))
      /\ AssigningManager(s, d)
      /\ UNCHANGED <<familyMembers, interestedNeighbours>>
  BY DEF RejectEntry
<1>2. FaultOK' /\ ManagerOK'
  BY <1>1, FaultUpdated, AssigningManagerType DEF TypeInv
<1> QED
  BY <1>1, <1>2, ConcatenatingType, PartsUnchanged DEF TypeInv

\* The content of an entry that recvPkt acts on.
LEMMA AcceptedContent ==
    ASSUME TypeInv, NEW s \in Switches, NEW d, IsAccepting(s, d)
    PROVE  LET content == Arrived(s, d).shell.shell
           IN  /\ Receiving(s, d) /\ IsConcatenating(s, d)
               /\ s \in Nodes /\ d \in Nodes
               /\ Arrived(s, d).type \in LogTypes
               /\ content \in Contents
               /\ content.function
                      \in {"addMemberToNetwork", "getContentFrom", "removeUserFromInl"}
                      => content.params \in Nodes
               /\ IsLogList(Concatenated(s, d))
<1>1. Receiving(s, d) /\ ForSwitch(Arrived(s, d).type) /\ IsConcatenating(s, d)
  BY DEF IsAccepting, IsConcatenating
<1>2. Arrived(s, d).shell \in Entries /\ s \in Nodes /\ d \in Nodes
  BY <1>1, ArrivedType DEF Receiving
<1>3. Arrived(s, d).type \in LogTypes
  BY <1>1, HandledTypes DEF Receiving
<1> QED
  BY <1>1, <1>2, <1>3, EntryType, SwitchReads

LEMMA AcceptMemberType ==
    ASSUME TypeInv, NEW s \in Switches, NEW d, AcceptMember(s, d), UNCHANGED agenda
    PROVE  TypeInv'
<1> DEFINE member == Arrived(s, d).shell.shell.params
<1>1. /\ IsAccepting(s, d)
      /\ Arrived(s, d).shell.shell.function = "addMemberToNetwork"
      /\ logPacket' = [logPacket EXCEPT ![s] = Concatenated(s, d)]
      /\ familyMembers' = [familyMembers EXCEPT ![s] = Append(@, member)]
      /\ Handling(s, d, Nothing)
      /\ AssigningManager(s, d)
      /\ UNCHANGED <<fault, interestedNeighbours>>
  BY DEF AcceptMember, Accepts
<1>2. member \in Nodes /\ IsConcatenating(s, d)
  BY <1>1, AcceptedContent
<1> HIDE DEF member
<1>3. FamilyOK'
  BY <1>1, <1>2, FamilyUpdated DEF TypeInv
<1>4. ManagerOK'
  BY <1>1, AssigningManagerType
<1> QED
  BY <1>1, <1>2, <1>3, <1>4, ConcatenatingType, PartsUnchanged DEF TypeInv

LEMMA AcceptOtherType ==
    ASSUME TypeInv, NEW s \in Switches, NEW d, AcceptOther(s, d), UNCHANGED agenda
    PROVE  TypeInv'
<1>1. /\ IsConcatenating(s, d)
      /\ logPacket' = [logPacket EXCEPT ![s] = Concatenated(s, d)]
      /\ Handling(s, d, Nothing)
      /\ AssigningManager(s, d)
      /\ UNCHANGED <<familyMembers, interestedNeighbours, fault>>
  BY DEF AcceptOther, IsAccepting
<1> QED
  BY <1>1, AssigningManagerType, ConcatenatingType, PartsUnchanged DEF TypeInv

LEMMA AcceptPlugAndPlayType ==
    ASSUME TypeInv, NEW s \in Switches, NEW d, AcceptPlugAndPlay(s, d), UNCHANGED agenda
    PROVE  TypeInv'
<1> DEFINE user == Arrived(s, d).shell.authorId
           type == LOGTYPE(s, user)
           log == appendLogShell(NewLog(s), ContentShell("addSwitch", s, 0))
           logs == Insert(Concatenated(s, d), type, log)
           out == [m \in Nodes |->
                      IF m = d /\ ~empty(logs[type])
                      THEN <<NetShell(type, 0, getLastEntry(logs[type]))>> ELSE << >>]
<1>1. /\ IsAccepting(s, d)
      /\ logPacket' = [logPacket EXCEPT ![s] = logs]
      /\ Handling(s, d, out)
      /\ Ends(empty(logs[type]), FALSE)
      /\ AssigningManager(s, d)
      /\ UNCHANGED <<familyMembers, interestedNeighbours>>
  BY DEF AcceptPlugAndPlay, Accepts
<1>2. /\ Receiving(s, d) /\ s \in Nodes /\ IsLogList(Concatenated(s, d))
      /\ user \in Nodes /\ type \in LogTypes
  BY <1>1, AcceptedContent, ArrivedType, LogTypesAre DEF Receiving
<1>3. log \in Logs
  <2>1. NewLog(s) \in Logs /\ ContentShell("addSwitch", s, 0) \in Contents
    BY <1>2, NewLogType, ContentShellType DEF Functions
  <2> QED BY <2>1, appendLogShellType
<1> HIDE DEF log, type, user
<1>4. IsLogList(logs) /\ type \in DOMAIN logs
  <2> DEFINE old == Concatenated(s, d)
  <2> HIDE DEF old
  <2>1. IsLogList(old)
    BY <1>2 DEF old
  <2>2. IsLogList(Insert(old, type, log)) /\ DOMAIN Insert(old, type, log) = DOMAIN old \cup {type}
    BY <1>2, <1>3, <2>1, InsertLogType
  <2> QED BY <2>2 DEF old
<1> HIDE DEF logs
<1>5. out \in [Nodes -> Seq(Packets)]
  <2>1. ~empty(logs[type]) => NetShell(type, 0, getLastEntry(logs[type])) \in Packets
    BY <1>2, <1>4, LogOfList, LogType, NetShellType
  <2> DEFINE packet == NetShell(type, 0, getLastEntry(logs[type]))
  <2>2. ~empty(logs[type]) => <<packet>> \in Seq(Packets)
    <3> HIDE DEF packet
    <3> QED BY <2>1, SingleIsSeq DEF packet
  <2>3. << >> \in Seq(Packets)
    OBVIOUS
  <2> HIDE DEF packet
  <2> QED BY <2>2, <2>3 DEF packet
<1> HIDE DEF out
<1>6. NeighboursOK' /\ LinksOK' /\ myPersonalLog' = myPersonalLog /\ started' = started
  BY <1>1, <1>2, <1>5, HandlingType
<1>7. ListsOK' /\ FaultOK' /\ ManagerOK'
  BY <1>1, <1>2, <1>4, <1>6, SwitchListsUpdated, FaultUpdated, AssigningManagerType DEF TypeInv
<1> QED
  BY <1>1, <1>6, <1>7, PartsUnchanged DEF TypeInv

LEMMA AcceptRequestType ==
    ASSUME TypeInv, NEW s \in Switches, NEW d, AcceptRequest(s, d), UNCHANGED agenda
    PROVE  TypeInv'
<1> DEFINE content == Arrived(s, d).shell.shell
           map == Known(s, d)
           logs == Concatenated(s, d)
           To == BroadcastTo(s, d)
           Type(k) == LOGTYPE(s, k)
           Log(k) == IF exists(logs, Type(k))
                     THEN appendLogShell(logs[Type(k)], content)
                     ELSE AppendLogShells(NewLog(s), <<InitialContent(None), content>>)
           From(k) == IF exists(logs, Type(k))
                      THEN getCurrentSeqNum(logs[Type(k)]) + 1 ELSE 0
           list == [t \in DOMAIN logs \cup {Type(k) : k \in To} |->
                       IF t[1] = s /\ t[2] \in To THEN Log(t[2]) ELSE logs[t]]
           out == [m \in Nodes |->
                      LET k == getKeyByValue(map, m)
                      IN  IF k \in To THEN EntriesFrom(Log(k), From(k), Type(k)) ELSE << >>]
           bag == Interested(interestedNeighbours[s], content.params, getKeyByValue(map, d))
<1>1. /\ IsAccepting(s, d) /\ content.function = "getContentFrom"
      /\ interestedNeighbours' = [interestedNeighbours EXCEPT ![s] = bag]
      /\ logPacket' = [logPacket EXCEPT ![s] = list]
      /\ Handling(s, d, out)
      /\ AssigningManager(s, d)
      /\ UNCHANGED <<familyMembers, fault>>
  BY DEF AcceptRequest, Accepts
<1>2. /\ Receiving(s, d) /\ s \in Nodes /\ IsLogList(logs) /\ IsNeighbourMap(map)
      /\ content \in Contents /\ content.params \in Nodes
  BY <1>1, AcceptedContent, SwitchReads
<1>3. To \subseteq Nodes
  BY <1>2 DEF BroadcastTo, IsNeighbourMap
<1> HIDE DEF content, map, logs, To
<1>4. ASSUME NEW k \in To
      PROVE  Log(k) \in Logs /\ From(k) \in Int /\ Type(k) \in LogTypes
  <2>1. Type(k) \in LogTypes
    BY <1>2, <1>3, LogTypesAre
  <2>2. CASE exists(logs, Type(k))
    <3>1. logs[Type(k)] \in Logs
      BY <1>2, <2>2, LogOfList DEF exists
    <3> QED BY <1>2, <2>1, <2>2, <3>1, appendLogShellType, LogType
  <2>3. CASE ~exists(logs, Type(k))
    <3>1. NewLog(s) \in Logs /\ InitialContent(None) \in Contents
      BY <1>2, NewLogType, ContentShellType DEF InitialContent, Functions
    <3>2. <<InitialContent(None), content>> \in Seq(Contents)
      BY <1>2, <3>1
    <3>3. AppendLogShells(NewLog(s), <<InitialContent(None), content>>) \in Logs
      <4> DEFINE cs == <<InitialContent(None), content>>
      <4>1. cs \in Seq(Contents)
        BY <3>2
      <4> HIDE DEF cs
      <4>2. AppendLogShells(NewLog(s), cs) \in Logs
        BY <3>1, <4>1, AppendLogShellsType
      <4> QED BY <4>2 DEF cs
    <3> QED BY <2>1, <2>3, <3>3
  <2> QED BY <2>2, <2>3
<1> HIDE DEF Log, From
<1>5. IsLogList(list)
  <2>1. \A t \in DOMAIN logs \cup {Type(k) : k \in To} :
            /\ t \in LogTypes
            /\ (IF t[1] = s /\ t[2] \in To THEN Log(t[2]) ELSE logs[t]) \in Logs
    <3> SUFFICES ASSUME NEW t \in DOMAIN logs \cup {Type(k) : k \in To}
                 PROVE  /\ t \in LogTypes
                        /\ (IF t[1] = s /\ t[2] \in To THEN Log(t[2]) ELSE logs[t]) \in Logs
      OBVIOUS
    <3>1. CASE t \in DOMAIN logs
      BY <1>2, <1>4, <3>1, LogOfList
    <3>2. CASE t \in {Type(k) : k \in To}
      <4>1. PICK k \in To : t = Type(k)
        BY <3>2
      <4>2. t[1] = s /\ t[2] = k
        BY <4>1 DEF LOGTYPE
      <4> QED BY <1>4, <4>1, <4>2
    <3> QED BY <3>1, <3>2
  <2> QED BY <2>1 DEF IsLogList
<1>6. out \in [Nodes -> Seq(Packets)]
  <2>1. \A k \in To : EntriesFrom(Log(k), From(k), Type(k)) \in Seq(Packets)
    BY <1>4, EntriesFromType
  <2> QED BY <2>1
<1>7. IsInterests(bag)
  BY <1>2, InterestedType, getKeyByValueType DEF TypeInv, InterestsOK
<1> HIDE DEF out, bag, list
<1>8. NeighboursOK' /\ LinksOK' /\ myPersonalLog' = myPersonalLog /\ started' = started
  BY <1>1, <1>2, <1>6, HandlingType
<1>9. ListsOK' /\ InterestsOK' /\ ManagerOK'
  BY <1>1, <1>2, <1>5, <1>7, <1>8, SwitchListsUpdated, InterestsUpdated,
     AssigningManagerType DEF TypeInv
<1> QED
  BY <1>1, <1>8, <1>9, PartsUnchanged DEF TypeInv

LEMMA AcceptUnsubscribeType ==
    ASSUME TypeInv, NEW s \in Switches, NEW d, AcceptUnsubscribe(s, d), UNCHANGED agenda
    PROVE  TypeInv'
<1> DEFINE content == Arrived(s, d).shell.shell
           map == Known(s, d)
           cancelled == <<content.params, Arrived(s, d).shell.authorId>>
           left == interestedNeighbours[s] (-) SetToBag({cancelled})
           Subscribers == {p[2] : p \in {q \in DOMAIN left : q[1] # q[2]}}
           Forwarding == \E p \in DOMAIN left : p[2] \notin Users
           logs == IF Forwarding
                   THEN Without(Concatenated(s, d), ContentOf(content.params))
                   ELSE Concatenated(s, d)
           To == IF Forwarding THEN {k \in Subscribers : exists(logs, LOGTYPE(s, k))} ELSE {}
           Log(k) == AppendLogShells(logs[LOGTYPE(s, k)],
                         [i \in 1..InterestsOf(left, k) |-> content])
           From(k) == getCurrentSeqNum(logs[LOGTYPE(s, k)]) + 1
           list == [t \in DOMAIN logs |->
                       IF t[1] = s /\ t[2] \in To THEN Log(t[2]) ELSE logs[t]]
           out == [m \in Nodes |->
                      LET k == getKeyByValue(map, m)
                      IN  IF k \in To THEN EntriesFrom(Log(k), From(k), LOGTYPE(s, k)) ELSE << >>]
           bag == IF Forwarding /\ \A p \in DOMAIN left : p[1] # p[2] THEN EmptyBag ELSE left
<1>1. /\ IsAccepting(s, d)
      /\ interestedNeighbours' = [interestedNeighbours EXCEPT ![s] = bag]
      /\ logPacket' = [logPacket EXCEPT ![s] = list]
      /\ Handling(s, d, out)
      /\ Ends(Forwarding /\ Subscribers \ To # {}, FALSE)
      /\ AssigningManager(s, d)
      /\ UNCHANGED familyMembers
  BY DEF AcceptUnsubscribe
<1>2. /\ Receiving(s, d) /\ s \in Nodes /\ content \in Contents
      /\ IsLogList(Concatenated(s, d))
  BY <1>1, AcceptedContent
<1>3. IsInterests(left)
  <2> HIDE DEF cancelled
  <2> QED BY CancelledType DEF TypeInv, InterestsOK
<1>4. IsInterests(bag)
  BY <1>3, EmptyInterestsType
<1>5. IsLogList(logs)
  BY <1>2, WithoutType
<1> HIDE DEF content, map, left, logs, Forwarding, Subscribers, bag
<1>6. ASSUME NEW k \in To
      PROVE  /\ LOGTYPE(s, k) \in DOMAIN logs /\ LOGTYPE(s, k) \in LogTypes
             /\ Log(k) \in Logs /\ From(k) \in Int
  <2>1. LOGTYPE(s, k) \in DOMAIN logs
    BY DEF exists
  <2>2. logs[LOGTYPE(s, k)] \in Logs /\ LOGTYPE(s, k) \in LogTypes
    BY <1>5, <2>1, LogOfList
  <2> DEFINE n == InterestsOf(left, k)
             copies == [i \in 1..n |-> content]
  <2>3. n \in Nat
    BY <1>3, InterestsOfType
  <2> HIDE DEF n
  <2>4. copies \in [1..n -> Contents]
    BY <1>2
  <2> HIDE DEF copies
  <2>5. copies \in Seq(Contents)
    BY <2>3, <2>4, FunctionIsSeq
  <2>6. AppendLogShells(logs[LOGTYPE(s, k)], copies) \in Logs
    BY <2>2, <2>5, AppendLogShellsType
  <2>7. Log(k) \in Logs
    BY <2>6 DEF copies, n
  <2> QED
    BY <2>1, <2>2, <2>7, LogType
<1> HIDE DEF Log, From
<1>7. IsLogList(list)
  <2>1. \A t \in DOMAIN logs :
            /\ t \in LogTypes
            /\ (IF t[1] = s /\ t[2] \in To THEN Log(t[2]) ELSE logs[t]) \in Logs
    BY <1>5, <1>6, LogOfList
  <2> QED BY <2>1 DEF IsLogList
<1>8. out \in [Nodes -> Seq(Packets)]
  <2>1. \A k \in To : EntriesFrom(Log(k), From(k), LOGTYPE(s, k)) \in Seq(Packets)
    BY <1>6, EntriesFromType
  <2> HIDE DEF To
  <2> QED BY <2>1
<1> HIDE DEF out, list, To
<1>9. NeighboursOK' /\ LinksOK' /\ myPersonalLog' = myPersonalLog /\ started' = started
  BY <1>1, <1>2, <1>8, HandlingType
<1>10. ListsOK' /\ InterestsOK' /\ FaultOK' /\ ManagerOK'
  BY <1>1, <1>2, <1>4, <1>7, <1>9, SwitchListsUpdated, InterestsUpdated, FaultUpdated,
     AssigningManagerType DEF TypeInv
<1> QED
  BY <1>1, <1>9, <1>10, PartsUnchanged DEF TypeInv

LEMMA ReceiveContentType ==
    ASSUME TypeInv, NEW s \in Switches, NEW d, ReceiveContent(s, d), UNCHANGED agenda
    PROVE  TypeInv'
<1> DEFINE p == Arrived(s, d)
           map == Known(s, d)
           own == <<p.shell.authorId, getKeyByValue(map, d)>>
           interests == IF own \in DOMAIN interestedNeighbours[s]
                        THEN interestedNeighbours[s]
                        ELSE Interested(interestedNeighbours[s], own[1], own[2])
           accepted == isEntryConcatenated(logPacket[s], p.type, p.shell)
           bag == IF accepted THEN interests ELSE interestedNeighbours[s]
           out == IF accepted THEN Forwarded(map, interests, p, d) ELSE Nothing
<1>1. /\ Receiving(s, d) /\ ForUser(p.type)
      /\ logPacket' = [logPacket EXCEPT ![s] = Concatenated(s, d)]
      /\ interestedNeighbours' = [interestedNeighbours EXCEPT ![s] = bag]
      /\ Handling(s, d, out)
      /\ Ends(accepted /\ IsForwardingToStranger(map, interests, p.type[1]), Unparsable(p.shell))
      /\ UNCHANGED <<familyMembers, manager, gossipTimers>>
  BY DEF ReceiveContent
<1>2. /\ p \in Packets /\ p.shell.authorId \in Nodes /\ p.type \in LogTypes
      /\ IsNeighbourMap(map) /\ IsLogList(Concatenated(s, d))
  BY <1>1, ArrivedType, HandledTypes, SwitchReads DEF Receiving
<1>3. IsInterests(interests) /\ IsInterests(bag)
  <2>1. own[1] \in Nodes /\ own[2] \in Nodes \cup {None}
    BY <1>2, getKeyByValueType
  <2>2. IsInterests(interestedNeighbours[s])
    BY DEF TypeInv, InterestsOK
  <2> HIDE DEF own, accepted
  <2> QED BY <2>1, <2>2, InterestedType
<1> HIDE DEF p, map, interests, accepted
<1>4. Forwarded(map, interests, p, d) \in [Nodes -> Seq(Packets)]
  <2> DEFINE copies(x) == [i \in 1..interests[x] |-> p]
  <2>1. ASSUME NEW x \in DOMAIN interests
        PROVE  copies(x) \in Seq(Packets)
    <3> DEFINE n == interests[x]
               f == [i \in 1..n |-> p]
    <3>1. n \in Nat
      BY <1>3 DEF IsInterests
    <3> HIDE DEF n
    <3>2. f \in [1..n -> Packets]
      BY <1>2
    <3> HIDE DEF f
    <3>3. f \in Seq(Packets)
      BY <3>1, <3>2, FunctionIsSeq
    <3> QED BY <3>3 DEF f, n
  <2>2. << >> \in Seq(Packets)
    OBVIOUS
  <2>3. Forwarded(map, interests, p, d)
            = [m \in Nodes |->
                  IF /\ <<p.type[1], getKeyByValue(map, m)>> \in DOMAIN interests
                     /\ getKeyByValue(map, m) # None
                     /\ getKeyByValue(map, m) # p.type[1]
                     /\ m # d
                  THEN copies(<<p.type[1], getKeyByValue(map, m)>>) ELSE << >>]
    BY DEF Forwarded
  <2> HIDE DEF copies
  <2> QED BY <2>1, <2>2, <2>3
<1>5. out \in [Nodes -> Seq(Packets)]
  BY <1>4, NothingCarries
<1> HIDE DEF out, bag
<1>6. NeighboursOK' /\ LinksOK' /\ myPersonalLog' = myPersonalLog /\ started' = started
  BY <1>1, <1>5, HandlingType
<1>7. ListsOK' /\ InterestsOK' /\ FaultOK'
  BY <1>1, <1>2, <1>3, <1>6, SwitchListsUpdated, InterestsUpdated, FaultUpdated DEF TypeInv
<1> QED
  BY <1>1, <1>6, <1>7, PartsUnchanged DEF TypeInv

LEMMA ReceiveUserGossipType ==
    ASSUME TypeInv, NEW s \in Switches, NEW d, ReceiveUserGossip(s, d), UNCHANGED agenda
    PROVE  TypeInv'
<1> DEFINE p == Arrived(s, d)
           answer == sendEntryFromIndexTo(logPacket[s][p.type], Known(s, d),
                         getKeyByValue(Known(s, d), d), p.shell.sequenceNum, p.type)
           out == IF IsAheadOf(s, d) THEN answer ELSE Nothing
<1>1. /\ Receiving(s, d) /\ ForUser(p.type) /\ Handling(s, d, out)
      /\ UNCHANGED <<logPacket, familyMembers, fault, manager, interestedNeighbours, gossipTimers>>
  BY DEF ReceiveUserGossip, switchVars
<1>2. p.shell.sequenceNum \in Int /\ p.type \in LogTypes
  BY <1>1, ArrivedType, HandledTypes, EntryType DEF Receiving
<1>3. IsAheadOf(s, d) => logPacket[s][p.type] \in Logs
  BY <1>1, SwitchReads, LogOfList DEF IsAheadOf, exists
<1> HIDE DEF p
<1>4. out \in [Nodes -> Seq(Packets)]
  BY <1>2, <1>3, SendEntryType, NothingCarries
<1> HIDE DEF out
<1>5. NeighboursOK' /\ LinksOK' /\ myPersonalLog' = myPersonalLog /\ started' = started
  BY <1>1, <1>4, HandlingType
<1> QED
  BY <1>1, <1>5, PartsUnchanged DEF TypeInv

\* A fake entry carries the name of the manager: gossip runs once there is one.
LEMMA GossipType ==
    ASSUME TypeInv, NEW s \in Switches, NEW t, Gossip(s, t)
    PROVE  /\ LinksOK'
           /\ UNCHANGED <<logPacket, myPersonalLog, neighbourMap, familyMembers, started,
                          fault, manager, interestedNeighbours, gossipTimers>>
<1> DEFINE log == logPacket[s][t]
           shown == IF empty(log) THEN FakeEntry(s) ELSE getLastEntry(log)
           map == neighbourMap[s]
           out == [m \in Nodes |->
                      IF getKeyByValue(map, m) # None THEN <<NetShell(t, 1, shown)>> ELSE << >>]
<1>1. /\ gossipTimers[s] > 0 /\ t \in DOMAIN logPacket[s]
      /\ channel' = Sending(channel, s, out)
      /\ UNCHANGED <<logPacket, myPersonalLog, neighbourMap, familyMembers, started,
                     fault, manager, interestedNeighbours, gossipTimers>>
  BY DEF Gossip, switchVars
<1>2. manager[s] = ManagerId
  BY <1>1 DEF TypeInv, ManagerOK, TimersFollowManager
<1>3. log \in Logs /\ t \in LogTypes
  <2>1. IsLogList(logPacket[s])
    BY Identifiers DEF TypeInv, ListsOK
  <2> QED BY <1>1, <2>1, LogOfList
<1>4. FakeEntry(s) \in Entries
  <2>1. ContentShell("f", "p", 0) \in Contents
    BY ContentShellType DEF Functions
  <2> QED
    BY <1>2, <2>1, Identifiers DEF FakeEntry, LogShell, Entries, NoHash, NoSignature
<1>5. shown \in Entries
  BY <1>3, <1>4, LogType
<1> HIDE DEF shown, map
<1>6. out \in [Nodes -> Seq(Packets)]
  <2>1. NetShell(t, 1, shown) \in Packets
    BY <1>3, <1>5, NetShellType
  <2>2. <<NetShell(t, 1, shown)>> \in Seq(Packets) /\ << >> \in Seq(Packets)
    BY <2>1
  <2> QED BY <2>2
<1> HIDE DEF out
<1> QED
  BY <1>1, <1>6, ChannelIsCarried, LinksAfterSending

-----------------------------------------------------------------------------
(* The actions of a user *)

\* The log a started user keeps for the switches.
LEMMA SwitchLogType ==
    ASSUME TypeInv, NEW u \in Users \cap started
    PROVE  /\ u \in Nodes /\ IsLogList(logPacket[u])
           /\ SwitchLog(u) \in LogTypes /\ SwitchLog(u) \in DOMAIN logPacket[u]
           /\ logPacket[u][SwitchLog(u)] \in Logs
           /\ \A a : SwitchLog(u) # LOGTYPE(a, USER_ALL)
<1>1. u \in Nodes /\ IsLogList(logPacket[u]) /\ SwitchLog(u) \in DOMAIN logPacket[u]
  BY Identifiers DEF TypeInv, ListsOK
<1>2. \A a : SwitchLog(u) # LOGTYPE(a, USER_ALL)
  BY DEF SwitchLog, LOGTYPE, USER_ALL, SWITCH_ALL
<1> QED
  BY <1>1, <1>2, LogOfList

\* A packet of a given type and entry for every neighbour.
LEMMA ToNeighboursType ==
    ASSUME NEW u, NEW t \in LogTypes, NEW e \in Entries
    PROVE  ToNeighbours(u, <<NetShell(t, 0, e)>>) \in [Nodes -> Seq(Packets)]
<1>1. NetShell(t, 0, e) \in Packets
  BY NetShellType
<1>2. <<NetShell(t, 0, e)>> \in Seq(Packets) /\ << >> \in Seq(Packets)
  BY <1>1
<1> QED
  BY <1>2 DEF ToNeighbours

LEMMA StartUserType ==
    ASSUME TypeInv, NEW u \in Users, StartUsers(u)
    PROVE  TypeInv'
<1> DEFINE log == appendLogShell(NewLog(u), ContentShell("plugAndPlay", u, 0))
           packet == NetShell(SwitchLog(u), 0, getLastEntry(log))
           out == [m \in Nodes |-> IF m \in Peers(u) THEN <<packet>> ELSE << >>]
<1>1. /\ started' = started \cup {u}
      /\ logPacket' = [logPacket EXCEPT ![u] = Insert(logPacket[u], SwitchLog(u), log)]
      /\ channel' = Sending(channel, u, out)
      /\ UNCHANGED <<myPersonalLog, neighbourMap, familyMembers, fault, manager,
                     interestedNeighbours, gossipTimers, agenda>>
  BY DEF StartUsers, StartUser, switchVars
<1>2. u \in Nodes /\ SwitchLog(u) \in LogTypes
  BY Identifiers, LogTypesAre DEF SwitchLog
<1>3. log \in Logs /\ getLastEntry(log) \in Entries
  <2>1. NewLog(u) \in Logs /\ ContentShell("plugAndPlay", u, 0) \in Contents
    BY <1>2, NewLogType, ContentShellType DEF Functions
  <2> QED BY <2>1, appendLogShellType
<1>4. packet \in Packets
  BY <1>2, <1>3, NetShellType
<1> HIDE DEF log, packet
<1>5. out \in [Nodes -> Seq(Packets)]
  <2>1. <<packet>> \in Seq(Packets) /\ << >> \in Seq(Packets)
    BY <1>4
  <2> QED BY <2>1
<1> HIDE DEF out
<1>6. LinksOK'
  BY <1>1, <1>5, ChannelIsCarried, LinksAfterSending
<1>7. ListsOK'
  <2> DEFINE new == Insert(logPacket[u], SwitchLog(u), log)
  <2>1. IsLogList(logPacket[u])
    BY <1>2 DEF TypeInv, ListsOK
  <2>2. IsLogList(new) /\ SwitchLog(u) \in DOMAIN new
    <3> DEFINE list == logPacket[u]
               type == SwitchLog(u)
    <3>1. IsLogList(list) /\ type \in LogTypes
      BY <1>2, <2>1
    <3> HIDE DEF list, type
    <3>2. /\ IsLogList(Insert(list, type, log))
          /\ DOMAIN Insert(list, type, log) = DOMAIN list \cup {type}
      BY <1>3, <3>1, InsertLogType
    <3> QED BY <3>2 DEF list, type
  <2> HIDE DEF new
  <2> QED BY <1>1, <1>2, <2>2, ListsUpdated DEF TypeInv, new
<1> QED
  BY <1>1, <1>2, <1>6, <1>7, PartsUnchanged DEF TypeInv

LEMMA CallSubscribeType ==
    ASSUME TypeInv, NEW u \in Users, NEW a \in Users, CallSubscribe(u, a)
    PROVE  TypeInv'
<1> DEFINE log == appendLogShell(logPacket[u][SwitchLog(u)], ContentShell("getContentFrom", a, 0))
           out == ToNeighbours(u, <<NetShell(SwitchLog(u), 0, getLastEntry(log))>>)
<1>1. /\ u \in started
      /\ \/ UNCHANGED <<logPacket, channel>>
         \/ /\ logPacket' = [logPacket EXCEPT ![u][SwitchLog(u)] = log]
            /\ channel' = Sending(channel, u, out)
      /\ agenda' = [agenda EXCEPT !.subscribe = @ \ {<<u, a>>}]
      /\ UNCHANGED <<myPersonalLog, neighbourMap, familyMembers, started, fault, manager,
                     interestedNeighbours, gossipTimers>>
  BY DEF CallSubscribe, Subscribe, Telling, Running, switchVars
<1>2. /\ u \in Nodes /\ IsLogList(logPacket[u]) /\ SwitchLog(u) \in LogTypes
      /\ SwitchLog(u) \in DOMAIN logPacket[u] /\ logPacket[u][SwitchLog(u)] \in Logs
  BY <1>1, SwitchLogType
<1>3. log \in Logs /\ getLastEntry(log) \in Entries
  <2>1. ContentShell("getContentFrom", a, 0) \in Contents
    BY Identifiers, ContentShellType DEF Functions
  <2> QED BY <1>2, <2>1, appendLogShellType
<1>4. out \in [Nodes -> Seq(Packets)]
  BY <1>2, <1>3, ToNeighboursType
<1>5. agenda' \in Agendas
  BY <1>1 DEF TypeInv, Agendas
<1> HIDE DEF log, out
<1>6. LinksOK'
  <2>1. CASE UNCHANGED <<logPacket, channel>>
    BY <2>1, PartsUnchanged DEF TypeInv
  <2>2. CASE channel' = Sending(channel, u, out)
    BY <1>4, <2>2, ChannelIsCarried, LinksAfterSending
  <2> QED BY <1>1, <2>1, <2>2
<1>7. ListsOK'
  <2>1. CASE UNCHANGED <<logPacket, channel>>
    BY <1>1, <2>1, PartsUnchanged DEF TypeInv
  <2>2. CASE logPacket' = [logPacket EXCEPT ![u][SwitchLog(u)] = log]
    <3> DEFINE new == [logPacket[u] EXCEPT ![SwitchLog(u)] = log]
    <3>1. IsLogList(new) /\ SwitchLog(u) \in DOMAIN new
      BY <1>2, <1>3, UpdateLogType
    <3>2. logPacket' = [logPacket EXCEPT ![u] = new]
      BY <2>2
    <3> HIDE DEF new
    <3> QED BY <1>1, <1>2, <3>1, <3>2, ListsUpdated DEF TypeInv
  <2> QED BY <1>1, <2>1, <2>2
<1> QED
  BY <1>1, <1>5, <1>6, <1>7, PartsUnchanged DEF TypeInv

LEMMA CallUnsubscribeType ==
    ASSUME TypeInv, NEW u \in Users, NEW a \in Users, CallUnsubscribe(u, a)
    PROVE  TypeInv'
<1> DEFINE log == appendLogShell(logPacket[u][SwitchLog(u)],
                                 ContentShell("removeUserFromInl", a, 0))
           out == ToNeighbours(u, <<NetShell(SwitchLog(u), 0, getLastEntry(log))>>)
           told == IF neighbourMap[u] = << >> THEN logPacket[u]
                   ELSE [logPacket[u] EXCEPT ![SwitchLog(u)] = log]
           new == Without(told, LOGTYPE(a, USER_ALL))
<1>1. /\ u \in started
      /\ logPacket' = [logPacket EXCEPT ![u] = new]
      /\ channel' = Sending(channel, u, out)
      /\ agenda' = [agenda EXCEPT !.unsubscribe = @ \ {<<u, a>>}]
      /\ UNCHANGED <<myPersonalLog, neighbourMap, familyMembers, started, fault, manager,
                     interestedNeighbours, gossipTimers>>
  BY DEF CallUnsubscribe, Unsubscribe, Running, switchVars
<1>2. /\ u \in Nodes /\ IsLogList(logPacket[u]) /\ SwitchLog(u) \in LogTypes
      /\ SwitchLog(u) \in DOMAIN logPacket[u] /\ logPacket[u][SwitchLog(u)] \in Logs
      /\ SwitchLog(u) # LOGTYPE(a, USER_ALL)
  BY <1>1, SwitchLogType
<1>3. log \in Logs /\ getLastEntry(log) \in Entries
  <2>1. ContentShell("removeUserFromInl", a, 0) \in Contents
    BY Identifiers, ContentShellType DEF Functions
  <2> QED BY <1>2, <2>1, appendLogShellType
<1>4. out \in [Nodes -> Seq(Packets)]
  BY <1>2, <1>3, ToNeighboursType
<1>5. agenda' \in Agendas
  BY <1>1 DEF TypeInv, Agendas
<1> HIDE DEF log, out
<1>6. LinksOK'
  BY <1>1, <1>4, ChannelIsCarried, LinksAfterSending
<1>7. IsLogList(told) /\ SwitchLog(u) \in DOMAIN told
  BY <1>2, <1>3, UpdateLogType
<1> HIDE DEF told
<1>8. IsLogList(new) /\ SwitchLog(u) \in DOMAIN new
  <2> DEFINE type == LOGTYPE(a, USER_ALL)
  <2>1. SwitchLog(u) # type
    BY <1>2
  <2> HIDE DEF type
  <2>2. IsLogList(Without(told, type)) /\ DOMAIN Without(told, type) = DOMAIN told \ {type}
    BY <1>7, WithoutType
  <2> QED BY <1>7, <2>1, <2>2 DEF type
<1> HIDE DEF new
<1>9. ListsOK'
  BY <1>1, <1>2, <1>8, ListsUpdated DEF TypeInv
<1> QED
  BY <1>1, <1>5, <1>6, <1>9, PartsUnchanged DEF TypeInv

LEMMA CallPushType ==
    ASSUME TypeInv, NEW u \in Users, CallPush(u)
    PROVE  TypeInv'
<1> DEFINE content == ContentShell("pushContent", None, Len(myPersonalLog[u].log))
           log == appendLogShell(myPersonalLog[u], content)
           out == ToNeighbours(u, <<NetShell(OwnLog(u), 0, getLastEntry(log))>>)
<1>1. /\ myPersonalLog' = [myPersonalLog EXCEPT ![u] = log]
      /\ channel' = Sending(channel, u, out)
      /\ agenda.push[u] > 0
      /\ agenda' = [agenda EXCEPT !.push[u] = @ - 1]
      /\ UNCHANGED <<logPacket, neighbourMap, familyMembers, started, fault, manager,
                     interestedNeighbours, gossipTimers>>
  BY DEF CallPush, PushLogToSwitch, switchVars
<1>2. myPersonalLog[u] \in Logs
  BY DEF TypeInv, PersonalOK
<1>3. log \in Logs /\ getLastEntry(log) \in Entries
  <2>1. Len(myPersonalLog[u].log) \in Nat
    BY <1>2, LogType
  <2>2. content \in Contents
    BY <2>1, ContentShellType DEF Functions
  <2> HIDE DEF content
  <2> QED BY <1>2, <2>2, appendLogShellType
<1>4. out \in [Nodes -> Seq(Packets)]
  <2>1. OwnLog(u) \in LogTypes
    BY Identifiers, LogTypesAre DEF OwnLog
  <2> QED BY <1>3, <2>1, ToNeighboursType
<1>5. agenda' \in Agendas
  <2>1. agenda \in Agendas /\ agenda.push \in [Users -> Nat]
    BY DEF TypeInv, Agendas
  <2> DEFINE push == [agenda.push EXCEPT ![u] = @ - 1]
  <2>2. push \in [Users -> Nat]
    BY <1>1, <2>1
  <2>3. agenda' = [agenda EXCEPT !.push = push]
    BY <1>1
  <2> HIDE DEF push
  <2> QED BY <2>1, <2>2, <2>3 DEF Agendas
<1> HIDE DEF log, out
<1>6. LinksOK' /\ PersonalOK'
  BY <1>1, <1>3, <1>4, ChannelIsCarried, LinksAfterSending, PersonalUpdated DEF TypeInv
<1> QED
  BY <1>1, <1>5, <1>6, PartsUnchanged DEF TypeInv

LEMMA UserReads ==
    ASSUME TypeInv, NEW u \in Users, NEW d, Receiving(u, d)
    PROVE  /\ IsNeighbourMap(Learnt(u, d))
           /\ OwnAnswer(u, d) \in [Nodes -> Seq(Packets)]
<1>1. /\ u \in Nodes /\ d \in Nodes /\ Arrived(u, d).shell \in Entries
      /\ Arrived(u, d).shell.authorId \in Nodes
  BY ArrivedType DEF Receiving
<1>2. IsNeighbourMap(Learnt(u, d))
  BY <1>1, LearnNeighbourType DEF Learnt, TypeInv, NeighboursOK
<1>3. myPersonalLog[u] \in Logs /\ OwnLog(u) \in LogTypes /\ Arrived(u, d).shell.sequenceNum \in Int
  BY <1>1, EntryType, LogTypesAre DEF TypeInv, PersonalOK, OwnLog
<1>4. OwnAnswer(u, d) \in [Nodes -> Seq(Packets)]
  BY <1>3, SendEntryType, NothingCarries DEF OwnAnswer
<1> QED
  BY <1>2, <1>4

LEMMA ReadingType ==
    ASSUME TypeInv, NEW u \in Users, NEW d, Receiving(u, d),
           NEW map, IsNeighbourMap(map), NEW out \in [Nodes -> Seq(Packets)],
           Reading(u, d, map, out)
    PROVE  NeighboursOK' /\ LinksOK' /\ UNCHANGED <<myPersonalLog, familyMembers, started>>
<1>1. u \in Nodes /\ Carry(Taking(u, d), Packets)
  BY ArrivedType DEF Receiving
<1>2. /\ neighbourMap' = [neighbourMap EXCEPT ![u] = map]
      /\ channel' = Sending(Taking(u, d), u, out)
      /\ UNCHANGED <<myPersonalLog, familyMembers, started>>
  BY DEF Reading
<1>3. LinksOK'
  BY <1>1, <1>2, LinksAfterSending
<1>4. NeighboursOK'
  BY <1>1, <1>2, NeighboursUpdated DEF TypeInv
<1> QED
  BY <1>2, <1>3, <1>4

LEMMA ReceiveUserType ==
    ASSUME TypeInv, NEW u \in Users, NEW d, ReceiveUser(u, d), UNCHANGED <<switchVars, agenda>>
    PROVE  TypeInv'
<1> USE DEF switchVars
<1>1. CASE AddSwitch(u, d)
  <2> DEFINE map == Insert(Learnt(u, d), Arrived(u, d).shell.authorId, d)
  <2>1. Receiving(u, d) /\ Reading(u, d, map, Nothing) /\ UNCHANGED <<logPacket, fault>>
    BY <1>1 DEF AddSwitch
  <2>2. IsNeighbourMap(map)
    BY <2>1, UserReads, ArrivedType, InsertNeighbourType DEF Receiving
  <2> HIDE DEF map
  <2>3. NeighboursOK' /\ LinksOK' /\ UNCHANGED <<myPersonalLog, familyMembers, started>>
    BY <2>1, <2>2, ReadingType, NothingCarries
  <2> QED BY <2>1, <2>3, PartsUnchanged DEF TypeInv
<1>2. CASE UpdateContent(u, d)
  <2> DEFINE p == Arrived(u, d)
             new == concatenateEntry(logPacket[u], p.type, p.shell)
  <2>1. /\ Receiving(u, d) /\ IsForeign(u, d)
        /\ logPacket' = [logPacket EXCEPT ![u] = new]
        /\ Reading(u, d, Learnt(u, d), OwnAnswer(u, d))
        /\ Ends(AnswersFromEmptyLog(u, d), Unparsable(p.shell))
    BY <1>2 DEF UpdateContent
  <2>2. u \in Users \cap started /\ p.shell \in Entries /\ p.type \in LogTypes
    <3>1. p \in Packets /\ p.type[2] # "switch*"
      BY <2>1, ArrivedType, Identifiers DEF Receiving, IsForeign, USER_ALL
    <3> QED BY <2>1, <3>1, PacketType DEF Receiving
  <2>3. /\ u \in Nodes /\ IsLogList(logPacket[u]) /\ SwitchLog(u) \in DOMAIN logPacket[u]
    BY <2>2, SwitchLogType
  <2> HIDE DEF p
  <2>4. IsLogList(new) /\ SwitchLog(u) \in DOMAIN new
    <3> DEFINE list == logPacket[u]
    <3>1. IsLogList(list) /\ SwitchLog(u) \in DOMAIN list
      BY <2>3
    <3> HIDE DEF list
    <3>2. IsLogList(concatenateEntry(list, p.type, p.shell))
          /\ DOMAIN concatenateEntry(list, p.type, p.shell) = DOMAIN list \cup {p.type}
      BY <2>2, <3>1, concatenateEntryType
    <3> QED BY <3>1, <3>2 DEF list
  <2> HIDE DEF new
  <2>5. NeighboursOK' /\ LinksOK' /\ UNCHANGED <<myPersonalLog, familyMembers, started>>
    BY <2>1, UserReads, ReadingType
  <2>6. ListsOK' /\ FaultOK'
    BY <2>1, <2>3, <2>4, <2>5, ListsUpdated, FaultUpdated DEF TypeInv
  <2> QED BY <2>1, <2>5, <2>6, PartsUnchanged DEF TypeInv
<1>3. CASE AnswerOwnGossip(u, d)
  <2>1. /\ Receiving(u, d)
        /\ Reading(u, d, Learnt(u, d), OwnAnswer(u, d))
        /\ Ends(AnswersFromEmptyLog(u, d), FALSE)
        /\ UNCHANGED logPacket
    BY <1>3 DEF AnswerOwnGossip
  <2>2. NeighboursOK' /\ LinksOK' /\ UNCHANGED <<myPersonalLog, familyMembers, started>>
    BY <2>1, UserReads, ReadingType
  <2>3. FaultOK'
    BY <2>1, FaultUpdated DEF TypeInv
  <2> QED BY <2>1, <2>2, <2>3, PartsUnchanged DEF TypeInv
<1>4. CASE IgnorePacket(u, d)
  <2>1. /\ Receiving(u, d) /\ Reading(u, d, Learnt(u, d), Nothing)
        /\ UNCHANGED <<logPacket, fault>>
    BY <1>4 DEF IgnorePacket
  <2>2. NeighboursOK' /\ LinksOK' /\ UNCHANGED <<myPersonalLog, familyMembers, started>>
    BY <2>1, UserReads, ReadingType, NothingCarries
  <2> QED BY <2>1, <2>2, PartsUnchanged DEF TypeInv
<1>5. CASE MissPacket(u, d)
  <2>1. /\ Arriving(u, d) /\ channel' = Taking(u, d)
        /\ UNCHANGED <<logPacket, myPersonalLog, neighbourMap, familyMembers, started, fault>>
    BY <1>5 DEF MissPacket
  <2>2. LinksOK'
    BY <2>1, ArrivedType DEF Carry, LinksOK
  <2> QED BY <2>1, <2>2, PartsUnchanged DEF TypeInv
<1> QED
  BY <1>1, <1>2, <1>3, <1>4, <1>5 DEF ReceiveUser

-----------------------------------------------------------------------------
(* The actions of the manager *)

LEMMA JoinAnswersType ==
    ASSUME NEW log \in Logs, ~empty(log), NEW map, NEW author
    PROVE  JoinAnswers(log, map, author) \in [Nodes -> Seq(Packets)]
<1>1. MyType \in LogTypes
  BY Identifiers, LogTypesAre DEF MyType
<1>2. getLastEntry(log).sequenceNum \in Int
  BY LogType, EntryType
<1>3. /\ EntriesFrom(log, 0, MyType) \in Seq(Packets)
      /\ EntriesFrom(log, getLastEntry(log).sequenceNum, MyType) \in Seq(Packets)
      /\ << >> \in Seq(Packets)
  BY <1>1, <1>2, EntriesFromType
<1> QED
  BY <1>3 DEF JoinAnswers

LEMMA RegisterSwitchType ==
    ASSUME TypeInv, NEW d, RegisterSwitch(d), UNCHANGED <<switchVars, agenda>>
    PROVE  TypeInv'
<1> DEFINE p == Arrived(ManagerId, d)
           author == p.shell.authorId
           request == Registered(d)[p.type]
           map == Insert(neighbourMap[ManagerId], author, d)
           log == appendLogShell(myPersonalLog[ManagerId],
                                 ContentShell("addMemberToNetwork", author, 0))
           registers == ~empty(request) /\ getLastEntry(request).shell.function = "addToNetwork"
<1>1. /\ Receiving(ManagerId, d) /\ p.type[2] = MANAGER_ALL
      /\ logPacket' = [logPacket EXCEPT ![ManagerId] = Registered(d)]
      /\ Ends(empty(request), Unparsable(p.shell))
      /\ IF registers
         THEN /\ neighbourMap' = [neighbourMap EXCEPT ![ManagerId] = map]
              /\ familyMembers' = [familyMembers EXCEPT ![ManagerId] = Append(@, author)]
              /\ myPersonalLog' = [myPersonalLog EXCEPT ![ManagerId] = log]
              /\ channel' = Sending(Taking(ManagerId, d), ManagerId, JoinAnswers(log, map, author))
         ELSE /\ channel' = Taking(ManagerId, d)
              /\ UNCHANGED <<neighbourMap, familyMembers, myPersonalLog>>
      /\ UNCHANGED started
  BY DEF RegisterSwitch
<1>2. /\ ManagerId \in Nodes /\ d \in Nodes /\ author \in Nodes /\ p.shell \in Entries
      /\ p.type \in LogTypes /\ Carry(Taking(ManagerId, d), Packets)
  BY <1>1, ArrivedType, HandledTypes DEF Receiving
<1>3. IsLogList(Registered(d))
  <2> DEFINE list == logPacket[ManagerId]
             type == p.type
             e == p.shell
  <2>1. IsLogList(list) /\ type \in LogTypes /\ e \in Entries
    BY <1>2 DEF TypeInv, ListsOK
  <2>2. Registered(d) = concatenateEntry(list, type, e)
    BY DEF Registered
  <2> HIDE DEF list, type, e
  <2>3. IsLogList(concatenateEntry(list, type, e))
    BY <2>1, concatenateEntryType
  <2> QED BY <2>2, <2>3
<1>4. ListsOK' /\ FaultOK'
  BY <1>1, <1>3, SwitchListsUpdated, FaultUpdated DEF TypeInv
<1>5. log \in Logs /\ ~empty(log)
  <2>1. ContentShell("addMemberToNetwork", author, 0) \in Contents
    BY <1>2, ContentShellType DEF Functions
  <2>2. myPersonalLog[ManagerId] \in Logs
    BY DEF TypeInv, PersonalOK
  <2> QED BY <2>1, <2>2, appendLogShellType
<1>6. IsNeighbourMap(map)
  BY <1>2, InsertNeighbourType DEF TypeInv, NeighboursOK
<1> HIDE DEF log, map, author, request
<1>7. PersonalOK' /\ NeighboursOK' /\ FamilyOK' /\ LinksOK'
  <2>1. CASE registers
    <3>1. LinksOK'
      BY <1>1, <1>2, <1>5, <2>1, JoinAnswersType, LinksAfterSending
    <3>2. PersonalOK' /\ NeighboursOK' /\ FamilyOK'
      BY <1>1, <1>2, <1>5, <1>6, <2>1, PersonalUpdated, NeighboursUpdated, FamilyUpdated
         DEF TypeInv
    <3> QED BY <3>1, <3>2
  <2>2. CASE ~registers
    <3>1. LinksOK'
      BY <1>1, <1>2, <2>2 DEF Carry, LinksOK
    <3> QED BY <1>1, <2>2, <3>1, PartsUnchanged DEF TypeInv
  <2> QED BY <2>1, <2>2
<1> QED
  BY <1>1, <1>4, <1>7, PartsUnchanged DEF TypeInv, switchVars

LEMMA ReceiveManagerType ==
    ASSUME TypeInv, NEW d, ReceiveManager(d), UNCHANGED <<switchVars, agenda>>
    PROVE  TypeInv'
<1>1. CASE RegisterSwitch(d)
  BY <1>1, RegisterSwitchType
<1>2. CASE AnswerManagerGossip(d)
  <2> DEFINE p == Arrived(ManagerId, d)
             map == neighbourMap[ManagerId]
             out == IF getCurrentSeqNum(myPersonalLog[ManagerId]) > p.shell.sequenceNum
                    THEN sendEntryFromIndexTo(myPersonalLog[ManagerId], map,
                             getKeyByValue(map, d), p.shell.sequenceNum, GossipAnswerType)
                    ELSE Nothing
  <2>1. /\ Receiving(ManagerId, d)
        /\ channel' = Sending(Taking(ManagerId, d), ManagerId, out)
        /\ UNCHANGED <<logPacket, myPersonalLog, neighbourMap, familyMembers, started, fault>>
    BY <1>2 DEF AnswerManagerGossip
  <2>2. Carry(Taking(ManagerId, d), Packets) /\ p.shell.sequenceNum \in Int
    BY <2>1, ArrivedType, EntryType DEF Receiving
  <2>3. out \in [Nodes -> Seq(Packets)]
    BY <2>2, SendEntryType, NothingCarries DEF TypeInv, PersonalOK
  <2> HIDE DEF out
  <2>4. LinksOK'
    BY <2>1, <2>2, <2>3, LinksAfterSending
  <2> QED BY <2>1, <2>4, PartsUnchanged DEF TypeInv, switchVars
<1>3. CASE DropUnknown(d)
  <2>1. /\ Arriving(ManagerId, d) /\ channel' = Taking(ManagerId, d)
        /\ UNCHANGED <<logPacket, myPersonalLog, neighbourMap, familyMembers, started, fault>>
    BY <1>3 DEF DropUnknown, Receiving
  <2>2. LinksOK'
    BY <2>1, ArrivedType DEF Carry, LinksOK
  <2> QED BY <2>1, <2>2, PartsUnchanged DEF TypeInv, switchVars
<1> QED
  BY <1>1, <1>2, <1>3 DEF ReceiveManager

-----------------------------------------------------------------------------
(* The network *)

LEMMA ReceiveSwitchType ==
    ASSUME TypeInv, NEW s \in Switches, NEW d, ReceiveSwitch(s, d), UNCHANGED agenda
    PROVE  TypeInv'
  BY DropPacketType, ServeRequestType, AnswerSwitchGossipType, RejectEntryType,
     AcceptMemberType, AcceptPlugAndPlayType, AcceptRequestType, AcceptUnsubscribeType,
     AcceptOtherType, ReceiveContentType, ReceiveUserGossipType DEF ReceiveSwitch

LEMMA GossipRoundType ==
    ASSUME TypeInv, NEW s \in Switches, GossipRound(s)
    PROVE  TypeInv'
<1>1. PICK t \in DOMAIN logPacket[s] : Gossip(s, t)
  BY DEF GossipRound
<1>2. /\ LinksOK'
      /\ UNCHANGED <<logPacket, myPersonalLog, neighbourMap, familyMembers, started,
                     fault, manager, interestedNeighbours, gossipTimers>>
  BY <1>1, GossipType
<1>3. agenda' \in Agendas
  <2>1. agenda.gossip > 0 /\ agenda' = [agenda EXCEPT !.gossip = @ - 1]
    BY DEF GossipRound
  <2>2. agenda \in Agendas
    BY DEF TypeInv
  <2>3. agenda.gossip - 1 \in Nat
    BY <2>1, <2>2 DEF Agendas
  <2> QED BY <2>1, <2>2, <2>3 DEF Agendas
<1> QED
  BY <1>2, <1>3, PartsUnchanged DEF TypeInv

LEMMA LosePacketType ==
    ASSUME TypeInv, NEW l \in LossyLinks, LosePacket(l)
    PROVE  TypeInv'
<1>1. /\ channel[l] # << >> /\ channel' = [channel EXCEPT ![l] = Tail(@)]
      /\ agenda.loss > 0 /\ agenda' = [agenda EXCEPT !.loss = @ - 1]
      /\ UNCHANGED <<logPacket, myPersonalLog, neighbourMap, familyMembers, started,
                     fault, manager, interestedNeighbours, gossipTimers>>
  BY DEF LosePacket, switchVars
<1>2. LinksOK'
  BY <1>1, LossBetweenSwitches, ChannelIsCarried, TakingCarries DEF Carry, LinksOK
<1>3. agenda' \in Agendas
  BY <1>1 DEF TypeInv, Agendas
<1> QED
  BY <1>1, <1>2, <1>3, PartsUnchanged DEF TypeInv

LEMMA InitType == Init => TypeInv
<1> SUFFICES ASSUME Init PROVE TypeInv
  OBVIOUS
<1> USE DEF Init, DeviceInit, SwitchInit
<1>1. ListsOK
  BY Identifiers DEF ListsOK, IsLogList
<1>2. PersonalOK
  <2>1. \A n \in Nodes : NewLog(n) \in Logs
    BY NewLogType
  <2>2. InitialContent(None) \in Contents
    BY ContentShellType DEF InitialContent, Functions
  <2>3. appendLogShell(NewLog(ManagerId), InitialContent(None)) \in Logs
    BY <2>1, <2>2, Identifiers, appendLogShellType
  <2> QED BY <2>1, <2>3, Identifiers DEF PersonalOK
<1>3. NeighboursOK
  BY DEF NeighboursOK, IsNeighbourMap
<1>4. FamilyOK
  BY DEF FamilyOK
<1>5. LinksOK
  <2>1. \A l \in Links : channel[l] = << >>
    OBVIOUS
  <2> QED BY <2>1, QueueSizeIsPositive DEF LinksOK
<1>6. FaultOK
  BY DEF FaultOK
<1>7. ManagerOK
  BY DEF ManagerOK, TimersFollowManager
<1>8. InterestsOK
  BY EmptyInterestsType DEF InterestsOK
<1>9. started \subseteq Nodes /\ agenda \in Agendas
  BY Identifiers, CallsAreOfUsers, BoundsAreTyped DEF Agendas
<1> QED
  BY <1>1, <1>2, <1>3, <1>4, <1>5, <1>6, <1>7, <1>8, <1>9 DEF TypeInv

LEMMA NextType == TypeInv /\ [Next]_vars => TypeInv'
<1> SUFFICES ASSUME TypeInv, [Next]_vars PROVE TypeInv'
  OBVIOUS
<1>1. ASSUME NEW s \in Switches, SwitchStep(s) PROVE TypeInv'
  BY <1>1, StartSwitchType, ReceiveSwitchType, GossipRoundType DEF SwitchStep
<1>2. ASSUME NEW u \in Users, UserStep(u) PROVE TypeInv'
  BY <1>2, StartUserType, CallSubscribeType, CallUnsubscribeType, CallPushType, ReceiveUserType
     DEF UserStep
<1>3. CASE ManagerStep
  BY <1>3, ReceiveManagerType DEF ManagerStep
<1>4. ASSUME NEW l \in LossyLinks, LosePacket(l) PROVE TypeInv'
  BY <1>4, LosePacketType
<1>5. CASE UNCHANGED vars
  BY <1>5, PartsUnchanged DEF TypeInv, vars, deviceVars, switchVars
<1> QED
  BY <1>1, <1>2, <1>3, <1>4, <1>5 DEF Next

LEMMA SpecType == Spec => []TypeInv
  BY InitType, NextType, PTL DEF Spec

\* Whatever the network, the schedule and the bounds: all state is well typed,
\* no link ever holds more than its queue takes (sendPacket), and a switch has
\* at most one gossip event scheduled, however often the manager's packets
\* reach it (recvPkt).
THEOREM TypeCorrectness == Spec => []TypeOK
  BY SpecType, TypeInvIsTypeOK, PTL

=============================================================================
