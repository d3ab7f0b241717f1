---------------------------- MODULE LogWidthProofs ----------------------------
(***************************************************************************)
(* What becomes of a log and its replicas when sequence numbers wrap, for  *)
(* numbers of any width, any holders and any number of entries.            *)
(***************************************************************************)
EXTENDS LogWidth, FiniteSetTheorems, SequenceTheorems, TLAPS

-----------------------------------------------------------------------------
(* Induction over the entries of an answer *)

\* A set that has 0, and with a number the next, has all of Nat: otherwise the
\* numbers of the set below a missing one could be mapped into fewer.
LEMMA NatSetInduction ==
    ASSUME NEW S, 0 \in S, \A n \in Nat : n \in S => n + 1 \in S
    PROVE  Nat \subseteq S
<1> SUFFICES ASSUME NEW n \in Nat, n \notin S PROVE FALSE
  OBVIOUS
<1> DEFINE A == {i \in 0..n : i \in S}
           B == {i \in 1..n : i \in S}
           next == [i \in A |-> i + 1]
<1>1. IsFiniteSet(0..n)
  BY FS_Interval
<1>2. IsFiniteSet(A) /\ IsFiniteSet(B) /\ B \subseteq A
  BY <1>1, FS_Subset
<1>3. next \in Injection(A, B)
  <2>1. \A i \in A : i + 1 \in B
    OBVIOUS
  <2>2. next \in [A -> B]
    BY <2>1
  <2>3. \A i \in A : \A j \in A : next[i] = next[j] => i = j
    OBVIOUS
  <2> QED BY <2>2, <2>3 DEF Injection, IsInjective
<1>4. Cardinality(A) <= Cardinality(B)
  BY <1>2, <1>3, FS_Injection
<1>5. /\ Cardinality(B) <= Cardinality(A) /\ Cardinality(B) \in Nat /\ Cardinality(A) \in Nat
      /\ Cardinality(A) = Cardinality(B) => A = B
  BY <1>2, FS_Subset, FS_CardinalityType
<1>6. 0 \in A /\ 0 \notin B
  OBVIOUS
<1> QED
  BY <1>4, <1>5, <1>6

\* The logs an answer leads through, the first k entries of it.
IsReading(held, l, sent, lost, k) ==
    held = [i \in 0..k |-> IF i = 0 THEN l
                           ELSE IF i \in lost THEN held[i - 1] ELSE addToLog(held[i - 1], sent[i])]

LEMMA ReadingExists ==
    ASSUME NEW l, NEW sent, NEW lost, NEW n \in Nat
    PROVE  \E held : IsReading(held, l, sent, lost, n)
<1> DEFINE S == {k \in Nat : \E held : IsReading(held, l, sent, lost, k)}
<1>1. 0 \in S
  <2>1. IsReading([i \in 0..0 |-> l], l, sent, lost, 0)
    BY DEF IsReading
  <2> QED BY <2>1
<1>2. ASSUME NEW k \in Nat, k \in S PROVE k + 1 \in S
  <2>1. PICK g : IsReading(g, l, sent, lost, k)
    BY <1>2
  <2> DEFINE Next1(x, i) == IF i \in lost THEN x ELSE addToLog(x, sent[i])
             h == [i \in 0..(k + 1) |-> IF i = k + 1 THEN Next1(g[k], k + 1) ELSE g[i]]
  <2> HIDE DEF Next1
  <2>2. \A i \in 0..k : g[i] = IF i = 0 THEN l ELSE Next1(g[i - 1], i)
    BY <2>1 DEF IsReading, Next1
  <2>3. ASSUME NEW i \in 0..(k + 1)
        PROVE  h[i] = IF i = 0 THEN l ELSE Next1(h[i - 1], i)
    <3>1. CASE i = k + 1
      BY <3>1
    <3>2. CASE i # k + 1
      <4>1. i \in 0..k /\ h[i] = g[i]
        BY <3>2
      <4>2. i # 0 => i - 1 \in 0..(k + 1) /\ i - 1 # k + 1 /\ h[i - 1] = g[i - 1]
        BY <4>1
      <4> QED BY <2>2, <4>1, <4>2
    <3> QED BY <3>1, <3>2
  <2>4. h = [i \in 0..(k + 1) |-> h[i]]
    OBVIOUS
  <2> HIDE DEF h
  <2>5. h = [i \in 0..(k + 1) |-> IF i = 0 THEN l ELSE Next1(h[i - 1], i)]
    BY <2>3, <2>4
  <2>6. IsReading(h, l, sent, lost, k + 1)
    BY <2>5 DEF IsReading, Next1
  <2> QED BY <2>6
<1> HIDE DEF S
<1>3. Nat \subseteq S
  BY <1>1, <1>2, NatSetInduction
<1> QED
  BY <1>3 DEF S

\* What holds of a log and stays so with every entry read of an answer holds
\* of what the answer makes of it.
LEMMA ArrivingKeeps ==
    ASSUME NEW l, NEW sent, NEW lost, Len(sent) \in Nat, NEW Good, l \in Good,
           \A i \in 1..Len(sent) : \A m \in Good : addToLog(m, sent[i]) \in Good
    PROVE  Arriving(l, sent, lost) \in Good
<1> DEFINE n == Len(sent)
<1>1. PICK held : IsReading(held, l, sent, lost, n)
  BY ReadingExists
<1>2. Arriving(l, sent, lost) = (CHOOSE g : IsReading(g, l, sent, lost, n))[n]
  BY DEF Arriving, IsReading
<1> DEFINE g == CHOOSE g : IsReading(g, l, sent, lost, n)
<1>3. IsReading(g, l, sent, lost, n)
  BY <1>1
<1> HIDE DEF g, n
<1>4. \A i \in 0..n : g[i] = IF i = 0 THEN l
                             ELSE IF i \in lost THEN g[i - 1] ELSE addToLog(g[i - 1], sent[i])
  BY <1>3 DEF IsReading
<1> DEFINE S == {k \in Nat : k <= n => g[k] \in Good}
<1>5. n \in Nat
  BY DEF n
<1>6. 0 \in S
  BY <1>4, <1>5
<1>7. ASSUME NEW k \in Nat, k \in S PROVE k + 1 \in S
  <2> SUFFICES ASSUME k + 1 <= n PROVE g[k + 1] \in Good
    OBVIOUS
  <2>1. g[k] \in Good /\ k + 1 \in 1..Len(sent) /\ k + 1 \in 0..n
    BY <1>5, <1>7 DEF n
  <2>2. g[k + 1] = IF k + 1 \in lost THEN g[k] ELSE addToLog(g[k], sent[k + 1])
    BY <1>4, <2>1
  <2> QED BY <2>1, <2>2
<1> HIDE DEF S
<1>8. Nat \subseteq S
  BY <1>6, <1>7, NatSetInduction
<1>9. g[n] \in Good
  BY <1>5, <1>8 DEF S
<1> QED
  BY <1>2, <1>9 DEF g, n

-----------------------------------------------------------------------------
(* Numbers that wrap *)

LEMMA ProductsGrow ==
    ASSUME NEW n \in Int, n > 0, NEW p \in Int, NEW q \in Int, p < q
    PROVE  n * p + n <= n * q
<1> DEFINE d == q - p - 1
<1>1. d \in Int /\ d >= 0 /\ q = p + 1 + d
  OBVIOUS
<1> HIDE DEF d
<1>2. n * q = n * p + n + n * d
  BY <1>1
<1>3. n * d >= 0 /\ n * d \in Int /\ n * p \in Int
  BY <1>1
<1> QED
  BY <1>2, <1>3

LEMMA RemainderIs ==
    ASSUME NEW m \in Int, NEW n \in Int, n > 0
    PROVE  /\ m % n \in 0..(n - 1) /\ m \div n \in Int
           /\ m = n * (m \div n) + (m % n)
  OBVIOUS

LEMMA RemainderIsUnique ==
    ASSUME NEW m \in Int, NEW n \in Int, n > 0,
           NEW q \in Int, NEW r \in 0..(n - 1), m = n * q + r
    PROVE  m % n = r /\ m \div n = q
<1> DEFINE r0 == m % n
           q0 == m \div n
<1>1. r0 \in 0..(n - 1) /\ q0 \in Int /\ m = n * q0 + r0
  BY RemainderIs
<1> HIDE DEF r0, q0
<1>2. n * q \in Int /\ n * q0 \in Int
  BY <1>1
<1>3. q = q0
  <2>1. ~(q < q0)
    <3> SUFFICES ASSUME q < q0 PROVE FALSE
      OBVIOUS
    <3>1. n * q + n <= n * q0
      BY <1>1, ProductsGrow
    <3> QED BY <1>1, <1>2, <3>1
  <2>2. ~(q0 < q)
    <3> SUFFICES ASSUME q0 < q PROVE FALSE
      OBVIOUS
    <3>1. n * q0 + n <= n * q
      BY <1>1, ProductsGrow
    <3> QED BY <1>1, <1>2, <3>1
  <2> QED BY <1>1, <2>1, <2>2
<1>4. r = r0
  BY <1>1, <1>2, <1>3
<1> QED
  BY <1>3, <1>4 DEF r0, q0

LEMMA LapIsPositive ==
    /\ Half \in Nat /\ Half > 0 /\ Lap \in Int /\ Lap > 0 /\ Lap = Half + Half
  BY HalfIsPositive DEF Lap

\* What is stored fits and differs by laps.
LEMMA StoredIs ==
    ASSUME NEW n \in Int
    PROVE  /\ Stored(n) \in (-Half)..(Half - 1)
           /\ \E q \in Int : n = Lap * q + Stored(n)
<1>1. (n + Half) % Lap \in 0..(Lap - 1) /\ (n + Half) \div Lap \in Int
      /\ n + Half = Lap * ((n + Half) \div Lap) + ((n + Half) % Lap)
  BY LapIsPositive, RemainderIs
<1> DEFINE r == (n + Half) % Lap
           q == (n + Half) \div Lap
<1> HIDE DEF r, q
<1>2. r \in 0..(Lap - 1) /\ q \in Int /\ n + Half = Lap * q + r
  BY <1>1 DEF r, q
<1>3. Lap * q \in Int
  BY <1>2, LapIsPositive
<1>4. Stored(n) = r - Half
  BY DEF Stored, r
<1>5. n = Lap * q + Stored(n)
  BY <1>2, <1>3, <1>4, LapIsPositive
<1> QED
  BY <1>2, <1>4, <1>5, LapIsPositive

\* And it is the only number that does.
LEMMA StoredIsUnique ==
    ASSUME NEW n \in Int, NEW m \in (-Half)..(Half - 1), NEW q \in Int, n = Lap * q + m
    PROVE  Stored(n) = m
<1>1. Lap * q \in Int
  BY LapIsPositive
<1>2. n + Half = Lap * q + (m + Half) /\ m + Half \in 0..(Lap - 1) /\ n + Half \in Int
  BY <1>1, LapIsPositive
<1>3. (n + Half) % Lap = m + Half
  <2> DEFINE x == n + Half
             r == m + Half
  <2>1. x = Lap * q + r /\ r \in 0..(Lap - 1) /\ x \in Int
    BY <1>2
  <2> HIDE DEF x, r
  <2>2. x % Lap = r
    BY <2>1, LapIsPositive, RemainderIsUnique
  <2> QED BY <2>2 DEF x, r
<1> QED
  BY <1>3, LapIsPositive DEF Stored

LEMMA StoredFits ==
    ASSUME NEW n \in (-Half)..(Half - 1)
    PROVE  Stored(n) = n
<1>1. n = Lap * 0 + n /\ n \in Int /\ 0 \in Int
  BY LapIsPositive
<1> QED
  BY <1>1, StoredIsUnique

\* A stored number may be counted on from.
LEMMA StoredNext ==
    ASSUME NEW n \in Int
    PROVE  Stored(Stored(n) + 1) = Stored(n + 1)
<1>1. PICK q \in Int : n = Lap * q + Stored(n)
  BY StoredIs
<1>2. PICK p \in Int : n + 1 = Lap * p + Stored(n + 1)
  BY StoredIs
<1> DEFINE x == Stored(n)
           y == Stored(n + 1)
<1>3. x \in (-Half)..(Half - 1) /\ y \in (-Half)..(Half - 1) /\ x \in Int /\ y \in Int
  BY StoredIs, LapIsPositive
<1> HIDE DEF x, y
<1>4. n = Lap * q + x /\ n + 1 = Lap * p + y
  BY <1>1, <1>2 DEF x, y
<1>5. Lap * (p - q) = Lap * p - Lap * q /\ Lap * p \in Int /\ Lap * q \in Int /\ p - q \in Int
  BY LapIsPositive
<1>6. x + 1 = Lap * (p - q) + y
  BY <1>3, <1>4, <1>5
<1>7. Stored(x + 1) = y
  BY <1>3, <1>5, <1>6, StoredIsUnique
<1> QED
  BY <1>7 DEF x, y

\* From the start of a lap on the numbers are 0, 1, ... up to half a lap, where
\* they become negative.
LEMMA StoredInLap ==
    ASSUME NEW start \in Nat, start % Lap = 0, NEW i \in 0..Half
    PROVE  /\ i < Half => Stored(start + i) = i
           /\ i = Half => Stored(start + i) = -Half
<1> DEFINE q == start \div Lap
<1>1. q \in Int /\ start = Lap * q + 0
  BY LapIsPositive, RemainderIs
<1> HIDE DEF q
<1>2. Lap * q \in Int /\ Lap * (q + 1) = Lap * q + Lap /\ q + 1 \in Int
  BY <1>1, LapIsPositive
<1>3. ASSUME i < Half PROVE Stored(start + i) = i
  <2>1. start + i = Lap * q + i /\ start + i \in Int /\ i \in (-Half)..(Half - 1)
    BY <1>1, <1>2, <1>3, LapIsPositive
  <2> QED BY <1>1, <2>1, StoredIsUnique
<1>4. ASSUME i = Half PROVE Stored(start + i) = -Half
  <2>1. start + i = Lap * (q + 1) + (-Half) /\ start + i \in Int /\ -Half \in (-Half)..(Half - 1)
    BY <1>1, <1>2, <1>4, LapIsPositive
  <2> QED BY <1>2, <2>1, StoredIsUnique
<1> QED
  BY <1>3, <1>4

\* Number 0 is the start of a lap.
LEMMA StartsOfLaps ==
    ASSUME NEW n \in Nat, Stored(n) = 0
    PROVE  n % Lap = 0
<1>1. PICK q \in Int : n = Lap * q + 0
  BY StoredIs
<1>2. 0 \in 0..(Lap - 1) /\ n \in Int /\ Lap \in Int /\ Lap > 0
  BY LapIsPositive
<1> QED
  BY <1>1, <1>2, RemainderIsUnique

\* A number is at most the index it is stored for.
LEMMA StoredIsBelow ==
    ASSUME NEW n \in Nat
    PROVE  Stored(n) <= n
<1>1. PICK q \in Int : n = Lap * q + Stored(n)
  BY StoredIs
<1>2. Stored(n) \in (-Half)..(Half - 1)
  BY StoredIs
<1>3. Lap * q \in Int
  BY <1>1, LapIsPositive
<1>4. q >= 0
  <2> SUFFICES ASSUME q < 0 PROVE FALSE
    BY <1>1
  <2>1. Lap * q + Lap <= Lap * 0
    BY <1>1, LapIsPositive, ProductsGrow
  <2> QED BY <1>1, <1>2, <1>3, <2>1, LapIsPositive
<1>5. Lap * q >= 0
  BY <1>4, LapIsPositive
<1> QED
  BY <1>1, <1>2, <1>3, <1>5

-----------------------------------------------------------------------------
(* What the author publishes *)

\* Content i, counted from 1.
Content(i) == ContentShell("pushContent", Author, i - 1)

\* Entry i of what the author publishes, as it is stored.
Entry(i) ==
    LogShell(Stored(i - 1), IF i = 1 THEN NoHash ELSE <<Content(i - 1)>>, Author,
             SignInt(IF i = 1 THEN 0 ELSE Stored(i - 2) + 1), Content(i))

\* The log of n entries that follow the first start ones.
Stretch(start, n) == [owner |-> Author, log |-> [i \in 1..n |-> Entry(start + i)]]

\* The stretches of the first N entries, from the start of a lap on.
Stretches(N) ==
    UNION {{Stretch(start, n) : start \in {s \in Nat : s % Lap = 0 /\ s + n <= N}} : n \in 0..Half}

LEMMA StretchesAre ==
    ASSUME NEW N \in Nat, NEW l
    PROVE  l \in Stretches(N) <=>
              \E start \in Nat : \E n \in 0..Half :
                  start % Lap = 0 /\ start + n <= N /\ l = Stretch(start, n)
  BY DEF Stretches

LEMMA EntryIs ==
    ASSUME NEW i \in Nat, i >= 1
    PROVE  /\ Entry(i).sequenceNum = Stored(i - 1) /\ Entry(i).shell = Content(i)
           /\ Entry(i).authorId = Author
           /\ Entry(i).prevEventHash = IF i = 1 THEN NoHash ELSE <<Content(i - 1)>>
           /\ createHash(Entry(i)) = <<Content(i)>>
  BY DEF Entry, LogShell, createHash

LEMMA ContentsDiffer ==
    ASSUME NEW i \in Nat, NEW j \in Nat, <<Content(i)>> = <<Content(j)>>
    PROVE  i = j
<1>1. Content(i).contMessage = Content(j).contMessage
  OBVIOUS
<1> QED
  BY <1>1 DEF Content, ContentShell

LEMMA StretchIs ==
    ASSUME NEW start \in Nat, NEW n \in Nat
    PROVE  LET l == Stretch(start, n)
           IN  /\ l.owner = Author /\ Len(l.log) = n /\ DOMAIN l.log = 1..n
               /\ \A i \in 1..n : l.log[i] = Entry(start + i)
               /\ empty(l) <=> n = 0
               /\ n > 0 => getLastEntry(l) = Entry(start + n)
               /\ getCurrentSeqNum(l) = IF n = 0 THEN -1 ELSE Stored(start + n - 1)
<1> DEFINE l == Stretch(start, n)
<1>1. /\ l.owner = Author /\ DOMAIN l.log = 1..n
      /\ \A i \in 1..n : l.log[i] = Entry(start + i)
  BY DEF Stretch
<1> DEFINE S == {Entry(start + i) : i \in 1..n}
<1>2. l.log \in Seq(S) /\ Len(l.log) = n
  <2>1. l.log \in [1..n -> S]
    BY DEF Stretch
  <2> HIDE DEF l, S
  <2>2. l.log \in Seq(S) /\ DOMAIN l.log = 1..n
    BY <2>1
  <2> QED BY <2>2, LenProperties
<1> HIDE DEF l, S
<1>3. empty(l) <=> n = 0
  BY <1>1, <1>2 DEF empty
<1>4. n > 0 => getLastEntry(l) = Entry(start + n)
  BY <1>1, <1>2 DEF getLastEntry
<1>5. n > 0 => Entry(start + n).sequenceNum = Stored(start + n - 1)
  <2> DEFINE k == start + n
  <2>1. k \in Nat
    OBVIOUS
  <2> HIDE DEF k
  <2>2. ASSUME k >= 1 PROVE Entry(k).sequenceNum = Stored(k - 1)
    BY <2>1, <2>2, EntryIs
  <2> QED BY <2>2 DEF k
<1>6. getCurrentSeqNum(l) = IF n = 0 THEN -1 ELSE Stored(start + n - 1)
  BY <1>3, <1>4, <1>5 DEF getCurrentSeqNum
<1> QED
  BY <1>1, <1>2, <1>3, <1>4, <1>6 DEF l

\* One entry more.
LEMMA StretchGrows ==
    ASSUME NEW start \in Nat, NEW n \in Nat
    PROVE  [Stretch(start, n) EXCEPT !.log = Append(@, Entry(start + n + 1))]
              = Stretch(start, n + 1)
<1> DEFINE es == [i \in 1..n |-> Entry(start + i)]
           more == [i \in 1..(n + 1) |-> Entry(start + i)]
           S == {Entry(start + i) : i \in 1..(n + 1)}
<1>1. es \in Seq(S) /\ Len(es) = n
  <2>1. es \in [1..n -> S]
    OBVIOUS
  <2>2. es \in Seq(S) /\ DOMAIN es = 1..n
    BY <2>1
  <2> HIDE DEF es
  <2> QED BY <2>2, LenProperties
<1>2. Append(es, Entry(start + n + 1)) = more
  <2>1. Entry(start + n + 1) \in S /\ start + n + 1 = start + (n + 1)
    OBVIOUS
  <2> DEFINE x == Entry(start + n + 1)
  <2>2. x = Entry(start + (n + 1))
    BY <2>1
  <2> HIDE DEF x
  <2>3. Append(es, x) = [i \in 1..(Len(es) + 1) |-> IF i <= Len(es) THEN es[i] ELSE x]
    BY <1>1
  <2>4. Append(es, x) = [i \in 1..(n + 1) |-> IF i <= n THEN es[i] ELSE x]
    BY <1>1, <2>3
  <2>5. \A i \in 1..(n + 1) : (IF i <= n THEN es[i] ELSE x) = Entry(start + i)
    BY <2>2
  <2> HIDE DEF es
  <2>6. Append(es, x) = more
    BY <2>4, <2>5
  <2> QED BY <2>6 DEF x
<1>3. Stretch(start, n) = [owner |-> Author, log |-> es]
  BY DEF Stretch
<1>4. Stretch(start, n + 1) = [owner |-> Author, log |-> more]
  BY DEF Stretch
<1> DEFINE x == Entry(start + n + 1)
<1>5. Append(es, x) = more
  BY <1>2
<1> HIDE DEF es, more, x
<1>6. [Stretch(start, n) EXCEPT !.log = Append(@, x)] = [owner |-> Author, log |-> more]
  BY <1>3, <1>5, SMTT(30)
<1> QED
  BY <1>4, <1>6 DEF x

LEMMA NewLogIsStretch ==
    /\ NewLog(Author) = Stretch(0, 0)
    /\ NewLog(Author) \in Stretches(0)
<1>1. [i \in 1..0 |-> Entry(0 + i)] = <<>>
  OBVIOUS
<1>2. NewLog(Author) = Stretch(0, 0)
  BY <1>1 DEF NewLog, Stretch
<1>3. 0 % Lap = 0
  BY LapIsPositive, RemainderIsUnique
<1>4. 0 \in 0..Half /\ 0 \in Nat /\ 0 + 0 <= 0
  BY LapIsPositive
<1> QED
  BY <1>2, <1>3, <1>4, StretchesAre

\* What appendLogShell makes of the log.
LEMMA PushGrows ==
    ASSUME NEW n \in Nat
    PROVE  AppendStored(Stretch(0, n), ContentShell("pushContent", Author, n)) = Stretch(0, n + 1)
<1> DEFINE l == Stretch(0, n)
           next == getCurrentSeqNum(l) + 1
           hash == IF empty(l) THEN NoHash ELSE createHash(getLastEntry(l))
           entry == LogShell(Stored(next), hash, l.owner, SignInt(next), Content(n + 1))
<1>1. /\ l.owner = Author
      /\ empty(l) <=> n = 0
      /\ n > 0 => getLastEntry(l) = Entry(n)
      /\ getCurrentSeqNum(l) = IF n = 0 THEN -1 ELSE Stored(n - 1)
  <2>1. 0 \in Nat /\ 0 + n = n /\ 0 + n - 1 = n - 1
    OBVIOUS
  <2> HIDE DEF l
  <2> QED BY <2>1, StretchIs DEF l
<1>2. Content(n + 1) = ContentShell("pushContent", Author, n)
  BY DEF Content
<1> HIDE DEF l
<1>3. Stored(next) = Stored(n)
  <2>1. CASE n = 0
    BY <1>1, <2>1
  <2>2. CASE n > 0
    <3>1. Stored(Stored(n - 1) + 1) = Stored(n - 1 + 1) /\ n - 1 + 1 = n
      BY <2>2, StoredNext
    <3> QED BY <1>1, <2>2, <3>1
  <2> QED BY <2>1, <2>2
<1>4. hash = IF n + 1 = 1 THEN NoHash ELSE <<Content(n)>>
  <2>1. ASSUME n >= 1 PROVE createHash(Entry(n)) = <<Content(n)>>
    BY <2>1, EntryIs
  <2>2. CASE n = 0
    BY <1>1, <2>2
  <2>3. CASE n > 0
    <3>1. hash = createHash(Entry(n)) /\ n + 1 # 1
      <4>1. ~empty(l) /\ getLastEntry(l) = Entry(n)
        BY <1>1, <2>3
      <4> QED BY <2>3, <4>1
    <3> HIDE DEF hash
    <3> QED BY <2>1, <2>3, <3>1
  <2> QED BY <2>2, <2>3
<1>5. next = IF n + 1 = 1 THEN 0 ELSE Stored(n - 1) + 1
  BY <1>1
<1>6. n + 1 - 1 = n /\ n + 1 - 2 = n - 1 /\ 0 + n + 1 = n + 1
  OBVIOUS
<1>7. entry = Entry(n + 1)
  <2> HIDE DEF next, hash
  <2>1. entry = LogShell(Stored(n), hash, Author, SignInt(next), Content(n + 1))
    BY <1>1, <1>3
  <2>2. Entry(n + 1) =
          LogShell(Stored(n), IF n + 1 = 1 THEN NoHash ELSE <<Content(n)>>, Author,
                   SignInt(IF n + 1 = 1 THEN 0 ELSE Stored(n - 1) + 1), Content(n + 1))
    BY <1>6 DEF Entry
  <2> HIDE DEF entry
  <2> QED BY <1>4, <1>5, <2>1, <2>2
<1>8. AppendStored(l, Content(n + 1)) = [l EXCEPT !.log = Append(@, entry)]
  BY DEF AppendStored
<1> HIDE DEF entry
<1>9. AppendStored(l, Content(n + 1)) = [l EXCEPT !.log = Append(@, Entry(0 + n + 1))]
  BY <1>6, <1>7, <1>8
<1> QED
  BY <1>2, <1>9, StretchGrows DEF l

-----------------------------------------------------------------------------
(* What a replica makes of an entry *)

\* An entry continues a stretch only if it is the next of them all, and the
\* stretch is not full.
LEMMA SubsequentIsNext ==
    ASSUME NEW start \in Nat, start % Lap = 0, NEW n \in 1..Half, NEW k \in Nat, k >= 1,
           isSubsequentEntry(Stretch(start, n), Entry(k))
    PROVE  k = start + n + 1 /\ n < Half
<1> DEFINE l == Stretch(start, n)
<1>1. /\ ~empty(l) /\ getLastEntry(l) = Entry(start + n)
      /\ getCurrentSeqNum(l) = Stored(start + n - 1)
      /\ n \in Nat /\ n > 0
  <2>1. n \in Nat /\ n > 0
    BY LapIsPositive
  <2> HIDE DEF l
  <2> QED BY <2>1, StretchIs DEF l
<1> HIDE DEF l
<1>2. /\ getCurrentSeqNum(l) + 1 = Entry(k).sequenceNum
      /\ createHash(getLastEntry(l)) = Entry(k).prevEventHash
  BY <1>1 DEF isSubsequentEntry, l
<1>3. k = start + n + 1
  <2>1. createHash(getLastEntry(l)) = <<Content(start + n)>>
    <3> DEFINE j == start + n
    <3>1. j \in Nat /\ j >= 1 /\ getLastEntry(l) = Entry(j)
      BY <1>1
    <3> HIDE DEF j
    <3>2. createHash(getLastEntry(l)) = <<Content(j)>>
      BY <3>1, EntryIs
    <3> QED BY <3>2 DEF j
  <2>2. <<Content(start + n)>> = IF k = 1 THEN NoHash ELSE <<Content(k - 1)>>
    BY <1>2, <2>1, EntryIs
  <2>3. k # 1
    BY <2>2 DEF NoHash
  <2>4. start + n = k - 1
    BY <2>2, <2>3, ContentsDiffer
  <2> QED BY <2>4
<1>4. Stored(start + n - 1) = n - 1
  <2>1. n - 1 \in 0..Half /\ n - 1 < Half /\ start + (n - 1) = start + n - 1
    BY LapIsPositive
  <2> QED BY <2>1, StoredInLap
<1>5. Stored(start + n) = n
  <2>1. Entry(k).sequenceNum = Stored(k - 1)
    BY EntryIs
  <2>2. k - 1 = start + n
    BY <1>1, <1>3
  <2> QED BY <1>1, <1>2, <1>4, <2>1, <2>2
<1>6. n < Half
  <2> SUFFICES ASSUME n = Half PROVE FALSE
    BY LapIsPositive
  <2>1. n \in 0..Half
    BY LapIsPositive
  <2>2. Stored(start + n) = -Half
    BY <2>1, StoredInLap
  <2> QED BY <1>5, <2>2, LapIsPositive
<1> QED
  BY <1>3, <1>6

\* A full stretch takes nothing.
LEMMA FullTakesNothing ==
    ASSUME NEW start \in Nat, start % Lap = 0, NEW k \in Nat, k >= 1
    PROVE  addToLog(Stretch(start, Half), Entry(k)) = Stretch(start, Half)
<1>1. Half \in 1..Half
  BY LapIsPositive
<1>2. ~isSubsequentEntry(Stretch(start, Half), Entry(k))
  BY <1>1, SubsequentIsNext, LapIsPositive
<1> QED
  BY <1>2 DEF addToLog

\* With an entry of what is published a stretch stays one.
LEMMA AddKeepsStretch ==
    ASSUME NEW N \in Nat, NEW l \in Stretches(N), NEW k \in 1..N
    PROVE  addToLog(l, Entry(k)) \in Stretches(N)
<1>1. PICK start \in Nat, n \in 0..Half : start % Lap = 0 /\ start + n <= N /\ l = Stretch(start, n)
  BY StretchesAre
<1> SUFFICES ASSUME isSubsequentEntry(l, Entry(k))
             PROVE  [l EXCEPT !.log = Append(@, Entry(k))] \in Stretches(N)
  BY DEF addToLog
<1>2. k \in Nat /\ k >= 1 /\ n \in Nat
  BY LapIsPositive
<1>3. CASE n = 0
  <2>1. empty(l)
    BY <1>1, <1>2, <1>3, StretchIs
  <2>2. Stored(k - 1) = 0
    BY <1>2, <2>1, EntryIs DEF isSubsequentEntry
  <2>3. (k - 1) % Lap = 0 /\ k - 1 \in Nat
    BY <1>2, <2>2, StartsOfLaps
  <2>4. l = Stretch(k - 1, 0)
    BY <1>1, <1>3 DEF Stretch
  <2>5. k = k - 1 + 0 + 1 /\ 0 + 1 = 1 /\ 1 \in 0..Half /\ 0 \in Nat /\ k - 1 + 1 <= N
    BY <1>2, LapIsPositive
  <2>6. [l EXCEPT !.log = Append(@, Entry(k))] = Stretch(k - 1, 1)
    BY <2>3, <2>4, <2>5, StretchGrows
  <2> DEFINE new == [l EXCEPT !.log = Append(@, Entry(k))]
  <2>7. new = Stretch(k - 1, 1)
    BY <2>6
  <2> HIDE DEF new
  <2>8. new \in Stretches(N)
    BY <2>3, <2>5, <2>7, StretchesAre
  <2> QED BY <2>8 DEF new
<1>4. CASE n > 0
  <2>1. k = start + n + 1 /\ n < Half
    BY <1>1, <1>2, <1>4, SubsequentIsNext
  <2>2. [l EXCEPT !.log = Append(@, Entry(k))] = Stretch(start, n + 1)
    BY <1>1, <1>2, <2>1, StretchGrows
  <2>3. n + 1 \in 0..Half /\ start + (n + 1) <= N
    BY <1>1, <1>2, <2>1, LapIsPositive
  <2> DEFINE new == [l EXCEPT !.log = Append(@, Entry(k))]
  <2>4. new = Stretch(start, n + 1)
    BY <2>2
  <2> HIDE DEF new
  <2>5. new \in Stretches(N)
    BY <1>1, <2>3, <2>4, StretchesAre
  <2> QED BY <2>5 DEF new
<1> QED
  BY <1>2, <1>3, <1>4

-----------------------------------------------------------------------------
(* The invariant *)

\* The author has published N entries, and each replica is a stretch of them.
StretchesOf(N) == published = Stretch(0, N) /\ replica \in [Holders -> Stretches(N)]

WidthInv == \E N \in Nat : StretchesOf(N)

\* With entries of the first N a log l can become m: m has all that l has and
\* that no such entry changes.
Becomes(l, m, N) ==
    \A Good : l \in Good /\ (\A k \in 1..N : \A x \in Good : addToLog(x, Entry(k)) \in Good)
                 => m \in Good

\* The number a replica shows, and that the last entry of the published log
\* has, is below the number of its entries.
LEMMA NumbersAreBelow ==
    ASSUME NEW N \in Nat
    PROVE  /\ getCurrentSeqNum(Stretch(0, N)) \in Int /\ getCurrentSeqNum(Stretch(0, N)) < N
           /\ \A start \in Nat : \A n \in 0..Half :
                  start % Lap = 0 => getCurrentSeqNum(Stretch(start, n)) = n - 1
<1>1. getCurrentSeqNum(Stretch(0, N)) = IF N = 0 THEN -1 ELSE Stored(N - 1)
  <2>1. 0 \in Nat /\ 0 + N - 1 = N - 1
    OBVIOUS
  <2> QED BY <2>1, StretchIs
<1>2. ASSUME N = 0
      PROVE  getCurrentSeqNum(Stretch(0, N)) \in Int /\ getCurrentSeqNum(Stretch(0, N)) < N
  BY <1>1, <1>2
<1>3. ASSUME N # 0
      PROVE  getCurrentSeqNum(Stretch(0, N)) \in Int /\ getCurrentSeqNum(Stretch(0, N)) < N
  <2> DEFINE m == N - 1
  <2>1. m \in Nat
    BY <1>3
  <2> HIDE DEF m
  <2>2. Stored(m) <= m /\ Stored(m) \in (-Half)..(Half - 1)
    BY <2>1, StoredIsBelow, StoredIs
  <2>3. Stored(m) \in Int
    BY <2>2, LapIsPositive
  <2> QED BY <1>1, <1>3, <2>2, <2>3 DEF m
<1>4. ASSUME NEW start \in Nat, NEW n \in 0..Half, start % Lap = 0
      PROVE  getCurrentSeqNum(Stretch(start, n)) = n - 1
  <2>1. n \in Nat
    BY LapIsPositive
  <2>2. getCurrentSeqNum(Stretch(start, n)) = IF n = 0 THEN -1 ELSE Stored(start + n - 1)
    BY <2>1, StretchIs
  <2>3. ASSUME n # 0 PROVE Stored(start + n - 1) = n - 1
    <3>1. n - 1 \in 0..Half /\ n - 1 < Half /\ start + (n - 1) = start + n - 1
      BY <2>1, <2>3, LapIsPositive
    <3> QED BY <1>4, <3>1, StoredInLap
  <2> QED BY <2>1, <2>2, <2>3
<1> QED
  BY <1>2, <1>3, <1>4

\* What an answer from a stretch holds are entries of it.
LEMMA SentAreEntries ==
    ASSUME NEW start \in Nat, NEW n \in Nat, NEW from \in Int, from >= -1,
           getCurrentSeqNum(Stretch(start, n)) \in Int, getCurrentSeqNum(Stretch(start, n)) < n
    PROVE  LET sent == SentFrom(Stretch(start, n), from)
           IN  /\ Len(sent) \in Nat
               /\ \A i \in 1..Len(sent) : \E k \in 1..(start + n) : sent[i] = Entry(k)
<1> DEFINE l == Stretch(start, n)
           first == (IF from = -1 THEN 0 ELSE from) + 1
           last == getCurrentSeqNum(l) + 1
           S == {Entry(k) : k \in 1..(start + n)}
           sent == SubSeq(l.log, first, last)
<1>1. first \in Int /\ first >= 1 /\ last \in Int /\ last <= n
  OBVIOUS
<1>2. \A i \in 1..n : l.log[i] \in S
  <2>1. \A i \in 1..n : l.log[i] = Entry(start + i)
    BY StretchIs
  <2>2. \A i \in 1..n : start + i \in 1..(start + n)
    OBVIOUS
  <2> QED BY <2>1, <2>2
<1>3. SentFrom(l, from) = sent
  BY DEF SentFrom
<1> HIDE DEF first, last, l, S
<1>4. \A i \in first..last : l.log[i] \in S
  BY <1>1, <1>2
<1>5. sent \in Seq(S)
  BY <1>1, <1>4, SubSeqProperties
<1> HIDE DEF sent
<1>6. Len(sent) \in Nat /\ \A i \in 1..Len(sent) : sent[i] \in S
  BY <1>5
<1> QED
  BY <1>3, <1>6 DEF S, l

\* What an answer leaves.
LEMMA AnswersBecome ==
    ASSUME NEW l, NEW sent, NEW lost, NEW N \in Nat, Len(sent) \in Nat,
           \A i \in 1..Len(sent) : \E k \in 1..N : sent[i] = Entry(k)
    PROVE  Becomes(l, Arriving(l, sent, lost), N)
<1> SUFFICES ASSUME NEW Good, l \in Good,
                    \A k \in 1..N : \A x \in Good : addToLog(x, Entry(k)) \in Good
             PROVE  Arriving(l, sent, lost) \in Good
  BY DEF Becomes
<1>1. \A i \in 1..Len(sent) : \A m \in Good : addToLog(m, sent[i]) \in Good
  OBVIOUS
<1> QED
  BY <1>1, ArrivingKeeps

LEMMA AnsweredStep ==
    ASSUME NEW N \in Nat, StretchesOf(N), NEW h \in Holders,
           NEW start \in Nat, NEW n \in Nat, start + n <= N,
           getCurrentSeqNum(Stretch(start, n)) \in Int, getCurrentSeqNum(Stretch(start, n)) < n,
           Answered(h, Stretch(start, n))
    PROVE  /\ published' = published /\ DOMAIN replica' = Holders
           /\ replica' = [j \in Holders |-> replica'[j]]
           /\ \A j \in Holders : Becomes(replica[j], replica'[j], N)
<1> DEFINE l == Stretch(start, n)
           from == getCurrentSeqNum(replica[h])
           sent == SentFrom(l, from)
<1>1. from \in Int /\ from >= -1
  <2>1. replica[h] \in Stretches(N)
    BY DEF StretchesOf
  <2>2. PICK s \in Nat, k \in 0..Half : s % Lap = 0 /\ replica[h] = Stretch(s, k)
    BY <2>1, StretchesAre
  <2>3. getCurrentSeqNum(replica[h]) = k - 1
    BY <2>2, NumbersAreBelow
  <2> QED BY <2>3, LapIsPositive
<1>2. Len(sent) \in Nat /\ \A i \in 1..Len(sent) : \E k \in 1..(start + n) : sent[i] = Entry(k)
  <2> HIDE DEF from
  <2> QED BY <1>1, SentAreEntries
<1>3. PICK lost \in SUBSET (1..Len(sent)) :
         replica' = [replica EXCEPT ![h] = Arriving(replica[h], sent, lost)]
  BY DEF Answered
<1> HIDE DEF sent, from, l
<1>4. Len(sent) \in Nat /\ \A i \in 1..Len(sent) : \E k \in 1..N : sent[i] = Entry(k)
  BY <1>2
<1>5. Becomes(replica[h], Arriving(replica[h], sent, lost), N)
  BY <1>4, AnswersBecome
<1>6. DOMAIN replica = Holders
  BY DEF StretchesOf
<1>7. replica'[h] = Arriving(replica[h], sent, lost) /\ \A j \in Holders : j # h => replica'[j] = replica[j]
  BY <1>3, <1>6
<1>8. DOMAIN replica' = Holders /\ replica' = [j \in Holders |-> replica'[j]]
  BY <1>3, <1>6
<1>9. \A j \in Holders : Becomes(replica[j], replica'[j], N)
  <2>1. \A m : Becomes(m, m, N)
    BY DEF Becomes
  <2> QED BY <1>5, <1>7, <2>1
<1>10. published' = published
  BY DEF Answered
<1> QED
  BY <1>8, <1>9, <1>10

LEMMA PushStep ==
    ASSUME NEW N \in Nat, StretchesOf(N), NEW reached \in SUBSET Holders, Push(reached)
    PROVE  /\ published' = Stretch(0, N + 1)
           /\ replica' = [j \in Holders |-> replica'[j]]
           /\ \A j \in Holders : Becomes(replica[j], replica'[j], N + 1)
<1> DEFINE next == AppendStored(published, NextContent)
<1>1. next = Stretch(0, N + 1)
  <2>1. Len(published.log) = N
    BY StretchIs DEF StretchesOf
  <2>2. NextContent = ContentShell("pushContent", Author, N)
    BY <2>1 DEF NextContent
  <2> QED BY <2>2, PushGrows DEF StretchesOf
<1>2. getLastEntry(next) = Entry(N + 1)
  <2>1. 0 \in Nat /\ N + 1 \in Nat /\ N + 1 > 0 /\ 0 + (N + 1) = N + 1
    OBVIOUS
  <2> QED BY <1>1, <2>1, StretchIs
<1>3. published' = next /\ replica' = [h \in Holders |->
         IF h \in reached THEN addToLog(replica[h], getLastEntry(next)) ELSE replica[h]]
  BY DEF Push
<1> HIDE DEF next
<1>4. ASSUME NEW j \in Holders PROVE Becomes(replica[j], replica'[j], N + 1)
  <2> SUFFICES ASSUME NEW Good, replica[j] \in Good,
                      \A k \in 1..(N + 1) : \A x \in Good : addToLog(x, Entry(k)) \in Good
               PROVE  replica'[j] \in Good
    BY DEF Becomes
  <2>1. addToLog(replica[j], Entry(N + 1)) \in Good
    OBVIOUS
  <2>2. replica'[j] = IF j \in reached THEN addToLog(replica[j], Entry(N + 1)) ELSE replica[j]
    BY <1>2, <1>3
  <2> QED BY <2>1, <2>2
<1> QED
  BY <1>1, <1>3, <1>4

\* Every step lets replicas become what entries published make of them.
LEMMA StepsBecome ==
    ASSUME NEW N \in Nat, StretchesOf(N), [Next]_vars
    PROVE  \E M \in Nat : /\ M >= N /\ published' = Stretch(0, M)
                          /\ replica' = [j \in Holders |-> replica'[j]]
                          /\ \A j \in Holders : Becomes(replica[j], replica'[j], M)
<1> DEFINE Step(M) == /\ M >= N /\ published' = Stretch(0, M)
                      /\ replica' = [j \in Holders |-> replica'[j]]
                      /\ \A j \in Holders : Becomes(replica[j], replica'[j], M)
<1>1. ASSUME NEW reached \in SUBSET Holders, Push(reached) PROVE Step(N + 1)
  BY <1>1, PushStep
<1>2. ASSUME NEW h \in Holders, AnsweredByAuthor(h) PROVE Step(N)
  <2>1. published = Stretch(0, N) /\ Answered(h, Stretch(0, N))
    BY <1>2 DEF AnsweredByAuthor, StretchesOf
  <2>2. getCurrentSeqNum(Stretch(0, N)) \in Int /\ getCurrentSeqNum(Stretch(0, N)) < N
    BY NumbersAreBelow
  <2>3. 0 \in Nat /\ 0 + N <= N
    OBVIOUS
  <2> QED BY <2>1, <2>2, <2>3, AnsweredStep
<1>3. ASSUME NEW h \in Holders, NEW k \in Holders, AnsweredByHolder(h, k) PROVE Step(N)
  <2>1. replica[k] \in Stretches(N) /\ Answered(h, replica[k]) /\ published = Stretch(0, N)
    BY <1>3 DEF AnsweredByHolder, StretchesOf
  <2>2. PICK start \in Nat, n \in 0..Half :
           start % Lap = 0 /\ start + n <= N /\ replica[k] = Stretch(start, n)
    BY <2>1, StretchesAre
  <2>3. n \in Nat /\ getCurrentSeqNum(Stretch(start, n)) = n - 1
    BY <2>2, NumbersAreBelow, LapIsPositive
  <2>4. getCurrentSeqNum(Stretch(start, n)) \in Int /\ getCurrentSeqNum(Stretch(start, n)) < n
    BY <2>3
  <2> QED BY <2>1, <2>2, <2>3, <2>4, AnsweredStep
<1>4. ASSUME UNCHANGED vars PROVE Step(N)
  <2>1. published' = published /\ replica' = replica
    BY <1>4 DEF vars
  <2>2. \A m : Becomes(m, m, N)
    BY DEF Becomes
  <2> QED BY <2>1, <2>2 DEF StretchesOf
<1> HIDE DEF Step
<1>5. \E M \in Nat : Step(M)
  <2>1. N + 1 \in Nat
    OBVIOUS
  <2> QED BY <1>1, <1>2, <1>3, <1>4, <2>1 DEF Next
<1> QED
  BY <1>5 DEF Step

LEMMA StretchesGrow ==
    ASSUME NEW N \in Nat, NEW M \in Nat, M >= N
    PROVE  Stretches(N) \subseteq Stretches(M)
<1> SUFFICES ASSUME NEW l \in Stretches(N) PROVE l \in Stretches(M)
  OBVIOUS
<1>1. PICK start \in Nat, n \in 0..Half : start % Lap = 0 /\ start + n <= N /\ l = Stretch(start, n)
  BY StretchesAre
<1>2. start + n <= M
  BY <1>1, LapIsPositive
<1> QED
  BY <1>1, <1>2, StretchesAre

LEMMA WidthInitial ==
    ASSUME Init
    PROVE  WidthInv
<1>1. StretchesOf(0)
  BY NewLogIsStretch DEF Init, StretchesOf
<1> QED
  BY <1>1 DEF WidthInv

LEMMA WidthKept ==
    ASSUME WidthInv, [Next]_vars
    PROVE  WidthInv'
<1>1. PICK N \in Nat : StretchesOf(N)
  BY DEF WidthInv
<1>2. PICK M \in Nat : /\ M >= N /\ published' = Stretch(0, M)
                       /\ replica' = [j \in Holders |-> replica'[j]]
                       /\ \A j \in Holders : Becomes(replica[j], replica'[j], M)
  BY <1>1, StepsBecome
<1>3. ASSUME NEW j \in Holders PROVE replica'[j] \in Stretches(M)
  <2>1. replica[j] \in Stretches(M)
    BY <1>1, <1>2, StretchesGrow DEF StretchesOf
  <2>2. \A k \in 1..M : \A x \in Stretches(M) : addToLog(x, Entry(k)) \in Stretches(M)
    BY AddKeepsStretch
  <2> QED BY <1>2, <2>1, <2>2 DEF Becomes
<1>4. replica' \in [Holders -> Stretches(M)]
  BY <1>2, <1>3
<1>5. StretchesOf(M)'
  BY <1>2, <1>4 DEF StretchesOf
<1> QED
  BY <1>5 DEF WidthInv

LEMMA WidthAlways == Spec => []WidthInv
<1>1. Init => WidthInv
  BY WidthInitial
<1>2. WidthInv /\ [Next]_vars => WidthInv'
  BY WidthKept
<1> QED
  BY <1>1, <1>2, PTL DEF Spec

-----------------------------------------------------------------------------
(* Theorems *)

LEMMA InvImpliesTypes ==
    ASSUME WidthInv
    PROVE  TypeOK
<1>1. PICK N \in Nat : StretchesOf(N)
  BY DEF WidthInv
<1>2. ASSUME NEW i \in 1..Len(published.log)
      PROVE  published.log[i].sequenceNum \in (-Half)..(Half - 1)
  <2>1. published = Stretch(0, N) /\ Len(published.log) = N
    BY <1>1, StretchIs DEF StretchesOf
  <2>2. i \in 1..N /\ 0 + i = i /\ i \in Nat /\ i >= 1 /\ i - 1 \in Int
    BY <2>1
  <2>3. published.log[i] = Entry(i)
    <3>1. \A j \in 1..N : Stretch(0, N).log[j] = Entry(0 + j)
      BY StretchIs
    <3> QED BY <2>1, <2>2, <3>1
  <2>4. Entry(i).sequenceNum = Stored(i - 1)
    BY <2>2, EntryIs
  <2> QED BY <2>2, <2>3, <2>4, StoredIs
<1>3. ASSUME NEW h \in Holders
      PROVE  replica[h].owner = Author /\ Len(replica[h].log) <= Half
  <2>1. PICK start \in Nat, n \in 0..Half : replica[h] = Stretch(start, n)
    BY <1>1, StretchesAre DEF StretchesOf
  <2>2. n \in Nat /\ n <= Half
    BY LapIsPositive
  <2> QED BY <2>1, <2>2, StretchIs
<1> QED
  BY <1>2, <1>3 DEF TypeOK

\* A sequence number fits whatever is computed before it is stored
\* (appendLogShell), and no replica grows beyond half a lap.
THEOREM NumbersFit == Spec => []TypeOK
<1>1. WidthInv => TypeOK
  BY InvImpliesTypes
<1> QED
  BY <1>1, WidthAlways, PTL

\* A stretch from the start is a prefix of a longer one.
LEMMA StretchInLog ==
    ASSUME NEW N \in Nat, NEW start \in Nat, NEW n \in Nat, start + n <= N
    PROVE  IsPrefix(Stretch(start, n).log, SubSeq(Stretch(0, N).log, start + 1, N))
<1> DEFINE s == Stretch(start, n).log
           all == Stretch(0, N).log
           rest == SubSeq(all, start + 1, N)
           S == {Entry(k) : k \in 1..N}
<1>1. Len(s) = n /\ \A i \in 1..n : s[i] = Entry(start + i)
  BY StretchIs
<1>2. \A i \in 1..N : all[i] = Entry(i)
  <2>1. \A i \in 1..N : all[i] = Entry(0 + i)
    BY StretchIs
  <2>2. \A i \in 1..N : 0 + i = i
    OBVIOUS
  <2> QED BY <2>1, <2>2
<1>3. \A i \in (start + 1)..N : all[i] \in S
  BY <1>2
<1> HIDE DEF s, all, S
<1>4. /\ rest \in Seq(S) /\ Len(rest) = N - start
      /\ \A i \in 1..(N - start) : rest[i] = all[start + i]
  <2>1. start + 1 \in Int /\ N \in Int
    OBVIOUS
  <2> DEFINE a == start + 1
  <2>2. a \in Int /\ N - a + 1 = N - start /\ \A i \in Int : a + i - 1 = start + i
    OBVIOUS
  <2>3. \A i \in a..N : all[i] \in S
    BY <1>3
  <2> HIDE DEF a
  <2>4. /\ SubSeq(all, a, N) \in Seq(S)
        /\ Len(SubSeq(all, a, N)) = IF a <= N THEN N - a + 1 ELSE 0
        /\ \A i \in 1..(N - a + 1) : SubSeq(all, a, N)[i] = all[a + i - 1]
    BY <2>2, <2>3, SubSeqProperties
  <2> QED BY <2>1, <2>2, <2>4 DEF a
<1> HIDE DEF rest
<1>5. \A i \in 1..n : rest[i] = s[i] /\ s[i] \in S
  <2> SUFFICES ASSUME NEW i \in 1..n PROVE rest[i] = s[i] /\ s[i] \in S
    OBVIOUS
  <2>1. i \in 1..(N - start) /\ start + i \in 1..N
    OBVIOUS
  <2> QED BY <1>1, <1>2, <1>4, <2>1 DEF S
<1>6. SubSeq(s, 1, n) = SubSeq(rest, 1, n)
  <2>1. SubSeq(s, 1, n) = [i \in 1..n |-> s[i]]
    BY <1>1
  <2>2. SubSeq(rest, 1, n) = [i \in 1..n |-> rest[i]]
    BY <1>4
  <2> QED BY <1>5, <2>1, <2>2
<1>7. Len(s) <= Len(rest)
  BY <1>1, <1>4
<1> QED
  BY <1>1, <1>6, <1>7 DEF IsPrefix, s, rest, all

\* Half a lap of entries is what CommunicationLog makes of their contents.
LEMMA HalfLapIsLog ==
    ASSUME NEW N \in Nat, N <= Half
    PROVE  Stretch(0, N) =
              AppendLogShells(NewLog(Author), [i \in 1..N |-> Stretch(0, N).log[i].shell])
<1> DEFINE contents == [i \in 1..N |-> Content(i)]
           Integer(i) == LogShell(-1 + i, IF i > 1 THEN <<contents[i - 1]>> ELSE NoHash, Author,
                                  sign(-1 + i), contents[i])
           es == [i \in 1..N |-> Integer(i)]
           S == {Integer(i) : i \in 1..N}
<1>1. \A i \in 1..N : Stretch(0, N).log[i] = Entry(i)
  <2>1. \A i \in 1..N : Stretch(0, N).log[i] = Entry(0 + i)
    BY StretchIs
  <2>2. \A i \in 1..N : 0 + i = i
    OBVIOUS
  <2> QED BY <2>1, <2>2
<1>2. [i \in 1..N |-> Stretch(0, N).log[i].shell] = contents
  <2>1. \A i : Entry(i).shell = Content(i)
    BY DEF Entry, LogShell
  <2> QED BY <1>1, <2>1
<1>3. \A i \in 1..N : Entry(i) = Integer(i)
  <2> SUFFICES ASSUME NEW i \in 1..N PROVE Entry(i) = Integer(i)
    OBVIOUS
  <2>1. Stored(i - 1) = -1 + i
    <3>1. i - 1 \in (-Half)..(Half - 1) /\ i - 1 = -1 + i
      BY LapIsPositive
    <3> QED BY <3>1, StoredFits
  <2>2. (IF i = 1 THEN NoHash ELSE <<Content(i - 1)>>) = IF i > 1 THEN <<contents[i - 1]>> ELSE NoHash
    OBVIOUS
  <2>3. (IF i = 1 THEN 0 ELSE Stored(i - 2) + 1) = -1 + i
    <3>1. CASE i = 1
      BY <3>1
    <3>2. CASE i # 1
      <4>1. i - 2 \in (-Half)..(Half - 1) /\ i - 2 + 1 = -1 + i
        BY <3>2, LapIsPositive
      <4>2. Stored(i - 2) = i - 2
        BY <4>1, StoredFits
      <4> QED BY <3>2, <4>1, <4>2
    <3> QED BY <3>1, <3>2
  <2>4. SignInt(-1 + i) = sign(-1 + i)
    BY DEF SignInt
  <2>5. contents[i] = Content(i)
    OBVIOUS
  <2> HIDE DEF contents
  <2> QED BY <2>1, <2>2, <2>3, <2>4, <2>5 DEF Entry
<1>4. Stretch(0, N) = [owner |-> Author, log |-> es]
  <2>1. Stretch(0, N) = [owner |-> Author, log |-> [i \in 1..N |-> Entry(0 + i)]]
    BY DEF Stretch
  <2>2. \A i \in 1..N : Entry(0 + i) = Integer(i)
    <3>1. \A i \in 1..N : 0 + i = i
      OBVIOUS
    <3> HIDE DEF Integer
    <3> QED BY <1>3, <3>1
  <2> HIDE DEF Integer
  <2> QED BY <2>1, <2>2
<1>5. AppendLogShells(NewLog(Author), contents) = [owner |-> Author, log |-> es]
  <2>1. Len(contents) = N
    <3> DEFINE C == {Content(i) : i \in 1..N}
    <3>1. contents \in [1..N -> C]
      OBVIOUS
    <3> HIDE DEF contents, C
    <3>2. contents \in Seq(C) /\ DOMAIN contents = 1..N
      BY <3>1
    <3> QED BY <3>2, LenProperties
  <2> HIDE DEF contents
  <2>2. NewLog(Author) = [owner |-> Author, log |-> <<>>]
    BY DEF NewLog
  <2>3. empty(NewLog(Author)) /\ getCurrentSeqNum(NewLog(Author)) = -1
    BY <2>2 DEF empty, getCurrentSeqNum
  <2>4. AppendLogShells(NewLog(Author), contents) = [owner |-> Author, log |-> <<>> \o es]
    <3> DEFINE l == NewLog(Author)
               made == [i \in 1..Len(contents) |->
                   LogShell(getCurrentSeqNum(l) + i,
                            IF i > 1 THEN <<contents[i - 1]>>
                            ELSE IF empty(l) THEN NoHash ELSE createHash(getLastEntry(l)),
                            l.owner, sign(getCurrentSeqNum(l) + i), contents[i])]
    <3>1. AppendLogShells(l, contents) = [l EXCEPT !.log = @ \o made]
      BY DEF AppendLogShells
    <3>2. made = es
      <4>1. l.owner = Author /\ Len(contents) = N
        BY <2>1, <2>2
      <4> HIDE DEF l
      <4> QED BY <2>3, <4>1 DEF l
    <3> HIDE DEF made, es
    <3> QED BY <2>2, <3>1, <3>2
  <2>5. es \in Seq(S)
    <3>1. es \in [1..N -> S]
      OBVIOUS
    <3> HIDE DEF es, S
    <3> QED BY <3>1
  <2> HIDE DEF es, S
  <2>6. <<>> \o es = es
    BY <2>5, ConcatEmptySeq
  <2> QED BY <2>4, <2>6
<1> QED
  BY <1>2, <1>4, <1>5

LEMMA InvImpliesIntegers ==
    ASSUME WidthInv
    PROVE  IntegersSuffice
<1>1. PICK N \in Nat : StretchesOf(N)
  BY DEF WidthInv
<1>2. published = Stretch(0, N)
  BY <1>1 DEF StretchesOf
<1>3. Len(Stretch(0, N).log) = N
  BY StretchIs
<1> SUFFICES ASSUME N <= Half
             PROVE  /\ published = AppendLogShells(NewLog(Author),
                           [i \in 1..N |-> published.log[i].shell])
                    /\ \A h \in Holders : IsPrefix(replica[h].log, published.log)
  BY <1>2, <1>3 DEF IntegersSuffice
<1>4. published = AppendLogShells(NewLog(Author), [i \in 1..N |-> published.log[i].shell])
  BY <1>2, HalfLapIsLog
<1>5. ASSUME NEW h \in Holders PROVE IsPrefix(replica[h].log, published.log)
  <2>1. PICK start \in Nat, n \in 0..Half :
           start % Lap = 0 /\ start + n <= N /\ replica[h] = Stretch(start, n)
    BY <1>1, StretchesAre DEF StretchesOf
  <2>2. n \in Nat /\ start \in 0..(Lap - 1)
    BY <2>1, LapIsPositive
  <2>3. start = 0
    <3>1. start = Lap * 0 + start /\ start \in Int /\ 0 \in Int
      BY LapIsPositive
    <3> QED BY <2>1, <2>2, <3>1, LapIsPositive, RemainderIsUnique
  <2>4. IsPrefix(Stretch(0, n).log, SubSeq(Stretch(0, N).log, 0 + 1, N))
    <3>1. 0 \in Nat /\ 0 + n <= N
      BY <2>1, <2>2, <2>3
    <3> QED BY <2>2, <3>1, StretchInLog
  <2>5. SubSeq(Stretch(0, N).log, 0 + 1, N) = Stretch(0, N).log
    <3> DEFINE s == Stretch(0, N).log
    <3>1. DOMAIN s = 1..N /\ s = [i \in 1..N |-> s[i]]
      BY DEF Stretch
    <3> HIDE DEF s
    <3>2. SubSeq(s, 1, N) = [i \in 1..N |-> s[i]]
      OBVIOUS
    <3>3. SubSeq(s, 0 + 1, N) = s
      BY <3>1, <3>2
    <3> QED BY <3>3 DEF s
  <2> QED BY <1>2, <2>1, <2>3, <2>4, <2>5
<1> QED
  BY <1>4, <1>5

\* As long as no number has wrapped a log is the one of CommunicationLog, and
\* its replicas are prefixes: what the other modules take integers for.
THEOREM IntegersAlwaysSuffice == Spec => []IntegersSuffice
<1>1. WidthInv => IntegersSuffice
  BY InvImpliesIntegers
<1> QED
  BY <1>1, WidthAlways, PTL

LEMMA InvImpliesStretches ==
    ASSUME WidthInv
    PROVE  ReplicaIsStretch
<1>1. PICK N \in Nat : StretchesOf(N)
  BY DEF WidthInv
<1>2. published = Stretch(0, N) /\ Len(published.log) = N
  BY <1>1, StretchIs DEF StretchesOf
<1> SUFFICES ASSUME NEW h \in Holders
             PROVE  \E lap \in 0..(N \div Lap) :
                       IsPrefix(replica[h].log, SubSeq(published.log, lap * Lap + 1, N))
  BY <1>2 DEF ReplicaIsStretch
<1>3. PICK start \in Nat, n \in 0..Half :
         start % Lap = 0 /\ start + n <= N /\ replica[h] = Stretch(start, n)
  BY <1>1, StretchesAre DEF StretchesOf
<1>4. n \in Nat /\ start <= N
  BY <1>3, LapIsPositive
<1>5. IsPrefix(replica[h].log, SubSeq(published.log, start + 1, N))
  BY <1>2, <1>3, <1>4, StretchInLog
<1> DEFINE lap == start \div Lap
           last == N \div Lap
<1>6. lap \in Int /\ start = Lap * lap + 0
  BY <1>3, LapIsPositive, RemainderIs
<1>7. last \in Int /\ N = Lap * last + (N % Lap) /\ N % Lap \in 0..(Lap - 1)
  BY LapIsPositive, RemainderIs
<1> DEFINE r == N % Lap
<1> HIDE DEF lap, last, r
<1>8. last \in Int /\ N = Lap * last + r /\ r \in 0..(Lap - 1)
  BY <1>7 DEF r
<1>9. lap * Lap = Lap * lap /\ Lap * lap \in Int /\ Lap * last \in Int
  BY <1>6, <1>8, LapIsPositive
<1>10. lap >= 0
  <2> SUFFICES ASSUME lap < 0 PROVE FALSE
    BY <1>6
  <2>1. Lap * lap + Lap <= Lap * 0 /\ Lap * 0 = 0
    BY <1>6, LapIsPositive, ProductsGrow
  <2> QED BY <1>6, <1>9, <2>1, LapIsPositive
<1>11. lap <= last
  <2> SUFFICES ASSUME last < lap PROVE FALSE
    BY <1>6, <1>8
  <2>1. Lap * last + Lap <= Lap * lap
    BY <1>6, <1>8, LapIsPositive, ProductsGrow
  <2> QED BY <1>4, <1>6, <1>8, <1>9, <2>1, LapIsPositive
<1>12. lap \in 0..last /\ lap * Lap + 1 = start + 1
  BY <1>6, <1>8, <1>9, <1>10, <1>11
<1>13. lap \in 0..(N \div Lap)
  BY <1>12 DEF last
<1> QED
  BY <1>5, <1>12, <1>13

\* Entries of different laps never come together in a replica, however numbers
\* wrap, whatever is lost and whoever answers: the hash link tells them apart
\* where the number does not (isSubsequentEntry).
THEOREM ReplicasAreStretches == Spec => []ReplicaIsStretch
<1>1. WidthInv => ReplicaIsStretch
  BY InvImpliesStretches
<1> QED
  BY <1>1, WidthAlways, PTL

LEMMA InvImpliesIndices ==
    ASSUME WidthInv
    PROVE  IndicesExist
<1>1. PICK N \in Nat : StretchesOf(N)
  BY DEF WidthInv
<1>2. ASSUME NEW k \in Holders
      PROVE  /\ getCurrentSeqNum(replica[k]) \in Int /\ getCurrentSeqNum(replica[k]) >= -1
             /\ getCurrentSeqNum(replica[k]) < Len(replica[k].log)
  <2>1. PICK start \in Nat, n \in 0..Half : start % Lap = 0 /\ replica[k] = Stretch(start, n)
    BY <1>1, StretchesAre DEF StretchesOf
  <2>2. n \in Nat
    BY LapIsPositive
  <2>3. getCurrentSeqNum(replica[k]) = n - 1
    BY <2>1, NumbersAreBelow
  <2>4. Len(Stretch(start, n).log) = n
    BY <2>2, StretchIs
  <2> QED BY <2>1, <2>2, <2>3, <2>4
<1>3. getCurrentSeqNum(published) < Len(published.log)
  BY <1>1, NumbersAreBelow, StretchIs DEF StretchesOf
<1> QED
  BY <1>2, <1>3 DEF IndicesExist

\* Every index an answer is taken from is one of the log, though it is a
\* sequence number that is used as one (sendEntryFromIndexTo, getEntryAt).
THEOREM IndicesAlwaysExist == Spec => []IndicesExist
<1>1. WidthInv => IndicesExist
  BY InvImpliesIndices
<1> QED
  BY <1>1, WidthAlways, PTL

LEMMA FullKept ==
    ASSUME WidthInv, [Next]_vars, NEW h \in Holders, Len(replica[h].log) = Half
    PROVE  replica'[h] = replica[h]
<1>1. PICK N \in Nat : StretchesOf(N)
  BY DEF WidthInv
<1>2. PICK M \in Nat : \A j \in Holders : Becomes(replica[j], replica'[j], M)
  BY <1>1, StepsBecome
<1>3. PICK start \in Nat, n \in 0..Half : start % Lap = 0 /\ replica[h] = Stretch(start, n)
  BY <1>1, StretchesAre DEF StretchesOf
<1>4. replica[h] = Stretch(start, Half)
  <2>1. n \in Nat
    BY LapIsPositive
  <2> QED BY <1>3, <2>1, StretchIs
<1> DEFINE Good == {replica[h]}
<1>5. \A k \in 1..M : \A x \in Good : addToLog(x, Entry(k)) \in Good
  BY <1>3, <1>4, FullTakesNothing
<1>6. replica'[h] \in Good
  BY <1>2, <1>5 DEF Becomes
<1> QED
  BY <1>6

\* A full replica is never written again (getCurrentSeqNum, isSubsequentEntry).
THEOREM FullAlwaysStay == Spec => FullReplicasStay
<1>1. WidthInv /\ [Next]_vars =>
         [\A h \in Holders : Len(replica[h].log) = Half => replica'[h] = replica[h]]_vars
  BY FullKept
<1> QED
  BY <1>1, WidthAlways, PTL DEF Spec, FullReplicasStay
=============================================================================
