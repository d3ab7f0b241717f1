------------------------------- MODULE KeyProofs -------------------------------
(***************************************************************************)
(* What the setup makes of any topology: generatePublicKey gives the       *)
(* largest key there is, whatever the primes; every application finds a    *)
(* pair of primes and gets an id of its own; and links and losses are what *)
(* Network takes for granted.                                              *)
(***************************************************************************)
EXTENDS NodesSetup, TLAPS

\* Keys made one after the other, from any numbers whose phi leaves room for
\* one (RsaSignature(p, q)).
KeysNext ==
    \/ /\ at \in {"idle", "done"}
       /\ \E p \in Int : \E q \in Int : (p - 1) * (q - 1) > 2 /\ Begin(p, q)
    \/ KeyStep

KeysSpec == KeysInit /\ [][KeysNext]_keyVars

\* tmp is the largest number below n that is coprime to phi, or 0.
IsLargestBelow(n) ==
    /\ tmp = 0 \/ (tmp \in 2..(n - 1) /\ Coprime(tmp, phi))
    /\ \A k \in 2..(n - 1) : Coprime(k, phi) => k <= tmp

TestInv == at = "test" => e \in 2..phi /\ IsLargestBelow(e)

GcdInv ==
    at = "gcd" =>
        /\ e \in 2..(phi - 1) /\ IsLargestBelow(e)
        /\ a > 0 /\ b > 0

KeyInv ==
    /\ phi \in Int /\ e \in Int /\ tmp \in Int /\ a \in Int /\ b \in Int
    /\ at # "idle" => phi > 2
    /\ at \in {"idle", "test", "gcd", "done"}
    /\ TestInv /\ GcdInv
    /\ at = "done" => e = phi - 1
    /\ GcdKeepsDivisors /\ KeyIsLargestCoprime

-----------------------------------------------------------------------------
(* Divisors *)

LEMMA DivisorIs ==
    ASSUME NEW n \in Int, n > 0, NEW d \in Int, d > 0
    PROVE  d \in Divisors(n) <=> \E k \in Int : n = d * k
<1>1. ASSUME d \in Divisors(n) PROVE \E k \in Int : n = d * k
  BY <1>1 DEF Divisors, Divides
<1>2. ASSUME NEW k \in Int, n = d * k PROVE d \in Divisors(n)
  <2>1. k > 0
    BY <1>2
  <2>2. d * k >= k /\ d * k >= d
    BY <2>1
  <2>3. d \in 1..n /\ k \in 0..n
    BY <1>2, <2>1, <2>2
  <2> QED BY <1>2, <2>3 DEF Divisors, Divides
<1> QED
  BY <1>1, <1>2

LEMMA DivisorsArePositive ==
    ASSUME NEW n, NEW d \in Divisors(n)
    PROVE  d \in Int /\ d > 0
  BY DEF Divisors

\* What divides two numbers divides what they leave.
LEMMA DividesRest ==
    ASSUME NEW m \in Int, NEW n \in Int, NEW r \in Int, r > 0, m > 0, n > 0,
           NEW q \in Int, r = m - n * q,
           NEW d, d \in Divisors(m), d \in Divisors(n)
    PROVE  d \in Divisors(r)
<1>1. d \in Int /\ d > 0
  BY DivisorsArePositive
<1>2. PICK j \in Int : m = d * j
  BY <1>1, DivisorIs
<1>3. PICK k \in Int : n = d * k
  BY <1>1, DivisorIs
<1>4. r = d * (j - k * q)
  <2>1. (d * k) * q = d * (k * q)
    BY <1>1, <1>3
  <2>2. d * (j - k * q) = d * j - d * (k * q)
    BY <1>1, <1>2, <1>3
  <2> QED BY <1>2, <1>3, <2>1, <2>2
<1>5. j - k * q \in Int
  BY <1>2, <1>3
<1> QED
  BY <1>1, <1>4, <1>5, DivisorIs

LEMMA RemainderIs ==
    ASSUME NEW m \in Int, NEW n \in Int, m > 0, n > 0
    PROVE  /\ m % n \in Int /\ m \div n \in Int /\ m % n >= 0
           /\ m % n = m - n * (m \div n)
  OBVIOUS

\* One turn of gcd.
LEMMA TurnKeepsDivisors ==
    ASSUME NEW m \in Int, NEW n \in Int, m > 0, n > 0, m % n # 0
    PROVE  Divisors(n) \cap Divisors(m % n) = Divisors(m) \cap Divisors(n)
<1> DEFINE r == m % n
           q == m \div n
<1>1. r \in Int /\ q \in Int /\ r > 0 /\ r = m - n * q
  BY RemainderIs
<1> HIDE DEF r, q
<1>2. m = r - n * (-q) /\ -q \in Int
  BY <1>1
<1>3. ASSUME NEW d, d \in Divisors(m), d \in Divisors(n) PROVE d \in Divisors(r)
  BY <1>1, <1>3, DividesRest
<1>4. ASSUME NEW d, d \in Divisors(r), d \in Divisors(n) PROVE d \in Divisors(m)
  BY <1>1, <1>2, <1>4, DividesRest
<1>5. Divisors(n) \cap Divisors(r) = Divisors(m) \cap Divisors(n)
  BY <1>3, <1>4
<1> QED
  BY <1>5 DEF r

\* What gcd returns is 1 for coprime numbers only.
LEMMA LastTurn ==
    ASSUME NEW m \in Int, NEW n \in Int, m > 0, n > 0, m % n = 0
    PROVE  Divisors(m) \cap Divisors(n) = {1} <=> n = 1
<1>1. PICK q \in Int : m = n * q
  BY RemainderIs
<1>2. n \in Divisors(m) /\ n \in Divisors(n)
  <2>1. n = n * 1 /\ 1 \in Int
    OBVIOUS
  <2>2. n \in Divisors(n)
    BY <2>1, DivisorIs
  <2>3. n \in Divisors(m)
    BY <1>1, DivisorIs
  <2> QED BY <2>2, <2>3
<1>3. ASSUME n = 1 PROVE Divisors(m) \cap Divisors(n) = {1}
  BY <1>2, <1>3 DEF Divisors
<1> QED
  BY <1>2, <1>3

LEMMA NextIsCoprime ==
    ASSUME NEW n \in Int, n > 1
    PROVE  Coprime(n - 1, n)
<1>1. 1 \in Divisors(n - 1) /\ 1 \in Divisors(n)
  <2>1. n = 1 * n /\ n - 1 = 1 * (n - 1) /\ n - 1 \in Int /\ n - 1 > 0 /\ 1 \in Int
    OBVIOUS
  <2>2. 1 \in Divisors(n)
    BY <2>1, DivisorIs
  <2>3. 1 \in Divisors(n - 1)
    BY <2>1, DivisorIs
  <2> QED BY <2>2, <2>3
<1>2. ASSUME NEW d, d \in Divisors(n - 1), d \in Divisors(n) PROVE d = 1
  <2>1. 1 = n - (n - 1) * 1 /\ n - 1 > 0 /\ n - 1 \in Int
    OBVIOUS
  <2>2. d \in Divisors(1)
    BY <1>2, <2>1, DividesRest
  <2> QED BY <2>2 DEF Divisors
<1> QED
  BY <1>1, <1>2 DEF Coprime

-----------------------------------------------------------------------------
(* The loops *)

LEMMA BeginKeeps ==
    ASSUME NEW p \in Int, NEW q \in Int, (p - 1) * (q - 1) > 2, KeyInv, Begin(p, q)
    PROVE  KeyInv'
<1>1. /\ phi' = (p - 1) * (q - 1) /\ phi' \in Int /\ phi' > 2
      /\ e' = 2 /\ tmp' = 0 /\ at' = "test" /\ a' = a /\ b' = b
  BY DEF Begin
<1>2. e' \in 2..phi' /\ IsLargestBelow(e)'
  BY <1>1 DEF IsLargestBelow
<1> QED
  BY <1>1, <1>2 DEF KeyInv, TestInv, GcdInv, GcdKeepsDivisors, KeyIsLargestCoprime

LEMMA CallGcdKeeps ==
    ASSUME KeyInv, CallGcd
    PROVE  KeyInv'
<1>1. /\ at = "test" /\ e < phi /\ a' = e /\ b' = phi /\ at' = "gcd"
      /\ phi' = phi /\ e' = e /\ tmp' = tmp
  BY DEF CallGcd
<1>2. e \in 2..(phi - 1) /\ IsLargestBelow(e) /\ phi \in Int /\ e \in Int /\ tmp \in Int
  BY <1>1 DEF KeyInv, TestInv
<1>3. IsLargestBelow(e)' /\ a' > 0 /\ b' > 0
  BY <1>1, <1>2 DEF IsLargestBelow
<1>4. GcdKeepsDivisors'
  BY <1>1 DEF GcdKeepsDivisors
<1> QED
  BY <1>1, <1>2, <1>3, <1>4 DEF KeyInv, TestInv, GcdInv, KeyIsLargestCoprime

LEMMA GcdStepKeeps ==
    ASSUME KeyInv, GcdStep
    PROVE  KeyInv'
<1>1. /\ at = "gcd" /\ a % b # 0 /\ a' = b /\ b' = a % b /\ at' = "gcd"
      /\ phi' = phi /\ e' = e /\ tmp' = tmp
  BY DEF GcdStep
<1>2. /\ e \in 2..(phi - 1) /\ IsLargestBelow(e) /\ phi \in Int /\ e \in Int /\ tmp \in Int
      /\ a \in Int /\ b \in Int /\ a > 0 /\ b > 0 /\ phi > 2
  BY <1>1 DEF KeyInv, GcdInv
<1>3. a % b \in Int /\ a % b > 0
  BY <1>1, <1>2, RemainderIs
<1>4. IsLargestBelow(e)'
  BY <1>1, <1>2 DEF IsLargestBelow
<1>5. GcdKeepsDivisors'
  <2>1. Divisors(a) \cap Divisors(b) = Divisors(e) \cap Divisors(phi)
    BY <1>1 DEF KeyInv, GcdKeepsDivisors
  <2>2. Divisors(b) \cap Divisors(a % b) = Divisors(a) \cap Divisors(b)
    BY <1>1, <1>2, TurnKeepsDivisors
  <2>3. Divisors(a') \cap Divisors(b') = Divisors(e') \cap Divisors(phi')
    BY <1>1, <2>1, <2>2
  <2> QED BY <2>3 DEF GcdKeepsDivisors
<1> QED
  BY <1>1, <1>2, <1>3, <1>4, <1>5 DEF KeyInv, TestInv, GcdInv, KeyIsLargestCoprime

LEMMA GcdReturnsKeeps ==
    ASSUME KeyInv, GcdReturns
    PROVE  KeyInv'
<1>1. /\ at = "gcd" /\ a % b = 0 /\ at' = "test"
      /\ tmp' = (IF b = 1 THEN e ELSE tmp) /\ e' = e + 1
      /\ phi' = phi /\ a' = a /\ b' = b
  BY DEF GcdReturns
<1>2. /\ e \in 2..(phi - 1) /\ IsLargestBelow(e) /\ phi \in Int /\ e \in Int /\ tmp \in Int
      /\ a \in Int /\ b \in Int /\ a > 0 /\ b > 0 /\ phi > 2
  BY <1>1 DEF KeyInv, GcdInv
<1>3. Coprime(e, phi) <=> b = 1
  <2>1. Divisors(a) \cap Divisors(b) = Divisors(e) \cap Divisors(phi)
    BY <1>1 DEF KeyInv, GcdKeepsDivisors
  <2>2. Divisors(a) \cap Divisors(b) = {1} <=> b = 1
    BY <1>1, <1>2, LastTurn
  <2> QED BY <2>1, <2>2 DEF Coprime
<1>4. IsLargestBelow(e)'
  <2>1. tmp' = 0 \/ (tmp' \in 2..(e' - 1) /\ Coprime(tmp', phi'))
    BY <1>1, <1>2, <1>3 DEF IsLargestBelow
  <2>2. ASSUME NEW k \in 2..(e' - 1), Coprime(k, phi') PROVE k <= tmp'
    <3>1. CASE k = e
      BY <1>1, <1>2, <1>3, <2>2, <3>1
    <3>2. CASE k # e
      <4>1. k \in 2..(e - 1)
        BY <1>1, <1>2, <3>2
      <4>2. k <= tmp
        BY <1>1, <1>2, <2>2, <4>1 DEF IsLargestBelow
      <4> QED BY <1>1, <1>2, <4>1, <4>2
    <3> QED BY <3>1, <3>2
  <2> QED BY <2>1, <2>2 DEF IsLargestBelow
<1> QED
  BY <1>1, <1>2, <1>4 DEF KeyInv, TestInv, GcdInv, GcdKeepsDivisors, KeyIsLargestCoprime

LEMMA FinishKeyKeeps ==
    ASSUME KeyInv, FinishKey
    PROVE  KeyInv'
<1>1. /\ at = "test" /\ e >= phi /\ at' = "done" /\ e' = tmp
      /\ phi' = phi /\ tmp' = tmp /\ a' = a /\ b' = b
  BY DEF FinishKey
<1>2. /\ e \in 2..phi /\ IsLargestBelow(e) /\ phi \in Int /\ e \in Int /\ tmp \in Int
      /\ a \in Int /\ b \in Int /\ phi > 2
  BY <1>1 DEF KeyInv, TestInv
<1>3. e = phi
  BY <1>1, <1>2
<1>4. Coprime(phi - 1, phi)
  BY <1>2, NextIsCoprime
<1>5. tmp >= phi - 1
  BY <1>2, <1>3, <1>4 DEF IsLargestBelow
<1>6. /\ tmp \in 2..(phi - 1) /\ Coprime(tmp, phi)
      /\ \A k \in (tmp + 1)..(phi - 1) : ~Coprime(k, phi)
  BY <1>2, <1>3, <1>5 DEF IsLargestBelow
<1>7. KeyIsLargestCoprime'
  BY <1>1, <1>6 DEF KeyIsLargestCoprime
<1>8. e' = phi' - 1
  BY <1>1, <1>2, <1>5, <1>6
<1> QED
  BY <1>1, <1>2, <1>6, <1>8, <1>7 DEF KeyInv, TestInv, GcdInv, GcdKeepsDivisors

LEMMA KeyStepKeeps ==
    ASSUME KeyInv, KeyStep
    PROVE  KeyInv'
  BY CallGcdKeeps, GcdStepKeeps, GcdReturnsKeeps, FinishKeyKeeps DEF KeyStep

LEMMA KeysStay ==
    ASSUME KeyInv, UNCHANGED keyVars
    PROVE  KeyInv'
  BY DEF KeyInv, keyVars, TestInv, GcdInv, IsLargestBelow, GcdKeepsDivisors, KeyIsLargestCoprime

LEMMA KeysStart == KeysInit => KeyInv
  BY DEF KeysInit, KeyInv, TestInv, GcdInv, GcdKeepsDivisors, KeyIsLargestCoprime

-----------------------------------------------------------------------------

\* For any primes a device could be given, the loop of gcd keeps the common
\* divisors of its arguments, and the key is the largest number below phi that
\* is coprime to it (gcd, generatePublicKey).
THEOREM AnyKeyIsLargest == KeysSpec => [](GcdKeepsDivisors /\ KeyIsLargestCoprime)
<1>1. KeyInv /\ [KeysNext]_keyVars => KeyInv'
  BY BeginKeeps, KeyStepKeeps, KeysStay DEF KeysNext
<1>2. KeyInv => GcdKeepsDivisors /\ KeyIsLargestCoprime
  BY DEF KeyInv
<1> QED
  BY <1>1, <1>2, KeysStart, PTL DEF KeysSpec

-----------------------------------------------------------------------------
(* The keys of the program's nodes *)

PhiOf(k) == (primeNumberPairs[k][1] - 1) * (primeNumberPairs[k][2] - 1)

\* The application that is being added has the next pair of the table; those
\* that have been added have keys of their own, from pairs before it.
SetupInv ==
    /\ KeyInv
    /\ c \in 0..9
    /\ at # "idle" => c < 9 /\ phi = PhiOf(c + 1)
    /\ \A n \in DOMAIN key : \E k \in 1..c : key[n] = PhiOf(k) - 1
    /\ \A n, m \in DOMAIN key : n # m => key[n] # key[m]

\* Each pair leaves room for a key, and has a phi of its own.
LEMMA PhisAre ==
    /\ Len(primeNumberPairs) = 9
    /\ \A k \in 1..9 : /\ primeNumberPairs[k][1] \in Int /\ primeNumberPairs[k][2] \in Int
                       /\ PhiOf(k) \in Int /\ PhiOf(k) > 2
    /\ \A j \in 1..9 : \A k \in 1..9 : j # k => PhiOf(j) # PhiOf(k)
<1>1. /\ PhiOf(1) = 180 /\ PhiOf(2) = 40 /\ PhiOf(3) = 24 /\ PhiOf(4) = 108 /\ PhiOf(5) = 8
      /\ PhiOf(6) = 20 /\ PhiOf(7) = 120 /\ PhiOf(8) = 60 /\ PhiOf(9) = 72
  BY DEF PhiOf, primeNumberPairs
<1>2. /\ Len(primeNumberPairs) = 9
      /\ \A k \in 1..9 : primeNumberPairs[k][1] \in Int /\ primeNumberPairs[k][2] \in Int
  BY DEF primeNumberPairs
<1> QED
  BY <1>1, <1>2

LEMMA TakePairKeeps ==
    ASSUME SetupInv, NEW kind, TakePair(kind)
    PROVE  SetupInv'
<1>1. c' = c /\ key' = key /\ at = "idle" /\ KeyInv /\ c \in 0..9
  BY DEF TakePair, SetupInv
<1>2. CASE UNCHANGED keyVars
  <2>1. KeyInv' /\ at' = at
    BY <1>1, <1>2, KeysStay DEF keyVars
  <2> QED BY <1>1, <2>1 DEF SetupInv
<1>3. CASE c < Len(primeNumberPairs) /\ Begin(primeNumberPairs[c + 1][1], primeNumberPairs[c + 1][2])
  <2>1. c + 1 \in 1..9 /\ c < 9
    BY <1>1, <1>3, PhisAre
  <2>2. phi' = PhiOf(c + 1)
    BY <1>3 DEF Begin, PhiOf
  <2>3. PhiOf(c + 1) > 2 /\ primeNumberPairs[c + 1][1] \in Int /\ primeNumberPairs[c + 1][2] \in Int
    BY <2>1, PhisAre
  <2>4. KeyInv'
    <3> DEFINE p == primeNumberPairs[c + 1][1]
               q == primeNumberPairs[c + 1][2]
    <3>1. p \in Int /\ q \in Int /\ (p - 1) * (q - 1) > 2 /\ Begin(p, q)
      BY <1>3, <2>3 DEF PhiOf
    <3> HIDE DEF p, q
    <3> QED BY <1>1, <3>1, BeginKeeps
  <2>5. phi' = PhiOf(c' + 1)
    BY <1>1, <2>2
  <2> QED BY <1>1, <2>1, <2>4, <2>5 DEF SetupInv
<1> QED
  BY <1>2, <1>3 DEF TakePair

LEMMA AddApplicationKeeps ==
    ASSUME SetupInv, NEW kind, AddApplication(kind)
    PROVE  SetupInv'
<1> DEFINE n == <<kind, i>>
<1>1. /\ at = "done" /\ at' = "idle"
      /\ phi' = phi /\ e' = e /\ tmp' = tmp /\ a' = a /\ b' = b
      /\ c' = c + 1 /\ key' = [m \in DOMAIN key \cup {n} |-> IF m = n THEN e ELSE key[m]]
  BY DEF AddApplication
<1>2. KeyInv'
  BY <1>1 DEF SetupInv, KeyInv, TestInv, GcdInv, GcdKeepsDivisors, KeyIsLargestCoprime
<1>3. /\ c \in 0..9 /\ c < 9 /\ e = PhiOf(c + 1) - 1
  BY <1>1 DEF SetupInv, KeyInv
<1> HIDE DEF n
<1>4. /\ DOMAIN key' = DOMAIN key \cup {n}
      /\ key'[n] = e
      /\ \A m \in DOMAIN key : m # n => key'[m] = key[m]
  BY <1>1
<1>5. ASSUME NEW m \in DOMAIN key PROVE key[m] # e /\ \E k \in 1..c' : key[m] = PhiOf(k) - 1
  <2>1. PICK k \in 1..c : key[m] = PhiOf(k) - 1
    BY DEF SetupInv
  <2>2. k \in 1..9 /\ c + 1 \in 1..9 /\ k # c + 1 /\ k \in 1..c'
    BY <1>1, <1>3
  <2>3. PhiOf(k) # PhiOf(c + 1) /\ PhiOf(k) \in Int /\ PhiOf(c + 1) \in Int
    BY <2>2, PhisAre
  <2> QED BY <1>3, <2>1, <2>2, <2>3
<1>6. \A m \in DOMAIN key' : \E k \in 1..c' : key'[m] = PhiOf(k) - 1
  <2>1. c + 1 \in 1..c'
    BY <1>1, <1>3
  <2>2. key'[n] = PhiOf(c + 1) - 1
    BY <1>3, <1>4
  <2> QED BY <1>4, <1>5, <2>1, <2>2
<1>7. \A l \in DOMAIN key' : \A m \in DOMAIN key' : l # m => key'[l] # key'[m]
  BY <1>4, <1>5 DEF SetupInv
<1> QED
  BY <1>1, <1>2, <1>3, <1>6, <1>7 DEF SetupInv

LEMMA MakeKeyKeeps ==
    ASSUME SetupInv, MakeKey
    PROVE  SetupInv'
<1>1. /\ c' = c /\ key' = key /\ KeyStep /\ KeyInv
  BY DEF MakeKey, SetupInv
<1>2. phi' = phi /\ at # "idle"
  BY <1>1 DEF KeyStep, CallGcd, GcdStep, GcdReturns, FinishKey
<1> QED
  BY <1>1, <1>2, KeyStepKeeps DEF SetupInv

LEMMA SetupKeeps == SetupInv /\ [Next]_vars => SetupInv'
<1> SUFFICES ASSUME SetupInv, [Next]_vars
             PROVE  SetupInv'
  OBVIOUS
<1>1. ASSUME UNCHANGED <<keyVars, c, key>> PROVE SetupInv'
  <2>1. KeyInv' /\ phi' = phi /\ at' = at /\ c' = c /\ key' = key
    BY <1>1, KeysStay DEF SetupInv, keyVars
  <2> QED BY <2>1 DEF SetupInv
<1>2. ASSUME NEW k, TakePair(Kinds[k]) \/ AddApplication(Kinds[k]) \/ NextContainer(k)
      PROVE  SetupInv'
  <2>1. NextContainer(k) => UNCHANGED <<keyVars, c, key>>
    BY DEF NextContainer
  <2> QED BY <1>1, <1>2, <2>1, TakePairKeeps, AddApplicationKeeps
<1>3. CASE LinkSwitch \/ LinkRest \/ SetErrorModel \/ Run
  BY <1>1, <1>3 DEF LinkSwitch, LinkRest, SetErrorModel, Run
<1>4. CASE UNCHANGED vars
  BY <1>1, <1>4 DEF vars
<1> QED
  BY <1>2, <1>3, <1>4, MakeKeyKeeps DEF Next

LEMMA SetupStarts == Init => SetupInv
<1> SUFFICES ASSUME Init PROVE SetupInv
  OBVIOUS
<1>1. KeyInv /\ c = 0 /\ at = "idle" /\ DOMAIN key = {}
  BY KeysStart DEF Init, KeysInit
<1> QED
  BY <1>1 DEF SetupInv

LEMMA SpecSetup == Spec => []SetupInv
  BY SetupStarts, SetupKeeps, PTL DEF Spec

\* So are the keys of the program's nodes, whichever topologies it is run with.
THEOREM KeysAreLargest == Spec => [](GcdKeepsDivisors /\ KeyIsLargestCoprime)
<1>1. SetupInv => GcdKeepsDivisors /\ KeyIsLargestCoprime
  BY DEF SetupInv, KeyInv
<1> QED
  BY <1>1, SpecSetup, PTL

\* No two nodes share an author id: the largest key below phi is phi - 1, and
\* no two pairs of the table have the same phi (addApplicationToNodes,
\* generatePublicKey).
THEOREM IdsDiffer == Spec => []IdsAreDistinct
<1>1. SetupInv => IdsAreDistinct
  BY DEF SetupInv, IdsAreDistinct
<1> QED
  BY <1>1, SpecSetup, PTL

-----------------------------------------------------------------------------
(* Which application gets which pair *)

\* How many applications there are before those of the phase.
Earlier(ph) ==
    CASE ph = "switch" -> UserNumbers
      [] ph = "manager" -> UserNumbers + SwitchNumbers
      [] ph = "errors" \/ ph = "run" -> UserNumbers + SwitchNumbers + 1
      [] OTHER -> 0

Phases == {"link", "user", "switch", "manager", "errors", "run"}

\* An application takes its turn in its phase; every one before has had its.
TurnInv ==
    /\ topology \in {"line", "star", "dia"} /\ topology \in Topologies
    /\ phase \in Phases
    /\ i \in Nat
    /\ phase = "link" => c = 0
    /\ phase = "user" => i <= UserNumbers /\ c = i
    /\ phase = "switch" => i <= SwitchNumbers /\ c = UserNumbers + i
    /\ phase = "manager" => i <= 1 /\ c = UserNumbers + SwitchNumbers + i
    /\ phase \in {"errors", "run"} => c = UserNumbers + SwitchNumbers + 1
    /\ at # "idle" => phase \in {"user", "switch", "manager"} /\ i < NumberOf(phase)
    /\ ~ended

\* The second user has the key of the second pair as soon as it has one.
PublisherInv ==
    /\ phase = "link" => DOMAIN key = {}
    /\ DOMAIN key \subseteq AllNodes
    /\ phase \in {"switch", "manager", "errors", "run"} \/ (phase = "user" /\ i > 1) =>
           User(1) \in DOMAIN key /\ key[User(1)] = 39

LEMMA NumbersAre ==
    ASSUME topology \in {"line", "star", "dia"}
    PROVE  /\ UserNumbers \in 2..3 /\ SwitchNumbers \in 3..5
           /\ UserNumbers + SwitchNumbers + 1 < 10
           /\ SwitchNumbers = 5 => UserNumbers = 3
           /\ NumberOf("user") = UserNumbers /\ NumberOf("switch") = SwitchNumbers
           /\ NumberOf("manager") = 1
  BY DEF UserNumbers, SwitchNumbers, NumberOf

LEMMA KindsAre ==
    /\ Kinds[1] = "user" /\ Kinds[2] = "switch" /\ Kinds[3] = "manager"
    /\ \A k \in 1..3 : Kinds[k] \in {"user", "switch", "manager"}
  BY DEF Kinds

LEMMA SamePlaces ==
    ASSUME topology' = topology
    PROVE  /\ UserNumbers' = UserNumbers /\ SwitchNumbers' = SwitchNumbers
           /\ AllNodes' = AllNodes /\ UserNodes' = UserNodes /\ SwitchNodes' = SwitchNodes
           /\ LastSwitch' = LastSwitch /\ Chained' = Chained
           /\ \A kind : NumberOf(kind)' = NumberOf(kind)
  BY DEF UserNumbers, SwitchNumbers, AllNodes, UserNodes, SwitchNodes, LastSwitch, Chained,
         NumberOf, User, Switch, TheManager

LEMMA TurnsStart == Init => TurnInv /\ PublisherInv
  BY TopologiesAreKnown DEF Init, KeysInit, TurnInv, PublisherInv, Phases

LEMMA TakePairKeepsTurns ==
    ASSUME TurnInv, PublisherInv, SetupInv, NEW kind \in {"user", "switch", "manager"},
           TakePair(kind)
    PROVE  TurnInv' /\ PublisherInv'
<1>1. /\ topology' = topology /\ phase' = phase /\ i' = i /\ c' = c /\ key' = key
      /\ phase = kind /\ i < NumberOf(kind)
  BY DEF TakePair
<1>2. c < 9
  BY <1>1, NumbersAre DEF TurnInv
<1>3. ended' = ended
  BY <1>2, PhisAre DEF TakePair
<1>4. TurnInv'
  BY <1>1, <1>3, SamePlaces DEF TurnInv
<1>5. PublisherInv'
  BY <1>1, SamePlaces DEF PublisherInv, User
<1> QED
  BY <1>4, <1>5

LEMMA AddApplicationKeepsTurns ==
    ASSUME TurnInv, PublisherInv, SetupInv, NEW kind \in {"user", "switch", "manager"},
           AddApplication(kind)
    PROVE  TurnInv' /\ PublisherInv'
<1> DEFINE n == <<kind, i>>
<1>1. /\ topology' = topology /\ phase' = phase /\ i' = i + 1 /\ c' = c + 1 /\ ended' = ended
      /\ phase = kind /\ at = "done" /\ at' = "idle"
      /\ key' = [m \in DOMAIN key \cup {n} |-> IF m = n THEN e ELSE key[m]]
  BY DEF AddApplication
<1>2. i \in Nat /\ i < NumberOf(kind)
  BY <1>1 DEF TurnInv
<1>3. TurnInv'
  BY <1>1, <1>2, SamePlaces, NumbersAre DEF TurnInv
<1>4. n \in AllNodes
  BY <1>2, NumbersAre
     DEF TurnInv, AllNodes, UserNodes, SwitchNodes, User, Switch, TheManager
<1>5. n = User(1) => e = 39
  <2>1. n = User(1) => i = 1 /\ kind = "user"
    BY DEF User
  <2>2. kind = "user" /\ i = 1 => phi = PhiOf(2)
    BY <1>1 DEF TurnInv, SetupInv
  <2>3. PhiOf(2) = 40 /\ e = phi - 1
    BY <1>1 DEF PhiOf, primeNumberPairs, SetupInv, KeyInv
  <2> QED BY <2>1, <2>2, <2>3
<1>6. kind = "user" /\ i = 1 => n = User(1)
  BY DEF User
<1> HIDE DEF n
<1>7. DOMAIN key' \subseteq AllNodes'
  BY <1>1, <1>4, SamePlaces DEF PublisherInv
<1>8. ASSUME phase \in {"switch", "manager", "errors", "run"} \/ (phase = "user" /\ i + 1 > 1)
      PROVE  User(1) \in DOMAIN key' /\ key'[User(1)] = 39
  <2>1. CASE n = User(1)
    BY <1>1, <1>5, <2>1
  <2>2. CASE n # User(1)
    <3>1. User(1) \in DOMAIN key /\ key[User(1)] = 39
      BY <1>1, <1>2, <1>6, <1>8, <2>2 DEF PublisherInv
    <3> QED BY <1>1, <2>2, <3>1
  <2> QED BY <2>1, <2>2
<1>9. PublisherInv'
  BY <1>1, <1>7, <1>8 DEF PublisherInv, User
<1> QED
  BY <1>3, <1>9

LEMMA NextContainerKeepsTurns ==
    ASSUME TurnInv, PublisherInv, NEW k \in 1..3, NextContainer(k)
    PROVE  TurnInv' /\ PublisherInv'
<1>1. /\ topology' = topology /\ c' = c /\ key' = key /\ ended' = ended /\ at' = at
      /\ phase = Kinds[k] /\ i >= NumberOf(phase) /\ i' = 0
      /\ phase' = (IF k < 3 THEN Kinds[k + 1] ELSE "errors")
  BY DEF NextContainer, keyVars
<1>2. /\ NumberOf("user") = UserNumbers /\ NumberOf("switch") = SwitchNumbers
      /\ NumberOf("manager") = 1 /\ UserNumbers \in 2..3 /\ SwitchNumbers \in 3..5
  BY NumbersAre DEF TurnInv
<1>3. \/ phase = "user" /\ phase' = "switch"
      \/ phase = "switch" /\ phase' = "manager"
      \/ phase = "manager" /\ phase' = "errors"
  BY <1>1 DEF Kinds
<1>4. at = "idle"
  BY <1>1, <1>2, <1>3 DEF TurnInv
<1>5. TurnInv'
  BY <1>1, <1>2, <1>3, <1>4, SamePlaces DEF TurnInv, Phases
<1>6. PublisherInv'
  BY <1>1, <1>2, <1>3, SamePlaces DEF TurnInv, PublisherInv, User
<1> QED
  BY <1>5, <1>6

LEMMA TurnsStay ==
    ASSUME TurnInv, PublisherInv, SetupInv, [Next]_vars
    PROVE  TurnInv' /\ PublisherInv'
<1>1. CASE LinkSwitch
  <2>1. /\ topology' = topology /\ phase' = phase /\ phase = "link" /\ i' = i + 1
        /\ c' = c /\ key' = key /\ ended' = ended /\ at' = at
    BY <1>1 DEF LinkSwitch, keyVars
  <2> QED BY <2>1, SamePlaces DEF TurnInv, PublisherInv, User
<1>2. CASE LinkRest
  <2>1. /\ topology' = topology /\ phase = "link" /\ phase' = "user" /\ i' = 0
        /\ c' = c /\ key' = key /\ ended' = ended /\ at' = at
    BY <1>2 DEF LinkRest, keyVars
  <2> QED BY <2>1, SamePlaces, NumbersAre DEF TurnInv, PublisherInv, Phases, User
<1>3. ASSUME NEW k \in 1..3, TakePair(Kinds[k]) \/ AddApplication(Kinds[k]) \/ NextContainer(k)
      PROVE  TurnInv' /\ PublisherInv'
  BY <1>3, KindsAre, TakePairKeepsTurns, AddApplicationKeepsTurns, NextContainerKeepsTurns
<1>4. CASE MakeKey
  <2>1. /\ topology' = topology /\ phase' = phase /\ i' = i
        /\ c' = c /\ key' = key /\ ended' = ended /\ at # "idle"
    BY <1>4 DEF MakeKey, KeyStep, CallGcd, GcdStep, GcdReturns, FinishKey
  <2> QED BY <2>1, SamePlaces DEF TurnInv, PublisherInv, User
<1>5. CASE SetErrorModel
  <2>1. /\ topology' = topology /\ phase' = phase /\ phase = "errors" /\ i' = i + 1
        /\ c' = c /\ key' = key /\ ended' = ended /\ at' = at
    BY <1>5 DEF SetErrorModel, keyVars
  <2> QED BY <2>1, SamePlaces DEF TurnInv, PublisherInv, User
<1>6. CASE Run
  <2>1. /\ topology' = topology /\ phase = "errors" /\ phase' = "run" /\ i' = i
        /\ c' = c /\ key' = key /\ ended' = ended /\ at' = at
    BY <1>6 DEF Run, keyVars
  <2> QED BY <2>1, SamePlaces DEF TurnInv, PublisherInv, Phases, User
<1>7. CASE UNCHANGED vars
  <2>1. /\ topology' = topology /\ phase' = phase /\ i' = i
        /\ c' = c /\ key' = key /\ ended' = ended /\ at' = at
    BY <1>7 DEF vars, keyVars
  <2> QED BY <2>1, SamePlaces DEF TurnInv, PublisherInv, User
<1> QED
  BY <1>1, <1>2, <1>3, <1>4, <1>5, <1>6, <1>7 DEF Next

LEMMA SpecTurns == Spec => [](TurnInv /\ PublisherInv)
<1>1. (TurnInv /\ PublisherInv) /\ SetupInv /\ [Next]_vars => (TurnInv /\ PublisherInv)'
  BY TurnsStay
<1> QED
  BY <1>1, TurnsStart, SpecSetup, PTL DEF Spec

\* The table of primes has a pair for every application of every topology: at
\* never throws (nodesSetup, primeNumberPairs).
THEOREM PairsAlwaysSuffice == Spec => []PairsSuffice
<1>1. TurnInv => PairsSuffice
  BY DEF TurnInv, PairsSuffice
<1> QED
  BY <1>1, SpecTurns, PTL

\* The id that is written out in the schedule is that of the user which is made
\* to publish: users come first, and the second pair of the table makes 39
\* (nodesSetup, generatePublicKey).
THEOREM PublisherIsKnown == Spec => []PublisherIsSubscribedTo
<1>1. PublisherInv => PublisherIsSubscribedTo
  BY DEF PublisherInv, PublisherIsSubscribedTo, Publisher, SubscribedAuthor, User
<1> QED
  BY <1>1, SpecTurns, PTL

-----------------------------------------------------------------------------
(* What is linked *)

\* s lists the members of S, each once.
Lists(s, S) == s \in Seq(S) /\ ToSet(s) = S /\ IsInjective(s)

Both(x, y) == {<<x, y>>, <<y, x>>}

\* The switch that the loop links the k-th one to.
NextSwitch(k) == IF topology = "star" THEN LastSwitch ELSE Switch(k + 1)

\* The links of the first n switches to others, and to the manager.
Chain(n) == UNION {Both(Switch(k), NextSwitch(k)) : k \in 0..(n - 1)}
Managed(n) == UNION {Both(Switch(k), TheManager) : k \in 0..(n - 1)}

Closing ==
    IF topology = "dia" THEN Both(LastSwitch, Switch(0)) \cup Both(LastSwitch, Switch(2)) ELSE {}

Attached ==
    Both(User(0), SwitchOf(0)) \cup Both(User(1), SwitchOf(1)) \cup
    (IF topology = "dia" THEN {} ELSE Both(User(2), SwitchOf(2)))

AllLinks == Chain(Chained) \cup (Managed(SwitchNumbers) \cup Closing) \cup Attached

\* No link is installed twice, whatever the order; losses are for the links of
\* the first container, device by device.
LinkInv ==
    /\ phase = "link" =>
           /\ i <= Chained
           /\ Lists(switchToSwitch, Chain(i)) /\ Lists(managerToSwitch, Managed(i))
           /\ userToSwitch = << >>
    /\ phase # "link" =>
           Lists(switchToSwitch, Chain(Chained)) /\ Lists(Devices, AllLinks)
    /\ phase \in {"link", "user", "switch", "manager"} => lossy = {}
    /\ phase = "errors" =>
           i <= Len(switchToSwitch) /\ lossy = {switchToSwitch[k] : k \in 1..i}
    /\ phase = "run" => lossy = ToSet(switchToSwitch)

LEMMA ListsNothing == Lists(<< >>, {})
<1>1. << >> \in Seq({}) /\ DOMAIN << >> = {}
  OBVIOUS
<1> QED
  BY <1>1 DEF Lists, ToSet, IsInjective

LEMMA ListsOfBoth ==
    ASSUME NEW S, NEW T, NEW s, NEW t, Lists(s, S), Lists(t, T), S \cap T = {}
    PROVE  Lists(s \o t, S \cup T)
<1> DEFINE n == Len(s)
           l == Len(t)
<1>1. s \in Seq(S \cup T) /\ t \in Seq(S \cup T)
  BY DEF Lists
<1>2. s \o t \in Seq(S \cup T)
  BY <1>1
<1>3. /\ n \in Nat /\ l \in Nat /\ DOMAIN s = 1..n /\ DOMAIN t = 1..l
      /\ DOMAIN (s \o t) = 1..(n + l)
      /\ \A k \in 1..n : (s \o t)[k] = s[k]
      /\ \A k \in (n + 1)..(n + l) : (s \o t)[k] = t[k - n]
  BY <1>1
<1> HIDE DEF n, l
<1>4. ASSUME NEW k \in 1..n PROVE s[k] \in S
  BY <1>3, <1>4 DEF Lists, ToSet
<1>5. ASSUME NEW k \in (n + 1)..(n + l) PROVE t[k - n] \in T /\ k - n \in 1..l
  BY <1>3, <1>5 DEF Lists, ToSet
<1>6. ToSet(s \o t) = S \cup T
  <2>1. ASSUME NEW x \in S PROVE x \in ToSet(s \o t)
    <3>1. PICK k \in 1..n : s[k] = x
      BY <1>3 DEF Lists, ToSet
    <3>2. k \in 1..(n + l)
      BY <1>3
    <3> QED BY <1>3, <3>1, <3>2 DEF ToSet
  <2>2. ASSUME NEW x \in T PROVE x \in ToSet(s \o t)
    <3>1. PICK k \in 1..l : t[k] = x
      BY <1>3 DEF Lists, ToSet
    <3>2. k + n \in (n + 1)..(n + l) /\ k + n \in 1..(n + l) /\ (k + n) - n = k
      BY <1>3
    <3>3. (s \o t)[k + n] = x
      BY <1>3, <3>1, <3>2
    <3> QED BY <1>3, <3>2, <3>3 DEF ToSet
  <2>3. ASSUME NEW k \in 1..(n + l) PROVE (s \o t)[k] \in S \cup T
    BY <1>3, <1>4, <1>5
  <2> QED BY <1>3, <2>1, <2>2, <2>3 DEF ToSet
<1>7. IsInjective(s \o t)
  <2> SUFFICES ASSUME NEW k \in 1..(n + l), NEW m \in 1..(n + l), (s \o t)[k] = (s \o t)[m]
               PROVE  k = m
    BY <1>3 DEF IsInjective
  <2>1. CASE k \in 1..n /\ m \in 1..n
    BY <1>3, <2>1 DEF Lists, IsInjective
  <2>2. CASE k \in (n + 1)..(n + l) /\ m \in (n + 1)..(n + l)
    <3>1. k - n \in 1..l /\ m - n \in 1..l /\ t[k - n] = t[m - n]
      BY <1>3, <1>5, <2>2
    <3>2. k - n = m - n
      BY <1>3, <3>1 DEF Lists, IsInjective
    <3> QED BY <1>3, <3>2
  <2>3. CASE k \in 1..n /\ m \in (n + 1)..(n + l)
    BY <1>3, <1>4, <1>5, <2>3
  <2>4. CASE k \in (n + 1)..(n + l) /\ m \in 1..n
    BY <1>3, <1>4, <1>5, <2>4
  <2> QED BY <1>3, <2>1, <2>2, <2>3, <2>4
<1> QED
  BY <1>2, <1>6, <1>7 DEF Lists

LEMMA InstallLists ==
    ASSUME NEW x, NEW y, x # y
    PROVE  Lists(Install(x, y), Both(x, y))
<1> DEFINE s == Install(x, y)
<1>1. /\ s \in Seq(Both(x, y)) /\ DOMAIN s = 1..2 /\ s[1] = <<x, y>> /\ s[2] = <<y, x>>
  BY DEF Install, Both
<1>2. s[1] # s[2]
  BY <1>1
<1> HIDE DEF s
<1>3. ToSet(s) = Both(x, y)
  BY <1>1 DEF ToSet, Both
<1>4. IsInjective(s)
  BY <1>1, <1>2 DEF IsInjective
<1> QED
  BY <1>1, <1>3, <1>4 DEF Lists, s

LEMMA ChainIs ==
    ASSUME NEW n \in Nat
    PROVE  /\ Chain(n + 1) = Chain(n) \cup Both(Switch(n), NextSwitch(n))
           /\ Managed(n + 1) = Managed(n) \cup Both(Switch(n), TheManager)
<1>1. 0..((n + 1) - 1) = (0..(n - 1)) \cup {n}
  OBVIOUS
<1> QED
  BY <1>1 DEF Chain, Managed

LEMMA NothingChained == Chain(0) = {} /\ Managed(0) = {}
<1>1. 0..(0 - 1) = {}
  OBVIOUS
<1> QED
  BY <1>1 DEF Chain, Managed

LEMMA SameLinks ==
    ASSUME topology' = topology
    PROVE  /\ \A n : Chain(n)' = Chain(n) /\ Managed(n)' = Managed(n)
           /\ AllLinks' = AllLinks
<1>1. /\ \A k : NextSwitch(k)' = NextSwitch(k) /\ SwitchOf(k)' = SwitchOf(k)
      /\ LastSwitch' = LastSwitch /\ Chained' = Chained /\ SwitchNumbers' = SwitchNumbers
  BY SamePlaces DEF NextSwitch, SwitchOf, Switch, LastSwitch
<1>2. \A n : Chain(n)' = Chain(n) /\ Managed(n)' = Managed(n)
  BY <1>1 DEF Chain, Managed, Both, Switch, TheManager
<1> QED
  BY <1>1, <1>2 DEF AllLinks, Closing, Attached, Both, User, Switch

LEMMA SwitchesDiffer ==
    /\ \A k, m : Switch(k) = Switch(m) => k = m
    /\ \A k, m : User(k) # Switch(m) /\ Switch(m) # User(k)
    /\ \A k : User(k) # TheManager /\ TheManager # User(k)
    /\ \A k : Switch(k) # TheManager /\ TheManager # Switch(k)
    /\ \A k, m : User(k) = User(m) => k = m
  BY DEF Switch, User, TheManager

LEMMA LinkSwitchKeepsLinks ==
    ASSUME TurnInv, LinkInv, LinkSwitch
    PROVE  LinkInv'
<1>1. /\ phase = "link" /\ phase' = "link" /\ i \in Nat /\ i < Chained /\ i' = i + 1
      /\ topology' = topology /\ topology \in {"line", "star", "dia"}
      /\ lossy' = lossy /\ userToSwitch' = userToSwitch
      /\ switchToSwitch' = switchToSwitch \o Install(Switch(i), NextSwitch(i))
      /\ managerToSwitch' = managerToSwitch \o Install(Switch(i), TheManager)
  BY DEF LinkSwitch, TurnInv, NextSwitch
<1>2. /\ Lists(switchToSwitch, Chain(i)) /\ Lists(managerToSwitch, Managed(i))
      /\ userToSwitch = << >> /\ lossy = {}
  BY <1>1 DEF LinkInv
<1>3. Chained \in Nat /\ (topology = "star" => LastSwitch = Switch(4) /\ Chained = 4)
  BY <1>1 DEF Chained, LastSwitch, SwitchNumbers
<1>4. Switch(i) # NextSwitch(i) /\ Switch(i) # TheManager
  BY <1>1, <1>3 DEF NextSwitch, Switch, TheManager
<1>5. Chain(i) \cap Both(Switch(i), NextSwitch(i)) = {}
  <2>1. CASE topology = "star"
    <3>1. ASSUME NEW k \in 0..(i - 1)
          PROVE Both(Switch(k), Switch(4)) \cap Both(Switch(i), Switch(4)) = {}
      BY <1>1, <1>3, <2>1 DEF Both, Switch
    <3>2. \A k : NextSwitch(k) = Switch(4)
      BY <1>3, <2>1 DEF NextSwitch
    <3> QED BY <3>1, <3>2 DEF Chain
  <2>2. CASE topology # "star"
    <3>1. ASSUME NEW k \in 0..(i - 1)
          PROVE Both(Switch(k), Switch(k + 1)) \cap Both(Switch(i), Switch(i + 1)) = {}
      BY <1>1 DEF Both, Switch
    <3>2. \A k : NextSwitch(k) = Switch(k + 1)
      BY <2>2 DEF NextSwitch
    <3> QED BY <3>1, <3>2 DEF Chain
  <2> QED BY <2>1, <2>2
<1>6. Managed(i) \cap Both(Switch(i), TheManager) = {}
  <2>1. ASSUME NEW k \in 0..(i - 1)
        PROVE Both(Switch(k), TheManager) \cap Both(Switch(i), TheManager) = {}
    BY <1>1 DEF Both, Switch, TheManager
  <2> QED BY <2>1 DEF Managed
<1>7. /\ Lists(switchToSwitch', Chain(i) \cup Both(Switch(i), NextSwitch(i)))
      /\ Lists(managerToSwitch', Managed(i) \cup Both(Switch(i), TheManager))
  BY <1>1, <1>2, <1>4, <1>5, <1>6, InstallLists, ListsOfBoth
<1>8. Lists(switchToSwitch', Chain(i')) /\ Lists(managerToSwitch', Managed(i'))
  BY <1>1, <1>7, ChainIs
<1>9. Chain(i)' = Chain(i') /\ Managed(i)' = Managed(i')
  <2>1. \A k : NextSwitch(k)' = NextSwitch(k)
    BY <1>1, SamePlaces DEF NextSwitch, Switch
  <2> QED BY <2>1 DEF Chain, Managed, Both, Switch, TheManager
<1>10. Lists(switchToSwitch, Chain(i))' /\ Lists(managerToSwitch, Managed(i))'
  BY <1>8, <1>9 DEF Lists
<1> QED
  BY <1>1, <1>2, <1>3, <1>10, SamePlaces DEF LinkInv

LEMMA ClosingIsNoChain ==
    ASSUME TurnInv
    PROVE  Chain(Chained) \cap Closing = {}
<1>1. CASE topology = "dia"
  <2>1. /\ LastSwitch = Switch(3) /\ Chained = 2 /\ \A k : NextSwitch(k) = Switch(k + 1)
        /\ Closing = Both(Switch(3), Switch(0)) \cup Both(Switch(3), Switch(2))
    BY <1>1 DEF SwitchNumbers, LastSwitch, Chained, NextSwitch, Closing
  <2>2. ASSUME NEW k \in 0..(2 - 1)
        PROVE  Both(Switch(k), Switch(k + 1)) \cap
                   (Both(Switch(3), Switch(0)) \cup Both(Switch(3), Switch(2))) = {}
    BY DEF Both, Switch
  <2> QED BY <2>1, <2>2 DEF Chain
<1>2. CASE topology # "dia"
  BY <1>2 DEF Closing
<1> QED
  BY <1>1, <1>2

LEMMA LinkRestKeepsLinks ==
    ASSUME TurnInv, LinkInv, LinkRest
    PROVE  LinkInv'
<1> DEFINE users == Install(User(0), SwitchOf(0)) \o Install(User(1), SwitchOf(1))
<1>1. /\ phase = "link" /\ phase' = "user" /\ i \in Nat /\ i = Chained
      /\ topology' = topology /\ topology \in {"line", "star", "dia"} /\ lossy' = lossy
      /\ switchToSwitch' = switchToSwitch
  BY DEF LinkRest, TurnInv, LinkInv, Chained, SwitchNumbers
<1>2. /\ Lists(switchToSwitch, Chain(Chained)) /\ Lists(managerToSwitch, Managed(Chained))
      /\ lossy = {}
  BY <1>1 DEF LinkInv
<1>4. Lists(managerToSwitch', Managed(SwitchNumbers) \cup Closing)
  <2>1. CASE topology = "dia"
    <3>1. SwitchNumbers = 4 /\ LastSwitch = Switch(3) /\ Chained = 2
      BY <2>1 DEF SwitchNumbers, LastSwitch, Chained
    <3>2. managerToSwitch' = managerToSwitch \o
              (Install(Switch(2), TheManager) \o Install(Switch(3), TheManager)
               \o Install(Switch(3), Switch(0)) \o Install(Switch(3), Switch(2)))
      BY <2>1, <3>1 DEF LinkRest
    <3>3. /\ Both(Switch(2), TheManager) \cap Both(Switch(3), TheManager) = {}
          /\ (Both(Switch(2), TheManager) \cup Both(Switch(3), TheManager))
                 \cap Both(Switch(3), Switch(0)) = {}
          /\ (Both(Switch(2), TheManager) \cup Both(Switch(3), TheManager)
              \cup Both(Switch(3), Switch(0))) \cap Both(Switch(3), Switch(2)) = {}
      BY DEF Both, Switch, TheManager
    <3>4. /\ Lists(Install(Switch(2), TheManager), Both(Switch(2), TheManager))
          /\ Lists(Install(Switch(3), TheManager), Both(Switch(3), TheManager))
          /\ Lists(Install(Switch(3), Switch(0)), Both(Switch(3), Switch(0)))
          /\ Lists(Install(Switch(3), Switch(2)), Both(Switch(3), Switch(2)))
      <4>1. /\ Switch(2) # TheManager /\ Switch(3) # TheManager
            /\ Switch(3) # Switch(0) /\ Switch(3) # Switch(2)
        BY DEF Switch, TheManager
      <4> QED BY <4>1, InstallLists
    <3>5. Lists(Install(Switch(2), TheManager) \o Install(Switch(3), TheManager),
                Both(Switch(2), TheManager) \cup Both(Switch(3), TheManager))
      BY <3>3, <3>4, ListsOfBoth
    <3>6. Lists(Install(Switch(2), TheManager) \o Install(Switch(3), TheManager)
                \o Install(Switch(3), Switch(0)),
                Both(Switch(2), TheManager) \cup Both(Switch(3), TheManager)
                \cup Both(Switch(3), Switch(0)))
      BY <3>3, <3>4, <3>5, ListsOfBoth
    <3> DEFINE rest == Both(Switch(2), TheManager) \cup Both(Switch(3), TheManager)
                       \cup Both(Switch(3), Switch(0)) \cup Both(Switch(3), Switch(2))
    <3>7. Lists(Install(Switch(2), TheManager) \o Install(Switch(3), TheManager)
                \o Install(Switch(3), Switch(0)) \o Install(Switch(3), Switch(2)), rest)
      BY <3>3, <3>4, <3>6, ListsOfBoth
    <3>8. /\ Managed(4) = Managed(2) \cup Both(Switch(2), TheManager)
                          \cup Both(Switch(3), TheManager)
          /\ Managed(2) = Both(Switch(0), TheManager) \cup Both(Switch(1), TheManager)
      <4>1. Managed(0 + 1) = Managed(0) \cup Both(Switch(0), TheManager)
        BY ChainIs
      <4>2. Managed(1 + 1) = Managed(1) \cup Both(Switch(1), TheManager)
        BY ChainIs
      <4>3. Managed(2 + 1) = Managed(2) \cup Both(Switch(2), TheManager)
        BY ChainIs
      <4>4. Managed(3 + 1) = Managed(3) \cup Both(Switch(3), TheManager)
        BY ChainIs
      <4> QED BY <4>1, <4>2, <4>3, <4>4, NothingChained
    <3>9. Managed(2) \cap rest = {}
      BY <3>8 DEF Both, Switch, TheManager
    <3>10. Managed(2) \cup rest = Managed(SwitchNumbers) \cup Closing
      BY <2>1, <3>1, <3>8 DEF Closing
    <3> HIDE DEF rest
    <3>11. Lists(managerToSwitch', Managed(2) \cup rest)
      BY <1>2, <3>1, <3>2, <3>7, <3>9, ListsOfBoth
    <3> QED BY <3>10, <3>11
  <2>2. CASE topology # "dia"
    <3>1. managerToSwitch' = managerToSwitch \o Install(LastSwitch, TheManager)
      BY <2>2 DEF LinkRest
    <3>2. Chained \in Nat /\ SwitchNumbers = Chained + 1 /\ LastSwitch = Switch(Chained)
      BY <1>1, <2>2 DEF Chained, SwitchNumbers, LastSwitch
    <3>3. Managed(Chained) \cap Both(Switch(Chained), TheManager) = {}
      <4>1. ASSUME NEW k \in 0..(Chained - 1)
            PROVE Both(Switch(k), TheManager) \cap Both(Switch(Chained), TheManager) = {}
        BY <3>2 DEF Both, Switch, TheManager
      <4> QED BY <4>1 DEF Managed
    <3>4. Lists(managerToSwitch', Managed(Chained) \cup Both(Switch(Chained), TheManager))
      BY <1>2, <3>1, <3>2, <3>3, InstallLists, ListsOfBoth, SwitchesDiffer
    <3>5. Managed(SwitchNumbers) = Managed(Chained) \cup Both(Switch(Chained), TheManager)
      BY <3>2, ChainIs
    <3>6. Closing = {}
      BY <2>2 DEF Closing
    <3> QED BY <3>4, <3>5, <3>6
  <2> QED BY <2>1, <2>2
<1>5. Lists(userToSwitch', Attached)
  <2>1. \A k \in 0..2 : \E m : SwitchOf(k) = Switch(m)
    BY <1>1 DEF SwitchOf
  <2>2. /\ User(0) # SwitchOf(0) /\ User(1) # SwitchOf(1) /\ User(2) # SwitchOf(2)
    BY <2>1, SwitchesDiffer
  <2>3. /\ Both(User(0), SwitchOf(0)) \cap Both(User(1), SwitchOf(1)) = {}
        /\ (Both(User(0), SwitchOf(0)) \cup Both(User(1), SwitchOf(1)))
               \cap Both(User(2), SwitchOf(2)) = {}
    <3>1. PICK k : SwitchOf(0) = Switch(k)
      BY <2>1
    <3>2. PICK l : SwitchOf(1) = Switch(l)
      BY <2>1
    <3>3. PICK m : SwitchOf(2) = Switch(m)
      BY <2>1
    <3> QED BY <3>1, <3>2, <3>3 DEF Both, Switch, User
  <2>4. Lists(users, Both(User(0), SwitchOf(0)) \cup Both(User(1), SwitchOf(1)))
    BY <2>2, <2>3, InstallLists, ListsOfBoth
  <2>5. Lists(users \o Install(User(2), SwitchOf(2)),
              Both(User(0), SwitchOf(0)) \cup Both(User(1), SwitchOf(1))
              \cup Both(User(2), SwitchOf(2)))
    <3> HIDE DEF users
    <3> QED BY <2>2, <2>3, <2>4, InstallLists, ListsOfBoth
  <2>6. CASE topology = "dia"
    <3>1. userToSwitch' = users
      <4>1. userToSwitch' = Install(User(0), SwitchOf(0)) \o Install(User(1), SwitchOf(1)) \o << >>
        BY <2>6 DEF LinkRest
      <4>2. \E S : users \in Seq(S)
        BY <2>4 DEF Lists
      <4> QED BY <4>1, <4>2
    <3> QED BY <2>4, <2>6, <3>1 DEF Attached
  <2>7. CASE topology # "dia"
    <3>1. userToSwitch' = users \o Install(User(2), SwitchOf(2))
      BY <2>7 DEF LinkRest
    <3> QED BY <2>5, <2>7, <3>1 DEF Attached
  <2> QED BY <2>6, <2>7
<1>6. Chain(Chained) \cap (Managed(SwitchNumbers) \cup Closing) = {}
  <2>1. ASSUME NEW l \in Chain(Chained) PROVE l \notin Managed(SwitchNumbers)
    <3>1. PICK k \in 0..(Chained - 1) : l \in Both(Switch(k), NextSwitch(k))
      BY DEF Chain
    <3>2. \E m : NextSwitch(k) = Switch(m)
      BY DEF NextSwitch, LastSwitch
    <3> QED BY <3>1, <3>2 DEF Managed, Both, Switch, TheManager
  <2> QED BY <2>1, ClosingIsNoChain
<1>7. (Chain(Chained) \cup (Managed(SwitchNumbers) \cup Closing)) \cap Attached = {}
  <2>1. \A l \in Attached : l[1][1] = "user" \/ l[2][1] = "user"
    BY DEF Attached, Both, User
  <2>2. \A l \in Chain(Chained) : l[1][1] # "user" /\ l[2][1] # "user"
    BY DEF Chain, Both, Switch, NextSwitch, LastSwitch
  <2>3. \A l \in Managed(SwitchNumbers) : l[1][1] # "user" /\ l[2][1] # "user"
    BY DEF Managed, Both, Switch, TheManager
  <2>4. \A l \in Closing : l[1][1] # "user" /\ l[2][1] # "user"
    BY DEF Closing, Both, Switch, LastSwitch
  <2> QED BY <2>1, <2>2, <2>3, <2>4
<1>8. Lists(Devices', AllLinks)
  <2>1. Devices' = switchToSwitch' \o managerToSwitch' \o userToSwitch'
    BY DEF Devices
  <2>2. Lists(switchToSwitch' \o managerToSwitch',
              Chain(Chained) \cup (Managed(SwitchNumbers) \cup Closing))
    BY <1>1, <1>2, <1>4, <1>6, ListsOfBoth
  <2> QED BY <1>5, <1>7, <2>1, <2>2, ListsOfBoth DEF AllLinks
<1>9. Chain(Chained)' = Chain(Chained) /\ AllLinks' = AllLinks
  BY <1>1, SameLinks, SamePlaces
<1>10. Lists(switchToSwitch, Chain(Chained))' /\ Lists(Devices, AllLinks)'
  BY <1>1, <1>2, <1>8, <1>9 DEF Lists
<1> QED
  BY <1>1, <1>2, <1>10 DEF LinkInv

LEMMA SetErrorModelKeepsLinks ==
    ASSUME TurnInv, LinkInv, SetErrorModel
    PROVE  LinkInv'
<1>1. /\ phase = "errors" /\ phase' = "errors" /\ i' = i + 1 /\ i < Len(switchToSwitch)
      /\ topology' = topology /\ lossy' = lossy \cup {switchToSwitch[i + 1]}
      /\ switchToSwitch' = switchToSwitch /\ links' = links /\ i \in Nat
  BY DEF SetErrorModel, links, TurnInv
<1>2. Chain(Chained)' = Chain(Chained) /\ AllLinks' = AllLinks
  BY <1>1, SameLinks, SamePlaces
<1>3. Lists(switchToSwitch, Chain(Chained))' /\ Lists(Devices, AllLinks)'
  BY <1>1, <1>2 DEF LinkInv, Lists, Devices, links
<1>4. Len(switchToSwitch) \in Nat
  BY <1>1 DEF LinkInv, Lists
<1>5. lossy' = {switchToSwitch[k] : k \in 1..(i + 1)}
  <2>1. 1..(i + 1) = (1..i) \cup {i + 1}
    BY <1>1
  <2> QED BY <1>1, <2>1 DEF LinkInv
<1> QED
  BY <1>1, <1>3, <1>4, <1>5 DEF LinkInv

LEMMA RunKeepsLinks ==
    ASSUME TurnInv, LinkInv, Run
    PROVE  LinkInv'
<1>1. /\ phase = "errors" /\ phase' = "run" /\ i' = i /\ i >= Len(switchToSwitch)
      /\ topology' = topology /\ lossy' = lossy
      /\ switchToSwitch' = switchToSwitch /\ links' = links /\ i \in Nat
  BY DEF Run, links, TurnInv
<1>2. Chain(Chained)' = Chain(Chained) /\ AllLinks' = AllLinks
  BY <1>1, SameLinks, SamePlaces
<1>3. Lists(switchToSwitch, Chain(Chained))' /\ Lists(Devices, AllLinks)'
  BY <1>1, <1>2 DEF LinkInv, Lists, Devices, links
<1>4. Len(switchToSwitch) \in Nat /\ DOMAIN switchToSwitch = 1..Len(switchToSwitch)
  BY <1>1 DEF LinkInv, Lists
<1>5. lossy = ToSet(switchToSwitch)
  BY <1>1, <1>4 DEF LinkInv, ToSet
<1> QED
  BY <1>1, <1>3, <1>5 DEF LinkInv

\* Keys and applications have nothing to do with links.
LEMMA ApplicationsKeepLinks ==
    ASSUME TurnInv, LinkInv, UNCHANGED <<topology, links, lossy>>,
           \/ phase' = phase /\ phase # "link" /\ (phase = "errors" => i' = i)
           \/ /\ phase \in {"user", "switch", "manager"}
              /\ phase' \in {"switch", "manager", "errors"} /\ i' = 0
    PROVE  LinkInv'
<1>1. topology' = topology /\ lossy' = lossy /\ switchToSwitch' = switchToSwitch /\ links' = links
  BY DEF links
<1>2. Chain(Chained)' = Chain(Chained) /\ AllLinks' = AllLinks
  BY <1>1, SameLinks, SamePlaces
<1>3. phase # "link" /\ phase' # "link"
  OBVIOUS
<1>4. Lists(switchToSwitch, Chain(Chained))' /\ Lists(Devices, AllLinks)'
  BY <1>1, <1>2, <1>3 DEF LinkInv, Lists, Devices, links
<1>5. Len(switchToSwitch) \in Nat /\ 1..0 = {}
  BY <1>3 DEF LinkInv, Lists
<1>6. CASE phase' = phase
  BY <1>1, <1>3, <1>4, <1>6 DEF LinkInv
<1>7. CASE phase' # phase
  BY <1>1, <1>3, <1>4, <1>5, <1>7 DEF LinkInv
<1> QED
  BY <1>6, <1>7

LEMMA LinksKept ==
    ASSUME TurnInv, LinkInv, [Next]_vars
    PROVE  LinkInv'
<1>1. ASSUME NEW k \in 1..3, TakePair(Kinds[k]) \/ AddApplication(Kinds[k]) PROVE LinkInv'
  <2>1. phase \in {"user", "switch", "manager"} /\ phase' = phase
    BY <1>1, KindsAre DEF TakePair, AddApplication
  <2>2. UNCHANGED <<topology, links, lossy>>
    BY <1>1 DEF TakePair, AddApplication
  <2> QED BY <2>1, <2>2, ApplicationsKeepLinks
<1>2. ASSUME NEW k \in 1..3, NextContainer(k) PROVE LinkInv'
  <2>1. /\ phase \in {"user", "switch", "manager"} /\ phase' \in {"switch", "manager", "errors"}
        /\ i' = 0
    BY <1>2 DEF NextContainer, Kinds
  <2>2. UNCHANGED <<topology, links, lossy>>
    BY <1>2 DEF NextContainer
  <2> QED BY <2>1, <2>2, ApplicationsKeepLinks
<1>3. CASE MakeKey
  <2>1. /\ UNCHANGED <<topology, links, lossy>> /\ phase' = phase /\ i' = i /\ at # "idle"
    BY <1>3 DEF MakeKey, KeyStep, CallGcd, GcdStep, GcdReturns, FinishKey
  <2>2. phase # "link"
    BY <2>1 DEF TurnInv
  <2> QED BY <2>1, <2>2, ApplicationsKeepLinks
<1>4. CASE UNCHANGED vars
  <2>1. UNCHANGED <<topology, links, lossy>> /\ phase' = phase /\ i' = i
    BY <1>4 DEF vars
  <2>2. CASE phase = "link"
    <3>1. /\ switchToSwitch' = switchToSwitch /\ managerToSwitch' = managerToSwitch
          /\ userToSwitch' = userToSwitch /\ topology' = topology /\ lossy' = lossy
      BY <2>1 DEF links
    <3>2. Chain(i)' = Chain(i) /\ Managed(i)' = Managed(i) /\ Chained' = Chained
      <4>1. \A k : NextSwitch(k)' = NextSwitch(k)
        BY <3>1, SamePlaces DEF NextSwitch, Switch
      <4> QED BY <2>1, <3>1, <4>1, SamePlaces DEF Chain, Managed, Both, Switch, TheManager
    <3>3. Lists(switchToSwitch, Chain(i))' /\ Lists(managerToSwitch, Managed(i))'
      BY <2>2, <3>1, <3>2 DEF LinkInv, Lists
    <3> QED BY <2>1, <2>2, <3>1, <3>2, <3>3 DEF LinkInv
  <2>3. CASE phase # "link"
    BY <2>1, <2>3, ApplicationsKeepLinks
  <2> QED BY <2>2, <2>3
<1> QED
  BY <1>1, <1>2, <1>3, <1>4, LinkSwitchKeepsLinks, LinkRestKeepsLinks, SetErrorModelKeepsLinks,
     RunKeepsLinks DEF Next

LEMMA LinksStart == Init => LinkInv
<1> SUFFICES ASSUME Init PROVE LinkInv
  OBVIOUS
<1>1. /\ phase = "link" /\ i = 0 /\ lossy = {} /\ topology \in {"line", "star", "dia"}
      /\ switchToSwitch = << >> /\ managerToSwitch = << >> /\ userToSwitch = << >>
  BY TopologiesAreKnown DEF Init
<1>2. 0 <= Chained
  BY <1>1 DEF Chained, SwitchNumbers
<1>3. Chain(i) = {} /\ Managed(i) = {}
  BY <1>1, NothingChained
<1> QED
  BY <1>1, <1>2, <1>3, ListsNothing DEF LinkInv

LEMMA SpecLinks == Spec => [](TurnInv /\ LinkInv)
<1>1. LinkInv /\ TurnInv /\ [Next]_vars => LinkInv'
  BY LinksKept
<1> QED
  BY <1>1, LinksStart, SpecTurns, PTL DEF Spec

-----------------------------------------------------------------------------
(* What Network is given *)

LEMMA NodesAre ==
    ASSUME TurnInv
    PROVE  /\ \A k \in 0..(SwitchNumbers - 1) : Switch(k) \in SwitchNodes
           /\ \A k \in 0..(UserNumbers - 1) : User(k) \in UserNodes
           /\ SwitchNodes \subseteq AllNodes /\ UserNodes \subseteq AllNodes
           /\ TheManager \in AllNodes
           /\ \A k \in 0..(Chained - 1) : Switch(k) \in SwitchNodes /\ NextSwitch(k) \in SwitchNodes
           /\ Chained \in Nat /\ Chained < SwitchNumbers /\ LastSwitch \in SwitchNodes
           /\ \A k \in 0..(UserNumbers - 1) : SwitchOf(k) \in SwitchNodes
<1>1. topology \in {"line", "star", "dia"} /\ SwitchNumbers \in Nat /\ UserNumbers \in Nat
  BY NumbersAre DEF TurnInv
<1>2. /\ \A k \in 0..(SwitchNumbers - 1) : Switch(k) \in SwitchNodes
      /\ \A k \in 0..(UserNumbers - 1) : User(k) \in UserNodes
      /\ SwitchNodes \subseteq AllNodes /\ UserNodes \subseteq AllNodes /\ TheManager \in AllNodes
  BY DEF SwitchNodes, UserNodes, AllNodes
<1>3. /\ Chained \in Nat /\ Chained < SwitchNumbers
      /\ SwitchNumbers - 1 \in 0..(SwitchNumbers - 1)
  BY <1>1 DEF Chained, SwitchNumbers
<1>4. LastSwitch \in SwitchNodes
  BY <1>2, <1>3 DEF LastSwitch
<1>5. ASSUME NEW k \in 0..(Chained - 1)
      PROVE  Switch(k) \in SwitchNodes /\ NextSwitch(k) \in SwitchNodes
  <2>1. k \in 0..(SwitchNumbers - 1) /\ k + 1 \in 0..(SwitchNumbers - 1)
    BY <1>1, <1>3
  <2> QED BY <1>2, <1>4, <2>1 DEF NextSwitch
<1>6. ASSUME NEW k \in 0..(UserNumbers - 1) PROVE SwitchOf(k) \in SwitchNodes
  <2>1. CASE topology = "line"
    BY <1>2, <2>1 DEF SwitchOf, SwitchNumbers, UserNumbers
  <2>2. CASE topology = "star"
    <3>1. k \in {0, 1, 2} /\ <<2, 3, 1>>[1] = 2 /\ <<2, 3, 1>>[2] = 3 /\ <<2, 3, 1>>[3] = 1
      BY <2>2 DEF UserNumbers
    <3>2. SwitchOf(k) \in {Switch(2), Switch(3), Switch(1)}
      BY <2>2, <3>1 DEF SwitchOf
    <3> QED BY <1>2, <2>2, <3>2 DEF SwitchNumbers
  <2>3. CASE topology = "dia"
    <3>1. 2 * k \in 0..3
      BY <2>3 DEF UserNumbers
    <3> QED BY <1>2, <2>3, <3>1 DEF SwitchOf, SwitchNumbers
  <2> QED BY <1>1, <2>1, <2>2, <2>3
<1> QED
  BY <1>2, <1>3, <1>4, <1>5, <1>6

\* Every link but those the loop makes between switches and those of "dia" has
\* the manager or a user at one end.
LEMMA LinksLead ==
    ASSUME TurnInv, NEW n \in 0..Chained, NEW m \in 0..SwitchNumbers
    PROVE  /\ Chain(n) \subseteq SwitchNodes \X SwitchNodes
           /\ Closing \subseteq SwitchNodes \X SwitchNodes
           /\ Managed(m) \subseteq {l \in AllNodes \X AllNodes :
                  \/ l[1] \in SwitchNodes /\ l[2] = TheManager
                  \/ l[1] = TheManager /\ l[2] \in SwitchNodes}
           /\ Attached \subseteq {l \in AllNodes \X AllNodes :
                  \/ l[1] \in UserNodes /\ l[2] \in SwitchNodes
                  \/ l[1] \in SwitchNodes /\ l[2] \in UserNodes}
<1>1. /\ topology \in {"line", "star", "dia"} /\ SwitchNumbers \in 3..5 /\ UserNumbers \in 2..3
      /\ Chained \in Nat
  BY NumbersAre, NodesAre DEF TurnInv
<1>2. Chain(n) \subseteq SwitchNodes \X SwitchNodes
  <2>1. \A k \in 0..(n - 1) : k \in 0..(Chained - 1)
    BY <1>1
  <2>2. ASSUME NEW k \in 0..(n - 1)
        PROVE  Both(Switch(k), NextSwitch(k)) \subseteq SwitchNodes \X SwitchNodes
    BY <2>1, NodesAre DEF Both
  <2> QED BY <2>2 DEF Chain
<1>3. Closing \subseteq SwitchNodes \X SwitchNodes
  <2>1. Switch(0) \in SwitchNodes /\ Switch(2) \in SwitchNodes
    BY <1>1, NodesAre
  <2> QED BY <2>1, NodesAre DEF Closing, Both
<1>4. Managed(m) \subseteq {l \in AllNodes \X AllNodes :
          \/ l[1] \in SwitchNodes /\ l[2] = TheManager
          \/ l[1] = TheManager /\ l[2] \in SwitchNodes}
  <2>1. \A k \in 0..(m - 1) : k \in 0..(SwitchNumbers - 1)
    BY <1>1
  <2>2. \A k \in 0..(m - 1) : Switch(k) \in SwitchNodes /\ Switch(k) \in AllNodes
    BY <2>1, NodesAre
  <2> QED BY <2>2, NodesAre DEF Managed, Both
<1>5. Attached \subseteq {l \in AllNodes \X AllNodes :
          \/ l[1] \in UserNodes /\ l[2] \in SwitchNodes
          \/ l[1] \in SwitchNodes /\ l[2] \in UserNodes}
  <2>1. \A k \in 0..(UserNumbers - 1) : /\ User(k) \in UserNodes /\ User(k) \in AllNodes
                                         /\ SwitchOf(k) \in SwitchNodes /\ SwitchOf(k) \in AllNodes
    BY NodesAre
  <2>2. 0 \in 0..(UserNumbers - 1) /\ 1 \in 0..(UserNumbers - 1)
    BY <1>1
  <2>3. topology # "dia" => 2 \in 0..(UserNumbers - 1)
    BY DEF UserNumbers
  <2> QED BY <2>1, <2>2, <2>3 DEF Attached, Both
<1> QED
  BY <1>2, <1>3, <1>4, <1>5

LEMMA DevicesAre ==
    ASSUME TurnInv, LinkInv
    PROVE  /\ ToSet(Devices) \subseteq AllNodes \X AllNodes
           /\ phase # "link" => ToSet(Devices) = AllLinks
<1>1. CASE phase = "link"
  <2>1. /\ i \in 0..Chained /\ i \in 0..SwitchNumbers
        /\ Lists(switchToSwitch, Chain(i)) /\ Lists(managerToSwitch, Managed(i))
        /\ Lists(userToSwitch, {})
    BY <1>1, ListsNothing, NodesAre, NumbersAre DEF TurnInv, LinkInv
  <2>2. /\ Chain(i) \subseteq SwitchNodes \X SwitchNodes
        /\ Managed(i) \subseteq {l \in AllNodes \X AllNodes :
               \/ l[1] \in SwitchNodes /\ l[2] = TheManager
               \/ l[1] = TheManager /\ l[2] \in SwitchNodes}
    BY <2>1, LinksLead
  <2>3. TheManager \notin SwitchNodes
    BY SwitchesDiffer DEF SwitchNodes
  <2>4. Chain(i) \cap Managed(i) = {}
    BY <2>2, <2>3
  <2>5. Lists(switchToSwitch \o managerToSwitch, Chain(i) \cup Managed(i))
    BY <2>1, <2>4, ListsOfBoth
  <2>6. Lists(Devices, (Chain(i) \cup Managed(i)) \cup {})
    BY <2>1, <2>5, ListsOfBoth DEF Devices
  <2>7. ToSet(Devices) = Chain(i) \cup Managed(i)
    BY <2>6 DEF Lists
  <2> QED BY <1>1, <2>2, <2>7, NodesAre
<1>2. CASE phase # "link"
  <2>1. ToSet(Devices) = AllLinks
    BY <1>2 DEF LinkInv, Lists
  <2>2. Chained \in 0..Chained /\ SwitchNumbers \in 0..SwitchNumbers
    BY NodesAre, NumbersAre DEF TurnInv
  <2>3. AllLinks \subseteq AllNodes \X AllNodes
    BY <2>2, LinksLead, NodesAre DEF AllLinks
  <2> QED BY <2>1, <2>3
<1> QED
  BY <1>1, <1>2

\* A type for all that nodesSetup builds, whichever topologies it is run with:
\* in particular no link leads to a node that is not there.
THEOREM SetupFits == Spec => []TypeOK
<1>1. TurnInv /\ LinkInv /\ SetupInv /\ PublisherInv => TypeOK
  <2> SUFFICES ASSUME TurnInv, LinkInv, SetupInv, PublisherInv PROVE TypeOK
    OBVIOUS
  <2>1. lossy \subseteq ToSet(switchToSwitch)
    <3>1. CASE phase \in {"errors", "run"}
      <4>1. DOMAIN switchToSwitch = 1..Len(switchToSwitch) /\ Len(switchToSwitch) \in Nat
        BY <3>1 DEF LinkInv, Lists
      <4> QED BY <3>1, <4>1 DEF LinkInv, TurnInv, ToSet
    <3>2. CASE phase \notin {"errors", "run"}
      BY <3>2 DEF LinkInv, TurnInv, Phases
    <3> QED BY <3>1, <3>2
  <2>2. c \in 0..Len(primeNumberPairs)
    BY PhisAre DEF SetupInv
  <2> QED BY <2>1, <2>2, DevicesAre DEF TypeOK, TurnInv, SetupInv, PublisherInv, KeyInv, Phases
<1> QED
  BY <1>1, SpecLinks, SpecSetup, SpecTurns, PTL

LEMMA NodesDiffer ==
    SwitchNodes \cap UserNodes = {} /\ TheManager \notin SwitchNodes /\ TheManager \notin UserNodes
  BY SwitchesDiffer DEF SwitchNodes, UserNodes

LEMMA UsersHaveASwitch ==
    ASSUME TurnInv, NEW u \in UserNodes
    PROVE  \E s \in SwitchNodes : \A n \in AllNodes : <<u, n>> \in AllLinks <=> n = s
<1>1. /\ topology \in {"line", "star", "dia"} /\ UserNumbers \in 2..3
      /\ Chained \in 0..Chained /\ SwitchNumbers \in 0..SwitchNumbers
  BY NumbersAre, NodesAre DEF TurnInv
<1>2. PICK k \in 0..(UserNumbers - 1) : u = User(k)
  BY DEF UserNodes
<1>3. SwitchOf(k) \in SwitchNodes
  BY NodesAre
<1>4. ASSUME NEW n \in AllNodes, <<u, n>> \in AllLinks PROVE n = SwitchOf(k)
  <2>1. <<u, n>> \in Attached
    BY <1>1, <1>4, LinksLead, NodesDiffer DEF AllLinks
  <2>2. \A m \in 0..2 : u = User(m) => m = k
    BY <1>2, SwitchesDiffer
  <2>3. \A m \in 0..2 : <<u, n>> \in Both(User(m), SwitchOf(m)) => m = k /\ n = SwitchOf(m)
    <3>1. ASSUME NEW m \in 0..2, <<u, n>> \in Both(User(m), SwitchOf(m))
          PROVE  m = k /\ n = SwitchOf(m)
      <4>1. <<u, n>> # <<SwitchOf(m), User(m)>>
        <5>1. \E l : SwitchOf(m) = Switch(l)
          BY <1>1 DEF SwitchOf
        <5> QED BY <1>2, <5>1, SwitchesDiffer
      <4> QED BY <2>2, <3>1, <4>1 DEF Both
    <3> QED BY <3>1
  <2> QED BY <2>1, <2>3 DEF Attached
<1>5. <<u, SwitchOf(k)>> \in Attached
  <2>1. k = 0 \/ k = 1 \/ k = 2
    BY <1>1
  <2>2. k = 2 => topology # "dia"
    BY <1>1 DEF UserNumbers
  <2> QED BY <1>2, <2>1, <2>2 DEF Attached, Both
<1> QED
  BY <1>3, <1>4, <1>5 DEF AllLinks

LEMMA ManagerHasSwitches ==
    ASSUME TurnInv, NEW n \in AllNodes
    PROVE  <<TheManager, n>> \in AllLinks <=> n \in SwitchNodes
<1>1. Chained \in 0..Chained /\ SwitchNumbers \in 0..SwitchNumbers
  BY NumbersAre, NodesAre DEF TurnInv
<1>2. ASSUME <<TheManager, n>> \in AllLinks PROVE n \in SwitchNodes
  <2>1. <<TheManager, n>> \in Managed(SwitchNumbers)
    BY <1>1, <1>2, LinksLead, NodesDiffer DEF AllLinks
  <2> QED BY <1>1, <2>1, LinksLead, NodesDiffer
<1>3. ASSUME n \in SwitchNodes PROVE <<TheManager, n>> \in AllLinks
  BY <1>3 DEF SwitchNodes, AllLinks, Managed, Both
<1> QED
  BY <1>2, <1>3

\* A set of switches with no link out of it has all of them, or none.
LEMMA SwitchesAreConnected ==
    ASSUME TurnInv, NEW part \in SUBSET SwitchNodes, part # {}, part # SwitchNodes
    PROVE  \E s \in part, t \in SwitchNodes \ part : <<s, t>> \in AllLinks
<1> SUFFICES ASSUME \A s \in part, t \in SwitchNodes \ part : <<s, t>> \notin AllLinks
             PROVE  FALSE
  OBVIOUS
<1>1. topology \in {"line", "star", "dia"}
  BY DEF TurnInv
<1>2. ASSUME NEW k \in 0..(Chained - 1) PROVE Switch(k) \in part <=> NextSwitch(k) \in part
  <2>1. Switch(k) \in SwitchNodes /\ NextSwitch(k) \in SwitchNodes
    BY NodesAre
  <2>2. <<Switch(k), NextSwitch(k)>> \in AllLinks /\ <<NextSwitch(k), Switch(k)>> \in AllLinks
    BY DEF AllLinks, Chain, Both
  <2> QED BY <2>1, <2>2
<1>3. SwitchNodes \subseteq part \/ SwitchNodes \cap part = {}
  <2>1. CASE topology = "line"
    <3>1. /\ SwitchNodes = {Switch(k) : k \in 0..2} /\ Chained = 2
          /\ \A k : NextSwitch(k) = Switch(k + 1)
      BY <2>1 DEF SwitchNodes, SwitchNumbers, Chained, NextSwitch
    <3>2. (Switch(0) \in part <=> Switch(1) \in part) /\ (Switch(1) \in part <=> Switch(2) \in part)
      <4>1. 0 \in 0..(2 - 1) /\ 1 \in 0..(2 - 1) /\ 0 + 1 = 1 /\ 1 + 1 = 2
        OBVIOUS
      <4> QED BY <1>2, <3>1, <4>1
    <3> QED BY <3>1, <3>2
  <2>2. CASE topology = "star"
    <3>1. /\ SwitchNodes = {Switch(k) : k \in 0..4} /\ Chained = 4
          /\ \A k : NextSwitch(k) = Switch(4)
      BY <2>2 DEF SwitchNodes, SwitchNumbers, Chained, NextSwitch, LastSwitch
    <3>2. \A k \in 0..4 : Switch(k) \in part <=> Switch(4) \in part
      BY <1>2, <3>1
    <3> QED BY <3>1, <3>2
  <2>3. CASE topology = "dia"
    <3>1. /\ SwitchNodes = {Switch(k) : k \in 0..3} /\ Chained = 2
          /\ \A k : NextSwitch(k) = Switch(k + 1)
          /\ LastSwitch = Switch(3)
      BY <2>3 DEF SwitchNodes, SwitchNumbers, Chained, NextSwitch, LastSwitch
    <3>2. (Switch(0) \in part <=> Switch(1) \in part) /\ (Switch(1) \in part <=> Switch(2) \in part)
      <4>1. 0 \in 0..(2 - 1) /\ 1 \in 0..(2 - 1) /\ 0 + 1 = 1 /\ 1 + 1 = 2
        OBVIOUS
      <4> QED BY <1>2, <3>1, <4>1
    <3>3. Switch(3) \in part <=> Switch(0) \in part
      <4>1. <<Switch(3), Switch(0)>> \in AllLinks /\ <<Switch(0), Switch(3)>> \in AllLinks
        BY <2>3, <3>1 DEF AllLinks, Closing, Both
      <4>2. Switch(0) \in SwitchNodes /\ Switch(3) \in SwitchNodes
        BY <3>1
      <4> QED BY <4>1, <4>2
    <3> QED BY <3>1, <3>2, <3>3
  <2> QED BY <1>1, <2>1, <2>2, <2>3
<1> QED
  BY <1>3

\* Every topology of the program is one that Network takes for granted
\* (nodesSetup).
THEOREM LinksSuit == Spec => []LinksSuitNetwork
<1>1. TurnInv /\ LinkInv => LinksSuitNetwork
  <2> SUFFICES ASSUME TurnInv, LinkInv, phase = "run" PROVE LinksSuitNetwork
    BY DEF LinksSuitNetwork
  <2>1. ToSet(Devices) = AllLinks /\ IsInjective(Devices)
    BY DevicesAre DEF LinkInv, Lists
  <2>2. \A u \in UserNodes : \E s \in SwitchNodes :
            \A n \in AllNodes : <<u, n>> \in ToSet(Devices) <=> n = s
    BY <2>1, UsersHaveASwitch
  <2>3. \A n \in AllNodes : <<TheManager, n>> \in ToSet(Devices) <=> n \in SwitchNodes
    BY <2>1, ManagerHasSwitches
  <2>4. \A part \in (SUBSET SwitchNodes) \ {{}, SwitchNodes} :
            \E s \in part, t \in SwitchNodes \ part : <<s, t>> \in ToSet(Devices)
    BY <2>1, SwitchesAreConnected
  <2> QED BY <2>1, <2>2, <2>3, <2>4 DEF LinksSuitNetwork
<1> QED
  BY <1>1, SpecLinks, PTL

\* The error model is on both ends of links between switches, and on no other
\* link: losses are those Network has (nodesSetup).
THEOREM LossesSuit == Spec => []LossesSuitNetwork
<1>1. TurnInv /\ LinkInv => LossesSuitNetwork
  <2> SUFFICES ASSUME TurnInv, LinkInv, phase = "run" PROVE LossesSuitNetwork
    BY DEF LossesSuitNetwork
  <2>1. lossy = Chain(Chained)
    BY DevicesAre DEF LinkInv, Lists
  <2>2. Chained \in 0..Chained /\ SwitchNumbers \in 0..SwitchNumbers
    BY NumbersAre, NodesAre DEF TurnInv
  <2>3. ASSUME NEW d \in Chain(Chained)
        PROVE  {d[1], d[2]} \subseteq SwitchNodes /\ <<d[2], d[1]>> \in Chain(Chained)
    <3>1. PICK k \in 0..(Chained - 1) : d \in Both(Switch(k), NextSwitch(k))
      BY DEF Chain
    <3>2. <<d[2], d[1]>> \in Both(Switch(k), NextSwitch(k))
      BY <3>1 DEF Both
    <3>3. d \in SwitchNodes \X SwitchNodes
      BY <2>2, LinksLead
    <3> QED BY <3>2, <3>3 DEF Chain
  <2> QED BY <2>1, <2>3 DEF LossesSuitNetwork
<1> QED
  BY <1>1, SpecLinks, PTL
=============================================================================
