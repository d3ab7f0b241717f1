------------------------------- MODULE RsaKeys -------------------------------
(***************************************************************************)
(* generatePublicKey of Signature.h, loop by loop. The public key of a     *)
(* device is also the number in its author id, and the exponent that every *)
(* other device verifies its signatures with, so it must not be shared.    *)
(*                                                                         *)
(* The private key is 1/e in floating point; sign and verify are in        *)
(* CommunicationLog.                                                       *)
(***************************************************************************)
EXTENDS Integers, FiniteSets

VARIABLES
    phi,    \* (p - 1) * (q - 1) of the primes last given
    e,      \* the candidate, and in the end the key
    tmp,    \* the last candidate that was coprime to phi
    a, b,   \* the arguments of gcd, as its loop changes them
    at      \* "idle", "test", "gcd" or "done"

keyVars == <<phi, e, tmp, a, b, at>>

KeysInit ==
    /\ phi = 0 /\ e = 0 /\ tmp = 0 /\ a = 0 /\ b = 0
    /\ at = "idle"

\* RsaSignature(p, q), and the start of generatePublicKey.
Begin(p, q) ==
    /\ phi' = (p - 1) * (q - 1)
    /\ e' = 2
    /\ tmp' = 0
    /\ at' = "test"
    /\ UNCHANGED <<a, b>>

CallGcd ==
    /\ at = "test"
    /\ e < phi
    /\ a' = e /\ b' = phi
    /\ at' = "gcd"
    /\ UNCHANGED <<phi, e, tmp>>

\* Mutants: the arguments are not exchanged; the quotient is taken.
MutNotExchanged ==
    /\ at = "gcd"
    /\ a % b # 0
    /\ a' = a % b /\ b' = b
    /\ UNCHANGED <<phi, e, tmp, at>>

MutQuotient ==
    /\ at = "gcd"
    /\ a % b # 0
    /\ a' = b /\ b' = (a \div b) + 1
    /\ UNCHANGED <<phi, e, tmp, at>>

GcdStep ==
    /\ at = "gcd"
    /\ a % b # 0
    /\ a' = b /\ b' = a % b
    /\ UNCHANGED <<phi, e, tmp, at>>

GcdReturns ==
    /\ at = "gcd"
    /\ a % b = 0
    /\ tmp' = IF b = 1 THEN e ELSE tmp
    /\ e' = e + 1
    /\ at' = "test"
    /\ UNCHANGED <<phi, a, b>>

\* Mutant: the candidate the loop stopped at is the key.
MutFinishKey ==
    /\ at = "test"
    /\ e >= phi
    /\ at' = "done"
    /\ UNCHANGED <<phi, e, tmp, a, b>>

FinishKey ==
    /\ at = "test"
    /\ e >= phi
    /\ e' = tmp
    /\ at' = "done"
    /\ UNCHANGED <<phi, tmp, a, b>>

KeyStep == CallGcd \/ GcdStep \/ GcdReturns \/ FinishKey

-----------------------------------------------------------------------------

Divides(d, n) == \E k \in 0..n : n = d * k

Divisors(n) == {d \in 1..n : Divides(d, n)}

Coprime(m, n) == Divisors(m) \cap Divisors(n) = {1}

\* The loop of gcd keeps the common divisors of the numbers it was called
\* with (gcd, Signature.h).
GcdKeepsDivisors ==
    at = "gcd" => Divisors(a) \cap Divisors(b) = Divisors(e) \cap Divisors(phi)

\* "1 < e < phi(n)" (Signature.h): the key is an exponent that can be
\* inverted, the largest there is (generatePublicKey).
KeyIsLargestCoprime ==
    at = "done" =>
        /\ e \in 2..(phi - 1)
        /\ Coprime(e, phi)
        /\ \A k \in (e + 1)..(phi - 1) : ~Coprime(k, phi)
=============================================================================
