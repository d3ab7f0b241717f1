------------------------------- MODULE LogWidth -------------------------------
(***************************************************************************)
(* A published log and its replicas with sequence numbers as wide as the   *)
(* code's: int16_t in LogShell and getCurrentSeqNum. CommunicationLog      *)
(* takes them as integers; this module is about where that stops being     *)
(* true. Expressions are computed in int, wider than what is stored.       *)
(*                                                                         *)
(* How packets travel is left out: an entry that is pushed or sent in      *)
(* answer to gossip arrives at once, or is lost.                           *)
(***************************************************************************)
EXTENDS CommunicationLog

CONSTANTS
    Author,
    Holders,    \* devices with a replica
    Half,       \* the numbers that fit are -Half to Half - 1: 32768 in the code
    MaxPushes   \* calls to pushLogToSwitch

ASSUME HalfIsPositive == Half \in Nat \ {0}

ASSUME PushesAreBounded == MaxPushes \in Nat

VARIABLES
    published,  \* the author's myPersonalLog
    replica     \* replica[h]: what h holds of it

vars == <<published, replica>>

Init ==
    /\ published = NewLog(Author)
    /\ replica = [h \in Holders |-> NewLog(Author)]

Lap == 2 * Half

\* Mutant: uint16_t.
MutUnsigned(n) == n % Lap

\* An int as it is stored in an int16_t.
Stored(n) == ((n + Half) % Lap) - Half

\* pow of a negative number with the exponent 1/e is not a number, and neither
\* is what is read back from it; it equals no sequence number.
NaN == <<0, 0>>

SignInt(n) == IF n < 0 THEN NaN ELSE sign(n)

\* appendLogShell: it signs the int it computes and stores it as an int16_t.
AppendStored(l, content) ==
    LET next == getCurrentSeqNum(l) + 1
        hash == IF empty(l) THEN NoHash ELSE createHash(getLastEntry(l))
    IN  [l EXCEPT !.log = Append(@,
            LogShell(Stored(next), hash, l.owner, SignInt(next), content))]

\* The next push of the author; its message carries the counter.
NextContent == ContentShell("pushContent", Author, Len(published.log))

\* pushLogToSwitch: the last entry is sent, and reaches some.
Push(reached) ==
    LET next == AppendStored(published, NextContent)
    IN  /\ Len(published.log) < MaxPushes
        /\ published' = next
        /\ replica' = [h \in Holders |->
               IF h \in reached THEN addToLog(replica[h], getLastEntry(next)) ELSE replica[h]]

\* sendEntryFromIndexTo: from an index to the current number, which need not
\* be the last index.
SentFrom(l, from) ==
    SubSeq(l.log, (IF from = -1 THEN 0 ELSE from) + 1, getCurrentSeqNum(l) + 1)

\* What comes of l when the entries of sent arrive in their order, but those at
\* the indices lost.
Arriving(l, sent, lost) ==
    LET held[i \in 0..Len(sent)] ==
            IF i = 0 THEN l
            ELSE IF i \in lost THEN held[i - 1] ELSE addToLog(held[i - 1], sent[i])
    IN  held[Len(sent)]

\* h shows its last number in gossip and is answered from l.
Answered(h, l) ==
    LET sent == SentFrom(l, getCurrentSeqNum(replica[h]))
    IN  /\ \E lost \in SUBSET (1..Len(sent)) :
              replica' = [replica EXCEPT ![h] = Arriving(@, sent, lost)]
        /\ UNCHANGED published

\* The author answers, with its whole log, the made-up entry that is shown of an
\* empty log; what else is shown was written by itself, and it ignores that.
AnsweredByAuthor(h) ==
    /\ empty(replica[h])
    /\ Answered(h, published)

\* A switch answers that is ahead of h.
AnsweredByHolder(h, k) ==
    /\ getCurrentSeqNum(replica[k]) > getCurrentSeqNum(replica[h])
    /\ Answered(h, replica[k])

Next ==
    \/ \E reached \in SUBSET Holders : Push(reached)
    \/ \E h \in Holders : AnsweredByAuthor(h)
    \/ \E h, k \in Holders : AnsweredByHolder(h, k)

Spec == Init /\ [][Next]_vars

-----------------------------------------------------------------------------

\* Types: a sequence number fits.
TypeOK ==
    /\ \A i \in 1..Len(published.log) : published.log[i].sequenceNum \in (-Half)..(Half - 1)
    /\ \A h \in Holders : replica[h].owner = Author /\ Len(replica[h].log) <= Half

\* Up to half a lap, and so for the first 32768 entries, logs are what
\* CommunicationLog makes of them, and replicas are prefixes (appendLogShell,
\* isSubsequentEntry).
IntegersSuffice ==
    Len(published.log) <= Half =>
        /\ published = AppendLogShells(NewLog(Author),
               [i \in 1..Len(published.log) |-> published.log[i].shell])
        /\ \A h \in Holders : IsPrefix(replica[h].log, published.log)

\* Whatever has wrapped, a replica is a stretch of the published log without a
\* gap, from the start of a lap on: entries of different laps with fitting
\* numbers are never put together, neither by what the author pushes nor by
\* the answers of holders on another lap (isSubsequentEntry).
ReplicaIsStretch ==
    \A h \in Holders :
        \E lap \in 0..(Len(published.log) \div Lap) :
            IsPrefix(replica[h].log, SubSeq(published.log, lap * Lap + 1, Len(published.log)))

\* The index a range is sent from and the current number are places of the
\* log: getEntryAt never throws, though indices are taken from numbers
\* (sendEntryFromIndexTo).
IndicesExist ==
    \A h \in Holders : \A l \in {published} \cup {replica[k] : k \in Holders} :
        LET from == getCurrentSeqNum(replica[h])
        IN  from >= -1 /\ getCurrentSeqNum(l) < Len(l.log)

\* A replica that is full, with half a lap of entries, never changes again: the
\* number after 32767 is stored as -32768 and compared with 32768
\* (getCurrentSeqNum, isSubsequentEntry).
FullReplicasStay ==
    [][\A h \in Holders : Len(replica[h].log) = Half => replica'[h] = replica[h]]_vars
=============================================================================
