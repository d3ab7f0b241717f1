-------------------------- MODULE CommunicationLog --------------------------
(***************************************************************************)
(* The append-only log of CommunicationLog.h/.cc and the shells of         *)
(* shells/LogStructures.h that it stores.                                  *)
(*                                                                         *)
(* Data that no decision of the code looks at is dropped: timestamps, the  *)
(* reader a log is dedicated to and the printed message of a content       *)
(* shell, except for the push counter the message of a pushContent shell   *)
(* carries, which is what makes two pushes of one author different.        *)
(*                                                                         *)
(* Sequence numbers are integers here; the int16_t the code stores them in *)
(* only matters from the 32768th entry of one log on.                      *)
(***************************************************************************)
EXTENDS Integers, FiniteSets, SequencesExt

-----------------------------------------------------------------------------
(* Shells *)

\* ContentShell: a function name, its argument and the pushed payload.
ContentShell(function, params, msg) ==
    [function |-> function, params |-> params, contMessage |-> msg]

\* createHash: SHA-1 over the printed CONTENT shell of an entry, and over
\* nothing else of it. Taken as injective; the empty string is <<>>.
NoHash == <<>>
createHash(entry) == <<entry.shell>>

\* RsaSignature: sign(seq) is pow(seq, 1/e), verify is pow(signature, e)
\* rounded. It covers the sequence number alone; the empty string, which no
\* number can be read from, is <<>>.
NoSignature == <<>>
sign(seq) == <<seq>>
verify(signature, seq) == signature = <<seq>>

\* LogShell: the entry a log holds.
LogShell(seq, prevHash, author, signature, content) ==
    [sequenceNum |-> seq, prevEventHash |-> prevHash, authorId |-> author,
     signature |-> signature, shell |-> content]

-----------------------------------------------------------------------------
(* Reading a log *)

NewLog(owner) == [owner |-> owner, log |-> <<>>]

empty(l) == l.log = <<>>

getLastEntry(l) == l.log[Len(l.log)]

getCurrentSeqNum(l) == IF empty(l) THEN -1 ELSE getLastEntry(l).sequenceNum

-----------------------------------------------------------------------------
(* Writing a log *)

\* The owner appends contents one after the other with appendLogShell: every
\* entry gets the next number, the hash of the entry before it and the
\* owner's signature.
AppendLogShells(l, contents) ==
    LET cur == getCurrentSeqNum(l)
        PrevHash(i) == IF i > 1 THEN <<contents[i - 1]>>
                       ELSE IF empty(l) THEN NoHash
                       ELSE createHash(getLastEntry(l))
    IN  [l EXCEPT !.log = @ \o
            [i \in 1..Len(contents) |->
                LogShell(cur + i, PrevHash(i), l.owner, sign(cur + i), contents[i])]]

appendLogShell(l, content) == AppendLogShells(l, <<content>>)

\* The content initialiseLog writes as entry 0 (its argument is "").
InitialContent(none) == ContentShell("", none, 0)

\* isSubsequentEntry throws std::invalid_argument on an entry that carries no
\* signature: stod has no number to read. Nothing catches it.
Unparsable(entry) == entry.signature = NoSignature

\* Mutants of isSubsequentEntry: no continuity check; no hash check; any first
\* entry.
MutNoContinuity(l, entry) ==
    \/ empty(l) /\ entry.sequenceNum = 0
    \/ /\ ~empty(l)
       /\ l.owner = entry.authorId
       /\ verify(entry.signature, entry.sequenceNum)

MutNoHash(l, entry) ==
    \/ empty(l) /\ entry.sequenceNum = 0
    \/ /\ ~empty(l)
       /\ getCurrentSeqNum(l) + 1 = entry.sequenceNum
       /\ l.owner = entry.authorId
       /\ verify(entry.signature, entry.sequenceNum)

MutAnyFirstEntry(l, entry) ==
    \/ empty(l)
    \/ /\ ~empty(l)
       /\ getCurrentSeqNum(l) + 1 = entry.sequenceNum
       /\ createHash(getLastEntry(l)) = entry.prevEventHash
       /\ l.owner = entry.authorId
       /\ verify(entry.signature, entry.sequenceNum)

\* A first entry is only asked for number 0; a later one must continue the
\* log, link to its last entry, come from the owner and verify.
isSubsequentEntry(l, entry) ==
    \/ empty(l) /\ entry.sequenceNum = 0
    \/ /\ ~empty(l)
       /\ getCurrentSeqNum(l) + 1 = entry.sequenceNum
       /\ createHash(getLastEntry(l)) = entry.prevEventHash
       /\ l.owner = entry.authorId
       /\ verify(entry.signature, entry.sequenceNum)

addToLog(l, entry) ==
    IF isSubsequentEntry(l, entry) THEN [l EXCEPT !.log = Append(@, entry)] ELSE l
=============================================================================
