------------------------------ MODULE PrintedLog ------------------------------
(***************************************************************************)
(* A published log and its replicas as they come through packets: every    *)
(* entry is printed, sent, parsed and checked (CommunicationLog), and sent *)
(* on from a replica the same way. This shows which contents the format    *)
(* carries, and what the hash chain makes of the others.                   *)
(*                                                                         *)
(* An entry's content is kept as its printed text, which is what           *)
(* createHash hashes and all that a replica sends on.                      *)
(***************************************************************************)
EXTENDS ShellCodec, CommunicationLog

CONSTANTS
    Author, LogType,
    Holders,        \* devices with a replica
    ContentsToPush, \* contents the author may append
    MaxEntries

IsText(text) == text \in Seq(ToSet(text))

\* An id and a log type hold no delimiter, and contents are made of texts.
ASSUME NamesAreWords == {<<Author>>, <<LogType>>} \cap {Bar, Eq, Open, Close} = {}

ASSUME ContentsAreTexts ==
    \A content \in ContentsToPush :
        IsText(content.function) /\ IsText(content.params) /\ IsText(content.contMessage)

VARIABLES published, replica

vars == <<published, replica>>

Init ==
    /\ published = NewLog(Author)
    /\ replica = [h \in Holders |-> NewLog(Author)]

Packet(entry, flag) == [type |-> LogType, flag |-> flag, shell |-> entry]

\* createPacket, readPacket and Parser::shell.
Sent(entry, flag) == helpFunction(PrintNet(Packet(entry, flag)))

Push(content) ==
    /\ Len(published.log) < MaxEntries
    /\ published' = appendLogShell(published, PrintContent(content))
    /\ UNCHANGED replica

\* An entry of l reaches h, whichever, for the first time or again.
Deliver(l, h) ==
    \E i \in 1..Len(l.log) :
        /\ replica' = [replica EXCEPT ![h] = addToLog(@, Sent(l.log[i], 0).shell)]
        /\ UNCHANGED published

Next ==
    \/ \E content \in ContentsToPush : Push(content)
    \/ \E h \in Holders : Deliver(published, h)
    \/ \E h, k \in Holders : Deliver(replica[k], h)

Spec == Init /\ [][Next]_vars

-----------------------------------------------------------------------------

\* Everything but the content of an entry arrives as it was sent, whatever the
\* content is: words of the format and parentheses in it do not upset the
\* shells around it (helpFunction).
EnvelopeSurvives ==
    \A i \in 1..Len(published.log) : \A flag \in {0, 1} :
        LET packet == Packet(published.log[i], flag)
        IN  [Sent(published.log[i], flag) EXCEPT !.shell.shell = packet.shell.shell] = packet

\* A printed content with no delimiters but its own.
IsPlain(text) == Cardinality(Positions(text, Bar)) = 2 /\ Cardinality(Positions(text, Eq)) = 4

\* A content arrives as well when it holds no delimiter, as those of the program
\* do not: parentheses, balanced or not, empty texts and words of the format do
\* no harm (Printer, Parser).
ContentSurvives ==
    \A i \in 1..Len(published.log) :
        LET entry == published.log[i]
        IN  IsPlain(entry.shell) => Sent(entry, 0).shell = entry

IsAltered(l) == l.log # <<>> /\ l.log[Len(l.log)] # published.log[Len(l.log)]

\* What a replica holds is what was published, but for the content of its last
\* entry at most, over one hop or several: the hash in the next entry gives an
\* altered content away (createHash, isSubsequentEntry).
OnlyTheLastIsAltered ==
    \A h \in Holders :
        /\ Len(replica[h].log) <= Len(published.log)
        /\ \A i \in 1..(Len(replica[h].log) - 1) : replica[h].log[i] = published.log[i]

\* Then the replica takes no further entry, and nothing corrects it
\* (isSubsequentEntry).
AlteredReplicasStay ==
    [][\A h \in Holders : IsAltered(replica[h]) => replica'[h] = replica[h]]_vars
=============================================================================
