---------------------------- MODULE ReplicatedLogs ----------------------------
(***************************************************************************)
(* What the network promises about logs, whatever its devices, links and   *)
(* packets are: every log has one writer, who only adds to its end; others *)
(* hold copies, which take over what has been written entry by entry, in   *)
(* order and without a gap, and which only some may give up.               *)
(*                                                                         *)
(* A log type is a pair whose first component is the writer.               *)
(***************************************************************************)
EXTENDS Integers, SequencesExt

CONSTANTS
    Nodes,      \* writers and holders
    Droppable   \* pairs <<n, t>>: n may give up its copy of t

VARIABLES
    written,    \* written[t]: what has been written to t, for every log opened
    copies      \* copies[n][t]: what n holds of t, for every copy it has

vars == <<written, copies>>

\* A log that exists from the start holds its opening entry at most.
Init ==
    /\ \A t \in DOMAIN written : Len(written[t]) <= 1
    /\ copies = [n \in Nodes |-> << >>]

\* n opens logs and adds to those it writes.
Write(n) ==
    /\ DOMAIN written \subseteq DOMAIN written'
    /\ \A t \in DOMAIN written' :
          IF t[1] = n THEN t \in DOMAIN written => IsPrefix(written[t], written'[t])
          ELSE t \in DOMAIN written /\ written'[t] = written[t]

\* What a copy of t is after it has been handed one entry: as it was, or one
\* longer.
Handed(copy, t) ==
    {copy} \cup {Append(copy, written[t][i]) : i \in {Len(copy) + 1} \cap DOMAIN written[t]}

\* n is handed an entry of t, the first one or a later one.
Take(n, t) ==
    /\ t \in DOMAIN written
    /\ \E copy \in Handed(IF t \in DOMAIN copies[n] THEN copies[n][t] ELSE << >>, t) :
          copies' = [copies EXCEPT ![n] =
                        [u \in DOMAIN copies[n] \cup {t} |->
                            IF u = t THEN copy ELSE copies[n][u]]]

Drop(n, t) ==
    /\ <<n, t>> \in Droppable
    /\ copies' = [copies EXCEPT ![n] = [u \in DOMAIN copies[n] \ {t} |-> copies[n][u]]]

\* A turn of n: whatever else happens in it, at most one copy changes.
Turn(n) ==
    /\ Write(n)
    /\ \/ UNCHANGED copies
       \/ \E t \in DOMAIN written : Take(n, t)
       \/ \E t \in DOMAIN copies[n] : Drop(n, t)

Next == \E n \in Nodes : Turn(n)

Spec == Init /\ [][Next]_vars
=============================================================================
