------------------------------ MODULE MCNetwork ------------------------------
(* Small instances of Network: topologies of network.cc and schedules. *)
EXTENDS NetworkRefinement

CONSTANTS u1, u2, u3, s1, s2, s3, m

Both(links) == links \cup {<<l[2], l[1]>> : l \in links}

\* "line" with two switches: user i is attached to switch i.
Line2 == Both({<<s1, s2>>, <<s1, m>>, <<s2, m>>, <<u1, s1>>, <<u2, s2>>})
Line2Lossy == Both({<<s1, s2>>})

\* "line" with three switches.
Line3 == Both({<<s1, s2>>, <<s2, s3>>, <<s1, m>>, <<s2, m>>, <<s3, m>>,
               <<u1, s1>>, <<u2, s2>>, <<u3, s3>>})

Line3Lossy == Both({<<s1, s2>>, <<s2, s3>>})

\* The ring of "dia", closed after three switches, with a user at each.
Ring3Users == Both({<<s1, s2>>, <<s2, s3>>, <<s3, s1>>, <<s1, m>>, <<s2, m>>, <<s3, m>>,
                    <<u1, s1>>, <<u2, s2>>, <<u3, s3>>})

NoLinks == {}
NoCalls == {}
OneReader == {<<u1, u2>>}
SecondReader == {<<u2, u3>>}
EachOther == {<<u1, u2>>, <<u2, u1>>}
TwoReaders == {<<u1, u3>>, <<u2, u3>>}
ThreeReads == {<<u1, u2>>, <<u1, u3>>, <<u2, u3>>}
Push(u, n) == [v \in Users |-> IF v = u THEN n ELSE 0]
NoPush == Push(u2, 0)
OnePush2 == Push(u2, 1)
TwoPushes2 == Push(u2, 2)
OnePush3 == Push(u3, 1)
TwoPushes3 == Push(u3, 2)

\* Requests to join that reach a user before it has started are read at once.
\* Reading one changes nothing but its link and enables nothing but the
\* users' start, so no order of other steps is lost.
MissedFirst ==
    (\E l \in Links : l[2] \in Users \ started /\ channel[l] # << >>
                     /\ Switches \subseteq started)
        => channel' # channel /\ \E l \in Links : l[2] \in Users \ started
                                              /\ Len(channel'[l]) < Len(channel[l])

\* The switches are registered in one order: the orders differ in the order
\* of the members alone.
JoinedInOrder == IsPrefix(familyMembers'[m], <<s1, s2, s3>>)

\* A bound: where the second reader of u3 joins in, to leave again, nothing is
\* lost and no gossip round is run, before or after.
SecondReaderUndisturbed ==
    SecondReader \cap agenda'.subscribe = {}
        => agenda'.loss = MaxLosses /\ agenda'.gossip = MaxGossips
=============================================================================
