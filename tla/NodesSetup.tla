------------------------------ MODULE NodesSetup ------------------------------
(***************************************************************************)
(* main and nodesSetup of network.cc up to Simulator::Run: the links of a  *)
(* topology, an application with a key of its own on every node, the error *)
(* model, and who subscribes to whom. Network starts where this ends.      *)
(*                                                                         *)
(* A node is <<kind, index in its container>>. A link is installed as two  *)
(* devices, each the pair of the node it is on and the node it leads to.   *)
(***************************************************************************)
EXTENDS RsaKeys, SequencesExt

CONSTANT Topologies     \* the values of --topo that main sets a network up for

ASSUME TopologiesAreKnown == Topologies \subseteq {"line", "star", "dia"}

VARIABLES
    topology,
    phase,              \* what nodesSetup is doing
    i,                  \* the index of its current loop
    switchToSwitch,     \* NetDeviceContainers: devices in the order installed
    managerToSwitch,
    userToSwitch,
    c,                  \* the global counter of keys given out
    key,                \* key[n]: the public key of the application on n
    lossy,              \* devices with the error model
    ended               \* std::out_of_range was thrown

links == <<switchToSwitch, managerToSwitch, userToSwitch>>

vars == <<keyVars, topology, phase, i, links, c, key, lossy, ended>>

User(n) == <<"user", n>>
Switch(n) == <<"switch", n>>
TheManager == <<"manager", 0>>

\* The arguments main passes.
UserNumbers == IF topology = "dia" THEN 2 ELSE 3
SwitchNumbers == CASE topology = "line" -> 3 [] topology = "star" -> 5 [] topology = "dia" -> 4

UserNodes == {User(n) : n \in 0..(UserNumbers - 1)}
SwitchNodes == {Switch(n) : n \in 0..(SwitchNumbers - 1)}
AllNodes == UserNodes \cup SwitchNodes \cup {TheManager}

\* Mutants: a pair fewer; a pair with the phi of another.
MutFewerPairs ==
    <<<<19, 11>>, <<5, 11>>, <<5, 7>>, <<19, 7>>, <<3, 5>>, <<3, 11>>, <<13, 11>>, <<7, 11>>>>

MutSamePhi ==
    <<<<19, 11>>, <<5, 11>>, <<5, 7>>, <<19, 7>>, <<3, 5>>, <<3, 11>>, <<13, 11>>, <<3, 61>>,
      <<7, 13>>>>

\* Mutant: the pairs of the first two users exchanged.
MutExchangedPairs ==
    <<<<5, 11>>, <<19, 11>>, <<5, 7>>, <<19, 7>>, <<3, 5>>, <<3, 11>>, <<13, 11>>, <<7, 11>>,
      <<7, 13>>>>

primeNumberPairs ==
    <<<<19, 11>>, <<5, 11>>, <<5, 7>>, <<19, 7>>, <<3, 5>>, <<3, 11>>, <<13, 11>>, <<7, 11>>,
      <<7, 13>>>>

Init ==
    /\ KeysInit
    /\ topology \in Topologies
    /\ phase = "link"
    /\ i = 0 /\ c = 0
    /\ switchToSwitch = << >> /\ managerToSwitch = << >> /\ userToSwitch = << >>
    /\ key = << >>
    /\ lossy = {}
    /\ ended = FALSE

-----------------------------------------------------------------------------
(* Links *)

\* p2p.Install, and Add to a container.
Install(x, y) == <<<<x, y>>, <<y, x>>>>

LastSwitch == Switch(SwitchNumbers - 1)

\* Mutant: the loop ends one switch early.
MutChained == SwitchNumbers - 2

\* The switches the loop goes over; in "dia" the last one closes the ring.
Chained == IF topology = "dia" THEN SwitchNumbers - 2 ELSE SwitchNumbers - 1

LinkSwitch ==
    /\ phase = "link"
    /\ i < Chained
    /\ switchToSwitch' = switchToSwitch \o
           Install(Switch(i), IF topology = "star" THEN LastSwitch ELSE Switch(i + 1))
    /\ managerToSwitch' = managerToSwitch \o Install(Switch(i), TheManager)
    /\ i' = i + 1
    /\ UNCHANGED <<keyVars, topology, phase, userToSwitch, c, key, lossy, ended>>

\* Mutant: users are attached as if switches were counted from 1.
MutSwitchOf(n) == Switch(n + 1)

\* The switch a user is attached to.
SwitchOf(n) ==
    CASE topology = "line" -> Switch(n)
      [] topology = "star" -> Switch(<<2, 3, 1>>[n + 1])
      [] topology = "dia" -> Switch(2 * n)

\* What follows the loop. In "dia" the links of the last switch to two others
\* are kept with those of the manager.
LinkRest ==
    /\ phase = "link"
    /\ i >= Chained
    /\ managerToSwitch' = managerToSwitch \o
           (IF topology = "dia"
            THEN Install(Switch(SwitchNumbers - 2), TheManager) \o Install(LastSwitch, TheManager)
                 \o Install(LastSwitch, Switch(0)) \o Install(LastSwitch, Switch(2))
            ELSE Install(LastSwitch, TheManager))
    /\ userToSwitch' =
           Install(User(0), SwitchOf(0)) \o Install(User(1), SwitchOf(1)) \o
           (IF topology = "dia" THEN << >> ELSE Install(User(2), SwitchOf(2)))
    /\ phase' = "user"
    /\ i' = 0
    /\ UNCHANGED <<keyVars, topology, switchToSwitch, c, key, lossy, ended>>

-----------------------------------------------------------------------------
(* Applications: users, then switches, then the manager *)

Kinds == <<"user", "switch", "manager">>

NumberOf(kind) ==
    CASE kind = "user" -> UserNumbers [] kind = "switch" -> SwitchNumbers [] OTHER -> 1

\* primeNumberPairs.at(c): the next application gets the next pair, if any.
TakePair(kind) ==
    /\ phase = kind
    /\ ~ended
    /\ at = "idle"
    /\ i < NumberOf(kind)
    /\ IF c < Len(primeNumberPairs)
       THEN /\ Begin(primeNumberPairs[c + 1][1], primeNumberPairs[c + 1][2])
            /\ UNCHANGED ended
       ELSE ended' = TRUE /\ UNCHANGED keyVars
    /\ UNCHANGED <<topology, phase, i, links, c, key, lossy>>

\* The constructors of User, EthSwitch and Manager generate the key.
MakeKey ==
    /\ KeyStep
    /\ UNCHANGED <<topology, phase, i, links, c, key, lossy, ended>>

AddApplication(kind) ==
    /\ phase = kind
    /\ at = "done"
    /\ key' = [n \in DOMAIN key \cup {<<kind, i>>} |-> IF n = <<kind, i>> THEN e ELSE key[n]]
    /\ at' = "idle"
    /\ i' = i + 1
    /\ c' = c + 1
    /\ UNCHANGED <<phi, e, tmp, a, b, topology, phase, links, lossy, ended>>

NextContainer(k) ==
    /\ phase = Kinds[k]
    /\ i >= NumberOf(Kinds[k])
    /\ phase' = IF k < 3 THEN Kinds[k + 1] ELSE "errors"
    /\ i' = 0
    /\ UNCHANGED <<keyVars, topology, links, c, key, lossy, ended>>

-----------------------------------------------------------------------------
(* Errors, and the calls *)

\* Mutant: one device of each link.
MutSetErrorModel ==
    /\ phase = "errors"
    /\ i < Len(switchToSwitch)
    /\ lossy' = lossy \cup {switchToSwitch[i + 1]}
    /\ i' = i + 2
    /\ UNCHANGED <<keyVars, topology, phase, links, c, key, ended>>

SetErrorModel ==
    /\ phase = "errors"
    /\ i < Len(switchToSwitch)
    /\ lossy' = lossy \cup {switchToSwitch[i + 1]}
    /\ i' = i + 1
    /\ UNCHANGED <<keyVars, topology, phase, links, c, key, ended>>

Run ==
    /\ phase = "errors"
    /\ i >= Len(switchToSwitch)
    /\ phase' = "run"
    /\ UNCHANGED <<keyVars, topology, i, links, c, key, lossy, ended>>

\* "user:39" is subscribed to, and user_apps[1] publishes.
SubscribedAuthor == <<"user", 39>>
Publisher == User(1)

Next ==
    \/ LinkSwitch
    \/ LinkRest
    \/ \E k \in 1..3 : TakePair(Kinds[k]) \/ AddApplication(Kinds[k]) \/ NextContainer(k)
    \/ MakeKey
    \/ SetErrorModel
    \/ Run

\* One thread runs this; it does not stop on its own.
Spec == Init /\ [][Next]_vars /\ WF_vars(Next)

-----------------------------------------------------------------------------

Devices == switchToSwitch \o managerToSwitch \o userToSwitch

\* Types.
TypeOK ==
    /\ topology \in Topologies
    /\ phase \in {"link", "user", "switch", "manager", "errors", "run"}
    /\ ToSet(Devices) \subseteq AllNodes \X AllNodes
    /\ DOMAIN key \subseteq AllNodes
    /\ lossy \subseteq ToSet(switchToSwitch)
    /\ at \in {"idle", "test", "gcd", "done"}
    /\ c \in 0..Len(primeNumberPairs)

\* An author id is the kind of the node and its public key: no two nodes share
\* one, though keys come from a table of primes and depend on phi alone
\* (addApplicationToNodes, generatePublicKey).
IdsAreDistinct ==
    \A n, m \in DOMAIN key : n # m /\ n[1] = m[1] => key[n] # key[m]

\* The table has a pair for every node of every topology (primeNumberPairs.at).
PairsSuffice == ~ended

\* The id the schedule subscribes to, written out as text, is that of the
\* user it makes publish (nodesSetup).
PublisherIsSubscribedTo ==
    phase = "run" => <<Publisher[1], key[Publisher]>> = SubscribedAuthor

\* What Network takes for granted about the links: two nodes share at most one,
\* a user has one, to a switch, the manager has one to every switch, and the
\* switches are connected without it (nodesSetup).
LinksSuitNetwork ==
    phase = "run" =>
        /\ IsInjective(Devices)
        /\ \A u \in UserNodes : \E s \in SwitchNodes :
              \A n \in AllNodes : <<u, n>> \in ToSet(Devices) <=> n = s
        /\ \A n \in AllNodes : <<TheManager, n>> \in ToSet(Devices) <=> n \in SwitchNodes
        /\ \A part \in (SUBSET SwitchNodes) \ {{}, SwitchNodes} :
              \E s \in part, t \in SwitchNodes \ part : <<s, t>> \in ToSet(Devices)

\* What Network takes for granted about losses: none on the links of users and
\* the manager, and on a link between switches in both directions or in none
\* (nodesSetup).
LossesSuitNetwork ==
    phase = "run" =>
        \A d \in lossy : {d[1], d[2]} \subseteq SwitchNodes /\ <<d[2], d[1]>> \in lossy

\* "Add error model for switch to switch links" (network.cc, nodesSetup): in
\* the end every device of every such link has it, whichever container the
\* link is kept in.
SwitchLinksAreLossy ==
    phase = "run" =>
        \A d \in ToSet(Devices) : {d[1], d[2]} \subseteq SwitchNodes => d \in lossy

\* The setup ends, whichever topology is asked for: every loop does, that of
\* gcd for every candidate included.
SetupEnds == <>(phase = "run")
=============================================================================
