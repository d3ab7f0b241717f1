\* The error model on the links between switches.
CONSTANTS
    Topologies = {"line", "star", "dia"}
SPECIFICATION Spec
INVARIANTS SwitchLinksAreLossy
\* The setup ends in the simulation.
CHECK_DEADLOCK FALSE
