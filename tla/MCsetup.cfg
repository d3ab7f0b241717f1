\* Every topology of the program.
CONSTANTS
    Topologies = {"line", "star", "dia"}
SPECIFICATION Spec
INVARIANTS TypeOK IdsAreDistinct PairsSuffice PublisherIsSubscribedTo LinksSuitNetwork LossesSuitNetwork GcdKeepsDivisors KeyIsLargestCoprime
PROPERTIES SetupEnds
\* The setup ends in the simulation.
CHECK_DEADLOCK FALSE
