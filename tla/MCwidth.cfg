\* Sequence numbers of three bits, for two and a half laps.
CONSTANTS
    Author = author
    Holders = {h1, h2}
    Half = 4
    MaxPushes = 20
SPECIFICATION Spec
INVARIANTS TypeOK IntegersSuffice ReplicaIsStretch IndicesExist
PROPERTIES FullReplicasStay
\* Pushes are bounded.
CHECK_DEADLOCK FALSE
