\* Two entries with any contents, over one hop and two.
CONSTANTS
    Author = "user:39"
    LogType = "user:39/user:*"
    Holders = {h1, h2}
    ContentsToPush <- MCContents
    MaxEntries = 2
SPECIFICATION Spec
INVARIANTS ContentSurvives EnvelopeSurvives OnlyTheLastIsAltered
PROPERTIES AlteredReplicasStay
\* Entries are bounded.
CHECK_DEADLOCK FALSE
