SPECIFICATION Spec
CONSTANTS
    Peers = {"a", "b"}
    First = "a"
    Polite <- OneImpolite
    MaxRestarts = 3
CHECK_DEADLOCK FALSE
INVARIANTS
    RolesAgree
    CandidatesKnown
