SPECIFICATION Spec
CONSTANTS
    Unknown = {"ch32v103"}
    Targets <- MCTargets
    Drafts <- MCDrafts
    None = None
INVARIANTS
    BuildsServeTheirPart
    AcceptedOperates
CHECK_DEADLOCK FALSE
