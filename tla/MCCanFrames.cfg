SPECIFICATION Spec
CONSTANTS
    Node = {1, 127}
    Identifier <- MCIdentifier
    Content <- MCContent
INVARIANTS
    FiltersLoseNothing
    OneBoardActs
