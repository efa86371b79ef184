CONSTANT FrontPanelUsed = TRUE
SPECIFICATION LiveSpec
INVARIANTS
    TypeOK
    HoldMatchesPanel
    ExcursionHoldsPanel
    OnePressPerExcursion
PROPERTIES
    HotIsAnswered
