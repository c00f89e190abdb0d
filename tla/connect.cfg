SPECIFICATION FairSpec
CONSTANTS
    NoMode = NoMode
    None = None
    Setups <- MCSetups
    Begins = 3
    Moves = 1
INVARIANTS PlansAgree PromptIsVisible ProgressEnds
PROPERTY CallsEnd
CHECK_DEADLOCK FALSE
