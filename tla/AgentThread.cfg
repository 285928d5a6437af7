SPECIFICATION FairSpec
CONSTANTS
    Actions <- MCActions
    MaxCommands = 5
INVARIANTS RunsAccepted
PROPERTIES NotDisplaced Finishes
