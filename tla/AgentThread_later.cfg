SPECIFICATION FairSpec
CONSTANTS
    Actions <- MCActions
    MaxCommands = 4
PROPERTY ComeBackLater
