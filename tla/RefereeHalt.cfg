CONSTANTS
    Stages = {"FIRST_HALF_PRE", "FIRST_HALF", "HALF_TIME"}
    BoxCommands = {"HALT", "STOP"}
    CardKinds = {}
    CardBound = 0
    CounterWidth = 256
    CommandBound = 3
SPECIFICATION FairRefSpec
PROPERTY HaltIsObeyed
