SPECIFICATION Spec
CONSTANTS
    Order = 5
    Radix = 2
    Spends <- MCSpends
    Outpoints <- MCOutpoints
    OutputForms <- MCOutputForms
    MaxInputs = 2
    MaxOutputs = 2
CHECK_DEADLOCK FALSE
INVARIANTS
    MatchesSender
    VoutsExact
