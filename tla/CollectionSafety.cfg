CONSTANTS
    Heading <- Headings
    MaxLines = 6
SPECIFICATION Spec
INVARIANTS OwnValuesWin RowsMatchPorts NoPartialTable FailureIsNamed
PROPERTY CallEnds
CHECK_DEADLOCK FALSE
