\* Every database a command may meet, both modes of the server, three cuts.
CONSTANTS
    MaxCuts = 3
SPECIFICATION Spec
INVARIANTS KeysNeverBreak UnknownSchemaUntouched
PROPERTIES SuccessIsWhole
