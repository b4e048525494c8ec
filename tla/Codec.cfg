CONSTANTS
    Keys <- MCKeys
    Messages <- MCMessages
SPECIFICATION Spec
INVARIANTS RoundTrip NothingInClear KnownAnswers
