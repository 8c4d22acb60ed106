CONSTANTS
    Commands <- MCCommands
    ArgumentsOf <- MCArgumentsOf
    Options <- MCOptions
    LettersOf <- MCLettersOf
    KeysIn <- MCKeysIn
    Paths <- MCPaths
    Tools <- MCTools
    MaxSize = 5
SPECIFICATION CardSpec
INVARIANTS SegmentsInOrder MarksCoverRisks KnownWordsExplained TransportsAgree DangerIsShown
PROPERTY RiskOnlyGrows
CHECK_DEADLOCK FALSE
