CONSTANTS
    a = a
    b = b
    none = none
    Ids = {a, b}
    Groups = {"g"}
    Expiry = 1
    MaxDay = 2
    MaxStarts = 2
    Files = {f1, f2, f3}
    f1 = f1
    f2 = f2
    f3 = f3
    SessionIds = {a, b}
    NoId = none
    MaxFiles = 2
    MaxAge = 1
    MaxWindow = 2
    MaxLen = 4
    Widths = {1, 3}
    MaxHour = 2
    MaxLines = 3
    MaxChars = 5
SPECIFICATION Spec
INVARIANTS OneRowPerSession FileIsOnScreen ActivityIsTrue CutsBetweenCharacters
PROPERTIES NewestFileWins TitleIsSteady
SYMMETRY MCSymmetry
CHECK_DEADLOCK FALSE
