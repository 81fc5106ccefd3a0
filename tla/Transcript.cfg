SPECIFICATION ListSpec
CONSTANTS
    TextSize = {3}
    ResultSize = {1, 3, 9}
    NoteSize = 2
    MaxResult = 3
    Ceiling = 16
    MaxMessages = 8
INVARIANT
    ShedsInOrder
PROPERTY
    OnlyResultsShed
CHECK_DEADLOCK FALSE
