SPECIFICATION Spec
CONSTANTS
    Junk = Junk
    Zero = Zero
    Obj1 = Obj1
    Obj2 = Obj2
    Values = {Obj1, Obj2}
    Few = {Obj1}
    ListSize = 3
    Increment = 1
    Limit = 4
    AlignBy = 2
    MaxSize = 2
    Round = 2
    PoolLimit = 3
    Names = {1, 2}
    Texts <- MCTexts
    LongTexts <- MCLongTexts
    Chars = {Obj1}
    Parts <- MCParts
    AllocateSpace1 = 1
    AllocateSpace2 = 1
    FormatLength = 3
    Prefix = 2
    LengthMax = 3
    MaxIndex = 1
    MaxLen = 3
    BufferLimit = 9
    LongBufferLimit = 18
INVARIANTS TypeOK StringsKept
PROPERTIES ImplementsCollection KeepsRecordsInOrder
CHECK_DEADLOCK FALSE
