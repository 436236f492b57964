SPECIFICATION Spec
CONSTANTS
    NewLine = NewLine
    Junk = Junk
    Byte = {NewLine, Letter}
    Texts <- MCTexts
    Sizes = {1, 2, 4}
    MaxSize = 6
INVARIANT TypeOK
PROPERTY ImplementsQueue KeepsAll LinesWhole
