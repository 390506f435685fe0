SPECIFICATION Spec
CONSTANTS
    a = a
    b = b
    Texts = {a, b}
    MaxChunks = 4
    BatchTexts = 2
SYMMETRY TextSymmetry
INVARIANTS TypeOK DoneIsExact VectorsMatch SearchableThroughout EmbedsOnlyNew
PROPERTY Reconciles
