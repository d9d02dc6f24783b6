SPECIFICATION Spec
CONSTANTS
    Elem = {"x", "y"}
    Nil = "nil"
    InitialSize = 4
    MaxLength = 9
PROPERTIES
    ImplementsSequence
