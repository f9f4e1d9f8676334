SPECIFICATION Spec
CONSTANTS
    Values = {a, b}
    Undef = Undef
    InitCapacities = {0, 1, 3, 4}
    MaxSize = 6
PROPERTY Implements
