SPECIFICATION AlgorithmsSpec
CONSTANTS
    Vertices = {0, 1, 2, 3}
    start = 0
    Weights = {1, 3}
    Graphs <- MCGraphs
    NoEdge <- MCNoEdge
    Infinity = 1000
    MaxPath = 4
    NumVertices = 4
    Chars <- MCChars
    MaxText = 6
    MaxPattern = 4
    Texts <- MCTexts
    Patterns <- MCPatterns
    Base = 3
    Mod = 5
    MaxName = 5
    MaxAnswers = 3
INVARIANTS ShortestAtEnd CyclesFound SearchesAgree QuestionReadsBack AddressesFound
PROPERTY FinalWhenPopped
CHECK_DEADLOCK FALSE
