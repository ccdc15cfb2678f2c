SPECIFICATION AnswerSpec
CONSTANTS
    MaxPieces = 4
    MaxDepth = 3
INVARIANTS FoundIsOutermost OneObjectFound ParsersAgree UnattendedOnlyIfStated
CHECK_DEADLOCK FALSE
