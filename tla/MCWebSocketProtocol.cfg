\* Two frames of every kind and class of length, cut in every way, in both roles.
SPECIFICATION MCSpec
CONSTANTS
    ShortMax = 2
    MediumMax = 5
    MaxLength = 8
    Lengths = {0, 2, 5, 7, 9}
    Opcodes = {"BINARY", "PING", "bad"}
    NumFrames = 2
INVARIANTS
    DeliveredIntact
    BytesReturned
    StatusSurvives
\* The stream ends.
CHECK_DEADLOCK FALSE
