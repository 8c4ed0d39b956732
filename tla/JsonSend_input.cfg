SPECIFICATION FairSpec
CONSTANTS
    Senders = {s1, s2, s3}
    Parts = 2
    Room = 1
INVARIANTS
    CutValueEndsInput
    SentIsRelayed
PROPERTIES
    CanceledSendReturns
    KeepsInput
CHECK_DEADLOCK FALSE
