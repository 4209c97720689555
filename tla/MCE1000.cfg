SPECIFICATION Spec
CONSTANTS
    RING = 3
    Frames = {"f", "g"}
    NoFrame = "none"
PROPERTIES
    SendsInOrder
    ReceivesInOrder
    SendReturnsUnlessLapped
CHECK_DEADLOCK FALSE
