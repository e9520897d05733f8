SPECIFICATION FairSpec
CONSTANTS
    Kinds = {"request", "response"}
    Messages <- AllMessages
    MaxMessages = 2
    ToFiles <- Files
    AutoMax = 2
    Total = 4
INVARIANTS TypeOK MessagesAsSent
PROPERTY InputUsedUp
CHECK_DEADLOCK FALSE
