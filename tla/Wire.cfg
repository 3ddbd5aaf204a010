\* Two items with long UUIDs, or MaxItems with short ones, make a packet.
SPECIFICATION Spec
CONSTANTS
    Handle <- MCHandle
    Type <- MCType
    ItemUuid <- MCItemUuid
    Value <- MCValue
    Mtu = 44
    MaxItems = 2
INVARIANTS
    TypeOK
    QuestionsAreUnderstood
    AnswersAreUnderstood
