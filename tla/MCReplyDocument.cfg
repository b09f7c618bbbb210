SPECIFICATION ReplySpec
CONSTANTS
    Sizes = {0, 5}
    Replies = {0, 3}
    Buffers = {1, 2}
    Keys = {"a", "b"}
    Subkeys = {"x", "y"}
    Texts <- SomeTexts
    MaxItems = 2
INVARIANTS UploadExact WholeReply NullOrigin
PROPERTY LeavesOthers
CHECK_DEADLOCK FALSE
