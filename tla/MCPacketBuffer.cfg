SPECIFICATION BufferSpec
CONSTANTS
    Byte = 4
    BaseSize = 4
    HeaderSize = 10
    Kinds <- SmallKinds
    Fields <- SmallFields
    Foreign <- SmallForeign
    Limits <- SmallLimits
    MaxFields = 3
INVARIANTS Bounds RoundTrip AllOfIt AnnouncedLength
CHECK_DEADLOCK FALSE
