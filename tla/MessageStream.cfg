\* Two messages of three kinds, or one that cannot be written, in chunks of any size; a
\* buffer of fixed size holds the longest message and not two of any kind.
SPECIFICATION Spec
CONSTANTS
    Bits = 2
    Message <- Messages
    FlagCount = 3
    NameSize = 4
    CodeSize = 2
    Capacity = 48
    MaxSent = 2
INVARIANTS InOrder InTransit NoneRefused
