SPECIFICATION Spec
CONSTANTS
    Names <- MCNames
    Empty = ""
    Begins <- MCBegins
    Pieces <- MCPieces
    MaxPieces = 5
    MaxHeads = 2
    Bad = Bad
    Bare = Bare
    Glued = Glued
    Away = Away
    Addresses <- MCAddresses
    KeyOrder <- MCKeyOrder
INVARIANTS
    TypeOK
    ServersKept
    DirectivesAttributed
    RedirectsEnd
    LoopsReal
    FirstPortServed
CHECK_DEADLOCK FALSE
