SPECIFICATION Spec
CONSTANTS
    NONE = NONE
    Ascii <- MCAscii
    Unicode <- MCUnicode
    Malformed <- MCMalformed
    AgeClaim <- Age
    BuiltId <- Built
    FallbackId <- Fallback
    ClaimLists <- MCClaimLists
    Supplied <- MCSupplied
INVARIANTS
    TypeOK
    VerdictIsWellFormedness
    PrecheckedIsServed
    SelectionIsAsked
