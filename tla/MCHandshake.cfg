\* Bytes of 8 values, so that a greeting can fill a byte's count; a buffer that
\* messages sent in haste can fill.
CONSTANTS
    ByteMod  = 8
    Capacity = 22
    Accounts <- MCAccounts
    Plans    <- MCPlans
    Retries  = 1
SPECIFICATION FairSpec
INVARIANTS
    TypeOK
    ServedOnlyWhenTold
    UnderstoodAsMeant
    CutRequestsAreNotMisdirected
PROPERTIES
    RegularClientsAreServed
