\* The instance of MCHandshake.cfg; a request for a domain name arrives in parts.
CONSTANTS
    ByteMod  = 8
    Capacity = 22
    Accounts <- MCAccounts
    Plans    <- MCPlans
    Retries  = 1
SPECIFICATION Spec
INVARIANT
    NamesAreWhole
