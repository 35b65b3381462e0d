SPECIFICATION Spec
CONSTANTS
    Ids <- MCIds
    Users = {alice, root}
    Admin = root
    Contract = Contract
    NotTracked = NotTracked
    Keys <- MCKeys
    KeyOf <- MCKeyOf
    MaxLifetime = 2
    MaxBatch = 2
    MaxTime = 2
    MaxAudit = 3
    MaxDeliveries = 2
INVARIANTS
    TypeOK
    AuditBalance
PROPERTIES
    RevocationFinal
    RemovalExplained
