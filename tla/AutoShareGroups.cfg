SPECIFICATION Spec
CONSTANTS
    Users = {alice, bob, carol}
    Groups = {g1}
    Tokens = {t1}
    Nobody = Nobody
    Whole = 2
    Shares = {0, 1, 2}
    MaxMembers = 2
    DefaultFee = 1
    Fees = {2}
    MaxUsages = 1
    MaxPayments = 2
SYMMETRY MCSymmetry
INVARIANTS
    TypeOK
    PaymentsAccounted
    NominationsExplained
