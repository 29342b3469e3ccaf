SPECIFICATION Spec
CONSTANTS
    CarryNum <- Tenth
    MaxSaves = 6
    MaxCopies = 2
CONSTRAINT FewCopies
INVARIANTS TypeOK WalletFollowsRecord CommissionSettles
CHECK_DEADLOCK FALSE
