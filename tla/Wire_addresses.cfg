CONSTANTS
    Dwords <- EdgeAddresses
    MaxFields = 1
SPECIFICATION Spec
INVARIANT AddressesArrive
CHECK_DEADLOCK FALSE
