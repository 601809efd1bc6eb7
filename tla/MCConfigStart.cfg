SPECIFICATION Spec
CONSTANTS
    Bits16 = 1
    Bits32 = 2
    AddressBits <- SmallAddresses
    DefaultPort = 0
    DefaultBusy = 1
    Inputs <- EveryInput
INVARIANT WhitelistExact
INVARIANT OptionsNotTruncated
CHECK_DEADLOCK FALSE
