SPECIFICATION Spec
CONSTANTS
    num_untypeds = 2
    arch_timer_caps = 1
    arch_serial_caps = 1
    FirstFree = 6
    CSpaceEnd = 21
    MaxTests = 3
INVARIANTS
    CapsKept
    UntypedsReset
CHECK_DEADLOCK FALSE
