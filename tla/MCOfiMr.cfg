SPECIFICATION Spec
CONSTANTS
    bank_count = 2
    slab_count = 1
    slab_size = 1
    Handles = {1, 2}
    Messages <- ManyBodies
    Marks <- OneMark
    Faults = {"REG", "CLOSE"}
    MaxAge = 5
INVARIANTS
    RefCountsExact
    SlabsExclusive
    DescriptorsWithinRange
PROPERTY RegistrationPinned
CHECK_DEADLOCK FALSE
