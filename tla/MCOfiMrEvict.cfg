SPECIFICATION Spec
CONSTANTS
    bank_count = 2
    slab_count = 1
    slab_size = 1
    Handles = {1}
    Messages <- ManyBodies
    Marks <- NoMarks
    Faults = {}
    MaxAge = 5
INVARIANT DescriptorCovers
CHECK_DEADLOCK FALSE
