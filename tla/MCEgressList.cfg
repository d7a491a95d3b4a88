SPECIFICATION Spec
CONSTANT rx_queue = 5
INVARIANT LinksAgree
PROPERTY ImplementsRing
