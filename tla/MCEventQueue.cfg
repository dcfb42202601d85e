\* One ordered and two invalidation types, a ring of two, seven accepted
\* events: the ring wraps more than twice and fills with both slots occupied.
CONSTANTS
    Ordered = {o1}
    Snapshot = {s1, s2}
    Capacity = 2
    MaxSequence = 7
SPECIFICATION Spec
INVARIANTS
    QueueInv
PROPERTIES
    ImplementsEventLog
