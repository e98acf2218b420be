SPECIFICATION Spec
CONSTANTS
    s1 = s1
    s2 = s2
    Senders = {s1, s2}
    MaxCalls = 2
INVARIANTS
    TagsLive
