SPECIFICATION Spec
CONSTANTS
    t1 = t1
    t2 = t2
    Innovatron = Innovatron
    Tag = {t1, t2, Innovatron}
    RawTag = {Innovatron}
    Type = {"PN532", "PN533"}
INVARIANTS IdleAtRest PresenceWhenListed CrashOnlyOrphaned SamUnlessFailed
CHECK_DEADLOCK FALSE
