SPECIFICATION Spec
CONSTANTS
    u1 = u1
    u2 = u2
    t1 = t1
    t2 = t2
    None = None
    Users = {u1, u2}
    Owner = u1
    Members = {}
    Tabs = {t1, t2}
    OutboxLimit = 2
    Plans <- MCPlans
CHECK_DEADLOCK FALSE
INVARIANTS
    PageIsHonest
    CommentKept
PROPERTIES
    NoBlindOverwrite
