SPECIFICATION Spec
CONSTANTS
    replier = replier
    Casters = {}
    caster = caster
    Replier = replier
    Items <- ListItems
    WireCap = 2
    AdminCap = 1
    MaxAsks = 1
    MaxChanges = 1
    MaxEvents = 0
CHECK_DEADLOCK FALSE
INVARIANT BoundariesFound
