SPECIFICATION FairSpec
CONSTANTS
    caster = caster
    replier = replier
    Casters = {caster}
    Replier = replier
    Items <- ListItems
    WireCap = 2
    AdminCap = 1
    MaxAsks = 1
    MaxChanges = 1
    MaxEvents = 2
CHECK_DEADLOCK FALSE
INVARIANTS
    TypeOK
PROPERTIES
    PanelsReal
    PanelsCatchUp
