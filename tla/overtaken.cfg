SPECIFICATION Spec
CONSTANTS
    o1 = o1
    o2 = o2
    entity = entity
    relation = relation
    c1 = c1
    c2 = c2
    None = none
    Obs = {o1, o2}
    Atts = {1, 2}
    Entities = {entity}
    Relations = {relation}
    About <- Touches
    Callers = {c1, c2}
    MaxCrashes = 1
    MaxFailures = 1

INVARIANT LagIsAlwaysOwed
