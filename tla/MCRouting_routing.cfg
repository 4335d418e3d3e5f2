CONSTANTS
    Admins = {a1, a2}
    Creators = {c1}
    Providers = {p1, p2}
    Regions = {r1}
    Nodes = {n1, n2}
    Policies = {P1, P2, P3}
    Buckets = {b1}
    NoPolicy = NoPolicy
    NoRegion = NoRegion
    MaxFaults = 1
SYMMETRY Interchangeable
SPECIFICATION Spec
INVARIANTS TypeOK PoliciesInUseLead SpacesFollowTheirProvider RegionsResolve
