SPECIFICATION Spec
CONSTANTS
    north = north  south = south  n1 = n1  s1 = s1
    admin = admin  regional = regional  manager = manager  shift = shift
    e1 = e1  e2 = e2  ea = ea  er = er  em = em  es = es
    q1 = q1  q2 = q2  q3 = q3
    Regions = {north, south}
    Restaurants = {n1, s1}
    RegionOf <- Places
    None = None
    Seeded = {regional, manager, shift}
    Staff <- Team
    Emails = {er, em, es}
    Requests = {q1, q2, q3}
    Kinds <- Managing
    NewUsers = {}
    Removals = {}
    MaxFaults = 1

INVARIANT OldPasswordDead
PROPERTY WritesSound

CHECK_DEADLOCK FALSE
