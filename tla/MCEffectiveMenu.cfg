SPECIFICATION Spec
CONSTANTS
    x = x  y = y  a = a  b = b  v = v  p = p  q = q
    Null = Null
    Categories = {x, y}
    Items = {a, b}
    Variations = {v}
    Promotions = {p, q}
    ItemOf <- SizeOf
    Prices = {100, 200}
    Deltas = {10}
    Offers <- MCOffers
    Start <- MCStart
    MaxEdits = 2
    MaxTime = 2

INVARIANT IInv
INVARIANT MenuOfOneMoment
INVARIANT StaysValid

CHECK_DEADLOCK FALSE
