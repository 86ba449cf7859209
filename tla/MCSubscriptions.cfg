CONSTANTS
    Subs = {s1, s2}
    NoSub = NoSub
    Packs = {p1, p2}
    Handlers = {h1, h2}
    MaxChanges = 2
SYMMETRY Symmetry
CONSTRAINT OneShop
SPECIFICATION ShopSpec
INVARIANTS
    GrantedOnce
    RightsFromStripe
CHECK_DEADLOCK FALSE
