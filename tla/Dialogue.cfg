SPECIFICATION Spec
CONSTANTS
    h1 = h1 h2 = h2
    g1 = g1 g2 = g2
    v1 = v1 v2 = v2 v3 = v3
    squash = squash tennis = tennis
    c1 = c1 c2 = c2
    t1 = t1
    Handlers = {h1, h2}
    Groups = {g1, g2}
    NoGroup = NoGroup
    HomeGroup = g1
    Venues = {v1, v2, v3}
    NoVenue = NoVenue
    Sports = {squash, tennis}
    DefaultSport = squash
    Courts = {c1, c2}
    Slots = {t1}
    MaxSessions = 2
    MaxWrites = 2
    GroupOf <- MCGroupOf
    CourtsOf <- MCCourtsOf
    Starts <- MCStarts
INVARIANTS
    GamesAreOfOneDialogue
    VenuesStayWhole
SYMMETRY HandlerSymmetry
