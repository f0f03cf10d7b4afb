SPECIFICATION Spec
CONSTANTS
    d1 = d1
    d2 = d2
    d3 = d3
    b1 = b1
    t1 = t1
    t2 = t2
    h1 = h1
    h2 = h2
    h3 = h3
    n1 = n1
    n2 = n2
    NoRun = NoRun
    Ips = {h1, h2, h3}
    Table <- MCTable
    AddressOf <- MCAddressOf
    InterfaceSubnets <- MCSubnets
    HomeOf <- MCHomeOf
    Matching <- MCMatching
    Presences <- MCPresences
    Views <- MCViews
    Lists <- MCLists
    Selections <- MCSelections
    Builds = {b1}
    Discoveries = {t1, t2}
CHECK_DEADLOCK FALSE
INVARIANTS TypeOK OneSurplusRowPerRun OneEdgeEachWay FoundIsDrawn
PROPERTIES ImplementsGraph
