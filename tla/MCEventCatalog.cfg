SPECIFICATION Spec
CONSTANTS
    p1 = p1
    p2 = p2
    p3 = p3
    c1 = c1
    c2 = c2
    x1 = x1
    l1 = l1
    g1 = g1
    seoul = seoul
    busan = busan
    Absent = Absent
    Adds <- TheAdds
    Creates <- TheCreates
    Edits <- TheOneEdit
    Looks <- TheLooks
    Pagers <- ThePagers
    Loads <- TheLoads
    Cities <- TwoCities
    Numbers <- TheNumbers
    HalfQuantities <- TheHalves
    PageSize = 2
    Rank <- TheRank
    Skips <- TheSkips
    Takes <- TheTakes
CHECK_DEADLOCK FALSE
SYMMETRY Symmetry
INVARIANTS EventComplete CountThenList PagesComplete
PROPERTIES ImplementsCatalogue
