--------------------------- MODULE MCEventCatalog --------------------------
(* EventCatalog in two cases: events created, edited around and looked up;  *)
(* and a client that pages through places while they come and go.           *)
EXTENDS CatalogRefinement, TLC

CONSTANTS p1, p2, p3, c1, c2, x1, l1, g1, seoul, busan

TheAdds    == {p1, p2, p3}
TheCreates == {c1, c2}
TheOneEdit == {x1}
TheLooks   == {l1}
ThePagers  == {g1}
TwoCities  == {seoul, busan}
TheNumbers == {0, 1}
TheHalves  == {-2, 3, 4}
TheRank    == p1 :> 1 @@ p2 :> 2 @@ p3 :> 3
TheSkips   == {0, 1}
TheTakes   == {-1, 0, 1}

\* Two places, one of which is edited, and two events of different sizes at
\* any of them.
EventLoads ==
    [there   : {{}},
     arrive  : {{p1, p2, c1, c2, x1, l1}},
     of      : {f \in [Creates \cup Edits -> {p1, p2}] : f[x1] = p1},
     half    : {h \in [Creates -> HalfQuantities] : h[c1] # h[c2]},
     address : {a \in [Adds -> Addresses] : a[p1].number = 1 /\ a[p3] = a[p1]},
     asked   : [Looks -> Creates]]

\* Two places in one city and a third that is added, anywhere before, between
\* or after them; any of them is edited, and the client pages through them.
PageLoads == UNION {
    [there   : {Adds \ {p}},
     arrive  : {{p, x1, g1}},
     of      : {f \in [Creates \cup Edits -> Adds] : \A c \in Creates : f[c] = p1},
     half    : {[c \in Creates |-> 3]},
     address : {a \in [Adds -> Addresses] : \A q \in Adds : a[q].city = a[p1].city},
     asked   : [Looks -> Creates]] : p \in Adds}

TheLoads == EventLoads \cup PageLoads

\* Sound for safety: no definition or case tells new events, or cities, apart.
Symmetry == Permutations(Creates) \cup Permutations(Cities)
=============================================================================
