------------------------ MODULE EventCatalogProofs -------------------------
(* The safety of EventCatalog, for any requests, addresses and quantities.  *)
EXTENDS CatalogRefinement, FiniteSetTheorems, TLAPS

\* mapTicketData numbers the rows from 1 without a gap, up to the quantity.
LEMMA SeatNumbersRange ==
    ASSUME NEW c \in Creates, half[c] \in Int
    PROVE  /\ SeatNumbers(c) \subseteq Nat
           /\ \A n \in SeatNumbers(c) : /\ n >= 1 /\ 2 * (n - 1) < half[c]
                                        /\ n > 1 => n - 1 \in SeatNumbers(c)
           /\ half[c] > 0 => \E n \in SeatNumbers(c) : 2 * n >= half[c]
<1>1. SeatNumbers(c) = {n \in Nat : n >= 1 /\ 2 * (n - 1) < half[c]}
    <2>1. ASSUME NEW n \in SeatNumbers(c) PROVE n \in Nat /\ n >= 1 /\ 2 * (n - 1) < half[c]
        BY <2>1 DEF SeatNumbers
    <2>2. ASSUME NEW n \in Nat, n >= 1, 2 * (n - 1) < half[c] PROVE n \in SeatNumbers(c)
        <3>1. n - 1 \in 0 .. half[c] /\ (n - 1) + 1 = n BY <2>2
        <3> QED BY <2>2, <3>1 DEF SeatNumbers
    <2> QED BY <2>1, <2>2
<1>2. ASSUME half[c] > 0 PROVE \E n \in SeatNumbers(c) : 2 * n >= half[c]
    <2>1. PICK k \in Nat : half[c] = 2 * k \/ half[c] = 2 * k - 1
        <3>1. half[c] \in Nat BY <1>2
        <3>2. \E k \in Nat : half[c] = 2 * k \/ half[c] = 2 * k - 1
            <4>1. half[c] = 2 * ((half[c] + 1) \div 2) \/ half[c] = 2 * ((half[c] + 1) \div 2) - 1
                BY <3>1
            <4>2. (half[c] + 1) \div 2 \in Nat BY <3>1
            <4> QED BY <4>1, <4>2
        <3> QED BY <3>2
    <2>2. k \in SeatNumbers(c) /\ 2 * k >= half[c] BY <1>1, <1>2, <2>1
    <2> QED BY <2>2
<1> QED BY <1>1, <1>2

LEMMA SeatNumbersFinite ==
    ASSUME NEW c \in Creates, half[c] \in Int
    PROVE  IsFiniteSet(SeatNumbers(c)) /\ Cardinality(SeatNumbers(c)) \in Nat
<1>1. SeatNumbers(c) \subseteq 0 .. half[c] + 1 BY DEF SeatNumbers
<1>2. IsFiniteSet(0 .. half[c] + 1) BY FS_Interval
<1> QED BY <1>1, <1>2, FS_Subset, FS_CardinalityType

---------------------------------------------------------------------------
(* The order of the rows, and the pages cut from it.                       *)

LEMMA IndexType ==
    ASSUME NEW rows \in SUBSET Adds, NEW p, NEW take
    PROVE  /\ IsFiniteSet(rows) /\ Cardinality(rows) \in Nat
           /\ IsFiniteSet(Before(rows, p, take)) /\ Index(rows, p, take) \in Nat
<1>1. IsFiniteSet(rows) BY CatalogAssumption, FS_Subset
<1>2. Before(rows, p, take) \in SUBSET rows BY DEF Before
<1>3. IsFiniteSet(Before(rows, p, take)) BY <1>1, <1>2, FS_Subset
<1> QED BY <1>1, <1>3, FS_CardinalityType DEF Index

\* Rows that go do not move the others back.
LEMMA IndexMonotone ==
    ASSUME NEW more \in SUBSET Adds, NEW rows \in SUBSET more, NEW p, NEW take
    PROVE  Index(rows, p, take) <= Index(more, p, take)
<1>1. Before(rows, p, take) \in SUBSET Before(more, p, take) BY DEF Before
<1> QED BY <1>1, IndexType, FS_Subset DEF Index

LEMMA IndexBelow ==
    ASSUME NEW rows \in SUBSET Adds, NEW p \in rows, NEW take \in Int
    PROVE  Index(rows, p, take) < Cardinality(rows)
<1>1. Rank[p] \in Nat BY CatalogAssumption
<1>2. Before(rows, p, take) \in SUBSET (rows \ {p}) BY <1>1 DEF Before
<1>3. IsFiniteSet(rows) /\ Cardinality(rows) \in Nat BY IndexType
<1>4. IsFiniteSet(rows \ {p}) /\ Cardinality(rows \ {p}) = Cardinality(rows) - 1
    BY <1>3, FS_RemoveElement
<1>5. Index(rows, p, take) <= Cardinality(rows \ {p}) BY <1>2, <1>4, FS_Subset DEF Index
<1> QED BY <1>3, <1>4, <1>5, IndexType

\* Of two rows one is before the other, which has a greater index.
LEMMA IndexInjective ==
    ASSUME NEW rows \in SUBSET Adds, NEW p \in rows, NEW q \in rows, NEW take \in Int,
           Index(rows, p, take) = Index(rows, q, take)
    PROVE  p = q
<1>1. \A x \in Adds : Rank[x] \in Nat BY CatalogAssumption
<1>2. ASSUME NEW a \in rows, NEW b \in rows, a \in Before(rows, b, take)
      PROVE  Index(rows, a, take) # Index(rows, b, take)
    <2>1. Before(rows, a, take) \in SUBSET Before(rows, b, take)
        BY <1>1, <1>2 DEF Before
    <2>2. a \notin Before(rows, a, take) BY <1>1 DEF Before
    <2> QED BY <1>2, <2>1, <2>2, IndexType, FS_Subset DEF Index
<1>3. Rank[p] = Rank[q] => p = q BY CatalogAssumption
<1>4. p # q => p \in Before(rows, q, take) \/ q \in Before(rows, p, take)
    BY <1>1, <1>3 DEF Before
<1> QED BY <1>2, <1>4

\* The indices of the rows leave no gap.
LEMMA IndexOnto ==
    ASSUME NEW rows \in SUBSET Adds, NEW take \in Int, NEW k \in Nat, k < Cardinality(rows)
    PROVE  \E p \in rows : Index(rows, p, take) = k
<1> DEFINE n == Cardinality(rows)
           f == [p \in rows |-> Index(rows, p, take)]
<1>1. n \in Nat BY IndexType
<1>2. \A p \in rows : f[p] \in Nat /\ f[p] < n BY IndexType, IndexBelow
<1>3. \A p, q \in rows : f[p] = f[q] => p = q BY IndexInjective
<1>4. f \in Injection(rows, 0 .. n - 1)
    <2>1. f \in [rows -> 0 .. n - 1] BY <1>1, <1>2
    <2> QED BY <1>3, <2>1 DEF Injection, IsInjective
<1>5. IsFiniteSet(0 .. n - 1) /\ Cardinality(0 .. n - 1) = n
    <2> HIDE DEF n
    <2>1. 0 \in Int /\ n - 1 \in Int BY <1>1
    <2>2. /\ IsFiniteSet(0 .. n - 1)
          /\ Cardinality(0 .. n - 1) = IF 0 > n - 1 THEN 0 ELSE n - 1 - 0 + 1
        BY ONLY <2>1, FS_Interval
    <2> QED BY <1>1, <2>2
<1>6. f \in Surjection(rows, 0 .. n - 1) BY <1>4, <1>5, FS_Injection
<1>7. k \in 0 .. n - 1 BY <1>1
<1> QED BY <1>6, <1>7 DEF Surjection

\* A page is never longer than asked for.
LEMMA PageBound ==
    ASSUME NEW rows \in SUBSET Adds, NEW from \in Nat, NEW take \in Int
    PROVE  LET page == Page(rows, from, take)
           IN  /\ IsFiniteSet(page) /\ Cardinality(page) \in Nat
               /\ Cardinality(page) <= Size(take) /\ Size(take) \in Nat \ {0}
<1> DEFINE page == Page(rows, from, take)
           size == Size(take)
           f == [p \in page |-> Index(rows, p, take)]
<1>1. size \in Nat \ {0} BY CatalogAssumption DEF Size
<1>2. page \in SUBSET rows BY DEF Page
<1>3. IsFiniteSet(page) /\ Cardinality(page) \in Nat
    BY <1>2, IndexType, FS_Subset, FS_CardinalityType
<1>4. \A p \in page : f[p] \in Nat /\ from <= f[p] /\ f[p] < from + size
    BY <1>2, IndexType DEF Page
<1>5. \A p, q \in page : f[p] = f[q] => p = q BY <1>2, IndexInjective
<1>6. f \in Injection(page, from .. from + size - 1)
    <2>1. f \in [page -> from .. from + size - 1] BY <1>1, <1>4
    <2> QED BY <1>5, <2>1 DEF Injection, IsInjective
<1>7. /\ IsFiniteSet(from .. from + size - 1)
      /\ Cardinality(from .. from + size - 1) = size
    <2> HIDE DEF size
    <2>1. from \in Int /\ from + size - 1 \in Int BY <1>1
    <2>2. LET to == from + size - 1
          IN  /\ IsFiniteSet(from .. to)
              /\ Cardinality(from .. to) = IF from > to THEN 0 ELSE to - from + 1
        BY ONLY <2>1, FS_Interval
    <2> QED BY <1>1, <2>2
<1>8. Cardinality(page) <= size BY <1>6, <1>7, FS_Injection
<1> QED BY <1>1, <1>3, <1>8

\* The rows of a page are the next ones: their indices leave no gap either.
LEMMA PageContiguous ==
    ASSUME NEW rows \in SUBSET Adds, NEW from \in Nat, NEW take \in Int,
           NEW p \in Page(rows, from, take)
    PROVE  Index(rows, p, take) < from + Cardinality(Page(rows, from, take))
<1> DEFINE page == Page(rows, from, take)
           last == Index(rows, p, take)
           head == {q \in page : Index(rows, q, take) <= last}
           f == [q \in head |-> Index(rows, q, take)]
<1>1. last \in Nat /\ from <= last /\ last < from + Size(take) /\ p \in rows
    BY IndexType DEF Page
<1>2. Cardinality(rows) \in Nat /\ last < Cardinality(rows) BY <1>1, IndexType, IndexBelow
<1>3. /\ IsFiniteSet(page) /\ Cardinality(page) \in Nat /\ Size(take) \in Nat
    BY PageBound
<1>4. IsFiniteSet(head) /\ Cardinality(head) \in Nat /\ Cardinality(head) <= Cardinality(page)
    <2>1. head \in SUBSET page OBVIOUS
    <2> QED BY <1>3, <2>1, FS_Subset, FS_CardinalityType
<1>5. ASSUME NEW k \in from .. last PROVE \E q \in head : f[q] = k
    <2>1. k \in Nat /\ k < Cardinality(rows) /\ k <= last BY <1>1, <1>2
    <2>2. PICK q \in rows : Index(rows, q, take) = k BY <2>1, IndexOnto
    <2>3. q \in page BY <1>1, <1>3, <2>1, <2>2 DEF Page
    <2> QED BY <2>1, <2>2, <2>3
<1>6. f \in [head -> from .. last]
    <2>1. \A q \in head : q \in rows /\ from <= Index(rows, q, take) BY DEF Page
    <2>2. \A q \in head : Index(rows, q, take) \in Nat BY IndexType
    <2> QED BY <1>1, <2>1, <2>2
<1>7. f \in Surjection(head, from .. last) BY <1>5, <1>6 DEF Surjection
<1>8. Cardinality(from .. last) <= Cardinality(head) BY <1>4, <1>7, FS_Surjection
<1>9. Cardinality(from .. last) = last - from + 1 BY <1>1, FS_Interval
<1> QED BY <1>1, <1>3, <1>4, <1>8, <1>9

\* After an empty page there is no row.
LEMMA PageEmpty ==
    ASSUME NEW rows \in SUBSET Adds, NEW from \in Nat, NEW take \in Int,
           Page(rows, from, take) = {}, NEW p \in rows
    PROVE  Index(rows, p, take) < from
<1> SUFFICES ASSUME from <= Index(rows, p, take) PROVE FALSE BY IndexType
<1>1. from < Cardinality(rows) BY IndexType, IndexBelow
<1>2. PICK q \in rows : Index(rows, q, take) = from BY <1>1, IndexOnto
<1>3. Size(take) \in Nat \ {0} BY PageBound
<1>4. q \in Page(rows, from, take) BY <1>2, <1>3 DEF Page
<1> QED BY <1>4

---------------------------------------------------------------------------
(* The inductive invariant.                                                *)

LEMMA InitIInv == Init => CatalogIInv
<1> SUFFICES ASSUME Init PROVE CatalogIInv OBVIOUS
<1>1. PICK load \in Loads :
          /\ pc = [r \in Requests |-> IF r \in load.arrive THEN "new" ELSE "done"]
          /\ places = load.there /\ of = load.of /\ half = load.half
          /\ address = load.address /\ asked = load.asked
    BY DEF Init
<1>2. /\ places \subseteq Adds /\ of \in [Creates \cup Edits -> Adds]
      /\ half \in [Creates -> HalfQuantities] /\ address \in [Adds -> Addresses]
      /\ asked \in [Looks -> Creates]
    BY <1>1, CatalogAssumption
<1>3. TypeOK
    BY <1>1, <1>2 DEF Init, TypeOK, OpenTx
<1>4. Steps /\ Rows /\ PlaceOfEvent /\ Seen /\ CountThenList
    BY <1>1, <1>2, CatalogAssumption DEF Init, Steps, Rows, PlaceOfEvent, Seen, CountThenList,
        Requests, OpenTx
<1>5. PagesBegin /\ PagesAhead /\ PagesComplete
    BY <1>1, CatalogAssumption DEF Init, PagesBegin, PagesAhead, PagesComplete, Requests
<1> QED BY <1>3, <1>4, <1>5 DEF CatalogIInv

LEMMA TypeStep == CatalogIInv /\ [Next]_vars => TypeOK'
<1> SUFFICES ASSUME CatalogIInv, [Next]_vars PROVE TypeOK' OBVIOUS
<1> USE CatalogAssumption DEF CatalogIInv, TypeOK, Steps, Goto, Answer, Requests, OpenTx, inputs,
        placeVars, eventVars, lookVars, pageVars
<1>s. ASSUME Shift
      PROVE  /\ UNCHANGED <<query, got, skip, due>>
             /\ came' \subseteq Pagers /\ gone' \subseteq Pagers
    BY <1>s DEF Shift
<1>1. CASE UNCHANGED vars BY <1>1 DEF vars
<1>2. ASSUME NEW r \in Requests, AddPlace(r) PROVE TypeOK'
    <2>1. /\ places' \subseteq Adds /\ Shift
          /\ UNCHANGED <<inputs, address, drawn, eventVars, lookVars>>
        BY <1>2 DEF AddPlace
    <2>2. /\ pc' \in [Requests -> {"new", "pages", "count", "list", "done"} \cup OpenTx]
          /\ resp' \in [Requests -> {"none", "ok", "error"}]
        <3>1. Answer(r, "ok") \/ Answer(r, "error") BY <1>2 DEF AddPlace
        <3>2. CASE Answer(r, "ok") BY ONLY TypeOK, <3>2
        <3>3. CASE Answer(r, "error") BY ONLY TypeOK, <3>3
        <3> QED BY <3>1, <3>2, <3>3
    <2>3. /\ UNCHANGED <<query, got, skip, due>>
          /\ came' \subseteq Pagers /\ gone' \subseteq Pagers
        BY <1>s, <2>1
    <2> QED BY <2>1, <2>2, <2>3
<1>3. ASSUME NEW r \in Requests, UpdatePlace(r) PROVE TypeOK'
    <2>1. /\ address' \in [Adds -> Addresses] /\ Shift
          /\ UNCHANGED <<inputs, places, drawn, eventVars, lookVars>>
        BY <1>3 DEF UpdatePlace
    <2>2. /\ pc' \in [Requests -> {"new", "pages", "count", "list", "done"} \cup OpenTx]
          /\ resp' \in [Requests -> {"none", "ok", "error"}]
        <3>1. Answer(r, "ok") \/ Answer(r, "error") BY <1>3 DEF UpdatePlace
        <3>2. CASE Answer(r, "ok") BY ONLY TypeOK, <3>2
        <3>3. CASE Answer(r, "error") BY ONLY TypeOK, <3>3
        <3> QED BY <3>1, <3>2, <3>3
    <2>3. /\ UNCHANGED <<query, got, skip, due>>
          /\ came' \subseteq Pagers /\ gone' \subseteq Pagers
        BY <1>s, <2>1
    <2> QED BY <2>1, <2>2, <2>3
<1>4. ASSUME NEW r \in Requests, RemovePlace(r) PROVE TypeOK'
    <2>1. /\ places' \subseteq Adds /\ Shift
          /\ UNCHANGED <<inputs, address, drawn, eventVars, lookVars>>
        BY <1>4 DEF RemovePlace
    <2>2. /\ pc' \in [Requests -> {"new", "pages", "count", "list", "done"} \cup OpenTx]
          /\ resp' \in [Requests -> {"none", "ok", "error"}]
        <3>1. Answer(r, "ok") \/ Answer(r, "error") BY <1>4 DEF RemovePlace
        <3>2. CASE Answer(r, "ok") BY ONLY TypeOK, <3>2
        <3>3. CASE Answer(r, "error") BY ONLY TypeOK, <3>3
        <3> QED BY <3>1, <3>2, <3>3
    <2>3. /\ UNCHANGED <<query, got, skip, due>>
          /\ came' \subseteq Pagers /\ gone' \subseteq Pagers
        BY <1>s, <2>1
    <2> QED BY <2>1, <2>2, <2>3
<1>5. ASSUME NEW r \in Requests, CreateEvent(r) PROVE TypeOK' BY <1>5 DEF CreateEvent
<1>6. ASSUME NEW r \in Requests, CreateTickets(r) PROVE TypeOK'
    <2>1. r \in Creates /\ half[r] \in Int BY <1>6 DEF CreateTickets
    <2>2. SeatNumbers(r) \subseteq Nat BY <2>1, SeatNumbersRange
    <2> QED BY <1>6, <2>1, <2>2 DEF CreateTickets
<1>7. ASSUME NEW r \in Requests, CommitEvent(r) PROVE TypeOK' BY <1>7 DEF CommitEvent
<1>8. ASSUME NEW r \in Requests, Fails(r) PROVE TypeOK' BY <1>8 DEF Fails
<1>9. ASSUME NEW r \in Requests, FindPlaces(r) PROVE TypeOK'
    <2>1. r \in Pagers /\ pc[r] = "pages" BY <1>9 DEF FindPlaces
    <2>2. query[r] \in PlaceQueries BY <2>1 DEF PagesBegin
    <2> DEFINE page == Page(Hits(query[r]), skip[r], query[r].take)
    <2>3. page \in SUBSET Adds BY DEF Page, Hits
    <2>4. Cardinality(page) \in Nat BY <2>3, FS_Subset, FS_CardinalityType
    <2>5. /\ got' = [got EXCEPT ![r] = @ \cup page]
          /\ skip' = [skip EXCEPT ![r] = @ + Cardinality(page)]
          /\ Answer(r, "ok") \/ Goto(r, "pages")
        BY <1>9 DEF FindPlaces
    <2>6. got' \in [Pagers -> SUBSET Adds] /\ skip' \in [Pagers -> Nat]
        BY <2>1, <2>3, <2>4, <2>5
    <2>7. pc' \in [Requests -> {"new", "pages", "count", "list", "done"} \cup OpenTx]
          /\ resp' \in [Requests -> {"none", "ok", "error"}]
        BY <2>5
    <2> QED BY <1>9, <2>6, <2>7 DEF FindPlaces
<1>10. ASSUME NEW r \in Requests, FindEventsByPlace(r) PROVE TypeOK'
    <2>1. PICK hits \in SUBSET events : found' = [found EXCEPT ![r] = hits]
        BY <1>10 DEF FindEventsByPlace
    <2> QED BY <1>10, <2>1 DEF FindEventsByPlace
<1>11. ASSUME NEW r \in Requests, CountTickets(r) PROVE TypeOK'
    <2>1. r \in Looks BY <1>11 DEF CountTickets
    <2>2. asked[r] \in Creates /\ half[asked[r]] \in Int BY <2>1
    <2>3. tickets[asked[r]] = {} \/ tickets[asked[r]] = SeatNumbers(asked[r])
        BY <2>2 DEF Rows
    <2>4. Cardinality(tickets[asked[r]]) \in Nat
        <3>1. CASE tickets[asked[r]] = {} BY ONLY <3>1, FS_EmptySet
        <3>2. CASE tickets[asked[r]] = SeatNumbers(asked[r])
            BY ONLY <2>2, <3>2, SeatNumbersFinite
        <3> QED BY <2>3, <3>1, <3>2
    <2> QED BY <1>11, <2>1, <2>4 DEF CountTickets
<1>12. ASSUME NEW r \in Requests, ListTickets(r) PROVE TypeOK'
    <2>1. r \in Looks /\ asked[r] \in Creates BY <1>12 DEF ListTickets
    <2> QED BY <1>12, <2>1 DEF ListTickets
<1>13. ASSUME NEW r \in Requests, Browse(r) PROVE TypeOK'
    <2>1. PICK q \in PlaceQueries :
              /\ query' = [query EXCEPT ![r] = q]
              /\ skip' = [skip EXCEPT ![r] = q.skip]
              /\ due' = [due EXCEPT ![r] = {p \in Hits(q) : Index(Hits(q), p, q.take) >= q.skip}]
        BY <1>13 DEF Browse
    <2>2. q.skip \in Nat BY DEF PlaceQueries
    <2>3. {p \in Hits(q) : Index(Hits(q), p, q.take) >= q.skip} \in SUBSET Adds BY DEF Hits
    <2> QED BY <1>13, <2>1, <2>2, <2>3 DEF Browse
<1> QED BY <1>1, <1>2, <1>3, <1>4, <1>5, <1>6, <1>7, <1>8, <1>9, <1>10, <1>11, <1>12, <1>13
       DEF Next

LEMMA StepSteps == CatalogIInv /\ [Next]_vars => Steps'
<1> SUFFICES ASSUME CatalogIInv, [Next]_vars PROVE Steps' OBVIOUS
<1> USE CatalogAssumption DEF CatalogIInv, TypeOK, Steps, Goto, Answer, Requests, OpenTx, eventVars
<1>1. CASE UNCHANGED vars BY <1>1 DEF vars
<1>2. ASSUME NEW r \in Requests, AddPlace(r) \/ UpdatePlace(r) \/ RemovePlace(r) PROVE Steps'
    <2>1. UNCHANGED events /\ (Answer(r, "ok") \/ Answer(r, "error"))
        BY <1>2 DEF AddPlace, UpdatePlace, RemovePlace
    <2>2. r \notin Creates
        BY <1>2 DEF AddPlace, UpdatePlace, RemovePlace
    <2> QED BY <2>1, <2>2
<1>3. ASSUME NEW r \in Requests, CreateEvent(r) \/ CreateTickets(r) PROVE Steps'
    BY <1>3 DEF CreateEvent, CreateTickets
<1>4. ASSUME NEW r \in Requests, CommitEvent(r) PROVE Steps' BY <1>4 DEF CommitEvent
<1>5. ASSUME NEW r \in Requests, Fails(r) PROVE Steps' BY <1>5 DEF Fails
<1>6. ASSUME NEW r \in Requests, Browse(r) \/ FindPlaces(r) \/ FindEventsByPlace(r) PROVE Steps'
    <2>1. CASE Browse(r) BY <2>1 DEF Browse
    <2>2. CASE FindPlaces(r)
        <3>1. r \in Pagers /\ pc[r] = "pages" /\ r \notin events /\ UNCHANGED events
            BY <2>2 DEF FindPlaces
        <3>2. CASE Goto(r, "pages") BY <3>1, <3>2
        <3>3. CASE Answer(r, "ok") BY <3>1, <3>3
        <3> QED BY <2>2, <3>2, <3>3 DEF FindPlaces
    <2>3. CASE FindEventsByPlace(r) BY <2>3 DEF FindEventsByPlace
    <2> QED BY <1>6, <2>1, <2>2, <2>3
<1>7. ASSUME NEW r \in Requests, CountTickets(r) \/ ListTickets(r) PROVE Steps'
    <2>1. CASE CountTickets(r) BY <2>1 DEF CountTickets
    <2>2. CASE ListTickets(r) BY <2>2 DEF ListTickets
    <2> QED BY <1>7, <2>1, <2>2
<1> QED BY <1>1, <1>2, <1>3, <1>4, <1>5, <1>6, <1>7 DEF Next

LEMMA StepEvents == CatalogIInv /\ [Next]_vars => Rows' /\ PlaceOfEvent'
<1> SUFFICES ASSUME CatalogIInv, [Next]_vars PROVE Rows' /\ PlaceOfEvent' OBVIOUS
<1>t. TypeOK' /\ Steps' BY TypeStep, StepSteps
<1>s. ASSUME half' = half PROVE \A c : SeatNumbers(c)' = SeatNumbers(c) BY <1>s DEF SeatNumbers
<1> USE CatalogAssumption DEF CatalogIInv, TypeOK, Steps, Rows, PlaceOfEvent, Goto, Answer, Requests, OpenTx,
        inputs, placeVars, eventVars
<1>1. CASE UNCHANGED vars BY <1>1, <1>s DEF vars
<1>2. ASSUME NEW r \in Requests, AddPlace(r) \/ UpdatePlace(r) PROVE Rows' /\ PlaceOfEvent'
    BY <1>2, <1>s DEF AddPlace, UpdatePlace
<1>3. ASSUME NEW r \in Requests, RemovePlace(r) PROVE Rows' /\ PlaceOfEvent'
    BY <1>3, <1>s DEF RemovePlace
<1>4. ASSUME NEW r \in Requests, CreateEvent(r) PROVE Rows' /\ PlaceOfEvent'
    BY <1>4, <1>s DEF CreateEvent
<1>5. ASSUME NEW r \in Requests, CreateTickets(r) PROVE Rows' /\ PlaceOfEvent'
    BY <1>5, <1>s DEF CreateTickets
<1>6. ASSUME NEW r \in Requests, CommitEvent(r) PROVE Rows' /\ PlaceOfEvent'
    BY <1>6, <1>s DEF CommitEvent
<1>7. ASSUME NEW r \in Requests, Fails(r) PROVE Rows' /\ PlaceOfEvent'
    BY <1>7, <1>s DEF Fails
<1>8. ASSUME NEW r \in Requests, \/ Browse(r) \/ FindPlaces(r) \/ FindEventsByPlace(r)
                                 \/ CountTickets(r) \/ ListTickets(r)
      PROVE  Rows' /\ PlaceOfEvent'
    BY <1>8, <1>s DEF Browse, FindPlaces, FindEventsByPlace, CountTickets, ListTickets
<1> QED BY <1>1, <1>2, <1>3, <1>4, <1>5, <1>6, <1>7, <1>8 DEF Next

LEMMA StepLooks == CatalogIInv /\ [Next]_vars => Seen' /\ CountThenList'
<1> SUFFICES ASSUME CatalogIInv, [Next]_vars PROVE Seen' /\ CountThenList' OBVIOUS
<1>1. /\ events \subseteq events' /\ half' = half /\ asked' = asked
      /\ \A e \in events : tickets'[e] = tickets[e]
      /\ \A c \in Creates : tickets[c] = tickets'[c] \/ tickets[c] = {}
    BY DEF CatalogIInv, TypeOK, Steps, Rows, Next, vars, AddPlace, UpdatePlace, RemovePlace,
        CreateEvent, CreateTickets, CommitEvent, Fails, Browse, FindPlaces,
        FindEventsByPlace, CountTickets, ListTickets, inputs, eventVars, lookVars, Requests, OpenTx
<1>2. \A c : SeatNumbers(c)' = SeatNumbers(c) BY <1>1 DEF SeatNumbers
<1>3. SUFFICES ASSUME NEW l \in Looks, pc'[l] \in {"count", "list"}
               PROVE  /\ found'[l] \subseteq events'
                      /\ pc'[l] = "list" /\ asked[l] \in found'[l] =>
                             counted'[l] = Cardinality(SeatNumbers(asked[l]))
                      /\ pc'[l] = "list" /\ counted'[l] > 0 =>
                             counted'[l] = Cardinality(tickets'[asked[l]])
    BY <1>1, <1>2 DEF Seen, CountThenList
<1> USE DEF CatalogIInv, TypeOK, Seen, CountThenList, Requests
<1>4. ASSUME pc'[l] = pc[l], found'[l] = found[l], counted'[l] = counted[l] PROVE
         /\ found'[l] \subseteq events'
         /\ pc'[l] = "list" /\ asked[l] \in found'[l] =>
                counted'[l] = Cardinality(SeatNumbers(asked[l]))
         /\ pc'[l] = "list" /\ counted'[l] > 0 =>
                counted'[l] = Cardinality(tickets'[asked[l]])
    <2>1. asked[l] \in Creates BY <1>3
    <2>2. pc[l] \in {"count", "list"} BY <1>3, <1>4
    <2>3. found[l] \subseteq events BY <2>2
    <2>4. tickets[asked[l]] = tickets'[asked[l]] \/ tickets[asked[l]] = {} BY <1>1, <2>1
    <2>5. Cardinality({}) = 0 BY FS_EmptySet
    <2>6. counted[l] > 0 /\ pc[l] = "list" => counted[l] = Cardinality(tickets'[asked[l]])
        <3> SUFFICES ASSUME counted[l] > 0, pc[l] = "list"
                     PROVE  counted[l] = Cardinality(tickets'[asked[l]])
            OBVIOUS
        <3>1. counted[l] = Cardinality(tickets[asked[l]]) OBVIOUS
        <3>2. CASE tickets[asked[l]] = {} BY <3>1, <3>2, <2>5
        <3> QED BY <3>1, <3>2, <2>4
    <2> QED BY <1>1, <1>4, <2>3, <2>6
<1>5. CASE FindEventsByPlace(l)
    BY <1>1, <1>5 DEF FindEventsByPlace, Goto
<1>6. CASE CountTickets(l)
    <2>1. found' = found /\ tickets' = tickets /\ counted'[l] = Cardinality(tickets[asked[l]])
        BY <1>6 DEF CountTickets, eventVars
    <2>2. asked[l] \in found[l] => tickets[asked[l]] = SeatNumbers(asked[l])
        BY <1>6 DEF CountTickets, Rows
    <2> QED BY <1>1, <1>6, <2>1, <2>2 DEF CountTickets
<1>7. ASSUME ~FindEventsByPlace(l), ~CountTickets(l)
      PROVE  pc'[l] = pc[l] /\ found'[l] = found[l] /\ counted'[l] = counted[l]
    <2> USE DEF Goto, Answer, Steps, OpenTx, lookVars
    <2>1. CASE UNCHANGED vars BY <2>1 DEF vars
    <2>2. ASSUME NEW r \in Requests, \/ AddPlace(r) \/ UpdatePlace(r) \/ RemovePlace(r)
                                     \/ CreateEvent(r) \/ CreateTickets(r)
                                     \/ CommitEvent(r) \/ Fails(r)
          PROVE  found' = found /\ counted' = counted
        BY <2>2 DEF AddPlace, UpdatePlace, RemovePlace, CreateEvent, CreateTickets,
            CommitEvent, Fails
    <2>4. ASSUME NEW r \in Requests, \/ AddPlace(r) \/ UpdatePlace(r) \/ RemovePlace(r)
                                     \/ CreateEvent(r) \/ CreateTickets(r)
                                     \/ CommitEvent(r) \/ Fails(r)
          PROVE  pc'[l] = pc[l]
        BY <1>3, <2>4, CatalogAssumption DEF AddPlace, UpdatePlace, RemovePlace, CreateEvent,
            CreateTickets, CommitEvent, Fails
    <2>5. ASSUME NEW r \in Requests, \/ Browse(r) \/ FindPlaces(r) \/ FindEventsByPlace(r)
                                     \/ CountTickets(r) \/ ListTickets(r)
          PROVE  pc'[l] = pc[l] /\ found'[l] = found[l] /\ counted'[l] = counted[l]
        <3>1. r # l
            BY <1>3, <1>7, <2>5, CatalogAssumption DEF Browse, FindPlaces, ListTickets
        <3>2. CASE Browse(r) \/ FindPlaces(r) BY <3>1, <3>2 DEF Browse, FindPlaces
        <3>3. CASE FindEventsByPlace(r) BY <3>1, <3>3 DEF FindEventsByPlace
        <3>4. CASE CountTickets(r) BY <3>1, <3>4 DEF CountTickets
        <3>5. CASE ListTickets(r) BY <3>1, <3>5 DEF ListTickets
        <3> QED BY <2>5, <3>2, <3>3, <3>4, <3>5
    <2> QED BY <2>1, <2>2, <2>4, <2>5 DEF Next
<1> QED BY <1>4, <1>5, <1>6, <1>7

LEMMA StepPages == CatalogIInv /\ [Next]_vars => PagesBegin' /\ PagesAhead' /\ PagesComplete'
<1> SUFFICES ASSUME CatalogIInv, [Next]_vars,
                    NEW g \in Pagers
             PROVE  /\ pc'[g] = "new" => query'[g] = Absent /\ got'[g] = {}
                    /\ pc'[g] = "pages" => query'[g] # Absent
                    /\ pc'[g] = "pages" => Ahead(g)'
                    /\ query'[g] # Absent => Complete(g)'
    BY DEF PagesBegin, PagesAhead, PagesComplete
<1> DEFINE Goal == /\ pc'[g] = "new" => query'[g] = Absent /\ got'[g] = {}
                   /\ pc'[g] = "pages" => query'[g] # Absent
                   /\ pc'[g] = "pages" => Ahead(g)'
                   /\ query'[g] # Absent => Complete(g)'
<1>t. TypeOK' BY TypeStep
<1>0. /\ pc[g] = "new" => query[g] = Absent /\ got[g] = {}
      /\ pc[g] = "pages" => query[g] # Absent /\ Ahead(g)
      /\ query[g] # Absent => Complete(g)
      /\ TypeOK /\ g \in Requests
      /\ g \notin Adds \cup Creates \cup Edits \cup Looks
    BY CatalogAssumption DEF CatalogIInv, PagesBegin, PagesAhead, PagesComplete, Requests
\* The others do not touch what a client has.
<1>1. ASSUME UNCHANGED <<places, address, came, gone>>,
             query'[g] = query[g], got'[g] = got[g], skip'[g] = skip[g], due'[g] = due[g],
             pc'[g] \in {pc[g], "done"}, resp'[g] = "ok" => resp[g] = "ok"
      PROVE  Goal
    <2>1. Hits(query[g])' = Hits(query'[g]) /\ Hits(query'[g]) = Hits(query[g])
        BY <1>1 DEF Hits
    <2>2. Ahead(g)' <=> Ahead(g)
        BY <1>1, <2>1 DEF Ahead, Hits, Index, Before
    <2>3. Complete(g) => Complete(g)'
        BY <1>1 DEF Complete
    <2> QED BY <1>0, <1>1, <2>2, <2>3
<1>2. CASE UNCHANGED vars
    BY <1>1, <1>2 DEF vars, placeVars, pageVars
<1>3. ASSUME NEW r \in Requests, \/ CreateEvent(r) \/ CreateTickets(r) \/ CommitEvent(r)
                                 \/ FindEventsByPlace(r) \/ CountTickets(r) \/ ListTickets(r)
      PROVE  Goal
    <2>1. /\ UNCHANGED <<places, address, query, got, skip, due, came, gone>>
          /\ r \in Creates \cup Looks
          /\ \/ \E l \in {"tickets", "commit", "count", "list"} : Goto(r, l)
             \/ Answer(r, "ok") \/ Answer(r, "error")
        BY <1>3 DEF CatalogIInv, Steps, OpenTx, placeVars, pageVars, CreateEvent, CreateTickets,
            CommitEvent, FindEventsByPlace, CountTickets, ListTickets
    <2>2. pc'[g] = pc[g] /\ resp'[g] = resp[g] BY <1>0, <2>1 DEF Goto, Answer, TypeOK
    <2> HIDE DEF Goal
    <2> QED BY <1>1, <2>1, <2>2
<1>4. ASSUME NEW r \in Requests, Fails(r) PROVE Goal
    <2>1. /\ UNCHANGED <<places, address, query, got, skip, due, came, gone>>
          /\ Answer(r, "error")
        BY <1>4 DEF Fails, placeVars, pageVars
    <2>2. pc'[g] \in {pc[g], "done"} /\ (resp'[g] = "ok" => resp[g] = "ok")
        BY <1>0, <2>1 DEF Answer, TypeOK
    <2> HIDE DEF Goal
    <2> QED BY <1>1, <2>1, <2>2
\* Places come and go.
<1>5. ASSUME NEW r \in Requests, AddPlace(r) \/ UpdatePlace(r) \/ RemovePlace(r)
      PROVE  Goal
    <2>1. Shift /\ r \in Adds \cup Edits /\ (Answer(r, "ok") \/ Answer(r, "error"))
        BY <1>5 DEF AddPlace, UpdatePlace, RemovePlace
    <2>2. pc'[g] = pc[g] /\ resp'[g] = resp[g] BY <1>0, <2>1 DEF Answer, TypeOK
    <2>3. UNCHANGED <<query, got, skip, due>> BY <2>1 DEF Shift
    <2>4. came \subseteq came' /\ gone \subseteq gone' BY <2>1 DEF Shift
    <2>5. query[g] # Absent => Complete(g)' BY <1>0, <2>2, <2>3, <2>4 DEF Complete
    <2>6. ASSUME pc[g] = "pages" PROVE Ahead(g)'
        <3> DEFINE rows == Hits(query[g])
                   next == Hits(query[g])'
                   take == query[g].take
        <3>1. /\ query[g] \in PlaceQueries /\ take \in Int /\ query[g].skip \in Nat
              /\ skip[g] \in Nat
            BY <1>0, <2>6, CatalogAssumption DEF TypeOK, PlaceQueries
        <3>2. rows \in SUBSET Adds /\ next \in SUBSET Adds BY <1>0, <1>t DEF Hits, TypeOK
        <3>3. /\ g \notin came' => next \subseteq rows
              /\ g \notin gone' => rows \subseteq next
            BY <2>1, <2>6 DEF Shift
        <3>4. \A p : /\ Index(rows, p, take) \in Nat /\ Index(next, p, take) \in Nat
                     /\ g \notin came' => Index(next, p, take) <= Index(rows, p, take)
                     /\ g \notin gone' => Index(rows, p, take) <= Index(next, p, take)
            BY <3>2, <3>3, IndexType, IndexMonotone
        <3>5. /\ g \notin came => /\ \A p \in rows \cap got[g] : Index(rows, p, take) < skip[g]
                                  /\ \A p \in rows :
                                         Index(rows, p, take) >= query[g].skip => p \in due[g]
              /\ g \notin gone => \A p \in due[g] \ got[g] :
                                      p \in rows /\ Index(rows, p, take) >= skip[g]
            BY <1>0, <2>6 DEF Ahead
        <3> HIDE DEF rows, next, take
        <3>6. ASSUME g \notin came'
              PROVE  /\ \A p \in next \cap got[g] : Index(next, p, take) < skip[g]
                     /\ \A p \in next : Index(next, p, take) >= query[g].skip => p \in due[g]
            BY <2>4, <3>1, <3>3, <3>4, <3>5, <3>6
        <3>7. ASSUME g \notin gone', NEW p \in due[g] \ got[g]
              PROVE  p \in next /\ Index(next, p, take) >= skip[g]
            BY <2>4, <3>1, <3>3, <3>4, <3>5, <3>7
        <3> QED BY <2>3, <3>6, <3>7 DEF Ahead, rows, next, take, Index, Before, Hits
    <2> QED BY <1>0, <2>2, <2>3, <2>5, <2>6
\* A client begins, at the place it asks for.
<1>6. ASSUME NEW r \in Requests, Browse(r) PROVE Goal
    <2>1. PICK q \in PlaceQueries :
              /\ query' = [query EXCEPT ![r] = q]
              /\ skip' = [skip EXCEPT ![r] = q.skip]
              /\ due' = [due EXCEPT ![r] = {p \in Hits(q) : Index(Hits(q), p, q.take) >= q.skip}]
        BY <1>6 DEF Browse
    <2>2. /\ r \in Pagers /\ pc[r] = "new" /\ Goto(r, "pages")
          /\ UNCHANGED <<places, address, got, came, gone>>
        BY <1>6 DEF Browse, placeVars
    <2>3. CASE r # g
        <3>1. pc'[g] = pc[g] /\ resp'[g] = resp[g] BY <1>0, <2>2, <2>3 DEF Goto, TypeOK
        <3>2. /\ query'[g] = query[g] /\ got'[g] = got[g]
              /\ skip'[g] = skip[g] /\ due'[g] = due[g]
            BY <1>0, <2>1, <2>2, <2>3 DEF TypeOK
        <3> HIDE DEF Goal
        <3> QED BY <1>1, <2>2, <3>1, <3>2
    <2>4. CASE r = g
        <3>1. /\ query'[g] = q /\ skip'[g] = q.skip /\ got'[g] = {}
              /\ due'[g] = {p \in Hits(q) : Index(Hits(q), p, q.take) >= q.skip}
              /\ pc'[g] = "pages" /\ resp'[g] # "ok"
            BY <1>0, <2>1, <2>2, <2>4 DEF Goto, TypeOK, CatalogIInv, Steps
        <3>2. q.skip \in Nat /\ q # Absent BY CatalogAssumption DEF PlaceQueries
        <3>3. Hits(q)' = Hits(q) BY <2>2 DEF Hits
        <3>4. Hits(query[g])' = Hits(q) BY <3>1, <3>3 DEF Hits
        <3>5. Ahead(g)' BY <2>2, <3>1, <3>4 DEF Ahead, Index, Before
        <3>6. Complete(g)' BY <3>1, <3>2, FS_EmptySet DEF Complete
        <3> QED BY <3>1, <3>2, <3>5, <3>6
    <2> QED BY <2>3, <2>4
\* It gets the next page.
<1>7. ASSUME NEW r \in Requests, FindPlaces(r) PROVE Goal
    <2> DEFINE rows == Hits(query[r])
               take == query[r].take
               page == Page(rows, skip[r], take)
    <2>1. /\ r \in Pagers /\ pc[r] = "pages"
          /\ got' = [got EXCEPT ![r] = @ \cup page]
          /\ skip' = [skip EXCEPT ![r] = @ + Cardinality(page)]
          /\ UNCHANGED <<places, address, query, due, came, gone>>
          /\ IF page = {} THEN Answer(r, "ok") ELSE Goto(r, "pages")
        BY <1>7 DEF FindPlaces, placeVars
    <2> HIDE DEF page
    <2>2. CASE r # g
        <3>1. pc'[g] = pc[g] /\ resp'[g] = resp[g]
            BY <1>0, <2>1, <2>2 DEF Goto, Answer, TypeOK
        <3>2. got'[g] = got[g] /\ skip'[g] = skip[g] BY <1>0, <2>1, <2>2 DEF TypeOK
        <3> HIDE DEF Goal
        <3> QED BY <1>1, <2>1, <3>1, <3>2
    <2>3. CASE r = g
        <3>1. /\ query[g] \in PlaceQueries /\ query[g] # Absent /\ take \in Int
              /\ query[g].skip \in Nat /\ skip[g] \in Nat
              /\ rows \in SUBSET Adds /\ got[g] \in SUBSET Adds
            BY <1>0, <2>1, <2>3, CatalogAssumption DEF TypeOK, PlaceQueries, Hits
        <3>2. /\ got'[g] = got[g] \cup page /\ skip'[g] = skip[g] + Cardinality(page)
              /\ query'[g] = query[g] /\ due'[g] = due[g]
            BY <1>0, <2>1, <2>3 DEF TypeOK
        <3>3. Hits(query[g])' = rows BY <2>1, <2>3 DEF Hits
        <3>4. /\ g \notin came => /\ \A p \in rows \cap got[g] : Index(rows, p, take) < skip[g]
                                  /\ \A p \in rows :
                                         Index(rows, p, take) >= query[g].skip => p \in due[g]
              /\ g \notin gone => \A p \in due[g] \ got[g] :
                                      p \in rows /\ Index(rows, p, take) >= skip[g]
            BY <1>0, <2>1, <2>3 DEF Ahead
        <3>5. /\ g \notin came => /\ got[g] \subseteq due[g]
                                  /\ skip[g] = query[g].skip + Cardinality(got[g])
            BY <1>0, <3>1 DEF Complete
        <3> HIDE DEF rows, take
        <3>6. \A p \in rows : Index(rows, p, take) \in Nat BY <3>1, IndexType
        <3>7. /\ IsFiniteSet(page) /\ Cardinality(page) \in Nat /\ Size(take) \in Nat \ {0}
              /\ Cardinality(page) <= Size(take)
              /\ page = {p \in rows : /\ skip[g] <= Index(rows, p, take)
                                      /\ Index(rows, p, take) < skip[g] + Size(take)}
            BY <2>3, <3>1, PageBound DEF page, Page
        <3>8. \A p \in page : Index(rows, p, take) < skip[g] + Cardinality(page)
            BY <2>3, <3>1, PageContiguous DEF page
        <3>9. IsFiniteSet(got[g]) /\ Cardinality(got[g]) \in Nat BY <3>1, IndexType
        <3>10. ASSUME g \notin came
               PROVE  /\ got'[g] \subseteq due[g]
                      /\ skip'[g] = query[g].skip + Cardinality(got'[g])
                      /\ \A p \in rows \cap got'[g] : Index(rows, p, take) < skip'[g]
            <4>1. skip[g] >= query[g].skip BY <3>1, <3>5, <3>9, <3>10
            <4>2. page \subseteq due[g] BY <3>1, <3>4, <3>6, <3>7, <3>10, <4>1
            <4>3. got[g] \cap page = {} BY <3>1, <3>4, <3>6, <3>7, <3>10
            <4>4. Cardinality(got[g] \cup page) = Cardinality(got[g]) + Cardinality(page)
                BY <3>7, <3>9, <4>3, FS_Union, FS_EmptySet
            <4>5. \A p \in rows \cap got'[g] : Index(rows, p, take) < skip'[g]
                BY <3>1, <3>2, <3>4, <3>6, <3>7, <3>8, <3>10
            <4> QED BY <3>1, <3>2, <3>5, <3>7, <3>9, <3>10, <4>2, <4>4, <4>5
        <3>11. ASSUME g \notin gone, NEW p \in due[g] \ got'[g]
               PROVE  p \in rows /\ Index(rows, p, take) >= skip'[g]
            <4>1. p \in rows /\ Index(rows, p, take) >= skip[g] /\ p \notin page
                BY <3>2, <3>4, <3>11
            <4> QED BY <3>1, <3>2, <3>6, <3>7, <4>1
        <3>12. Ahead(g)'
            <4>1. query'[g].take = take BY <2>3, <3>2 DEF take
            <4>2. /\ g \notin came' =>
                         /\ \A p \in rows \cap got'[g] : Index(rows, p, take) < skip'[g]
                         /\ \A p \in rows :
                                Index(rows, p, take) >= query'[g].skip => p \in due'[g]
                  /\ g \notin gone' => \A p \in due'[g] \ got'[g] :
                                           p \in rows /\ Index(rows, p, take) >= skip'[g]
                BY <2>1, <3>2, <3>4, <3>10, <3>11
            <4> QED BY <3>3, <4>1, <4>2 DEF Ahead, Index, Before
        <3>13. ASSUME g \notin gone, page = {} PROVE due[g] \subseteq got'[g]
            <4> SUFFICES ASSUME NEW p \in due[g], p \notin got'[g] PROVE FALSE OBVIOUS
            <4>1. p \in rows /\ Index(rows, p, take) >= skip[g] BY <3>2, <3>4, <3>13
            <4>2. Index(rows, p, take) < skip[g]
                BY <2>3, <3>1, <3>13, <4>1, PageEmpty DEF page
            <4> QED BY <3>1, <3>6, <4>1, <4>2
        <3>14. /\ pc'[g] \in {"pages", "done"}
               /\ resp'[g] = "ok" => page = {} \/ resp[g] = "ok"
               /\ resp[g] = "none"
            BY <1>0, <2>1, <2>3 DEF Goto, Answer, TypeOK, CatalogIInv, Steps
        <3>15. Complete(g)'
            BY <2>1, <3>2, <3>10, <3>13, <3>14 DEF Complete
        <3> QED BY <3>1, <3>2, <3>12, <3>14, <3>15
    <2> QED BY <2>2, <2>3
<1> QED BY <1>2, <1>3, <1>4, <1>5, <1>6, <1>7 DEF Next

THEOREM CatalogInvariant == Spec => []CatalogIInv
<1>1. CatalogIInv /\ [Next]_vars => CatalogIInv'
    BY TypeStep, StepSteps, StepEvents, StepLooks, StepPages DEF CatalogIInv
<1> QED BY InitIInv, <1>1, PTL DEF Spec

\* The variables keep their types.
THEOREM CatalogTypeCorrect == Spec => []TypeOK
    BY CatalogInvariant, PTL DEF CatalogIInv

\* Every event keeps its place, whoever removes places meanwhile.
THEOREM CatalogPlaceOfEvent == Spec => []PlaceOfEvent
    BY CatalogInvariant, PTL DEF CatalogIInv

\* An event is seen with all its tickets or not at all.
THEOREM CatalogEventComplete == Spec => []EventComplete
<1>1. CatalogIInv => EventComplete
    <2> SUFFICES ASSUME CatalogIInv, NEW e \in events
                 PROVE  /\ \A n \in tickets[e] : /\ n >= 1 /\ 2 * (n - 1) < half[e]
                                                 /\ n > 1 => n - 1 \in tickets[e]
                        /\ half[e] > 0 => \E n \in tickets[e] : 2 * n >= half[e]
        BY DEF EventComplete, CatalogIInv, Rows
    <2>1. e \in Creates /\ half[e] \in Int /\ tickets[e] = SeatNumbers(e)
        BY CatalogAssumption DEF CatalogIInv, TypeOK, Rows
    <2> QED BY <2>1, SeatNumbersRange
<1> QED BY <1>1, CatalogInvariant, PTL

\* A client that has found an event is told of all its tickets.
THEOREM CatalogCountThenList == Spec => []CountThenList
    BY CatalogInvariant, PTL DEF CatalogIInv

\* A client that pages to the end has seen every place that was there for it,
\* unless one went; and none twice, and no other, unless one came.
THEOREM CatalogPagesComplete == Spec => []PagesComplete
    BY CatalogInvariant, PTL DEF CatalogIInv

---------------------------------------------------------------------------
(* EventCatalog implements Catalogue.                                      *)

\* The loop of mapTicketData makes as many seats as were wished for.
LEMMA SeatsAsWished ==
    ASSUME NEW c \in Creates, half[c] \in Int
    PROVE  SeatNumbers(c) = Abstract!SeatsFor(half[c])
<1>1. ASSUME NEW n \in SeatNumbers(c) PROVE n \in 1 .. ((half[c] + 1) \div 2)
    <2>1. n \in Nat /\ n >= 1 /\ 2 * (n - 1) < half[c] BY <1>1, SeatNumbersRange
    <2>2. n <= (half[c] + 1) \div 2 BY <2>1
    <2> QED BY <2>1, <2>2
<1>2. ASSUME NEW n \in 1 .. ((half[c] + 1) \div 2) PROVE n \in SeatNumbers(c)
    <2>1. n \in Nat /\ n >= 1 /\ 2 * (n - 1) < half[c] OBVIOUS
    <2>2. n - 1 \in 0 .. half[c] /\ (n - 1) + 1 = n BY <2>1
    <2> QED BY <2>1, <2>2 DEF SeatNumbers
<1> QED BY <1>1, <1>2 DEF Abstract!SeatsFor

LEMMA CatalogInitMaps == Init => Abstract!CatalogueInit
<1> SUFFICES ASSUME Init PROVE Abstract!CatalogueInit OBVIOUS
<1> USE CatalogAssumption DEF Init
<1>1. [c \in Creates |-> [place |-> of[c], half |-> half[c]]]
          \in [Creates -> [place : Adds, half : Int]]
    OBVIOUS
<1>2. {Row(e) : e \in events} = {} /\ {c \in Creates : resp[c] = "ok"} = {}
    BY DEF Requests
<1> QED BY <1>1, <1>2 DEF Abstract!CatalogueInit

\* The commit is the moment at which the event appears.
LEMMA CommitLists ==
    ASSUME CatalogIInv, NEW c \in Requests, CommitEvent(c)
    PROVE  Abstract!ListEvent(c)
<1> USE CatalogAssumption DEF CatalogIInv, TypeOK, Requests
<1>1. /\ c \in Creates /\ c \notin events /\ half[c] \in Int
      /\ of[c] \in places /\ drawn[c] = SeatNumbers(c)
    BY DEF CommitEvent, Steps, Rows, PlaceOfEvent, OpenTx
<1>2. /\ events' = events \cup {c} /\ tickets' = [tickets EXCEPT ![c] = drawn[c]]
      /\ UNCHANGED <<of, half, places>>
    BY DEF CommitEvent, inputs, placeVars
<1>3. {Row(e) : e \in events}' = {Row(e) : e \in events} \cup {Row(c)'}
    <2>1. ASSUME NEW e \in events PROVE Row(e)' = Row(e)
        BY <1>1, <1>2 DEF Row
    <2> QED BY <1>2, <2>1
<1>4. Row(c)' = [event |-> c, place |-> of[c], seats |-> Abstract!SeatsFor(half[c])]
    <2>1. tickets'[c] = SeatNumbers(c) BY <1>1, <1>2
    <2> QED BY <1>1, <1>2, <2>1, SeatsAsWished DEF Row
<1>5. \A x \in {Row(e) : e \in events} : x.event # c
    BY <1>1 DEF Row
<1>6. {d \in Creates : resp[d] = "ok"}' \in
          {{d \in Creates : resp[d] = "ok"}, {d \in Creates : resp[d] = "ok"} \cup {c}}
    <2>1. CASE resp' = [resp EXCEPT ![c] = "ok"] BY <1>1, <2>1
    <2>2. CASE resp' = [resp EXCEPT ![c] = "error"]
        <3>1. resp[c] # "ok" BY <1>1 DEF Rows
        <3> QED BY <1>1, <2>2, <3>1
    <2> QED BY <2>1, <2>2 DEF CommitEvent, Answer
<1> QED BY <1>1, <1>2, <1>3, <1>4, <1>5, <1>6 DEF Abstract!ListEvent, Abstract!Listing

\* A place without an event, and without one that is being written, goes.
LEMMA RemovalCloses ==
    ASSUME CatalogIInv, NEW r \in Requests, RemovePlace(r)
    PROVE  Abstract!ClosePlace(of[r])
<1> USE CatalogAssumption DEF CatalogIInv, TypeOK, Requests
<1>1. \A x \in {Row(e) : e \in events} : x.place # of[r]
    BY DEF RemovePlace, Row
<1>2. /\ places' = places \ {of[r]}
      /\ UNCHANGED <<of, half, events, tickets>>
    BY DEF RemovePlace, inputs, eventVars
<1>3. {Row(e) : e \in events}' = {Row(e) : e \in events}
    BY <1>2 DEF Row
<1>4. {c \in Creates : resp[c] = "ok"}' = {c \in Creates : resp[c] = "ok"}
    BY DEF RemovePlace, Answer
<1> QED BY <1>1, <1>2, <1>3, <1>4 DEF Abstract!ClosePlace

LEMMA AdditionOpens ==
    ASSUME CatalogIInv, NEW p \in Requests, AddPlace(p)
    PROVE  Abstract!OpenPlace(p)
<1> USE CatalogAssumption DEF CatalogIInv, TypeOK, Requests
<1>1. /\ places' = places \cup {p}
      /\ UNCHANGED <<of, half, events, tickets>>
    BY DEF AddPlace, inputs, eventVars
<1>2. {Row(e) : e \in events}' = {Row(e) : e \in events}
    BY <1>1 DEF Row
<1>3. {c \in Creates : resp[c] = "ok"}' = {c \in Creates : resp[c] = "ok"}
    BY DEF AddPlace, Answer
<1> QED BY <1>1, <1>2, <1>3 DEF Abstract!OpenPlace

\* No other step is seen in the catalogue.
LEMMA OthersUnseen ==
    ASSUME CatalogIInv, NEW r \in Requests,
           \/ UpdatePlace(r) \/ CreateEvent(r) \/ CreateTickets(r) \/ Fails(r)
           \/ Browse(r) \/ FindPlaces(r) \/ FindEventsByPlace(r)
           \/ CountTickets(r) \/ ListTickets(r)
    PROVE  UNCHANGED Abstract!catalogueVars
<1> USE CatalogAssumption DEF CatalogIInv, TypeOK, Requests
<1>1. UNCHANGED <<of, half, places, events, tickets>>
    BY DEF UpdatePlace, CreateEvent, CreateTickets, Fails, Browse, FindPlaces,
        FindEventsByPlace, CountTickets, ListTickets, inputs, placeVars, eventVars
<1>2. \A c \in Creates : resp'[c] = "ok" <=> resp[c] = "ok"
    BY CatalogAssumption DEF UpdatePlace, CreateEvent, CreateTickets, Fails, Browse, FindPlaces,
        FindEventsByPlace, CountTickets, ListTickets, Goto, Answer, Steps, OpenTx
<1>3. {Row(e) : e \in events}' = {Row(e) : e \in events}
    BY <1>1 DEF Row
<1>4. {c \in Creates : resp[c] = "ok"}' = {c \in Creates : resp[c] = "ok"}
    BY <1>2
<1> QED BY <1>1, <1>3, <1>4 DEF Abstract!catalogueVars

LEMMA CatalogStepMaps ==
    ASSUME CatalogIInv, [Next]_vars
    PROVE  [Abstract!CatalogueNext]_(Abstract!catalogueVars)
<1>1. CASE UNCHANGED vars
    <2>1. UNCHANGED <<of, half, places, events, tickets, resp>>
        BY <1>1 DEF vars, inputs, placeVars, eventVars
    <2>2. {Row(e) : e \in events}' = {Row(e) : e \in events}
        BY <2>1 DEF Row
    <2> QED BY <2>1, <2>2 DEF Abstract!catalogueVars
<1>2. ASSUME NEW r \in Requests, AddPlace(r) PROVE Abstract!CatalogueNext
    BY <1>2, AdditionOpens DEF AddPlace, Abstract!CatalogueNext
<1>3. ASSUME NEW r \in Requests, RemovePlace(r) PROVE Abstract!CatalogueNext
    <2>1. of[r] \in Adds BY <1>3 DEF RemovePlace, CatalogIInv, TypeOK
    <2> QED BY <1>3, <2>1, RemovalCloses DEF Abstract!CatalogueNext
<1>4. ASSUME NEW r \in Requests, CommitEvent(r) PROVE Abstract!CatalogueNext
    <2>1. r \in Creates BY <1>4 DEF CommitEvent, CatalogIInv, Steps, OpenTx
    <2> QED BY <1>4, <2>1, CommitLists DEF Abstract!CatalogueNext
<1> QED BY <1>1, <1>2, <1>3, <1>4, OthersUnseen DEF Next

\* Every step of administrators, transactions and clients is a step of the
\* catalogue or invisible to it: events appear at once, complete, at a place
\* that stays; what was answered "ok" is there.
THEOREM CatalogRefines == Spec => ImplementsCatalogue
<1> QED BY CatalogInitMaps, CatalogInvariant, CatalogStepMaps, PTL
       DEF Spec, ImplementsCatalogue, Abstract!CatalogueSpec
=============================================================================
