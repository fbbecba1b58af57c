---------------------------- MODULE EventCatalog ---------------------------
(***************************************************************************)
(* Places, events and the issue of tickets (places.service.ts,              *)
(* events.service.ts and their repositories), with the public queries.      *)
(* An event and its tickets are written in one transaction; administrators  *)
(* change and remove places meanwhile, and clients look.                    *)
(*                                                                         *)
(* A row is named by the request that creates it.  An address is reduced to *)
(* a city and a street number; district, street and the event's name are    *)
(* filtered like the number.  Quantities are counted in halves: @IsNumber() *)
(* lets fractions and negative numbers pass.                                *)
(***************************************************************************)
EXTENDS Integers, FiniteSets

CONSTANTS Adds, Creates, Edits,         \* the requests, by what they do
          Looks, Pagers,                \* the clients that ask about events,
                                        \* and those that page through places
          Cities, Numbers,              \* parts of an address
          Absent,                       \* a field that is not given
          Rank,                         \* the order of the places' ids
          Skips, Takes,                 \* where pages begin, and their sizes
          HalfQuantities,               \* twice the quantities to look at
          PageSize,                     \* DEFAULT_TAKE
          Loads                         \* the cases to look at: the places there
                                        \* at first, the requests and their inputs

Requests == Adds \cup Creates \cup Edits \cup Looks \cup Pagers

Addresses == [city : Cities, number : Numbers]

\* What a client may ask for: FindEventsByPlaceDto, and FindPlacesDto, which is
\* not validated (a skip or a take of 0 stands for one that is not given, too).
EventQueries == [city : Cities, number : Numbers \cup {Absent}]
PlaceQueries == [city : Cities \cup {Absent}, number : Numbers \cup {Absent},
                 skip : Skips, take : Takes]

ASSUME CatalogAssumption ==
    /\ Adds \cap (Creates \cup Edits \cup Looks \cup Pagers) = {}
    /\ Creates \cap (Edits \cup Looks \cup Pagers) = {}
    /\ Edits \cap (Looks \cup Pagers) = {} /\ Looks \cap Pagers = {}
    /\ IsFiniteSet(Adds) /\ Numbers \subseteq Nat
    /\ Absent \notin Numbers \cup Cities \cup PlaceQueries
    /\ Rank \in [Adds -> Nat] /\ \A p, q \in Adds : Rank[p] = Rank[q] => p = q
    /\ Skips \subseteq Nat /\ Takes \subseteq Int
    /\ HalfQuantities \subseteq Int
    /\ PageSize \in Nat \ {0}
    /\ Loads \subseteq [there : SUBSET Adds, arrive : SUBSET Requests,
                       of : [Creates \cup Edits -> Adds], half : [Creates -> HalfQuantities],
                       address : [Adds -> Addresses], asked : [Looks -> Creates]]
    /\ \A load \in Loads : load.there \cap load.arrive = {}

VARIABLES pc, resp,
          of,        \* the place an event is at, or an edit is about
          half,      \* twice the quantity each new event asks for
          places,    \* MySQL: the rows of Place
          address,   \* MySQL: their columns
          drawn,     \* the ticket rows of each open transaction
          events,    \* MySQL: the rows of Event
          tickets,   \* MySQL: the seat numbers of each event's tickets
          found,     \* what each client was last told of events or tickets
          asked,     \* the event whose tickets each client asks about
          counted,   \* how many tickets it was told there are
          query,     \* what each client that pages through places asks for
          got,       \* the places it has got
          skip,      \* how many rows it asks to skip
          due,       \* history: the places that were there for it at first
          came,      \* history: the clients that another place came for,
          gone       \* or one went for, while they paged

placeVars == <<places, address>>
eventVars == <<events, tickets>>
inputs    == <<of, half>>
lookVars  == <<found, asked, counted>>
pageVars  == <<query, got, skip, due, came, gone>>
vars == <<pc, resp, inputs, placeVars, drawn, eventVars, lookVars, pageVars>>

OpenTx    == {"tickets", "commit"}

TypeOK ==
    /\ pc \in [Requests -> {"new", "pages", "count", "list", "done"} \cup OpenTx]
    /\ resp \in [Requests -> {"none", "ok", "error"}]
    /\ of \in [Creates \cup Edits -> Adds]
    /\ half \in [Creates -> HalfQuantities]
    /\ places \subseteq Adds
    /\ address \in [Adds -> Addresses]
    /\ drawn \in [Creates -> SUBSET Nat]
    /\ events \subseteq Creates
    /\ tickets \in [Creates -> SUBSET Nat]
    /\ found \in [Looks -> SUBSET (Creates \cup Nat)]
    /\ asked \in [Looks -> Creates]
    /\ counted \in [Looks -> Nat]
    /\ query \in [Pagers -> PlaceQueries \cup {Absent}]
    /\ got \in [Pagers -> SUBSET Adds]
    /\ skip \in [Pagers -> Nat]
    /\ due \in [Pagers -> SUBSET Adds]
    /\ came \subseteq Pagers /\ gone \subseteq Pagers

Init ==
    /\ \E load \in Loads :
          /\ pc = [r \in Requests |-> IF r \in load.arrive THEN "new" ELSE "done"]
          /\ places = load.there /\ of = load.of /\ half = load.half
          /\ address = load.address /\ asked = load.asked
    /\ resp = [r \in Requests |-> "none"]
    /\ events = {}
    /\ drawn = [c \in Creates |-> {}] /\ tickets = [c \in Creates |-> {}]
    /\ found = [l \in Looks |-> {}] /\ counted = [l \in Looks |-> 0]
    /\ query = [g \in Pagers |-> Absent]
    /\ got = [g \in Pagers |-> {}] /\ skip = [g \in Pagers |-> 0]
    /\ due = [g \in Pagers |-> {}] /\ came = {} /\ gone = {}

---------------------------------------------------------------------------
Goto(r, l) == pc' = [pc EXCEPT ![r] = l] /\ UNCHANGED resp

Answer(r, a) == /\ pc' = [pc EXCEPT ![r] = "done"]
                /\ resp' = [resp EXCEPT ![r] = a]

(* The places a client asks for.                                           *)

\* The `||' of the repositories: a number of 0 counts as not given.  A city
\* that is not given filters nothing either.
Matches(a, q) ==
    /\ q.city \in {Absent, a.city}
    /\ q.number \in {Absent, 0, a.number}

Hits(q) == {p \in places : Matches(address[p], q)}

\* The rows before p in the order of their ids, which Prisma gives to pages that
\* ask for none, or against it, for pages from the end.
Before(rows, p, take) ==
    {q \in rows : IF take < 0 THEN Rank[q] > Rank[p] ELSE Rank[q] < Rank[p]}

Index(rows, p, take) == Cardinality(Before(rows, p, take))

\* The history of what comes and goes while clients page.
Shift ==
    /\ UNCHANGED <<query, got, skip, due>>
    /\ LET paging == {g \in Pagers : pc[g] = "pages"} IN
          /\ came' = came \cup {g \in paging : ~(Hits(query[g])' \subseteq Hits(query[g]))}
          /\ gone' = gone \cup {g \in paging : ~(Hits(query[g]) \subseteq Hits(query[g])')}

(* Places.                                                                 *)

AddPlace(p) ==
    /\ p \in Adds /\ pc[p] = "new"
    /\ places' = places \cup {p}
    /\ Answer(p, "ok") \/ Answer(p, "error")  \* the reply may be lost
    /\ UNCHANGED <<inputs, address, drawn, eventVars, lookVars>>
    /\ Shift

\* The update by id fails if there is no such place.
UpdatePlace(r) ==
    /\ r \in Edits /\ pc[r] = "new" /\ of[r] \in places
    /\ \E a \in Addresses : address' = [address EXCEPT ![of[r]] = a]
    /\ Answer(r, "ok") \/ Answer(r, "error")
    /\ UNCHANGED <<inputs, places, drawn, eventVars, lookVars>>
    /\ Shift

Mut_RemovePlace_NoForeignKey(r) ==
    /\ r \in Edits /\ pc[r] = "new" /\ of[r] \in places
    /\ places' = places \ {of[r]}
    /\ Answer(r, "ok")
    /\ UNCHANGED <<inputs, address, drawn, eventVars, lookVars>>
    /\ Shift

\* A place with an event cannot be removed (the foreign key of Event.placeId),
\* and the row is locked while a transaction that refers to it is open.
RemovePlace(r) ==
    /\ r \in Edits /\ pc[r] = "new" /\ of[r] \in places
    /\ \A c \in Creates : of[c] = of[r] => c \notin events /\ pc[c] \notin OpenTx
    /\ places' = places \ {of[r]}
    /\ Answer(r, "ok") \/ Answer(r, "error")
    /\ UNCHANGED <<inputs, address, drawn, eventVars, lookVars>>
    /\ Shift

(* POST events.                                                            *)

\* The rows mapTicketData pushes: for (i = 0; i < quantity; i++), numbered i + 1.
Mut_SeatNumbers_FromZero(c) == {i \in 0 .. half[c] : 2 * i < half[c]}

SeatNumbers(c) == {i + 1 : i \in {j \in 0 .. half[c] : 2 * j < half[c]}}

\* createEventTx, which connects the place, and fails if there is none.
CreateEvent(c) ==
    /\ c \in Creates /\ pc[c] = "new" /\ of[c] \in places
    /\ Goto(c, "tickets")
    /\ UNCHANGED <<inputs, placeVars, drawn, eventVars, lookVars, pageVars>>

\* createTicketsTx: one insert of all the rows.
CreateTickets(c) ==
    /\ pc[c] = "tickets"
    /\ drawn' = [drawn EXCEPT ![c] = SeatNumbers(c)]
    /\ Goto(c, "commit")
    /\ UNCHANGED <<inputs, placeVars, eventVars, lookVars, pageVars>>

Mut_CommitEvent_TwoTransactions(c) ==
    /\ pc[c] \in OpenTx
    /\ events' = events \cup {c}
    /\ tickets' = [tickets EXCEPT ![c] = drawn[c]]
    /\ IF pc[c] = "commit" THEN Answer(c, "ok") ELSE Goto(c, "tickets")
    /\ UNCHANGED <<inputs, placeVars, drawn, lookVars, pageVars>>

CommitEvent(c) ==
    /\ pc[c] = "commit"
    /\ events' = events \cup {c}
    /\ tickets' = [tickets EXCEPT ![c] = drawn[c]]
    /\ Answer(c, "ok") \/ Answer(c, "error")
    /\ UNCHANGED <<inputs, placeVars, drawn, lookVars, pageVars>>

\* Any call fails: no such place, a place in use, a time-out, a process that
\* dies.  An open transaction is rolled back.
Fails(r) ==
    /\ pc[r] # "done"
    /\ Answer(r, "error")
    /\ UNCHANGED <<inputs, placeVars, drawn, eventVars, lookVars, pageVars>>

(* The public queries.                                                     *)

\* `take || 10'; Prisma takes a negative number from the end.
Size(take) == IF take = 0 THEN PageSize ELSE IF take < 0 THEN -take ELSE take

Mut_Page_SkipOne(rows, from, take) ==
    {p \in rows : from < Index(rows, p, take) /\ Index(rows, p, take) <= from + Size(take)}

\* findMany with skip and take.
Page(rows, from, take) ==
    {p \in rows : from <= Index(rows, p, take) /\ Index(rows, p, take) < from + Size(take)}

\* A client begins to page through the places it is after.
Browse(g) ==
    /\ g \in Pagers /\ pc[g] = "new"
    /\ \E q \in PlaceQueries :
          /\ query' = [query EXCEPT ![g] = q]
          /\ skip' = [skip EXCEPT ![g] = q.skip]
          /\ due' = [due EXCEPT ![g] = {p \in Hits(q) : Index(Hits(q), p, q.take) >= q.skip}]
    /\ Goto(g, "pages")
    /\ UNCHANGED <<inputs, placeVars, drawn, eventVars, lookVars, got, came, gone>>

\* GET places.  The client asks for the next page after the rows it has got,
\* until there is none.  (Prisma refuses a skip below 0: Fails.)
FindPlaces(g) ==
    /\ g \in Pagers /\ pc[g] = "pages"
    /\ LET page == Page(Hits(query[g]), skip[g], query[g].take)
       IN  /\ got' = [got EXCEPT ![g] = @ \cup page]
           /\ skip' = [skip EXCEPT ![g] = @ + Cardinality(page)]
           /\ IF page = {} THEN Answer(g, "ok") ELSE Goto(g, "pages")
    /\ UNCHANGED <<inputs, placeVars, drawn, eventVars, lookVars, query, due, came, gone>>

\* GET events, by their places.
FindEventsByPlace(l) ==
    /\ l \in Looks /\ pc[l] = "new"
    /\ \E q \in EventQueries :
          found' = [found EXCEPT ![l] = {e \in events : Matches(address[of[e]], q)}]
    /\ Goto(l, "count")
    /\ UNCHANGED <<inputs, placeVars, drawn, eventVars, asked, counted, pageVars>>

\* GET tickets/event/:eventId/count, sold ones included.
CountTickets(l) ==
    /\ pc[l] = "count"
    /\ counted' = [counted EXCEPT ![l] = Cardinality(tickets[asked[l]])]
    /\ Goto(l, "list")
    /\ UNCHANGED <<inputs, placeVars, drawn, eventVars, found, asked, pageVars>>

\* GET tickets/event/:eventId.
ListTickets(l) ==
    /\ pc[l] = "list"
    /\ found' = [found EXCEPT ![l] = tickets[asked[l]]]
    /\ Answer(l, "ok")
    /\ UNCHANGED <<inputs, placeVars, drawn, eventVars, asked, counted, pageVars>>

Next == \E r \in Requests :
    \/ AddPlace(r) \/ UpdatePlace(r) \/ RemovePlace(r)
    \/ CreateEvent(r) \/ CreateTickets(r) \/ CommitEvent(r) \/ Fails(r)
    \/ Browse(r) \/ FindPlaces(r)
    \/ FindEventsByPlace(r) \/ CountTickets(r) \/ ListTickets(r)

Spec == Init /\ [][Next]_vars

---------------------------------------------------------------------------
(* Properties.                                                             *)

\* Every event has its place, also one whose place is removed while the event
\* is being created; a place that was reported removed is gone.
PlaceOfEvent ==
    /\ \A e \in events : of[e] \in places
    /\ \A c \in Creates : pc[c] \in OpenTx => of[c] \in places

\* An event that can be seen has all its tickets, numbered from 1 without a
\* gap, as many as the quantity, rounded up; a failed creation leaves none.
EventComplete ==
    /\ \A e \in events : LET seats == tickets[e] IN
          /\ \A n \in seats : /\ n >= 1 /\ 2 * (n - 1) < half[e]
                              /\ n > 1 => n - 1 \in seats
          /\ half[e] > 0 => \E n \in seats : 2 * n >= half[e]
    /\ \A c \in Creates \ events : tickets[c] = {} /\ resp[c] # "ok"

\* A client that has found an event and then asks for its tickets is told of
\* all of them; and the list it gets afterwards is as long as the count said,
\* or longer if the event has appeared in between.
CountThenList ==
    \A l \in Looks :
        /\ pc[l] = "list" /\ asked[l] \in found[l] =>
               counted[l] = Cardinality(SeatNumbers(asked[l]))
        /\ pc[l] = "list" /\ counted[l] > 0 =>
               counted[l] = Cardinality(tickets[asked[l]])

Complete(g) ==
    /\ g \notin came => /\ got[g] \subseteq due[g]
                       /\ skip[g] = query[g].skip + Cardinality(got[g])
    /\ g \notin gone /\ resp[g] = "ok" => due[g] \subseteq got[g]

\* A client that pages to the end while administrators add, change and remove
\* places has seen every place that was there for it when it began, unless one
\* has gone from its list meanwhile (the rows behind it move up, and the next
\* page begins too late); and it has got no place twice, and no other, unless
\* one has come.  So it is for every filter, start and size of page.
PagesComplete == \A g \in Pagers : query[g] # Absent => Complete(g)

(* The inductive invariant of the proofs.                                  *)

Steps ==
    /\ \A r \in Requests : resp[r] # "none" => pc[r] = "done"
    /\ \A r \in Requests : pc[r] \in OpenTx => r \in Creates
    /\ \A r \in Requests : pc[r] \in {"count", "list"} => r \in Looks
    /\ \A e \in events : pc[e] = "done"

Rows ==
    /\ \A c \in Creates : pc[c] = "commit" => drawn[c] = SeatNumbers(c)
    /\ \A e \in events : tickets[e] = SeatNumbers(e)
    /\ \A c \in Creates \ events : tickets[c] = {} /\ resp[c] # "ok"

Seen == \A l \in Looks : pc[l] \in {"count", "list"} => found[l] \subseteq events

\* Before its first page a client has nothing.
PagesBegin == \A g \in Pagers :
    /\ pc[g] = "new" => query[g] = Absent /\ got[g] = {}
    /\ pc[g] = "pages" => query[g] # Absent

\* If none has come, what a client has got is behind it, and what is ahead of
\* it was due; if none has gone, what is due and missing is ahead of it.
Ahead(g) ==
    LET rows  == Hits(query[g])
        At(p) == Index(rows, p, query[g].take)
    IN  /\ g \notin came => /\ \A p \in rows \cap got[g] : At(p) < skip[g]
                           /\ \A p \in rows : At(p) >= query[g].skip => p \in due[g]
        /\ g \notin gone => \A p \in due[g] \ got[g] : p \in rows /\ At(p) >= skip[g]

PagesAhead == \A g \in Pagers : pc[g] = "pages" => Ahead(g)

CatalogIInv ==
    /\ TypeOK /\ Steps /\ Rows /\ PlaceOfEvent /\ Seen /\ CountThenList
    /\ PagesBegin /\ PagesAhead /\ PagesComplete
=============================================================================
