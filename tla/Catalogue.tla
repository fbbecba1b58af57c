----------------------------- MODULE Catalogue -----------------------------
(***************************************************************************)
(* What the administration of places and events promises, without           *)
(* transactions, foreign keys or lost replies: an event appears in one      *)
(* moment, at a place that is open, with all the seats that were asked for; *)
(* it stays as it is, and its place stays open.  An event that is reported  *)
(* as created is in the catalogue.                                         *)
(***************************************************************************)
EXTENDS Integers

CONSTANTS Places, Events

VARIABLES wish,      \* where each event is to be, and twice the seats it is to have
          open,      \* the places that can be used
          listed,    \* the events that can be seen
          confirmed  \* the events whose creation was reported

catalogueVars == <<wish, open, listed, confirmed>>

\* Seats are numbered from 1; half a seat makes one more, less than none is none.
SeatsFor(half) == 1 .. ((half + 1) \div 2)

Listing(e) == [event |-> e, place |-> wish[e].place, seats |-> SeatsFor(wish[e].half)]

CatalogueInit ==
    /\ wish \in [Events -> [place : Places, half : Int]]
    /\ open \subseteq Places
    /\ listed = {}
    /\ confirmed = {}

OpenPlace(p) ==
    /\ open' = open \cup {p}
    /\ UNCHANGED <<wish, listed, confirmed>>

ClosePlace(p) ==
    /\ \A x \in listed : x.place # p
    /\ open' = open \ {p}
    /\ UNCHANGED <<wish, listed, confirmed>>

ListEvent(e) ==
    /\ wish[e].place \in open
    /\ \A x \in listed : x.event # e
    /\ listed' = listed \cup {Listing(e)}
    /\ confirmed' \in {confirmed, confirmed \cup {e}}
    /\ UNCHANGED <<wish, open>>

CatalogueNext ==
    \/ \E p \in Places : OpenPlace(p) \/ ClosePlace(p)
    \/ \E e \in Events : ListEvent(e)

CatalogueSpec == CatalogueInit /\ [][CatalogueNext]_catalogueVars
=============================================================================
