------------------------- MODULE CatalogRefinement -------------------------
(***************************************************************************)
(* EventCatalog implements Catalogue: what is committed is what is listed,  *)
(* and a creation is confirmed by the answer "ok".  Open transactions,      *)
(* edits of addresses and the clients' queries are invisible to it.         *)
(***************************************************************************)
EXTENDS EventCatalog

Row(e) == [event |-> e, place |-> of[e], seats |-> tickets[e]]

Abstract == INSTANCE Catalogue WITH
    Places    <- Adds,
    Events    <- Creates,
    wish      <- [c \in Creates |-> [place |-> of[c], half |-> half[c]]],
    open      <- places,
    listed    <- {Row(e) : e \in events},
    confirmed <- {c \in Creates : resp[c] = "ok"}

\* Events appear at once and complete, at a place that is there and stays
\* there, whatever fails or is removed while they are being written
\* (createEventTx, createTicketsTx, the foreign key of Event.placeId).
ImplementsCatalogue == Abstract!CatalogueSpec
=============================================================================
