---------------------------- MODULE TicketSale ----------------------------
(***************************************************************************)
(* What the booking of numbered seats promises about each ticket, without   *)
(* locks, flags, queues or transactions: a ticket on sale is held for one   *)
(* buyer at a time; a held ticket is sold to that buyer or withheld; a      *)
(* withheld ticket goes back on sale; a sold ticket stays sold.  After a    *)
(* mishap the code has no defence against, nothing more is promised.        *)
(***************************************************************************)
CONSTANTS Tickets, Buyers,
          Nobody   \* no buyer

VARIABLE sale   \* the state of each ticket, and for whom

saleVars == <<sale>>

Entry(state, buyer) == [state |-> state, buyer |-> buyer]

OnSale    == Entry("on sale", Nobody)
Withheld  == Entry("withheld", Nobody)
Void      == Entry("void", Nobody)
HeldFor(b) == Entry("held", b)
SoldTo(b)  == Entry("sold", b)

SaleStates == {OnSale, Withheld, Void} \cup {HeldFor(b) : b \in Buyers}
                                       \cup {SoldTo(b) : b \in Buyers}

SaleTypeOK == sale \in [Tickets -> SaleStates]

SaleInit == sale = [t \in Tickets |-> OnSale]

Become(t, s) == sale' = [sale EXCEPT ![t] = s]

Hold(t, b)  == sale[t] = OnSale /\ Become(t, HeldFor(b))
Sell(t, b)  == sale[t] = HeldFor(b) /\ Become(t, SoldTo(b))
Withhold(t) == sale[t] \in {OnSale} \cup {HeldFor(b) : b \in Buyers} /\ Become(t, Withheld)
Reopen(t)   == sale[t] = Withheld /\ Become(t, OnSale)
Spoil(t)    == sale[t] # Void /\ Become(t, Void)

SaleNext ==
    \E t \in Tickets :
       \/ \E b \in Buyers : Hold(t, b) \/ Sell(t, b)
       \/ Withhold(t) \/ Reopen(t) \/ Spoil(t)

SaleSpec == SaleInit /\ [][SaleNext]_saleVars
===========================================================================
