--------------------- MODULE StandingReservationProofs ---------------------
(***************************************************************************)
(* Proofs about StandingReservation, for every set of requests and tickets  *)
(* and every value of the lock's TTL and of Prisma's limits.                *)
(***************************************************************************)
EXTENDS StandingInvariant, StandingRefinement, TLAPS

\* Nothing is sold and nobody holds the lock at first.
LEMMA StandingInitOK == Init => StandingIInv
BY StandingAssumption DEF Init, StandingIInv, TypeOK, AllOrNothing, OnTimeApart, PromiseKept, LockHeld,
   FreshView, NothingPicked, RowsAreFinal, BuyersKeep, LockCovers, PCs, Inside, InTx

\* Steps that neither book nor let a request into its transaction.
LEMMA HandlerMovesOK ==
    ASSUME StandingIInv, NEW r \in Requests,
           Arrive(r) \/ LockFails(r) \/ BeginTx(r) \/ TxFails(r)
           \/ UnlockFails(r) \/ CrashRequest(r)
    PROVE  StandingIInv'
BY StandingAssumption DEF StandingIInv, TypeOK, AllOrNothing, OnTimeApart, PromiseKept, LockHeld,
   FreshView, NothingPicked, RowsAreFinal, BuyersKeep, LockCovers, PCs, Inside, InTx,
   Arrive, LockFails, BeginTx, TxFails,
   UnlockFails, CrashRequest, Goto, Answer, clockVars, txVars, databaseVars

\* Who takes a free lock finds nobody inside who is on time.
LEMMA AcquireLockOK ==
    ASSUME StandingIInv, NEW r \in Requests, AcquireLock(r) PROVE StandingIInv'
BY StandingAssumption DEF StandingIInv, TypeOK, AllOrNothing, OnTimeApart, PromiseKept, LockHeld,
   FreshView, NothingPicked, RowsAreFinal, BuyersKeep, LockCovers, PCs, Inside, InTx,
   AcquireLock, Goto, txVars, databaseVars

\* The snapshot holds no ticket of a committed buyer.
LEMMA CreateReservationOK ==
    ASSUME StandingIInv, NEW r \in Requests, CreateReservation(r) PROVE StandingIInv'
BY StandingAssumption DEF StandingIInv, TypeOK, AllOrNothing, OnTimeApart, PromiseKept, LockHeld,
   FreshView, NothingPicked, RowsAreFinal, BuyersKeep, LockCovers, PCs, Inside, InTx,
   CreateReservation, Goto,
   clockVars, databaseVars

\* A ticket of the snapshot is picked, or none is there.
LEMMA FindTicketOK ==
    ASSUME StandingIInv, NEW r \in Requests, FindTicket(r) PROVE StandingIInv'
BY StandingAssumption DEF StandingIInv, TypeOK, AllOrNothing, OnTimeApart, PromiseKept, LockHeld,
   FreshView, NothingPicked, RowsAreFinal, BuyersKeep, LockCovers, PCs, Inside, InTx,
   FindTicket, Goto, Answer,
   clockVars, databaseVars

\* The update is not visible to others yet.
LEMMA ReserveTicketOK ==
    ASSUME StandingIInv, NEW r \in Requests, ReserveTicket(r) PROVE StandingIInv'
BY StandingAssumption DEF StandingIInv, TypeOK, AllOrNothing, OnTimeApart, PromiseKept, LockHeld,
   FreshView, NothingPicked, RowsAreFinal, BuyersKeep, LockCovers, PCs, Inside, InTx,
   ReserveTicket, Goto,
   clockVars, txVars, databaseVars

\* A commit of a handler that is on time meets no other one in its
\* transaction, and a ticket that nobody who was on time has taken.
LEMMA CommitTxOK ==
    ASSUME StandingIInv, NEW r \in Requests, CommitTx(r) PROVE StandingIInv'
<1> USE DEF StandingIInv, CommitTx, Commit, Goto, Answer, clockVars, txVars
<1>1. TypeOK' /\ NothingPicked' /\ RowsAreFinal'
  BY DEF TypeOK, NothingPicked, RowsAreFinal, PCs, Inside, InTx
<1>2. AllOrNothing'
  BY StandingAssumption DEF TypeOK, AllOrNothing, OnTimeApart, RowsAreFinal
<1>3. OnTimeApart'
  BY DEF OnTimeApart, FreshView
<1>4. BuyersKeep' /\ PromiseKept'
  BY DEF TypeOK, BuyersKeep, PromiseKept, FreshView
<1>5. LockHeld' /\ LockCovers'
  BY DEF TypeOK, LockHeld, LockCovers, Inside, InTx
<1>6. FreshView'
  <2> SUFFICES ASSUME NEW s \in Requests \ late, NEW b \in rows' \ late,
                      pc'[s] \in {"find", "update", "commit"}
               PROVE  /\ pc'[s] = "find" => found[b] \notin view[s]
                      /\ pc'[s] \in {"update", "commit"} => found[b] # found[s]
    BY DEF FreshView
  <2>1. s # r /\ pc[s] = pc'[s]
    BY DEF TypeOK
  <2>2. r \notin late => lock = s /\ lock = r
    BY <2>1 DEF LockHeld, Inside, InTx
  <2>3. b \in rows \ late
    BY <2>1, <2>2
  <2> QED
    BY <2>1, <2>3 DEF FreshView
<1> QED
  BY <1>1, <1>2, <1>3, <1>4, <1>5, <1>6

\* Only the holder, whose transaction is over, frees the lock.
LEMMA UnlockOK ==
    ASSUME StandingIInv, NEW r \in Requests, Unlock(r) PROVE StandingIInv'
BY StandingAssumption DEF StandingIInv, TypeOK, AllOrNothing, OnTimeApart, PromiseKept, LockHeld,
   FreshView, NothingPicked, RowsAreFinal, BuyersKeep, LockCovers, PCs, Inside, InTx,
   Unlock, Goto, txVars, databaseVars

\* A lock that covers the limits does not expire on a handler inside; any
\* other makes its handler late.
LEMMA LockExpiresOK ==
    ASSUME StandingIInv, LockExpires PROVE StandingIInv'
BY StandingAssumption DEF StandingIInv, TypeOK, AllOrNothing, OnTimeApart, PromiseKept, LockHeld,
   FreshView, NothingPicked, RowsAreFinal, BuyersKeep, LockCovers, PCs, Inside, InTx,
   LockExpires, clockVars, txVars,
   databaseVars

\* Lock and limits lose the same time.
LEMMA TickOK ==
    ASSUME StandingIInv, Tick PROVE StandingIInv'
BY StandingAssumption DEF StandingIInv, TypeOK, AllOrNothing, OnTimeApart, PromiseKept, LockHeld,
   FreshView, NothingPicked, RowsAreFinal, BuyersKeep, LockCovers, PCs, Inside, InTx,
   Tick, txVars, databaseVars

\* Every step of the system preserves the invariant.
LEMMA StandingStepOK == StandingIInv /\ [Next]_vars => StandingIInv'
<1> SUFFICES ASSUME StandingIInv, [Next]_vars PROVE StandingIInv'
  OBVIOUS
<1>1. CASE UNCHANGED vars
  BY <1>1 DEF vars, clockVars, txVars, databaseVars, StandingIInv, TypeOK, AllOrNothing, OnTimeApart,
     PromiseKept, LockHeld, FreshView, NothingPicked, RowsAreFinal, BuyersKeep, LockCovers
<1>2. ASSUME NEW r \in Requests, Arrive(r) \/ RequestStep(r) \/ CrashRequest(r)
      PROVE  StandingIInv'
  BY <1>2, HandlerMovesOK, AcquireLockOK, CreateReservationOK, FindTicketOK, ReserveTicketOK,
     CommitTxOK, UnlockOK DEF RequestStep
<1> QED
  BY <1>1, <1>2, LockExpiresOK, TickOK DEF Next

\* The inductive invariant of the standing flow, for any TTL and any limits.
THEOREM StandingInvariance == Spec => []StandingIInv
BY StandingInitOK, StandingStepOK, PTL DEF Spec

\* Type correctness.
THEOREM StandingTypeCorrect == Spec => []TypeOK
<1>1. StandingIInv => TypeOK
  BY DEF StandingIInv
<1> QED
  BY <1>1, StandingInvariance, PTL

\* Reservation and ticket appear together.
THEOREM StandingIsAtomic == Spec => []AllOrNothing
<1>1. StandingIInv => AllOrNothing
  BY DEF StandingIInv
<1> QED
  BY <1>1, StandingInvariance, PTL

\* Two buyers of one ticket are never both on time.
THEOREM StandingApart == Spec => []OnTimeApart
<1>1. StandingIInv => OnTimeApart
  BY DEF StandingIInv
<1> QED
  BY <1>1, StandingInvariance, PTL

\* A promise holds as long as no lock has run out.
THEOREM StandingPromises == Spec => []PromiseKept
<1>1. StandingIInv => PromiseKept
  BY DEF StandingIInv
<1> QED
  BY <1>1, StandingInvariance, PTL

\* A lock longer than the two limits together is never too short.
THEOREM StandingNeverLate == Spec => []NeverLate
<1>1. StandingIInv => NeverLate
  BY DEF StandingIInv, LockCovers, NeverLate
<1> QED
  BY <1>1, StandingInvariance, PTL

\* With such a lock no two buyers ever share a ticket.
THEOREM CoveringLockSells ==
    ASSUME \A ttl \in LockTtls : ttl > MaxWait + TxTimeout
    PROVE  Spec => [](\A r, s \in rows : r # s => found[r] # found[s])
<1>1. StandingIInv => \A r, s \in rows : r # s => found[r] # found[s]
  BY DEF StandingIInv, TypeOK, LockCovers, OnTimeApart
<1> QED
  BY <1>1, StandingInvariance, PTL

---------------------------------------------------------------------------
(* StandingReservation implements TicketSale.                              *)

\* What the abstract sale allows a ticket to do in one step.
Allowed(t) ==
    \/ Status(t)' = Status(t)
    \/ Status(t) = Sale!OnSale /\ \E b \in Requests : Status(t)' = Sale!HeldFor(b)
    \/ \E b \in Requests : Status(t) = Sale!HeldFor(b) /\ Status(t)' = Sale!SoldTo(b)
    \/ (\E b \in Requests : Status(t) = Sale!HeldFor(b)) /\ Status(t)' = Sale!Withheld
    \/ Status(t) = Sale!Withheld /\ Status(t)' = Sale!OnSale
    \/ Status(t)' = Sale!Void

SaleStep == [Sale!SaleNext]_Sale!saleVars

\* Tickets that all stay where they are make a stutter, and one that moves as
\* it may, while the others stay, makes a step of the sale.
LEMMA StandingAllowedIsStep ==
    ASSUME NEW t, \A u \in Tickets \ {t} : Status(u)' = Status(u),
           t \in Tickets => Allowed(t)
    PROVE  SaleStep
<1> USE DEF SaleStep, Sale!saleVars
<1> DEFINE sale == [u \in Tickets |-> Status(u)]
<1>1. CASE \A u \in Tickets : Status(u)' = Status(u)
  BY <1>1
<1>2. CASE t \in Tickets /\ Status(t)' # Status(t)
  <2>1. \A s : Status(t)' = s => sale' = [sale EXCEPT ![t] = s]
    BY <1>2
  <2> QED
    BY <1>2, <2>1
    DEF Allowed, Sale!SaleNext, Sale!Hold, Sale!Sell, Sale!Withhold, Sale!Reopen, Sale!Spoil,
        Sale!Become
<1> QED
  BY <1>1, <1>2

\* Steps that touch neither the rows nor the lock nor what anybody has picked,
\* and leave the lock's holder on the same side of its transaction's end, are
\* invisible.
LEMMA StandingQuiet ==
    ASSUME UNCHANGED <<lock, found, available, owner, late>>,
           lock # Nobody /\ found[lock] \in Tickets =>
               (pc[lock] \in {"update", "commit"} <=> pc'[lock] \in {"update", "commit"})
    PROVE  SaleStep
<1>1. \A t \in Tickets : PickedLate(t)' = PickedLate(t) /\ PickedByHolder(t)' = PickedByHolder(t)
  BY DEF PickedLate, PickedByHolder
<1>2. \A t \in Tickets : Status(t)' = Status(t)
  BY <1>1 DEF Status, Entry, PickedByHolder
<1> QED
  BY <1>2, StandingAllowedIsStep DEF Allowed

\* Taking the lock holds no ticket yet; a snapshot, a wait and a row lock
\* change nothing that is sold.
LEMMA StandingEarlySale ==
    ASSUME StandingIInv, NEW r \in Requests,
           Arrive(r) \/ AcquireLock(r) \/ LockFails(r) \/ BeginTx(r) \/ CreateReservation(r)
           \/ ReserveTicket(r) \/ UnlockFails(r)
    PROVE  SaleStep
<1> USE DEF StandingIInv, TypeOK, NothingPicked, Goto, txVars, databaseVars, clockVars
<1>1. CASE AcquireLock(r)
  <2>1. \A t \in Tickets : PickedLate(t)' = PickedLate(t) /\ ~PickedByHolder(t)' /\ ~PickedByHolder(t)
    BY <1>1, StandingAssumption DEF AcquireLock, PickedLate, PickedByHolder
  <2>2. \A t \in Tickets : Status(t)' = Status(t)
    BY <1>1, <2>1 DEF AcquireLock, Status, Entry
  <2> QED
    BY <2>2, StandingAllowedIsStep DEF Allowed
<1>2. CASE Arrive(r) \/ LockFails(r) \/ BeginTx(r) \/ CreateReservation(r)
           \/ ReserveTicket(r) \/ UnlockFails(r)
  BY <1>2, StandingQuiet
  DEF Arrive, LockFails, BeginTx, CreateReservation, ReserveTicket, UnlockFails
<1> QED
  BY <1>1, <1>2

\* A handler that is on time picks a ticket that is on sale, and holds it; a
\* late one spoils what it picks.
LEMMA StandingFindSale ==
    ASSUME StandingIInv, NEW r \in Requests, FindTicket(r)
    PROVE  SaleStep
<1> USE DEF StandingIInv, TypeOK, Goto, Answer, txVars, databaseVars, clockVars
<1>1. found[r] = NoTicket /\ NoTicket \notin Tickets
  BY StandingAssumption DEF FindTicket, NothingPicked
<1>2. CASE UNCHANGED found
  BY <1>1, <1>2, StandingQuiet DEF FindTicket
<1>3. ASSUME NEW t \in view[r], found' = [found EXCEPT ![r] = t], pc' = [pc EXCEPT ![r] = "update"]
      PROVE  SaleStep
  <2>1. t \in Tickets /\ found'[r] = t /\ pc'[r] = "update" /\ UNCHANGED <<lock, available, owner, late>>
    BY <1>3 DEF FindTicket
  <2>2. \A u \in Tickets \ {t} : Status(u)' = Status(u)
    <3>1. \A u \in Tickets \ {t} : PickedLate(u)' <=> PickedLate(u)
      BY <1>1, <1>3, <2>1 DEF PickedLate
    <3>2. \A u \in Tickets \ {t} : /\ PickedByHolder(u)' <=> PickedByHolder(u)
                                   /\ PickedByHolder(u) => pc'[lock] = pc[lock]
      BY <1>1, <1>3, <2>1 DEF PickedByHolder
    <3> QED
      BY <2>1, <3>1, <3>2 DEF Status, Entry
  <2>3. CASE r \in late
    <3>1. PickedLate(t)'
      BY <2>1, <2>3 DEF PickedLate
    <3>2. Status(t)' = Sale!Void
      BY <3>1 DEF Status, Entry, Sale!Void, Sale!Entry
    <3> QED
      BY <2>1, <2>2, <3>2, StandingAllowedIsStep DEF Allowed
  <2>4. CASE r \notin late /\ PickedLate(t)
    <3>1. PickedLate(t)'
      BY <1>1, <1>3, <2>1, <2>4 DEF PickedLate
    <3>2. Status(t)' = Sale!Void
      BY <3>1 DEF Status, Entry, Sale!Void, Sale!Entry
    <3> QED
      BY <2>1, <2>2, <3>2, StandingAllowedIsStep DEF Allowed
  <2>5. CASE r \notin late /\ ~PickedLate(t)
    <3>1. lock = r
      BY <2>5 DEF FindTicket, LockHeld, Inside, InTx
    <3>2. available[t]
      BY <2>1, <2>5 DEF FindTicket, AllOrNothing, FreshView, PickedLate
    <3>3. ~PickedLate(t)' /\ PickedByHolder(t)' /\ ~PickedByHolder(t)
      BY <1>1, <1>3, <2>1, <2>5, <3>1, StandingAssumption DEF PickedLate, PickedByHolder
    <3>4. Status(t) = Sale!OnSale /\ Status(t)' = Sale!HeldFor(r)
      BY <2>1, <2>5, <3>1, <3>2, <3>3
      DEF Status, Entry, Sale!OnSale, Sale!HeldFor, Sale!Entry
    <3> QED
      BY <2>1, <2>2, <3>4, StandingAllowedIsStep DEF Allowed
  <2> QED
    BY <2>3, <2>4, <2>5
<1> QED
  BY <1>2, <1>3 DEF FindTicket

\* A commit sells the ticket to the one it was held for; a late one has
\* spoilt its ticket before.
LEMMA StandingCommitSale ==
    ASSUME StandingIInv, NEW r \in Requests, CommitTx(r)
    PROVE  SaleStep
<1> USE DEF StandingIInv, TypeOK, Goto, Answer, txVars, databaseVars, clockVars
<1>0. PICK t : t = found[r]
  OBVIOUS
<1>1. t \in Tickets /\ pc[r] = "commit" /\ UNCHANGED <<lock, found, late>>
  BY <1>0 DEF CommitTx
<1>2. available' = [available EXCEPT ![t] = FALSE] /\ owner' = [owner EXCEPT ![t] = r]
  BY <1>0 DEF CommitTx, Commit
<1>3. \A u \in Tickets : PickedLate(u)' = PickedLate(u) /\ PickedByHolder(u)' = PickedByHolder(u)
  BY <1>0, <1>1 DEF PickedLate, PickedByHolder
<1>4. \A u \in Tickets \ {t} : Status(u)' = Status(u)
  <2>1. \A u \in Tickets \ {t} : /\ available'[u] = available[u] /\ owner'[u] = owner[u]
                                 /\ PickedByHolder(u) => pc'[lock] = pc[lock]
    BY <1>0, <1>1, <1>2 DEF CommitTx, PickedByHolder
  <2> QED
    BY <1>0, <1>1, <1>3, <2>1 DEF Status, Entry
<1>5. CASE PickedLate(t)
  <2>1. Status(t)' = Sale!Void
    BY <1>0, <1>1, <1>3, <1>5 DEF Status, Entry, Sale!Void, Sale!Entry
  <2> QED
    BY <1>0, <1>4, <2>1, StandingAllowedIsStep DEF Allowed
<1>6. CASE ~PickedLate(t)
  <2>1. lock = r /\ r \notin late
    BY <1>0, <1>1, <1>6 DEF PickedLate, LockHeld, Inside, InTx
  <2>2. available[t]
    BY <1>0, <1>1, <1>6, <2>1 DEF AllOrNothing, FreshView, PickedLate
  <2>3. Status(t) = Sale!HeldFor(r)
    BY <1>0, <1>1, <1>6, <2>1, <2>2, StandingAssumption
    DEF Status, Entry, PickedByHolder, Sale!HeldFor, Sale!Entry
  <2>4. Status(t)' = Sale!SoldTo(r)
    BY <1>0, <1>1, <1>2, <1>3, <1>6 DEF Status, Entry, Sale!SoldTo, Sale!Entry
  <2> QED
    BY <1>0, <1>4, <2>3, <2>4, StandingAllowedIsStep DEF Allowed
<1> QED
  BY <1>5, <1>6

\* A handler that fails or dies withholds its ticket as long as it has the
\* lock.
LEMMA StandingFailsSale ==
    ASSUME StandingIInv, NEW r \in Requests, TxFails(r) \/ CrashRequest(r)
    PROVE  SaleStep
<1> USE DEF StandingIInv, TypeOK
<1>0. PICK t : t = found[r]
  OBVIOUS
<1>1. /\ UNCHANGED <<lock, found, available, owner, late>>
      /\ pc' \in {[pc EXCEPT ![r] = "unlock"], [pc EXCEPT ![r] = "crashed"]}
  BY DEF TxFails, CrashRequest, Goto, Answer, txVars, databaseVars
<1>2. CASE lock # r \/ t \notin Tickets \/ pc[r] \notin {"update", "commit"}
  BY <1>0, <1>1, <1>2, StandingQuiet
<1>3. CASE lock = r /\ t \in Tickets /\ pc[r] \in {"update", "commit"}
  <2>1. \A u \in Tickets : PickedLate(u)' = PickedLate(u) /\ PickedByHolder(u)' = PickedByHolder(u)
    BY <1>0, <1>1 DEF PickedLate, PickedByHolder
  <2>2. \A u \in Tickets \ {t} : ~PickedByHolder(u)
    BY <1>0, <1>3 DEF PickedByHolder
  <2>3. \A u \in Tickets \ {t} : Status(u)' = Status(u)
    BY <1>0, <1>1, <2>1, <2>2 DEF Status, Entry
  <2>4. PickedByHolder(t) /\ pc'[lock] \notin {"update", "commit"}
    BY <1>0, <1>1, <1>3, StandingAssumption DEF PickedByHolder
  <2>5. CASE ~PickedLate(t) /\ available[t]
    <3>1. Status(t) = Sale!HeldFor(r)
      BY <1>0, <1>3, <2>4, <2>5 DEF Status, Entry, Sale!HeldFor, Sale!Entry
    <3>2. Status(t)' = Sale!Withheld
      BY <1>0, <1>1, <1>3, <2>1, <2>4, <2>5 DEF Status, Entry, Sale!Withheld, Sale!Entry
    <3> QED
      BY <1>0, <2>3, <3>1, <3>2, StandingAllowedIsStep DEF Allowed
  <2>6. CASE PickedLate(t) \/ ~available[t]
    <3>1. Status(t)' = Status(t)
      BY <1>0, <1>1, <1>3, <2>1, <2>6 DEF Status, Entry
    <3> QED
      BY <1>0, <2>3, <3>1, StandingAllowedIsStep DEF Allowed
  <2> QED
    BY <2>5, <2>6
<1> QED
  BY <1>2, <1>3

\* Freeing the lock puts a ticket that its holder failed to take on sale.
LEMMA StandingUnlockSale ==
    ASSUME StandingIInv, NEW r \in Requests, Unlock(r)
    PROVE  SaleStep
<1> USE DEF StandingIInv, TypeOK
<1>0. PICK t : t = found[r]
  OBVIOUS
<1>1. UNCHANGED <<found, available, owner, late>> /\ pc[r] = "unlock" /\ pc' = [pc EXCEPT ![r] = "done"]
  BY DEF Unlock, Goto, txVars, databaseVars
<1>2. CASE lock # r
  <2>1. UNCHANGED lock
    BY <1>0, <1>2 DEF Unlock
  <2> QED
    BY <1>0, <1>1, <1>2, <2>1, StandingQuiet
<1>3. CASE lock = r
  <2>1. lock' = Nobody
    BY <1>0, <1>3 DEF Unlock
  <2>2. \A u \in Tickets : PickedLate(u)' = PickedLate(u) /\ ~PickedByHolder(u)'
    BY <1>0, <1>1, <2>1 DEF PickedLate, PickedByHolder
  <2>3. \A u \in Tickets \ {t} : Status(u)' = Status(u)
    BY <1>0, <1>1, <1>3, <2>2 DEF Status, Entry, PickedByHolder
  <2>4. ASSUME t \in Tickets PROVE Allowed(t)
    <3>1. PickedByHolder(t) /\ pc[lock] \notin {"update", "commit"}
      BY <1>0, <1>1, <1>3, StandingAssumption DEF PickedByHolder
    <3>2. CASE PickedLate(t) \/ ~available[t]
      BY <1>0, <1>1, <2>2, <2>4, <3>2 DEF Allowed, Status, Entry
    <3>3. CASE ~PickedLate(t) /\ available[t]
      BY <1>0, <1>1, <2>2, <2>4, <3>1, <3>3
      DEF Allowed, Status, Entry, Sale!Withheld, Sale!OnSale, Sale!Entry
    <3> QED
      BY <1>0, <3>2, <3>3
  <2> QED
    BY <1>0, <2>3, <2>4, StandingAllowedIsStep
<1> QED
  BY <1>2, <1>3

\* A lock that runs out spoils the ticket that its handler has picked, unless
\* its transaction is over.
LEMMA StandingExpirySale ==
    ASSUME StandingIInv, LockExpires
    PROVE  SaleStep
<1> USE DEF StandingIInv, TypeOK
<1>0. PICK t : t = found[lock]
  OBVIOUS
<1>1. /\ UNCHANGED <<pc, found, available, owner>> /\ lock \in Requests /\ lock' = Nobody
      /\ late' = IF pc[lock] \in Inside THEN late \cup {lock} ELSE late
  BY DEF LockExpires, txVars, databaseVars
<1>2. \A u \in Tickets \ {t} : PickedLate(u)' = PickedLate(u) /\ ~PickedByHolder(u)
  BY <1>0, <1>1 DEF PickedLate, PickedByHolder
<1>3. \A u \in Tickets : ~PickedByHolder(u)'
  BY <1>0, <1>1 DEF PickedByHolder
<1>4. \A u \in Tickets \ {t} : Status(u)' = Status(u)
  BY <1>0, <1>1, <1>2, <1>3 DEF Status, Entry
<1>5. ASSUME t \in Tickets PROVE Allowed(t)
  <2>1. PickedByHolder(t)
    BY <1>0, <1>1, StandingAssumption DEF PickedByHolder
  <2>2. CASE PickedLate(t)'
    BY <1>0, <2>2 DEF Allowed, Status, Entry, Sale!Void, Sale!Entry
  <2>3. CASE ~PickedLate(t)'
    <3>1. ~PickedLate(t) /\ pc[lock] \notin {"update", "commit"}
      BY <1>0, <1>1, <1>5, <2>3 DEF PickedLate, Inside, InTx
    <3> QED
      BY <1>0, <1>1, <1>3, <1>5, <2>1, <2>3, <3>1
      DEF Allowed, Status, Entry, Sale!Withheld, Sale!OnSale, Sale!Entry
  <2> QED
    BY <2>2, <2>3
<1> QED
  BY <1>0, <1>4, <1>5, StandingAllowedIsStep

\* Every step of the standing flow is a step of the sale, or invisible to it.
LEMMA StandingStepIsSaleStep ==
    ASSUME StandingIInv, [Next]_vars
    PROVE  SaleStep
<1>1. CASE UNCHANGED vars
  BY <1>1, StandingQuiet DEF vars, txVars, databaseVars
<1>2. ASSUME NEW r \in Requests, Arrive(r) \/ RequestStep(r) \/ CrashRequest(r)
      PROVE  SaleStep
  BY <1>2, StandingEarlySale, StandingFindSale, StandingCommitSale, StandingFailsSale,
     StandingUnlockSale DEF RequestStep
<1>3. CASE Tick
  BY <1>3, StandingQuiet DEF Tick, txVars, databaseVars
<1> QED
  BY <1>1, <1>2, <1>3, StandingExpirySale DEF Next

\* Standing places are sold as TicketSale has it: each is held for one buyer at
\* a time and sold to that buyer for good, until a handler whose lock ran out
\* picks it (reservations.service.ts:62).
THEOREM StandingRefinesSale == Spec => StandingImplementsSale
<1>1. Init => Sale!SaleInit
  BY StandingAssumption
  DEF Init, Sale!SaleInit, Status, Entry, PickedLate, PickedByHolder, Sale!OnSale, Sale!Entry
<1>2. StandingIInv /\ [Next]_vars => [Sale!SaleNext]_Sale!saleVars
  BY StandingStepIsSaleStep DEF SaleStep
<1> QED
  BY <1>1, <1>2, StandingInvariance, PTL DEF Spec, StandingImplementsSale, Sale!SaleSpec

\* With a lock that outlives both limits no ticket is ever spoilt: the sale of
\* standing places is then TicketSale without its one exception.
THEOREM CoveringLockSpoilsNothing ==
    ASSUME \A ttl \in LockTtls : ttl > MaxWait + TxTimeout
    PROVE  Spec => [](\A t \in Tickets : Status(t) # Sale!Void)
<1>1. StandingIInv => \A t \in Tickets : Status(t) # Sale!Void
  <2> SUFFICES ASSUME StandingIInv, NEW t \in Tickets
               PROVE  Status(t) # Sale!Void
    OBVIOUS
  <2>1. ~PickedLate(t)
    BY DEF StandingIInv, TypeOK, LockCovers, PickedLate
  <2>2. Status(t).state # "void"
    BY <2>1 DEF Status, Entry
  <2> QED
    BY <2>2 DEF Sale!Void, Sale!Entry
<1> QED
  BY <1>1, StandingInvariance, PTL
===========================================================================
