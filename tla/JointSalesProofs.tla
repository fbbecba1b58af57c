-------------------------- MODULE JointSalesProofs --------------------------
(***************************************************************************)
(* Proofs about JointSales, for every number of requests, tickets, events,  *)
(* processes and lock servers, and every placement of LOCK_URL.             *)
(***************************************************************************)
EXTENDS JointInvariant, TLAPS

\* Setting a lock changes what the requests of that server and key see.
LEMMA SetLockOK ==
    ASSUME TypeOK, NEW r \in Requests, NEW h \in Requests \cup {Nobody}, SetLock(r, h)
    PROVE  /\ lock' \in [LockServers -> [Keys -> Requests \cup {Nobody}]]
           /\ \A s \in Requests : lock'[Server(s)][key[s]] =
                 IF Server(s) = Server(r) /\ key[s] = key[r] THEN h ELSE Holder(s)
BY JointAssumption DEF TypeOK, SetLock, Server, Holder

\* Nothing is booked and nobody holds a lock at first.
LEMMA JointInitOK == Init => JointIInv
BY JointAssumption DEF Init, JointIInv, TypeOK, LockHeld, Progress, SoldToBuyer,
   FlagUp, SeenIsAvoided, SeatsApart, StandsApart, Rivals, Claimed, Past, Avoids, Pending, Booked, Seats, Stands, Critical,
   PCs, TxStates, Keys

\* A handler gets a lock that nobody holds.
LEMMA AcquireLockOK ==
    ASSUME JointIInv, NEW r \in Requests, AcquireLock(r)
    PROVE  JointIInv'
<1> USE JointAssumption
    DEF JointIInv, Seats, Stands, AcquireLock, SetLock, Goto, txVars, databaseVars, history
<1>1. TypeOK'
  BY DEF TypeOK, PCs, TxStates, Keys
<1>2. LockHeld'
  BY DEF TypeOK, LockHeld, Critical, Holder, Server
<1>3. Progress'
  BY DEF TypeOK, Progress, Pending
<1>4. SoldToBuyer'
  BY DEF TypeOK, Progress, SoldToBuyer, Booked
<1>5. FlagUp'
  BY DEF TypeOK, Progress, FlagUp, Claimed, Pending
<1>6. SeenIsAvoided'
  BY DEF TypeOK, Progress, SoldToBuyer, SeenIsAvoided, Avoids, Booked
<1>7. SeatsApart'
  BY DEF TypeOK, Progress, LockHeld, SoldToBuyer, FlagUp, Claimed, SeatsApart, Rivals,
         Past, Pending, Server, Holder, Critical, Booked
<1>8. StandsApart'
  BY DEF TypeOK, Progress, LockHeld, SoldToBuyer, StandsApart, Rivals, Avoids,
         Pending, Booked, Server, Holder, Critical
<1> QED
  BY <1>1, <1>2, <1>3, <1>4, <1>5, <1>6, <1>7, <1>8

\* A handler that is past its critical part frees its own lock.
LEMMA UnlockOK ==
    ASSUME JointIInv, NEW r \in Requests, Unlock(r)
    PROVE  JointIInv'
<1> USE JointAssumption
    DEF JointIInv, Seats, Stands, Unlock, Goto, txVars, databaseVars, history
<1>1. TypeOK' /\ LockHeld'
  <2>1. CASE Holder(r) = r
    <3>1. /\ lock' \in [LockServers -> [Keys -> Requests \cup {Nobody}]]
          /\ \A s \in Requests : lock'[Server(s)][key[s]] =
                IF Server(s) = Server(r) /\ key[s] = key[r] THEN Nobody ELSE Holder(s)
      BY <2>1, SetLockOK
    <3>2. TypeOK'
      BY <3>1 DEF TypeOK, PCs
    <3>3. LockHeld'
      BY <2>1, <3>1 DEF TypeOK, LockHeld, Critical, Holder, Server
    <3> QED
      BY <3>2, <3>3
  <2>2. CASE Holder(r) # r
    <3>1. TypeOK'
      BY <2>2 DEF TypeOK, PCs
    <3>2. LockHeld'
      BY <2>2 DEF TypeOK, LockHeld, Critical, Holder, Server
    <3> QED
      BY <3>1, <3>2
  <2> QED
    BY <2>1, <2>2
<1>2. Progress'
  BY DEF TypeOK, Progress, Pending
<1>3. SoldToBuyer'
  BY DEF TypeOK, Progress, SoldToBuyer, Booked
<1>4. FlagUp'
  BY DEF TypeOK, Progress, FlagUp, Claimed, Pending
<1>5. SeenIsAvoided'
  BY DEF TypeOK, Progress, SoldToBuyer, SeenIsAvoided, Avoids, Booked
<1>6. SeatsApart'
  BY DEF TypeOK, Progress, LockHeld, SoldToBuyer, FlagUp, Claimed, SeatsApart, Rivals,
         Past, Pending, Server, Holder, Critical, Booked
<1>7. StandsApart'
  BY DEF TypeOK, Progress, LockHeld, SoldToBuyer, StandsApart, Rivals, Avoids,
         Pending, Booked, Server, Holder, Critical
<1> QED
  BY <1>1, <1>2, <1>3, <1>4, <1>5, <1>6, <1>7

\* A lock runs out, and its holder is on record if it still needed it.
LEMMA LockExpiresOK ==
    ASSUME JointIInv, NEW r \in Requests, LockExpires(r)
    PROVE  JointIInv'
<1> USE JointAssumption
    DEF JointIInv, Seats, Stands, LockExpires, SetLock, requestVars, txVars, databaseVars
<1>1. TypeOK'
  <2>1. lock' \in [LockServers -> [Keys -> Requests \cup {Nobody}]]
    BY SetLockOK
  <2>2. lapsed' \subseteq Requests
    BY DEF TypeOK
  <2> QED
    BY <2>1, <2>2 DEF TypeOK
<1>2. LockHeld'
  BY DEF TypeOK, LockHeld, Critical, Holder, Server
<1>3. Progress'
  BY DEF TypeOK, Progress, Pending
<1>4. SoldToBuyer'
  BY DEF TypeOK, Progress, SoldToBuyer, Booked
<1>5. FlagUp'
  BY DEF TypeOK, Progress, FlagUp, Claimed, Pending
<1>6. SeenIsAvoided'
  BY DEF TypeOK, Progress, SoldToBuyer, SeenIsAvoided, Avoids, Booked
<1>7. SeatsApart'
  BY DEF TypeOK, Progress, LockHeld, SoldToBuyer, FlagUp, Claimed, SeatsApart, Rivals,
         Past, Pending, Server, Holder, Critical, Booked
<1>8. StandsApart'
  BY DEF TypeOK, Progress, LockHeld, SoldToBuyer, StandsApart, Rivals, Avoids,
         Pending, Booked, Server, Holder, Critical
<1> QED
  BY <1>1, <1>2, <1>3, <1>4, <1>5, <1>6, <1>7, <1>8

\* A flag that is down means that whoever is past its checks has sold.
LEMMA ReadFlagOK ==
    ASSUME JointIInv, NEW r \in Seats, ReadFlag(r)
    PROVE  JointIInv'
<1> USE JointAssumption
    DEF JointIInv, Seats, Stands, ReadFlag, Goto, txVars, databaseVars, history
<1>1. TypeOK'
  BY DEF TypeOK, PCs, TxStates, Keys
<1>2. LockHeld'
  BY DEF TypeOK, LockHeld, Critical, Holder, Server
<1>3. Progress'
  BY DEF TypeOK, Progress, Pending
<1>4. SoldToBuyer'
  BY DEF TypeOK, Progress, SoldToBuyer, Booked
<1>5. FlagUp'
  BY DEF TypeOK, Progress, FlagUp, Claimed, Pending
<1>6. SeenIsAvoided'
  BY DEF TypeOK, Progress, SoldToBuyer, SeenIsAvoided, Avoids, Booked
<1>7. SeatsApart'
  BY DEF TypeOK, Progress, LockHeld, SoldToBuyer, FlagUp, Claimed, SeatsApart, Rivals,
         Past, Pending, Server, Holder, Critical, Booked
<1>8. StandsApart'
  BY DEF TypeOK, Progress, LockHeld, SoldToBuyer, StandsApart, Rivals, Avoids,
         Pending, Booked, Server, Holder, Critical
<1> QED
  BY <1>1, <1>2, <1>3, <1>4, <1>5, <1>6, <1>7, <1>8

\* A ticket still on sale means that nobody else is past its checks.
LEMMA ReadTicketOK ==
    ASSUME JointIInv, NEW r \in Seats, ReadTicket(r)
    PROVE  JointIInv'
<1> USE JointAssumption
    DEF JointIInv, Seats, Stands, ReadTicket, Goto, txVars, databaseVars
<1>1. TypeOK'
  BY DEF TypeOK, PCs, TxStates, Keys, Booked
<1>2. LockHeld'
  BY DEF TypeOK, LockHeld, Critical, Holder, Server
<1>3. Progress'
  BY DEF TypeOK, Progress, Pending
<1>4. SoldToBuyer'
  BY DEF TypeOK, Progress, SoldToBuyer, Booked
<1>5. FlagUp'
  BY DEF TypeOK, Progress, FlagUp, Claimed, Pending
<1>6. SeenIsAvoided'
  BY DEF TypeOK, Progress, SoldToBuyer, SeenIsAvoided, Avoids, Booked
<1>7. SeatsApart'
  BY DEF TypeOK, Progress, LockHeld, SoldToBuyer, FlagUp, Claimed, SeatsApart, Rivals,
         Past, Pending, Server, Holder, Critical, Booked
<1>8. StandsApart'
  BY DEF TypeOK, Progress, LockHeld, SoldToBuyer, StandsApart, Rivals, Avoids,
         Pending, Booked, Server, Holder, Critical
<1> QED
  BY <1>1, <1>2, <1>3, <1>4, <1>5, <1>6, <1>7, <1>8

\* The flag goes up before the claim it is for.
LEMMA MarkOK ==
    ASSUME JointIInv, NEW r \in Seats, Mark(r)
    PROVE  JointIInv'
<1> USE JointAssumption
    DEF JointIInv, Seats, Stands, Mark, Goto, txVars, databaseVars, history
<1>1. TypeOK'
  BY DEF TypeOK, PCs, TxStates, Keys
<1>2. LockHeld'
  BY DEF TypeOK, LockHeld, Critical, Holder, Server
<1>3. Progress'
  BY DEF TypeOK, Progress, Pending
<1>4. SoldToBuyer'
  BY DEF TypeOK, Progress, SoldToBuyer, Booked
<1>5. FlagUp'
  BY DEF TypeOK, Progress, FlagUp, Claimed, Pending
<1>6. SeenIsAvoided'
  BY DEF TypeOK, Progress, SoldToBuyer, SeenIsAvoided, Avoids, Booked
<1>7. SeatsApart'
  BY DEF TypeOK, Progress, LockHeld, SoldToBuyer, FlagUp, Claimed, SeatsApart, Rivals,
         Past, Pending, Server, Holder, Critical, Booked
<1>8. StandsApart'
  BY DEF TypeOK, Progress, LockHeld, SoldToBuyer, StandsApart, Rivals, Avoids,
         Pending, Booked, Server, Holder, Critical
<1> QED
  BY <1>1, <1>2, <1>3, <1>4, <1>5, <1>6, <1>7, <1>8

\* A failed call leads out of the handler.
LEMMA CallFailsOK ==
    ASSUME JointIInv, NEW r \in Seats, CallFails(r)
    PROVE  JointIInv'
<1> USE JointAssumption
    DEF JointIInv, Seats, Stands, CallFails, Goto, txVars, databaseVars, history
<1>1. TypeOK'
  BY DEF TypeOK, PCs, TxStates, Keys
<1>2. LockHeld'
  BY DEF TypeOK, LockHeld, Critical, Holder, Server
<1>3. Progress'
  BY DEF TypeOK, Progress, Pending
<1>4. SoldToBuyer'
  BY DEF TypeOK, Progress, SoldToBuyer, Booked
<1>5. FlagUp'
  BY DEF TypeOK, Progress, FlagUp, Claimed, Pending
<1>6. SeenIsAvoided'
  BY DEF TypeOK, Progress, SoldToBuyer, SeenIsAvoided, Avoids, Booked
<1>7. SeatsApart'
  BY DEF TypeOK, Progress, LockHeld, SoldToBuyer, FlagUp, Claimed, SeatsApart, Rivals,
         Past, Pending, Server, Holder, Critical, Booked
<1>8. StandsApart'
  BY DEF TypeOK, Progress, LockHeld, SoldToBuyer, StandsApart, Rivals, Avoids,
         Pending, Booked, Server, Holder, Critical
<1> QED
  BY <1>1, <1>2, <1>3, <1>4, <1>5, <1>6, <1>7, <1>8

\* The claim passes from the handler to the job.
LEMMA EnqueueOK ==
    ASSUME JointIInv, NEW r \in Seats, Enqueue(r)
    PROVE  JointIInv'
<1> USE JointAssumption
    DEF JointIInv, Seats, Stands, Enqueue, AddJob, Goto, databaseVars, history
<1>1. TypeOK'
  BY DEF TypeOK, PCs, TxStates, Keys
<1>2. LockHeld'
  BY DEF TypeOK, LockHeld, Critical, Holder, Server
<1>3. Progress'
  BY DEF TypeOK, Progress, Pending
<1>4. SoldToBuyer'
  BY DEF TypeOK, Progress, SoldToBuyer, Booked
<1>5. FlagUp'
  BY DEF TypeOK, Progress, FlagUp, Claimed, Pending
<1>6. SeenIsAvoided'
  BY DEF TypeOK, Progress, SoldToBuyer, SeenIsAvoided, Avoids, Booked
<1>7. SeatsApart'
  BY DEF TypeOK, Progress, LockHeld, SoldToBuyer, FlagUp, Claimed, SeatsApart, Rivals,
         Past, Pending, Server, Holder, Critical, Booked
<1>8. StandsApart'
  BY DEF TypeOK, Progress, LockHeld, SoldToBuyer, StandsApart, Rivals, Avoids,
         Pending, Booked, Server, Holder, Critical
<1> QED
  BY <1>1, <1>2, <1>3, <1>4, <1>5, <1>6, <1>7, <1>8

\* The claim passes to the job, or is given up.
LEMMA EnqueueFailsOK ==
    ASSUME JointIInv, NEW r \in Seats, EnqueueFails(r)
    PROVE  JointIInv'
<1> USE JointAssumption
    DEF JointIInv, Seats, Stands, EnqueueFails, AddJob, Goto, txVars, databaseVars, history
<1>1. TypeOK'
  <2>1. /\ tx' \in [Requests -> TxStates] /\ view' \in [Requests -> SUBSET Tickets]
        /\ found' \in [Requests -> Tickets \cup {NoTicket}]
    BY DEF TypeOK, TxStates, Keys
  <2> QED
    BY <2>1 DEF TypeOK, PCs, Keys
<1>2. LockHeld'
  BY DEF TypeOK, LockHeld, Critical, Holder, Server
<1>3. Progress'
  <2>1. CASE UNCHANGED <<tx, view, found>>
    BY <2>1 DEF TypeOK, Progress, Pending
  <2>2. CASE tx' = [tx EXCEPT ![r] = "queued"] /\ found' = [found EXCEPT ![r] = key[r]]
             /\ UNCHANGED view
    BY <2>2 DEF TypeOK, Progress, Pending
  <2> QED
    BY <2>1, <2>2
<1>4. SoldToBuyer'
  BY DEF TypeOK, Progress, SoldToBuyer, Booked
<1>5. FlagUp'
  BY DEF TypeOK, Progress, FlagUp, Claimed, Pending
<1>6. SeenIsAvoided'
  BY DEF TypeOK, Progress, SoldToBuyer, SeenIsAvoided, Avoids, Booked
<1>7. SeatsApart'
  BY DEF TypeOK, Progress, LockHeld, SoldToBuyer, FlagUp, Claimed, SeatsApart, Rivals,
         Past, Pending, Server, Holder, Critical, Booked
<1>8. StandsApart'
  BY DEF TypeOK, Progress, LockHeld, SoldToBuyer, StandsApart, Rivals, Avoids,
         Pending, Booked, Server, Holder, Critical
<1> QED
  BY <1>1, <1>2, <1>3, <1>4, <1>5, <1>6, <1>7, <1>8

\* A flag that a claim still needs is lost: the ticket is exposed.
LEMMA UnmarkOK ==
    ASSUME JointIInv, NEW r \in Seats, Unmark(r)
    PROVE  JointIInv'
<1> USE JointAssumption
    DEF JointIInv, Seats, Stands, Unmark, LoseFlag, Goto, txVars, databaseVars
<1>1. TypeOK'
  <2>1. exposed' \subseteq Tickets /\ soldOut' \in [Tickets -> BOOLEAN]
    BY DEF TypeOK
  <2> QED
    BY <2>1 DEF TypeOK, PCs, Keys
<1>2. LockHeld'
  BY DEF TypeOK, LockHeld, Critical, Holder, Server
<1>3. Progress'
  BY DEF TypeOK, Progress, Pending
<1>4. SoldToBuyer'
  BY DEF TypeOK, Progress, SoldToBuyer, Booked
<1>5. FlagUp'
  BY DEF TypeOK, Progress, FlagUp, Claimed, Pending
<1>6. SeenIsAvoided'
  BY DEF TypeOK, Progress, SoldToBuyer, SeenIsAvoided, Avoids, Booked
<1>7. SeatsApart'
  BY DEF TypeOK, Progress, LockHeld, SoldToBuyer, FlagUp, Claimed, SeatsApart, Rivals,
         Past, Pending, Server, Holder, Critical, Booked
<1>8. StandsApart'
  BY DEF TypeOK, Progress, LockHeld, SoldToBuyer, StandsApart, Rivals, Avoids,
         Pending, Booked, Server, Holder, Critical
<1> QED
  BY <1>1, <1>2, <1>3, <1>4, <1>5, <1>6, <1>7, <1>8

\* A job's transaction begins.
LEMMA StartJobOK ==
    ASSUME JointIInv, NEW r \in Seats, StartJob(r)
    PROVE  JointIInv'
<1> USE JointAssumption
    DEF JointIInv, Seats, Stands, StartJob, requestVars, databaseVars, history
<1>1. TypeOK'
  BY DEF TypeOK, PCs, TxStates, Keys
<1>2. LockHeld'
  BY DEF TypeOK, LockHeld, Critical, Holder, Server
<1>3. Progress'
  BY DEF TypeOK, Progress, Pending
<1>4. SoldToBuyer'
  BY DEF TypeOK, Progress, SoldToBuyer, Booked
<1>5. FlagUp'
  BY DEF TypeOK, Progress, FlagUp, Claimed, Pending
<1>6. SeenIsAvoided'
  BY DEF TypeOK, Progress, SoldToBuyer, SeenIsAvoided, Avoids, Booked
<1>7. SeatsApart'
  BY DEF TypeOK, Progress, LockHeld, SoldToBuyer, FlagUp, Claimed, SeatsApart, Rivals,
         Past, Pending, Server, Holder, Critical, Booked
<1>8. StandsApart'
  BY DEF TypeOK, Progress, LockHeld, SoldToBuyer, StandsApart, Rivals, Avoids,
         Pending, Booked, Server, Holder, Critical
<1> QED
  BY <1>1, <1>2, <1>3, <1>4, <1>5, <1>6, <1>7, <1>8

\* The snapshot holds no ticket that has been booked.
LEMMA SnapshotOK ==
    ASSUME JointIInv, NEW r \in Stands, Snapshot(r)
    PROVE  JointIInv'
<1> USE JointAssumption
    DEF JointIInv, Seats, Stands, Snapshot, requestVars, databaseVars
<1>1. TypeOK'
  BY DEF TypeOK, PCs, TxStates, Keys, Booked
<1>2. LockHeld'
  BY DEF TypeOK, LockHeld, Critical, Holder, Server
<1>3. Progress'
  BY DEF TypeOK, Progress, Pending
<1>4. SoldToBuyer'
  BY DEF TypeOK, Progress, SoldToBuyer, Booked
<1>5. FlagUp'
  BY DEF TypeOK, Progress, FlagUp, Claimed, Pending
<1>6. SeenIsAvoided'
  BY DEF TypeOK, Progress, SoldToBuyer, SeenIsAvoided, Avoids, Booked
<1>7. SeatsApart'
  BY DEF TypeOK, Progress, LockHeld, SoldToBuyer, FlagUp, Claimed, SeatsApart, Rivals,
         Past, Pending, Server, Holder, Critical, Booked
<1>8. StandsApart'
  BY DEF TypeOK, Progress, LockHeld, SoldToBuyer, StandsApart, Rivals, Avoids,
         Pending, Booked, Server, Holder, Critical
<1> QED
  BY <1>1, <1>2, <1>3, <1>4, <1>5, <1>6, <1>7, <1>8

\* A ticket of the snapshot is chosen, or none is there.
LEMMA FindStandingOK ==
    ASSUME JointIInv, NEW r \in Stands, FindStanding(r)
    PROVE  JointIInv'
<1> USE JointAssumption
    DEF JointIInv, Seats, Stands, FindStanding, Goto, databaseVars, history
<1>1. TypeOK' /\ Progress' /\ SoldToBuyer'
  <2>1. CASE view[r] = {}
    <3>1. /\ tx' = [tx EXCEPT ![r] = "failed"] /\ pc' = [pc EXCEPT ![r] = "unlock"]
          /\ UNCHANGED found
      BY <2>1
    <3>2. tx' \in [Requests -> TxStates] /\ pc' \in [Requests -> PCs]
      BY <3>1 DEF TypeOK, TxStates, PCs
    <3>3. TypeOK'
      BY <3>1, <3>2 DEF TypeOK
    <3>4. Progress'
      BY <3>1 DEF TypeOK, Progress, Pending
    <3>5. SoldToBuyer'
      BY <3>1 DEF TypeOK, Progress, SoldToBuyer, Booked
    <3> QED
      BY <3>3, <3>4, <3>5
  <2>2. CASE view[r] # {}
    <3>1. PICK t \in view[r] : found' = [found EXCEPT ![r] = t] /\ UNCHANGED <<pc, tx>>
      BY <2>2
    <3>2. TypeOK'
      BY <3>1 DEF TypeOK
    <3>3. Progress'
      BY <3>1 DEF TypeOK, Progress, Pending
    <3>4. SoldToBuyer'
      BY <3>1 DEF TypeOK, Progress, SoldToBuyer, Booked
    <3> QED
      BY <3>2, <3>3, <3>4
  <2> QED
    BY <2>1, <2>2
<1>2. LockHeld'
  BY DEF TypeOK, LockHeld, Critical, Holder, Server
<1>3. FlagUp'
  BY DEF TypeOK, Progress, FlagUp, Claimed, Pending
<1>4. SeenIsAvoided'
  BY DEF TypeOK, Progress, SoldToBuyer, SeenIsAvoided, Avoids, Booked
<1>5. SeatsApart'
  BY DEF TypeOK, Progress, LockHeld, SoldToBuyer, FlagUp, Claimed, SeatsApart, Rivals,
         Past, Pending, Server, Holder, Critical, Booked
<1>6. StandsApart'
  BY DEF TypeOK, Progress, LockHeld, SoldToBuyer, StandsApart, Rivals, Avoids,
         Pending, Booked, Server, Holder, Critical
<1> QED
  BY <1>1, <1>2, <1>3, <1>4, <1>5, <1>6

\* The update is not visible to others yet.
LEMMA TakeTicketOK ==
    ASSUME JointIInv, NEW r \in Requests, TakeTicket(r)
    PROVE  JointIInv'
<1> USE JointAssumption
    DEF JointIInv, Seats, Stands, TakeTicket, requestVars, databaseVars, history
<1>1. TypeOK'
  BY DEF TypeOK, PCs, TxStates, Keys
<1>2. LockHeld'
  BY DEF TypeOK, LockHeld, Critical, Holder, Server
<1>3. Progress'
  BY DEF TypeOK, Progress, Pending
<1>4. SoldToBuyer'
  BY DEF TypeOK, Progress, SoldToBuyer, Booked
<1>5. FlagUp'
  BY DEF TypeOK, Progress, FlagUp, Claimed, Pending
<1>6. SeenIsAvoided'
  BY DEF TypeOK, Progress, SoldToBuyer, SeenIsAvoided, Avoids, Booked
<1>7. SeatsApart'
  BY DEF TypeOK, Progress, LockHeld, SoldToBuyer, FlagUp, Claimed, SeatsApart, Rivals,
         Past, Pending, Server, Holder, Critical, Booked
<1>8. StandsApart'
  BY DEF TypeOK, Progress, LockHeld, SoldToBuyer, StandsApart, Rivals, Avoids,
         Pending, Booked, Server, Holder, Critical
<1> QED
  BY <1>1, <1>2, <1>3, <1>4, <1>5, <1>6, <1>7, <1>8

\* A sale is committed: whoever is to avoid it cannot be in its transaction.
LEMMA CommitOK ==
    ASSUME JointIInv, NEW r \in Requests, Commit(r)
    PROVE  JointIInv'
<1> USE JointAssumption
    DEF JointIInv, Seats, Stands, Commit, HandlerGoesOn, Goto, history
<1>1. TypeOK'
  BY DEF TypeOK, PCs, TxStates, Keys
<1>2. LockHeld'
  BY DEF TypeOK, LockHeld, Critical, Holder, Server
<1>3. Progress'
  BY DEF TypeOK, Progress, Pending
<1>4. SoldToBuyer'
  BY DEF TypeOK, Progress, SoldToBuyer, Booked
<1>5. FlagUp'
  BY DEF TypeOK, Progress, FlagUp, Claimed, Pending
<1>6. SeenIsAvoided'
  BY DEF TypeOK, Progress, SoldToBuyer, SeenIsAvoided, Avoids, Booked
<1>7. SeatsApart'
  BY DEF TypeOK, Progress, LockHeld, SoldToBuyer, FlagUp, Claimed, SeatsApart, Rivals,
         Past, Pending, Server, Holder, Critical, Booked
<1>8. StandsApart'
  BY DEF TypeOK, Progress, LockHeld, SoldToBuyer, StandsApart, Rivals, Avoids,
         Pending, Booked, Server, Holder, Critical
<1> QED
  BY <1>1, <1>2, <1>3, <1>4, <1>5, <1>6, <1>7, <1>8

\* A transaction is rolled back.
LEMMA TxFailsOK ==
    ASSUME JointIInv, NEW r \in Requests, TxFails(r)
    PROVE  JointIInv'
<1> USE JointAssumption
    DEF JointIInv, Seats, Stands, TxFails, HandlerGoesOn, Goto, databaseVars, history
<1>1. TypeOK'
  <2>1. tx' \in [Requests -> TxStates]
    BY DEF TypeOK, TxStates
  <2>2. pc' \in [Requests -> PCs]
    BY DEF TypeOK, PCs
  <2> QED
    BY <2>1, <2>2 DEF TypeOK, Keys
<1>2. LockHeld'
  BY DEF TypeOK, LockHeld, Critical, Holder, Server
<1>3. Progress'
  BY DEF TypeOK, Progress, Pending
<1>4. SoldToBuyer'
  BY DEF TypeOK, Progress, SoldToBuyer, Booked
<1>5. FlagUp'
  BY DEF TypeOK, Progress, FlagUp, Claimed, Pending
<1>6. SeenIsAvoided'
  BY DEF TypeOK, Progress, SoldToBuyer, SeenIsAvoided, Avoids, Booked
<1>7. SeatsApart'
  BY DEF TypeOK, Progress, LockHeld, SoldToBuyer, FlagUp, Claimed, SeatsApart, Rivals,
         Past, Pending, Server, Holder, Critical, Booked
<1>8. StandsApart'
  BY DEF TypeOK, Progress, LockHeld, SoldToBuyer, StandsApart, Rivals, Avoids,
         Pending, Booked, Server, Holder, Critical
<1> QED
  BY <1>1, <1>2, <1>3, <1>4, <1>5, <1>6, <1>7, <1>8

\* The flag's TTL runs out.
LEMMA FlagExpiresOK ==
    ASSUME JointIInv, NEW t \in Tickets, FlagExpires(t)
    PROVE  JointIInv'
<1> USE JointAssumption
    DEF JointIInv, Seats, Stands, FlagExpires, LoseFlag, requestVars, txVars, databaseVars
<1>1. TypeOK'
  <2>1. exposed' \subseteq Tickets /\ soldOut' \in [Tickets -> BOOLEAN]
    BY DEF TypeOK
  <2> QED
    BY <2>1 DEF TypeOK, Keys
<1>2. LockHeld'
  BY DEF TypeOK, LockHeld, Critical, Holder, Server
<1>3. Progress'
  BY DEF TypeOK, Progress, Pending
<1>4. SoldToBuyer'
  BY DEF TypeOK, Progress, SoldToBuyer, Booked
<1>5. FlagUp'
  BY DEF TypeOK, Progress, FlagUp, Claimed, Pending
<1>6. SeenIsAvoided'
  BY DEF TypeOK, Progress, SoldToBuyer, SeenIsAvoided, Avoids, Booked
<1>7. SeatsApart'
  BY DEF TypeOK, Progress, LockHeld, SoldToBuyer, FlagUp, Claimed, SeatsApart, Rivals,
         Past, Pending, Server, Holder, Critical, Booked
<1>8. StandsApart'
  BY DEF TypeOK, Progress, LockHeld, SoldToBuyer, StandsApart, Rivals, Avoids,
         Pending, Booked, Server, Holder, Critical
<1> QED
  BY <1>1, <1>2, <1>3, <1>4, <1>5, <1>6, <1>7, <1>8

\* JointIInv holds for ever: each step of a handler, a worker or a clock
\* preserves it.
THEOREM JointInvariance == Spec => []JointIInv
<1>1. JointIInv /\ [Next]_vars => JointIInv'
  <2> SUFFICES ASSUME JointIInv, [Next]_vars PROVE JointIInv'
    OBVIOUS
  <2>1. CASE UNCHANGED vars
    BY <2>1 DEF vars, requestVars, txVars, databaseVars, history, JointIInv, TypeOK, LockHeld,
       Progress, SoldToBuyer, FlagUp, SeenIsAvoided, SeatsApart, StandsApart, Rivals, Claimed,
       Past, Avoids, Pending, Booked, Seats, Stands, Holder, Server
  <2>2. CASE Next
    BY <2>2, AcquireLockOK, UnlockOK, LockExpiresOK, ReadFlagOK, ReadTicketOK,
       MarkOK, CallFailsOK, EnqueueOK, EnqueueFailsOK, UnmarkOK,
       StartJobOK, SnapshotOK, FindStandingOK, TakeTicketOK, CommitOK,
       TxFailsOK, FlagExpiresOK
       DEF Next
  <2> QED
    BY <2>1, <2>2
<1> QED
  BY JointInitOK, <1>1, PTL DEF Spec

\* Every variable keeps its type.
THEOREM JointTypeCorrect == Spec => []TypeOK
<1>1. JointIInv => TypeOK
  BY DEF JointIInv
<1> QED
  BY JointInvariance, <1>1, PTL

\* Whatever the placement of the locks, two buyers who share a ticket have one
\* of the named causes.
THEOREM SharingHasCause == Spec => []SharedForCause
<1>1. JointIInv => SharedForCause
  <2> SUFFICES ASSUME JointIInv, NEW r \in Requests, NEW s \in Requests, Share(r, s),
                      ~(r \in Seats <=> s \in Stands), Server(r) = Server(s),
                      {r, s} \cap lapsed = {}, ~(r \in Seats /\ found[r] \in exposed)
               PROVE  FALSE
    BY DEF SharedForCause
  <2> USE DEF JointIInv, Share, Booked, Progress
  <2>1. CASE r \in Seats
    BY <2>1 DEF SeatsApart, Rivals, Past, Seats, Stands
  <2>2. CASE r \in Stands
    BY <2>2, JointAssumption DEF StandsApart, Rivals, Seats, Stands
  <2> QED
    BY <2>1, <2>2 DEF Stands
<1> QED
  BY JointInvariance, <1>1, PTL

\* Two buyers who share a ticket both looked before the other had booked,
\* whatever happened to locks and flags.
THEOREM SharingOverlaps == Spec => []OverlapOnly
<1>1. JointIInv => OverlapOnly
  BY DEF JointIInv, OverlapOnly, SeenIsAvoided, Avoids, Share, Booked, Progress, Seats, Stands
<1> QED
  BY JointInvariance, <1>1, PTL

\* A booked ticket belongs to a buyer who booked it.
THEOREM OwnerHasBooked == Spec => []OwnerBooked
<1>1. JointIInv => OwnerBooked
  <2> SUFFICES ASSUME JointIInv, NEW r \in Booked
               PROVE  /\ ~available[found[r]]
                      /\ owner[found[r]] = r \/ Share(r, owner[found[r]])
    BY DEF OwnerBooked
  <2>1. found[r] \in Tickets /\ ~available[found[r]]
    BY DEF JointIInv, SoldToBuyer, Booked, Progress
  <2>2. owner[found[r]] \in Booked /\ found[owner[found[r]]] = found[r]
    BY <2>1 DEF JointIInv, SoldToBuyer
  <2> QED
    BY <2>1, <2>2 DEF Share
<1> QED
  BY JointInvariance, <1>1, PTL

\* If every process takes its locks in the same Redis, as README.md:59 has it,
\* a seat has two buyers only if a lock ran out under a handler or a flag that
\* was needed went: the placement of the locks is all that is wrong with it.
THEOREM OneServerSellsOnce ==
    ASSUME \A a, b \in Apps : LockUrl[a] = LockUrl[b]
    PROVE  Spec => []LockSellsOnce
<1>1. TypeOK /\ SharedForCause => LockSellsOnce
  <2> SUFFICES ASSUME TypeOK, SharedForCause, NEW r \in Seats, NEW s \in Seats, Share(r, s)
               PROVE  lapsed # {} \/ exposed # {}
    BY DEF LockSellsOnce
  <2>1. Server(r) = Server(s)
    BY DEF TypeOK, Server, Seats
  <2>2. r \in Requests /\ s \in Requests /\ ~(r \in Seats <=> s \in Stands)
    BY DEF Seats, Stands
  <2>3. {r, s} \cap lapsed # {} \/ found[r] \in exposed
    BY <2>1, <2>2 DEF SharedForCause
  <2> QED
    BY <2>3
<1> QED
  BY JointTypeCorrect, SharingHasCause, <1>1, PTL
=============================================================================
