--------------------------- MODULE MCJointSales ---------------------------
(* JointSales with the placement of docker-compose.yml: app-1 locks in      *)
(* redis_lock, app-3 in redis_cache.                                        *)
EXTENDS JointInvariant, TLC

CONSTANTS q1, q2, q3, t1, e1, app1, app3, redisLock, redisCache

ThreeRequests == {q1, q2, q3}
OneTicket     == {t1}
OneEvent      == {e1}
TwoApps       == {app1, app3}
TwoServers    == {redisLock, redisCache}
AllInOneEvent == [t \in Tickets |-> e1]
ComposeFile   == app1 :> redisLock @@ app3 :> redisCache

\* The two halves of the placement mirror each other.
Mirror == app1 :> app3 @@ app3 :> app1 @@ redisLock :> redisCache @@ redisCache :> redisLock

Symmetry == Permutations(Requests) \cup {Mirror}
===========================================================================
