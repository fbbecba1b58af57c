-------------------------- MODULE MCHttpPipeline --------------------------
(* HttpPipeline with two requests, one job and two processes.               *)
EXTENDS HttpPipelineInvariant

CONSTANTS q1, q2, j1, a1, a2

TwoRequests == {q1, q2}
OneJob      == {j1}
TwoServers  == {a1, a2}
LogoutBeside(k) == [r \in TwoRequests |-> IF r = q1 THEN k ELSE <<"session", "write">>]
TwoCases    == {LogoutBeside(<<"staff", "remove">>), LogoutBeside(<<"open", "read">>)}
Both        == {"development", "production"}
===========================================================================
