----------------------- MODULE HttpPipelineInvariant ----------------------
(***************************************************************************)
(* The inductive invariant of HttpPipeline: what the part of the pipeline a *)
(* request is in tells of its credentials and of what it has done, and what *)
(* each report, each dead process and each lost request goes back to.       *)
(***************************************************************************)
EXTENDS HttpPipeline

\* A request that is in the pipeline is in a process that runs, and one that
\* was never given to a process is still with nginx, or got nothing from it.
Placed ==
    \A r \in Requests :
       /\ pc[r] \notin {"client", "ended"} => at[r] \in Servers /\ up[at[r]] /\ tries[r] > 0
       /\ answer[r] = "server error" => at[r] \in Servers

\* Nobody is handed to another process once the upstreams are used up; and a
\* POST or PATCH, a booking among them, is handed to one process only.
ForwardedOnce ==
    \A r \in Requests :
       /\ pc[r] = "client" => tries[r] < MaxTries
       /\ Verb(r) = "write" => /\ tries[r] <= 1
                               /\ pc[r] = "client" => tries[r] = 0

\* What a request has shown at each part of the pipeline, and what its handler
\* had to be shown before it changed anything.
Guarded ==
    \A r \in Requests :
       /\ pc[r] \in {"roles", "role"} => Route(r) = "staff"
       /\ pc[r] \in {"access", "handler", "changed", "unchanged"} \/ done[r] =>
              (Route(r) = "staff" => role[r])
       /\ pc[r] \in {"handler", "changed", "unchanged"} \/ done[r] =>
              (Route(r) # "open" => token[r] # "absent")

\* A request that comes past a part of the pipeline after it has changed
\* something is a DELETE that lost its first process.
Effects ==
    \A r \in Requests :
       /\ pc[r] = "changed" => done[r]
       /\ done[r] => Verb(r) # "read" /\ tries[r] > 0
       /\ done[r] /\ pc[r] \notin {"changed", "ended"} =>
              Verb(r) = "remove" /\ (pc[r] # "client" => tries[r] > 1)

\* Every report, sent or rejected, and every 'failed' event is true.
ReportsTrue ==
    /\ \A c \in Requests \cup Jobs, s \in Servers :
          <<c, s>> \in sending \cup delivered \cup killers => Reported(c, s)
    /\ \A j \in Jobs, s \in Servers : <<j, s>> \in pending => j \in failed

\* The parts together imply every safety property of HttpPipeline.  LostForCause
\* alone is not inductive: a request must not be in flight when its own report
\* fails, which is so since reports are written with the answer (ReportsTrue).
PipelineIInv ==
    /\ TypeOK
    /\ Placed
    /\ ForwardedOnce
    /\ Guarded
    /\ Effects
    /\ ReportsTrue
    /\ AnswerTellsEffect
    /\ LostForCause
===========================================================================
