--------------------------- MODULE CommandContract ---------------------------
(***************************************************************************)
(* What processing a command promises to the control plane: the record     *)
(* moves along the transitions of commands/lifecycle.rs plus the expiry of *)
(* a lease, success is only recorded for a runtime that finished its work  *)
(* or cut over, and failure never for a deployment that is live.           *)
(***************************************************************************)
VARIABLES
    record,     \* status of the command record
    committed,  \* the deployment's route was cut over
    succeeded   \* the runtime returned success

cvars == <<record, committed, succeeded>>

Terminal == {"Succeeded", "Failed", "Cancelled", "Expired"}

\* can_transition
CanTransition(from, to) ==
    <<from, to>> \in {<<"Pending", "Claimed">>, <<"Claimed", "Running">>,
                      <<"Running", "Succeeded">>, <<"Running", "Failed">>,
                      <<"Pending", "Cancelled">>, <<"Pending", "Expired">>}

CInit == record = "Pending" /\ committed = FALSE /\ succeeded = FALSE

\* Runtime progress, possible only for a command this agent has running (or
\* whose lease ran out meanwhile).
Cutover ==
    /\ record \in {"Running", "Expired"} /\ ~committed /\ ~succeeded
    /\ committed' = TRUE /\ UNCHANGED <<record, succeeded>>

RuntimeSucceeds ==
    /\ record \in {"Running", "Expired"} /\ ~succeeded
    /\ succeeded' = TRUE /\ UNCHANGED <<record, committed>>

Move(to) ==
    /\ CanTransition(record, to)
    /\ to = "Succeeded" => committed \/ succeeded
    /\ to = "Failed" => ~committed
    /\ record' = to /\ UNCHANGED <<committed, succeeded>>

LeaseRunsOut ==
    /\ record \in {"Claimed", "Running"}
    /\ record' = "Expired" /\ UNCHANGED <<committed, succeeded>>

CNext ==
    \/ Cutover \/ RuntimeSucceeds \/ LeaseRunsOut
    \/ \E to \in {"Claimed", "Running"} \union Terminal : Move(to)

CSpec == CInit /\ [][CNext]_cvars
==============================================================================
