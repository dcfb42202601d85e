----------------------------- MODULE HostEvents -----------------------------
(***************************************************************************)
(* What the events of the selected host promise the frontend, without      *)
(* mutexes, workers, callbacks and sessions in the making: which event may *)
(* follow which, and what it says of the connection and of the launch it   *)
(* answers.                                                                *)
(***************************************************************************)
CONSTANTS Apps,       \* applications the user may launch
          NoApp       \* no application

VARIABLES connected,    \* a host is selected
          leaving,      \* a disconnect has been accepted
          session,      \* the launch: "none", "starting", "running"
          application,  \* what that launch asked for
          overtaker,    \* what a launch asks for that has got ahead of the last
                        \* event of the one before, or NoApp
          event,        \* the last event
          listening     \* until the backend is shut down

vars == <<connected, leaving, session, application, overtaker, event, listening>>
launch == <<session, application, overtaker>>

Init ==
    /\ connected = FALSE /\ leaving = FALSE
    /\ session = "none" /\ application = NoApp /\ overtaker = NoApp
    /\ event = [type |-> "NONE", app |-> NoApp]
    /\ listening = TRUE

Says(type, a) == event' = IF listening THEN [type |-> type, app |-> a] ELSE event

(* Nothing is in progress: no launch unanswered, nobody leaving.           *)
Quiet == session = "none" /\ ~leaving

Opens ==
    /\ Quiet
    /\ connected' = TRUE /\ Says("CONNECTION_READY", NoApp)
    /\ UNCHANGED <<leaving, launch, listening>>

(* An attempt that gets nowhere leaves the last connection open.           *)
OpenFails ==
    /\ Quiet
    /\ connected' \in {connected, FALSE} /\ Says("CONNECTION_FAILED", NoApp)
    /\ UNCHANGED <<leaving, launch, listening>>

Pairs ==
    /\ Quiet /\ connected
    /\ \E type \in {"PAIRING_REQUIRED", "PAIRING_FINISHED", "PAIRING_FAILED"} :
           Says(type, NoApp)
    /\ UNCHANGED <<connected, leaving, launch, listening>>

Lists ==
    /\ Quiet /\ connected
    /\ Says("APPLICATIONS_READY", NoApp)
    /\ UNCHANGED <<connected, leaving, launch, listening>>

ListFails ==
    /\ ~leaving
    /\ Says("APPLICATIONS_FAILED", NoApp)
    /\ UNCHANGED <<connected, leaving, launch, listening>>

Launches ==
    /\ Quiet /\ connected /\ listening
    /\ session' = "starting" /\ application' \in Apps
    /\ UNCHANGED <<connected, leaving, overtaker, event, listening>>

(* A launch whose last event is due no longer keeps the next one out.      *)
Overtakes ==
    /\ session # "none" /\ overtaker = NoApp
    /\ connected /\ ~leaving /\ listening
    /\ overtaker' \in Apps
    /\ UNCHANGED <<connected, leaving, session, application, event, listening>>

(* The call that launches returns an error: no event is owed.              *)
Refused ==
    /\ \/ /\ session = "starting" /\ overtaker = NoApp
          /\ session' = "none" /\ application' = NoApp /\ UNCHANGED overtaker
       \/ /\ overtaker # NoApp
          /\ overtaker' = NoApp /\ UNCHANGED <<session, application>>
    /\ UNCHANGED <<connected, leaving, event, listening>>

Started ==
    /\ session = "starting" /\ overtaker = NoApp
    /\ session' = "running"
    /\ \E a \in {application, NoApp} : Says("STREAM_STARTED", a)
    /\ UNCHANGED <<connected, leaving, application, overtaker, listening>>

(* The last event of a launch: of the application launched, or none, or    *)
(* that of the launch that overtook it, which is now the one in progress.  *)
Ended ==
    /\ \E a \in {application, overtaker, NoApp} :
          \/ session = "running" /\ Says("STREAM_STOPPED", a)
          \/ session = "starting" /\ Says("STREAM_FAILED", a)
    /\ session' = IF overtaker = NoApp THEN "none" ELSE "starting"
    /\ application' = overtaker /\ overtaker' = NoApp
    /\ UNCHANGED <<connected, leaving, listening>>

Leaves ==
    /\ connected /\ ~leaving /\ leaving' = TRUE
    /\ UNCHANGED <<connected, launch, event, listening>>

(* The session is over and has been answered before the connection closes. *)
Closes ==
    /\ leaving /\ session = "none"
    /\ connected' = FALSE /\ leaving' = FALSE /\ Says("CONNECTION_CLOSED", NoApp)
    /\ UNCHANGED <<launch, listening>>

StopsListening ==
    /\ listening' = FALSE
    /\ UNCHANGED <<connected, leaving, launch, event>>

ShutsDown ==
    /\ ~listening /\ Quiet
    /\ connected' = FALSE
    /\ UNCHANGED <<leaving, launch, event, listening>>

Next == \/ Opens \/ OpenFails \/ Pairs \/ Lists \/ ListFails
        \/ Launches \/ Overtakes \/ Refused \/ Started \/ Ended
        \/ Leaves \/ Closes \/ StopsListening \/ ShutsDown

Spec == Init /\ [][Next]_vars
=============================================================================
