---------------------------- MODULE HostControl ----------------------------
(***************************************************************************)
(* The selected-host API (src/moonlight/api.cpp) and the adapter in front  *)
(* of it, around the session owner of StreamSession.                       *)
(*                                                                         *)
(* The UI thread, a job thread, the disconnect cleanup worker and shutdown *)
(* exclude each other through s_host_control_mutex.  The session owner     *)
(* does not take that mutex: its callback writes the API's state while any *)
(* of them may be between two of its own statements, so the callback and   *)
(* moonlight_api_start_application are split where they meet.              *)
(***************************************************************************)
EXTENDS StreamSession

CONSTANTS Hosts,         \* hosts the user may select
          NoHost         \* no cached application list

ASSUME HostsAssumption == Hosts # {} /\ NoHost \notin Hosts

VARIABLES
    control,             \* holder of s_host_control_mutex and its progress
    connection_state,    \* s_connection_state
    has_current_host,    \* s_has_current_host
    current_host,        \* s_current_host
    initialized,         \* s_game_stream_initialized
    paired,              \* s_server.paired
    cached_apps,         \* host of s_applications while s_applications_valid
    stream_id,           \* s_stream_application_id; NoApp stands for -1
    stream_active,       \* s_stream_active
    stream_pending,      \* s_stream_pending
    disconnect_pending,  \* s_disconnect_pending
    worker_running,      \* s_disconnect_worker_running
    request,             \* arguments of the call in progress
    callback_at,         \* progress of on_stream_event
    m_state,             \* LegacyMoonlightAdapter::m_connection_state
    m_has_host,          \* LegacyMoonlightAdapter::m_has_current_host
    launching,           \* m_launching or a launch in progress: the UI holds
                         \* a further launch back
    phase,               \* "up", "stopping" (Shutdown called), "down"
    published            \* history: last event handed to the frontend

api     == <<connection_state, has_current_host, current_host, initialized,
             paired, cached_apps>>
stream  == <<stream_id, stream_active, stream_pending>>
cleanup == <<disconnect_pending, worker_running>>
adapter == <<m_state, m_has_host, published>>
ui      == <<launching, phase, request>>
hostVars == <<control, api, stream, cleanup, adapter, callback_at, ui>>
allVars  == <<vars, hostVars>>

HostInit ==
    /\ Init
    /\ control = "free"
    /\ connection_state = "DISCONNECTED" /\ has_current_host = FALSE
    /\ current_host \in Hosts
    /\ initialized = FALSE /\ paired = FALSE /\ cached_apps = NoHost
    /\ stream_id = NoApp /\ stream_active = FALSE /\ stream_pending = FALSE
    /\ disconnect_pending = FALSE /\ worker_running = FALSE
    /\ request = [app |-> NoApp, quit |-> NoApp, host |-> current_host]
    /\ callback_at = "enter"
    /\ m_state = "DISCONNECTED" /\ m_has_host = FALSE
    /\ launching = FALSE /\ phase = "up"
    /\ published = [type |-> "NONE", app |-> NoApp]

-----------------------------------------------------------------------------
(* Mutant: a disconnect on its way does not keep requests out.             *)
AdmittedWhileLeaving == control = "free"

(* try_begin_host_request(false): non-waiting admission.                   *)
Admitted == control = "free" /\ ~disconnect_pending

(* Mutant: ForwardEvent knows the good ends of a host and a stream only.   *)
EmitForgetsFailures(type, a, s) ==
    IF phase # "up" THEN UNCHANGED adapter
    ELSE /\ published' = [type |-> type, app |-> a]
         /\ m_state' =
              CASE type = "CONNECTION_READY" -> s
                [] type = "PAIRING_FINISHED" -> "PAIRED"
                [] type = "STREAM_STARTED" -> "STREAMING"
                [] type = "CONNECTION_CLOSED" -> "DISCONNECTED"
                [] OTHER -> m_state
         /\ m_has_host' =
              CASE type = "CONNECTION_READY" -> TRUE
                [] type = "CONNECTION_CLOSED" -> FALSE
                [] OTHER -> m_has_host

(* emit -> OnLegacyEvent -> ForwardEvent; nothing once the callback has    *)
(* been cleared by Shutdown.  s is the API state the adapter would read.   *)
Emit(type, a, s) ==
    IF phase # "up" THEN UNCHANGED adapter
    ELSE /\ published' = [type |-> type, app |-> a]
         /\ m_state' =
              CASE type = "CONNECTION_READY" -> s
                [] type \in {"PAIRING_FINISHED", "STREAM_STOPPED"} -> "PAIRED"
                [] type = "STREAM_STARTED" -> "STREAMING"
                [] type \in {"CONNECTION_CLOSED", "CONNECTION_FAILED"} -> "DISCONNECTED"
                [] type = "PAIRING_FAILED" /\ m_has_host -> "READY"
                [] type = "STREAM_FAILED" /\ m_has_host -> "PAIRED"
                [] OTHER -> m_state
         /\ m_has_host' =
              CASE type = "CONNECTION_READY" -> TRUE
                [] type \in {"CONNECTION_CLOSED", "CONNECTION_FAILED"} -> FALSE
                [] OTHER -> m_has_host

(* A job thread runs jobs of the UI and what is left of them in Shutdown.  *)
JobThread == phase # "down"

(* moonlight_api_connect_host without a client directory.                  *)
ConnectNoDirectory ==
    /\ JobThread /\ Admitted /\ ~worker_running /\ ~thread_running
    /\ Emit("CONNECTION_FAILED", NoApp, connection_state)
    /\ UNCHANGED <<vars, control, api, stream, cleanup, callback_at, ui>>

(* Mutant: the session check is missing.                                   *)
ConnectUnderSession(h) ==
    /\ JobThread /\ Admitted /\ ~worker_running
    /\ control' = "connecting"
    /\ request' = [request EXCEPT !.host = h]
    /\ cached_apps' = NoHost
    /\ initialized' = FALSE
    /\ UNCHANGED <<vars, connection_state, has_current_host, current_host,
                   paired, stream, cleanup, adapter, callback_at, launching, phase>>

(* Up to legacy_gamestream_init: the previous host's client is freed.      *)
ConnectBegins(h) ==
    /\ JobThread /\ Admitted /\ ~worker_running /\ ~thread_running
    /\ control' = "connecting"
    /\ request' = [request EXCEPT !.host = h]
    /\ cached_apps' = NoHost
    /\ initialized' = FALSE
    /\ UNCHANGED <<vars, connection_state, has_current_host, current_host,
                   paired, stream, cleanup, adapter, callback_at, launching, phase>>

ConnectSucceeds ==
    /\ control = "connecting"
    /\ control' = "free"
    /\ initialized' = TRUE /\ has_current_host' = TRUE
    /\ current_host' = request.host
    /\ \E p \in BOOLEAN :
        /\ paired' = p
        /\ connection_state' = IF p THEN "PAIRED" ELSE "READY"
    /\ Emit("CONNECTION_READY", NoApp, connection_state')
    /\ UNCHANGED <<vars, cached_apps, stream, cleanup, callback_at, ui>>

ConnectFails ==
    /\ control = "connecting"
    /\ control' = "free"
    /\ connection_state' = "DISCONNECTED" /\ has_current_host' = FALSE
    /\ Emit("CONNECTION_FAILED", NoApp, "DISCONNECTED")
    /\ UNCHANGED <<vars, current_host, initialized, paired, cached_apps, stream,
                   cleanup, callback_at, ui>>

-----------------------------------------------------------------------------
(* Pairing and the application list *)

ReadyToPair ==
    Admitted /\ m_has_host /\ has_current_host /\ connection_state = "READY" /\ initialized

(* moonlight_api_prepare_pairing: a host that turned out to be paired is   *)
(* not paired again.                                                       *)
PreparePairing ==
    /\ phase = "up" /\ ReadyToPair
    /\ IF paired
       THEN connection_state' = "PAIRED" /\ UNCHANGED adapter
       ELSE UNCHANGED connection_state /\ Emit("PAIRING_REQUIRED", NoApp, "READY")
    /\ UNCHANGED <<vars, control, has_current_host, current_host, initialized,
                   paired, cached_apps, stream, cleanup, callback_at, ui>>

PairBegins ==
    /\ JobThread /\ ReadyToPair
    /\ control' = "pairing"
    /\ UNCHANGED <<vars, api, stream, cleanup, adapter, callback_at, ui>>

(* Success; the closing serverinfo requests may report either pair status. *)
PairSucceeds ==
    /\ control = "pairing"
    /\ control' = "free"
    /\ paired' \in BOOLEAN
    /\ connection_state' = "PAIRED"
    /\ Emit("PAIRING_FINISHED", NoApp, "PAIRED")
    /\ UNCHANGED <<vars, has_current_host, current_host, initialized,
                   cached_apps, stream, cleanup, callback_at, ui>>

PairFails ==
    /\ control = "pairing"
    /\ control' = "free"
    /\ Emit("PAIRING_FAILED", NoApp, "READY")
    /\ UNCHANGED <<vars, api, stream, cleanup, callback_at, ui>>

(* Cancelled by the user, perhaps after the host had accepted the client.  *)
PairCancelled ==
    /\ control = "pairing"
    /\ control' = "free"
    /\ paired' \in BOOLEAN
    /\ UNCHANGED <<vars, connection_state, has_current_host, current_host,
                   initialized, cached_apps, stream, cleanup, adapter,
                   callback_at, ui>>

(* moonlight_api_get_applications(NULL, 0)                                 *)
CanList ==
    /\ has_current_host /\ initialized /\ ~stream_pending /\ ~thread_running
    /\ connection_state = "PAIRED"

ListRejected ==
    /\ JobThread /\ Admitted /\ ~CanList
    /\ Emit("APPLICATIONS_FAILED", NoApp, connection_state)
    /\ UNCHANGED <<vars, control, api, stream, cleanup, callback_at, ui>>

ListBegins ==
    /\ JobThread /\ Admitted /\ CanList
    /\ control' = "listing"
    /\ cached_apps' = NoHost
    /\ UNCHANGED <<vars, connection_state, has_current_host, current_host,
                   initialized, paired, stream, cleanup, adapter, callback_at, ui>>

ListEnds ==
    /\ control = "listing"
    /\ control' = "free"
    /\ \/ /\ ~disconnect_pending /\ connection_state = "PAIRED"
          /\ cached_apps' = current_host
          /\ Emit("APPLICATIONS_READY", NoApp, connection_state)
       \/ /\ cached_apps' = NoHost
          /\ Emit("APPLICATIONS_FAILED", NoApp, connection_state)
    /\ UNCHANGED <<vars, connection_state, has_current_host, current_host,
                   initialized, paired, stream, cleanup, callback_at, ui>>

-----------------------------------------------------------------------------
(* moonlight_api_start_application, on the UI thread *)

(* STREAM_STARTED of the session is out.                                   *)
StartAnnounced ==
    events = <<"STARTED">> \/ (owner = "announcing" /\ callback_at = "exit")

(* SelectApp's guard, then the checks of the adapter and of the API.  The  *)
(* API's pass as soon as the last callback of the previous session has     *)
(* written the state: its event may still be to come.                      *)
StartChecks(a, q) ==
    /\ phase = "up" /\ ~launching
    /\ Admitted /\ m_has_host
    /\ has_current_host /\ initialized /\ connection_state = "PAIRED"
    /\ ~stream_pending /\ ~stream_active
    /\ control' = "start"
    /\ request' = [request EXCEPT !.app = a, !.quit = q]
    /\ launching' = TRUE
    /\ UNCHANGED <<vars, api, stream, cleanup, adapter, callback_at, phase>>

(* STREAM_STARTED is handled, but page_stream does not open: the list of   *)
(* applications stays in reach, and for a launch that had been confirmed   *)
(* with Yes nothing keeps the user from asking for another.                *)
StreamPageFails ==
    /\ phase = "up" /\ launching /\ StartAnnounced
    /\ control \notin {"start", "marked", "reserved", "started"}
    /\ launching' = FALSE
    /\ UNCHANGED <<vars, control, api, stream, cleanup, adapter, callback_at, phase,
                   request>>

(* The session is announced to the callback before it is asked for.        *)
StartMarks ==
    /\ control = "start"
    /\ control' = "marked"
    /\ stream_id' = request.app /\ stream_pending' = TRUE
    /\ UNCHANGED <<vars, api, stream_active, cleanup, adapter, callback_at, ui>>

StartReserves ==
    /\ control = "marked"
    /\ Start(request.app, request.quit)
    /\ control' = "reserved"
    /\ UNCHANGED <<api, stream, cleanup, adapter, callback_at, ui>>

(* A nonzero result takes the mark back.                                   *)
StartUndone ==
    /\ control' = "free"
    /\ stream_pending' = FALSE /\ stream_id' = NoApp
    /\ connection_state' = IF stream_active THEN connection_state ELSE "PAIRED"
    /\ launching' = FALSE
    /\ UNCHANGED <<has_current_host, current_host, initialized, paired,
                   cached_apps, stream_active, cleanup, adapter, callback_at,
                   phase, request>>

(* moonlight_stream_start fails: an owner is still there, or no memory.    *)
StartRefused == control = "marked" /\ UNCHANGED vars /\ StartUndone

StartCreates ==
    /\ control = "reserved"
    /\ \/ /\ CreateOwner
          /\ control' = "started"
          /\ UNCHANGED <<api, stream, cleanup, adapter, callback_at, ui>>
       \/ CreateOwnerFails /\ StartUndone

StartReturns ==
    /\ control = "started"
    /\ control' = "free"
    /\ UNCHANGED <<vars, api, stream, cleanup, adapter, callback_at, ui>>

(* moonlight_api_stop_application                                          *)
StopApplication ==
    /\ phase = "up" /\ Admitted /\ m_has_host
    /\ has_current_host /\ (stream_active \/ stream_pending)
    /\ Stop
    /\ UNCHANGED hostVars

(* The PS button on the input thread: no admission.  vita_input_stop does  *)
(* not wait for that thread, so its stop may come late, even to the next   *)
(* session.                                                                *)
InputStop == Stop /\ UNCHANGED hostVars

-----------------------------------------------------------------------------
(* on_stream_event, on the owner's thread, in three steps: the state, the  *)
(* event, the id.                                                          *)

InCallback == owner \in {"announcing", "reporting"}
EventType  == CASE owner = "announcing" -> "STREAM_STARTED"
                [] owner # "announcing" /\ result = "ok" -> "STREAM_STOPPED"
                [] OTHER -> "STREAM_FAILED"

(* Mutant: the callback leaves the launch pending.                         *)
StreamEventKeepsPending ==
    /\ InCallback /\ callback_at = "enter"
    /\ callback_at' = "emit"
    /\ stream_active' = (owner = "announcing")
    /\ connection_state' = IF owner = "announcing" THEN "STREAMING" ELSE "PAIRED"
    /\ UNCHANGED <<vars, control, has_current_host, current_host, initialized,
                   paired, cached_apps, stream_id, stream_pending, cleanup,
                   adapter, ui>>

StreamEventState ==
    /\ InCallback /\ callback_at = "enter"
    /\ callback_at' = "emit"
    /\ stream_pending' = FALSE
    /\ stream_active' = (owner = "announcing")
    /\ connection_state' = IF owner = "announcing" THEN "STREAMING" ELSE "PAIRED"
    /\ UNCHANGED <<vars, control, has_current_host, current_host, initialized,
                   paired, cached_apps, stream_id, cleanup, adapter, ui>>

StreamEventEmit ==
    /\ InCallback /\ callback_at = "emit"
    /\ callback_at' = "exit"
    /\ Emit(EventType, stream_id, connection_state)
    /\ launching' = (launching /\ owner = "announcing")
    /\ UNCHANGED <<vars, control, api, stream, cleanup, phase, request>>

StreamEventReturns ==
    /\ InCallback /\ callback_at = "exit"
    /\ callback_at' = "enter"
    /\ \/ AnnounceStarted /\ UNCHANGED stream_id
       \/ Report /\ stream_id' = NoApp
    /\ UNCHANGED <<control, api, stream_active, stream_pending, cleanup, adapter, ui>>

-----------------------------------------------------------------------------
(* moonlight_api_disconnect_host and its worker *)

(* Mutants: the session is not stopped; it is torn down by the caller.     *)
StopNothing == UNCHANGED vars
StopByForce ==
    /\ owner' = "none" /\ thread_running' = FALSE
    /\ transport' = "down" /\ input_on' = FALSE
    /\ UNCHANGED <<stop_requested, cancel_requested, common_starting, started,
                   start_interrupt_sent, result, args, li_interrupted, light, events>>

StopIfRunning == IF thread_running THEN Stop ELSE UNCHANGED vars

(* Mutant: the application list outlives the disconnect.                   *)
DisconnectKeepsList ==
    /\ phase = "up" /\ control = "free"
    /\ has_current_host /\ ~disconnect_pending /\ ~worker_running
    /\ StopIfRunning
    /\ worker_running' = TRUE /\ disconnect_pending' = TRUE
    /\ UNCHANGED <<control, api, stream, adapter, callback_at, ui>>

(* A duplicate, or a request without a host, is a no-op.                   *)
Disconnect ==
    /\ phase = "up" /\ control = "free"
    /\ has_current_host /\ ~disconnect_pending /\ ~worker_running
    /\ cached_apps' = NoHost
    /\ StopIfRunning
    /\ \/ worker_running' = TRUE /\ disconnect_pending' = TRUE
       \/ UNCHANGED cleanup                   \* pthread_create failed
    /\ UNCHANGED <<control, connection_state, has_current_host, current_host,
                   initialized, paired, stream, adapter, callback_at, ui>>

CleanupLocks ==
    /\ worker_running /\ control = "free"
    /\ control' = "cleanup"
    /\ UNCHANGED <<vars, api, stream, cleanup, adapter, callback_at, ui>>

(* Mutant: the cleanup does not wait for the owner.                        *)
CleanupDoesNotWait ==
    /\ control = "cleanup"
    /\ control' = "closing"
    /\ initialized' = FALSE
    /\ stream_id' = NoApp /\ stream_active' = FALSE /\ stream_pending' = FALSE
    /\ connection_state' = "DISCONNECTED" /\ has_current_host' = FALSE
    /\ UNCHANGED <<vars, current_host, paired, cached_apps, cleanup, adapter,
                   callback_at, ui>>

(* The owner is gone: free the client and forget the host.                 *)
CleanupClears ==
    /\ control = "cleanup" /\ ~thread_running
    /\ control' = "closing"
    /\ initialized' = FALSE
    /\ stream_id' = NoApp /\ stream_active' = FALSE /\ stream_pending' = FALSE
    /\ connection_state' = "DISCONNECTED" /\ has_current_host' = FALSE
    /\ UNCHANGED <<vars, current_host, paired, cached_apps, cleanup, adapter,
                   callback_at, ui>>

CleanupPublishes ==
    /\ control = "closing"
    /\ Emit("CONNECTION_CLOSED", NoApp, "DISCONNECTED")
    /\ worker_running' = FALSE /\ disconnect_pending' = FALSE
    /\ control' = "free"
    /\ UNCHANGED <<vars, api, stream, callback_at, ui>>

-----------------------------------------------------------------------------
(* LegacyMoonlightAdapter::Shutdown -> moonlight_api_shutdown *)

ShutdownBegins ==
    /\ phase = "up" /\ control \notin {"start", "marked", "reserved", "started"}
    /\ phase' = "stopping"
    /\ UNCHANGED <<vars, control, api, stream, cleanup, adapter, callback_at,
                   launching, request>>

(* Mutant: shutdown waits for a session it has not asked to stop.          *)
ShutdownOnlyWaits ==
    /\ phase = "stopping" /\ control = "free" /\ ~worker_running
    /\ control' = "shutdown"
    /\ UNCHANGED <<vars, api, stream, cleanup, adapter, callback_at, ui>>

(* Yields to a scheduled cleanup worker, then stops the session.           *)
ShutdownLocks ==
    /\ phase = "stopping" /\ control = "free" /\ ~worker_running
    /\ control' = "shutdown"
    /\ StopIfRunning
    /\ UNCHANGED <<api, stream, cleanup, adapter, callback_at, ui>>

ShutdownFinishes ==
    /\ control = "shutdown" /\ ~thread_running
    /\ control' = "free" /\ phase' = "down"
    /\ initialized' = FALSE /\ paired' = FALSE /\ cached_apps' = NoHost
    /\ connection_state' = "DISCONNECTED" /\ has_current_host' = FALSE
    /\ stream_id' = NoApp /\ stream_active' = FALSE /\ stream_pending' = FALSE
    /\ disconnect_pending' = FALSE /\ worker_running' = FALSE
    /\ m_state' = "DISCONNECTED" /\ m_has_host' = FALSE
    /\ UNCHANGED <<vars, current_host, callback_at, published, launching, request>>

-----------------------------------------------------------------------------
StartSteps    == StartMarks \/ StartReserves \/ StartRefused \/ StartCreates \/ StartReturns
CallbackSteps == StreamEventState \/ StreamEventEmit \/ StreamEventReturns
JobEnds       == \/ ConnectSucceeds \/ ConnectFails \/ PairSucceeds \/ PairFails
                 \/ PairCancelled \/ ListEnds
CleanupSteps  == CleanupLocks \/ CleanupClears \/ CleanupPublishes

(* The owner's steps outside on_stream_event.                              *)
OwnerAlone == OwnerStep /\ ~InCallback /\ UNCHANGED hostVars
CommonAlone == CommonStep /\ UNCHANGED hostVars

HostNext ==
    \/ ConnectNoDirectory \/ \E h \in Hosts : ConnectBegins(h)
    \/ PreparePairing \/ PairBegins
    \/ ListRejected \/ ListBegins
    \/ \E a \in Apps, q \in Games : StartChecks(a, q)
    \/ StreamPageFails \/ StartSteps
    \/ StopApplication \/ InputStop
    \/ JobEnds
    \/ CallbackSteps
    \/ Disconnect \/ CleanupSteps
    \/ ShutdownBegins \/ ShutdownLocks \/ ShutdownFinishes
    \/ OwnerAlone \/ CommonAlone
    \/ Terminated /\ UNCHANGED hostVars
    \/ ControllerLed /\ UNCHANGED hostVars

HostSpec == HostInit /\ [][HostNext]_allVars

(* Threads run; HTTP requests carry timeouts; common-c returns once        *)
(* interrupted.  Shutdown's lock waits behind at most the jobs already     *)
(* queued, hence strong fairness.                                          *)
HostFairness ==
    /\ WF_allVars(OwnerAlone) /\ WF_allVars(CallbackSteps)
    /\ WF_allVars(CommonAlone /\ StageStarts /\ owner = "staging")
    /\ WF_allVars(CommonAlone /\ LiStartInterrupted)
    /\ WF_allVars(StartSteps) /\ WF_allVars(JobEnds) /\ WF_allVars(CleanupSteps)
    /\ SF_allVars(ShutdownLocks) /\ WF_allVars(ShutdownFinishes)

FairHostSpec == HostSpec /\ HostFairness

-----------------------------------------------------------------------------
(* The GameStream client the owner borrowed (s_server, its curl handle and *)
(* certificate) is never freed or replaced under a live session, whichever *)
(* of connect, disconnect and shutdown races with it.                      *)
ClientOutlivesSession == thread_running => initialized

(* The owner's unlocked callback and the UI's start never leave the API in *)
(* a state that refuses the next launch: with nothing in progress and no   *)
(* session, no launch is pending, none is active, the id is clear and the  *)
(* state is not STREAMING.                                                 *)
NothingLeftBehind ==
    control = "free" /\ ~thread_running =>
        /\ ~stream_pending /\ ~stream_active /\ stream_id = NoApp
        /\ connection_state # "STREAMING"

(* The id that stream events are given is the application of the session   *)
(* or none, but between a start's mark and its reservation: there it is    *)
(* already that of the new launch, and the terminal event of the session   *)
(* before may carry it.                                                    *)
NoForeignApplication ==
    thread_running /\ control # "marked" => stream_id \in {app, NoApp}

(* The application list served from the cache is that of the current host, *)
(* and is gone as soon as a disconnect is accepted.                        *)
CacheFollowsHost ==
    cached_apps # NoHost =>
        cached_apps = current_host /\ has_current_host /\ initialized /\ ~disconnect_pending

(* The state ForwardEvent rebuilds from events does not drift from the     *)
(* API's: while nothing is on its way to the adapter (no CLOSED, no stream *)
(* event half published) it believes in no host the API has given up, and  *)
(* in a running stream exactly when the API does.                          *)
AdapterFollowsApi ==
    phase = "up" /\ control # "closing" =>
        /\ m_has_host => has_current_host
        /\ callback_at = "enter" => (m_state = "STREAMING" <=> connection_state = "STREAMING")

(* CONNECTION_CLOSED is final: after it no event of the closed connection, *)
(* in particular no late STREAM_*, reaches the frontend before a new       *)
(* connection attempt has answered; only a request for the list, refused   *)
(* since there is no host, may be answered (APPLICATIONS_FAILED) before.   *)
ClosedIsFinal ==
    [][published.type = "CONNECTION_CLOSED" /\ published' # published =>
        published'.type \in {"CONNECTION_READY", "CONNECTION_FAILED",
                             "APPLICATIONS_FAILED"}]_published

(* Around the API the session owner still behaves as StreamSession says,   *)
(* so what holds of one session in isolation holds here.                   *)
SessionsAsSpecified == Spec

(* What a frontend knows of the launch: unanswered until the terminal      *)
(* event is out, running from STREAM_STARTED on.  A start that has passed  *)
(* its checks in between has overtaken that event.                         *)
Unanswered ==
    thread_running /\ owner # "clearing" /\ ~(owner = "reporting" /\ callback_at = "exit")
Starting == control \in {"start", "marked"}

SessionSeen ==
    CASE ~Unanswered /\ ~Starting -> "none"
      [] Unanswered /\ StartAnnounced -> "running"
      [] OTHER -> "starting"
ApplicationSeen ==
    CASE Unanswered -> app
      [] ~Unanswered /\ Starting -> request.app
      [] OTHER -> NoApp
OvertakerSeen == IF Unanswered /\ Starting THEN request.app ELSE NoApp

Seen == INSTANCE HostEvents
    WITH connected   <- has_current_host \/ control = "closing",
         leaving     <- disconnect_pending,
         session     <- SessionSeen,
         application <- ApplicationSeen,
         overtaker   <- OvertakerSeen,
         event       <- published,
         listening   <- phase = "up"

(* Whatever the threads do, the events reach the frontend in an order that *)
(* it can follow: one terminal event for each launch, of the kind its      *)
(* STARTED calls for; it names the application launched or none, or that   *)
(* of a launch that passed the API's checks between the callback's write   *)
(* of the state and its event, which then starts or is refused after it;   *)
(* while a launch is unanswered no answer of another kind but that the     *)
(* list is refused, and none of those after a disconnect has been          *)
(* accepted; and CONNECTION_CLOSED after the session's own events.         *)
EventsAsPromised == Seen!Spec

(* The inductive strengthening of ClientOutlivesSession: which holders of  *)
(* the mutex keep the client and which exclude a session.                  *)
RequestOK == control \in {"start", "marked"} => request.app \in Apps /\ request.quit \in Games
ClientKept ==
    control \in {"start", "marked", "reserved", "started", "pairing", "listing"} => initialized
SessionExcluded == control \in {"connecting", "listing", "closing"} => ~thread_running
ClientInv == ClientOutlivesSession /\ RequestOK /\ ClientKept /\ SessionExcluded

(* The inductive strengthening of the properties of the API's state.  A    *)
(* session is live until its terminal callback has written the state, and  *)
(* announced once STREAM_STARTED has; on either side of that callback the  *)
(* marks of the launch say exactly where the session stands.               *)
Live == /\ thread_running /\ owner # "clearing"
        /\ ~(owner = "reporting" /\ callback_at # "enter")
Announced == events = <<"STARTED">> \/ (owner = "announcing" /\ callback_at # "enter")

CallbackInv ==
    /\ callback_at \in {"enter", "emit", "exit"}
    /\ callback_at # "enter" => InCallback
MarksInv ==
    /\ Live /\ ~Announced => connection_state = "PAIRED" /\ stream_pending /\ ~stream_active
    /\ Live /\ Announced => connection_state = "STREAMING" /\ ~stream_pending /\ stream_active
    /\ ~Live => /\ ~stream_active /\ (stream_pending <=> control = "marked")
                /\ connection_state # "STREAMING"
    /\ thread_running => connection_state \in {"PAIRED", "STREAMING"}

(* Who holds the mutex for a launch, and how far the callback of the       *)
(* previous session may still be.                                          *)
LaunchInv ==
    /\ control = "reserved" <=> owner = "reserved"
    /\ control \in {"start", "marked"} =>
        /\ connection_state = "PAIRED"
        /\ ~Live
    /\ control = "pairing" => ~thread_running

StreamIdInv ==
    /\ (~thread_running \/ owner = "clearing") /\ control # "marked" => stream_id = NoApp
    /\ control = "marked" => stream_id \in {request.app, NoApp}
    /\ NoForeignApplication

(* A cached list belongs to a connection nobody is giving up.              *)
CacheInv ==
    /\ CacheFollowsHost
    /\ cached_apps # NoHost => control \notin {"connecting", "listing", "closing"}
    /\ control = "listing" => has_current_host
    /\ worker_running <=> disconnect_pending
    /\ control \in {"cleanup", "closing"} => worker_running

(* The adapter lags behind by the event the callback has yet to publish.   *)
AdapterInv ==
    phase = "up" /\ control # "closing" =>
        /\ m_has_host => has_current_host
        /\ m_state = "STREAMING" <=>
             IF callback_at = "emit" THEN owner = "reporting" /\ result = "ok"
             ELSE connection_state = "STREAMING"

(* After CONNECTION_CLOSED nothing is left that could publish for it.      *)
ClosedInv ==
    /\ control = "shutdown" => phase # "up"
    /\ control = "closing" => ~has_current_host
    /\ published.type = "CONNECTION_CLOSED" /\ phase = "up" =>
        /\ ~has_current_host /\ ~thread_running /\ ~worker_running
        /\ control \in {"free", "connecting"}

HostInv == CallbackInv /\ MarksInv /\ LaunchInv /\ StreamIdInv /\ CacheInv /\ AdapterInv /\ ClosedInv

(* The inductive strengthening of EventsAsPromised: only a request         *)
(* accepted before the disconnect is followed by an event of its own.      *)
SeenInv ==
    /\ disconnect_pending \in BOOLEAN
    /\ control \in {"connecting", "pairing", "listing"} => ~disconnect_pending
    /\ control = "pairing" => has_current_host
    /\ worker_running => has_current_host \/ control = "closing"
    /\ control = "shutdown" => ~worker_running

(* An accepted disconnect completes, whatever the session was doing.       *)
DisconnectCompletes == disconnect_pending ~> ~disconnect_pending

(* Shutdown returns, past a queued cleanup, a running job and a session.   *)
ShutdownCompletes == phase = "stopping" ~> phase = "down"
=============================================================================
