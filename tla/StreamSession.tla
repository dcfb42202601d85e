--------------------------- MODULE StreamSession ---------------------------
(***************************************************************************)
(* The session owner of src/moonlight/stream_session.cpp: one detached     *)
(* thread that negotiates the launch, runs common-c's LiStartConnection,   *)
(* waits for a stop and tears everything down.  Any other thread may ask   *)
(* it to stop at any moment; common-c calls back on the owner's stack      *)
(* (stages, started) and on its own threads (terminated, controller LED).  *)
(* One critical section of s_stream_mutex, or one external call, is one    *)
(* step.                                                                   *)
(***************************************************************************)
EXTENDS Integers, Sequences

CONSTANTS Apps,         \* application ids of the host
          NoApp         \* 0: the host runs no application

ASSUME AppsAssumption == Apps # {} /\ NoApp \notin Apps

VARIABLES
    owner,               \* where moonlight_stream_start / the owner thread is
    thread_running,      \* s_stream_thread_running
    stop_requested,      \* s_stream_stop_requested
    cancel_requested,    \* s_stream_cancel_requested
    common_starting,     \* s_common_starting
    start_interrupt_sent,\* s_start_interrupt_sent
    started,             \* s_stream_context.started
    result,              \* the owner's local result
    app, quit_app,       \* StreamThreadArgs
    current_game,        \* server->current_game
    li_interrupted,      \* common-c: ConnectionInterrupted
    transport,           \* common-c: a connection LiStopConnection must end
    input_on,            \* vita_input is feeding the connection
    light,               \* s_controller_light was coloured by the host
    events               \* history: events of the current session

flags == <<thread_running, stop_requested, cancel_requested, common_starting,
           start_interrupt_sent, started>>
args  == <<app, quit_app, current_game>>
world == <<li_interrupted, transport, input_on, light>>
vars  == <<owner, flags, result, args, world, events>>

Games   == Apps \cup {NoApp}
Results == {"ok", "error", "cancelled", "conflict"}

Owner == {"none", "reserved", "entry", "refresh", "decide", "quitting",
          "precheck", "launching", "prepare", "connecting", "staging",
          "stages", "refused", "announce", "announcing", "connected",
          "returned", "unwind", "failing", "loop", "teardown", "stopping",
          "reporting", "clearing"}

Init ==
    /\ owner = "none"
    /\ thread_running = FALSE /\ stop_requested = FALSE
    /\ cancel_requested = FALSE /\ common_starting = FALSE
    /\ start_interrupt_sent = FALSE /\ started = FALSE
    /\ result = "ok"
    /\ app = NoApp /\ quit_app = NoApp /\ current_game = NoApp
    /\ li_interrupted = FALSE /\ transport = "down" /\ input_on = FALSE
    /\ light = FALSE
    /\ events = << >>

-----------------------------------------------------------------------------
(* moonlight_stream_start *)

(* Admission: the slot is reserved and every per-session flag reset.       *)
Start(a, q) ==
    /\ ~thread_running
    /\ owner' = "reserved"
    /\ thread_running' = TRUE
    /\ stop_requested' = FALSE /\ cancel_requested' = FALSE
    /\ common_starting' = FALSE /\ start_interrupt_sent' = FALSE
    /\ started' = FALSE
    /\ result' = "ok"
    /\ app' = a /\ quit_app' = q
    /\ light' = FALSE
    /\ events' = << >>
    /\ UNCHANGED <<current_game, li_interrupted, transport, input_on>>

(* "start rejected: session owner already running" (-2).                   *)
StartBusy == thread_running /\ UNCHANGED vars

CreateOwner ==
    /\ owner = "reserved"
    /\ owner' = "entry"
    /\ UNCHANGED <<flags, result, args, world, events>>

CreateOwnerFails ==
    /\ owner = "reserved"
    /\ owner' = "none"
    /\ thread_running' = FALSE
    /\ UNCHANGED <<stop_requested, cancel_requested, common_starting,
                   start_interrupt_sent, started, result, args, world, events>>

-----------------------------------------------------------------------------
(* Requests from other threads *)

(* interrupt_common_startup_locked would call LiInterruptConnection.       *)
InterruptDue(starting, cancelled) ==
    starting /\ cancelled /\ ~started /\ ~start_interrupt_sent

(* Mutant: a stop only leaves its flags for the owner to find.             *)
StopWithoutInterrupt ==
    /\ thread_running
    /\ cancel_requested' = TRUE
    /\ stop_requested' = TRUE
    /\ UNCHANGED <<owner, thread_running, common_starting, started, result,
                   start_interrupt_sent, args, world, events>>

(* moonlight_stream_stop: never blocks, never tears down.                  *)
Stop ==
    /\ thread_running
    /\ cancel_requested' = TRUE
    /\ stop_requested' = TRUE
    /\ IF InterruptDue(common_starting, TRUE)
       THEN li_interrupted' = TRUE /\ start_interrupt_sent' = TRUE
       ELSE UNCHANGED <<li_interrupted, start_interrupt_sent>>
    /\ UNCHANGED <<owner, thread_running, common_starting, started, result,
                   args, transport, input_on, light, events>>

(* "stop ignored: no active or pending session".                           *)
StopIgnored == ~thread_running /\ UNCHANGED vars

(* common-c's own threads run from the first stage until its failed start  *)
(* or LiStopConnection joins them.                                         *)
LiThreadsRun == transport = "up" \/ owner = "stages"

(* on_connection_terminated, on common-c's termination thread.             *)
Terminated ==
    /\ LiThreadsRun /\ thread_running
    /\ stop_requested' = TRUE
    /\ UNCHANGED <<owner, thread_running, cancel_requested, common_starting,
                   start_interrupt_sent, started, result, args, world, events>>

(* on_controller_led: feedback after a stop request is ignored.            *)
ControllerLed ==
    /\ LiThreadsRun /\ thread_running
    /\ ~stop_requested /\ ~cancel_requested
    /\ light' = TRUE
    /\ UNCHANGED <<owner, flags, result, args, li_interrupted, transport,
                   input_on, events>>

-----------------------------------------------------------------------------
(* The owner thread up to LiStartConnection *)

(* The owner moves on, or fails with r and goes straight to its cleanup.   *)
Goto(to)  == owner' = to /\ UNCHANGED <<flags, result, world, events>>
(* Mutant: an early return loses the error code.                           *)
FailSilently(r) == owner' = "failing" /\ UNCHANGED <<result, flags, world, events>>

FailAs(r) == owner' = "failing" /\ result' = r /\ UNCHANGED <<flags, world, events>>

(* stream_cancel_requested between two calls.                              *)
CheckCancel(from, to) ==
    /\ owner = from
    /\ IF cancel_requested THEN FailAs("cancelled") ELSE Goto(to)
    /\ UNCHANGED args

EnterSession == CheckCancel("entry", "refresh")

(* legacy_gamestream_refresh_server_info *)
RefreshServerInfo ==
    /\ owner = "refresh"
    /\ \/ /\ Goto("decide")
          /\ \E g \in Games : current_game' = g
       \/ FailAs("error") /\ UNCHANGED current_game
    /\ UNCHANGED <<app, quit_app>>

(* Another application runs on the host: it is quit only if it is the one  *)
(* the user agreed to quit.                                                *)
DecideConflict ==
    /\ owner = "decide"
    /\ IF cancel_requested THEN FailAs("cancelled")
       ELSE IF current_game \notin {NoApp, app}
            THEN IF quit_app # current_game THEN FailAs("conflict")
                 ELSE Goto("quitting")
            ELSE Goto("precheck")
    /\ UNCHANGED args

(* legacy_gamestream_quit_app verifies by a second refresh.                *)
QuitRunningApp ==
    /\ owner = "quitting"
    /\ \/ Goto("precheck") /\ current_game' = NoApp
       \/ FailAs("error") /\ \E g \in Games : current_game' = g
    /\ UNCHANGED <<app, quit_app>>

PreLaunchCheck == CheckCancel("precheck", "launching")

(* The launch or resume request.                                           *)
RequestLaunch ==
    /\ owner = "launching"
    /\ \/ Goto("prepare") /\ current_game' = app
       \/ FailAs("error") /\ UNCHANGED current_game
    /\ UNCHANGED <<app, quit_app>>

(* The last check before LiStartConnection; the two before it in           *)
(* run_stream_session take the same early return.                          *)
PreConnectCheck == CheckCancel("prepare", "connecting")

-----------------------------------------------------------------------------
(* LiStartConnection and its callbacks on the owner's stack *)

(* common-c clears its interrupt flag when a start begins.                 *)
LiResetInterrupt ==
    /\ owner = "connecting"
    /\ owner' = "staging"
    /\ li_interrupted' = FALSE
    /\ UNCHANGED <<flags, result, args, transport, input_on, light, events>>

(* Mutant: an earlier stop is not replayed to common-c.                    *)
StageStartsNoReplay ==
    /\ owner \in {"staging", "stages"}
    /\ owner' = "stages"
    /\ common_starting' = TRUE
    /\ UNCHANGED <<thread_running, stop_requested, cancel_requested, started,
                   start_interrupt_sent, result, args, world, events>>

(* on_stage_start -> publish_common_startup; a stop that came in before    *)
(* the reset is replayed.                                                  *)
StageStarts ==
    /\ owner \in {"staging", "stages"}
    /\ owner' = "stages"
    /\ common_starting' = TRUE
    /\ IF InterruptDue(TRUE, cancel_requested)
       THEN li_interrupted' = TRUE /\ start_interrupt_sent' = TRUE
       ELSE UNCHANGED <<li_interrupted, start_interrupt_sent>>
    /\ UNCHANGED <<thread_running, stop_requested, cancel_requested, started,
                   result, args, transport, input_on, light, events>>

(* common-c gives up, unwinding what it set up, and returns an error.      *)
LiStartFails ==
    /\ owner \in {"connecting", "staging", "stages"}
    /\ owner' = "returned"
    /\ result' = "error"
    /\ UNCHANGED <<flags, args, world, events>>

(* A stage notices the interrupt flag.                                     *)
LiStartInterrupted == li_interrupted /\ owner = "stages" /\ LiStartFails

(* on_connection_started commits the session, or leaves it to the owner    *)
(* when a stop came first.                                                 *)
ConnectionStarted ==
    /\ owner = "stages"
    /\ transport' = "up"
    /\ common_starting' = FALSE
    /\ IF cancel_requested
       THEN owner' = "refused" /\ UNCHANGED started
       ELSE owner' = "announce" /\ started' = TRUE
    /\ UNCHANGED <<thread_running, stop_requested, cancel_requested,
                   start_interrupt_sent, result, args, li_interrupted,
                   input_on, light, events>>

(* vita_input_start *)
StartInput ==
    /\ owner = "announce"
    /\ owner' = "announcing"
    /\ input_on' = TRUE
    /\ UNCHANGED <<flags, result, args, li_interrupted, transport, light, events>>

(* emit_event(STREAM_STARTED) returns.                                     *)
AnnounceStarted ==
    /\ owner = "announcing"
    /\ owner' = "connected"
    /\ events' = Append(events, "STARTED")
    /\ UNCHANGED <<flags, result, args, world>>

LiStartReturns ==
    /\ owner \in {"refused", "connected"}
    /\ owner' = "returned"
    /\ UNCHANGED <<flags, result, args, world, events>>

(* finish_common_startup *)
FinishStartup ==
    /\ owner = "returned"
    /\ common_starting' = FALSE
    /\ start_interrupt_sent' = FALSE
    /\ LET cancelled == start_interrupt_sent /\ cancel_requested /\ ~started
       IN  /\ result' = IF cancelled THEN "cancelled" ELSE result
           /\ owner' = IF result # "ok" THEN "failing"
                       ELSE IF cancelled THEN "unwind" ELSE "loop"
    /\ UNCHANGED <<thread_running, stop_requested, cancel_requested, started,
                   args, world, events>>

(* Mutant: the cancelled connection is left to itself.                     *)
UnwindLeavesTransport ==
    /\ owner = "unwind"
    /\ owner' = "failing"
    /\ UNCHANGED <<flags, result, args, world, events>>

(* The successful start nobody will hear of is stopped by its owner.       *)
UnwindCancelledStart ==
    /\ owner = "unwind"
    /\ owner' = "failing"
    /\ transport' = "down"
    /\ UNCHANGED <<flags, result, args, li_interrupted, input_on, light, events>>

-----------------------------------------------------------------------------
(* Running and teardown *)

(* The 10 ms poll sees a request.                                          *)
LeaveLoop ==
    /\ owner = "loop"
    /\ stop_requested \/ cancel_requested
    /\ owner' = "teardown"
    /\ UNCHANGED <<flags, result, args, world, events>>

(* vita_input_stop *)
StopInput ==
    /\ owner = "teardown"
    /\ owner' = "stopping"
    /\ input_on' = FALSE
    /\ UNCHANGED <<flags, result, args, li_interrupted, transport, light, events>>

(* Mutant: the slot is given up before the callback is made.               *)
ReportAfterRelease ==
    /\ owner' = "reporting"
    /\ started' = FALSE
    /\ thread_running' = FALSE
    /\ UNCHANGED <<stop_requested, cancel_requested,
                   common_starting, start_interrupt_sent, result, args,
                   li_interrupted, input_on, light, events>>

(* finish_stream_worker up to the callback.                                *)
BeginReport ==
    /\ owner' = "reporting"
    /\ started' = FALSE
    /\ UNCHANGED <<thread_running, stop_requested, cancel_requested,
                   common_starting, start_interrupt_sent, result, args,
                   li_interrupted, input_on, light, events>>

(* LiStopConnection joins common-c's threads, then STOPPED is reported.    *)
StopTransport == owner = "stopping" /\ transport' = "down" /\ BeginReport

(* moonlight_stats_end, then FAILED is reported.                           *)
ReportFailure == owner = "failing" /\ BeginReport /\ UNCHANGED transport

TerminalEvent == IF result = "ok" THEN "STOPPED" ELSE "FAILED"

(* The callback returns.                                                   *)
Report ==
    /\ owner = "reporting"
    /\ owner' = "clearing"
    /\ events' = Append(events, TerminalEvent)
    /\ UNCHANGED <<flags, result, args, world>>

(* The slot is given up last: disconnect cleanup waits for it.             *)
ReleaseOwner ==
    /\ owner = "clearing"
    /\ owner' = "none"
    /\ stop_requested' = FALSE /\ cancel_requested' = FALSE
    /\ thread_running' = FALSE
    /\ UNCHANGED <<common_starting, start_interrupt_sent, started, result,
                   args, world, events>>

-----------------------------------------------------------------------------
(* Steps the owner thread takes by itself once the call it is in returns.  *)
OwnerStep ==
    \/ EnterSession \/ RefreshServerInfo \/ DecideConflict \/ QuitRunningApp
    \/ PreLaunchCheck \/ RequestLaunch \/ PreConnectCheck
    \/ LiResetInterrupt
    \/ StartInput \/ AnnounceStarted \/ LiStartReturns
    \/ FinishStartup \/ UnwindCancelledStart
    \/ LeaveLoop \/ StopInput \/ StopTransport \/ ReportFailure
    \/ Report \/ ReleaseOwner

(* Stages may take as long as the host lets them.                          *)
CommonStep == StageStarts \/ LiStartFails \/ ConnectionStarted

Next ==
    \/ \E a \in Apps, q \in Games : Start(a, q)
    \/ StartBusy \/ CreateOwner \/ CreateOwnerFails
    \/ Stop \/ StopIgnored \/ Terminated \/ ControllerLed
    \/ OwnerStep
    \/ CommonStep

(* The owner thread runs, thread creation returns, HTTP requests time out  *)
(* (20 s, 30 s), LiStopConnection and the first stage callback return, and *)
(* common-c leaves LiStartConnection once interrupted.  Nothing is assumed *)
(* of a start that is not interrupted.                                     *)
Fairness ==
    /\ WF_vars(OwnerStep)
    /\ WF_vars(CreateOwner \/ CreateOwnerFails)
    /\ WF_vars(StageStarts /\ owner = "staging")
    /\ WF_vars(LiStartInterrupted)

Spec     == Init /\ [][Next]_vars
FairSpec == Spec /\ Fairness

-----------------------------------------------------------------------------
FlagsOK ==
    /\ thread_running \in BOOLEAN /\ stop_requested \in BOOLEAN
    /\ cancel_requested \in BOOLEAN /\ common_starting \in BOOLEAN
    /\ start_interrupt_sent \in BOOLEAN /\ started \in BOOLEAN
    /\ li_interrupted \in BOOLEAN /\ input_on \in BOOLEAN /\ light \in BOOLEAN

TypeOK ==
    /\ FlagsOK
    /\ owner \in Owner
    /\ result \in Results
    /\ app \in Games /\ quit_app \in Games /\ current_game \in Games
    /\ transport \in {"up", "down"}
    /\ events \in Seq({"STARTED", "STOPPED", "FAILED"})

(* Exactly one terminal event per session: STOPPED if and only if STARTED  *)
(* was announced, FAILED otherwise, whatever the order of stop, interrupt, *)
(* termination and startup.                                                *)
OneTerminalEvent ==
    /\ events \in {<< >>, <<"STARTED">>, <<"FAILED">>, <<"STARTED", "STOPPED">>}
    /\ ~thread_running => events # <<"STARTED">>
    /\ owner = "clearing" => events \in {<<"FAILED">>, <<"STARTED", "STOPPED">>}

(* The terminal event is published, and the slot given up, only after the  *)
(* transport is stopped and input is off; no connection outlives its       *)
(* owner.                                                                  *)
TransportReleased ==
    owner \in {"none", "reserved", "reporting", "clearing"} =>
        transport = "down" /\ ~input_on

(* A stop that arrives while common-c is starting always reaches it: it is *)
(* neither lost to common-c's own reset of the flag nor sent twice.        *)
InterruptNotLost ==
    common_starting /\ cancel_requested /\ ~started =>
        start_interrupt_sent /\ li_interrupted

(* A start cancelled before it was announced never becomes a running       *)
(* session: the owner enters its loop only with an announced session.      *)
OnlyAnnouncedSessionsRun ==
    owner \in {"loop", "teardown"} =>
        started /\ transport = "up" /\ input_on /\ events = <<"STARTED">>

-----------------------------------------------------------------------------
(* The inductive strengthening: what each place of the owner implies.      *)
Early == {"reserved", "entry", "refresh", "decide", "quitting", "precheck",
          "launching", "prepare", "connecting", "staging"}

Holds(evs, up, input, announced) ==
    /\ events = evs
    /\ transport = IF up THEN "up" ELSE "down"
    /\ input_on = input
    /\ started = announced

SetupPhases ==
    /\ owner \in Early => Holds(<< >>, FALSE, FALSE, FALSE) /\ result = "ok" /\ ~light
    /\ owner = "stages" => Holds(<< >>, FALSE, FALSE, FALSE) /\ result = "ok"
    /\ owner = "refused" => Holds(<< >>, TRUE, FALSE, FALSE) /\ result = "ok"
    /\ owner = "announce" => Holds(<< >>, TRUE, FALSE, TRUE) /\ result = "ok"
    /\ owner = "announcing" => Holds(<< >>, TRUE, TRUE, TRUE) /\ result = "ok"
    /\ owner = "connected" => Holds(<<"STARTED">>, TRUE, TRUE, TRUE) /\ result = "ok"
    /\ owner = "returned" =>
        \/ result = "error" /\ Holds(<< >>, FALSE, FALSE, FALSE)
        \/ result = "ok" /\ Holds(<<"STARTED">>, TRUE, TRUE, TRUE)
        \/ /\ result = "ok" /\ Holds(<< >>, TRUE, FALSE, FALSE)
           /\ cancel_requested /\ start_interrupt_sent

TeardownPhases ==
    /\ owner = "unwind" => Holds(<< >>, TRUE, FALSE, FALSE) /\ result # "ok"
    /\ owner = "failing" => Holds(<< >>, FALSE, FALSE, FALSE) /\ result # "ok"
    /\ owner \in {"loop", "teardown"} =>
        Holds(<<"STARTED">>, TRUE, TRUE, TRUE) /\ result = "ok"
    /\ owner = "stopping" => Holds(<<"STARTED">>, TRUE, FALSE, TRUE) /\ result = "ok"
    /\ owner = "reporting" =>
        Holds(IF result = "ok" THEN <<"STARTED">> ELSE << >>, FALSE, FALSE, FALSE)
    /\ owner = "clearing" =>
        \/ Holds(<<"FAILED">>, FALSE, FALSE, FALSE)
        \/ Holds(<<"STARTED", "STOPPED">>, FALSE, FALSE, FALSE)
    /\ owner = "none" =>
        \/ Holds(<< >>, FALSE, FALSE, FALSE)
        \/ Holds(<<"FAILED">>, FALSE, FALSE, FALSE)
        \/ Holds(<<"STARTED", "STOPPED">>, FALSE, FALSE, FALSE)

InterruptPhases ==
    /\ common_starting => owner \in {"stages", "returned"}
    /\ owner = "stages" => common_starting
    /\ start_interrupt_sent =>
        cancel_requested /\ owner \in {"stages", "refused", "returned"}
    /\ owner = "refused" => cancel_requested /\ start_interrupt_sent
    /\ InterruptNotLost

SessionInv ==
    /\ thread_running <=> owner # "none"
    /\ SetupPhases
    /\ TeardownPhases
    /\ InterruptPhases

-----------------------------------------------------------------------------
(* A stop request ends the session: the owner always gives up its slot.    *)
StopCompletes == cancel_requested ~> ~thread_running
=============================================================================
