--------------------------- MODULE InputForwarding ---------------------------
(***************************************************************************)
(* The input thread of a stream (src/moonlight/vita_input.c): pad samples  *)
(* forwarded to the host, the PS button with its single press, double      *)
(* press and hold, and the release of everything when system UI covers the *)
(* program or the stream stops.                                            *)
(*                                                                         *)
(* The thread is created once and never joined.  Beside it run the session *)
(* owner (start, stop), the ShellUtil callback, the user and the system.   *)
(* One pad button stands for buttons, sticks and back touch; samples carry *)
(* a time stamp, so an unchanged button may still differ by memcmp.  PS    *)
(* capture is on (off, nothing here looks at PS).  A tick of time is the   *)
(* double-press window, 250 ms; the thread runs every 2 ms.                *)
(***************************************************************************)
EXTENDS Naturals

Window == 1           \* ticks: 250000 us
Hold   == 2           \* ticks: 500000 us
Never  == 4           \* a time stamp that is 0
Cap    == 3           \* bound: times are not told apart beyond

VARIABLES
    button, ps,       \* held by the user
    overlaid,         \* system UI covers the program
    session,          \* "off", "on", "releasing", "resetting" (vita_input_stop)
    active,           \* s_input_active
    thread,           \* "sleep", "process", "send"
    ui,               \* s_system_ui_overlaid, as last polled
    release_sent,     \* s_overlay_release_sent
    ignore_ps,        \* s_ignore_ps_until_release
    s_pad, changed,   \* the last sample; it differs from s_pad_old
    latched,          \* s_zone_latched
    keys,             \* the s_ps_ statics: [old, single, press, release, pulse]
    edge,             \* s_shell_ps_edge
    report, handler,  \* a press ShellUtil has yet to report; its callback
    host,             \* what the host believes: [button, special, click]
    stopping,         \* moonlight_stream_stop() was called for a double press
    gesture, age,     \* history: what the user does with PS, since how long
    late,             \* history: a sample acted on a press not yet reported
    raced             \* history: the last stop met a sample in progress

user    == <<button, ps, report, gesture, late>>
gate    == <<ui, release_sent, ignore_ps>>
sample  == <<s_pad, changed, latched>>
vars    == <<user, age, overlaid, session, active, thread, gate, sample, keys, edge,
             handler, host, stopping, raced>>

ResetKeys == [old |-> FALSE, single |-> FALSE, press |-> Never, release |-> Never, pulse |-> 0]
Released  == [button |-> FALSE, special |-> FALSE, click |-> FALSE]

Init ==
    /\ button = FALSE /\ ps = FALSE /\ report = FALSE /\ gesture = "none" /\ age = 0
    /\ overlaid = FALSE /\ session = "off" /\ active = FALSE /\ thread = "sleep"
    /\ ui = FALSE /\ release_sent = FALSE /\ ignore_ps = FALSE
    /\ s_pad = FALSE /\ changed = FALSE /\ latched = FALSE
    /\ keys = ResetKeys /\ edge = FALSE /\ handler = "idle"
    /\ host = Released /\ stopping = FALSE /\ late = FALSE /\ raced = FALSE

----------------------------------------------------------------------------
(* vita_input_start and vita_input_stop, on the session owner's thread.    *)

(* A new connection: the host knows of nothing held.  No callback and no   *)
(* sample lasts from one session into the next.                            *)
Start ==
    /\ session = "off" /\ thread = "sleep" /\ handler = "idle"
    /\ session' = "on" /\ active' = TRUE
    /\ s_pad' = FALSE /\ changed' = FALSE /\ keys' = ResetKeys /\ edge' = FALSE
    /\ ignore_ps' = FALSE /\ host' = Released /\ stopping' = FALSE
    /\ gesture' = (IF ps \/ report THEN "early" ELSE "none") /\ age' = 0 /\ late' = FALSE
    /\ UNCHANGED <<button, ps, report, overlaid, thread, ui, release_sent, latched, handler, raced>>

StopBegins ==
    /\ session = "on"
    /\ session' = "releasing" /\ active' = FALSE
    /\ UNCHANGED <<user, age, overlaid, thread, gate, sample, keys, edge, handler, host,
                   stopping, raced>>

StopReleases ==
    /\ session = "releasing"
    /\ session' = "resetting" /\ host' = Released
    /\ raced' = (thread # "sleep")
    /\ UNCHANGED <<user, age, overlaid, active, thread, gate, sample, keys, edge, handler,
                   stopping>>

StopResets ==
    /\ session = "resetting"
    /\ session' = "off" /\ s_pad' = FALSE /\ changed' = FALSE /\ ignore_ps' = FALSE
    /\ keys' = ResetKeys /\ edge' = FALSE
    /\ UNCHANGED <<user, age, overlaid, active, thread, ui, release_sent, latched, handler,
                   host, stopping, raced>>

----------------------------------------------------------------------------
(* vita_shell_event_handler: the check, then the assignment.  A press that *)
(* a sample has shown is not always reported.                              *)
ShellChecks ==
    /\ report /\ handler = "idle" /\ report' = FALSE
    /\ \/ handler' = IF active THEN "set" ELSE "idle"
       \/ keys.old /\ UNCHANGED handler
    /\ UNCHANGED <<button, ps, gesture, late, age, overlaid, session, active, thread, gate,
                   sample, keys, edge, host, stopping, raced>>

ShellSets ==
    /\ handler = "set" /\ handler' = "idle" /\ edge' = TRUE
    /\ UNCHANGED <<user, age, overlaid, session, active, thread, gate, sample, keys, host,
                   stopping, raced>>

(* A press is over and ShellUtil has yet to report it, or its callback has *)
(* yet to say so.                                                          *)
Unreported == ~ps /\ (report \/ handler = "set")

----------------------------------------------------------------------------
(* vita_input_process                                                      *)

Wakes ==
    /\ thread = "sleep" /\ active
    /\ thread' = "process"
    /\ UNCHANGED <<user, age, overlaid, session, active, gate, sample, keys, edge, handler,
                   host, stopping, raced>>

(* The state of system UI is polled every 10 ms and kept when polling      *)
(* fails.                                                                  *)
PollSystemUi == ui' \in {ui, overlaid}

(* What the user has begun while PS is ignored is forgotten.               *)
Forget == gesture' = IF ps THEN "ignored" ELSE "none"

(* A press that began before the session counts if the session sees it; a  *)
(* short press is over when its pulse begins.                              *)
Noticed(pressed, k) ==
    CASE gesture = "early" /\ pressed -> IF ps THEN "down" ELSE "up"
      [] keys'.pulse = 1 /\ k.pulse = 0 -> "pulse"
      [] OTHER -> gesture

(* vita_input_suppress_for_system_ui                                       *)
Suppress ==
    /\ thread = "process"
    /\ PollSystemUi /\ ui'
    /\ ignore_ps' = TRUE /\ release_sent' = TRUE
    /\ host' = IF release_sent THEN host ELSE Released
    /\ s_pad' = button /\ changed' = FALSE
    /\ keys' = ResetKeys /\ edge' = FALSE /\ Forget
    /\ thread' = "sleep"
    /\ UNCHANGED <<button, ps, report, late, age, overlaid, session, active, latched,
                   handler, stopping, raced>>

(* A finger on the front touch screen: once per touch, a click of a stick  *)
(* or something that is not the controller's.                              *)
FrontTouch ==
    \/ latched' = FALSE /\ UNCHANGED host
    \/ latched' = TRUE
       /\ \/ ~latched /\ host' = [Released EXCEPT !.click = TRUE]
          \/ UNCHANGED host

(* Mutant: the second press may come at any time.                          *)
DoublePressLate(k, pressed) ==
    pressed /\ ~k.old /\ k.single /\ k.release # Never

DoublePress(k, pressed) ==
    pressed /\ ~k.old /\ k.single /\ k.release # Never /\ k.release <= Window

(* Mutant: the press is forgotten when its release time runs out.          *)
ExpireForgets(k, pressed) ==
    IF k.single /\ ~pressed /\ k.release # Never /\ k.release > Window
    THEN [k EXCEPT !.single = FALSE, !.release = Never]
    ELSE k

(* The release time runs out: a single press becomes a pulse.              *)
Expire(k, pressed) ==
    IF k.single /\ ~pressed /\ k.release # Never /\ k.release > Window
    THEN [k EXCEPT !.single = FALSE, !.release = Never, !.pulse = 1]
    ELSE k

Held(k) == k.single /\ k.press # Never /\ k.press >= Hold

(* The press, the hold that is noticed, and the release.                   *)
PsEdge(k, pressed) ==
    CASE pressed /\ ~k.old ->
            [k EXCEPT !.press = 0, !.single = TRUE, !.release = Never]
      [] pressed /\ k.old /\ Held(k) ->
            [k EXCEPT !.single = FALSE, !.release = Never]
      [] ~pressed /\ k.old ->
            [k EXCEPT !.single = @ /\ ~Held(k), !.press = Never,
                      !.release = IF ~k.single THEN @ ELSE IF Held(k) THEN Never ELSE 0]
      [] OTHER -> k

NextKeys(k, pressed) == [Expire(PsEdge(k, pressed), pressed) EXCEPT !.old = pressed]

(* Sampling and the PS button, up to the comparison with the last sample.  *)
Sample ==
    LET k       == IF ignore_ps THEN ResetKeys ELSE keys
        pressed == ~ignore_ps /\ (ps \/ edge)
    IN /\ thread = "process"
       /\ PollSystemUi /\ ~ui'
       /\ release_sent' = FALSE
       /\ ignore_ps' = (ignore_ps /\ ps)
       /\ edge' = (~ignore_ps /\ ps /\ edge)
       /\ s_pad' = button
       /\ changed' \in {TRUE, s_pad # button \/ changed}
       /\ FrontTouch
       /\ IF DoublePress(k, pressed)
          THEN /\ keys' = [ResetKeys EXCEPT !.old = TRUE]
               /\ stopping' = TRUE /\ thread' = "sleep" /\ UNCHANGED gesture
          ELSE /\ keys' = NextKeys(k, pressed)
               /\ thread' = "send" /\ UNCHANGED stopping
               /\ IF ignore_ps THEN Forget ELSE gesture' = Noticed(pressed, k)
       /\ late' = IF ignore_ps THEN Unreported ELSE late \/ (Unreported /\ keys' # keys)
       /\ UNCHANGED <<button, ps, report, age, overlaid, session, active, handler, raced>>

(* Mutant: a pulse presses and does not release.                           *)
NextPulseEnds(p) == 0

NextPulse(p) == IF p = 1 THEN 2 ELSE 0

(* vita_input_send, and the pulse of the PS button goes on.                *)
Send ==
    /\ thread = "send" /\ thread' = "sleep"
    /\ IF changed \/ keys.pulse # 0
       THEN /\ host' = [button |-> s_pad, special |-> keys.pulse = 1, click |-> FALSE]
            /\ keys' = [keys EXCEPT !.pulse = NextPulse(@)]
            /\ changed' = FALSE
       ELSE UNCHANGED <<host, keys, changed>>
    /\ UNCHANGED <<user, age, overlaid, session, active, gate, s_pad, latched,
                   edge, handler, stopping, raced>>

ThreadStep == Wakes \/ Suppress \/ Sample \/ Send

----------------------------------------------------------------------------
(* The user, the system and time.  Fingers and ticks are slower than the   *)
(* thread and ShellUtil: the last change of PS has been seen and reported  *)
(* before the next press and before 250 ms more have gone.                 *)
CaughtUp ==
    /\ handler = "idle" /\ (report => ps)
    /\ active \/ thread = "sleep"
    /\ (active /\ ~ignore_ps) => keys.old = ps /\ (edge => ps)

PressPs ==
    /\ ~ps /\ CaughtUp
    /\ ps' = TRUE /\ report' = TRUE
    /\ gesture' = IF gesture = "up" /\ age <= Window THEN "double" ELSE "down"
    /\ age' = 0
    /\ late' = (late /\ (keys.single \/ gesture' = "double"))
    /\ UNCHANGED <<button, overlaid, session, active, thread, gate, sample, keys, edge,
                   handler, host, stopping, raced>>

ReleasePs ==
    /\ ps /\ ps' = FALSE
    /\ gesture' = CASE gesture \in {"early", "double"} -> gesture
                    [] gesture = "down" /\ age < Hold -> "up"
                    [] OTHER -> "none"
    /\ age' = 0
    /\ UNCHANGED <<button, report, late, overlaid, session, active, thread, gate, sample,
                   keys, edge, handler, host, stopping, raced>>

PressOrRelease ==
    /\ button' = ~button
    /\ UNCHANGED <<ps, report, gesture, late, age, overlaid, session, active, thread, gate,
                   sample, keys, edge, handler, host, stopping, raced>>

SystemUi ==
    /\ overlaid' = ~overlaid
    /\ UNCHANGED <<user, age, session, active, thread, gate, sample, keys, edge, handler,
                   host, stopping, raced>>

Later(t) == IF t >= Cap THEN t ELSE t + 1

Tick ==
    /\ CaughtUp
    /\ age' = Later(age)
    /\ keys' = [keys EXCEPT !.press = Later(@), !.release = Later(@)]
    /\ UNCHANGED <<user, overlaid, session, active, thread, gate, sample, edge, handler,
                   host, stopping, raced>>

Next == \/ Start \/ StopBegins \/ StopReleases \/ StopResets
        \/ ShellChecks \/ ShellSets \/ ThreadStep
        \/ PressPs \/ ReleasePs \/ PressOrRelease \/ SystemUi \/ Tick

(* moonlight_stream_stop makes the session owner call vita_input_stop.     *)
Spec == /\ Init /\ [][Next]_vars
        /\ WF_vars(ThreadStep) /\ WF_vars(ShellChecks) /\ WF_vars(ShellSets) /\ WF_vars(Tick)
        /\ WF_vars(stopping /\ StopBegins)

----------------------------------------------------------------------------
(* Nothing is held on the host while system UI owns the controller, and    *)
(* nothing after a stop, unless a sample was in progress when the release  *)
(* was sent: the thread is not joined.  The PS button is down only between *)
(* the two halves of a pulse, or after such a stop.                        *)
HostReleased ==
    LET torn == session \in {"resetting", "off"} /\ raced
    IN /\ release_sent => host = Released
       /\ session \in {"resetting", "off"} => host = Released \/ torn
       /\ host.special => keys.pulse = 2 \/ torn

(* While a session is on, a pulse of the PS button begins only for a short *)
(* press whose second chance has passed, and a press stops the stream only *)
(* if it is the second of a double press; a hold, a press made under       *)
(* system UI or in an earlier session does neither (ROADMAP.md:1322).      *)
(* Excepted is a press whose release a sample acted on before ShellUtil    *)
(* had reported the press, up to the next press that finds the PS statics  *)
(* at rest: SinglePressKeepsStream shows what comes of it.                 *)
PsGesturesObeyed ==
    [][active /\ ~late' =>
         /\ (keys.pulse = 0 /\ keys'.pulse = 1) => (gesture = "up" /\ age > Window)
         /\ (~stopping /\ stopping') => gesture = "double"]_vars

(* Only a double press stops the stream, whenever ShellUtil reports the    *)
(* presses (ROADMAP.md:1308, 1322).  The code does not keep this promise.  *)
SinglePressKeepsStream == [][active /\ ~stopping /\ stopping' => gesture = "double"]_vars

(* A short press reaches the host in the end, unless another press, system *)
(* UI or the end of the session comes between.                             *)
ShortPressForwarded ==
    (gesture = "up" /\ active) ~> (host.special \/ gesture \notin {"up", "pulse"} \/ ~active)
=============================================================================
