----------------------- MODULE InputForwardingProofs ------------------------
(***************************************************************************)
(* Proofs about InputForwarding: nothing stays held on the host, however   *)
(* samples, callbacks, system UI, stops and restarts interleave, and the   *)
(* PS button does what the user's gesture says.                            *)
(***************************************************************************)
EXTENDS InputForwarding, TLAPS

Times == 0..Never
Keys  == [old : BOOLEAN, single : BOOLEAN, press : Times, release : Times, pulse : {0, 1, 2}]
Hosts == [button : BOOLEAN, special : BOOLEAN, click : BOOLEAN]

InputTyped ==
    /\ button \in BOOLEAN /\ ps \in BOOLEAN /\ overlaid \in BOOLEAN
    /\ ui \in BOOLEAN /\ release_sent \in BOOLEAN /\ ignore_ps \in BOOLEAN
    /\ s_pad \in BOOLEAN /\ changed \in BOOLEAN /\ latched \in BOOLEAN
    /\ edge \in BOOLEAN /\ raced \in BOOLEAN /\ active \in BOOLEAN
    /\ session \in {"off", "on", "releasing", "resetting"}
    /\ thread \in {"sleep", "process", "send"}
    /\ keys \in Keys /\ host \in Hosts

(* HostReleased is not inductive.  A sample in progress after the release  *)
(* was sent is what raced says; a sample that will be sent has withdrawn   *)
(* the release for system UI; while PS is ignored there is no pulse; and   *)
(* in the second half of a pulse no press is waiting, so that the pulse    *)
(* cannot begin again before the host has seen its end.                    *)
StopInv == /\ active => session = "on"
           /\ session \in {"resetting", "off"} /\ ~raced => thread = "sleep"

PulseInv == /\ thread = "send" => ~release_sent
            /\ ignore_ps => keys.pulse = 0
            /\ keys.pulse = 1 => thread = "send" /\ ~keys.single /\ ~keys.old
            /\ keys.pulse = 2 /\ thread # "send" => ~keys.single /\ ~keys.old

InputInv == InputTyped /\ StopInv /\ PulseInv /\ HostReleased

----------------------------------------------------------------------------
(* What a sample does to the PS button.                                    *)

LEMMA TimesHave == 0 \in Times /\ Never \in Times
  BY DEF Times, Never

LEMMA LaterTyped == ASSUME NEW t \in Times PROVE Later(t) \in Times
  BY DEF Times, Never, Later, Cap

LEMMA PsEdgeTyped ==
    ASSUME NEW k \in Keys, NEW pressed \in BOOLEAN
    PROVE  PsEdge(k, pressed) \in Keys
  <1> USE TimesHave DEF Keys
  <1>1. CASE pressed /\ ~k.old
    BY <1>1 DEF PsEdge
  <1>2. CASE pressed /\ k.old /\ Held(k)
    BY <1>2 DEF PsEdge
  <1>3. CASE ~pressed /\ k.old
    <2>1. /\ (k.single /\ ~Held(k)) \in BOOLEAN
          /\ (IF ~k.single THEN k.release ELSE IF Held(k) THEN Never ELSE 0) \in Times
      OBVIOUS
    <2> QED
      BY <1>3, <2>1 DEF PsEdge
  <1>4. CASE ~(pressed /\ ~k.old) /\ ~(pressed /\ k.old /\ Held(k)) /\ ~(~pressed /\ k.old)
    BY <1>4 DEF PsEdge
  <1> QED
    BY <1>1, <1>2, <1>3, <1>4

LEMMA ExpireTyped ==
    ASSUME NEW k \in Keys, NEW pressed \in BOOLEAN
    PROVE  Expire(k, pressed) \in Keys
  BY TimesHave DEF Expire, Keys

LEMMA NextKeysTyped ==
    ASSUME NEW k \in Keys, NEW pressed \in BOOLEAN
    PROVE  NextKeys(k, pressed) \in Keys
  <1>1. Expire(PsEdge(k, pressed), pressed) \in Keys
    BY PsEdgeTyped, ExpireTyped
  <1> QED
    BY <1>1 DEF NextKeys, Keys

(* A pulse in its second half stays there.                                 *)
LEMMA NextKeysKeepsPulse ==
    ASSUME NEW k \in Keys, NEW pressed \in BOOLEAN,
           k.pulse = 2, ~k.single, ~k.old
    PROVE  NextKeys(k, pressed).pulse = 2
  <1> DEFINE e == PsEdge(k, pressed)
  <1>1. e \in Keys /\ e.pulse = 2 /\ (e.single => pressed)
    BY PsEdgeTyped DEF PsEdge, Keys
  <1>2. Expire(e, pressed) = e
    BY <1>1 DEF Expire
  <1> QED
    BY <1>1, <1>2 DEF NextKeys, Keys

(* A pulse begins when no press is waiting or held.                        *)
LEMMA NextKeysBegins ==
    ASSUME NEW k \in Keys, NEW pressed \in BOOLEAN,
           k.pulse # 1, NextKeys(k, pressed).pulse = 1
    PROVE  ~NextKeys(k, pressed).single /\ ~NextKeys(k, pressed).old
  <1> DEFINE e == PsEdge(k, pressed)
  <1>1. e \in Keys /\ e.pulse # 1
    BY PsEdgeTyped DEF PsEdge, Keys
  <1>2. Expire(e, pressed) \in Keys
    BY <1>1, ExpireTyped
  <1>3. /\ NextKeys(k, pressed).pulse = Expire(e, pressed).pulse
        /\ NextKeys(k, pressed).single = Expire(e, pressed).single
        /\ NextKeys(k, pressed).old = pressed
    BY <1>2 DEF NextKeys, Keys
  <1>4. Expire(e, pressed).pulse = 1 => ~pressed /\ ~Expire(e, pressed).single
    BY <1>1 DEF Expire, Keys
  <1> QED
    BY <1>3, <1>4

(* An ignored press begins no pulse.                                       *)
LEMMA NextKeysIdle == NextKeys(ResetKeys, FALSE).pulse = 0
  <1>1. PsEdge(ResetKeys, FALSE) = ResetKeys
    BY DEF PsEdge, ResetKeys
  <1>2. Expire(ResetKeys, FALSE) = ResetKeys
    BY DEF Expire, ResetKeys
  <1>3. NextKeys(ResetKeys, FALSE) = [ResetKeys EXCEPT !.old = FALSE]
    BY <1>1, <1>2 DEF NextKeys
  <1> QED
    BY <1>3 DEF ResetKeys

LEMMA ResetTyped ==
    /\ ResetKeys \in Keys /\ ResetKeys.pulse = 0
    /\ ResetKeys.pulse # 1 /\ ResetKeys.pulse # 2 /\ ~ResetKeys.single /\ ~ResetKeys.old
    /\ Released \in Hosts /\ ~Released.special
  BY TimesHave DEF ResetKeys, Released, Keys, Hosts

LEMMA InputInit == Init => InputInv
  BY ResetTyped DEF Init, InputInv, InputTyped, StopInv, PulseInv, HostReleased
----------------------------------------------------------------------------
(* The steps.                                                              *)

LEMMA InputOwner ==
    InputInv /\ (Start \/ StopBegins \/ StopReleases \/ StopResets) => InputInv'
  <1> SUFFICES ASSUME InputInv, Start \/ StopBegins \/ StopReleases \/ StopResets
               PROVE  InputInv'
    OBVIOUS
  <1> USE ResetTyped
      DEF InputInv, InputTyped, StopInv, PulseInv, HostReleased, user, gate, sample
  <1>1. CASE Start
    BY <1>1 DEF Start
  <1>2. CASE StopBegins
    <2>1. InputTyped'
      BY <1>2 DEF StopBegins
    <2>2. StopInv' /\ PulseInv'
      BY <1>2 DEF StopBegins
    <2>3. HostReleased'
      BY <1>2 DEF StopBegins
    <2> QED
      BY <2>1, <2>2, <2>3
  <1>3. CASE StopReleases
    <2>1. raced' \in BOOLEAN /\ (raced' <=> thread # "sleep")
      BY <1>3, Zenon DEF StopReleases
    <2>2. InputTyped' /\ StopInv'
      BY <1>3, <2>1 DEF StopReleases
    <2>3. PulseInv' /\ HostReleased'
      BY <1>3 DEF StopReleases
    <2> QED
      BY <2>2, <2>3
  <1>4. CASE StopResets
    BY <1>4 DEF StopResets
  <1> QED
    BY <1>1, <1>2, <1>3, <1>4

LEMMA InputSampled == InputInv /\ Sample => InputInv'
  <1> SUFFICES ASSUME InputInv, Sample PROVE InputInv'
    OBVIOUS
  <1> DEFINE k       == IF ignore_ps THEN ResetKeys ELSE keys
             pressed == ~ignore_ps /\ (ps \/ edge)
  <1>1. k \in Keys /\ pressed \in BOOLEAN
    BY ResetTyped DEF InputInv, InputTyped
  <1>2. /\ thread = "process" /\ ~ui' /\ ui' \in {ui, overlaid}
        /\ release_sent' = FALSE /\ ignore_ps' = (ignore_ps /\ ps)
        /\ edge' = (~ignore_ps /\ ps /\ edge)
        /\ s_pad' = button /\ changed' \in {TRUE, s_pad # button \/ changed}
        /\ UNCHANGED <<button, ps, overlaid, session, active, raced>>
        /\ thread' \in {"sleep", "send"}
    BY DEF Sample, PollSystemUi
  <1>3. /\ latched' \in BOOLEAN
        /\ host' = host \/ host' = [Released EXCEPT !.click = TRUE]
    BY DEF Sample, FrontTouch
  <1>4. host' \in Hosts /\ (host'.special => host' = host)
    BY <1>3 DEF InputInv, InputTyped, Hosts, Released
  <1>5. \/ keys' = [ResetKeys EXCEPT !.old = TRUE] /\ ~ignore_ps /\ DoublePress(k, pressed)
        \/ keys' = NextKeys(k, pressed) /\ thread' = "send"
    BY ResetTyped DEF Sample, DoublePress
  <1>6. keys' \in Keys
    <2>1. [ResetKeys EXCEPT !.old = TRUE] \in Keys
      BY ResetTyped DEF Keys
    <2> QED
      BY <1>1, <1>5, <2>1, NextKeysTyped
  <1>7. InputTyped'
    BY <1>2, <1>3, <1>4, <1>6 DEF InputInv, InputTyped
  <1>8. StopInv'
    BY <1>2 DEF InputInv, StopInv
  <1>9. ignore_ps' => keys'.pulse = 0
    BY <1>2, <1>5, NextKeysIdle DEF InputInv, InputTyped
  <1>10. ~ignore_ps /\ keys.pulse = 2 => keys'.pulse = 2
    <2> SUFFICES ASSUME ~ignore_ps, keys.pulse = 2 PROVE keys'.pulse = 2
      OBVIOUS
    <2>1. ~k.single /\ ~k.old /\ k.pulse = 2
      BY <1>2 DEF InputInv, PulseInv
    <2>2. ~DoublePress(k, pressed)
      BY <2>1 DEF DoublePress
    <2> QED
      BY <1>1, <1>5, <2>1, <2>2, NextKeysKeepsPulse
  <1>11. PulseInv'
    <2>1. keys'.pulse = 2 => thread' = "send"
      BY <1>5, ResetTyped DEF ResetKeys
    <2>2. k.pulse # 1
      BY <1>2, ResetTyped DEF InputInv, PulseInv
    <2>3. keys'.pulse = 1 => thread' = "send" /\ ~keys'.single /\ ~keys'.old
      <3>1. CASE keys' = [ResetKeys EXCEPT !.old = TRUE]
        BY <3>1 DEF ResetKeys
      <3>2. CASE keys' = NextKeys(k, pressed) /\ thread' = "send"
        <4> HIDE DEF k, pressed
        <4> QED
          BY <1>1, <2>2, <3>2, NextKeysBegins
      <3> QED
        BY <1>5, <3>1, <3>2
    <2> QED
      BY <1>2, <1>9, <2>1, <2>3 DEF PulseInv
  <1>12. HostReleased'
    <2>1. host'.special => keys'.pulse = 2 \/ (session \in {"resetting", "off"} /\ raced)
      BY <1>4, <1>10 DEF InputInv, HostReleased, PulseInv
    <2>2. session \in {"resetting", "off"} => raced
      BY <1>2 DEF InputInv, StopInv
    <2> QED
      BY <1>2, <2>1, <2>2 DEF HostReleased
  <1> QED
    BY <1>7, <1>8, <1>11, <1>12 DEF InputInv

LEMMA InputThread == InputInv /\ (Wakes \/ Suppress \/ Send) => InputInv'
  <1> SUFFICES ASSUME InputInv, Wakes \/ Suppress \/ Send PROVE InputInv'
    OBVIOUS
  <1> USE DEF InputInv, InputTyped, StopInv, PulseInv, HostReleased, user, gate, sample
  <1>1. CASE Wakes
    BY <1>1 DEF Wakes
  <1>2. CASE Suppress
    BY <1>2, ResetTyped DEF Suppress, PollSystemUi
  <1>3. CASE Send
    <2>1. CASE changed \/ keys.pulse # 0
      <3>1. /\ host' = [button |-> s_pad, special |-> keys.pulse = 1, click |-> FALSE]
            /\ keys' = [keys EXCEPT !.pulse = NextPulse(@)]
            /\ changed' = FALSE /\ thread' = "sleep" /\ thread = "send"
            /\ UNCHANGED <<button, ps, overlaid, session, active, ui, release_sent, ignore_ps,
                           s_pad, latched, edge, raced>>
        BY <1>3, <2>1 DEF Send
      <3>2. host' \in Hosts /\ (host'.special <=> keys.pulse = 1)
        BY <3>1 DEF Hosts
      <3>3. /\ keys' \in Keys /\ keys'.pulse = NextPulse(keys.pulse)
            /\ keys'.single = keys.single /\ keys'.old = keys.old
        BY <3>1 DEF Keys, NextPulse
      <3> QED
        <4>1. InputTyped'
          BY <3>1, <3>2, <3>3
        <4>2. StopInv'
          BY <3>1
        <4>3. keys.pulse = 1 <=> keys'.pulse = 2
          BY <3>3 DEF NextPulse, Keys
        <4>4. PulseInv'
          BY <3>1, <3>3, <4>3 DEF NextPulse
        <4>5. HostReleased'
          BY <3>1, <3>2, <4>3
        <4> QED
          BY <4>1, <4>2, <4>4, <4>5
    <2>2. CASE ~(changed \/ keys.pulse # 0)
      BY <1>3, <2>2 DEF Send
    <2> QED
      BY <2>1, <2>2
  <1> QED
    BY <1>1, <1>2, <1>3

LEMMA InputUntouched ==
    ASSUME InputInv, InputTyped',
           UNCHANGED <<session, active, thread, release_sent, ignore_ps, keys, host, raced>>
    PROVE  InputInv'
  BY DEF InputInv, StopInv, PulseInv, HostReleased

LEMMA InputOutside ==
    InputInv /\ (ShellChecks \/ ShellSets \/ PressPs \/ ReleasePs \/ PressOrRelease
                 \/ SystemUi \/ Tick) => InputInv'
  <1> SUFFICES ASSUME InputInv, ShellChecks \/ ShellSets \/ PressPs \/ ReleasePs
                                \/ PressOrRelease \/ SystemUi \/ Tick
               PROVE  InputInv'
    OBVIOUS
  <1>1. CASE ShellChecks \/ ShellSets
    <2>1. /\ UNCHANGED <<button, ps, overlaid, session, active, thread, ui, release_sent,
                         ignore_ps, s_pad, changed, latched, keys, host, raced>>
          /\ edge' \in BOOLEAN
      BY <1>1 DEF ShellChecks, ShellSets, user, gate, sample, InputInv, InputTyped
    <2>2. InputTyped'
      BY <2>1 DEF InputInv, InputTyped
    <2> QED
      BY <2>1, <2>2, InputUntouched
  <1>2. CASE PressPs \/ ReleasePs
    <2>1. /\ UNCHANGED <<button, overlaid, session, active, thread, ui, release_sent,
                         ignore_ps, s_pad, changed, latched, keys, edge, host, raced>>
          /\ ps' \in BOOLEAN
      BY <1>2 DEF PressPs, ReleasePs, gate, sample
    <2>2. InputTyped'
      BY <2>1 DEF InputInv, InputTyped
    <2> QED
      BY <2>1, <2>2, InputUntouched
  <1>3. CASE PressOrRelease \/ SystemUi
    <2>1. /\ UNCHANGED <<ps, session, active, thread, ui, release_sent, ignore_ps, s_pad,
                         changed, latched, keys, edge, host, raced>>
          /\ button' \in BOOLEAN /\ overlaid' \in BOOLEAN
      BY <1>3 DEF PressOrRelease, SystemUi, user, gate, sample, InputInv, InputTyped
    <2>2. InputTyped'
      BY <2>1 DEF InputInv, InputTyped
    <2> QED
      BY <2>1, <2>2, InputUntouched
  <1>4. CASE Tick
    <2>1. /\ keys' = [keys EXCEPT !.press = Later(@), !.release = Later(@)]
          /\ UNCHANGED <<button, ps, overlaid, session, active, thread, ui, release_sent,
                         ignore_ps, s_pad, changed, latched, edge, host, raced>>
      BY <1>4 DEF Tick, user, gate, sample
    <2>2. /\ keys' \in Keys /\ keys'.pulse = keys.pulse
          /\ keys'.single = keys.single /\ keys'.old = keys.old
      BY <2>1, LaterTyped DEF Keys, InputInv, InputTyped
    <2>3. InputTyped'
      BY <2>1, <2>2 DEF InputInv, InputTyped
    <2>4. StopInv' /\ PulseInv'
      BY <2>1, <2>2 DEF InputInv, StopInv, PulseInv
    <2>5. HostReleased'
      BY <2>1, <2>2 DEF InputInv, HostReleased
    <2> QED
      BY <2>3, <2>4, <2>5 DEF InputInv
  <1> QED
    BY <1>1, <1>2, <1>3, <1>4

LEMMA InputStep == InputInv /\ [Next]_vars => InputInv'
  <1> SUFFICES ASSUME InputInv, [Next]_vars PROVE InputInv'
    OBVIOUS
  <1>1. CASE Next
    BY <1>1, InputOwner, InputSampled, InputThread, InputOutside DEF Next, ThreadStep
  <1>2. CASE UNCHANGED vars
    BY <1>2 DEF vars, user, gate, sample, InputInv, InputTyped, StopInv, PulseInv, HostReleased
  <1> QED
    BY <1>1, <1>2

(* Nothing is held on the host while system UI owns the controller or      *)
(* after a stop that met no sample in progress, and the PS button is down  *)
(* only between the halves of a pulse (vita_input_suppress_for_system_ui,  *)
(* vita_input_stop, vita_input_send).                                      *)
THEOREM InputReleased == Spec => []HostReleased
  <1>1. InputInv => HostReleased
    BY DEF InputInv
  <1> QED
    BY <1>1, InputInit, InputStep, PTL DEF Spec

----------------------------------------------------------------------------
(* What the PS statics and ShellUtil know of each gesture, unless a sample *)
(* acted on a press before it was reported.  A press waits for its second  *)
(* chance exactly after a gesture that is "up" with nothing pending, its   *)
(* release time is then the age of the gesture, and a press seen as held   *)
(* has the gesture's age.                                                  *)
Gestures == {"none", "early", "down", "up", "double", "pulse", "ignored"}

PsTyped == /\ gesture \in Gestures /\ age \in 0..Cap
           /\ report \in BOOLEAN /\ handler \in {"idle", "set"} /\ late \in BOOLEAN

Pending == report \/ handler = "set" \/ edge

NoneInv ==
    gesture = "none" => /\ ~ps
                        /\ keys.old => ~keys.single \/ Held(keys)
                        /\ ~keys.old => ~keys.single /\ ~Pending

PulseSeen == gesture = "pulse" => ~ps /\ ~keys.old /\ ~keys.single /\ ~Pending

EarlyInv == gesture = "early" => /\ ~keys.old /\ ~keys.single
                                 /\ ps \/ Pending => age = 0

DownInv ==
    gesture = "down" => /\ ps
                        /\ keys.old => keys.press = age /\ (~keys.single => age >= Hold)
                        /\ ~keys.old => /\ Pending /\ age = 0
                                        /\ keys.single => keys.release > Window

UpInv ==
    gesture = "up" => /\ ~ps
                      /\ keys.old => age = 0 /\ keys.single /\ keys.press < Hold
                      /\ ~keys.old =>
                            \/ keys.single /\ keys.release = age /\ ~Pending
                            \/ Pending /\ age = 0 /\ (keys.single => keys.release > Window)

DoubleInv ==
    gesture = "double" => /\ keys.single => ~keys.old /\ keys.release <= Window /\ Pending
                          /\ ~keys.single /\ ~keys.old => ~ps /\ ~Pending

GestureParts == /\ gesture # "ignored"
                /\ NoneInv /\ PulseSeen /\ EarlyInv /\ DownInv /\ UpInv /\ DoubleInv

GestureInv == active /\ ~ignore_ps /\ ~late => GestureParts

PsInv == InputInv /\ PsTyped /\ GestureInv

(* What a sample makes of the PS statics, by what was and is pressed.      *)
LEMMA KeysAfter ==
    ASSUME NEW k \in Keys, NEW pressed \in BOOLEAN, NEW n, n = NextKeys(k, pressed)
    PROVE  /\ n.old <=> pressed
           /\ pressed /\ ~k.old => n.single /\ n.press = 0 /\ n.pulse = k.pulse
           /\ pressed /\ k.old => /\ n.press = k.press /\ n.pulse = k.pulse
                                  /\ n.single <=> k.single /\ ~Held(k)
           /\ ~pressed /\ k.old => /\ n.pulse = k.pulse
                                   /\ n.single <=> k.single /\ ~Held(k)
                                   /\ n.single => n.release = 0
           /\ ~pressed /\ ~k.old =>
                 IF k.single /\ k.release # Never /\ k.release > Window
                 THEN ~n.single /\ n.pulse = 1
                 ELSE (n.single <=> k.single) /\ n.release = k.release /\ n.pulse = k.pulse
  <1> DEFINE e == PsEdge(k, pressed)
             x == Expire(e, pressed)
  <1>1. e \in Keys /\ x \in Keys
    BY PsEdgeTyped, ExpireTyped
  <1>2. /\ n.old = pressed /\ n.single = x.single /\ n.press = x.press
        /\ n.release = x.release /\ n.pulse = x.pulse
    BY <1>1 DEF NextKeys, Keys
  <1>3. ASSUME pressed PROVE x = e
    BY <1>3 DEF Expire
  <1>4. CASE pressed /\ ~k.old
    <2>1. e.single /\ e.press = 0 /\ e.pulse = k.pulse
      BY <1>4 DEF PsEdge, Keys
    <2> QED
      BY <1>2, <1>3, <1>4, <2>1
  <1>5. CASE pressed /\ k.old
    <2>1. e.press = k.press /\ e.pulse = k.pulse /\ (e.single <=> k.single /\ ~Held(k))
      <3>1. CASE Held(k)
        <4>1. e = [k EXCEPT !.single = FALSE, !.release = Never]
          BY <1>5, <3>1 DEF PsEdge
        <4> QED
          BY <3>1, <4>1 DEF Keys
      <3>2. CASE ~Held(k)
        <4>1. e = k
          BY <1>5, <3>2 DEF PsEdge
        <4> QED
          BY <3>2, <4>1
      <3> QED
        BY <3>1, <3>2
    <2> QED
      BY <1>2, <1>3, <1>5, <2>1
  <1>6. CASE ~pressed /\ k.old
    <2>1. e = [k EXCEPT !.single = @ /\ ~Held(k), !.press = Never,
                        !.release = IF ~k.single THEN @ ELSE IF Held(k) THEN Never ELSE 0]
      BY <1>6 DEF PsEdge
    <2>2. /\ e.single <=> k.single /\ ~Held(k)
          /\ e.pulse = k.pulse
          /\ e.single => e.release = 0
      BY <2>1 DEF Keys
    <2>3. x = e
      BY <2>2 DEF Expire, Window
    <2> QED
      BY <1>2, <1>6, <2>2, <2>3
  <1>7. CASE ~pressed /\ ~k.old
    <2>1. e = k
      BY <1>7 DEF PsEdge
    <2>2. CASE k.single /\ k.release # Never /\ k.release > Window
      <3>1. x = [k EXCEPT !.single = FALSE, !.release = Never, !.pulse = 1]
        BY <1>7, <2>1, <2>2 DEF Expire
      <3>2. ~x.single /\ x.pulse = 1
        BY <3>1 DEF Keys
      <3> QED
        BY <1>2, <1>7, <2>2, <3>2
    <2>3. CASE ~(k.single /\ k.release # Never /\ k.release > Window)
      <3>1. x = k
        BY <1>7, <2>1, <2>3 DEF Expire
      <3> QED
        BY <1>2, <1>7, <2>3, <3>1
    <2> QED
      BY <2>2, <2>3
  <1> QED
    BY <1>4, <1>5, <1>6, <1>7

(* A sample sees every press that began; it takes a release for the end of *)
(* a press when no report is due.                                          *)
LEMMA GestureReported ==
    ASSUME PsInv, active, ~ignore_ps, ~late, ~Unreported, Sample
    PROVE  /\ GestureParts'
           /\ keys.pulse = 0 /\ keys'.pulse = 1 => gesture = "up" /\ age > Window
           /\ ~stopping /\ stopping' => gesture = "double"
  <1> DEFINE pressed == ps \/ edge
             again   == DoublePress(keys, pressed)
             n       == NextKeys(keys, pressed)
  <1>1. /\ keys \in Keys /\ pressed \in BOOLEAN /\ age \in 0..Cap /\ gesture \in Gestures
        /\ ps \in BOOLEAN /\ edge \in BOOLEAN /\ report \in BOOLEAN
        /\ keys.old \in BOOLEAN /\ keys.single \in BOOLEAN
        /\ keys.press \in 0..4 /\ keys.release \in 0..4 /\ keys.pulse \in {0, 1, 2}
    BY DEF PsInv, InputInv, InputTyped, PsTyped, Keys, Times, Never
  <1>2. GestureParts
    BY DEF PsInv, GestureInv
  <1>3. keys.pulse # 1 /\ (keys.pulse = 2 => ~keys.single /\ ~keys.old)
    BY DEF PsInv, InputInv, PulseInv, Sample
  <1>4. /\ ps \/ (~report /\ handler = "idle")
        /\ UNCHANGED <<ps, report, age, handler>>
        /\ edge' <=> ps /\ edge
    <2>1. UNCHANGED <<ps, report, age, handler>> /\ (edge' <=> ps /\ edge)
      BY DEF Sample
    <2>2. ps \/ (~report /\ handler # "set")
      BY DEF Unreported
    <2> QED
      BY <2>1, <2>2 DEF PsInv, PsTyped
  <1>5. Pending' <=> ps /\ Pending
    BY <1>4 DEF Pending
  <1>6. CASE again
    <2>1. /\ keys' = [ResetKeys EXCEPT !.old = TRUE] /\ UNCHANGED gesture
      BY <1>6 DEF Sample
    <2>2. keys'.old /\ ~keys'.single /\ keys'.pulse = 0
      BY <2>1 DEF ResetKeys
    <2>3. pressed /\ ~keys.old /\ keys.single /\ keys.release <= Window
      BY <1>6 DEF DoublePress
    <2>4. Pending \/ ps
      BY <2>3 DEF Pending
    <2>5. gesture = "double"
      <3>1. gesture # "up"
        <4> SUFFICES ASSUME gesture = "up" PROVE FALSE
          OBVIOUS
        <4>1. ~ps /\ Pending
          BY <1>2, <2>4 DEF GestureParts, UpInv
        <4> QED
          BY <1>1, <1>2, <2>3, <4>1 DEF GestureParts, UpInv, Window
      <3>2. gesture # "down"
        BY <1>1, <1>2, <2>3 DEF GestureParts, DownInv, Window
      <3>3. gesture \notin {"none", "pulse", "early", "ignored"}
        BY <1>2, <2>3 DEF GestureParts, NoneInv, PulseSeen, EarlyInv
      <3> QED
        BY <1>1, <3>1, <3>2, <3>3 DEF Gestures
    <2>6. GestureParts'
      BY <2>1, <2>2, <2>5
      DEF GestureParts, NoneInv, PulseSeen, EarlyInv, DownInv, UpInv, DoubleInv
    <2> QED
      BY <2>2, <2>5, <2>6
  <1>7. CASE ~again
    <2>1. /\ keys' = n /\ UNCHANGED stopping
          /\ gesture' = Noticed(pressed, keys)
      BY <1>7 DEF Sample
    <2>2. /\ n.old <=> pressed
          /\ pressed /\ ~keys.old => n.single /\ n.press = 0 /\ n.pulse = keys.pulse
          /\ pressed /\ keys.old => /\ n.press = keys.press /\ n.pulse = keys.pulse
                                    /\ n.single <=> keys.single /\ ~Held(keys)
          /\ ~pressed /\ keys.old => /\ n.pulse = keys.pulse
                                     /\ n.single <=> keys.single /\ ~Held(keys)
                                     /\ n.single => n.release = 0
          /\ ~pressed /\ ~keys.old =>
                IF keys.single /\ keys.release # Never /\ keys.release > Window
                THEN ~n.single /\ n.pulse = 1
                ELSE /\ n.single <=> keys.single
                     /\ n.release = keys.release /\ n.pulse = keys.pulse
      <3> HIDE DEF pressed, n
      <3> QED
        BY <1>1, KeysAfter DEF n
    <2>3. ~pressed => ~Pending /\ ~ps
      BY <1>4 DEF Pending
    <2> HIDE DEF n, again
    <2>4. CASE gesture = "up" /\ ~pressed /\ ~keys.old
      <3>1. ~ps /\ ~edge /\ ~Pending /\ keys.single /\ keys.release = age
        BY <1>2, <2>3, <2>4 DEF GestureParts, UpInv
      <3>2. keys.pulse = 0
        BY <1>1, <1>3, <3>1
      <3>3. CASE age > Window
        <4>1. keys'.pulse = 1 /\ ~keys'.single /\ ~keys'.old
          BY <1>1, <2>1, <2>2, <2>4, <3>1, <3>3 DEF Never, Cap
        <4>2. gesture' = "pulse"
          BY <2>1, <2>4, <3>2, <4>1 DEF Noticed
        <4>3. GestureParts'
          BY <1>4, <1>5, <3>1, <4>1, <4>2
          DEF GestureParts, NoneInv, PulseSeen, EarlyInv, DownInv, UpInv, DoubleInv
        <4> QED
          BY <2>1, <2>4, <3>3, <4>3
      <3>4. CASE ~(age > Window)
        <4>1. /\ keys'.pulse = 0 /\ keys'.single /\ ~keys'.old
              /\ keys'.release = age
          BY <1>1, <2>1, <2>2, <2>4, <3>1, <3>2, <3>4
        <4>2. gesture' = "up"
          BY <2>1, <2>4, <4>1 DEF Noticed
        <4>3. GestureParts'
          BY <1>4, <1>5, <3>1, <4>1, <4>2
          DEF GestureParts, NoneInv, PulseSeen, EarlyInv, DownInv, UpInv, DoubleInv
        <4> QED
          BY <2>1, <4>1, <4>3
      <3> QED
        BY <3>3, <3>4
    <2>5. CASE ~(gesture = "up" /\ ~pressed /\ ~keys.old)
      <3>1. n.pulse = keys.pulse
        <4> SUFFICES ASSUME ~pressed, ~keys.old, keys.single, keys.release # Never,
                            keys.release > Window
                     PROVE  FALSE
          BY <2>2
        <4>1. gesture \notin {"none", "pulse", "early", "ignored", "down"}
          BY <1>2, <2>3 DEF GestureParts, NoneInv, PulseSeen, EarlyInv, DownInv
        <4>2. gesture # "double"
          BY <1>1, <1>2 DEF GestureParts, DoubleInv, Window
        <4> QED
          BY <1>1, <2>5, <4>1, <4>2 DEF Gestures
      <3>2. gesture' = IF gesture = "early" /\ pressed THEN IF ps THEN "down" ELSE "up"
                       ELSE gesture
        BY <1>3, <2>1, <3>1 DEF Noticed
      <3>3. NoneInv'
        <4> SUFFICES ASSUME gesture' = "none" PROVE NoneInv'
          BY DEF NoneInv
        <4>1. gesture = "none"
          BY <3>2
        <4>2. ~ps /\ (keys.old => ~keys.single \/ Held(keys))
              /\ (~keys.old => ~keys.single /\ ~Pending)
          BY <1>2, <4>1 DEF GestureParts, NoneInv
        <4>3. ~keys.old => ~pressed
          BY <4>2 DEF Pending
        <4>4. ~n.single
          BY <1>1, <2>2, <4>2, <4>3
        <4> QED
          BY <1>4, <1>5, <2>1, <4>2, <4>4 DEF NoneInv
      <3>4. PulseSeen'
        <4> SUFFICES ASSUME gesture' = "pulse" PROVE PulseSeen'
          BY DEF PulseSeen
        <4>1. gesture = "pulse"
          BY <3>2
        <4>2. ~ps /\ ~keys.old /\ ~keys.single /\ ~Pending
          BY <1>2, <4>1 DEF GestureParts, PulseSeen
        <4>3. ~pressed
          BY <4>2 DEF Pending
        <4> QED
          BY <1>4, <1>5, <2>1, <2>2, <4>2, <4>3 DEF PulseSeen
      <3>5. EarlyInv'
        <4> SUFFICES ASSUME gesture' = "early" PROVE EarlyInv'
          BY DEF EarlyInv
        <4>1. gesture = "early" /\ ~pressed
          BY <3>2
        <4>2. ~keys.old /\ ~keys.single
          BY <1>2, <4>1 DEF GestureParts, EarlyInv
        <4> QED
          BY <1>4, <1>5, <2>1, <2>2, <4>1, <4>2 DEF EarlyInv
      <3>6. DownInv'
        <4> SUFFICES ASSUME gesture' = "down" PROVE DownInv'
          BY DEF DownInv
        <4>1. CASE gesture = "early" /\ pressed
          <5>1. ps /\ age = 0 /\ ~keys.old
            BY <1>2, <3>2, <4>1 DEF GestureParts, EarlyInv, Pending
          <5> QED
            BY <1>4, <2>1, <2>2, <4>1, <5>1 DEF DownInv
        <4>2. CASE gesture = "down"
          <5>1. /\ ps
                /\ keys.old => keys.press = age /\ (~keys.single => age >= Hold)
                /\ ~keys.old => age = 0
            BY <1>2, <4>2 DEF GestureParts, DownInv
          <5>2. CASE keys.old
            BY <1>1, <1>4, <2>1, <2>2, <5>1, <5>2 DEF DownInv, Held
          <5>3. CASE ~keys.old
            BY <1>4, <2>1, <2>2, <5>1, <5>3 DEF DownInv
          <5> QED
            BY <5>2, <5>3
        <4> QED
          BY <3>2, <4>1, <4>2
      <3>7. UpInv'
        <4> SUFFICES ASSUME gesture' = "up" PROVE UpInv'
          BY DEF UpInv
        <4>1. CASE gesture = "early" /\ pressed
          <5>1. ~ps /\ age = 0 /\ ~keys.old
            BY <1>2, <3>2, <4>1 DEF GestureParts, EarlyInv, Pending
          <5> QED
            BY <1>4, <2>1, <2>2, <4>1, <5>1 DEF UpInv, Hold
        <4>2. CASE gesture = "up"
          <5>1. /\ ~ps
                /\ keys.old => age = 0 /\ keys.single /\ keys.press < Hold
                /\ ~keys.old => pressed /\ age = 0
            BY <1>2, <2>5, <4>2 DEF GestureParts, UpInv, Pending
          <5>2. CASE keys.old
            <6>1. ~Held(keys)
              BY <1>1, <5>1, <5>2 DEF Held, Hold
            <6> QED
              BY <1>1, <1>4, <1>5, <2>1, <2>2, <5>1, <5>2, <6>1 DEF UpInv
          <5>3. CASE ~keys.old
            BY <1>4, <2>1, <2>2, <5>1, <5>3 DEF UpInv, Hold
          <5> QED
            BY <5>2, <5>3
        <4> QED
          BY <3>2, <4>1, <4>2
      <3>8. DoubleInv'
        <4> SUFFICES ASSUME gesture' = "double" PROVE DoubleInv'
          BY DEF DoubleInv
        <4>1. gesture = "double"
          BY <3>2
        <4>2. /\ keys.single => ~keys.old /\ keys.release <= Window /\ Pending
              /\ ~keys.single /\ ~keys.old => ~ps /\ ~Pending
          BY <1>2, <4>1 DEF GestureParts, DoubleInv
        <4>3. ~keys.single
          <5> SUFFICES ASSUME keys.single PROVE FALSE
            OBVIOUS
          <5>1. pressed
            BY <2>3, <4>2
          <5>2. keys.release # Never
            BY <1>1, <4>2 DEF Window, Never
          <5> QED
            BY <1>7, <4>2, <5>1, <5>2 DEF again, DoublePress
        <4>4. ~keys.old => ~pressed
          BY <4>2, <4>3 DEF Pending
        <4> QED
          BY <1>1, <1>4, <1>5, <2>1, <2>2, <2>3, <4>3, <4>4 DEF DoubleInv
      <3>9. gesture' # "ignored"
        BY <1>2, <3>2 DEF GestureParts
      <3> QED
        BY <1>3, <2>1, <3>1, <3>3, <3>4, <3>5, <3>6, <3>7, <3>8, <3>9 DEF GestureParts
    <2> QED
      BY <2>4, <2>5
  <1> QED
    BY <1>6, <1>7

(* With a report due, a sample that changes none of the statics does       *)
(* nothing at all.                                                         *)
LEMMA GestureSampled ==
    ASSUME PsInv, active, ~ignore_ps, ~late', Sample
    PROVE  /\ GestureParts'
           /\ keys.pulse = 0 /\ keys'.pulse = 1 => gesture = "up" /\ age > Window
           /\ ~stopping /\ stopping' => gesture = "double"
  <1> DEFINE pressed == ps \/ edge
  <1>1. ~late /\ (Unreported => keys' = keys)
    <2>1. late' = (late \/ (Unreported /\ keys' # keys))
      BY Zenon DEF Sample
    <2> QED
      BY <2>1, Zenon
  <1>2. CASE ~Unreported
    BY <1>1, <1>2, GestureReported
  <1>3. CASE Unreported
    <2>1. GestureParts /\ keys' = keys
      BY <1>1, <1>3 DEF PsInv, GestureInv
    <2>2. ~DoublePress(keys, pressed)
      <3> SUFFICES ASSUME DoublePress(keys, pressed) PROVE FALSE
        OBVIOUS
      <3>1. keys' = [ResetKeys EXCEPT !.old = TRUE]
        BY Zenon DEF Sample
      <3>2. keys'.old
        BY <3>1 DEF ResetKeys
      <3> QED
        BY <2>1, <3>2 DEF DoublePress
    <2>3. /\ UNCHANGED <<ps, report, age, handler, stopping>>
          /\ gesture' = Noticed(pressed, keys)
          /\ keys' = NextKeys(keys, pressed)
      BY <2>2 DEF Sample
    <2>4. keys'.pulse = keys.pulse
      BY <2>1
    <2>5. ~(gesture = "early" /\ pressed)
      <3> SUFFICES ASSUME gesture = "early", pressed PROVE FALSE
        OBVIOUS
      <3>1. ~keys.old
        BY <2>1 DEF GestureParts, EarlyInv
      <3>2. keys'.old
        <4>1. keys \in Keys /\ pressed \in BOOLEAN
          BY DEF PsInv, InputInv, InputTyped
        <4> HIDE DEF pressed
        <4>2. keys'.old <=> pressed
          BY <2>3, <4>1, KeysAfter, Zenon
        <4> QED
          BY <4>2
      <3> QED
        BY <2>1, <3>1, <3>2
    <2>6. UNCHANGED gesture
      <3>1. ~(keys'.pulse = 1 /\ keys.pulse = 0)
        BY <2>4
      <3> HIDE DEF pressed
      <3> QED
        BY <2>3, <2>5, <3>1 DEF Noticed
    <2>7. Pending' <=> Pending
      BY <1>3, <2>3 DEF Pending, Unreported
    <2>8. Held(keys)' <=> Held(keys)
      BY <2>1 DEF Held
    <2>9. GestureParts'
      BY <2>1, <2>3, <2>6, <2>7, <2>8
      DEF GestureParts, NoneInv, PulseSeen, EarlyInv, DownInv, UpInv, DoubleInv
    <2> QED
      BY <2>3, <2>4, <2>9
  <1> QED
    BY <1>2, <1>3

(* After a press that was ignored, the statics and the user start anew.    *)
LEMMA GestureForgotten ==
    ASSUME PsInv, ignore_ps, Sample
    PROVE  /\ ~ignore_ps' /\ ~late' => GestureParts'
           /\ keys'.pulse = 0 /\ UNCHANGED stopping
           /\ gesture' \in {"none", "ignored"}
  <1>1. ~DoublePress(ResetKeys, FALSE)
    BY DEF DoublePress
  <1>2. /\ keys' = NextKeys(ResetKeys, FALSE) /\ UNCHANGED stopping /\ Forget
        /\ UNCHANGED <<ps, report, handler>>
        /\ ignore_ps' <=> ps
        /\ ~edge'
        /\ late' = Unreported
    BY <1>1 DEF Sample
  <1>3. ~keys'.old /\ ~keys'.single /\ keys'.pulse = 0
    <2> DEFINE n == NextKeys(ResetKeys, FALSE)
    <2>1. n.old <=> FALSE
      BY ResetTyped, KeysAfter
    <2>2. n.single <=> FALSE
      BY ResetTyped, KeysAfter, Zenon
    <2> QED
      BY <1>2, <2>1, <2>2, NextKeysIdle
  <1>4. gesture' = IF ps THEN "ignored" ELSE "none"
    BY <1>2 DEF Forget
  <1>5. ASSUME ~ignore_ps', ~late' PROVE GestureParts'
    <2>1. ~ps /\ ~Unreported
      BY <1>2, <1>5
    <2>2. ~Pending'
      BY <1>2, <2>1 DEF Pending, Unreported
    <2> QED
      BY <1>2, <1>3, <1>4, <2>1, <2>2
      DEF GestureParts, NoneInv, PulseSeen, EarlyInv, DownInv, UpInv, DoubleInv
  <1> QED
    BY <1>2, <1>3, <1>4, <1>5

(* The next step of the user comes when the thread has seen the last.      *)
LEMMA GestureUser ==
    ASSUME PsInv, active, ~ignore_ps, ~late, PressPs \/ ReleasePs \/ Tick
    PROVE  GestureParts'
  <1>1. /\ keys \in Keys /\ age \in 0..Cap /\ gesture \in Gestures
        /\ ps \in BOOLEAN /\ edge \in BOOLEAN
        /\ keys.old \in BOOLEAN /\ keys.single \in BOOLEAN
        /\ keys.press \in 0..4 /\ keys.release \in 0..4
    BY DEF PsInv, InputInv, InputTyped, PsTyped, Keys, Times, Never
  <1>2. GestureParts
    BY DEF PsInv, GestureInv
  <1>3. ASSUME CaughtUp, ~ps PROVE ~Pending /\ ~keys.old
    BY <1>1, <1>3 DEF CaughtUp, Pending
  <1>4. CASE PressPs
    <2>1. /\ ~ps /\ CaughtUp /\ ps' /\ report' /\ age' = 0
          /\ gesture' = IF gesture = "up" /\ age <= Window THEN "double" ELSE "down"
          /\ UNCHANGED keys
      BY <1>4 DEF PressPs
    <2>2. ~Pending /\ ~keys.old /\ Pending'
      BY <1>3, <2>1 DEF Pending
    <2>3. CASE gesture = "up" /\ age <= Window
      <3>1. keys.single /\ keys.release = age
        BY <1>2, <2>2, <2>3 DEF GestureParts, UpInv
      <3>2. DoubleInv'
        BY <2>1, <2>2, <2>3, <3>1 DEF DoubleInv
      <3> QED
        BY <2>1, <2>3, <3>2
        DEF GestureParts, NoneInv, PulseSeen, EarlyInv, DownInv, UpInv
    <2>4. CASE ~(gesture = "up" /\ age <= Window)
      <3>1. keys.single => keys.release > Window
        <4>1. CASE gesture = "up"
          <5>1. keys.release = age
            BY <1>2, <2>2, <4>1 DEF GestureParts, UpInv
          <5> QED
            BY <1>1, <2>4, <4>1, <5>1 DEF Cap, Window
        <4>2. CASE gesture # "up"
          <5>1. ~keys.single
            BY <1>1, <1>2, <2>1, <2>2, <4>2
            DEF GestureParts, NoneInv, PulseSeen, EarlyInv, DownInv, DoubleInv, Gestures
          <5> QED
            BY <5>1
        <4> QED
          BY <4>1, <4>2
      <3>2. DownInv'
        BY <2>1, <2>2, <3>1 DEF DownInv
      <3> QED
        BY <2>1, <2>4, <3>2
        DEF GestureParts, NoneInv, PulseSeen, EarlyInv, UpInv, DoubleInv
    <2> QED
      BY <2>3, <2>4
  <1>5. CASE ReleasePs
    <2>1. /\ ps /\ ~ps' /\ age' = 0 /\ UNCHANGED <<keys, report, handler, edge>>
          /\ gesture' = CASE gesture \in {"early", "double"} -> gesture
                          [] gesture = "down" /\ age < Hold -> "up"
                          [] OTHER -> "none"
      BY <1>5 DEF ReleasePs
    <2>2. Pending' <=> Pending
      BY <2>1 DEF Pending
    <2>3. gesture \in {"early", "down", "double"}
      BY <1>1, <1>2, <2>1 DEF GestureParts, NoneInv, PulseSeen, UpInv, Gestures
    <2>4. CASE gesture = "early"
      <3>1. gesture' = "early" /\ ~keys.old /\ ~keys.single
        BY <1>2, <2>1, <2>4 DEF GestureParts, EarlyInv
      <3> QED
        BY <2>1, <3>1
        DEF GestureParts, NoneInv, PulseSeen, EarlyInv, DownInv, UpInv, DoubleInv
    <2>5. CASE gesture = "double"
      <3>1. gesture' = "double"
        BY <2>1, <2>5
      <3>2. DoubleInv'
        BY <1>2, <2>1, <2>2, <2>5, <3>1 DEF GestureParts, DoubleInv
      <3> QED
        BY <3>1, <3>2 DEF GestureParts, NoneInv, PulseSeen, EarlyInv, DownInv, UpInv
    <2>6. CASE gesture = "down"
      <3>1. /\ keys.old => keys.press = age /\ (~keys.single => age >= Hold)
            /\ ~keys.old => /\ Pending /\ age = 0
                            /\ keys.single => keys.release > Window
        BY <1>2, <2>6 DEF GestureParts, DownInv
      <3>2. CASE age < Hold
        <4>1. gesture' = "up"
          BY <2>1, <2>6, <3>2
        <4>2. UpInv'
          BY <1>1, <2>1, <2>2, <3>1, <3>2 DEF UpInv, Hold, Cap
        <4> QED
          BY <4>1, <4>2 DEF GestureParts, NoneInv, PulseSeen, EarlyInv, DownInv, DoubleInv
      <3>3. CASE ~(age < Hold)
        <4>1. gesture' = "none"
          BY <2>1, <2>6, <3>3
        <4>2. keys.old /\ keys.press = age /\ age >= Hold /\ age # Never
          BY <1>1, <3>1, <3>3 DEF Hold, Cap, Never
        <4>3. ~keys.single \/ Held(keys)
          BY <4>2 DEF Held
        <4>4. (~keys.single \/ Held(keys))'
          BY <2>1, <4>3 DEF Held
        <4>5. NoneInv'
          BY <2>1, <4>2, <4>4 DEF NoneInv
        <4> QED
          BY <4>1, <4>5 DEF GestureParts, PulseSeen, EarlyInv, DownInv, UpInv, DoubleInv
      <3> QED
        BY <3>2, <3>3
    <2> QED
      BY <2>3, <2>4, <2>5, <2>6
  <1>6. CASE Tick
    <2>1. /\ CaughtUp /\ age' = Later(age)
          /\ keys' = [keys EXCEPT !.press = Later(@), !.release = Later(@)]
          /\ UNCHANGED <<ps, report, gesture, handler, edge>>
      BY <1>6 DEF Tick, user
    <2>2. /\ keys'.old = keys.old /\ keys'.single = keys.single
          /\ keys'.press = Later(keys.press) /\ keys'.release = Later(keys.release)
      BY <1>1, <2>1 DEF Keys
    <2>3. Pending' <=> Pending
      BY <2>1 DEF Pending
    <2>4. keys.old <=> ps
      BY <1>1, <2>1 DEF CaughtUp
    <2>5. NoneInv' /\ PulseSeen' /\ EarlyInv'
      BY <1>2, <1>3, <2>1, <2>2, <2>3, <2>4 DEF GestureParts, NoneInv, PulseSeen, EarlyInv
    <2>6. DownInv'
      <3> SUFFICES ASSUME gesture = "down" PROVE DownInv'
        BY <2>1 DEF DownInv
      <3>1. ps /\ keys.press = age /\ (~keys.single => age >= Hold)
        BY <1>2, <2>4 DEF GestureParts, DownInv
      <3>2. age >= Hold => Later(age) >= Hold
        BY <1>1 DEF Later, Hold, Cap
      <3> QED
        BY <2>1, <2>2, <2>4, <3>1, <3>2 DEF DownInv
    <2>7. UpInv'
      <3> SUFFICES ASSUME gesture = "up" PROVE UpInv'
        BY <2>1 DEF UpInv
      <3>1. ~ps /\ ~keys.old /\ ~Pending
        BY <1>2, <1>3, <2>1, <2>4 DEF GestureParts, UpInv
      <3>2. keys.single /\ keys.release = age
        BY <1>2, <3>1 DEF GestureParts, UpInv
      <3> QED
        BY <2>1, <2>2, <2>3, <3>1, <3>2 DEF UpInv
    <2>8. DoubleInv'
      <3> SUFFICES ASSUME gesture = "double" PROVE DoubleInv'
        BY <2>1 DEF DoubleInv
      <3>1. ~keys.single /\ (~keys.old => ~ps /\ ~Pending)
        BY <1>2, <1>3, <2>1, <2>4 DEF GestureParts, DoubleInv
      <3> QED
        BY <2>1, <2>2, <2>3, <3>1 DEF DoubleInv
    <2> QED
      BY <1>2, <2>1, <2>5, <2>6, <2>7, <2>8 DEF GestureParts
  <1> QED
    BY <1>4, <1>5, <1>6

(* A press that finds the statics at rest is a new beginning.              *)
LEMMA GestureResumed ==
    ASSUME PsInv, active, ~ignore_ps, late, ~late', PressPs
    PROVE  GestureParts'
  <1>1. /\ ~ps /\ CaughtUp /\ ps' /\ report' /\ age' = 0 /\ UNCHANGED keys
        /\ late' = (late /\ (keys.single \/ gesture' = "double"))
        /\ gesture' \in {"double", "down"}
    BY DEF PressPs
  <1>2. ~keys.single /\ gesture' = "down"
    BY <1>1
  <1>3. ~keys.old
    BY <1>1 DEF CaughtUp, PsInv, InputInv, InputTyped, Keys
  <1>4. Pending'
    BY <1>1 DEF Pending
  <1> QED
    BY <1>1, <1>2, <1>3, <1>4
    DEF GestureParts, NoneInv, PulseSeen, EarlyInv, DownInv, UpInv, DoubleInv

(* The callback: what it takes over stays pending, unless the press has    *)
(* been seen.                                                              *)
LEMMA GestureShell ==
    ASSUME PsInv, active, ~ignore_ps, ~late, ShellChecks \/ ShellSets
    PROVE  GestureParts'
  <1>1. UNCHANGED <<ps, gesture, age, keys>>
    BY DEF ShellChecks, ShellSets, user
  <1>2. (Pending' <=> Pending) \/ (keys.old /\ (Pending' => Pending))
    BY DEF ShellChecks, ShellSets, Pending, user
  <1>3. Held(keys)' <=> Held(keys)
    BY <1>1 DEF Held
  <1>4. GestureParts
    BY DEF PsInv, GestureInv
  <1>5. NoneInv' /\ PulseSeen' /\ EarlyInv'
    BY <1>1, <1>2, <1>3, <1>4 DEF GestureParts, NoneInv, PulseSeen, EarlyInv
  <1>6. DownInv' /\ UpInv' /\ DoubleInv'
    BY <1>1, <1>2, <1>4 DEF GestureParts, DownInv, UpInv, DoubleInv
  <1> QED
    BY <1>1, <1>4, <1>5, <1>6 DEF GestureParts

LEMMA GestureStarted == ASSUME Start PROVE GestureParts'
  <1>1. /\ ~keys'.old /\ ~keys'.single /\ ~edge' /\ age' = 0
        /\ handler' = "idle" /\ UNCHANGED <<ps, report>>
        /\ gesture' = IF ps \/ report THEN "early" ELSE "none"
    BY ResetTyped DEF Start
  <1> QED
    BY <1>1
    DEF GestureParts, NoneInv, PulseSeen, EarlyInv, DownInv, UpInv, DoubleInv, Pending

(* The other steps leave what GestureParts speaks of.                      *)
LEMMA GestureUntouched ==
    ASSUME PsInv, GestureParts,
           UNCHANGED <<ps, report, gesture, age, edge, handler>>,
           keys'.old = keys.old, keys'.single = keys.single,
           keys'.press = keys.press, keys'.release = keys.release
    PROVE  GestureParts'
  <1>1. (Pending' <=> Pending) /\ (Held(keys)' <=> Held(keys))
    BY DEF Pending, Held
  <1>2. NoneInv' /\ PulseSeen' /\ EarlyInv'
    BY <1>1 DEF GestureParts, NoneInv, PulseSeen, EarlyInv
  <1>3. DownInv' /\ UpInv' /\ DoubleInv'
    BY <1>1 DEF GestureParts, DownInv, UpInv, DoubleInv
  <1> QED
    BY <1>2, <1>3 DEF GestureParts

LEMMA SendKeepsPress ==
    ASSUME PsInv, Send
    PROVE  /\ keys'.old = keys.old /\ keys'.single = keys.single
           /\ keys'.press = keys.press /\ keys'.release = keys.release
           /\ keys.pulse = 0 => keys'.pulse = 0
  <1>1. keys \in Keys
    BY DEF PsInv, InputInv, InputTyped
  <1>2. CASE UNCHANGED keys
    BY <1>2
  <1>3. CASE keys' = [keys EXCEPT !.pulse = NextPulse(@)]
    BY <1>1, <1>3 DEF Keys, NextPulse
  <1> QED
    BY <1>2, <1>3 DEF Send

LEMMA GestureStep ==
    ASSUME PsInv, [Next]_vars
    PROVE  GestureInv'
  <1> SUFFICES ASSUME active', ~ignore_ps', ~late' PROVE GestureParts'
    BY DEF GestureInv
  <1>1. CASE Start
    BY <1>1, GestureStarted
  <1>2. CASE StopBegins \/ StopReleases \/ StopResets
    <2>1. ~active'
      BY <1>2 DEF StopBegins, StopReleases, StopResets, PsInv, InputInv, StopInv
    <2> QED
      BY <2>1
  <1>3. CASE Suppress
    BY <1>3 DEF Suppress
  <1>4. CASE Sample
    <2>1. active
      BY <1>4 DEF Sample
    <2> QED
      BY <1>4, <2>1, GestureSampled, GestureForgotten
  <1>5. ASSUME ~Start, ~Suppress, ~Sample, Next \/ UNCHANGED vars,
               ~(StopBegins \/ StopReleases \/ StopResets), ~(PressPs /\ late)
        PROVE  GestureParts'
    <2>1. UNCHANGED <<active, ignore_ps>>
      BY <1>5 DEF Next, ThreadStep, Wakes, Send, ShellChecks, ShellSets, PressPs, ReleasePs,
                  PressOrRelease, SystemUi, Tick, vars, gate
    <2>7. ~late
      BY <1>5 DEF Next, ThreadStep, Wakes, Send, ShellChecks, ShellSets, PressPs, ReleasePs,
                  PressOrRelease, SystemUi, Tick, vars, user
    <2>2. active /\ ~ignore_ps /\ ~late /\ GestureParts
      BY <2>1, <2>7 DEF PsInv, GestureInv
    <2>3. CASE ShellChecks \/ ShellSets
      BY <2>2, <2>3, GestureShell
    <2>4. CASE PressPs \/ ReleasePs \/ Tick
      BY <2>2, <2>4, GestureUser
    <2>5. CASE Wakes \/ PressOrRelease \/ SystemUi \/ UNCHANGED vars
      <3>1. UNCHANGED <<ps, report, gesture, age, edge, handler, keys>>
        BY <2>5 DEF Wakes, PressOrRelease, SystemUi, vars, user
      <3> QED
        BY <2>2, <3>1, GestureUntouched
    <2>6. CASE Send
      <3>1. UNCHANGED <<ps, report, gesture, age, edge, handler>>
        BY <2>6 DEF Send, user
      <3> QED
        BY <2>2, <2>6, <3>1, SendKeepsPress, GestureUntouched
    <2> QED
      BY <1>5, <2>3, <2>4, <2>5, <2>6 DEF Next, ThreadStep
  <1>6. CASE PressPs /\ late
    <2>1. UNCHANGED <<active, ignore_ps>>
      BY <1>6 DEF PressPs, gate
    <2> QED
      BY <1>6, <2>1, GestureResumed
  <1> QED
    BY <1>1, <1>2, <1>3, <1>4, <1>5, <1>6

LEMMA PsTypedStep ==
    ASSUME PsInv, [Next]_vars
    PROVE  PsTyped'
  <1> USE DEF PsInv, PsTyped
  <1>1. Later(age) \in 0..Cap
    BY DEF Later, Cap
  <1>2. age' \in 0..Cap
    <2>1. age' = age \/ age' = 0 \/ age' = Later(age)
      BY DEF Next, ThreadStep, Start, StopBegins, StopReleases, StopResets, ShellChecks,
             ShellSets, Wakes, Suppress, Sample, Send, PressPs, ReleasePs, PressOrRelease,
             SystemUi, Tick, vars
    <2> QED
      BY <1>1, <2>1 DEF Cap
  <1>3. report' \in BOOLEAN /\ handler' \in {"idle", "set"}
    BY DEF Next, ThreadStep, Start, StopBegins, StopReleases, StopResets, ShellChecks,
           ShellSets, Wakes, Suppress, Sample, Send, PressPs, ReleasePs, PressOrRelease,
           SystemUi, Tick, vars, user
  <1>5. late' \in BOOLEAN
    BY DEF Next, ThreadStep, Start, StopBegins, StopReleases, StopResets, ShellChecks,
           ShellSets, Wakes, Suppress, Sample, Send, PressPs, ReleasePs, PressOrRelease,
           SystemUi, Tick, vars, user, Unreported
  <1>4. gesture' \in Gestures
    <2>1. CASE Sample
      <3>1. CASE ignore_ps
        BY <2>1, <3>1, GestureForgotten DEF Gestures
      <3>2. CASE ~ignore_ps
        <4>1. gesture' = gesture \/ gesture' \in {"down", "up", "pulse"}
          BY <2>1, <3>2 DEF Sample, Noticed
        <4> QED
          BY <4>1 DEF Gestures
      <3> QED
        BY <3>1, <3>2
    <2>2. CASE ~Sample
      BY <2>2 DEF Next, ThreadStep, Start, StopBegins, StopReleases, StopResets, ShellChecks,
             ShellSets, Wakes, Suppress, Forget, Send, PressPs, ReleasePs, PressOrRelease,
             SystemUi, Tick, vars, user, Gestures
    <2> QED
      BY <2>1, <2>2
  <1> QED
    BY <1>2, <1>3, <1>4, <1>5

LEMMA PsInit == Init => PsInv
  <1> SUFFICES ASSUME Init PROVE PsInv
    OBVIOUS
  <1>1. InputInv
    BY InputInit
  <1>2. PsTyped
    <2>1. gesture \in Gestures /\ age \in 0..Cap
      BY DEF Init, Gestures, Cap
    <2>2. report \in BOOLEAN /\ handler \in {"idle", "set"} /\ late \in BOOLEAN
      BY Zenon DEF Init
    <2> QED
      BY <2>1, <2>2 DEF PsTyped
  <1>3. GestureInv
    BY Zenon DEF Init, GestureInv
  <1> QED
    BY <1>1, <1>2, <1>3 DEF PsInv

LEMMA PsStep == PsInv /\ [Next]_vars => PsInv'
  <1> SUFFICES ASSUME PsInv, [Next]_vars PROVE PsInv'
    OBVIOUS
  <1>1. InputInv'
    BY InputStep DEF PsInv
  <1> QED
    BY <1>1, GestureStep, PsTypedStep DEF PsInv

(* However samples, ShellUtil's reports, system UI, stops and restarts     *)
(* interleave, a pulse of the PS button begins only for a short press that *)
(* got no second one in time, and only the second press of two stops the   *)
(* stream: never a hold, a press under system UI or one of an earlier      *)
(* session; except that a press is exempt whose release a sample acted on  *)
(* before ShellUtil had reported it (vita_input_process,                   *)
(* vita_shell_event_handler).                                              *)
THEOREM PsObeyed == Spec => PsGesturesObeyed
  <1> DEFINE Obeyed ==
        active /\ ~late' =>
            /\ (keys.pulse = 0 /\ keys'.pulse = 1) => (gesture = "up" /\ age > Window)
            /\ (~stopping /\ stopping') => gesture = "double"
  <1>1. PsInv /\ [Next]_vars => [Obeyed]_vars
    <2> SUFFICES ASSUME PsInv, Next, active, ~late' PROVE Obeyed
      BY DEF vars
    <2>1. CASE Sample
      <3>1. CASE ignore_ps
        <4>1. keys'.pulse = 0 /\ UNCHANGED stopping
          BY <2>1, <3>1, GestureForgotten
        <4>2. keys'.pulse # 1
          BY <4>1
        <4> QED
          BY <4>1, <4>2, Zenon
      <3>2. CASE ~ignore_ps
        BY <2>1, <3>2, GestureSampled
      <3> QED
        BY <3>1, <3>2
    <2>2. CASE Send
      <3>1. UNCHANGED stopping
        BY <2>2 DEF Send
      <3> QED
        BY <2>2, <3>1, SendKeepsPress
    <2>3. CASE Start \/ StopResets \/ Suppress
      <3>1. keys'.pulse # 1
        BY <2>3, ResetTyped DEF Start, StopResets, Suppress
      <3>2. stopping' => stopping
        BY <2>3, Zenon DEF Start, StopResets, Suppress
      <3> QED
        BY <3>1, <3>2, Zenon
    <2>4. CASE Tick
      <3>1. /\ keys' = [keys EXCEPT !.press = Later(@), !.release = Later(@)]
            /\ UNCHANGED stopping
        BY <2>4 DEF Tick
      <3>2. keys'.pulse = keys.pulse
        BY <3>1 DEF PsInv, InputInv, InputTyped, Keys
      <3> QED
        BY <3>1, <3>2
    <2>5. ASSUME ~Sample, ~Send, ~(Start \/ StopResets \/ Suppress), ~Tick
          PROVE  UNCHANGED <<keys, stopping>>
      BY <2>5 DEF Next, ThreadStep, StopBegins, StopReleases, ShellChecks, ShellSets, Wakes,
                  PressPs, ReleasePs, PressOrRelease, SystemUi
    <2> QED
      BY <2>1, <2>2, <2>3, <2>4, <2>5
  <1> QED
    BY <1>1, PsInit, PsStep, PTL DEF Spec, PsGesturesObeyed
=============================================================================
