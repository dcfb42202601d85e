------------------------- MODULE HostControlProofs -------------------------
(***************************************************************************)
(* For every set of hosts and applications.                                *)
(*                                                                         *)
(* First the session owner alone: SessionInv says what each place of the   *)
(* owner implies and is inductive; the properties of StreamSession follow  *)
(* from it.  Then its composition with the host API runs sessions as       *)
(* StreamSession specifies them, so the session theorems carry over, and   *)
(* the GameStream client outlives every session that borrowed it.  Last,   *)
(* HostInv: what is left behind, and what the adapter knows; and from it   *)
(* that the events come in the order HostEvents allows.                    *)
(***************************************************************************)
EXTENDS HostControl, SequenceTheorems, TLAPS

-----------------------------------------------------------------------------
(* The session owner.                                                      *)
USE AppsAssumption
USE DEF vars, flags, args, world, Games, Results

(* Every assignment to a flag assigns a Boolean.                           *)
LEMMA FlagsStep == FlagsOK /\ [Next]_vars => FlagsOK'
<1> SUFFICES ASSUME FlagsOK, [Next]_vars PROVE FlagsOK'
  OBVIOUS
<1> USE DEF FlagsOK
<1>1. ASSUME NEW a \in Apps, NEW q \in Games, Start(a, q) PROVE FlagsOK'
  BY <1>1, Zenon DEF Start
<1>2. CASE StartBusy
  BY <1>2, Zenon DEF StartBusy
<1>3. CASE CreateOwner
  BY <1>3, Zenon DEF CreateOwner
<1>4. CASE CreateOwnerFails
  BY <1>4, Zenon DEF CreateOwnerFails
<1>5. CASE Stop
  BY <1>5, Zenon DEF Stop, InterruptDue
<1>6. CASE StopIgnored
  BY <1>6, Zenon DEF StopIgnored
<1>7. CASE Terminated
  BY <1>7, Zenon DEF Terminated, LiThreadsRun
<1>8. CASE ControllerLed
  BY <1>8, Zenon DEF ControllerLed, LiThreadsRun
<1>9. CASE EnterSession
  BY <1>9, Zenon DEF EnterSession, CheckCancel, Goto, FailAs
<1>10. CASE RefreshServerInfo
  BY <1>10, Zenon DEF RefreshServerInfo, Goto, FailAs
<1>11. CASE DecideConflict
  BY <1>11, Zenon DEF DecideConflict, Goto, FailAs
<1>12. CASE QuitRunningApp
  BY <1>12, Zenon DEF QuitRunningApp, Goto, FailAs
<1>13. CASE PreLaunchCheck
  BY <1>13, Zenon DEF PreLaunchCheck, CheckCancel, Goto, FailAs
<1>14. CASE RequestLaunch
  BY <1>14, Zenon DEF RequestLaunch, Goto, FailAs
<1>15. CASE PreConnectCheck
  BY <1>15, Zenon DEF PreConnectCheck, CheckCancel, Goto, FailAs
<1>16. CASE LiResetInterrupt
  BY <1>16, Zenon DEF LiResetInterrupt
<1>17. CASE StageStarts
  BY <1>17, Zenon DEF StageStarts, InterruptDue
<1>18. CASE LiStartFails
  BY <1>18, Zenon DEF LiStartFails
<1>19. CASE ConnectionStarted
  BY <1>19, Zenon DEF ConnectionStarted
<1>20. CASE StartInput
  BY <1>20, Zenon DEF StartInput
<1>21. CASE AnnounceStarted
  BY <1>21, Zenon DEF AnnounceStarted
<1>22. CASE LiStartReturns
  BY <1>22, Zenon DEF LiStartReturns
<1>23. CASE FinishStartup
  BY <1>23, Zenon DEF FinishStartup
<1>24. CASE UnwindCancelledStart
  BY <1>24, Zenon DEF UnwindCancelledStart
<1>25. CASE LeaveLoop
  BY <1>25, Zenon DEF LeaveLoop
<1>26. CASE StopInput
  BY <1>26, Zenon DEF StopInput
<1>27. CASE StopTransport
  BY <1>27, Zenon DEF StopTransport, BeginReport
<1>28. CASE ReportFailure
  BY <1>28, Zenon DEF ReportFailure, BeginReport
<1>29. CASE Report
  BY <1>29, Zenon DEF Report, TerminalEvent
<1>30. CASE ReleaseOwner
  BY <1>30, Zenon DEF ReleaseOwner
<1>31. CASE UNCHANGED vars
  BY <1>31, Zenon
<1> QED
    BY <1>1, <1>2, <1>3, <1>4, <1>5, <1>6, <1>7, <1>8, <1>9, <1>10, <1>11,
       <1>12, <1>13, <1>14, <1>15, <1>16, <1>17, <1>18, <1>19, <1>20, <1>21,
       <1>22, <1>23, <1>24, <1>25, <1>26, <1>27, <1>28, <1>29, <1>30, <1>31
     DEF Next, OwnerStep, CommonStep

(* Every flag, result and event of the session owner has its type.         *)
THEOREM SessionTyped == Spec => []TypeOK
<1>1. Init => TypeOK
  <2>1. Init => FlagsOK
    BY Zenon DEF Init, FlagsOK
  <2> QED
    BY <2>1 DEF Init, TypeOK, Owner
<1>2. TypeOK /\ [Next]_vars => TypeOK'
  <2> SUFFICES ASSUME TypeOK, [Next]_vars PROVE TypeOK'
    OBVIOUS
  <2> USE DEF TypeOK, Owner
  <2> FlagsOK'
    BY FlagsStep
  <2>1. ASSUME NEW a \in Apps, NEW q \in Games, Start(a, q) PROVE TypeOK'
    BY <2>1 DEF Start
  <2>2. CASE StartBusy
    BY <2>2 DEF StartBusy
  <2>3. CASE CreateOwner
    BY <2>3 DEF CreateOwner
  <2>4. CASE CreateOwnerFails
    BY <2>4 DEF CreateOwnerFails
  <2>5. CASE Stop
    BY <2>5 DEF Stop, InterruptDue
  <2>6. CASE StopIgnored
    BY <2>6 DEF StopIgnored
  <2>7. CASE Terminated
    BY <2>7 DEF Terminated, LiThreadsRun
  <2>8. CASE ControllerLed
    BY <2>8 DEF ControllerLed, LiThreadsRun
  <2>9. CASE EnterSession
    BY <2>9 DEF EnterSession, CheckCancel, Goto, FailAs
  <2>10. CASE RefreshServerInfo
    BY <2>10 DEF RefreshServerInfo, Goto, FailAs
  <2>11. CASE DecideConflict
    BY <2>11 DEF DecideConflict, Goto, FailAs
  <2>12. CASE QuitRunningApp
    BY <2>12 DEF QuitRunningApp, Goto, FailAs
  <2>13. CASE PreLaunchCheck
    BY <2>13 DEF PreLaunchCheck, CheckCancel, Goto, FailAs
  <2>14. CASE RequestLaunch
    BY <2>14 DEF RequestLaunch, Goto, FailAs
  <2>15. CASE PreConnectCheck
    BY <2>15 DEF PreConnectCheck, CheckCancel, Goto, FailAs
  <2>16. CASE LiResetInterrupt
    BY <2>16 DEF LiResetInterrupt
  <2>17. CASE StageStarts
    BY <2>17 DEF StageStarts, InterruptDue
  <2>18. CASE LiStartFails
    BY <2>18 DEF LiStartFails
  <2>19. CASE ConnectionStarted
    BY <2>19 DEF ConnectionStarted
  <2>20. CASE StartInput
    BY <2>20 DEF StartInput
  <2>21. CASE AnnounceStarted
    BY <2>21 DEF AnnounceStarted
  <2>22. CASE LiStartReturns
    BY <2>22 DEF LiStartReturns
  <2>23. CASE FinishStartup
    BY <2>23 DEF FinishStartup
  <2>24. CASE UnwindCancelledStart
    BY <2>24 DEF UnwindCancelledStart
  <2>25. CASE LeaveLoop
    BY <2>25 DEF LeaveLoop
  <2>26. CASE StopInput
    BY <2>26 DEF StopInput
  <2>27. CASE StopTransport
    BY <2>27 DEF StopTransport, BeginReport
  <2>28. CASE ReportFailure
    BY <2>28 DEF ReportFailure, BeginReport
  <2>29. CASE Report
    BY <2>29 DEF Report, TerminalEvent
  <2>30. CASE ReleaseOwner
    BY <2>30 DEF ReleaseOwner
  <2>31. CASE UNCHANGED vars
    BY <2>31
  <2> QED
    BY <2>1, <2>2, <2>3, <2>4, <2>5, <2>6, <2>7, <2>8, <2>9, <2>10, <2>11,
       <2>12, <2>13, <2>14, <2>15, <2>16, <2>17, <2>18, <2>19, <2>20, <2>21,
       <2>22, <2>23, <2>24, <2>25, <2>26, <2>27, <2>28, <2>29, <2>30, <2>31
       DEF Next, OwnerStep, CommonStep
<1> QED
  BY <1>1, <1>2, PTL DEF Spec

-----------------------------------------------------------------------------
LEMMA SessionInvInit == Init => SessionInv
BY DEF Init, SessionInv, SetupPhases, TeardownPhases, InterruptPhases,
       InterruptNotLost, Early, Holds

(* The two reports of a session's end.                                     *)
LEMMA AppendTerminal ==
    /\ Append(<<"STARTED">>, "STOPPED") = <<"STARTED", "STOPPED">>
    /\ Append(<< >>, "FAILED") = <<"FAILED">>
<1> DEFINE S == {"STARTED", "STOPPED"}
           s == Append(<<"STARTED">>, "STOPPED")
           t == <<"STARTED", "STOPPED">>
<1>1. s \in Seq(S) /\ Len(s) = 2 /\ s[1] = "STARTED" /\ s[2] = "STOPPED"
  OBVIOUS
<1>2. t \in Seq(S) /\ Len(t) = 2 /\ t[1] = "STARTED" /\ t[2] = "STOPPED"
  OBVIOUS
<1>3. \A i \in 1..Len(s) : s[i] = t[i]
  BY <1>1, <1>2
<1>4. s = t
  <2> HIDE DEF s, t
  <2> QED BY <1>1, <1>2, <1>3, SeqEqual
<1>5. Append(<< >>, "FAILED") = <<"FAILED">>
  OBVIOUS
<1> QED BY <1>4, <1>5

(* Each step of the owner, of common-c and of a requester keeps what the   *)
(* owner's place implies.                                                  *)
LEMMA SessionInvStep == TypeOK /\ TypeOK' /\ SessionInv /\ [Next]_vars => SessionInv'
  <2> SUFFICES ASSUME TypeOK, TypeOK', SessionInv, [Next]_vars PROVE SessionInv'
    OBVIOUS
  <2> USE DEF TypeOK, FlagsOK, Owner, SessionInv, SetupPhases, TeardownPhases,
              InterruptPhases, InterruptNotLost, Early, Holds
  <2>1. ASSUME NEW a \in Apps, NEW q \in Games, Start(a, q) PROVE SessionInv'
    BY <2>1 DEF Start
  <2>2. CASE StartBusy
    BY <2>2 DEF StartBusy
  <2>3. CASE CreateOwner
    BY <2>3 DEF CreateOwner
  <2>4. CASE CreateOwnerFails
    BY <2>4 DEF CreateOwnerFails
  <2>5. CASE Stop
    BY <2>5 DEF Stop, InterruptDue
  <2>6. CASE StopIgnored
    BY <2>6 DEF StopIgnored
  <2>7. CASE Terminated
    BY <2>7 DEF Terminated, LiThreadsRun
  <2>8. CASE ControllerLed
    BY <2>8 DEF ControllerLed, LiThreadsRun
  <2>9. CASE EnterSession
    BY <2>9 DEF EnterSession, CheckCancel, Goto, FailAs
  <2>10. CASE RefreshServerInfo
    BY <2>10 DEF RefreshServerInfo, Goto, FailAs
  <2>11. CASE DecideConflict
    BY <2>11 DEF DecideConflict, Goto, FailAs
  <2>12. CASE QuitRunningApp
    BY <2>12 DEF QuitRunningApp, Goto, FailAs
  <2>13. CASE PreLaunchCheck
    BY <2>13 DEF PreLaunchCheck, CheckCancel, Goto, FailAs
  <2>14. CASE RequestLaunch
    BY <2>14 DEF RequestLaunch, Goto, FailAs
  <2>15. CASE PreConnectCheck
    BY <2>15 DEF PreConnectCheck, CheckCancel, Goto, FailAs
  <2>16. CASE LiResetInterrupt
    BY <2>16 DEF LiResetInterrupt
  <2>17. CASE StageStarts
    BY <2>17 DEF StageStarts, InterruptDue
  <2>18. CASE LiStartFails
    BY <2>18 DEF LiStartFails
  <2>19. CASE ConnectionStarted
    BY <2>19 DEF ConnectionStarted
  <2>20. CASE StartInput
    BY <2>20 DEF StartInput
  <2>21. CASE AnnounceStarted
    BY <2>21 DEF AnnounceStarted
  <2>22. CASE LiStartReturns
    BY <2>22 DEF LiStartReturns
  <2>23. CASE FinishStartup
    BY <2>23 DEF FinishStartup
  <2>24. CASE UnwindCancelledStart
    BY <2>24 DEF UnwindCancelledStart
  <2>25. CASE LeaveLoop
    BY <2>25 DEF LeaveLoop
  <2>26. CASE StopInput
    BY <2>26 DEF StopInput
  <2>27. CASE StopTransport
    BY <2>27 DEF StopTransport, BeginReport
  <2>28. CASE ReportFailure
    BY <2>28 DEF ReportFailure, BeginReport
  <2>29. CASE Report
    <3>1. owner = "reporting" /\ owner' = "clearing"
      BY <2>29 DEF Report
    <3>2. events' \in {<<"FAILED">>, <<"STARTED", "STOPPED">>}
      <4>1. CASE result = "ok"
        <5>1. events = <<"STARTED">> /\ events' = Append(events, "STOPPED")
          BY <2>29, <3>1, <4>1 DEF Report, TerminalEvent
        <5> QED BY <5>1, AppendTerminal
      <4>2. CASE result # "ok"
        <5>1. events = << >> /\ events' = Append(events, "FAILED")
          BY <2>29, <3>1, <4>2 DEF Report, TerminalEvent
        <5> QED BY <5>1, AppendTerminal
      <4> QED BY <4>1, <4>2
    <3>3. UNCHANGED <<flags, result, args, world>>
      BY <2>29 DEF Report
    <3> QED BY <3>1, <3>2, <3>3
  <2>30. CASE ReleaseOwner
    BY <2>30 DEF ReleaseOwner
  <2>31. CASE UNCHANGED vars
    BY <2>31
  <2> QED
    BY <2>1, <2>2, <2>3, <2>4, <2>5, <2>6, <2>7, <2>8, <2>9, <2>10, <2>11,
       <2>12, <2>13, <2>14, <2>15, <2>16, <2>17, <2>18, <2>19, <2>20, <2>21,
       <2>22, <2>23, <2>24, <2>25, <2>26, <2>27, <2>28, <2>29, <2>30, <2>31
       DEF Next, OwnerStep, CommonStep

(* What each place of the owner implies holds in every session.            *)
THEOREM SessionSafe == Spec => []SessionInv
BY SessionInvInit, SessionTyped, SessionInvStep, PTL DEF Spec

(* Every session reports exactly one terminal event, STOPPED if and only   *)
(* if STARTED was announced.                                               *)
THEOREM SessionEventsPaired == Spec => []OneTerminalEvent
<1>1. TypeOK /\ SessionInv => OneTerminalEvent
  BY DEF TypeOK, Owner, SessionInv, SetupPhases, TeardownPhases, Early, Holds,
         OneTerminalEvent
<1> QED
  BY <1>1, SessionTyped, SessionSafe, PTL

(* No transport or input outlives the report of the session's end.         *)
THEOREM SessionReleasesTransport == Spec => []TransportReleased
<1>1. TypeOK /\ SessionInv => TransportReleased
  BY DEF TypeOK, Owner, SessionInv, SetupPhases, TeardownPhases, Early, Holds,
         TransportReleased
<1> QED
  BY <1>1, SessionTyped, SessionSafe, PTL

(* A stop during startup always reaches common-c.                          *)
THEOREM SessionInterrupts == Spec => []InterruptNotLost
<1>1. SessionInv => InterruptNotLost
  BY DEF SessionInv, InterruptPhases
<1> QED
  BY <1>1, SessionSafe, PTL

(* The owner runs its loop only for a session that was announced.          *)
THEOREM SessionRunsAnnounced == Spec => []OnlyAnnouncedSessionsRun
<1>1. TypeOK /\ SessionInv => OnlyAnnouncedSessionsRun
  BY DEF SessionInv, TeardownPhases, Holds, OnlyAnnouncedSessionsRun
<1> QED
  BY <1>1, SessionTyped, SessionSafe, PTL
HIDE DEF vars, flags, args, world, Games, Results

-----------------------------------------------------------------------------
(* The host API.                                                           *)
USE DEF allVars, hostVars, api, stream, cleanup, adapter, ui

(* Steps of the API that leave the session owner alone.                    *)
ApiOnly ==
    \/ ConnectNoDirectory \/ \E h \in Hosts : ConnectBegins(h)
    \/ PreparePairing \/ PairBegins \/ ListRejected \/ ListBegins
    \/ \E a \in Apps, q \in Games : StartChecks(a, q)
    \/ StreamPageFails \/ StartMarks \/ StartReturns \/ JobEnds
    \/ StreamEventState \/ StreamEventEmit
    \/ CleanupSteps \/ ShutdownBegins \/ ShutdownFinishes

(* Steps that are a step of the owner, of common-c or of a requester too.  *)
SessionToo ==
    \/ StartReserves \/ StartRefused \/ StartCreates
    \/ StopApplication \/ InputStop \/ StreamEventReturns
    \/ Disconnect \/ ShutdownLocks
    \/ OwnerAlone \/ CommonAlone
    \/ Terminated /\ UNCHANGED hostVars
    \/ ControllerLed /\ UNCHANGED hostVars

LEMMA NextSplit == HostNext => ApiOnly \/ SessionToo
BY DEF HostNext, ApiOnly, SessionToo, StartSteps, CallbackSteps

LEMMA ApiOnlyLeavesSession == ApiOnly => UNCHANGED vars
BY Zenon DEF ApiOnly, JobEnds, CleanupSteps, ConnectBegins, StartChecks,
   ConnectNoDirectory, PreparePairing, PairBegins, ListRejected, ListBegins,
   StartMarks, StartReturns, ConnectSucceeds, ConnectFails, PairSucceeds,
   PairFails, PairCancelled, ListEnds, StreamEventState, StreamEventEmit,
   StreamPageFails, CleanupLocks, CleanupClears, CleanupPublishes,
   ShutdownBegins, ShutdownFinishes

(* Every step of the composition is a step of StreamSession or leaves the  *)
(* session alone.                                                          *)
LEMMA SessionStep == RequestOK /\ [HostNext]_allVars => [Next]_vars
<1> SUFFICES ASSUME RequestOK, [HostNext]_allVars PROVE [Next]_vars
  OBVIOUS
<1>1. CASE ApiOnly
  BY <1>1, ApiOnlyLeavesSession
<1>2. CASE StartReserves
  BY <1>2 DEF StartReserves, RequestOK, Next
<1>3. CASE StartRefused \/ StartCreates
  BY <1>3 DEF StartRefused, StartCreates, Next
<1>4. CASE StopApplication \/ InputStop
  BY <1>4 DEF StopApplication, InputStop, Next
<1>5. CASE StreamEventReturns
  BY <1>5 DEF StreamEventReturns, Next, OwnerStep
<1>6. CASE Disconnect \/ ShutdownLocks
  BY <1>6, Zenon DEF Disconnect, ShutdownLocks, StopIfRunning, Next
<1>7. CASE OwnerAlone \/ CommonAlone
  BY <1>7, Zenon DEF OwnerAlone, CommonAlone, Next
<1>8. CASE (Terminated \/ ControllerLed) /\ UNCHANGED hostVars
  BY <1>8, Zenon DEF Next
<1>9. CASE UNCHANGED allVars
  BY <1>9
<1> QED
  BY <1>1, <1>2, <1>3, <1>4, <1>5, <1>6, <1>7, <1>8, <1>9, NextSplit
     DEF SessionToo

-----------------------------------------------------------------------------
USE DEF vars, flags, args, world

(* Only Start begins a session, and only with the mutex held at "marked".  *)
LEMMA SessionBegins ==
    SessionToo /\ ~StartReserves => (thread_running' => thread_running)
<1> SUFFICES ASSUME SessionToo, ~StartReserves, thread_running' PROVE thread_running
  OBVIOUS
<1>1. CASE StartRefused \/ StartCreates
  BY <1>1 DEF StartRefused, StartCreates, StartBusy, CreateOwner, CreateOwnerFails
<1>2. CASE StopApplication \/ InputStop \/ Disconnect \/ ShutdownLocks
  BY <1>2 DEF StopApplication, InputStop, Disconnect, ShutdownLocks, StopIfRunning, Stop
<1>3. CASE StreamEventReturns
  BY <1>3 DEF StreamEventReturns, AnnounceStarted, Report
<1>4. CASE OwnerAlone
  <2>1. OwnerStep
    BY <1>4 DEF OwnerAlone
  <2>2. CASE ReleaseOwner
    BY <2>2 DEF ReleaseOwner
  <2>3. CASE FinishStartup
    BY <2>3 DEF FinishStartup
  <2>4. CASE StopTransport \/ ReportFailure
    BY <2>4 DEF StopTransport, ReportFailure, BeginReport
  <2>5. CASE ~ReleaseOwner /\ ~FinishStartup /\ ~StopTransport /\ ~ReportFailure
    <3>1. UNCHANGED flags
      BY <2>1, <2>5, Zenon DEF OwnerStep, EnterSession, RefreshServerInfo,
         DecideConflict, QuitRunningApp, PreLaunchCheck, RequestLaunch,
         PreConnectCheck, CheckCancel, Goto, FailAs, LiResetInterrupt,
         StartInput, AnnounceStarted, LiStartReturns, UnwindCancelledStart,
         LeaveLoop, StopInput, Report
    <3> QED BY <3>1
  <2> QED BY <2>2, <2>3, <2>4, <2>5
<1>5. CASE CommonAlone
  BY <1>5 DEF CommonAlone, CommonStep, StageStarts, LiStartFails, ConnectionStarted
<1>6. CASE Terminated \/ ControllerLed
  BY <1>6 DEF Terminated, ControllerLed
<1> QED
  BY <1>1, <1>2, <1>3, <1>4, <1>5, <1>6 DEF SessionToo

(* Who holds the mutex and whether the client exists change only so.       *)
LEMMA SessionTooControl ==
    ASSUME SessionToo, ~StartReserves
    PROVE  /\ initialized' = initialized
           /\ request' = request
           /\ \/ control' \in {control, "free", "shutdown"}
              \/ control = "reserved" /\ control' = "started"
<1>1. CASE StartRefused
  BY <1>1, Zenon DEF StartRefused, StartUndone
<1>2. CASE StartCreates
  BY <1>2, Zenon DEF StartCreates, StartUndone
<1>3. CASE StopApplication \/ InputStop \/ OwnerAlone \/ CommonAlone \/ UNCHANGED hostVars
  BY <1>3, Zenon DEF StopApplication, InputStop, OwnerAlone, CommonAlone
<1>4. CASE Disconnect
  BY <1>4, Zenon DEF Disconnect
<1>5. CASE ShutdownLocks
  BY <1>5, Zenon DEF ShutdownLocks
<1>6. CASE StreamEventReturns
  BY <1>6, Zenon DEF StreamEventReturns
<1> QED BY <1>1, <1>2, <1>3, <1>4, <1>5, <1>6, Zenon DEF SessionToo

LEMMA ClientInvStep == ClientInv /\ [HostNext]_allVars => ClientInv'
<1> SUFFICES ASSUME ClientInv, [HostNext]_allVars PROVE ClientInv'
  OBVIOUS
<1> USE DEF ClientInv, ClientOutlivesSession, RequestOK, ClientKept, SessionExcluded
<1>1. CASE ApiOnly
  <2>0. thread_running' = thread_running
    BY <1>1, ApiOnlyLeavesSession
  <2>1. ASSUME NEW h \in Hosts, ConnectBegins(h) PROVE ClientInv'
    BY <2>0, <2>1 DEF ConnectBegins
  <2>2. ASSUME NEW a \in Apps, NEW q \in Games, StartChecks(a, q) PROVE ClientInv'
    <3>1. request' = [request EXCEPT !.app = a, !.quit = q] /\ control' = "start"
      BY <2>2 DEF StartChecks
    <3>2. initialized /\ initialized' = initialized
      BY <2>2 DEF StartChecks
    <3>3. RequestOK'
      BY <3>1
    <3> QED BY <2>0, <3>1, <3>2, <3>3
  <2>3. CASE ConnectNoDirectory
    BY <2>0, <2>3 DEF ConnectNoDirectory
  <2>4. CASE PreparePairing
    BY <2>0, <2>4 DEF PreparePairing
  <2>5. CASE PairBegins
    BY <2>0, <2>5 DEF PairBegins, ReadyToPair
  <2>6. CASE ListRejected
    BY <2>0, <2>6 DEF ListRejected
  <2>7. CASE ListBegins
    BY <2>0, <2>7 DEF ListBegins, CanList
  <2>8. CASE StartMarks
    BY <2>0, <2>8 DEF StartMarks
  <2>18. CASE StreamPageFails
    BY <2>0, <2>18 DEF StreamPageFails
  <2>9. CASE StartReturns
    BY <2>0, <2>9 DEF StartReturns
  <2>10. CASE StreamEventState
    BY <2>0, <2>10 DEF StreamEventState
  <2>11. CASE StreamEventEmit
    BY <2>0, <2>11 DEF StreamEventEmit
  <2>12. CASE CleanupLocks
    BY <2>0, <2>12 DEF CleanupLocks
  <2>13. CASE CleanupClears
    BY <2>0, <2>13 DEF CleanupClears
  <2>14. CASE CleanupPublishes
    BY <2>0, <2>14 DEF CleanupPublishes
  <2>15. CASE ShutdownBegins
    BY <2>0, <2>15 DEF ShutdownBegins
  <2>16. CASE ShutdownFinishes
    BY <2>0, <2>16 DEF ShutdownFinishes
  <2>17. CASE JobEnds
    BY <2>0, <2>17 DEF JobEnds, ConnectSucceeds, ConnectFails, PairSucceeds,
       PairFails, PairCancelled, ListEnds
  <2> QED
    BY <1>1, <2>1, <2>2, <2>3, <2>4, <2>5, <2>6, <2>7, <2>8, <2>9,
       <2>10, <2>11, <2>12, <2>13, <2>14, <2>15, <2>16, <2>17, <2>18
       DEF ApiOnly, CleanupSteps
<1>2. CASE StartReserves
  BY <1>2 DEF StartReserves
<1>3. CASE SessionToo /\ ~StartReserves
  BY <1>3, SessionBegins, SessionTooControl
<1>4. CASE UNCHANGED allVars
  BY <1>4
<1> QED
  BY <1>1, <1>2, <1>3, <1>4, NextSplit

(* The client a session borrows from the API is neither freed nor replaced *)
(* before the session's owner has given up its slot.                       *)
THEOREM HostKeepsClient == HostSpec => []ClientOutlivesSession
<1>1. HostInit => ClientInv
  BY DEF HostInit, Init, ClientInv, ClientOutlivesSession, RequestOK, ClientKept,
         SessionExcluded
<1>2. ClientInv => ClientOutlivesSession
  BY DEF ClientInv
<1> QED
  BY <1>1, <1>2, ClientInvStep, PTL DEF HostSpec

(* Composed with the API the session owner implements StreamSession.       *)
THEOREM HostRunsSessions == HostSpec => SessionsAsSpecified
<1>1. HostInit => Init /\ ClientInv
  BY DEF HostInit, Init, ClientInv, ClientOutlivesSession, RequestOK, ClientKept,
         SessionExcluded
<1>2. ClientInv => RequestOK
  BY DEF ClientInv
<1> QED
  BY <1>1, <1>2, ClientInvStep, SessionStep, PTL DEF HostSpec, SessionsAsSpecified, Spec

(* Hence every session the API runs reports exactly one terminal event.    *)
THEOREM HostEventsPaired == HostSpec => []OneTerminalEvent
BY HostRunsSessions, SessionEventsPaired, PTL DEF SessionsAsSpecified

-----------------------------------------------------------------------------
(* What an event does to the adapter, one kind of event at a time.          *)
LEMMA EmitPublishes ==
    ASSUME NEW type, NEW a, NEW s, Emit(type, a, s)
    PROVE  /\ phase # "up" => UNCHANGED adapter
           /\ phase = "up" => published' = [type |-> type, app |-> a]
BY DEF Emit

LEMMA EmitConnection ==
    ASSUME NEW a, NEW s, phase = "up"
    PROVE  /\ Emit("CONNECTION_READY", a, s) => m_state' = s
           /\ Emit("CONNECTION_FAILED", a, s) => m_state' = "DISCONNECTED" /\ ~m_has_host'
           /\ Emit("CONNECTION_CLOSED", a, s) => m_state' = "DISCONNECTED" /\ ~m_has_host'
<1>1. ASSUME Emit("CONNECTION_READY", a, s) PROVE m_state' = s
  BY <1>1 DEF Emit
<1>2. ASSUME Emit("CONNECTION_FAILED", a, s) PROVE m_state' = "DISCONNECTED" /\ ~m_has_host'
  BY <1>2 DEF Emit
<1>3. ASSUME Emit("CONNECTION_CLOSED", a, s) PROVE m_state' = "DISCONNECTED" /\ ~m_has_host'
  BY <1>3 DEF Emit
<1> QED BY <1>1, <1>2, <1>3

LEMMA EmitPairing ==
    ASSUME NEW a, NEW s, phase = "up"
    PROVE  /\ Emit("PAIRING_FINISHED", a, s) => m_state' = "PAIRED" /\ m_has_host' = m_has_host
           /\ Emit("PAIRING_FAILED", a, s) => m_state' \in {"READY", m_state} /\ m_has_host' = m_has_host
<1>1. ASSUME Emit("PAIRING_FINISHED", a,
             s) PROVE m_state' = "PAIRED" /\ m_has_host' = m_has_host
  BY <1>1 DEF Emit
<1>2. ASSUME Emit("PAIRING_FAILED", a, s) PROVE m_state' \in {"READY",
             m_state} /\ m_has_host' = m_has_host
  BY <1>2 DEF Emit
<1> QED BY <1>1, <1>2

LEMMA EmitPassive ==
    ASSUME NEW type \in {"PAIRING_REQUIRED", "APPLICATIONS_READY", "APPLICATIONS_FAILED"},
           NEW a, NEW s, Emit(type, a, s)
    PROVE  m_state' = m_state /\ m_has_host' = m_has_host
BY DEF Emit

LEMMA EmitStream ==
    ASSUME NEW a, NEW s, phase = "up"
    PROVE  /\ Emit("STREAM_STARTED", a, s) => m_state' = "STREAMING" /\ m_has_host' = m_has_host
           /\ Emit("STREAM_STOPPED", a, s) => m_state' = "PAIRED" /\ m_has_host' = m_has_host
           /\ Emit("STREAM_FAILED", a, s) => m_state' \in {"PAIRED", m_state} /\ m_has_host' = m_has_host
<1>1. ASSUME Emit("STREAM_STARTED", a,
             s) PROVE m_state' = "STREAMING" /\ m_has_host' = m_has_host
  BY <1>1 DEF Emit
<1>2. ASSUME Emit("STREAM_STOPPED", a, s) PROVE m_state' = "PAIRED" /\ m_has_host' = m_has_host
  BY <1>2 DEF Emit
<1>3. ASSUME Emit("STREAM_FAILED", a, s) PROVE m_state' \in {"PAIRED",
             m_state} /\ m_has_host' = m_has_host
  BY <1>3 DEF Emit
<1> QED BY <1>1, <1>2, <1>3
LEMMA RequestsKeepOwner ==
    Stop \/ Terminated \/ ControllerLed \/ UNCHANGED vars
        => UNCHANGED <<owner, thread_running, result, app, events>>
BY DEF Stop, Terminated, ControllerLed

(* What OwnerStep and CommonStep do outside the callback.                   *)
Released == owner = "clearing" /\ owner' = "none" /\ ~thread_running'
Moved == /\ owner \notin {"none", "reserved", "clearing", "announcing", "reporting"}
         /\ owner' \notin {"none", "reserved", "clearing"}
         /\ thread_running' = thread_running

LEMMA OwnerMoves ==
    ASSUME OwnerStep \/ CommonStep, ~InCallback
    PROVE  UNCHANGED <<app, events>> /\ (Released \/ Moved)
<1> USE DEF InCallback, Released, Moved
<1>1. CASE CommonStep
  BY <1>1 DEF CommonStep, StageStarts, LiStartFails, ConnectionStarted
<1>2. CASE EnterSession \/ RefreshServerInfo \/ DecideConflict \/ QuitRunningApp
           \/ PreLaunchCheck \/ RequestLaunch \/ PreConnectCheck
  BY <1>2 DEF EnterSession, RefreshServerInfo, DecideConflict, QuitRunningApp,
     PreLaunchCheck, RequestLaunch, PreConnectCheck, CheckCancel, Goto, FailAs
<1>3. CASE LiResetInterrupt \/ StartInput \/ LiStartReturns \/ FinishStartup
           \/ UnwindCancelledStart \/ LeaveLoop \/ StopInput
  BY <1>3 DEF LiResetInterrupt, StartInput, LiStartReturns, FinishStartup,
     UnwindCancelledStart, LeaveLoop, StopInput
<1>4. CASE StopTransport \/ ReportFailure \/ ReleaseOwner
  BY <1>4 DEF StopTransport, ReportFailure, BeginReport, ReleaseOwner
<1>5. CASE AnnounceStarted \/ Report
  BY <1>5 DEF AnnounceStarted, Report
<1> QED BY <1>1, <1>2, <1>3, <1>4, <1>5 DEF OwnerStep

(* The parts of SessionInv that tell how a session was announced.          *)
LEMMA CallbackEvents ==
    ASSUME SessionInv
    PROVE  /\ thread_running <=> owner # "none"
           /\ owner = "reserved" => events = << >>
           /\ owner = "announcing" => events = << >>
           /\ owner = "reporting" => (events = <<"STARTED">> <=> result = "ok")
<1>1. owner = "reserved" => events = << >>
  BY DEF SessionInv, SetupPhases, Holds, Early
<1>2. owner = "announcing" => events = << >>
  BY DEF SessionInv, SetupPhases, Holds
<1>3. owner = "reporting" => (events = <<"STARTED">> <=> result = "ok")
  BY << >> # <<"STARTED">> DEF SessionInv, TeardownPhases, Holds
<1> QED BY <1>1, <1>2, <1>3 DEF SessionInv

-----------------------------------------------------------------------------
(* What is known of the state in which a step begins.                      *)
HostSafe == SessionInv /\ ClientInv /\ HostInv

JobStep == \/ ConnectNoDirectory \/ \E h \in Hosts : ConnectBegins(h)
           \/ PreparePairing \/ PairBegins \/ ListRejected \/ ListBegins \/ JobEnds
LaunchStep ==
    (\E a \in Apps, q \in Games : StartChecks(a, q)) \/ StreamPageFails \/ StartSteps
CleanupStep == Disconnect \/ CleanupSteps \/ ShutdownBegins \/ ShutdownLocks \/ ShutdownFinishes

(* The jobs: connect, pair and list exclude a session where they change   *)
(* anything a session would see.                                           *)
LEMMA JobsKeep ==
    ASSUME HostSafe
    PROVE  JobStep => HostInv'
<1> USE DEF HostSafe, HostInv, ClientInv, SessionExcluded
<1>1. ASSUME ConnectNoDirectory PROVE HostInv'
  <2>1. CallbackInv' /\ MarksInv' /\ LaunchInv'
    BY <1>1 DEF ConnectNoDirectory, Admitted, CallbackInv, MarksInv, Live,
       Announced, InCallback, LaunchInv
  <2>2. StreamIdInv' /\ CacheInv'
    BY <1>1 DEF ConnectNoDirectory, Admitted, StreamIdInv,
       NoForeignApplication, CacheInv, CacheFollowsHost
  <2>3. AdapterInv'
    BY <1>1, EmitConnection, CallbackEvents DEF ConnectNoDirectory,
       Admitted, AdapterInv, MarksInv, Live, CallbackInv, InCallback
  <2>4. ClosedInv'
    BY <1>1, EmitPublishes DEF ConnectNoDirectory, Admitted, ClosedInv
  <2> QED BY <2>1, <2>2, <2>3, <2>4
<1>2. ASSUME NEW h \in Hosts, ConnectBegins(h) PROVE HostInv'
  <2>1. CallbackInv' /\ MarksInv' /\ LaunchInv'
    BY <1>2 DEF ConnectBegins, Admitted, CallbackInv, MarksInv, Live,
       Announced, InCallback, LaunchInv
  <2>2. StreamIdInv' /\ CacheInv'
    BY <1>2 DEF ConnectBegins, Admitted, StreamIdInv, NoForeignApplication,
       CacheInv, CacheFollowsHost
  <2>3. AdapterInv'
    BY <1>2 DEF ConnectBegins, Admitted, AdapterInv
  <2>4. ClosedInv'
    BY <1>2 DEF ConnectBegins, Admitted, ClosedInv
  <2> QED BY <2>1, <2>2, <2>3, <2>4
<1>3. ASSUME ConnectSucceeds PROVE HostInv'
  <2>1. CallbackInv' /\ MarksInv' /\ LaunchInv'
    BY <1>3 DEF ConnectSucceeds, CallbackInv, MarksInv, Live, Announced,
       InCallback, LaunchInv
  <2>2. StreamIdInv' /\ CacheInv'
    BY <1>3 DEF ConnectSucceeds, StreamIdInv, NoForeignApplication,
       CacheInv, CacheFollowsHost
  <2>3. AdapterInv'
    BY <1>3, EmitConnection, CallbackEvents DEF ConnectSucceeds, AdapterInv,
       MarksInv, Live, CallbackInv, InCallback
  <2>4. ClosedInv'
    BY <1>3, EmitPublishes DEF ConnectSucceeds, ClosedInv
  <2> QED BY <2>1, <2>2, <2>3, <2>4
<1>4. ASSUME ConnectFails PROVE HostInv'
  <2>1. CallbackInv' /\ MarksInv' /\ LaunchInv'
    BY <1>4 DEF ConnectFails, CallbackInv, MarksInv, Live, Announced,
       InCallback, LaunchInv
  <2>2. StreamIdInv' /\ CacheInv'
    BY <1>4 DEF ConnectFails, StreamIdInv, NoForeignApplication, CacheInv,
       CacheFollowsHost
  <2>3. AdapterInv'
    BY <1>4, EmitConnection, CallbackEvents DEF ConnectFails, AdapterInv,
       MarksInv, Live, CallbackInv, InCallback
  <2>4. ClosedInv'
    BY <1>4, EmitPublishes DEF ConnectFails, ClosedInv
  <2> QED BY <2>1, <2>2, <2>3, <2>4
<1>5. ASSUME PreparePairing PROVE HostInv'
  <2>1. CallbackInv' /\ MarksInv' /\ LaunchInv'
    BY <1>5 DEF PreparePairing, ReadyToPair, Admitted, CallbackInv,
       MarksInv, Live, Announced, InCallback, LaunchInv
  <2>2. StreamIdInv' /\ CacheInv'
    BY <1>5 DEF PreparePairing, ReadyToPair, Admitted, StreamIdInv,
       NoForeignApplication, CacheInv, CacheFollowsHost
  <2>3. AdapterInv'
    BY <1>5, EmitPassive DEF PreparePairing, ReadyToPair, Admitted,
       AdapterInv
  <2>4. ClosedInv'
    <3>1. has_current_host /\ phase = "up"
      BY <1>5 DEF PreparePairing, ReadyToPair
    <3>2. published.type # "CONNECTION_CLOSED"
      BY <3>1 DEF ClosedInv
    <3>3. published'.type # "CONNECTION_CLOSED"
      BY <1>5, <3>1, <3>2, EmitPublishes DEF PreparePairing
    <3>4. UNCHANGED <<control, phase, has_current_host>>
      BY <1>5 DEF PreparePairing
    <3> QED BY <3>3, <3>4 DEF ClosedInv
  <2> QED BY <2>1, <2>2, <2>3, <2>4
<1>6. ASSUME PairBegins PROVE HostInv'
  <2>1. CallbackInv' /\ MarksInv' /\ LaunchInv'
    BY <1>6 DEF PairBegins, ReadyToPair, Admitted, CallbackInv, MarksInv,
       Live, Announced, InCallback, LaunchInv
  <2>2. StreamIdInv' /\ CacheInv'
    BY <1>6 DEF PairBegins, ReadyToPair, Admitted, StreamIdInv,
       NoForeignApplication, CacheInv, CacheFollowsHost
  <2>3. AdapterInv'
    BY <1>6 DEF PairBegins, ReadyToPair, Admitted, AdapterInv
  <2>4. ClosedInv'
    BY <1>6 DEF PairBegins, ReadyToPair, Admitted, ClosedInv
  <2> QED BY <2>1, <2>2, <2>3, <2>4
<1>7. ASSUME PairSucceeds PROVE HostInv'
  <2>1. CallbackInv' /\ MarksInv' /\ LaunchInv'
    BY <1>7 DEF PairSucceeds, CallbackInv, MarksInv, Live, Announced,
       InCallback, LaunchInv
  <2>2. StreamIdInv' /\ CacheInv'
    BY <1>7 DEF PairSucceeds, StreamIdInv, NoForeignApplication, CacheInv,
       CacheFollowsHost
  <2>3. AdapterInv'
    BY <1>7, EmitPairing, CallbackEvents DEF PairSucceeds, AdapterInv,
       MarksInv, Live, CallbackInv, InCallback, LaunchInv
  <2>4. ClosedInv'
    BY <1>7, EmitPublishes DEF PairSucceeds, ClosedInv
  <2> QED BY <2>1, <2>2, <2>3, <2>4
<1>8. ASSUME PairFails PROVE HostInv'
  <2>1. CallbackInv' /\ MarksInv' /\ LaunchInv'
    BY <1>8 DEF PairFails, CallbackInv, MarksInv, Live, Announced,
       InCallback, LaunchInv
  <2>2. StreamIdInv' /\ CacheInv'
    BY <1>8 DEF PairFails, StreamIdInv, NoForeignApplication, CacheInv,
       CacheFollowsHost
  <2>3. AdapterInv'
    BY <1>8, EmitPairing, CallbackEvents DEF PairFails, AdapterInv,
       MarksInv, Live, CallbackInv, InCallback, LaunchInv
  <2>4. ClosedInv'
    BY <1>8, EmitPublishes DEF PairFails, ClosedInv
  <2> QED BY <2>1, <2>2, <2>3, <2>4
<1>9. ASSUME PairCancelled PROVE HostInv'
  <2>1. CallbackInv' /\ MarksInv' /\ LaunchInv'
    BY <1>9 DEF PairCancelled, CallbackInv, MarksInv, Live, Announced,
       InCallback, LaunchInv
  <2>2. StreamIdInv' /\ CacheInv'
    BY <1>9 DEF PairCancelled, StreamIdInv, NoForeignApplication, CacheInv,
       CacheFollowsHost
  <2>3. AdapterInv'
    BY <1>9 DEF PairCancelled, AdapterInv
  <2>4. ClosedInv'
    BY <1>9 DEF PairCancelled, ClosedInv
  <2> QED BY <2>1, <2>2, <2>3, <2>4
<1>10. ASSUME ListRejected PROVE HostInv'
  <2>1. CallbackInv' /\ MarksInv' /\ LaunchInv'
    BY <1>10 DEF ListRejected, Admitted, CallbackInv, MarksInv, Live,
       Announced, InCallback, LaunchInv
  <2>2. StreamIdInv' /\ CacheInv'
    BY <1>10 DEF ListRejected, Admitted, StreamIdInv, NoForeignApplication,
       CacheInv, CacheFollowsHost
  <2>3. AdapterInv'
    BY <1>10, EmitPassive DEF ListRejected, Admitted, AdapterInv
  <2>4. ClosedInv'
    BY <1>10, EmitPublishes DEF ListRejected, Admitted, ClosedInv
  <2> QED BY <2>1, <2>2, <2>3, <2>4
<1>11. ASSUME ListBegins PROVE HostInv'
  <2>1. CallbackInv' /\ MarksInv' /\ LaunchInv'
    BY <1>11 DEF ListBegins, CanList, Admitted, CallbackInv, MarksInv, Live,
       Announced, InCallback, LaunchInv
  <2>2. StreamIdInv' /\ CacheInv'
    BY <1>11 DEF ListBegins, CanList, Admitted, StreamIdInv,
       NoForeignApplication, CacheInv, CacheFollowsHost
  <2>3. AdapterInv'
    BY <1>11 DEF ListBegins, CanList, Admitted, AdapterInv
  <2>4. ClosedInv'
    BY <1>11 DEF ListBegins, CanList, Admitted, ClosedInv
  <2> QED BY <2>1, <2>2, <2>3, <2>4
<1>12. ASSUME ListEnds PROVE HostInv'
  <2>1. CallbackInv' /\ MarksInv' /\ LaunchInv'
    BY <1>12 DEF ListEnds, CallbackInv, MarksInv, Live, Announced,
       InCallback, LaunchInv
  <2>2. StreamIdInv' /\ CacheInv'
    BY <1>12 DEF ListEnds, StreamIdInv, NoForeignApplication, CacheInv,
       CacheFollowsHost, ClientKept
  <2>3. AdapterInv'
    BY <1>12, EmitPassive DEF ListEnds, AdapterInv
  <2>4. ClosedInv'
    BY <1>12, EmitPublishes DEF ListEnds, ClosedInv
  <2> QED BY <2>1, <2>2, <2>3, <2>4
<1> QED BY <1>1, <1>2, <1>3, <1>4, <1>5, <1>6, <1>7, <1>8, <1>9, <1>10, <1>11,
           <1>12 DEF JobStep, JobEnds

(* The launch: from the checks to the return of the call the old session  *)
(* may still be in its last callback, the new one not yet there.           *)
LEMMA LaunchKeeps ==
    ASSUME HostSafe
    PROVE  LaunchStep => HostInv'
<1> USE DEF HostSafe, HostInv, ClientInv, SessionExcluded
<1>1. ASSUME NEW a \in Apps, NEW q \in Games, StartChecks(a, q) PROVE HostInv'
  <2>1. CallbackInv' /\ MarksInv' /\ LaunchInv'
    BY <1>1 DEF StartChecks, Admitted, CallbackInv, MarksInv, Live,
       Announced, InCallback, LaunchInv
  <2>2. StreamIdInv' /\ CacheInv'
    BY <1>1 DEF StartChecks, Admitted, StreamIdInv, NoForeignApplication,
       CacheInv, CacheFollowsHost
  <2>3. AdapterInv'
    BY <1>1 DEF StartChecks, Admitted, AdapterInv
  <2>4. ClosedInv'
    BY <1>1 DEF StartChecks, Admitted, ClosedInv
  <2> QED BY <2>1, <2>2, <2>3, <2>4
<1>2. ASSUME StartMarks PROVE HostInv'
  <2>1. CallbackInv' /\ MarksInv' /\ LaunchInv'
    BY <1>2, CallbackEvents DEF StartMarks, CallbackInv, MarksInv, Live,
       Announced, InCallback, LaunchInv
  <2>2. StreamIdInv' /\ CacheInv'
    BY <1>2 DEF StartMarks, StreamIdInv, NoForeignApplication, CacheInv,
       CacheFollowsHost
  <2>3. AdapterInv'
    BY <1>2 DEF StartMarks, AdapterInv
  <2>4. ClosedInv'
    BY <1>2 DEF StartMarks, ClosedInv
  <2> QED BY <2>1, <2>2, <2>3, <2>4
<1>3. ASSUME StartReserves PROVE HostInv'
  <2>1. CallbackInv' /\ MarksInv' /\ LaunchInv'
    <3>1. events' = << >> /\ events' # <<"STARTED">>
      BY <1>3 DEF StartReserves, Start
    <3>2. ~Live /\ callback_at = "enter" /\ connection_state = "PAIRED"
      BY <1>3, CallbackEvents DEF StartReserves, Start, Live, CallbackInv,
         InCallback, LaunchInv
    <3>3. stream_pending /\ ~stream_active
      BY <1>3, <3>2 DEF StartReserves, MarksInv
    <3>4. CallbackInv' /\ MarksInv'
      BY <1>3, <3>1, <3>2, <3>3 DEF StartReserves, Start, CallbackInv, MarksInv,
         Live, Announced, InCallback
    <3>5. LaunchInv'
      BY <1>3, CallbackEvents DEF StartReserves, Start, LaunchInv, Live,
         CallbackInv, InCallback
    <3> QED BY <3>4, <3>5
  <2>2. StreamIdInv' /\ CacheInv'
    BY <1>3 DEF StartReserves, Start, StreamIdInv, NoForeignApplication,
       CacheInv, CacheFollowsHost
  <2>3. AdapterInv'
    BY <1>3, CallbackEvents DEF StartReserves, Start, AdapterInv,
       CallbackInv, InCallback
  <2>4. ClosedInv'
    BY <1>3 DEF StartReserves, Start, ClosedInv
  <2> QED BY <2>1, <2>2, <2>3, <2>4
<1>4. ASSUME StartRefused PROVE HostInv'
  <2>1. CallbackInv' /\ MarksInv' /\ LaunchInv'
    BY <1>4, CallbackEvents DEF StartRefused, StartUndone, CallbackInv,
       MarksInv, Live, Announced, InCallback, LaunchInv
  <2>2. StreamIdInv' /\ CacheInv'
    BY <1>4 DEF StartRefused, StartUndone, StreamIdInv,
       NoForeignApplication, CacheInv, CacheFollowsHost
  <2>3. AdapterInv'
    BY <1>4, CallbackEvents DEF StartRefused, StartUndone, AdapterInv,
       MarksInv, Live, CallbackInv, InCallback, LaunchInv
  <2>4. ClosedInv'
    BY <1>4 DEF StartRefused, StartUndone, ClosedInv
  <2> QED BY <2>1, <2>2, <2>3, <2>4
<1>5. ASSUME StartCreates, CreateOwner PROVE HostInv'
  <2>1. CallbackInv' /\ MarksInv' /\ LaunchInv'
    BY <1>5, CallbackEvents DEF StartCreates, StartUndone, CreateOwner,
       CreateOwnerFails, CallbackInv, MarksInv, Live, Announced, InCallback,
       LaunchInv
  <2>2. StreamIdInv' /\ CacheInv'
    BY <1>5 DEF StartCreates, StartUndone, CreateOwner, CreateOwnerFails,
       StreamIdInv, NoForeignApplication, CacheInv, CacheFollowsHost
  <2>3. AdapterInv'
    BY <1>5, CallbackEvents DEF StartCreates, StartUndone, CreateOwner,
       CreateOwnerFails, AdapterInv, MarksInv, Live, CallbackInv, InCallback
  <2>4. ClosedInv'
    BY <1>5 DEF StartCreates, StartUndone, CreateOwner, CreateOwnerFails,
       ClosedInv
  <2> QED BY <2>1, <2>2, <2>3, <2>4
<1>6. ASSUME StartCreates, CreateOwnerFails PROVE HostInv'
  <2>1. CallbackInv' /\ MarksInv' /\ LaunchInv'
    BY <1>6, CallbackEvents DEF StartCreates, StartUndone, CreateOwner,
       CreateOwnerFails, CallbackInv, MarksInv, Live, Announced, InCallback,
       LaunchInv
  <2>2. StreamIdInv' /\ CacheInv'
    BY <1>6 DEF StartCreates, StartUndone, CreateOwner, CreateOwnerFails,
       StreamIdInv, NoForeignApplication, CacheInv, CacheFollowsHost
  <2>3. AdapterInv'
    BY <1>6, CallbackEvents DEF StartCreates, StartUndone, CreateOwner,
       CreateOwnerFails, AdapterInv, MarksInv, Live, CallbackInv,
       InCallback, LaunchInv, Announced
  <2>4. ClosedInv'
    BY <1>6 DEF StartCreates, StartUndone, CreateOwner, CreateOwnerFails,
       ClosedInv
  <2> QED BY <2>1, <2>2, <2>3, <2>4
<1>7. ASSUME StartReturns PROVE HostInv'
  <2>1. CallbackInv' /\ MarksInv' /\ LaunchInv'
    BY <1>7 DEF StartReturns, CallbackInv, MarksInv, Live, Announced,
       InCallback, LaunchInv
  <2>2. StreamIdInv' /\ CacheInv'
    BY <1>7 DEF StartReturns, StreamIdInv, NoForeignApplication, CacheInv,
       CacheFollowsHost
  <2>3. AdapterInv'
    BY <1>7 DEF StartReturns, AdapterInv
  <2>4. ClosedInv'
    BY <1>7 DEF StartReturns, ClosedInv
  <2> QED BY <2>1, <2>2, <2>3, <2>4
<1>8. ASSUME StreamPageFails PROVE HostInv'
  BY <1>8 DEF StreamPageFails, CallbackInv, MarksInv, Live, Announced, InCallback,
     LaunchInv, StreamIdInv, NoForeignApplication, CacheInv, CacheFollowsHost,
     AdapterInv, ClosedInv
<1> QED
  BY <1>1, <1>2, <1>3, <1>4, <1>5, <1>6, <1>7, <1>8 DEF LaunchStep, StartSteps, StartCreates

(* The three steps of on_stream_event against whatever the holder of the   *)
(* mutex is doing.                                                         *)
LEMMA CallbackKeeps ==
    ASSUME HostSafe
    PROVE  CallbackSteps => HostInv'
<1> USE DEF HostSafe, HostInv, ClientInv, SessionExcluded
<1>1. ASSUME StreamEventState PROVE HostInv'
  <2>1. CallbackInv' /\ MarksInv' /\ LaunchInv'
    BY <1>1, CallbackEvents DEF StreamEventState, CallbackInv, MarksInv,
       Live, Announced, InCallback, LaunchInv
  <2>2. StreamIdInv' /\ CacheInv'
    BY <1>1 DEF StreamEventState, StreamIdInv, NoForeignApplication,
       CacheInv, CacheFollowsHost
  <2>3. AdapterInv'
    BY <1>1, CallbackEvents DEF StreamEventState, AdapterInv, MarksInv,
       Live, Announced, InCallback
  <2>4. ClosedInv'
    BY <1>1 DEF StreamEventState, ClosedInv
  <2> QED BY <2>1, <2>2, <2>3, <2>4
<1>2. ASSUME StreamEventEmit PROVE HostInv'
  <2>1. CallbackInv' /\ MarksInv' /\ LaunchInv'
    BY <1>2, CallbackEvents DEF StreamEventEmit, CallbackInv, MarksInv,
       Live, Announced, InCallback, LaunchInv
  <2>2. StreamIdInv' /\ CacheInv'
    BY <1>2 DEF StreamEventEmit, StreamIdInv, NoForeignApplication,
       CacheInv, CacheFollowsHost
  <2>3. AdapterInv'
    <3> SUFFICES ASSUME phase = "up", control # "closing" PROVE AdapterInv'
      BY <1>2 DEF StreamEventEmit, AdapterInv
    <3>1. CASE owner = "announcing"
      BY <1>2, <3>1, CallbackEvents, EmitStream DEF StreamEventEmit, EventType,
         AdapterInv, MarksInv, Live, Announced, InCallback
    <3>2. CASE owner = "reporting" /\ result = "ok"
      BY <1>2, <3>2, CallbackEvents, EmitStream DEF StreamEventEmit, EventType,
         AdapterInv, MarksInv, Live, Announced, InCallback
    <3>3. CASE owner = "reporting" /\ result # "ok"
      BY <1>2, <3>3, CallbackEvents, EmitStream DEF StreamEventEmit, EventType,
         AdapterInv, MarksInv, Live, Announced, InCallback
    <3> QED BY <1>2, <3>1, <3>2, <3>3 DEF StreamEventEmit, InCallback
  <2>4. ClosedInv'
    <3>1. published' = published \/ published'.type # "CONNECTION_CLOSED"
      BY <1>2, EmitPublishes DEF StreamEventEmit, EventType
    <3> QED BY <1>2, <3>1 DEF StreamEventEmit, ClosedInv
  <2> QED BY <2>1, <2>2, <2>3, <2>4
<1>3. ASSUME StreamEventReturns PROVE HostInv'
  <2>1. CallbackInv' /\ MarksInv' /\ LaunchInv'
    <3>1. CASE AnnounceStarted
      BY <1>3, <3>1, CallbackEvents DEF StreamEventReturns, AnnounceStarted,
         CallbackInv, MarksInv, LaunchInv, Live, Announced, InCallback
    <3>2. CASE Report
      BY <1>3, <3>2, CallbackEvents DEF StreamEventReturns, Report,
         CallbackInv, MarksInv, LaunchInv, Live, Announced, InCallback
    <3> QED BY <1>3, <3>1, <3>2 DEF StreamEventReturns
  <2>2. StreamIdInv' /\ CacheInv'
    BY <1>3 DEF StreamEventReturns, AnnounceStarted, Report, StreamIdInv,
       NoForeignApplication, CacheInv, CacheFollowsHost
  <2>3. AdapterInv'
    BY <1>3, CallbackEvents DEF StreamEventReturns, AnnounceStarted, Report,
       AdapterInv, MarksInv, Live, Announced, InCallback
  <2>4. ClosedInv'
    BY <1>3 DEF StreamEventReturns, AnnounceStarted, Report, ClosedInv
  <2> QED BY <2>1, <2>2, <2>3, <2>4
<1> QED BY <1>1, <1>2, <1>3 DEF CallbackSteps

(* Giving a host up: the disconnect, its worker and shutdown.              *)
LEMMA CleanupKeeps ==
    ASSUME HostSafe
    PROVE  CleanupStep => HostInv'
<1> USE DEF HostSafe, HostInv, ClientInv, SessionExcluded
<1>1. ASSUME Disconnect PROVE HostInv'
  <2>0. UNCHANGED <<owner, thread_running, result, app, events>>
    BY <1>1, RequestsKeepOwner, Zenon DEF Disconnect, StopIfRunning
  <2>1. CallbackInv' /\ MarksInv' /\ LaunchInv'
    BY <1>1, <2>0 DEF Disconnect, CallbackInv, MarksInv, Live, Announced,
       InCallback, LaunchInv
  <2>2. StreamIdInv' /\ CacheInv'
    BY <1>1, <2>0 DEF Disconnect, StreamIdInv, NoForeignApplication, CacheInv,
       CacheFollowsHost
  <2>3. AdapterInv'
    BY <1>1, <2>0 DEF Disconnect, AdapterInv
  <2>4. ClosedInv'
    BY <1>1, <2>0 DEF Disconnect, ClosedInv
  <2> QED BY <2>1, <2>2, <2>3, <2>4
<1>2. ASSUME CleanupLocks PROVE HostInv'
  <2>1. CallbackInv' /\ MarksInv' /\ LaunchInv'
    BY <1>2 DEF CleanupLocks, CallbackInv, MarksInv, Live, Announced,
       InCallback, LaunchInv
  <2>2. StreamIdInv' /\ CacheInv'
    BY <1>2 DEF CleanupLocks, StreamIdInv, NoForeignApplication, CacheInv,
       CacheFollowsHost
  <2>3. AdapterInv'
    BY <1>2 DEF CleanupLocks, AdapterInv
  <2>4. ClosedInv'
    BY <1>2 DEF CleanupLocks, ClosedInv
  <2> QED BY <2>1, <2>2, <2>3, <2>4
<1>3. ASSUME CleanupClears PROVE HostInv'
  <2>1. CallbackInv' /\ MarksInv' /\ LaunchInv'
    BY <1>3, CallbackEvents DEF CleanupClears, CallbackInv, MarksInv, Live,
       Announced, InCallback, LaunchInv
  <2>2. StreamIdInv' /\ CacheInv'
    BY <1>3 DEF CleanupClears, StreamIdInv, NoForeignApplication, CacheInv,
       CacheFollowsHost
  <2>3. AdapterInv'
    BY <1>3 DEF CleanupClears, AdapterInv
  <2>4. ClosedInv'
    BY <1>3 DEF CleanupClears, ClosedInv
  <2> QED BY <2>1, <2>2, <2>3, <2>4
<1>4. ASSUME CleanupPublishes PROVE HostInv'
  <2>1. CallbackInv' /\ MarksInv' /\ LaunchInv'
    BY <1>4 DEF CleanupPublishes, CallbackInv, MarksInv, Live, Announced,
       InCallback, LaunchInv
  <2>2. StreamIdInv' /\ CacheInv'
    BY <1>4 DEF CleanupPublishes, StreamIdInv, NoForeignApplication,
       CacheInv, CacheFollowsHost
  <2>3. AdapterInv'
    BY <1>4, EmitConnection, CallbackEvents DEF CleanupPublishes,
       AdapterInv, MarksInv, Live, CallbackInv, InCallback
  <2>4. ClosedInv'
    BY <1>4, EmitPublishes DEF CleanupPublishes, ClosedInv
  <2> QED BY <2>1, <2>2, <2>3, <2>4
<1>5. ASSUME ShutdownBegins PROVE HostInv'
  <2>1. CallbackInv' /\ MarksInv' /\ LaunchInv'
    BY <1>5 DEF ShutdownBegins, CallbackInv, MarksInv, Live, Announced,
       InCallback, LaunchInv
  <2>2. StreamIdInv' /\ CacheInv'
    BY <1>5 DEF ShutdownBegins, StreamIdInv, NoForeignApplication, CacheInv,
       CacheFollowsHost
  <2>3. AdapterInv'
    BY <1>5 DEF ShutdownBegins, AdapterInv
  <2>4. ClosedInv'
    BY <1>5 DEF ShutdownBegins, ClosedInv
  <2> QED BY <2>1, <2>2, <2>3, <2>4
<1>6. ASSUME ShutdownLocks PROVE HostInv'
  <2>0. UNCHANGED <<owner, thread_running, result, app, events>>
    BY <1>6, RequestsKeepOwner, Zenon DEF ShutdownLocks, StopIfRunning
  <2>1. CallbackInv' /\ MarksInv' /\ LaunchInv'
    BY <1>6, <2>0 DEF ShutdownLocks, CallbackInv, MarksInv, Live, Announced,
       InCallback, LaunchInv
  <2>2. StreamIdInv' /\ CacheInv'
    BY <1>6, <2>0 DEF ShutdownLocks, StreamIdInv, NoForeignApplication, CacheInv,
       CacheFollowsHost
  <2>3. AdapterInv'
    BY <1>6, <2>0 DEF ShutdownLocks, AdapterInv
  <2>4. ClosedInv'
    BY <1>6, <2>0 DEF ShutdownLocks, ClosedInv
  <2> QED BY <2>1, <2>2, <2>3, <2>4
<1>7. ASSUME ShutdownFinishes PROVE HostInv'
  <2>1. CallbackInv' /\ MarksInv' /\ LaunchInv'
    BY <1>7, CallbackEvents DEF ShutdownFinishes, CallbackInv, MarksInv,
       Live, Announced, InCallback, LaunchInv
  <2>2. StreamIdInv' /\ CacheInv'
    BY <1>7 DEF ShutdownFinishes, StreamIdInv, NoForeignApplication,
       CacheInv, CacheFollowsHost
  <2>3. AdapterInv'
    BY <1>7 DEF ShutdownFinishes, AdapterInv
  <2>4. ClosedInv'
    BY <1>7 DEF ShutdownFinishes, ClosedInv
  <2> QED BY <2>1, <2>2, <2>3, <2>4
<1> QED BY <1>1, <1>2, <1>3, <1>4, <1>5, <1>6, <1>7 DEF CleanupStep, CleanupSteps

(* Stop requests and the owner's own steps between the callbacks.          *)
LEMMA OwnerKeeps ==
    ASSUME HostSafe, UNCHANGED hostVars,
           Stop \/ Terminated \/ ControllerLed \/ UNCHANGED vars
             \/ ((OwnerStep \/ CommonStep) /\ ~InCallback)
    PROVE  HostInv'
<1> USE DEF HostSafe, HostInv
<1>1. CASE Stop \/ Terminated \/ ControllerLed \/ UNCHANGED vars
  BY <1>1, RequestsKeepOwner DEF CallbackInv, MarksInv, LaunchInv, StreamIdInv,
     CacheInv, CacheFollowsHost, AdapterInv, ClosedInv, NoForeignApplication,
     Live, Announced, InCallback
<1>2. CASE (OwnerStep \/ CommonStep) /\ ~InCallback
  <2>1. UNCHANGED <<app, events>> /\ (Released \/ Moved)
    BY <1>2, OwnerMoves
  <2>2. callback_at = "enter"
    BY <1>2 DEF CallbackInv
  <2>3. CallbackInv' /\ MarksInv' /\ LaunchInv' /\ AdapterInv'
    BY <2>1, <2>2, CallbackEvents DEF Released, Moved, CallbackInv, MarksInv,
       LaunchInv, AdapterInv, Live, Announced, InCallback
  <2>4. StreamIdInv' /\ CacheInv' /\ ClosedInv'
    BY <2>1, CallbackEvents DEF Released, Moved, StreamIdInv, CacheInv, ClosedInv,
       NoForeignApplication, CacheFollowsHost
  <2> QED BY <2>3, <2>4
<1> QED BY <1>1, <1>2

LEMMA HostInvStep == HostSafe /\ [HostNext]_allVars => HostInv'
<1> SUFFICES ASSUME HostSafe, [HostNext]_allVars PROVE HostInv'
  OBVIOUS
<1>1. CASE JobStep \/ LaunchStep \/ CallbackSteps \/ CleanupStep
  BY <1>1, JobsKeep, LaunchKeeps, CallbackKeeps, CleanupKeeps
<1>2. CASE OwnerAlone \/ CommonAlone
  <2>1. ~InCallback
    BY <1>2 DEF OwnerAlone, CommonAlone, InCallback, CommonStep, StageStarts,
       LiStartFails, ConnectionStarted
  <2> QED BY <1>2, <2>1, OwnerKeeps, Zenon DEF OwnerAlone, CommonAlone
<1>3. CASE StopApplication \/ InputStop
  BY <1>3, OwnerKeeps, Zenon DEF StopApplication, InputStop
<1>4. CASE (Terminated \/ ControllerLed \/ UNCHANGED vars) /\ UNCHANGED hostVars
  BY <1>4, OwnerKeeps
<1> QED
  BY <1>1, <1>2, <1>3, <1>4 DEF HostNext, JobStep, LaunchStep, CleanupStep

(* Whatever connect, pairing, listing, launch, disconnect and shutdown do  *)
(* while the owner's callback writes the API's state without their mutex,  *)
(* HostInv holds.                                                          *)
LEMMA HostInvHolds == HostSpec => []HostInv
<1>1. HostInit => ClientInv /\ Init
  BY DEF HostInit, Init, ClientInv, ClientOutlivesSession, RequestOK, ClientKept,
         SessionExcluded
<1>2. HostInit => HostInv
  BY DEF HostInit, Init, HostInv, CallbackInv, MarksInv, LaunchInv, StreamIdInv,
     CacheInv, CacheFollowsHost, AdapterInv, ClosedInv, NoForeignApplication,
     Live, Announced
<1>3. HostSpec => []SessionInv
  BY HostRunsSessions, SessionSafe, PTL DEF SessionsAsSpecified
<1>4. HostSpec => []ClientInv
  BY <1>1, ClientInvStep, PTL DEF HostSpec
<1>5. SessionInv /\ ClientInv /\ HostInv /\ [HostNext]_allVars => HostInv'
  BY HostInvStep DEF HostSafe
<1> QED
  BY <1>2, <1>3, <1>4, <1>5, PTL DEF HostSpec

(* Nothing in progress and no session: the next launch finds the API as it *)
(* found it the first time, whatever order stop, start, callback and       *)
(* release came in.                                                        *)
THEOREM HostLeavesNothing == HostSpec => []NothingLeftBehind
<1>1. SessionInv /\ HostInv => NothingLeftBehind
  BY CallbackEvents DEF HostInv, MarksInv, StreamIdInv, Live, NothingLeftBehind
<1>2. HostSpec => []SessionInv
  BY HostRunsSessions, SessionSafe, PTL DEF SessionsAsSpecified
<1> QED BY <1>1, <1>2, HostInvHolds, PTL

(* Although on_stream_event reads and clears the id outside the mutex, the *)
(* id is the running session's or none, but while a start that has marked  *)
(* its launch has yet to be given or refused a session.                    *)
THEOREM HostNamesApplication == HostSpec => []NoForeignApplication
<1>1. HostInv => NoForeignApplication
  BY DEF HostInv, StreamIdInv
<1> QED BY <1>1, HostInvHolds, PTL

(* moonlight_api_get_applications never serves the list of another host or *)
(* of one that is being disconnected.                                      *)
THEOREM HostCacheFollows == HostSpec => []CacheFollowsHost
<1>1. HostInv => CacheFollowsHost
  BY DEF HostInv, CacheInv
<1> QED BY <1>1, HostInvHolds, PTL

(* The connection state that ForwardEvent rebuilds from events agrees with *)
(* the API's whenever no event is on its way.                              *)
THEOREM HostAdapterFollows == HostSpec => []AdapterFollowsApi
<1>1. HostInv => AdapterFollowsApi
  BY DEF HostInv, AdapterInv, AdapterFollowsApi
<1> QED BY <1>1, HostInvHolds, PTL

(* After CONNECTION_CLOSED the frontend hears nothing of the closed        *)
(* connection: the cleanup worker publishes it last.                       *)
THEOREM HostClosedIsFinal == HostSpec => ClosedIsFinal
<1> DEFINE Final ==
      published.type = "CONNECTION_CLOSED" /\ published' # published =>
        published'.type \in {"CONNECTION_READY", "CONNECTION_FAILED", "APPLICATIONS_FAILED"}
<1>1. SessionInv /\ HostInv /\ [HostNext]_allVars => [Final]_published
  <2> SUFFICES ASSUME SessionInv, HostInv, [HostNext]_allVars,
                      published.type = "CONNECTION_CLOSED", published' # published
               PROVE  published'.type \in {"CONNECTION_READY", "CONNECTION_FAILED",
                                           "APPLICATIONS_FAILED"}
    OBVIOUS
  <2>1. CASE ConnectNoDirectory \/ ConnectSucceeds \/ ConnectFails \/ ListRejected
    BY <2>1, EmitPublishes DEF ConnectNoDirectory, ConnectSucceeds, ConnectFails, ListRejected
  <2>2. CASE PreparePairing \/ PairSucceeds \/ PairFails \/ ListEnds
             \/ StreamEventEmit \/ CleanupPublishes
    <3>1. phase = "up"
      BY <2>2, EmitPublishes DEF PreparePairing, PairSucceeds, PairFails, ListEnds,
         StreamEventEmit, CleanupPublishes
    <3>2. ~has_current_host /\ ~thread_running /\ control \in {"free", "connecting"}
      BY <3>1 DEF HostInv, ClosedInv
    <3> QED
      BY <2>2, <3>2, CallbackEvents DEF PreparePairing, ReadyToPair, PairSucceeds,
         PairFails, ListEnds, StreamEventEmit, InCallback, CleanupPublishes
  <2>3. CASE \/ \E h \in Hosts : ConnectBegins(h)
             \/ PairBegins \/ PairCancelled \/ ListBegins \/ LaunchStep
             \/ StopApplication \/ InputStop \/ StreamEventState \/ StreamEventReturns
             \/ Disconnect \/ CleanupLocks \/ CleanupClears
             \/ ShutdownBegins \/ ShutdownLocks \/ ShutdownFinishes
             \/ OwnerAlone \/ CommonAlone \/ UNCHANGED hostVars
    BY <2>3, Zenon DEF ConnectBegins, PairBegins, PairCancelled, ListBegins, LaunchStep,
       StartChecks, StreamPageFails, StartSteps, StartMarks, StartReserves, StartRefused, StartUndone,
       StartCreates, StartReturns, StopApplication, InputStop, StreamEventState,
       StreamEventReturns, Disconnect, CleanupLocks, CleanupClears, ShutdownBegins,
       ShutdownLocks, ShutdownFinishes, OwnerAlone, CommonAlone
  <2> QED
    BY <2>1, <2>2, <2>3 DEF HostNext, JobEnds, LaunchStep, CallbackSteps, CleanupSteps
<1>2. HostSpec => []SessionInv
  BY HostRunsSessions, SessionSafe, PTL DEF SessionsAsSpecified
<1> QED BY <1>1, <1>2, HostInvHolds, PTL DEF HostSpec, ClosedIsFinal

-----------------------------------------------------------------------------
(* The events as promised: HostControl implements HostEvents.              *)

(* Requests are followed by an event of their own only before a disconnect *)
(* has been accepted.                                                      *)
LEMMA SeenJobs ==
    ASSUME HostSafe, SeenInv
    PROVE  JobStep => SeenInv'
<1> USE DEF HostSafe, HostInv, ClientInv, SessionExcluded, SeenInv, Live
<1>1. ASSUME ConnectNoDirectory PROVE SeenInv'
  BY <1>1 DEF ConnectNoDirectory
<1>2. ASSUME NEW h \in Hosts, ConnectBegins(h) PROVE SeenInv'
  BY <1>2 DEF ConnectBegins, Admitted, LaunchInv
<1>3. ASSUME ConnectSucceeds \/ ConnectFails PROVE SeenInv'
  BY <1>3 DEF ConnectSucceeds, ConnectFails, CacheInv
<1>4. ASSUME PreparePairing PROVE SeenInv'
  BY <1>4 DEF PreparePairing
<1>5. ASSUME PairBegins PROVE SeenInv'
  BY <1>5 DEF PairBegins, ReadyToPair, Admitted, CacheInv
<1>6. ASSUME PairSucceeds \/ PairFails \/ PairCancelled PROVE SeenInv'
  BY <1>6 DEF PairSucceeds, PairFails, PairCancelled
<1>7. ASSUME ListRejected PROVE SeenInv'
  BY <1>7 DEF ListRejected
<1>8. ASSUME ListBegins PROVE SeenInv'
  BY <1>8 DEF ListBegins, CanList, Admitted
<1>9. ASSUME ListEnds PROVE SeenInv'
  BY <1>9 DEF ListEnds
<1> QED BY <1>1, <1>2, <1>3, <1>4, <1>5, <1>6, <1>7, <1>8, <1>9 DEF JobStep, JobEnds

LEMMA SeenLaunch ==
    ASSUME HostSafe, SeenInv
    PROVE  LaunchStep => SeenInv'
<1> USE DEF HostSafe, HostInv, SeenInv, Live
<1>1. ASSUME NEW a \in Apps, NEW q \in Games, StartChecks(a, q) PROVE SeenInv'
  BY <1>1 DEF StartChecks, Admitted
<1>2. ASSUME StartMarks PROVE SeenInv'
  BY <1>2 DEF StartMarks
<1>3. ASSUME StartReserves PROVE SeenInv'
  BY <1>3 DEF StartReserves, Start
<1>4. ASSUME StartRefused PROVE SeenInv'
  BY <1>4 DEF StartRefused, StartUndone
<1>5. ASSUME StartCreates PROVE SeenInv'
  <2>1. CASE CreateOwner
    BY <1>5, <2>1, CallbackEvents DEF StartCreates, CreateOwner, CreateOwnerFails, LaunchInv
  <2>2. CASE CreateOwnerFails /\ StartUndone
    BY <1>5, <2>2 DEF StartCreates, CreateOwnerFails, StartUndone
  <2> QED BY <1>5, <2>1, <2>2 DEF StartCreates
<1>6. ASSUME StartReturns \/ StreamPageFails PROVE SeenInv'
  BY <1>6 DEF StartReturns, StreamPageFails
<1> QED BY <1>1, <1>2, <1>3, <1>4, <1>5, <1>6 DEF LaunchStep, StartSteps

LEMMA SeenCallback ==
    ASSUME HostSafe, SeenInv
    PROVE  CallbackSteps => SeenInv'
<1> USE DEF HostSafe, HostInv, SeenInv, Live
<1>1. ASSUME StreamEventState PROVE SeenInv'
  BY <1>1 DEF StreamEventState
<1>2. ASSUME StreamEventEmit PROVE SeenInv'
  BY <1>2, CallbackEvents DEF StreamEventEmit, InCallback
<1>3. ASSUME StreamEventReturns PROVE SeenInv'
  BY <1>3, CallbackEvents DEF StreamEventReturns, InCallback, AnnounceStarted, Report
<1> QED BY <1>1, <1>2, <1>3 DEF CallbackSteps

LEMMA SeenCleanup ==
    ASSUME HostSafe, SeenInv
    PROVE  CleanupStep => SeenInv'
<1> USE DEF HostSafe, HostInv, ClientInv, SessionExcluded, SeenInv, Live
<1>1. ASSUME Disconnect PROVE SeenInv'
  <2>0. UNCHANGED <<owner, thread_running, result, app, events>>
    BY <1>1, RequestsKeepOwner, Zenon DEF Disconnect, StopIfRunning
  <2> QED BY <1>1, <2>0 DEF Disconnect
<1>2. ASSUME CleanupLocks PROVE SeenInv'
  BY <1>2 DEF CleanupLocks
<1>3. ASSUME CleanupClears PROVE SeenInv'
  BY <1>3 DEF CleanupClears
<1>4. ASSUME CleanupPublishes PROVE SeenInv'
  BY <1>4 DEF CleanupPublishes
<1>5. ASSUME ShutdownBegins PROVE SeenInv'
  BY <1>5 DEF ShutdownBegins
<1>6. ASSUME ShutdownLocks PROVE SeenInv'
  <2>0. UNCHANGED <<owner, thread_running, result, app, events>>
    BY <1>6, RequestsKeepOwner, Zenon DEF ShutdownLocks, StopIfRunning
  <2> QED BY <1>6, <2>0 DEF ShutdownLocks
<1>7. ASSUME ShutdownFinishes PROVE SeenInv'
  BY <1>7 DEF ShutdownFinishes
<1> QED BY <1>1, <1>2, <1>3, <1>4, <1>5, <1>6, <1>7 DEF CleanupStep, CleanupSteps

(* What every step outside the four groups leaves alone.                   *)
Aside == \/ Stop \/ Terminated \/ ControllerLed \/ UNCHANGED vars
         \/ (OwnerStep \/ CommonStep) /\ ~InCallback

LEMMA StepGroups ==
    [HostNext]_allVars =>
        JobStep \/ LaunchStep \/ CallbackSteps \/ CleanupStep \/ (Aside /\ UNCHANGED hostVars)
<1> SUFFICES ASSUME [HostNext]_allVars
             PROVE  JobStep \/ LaunchStep \/ CallbackSteps \/ CleanupStep
                      \/ (Aside /\ UNCHANGED hostVars)
  OBVIOUS
<1>1. CASE OwnerAlone \/ CommonAlone
  <2>1. ~InCallback
    BY <1>1 DEF OwnerAlone, CommonAlone, InCallback, CommonStep, StageStarts,
       LiStartFails, ConnectionStarted
  <2> QED BY <1>1, <2>1, Zenon DEF OwnerAlone, CommonAlone, Aside
<1>2. CASE StopApplication \/ InputStop
  BY <1>2, Zenon DEF StopApplication, InputStop, Aside
<1>3. CASE (Terminated \/ ControllerLed \/ UNCHANGED vars) /\ UNCHANGED hostVars
  BY <1>3, Zenon DEF Aside
<1> QED
  BY <1>1, <1>2, <1>3 DEF HostNext, JobStep, LaunchStep, CleanupStep

(* They move the session, if at all, from one place before or between its  *)
(* callbacks to another, or give up the slot of a session already over.    *)
LEMMA AsideMoves ==
    ASSUME HostSafe, Aside, UNCHANGED hostVars
    PROVE  /\ UNCHANGED <<app, events>>
           /\ \/ UNCHANGED <<owner, thread_running>>
              \/ callback_at = "enter" /\ (Released \/ Moved)
<1>1. CASE Stop \/ Terminated \/ ControllerLed \/ UNCHANGED vars
  <2>1. UNCHANGED <<owner, thread_running, result, app, events>>
    BY <1>1, RequestsKeepOwner, Zenon
  <2> QED BY <2>1
<1>2. CASE (OwnerStep \/ CommonStep) /\ ~InCallback
  BY <1>2, OwnerMoves DEF HostSafe, HostInv, CallbackInv
<1> QED BY <1>1, <1>2 DEF Aside

LEMMA SeenAside ==
    ASSUME HostSafe, SeenInv, Aside, UNCHANGED hostVars
    PROVE  SeenInv'
BY AsideMoves DEF HostSafe, SeenInv, Live, Released, Moved

LEMMA SeenInvStep == HostSafe /\ SeenInv /\ [HostNext]_allVars => SeenInv'
BY StepGroups, SeenJobs, SeenLaunch, SeenCallback, SeenCleanup, SeenAside

(* What the frontend sees of the launch in each state of the session.      *)
LEMMA SeenOf ==
    /\ SessionSeen \in {"none", "starting", "running"}
    /\ SessionSeen = "none" <=> ~Unanswered /\ ~Starting
    /\ SessionSeen = "running" <=> Unanswered /\ StartAnnounced
    /\ Unanswered => ApplicationSeen = app
    /\ ~Unanswered /\ Starting => ApplicationSeen = request.app
    /\ ~Unanswered /\ ~Starting => ApplicationSeen = NoApp
    /\ Unanswered /\ Starting => OvertakerSeen = request.app
    /\ ~Unanswered \/ ~Starting => OvertakerSeen = NoApp
BY DEF SessionSeen, ApplicationSeen, OvertakerSeen

LEMMA SeenNext ==
    /\ SessionSeen' \in {"none", "starting", "running"}
    /\ SessionSeen' = "none" <=> ~Unanswered' /\ ~Starting'
    /\ SessionSeen' = "running" <=> Unanswered' /\ StartAnnounced'
    /\ Unanswered' => ApplicationSeen' = app'
    /\ ~Unanswered' /\ Starting' => ApplicationSeen' = request'.app
    /\ ~Unanswered' /\ ~Starting' => ApplicationSeen' = NoApp
    /\ Unanswered' /\ Starting' => OvertakerSeen' = request'.app
    /\ ~Unanswered' \/ ~Starting' => OvertakerSeen' = NoApp
BY DEF SessionSeen, ApplicationSeen, OvertakerSeen

LEMMA LaunchSeenKept ==
    ASSUME Unanswered' <=> Unanswered, Starting' <=> Starting,
           Unanswered => (StartAnnounced' <=> StartAnnounced) /\ app' = app,
           Starting => request'.app = request.app
    PROVE  UNCHANGED Seen!launch
BY SeenOf, SeenNext DEF Seen!launch

(* While the mutex is held for something else than a start, only the       *)
(* session decides what is seen of the launch; without one there is none.  *)
LEMMA NobodyWaits ==
    ASSUME ~thread_running, control \notin {"start", "marked"}
    PROVE  SessionSeen = "none"
BY SeenOf DEF Unanswered, Starting

LEMMA LaunchLeftAlone ==
    ASSUME JobStep \/ CleanupStep
    PROVE  UNCHANGED Seen!launch
<1>1. CASE JobStep
  <2>1. UNCHANGED <<owner, thread_running, app, events, callback_at>>
    BY <1>1, Zenon DEF JobStep, JobEnds, ConnectNoDirectory, ConnectBegins, PreparePairing,
       PairBegins, ListRejected, ListBegins, ConnectSucceeds, ConnectFails, PairSucceeds,
       PairFails, PairCancelled, ListEnds
  <2>2. ~Starting /\ ~Starting'
    BY <1>1 DEF Starting, JobStep, JobEnds, ConnectNoDirectory, ConnectBegins, PreparePairing,
       PairBegins, ListRejected, ListBegins, ConnectSucceeds, ConnectFails, PairSucceeds,
       PairFails, PairCancelled, ListEnds, Admitted, ReadyToPair
  <2> QED BY <2>1, <2>2, LaunchSeenKept DEF Unanswered, StartAnnounced
<1>2. CASE CleanupStep
  <2>1. UNCHANGED <<owner, thread_running, app, events>>
    <3>1. CASE Disconnect \/ ShutdownLocks
      BY <3>1, RequestsKeepOwner, Zenon DEF Disconnect, ShutdownLocks, StopIfRunning
    <3>2. CASE CleanupSteps \/ ShutdownBegins \/ ShutdownFinishes
      BY <3>2, Zenon DEF CleanupSteps, CleanupLocks, CleanupClears, CleanupPublishes,
         ShutdownBegins, ShutdownFinishes
    <3> QED BY <1>2, <3>1, <3>2 DEF CleanupStep
  <2>2. UNCHANGED callback_at /\ ~Starting /\ ~Starting'
    BY <1>2 DEF Starting, CleanupStep, CleanupSteps, Disconnect, CleanupLocks, CleanupClears,
       CleanupPublishes, ShutdownBegins, ShutdownLocks, ShutdownFinishes
  <2> QED BY <2>1, <2>2, LaunchSeenKept DEF Unanswered, StartAnnounced
<1> QED BY <1>1, <1>2

LEMMA EmitSays ==
    ASSUME NEW type, NEW a, NEW s, Emit(type, a, s)
    PROVE  Seen!Says(type, a)
BY DEF Emit, Seen!Says

LEMMA JobsAsPromised ==
    ASSUME HostSafe, SeenInv
    PROVE  JobStep => [Seen!Next]_(Seen!vars)
<1> SUFFICES ASSUME JobStep PROVE [Seen!Next]_(Seen!vars)
  OBVIOUS
<1> USE DEF Seen!vars, Seen!Quiet, Admitted
<1>0. SeenInv /\ SessionInv /\ ClientInv /\ HostInv /\ UNCHANGED Seen!launch
  BY LaunchLeftAlone DEF HostSafe
<1>a. UNCHANGED <<SessionSeen, ApplicationSeen, OvertakerSeen>>
  BY <1>0 DEF Seen!launch
<1>1. ASSUME ConnectNoDirectory PROVE Seen!OpenFails
  BY <1>0, <1>1, EmitSays, NobodyWaits DEF ConnectNoDirectory, Seen!OpenFails
<1>2. ASSUME NEW h \in Hosts, ConnectBegins(h) PROVE UNCHANGED Seen!vars
  BY <1>a, <1>2 DEF ConnectBegins
<1>3. ASSUME ConnectSucceeds PROVE Seen!Opens
  BY <1>0, <1>3, EmitSays, NobodyWaits
     DEF ConnectSucceeds, SeenInv, ClientInv, SessionExcluded, Seen!Opens
<1>4. ASSUME ConnectFails PROVE Seen!OpenFails
  BY <1>0, <1>4, EmitSays, NobodyWaits
     DEF ConnectFails, SeenInv, ClientInv, SessionExcluded, Seen!OpenFails
<1>5. ASSUME PreparePairing PROVE [Seen!Pairs]_(Seen!vars)
  <2>1. SessionSeen = "none"
    BY <1>0, <1>5, NobodyWaits DEF PreparePairing, ReadyToPair, HostInv, MarksInv
  <2> QED
    BY <1>0, <1>a, <1>5, <2>1, EmitSays DEF PreparePairing, ReadyToPair, Seen!Pairs
<1>6. ASSUME PairBegins PROVE UNCHANGED Seen!vars
  BY <1>a, <1>6 DEF PairBegins, ReadyToPair
<1>7. ASSUME PairSucceeds \/ PairFails PROVE Seen!Pairs
  BY <1>0, <1>7, EmitSays, NobodyWaits
     DEF PairSucceeds, PairFails, SeenInv, HostInv, LaunchInv, Seen!Pairs
<1>8. ASSUME PairCancelled PROVE UNCHANGED Seen!vars
  BY <1>a, <1>8 DEF PairCancelled
<1>9. ASSUME ListRejected PROVE Seen!ListFails
  BY <1>0, <1>9, EmitSays DEF ListRejected, Seen!ListFails
<1>10. ASSUME ListBegins PROVE UNCHANGED Seen!vars
  BY <1>a, <1>10 DEF ListBegins
<1>11. ASSUME ListEnds PROVE Seen!Lists \/ Seen!ListFails
  BY <1>0, <1>11, EmitSays, NobodyWaits
     DEF ListEnds, SeenInv, HostInv, CacheInv, ClientInv, SessionExcluded, Seen!Lists,
     Seen!ListFails
<1> QED
  BY <1>1, <1>2, <1>3, <1>4, <1>5, <1>6, <1>7, <1>8, <1>9, <1>10, <1>11
     DEF JobStep, JobEnds, Seen!Next

(* A start that finds the event of the session before still due overtakes  *)
(* it, and is refused as long as the session's owner is there.             *)
LEMMA LaunchAsPromised ==
    ASSUME HostSafe, SeenInv
    PROVE  LaunchStep => [Seen!Next]_(Seen!vars)
<1> USE DEF Seen!vars, Seen!Quiet, Seen!launch
<1>0. SeenInv /\ SessionInv /\ ClientInv /\ HostInv
  BY DEF HostSafe
<1>1. ASSUME NEW a \in Apps, NEW q \in Games, StartChecks(a, q)
      PROVE  Seen!Launches \/ Seen!Overtakes
  <2>1. ~Starting /\ Starting' /\ request'.app = a
    BY <1>1 DEF StartChecks, Admitted, Starting
  <2>2. /\ Unanswered' <=> Unanswered
        /\ StartAnnounced' <=> StartAnnounced
        /\ app' = app
    BY <1>1 DEF StartChecks, Unanswered, StartAnnounced
  <2>3. CASE Unanswered
    BY <1>1, <2>1, <2>2, <2>3, SeenOf, SeenNext DEF StartChecks, Admitted, Seen!Overtakes
  <2>4. CASE ~Unanswered
    BY <1>1, <2>1, <2>2, <2>4, SeenOf, SeenNext DEF StartChecks, Admitted, Seen!Launches
  <2> QED BY <2>3, <2>4
<1>2. ASSUME StartMarks \/ StreamPageFails \/ StartReturns PROVE UNCHANGED Seen!vars
  <2>1. UNCHANGED <<owner, thread_running, app, events, callback_at, request>>
    BY <1>2, Zenon DEF StartMarks, StreamPageFails, StartReturns
  <2>2. Starting' <=> Starting
    BY <1>2 DEF StartMarks, StreamPageFails, StartReturns, Starting
  <2>3. UNCHANGED Seen!launch
    BY <2>1, <2>2, LaunchSeenKept DEF Unanswered, StartAnnounced
  <2> QED BY <1>2, <2>3 DEF StartMarks, StreamPageFails, StartReturns
<1>3. ASSUME StartReserves PROVE UNCHANGED Seen!vars
  <2>1. ~Unanswered /\ Starting /\ Unanswered' /\ ~Starting' /\ ~StartAnnounced'
    BY <1>3, << >> # <<"STARTED">> DEF StartReserves, Start, Unanswered, Starting, StartAnnounced
  <2>2. app' = request.app
    BY <1>3 DEF StartReserves, Start
  <2>3. UNCHANGED Seen!launch
    BY <2>1, <2>2, SeenOf, SeenNext
  <2> QED BY <1>3, <2>3 DEF StartReserves
<1>4. ASSUME StartRefused PROVE Seen!Refused
  <2>1. /\ Starting /\ ~Starting'
        /\ Unanswered' <=> Unanswered
        /\ StartAnnounced' <=> StartAnnounced
        /\ app' = app
    BY <1>4 DEF StartRefused, StartUndone, Starting, Unanswered, StartAnnounced
  <2>2. request.app \in Apps /\ request.app # NoApp
    BY <1>0, <1>4, AppsAssumption DEF StartRefused, ClientInv, RequestOK
  <2>3. CASE Unanswered
    BY <1>4, <2>1, <2>2, <2>3, SeenOf, SeenNext DEF StartRefused, StartUndone, Seen!Refused
  <2>4. CASE ~Unanswered
    BY <1>4, <2>1, <2>2, <2>4, SeenOf, SeenNext DEF StartRefused, StartUndone, Seen!Refused
  <2> QED BY <2>3, <2>4
<1>5. ASSUME control = "reserved", CreateOwnerFails, StartUndone PROVE Seen!Refused
  <2>1. Unanswered /\ ~Starting /\ ~StartAnnounced
    BY <1>0, <1>5, CallbackEvents, << >> # <<"STARTED">>
       DEF CreateOwnerFails, HostInv, LaunchInv, Unanswered, Starting, StartAnnounced
  <2>2. ~Unanswered' /\ ~Starting'
    BY <1>5 DEF CreateOwnerFails, StartUndone, Unanswered, Starting
  <2> QED
    BY <1>5, <2>1, <2>2, SeenOf, SeenNext DEF CreateOwnerFails, StartUndone, Seen!Refused
<1>6. ASSUME StartCreates, CreateOwner PROVE UNCHANGED Seen!vars
  <2>1. /\ Unanswered /\ Unanswered' /\ ~Starting /\ ~Starting'
        /\ ~StartAnnounced /\ ~StartAnnounced' /\ app' = app
    BY <1>0, <1>6, CallbackEvents, << >> # <<"STARTED">>
       DEF StartCreates, CreateOwner, CreateOwnerFails, StartUndone, HostInv, LaunchInv,
       Unanswered, Starting, StartAnnounced
  <2>2. UNCHANGED Seen!launch
    BY <2>1, SeenOf, SeenNext
  <2> QED BY <1>0, <1>6, <2>2, CallbackEvents DEF StartCreates, CreateOwner,
       CreateOwnerFails, StartUndone, HostInv, LaunchInv
<1> QED
  BY <1>1, <1>2, <1>3, <1>4, <1>5, <1>6 DEF LaunchStep, StartSteps, StartCreates, Seen!Next

LEMMA CallbackAsPromised ==
    ASSUME HostSafe, SeenInv
    PROVE  CallbackSteps => [Seen!Next]_(Seen!vars)
<1> USE DEF Seen!vars
<1>0. SeenInv /\ SessionInv /\ ClientInv /\ HostInv
  BY DEF HostSafe
<1>1. ASSUME StreamEventState PROVE UNCHANGED Seen!vars
  <2>1. /\ Unanswered' <=> Unanswered
        /\ StartAnnounced' <=> StartAnnounced
        /\ Starting' <=> Starting
        /\ UNCHANGED <<app, request>>
    BY <1>1 DEF StreamEventState, Unanswered, StartAnnounced, Starting
  <2>2. UNCHANGED Seen!launch
    BY <2>1, LaunchSeenKept
  <2> QED BY <1>1, <2>2 DEF StreamEventState, Seen!launch
<1>2. ASSUME StreamEventEmit PROVE Seen!Started \/ Seen!Ended
  <2>0. /\ callback_at = "emit" /\ callback_at' = "exit" /\ thread_running
        /\ Starting' <=> Starting
        /\ UNCHANGED <<owner, thread_running, app, events, request>>
    BY <1>0, <1>2, CallbackEvents DEF StreamEventEmit, InCallback, Starting
  <2>1. Unanswered
    BY <1>2, <2>0 DEF StreamEventEmit, InCallback, Unanswered
  <2>2. Seen!Says(EventType, stream_id)
    BY <1>2, EmitSays DEF StreamEventEmit
  <2>3. /\ control # "marked" => stream_id \in {app, NoApp}
        /\ Starting => stream_id \in {app, request.app, NoApp}
    BY <1>0, <2>0 DEF HostInv, StreamIdInv, NoForeignApplication, Starting
  <2>4. CASE owner = "announcing"
    <3>1. EventType = "STREAM_STARTED" /\ ~StartAnnounced
      BY <1>0, <2>0, <2>4, CallbackEvents, << >> # <<"STARTED">> DEF EventType, StartAnnounced
    <3>2. ~Starting
      BY <1>0, <2>0, <2>4 DEF HostInv, LaunchInv, Live, Starting
    <3>3. SessionSeen = "starting" /\ ApplicationSeen = app /\ OvertakerSeen = NoApp
      BY <2>1, <3>1, <3>2, SeenOf
    <3>4. Unanswered' /\ StartAnnounced' /\ ~Starting'
      BY <2>0, <2>4, <3>2 DEF Unanswered, StartAnnounced
    <3>5. SessionSeen' = "running" /\ ApplicationSeen' = app /\ OvertakerSeen' = NoApp
      BY <2>0, <3>4, SeenNext
    <3>6. stream_id \in {ApplicationSeen, NoApp}
      BY <2>3, <3>2, <3>3 DEF Starting
    <3> QED BY <1>2, <2>2, <3>1, <3>3, <3>5, <3>6 DEF StreamEventEmit, Seen!Started
  <2>5. CASE owner = "reporting"
    <3>1. ~Unanswered'
      BY <2>0, <2>5 DEF Unanswered
    <3>2. StartAnnounced <=> result = "ok"
      BY <1>0, <2>0, <2>5, CallbackEvents DEF StartAnnounced
    <3>3. /\ SessionSeen = IF result = "ok" THEN "running" ELSE "starting"
          /\ EventType = IF result = "ok" THEN "STREAM_STOPPED" ELSE "STREAM_FAILED"
      BY <2>1, <2>5, <3>2, SeenOf DEF EventType
    <3>4. CASE Starting
      <4>1. request.app \in Apps /\ request.app # NoApp
        BY <1>0, <3>4, AppsAssumption DEF ClientInv, RequestOK, Starting
      <4>2. ApplicationSeen = app /\ OvertakerSeen = request.app
        BY <2>1, <3>4, SeenOf
      <4>3. /\ SessionSeen' = "starting" /\ ApplicationSeen' = request.app
            /\ OvertakerSeen' = NoApp
        BY <2>0, <3>1, <3>4, SeenNext
      <4>4. stream_id \in {ApplicationSeen, OvertakerSeen, NoApp}
        BY <2>3, <3>4, <4>2
      <4> QED BY <1>2, <2>2, <3>3, <4>1, <4>2, <4>3, <4>4 DEF StreamEventEmit, Seen!Ended
    <3>5. CASE ~Starting
      <4>1. ApplicationSeen = app /\ OvertakerSeen = NoApp
        BY <2>1, <3>5, SeenOf
      <4>2. SessionSeen' = "none" /\ ApplicationSeen' = NoApp /\ OvertakerSeen' = NoApp
        BY <2>0, <3>1, <3>5, SeenNext
      <4>3. stream_id \in {ApplicationSeen, OvertakerSeen, NoApp}
        BY <2>3, <3>5, <4>1 DEF Starting
      <4> QED BY <1>2, <2>2, <3>3, <4>1, <4>2, <4>3 DEF StreamEventEmit, Seen!Ended
    <3> QED BY <3>4, <3>5
  <2> QED BY <1>2, <2>4, <2>5 DEF StreamEventEmit, InCallback
<1>3. ASSUME StreamEventReturns PROVE UNCHANGED Seen!vars
  <2>1. /\ callback_at = "exit" /\ callback_at' = "enter"
        /\ Starting' <=> Starting
        /\ UNCHANGED request
    BY <1>3 DEF StreamEventReturns, Starting
  <2>2. CASE AnnounceStarted
    <3>1. /\ owner = "announcing" /\ events' = <<"STARTED">> /\ app' = app
          /\ owner' \notin {"announcing", "clearing"} /\ thread_running' = thread_running
      BY <1>0, <2>2, CallbackEvents DEF AnnounceStarted
    <3>2. /\ Unanswered' <=> Unanswered
          /\ StartAnnounced' <=> StartAnnounced
      BY <2>1, <3>1 DEF Unanswered, StartAnnounced
    <3>3. UNCHANGED Seen!launch
      BY <2>1, <3>1, <3>2, LaunchSeenKept
    <3> QED BY <1>3, <3>3 DEF StreamEventReturns, Seen!launch
  <2>3. CASE Report
    <3>1. ~Unanswered /\ ~Unanswered'
      BY <2>1, <2>3 DEF Report, Unanswered
    <3>2. UNCHANGED Seen!launch
      BY <2>1, <3>1, LaunchSeenKept
    <3> QED BY <1>3, <3>2 DEF StreamEventReturns, Seen!launch
  <2> QED BY <1>3, <2>2, <2>3 DEF StreamEventReturns
<1> QED BY <1>1, <1>2, <1>3 DEF CallbackSteps, Seen!Next

LEMMA CleanupAsPromised ==
    ASSUME HostSafe, SeenInv
    PROVE  CleanupStep => [Seen!Next]_(Seen!vars)
<1> SUFFICES ASSUME CleanupStep PROVE [Seen!Next]_(Seen!vars)
  OBVIOUS
<1> USE DEF Seen!vars, Seen!Quiet
<1>0. SeenInv /\ ClientInv /\ HostInv /\ UNCHANGED Seen!launch
  BY LaunchLeftAlone DEF HostSafe
<1>a. UNCHANGED <<SessionSeen, ApplicationSeen, OvertakerSeen>>
  BY <1>0 DEF Seen!launch
<1>1. ASSUME Disconnect PROVE [Seen!Leaves]_(Seen!vars)
  BY <1>0, <1>a, <1>1 DEF Disconnect, Seen!Leaves
<1>2. ASSUME CleanupLocks PROVE UNCHANGED Seen!vars
  BY <1>a, <1>2 DEF CleanupLocks
<1>3. ASSUME CleanupClears PROVE UNCHANGED Seen!vars
  BY <1>0, <1>a, <1>3 DEF CleanupClears, SeenInv, HostInv, CacheInv
<1>4. ASSUME CleanupPublishes PROVE Seen!Closes
  BY <1>0, <1>4, EmitSays, NobodyWaits
     DEF CleanupPublishes, HostInv, CacheInv, ClosedInv, ClientInv, SessionExcluded,
     Seen!Closes
<1>5. ASSUME ShutdownBegins PROVE Seen!StopsListening
  BY <1>0, <1>5 DEF ShutdownBegins, Seen!StopsListening
<1>6. ASSUME ShutdownLocks PROVE UNCHANGED Seen!vars
  BY <1>a, <1>6 DEF ShutdownLocks
<1>7. ASSUME ShutdownFinishes PROVE Seen!ShutsDown
  BY <1>0, <1>7, NobodyWaits
     DEF ShutdownFinishes, SeenInv, HostInv, CacheInv, ClosedInv, Seen!ShutsDown
<1> QED
  BY <1>1, <1>2, <1>3, <1>4, <1>5, <1>6, <1>7 DEF CleanupStep, CleanupSteps, Seen!Next

LEMMA AsideAsPromised ==
    ASSUME HostSafe, SeenInv, Aside, UNCHANGED hostVars
    PROVE  UNCHANGED Seen!vars
<1>1. /\ UNCHANGED <<app, events>>
      /\ \/ UNCHANGED <<owner, thread_running>>
         \/ callback_at = "enter" /\ (Released \/ Moved)
  BY AsideMoves
<1>2. /\ Unanswered' <=> Unanswered
      /\ StartAnnounced' <=> StartAnnounced
      /\ Starting' <=> Starting
  BY <1>1 DEF Unanswered, StartAnnounced, Starting, Released, Moved
<1>3. UNCHANGED Seen!launch
  BY <1>1, <1>2, LaunchSeenKept
<1> QED BY <1>3 DEF Seen!vars, Seen!launch

(* The events reach the frontend in the order HostEvents allows, whichever *)
(* thread publishes them and whatever the others are between, a launch     *)
(* that is asked for before the last event of the one before included.     *)
THEOREM HostSpeaksAsPromised == HostSpec => EventsAsPromised
<1>1. HostInit => Seen!Init
  BY DEF HostInit, Init, SessionSeen, ApplicationSeen, OvertakerSeen, Unanswered,
     Starting, Seen!Init
<1>2. HostInit => SeenInv
  BY DEF HostInit, Init, SeenInv
<1>3. HostSafe /\ SeenInv /\ [HostNext]_allVars => SeenInv'
  BY SeenInvStep
<1>4. HostSafe /\ SeenInv /\ [HostNext]_allVars => [Seen!Next]_(Seen!vars)
  BY StepGroups, JobsAsPromised, LaunchAsPromised, CallbackAsPromised, CleanupAsPromised,
     AsideAsPromised
<1>5. HostSpec => []HostSafe
  <2>1. HostInit => ClientInv
    BY DEF HostInit, Init, ClientInv, ClientOutlivesSession, RequestOK, ClientKept,
           SessionExcluded
  <2>2. HostSpec => []SessionInv
    BY HostRunsSessions, SessionSafe, PTL DEF SessionsAsSpecified
  <2>3. HostSpec => []ClientInv
    BY <2>1, ClientInvStep, PTL DEF HostSpec
  <2>4. SessionInv /\ ClientInv /\ HostInv => HostSafe
    BY DEF HostSafe
  <2> QED BY <2>2, <2>3, <2>4, HostInvHolds, PTL
<1> QED
  BY <1>1, <1>2, <1>3, <1>4, <1>5, PTL DEF HostSpec, EventsAsPromised, Seen!Spec
=============================================================================
