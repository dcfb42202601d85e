----------------------- MODULE MainBackgroundProofs -----------------------
(***************************************************************************)
(* The main page's background networking gives way: proofs about           *)
(* MainBackground for every set of PCs, addresses and names.               *)
(*                                                                         *)
(* BackgroundInv is inductive together with the invariant of the scans     *)
(* (ScanInv of HostAvailabilityProofs): a connect job trusts the barrier   *)
(* alone to have drained the queue.                                        *)
(***************************************************************************)
EXTENDS MainBackground, HostAvailabilityProofs, WellFoundedInduction

(* Every step below the page is a step of the scans and a step of the      *)
(* search, or leaves them alone.                                           *)
LEMMA StepsOfScans == ~closing /\ [Next]_vars => [AvailabilityNext]_availability
  <1> SUFFICES ASSUME ~closing, [Next]_vars PROVE [AvailabilityNext]_availability
    OBVIOUS
  <1> USE DEF vars, AvailabilityNext
  <1>1. CASE Handlers
    <2>1. availability' = availability \/ StopAvailability \/ CancelScan
      BY <1>1, Zenon DEF Handlers, OpenAddPc, SelectHost, BeginConnect, ConnectFails, RetryIme,
         ImeWithoutAddress, ImeWithAddress, OpenOptionMenu, ConnectionClosed,
         SuspendForSystemSettings, SettingsClosed, EnterSelectionMode, ExitSelectionMode,
         StartDeleteConfirmation, DeleteAnswered, InitialRefreshTask, OtherOperation,
         OtherPageCloses, ErrorDismissed, SuspendBackground
    <2> QED BY <2>1
  <1>2. CASE BackgroundTask
    BY <1>2, Zenon DEF BackgroundTask, SuspendBackground
  <1>3. CASE AvailabilityTask
    BY <1>3, Zenon DEF AvailabilityTask
  <1>4. CASE PollServices
    BY <1>4, Zenon DEF PollServices
  <1>5. CASE ConnectCompletes \/ JobStep \/ SearchThread \/ MdnsAnswers \/ ScanWorker \/ Clock
    BY <1>5, Zenon DEF ConnectCompletes, JobStep, SearchIsIdle, ProbesAreDrained, JobDone,
       SearchThread, MdnsAnswers, ScanWorker, Clock
  <1>6. CASE UNCHANGED vars
    BY <1>6
  <1> QED BY <1>1, <1>2, <1>3, <1>4, <1>5, <1>6 DEF Next, Tasks

LEMMA StepsOfSearch == [Next]_vars => [DiscoveryNext]_discovery
  <1> SUFFICES ASSUME [Next]_vars PROVE [DiscoveryNext]_discovery
    OBVIOUS
  <1> USE DEF vars, DiscoveryNext
  <1>1. CASE Handlers
    <2>1. discovery' = discovery \/ Stop \/ StopSearch
      BY <1>1, Zenon DEF Handlers, OpenAddPc, SelectHost, BeginConnect, ConnectFails, RetryIme,
         ImeWithoutAddress, ImeWithAddress, OpenOptionMenu, ConnectionClosed,
         SuspendForSystemSettings, SettingsClosed, EnterSelectionMode, ExitSelectionMode,
         StartDeleteConfirmation, DeleteAnswered, InitialRefreshTask, OtherOperation,
         OtherPageCloses, ErrorDismissed, SuspendBackground
    <2> QED BY <2>1
  <1>2. CASE BackgroundTask
    BY <1>2, Zenon DEF BackgroundTask, SuspendBackground, Lease
  <1>3. CASE AvailabilityTask
    BY <1>3, Zenon DEF AvailabilityTask
  <1>4. CASE PollServices
    BY <1>4, Zenon DEF PollServices
  <1>5. CASE ConnectCompletes \/ JobStep \/ SearchThread \/ MdnsAnswers \/ ScanWorker \/ Clock
    BY <1>5, Zenon DEF ConnectCompletes, JobStep, SearchIsIdle, ProbesAreDrained, JobDone,
       SearchThread, MdnsAnswers, ScanWorker, Clock
  <1>6. CASE UNCHANGED vars
    BY <1>6
  <1> QED BY <1>1, <1>2, <1>3, <1>4, <1>5, <1>6 DEF Next, Tasks

-----------------------------------------------------------------------------
(* Invariants of the search and of the page alone.                         *)
LEMMA SearchInvStep == SearchInv /\ [DiscoveryNext]_discovery => SearchInv'
  <1> SUFFICES ASSUME SearchInv, [DiscoveryNext]_discovery PROVE SearchInv'
    OBVIOUS
  <1> USE DEF SearchInv, Searching, discovery, shared, local, service
  <1>1. CASE Start
    BY <1>1 DEF Start, Broadcast
  <1>2. CASE StartFails \/ Stop \/ StopSearch \/ Poll \/ JoinSearch \/ LeaseExpires
    BY <1>2 DEF StartFails, Stop, StopSearch, Poll, JoinSearch, LeaseExpires
  <1>3. CASE ShutdownSearch
    BY <1>3 DEF ShutdownSearch, Broadcast
  <1>4. CASE Check \/ OpenSniffer \/ Sample \/ Decide
    BY <1>4 DEF Check, OpenSniffer, Sample, Decide
  <1>5. CASE Query \/ PollSniffer
    BY <1>5 DEF Query, PollSniffer
  <1>6. CASE Age
    BY <1>6 DEF Age
  <1>7. CASE CloseSniffer \/ GoIdle
    BY <1>7 DEF CloseSniffer, GoIdle
  <1>8. CASE Sightings
    <2>1. UNCHANGED <<enabled, generation, active, pc, socket>>
      BY <1>8, Zenon DEF Sightings, Sighting
    <2> QED BY <2>1
  <1>9. CASE UNCHANGED discovery
    BY <1>9
  <1> QED BY <1>1, <1>2, <1>3, <1>4, <1>5, <1>6, <1>7, <1>8, <1>9 DEF DiscoveryNext, ThreadStep

-----------------------------------------------------------------------------
(* A search that is idle and withdrawn stays so under its own thread, and  *)
(* a drained queue stays empty under the worker.                           *)
LEMMA ActiveMoves ==
    ASSUME [DiscoveryNext]_discovery, ~enabled, active = 0 PROVE active' = 0
  <1>1. CASE Start \/ StartFails \/ Stop \/ StopSearch \/ Poll \/ ShutdownSearch \/ JoinSearch \/ LeaseExpires
    BY <1>1, Zenon DEF Start, StartFails, Stop, StopSearch, Poll, ShutdownSearch,
                       JoinSearch, LeaseExpires, discovery, shared
  <1>2. CASE Check
    BY <1>2 DEF Check
  <1>3. CASE OpenSniffer \/ Sample \/ Decide \/ Query \/ PollSniffer \/ Age \/ CloseSniffer \/ GoIdle
    BY <1>3, Zenon DEF OpenSniffer, Sample, Decide, Query, PollSniffer, Age, CloseSniffer,
                       GoIdle, shared
  <1>4. CASE Sightings \/ UNCHANGED discovery
    BY <1>4, Zenon DEF Sightings, Sighting, discovery, shared
  <1> QED BY <1>1, <1>2, <1>3, <1>4 DEF DiscoveryNext, ThreadStep

LEMMA ThreadKeepsLease ==
    SearchThread \/ MdnsAnswers \/ Clock => enabled' = enabled
  <1>1. ThreadStep => enabled' = enabled
    BY Zenon DEF ThreadStep, Check, OpenSniffer, Sample, Decide, Query, PollSniffer, Age,
                 CloseSniffer, GoIdle, shared
  <1>2. Sightings => enabled' = enabled
    BY Zenon DEF Sightings, Sighting
  <1>3. LeaseExpires => enabled' = enabled
    BY Zenon DEF LeaseExpires
  <1>4. UNCHANGED discovery => enabled' = enabled
    BY Zenon DEF discovery, shared
  <1> QED BY <1>1, <1>2, <1>3, <1>4 DEF SearchThread, MdnsAnswers, Clock

LEMMA WorkerDrains ==
    ASSUME queue = << >>, probe = "none",
           WorkerStep \/ TimePasses \/ StopAvailability \/ CancelScan \/ PollAvailability
             \/ UNCHANGED availability
    PROVE  queue' = << >> /\ probe' = "none"
  <1>1. ~WorkerStep
    BY DEF WorkerStep, BeginProbe, ProbeReturns, StoreResult, FinishScan, Outcomes
  <1> QED BY <1>1, Zenon DEF TimePasses, StopAvailability, CancelScan, PollAvailability,
                             availability

LEMMA BarrierKept ==
    ASSUME WorkerStep \/ TimePasses \/ StopAvailability \/ CancelScan \/ PollAvailability
             \/ UNCHANGED availability
    PROVE  m_barrier' = m_barrier
  BY Zenon DEF WorkerStep, BeginProbe, ProbeReturns, StoreResult, FinishScan,
     TimePasses, StopAvailability, CancelScan, PollAvailability, availability

LEMMA PageInvStep == PageInv /\ [Next]_vars => PageInv'
  <1> SUFFICES ASSUME PageInv, [Next]_vars PROVE PageInv'
    OBVIOUS
  <1> USE DEF PageInv, page, flags, dialogs, worker, TakesInput
  <1>0. ~closing'
    <2>1. CASE Handlers
      BY <2>1, Zenon DEF Handlers, OpenAddPc, SelectHost, BeginConnect, ConnectFails, RetryIme,
         ImeWithoutAddress, ImeWithAddress, OpenOptionMenu, ConnectionClosed,
         SuspendForSystemSettings, SettingsClosed, EnterSelectionMode, ExitSelectionMode,
         StartDeleteConfirmation, DeleteAnswered, InitialRefreshTask, OtherOperation,
         OtherPageCloses, ErrorDismissed, SuspendBackground, StopAvailability, CancelScan,
         availability
    <2>2. CASE BackgroundTask
      BY <2>2, Zenon DEF BackgroundTask, SuspendBackground, StopAvailability, CancelScan,
                         availability
    <2>3. CASE AvailabilityTask
      BY <2>3, Zenon DEF AvailabilityTask, CheckAvailability, NewScan, StopAvailability,
                         CancelScan, availability
    <2>4. CASE ConnectCompletes \/ JobStep \/ SearchThread \/ MdnsAnswers \/ UNCHANGED vars
      BY <2>4, Zenon DEF ConnectCompletes, JobStep, SearchIsIdle, ProbesAreDrained, JobDone,
         SearchThread, MdnsAnswers, vars, availability
    <2>5. CASE PollServices \/ ScanWorker \/ Clock
      BY <2>5, Zenon DEF PollServices, PollAvailability, ScanWorker, WorkerStep, BeginProbe,
         ProbeReturns, StoreResult, FinishScan, Clock, TimePasses, availability
    <2> QED BY <2>1, <2>2, <2>3, <2>4, <2>5 DEF Next, Tasks
  <1>1. CASE OpenAddPc
    BY <1>0, <1>1 DEF OpenAddPc, StartIme, MayAddPc
  <1>2. CASE SelectHost
    BY <1>0, <1>2 DEF SelectHost, BeginConnect, ConnectFails
  <1>3. CASE RetryIme
    BY <1>0, <1>3 DEF RetryIme, StartIme
  <1>4. CASE ImeWithoutAddress
    BY <1>0, <1>4 DEF ImeWithoutAddress
  <1>5. CASE ImeWithAddress
    BY <1>0, <1>5 DEF ImeWithAddress, BeginConnect, ConnectFails
  <1>6. CASE OpenOptionMenu
    BY <1>0, <1>6 DEF OpenOptionMenu
  <1>7. CASE ConnectionClosed
    BY <1>0, <1>7 DEF ConnectionClosed
  <1>8. CASE SuspendForSystemSettings
    BY <1>0, <1>8 DEF SuspendForSystemSettings
  <1>9. CASE SettingsClosed
    BY <1>0, <1>9 DEF SettingsClosed
  <1>10. CASE EnterSelectionMode
    BY <1>0, <1>10 DEF EnterSelectionMode
  <1>11. CASE ExitSelectionMode
    BY <1>0, <1>11 DEF ExitSelectionMode
  <1>12. CASE StartDeleteConfirmation
    BY <1>0, <1>12 DEF StartDeleteConfirmation
  <1>13. CASE DeleteAnswered
    BY <1>0, <1>13 DEF DeleteAnswered
  <1>14. CASE InitialRefreshTask
    BY <1>0, <1>14 DEF InitialRefreshTask
  <1>15. CASE OtherOperation
    BY <1>0, <1>15 DEF OtherOperation
  <1>16. CASE OtherPageCloses
    BY <1>0, <1>16 DEF OtherPageCloses
  <1>17. CASE ErrorDismissed
    BY <1>0, <1>17 DEF ErrorDismissed
  <1>18. CASE BackgroundTask
    BY <1>0, <1>18 DEF BackgroundTask, RunPending, StartIme, MayAddPc
  <1>19. CASE AvailabilityTask
    BY <1>0, <1>19 DEF AvailabilityTask
  <1>20. CASE PollServices
    BY <1>0, <1>20 DEF PollServices
  <1>21. CASE ConnectCompletes
    BY <1>0, <1>21 DEF ConnectCompletes
  <1>22. CASE SearchIsIdle
    BY <1>0, <1>22 DEF SearchIsIdle
  <1>23. CASE ProbesAreDrained
    BY <1>0, <1>23 DEF ProbesAreDrained
  <1>24. CASE JobDone
    BY <1>0, <1>24 DEF JobDone
  <1>25. CASE SearchThread \/ MdnsAnswers \/ ScanWorker \/ Clock \/ UNCHANGED vars
    BY <1>0, <1>25 DEF SearchThread, MdnsAnswers, ScanWorker, Clock, vars
  <1> QED BY <1>0, <1>1, <1>2, <1>3, <1>4, <1>5, <1>6, <1>7, <1>8, <1>9, <1>10, <1>11,
             <1>12, <1>13, <1>14, <1>15, <1>16, <1>17, <1>18, <1>19, <1>20, <1>21, <1>22,
             <1>23, <1>24, <1>25 DEF Next, Handlers, Tasks, JobStep

-----------------------------------------------------------------------------
(* QuietInv, one part after the other: the lease is asked for again only   *)
(* by a page that may search.                                              *)
LEMMA WithdrawnStep == PageInv /\ PageInv' /\ LeaseWithdrawn /\ [Next]_vars => LeaseWithdrawn'
  <1> SUFFICES ASSUME PageInv, PageInv', LeaseWithdrawn, [Next]_vars PROVE LeaseWithdrawn'
    OBVIOUS
  <1> USE DEF LeaseWithdrawn, page, flags, dialogs, worker, TakesInput
  <1>0. /\ Stop \/ StopSearch => enabled' = FALSE
        /\ Poll \/ UNCHANGED discovery => enabled' = enabled
    BY Zenon DEF Stop, StopSearch, Poll, discovery, shared
  <1>1. CASE OpenAddPc
    BY <1>0, <1>1 DEF OpenAddPc, StartIme, MayAddPc, SuspendBackground, SearchIdle
  <1>2. CASE SelectHost
    BY <1>0, <1>2 DEF SelectHost, BeginConnect, ConnectFails
  <1>3. CASE RetryIme
    BY <1>0, <1>3 DEF RetryIme, StartIme
  <1>4. CASE ImeWithoutAddress
    BY <1>0, <1>4 DEF ImeWithoutAddress
  <1>5. CASE ImeWithAddress
    BY <1>0, <1>5 DEF ImeWithAddress, BeginConnect, ConnectFails
  <1>6. CASE OpenOptionMenu
    BY <1>0, <1>6 DEF OpenOptionMenu, SuspendBackground
  <1>7. CASE ConnectionClosed
    BY <1>0, <1>7 DEF ConnectionClosed
  <1>8. CASE SuspendForSystemSettings
    BY <1>0, <1>8 DEF SuspendForSystemSettings, SuspendBackground
  <1>9. CASE SettingsClosed
    BY <1>0, <1>9 DEF SettingsClosed
  <1>10. CASE EnterSelectionMode
    BY <1>0, <1>10 DEF EnterSelectionMode, SuspendBackground
  <1>11. CASE ExitSelectionMode
    BY <1>0, <1>11 DEF ExitSelectionMode
  <1>12. CASE StartDeleteConfirmation
    BY <1>0, <1>12 DEF StartDeleteConfirmation
  <1>13. CASE DeleteAnswered
    BY <1>0, <1>13 DEF DeleteAnswered
  <1>14. CASE InitialRefreshTask
    BY <1>0, <1>14 DEF InitialRefreshTask
  <1>15. CASE OtherOperation
    BY <1>0, <1>15 DEF OtherOperation, StopSearch
  <1>16. CASE OtherPageCloses
    BY <1>0, <1>16 DEF OtherPageCloses
  <1>17. CASE ErrorDismissed
    BY <1>0, <1>17 DEF ErrorDismissed
  <1>18. CASE BackgroundTask
    <2>1. CASE CanDiscover'
      BY <2>1 DEF PageInv, CanDiscover
    <2>2. CASE ~CanDiscover'
      BY <1>0, <1>18, <2>2, Zenon DEF BackgroundTask, SuspendBackground
    <2> QED BY <2>1, <2>2
  <1>19. CASE AvailabilityTask
    BY <1>0, <1>19 DEF AvailabilityTask
  <1>20. CASE PollServices
    BY <1>0, <1>20 DEF PollServices
  <1>21. CASE ConnectCompletes
    BY <1>0, <1>21 DEF ConnectCompletes
  <1>22. CASE SearchIsIdle
    BY <1>0, <1>22 DEF SearchIsIdle, SearchIdle
  <1>23. CASE ProbesAreDrained
    BY <1>0, <1>23 DEF ProbesAreDrained
  <1>24. CASE JobDone
    BY <1>0, <1>24 DEF JobDone
  <1>25. CASE SearchThread \/ MdnsAnswers \/ Clock
    BY <1>25, ThreadKeepsLease DEF SearchThread, MdnsAnswers, Clock
  <1>26. CASE ScanWorker \/ UNCHANGED vars
    BY <1>0, <1>26 DEF ScanWorker, vars
  <1> QED BY <1>0, <1>1, <1>2, <1>3, <1>4, <1>5, <1>6, <1>7, <1>8, <1>9, <1>10, <1>11,
             <1>12, <1>13, <1>14, <1>15, <1>16, <1>17, <1>18, <1>19, <1>20, <1>21, <1>22,
             <1>23, <1>24, <1>25, <1>26 DEF Next, Handlers, Tasks, JobStep

(* Only the thread takes a search up, and only a leased one.               *)
LEMMA EndedStep ==
    PageInv /\ PageInv' /\ LeaseWithdrawn /\ SearchEnded /\ [Next]_vars => SearchEnded'
  <1> SUFFICES ASSUME PageInv, PageInv', LeaseWithdrawn, SearchEnded,
                      [Next]_vars PROVE SearchEnded'
    OBVIOUS
  <1> USE DEF SearchEnded, page, flags, dialogs, worker, TakesInput
  <1>0. /\ Stop \/ StopSearch \/ Poll \/ UNCHANGED discovery => active' = active
    BY Zenon DEF Stop, StopSearch, Poll, discovery, shared
  <1>1. CASE OpenAddPc
    BY <1>0, <1>1 DEF OpenAddPc, StartIme, MayAddPc, SuspendBackground, SearchIdle
  <1>2. CASE SelectHost
    BY <1>0, <1>2 DEF SelectHost, BeginConnect, ConnectFails
  <1>3. CASE RetryIme
    BY <1>0, <1>3 DEF RetryIme, StartIme
  <1>4. CASE ImeWithoutAddress
    BY <1>0, <1>4 DEF ImeWithoutAddress
  <1>5. CASE ImeWithAddress
    BY <1>0, <1>5 DEF ImeWithAddress, BeginConnect, ConnectFails
  <1>6. CASE OpenOptionMenu
    BY <1>0, <1>6 DEF OpenOptionMenu, SuspendBackground
  <1>7. CASE ConnectionClosed
    BY <1>0, <1>7 DEF ConnectionClosed
  <1>8. CASE SuspendForSystemSettings
    BY <1>0, <1>8 DEF SuspendForSystemSettings, SuspendBackground
  <1>9. CASE SettingsClosed
    BY <1>0, <1>9 DEF SettingsClosed
  <1>10. CASE EnterSelectionMode
    BY <1>0, <1>10 DEF EnterSelectionMode, SuspendBackground
  <1>11. CASE ExitSelectionMode
    BY <1>0, <1>11 DEF ExitSelectionMode
  <1>12. CASE StartDeleteConfirmation
    BY <1>0, <1>12 DEF StartDeleteConfirmation
  <1>13. CASE DeleteAnswered
    BY <1>0, <1>13 DEF DeleteAnswered
  <1>14. CASE InitialRefreshTask
    BY <1>0, <1>14 DEF InitialRefreshTask
  <1>15. CASE OtherOperation
    BY <1>0, <1>15 DEF OtherOperation, StopSearch
  <1>16. CASE OtherPageCloses
    BY <1>0, <1>16 DEF OtherPageCloses
  <1>17. CASE ErrorDismissed
    BY <1>0, <1>17 DEF ErrorDismissed
  <1>18. CASE BackgroundTask
    <2>1. CASE CanDiscover'
      BY <1>18, <2>1 DEF BackgroundTask, PageInv, CanDiscover
    <2>2. CASE ~CanDiscover'
      <3>1. active' = active
        BY <1>0, <1>18, <2>2, Zenon DEF BackgroundTask, SuspendBackground
      <3> QED BY <1>18, <3>1 DEF BackgroundTask, RunPending, StartIme, SearchIdle
    <2> QED BY <2>1, <2>2
  <1>19. CASE AvailabilityTask
    BY <1>0, <1>19 DEF AvailabilityTask
  <1>20. CASE PollServices
    BY <1>0, <1>20 DEF PollServices
  <1>21. CASE ConnectCompletes
    BY <1>0, <1>21 DEF ConnectCompletes
  <1>22. CASE SearchIsIdle
    BY <1>0, <1>22 DEF SearchIsIdle, SearchIdle
  <1>23. CASE ProbesAreDrained
    BY <1>0, <1>23 DEF ProbesAreDrained
  <1>24. CASE JobDone
    BY <1>0, <1>24 DEF JobDone
  <1>25. CASE SearchThread \/ MdnsAnswers \/ Clock
    <2>1. UNCHANGED <<page, worker>>
      BY <1>25 DEF SearchThread, MdnsAnswers, Clock
    <2>2. CASE ~enabled /\ active = 0
      BY <2>1, <2>2, ActiveMoves, StepsOfSearch
    <2>3. CASE ~(~enabled /\ active = 0)
      BY <2>1, <2>3 DEF LeaseWithdrawn
    <2> QED BY <2>2, <2>3
  <1>26. CASE ScanWorker \/ UNCHANGED vars
    BY <1>0, <1>26 DEF ScanWorker, vars
  <1> QED BY <1>0, <1>1, <1>2, <1>3, <1>4, <1>5, <1>6, <1>7, <1>8, <1>9, <1>10, <1>11,
             <1>12, <1>13, <1>14, <1>15, <1>16, <1>17, <1>18, <1>19, <1>20, <1>21, <1>22,
             <1>23, <1>24, <1>25, <1>26 DEF Next, Handlers, Tasks, JobStep

(* Every step but the availability task leaves the barrier alone and an    *)
(* empty queue empty.                                                      *)
ScansOnly == WorkerStep \/ TimePasses \/ StopAvailability \/ CancelScan \/ PollAvailability
             \/ UNCHANGED availability

LEMMA NoNewScan == [Next]_vars => AvailabilityTask \/ ScansOnly
  <1> SUFFICES ASSUME [Next]_vars, ~AvailabilityTask PROVE ScansOnly
    OBVIOUS
  <1> USE DEF vars, ScansOnly
  <1>1. CASE Handlers
    BY <1>1, Zenon DEF Handlers, OpenAddPc, SelectHost, BeginConnect, ConnectFails, RetryIme,
       ImeWithoutAddress, ImeWithAddress, OpenOptionMenu, ConnectionClosed,
       SuspendForSystemSettings, SettingsClosed, EnterSelectionMode, ExitSelectionMode,
       StartDeleteConfirmation, DeleteAnswered, InitialRefreshTask, OtherOperation,
       OtherPageCloses, ErrorDismissed, SuspendBackground
  <1>2. CASE BackgroundTask \/ PollServices
    BY <1>2, Zenon DEF BackgroundTask, SuspendBackground, PollServices
  <1>3. CASE ConnectCompletes \/ JobStep \/ SearchThread \/ MdnsAnswers \/ ScanWorker \/ Clock
    BY <1>3, Zenon DEF ConnectCompletes, JobStep, SearchIsIdle, ProbesAreDrained, JobDone,
       SearchThread, MdnsAnswers, ScanWorker, Clock
  <1>4. CASE UNCHANGED vars
    BY <1>4
  <1> QED BY <1>1, <1>2, <1>3, <1>4 DEF Next, Tasks

(* What changes the job's stage or opens another page.                     *)
LEMMA WorkerMoves ==
    ASSUME [Next]_vars
    PROVE  \/ UNCHANGED worker /\ (current' = "other" => current = "other")
           \/ BeginConnect /\ current' = current
           \/ SearchIsIdle \/ ProbesAreDrained \/ JobDone \/ ConnectCompletes
  <1> USE DEF vars, page, worker
  <1>1. CASE Handlers
    BY <1>1 DEF Handlers, OpenAddPc, SelectHost, ConnectFails, RetryIme,
       ImeWithoutAddress, ImeWithAddress, OpenOptionMenu, ConnectionClosed,
       SuspendForSystemSettings, SettingsClosed, EnterSelectionMode, ExitSelectionMode,
       StartDeleteConfirmation, DeleteAnswered, InitialRefreshTask, OtherOperation,
       OtherPageCloses, ErrorDismissed
  <1>2. CASE BackgroundTask \/ AvailabilityTask \/ PollServices
    BY <1>2 DEF BackgroundTask, AvailabilityTask, PollServices
  <1>3. CASE SearchThread \/ MdnsAnswers \/ ScanWorker \/ Clock \/ UNCHANGED vars
    BY <1>3 DEF SearchThread, MdnsAnswers, ScanWorker, Clock
  <1> QED BY <1>1, <1>2, <1>3 DEF Next, Tasks, JobStep

(* A scan is queued by an idle page only, so the barrier a job remembers   *)
(* is the newest one until the job has waited for it.                      *)
LEMMA RememberedStep == PageInv /\ BarrierRemembered /\ [Next]_vars => BarrierRemembered'
  <1> SUFFICES ASSUME PageInv, BarrierRemembered, [Next]_vars PROVE BarrierRemembered'
    OBVIOUS
  <1> USE DEF BarrierRemembered
  <1>1. CASE AvailabilityTask
    <2>1. UNCHANGED worker
      BY <1>1 DEF AvailabilityTask
    <2>2. CASE UNCHANGED availability
      BY <2>1, <2>2 DEF worker, availability
    <2>3. CASE StopAvailability
      BY <2>1, <2>3, BarrierKept DEF worker
    <2>4. CASE busy = "no"
      BY <2>1, <2>4 DEF PageInv, worker
    <2> QED BY <1>1, <2>2, <2>3, <2>4 DEF AvailabilityTask
  <1>2. CASE ScansOnly
    <2>1. m_barrier' = m_barrier
      BY <1>2, BarrierKept DEF ScansOnly
    <2> QED BY <2>1, WorkerMoves DEF worker, BeginConnect, SearchIsIdle, ProbesAreDrained,
              JobDone, ConnectCompletes
  <1> QED BY <1>1, <1>2, NoNewScan

LEMMA EmptyStep ==
    PageInv /\ ScanInv /\ BarrierRemembered /\ QueueEmpty /\ [Next]_vars => QueueEmpty'
  <1> SUFFICES ASSUME PageInv, ScanInv, BarrierRemembered, QueueEmpty,
                      [Next]_vars PROVE QueueEmpty'
    OBVIOUS
  <1> USE DEF QueueEmpty
  <1>1. CASE AvailabilityTask
    <2>1. UNCHANGED <<page, worker>>
      BY <1>1 DEF AvailabilityTask
    <2>2. CASE StopAvailability
      BY <2>1, <2>2, WorkerDrains DEF worker, page
    <2>3. CASE busy = "no" /\ current = "main"
      BY <2>1, <2>3 DEF PageInv, worker, page
    <2> QED BY <1>1, <2>2, <2>3 DEF AvailabilityTask
  <1>2. CASE ScansOnly
    <2>1. queue = << >> /\ probe = "none" => queue' = << >> /\ probe' = "none"
      BY <1>2, WorkerDrains DEF ScansOnly
    <2>2. CASE ProbesAreDrained
      <3>1. Drained(m_barrier) /\ UNCHANGED availability
        BY <2>2 DEF ProbesAreDrained, BarrierRemembered
      <3>2. queue = << >> /\ probe = "none"
        BY <3>1, BarrierCovers DEF BarrierCoversQueue, ScanInv, RestInv
      <3> QED BY <2>1, <3>2
    <2> QED BY <2>1, <2>2, WorkerMoves DEF worker, BeginConnect, SearchIsIdle, JobDone,
              ConnectCompletes, page
  <1> QED BY <1>1, <1>2, NoNewScan

LEMMA BackgroundInit == Init => ScanInv /\ BackgroundInv
  BY ScanInit DEF Init, DiscoveryInit, AvailabilityInit, BackgroundInv, SearchInv, Searching,
     PageInv, QuietInv, LeaseWithdrawn, SearchEnded, BarrierRemembered, QueueEmpty

LEMMA BackgroundStep == ScanInv /\ BackgroundInv /\ [Next]_vars => (ScanInv /\ BackgroundInv)'
  <1> SUFFICES ASSUME ScanInv, BackgroundInv, [Next]_vars PROVE (ScanInv /\ BackgroundInv)'
    OBVIOUS
  <1>1. SearchInv /\ PageInv /\ LeaseWithdrawn /\ SearchEnded /\ BarrierRemembered /\ QueueEmpty
    BY DEF BackgroundInv, QuietInv
  <1>2. SearchInv'
    BY <1>1, StepsOfSearch, SearchInvStep
  <1>3. PageInv'
    BY <1>1, PageInvStep
  <1>4. ScanInv'
    BY <1>1, StepsOfScans, ScanStep DEF PageInv
  <1>5. LeaseWithdrawn' /\ SearchEnded' /\ BarrierRemembered' /\ QueueEmpty'
    BY <1>1, <1>3, WithdrawnStep, EndedStep, RememberedStep, EmptyStep
  <1> QED BY <1>2, <1>3, <1>4, <1>5
          DEF BackgroundInv, QuietInv

LEMMA BackgroundInvHolds == Spec => [](ScanInv /\ BackgroundInv)
  BY BackgroundInit, BackgroundStep, PTL DEF Spec

(* ConnectHost, and every operation of a page over the main page, has the  *)
(* network to itself: for every list of PCs, every number of scans and     *)
(* searches and every interleaving of the page with the search thread, the *)
(* scan worker and the connect job.                                        *)
THEOREM NetworkStaysQuiet == Spec => []NetworkQuiet
  <1>1. BackgroundInv => NetworkQuiet
    BY DEF BackgroundInv, SearchInv, QuietInv, SearchEnded, QueueEmpty, NetworkQuiet
  <1> QED BY <1>1, BackgroundInvHolds, PTL

(* SuspendBackground and m_pending_action keep the system's keyboard and   *)
(* settings closed until the search thread has given its socket up.        *)
THEOREM DialogsWait == Spec => []DialogsOverIdleSearch
  <1>1. BackgroundInv => DialogsOverIdleSearch
    BY DEF BackgroundInv, SearchInv, QuietInv, SearchEnded, DialogsOverIdleSearch
  <1> QED BY <1>1, BackgroundInvHolds, PTL

(* The page drives HostService only as HostAvailability allows, so what is *)
(* proved of the scans holds under the page.                               *)
THEOREM PageRunsScans == Spec => AvailabilitySpec
  <1>1. Init => AvailabilityInit
    BY DEF Init
  <1>2. PageInv /\ [Next]_vars => [AvailabilityNext]_availability
    BY StepsOfScans DEF PageInv
  <1>3. BackgroundInv => PageInv
    BY DEF BackgroundInv
  <1> QED BY <1>1, <1>2, <1>3, BackgroundInvHolds, PTL DEF Spec, AvailabilitySpec

-----------------------------------------------------------------------------
(* What expiry keeps.  Kept is recursive, so what it returns is proved by  *)
(* induction on the length, which is taken from the least element of the   *)
(* numbers that fail.                                                      *)
LEMMA NatSetInduction ==
    ASSUME NEW S, 0 \in S, \A n \in Nat : n \in S => n + 1 \in S
    PROVE  Nat \subseteq S
  <1> DEFINE T == Nat \ S
  <1> SUFFICES ASSUME T # {} PROVE FALSE
    OBVIOUS
  <1>1. T \subseteq Nat
    OBVIOUS
  <1> HIDE DEF T
  <1>2. PICK x \in T : \A y \in T : <<y, x>> \notin OpToRel(<, Nat)
    BY <1>1, NatLessThanWellFounded, WFMin
  <1>3. \A y \in T : ~(y < x)
    BY <1>1, <1>2 DEF OpToRel
  <1>4. x # 0 /\ x - 1 \in Nat /\ x - 1 < x
    BY <1>1 DEF T
  <1>5. x - 1 \in S
    BY <1>3, <1>4 DEF T
  <1> QED
    BY <1>4, <1>5 DEF T

(* One turn of the loop, and the loop up to host n.                        *)
KeepStep(K, ages, i) ==
    IF i = 0 THEN << >> ELSE IF ages[i] < Expiry THEN Append(K[i - 1], i) ELSE K[i - 1]

KeepLoop(K, ages, n) == K = [i \in 0..n |-> KeepStep(K, ages, i)]

LEMMA KeepLoopExists ==
    ASSUME NEW ages PROVE \A n \in Nat : \E K : KeepLoop(K, ages, n)
  <1> DEFINE S == {n \in Nat : \E K : KeepLoop(K, ages, n)}
  <1>1. 0 \in S
    <2> DEFINE K == [i \in 0..0 |-> << >>]
    <2>1. KeepLoop(K, ages, 0)
      BY DEF KeepLoop, KeepStep
    <2> QED BY <2>1
  <1>2. ASSUME NEW n \in Nat, n \in S PROVE n + 1 \in S
    <2>1. PICK K : KeepLoop(K, ages, n)
      BY <1>2
    <2> DEFINE x == KeepStep(K, ages, n + 1)
               L == [i \in 0..(n + 1) |-> IF i = n + 1 THEN x ELSE K[i]]
    <2> HIDE DEF x
    <2>2. /\ \A i \in 0..n : L[i] = K[i]
          /\ L[n + 1] = x
          /\ L = [i \in 0..(n + 1) |-> L[i]]
      OBVIOUS
    <2> HIDE DEF L
    <2>3. ASSUME NEW i \in 0..(n + 1) PROVE L[i] = KeepStep(L, ages, i)
      <3>1. CASE i = n + 1
        BY <2>2, <3>1 DEF x, KeepStep
      <3>2. CASE i \in 0..n /\ i # 0
        <4>1. i - 1 \in 0..n
          BY <3>2
        <4>2. L[i] = K[i] /\ L[i - 1] = K[i - 1]
          BY <3>2, <4>1, <2>2
        <4>3. K[i] = KeepStep(K, ages, i)
          BY <2>1, <3>2 DEF KeepLoop
        <4> QED BY <4>2, <4>3, <3>2 DEF KeepStep
      <3>3. CASE i = 0
        BY <2>1, <2>2, <3>3 DEF KeepStep, KeepLoop
      <3> QED BY <3>1, <3>2, <3>3
    <2>4. KeepLoop(L, ages, n + 1)
      BY <2>2, <2>3 DEF KeepLoop
    <2>5. \E M : KeepLoop(M, ages, n + 1)
      BY <2>4
    <2> QED BY <2>5
  <1> HIDE DEF S
  <1>3. Nat \subseteq S
    BY <1>1, <1>2, NatSetInduction
  <1> QED BY <1>3 DEF S

(* Hosts only leave, and when none has left each is where it was.          *)
LEMMA KeptHosts ==
    ASSUME NEW ages \in Seq(Int)
    PROVE  /\ Kept(ages) \in Seq(1..Len(ages))
           /\ Len(Kept(ages)) <= Len(ages)
           /\ Len(Kept(ages)) = Len(ages) => \A i \in 1..Len(ages) : Kept(ages)[i] = i
  <1> DEFINE N == Len(ages)
             Keeps(s, n) == /\ s \in Seq(1..n)
                            /\ Len(s) <= n
                            /\ Len(s) = n => \A i \in 1..n : s[i] = i
  <1>1. PICK K : KeepLoop(K, ages, N) /\ Kept(ages) = K[N]
    <2>1. Kept(ages) = (CHOOSE K : KeepLoop(K, ages, N))[N]
      BY DEF Kept, KeepLoop, KeepStep
    <2>2. \E K : KeepLoop(K, ages, N)
      <3>1. N \in Nat
        OBVIOUS
      <3> HIDE DEF N
      <3> QED BY <3>1, KeepLoopExists
    <2> QED BY <2>1, <2>2
  <1> DEFINE S == {n \in Nat : n <= N => Keeps(K[n], n)}
  <1>2. 0 \in S
    <2>1. K[0] = << >>
      BY <1>1 DEF KeepLoop, KeepStep
    <2>2. Keeps(<< >>, 0)
      OBVIOUS
    <2> QED BY <2>1, <2>2
  <1>3. ASSUME NEW n \in Nat, n \in S PROVE n + 1 \in S
    <2> SUFFICES ASSUME n + 1 <= N PROVE Keeps(K[n + 1], n + 1)
      OBVIOUS
    <2>1. Keeps(K[n], n)
      BY <1>3
    <2>2. K[n + 1] = IF ages[n + 1] < Expiry THEN Append(K[n], n + 1) ELSE K[n]
      <3>1. n + 1 \in 0..N /\ n + 1 # 0 /\ (n + 1) - 1 = n
        BY <1>3
      <3>2. K[n + 1] = KeepStep(K, ages, n + 1)
        BY <1>1, <3>1 DEF KeepLoop
      <3> QED BY <3>1, <3>2 DEF KeepStep
    <2> HIDE DEF S
    <2>3. K[n] \in Seq(1..(n + 1))
      BY <2>1
    <2>4. CASE K[n + 1] = Append(K[n], n + 1)
      BY <2>1, <2>3, <2>4
    <2>5. CASE K[n + 1] = K[n]
      BY <2>1, <2>3, <2>5
    <2> QED BY <2>2, <2>4, <2>5
  <1> HIDE DEF S
  <1>4. Nat \subseteq S
    BY <1>2, <1>3, NatSetInduction
  <1>5. Keeps(K[N], N)
    BY <1>4 DEF S
  <1> QED BY <1>1, <1>5

-----------------------------------------------------------------------------
(* Revisions only grow, and they grow with every change of the hosts; the  *)
(* ages are kept host by host.                                             *)
DiscoveredHost == [address : Addresses, name : Names]

RevisionInv ==
    /\ snapshot \in [generation : Nat, revision : Nat, hosts : Seq(DiscoveredHost)]
    /\ unseen \in Seq(Nat) /\ Len(unseen) = Len(snapshot.hosts)
    /\ generation \in Nat
    /\ m_snapshot.revision \in Nat /\ m_snapshot.revision <= snapshot.revision
    /\ m_snapshot.revision = snapshot.revision => m_snapshot.hosts = snapshot.hosts

LEMMA RevisionInit == DiscoveryInit => RevisionInv
  BY DEF DiscoveryInit, RevisionInv, Empty

LEMMA RevisionParts ==
    ASSUME RevisionInv
    PROVE  /\ snapshot.generation \in Nat /\ snapshot.revision \in Nat
           /\ snapshot.hosts \in Seq(DiscoveredHost)
  BY DEF RevisionInv

(* Every write of the snapshot counts its revision up, but for one that    *)
(* leaves the hosts as they are.                                           *)
LEMMA Written ==
    ASSUME RevisionInv, NEW g \in Nat, NEW r \in Nat, NEW hs \in Seq(DiscoveredHost),
           \/ snapshot' = [snapshot EXCEPT !.hosts = hs, !.revision = r]
           \/ /\ snapshot' = [snapshot EXCEPT !.generation = g, !.revision = r]
              /\ hs = snapshot.hosts,
           r > snapshot.revision \/ (r = snapshot.revision /\ hs = snapshot.hosts),
           unseen' \in Seq(Nat), Len(unseen') = Len(hs),
           generation' \in Nat, UNCHANGED m_snapshot
    PROVE  RevisionInv'
  <1> DEFINE Snapshot == [generation : Nat, revision : Nat, hosts : Seq(DiscoveredHost)]
  <1>1. snapshot \in Snapshot
    BY DEF RevisionInv
  <1>2. snapshot' \in Snapshot /\ snapshot'.revision = r /\ snapshot'.hosts = hs
    <2>1. CASE snapshot' = [snapshot EXCEPT !.hosts = hs, !.revision = r]
      BY <1>1, <2>1
    <2>2. CASE /\ snapshot' = [snapshot EXCEPT !.generation = g, !.revision = r]
               /\ hs = snapshot.hosts
      BY <1>1, <2>2
    <2> QED BY <2>1, <2>2
  <1>3. snapshot.revision \in Nat
    BY RevisionParts
  <1> QED BY <1>2, <1>3 DEF RevisionInv

LEMMA RevisionStep == RevisionInv /\ [DiscoveryNext]_discovery => RevisionInv'
  <1> SUFFICES ASSUME RevisionInv, [DiscoveryNext]_discovery PROVE RevisionInv'
    OBVIOUS
  <1>0. /\ snapshot.generation \in Nat /\ snapshot.revision \in Nat
        /\ snapshot.hosts \in Seq(DiscoveredHost)
        /\ generation \in Nat
        /\ unseen \in Seq(Nat) /\ Len(unseen) = Len(snapshot.hosts)
    BY RevisionParts DEF RevisionInv
  <1>1. CASE UNCHANGED <<generation, snapshot, unseen, m_snapshot>>
    BY <1>1 DEF RevisionInv
  <1>2. CASE Start
    <2>1. UNCHANGED <<unseen, m_snapshot>>
      BY <1>2, Zenon DEF Start
    <2>2. CASE UNCHANGED <<generation, snapshot>>
      BY <1>1, <2>1, <2>2
    <2>3. CASE /\ generation' = generation + 1
               /\ snapshot' = [snapshot EXCEPT !.generation = generation + 1,
                                               !.revision = @ + 1]
      <3>1. snapshot' = [snapshot EXCEPT !.generation = generation + 1,
                                         !.revision = snapshot.revision + 1]
        BY <2>3, Zenon
      <3>2. /\ generation + 1 \in Nat /\ snapshot.revision + 1 \in Nat
            /\ snapshot.revision + 1 > snapshot.revision
        BY <1>0
      <3> QED BY <1>0, <2>1, <2>3, <3>1, <3>2, Written
    <2> QED BY <1>2, <2>2, <2>3 DEF Start
  <1>3. CASE Poll
    <2>1. m_snapshot' = snapshot /\ UNCHANGED <<generation, snapshot, unseen>>
      BY <1>3, Zenon DEF Poll, shared
    <2> QED BY <1>0, <2>1 DEF RevisionInv
  <1>4. ASSUME NEW a \in Addresses, NEW n \in Names, Sighting(a, n) PROVE RevisionInv'
    <2>1. UNCHANGED <<generation, m_snapshot>>
      BY <1>4, Zenon DEF Sighting, service
    <2>2. ASSUME NEW i \in Known(a), unseen' = [unseen EXCEPT ![i] = 0],
                 \/ UNCHANGED snapshot
                 \/ snapshot' = [snapshot EXCEPT !.hosts[i].name = n, !.revision = @ + 1]
          PROVE  RevisionInv'
      <3> DEFINE hs == [snapshot.hosts EXCEPT ![i].name = n]
      <3>1. i \in 1..Len(snapshot.hosts)
        BY <1>0 DEF Known
      <3>2. unseen' \in Seq(Nat) /\ Len(unseen') = Len(unseen)
        BY <1>0, <2>2, <3>1
      <3>3. hs \in Seq(DiscoveredHost) /\ Len(hs) = Len(snapshot.hosts)
        <4>1. [snapshot.hosts[i] EXCEPT !.name = n] \in DiscoveredHost
          <5>1. snapshot.hosts[i] \in DiscoveredHost
            BY <1>0, <3>1
          <5>2. \A h \in DiscoveredHost : [h EXCEPT !.name = n] \in DiscoveredHost
            BY DEF DiscoveredHost
          <5> QED BY <5>1, <5>2
        <4>2. hs = [snapshot.hosts EXCEPT ![i] = [snapshot.hosts[i] EXCEPT !.name = n]]
          OBVIOUS
        <4> QED BY <1>0, <3>1, <4>1, <4>2
      <3>4. CASE UNCHANGED snapshot
        BY <1>0, <2>1, <3>2, <3>4 DEF RevisionInv
      <3>5. CASE snapshot' = [snapshot EXCEPT !.hosts[i].name = n, !.revision = @ + 1]
        <4>1. snapshot' = [snapshot EXCEPT !.hosts = hs, !.revision = snapshot.revision + 1]
          BY <3>5, Zenon
        <4>2. snapshot.revision + 1 \in Nat /\ snapshot.revision + 1 > snapshot.revision
          BY <1>0
        <4> HIDE DEF hs
        <4> QED BY <1>0, <2>1, <3>2, <3>3, <4>1, <4>2, Written
      <3> QED BY <2>2, <3>4, <3>5
    <2>3. CASE snapshot' = [snapshot EXCEPT
                  !.hosts = Append(@, [address |-> a, name |-> n]), !.revision = @ + 2]
               /\ unseen' = Append(unseen, 0)
      <3> DEFINE hs == Append(snapshot.hosts, [address |-> a, name |-> n])
      <3>1. unseen' \in Seq(Nat) /\ Len(unseen') = Len(unseen) + 1
        BY <1>0, <2>3
      <3>2. hs \in Seq(DiscoveredHost) /\ Len(hs) = Len(snapshot.hosts) + 1
        <4>1. [address |-> a, name |-> n] \in DiscoveredHost
          BY DEF DiscoveredHost
        <4> QED BY <1>0, <4>1
      <3>3. snapshot' = [snapshot EXCEPT !.hosts = hs, !.revision = snapshot.revision + 2]
        BY <2>3, Zenon
      <3>4. snapshot.revision + 2 \in Nat /\ snapshot.revision + 2 > snapshot.revision
        BY <1>0
      <3> HIDE DEF hs
      <3> QED BY <1>0, <2>1, <3>1, <3>2, <3>3, <3>4, Written
    <2> QED BY <1>4, <2>2, <2>3 DEF Sighting
  <1>5. CASE Age
    <2>1. UNCHANGED <<generation, m_snapshot>>
      BY <1>5, Zenon DEF Age, service
    <2> DEFINE ages == [i \in DOMAIN unseen |-> unseen[i] + 1]
    <2>2. /\ ages \in Seq(Int) /\ Len(ages) = Len(unseen)
          /\ \A i \in 1..Len(unseen) : ages[i] \in Nat
      <3>1. /\ DOMAIN unseen = 1..Len(unseen) /\ Len(unseen) \in Nat
            /\ \A i \in 1..Len(unseen) : unseen[i] + 1 \in Nat
        BY <1>0
      <3>2. ages = [i \in 1..Len(unseen) |-> unseen[i] + 1]
        BY <3>1
      <3> HIDE DEF ages
      <3>3. \A i \in 1..Len(unseen) : ages[i] \in Nat
        BY <3>1, <3>2
      <3>4. ages \in [1..Len(unseen) -> Int]
        BY <3>1, <3>2
      <3> QED BY <3>1, <3>3, <3>4
    <2> HIDE DEF ages
    <2>3. CASE ExpireHosts(ages)
      <3> DEFINE keep == Kept(ages)
                 hs == [j \in DOMAIN keep |-> snapshot.hosts[keep[j]]]
      <3>1. /\ keep \in Seq(1..Len(ages)) /\ Len(keep) <= Len(ages)
            /\ Len(keep) = Len(ages) => \A i \in 1..Len(ages) : keep[i] = i
        BY <2>2, KeptHosts
      <3>2. /\ unseen' = [j \in DOMAIN keep |-> ages[keep[j]]]
            /\ snapshot' = [snapshot EXCEPT !.hosts = hs,
                                !.revision = @ + Len(ages) - Len(keep)]
        BY <2>3 DEF ExpireHosts
      <3> HIDE DEF keep
      <3>3. \A j \in 1..Len(keep) : keep[j] \in 1..Len(ages)
        BY <3>1
      <3>4. unseen' \in Seq(Nat) /\ Len(unseen') = Len(keep)
        <4>1. DOMAIN keep = 1..Len(keep) /\ Len(keep) \in Nat
          BY <3>1
        <4>2. \A j \in 1..Len(keep) : ages[keep[j]] \in Nat
          BY <2>2, <3>3
        <4> QED BY <3>2, <4>1, <4>2
      <3>5. hs \in Seq(DiscoveredHost) /\ Len(hs) = Len(keep)
        <4>1. DOMAIN keep = 1..Len(keep) /\ Len(keep) \in Nat
          BY <3>1
        <4>2. \A j \in 1..Len(keep) : snapshot.hosts[keep[j]] \in DiscoveredHost
          BY <1>0, <2>2, <3>3
        <4> QED BY <4>1, <4>2
      <3>6. Len(keep) = Len(ages) => hs = snapshot.hosts
        <4> SUFFICES ASSUME Len(keep) = Len(ages) PROVE hs = snapshot.hosts
          OBVIOUS
        <4>1. DOMAIN keep = 1..Len(snapshot.hosts)
          BY <1>0, <2>2, <3>1
        <4>2. \A j \in 1..Len(snapshot.hosts) : snapshot.hosts[keep[j]] = snapshot.hosts[j]
          BY <1>0, <2>2, <3>1
        <4>3. hs = [j \in 1..Len(snapshot.hosts) |-> snapshot.hosts[j]]
          BY <4>1, <4>2
        <4>4. snapshot.hosts \in [1..Len(snapshot.hosts) -> DiscoveredHost]
          BY <1>0
        <4> QED BY <4>3, <4>4
      <3>7. snapshot' = [snapshot EXCEPT !.hosts = hs,
                !.revision = snapshot.revision + Len(ages) - Len(keep)]
        BY <3>2, Zenon
      <3> HIDE DEF hs
      <3>8. /\ Len(ages) \in Nat /\ Len(keep) \in Nat
            /\ snapshot.revision + Len(ages) - Len(keep) \in Nat
            /\ \/ snapshot.revision + Len(ages) - Len(keep) > snapshot.revision
               \/ /\ snapshot.revision + Len(ages) - Len(keep) = snapshot.revision
                  /\ hs = snapshot.hosts
        <4>1. Len(ages) \in Nat /\ Len(keep) \in Nat
          BY <2>2, <3>1
        <4> QED BY <1>0, <4>1, <3>1, <3>6
      <3> QED BY <1>0, <2>1, <3>4, <3>5, <3>7, <3>8, Written
    <2>4. CASE UNCHANGED <<unseen, snapshot>>
      BY <1>1, <2>1, <2>4
    <2> QED BY <1>5, <2>3, <2>4 DEF Age, ages
  <1>6. ASSUME \/ StartFails \/ Stop \/ StopSearch \/ ShutdownSearch \/ JoinSearch
               \/ LeaseExpires \/ Check \/ OpenSniffer \/ Sample \/ Decide \/ Query
               \/ PollSniffer \/ CloseSniffer \/ GoIdle \/ UNCHANGED discovery
        PROVE  UNCHANGED <<generation, snapshot, unseen, m_snapshot>>
    BY <1>6, Zenon DEF StartFails, Stop, StopSearch, ShutdownSearch, JoinSearch, LeaseExpires,
                  Check, OpenSniffer, Sample, Decide, Query, PollSniffer, CloseSniffer, GoIdle,
                  discovery, shared, service
  <1> QED BY <1>1, <1>2, <1>3, <1>4, <1>5, <1>6 DEF DiscoveryNext, ThreadStep, Sightings

LEMMA RevisionTells == RevisionInv => RevisionTellsChange
  BY DEF RevisionInv, RevisionTellsChange

(* HostDiscoveryService::Poll may skip the copy whenever generation and    *)
(* revision agree: no arrival, renaming or expiry is withheld, for any     *)
(* addresses, names and number of searches, and however the thread's       *)
(* steps, the sightings and the polls fall.                                *)
THEOREM RevisionSuffices == DiscoverySpec => []RevisionTellsChange
  BY RevisionInit, RevisionStep, RevisionTells, PTL DEF DiscoverySpec

(* The same under the main page, which leases and withdraws the search.    *)
THEOREM PageListIsCurrent == Spec => []RevisionTellsChange
  <1>1. Init => RevisionInv
    BY RevisionInit DEF Init
  <1>2. RevisionInv /\ [Next]_vars => RevisionInv'
    BY RevisionStep, StepsOfSearch
  <1> QED BY <1>1, <1>2, RevisionTells, PTL DEF Spec
=============================================================================
