--------------------------- MODULE MainBackground ---------------------------
(***************************************************************************)
(* Background networking under the main page: page_main.cpp, the lease it  *)
(* holds on the mDNS search (HostDiscovery), the availability scans it     *)
(* owns (HostAvailability) and the ConnectJob that must find the network   *)
(* quiet.                                                                  *)
(*                                                                         *)
(* The main thread runs input handlers, dialog polls and three tasks one   *)
(* after the other; the search thread, the scan worker and the connect job *)
(* run beside it.  Shutting down is left to the two components.            *)
(***************************************************************************)
EXTENDS HostDiscovery, HostAvailability

VARIABLES
    current,     \* the top page: "main" or "other" (applications, pairing)
    list_ready,  \* m_list_ready
    overlaid,    \* m_system_ui_overlaid
    connecting,  \* m_connecting
    selection,   \* m_selection_mode
    deleting,    \* m_delete_dialog_open
    suspended,   \* m_settings_suspended
    pending,     \* m_pending_action: "none", "add", "settings"
    settings,    \* the system settings are open
    ime,         \* "no", "open" (m_ime_open), "retry" (m_ime_retry_pending)
    busy,        \* Connection().IsBusy(): "no", "connect", "error"
    job,         \* ConnectJob: "none", "search", "probes", "connect", "done"
    barrier      \* its m_probe_barrier

dialogs == <<settings, ime, busy>>
flags   == <<list_ready, connecting, selection, deleting, suspended>>
worker  == <<job, barrier>>
page    == <<current, flags, overlaid, pending, dialogs>>
vars    == <<discovery, availability, page, worker>>

Init ==
    /\ DiscoveryInit /\ AvailabilityInit
    /\ current = "main" /\ list_ready = FALSE /\ overlaid = TRUE
    /\ connecting = FALSE /\ selection = FALSE /\ deleting = FALSE
    /\ suspended = FALSE /\ pending = "none" /\ settings = FALSE
    /\ ime = "no" /\ busy = "no" /\ job = "none" /\ barrier = 0

(* SuspendBackground                                                       *)
SuspendBackground == Stop /\ StopAvailability

CanDiscover ==
    /\ current = "main" /\ list_ready /\ ~overlaid /\ ~connecting /\ ~selection
    /\ ~suspended /\ ime = "no" /\ pending = "none" /\ ~deleting /\ busy = "no"

(* The page takes input: it is on top and neither deactivated nor under a  *)
(* modal dialog.                                                           *)
TakesInput == current = "main" /\ pending = "none" /\ ~suspended
              /\ busy = "no" /\ ime # "open" /\ ~deleting

-----------------------------------------------------------------------------
(* The keyboard for a new PC's address *)

(* OpenAddPc goes ahead.                                                   *)
MayAddPc == /\ current = "main" /\ ~selection /\ ~suspended
            /\ ~connecting /\ ime = "no" /\ busy = "no"

(* StartAddPcIme: the keyboard opens, is busy, or fails with a message.    *)
StartIme == /\ \/ ime' = "open"  /\ UNCHANGED busy
               \/ ime' = "retry" /\ UNCHANGED busy
               \/ ime' = "no"    /\ busy' = "error"
            /\ UNCHANGED settings

(* Mutant: the keyboard opens over a search that still runs.               *)
OpenAddPcAtOnce ==
    /\ TakesInput /\ MayAddPc
    /\ SuspendBackground
    /\ StartIme /\ UNCHANGED pending
    /\ UNCHANGED <<current, flags, overlaid, worker>>

(* OpenAddPc from its button: wait for the search to be idle first.        *)
OpenAddPc ==
    /\ TakesInput /\ MayAddPc
    /\ SuspendBackground
    /\ IF SearchIdle THEN StartIme /\ UNCHANGED pending
                     ELSE pending' = "add" /\ UNCHANGED dialogs
    /\ UNCHANGED <<current, flags, overlaid, worker>>

(* Connect: background work is cancelled, the job remembers the barrier.   *)
BeginConnect ==
    /\ Stop /\ CancelScan
    /\ connecting' = TRUE /\ busy' = "connect"
    /\ job' = "search" /\ barrier' = m_barrier

(* The host is not saved or read back, the wait dialog does not open, or   *)
(* the job cannot be queued: a message and no job.                         *)
ConnectFails ==
    /\ Stop /\ (StopAvailability \/ CancelScan)
    /\ busy' = "error"
    /\ UNCHANGED <<connecting, worker>>

(* SelectHost                                                              *)
SelectHost ==
    /\ TakesInput /\ ~connecting /\ ~selection /\ ime = "no" /\ job = "none"
    /\ BeginConnect \/ ConnectFails
    /\ UNCHANGED <<current, list_ready, selection, deleting, suspended, overlaid,
                   pending, settings, ime>>

(* ImePollTask with a retry waiting.                                       *)
RetryIme ==
    /\ ime = "retry" /\ busy = "no" /\ ~connecting
    /\ StartIme
    /\ UNCHANGED <<discovery, availability, current, flags, overlaid, pending, worker>>

(* HandleAddPcImeResult without an address: closed, unreadable, or invalid *)
(* and asked again.                                                        *)
ImeWithoutAddress ==
    /\ ime = "open"
    /\ \/ ime' = "no"    /\ busy' \in {busy, "error"}
       \/ ime' = "retry" /\ busy' = "error"
    /\ UNCHANGED <<discovery, availability, current, flags, overlaid, pending,
                   settings, worker>>

(* ... and with one: StartManualConnection.                                *)
ImeWithAddress ==
    /\ ime = "open" /\ ~connecting /\ job = "none"
    /\ ime' = "no"
    /\ BeginConnect \/ ConnectFails
    /\ UNCHANGED <<current, list_ready, selection, deleting, suspended, overlaid,
                   pending, settings>>

-----------------------------------------------------------------------------
(* Settings, selection and deletion *)

(* onSettingsButton: the option menu opens; its buttons are the next two   *)
(* handlers.                                                               *)
OpenOptionMenu ==
    /\ TakesInput /\ ~selection
    /\ SuspendBackground
    /\ UNCHANGED <<page, worker>>

(* onOptionMenu -> SuspendForSystemSettings                                *)
SuspendForSystemSettings ==
    /\ TakesInput /\ ~selection
    /\ SuspendBackground
    /\ suspended' = TRUE /\ pending' = "settings"
    /\ UNCHANGED <<current, list_ready, connecting, selection, deleting, overlaid,
                   dialogs, worker>>

(* SETTINGS_CLOSED -> RestoreAfterSystemSettings                           *)
SettingsClosed ==
    /\ settings
    /\ settings' = FALSE /\ suspended' = FALSE
    /\ UNCHANGED <<discovery, availability, current, list_ready, connecting, selection,
                   deleting, overlaid, pending, ime, busy, worker>>

EnterSelectionMode ==
    /\ TakesInput /\ ~selection /\ ~connecting /\ ime = "no"
    /\ SuspendBackground
    /\ selection' = TRUE
    /\ UNCHANGED <<current, list_ready, connecting, deleting, suspended, overlaid,
                   pending, dialogs, worker>>

(* OnSelectionCancel -> ExitSelectionMode                                  *)
ExitSelectionMode ==
    /\ TakesInput /\ selection
    /\ selection' = FALSE
    /\ UNCHANGED <<discovery, availability, current, list_ready, connecting, deleting,
                   suspended, overlaid, pending, dialogs, worker>>

StartDeleteConfirmation ==
    /\ TakesInput /\ selection
    /\ deleting' = TRUE
    /\ UNCHANGED <<discovery, availability, current, list_ready, connecting, selection,
                   suspended, overlaid, pending, dialogs, worker>>

(* SelectionDialogPollTask: refused, or DeleteSelectedHosts.               *)
DeleteAnswered ==
    /\ deleting
    /\ deleting' = FALSE
    /\ \/ UNCHANGED <<selection, busy>>
       \/ selection' = FALSE /\ busy' \in {busy, "error"}
    /\ UNCHANGED <<discovery, availability, current, list_ready, connecting, suspended,
                   overlaid, pending, settings, ime, worker>>

(* The first layout of the list has settled.                               *)
InitialRefreshTask ==
    /\ ~list_ready
    /\ list_ready' = TRUE
    /\ UNCHANGED <<discovery, availability, current, connecting, selection, deleting,
                   suspended, overlaid, pending, dialogs, worker>>

-----------------------------------------------------------------------------
(* The periodic tasks *)

(* A waiting action runs: AddPc, or Settings().Open().                     *)
RunPending ==
    /\ pending' = "none"
    /\ \/ /\ pending = "add"
          /\ IF MayAddPc THEN StartIme ELSE UNCHANGED dialogs
          /\ UNCHANGED suspended
       \/ /\ pending = "settings"
          /\ \/ settings' = TRUE /\ UNCHANGED suspended
             \/ suspended' = FALSE /\ UNCHANGED settings
          /\ UNCHANGED <<ime, busy>>

(* The lease can be asked for without passing a bound of the model.        *)
AtBound == generation = MaxGeneration \/ snapshot.revision = MaxRevision
Lease == Start \/ StartFails \/ (AtBound /\ UNCHANGED discovery)

(* Mutant: the search is not withdrawn while the page may not search.      *)
BackgroundTaskKeepsLease ==
    /\ overlaid' \in BOOLEAN
    /\ IF current = "main" /\ ~overlaid' /\ pending # "none" /\ SearchIdle
         THEN RunPending ELSE UNCHANGED <<pending, dialogs, suspended>>
    /\ UNCHANGED <<current, list_ready, connecting, selection, deleting, worker>>
    /\ Lease /\ UNCHANGED availability

(* BackgroundTask: look at the application's state, run the waiting action *)
(* once the search is idle, then renew or withdraw the lease.              *)
BackgroundTask ==
    /\ overlaid' \in BOOLEAN
    /\ IF current = "main" /\ ~overlaid' /\ pending # "none" /\ SearchIdle
         THEN RunPending ELSE UNCHANGED <<pending, dialogs, suspended>>
    /\ UNCHANGED <<current, list_ready, connecting, selection, deleting, worker>>
    /\ IF CanDiscover' THEN Lease /\ UNCHANGED availability
                       ELSE SuspendBackground

AvailabilityTask ==
    /\ IF \/ current # "main" \/ connecting \/ suspended \/ ime # "no"
          \/ deleting \/ overlaid \/ pending # "none" \/ busy # "no"
         THEN StopAvailability
         ELSE \E hosts \in Lists : CheckAvailability(hosts)
    /\ UNCHANGED <<discovery, page, worker>>

(* ProcessEventTask reads both services.                                   *)
PollServices ==
    /\ IF m_generation # 0 /\ Changed THEN Poll ELSE UNCHANGED discovery
    /\ PollAvailability
    /\ UNCHANGED <<page, worker>>

(* ... and hands the finished connect job to the page: applications or     *)
(* pairing open, or a message appears.                                     *)
ConnectCompletes ==
    /\ busy = "connect" /\ job = "done"
    /\ job' = "none" /\ connecting' = FALSE
    /\ \/ busy' = "no" /\ current' = "other"
       \/ busy' = "error" /\ UNCHANGED current
    /\ UNCHANGED <<discovery, availability, list_ready, selection, deleting, suspended,
                   overlaid, pending, settings, ime, barrier>>

(* CONNECTION_CLOSED of the last host comes at any time.                   *)
ConnectionClosed ==
    /\ current = "main"
    /\ connecting' = FALSE
    /\ UNCHANGED <<discovery, availability, current, list_ready, selection, deleting,
                   suspended, overlaid, pending, dialogs, worker>>

(* DialogPollTask                                                          *)
ErrorDismissed ==
    /\ busy = "error"
    /\ busy' = "no"
    /\ UNCHANGED <<discovery, availability, current, flags, overlaid, pending, settings,
                   ime, worker>>

(* An operation begun on another page: BeginOperation.                     *)
OtherOperation ==
    /\ current = "other"
    /\ StopSearch /\ CancelScan
    /\ UNCHANGED <<page, worker>>

(* Back to the main page: RestoreEventCallback.                            *)
OtherPageCloses ==
    /\ current = "other" /\ busy = "no"
    /\ current' = "main" /\ connecting' = FALSE
    /\ UNCHANGED <<discovery, availability, list_ready, selection, deleting, suspended,
                   overlaid, pending, dialogs, worker>>

-----------------------------------------------------------------------------
(* ConnectJob::Run *)

(* Mutant: the job only waits for the scans.                               *)
SearchIsIdleUnasked ==
    /\ job = "search"
    /\ job' = "probes"
    /\ UNCHANGED <<discovery, availability, page, barrier>>

(* WaitForHostSearchIdle returns.                                          *)
SearchIsIdle ==
    /\ job = "search" /\ SearchIdle
    /\ job' = "probes"
    /\ UNCHANGED <<discovery, availability, page, barrier>>

(* WaitForAvailability returns.                                            *)
ProbesAreDrained ==
    /\ job = "probes" /\ Drained(barrier)
    /\ job' = "connect" /\ barrier' = 0
    /\ UNCHANGED <<discovery, availability, page>>

(* ConnectHost returned.                                                   *)
JobDone ==
    /\ job = "connect"
    /\ job' = "done"
    /\ UNCHANGED <<discovery, availability, page, barrier>>

JobStep == SearchIsIdle \/ ProbesAreDrained \/ JobDone

SearchThread == ThreadStep /\ UNCHANGED <<availability, page, worker>>
MdnsAnswers  == Sightings /\ UNCHANGED <<availability, page, worker>>
ScanWorker   == WorkerStep /\ UNCHANGED <<discovery, page, worker>>
Clock        == /\ \/ LeaseExpires /\ UNCHANGED availability
                   \/ TimePasses /\ UNCHANGED discovery
                /\ UNCHANGED <<page, worker>>

Handlers == \/ OpenAddPc \/ SelectHost \/ RetryIme \/ ImeWithoutAddress \/ ImeWithAddress
            \/ OpenOptionMenu \/ ConnectionClosed
            \/ SuspendForSystemSettings \/ SettingsClosed \/ EnterSelectionMode
            \/ ExitSelectionMode \/ StartDeleteConfirmation \/ DeleteAnswered
            \/ InitialRefreshTask \/ OtherOperation \/ OtherPageCloses \/ ErrorDismissed
Tasks    == BackgroundTask \/ AvailabilityTask \/ PollServices \/ ConnectCompletes

Next == Handlers \/ Tasks \/ JobStep \/ SearchThread \/ MdnsAnswers
        \/ ScanWorker \/ Clock

(* Threads keep running and PAF calls BackgroundTask on every frame; the   *)
(* user, the network and the clock promise nothing.                        *)
Spec == /\ Init /\ [][Next]_vars
        /\ WF_vars(SearchThread) /\ WF_vars(ScanWorker) /\ WF_vars(JobStep)
        /\ WF_vars(BackgroundTask)

-----------------------------------------------------------------------------
(* While ConnectHost runs, and as long as another page is on top of the    *)
(* main page, no mDNS socket is open, the search thread is idle and no     *)
(* availability probe runs or waits its turn.                              *)
NetworkQuiet ==
    (job = "connect" \/ current = "other") =>
        ~socket /\ active = 0 /\ probe = "none" /\ queue = << >>

(* The system keyboard and the system settings open, and stay open, only   *)
(* over an idle search: the action waits in m_pending_action otherwise.    *)
DialogsOverIdleSearch == (ime = "open" \/ settings) => (active = 0 /\ ~socket)

(* The inductive strengthening.  A connection in progress keeps the page   *)
(* busy to its end, and what excludes the keyboard, the selection and the  *)
(* settings from each other keeps the lease withdrawn under each of them.  *)
PageInv ==
    /\ ~closing
    /\ job # "none" => busy = "connect"
    /\ busy = "connect" => ime = "no" /\ ~selection
    /\ selection => ime = "no"
    /\ deleting => selection
    /\ settings => suspended /\ pending # "settings"
    /\ pending = "settings" => suspended

(* From the lease's withdrawal the search can only end, and from then on   *)
(* the queue can only drain.                                               *)
LeaseWithdrawn == job # "none" \/ current = "other" \/ ime # "no" \/ settings => ~enabled

SearchEnded ==
    job \in {"probes", "connect", "done"} \/ current = "other" \/ ime # "no" \/ settings =>
        active = 0

BarrierRemembered == job \in {"search", "probes"} => barrier = m_barrier

QueueEmpty == job \in {"connect", "done"} \/ current = "other" => queue = << >> /\ probe = "none"

QuietInv == LeaseWithdrawn /\ SearchEnded /\ BarrierRemembered /\ QueueEmpty

BackgroundInv == SearchInv /\ PageInv /\ QuietInv

(* The background gives way: a connect job always reaches ConnectHost, and *)
(* a waiting action runs unless the system covers the page.                *)
BackgroundYields ==
    /\ job = "search" ~> job = "connect"
    /\ (pending # "none" /\ ~overlaid) ~> (pending = "none" \/ overlaid)
=============================================================================
