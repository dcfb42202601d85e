------------------------- MODULE ForegroundWorkflow -------------------------
(***************************************************************************)
(* One foreground operation at a time: ConnectionService, the jobs it      *)
(* queues, MoonlightApp::ProcessEventTask and the pages that react.        *)
(*                                                                         *)
(* The main thread runs input handlers, ProcessEventTask and the dialog    *)
(* poll one after the other.  A job thread runs the queued jobs in order,  *)
(* pushes their event and only then records the worker's result; a session *)
(* owner pushes stream events.  All three meet in the event queue, under   *)
(* main_thread_mutex, and in m_worker_done.  Every operation, pairing      *)
(* attempt and session has a number, so that an answer can be told from    *)
(* the answer to an earlier question.                                      *)
(***************************************************************************)
EXTENDS Integers, Sequences

CONSTANTS Capacity,       \* MOONLIGHT_EVENT_QUEUE_CAPACITY
          MaxAttempts     \* bound on operations, pairing attempts and sessions

ASSUME BoundsAssumption == Capacity \in Nat \ {0} /\ MaxAttempts \in Nat

VARIABLES
    operation,      \* m_operation and its number
    progress,       \* m_progress_dialog_slot >= 0
    error,          \* "none", "pending" (m_error_pending), "open"
    message,        \* what m_error_message says: "none", "text", "quit?"
    confirm,        \* m_confirm_application_id > 0
    worker,         \* m_worker_done, m_worker_result and whose they are
    jobs,           \* default_queue: jobs in order, the first one running
    stage,          \* progress of the running job
    cancelled,      \* pairing attempts whose token is set
    session,        \* the session owner, as the event queue sees it
    state,          \* m_backend.GetConnectionState()
    queue,          \* ordered events
    in_task,        \* the main thread is in ProcessEventTask's loop
    held,           \* what ProcessEventTask has peeked and not yet handled
    page,           \* the page whose callback is registered, and its attempt
    stream_open,    \* page_stream is on top of page_apps
    pair_dialog,    \* Pairing::m_dialog_open
    connecting,     \* Main::m_connecting
    launching,      \* Apps::m_launching
    attempts,       \* numbers handed out
    answered,       \* history: operations whose completion was dispatched
    unseen          \* history: sessions announced without page_stream

service == <<operation, progress, error, message, confirm>>
thread  == <<jobs, stage, worker>>
host    == <<session, state>>
task    == <<in_task, held>>
history == <<attempts, answered, unseen>>
pages   == <<page, stream_open, pair_dialog, connecting, launching>>
vars    == <<service, thread, cancelled, host, queue, task, pages, history>>

NoOp  == [kind |-> "None", id |-> 0]
Idle  == [done |-> FALSE, ok |-> FALSE, id |-> 0]
Ev(type, id) == [type |-> type, id |-> id]
Nothing == [event |-> Ev("NONE", 0), queued |-> FALSE]

Init ==
    /\ operation = NoOp /\ progress = FALSE
    /\ error = "none" /\ message = "none" /\ confirm = FALSE
    /\ worker = Idle /\ jobs = << >> /\ stage = "run" /\ cancelled = {}
    /\ session = [st |-> "none", id |-> 0] /\ state = "DISCONNECTED"
    /\ queue = << >> /\ in_task = FALSE /\ held = Nothing
    /\ page = [name |-> "main", id |-> 0]
    /\ stream_open = FALSE /\ pair_dialog = FALSE
    /\ connecting = FALSE /\ launching = FALSE
    /\ attempts = 0 /\ answered = {} /\ unseen = {}

-----------------------------------------------------------------------------
(* ConnectionService *)

(* completes_operation                                                     *)
Completes(kind, type) ==
    \/ kind = "Connect" /\ type \in {"CONNECTION_READY", "CONNECTION_FAILED"}
    \/ kind = "Applications" /\ type \in {"APPLICATIONS_READY", "APPLICATIONS_FAILED"}
    \/ kind = "Launch" /\ type \in {"STREAM_STARTED", "STREAM_FAILED",
                                    "STREAM_CONFLICT", "STREAM_STOPPED"}

(* Mutant: only an error message blocks the next operation.                *)
IsBusyWithError  == error # "none"

IsBusy == operation # NoOp \/ progress \/ error # "none"

(* ShowError: a second message is only logged.                             *)
ShowError(text) ==
    /\ error' = IF error = "none" THEN "pending" ELSE error
    /\ message' = IF error = "none" THEN text ELSE message

(* Mutant: the result of the previous worker is still there.               *)
BeginKeepsResult(kind, id) ==
    /\ operation' = [kind |-> kind, id |-> id]
    /\ progress' = TRUE
    /\ UNCHANGED worker

(* BeginOperation succeeds: the dialog is open and the result reset.       *)
Begin(kind, id) ==
    /\ operation' = [kind |-> kind, id |-> id]
    /\ progress' = TRUE
    /\ worker' = Idle

(* Mutant: the newest event overtakes those that wait.                     *)
PushFirst(q, e) == IF Len(q) < Capacity THEN <<e>> \o q ELSE q

(* MoonlightEventQueue push: an ordered event beyond the ring is dropped.  *)
Push(q, e) == IF Len(q) < Capacity THEN Append(q, e) ELSE q

(* The main thread is free for an input handler or the dialog poll.        *)
MainIdle == ~in_task
NewAttempt == attempts < MaxAttempts /\ attempts' = attempts + 1
Number == attempts + 1

(* Main::SelectHost -> Connect.  A cancelled pairing job may still be in   *)
(* front of the new job.                                                   *)
SelectHost ==
    /\ MainIdle /\ page.name = "main" /\ ~connecting /\ ~IsBusy
    /\ NewAttempt
    /\ Begin("Connect", Number)
    /\ connecting' = TRUE
    /\ jobs' = Append(jobs, [kind |-> "Connect", id |-> Number])
    /\ UNCHANGED <<error, message, confirm, stage, cancelled, host, queue, task,
                   page, stream_open, pair_dialog, launching, answered, unseen>>

(* Mutant: the operation that could not be queued is not finished.         *)
SelectHostAbandons ==
    /\ MainIdle /\ page.name = "main" /\ ~connecting /\ ~IsBusy
    /\ Begin("Connect", 0)
    /\ ShowError("text")
    /\ UNCHANGED <<confirm, jobs, stage, cancelled, host, queue, task, pages, history>>

(* The host cannot be saved, the wait dialog does not open, or Enqueue     *)
(* fails: all end in an error message and no operation.                    *)
SelectHostFails ==
    /\ MainIdle /\ page.name = "main" /\ ~connecting /\ ~IsBusy
    /\ worker' \in {worker, Idle}
    /\ ShowError("text")
    /\ UNCHANGED <<operation, progress, confirm, jobs, stage, cancelled, host,
                   queue, task, pages, history>>

(* StartConfirmed -> StartApplication; refused while a session is up.      *)
StartConfirmed ==
    /\ session.st = "none" /\ state = "PAIRED"
    /\ NewAttempt
    /\ Begin("Launch", Number)
    /\ session' = [st |-> "starting", id |-> Number]

(* Apps::SelectApp                                                         *)
SelectApp ==
    /\ MainIdle /\ page.name = "apps" /\ ~stream_open
    /\ ~launching /\ ~IsBusy
    /\ StartConfirmed
    /\ launching' = TRUE
    /\ UNCHANGED <<error, message, confirm, jobs, stage, cancelled, state, queue,
                   task, page, stream_open, pair_dialog, connecting, answered, unseen>>

SelectAppFails ==
    /\ MainIdle /\ page.name = "apps" /\ ~stream_open
    /\ ~launching /\ ~IsBusy
    /\ worker' = Idle
    /\ ShowError("text")
    /\ UNCHANGED <<operation, progress, confirm, jobs, stage, cancelled, host,
                   queue, task, pages, history>>

-----------------------------------------------------------------------------
(* DialogPollTask *)

(* TryShowError                                                            *)
OpenError ==
    /\ MainIdle /\ error = "pending" /\ ~progress
    /\ \/ error' = "open" /\ UNCHANGED <<message, confirm>>
       \/ error' = "none" /\ confirm' = FALSE /\ UNCHANGED message
    /\ UNCHANGED <<operation, progress, thread, cancelled, host, queue, task, pages, history>>

(* Mutant: the question is closed and its application id stays armed.      *)
CloseErrorKeepsQuestion ==
    /\ MainIdle /\ error = "open"
    /\ error' = "none" /\ message' = "none"
    /\ UNCHANGED <<operation, progress, confirm, thread, cancelled, host, queue,
                   task, pages, history>>

(* Answered with anything but Yes, or there was nothing to confirm.        *)
CloseError ==
    /\ MainIdle /\ error = "open"
    /\ error' = "none" /\ message' = "none" /\ confirm' = FALSE
    /\ UNCHANGED <<operation, progress, thread, cancelled, host, queue, task, pages, history>>

(* Yes: quit the running application and start the selected one.           *)
ConfirmYes ==
    /\ MainIdle /\ error = "open" /\ confirm
    /\ confirm' = FALSE
    /\ \/ /\ StartConfirmed
          /\ error' = "none" /\ message' = "none"
       \/ /\ error' = "pending" /\ message' = "text"
          /\ worker' = Idle
          /\ UNCHANGED <<operation, progress, session, attempts>>
    /\ UNCHANGED <<jobs, stage, cancelled, state, queue, task, pages, answered, unseen>>

-----------------------------------------------------------------------------
(* The job thread *)

Job == jobs[1]
JobEnds == jobs' = Tail(jobs) /\ stage' = "run"

(* ConnectHost or GetApplications answers and its event is pushed.         *)
JobAnswers ==
    /\ jobs # << >> /\ stage = "run" /\ Job.kind # "Pair"
    /\ \/ /\ Job.kind = "Connect"
          /\ session.st = "none"
          /\ \/ /\ state' \in {"READY", "PAIRED"}
                /\ queue' = Push(queue, Ev("CONNECTION_READY", Job.id))
                /\ stage' = "succeeded"
             \/ /\ state' = "DISCONNECTED"
                /\ queue' = Push(queue, Ev("CONNECTION_FAILED", Job.id))
                /\ stage' = "failed"
       \/ /\ Job.kind = "Applications"
          /\ UNCHANGED state
          /\ \/ /\ state = "PAIRED" /\ session.st = "none"
                /\ queue' = Push(queue, Ev("APPLICATIONS_READY", Job.id))
                /\ stage' = "succeeded"
             \/ /\ queue' = Push(queue, Ev("APPLICATIONS_FAILED", Job.id))
                /\ stage' = "failed"
    /\ UNCHANGED <<service, jobs, worker, cancelled, session, task, pages, history>>

(* A call that is not admitted returns -1 without any event.               *)
JobNotAdmitted ==
    /\ jobs # << >> /\ stage = "run" /\ Job.kind # "Pair"
    /\ stage' = "failed"
    /\ UNCHANGED <<service, jobs, worker, cancelled, host, queue, task, pages, history>>

(* Mutant: a successful job records nothing.                               *)
JobRecordsFailureOnly ==
    /\ stage \in {"succeeded", "failed"}
    /\ worker' = IF stage = "failed" THEN [done |-> TRUE, ok |-> FALSE, id |-> Job.id] ELSE worker
    /\ JobEnds
    /\ UNCHANGED <<service, cancelled, host, queue, task, pages, history>>

(* RecordWorkerResult                                                      *)
JobRecords ==
    /\ stage \in {"succeeded", "failed"}
    /\ worker' = [done |-> TRUE, ok |-> stage = "succeeded", id |-> Job.id]
    /\ JobEnds
    /\ UNCHANGED <<service, cancelled, host, queue, task, pages, history>>

(* A pairing job: cancelled before or during the exchange it says nothing; *)
(* the last look at the token is before the event.                         *)
PairJobQuits ==
    /\ jobs # << >> /\ stage = "run" /\ Job.kind = "Pair"
    /\ Job.id \in cancelled \/ state # "READY"
    /\ JobEnds
    /\ UNCHANGED <<service, worker, cancelled, host, queue, task, pages, history>>

PairJobDecides ==
    /\ jobs # << >> /\ stage = "run" /\ Job.kind = "Pair"
    /\ Job.id \notin cancelled /\ state = "READY"
    /\ stage' \in {"paired", "unpaired"}
    /\ UNCHANGED <<service, jobs, worker, cancelled, host, queue, task, pages, history>>

PairJobAnswers ==
    /\ stage \in {"paired", "unpaired"}
    /\ IF stage = "paired"
       THEN state' = "PAIRED" /\ queue' = Push(queue, Ev("PAIRING_FINISHED", Job.id))
       ELSE UNCHANGED state /\ queue' = Push(queue, Ev("PAIRING_FAILED", Job.id))
    /\ JobEnds
    /\ UNCHANGED <<service, worker, cancelled, session, task, pages, history>>

(* The session owner's events.                                             *)
SessionStarts ==
    /\ session.st = "starting"
    /\ session' = [session EXCEPT !.st = "running"]
    /\ queue' = Push(queue, Ev("STREAM_STARTED", session.id))
    /\ UNCHANGED <<service, thread, cancelled, state, task, pages, history>>

SessionEnds ==
    /\ \/ /\ session.st = "starting"
          /\ \E type \in {"STREAM_FAILED", "STREAM_CONFLICT"} :
                queue' = Push(queue, Ev(type, session.id))
       \/ /\ session.st = "running"
          /\ queue' = Push(queue, Ev("STREAM_STOPPED", session.id))
    /\ session' = [st |-> "none", id |-> 0]
    /\ UNCHANGED <<service, thread, cancelled, state, task, pages, history>>

-----------------------------------------------------------------------------
(* ProcessEventTask *)

(* Under one lock: the oldest event, or else the result of a job that      *)
(* pushed none (GetCompletedJobEvent).                                     *)
JobEvent ==
    Ev(IF operation.kind = "Connect"
       THEN IF worker.ok THEN "CONNECTION_READY" ELSE "CONNECTION_FAILED"
       ELSE IF worker.ok THEN "APPLICATIONS_READY" ELSE "APPLICATIONS_FAILED", worker.id)

(* Mutant: a finished job is reported before the queue is looked at.       *)
PeekResultFirst ==
    /\ held = Nothing
    /\ in_task' = TRUE
    /\ IF operation.kind \in {"Connect", "Applications"} /\ worker.done
       THEN held' = [event |-> JobEvent, queued |-> FALSE]
       ELSE queue # << >> /\ held' = [event |-> queue[1], queued |-> TRUE]
    /\ UNCHANGED <<service, thread, cancelled, host, queue, pages, history>>

Peek ==
    /\ held = Nothing
    /\ in_task' = TRUE
    /\ IF queue # << >>
       THEN held' = [event |-> queue[1], queued |-> TRUE]
       ELSE /\ operation.kind \in {"Connect", "Applications"} /\ worker.done
            /\ held' = [event |-> JobEvent, queued |-> FALSE]
    /\ UNCHANGED <<service, thread, cancelled, host, queue, pages, history>>

(* Nothing left: the task is done for this frame.                          *)
TaskReturns ==
    /\ in_task /\ held = Nothing /\ queue = << >>
    /\ ~(operation.kind \in {"Connect", "Applications"} /\ worker.done)
    /\ in_task' = FALSE
    /\ UNCHANGED <<service, thread, cancelled, host, queue, held, pages, history>>

Completing == Completes(operation.kind, held.event.type)

(* PrepareCompletion refuses: the event stays queued until the job, which  *)
(* may still be inside the backend, has recorded its result.               *)
Retain ==
    /\ held # Nothing
    /\ Completing /\ operation.kind # "Launch" /\ ~worker.done
    /\ held' = Nothing /\ in_task' = FALSE
    /\ UNCHANGED <<service, thread, cancelled, host, queue, pages, history>>

Prepared == held # Nothing /\ ~(Completing /\ operation.kind # "Launch" /\ ~worker.done)

(* The service after PrepareCompletion, as a record: the busy dialog is    *)
(* closed and the slot free before the page hears of the event.            *)
AfterPrepare ==
    LET failed == \/ operation.kind = "Connect" /\ held.event.type = "CONNECTION_FAILED"
                  \/ operation.kind = "Launch" /\ held.event.type \in {"STREAM_FAILED", "STREAM_CONFLICT"}
        ask    == operation.kind = "Launch" /\ held.event.type = "STREAM_CONFLICT" /\ error = "none"
    IN  IF ~Completing
        THEN [op |-> operation, progress |-> progress, error |-> error,
              message |-> message, confirm |-> confirm]
        ELSE [op |-> NoOp, progress |-> FALSE,
              error |-> IF failed /\ error = "none" THEN "pending" ELSE error,
              message |-> IF failed /\ error = "none"
                          THEN IF ask THEN "quit?" ELSE "text" ELSE message,
              confirm |-> confirm \/ ask]

(* The service when the page shows an error of its own afterwards.         *)
Settle(s, failed) ==
    /\ operation' = s.op /\ progress' = s.progress /\ confirm' = s.confirm
    /\ error' = IF failed /\ s.error = "none" THEN "pending" ELSE s.error
    /\ message' = IF failed /\ s.error = "none" THEN "text" ELSE s.message

Acknowledge == queue' = IF held.queued THEN Tail(queue) ELSE queue

(* Apps::Apps -> Refresh: begins the next operation unless the service is  *)
(* busy or the dialog, the page or the job cannot be made.                 *)
OpenApps(s) ==
    \/ /\ s.op = NoOp /\ ~s.progress /\ s.error = "none" /\ NewAttempt
       /\ Begin("Applications", Number)
       /\ jobs' = Append(jobs, [kind |-> "Applications", id |-> Number])
       /\ page' = [name |-> "apps", id |-> 0] /\ launching' = FALSE
       /\ error' = s.error /\ message' = s.message /\ confirm' = s.confirm
    \/ /\ Settle(s, TRUE)
       /\ worker' \in {worker, Idle}
       /\ page' = [name |-> "apps", id |-> 0] /\ launching' = FALSE
       /\ UNCHANGED <<jobs, attempts>>

(* The callback runs and the loop goes on.                                 *)
Dispatched ==
    /\ held' = Nothing /\ UNCHANGED in_task
    /\ answered' = answered \cup
        IF Completing /\ operation.kind # "Launch" THEN {held.event.id} ELSE {}

(* Main::OnMoonlightEvent, CONNECTION_READY of a paired host.              *)
MainReadyPaired ==
    /\ Prepared /\ page.name = "main"
    /\ held.event.type = "CONNECTION_READY" /\ state = "PAIRED"
    /\ Acknowledge /\ Dispatched
    /\ connecting' = FALSE
    /\ \/ OpenApps(AfterPrepare)
       \/ Settle(AfterPrepare, TRUE) /\ UNCHANGED <<page, launching, jobs, worker, attempts>>
    /\ UNCHANGED <<stage, cancelled, host, stream_open, pair_dialog, unseen>>

(* The same for an unpaired host: a PIN is prepared (which emits           *)
(* PAIRING_REQUIRED) and the pairing page opens and starts its job; the    *)
(* job, the page, or the PIN may fail.                                     *)
MainReadyUnpaired ==
    /\ Prepared /\ page.name = "main"
    /\ held.event.type = "CONNECTION_READY" /\ state # "PAIRED"
    /\ Dispatched
    /\ connecting' = FALSE
    /\ \/ /\ state = "READY" /\ NewAttempt
          /\ queue' = Push(IF held.queued THEN Tail(queue) ELSE queue,
                           Ev("PAIRING_REQUIRED", Number))
          /\ \/ /\ page' = [name |-> "pairing", id |-> Number]
                /\ jobs' = Append(jobs, [kind |-> "Pair", id |-> Number])
                /\ Settle(AfterPrepare, FALSE) /\ UNCHANGED pair_dialog
             \/ /\ page' = [name |-> "pairing", id |-> Number]
                /\ pair_dialog' \in BOOLEAN
                /\ Settle(AfterPrepare, FALSE) /\ UNCHANGED jobs
             \/ Settle(AfterPrepare, TRUE) /\ UNCHANGED <<page, jobs, pair_dialog>>
       \/ /\ Acknowledge
          /\ Settle(AfterPrepare, TRUE)
          /\ UNCHANGED <<page, jobs, pair_dialog, attempts>>
    /\ UNCHANGED <<stage, worker, cancelled, host, stream_open, launching, unseen>>

(* CONNECTION_FAILED and PAIRING_REQUIRED end the wait; the rest is not    *)
(* for this page.                                                          *)
MainOther ==
    /\ Prepared /\ page.name = "main" /\ held.event.type # "CONNECTION_READY"
    /\ Acknowledge /\ Dispatched
    /\ connecting' = (connecting /\ held.event.type \notin {"CONNECTION_FAILED", "PAIRING_REQUIRED"})
    /\ Settle(AfterPrepare, held.event.type = "PAIRING_REQUIRED")
    /\ UNCHANGED <<thread, cancelled, host, page, stream_open, pair_dialog,
                   launching, attempts, unseen>>

(* Pairing::OnMoonlightEvent: the finished page gives way to Apps, or      *)
(* says that it cannot.                                                    *)
PairingFinished ==
    /\ Prepared /\ page.name = "pairing" /\ held.event.type = "PAIRING_FINISHED"
    /\ Acknowledge /\ Dispatched
    /\ \/ /\ cancelled' = cancelled \cup {page.id}
          /\ connecting' = FALSE /\ pair_dialog' = FALSE
          /\ OpenApps(AfterPrepare)
       \/ /\ pair_dialog' \in {pair_dialog, TRUE}
          /\ Settle(AfterPrepare, FALSE)
          /\ UNCHANGED <<cancelled, connecting, page, launching, jobs, worker, attempts>>
    /\ UNCHANGED <<stage, host, stream_open, unseen>>

PairingOther ==
    /\ Prepared /\ page.name = "pairing" /\ held.event.type # "PAIRING_FINISHED"
    /\ Acknowledge /\ Dispatched
    /\ pair_dialog' \in {pair_dialog,     \* the dialog may fail to open
          pair_dialog \/ held.event.type \in {"PAIRING_FAILED", "CONNECTION_FAILED"}}
    /\ Settle(AfterPrepare, FALSE)
    /\ UNCHANGED <<thread, cancelled, host, page, stream_open, connecting,
                   launching, attempts, unseen>>

(* Apps::OnMoonlightEvent; page_stream may fail to open.                   *)
AppsEvent ==
    /\ Prepared /\ page.name = "apps"
    /\ Acknowledge /\ Dispatched
    /\ LET type == held.event.type
           ends == type \in {"STREAM_STOPPED", "STREAM_FAILED", "STREAM_CONFLICT"}
       IN  /\ launching' = (launching /\ ~ends)
           /\ \/ /\ type = "STREAM_STARTED"
                 /\ stream_open' = TRUE /\ Settle(AfterPrepare, FALSE)
                 /\ UNCHANGED unseen
              \/ /\ stream_open' = (stream_open /\ type # "STREAM_STOPPED")
                 /\ Settle(AfterPrepare, type \in {"APPLICATIONS_FAILED", "STREAM_STARTED"})
                 /\ unseen' = unseen \cup IF type = "STREAM_STARTED" THEN {held.event.id} ELSE {}
    /\ UNCHANGED <<thread, cancelled, host, page, pair_dialog, connecting, attempts>>

(* DefaultBackButtonCB, or the acknowledged pairing error: back to Main,   *)
(* whose RestoreEventCallback ends any wait; a pairing page cancels.       *)
ClosePage ==
    /\ MainIdle /\ page.name # "main" /\ ~stream_open
    /\ ~IsBusy \/ (page.name = "pairing" /\ pair_dialog)
    /\ cancelled' = IF page.name = "pairing" THEN cancelled \cup {page.id} ELSE cancelled
    /\ page' = [name |-> "main", id |-> 0]
    /\ pair_dialog' = FALSE /\ connecting' = FALSE /\ launching' = FALSE
    /\ UNCHANGED <<service, thread, host, queue, task, stream_open, history>>

Dispatch ==
    \/ MainReadyPaired \/ MainReadyUnpaired \/ MainOther
    \/ PairingFinished \/ PairingOther \/ AppsEvent

JobStep == JobAnswers \/ JobNotAdmitted \/ JobRecords \/ PairJobQuits
           \/ PairJobDecides \/ PairJobAnswers

Next ==
    \/ SelectHost \/ SelectHostFails \/ SelectApp \/ SelectAppFails
    \/ OpenError \/ CloseError \/ ConfirmYes
    \/ JobStep
    \/ SessionStarts \/ SessionEnds
    \/ Peek \/ TaskReturns \/ Retain \/ Dispatch
    \/ ClosePage

Spec == Init /\ [][Next]_vars

(* The main thread runs every frame, the job thread runs its queue, and a  *)
(* starting session answers (it is bounded by HTTP and common-c timeouts). *)
Fairness ==
    /\ WF_vars(Peek \/ TaskReturns \/ Retain \/ Dispatch)
    /\ WF_vars(JobStep)
    /\ WF_vars(SessionStarts \/ (SessionEnds /\ session.st = "starting"))

FairSpec == Spec /\ Fairness

-----------------------------------------------------------------------------

(* PrepareCompletion never takes the answer to an earlier operation for    *)
(* the answer to the one in progress.  The one way around it needs         *)
(* page_stream to fail to open on an announced session: Apps then stays    *)
(* usable and a new launch can meet that session's STREAM_STOPPED.         *)
CompletionOwned ==
    held # Nothing /\ Completing =>
        held.event.id = operation.id \/ (operation.kind = "Launch" /\ unseen # {})

(* A job's outcome reaches the page once: not as its queued event and      *)
(* again as the result GetCompletedJobEvent makes up.                      *)
AnsweredOnce ==
    \A i \in DOMAIN queue :
        queue[i].type \in {"CONNECTION_READY", "CONNECTION_FAILED",
                           "APPLICATIONS_READY", "APPLICATIONS_FAILED"} =>
            queue[i].id \notin answered

(* A pairing page only ever sees the outcome of its own attempt, although  *)
(* the job of an abandoned attempt may still push one.                     *)
PairingResultOwned ==
    page.name = "pairing" /\ held.event.type \in {"PAIRING_FINISHED", "PAIRING_FAILED"} =>
        held.event.id = page.id

(* The wait dialog is never left open, and the Main page never left        *)
(* waiting, with nobody to answer.                                         *)
SomeoneWillAnswer ==
    /\ connecting /\ page.name = "main" =>
        operation.kind = "Connect" \/ held.event.type \in {"CONNECTION_READY", "CONNECTION_FAILED"}
    /\ progress =>
        /\ operation # NoOp
        /\ \/ worker.done /\ worker.id = operation.id
           \/ \E i \in DOMAIN jobs : jobs[i].id = operation.id
           \/ \E i \in DOMAIN queue :
                queue[i].id = operation.id /\ Completes(operation.kind, queue[i].type)
           \/ session = [st |-> "starting", id |-> operation.id]

(* Yes is only ever the answer to the question whether to quit the running *)
(* application.                                                            *)
ConfirmMatchesQuestion == confirm => error # "none" /\ message = "quit?"

(* QueueEvent drops an ordered event when the ring is full; the sequential *)
(* workflow never has more than two waiting, so no answer is dropped.      *)
WorkflowFitsRing == unseen = {} => Len(queue) <= 2

(* Every wait dialog is closed in the end.                                 *)
WaitEnds == progress ~> ~progress
=============================================================================
