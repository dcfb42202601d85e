# A TLA+ model of vita-moonlight-paf

vita-moonlight-paf is a Moonlight (GameStream) client for the PS Vita, written
on Sony's PAF user-interface framework. It pairs with a host, lists the host's
applications, starts one, and shows and controls the stream. Most of what can go
wrong in it is not computation but coordination: a UI thread, a job thread, a
session owner, a clean-up worker, an input thread and the threads of the
`moonlight-common-c` library act on the same few variables, and several of them
do so without a lock.

This directory holds TLA+ modules that follow the code, TLC configurations that
check them on small instances, and TLAPS proofs of the most important results
for every instance. `PROJECT.json` maps every definition to the lines it models.

## Inventory

Paths are relative to the repository root (`src/...` here is the repository's
own `src` directory).

| Component | State | Operations | Partners |
|---|---|---|---|
| Event queue, `src/app/event_queue.c` | ring of 16, four coalescing slots, retained head | reset, push, peek, acknowledge | producers on any thread, `ProcessEventTask` |
| Session owner, `src/moonlight/stream_session.cpp` | seven flags under `s_stream_mutex`, callback, arguments | start, stop, the owner thread, common-c callbacks | API, common-c, input, renderers |
| Selected-host API, `src/moonlight/api.cpp` | current host, connection state, cached applications, stream flags, disconnect flags | connect, prepare, pair, list, start, stop, disconnect, shutdown, `on_stream_event` | session owner, GameStream client, adapter |
| Adapter, `src/backend/legacy_moonlight_adapter.cpp` | a second connection state rebuilt from events | the same operations, `ForwardEvent` | API, application shell |
| Foreground workflow, `src/services/*` | one operation, busy dialog, error dialog, armed confirmation, worker result | begin, complete, jobs, dialog poll | job queue, pages, shell |
| Shell, `src/app/moonlight_app.cpp` | event callback, queue | QueueEvent, ProcessEventTask, start-up, shutdown | everything above |
| Pages, `src/pages/*` | the page stack, `m_connecting`, `m_launching`, selection, IME | event handlers, selection, back | workflow, shell |
| Frame pool, `src/moonlight/vita_video_renderer.c`, `src/pages/page_stream.cpp` | three buffers, generation, pending release, pending frame, surfaces | setup, submit, cleanup, present, deferred release | common-c, session owner, PAF |
| Controller input, `src/moonlight/vita_input.c`, touch, motion | last sample, the PS button's times and pulse, ShellUtil's edge, the system UI gate | start, stop, sample, send, shell callback | session owner, common-c, ShellUtil |
| Host availability, `src/services/host_service.cpp`, `legacy_host_probe.c` | the scan that is read, the newest queued scan, owner, dirty mark; per scan a cancel token, a done flag and entries | check, stop, cancel, poll, barrier, shutdown; the scan worker | its own one-worker queue, main page, connect job |
| Discovery, `legacy_host_discovery.c`, `host_discovery_service.cpp` | lease, generation, active generation, up to 16 hosts with sighting times, snapshot revision | start, stop, read, shutdown; the search thread and its sightings | main page, connect job |
| Saved hosts, `legacy_device_store.cpp`, `device.c` | the list in memory; per PC a directory with `device.ini` and `server.pem` | load, merge, add, find, set identity, mark paired, save, delete | API, GameStream client, main page |
| GameStream client, `legacy_gamestream.c` | the client's own credentials, the server record, the pinned certificate, curl handle | load credentials and pin, server info over HTTP and HTTPS, the five exchanges of a pairing, quit, request | API, session owner, saved hosts |
| Statistics, settings, audio, system video, diagnostics | counters, key-value file, devices | | |

What is hard in it, and therefore what the properties are about: the owner's
callback writes the API's state without the API's mutex; common-c forgets an
interrupt that arrives before its start; a start may succeed after it was
cancelled; a worker's event and its result reach the main thread in either
order; jobs of abandoned pages still answer; background searches and probes are
told to stop and stop later, while a connection or a system dialog must not start
before they have; buffers are freed some frames after
their session, by a thread that shares no lock with the next session's setup; the
files of a PC are rewritten in place at every start, and found again by whichever
of UUID, MAC, address and name matches first; trust in a PC is established by a
handshake that may fail, be cancelled or be cut off at any of its requests; the
input thread is never joined, so it may finish a sample after the stop.
`PROJECT.json` lists these as hazards, each at its line.

## Modules

`EventLog` is the abstract specification of the queue: a log, a reader position
and "held" bit. `EventQueue` is `event_queue.c`, one action per call, the push
and peek calls split along their branches. Two history variables, `log` and
`taken`, record what was accepted and handed out; `ImplementsEventLog` is the
refinement.

`StreamSession` is the owner thread. A step is one critical section of
`s_stream_mutex` or one external call; `owner` is the program counter. Stop,
termination and controller feedback come from other threads at any moment.
common-c is external: it clears its interrupt flag when a start begins, calls
back on the owner's stack, and a start may fail, succeed, or succeed late.

`HostControl` EXTENDS `StreamSession` and adds the API and the adapter. `control`
is the holder of `s_host_control_mutex` and its progress. `on_stream_event` does
not take that mutex, so it is three steps (state, event, id) and
`moonlight_api_start_application` is split where it can meet it (check, mark,
reserve, create, return). `Emit` is the whole way of an event to the adapter's own
state. `launching` is `m_launching`: set by a launch from the list, but not by one that
the user confirmed with Yes (`connection_service.cpp:355`), and cleared when
`page_stream` fails to open (`StreamPageFails`). Then nothing in the user interface
keeps the next launch from meeting the last callback of the session before it.

`HostEvents` is the abstract specification of what the frontend hears of a host: a
connection that is open or not, a disconnect accepted or not, a launch that is none,
starting or running, and the last event. It has no mutex, no worker and no callback.
`HostControl` implements it (`EventsAsPromised`): a launch counts as running from the
emit of STREAM_STARTED on (`SessionSeen`), the connection as open until
CONNECTION_CLOSED is out, and the application is the one the UI asked for, which the
session's own id may have lost by then (`api.cpp:214`). One exchange is possible, and
`HostEvents` says when: a launch may overtake the last event of the one before
(`Overtakes`). The callback has then written the state (`api.cpp:198`) but not yet published the event
(`api.cpp:203`), the next launch passes the checks in between and writes its own id
(`api.cpp:640`), and the old STREAM_STOPPED or STREAM_FAILED carries that id.
Every other event of a launch names the application that launch asked for, or none.

`ForegroundWorkflow` is ConnectionService with its jobs, `ProcessEventTask` and
the three pages that react. Operations, pairing attempts and sessions are
numbered so that an answer can be told from the answer to an earlier question;
the numbers exist only in the model. PAF's main thread runs handlers, the event
task and the dialog poll one after another (`in_task`, `MainIdle`).

`FramePool` is the renderer's buffer pool and the streaming page. A block is a
pair of the generation that allocated it and its slot; `allocated` is what the
kernel has handed out. The free loop and the setup loop take one step per slot
because nothing excludes one from the other; the history variable `overlapped`
says whether a setup has met a free loop. A setup that fails in the middle keeps what it allocated and has
overwritten the slot it failed at: the older block in that slot is lost. `apps` says
whether the applications page is open, `foreground` whether a launch or the quit
question holds the user there. The events of a session are Apps' only while it is
open; the main page ignores them (`page_main.cpp:1347`), and `unscheduled` remembers
that the end of a session of this pool was ignored.

`HostDiscovery` is `legacy_host_discovery.c` with the service that reads it. The
search thread gives `s_mutex` up between any two of its steps, so each critical
section and each unlocked stretch is a step of its own. The process clock appears
only as the code compares it: `leased` says that the lease has not lapsed, and a
host carries the healthy time since it was last seen.

`HostAvailability` is `HostService` with its `AvailabilityJob`: every scan ever
made is an element of `scans`, `m_job` and `m_barrier` are positions in it and the
queue holds positions. The history variable `heard` keeps, per PC, how long ago
its last probe answered. Entries of superseded scans are never read again and are
forgotten.

`MainBackground` EXTENDS both and adds the main page's handlers and its periodic
tasks, and `ConnectJob`, which waits for an idle search and for the barrier before
it uses the network. The main thread's handlers and tasks are atomic; the search
thread, the scan worker and the job interleave with them.

`HostStore` is the saved PCs: `known` is `known_devices`, `dirs`, `ini` and `pem`
are the directories and the two files in each. A save is two steps, the truncation
by `fopen` and the close, and a deletion three (`device.ini`, the other files, the
directory), so that a crash or another job may fall between them. Lookup, merge and
normalisation are operators on lists, in the code's order of precedence. The order
in which a directory is read is any order.

`GameStreamClient` EXTENDS it with the credentials, the server record, the connect
and the pairing job; `job` is the next request or store call. A certificate stands
for the PC that owns it, and which PC answers a request is chosen anew for each:
addresses move, and over plain HTTP anybody may answer. A TLS request succeeds only
with the PC whose certificate is pinned. `proof` carries what the exchanges of one
pairing have established. An answer to serverinfo may leave the UUID out and then keeps the last one
(`ServerInfo`, `legacy_gamestream.c:1051`): nothing is recorded for such a PC, and one
entered by hand gets no place for its pin (`PinDestination`). A file cut short may
lose its last lines, all of them, or be one that `ini_parse` rejects, and the PC is then skipped.

`InputForwarding` is the input thread between its start and its stop. `thread` is
its place in `vita_input_process`, `session` that of the owner in `vita_input_stop`,
`handler` that of the ShellUtil callback between its check and its assignment. `keys`
are the statics of the PS button, with times in ticks of 250 ms. `gesture` is what
the user is doing with the button, whether or not the program has noticed; `late`
remembers that a sample acted on the release of a press that ShellUtil had not reported.

MC modules only extend the modules they check; the `.cfg` files give the
constants values. `MCBackgroundServices` holds two: the search and the scans share no
variable, so it runs one of them while the other rests, with all of its operations, and
their states add up instead of multiplying.

## Runs

| Run | Bounds | Shows |
|---|---|---|
| `queue` | ring of 2, one ordered and two invalidation types, 7 accepted events | wraps more than twice, fills with both slots occupied; `QueueInv` and the refinement hold |
| `host` | two applications, two hosts | a launch of one application meets the end of the other, a stop falls anywhere into a start; `OneTerminalEvent`, `TransportReleased`, `InterruptNotLost`, `SessionInv`, `ClientOutlivesSession`, `NothingLeftBehind`, `CacheFollowsHost`, `AdapterFollowsApi`, `ClosedIsFinal`, the owner still refines `StreamSession`, and the whole refines `HostEvents` (`EventsAsPromised`) |
| `host_live` | one application, one host | `StopCompletes`, `DisconnectCompletes`, `ShutdownCompletes` |
| `workflow` | ring of 16, 7 attempts | connect, pair, abandon, pair again, list, launch, conflict, confirm; the completion properties and `WaitEnds` |
| `frames` | 3 buffers, delay 2, 3 sessions, one event left over | `SampledMemoryLives` needs no lock; `PoolsApart` and `PoolReleased` hold until a setup overlaps a free loop; with Apps closed under a session its pool stays, which `PoolReleased` exempts |
| `frames_overlap` | the same | violation: see Findings |
| `frames_tearing` | the same | violation: see Findings |
| `services` | search: two addresses, two names, 2 hosts, expiry after 2 ticks, 3 searches, 6 revisions; scans: two PCs in four lists, 4 scans, refresh after 1 tick, freshness 2 | hosts arrive, are renamed, expire, meet a full table, and the search is renewed between any two steps of the thread; lists grow, shrink and are reordered while older scans still run; `RevisionTellsChange`, `SearchFollowsRequests`, `AvailableIsFresh`, `BarrierCoversQueue` |
| `background` | one PC, one address, 2 searches, one scan, 3 revisions | `NetworkQuiet`, `DialogsOverIdleSearch` and `BackgroundYields` in the composition |
| `trust` | two PCs (symmetric), two addresses, one display name, 2 saved PCs, 4 operations of the user or crashes | answers with and without a UUID, connections and pairings that fail, are cancelled, answered by the other PC or cut off; `RestartKeepsHosts`, `TrustProven`, `PeerAuthenticated`, `PinAndMarkAgree` |
| `input` | ticks of 250 ms, holds from 2 ticks, times to 3 | `HostReleased`, `PsGesturesObeyed`, `ShortPressForwarded` |
| `input_late` | the same | violation: see Findings |

The bounds are the smallest at which every action and every branch is taken.
Sessions are admitted one after another, so two applications (one launched, one
conflicting) and two hosts (the current one and the next) are all that a state
can relate. The delay of the release is 3 in the code and 2 here; only zero and
nonzero are told apart. `MaxWaiting` bounds the events that are still in the inbox
when the next session is asked for: one event late is enough for Apps to be closed, or
left, under a session. Three searches and four scans are one more than the
longest chain the code relates: a search that is closing, one that was withdrawn
and one that is wanted; a scan that runs, one that waits, the one that is read and
the one that replaces it. The composition repeats neither: several scans in the queue
and expiring hosts are the components' own runs, and `BarrierHolds` is proved for
any number. In `background` time does not matter for the properties,
so refresh and freshness are zero there, which allows a refresh at any moment.
`MaxGeneration`, `MaxRevision` and `MaxScans` bound counters: at the bound the
page's task leaves the search as it is. In `trust` the four operations are those
that the longest story needs (save one PC, connect it, pair it, and a crash, a
deletion or a second pairing); the single display name is shared by both PCs, and
the name of a PC entered by hand is its address, as in the code, so that names
and addresses meet as directory names. In `input`, 250 ms is the longest second
press, 500 ms the shortest hold, and longer times are not told apart. `host`, `host_live` and `trust` switch
deadlock checking off: after a shutdown, and after the last operation `MaxOps`
admits, nothing is left to do. All others check for deadlock.

Fairness. The session owner, the cleanup worker and the job thread are scheduled
(weak fairness on their steps). HTTP requests carry timeouts (20 s and 30 s), so
the step after a request is fair. common-c is assumed to deliver its first stage
callback and to return once interrupted, and nothing else: in `host_live` a start that nobody
interrupts may hang for ever and a stream may run for ever. `workflow` has no owner
thread: there a starting session answers in the end, bounded by the timeouts of HTTP
and of common-c's stages, and `WaitEnds` rests on that; a start that hangs would leave
its wait dialog open. Shutdown takes a
mutex that others take too, each a bounded number of times, hence strong
fairness on that one step. The search thread and the scan worker are scheduled,
polls and probes are bounded in time, and the PAF main loop runs its call list,
`BackgroundTask` with it, every frame. The input thread loops every 2 ms, a
ShellUtil callback that has begun returns, time passes, and the session owner calls
`vita_input_stop` once the thread has called `moonlight_stream_stop`. Answers from the network, renewals of the
lease, user input and the system overlay are promised by nobody: `BackgroundYields`
excuses a page that the system covers, `ShortPressForwarded` a further press.

## What the runs take for granted

Each of these is a premise of a model or of a property, and marks a place where the
code itself does not enforce it.

- *The store has no lock* (`device.c:263`, `device.c:393`). Connect and pairing write the
  list on the job thread, the main page adds and deletes on the main thread. The model
  lets them interleave between store operations, never inside one.
- *PCs can be told apart.* `RestartKeepsHosts` assumes that the files in the store stand
  for different PCs (`Separate`), `PinAndMarkAgree` that the listed PCs differ in every field that identifies
  (`Different`). Both premises can fail in the code: `legacy_device_store_add_host` falls back to the
  name (`legacy_device_store.cpp:215`) and then gives the record of another PC with
  the same name the new address, although `device.c:328` says that PCs may share
  a name; a PC entered by hand keeps its address as directory name after
  it has been renamed, so that a second PC entered at that address shares the directory, and deleting
  one deletes the files of both; two PCs that answer with the same placeholder MAC
  over HTTP are merged; the UUID that is stored for a record is whatever answered
  over HTTP.
- *A PC may have no UUID.* One that was entered by hand and tells none has no directory when it
  is paired: saving its pin fails (`api.cpp:663`), the pairing succeeds all the same and
  a record without a pin is marked as paired. `PinAndMarkAgree` speaks of PCs whose
  UUID is known. That a PC tells no MAC at all is not modelled.
- *A file cut short loses fields.* `device.ini` is rewritten in place, for every PC at every start. A
  PC whose rewriting is interrupted comes back without its last fields, or not at all if
  the file does not parse, and if what
  is left is only a name, it merges with any PC of that name. A value cut in its middle
  is not modelled. `unsaved` exempts such
  a PC until its next save, and only it.
- *Torn credentials stay.* A stop between `client.pem` and `key.pem` leaves a pair that
  is never generated again, and every later connection fails. `PeerAuthenticated`
  says that none is opened with them.
- *A pairing cancelled after the PC accepted it* leaves the pin saved and the
  connection READY; the record is never marked as paired by it. The next attempt
  finds itself paired.
- *A stop may meet a sample* (`raced`). The release that `vita_input_stop` sends
  (`vita_input.c:754`, "guarantees that Circle cannot remain stuck") may be
  followed by a sample in progress. `HostReleased` covers every other stop.
- *A press may be reported late* (`late`). Nothing orders the ShellUtil callback against
  the samples. When a sample takes the release of a press before the press is reported,
  the late edge counts as another press (see Findings). `PsGesturesObeyed` exempts what
  follows from such a sample, up to the next press that finds the statics at rest, and
  nothing else; a report that comes late without a sample having acted is covered.
  The user's own steps are slower than reports and samples: a press has been seen and
  reported before the next one and before 250 ms more have gone.
- *A callback and a sample end before the next session starts.* The check and the
  assignment in `vita_shell_event_handler` are two steps, so an edge may otherwise
  cross into a new session, which `vita_input.c:157` means to exclude.
- *A setup that overlaps a free loop* loses buffers (see Findings), and the loop clears
  the mark of the next pool as pending, so that this pool is never released.
  `PoolsApart` and `PoolReleased` exempt what follows.
- *Only Apps schedules the release of the pool* (`page_apps.cpp:248`). When `page_stream` does
  not open, Back closes Apps under a running session (`page.cpp:146`); the main page
  ignores the end of that session and nothing ever gives its pool back: the next setup
  overwrites the handles. `PoolReleased` exempts exactly these pools (`unscheduled`).
- *A launch may overtake the last event of the one before it*, which then names the new
  application (see `HostEvents`). `EventsAsPromised` allows that one exchange.

## Findings

`frames_overlap`: `ReleaseFrameBuffersTask` compares generations and then calls
the free loop on the main thread; `vita_video_setup` may start a new generation
between the two and the loop then frees the new session's buffers, contrary to
the comment above the check.

`frames_tearing`: the decoder advances through three buffers without asking what
is shown. When the main thread misses two outputs, the buffer on the screen is
decoded into, contrary to the comment on triple buffering.

`input_late`: a sample shows PS, ShellUtil's callback passes its check, the next sample
shows PS released and starts the 250 ms, and only then the callback sets the edge. The
sample after that takes the edge for a second press within the window and stops the
stream. `ROADMAP.md:1308` and `1322` say that a single press never does.

## Proofs

| Theorem | Module | Argument |
|---|---|---|
| `QueueTyped`, `QueueHoldsUntaken`, `QueueImplementsLog` | `EventQueueProofs` | `QueueInv` is inductive together with `TypeOK`: the ring is the ordered part of the log behind `taken`, each slot the latest invalidation of its type. The refinement follows because the smallest stamp is the first position that is not superseded. For every capacity and all event types. |
| `SessionTyped`, `SessionSafe`, `SessionEventsPaired`, `SessionReleasesTransport`, `SessionInterrupts`, `SessionRunsAnnounced` | `HostControlProofs` | `OneTerminalEvent` alone is not inductive: `SessionInv` adds, for every place of the owner, which events were published, whether transport and input are up, and which flags an interrupt leaves. The step lemma goes action by action. |
| `HostKeepsClient`, `HostRunsSessions`, `HostEventsPaired` | `HostControlProofs` | `ClientInv` strengthens `ClientOutlivesSession` with which holders of the mutex keep the client and which exclude a session. Every step of the composition is a step or a stutter of `StreamSession`, so its theorems carry over. |
| `HostLeavesNothing`, `HostNamesApplication`, `HostCacheFollows`, `HostAdapterFollows`, `HostClosedIsFinal` | `HostControlProofs` | `HostInv` says what each holder of the mutex has still to do, and what an event of the session has told so far: which application the host plays for the whole of a session, when a cached list may stand, and that the adapter's state differs from the API's only between the assignment in `on_stream_event` and its emit. It rests on the session's own invariant: a session has an owner while anything is marked as streaming. |
| `HostSpeaksAsPromised` | `HostControlProofs` | `SeenInv` adds to `HostInv` that the UI waits exactly while its start holds the mutex or the session has yet to say its last event, that the session is then the one it asked for unless a launch has overtaken its last event, and that a request admitted before a disconnect ends before the disconnect begins. Each action then maps to one action of `HostEvents` or to a stutter: the callback's second step to `Started` or `Ended`, the cleanup worker's last to `Closes`. For any hosts and applications. |
| `YesAnswersQuestion`, `PairingPageHearsItsAttempt`, `CompletionIsOwn`, `OneAnswerEach`, `TwoEventsAtMost`, `NobodyWaitsInVain` | `ForegroundWorkflowProofs` | `CoreInv` says who owes the answer of the operation in progress (`JobsInv`), what each waiting event says of the rest (`Waits`), and in which order two events may wait (`Before`). `StreamInv` adds the stream's events, as long as every session that started found its `page_stream` opened (`unseen = {}`): two waiting events then differ in their slot, an answer and what ended after it, so that two entries suffice. Without that premise `SessionsInv` says that events of at most two sessions wait, because the loop has drained the queue before a second launch, and with it a launch's answer finds room. For every number of attempts. |
| `FramesTyped`, `SampledLives`, `PoolsStayApart` | `FramePoolProofs` | `FrameInv` adds to `SampledMemoryLives` where the session is against its events in the inbox (`SessionInv`), that a free loop runs with no page, surface or fetched frame (`ViewInv`), and that the codec's table holds only allocated blocks of the current generation (`PoolInv`). `PoolsApart` holds because no overlap means that the loop frees the pool it was scheduled for. For any number of buffers, delays and sessions. |
| `NetworkStaysQuiet`, `DialogsWait`, `PageRunsScans` | `MainBackgroundProofs` | Every step of the composition is a step or a stutter of `HostAvailability`, so its theorems carry over. `BackgroundInv` joins what the page has cancelled with what the search and the scans still do, and is inductive with `ScanInv`: a connect job trusts the barrier alone to have drained the queue (`BarrierCovers`). |
| `AvailabilityTyped`, `BarrierHolds`, `AvailabilityFresh` | `HostAvailabilityProofs` | `ScanInv`: the queue is strictly increasing, none of its scans is done, and its last is the barrier. `FreshInv` adds where the worker stands: before it reaches the scan that is read nothing is recorded or inherited there, while it runs exactly the entries behind it are answered, and an answer is never newer than `heard`. Freshness needs both: only an empty queue lets a new scan inherit, and the barrier is what tells that the queue is empty. |
| `TrustIsProven`, `PeerIsAuthenticated` | `GameStreamClientProofs` | `TrustInv` adds to `TrustProven` what happens around the last exchange: its candidate's PIN has been verified, and the certificate that returns if it fails was trusted. The store's operations enter only through the lemma that none of them writes a certificate. `PeerInv` adds how far the job has come: no connection is open while one is made, credentials come first, and the pinned PC has been spoken to before a 401 or an answer ends the connect. For any PCs, addresses and names and any number of operations and crashes. |
| `RevisionSuffices`, `PageListIsCurrent` | `MainBackgroundProofs` | `RevisionInv`: the copy's revision is never ahead of the list's, and equal revisions mean equal lists. The step that needs work is the expiry, which has to leave the list alone exactly when it leaves the revision alone: `KeptHosts` shows by induction on the length that nothing was dropped if as many hosts remain. The second theorem carries the first through the steps of the page. |
| `RestartFindsHosts` | `GameStreamClientProofs` | `StoreInv` says what an interrupted operation has left: a directory that counts as saved holds the file of the record it belongs to (`KeptInv`), and everything still to be written or removed does not count as saved and is in the list (`SavingInv`). Every operation that saves changes the list at one place (`ChangesOnePlace`). What a restart makes of the files is then computed: an order of the directory names each file once and, being finite, all of them (`OrdersReadAll`); both passes of the load are folds, and over files of different PCs each appends every record as it is (`LoadKeepsAll`, by induction on the place). |
| `MarkFollowsPin` | `GameStreamClientProofs` | `PinInv` follows the record through the connect job: the path is first that of the record the host is found as (`CertificatePath`), then of one that bears the PC's UUID (`Owned`), because the record that takes the UUID is either the one found or one that no part of the host's identity had found before (`IdentityOwned`). From there to the mark nobody changes the list (`Undisturbed`), and among different PCs the UUID finds its own record (`OwnerIsFound`). For every PC whose UUID is known, from an answer or from its record. |
| `InputReleased` | `InputForwardingProofs` | `InputInv` adds to `HostReleased` that a sample about to be sent has withdrawn the release for system UI, that an ignored PS button has no pulse, and that no press is waiting in the second half of a pulse, which therefore cannot begin again before the host has seen its end. |
| `PsObeyed` | `InputForwardingProofs` | `GestureInv` ties what the user does with PS to the statics of `vita_input_process`, gesture by gesture: a press waits for its second chance exactly after an "up" with nothing pending, its release time is then the age of the gesture, and a press seen as held has the gesture's age. A sample that takes a release finds no report due (`GestureReported`), one that finds a report due and changes none of the statics does nothing (`GestureSampled`), and any other sets `late`; a press that finds the statics at rest begins anew (`GestureResumed`). |

The assumptions are those named in the modules: a positive capacity, disjoint
kinds of event types, a nonempty set of applications and of hosts, lists of
saved PCs that hold no PC twice, at least one frame buffer, names of PCs that are
apart from the empty string, from the placeholder MAC and from the absent certificate,
and an absent file that is no file.
One theorem assumes more: `NobodyWaitsInVain` has `Capacity >= 3`: when a session
answers its launch, the two events of the session before it may still wait; the ring
of the code has sixteen entries (`include/app/event_queue.h:10`).

Left to TLC: liveness and everything that
needs fairness (`StopCompletes`, `DisconnectCompletes`, `ShutdownCompletes`,
`WaitEnds`, `PoolReleased`, `SearchFollowsRequests`, `BackgroundYields`,
`ShortPressForwarded`), which is out of the prover's reach. Every invariant and every
action property that a passing run checks is a theorem. The inductions over lists that
three of them need are made without the library's induction rules, which take an
operator: a set of numbers that holds 0 and with each its successor is all of `Nat`
(`NatSetInduction`), because the rest would have a least element. What `FoldLeft` or a
recursive function computes is first shown to exist (`FoldExists`, `KeepLoopExists`).

## Not modelled, and the plan

Outside the model for good: mDNS, XML and SPS parsing (codecs), TLS and HTTP,
audio and video decoding, layout and texts, logging, memory tracing.

Also left out, and why: statistics (counters for display), settings (a key-value file
and menus on one thread), touch and motion (coordinates forwarded as they come, with
no state beyond the finger they follow), the audio and system-video devices, thread attributes. The
application list and the launch and quit requests of the GameStream client are steps
of `HostControl`; their XML is a codec.

Next:

1. The rows of the main page: the merge of saved and found PCs, marks, and the dots,
   which are drawn from events that another page may have received
   (`page_main.cpp:1264`).
2. The two threads of the store inside one operation: `find` on the main thread while
   the job thread appends and moves the array.
3. Proofs: that `ForegroundWorkflow` needs no more of the host than `HostEvents`
   promises, and the safety part of the liveness properties: that the steps they wait
   for are never taken back.
