----------------------------- MODULE FramePool -----------------------------
(***************************************************************************)
(* The decoder's framebuffer pool (src/moonlight/vita_video_renderer.c)    *)
(* and the streaming page that shows it (src/pages/page_stream.cpp).       *)
(*                                                                         *)
(* common-c calls setup and cleanup on the session owner and submit on its *)
(* receive thread, which it joins before cleanup.  The PAF main thread     *)
(* opens and closes the page, presents frames and, some frames after the   *)
(* session ended, frees the pool.  The pending frame is exchanged under    *)
(* main_thread_mutex; the pool itself is shared without a lock.            *)
(***************************************************************************)
EXTENDS Integers, Sequences, FiniteSets

CONSTANTS Frames,         \* VITA_VIDEO_FRAME_COUNT, kSurfaceSlotCount
          Delay,          \* frames ReleaseFrameBuffersTask lets pass
          MaxPools,       \* bound on s_frame_pool_generation
          MaxWaiting      \* bound on the stream events unhandled at a launch

ASSUME FramesAssumption ==
    Frames \in Nat \ {0} /\ Delay \in Nat /\ MaxPools \in Nat /\ MaxWaiting \in Nat

VARIABLES
    generation,       \* s_frame_pool_generation
    memblocks,        \* s_frame_memblocks: generation of the block in a slot, 0 = none
    pending_release,  \* s_frame_pool_pending_release
    frame_index,      \* s_frame_index
    renderer,         \* where the renderer's callbacks are
    at,               \* slot the setup loop is at
    overlapped,       \* history: a setup has begun in the middle of the main
                      \* thread's free loop, which no lock prevents
    target,           \* picture.frame.pPicture[0] of the decode in progress
    session,          \* the session owner: "none", "starting", "running", "ended"
                      \* or "failed"
    inbox,            \* stream events the main thread has not handled
    apps,             \* the Apps page is open, so the events are its own
    launching,        \* Apps::m_launching
    foreground,       \* ConnectionService: "idle", "launch" unanswered, "question"
    unscheduled,      \* history: the end of a session of this pool was handled
                      \* without Apps
    page,             \* s_instance != NULL
    frame,            \* s_pending_frame, or NoBlock
    fetched,          \* PresentTask's copy of it
    surfaces,         \* buffers the page's graph::Surface objects reference
    shown,            \* the buffer of the plane's texture
    tasks,            \* registered ReleaseFrameBuffersTasks
    release_delay,    \* s_release_delay
    freeing,          \* slot the free loop is at, -1 outside the loop
    task_pool,        \* the generation that task was registered for
    allocated         \* blocks the kernel has handed out and not got back

pool  == <<generation, memblocks, pending_release, frame_index, allocated>>
codec == <<renderer, at, target, overlapped>>
menu  == <<apps, launching, foreground, unscheduled>>
life  == <<session, inbox, menu>>
view  == <<page, frame, fetched, surfaces, shown>>
timer == <<tasks, release_delay, freeing, task_pool>>
vars  == <<pool, codec, life, view, timer>>

Slots   == 0 .. Frames - 1
NoBlock == <<0, 0>>
Block(s) == <<memblocks[s], s>>

Init ==
    /\ generation = 0 /\ memblocks = [s \in Slots |-> 0]
    /\ pending_release = FALSE /\ frame_index = 0 /\ allocated = {}
    /\ renderer = "none" /\ at = 0 /\ target = NoBlock
    /\ session = "none" /\ inbox = << >>
    /\ apps = FALSE /\ launching = FALSE /\ foreground = "idle" /\ unscheduled = FALSE
    /\ page = FALSE /\ frame = NoBlock /\ fetched = NoBlock
    /\ surfaces = {} /\ shown = NoBlock
    /\ tasks = {} /\ release_delay = 0 /\ freeing = -1 /\ task_pool = 0
    /\ overlapped = FALSE

-----------------------------------------------------------------------------
(* The session owner and common-c *)

(* The main thread runs one handler or task at a time.                     *)
MainIdle == freeing = -1 /\ fetched = NoBlock

(* Apps::SelectApp, or Yes to the question of ConfirmQuitAndStart, which   *)
(* leaves m_launching alone; events of the session before may be unhandled.*)
Launch ==
    /\ MainIdle /\ apps /\ ~page /\ session = "none" /\ Len(inbox) <= MaxWaiting
    /\ \/ foreground = "idle" /\ ~launching /\ launching' = TRUE
       \/ foreground = "question" /\ UNCHANGED launching
    /\ session' = "starting" /\ foreground' = "launch"
    /\ UNCHANGED <<pool, codec, inbox, apps, unscheduled, view, timer>>

(* The start fails before, or instead of, the video setup.                 *)
StartFails ==
    /\ session = "starting" /\ renderer = "none"
    /\ session' = "failed"
    /\ UNCHANGED <<pool, codec, inbox, menu, view, timer>>

(* vita_video_setup up to the allocation loop: the new generation disowns  *)
(* whatever release was still to come.                                     *)
SetupBegins ==
    /\ session = "starting" /\ renderer = "none"
    /\ generation < MaxPools
    /\ overlapped' = (overlapped \/ freeing # -1)
    /\ generation' = generation + 1
    /\ pending_release' = FALSE
    /\ frame_index' = 0
    /\ renderer' = "setup" /\ at' = 0
    /\ unscheduled' = FALSE
    /\ UNCHANGED <<memblocks, allocated, target, session, inbox, apps, launching, foreground,
                   view, timer>>

(* One slot is allocated and mapped.                                       *)
SetupAllocates ==
    /\ renderer = "setup" /\ at < Frames
    /\ memblocks' = [memblocks EXCEPT ![at] = generation]
    /\ allocated' = allocated \cup {<<generation, at>>}
    /\ at' = at + 1
    /\ UNCHANGED <<overlapped, generation, pending_release, frame_index, renderer, target,
                   life, view, timer>>

(* fail_frame_pool: what the slots name is unmapped and freed.  The slot   *)
(* that failed no longer names the block an older pool left in it.         *)
(* common-c does not call cleanup after a failed setup.                    *)
SetupFails ==
    /\ renderer = "setup" /\ at < Frames
    /\ allocated' = allocated \ {Block(s) : s \in Slots \ {at}}
    /\ memblocks' = [s \in Slots |-> 0]
    /\ renderer' = "none" /\ session' = "failed"
    /\ UNCHANGED <<overlapped, generation, pending_release, frame_index, at, target, inbox,
                   menu, view, timer>>

SetupReady ==
    /\ renderer = "setup" /\ at = Frames
    /\ renderer' = "ready"
    /\ UNCHANGED <<overlapped, pool, at, target, life, view, timer>>

(* on_connection_started publishes STREAM_STARTED.                         *)
Announce ==
    /\ session = "starting" /\ renderer \in {"ready", "decoding"}
    /\ session' = "running"
    /\ inbox' = Append(inbox, "STARTED")
    /\ UNCHANGED <<pool, codec, menu, view, timer>>

(* vita_video_submit up to sceAvcdecDecode; without a buffer it only asks  *)
(* for another IDR frame.                                                  *)
SubmitDecodes ==
    /\ renderer = "ready" /\ memblocks[frame_index] # 0
    /\ renderer' = "decoding" /\ target' = Block(frame_index)
    /\ UNCHANGED <<overlapped, pool, at, life, view, timer>>

(* The decode failed, had no output, or the pacer drops it: the same       *)
(* buffer is decoded into next.                                            *)
SubmitKeepsBuffer ==
    /\ renderer = "decoding"
    /\ renderer' = "ready" /\ target' = NoBlock
    /\ UNCHANGED <<overlapped, pool, at, life, view, timer>>

(* moonlight_video_present -> QueueFrame, then the next buffer.            *)
SubmitPresents ==
    /\ renderer = "decoding"
    /\ renderer' = "ready" /\ target' = NoBlock
    /\ frame' = IF page /\ memblocks[frame_index] # 0 THEN Block(frame_index) ELSE frame
    /\ frame_index' = (frame_index + 1) % Frames
    /\ UNCHANGED <<overlapped, generation, memblocks, pending_release, allocated, at, life,
                   page, fetched, surfaces, shown, timer>>

(* Mutant: cleanup frees the pool itself.                                  *)
CleanupFrees ==
    /\ renderer = "ready" /\ session \in {"starting", "running"}
    /\ renderer' = "none" /\ session' = IF session = "running" THEN "ended" ELSE "failed"
    /\ frame' = NoBlock
    /\ allocated' = allocated \ {Block(s) : s \in Slots}
    /\ memblocks' = [s \in Slots |-> 0]
    /\ UNCHANGED <<overlapped, generation, pending_release, frame_index, at, target, inbox,
                   menu, page, fetched, surfaces, shown, timer>>

(* vita_video_cleanup, after the receive thread is joined: the pool stays  *)
(* until the page is gone.  (The build for the system application may also *)
(* fail to destroy its decoder and then marks nothing; that build option   *)
(* is not modelled.)                                                       *)
Cleanup ==
    /\ renderer = "ready" /\ session \in {"starting", "running"}
    /\ renderer' = "none" /\ session' = IF session = "running" THEN "ended" ELSE "failed"
    /\ frame' = NoBlock
    /\ pending_release' = TRUE
    /\ UNCHANGED <<overlapped, generation, memblocks, frame_index, allocated, at, target,
                   inbox, menu, page, fetched, surfaces, shown, timer>>

(* STREAM_STOPPED or STREAM_FAILED, then the owner is gone.                *)
SessionEnds ==
    /\ session \in {"ended", "failed"}
    /\ session' = "none"
    /\ inbox' = Append(inbox, IF session = "ended" THEN "STOPPED" ELSE "FAILED")
    /\ UNCHANGED <<pool, codec, menu, view, timer>>

-----------------------------------------------------------------------------
(* The main thread *)

(* A connection is ready or a pairing finished: Apps opens.  The owner of  *)
(* the last session is gone by then and its event is handled.              *)
OpenApps ==
    /\ MainIdle /\ ~apps /\ session = "none" /\ inbox = << >>
    /\ apps' = TRUE /\ launching' = FALSE
    /\ UNCHANGED <<pool, codec, session, inbox, foreground, unscheduled, view, timer>>

(* Back, which only a busy ConnectionService refuses: a session whose      *)
(* streaming page did not open goes on without Apps.                       *)
CloseApps ==
    /\ MainIdle /\ apps /\ ~page /\ foreground = "idle"
    /\ apps' = FALSE
    /\ UNCHANGED <<pool, codec, session, inbox, launching, foreground, unscheduled, view, timer>>

(* No to the question, or a Yes the session owner refuses.                 *)
Declines ==
    /\ MainIdle /\ foreground = "question"
    /\ foreground' = "idle"
    /\ UNCHANGED <<pool, codec, session, inbox, apps, launching, unscheduled, view, timer>>

(* ProcessEventTask takes the next event: it answers the launch first, and *)
(* a failure may be the conflict that asks the question.                   *)
Event(e) ==
    /\ MainIdle /\ inbox # << >> /\ Head(inbox) = e
    /\ inbox' = Tail(inbox)
    /\ \/ foreground = "launch" /\ foreground' = "idle"
       \/ foreground = "launch" /\ e = "FAILED" /\ foreground' = "question"
       \/ foreground # "launch" /\ UNCHANGED foreground
    /\ UNCHANGED <<pool, codec, session, apps, fetched, freeing, task_pool>>

(* STREAM_STARTED: the page opens, or fails to, as it must under a dialog. *)
OpenPage ==
    /\ Event("STARTED") /\ apps
    /\ page' \in {page} \cup (IF foreground' = "question" THEN {} ELSE {TRUE})
    /\ frame' = IF page' /\ ~page THEN NoBlock ELSE frame
    /\ UNCHANGED <<launching, unscheduled, surfaces, shown, tasks, release_delay>>

(* Mutant: only a session with a page schedules the release.               *)
ClosePageReleasesIfOpen ==
    /\ Event("STOPPED") /\ apps
    /\ launching' = FALSE
    /\ page' = FALSE /\ frame' = IF page THEN NoBlock ELSE frame
    /\ surfaces' = {} /\ shown' = NoBlock
    /\ tasks' = IF page THEN tasks \cup {generation} ELSE tasks
    /\ release_delay' = Delay
    /\ UNCHANGED unscheduled

(* STREAM_STOPPED: the page and its surfaces go, then the release is       *)
(* scheduled.                                                              *)
ClosePage ==
    /\ Event("STOPPED") /\ apps
    /\ launching' = FALSE
    /\ page' = FALSE /\ frame' = IF page THEN NoBlock ELSE frame
    /\ surfaces' = {} /\ shown' = NoBlock
    /\ tasks' = tasks \cup {generation} /\ release_delay' = Delay
    /\ UNCHANGED unscheduled

(* STREAM_FAILED: a failed setup may have left buffers without a page.     *)
FailLaunch ==
    /\ Event("FAILED") /\ apps
    /\ launching' = FALSE
    /\ tasks' = tasks \cup {generation} /\ release_delay' = Delay
    /\ UNCHANGED <<unscheduled, page, frame, surfaces, shown>>

(* Without Apps the main page has the events, and ignores these.           *)
IgnoreEvent ==
    /\ \E e \in {"STARTED", "STOPPED", "FAILED"} :
          /\ Event(e) /\ ~apps
          /\ unscheduled' = (unscheduled \/ e # "STARTED")
    /\ UNCHANGED <<launching, page, frame, surfaces, shown, tasks, release_delay>>

(* PresentTask takes the pending frame under the lock ...                  *)
FetchFrame ==
    /\ MainIdle /\ page /\ frame # NoBlock
    /\ fetched' = frame /\ frame' = NoBlock
    /\ UNCHANGED <<pool, codec, life, page, surfaces, shown, timer>>

(* ... and shows it after the unlock, if a surface slot is left for it.    *)
PresentFrame ==
    /\ fetched # NoBlock
    /\ fetched' = NoBlock
    /\ IF fetched \in surfaces \/ Cardinality(surfaces) < Frames
       THEN surfaces' = surfaces \cup {fetched} /\ shown' = fetched
       ELSE UNCHANGED <<surfaces, shown>>
    /\ UNCHANGED <<pool, codec, life, page, frame, timer>>

(* Mutant: the generation of the task is not compared.                     *)
AnyTaskValid(g) == ~page

(* The guard of ReleaseFrameBuffersTask.                                   *)
TaskValid(g) == g = generation /\ ~page

(* A task of an older pool, or one that finds a page, unregisters.         *)
TaskExpires(g) ==
    /\ MainIdle /\ g \in tasks /\ ~TaskValid(g)
    /\ tasks' = tasks \ {g}
    /\ UNCHANGED <<pool, codec, life, view, release_delay, freeing, task_pool>>

TaskWaits(g) ==
    /\ MainIdle /\ g \in tasks /\ TaskValid(g) /\ release_delay # 0
    /\ release_delay' = release_delay - 1
    /\ UNCHANGED <<pool, codec, life, view, tasks, freeing, task_pool>>

(* moonlight_video_release_frame_buffers: nothing to do, or into the loop. *)
TaskReleases(g) ==
    /\ MainIdle /\ g \in tasks /\ TaskValid(g) /\ release_delay = 0
    /\ tasks' = tasks \ {g}
    /\ freeing' = IF pending_release THEN 0 ELSE -1
    /\ task_pool' = IF pending_release THEN g ELSE task_pool
    /\ UNCHANGED <<pool, codec, life, view, release_delay>>

FreeSlot ==
    /\ freeing \in Slots
    /\ allocated' = allocated \ {Block(freeing)}
    /\ memblocks' = [memblocks EXCEPT ![freeing] = 0]
    /\ freeing' = freeing + 1
    /\ UNCHANGED <<generation, pending_release, frame_index, codec, life, view,
                   tasks, release_delay, task_pool>>

FreeEnds ==
    /\ freeing = Frames
    /\ freeing' = -1
    /\ frame_index' = 0 /\ pending_release' = FALSE
    /\ UNCHANGED <<generation, memblocks, allocated, codec, life, view, tasks,
                   release_delay, task_pool>>

-----------------------------------------------------------------------------
Free == FreeSlot \/ FreeEnds
Task == \E g \in tasks : TaskExpires(g) \/ TaskWaits(g) \/ TaskReleases(g)
Handle == OpenPage \/ ClosePage \/ FailLaunch \/ IgnoreEvent \/ PresentFrame

Next ==
    \/ OpenApps \/ CloseApps \/ Launch \/ Declines \/ StartFails
    \/ SetupBegins \/ SetupAllocates \/ SetupFails \/ SetupReady
    \/ Announce \/ SubmitDecodes \/ SubmitKeepsBuffer \/ SubmitPresents
    \/ Cleanup \/ SessionEnds
    \/ FetchFrame \/ Handle \/ Task \/ Free

Spec == Init /\ [][Next]_vars

(* PAF runs its call list and the event task every frame, and an owner     *)
(* that is done publishes its terminal event.                              *)
FairSpec == Spec /\ WF_vars(Handle) /\ WF_vars(Task) /\ WF_vars(Free) /\ WF_vars(SessionEnds)

-----------------------------------------------------------------------------
(* PAF never samples freed memory: what the page's surfaces, its plane,    *)
(* the pending frame and the fetched frame reference is still allocated,   *)
(* whichever of cleanup, the page's end and a late release comes first.    *)
SampledMemoryLives ==
    (surfaces \cup {frame, fetched, shown}) \ {NoBlock} \subseteq allocated

(* The decoder never writes into freed memory.                             *)
DecodedMemoryLives == renderer = "decoding" => target \in allocated

(* "A delayed task from an older decoder session must never release the    *)
(* framebuffer pool belonging to a newer session": what the free loop is   *)
(* about to free is of the generation its task was registered for.         *)
ReleaseSparesNewPool ==
    freeing \in Slots => memblocks[freeing] \in {0, task_pool}

(* As long as no setup falls into the free loop, a late release neither    *)
(* takes blocks of a newer pool nor one the decoder writes into, whatever  *)
(* became of the tasks of the sessions between.                            *)
PoolsApart == overlapped \/ (ReleaseSparesNewPool /\ DecodedMemoryLives)

(* "Triple buffering keeps this buffer out of PAF's current presentation   *)
(* while the decoder reuses it."                                           *)
ShownFrameIntact == renderer = "decoding" => target # shown

(* The pool of an ended session is given back unless the next session      *)
(* comes first, with a page or without: only Apps schedules the release,   *)
(* so a session that outlives Apps (its streaming page did not open, Back  *)
(* closed Apps) keeps its pool, and unscheduled exempts it.  (A free loop  *)
(* that overlaps a setup may also take away the mark of the next session's *)
(* pool, which then stays.)                                                *)
PoolReleased ==
    pending_release ~>
        (\A s \in Slots : memblocks[s] = 0) \/ session = "starting" \/ overlapped \/ unscheduled

-----------------------------------------------------------------------------
(* The inductive strengthening.                                            *)
TypeOK ==
    /\ generation \in Nat /\ memblocks \in [Slots -> Nat]
    /\ pending_release \in BOOLEAN /\ frame_index \in Slots
    /\ renderer \in {"none", "setup", "ready", "decoding"} /\ at \in 0 .. Frames
    /\ session \in {"none", "starting", "running", "ended", "failed"}
    /\ tasks \subseteq 0 .. generation /\ release_delay \in Nat
    /\ freeing \in -1 .. Frames /\ task_pool \in Nat /\ page \in BOOLEAN

(* The renderer works for a live session, and one that is being set up has *)
(* shown nothing yet, even if an event of the session before it opened the *)
(* page.                                                                   *)
SessionInv ==
    /\ renderer = "setup" => session = "starting"
    /\ renderer # "none" => session \in {"starting", "running"}
    /\ session = "starting" /\ renderer \in {"none", "setup"} =>
          surfaces = {} /\ frame = NoBlock /\ fetched = NoBlock /\ shown = NoBlock

(* What is referenced without a page: nothing.  The free loop runs without *)
(* one.                                                                    *)
ViewInv ==
    /\ ~page => surfaces = {} /\ frame = NoBlock /\ fetched = NoBlock /\ shown = NoBlock
    /\ freeing # -1 => ~page

(* A slot names an allocated block, of the current pool once setup has     *)
(* passed the slot; and only an ended session's pool is marked.            *)
PoolInv ==
    /\ \A s \in Slots : memblocks[s] # 0 => Block(s) \in allocated
    /\ \A s \in Slots : renderer # "setup" \/ s < at => memblocks[s] \in {0, generation}
    /\ pending_release => renderer = "none"
    /\ ~overlapped /\ freeing # -1 => renderer = "none" /\ task_pool = generation
    /\ ~overlapped => DecodedMemoryLives

FrameInv == TypeOK /\ SessionInv /\ ViewInv /\ PoolInv /\ SampledMemoryLives
=============================================================================
