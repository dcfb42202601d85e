-------------------------- MODULE FramePoolProofs --------------------------
(***************************************************************************)
(* For every number of buffers, every release delay and any number of      *)
(* sessions: PAF never samples freed memory, and without a setup in the    *)
(* middle of a free loop a late release spares the next session's pool.    *)
(***************************************************************************)
EXTENDS FramePool, TLAPS

USE FramesAssumption DEF vars, pool, codec, menu, life, view, timer

(* The session owner: launch, setup and their failures.                    *)
LEMMA SetupKeeps ==
    ASSUME FrameInv, Launch \/ StartFails \/ SetupBegins \/ SetupAllocates \/
       SetupFails \/ SetupReady \/ Announce
    PROVE  FrameInv'
<1> USE DEF FrameInv
<1>1. ASSUME Launch PROVE FrameInv'
  <2>1. TypeOK'
    BY <1>1 DEF Launch, TypeOK, Slots
  <2>2. SessionInv'
    BY <1>1 DEF Launch, SessionInv, ViewInv, MainIdle
  <2>3. ViewInv'
    BY <1>1 DEF Launch, ViewInv, SessionInv, MainIdle
  <2>4. PoolInv'
    BY <1>1 DEF Launch, PoolInv, DecodedMemoryLives, TypeOK, Slots, Block,
       SessionInv
  <2>5. SampledMemoryLives'
    BY <1>1 DEF Launch, SampledMemoryLives, ViewInv, SessionInv, Block,
       NoBlock, PoolInv, TypeOK
  <2> QED BY <2>1, <2>2, <2>3, <2>4, <2>5
<1>2. ASSUME StartFails PROVE FrameInv'
  <2>1. TypeOK'
    BY <1>2 DEF StartFails, TypeOK, Slots
  <2>2. SessionInv'
    BY <1>2 DEF StartFails, SessionInv, MainIdle
  <2>3. ViewInv'
    BY <1>2 DEF StartFails, ViewInv, SessionInv, MainIdle
  <2>4. PoolInv'
    BY <1>2 DEF StartFails, PoolInv, DecodedMemoryLives, TypeOK, Slots, Block,
       SessionInv
  <2>5. SampledMemoryLives'
    BY <1>2 DEF StartFails, SampledMemoryLives, ViewInv, SessionInv, Block,
       NoBlock, PoolInv, TypeOK
  <2> QED BY <2>1, <2>2, <2>3, <2>4, <2>5
<1>3. ASSUME SetupBegins PROVE FrameInv'
  <2>1. TypeOK'
    <3>1. tasks' \subseteq 0 .. generation' /\ generation' \in Nat
      BY <1>3 DEF SetupBegins, TypeOK
    <3>2. frame_index' \in Slots /\ at' \in 0 .. Frames
      BY <1>3 DEF SetupBegins, Slots
    <3> QED
      BY <1>3, <3>1, <3>2 DEF SetupBegins, TypeOK, Slots
  <2>2. SessionInv'
    BY <1>3 DEF SetupBegins, SessionInv, MainIdle
  <2>3. ViewInv'
    BY <1>3 DEF SetupBegins, ViewInv, SessionInv, MainIdle
  <2>4. PoolInv'
    <3>1. \A s \in Slots : memblocks'[s] # 0 => Block(s)' \in allocated'
      BY <1>3 DEF SetupBegins, PoolInv, Block
    <3>2. \A s \in Slots : renderer' # "setup" \/ s < at' => memblocks'[s] \in {0, generation'}
      BY <1>3 DEF SetupBegins, Slots
    <3>3. ~pending_release'
      BY <1>3 DEF SetupBegins
    <3>4. overlapped' \/ freeing' = -1
      BY <1>3 DEF SetupBegins
    <3>5. DecodedMemoryLives'
      BY <1>3 DEF SetupBegins, DecodedMemoryLives
    <3> QED
      BY <3>1, <3>2, <3>3, <3>4, <3>5 DEF PoolInv
  <2>5. SampledMemoryLives'
    BY <1>3 DEF SetupBegins, SampledMemoryLives, ViewInv, SessionInv, Block,
       NoBlock, PoolInv, TypeOK
  <2> QED BY <2>1, <2>2, <2>3, <2>4, <2>5
<1>4. ASSUME SetupAllocates PROVE FrameInv'
  <2>1. TypeOK'
    BY <1>4 DEF SetupAllocates, TypeOK, Slots
  <2>2. SessionInv'
    BY <1>4 DEF SetupAllocates, SessionInv, MainIdle
  <2>3. ViewInv'
    BY <1>4 DEF SetupAllocates, ViewInv, SessionInv, MainIdle
  <2>4. PoolInv'
    BY <1>4 DEF SetupAllocates, PoolInv, DecodedMemoryLives, TypeOK, Slots,
       Block, SessionInv
  <2>5. SampledMemoryLives'
    BY <1>4 DEF SetupAllocates, SampledMemoryLives, ViewInv, SessionInv,
       Block, NoBlock, PoolInv, TypeOK
  <2> QED BY <2>1, <2>2, <2>3, <2>4, <2>5
<1>5. ASSUME SetupFails PROVE FrameInv'
  <2>1. TypeOK'
    BY <1>5 DEF SetupFails, TypeOK, Slots
  <2>2. SessionInv'
    BY <1>5 DEF SetupFails, SessionInv, MainIdle
  <2>3. ViewInv'
    BY <1>5 DEF SetupFails, ViewInv, SessionInv, MainIdle
  <2>4. PoolInv'
    BY <1>5 DEF SetupFails, PoolInv, DecodedMemoryLives, TypeOK, Slots, Block,
       SessionInv
  <2>5. SampledMemoryLives'
    BY <1>5 DEF SetupFails, SampledMemoryLives, ViewInv, SessionInv, Block,
       NoBlock, PoolInv, TypeOK
  <2> QED BY <2>1, <2>2, <2>3, <2>4, <2>5
<1>6. ASSUME SetupReady PROVE FrameInv'
  <2>1. TypeOK'
    BY <1>6 DEF SetupReady, TypeOK, Slots
  <2>2. SessionInv'
    BY <1>6 DEF SetupReady, SessionInv, MainIdle
  <2>3. ViewInv'
    BY <1>6 DEF SetupReady, ViewInv, SessionInv, MainIdle
  <2>4. PoolInv'
    BY <1>6 DEF SetupReady, PoolInv, DecodedMemoryLives, TypeOK, Slots, Block,
       SessionInv
  <2>5. SampledMemoryLives'
    BY <1>6 DEF SetupReady, SampledMemoryLives, ViewInv, SessionInv, Block,
       NoBlock, PoolInv, TypeOK
  <2> QED BY <2>1, <2>2, <2>3, <2>4, <2>5
<1>7. ASSUME Announce PROVE FrameInv'
  <2>1. TypeOK'
    BY <1>7 DEF Announce, TypeOK, Slots
  <2>2. SessionInv'
    BY <1>7 DEF Announce, SessionInv, MainIdle
  <2>3. ViewInv'
    BY <1>7 DEF Announce, ViewInv, SessionInv, MainIdle
  <2>4. PoolInv'
    BY <1>7 DEF Announce, PoolInv, DecodedMemoryLives, TypeOK, Slots, Block,
       SessionInv
  <2>5. SampledMemoryLives'
    BY <1>7 DEF Announce, SampledMemoryLives, ViewInv, SessionInv, Block,
       NoBlock, PoolInv, TypeOK
  <2> QED BY <2>1, <2>2, <2>3, <2>4, <2>5
<1> QED BY <1>1, <1>2, <1>3, <1>4, <1>5, <1>6, <1>7

(* common-c: decoding, and the end of a session.                           *)
LEMMA DecoderKeeps ==
    ASSUME FrameInv, SubmitDecodes \/ SubmitKeepsBuffer \/ SubmitPresents \/
       Cleanup \/ SessionEnds
    PROVE  FrameInv'
<1> USE DEF FrameInv
<1>1. ASSUME SubmitDecodes PROVE FrameInv'
  <2>1. TypeOK'
    BY <1>1 DEF SubmitDecodes, TypeOK, Slots
  <2>2. SessionInv'
    BY <1>1 DEF SubmitDecodes, SessionInv, MainIdle
  <2>3. ViewInv'
    BY <1>1 DEF SubmitDecodes, ViewInv, SessionInv, MainIdle
  <2>4. PoolInv'
    BY <1>1 DEF SubmitDecodes, PoolInv, DecodedMemoryLives, TypeOK, Slots,
       Block, SessionInv
  <2>5. SampledMemoryLives'
    BY <1>1 DEF SubmitDecodes, SampledMemoryLives, ViewInv, SessionInv, Block,
       NoBlock, PoolInv, TypeOK
  <2> QED BY <2>1, <2>2, <2>3, <2>4, <2>5
<1>2. ASSUME SubmitKeepsBuffer PROVE FrameInv'
  <2>1. TypeOK'
    BY <1>2 DEF SubmitKeepsBuffer, TypeOK, Slots
  <2>2. SessionInv'
    BY <1>2 DEF SubmitKeepsBuffer, SessionInv, MainIdle
  <2>3. ViewInv'
    BY <1>2 DEF SubmitKeepsBuffer, ViewInv, SessionInv, MainIdle
  <2>4. PoolInv'
    BY <1>2 DEF SubmitKeepsBuffer, PoolInv, DecodedMemoryLives, TypeOK, Slots,
       Block, SessionInv
  <2>5. SampledMemoryLives'
    BY <1>2 DEF SubmitKeepsBuffer, SampledMemoryLives, ViewInv, SessionInv,
       Block, NoBlock, PoolInv, TypeOK
  <2> QED BY <2>1, <2>2, <2>3, <2>4, <2>5
<1>3. ASSUME SubmitPresents PROVE FrameInv'
  <2>1. TypeOK'
    BY <1>3 DEF SubmitPresents, TypeOK, Slots
  <2>2. SessionInv'
    BY <1>3 DEF SubmitPresents, SessionInv, MainIdle
  <2>3. ViewInv'
    BY <1>3 DEF SubmitPresents, ViewInv, SessionInv, MainIdle
  <2>4. PoolInv'
    BY <1>3 DEF SubmitPresents, PoolInv, DecodedMemoryLives, TypeOK, Slots,
       Block, SessionInv
  <2>5. SampledMemoryLives'
    BY <1>3 DEF SubmitPresents, SampledMemoryLives, ViewInv, SessionInv,
       Block, NoBlock, PoolInv, TypeOK
  <2> QED BY <2>1, <2>2, <2>3, <2>4, <2>5
<1>4. ASSUME Cleanup PROVE FrameInv'
  <2>1. TypeOK'
    BY <1>4 DEF Cleanup, TypeOK, Slots
  <2>2. SessionInv'
    BY <1>4 DEF Cleanup, SessionInv, MainIdle
  <2>3. ViewInv'
    BY <1>4 DEF Cleanup, ViewInv, SessionInv, MainIdle
  <2>4. PoolInv'
    BY <1>4 DEF Cleanup, PoolInv, DecodedMemoryLives, TypeOK, Slots, Block,
       SessionInv
  <2>5. SampledMemoryLives'
    BY <1>4 DEF Cleanup, SampledMemoryLives, ViewInv, SessionInv, Block,
       NoBlock, PoolInv, TypeOK
  <2> QED BY <2>1, <2>2, <2>3, <2>4, <2>5
<1>5. ASSUME SessionEnds PROVE FrameInv'
  <2>1. TypeOK'
    BY <1>5 DEF SessionEnds, TypeOK, Slots
  <2>2. SessionInv'
    BY <1>5 DEF SessionEnds, SessionInv, MainIdle
  <2>3. ViewInv'
    BY <1>5 DEF SessionEnds, ViewInv, SessionInv, MainIdle
  <2>4. PoolInv'
    BY <1>5 DEF SessionEnds, PoolInv, DecodedMemoryLives, TypeOK, Slots,
       Block, SessionInv
  <2>5. SampledMemoryLives'
    BY <1>5 DEF SessionEnds, SampledMemoryLives, ViewInv, SessionInv, Block,
       NoBlock, PoolInv, TypeOK
  <2> QED BY <2>1, <2>2, <2>3, <2>4, <2>5
<1> QED BY <1>1, <1>2, <1>3, <1>4, <1>5

(* The main thread's pages and their frames.                               *)
LEMMA PageKeeps ==
    ASSUME FrameInv, OpenApps \/ CloseApps \/ Declines \/ OpenPage \/ ClosePage \/
       FailLaunch \/ IgnoreEvent \/ FetchFrame \/ PresentFrame
    PROVE  FrameInv'
<1> USE DEF FrameInv
<1>1. ASSUME OpenApps PROVE FrameInv'
  <2>1. TypeOK'
    BY <1>1 DEF OpenApps, TypeOK, Slots
  <2>2. SessionInv'
    BY <1>1 DEF OpenApps, SessionInv, ViewInv, MainIdle
  <2>3. ViewInv'
    BY <1>1 DEF OpenApps, ViewInv, MainIdle, TypeOK
  <2>4. PoolInv'
    BY <1>1 DEF OpenApps, PoolInv, DecodedMemoryLives, TypeOK, Slots, Block
  <2>5. SampledMemoryLives'
    BY <1>1 DEF OpenApps, SampledMemoryLives, ViewInv, NoBlock, PoolInv, TypeOK
  <2> QED BY <2>1, <2>2, <2>3, <2>4, <2>5
<1>2. ASSUME CloseApps PROVE FrameInv'
  <2>1. TypeOK'
    BY <1>2 DEF CloseApps, TypeOK, Slots
  <2>2. SessionInv'
    BY <1>2 DEF CloseApps, SessionInv, ViewInv, MainIdle
  <2>3. ViewInv'
    BY <1>2 DEF CloseApps, ViewInv, MainIdle, TypeOK
  <2>4. PoolInv'
    BY <1>2 DEF CloseApps, PoolInv, DecodedMemoryLives, TypeOK, Slots, Block
  <2>5. SampledMemoryLives'
    BY <1>2 DEF CloseApps, SampledMemoryLives, ViewInv, NoBlock, PoolInv, TypeOK
  <2> QED BY <2>1, <2>2, <2>3, <2>4, <2>5
<1>3. ASSUME Declines PROVE FrameInv'
  <2>1. TypeOK'
    BY <1>3 DEF Declines, TypeOK, Slots
  <2>2. SessionInv'
    BY <1>3 DEF Declines, SessionInv, ViewInv, MainIdle
  <2>3. ViewInv'
    BY <1>3 DEF Declines, ViewInv, MainIdle, TypeOK
  <2>4. PoolInv'
    BY <1>3 DEF Declines, PoolInv, DecodedMemoryLives, TypeOK, Slots, Block
  <2>5. SampledMemoryLives'
    BY <1>3 DEF Declines, SampledMemoryLives, ViewInv, NoBlock, PoolInv, TypeOK
  <2> QED BY <2>1, <2>2, <2>3, <2>4, <2>5
<1>4. ASSUME OpenPage PROVE FrameInv'
  <2>1. TypeOK'
    BY <1>4 DEF OpenPage, Event, TypeOK, Slots
  <2>2. SessionInv'
    BY <1>4 DEF OpenPage, Event, SessionInv, ViewInv, MainIdle
  <2>3. ViewInv'
    BY <1>4 DEF OpenPage, Event, ViewInv, MainIdle, TypeOK
  <2>4. PoolInv'
    BY <1>4 DEF OpenPage, Event, PoolInv, DecodedMemoryLives, TypeOK, Slots, Block
  <2>5. SampledMemoryLives'
    BY <1>4 DEF OpenPage, Event, SampledMemoryLives, ViewInv, NoBlock, PoolInv, TypeOK
  <2> QED BY <2>1, <2>2, <2>3, <2>4, <2>5
<1>5. ASSUME ClosePage PROVE FrameInv'
  <2>1. TypeOK'
    <3>1. tasks' = tasks \cup {generation} /\ generation' = generation
      BY <1>5 DEF ClosePage, Event
    <3>2. generation \in 0 .. generation
      BY DEF TypeOK
    <3>3. tasks' \subseteq 0 .. generation'
      BY <3>1, <3>2 DEF TypeOK
    <3> QED
      BY <1>5, <3>3 DEF ClosePage, Event, TypeOK, Slots
  <2>2. SessionInv'
    BY <1>5 DEF ClosePage, Event, SessionInv, ViewInv, MainIdle
  <2>3. ViewInv'
    BY <1>5 DEF ClosePage, Event, ViewInv, MainIdle, TypeOK
  <2>4. PoolInv'
    BY <1>5 DEF ClosePage, Event, PoolInv, DecodedMemoryLives, TypeOK, Slots, Block
  <2>5. SampledMemoryLives'
    BY <1>5 DEF ClosePage, Event, SampledMemoryLives, ViewInv, NoBlock, PoolInv, TypeOK
  <2> QED BY <2>1, <2>2, <2>3, <2>4, <2>5
<1>6. ASSUME FailLaunch PROVE FrameInv'
  <2>1. TypeOK'
    BY <1>6 DEF FailLaunch, Event, TypeOK, Slots
  <2>2. SessionInv'
    BY <1>6 DEF FailLaunch, Event, SessionInv, ViewInv, MainIdle
  <2>3. ViewInv'
    BY <1>6 DEF FailLaunch, Event, ViewInv, MainIdle, TypeOK
  <2>4. PoolInv'
    BY <1>6 DEF FailLaunch, Event, PoolInv, DecodedMemoryLives, TypeOK, Slots, Block
  <2>5. SampledMemoryLives'
    BY <1>6 DEF FailLaunch, Event, SampledMemoryLives, ViewInv, NoBlock, PoolInv, TypeOK
  <2> QED BY <2>1, <2>2, <2>3, <2>4, <2>5
<1>7. ASSUME IgnoreEvent PROVE FrameInv'
  <2>1. TypeOK'
    BY <1>7 DEF IgnoreEvent, Event, TypeOK, Slots
  <2>2. SessionInv'
    BY <1>7 DEF IgnoreEvent, Event, SessionInv, ViewInv, MainIdle
  <2>3. ViewInv'
    BY <1>7 DEF IgnoreEvent, Event, ViewInv, MainIdle, TypeOK
  <2>4. PoolInv'
    BY <1>7 DEF IgnoreEvent, Event, PoolInv, DecodedMemoryLives, TypeOK, Slots, Block
  <2>5. SampledMemoryLives'
    BY <1>7 DEF IgnoreEvent, Event, SampledMemoryLives, ViewInv, NoBlock, PoolInv, TypeOK
  <2> QED BY <2>1, <2>2, <2>3, <2>4, <2>5
<1>8. ASSUME FetchFrame PROVE FrameInv'
  <2>1. TypeOK'
    BY <1>8 DEF FetchFrame, TypeOK, Slots
  <2>2. SessionInv'
    BY <1>8 DEF FetchFrame, SessionInv, ViewInv, MainIdle
  <2>3. ViewInv'
    BY <1>8 DEF FetchFrame, ViewInv, MainIdle, TypeOK
  <2>4. PoolInv'
    BY <1>8 DEF FetchFrame, PoolInv, DecodedMemoryLives, TypeOK, Slots, Block
  <2>5. SampledMemoryLives'
    BY <1>8 DEF FetchFrame, SampledMemoryLives, ViewInv, NoBlock, PoolInv, TypeOK
  <2> QED BY <2>1, <2>2, <2>3, <2>4, <2>5
<1>9. ASSUME PresentFrame PROVE FrameInv'
  <2>1. TypeOK'
    BY <1>9 DEF PresentFrame, TypeOK, Slots
  <2>2. SessionInv'
    BY <1>9 DEF PresentFrame, SessionInv, ViewInv, MainIdle
  <2>3. ViewInv'
    BY <1>9 DEF PresentFrame, ViewInv, MainIdle, TypeOK
  <2>4. PoolInv'
    BY <1>9 DEF PresentFrame, PoolInv, DecodedMemoryLives, TypeOK, Slots, Block
  <2>5. SampledMemoryLives'
    BY <1>9 DEF PresentFrame, SampledMemoryLives, ViewInv, NoBlock, PoolInv, TypeOK
  <2> QED BY <2>1, <2>2, <2>3, <2>4, <2>5
<1> QED BY <1>1, <1>2, <1>3, <1>4, <1>5, <1>6, <1>7, <1>8, <1>9

(* The release tasks and the free loop.                                    *)
LEMMA ReleaseKeeps ==
    ASSUME FrameInv, (\E g \in tasks : TaskExpires(g)) \/ (\E g \in tasks :
       TaskWaits(g)) \/ (\E g \in tasks : TaskReleases(g)) \/ FreeSlot \/
       FreeEnds
    PROVE  FrameInv'
<1> USE DEF FrameInv
<1>1. ASSUME NEW g \in tasks, TaskExpires(g) PROVE FrameInv'
  <2>1. TypeOK'
    BY <1>1 DEF TaskExpires, TypeOK, Slots
  <2>2. SessionInv'
    BY <1>1 DEF TaskExpires, SessionInv, MainIdle
  <2>3. ViewInv'
    BY <1>1 DEF TaskExpires, ViewInv, SessionInv, MainIdle
  <2>4. PoolInv'
    BY <1>1 DEF TaskExpires, PoolInv, DecodedMemoryLives, TypeOK, Slots,
       Block, SessionInv
  <2>5. SampledMemoryLives'
    BY <1>1 DEF TaskExpires, SampledMemoryLives, ViewInv, SessionInv, Block,
       NoBlock, PoolInv, TypeOK
  <2> QED BY <2>1, <2>2, <2>3, <2>4, <2>5
<1>2. ASSUME NEW g \in tasks, TaskWaits(g) PROVE FrameInv'
  <2>1. TypeOK'
    BY <1>2 DEF TaskWaits, TypeOK, Slots
  <2>2. SessionInv'
    BY <1>2 DEF TaskWaits, SessionInv, MainIdle
  <2>3. ViewInv'
    BY <1>2 DEF TaskWaits, ViewInv, SessionInv, MainIdle
  <2>4. PoolInv'
    BY <1>2 DEF TaskWaits, PoolInv, DecodedMemoryLives, TypeOK, Slots, Block,
       SessionInv
  <2>5. SampledMemoryLives'
    BY <1>2 DEF TaskWaits, SampledMemoryLives, ViewInv, SessionInv, Block,
       NoBlock, PoolInv, TypeOK
  <2> QED BY <2>1, <2>2, <2>3, <2>4, <2>5
<1>3. ASSUME NEW g \in tasks, TaskReleases(g) PROVE FrameInv'
  <2>1. TypeOK'
    BY <1>3 DEF TaskReleases, TaskValid, TypeOK, Slots
  <2>2. SessionInv'
    BY <1>3 DEF TaskReleases, TaskValid, SessionInv, MainIdle
  <2>3. ViewInv'
    BY <1>3 DEF TaskReleases, TaskValid, ViewInv, SessionInv, MainIdle
  <2>4. PoolInv'
    BY <1>3 DEF TaskReleases, TaskValid, PoolInv, DecodedMemoryLives, TypeOK,
       Slots, Block, SessionInv
  <2>5. SampledMemoryLives'
    BY <1>3 DEF TaskReleases, TaskValid, SampledMemoryLives, ViewInv,
       SessionInv, Block, NoBlock, PoolInv, TypeOK
  <2> QED BY <2>1, <2>2, <2>3, <2>4, <2>5
<1>4. ASSUME FreeSlot PROVE FrameInv'
  <2>1. TypeOK'
    BY <1>4 DEF FreeSlot, TypeOK, Slots
  <2>2. SessionInv'
    BY <1>4 DEF FreeSlot, SessionInv, MainIdle
  <2>3. ViewInv'
    BY <1>4 DEF FreeSlot, ViewInv, TypeOK, Slots
  <2>4. PoolInv'
    BY <1>4 DEF FreeSlot, PoolInv, DecodedMemoryLives, TypeOK, Slots, Block,
       SessionInv
  <2>5. SampledMemoryLives'
    <3>1. ~page /\ UNCHANGED view
      BY <1>4 DEF FreeSlot, ViewInv, TypeOK, Slots
    <3> QED
      BY <3>1 DEF SampledMemoryLives, ViewInv
  <2> QED BY <2>1, <2>2, <2>3, <2>4, <2>5
<1>5. ASSUME FreeEnds PROVE FrameInv'
  <2>1. TypeOK'
    <3>1. frame_index' \in Slots
      BY <1>5 DEF FreeEnds, Slots
    <3>2. freeing' \in -1 .. Frames
      BY <1>5 DEF FreeEnds
    <3> QED
      BY <1>5, <3>1, <3>2 DEF FreeEnds, TypeOK, Slots
  <2>2. SessionInv'
    BY <1>5 DEF FreeEnds, SessionInv, MainIdle
  <2>3. ViewInv'
    BY <1>5 DEF FreeEnds, ViewInv, SessionInv, MainIdle
  <2>4. PoolInv'
    BY <1>5 DEF FreeEnds, PoolInv, DecodedMemoryLives, TypeOK, Slots, Block,
       SessionInv
  <2>5. SampledMemoryLives'
    BY <1>5 DEF FreeEnds, SampledMemoryLives, ViewInv, SessionInv, Block,
       NoBlock, PoolInv, TypeOK
  <2> QED BY <2>1, <2>2, <2>3, <2>4, <2>5
<1> QED BY <1>1, <1>2, <1>3, <1>4, <1>5

-----------------------------------------------------------------------------
LEMMA FrameInvHolds == Spec => []FrameInv
<1>1. Init => FrameInv
  <2> SUFFICES ASSUME Init PROVE FrameInv
    OBVIOUS
  <2>1. TypeOK
    <3>1. 0 \in Slots
      BY DEF Slots
    <3>2. memblocks \in [Slots -> Nat] /\ tasks \subseteq 0 .. generation /\ freeing \in -1 .. Frames
      BY DEF Init
    <3> QED
      BY <3>1, <3>2 DEF Init, TypeOK
  <2>2. SessionInv
    BY DEF Init, SessionInv
  <2>3. ViewInv /\ PoolInv /\ SampledMemoryLives
    BY DEF Init, ViewInv, PoolInv, DecodedMemoryLives, SampledMemoryLives
  <2> QED BY <2>1, <2>2, <2>3 DEF FrameInv
<1>2. FrameInv /\ [Next]_vars => FrameInv'
  <2> SUFFICES ASSUME FrameInv, [Next]_vars PROVE FrameInv'
    OBVIOUS
  <2>1. CASE UNCHANGED vars
    BY <2>1 DEF FrameInv, TypeOK, SessionInv, ViewInv, PoolInv, SampledMemoryLives,
       DecodedMemoryLives, Block, Slots
  <2> QED
    BY <2>1, SetupKeeps, DecoderKeeps, PageKeeps, ReleaseKeeps
       DEF Next, Handle, Task, Free
<1> QED BY <1>1, <1>2, PTL DEF Spec

(* The pool's counters stay in range: in particular the frame index, which *)
(* the receive thread advances and both frees reset, names a slot.         *)
THEOREM FramesTyped == Spec => []TypeOK
<1>1. FrameInv => TypeOK
  BY DEF FrameInv
<1> QED BY <1>1, FrameInvHolds, PTL

(* What surfaces, plane, pending and fetched frame reference is allocated: *)
(* memory is only freed without a page, and without one nothing refers.    *)
THEOREM SampledLives == Spec => []SampledMemoryLives
<1>1. FrameInv => SampledMemoryLives
  BY DEF FrameInv
<1> QED BY <1>1, FrameInvHolds, PTL

(* ReleaseFrameBuffersTask compares generations: unless vita_video_setup   *)
(* begins inside its free loop it frees only the pool it was made for, and *)
(* the decoder always has its buffer.                                      *)
THEOREM PoolsStayApart == Spec => []PoolsApart
<1>1. FrameInv => PoolsApart
  <2> SUFFICES ASSUME FrameInv, ~overlapped PROVE ReleaseSparesNewPool /\ DecodedMemoryLives
    BY DEF PoolsApart
  <2>1. DecodedMemoryLives
    BY DEF FrameInv, PoolInv
  <2>2. ASSUME freeing \in Slots PROVE memblocks[freeing] \in {0, task_pool}
    <3>1. freeing # -1
      BY <2>2 DEF Slots
    <3>2. renderer = "none" /\ task_pool = generation
      BY <3>1 DEF FrameInv, PoolInv
    <3> QED BY <2>2, <3>2 DEF FrameInv, PoolInv
  <2> QED BY <2>1, <2>2 DEF ReleaseSparesNewPool
<1> QED BY <1>1, FrameInvHolds, PTL
=============================================================================
