----------------------------- MODULE EventQueue -----------------------------
(***************************************************************************)
(* The application's event queue (src/app/event_queue.c): a ring of        *)
(* ordered events, one coalescing slot per invalidation type, and one      *)
(* retained head.  Worker threads push, the UI task peeks and              *)
(* acknowledges; every call is made under PAF's main-thread mutex, so one  *)
(* call is one step.                                                       *)
(***************************************************************************)
EXTENDS Integers, Sequences, FiniteSets

CONSTANTS Ordered,      \* event types kept in the ring
          Snapshot,     \* event types with a coalescing slot of their own
          Capacity,     \* MOONLIGHT_EVENT_QUEUE_CAPACITY
          MaxSequence   \* bound on the 64-bit sequence counter

ASSUME CapacityAssumption == Capacity \in Nat \ {0}
ASSUME TypesAssumption    == Ordered \cap Snapshot = {}
ASSUME BoundAssumption    == MaxSequence \in Nat

VARIABLES ordered,          \* the ring
          head, tail, count,
          sequence,         \* stamp of the last accepted event
          snapshots,        \* stamp of the latest invalidation of each type
          snapshot_pending, \* its slot is occupied
          pending,          \* the retained head
          pending_valid,
          log,              \* history: types accepted since the last reset
          taken             \* history: stamp of the last event handed out

vars == <<ordered, head, tail, count, sequence, snapshots, snapshot_pending,
          pending, pending_valid, log, taken>>

Types == Ordered \cup Snapshot
Slots == 0 .. Capacity - 1

(* MoonlightQueuedEvent: the event's type and its stamp.  The payload and  *)
(* the address are copied with it by copy_event.                           *)
Entry == [type : Types \cup {"none"}, sequence : Nat]
Blank == [type |-> "none", sequence |-> 0]

QueueInit ==
    /\ ordered = [s \in Slots |-> Blank]
    /\ head = 0 /\ tail = 0 /\ count = 0
    /\ sequence = 0
    /\ snapshots = [t \in Snapshot |-> 0]
    /\ snapshot_pending = [t \in Snapshot |-> FALSE]
    /\ pending = Blank
    /\ pending_valid = FALSE
    /\ log = << >> /\ taken = 0

-----------------------------------------------------------------------------
(* moonlight_event_queue_reset: the cursors go, the slots stay dirty.      *)
Reset ==
    /\ head' = 0 /\ tail' = 0 /\ count' = 0
    /\ sequence' = 0
    /\ snapshot_pending' = [t \in Snapshot |-> FALSE]
    /\ pending_valid' = FALSE
    /\ log' = << >> /\ taken' = 0
    /\ UNCHANGED <<ordered, snapshots, pending>>

(* Mutant: a coalesced invalidation keeps the stamp of the first one.      *)
PushSnapshotKeepsStamp(t) ==
    /\ sequence < MaxSequence
    /\ sequence' = sequence + 1
    /\ snapshots' = IF snapshot_pending[t] THEN snapshots
                    ELSE [snapshots EXCEPT ![t] = sequence + 1]
    /\ snapshot_pending' = [snapshot_pending EXCEPT ![t] = TRUE]
    /\ log' = Append(log, t)
    /\ UNCHANGED <<ordered, head, tail, count, pending, pending_valid, taken>>

(* moonlight_event_queue_push of an invalidation: it takes the latest      *)
(* stamp, so it moves behind the ordered events accepted before it.        *)
PushSnapshot(t) ==
    /\ sequence < MaxSequence
    /\ sequence' = sequence + 1
    /\ snapshots' = [snapshots EXCEPT ![t] = sequence + 1]
    /\ snapshot_pending' = [snapshot_pending EXCEPT ![t] = TRUE]
    /\ log' = Append(log, t)
    /\ UNCHANGED <<ordered, head, tail, count, pending, pending_valid, taken>>

(* moonlight_event_queue_push of an ordered event that is accepted.        *)
PushOrdered(t) ==
    /\ sequence < MaxSequence
    /\ count # Capacity
    /\ sequence' = sequence + 1
    /\ ordered' = [ordered EXCEPT ![tail] = [type |-> t, sequence |-> sequence + 1]]
    /\ tail' = (tail + 1) % Capacity
    /\ count' = count + 1
    /\ log' = Append(log, t)
    /\ UNCHANGED <<head, snapshots, snapshot_pending, pending, pending_valid,
                   taken>>

(* The early return -1: the ring is full and the event is dropped.         *)
RejectOrdered(t) ==
    /\ count = Capacity
    /\ UNCHANGED vars

(* The search of moonlight_event_queue_peek: the smallest stamp of the     *)
(* ring's head and the occupied slots; stamp 0 stands for "none".          *)
Stamps ==
    (IF count # 0 THEN {ordered[head].sequence} ELSE {})
        \cup {snapshots[t] : t \in {u \in Snapshot : snapshot_pending[u]}}

IsFirst(n) == n \in Stamps /\ n # 0 /\ \A m \in Stamps : n <= m

PeekSnapshot(t) ==
    /\ ~pending_valid
    /\ snapshot_pending[t] /\ IsFirst(snapshots[t])
    /\ pending' = [type |-> t, sequence |-> snapshots[t]]
    /\ snapshot_pending' = [snapshot_pending EXCEPT ![t] = FALSE]
    /\ pending_valid' = TRUE
    /\ taken' = snapshots[t]
    /\ UNCHANGED <<ordered, head, tail, count, sequence, snapshots, log>>

(* Mutant: a peek replaces the retained head by the next event.            *)
PeekOrderedReplacesHead ==
    /\ count # 0 /\ IsFirst(ordered[head].sequence)
    /\ pending' = ordered[head]
    /\ head' = (head + 1) % Capacity
    /\ count' = count - 1
    /\ pending_valid' = TRUE
    /\ taken' = ordered[head].sequence
    /\ UNCHANGED <<ordered, tail, sequence, snapshots, snapshot_pending, log>>

PeekOrdered ==
    /\ ~pending_valid
    /\ count # 0 /\ IsFirst(ordered[head].sequence)
    /\ pending' = ordered[head]
    /\ head' = (head + 1) % Capacity
    /\ count' = count - 1
    /\ pending_valid' = TRUE
    /\ taken' = ordered[head].sequence
    /\ UNCHANGED <<ordered, tail, sequence, snapshots, snapshot_pending, log>>

(* A peek while an event is retained returns it again and changes nothing. *)
PeekRetained == pending_valid /\ UNCHANGED vars

(* moonlight_event_queue_acknowledge                                       *)
Acknowledge ==
    /\ pending_valid
    /\ pending_valid' = FALSE
    /\ UNCHANGED <<ordered, head, tail, count, sequence, snapshots,
                   snapshot_pending, pending, log, taken>>

-----------------------------------------------------------------------------
Init == QueueInit

Next ==
    \/ \E t \in Snapshot : PushSnapshot(t) \/ PeekSnapshot(t)
    \/ \E t \in Ordered : PushOrdered(t) \/ RejectOrdered(t)
    \/ PeekOrdered
    \/ PeekRetained
    \/ Acknowledge
    \/ Reset

Spec == Init /\ [][Next]_vars

-----------------------------------------------------------------------------
(* Ring arithmetic stays inside the arrays and no slot is out of range.    *)
TypeOK ==
    /\ ordered \in [Slots -> Entry]
    /\ head \in Slots /\ tail \in Slots /\ count \in 0 .. Capacity
    /\ sequence \in Nat
    /\ snapshots \in [Snapshot -> Nat]
    /\ snapshot_pending \in [Snapshot -> BOOLEAN]
    /\ pending \in Entry
    /\ pending_valid \in BOOLEAN
    /\ log \in Seq(Types)
    /\ taken \in Nat

(* The ring's i-th waiting event and its slot, counted from the head.      *)
SlotOf(i)  == IF head + i < Capacity THEN head + i ELSE head + i - Capacity
Waiting(i) == ordered[SlotOf(i)]

(* The ring holds, oldest first, exactly the ordered events accepted and   *)
(* not yet handed out: none lost, duplicated or reordered, through every   *)
(* wrap of head and tail and however many invalidations come in between.   *)
RingHoldsUntakenOrdered ==
    /\ tail = SlotOf(count)
    /\ \A i \in 0 .. count - 1 :
        LET e == Waiting(i) IN
        /\ e.sequence \in taken + 1 .. Len(log)
        /\ e.type \in Ordered
        /\ log[e.sequence] = e.type
    /\ \A i, j \in 0 .. count - 1 :
        i < j => Waiting(i).sequence < Waiting(j).sequence
    /\ \A p \in taken + 1 .. Len(log) : log[p] \in Ordered =>
        \E i \in 0 .. count - 1 : Waiting(i).sequence = p

(* A slot is occupied exactly while an invalidation of its type has not    *)
(* been handed out, and it carries the stamp of the latest one, so the     *)
(* reader never misses the last change.                                    *)
SlotsHoldLatestInvalidation ==
    \A t \in Snapshot :
        /\ snapshot_pending[t] =>
            /\ snapshots[t] \in taken + 1 .. Len(log)
            /\ log[snapshots[t]] = t
        /\ \A p \in taken + 1 .. Len(log) :
            log[p] = t => snapshot_pending[t] /\ p <= snapshots[t]

(* The retained head is the event last handed out, whatever producers push *)
(* meanwhile.                                                              *)
RetainedHeadStable ==
    /\ sequence = Len(log)
    /\ taken <= Len(log)
    /\ pending_valid =>
        /\ pending.sequence = taken
        /\ taken > 0
        /\ pending.type = log[taken]

(* The three together: the queue's state is determined by what was         *)
(* accepted and what was handed out.                                       *)
QueueInv == RingHoldsUntakenOrdered /\ SlotsHoldLatestInvalidation /\ RetainedHeadStable

EventLogSpec == INSTANCE EventLog WITH holding <- pending_valid

(* The queue implements the log: each accepted event is handed out once,   *)
(* in order, unless a later invalidation of its type supersedes it.        *)
ImplementsEventLog == EventLogSpec!Spec
=============================================================================
