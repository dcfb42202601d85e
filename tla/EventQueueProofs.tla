-------------------------- MODULE EventQueueProofs --------------------------
(***************************************************************************)
(* Proofs about the event queue for every capacity and every set of event  *)
(* types: the ring and the slots hold exactly what the reader still has to *)
(* get, hence the queue implements EventLog.                               *)
(***************************************************************************)
EXTENDS EventQueue, TLAPS

USE CapacityAssumption, TypesAssumption, BoundAssumption

(* Advancing a ring cursor wraps exactly at the capacity.                  *)
LEMMA CursorStep ==
    ASSUME NEW x \in Slots
    PROVE  (x + 1) % Capacity = IF x + 1 = Capacity THEN 0 ELSE x + 1
BY DEF Slots

(* Every index and cursor of the queue stays in its range.                 *)
THEOREM QueueTyped == Spec => []TypeOK
<1>1. Init => TypeOK
  BY DEF Init, QueueInit, TypeOK, Slots, Entry, Blank, Types
<1>2. TypeOK /\ [Next]_vars => TypeOK'
  <2> SUFFICES ASSUME TypeOK, [Next]_vars PROVE TypeOK'
    OBVIOUS
  <2> USE DEF TypeOK
  <2>1. ASSUME NEW t \in Snapshot, PushSnapshot(t) PROVE TypeOK'
    BY <2>1 DEF PushSnapshot, Types
  <2>2. ASSUME NEW t \in Snapshot, PeekSnapshot(t) PROVE TypeOK'
    BY <2>2 DEF PeekSnapshot, Types, Entry
  <2>3. ASSUME NEW t \in Ordered, PushOrdered(t) PROVE TypeOK'
    <3>1. tail' \in Slots
      BY <2>3, CursorStep DEF PushOrdered, Slots
    <3>2. ordered' \in [Slots -> Entry]
      BY <2>3 DEF PushOrdered, Types, Entry
    <3> QED
      BY <2>3, <3>1, <3>2 DEF PushOrdered, Types
  <2>4. CASE PeekOrdered
    <3>1. head' \in Slots
      BY <2>4, CursorStep DEF PeekOrdered, Slots
    <3>2. ordered[head] \in Entry
      OBVIOUS
    <3> QED
      BY <2>4, <3>1, <3>2 DEF PeekOrdered, Entry
  <2>5. CASE Acknowledge
    BY <2>5 DEF Acknowledge
  <2>6. CASE Reset
    <3>1. log' \in Seq(Types)
      BY <2>6 DEF Reset
    <3>2. snapshot_pending' \in [Snapshot -> BOOLEAN]
      BY <2>6 DEF Reset
    <3>3. head' \in Slots /\ tail' \in Slots /\ count' \in 0 .. Capacity
      BY <2>6 DEF Reset, Slots
    <3>4. ordered' \in [Slots -> Entry] /\ snapshots' \in [Snapshot -> Nat]
      BY <2>6 DEF Reset
    <3>5. pending' \in Entry /\ pending_valid' \in BOOLEAN
      BY <2>6 DEF Reset
    <3>6. sequence' \in Nat /\ taken' \in Nat
      BY <2>6 DEF Reset
    <3> QED
      BY <3>1, <3>2, <3>3, <3>4, <3>5, <3>6
  <2>7. CASE UNCHANGED vars
    BY <2>7 DEF vars
  <2> QED
    BY <2>1, <2>2, <2>3, <2>4, <2>5, <2>6, <2>7
       DEF Next, RejectOrdered, PeekRetained
<1> QED
  BY <1>1, <1>2, PTL DEF Spec

-----------------------------------------------------------------------------
(* QueueInv ties ring, slots and retained head to the history.             *)
LEMMA QueueInvInit == Init => QueueInv
BY DEF Init, QueueInit, QueueInv, RingHoldsUntakenOrdered, SlotOf, Waiting,
       SlotsHoldLatestInvalidation, RetainedHeadStable, Slots

(* An invalidation only touches its own slot.                              *)
LEMMA PushSnapshotKeeps ==
    ASSUME TypeOK, QueueInv, NEW t \in Snapshot, PushSnapshot(t)
    PROVE  QueueInv'
<1> USE DEF TypeOK, QueueInv
<1>1. /\ Len(log') = Len(log) + 1
      /\ log'[Len(log) + 1] = t
      /\ \A p \in 1 .. Len(log) : log'[p] = log[p]
      /\ \A p \in 1 .. Len(log) : log[p] \in Types
  BY DEF PushSnapshot, Types
<1>2. t \notin Ordered
  OBVIOUS
<1>3. RingHoldsUntakenOrdered'
  <2>1. /\ head' = head /\ count' = count /\ tail' = tail
        /\ ordered' = ordered /\ taken' = taken
    BY DEF PushSnapshot
  <2>0. /\ \A i \in 0 .. count : SlotOf(i)' = SlotOf(i)
        /\ \A i \in 0 .. count - 1 : Waiting(i)' = Waiting(i)
    BY <2>1 DEF SlotOf, Waiting
  <2>2. \A i \in 0 .. count - 1 :
          /\ Waiting(i).sequence \in 1 .. Len(log)
          /\ log[Waiting(i).sequence] = Waiting(i).type
    BY DEF RingHoldsUntakenOrdered
  <2>3. (tail = SlotOf(count))'
    BY <2>0, <2>1 DEF RingHoldsUntakenOrdered
  <2>4. (\A i \in 0 .. count - 1 :
          LET e == Waiting(i) IN
          /\ e.sequence \in taken + 1 .. Len(log)
          /\ e.type \in Ordered
          /\ log[e.sequence] = e.type)'
    BY <1>1, <2>0, <2>1, <2>2 DEF RingHoldsUntakenOrdered
  <2>5. (\A i, j \in 0 .. count - 1 :
          i < j => Waiting(i).sequence < Waiting(j).sequence)'
    BY <2>0, <2>1 DEF RingHoldsUntakenOrdered
  <2>6. (\A p \in taken + 1 .. Len(log) : log[p] \in Ordered =>
          \E i \in 0 .. count - 1 : Waiting(i).sequence = p)'
    BY <1>1, <1>2, <2>0, <2>1 DEF RingHoldsUntakenOrdered, RetainedHeadStable
  <2> QED
    BY <2>3, <2>4, <2>5, <2>6 DEF RingHoldsUntakenOrdered
<1>4. SlotsHoldLatestInvalidation'
  BY <1>1 DEF PushSnapshot, SlotsHoldLatestInvalidation, RetainedHeadStable
<1>5. RetainedHeadStable'
  BY <1>1 DEF PushSnapshot, RetainedHeadStable
<1> QED
  BY <1>3, <1>4, <1>5

(* An accepted ordered event goes behind the ones already in the ring.     *)
LEMMA PushOrderedKeeps ==
    ASSUME TypeOK, QueueInv, NEW t \in Ordered, PushOrdered(t)
    PROVE  QueueInv'
<1> USE DEF TypeOK, QueueInv
<1>1. /\ Len(log') = Len(log) + 1
      /\ log'[Len(log) + 1] = t
      /\ \A p \in 1 .. Len(log) : log'[p] = log[p]
  BY DEF PushOrdered, Types
<1>2. t \notin Snapshot
  OBVIOUS
<1>3. /\ count < Capacity
      /\ tail = SlotOf(count)
      /\ tail' = IF tail + 1 = Capacity THEN 0 ELSE tail + 1
      /\ sequence = Len(log)
      /\ taken <= Len(log)
  BY CursorStep DEF PushOrdered, RingHoldsUntakenOrdered, RetainedHeadStable
<1>4. \A i \in 0 .. count : SlotOf(i)' = SlotOf(i)
  BY DEF PushOrdered, SlotOf
<1>5. \A i \in 0 .. count - 1 : SlotOf(i) \in Slots /\ SlotOf(i) # tail
  BY <1>3 DEF SlotOf, Slots
<1>6. \A i \in 0 .. count - 1 : Waiting(i)' = Waiting(i)
  BY <1>4, <1>5 DEF PushOrdered, Waiting, Slots
<1>7. \A n \in {count} : Waiting(n)' = [type |-> t, sequence |-> Len(log) + 1]
  BY <1>3, <1>4 DEF PushOrdered, Waiting
<1>8. RingHoldsUntakenOrdered'
  <2>1. (tail = SlotOf(count))'
    <3>1. count' = count + 1 /\ head' = head
      BY DEF PushOrdered
    <3> QED
      BY <1>3, <3>1 DEF SlotOf, Slots
  <2>0. count' = count + 1 /\ taken' = taken
    BY DEF PushOrdered
  <2>2. (\A i \in 0 .. count - 1 :
          LET e == Waiting(i) IN
          /\ e.sequence \in taken + 1 .. Len(log)
          /\ e.type \in Ordered
          /\ log[e.sequence] = e.type)'
    <3> SUFFICES ASSUME NEW i \in 0 .. count
                 PROVE  /\ Waiting(i)'.sequence \in taken + 1 .. Len(log) + 1
                        /\ Waiting(i)'.type \in Ordered
                        /\ log'[Waiting(i)'.sequence] = Waiting(i)'.type
      BY <1>1, <2>0
    <3>1. CASE i = count
      BY <3>1, <1>1, <1>3, <1>7
    <3>2. CASE i # count
      BY <3>2, <1>1, <1>3, <1>6 DEF RingHoldsUntakenOrdered
    <3> QED
      BY <3>1, <3>2
  <2>3. (\A i, j \in 0 .. count - 1 :
          i < j => Waiting(i).sequence < Waiting(j).sequence)'
    <3> SUFFICES ASSUME NEW i \in 0 .. count, NEW j \in 0 .. count, i < j
                 PROVE  Waiting(i)'.sequence < Waiting(j)'.sequence
      BY <2>0
    <3>1. i \in 0 .. count - 1 /\ Waiting(i).sequence \in 1 .. Len(log)
      BY <1>3 DEF RingHoldsUntakenOrdered
    <3>2. CASE j = count
      BY <3>1, <3>2, <1>6, <1>7
    <3>3. CASE j # count
      BY <3>1, <3>3, <1>6 DEF RingHoldsUntakenOrdered
    <3> QED
      BY <3>2, <3>3
  <2>4. (\A p \in taken + 1 .. Len(log) : log[p] \in Ordered =>
          \E i \in 0 .. count - 1 : Waiting(i).sequence = p)'
    <3> SUFFICES ASSUME NEW p \in taken + 1 .. Len(log) + 1, log'[p] \in Ordered
                 PROVE  \E i \in 0 .. count : Waiting(i)'.sequence = p
      BY <1>1, <2>0
    <3>1. CASE p = Len(log) + 1
      BY <3>1, <1>7
    <3>2. CASE p # Len(log) + 1
      <4>1. p \in taken + 1 .. Len(log) /\ log[p] \in Ordered
        BY <3>2, <1>1, <1>3
      <4>2. PICK i \in 0 .. count - 1 : Waiting(i).sequence = p
        BY <4>1 DEF RingHoldsUntakenOrdered
      <4> QED
        BY <4>2, <1>6
    <3> QED
      BY <3>1, <3>2
  <2> QED
    BY <2>1, <2>2, <2>3, <2>4 DEF RingHoldsUntakenOrdered
<1>9. SlotsHoldLatestInvalidation'
  BY <1>1, <1>2, <1>3 DEF PushOrdered, SlotsHoldLatestInvalidation
<1>10. RetainedHeadStable'
  BY <1>1, <1>3 DEF PushOrdered, RetainedHeadStable
<1> QED
  BY <1>8, <1>9, <1>10

(* Handing out an invalidation leaves only later events behind.            *)
LEMMA PeekSnapshotKeeps ==
    ASSUME TypeOK, QueueInv, NEW t \in Snapshot, PeekSnapshot(t)
    PROVE  QueueInv'
<1> USE DEF TypeOK, QueueInv
<1>1. /\ taken' = snapshots[t] /\ taken' > taken /\ taken' <= Len(log)
      /\ log[snapshots[t]] = t
      /\ log' = log /\ head' = head /\ tail' = tail /\ count' = count
      /\ ordered' = ordered /\ snapshots' = snapshots
  BY DEF PeekSnapshot, SlotsHoldLatestInvalidation
<1>2. /\ \A i \in 0 .. count : SlotOf(i)' = SlotOf(i)
      /\ \A i \in 0 .. count - 1 : Waiting(i)' = Waiting(i)
  BY <1>1 DEF SlotOf, Waiting
<1>3. \A i \in 0 .. count - 1 : Waiting(i).sequence > snapshots[t]
  <2> SUFFICES ASSUME NEW i \in 0 .. count - 1
               PROVE  Waiting(i).sequence > snapshots[t]
    OBVIOUS
  <2>1. 0 \in 0 .. count - 1 /\ Waiting(0) = ordered[head]
    BY DEF SlotOf, Waiting, Slots
  <2>2. ordered[head].sequence \in Stamps
    BY <2>1 DEF Stamps
  <2>3. snapshots[t] <= ordered[head].sequence
    BY <2>2 DEF PeekSnapshot, IsFirst
  <2>4. snapshots[t] # ordered[head].sequence
    <3>1. log[Waiting(0).sequence] \in Ordered
      BY <2>1 DEF RingHoldsUntakenOrdered
    <3> QED
      BY <1>1, <2>1, <3>1
  <2>5. i = 0 \/ ordered[head].sequence < Waiting(i).sequence
    BY <2>1 DEF RingHoldsUntakenOrdered
  <2>6. ordered[head].sequence \in Nat /\ Waiting(i).sequence \in Nat
    BY <2>1 DEF RingHoldsUntakenOrdered
  <2> QED
    BY <1>1, <2>1, <2>3, <2>4, <2>5, <2>6
<1>4. RingHoldsUntakenOrdered'
  <2>1. (tail = SlotOf(count))'
    BY <1>1, <1>2 DEF RingHoldsUntakenOrdered
  <2>2. (\A i \in 0 .. count - 1 :
          LET e == Waiting(i) IN
          /\ e.sequence \in taken + 1 .. Len(log)
          /\ e.type \in Ordered
          /\ log[e.sequence] = e.type)'
    BY <1>1, <1>2, <1>3 DEF RingHoldsUntakenOrdered
  <2>3. (\A i, j \in 0 .. count - 1 :
          i < j => Waiting(i).sequence < Waiting(j).sequence)'
    BY <1>1, <1>2 DEF RingHoldsUntakenOrdered
  <2>4. (\A p \in taken + 1 .. Len(log) : log[p] \in Ordered =>
          \E i \in 0 .. count - 1 : Waiting(i).sequence = p)'
    BY <1>1, <1>2 DEF RingHoldsUntakenOrdered
  <2> QED
    BY <2>1, <2>2, <2>3, <2>4 DEF RingHoldsUntakenOrdered
<1>5. SlotsHoldLatestInvalidation'
  <2> SUFFICES ASSUME NEW u \in Snapshot
               PROVE  (/\ snapshot_pending[u] =>
                           /\ snapshots[u] \in taken + 1 .. Len(log)
                           /\ log[snapshots[u]] = u
                       /\ \A p \in taken + 1 .. Len(log) :
                           log[p] = u => snapshot_pending[u] /\ p <= snapshots[u])'
    BY DEF SlotsHoldLatestInvalidation
  <2>1. CASE u = t
    BY <2>1, <1>1 DEF PeekSnapshot, SlotsHoldLatestInvalidation
  <2>2. CASE u # t
    <3>1. snapshot_pending'[u] = snapshot_pending[u]
      BY <2>2 DEF PeekSnapshot
    <3>2. snapshot_pending[u] => snapshots[u] \in Stamps
      BY DEF Stamps
    <3>3. snapshot_pending[u] => snapshots[t] < snapshots[u]
      BY <2>2, <3>2, <1>1 DEF PeekSnapshot, IsFirst, SlotsHoldLatestInvalidation
    <3> QED
      BY <1>1, <3>1, <3>3 DEF SlotsHoldLatestInvalidation
  <2> QED
    BY <2>1, <2>2
<1>6. RetainedHeadStable'
  BY <1>1 DEF PeekSnapshot, RetainedHeadStable
<1> QED
  BY <1>4, <1>5, <1>6

(* Handing out the ring's head moves every waiting event one place up.     *)
LEMMA PeekOrderedKeeps ==
    ASSUME TypeOK, QueueInv, PeekOrdered
    PROVE  QueueInv'
<1> USE DEF TypeOK, QueueInv
<1>1. /\ count > 0 /\ count' = count - 1
      /\ head' = IF head + 1 = Capacity THEN 0 ELSE head + 1
      /\ tail' = tail /\ ordered' = ordered /\ log' = log
      /\ snapshots' = snapshots /\ snapshot_pending' = snapshot_pending
      /\ taken' = ordered[head].sequence
  BY CursorStep DEF PeekOrdered
<1>2. ordered[head] = Waiting(0) /\ 0 \in 0 .. count - 1
  BY <1>1 DEF Waiting, SlotOf, Slots
<1>3. /\ taken' \in taken + 1 .. Len(log)
      /\ log[taken'] \in Ordered
      /\ log[taken'] = ordered[head].type
  BY <1>1, <1>2 DEF RingHoldsUntakenOrdered
<1>4. \A i \in 0 .. count - 1 : SlotOf(i)' = SlotOf(i + 1)
  BY <1>1 DEF SlotOf, Slots
<1>5. \A i \in 0 .. count - 2 : Waiting(i)' = Waiting(i + 1)
  BY <1>1, <1>4 DEF Waiting
<1>6. RingHoldsUntakenOrdered'
  <2>1. (tail = SlotOf(count))'
    <3>1. tail = SlotOf(count)
      BY DEF RingHoldsUntakenOrdered
    <3> QED
      BY <1>1, <3>1 DEF SlotOf, Slots
  <2>2. (\A i \in 0 .. count - 1 :
          LET e == Waiting(i) IN
          /\ e.sequence \in taken + 1 .. Len(log)
          /\ e.type \in Ordered
          /\ log[e.sequence] = e.type)'
    <3> SUFFICES ASSUME NEW i \in 0 .. count - 2
                 PROVE  /\ Waiting(i)'.sequence \in taken' + 1 .. Len(log)
                        /\ Waiting(i)'.type \in Ordered
                        /\ log[Waiting(i)'.sequence] = Waiting(i)'.type
      BY <1>1
    <3>1. i + 1 \in 0 .. count - 1 /\ 0 < i + 1
      BY <1>1
    <3>2. Waiting(0).sequence < Waiting(i + 1).sequence
      BY <1>2, <3>1 DEF RingHoldsUntakenOrdered
    <3>3. /\ Waiting(i + 1).sequence \in taken + 1 .. Len(log)
          /\ Waiting(i + 1).type \in Ordered
          /\ log[Waiting(i + 1).sequence] = Waiting(i + 1).type
      BY <3>1 DEF RingHoldsUntakenOrdered
    <3> QED
      BY <1>1, <1>2, <1>3, <1>5, <3>2, <3>3
  <2>3. (\A i, j \in 0 .. count - 1 :
          i < j => Waiting(i).sequence < Waiting(j).sequence)'
    <3> SUFFICES ASSUME NEW i \in 0 .. count - 2, NEW j \in 0 .. count - 2, i < j
                 PROVE  Waiting(i)'.sequence < Waiting(j)'.sequence
      BY <1>1
    <3>1. i + 1 \in 0 .. count - 1 /\ j + 1 \in 0 .. count - 1 /\ i + 1 < j + 1
      BY <1>1
    <3>2. Waiting(i + 1).sequence < Waiting(j + 1).sequence
      BY <3>1 DEF RingHoldsUntakenOrdered
    <3> QED
      BY <3>2, <1>5
  <2>4. (\A p \in taken + 1 .. Len(log) : log[p] \in Ordered =>
          \E i \in 0 .. count - 1 : Waiting(i).sequence = p)'
    <3> SUFFICES ASSUME NEW p \in taken' + 1 .. Len(log), log[p] \in Ordered
                 PROVE  \E i \in 0 .. count - 2 : Waiting(i)'.sequence = p
      BY <1>1
    <3>1. p \in taken + 1 .. Len(log) /\ p > Waiting(0).sequence
      BY <1>1, <1>2, <1>3
    <3>2. PICK i \in 0 .. count - 1 : Waiting(i).sequence = p
      BY <3>1 DEF RingHoldsUntakenOrdered
    <3>3. i # 0 /\ i - 1 \in 0 .. count - 2 /\ (i - 1) + 1 = i
      BY <3>1, <3>2
    <3>4. Waiting(i - 1)' = Waiting(i)
      BY <3>3, <1>5
    <3> QED
      BY <3>2, <3>3, <3>4
  <2> QED
    BY <2>1, <2>2, <2>3, <2>4 DEF RingHoldsUntakenOrdered
<1>7. SlotsHoldLatestInvalidation'
  <2> SUFFICES ASSUME NEW u \in Snapshot
               PROVE  (/\ snapshot_pending[u] =>
                           /\ snapshots[u] \in taken + 1 .. Len(log)
                           /\ log[snapshots[u]] = u
                       /\ \A p \in taken + 1 .. Len(log) :
                           log[p] = u => snapshot_pending[u] /\ p <= snapshots[u])'
    BY DEF SlotsHoldLatestInvalidation
  <2>1. snapshot_pending[u] => ordered[head].sequence <= snapshots[u]
    BY DEF PeekOrdered, IsFirst, Stamps
  <2>2. snapshot_pending[u] => log[snapshots[u]] = u /\ u \notin Ordered
    BY DEF SlotsHoldLatestInvalidation
  <2>3. snapshot_pending[u] => ordered[head].sequence < snapshots[u]
    BY <2>1, <2>2, <1>1, <1>3 DEF SlotsHoldLatestInvalidation
  <2> QED
    BY <2>3, <1>1, <1>3 DEF SlotsHoldLatestInvalidation
<1>8. RetainedHeadStable'
  BY <1>1, <1>3 DEF PeekOrdered, RetainedHeadStable
<1> QED
  BY <1>6, <1>7, <1>8

(* Acknowledging frees the retained head only; a reset forgets everything. *)
LEMMA AcknowledgeKeeps ==
    ASSUME TypeOK, QueueInv, Acknowledge \/ UNCHANGED vars
    PROVE  QueueInv'
<1>1. /\ ordered' = ordered /\ head' = head /\ tail' = tail /\ count' = count
      /\ snapshots' = snapshots /\ snapshot_pending' = snapshot_pending
      /\ log' = log /\ taken' = taken /\ pending' = pending /\ sequence' = sequence
      /\ pending_valid' => pending_valid
  BY DEF Acknowledge, vars
<1>2. /\ \A i \in Int : SlotOf(i)' = SlotOf(i)
      /\ \A i \in Int : Waiting(i)' = Waiting(i)
  BY <1>1 DEF SlotOf, Waiting
<1>3. RingHoldsUntakenOrdered'
  <2>1. RingHoldsUntakenOrdered
    BY DEF QueueInv
  <2>2. (tail = SlotOf(count))'
    BY <1>1, <2>1 DEF RingHoldsUntakenOrdered, SlotOf
  <2>3. (\A i \in 0 .. count - 1 :
          LET e == Waiting(i) IN
          /\ e.sequence \in taken + 1 .. Len(log)
          /\ e.type \in Ordered
          /\ log[e.sequence] = e.type)'
    BY <1>1, <1>2, <2>1 DEF RingHoldsUntakenOrdered, TypeOK
  <2>4. (\A i, j \in 0 .. count - 1 :
          i < j => Waiting(i).sequence < Waiting(j).sequence)'
    BY <1>1, <1>2, <2>1 DEF RingHoldsUntakenOrdered, TypeOK
  <2>5. (\A p \in taken + 1 .. Len(log) : log[p] \in Ordered =>
          \E i \in 0 .. count - 1 : Waiting(i).sequence = p)'
    BY <1>1, <1>2, <2>1 DEF RingHoldsUntakenOrdered, TypeOK
  <2> QED
    BY <2>2, <2>3, <2>4, <2>5 DEF RingHoldsUntakenOrdered
<1>4. SlotsHoldLatestInvalidation'
  BY <1>1 DEF QueueInv, SlotsHoldLatestInvalidation
<1>5. RetainedHeadStable'
  BY <1>1 DEF QueueInv, RetainedHeadStable
<1> QED
  BY <1>3, <1>4, <1>5 DEF QueueInv

LEMMA ResetKeeps ==
    ASSUME TypeOK, Reset
    PROVE  QueueInv'
<1>1. /\ head' = 0 /\ tail' = 0 /\ count' = 0 /\ sequence' = 0 /\ taken' = 0
      /\ log' = << >> /\ ~pending_valid'
      /\ \A t \in Snapshot : ~snapshot_pending'[t]
  BY DEF Reset
<1>2. Len(log') = 0
  BY <1>1
<1>3. RingHoldsUntakenOrdered'
  BY <1>1, <1>2 DEF RingHoldsUntakenOrdered, SlotOf
<1>4. SlotsHoldLatestInvalidation'
  BY <1>1, <1>2 DEF SlotsHoldLatestInvalidation
<1>5. RetainedHeadStable'
  BY <1>1, <1>2 DEF RetainedHeadStable
<1> QED
  BY <1>3, <1>4, <1>5 DEF QueueInv

(* What the queue holds is exactly what the reader still has to get.       *)
THEOREM QueueHoldsUntaken == Spec => []QueueInv
<1>1. TypeOK /\ QueueInv /\ [Next]_vars => QueueInv'
  BY PushSnapshotKeeps, PushOrderedKeeps, PeekSnapshotKeeps, PeekOrderedKeeps,
     AcknowledgeKeeps, ResetKeeps DEF Next, RejectOrdered, PeekRetained
<1> QED
  BY QueueInvInit, QueueTyped, <1>1, PTL DEF Spec
-----------------------------------------------------------------------------
(* Whatever the search of peek passes over has been superseded.            *)
LEMMA SkippedAreSuperseded ==
    ASSUME TypeOK, QueueInv, NEW p \in Nat, IsFirst(p),
           NEW q \in taken + 1 .. p - 1, p <= Len(log)
    PROVE  EventLogSpec!Superseded(q)
<1> USE DEF TypeOK, QueueInv
<1>1. q \in taken + 1 .. Len(log) /\ log[q] \in Types
  OBVIOUS
<1>2. CASE log[q] \in Ordered
  <2>1. PICK i \in 0 .. count - 1 : Waiting(i).sequence = q
    BY <1>1, <1>2 DEF RingHoldsUntakenOrdered
  <2>2. 0 \in 0 .. count - 1 /\ Waiting(0) = ordered[head]
    BY DEF Waiting, SlotOf, Slots
  <2>3. p <= Waiting(0).sequence
    <3>1. ordered[head].sequence \in Stamps
      BY <2>2 DEF Stamps
    <3> QED
      BY <2>2, <3>1 DEF IsFirst
  <2>4. Waiting(0).sequence <= q
    <3>1. CASE i = 0
      BY <3>1, <2>1
    <3>2. CASE i # 0
      <4>1. 0 < i /\ 0 \in 0 .. count - 1
        BY <3>2, <2>2
      <4>2. Waiting(0).sequence < Waiting(i).sequence
        BY <4>1 DEF RingHoldsUntakenOrdered
      <4>3. Waiting(0).sequence \in Nat
        BY <2>2 DEF RingHoldsUntakenOrdered
      <4> QED
        BY <4>2, <4>3, <2>1
    <3> QED
      BY <3>1, <3>2
  <2>5. Waiting(0).sequence \in Nat
    BY <2>2 DEF RingHoldsUntakenOrdered
  <2> QED
    BY <2>3, <2>4, <2>5
<1>3. CASE log[q] \in Snapshot
  <2> DEFINE u == log[q]
  <2>1. snapshot_pending[u] /\ q <= snapshots[u]
    BY <1>1, <1>3 DEF SlotsHoldLatestInvalidation
  <2>2. snapshots[u] \in Stamps
    BY <2>1, <1>3 DEF Stamps
  <2>3. p <= snapshots[u]
    BY <2>2 DEF IsFirst
  <2>4. snapshots[u] \in q + 1 .. Len(log) /\ log[snapshots[u]] = u
    BY <2>1, <2>3, <1>3 DEF SlotsHoldLatestInvalidation
  <2> QED
    BY <2>4, <1>3 DEF EventLogSpec!Superseded
<1> QED
  BY <1>1, <1>2, <1>3 DEF Types

(* The ring, the slots and the stamps implement the log with coalescing:   *)
(* no accepted event is lost, repeated or overtaken.                       *)
THEOREM QueueImplementsLog == Spec => ImplementsEventLog
<1>1. Init => EventLogSpec!Init
  BY DEF Init, QueueInit, EventLogSpec!Init
<1>2. TypeOK /\ QueueInv /\ [Next]_vars => [EventLogSpec!Next]_(EventLogSpec!vars)
  <2> SUFFICES ASSUME TypeOK, QueueInv, [Next]_vars
               PROVE  [EventLogSpec!Next]_(EventLogSpec!vars)
    OBVIOUS
  <2>1. ASSUME NEW t \in Snapshot, PushSnapshot(t) PROVE EventLogSpec!Next
    BY <2>1 DEF PushSnapshot, EventLogSpec!Next, EventLogSpec!Accept
  <2>2. ASSUME NEW t \in Ordered, PushOrdered(t) PROVE EventLogSpec!Next
    BY <2>2 DEF PushOrdered, EventLogSpec!Next, EventLogSpec!Accept
  <2>3. ASSUME NEW t \in Snapshot, PeekSnapshot(t) PROVE EventLogSpec!Next
    <3>1. IsFirst(snapshots[t]) /\ snapshots[t] \in Nat
      BY <2>3 DEF PeekSnapshot, TypeOK
    <3>2. snapshots[t] \in taken + 1 .. Len(log)
      BY <2>3 DEF PeekSnapshot, QueueInv, SlotsHoldLatestInvalidation
    <3>3. \A q \in taken + 1 .. snapshots[t] - 1 : EventLogSpec!Superseded(q)
      BY <3>1, <3>2, SkippedAreSuperseded
    <3>4. log[snapshots[t]] = t
      BY <2>3 DEF PeekSnapshot, QueueInv, SlotsHoldLatestInvalidation
    <3>5. \A p \in taken + 1 .. Len(log) : log[p] = t => p <= snapshots[t]
      BY DEF QueueInv, SlotsHoldLatestInvalidation
    <3>6. ~EventLogSpec!Superseded(snapshots[t])
      BY <3>2, <3>4, <3>5 DEF EventLogSpec!Superseded, TypeOK
    <3>7. EventLogSpec!Take
      BY <2>3, <3>2, <3>3, <3>6 DEF PeekSnapshot, EventLogSpec!Take
    <3> QED
      BY <3>7 DEF EventLogSpec!Next
  <2>4. CASE PeekOrdered
    <3> DEFINE p == ordered[head].sequence
    <3>1. Waiting(0) = ordered[head] /\ 0 \in 0 .. count - 1
      BY <2>4 DEF PeekOrdered, Waiting, SlotOf, Slots, TypeOK
    <3>2. p \in taken + 1 .. Len(log) /\ log[p] \in Ordered
      BY <3>1 DEF QueueInv, RingHoldsUntakenOrdered
    <3>3. IsFirst(p) /\ p \in Nat
      BY <2>4, <3>2 DEF PeekOrdered, TypeOK
    <3>4. \A q \in taken + 1 .. p - 1 : EventLogSpec!Superseded(q)
      BY <3>2, <3>3, SkippedAreSuperseded
    <3>5. ~EventLogSpec!Superseded(p)
      BY <3>2 DEF EventLogSpec!Superseded
    <3>6. EventLogSpec!Take
      BY <2>4, <3>2, <3>4, <3>5 DEF PeekOrdered, EventLogSpec!Take
    <3> QED
      BY <3>6 DEF EventLogSpec!Next
  <2>5. CASE Acknowledge
    BY <2>5 DEF Acknowledge, EventLogSpec!Next, EventLogSpec!Acknowledge
  <2>6. CASE Reset
    BY <2>6 DEF Reset, EventLogSpec!Next, EventLogSpec!Forget
  <2>7. CASE UNCHANGED vars
    BY <2>7 DEF vars, EventLogSpec!vars
  <2> QED
    BY <2>1, <2>2, <2>3, <2>4, <2>5, <2>6, <2>7
       DEF Next, RejectOrdered, PeekRetained
<1> QED
  BY <1>1, <1>2, QueueTyped, QueueHoldsUntaken, PTL
     DEF Spec, ImplementsEventLog, EventLogSpec!Spec
=============================================================================
