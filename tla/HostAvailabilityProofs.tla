----------------------- MODULE HostAvailabilityProofs -----------------------
(***************************************************************************)
(* Proofs about HostAvailability: its types, and the barrier a connect job *)
(* waits for.                                                              *)
(***************************************************************************)
EXTENDS HostAvailability, TLAPS

Entries == [host : Hosts, result : Outcomes \union {"pending"}, age : 0..Fresh,
            previous : BOOLEAN, previous_age : 0..Fresh, displayed : BOOLEAN]

Scans == [entries : Seq(Entries), cancel : BOOLEAN, done : BOOLEAN, age : 0..Refresh]

ScansTyped ==
    /\ scans \in Seq(Scans)
    /\ m_job \in 0..Len(scans) /\ m_barrier \in 0..Len(scans)
    /\ queue \in Seq(1..Len(scans))

(* The other variables; a probe runs for a queued scan only.               *)
RestInv ==
    /\ m_owner \in BOOLEAN /\ m_dirty \in BOOLEAN /\ closing \in BOOLEAN
    /\ at \in Nat /\ probe \in Outcomes \union {"none", "net"}
    /\ heard \in [Hosts -> 0..Fresh]
    /\ probe # "none" => queue # << >>

(* The queue holds unfinished scans in the order they were made, and the   *)
(* barrier is its last one.                                                *)
QueueInOrder ==
    /\ \A i \in 1..Len(queue) : ~scans[queue[i]].done
    /\ \A i, j \in 1..Len(queue) : i < j => queue[i] < queue[j]
    /\ queue # << >> => queue[Len(queue)] = m_barrier

ScanInv == ScansTyped /\ RestInv /\ QueueInOrder

(* Where the worker stands in the scan it runs.                            *)
WorkerInPlace ==
    /\ probe # "none" => at < Len(Running.entries)
    /\ queue = << >> => at = 0

(* What is known of the scan that is read.  Before the worker reaches it,  *)
(* nothing is recorded or inherited; while it runs, exactly the entries    *)
(* behind the worker are answered; when it is done and was not cancelled,  *)
(* all are.  An answer, or an inherited one while an entry waits, is never *)
(* newer than the last probe of its PC.                                    *)
CurrentScan(s) ==
    /\ \A k, l \in DOMAIN s.entries : s.entries[k].host = s.entries[l].host => k = l
    /\ m_barrier <= m_job /\ (m_job # m_barrier => s.cancel)
    /\ s.done /\ ~s.cancel => \A k \in DOMAIN s.entries : s.entries[k].result # "pending"
    /\ queue # << >> /\ Head(queue) = m_job =>
         \A k \in DOMAIN s.entries : s.entries[k].result = "pending" <=> k > at
    /\ queue # << >> /\ Head(queue) # m_job =>
         \A k \in DOMAIN s.entries : s.entries[k].result = "pending" /\ ~s.entries[k].previous

AnswersFollowProbes(s) ==
    \A k \in DOMAIN s.entries :
      /\ s.entries[k].result = "up" => heard[s.entries[k].host] <= s.entries[k].age
      /\ s.entries[k].result = "pending" /\ s.entries[k].previous =>
           heard[s.entries[k].host] <= s.entries[k].previous_age

FreshInv ==
    /\ WorkerInPlace
    /\ m_job # 0 => CurrentScan(scans[m_job]) /\ AnswersFollowProbes(scans[m_job])

-----------------------------------------------------------------------------
(* Rewriting the scans one by one, without touching done, keeps the        *)
(* sequence and the order of the queue.                                    *)
Rewritten(f) == /\ f \in Seq(Scans) /\ Len(f) = Len(scans)
                /\ \A i \in 1..Len(scans) : f[i].done = scans[i].done

LEMMA FunctionIsSeq ==
    ASSUME NEW T, NEW n \in Nat, NEW f \in [1..n -> T]
    PROVE  f \in Seq(T) /\ Len(f) = n
  OBVIOUS

LEMMA SeqIsFunction ==
    ASSUME NEW T, NEW s \in Seq(T)
    PROVE  Len(s) \in Nat /\ DOMAIN s = 1..Len(s) /\ \A i \in 1..Len(s) : s[i] \in T
  OBVIOUS

LEMMA ScansRewritten ==
    ASSUME ScansTyped, NEW f, DOMAIN f = DOMAIN scans, f = [i \in DOMAIN f |-> f[i]],
           \A i \in 1..Len(scans) : f[i] \in Scans /\ f[i].done = scans[i].done
    PROVE  Rewritten(f)
  <1>1. Len(scans) \in Nat /\ DOMAIN scans = 1..Len(scans)
    BY SeqIsFunction DEF ScansTyped
  <1>2. f \in [1..Len(scans) -> Scans]
    BY <1>1
  <1> QED BY <1>1, <1>2, FunctionIsSeq DEF Rewritten

(* What every rewriting of the scans in the module does.                   *)
LEMMA CancelledRewrites == ScansTyped => Rewritten(Cancelled)
  <1> SUFFICES ASSUME ScansTyped PROVE Rewritten(Cancelled)
    OBVIOUS
  <1>1. DOMAIN scans = 1..Len(scans) /\ \A i \in 1..Len(scans) : scans[i] \in Scans
    BY SeqIsFunction DEF ScansTyped
  <1>2. \A i \in 1..Len(scans) : Cancelled[i] \in Scans /\ Cancelled[i].done = scans[i].done
    BY <1>1 DEF Cancelled, Scans
  <1> QED BY <1>2, ScansRewritten DEF Cancelled

LEMMA Bounds == Refresh \in Nat /\ Fresh \in Nat /\ 0 \in 0..Refresh /\ Fresh \in 0..Fresh
  BY AvailabilityAssumption

LEMMA PendingTyped ==
    ASSUME NEW h \in Hosts PROVE Pending(h) \in Entries
  BY AvailabilityAssumption DEF Pending, Entries, Outcomes

LEMMA SupersededRewrites == ScansTyped => Rewritten(Superseded)
  <1> SUFFICES ASSUME ScansTyped PROVE Rewritten(Superseded)
    OBVIOUS
  <1> DEFINE P(i) == [k \in DOMAIN scans[i].entries |-> Pending(scans[i].entries[k].host)]
             G(i) == IF i # m_job THEN scans[i] ELSE
                       [scans[i] EXCEPT !.cancel = TRUE, !.age = 0, !.entries = P(i)]
  <1>0. DOMAIN scans = 1..Len(scans) /\ \A i \in 1..Len(scans) : scans[i] \in Scans
    BY SeqIsFunction DEF ScansTyped
  <1>1. ASSUME NEW i \in 1..Len(scans) PROVE P(i) \in Seq(Entries)
    <2>1. scans[i].entries \in Seq(Entries)
      BY <1>0 DEF Scans
    <2>2. Len(scans[i].entries) \in Nat /\ DOMAIN scans[i].entries = 1..Len(scans[i].entries)
      BY <2>1, SeqIsFunction
    <2>3. ASSUME NEW k \in DOMAIN scans[i].entries
          PROVE  Pending(scans[i].entries[k].host) \in Entries
      <3>1. scans[i].entries[k] \in Entries
        BY <2>1, <2>2, SeqIsFunction
      <3>2. scans[i].entries[k].host \in Hosts
        BY <3>1 DEF Entries
      <3> QED BY <3>2, PendingTyped
    <2>4. P(i) \in [1..Len(scans[i].entries) -> Entries]
      BY <2>2, <2>3
    <2> QED BY <2>2, <2>4, FunctionIsSeq
  <1>2. ASSUME NEW i \in 1..Len(scans) PROVE G(i) \in Scans /\ G(i).done = scans[i].done
    <2>1. P(i) \in Seq(Entries) /\ scans[i] \in Scans /\ 0 \in 0..Refresh
      BY <1>0, <1>1, Bounds
    <2> HIDE DEF P
    <2> QED BY <2>1 DEF Scans
  <1>3. Superseded = [i \in DOMAIN scans |-> G(i)]
    BY DEF Superseded
  <1> HIDE DEF G
  <1> QED BY <1>0, <1>2, <1>3, ScansRewritten

(* Giving one scan other entries of the same length.                       *)
LEMMA EntriesReplaced ==
    ASSUME NEW s \in Scans, NEW g, DOMAIN g = DOMAIN s.entries, g = [k \in DOMAIN g |-> g[k]],
           \A k \in DOMAIN s.entries : g[k] \in Entries
    PROVE  /\ g \in Seq(Entries)
           /\ [s EXCEPT !.entries = g] \in Scans
           /\ [s EXCEPT !.entries = g].done = s.done
  <1>1. Len(s.entries) \in Nat /\ DOMAIN s.entries = 1..Len(s.entries)
    BY SeqIsFunction DEF Scans
  <1>2. g \in [1..Len(s.entries) -> Entries]
    BY <1>1
  <1>3. g \in Seq(Entries)
    BY <1>1, <1>2, FunctionIsSeq
  <1> QED BY <1>3 DEF Scans

LEMMA ShownTyped ==
    ASSUME NEW s \in Scans
    PROVE  [s EXCEPT !.entries = Shown(s)] \in Scans /\ [s EXCEPT !.entries = Shown(s)].done = s.done
  <1>1. ASSUME NEW k \in DOMAIN s.entries PROVE Shown(s)[k] \in Entries
    <2>1. s.entries[k] \in Entries
      BY SeqIsFunction DEF Scans
    <2>2. Available(s, s.entries[k]) \in BOOLEAN
      BY DEF Available
    <2>3. Shown(s)[k] = [s.entries[k] EXCEPT !.displayed = Available(s, s.entries[k])]
      BY DEF Shown
    <2> HIDE DEF Available
    <2> QED BY <2>1, <2>2, <2>3 DEF Entries
  <1>2. DOMAIN Shown(s) = DOMAIN s.entries /\ Shown(s) = [k \in DOMAIN Shown(s) |-> Shown(s)[k]]
    BY DEF Shown
  <1> QED BY <1>1, <1>2, EntriesReplaced

LEMMA OlderBounded ==
    ASSUME NEW limit \in Nat, NEW n \in 0..limit PROVE Older(n, limit) \in 0..limit
  BY DEF Older

LEMMA AgedTyped ==
    ASSUME NEW s \in Scans
    PROVE  /\ [s EXCEPT !.age = Older(@, Refresh), !.entries = Aged(s)] \in Scans
           /\ [s EXCEPT !.age = Older(@, Refresh), !.entries = Aged(s)].done = s.done
  <1>1. ASSUME NEW k \in DOMAIN s.entries PROVE Aged(s)[k] \in Entries
    <2>1. s.entries[k] \in Entries
      BY SeqIsFunction DEF Scans
    <2>2. /\ Older(s.entries[k].age, Fresh) \in 0..Fresh
          /\ Older(s.entries[k].previous_age, Fresh) \in 0..Fresh
      BY <2>1, OlderBounded, Bounds DEF Entries
    <2>3. Aged(s)[k] = [s.entries[k] EXCEPT !.age = Older(@, Fresh),
                                            !.previous_age = Older(@, Fresh)]
      BY DEF Aged
    <2> QED BY <2>1, <2>2, <2>3 DEF Entries
  <1>2. DOMAIN Aged(s) = DOMAIN s.entries /\ Aged(s) = [k \in DOMAIN Aged(s) |-> Aged(s)[k]]
    BY DEF Aged
  <1>3. Aged(s) \in Seq(Entries)
    BY <1>1, <1>2, EntriesReplaced
  <1>4. Older(s.age, Refresh) \in 0..Refresh
    BY OlderBounded, Bounds DEF Scans
  <1> QED BY <1>3, <1>4 DEF Scans

-----------------------------------------------------------------------------
(* A step that only rewrites scans keeps the queue as it was.              *)
LEMMA RewriteKeepsQueue ==
    ASSUME ScansTyped, QueueInOrder, Rewritten(scans'), UNCHANGED <<m_job, m_barrier, queue>>
    PROVE  ScansTyped' /\ QueueInOrder'
  <1>1. \A i \in 1..Len(queue) : queue[i] \in 1..Len(scans)
    BY SeqIsFunction DEF ScansTyped
  <1> QED BY <1>1 DEF ScansTyped, QueueInOrder, Rewritten

LEMMA SameScans == ScansTyped => Rewritten(scans)
  BY SeqIsFunction DEF ScansTyped, Rewritten

LEMMA CancelStep ==
    ASSUME ScanInv, CancelScan PROVE ScanInv'
  <1>1. Rewritten(scans')
    BY CancelledRewrites DEF ScanInv, CancelScan
  <1>2. RestInv'
    BY DEF ScanInv, RestInv, CancelScan
  <1> QED BY <1>1, <1>2, RewriteKeepsQueue DEF ScanInv, CancelScan

LEMMA StutterStep ==
    ASSUME ScanInv, UNCHANGED availability PROVE ScanInv'
  BY DEF ScanInv, ScansTyped, RestInv, QueueInOrder, availability

LEMMA PollStep ==
    ASSUME ScanInv, PollAvailability PROVE ScanInv'
  <1>0. ScansTyped /\ QueueInOrder /\ RestInv
    BY DEF ScanInv
  <1>1. DOMAIN scans = 1..Len(scans) /\ \A i \in 1..Len(scans) : scans[i] \in Scans
    BY <1>0, SeqIsFunction DEF ScansTyped
  <1>2. \A i \in 1..Len(scans) : scans'[i] \in Scans /\ scans'[i].done = scans[i].done
    BY <1>1, ShownTyped DEF PollAvailability
  <1>3. DOMAIN scans' = DOMAIN scans /\ scans' = [i \in DOMAIN scans' |-> scans'[i]]
    BY DEF PollAvailability
  <1>4. Rewritten(scans')
    BY <1>0, <1>2, <1>3, ScansRewritten
  <1>5. RestInv'
    BY <1>0 DEF RestInv, PollAvailability
  <1> QED BY <1>0, <1>4, <1>5, RewriteKeepsQueue DEF ScanInv, PollAvailability

LEMMA TimeStep ==
    ASSUME ScanInv, TimePasses PROVE ScanInv'
  <1>0. ScansTyped /\ QueueInOrder /\ RestInv
    BY DEF ScanInv
  <1>1. DOMAIN scans = 1..Len(scans) /\ \A i \in 1..Len(scans) : scans[i] \in Scans
    BY <1>0, SeqIsFunction DEF ScansTyped
  <1>2. \A i \in 1..Len(scans) : scans'[i] \in Scans /\ scans'[i].done = scans[i].done
    BY <1>1, AgedTyped DEF TimePasses
  <1>3. DOMAIN scans' = DOMAIN scans /\ scans' = [i \in DOMAIN scans' |-> scans'[i]]
    BY DEF TimePasses
  <1>4. Rewritten(scans')
    BY <1>0, <1>2, <1>3, ScansRewritten
  <1>5. RestInv'
    <2>1. heard' \in [Hosts -> 0..Fresh]
      BY <1>0, OlderBounded, Bounds DEF RestInv, TimePasses
    <2> QED BY <1>0, <2>1 DEF RestInv, TimePasses
  <1> QED BY <1>0, <1>4, <1>5, RewriteKeepsQueue DEF ScanInv, TimePasses

(* The worker's steps.                                                     *)
LEMMA StoreStep ==
    ASSUME ScanInv, StoreResult PROVE ScanInv'
  <1>0. ScansTyped /\ QueueInOrder /\ RestInv
    BY DEF ScanInv
  <1>1. DOMAIN scans = 1..Len(scans) /\ \A i \in 1..Len(scans) : scans[i] \in Scans
    BY <1>0, SeqIsFunction DEF ScansTyped
  <1> DEFINE id == Head(queue)
             k == at + 1
             old == scans[id].entries
             new == [old EXCEPT ![k] = [@ EXCEPT !.result = probe, !.age = 0]]
  <1>2. id \in 1..Len(scans)
    <2>1. queue # << >>
      BY <1>0 DEF RestInv, StoreResult, Outcomes
    <2> QED BY <1>0, <2>1 DEF ScansTyped
  <1>3. new \in Seq(Entries)
    <2>1. old \in Seq(Entries) /\ Len(old) \in Nat /\ DOMAIN old = 1..Len(old)
          /\ \A j \in 1..Len(old) : old[j] \in Entries
      BY <1>1, <1>2, SeqIsFunction DEF Scans
    <2>2. probe \in Outcomes /\ 0 \in 0..Fresh
      BY Bounds DEF StoreResult
    <2>3. DOMAIN new = DOMAIN old /\ new = [j \in DOMAIN new |-> new[j]]
      BY <2>1
    <2>4. ASSUME NEW j \in 1..Len(old) PROVE new[j] \in Entries
      BY <2>1, <2>2 DEF Entries
    <2>5. new \in [1..Len(old) -> Entries]
      BY <2>1, <2>3, <2>4
    <2> QED BY <2>1, <2>5, FunctionIsSeq
  <1>4. scans' = IF id # m_job THEN scans ELSE [scans EXCEPT ![id].entries = new]
    <2>1. CASE id # m_job
      BY <2>1 DEF StoreResult
    <2>2. CASE id = m_job
      <3>1. scans' = [scans EXCEPT ![id].entries[k] = [@ EXCEPT !.result = probe, !.age = 0]]
        BY <2>2 DEF StoreResult
      <3> QED BY <2>2, <3>1
    <2> QED BY <2>1, <2>2
  <1> HIDE DEF new
  <1>5. \A i \in 1..Len(scans) : scans'[i] \in Scans /\ scans'[i].done = scans[i].done
    BY <1>1, <1>2, <1>3, <1>4 DEF Scans
  <1>6. DOMAIN scans' = DOMAIN scans /\ scans' = [i \in DOMAIN scans' |-> scans'[i]]
    <2>1. scans = [i \in DOMAIN scans |-> scans[i]]
      BY <1>0 DEF ScansTyped
    <2> QED BY <1>1, <1>4, <2>1
  <1>7. Rewritten(scans')
    BY <1>0, <1>5, <1>6, ScansRewritten
  <1>8. RestInv'
    <2>1. heard' \in [Hosts -> 0..Fresh]
      <3> DEFINE h == Running.entries[at + 1].host
                 v == IF probe = "up" THEN 0 ELSE Fresh
      <3>1. heard' = IF probe = "cancelled" THEN heard ELSE [heard EXCEPT ![h] = v]
        BY DEF StoreResult, Running
      <3>2. v \in 0..Fresh
        BY Bounds
      <3> HIDE DEF h, v
      <3> QED BY <1>0, <3>1, <3>2 DEF RestInv
    <2> QED BY <1>0, <2>1 DEF RestInv, StoreResult
  <1>9. UNCHANGED <<m_job, m_barrier, queue>>
    BY DEF StoreResult
  <1> QED BY <1>0, <1>7, <1>8, <1>9, RewriteKeepsQueue DEF ScanInv

LEMMA FinishStep ==
    ASSUME ScanInv, FinishScan PROVE ScanInv'
  <1>0. ScansTyped /\ QueueInOrder /\ RestInv
    BY DEF ScanInv
  <1>1. /\ Len(scans) \in Nat /\ DOMAIN scans = 1..Len(scans)
        /\ \A i \in 1..Len(scans) : scans[i] \in Scans
    BY <1>0, SeqIsFunction DEF ScansTyped
  <1> DEFINE id == Head(queue)
  <1>2. /\ queue \in Seq(1..Len(scans)) /\ queue # << >> /\ queue' = Tail(queue)
        /\ scans' = [scans EXCEPT ![id].done = TRUE]
    BY <1>0 DEF ScansTyped, FinishScan
  <1>3. id = queue[1] /\ id \in 1..Len(scans) /\ Len(queue) \in Nat \ {0}
    BY <1>2
  <1>4. \A i \in 1..Len(scans) : scans'[i] \in Scans
    BY <1>1, <1>2, <1>3 DEF Scans
  <1>5. scans' \in Seq(Scans) /\ Len(scans') = Len(scans)
    <2>1. scans' \in [1..Len(scans) -> Scans]
      BY <1>1, <1>2, <1>4
    <2> QED BY <1>1, <2>1, FunctionIsSeq
  <1>6. \A i \in 1..Len(scans) : i # id => scans'[i].done = scans[i].done
    BY <1>1, <1>2
  <1>7. /\ queue' \in Seq(1..Len(scans)) /\ Len(queue') = Len(queue) - 1
        /\ \A i \in 1..Len(queue') : queue'[i] = queue[i + 1] /\ queue[i + 1] \in 1..Len(scans)
    BY <1>2, <1>3
  <1>8. ScansTyped'
    BY <1>0, <1>5, <1>7 DEF ScansTyped, FinishScan
  <1>9. RestInv'
    BY <1>0 DEF RestInv, FinishScan
  <1>10. QueueInOrder'
    <2>1. ASSUME NEW i \in 1..Len(queue') PROVE ~scans'[queue'[i]].done
      <3>1. i + 1 \in 1..Len(queue) /\ 1 < i + 1
        BY <1>3, <1>7
      <3>2. queue[i + 1] # id /\ ~scans[queue[i + 1]].done
        BY <1>0, <1>3, <1>7, <3>1 DEF QueueInOrder
      <3> QED BY <1>6, <1>7, <3>2
    <2>2. ASSUME NEW i \in 1..Len(queue'), NEW j \in 1..Len(queue'), i < j
          PROVE  queue'[i] < queue'[j]
      <3>1. i + 1 \in 1..Len(queue) /\ j + 1 \in 1..Len(queue) /\ i + 1 < j + 1
        BY <1>3, <1>7, <2>2
      <3> QED BY <1>0, <1>7, <3>1 DEF QueueInOrder
    <2>3. queue' # << >> => queue'[Len(queue')] = m_barrier'
      <3>1. SUFFICES ASSUME queue' # << >> PROVE queue'[Len(queue')] = m_barrier'
        OBVIOUS
      <3>2. Len(queue') \in 1..Len(queue')
        BY <1>7, <3>1
      <3>3. queue'[Len(queue')] = queue[Len(queue)]
        BY <1>3, <1>7, <3>2
      <3> QED BY <1>0, <1>2, <3>3 DEF QueueInOrder, FinishScan
    <2> QED BY <2>1, <2>2, <2>3 DEF QueueInOrder
  <1> QED BY <1>8, <1>9, <1>10 DEF ScanInv

(* A new scan is typed and, if it was queued, not yet done.                *)
LEMMA EntryTyped ==
    ASSUME ScansTyped, NEW h \in Hosts, NEW same \in BOOLEAN, NEW i,
           same => m_job \in 1..Len(scans) /\ i \in DOMAIN scans[m_job].entries
    PROVE  Entry(h, same, i) \in Entries
  <1>1. Pending(h) \in Entries
    BY PendingTyped
  <1>2. CASE same /\ Available(scans[m_job], scans[m_job].entries[i])
    <2>1. scans[m_job] \in Scans
      BY <1>2, SeqIsFunction DEF ScansTyped
    <2>2. scans[m_job].entries[i] \in Entries
      BY <1>2, <2>1, SeqIsFunction DEF Scans
    <2>3. scans[m_job].entries[i].age \in 0..Fresh
      BY <2>2 DEF Entries
    <2>4. Entry(h, same, i) = [Pending(h) EXCEPT !.previous = TRUE, !.displayed = TRUE,
                                 !.previous_age = scans[m_job].entries[i].age]
      BY <1>2 DEF Entry
    <2> HIDE DEF Pending
    <2> QED BY <1>1, <2>3, <2>4 DEF Entries
  <1>3. CASE ~(same /\ Available(scans[m_job], scans[m_job].entries[i]))
    BY <1>1, <1>3 DEF Entry
  <1> QED BY <1>2, <1>3

LEMMA NewScanStep ==
    ASSUME ScanInv, NEW hosts \in Lists, NEW queued \in BOOLEAN, NewScan(hosts, queued)
    PROVE  ScanInv'
  <1>0. ScansTyped /\ QueueInOrder /\ RestInv
    BY DEF ScanInv
  <1> DEFINE same == Unchanged(hosts)
             entries == [i \in DOMAIN hosts |-> Entry(hosts[i], same, i)]
             new == [entries |-> entries, cancel |-> ~queued, done |-> ~queued, age |-> 0]
             id == Len(scans) + 1
  <1>1. /\ Len(scans) \in Nat
        /\ scans' = Append(Superseded, new)
        /\ m_job' = id
        /\ m_barrier' = IF queued THEN id ELSE m_barrier
        /\ queue' = IF queued THEN Append(queue, id) ELSE queue
    BY <1>0, SeqIsFunction DEF ScansTyped, NewScan
  <1>2. hosts \in Seq(Hosts)
    BY AvailabilityAssumption
  <1>3. same \in BOOLEAN
    BY DEF Unchanged
  <1>4. ASSUME NEW i \in DOMAIN hosts PROVE Entry(hosts[i], same, i) \in Entries
    <2>1. hosts[i] \in Hosts
      BY <1>2
    <2>2. same => m_job \in 1..Len(scans) /\ i \in DOMAIN scans[m_job].entries
      <3> SUFFICES ASSUME same PROVE m_job \in 1..Len(scans) /\ i \in DOMAIN scans[m_job].entries
        OBVIOUS
      <3>1. m_job \in 1..Len(scans) /\ Len(scans[m_job].entries) = Len(hosts)
        BY <1>0 DEF Unchanged, ScansTyped
      <3>2. scans[m_job] \in Scans
        BY <1>0, <3>1, SeqIsFunction DEF ScansTyped
      <3>3. scans[m_job].entries \in Seq(Entries)
        BY <3>2 DEF Scans
      <3>4. DOMAIN scans[m_job].entries = DOMAIN hosts
        BY <1>2, <3>1, <3>3, SeqIsFunction
      <3> QED BY <3>1, <3>4
    <2> HIDE DEF same
    <2> QED BY <1>0, <1>3, <2>1, <2>2, EntryTyped
  <1>5. new \in Scans /\ new.done = ~queued
    <2>1. entries \in [1..Len(hosts) -> Entries]
      BY <1>2, <1>4
    <2>2. entries \in Seq(Entries)
      BY <1>2, <2>1, FunctionIsSeq
    <2> HIDE DEF entries
    <2> QED BY <2>2, Bounds DEF Scans
  <1> HIDE DEF new, same, entries
  <1>6. Rewritten(Superseded)
    BY <1>0, SupersededRewrites
  <1>7. /\ scans' \in Seq(Scans) /\ Len(scans') = id
        /\ scans'[id].done = ~queued
        /\ \A i \in 1..Len(scans) : scans'[i].done = scans[i].done
    BY <1>1, <1>5, <1>6 DEF Rewritten
  <1>8. /\ queue \in Seq(1..Len(scans)) /\ Len(queue) \in Nat
        /\ \A i \in 1..Len(queue) : queue[i] \in 1..Len(scans)
    BY <1>0, SeqIsFunction DEF ScansTyped
  <1>9. RestInv'
    <2>1. queue' = << >> => queue = << >>
      BY <1>1, <1>8
    <2> QED BY <1>0, <2>1 DEF RestInv, NewScan
  <1>10. CASE queued
    <2>1. /\ queue' = Append(queue, id) /\ m_barrier' = id
      BY <1>1, <1>10
    <2>2. /\ Len(queue') = Len(queue) + 1 /\ queue'[Len(queue) + 1] = id
          /\ \A i \in 1..Len(queue) : queue'[i] = queue[i]
          /\ queue' \in Seq(1..id)
      <3>1. queue \in Seq(1..id) /\ id \in 1..id
        BY <1>1, <1>8
      <3> HIDE DEF id
      <3> QED BY <2>1, <3>1
    <2>3. ScansTyped'
      BY <1>1, <1>7, <2>1, <2>2 DEF ScansTyped
    <2>4. ASSUME NEW i \in 1..Len(queue') PROVE ~scans'[queue'[i]].done
      <3>1. CASE i = Len(queue) + 1
        BY <1>7, <1>10, <2>2, <3>1
      <3>2. CASE i # Len(queue) + 1
        <4>1. i \in 1..Len(queue)
          BY <1>8, <2>2, <3>2
        <4> QED BY <1>0, <1>7, <1>8, <2>2, <4>1 DEF QueueInOrder
      <3> QED BY <3>1, <3>2
    <2>5. \A i, j \in 1..Len(queue') : i < j => queue'[i] < queue'[j]
      BY <1>0, <1>1, <1>8, <2>2 DEF QueueInOrder
    <2>6. queue'[Len(queue')] = m_barrier'
      BY <2>1, <2>2
    <2> QED BY <1>9, <2>3, <2>4, <2>5, <2>6 DEF ScanInv, QueueInOrder
  <1>11. CASE ~queued
    <2>1. queue' = queue /\ m_barrier' = m_barrier
      BY <1>1, <1>11
    <2>2. queue \in Seq(1..id)
      BY <1>1, <1>8
    <2>3. ScansTyped'
      BY <1>0, <1>1, <1>7, <2>1, <2>2 DEF ScansTyped
    <2>4. QueueInOrder'
      BY <1>0, <1>7, <1>8, <2>1 DEF QueueInOrder
    <2> QED BY <1>9, <2>3, <2>4 DEF ScanInv
  <1> QED BY <1>10, <1>11

-----------------------------------------------------------------------------
LEMMA ScanInit == AvailabilityInit => ScanInv
  <1> SUFFICES ASSUME AvailabilityInit PROVE ScanInv
    OBVIOUS
  <1>1. scans = << >> /\ queue = << >>
    BY DEF AvailabilityInit
  <1>2. ScansTyped /\ QueueInOrder
    BY <1>1 DEF AvailabilityInit, ScansTyped, QueueInOrder
  <1>3. RestInv
    BY Bounds DEF AvailabilityInit, RestInv
  <1> QED BY <1>2, <1>3 DEF ScanInv

LEMMA ScanStep == ScanInv /\ [AvailabilityNext]_availability => ScanInv'
  <1> SUFFICES ASSUME ScanInv, [AvailabilityNext]_availability PROVE ScanInv'
    OBVIOUS
  <1>1. ASSUME StopAvailability PROVE ScanInv'
    BY <1>1, CancelStep, StutterStep DEF StopAvailability
  <1>2. ASSUME NEW hosts \in Lists, CheckAvailability(hosts) PROVE ScanInv'
    BY <1>1, <1>2, StutterStep, NewScanStep DEF CheckAvailability
  <1>3. ASSUME BeginShutdown PROVE ScanInv'
    <2>1. Rewritten(scans') /\ UNCHANGED <<m_job, m_barrier, queue>>
      BY <1>3, CancelledRewrites DEF ScanInv, BeginShutdown
    <2>2. RestInv'
      BY <1>3 DEF ScanInv, RestInv, BeginShutdown
    <2> QED BY <2>1, <2>2, RewriteKeepsQueue DEF ScanInv
  <1>4. ASSUME EndShutdown PROVE ScanInv'
    <2>1. RestInv'
      BY <1>4 DEF ScanInv, RestInv, EndShutdown
    <2>2. ScansTyped' /\ QueueInOrder'
      BY <1>4 DEF ScanInv, ScansTyped, QueueInOrder, EndShutdown
    <2> QED BY <2>1, <2>2 DEF ScanInv
  <1>5. ASSUME BeginProbe \/ ProbeReturns PROVE ScanInv'
    <2>1. Rewritten(scans') /\ UNCHANGED <<m_job, m_barrier, queue>>
      BY <1>5, SameScans DEF ScanInv, BeginProbe, ProbeReturns
    <2>2. RestInv'
      BY <1>5 DEF ScanInv, RestInv, BeginProbe, ProbeReturns, Outcomes
    <2> QED BY <2>1, <2>2, RewriteKeepsQueue DEF ScanInv
  <1> QED BY <1>1, <1>2, <1>3, <1>4, <1>5, CancelStep, PollStep, TimeStep, FinishStep,
             StoreStep,
             StutterStep DEF AvailabilityNext, WorkerStep

-----------------------------------------------------------------------------
(* The types of the service and its worker hold in every reachable state.  *)
THEOREM AvailabilityTyped == AvailabilitySpec => []AvailabilityTypeOK
  <1>1. ScanInv => AvailabilityTypeOK
    <2> SUFFICES ASSUME ScanInv PROVE AvailabilityTypeOK
      OBVIOUS
    <2>1. ASSUME NEW i \in DOMAIN scans
          PROVE  /\ scans[i].cancel \in BOOLEAN /\ scans[i].done \in BOOLEAN
                 /\ \A k \in DOMAIN scans[i].entries :
                      scans[i].entries[k].result \in Outcomes \union {"pending"}
      <3>1. scans[i] \in Scans
        BY SeqIsFunction DEF ScanInv, ScansTyped
      <3>2. scans[i].entries \in Seq(Entries)
        BY <3>1 DEF Scans
      <3>3. \A k \in DOMAIN scans[i].entries : scans[i].entries[k] \in Entries
        BY <3>2, SeqIsFunction
      <3> QED BY <3>1, <3>3 DEF Scans, Entries
    <2> QED BY <2>1 DEF ScanInv, ScansTyped, RestInv, AvailabilityTypeOK
  <1> QED BY <1>1, ScanInit, ScanStep, PTL DEF AvailabilitySpec

(* The last scan of the queue is the barrier, and none of them is done.    *)
LEMMA BarrierCovers == ScanInv => BarrierCoversQueue
  <1> SUFFICES ASSUME ScanInv PROVE BarrierCoversQueue
    OBVIOUS
  <1>1. /\ queue \in Seq(1..Len(scans)) /\ Len(queue) \in Nat /\ DOMAIN queue = 1..Len(queue)
        /\ \A i \in 1..Len(queue) : queue[i] \in 1..Len(scans)
        /\ QueueInOrder
    BY SeqIsFunction DEF ScanInv, ScansTyped
  <1>2. \A i \in DOMAIN queue : queue[i] <= m_barrier
    <2> SUFFICES ASSUME NEW i \in 1..Len(queue) PROVE queue[i] <= m_barrier
      BY <1>1
    <2>1. Len(queue) \in 1..Len(queue) /\ queue # << >>
      BY <1>1
    <2>2. queue[Len(queue)] = m_barrier /\ (i < Len(queue) => queue[i] < queue[Len(queue)])
      BY <1>1, <2>1 DEF QueueInOrder
    <2> QED BY <1>1, <2>1, <2>2
  <1>3. Drained(m_barrier) => queue = << >>
    <2> SUFFICES ASSUME queue # << >> PROVE ~Drained(m_barrier)
      OBVIOUS
    <2>1. Len(queue) \in 1..Len(queue)
      BY <1>1
    <2>2. m_barrier = queue[Len(queue)] /\ m_barrier # 0 /\ ~scans[m_barrier].done
      BY <1>1, <2>1 DEF QueueInOrder
    <2> QED BY <2>2 DEF Drained
  <1> QED BY <1>2, <1>3 DEF BarrierCoversQueue

(* Waiting for the newest queued scan drains all probes: the promise a     *)
(* ConnectJob relies on when it waits for AvailabilityBarrier only.        *)
THEOREM BarrierHolds == AvailabilitySpec => []BarrierCoversQueue
  BY BarrierCovers, ScanInit, ScanStep, PTL DEF AvailabilitySpec

-----------------------------------------------------------------------------
(* The scans have typed entries, and theirs are the lengths.               *)
LEMMA ScanFacts ==
    ASSUME ScansTyped
    PROVE  /\ Len(scans) \in Nat /\ DOMAIN scans = 1..Len(scans)
           /\ \A i \in 1..Len(scans) :
                /\ scans[i] \in Scans /\ scans[i].entries \in Seq(Entries)
                /\ Len(scans[i].entries) \in Nat
                /\ DOMAIN scans[i].entries = 1..Len(scans[i].entries)
                /\ \A k \in 1..Len(scans[i].entries) : scans[i].entries[k] \in Entries
  <1>1. /\ Len(scans) \in Nat /\ DOMAIN scans = 1..Len(scans)
        /\ \A i \in 1..Len(scans) : scans[i] \in Scans
    BY SeqIsFunction DEF ScansTyped
  <1>2. ASSUME NEW i \in 1..Len(scans) PROVE scans[i].entries \in Seq(Entries)
    BY <1>1 DEF Scans
  <1> QED BY <1>1, <1>2, SeqIsFunction

LEMMA HeadQueued ==
    ASSUME ScansTyped, queue # << >> PROVE Head(queue) \in 1..Len(scans)
  BY DEF ScansTyped

(* A step that leaves the queue alone and, of every scan, keeps the        *)
(* length and, of the scan that is read, at most cancels it or redraws it. *)
SameAnswers(s, n) ==
    /\ DOMAIN n.entries = DOMAIN s.entries
    /\ n.done = s.done
    /\ s.cancel => n.cancel
    /\ \A k \in DOMAIN s.entries :
         /\ n.entries[k].host = s.entries[k].host
         /\ n.entries[k].result = s.entries[k].result
         /\ n.entries[k].age = s.entries[k].age
         /\ n.entries[k].previous = s.entries[k].previous
         /\ n.entries[k].previous_age = s.entries[k].previous_age

LEMMA SameAnswersKeep ==
    ASSUME ScansTyped, FreshInv, RestInv',
           UNCHANGED <<m_job, m_barrier, queue, at, heard>>,
           probe' # "none" => probe # "none" \/ at < Len(Running.entries),
           \A i \in 1..Len(scans) : /\ Len(scans'[i].entries) = Len(scans[i].entries)
                                    /\ i = m_job => SameAnswers(scans[i], scans'[i])
    PROVE  FreshInv'
  <1>1. WorkerInPlace'
    <2>1. ASSUME probe' # "none" PROVE at' < Len(Running'.entries)
      <3>1. queue # << >>
        BY <2>1 DEF RestInv
      <3>2. Head(queue) \in 1..Len(scans)
        BY <3>1, HeadQueued
      <3>3. Len(Running'.entries) = Len(Running.entries)
        BY <3>2 DEF Running
      <3> QED BY <2>1, <3>3 DEF FreshInv, WorkerInPlace
    <2> QED BY <2>1 DEF FreshInv, WorkerInPlace
  <1>2. ASSUME m_job # 0 PROVE CurrentScan(scans[m_job])' /\ AnswersFollowProbes(scans[m_job])'
    <2>1. m_job \in 1..Len(scans)
      BY <1>2 DEF ScansTyped
    <2>2. SameAnswers(scans[m_job], scans'[m_job])
      BY <2>1
    <2>3. CurrentScan(scans[m_job]) /\ AnswersFollowProbes(scans[m_job])
      BY <1>2 DEF FreshInv
    <2>4. CurrentScan(scans[m_job])'
      BY <2>2, <2>3 DEF CurrentScan, SameAnswers
    <2>5. AnswersFollowProbes(scans[m_job])'
      BY <2>2, <2>3 DEF AnswersFollowProbes, SameAnswers
    <2> QED BY <2>4, <2>5
  <1> QED BY <1>1, <1>2 DEF FreshInv

LEMMA CancelledSame ==
    ASSUME ScansTyped, NEW i \in 1..Len(scans)
    PROVE  /\ Len(Cancelled[i].entries) = Len(scans[i].entries)
           /\ SameAnswers(scans[i], Cancelled[i])
  <1>1. DOMAIN scans = 1..Len(scans) /\ scans[i] \in Scans
    BY ScanFacts
  <1>2. Cancelled[i].entries = scans[i].entries /\ Cancelled[i].done = scans[i].done
        /\ (scans[i].cancel => Cancelled[i].cancel)
    BY <1>1 DEF Cancelled, Scans
  <1> QED BY <1>2 DEF SameAnswers

LEMMA SameScansSame ==
    ASSUME NEW i \in 1..Len(scans) PROVE SameAnswers(scans[i], scans[i])
  BY DEF SameAnswers

LEMMA CancelFresh ==
    ASSUME ScanInv, ScanInv', FreshInv, CancelScan \/ BeginShutdown PROVE FreshInv'
  BY CancelledSame, SameAnswersKeep DEF ScanInv, CancelScan, BeginShutdown

LEMMA ProbeFresh ==
    ASSUME ScanInv, ScanInv', FreshInv, BeginProbe \/ ProbeReturns PROVE FreshInv'
  BY SameScansSame, SameAnswersKeep DEF ScanInv, BeginProbe, ProbeReturns

LEMMA PollFresh ==
    ASSUME ScanInv, ScanInv', FreshInv, PollAvailability PROVE FreshInv'
  <1>1. ASSUME NEW i \in 1..Len(scans)
        PROVE  /\ Len(scans'[i].entries) = Len(scans[i].entries)
               /\ SameAnswers(scans[i], scans'[i])
    <2>1. /\ DOMAIN scans = 1..Len(scans) /\ scans[i] \in Scans
          /\ scans[i].entries \in Seq(Entries) /\ Len(scans[i].entries) \in Nat
          /\ DOMAIN scans[i].entries = 1..Len(scans[i].entries)
          /\ \A k \in 1..Len(scans[i].entries) : scans[i].entries[k] \in Entries
      BY ScanFacts DEF ScanInv
    <2>2. CASE i # m_job
      BY <2>1, <2>2 DEF PollAvailability, SameAnswers
    <2>3. CASE i = m_job
      <3>1. /\ scans'[i].entries = Shown(scans[i]) /\ scans'[i].done = scans[i].done
            /\ scans'[i].cancel = scans[i].cancel
        BY <2>1, <2>3 DEF PollAvailability, Scans
      <3>2. DOMAIN Shown(scans[i]) = 1..Len(scans[i].entries)
        BY <2>1 DEF Shown
      <3>3. Len(Shown(scans[i])) = Len(scans[i].entries)
        BY <2>1, <3>2
      <3>4. ASSUME NEW k \in 1..Len(scans[i].entries)
            PROVE  /\ Shown(scans[i])[k].host = scans[i].entries[k].host
                   /\ Shown(scans[i])[k].result = scans[i].entries[k].result
                   /\ Shown(scans[i])[k].age = scans[i].entries[k].age
                   /\ Shown(scans[i])[k].previous = scans[i].entries[k].previous
                   /\ Shown(scans[i])[k].previous_age = scans[i].entries[k].previous_age
        <4>1. Shown(scans[i])[k] =
                [scans[i].entries[k] EXCEPT !.displayed = Available(scans[i], scans[i].entries[k])]
          BY <2>1 DEF Shown
        <4> QED BY <2>1, <4>1 DEF Entries
      <3> QED BY <2>1, <3>1, <3>2, <3>3, <3>4 DEF SameAnswers
    <2> QED BY <2>2, <2>3
  <1> QED BY <1>1, SameAnswersKeep DEF ScanInv, PollAvailability

(* Time ages the answers and the history alike.                            *)
LEMMA OlderMonotone ==
    ASSUME NEW limit \in Nat, NEW m \in 0..limit, NEW n \in 0..limit, m <= n
    PROVE  Older(m, limit) <= Older(n, limit)
  BY DEF Older

LEMMA TimeFresh ==
    ASSUME ScanInv, ScanInv', FreshInv, TimePasses PROVE FreshInv'
  <1>0. ScansTyped /\ RestInv /\ RestInv'
    BY DEF ScanInv
  <1>a. UNCHANGED <<m_job, m_barrier, m_owner, m_dirty, closing, queue, at, probe>>
    BY DEF TimePasses
  <1>1. ASSUME NEW i \in 1..Len(scans)
        PROVE  /\ Len(scans'[i].entries) = Len(scans[i].entries)
               /\ i = m_job => /\ scans'[i].entries = Aged(scans[i])
                               /\ scans'[i].done = scans[i].done
                               /\ scans'[i].cancel = scans[i].cancel
    <2>1. /\ DOMAIN scans = 1..Len(scans) /\ scans[i] \in Scans
          /\ Len(scans[i].entries) \in Nat
          /\ DOMAIN scans[i].entries = 1..Len(scans[i].entries)
      BY <1>0, ScanFacts
    <2>2. CASE i # m_job
      BY <2>1, <2>2 DEF TimePasses
    <2>3. CASE i = m_job
      <3>1. /\ scans'[i].entries = Aged(scans[i]) /\ scans'[i].done = scans[i].done
            /\ scans'[i].cancel = scans[i].cancel
        BY <2>1, <2>3 DEF TimePasses, Scans
      <3>2. DOMAIN Aged(scans[i]) = 1..Len(scans[i].entries)
        BY <2>1 DEF Aged
      <3> QED BY <2>1, <3>1, <3>2
    <2> QED BY <2>2, <2>3
  <1>2. WorkerInPlace'
    <2>1. ASSUME probe' # "none" PROVE at' < Len(Running'.entries)
      <3>1. queue # << >>
        BY <1>0, <1>a, <2>1 DEF RestInv
      <3>2. Len(Running'.entries) = Len(Running.entries)
        BY <1>0, <1>1, <1>a, <3>1, HeadQueued DEF Running
      <3> QED BY <1>a, <2>1, <3>2 DEF FreshInv, WorkerInPlace
    <2> QED BY <1>a, <2>1 DEF FreshInv, WorkerInPlace
  <1>3. ASSUME m_job # 0 PROVE CurrentScan(scans[m_job])' /\ AnswersFollowProbes(scans[m_job])'
    <2> DEFINE s == scans[m_job]
               n == scans'[m_job]
    <2>1. m_job \in 1..Len(scans)
      BY <1>0, <1>3 DEF ScansTyped
    <2>2. n.entries = Aged(s) /\ n.done = s.done /\ n.cancel = s.cancel
      BY <1>1, <2>1
    <2>3. CurrentScan(s) /\ AnswersFollowProbes(s)
      BY <1>3 DEF FreshInv
    <2>4. DOMAIN Aged(s) = DOMAIN s.entries
      BY DEF Aged
    <2>5. ASSUME NEW k \in DOMAIN s.entries
          PROVE  /\ s.entries[k] \in Entries
                 /\ n.entries[k].host = s.entries[k].host
                 /\ n.entries[k].result = s.entries[k].result
                 /\ n.entries[k].previous = s.entries[k].previous
                 /\ n.entries[k].age = Older(s.entries[k].age, Fresh)
                 /\ n.entries[k].previous_age = Older(s.entries[k].previous_age, Fresh)
      <3>1. s.entries[k] \in Entries
        BY <1>0, <2>1, ScanFacts
      <3>2. n.entries[k] = [s.entries[k] EXCEPT !.age = Older(@, Fresh),
                                                !.previous_age = Older(@, Fresh)]
        BY <2>2 DEF Aged
      <3> QED BY <3>1, <3>2 DEF Entries
    <2> HIDE DEF s, n
    <2>6. m_job' = m_job /\ scans'[m_job'] = n
      BY <1>a DEF n
    <2>7. CurrentScan(scans[m_job])'
      BY <1>a, <2>2, <2>3, <2>4, <2>5, <2>6 DEF CurrentScan
    <2>8. AnswersFollowProbes(scans[m_job])'
      <3>1. ASSUME NEW h \in Hosts, NEW a \in 0..Fresh, heard[h] <= a
            PROVE  heard'[h] <= Older(a, Fresh)
        <4>1. heard[h] \in 0..Fresh /\ heard'[h] = Older(heard[h], Fresh)
          BY <1>0 DEF RestInv, TimePasses
        <4> QED BY <3>1, <4>1, Bounds, OlderMonotone
      <3>2. ASSUME NEW k \in DOMAIN s.entries
            PROVE  /\ s.entries[k].host \in Hosts
                   /\ s.entries[k].age \in 0..Fresh /\ s.entries[k].previous_age \in 0..Fresh
        BY <2>5 DEF Entries
      <3>3. \A k \in DOMAIN s.entries :
              /\ n.entries[k].result = "up" => heard'[n.entries[k].host] <= n.entries[k].age
              /\ n.entries[k].result = "pending" /\ n.entries[k].previous =>
                   heard'[n.entries[k].host] <= n.entries[k].previous_age
        BY <2>3, <2>5, <3>1, <3>2 DEF AnswersFollowProbes
      <3> QED BY <2>2, <2>4, <2>6, <3>3 DEF AnswersFollowProbes
    <2> QED BY <2>7, <2>8
  <1> QED BY <1>2, <1>3, <1>a DEF FreshInv

(* An answer is recorded: for the scan that is read, at the worker's own   *)
(* entry; for an older one, nowhere, and then nothing is inherited yet.    *)
LEMMA StoreFresh ==
    ASSUME ScanInv, ScanInv', FreshInv, StoreResult PROVE FreshInv'
  <1> DEFINE id == Head(queue)
             h == scans[id].entries[at + 1].host
             s == scans[m_job]
             n == scans'[m_job]
  <1>0. ScansTyped /\ RestInv /\ RestInv' /\ WorkerInPlace
    BY DEF ScanInv, FreshInv
  <1>1. /\ UNCHANGED <<m_job, m_barrier, queue>>
        /\ at' = at + 1 /\ probe' = "none" /\ probe \in Outcomes
    BY DEF StoreResult
  <1>2. queue # << >> /\ id \in 1..Len(scans) /\ at \in Nat /\ at + 1 \in 1..Len(scans[id].entries)
    <2>1. probe # "none" /\ queue # << >>
      BY <1>0, <1>1 DEF Outcomes, RestInv
    <2>2. id \in 1..Len(scans) /\ at \in Nat
      BY <1>0, <2>1, HeadQueued DEF RestInv
    <2>3. at < Len(scans[id].entries) /\ Len(scans[id].entries) \in Nat
      BY <1>0, <2>1, <2>2, ScanFacts DEF WorkerInPlace, Running
    <2> QED BY <2>1, <2>2, <2>3
  <1>3. h \in Hosts /\ heard \in [Hosts -> 0..Fresh]
    <2>1. scans[id].entries[at + 1] \in Entries
      BY <1>0, <1>2, ScanFacts
    <2> QED BY <1>0, <2>1 DEF Entries, RestInv
  <1>4. /\ \A g \in Hosts : g # h => heard'[g] = heard[g]
        /\ probe = "up" => heard'[h] = 0
    BY <1>3 DEF StoreResult, Running
  <1>5. WorkerInPlace'
    BY <1>1, <1>2 DEF WorkerInPlace
  <1>6. ASSUME m_job # 0 PROVE CurrentScan(scans[m_job])' /\ AnswersFollowProbes(scans[m_job])'
    <2>1. m_job \in 1..Len(scans) /\ CurrentScan(s) /\ AnswersFollowProbes(s)
      BY <1>0, <1>6 DEF ScansTyped, FreshInv
    <2>2. /\ s \in Scans /\ s.entries \in Seq(Entries) /\ Len(s.entries) \in Nat
          /\ DOMAIN s.entries = 1..Len(s.entries)
          /\ \A k \in 1..Len(s.entries) : s.entries[k] \in Entries
      BY <1>0, <2>1, ScanFacts
    <2>3. CASE id # m_job
      <3>1. scans' = scans
        BY <2>3 DEF StoreResult
      <3>2. CurrentScan(scans[m_job])'
        BY <1>1, <1>2, <2>1, <2>3, <3>1 DEF CurrentScan
      <3>3. \A k \in DOMAIN s.entries : s.entries[k].result = "pending" /\ ~s.entries[k].previous
        BY <1>2, <2>1, <2>3 DEF CurrentScan
      <3>4. AnswersFollowProbes(scans[m_job])'
        BY <1>1, <3>1, <3>3 DEF AnswersFollowProbes
      <3> QED BY <3>2, <3>4
    <2>4. CASE id = m_job
      <3>1. scans' = [scans EXCEPT ![id].entries[at + 1] = [@ EXCEPT !.result = probe, !.age = 0]]
        BY <2>4 DEF StoreResult
      <3>2. /\ DOMAIN scans = 1..Len(scans)
            /\ n = [s EXCEPT !.entries[at + 1] = [@ EXCEPT !.result = probe, !.age = 0]]
        BY <1>0, <1>2, <2>4, <3>1, ScanFacts
      <3>3. /\ n.entries = [s.entries EXCEPT ![at + 1] = [@ EXCEPT !.result = probe, !.age = 0]]
            /\ n.done = s.done /\ n.cancel = s.cancel
        BY <2>2, <3>2 DEF Scans
      <3>4. /\ DOMAIN n.entries = DOMAIN s.entries
            /\ \A k \in DOMAIN s.entries : k # at + 1 => n.entries[k] = s.entries[k]
            /\ n.entries[at + 1] = [s.entries[at + 1] EXCEPT !.result = probe, !.age = 0]
        BY <1>2, <2>2, <2>4, <3>3
      <3>5. /\ at + 1 \in DOMAIN s.entries
            /\ n.entries[at + 1].result = probe /\ n.entries[at + 1].age = 0
            /\ n.entries[at + 1].host = h /\ s.entries[at + 1].host = h
        <4>1. at + 1 \in DOMAIN s.entries /\ s.entries[at + 1] \in Entries
          BY <1>2, <2>2, <2>4
        <4> QED BY <2>4, <3>4, <4>1 DEF Entries
      <3>6. probe # "pending"
        BY <1>1 DEF Outcomes
      <3> HIDE DEF s, n, h, id
      <3>7. m_job' = m_job /\ scans'[m_job'] = n /\ Head(queue') = m_job /\ queue' # << >>
            /\ Head(queue) = m_job /\ queue # << >>
        BY <1>1, <1>2, <2>4 DEF n, id
      <3>8. \A k \in DOMAIN s.entries : s.entries[k].result = "pending" <=> k > at
        BY <2>1, <3>7 DEF CurrentScan
      <3>9. \A k \in DOMAIN s.entries : n.entries[k].result = "pending" <=> k > at + 1
        <4> TAKE k \in DOMAIN s.entries
        <4>1. k \in Nat /\ at \in Nat
          BY <1>2, <2>2
        <4>2. CASE k = at + 1
          BY <3>5, <3>6, <4>1, <4>2
        <4>3. CASE k # at + 1
          <5>1. n.entries[k].result = s.entries[k].result
            BY <3>4, <4>3
          <5>2. s.entries[k].result = "pending" <=> k > at
            BY <3>8
          <5>3. k > at <=> k > at + 1
            BY <4>1, <4>3
          <5> QED BY <5>1, <5>2, <5>3
        <4> QED BY <4>2, <4>3
      <3>10. \A k, l \in DOMAIN n.entries : n.entries[k].host = n.entries[l].host => k = l
        <4>1. \A k, l \in DOMAIN s.entries : s.entries[k].host = s.entries[l].host => k = l
          BY <2>1 DEF CurrentScan
        <4>2. \A k \in DOMAIN s.entries : n.entries[k].host = s.entries[k].host
          BY <3>4, <3>5
        <4> QED BY <3>4, <4>1, <4>2
      <3>11. ASSUME n.done, ~n.cancel, NEW k \in DOMAIN n.entries
             PROVE  n.entries[k].result # "pending"
        BY <2>1, <3>3, <3>4, <3>5, <3>6, <3>11 DEF CurrentScan
      <3>12. m_barrier <= m_job /\ (m_job # m_barrier => n.cancel)
        BY <2>1, <3>3 DEF CurrentScan
      <3>13. CurrentScan(scans[m_job])'
        BY <1>1, <3>4, <3>7, <3>9, <3>10, <3>11, <3>12 DEF CurrentScan
      <3>14. ASSUME NEW k \in DOMAIN s.entries, k # at + 1
             PROVE  s.entries[k].host \in Hosts /\ s.entries[k].host # h
        BY <2>1, <2>2, <3>5, <3>14 DEF CurrentScan, Entries
      <3>15. ASSUME NEW k \in DOMAIN s.entries
             PROVE  /\ n.entries[k].result = "up" => heard'[n.entries[k].host] <= n.entries[k].age
                    /\ n.entries[k].result = "pending" /\ n.entries[k].previous =>
                         heard'[n.entries[k].host] <= n.entries[k].previous_age
        <4>1. CASE k = at + 1
          BY <1>4, <3>5, <3>6, <4>1
        <4>2. CASE k # at + 1
          BY <1>4, <2>1, <3>4, <3>14, <4>2 DEF AnswersFollowProbes
        <4> QED BY <4>1, <4>2
      <3>16. AnswersFollowProbes(scans[m_job])'
        BY <3>4, <3>7, <3>15 DEF AnswersFollowProbes
      <3> QED BY <3>13, <3>16
    <2> QED BY <2>3, <2>4
  <1> QED BY <1>1, <1>5, <1>6 DEF FreshInv

(* The worker goes on.  The scan that is read is the newest, so a scan     *)
(* that follows in the queue is it or comes before it.                     *)
LEMMA FinishFresh ==
    ASSUME ScanInv, ScanInv', FreshInv, FinishScan PROVE FreshInv'
  <1> DEFINE id == Head(queue)
             s == scans[m_job]
             n == scans'[m_job]
  <1>0. ScansTyped /\ RestInv /\ QueueInOrder
    BY DEF ScanInv
  <1>1. /\ UNCHANGED <<m_job, m_barrier, heard, probe>>
        /\ at' = 0 /\ probe = "none" /\ queue # << >> /\ queue' = Tail(queue)
        /\ scans' = [scans EXCEPT ![id].done = TRUE]
        /\ at = Len(scans[id].entries) \/ scans[id].cancel
    BY DEF FinishScan, Running
  <1>2. WorkerInPlace'
    BY <1>1 DEF WorkerInPlace
  <1>3. ASSUME m_job # 0 PROVE CurrentScan(scans[m_job])' /\ AnswersFollowProbes(scans[m_job])'
    <2>1. m_job \in 1..Len(scans) /\ CurrentScan(s) /\ AnswersFollowProbes(s)
      BY <1>0, <1>3 DEF ScansTyped, FreshInv
    <2>2. /\ DOMAIN scans = 1..Len(scans) /\ s \in Scans /\ Len(s.entries) \in Nat
          /\ DOMAIN s.entries = 1..Len(s.entries) /\ id \in 1..Len(scans)
      BY <1>0, <1>1, <2>1, ScanFacts, HeadQueued
    <2>3. /\ n.entries = s.entries /\ n.cancel = s.cancel
          /\ id # m_job => n.done = s.done
      BY <1>1, <2>1, <2>2 DEF Scans
    <2>4. queue' # << >> => id # m_job
      <3> SUFFICES ASSUME queue' # << >>, id = m_job PROVE FALSE
        OBVIOUS
      <3>1. /\ queue \in Seq(1..Len(scans)) /\ Len(queue) \in Nat
            /\ \A i \in 1..Len(queue) : queue[i] \in 1..Len(scans)
        BY <1>0, SeqIsFunction DEF ScansTyped
      <3>2. id = queue[1] /\ Len(queue) > 1
        BY <1>1, <3>1
      <3>3. queue[1] < queue[Len(queue)] /\ queue[Len(queue)] = m_barrier
        <4>1. 1 \in 1..Len(queue) /\ Len(queue) \in 1..Len(queue) /\ 1 < Len(queue)
          BY <3>1, <3>2
        <4> QED BY <1>0, <1>1, <4>1 DEF QueueInOrder
      <3>4. m_barrier <= m_job /\ m_job \in Nat /\ m_barrier \in Nat
        BY <1>0, <2>1 DEF CurrentScan, ScansTyped
      <3> QED BY <3>2, <3>3, <3>4
    <2> HIDE DEF id, s, n
    <2>5. m_job' = m_job /\ scans'[m_job'] = n
      BY <1>1 DEF n
    <2>6. ASSUME n.done, ~n.cancel, NEW k \in DOMAIN n.entries
          PROVE  n.entries[k].result # "pending"
      <3>1. CASE id # m_job
        BY <2>1, <2>3, <2>6, <3>1 DEF CurrentScan
      <3>2. CASE id = m_job
        <4>1. at = Len(s.entries)
          BY <1>1, <2>3, <2>6, <3>2 DEF s
        <4>2. s.entries[k].result = "pending" <=> k > at
          BY <1>1, <2>1, <2>3, <3>2 DEF CurrentScan, id
        <4> QED BY <2>2, <2>3, <4>1, <4>2
      <3> QED BY <3>1, <3>2
    <2>7. ASSUME queue' # << >>, NEW k \in DOMAIN n.entries
          PROVE  /\ n.entries[k].result = "pending" /\ ~n.entries[k].previous
                 /\ k > 0
      <3>1. queue # << >> /\ Head(queue) # m_job
        BY <1>1, <2>4, <2>7 DEF id
      <3>2. s.entries[k].result = "pending" /\ ~s.entries[k].previous
        BY <2>1, <2>3, <3>1 DEF CurrentScan
      <3> QED BY <2>2, <2>3, <3>2
    <2>8. CurrentScan(scans[m_job])'
      <3>1. /\ \A k, l \in DOMAIN n.entries : n.entries[k].host = n.entries[l].host => k = l
            /\ m_barrier <= m_job /\ (m_job # m_barrier => n.cancel)
        BY <2>1, <2>3 DEF CurrentScan
      <3>2. m_barrier' = m_barrier /\ at' = 0
        BY <1>1
      <3> QED BY <2>5, <2>6, <2>7, <3>1, <3>2 DEF CurrentScan
    <2>9. AnswersFollowProbes(scans[m_job])'
      BY <1>1, <2>1, <2>3, <2>5 DEF AnswersFollowProbes
    <2> QED BY <2>8, <2>9
  <1> QED BY <1>1, <1>2, <1>3 DEF FreshInv

(* What a new scan takes over from the last one.                           *)
LEMMA EntryFacts ==
    ASSUME NEW h, NEW same, NEW i
    PROVE  /\ Entry(h, same, i).host = h /\ Entry(h, same, i).result = "pending"
           /\ Entry(h, same, i).previous =>
                /\ same /\ Available(scans[m_job], scans[m_job].entries[i])
                /\ Entry(h, same, i).previous_age = scans[m_job].entries[i].age
  BY DEF Entry, Pending

LEMMA InheritedFresh ==
    ASSUME ScanInv, FreshInv, NEW hosts \in Lists, NEW i \in DOMAIN hosts, Unchanged(hosts),
           RefreshDue(scans[m_job]), Available(scans[m_job], scans[m_job].entries[i])
    PROVE  queue = << >> /\ heard[hosts[i]] <= scans[m_job].entries[i].age
  <1> DEFINE s == scans[m_job]
  <1>1. /\ m_job \in 1..Len(scans) /\ ScansTyped /\ QueueInOrder
        /\ CurrentScan(s) /\ AnswersFollowProbes(s)
    BY DEF ScanInv, FreshInv, ScansTyped, Unchanged
  <1>2. s.done /\ ~s.cancel
    BY DEF RefreshDue, Available
  <1>3. m_job = m_barrier
    BY <1>1, <1>2 DEF CurrentScan
  <1>4. queue = << >>
    <2> SUFFICES ASSUME queue # << >> PROVE FALSE
      OBVIOUS
    <2>1. Len(queue) \in 1..Len(queue)
      BY <1>1, SeqIsFunction DEF ScansTyped
    <2> QED BY <1>1, <1>2, <1>3, <2>1 DEF QueueInOrder
  <1>5. i \in DOMAIN s.entries /\ s.entries[i].host = hosts[i]
    <2>1. Len(s.entries) = Len(hosts) /\ s.entries[i].host = hosts[i]
      BY DEF Unchanged
    <2>2. hosts \in Seq(Hosts) /\ DOMAIN s.entries = 1..Len(s.entries)
      BY <1>1, ScanFacts, AvailabilityAssumption
    <2> QED BY <2>1, <2>2
  <1>6. s.entries[i].result # "pending"
    BY <1>1, <1>2, <1>5 DEF CurrentScan
  <1>7. s.entries[i].result = "up"
    BY <1>6 DEF Available
  <1> QED BY <1>1, <1>4, <1>5, <1>7 DEF AnswersFollowProbes

LEMMA SupersededSame ==
    ASSUME ScansTyped, NEW i \in 1..Len(scans)
    PROVE  Len(Superseded[i].entries) = Len(scans[i].entries)
  <1>1. /\ DOMAIN scans = 1..Len(scans) /\ scans[i] \in Scans
        /\ Len(scans[i].entries) \in Nat /\ DOMAIN scans[i].entries = 1..Len(scans[i].entries)
    BY ScanFacts
  <1> DEFINE p == [k \in DOMAIN scans[i].entries |-> Pending(scans[i].entries[k].host)]
  <1>2. Superseded[i] = IF i # m_job THEN scans[i] ELSE
                          [scans[i] EXCEPT !.cancel = TRUE, !.age = 0, !.entries = p]
    BY <1>1 DEF Superseded
  <1>3. Len(p) = Len(scans[i].entries)
    BY <1>1
  <1> HIDE DEF p
  <1> QED BY <1>1, <1>2, <1>3 DEF Scans

(* A new scan inherits only from a finished scan of the same list, when    *)
(* the queue is empty.                                                     *)
LEMMA NewScanFresh ==
    ASSUME ScanInv, ScanInv', FreshInv, NEW hosts \in Lists, NEW queued \in BOOLEAN,
           Unchanged(hosts) => RefreshDue(scans[m_job]), NewScan(hosts, queued)
    PROVE  FreshInv'
  <1> DEFINE same == Unchanged(hosts)
             new == [entries |-> [i \in DOMAIN hosts |-> Entry(hosts[i], same, i)],
                     cancel |-> ~queued, done |-> ~queued, age |-> 0]
             id == Len(scans) + 1
  <1>0. /\ ScansTyped /\ RestInv /\ RestInv' /\ QueueInOrder /\ WorkerInPlace
        /\ Len(scans) \in Nat /\ queue \in Seq(1..Len(scans)) /\ m_barrier \in 0..Len(scans)
    BY ScanFacts DEF ScanInv, FreshInv, ScansTyped
  <1>1. /\ scans' = Append(Superseded, new) /\ m_job' = id
        /\ m_barrier' = IF queued THEN id ELSE m_barrier
        /\ queue' = IF queued THEN Append(queue, id) ELSE queue
        /\ UNCHANGED <<at, probe, heard>>
    BY DEF NewScan
  <1>2. new.entries = [i \in DOMAIN hosts |-> Entry(hosts[i], same, i)]
        /\ new.done = ~queued /\ new.cancel = ~queued
    OBVIOUS
  <1>3. ASSUME NEW i \in DOMAIN hosts
        PROVE  /\ new.entries[i].host = hosts[i] /\ new.entries[i].result = "pending"
               /\ new.entries[i].previous =>
                    queue = << >> /\ heard[hosts[i]] <= new.entries[i].previous_age
    <2>1. new.entries[i] = Entry(hosts[i], same, i)
      BY <1>2
    <2> HIDE DEF new
    <2> QED BY <2>1, EntryFacts, InheritedFresh
  <1>4. hosts \in Seq(Hosts) /\ \A i, j \in DOMAIN hosts : hosts[i] = hosts[j] => i = j
    BY AvailabilityAssumption
  <1>5. DOMAIN new.entries = DOMAIN hosts
    BY <1>2
  <1> HIDE DEF new, same
  <1>6. /\ scans'[id] = new
        /\ \A i \in 1..Len(scans) : scans'[i] = Superseded[i]
    <2>1. Superseded \in Seq(Scans) /\ Len(Superseded) = Len(scans)
      BY <1>0, SupersededRewrites DEF Rewritten
    <2> QED BY <1>0, <1>1, <2>1
  <1>7. queue # << >> => queue' # << >> /\ Head(queue') = Head(queue) /\ Head(queue) \in 1..Len(scans)
    BY <1>0, <1>1
  <1>8. queue = << >> => at = 0 /\ (queue' # << >> => Head(queue') = id)
    BY <1>0, <1>1 DEF WorkerInPlace
  <1>9. WorkerInPlace'
    <2>1. ASSUME probe' # "none" PROVE at' < Len(Running'.entries)
      <3>1. queue # << >> /\ at < Len(Running.entries)
        BY <1>0, <1>1, <2>1 DEF RestInv, WorkerInPlace
      <3>2. Len(Running'.entries) = Len(Running.entries)
        BY <1>0, <1>6, <1>7, <3>1, SupersededSame DEF Running
      <3> QED BY <1>1, <3>1, <3>2
    <2>2. queue' = << >> => at' = 0
      BY <1>1, <1>7, <1>8
    <2> QED BY <2>1, <2>2 DEF WorkerInPlace
  <1>10. CurrentScan(scans[m_job])'
    <2>1. m_job' = id /\ scans'[m_job'] = new /\ at' = at
      BY <1>1, <1>6
    <2>2. m_barrier' <= id /\ (id # m_barrier' => new.cancel)
      <3>1. CASE queued
        <4>1. m_barrier' = id /\ id \in Nat
          BY <1>0, <1>1, <3>1
        <4> QED BY <4>1
      <3>2. CASE ~queued
        <4>1. m_barrier' = m_barrier /\ m_barrier \in 0..Len(scans) /\ Len(scans) \in Nat
          BY <1>0, <1>1, <3>2
        <4>2. new.cancel
          BY <1>2, <3>2
        <4> QED BY <4>1, <4>2
      <3> QED BY <3>1, <3>2
    <2>3. ~(new.done /\ ~new.cancel)
      BY <1>2
    <2>4. queue' # << >> /\ Head(queue') = id => at = 0
      BY <1>0, <1>7, <1>8
    <2>5. queue' # << >> /\ Head(queue') # id => queue # << >>
      BY <1>8
    <2>6. \A k \in DOMAIN new.entries : k > 0
      BY <1>4, <1>5
    <2> HIDE DEF id
    <2> QED BY <1>3, <1>4, <1>5, <2>1, <2>2, <2>3, <2>4, <2>5, <2>6 DEF CurrentScan
  <1>11. AnswersFollowProbes(scans[m_job])'
    BY <1>1, <1>3, <1>5, <1>6 DEF AnswersFollowProbes
  <1> QED BY <1>9, <1>10, <1>11 DEF FreshInv

LEMMA FreshInit == AvailabilityInit => FreshInv
  BY DEF AvailabilityInit, FreshInv, WorkerInPlace

LEMMA StutterFresh ==
    ASSUME FreshInv, UNCHANGED availability PROVE FreshInv'
  BY DEF FreshInv, WorkerInPlace, CurrentScan, AnswersFollowProbes, Running, availability

LEMMA FreshStep ==
    ScanInv /\ ScanInv' /\ FreshInv /\ [AvailabilityNext]_availability => FreshInv'
  <1> SUFFICES ASSUME ScanInv, ScanInv', FreshInv, [AvailabilityNext]_availability
               PROVE  FreshInv'
    OBVIOUS
  <1>1. ASSUME StopAvailability PROVE FreshInv'
    BY <1>1, CancelFresh, StutterFresh DEF StopAvailability
  <1>2. ASSUME NEW hosts \in Lists, CheckAvailability(hosts) PROVE FreshInv'
    BY <1>1, <1>2, StutterFresh, NewScanFresh DEF CheckAvailability
  <1>3. ASSUME EndShutdown PROVE FreshInv'
    BY <1>3 DEF FreshInv, WorkerInPlace, EndShutdown, Running
  <1> QED BY <1>1, <1>2, <1>3, CancelFresh, ProbeFresh, PollFresh, TimeFresh, StoreFresh,
             FinishFresh, StutterFresh DEF AvailabilityNext, WorkerStep

(* No PC is shown as available on an answer older than the freshness, of   *)
(* another row or another route: IsAvailable, for every list of PCs, every *)
(* freshness and every interleaving of scans.                              *)
THEOREM AvailabilityFresh == AvailabilitySpec => []AvailableIsFresh
  <1>1. ScanInv /\ FreshInv => AvailableIsFresh
    <2> SUFFICES ASSUME ScanInv, FreshInv, NEW h \in Hosts, IsAvailable(h)
                 PROVE  heard[h] < Fresh
      BY DEF AvailableIsFresh
    <2>1. m_job # 0 /\ m_job \in 1..Len(scans)
      BY DEF IsAvailable, ScanInv, ScansTyped
    <2> DEFINE s == scans[m_job]
    <2>2. PICK i \in DOMAIN s.entries : s.entries[i].host = h /\ Available(s, s.entries[i])
      BY DEF IsAvailable
    <2>3. s.entries[i] \in Entries
      BY <2>1, <2>2, ScanFacts DEF ScanInv
    <2>4. heard[h] \in 0..Fresh /\ s.entries[i].age \in 0..Fresh /\ s.entries[i].previous_age \in 0..Fresh
      BY <2>3 DEF Entries, ScanInv, RestInv
    <2>5. AnswersFollowProbes(s)
      BY <2>1 DEF FreshInv
    <2>6. CASE s.entries[i].result = "pending"
      <3>1. s.entries[i].previous /\ s.entries[i].previous_age < Fresh
        BY <2>2, <2>6 DEF Available
      <3>2. heard[h] <= s.entries[i].previous_age
        BY <2>2, <2>5, <2>6, <3>1 DEF AnswersFollowProbes
      <3> QED BY <2>4, <3>1, <3>2, Bounds
    <2>7. CASE s.entries[i].result # "pending"
      <3>1. s.entries[i].result = "up" /\ s.entries[i].age < Fresh
        BY <2>2, <2>7 DEF Available
      <3>2. heard[h] <= s.entries[i].age
        BY <2>2, <2>5, <3>1 DEF AnswersFollowProbes
      <3> QED BY <2>4, <3>1, <3>2, Bounds
    <2> QED BY <2>6, <2>7
  <1>2. ScanInv /\ FreshInv /\ [AvailabilityNext]_availability => (ScanInv /\ FreshInv)'
    BY ScanStep, FreshStep
  <1> QED BY <1>1, <1>2, ScanInit, FreshInit, PTL DEF AvailabilitySpec
=============================================================================
