-------------------------- MODULE HostAvailability --------------------------
(***************************************************************************)
(* Whether a saved PC answers: HostService's availability scans and the    *)
(* probe they run (legacy_host_probe.c).                                   *)
(*                                                                         *)
(* The main thread starts a scan of the saved list, cancels it, and reads  *)
(* its entries; a queue with one worker runs the scans in order.  They     *)
(* share each scan's cancel token, done flag and results.  Times are kept  *)
(* as ages in ticks of the refresh interval.                               *)
(***************************************************************************)
EXTENDS Integers, Sequences

CONSTANTS Hosts,     \* saved PCs, each an identity and its exact route
          Lists,     \* the lists of saved PCs the page may hold
          Refresh,   \* 15 s, in ticks
          Fresh,     \* 30 s, in ticks
          MaxScans   \* bound on scans started

ASSUME AvailabilityAssumption ==
    /\ \A l \in Lists : /\ l \in Seq(Hosts)
                        /\ \A i, j \in DOMAIN l : l[i] = l[j] => i = j
    /\ {Refresh, Fresh, MaxScans} \subseteq Nat /\ Refresh <= Fresh

VARIABLES
    scans,     \* every AvailabilityJob made, in order
    m_job,     \* the scan that is read, 0 if none
    m_barrier, \* the newest scan that was queued, 0 if none
    m_owner,   \* whether a page owns the scan
    m_dirty,   \* m_dirty
    closing,   \* Shutdown was called
    queue,     \* the job queue, the running scan first
    at,        \* how many entries the running scan has probed
    probe,     \* the running probe: "none", "net", or its outcome
    heard      \* history: ticks since each PC's last probe answered

availability == <<scans, m_job, m_barrier, m_owner, m_dirty, closing, queue, at, probe, heard>>

Outcomes == {"up", "down", "error", "cancelled"}

AvailabilityInit ==
    /\ scans = << >> /\ m_job = 0 /\ m_barrier = 0
    /\ m_owner = FALSE /\ m_dirty = FALSE /\ closing = FALSE
    /\ queue = << >> /\ at = 0 /\ probe = "none"
    /\ heard = [h \in Hosts |-> Fresh]

(* AvailabilityJob::Available.  While an entry is pending the answer of    *)
(* the previous scan stands in for it.                                     *)
Available(s, e) ==
    /\ ~s.cancel
    /\ IF e.result = "pending" THEN e.previous /\ e.previous_age < Fresh
                               ELSE e.result = "up" /\ e.age < Fresh

(* AvailabilityJob::RefreshDue                                             *)
RefreshDue(s) == s.done /\ s.age >= Refresh

(* HostService::IsAvailable                                                *)
IsAvailable(h) ==
    /\ m_job # 0
    /\ \E i \in DOMAIN scans[m_job].entries :
         LET e == scans[m_job].entries[i] IN e.host = h /\ Available(scans[m_job], e)

(* CancelAvailability                                                      *)
Cancelled == [i \in DOMAIN scans |->
                IF i = m_job THEN [scans[i] EXCEPT !.cancel = TRUE] ELSE scans[i]]

-----------------------------------------------------------------------------
(* The main thread *)

(* An unchanged list: same owner, same PCs over the same routes.           *)
Unchanged(hosts) ==
    /\ m_owner /\ m_job # 0
    /\ Len(scans[m_job].entries) = Len(hosts)
    /\ \A i \in DOMAIN hosts : scans[m_job].entries[i].host = hosts[i]

Pending(h) == [host |-> h, result |-> "pending", age |-> Fresh, previous |-> FALSE,
               previous_age |-> Fresh, displayed |-> FALSE]

(* Mutant: whatever stood in the same row of the last scan is inherited.   *)
EntryByRow(h, same, i) ==
    IF /\ m_job # 0 /\ i \in DOMAIN scans[m_job].entries
       /\ Available(scans[m_job], scans[m_job].entries[i])
      THEN [Pending(h) EXCEPT !.previous = TRUE, !.displayed = TRUE,
                              !.previous_age = scans[m_job].entries[i].age]
      ELSE Pending(h)

(* The constructor: only a finished scan of the same list is a fallback.   *)
Entry(h, same, i) ==
    IF same /\ Available(scans[m_job], scans[m_job].entries[i])
      THEN [Pending(h) EXCEPT !.previous = TRUE, !.displayed = TRUE,
                              !.previous_age = scans[m_job].entries[i].age]
      ELSE Pending(h)

(* StopAvailability and CancelAvailability.                                *)
CancelScan ==
    /\ scans' = Cancelled
    /\ m_owner' = FALSE /\ m_dirty' = TRUE
    /\ UNCHANGED <<m_job, m_barrier, closing, queue, at, probe, heard>>

StopAvailability == IF m_owner THEN CancelScan ELSE UNCHANGED availability

(* A superseded scan is only run to its end: nobody reads its entries      *)
(* again, so the model forgets them.                                       *)
Superseded == [i \in DOMAIN scans |-> IF i # m_job THEN scans[i] ELSE
    [scans[i] EXCEPT !.cancel = TRUE, !.age = 0,
                     !.entries = [k \in DOMAIN @ |-> Pending(@[k].host)]]]

(* Mutant: a scan that queues behind a running one is not waited for.      *)
NewScanOldBarrier(hosts, queued) ==
    LET new == [entries |-> [i \in DOMAIN hosts |-> Pending(hosts[i])],
                cancel |-> ~queued, done |-> ~queued, age |-> 0]
        id  == Len(scans) + 1
    IN  /\ id <= MaxScans
        /\ scans' = Append(Superseded, new)
        /\ m_job' = id /\ m_owner' = TRUE /\ m_dirty' = TRUE
        /\ m_barrier' = IF queued /\ queue = << >> THEN id ELSE m_barrier
        /\ queue' = IF queued THEN Append(queue, id) ELSE queue
        /\ UNCHANGED <<closing, at, probe, heard>>

(* CheckAvailability with a list worth scanning.                           *)
NewScan(hosts, queued) ==
    LET new == [entries |-> [i \in DOMAIN hosts |->
                               Entry(hosts[i], Unchanged(hosts), i)],
                cancel |-> ~queued, done |-> ~queued, age |-> 0]
        id  == Len(scans) + 1
    IN  /\ id <= MaxScans
        /\ scans' = Append(Superseded, new)
        /\ m_job' = id /\ m_owner' = TRUE /\ m_dirty' = TRUE
        /\ m_barrier' = IF queued THEN id ELSE m_barrier
        /\ queue' = IF queued THEN Append(queue, id) ELSE queue
        /\ UNCHANGED <<closing, at, probe, heard>>

CheckAvailability(hosts) ==
    \/ hosts = << >> /\ StopAvailability
    \/ /\ hosts # << >> /\ Unchanged(hosts) /\ ~RefreshDue(scans[m_job])
       /\ UNCHANGED availability
    \/ /\ hosts # << >>
       /\ Unchanged(hosts) => RefreshDue(scans[m_job])
       /\ \E queued \in BOOLEAN : NewScan(hosts, queued)

Shown(s) == [k \in DOMAIN s.entries |->
               [s.entries[k] EXCEPT !.displayed = Available(s, s.entries[k])]]

(* PollAvailability: HOST_AVAILABILITY_CHANGED when something changed.     *)
PollAvailability ==
    /\ m_dirty' = FALSE
    /\ scans' = [i \in DOMAIN scans |-> IF i # m_job THEN scans[i] ELSE
                   [scans[i] EXCEPT !.entries = Shown(scans[i])]]
    /\ UNCHANGED <<m_job, m_barrier, m_owner, closing, queue, at, probe, heard>>

(* HostService::Shutdown cancels, waits for the queue and forgets.         *)
BeginShutdown ==
    /\ closing' = TRUE
    /\ scans' = Cancelled
    /\ m_owner' = FALSE /\ m_dirty' = TRUE
    /\ UNCHANGED <<m_job, m_barrier, queue, at, probe, heard>>

EndShutdown ==
    /\ closing /\ queue = << >>
    /\ m_job' = 0 /\ m_barrier' = 0
    /\ UNCHANGED <<scans, m_owner, m_dirty, closing, queue, at, probe, heard>>

-----------------------------------------------------------------------------
(* The worker: AvailabilityJob::Run *)

Running == scans[Head(queue)]

(* The loop's head: the next probe starts unless the scan is cancelled.    *)
BeginProbe ==
    /\ queue # << >> /\ probe = "none"
    /\ at < Len(Running.entries) /\ ~Running.cancel
    /\ probe' = "net"
    /\ UNCHANGED <<scans, m_job, m_barrier, m_owner, m_dirty, closing, queue, at, heard>>

(* legacy_host_probe returns, after a last look at the cancel token.       *)
ProbeReturns ==
    /\ probe = "net"
    /\ probe' \in IF Running.cancel THEN {"cancelled"} ELSE {"up", "down", "error"}
    /\ UNCHANGED <<scans, m_job, m_barrier, m_owner, m_dirty, closing, queue, at, heard>>

(* The time and then the result are stored.                                *)
StoreResult ==
    LET id == Head(queue)
        h  == Running.entries[at + 1].host IN
    /\ probe \in Outcomes
    /\ scans' = IF id # m_job THEN scans
                ELSE [scans EXCEPT ![id].entries[at + 1] =
                        [@ EXCEPT !.result = probe, !.age = 0]]
    /\ heard' = IF probe = "cancelled" THEN heard
                ELSE [heard EXCEPT ![h] = IF probe = "up" THEN 0 ELSE Fresh]
    /\ at' = at + 1 /\ probe' = "none"
    /\ UNCHANGED <<m_job, m_barrier, m_owner, m_dirty, closing, queue>>

(* The scan is done and the worker takes the next one.                     *)
FinishScan ==
    /\ queue # << >> /\ probe = "none"
    /\ at = Len(Running.entries) \/ Running.cancel
    /\ scans' = [scans EXCEPT ![Head(queue)].done = TRUE]
    /\ queue' = Tail(queue) /\ at' = 0
    /\ UNCHANGED <<m_job, m_barrier, m_owner, m_dirty, closing, probe, heard>>

WorkerStep == BeginProbe \/ ProbeReturns \/ StoreResult \/ FinishScan

(* WaitForAvailability would return.                                       *)
Drained(b) == IF b = 0 THEN TRUE ELSE scans[b].done

Older(n, limit) == IF n < limit THEN n + 1 ELSE n

Aged(s) == [k \in DOMAIN s.entries |->
              [s.entries[k] EXCEPT !.age = Older(@, Fresh),
                                   !.previous_age = Older(@, Fresh)]]

(* Fifteen seconds pass.  The times of a superseded scan are never read.   *)
TimePasses ==
    /\ scans' = [i \in DOMAIN scans |-> IF i # m_job THEN scans[i] ELSE
          [scans[i] EXCEPT !.age = Older(@, Refresh), !.entries = Aged(scans[i])]]
    /\ heard' = [h \in Hosts |-> Older(heard[h], Fresh)]
    /\ UNCHANGED <<m_job, m_barrier, m_owner, m_dirty, closing, queue, at, probe>>

-----------------------------------------------------------------------------
AvailabilityNext ==
    \/ /\ ~closing
       /\ \/ \E hosts \in Lists : CheckAvailability(hosts)
          \/ StopAvailability \/ CancelScan \/ PollAvailability \/ BeginShutdown
    \/ EndShutdown \/ WorkerStep \/ TimePasses

AvailabilitySpec == AvailabilityInit /\ [][AvailabilityNext]_availability

-----------------------------------------------------------------------------
AvailabilityTypeOK ==
    /\ m_job \in 0..Len(scans) /\ m_barrier \in 0..Len(scans)
    /\ {m_owner, m_dirty, closing} \subseteq BOOLEAN
    /\ queue \in Seq(1..Len(scans)) /\ at \in Nat
    /\ probe \in Outcomes \union {"none", "net"}
    /\ heard \in [Hosts -> 0..Fresh]
    /\ \A i \in DOMAIN scans :
         /\ {scans[i].cancel, scans[i].done} \subseteq BOOLEAN
         /\ \A k \in DOMAIN scans[i].entries :
              scans[i].entries[k].result \in Outcomes \union {"pending"}

(* A PC is called available only if its last completed probe, over this    *)
(* very route, answered less than thirty seconds ago: across list changes, *)
(* cancelled scans that are still running, failed queueing and the         *)
(* fallback to an earlier scan.                                            *)
AvailableIsFresh == \A h \in Hosts : IsAvailable(h) => heard[h] < Fresh

(* A scan waiting for its turn, or running, is older than the barrier, so  *)
(* waiting for the barrier alone drains every probe on the network.        *)
BarrierCoversQueue ==
    /\ Drained(m_barrier) => queue = << >>
    /\ \A i \in DOMAIN queue : queue[i] <= m_barrier
=============================================================================
