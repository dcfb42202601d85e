---------------------- MODULE ForegroundWorkflowProofs ----------------------
(***************************************************************************)
(* One foreground operation at a time, for every capacity of the ring and  *)
(* every number of attempts.                                               *)
(*                                                                         *)
(* CoreInv says who owes an answer to whom: which jobs are queued, what a  *)
(* held or waiting event says of the operation in progress, and in which   *)
(* order events can wait.  StreamInv and SessionsInv add the sessions,     *)
(* whose owner is not one of the queued jobs.                              *)
(***************************************************************************)
EXTENDS ForegroundWorkflow, SequenceTheorems, TLAPS

JobTypes    == {"CONNECTION_READY", "CONNECTION_FAILED",
                "APPLICATIONS_READY", "APPLICATIONS_FAILED"}
PairTypes   == {"PAIRING_FINISHED", "PAIRING_FAILED"}
StartTypes  == {"STREAM_STARTED", "STREAM_FAILED", "STREAM_CONFLICT"}
StreamTypes == StartTypes \cup {"STREAM_STOPPED"}
Types       == JobTypes \cup PairTypes \cup StreamTypes \cup {"PAIRING_REQUIRED"}
Events      == [type : Types, id : Nat]

Elems(q) == {q[i] : i \in DOMAIN q}
Queued   == Elems(queue)

Asked   == operation.kind \in {"Connect", "Applications"}
HasPair == jobs # << >> /\ Job.kind = "Pair"

TypeInv ==
    /\ attempts \in Nat
    /\ operation \in {NoOp} \cup [kind : {"Connect", "Applications", "Launch"}, id : 1..attempts]
    /\ \/ session = [st |-> "none", id |-> 0]
       \/ session \in [st : {"starting", "running"}, id : 1..attempts]
    /\ held \in {Nothing} \cup [event : Events, queued : BOOLEAN]
    /\ queue \in Seq(Events)
    /\ answered \subseteq 1..attempts

(* Each kind of operation has its page, and a question that waits for Yes  *)
(* leaves no operation in progress.                                        *)
ServiceInv ==
    /\ progress => operation # NoOp
    /\ confirm => /\ error # "none" /\ message = "quit?"
                  /\ operation = NoOp /\ page.name = "apps"
    /\ operation.kind = "Connect" => page.name = "main"
    /\ operation.kind \in {"Applications", "Launch"} => page.name = "apps"
    /\ connecting => operation.kind = "Connect"
    /\ Asked => operation.id \notin answered

(* At most one pairing job, then at most one job of the operation; a       *)
(* recorded result is the operation's own.                                 *)
PairJobs == [kind : {"Pair"}, id : 1..attempts]

JobsInv ==
    /\ Asked /\ worker.done => worker.id = operation.id
    /\ \/ jobs = << >> /\ stage = "run" /\ (Asked => worker.done)
       \/ /\ jobs = <<operation>> /\ stage \in {"run", "succeeded", "failed"}
          /\ Asked /\ ~worker.done
       \/ \E p \in PairJobs :
            /\ \/ jobs = <<p>> /\ ~Asked
               \/ jobs = <<p, operation>> /\ Asked /\ ~worker.done
            /\ stage \in {"run", "paired", "unpaired"}
            /\ page.name # "apps" /\ (page.name = "pairing" => p.id = page.id)

HeldInv ==
    /\ held # Nothing => in_task
    /\ held # Nothing /\ held.queued => queue # << >> /\ held.event = queue[1]
    /\ held # Nothing /\ ~held.queued =>
         /\ Asked /\ worker.done /\ held.event.id = operation.id
         /\ held.event.type \in JobTypes /\ Completes(operation.kind, held.event.type)

(* What a waiting event says of the rest.                                  *)
Waits(e) ==
    /\ e.id \in 1..attempts
    /\ e.type \in JobTypes =>
         /\ Asked /\ e.id = operation.id /\ Completes(operation.kind, e.type)
         /\ worker.done \/ stage \in {"succeeded", "failed"}
         /\ held = Nothing \/ held.queued
    /\ e.type \in PairTypes =>
         /\ page.name # "apps" /\ ~HasPair
         /\ page.name = "pairing" => e.id = page.id
         /\ held = Nothing \/ held.queued
    /\ e.type = "PAIRING_REQUIRED" => in_task /\ operation = NoOp
    /\ e.type \in StreamTypes /\ e.id = session.id =>
         session.st = "running" /\ e.type = "STREAM_STARTED"

(* The earlier of two waiting events and the later one.                    *)
Before(e, f) ==
    /\ e.type \in JobTypes => f.type \notin JobTypes \cup PairTypes
    /\ e.type \in PairTypes => f.type \notin PairTypes \cup {"PAIRING_REQUIRED"}
    /\ e.type = "PAIRING_REQUIRED" => f.type # "PAIRING_REQUIRED"
    /\ e.type \in StreamTypes /\ f.type \in StreamTypes /\ e.id = f.id =>
         e.type = "STREAM_STARTED" /\ f.type = "STREAM_STOPPED"

InOrder(q) == \A i, j \in 1..Len(q) : i < j => Before(q[i], q[j])

QueueInv == InOrder(queue) /\ \A e \in Queued : Waits(e)

(* As long as page_stream always opened, a session is the operation in     *)
(* progress or under the open page_stream, and nothing waits of another.   *)
Launching(n) == operation = [kind |-> "Launch", id |-> n]

StreamInv == unseen = {} =>
    /\ stream_open => operation = NoOp /\ page.name = "apps" /\ ~confirm
    /\ session.st = "starting" => Launching(session.id)
    /\ session.st = "running" => Launching(session.id) \/ stream_open
    /\ \A e \in Queued : e.type \in StreamTypes =>
         /\ Launching(e.id) \/ (stream_open /\ e.type = "STREAM_STOPPED")
         /\ e.type # "STREAM_STARTED" => session.st = "none"
    /\ \A e, f \in Queued :
         e.type \in StreamTypes /\ f.type \in StreamTypes => e.id = f.id

(* In any case nothing waits of more than two sessions: when the next one  *)
(* starts, the event loop has drained the queue since the one before it.   *)
Settled == page.name # "apps" \/ Asked \/ (~in_task /\ operation.kind # "Launch")

SessionsAre(old, new) ==
    /\ session.st # "none" => session.id = new
    /\ operation.kind = "Launch" => operation.id = new
    /\ \A e \in Queued : e.type \in StreamTypes =>
         e.id = new \/ (e.id = old /\ ~Settled /\ unseen # {})

SessionsInv == \E old, new \in Nat : SessionsAre(old, new)

(* A launch in progress is still starting, or its answer waits.            *)
LaunchAnswered == operation.kind = "Launch" =>
    \/ session = [st |-> "starting", id |-> operation.id]
    \/ \E e \in Queued : e.id = operation.id /\ e.type \in StartTypes
-----------------------------------------------------------------------------
(* The queue.                                                              *)
LEMMA TailFacts ==
    ASSUME NEW q \in Seq(Events), q # << >>
    PROVE  /\ Tail(q) \in Seq(Events) /\ Len(Tail(q)) = Len(q) - 1 /\ Len(q) \in Nat
           /\ \A i \in 1..Len(Tail(q)) : Tail(q)[i] = q[i + 1]
           /\ q[1] \in Events /\ 1 \in 1..Len(q)
  OBVIOUS

LEMMA ElemsAre ==
    ASSUME NEW q \in Seq(Events)
    PROVE  Elems(q) = {q[i] : i \in 1..Len(q)} /\ Elems(q) \subseteq Events /\ Len(q) \in Nat
  BY DEF Elems

(* What is left when the first event is taken.                             *)
LEMMA TailElems ==
    ASSUME NEW q \in Seq(Events), q # << >>, InOrder(q)
    PROVE  /\ Tail(q) \in Seq(Events) /\ InOrder(Tail(q)) /\ q[1] \in Elems(q)
           /\ Elems(Tail(q)) \subseteq Elems(q)
           /\ Elems(q) \subseteq Elems(Tail(q)) \cup {q[1]}
           /\ \A f \in Elems(Tail(q)) : Before(q[1], f)
  <1> DEFINE r == Tail(q)
  <1>1. /\ r \in Seq(Events) /\ Len(r) = Len(q) - 1 /\ Len(q) \in Nat /\ Len(r) \in Nat
        /\ \A i \in 1..Len(r) : r[i] = q[i + 1]
        /\ 1 \in 1..Len(q)
    BY TailFacts
  <1> HIDE DEF r
  <1>2. Elems(q) = {q[i] : i \in 1..Len(q)} /\ Elems(r) = {r[i] : i \in 1..Len(r)}
    BY <1>1, ElemsAre
  <1>3. InOrder(r)
    <2> SUFFICES ASSUME NEW i \in 1..Len(r), NEW j \in 1..Len(r), i < j PROVE Before(r[i], r[j])
      BY DEF InOrder
    <2>1. i + 1 \in 1..Len(q) /\ j + 1 \in 1..Len(q) /\ i + 1 < j + 1
      BY <1>1
    <2> QED BY <1>1, <2>1 DEF InOrder
  <1>4. \A f \in Elems(r) : f \in Elems(q) /\ Before(q[1], f)
    <2> SUFFICES ASSUME NEW i \in 1..Len(r) PROVE r[i] \in Elems(q) /\ Before(q[1], r[i])
      BY <1>2
    <2>1. i + 1 \in 1..Len(q) /\ 1 < i + 1 /\ r[i] = q[i + 1]
      BY <1>1
    <2> QED BY <1>1, <1>2, <2>1 DEF InOrder
  <1>5. \A f \in Elems(q) : f = q[1] \/ f \in Elems(r)
    <2> SUFFICES ASSUME NEW i \in 1..Len(q), i # 1 PROVE q[i] \in Elems(r)
      BY <1>2
    <2>1. i - 1 \in 1..Len(r) /\ r[i - 1] = q[i]
      BY <1>1
    <2> QED BY <1>2, <2>1
  <1> QED BY <1>1, <1>2, <1>3, <1>4, <1>5 DEF r

(* What waits after a push, which keeps all that waited before.            *)
LEMMA PushElems ==
    ASSUME NEW q \in Seq(Events), NEW e \in Events
    PROVE  /\ Push(q, e) \in Seq(Events)
           /\ Elems(q) \subseteq Elems(Push(q, e))
           /\ Elems(Push(q, e)) \subseteq Elems(q) \cup {e}
           /\ Len(q) < Capacity => e \in Elems(Push(q, e))
           /\ InOrder(q) /\ (\A f \in Elems(q) : Before(f, e)) => InOrder(Push(q, e))
  <1>1. CASE ~(Len(q) < Capacity)
    BY <1>1 DEF Push
  <1>2. CASE Len(q) < Capacity
    <2> DEFINE r == Append(q, e)
    <2>1. /\ r \in Seq(Events) /\ Len(r) = Len(q) + 1 /\ Len(q) \in Nat /\ Push(q, e) = r
          /\ \A i \in 1..Len(q) : r[i] = q[i]
          /\ r[Len(q) + 1] = e
      BY <1>2 DEF Push
    <2> HIDE DEF r
    <2>2. Elems(q) = {q[i] : i \in 1..Len(q)} /\ Elems(r) = {r[i] : i \in 1..Len(r)}
      BY <2>1, ElemsAre
    <2>3. \A i \in 1..Len(r) : i \in 1..Len(q) \/ i = Len(q) + 1
      BY <2>1
    <2>4. Elems(q) \subseteq Elems(r) /\ e \in Elems(r)
      BY <2>1, <2>2
    <2>5. Elems(r) \subseteq Elems(q) \cup {e}
      BY <2>1, <2>2, <2>3
    <2>6. ASSUME InOrder(q), \A f \in Elems(q) : Before(f, e) PROVE InOrder(r)
      <3> SUFFICES ASSUME NEW i \in 1..Len(r), NEW j \in 1..Len(r),
                          i < j PROVE Before(r[i], r[j])
        BY DEF InOrder
      <3>1. i \in 1..Len(q)
        BY <2>1
      <3>2. CASE j \in 1..Len(q)
        BY <2>1, <2>6, <3>1, <3>2 DEF InOrder
      <3>3. CASE j = Len(q) + 1
        BY <2>1, <2>2, <2>6, <3>1, <3>3
      <3> QED BY <2>3, <3>2, <3>3
    <2> QED BY <2>1, <2>4, <2>5, <2>6
  <1> QED BY <1>1, <1>2

-----------------------------------------------------------------------------
(* What ProcessEventTask has in its hands, and what waits behind it.       *)
Rest == IF held.queued THEN Tail(queue) ELSE queue

CoreInv == TypeInv /\ ServiceInv /\ JobsInv /\ HeldInv /\ QueueInv

LEMMA HeldFacts ==
    ASSUME CoreInv, held # Nothing
    PROVE  /\ held.event \in Events /\ in_task
           /\ Rest \in Seq(Events) /\ InOrder(Rest) /\ Elems(Rest) \subseteq Queued
           /\ Queued \subseteq Elems(Rest) \cup {held.event}
           /\ \A f \in Elems(Rest) : Before(held.event, f)
           /\ held.event.type \in JobTypes =>
                /\ Asked /\ held.event.id = operation.id
                /\ Completes(operation.kind, held.event.type)
           /\ held.event.type \notin JobTypes => held.event \in Queued /\ Waits(held.event)
  <1>1. held \in [event : Events, queued : BOOLEAN] /\ in_task /\ queue \in Seq(Events)
    BY DEF CoreInv, TypeInv, HeldInv
  <1>2. CASE held.queued
    <2>1. queue # << >> /\ held.event = queue[1] /\ InOrder(queue) /\ Rest = Tail(queue)
      BY <1>2 DEF CoreInv, HeldInv, QueueInv, Rest
    <2>2. held.event \in Queued
      BY <1>1, <2>1, TailElems DEF Queued
    <2>3. Waits(held.event)
      BY <2>2 DEF CoreInv, QueueInv
    <2> QED BY <1>1, <2>1, <2>2, <2>3, TailElems DEF Queued, Waits
  <1>3. CASE ~held.queued
    <2>1. /\ Rest = queue /\ InOrder(queue)
          /\ Asked /\ held.event.id = operation.id /\ held.event.type \in JobTypes
          /\ Completes(operation.kind, held.event.type)
      BY <1>3 DEF CoreInv, HeldInv, QueueInv, Rest
    <2>2. \A f \in Queued : f.type \notin JobTypes \cup PairTypes
      BY <1>3 DEF CoreInv, QueueInv, Waits
    <2>3. \A f \in Queued : Before(held.event, f)
      BY <2>1, <2>2 DEF Before, JobTypes, PairTypes, StreamTypes, StartTypes
    <2> QED BY <1>1, <2>1, <2>3 DEF Queued
  <1> QED BY <1>1, <1>2, <1>3

(* PrepareCompletion.                                                      *)
LEMMA PreparedFacts ==
    ASSUME CoreInv, Prepared
    PROVE  /\ held # Nothing
           /\ held.event.type \in JobTypes <=> Completing /\ Asked
           /\ Completing => Asked \/ operation.kind = "Launch"
           /\ Completing /\ Asked => worker.done /\ jobs = << >> /\ stage = "run"
           /\ operation.kind = "Launch" =>
                (held.event.type \in StreamTypes <=> Completing)
  <1>1. held # Nothing /\ (Completing /\ operation.kind # "Launch" => worker.done)
    BY DEF Prepared
  <1>2. held.event.type \in JobTypes => Completing /\ Asked
    BY <1>1, HeldFacts DEF Completing
  <1>3. Completing => \/ operation.kind \in {"Connect", "Applications"} /\ held.event.type \in JobTypes
                      \/ operation.kind = "Launch" /\ held.event.type \in StreamTypes
    BY DEF Completing, Completes, JobTypes, StreamTypes, StartTypes
  <1>4. operation.kind = "Launch" => (held.event.type \in StreamTypes <=> Completing)
    BY DEF Completing, Completes, StreamTypes, StartTypes
  <1>5. Asked => operation.kind # "Launch"
    BY DEF Asked
  <1>6. Asked /\ worker.done => jobs = << >> /\ stage = "run"
    BY DEF CoreInv, JobsInv
  <1> QED BY <1>1, <1>2, <1>3, <1>4, <1>5, <1>6 DEF Asked

LEMMA ServiceAfter ==
    /\ AfterPrepare.op = IF Completing THEN NoOp ELSE operation
    /\ AfterPrepare.progress => progress /\ ~Completing
    /\ error # "none" =>
         /\ AfterPrepare.error = error /\ AfterPrepare.message = message
         /\ AfterPrepare.confirm => confirm
    /\ AfterPrepare.confirm /\ ~confirm =>
         /\ Completing /\ operation.kind = "Launch" /\ held.event.type = "STREAM_CONFLICT"
         /\ AfterPrepare.error = "pending" /\ AfterPrepare.message = "quit?"
  <1>1. CASE ~Completing
    BY <1>1, Zenon DEF AfterPrepare
  <1>2. CASE Completing
    <2> DEFINE failed == \/ operation.kind = "Connect" /\ held.event.type = "CONNECTION_FAILED"
                         \/ operation.kind = "Launch" /\ held.event.type \in {"STREAM_FAILED", "STREAM_CONFLICT"}
               ask    == operation.kind = "Launch" /\ held.event.type = "STREAM_CONFLICT" /\ error = "none"
    <2>1. /\ AfterPrepare.op = NoOp /\ AfterPrepare.progress = FALSE
          /\ AfterPrepare.error = IF failed /\ error = "none" THEN "pending" ELSE error
          /\ AfterPrepare.message = IF failed /\ error = "none"
                                    THEN IF ask THEN "quit?" ELSE "text" ELSE message
          /\ AfterPrepare.confirm = (confirm \/ ask)
      BY <1>2 DEF AfterPrepare
    <2>2. ask => /\ failed /\ operation.kind = "Launch" /\ error = "none"
                 /\ held.event.type = "STREAM_CONFLICT"
      OBVIOUS
    <2> HIDE DEF failed, ask
    <2> QED BY <1>2, <2>1, <2>2
  <1> QED BY <1>1, <1>2

-----------------------------------------------------------------------------
(* The handlers and the dialog poll.                                       *)

(* The two lists of jobs there are.                                        *)
LEMMA OneJob ==
    ASSUME NEW x
    PROVE  /\ Append(<< >>, x) = <<x>> /\ Tail(<<x>>) = << >>
           /\ <<x>> # << >> /\ <<x>>[1] = x
  OBVIOUS

LEMMA TwoJobs ==
    ASSUME NEW x, NEW y
    PROVE  /\ Append(<<x>>, y) = <<x, y>> /\ Tail(<<x, y>>) = <<y>>
           /\ <<x, y>> # << >> /\ <<x, y>>[1] = x
  <1> DEFINE T == {x, y}
             a == Append(<<x>>, y)
             b == Tail(<<x, y>>)
             c == <<x, y>>
             d == <<y>>
  <1>1. /\ a \in Seq(T) /\ Len(a) = 2 /\ a[1] = x /\ a[2] = y
        /\ c \in Seq(T) /\ Len(c) = 2 /\ c[1] = x /\ c[2] = y
    OBVIOUS
  <1>2. /\ b \in Seq(T) /\ Len(b) = 1 /\ b[1] = y
        /\ d \in Seq(T) /\ Len(d) = 1 /\ d[1] = y
    OBVIOUS
  <1> HIDE DEF a, b, c, d, T
  <1>3. a = c
    BY <1>1, SeqEqual
  <1>4. b = d
    BY <1>2, SeqEqual
  <1>5. c # << >>
    BY <1>1
  <1> QED BY <1>1, <1>3, <1>4, <1>5 DEF a, b, c, d

(* Messages come and go while no operation is in progress, or beside it.   *)
LEMMA MessagesCore ==
    CoreInv /\ (SelectHostFails \/ SelectAppFails \/ OpenError \/ CloseError) => CoreInv'
  <1> SUFFICES ASSUME CoreInv, SelectHostFails \/ SelectAppFails \/ OpenError \/ CloseError
               PROVE  CoreInv'
    OBVIOUS
  <1> USE DEF CoreInv, service, thread, host, task, history, pages
  <1>1. /\ UNCHANGED <<operation, progress, jobs, stage, host, queue, task, pages, history>>
        /\ worker' = worker \/ operation = NoOp
    BY DEF SelectHostFails, SelectAppFails, OpenError, CloseError, IsBusy
  <1>2. TypeInv'
    BY <1>1 DEF TypeInv
  <1>3. confirm' => confirm /\ error' # "none" /\ message' = "quit?"
    BY DEF ServiceInv, SelectHostFails, SelectAppFails, OpenError, CloseError, ShowError
  <1>4. ServiceInv'
    BY <1>1, <1>3 DEF ServiceInv, Asked
  <1>5. ~(operation = NoOp /\ Asked)
    BY DEF NoOp, Asked
  <1>6. JobsInv' /\ HeldInv'
    BY <1>1, <1>5 DEF JobsInv, HeldInv, Asked, PairJobs
  <1>7. QueueInv'
    BY <1>1, <1>5 DEF QueueInv, Queued, Waits, Asked, HasPair, Job
  <1> QED BY <1>2, <1>4, <1>6, <1>7

(* A new operation is begun by the main thread between two frames, when    *)
(* nothing waits but what threads pushed since.                            *)
LEMMA SelectHostCore == CoreInv /\ SelectHost => CoreInv'
  <1> SUFFICES ASSUME CoreInv, SelectHost PROVE CoreInv'
    OBVIOUS
  <1> USE DEF CoreInv, service, thread, host, task, history, pages
  <1> DEFINE op == [kind |-> "Connect", id |-> attempts + 1]
  <1>1. /\ operation = NoOp /\ operation' = op /\ worker' = Idle /\ connecting' = TRUE
        /\ jobs' = Append(jobs, op) /\ attempts' = attempts + 1
        /\ page.name = "main" /\ ~in_task /\ progress' = TRUE /\ error = "none"
        /\ UNCHANGED <<error, message, confirm, stage, host, queue, task, page,
                       stream_open, answered, unseen>>
    BY DEF SelectHost, IsBusy, Begin, NewAttempt, Number, MainIdle
  <1>2. attempts \in Nat /\ 1..attempts \subseteq 1..attempts' /\ attempts + 1 \in 1..attempts'
        /\ attempts + 1 \notin 1..attempts
    BY <1>1 DEF TypeInv
  <1>3. ~Asked /\ Asked' /\ held = Nothing
    BY <1>1 DEF NoOp, Asked, HeldInv
  <1>4. TypeInv'
    BY <1>1, <1>2 DEF TypeInv
  <1>5. ServiceInv'
    <2>1. ~confirm' /\ operation' # NoOp /\ operation'.kind = "Connect" /\ operation'.id = attempts + 1
      BY <1>1 DEF ServiceInv, NoOp
    <2>2. operation'.id \notin answered'
      BY <1>1, <1>2, <2>1 DEF TypeInv
    <2> QED BY <1>1, <2>1, <2>2 DEF ServiceInv
  <1>6. ASSUME jobs = << >>, stage = "run" PROVE JobsInv' /\ ~HasPair'
    <2>1. jobs' = <<operation'>> /\ jobs'[1] = operation'
      BY <1>1, <1>6, OneJob
    <2>2. JobsInv'
      BY <1>1, <1>3, <1>6, <2>1 DEF JobsInv, Idle
    <2>3. ~HasPair'
      <3>1. jobs'[1].kind = "Connect"
        BY <1>1, <2>1
      <3> QED BY <3>1 DEF HasPair, Job
    <2> QED BY <2>2, <2>3
  <1>7. ASSUME NEW p \in PairJobs, jobs = <<p>>, stage \in {"run", "paired", "unpaired"}
        PROVE  JobsInv' /\ HasPair
    <2>1. jobs' = <<p, operation'>>
      BY <1>1, <1>7, TwoJobs
    <2>2. p \in PairJobs' /\ page'.name = "main" /\ stage' = stage /\ Asked' /\ ~worker'.done
      BY <1>1, <1>2, <1>3 DEF PairJobs, Idle
    <2>3. JobsInv'
      BY <1>7, <2>1, <2>2 DEF JobsInv
    <2>4. HasPair
      BY <1>7 DEF HasPair, Job, PairJobs
    <2> QED BY <2>3, <2>4
  <1>8. JobsInv' /\ (HasPair' => HasPair)
    <2>1. \/ jobs = << >> /\ stage = "run"
          \/ \E p \in PairJobs : jobs = <<p>> /\ stage \in {"run", "paired", "unpaired"}
      BY <1>3 DEF JobsInv
    <2> QED BY <1>6, <1>7, <2>1
  <1>9. HeldInv'
    BY <1>1, <1>3 DEF HeldInv
  <1>10. QueueInv'
    BY <1>1, <1>2, <1>3, <1>8 DEF QueueInv, Queued, Waits
  <1> QED BY <1>4, <1>5, <1>8, <1>9, <1>10

(* SelectApp, or Yes to the question.                                      *)
LEMMA StartedCore == CoreInv /\ (SelectApp \/ ConfirmYes) => CoreInv'
  <1> SUFFICES ASSUME CoreInv, SelectApp \/ ConfirmYes PROVE CoreInv'
    OBVIOUS
  <1> USE DEF CoreInv, service, thread, host, task, history, pages
  <1>1. /\ operation = NoOp /\ page.name = "apps" /\ ~in_task
        /\ UNCHANGED <<jobs, stage, queue, task, page, stream_open, connecting, answered,
                       unseen>>
        /\ ~confirm'
    BY DEF SelectApp, ConfirmYes, IsBusy, MainIdle, StartConfirmed, ServiceInv
  <1>2. held = Nothing /\ ~Asked /\ jobs = << >> /\ stage = "run" /\ ~connecting
    <2>1. held = Nothing /\ ~Asked /\ ~connecting
      BY <1>1 DEF NoOp, Asked, HeldInv, ServiceInv
    <2> QED BY <1>1, <2>1 DEF JobsInv
  <1>3. CASE StartConfirmed
    <2>1. /\ attempts' = attempts + 1 /\ operation' = [kind |-> "Launch", id |-> attempts + 1]
          /\ session' = [st |-> "starting", id |-> attempts + 1]
      BY <1>3 DEF StartConfirmed, Begin, NewAttempt, Number
    <2>2. attempts \in Nat /\ 1..attempts \subseteq 1..attempts' /\ attempts + 1 \in 1..attempts'
          /\ attempts + 1 \notin 1..attempts
      BY <2>1 DEF TypeInv
    <2>3. ~Asked' /\ operation' # NoOp
      BY <2>1 DEF Asked, NoOp
    <2>4. TypeInv'
      BY <1>1, <2>1, <2>2 DEF TypeInv
    <2>5. ServiceInv'
      BY <1>1, <1>2, <2>1, <2>3 DEF ServiceInv
    <2>6. JobsInv' /\ HeldInv'
      BY <1>1, <1>2, <2>3 DEF JobsInv, HeldInv
    <2>7. QueueInv'
      <3> SUFFICES ASSUME NEW e \in Queued PROVE Waits(e)'
        BY <1>1 DEF QueueInv, Queued
      <3>1. Waits(e)
        BY DEF QueueInv
      <3>2. e.type \notin JobTypes /\ e.type # "PAIRING_REQUIRED" /\ e.type \notin PairTypes
        BY <1>1, <1>2, <3>1 DEF Waits
      <3>3. e.id \in 1..attempts' /\ e.id # session'.id
        BY <2>1, <2>2, <3>1 DEF Waits
      <3> QED BY <3>2, <3>3 DEF Waits
    <2> QED BY <2>4, <2>5, <2>6, <2>7
  <1>4. CASE ~StartConfirmed
    <2>1. UNCHANGED <<operation, progress, host, attempts>>
      BY <1>4 DEF SelectApp, ConfirmYes
    <2>2. TypeInv'
      BY <1>1, <2>1 DEF TypeInv
    <2>3. ServiceInv' /\ JobsInv' /\ HeldInv'
      BY <1>1, <1>2, <2>1 DEF ServiceInv, JobsInv, HeldInv, Asked
    <2>4. QueueInv'
      BY <1>1, <1>2, <2>1 DEF QueueInv, Queued, Waits, Asked, HasPair, Job
    <2> QED BY <2>2, <2>3, <2>4
  <1> QED BY <1>3, <1>4

LEMMA ClosePageCore == CoreInv /\ ClosePage => CoreInv'
  <1> SUFFICES ASSUME CoreInv, ClosePage PROVE CoreInv'
    OBVIOUS
  <1> USE DEF CoreInv, service, thread, host, task, history, pages
  <1>1. /\ UNCHANGED <<operation, progress, error, message, confirm, jobs, stage, worker,
                       host, queue, task, history>>
        /\ page'.name = "main" /\ connecting' = FALSE /\ ~in_task
        /\ (operation = NoOp /\ error = "none") \/ page.name = "pairing"
    BY Zenon DEF ClosePage, IsBusy, MainIdle
  <1>2. operation.kind \notin {"Connect", "Applications", "Launch"} /\ ~confirm
    BY <1>1 DEF ServiceInv, NoOp
  <1>3. TypeInv' /\ HeldInv'
    BY <1>1 DEF TypeInv, HeldInv, Asked
  <1>4. ServiceInv'
    BY <1>1, <1>2 DEF ServiceInv, Asked
  <1>5. JobsInv'
    BY <1>1, <1>2 DEF JobsInv, Asked, PairJobs
  <1>6. QueueInv'
    BY <1>1 DEF QueueInv, Queued, Waits, Asked, HasPair, Job
  <1> QED BY <1>3, <1>4, <1>5, <1>6

-----------------------------------------------------------------------------
(* The job thread and the session owner.                                   *)
LEMMA RunningJob ==
    ASSUME CoreInv
    PROVE  /\ stage \in {"succeeded", "failed"} =>
                jobs = <<operation>> /\ Job = operation /\ Asked /\ ~worker.done
           /\ jobs # << >> /\ Job.kind # "Pair" =>
                jobs = <<operation>> /\ Job = operation /\ Asked /\ ~worker.done
           /\ stage \in {"paired", "unpaired"} => HasPair
           /\ HasPair => /\ Job \in PairJobs /\ page.name # "apps"
                         /\ page.name = "pairing" => Job.id = page.id
                         /\ \/ jobs = <<Job>> /\ Tail(jobs) = << >> /\ ~Asked
                            \/ jobs = <<Job, operation>> /\ Tail(jobs) = <<operation>>
                               /\ Asked /\ ~worker.done
  <1>1. CASE jobs = << >> /\ stage = "run"
    BY <1>1 DEF HasPair
  <1>2. CASE jobs = <<operation>> /\ stage \in {"run", "succeeded", "failed"} /\ Asked /\ ~worker.done
    <2>1. Job = operation /\ operation.kind # "Pair"
      BY <1>2, OneJob DEF Job, Asked
    <2> QED BY <1>2, <2>1 DEF HasPair
  <1>3. ASSUME NEW p \in PairJobs, stage \in {"run", "paired", "unpaired"},
               \/ jobs = <<p>> /\ ~Asked
               \/ jobs = <<p, operation>> /\ Asked /\ ~worker.done,
               page.name # "apps", page.name = "pairing" => p.id = page.id
        PROVE  /\ stage \notin {"succeeded", "failed"} /\ HasPair
               /\ Job \in PairJobs /\ Job.kind = "Pair" /\ (page.name = "pairing" => Job.id = page.id)
               /\ \/ jobs = <<Job>> /\ Tail(jobs) = << >> /\ ~Asked
                  \/ jobs = <<Job, operation>> /\ Tail(jobs) = <<operation>>
                     /\ Asked /\ ~worker.done
    <2>1. jobs # << >> /\ Job = p /\ p.kind = "Pair"
      BY <1>3, OneJob, TwoJobs DEF Job, PairJobs
    <2>2. \/ jobs = <<Job>> /\ Tail(jobs) = << >> /\ ~Asked
          \/ jobs = <<Job, operation>> /\ Tail(jobs) = <<operation>> /\ Asked /\ ~worker.done
      <3>1. Tail(<<p>>) = << >> /\ Tail(<<p, operation>>) = <<operation>>
        BY OneJob, TwoJobs
      <3> QED BY <1>3, <2>1, <3>1
    <2> QED BY <1>3, <2>1, <2>2 DEF HasPair
  <1> QED BY <1>1, <1>2, <1>3 DEF CoreInv, JobsInv

(* A call's outcome is pushed while nothing else of the operation waits.   *)
LEMMA JobAnswersCore == CoreInv /\ JobAnswers => CoreInv'
  <1> SUFFICES ASSUME CoreInv, JobAnswers PROVE CoreInv'
    OBVIOUS
  <1> USE DEF CoreInv, service, thread, host, task, history, pages
  <1>1. /\ UNCHANGED <<service, jobs, worker, session, task, pages, history>>
        /\ stage = "run" /\ stage' \in {"succeeded", "failed"}
        /\ jobs = <<operation>> /\ Job = operation /\ Asked /\ ~worker.done
    BY RunningJob DEF JobAnswers
  <1>2. PICK type \in JobTypes : /\ queue' = Push(queue, Ev(type, operation.id))
                                 /\ Completes(operation.kind, type)
    BY <1>1, Zenon DEF JobAnswers, JobTypes, Completes
  <1> DEFINE e == Ev(type, operation.id)
  <1>3. e.type = type /\ e.id = operation.id
    BY DEF Ev
  <1>4. operation.id \in 1..attempts /\ attempts \in Nat
    BY <1>1 DEF TypeInv, Asked, NoOp
  <1>5. e \in Events
    BY <1>2, <1>4 DEF Events, Types, Ev
  <1> HIDE DEF e
  <1>6. \A f \in Queued : f.type \notin JobTypes
    BY <1>1 DEF QueueInv, Waits
  <1>7. \A f \in Queued : Before(f, e)
    <2> SUFFICES ASSUME NEW f \in Queued PROVE Before(f, e)
      OBVIOUS
    <2> QED BY <1>2, <1>3, <1>6 DEF Before, JobTypes, PairTypes, StreamTypes, StartTypes
  <1>8. /\ queue' \in Seq(Events) /\ InOrder(queue') /\ Queued' \subseteq Queued \cup {e}
        /\ Elems(queue) \subseteq Elems(queue')
    BY <1>2, <1>5, <1>7, PushElems DEF Queued, TypeInv, QueueInv, e
  <1>9. TypeInv'
    BY <1>1, <1>8 DEF TypeInv
  <1>10. ServiceInv' /\ JobsInv'
    BY <1>1 DEF ServiceInv, JobsInv, Asked
  <1>11. held = Nothing \/ held.queued
    BY <1>1 DEF HeldInv
  <1>12. HeldInv'
    <2> SUFFICES ASSUME held # Nothing PROVE queue' # << >> /\ held.event = queue'[1]
      BY <1>1, <1>11 DEF HeldInv
    <2>1. queue # << >> /\ held.event = queue[1] /\ queue \in Seq(Events)
      BY <1>11 DEF HeldInv, TypeInv
    <2> QED BY <1>2, <2>1 DEF Push
  <1>13. QueueInv'
    <2> SUFFICES ASSUME NEW f \in Queued \cup {e} PROVE Waits(f)'
      BY <1>8 DEF QueueInv
    <2>1. CASE f = e
      BY <1>1, <1>2, <1>3, <1>4, <1>11, <2>1 DEF Waits, Asked, JobTypes, PairTypes,
                                                 StreamTypes, StartTypes
    <2>2. CASE f \in Queued
      <3>1. Waits(f) /\ f.type \notin JobTypes
        BY <1>6, <2>2 DEF QueueInv
      <3> QED BY <1>1, <3>1 DEF Waits, HasPair, Job
    <2> QED BY <2>1, <2>2
  <1> QED BY <1>9, <1>10, <1>12, <1>13

LEMMA JobRecordsCore == CoreInv /\ (JobNotAdmitted \/ JobRecords) => CoreInv'
  <1> SUFFICES ASSUME CoreInv, JobNotAdmitted \/ JobRecords PROVE CoreInv'
    OBVIOUS
  <1> USE DEF CoreInv, service, thread, host, task, history, pages
  <1>1. /\ UNCHANGED <<service, host, queue, task, pages, history>>
        /\ jobs = <<operation>> /\ Job = operation /\ Asked /\ ~worker.done
        /\ stage \in {"run", "succeeded", "failed"}
    BY RunningJob DEF JobNotAdmitted, JobRecords
  <1>2. TypeInv' /\ ServiceInv'
    BY <1>1 DEF TypeInv, ServiceInv, Asked
  <1>3. held = Nothing \/ held.queued
    BY <1>1 DEF HeldInv
  <1>4. HeldInv'
    BY <1>1, <1>3 DEF HeldInv
  <1>5. CASE JobNotAdmitted
    <2>1. jobs' = jobs /\ worker' = worker /\ stage' = "failed"
      BY <1>5 DEF JobNotAdmitted
    <2>2. JobsInv'
      BY <1>1, <2>1 DEF JobsInv, Asked
    <2>3. QueueInv'
      BY <1>1, <2>1 DEF QueueInv, Queued, Waits, Asked, HasPair, Job
    <2> QED BY <1>2, <1>4, <2>2, <2>3
  <1>6. CASE JobRecords
    <2>1. jobs' = << >> /\ stage' = "run" /\ worker'.done /\ worker'.id = operation.id
      BY <1>1, <1>6, OneJob DEF JobRecords, JobEnds
    <2>2. JobsInv'
      BY <1>1, <2>1 DEF JobsInv, Asked
    <2>3. QueueInv'
      BY <1>1, <2>1 DEF QueueInv, Queued, Waits, Asked, HasPair
    <2> QED BY <1>2, <1>4, <2>2, <2>3
  <1> QED BY <1>5, <1>6

LEMMA PairJobCore == CoreInv /\ (PairJobQuits \/ PairJobDecides) => CoreInv'
  <1> SUFFICES ASSUME CoreInv, PairJobQuits \/ PairJobDecides PROVE CoreInv'
    OBVIOUS
  <1> USE DEF CoreInv, service, thread, host, task, history, pages
  <1>1. UNCHANGED <<service, worker, host, queue, task, pages, history>> /\ HasPair
    BY DEF PairJobQuits, PairJobDecides, HasPair
  <1>2. /\ Job \in PairJobs /\ page.name # "apps"
        /\ page.name = "pairing" => Job.id = page.id
        /\ \/ jobs = <<Job>> /\ Tail(jobs) = << >> /\ ~Asked
           \/ jobs = <<Job, operation>> /\ Tail(jobs) = <<operation>> /\ Asked /\ ~worker.done
    BY <1>1, RunningJob
  <1>3. TypeInv' /\ ServiceInv' /\ HeldInv'
    BY <1>1 DEF TypeInv, ServiceInv, HeldInv, Asked
  <1>4. CASE PairJobQuits
    <2>1. jobs' = Tail(jobs) /\ stage' = "run" /\ stage = "run"
      BY <1>4 DEF PairJobQuits, JobEnds
    <2>2. JobsInv'
      BY <1>1, <1>2, <2>1 DEF JobsInv, Asked
    <2>3. QueueInv'
      <3> SUFFICES ASSUME NEW e \in Queued PROVE Waits(e)'
        BY <1>1 DEF QueueInv, Queued
      <3>1. Waits(e) /\ e.type \notin PairTypes
        BY <1>1 DEF QueueInv, Waits
      <3> QED BY <1>1, <2>1, <3>1 DEF Waits, Asked
    <2> QED BY <1>3, <2>2, <2>3
  <1>5. CASE PairJobDecides
    <2>1. jobs' = jobs /\ stage = "run" /\ stage' \in {"paired", "unpaired"}
      BY <1>5 DEF PairJobDecides
    <2>2. JobsInv'
      BY <1>1, <1>2, <2>1 DEF JobsInv, Asked, PairJobs
    <2>3. QueueInv'
      BY <1>1, <2>1 DEF QueueInv, Queued, Waits, Asked, HasPair, Job
    <2> QED BY <1>3, <2>2, <2>3
  <1> QED BY <1>4, <1>5

(* The result of a pairing attempt is the last that is heard of it.        *)
LEMMA PairJobAnswersCore == CoreInv /\ PairJobAnswers => CoreInv'
  <1> SUFFICES ASSUME CoreInv, PairJobAnswers PROVE CoreInv'
    OBVIOUS
  <1> USE DEF CoreInv, service, thread, host, task, history, pages
  <1>1. /\ UNCHANGED <<service, worker, session, task, pages, history>>
        /\ HasPair /\ stage \in {"paired", "unpaired"}
        /\ jobs' = Tail(jobs) /\ stage' = "run"
    BY RunningJob DEF PairJobAnswers, JobEnds
  <1>2. /\ Job \in PairJobs /\ page.name # "apps"
        /\ page.name = "pairing" => Job.id = page.id
        /\ \/ jobs = <<Job>> /\ Tail(jobs) = << >> /\ ~Asked
           \/ jobs = <<Job, operation>> /\ Tail(jobs) = <<operation>> /\ Asked /\ ~worker.done
    BY <1>1, RunningJob
  <1>3. PICK type \in PairTypes : queue' = Push(queue, Ev(type, Job.id))
    BY DEF PairJobAnswers, PairTypes
  <1> DEFINE e == Ev(type, Job.id)
  <1>4. e.type = type /\ e.id = Job.id /\ e.id \in 1..attempts /\ attempts \in Nat /\ e \in Events
    BY <1>2 DEF Ev, PairJobs, TypeInv, Events, Types
  <1> HIDE DEF e
  <1>5. \A f \in Queued : f.type \notin JobTypes /\ f.type \notin PairTypes
    BY <1>1, <1>2 DEF QueueInv, Waits
  <1>6. \A f \in Queued : Before(f, e)
    <2> SUFFICES ASSUME NEW f \in Queued PROVE Before(f, e)
      OBVIOUS
    <2> QED BY <1>3, <1>4, <1>5 DEF Before, JobTypes, PairTypes, StreamTypes, StartTypes
  <1>7. /\ queue' \in Seq(Events) /\ InOrder(queue') /\ Queued' \subseteq Queued \cup {e}
    BY <1>3, <1>4, <1>6, PushElems DEF Queued, TypeInv, QueueInv, e
  <1>8. TypeInv'
    BY <1>1, <1>7 DEF TypeInv
  <1>9. ServiceInv'
    BY <1>1 DEF ServiceInv, Asked
  <1>10. JobsInv' /\ ~HasPair'
    <2>1. \/ jobs' = << >> /\ ~Asked
          \/ jobs' = <<operation>> /\ Asked /\ ~worker.done
      BY <1>1, <1>2
    <2>2. JobsInv'
      BY <1>1, <2>1 DEF JobsInv, Asked
    <2>3. Asked => operation.kind # "Pair"
      BY DEF Asked
    <2> QED BY <2>1, <2>2, <2>3, OneJob DEF HasPair, Job
  <1>11. held = Nothing \/ held.queued
    BY <1>1, <1>2 DEF HeldInv
  <1>12. HeldInv'
    <2> SUFFICES ASSUME held # Nothing PROVE queue' # << >> /\ held.event = queue'[1]
      BY <1>1, <1>11 DEF HeldInv
    <2>1. queue # << >> /\ held.event = queue[1] /\ queue \in Seq(Events)
      BY <1>11 DEF HeldInv, TypeInv
    <2> QED BY <1>3, <2>1 DEF Push
  <1>13. QueueInv'
    <2> SUFFICES ASSUME NEW f \in Queued \cup {e} PROVE Waits(f)'
      BY <1>7 DEF QueueInv
    <2>1. CASE f = e
      BY <1>1, <1>2, <1>3, <1>4, <1>10, <1>11, <2>1
         DEF Waits, JobTypes, PairTypes, StreamTypes, StartTypes
    <2>2. CASE f \in Queued
      <3>1. Waits(f) /\ f.type \notin JobTypes /\ f.type \notin PairTypes
        BY <1>5, <2>2 DEF QueueInv
      <3> QED BY <1>1, <3>1 DEF Waits
    <2> QED BY <2>1, <2>2
  <1> QED BY <1>8, <1>9, <1>10, <1>12, <1>13

(* A session announces itself once and ends once.                          *)
LEMMA SessionPush ==
    ASSUME CoreInv, NEW e \in Events, e.type \in StreamTypes, e.id = session.id,
           session.st # "none", queue' = Push(queue, e),
           UNCHANGED <<service, thread, cancelled, state, task, pages, history>>,
           \/ session.st = "starting"
           \/ session.st = "running" /\ e.type = "STREAM_STOPPED",
           \/ /\ session' = [st |-> "running", id |-> session.id]
              /\ e.type = "STREAM_STARTED"
           \/ session' = [st |-> "none", id |-> 0]
    PROVE  CoreInv'
  <1> USE DEF CoreInv, service, thread, host, task, history, pages
  <1>1. e.id \in 1..attempts /\ session.id \in 1..attempts /\ attempts \in Nat
    BY DEF TypeInv
  <1>2. \A f \in Queued : f.type \in StreamTypes /\ f.id = session.id =>
          session.st = "running" /\ f.type = "STREAM_STARTED"
    BY DEF QueueInv, Waits
  <1>3. \A f \in Queued : Before(f, e)
    <2> SUFFICES ASSUME NEW f \in Queued PROVE Before(f, e)
      OBVIOUS
    <2> QED BY <1>2 DEF Before, JobTypes, PairTypes, StreamTypes, StartTypes
  <1>4. /\ queue' \in Seq(Events) /\ InOrder(queue') /\ Queued' \subseteq Queued \cup {e}
    BY <1>3, PushElems DEF Queued, TypeInv, QueueInv
  <1>5. TypeInv'
    BY <1>1, <1>4 DEF TypeInv
  <1>6. ServiceInv' /\ JobsInv'
    BY DEF ServiceInv, JobsInv, Asked, PairJobs
  <1>7. HeldInv'
    <2> SUFFICES ASSUME held # Nothing,
                        held.queued PROVE queue' # << >> /\ held.event = queue'[1]
      BY DEF HeldInv, Asked
    <2>1. queue # << >> /\ held.event = queue[1] /\ queue \in Seq(Events)
      BY DEF HeldInv, TypeInv
    <2> QED BY <2>1 DEF Push
  <1>8. QueueInv'
    <2> SUFFICES ASSUME NEW f \in Queued \cup {e} PROVE Waits(f)'
      BY <1>4 DEF QueueInv
    <2>1. CASE f = e
      BY <1>1, <2>1 DEF Waits, JobTypes, PairTypes, StreamTypes, StartTypes
    <2>2. CASE f \in Queued
      <3>1. Waits(f)
        BY <2>2 DEF QueueInv
      <3>2. f.type \in StreamTypes /\ f.id = session'.id => session'.st = "running" /\ f.type = "STREAM_STARTED"
        BY <1>2, <2>2, <3>1 DEF Waits
      <3> QED BY <3>1, <3>2 DEF Waits, Asked, HasPair, Job
    <2> QED BY <2>1, <2>2
  <1> QED BY <1>5, <1>6, <1>7, <1>8

LEMMA SessionEvents ==
    ASSUME CoreInv, SessionStarts \/ SessionEnds
    PROVE  \E e \in Events :
             /\ e.type \in StreamTypes /\ e.id = session.id /\ session.st # "none"
             /\ queue' = Push(queue, e)
             /\ \/ session.st = "starting"
                \/ session.st = "running" /\ e.type = "STREAM_STOPPED"
             /\ \/ /\ session.st = "starting" /\ session' = [st |-> "running", id |-> session.id]
                   /\ e.type = "STREAM_STARTED"
                \/ /\ session.st = "starting" /\ session' = [st |-> "none", id |-> 0]
                   /\ e.type \in {"STREAM_FAILED", "STREAM_CONFLICT"}
                \/ /\ session.st = "running" /\ session' = [st |-> "none", id |-> 0]
                   /\ e.type = "STREAM_STOPPED"
  <1>1. session.st \in {"starting", "running"}
    BY DEF SessionStarts, SessionEnds
  <1>2. session \in [st : {"starting", "running"}, id : 1..attempts] /\ attempts \in Nat
    BY <1>1 DEF CoreInv, TypeInv
  <1>3. \A type \in StreamTypes : Ev(type, session.id) \in Events
                                  /\ Ev(type, session.id).type = type /\ Ev(type, session.id).id = session.id
    BY <1>2 DEF Ev, Events, Types
  <1>4. CASE SessionStarts
    <2>1. /\ session' = [st |-> "running", id |-> session.id] /\ session.st = "starting"
          /\ queue' = Push(queue, Ev("STREAM_STARTED", session.id))
      BY <1>2, <1>4 DEF SessionStarts
    <2>2. "STREAM_STARTED" \in StreamTypes
      BY DEF StreamTypes, StartTypes
    <2> QED BY <1>3, <2>1, <2>2
  <1>5. CASE SessionEnds
    <2>1. session' = [st |-> "none", id |-> 0]
      BY <1>5 DEF SessionEnds
    <2>2. \/ /\ session.st = "starting"
             /\ \E type \in {"STREAM_FAILED", "STREAM_CONFLICT"} :
                   queue' = Push(queue, Ev(type, session.id))
          \/ /\ session.st = "running"
             /\ queue' = Push(queue, Ev("STREAM_STOPPED", session.id))
      BY <1>5 DEF SessionEnds
    <2>3. {"STREAM_FAILED", "STREAM_CONFLICT", "STREAM_STOPPED"} \subseteq StreamTypes
      BY DEF StreamTypes, StartTypes
    <2>4. CASE session.st = "starting"
      <3>1. PICK type \in {"STREAM_FAILED", "STREAM_CONFLICT"} :
              queue' = Push(queue, Ev(type, session.id))
        BY <2>2, <2>4
      <3> QED BY <1>3, <2>1, <2>3, <2>4, <3>1
    <2>5. CASE session.st = "running"
      BY <1>3, <2>1, <2>2, <2>3, <2>5
    <2> QED BY <1>1, <2>4, <2>5
  <1> QED BY <1>4, <1>5

LEMMA SessionCore == CoreInv /\ (SessionStarts \/ SessionEnds) => CoreInv'
  <1> SUFFICES ASSUME CoreInv, SessionStarts \/ SessionEnds PROVE CoreInv'
    OBVIOUS
  <1>1. UNCHANGED <<service, thread, cancelled, state, task, pages, history>>
    BY DEF SessionStarts, SessionEnds
  <1> QED BY <1>1, SessionEvents, SessionPush

-----------------------------------------------------------------------------
(* ProcessEventTask looks at the queue and at the worker's result.         *)
LEMMA PeekCore == CoreInv /\ (Peek \/ TaskReturns \/ Retain) => CoreInv'
  <1> SUFFICES ASSUME CoreInv, Peek \/ TaskReturns \/ Retain PROVE CoreInv'
    OBVIOUS
  <1> USE DEF CoreInv, service, thread, host, task, history, pages
  <1>1. UNCHANGED <<service, thread, host, queue, pages, history>>
    BY DEF Peek, TaskReturns, Retain
  <1>2. ServiceInv' /\ JobsInv'
    BY <1>1 DEF ServiceInv, JobsInv, Asked, PairJobs
  <1>3. queue \in Seq(Events) /\ Queued' = Queued /\ HasPair' = HasPair
    BY <1>1 DEF TypeInv, Queued, HasPair, Job
  <1>4. CASE Peek /\ queue # << >>
    <2>1. held' = [event |-> queue[1], queued |-> TRUE] /\ in_task' = TRUE /\ queue[1] \in Events
      BY <1>3, <1>4 DEF Peek
    <2>2. TypeInv'
      BY <1>1, <2>1 DEF TypeInv
    <2>3. HeldInv'
      BY <1>1, <1>4, <2>1 DEF HeldInv
    <2>4. QueueInv'
      BY <1>1, <1>3, <2>1 DEF QueueInv, Waits, Asked
    <2> QED BY <1>2, <2>2, <2>3, <2>4
  <1>5. CASE Peek /\ queue = << >>
    <2>1. /\ held' = [event |-> JobEvent, queued |-> FALSE] /\ in_task' = TRUE
          /\ Asked /\ worker.done
      BY <1>5 DEF Peek, Asked
    <2>2. PICK type \in JobTypes : JobEvent = Ev(type,
               worker.id) /\ Completes(operation.kind, type)
      BY <2>1 DEF JobEvent, JobTypes, Completes, Asked
    <2>3. worker.id = operation.id /\ operation.id \in Nat
      BY <2>1 DEF JobsInv, TypeInv, NoOp, Asked
    <2>4. JobEvent.type = type /\ JobEvent.id = operation.id /\ JobEvent \in Events
      BY <2>2, <2>3 DEF Ev, Events, Types
    <2>5. TypeInv'
      BY <1>1, <2>1, <2>4 DEF TypeInv
    <2>6. HeldInv'
      BY <1>1, <2>1, <2>2, <2>4 DEF HeldInv, Asked
    <2>7. QueueInv'
      BY <1>1, <1>3, <1>5 DEF QueueInv, Queued, Elems
    <2> QED BY <1>2, <2>5, <2>6, <2>7
  <1>6. CASE TaskReturns
    <2>1. UNCHANGED held /\ held = Nothing /\ queue = << >>
      BY <1>6 DEF TaskReturns
    <2>2. TypeInv' /\ HeldInv'
      BY <1>1, <2>1 DEF TypeInv, HeldInv
    <2>3. QueueInv'
      BY <1>1, <1>3, <2>1 DEF QueueInv, Queued, Elems
    <2> QED BY <1>2, <2>2, <2>3
  <1>7. CASE Retain
    <2>1. held' = Nothing /\ held # Nothing /\ Completing /\ operation.kind # "Launch"
      BY <1>7 DEF Retain
    <2>2. operation # NoOp
      BY <2>1 DEF Completing, Completes, NoOp
    <2>3. TypeInv' /\ HeldInv'
      BY <1>1, <2>1 DEF TypeInv, HeldInv
    <2>4. QueueInv'
      BY <1>1, <1>3, <2>1, <2>2 DEF QueueInv, Waits, Asked
    <2> QED BY <1>2, <2>3, <2>4
  <1> QED BY <1>4, <1>5, <1>6, <1>7

-----------------------------------------------------------------------------
(* The pages' callbacks.                                                   *)

(* The events on which the next page opens.                                *)
Opens == \/ held.event.type = "CONNECTION_READY"
         \/ held.event.type = "PAIRING_FINISHED" /\ page.name = "pairing"

(* Handling an event never disturbs what waits behind it: an operation is  *)
(* completed by the last of its answers.                                   *)
LEMMA BehindIt ==
    ASSUME CoreInv, Prepared
    PROVE  /\ Completing /\ Asked => \A e \in Elems(Rest) : e.type \notin JobTypes \cup PairTypes
           /\ \A e \in Elems(Rest) : Waits(e)
           /\ Opens =>
                   /\ jobs = << >> /\ stage = "run" /\ page.name # "apps"
                   /\ AfterPrepare.op = NoOp /\ ~AfterPrepare.progress /\ ~AfterPrepare.confirm
                   /\ \A e \in Elems(Rest) :
                        e.type \notin JobTypes \cup PairTypes \cup {"PAIRING_REQUIRED"}
  <1> USE DEF CoreInv
  <1>1. \A e \in Elems(Rest) : Waits(e) /\ Before(held.event, e)
    BY PreparedFacts, HeldFacts DEF QueueInv
  <1>2. ASSUME Completing, Asked
        PROVE  \A e \in Elems(Rest) : e.type \notin JobTypes \cup PairTypes
    <2>1. held.event.type \in JobTypes
      BY <1>2, PreparedFacts
    <2> QED BY <1>1, <2>1 DEF Before
  <1>3. ASSUME held.event.type = "CONNECTION_READY"
        PROVE  /\ jobs = << >> /\ stage = "run" /\ page.name # "apps"
               /\ AfterPrepare.op = NoOp /\ ~AfterPrepare.progress /\ ~AfterPrepare.confirm
               /\ \A e \in Elems(Rest) :
                    e.type \notin JobTypes \cup PairTypes \cup {"PAIRING_REQUIRED"}
    <2>1. held.event.type \in JobTypes
      BY <1>3 DEF JobTypes
    <2>2. Completing /\ Asked /\ operation # NoOp /\ operation.kind = "Connect"
      BY <1>3, <2>1, PreparedFacts DEF Asked, NoOp, Completing, Completes
    <2>3. jobs = << >> /\ stage = "run" /\ page.name = "main" /\ ~confirm
      BY <2>2, PreparedFacts DEF ServiceInv
    <2>4. AfterPrepare.op = NoOp /\ ~AfterPrepare.progress /\ ~AfterPrepare.confirm
      BY <2>2, <2>3, ServiceAfter
    <2>5. \A e \in Elems(Rest) : e.type # "PAIRING_REQUIRED"
      BY <1>1, <2>2 DEF Waits
    <2> QED BY <1>2, <2>2, <2>3, <2>4, <2>5
  <1>4. ASSUME held.event.type = "PAIRING_FINISHED", page.name = "pairing"
        PROVE  /\ jobs = << >> /\ stage = "run" /\ page.name # "apps"
               /\ AfterPrepare.op = NoOp /\ ~AfterPrepare.progress /\ ~AfterPrepare.confirm
               /\ \A e \in Elems(Rest) :
                    e.type \notin JobTypes \cup PairTypes \cup {"PAIRING_REQUIRED"}
    <2>1. held.event.type \in PairTypes /\ held.event.type \notin JobTypes
      BY <1>4 DEF PairTypes, JobTypes
    <2>2. Waits(held.event) /\ held # Nothing
      BY <2>1, PreparedFacts, HeldFacts
    <2>3. operation = NoOp /\ ~confirm /\ ~progress
      BY <1>4 DEF ServiceInv, TypeInv
    <2>4. ~Asked /\ ~HasPair /\ ~Completing
      BY <2>1, <2>2, <2>3 DEF Asked, NoOp, Waits, Completing, Completes
    <2>5. jobs = << >> /\ stage = "run"
      BY <2>4, RunningJob DEF JobsInv, HasPair
    <2>6. AfterPrepare.op = NoOp /\ ~AfterPrepare.progress /\ ~AfterPrepare.confirm
      BY <2>3, <2>4, ServiceAfter
    <2>7. \A e \in Elems(Rest) : e.type \notin JobTypes
      BY <1>1, <2>4 DEF Waits
    <2>8. \A e \in Elems(Rest) : e.type \notin PairTypes \cup {"PAIRING_REQUIRED"}
      BY <1>1, <2>1 DEF Before
    <2> QED BY <1>4, <2>5, <2>6, <2>7, <2>8
  <1> QED BY <1>1, <1>2, <1>3, <1>4 DEF Opens

(* The event is handled and no operation begun.                            *)
LEMMA SettleCore ==
    ASSUME CoreInv, Prepared, Acknowledge, Dispatched,
           NEW failed \in BOOLEAN, Settle(AfterPrepare, failed),
           UNCHANGED <<jobs, stage, host, attempts>>,
           connecting' => operation'.kind = "Connect",
           \/ page' = page /\ worker' = worker
           \/ /\ page'.name = "apps" \/ page' = page
              /\ worker' \in {worker, Idle}
              /\ Opens
    PROVE  CoreInv'
  <1> USE DEF CoreInv, host
  <1>1. /\ queue' = Rest /\ held' = Nothing /\ in_task' = in_task
        /\ operation' = AfterPrepare.op /\ progress' = AfterPrepare.progress
        /\ confirm' = AfterPrepare.confirm
        /\ error' = IF failed /\ AfterPrepare.error = "none" THEN "pending" ELSE AfterPrepare.error
        /\ message' = IF failed /\ AfterPrepare.error = "none" THEN "text" ELSE AfterPrepare.message
    BY DEF Acknowledge, Dispatched, Settle, Rest
  <1>2. Rest \in Seq(Events) /\ InOrder(Rest) /\ held # Nothing
    BY PreparedFacts, HeldFacts
  <1>3. \A e \in Elems(Rest) : Waits(e) /\ (Completing /\ Asked => e.type \notin JobTypes \cup PairTypes)
    BY BehindIt
  <1>4. operation' = IF Completing THEN NoOp ELSE operation
    BY <1>1, ServiceAfter
  <1>5. Opens => /\ jobs = << >> /\ stage = "run" /\ page.name # "apps"
                /\ operation' = NoOp /\ ~progress' /\ ~confirm'
                /\ \A e \in Elems(Rest) :
                     e.type \notin JobTypes \cup PairTypes \cup {"PAIRING_REQUIRED"}
    BY <1>1, BehindIt
  <1>6. \/ page' = page /\ worker' = worker
        \/ Opens /\ (page'.name = "apps" \/ page' = page)
    OBVIOUS
  <1>7. ~(NoOp.kind \in {"Connect", "Applications", "Launch"})
    BY DEF NoOp
  <1>8. /\ Completing /\ Asked => answered' = answered \cup {operation.id}
        /\ ~(Completing /\ Asked) => answered' = answered
        /\ Asked => operation.id \in 1..attempts
    <2>1. Completing /\ operation.kind # "Launch" <=> Completing /\ Asked
      BY PreparedFacts DEF Asked
    <2>2. Completing /\ Asked => held.event.id = operation.id
      BY <1>2, PreparedFacts, HeldFacts
    <2> QED BY <2>1, <2>2 DEF Dispatched, TypeInv, Asked, NoOp
  <1>9. TypeInv'
    BY <1>1, <1>2, <1>4, <1>8 DEF TypeInv
  <1>10. ServiceInv'
    <2>1. progress' => operation' # NoOp
      BY <1>1, <1>4, ServiceAfter DEF ServiceInv
    <2>2. confirm' => /\ error' # "none" /\ message' = "quit?"
                      /\ operation' = NoOp /\ page'.name = "apps"
      <3> SUFFICES ASSUME confirm' PROVE /\ error' # "none" /\ message' = "quit?"
                                         /\ operation' = NoOp /\ page'.name = "apps"
        OBVIOUS
      <3>1. page' = page
        BY <1>5, <1>6
      <3>2. CASE confirm
        <4>1. /\ error # "none" /\ message = "quit?" /\ operation = NoOp /\ page.name = "apps"
          BY <3>2 DEF ServiceInv
        <4> QED BY <1>1, <1>4, <3>1, <4>1, ServiceAfter
      <3>3. CASE ~confirm
        <4>1. /\ Completing /\ operation.kind = "Launch"
              /\ AfterPrepare.error = "pending" /\ AfterPrepare.message = "quit?"
          BY <1>1, <3>3, ServiceAfter
        <4> QED BY <1>1, <1>4, <3>1, <4>1 DEF ServiceInv
      <3> QED BY <3>2, <3>3
    <2>3. operation'.kind = "Connect" => page'.name = "main"
      BY <1>4, <1>5, <1>6, <1>7 DEF ServiceInv
    <2>4. operation'.kind \in {"Applications", "Launch"} => page'.name = "apps"
      BY <1>4, <1>5, <1>6, <1>7 DEF ServiceInv
    <2>5. Asked' => operation'.id \notin answered'
      BY <1>4, <1>7, <1>8 DEF ServiceInv, Asked
    <2> QED BY <2>1, <2>2, <2>3, <2>4, <2>5 DEF ServiceInv
  <1>11. JobsInv'
    <2>1. CASE Opens
      BY <1>5, <1>7, <2>1 DEF JobsInv, Asked
    <2>2. CASE ~Opens /\ operation' = operation
      BY <1>6, <2>2 DEF JobsInv, Asked, PairJobs
    <2>3. CASE ~Opens /\ Completing /\ Asked
      <3>1. jobs = << >> /\ stage = "run"
        BY <2>3, PreparedFacts
      <3> QED BY <1>4, <1>7, <2>3, <3>1 DEF JobsInv, Asked
    <2>4. CASE ~Opens /\ Completing /\ ~Asked
      BY <1>4, <1>6, <1>7, <2>4 DEF JobsInv, Asked, PairJobs
    <2> QED BY <1>4, <2>1, <2>2, <2>3, <2>4
  <1>12. HeldInv'
    BY <1>1 DEF HeldInv
  <1>13. QueueInv'
    <2> SUFFICES ASSUME NEW e \in Elems(Rest) PROVE Waits(e)'
      BY <1>1, <1>2 DEF QueueInv, Queued
    <2>1. Waits(e) /\ (Completing /\ Asked => e.type \notin JobTypes)
      BY <1>3
    <2>2. e.type \in JobTypes => Asked' /\ operation' = operation /\ worker' = worker
      BY <1>4, <1>5, <1>6, <2>1 DEF Waits, Asked
    <2>3. e.type \in PairTypes => page' = page /\ ~HasPair'
      BY <1>5, <1>6, <2>1 DEF Waits, HasPair, Job
    <2>4. e.type = "PAIRING_REQUIRED" => operation' = NoOp
      BY <1>4, <2>1 DEF Waits
    <2> QED BY <1>1, <2>1, <2>2, <2>3, <2>4 DEF Waits
  <1> QED BY <1>9, <1>10, <1>11, <1>12, <1>13

(* The Apps page opens and asks for the list at once.                      *)
LEMMA OpenAppsCore ==
    ASSUME CoreInv, Prepared, Acknowledge, Dispatched, OpenApps(AfterPrepare),
           UNCHANGED <<stage, host>>, connecting' = FALSE,
           Opens
    PROVE  CoreInv'
  <1> USE DEF CoreInv, host
  <1> DEFINE op == [kind |-> "Applications", id |-> attempts + 1]
  <1>1. /\ jobs = << >> /\ stage = "run" /\ AfterPrepare.op = NoOp /\ ~AfterPrepare.confirm
        /\ \A e \in Elems(Rest) : e.type \notin JobTypes \cup PairTypes \cup {"PAIRING_REQUIRED"}
    BY BehindIt
  <1>2. CASE Settle(AfterPrepare, TRUE) /\ UNCHANGED <<jobs, attempts>>
             /\ page' = [name |-> "apps", id |-> 0] /\ worker' \in {worker, Idle}
    <2>1. page'.name = "apps" /\ TRUE \in BOOLEAN /\ UNCHANGED <<jobs, stage, host, attempts>>
      BY <1>2
    <2> QED BY <1>2, <2>1, SettleCore
  <1>3. CASE /\ operation' = op /\ progress' = TRUE /\ worker' = Idle
             /\ jobs' = Append(jobs, op) /\ attempts' = attempts + 1
             /\ page' = [name |-> "apps", id |-> 0] /\ confirm' = AfterPrepare.confirm
    <2>1. /\ queue' = Rest /\ held' = Nothing /\ in_task' = in_task
      BY DEF Acknowledge, Dispatched, Rest
    <2>2. Rest \in Seq(Events) /\ InOrder(Rest) /\ held # Nothing
      BY PreparedFacts, HeldFacts
    <2>3. attempts \in Nat /\ 1..attempts \subseteq 1..attempts' /\ attempts + 1 \in 1..attempts'
          /\ attempts + 1 \notin 1..attempts
      BY <1>3 DEF TypeInv
    <2>4. answered' \subseteq 1..attempts
      <3>1. Completing /\ operation.kind # "Launch" => Asked /\ held.event.id = operation.id
        BY PreparedFacts, HeldFacts DEF Asked
      <3>2. Asked => operation.id \in 1..attempts
        BY DEF TypeInv, Asked, NoOp
      <3> QED BY <3>1, <3>2 DEF Dispatched, TypeInv
    <2>5. Asked' /\ operation' # NoOp
      BY <1>3 DEF Asked, NoOp
    <2>6. TypeInv'
      BY <1>3, <2>1, <2>2, <2>3, <2>4 DEF TypeInv
    <2>7. ServiceInv'
      <3>1. ~confirm' /\ operation'.kind = "Applications" /\ page'.name = "apps"
            /\ operation'.id \notin answered'
        BY <1>1, <1>3, <2>3, <2>4
      <3> QED BY <2>5, <3>1 DEF ServiceInv
    <2>8. jobs' = <<operation'>>
      BY <1>1, <1>3, OneJob
    <2>9. JobsInv'
      BY <1>1, <1>3, <2>5, <2>8 DEF JobsInv, Idle
    <2>10. HeldInv'
      BY <2>1 DEF HeldInv
    <2>11. QueueInv'
      <3> SUFFICES ASSUME NEW e \in Elems(Rest) PROVE Waits(e)'
        BY <2>1, <2>2 DEF QueueInv, Queued
      <3>1. Waits(e) /\ e.type \notin JobTypes \cup PairTypes \cup {"PAIRING_REQUIRED"}
        BY <1>1, BehindIt
      <3> QED BY <2>3, <3>1 DEF Waits
    <2> QED BY <2>6, <2>7, <2>9, <2>10, <2>11
  <1>4. \/ /\ operation' = op /\ progress' = TRUE /\ worker' = Idle
           /\ jobs' = Append(jobs, op) /\ attempts' = attempts + 1
           /\ page' = [name |-> "apps", id |-> 0] /\ confirm' = AfterPrepare.confirm
        \/ /\ Settle(AfterPrepare, TRUE) /\ UNCHANGED <<jobs, attempts>>
           /\ page' = [name |-> "apps", id |-> 0] /\ worker' \in {worker, Idle}
    BY Zenon DEF OpenApps, Begin, NewAttempt, Number
  <1> QED BY <1>2, <1>3, <1>4

(* A PIN is shown: PAIRING_REQUIRED waits before any result of the attempt. *)
LEMMA PairingBeginsCore ==
    ASSUME CoreInv, Prepared, Dispatched, held.event.type = "CONNECTION_READY",
           NEW failed \in BOOLEAN, Settle(AfterPrepare, failed),
           attempts' = attempts + 1, queue' = Push(Rest, Ev("PAIRING_REQUIRED", attempts + 1)),
           connecting' = FALSE, UNCHANGED <<stage, host, worker>>,
           \/ /\ page' = [name |-> "pairing", id |-> attempts + 1]
              /\ jobs' = jobs \/ jobs' = Append(jobs, [kind |-> "Pair", id |-> attempts + 1])
           \/ page.name = "main" /\ page' = page /\ jobs' = jobs
    PROVE  CoreInv'
  <1> USE DEF CoreInv, host
  <1> DEFINE e == Ev("PAIRING_REQUIRED", attempts + 1)
             p == [kind |-> "Pair", id |-> attempts + 1]
  <1>1. /\ jobs = << >> /\ stage = "run" /\ operation' = NoOp /\ ~progress' /\ ~confirm'
        /\ held' = Nothing /\ in_task' = TRUE
    BY BehindIt, HeldFacts, PreparedFacts DEF Opens, Settle, Dispatched
  <1>2. \A f \in Elems(Rest) :
          /\ f.type \notin JobTypes \cup PairTypes \cup {"PAIRING_REQUIRED"}
          /\ Waits(f)
    BY BehindIt DEF Opens
  <1>3. Rest \in Seq(Events) /\ InOrder(Rest) /\ held # Nothing
    BY PreparedFacts, HeldFacts
  <1>4. attempts \in Nat /\ 1..attempts \subseteq 1..attempts' /\ attempts + 1 \in 1..attempts'
    BY DEF TypeInv
  <1>5. e \in Events /\ e.type = "PAIRING_REQUIRED" /\ e.id = attempts + 1
    BY <1>4 DEF Ev, Events, Types
  <1> HIDE DEF e
  <1>6. \A f \in Elems(Rest) : Before(f, e)
    BY <1>2, <1>5 DEF Before, StreamTypes, StartTypes
  <1>7. /\ queue' \in Seq(Events) /\ InOrder(queue') /\ Queued' \subseteq Elems(Rest) \cup {e}
    BY <1>3, <1>5, <1>6, PushElems DEF Queued, e
  <1>8. answered' \subseteq 1..attempts
    <2>1. Completing /\ operation.kind # "Launch" => Asked /\ held.event.id = operation.id
      BY PreparedFacts, HeldFacts DEF Asked
    <2>2. Asked => operation.id \in 1..attempts
      BY DEF TypeInv, Asked, NoOp
    <2> QED BY <2>1, <2>2 DEF Dispatched, TypeInv
  <1>9. ~Asked' /\ operation'.kind \notin {"Connect", "Applications", "Launch"}
    BY <1>1 DEF Asked, NoOp
  <1>10. TypeInv'
    BY <1>1, <1>4, <1>7, <1>8 DEF TypeInv
  <1>11. ServiceInv' /\ HeldInv'
    BY <1>1, <1>9 DEF ServiceInv, HeldInv
  <1>12. JobsInv'
    <2>1. CASE jobs' = jobs
      BY <1>1, <1>9, <2>1 DEF JobsInv
    <2>2. CASE jobs' = Append(jobs, p) /\ page' = [name |-> "pairing", id |-> attempts + 1]
      <3>1. jobs' = <<p>> /\ p \in PairJobs' /\ p.id = page'.id /\ page'.name # "apps"
        BY <1>1, <1>4, <2>2, OneJob DEF PairJobs
      <3> QED BY <1>1, <1>9, <3>1 DEF JobsInv
    <2> QED BY <2>1, <2>2
  <1>13. QueueInv'
    <2> SUFFICES ASSUME NEW f \in Elems(Rest) \cup {e} PROVE Waits(f)'
      BY <1>7 DEF QueueInv
    <2>1. CASE f = e
      BY <1>1, <1>4, <1>5, <2>1 DEF Waits, JobTypes, PairTypes, StreamTypes, StartTypes
    <2>2. CASE f \in Elems(Rest)
      BY <1>2, <1>4, <2>2 DEF Waits
    <2> QED BY <2>1, <2>2
  <1> QED BY <1>10, <1>11, <1>12, <1>13

LEMMA DispatchCore == CoreInv /\ Dispatch => CoreInv'
  <1> SUFFICES ASSUME CoreInv, Dispatch PROVE CoreInv'
    OBVIOUS
  <1> USE DEF thread, host
  <1>1. CASE MainReadyPaired
    <2>1. /\ Prepared /\ Acknowledge /\ Dispatched /\ connecting' = FALSE /\ UNCHANGED <<stage, host>>
          /\ Opens
          /\ \/ OpenApps(AfterPrepare)
             \/ Settle(AfterPrepare, TRUE) /\ UNCHANGED <<page, jobs, worker, attempts>>
      BY <1>1 DEF MainReadyPaired, Opens
    <2>2. CASE OpenApps(AfterPrepare)
      BY <2>1, <2>2, OpenAppsCore
    <2>3. CASE Settle(AfterPrepare, TRUE) /\ UNCHANGED <<page, jobs, worker, attempts>>
      <3>1. TRUE \in BOOLEAN /\ UNCHANGED <<jobs, stage, host, attempts>> /\ page' = page
            /\ worker' = worker
        BY <2>1, <2>3
      <3> QED BY <2>1, <2>3, <3>1, SettleCore
    <2> QED BY <2>1, <2>2, <2>3
  <1>2. CASE MainReadyUnpaired
    <2>1. /\ Prepared /\ Dispatched /\ connecting' = FALSE /\ UNCHANGED <<stage, host, worker>>
          /\ page.name = "main" /\ held.event.type = "CONNECTION_READY"
          /\ \/ /\ attempts' = attempts + 1
                /\ queue' = Push(Rest, Ev("PAIRING_REQUIRED", attempts + 1))
                /\ \E failed \in BOOLEAN : Settle(AfterPrepare, failed)
                /\ \/ /\ page' = [name |-> "pairing", id |-> attempts + 1]
                      /\ jobs' = jobs \/ jobs' = Append(jobs, [kind |-> "Pair", id |-> attempts + 1])
                   \/ page' = page /\ jobs' = jobs
             \/ /\ Acknowledge /\ Settle(AfterPrepare, TRUE)
                /\ page' = page /\ jobs' = jobs /\ attempts' = attempts
      BY <1>2, Zenon DEF MainReadyUnpaired, NewAttempt, Number, Rest
    <2>2. CASE Acknowledge /\ Settle(AfterPrepare, TRUE)
               /\ page' = page /\ jobs' = jobs /\ attempts' = attempts
      <3>1. TRUE \in BOOLEAN /\ UNCHANGED <<jobs, stage, host, attempts>> /\ worker' = worker
        BY <2>1, <2>2
      <3> QED BY <2>1, <2>2, <3>1, SettleCore
    <2>3. CASE /\ attempts' = attempts + 1
               /\ queue' = Push(Rest, Ev("PAIRING_REQUIRED", attempts + 1))
               /\ \E failed \in BOOLEAN : Settle(AfterPrepare, failed)
               /\ \/ /\ page' = [name |-> "pairing", id |-> attempts + 1]
                     /\ jobs' = jobs \/ jobs' = Append(jobs, [kind |-> "Pair", id |-> attempts + 1])
                  \/ page' = page /\ jobs' = jobs
      <3>1. PICK failed \in BOOLEAN : Settle(AfterPrepare, failed)
        BY <2>3
      <3> QED BY <2>1, <2>3, <3>1, PairingBeginsCore
    <2> QED BY <2>1, <2>2, <2>3
  <1>3. CASE MainOther
    <2>1. /\ Prepared /\ Acknowledge /\ Dispatched
          /\ Settle(AfterPrepare, held.event.type = "PAIRING_REQUIRED")
          /\ UNCHANGED <<jobs, stage, host, attempts>> /\ page' = page /\ worker' = worker
          /\ page.name = "main" /\ held.event.type # "CONNECTION_READY"
          /\ connecting' => connecting /\ held.event.type # "CONNECTION_FAILED"
      BY <1>3 DEF MainOther
    <2>2. connecting' => operation'.kind = "Connect"
      <3> SUFFICES ASSUME connecting' PROVE operation'.kind = "Connect"
        OBVIOUS
      <3>1. operation.kind = "Connect" /\ held.event.type \notin {"CONNECTION_READY", "CONNECTION_FAILED"}
        BY <2>1 DEF CoreInv, ServiceInv
      <3>2. ~Completing
        BY <3>1 DEF Completing, Completes
      <3> QED BY <2>1, <3>1, <3>2, ServiceAfter DEF Settle
    <2>3. (held.event.type = "PAIRING_REQUIRED") \in BOOLEAN
      OBVIOUS
    <2> QED BY <2>1, <2>2, <2>3, SettleCore
  <1>4. CASE PairingFinished
    <2>1. /\ Prepared /\ Acknowledge /\ Dispatched /\ Opens /\ page.name = "pairing"
          /\ UNCHANGED <<stage, host>>
          /\ \/ connecting' = FALSE /\ OpenApps(AfterPrepare)
             \/ /\ Settle(AfterPrepare, FALSE)
                /\ UNCHANGED <<connecting, page, jobs, worker, attempts>>
      BY <1>4 DEF PairingFinished, Opens
    <2>2. CASE connecting' = FALSE /\ OpenApps(AfterPrepare)
      BY <2>1, <2>2, OpenAppsCore
    <2>3. CASE Settle(AfterPrepare, FALSE) /\ UNCHANGED <<connecting, page, jobs, worker,
                                                          attempts>>
      <3>1. FALSE \in BOOLEAN /\ UNCHANGED <<jobs, stage, host, attempts>> /\ page' = page
            /\ worker' = worker
        BY <2>1, <2>3
      <3>2. ~connecting'
        BY <2>1, <2>3 DEF CoreInv, ServiceInv
      <3> QED BY <2>1, <2>3, <3>1, <3>2, SettleCore
    <2> QED BY <2>1, <2>2, <2>3
  <1>5. CASE PairingOther \/ AppsEvent
    <2>1. /\ Prepared /\ Acknowledge /\ Dispatched /\ page.name \in {"pairing", "apps"}
          /\ \E failed \in BOOLEAN : Settle(AfterPrepare, failed)
          /\ UNCHANGED <<jobs, stage, host, attempts>> /\ page' = page /\ worker' = worker
          /\ connecting' = connecting
      <3>1. CASE PairingOther
        BY <3>1 DEF PairingOther
      <3>2. CASE AppsEvent
        <4> DEFINE own == held.event.type \in {"APPLICATIONS_FAILED", "STREAM_STARTED"}
        <4>1. Settle(AfterPrepare, FALSE) \/ Settle(AfterPrepare, own)
          BY <3>2, Zenon DEF AppsEvent
        <4>2. own \in BOOLEAN
          OBVIOUS
        <4>3. /\ Prepared /\ Acknowledge /\ Dispatched /\ page.name = "apps"
              /\ UNCHANGED <<jobs, stage, host, attempts>> /\ page' = page /\ worker' = worker
              /\ connecting' = connecting
          BY <3>2 DEF AppsEvent
        <4> HIDE DEF own
        <4> QED BY <4>1, <4>2, <4>3
      <3> QED BY <1>5, <3>1, <3>2
    <2>2. ~connecting'
      BY <2>1 DEF CoreInv, ServiceInv
    <2>3. PICK failed \in BOOLEAN : Settle(AfterPrepare, failed)
      BY <2>1
    <2> QED BY <2>1, <2>2, <2>3, SettleCore
  <1> QED BY <1>1, <1>2, <1>3, <1>4, <1>5 DEF Dispatch

-----------------------------------------------------------------------------
LEMMA CoreInit == Init => CoreInv
  <1> SUFFICES ASSUME Init PROVE CoreInv
    OBVIOUS
  <1> USE DEF Init
  <1>1. TypeInv
    BY DEF TypeInv
  <1>2. ServiceInv /\ JobsInv /\ HeldInv
    BY DEF ServiceInv, JobsInv, HeldInv, Asked, NoOp
  <1>3. QueueInv
    BY DEF QueueInv, InOrder, Queued, Elems
  <1> QED BY <1>1, <1>2, <1>3 DEF CoreInv

LEMMA CoreStep == CoreInv /\ [Next]_vars => CoreInv'
  <1> SUFFICES ASSUME CoreInv, [Next]_vars PROVE CoreInv'
    OBVIOUS
  <1>1. CASE UNCHANGED vars
    <2> USE <1>1 DEF vars, service, thread, host, task, pages, history
    <2>1. TypeInv' /\ ServiceInv'
      BY DEF CoreInv, TypeInv, ServiceInv, Asked
    <2>2. JobsInv' /\ HeldInv'
      BY DEF CoreInv, JobsInv, HeldInv, Asked, PairJobs
    <2>3. QueueInv'
      BY DEF CoreInv, QueueInv, Queued, Waits, Asked, HasPair, Job
    <2> QED BY <2>1, <2>2, <2>3 DEF CoreInv
  <1>2. CASE Next
    BY <1>2, MessagesCore, SelectHostCore, StartedCore, ClosePageCore, JobAnswersCore,
       JobRecordsCore, PairJobCore, PairJobAnswersCore, SessionCore, PeekCore, DispatchCore
       DEF Next, JobStep
  <1> QED BY <1>1, <1>2

LEMMA CoreInvHolds == Spec => []CoreInv
  BY CoreInit, CoreStep, PTL DEF Spec

-----------------------------------------------------------------------------
(* Yes starts the selected application only while the message on screen    *)
(* asks whether to quit the running one (DialogPollTask,                   *)
(* m_confirm_application_id).                                              *)
THEOREM YesAnswersQuestion == Spec => []ConfirmMatchesQuestion
  <1>1. CoreInv => ConfirmMatchesQuestion
    BY DEF CoreInv, ServiceInv, ConfirmMatchesQuestion
  <1> QED BY <1>1, CoreInvHolds, PTL

(* Pairing::OnMoonlightEvent only hears of the attempt it shows, whatever  *)
(* the job of an abandoned attempt still pushes.                           *)
THEOREM PairingPageHearsItsAttempt == Spec => []PairingResultOwned
  <1>1. CoreInv => PairingResultOwned
    <2> SUFFICES ASSUME CoreInv, page.name = "pairing",
                        held.event.type \in {"PAIRING_FINISHED", "PAIRING_FAILED"}
                 PROVE  held.event.id = page.id
      BY DEF PairingResultOwned
    <2>1. held # Nothing /\ held.event.type \in PairTypes /\ held.event.type \notin JobTypes
      BY DEF Nothing, Ev, PairTypes, JobTypes
    <2> QED BY <2>1, HeldFacts DEF Waits
  <1> QED BY <1>1, CoreInvHolds, PTL

(* What GetCompletedJobEvent makes up and what the job pushed are never    *)
(* both dispatched: no event of an answered operation waits.               *)
THEOREM OneAnswerEach == Spec => []AnsweredOnce
  <1>1. CoreInv => AnsweredOnce
    <2> SUFFICES ASSUME CoreInv, NEW i \in DOMAIN queue, queue[i].type \in JobTypes
                 PROVE  queue[i].id \notin answered
      BY DEF AnsweredOnce, JobTypes
    <2>1. Waits(queue[i])
      BY DEF CoreInv, QueueInv, Queued, Elems
    <2> QED BY <2>1 DEF CoreInv, ServiceInv, Waits
  <1> QED BY <1>1, CoreInvHolds, PTL

-----------------------------------------------------------------------------
(* Sessions: what a step can do to one and to the events that wait of it.  *)

StreamEvents == {e \in Queued : e.type \in StreamTypes}

(* A step that has nothing to do with sessions.                            *)
Quiet ==
    /\ UNCHANGED <<operation, session, stream_open, page, unseen>>
    /\ confirm' => confirm
    /\ StreamEvents' = StreamEvents
    /\ StreamEvents' # {} => (Settled' => Settled)

(* A step of a page without a session, or under which there is none.       *)
Elsewhere ==
    /\ page.name # "apps" \/ ~stream_open
    /\ operation.kind # "Launch" /\ operation'.kind # "Launch"
    /\ UNCHANGED <<session, stream_open, unseen>>
    /\ StreamEvents' \subseteq StreamEvents
    /\ Settled' => Settled

(* StartConfirmed succeeds.                                                *)
Launched ==
    /\ operation = NoOp /\ page.name = "apps" /\ ~in_task /\ session.st = "none"
    /\ ~stream_open \/ confirm
    /\ attempts \in Nat /\ attempts' = attempts + 1
    /\ operation' = [kind |-> "Launch", id |-> attempts + 1]
    /\ session' = [st |-> "starting", id |-> attempts + 1]
    /\ ~confirm'
    /\ UNCHANGED <<queue, in_task, stream_open, page, unseen>>

(* The session owner reports.                                              *)
Reported ==
    /\ UNCHANGED <<operation, confirm, stream_open, page, unseen, in_task>>
    /\ session.st # "none"
    /\ \E e \in Events :
         /\ e.type \in StreamTypes /\ e.id = session.id
         /\ queue' = Push(queue, e)
         /\ \/ /\ session.st = "starting" /\ session' = [st |-> "running", id |-> session.id]
               /\ e.type = "STREAM_STARTED"
            \/ /\ session.st = "starting" /\ session' = [st |-> "none", id |-> 0]
               /\ e.type \in {"STREAM_FAILED", "STREAM_CONFLICT"}
            \/ /\ session.st = "running" /\ session' = [st |-> "none", id |-> 0]
               /\ e.type = "STREAM_STOPPED"

LEMMA StreamEventsAre ==
    ASSUME CoreInv, NEW e \in Events, e.type \notin StreamTypes
    PROVE  {f \in Elems(Push(queue, e)) : f.type \in StreamTypes} = StreamEvents
  <1>1. Elems(queue) \subseteq Elems(Push(queue, e))
        /\ Elems(Push(queue, e)) \subseteq Elems(queue) \cup {e}
    BY PushElems DEF CoreInv, TypeInv
  <1> QED BY <1>1 DEF StreamEvents, Queued

(* The job thread, the dialog poll and the loop of ProcessEventTask.       *)
LEMMA QuietSteps ==
    ASSUME CoreInv, \/ SelectHostFails \/ SelectAppFails \/ OpenError \/ CloseError
                    \/ (ConfirmYes /\ ~StartConfirmed)
                    \/ JobStep \/ Peek \/ TaskReturns \/ Retain \/ UNCHANGED vars
    PROVE  Quiet
  <1> USE DEF vars, service, thread, host, task, history, pages
  <1>1. CASE JobAnswers
    <2>1. /\ UNCHANGED <<operation, session, stream_open, page, unseen, confirm, in_task>>
          /\ jobs = <<operation>> /\ Job = operation /\ Asked
      BY <1>1, RunningJob DEF JobAnswers
    <2>2. PICK type \in JobTypes : queue' = Push(queue, Ev(type, operation.id))
      BY <1>1, <2>1, Zenon DEF JobAnswers, JobTypes
    <2>3. Ev(type, operation.id) \in Events /\ Ev(type, operation.id).type \notin StreamTypes
      BY <2>1 DEF Ev, Events, Types, JobTypes, StreamTypes, StartTypes, Asked, CoreInv,
                  TypeInv, NoOp
    <2>4. StreamEvents' = StreamEvents
      BY <2>2, <2>3, StreamEventsAre DEF StreamEvents, Queued
    <2>5. Settled' = Settled
      BY <2>1 DEF Settled, Asked
    <2> QED BY <2>1, <2>4, <2>5 DEF Quiet
  <1>2. CASE PairJobAnswers
    <2>1. /\ UNCHANGED <<operation, session, stream_open, page, unseen, confirm, in_task>>
          /\ Job.id \in 1..attempts /\ attempts \in Nat
      BY <1>2, RunningJob DEF PairJobAnswers, PairJobs, CoreInv, TypeInv
    <2>2. PICK type \in PairTypes : queue' = Push(queue, Ev(type, Job.id))
      BY <1>2 DEF PairJobAnswers, PairTypes
    <2>3. Ev(type, Job.id) \in Events /\ Ev(type, Job.id).type \notin StreamTypes
      BY <2>1 DEF Ev, Events, Types, PairTypes, StreamTypes, StartTypes
    <2>4. StreamEvents' = StreamEvents
      BY <2>2, <2>3, StreamEventsAre DEF StreamEvents, Queued
    <2>5. Settled' = Settled
      BY <2>1 DEF Settled, Asked
    <2> QED BY <2>1, <2>4, <2>5 DEF Quiet
  <1>3. CASE JobNotAdmitted \/ JobRecords \/ PairJobQuits \/ PairJobDecides \/ UNCHANGED vars
    <2>1. UNCHANGED <<operation, session, stream_open, page, unseen, confirm, in_task, queue>>
      BY <1>3 DEF JobNotAdmitted, JobRecords, PairJobQuits, PairJobDecides
    <2> QED BY <2>1 DEF Quiet, StreamEvents, Queued, Settled, Asked
  <1>4. CASE SelectHostFails \/ SelectAppFails \/ OpenError \/ CloseError \/ (ConfirmYes /\ ~StartConfirmed)
    <2>1. /\ UNCHANGED <<operation, session, stream_open, page, unseen, in_task, queue>>
          /\ confirm' => confirm
      BY <1>4 DEF SelectHostFails, SelectAppFails, OpenError, CloseError, ConfirmYes
    <2> QED BY <2>1 DEF Quiet, StreamEvents, Queued, Settled, Asked
  <1>5. CASE Peek \/ TaskReturns \/ Retain
    <2>1. UNCHANGED <<operation, session, stream_open, page, unseen, confirm, queue>>
      BY <1>5 DEF Peek, TaskReturns, Retain
    <2>2. StreamEvents' = StreamEvents
      BY <2>1 DEF StreamEvents, Queued
    <2>3. CASE Peek
      BY <2>1, <2>2, <2>3 DEF Quiet, Peek, Settled, Asked
    <2>4. CASE TaskReturns
      <3>1. StreamEvents = {}
        BY <2>4 DEF TaskReturns, StreamEvents, Queued, Elems
      <3> QED BY <2>1, <2>2, <3>1 DEF Quiet
    <2>5. CASE Retain
      <3>1. Asked
        BY <2>5 DEF Retain, Completing, Completes, Asked
      <3> QED BY <2>1, <2>2, <3>1 DEF Quiet, Settled
    <2> QED BY <1>5, <2>3, <2>4, <2>5
  <1> QED BY <1>1, <1>2, <1>3, <1>4, <1>5 DEF JobStep

(* The Main and the pairing page, and leaving a page.                      *)
LEMMA ElsewhereSteps ==
    ASSUME CoreInv, \/ SelectHost \/ ClosePage
                    \/ MainReadyPaired \/ MainReadyUnpaired \/ MainOther
                    \/ PairingFinished \/ PairingOther
    PROVE  Elsewhere
  <1> USE DEF vars, service, thread, host, task, history, pages
  <1>1. CASE SelectHost
    <2>1. /\ operation = NoOp /\ operation'.kind = "Connect" /\ page.name = "main"
          /\ UNCHANGED <<session, stream_open, unseen, queue>>
      BY <1>1 DEF SelectHost, IsBusy, Begin
    <2> QED BY <2>1 DEF Elsewhere, StreamEvents, Queued, Settled, NoOp
  <1>2. CASE ClosePage
    <2>1. /\ ~stream_open /\ UNCHANGED <<operation, session, stream_open, unseen, queue>>
          /\ ~in_task /\ (operation = NoOp \/ page.name = "pairing")
      BY <1>2, Zenon DEF ClosePage, MainIdle, IsBusy
    <2>2. operation.kind # "Launch"
      BY <2>1 DEF CoreInv, ServiceInv, NoOp
    <2> QED BY <2>1, <2>2 DEF Elsewhere, StreamEvents, Queued, Settled
  <1>3. CASE \/ MainReadyPaired \/ MainReadyUnpaired \/ MainOther
             \/ PairingFinished \/ PairingOther
    <2>1. /\ Prepared /\ page.name # "apps" /\ UNCHANGED <<session, stream_open, unseen>>
      BY <1>3 DEF MainReadyPaired, MainReadyUnpaired, MainOther, PairingFinished, PairingOther
    <2>2. operation.kind # "Launch"
      BY <2>1 DEF CoreInv, ServiceInv
    <2>3. \/ queue' = Rest
          \/ queue' = Push(Rest, Ev("PAIRING_REQUIRED", attempts + 1))
      BY <1>3, Zenon DEF MainReadyPaired, MainReadyUnpaired, MainOther, PairingFinished,
                         PairingOther,
                         Acknowledge, Rest, Number
    <2>4. \/ operation' = AfterPrepare.op
          \/ operation' = [kind |-> "Applications", id |-> attempts + 1]
      BY <1>3, Zenon DEF MainReadyPaired, MainReadyUnpaired, MainOther, PairingFinished,
                         PairingOther,
                         OpenApps, Settle, Begin, Number
    <2>5. operation'.kind # "Launch"
      BY <2>2, <2>4, ServiceAfter DEF NoOp
    <2>6. Rest \in Seq(Events) /\ Elems(Rest) \subseteq Queued
      BY <2>1, PreparedFacts, HeldFacts
    <2>7. StreamEvents' \subseteq StreamEvents
      <3>1. Ev("PAIRING_REQUIRED", attempts + 1) \in Events
        BY DEF Ev, Events, Types, CoreInv, TypeInv
      <3>2. Ev("PAIRING_REQUIRED", attempts + 1).type \notin StreamTypes
        BY DEF Ev, StreamTypes, StartTypes
      <3>3. Queued' \subseteq Elems(Rest) \cup {Ev("PAIRING_REQUIRED", attempts + 1)}
        BY <2>3, <2>6, <3>1, PushElems DEF Queued
      <3> QED BY <2>6, <3>2, <3>3 DEF StreamEvents
    <2> QED BY <2>1, <2>2, <2>5, <2>7 DEF Elsewhere, Settled
  <1> QED BY <1>1, <1>2, <1>3

LEMMA LaunchSteps ==
    ASSUME CoreInv, SelectApp \/ (ConfirmYes /\ StartConfirmed)
    PROVE  Launched
  <1>1. /\ operation = NoOp /\ page.name = "apps" /\ ~in_task /\ (~stream_open \/ confirm)
        /\ UNCHANGED <<queue, in_task, stream_open, page, unseen>>
        /\ ~confirm' /\ StartConfirmed
    BY DEF SelectApp, ConfirmYes, IsBusy, MainIdle, CoreInv, ServiceInv, task, pages
  <1>2. attempts \in Nat
    BY DEF CoreInv, TypeInv
  <1> QED BY <1>1, <1>2 DEF Launched, StartConfirmed, NewAttempt, Number, Begin

LEMMA ReportSteps ==
    ASSUME CoreInv, SessionStarts \/ SessionEnds
    PROVE  Reported
  <1>1. UNCHANGED <<operation, confirm, stream_open, page, unseen,
                    in_task>> /\ session.st # "none"
    BY DEF SessionStarts, SessionEnds, service, pages, history, task
  <1> QED BY <1>1, SessionEvents DEF Reported

(* Apps::OnMoonlightEvent.                                                 *)
AppsHandled ==
    /\ Prepared /\ page.name = "apps" /\ in_task /\ in_task'
    /\ operation' = IF Completing THEN NoOp ELSE operation
    /\ queue' = Rest
    /\ confirm' => confirm \/ (Completing /\ held.event.type = "STREAM_CONFLICT")
    /\ UNCHANGED <<session, page>>
    /\ \/ /\ held.event.type = "STREAM_STARTED"
          /\ stream_open' = TRUE /\ unseen' = unseen
       \/ /\ held.event.type = "STREAM_STARTED"
          /\ unseen' = unseen \cup {held.event.id}
       \/ /\ held.event.type # "STREAM_STARTED"
          /\ (stream_open' <=> stream_open /\ held.event.type # "STREAM_STOPPED")
          /\ unseen' = unseen

LEMMA AppsSteps == ASSUME CoreInv, AppsEvent PROVE AppsHandled
  <1>1. /\ Prepared /\ page.name = "apps" /\ queue' = Rest /\ in_task' = in_task
        /\ UNCHANGED <<session, page>> /\ in_task
    BY PreparedFacts, HeldFacts DEF AppsEvent, Acknowledge, Dispatched, Rest, host
  <1>2. operation' = AfterPrepare.op /\ confirm' = AfterPrepare.confirm
    BY Zenon DEF AppsEvent, Settle
  <1>3. \/ /\ held.event.type = "STREAM_STARTED"
           /\ stream_open' = TRUE /\ unseen' = unseen
        \/ /\ stream_open' = (stream_open /\ held.event.type # "STREAM_STOPPED")
           /\ unseen' = unseen \cup IF held.event.type = "STREAM_STARTED" THEN {held.event.id} ELSE {}
    BY Zenon DEF AppsEvent
  <1>4. \/ /\ held.event.type = "STREAM_STARTED"
           /\ stream_open' = TRUE /\ unseen' = unseen
        \/ /\ held.event.type = "STREAM_STARTED"
           /\ unseen' = unseen \cup {held.event.id}
        \/ /\ held.event.type # "STREAM_STARTED"
           /\ (stream_open' <=> stream_open /\ held.event.type # "STREAM_STOPPED")
           /\ unseen' = unseen
    <2>1. CASE held.event.type = "STREAM_STARTED"
      BY <1>3, <2>1
    <2>2. CASE held.event.type # "STREAM_STARTED"
      <3>1. stream_open' = (stream_open /\ held.event.type # "STREAM_STOPPED")
        BY <1>3, <2>2, Zenon
      <3>2. unseen' = unseen
        BY <1>3, <2>2
      <3> QED BY <2>2, <3>1, <3>2, Zenon
    <2> QED BY <2>1, <2>2
  <1>5. operation' = IF Completing THEN NoOp ELSE operation
    BY <1>2, ServiceAfter
  <1>6. confirm' => confirm \/ (Completing /\ held.event.type = "STREAM_CONFLICT")
    BY <1>2, ServiceAfter, Zenon
  <1>7. in_task'
    BY <1>1, Zenon
  <1> QED BY <1>1, <1>4, <1>5, <1>6, <1>7, Zenon DEF AppsHandled

LEMMA StepKinds ==
    ASSUME CoreInv, [Next]_vars
    PROVE  Quiet \/ Elsewhere \/ Launched \/ Reported \/ AppsHandled
  BY QuietSteps, ElsewhereSteps, LaunchSteps, ReportSteps, AppsSteps
     DEF Next, Dispatch

(* StreamInv.                                                              *)
LEMMA StreamQuiet ==
    ASSUME CoreInv, StreamInv, Quiet \/ Elsewhere
    PROVE  StreamInv'
  <1> SUFFICES ASSUME unseen = {} PROVE StreamInv'
    BY DEF Quiet, Elsewhere, StreamInv
  <1>1. CASE Quiet
    <2>1. \A e : e \in Queued' /\ e.type \in StreamTypes <=> e \in Queued /\ e.type \in StreamTypes
      BY <1>1 DEF Quiet, StreamEvents
    <2>2. UNCHANGED <<operation, session, stream_open, page, unseen>> /\ (confirm' => confirm)
      BY <1>1 DEF Quiet
    <2> QED BY <2>1, <2>2, Zenon DEF StreamInv, Launching
  <1>2. CASE Elsewhere
    <2>1. ~stream_open /\ \A n : ~Launching(n)
      BY <1>2 DEF Elsewhere, StreamInv, Launching
    <2>2. session.st \notin {"starting", "running"} /\ StreamEvents = {}
      BY <2>1 DEF StreamInv, StreamEvents
    <2>3. ~stream_open' /\ session'.st \notin {"starting", "running"} /\ StreamEvents' = {}
      BY <1>2, <2>1, <2>2 DEF Elsewhere
    <2> QED BY <2>3 DEF StreamInv, StreamEvents
  <1> QED BY <1>1, <1>2

LEMMA StreamLaunched == ASSUME CoreInv, StreamInv, Launched PROVE StreamInv'
  <1> SUFFICES ASSUME unseen = {} PROVE StreamInv'
    BY DEF Launched, StreamInv
  <1>1. ~stream_open /\ \A n : ~Launching(n)
    BY DEF Launched, StreamInv, Launching, NoOp
  <1>2. \A e \in Queued : e.type \notin StreamTypes
    BY <1>1 DEF StreamInv
  <1>3. Queued' = Queued /\ ~stream_open' /\ session' = [st |-> "starting", id |-> attempts + 1]
        /\ operation' = [kind |-> "Launch", id |-> attempts + 1]
    BY <1>1 DEF Launched, Queued
  <1> QED BY <1>2, <1>3 DEF StreamInv, Launching

LEMMA StreamReported == ASSUME CoreInv, StreamInv, Reported PROVE StreamInv'
  <1> SUFFICES ASSUME unseen = {} PROVE StreamInv'
    BY DEF Reported, StreamInv
  <1>1. PICK e \in Events :
          /\ e.type \in StreamTypes /\ e.id = session.id
          /\ queue' = Push(queue, e)
          /\ \/ /\ session.st = "starting" /\ session' = [st |-> "running", id |-> session.id]
                /\ e.type = "STREAM_STARTED"
             \/ /\ session.st = "starting" /\ session' = [st |-> "none", id |-> 0]
                /\ e.type \in {"STREAM_FAILED", "STREAM_CONFLICT"}
             \/ /\ session.st = "running" /\ session' = [st |-> "none", id |-> 0]
                /\ e.type = "STREAM_STOPPED"
    BY DEF Reported
  <1>2. UNCHANGED <<operation, confirm, stream_open, page, unseen>> /\ session.st # "none"
    BY DEF Reported
  <1>3. Queued' \subseteq Queued \cup {e}
    BY <1>1, PushElems DEF CoreInv, TypeInv, Queued
  <1>4. \A f \in Queued : f.type \in StreamTypes => f.type = "STREAM_STARTED" /\ Launching(f.id)
    BY <1>2 DEF StreamInv
  <1>5. stream_open => \A n : ~Launching(n)
    BY DEF StreamInv, Launching, NoOp
  <1>6. \A m, n : Launching(m) /\ Launching(n) => m = n
    BY DEF Launching
  <1>7. \A f \in Queued : f.type \in StreamTypes => f.id = e.id /\ Launching(e.id)
    BY <1>1, <1>2, <1>4, <1>5, <1>6 DEF StreamInv
  <1>8. Launching(e.id) \/ (stream_open /\ e.type = "STREAM_STOPPED")
    BY <1>1 DEF StreamInv
  <1>9. session'.st = "starting" => FALSE
    BY <1>1
  <1>10. session'.st = "running" => Launching(session'.id) /\ e.type = "STREAM_STARTED"
    BY <1>1, <1>8
  <1>11. e.type # "STREAM_STARTED" => session'.st = "none"
    BY <1>1
  <1>12. \A n : Launching(n)' <=> Launching(n)
    BY <1>2 DEF Launching
  <1>13. \A f \in Queued' : f.type \in StreamTypes =>
           /\ f.id = e.id
           /\ Launching(f.id)' \/ (stream_open' /\ f.type = "STREAM_STOPPED")
           /\ f.type # "STREAM_STARTED" => session'.st = "none"
    BY <1>2, <1>3, <1>4, <1>7, <1>8, <1>11, <1>12
  <1>14. stream_open' => operation' = NoOp /\ page'.name = "apps" /\ ~confirm'
    BY <1>2 DEF StreamInv
  <1> QED BY <1>9, <1>10, <1>12, <1>13, <1>14 DEF StreamInv

LEMMA StreamHandled == ASSUME CoreInv, StreamInv, AppsHandled PROVE StreamInv'
  <1> SUFFICES ASSUME unseen' = {} PROVE StreamInv'
    BY DEF StreamInv
  <1>1. unseen = {} /\ held # Nothing /\ Queued' = Elems(Rest) /\ session' = session /\ page' = page
    BY PreparedFacts DEF AppsHandled, Queued
  <1>2. Elems(Rest) \subseteq Queued /\ \A f \in Elems(Rest) : Before(held.event, f)
    BY <1>1, HeldFacts
  <1>3. held.event.type \in StreamTypes => held.event \in Queued /\ Waits(held.event)
    BY <1>1, HeldFacts DEF JobTypes, StreamTypes, StartTypes
  <1>4. \A m, n : Launching(m) /\ Launching(n) => m = n
    BY DEF Launching
  <1>5. \A n : Launching(n) => operation.kind = "Launch" /\ operation # NoOp
    BY DEF Launching, NoOp
  <1>6. CASE held.event.type \in StreamTypes
    <2>1. /\ Launching(held.event.id) \/ (stream_open /\ held.event.type = "STREAM_STOPPED")
          /\ held.event.type # "STREAM_STARTED" => session.st = "none"
          /\ \A f \in Elems(Rest) : f.type \in StreamTypes => f.id = held.event.id
      BY <1>1, <1>2, <1>3, <1>6 DEF StreamInv
    <2>2. \A f \in Elems(Rest) : f.type \in StreamTypes =>
            held.event.type = "STREAM_STARTED" /\ f.type = "STREAM_STOPPED"
      BY <1>2, <1>6, <2>1 DEF Before
    <2>3. operation' = NoOp
      <3>1. CASE Launching(held.event.id)
        BY <1>5, <1>6, <3>1, PreparedFacts DEF AppsHandled
      <3>2. CASE stream_open
        BY <1>1, <3>2 DEF StreamInv, AppsHandled
      <3> QED BY <2>1, <3>1, <3>2
    <2>4. CASE held.event.type = "STREAM_STARTED"
      <3>1. Launching(held.event.id) /\ ~confirm
        BY <1>5, <2>1, <2>4 DEF CoreInv, ServiceInv
      <3>2. stream_open' /\ ~confirm' /\ page'.name = "apps"
        BY <1>1, <2>4, <3>1 DEF AppsHandled
      <3>3. session.st = "running" => stream_open'
        BY <3>2
      <3>4. session.st # "starting"
        <4>1. session.st = "starting" => session.id = held.event.id
          BY <1>1, <1>4, <3>1 DEF StreamInv
        <4> QED BY <1>3, <1>6, <4>1 DEF Waits
      <3>5. \A f \in Elems(Rest) : f.type \in StreamTypes => session.st = "none"
        BY <1>1, <1>2, <2>2 DEF StreamInv
      <3> QED BY <1>1, <2>1, <2>2, <2>3, <3>2, <3>4, <3>5 DEF StreamInv
    <2>5. CASE held.event.type # "STREAM_STARTED"
      <3>1. session'.st = "none" /\ \A f \in Elems(Rest) : f.type \notin StreamTypes
        BY <1>1, <2>1, <2>2, <2>5
      <3>2. ~stream_open'
        <4>1. CASE Launching(held.event.id)
          BY <1>1, <1>5, <2>5, <4>1 DEF StreamInv, AppsHandled
        <4>2. CASE held.event.type = "STREAM_STOPPED"
          BY <4>2, <2>5 DEF AppsHandled
        <4> QED BY <2>1, <4>1, <4>2
      <3> QED BY <1>1, <3>1, <3>2 DEF StreamInv
    <2> QED BY <2>4, <2>5
  <1>7. CASE held.event.type \notin StreamTypes
    <2>1. held.event.type \notin {"STREAM_STARTED", "STREAM_STOPPED", "STREAM_CONFLICT"}
      BY <1>7 DEF StreamTypes, StartTypes
    <2>2. (stream_open' <=> stream_open) /\ (confirm' => confirm)
      BY <2>1 DEF AppsHandled
    <2>3. Completing => operation.kind # "Launch"
      BY <1>7, PreparedFacts DEF AppsHandled
    <2>4. \A n : Launching(n)' <=> Launching(n)
      <3>1. CASE Completing
        BY <1>5, <2>3, <3>1 DEF Launching, NoOp, AppsHandled
      <3>2. CASE ~Completing
        BY <3>2 DEF Launching, AppsHandled
      <3> QED BY <3>1, <3>2
    <2>5. stream_open => operation' = NoOp
      BY <1>1 DEF StreamInv, AppsHandled
    <2>6. \A f \in Queued' : f \in Queued
      BY <1>1, <1>2
    <2> QED BY <1>1, <2>2, <2>4, <2>5, <2>6, Zenon DEF StreamInv
  <1> QED BY <1>6, <1>7

LEMMA StreamInvHolds == Spec => []StreamInv
  <1>1. Init => StreamInv
    BY DEF Init, StreamInv, Queued, Elems
  <1>2. CoreInv /\ StreamInv /\ [Next]_vars => StreamInv'
    BY StepKinds, StreamQuiet, StreamLaunched, StreamReported, StreamHandled
  <1> QED BY <1>1, <1>2, CoreInvHolds, PTL DEF Spec

(* PrepareCompletion takes an event for the answer to the operation in     *)
(* progress only when it is that operation's, as long as page_stream       *)
(* opened on every announced session.                                      *)
THEOREM CompletionIsOwn == Spec => []CompletionOwned
  <1>1. CoreInv /\ StreamInv => CompletionOwned
    <2> SUFFICES ASSUME CoreInv, StreamInv, held # Nothing, Completing,
                        ~(operation.kind = "Launch" /\ unseen # {})
                 PROVE  held.event.id = operation.id
      BY DEF CompletionOwned
    <2>1. CASE held.event.type \in JobTypes
      BY <2>1, HeldFacts
    <2>2. CASE held.event.type \notin JobTypes
      <3>1. operation.kind = "Launch" /\ held.event.type \in StreamTypes /\ unseen = {}
        BY <2>2 DEF Completing, Completes, JobTypes, StreamTypes, StartTypes
      <3>2. Launching(held.event.id) \/ operation = NoOp
        BY <2>2, <3>1, HeldFacts DEF StreamInv
      <3> QED BY <3>1, <3>2 DEF Launching, NoOp
    <2> QED BY <2>1, <2>2
  <1> QED BY <1>1, CoreInvHolds, StreamInvHolds, PTL

(* Of any two waiting events one is in the first slot and one in the       *)
(* second: the answer to a question, and what ended after it.              *)
Slot(e) == IF e.type \in PairTypes \cup {"STREAM_STOPPED"} THEN 2 ELSE 1

LEMMA SlotsDiffer ==
    ASSUME CoreInv, StreamInv, unseen = {},
           NEW i \in 1..Len(queue), NEW j \in 1..Len(queue), i < j
    PROVE  Slot(queue[i]) # Slot(queue[j])
  <1> DEFINE e == queue[i]
             f == queue[j]
  <1>1. e \in Queued /\ f \in Queued /\ Before(e, f)
    BY DEF CoreInv, QueueInv, InOrder, TypeInv, Queued, Elems
  <1>2. Waits(e) /\ Waits(f) /\ e.type \in Types /\ f.type \in Types
    BY <1>1, ElemsAre DEF CoreInv, QueueInv, TypeInv, Queued, Events
  <1> SUFFICES Slot(e) # Slot(f)
    OBVIOUS
  <1> HIDE DEF e, f
  <1>3. /\ e.type \in StreamTypes => \/ operation.kind = "Launch" /\ page.name = "apps"
                                     \/ /\ operation = NoOp /\ page.name = "apps"
                                        /\ e.type = "STREAM_STOPPED"
        /\ f.type \in StreamTypes => \/ operation.kind = "Launch" /\ page.name = "apps"
                                     \/ /\ operation = NoOp /\ page.name = "apps"
                                        /\ f.type = "STREAM_STOPPED"
    BY <1>1 DEF StreamInv, Launching, CoreInv, ServiceInv
  <1>4. e.type \in StreamTypes /\ f.type \in StreamTypes =>
          e.type = "STREAM_STARTED" /\ f.type = "STREAM_STOPPED"
    BY <1>1 DEF StreamInv, Before
  <1>5. CASE e.type \in StreamTypes /\ f.type \in StreamTypes
    BY <1>4, <1>5 DEF Slot, PairTypes
  <1>6. CASE e.type \in StreamTypes /\ f.type \notin StreamTypes
    BY <1>2, <1>3, <1>6 DEF Slot, Waits, Types, JobTypes, PairTypes, StreamTypes,
                            StartTypes, Asked, NoOp
  <1>7. CASE e.type \notin StreamTypes /\ f.type \in StreamTypes
    BY <1>2, <1>3, <1>7 DEF Slot, Waits, Types, JobTypes, PairTypes, StreamTypes,
                            StartTypes, Asked, NoOp
  <1>8. CASE e.type \notin StreamTypes /\ f.type \notin StreamTypes
    BY <1>1, <1>2, <1>8 DEF Slot, Waits, Before, Types, JobTypes, PairTypes, StreamTypes,
                            StartTypes, Asked, NoOp
  <1> QED BY <1>5, <1>6, <1>7, <1>8

(* The workflow needs two entries of the sixteen the ring has.             *)
THEOREM TwoEventsAtMost == Spec => []WorkflowFitsRing
  <1>1. CoreInv /\ StreamInv => WorkflowFitsRing
    <2> SUFFICES ASSUME CoreInv, StreamInv, unseen = {} PROVE Len(queue) <= 2
      BY DEF WorkflowFitsRing
    <2>1. Len(queue) \in Nat
      BY DEF CoreInv, TypeInv
    <2>2. ASSUME Len(queue) > 2 PROVE FALSE
      <3>1. 1 \in 1..Len(queue) /\ 2 \in 1..Len(queue) /\ 3 \in 1..Len(queue)
        BY <2>1, <2>2
      <3>2. /\ Slot(queue[1]) # Slot(queue[2]) /\ Slot(queue[1]) # Slot(queue[3])
            /\ Slot(queue[2]) # Slot(queue[3])
        BY <3>1, SlotsDiffer
      <3>3. \A e : Slot(e) \in {1, 2}
        BY DEF Slot
      <3> QED BY <3>2, <3>3
    <2> QED BY <2>1, <2>2
  <1> QED BY <1>1, CoreInvHolds, StreamInvHolds, PTL

-----------------------------------------------------------------------------
(* Whoever waits is answered.                                              *)
LEMMA SessionsInvHolds == Spec => []SessionsInv
  <1>1. Init => SessionsInv
    <2> SUFFICES ASSUME Init PROVE SessionsAre(0, 0)
      BY DEF SessionsInv
    <2> QED BY DEF Init, SessionsAre, Queued, Elems, NoOp
  <1>2. CoreInv /\ StreamInv /\ SessionsInv /\ [Next]_vars => SessionsInv'
    <2> SUFFICES ASSUME CoreInv, StreamInv, SessionsInv, [Next]_vars PROVE SessionsInv'
      OBVIOUS
    <2>1. PICK old \in Nat, new \in Nat : SessionsAre(old, new)
      BY DEF SessionsInv
    <2>2. CASE Quiet
      <3>1. StreamEvents' = StreamEvents /\ UNCHANGED <<operation, session, unseen>>
            /\ (StreamEvents # {} => (Settled' => Settled))
        BY <2>2 DEF Quiet
      <3>2. \A e \in Queued' : e.type \in StreamTypes =>
              e \in Queued /\ (Settled' => Settled)
        BY <3>1 DEF StreamEvents
      <3>3. SessionsAre(old, new)'
        BY <2>1, <3>1, <3>2 DEF SessionsAre
      <3> QED BY <3>3 DEF SessionsInv
    <2>3. CASE Elsewhere
      <3>1. \A e \in Queued' : e.type \in StreamTypes => e \in Queued
        BY <2>3 DEF Elsewhere, StreamEvents
      <3>2. SessionsAre(old, new)'
        BY <2>1, <2>3, <3>1 DEF SessionsAre, Elsewhere
      <3> QED BY <3>2 DEF SessionsInv
    <2>4. CASE Launched
      <3>1. Settled /\ ~Settled' /\ Queued' = Queued /\ unseen' = unseen
        BY <2>4 DEF Launched, Settled, Asked, NoOp, Queued
      <3>2. \A e \in Queued : e.type \in StreamTypes => e.id = new /\ unseen # {}
        <4>1. unseen = {} => ~stream_open /\ \A n : ~Launching(n)
          BY <2>4 DEF Launched, StreamInv, Launching, NoOp
        <4> QED BY <2>1, <3>1, <4>1 DEF SessionsAre, StreamInv
      <3>3. PICK n \in Nat : n = attempts + 1
        BY <2>4 DEF Launched
      <3>4. /\ session' = [st |-> "starting", id |-> n]
            /\ operation' = [kind |-> "Launch", id |-> n]
        BY <2>4, <3>3 DEF Launched
      <3>5. SessionsAre(new, n)'
        BY <3>1, <3>2, <3>4 DEF SessionsAre
      <3> QED BY <3>5 DEF SessionsInv
    <2>5. CASE Reported
      <3>1. PICK e \in Events : /\ e.type \in StreamTypes /\ e.id = session.id
                                /\ queue' = Push(queue, e)
        BY <2>5 DEF Reported
      <3>2. Queued' \subseteq Queued \cup {e}
        BY <3>1, PushElems DEF CoreInv, TypeInv, Queued
      <3>3. session'.st # "none" => session'.id = session.id
        BY <2>5 DEF Reported
      <3>4. UNCHANGED <<operation, unseen>> /\ Settled' = Settled /\ session.st # "none"
        BY <2>5 DEF Reported, Settled, Asked
      <3>5. SessionsAre(old, new)'
        BY <2>1, <3>1, <3>2, <3>3, <3>4 DEF SessionsAre
      <3> QED BY <3>5 DEF SessionsInv
    <2>6. CASE AppsHandled
      <3>1. Queued' \subseteq Queued
        BY <2>6, PreparedFacts, HeldFacts DEF AppsHandled, Queued
      <3>2. operation' = operation \/ operation' = NoOp
        BY <2>6 DEF AppsHandled
      <3>3. Settled' => Settled
        BY <2>6, <3>2 DEF AppsHandled, Settled, Asked, NoOp
      <3>4. unseen \subseteq unseen' /\ session' = session
        BY <2>6 DEF AppsHandled
      <3>5. SessionsAre(old, new)'
        BY <2>1, <3>1, <3>2, <3>3, <3>4 DEF SessionsAre, NoOp
      <3> QED BY <3>5 DEF SessionsInv
    <2> QED BY <2>2, <2>3, <2>4, <2>5, <2>6, StepKinds
  <1> QED BY <1>1, <1>2, CoreInvHolds, StreamInvHolds, PTL DEF Spec

(* While a session is starting, only the two events of the session before  *)
(* it can wait, so that its own answer finds room.                         *)
LEMMA RoomToAnswer ==
    ASSUME CoreInv, SessionsInv, operation.kind = "Launch", session.st = "starting"
    PROVE  Len(queue) <= 2
  <1>1. PICK old \in Nat, new \in Nat : SessionsAre(old, new)
    BY DEF SessionsInv
  <1>2. operation # NoOp /\ ~Asked /\ page.name = "apps" /\ Len(queue) \in Nat
    BY DEF NoOp, Asked, CoreInv, ServiceInv, TypeInv
  <1>3. ASSUME NEW i \in 1..Len(queue) PROVE queue[i].type \in StreamTypes /\ queue[i].id = old
    <2>1. queue[i] \in Queued /\ Waits(queue[i]) /\ queue[i].type \in Types
      <3>1. queue[i] \in Queued /\ queue \in Seq(Events)
        BY <1>3, ElemsAre DEF CoreInv, TypeInv, Queued
      <3> QED BY <3>1, ElemsAre DEF CoreInv, QueueInv, Queued, Events
    <2>2. queue[i].type \in StreamTypes
      BY <1>2, <2>1 DEF Waits, Types
    <2>3. queue[i].id # new
      BY <1>1, <2>1, <2>2 DEF Waits, SessionsAre
    <2> QED BY <1>1, <2>1, <2>2, <2>3 DEF SessionsAre
  <1>4. ASSUME Len(queue) > 2 PROVE FALSE
    <2>1. 1 \in 1..Len(queue) /\ 2 \in 1..Len(queue) /\ 3 \in 1..Len(queue)
      BY <1>2, <1>4
    <2>2. Before(queue[1], queue[2]) /\ Before(queue[2], queue[3])
      BY <2>1 DEF CoreInv, QueueInv, InOrder
    <2>3. /\ queue[1].type \in StreamTypes /\ queue[2].type \in StreamTypes
          /\ queue[3].type \in StreamTypes
          /\ queue[1].id = old /\ queue[2].id = old /\ queue[3].id = old
      BY <1>3, <2>1
    <2> QED BY <2>2, <2>3 DEF Before
  <1> QED BY <1>2, <1>4

LEMMA LaunchAnsweredStep ==
    ASSUME Capacity >= 3, CoreInv, SessionsInv, LaunchAnswered, [Next]_vars
    PROVE  LaunchAnswered'
  <1>1. CASE Quiet
    <2>1. UNCHANGED <<operation,
                      session>> /\ \A e \in Queued : e.type \in StreamTypes => e \in Queued'
      BY <1>1 DEF Quiet, StreamEvents
    <2>2. StartTypes \subseteq StreamTypes
      BY DEF StreamTypes
    <2> QED BY <2>1, <2>2 DEF LaunchAnswered
  <1>2. CASE Elsewhere
    BY <1>2 DEF Elsewhere, LaunchAnswered
  <1>3. CASE Launched
    BY <1>3 DEF Launched, LaunchAnswered
  <1>4. CASE Reported
    <2> SUFFICES ASSUME operation.kind = "Launch" PROVE LaunchAnswered'
      BY <1>4 DEF Reported, LaunchAnswered
    <2>1. PICK e \in Events :
            /\ e.type \in StreamTypes /\ e.id = session.id
            /\ queue' = Push(queue, e)
            /\ session.st = "starting" => e.type \in {"STREAM_STARTED", "STREAM_FAILED", "STREAM_CONFLICT"}
      BY <1>4 DEF Reported
    <2>2. operation' = operation
      BY <1>4 DEF Reported
    <2>3. CASE session = [st |-> "starting", id |-> operation.id]
      <3>1. session.st = "starting" /\ session.id = operation.id
        BY <2>3
      <3>2. Len(queue) <= 2 /\ Len(queue) \in Nat
        BY <3>1, RoomToAnswer DEF CoreInv, TypeInv
      <3>3. Len(queue) < Capacity
        BY <3>2, BoundsAssumption
      <3>4. e \in Queued'
        BY <2>1, <3>3, PushElems DEF CoreInv, TypeInv, Queued
      <3> QED BY <2>1, <2>2, <3>1, <3>4 DEF LaunchAnswered, StartTypes
    <2>4. CASE \E f \in Queued : f.id = operation.id /\ f.type \in StartTypes
      <3>1. Queued \subseteq Queued'
        BY <2>1, PushElems DEF CoreInv, TypeInv, Queued
      <3> QED BY <2>2, <2>4, <3>1 DEF LaunchAnswered
    <2> QED BY <2>3, <2>4 DEF LaunchAnswered
  <1>5. CASE AppsHandled
    <2> SUFFICES ASSUME operation'.kind = "Launch" PROVE LaunchAnswered'
      BY DEF LaunchAnswered
    <2>1. ~Completing /\ operation' = operation /\ operation.kind = "Launch" /\ session' = session
      BY <1>5 DEF AppsHandled, NoOp
    <2>2. held.event.type \notin StreamTypes
      BY <1>5, <2>1, PreparedFacts DEF AppsHandled
    <2>3. Queued \subseteq Queued' \cup {held.event}
      BY <1>5, PreparedFacts, HeldFacts DEF AppsHandled, Queued
    <2>4. held.event.type \notin StartTypes
      BY <2>2 DEF StreamTypes
    <2> QED BY <2>1, <2>3, <2>4 DEF LaunchAnswered
  <1> QED BY <1>1, <1>2, <1>3, <1>4, <1>5, StepKinds

(* The wait dialog is up, or Main is waiting, only while somebody still    *)
(* owes the answer: a job to run, a result recorded, an event queued or a  *)
(* session starting.  The ring needs room for three events; it has sixteen. *)
THEOREM NobodyWaitsInVain ==
    ASSUME Capacity >= 3
    PROVE  Spec => []SomeoneWillAnswer
  <1>1. Init => LaunchAnswered
    BY DEF Init, LaunchAnswered, NoOp
  <1>2. CoreInv /\ SessionsInv /\ LaunchAnswered /\ [Next]_vars => LaunchAnswered'
    BY LaunchAnsweredStep
  <1>3. CoreInv /\ LaunchAnswered => SomeoneWillAnswer
    <2> SUFFICES ASSUME CoreInv, LaunchAnswered PROVE SomeoneWillAnswer
      OBVIOUS
    <2>1. connecting => operation.kind = "Connect"
      BY DEF CoreInv, ServiceInv
    <2>2. ASSUME progress
          PROVE  /\ operation # NoOp
                 /\ \/ worker.done /\ worker.id = operation.id
                    \/ \E i \in DOMAIN jobs : jobs[i].id = operation.id
                    \/ \E i \in DOMAIN queue :
                         queue[i].id = operation.id /\ Completes(operation.kind, queue[i].type)
                    \/ session = [st |-> "starting", id |-> operation.id]
      <3>1. operation # NoOp /\ (Asked \/ operation.kind = "Launch")
        BY <2>2 DEF CoreInv, ServiceInv, TypeInv, Asked
      <3>2. CASE Asked /\ worker.done
        BY <3>1, <3>2 DEF CoreInv, JobsInv
      <3>3. CASE Asked /\ ~worker.done
        <4>1. \/ jobs = <<operation>>
              \/ \E p \in PairJobs : jobs = <<p, operation>>
          BY <3>3 DEF CoreInv, JobsInv
        <4>2. CASE jobs = <<operation>>
          <5>1. 1 \in DOMAIN jobs /\ jobs[1].id = operation.id
            BY <4>2
          <5> QED BY <3>1, <5>1
        <4>3. ASSUME NEW p \in PairJobs, jobs = <<p, operation>>
              PROVE  \E i \in DOMAIN jobs : jobs[i].id = operation.id
          <5>1. 2 \in DOMAIN jobs /\ jobs[2].id = operation.id
            BY <4>3
          <5> QED BY <5>1
        <4> QED BY <3>1, <4>1, <4>2, <4>3
      <3>4. CASE operation.kind = "Launch"
        <4>1. CASE session = [st |-> "starting", id |-> operation.id]
          BY <3>1, <4>1
        <4>2. CASE \E e \in Queued : e.id = operation.id /\ e.type \in StartTypes
          <5>1. PICK i \in DOMAIN queue : queue[i].id = operation.id /\ queue[i].type \in StartTypes
            BY <4>2 DEF Queued, Elems
          <5>2. Completes(operation.kind, queue[i].type)
            BY <3>4, <5>1 DEF Completes, StartTypes
          <5> QED BY <3>1, <5>1, <5>2
        <4> QED BY <3>4, <4>1, <4>2 DEF LaunchAnswered
      <3> QED BY <3>1, <3>2, <3>3, <3>4
    <2> QED BY <2>1, <2>2 DEF SomeoneWillAnswer
  <1> QED BY <1>1, <1>2, <1>3, CoreInvHolds, SessionsInvHolds, PTL DEF Spec
=============================================================================
