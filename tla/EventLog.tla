------------------------------ MODULE EventLog ------------------------------
(***************************************************************************)
(* What the event queue promises its readers, without a ring, slots or     *)
(* sequence numbers.  Accepted events form a log.  The reader scans the    *)
(* log from left to right and is handed every position exactly once,       *)
(* except the invalidations that a later one of the same type supersedes   *)
(* before the reader gets to them.  The event handed out is held until it  *)
(* is acknowledged.                                                        *)
(***************************************************************************)
EXTENDS Integers, Sequences

CONSTANTS Ordered,    \* event types of which each occurrence matters
          Snapshot    \* event types that only say "read the snapshot again"

VARIABLES log,        \* types of the accepted events, in order of acceptance
          taken,      \* position of the last event handed to the reader
          holding     \* TRUE until the reader acknowledges position taken

vars == <<log, taken, holding>>

Init == log = << >> /\ taken = 0 /\ holding = FALSE

(* A later invalidation of the same type makes position p obsolete.        *)
Superseded(p) ==
    /\ log[p] \in Snapshot
    /\ \E q \in p + 1 .. Len(log) : log[q] = log[p]

Accept ==
    \E t \in Ordered \cup Snapshot :
        log' = Append(log, t) /\ UNCHANGED <<taken, holding>>

Take ==
    /\ ~holding
    /\ \E p \in taken + 1 .. Len(log) :
        /\ ~Superseded(p)
        /\ \A q \in taken + 1 .. p - 1 : Superseded(q)
        /\ taken' = p
    /\ holding' = TRUE
    /\ UNCHANGED log

Acknowledge == holding' = FALSE /\ UNCHANGED <<log, taken>>

Forget == log' = << >> /\ taken' = 0 /\ holding' = FALSE

Next == Accept \/ Take \/ Acknowledge \/ Forget

Spec == Init /\ [][Next]_vars
=============================================================================
