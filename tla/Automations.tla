---------------------------- MODULE Automations ----------------------------
(***************************************************************************)
(* A timed rule of the automation engine (lib/automations.mjs): the tick   *)
(* fires it once for a record, its steps queue messages to the customer,   *)
(* and a wait step leaves the rest of the sequence in automation_pending   *)
(* for a later tick.                                                       *)
(*                                                                         *)
(* A tick is synchronous and handles rows one after the other; each row is *)
(* a step here.  Every statement commits by itself, so a process that dies *)
(* in a tick leaves a prefix of them.                                      *)
(***************************************************************************)
EXTENDS Integers, Sequences, FiniteSetsExt

CONSTANTS
    Records,     \* invoices the rule is about
    Last, Waits, \* the rule's steps 1..Last; those of Waits are waits
    Ids,         \* ids of automation_pending
    MaxRuns,     \* rows of automation_runs for a record
    MaxPresses,  \* what managers do
    MaxCrashes

Steps == 1..Last

VARIABLES
    rule,        \* "on", "off" or "deleted"
    there,       \* the record exists
    review,      \* its payment_review is set
    log,         \* automation_runs of a record, oldest first
    pending,     \* automation_pending
    queued,      \* for each record and step, the messages it put in the outbox
    repeats,     \* for each record, what has made the engine do steps again
    presses, crashes

records == <<there, review>>
vars == <<rule, records, log, pending, queued, repeats, presses, crashes>>

MaxAttempts == 3

Parked == {"orphaned", "payment_review", "failed"}
Absent == [state |-> "absent", of |-> "none", next |-> 1, attempts |-> 0, due |-> FALSE]

Row(e, next) == [state |-> "live", of |-> e, next |-> next, attempts |-> 0, due |-> FALSE]

TypeOK ==
    /\ rule \in {"on", "off", "deleted"}
    /\ there \in [Records -> BOOLEAN] /\ review \in [Records -> BOOLEAN]
    /\ \A e \in Records : log[e] \in
          Seq([status : {"ran", "error", "skipped", "retry"}, next : Steps, skip : BOOLEAN])
    /\ pending \in [Ids -> {Absent} \cup
          [state : {"live"} \cup Parked, of : Records, next : 1..(Last + 1),
           attempts : Nat, due : BOOLEAN]]
    /\ queued \in [Records -> [Steps -> Nat]] /\ repeats \in [Records -> Nat]
    /\ presses \in Nat /\ crashes \in Nat

Init ==
    /\ rule = "on"
    /\ there = [e \in Records |-> TRUE] /\ review = [e \in Records |-> FALSE]
    /\ log = [e \in Records |-> <<>>]
    /\ pending = [p \in Ids |-> Absent]
    /\ queued = [e \in Records |-> [i \in Steps |-> 0]]
    /\ repeats = [e \in Records |-> 0]
    /\ presses = 0 /\ crashes = 0

-----------------------------------------------------------------------------
(* executeActions *)

(* The step a run stops at when nothing throws: a wait, or past the end. *)
Stop(from) == Min({i \in Waits : i >= from} \cup {Last + 1})

Queues(e, ran) ==
    queued' = [queued EXCEPT ![e] = [i \in Steps |-> @[i] + (IF i \in ran THEN 1 ELSE 0)]]

(* The INSERT of a wait step. *)
WithWait(rows, e, to) ==
    IF to \notin Waits THEN rows
    ELSE [rows EXCEPT ![Min({p \in Ids : rows[p] = Absent})] = Row(e, to + 1)]

Dies ==
    /\ crashes < MaxCrashes
    /\ crashes' = crashes + 1

Logged(e, status, next, skip) ==
    log' = [log EXCEPT ![e] = Append(@, [status |-> status, next |-> next, skip |-> skip])]

-----------------------------------------------------------------------------
(* The timed triggers of tick, and runAutomation *)

(* already *)
Latched(e) == \E k \in DOMAIN log[e] : log[e][k].status \in {"ran", "error"}

(* resumeAt *)
ResumeAt(e) ==
    LET released == {k \in DOMAIN log[e] : log[e][k].status = "retry"}
    IN  IF released = {} THEN 1 ELSE log[e][Max(released)].next

(* The reserved row says "ran" until the steps are over.  Steps from..to-1   *)
(* were reached, those of skips did nothing.                                 *)
Fires(e, to, skips) ==
    LET from == ResumeAt(e)
        reached == from..(to - 1)
        idle == skips = reached /\ to \notin Waits
    IN  /\ Queues(e, reached \ skips)
        /\ \/ to = Stop(from)                       \* all of them
              /\ pending' = WithWait(pending, e, to)
              /\ Logged(e, IF idle THEN "skipped" ELSE "ran", 1, skips # {})
              /\ UNCHANGED crashes
           \/ to < Stop(from)                       \* step "to" throws
              /\ Logged(e, "error", to, skips # {})
              /\ UNCHANGED <<pending, crashes>>
           \/ Dies                                  \* the detail is still empty
              /\ Logged(e, "ran", 1, FALSE)
              /\ pending' \in {pending, IF to = Stop(from) THEN WithWait(pending, e, to) ELSE pending}

Fire(e) ==
    /\ rule = "on" /\ there[e] /\ ~review[e] /\ ~Latched(e)
    /\ Len(log[e]) < MaxRuns
    /\ \E to \in ResumeAt(e)..Stop(ResumeAt(e)) :
          \E skips \in SUBSET (ResumeAt(e)..(to - 1)) : Fires(e, to, skips)
    /\ UNCHANGED <<rule, records, repeats, presses>>

-----------------------------------------------------------------------------
(* The resumption of a waiting sequence in tick *)

\* Broken variant: a failed attempt is not written down.
TriesForgotten(row) == row.attempts

Tries(row) == row.attempts + 1

\* Broken variant: progress is only written by a wait.
ProgressLost(row, to) == row.next

(* onStep: next_index is the first step that has not been done. *)
Progress(row, to) == to

Claimed(row) == [row EXCEPT !.due = FALSE]

Ends(p, to) == pending' = WithWait([pending EXCEPT ![p] = Absent], pending[p].of, to)

Throws(p, to) ==
    LET row == pending[p]
    IN  /\ pending' = [pending EXCEPT ![p] =
              [Claimed(row) EXCEPT !.next = Progress(row, to), !.attempts = Tries(row),
                                   !.state = IF Tries(row) >= MaxAttempts THEN "failed" ELSE @]]
        /\ UNCHANGED <<log, repeats, crashes>>

(* After a step with or without its progress, after the INSERT of a wait and *)
(* before the DELETE, or after the DELETE and before the line in the log.    *)
DiesInside(p, to) ==
    LET row == pending[p]
        left(next) == [pending EXCEPT ![p] = [Claimed(row) EXCEPT !.next = next, !.attempts = Tries(row)]]
    IN  /\ Dies
        /\ \/ pending' \in {left(to), left(IF to > row.next THEN to - 1 ELSE to)}
           \/ to \in Waits /\ pending' = WithWait(left(to), row.of, to)
           \/ to = Stop(row.next) /\ Ends(p, to)
        /\ repeats' = [repeats EXCEPT ![row.of] = @ + 1]
        /\ UNCHANGED log

Continues(p) ==
    LET row == pending[p]
    IN  \E to \in row.next..Stop(row.next) :
          \E skips \in SUBSET (row.next..(to - 1)) :
            /\ Queues(row.of, (row.next..(to - 1)) \ skips)
            /\ \/ to = Stop(row.next) /\ Ends(p, to) /\ Logged(row.of, "ran", 1, skips # {})
                  /\ UNCHANGED <<repeats, crashes>>
               \/ to < Stop(row.next) /\ Throws(p, to)
               \/ DiesInside(p, to)

\* Broken variant: a review only stops rules that have not begun.
IssueUnseen(e) == FALSE

(* invoiceContextIssue *)
Issue(e) == review[e]

Left(p, state) ==
    /\ pending' = [pending EXCEPT ![p] = [Claimed(@) EXCEPT !.state = state]]
    /\ UNCHANGED <<log, queued, repeats, crashes>>

Resume(p) ==
    LET e == pending[p].of
    IN  /\ pending[p].state = "live" /\ pending[p].due
        /\ \/ rule = "off" /\ Left(p, "live")
           \/ rule = "on" /\ there[e] /\ Issue(e) /\ Left(p, "payment_review")
           \/ rule = "on" /\ ~there[e] /\ Left(p, "orphaned")
           \/ rule = "on" /\ there[e] /\ ~Issue(e) /\ Continues(p)
        /\ UNCHANGED <<rule, records, presses>>

(* The wait is over, or the five minutes of a claim. *)
FallsDue(p) ==
    /\ pending[p].state = "live" /\ ~pending[p].due
    /\ pending' = [pending EXCEPT ![p].due = TRUE]
    /\ UNCHANGED <<rule, records, log, queued, repeats, presses, crashes>>

-----------------------------------------------------------------------------
(* Managers and the rest of the shop *)

Press == presses < MaxPresses /\ presses' = presses + 1

(* POST /api/automations/pending/:id/resume *)
ResumePending(p) ==
    /\ Press /\ rule = "on" /\ pending[p] # Absent
    /\ pending' = [pending EXCEPT ![p] = [@ EXCEPT !.state = "live", !.attempts = 0, !.due = TRUE]]
    /\ UNCHANGED <<rule, records, log, queued, repeats, crashes>>

(* DELETE /api/automations/pending/:id *)
CancelPending(p) ==
    /\ Press /\ pending[p] # Absent
    /\ pending' = [pending EXCEPT ![p] = Absent]
    /\ UNCHANGED <<rule, records, log, queued, repeats, crashes>>

(* POST /api/automations/runs/:id/retry.  What is retried of a run that did  *)
(* not fail begins again at the first step.                                  *)
Retry(e, k) ==
    /\ Press /\ there[e] /\ k \in DOMAIN log[e]
    /\ log[e][k].status = "error" \/ log[e][k].skip
    /\ log' = [log EXCEPT ![e][k].status = "retry"]
    /\ repeats' = [repeats EXCEPT ![e] = @ + (IF log[e][k].status = "error" THEN 0 ELSE 1)]
    /\ UNCHANGED <<rule, records, pending, queued, crashes>>

Orphaned(rows, gone) ==
    [p \in Ids |-> IF rows[p].state = "live" /\ rows[p].of \in gone
                   THEN [rows[p] EXCEPT !.state = "orphaned"] ELSE rows[p]]

(* PUT and DELETE /api/automations/:id, with trg_pending_automation_delete *)
SetRule(to) ==
    /\ Press /\ rule # "deleted" /\ rule # to
    /\ rule' = to
    /\ pending' = IF to = "deleted" THEN Orphaned(pending, Records) ELSE pending
    /\ log' = IF to = "deleted" THEN [e \in Records |-> <<>>] ELSE log
    /\ UNCHANGED <<records, queued, repeats, crashes>>

(* With trg_runs_..._delete and trg_pending_..._delete. *)
DeleteRecord(e) ==
    /\ Press /\ there[e]
    /\ there' = [there EXCEPT ![e] = FALSE]
    /\ log' = [log EXCEPT ![e] = <<>>]
    /\ pending' = Orphaned(pending, {e})
    /\ UNCHANGED <<rule, review, queued, repeats, crashes>>

(* External: PaymentCollections and PaymentReversals set and clear it. *)
SetReview(e) ==
    /\ Press
    /\ review' = [review EXCEPT ![e] = ~@]
    /\ UNCHANGED <<rule, there, log, pending, queued, repeats, crashes>>

-----------------------------------------------------------------------------
Tick == (\E e \in Records : Fire(e)) \/ (\E p \in Ids : Resume(p))

Manage ==
    \/ \E p \in Ids : ResumePending(p) \/ CancelPending(p)
    \/ \E e \in Records : DeleteRecord(e) \/ SetReview(e) \/ (\E k \in 1..MaxRuns : Retry(e, k))
    \/ \E to \in {"on", "off", "deleted"} : SetRule(to)

Next == Tick \/ Manage \/ (\E p \in Ids : FallsDue(p))

Spec == Init /\ [][Next]_vars
=============================================================================
