-------------------------- MODULE ImportCheckpoints --------------------------
(***************************************************************************)
(* Checkpoints of a shop's write-ahead log during imports                  *)
(* (lib/import-checkpoints.mjs, lib/import-checkpoint-worker.mjs).  While  *)
(* imports of a database run, its connection stops checkpointing by itself *)
(* and one worker thread does it after each committed batch.  Imports      *)
(* share the worker through leases; timeouts, dying workers, a connection  *)
(* that cannot be set back, the deletion of the shop and the end of the    *)
(* process may interrupt them.                                             *)
(*                                                                         *)
(* Each action is what the event loop runs without a pause: a call, a      *)
(* message of the worker or a timer, with all that the promises it         *)
(* resolves set going.                                                     *)
(***************************************************************************)
EXTENDS Naturals, FiniteSets

CONSTANTS
    Databases,  \* connections of the shops
    Imports,    \* imports, each of which runs once
    Capacity,   \* worker threads of the process (2 in the code)
    MaxFaults,  \* how often a threshold cannot be set back
    None        \* no record, no database

ASSUME CapacityAssumption ==
    /\ Capacity \in Nat /\ MaxFaults \in Nat /\ None \notin Databases
    /\ IsFiniteSet(Databases) /\ IsFiniteSet(Imports)

VARIABLES
    auto,       \* per database: whether the connection checkpoints by itself
    record,     \* per database: the manager's state, from its map
    import,     \* per import: what it waits for, and on which database
    threads,    \* per database: worker threads that hold it open, external
    shutdown,   \* per database: how far the end of the process has come
    deleted,    \* per database: the shop was removed
    faults      \* how often a threshold was not set back

vars == <<auto, record, import, threads, shutdown, deleted, faults>>

Record ==
    [leases : 0..Cardinality(Imports),
     live : BOOLEAN,        \* workerLive
     starting : BOOLEAN,    \* the startup timer runs
     ready : BOOLEAN,       \* the promise ready is resolved
     enabled : BOOLEAN,     \* the threshold is saved, and zero
     saved : BOOLEAN,       \* originalAuto: whether it was not zero
     failed : BOOLEAN, closing : BOOLEAN, terminating : BOOLEAN,
     closes : BOOLEAN,      \* closePromise is pending
     pending : BOOLEAN,     \* the pump waits for a checkpoint
     again : BOOLEAN]       \* requested since that checkpoint was sent

ASSUME RecordAssumption == None \notin Record

(* new, then: the worker's start, the callback's own work, its checkpoint,   *)
(* the callback after an error, the final checkpoint, the worker's close.    *)
Points == {"new", "ready", "run", "pass", "stop", "last", "close", "done"}

TypeOK ==
    /\ auto \in [Databases -> BOOLEAN]
    /\ record \in [Databases -> Record \cup {None}]
    /\ import \in [Imports -> [at : Points, db : Databases \cup {None}]]
    /\ threads \in [Databases -> Nat]
    /\ shutdown \in [Databases -> {"no", "pump", "close", "done"}]
    /\ deleted \in [Databases -> BOOLEAN]
    /\ faults \in Nat

NewRecord == [leases |-> 1, live |-> FALSE, starting |-> FALSE, ready |-> TRUE,
              enabled |-> FALSE, saved |-> TRUE, failed |-> FALSE, closing |-> FALSE,
              terminating |-> FALSE, closes |-> FALSE, pending |-> FALSE, again |-> FALSE]

Init ==
    /\ auto = [d \in Databases |-> TRUE]
    /\ record = [d \in Databases |-> None]
    /\ import = [i \in Imports |-> [at |-> "new", db |-> None]]
    /\ threads = [d \in Databases |-> 0]
    /\ shutdown = [d \in Databases |-> "no"]
    /\ deleted = [d \in Databases |-> FALSE]
    /\ faults = 0

Stopping == \E d \in Databases : shutdown[d] # "no"
Known(d) == record[d] # None

Workers == {d \in Databases : Known(d) /\ record[d].live}
At(point, d) == {i \in Imports : import[i] = [at |-> point, db |-> d]}

-----------------------------------------------------------------------------
(* restore, cleanup, fallback, close: what they make of a record *)

(* Setting the threshold back may fail; the tries of one handler are one. *)
Tries(r) == IF r.enabled /\ faults < MaxFaults THEN BOOLEAN ELSE {TRUE}
Restored(r, ok) == [r EXCEPT !.enabled = @ /\ ~ok]
Counted(ok) == faults' = faults + IF ok THEN 0 ELSE 1

\* Broken variant: an ended worker is taken for a threshold set back.
ForgottenByExit(r) == r.leases = 0 /\ ~r.live

(* cleanup: a record goes when nobody leases it, its worker has ended and    *)
(* its threshold is back.                                                    *)
Forgotten(r) == r.leases = 0 /\ ~r.live /\ ~r.enabled

\* Broken variant: the message that is out is left waiting.
FallenWaiting(r, ok) ==
    [Restored(r, ok) EXCEPT !.failed = TRUE, !.ready = TRUE, !.starting = FALSE,
                            !.terminating = @ \/ r.live]

(* fallback: the worker is given up, whoever waits for it goes on. *)
Fallen(r, ok) ==
    [Restored(r, ok) EXCEPT !.failed = TRUE, !.ready = TRUE, !.starting = FALSE,
                            !.pending = FALSE, !.again = FALSE,
                            !.terminating = @ \/ r.live]

Closed(r, ok) ==
    [Restored(r, ok) EXCEPT !.closing = TRUE, !.closes = IF r.closing THEN @ ELSE r.live]

(* restoreUnavailableWorker acts: no worker will take a checkpoint. *)
Unserved(r) == r.enabled /\ (r.failed \/ r.closing \/ ~r.live)

Asked(r) == r.enabled /\ ~r.failed /\ ~r.closing

(* checkpoint: join the pump, start it, or go without one. *)
Requested(r) == [r EXCEPT !.pending = TRUE, !.again = r.pending]

-----------------------------------------------------------------------------
(* The record r of d after a handler, and the promises that it resolves *)

\* Broken variant: the last import closes although another one has leased.
ClosesLeased(r) == TRUE

\* Broken variant: a worker in order is kept for the next import.
ClosesFailed(r) == r.leases = 0 /\ r.failed

(* After the final checkpoint another import may have leased the record. *)
ClosesNow(r) == r.leases = 0

Settles(r) == ~r.pending \/ Forgotten(r)
Closes(d, r) == Settles(r) /\ (shutdown[d] = "pump" \/ (At("last", d) # {} /\ ClosesNow(r)))

(* A record is forgotten with a message still out only when its worker died  *)
(* while it closed; who waits for that message goes on, later, untouched.    *)
Goes(at, r, outcome) ==
    CASE at = "ready" /\ r.ready -> "run"
      [] at = "pass" /\ Settles(r) -> outcome
      [] at = "last" /\ Settles(r) -> IF ClosesNow(r) /\ r.closes THEN "close" ELSE "done"
      [] at = "close" /\ ~r.closes -> "done"
      [] OTHER -> at

Ending(at, r) ==
    CASE at = "pump" /\ Settles(r) -> IF r.closes THEN "close" ELSE "done"
      [] at = "close" /\ ~r.closes -> "done"
      [] OTHER -> at

Stored(d, r) ==
    /\ record' = [record EXCEPT ![d] = IF Forgotten(r) THEN None ELSE r]
    /\ auto' = [auto EXCEPT ![d] = IF r.enabled THEN FALSE
                                   ELSE IF Known(d) /\ record[d].enabled THEN r.saved ELSE @]

Resumes(d, r, ok, outcome) ==
    LET left == IF Closes(d, r) THEN Closed(r, ok) ELSE r
    IN  /\ Stored(d, left)
        /\ import' = [i \in Imports |->
                IF import[i].db = d THEN [import[i] EXCEPT !.at = Goes(@, left, outcome)]
                                    ELSE import[i]]
        /\ shutdown' = [shutdown EXCEPT ![d] = Ending(@, left)]
        /\ Counted(ok)

-----------------------------------------------------------------------------
(* An import: withCheckpoints and its callback *)

(* A record without lease and worker is cleaned up first; it goes only if    *)
(* its threshold is back.                                                    *)
Replaced(d, ok) == Known(d) => Forgotten(Restored(record[d], ok))

(* `starts`: the database is fit for a worker, and one could be created. *)
Lease(i, d, starts, ok) ==
    LET kept == Known(d) /\ record[d].leases = 0 /\ ~record[d].live
        worker == starts /\ Replaced(d, ok)
        r == IF Replaced(d, ok)
             THEN [NewRecord EXCEPT !.live = starts, !.starting = starts, !.ready = ~starts]
             ELSE [(IF kept THEN Restored(record[d], ok) ELSE record[d]) EXCEPT !.leases = @ + 1]
    IN  /\ import[i].at = "new" /\ ~deleted[d]
        /\ IF starts THEN Replaced(d, ok) /\ ~Stopping /\ Cardinality(Workers) < Capacity ELSE TRUE
        /\ ok \/ kept
        /\ record' = [record EXCEPT ![d] = r]
        /\ auto' = [auto EXCEPT ![d] =
                IF kept /\ record[d].enabled /\ ok THEN record[d].saved ELSE @]
        /\ import' = [import EXCEPT ![i] = [at |-> IF r.ready THEN "run" ELSE "ready", db |-> d]]
        /\ threads' = [threads EXCEPT ![d] = @ + IF worker THEN 1 ELSE 0]
        /\ Counted(ok)
        /\ UNCHANGED <<shutdown, deleted>>

(* The callback committed a batch and asks for a checkpoint. *)
Commit(i, ok) ==
    LET d == import[i].db
        r == record[d]
    IN  /\ import[i].at = "run"
        /\ IF Unserved(r)
           THEN /\ Stored(d, Restored(r, ok))
                /\ import' = [import EXCEPT ![i].at = IF ok THEN "run" ELSE "stop"]
                /\ Counted(ok)
           ELSE /\ ok /\ Asked(r)
                /\ Stored(d, Requested(r))
                /\ import' = [import EXCEPT ![i].at = "pass"]
                /\ UNCHANGED faults
        /\ UNCHANGED <<threads, shutdown, deleted>>

Released(r) == [r EXCEPT !.leases = @ - 1]

(* The callback returned or threw: the lease goes, the last one asks for a   *)
(* final checkpoint and, without one to wait for, closes the worker.         *)
End(i, ok) ==
    LET d == import[i].db
        r == Released(record[d])
        closed == Closed(r, ok)
        left == IF r.leases > 0 THEN r
                ELSE IF Asked(r) /\ ~Unserved(r) THEN Requested(r) ELSE closed
    IN  /\ import[i].at \in {"run", "stop"}
        /\ ok \/ left = closed
        /\ Stored(d, left)
        /\ import' = [j \in Imports |->
                IF j = i THEN [import[i] EXCEPT !.at =
                                   IF r.leases > 0 THEN "done"
                                   ELSE IF left # closed THEN "last"
                                   ELSE IF closed.closes THEN "close" ELSE "done"]
                ELSE IF import[j].db = d /\ Forgotten(left)
                     THEN [import[j] EXCEPT !.at = Goes(@, left, "run")]
                ELSE import[j]]
        /\ shutdown' = [shutdown EXCEPT ![d] = IF Forgotten(left) THEN Ending(@, left) ELSE @]
        /\ Counted(ok)
        /\ UNCHANGED <<threads, deleted>>

-----------------------------------------------------------------------------
(* The worker, the timers *)

(* The first message: the threshold is read only now, saved and set to zero, *)
(* unless the worker was given up or the worker's version does not fit.      *)
WorkerReady(d, fits) ==
    LET r == [record[d] EXCEPT !.starting = FALSE]
    IN  /\ Known(d) /\ record[d].live /\ record[d].starting
        /\ Resumes(d, IF r.closing THEN r
                      ELSE IF fits THEN [r EXCEPT !.saved = auto[d], !.enabled = TRUE, !.ready = TRUE]
                      ELSE Fallen(r, TRUE), TRUE, "run")
        /\ UNCHANGED <<threads, deleted>>

(* A checkpoint was taken. Readers may keep too much of the log from being   *)
(* drained; a request since the message went out demands another pass.       *)
PassDone(d, backlog, ok) ==
    LET r == record[d]
        next == [r EXCEPT !.again = FALSE]
        over == [r EXCEPT !.pending = FALSE, !.again = FALSE]
        more == ~backlog /\ r.again /\ Asked(r)
    IN  /\ Known(d) /\ r.live /\ r.pending
        /\ ok \/ (~more /\ Closes(d, over))
        /\ Resumes(d, IF more THEN next ELSE over, ok, IF backlog THEN "stop" ELSE "run")
        /\ UNCHANGED <<threads, deleted>>

\* Broken variant: whoever waits goes on although the threshold stayed zero.
FallsOn(d, ok) ==
    /\ Resumes(d, Fallen(record[d], ok), ok, "run")
    /\ UNCHANGED <<threads, deleted>>

(* The pump gets no result: it ends with an error if the threshold stayed.   *)
Falls(d, ok) ==
    /\ Resumes(d, Fallen(record[d], ok), ok, IF ok THEN "run" ELSE "stop")
    /\ UNCHANGED <<threads, deleted>>

WorkerFails(d, ok) == Known(d) /\ record[d].live /\ ~record[d].failed /\ Falls(d, ok)
TimesOut(d, ok) == Known(d) /\ (record[d].starting \/ record[d].pending) /\ Falls(d, ok)

\* Broken variant: a termination that was asked for counts as done.
TerminatedAtOnce(r, ok) == [Restored(r, ok) EXCEPT !.closes = FALSE, !.live = FALSE]

Terminated(r, ok) == [Restored(r, ok) EXCEPT !.closes = FALSE, !.terminating = TRUE]

CloseTimesOut(d, ok) ==
    /\ Known(d) /\ record[d].closes
    /\ ok \/ (record[d].leases = 0 /\ ~record[d].live)
    /\ Resumes(d, Terminated(record[d], ok), ok, "run")
    /\ UNCHANGED <<threads, deleted>>

Exited(r, ok) ==
    LET fell == IF r.closing \/ r.failed THEN Restored(r, ok) ELSE Fallen(r, ok)
    IN  [fell EXCEPT !.live = FALSE, !.starting = FALSE, !.ready = TRUE, !.closes = FALSE]

(* The thread has ended: closed, terminated, or on its own. *)
WorkerExits(d, ok) ==
    /\ Known(d) /\ record[d].live
    /\ Resumes(d, Exited(record[d], ok), ok, IF ok THEN "run" ELSE "stop")
    /\ threads' = [threads EXCEPT ![d] = @ - 1]
    /\ UNCHANGED deleted

-----------------------------------------------------------------------------
(* The shop and the process *)

(* deleteTenantInternal refuses a shop whose database has a record. *)
Delete(d) ==
    /\ ~Known(d) /\ ~deleted[d]
    /\ deleted' = [deleted EXCEPT ![d] = TRUE]
    /\ UNCHANGED <<auto, record, import, threads, shutdown, faults>>

(* The server stops: every threshold is set back, every pump awaited, every  *)
(* worker closed, whoever leases it.                                         *)
Shutdown(bad) ==
    LET Left(d) == IF record[d].pending THEN Restored(record[d], d \notin bad)
                                       ELSE Closed(record[d], d \notin bad)
    IN  /\ ~Stopping
        /\ bad \subseteq {d \in Databases : Known(d) /\ record[d].enabled}
        /\ faults + Cardinality(bad) <= MaxFaults
        /\ faults' = faults + Cardinality(bad)
        /\ record' = [d \in Databases |->
                IF ~Known(d) \/ Forgotten(Left(d)) THEN None ELSE Left(d)]
        /\ auto' = [d \in Databases |->
                IF Known(d) /\ record[d].enabled /\ d \notin bad THEN record[d].saved ELSE auto[d]]
        /\ shutdown' = [d \in Databases |->
                IF ~Known(d) THEN "done"
                ELSE IF Left(d).pending THEN "pump"
                ELSE IF Left(d).closes THEN "close" ELSE "done"]
        /\ UNCHANGED <<import, threads, deleted>>

Bounds(d) == IF Known(d) THEN Tries(record[d]) ELSE {TRUE}

Next ==
    \/ \E i \in Imports, d \in Databases, starts \in BOOLEAN :
           \E ok \in Bounds(d) : Lease(i, d, starts, ok)
    \/ \E i \in {j \in Imports : import[j].db # None} :
           \E ok \in Bounds(import[i].db) : Commit(i, ok) \/ End(i, ok)
    \/ \E d \in Databases, fits \in BOOLEAN : WorkerReady(d, fits)
    \/ \E d \in Databases : \E ok \in Bounds(d) :
           \/ \E backlog \in BOOLEAN : PassDone(d, backlog, ok)
           \/ WorkerFails(d, ok)
           \/ TimesOut(d, ok)
           \/ CloseTimesOut(d, ok)
           \/ WorkerExits(d, ok)
           \/ Delete(d)
    \/ \E bad \in SUBSET Databases : Shutdown(bad)

Spec == Init /\ [][Next]_vars

(* The timers run, a terminated thread ends, an import has an end: a file is *)
(* finite. Nothing is assumed of a worker otherwise.                         *)
TimersRun(d) == WF_vars(\E ok \in Bounds(d) : TimesOut(d, ok) \/ CloseTimesOut(d, ok))
TerminatedEnds(d) ==
    WF_vars(Known(d) /\ record[d].terminating /\ \E ok \in Bounds(d) : WorkerExits(d, ok))
ImportEnds(i) == SF_vars(import[i].db # None /\ \E ok \in Bounds(import[i].db) : End(i, ok))

LiveSpec ==
    /\ Spec
    /\ \A d \in Databases : TimersRun(d) /\ TerminatedEnds(d)
    /\ \A i \in Imports : ImportEnds(i)
=============================================================================
