--------------------------- MODULE ShopPromises ---------------------------
(* What Automations, Outbox, Webhooks, Production and SlackOperator promise. *)
(* A rule puts rows in the outbox and in the deliveries and never reads them *)
(* back, and it moves a job, as the operator does, by the operations that    *)
(* the floor offers everybody: each part is followed on its own.             *)
EXTENDS Outbox, Bags, FiniteSets, JobState, ConversationState

CONSTANTS
    Records, Last, Waits, Ids,              \* the rule
    MaxRuns, RulePresses, RuleCrashes,
    Workflows, TaskKinds, MaxEdits          \* the floor

ASSUME RuleAssumption ==
    /\ Last \in Nat /\ Waits \subseteq 1..Last /\ IsFiniteSet(Ids)

VARIABLES
    part,                                   \* the part that is followed
    rule, there, review, log, pending, queued, repeats,     \* Automations
    status, attempts, due, tries, active                    \* Webhooks

engine == <<rule, there, review, log, pending, queued, repeats>>
delivery == <<status, attempts, due, tries, active>>
message == <<kind, claim, delivered, stale, sends, taken, unknown, outlived>>
job == <<stage, jobStatus, enrolled, tasks, proof, mockup, approved, required,
         release, spec, page, edits>>
conversation == <<mode, member, request, plan, saved, fresh, outdated, turn,
                  writes, carried, lost>>
all == <<vars, part, engine, delivery, job, conversation>>

A == INSTANCE Automations WITH MaxPresses <- RulePresses, MaxCrashes <- RuleCrashes
W == INSTANCE Webhooks
F == INSTANCE Production
S == INSTANCE SlackOperator

RuleStep(step) ==
    part = "rule" /\ step /\ UNCHANGED <<part, message, delivery, job, conversation>>
OutboxStep(step) ==
    part = "outbox" /\ step /\ UNCHANGED <<part, engine, delivery, job, conversation>>
DeliveryStep(step) ==
    part = "delivery" /\ step /\ UNCHANGED <<part, engine, message, job, conversation>>
JobStep(step) ==
    /\ part = "job" /\ step
    /\ UNCHANGED <<part, vars, engine, delivery, conversation>>
ConversationStep(step) ==
    /\ part = "conversation" /\ step
    /\ UNCHANGED <<part, vars, engine, delivery, job>>

\* A part that is not followed stays in one of its initial states.
PartsInit ==
    /\ part \in {"rule", "outbox", "delivery", "job", "conversation"}
    /\ Init /\ A!Init /\ W!Init /\ F!Init /\ S!Init
    /\ part # "outbox" => kind = "sms" /\ sends[Automatic] = "idle"
    /\ part # "delivery" => tries = EmptyBag
    /\ part # "job" => tasks = <<>> /\ spec = CHOOSE s \in Specs : TRUE
    /\ part # "conversation" => mode = "review" /\ member = "staff"

PartsNext ==
    \/ RuleStep(A!Next) \/ OutboxStep(Next) \/ DeliveryStep(W!Next)
    \/ JobStep(F!Next) \/ ConversationStep(S!Next)

(* Time passes, the tick goes on, and an attempt ends with its time-out. *)
PartsSpec ==
    /\ PartsInit /\ [][PartsNext]_all
    /\ WF_all(RuleStep(\E p \in Ids : A!FallsDue(p)))
    /\ WF_all(RuleStep(\E p \in Ids : A!Resume(p)))
    /\ WF_all(DeliveryStep(W!Retry))
    /\ WF_all(DeliveryStep(W!FallsDue))
    /\ WF_all(DeliveryStep(\E n \in BagToSet(tries), ok \in BOOLEAN : W!Answered(n, ok)))

-----------------------------------------------------------------------------
(* A customer gets the message of a step once, and again only where the      *)
(* process died in a tick or somebody asked for a run that had not failed.   *)
OncePerStep ==
    \A e \in Records, i \in 1..Last : queued[e][i] <= 1 + repeats[e]

(* No rule writes to the customer about an invoice under review.             *)
ReviewedIsSilent ==
    [][\A e \in Records : review[e] => queued'[e] = queued[e]]_all

(* A waiting sequence is finished, cancelled or parked where the shop sees   *)
(* it, unless its rule stays switched off.                                   *)
SequencesEnd ==
    []<>(rule = "on") => <>[](\A p \in Ids : pending[p].state # "live")

(* A delivery of an active subscription is delivered or fails for good,      *)
(* across restarts.                                                          *)
DeliveriesEnd ==
    part = "delivery" /\ <>[]active => <>[](status \in W!Final)
=============================================================================
