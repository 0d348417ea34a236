--------------------------- MODULE SlackOperator ---------------------------
(***************************************************************************)
(* One employee's conversation with the shop assistant in Slack            *)
(* (lib/slack-operator.mjs, operatorMessage): requests that Slack delivers *)
(* more than once, plans that are saved for a later "confirm", and the     *)
(* actions on a job or the quotes that follow from them.                   *)
(*                                                                         *)
(* A plan is named by the request it was prepared for.  Planning and       *)
(* quoting wait for a language model: meanwhile other requests arrive, the *)
(* job changes, the employee's role changes or the process dies.  Whether  *)
(* a saved plan still has the revision of its job is kept instead of the   *)
(* two revisions.                                                          *)
(***************************************************************************)
EXTENDS ConversationState

vars == <<mode, member, request, plan, saved, fresh, outdated, turn,
          writes, carried, lost>>

outside == <<mode, member>>

Kinds == {"complete", "schedule", "quote"}      \* "assign" is guarded as "schedule"
Idle == [at |-> "idle", plan |-> NoPlan]
Started(p) == [at |-> "started", plan |-> p]    \* p: the pending plan it read

Init ==
    /\ mode \in {"review", "auto"} /\ member \in {"staff", "manager"}
    /\ request = [r \in Requests |-> "unknown"]
    /\ plan = [r \in Requests |-> NoPlan]
    /\ saved = NoPlan /\ fresh = TRUE /\ outdated = {}
    /\ turn = [r \in Requests |-> Idle]
    /\ writes = [r \in Requests |-> 0] /\ carried = [r \in Requests |-> 0]
    /\ lost = [r \in Requests |-> 0]

-----------------------------------------------------------------------------
At(r, place) == turn[r].at = place

(* identity and allowed *)
Allowed(kind) ==
    /\ member # "none"
    /\ kind \in {"schedule", "quote"} => member = "manager"

(* locks: one message of a conversation at a time *)
Unlocked == \A r \in Requests : At(r, "idle")

\* Broken variant: only what was answered counts as a duplicate.
IsUnanswered(r) == request[r] # "done"

(* What slack_operator_requests has already is not run again. *)
IsNew(r) == request[r] = "unknown"

Deliver(r) ==
    /\ Unlocked /\ At(r, "idle")
    /\ member # "none"
    /\ IsNew(r)
    /\ request' = [request EXCEPT ![r] = "running"]
    /\ turn' = [turn EXCEPT ![r] = Started(saved)]
    /\ UNCHANGED <<outside, plan, saved, fresh, outdated, writes, carried, lost>>

(* saveResult: the conversation keeps p as its pending plan *)
Answer(r, p) ==
    /\ saved' = p
    /\ fresh' = (fresh \/ p # saved)
    /\ request' = [request EXCEPT ![r] = "done"]
    /\ turn' = [turn EXCEPT ![r] = Idle]

\* The plans for the job, when it gets a later revision than any of them has
PlansForJob == {p \in Requests : plan'[p] \in {"complete", "schedule"}}

(* The change itself, in writeTool *)
CarryOut(r, p) ==
    /\ carried' = [carried EXCEPT ![p] = @ + 1]
    /\ writes' = [writes EXCEPT ![r] = @ + 1]
    /\ outdated' = IF plan'[p] = "quote" THEN outdated ELSE PlansForJob
    /\ turn' = [turn EXCEPT ![r] = [at |-> "carried", plan |-> p]]
    /\ UNCHANGED <<request, saved, fresh>>

Quoting(r, p) ==
    /\ turn' = [turn EXCEPT ![r] = [at |-> "quoting", plan |-> p]]
    /\ UNCHANGED <<request, saved, fresh, outdated, writes, carried>>

(* writeTool up to its first wait *)
Write(r, p) ==
    IF plan'[p] = "quote" THEN Quoting(r, p) ELSE CarryOut(r, p)

-----------------------------------------------------------------------------
Cancel(r) ==
    /\ At(r, "started")
    /\ Answer(r, NoPlan)
    /\ UNCHANGED <<outside, plan, outdated, writes, carried, lost>>

(* A question that changes nothing, or a code of no plan that is pending     *)
Mismatch(r) ==
    /\ At(r, "started")
    /\ Answer(r, turn[r].plan)
    /\ UNCHANGED <<outside, plan, outdated, writes, carried, lost>>

\* Broken variant: a plan is carried out whatever became of its job.
AnyRevision(p) == TRUE

Unchanged(p) == plan[p] = "quote" \/ p \notin outdated

Confirm(r) ==
    /\ At(r, "started") /\ turn[r].plan # NoPlan /\ fresh
    /\ Allowed(plan[turn[r].plan]) /\ Unchanged(turn[r].plan)
    /\ UNCHANGED <<outside, plan, lost>>
    /\ Write(r, turn[r].plan)

(* The planner answered with a change, in review mode. *)
Prepare(r, kind) ==
    /\ At(r, "started") /\ mode = "review" /\ Allowed(kind)
    /\ plan' = [plan EXCEPT ![r] = kind]
    /\ outdated' = outdated \ {r}
    /\ Answer(r, r)
    /\ UNCHANGED <<outside, writes, carried, lost>>

(* The planner answered with a change, in auto mode. *)
Execute(r, kind) ==
    /\ At(r, "started") /\ mode = "auto" /\ Allowed(kind)
    /\ plan' = [plan EXCEPT ![r] = kind]
    /\ UNCHANGED <<outside, lost>>
    /\ Write(r, r)

(* quickQuote is about to write: beforeCommit asks again who this is. *)
Quoted(r) ==
    /\ At(r, "quoting") /\ Allowed("quote")
    /\ UNCHANGED <<outside, plan, lost>>
    /\ CarryOut(r, turn[r].plan)

Save(r) ==
    /\ At(r, "carried")
    /\ Answer(r, NoPlan)
    /\ UNCHANGED <<outside, plan, outdated, writes, carried, lost>>

(* Anything that throws, or a quote that needs more details *)
Fails(r) ==
    /\ At(r, "started") \/ At(r, "quoting")
    /\ Answer(r, NoPlan)
    /\ UNCHANGED <<outside, plan, outdated, writes, carried, lost>>

-----------------------------------------------------------------------------
(* Ten minutes are over. *)
Expire ==
    /\ saved # NoPlan /\ fresh
    /\ fresh' = FALSE
    /\ UNCHANGED <<outside, request, plan, saved, outdated, turn, writes, carried, lost>>

(* Somebody works on the job, or its art changes. *)
JobChanges ==
    /\ UNCHANGED plan
    /\ outdated' = PlansForJob
    /\ UNCHANGED <<outside, request, saved, fresh, turn, writes, carried, lost>>

(* saveOperatorConfig, and the registry's members *)
Configure(m, who) ==
    /\ mode' = m /\ member' = who
    /\ UNCHANGED <<request, plan, saved, fresh, outdated, turn, writes, carried, lost>>

Crash ==
    /\ \E r \in Requests : ~At(r, "idle")
    /\ turn' = [r \in Requests |-> Idle]
    /\ lost' = [p \in Requests |-> lost[p] +
                    IF plan[p] = "quote" /\ \E r \in Requests : At(r, "carried") /\ turn[r].plan = p
                    THEN 1 ELSE 0]
    /\ UNCHANGED <<outside, request, plan, saved, fresh, outdated, writes, carried>>

Next ==
    \/ \E r \in Requests :
        \/ Deliver(r) \/ Cancel(r) \/ Mismatch(r) \/ Confirm(r)
        \/ \E kind \in Kinds : Prepare(r, kind) \/ Execute(r, kind)
        \/ Quoted(r) \/ Save(r) \/ Fails(r)
    \/ Expire \/ JobChanges \/ Crash
    \/ \E m \in {"review", "auto"}, who \in {"none", "staff", "manager"} : Configure(m, who)

Spec == Init /\ [][Next]_vars

=============================================================================
