---------------------------- MODULE Production ----------------------------
(***************************************************************************)
(* One job on the shop floor: its stage, the tasks of its workflow, the    *)
(* proofs the customer decides on and the technical release of its files   *)
(* (lib/production.mjs, lib/art-production.mjs, the art and job routes of  *)
(* server.mjs, lib/mockup-compositions.mjs).                               *)
(*                                                                         *)
(* Every operation is one synchronous transaction, called in any order by  *)
(* the board, scanners, the API, automations, the art pages and the        *)
(* customer's link.  What staff send carries the revision of the page they *)
(* read; somebody who has just read it can always act, so the model keeps  *)
(* one more page, opened at any time, and whether its two revisions still  *)
(* hold.                                                                   *)
(***************************************************************************)
EXTENDS JobState, Sequences, SequencesExt

CONSTANTS
    Workflows,      \* the shop's templates: sequences of steps
    TaskKinds,      \* what a manager makes of a task: [stage, gate]
    MaxEdits        \* bound on edited tasks

vars == <<stage, jobStatus, enrolled, tasks, proof, mockup, approved, required,
          release, spec, page, edits>>

art == <<proof, mockup, approved, required, release, spec>>
floor == <<stage, jobStatus, enrolled, tasks, edits>>

\* "qc" and "shipping" are guarded as "production".
Stages == {"new", "art_approval", "prepress", "production", "complete"}
Released == {"production", "complete"}

Todo(step) == [stage |-> step.stage, gate |-> step.gate, status |-> "pending"]

(* A new job, which production_auto_new_job may have given a workflow *)
Init ==
    /\ stage = "new" /\ jobStatus = "active"
    /\ \/ enrolled = FALSE /\ tasks = <<>>
       \/ \E w \in Workflows : enrolled = TRUE /\ tasks = [i \in DOMAIN w |-> Todo(w[i])]
    /\ proof = [v \in Versions |-> "none"] /\ mockup = {}
    /\ approved = FALSE /\ required = FALSE
    /\ release = None
    /\ spec \in Specs
    /\ page = [flow |-> TRUE, art |-> TRUE]
    /\ edits = 0

-----------------------------------------------------------------------------
(* Proofs and the release *)

(* One more than the highest version kept *)
NextVersion(v) ==
    /\ \A w \in Versions : w >= v => proof[w] = "none"
    /\ v > 1 => proof[v - 1] # "none"

\* Broken variant: the pages of the floor do not notice.
ArtOnly == [flow |-> page.flow, art |-> FALSE]

(* Art changes have a revision of the job; of the workflow where there is one. *)
Unread == [flow |-> page.flow /\ ~enrolled, art |-> FALSE]

(* recordArtChange *)
ArtChanged == page' = Unread /\ release' = None

(* guardTechnicalRelease *)
MayEnter(s) == s \in Released /\ NeedsRelease => Ready

(* POST /api/jobs/:id/art, and saveMockupComposition *)
Upload(v, isMockup) ==
    /\ NextVersion(v)
    /\ proof' = [proof EXCEPT ![v] = "draft"]
    /\ mockup' = IF isMockup THEN mockup \union {v} ELSE mockup
    /\ approved' = FALSE
    /\ required' = (required \/ isMockup)
    /\ ArtChanged
    /\ UNCHANGED <<floor, spec>>

(* POST /api/art/:id/send: a job without tasks waits for the customer. *)
Send(v) ==
    /\ IsNewest(v) /\ proof[v] # "approved"
    /\ proof' = [proof EXCEPT ![v] = "sent"]
    /\ approved' = FALSE
    /\ ArtChanged
    /\ stage' = IF stage \in {"new", "prepress"} /\ tasks = <<>> THEN "art_approval" ELSE stage
    /\ UNCHANGED <<jobStatus, enrolled, tasks, edits, mockup, required, spec>>

(* A job whose proof is approved is worked on again. *)
Reactivated(decision) == IF decision = "approved" THEN "active" ELSE jobStatus

(* decideArt, from the staff's page and from the customer's link *)
Decide(v, decision) ==
    /\ IsNewest(v) /\ proof[v] \in {"draft", "sent"}
    /\ proof' = [proof EXCEPT ![v] = decision]
    /\ approved' = (decision = "approved")
    /\ jobStatus' = Reactivated(decision)
    /\ stage' = IF decision = "approved" /\ tasks = <<>> THEN "prepress" ELSE stage
    /\ ArtChanged
    /\ UNCHANGED <<enrolled, tasks, edits, mockup, required, spec>>

\* The newest proof takes the approval with it, an older one its release.
DeleteClears(v) ==
    IF IsNewest(v) THEN approved' = FALSE /\ ArtChanged
    ELSE /\ release' = IF release # None /\ release.proof = v THEN None ELSE release
         /\ UNCHANGED <<approved, page>>

(* DELETE /api/jobs/:jobId/art/:id, with trg_art_release_proof_delete *)
DeleteProof(v) ==
    /\ proof[v] # "none"
    /\ proof' = [proof EXCEPT ![v] = "none"]
    /\ mockup' = mockup \ {v}
    /\ DeleteClears(v)
    /\ UNCHANGED <<floor, required, spec>>

(* addArtAsset *)
AddFile ==
    /\ ArtChanged
    /\ UNCHANGED <<floor, proof, mockup, approved, required, spec>>

(* releaseArt *)
Release(v) ==
    /\ IsNewest(v) /\ proof[v] = "approved" /\ approved
    /\ release' = [proof |-> v, spec |-> spec]
    /\ required' = TRUE
    /\ page' = Unread
    /\ UNCHANGED <<floor, proof, mockup, approved, spec>>

(* requireArtRelease *)
Require(value) ==
    /\ value # required
    /\ value \/ ~\E v \in mockup : IsNewest(v)
    /\ required' = value
    /\ ArtChanged
    /\ UNCHANGED <<floor, proof, mockup, approved, spec>>

(* revokeArtRelease *)
Revoke ==
    /\ release # None
    /\ ArtChanged
    /\ UNCHANGED <<floor, proof, mockup, approved, required, spec>>

\* Broken variant: what the job makes changes without a word to the art pages.
Silently == UNCHANGED <<page, release>>

Reviewed == ArtChanged

(* PUT /api/jobs/:id, or the estimate it inherits its garments from *)
EditJob(s) ==
    /\ s # spec
    /\ spec' = s
    /\ Reviewed
    /\ UNCHANGED <<floor, proof, mockup, approved, required>>

-----------------------------------------------------------------------------
(* The workflow and the stage *)

FlowChanged == page' = [page EXCEPT !.flow = FALSE]

Pending(t) == t.status = "pending"

(* The stage of the first open task, or the end *)
NextStage(flow) ==
    LET open == SelectSeq(flow, Pending)
    IN  IF open = <<>> THEN "complete" ELSE Head(open).stage

(* applyWorkflow *)
ApplyWorkflow(w) ==
    /\ jobStatus = "active" /\ tasks = <<>>
    /\ enrolled' = TRUE
    /\ tasks' = [i \in DOMAIN w |-> Todo(w[i])]
    /\ FlowChanged
    /\ UNCHANGED <<stage, jobStatus, edits, art>>

Edit == edits < MaxEdits /\ edits' = edits + 1

(* editTask: a new task at any place, or an open one made another *)
AddTask(i, step) ==
    /\ Edit /\ jobStatus = "active"
    /\ enrolled' = TRUE
    /\ tasks' = InsertAt(tasks, i, Todo(step))
    /\ FlowChanged
    /\ UNCHANGED <<stage, jobStatus, art>>

EditTask(i, place, step) ==
    /\ Edit /\ jobStatus = "active" /\ Pending(tasks[i])
    /\ tasks' = InsertAt(RemoveAt(tasks, i), place, Todo(step))
    /\ FlowChanged
    /\ UNCHANGED <<stage, jobStatus, enrolled, art>>

(* saveJobTiming; of an enrolled job also counts, receipts and shipments *)
Note ==
    /\ enrolled' = TRUE
    /\ FlowChanged
    /\ UNCHANGED <<stage, jobStatus, tasks, edits, art>>

(* taskBlock, of a job that waits for approvals *)
Unblocked(i) ==
    /\ jobStatus = "active"
    /\ \A j \in 1..(i - 1) : ~Pending(tasks[j])
    /\ tasks[i].gate = "approval" \/ tasks[i].stage = "production" =>
          approved /\ \A v \in Versions : IsNewest(v) => proof[v] = "approved"
    /\ tasks[i].gate = "preflight" => Ready
    /\ tasks[i].stage \in Released /\ NeedsRelease => Ready

(* transitionTask *)
Transition(i, to) ==
    LET flow == [tasks EXCEPT ![i].status = to]
    IN  /\ tasks' = flow
        /\ MayEnter(NextStage(flow))
        /\ stage' = NextStage(flow)
        /\ jobStatus' = IF NextStage(flow) = "complete" THEN "complete" ELSE "active"
        /\ FlowChanged
        /\ UNCHANGED <<enrolled, edits, art>>

Complete(i) == Pending(tasks[i]) /\ Unblocked(i) /\ Transition(i, "done")
Skip(i) == Pending(tasks[i]) /\ Transition(i, "skipped")

Reopen(i) ==
    /\ ~Pending(tasks[i])
    /\ \A j \in DOMAIN tasks : j > i => tasks[j].status # "done"
    /\ Transition(i, "pending")

(* guardWorkflowStage, and what the board, a scan, the API, the assistant    *)
(* and an automation do after it                                             *)
Move(s) ==
    /\ MayEnter(s)
    /\ tasks # <<>> => s = NextStage(tasks)
    /\ stage' = s
    /\ jobStatus' = IF s = "complete" THEN "complete" ELSE "active"
    /\ UNCHANGED <<enrolled, tasks, edits, art, page>>

Open ==
    /\ page' = [flow |-> TRUE, art |-> TRUE]
    /\ UNCHANGED <<floor, art>>

-----------------------------------------------------------------------------
Next ==
    \/ \E v \in Versions :
        \/ \E isMockup \in BOOLEAN : Upload(v, isMockup)
        \/ Send(v) \/ DeleteProof(v) \/ Release(v)
        \/ \E decision \in {"approved", "rejected"} : Decide(v, decision)
    \/ \E value \in BOOLEAN : Require(value)
    \/ \E s \in Specs : EditJob(s)
    \/ AddFile \/ Revoke \/ Note \/ Open
    \/ \E w \in Workflows : ApplyWorkflow(w)
    \/ \E i \in 1..(Len(tasks) + 1), step \in TaskKinds : AddTask(i, step)
    \/ \E i \in DOMAIN tasks :
        \/ Complete(i) \/ Skip(i) \/ Reopen(i)
        \/ \E place \in DOMAIN tasks, step \in TaskKinds : EditTask(i, place, step)
    \/ \E s \in Stages : Move(s)

Spec == Init /\ [][Next]_vars

=============================================================================
