----------------------------- MODULE FloorProofs -----------------------------
(* Theorems of Production, for every workflow, number of proofs and of edits, *)
(* and of SlackOperator, by which an employee moves a job, for every number   *)
(* of requests, plans, changes of the job and of the employee's role, and    *)
(* crashes.                                                                  *)
EXTENDS SlackOperator, JobState, TLAPS

CONSTANTS Workflows, TaskKinds, MaxEdits

F == INSTANCE Production

-----------------------------------------------------------------------------
(* The job                                                                   *)

JobShapes ==
    /\ proof \in [F!Versions -> {"none", "draft", "sent", "approved", "rejected"}]
    /\ page \in [flow : BOOLEAN, art : BOOLEAN]
    /\ enrolled \in BOOLEAN

JobInv ==
    /\ JobShapes
    /\ F!ApprovedIsCurrent
    /\ F!ReleaseMatches
    /\ F!PagesShowArt

(* There is one newest proof.                                                *)
LEMMA NewestIsUnique ==
    ASSUME NEW v \in F!Versions, NEW w \in F!Versions, F!IsNewest(v), F!IsNewest(w)
    PROVE  v = w
BY DEF F!IsNewest, F!Versions

(* A change of the artwork leaves no page and no release behind.             *)
LEMMA ArtChangedKeeps ==
    ASSUME JobShapes, F!ArtChanged, enrolled' = enrolled
    PROVE  /\ page' \in [flow : BOOLEAN, art : BOOLEAN]
           /\ F!PagesShowArt' /\ F!ReleaseMatches'
<1>1. page' \in [flow : BOOLEAN, art : BOOLEAN] /\ (enrolled => ~page'.flow)
  BY DEF JobShapes, F!ArtChanged, F!Unread
<1>2. release' = None
  BY DEF F!ArtChanged
<1> QED
  BY <1>1, <1>2 DEF F!PagesShowArt, F!ReleaseMatches

(* A change of the workflow leaves no page behind.                           *)
LEMMA FlowChangedKeeps ==
    ASSUME JobShapes, F!FlowChanged
    PROVE  page' \in [flow : BOOLEAN, art : BOOLEAN] /\ F!PagesShowArt'
<1>1. page' \in [flow : BOOLEAN, art : BOOLEAN] /\ page'.flow = FALSE
  BY DEF JobShapes, F!FlowChanged
<1> QED
  BY <1>1 DEF F!PagesShowArt

(* What leaves the artwork alone leaves its invariants alone.                *)
LEMMA SameArt ==
    ASSUME JobInv, UNCHANGED F!art
    PROVE  /\ proof' = proof /\ F!ApprovedIsCurrent' /\ F!ReleaseMatches'
           /\ proof' \in [F!Versions -> {"none", "draft", "sent", "approved", "rejected"}]
BY DEF JobInv, JobShapes, F!art, F!ApprovedIsCurrent, F!ReleaseMatches, F!Ready, F!IsNewest

LEMMA JobInit == F!Init => JobInv
<1> SUFFICES ASSUME F!Init PROVE JobInv
  OBVIOUS
<1>1. JobShapes
  BY DEF F!Init, JobShapes
<1>2. F!ApprovedIsCurrent /\ F!ReleaseMatches /\ F!PagesShowArt
  BY DEF F!Init, F!ApprovedIsCurrent, F!ReleaseMatches, F!PagesShowArt
<1> QED
  BY <1>1, <1>2 DEF JobInv

-----------------------------------------------------------------------------
(* Proofs *)

LEMMA UploadKeeps ==
    ASSUME JobInv, NEW v \in F!Versions, NEW isMockup \in BOOLEAN, F!Upload(v, isMockup)
    PROVE  JobInv'
<1>1. /\ proof' = [proof EXCEPT ![v] = "draft"] /\ approved' = FALSE
      /\ F!ArtChanged /\ UNCHANGED F!floor
  BY DEF F!Upload
<1>2. F!PagesShowArt' /\ F!ReleaseMatches' /\ JobShapes'
  BY <1>1, ArtChangedKeeps DEF JobInv, JobShapes, F!floor
<1>3. F!ApprovedIsCurrent'
  BY <1>1 DEF JobInv, F!ApprovedIsCurrent
<1> QED
  BY <1>2, <1>3 DEF JobInv

LEMMA SendProofKeeps ==
    ASSUME JobInv, NEW v \in F!Versions, F!Send(v)
    PROVE  JobInv'
<1>1. /\ proof' = [proof EXCEPT ![v] = "sent"] /\ approved' = FALSE
      /\ F!ArtChanged /\ enrolled' = enrolled
  BY DEF F!Send
<1>2. F!PagesShowArt' /\ F!ReleaseMatches' /\ JobShapes'
  BY <1>1, ArtChangedKeeps DEF JobInv, JobShapes
<1>3. F!ApprovedIsCurrent'
  BY <1>1 DEF JobInv, F!ApprovedIsCurrent
<1> QED
  BY <1>2, <1>3 DEF JobInv

(* The decision is about the newest proof.                                   *)
LEMMA DecideKeeps ==
    ASSUME JobInv, NEW v \in F!Versions, NEW decision \in {"approved", "rejected"},
           F!Decide(v, decision)
    PROVE  JobInv'
<1>1. /\ F!IsNewest(v) /\ proof' = [proof EXCEPT ![v] = decision]
      /\ approved' = (decision = "approved")
      /\ F!ArtChanged /\ enrolled' = enrolled
  BY DEF F!Decide
<1>2. F!PagesShowArt' /\ F!ReleaseMatches' /\ JobShapes'
  BY <1>1, ArtChangedKeeps DEF JobInv, JobShapes
<1>3. proof'[v] = decision /\ \A w \in F!Versions : w # v => proof'[w] = proof[w]
  BY <1>1 DEF JobInv, JobShapes
<1>4. F!IsNewest(v)'
  BY <1>1, <1>3 DEF F!IsNewest, F!Versions
<1>5. F!ApprovedIsCurrent'
  BY <1>1, <1>3, <1>4 DEF F!ApprovedIsCurrent
<1> QED
  BY <1>2, <1>5 DEF JobInv

(* An older proof may go: neither the approval nor the release is about it.  *)
LEMMA DeleteProofKeeps ==
    ASSUME JobInv, NEW v \in F!Versions, F!DeleteProof(v)
    PROVE  JobInv'
<1>1. /\ proof[v] # "none" /\ proof' = [proof EXCEPT ![v] = "none"]
      /\ F!DeleteClears(v) /\ UNCHANGED F!floor /\ UNCHANGED spec
  BY DEF F!DeleteProof
<1>2. enrolled' = enrolled
  BY <1>1 DEF F!floor
<1>3. proof' \in [F!Versions -> {"none", "draft", "sent", "approved", "rejected"}]
  BY <1>1 DEF JobInv, JobShapes
<1>4. CASE F!IsNewest(v)
  <2>1. approved' = FALSE /\ F!ArtChanged
    BY <1>1, <1>4 DEF F!DeleteClears
  <2>2. F!PagesShowArt' /\ F!ReleaseMatches' /\ JobShapes'
    BY <1>2, <1>3, <2>1, ArtChangedKeeps DEF JobInv, JobShapes
  <2> QED
    BY <1>2, <2>1, <2>2 DEF JobInv, F!ApprovedIsCurrent
<1>5. CASE ~F!IsNewest(v)
  <2>1. /\ approved' = approved /\ page' = page
        /\ release' = IF release # None /\ release.proof = v THEN None ELSE release
    BY <1>1, <1>5 DEF F!DeleteClears
  <2>2. \A w \in F!Versions : F!IsNewest(w) => F!IsNewest(w)' /\ proof'[w] = proof[w]
    BY <1>1, <1>3, <1>5 DEF F!IsNewest, JobInv, JobShapes
  <2>3. F!ApprovedIsCurrent'
    BY <2>1, <2>2 DEF JobInv, F!ApprovedIsCurrent
  <2>4. F!ReleaseMatches'
    <3>1. ASSUME release' # None
          PROVE  /\ release' = release /\ approved /\ F!IsNewest(release.proof)
                 /\ proof[release.proof] = "approved" /\ release.spec = spec
      BY <2>1, <3>1 DEF JobInv, F!ReleaseMatches, F!Ready
    <3>2. ASSUME release' # None PROVE F!Ready'
      <4>1. PICK w \in F!Versions : F!IsNewest(w) /\ proof[w] = "approved"
        BY <3>1, <3>2 DEF JobInv, F!ApprovedIsCurrent
      <4> QED
        BY <1>1, <2>1, <2>2, <3>1, <3>2 DEF F!Ready, F!IsNewest
    <3> QED
      BY <3>2 DEF F!ReleaseMatches
  <2>5. JobShapes' /\ F!PagesShowArt'
    BY <1>2, <1>3, <2>1 DEF JobInv, JobShapes, F!PagesShowArt
  <2> QED
    BY <1>2, <2>3, <2>4, <2>5 DEF JobInv
<1> QED
  BY <1>4, <1>5

(* addArtAsset, requireArtRelease, revokeArtRelease and an edit of the job   *)
LEMMA ReviewKeeps ==
    ASSUME JobInv, F!ArtChanged, UNCHANGED <<F!floor, proof, approved>>
    PROVE  JobInv'
<1>1. F!PagesShowArt' /\ F!ReleaseMatches' /\ JobShapes'
  BY ArtChangedKeeps DEF JobInv, JobShapes, F!floor
<1>2. F!ApprovedIsCurrent'
  BY DEF JobInv, F!ApprovedIsCurrent, F!IsNewest
<1> QED
  BY <1>1, <1>2 DEF JobInv

LEMMA ReleaseKeeps ==
    ASSUME JobInv, NEW v \in F!Versions, F!Release(v)
    PROVE  JobInv'
<1>1. /\ F!IsNewest(v) /\ proof[v] = "approved" /\ approved
      /\ release' = [proof |-> v, spec |-> spec] /\ page' = F!Unread
      /\ UNCHANGED <<F!floor, proof, mockup, approved, spec>>
  BY DEF F!Release
<1>2. F!ReleaseMatches'
  BY <1>1 DEF F!ReleaseMatches, F!Ready, F!IsNewest
<1>3. JobShapes' /\ F!PagesShowArt'
  BY <1>1 DEF JobInv, JobShapes, F!PagesShowArt, F!Unread, F!floor
<1>4. F!ApprovedIsCurrent'
  BY <1>1 DEF JobInv, F!ApprovedIsCurrent, F!IsNewest
<1> QED
  BY <1>2, <1>3, <1>4 DEF JobInv

-----------------------------------------------------------------------------
(* The workflow and the stage *)

(* applyWorkflow, editTask and saveJobTiming, which do not move the job      *)
LEMMA PlanningKeeps ==
    ASSUME JobInv, F!FlowChanged, enrolled' \in BOOLEAN, UNCHANGED <<stage, jobStatus, F!art>>
    PROVE  JobInv'
<1>1. JobShapes' /\ F!PagesShowArt' /\ F!ApprovedIsCurrent' /\ F!ReleaseMatches'
  BY FlowChangedKeeps, SameArt DEF JobInv, JobShapes
<1> QED
  BY <1>1 DEF JobInv

(* transitionTask, which leaves the artwork alone                            *)
LEMMA TransitionKeeps ==
    ASSUME JobInv, NEW i, NEW to, F!Transition(i, to)
    PROVE  JobInv'
<1>1. F!FlowChanged /\ enrolled' = enrolled /\ UNCHANGED F!art
  BY DEF F!Transition
<1>2. JobShapes' /\ F!PagesShowArt' /\ F!ApprovedIsCurrent' /\ F!ReleaseMatches'
  BY <1>1, FlowChangedKeeps, SameArt DEF JobInv, JobShapes
<1> QED
  BY <1>2 DEF JobInv

LEMMA MoveKeeps ==
    ASSUME JobInv, NEW s \in F!Stages, F!Move(s)
    PROVE  JobInv'
<1>1. UNCHANGED <<enrolled, F!art, page>>
  BY DEF F!Move
<1>2. JobShapes' /\ F!PagesShowArt' /\ F!ApprovedIsCurrent' /\ F!ReleaseMatches'
  BY <1>1, SameArt DEF JobInv, JobShapes, F!PagesShowArt
<1> QED
  BY <1>2 DEF JobInv

LEMMA OpenKeeps ==
    ASSUME JobInv, F!Open
    PROVE  JobInv'
<1>1. page' = [flow |-> TRUE, art |-> TRUE] /\ UNCHANGED <<F!floor, F!art>>
  BY DEF F!Open
<1>2. JobShapes' /\ F!PagesShowArt' /\ F!ApprovedIsCurrent' /\ F!ReleaseMatches'
  BY <1>1, SameArt DEF JobInv, JobShapes, F!PagesShowArt, F!floor
<1> QED
  BY <1>2 DEF JobInv

LEMMA JobNext == JobInv /\ [F!Next]_(F!vars) => JobInv'
<1> SUFFICES ASSUME JobInv, [F!Next]_(F!vars) PROVE JobInv'
  OBVIOUS
<1>1. ASSUME NEW v \in F!Versions, NEW isMockup \in BOOLEAN, F!Upload(v, isMockup)
      PROVE  JobInv'
  BY <1>1, UploadKeeps
<1>2. ASSUME NEW v \in F!Versions, F!Send(v) PROVE JobInv'
  BY <1>2, SendProofKeeps
<1>3. ASSUME NEW v \in F!Versions, F!DeleteProof(v) PROVE JobInv'
  BY <1>3, DeleteProofKeeps
<1>4. ASSUME NEW v \in F!Versions, F!Release(v) PROVE JobInv'
  BY <1>4, ReleaseKeeps
<1>5. ASSUME NEW v \in F!Versions, NEW decision \in {"approved", "rejected"},
             F!Decide(v, decision)
      PROVE  JobInv'
  BY <1>5, DecideKeeps
<1>6. CASE F!AddFile
  BY <1>6, ReviewKeeps DEF F!AddFile
<1>7. ASSUME NEW value \in BOOLEAN, F!Require(value) PROVE JobInv'
  BY <1>7, ReviewKeeps DEF F!Require
<1>8. ASSUME NEW s \in Specs, F!EditJob(s) PROVE JobInv'
  BY <1>8, ReviewKeeps DEF F!EditJob, F!Reviewed
<1>9. CASE F!Revoke
  BY <1>9, ReviewKeeps DEF F!Revoke
<1>10. CASE F!Note
  BY <1>10, PlanningKeeps DEF F!Note
<1>11. CASE F!Open
  BY <1>11, OpenKeeps
<1>12. ASSUME NEW w \in Workflows, F!ApplyWorkflow(w) PROVE JobInv'
  BY <1>12, PlanningKeeps DEF F!ApplyWorkflow
<1>13. ASSUME NEW i, NEW step, F!AddTask(i, step) PROVE JobInv'
  BY <1>13, PlanningKeeps DEF F!AddTask
<1>14. ASSUME NEW i, NEW place, NEW step, F!EditTask(i, place, step) PROVE JobInv'
  BY <1>14, PlanningKeeps DEF F!EditTask, JobInv, JobShapes
<1>15. ASSUME NEW i, F!Complete(i) \/ F!Skip(i) \/ F!Reopen(i) PROVE JobInv'
  BY <1>15, TransitionKeeps DEF F!Complete, F!Skip, F!Reopen
<1>16. ASSUME NEW s \in F!Stages, F!Move(s) PROVE JobInv'
  BY <1>16, MoveKeeps
<1>17. CASE UNCHANGED F!vars
  BY <1>17 DEF F!vars, JobInv, JobShapes, F!ApprovedIsCurrent, F!ReleaseMatches, F!PagesShowArt,
               F!Ready, F!IsNewest
<1> QED
  BY <1>1, <1>2, <1>3, <1>4, <1>5, <1>6, <1>7, <1>8, <1>9, <1>10, <1>11, <1>12,
     <1>13, <1>14, <1>15, <1>16, <1>17 DEF F!Next

LEMMA JobInvariant == F!Spec => []JobInv
BY JobInit, JobNext, PTL DEF F!Spec

(* A release that stands is always of the newest proof, which the customer   *)
(* approved, and of what the job makes now; and the approval that a job goes *)
(* by is of its newest proof: whatever changes one of them revokes the rest. *)
THEOREM ArtHolds == F!Spec => []ArtIsCurrent
<1>1. JobInv => ArtIsCurrent
  BY DEF JobInv, ArtIsCurrent, ApprovedIsCurrent, ReleaseMatches, Ready, IsNewest, Versions,
         F!ApprovedIsCurrent, F!ReleaseMatches, F!Ready, F!IsNewest, F!Versions
<1> QED
  BY <1>1, JobInvariant, PTL

(* A page that passes the check of the workflow's revision shows the last    *)
(* change of the artwork.                                                    *)
THEOREM PagesHold == F!Spec => []PagesShowArt
<1>1. JobInv => PagesShowArt
  BY DEF JobInv, PagesShowArt, F!PagesShowArt
<1> QED
  BY <1>1, JobInvariant, PTL

-----------------------------------------------------------------------------
(* The conversation                                                          *)

Places == {"idle", "started", "quoting", "carried"}

Shapes ==
    /\ NoPlan \notin Requests
    /\ request \in [Requests -> {"unknown", "running", "done"}]
    /\ plan \in [Requests -> Kinds \union {NoPlan}]
    /\ saved \in Requests \union {NoPlan}
    /\ turn \in [Requests -> [at : Places, plan : Requests \union {NoPlan}]]
    /\ writes \in [Requests -> Nat]
    /\ carried \in [Requests -> Nat]
    /\ lost \in [Requests -> Nat]

(* The lock of the conversation                                              *)
OneTurn == \A r, q \in Requests : ~At(r, "idle") /\ ~At(q, "idle") => r = q

(* A request that is new has done nothing, and one that has not carried out  *)
(* its plan has not written.                                                 *)
Untouched ==
    \A r \in Requests :
        /\ request[r] = "unknown" =>
              carried[r] = 0 /\ writes[r] = 0 /\ saved # r /\ At(r, "idle")
        /\ At(r, "started") => carried[r] = 0 /\ saved # r /\ turn[r].plan = saved
        /\ At(r, "started") \/ At(r, "quoting") => writes[r] = 0

(* A plan that can still be carried out has not been, save for quotes that   *)
(* were lost.  A job's plan that was is outdated.                            *)
StillOpen ==
    /\ \A r \in Requests :
          At(r, "quoting") => /\ turn[r].plan \in Requests
                              /\ request[turn[r].plan] # "unknown"
                              /\ plan[turn[r].plan] = "quote"
                              /\ carried[turn[r].plan] <= lost[turn[r].plan]
    /\ saved # NoPlan =>
          /\ plan[saved] \in Kinds
          /\ plan[saved] = "quote" =>
                \/ carried[saved] <= lost[saved]
                \/ \E r \in Requests : At(r, "carried") /\ turn[r].plan = saved
          /\ plan[saved] # "quote" => carried[saved] = 0 \/ saved \in outdated

IInv ==
    /\ Shapes
    /\ OneTurn
    /\ Untouched
    /\ StillOpen
    /\ RequestOnce
    /\ PlanOnce

USE DEF Kinds, Places

(* A handler that does nothing                                               *)
LEMMA IdleShape ==
    /\ Idle \in [at : Places, plan : Requests \union {NoPlan}]
    /\ Idle.at = "idle"
BY DEF Idle

LEMMA InitIInv ==
    ASSUME NoPlan \notin Requests, Init
    PROVE  IInv
<1>1. \A r \in Requests : turn[r] = Idle /\ At(r, "idle")
  BY IdleShape DEF Init, At
<1>2. Shapes
  BY IdleShape DEF Init, Shapes
<1>3. OneTurn /\ RequestOnce /\ PlanOnce
  BY <1>1 DEF Init, OneTurn, RequestOnce, PlanOnce
<1>4. Untouched
  <2>1. \A r \in Requests : request[r] = "unknown" =>
            carried[r] = 0 /\ writes[r] = 0 /\ At(r, "idle")
    BY <1>1 DEF Init
  <2>2. \A r \in Requests : ~At(r, "started") /\ ~At(r, "quoting")
    BY <1>1 DEF At
  <2> QED
    BY <2>1, <2>2 DEF Init, Untouched
<1>5. StillOpen
  BY <1>1 DEF Init, StillOpen, At
<1> QED
  BY <1>2, <1>3, <1>4, <1>5 DEF IInv

(* A handler takes its place in an empty conversation.                       *)
LEMMA DeliverKeeps ==
    ASSUME IInv, NEW r \in Requests, Deliver(r)
    PROVE  IInv'
<1>1. /\ \A q \in Requests : At(q, "idle")
      /\ request[r] = "unknown"
      /\ request' = [request EXCEPT ![r] = "running"]
      /\ turn' = [turn EXCEPT ![r] = [at |-> "started", plan |-> saved]]
      /\ UNCHANGED <<plan, saved, outdated, writes, carried, lost>>
  BY DEF Deliver, Unlocked, IsNew, Started
<1>2. Shapes'
  BY <1>1 DEF IInv, Shapes
<1>3. \A q \in Requests : q # r => At(q, "idle")'
  BY <1>1 DEF IInv, Shapes, At
<1>4. At(r, "started")' /\ turn'[r].plan = saved
  BY <1>1 DEF IInv, Shapes, At
<1>5. OneTurn' /\ RequestOnce' /\ PlanOnce'
  BY <1>1, <1>3 DEF IInv, OneTurn, RequestOnce, PlanOnce
<1>6. Untouched'
  BY <1>1, <1>2, <1>3, <1>4 DEF IInv, Shapes, Untouched, At
<1>7. StillOpen'
  BY <1>1, <1>3, <1>4 DEF IInv, Shapes, StillOpen, At
<1> QED
  BY <1>2, <1>5, <1>6, <1>7 DEF IInv

(* Whoever answers leaves the conversation empty, and the plan pending that  *)
(* it says: none, the one that was, or its own.                              *)
LEMMA AnswerKeeps ==
    ASSUME IInv, NEW r \in Requests, ~At(r, "idle"),
           NEW p \in Requests \union {NoPlan}, Answer(r, p),
           UNCHANGED <<writes, carried, lost>>,
           plan' \in [Requests -> Kinds \union {NoPlan}],
           p # NoPlan => /\ plan'[p] \in Kinds
                         /\ plan'[p] = "quote" => carried[p] <= lost[p]
                         /\ plan'[p] # "quote" => carried[p] = 0 \/ p \in outdated'
                         /\ p = saved \/ p = r
    PROVE  IInv'
<1>1. /\ saved' = p /\ request' = [request EXCEPT ![r] = "done"]
      /\ turn' = [turn EXCEPT ![r] = Idle]
  BY DEF Answer
<1>2. Shapes'
  BY <1>1, IdleShape DEF IInv, Shapes
<1>3. \A q \in Requests : At(q, "idle")'
  BY <1>1, IdleShape DEF IInv, Shapes, OneTurn, At
<1>4. OneTurn' /\ RequestOnce' /\ PlanOnce'
  BY <1>3 DEF IInv, OneTurn, RequestOnce, PlanOnce
<1>5. Untouched'
  <2>1. \A q \in Requests : ~At(q, "started")' /\ ~At(q, "quoting")'
    BY <1>3 DEF At
  <2>2. request[r] # "unknown"
    BY DEF IInv, Untouched
  <2>3. ASSUME NEW q \in Requests, request'[q] = "unknown"
        PROVE  carried[q] = 0 /\ writes[q] = 0 /\ saved' # q
    BY <1>1, <2>2, <2>3 DEF IInv, Shapes, Untouched
  <2> QED
    BY <1>3, <2>1, <2>3 DEF Untouched
<1>6. StillOpen'
  <2>1. \A q \in Requests : ~At(q, "quoting")'
    BY <1>3 DEF At
  <2> QED
    BY <1>1, <2>1 DEF StillOpen
<1> QED
  BY <1>2, <1>4, <1>5, <1>6 DEF IInv

(* A plan is carried out by the only handler there is.                       *)
LEMMA CarryOutKeeps ==
    ASSUME IInv, NEW r \in Requests, NEW p \in Requests,
           At(r, "started") \/ At(r, "quoting"),
           CarryOut(r, p), UNCHANGED lost,
           plan' \in [Requests -> Kinds \union {NoPlan}],
           saved # NoPlan => plan'[saved] = plan[saved],
           carried[p] <= lost[p], request[p] # "unknown"
    PROVE  IInv'
<1>1. /\ carried' = [carried EXCEPT ![p] = @ + 1]
      /\ writes' = [writes EXCEPT ![r] = @ + 1]
      /\ outdated' = IF plan'[p] = "quote" THEN outdated ELSE PlansForJob
      /\ turn' = [turn EXCEPT ![r] = [at |-> "carried", plan |-> p]]
      /\ UNCHANGED <<request, saved>>
  BY DEF CarryOut
<1>2. Shapes'
  BY <1>1 DEF IInv, Shapes
<1>3. \A q \in Requests : q # r => At(q, "idle") /\ At(q, "idle")'
  BY <1>1 DEF IInv, Shapes, OneTurn, At
<1>4. At(r, "carried")' /\ turn'[r].plan = p
  BY <1>1 DEF IInv, Shapes, At
<1>5. OneTurn'
  BY <1>3 DEF OneTurn
<1>6. RequestOnce' /\ writes[r] = 0 /\ request[r] # "unknown"
  BY <1>1 DEF IInv, Shapes, Untouched, RequestOnce, At
<1>7. PlanOnce'
  BY <1>1 DEF IInv, Shapes, PlanOnce
<1>8. Untouched'
  BY <1>1, <1>3, <1>4, <1>6 DEF IInv, Shapes, Untouched, At
<1>9. StillOpen'
  <2>1. \A q \in Requests : ~At(q, "quoting")'
    BY <1>3, <1>4 DEF At
  <2>2. ASSUME saved # NoPlan
        PROVE  /\ plan'[saved] \in Kinds
               /\ plan'[saved] = "quote" =>
                     \/ carried'[saved] <= lost[saved]
                     \/ At(r, "carried")' /\ turn'[r].plan = saved
               /\ plan'[saved] # "quote" => carried'[saved] = 0 \/ saved \in outdated'
    <3>1. saved \in Requests /\ plan'[saved] = plan[saved] /\ plan[saved] \in Kinds
      BY <2>2 DEF IInv, Shapes, StillOpen
    <3>2. CASE saved = p
      BY <1>1, <1>4, <3>1, <3>2 DEF PlansForJob
    <3>3. CASE saved # p
      <4>1. carried'[saved] = carried[saved]
        BY <1>1, <3>1, <3>3 DEF IInv, Shapes
      <4>2. plan[saved] = "quote" => carried[saved] <= lost[saved]
        BY <1>3, <2>2 DEF IInv, StillOpen, At
      <4>3. plan[saved] # "quote" => carried[saved] = 0 \/ saved \in outdated'
        BY <1>1, <2>2, <3>1 DEF IInv, StillOpen, PlansForJob
      <4> QED
        BY <3>1, <4>1, <4>2, <4>3
    <3> QED
      BY <3>2, <3>3
  <2> QED
    BY <1>1, <2>1, <2>2 DEF StillOpen
<1> QED
  BY <1>2, <1>5, <1>6, <1>7, <1>8, <1>9 DEF IInv

(* The handler of a plan to quote waits for the answer.                      *)
LEMMA QuotingKeeps ==
    ASSUME IInv, NEW r \in Requests, NEW p \in Requests, At(r, "started"),
           Quoting(r, p), UNCHANGED lost,
           plan' \in [Requests -> Kinds \union {NoPlan}],
           saved # NoPlan => plan'[saved] = plan[saved],
           plan'[p] = "quote", carried[p] <= lost[p], request[p] # "unknown"
    PROVE  IInv'
<1>1. /\ turn' = [turn EXCEPT ![r] = [at |-> "quoting", plan |-> p]]
      /\ UNCHANGED <<request, saved, outdated, writes, carried>>
  BY DEF Quoting
<1>2. Shapes'
  BY <1>1 DEF IInv, Shapes
<1>3. \A q \in Requests : q # r => At(q, "idle") /\ At(q, "idle")'
  BY <1>1 DEF IInv, Shapes, OneTurn, At
<1>4. At(r, "quoting")' /\ turn'[r].plan = p
  BY <1>1 DEF IInv, Shapes, At
<1>5. OneTurn' /\ RequestOnce' /\ PlanOnce'
  BY <1>1, <1>3 DEF IInv, OneTurn, RequestOnce, PlanOnce
<1>6. Untouched'
  BY <1>1, <1>3, <1>4 DEF IInv, Shapes, Untouched, At
<1>7. StillOpen'
  <2>1. \A q \in Requests : At(q, "quoting")' => q = r
    BY <1>3 DEF At
  <2>2. ~At(r, "carried")
    BY DEF At
  <2>3. saved # NoPlan => /\ plan'[saved] \in Kinds
                          /\ plan'[saved] = "quote" => carried[saved] <= lost[saved]
                          /\ plan'[saved] # "quote" => carried[saved] = 0 \/ saved \in outdated
    BY <1>3, <2>2 DEF IInv, StillOpen, At
  <2> QED
    BY <1>1, <1>4, <2>1, <2>3 DEF StillOpen
<1> QED
  BY <1>2, <1>5, <1>6, <1>7 DEF IInv

(* Writing is one or the other.                                              *)
LEMMA WriteKeeps ==
    ASSUME IInv, NEW r \in Requests, NEW p \in Requests, At(r, "started"),
           Write(r, p), UNCHANGED lost,
           plan' \in [Requests -> Kinds \union {NoPlan}],
           saved # NoPlan => plan'[saved] = plan[saved],
           carried[p] <= lost[p], request[p] # "unknown"
    PROVE  IInv'
<1>1. CASE plan'[p] = "quote"
  BY <1>1, QuotingKeeps DEF Write
<1>2. CASE plan'[p] # "quote"
  BY <1>2, CarryOutKeeps DEF Write
<1> QED
  BY <1>1, <1>2

-----------------------------------------------------------------------------
(* The steps of a handler                                                    *)
LEMMA NoPlanKeeps ==
    ASSUME IInv, NEW r \in Requests, Cancel(r) \/ Save(r) \/ Fails(r)
    PROVE  IInv'
<1>1. /\ ~At(r, "idle") /\ Answer(r, NoPlan)
      /\ UNCHANGED <<plan, outdated, writes, carried, lost>>
  BY DEF Cancel, Save, Fails, At
<1> QED
  BY <1>1, AnswerKeeps DEF IInv, Shapes

LEMMA MismatchKeeps ==
    ASSUME IInv, NEW r \in Requests, Mismatch(r)
    PROVE  IInv'
<1>1. /\ ~At(r, "idle") /\ turn[r].plan = saved /\ Answer(r, saved)
      /\ UNCHANGED <<plan, outdated, writes, carried, lost>>
  BY DEF Mismatch, IInv, Untouched, At
<1>2. \A q \in Requests : ~At(q, "carried")
  BY DEF Mismatch, IInv, OneTurn, At
<1>3. saved # NoPlan => /\ plan'[saved] \in Kinds
                        /\ plan'[saved] = "quote" => carried[saved] <= lost[saved]
                        /\ plan'[saved] # "quote" => carried[saved] = 0 \/ saved \in outdated'
  BY <1>1, <1>2 DEF IInv, StillOpen
<1>4. saved \in Requests \union {NoPlan} /\ plan' \in [Requests -> Kinds \union {NoPlan}]
  BY <1>1 DEF IInv, Shapes
<1> QED
  BY <1>1, <1>3, <1>4, AnswerKeeps

LEMMA PrepareKeeps ==
    ASSUME IInv, NEW r \in Requests, NEW kind \in Kinds, Prepare(r, kind)
    PROVE  IInv'
<1>1. /\ ~At(r, "idle") /\ carried[r] = 0 /\ Answer(r, r)
      /\ plan' = [plan EXCEPT ![r] = kind]
      /\ UNCHANGED <<writes, carried, lost>>
  BY DEF Prepare, IInv, Untouched, At
<1>2. plan' \in [Requests -> Kinds \union {NoPlan}] /\ plan'[r] = kind /\ lost[r] \in Nat
  BY <1>1 DEF IInv, Shapes
<1> QED
  BY <1>1, <1>2, AnswerKeeps

(* The plan that is confirmed is the one that is pending: if it had been     *)
(* carried out already it would be outdated, or its quote lost.              *)
LEMMA ConfirmKeeps ==
    ASSUME IInv, NEW r \in Requests, Confirm(r)
    PROVE  IInv'
<1>1. /\ At(r, "started") /\ turn[r].plan = saved /\ saved # NoPlan
      /\ UNCHANGED <<plan, lost>> /\ Write(r, saved) /\ Unchanged(saved)
  BY DEF Confirm, IInv, Untouched
<1>2. saved \in Requests /\ plan' \in [Requests -> Kinds \union {NoPlan}] /\ lost[saved] \in Nat
  BY <1>1 DEF IInv, Shapes
<1>3. \A q \in Requests : ~At(q, "carried")
  BY <1>1 DEF IInv, OneTurn, At
<1>4. carried[saved] <= lost[saved]
  BY <1>1, <1>2, <1>3 DEF IInv, StillOpen, Unchanged
<1>5. request[saved] # "unknown"
  BY <1>2 DEF IInv, Untouched
<1> QED
  BY <1>1, <1>2, <1>4, <1>5, WriteKeeps

LEMMA ExecuteKeeps ==
    ASSUME IInv, NEW r \in Requests, NEW kind \in Kinds, Execute(r, kind)
    PROVE  IInv'
<1>1. /\ At(r, "started") /\ carried[r] = 0 /\ saved # r /\ Write(r, r)
      /\ plan' = [plan EXCEPT ![r] = kind] /\ UNCHANGED lost
  BY DEF Execute, IInv, Untouched
<1>2. /\ plan' \in [Requests -> Kinds \union {NoPlan}] /\ lost[r] \in Nat
      /\ saved # NoPlan => plan'[saved] = plan[saved]
  BY <1>1 DEF IInv, Shapes
<1>3. request[r] # "unknown"
  BY <1>1 DEF IInv, Untouched, At
<1> QED
  BY <1>1, <1>2, <1>3, WriteKeeps

LEMMA QuotedKeeps ==
    ASSUME IInv, NEW r \in Requests, Quoted(r)
    PROVE  IInv'
<1>1. /\ At(r, "quoting") /\ CarryOut(r, turn[r].plan)
      /\ UNCHANGED <<plan, lost>>
  BY DEF Quoted
<1>2. /\ turn[r].plan \in Requests /\ request[turn[r].plan] # "unknown"
      /\ carried[turn[r].plan] <= lost[turn[r].plan]
  BY <1>1 DEF IInv, StillOpen
<1>3. plan' \in [Requests -> Kinds \union {NoPlan}]
  BY <1>1 DEF IInv, Shapes
<1> QED
  BY <1>1, <1>2, <1>3, CarryOutKeeps

(* Somebody's change of the job only adds to what is outdated.               *)
LEMMA JobChangesKeeps == IInv /\ JobChanges => IInv'
<1> SUFFICES ASSUME IInv, JobChanges PROVE IInv'
  OBVIOUS
<1>1. /\ outdated' = PlansForJob
      /\ UNCHANGED <<request, plan, saved, turn, writes, carried, lost>>
  BY DEF JobChanges
<1>2. Shapes' /\ OneTurn' /\ Untouched' /\ RequestOnce' /\ PlanOnce'
  BY <1>1 DEF IInv, Shapes, OneTurn, Untouched, RequestOnce, PlanOnce, At
<1>3. saved # NoPlan /\ plan[saved] # "quote" => saved \in outdated'
  BY <1>1 DEF IInv, Shapes, StillOpen, PlansForJob
<1>4. StillOpen'
  BY <1>1, <1>3 DEF IInv, StillOpen, At
<1> QED
  BY <1>2, <1>4 DEF IInv

(* A quote that was carried out by a handler that dies is lost.              *)
LEMMA CrashKeeps == IInv /\ Crash => IInv'
<1> SUFFICES ASSUME IInv, Crash PROVE IInv'
  OBVIOUS
<1> DEFINE dying(p) == \E r \in Requests : At(r, "carried") /\ turn[r].plan = p
<1>1. /\ turn' = [r \in Requests |-> Idle]
      /\ lost' = [p \in Requests |-> lost[p] +
                       IF plan[p] = "quote" /\ dying(p) THEN 1 ELSE 0]
      /\ UNCHANGED <<request, plan, saved, outdated, writes, carried>>
  BY DEF Crash
<1> HIDE DEF dying
<1>2. \A r \in Requests : At(r, "idle")' /\ turn'[r] = Idle
  BY <1>1, IdleShape DEF At
<1>3. \A p \in Requests :
          /\ lost'[p] \in Nat /\ lost[p] <= lost'[p]
          /\ plan[p] = "quote" /\ dying(p) => lost'[p] = lost[p] + 1
  BY <1>1 DEF IInv, Shapes
<1>4. lost' \in [Requests -> Nat]
  BY <1>1 DEF IInv, Shapes
<1>5. Shapes'
  BY <1>1, <1>4, IdleShape DEF IInv, Shapes
<1>6. OneTurn' /\ RequestOnce'
  BY <1>1, <1>2 DEF IInv, OneTurn, RequestOnce
<1>7. PlanOnce'
  BY <1>1, <1>3 DEF IInv, Shapes, PlanOnce
<1>8. \A r \in Requests : ~At(r, "started")' /\ ~At(r, "quoting")'
  BY <1>2 DEF At
<1>9. Untouched'
  BY <1>1, <1>2, <1>8 DEF IInv, Untouched
<1>10. StillOpen'
  <2>1. ASSUME saved # NoPlan, plan[saved] = "quote"
        PROVE  carried[saved] <= lost'[saved]
    <3>1. saved \in Requests
      BY <2>1 DEF IInv, Shapes
    <3>2. carried[saved] <= lost[saved] \/ dying(saved)
      BY <2>1 DEF IInv, StillOpen, dying
    <3>3. /\ carried[saved] \in Nat /\ lost[saved] \in Nat
          /\ carried[saved] <= 1 + lost[saved]
      BY <3>1 DEF IInv, Shapes, PlanOnce
    <3> QED
      BY <1>3, <2>1, <3>1, <3>2, <3>3
  <2> QED
    BY <1>1, <1>8, <2>1 DEF IInv, StillOpen
<1> QED
  BY <1>5, <1>6, <1>7, <1>9, <1>10 DEF IInv

(* The clock and the settings touch nothing of this.                         *)
LEMMA StaysKeeps ==
    ASSUME IInv,
           UNCHANGED <<request, plan, saved, outdated, turn, writes, carried, lost>>
    PROVE  IInv'
BY DEF IInv, Shapes, OneTurn, Untouched, StillOpen, RequestOnce, PlanOnce, At

LEMMA NextIInv == IInv /\ [Next]_vars => IInv'
<1> SUFFICES ASSUME IInv, [Next]_vars PROVE IInv'
  OBVIOUS
<1>1. CASE UNCHANGED vars
  BY <1>1, StaysKeeps DEF vars
<1>2. CASE Expire
  BY <1>2, StaysKeeps DEF Expire
<1>3. CASE \E m \in {"review", "auto"}, who \in {"none", "staff", "manager"} :
               Configure(m, who)
  BY <1>3, StaysKeeps DEF Configure
<1>4. CASE JobChanges \/ Crash
  BY <1>4, JobChangesKeeps, CrashKeeps
<1>5. ASSUME NEW r \in Requests,
             \/ Deliver(r) \/ Cancel(r) \/ Mismatch(r) \/ Confirm(r)
             \/ \E kind \in Kinds : Prepare(r, kind) \/ Execute(r, kind)
             \/ Quoted(r) \/ Save(r) \/ Fails(r)
      PROVE  IInv'
  BY <1>5, DeliverKeeps, NoPlanKeeps, MismatchKeeps, ConfirmKeeps, PrepareKeeps,
     ExecuteKeeps, QuotedKeeps
<1> QED
  BY <1>1, <1>2, <1>3, <1>4, <1>5 DEF Next

-----------------------------------------------------------------------------
(* However often Slack delivers a request, and whatever dies meanwhile, it   *)
(* changes the shop at most once.                                            *)
THEOREM RequestsHold ==
    ASSUME NoPlan \notin Requests
    PROVE  Spec => []RequestOnce
<1>1. Init => IInv
  BY InitIInv
<1> QED
  BY <1>1, NextIInv, PTL DEF Spec, IInv

(* A plan is carried out at most once, and again only as often as a quote of *)
(* it was drafted by a handler that died before its save.                    *)
THEOREM PlansHold ==
    ASSUME NoPlan \notin Requests
    PROVE  Spec => []PlanOnce
<1>1. Init => IInv
  BY InitIInv
<1> QED
  BY <1>1, NextIInv, PTL DEF Spec, IInv
=============================================================================
