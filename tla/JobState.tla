------------------------------ MODULE JobState ------------------------------
(* What is kept of one job on the shop floor, and what must be true of it    *)
(* whatever Production does.                                                 *)
EXTENDS Naturals

CONSTANTS
    Specs,          \* what is to be made: garment, decoration, quantities
    None,           \* no release
    MaxVersion      \* bound on proofs kept

VARIABLES
    stage, jobStatus,   \* of the job
    enrolled, tasks,    \* production_jobs and production_tasks
    proof, mockup,      \* art_versions: each one's status, which are appearance mockups
    approved,           \* art_approved_at is set
    required,           \* art_release_required
    release,            \* the unrevoked art_releases row, or None
    spec,               \* of the job
    page,               \* whether the revisions of an open page are the current ones
    edits

Versions == 1..MaxVersion

IsNewest(v) ==
    /\ proof[v] # "none"
    /\ \A w \in Versions : w > v => proof[w] = "none"

(* readiness: technical_ready, and what it calls required *)
Ready ==
    /\ release # None /\ approved
    /\ IsNewest(release.proof) /\ proof[release.proof] = "approved"
    /\ release.spec = spec

NeedsRelease == required \/ \E v \in mockup : IsNewest(v)

-----------------------------------------------------------------------------
(* What the job calls approved is its newest proof.                          *)
ApprovedIsCurrent ==
    approved => \E v \in Versions : IsNewest(v) /\ proof[v] = "approved"

(* A release that was not revoked is of the newest proof, approved, and of   *)
(* what the job makes now, whatever was changed since.                       *)
ReleaseMatches == release # None => Ready

(* Nothing is printed from an old proof, old files or for an old order.      *)
ArtIsCurrent == ApprovedIsCurrent /\ ReleaseMatches

(* A page of an enrolled job whose tasks may be acted on shows the last      *)
(* change of its artwork.                                                    *)
PagesShowArt == enrolled /\ page.flow => page.art
=============================================================================
