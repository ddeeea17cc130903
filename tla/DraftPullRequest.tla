-------------------------- MODULE DraftPullRequest --------------------------
(***************************************************************************)
(* The SCM worker turning one approved recovery request into a GitHub      *)
(* draft pull request (services/gitops/scm-worker).  The handler is a run  *)
(* of separate REST calls: one that fails, or the deadline, is reported as *)
(* a failure with what was done left on GitHub, and a crash between any    *)
(* two of them has the request delivered again.  Meanwhile people go on    *)
(* committing to the base branch and to the recovery branch, and touch the *)
(* pull request.                                                           *)
(*                                                                         *)
(* A commit of the base branch is the sequence of manifests up to it, so   *)
(* ancestry is the prefix order.  A manifest is the scalar the request     *)
(* edits, the rest of the file, and where the declared source lives.       *)
(***************************************************************************)
EXTENDS Integers, Sequences, SequencesExt

CONSTANTS
    PrKind,           \* kinds of request: structured, legacy, manifest_edit, plain
    AuthorityRecord,  \* what the stored run, diff, approval and provenance may say
    MaxCommits,       \* bound: length of the base history
    MaxMoves,         \* bound: commits to the base, pushes and edits by people
    MaxCuts           \* bound: attempts cut short and delivered again

VARIABLES
    kind, authority,  \* the request, and the records its authority is checked with
    base,             \* GitHub: the base branch
    branch,           \* GitHub: the recovery branch, a set of at most one
    pull,             \* GitHub: its pull request
    attempt,          \* the handler's local state
    moves, cuts

prVars == <<kind, authority, base, branch, pull, attempt, moves, cuts>>

Manifest == [value : {"current", "desired", "third"}, rest : 0..1, place : 1..2]
Approved == <<[value |-> "current", rest |-> 0, place |-> 1]>>

NoAttempt == [pc |-> "idle", base |-> <<>>, contents |-> {}, wrote |-> FALSE]

Structured == kind \in {"structured", "legacy"}

\* The scalar replaced; already applied gives no file to write.
materialize_scalar(m) ==
    IF m.value = "desired" THEN {} ELSE {[m EXCEPT !.value = "desired"]}

patch_contents(sha) ==
    IF Structured THEN materialize_scalar(Last(sha))
    ELSE {[Last(Approved) EXCEPT !.value = "desired"]}

\* currentValue or desiredValue only: anything else is target drift.
Materializable(sha) == ~Structured \/ Last(sha).value # "third"

\* The declaration the repository resolves at a commit.
declared_place(sha) == Last(sha).place

validate_structured_base_advance(approved, current) ==
    /\ current # approved =>
          /\ IsStrictPrefix(approved, current)
          /\ declared_place(current) = declared_place(approved)
    /\ Materializable(current)

merge_base(a, b) == LongestCommonPrefix({a, b})

head_manifest(b) == IF b.manifest = {} THEN Last(b.fork) ELSE CHOOSE m \in b.manifest : TRUE

\* The reading of a pull request an earlier attempt left behind.
verify_existing_structured_pr(sha) ==
    \E b \in branch :
        LET prBase == merge_base(sha, b.fork)
        IN  /\ prBase # <<>>
            /\ validate_structured_base_advance(Approved, prBase)
            /\ prBase # sha => validate_structured_base_advance(prBase, sha)
            /\ b.doc
            /\ LET contents == patch_contents(prBase)
               IN  IF contents = {} THEN head_manifest(b) = Last(prBase)
                                    ELSE head_manifest(b) \in contents

\* An open draft of this branch, with the request's own title and body or not.
find_existing_pr(requireMatch) ==
    pull = "draft" \/ (~requireMatch /\ pull = "edited")

validate_structured_patch_authority ==
    /\ authority.run
    /\ authority.provenance
    /\ \/ authority.target = "none"
       \/ authority.target = "completed_workload_change" /\ authority.diff
       \/ authority.target = "policy_approval" /\ authority.approval = "granted" /\ authority.diff

validate_manifest_edit_approval == authority.approval = "granted" /\ authority.diff

\* The approval was given for exactly one base commit.
validate_manifest_edit_source(sha) == sha = Approved

Ends(pc) == attempt' = [attempt EXCEPT !.pc = pc]

\* Authority, then the base branch's commit, then the manifest edit's source.
create_pull_request ==
    /\ attempt.pc = "idle"
    /\ IF /\ Structured => validate_structured_patch_authority
          /\ kind = "manifest_edit" =>
                validate_manifest_edit_approval /\ validate_manifest_edit_source(base)
       THEN attempt' = [attempt EXCEPT !.pc = "find", !.base = base]
       ELSE Ends("failed")
    /\ UNCHANGED <<kind, authority, base, branch, pull, moves, cuts>>

\* A structured request first looks for its own pull request; otherwise the
\* files are computed from the commit that was read.
plan_patch ==
    /\ attempt.pc = "find"
    /\ IF Structured /\ find_existing_pr(TRUE)
       THEN IF verify_existing_structured_pr(attempt.base)
            THEN attempt' = [attempt EXCEPT !.pc = "save", !.wrote = TRUE]
            ELSE Ends("failed")
       ELSE IF Structured => validate_structured_base_advance(Approved, attempt.base)
            THEN attempt' = [attempt EXCEPT !.pc = "branch",
                                            !.contents = patch_contents(attempt.base)]
            ELSE Ends("failed")
    /\ UNCHANGED <<kind, authority, base, branch, pull, moves, cuts>>

\* POST git/refs; an existing branch is resumed unless the request is legacy.
ensure_branch ==
    /\ attempt.pc = "branch"
    /\ IF branch = {}
       THEN branch' = {[fork |-> attempt.base, doc |-> FALSE, manifest |-> {}]} /\ Ends("doc")
       ELSE branch' = branch /\ Ends(IF kind = "legacy" THEN "failed" ELSE "doc")
    /\ UNCHANGED <<kind, authority, base, pull, moves, cuts>>

put_change_document ==
    /\ attempt.pc = "doc"
    /\ branch' = {[b EXCEPT !.doc = TRUE] : b \in branch}
    /\ Ends("manifest")
    /\ UNCHANGED <<kind, authority, base, pull, moves, cuts>>

\* PUT, and on 422 PUT again over the blob found: the last writer wins.
put_content_file(found, written) == IF written = {} THEN found ELSE written

\* A bug for put_manifest_patches: a file the branch has is left alone.
put_missing_manifests ==
    /\ attempt.pc = "manifest"
    /\ branch' = {[b EXCEPT !.manifest = IF @ = {} THEN attempt.contents ELSE @] : b \in branch}
    /\ attempt' = [attempt EXCEPT !.pc = "recheck", !.wrote = attempt.contents # {}]
    /\ UNCHANGED <<kind, authority, base, pull, moves, cuts>>

put_manifest_patches ==
    /\ attempt.pc = "manifest"
    /\ branch' = {[b EXCEPT !.manifest = put_content_file(@, attempt.contents)] : b \in branch}
    /\ attempt' = [attempt EXCEPT !.pc = "recheck", !.wrote = attempt.contents # {}]
    /\ UNCHANGED <<kind, authority, base, pull, moves, cuts>>

\* The base branch read once more, just before the pull request is opened.
recheck_base ==
    /\ attempt.pc = "recheck"
    /\ Ends(IF base = attempt.base THEN "open" ELSE "failed")
    /\ UNCHANGED <<kind, authority, base, branch, pull, moves, cuts>>

\* POST pulls; 422 when the branch has an open one, which is then looked up.
create_or_reuse_pr ==
    /\ attempt.pc = "open"
    /\ IF pull \in {"none", "closed"}
       THEN pull' = "draft" /\ Ends("save")
       ELSE pull' = pull /\ Ends(IF find_existing_pr(FALSE) THEN "save" ELSE "failed")
    /\ UNCHANGED <<kind, authority, base, branch, moves, cuts>>

save_pull_request ==
    /\ attempt.pc = "save"
    /\ Ends("created")
    /\ UNCHANGED <<kind, authority, base, branch, pull, moves, cuts>>

InHandler == attempt.pc \notin {"idle", "created", "failed"}

\* The error of any call, or the deadline over all of them.
provider_failure_body ==
    /\ InHandler /\ Ends("failed")
    /\ UNCHANGED <<kind, authority, base, branch, pull, moves, cuts>>

\* A crash: nothing local survives and the event is delivered again.
CutShort ==
    /\ InHandler /\ cuts < MaxCuts
    /\ attempt' = NoAttempt
    /\ cuts' = cuts + 1
    /\ UNCHANGED <<kind, authority, base, branch, pull, moves>>

Differ(a, b) == {f \in {"value", "rest", "place"} : a[f] # b[f]}

Move == moves < MaxMoves /\ moves' = moves + 1

\* Someone commits to the base branch, or rewrites its last commit.
CommitToBase ==
    /\ Move
    /\ \E m \in Manifest :
          /\ Differ(m, Last(base)) # {}
          /\ \/ /\ Len(base) < MaxCommits
                /\ \E f \in DOMAIN m : Differ(m, Last(base)) = {f}
                /\ base' = Append(base, m)
             \/ /\ Len(base) > 1
                /\ \E f \in DOMAIN m : Differ(m, base[Len(base) - 1]) = {f}
                /\ base' = Append(Front(base), m)
    /\ UNCHANGED <<kind, authority, branch, pull, attempt, cuts>>

\* Someone pushes to the recovery branch between two attempts.
PushToBranch ==
    /\ Move /\ attempt.pc = "idle"
    /\ \E b \in branch, r \in 0..1 :
          branch' = {[b EXCEPT !.manifest = {[head_manifest(b) EXCEPT !.rest = r]}]}
    /\ UNCHANGED <<kind, authority, base, pull, attempt, cuts>>

\* Someone retitles the pull request, marks it ready or closes it.
TouchPull ==
    /\ Move /\ pull = "draft"
    /\ pull' \in {"edited", "ready", "closed"}
    /\ UNCHANGED <<kind, authority, base, branch, attempt, cuts>>

PrInit ==
    /\ kind \in PrKind /\ authority \in AuthorityRecord
    /\ base = Approved /\ branch = {} /\ pull = "none"
    /\ attempt = NoAttempt /\ moves = 0 /\ cuts = 0

PrNext ==
    \/ create_pull_request \/ plan_patch \/ ensure_branch \/ put_change_document
    \/ put_manifest_patches \/ recheck_base \/ create_or_reuse_pr \/ save_pull_request
    \/ provider_failure_body \/ CutShort \/ CommitToBase \/ PushToBranch \/ TouchPull

PrSpec == PrInit /\ [][PrNext]_prVars

-----------------------------------------------------------------------------
\* Git's three-way merge, field by field; two different edits conflict.
Conflicts(old, ours, theirs) ==
    \E f \in DOMAIN old : ours[f] # old[f] /\ theirs[f] # old[f] /\ ours[f] # theirs[f]

Merged(old, ours, theirs) ==
    [f \in DOMAIN old |-> IF ours[f] # old[f] THEN ours[f] ELSE theirs[f]]

(* A pull request the worker reports for a request bound to a base commit  *)
(* (structured or manifest edit) changes the approved scalar and nothing   *)
(* else: merged into the commit the attempt validated, every other part of *)
(* the file is that commit's own, even though the branch may have been     *)
(* created, written and left behind by attempts that saw other commits.    *)
(* The one case left out is a document-only attempt (the scalar is already *)
(* applied) that resumes a branch: it writes no manifest and inherits what *)
(* the branch holds.                                                       *)
OnlyApprovedChange ==
    (attempt.pc = "created" /\ kind # "plain" /\ attempt.wrote) =>
        \A b \in branch :
            LET old == Last(merge_base(attempt.base, b.fork))
                target == Last(attempt.base)
            IN  merge_base(attempt.base, b.fork) # <<>> =>
                   \/ Conflicts(old, head_manifest(b), target)
                   \/ Differ(Merged(old, head_manifest(b), target), target) \subseteq {"value"}
=============================================================================
