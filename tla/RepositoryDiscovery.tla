------------------------- MODULE RepositoryDiscovery -------------------------
(***************************************************************************)
(* Repository discovery (domains/gitops/repository_discovery.py): listing  *)
(* what a repository offers, validating and previewing a manifest, and     *)
(* validating a batch of manifests at one expected revision.  Every        *)
(* operation is a run of separate GitHub reads, some by branch name and    *)
(* some by commit, while people push to the branch and reads fail.         *)
(*                                                                         *)
(* A path is the sequence of its components, the root directory is <<>>.   *)
(* A tree is immutable, so it is known by its commit.                      *)
(* A commit's tree is a sequence of files, in GitHub's order; a file is    *)
(* its path and what the code can tell about its content: whether it is    *)
(* UTF-8 and parses, its size, the shapes of its documents (a Kustomize    *)
(* configuration, one without apiVersion, an object with or without a      *)
(* name, anything else), and its Kustomize references.                     *)
(***************************************************************************)
EXTENDS Integers, Sequences, FiniteSets, FiniteSetsExt, SequencesExt

CONSTANTS
    Trees,                    \* the commits the branch may point at, as trees
    Yaml, Json,               \* the base names that have those extensions
    Asked,                    \* the operations asked for, see Ask
    Faults,                   \* HTTP answers of a failing GitHub, <<status, limited>>
    MAX_TREE_ITEMS, MAX_CANDIDATES, MAX_MANIFEST_BYTES,
    MAX_RENDER_SOURCE_FILES, MAX_RENDER_SOURCE_BYTES,
    MaxPushes                 \* bound: pushes to the branch

VARIABLES
    head,                     \* GitHub: the commit the branch points at
    pushes,
    op,                       \* the operation in progress
    tasks,                    \* content reads of a batch, by path
    walks,                    \* one validation per request of the operation
    inspected,                \* what a listing has found in each file
    reply                     \* the operation's answer

discoveryVars == <<head, pushes, op, tasks, walks, inspected, reply>>

KUSTOMIZATION_FILES == {"kustomization.yaml", "kustomization.yml", "Kustomization"}

parent_path(path) == Front(path)

path_is_under_directory(path, directory) == IsPrefix(directory, path)

manifest_extension(path) ==
    IF path = <<>> THEN "" ELSE
    IF Last(path) \in Yaml THEN ".yaml" ELSE IF Last(path) \in Json THEN ".json" ELSE ""

truncated(commit) == Len(Trees[commit]) > MAX_TREE_ITEMS

\* The tree as the client returns it: a bounded prefix.
tree(commit) ==
    IF truncated(commit) THEN SubSeq(Trees[commit], 1, MAX_TREE_ITEMS) ELSE Trees[commit]

Paths(files) == {files[i].path : i \in DOMAIN files}

blob_paths(commit) == Paths(tree(commit))

repository_directories(paths) ==
    UNION {{SubSeq(p, 1, n) : n \in 0..(Len(p) - 1)} : p \in paths}

github_http_error(fault) ==
    CASE fault[1] = 403 /\ fault[2] -> 429
      [] fault[1] \in {401, 403} /\ ~(fault[1] = 403 /\ fault[2]) -> 403
      [] fault[1] \in {404, 422, 429} -> fault[1]
      [] OTHER -> 502

Unread == [utf8 |-> FALSE, parses |-> FALSE, bytes |-> 0, docs |-> <<>>, refs |-> <<>>]

\* contents?ref=commit: the file's content, or a failure.
content(commit, path) ==
    {[ok |-> FALSE, code |-> github_http_error(f), body |-> Unread] : f \in Faults}
    \cup {[ok |-> e.body.bytes <= MAX_MANIFEST_BYTES,
           code |-> IF e.body.bytes <= MAX_MANIFEST_BYTES THEN 200 ELSE 422,
           body |-> IF e.body.bytes <= MAX_MANIFEST_BYTES THEN e.body ELSE Unread] :
            e \in {x \in Range(Trees[commit]) : x.path = path}}
    \cup (IF \E e \in Range(Trees[commit]) : e.path = path THEN {}
          ELSE {[ok |-> FALSE, code |-> 404, body |-> Unread]})

-----------------------------------------------------------------------------
\* Candidates: which paths of a tree a user may attach, and as what.
source_priority(source) ==
    CASE source = "kustomize" -> 0 [] source = "helm" -> 1
      [] source = "raw-yaml" -> 2 [] source = "raw-json" -> 3

candidate_of(path) ==
    CASE Last(path) = "Chart.yaml" -> {[path |-> parent_path(path), source |-> "helm"]}
      [] Last(path) \in KUSTOMIZATION_FILES -> {[path |-> parent_path(path), source |-> "kustomize"]}
      [] manifest_extension(path) = ".json" -> {[path |-> path, source |-> "raw-json"]}
      [] Last(path) \notin KUSTOMIZATION_FILES \cup {"Chart.yaml"} /\ manifest_extension(path) = ".yaml"
            -> {[path |-> path, source |-> "raw-yaml"]}
      [] OTHER -> {}

\* One candidate per path: the source type of the best priority.
add_candidate(cs) ==
    {c \in cs : \A d \in cs : d.path = c.path => source_priority(c.source) <= source_priority(d.source)}

common_score(path) ==
    CASE path = <<"deploy.yaml">> -> 0 [] path = <<"deployment.yaml">> -> 1
      [] path = <<"k8s">> -> 2 [] path = <<"manifests">> -> 3 [] path = <<"deploy">> -> 4
      [] path = <<>> -> 5 [] OTHER -> 50

Position(commit, path) ==
    Cardinality({i \in DOMAIN Trees[commit] : \A j \in 1..i : ~IsPrefix(path, Trees[commit][j].path)})

Slashes(path) == IF path = <<>> THEN 0 ELSE Len(path) - 1

\* Lexicographic on score, source type, depth and path.
candidate_sort_key(commit, c) ==
    ((common_score(c.path) * 10 + source_priority(c.source)) * 10 + Slashes(c.path)) * 100
    + Position(commit, c.path)

Limited(commit, cs) ==
    LET key == [c \in cs |-> candidate_sort_key(commit, c)]
    IN  {c \in cs : Cardinality({d \in cs : key[d] < key[c]}) < MAX_CANDIDATES}

manifest_candidates_from_tree ==
    [commit \in DOMAIN Trees |->
        Limited(commit, add_candidate(UNION {candidate_of(p) : p \in blob_paths(commit)}))]

\* TRUE a Kustomize configuration, FALSE a Kubernetes resource, None unreadable.
is_kustomize_render_configuration(body) ==
    IF ~body.parses THEN "none"
    ELSE IF Len(body.docs) = 1 /\ body.docs[1] \in {"config", "bare"} THEN "true" ELSE "false"

\* Kustomization files of the directories offered as Kustomize roots.
ambiguous_paths(commit) ==
    {p \in blob_paths(commit) :
        /\ Last(p) \in KUSTOMIZATION_FILES
        /\ [path |-> parent_path(p), source |-> "kustomize"] \in manifest_candidates_from_tree[commit]}

content_aware_manifest_candidates(commit, found) ==
    LET Of(v) == {parent_path(p) : p \in {q \in DOMAIN found : found[q] \in v}}
        initial == {c \in manifest_candidates_from_tree[commit] :
                        ~ /\ c.source = "kustomize"
                          /\ c.path \in Of({"true", "false"})
                          /\ c.path \notin Of({"true"})}
        raw == {[path |-> p, source |-> "raw-yaml"] : p \in {q \in DOMAIN found : found[q] = "false"}}
    IN  Limited(commit, add_candidate(initial \cup raw))

\* A request names its source explicitly: a raw file must be that very blob.
manifest_request_is_attachable(commit, c) ==
    CASE c.source = "raw-yaml" -> c.path \in blob_paths(commit) /\ manifest_extension(c.path) = ".yaml"
      [] c.source = "raw-json" -> c.path \in blob_paths(commit) /\ manifest_extension(c.path) = ".json"
      [] OTHER -> [path |-> c.path, source |-> c.source] \in manifest_candidates_from_tree[commit]

manifest_kinds(body) == {d \in Range(body.docs) : d \in {"config", "named", "nameless"}}

-----------------------------------------------------------------------------
\* Validation of one request: [path, source, values], source "" to infer it.
source_type_from_path(path) ==
    CASE manifest_extension(path) = "" -> "kustomize"
      [] manifest_extension(path) = ".json" -> "raw-json"
      [] OTHER -> IF Last(path) = "Chart.yaml" THEN "helm"
                  ELSE IF Last(path) \in KUSTOMIZATION_FILES THEN "kustomize" ELSE "raw-yaml"

source_type(q) == IF q.source # "" THEN q.source ELSE source_type_from_path(q.path)

render_source_directory(q) ==
    IF /\ q.path # <<>>
       /\ \/ source_type(q) = "helm" /\ Last(q.path) = "Chart.yaml"
          \/ source_type(q) = "kustomize" /\ Last(q.path) \in KUSTOMIZATION_FILES
    THEN parent_path(q.path) ELSE q.path

Rendered(q) == source_type(q) \in {"kustomize", "helm"}

NoFiles == [p \in {} |-> Unread]

\* A response that says invalid; an exception that leaves the handler.
Invalid(w) == [w EXCEPT !.pc = "done", !.status = "invalid"]
Raised(w, code) == [w EXCEPT !.pc = "done", !.status = "raised", !.code = code]

validate_manifest(q) ==
  LET w ==
    [req |-> q, pc |-> IF Rendered(q) THEN "tree" ELSE "raw", commit |-> 0,
     stack |-> <<>>, dir |-> <<>>, refs |-> <<>>, seen |-> {}, files |-> NoFiles,
     status |-> "none", code |-> 200]
  IN  IF q.values # {} /\ source_type(q) # "helm" THEN Raised(w, 422) ELSE w

find_kustomization_path(paths, directory) ==
    {p \in paths :
        p # <<>> /\ parent_path(p) = directory /\ Last(p) \in KUSTOMIZATION_FILES}

\* posixpath.normpath of the reference joined to the directory it stands in.
normalize_kustomize_local_reference(directory, raw) ==
    LET Down(path, part) ==
            IF part = "." THEN path
            ELSE IF part = ".." /\ path # <<>> /\ Last(path) # ".." THEN Front(path)
            ELSE Append(path, part)
    IN  FoldLeft(Down, directory, raw)

Escapes(path) == path = <<>> \/ path[1] = ".."

\* One document that is an object; its references, unless one is malformed.
parse_kustomization_document(body) ==
    body.parses /\ Len(body.docs) = 1 /\ body.docs[1] # "scalar"

kustomize_local_references(body) ==
    IF \E i \in DOMAIN body.refs : body.refs[i].form = "malformed" THEN {} ELSE {body.refs}

total_bytes(files) == MapThenSumSet(LAMBDA p : files[p].bytes, DOMAIN files)

\* The walk after a file was fetched, w itself if it was fetched before.
fetch_source_content(w, path, read) ==
    IF path \in DOMAIN w.files THEN w
    ELSE IF ~read.ok THEN Invalid(w)
    ELSE LET files == [p \in DOMAIN w.files \cup {path} |->
                          IF p = path THEN read.body ELSE w.files[p]]
         IN  IF total_bytes(files) > MAX_RENDER_SOURCE_BYTES THEN Invalid(w)
             ELSE [w EXCEPT !.files = files]

\* Refused without a read: not in the tree, or one file too many.
unfetchable(w, path) ==
    /\ path \notin DOMAIN w.files
    /\ \/ path \notin blob_paths(w.commit)
       \/ Cardinality(DOMAIN w.files) >= MAX_RENDER_SOURCE_FILES

\* A bug for seen_commit: a batch reads the branch like everything else.
branch_commit == head

\* The commit a read sees: a batch is pinned, anything else reads the branch.
seen_commit == IF op.kind = "batch" THEN op.revision ELSE head

\* A batch reads each path once and shares the answer, failures included.
content_outcomes(path) ==
    IF op.kind = "batch" /\ path \in DOMAIN tasks THEN {tasks[path]}
    ELSE content(seen_commit, path)

Remember(path, read) ==
    tasks' = IF op.kind # "batch" THEN tasks
             ELSE [p \in DOMAIN tasks \cup {path} |-> IF p = path THEN read ELSE tasks[p]]

Walk(i, w) == walks' = [walks EXCEPT ![i] = w]

\* The tree the source is exported from, and what it already rules out.
export_render_source(i) ==
    /\ walks[i].pc = "tree"
    /\ LET w == walks[i]
           d == render_source_directory(w.req)
           From(commit) ==
               LET under == {p \in blob_paths(commit) : path_is_under_directory(p, d)}
                   paths == under \cup w.req.values
                   base == [w EXCEPT !.commit = commit]
               IN  IF source_type(w.req) = "kustomize"
                   THEN IF Cardinality(under) > MAX_RENDER_SOURCE_FILES THEN Invalid(base)
                        ELSE [base EXCEPT !.pc = "walk", !.stack = <<d>>]
                   ELSE IF \/ ~(w.req.values \subseteq blob_paths(commit)) \/ paths = {}
                           \/ Cardinality(paths) > MAX_RENDER_SOURCE_FILES
                        THEN Invalid(base)
                        ELSE [base EXCEPT !.pc = "chart",
                                          !.refs = SelectSeq(tree(commit), LAMBDA e : e.path \in paths)]
       IN  \/ Walk(i, From(seen_commit))
           \/ /\ op.kind # "batch"
              /\ \E f \in Faults : Walk(i, Raised(w, github_http_error(f)))
    /\ UNCHANGED <<head, pushes, op, tasks, inspected, reply>>

\* A directory is taken up once: its one kustomization file is fetched.
take_directory(i) ==
    /\ walks[i].pc = "walk" /\ walks[i].refs = <<>> /\ walks[i].stack # <<>>
    /\ LET directory == Last(walks[i].stack)
           w == [walks[i] EXCEPT !.stack = Front(@), !.seen = @ \cup {directory}, !.dir = directory]
           found == find_kustomization_path(blob_paths(w.commit), directory)
           path == CHOOSE p \in found : TRUE
       IN  IF directory \in walks[i].seen
           THEN Walk(i, [walks[i] EXCEPT !.stack = Front(@)]) /\ UNCHANGED tasks
           ELSE IF Cardinality(found) # 1 \/ unfetchable(w, path)
           THEN Walk(i, Invalid(w)) /\ UNCHANGED tasks
           ELSE \E read \in content_outcomes(path) :
                   LET after == fetch_source_content(w, path, read)
                       refs == kustomize_local_references(after.files[path])
                   IN  /\ Remember(path, read)
                       /\ Walk(i, IF after.pc = "done" THEN after
                                  ELSE IF ~parse_kustomization_document(after.files[path]) \/ refs = {}
                                  THEN Invalid(w)
                                  ELSE [after EXCEPT !.refs = CHOOSE r \in refs : TRUE])
    /\ UNCHANGED <<head, pushes, op, inspected, reply>>

\* One reference: a directory is put on the stack, a file is fetched.
take_reference(i) ==
    /\ walks[i].pc = "walk" /\ walks[i].refs # <<>>
    /\ LET r == Head(walks[i].refs)
           w == [walks[i] EXCEPT !.refs = Tail(@)]
           path == normalize_kustomize_local_reference(w.dir, r.path)
       IN  IF r.form # "local" \/ Escapes(path)
           THEN Walk(i, Invalid(w)) /\ UNCHANGED tasks
           ELSE IF r.dir /\ path \in repository_directories(blob_paths(w.commit))
           THEN Walk(i, [w EXCEPT !.stack = Append(@, path)]) /\ UNCHANGED tasks
           ELSE IF unfetchable(w, path) THEN Walk(i, Invalid(w)) /\ UNCHANGED tasks
           ELSE IF path \in DOMAIN w.files THEN Walk(i, w) /\ UNCHANGED tasks
           ELSE \E read \in content_outcomes(path) :
                   Remember(path, read) /\ Walk(i, fetch_source_content(w, path, read))
    /\ UNCHANGED <<head, pushes, op, inspected, reply>>

\* A chart's files one by one, in path order.
take_chart_file(i) ==
    /\ walks[i].pc = "chart" /\ walks[i].refs # <<>>
    /\ LET path == Head(walks[i].refs).path
       IN  \E read \in content_outcomes(path) :
              /\ Remember(path, read)
              /\ Walk(i, fetch_source_content([walks[i] EXCEPT !.refs = Tail(@)], path, read))
    /\ UNCHANGED <<head, pushes, op, inspected, reply>>

validate_manifest_text(w) ==
    IF \E p \in DOMAIN w.files : ~w.files[p].parses THEN Invalid(w)
    ELSE [w EXCEPT !.pc = "done",
                   !.status = IF \E p \in DOMAIN w.files : "named" \in Range(w.files[p].docs)
                              THEN "valid" ELSE "warning"]

\* The external renderer: output of the exported files, or a failure.
render_source(i) ==
    /\ walks[i].pc \in {"walk", "chart"} /\ walks[i].refs = <<>> /\ walks[i].stack = <<>>
    /\ \/ /\ source_type(walks[i].req) = "helm" =>
                 Append(render_source_directory(walks[i].req), "Chart.yaml") \in DOMAIN walks[i].files
          /\ Walk(i, validate_manifest_text(walks[i]))
       \/ Walk(i, Invalid(walks[i]))
    /\ UNCHANGED <<head, pushes, op, tasks, inspected, reply>>

\* A raw manifest is one read; its failure is an exception, not a response.
validate_raw(i) ==
    /\ walks[i].pc = "raw"
    /\ \E read \in content_outcomes(walks[i].req.path) :
          /\ Remember(walks[i].req.path, read)
          /\ Walk(i, IF ~read.ok THEN Raised(walks[i], read.code)
                     ELSE IF ~read.body.utf8 THEN Raised(walks[i], 422)
                     ELSE validate_manifest_text(
                             [walks[i] EXCEPT !.files = [p \in {walks[i].req.path} |-> read.body]]))
    /\ UNCHANGED <<head, pushes, op, inspected, reply>>

-----------------------------------------------------------------------------
\* The operations.  Ask takes one up; a request is [kind, requests, expected].
NoOp == [kind |-> "none", pc |-> "idle", requests |-> <<>>, expected |-> 0, revision |-> 0]
NoReply == [kind |-> "none", code |-> 0, revision |-> 0, verdicts |-> <<>>, offered |-> {}, whole |-> TRUE]

RepositoryReads == [p \in {} |-> "none"]

Ask ==
    /\ op = NoOp
    /\ \E a \in Asked : op' = [NoOp EXCEPT !.kind = a.kind, !.pc = "begin",
                                           !.requests = a.requests, !.expected = a.expected]
    /\ reply' = NoReply
    /\ UNCHANGED <<head, pushes, tasks, walks, inspected>>

Answered(r) ==
    /\ reply' = [r EXCEPT !.kind = op.kind]
    /\ op' = NoOp /\ tasks' = <<>> /\ walks' = <<>> /\ inspected' = RepositoryReads
    /\ UNCHANGED <<head, pushes>>

Fails == \E f \in Faults : Answered([NoReply EXCEPT !.code = github_http_error(f)])

\* An unreachable repository is an answer of the probe, not a failure.
probe_repository ==
    /\ op.kind = "probe"
    /\ \E reachable \in {TRUE} \cup {FALSE : f \in Faults} :
          Answered([NoReply EXCEPT !.code = 200, !.whole = reachable])

list_branches ==
    /\ op.kind = "branches"
    /\ Fails \/ Answered([NoReply EXCEPT !.code = 200])

\* Both listings read the tree first, then files by branch name.
Listing == op.kind \in {"candidates", "files"}

yaml_paths == SelectSeq(tree(op.revision), LAMBDA e : manifest_extension(e.path) = ".yaml")

to_inspect ==
    IF op.kind = "candidates" THEN ambiguous_paths(op.revision)
    ELSE {yaml_paths[i].path : i \in {j \in DOMAIN yaml_paths : j <= MAX_CANDIDATES}}

ReadTree ==
    /\ Listing /\ op.pc = "begin"
    /\ \/ /\ op' = [op EXCEPT !.pc = "inspect", !.revision = head]
          /\ UNCHANGED <<head, pushes, tasks, walks, inspected, reply>>
       \/ Fails

inspect ==
    /\ Listing /\ op.pc = "inspect"
    /\ \E p \in to_inspect \ DOMAIN inspected : \E read \in content(head, p) :
          inspected' = [q \in DOMAIN inspected \cup {p} |->
                          IF q # p THEN inspected[q]
                          ELSE IF op.kind = "candidates"
                          THEN IF read.ok THEN is_kustomize_render_configuration(read.body) ELSE "none"
                          ELSE IF read.ok /\ read.body.parses /\ manifest_kinds(read.body) # {}
                          THEN "true" ELSE "none"]
    /\ UNCHANGED <<head, pushes, op, tasks, walks, reply>>

list_manifest_candidates ==
    /\ op.kind = "candidates" /\ op.pc = "inspect" /\ DOMAIN inspected = to_inspect
    /\ Answered([NoReply EXCEPT !.code = 200, !.revision = op.revision, !.whole = ~truncated(op.revision),
                              !.offered = content_aware_manifest_candidates(op.revision, inspected)])

\* What was inspected when the scan ended, complete or timed out.
list_attachable_manifest_files ==
    /\ op.kind = "files" /\ op.pc = "inspect"
    /\ Answered([NoReply EXCEPT !.code = 200, !.revision = op.revision,
                              !.whole = DOMAIN inspected = to_inspect,
                              !.offered = {[path |-> p, source |-> "raw-yaml"] :
                                              p \in {q \in DOMAIN inspected : inspected[q] = "true"}}])

Verdict(w) == [req |-> w.req, status |-> w.status, files |-> w.files, warned |-> w.commit # 0 /\ truncated(w.commit)]

\* The preview names the revision it read first and then reads the branch.
render_desired_objects ==
    /\ op.kind = "preview" /\ op.pc = "begin"
    /\ \/ /\ op' = [op EXCEPT !.pc = "walk", !.revision = head]
          /\ walks' = <<validate_manifest(op.requests[1])>>
          /\ UNCHANGED <<head, pushes, tasks, inspected, reply>>
       \/ Fails

begin_validation ==
    /\ op.kind = "validate" /\ op.pc = "begin"
    /\ op' = [op EXCEPT !.pc = "walk"]
    /\ walks' = <<validate_manifest(op.requests[1])>>
    /\ UNCHANGED <<head, pushes, tasks, inspected, reply>>

end_validation ==
    /\ op.kind \in {"validate", "preview"} /\ op.pc = "walk" /\ walks[1].pc = "done"
    /\ Answered([NoReply EXCEPT !.code = walks[1].code, !.revision = op.revision,
                              !.verdicts = <<Verdict(walks[1])>>])

\* A batch: the branch must be at the expected revision, the tree is that
\* revision's, every validation runs on the pinned snapshot.
branch_sha ==
    /\ op.kind = "batch" /\ op.pc = "begin"
    /\ \/ Fails
       \/ IF head = op.expected
          THEN op' = [op EXCEPT !.pc = "tree", !.revision = head]
               /\ UNCHANGED <<head, pushes, tasks, walks, inspected, reply>>
          ELSE Answered([NoReply EXCEPT !.code = 409])

tree_at_revision ==
    /\ op.kind = "batch" /\ op.pc = "tree"
    /\ \/ Fails
       \/ /\ op' = [op EXCEPT !.pc = "walk"]
          /\ walks' = [i \in DOMAIN op.requests |-> validate_manifest(op.requests[i])]
          /\ UNCHANGED <<head, pushes, tasks, inspected, reply>>

\* The branch once more, then all of the results or one error.
validate_manifests_at_revision ==
    /\ op.kind = "batch" /\ op.pc = "walk"
    /\ \A i \in DOMAIN walks : walks[i].pc = "done"
    /\ \/ Fails
       \/ Answered([NoReply EXCEPT
             !.code = IF head # op.revision THEN 409
                      ELSE IF \E i \in DOMAIN walks :
                                \/ walks[i].status = "raised"
                                \/ ~manifest_request_is_attachable(op.revision,
                                        [path |-> op.requests[i].path, source |-> source_type(op.requests[i])])
                      THEN 422 ELSE 200,
             !.revision = op.revision,
             !.verdicts = [i \in DOMAIN walks |-> Verdict(walks[i])]])

\* People push, or force the branch back.
PushBranch ==
    /\ pushes < MaxPushes /\ op # NoOp
    /\ head' \in DOMAIN Trees \ {head}
    /\ pushes' = pushes + 1
    /\ UNCHANGED <<op, tasks, walks, inspected, reply>>

DiscoveryInit ==
    /\ head = 1 /\ pushes = 0 /\ op = NoOp /\ tasks = <<>> /\ walks = <<>>
    /\ inspected = RepositoryReads /\ reply = NoReply

DiscoveryNext ==
    \/ Ask \/ probe_repository \/ list_branches \/ ReadTree \/ inspect
    \/ list_manifest_candidates \/ list_attachable_manifest_files
    \/ render_desired_objects \/ begin_validation \/ end_validation
    \/ branch_sha \/ tree_at_revision \/ validate_manifests_at_revision \/ PushBranch
    \/ \E i \in DOMAIN walks :
          \/ export_render_source(i) \/ take_directory(i) \/ take_reference(i)
          \/ take_chart_file(i) \/ render_source(i) \/ validate_raw(i)

DiscoverySpec == DiscoveryInit /\ [][DiscoveryNext]_discoveryVars

-----------------------------------------------------------------------------
\* What a request stands for at a commit, defined without a walk.
Files(commit, paths) == {<<e.path, e.body>> : e \in {x \in Range(Trees[commit]) : x.path \in paths}}

Targets(commit, directory) ==
    {normalize_kustomize_local_reference(directory, r.path) :
        r \in UNION {Range(f[2].refs) : f \in Files(commit, find_kustomization_path(Paths(Trees[commit]), directory))}}

Roots(commit, directory) ==
    LET all == repository_directories(Paths(Trees[commit]))
        closed == {S \in SUBSET all : \A d \in S : Targets(commit, d) \cap all \subseteq S}
    IN  {d \in all : \A S \in closed : directory \in S => d \in S}

StandsFor(commit, q) ==
    LET d == render_source_directory(q)
    IN  CASE source_type(q) = "kustomize" ->
                Files(commit, UNION {find_kustomization_path(Paths(Trees[commit]), r) \cup Targets(commit, r) :
                                        r \in Roots(commit, d)})
          [] source_type(q) = "helm" ->
                Files(commit, {p \in Paths(Trees[commit]) : path_is_under_directory(p, d)} \cup q.values)
          [] OTHER -> Files(commit, {q.path})

(* A batch validation that answers speaks of one revision, the expected    *)
(* one: a manifest it calls valid was rendered from exactly the files the  *)
(* request stands for at that commit (a Kustomize root with everything it  *)
(* reaches, a chart with all of its files), whatever was pushed, forced    *)
(* back or failed between the reads.  Only a tree too large to list is     *)
(* excepted, and then the answer carries the warning.                      *)
BatchIsOneRevision ==
    (reply.kind = "batch" /\ reply.code = 200) =>
        \A i \in DOMAIN reply.verdicts :
            LET v == reply.verdicts[i]
            IN  v.status = "valid" =>
                   \/ v.warned
                   \/ {<<p, v.files[p]>> : p \in DOMAIN v.files} = StandsFor(reply.revision, v.req)

(* Whatever the listing of manifests offers can be attached: every         *)
(* candidate passes the check the batch validation makes against the same  *)
(* tree, although the two classify the tree differently and the listing    *)
(* reads files of later commits.  A file called Kustomization that holds a *)
(* Kubernetes object is excepted: it is offered as YAML and has no YAML    *)
(* extension.                                                              *)
OfferedIsAttachable ==
    (reply.kind = "candidates" /\ reply.code = 200) =>
        \A c \in reply.offered :
            \/ manifest_request_is_attachable(reply.revision, c)
            \/ c.path # <<>> /\ Last(c.path) = "Kustomization"

(* Discovery never tells two stories of one repository: not within a batch *)
(* validation, and not between what it offers and what it then accepts.    *)
DiscoveryIsConsistent == BatchIsOneRevision /\ OfferedIsAttachable
=============================================================================
