-------------------------- MODULE CatalogPipeline ---------------------------
(***************************************************************************)
(* The data catalog's daily batch for one logical date (domains/           *)
(* datacatalog): the Airflow DAG whose tasks are separate transactions,    *)
(* retried and rerun under one run identifier, the command-line run that   *)
(* does the same in one transaction, and the raw archive, whose files are  *)
(* written inside a transaction but do not roll back with it.              *)
(*                                                                         *)
(* A source's answer is a content: what its schema is.  "none" is an       *)
(* answer with no rows.                                                    *)
(***************************************************************************)
EXTENDS Integers, Sequences, FiniteSets, SequencesExt

CONSTANTS
    Source,     \* the catalog's sources
    Content,    \* what a source may answer; Declared is the registered schema
    Declared,
    MaxTries,   \* bound: attempts of an extract task
    MaxRuns     \* bound: reruns of the DAG and command-line runs

ASSUME CatalogAssumption == Declared \in Content /\ "none" \in Content /\ MaxTries \in Nat

VARIABLES
    past,        \* the logical date is before today
    archive,     \* the archive's file of each source, a set of at most one
    collection,  \* catalog_collection_runs, a set of at most one status
    snapshots,   \* catalog_raw_snapshots: content hashes, oldest first
    dagRun,      \* catalog_dag_runs: the run's row
    fields,      \* catalog_observed_rows and _fields: the schemas they come from
    schemas,     \* catalog_schema_observations: the hashes seen
    loaded,      \* catalog_loads: what was counted last
    lineage,     \* catalog_lineage_edges: the sources with an edge
    results,     \* catalog_quality_results
    dagTask,     \* Airflow: the stage, the extracts left and their tries
    turns,
    partial      \* history: a command-line run took only some of the sources, or
                 \* came between the DAG's load and its verdict

catalogTables == <<collection, snapshots, dagRun, fields, schemas, loaded, lineage, results>>
catalogVars == <<past, archive, catalogTables, dagTask, turns, partial>>

HEALTHY_COLLECTION_STATUSES == {"SUCCESS", "NO_DATA"}
Turn == turns < MaxRuns /\ turns' = turns + 1

\* A past date with an archived file is replayed; otherwise the source answers.
extract_source(s) ==
    {[status |-> IF c = "none" THEN "NO_DATA" ELSE "SUCCESS", content |-> c] :
       c \in IF past /\ archive[s] # {} THEN archive[s] ELSE Content}

\* The file is written only when there is none; the hash is the answer's own.
WriteArchive(s, out) ==
    IF archive[s] # {} \/ out.content = "none" THEN archive[s] ELSE {out.content}

archive_raw_snapshot(s, out) ==
    IF out.content = "none" \/ out.content \in Range(snapshots[s]) THEN snapshots[s]
    ELSE Append(snapshots[s], out.content)

open_dag_run == [status |-> "INCOMPLETE", finished |-> FALSE]

upsert_collection_runs(outs) ==
    [s \in Source |-> IF s \in DOMAIN outs THEN {outs[s].status} ELSE collection[s]]

\* The row's own status with what the latest snapshot's file holds.
load_archived_outcomes ==
    [s \in {x \in Source : collection[x] # {}} |->
        [status |-> CHOOSE st \in collection[s] : TRUE,
         content |-> IF snapshots[s] = <<>> THEN "none" ELSE CHOOSE c \in archive[s] : TRUE]]

outcome_ok(out) == out.status \in HEALTHY_COLLECTION_STATUSES

With(outs) == {s \in DOMAIN outs : outs[s].content # "none"}

Add(table, outs) ==
    [s \in Source |-> table[s] \cup (IF s \in With(outs) THEN {outs[s].content} ELSE {})]

\* Rows and fields are upserted by key: a field a later answer lacks stays.
normalize_asset_schema(outs) == Add(fields, outs)

\* The schema history only grows.
record_schema_observations(outs) == Add(schemas, outs)

load_catalog(outs) ==
    [s \in Source |-> IF s \in With(outs) THEN {outs[s].content} ELSE loaded[s]]

record_lineage(outs) == lineage \cup {s \in With(outs) : outcome_ok(outs[s])}

\* A bug for resolve_dag_run_status: a load that failed is not asked about.
resolve_from_sources(rows, complete) ==
    LET statuses == UNION {rows[s] : s \in Source}
    IN  [finished |-> TRUE,
         status |-> IF statuses \subseteq {"FAILED"} THEN "FAILED"
                    ELSE IF statuses \subseteq HEALTHY_COLLECTION_STATUSES
                    THEN "SUCCESS" ELSE "PARTIAL"]

\* The run's status from the recorded sources and whether the load was done.
resolve_dag_run_status(rows, complete) ==
    LET statuses == UNION {rows[s] : s \in Source}
    IN  [finished |-> TRUE,
         status |-> CASE statuses \subseteq {"FAILED"} -> "FAILED"
                      [] ~(statuses \subseteq {"FAILED"}) /\ ~complete -> "INCOMPLETE"
                      [] OTHER -> IF statuses \subseteq HEALTHY_COLLECTION_STATUSES
                                  THEN "SUCCESS" ELSE "PARTIAL"]

-----------------------------------------------------------------------------
\* The checks, over the tables as they are.  A finding has a subject.
source_coverage(rows) ==
    {[subject |-> s, finding |-> IF rows[s] = {} THEN "ENABLED_BUT_SILENT" ELSE "NEVER_HEALTHY"] :
       s \in {x \in Source : rows[x] \cap HEALTHY_COLLECTION_STATUSES = {}}}

schema_drift(seen) ==
    {[subject |-> s, finding |-> "UNDECLARED_FIELD"] : s \in {x \in Source : seen[x] \ {Declared} # {}}}

unversioned_change(hashes) ==
    {[subject |-> s, finding |-> "SCHEMA_DRIFT"] : s \in {x \in Source : Cardinality(hashes[x]) > 1}}

freshness(seen) ==
    {[subject |-> s, finding |-> "NEVER_OBSERVED"] : s \in {x \in Source : seen[x] = {}}}

lineage_break(edges) ==
    IF edges = {} THEN {[subject |-> "ops", finding |-> "NO_UPSTREAM"]} ELSE {}

\* A run recorded as better than it was, given the results written so far.
run_consistency(rows, run, snaps, checked) ==
    {[subject |-> "run", finding |-> f] :
       f \in {x \in {"SOURCE_FAILED_BUT_RUN_SUCCESS", "SUCCESS_WITHOUT_ANY_CHECK",
                     "TERMINAL_WITHOUT_FINISH", "SUCCESS_WITHOUT_SNAPSHOT",
                     "SUCCESS_WITH_NEW_ERRORS"} :
                /\ run.status \in {"SUCCESS", "PARTIAL"}
                /\ x # "TERMINAL_WITHOUT_FINISH" => run.status = "SUCCESS"
                /\ CASE x = "SOURCE_FAILED_BUT_RUN_SUCCESS" -> \E s \in Source : "FAILED" \in rows[s]
                     [] x = "SUCCESS_WITHOUT_ANY_CHECK" -> checked = {}
                     [] x = "TERMINAL_WITHOUT_FINISH" -> ~run.finished
                     [] x = "SUCCESS_WITHOUT_SNAPSHOT" -> \A s \in Source : snaps[s] = <<>>
                     [] x = "SUCCESS_WITH_NEW_ERRORS" ->
                           \E r \in checked : r.status = "failed" /\ r.check # "freshness"}}

\* A check that finds nothing leaves a passed row; a row replaces the one of
\* its check and subject, and no row is ever removed.
write_result(before, check, found) ==
    LET new == IF found = {} THEN {[check |-> check, subject |-> "-", status |-> "passed"]}
               ELSE {[check |-> check, subject |-> f.subject, status |-> "failed"] : f \in found}
    IN  new \cup {r \in before : \A n \in new : <<n.check, n.subject>> # <<r.check, r.subject>>}

\* The checks one after the other; the last one reads what the others wrote.
run_checks(rows, run, snaps, seen, hashes, edges) ==
    LET r1 == write_result(results, "source_coverage", source_coverage(rows))
        r2 == write_result(r1, "schema_drift", schema_drift(seen))
        r3 == write_result(r2, "unversioned_change", unversioned_change(hashes))
        r4 == write_result(r3, "freshness", freshness(seen))
        r5 == write_result(r4, "lineage_break", lineage_break(edges))
    IN  write_result(r5, "run_consistency", run_consistency(rows, run, snaps, r5))

-----------------------------------------------------------------------------
FirstTask == [stage |-> "extract", left |-> Source, tries |-> [s \in Source |-> 0], done |-> FALSE]

\* A mapped extract task: the run is opened, the source's row and its snapshot
\* recorded in one transaction.
extract ==
    /\ dagTask.stage = "extract"
    /\ \E s \in dagTask.left : \E out \in extract_source(s) :
          /\ dagRun' = {open_dag_run}
          /\ collection' = upsert_collection_runs(s :> out)
          /\ archive' = [archive EXCEPT ![s] = WriteArchive(s, out)]
          /\ snapshots' = [snapshots EXCEPT ![s] = archive_raw_snapshot(s, out)]
          /\ dagTask' = [dagTask EXCEPT !.left = @ \ {s}]
    /\ UNCHANGED <<past, fields, schemas, loaded, lineage, results, turns, partial>>

\* The source raises, or the transaction fails after the file was written; the
\* task is tried again until its retries are used up.
ExtractFails ==
    /\ dagTask.stage = "extract"
    /\ \E s \in dagTask.left :
          /\ archive' \in {archive} \cup
                {[archive EXCEPT ![s] = WriteArchive(s, out)] : out \in extract_source(s)}
          /\ dagTask' = [dagTask EXCEPT !.tries[s] = @ + 1,
                                  !.left = IF dagTask.tries[s] + 1 < MaxTries THEN @ ELSE @ \ {s}]
    /\ UNCHANGED <<past, catalogTables, turns, partial>>

\* All extracts done, however they ended: the archive is loaded, or the task
\* fails and everything it wrote is rolled back.
archive_and_load ==
    /\ dagTask.stage = "extract" /\ dagTask.left = {}
    /\ LET outs == load_archived_outcomes
       IN  \/ /\ \E s \in DOMAIN outs : outcome_ok(outs[s])
              /\ dagRun' = {open_dag_run}
              /\ fields' = normalize_asset_schema(outs)
              /\ schemas' = record_schema_observations(outs)
              /\ loaded' = load_catalog(outs)
              /\ lineage' = record_lineage(outs)
              /\ dagTask' = [FirstTask EXCEPT !.stage = "resolve", !.left = {}, !.done = TRUE]
           \/ /\ dagTask' = [FirstTask EXCEPT !.stage = "resolve", !.left = {}]
              /\ UNCHANGED <<dagRun, fields, schemas, loaded, lineage>>
    /\ UNCHANGED <<past, archive, collection, snapshots, results, turns, partial>>

\* The status is confirmed, or the task fails and the run stays as it is.
resolve_status ==
    /\ dagTask.stage = "resolve"
    /\ \/ /\ dagRun' = {resolve_dag_run_status(collection, dagTask.done)}
          /\ dagTask' = [dagTask EXCEPT !.stage = "publish"]
       \/ dagRun' = dagRun /\ dagTask' = [dagTask EXCEPT !.stage = "done"]
    /\ UNCHANGED <<past, archive, collection, snapshots, fields, schemas, loaded, lineage, results, turns,
                   partial>>

publish_quality_report ==
    /\ dagTask.stage = "publish"
    /\ dagTask' = [dagTask EXCEPT !.stage = "done"]
    /\ \E run \in dagRun :
          results' = run_checks(collection, run, snapshots, fields, schemas, lineage)
    /\ UNCHANGED <<past, archive, collection, snapshots, dagRun, fields, schemas, loaded, lineage, turns,
                   partial>>

\* The DAG run is cleared and runs again, or the day is over.
RunAgain ==
    /\ Turn /\ dagTask.stage = "done"
    /\ dagTask' = FirstTask
    /\ past' \in {past, TRUE}
    /\ UNCHANGED <<archive, catalogTables, partial>>

\* The command-line run: some or all of the sources, some made to fail, the
\* load possibly skipped, in one transaction.
run_once ==
    /\ Turn
    /\ \E only \in (SUBSET Source) \ {{}}, failed \in SUBSET Source, skip \in BOOLEAN :
       \E outs \in [only -> UNION {extract_source(s) : s \in only} \cup
                            {[status |-> "FAILED", content |-> "none"]}] :
          /\ \A s \in only : IF s \in failed THEN outs[s].status = "FAILED"
                             ELSE outs[s] \in extract_source(s)
          /\ collection' = upsert_collection_runs(outs)
          /\ IF \A s \in only : ~outcome_ok(outs[s])
             THEN /\ dagRun' = {resolve_dag_run_status(collection', FALSE)}
                  /\ UNCHANGED <<archive, snapshots, fields, schemas, loaded, lineage, results>>
             ELSE LET done == IF skip THEN <<>> ELSE outs
                  IN  /\ archive' = [s \in Source |-> IF s \in With(outs)
                                        THEN WriteArchive(s, outs[s]) ELSE archive[s]]
                      /\ snapshots' = [s \in Source |-> IF s \in With(outs)
                                          THEN archive_raw_snapshot(s, outs[s]) ELSE snapshots[s]]
                      /\ fields' = normalize_asset_schema(done)
                      /\ schemas' = record_schema_observations(done)
                      /\ loaded' = load_catalog(done)
                      /\ lineage' = record_lineage(done)
                      /\ dagRun' = {resolve_dag_run_status(collection', ~skip)}
                      /\ results' = run_checks(collection', CHOOSE d \in dagRun' : TRUE, snapshots',
                                               fields', schemas', lineage')
          /\ partial' = (partial \/ only # Source \/ dagTask.stage = "resolve")
    /\ UNCHANGED <<past, dagTask>>

CatalogInit ==
    /\ past \in BOOLEAN
    /\ archive = [s \in Source |-> {}] /\ collection = [s \in Source |-> {}]
    /\ snapshots = [s \in Source |-> <<>>] /\ dagRun = {}
    /\ fields = [s \in Source |-> {}] /\ schemas = [s \in Source |-> {}] /\ loaded = [s \in Source |-> {}]
    /\ lineage = {} /\ results = {}
    /\ dagTask = FirstTask /\ turns = 0 /\ partial = FALSE

CatalogNext ==
    \/ extract \/ ExtractFails \/ archive_and_load \/ resolve_status \/ publish_quality_report
    \/ RunAgain \/ run_once

CatalogSpec == CatalogInit /\ [][CatalogNext]_catalogVars

-----------------------------------------------------------------------------
\* What the query API says of the latest run: its status and the reasons.
latest_evidence ==
    IF dagRun = {} THEN [status |-> "NEVER_RUN", reasons |-> {}]
    ELSE LET run == CHOOSE d \in dagRun : TRUE
         IN  [status |-> run.status,
              reasons |-> IF run.status = "SUCCESS" THEN {}
                          ELSE {s \in Source : collection[s] \ HEALTHY_COLLECTION_STATUSES # {}}]

(* The query API never shows a run as better than it was, across retries,  *)
(* reruns, failed tasks and command-line runs of the same date: a SUCCESS  *)
(* run has no failed source and has loaded every source recorded as        *)
(* successful (unless a command-line run was restricted to some of the     *)
(* sources or ran between the DAG's load and its verdict), a PARTIAL run   *)
(* names the source that failed, and the catalog's own check finds no run  *)
(* that succeeded with a failed source or ended without an end time.       *)
EvidenceIsHonest ==
    /\ latest_evidence.status = "SUCCESS" =>
          \A s \in Source : /\ "FAILED" \notin collection[s]
                            /\ "SUCCESS" \in collection[s] /\ ~partial => s \in lineage
    /\ latest_evidence.status = "PARTIAL" => latest_evidence.reasons # {}
    /\ \A run \in dagRun : \A f \in run_consistency(collection, run, snapshots, results) :
          f.finding \notin {"SOURCE_FAILED_BUT_RUN_SUCCESS", "TERMINAL_WITHOUT_FINISH"}
=============================================================================
