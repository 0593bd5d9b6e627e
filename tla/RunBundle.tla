----------------------------- MODULE RunBundle -----------------------------
(***************************************************************************)
(* From a run plan to a run bundle: harness/planning.py, the executions it *)
(* leads to, harness/aggregation.py and the loader and roll-up of          *)
(* harness/analysis.py, as `pt-bench plan`, `execute` and `aggregate`      *)
(* drive them.                                                             *)
(*                                                                         *)
(* An execution directory is seen from outside, as ExecutionContract has   *)
(* it: what it measured, for which plan and position, whether it has a     *)
(* manifest and whether it holds together.  `root[i]` is the i-th          *)
(* directory below the executions root, in the order rglob's sorted paths  *)
(* are read.  The output directory is a tree of files; one execution is    *)
(* copied in one step, because nothing can be read from a tree without its *)
(* manifest and checksums, which are written last and one after the other. *)
(* Nothing measures while an aggregation runs: the lanes' aggregate job    *)
(* needs the others to end.                                                *)
(***************************************************************************)
EXTENDS Analysis

CONSTANTS
  SubjectId,
  Subject,        \* an id and a version, numbered in the order versions sort in
  Check,          \* the checks of every plan
  Requests,       \* what may be planned: subjects, repetitions and execution mode
  Measured,       \* statuses an execution may report
  MaxRepetition,  \* bound: the repetition `execute` is asked for
  Slots,          \* bound: execution directories
  MaxPlans,       \* bound: plans
  MaxExecutions,  \* bound: executions
  MaxBundles,     \* bound: aggregations that reach the manifest
  MaxFaults,      \* bound: kills, unsealed or unredacted executions, damage
  Absent          \* no such file or directory

ASSUME RunBundleAssumption ==
  /\ IsFiniteSet(Subject)
  /\ Subject \subseteq [id : SubjectId, version : 1..Cardinality(Subject)]
  /\ Check # {}
  /\ Measured \subseteq Statuses
  /\ {MaxRepetition, Slots, MaxPlans, MaxExecutions, MaxBundles, MaxFaults} \subseteq Nat
  /\ \A r \in Requests :
       /\ r.subjects \in (SUBSET Subject) \ {{}}
       /\ r.repetitions \in 1..MaxRepetition
       /\ r.mode \in {"local", "github_actions"}

Slot == 1..Slots
Mode == {"local", "github_actions"}
Position(e) == <<e.subject, e.repetition>>

(* Where its results go: the version has no part in it.                    *)
Place(e) == <<e.subject.id, e.repetition>>
Places == SubjectId \X (1..MaxRepetition)

(***************************************************************************)
(* What an execution's results say, those its finalization fills in too.   *)
(* `listed`: it has a manifest.json.  `sealed`: its checksums hold and its *)
(* results and evidence are what aggregate_run reads them for (of this     *)
(* execution, one payload each, of the recorded hash and size).            *)
(***************************************************************************)
Execution ==
  [id : 1..MaxExecutions, plan : 1..MaxPlans, subject : Subject,
   repetition : 1..MaxRepetition, verdict : [Check -> Measured],
   redacted : BOOLEAN, listed : BOOLEAN, sealed : BOOLEAN]
Plan ==
  [id : 1..MaxPlans, subjects : SUBSET Subject, repetitions : 1..MaxRepetition,
   mode : Mode]
Result == [execution : 1..MaxExecutions, status : Measured]
Evidence == [execution : 1..MaxExecutions, check : Check, redacted : BOOLEAN]
Manifest ==
  [bundle : 1..MaxBundles, plan : Plan, complete : BOOLEAN,
   missing : SUBSET Subject, executions : SUBSET Execution]

ASSUME AbsentAssumption ==
  Absent \notin Result /\ Absent \notin Manifest /\ Absent \notin Plan

VARIABLES
  plan,       \* the run plan, or Absent
  root,       \* the execution directories
  results,    \* output directory: results/<subject id>/<repetition>/<check>.json
  evidence,   \* output directory: the evidence records and payloads
  manifest,   \* output directory: manifest.json
  checksums,  \* output directory: {what checksums.sha256 was computed from}, or {}
  pc,         \* where aggregate_run is
  at,         \* the manifest path it is at
  taken,      \* `manifests`: the executions it has copied
  executed,   \* executions so far
  bundles,    \* bundles so far
  faults      \* faults so far

tree == <<results, evidence, manifest, checksums>>
process == <<pc, at, taken>>
vars == <<plan, root, tree, process, executed, bundles, faults>>

TypeOK ==
  /\ plan = Absent \/ plan \in Plan
  /\ DOMAIN root = Slot
  /\ \A i \in Slot : root[i] = Absent \/ root[i] \in Execution
  /\ DOMAIN results = Places \X Check
  /\ \A p \in DOMAIN results : results[p] = Absent \/ results[p] \in Result
  /\ evidence \subseteq Evidence
  /\ manifest = Absent \/ manifest \in Manifest
  /\ pc \in {"off", "clear", "collect", "conclude", "seal"}
  /\ at \in 1..(Slots + 1)
  /\ taken \subseteq Execution
  /\ executed \in 0..MaxExecutions
  /\ bundles \in 0..MaxBundles
  /\ faults \in 0..MaxFaults

NoResults == [p \in Places \X Check |-> Absent]

NoExecutions == [i \in Slot |-> Absent]

Init ==
  /\ plan = Absent
  /\ root = NoExecutions
  /\ results = NoResults /\ evidence = {} /\ manifest = Absent /\ checksums = {}
  /\ pc = "off" /\ at = 1 /\ taken = {}
  /\ executed = 0 /\ bundles = 0 /\ faults = 0

-----------------------------------------------------------------------------
(***************************************************************************)
(* `pt-bench plan` and `pt-bench execute`.                                 *)
(***************************************************************************)
PlanId == IF plan = Absent THEN 0 ELSE plan.id

NextPlan(request) ==
  [id |-> PlanId + 1,
   subjects |-> request.subjects, repetitions |-> request.repetitions,
   mode |-> request.mode]

(* build_run_plan; `approved` is the operational policy's say, of which    *)
(* the publication module knows more.  Its executions go below the same    *)
(* root as those of the plan before, or below a new one.  Bound: a plan    *)
(* that nothing was measured for is not replaced, which would only number  *)
(* the plans anew.                                                         *)
BuildRunPlan(request, approved) ==
  /\ pc = "off"
  /\ PlanId < MaxPlans
  /\ plan # Absent => \E i \in Slot : root[i] # Absent /\ root[i].plan = PlanId
  /\ request.mode = "github_actions" => approved
  /\ plan' = NextPlan(request)
  /\ root' \in {root, NoExecutions}
  /\ UNCHANGED <<tree, process, executed, bundles, faults>>

(* A directory is named by the client's id and the repetition.  It can     *)
(* only be used again with --force; a different output directory gives a   *)
(* second one.                                                             *)
Usable(i, place) ==
  \/ root[i] = Absent /\ \A j \in 1..(i - 1) : root[j] # Absent
  \/ root[i] # Absent /\ Place(root[i]) = place

(* `execute` takes an id that names exactly one planned subject.           *)
Named(subject) == {s \in plan.subjects : s.id = subject.id} = {subject}

(* A lane measures a position of the plan; it may be killed before the     *)
(* manifest is there, or before the directory is sealed, and an adapter    *)
(* may leave evidence unredacted.                                          *)
Execute(i, e) ==
  /\ pc = "off" /\ plan # Absent /\ executed < MaxExecutions
  /\ Named(e.subject)
  /\ e.sealed => e.listed
  /\ Usable(i, Place(e))
  /\ faults' = faults + (IF e.sealed THEN 0 ELSE 1) + (IF e.redacted THEN 0 ELSE 1)
  /\ faults' <= MaxFaults
  /\ root' = [root EXCEPT ![i] = e]
  /\ executed' = executed + 1
  /\ UNCHANGED <<plan, tree, process, bundles>>

(* What can be measured next: ids are fresh, and the plan is the current   *)
(* one.                                                                    *)
Executions ==
  IF plan = Absent THEN {}
  ELSE [id : {executed + 1}, plan : {plan.id}, subject : Subject,
        repetition : 1..MaxRepetition, verdict : [Check -> Measured],
        redacted : BOOLEAN, listed : BOOLEAN, sealed : BOOLEAN]

(* `pt-bench finalize` on a directory that was left unfinished. *)
Finalize(i) ==
  /\ pc = "off"
  /\ root[i] # Absent /\ ~root[i].sealed
  /\ root' = [root EXCEPT ![i].listed = TRUE, ![i].sealed = TRUE]
  /\ UNCHANGED <<plan, tree, process, executed, bundles, faults>>

-----------------------------------------------------------------------------
(***************************************************************************)
(* aggregate_run.                                                          *)
(***************************************************************************)
Contents == <<results, evidence, manifest>>
Empty == Contents = <<NoResults, {}, Absent>> /\ checksums = {}

Return == pc' = "off" /\ at' = 1 /\ taken' = {}

(* rglob("manifest.json"): a directory killed before it had one is not     *)
(* seen at all.                                                            *)
Listed(i) == root[i] # Absent /\ root[i].listed

(* An output directory that is not empty needs --force and is removed.     *)
Aggregate ==
  /\ pc = "off" /\ plan # Absent /\ bundles < MaxBundles
  /\ \E i \in Slot : Listed(i)
  /\ pc' = IF Empty THEN "collect" ELSE "clear"
  /\ UNCHANGED <<plan, root, tree, at, taken, executed, bundles, faults>>

Clear ==
  /\ pc = "clear"
  /\ results' = NoResults /\ evidence' = {} /\ manifest' = Absent /\ checksums' = {}
  /\ pc' = "collect"
  /\ UNCHANGED <<plan, root, at, taken, executed, bundles, faults>>

(* Mutant: any repetition is taken. *)
AcceptableBeyond(e) ==
  /\ e.sealed
  /\ e.plan = plan.id
  /\ e.subject \in plan.subjects
  /\ \A f \in taken : Position(f) # Position(e)

Acceptable(e) ==
  /\ e.sealed
  /\ e.plan = plan.id
  /\ e.subject \in plan.subjects
  /\ \A f \in taken : Position(f) # Position(e)
  /\ e.repetition \in 1..plan.repetitions

CopyOf(e) ==
  [p \in Places \X Check |->
     IF p[1] = Place(e) THEN [execution |-> e.id, status |-> e.verdict[p[2]]]
                        ELSE results[p]]

(* An error result refers to no evidence. *)
EvidenceOf(e) ==
  {[execution |-> e.id, check |-> c, redacted |-> e.redacted] :
     c \in {d \in Check : e.verdict[d] # "error"}}

Collect ==
  /\ pc = "collect" /\ at \in Slot
  /\ Listed(at) => Acceptable(root[at])
  /\ IF Listed(at)
       THEN /\ results' = CopyOf(root[at])
            /\ evidence' = evidence \cup EvidenceOf(root[at])
            /\ taken' = taken \cup {root[at]}
            /\ UNCHANGED <<manifest, checksums>>
       ELSE UNCHANGED <<tree, taken>>
  /\ at' = at + 1
  /\ pc' = IF at = Slots THEN "conclude" ELSE pc
  /\ UNCHANGED <<plan, root, executed, bundles, faults>>

(* Mutant: an execution that cannot be taken is skipped. *)
RefuseSkipping ==
  /\ pc = "collect" /\ at \in Slot
  /\ Listed(at) /\ ~Acceptable(root[at])
  /\ at' = at + 1
  /\ pc' = IF at = Slots THEN "conclude" ELSE pc
  /\ UNCHANGED <<plan, root, tree, taken, executed, bundles, faults>>

(* AggregationError: what was copied stays behind. *)
Refuse ==
  /\ pc = "collect" /\ at \in Slot
  /\ Listed(at) /\ ~Acceptable(root[at])
  /\ Return
  /\ UNCHANGED <<plan, root, tree, executed, bundles, faults>>

RepetitionsTaken(s) == Cardinality({e \in taken : e.subject = s})
SubjectsTaken == {e.subject : e \in taken}
Missing ==
  {s \in SubjectsTaken : RepetitionsTaken(s) < plan.repetitions}
    \cup (plan.subjects \ SubjectsTaken)
ExpectedExecutions == Cardinality(plan.subjects) * plan.repetitions

(* Mutant: a bundle takes its id from the plan. *)
ConcludePlan ==
  /\ pc = "conclude"
  /\ manifest' =
       [bundle |-> plan.id, plan |-> plan,
        complete |-> Missing = {} /\ Cardinality(taken) >= ExpectedExecutions,
        missing |-> Missing, executions |-> taken]
  /\ bundles' = bundles + 1
  /\ pc' = "seal"
  /\ UNCHANGED <<plan, root, results, evidence, checksums, at, taken, executed, faults>>

(* Mutant: a bundle takes the id before its own. *)
ConcludeLast ==
  /\ pc = "conclude"
  /\ manifest' =
       [bundle |-> bundles, plan |-> plan,
        complete |-> Missing = {} /\ Cardinality(taken) >= ExpectedExecutions,
        missing |-> Missing, executions |-> taken]
  /\ bundles' = bundles + 1
  /\ pc' = "seal"
  /\ UNCHANGED <<plan, root, results, evidence, checksums, at, taken, executed, faults>>

(* A duplicate execution id would be refused here; executions differ in    *)
(* their ids, so that guard never closes.                                  *)
Conclude ==
  /\ pc = "conclude"
  /\ manifest' =
       [bundle |-> bundles + 1, plan |-> plan,
        complete |-> Missing = {} /\ Cardinality(taken) >= ExpectedExecutions,
        missing |-> Missing, executions |-> taken]
  /\ bundles' = bundles + 1
  /\ pc' = "seal"
  /\ UNCHANGED <<plan, root, results, evidence, checksums, at, taken, executed, faults>>

Seal ==
  /\ pc = "seal"
  /\ checksums' = {Contents}
  /\ Return
  /\ UNCHANGED <<plan, root, results, evidence, manifest, executed, bundles, faults>>

(* The process is killed; while it removes the old tree, with a part of it *)
(* gone.                                                                   *)
Kill ==
  /\ pc # "off" /\ faults < MaxFaults
  /\ faults' = faults + 1
  /\ Return
  /\ \/ UNCHANGED tree
     \/ /\ pc = "clear"
        /\ manifest' \in {manifest, Absent}
        /\ checksums' \in {checksums, {}}
        /\ results' \in {results, NoResults}
        /\ evidence' \in {evidence, {}}
  /\ UNCHANGED <<plan, root, executed, bundles>>

(* Somebody edits or adds a file of the bundle: a stored status changes.   *)
Damage(p, status) ==
  /\ pc = "off" /\ faults < MaxFaults
  /\ results[p] # Absent /\ results[p].status # status
  /\ results' = [results EXCEPT ![p].status = status]
  /\ faults' = faults + 1
  /\ UNCHANGED <<plan, root, evidence, manifest, checksums, process, executed, bundles>>

-----------------------------------------------------------------------------
(***************************************************************************)
(* load_bundle and rollup_bundle.                                          *)
(***************************************************************************)
(* A manifest, and every result it speaks of in its place, as the          *)
(* execution's own.                                                        *)
Legible(contents) ==
  LET files == contents[1]
      m == contents[3]
  IN  /\ m # Absent
      /\ \A e \in m.executions, c \in Check :
           /\ files[<<Place(e), c>>] # Absent
           /\ files[<<Place(e), c>>].execution = e.id

(* Mutant: a bundle is read without verifying its checksums. *)
LoadsUnverified == Legible(Contents)

Loads == checksums = {Contents} /\ Legible(Contents)

(* The results of a row, from a bundle's files; a repetition per execution *)
RowResults(files, m, s, c) ==
  [k \in {e.repetition : e \in {f \in m.executions : f.subject = s}} |->
     files[<<<<s.id, k>>, c>>].status]

Rollup(files, m) ==
  [row \in m.plan.subjects \X Check |->
     CheckRollup(RowResults(files, m, row[1], row[2]), m.plan.repetitions)]

-----------------------------------------------------------------------------
Environment ==
  \/ \E i \in Slot, e \in Executions : Execute(i, e)
  \/ \E i \in Slot : Finalize(i)
  \/ \E p \in DOMAIN results, s \in Measured : Damage(p, s)
  \/ Kill

Aggregation ==
  \/ Aggregate \/ Clear \/ Collect \/ Refuse \/ Conclude \/ Seal
=============================================================================
