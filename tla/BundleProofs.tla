---------------------------- MODULE BundleProofs ----------------------------
(***************************************************************************)
(* What a run bundle says, and what may be staged, for any plans, number   *)
(* of subjects, repetitions and executions, kills and damage; and that     *)
(* aggregation implements its contract.                                    *)
(***************************************************************************)
EXTENDS PublicationProofs, FiniteSetTheorems, WellFoundedInduction

USE DEF vars, tree, process, publication, allVars

(***************************************************************************)
(* Counting.  aggregate_run compares two counts with the plan; what they   *)
(* amount to depends on no position being taken twice.                     *)
(***************************************************************************)

(* A subject is measured in every repetition when as many executions of it *)
(* were taken as there are repetitions.                                    *)
LEMMA RepetitionCount ==
  ASSUME NEW T, NEW s, NEW n \in Nat,
         \A e \in T : e.repetition \in 1..n,
         \A e, f \in T : Position(e) = Position(f) => e = f
  PROVE  LET R == {e \in T : e.subject = s}
         IN  /\ Cardinality(R) \in Nat
             /\ Cardinality(R) >= n <=> \A k \in 1..n : \E e \in T : Position(e) = <<s, k>>
<1>. DEFINE R == {e \in T : e.subject = s}
            F == [e \in R |-> e.repetition]
<1>1. IsFiniteSet(1..n) /\ Cardinality(1..n) = n
  BY FS_Interval
<1>2. F \in [R -> 1..n]
  OBVIOUS
<1>3. \A e, f \in R : F[e] = F[f] => e = f
  BY DEF Position
<1>4. F \in Injection(R, 1..n)
  BY <1>2, <1>3 DEF Injection, IsInjective
<1>. HIDE DEF F, R
<1>5. /\ IsFiniteSet(R) /\ Cardinality(R) <= n
      /\ Cardinality(R) = n <=> F \in Surjection(R, 1..n)
  BY <1>1, <1>4, FS_Injection
<1>6. Cardinality(R) \in Nat
  BY <1>5, FS_CardinalityType
<1>7. F \in Surjection(R, 1..n) <=> \A k \in 1..n : \E e \in R : F[e] = k
  BY <1>2 DEF Surjection
<1>8. (\A k \in 1..n : \E e \in R : F[e] = k)
        <=> \A k \in 1..n : \E e \in T : Position(e) = <<s, k>>
  BY DEF F, R, Position
<1>. QED  BY <1>5, <1>6, <1>7, <1>8 DEF R

(* When every planned position is measured there are enough executions.    *)
LEMMA PositionCount ==
  ASSUME NEW T, NEW S, IsFiniteSet(S), NEW n \in Nat,
         \A e \in T : e.subject \in S /\ e.repetition \in 1..n,
         \A e, f \in T : Position(e) = Position(f) => e = f,
         \A s \in S, k \in 1..n : \E e \in T : Position(e) = <<s, k>>
  PROVE  Cardinality(T) >= Cardinality(S) * n
<1>. DEFINE F == [e \in T |-> Position(e)]
<1>1. IsFiniteSet(1..n) /\ Cardinality(1..n) = n
  BY FS_Interval
<1>2. IsFiniteSet(S \X (1..n)) /\ Cardinality(S \X (1..n)) = Cardinality(S) * n
  BY <1>1, FS_Product
<1>3. F \in [T -> S \X (1..n)]
  BY DEF Position
<1>4. F \in Injection(T, S \X (1..n))
  BY <1>3 DEF Injection, IsInjective
<1>5. \A p \in S \X (1..n) : \E e \in T : F[e] = p
  <2>. SUFFICES ASSUME NEW s \in S, NEW k \in 1..n PROVE \E e \in T : F[e] = <<s, k>>
    OBVIOUS
  <2>. QED  OBVIOUS
<1>. HIDE DEF F
<1>6. F \in Surjection(T, S \X (1..n))
  BY <1>3, <1>5 DEF Surjection
<1>7. Cardinality(T) = Cardinality(S) * n
  BY <1>2, <1>4, <1>6, FS_Injection
<1>8. Cardinality(S) * n \in Nat
  BY <1>2, FS_CardinalityType
<1>. QED  BY <1>7, <1>8

-----------------------------------------------------------------------------
(***************************************************************************)
(* The inductive invariant.  What was taken so far is what the directories *)
(* passed by hold, copied; a manifest counts right; whatever has checksums *)
(* is a bundle whose files agree with its manifest; a receipt holds such a *)
(* bundle.                                                                 *)
(***************************************************************************)
Members(p, T) ==
  /\ p \in Plan /\ T \subseteq Execution
  /\ \A e \in T :
       e.sealed /\ e.plan = p.id /\ e.subject \in p.subjects /\ e.repetition \in 1..p.repetitions
  /\ \A e, f \in T : Position(e) = Position(f) => e = f
  /\ \A e, f \in T : e.id = f.id => e = f

(* A result's place holds the result of an execution that has it for its   *)
(* own: another version's may have gone over it.                           *)
Copied(T, files, records) ==
  /\ \A e \in T, c \in Check :
       \E f \in T : /\ Place(f) = Place(e)
                    /\ files[<<Place(e), c>>] = [execution |-> f.id, status |-> f.verdict[c]]
  /\ \A e \in T : EvidenceOf(e) \subseteq records

(* Every execution's results are its own. *)
Exact(T, files) ==
  \A e \in T, c \in Check :
    files[<<Place(e), c>>] = [execution |-> e.id, status |-> e.verdict[c]]

AllMeasured(p, T) ==
  \A s \in p.subjects, k \in 1..p.repetitions : \E e \in T : Position(e) = <<s, k>>

Counts(m) ==
  /\ m.complete <=> AllMeasured(m.plan, m.executions)
  /\ m.complete <=> m.missing = {}

SoundManifest(m) == m \in Manifest /\ Members(m.plan, m.executions) /\ Counts(m)

SoundBundle(x) ==
  x[3] # Absent /\ SoundManifest(x[3]) /\ Copied(x[3].executions, x[1], x[2])

Passed == {root[j] : j \in {k \in 1..(at - 1) : Listed(k)}}

Numbered ==
  /\ \A i \in Slot : root[i] # Absent => root[i].id <= executed
  /\ \A i, j \in Slot :
       root[i] # Absent /\ root[j] # Absent /\ root[i].id = root[j].id => i = j

Gathering ==
  /\ pc # "off" => plan # Absent /\ \E i \in Slot : Listed(i)
  /\ pc \in {"off", "clear"} => at = 1 /\ taken = {}
  /\ pc = "collect" => at \in Slot
  /\ pc \in {"conclude", "seal"} => at = Slots + 1
  /\ pc \in {"collect", "conclude", "seal"} =>
       taken = Passed /\ Members(plan, taken) /\ Copied(taken, results, evidence)
  /\ pc = "seal" => manifest # Absent /\ manifest.plan = plan /\ manifest.executions = taken

Readable ==
  /\ manifest # Absent => SoundManifest(manifest)
  /\ \A x \in checksums : SoundBundle(x)

Earned(b, receipt) ==
  LET x == receipt.digest
      under == receipt.policy
  IN  /\ SoundBundle(x) /\ Legible(x)
      /\ x[3].bundle = b /\ x[3].complete /\ x[3].plan.mode = "github_actions"
      /\ under.active
      /\ \A e \in x[3].executions : e.subject \in under.approved
      /\ under.redaction_required => \A r \in x[2] : r.redacted

Staged == \A b \in 1..MaxBundles : receipts[b] # Absent => Earned(b, receipts[b])

BundleInv == PublicationTypeOK /\ Numbered /\ Gathering /\ Readable /\ Staged

(* The bounds are numbers.                                                 *)
LEMMA Bounds ==
  {MaxRepetition, Slots, MaxPlans, MaxExecutions, MaxBundles, MaxFaults} \subseteq Nat
  BY RunBundleAssumption

(* Before the first plan there is nothing to read.                         *)
LEMMA BundleInitially == PublicationInit => BundleInv
<1>. SUFFICES ASSUME PublicationInit PROVE BundleInv
  OBVIOUS
<1>. USE DEF PublicationInit, Init
<1>1. PublicationTypeOK
  BY Bounds DEF PublicationTypeOK, TypeOK, NoResults, NoExecutions, Evidence
<1>2. Numbered /\ Gathering /\ Readable /\ Staged
  BY DEF Numbered, Gathering, Readable, Staged, NoExecutions
<1>. QED  BY <1>1, <1>2 DEF BundleInv

(* What can be read stays sound while files only disappear.                *)
LEMMA StillReadable ==
  ASSUME Readable, manifest' \in {manifest, Absent}, checksums' \subseteq checksums
  PROVE  Readable'
  BY DEF Readable

LEMMA StillStaged ==
  ASSUME Staged, UNCHANGED receipts
  PROVE  Staged'
  BY DEF Staged

LEMMA StillNumbered ==
  ASSUME Numbered, UNCHANGED <<root, executed>>
  PROVE  Numbered'
  BY DEF Numbered

LEMMA NextPlanType ==
  ASSUME BundleInv, NEW r \in Requests, NEW a, PlanRun(r, a)
  PROVE  NextPlan(r) \in Plan
<1>1. PlanId \in 0..MaxPlans /\ PlanId + 1 \in 1..MaxPlans
  BY Bounds DEF PlanRun, BuildRunPlan, BundleInv, PublicationTypeOK, TypeOK, PlanId, Plan
<1>. QED  BY <1>1, RunBundleAssumption DEF NextPlan, Plan, Mode

(* `pt-bench plan` and `pt-bench execute` only run when no aggregation does. *)
LEMMA PlanStep ==
  ASSUME BundleInv, NEW r \in Requests, NEW a, PlanRun(r, a)
  PROVE  BundleInv'
<1>. USE DEF PlanRun, BuildRunPlan, BundleInv
<1>1. NextPlan(r) \in Plan
  BY NextPlanType
<1>2. PublicationTypeOK'
  BY <1>1 DEF PublicationTypeOK, TypeOK, NoExecutions
<1>3. Gathering' /\ Numbered'
  BY DEF Gathering, Numbered, NoExecutions
<1>. QED  BY <1>2, <1>3, StillReadable, StillStaged

LEMMA ExecuteStep ==
  ASSUME BundleInv, NEW i \in Slot, NEW e \in Executions, Execute(i, e), UNCHANGED publication
  PROVE  BundleInv'
<1>. USE DEF Execute, BundleInv
<1>1. plan \in Plan /\ executed + 1 \in 1..MaxExecutions
  BY Bounds DEF PublicationTypeOK, TypeOK
<1>2. e \in Execution
  BY <1>1 DEF Executions, Execution, Plan
<1>3. faults' \in 0..MaxFaults
  BY Bounds DEF PublicationTypeOK, TypeOK
<1>4. DOMAIN root' = Slot /\ \A j \in Slot : root'[j] = Absent \/ root'[j] \in Execution
  BY <1>2 DEF PublicationTypeOK, TypeOK
<1>5. PublicationTypeOK'
  BY <1>1, <1>3, <1>4 DEF PublicationTypeOK, TypeOK
<1>6. Gathering'
  BY DEF Gathering
<1>7. e.id = executed + 1 /\ executed \in Nat /\ executed' = executed + 1
  BY Bounds DEF Executions, PublicationTypeOK, TypeOK
<1>8. \A j \in Slot : root'[j] = IF j = i THEN e ELSE root[j]
  BY DEF PublicationTypeOK, TypeOK
<1>9. \A j \in Slot : root[j] # Absent => root[j].id \in Nat
  BY Bounds DEF PublicationTypeOK, TypeOK, Execution
<1>10. Numbered'
  BY <1>7, <1>8, <1>9 DEF Numbered
<1>. QED  BY <1>5, <1>6, <1>10, StillReadable, StillStaged

LEMMA FinalizeStep ==
  ASSUME BundleInv, NEW i \in Slot, Finalize(i), UNCHANGED publication
  PROVE  BundleInv'
<1>. USE DEF Finalize, BundleInv
<1>. DEFINE e == [root[i] EXCEPT !.listed = TRUE, !.sealed = TRUE]
<1>1. root[i] \in Execution
  BY DEF PublicationTypeOK, TypeOK
<1>2. e \in Execution /\ e.id = root[i].id
  BY <1>1 DEF Execution
<1>3. root' = [root EXCEPT ![i] = e]
  BY DEF PublicationTypeOK, TypeOK
<1>. HIDE DEF e
<1>4. \A j \in Slot : root'[j] = IF j = i THEN e ELSE root[j]
  BY <1>3 DEF PublicationTypeOK, TypeOK
<1>5. PublicationTypeOK'
  BY <1>2, <1>3, <1>4 DEF PublicationTypeOK, TypeOK
<1>6. Gathering'
  BY DEF Gathering
<1>7. Numbered'
  <2>1. root[i] # Absent /\ executed' = executed
    OBVIOUS
  <2>2. \A j \in Slot : root'[j] # Absent => root[j] # Absent /\ root'[j].id = root[j].id
    BY <1>2, <1>4, <2>1
  <2>. HIDE DEF Finalize
  <2>. QED  BY <2>1, <2>2 DEF Numbered
<1>. QED  BY <1>5, <1>6, <1>7, StillReadable, StillStaged

LEMMA AggregateStep ==
  ASSUME BundleInv, Aggregate, UNCHANGED publication
  PROVE  BundleInv'
<1>. USE DEF Aggregate, BundleInv
<1>1. PublicationTypeOK'
  BY DEF PublicationTypeOK, TypeOK
<1>2. Gathering'
  <2>1. pc' \in {"collect", "clear"} /\ at = 1 /\ taken = {} /\ 1 \in Slot
    BY Bounds DEF Gathering, Slot
  <2>2. Members(plan, {}) /\ Copied({}, results, evidence)
    BY DEF PublicationTypeOK, TypeOK, Members, Copied
  <2>3. Passed' = {}
    BY <2>1 DEF Passed
  <2>. QED  BY <2>1, <2>2, <2>3 DEF Gathering, Listed
<1>. QED  BY <1>1, <1>2, StillNumbered, StillReadable, StillStaged

LEMMA ClearStep ==
  ASSUME BundleInv, Clear, UNCHANGED publication
  PROVE  BundleInv'
<1>. USE DEF Clear, BundleInv
<1>1. PublicationTypeOK'
  BY DEF PublicationTypeOK, TypeOK, NoResults
<1>2. Gathering'
  <2>1. at = 1 /\ taken = {} /\ 1 \in Slot
    BY Bounds DEF Gathering, Slot
  <2>2. Members(plan, {}) /\ Copied({}, results', evidence')
    BY DEF PublicationTypeOK, TypeOK, Gathering, Members, Copied
  <2>3. Passed' = {}
    BY <2>1 DEF Passed
  <2>. QED  BY <2>1, <2>2, <2>3 DEF Gathering, Listed
<1>. QED  BY <1>1, <1>2, StillNumbered, StillReadable, StillStaged

LEMMA RefuseStep ==
  ASSUME BundleInv, Refuse, UNCHANGED publication
  PROVE  BundleInv'
<1>. USE DEF Refuse, Return, BundleInv
<1>1. PublicationTypeOK'
  BY Bounds DEF PublicationTypeOK, TypeOK
<1>2. Gathering'
  BY DEF Gathering
<1>. QED  BY <1>1, <1>2, StillNumbered, StillReadable, StillStaged

LEMMA KillStep ==
  ASSUME BundleInv, Kill, UNCHANGED publication
  PROVE  BundleInv'
<1>. USE DEF Kill, Return, BundleInv
<1>1. /\ manifest' \in {manifest, Absent} /\ checksums' \in {checksums, {}}
      /\ results' \in {results, NoResults} /\ evidence' \in {evidence, {}}
  OBVIOUS
<1>2. PublicationTypeOK'
  <2>1. DOMAIN results' = Places \X Check
    BY <1>1 DEF PublicationTypeOK, TypeOK, NoResults
  <2>2. \A p \in DOMAIN results' : results'[p] = Absent \/ results'[p] \in Result
    BY <1>1 DEF PublicationTypeOK, TypeOK, NoResults
  <2>3. evidence' \subseteq Evidence /\ (manifest' = Absent \/ manifest' \in Manifest)
    BY <1>1 DEF PublicationTypeOK, TypeOK
  <2>4. faults' \in 0..MaxFaults
    BY Bounds DEF PublicationTypeOK, TypeOK
  <2>. QED  BY <2>1, <2>2, <2>3, <2>4, Bounds DEF PublicationTypeOK, TypeOK
<1>3. Gathering'
  BY DEF Gathering
<1>4. Readable'
  BY <1>1, StillReadable
<1>. QED  BY <1>2, <1>3, <1>4, StillNumbered, StillStaged

LEMMA DamageStep ==
  ASSUME BundleInv, NEW p \in DOMAIN results, NEW s \in Measured, Damage(p, s),
         UNCHANGED publication
  PROVE  BundleInv'
<1>. USE DEF Damage, BundleInv
<1>1. results[p] \in Result
  BY DEF PublicationTypeOK, TypeOK
<1>2. [results[p] EXCEPT !.status = s] \in Result
  BY <1>1 DEF Result
<1>3. \A q \in DOMAIN results' : results'[q] = Absent \/ results'[q] \in Result
  BY <1>2 DEF PublicationTypeOK, TypeOK
<1>4. faults' \in 0..MaxFaults
  BY Bounds DEF PublicationTypeOK, TypeOK
<1>5. PublicationTypeOK'
  BY <1>3, <1>4 DEF PublicationTypeOK, TypeOK
<1>6. Gathering'
  BY DEF Gathering
<1>. QED  BY <1>5, <1>6, StillNumbered, StillReadable, StillStaged

LEMMA PolicyStep ==
  ASSUME BundleInv, NEW p \in Policies, ChangePolicy(p)
  PROVE  BundleInv'
<1>. USE DEF ChangePolicy, BundleInv
<1>1. PublicationTypeOK'
  BY Bounds DEF PublicationTypeOK, TypeOK
<1>2. Gathering'
  BY DEF Gathering, Passed, Listed
<1>. QED  BY <1>1, <1>2, StillNumbered, StillReadable, StillStaged

(* Taking one more execution: it is of the plan, no other has its position, *)
(* and where its results go there are its own.                             *)
LEMMA TakeStep ==
  ASSUME NEW e \in Execution, BundleInv, Members(plan, taken), Copied(taken, results, evidence),
         Acceptable(e), \A f \in taken : f.id # e.id
  PROVE  /\ Members(plan, taken \cup {e})
         /\ Copied(taken \cup {e}, CopyOf(e), evidence \cup EvidenceOf(e))
         /\ DOMAIN CopyOf(e) = Places \X Check
         /\ \A p \in DOMAIN CopyOf(e) : CopyOf(e)[p] = Absent \/ CopyOf(e)[p] \in Result
         /\ EvidenceOf(e) \subseteq Evidence
<1>1. Members(plan, taken \cup {e})
  BY DEF Members, Acceptable
<1>2. \A f \in Execution, c \in Check : <<Place(f), c>> \in Places \X Check
  BY RunBundleAssumption DEF Execution, Place, Places
<1>3. \A c \in Check : CopyOf(e)[<<Place(e), c>>] = [execution |-> e.id, status |-> e.verdict[c]]
  BY <1>2 DEF CopyOf
<1>4. taken \subseteq Execution
  BY DEF Members
<1>5. \A f \in taken, c \in Check :
        Place(f) # Place(e) => CopyOf(e)[<<Place(f), c>>] = results[<<Place(f), c>>]
  BY <1>2, <1>4 DEF CopyOf
<1>6. Copied(taken \cup {e}, CopyOf(e), evidence \cup EvidenceOf(e))
  <2>1. ASSUME NEW f \in taken \cup {e}, NEW c \in Check
        PROVE  \E g \in taken \cup {e} :
                 /\ Place(g) = Place(f)
                 /\ CopyOf(e)[<<Place(f), c>>] = [execution |-> g.id, status |-> g.verdict[c]]
    <3>1. CASE Place(f) = Place(e)
      BY <1>3, <3>1
    <3>2. CASE Place(f) # Place(e)
      <4>1. PICK g \in taken :
              /\ Place(g) = Place(f)
              /\ results[<<Place(f), c>>] = [execution |-> g.id, status |-> g.verdict[c]]
        BY <3>2 DEF Copied
      <4>. QED  BY <1>5, <3>2, <4>1
    <3>. QED  BY <3>1, <3>2
  <2>2. \A f \in taken \cup {e} : EvidenceOf(f) \subseteq evidence \cup EvidenceOf(e)
    BY DEF Copied
  <2>. QED  BY <2>1, <2>2 DEF Copied
<1>7. DOMAIN CopyOf(e) = Places \X Check
  BY DEF CopyOf
<1>8. ASSUME NEW p \in Places \X Check
      PROVE  CopyOf(e)[p] = Absent \/ CopyOf(e)[p] \in Result
  <2>1. e.id \in 1..MaxExecutions /\ e.verdict[p[2]] \in Measured
    BY DEF Execution
  <2>2. [execution |-> e.id, status |-> e.verdict[p[2]]] \in Result
    BY <2>1 DEF Result
  <2>3. results[p] = Absent \/ results[p] \in Result
    BY DEF BundleInv, PublicationTypeOK, TypeOK
  <2>. QED  BY <2>2, <2>3 DEF CopyOf
<1>9. EvidenceOf(e) \subseteq Evidence
  BY DEF EvidenceOf, Evidence, Execution
<1>. QED  BY <1>1, <1>6, <1>7, <1>8, <1>9

LEMMA CollectStep ==
  ASSUME BundleInv, Collect, UNCHANGED publication
  PROVE  BundleInv'
<1>. USE DEF Collect, BundleInv
<1>1. at \in 1..Slots /\ at \in Slot /\ at + 1 \in 1..(Slots + 1)
  BY Bounds DEF Slot
<1>2. /\ pc = "collect" /\ at' = at + 1 /\ pc' = (IF at = Slots THEN "conclude" ELSE "collect")
      /\ UNCHANGED <<plan, root, manifest, checksums, executed, bundles, faults, receipts>>
  OBVIOUS
<1>3. /\ plan # Absent /\ (\E i \in Slot : Listed(i)) /\ taken = Passed
      /\ Members(plan, taken) /\ Copied(taken, results, evidence)
  BY <1>2 DEF Gathering
<1>4. /\ taken' = Passed' /\ Members(plan, taken') /\ Copied(taken', results', evidence')
      /\ DOMAIN results' = Places \X Check
      /\ \A p \in DOMAIN results' : results'[p] = Absent \/ results'[p] \in Result
      /\ evidence' \subseteq Evidence
  <2>1. CASE ~Listed(at)
    <3>1. UNCHANGED <<results, evidence, taken>>
      BY <2>1
    <3>2. Passed' = Passed
      BY <1>1, <1>2, <2>1 DEF Passed, Listed
    <3>. QED  BY <1>3, <3>1, <3>2 DEF PublicationTypeOK, TypeOK
  <2>2. CASE Listed(at)
    <3>1. /\ results' = CopyOf(root[at]) /\ evidence' = evidence \cup EvidenceOf(root[at])
          /\ taken' = taken \cup {root[at]}
      BY <2>2
    <3>2. Passed' = Passed \cup {root[at]}
      BY <1>1, <1>2, <2>2 DEF Passed, Listed
    <3>3. root[at] \in Execution /\ Acceptable(root[at])
      BY <1>1, <2>2 DEF PublicationTypeOK, TypeOK, Listed
    <3>5. \A f \in taken : f.id # root[at].id
      <4>1. \A j \in 1..(at - 1) : j \in Slot /\ j # at
        BY <1>1, Bounds DEF Slot
      <4>. QED  BY <1>1, <1>3, <2>2, <4>1 DEF Passed, Listed, Numbered
    <3>4. evidence \subseteq Evidence
      BY DEF PublicationTypeOK, TypeOK
    <3>. QED  BY <1>3, <3>1, <3>2, <3>3, <3>4, <3>5, TakeStep
  <2>. QED  BY <2>1, <2>2
<1>5. PublicationTypeOK'
  BY <1>1, <1>2, <1>4 DEF PublicationTypeOK, TypeOK, Members
<1>6. Gathering'
  BY <1>1, <1>2, <1>3, <1>4, Bounds DEF Gathering, Slot, Listed
<1>. QED  BY <1>2, <1>5, <1>6, StillNumbered, StillReadable, StillStaged

(* aggregate_run's two conditions: no subject is missing exactly when every *)
(* planned position was taken, and then there are enough executions.       *)
LEMMA Completion ==
  ASSUME Members(plan, taken)
  PROVE  /\ Missing = {} <=> AllMeasured(plan, taken)
         /\ AllMeasured(plan, taken) => Cardinality(taken) >= ExpectedExecutions
<1>. DEFINE Of(s) == {e \in taken : e.subject = s}
<1>1. plan.repetitions \in Nat \ {0} /\ plan.subjects \subseteq Subject
  BY DEF Members, Plan
<1>2. IsFiniteSet(plan.subjects)
  BY <1>1, RunBundleAssumption, FS_Subset
<1>3. /\ \A e \in taken : e.subject \in plan.subjects /\ e.repetition \in 1..plan.repetitions
      /\ \A e, f \in taken : Position(e) = Position(f) => e = f
  BY DEF Members
<1>4. ASSUME NEW s
      PROVE  /\ RepetitionsTaken(s) \in Nat
             /\ RepetitionsTaken(s) >= plan.repetitions
                  <=> \A k \in 1..plan.repetitions : \E e \in taken : Position(e) = <<s, k>>
  BY <1>1, <1>3, RepetitionCount DEF RepetitionsTaken
<1>5. ASSUME NEW s, s \notin SubjectsTaken
      PROVE  ~ \A k \in 1..plan.repetitions : \E e \in taken : Position(e) = <<s, k>>
  <2>1. 1 \in 1..plan.repetitions
    BY <1>1
  <2>. QED  BY <1>5, <2>1 DEF SubjectsTaken, Position
<1>6. SubjectsTaken \subseteq plan.subjects
  BY <1>3 DEF SubjectsTaken
<1>7. Missing = {} <=>
        \A s \in plan.subjects : s \in SubjectsTaken /\ RepetitionsTaken(s) >= plan.repetitions
  BY <1>1, <1>4, <1>6 DEF Missing
<1>8. Missing = {} <=> AllMeasured(plan, taken)
  BY <1>4, <1>5, <1>7 DEF AllMeasured
<1>9. AllMeasured(plan, taken) => Cardinality(taken) >= ExpectedExecutions
  BY <1>1, <1>2, <1>3, PositionCount DEF AllMeasured, ExpectedExecutions
<1>. QED  BY <1>8, <1>9

LEMMA ConcludeStep ==
  ASSUME BundleInv, PinInv, Conclude, UNCHANGED publication
  PROVE  BundleInv'
<1>. USE DEF Conclude, BundleInv
<1>1. /\ at = Slots + 1 /\ plan # Absent /\ (\E i \in Slot : Listed(i))
      /\ taken = Passed /\ Members(plan, taken) /\ Copied(taken, results, evidence)
  BY DEF Gathering
<1>2. Missing \subseteq Subject
  BY <1>1 DEF Missing, SubjectsTaken, Members, Plan, Execution
<1>. DEFINE complete == Missing = {} /\ Cardinality(taken) >= ExpectedExecutions
            m == [bundle |-> bundles + 1, plan |-> plan, complete |-> complete,
                  missing |-> Missing, executions |-> taken]
<1>3. manifest' = m
  OBVIOUS
<1>4. complete \in BOOLEAN
  OBVIOUS
<1>5. (complete <=> AllMeasured(plan, taken)) /\ (complete <=> Missing = {})
  BY <1>1, Completion
<1>6. bundles + 1 \in 1..MaxBundles
  BY Bounds DEF PinInv, BundleIds
<1>. HIDE DEF complete
<1>7. m \in Manifest
  BY <1>1, <1>2, <1>4, <1>6 DEF Manifest, Members
<1>8. SoundManifest(m)
  BY <1>1, <1>5, <1>7 DEF SoundManifest, Counts
<1>9. /\ m # Absent /\ m.plan = plan /\ m.executions = taken
  BY <1>7, AbsentAssumption
<1>. HIDE DEF m
<1>10. PublicationTypeOK'
  BY <1>3, <1>6, <1>7 DEF PublicationTypeOK, TypeOK
<1>11. Gathering'
  BY <1>1, <1>3, <1>9 DEF Gathering, Passed, Listed
<1>12. Readable'
  BY <1>3, <1>8 DEF Readable
<1>. QED  BY <1>10, <1>11, <1>12, StillNumbered, StillStaged

LEMMA SealStep ==
  ASSUME BundleInv, Seal, UNCHANGED publication
  PROVE  BundleInv'
<1>. USE DEF Seal, Return, BundleInv
<1>1. PublicationTypeOK'
  BY Bounds DEF PublicationTypeOK, TypeOK
<1>2. Gathering'
  BY DEF Gathering
<1>3. SoundBundle(Contents)
  BY DEF Gathering, Readable, SoundBundle, Contents
<1>4. Readable'
  BY <1>3 DEF Readable
<1>. QED  BY <1>1, <1>2, <1>4, StillNumbered, StillStaged

LEMMA PublishStep ==
  ASSUME BundleInv, PinInv, Publish
  PROVE  BundleInv'
<1>. USE DEF Publish, BundleInv
<1>1. manifest # Absent /\ SoundBundle(Contents) /\ Legible(Contents) /\ Contents[2] = evidence /\ Contents[3] = manifest
  BY DEF Loads, Legible, Readable, Contents
<1>2. manifest.bundle \in 1..MaxBundles /\ policy \in Policies
  BY <1>1 DEF PublicationTypeOK, TypeOK, Manifest
<1>. DEFINE receipt == [receipt_id |-> NewReceipt, policy |-> policy, digest |-> Contents]
<1>3. receipts' = [receipts EXCEPT ![manifest.bundle] = receipt]
  OBVIOUS
<1>4. receipt.policy = policy /\ receipt.digest = Contents
  OBVIOUS
<1>. HIDE DEF receipt
<1>5. PublicationTypeOK'
  BY <1>2, <1>3, <1>4 DEF PublicationTypeOK, TypeOK
<1>6. Gathering'
  BY DEF Gathering, Passed, Listed
<1>7. Readable'
  BY StillReadable
<1>8. Earned(manifest.bundle, receipt)
  BY <1>1, <1>4 DEF Earned, Allowed
<1>9. Staged'
  BY <1>2, <1>3, <1>8 DEF Staged, PublicationTypeOK
<1>. QED  BY <1>5, <1>6, <1>7, <1>9, StillNumbered

LEMMA BundleStep == BundleInv /\ PinInv /\ [Next]_allVars => BundleInv'
<1>. SUFFICES ASSUME BundleInv, PinInv, [Next]_allVars PROVE BundleInv'
  OBVIOUS
<1>1. CASE UNCHANGED allVars
  BY <1>1 DEF BundleInv, PublicationTypeOK, TypeOK, Numbered, Gathering, Passed, Listed, Readable, Staged
<1>. QED
  BY <1>1, PlanStep, ExecuteStep, FinalizeStep, AggregateStep, ClearStep, CollectStep, RefuseStep,
     ConcludeStep, SealStep, KillStep, DamageStep, PolicyStep, PublishStep
  DEF Next, Aggregation, Environment

(* The invariant of planning, aggregation and staging.                     *)
THEOREM BundleCorrect == Spec => []BundleInv
  BY BundleInitially, BundleStep, PinCorrect, PTL DEF Spec

(* Plans, executions, bundles and receipts are what their models say.      *)
THEOREM PublicationTypeCorrect == Spec => []PublicationTypeOK
<1>1. BundleInv => PublicationTypeOK
  BY DEF BundleInv
<1>. QED  BY <1>1, BundleCorrect, PTL

(***************************************************************************)
(* aggregate_run's two conditions agree: a bundle is complete exactly when *)
(* every planned position was measured, and an incomplete one names a      *)
(* subject that is short.                                                  *)
(***************************************************************************)
THEOREM CompleteIsMeasuredCorrect == Spec => []CompleteIsMeasured
<1>1. BundleInv => CompleteIsMeasured
  BY DEF BundleInv, Readable, SoundManifest, Counts, AllMeasured, CompleteIsMeasured
<1>. QED  BY <1>1, BundleCorrect, PTL

(* A bundle whose places hold results of executions that may have them,    *)
(* and which can be read, holds every execution's own.                     *)
LEMMA LegibleIsExact ==
  ASSUME NEW x, SoundBundle(x), Legible(x)
  PROVE  /\ Exact(x[3].executions, x[1])
         /\ \A e, f \in x[3].executions : Place(e) = Place(f) => e = f
<1>. DEFINE T == x[3].executions
            files == x[1]
<1>1. /\ \A e, f \in T : e.id = f.id => e = f
      /\ \A e \in T, c \in Check :
           \E f \in T : /\ Place(f) = Place(e)
                        /\ files[<<Place(e), c>>] = [execution |-> f.id, status |-> f.verdict[c]]
      /\ \A e \in T, c \in Check : files[<<Place(e), c>>].execution = e.id
  BY DEF SoundBundle, SoundManifest, Members, Copied, Legible
<1>. HIDE DEF T, files
<1>2. ASSUME NEW e \in T, NEW c \in Check
      PROVE  files[<<Place(e), c>>] = [execution |-> e.id, status |-> e.verdict[c]]
  <2>1. PICK f \in T : files[<<Place(e), c>>] = [execution |-> f.id, status |-> f.verdict[c]]
    BY <1>1
  <2>2. f.id = e.id
    BY <1>1, <2>1
  <2>. QED  BY <1>1, <2>1, <2>2
<1>3. ASSUME NEW e \in T, NEW f \in T, Place(e) = Place(f)
      PROVE  e = f
  <2>1. PICK c \in Check : TRUE
    BY RunBundleAssumption
  <2>2. files[<<Place(e), c>>].execution = e.id /\ files[<<Place(f), c>>].execution = f.id
    BY <1>1
  <2>. QED  BY <1>1, <1>3, <2>2
<1>. QED  BY <1>2, <1>3 DEF Exact, T, files

(***************************************************************************)
(* Staging.                                                                *)
(***************************************************************************)

(* "Canonical" survives everything between planning and staging: behind a  *)
(* receipt every planned position was measured by a sealed execution of    *)
(* one GitHub Actions plan, approved and redacted as the policy it names   *)
(* demanded, and the staged files say what those executions said.          *)
THEOREM ReceiptIsEarnedCorrect == Spec => []ReceiptIsEarned
<1>. DEFINE Backed(b, receipt) ==
       LET m == receipt.digest[3]
           under == receipt.policy
       IN  /\ m.bundle = b /\ m.plan.mode = "github_actions"
           /\ under.active /\ m.plan.subjects \subseteq under.approved
           /\ \A s \in m.plan.subjects, c \in Check, k \in 1..m.plan.repetitions :
                \E e \in m.executions :
                  /\ Position(e) = <<s, k>>
                  /\ e.sealed /\ e.plan = m.plan.id
                  /\ under.redaction_required => e.redacted \/ e.verdict[c] = "error"
                  /\ receipt.digest[1][<<<<s.id, k>>, c>>]
                       = [execution |-> e.id, status |-> e.verdict[c]]
<1>1. ASSUME NEW b, NEW receipt, Earned(b, receipt)
      PROVE  Backed(b, receipt)
  <2>. DEFINE x == receipt.digest
              m == x[3]
              under == receipt.policy
  <2>. HIDE DEF x, m, under
  <2>1. /\ m.bundle = b /\ m.plan.mode = "github_actions" /\ under.active
        /\ \A e \in m.executions : e.subject \in under.approved
        /\ under.redaction_required => \A r \in x[2] : r.redacted
        /\ AllMeasured(m.plan, m.executions)
        /\ Members(m.plan, m.executions) /\ Copied(m.executions, x[1], x[2])
        /\ Exact(m.executions, x[1])
    BY <1>1, LegibleIsExact DEF Earned, SoundBundle, SoundManifest, Counts, x, m, under
  <2>2. 1 \in 1..m.plan.repetitions
    BY <2>1 DEF Members, Plan
  <2>3. m.plan.subjects \subseteq under.approved
    BY <2>1, <2>2 DEF AllMeasured, Position
  <2>4. ASSUME NEW s \in m.plan.subjects, NEW c \in Check, NEW k \in 1..m.plan.repetitions
        PROVE  \E e \in m.executions :
                 /\ Position(e) = <<s, k>>
                 /\ e.sealed /\ e.plan = m.plan.id
                 /\ under.redaction_required => e.redacted \/ e.verdict[c] = "error"
                 /\ x[1][<<<<s.id, k>>, c>>] = [execution |-> e.id, status |-> e.verdict[c]]
    <3>1. PICK e \in m.executions : Position(e) = <<s, k>>
      BY <2>1 DEF AllMeasured
    <3>2. e.sealed /\ e.plan = m.plan.id
      BY <2>1 DEF Members
    <3>3. x[1][<<<<s.id, k>>, c>>] = [execution |-> e.id, status |-> e.verdict[c]]
      BY <2>1, <3>1 DEF Exact, Place, Position
    <3>4. ASSUME under.redaction_required, e.verdict[c] # "error"
          PROVE  e.redacted
      <4>. DEFINE record == [execution |-> e.id, check |-> c, redacted |-> e.redacted]
      <4>1. record \in EvidenceOf(e)
        BY <3>4 DEF EvidenceOf
      <4>2. record \in x[2]
        BY <2>1, <4>1 DEF Copied
      <4>3. record.redacted
        BY <2>1, <3>4, <4>2
      <4>. QED  BY <4>3
    <3>. QED  BY <3>1, <3>2, <3>3, <3>4
  <2>. QED  BY <2>1, <2>3, <2>4 DEF x, m, under
<1>2. BundleInv => ReceiptIsEarned
  <2>. HIDE DEF Backed
  <2>1. BundleInv => \A b \in DOMAIN receipts : receipts[b] # Absent => Backed(b, receipts[b])
    BY <1>1 DEF BundleInv, PublicationTypeOK, Staged
  <2>. QED  BY <2>1 DEF Backed, ReceiptIsEarned
<1>. QED  BY <1>2, BundleCorrect, PTL

-----------------------------------------------------------------------------
(***************************************************************************)
(* Roll-ups.                                                               *)
(***************************************************************************)

(* All planned repetitions are there when there are that many of them.     *)
LEMMA AllRepetitions ==
  ASSUME NEW n \in Nat, NEW D \in SUBSET (1..n), Cardinality(D) >= n
  PROVE  D = 1..n
<1>1. IsFiniteSet(1..n) /\ Cardinality(1..n) = n
  BY FS_Interval
<1>2. IsFiniteSet(D) /\ Cardinality(D) <= n /\ (n = Cardinality(D) => 1..n = D)
  BY <1>1, FS_Subset
<1>3. Cardinality(D) \in Nat
  BY <1>2, FS_CardinalityType
<1>. QED  BY <1>2, <1>3

(* A roll-up is decisive exactly when every planned repetition was         *)
(* measured and said the same.                                             *)
LEMMA RollupOutcome ==
  ASSUME NEW files, NEW n \in Nat \ {0}, NEW status \in Decisive, DOMAIN files \subseteq 1..n
  PROVE  CheckRollup(files, n).outcome = status
           <=> \A k \in 1..n : k \in DOMAIN files /\ files[k] = status
<1>1. IsFiniteSet(1..n) /\ Cardinality(1..n) = n /\ 1 \in 1..n
  BY FS_Interval
<1>2. ASSUME CheckRollup(files, n).outcome = status
      PROVE  \A k \in 1..n : k \in DOMAIN files /\ files[k] = status
  <2>1. ~(Cardinality(DOMAIN files) < n) /\ ClassifyOutcome(Observed(files)) = status
    BY <1>2 DEF CheckRollup, Decisive
  <2>2. IsFiniteSet(DOMAIN files)
    BY <1>1, FS_Subset
  <2>3. Cardinality(DOMAIN files) >= n
    BY <2>1, <2>2, FS_CardinalityType
  <2>4. DOMAIN files = 1..n
    BY <2>3, AllRepetitions
  <2>5. Observed(files) = {status}
    BY <2>1 DEF ClassifyOutcome, Decisive
  <2>. QED  BY <2>4, <2>5 DEF Observed
<1>3. ASSUME \A k \in 1..n : k \in DOMAIN files /\ files[k] = status
      PROVE  CheckRollup(files, n).outcome = status
  <2>1. DOMAIN files = 1..n
    BY <1>3
  <2>2. Observed(files) = {status}
    BY <1>1, <1>3, <2>1 DEF Observed
  <2>3. ClassifyOutcome({status}) = status
    BY DEF ClassifyOutcome, Decisive
  <2>4. ~(Cardinality(DOMAIN files) < n)
    BY <1>1, <2>1
  <2>. QED  BY <2>2, <2>3, <2>4 DEF CheckRollup
<1>. QED  BY <1>2, <1>3

(* What a decisive row of a bundle that can be read means.                 *)
LEMMA DecisiveRow ==
  ASSUME NEW x, SoundBundle(x), Legible(x), NEW row \in x[3].plan.subjects \X Check, NEW status \in Decisive
  PROVE  Rollup(x[1], x[3])[row].outcome = status <=> Unanimous(x[3], row, status)
<1>. DEFINE m == x[3]
            n == m.plan.repetitions
            files == RowResults(x[1], m, row[1], row[2])
<1>1. /\ m.plan \in Plan /\ m.executions \subseteq Execution /\ row[2] \in Check
      /\ \A e \in m.executions : e.sealed /\ e.plan = m.plan.id /\ e.repetition \in 1..n
      /\ \A e, f \in m.executions : Position(e) = Position(f) => e = f
      /\ \A e \in m.executions, c \in Check :
           x[1][<<Place(e), c>>] = [execution |-> e.id, status |-> e.verdict[c]]
  BY LegibleIsExact DEF SoundBundle, SoundManifest, Members, Exact
<1>2. n \in Nat \ {0}
  BY <1>1 DEF Plan
<1>3. Rollup(x[1], m)[row].outcome = CheckRollup(files, n).outcome
  BY DEF Rollup
<1>. HIDE DEF m
<1>4. DOMAIN files = {e.repetition : e \in {f \in m.executions : f.subject = row[1]}}
  BY DEF RowResults
<1>5. \A k \in DOMAIN files : files[k] = x[1][<<<<row[1].id, k>>, row[2]>>].status
  BY DEF RowResults
<1>. HIDE DEF files
<1>6. \A k : k \in DOMAIN files <=> \E e \in m.executions : Position(e) = <<row[1], k>>
  BY <1>4 DEF Position
<1>7. ASSUME NEW e \in m.executions, NEW k, Position(e) = <<row[1], k>>
      PROVE  files[k] = e.verdict[row[2]]
  <2>1. x[1][<<Place(e), row[2]>>] = [execution |-> e.id, status |-> e.verdict[row[2]]]
    BY <1>1, Zenon
  <2>4. Place(e) = <<row[1].id, k>>
    BY <1>7 DEF Place, Position
  <2>2. k \in DOMAIN files
    BY <1>6, <1>7
  <2>3. files[k] = x[1][<<<<row[1].id, k>>, row[2]>>].status
    BY <1>5, <2>2
  <2>. QED  BY <2>1, <2>3, <2>4
<1>8. CheckRollup(files, n).outcome = status
        <=> \A k \in 1..n : k \in DOMAIN files /\ files[k] = status
  BY <1>1, <1>2, <1>4, RollupOutcome
<1>9. (\A k \in 1..n : k \in DOMAIN files /\ files[k] = status) <=> Unanimous(m, row, status)
  <2>1. ASSUME NEW k \in 1..n
        PROVE  k \in DOMAIN files /\ files[k] = status
                 <=> \E e \in m.executions :
                       /\ Position(e) = <<row[1], k>>
                       /\ e.sealed /\ e.plan = m.plan.id /\ e.verdict[row[2]] = status
                       /\ \A f \in m.executions : Position(f) = Position(e) => f = e
    BY <1>1, <1>6, <1>7
  <2>. QED  BY <2>1 DEF Unanimous
<1>. QED  BY <1>3, <1>8, <1>9 DEF m

(* A bundle that loads is a sound one.                                     *)
LEMMA LoadedBundle ==
  ASSUME BundleInv, Loads
  PROVE  SoundBundle(<<results, evidence, manifest>>) /\ Legible(<<results, evidence, manifest>>)
  BY DEF BundleInv, Readable, Loads, Contents

(***************************************************************************)
(* A decisive outcome was reported by exactly one sealed execution of the  *)
(* bundle's plan for each planned repetition.                              *)
(***************************************************************************)
THEOREM VerdictIsEarnedCorrect == Spec => []VerdictIsEarned
<1>1. ASSUME BundleInv, Loads, NEW row \in DOMAIN Rows, Rows[row].outcome \in Decisive
      PROVE  Unanimous(manifest, row, Rows[row].outcome)
  <2>. DEFINE x == <<results, evidence, manifest>>
  <2>1. SoundBundle(x) /\ Legible(x)
    BY <1>1, LoadedBundle
  <2>2. x[1] = results /\ x[3] = manifest
    OBVIOUS
  <2>. HIDE DEF x
  <2>3. row \in x[3].plan.subjects \X Check /\ Rows = Rollup(x[1], x[3])
    BY <1>1, <2>2 DEF Rows, Rollup
  <2>4. Unanimous(x[3], row, Rows[row].outcome)
    BY <1>1, <2>1, <2>3, DecisiveRow
  <2>. QED  BY <2>2, <2>4
<1>2. BundleInv => VerdictIsEarned
  BY <1>1 DEF VerdictIsEarned
<1>. QED  BY <1>2, BundleCorrect, PTL

(* Some version is the greatest.                                           *)
LEMMA Greatest ==
  ASSUME NEW n \in Nat, NEW S \in SUBSET (1..n), S # {}
  PROVE  \E g \in S : \A v \in S : v <= g
<1>. DEFINE T == {n - v : v \in S}
<1>1. T \subseteq Nat /\ T # {}
  <2>1. PICK s \in S : TRUE
    OBVIOUS
  <2>2. \A v \in S : n - v \in Nat
    OBVIOUS
  <2>. QED  BY <2>1, <2>2
<1>. HIDE DEF T
<1>2. \E m \in T : \A k \in T : ~(<<k, m>> \in OpToRel(<, Nat))
  BY <1>1, WFMin, NatLessThanWellFounded
<1>3. \A k, m \in Nat : <<k, m>> \in OpToRel(<, Nat) <=> k < m
  BY DEF OpToRel
<1>4. \E m \in T : \A k \in T : ~(k < m)
  BY <1>1, <1>2, <1>3
<1>5. PICK g \in S : \A k \in T : ~(k < n - g)
  BY <1>4 DEF T
<1>6. \A v \in S : ~(n - v < n - g)
  BY <1>5 DEF T
<1>. QED  BY <1>6

(* Every client of a plan has a newest version there, and only one.        *)
LEMMA NewestVersion ==
  ASSUME NEW S \in SUBSET Subject, NEW s \in S
  PROVE  /\ \E t \in S : t.id = s.id /\ Newest(t, S)
         /\ \A t, u \in S : t.id = u.id /\ Newest(t, S) /\ Newest(u, S) => t = u
<1>. DEFINE n == Cardinality(Subject)
            V == {t.version : t \in {u \in S : u.id = s.id}}
<1>1. n \in Nat
  BY RunBundleAssumption, FS_CardinalityType
<1>2. Subject \subseteq [id : SubjectId, version : 1..n]
  BY RunBundleAssumption
<1>. HIDE DEF n
<1>3. V \in SUBSET (1..n) /\ V # {}
  BY <1>2
<1>4. \E t \in S : t.id = s.id /\ Newest(t, S)
  <2>1. PICK g \in V : \A v \in V : v <= g
    BY <1>1, <1>3, Greatest
  <2>2. PICK t \in S : t.id = s.id /\ t.version = g
    BY <2>1
  <2>. QED  BY <2>1, <2>2 DEF Newest
<1>5. ASSUME NEW t \in S, NEW u \in S, t.id = u.id, Newest(t, S), Newest(u, S)
      PROVE  t = u
  <2>1. t \in [id : SubjectId, version : 1..n] /\ u \in [id : SubjectId, version : 1..n]
    BY <1>2
  <2>2. t.version <= u.version /\ u.version <= t.version
    BY <1>5 DEF Newest
  <2>. QED  BY <1>1, <1>5, <2>1, <2>2
<1>. QED  BY <1>4, <1>5

(* What an index says of a client and a check is what its newest version's *)
(* row says.                                                               *)
LEMMA IndexOfNewest ==
  ASSUME NEW R, NEW S \in SUBSET Subject, DOMAIN R = S \X Check, NEW s \in S, Newest(s, S),
         NEW c \in Check
  PROVE  <<s.id, c>> \in Keys(R) /\ Index(R)[<<s.id, c>>] = R[<<s, c>>].outcome
<1>. DEFINE key == <<s.id, c>>
            row == <<s, c>>
            kept == CHOOSE r \in DOMAIN R : Key(r) = key /\ Last(R, r)
<1>1. row \in DOMAIN R /\ Key(row) = key
  BY DEF Key
<1>2. key \in Keys(R)
  BY <1>1 DEF Keys
<1>3. Last(R, row)
  BY <1>1 DEF Last, Newest, Key
<1>4. kept \in DOMAIN R /\ Key(kept) = key /\ Last(R, kept)
  BY <1>1, <1>3
<1>. HIDE DEF kept
<1>5. kept = <<kept[1], kept[2]>> /\ kept[1] \in S /\ kept[1].id = s.id /\ kept[2] = c
  BY <1>4 DEF Key
<1>6. Newest(kept[1], S)
  <2>. SUFFICES ASSUME NEW t \in S, t.id = kept[1].id PROVE t.version <= kept[1].version
    BY <1>5 DEF Newest
  <2>1. <<t, c>> \in DOMAIN R /\ Key(<<t, c>>) = Key(kept)
    BY <1>4, <1>5 DEF Key
  <2>. QED  BY <1>4, <2>1 DEF Last
<1>7. kept = row
  BY <1>5, <1>6, NewestVersion
<1>8. Index(R)[key] = R[kept].outcome
  BY <1>2 DEF Index, kept
<1>. QED  BY <1>2, <1>7, <1>8

(* A key is a client of the plan and a check, and has a newest version.    *)
LEMMA KeyOfNewest ==
  ASSUME NEW R, NEW S \in SUBSET Subject, DOMAIN R = S \X Check, NEW key \in Keys(R)
  PROVE  \E s \in S, c \in Check : key = <<s.id, c>> /\ Newest(s, S)
<1>1. PICK row \in S \X Check : key = <<row[1].id, row[2]>>
  BY DEF Keys, Key
<1>2. PICK s \in S : s.id = row[1].id /\ Newest(s, S)
  BY NewestVersion
<1>. QED  BY <1>1, <1>2

(***************************************************************************)
(* What `pt-bench compare` calls a regression since a published bundle is  *)
(* one, also between two versions of a client, and no regression is called *)
(* anything else.                                                          *)
(***************************************************************************)
THEOREM RegressionIsRealCorrect == Spec => []RegressionIsReal
<1>. DEFINE Real(m, n, key) ==
       \E s, t \in Subject :
         /\ s.id = key[1] /\ t.id = key[1]
         /\ Newest(s, m.plan.subjects) /\ Newest(t, n.plan.subjects)
         /\ Unanimous(m, <<s, key[2]>>, "pass")
         /\ Unanimous(n, <<t, key[2]>>, "fail")
            Told(before, after, m, n) ==
       \A key \in DOMAIN Compare(before, after) :
         Compare(before, after)[key] = "regressed" <=> Real(m, n, key)
<1>1. ASSUME NEW x, NEW y, SoundBundle(x), Legible(x), SoundBundle(y), Legible(y)
      PROVE  Told(Rollup(x[1], x[3]), Rollup(y[1], y[3]), x[3], y[3])
  <2>. SUFFICES ASSUME NEW key \in DOMAIN Compare(Rollup(x[1], x[3]), Rollup(y[1], y[3]))
                PROVE  Compare(Rollup(x[1], x[3]), Rollup(y[1], y[3]))[key] = "regressed"
                         <=> Real(x[3], y[3], key)
    OBVIOUS
  <2>. DEFINE before == Rollup(x[1], x[3])
              after == Rollup(y[1], y[3])
              S == x[3].plan.subjects
              T == y[3].plan.subjects
              Then(s) == Unanimous(x[3], <<s, key[2]>>, "pass")
              Now(t) == Unanimous(y[3], <<t, key[2]>>, "fail")
  <2>1. DOMAIN before = S \X Check /\ DOMAIN after = T \X Check
    BY DEF Rollup
  <2>2. S \in SUBSET Subject /\ T \in SUBSET Subject
    BY <1>1 DEF SoundBundle, SoundManifest, Members, Plan
  <2>3. \A s \in S, c \in Check : before[<<s, c>>].outcome = "pass" <=> Unanimous(x[3], <<s, c>>, "pass")
    BY <1>1, DecisiveRow DEF Decisive
  <2>4. \A t \in T, c \in Check : after[<<t, c>>].outcome = "fail" <=> Unanimous(y[3], <<t, c>>, "fail")
    BY <1>1, DecisiveRow DEF Decisive
  <2>. HIDE DEF before, after
  <2>5. key \in Keys(before) \cup Keys(after)
    BY DEF Compare, before, after
  <2>6. Compare(before, after)[key] = "regressed" <=>
          /\ key \in Keys(before) /\ key \in Keys(after)
          /\ Index(before)[key] = "pass" /\ Index(after)[key] = "fail"
    BY <2>5 DEF Compare, Change, Decisive
  <2>7. PICK c \in Check : key = <<key[1], c>> /\ key[2] = c
    <3>. HIDE DEF S, T
    <3>1. CASE key \in Keys(before)
      <4>1. PICK s \in S, c \in Check : key = <<s.id, c>> /\ Newest(s, S)
        BY <2>1, <2>2, <3>1, KeyOfNewest
      <4>. QED  BY <4>1
    <3>2. CASE key \in Keys(after)
      <4>1. PICK t \in T, c \in Check : key = <<t.id, c>> /\ Newest(t, T)
        BY <2>1, <2>2, <3>2, KeyOfNewest
      <4>. QED  BY <4>1
    <3>. QED  BY <2>5, <3>1, <3>2
  <2>. HIDE DEF S, T
  <2>8. key \in Keys(before) /\ Index(before)[key] = "pass"
          <=> \E s \in Subject : s.id = key[1] /\ Newest(s, S) /\ Then(s)
    <3>1. ASSUME key \in Keys(before), Index(before)[key] = "pass"
          PROVE  \E s \in Subject : s.id = key[1] /\ Newest(s, S) /\ Then(s)
      <4>1. PICK s \in S, d \in Check : key = <<s.id, d>> /\ Newest(s, S)
        BY <2>1, <2>2, <3>1, KeyOfNewest
      <4>2. Index(before)[<<s.id, d>>] = before[<<s, d>>].outcome
        BY <2>1, <2>2, <4>1, IndexOfNewest
      <4>. QED  BY <2>2, <2>3, <3>1, <4>1, <4>2
    <3>2. ASSUME NEW s \in Subject, s.id = key[1], Newest(s, S), Then(s)
          PROVE  key \in Keys(before) /\ Index(before)[key] = "pass"
      <4>1. s \in S /\ key = <<s.id, c>>
        BY <2>7, <3>2 DEF Newest
      <4>2. key \in Keys(before) /\ Index(before)[key] = before[<<s, c>>].outcome
        BY <2>1, <2>2, <3>2, <4>1, IndexOfNewest
      <4>. QED  BY <2>3, <2>7, <3>2, <4>1, <4>2
    <3>. QED  BY <3>1, <3>2
  <2>9. key \in Keys(after) /\ Index(after)[key] = "fail"
          <=> \E t \in Subject : t.id = key[1] /\ Newest(t, T) /\ Now(t)
    <3>1. ASSUME key \in Keys(after), Index(after)[key] = "fail"
          PROVE  \E t \in Subject : t.id = key[1] /\ Newest(t, T) /\ Now(t)
      <4>1. PICK t \in T, d \in Check : key = <<t.id, d>> /\ Newest(t, T)
        BY <2>1, <2>2, <3>1, KeyOfNewest
      <4>2. Index(after)[<<t.id, d>>] = after[<<t, d>>].outcome
        BY <2>1, <2>2, <4>1, IndexOfNewest
      <4>. QED  BY <2>2, <2>4, <3>1, <4>1, <4>2
    <3>2. ASSUME NEW t \in Subject, t.id = key[1], Newest(t, T), Now(t)
          PROVE  key \in Keys(after) /\ Index(after)[key] = "fail"
      <4>1. t \in T /\ key = <<t.id, c>>
        BY <2>7, <3>2 DEF Newest
      <4>2. key \in Keys(after) /\ Index(after)[key] = after[<<t, c>>].outcome
        BY <2>1, <2>2, <3>2, <4>1, IndexOfNewest
      <4>. QED  BY <2>4, <2>7, <3>2, <4>1, <4>2
    <3>. QED  BY <3>1, <3>2
  <2>. QED  BY <2>6, <2>8, <2>9 DEF before, after, S, T
<1>2. ASSUME BundleInv, Loads, NEW b \in DOMAIN receipts, receipts[b] # Absent
      PROVE  /\ SoundBundle(receipts[b].digest) /\ Legible(receipts[b].digest)
             /\ SoundBundle(<<results, evidence, manifest>>)
             /\ Legible(<<results, evidence, manifest>>)
  BY <1>2, LoadedBundle DEF BundleInv, PublicationTypeOK, Staged, Earned
<1>3. ASSUME BundleInv, Loads, NEW b \in DOMAIN receipts, receipts[b] # Absent
      PROVE  Told(Rollup(receipts[b].digest[1], receipts[b].digest[3]), Rows,
                  receipts[b].digest[3], manifest)
  <2>. HIDE DEF Told
  <2>. DEFINE y == <<results, evidence, manifest>>
              x == receipts[b].digest
  <2>1. SoundBundle(x) /\ Legible(x) /\ SoundBundle(y) /\ Legible(y)
    BY <1>2, <1>3
  <2>2. y[1] = results /\ y[3] = manifest
    OBVIOUS
  <2>. HIDE DEF x, y
  <2>3. Rows = Rollup(y[1], y[3])
    BY <2>2 DEF Rows
  <2>4. Told(Rollup(x[1], x[3]), Rollup(y[1], y[3]), x[3], y[3])
    BY <1>1, <2>1
  <2>. QED  BY <2>2, <2>3, <2>4 DEF x
<1>4. BundleInv => RegressionIsReal
  BY <1>3 DEF RegressionIsReal
<1>. QED  BY <1>4, BundleCorrect, PTL

-----------------------------------------------------------------------------
(***************************************************************************)
(* Aggregation implements its contract.                                    *)
(***************************************************************************)

(* While the checksums stay, a reader finds the bundle they were computed  *)
(* from or none; and none once they are gone.                              *)
LEMMA OnlyWhatWasMade ==
  ASSUME UNCHANGED <<plan, root, checksums>>
  PROVE  Contract!Touch
<1>1. Made' = Made /\ Ready' = Ready
  BY DEF Made, Ready, Listed, Legible, BundleOf
<1>2. ASSUME Loads'
      PROVE  BundleOf(Contents') \in Made
  BY <1>2 DEF Loads, Made
<1>3. Offered' \in Made \cup {Absent}
  BY <1>2 DEF Offered
<1>. QED  BY <1>1, <1>3 DEF Contract!Touch

LEMMA NothingWithoutChecksums ==
  ASSUME UNCHANGED <<plan, root>>, checksums' = {}
  PROVE  Contract!Discard
  BY DEF Contract!Discard, Ready, Listed, Made, Offered, Loads

LEMMA ReaderSeesFiles ==
  ASSUME UNCHANGED <<results, evidence, manifest, checksums>>
  PROVE  UNCHANGED <<Made, Offered>>
  BY DEF Made, Offered, Loads, Legible, Contents, BundleOf

(* When everything was passed by, everything was taken.                    *)
LEMMA EverythingTaken ==
  ASSUME Gathering, pc = "seal"
  PROVE  taken = Ready
<1>1. taken = Passed /\ at = Slots + 1
  BY DEF Gathering
<1>2. 1..(at - 1) = Slot
  BY <1>1, Bounds DEF Slot
<1>. QED  BY <1>1, <1>2 DEF Passed, Ready

(* A bundle whose results are all its executions' own is the contract's.   *)
LEMMA BundleOfTaken ==
  ASSUME manifest.plan = plan, manifest.executions = taken, taken = Ready,
         Members(plan, taken), SoundManifest(manifest), Exact(taken, results)
  PROVE  BundleOf(<<results, evidence, manifest>>) = Contract!Bundle
<1>1. BundleOf(<<results, evidence, manifest>>) =
        [plan |-> plan,
         verdicts |-> [e \in taken |-> [c \in Check |-> results[<<Place(e), c>>].status]],
         complete |-> manifest.complete]
  BY DEF BundleOf
<1>2. ASSUME NEW e \in taken
      PROVE  [c \in Check |-> results[<<Place(e), c>>].status] = e.verdict
  <2>1. e.verdict \in [Check -> Measured]
    BY DEF Members, Execution
  <2>2. ASSUME NEW c \in Check
        PROVE  results[<<Place(e), c>>].status = e.verdict[c]
    <3>1. results[<<Place(e), c>>] = [execution |-> e.id, status |-> e.verdict[c]]
      BY DEF Exact
    <3>. QED  BY <3>1
  <2>. QED  BY <2>1, <2>2
<1>3. manifest.complete = ({Contract!Position(e) : e \in taken} = Contract!Planned)
  <2>1. manifest.complete \in BOOLEAN /\ (manifest.complete <=> AllMeasured(plan, taken))
    BY DEF SoundManifest, Counts, Manifest
  <2>2. \A e \in taken : Contract!Position(e) = Position(e) /\ Position(e) \in Contract!Planned
    BY DEF Contract!Position, Contract!Planned, Position, Members
  <2>3. AllMeasured(plan, taken) <=> \A q \in Contract!Planned : \E e \in taken : Position(e) = q
    <3>1. \A q \in Contract!Planned :
            q[1] \in plan.subjects /\ q[2] \in 1..plan.repetitions /\ q = <<q[1], q[2]>>
      BY DEF Contract!Planned
    <3>2. \A s \in plan.subjects, k \in 1..plan.repetitions : <<s, k>> \in Contract!Planned
      BY DEF Contract!Planned
    <3>3. ASSUME AllMeasured(plan, taken), NEW q \in Contract!Planned
          PROVE  \E e \in taken : Position(e) = q
      <4>1. PICK e \in taken : Position(e) = <<q[1], q[2]>>
        BY <3>1, <3>3, Zenon DEF AllMeasured
      <4>. QED  BY <3>1, <4>1
    <3>4. ASSUME \A q \in Contract!Planned : \E e \in taken : Position(e) = q
          PROVE  AllMeasured(plan, taken)
      BY <3>2, <3>4, Zenon DEF AllMeasured
    <3>. QED  BY <3>3, <3>4
  <2>4. AllMeasured(plan, taken) <=> {Contract!Position(e) : e \in taken} = Contract!Planned
    BY <2>2, <2>3
  <2>. QED  BY <2>1, <2>4
<1>4. [e \in taken |-> [c \in Check |-> results[<<Place(e), c>>].status]] = [e \in taken |-> e.verdict]
  BY <1>2
<1>. QED  BY <1>1, <1>3, <1>4 DEF Contract!Bundle

(* What is sealed is the bundle the contract makes, or nothing that loads. *)
LEMMA SealMakes ==
  ASSUME BundleInv, Seal
  PROVE  Contract!Make \/ Contract!Discard
<1>. DEFINE x == <<results, evidence, manifest>>
<1>1. /\ manifest # Absent /\ manifest.plan = plan /\ manifest.executions = taken /\ taken = Ready
      /\ Members(plan, taken) /\ Copied(taken, results, evidence)
      /\ SoundManifest(manifest) /\ \E i \in Slot : Listed(i)
  BY EverythingTaken DEF Seal, BundleInv, Gathering, Readable
<1>2. /\ UNCHANGED <<plan, root, results, evidence, manifest>> /\ checksums' = {x}
  BY DEF Seal, Contents
<1>3. Ready # {} /\ Ready' = Ready
  BY <1>1, <1>2 DEF Ready, Listed
<1>4. Legible(x)' <=> Legible(x)
  BY <1>2 DEF Legible
<1>5. CASE ~Legible(x)
  <2>1. Made' = {} /\ Offered' = Absent
    BY <1>2, <1>4, <1>5 DEF Made, Offered, Loads, Contents, Legible
  <2>. QED  BY <1>2, <1>3, <2>1 DEF Contract!Discard
<1>6. CASE Legible(x)
  <2>1. SoundBundle(x)
    BY <1>1 DEF SoundBundle
  <2>2. Exact(taken, results) /\ \A e, f \in taken : Place(e) = Place(f) => e = f
    BY <1>1, <1>6, <2>1, LegibleIsExact
  <2>3. Made' = {BundleOf(x)} /\ Offered' = BundleOf(x)
    BY <1>2, <1>4, <1>6 DEF Made, Offered, Loads, Contents, Legible, BundleOf
  <2>4. BundleOf(x) = Contract!Bundle
    BY <1>1, <2>2, BundleOfTaken
  <2>5. \A e \in Ready : e.sealed /\ e.plan = plan.id /\ Contract!Position(e) \in Contract!Planned
    BY <1>1 DEF Members, Contract!Position, Contract!Planned
  <2>6. \A e, f \in Ready : Contract!Place(e) = Contract!Place(f) => e = f
    BY <1>1, <2>2 DEF Place, Contract!Place
  <2>. QED  BY <1>2, <1>3, <2>3, <2>4, <2>5, <2>6 DEF Contract!Make
<1>. QED  BY <1>5, <1>6

(* One directory changes at a time.                                        *)
LEMMA ExecuteMeasures ==
  ASSUME NEW i \in Slot, NEW e, TypeOK, root' = [root EXCEPT ![i] = e],
         UNCHANGED <<plan, tree>>
  PROVE  Contract!Measure
<1>1. \A j \in Slot : j # i => root'[j] = root[j]
  BY DEF TypeOK
<1>2. \A j \in Slot : j # i => (Listed(j)' <=> Listed(j))
  BY <1>1 DEF Listed
<1>3. Ready' \subseteq Ready \cup {root'[i]} /\ Ready \subseteq Ready' \cup {root[i]}
  BY <1>1, <1>2 DEF Ready
<1>4. UNCHANGED <<plan, Made, Offered>>
  BY ReaderSeesFiles
<1>. QED  BY <1>3, <1>4 DEF Contract!Measure

LEMMA FinalizeMeasures ==
  ASSUME NEW i \in Slot, TypeOK, Finalize(i)
  PROVE  Contract!Measure
<1>1. root' = [root EXCEPT ![i] = [root[i] EXCEPT !.listed = TRUE, !.sealed = TRUE]]
  BY DEF Finalize, TypeOK
<1>. QED  BY <1>1, ExecuteMeasures DEF Finalize

(* A plan leaves the executions root as it is or starts a new one.         *)
LEMMA PlanReplans ==
  ASSUME NEW r \in Requests, NEW a, BundleInv, PlanRun(r, a)
  PROVE  Contract!Replan
<1>1. UNCHANGED <<Made, Offered>>
  BY ReaderSeesFiles DEF PlanRun, BuildRunPlan
<1>2. Ready' \in {Ready, {}}
  BY DEF PlanRun, BuildRunPlan, Ready, Listed, NoExecutions
<1>3. plan' # plan
  <2>1. plan # Absent => plan.id \in Nat
    BY Bounds DEF BundleInv, PublicationTypeOK, TypeOK, Plan
  <2>2. plan' = NextPlan(r) /\ plan' \in Plan
    BY NextPlanType DEF PlanRun, BuildRunPlan
  <2>3. CASE plan = Absent
    BY <2>2, <2>3, AbsentAssumption
  <2>4. CASE plan # Absent
    <3>1. plan'.id = plan.id + 1
      BY <2>2, <2>4 DEF NextPlan, PlanId
    <3>. QED  BY <2>1, <2>4, <3>1
  <2>. QED  BY <2>3, <2>4
<1>. QED  BY <1>1, <1>2, <1>3 DEF Contract!Replan

(* Every step is a step of the contract or none of its business.           *)
LEMMA ContractStep ==
  BundleInv /\ [Next]_allVars => [Contract!Next]_(Contract!vars)
<1>. SUFFICES ASSUME BundleInv, [Next]_allVars
              PROVE  Contract!Next \/ UNCHANGED <<plan, Ready, Made, Offered>>
  BY DEF Contract!vars
<1>. USE DEF Contract!Next
<1>1. ASSUME NEW r \in Requests, NEW a, PlanRun(r, a)
      PROVE  Contract!Next
  BY <1>1, PlanReplans
<1>2. ASSUME NEW i \in Slot, NEW e, Execute(i, e)
      PROVE  Contract!Next
  BY <1>2, ExecuteMeasures DEF Execute, BundleInv, PublicationTypeOK
<1>3. ASSUME NEW i \in Slot, Finalize(i)
      PROVE  Contract!Next
  BY <1>3, FinalizeMeasures DEF BundleInv, PublicationTypeOK
<1>4. CASE Seal
  BY <1>4, SealMakes
<1>5. CASE Clear
  BY <1>5, NothingWithoutChecksums DEF Clear
<1>6. CASE Kill
  <2>1. UNCHANGED <<plan, root>> /\ checksums' \in {checksums, {}}
    BY <1>6 DEF Kill
  <2>. QED  BY <2>1, OnlyWhatWasMade, NothingWithoutChecksums
<1>7. CASE UNCHANGED <<plan, root, checksums>>
  BY <1>7, OnlyWhatWasMade
<1>8. ASSUME Aggregate \/ Collect \/ Refuse \/ Conclude \/ (\E p, s : Damage(p, s))
               \/ (\E p : ChangePolicy(p)) \/ Publish
      PROVE  UNCHANGED <<plan, root, checksums>>
  BY <1>8 DEF Aggregate, Collect, Refuse, Conclude, Damage, ChangePolicy, Publish
<1>. QED
  BY <1>1, <1>2, <1>3, <1>4, <1>5, <1>6, <1>7, <1>8 DEF Next, Aggregation, Environment

(* A bundle appears at once, out of every execution that has a manifest,   *)
(* though it is written in many steps any of which may be the last; and    *)
(* nothing but it can be loaded until it is discarded.                     *)
THEOREM AggregationImplementsContract == Spec => ImplementsContract
<1>1. PublicationInit => Contract!Init
  BY DEF PublicationInit, Init, Contract!Init, Ready, Listed, NoExecutions, Made, Offered, Loads
<1>. QED  BY <1>1, ContractStep, BundleCorrect, PTL DEF Spec, ImplementsContract, Contract!Spec
=============================================================================
