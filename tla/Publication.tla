---------------------------- MODULE Publication ----------------------------
(***************************************************************************)
(* The operational policy over a run: spec/operations.py, the gate of      *)
(* harness/planning.py and harness/publishing.py, as `pt-bench plan` and   *)
(* `pt-bench publish` drive them, composed with RunBundle.  The policy is  *)
(* a checked-in file and may change between any two commands.              *)
(***************************************************************************)
EXTENDS RunBundle

CONSTANT
  Policies        \* policies a maintainer may check in

ASSUME PublicationAssumption ==
  \A p \in Policies :
    /\ p.active \in BOOLEAN
    /\ p.target \in {"none", "github_releases", "github_pages", "public_object_store"}
    /\ p.approved \subseteq Subject /\ p.redaction_required \in BOOLEAN

VARIABLES
  policy,     \* the checked-in operations policy
  receipts    \* the staged receipt of each bundle, or Absent

publication == <<policy, receipts>>
allVars == <<vars, publication>>

PublicationTypeOK ==
  /\ TypeOK
  /\ policy \in Policies
  /\ DOMAIN receipts = 1..MaxBundles
  /\ \A b \in 1..MaxBundles : receipts[b] = Absent \/ receipts[b].policy \in Policies

PublicationInit ==
  /\ Init
  /\ policy \in Policies
  /\ receipts = [b \in 1..MaxBundles |-> Absent]

ChangePolicy(p) ==
  /\ p # policy
  /\ policy' = p
  /\ UNCHANGED <<vars, receipts>>

(* --allow-unapproved-subjects lifts the planning gate. *)
PlanRun(request, allow_unapproved) ==
  /\ BuildRunPlan(request, allow_unapproved \/ request.subjects \subseteq policy.approved)
  /\ UNCHANGED publication

(* Mutant: any bundle that was measured in GitHub Actions may be offered. *)
AllowedIncomplete ==
  /\ policy.active
  /\ policy.target # "none"
  /\ manifest.plan.mode = "github_actions"
  /\ \A e \in manifest.executions : e.subject \in policy.approved
  /\ policy.redaction_required => \A r \in evidence : r.redacted

(* evaluate_publication finds no reason to refuse.  A plan made in GitHub  *)
(* Actions always carries its provenance.                                  *)
Allowed ==
  /\ policy.active
  /\ policy.target # "none"
  /\ manifest.complete
  /\ manifest.plan.mode = "github_actions"
  /\ \A e \in manifest.executions : e.subject \in policy.approved
  /\ policy.redaction_required => \A r \in evidence : r.redacted

(* PublicationReceipt's own validation: one entry per execution, unique    *)
(* subjects.                                                               *)
ReceiptValid ==
  /\ manifest.executions # {}
  /\ \A e, f \in manifest.executions : e.subject = f.subject => e = f

(* A fresh uuid for every staging. *)
NewReceipt == 1 + Cardinality({b \in DOMAIN receipts : receipts[b] # Absent})

(* load_bundle, evaluate_publication, stage_publication: one process, and  *)
(* nothing else writes the staging directory between its test and its      *)
(* write.                                                                  *)
Publish ==
  /\ pc = "off" /\ Loads
  /\ Allowed
  /\ ReceiptValid
  /\ receipts[manifest.bundle] = Absent
  /\ receipts' = [receipts EXCEPT ![manifest.bundle] =
                    [receipt_id |-> NewReceipt, policy |-> policy,
                     digest |-> Contents]]
  /\ UNCHANGED <<vars, policy>>

Next ==
  \/ (Aggregation \/ Environment) /\ UNCHANGED publication
  \/ \E r \in Requests, a \in BOOLEAN : PlanRun(r, a)
  \/ \E p \in Policies : ChangePolicy(p)
  \/ Publish

Spec == PublicationInit /\ [][Next]_allVars

-----------------------------------------------------------------------------
Rows == Rollup(results, manifest)

(***************************************************************************)
(* A bundle that loads says what was measured: a decisive outcome of a row *)
(* (analysis.classify_outcome) was reported by exactly one sealed          *)
(* execution of the bundle's plan for each planned repetition, whatever    *)
(* was killed, repeated, left over from an earlier plan or damaged.        *)
(***************************************************************************)
Unanimous(m, row, status) ==
  \A k \in 1..m.plan.repetitions :
    \E e \in m.executions :
      /\ Position(e) = <<row[1], k>>
      /\ e.sealed /\ e.plan = m.plan.id /\ e.verdict[row[2]] = status
      /\ \A f \in m.executions : Position(f) = Position(e) => f = e

VerdictIsEarned ==
  Loads =>
    \A row \in DOMAIN Rows :
      Rows[row].outcome \in Decisive => Unanimous(manifest, row, Rows[row].outcome)

(***************************************************************************)
(* The two conditions of aggregate_run's completion (no subject missing,   *)
(* enough executions) agree with each other and with the bundle: it is     *)
(* complete exactly when every planned position was measured, and an       *)
(* incomplete one names a subject that is short.                           *)
(***************************************************************************)
CompleteIsMeasured ==
  manifest # Absent =>
    /\ manifest.complete <=>
         \A s \in manifest.plan.subjects, k \in 1..manifest.plan.repetitions :
           \E e \in manifest.executions : Position(e) = <<s, k>>
    /\ manifest.complete <=> manifest.missing = {}

(***************************************************************************)
(* "Canonical" survives everything between planning and staging: a receipt *)
(* exists only over a bundle whose every planned position was measured by  *)
(* a sealed execution of one GitHub Actions plan, whose subjects were      *)
(* approved and whose evidence was redacted under the policy the receipt   *)
(* names, even if planning skipped its gate or the policy changed.         *)
(***************************************************************************)
ReceiptIsEarned ==
  \A b \in DOMAIN receipts :
    receipts[b] # Absent =>
      LET m == receipts[b].digest[3]
          under == receipts[b].policy
      IN  /\ m.bundle = b /\ m.plan.mode = "github_actions"
          /\ under.active /\ m.plan.subjects \subseteq under.approved
          /\ \A s \in m.plan.subjects, c \in Check, k \in 1..m.plan.repetitions :
               \E e \in m.executions :
                 /\ Position(e) = <<s, k>>
                 /\ e.sealed /\ e.plan = m.plan.id
                 /\ under.redaction_required => e.redacted \/ e.verdict[c] = "error"
                 /\ receipts[b].digest[1][<<<<s.id, k>>, c>>]
                      = [execution |-> e.id, status |-> e.verdict[c]]

(***************************************************************************)
(* A receipt pins bytes (bundle_digest): a bundle that loads and has a     *)
(* receipt is the one that was offered, through damage, --force and kills. *)
(***************************************************************************)
ReceiptPinsBundle ==
  Loads /\ receipts[manifest.bundle] # Absent =>
    receipts[manifest.bundle].digest = Contents

(***************************************************************************)
(* What `pt-bench compare` calls a regression since a published bundle is  *)
(* one, also between two versions of a client: every repetition of the     *)
(* published run's newest version passed and every repetition of the newer *)
(* run's newest version fails; and such a change is never called anything  *)
(* else.                                                                   *)
(***************************************************************************)
Newest(s, subjects) == s \in subjects /\ \A t \in subjects : t.id = s.id => t.version <= s.version

RegressionIsReal ==
  Loads =>
    \A b \in DOMAIN receipts :
      LET m == receipts[b].digest[3]
          change == Compare(Rollup(receipts[b].digest[1], m), Rows)
      IN  receipts[b] # Absent /\ Comparable(m, manifest) =>
            \A key \in DOMAIN change :
              change[key] = "regressed" <=>
                \E s, t \in Subject :
                  /\ s.id = key[1] /\ t.id = key[1]
                  /\ Newest(s, m.plan.subjects) /\ Newest(t, manifest.plan.subjects)
                  /\ Unanimous(m, <<s, key[2]>>, "pass")
                  /\ Unanimous(manifest, <<t, key[2]>>, "fail")

(***************************************************************************)
(* publishing.py:11: the gate     "reports *every* reason it refuses, not   *)
(* just the first", so a bundle it has no reason to refuse can be staged.  *)
(***************************************************************************)
AllowedIsStaged == Loads /\ Allowed => ReceiptValid

(***************************************************************************)
(* Aggregation implements its contract: a bundle appears at once, out of   *)
(* every execution that has a manifest, though it is written in many steps *)
(* any of which may be the last, and nothing else can ever be loaded: not  *)
(* what is left of two versions that overwrote each other's results.       *)
(***************************************************************************)
BundleOf(contents) ==
  LET files == contents[1]
      m == contents[3]
  IN  [plan |-> m.plan,
       verdicts |-> [e \in m.executions |->
                       [c \in Check |-> files[<<Place(e), c>>].status]],
       complete |-> m.complete]

Ready == {root[i] : i \in {j \in Slot : Listed(j)}}
Made == {BundleOf(contents) : contents \in {x \in checksums : Legible(x)}}
Offered == IF Loads THEN BundleOf(Contents) ELSE Absent

Contract == INSTANCE BundleContract WITH
              Nothing <- Absent, ready <- Ready, made <- Made, offered <- Offered

ImplementsContract == Contract!Spec
=============================================================================
