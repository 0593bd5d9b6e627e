------------------------------ MODULE Analysis ------------------------------
(***************************************************************************)
(* harness/analysis.py: what the repetitions of a check amount to, and how *)
(* two runs differ.  `results` maps the repetitions that were measured to  *)
(* the status each one reported.  Rates stay the pair of counts they are   *)
(* computed from; the Wilson interval around them is left out.             *)
(***************************************************************************)
EXTENDS Naturals, FiniteSets

Statuses ==
  {"pass", "fail", "partial", "inconclusive", "unsupported", "not_applicable",
   "not_tested", "error"}

Observed(results) == {results[r] : r \in DOMAIN results}

Counted(results, status) == Cardinality({r \in DOMAIN results : results[r] = status})

ClassifyOutcome(observed) ==
  IF observed = {} THEN "incomplete"
  ELSE IF observed = {"not_applicable"} THEN "not_applicable"
  ELSE IF observed = {"unsupported"} THEN "unsupported"
  ELSE IF observed = {"pass"} THEN "pass"
  ELSE IF observed = {"fail"} THEN "fail"
  ELSE IF {"pass", "fail"} \subseteq observed THEN "flaky"
  ELSE "inconclusive"

CheckRollup(results, expected) ==
  [outcome |-> IF Cardinality(DOMAIN results) < expected
                 THEN "incomplete"
                 ELSE ClassifyOutcome(Observed(results)),
   passes |-> Counted(results, "pass"),
   decisive |-> Counted(results, "pass") + Counted(results, "fail")]

Decisive == {"pass", "fail"}

(* Mutant: baseline and candidate change places. *)
ChangeSwapped(before, after) ==
  IF before = after THEN "unchanged"
  ELSE IF ~({before, after} \subseteq Decisive) THEN "unorderable"
  ELSE IF before = "pass" THEN "improved"
  ELSE "regressed"

(* Both sides have the row; `new` and `removed` are added by Compare. *)
Change(before, after) ==
  IF before = after THEN "unchanged"
  ELSE IF ~({before, after} \subseteq Decisive) THEN "unorderable"
  ELSE IF after = "pass" THEN "improved"
  ELSE "regressed"

(***************************************************************************)
(* Roll-ups are functions from rows, a subject and a check, to CheckRollup.*)
(* A comparison leaves the version out of its rows, so that a new client   *)
(* is compared with the old one: of two versions in one run the dict of    *)
(* _index_rollup keeps the last, which is the greatest.                    *)
(***************************************************************************)
Key(row) == <<row[1].id, row[2]>>

Keys(rollup) == {Key(row) : row \in DOMAIN rollup}

Last(rollup, row) ==
  \A other \in DOMAIN rollup : Key(other) = Key(row) => other[1].version <= row[1].version

Index(rollup) ==
  [key \in Keys(rollup) |->
     rollup[CHOOSE row \in DOMAIN rollup : Key(row) = key /\ Last(rollup, row)].outcome]

(* A baseline that is newer, and a bundle against itself, are refused.     *)
Comparable(baseline, candidate) == baseline.bundle < candidate.bundle

(* compare_rollups, for two bundles that may be compared. *)
Compare(baseline, candidate) ==
  [key \in Keys(baseline) \cup Keys(candidate) |->
     IF key \notin Keys(baseline) THEN "new"
     ELSE IF key \notin Keys(candidate) THEN "removed"
     ELSE Change(Index(baseline)[key], Index(candidate)[key])]
=============================================================================
