------------------------- MODULE PublicationProofs -------------------------
(***************************************************************************)
(* What a staged receipt guarantees, for any number of plans, executions,  *)
(* bundles, kills and policies.                                            *)
(***************************************************************************)
EXTENDS Publication, TLAPS

USE DEF vars, tree, process, publication, allVars

(***************************************************************************)
(* Bundle ids are only ever issued upwards, and a checksum file is written *)
(* for the bundle that was just given its id; until then that id has no    *)
(* receipt.                                                                *)
(***************************************************************************)
BundleIds ==
  /\ bundles \in 0..MaxBundles
  /\ pc \in {"off", "clear", "collect", "conclude", "seal"}
  /\ pc \in {"clear", "collect", "conclude"} => bundles < MaxBundles
  /\ manifest = Absent \/ manifest.bundle \in 1..bundles
  /\ pc = "seal" => bundles \in 1..MaxBundles /\ manifest.bundle = bundles

ReceiptIds ==
  /\ DOMAIN receipts = 1..MaxBundles
  /\ \A b \in DOMAIN receipts : receipts[b] # Absent => b <= bundles
  /\ pc = "seal" => receipts[bundles] = Absent

Sealed ==
  /\ pc \in {"collect", "conclude", "seal"} => checksums = {}
  /\ \A x \in checksums : x[3].bundle \in 1..bundles
  /\ \A x \in checksums :
       receipts[x[3].bundle] # Absent => receipts[x[3].bundle].digest = x

PinInv == BundleIds /\ ReceiptIds /\ Sealed

(* Before the first plan there is no bundle, no checksum file and no receipt. *)
LEMMA PinInitially == PublicationInit => PinInv
  BY PublicationAssumption, RunBundleAssumption
  DEF PublicationInit, Init, PinInv, BundleIds, ReceiptIds, Sealed

(* No step reuses a bundle id or rewrites what a receipted bundle's          *)
(* checksums cover.                                                        *)
LEMMA PinStep == PinInv /\ [Next]_allVars => PinInv'
<1>. SUFFICES ASSUME PinInv, [Next]_allVars PROVE PinInv'
  OBVIOUS
<1>. USE DEF PinInv
<1>. MaxBundles \in Nat
  BY RunBundleAssumption
<1>1. ASSUME UNCHANGED <<tree, pc, bundles, receipts>>
      PROVE  PinInv'
  BY <1>1 DEF BundleIds, ReceiptIds, Sealed
<1>2. ASSUME Aggregate, UNCHANGED publication
      PROVE  PinInv'
  BY <1>2 DEF Aggregate, Empty, Contents, BundleIds, ReceiptIds, Sealed
<1>3. ASSUME Clear, UNCHANGED publication
      PROVE  PinInv'
  BY <1>3 DEF Clear, BundleIds, ReceiptIds, Sealed
<1>4. ASSUME Collect, UNCHANGED publication
      PROVE  PinInv'
  <2>. UNCHANGED <<manifest, checksums, bundles, receipts>> /\ pc' \in {"collect", "conclude"}
    BY <1>4 DEF Collect
  <2>. QED  BY <1>4 DEF Collect, BundleIds, ReceiptIds, Sealed
<1>5. ASSUME Refuse, UNCHANGED publication
      PROVE  PinInv'
  BY <1>5 DEF Refuse, Return, BundleIds, ReceiptIds, Sealed
<1>6. ASSUME Conclude, UNCHANGED publication
      PROVE  PinInv'
  <2>1. BundleIds'
    BY <1>6 DEF Conclude, BundleIds
  <2>2. receipts[bundles + 1] = Absent
    BY <1>6 DEF Conclude, BundleIds, ReceiptIds
  <2>3. ReceiptIds' /\ Sealed'
    BY <1>6, <2>2 DEF Conclude, BundleIds, ReceiptIds, Sealed
  <2>. QED  BY <2>1, <2>3
<1>7. ASSUME Seal, UNCHANGED publication
      PROVE  PinInv'
  BY <1>7 DEF Seal, Return, Contents, BundleIds, ReceiptIds, Sealed
<1>8. ASSUME Kill, UNCHANGED publication
      PROVE  PinInv'
  <2>. /\ UNCHANGED <<bundles, receipts>> /\ pc' = "off"
       /\ manifest' \in {manifest, Absent} /\ checksums' \in {checksums, {}}
    BY <1>8 DEF Kill, Return
  <2>. QED  BY DEF BundleIds, ReceiptIds, Sealed
<1>9. ASSUME NEW p, NEW s, Damage(p, s), UNCHANGED publication
      PROVE  PinInv'
  BY <1>9 DEF Damage, BundleIds, ReceiptIds, Sealed
<1>10. ASSUME NEW i, NEW e, Execute(i, e), UNCHANGED publication
       PROVE  PinInv'
  BY <1>10, <1>1 DEF Execute
<1>11. ASSUME NEW i, Finalize(i), UNCHANGED publication
       PROVE  PinInv'
  BY <1>11, <1>1 DEF Finalize
<1>12. ASSUME NEW r, NEW a, PlanRun(r, a)
       PROVE  PinInv'
  BY <1>12, <1>1 DEF PlanRun, BuildRunPlan
<1>13. ASSUME NEW p, ChangePolicy(p)
       PROVE  PinInv'
  BY <1>13, <1>1 DEF ChangePolicy
<1>14. ASSUME Publish
       PROVE  PinInv'
  <2>1. manifest # Absent /\ checksums = {<<results, evidence, manifest>>}
    BY <1>14 DEF Publish, Loads, Legible, Contents
  <2>2. BundleIds'
    BY <1>14 DEF Publish, BundleIds
  <2>3. manifest.bundle \in 1..bundles /\ manifest.bundle \in DOMAIN receipts
    BY <2>1 DEF BundleIds, ReceiptIds
  <2>4. ReceiptIds'
    BY <1>14, <2>3 DEF Publish, BundleIds, ReceiptIds
  <2>5. receipts'[manifest.bundle].digest = <<results, evidence, manifest>>
    BY <1>14, <2>3 DEF Publish, Contents, ReceiptIds
  <2>6. Sealed'
    BY <1>14, <2>1, <2>3, <2>5 DEF Publish, Sealed
  <2>. QED  BY <2>2, <2>4, <2>6
<1>15. CASE UNCHANGED allVars
  BY <1>15, <1>1
<1>. QED
  BY <1>2, <1>3, <1>4, <1>5, <1>6, <1>7, <1>8, <1>9, <1>10, <1>11, <1>12, <1>13, <1>14, <1>15
  DEF Next, Aggregation, Environment

(* The invariant of aggregation and staging together.                      *)
THEOREM PinCorrect == Spec => []PinInv
  BY PinInitially, PinStep, PTL DEF Spec

(***************************************************************************)
(* A bundle that loads and has a receipt is byte for byte the bundle that  *)
(* was offered.                                                            *)
(***************************************************************************)
THEOREM ReceiptsPinBundles == Spec => []ReceiptPinsBundle
<1>1. PinInv => ReceiptPinsBundle
  BY DEF PinInv, Sealed, ReceiptPinsBundle, Loads, Contents
<1>. QED  BY <1>1, PinCorrect, PTL
=============================================================================
