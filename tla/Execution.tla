----------------------------- MODULE Execution -----------------------------
(***************************************************************************)
(* One execution directory: harness/execution.py over the atomic writes    *)
(* and checksums of spec/serialization.py, as `pt-bench execute` and       *)
(* `pt-bench finalize` drive them.                                         *)
(*                                                                         *)
(* At most one process works on the directory (a CI job's steps run in     *)
(* turn).  It can be killed between any two file operations and in the     *)
(* middle of writing a temporary file.  A check can raise, or the process  *)
(* be interrupted, while the checks run: run_execution finalizes then.  An *)
(* error or an interrupt anywhere else (the removal, the first files, the  *)
(* finalization itself) leaves the process with nothing done about it.     *)
(*                                                                         *)
(* `temp[p]` is the file ".<p>.tmp" beside p.  Files are compared by what  *)
(* the checksums tell apart: the execution they belong to, a result's      *)
(* status and evidence, a manifest's contents and completion time.         *)
(***************************************************************************)
EXTENDS Naturals

CONSTANTS
  Planned,         \* number of planned checks; they run in order
  Measured,        \* statuses an adapter returns
  MaxEvidence,     \* bound: evidence items of one outcome
  MaxExecutions,   \* bound: `pt-bench execute` runs
  MaxFinalizations,\* bound: finalizations, those inside an execution included
  MaxFaults,       \* bound: kills, and errors nothing catches
  Absent,          \* no such file
  Torn             \* a temporary file cut short

ASSUME ExecutionAssumption ==
  /\ Planned \in Nat /\ MaxEvidence \in Nat
  /\ MaxExecutions \in Nat /\ MaxFinalizations \in Nat /\ MaxFaults \in Nat
  /\ {"adapter.exception", "execution.incomplete"} \cap Measured = {}

Check == 1..Planned
Status == Measured \cup {"adapter.exception", "execution.incomplete"}

StateFile == <<"execution-state.json">>
ObservationFile == <<"subject-observation.json">>
ManifestFile == <<"manifest.json">>
ChecksumFile == <<"checksums.sha256">>
ResultFile(c) == <<"results", c>>
PayloadFile(c, i) == <<"evidence", c, i, "payload">>
RecordFile(c, i) == <<"evidence", c, i, "record">>

Item == 1..MaxEvidence
Path ==
  {StateFile, ObservationFile, ManifestFile, ChecksumFile}
    \cup {ResultFile(c) : c \in Check}
    \cup {PayloadFile(c, i) : c \in Check, i \in Item}
    \cup {RecordFile(c, i) : c \in Check, i \in Item}

Nowhere == <<>>

VARIABLES
  disk,          \* the directory's files
  temp,          \* the temporary files beside them
  writing,       \* the file write_bytes_atomic is about to replace
  pc,            \* where the process is
  next,          \* the check execute or finalize is at
  outcome,       \* the AdapterOutcome being stored
  stored,        \* evidence files of it already written
  execution,     \* the ExecutionContext's execution_id
  executions,    \* executions so far
  finalizations, \* finalizations so far: the completion time of the next manifest
  faults,        \* kills so far, and errors nothing caught
  spoiled        \* history: a removal was cut short and files of it are left

files == <<disk, temp, writing>>
counts == <<execution, executions, finalizations, faults, spoiled>>
vars == <<files, pc, next, outcome, stored, counts>>

File == [execution : Nat]
Result == [execution : Nat, status : Status, evidence : 0..MaxEvidence]
Manifest ==
  [execution : Nat, observation : File \cup {Absent}, results : [Check -> Status],
   completed_at : Nat]

Stored == File \cup Result \cup Manifest \cup {Absent, Torn}
Checksums ==
  [listed : [Path \ {ChecksumFile} -> Stored], leftover : [Path \ {ChecksumFile} -> Stored],
   stray : BOOLEAN]

(* A missing file is none of the files there may be. *)
ASSUME AbsentAssumption ==
  /\ Absent \notin Status
  /\ Absent \notin File /\ Absent \notin Result /\ Absent \notin Manifest
  /\ Absent \notin Checksums

TypeOK ==
  /\ DOMAIN disk = Path /\ DOMAIN temp = Path
  /\ writing \in Path \cup {Nowhere}
  /\ pc \in {"off", "clear", "observe", "check", "store", "fill", "seal", "close"}
  /\ next \in 1..(Planned + 1)
  /\ outcome \in [status : Status, evidence : 0..MaxEvidence]
  /\ stored \in 0..(2 * MaxEvidence)
  /\ execution \in 0..MaxExecutions
  /\ executions \in 0..MaxExecutions
  /\ finalizations \in 0..MaxFinalizations
  /\ faults \in 0..MaxFaults
  /\ spoiled \in BOOLEAN
  /\ \A c \in Check : disk[ResultFile(c)] \in Result \cup {Absent}

NoOutcome == [status |-> "execution.incomplete", evidence |-> 0]

Init ==
  /\ disk = [p \in Path |-> Absent]
  /\ temp = [p \in Path |-> Absent]
  /\ writing = Nowhere
  /\ pc = "off"
  /\ next = 1
  /\ outcome = NoOutcome
  /\ stored = 0
  /\ execution = 0 /\ executions = 0 /\ finalizations = 0 /\ faults = 0
  /\ spoiled = FALSE

-----------------------------------------------------------------------------
(***************************************************************************)
(* write_bytes_atomic: the temporary file, then the replacement.           *)
(***************************************************************************)
Write(path, content) ==
  /\ writing = Nowhere
  /\ temp' = [temp EXCEPT ![path] = content]
  /\ writing' = path
  /\ UNCHANGED disk

Replace ==
  /\ writing # Nowhere
  /\ disk' = [disk EXCEPT ![writing] = temp[writing]]
  /\ temp' = [temp EXCEPT ![writing] = Absent]
  /\ writing' = Nowhere
  /\ UNCHANGED <<pc, next, outcome, stored, counts>>

(* What is left when a write does not return. *)
Abandon ==
  /\ writing' = Nowhere
  /\ \/ UNCHANGED temp
     \/ /\ writing # Nowhere
        /\ temp' = [temp EXCEPT ![writing] = Torn]
  /\ UNCHANGED disk

(***************************************************************************)
(* write_checksums lists every file but checksums.sha256 itself, temporary *)
(* files included; verify_checksums wants exactly those, unchanged.  Of a   *)
(* temporary checksum file its presence is enough: the next seal replaces  *)
(* it, over a new manifest.                                                *)
(***************************************************************************)
Listing ==
  [listed |-> [p \in Path \ {ChecksumFile} |-> disk[p]],
   leftover |-> [p \in Path \ {ChecksumFile} |-> temp[p]],
   stray |-> temp[ChecksumFile] # Absent]

Verified == disk[ChecksumFile] # Absent /\ disk[ChecksumFile] = Listing

Empty == \A p \in Path : disk[p] = Absent /\ temp[p] = Absent

-----------------------------------------------------------------------------
(***************************************************************************)
(* `pt-bench execute`, with --force when the directory is not empty; the   *)
(* tree is removed file by file, in any order.                             *)
(***************************************************************************)
Execute ==
  /\ pc = "off"
  /\ executions < MaxExecutions /\ finalizations < MaxFinalizations
  /\ pc' = "clear"
  /\ UNCHANGED <<files, next, outcome, stored, counts>>

Remove ==
  /\ pc = "clear"
  /\ \E p \in Path :
       \/ /\ disk[p] # Absent
          /\ disk' = [disk EXCEPT ![p] = Absent]
          /\ UNCHANGED <<temp, writing>>
       \/ /\ temp[p] # Absent
          /\ temp' = [temp EXCEPT ![p] = Absent]
          /\ UNCHANGED <<disk, writing>>
  /\ UNCHANGED <<pc, next, outcome, stored, counts>>

(* Mutant: an execution starts in whatever directory it finds. *)
BeginAnywhere ==
  /\ pc = "clear"
  /\ executions' = executions + 1
  /\ execution' = executions'
  /\ Write(StateFile, [execution |-> execution'])
  /\ spoiled' = FALSE
  /\ pc' = "observe"
  /\ UNCHANGED <<next, outcome, stored, finalizations, faults>>

(* run_execution begins: a new execution id, and the state file. *)
Begin ==
  /\ pc = "clear" /\ Empty
  /\ executions' = executions + 1
  /\ execution' = executions'
  /\ Write(StateFile, [execution |-> execution'])
  /\ spoiled' = FALSE
  /\ pc' = "observe"
  /\ UNCHANGED <<next, outcome, stored, finalizations, faults>>

(* The preflight's observation, when there is one. *)
Observe ==
  /\ pc = "observe" /\ writing = Nowhere
  /\ \/ Write(ObservationFile, [execution |-> execution])
     \/ UNCHANGED files
  /\ pc' = "check"
  /\ next' = 1
  /\ UNCHANGED <<outcome, stored, counts>>

-----------------------------------------------------------------------------
(***************************************************************************)
(* _execute_checks: the adapter's outcome or its exception, the evidence   *)
(* (_store_evidence: payload, then record), the result.                    *)
(***************************************************************************)
Measure ==
  /\ pc = "check" /\ writing = Nowhere /\ next <= Planned
  /\ \/ outcome' \in [status : Measured, evidence : 0..MaxEvidence]
     \/ outcome' = [status |-> "adapter.exception", evidence |-> 0]
  /\ stored' = 0
  /\ pc' = "store"
  /\ UNCHANGED <<files, next, counts>>

(* Mutant: one file too many. *)
StoreEvidencePast ==
  /\ pc = "store" /\ stored <= 2 * outcome.evidence
  /\ LET item == (stored \div 2) + 1
     IN  Write(IF stored % 2 = 0 THEN PayloadFile(next, item) ELSE RecordFile(next, item),
               [execution |-> execution])
  /\ stored' = stored + 1
  /\ UNCHANGED <<pc, next, outcome, counts>>

StoreEvidence ==
  /\ pc = "store" /\ stored < 2 * outcome.evidence
  /\ LET item == (stored \div 2) + 1
     IN  Write(IF stored % 2 = 0 THEN PayloadFile(next, item) ELSE RecordFile(next, item),
               [execution |-> execution])
  /\ stored' = stored + 1
  /\ UNCHANGED <<pc, next, outcome, counts>>

(* Mutant: the result does not wait for its evidence. *)
StoreResultEarly ==
  /\ pc = "store"
  /\ Write(ResultFile(next), [execution |-> execution, status |-> outcome.status,
                              evidence |-> outcome.evidence])
  /\ pc' = "check"
  /\ next' = next + 1
  /\ UNCHANGED <<outcome, stored, counts>>

StoreResult ==
  /\ pc = "store" /\ stored = 2 * outcome.evidence
  /\ Write(ResultFile(next), [execution |-> execution, status |-> outcome.status,
                              evidence |-> outcome.evidence])
  /\ pc' = "check"
  /\ next' = next + 1
  /\ UNCHANGED <<outcome, stored, counts>>

(***************************************************************************)
(* finalize_execution, reached when the checks are done, when storing what *)
(* one of them returned raises or the process is interrupted (`finally`),  *)
(* and by `pt-bench finalize`, which needs the state file.                 *)
(***************************************************************************)
Finalize ==
  /\ finalizations' = finalizations + 1
  /\ pc' = "fill"
  /\ next' = 1
  /\ UNCHANGED <<outcome, stored, execution, executions, faults, spoiled>>

ChecksDone ==
  /\ pc = "check" /\ writing = Nowhere /\ next > Planned
  /\ Finalize
  /\ UNCHANGED files

(* Mutant: the exception leaves without finalizing. *)
AbortUnfinished ==
  /\ pc \in {"check", "store"} /\ writing # ObservationFile
  /\ pc' = "off"
  /\ Abandon
  /\ UNCHANGED <<next, outcome, stored, counts>>

Abort ==
  /\ pc \in {"check", "store"} /\ writing # ObservationFile
  /\ Finalize
  /\ Abandon

FinalizeCommand ==
  /\ pc = "off" /\ finalizations < MaxFinalizations
  /\ disk[StateFile] # Absent
  /\ Finalize
  /\ UNCHANGED files

(* Mutant: finalizing writes over results that exist. *)
FillAll ==
  /\ pc = "fill" /\ next <= Planned
  /\ Write(ResultFile(next), [execution |-> disk[StateFile].execution,
                              status |-> "execution.incomplete", evidence |-> 0])
  /\ UNCHANGED <<pc, next, outcome, stored, counts>>

Fill ==
  /\ pc = "fill" /\ next <= Planned
  /\ disk[ResultFile(next)] = Absent
  /\ Write(ResultFile(next), [execution |-> disk[StateFile].execution,
                              status |-> "execution.incomplete", evidence |-> 0])
  /\ UNCHANGED <<pc, next, outcome, stored, counts>>

(* A result of another execution is a ValueError. *)
Accept ==
  /\ pc = "fill" /\ writing = Nowhere /\ next <= Planned
  /\ disk[ResultFile(next)] # Absent
  /\ IF disk[ResultFile(next)].execution = disk[StateFile].execution
     THEN next' = next + 1 /\ UNCHANGED pc
     ELSE pc' = "off" /\ UNCHANGED next
  /\ UNCHANGED <<files, outcome, stored, counts>>

WriteManifest ==
  /\ pc = "fill" /\ next > Planned
  /\ Write(ManifestFile, [execution |-> disk[StateFile].execution,
                          observation |-> disk[ObservationFile],
                          results |-> [c \in Check |-> disk[ResultFile(c)].status],
                          completed_at |-> finalizations])
  /\ pc' = "seal"
  /\ UNCHANGED <<next, outcome, stored, counts>>

(* Mutant: files left behind by an aborted write are not listed. *)
WriteChecksumsTidy ==
  /\ pc = "seal"
  /\ Write(ChecksumFile,
           [Listing EXCEPT !.leftover = [p \in Path \ {ChecksumFile} |-> Absent]])
  /\ pc' = "close"
  /\ UNCHANGED <<next, outcome, stored, counts>>

WriteChecksums ==
  /\ pc = "seal"
  /\ Write(ChecksumFile, Listing)
  /\ pc' = "close"
  /\ UNCHANGED <<next, outcome, stored, counts>>

Close ==
  /\ pc = "close" /\ writing = Nowhere
  /\ pc' = "off"
  /\ UNCHANGED <<files, next, outcome, stored, counts>>

-----------------------------------------------------------------------------
(* The process ends where it is: nothing removes a temporary file. *)
Stop ==
  /\ faults < MaxFaults
  /\ faults' = faults + 1
  /\ pc' = "off"
  /\ spoiled' = (spoiled \/ pc = "clear")
  /\ Abandon
  /\ UNCHANGED <<next, outcome, stored, execution, executions, finalizations>>

(* The process is killed. *)
Crash == pc # "off" /\ Stop

(***************************************************************************)
(* An OSError (a full disk), or an interrupt, outside the `try` of         *)
(* run_execution: in the removal, in the state file or the observation, or *)
(* in finalize_execution, which the `finally` calls and nothing guards.    *)
(***************************************************************************)
Escape ==
  /\ \/ pc \in {"clear", "observe", "fill", "seal", "close"}
     \/ writing = ObservationFile
  /\ Stop

(* The steps a running process takes when nothing goes wrong. *)
Work ==
  \/ Replace \/ Remove \/ Begin \/ Observe
  \/ Measure \/ StoreEvidence \/ StoreResult \/ ChecksDone
  \/ Fill \/ Accept \/ WriteManifest \/ WriteChecksums \/ Close

Next == Work \/ Execute \/ FinalizeCommand \/ Abort \/ Crash \/ Escape

(* A running process goes on running, and an adapter returns or raises. *)
Spec == Init /\ [][Next]_vars /\ WF_vars(Work)

-----------------------------------------------------------------------------
(***************************************************************************)
(* A directory whose checksums verify holds a result for every planned     *)
(* check and a manifest that says what the results and the observation     *)
(* say, whatever was killed, raised or finalized again on the way; and     *)
(* every result has the evidence it refers to, payload and record.  Only   *)
(* the evidence has an exception: the remains of a --force removal that    *)
(* was cut short may be finalized without it (aggregation refuses them).   *)
(***************************************************************************)
VerifiedIsComplete ==
  Verified =>
    /\ disk[ManifestFile] # Absent
    /\ disk[ManifestFile].observation = disk[ObservationFile]
    /\ \A c \in Check :
         LET result == disk[ResultFile(c)]
         IN  /\ result # Absent
             /\ disk[ManifestFile].results[c] = result.status
             /\ ~spoiled => \A i \in 1..result.evidence :
                  disk[PayloadFile(c, i)] # Absent /\ disk[RecordFile(c, i)] # Absent

(***************************************************************************)
(* Files of two executions never share a directory, whatever was killed    *)
(* and whatever --force replaced.                                          *)
(***************************************************************************)
OneExecution ==
  \A p, q \in Path \ {ChecksumFile} :
    disk[p] # Absent /\ disk[q] # Absent => disk[p].execution = disk[q].execution

(***************************************************************************)
(* A finalization that returns leaves a directory that verifies, unless a  *)
(* kill or an error had left a temporary checksum file for it to list:     *)
(* whatever else was left behind or filled in is covered by the new seal.  *)
(* A later finalization rewrites the manifest under that seal, and until   *)
(* it has sealed again nothing is said of the directory.                   *)
(***************************************************************************)
SealHolds ==
  (pc = "close" /\ writing = Nowhere
     /\ ~disk[ChecksumFile].stray) => Verified

(***************************************************************************)
(* An execution that starts its checks ends with its own manifest on disk  *)
(* (execution.py:1, "guarantee a finalized result manifest") whatever its  *)
(* checks do: raise, be interrupted, leave results or temporary files      *)
(* missing.  The guarantee is no wider than that: a kill, or an error or   *)
(* interrupt in the finalization itself, leaves the directory to a later   *)
(* `pt-bench finalize`.                                                    *)
(***************************************************************************)
Concludes ==
  \A k \in 0..MaxFaults, e \in 1..MaxExecutions :
    (pc = "check" /\ faults = k /\ execution = e) ~>
      \/ faults > k
      \/ /\ pc = "close" /\ writing = Nowhere
         /\ disk[ManifestFile].execution = e

(***************************************************************************)
(* The directory implements the contract: a result is written once and     *)
(* never replaced, and a manifest says what the results say.               *)
(***************************************************************************)
Contract ==
  INSTANCE ExecutionContract
    WITH Nothing <- Absent,
         verdict <- [c \in Check |-> IF disk[ResultFile(c)] = Absent THEN Absent
                                     ELSE disk[ResultFile(c)].status],
         published <- IF disk[ManifestFile] = Absent THEN Absent
                      ELSE disk[ManifestFile].results

ImplementsContract == Contract!Spec

(***************************************************************************)
(* execution.py:1 and serialization.py:51: a finalization that returns has *)
(* sealed the directory, with the checksum file itself left out.           *)
(***************************************************************************)
FinalizedVerifies == pc = "close" /\ writing = Nowhere => Verified
=============================================================================
