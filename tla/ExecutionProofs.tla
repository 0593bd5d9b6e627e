-------------------------- MODULE ExecutionProofs --------------------------
(***************************************************************************)
(* What an execution directory guarantees for any number of checks, any    *)
(* evidence, any number of executions and finalizations, and kills         *)
(* anywhere: its type, one execution's files, completeness behind the      *)
(* seal, the seal itself, and the contract with its readers.               *)
(***************************************************************************)
EXTENDS Execution, TLAPS

USE DEF files, counts, vars

Results == {ResultFile(c) : c \in Check}
EvidenceFiles(c) ==
  {PayloadFile(c, i) : i \in Item} \cup {RecordFile(c, i) : i \in Item}

(* What may be in a file; the checksum file apart. *)
Content(p) ==
  IF p = ManifestFile THEN Manifest ELSE IF p \in Results THEN Result ELSE File

(***************************************************************************)
(* Every file, and the one being written, is well formed and carries the   *)
(* id of the execution that began last: an execution begins in an empty    *)
(* directory.                                                              *)
(***************************************************************************)
Filed ==
  /\ disk = [p \in Path |-> disk[p]] /\ temp = [p \in Path |-> temp[p]]
  /\ \A p \in Path \ {ChecksumFile} :
       disk[p] # Absent => disk[p] \in Content(p) /\ disk[p].execution = execution
  /\ writing \in Path \ {ChecksumFile} =>
       temp[writing] \in Content(writing) /\ temp[writing].execution = execution
  /\ \A p \in Path \ {ChecksumFile} : temp[p] \in Stored

(* Where the process is, which file it may be writing there. *)
Writes ==
  /\ writing \in Path \cup {Nowhere}
  /\ pc \in {"off", "clear"} => writing = Nowhere
  /\ pc = "observe" => writing \in {StateFile, Nowhere}
  /\ pc = "check" => writing \in {ResultFile(next - 1), ObservationFile, Nowhere}
  /\ pc = "store" => writing \in EvidenceFiles(next) \cup {Nowhere}
  /\ pc = "fill" => writing \in {ResultFile(next), Nowhere}
  /\ pc = "seal" => writing \in {ManifestFile, Nowhere}
  /\ pc = "close" => writing \in {ChecksumFile, Nowhere}

(* The counters, and the process's position in the plan. *)
Bounds ==
  /\ pc \in {"off", "clear", "observe", "check", "store", "fill", "seal", "close"}
  /\ next \in 1..(Planned + 1)
  /\ outcome \in [status : Status, evidence : 0..MaxEvidence]
  /\ stored \in 0..(2 * MaxEvidence)
  /\ execution \in 0..MaxExecutions /\ executions = execution
  /\ finalizations \in 0..MaxFinalizations
  /\ faults \in 0..MaxFaults
  /\ spoiled \in BOOLEAN
  /\ pc = "clear" => executions < MaxExecutions
  /\ pc \in {"clear", "observe", "check", "store"} => finalizations < MaxFinalizations
  /\ pc = "store" => next <= Planned /\ stored <= 2 * outcome.evidence
  /\ pc = "fill" /\ writing # Nowhere => next <= Planned

(* What is on disk at which point of an execution or finalization. *)
Progress ==
  /\ pc = "observe" => writing = StateFile \/ disk[StateFile] # Absent
  /\ pc \in {"check", "store", "fill", "seal", "close"} => disk[StateFile] # Absent
  /\ pc = "observe" => \A c \in Check : disk[ResultFile(c)] = Absent
  /\ pc \in {"check", "store"} => \A c \in next..Planned : disk[ResultFile(c)] = Absent
  /\ writing \in Results => disk[writing] = Absent
  /\ pc = "fill" => \A c \in 1..(next - 1) : disk[ResultFile(c)] # Absent
  /\ pc \in {"seal", "close"} => \A c \in Check : disk[ResultFile(c)] # Absent

(* The evidence a result refers to, in the directory d. *)
HasEvidence(d, c, result) ==
  \A i \in 1..result.evidence : d[PayloadFile(c, i)] # Absent /\ d[RecordFile(c, i)] # Absent

(* Evidence is on disk before the result that refers to it is written. *)
Evidence ==
  /\ ~spoiled /\ pc # "clear" =>
       \A c \in Check : disk[ResultFile(c)] # Absent => HasEvidence(disk, c, disk[ResultFile(c)])
  /\ ~spoiled =>
       \A c \in Check : writing = ResultFile(c) => HasEvidence(disk, c, temp[ResultFile(c)])
  /\ pc = "store" =>
       \A i \in 1..outcome.evidence :
         /\ 2 * i <= stored + 1 => PayloadFile(next, i) = writing \/ disk[PayloadFile(next, i)] # Absent
         /\ 2 * i <= stored => RecordFile(next, i) = writing \/ disk[RecordFile(next, i)] # Absent

(* The manifest m says what the directory d holds. *)
Describes(m, d) ==
  /\ m.observation = d[ObservationFile]
  /\ \A c \in Check : d[ResultFile(c)] # Absent /\ m.results[c] = d[ResultFile(c)].status

Described(d) == d[ManifestFile] # Absent /\ Describes(d[ManifestFile], d)

Complete(d) ==
  /\ Described(d)
  /\ \A c \in Check : HasEvidence(d, c, d[ResultFile(c)])

(* The manifest on its way, and the seal over a directory. *)
Closing ==
  /\ writing = ManifestFile => Describes(temp[ManifestFile], disk)
  /\ pc = "seal" /\ writing = Nowhere =>
       disk[ManifestFile] # Absent /\ Describes(disk[ManifestFile], disk)

SealOf(seal) ==
  /\ seal \in Checksums
  /\ seal.listed = Listing.listed /\ seal.leftover = Listing.leftover

Seals ==
  /\ writing = ChecksumFile => SealOf(temp[ChecksumFile])
  /\ pc = "close" /\ writing = Nowhere => SealOf(disk[ChecksumFile]) /\ temp[ChecksumFile] = Absent
  /\ disk[ChecksumFile] # Absent => Described(disk[ChecksumFile].listed)
  /\ writing = ChecksumFile => Described(temp[ChecksumFile].listed)
  /\ ~spoiled /\ disk[ChecksumFile] # Absent => Complete(disk[ChecksumFile].listed)
  /\ ~spoiled /\ writing = ChecksumFile => Complete(temp[ChecksumFile].listed)

DirectoryInv == Filed /\ Writes /\ Bounds /\ Progress /\ Evidence /\ Closing /\ Seals

(***************************************************************************)
(* No two names are names of one file.                                     *)
(***************************************************************************)
LEMMA PathNames ==
  /\ StateFile # ObservationFile /\ StateFile # ManifestFile /\ StateFile # ChecksumFile
  /\ ObservationFile # ManifestFile /\ ObservationFile # ChecksumFile
  /\ ManifestFile # ChecksumFile
  /\ Nowhere \notin Path
  BY DEF StateFile, ObservationFile, ManifestFile, ChecksumFile, Nowhere, Path, ResultFile,
         PayloadFile, RecordFile

LEMMA ResultNames ==
  ASSUME NEW c, NEW d
  PROVE  /\ ResultFile(c) = ResultFile(d) => c = d
         /\ ResultFile(c) \notin {StateFile, ObservationFile, ManifestFile, ChecksumFile, Nowhere}
         /\ \A i : ResultFile(c) # PayloadFile(d, i) /\ ResultFile(c) # RecordFile(d, i)
  BY DEF StateFile, ObservationFile, ManifestFile, ChecksumFile, Nowhere, ResultFile,
         PayloadFile, RecordFile

LEMMA EvidenceNames ==
  ASSUME NEW c, NEW d, NEW i, NEW j
  PROVE  /\ PayloadFile(c, i) = PayloadFile(d, j) => c = d /\ i = j
         /\ RecordFile(c, i) = RecordFile(d, j) => c = d /\ i = j
         /\ PayloadFile(c, i) # RecordFile(d, j)
         /\ PayloadFile(c, i) \notin {StateFile, ObservationFile, ManifestFile, ChecksumFile, Nowhere}
         /\ RecordFile(c, i) \notin {StateFile, ObservationFile, ManifestFile, ChecksumFile, Nowhere}
  BY DEF StateFile, ObservationFile, ManifestFile, ChecksumFile, Nowhere,
         PayloadFile, RecordFile

LEMMA PathMembers ==
  /\ StateFile \in Path /\ ObservationFile \in Path /\ ManifestFile \in Path
  /\ ChecksumFile \in Path
  /\ Results \subseteq Path
  /\ \A c \in Check : ResultFile(c) \in Results /\ EvidenceFiles(c) \subseteq Path
  BY DEF Path, Results, EvidenceFiles

(* What may be in which file. *)
LEMMA Contents ==
  /\ Content(StateFile) = File /\ Content(ObservationFile) = File
  /\ Content(ManifestFile) = Manifest
  /\ \A c \in Check : Content(ResultFile(c)) = Result
  /\ \A c, i : Content(PayloadFile(c, i)) = File /\ Content(RecordFile(c, i)) = File
  /\ \A p : Absent \notin Content(p) /\ Content(p) \subseteq Stored
  /\ Absent \in Stored /\ Torn \in Stored
  BY PathNames, ResultNames, EvidenceNames, AbsentAssumption
  DEF Content, Results, Stored

(* The item the next evidence file belongs to.                             *)
LEMMA NextItem ==
  ASSUME NEW e \in 0..MaxEvidence, NEW s \in 0..(2 * MaxEvidence), s < 2 * e
  PROVE  (s \div 2) + 1 \in 1..e /\ (s \div 2) + 1 \in Item
  BY ExecutionAssumption DEF Item

-----------------------------------------------------------------------------
(* An empty directory before the first execution. *)
LEMMA DirectoryInitially == Init => DirectoryInv
<1>. SUFFICES ASSUME Init PROVE DirectoryInv
  OBVIOUS
<1>1. Filed
  BY PathNames, Contents DEF Init, Filed
<1>2. Writes
  BY DEF Init, Writes
<1>3. Bounds
  <2>1. outcome \in [status : Status, evidence : 0..MaxEvidence]
    BY ExecutionAssumption DEF Init, NoOutcome, Status
  <2>2. /\ pc = "off" /\ next = 1 /\ stored = 0 /\ spoiled = FALSE
        /\ execution = 0 /\ executions = 0 /\ finalizations = 0 /\ faults = 0
    BY DEF Init
  <2>3. stored \in 0..(2 * MaxEvidence) /\ next \in 1..(Planned + 1)
    BY <2>2, ExecutionAssumption
  <2>4. /\ execution \in 0..MaxExecutions /\ finalizations \in 0..MaxFinalizations
        /\ faults \in 0..MaxFaults
    BY <2>2, ExecutionAssumption
  <2>5. spoiled \in BOOLEAN
    BY <2>2
  <2>. QED  BY <2>1, <2>2, <2>3, <2>4, <2>5 DEF Bounds
<1>4. Progress
  BY PathNames, ResultNames DEF Init, Progress, Results
<1>5. Evidence
  BY PathMembers, ResultNames DEF Init, Evidence, Results
<1>6. Closing
  BY PathNames, PathMembers DEF Init, Closing
<1>7. Seals
  BY PathNames, PathMembers DEF Init, Seals
<1>. QED  BY <1>1, <1>2, <1>3, <1>4, <1>5, <1>6, <1>7 DEF DirectoryInv

(* Every step keeps the counters in their bounds. *)
LEMMA BoundsStep == DirectoryInv /\ [Next]_vars => Bounds'
<1>. SUFFICES ASSUME Bounds, Writes, [Next]_vars PROVE Bounds'
  BY DEF DirectoryInv
<1>. USE ExecutionAssumption DEF Bounds, Writes
<1>1. CASE Replace
  BY <1>1 DEF Replace
<1>2. CASE Remove \/ Execute \/ Close
  BY <1>2 DEF Remove, Execute, Close
<1>3. CASE Begin
  <2>1. /\ pc = "clear" /\ pc' = "observe" /\ executions' = executions + 1
        /\ execution' = executions' /\ spoiled' = FALSE
        /\ UNCHANGED <<next, outcome, stored, finalizations, faults>>
    BY <1>3 DEF Begin
  <2>2. execution' \in 0..MaxExecutions
    BY <2>1
  <2>. QED  BY <2>1, <2>2
<1>4. CASE Measure
  BY <1>4 DEF Measure, Status
<1>5. CASE StoreEvidence \/ StoreResult
  BY <1>5 DEF StoreEvidence, StoreResult, Write
<1>6. CASE ChecksDone \/ FinalizeCommand
  BY <1>6 DEF ChecksDone, FinalizeCommand, Finalize
<1>7. CASE Abort
  BY <1>7 DEF Abort, Finalize, Abandon
<1>8. CASE Fill \/ Accept
  BY <1>8 DEF Fill, Accept, Write
<1>9. CASE WriteManifest \/ WriteChecksums
  BY <1>9 DEF WriteManifest, WriteChecksums, Write
<1>10. CASE Crash \/ Escape
  <2>1. Stop
    BY <1>10 DEF Crash, Escape
  <2>. QED  BY <2>1 DEF Stop, Abandon
<1>11. CASE UNCHANGED vars
  BY <1>11
<1>12. CASE Observe
  BY <1>12 DEF Observe, Write
<1>. QED  BY <1>1, <1>2, <1>3, <1>4, <1>5, <1>6, <1>7, <1>8, <1>9, <1>10, <1>11, <1>12 DEF Next, Work

(* Every step writes the file its place calls for. *)
LEMMA WritesStep == DirectoryInv /\ [Next]_vars => Writes'
<1>. SUFFICES ASSUME Bounds, Writes, [Next]_vars PROVE Writes'
  BY DEF DirectoryInv
<1>. USE ExecutionAssumption, PathMembers DEF Bounds, Writes
<1>1. CASE Replace
  BY <1>1 DEF Replace
<1>2. CASE Remove \/ Execute \/ Close
  BY <1>2 DEF Remove, Execute, Close
<1>3. CASE Begin \/ Observe
  BY <1>3 DEF Begin, Observe, Write
<1>4. CASE Measure
  BY <1>4 DEF Measure
<1>5. CASE StoreEvidence
  <2>. DEFINE item == (stored \div 2) + 1
  <2>1. item \in Item /\ next \in Check
    BY <1>5, NextItem DEF StoreEvidence, Check
  <2>2. writing' \in EvidenceFiles(next)
    BY <1>5, <2>1 DEF StoreEvidence, Write, EvidenceFiles
  <2>. QED  BY <1>5, <2>1, <2>2 DEF StoreEvidence
<1>6. CASE StoreResult
  BY <1>6 DEF StoreResult, Write, Check
<1>7. CASE ChecksDone \/ FinalizeCommand
  BY <1>7 DEF ChecksDone, FinalizeCommand, Finalize
<1>8. CASE Abort \/ Crash \/ Escape
  BY <1>8 DEF Abort, Crash, Escape, Stop, Finalize, Abandon
<1>9. CASE Fill \/ Accept
  BY <1>9 DEF Fill, Accept, Write, Check
<1>10. CASE WriteManifest \/ WriteChecksums
  BY <1>10 DEF WriteManifest, WriteChecksums, Write
<1>11. CASE UNCHANGED vars
  BY <1>11
<1>. QED  BY <1>1, <1>2, <1>3, <1>4, <1>5, <1>6, <1>7, <1>8, <1>9, <1>10, <1>11 DEF Next, Work

(* Writing a well-formed file of the execution keeps the files so. *)
LEMMA WriteFiled ==
  ASSUME Filed, UNCHANGED execution,
         NEW path \in Path \ {ChecksumFile}, NEW content,
         content \in Content(path), content.execution = execution,
         Write(path, content)
  PROVE  Filed'
  BY Contents DEF Filed, Write

LEMMA FilesKept == ASSUME Filed, UNCHANGED <<files, execution>> PROVE Filed'
  BY DEF Filed

(* Every step leaves well-formed files of one execution. *)
LEMMA FiledStep == DirectoryInv /\ [Next]_vars => Filed'
<1>. SUFFICES ASSUME Filed, Writes, Bounds, Progress, [Next]_vars PROVE Filed'
  BY DEF DirectoryInv
<1>. /\ pc = "off" \/ disk[StateFile] = Absent \/ disk[StateFile].execution = execution
     /\ execution \in Nat
  BY PathNames, PathMembers, ExecutionAssumption DEF Filed, Bounds
<1>1. CASE Execute \/ Measure \/ ChecksDone \/ FinalizeCommand \/ Accept \/ Close \/ UNCHANGED vars
  BY <1>1, FilesKept DEF Execute, Measure, ChecksDone, FinalizeCommand, Accept, Close, Finalize
<1>2. CASE Replace
  <2>. writing \in Path
    BY <1>2 DEF Replace, Writes
  <2>. QED  BY <1>2, PathNames, Contents DEF Replace, Filed
<1>3. CASE Remove
  BY <1>3, PathNames, Contents DEF Remove, Filed, Writes
<1>4. CASE Begin
  <2>1. /\ execution' \in Nat /\ writing' = StateFile /\ UNCHANGED disk
        /\ temp' = [temp EXCEPT ![StateFile] = [execution |-> execution']]
    BY <1>4, ExecutionAssumption DEF Begin, Write, Bounds
  <2>2. [execution |-> execution'] \in Content(StateFile)
    BY <2>1, Contents DEF File
  <2>3. \A p \in Path : disk[p] = Absent
    BY <1>4 DEF Begin, Empty
  <2>. QED  BY <2>1, <2>2, <2>3, PathMembers, Contents DEF Filed
<1>5. CASE Observe
  <2>1. CASE UNCHANGED files
    BY <1>5, <2>1, FilesKept DEF Observe
  <2>2. CASE Write(ObservationFile, [execution |-> execution])
    <3>1. [execution |-> execution] \in Content(ObservationFile)
      BY Contents DEF File
    <3>. QED  BY <1>5, <2>2, <3>1, WriteFiled, PathNames, PathMembers DEF Observe
  <2>. QED  BY <1>5, <2>1, <2>2 DEF Observe
<1>6. CASE StoreEvidence
  <2>. DEFINE item == (stored \div 2) + 1
              path == IF stored % 2 = 0 THEN PayloadFile(next, item) ELSE RecordFile(next, item)
  <2>1. item \in Item /\ next \in Check
    BY <1>6, NextItem, ExecutionAssumption DEF StoreEvidence, Bounds, Check
  <2>2. path \in Path \ {ChecksumFile} /\ Content(path) = File
    BY <2>1, PathMembers, EvidenceNames, Contents DEF EvidenceFiles
  <2>3. Write(path, [execution |-> execution]) /\ UNCHANGED execution
    BY <1>6 DEF StoreEvidence
  <2>. HIDE DEF path
  <2>4. [execution |-> execution] \in File
    BY DEF File
  <2>. QED  BY <2>2, <2>3, <2>4, WriteFiled
<1>7. CASE StoreResult
  <2>. DEFINE result == [execution |-> execution, status |-> outcome.status,
                         evidence |-> outcome.evidence]
  <2>1. next \in Check
    BY <1>7, ExecutionAssumption DEF StoreResult, Bounds, Check
  <2>2. result \in Content(ResultFile(next))
    BY <2>1, Contents DEF Bounds, Result
  <2>3. ResultFile(next) \in Path \ {ChecksumFile}
    BY <2>1, PathMembers, ResultNames
  <2>4. Write(ResultFile(next), result) /\ UNCHANGED execution /\ result.execution = execution
    BY <1>7 DEF StoreResult
  <2>. HIDE DEF result
  <2>. QED  BY <2>2, <2>3, <2>4, WriteFiled
<1>8. CASE Fill
  <2>. DEFINE result == [execution |-> disk[StateFile].execution,
                         status |-> "execution.incomplete", evidence |-> 0]
  <2>1. next \in Check
    BY <1>8, ExecutionAssumption DEF Fill, Bounds, Check
  <2>2. disk[StateFile].execution = execution
    BY <1>8 DEF Fill, Progress
  <2>5. "execution.incomplete" \in Status /\ 0 \in 0..MaxEvidence
    BY ExecutionAssumption DEF Status
  <2>6. result \in Result
    BY <2>2, <2>5 DEF Result
  <2>7. result \in Content(ResultFile(next)) /\ result.execution = execution
    BY <2>1, <2>2, <2>6, Contents
  <2>3. ResultFile(next) \in Path \ {ChecksumFile}
    BY <2>1, PathMembers, ResultNames
  <2>4. Write(ResultFile(next), result) /\ UNCHANGED execution
    BY <1>8 DEF Fill
  <2>. HIDE DEF result
  <2>. QED  BY <2>3, <2>4, <2>7, WriteFiled
<1>9. CASE WriteManifest
  <2>. DEFINE m == [execution |-> disk[StateFile].execution,
                    observation |-> disk[ObservationFile],
                    results |-> [c \in Check |-> disk[ResultFile(c)].status],
                    completed_at |-> finalizations]
  <2>1. next = Planned + 1
    BY <1>9, ExecutionAssumption DEF WriteManifest, Bounds
  <2>2. ASSUME NEW c \in Check
        PROVE  disk[ResultFile(c)] \in Result
    <3>1. disk[ResultFile(c)] # Absent
      BY <1>9, <2>1, ExecutionAssumption DEF WriteManifest, Progress, Check
    <3>2. ResultFile(c) \in Path \ {ChecksumFile}
      BY PathMembers, ResultNames
    <3>. QED  BY <3>1, <3>2, Contents DEF Filed
  <2>3. disk[ObservationFile] \in File \cup {Absent}
    BY PathMembers, PathNames, Contents DEF Filed
  <2>4. disk[StateFile].execution = execution
    BY <1>9 DEF WriteManifest, Progress
  <2>5. [c \in Check |-> disk[ResultFile(c)].status] \in [Check -> Status]
    BY <2>2 DEF Result
  <2>6. m \in Content(ManifestFile) /\ m.execution = execution
    <3>1. finalizations \in Nat
      BY ExecutionAssumption DEF Bounds
    <3>2. m \in Manifest
      BY <2>3, <2>4, <2>5, <3>1 DEF Manifest
    <3>. QED  BY <2>4, <3>2, Contents
  <2>7. Write(ManifestFile, m) /\ UNCHANGED execution
    BY <1>9 DEF WriteManifest
  <2>. HIDE DEF m
  <2>. QED  BY <2>6, <2>7, WriteFiled, PathMembers, PathNames
<1>10. CASE WriteChecksums
  BY <1>10, PathNames DEF WriteChecksums, Write, Filed
<1>11. CASE Abort \/ Crash \/ Escape
  <2>1. writing' = Nowhere /\ UNCHANGED <<disk, execution>>
    BY <1>11 DEF Abort, Crash, Escape, Stop, Abandon, Finalize
  <2>2. UNCHANGED temp \/ temp' = [temp EXCEPT ![writing] = Torn]
    BY <1>11 DEF Abort, Crash, Escape, Stop, Abandon
  <2>. QED  BY <2>1, <2>2, PathNames, Contents DEF Filed
<1>. QED
  BY <1>1, <1>2, <1>3, <1>4, <1>5, <1>6, <1>7, <1>8, <1>9, <1>10, <1>11 DEF Next, Work

(* Every step takes the directory where its place says it is. *)
LEMMA ProgressStep == DirectoryInv /\ [Next]_vars => Progress'
<1>. SUFFICES ASSUME Filed, Writes, Bounds, Progress, [Next]_vars PROVE Progress'
  BY DEF DirectoryInv
<1>. USE ExecutionAssumption, PathNames, PathMembers, ResultNames DEF Progress, Check
<1>1. CASE Execute \/ Close \/ Measure \/ UNCHANGED vars
  BY <1>1 DEF Execute, Measure, Close, Bounds
<1>2. CASE ChecksDone \/ FinalizeCommand
  BY <1>2 DEF ChecksDone, FinalizeCommand, Finalize
<1>3. CASE Accept
  BY <1>3 DEF Accept, Bounds
<1>4. CASE Replace
  <2>1. writing \in Path /\ disk' = [disk EXCEPT ![writing] = temp[writing]]
        /\ writing' = Nowhere /\ UNCHANGED <<pc, next>>
    BY <1>4 DEF Replace, Writes
  <2>2. \A p \in Path : p # writing => disk'[p] = disk[p]
    BY <2>1 DEF Filed
  <2>3. writing # ChecksumFile => disk'[writing] # Absent
    BY <2>1, Contents DEF Filed
  <2>4. pc \in {"observe", "check", "store", "fill", "seal", "close"} => disk'[StateFile] # Absent
    BY <2>1, <2>2, <2>3 DEF Writes
  <2>5. \A c \in Check : ResultFile(c) # writing => disk'[ResultFile(c)] = disk[ResultFile(c)]
    BY <2>2
  <2>6. ASSUME pc \in {"check", "store"}, NEW c \in next..Planned
        PROVE  disk'[ResultFile(c)] = Absent
    <3>1. c \in Check /\ c # next - 1
      BY DEF Bounds
    <3>2. ResultFile(c) # writing
      BY <3>1, <2>6, EvidenceNames DEF Writes, EvidenceFiles
    <3>. QED  BY <2>5, <2>6, <3>1, <3>2
  <2>7. ASSUME pc = "observe", NEW c \in Check
        PROVE  disk'[ResultFile(c)] = Absent
    BY <2>5, <2>7 DEF Writes
  <2>8. \A c \in Check : disk[ResultFile(c)] # Absent => disk'[ResultFile(c)] # Absent
    BY <2>3, <2>5
  <2>9. pc = "fill" => \A c \in 1..(next - 1) : disk'[ResultFile(c)] # Absent
    BY <2>8 DEF Bounds
  <2>. QED  BY <2>1, <2>4, <2>6, <2>7, <2>8, <2>9, PathMembers DEF Results
<1>5. CASE Remove
  BY <1>5 DEF Remove, Writes
<1>6. CASE Begin
  BY <1>6 DEF Begin, Write, Empty, Results
<1>7. CASE StoreEvidence
  <2>. DEFINE item == (stored \div 2) + 1
  <2>1. UNCHANGED <<disk, pc, next>> /\ writing' \in {PayloadFile(next, item), RecordFile(next, item)}
    BY <1>7 DEF StoreEvidence, Write
  <2>. QED  BY <1>7, <2>1 DEF StoreEvidence, Results
<1>8. CASE StoreResult \/ Fill
  BY <1>8 DEF StoreResult, Fill, Write, Bounds, Results
<1>9. CASE WriteManifest \/ WriteChecksums
  BY <1>9 DEF WriteManifest, WriteChecksums, Write, Bounds, Results
<1>10. CASE Abort \/ Crash \/ Escape
  BY <1>10 DEF Abort, Crash, Escape, Stop, Abandon, Finalize, Results
<1>11. CASE Observe
  <2>1. UNCHANGED disk /\ writing' \in {ObservationFile, Nowhere}
    BY <1>11 DEF Observe, Write
  <2>2. disk[StateFile] # Absent
    BY <1>11 DEF Observe
  <2>. QED  BY <1>11, <2>1, <2>2 DEF Observe, Results
<1>. QED
  BY <1>1, <1>2, <1>3, <1>4, <1>5, <1>6, <1>7, <1>8, <1>9, <1>10, <1>11 DEF Next, Work

(* Every step writes a result only after the evidence it refers to. *)
LEMMA EvidenceStep == DirectoryInv /\ [Next]_vars => Evidence'
<1>. SUFFICES ASSUME Filed, Writes, Bounds, Progress, Evidence, [Next]_vars PROVE Evidence'
  BY DEF DirectoryInv
<1>. USE ExecutionAssumption, PathNames, PathMembers, ResultNames, EvidenceNames
     DEF Evidence, HasEvidence
<1>1. CASE Execute \/ ChecksDone \/ FinalizeCommand \/ Accept \/ Close \/ UNCHANGED vars
  BY <1>1 DEF Execute, ChecksDone, FinalizeCommand, Accept, Close, Finalize
<1>2. CASE Measure
  BY <1>2 DEF Measure
<1>3. CASE Replace
  <2>1. /\ writing \in Path /\ disk' = [disk EXCEPT ![writing] = temp[writing]]
        /\ writing' = Nowhere /\ UNCHANGED <<pc, next, outcome, stored, spoiled>>
    BY <1>3 DEF Replace, Writes
  <2>2. \A p \in Path : p # writing => disk'[p] = disk[p]
    BY <2>1 DEF Filed
  <2>3. \A p \in Path \ {ChecksumFile} : p = writing => disk'[p] = temp[p] /\ disk'[p] # Absent
    BY <2>1, Contents DEF Filed
  <2>4. \A p \in Path \ {ChecksumFile} : disk[p] # Absent => disk'[p] # Absent
    BY <2>2, <2>3
  <2>5. \A c \in Check, i \in Item :
          /\ PayloadFile(c, i) \in Path \ {ChecksumFile}
          /\ RecordFile(c, i) \in Path \ {ChecksumFile}
    BY DEF EvidenceFiles
  <2>6. ASSUME ~spoiled, pc # "clear", NEW c \in Check, disk'[ResultFile(c)] # Absent,
               NEW i \in 1..disk'[ResultFile(c)].evidence
        PROVE  disk'[PayloadFile(c, i)] # Absent /\ disk'[RecordFile(c, i)] # Absent
    <3>1. ResultFile(c) \in Path \ {ChecksumFile}
      OBVIOUS
    <3>2. disk'[ResultFile(c)] \in Result
      BY <2>2, <2>3, <2>6, <3>1, Contents DEF Filed
    <3>3. i \in Item
      BY <2>6, <3>2 DEF Result, Item
    <3>4. disk[PayloadFile(c, i)] # Absent /\ disk[RecordFile(c, i)] # Absent
      BY <2>2, <2>3, <2>6, <3>1
    <3>. QED  BY <2>4, <2>5, <3>3, <3>4
  <2>7. ASSUME pc = "store", NEW i \in 1..outcome.evidence
        PROVE  /\ 2 * i <= stored + 1 => disk'[PayloadFile(next, i)] # Absent
               /\ 2 * i <= stored => disk'[RecordFile(next, i)] # Absent
    <3>1. i \in Item /\ next \in Check
      BY <2>7 DEF Bounds, Item, Check
    <3>. QED  BY <2>3, <2>4, <2>5, <2>7, <3>1
  <2>. QED  BY <2>1, <2>6, <2>7
<1>4. CASE Remove
  BY <1>4 DEF Remove, Writes
<1>5. CASE Begin
  BY <1>5 DEF Begin, Write, Empty
<1>6. CASE Observe
  BY <1>6 DEF Observe, Write
<1>7. CASE StoreEvidence
  <2>. DEFINE item == (stored \div 2) + 1
              path == IF stored % 2 = 0 THEN PayloadFile(next, item) ELSE RecordFile(next, item)
  <2>1. /\ pc = "store" /\ writing = Nowhere /\ writing' = path /\ stored' = stored + 1
        /\ UNCHANGED <<disk, pc, next, outcome, spoiled>>
    BY <1>7 DEF StoreEvidence, Write
  <2>2. path \in {PayloadFile(next, item), RecordFile(next, item)}
    OBVIOUS
  <2>3. stored \in Nat /\ outcome.evidence \in Nat
    BY DEF Bounds
  <2>4. ASSUME NEW i \in 1..outcome.evidence
        PROVE  /\ 2 * i <= stored + 2 => PayloadFile(next, i) = path \/ disk[PayloadFile(next, i)] # Absent
               /\ 2 * i <= stored + 1 => RecordFile(next, i) = path \/ disk[RecordFile(next, i)] # Absent
    <3>1. 2 * i <= stored + 1 => disk[PayloadFile(next, i)] # Absent
      BY <2>1
    <3>2. 2 * i <= stored => disk[RecordFile(next, i)] # Absent
      BY <2>1
    <3>3. 2 * i = stored + 2 => stored % 2 = 0 /\ item = i
      BY <2>3
    <3>4. 2 * i = stored + 1 => stored % 2 # 0 /\ item = i
      BY <2>3
    <3>. QED  BY <2>3, <3>1, <3>2, <3>3, <3>4
  <2>5. \A c \in Check : path # ResultFile(c)
    <3>. HIDE DEF path, item
    <3>. QED  BY <2>2
  <2>. HIDE DEF path
  <2>. QED  BY <2>1, <2>3, <2>4, <2>5
<1>8. CASE StoreResult
  <2>1. /\ pc = "store" /\ stored = 2 * outcome.evidence /\ writing = Nowhere
        /\ writing' = ResultFile(next) /\ pc' = "check" /\ UNCHANGED <<disk, spoiled>>
        /\ temp' = [temp EXCEPT ![ResultFile(next)] =
                      [execution |-> execution, status |-> outcome.status,
                       evidence |-> outcome.evidence]]
    BY <1>8 DEF StoreResult, Write
  <2>2. next \in Check
    BY <2>1 DEF Bounds, Check
  <2>3. temp'[ResultFile(next)].evidence = outcome.evidence
    BY <2>1, <2>2 DEF Filed
  <2>4. \A i \in 1..outcome.evidence :
          disk[PayloadFile(next, i)] # Absent /\ disk[RecordFile(next, i)] # Absent
    BY <2>1 DEF Bounds
  <2>. QED  BY <2>1, <2>2, <2>3, <2>4
<1>9. CASE Fill
  <2>1. /\ pc = "fill" /\ writing' = ResultFile(next) /\ UNCHANGED <<disk, pc, spoiled>>
        /\ temp' = [temp EXCEPT ![ResultFile(next)] =
                      [execution |-> disk[StateFile].execution,
                       status |-> "execution.incomplete", evidence |-> 0]]
    BY <1>9 DEF Fill, Write
  <2>2. next \in Check
    BY <1>9 DEF Fill, Bounds, Check
  <2>3. temp'[ResultFile(next)].evidence = 0
    BY <2>1, <2>2 DEF Filed
  <2>. QED  BY <2>1, <2>2, <2>3
<1>10. CASE WriteManifest \/ WriteChecksums
  BY <1>10 DEF WriteManifest, WriteChecksums, Write
<1>11. CASE Abort \/ Crash \/ Escape
  BY <1>11 DEF Abort, Crash, Escape, Stop, Abandon, Finalize
<1>. QED
  BY <1>1, <1>2, <1>3, <1>4, <1>5, <1>6, <1>7, <1>8, <1>9, <1>10, <1>11 DEF Next, Work

(* Every step writes a manifest that says what the directory holds. *)
LEMMA ClosingStep == DirectoryInv /\ [Next]_vars => Closing'
<1>. SUFFICES ASSUME Filed, Writes, Bounds, Progress, Closing, [Next]_vars PROVE Closing'
  BY DEF DirectoryInv
<1>. USE ExecutionAssumption, PathNames, PathMembers, ResultNames DEF Closing
<1>1. CASE UNCHANGED <<files, pc>>
  BY <1>1 DEF Describes
<1>2. CASE writing' = Nowhere /\ pc' # "seal"
  BY <1>2
<1>3. CASE Replace
  <2>1. /\ writing \in Path /\ disk' = [disk EXCEPT ![writing] = temp[writing]]
        /\ writing' = Nowhere /\ UNCHANGED pc
    BY <1>3 DEF Replace, Writes
  <2>2. ASSUME pc = "seal"
        PROVE  disk'[ManifestFile] # Absent /\ Describes(disk'[ManifestFile], disk')
    <3>1. writing = ManifestFile
      BY <2>1, <2>2 DEF Writes
    <3>2. disk'[ManifestFile] = temp[ManifestFile] /\ disk'[ManifestFile] # Absent
      BY <2>1, <3>1, Contents DEF Filed
    <3>3. \A p \in Path : p # ManifestFile => disk'[p] = disk[p]
      BY <2>1, <3>1 DEF Filed
    <3>4. Describes(temp[ManifestFile], disk)
      BY <3>1
    <3>. QED  BY <3>2, <3>3, <3>4 DEF Describes
  <2>. QED  BY <2>1, <2>2
<1>4. CASE WriteManifest
  <2>. DEFINE m == [execution |-> disk[StateFile].execution,
                    observation |-> disk[ObservationFile],
                    results |-> [c \in Check |-> disk[ResultFile(c)].status],
                    completed_at |-> finalizations]
  <2>1. /\ writing' = ManifestFile /\ UNCHANGED disk
        /\ temp' = [temp EXCEPT ![ManifestFile] = m]
    BY <1>4 DEF WriteManifest, Write
  <2>2. \A c \in Check : disk[ResultFile(c)] # Absent
    BY <1>4 DEF WriteManifest, Progress, Bounds, Check
  <2>3. Describes(m, disk)
    BY <2>2 DEF Describes
  <2>4. temp'[ManifestFile] = m
    BY <2>1 DEF Filed
  <2>. HIDE DEF m
  <2>. QED  BY <2>1, <2>3, <2>4
<1>5. CASE Begin \/ Observe
  BY <1>5 DEF Begin, Observe, Write
<1>6. CASE StoreEvidence
  BY <1>6, EvidenceNames DEF StoreEvidence, Write
<1>7. CASE StoreResult \/ Fill
  BY <1>7 DEF StoreResult, Fill, Write
<1>8. CASE WriteChecksums
  BY <1>8 DEF WriteChecksums, Write
<1>9. CASE Remove \/ Execute \/ Close \/ Measure
  BY <1>9 DEF Remove, Execute, Close, Measure, Writes
<1>10. CASE ChecksDone \/ FinalizeCommand \/ Accept
  BY <1>10 DEF ChecksDone, FinalizeCommand, Accept, Finalize, Writes
<1>11. CASE Abort \/ Crash \/ Escape
  BY <1>11, <1>2 DEF Abort, Crash, Escape, Stop, Abandon, Finalize
<1>. QED
  BY <1>1, <1>3, <1>4, <1>5, <1>6, <1>7, <1>8, <1>9, <1>10, <1>11 DEF Next, Work

(* A result refers to items there may be. *)
LEMMA EvidenceItems ==
  ASSUME Filed, NEW c \in Check, disk[ResultFile(c)] # Absent
  PROVE  1..disk[ResultFile(c)].evidence \subseteq Item
<1>1. disk[ResultFile(c)] \in Result
  BY PathMembers, ResultNames, Contents DEF Filed
<1>. QED  BY <1>1, ExecutionAssumption DEF Result, Item

(* What a directory holds, its listing holds. *)
LEMMA CompleteListing ==
  ASSUME Filed, Described(disk)
  PROVE  /\ Described(Listing.listed)
         /\ Complete(disk) => Complete(Listing.listed)
<1>. DEFINE listed == [p \in Path \ {ChecksumFile} |-> disk[p]]
<1>1. Listing.listed = listed
  BY DEF Listing
<1>2. /\ listed[ManifestFile] = disk[ManifestFile] /\ listed[ObservationFile] = disk[ObservationFile]
      /\ \A c \in Check : listed[ResultFile(c)] = disk[ResultFile(c)]
  BY PathNames, PathMembers, ResultNames
<1>3. \A c \in Check, i \in Item : /\ listed[PayloadFile(c, i)] = disk[PayloadFile(c, i)]
                                   /\ listed[RecordFile(c, i)] = disk[RecordFile(c, i)]
  BY PathMembers, EvidenceNames DEF EvidenceFiles
<1>4. \A c \in Check : 1..disk[ResultFile(c)].evidence \subseteq Item
  BY EvidenceItems DEF Described, Describes
<1>. HIDE DEF listed
<1>5. Described(listed)
  BY <1>2 DEF Described, Describes
<1>6. ASSUME Complete(disk) PROVE \A c \in Check : HasEvidence(listed, c, listed[ResultFile(c)])
  BY <1>2, <1>3, <1>4, <1>6 DEF Complete, HasEvidence
<1>. QED  BY <1>1, <1>5, <1>6 DEF Complete

LEMMA ListingTyped == ASSUME Filed PROVE Listing \in Checksums
<1>1. \A p \in Path \ {ChecksumFile} : disk[p] \in Stored /\ temp[p] \in Stored
  BY Contents DEF Filed
<1>. DEFINE stray == temp[ChecksumFile] # Absent
<1>2. stray \in BOOLEAN
  OBVIOUS
<1>. HIDE DEF stray
<1>3. [listed |-> [p \in Path \ {ChecksumFile} |-> disk[p]],
       leftover |-> [p \in Path \ {ChecksumFile} |-> temp[p]], stray |-> stray] \in Checksums
  BY <1>1, <1>2 DEF Checksums
<1>. QED  BY <1>3 DEF Listing, stray

(* Every step that seals a directory seals a complete one. *)
LEMMA SealsStep == DirectoryInv /\ [Next]_vars => Seals'
<1>. SUFFICES ASSUME DirectoryInv, [Next]_vars PROVE Seals'
  OBVIOUS
<1>. USE ExecutionAssumption, PathNames, PathMembers, ResultNames DEF DirectoryInv, Seals
<1>1. CASE UNCHANGED <<files, pc, spoiled>>
  BY <1>1 DEF SealOf, Listing
<1>2. ASSUME UNCHANGED <<disk, spoiled>>, writing' # ChecksumFile, pc' # "close"
      PROVE  Seals'
  BY <1>2
<1>3. CASE Replace
  <2>1. /\ writing \in Path /\ disk' = [disk EXCEPT ![writing] = temp[writing]]
        /\ temp' = [temp EXCEPT ![writing] = Absent]
        /\ writing' = Nowhere /\ UNCHANGED <<pc, spoiled>>
    BY <1>3 DEF Replace, Writes
  <2>2. CASE writing = ChecksumFile
    <3>1. disk'[ChecksumFile] = temp[ChecksumFile] /\ temp'[ChecksumFile] = Absent
      BY <2>1, <2>2 DEF Filed
    <3>2. \A p \in Path \ {ChecksumFile} : disk'[p] = disk[p] /\ temp'[p] = temp[p]
      BY <2>1, <2>2 DEF Filed
    <3>3. Listing'.listed = Listing.listed /\ Listing'.leftover = Listing.leftover
      BY <3>2 DEF Listing
    <3>4. SealOf(disk[ChecksumFile])'
      BY <2>2, <3>1, <3>3 DEF SealOf
    <3>. QED  BY <2>1, <2>2, <3>1, <3>4
  <2>3. CASE writing # ChecksumFile
    <3>1. disk'[ChecksumFile] = disk[ChecksumFile]
      BY <2>1, <2>3 DEF Filed
    <3>. QED  BY <2>1, <2>3, <3>1 DEF Writes
  <2>. QED  BY <2>2, <2>3
<1>4. CASE WriteChecksums
  <2>1. /\ pc = "seal" /\ writing = Nowhere /\ pc' = "close" /\ writing' = ChecksumFile
        /\ temp' = [temp EXCEPT ![ChecksumFile] = Listing] /\ UNCHANGED <<disk, spoiled>>
    BY <1>4 DEF WriteChecksums, Write
  <2>2. temp'[ChecksumFile] = Listing
    BY <2>1 DEF Filed
  <2>3. \A p \in Path \ {ChecksumFile} : disk'[p] = disk[p] /\ temp'[p] = temp[p]
    BY <2>1 DEF Filed
  <2>4. Listing'.listed = Listing.listed /\ Listing'.leftover = Listing.leftover
    BY <2>3 DEF Listing
  <2>5. SealOf(temp[ChecksumFile])'
    BY <2>2, <2>4, ListingTyped DEF SealOf
  <2>6. Described(disk) /\ (~spoiled => Complete(disk))
    BY <2>1 DEF Complete, Described, Closing, Evidence, Describes
  <2>. QED  BY <2>1, <2>2, <2>5, <2>6, CompleteListing
<1>5. CASE Remove
  <2>1. /\ pc = "clear" /\ UNCHANGED <<writing, pc, spoiled>>
        /\ disk'[ChecksumFile] \in {disk[ChecksumFile], Absent}
    BY <1>5 DEF Remove, Filed
  <2>. QED  BY <2>1 DEF Writes
<1>6. CASE Begin
  BY <1>6 DEF Begin, Write, Empty
<1>7. CASE Observe
  BY <1>7, <1>2 DEF Observe, Write
<1>8. CASE StoreEvidence
  <2>. writing' # ChecksumFile
    BY <1>8, EvidenceNames DEF StoreEvidence, Write
  <2>. QED  BY <1>8, <1>2 DEF StoreEvidence, Write
<1>9. CASE StoreResult \/ Fill \/ WriteManifest
  BY <1>9, <1>2 DEF StoreResult, Fill, WriteManifest, Write
<1>10. CASE Execute \/ Measure \/ Close
  BY <1>10, <1>2 DEF Execute, Measure, Close, Writes
<1>11. CASE ChecksDone \/ FinalizeCommand \/ Accept
  BY <1>11, <1>2 DEF ChecksDone, FinalizeCommand, Accept, Finalize, Writes
<1>12. CASE Abort
  BY <1>12, <1>2 DEF Abort, Abandon, Finalize
<1>13. CASE Crash \/ Escape
  BY <1>13 DEF Crash, Escape, Stop, Abandon
<1>14. CASE UNCHANGED vars
  BY <1>14, <1>1
<1>. QED
  BY <1>3, <1>4, <1>5, <1>6, <1>7, <1>8, <1>9, <1>10, <1>11, <1>12, <1>13, <1>14 DEF Next, Work

(* The directory invariant. *)
THEOREM DirectoryCorrect == Spec => []DirectoryInv
<1>1. DirectoryInv /\ [Next]_vars => DirectoryInv'
  BY FiledStep, WritesStep, BoundsStep, ProgressStep, EvidenceStep, ClosingStep, SealsStep
  DEF DirectoryInv
<1>. QED  BY <1>1, DirectoryInitially, PTL DEF Spec

-----------------------------------------------------------------------------
(***************************************************************************)
(* Every variable keeps its type; in particular a result file always holds *)
(* a status the schema knows.                                              *)
(***************************************************************************)
THEOREM DirectoryTypeCorrect == Spec => []TypeOK
<1>1. DirectoryInv => TypeOK
  <2>. SUFFICES ASSUME DirectoryInv PROVE TypeOK
    OBVIOUS
  <2>1. \A c \in Check : disk[ResultFile(c)] \in Result \cup {Absent}
    BY PathMembers, ResultNames, Contents DEF DirectoryInv, Filed
  <2>2. DOMAIN disk = Path /\ DOMAIN temp = Path
    BY DEF DirectoryInv, Filed
  <2>. QED  BY <2>1, <2>2 DEF DirectoryInv, Writes, Bounds, TypeOK
<1>. QED  BY <1>1, DirectoryCorrect, PTL

(***************************************************************************)
(* Files of two executions never share a directory, whatever was killed    *)
(* and whatever --force replaced.                                          *)
(***************************************************************************)
THEOREM OneExecutionCorrect == Spec => []OneExecution
<1>1. DirectoryInv => OneExecution
  BY DEF DirectoryInv, Filed, OneExecution
<1>. QED  BY <1>1, DirectoryCorrect, PTL

(***************************************************************************)
(* A directory whose checksums verify holds a result for every check and a *)
(* manifest that says what the results say; unless a --force removal was   *)
(* cut short in it, it also holds the evidence every result refers to.     *)
(***************************************************************************)
THEOREM VerifiedIsCompleteCorrect == Spec => []VerifiedIsComplete
<1>1. DirectoryInv => VerifiedIsComplete
  <2>. SUFFICES ASSUME DirectoryInv, Verified
                PROVE  /\ Described(disk)
                       /\ ~spoiled => Complete(disk)
    BY DEF VerifiedIsComplete, Complete, Described, Describes, HasEvidence
  <2>. DEFINE listed == [p \in Path \ {ChecksumFile} |-> disk[p]]
  <2>1. Described(listed) /\ (~spoiled => Complete(listed))
    BY DEF Verified, Listing, DirectoryInv, Seals
  <2>2. /\ listed[ManifestFile] = disk[ManifestFile] /\ listed[ObservationFile] = disk[ObservationFile]
        /\ \A c \in Check : listed[ResultFile(c)] = disk[ResultFile(c)]
    BY PathNames, PathMembers, ResultNames
  <2>3. \A c \in Check, i \in Item : /\ listed[PayloadFile(c, i)] = disk[PayloadFile(c, i)]
                                     /\ listed[RecordFile(c, i)] = disk[RecordFile(c, i)]
    BY PathMembers, EvidenceNames DEF EvidenceFiles
  <2>. HIDE DEF listed
  <2>4. Described(disk)
    BY <2>1, <2>2 DEF Described, Describes
  <2>5. \A c \in Check : 1..disk[ResultFile(c)].evidence \subseteq Item
    BY <2>4, EvidenceItems DEF DirectoryInv, Described, Describes
  <2>6. ASSUME Complete(listed)
        PROVE  \A c \in Check : HasEvidence(disk, c, disk[ResultFile(c)])
    BY <2>2, <2>3, <2>5, <2>6 DEF Complete, HasEvidence
  <2>. QED  BY <2>1, <2>4, <2>6 DEF Complete
<1>. QED  BY <1>1, DirectoryCorrect, PTL

(***************************************************************************)
(* A finalization that returns leaves a directory that verifies, unless a  *)
(* kill or an error had left a temporary checksum file for it to list.     *)
(***************************************************************************)
THEOREM SealHoldsCorrect == Spec => []SealHolds
<1>1. DirectoryInv => SealHolds
  <2>. SUFFICES ASSUME DirectoryInv, pc = "close", writing = Nowhere,
                       ~disk[ChecksumFile].stray
                PROVE  Verified
    BY DEF SealHolds
  <2>1. SealOf(disk[ChecksumFile]) /\ temp[ChecksumFile] = Absent
    BY DEF DirectoryInv, Seals
  <2>2. disk[ChecksumFile] \in Checksums /\ Listing \in Checksums /\ disk[ChecksumFile] # Absent
    BY <2>1, ListingTyped, AbsentAssumption DEF SealOf, DirectoryInv
  <2>3. disk[ChecksumFile].stray = Listing.stray
    <3>1. Listing.stray = FALSE
      BY <2>1 DEF Listing
    <3>2. disk[ChecksumFile].stray \in BOOLEAN
      BY <2>2 DEF Checksums
    <3>. QED  BY <3>1, <3>2
  <2>. QED  BY <2>1, <2>2, <2>3 DEF SealOf, Verified, Checksums
<1>. QED  BY <1>1, DirectoryCorrect, PTL

-----------------------------------------------------------------------------
(***************************************************************************)
(* The directory as the contract sees it.                                  *)
(***************************************************************************)
Verdict == [c \in Check |-> IF disk[ResultFile(c)] = Absent THEN Absent
                            ELSE disk[ResultFile(c)].status]
Published == IF disk[ManifestFile] = Absent THEN Absent ELSE disk[ManifestFile].results

(* A file the contract does not see may change as it likes. *)
LEMMA UnseenFile ==
  ASSUME NEW path \in Path \ Results, NEW content, disk = [p \in Path |-> disk[p]],
         disk' = [disk EXCEPT ![path] = content]
  PROVE  UNCHANGED Verdict /\ (path # ManifestFile => UNCHANGED Published)
<1>1. \A p \in Path : p # path => disk'[p] = disk[p]
  OBVIOUS
<1>2. \A c \in Check : disk'[ResultFile(c)] = disk[ResultFile(c)]
  BY <1>1, PathMembers
<1>3. path # ManifestFile => disk'[ManifestFile] = disk[ManifestFile]
  BY <1>1, PathMembers
<1>. QED  BY <1>2, <1>3 DEF Verdict, Published

(* A result's file changes one verdict. *)
LEMMA SeenResult ==
  ASSUME NEW c \in Check, NEW content, disk = [p \in Path |-> disk[p]],
         disk' = [disk EXCEPT ![ResultFile(c)] = content]
  PROVE  /\ Verdict' = [Verdict EXCEPT ![c] = IF content = Absent THEN Absent ELSE content.status]
         /\ UNCHANGED Published
<1>1. disk'[ResultFile(c)] = content /\ disk'[ManifestFile] = disk[ManifestFile]
  BY PathMembers, ResultNames
<1>2. \A d \in Check : d # c => disk'[ResultFile(d)] = disk[ResultFile(d)]
  BY PathMembers, ResultNames
<1>. DEFINE v == IF content = Absent THEN Absent ELSE content.status
<1>3. Verdict'[c] = v /\ \A d \in Check : d # c => Verdict'[d] = Verdict[d]
  BY <1>1, <1>2 DEF Verdict
<1>4. Verdict = [d \in Check |-> Verdict[d]] /\ Verdict' = [d \in Check |-> Verdict'[d]]
  BY DEF Verdict
<1>. HIDE DEF v
<1>5. Verdict' = [Verdict EXCEPT ![c] = v]
  BY <1>3, <1>4
<1>. QED  BY <1>1, <1>5 DEF Published, v

(* Every step of the directory is a step of its contract, or none. *)
LEMMA ContractStep ==
  DirectoryInv /\ [Next]_vars => [Contract!Next]_<<Verdict, Published>>
<1>. SUFFICES ASSUME DirectoryInv, [Next]_vars
              PROVE  Contract!Next \/ UNCHANGED <<Verdict, Published>>
  OBVIOUS
<1>1. CASE UNCHANGED disk
  BY <1>1 DEF Verdict, Published
<1>2. CASE Replace
  <2>1. /\ writing \in Path /\ disk = [p \in Path |-> disk[p]]
        /\ disk' = [disk EXCEPT ![writing] = temp[writing]]
    BY <1>2 DEF Replace, DirectoryInv, Writes, Filed
  <2>2. CASE writing \in Results
    <3>1. PICK c \in Check : writing = ResultFile(c)
      BY <2>2 DEF Results
    <3>2. temp[writing] \in Result /\ temp[writing] # Absent
      BY <2>1, <3>1, Contents, ResultNames DEF DirectoryInv, Filed
    <3>3. temp[writing].status \in Status
      BY <3>2 DEF Result
    <3>4. disk[writing] = Absent
      BY <2>2 DEF DirectoryInv, Progress
    <3>5. Verdict[c] = Absent
      BY <3>1, <3>4 DEF Verdict
    <3>6. Contract!Settle(c, temp[writing].status)
      BY <2>1, <3>1, <3>2, <3>5, SeenResult DEF Contract!Settle, Verdict, Published
    <3>. QED  BY <3>3, <3>6 DEF Contract!Next
  <2>3. CASE writing = ManifestFile
    <3>1. temp[ManifestFile] \in Manifest /\ temp[ManifestFile] # Absent
      BY <2>1, <2>3, Contents, PathNames DEF DirectoryInv, Filed
    <3>2. \A c \in Check : disk[ResultFile(c)] # Absent
                             /\ temp[ManifestFile].results[c] = disk[ResultFile(c)].status
      BY <2>3 DEF DirectoryInv, Closing, Describes
    <3>3. temp[ManifestFile].results = Verdict
      BY <3>1, <3>2 DEF Manifest, Verdict
    <3>4. \A c \in Check : Verdict[c] # Absent
      <4>. SUFFICES ASSUME NEW c \in Check PROVE Verdict[c] # Absent
        OBVIOUS
      <4>1. disk[ResultFile(c)] \in Result
        BY <3>2, PathMembers, ResultNames, Contents DEF DirectoryInv, Filed
      <4>. QED  BY <3>2, <4>1, AbsentAssumption DEF Verdict, Result
    <3>5. UNCHANGED Verdict
      <4>. ManifestFile \in Path \ Results
        BY PathMembers, ResultNames DEF Results
      <4>. QED  BY <2>1, <2>3, UnseenFile
    <3>6. Published' = Verdict
      BY <2>1, <2>3, <3>1, <3>3, PathMembers DEF Published
    <3>7. Contract!Publish
      BY <3>4, <3>5, <3>6 DEF Contract!Publish, Verdict, Published
    <3>. QED  BY <3>7 DEF Contract!Next
  <2>4. CASE writing \notin Results \cup {ManifestFile}
    BY <2>1, <2>4, UnseenFile
  <2>. QED  BY <2>2, <2>3, <2>4
<1>3. CASE Remove
  <2>1. PICK p \in Path : disk' = [disk EXCEPT ![p] = Absent] \/ UNCHANGED disk
    BY <1>3 DEF Remove
  <2>2. disk = [q \in Path |-> disk[q]]
    BY DEF DirectoryInv, Filed
  <2>3. CASE p \in Results /\ disk' = [disk EXCEPT ![p] = Absent]
    <3>1. PICK c \in Check : p = ResultFile(c)
      BY <2>3 DEF Results
    <3>2. Verdict' = [Verdict EXCEPT ![c] = Absent] /\ UNCHANGED Published
      BY <2>2, <2>3, <3>1, SeenResult
    <3>. QED  BY <3>2 DEF Contract!Next, Contract!Discard, Verdict, Published
  <2>4. CASE p = ManifestFile /\ disk' = [disk EXCEPT ![p] = Absent]
    <3>1. UNCHANGED Verdict
      <4>. ManifestFile \in Path \ Results
        BY PathMembers, ResultNames DEF Results
      <4>. QED  BY <2>2, <2>4, UnseenFile
    <3>2. Published' = Absent
      BY <2>2, <2>4, PathMembers DEF Published
    <3>. QED  BY <3>1, <3>2 DEF Contract!Next, Contract!Discard, Verdict, Published
  <2>5. CASE p \notin Results \cup {ManifestFile} /\ disk' = [disk EXCEPT ![p] = Absent]
    BY <2>2, <2>5, UnseenFile
  <2>. QED  BY <2>1, <2>3, <2>4, <2>5, <1>1
<1>. QED
  BY <1>1, <1>2, <1>3
  DEF Next, Work, Begin, Observe, Measure, StoreEvidence, StoreResult, ChecksDone, Fill, Accept,
      WriteManifest, WriteChecksums, Close, Execute, FinalizeCommand, Abort, Crash, Escape,
      Stop, Abandon, Write,
      Finalize

(***************************************************************************)
(* The directory implements its contract: a result is written once and     *)
(* never replaced, a manifest is published over a full set of results and  *)
(* says what they say, and only a forced removal takes anything back.      *)
(***************************************************************************)
THEOREM DirectoryImplementsContract == Spec => ImplementsContract
<1>1. Init => Contract!Init
  BY PathNames, PathMembers, ResultNames DEF Init, Contract!Init
<1>2. <<Verdict, Published>> = Contract!vars
  BY DEF Contract!vars, Verdict, Published
<1>3. DirectoryInv /\ [Next]_vars => [Contract!Next]_(Contract!vars)
  BY ContractStep, <1>2 DEF Contract!vars, Verdict, Published
<1>. QED  BY <1>1, <1>3, DirectoryCorrect, PTL DEF Spec, ImplementsContract, Contract!Spec
=============================================================================
