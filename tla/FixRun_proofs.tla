---------------------------- MODULE FixRun_proofs ----------------------------
(* Proofs about FixRun: no file is ever torn, no temporary file is left, the *)
(* modified files are the changed ones, the report is about the disk, and a  *)
(* second run over what a run left changes nothing.                          *)
EXTENDS FixRun, FiniteSetTheorems, WellFoundedInduction, TLAPS

Working == {"passes", "create", "fill", "rename", "recheck"}

\* Only the file in work has a temporary file, and what is renamed is whole.
WriteInv ==
    /\ pc \in Working => /\ next <= Len(Paths)
                         /\ source \in Docs /\ current \in Docs
                         /\ start \in Docs
    /\ pc = "passes" => turn >= 1
    /\ pc = "rename" => temp[Path] = current
    /\ \A f \in Files : temp[f] # NoDoc =>
            pc = "killed" \/ (pc \in {"fill", "rename"} /\ f = Path)

IInv == TypeOK /\ NeverTorn /\ WriteInv

LEMMA Lengths == Len(Paths) \in Nat /\ Len(FixableRules) \in Nat
BY FixRunAssumption

LEMMA PathIsFile ==
    ASSUME NEW i \in 1..Len(Paths)
    PROVE  Paths[i] \in Files /\ i \in DOMAIN Paths
BY FixRunAssumption

LEMMA CheckRulesType ==
    ASSUME NEW f \in Files, NEW d
    PROVE  CheckRules(f, d) \subseteq Diagnostics
BY DEF CheckRules, Diagnostics

LEMMA InitIInv == Init => IInv
<1> SUFFICES ASSUME Init PROVE IInv
  OBVIOUS
<1>1. TypeOK
  BY Lengths, FixRunAssumption DEF Init, TypeOK, PCs, NoExit
<1>2. NeverTorn
  BY FixRunAssumption DEF Init, NeverTorn
<1>3. WriteInv
  BY DEF Init, WriteInv, Working
<1> QED BY <1>1, <1>2, <1>3 DEF IInv

LEMMA StepIInv == IInv /\ [Next]_vars => IInv'
<1> SUFFICES ASSUME IInv, [Next]_vars PROVE IInv'
  OBVIOUS
<1> USE Lengths, FixRunAssumption DEF IInv
<1>p. next <= Len(Paths) => Path \in Files
  BY PathIsFile DEF Path, TypeOK
<1>1. CASE SkipIgnored
  <2> USE <1>1 DEF SkipIgnored, NextFile, memory, report, world
  <2>1. TypeOK'
    BY DEF TypeOK, PCs
  <2>2. WriteInv' /\ NeverTorn'
    BY DEF WriteInv, Working, NeverTorn
  <2> QED BY <2>1, <2>2
<1>2. CASE RefuseFile
  <2> USE <1>2 DEF RefuseFile, NextFile, Fault, memory
  <2>1. TypeOK'
    BY <1>p DEF TypeOK, PCs
  <2>2. WriteInv' /\ NeverTorn'
    BY DEF WriteInv, Working, NeverTorn
  <2> QED BY <2>1, <2>2
<1>3. CASE OpenFile
  <2> USE <1>3 DEF OpenFile, world
  <2>1. before' \subseteq Diagnostics /\ Path \in Files
    BY <1>p, CheckRulesType
  <2>2. disk[Path] \in Docs
    BY <2>1 DEF NeverTorn
  <2>3. TypeOK'
    BY <2>1, <2>2 DEF TypeOK, PCs
  <2>4. WriteInv' /\ NeverTorn'
    BY <2>2 DEF WriteInv, Working, NeverTorn, Path
  <2> QED BY <2>3, <2>4
<1>4. CASE ApplyRule
  <2> USE <1>4 DEF ApplyRule, report, world
  <2>1. current \in Docs /\ turn \in 1..Len(FixableRules)
    BY DEF WriteInv, Working, TypeOK
  <2>2. FixableRules[turn] \in Rules
    BY <2>1
  <2>3. disk \in [Files -> Docs]
    BY DEF TypeOK, NeverTorn
  <2>4. Repair(FixableRules[turn], current, disk) \in Docs
    BY <2>1, <2>2, <2>3
  <2>5. current' \in Docs
    BY <2>1, <2>4
  <2>6. TypeOK'
    BY <2>1, <2>5 DEF TypeOK, PCs
  <2>7. WriteInv' /\ NeverTorn'
    BY <2>1, <2>5 DEF WriteInv, Working, NeverTorn, Path
  <2> QED BY <2>6, <2>7
<1>5. CASE EndPass
  <2> USE <1>5 DEF EndPass, report, world
  <2>1. TypeOK'
    BY DEF TypeOK, PCs
  <2>2. WriteInv' /\ NeverTorn'
    BY DEF WriteInv, Working, NeverTorn, Path
  <2> QED BY <2>1, <2>2
<1>6. CASE CreateTemp
  <2> USE <1>6 DEF CreateTemp, WriteFailed, NextFile, Fault, memory
  <2>1. next <= Len(Paths) /\ Path \in Files
    BY <1>p DEF WriteInv, Working
  <2>2. TypeOK'
    BY <2>1 DEF TypeOK, PCs
  <2>3. WriteInv' /\ NeverTorn'
    BY <2>1 DEF WriteInv, Working, NeverTorn, Path, TypeOK
  <2> QED BY <2>2, <2>3
<1>7. CASE FillTemp
  <2> USE <1>7 DEF FillTemp, memory
  <2>1. /\ pc = "fill" /\ next <= Len(Paths) /\ Path \in Files
        /\ source \in Docs /\ current \in Docs /\ start \in Docs
    BY <1>p DEF WriteInv, Working
  <2>2. NeverTorn'
    BY DEF NeverTorn
  <2>3. \A f \in Files : f # Path => temp[f] = NoDoc
    BY <2>1 DEF WriteInv, TypeOK
  <2>4. CASE /\ temp' = [temp EXCEPT ![Path] = current]
             /\ pc' = "rename"
             /\ UNCHANGED <<next, failed, diags, faults>>
    <3>1. TypeOK'
      BY <2>1, <2>4 DEF TypeOK, PCs
    <3>2. temp'[Path] = current /\ \A f \in Files : f # Path => temp'[f] = NoDoc
      BY <2>1, <2>3, <2>4 DEF TypeOK
    <3>3. WriteInv'
      BY <2>1, <2>4, <3>2 DEF WriteInv, Working, Path
    <3> QED BY <2>2, <3>1, <3>3
  <2>5. CASE WriteFailed /\ temp' = [temp EXCEPT ![Path] = NoDoc]
    <3> USE DEF WriteFailed, NextFile, Fault
    <3>1. TypeOK'
      BY <2>1, <2>5 DEF TypeOK, PCs
    <3>2. \A f \in Files : temp'[f] = NoDoc
      BY <2>1, <2>3, <2>5 DEF TypeOK
    <3>3. WriteInv'
      BY <2>1, <2>5, <3>2 DEF WriteInv, Working
    <3> QED BY <2>2, <3>1, <3>3
  <2> QED BY <2>4, <2>5
<1>8. CASE RenameTemp
  <2> USE <1>8 DEF RenameTemp, WriteFailed, NextFile, Fault, memory
  <2>1. /\ next <= Len(Paths) /\ Path \in Files
        /\ temp[Path] = current /\ current \in Docs
    BY <1>p DEF WriteInv, Working
  <2>2. TypeOK'
    BY <2>1 DEF TypeOK, PCs
  <2>3. NeverTorn'
    BY <2>1 DEF NeverTorn, TypeOK
  <2>4. WriteInv'
    BY <2>1 DEF WriteInv, Working, Path, TypeOK
  <2> QED BY <2>2, <2>3, <2>4
<1>9. CASE Recheck
  <2> USE <1>9 DEF Recheck, NextFile, memory, world
  <2>1. CheckRules(Path, current) \subseteq Diagnostics
    BY <1>p, CheckRulesType DEF WriteInv, Working
  <2>2. TypeOK'
    BY <2>1, <1>p DEF TypeOK, PCs, WriteInv, Working
  <2>3. WriteInv' /\ NeverTorn'
    BY DEF WriteInv, Working, NeverTorn
  <2> QED BY <2>2, <2>3
<1>10. CASE Exit
  <2> USE <1>10 DEF Exit, Fault, memory
  <2>1. TypeOK'
    BY DEF TypeOK, PCs, NoExit
  <2>2. WriteInv' /\ NeverTorn'
    BY DEF WriteInv, Working, NeverTorn
  <2> QED BY <2>1, <2>2
<1>11. CASE Kill
  <2> USE <1>11 DEF Kill, memory, report, world
  <2>1. TypeOK'
    BY DEF TypeOK, PCs
  <2>2. WriteInv' /\ NeverTorn'
    BY DEF WriteInv, Working, NeverTorn
  <2> QED BY <2>1, <2>2
<1>12. ASSUME NEW f \in Files, NEW d \in Docs, Save(f, d) PROVE IInv'
  <2> USE <1>12 DEF Save, memory, report
  <2>1. TypeOK'
    BY DEF TypeOK, PCs
  <2>2. NeverTorn'
    BY DEF NeverTorn, TypeOK
  <2>3. WriteInv'
    BY DEF WriteInv, Working, Path
  <2> QED BY <2>1, <2>2, <2>3
<1>13. CASE UNCHANGED vars
  BY <1>13 DEF vars, memory, report, world, TypeOK, NeverTorn, WriteInv, Path
<1> QED
  BY <1>1, <1>2, <1>3, <1>4, <1>5, <1>6, <1>7, <1>8, <1>9, <1>10, <1>11,
     <1>12, <1>13 DEF Next, FixStep

LEMMA Invariance == Spec => []IInv
BY InitIInv, StepIInv, PTL DEF Spec

\* The variables of a fix run keep their types, for every rule set, every list
\* of files and every number of faults and saves.
THEOREM TypeCorrect == Spec => []TypeOK
BY Invariance, PTL DEF IInv

\* Whatever fails, and whenever the process is killed, every file on the disk
\* is a whole text: atomicWriteFile fills the temporary file before the rename.
THEOREM FilesAreWhole == Spec => []NeverTorn
BY Invariance, PTL DEF IInv

\* A run that ends has removed its temporary files.
THEOREM TempsAreRemoved == Spec => []NoTempLeft
<1>1. IInv => NoTempLeft
  BY DEF IInv, WriteInv, NoTempLeft
<1> QED BY <1>1, Invariance, PTL

-----------------------------------------------------------------------------
\* What a run without saves has done to the disk so far.
Untouched(f) == disk[f] = given[f] /\ f \notin modified
Settled(f) == f \in modified <=> disk[f] # given[f]
Pending(i) == i > next \/ (i = next /\ pc # "recheck")

DiskInv ==
    (saves = 0 /\ pc # "killed") =>
        /\ \A i \in 1..Len(Paths) : Pending(i) => Untouched(Paths[i])
        /\ \A i \in 1..Len(Paths) : i < next => Settled(Paths[i])
        /\ \A f \in Files : (\A i \in 1..Len(Paths) : f # Paths[i])
                                => Untouched(f)
        /\ pc \in {"passes", "create", "fill", "rename"} =>
                source = disk[Path]
        /\ pc \in {"create", "fill", "rename"} => current # source
        /\ pc = "recheck" => disk[Path] = current /\ Settled(Path)
        /\ pc = "done" => next > Len(Paths)

LEMMA OtherPath ==
    ASSUME NEW i \in 1..Len(Paths), NEW j \in 1..Len(Paths), i # j
    PROVE  Paths[i] # Paths[j]
BY FixRunAssumption

LEMMA InitDiskInv == Init => DiskInv
BY Lengths DEF Init, DiskInv, Untouched, Settled, Pending

LEMMA StepDiskInv == IInv /\ DiskInv /\ [Next]_vars => DiskInv'
<1> SUFFICES ASSUME IInv, DiskInv, [Next]_vars, saves' = 0, pc' # "killed"
             PROVE  DiskInv'
  BY DEF DiskInv
<1> USE Lengths
<1>n. next \in Int /\ saves \in Nat
  BY DEF IInv, TypeOK
<1>w. pc \in Working => next \in 1..Len(Paths) /\ Path \in Files
  BY PathIsFile DEF IInv, TypeOK, WriteInv, Path
<1>1. CASE SkipIgnored
  BY <1>1, <1>n DEF SkipIgnored, NextFile, memory, report, world, DiskInv,
     Untouched, Settled, Pending
<1>2. CASE RefuseFile
  BY <1>2, <1>n DEF RefuseFile, NextFile, memory, DiskInv, Untouched, Settled,
     Pending
<1>3. CASE OpenFile
  BY <1>3, <1>n DEF OpenFile, world, DiskInv, Untouched, Settled, Pending, Path
<1>4. CASE ApplyRule
  BY <1>4, <1>n DEF ApplyRule, report, world, DiskInv, Untouched, Settled,
     Pending, Path
<1>5. CASE EndPass
  <2> USE <1>5, <1>n DEF EndPass, report, world
  <2>1. pc' = "recheck" => disk[Path] = current /\ Untouched(Path)
    BY <1>w DEF DiskInv, Working, Pending, Path
  <2>2. next' = next /\ Path' = Path /\ pc = "passes"
    BY DEF Path
  <2> QED BY <2>1, <2>2 DEF DiskInv, Untouched, Settled, Pending
<1>6. CASE CreateTemp
  BY <1>6, <1>n, <1>w DEF CreateTemp, WriteFailed, NextFile, memory, DiskInv,
     Untouched, Settled, Pending, Path, Working
<1>7. CASE FillTemp
  BY <1>7, <1>n, <1>w DEF FillTemp, WriteFailed, NextFile, memory, DiskInv,
     Untouched, Settled, Pending, Path, Working
<1>8. CASE RenameTemp
  <2> USE <1>8, <1>n DEF RenameTemp, memory
  <2>1. /\ next \in 1..Len(Paths) /\ Path \in Files /\ temp[Path] = current
        /\ saves = 0 /\ pc = "rename"
    BY <1>w DEF Working, IInv, WriteInv
  <2>2. CASE WriteFailed /\ UNCHANGED <<disk, modified>>
    BY <2>1, <2>2 DEF WriteFailed, NextFile, DiskInv, Untouched, Settled,
       Pending, Path
  <2>3. CASE /\ disk' = [disk EXCEPT ![Path] = temp[Path]]
             /\ modified' = modified \cup {Path}
             /\ pc' = "recheck"
             /\ UNCHANGED <<next, failed, diags, faults>>
    <3>1. disk'[Path] = current /\ \A f \in Files : f # Path => disk'[f] = disk[f]
      BY <2>1, <2>3 DEF IInv, TypeOK
    <3>2. \A i \in 1..Len(Paths) : i # next => Paths[i] # Path
      BY <2>1, OtherPath DEF Path
    <3>3. \A i \in 1..Len(Paths) : Paths[i] \in Files
      BY PathIsFile
    <3>4. given[Path] = source /\ current # source
      BY <2>1 DEF DiskInv, Untouched, Pending, Path
    <3>5. \A i \in 1..Len(Paths) : i > next => Untouched(Paths[i])'
      BY <2>1, <2>3, <3>1, <3>2, <3>3 DEF DiskInv, Untouched, Pending
    <3>6. \A i \in 1..Len(Paths) : i < next => Settled(Paths[i])'
      BY <2>1, <2>3, <3>1, <3>2, <3>3 DEF DiskInv, Settled
    <3>7. \A f \in Files : (\A i \in 1..Len(Paths) : f # Paths[i])
                                => f # Path /\ Untouched(f)'
      BY <2>1, <2>3, <3>1 DEF DiskInv, Untouched, Path
    <3>8. disk'[Path] = current /\ (Path \in modified' <=> disk'[Path] # given[Path])
      BY <2>3, <3>1, <3>4
    <3> QED BY <2>1, <2>3, <3>5, <3>6, <3>7, <3>8
            DEF DiskInv, Pending, Settled, Path
  <2> QED BY <2>2, <2>3
<1>9. CASE Recheck
  BY <1>9, <1>n, <1>w DEF Recheck, NextFile, memory, world, DiskInv,
     Untouched, Settled, Pending, Path, Working
<1>10. CASE Exit
  BY <1>10, <1>n DEF Exit, memory, DiskInv, Untouched, Settled, Pending
<1>11. CASE Kill
  BY <1>11 DEF Kill
<1>12. ASSUME NEW f \in Files, NEW d \in Docs, Save(f, d) PROVE DiskInv'
  BY <1>12, <1>n DEF Save
<1>13. CASE UNCHANGED vars
  BY <1>13 DEF vars, memory, report, world, DiskInv, Untouched, Settled,
     Pending, Path
<1> QED
  BY <1>1, <1>2, <1>3, <1>4, <1>5, <1>6, <1>7, <1>8, <1>9, <1>10, <1>11,
     <1>12, <1>13 DEF Next, FixStep

LEMMA DiskInvariance == Spec => []DiskInv
BY InitDiskInv, StepDiskInv, Invariance, PTL DEF Spec

\* A run that no save disturbed and that was not killed names as modified the
\* files it changed and no others, whatever system calls failed on the way.
THEOREM ModifiedTellsTheTruth == Spec => []ModifiedIsChanged
<1>1. IInv /\ DiskInv => ModifiedIsChanged
  <2> SUFFICES ASSUME IInv, DiskInv, pc = "done", saves = 0
               PROVE  modified = {f \in Files : disk[f] # given[f]}
    BY DEF ModifiedIsChanged
  <2>1. \A i \in 1..Len(Paths) : Settled(Paths[i])
    BY Lengths DEF DiskInv, IInv, TypeOK
  <2>2. \A f \in Files : Settled(f)
    BY <2>1 DEF DiskInv, Untouched, Settled
  <2> QED BY <2>2 DEF Settled, IInv, TypeOK
<1> QED BY <1>1, Invariance, DiskInvariance, PTL

-----------------------------------------------------------------------------
\* No rule looks at another file: what it reports depends on the text alone.
Independent ==
    \A r \in Rules, d \in Docs, k, l \in [Files -> Docs] :
        Finds(r, d, k) = Finds(r, d, l)

SomeDisk == CHOOSE k \in [Files -> Docs] : TRUE
Report(f, d) == {f} \X {r \in Rules : Finds(r, d, SomeDisk)}
Of(f) == {d \in diags : d[1] = f}

ReportInv ==
    (saves = 0 /\ pc # "killed") =>
        /\ \A i \in 1..Len(Paths) : i >= next => Of(Paths[i]) = {}
        /\ pc \in {"passes", "create", "fill", "rename"} =>
                before = Report(Path, source)
        /\ \A i \in 1..Len(Paths) : i < next =>
                \/ Paths[i] \in Ignored
                \/ Paths[i] \in failed /\ Of(Paths[i]) = {}
                \/ Of(Paths[i]) = Report(Paths[i], disk[Paths[i]])

LEMMA ReportOfAnyDisk ==
    ASSUME Independent, disk \in [Files -> Docs], NEW f, NEW d \in Docs
    PROVE  CheckRules(f, d) = Report(f, d)
<1>1. SomeDisk \in [Files -> Docs]
  BY DEF SomeDisk
<1>2. \A r \in Rules : Finds(r, d, disk) = Finds(r, d, SomeDisk)
  BY <1>1 DEF Independent
<1> QED BY <1>2 DEF CheckRules, Report

LEMMA InitReportInv == Init => ReportInv
BY Lengths DEF Init, ReportInv, Of

LEMMA ReportIsOfFile ==
    ASSUME NEW f, NEW d PROVE \A x \in Report(f, d) : x[1] = f
BY DEF Report

LEMMA StepReportInv ==
    ASSUME Independent, IInv, DiskInv, ReportInv, [Next]_vars
    PROVE  ReportInv'
<1> SUFFICES ASSUME saves' = 0, pc' # "killed" PROVE ReportInv'
  BY DEF ReportInv
<1> USE Lengths
<1>n. next \in Int /\ saves \in Nat
  BY DEF IInv, TypeOK
<1>d. disk \in [Files -> Docs]
  BY DEF IInv, TypeOK, NeverTorn
<1>w. pc \in Working => /\ next \in 1..Len(Paths) /\ Path \in Files
                        /\ source \in Docs /\ current \in Docs
  BY PathIsFile DEF IInv, TypeOK, WriteInv, Path
\* A step that adds the report of a text to the diagnostics of the file in work.
<1>r. ASSUME NEW d, saves = 0, pc \in Working, diags' = diags \cup Report(Path, d),
             next' = next + 1, pc' = "open", failed \subseteq failed',
             \A i \in 1..Len(Paths) : i < next => disk'[Paths[i]] = disk[Paths[i]],
             disk'[Path] = d
      PROVE  ReportInv'
  <2>1. pc # "killed" /\ next \in 1..Len(Paths)
    BY <1>r, <1>w DEF Working
  <2>2. \A i \in 1..Len(Paths) : i # next => Paths[i] # Path
    BY <2>1, OtherPath DEF Path
  <2>3. \A i \in 1..Len(Paths) : i # next => Of(Paths[i])' = Of(Paths[i])
    BY <1>r, <2>2, ReportIsOfFile DEF Of
  <2>4. Of(Paths[next]) = {}
    BY <1>r, <2>1 DEF ReportInv
  <2>5. \A x : x \in diags' /\ x[1] = Path <=> x \in Report(Path, d)
    BY <1>r, <2>4, ReportIsOfFile DEF Of, Path
  <2>6. {x \in diags' : x[1] = Path} = Report(Path, d)
    BY <1>r, <2>5
  <2>7. \A i \in 1..Len(Paths) : i >= next' => Of(Paths[i])' = {}
    BY <1>r, <1>n, <2>1, <2>3 DEF ReportInv
  <2>8. \A i \in 1..Len(Paths) : i < next =>
            \/ Paths[i] \in Ignored
            \/ Paths[i] \in failed' /\ Of(Paths[i])' = {}
            \/ Of(Paths[i])' = Report(Paths[i], disk'[Paths[i]])
    BY <1>r, <1>n, <2>1, <2>3 DEF ReportInv
  <2>9. \A i \in 1..Len(Paths) : i = next =>
            Of(Paths[i])' = Report(Paths[i], disk'[Paths[i]])
    BY <1>r, <2>6 DEF Of, Path
  <2>10. \A i \in 1..Len(Paths) : i < next' => i < next \/ i = next
    BY <1>r, <1>n
  <2>11. \A i \in 1..Len(Paths) : i < next' =>
            \/ Paths[i] \in Ignored
            \/ Paths[i] \in failed' /\ Of(Paths[i])' = {}
            \/ Of(Paths[i])' = Report(Paths[i], disk'[Paths[i]])
    BY <2>8, <2>9, <2>10
  <2> QED BY <1>r, <2>7, <2>11 DEF ReportInv
<1>f. ASSUME saves = 0, pc \in Working, WriteFailed, pc # "passes",
             pc # "recheck", UNCHANGED disk
      PROVE  ReportInv'
  <2>1. before = Report(Path, source) /\ source = disk[Path]
    BY <1>f DEF ReportInv, DiskInv, Working
  <2> QED BY <1>f, <1>r, <2>1 DEF WriteFailed, NextFile
\* A step that leaves the file in work without diagnostics.
<1>s. ASSUME saves = 0, pc = "open", diags' = diags, disk' = disk, pc' = "open",
             next' = next + 1, failed \subseteq failed',
             \A i \in 1..Len(Paths) : i = next =>
                 Paths[i] \in Ignored \/ Paths[i] \in failed'
      PROVE  ReportInv'
  <2>1. \A i \in 1..Len(Paths) : i >= next => Of(Paths[i]) = {}
    BY <1>s DEF ReportInv
  <2>2. \A i \in 1..Len(Paths) : i < next =>
            \/ Paths[i] \in Ignored
            \/ Paths[i] \in failed /\ Of(Paths[i]) = {}
            \/ Of(Paths[i]) = Report(Paths[i], disk[Paths[i]])
    BY <1>s DEF ReportInv
  <2>3. \A i \in 1..Len(Paths) : Of(Paths[i])' = Of(Paths[i])
    BY <1>s DEF Of
  <2>4. \A i \in 1..Len(Paths) : i < next' => i < next \/ i = next
    BY <1>s, <1>n
  <2>5. \A i \in 1..Len(Paths) : i < next' =>
            \/ Paths[i] \in Ignored
            \/ Paths[i] \in failed' /\ Of(Paths[i])' = {}
            \/ Of(Paths[i])' = Report(Paths[i], disk'[Paths[i]])
    BY <1>s, <1>n, <2>1, <2>2, <2>3, <2>4
  <2>6. \A i \in 1..Len(Paths) : i >= next' => Of(Paths[i])' = {}
    BY <1>s, <1>n, <2>1, <2>3
  <2> QED BY <1>s, <2>5, <2>6 DEF ReportInv
<1>1. CASE SkipIgnored
  BY <1>1, <1>s DEF SkipIgnored, NextFile, memory, report, world, Path
<1>2. CASE RefuseFile
  BY <1>2, <1>s DEF RefuseFile, NextFile, memory, Path
<1>3. CASE OpenFile
  <2> USE <1>3, <1>n DEF OpenFile, world
  <2>1. \A i \in 1..Len(Paths) : Of(Paths[i])' = Of(Paths[i])
    BY DEF Of
  <2>2. Path \in Files
    BY PathIsFile DEF Path, IInv, TypeOK
  <2>3. before' = Report(Path, source')
    BY <1>d, <2>2, ReportOfAnyDisk DEF IInv, NeverTorn
  <2> QED BY <2>1, <2>3 DEF ReportInv, Path
<1>4. CASE ApplyRule
  BY <1>4, <1>n DEF ApplyRule, report, world, ReportInv, Path, Of
<1>5. CASE EndPass
  BY <1>5, <1>n DEF EndPass, report, world, ReportInv, Path, Of
<1>6. CASE CreateTemp
  BY <1>6, <1>n, <1>f DEF CreateTemp, memory, ReportInv, Path, Of, Working
<1>7. CASE FillTemp
  BY <1>7, <1>n, <1>f DEF FillTemp, memory, ReportInv, Path, Of, Working
<1>8. CASE RenameTemp
  <2> USE <1>8, <1>n DEF RenameTemp, memory
  <2>1. CASE WriteFailed /\ UNCHANGED <<disk, modified>>
    BY <2>1, <1>f DEF Working
  <2>2. CASE /\ disk' = [disk EXCEPT ![Path] = temp[Path]]
             /\ modified' = modified \cup {Path}
             /\ pc' = "recheck"
             /\ UNCHANGED <<next, failed, diags, faults>>
    <3>1. next \in 1..Len(Paths)
      BY <1>w DEF Working
    <3>2. \A i \in 1..Len(Paths) : i # next => Paths[i] # Path /\ Paths[i] \in Files
      BY <3>1, OtherPath, PathIsFile DEF Path
    <3>3. \A i \in 1..Len(Paths) : i < next => disk'[Paths[i]] = disk[Paths[i]]
      BY <2>2, <3>2, <1>d
    <3>4. \A i \in 1..Len(Paths) : Of(Paths[i])' = Of(Paths[i])
      BY <2>2 DEF Of
    <3> QED BY <2>2, <3>3, <3>4 DEF ReportInv
  <2> QED BY <2>1, <2>2
<1>9. CASE Recheck
  <2> USE <1>9, <1>n DEF Recheck, NextFile, memory, world
  <2>1. saves = 0 /\ pc \in Working
    BY DEF Working
  <2>2. disk[Path] = current
    BY DEF DiskInv
  <2>3. CheckRules(Path, current) = Report(Path, current)
    BY <2>1, <1>w, <1>d, ReportOfAnyDisk
  <2> QED BY <2>1, <2>2, <2>3, <1>r
<1>10. CASE Exit
  BY <1>10, <1>n DEF Exit, memory, ReportInv, Of
<1>11. CASE Kill
  BY <1>11 DEF Kill
<1>12. ASSUME NEW f \in Files, NEW d \in Docs, Save(f, d) PROVE ReportInv'
  BY <1>12, <1>n DEF Save
<1>13. CASE UNCHANGED vars
  BY <1>13 DEF vars, memory, report, world, ReportInv, Of, Path
<1> QED
  BY <1>1, <1>2, <1>3, <1>4, <1>5, <1>6, <1>7, <1>8, <1>9, <1>10, <1>11,
     <1>12, <1>13 DEF Next, FixStep

\* When no rule looks at another file, what a run reports of each file is what
\* the rules find in the text the run left on the disk.
THEOREM ReportIsAboutTheDisk ==
    ASSUME Independent PROVE Spec => []ReportMatchesDisk
<1>1. IInv /\ DiskInv /\ ReportInv => ReportMatchesDisk
  <2> SUFFICES ASSUME IInv, DiskInv, ReportInv, pc = "done", saves = 0,
                      NEW i \in DOMAIN Paths
               PROVE  LET f == Paths[i] IN
                      \/ f \in Ignored
                      \/ f \in failed /\ {d \in diags : d[1] = f} = {}
                      \/ {d \in diags : d[1] = f} = CheckRules(f, disk[f])
    BY DEF ReportMatchesDisk
  <2>1. i \in 1..Len(Paths) /\ i < next
    BY Lengths, FixRunAssumption DEF DiskInv, IInv, TypeOK
  <2>2. disk \in [Files -> Docs] /\ Paths[i] \in Files
    BY <2>1, PathIsFile DEF IInv, TypeOK, NeverTorn
  <2>3. CheckRules(Paths[i], disk[Paths[i]]) = Report(Paths[i], disk[Paths[i]])
    BY <2>2, ReportOfAnyDisk
  <2> QED BY <2>1, <2>3 DEF ReportInv, Of
<1>2. Init => ReportInv
  BY InitReportInv
<1>3. IInv /\ DiskInv /\ ReportInv /\ [Next]_vars => ReportInv'
  BY StepReportInv
<1> QED BY <1>1, <1>2, <1>3, Invariance, DiskInvariance, PTL DEF Spec

-----------------------------------------------------------------------------
(* A second run has nothing to do: induction over the turns of a pass and    *)
(* over the passes.                                                          *)

\* A set of numbers that is not empty has a least element.
LEMMA Minimum ==
  ASSUME NEW T \in SUBSET Nat, NEW n \in T
  PROVE  \E x \in T : \A y \in T : x <= y
<1> DEFINE S == 0..n
           U == {0..k : k \in {i \in T : i <= n}}
           R == StrictSubsetOrdering(S)
<1>1. IsFiniteSet(S)
  BY FS_Interval
<1>2. IsWellFoundedOn(R, SUBSET S)
  BY <1>1, FS_StrictSubsetOrderingWellFounded, FS_FiniteSubsetsOfFinite
<1>3. U \subseteq SUBSET S /\ U # {}
  OBVIOUS
<1>4. \E x \in U : \A y \in U : ~(<<y,x>> \in R)
  <2> HIDE DEF S, U, R
  <2> QED BY <1>2, <1>3, WFMin
<1> PICK k \in T : k <= n /\ \A y \in U : ~(<<y,0..k>> \in R)
  BY <1>4
<1>5. ASSUME NEW y \in T, y < k PROVE FALSE
  <2>1. 0..y \in U /\ 0..y \in SUBSET S /\ 0..k \in SUBSET S /\ 0..y \subseteq 0..k
    BY <1>5
  <2>2. k \notin 0..y /\ k \in 0..k
    BY <1>5
  <2>3. <<0..y, 0..k>> \notin R
    BY <2>1
  <2> HIDE DEF S, U
  <2>4. \A a, b \in SUBSET S : a \subseteq b /\ a # b => <<a, b>> \in R
    BY DEF StrictSubsetOrdering
  <2> QED BY <2>1, <2>2, <2>3, <2>4
<1> QED BY <1>5

\* A set, not an operator, holds of every number.
LEMMA NatInd ==
  ASSUME NEW S, 0 \in S, \A n \in Nat : n \in S => n+1 \in S
  PROVE  Nat \subseteq S
<1> DEFINE T == Nat \ S
<1>1. SUFFICES ASSUME NEW n \in T PROVE FALSE
  OBVIOUS
<1> PICK x \in T : \A y \in T : x <= y
  <2>1. T \in SUBSET Nat OBVIOUS
  <2> HIDE DEF T
  <2> QED BY <2>1, Minimum
<1>2. x # 0 /\ x - 1 \in Nat /\ x - 1 \notin T
  OBVIOUS
<1> QED BY <1>2

\* A function on texts can be iterated: the recursion is well founded.
LEMMA Iteration ==
  ASSUME NEW N \in Nat, NEW d \in Docs, NEW G \in [(1..N) \X Docs -> Docs]
  PROVE  \E f \in [0..N -> Docs] :
            f[0] = d /\ \A n \in 1..N : f[n] = G[<<n, f[n - 1]>>]
<1> DEFINE Upto(m) == \E f \in [0..m -> Docs] :
                        f[0] = d /\ \A n \in 1..m : f[n] = G[<<n, f[n - 1]>>]
           M == {m \in Nat : m <= N => Upto(m)}
<1>1. 0 \in M
  <2> DEFINE f == [i \in 0..0 |-> d]
  <2>1. f \in [0..0 -> Docs] /\ f[0] = d /\ 1..0 = {}
    OBVIOUS
  <2> HIDE DEF f
  <2>2. Upto(0)
    BY <2>1
  <2> QED BY <2>2
<1>2. ASSUME NEW m \in Nat, m \in M PROVE m + 1 \in M
  <2> SUFFICES ASSUME m + 1 <= N PROVE Upto(m + 1)
    OBVIOUS
  <2> PICK f \in [0..m -> Docs] :
        f[0] = d /\ \A n \in 1..m : f[n] = G[<<n, f[n - 1]>>]
    BY <1>2
  <2> DEFINE g == [i \in 0..m + 1 |-> IF i = m + 1 THEN G[<<m + 1, f[m]>>] ELSE f[i]]
  <2>1. f[m] \in Docs /\ m + 1 \in 1..N
    OBVIOUS
  <2>2. g \in [0..m + 1 -> Docs]
    BY <2>1
  <2>3. \A i \in 0..m : g[i] = f[i]
    OBVIOUS
  <2>4. g[m + 1] = G[<<m + 1, g[m]>>]
    BY <2>3
  <2> HIDE DEF g
  <2>5. \A n \in 1..m + 1 : g[n] = G[<<n, g[n - 1]>>]
    <3> TAKE n \in 1..m + 1
    <3>1. CASE n = m + 1
      BY <3>1, <2>4
    <3>2. CASE n # m + 1
      <4>1. n \in 1..m /\ n - 1 \in 0..m /\ n \in 0..m
        BY <3>2
      <4> QED BY <4>1, <2>3
    <3> QED BY <3>1, <3>2
  <2> QED BY <2>2, <2>3, <2>5
<1>3. Nat \subseteq M
  <2> HIDE DEF M
  <2> QED BY <1>1, <1>2, NatInd
<1> QED BY <1>3

\* One rule on a text.
Turn(r, d, k) == IF Finds(r, d, k) THEN Repair(r, d, k) ELSE d

LEMMA TurnIsDoc ==
  ASSUME NEW i \in 1..Len(FixableRules), NEW d \in Docs, NEW k \in [Files -> Docs]
  PROVE  FixableRules[i] \in Rules /\ Turn(FixableRules[i], d, k) \in Docs
BY FixRunAssumption DEF Turn

\* Turns is what its recursion says: a text in, a text after each rule.
LEMMA TurnsAre ==
  ASSUME NEW d \in Docs, NEW k \in [Files -> Docs]
  PROVE  /\ Turns(d, k) \in [0..Len(FixableRules) -> Docs]
         /\ Turns(d, k)[0] = d
         /\ \A n \in 1..Len(FixableRules) :
                Turns(d, k)[n] = Turn(FixableRules[n], Turns(d, k)[n - 1], k)
<1> DEFINE L == Len(FixableRules)
           F == CHOOSE f : f = [n \in 0..L |->
                    IF n = 0 THEN d
                    ELSE IF Finds(FixableRules[n], f[n - 1], k)
                    THEN Repair(FixableRules[n], f[n - 1], k) ELSE f[n - 1]]
           G == [p \in (1..L) \X Docs |-> Turn(FixableRules[p[1]], p[2], k)]
<1>1. Turns(d, k) = F
  BY DEF Turns
<1>2. L \in Nat
  BY Lengths
<1>3. G \in [(1..L) \X Docs -> Docs]
  BY TurnIsDoc
<1>4. \E f \in [0..L -> Docs] : f[0] = d /\ \A n \in 1..L : f[n] = G[<<n, f[n - 1]>>]
  <2> HIDE DEF G, L
  <2> QED BY <1>2, <1>3, Iteration
<1>5. \E f : f = [n \in 0..L |->
                    IF n = 0 THEN d
                    ELSE IF Finds(FixableRules[n], f[n - 1], k)
                    THEN Repair(FixableRules[n], f[n - 1], k) ELSE f[n - 1]]
  <2> PICK f \in [0..L -> Docs] : f[0] = d /\ \A n \in 1..L : f[n] = G[<<n, f[n - 1]>>]
    BY <1>4
  <2>1. \A n \in 1..L : f[n] = Turn(FixableRules[n], f[n - 1], k)
    <3> TAKE n \in 1..L
    <3>1. <<n, f[n - 1]>> \in (1..L) \X Docs
      BY <1>2
    <3> QED BY <3>1
  <2> QED BY <1>2, <2>1 DEF Turn
<1>6. F = [n \in 0..L |-> IF n = 0 THEN d
                          ELSE IF Finds(FixableRules[n], F[n - 1], k)
                          THEN Repair(FixableRules[n], F[n - 1], k) ELSE F[n - 1]]
  BY <1>5
<1> HIDE DEF F, G
<1>7. /\ F[0] = d /\ DOMAIN F = 0..L /\ F = [n \in 0..L |-> F[n]]
      /\ \A n \in 1..L : F[n] = Turn(FixableRules[n], F[n - 1], k)
  BY <1>2, <1>6 DEF Turn
<1> DEFINE M == {n \in Nat : n <= L => F[n] \in Docs}
<1>8. 0 \in M
  BY <1>7
<1>9. ASSUME NEW n \in Nat, n \in M PROVE n + 1 \in M
  <2> SUFFICES ASSUME n + 1 <= L PROVE F[n + 1] \in Docs
    OBVIOUS
  <2>1. n + 1 \in 1..L /\ (n + 1) - 1 = n /\ F[n] \in Docs
    BY <1>2, <1>9
  <2>2. F[n + 1] = Turn(FixableRules[n + 1], F[n], k)
    BY <2>1, <1>7
  <2> QED BY <2>1, <2>2, TurnIsDoc
<1>10. Nat \subseteq M
  <2> HIDE DEF M
  <2> QED BY <1>8, <1>9, NatInd
<1>11. \A n \in 0..L : F[n] \in Docs
  BY <1>2, <1>10
<1> QED BY <1>1, <1>7, <1>11

LEMMA PassIsDoc ==
  ASSUME NEW d \in Docs, NEW k \in [Files -> Docs]
  PROVE  Pass(d, k) \in Docs
BY TurnsAre, Lengths DEF Pass

\* Passes is what its recursion says.
LEMMA PassesAre ==
  ASSUME NEW d \in Docs, NEW k \in [Files -> Docs]
  PROVE  /\ Passes(d, k) \in [0..MaxPasses -> Docs]
         /\ Passes(d, k)[0] = d
         /\ \A n \in 1..MaxPasses : Passes(d, k)[n] = Pass(Passes(d, k)[n - 1], k)
<1> DEFINE F == CHOOSE f : f = [n \in 0..MaxPasses |-> IF n = 0 THEN d ELSE Pass(f[n - 1], k)]
           G == [p \in (1..MaxPasses) \X Docs |-> Pass(p[2], k)]
<1>1. Passes(d, k) = F
  BY DEF Passes
<1>2. MaxPasses \in Nat
  BY FixRunAssumption
<1>3. G \in [(1..MaxPasses) \X Docs -> Docs]
  BY PassIsDoc
<1>4. \E f \in [0..MaxPasses -> Docs] :
        f[0] = d /\ \A n \in 1..MaxPasses : f[n] = G[<<n, f[n - 1]>>]
  <2> HIDE DEF G
  <2> QED BY <1>2, <1>3, Iteration
<1>5. \E f : f = [n \in 0..MaxPasses |-> IF n = 0 THEN d ELSE Pass(f[n - 1], k)]
  <2> PICK f \in [0..MaxPasses -> Docs] :
        f[0] = d /\ \A n \in 1..MaxPasses : f[n] = G[<<n, f[n - 1]>>]
    BY <1>4
  <2>1. \A n \in 1..MaxPasses : f[n] = Pass(f[n - 1], k)
    <3> TAKE n \in 1..MaxPasses
    <3>1. <<n, f[n - 1]>> \in (1..MaxPasses) \X Docs
      BY <1>2
    <3> QED BY <3>1
  <2> QED BY <1>2, <2>1
<1>6. F = [n \in 0..MaxPasses |-> IF n = 0 THEN d ELSE Pass(F[n - 1], k)]
  BY <1>5
<1> HIDE DEF F, G
<1>7. /\ F[0] = d /\ DOMAIN F = 0..MaxPasses /\ F = [n \in 0..MaxPasses |-> F[n]]
      /\ \A n \in 1..MaxPasses : F[n] = Pass(F[n - 1], k)
  BY <1>2, <1>6
<1> DEFINE M == {n \in Nat : n <= MaxPasses => F[n] \in Docs}
<1>8. 0 \in M
  BY <1>7
<1>9. ASSUME NEW n \in Nat, n \in M PROVE n + 1 \in M
  <2> SUFFICES ASSUME n + 1 <= MaxPasses PROVE F[n + 1] \in Docs
    OBVIOUS
  <2>1. n + 1 \in 1..MaxPasses /\ (n + 1) - 1 = n /\ F[n] \in Docs
    BY <1>2, <1>9
  <2>2. F[n + 1] = Pass(F[n], k)
    BY <2>1, <1>7
  <2> QED BY <2>1, <2>2, PassIsDoc
<1>10. Nat \subseteq M
  <2> HIDE DEF M
  <2> QED BY <1>8, <1>9, NatInd
<1>11. \A n \in 0..MaxPasses : F[n] \in Docs
  BY <1>2, <1>10
<1> QED BY <1>1, <1>7, <1>11

\* The rules neither look at another file nor repair by one.
ReadOwnFile ==
    /\ Independent
    /\ \A r \in Rules, d \in Docs, k, l \in [Files -> Docs] :
            Repair(r, d, k) = Repair(r, d, l)

LEMMA TurnOfAnyDisk ==
  ASSUME ReadOwnFile, NEW i \in 1..Len(FixableRules), NEW d \in Docs,
         NEW k \in [Files -> Docs], NEW l \in [Files -> Docs]
  PROVE  Turn(FixableRules[i], d, k) = Turn(FixableRules[i], d, l)
BY TurnIsDoc DEF ReadOwnFile, Independent, Turn

\* What a pass makes of a text does not depend on the disk it finds.
LEMMA TurnsOfAnyDisk ==
  ASSUME ReadOwnFile, NEW d \in Docs,
         NEW k \in [Files -> Docs], NEW l \in [Files -> Docs]
  PROVE  Turns(d, k) = Turns(d, l)
<1> DEFINE L == Len(FixableRules)
           A == Turns(d, k)
           B == Turns(d, l)
           M == {n \in Nat : n <= L => A[n] = B[n]}
<1>1. L \in Nat
  BY Lengths
<1>2. /\ A \in [0..L -> Docs] /\ B \in [0..L -> Docs] /\ A[0] = d /\ B[0] = d
      /\ \A n \in 1..L : A[n] = Turn(FixableRules[n], A[n - 1], k)
      /\ \A n \in 1..L : B[n] = Turn(FixableRules[n], B[n - 1], l)
  BY TurnsAre
<1> HIDE DEF A, B
<1>3. 0 \in M
  BY <1>2
<1>4. ASSUME NEW n \in Nat, n \in M PROVE n + 1 \in M
  <2> SUFFICES ASSUME n + 1 <= L PROVE A[n + 1] = B[n + 1]
    OBVIOUS
  <2>1. n + 1 \in 1..L /\ (n + 1) - 1 = n /\ n \in 0..L /\ A[n] = B[n]
    BY <1>1, <1>4
  <2>2. /\ A[n + 1] = Turn(FixableRules[n + 1], A[n], k)
        /\ B[n + 1] = Turn(FixableRules[n + 1], B[n], l)
    BY <1>2, <2>1
  <2>3. A[n] \in Docs
    BY <1>2, <2>1
  <2> QED BY <2>1, <2>2, <2>3, TurnOfAnyDisk
<1>5. Nat \subseteq M
  <2> HIDE DEF M
  <2> QED BY <1>3, <1>4, NatInd
<1>6. \A n \in 0..L : A[n] = B[n]
  BY <1>1, <1>5
<1>7. A = B
  BY <1>2, <1>6
<1> QED BY <1>7 DEF A, B

LEMMA PassesOfAnyDisk ==
  ASSUME ReadOwnFile, NEW d \in Docs,
         NEW k \in [Files -> Docs], NEW l \in [Files -> Docs]
  PROVE  Passes(d, k) = Passes(d, l)
<1> DEFINE A == Passes(d, k)
           B == Passes(d, l)
           M == {n \in Nat : n <= MaxPasses => A[n] = B[n]}
<1>1. MaxPasses \in Nat
  BY FixRunAssumption
<1>2. /\ A \in [0..MaxPasses -> Docs] /\ B \in [0..MaxPasses -> Docs] /\ A[0] = d /\ B[0] = d
      /\ \A n \in 1..MaxPasses : A[n] = Pass(A[n - 1], k) /\ B[n] = Pass(B[n - 1], l)
  BY PassesAre
<1> HIDE DEF A, B
<1>3. 0 \in M
  BY <1>2
<1>4. ASSUME NEW n \in Nat, n \in M PROVE n + 1 \in M
  <2> SUFFICES ASSUME n + 1 <= MaxPasses PROVE A[n + 1] = B[n + 1]
    OBVIOUS
  <2>1. n + 1 \in 1..MaxPasses /\ (n + 1) - 1 = n /\ n \in 0..MaxPasses /\ A[n] = B[n]
    BY <1>1, <1>4
  <2>2. A[n + 1] = Pass(A[n], k) /\ B[n + 1] = Pass(B[n], l) /\ A[n] \in Docs
    BY <1>2, <2>1
  <2> QED BY <2>1, <2>2, TurnsOfAnyDisk DEF Pass
<1>5. Nat \subseteq M
  <2> HIDE DEF M
  <2> QED BY <1>3, <1>4, NatInd
<1>6. \A n \in 0..MaxPasses : A[n] = B[n]
  BY <1>1, <1>5
<1>7. A = B
  <2>1. A = [n \in 0..MaxPasses |-> A[n]] /\ B = [n \in 0..MaxPasses |-> B[n]]
    BY <1>2
  <2> QED BY <2>1, <1>6
<1> QED BY <1>7 DEF A, B

-----------------------------------------------------------------------------
\* Where the run is in the passes of a file, and what the files behind it hold.
Stable(s, d) == Settles(s, SomeDisk) => Pass(d, SomeDisk) = d

PassInv ==
    /\ pc = "passes" =>
        /\ turn >= 1 /\ pass >= 1
        /\ current = Turns(start, SomeDisk)[turn - 1]
        /\ start = Passes(source, SomeDisk)[pass - 1]
        /\ \A n \in 1..(pass - 1) :
            Passes(source, SomeDisk)[n] # Passes(source, SomeDisk)[n - 1]
    /\ pc \in {"create", "fill", "rename", "recheck"} => Stable(source, current)
    /\ (saves = 0 /\ pc # "killed") =>
        /\ pc \in Working => source = given[Path]
        /\ \A i \in 1..Len(Paths) : i < next =>
            \/ Paths[i] \in Ignored \cup failed
            \/ Stable(given[Paths[i]], disk[Paths[i]])

LEMMA SomeDiskIsDisk ==
  ASSUME disk \in [Files -> Docs] PROVE SomeDisk \in [Files -> Docs]
BY DEF SomeDisk

LEMMA InitPassInv == Init => PassInv
BY Lengths DEF Init, PassInv, Working

LEMMA StepPassInv ==
    ASSUME ReadOwnFile, IInv, DiskInv, PassInv, [Next]_vars
    PROVE  PassInv'
<1> USE Lengths
<1>n. next \in Int /\ saves \in Nat /\ pass \in Int /\ turn \in Int
  BY DEF IInv, TypeOK
<1>w. pc \in Working => /\ next \in 1..Len(Paths) /\ Path \in Files
                        /\ source \in Docs /\ current \in Docs /\ start \in Docs
  BY PathIsFile DEF IInv, TypeOK, WriteInv, Path
<1>d. disk \in [Files -> Docs] /\ SomeDisk \in [Files -> Docs]
  BY SomeDiskIsDisk DEF IInv, TypeOK, NeverTorn
<1>1. CASE SkipIgnored
  BY <1>1, <1>n DEF SkipIgnored, NextFile, memory, report, world, PassInv,
     Stable, Working, Path, IInv, TypeOK
<1>2. CASE RefuseFile
  BY <1>2, <1>n DEF RefuseFile, NextFile, Fault, memory, PassInv, Stable,
     Working, Path, IInv, TypeOK
<1>3. CASE OpenFile
  <2> USE <1>3 DEF OpenFile, world
  <2>1. next \in 1..Len(Paths) /\ Path \in Files
    BY <1>n, PathIsFile DEF Path, IInv, TypeOK
  <2>2. disk[Path] \in Docs
    BY <2>1, <1>d
  <2>3. /\ Turns(disk[Path], SomeDisk)[0] = disk[Path]
        /\ Passes(disk[Path], SomeDisk)[0] = disk[Path]
    BY <2>2, <1>d, TurnsAre, PassesAre
  <2>4. saves = 0 => disk[Path] = given[Path]
    BY <2>1, <1>n DEF DiskInv, Pending, Untouched, Path
  <2>5. 1..(1 - 1) = {} /\ pass' - 1 = 0 /\ turn' - 1 = 0
    OBVIOUS
  <2>6. failed \subseteq failed' /\ Path' = Path
    BY DEF Path
  <2> QED BY <2>3, <2>4, <2>5, <2>6, <1>n DEF PassInv, Working, Stable
<1>4. CASE ApplyRule
  <2> USE <1>4 DEF ApplyRule, report, world
  <2>1. turn \in 1..Len(FixableRules) /\ (turn + 1) - 1 = turn
    BY <1>n DEF PassInv
  <2>2. current' = Turn(FixableRules[turn], current, disk)
    BY DEF Turn
  <2>3. start \in Docs /\ current \in Docs
    BY <1>w DEF Working
  <2>4. current' = Turn(FixableRules[turn], current, SomeDisk)
    BY <2>1, <2>2, <2>3, <1>d, TurnOfAnyDisk
  <2>5. Turns(start, SomeDisk)[turn]
            = Turn(FixableRules[turn], Turns(start, SomeDisk)[turn - 1], SomeDisk)
    BY <2>1, <2>3, <1>d, TurnsAre
  <2>6. current' = Turns(start, SomeDisk)[turn' - 1]
    BY <2>1, <2>4, <2>5 DEF PassInv
  <2>7. start = Passes(source, SomeDisk)[pass - 1] /\ pass >= 1 /\ turn' >= 1
    BY <2>1 DEF PassInv
  <2>8. \A n \in 1..(pass - 1) :
            Passes(source, SomeDisk)[n] # Passes(source, SomeDisk)[n - 1]
    BY DEF PassInv
  <2>9. /\ pc = "passes"
        /\ UNCHANGED <<pc, start, source, pass, disk, next, given, failed, saves>>
    OBVIOUS
  <2> HIDE DEF ApplyRule
  <2> QED BY <2>6, <2>7, <2>8, <2>9 DEF PassInv, Working, Stable, Path
<1>5. CASE EndPass
  <2> USE <1>5 DEF EndPass, report, world
  <2>1. /\ source \in Docs /\ start \in Docs /\ pass \in 1..MaxPasses
        /\ turn = Len(FixableRules) + 1
    BY <1>n, <1>w, FixRunAssumption DEF PassInv, Working, IInv, TypeOK
  <2>2. current = Pass(start, SomeDisk)
    BY <2>1 DEF PassInv, Pass
  <2>3. start = Passes(source, SomeDisk)[pass - 1]
    BY DEF PassInv
  <2>4. current = Passes(source, SomeDisk)[pass]
    BY <2>1, <2>2, <2>3, <1>d, PassesAre
  <2>5. CASE current = start \/ pass = MaxPasses
    <3>1. Stable(source, current)
      <4>1. CASE current = start
        BY <4>1, <2>2 DEF Stable
      <4>2. CASE current # start /\ pass = MaxPasses
        <5>1. \A n \in 1..MaxPasses :
                Passes(source, SomeDisk)[n] # Passes(source, SomeDisk)[n - 1]
          <6> TAKE n \in 1..MaxPasses
          <6>1. n \in 1..(pass - 1) \/ n = pass
            BY <4>2, <2>1
          <6> QED BY <6>1, <4>2, <2>3, <2>4 DEF PassInv
        <5> QED BY <5>1 DEF Stable, Settles
      <4> QED BY <2>5, <4>1, <4>2
    <3>2. current' = current /\ source' = source /\ pc' \in {"recheck", "create"}
          /\ UNCHANGED <<next, disk, given, failed, saves>>
      <4>1. CASE current # start /\ pass < MaxPasses
        BY <4>1, <2>5, <2>1
      <4>2. CASE ~(current # start /\ pass < MaxPasses)
        BY <4>2
      <4> QED BY <4>1, <4>2
    <3> QED BY <3>1, <3>2 DEF PassInv, Working, Stable, Path
  <2>6. CASE current # start /\ pass # MaxPasses
    <3>1. /\ start' = current /\ pass' = pass + 1 /\ turn' = 1 /\ pc' = "passes"
          /\ UNCHANGED <<source, current, next, disk, given, failed, saves>>
      BY <2>6
    <3>2. Turns(current, SomeDisk)[0] = current
      BY <1>w, <1>d, TurnsAre DEF Working
    <3>3. \A n \in 1..pass :
            Passes(source, SomeDisk)[n] # Passes(source, SomeDisk)[n - 1]
      <4> TAKE n \in 1..pass
      <4>1. n \in 1..(pass - 1) \/ n = pass
        BY <2>1
      <4> QED BY <4>1, <2>6, <2>3, <2>4 DEF PassInv
    <3>4. pass' - 1 = pass /\ turn' - 1 = 0 /\ pass' >= 1
      BY <3>1, <2>1
    <3> QED BY <3>1, <3>2, <3>3, <3>4, <2>4 DEF PassInv, Working, Stable, Path
  <2> QED BY <2>5, <2>6
<1>6. CASE CreateTemp
  BY <1>6, <1>n, <1>w DEF CreateTemp, WriteFailed, NextFile, Fault, memory,
     PassInv, Stable, Working, Path
<1>7. CASE FillTemp
  BY <1>7, <1>n, <1>w DEF FillTemp, WriteFailed, NextFile, Fault, memory,
     PassInv, Stable, Working, Path
<1>8. CASE RenameTemp
  <2> USE <1>8 DEF RenameTemp, memory
  <2>1. CASE pc' = "recheck" /\ disk' = [disk EXCEPT ![Path] = temp[Path]] /\ next' = next /\ failed' = failed
    <3>1. \A i \in 1..Len(Paths) : i < next => disk'[Paths[i]] = disk[Paths[i]]
      <4> TAKE i \in 1..Len(Paths)
      <4>1. i < next => Paths[i] # Path
        BY <1>n, <1>w, OtherPath DEF Path, Working
      <4> QED BY <2>1, <4>1, <1>d, PathIsFile
    <3> QED BY <2>1, <3>1, <1>n DEF PassInv, Stable, Working, Path
  <2>2. CASE WriteFailed /\ UNCHANGED <<disk, modified>>
    BY <2>2, <1>n, <1>w DEF WriteFailed, NextFile, Fault, PassInv, Stable,
       Working, Path
  <2> QED BY <2>1, <2>2
<1>9. CASE Recheck
  <2> USE <1>9 DEF Recheck, NextFile, memory, world
  <2>1. saves = 0 => disk[Path] = current /\ source = given[Path]
    BY DEF DiskInv, PassInv, Working
  <2>2. Stable(source, current)
    BY DEF PassInv
  <2> QED BY <2>1, <2>2, <1>n, <1>w DEF PassInv, Stable, Working, Path
<1>10. CASE Exit
  BY <1>10, <1>n DEF Exit, memory, PassInv, Stable, Working
<1>11. CASE Kill
  BY <1>11 DEF Kill, PassInv
<1>12. ASSUME NEW f \in Files, NEW d \in Docs, Save(f, d) PROVE PassInv'
  BY <1>12, <1>n DEF Save, memory, report, PassInv, Stable
<1>13. CASE UNCHANGED vars
  BY <1>13 DEF vars, memory, report, world, PassInv, Stable, Path
<1> QED
  BY <1>1, <1>2, <1>3, <1>4, <1>5, <1>6, <1>7, <1>8, <1>9, <1>10, <1>11,
     <1>12, <1>13 DEF Next, FixStep

\* When the rules read and repair one file at a time, a run that could write a
\* file leaves nothing for the next to do in it, if ten passes suffice for it
\* (applyFixPasses), whatever failed for the other files.
THEOREM SecondRunIsIdle ==
    ASSUME ReadOwnFile PROVE Spec => []FixIsIdempotent
<1>1. IInv /\ DiskInv /\ PassInv => FixIsIdempotent
  <2> SUFFICES ASSUME IInv, DiskInv, PassInv, pc = "done", saves = 0,
                      NEW i \in DOMAIN Paths, Paths[i] \notin Ignored \cup failed,
                      Settles(given[Paths[i]], disk)
               PROVE  Pass(disk[Paths[i]], disk) = disk[Paths[i]]
    BY DEF FixIsIdempotent
  <2>1. i \in 1..Len(Paths) /\ i < next
    BY Lengths, FixRunAssumption DEF DiskInv, IInv, TypeOK
  <2>2. /\ disk \in [Files -> Docs] /\ given \in [Files -> Docs]
        /\ Paths[i] \in Files /\ SomeDisk \in [Files -> Docs]
    BY <2>1, PathIsFile, SomeDiskIsDisk DEF IInv, TypeOK, NeverTorn
  <2>3. Settles(given[Paths[i]], SomeDisk)
    BY <2>2, PassesOfAnyDisk DEF Settles
  <2>4. Pass(disk[Paths[i]], SomeDisk) = Pass(disk[Paths[i]], disk)
    BY <2>2, TurnsOfAnyDisk DEF Pass
  <2> QED BY <2>1, <2>3, <2>4 DEF PassInv, Stable
<1>2. Init => PassInv
  BY InitPassInv
<1>3. IInv /\ DiskInv /\ PassInv /\ [Next]_vars => PassInv'
  BY StepPassInv
<1> QED BY <1>1, <1>2, <1>3, Invariance, DiskInvariance, PTL DEF Spec
=============================================================================
