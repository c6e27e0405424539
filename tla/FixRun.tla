------------------------------- MODULE FixRun -------------------------------
(***************************************************************************)
(* mdsmith fix (internal/fix/fix.go): Fix takes the files one after the    *)
(* other.  fixFile reads a file, applies the fixable rules in the order of *)
(* their IDs until a pass changes nothing, at most MaxPasses times, writes *)
(* the text through a temporary file and a rename, and checks it again.    *)
(* A rule may read the other files on the disk (include, catalog, links).  *)
(* System calls may fail, the process may be killed, and an editor may     *)
(* save a file meanwhile.                                                  *)
(***************************************************************************)
EXTENDS Integers, Sequences, SequencesExt, FiniteSets

CONSTANTS
    Files,
    Paths,           \* the resolved files, in order
    Ignored,         \* the files config.IsIgnored drops
    Docs,            \* texts
    InitialDisks,    \* what the disk may hold when the run starts
    Torn,            \* what a file being written holds
    NoDoc,           \* no such file
    Rules,           \* the enabled rules that could be configured
    FixableRules,    \* those with a Fix, sorted by ID
    Finds(_, _, _),  \* does rule r report text d, the disk being k?
    Repair(_, _, _), \* what its Fix makes of the text
    Usable(_),       \* prepareFile accepts the text, and it is not too large
    BadSettings,     \* the enabled rules whose settings are refused
    MaxPasses,       \* 10 in applyFixPasses
    MaxFaults,       \* bound on failing system calls
    MaxSaves         \* bound on the editor's saves

ASSUME FixRunAssumption ==
    /\ Paths \in Seq(Files)
    /\ \A i, j \in DOMAIN Paths : Paths[i] = Paths[j] => i = j
    /\ FixableRules \in Seq(Rules)
    /\ InitialDisks \subseteq [Files -> Docs]
    /\ Torn \notin Docs /\ NoDoc \notin Docs /\ Torn # NoDoc
    /\ \A r \in Rules, d \in Docs, k \in [Files -> Docs] :
            Repair(r, d, k) \in Docs
    /\ MaxPasses \in Nat \ {0}
    /\ MaxFaults \in Nat /\ MaxSaves \in Nat

VARIABLES
    disk,     \* the text of each file
    temp,     \* the temporary file beside each file
    next,     \* which path is next
    pc,
    source,   \* what fixFile read
    current,  \* the text the passes made so far
    start,    \* the text at the start of the pass
    pass,
    turn,     \* the fixable rule whose turn it is
    before,   \* the file's diagnostics before fixing
    found,    \* all of those (Result.Failures is their number)
    diags,    \* Result.Diagnostics
    modified, \* Result.Modified
    failed,   \* the files with an error in Result.Errors
    exit,     \* the process's exit code
    faults, saves,
    given     \* what each file held before this run replaced it

vars == <<disk, temp, next, pc, source, current, start, pass, turn, before,
          found, diags, modified, failed, exit, faults, saves, given>>

memory == <<source, current, start, pass, turn, before>>
report == <<found, diags, modified, failed, exit>>
world == <<faults, saves, given>>

NoExit == -1
PCs == {"open", "passes", "create", "fill", "rename", "recheck", "done",
        "killed"}

Path == Paths[next]

\* engine.CheckRules of text d as file f; deduplicated, a set says it.
CheckRules(f, d) == {f} \X {r \in Rules : Finds(r, d, disk)}

Init ==
    /\ disk \in InitialDisks
    /\ temp = [f \in Files |-> NoDoc]
    /\ next = 1
    /\ pc = "open"
    /\ source = NoDoc /\ current = NoDoc /\ start = NoDoc
    /\ pass = 0 /\ turn = 0
    /\ before = {} /\ found = {} /\ diags = {}
    /\ modified = {} /\ failed = {}
    /\ exit = NoExit
    /\ faults = 0 /\ saves = 0
    /\ given = disk

Fault == faults < MaxFaults /\ faults' = faults + 1

NextFile == next' = next + 1 /\ pc' = "open"

SkipIgnored ==
    /\ pc = "open" /\ next <= Len(Paths)
    /\ Path \in Ignored
    /\ NextFile
    /\ UNCHANGED <<disk, temp, memory, report, world>>

\* ReadFileLimited, os.Stat or prepareFile fails.
RefuseFile ==
    /\ pc = "open" /\ next <= Len(Paths)
    /\ Path \notin Ignored
    /\ \/ ~Usable(disk[Path]) /\ UNCHANGED faults
       \/ Fault
    /\ failed' = failed \cup {Path}
    /\ NextFile
    /\ UNCHANGED <<disk, temp, memory, found, diags, modified, exit, saves,
                   given>>

\* The text is read and checked, and the first pass begins.
OpenFile ==
    /\ pc = "open" /\ next <= Len(Paths)
    /\ Path \notin Ignored
    /\ Usable(disk[Path])
    /\ source' = disk[Path] /\ current' = disk[Path] /\ start' = disk[Path]
    /\ pass' = 1 /\ turn' = 1
    /\ before' = CheckRules(Path, disk[Path])
    /\ found' = found \cup before'
    /\ failed' = IF BadSettings = {} THEN failed ELSE failed \cup {Path}
    /\ pc' = "passes"
    /\ UNCHANGED <<disk, temp, next, diags, modified, exit, world>>

\* One rule of a pass, on what the rules before it made.
ApplyRule ==
    /\ pc = "passes" /\ turn <= Len(FixableRules)
    /\ LET r == FixableRules[turn] IN
       current' = IF Finds(r, current, disk) THEN Repair(r, current, disk)
                  ELSE current
    /\ turn' = turn + 1
    /\ UNCHANGED <<disk, temp, next, pc, source, start, pass, before, report,
                   world>>

EndPass_Once ==
    /\ pc = "passes" /\ turn > Len(FixableRules)
    /\ pc' = IF current = source THEN "recheck" ELSE "create"
    /\ UNCHANGED <<disk, temp, next, memory, report, world>>

\* The end of a pass: the text is stable, or the passes are used up, or one
\* more.
EndPass ==
    /\ pc = "passes" /\ turn > Len(FixableRules)
    /\ \/ /\ current = start \/ pass = MaxPasses
          /\ pc' = IF current = source THEN "recheck" ELSE "create"
          /\ UNCHANGED <<start, pass, turn>>
       \/ /\ current # start /\ pass < MaxPasses
          /\ start' = current /\ pass' = pass + 1 /\ turn' = 1
          /\ UNCHANGED pc
    /\ UNCHANGED <<disk, temp, next, source, current, before, report, world>>

\* fixFile after atomicWriteFile failed: the file keeps its text, and the
\* report its first diagnostics.
WriteFailed_Rechecks ==
    /\ Fault
    /\ failed' = failed \cup {Path}
    /\ diags' = diags \cup CheckRules(Path, current)
    /\ NextFile

WriteFailed ==
    /\ Fault
    /\ failed' = failed \cup {Path}
    /\ diags' = diags \cup before
    /\ NextFile

\* atomicWriteFile up to CreateTemp.
CreateTemp ==
    /\ pc = "create"
    /\ \/ /\ temp' = [temp EXCEPT ![Path] = Torn]
          /\ pc' = "fill"
          /\ UNCHANGED <<next, failed, diags, faults>>
       \/ /\ WriteFailed
          /\ UNCHANGED temp
    /\ UNCHANGED <<disk, memory, found, modified, exit, saves, given>>

FillTemp_InPlace ==
    /\ pc = "fill"
    /\ disk' = [disk EXCEPT ![Path] = Torn]
    /\ temp' = [temp EXCEPT ![Path] = current]
    /\ pc' = "rename"
    /\ UNCHANGED <<next, memory, report, world>>

\* Write, Sync, Close and Chmod; the deferred Remove runs when one fails.
FillTemp ==
    /\ pc = "fill"
    /\ \/ /\ temp' = [temp EXCEPT ![Path] = current]
          /\ pc' = "rename"
          /\ UNCHANGED <<next, failed, diags, faults>>
       \/ /\ WriteFailed
          /\ temp' = [temp EXCEPT ![Path] = NoDoc]
    /\ UNCHANGED <<disk, memory, found, modified, exit, saves, given>>

\* os.Rename.
RenameTemp ==
    /\ pc = "rename"
    /\ \/ /\ disk' = [disk EXCEPT ![Path] = temp[Path]]
          /\ modified' = modified \cup {Path}
          /\ pc' = "recheck"
          /\ UNCHANGED <<next, failed, diags, faults>>
       \/ /\ WriteFailed
          /\ UNCHANGED <<disk, modified>>
    /\ temp' = [temp EXCEPT ![Path] = NoDoc]
    /\ UNCHANGED <<memory, found, exit, saves, given>>

\* buildPostFixFile and the last CheckRules.
Recheck ==
    /\ pc = "recheck"
    /\ diags' = diags \cup CheckRules(Path, current)
    /\ NextFile
    /\ UNCHANGED <<disk, temp, memory, found, modified, failed, exit, world>>

\* fixFiles and fixDiscovered after Fix: the diagnostics may be impossible to
\* write.
Exit ==
    /\ pc = "open" /\ next > Len(Paths)
    /\ \/ /\ exit' = IF diags # {} THEN 1 ELSE IF failed # {} THEN 2 ELSE 0
          /\ UNCHANGED faults
       \/ /\ diags # {} /\ Fault
          /\ exit' = 2
    /\ pc' = "done"
    /\ UNCHANGED <<disk, temp, next, memory, found, diags, modified, failed,
                   saves, given>>

Kill ==
    /\ pc \notin {"done", "killed"}
    /\ pc' = "killed"
    /\ UNCHANGED <<disk, temp, next, memory, report, world>>

\* Another program replaces a file.
Save(f, d) ==
    /\ pc \notin {"done", "killed"}
    /\ saves < MaxSaves
    /\ saves' = saves + 1
    /\ disk' = [disk EXCEPT ![f] = d]
    /\ given' = [given EXCEPT ![f] = d]
    /\ UNCHANGED <<temp, next, pc, memory, report, faults>>

FixStep ==
    \/ SkipIgnored \/ RefuseFile \/ OpenFile \/ ApplyRule \/ EndPass
    \/ CreateTemp \/ FillTemp \/ RenameTemp \/ Recheck \/ Exit

Next == FixStep \/ Kill \/ \E f \in Files, d \in Docs : Save(f, d)

Spec == Init /\ [][Next]_vars

-----------------------------------------------------------------------------
Diagnostics == Files \X Rules

TypeOK ==
    /\ disk \in [Files -> Docs \cup {Torn}]
    /\ temp \in [Files -> Docs \cup {Torn, NoDoc}]
    /\ next \in 1..(Len(Paths) + 1)
    /\ pc \in PCs
    /\ source \in Docs \cup {NoDoc} /\ current \in Docs \cup {NoDoc}
    /\ start \in Docs \cup {NoDoc}
    /\ pass \in 0..MaxPasses
    /\ turn \in 0..(Len(FixableRules) + 1)
    /\ before \subseteq Diagnostics /\ found \subseteq Diagnostics
    /\ diags \subseteq Diagnostics
    /\ modified \subseteq Files /\ failed \subseteq Files
    /\ exit \in {NoExit, 0, 1, 2}
    /\ faults \in 0..MaxFaults /\ saves \in 0..MaxSaves
    /\ given \in [Files -> Docs]

\* At every moment, so also after a crash, a file on the disk is a whole text:
\* what the user had, or everything the passes made of it (atomicWriteFile).
NeverTorn == \A f \in Files : disk[f] \in Docs

\* A run that ends, whatever failed, leaves no temporary file behind
\* (atomicWriteFile's deferred Remove).
NoTempLeft == pc = "done" => \A f \in Files : temp[f] = NoDoc

\* The files a run says it modified are exactly those it changed on the disk:
\* fixFile returns the path only after the rename, and writes nothing when the
\* passes gave the text back.
ModifiedIsChanged ==
    (pc = "done" /\ saves = 0) =>
        modified = {f \in Files : disk[f] # given[f]}

\* When the rules read one file at a time, the diagnostics a run reports are
\* those of the text now on the disk, for every file it could read: the fixed
\* text's when it was written, the first ones when the write failed.
ReportMatchesDisk ==
    (pc = "done" /\ saves = 0) =>
        \A i \in DOMAIN Paths :
            LET f == Paths[i] IN
            \/ f \in Ignored
            \/ f \in failed /\ {d \in diags : d[1] = f} = {}
            \/ {d \in diags : d[1] = f} = CheckRules(f, disk[f])

\* A text after each rule of a pass on disk k, and after the whole pass.
Turns(d, k) ==
    LET after[n \in 0..Len(FixableRules)] ==
            IF n = 0 THEN d
            ELSE IF Finds(FixableRules[n], after[n - 1], k)
            THEN Repair(FixableRules[n], after[n - 1], k) ELSE after[n - 1]
    IN after
Pass(d, k) == Turns(d, k)[Len(FixableRules)]

\* A text after each pass.
Passes(d, k) ==
    LET after[n \in 0..MaxPasses] == IF n = 0 THEN d ELSE Pass(after[n - 1], k)
    IN after

\* The passes suffice for a text: one of them changes nothing.
Settles(d, k) == \E n \in 1..MaxPasses : Passes(d, k)[n] = Passes(d, k)[n - 1]

\* A run that could write all files leaves nothing for a second run to do in a
\* file for which the passes suffice: whatever other rules did to it after a
\* rule's turn, that rule would now give the text back (applyFixPasses).
FixIsIdempotent ==
    (pc = "done" /\ saves = 0) =>
        \A f \in {Paths[i] : i \in DOMAIN Paths} \ (Ignored \cup failed) :
            Settles(given[f], disk) => Pass(disk[f], disk) = disk[f]
=============================================================================
