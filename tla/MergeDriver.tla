----------------------------- MODULE MergeDriver -----------------------------
(***************************************************************************)
(* mdsmith merge-driver run (cmd/mdsmith/mergedriver.go), which git calls  *)
(* for a file of a merge with the names of three temporary files and the   *)
(* file's pathname: merge into "ours", strip the conflict markers inside   *)
(* generated sections, write the result to the pathname, run fix there,    *)
(* read the fixed text, put the pathname back, and write the fixed text to *)
(* ours.  Any system call may fail, and the process may be killed.         *)
(***************************************************************************)
EXTENDS ConflictMarkers

CONSTANTS
    Text,       \* lines of text
    Jobs,       \* what a run may be given
    Absent,     \* the content of a file that does not exist
    Torn,       \* the content of a file whose writing failed
    MaxFaults   \* bound on failing system calls

\* A job holds the two sides, what git merge-file makes of them, what the
\* pathname holds, and how fix works there: "regenerates" the sections, is
\* "disabled" for them (the rule is off, or the file ignored), is "refused"
\* (an error), or leaves a text that is "tooBig" to be read.
Fixes == {"regenerates", "disabled", "refused", "tooBig"}

ASSUME MergeDriverAssumption ==
    /\ MaxFaults \in Nat
    /\ \A j \in Jobs : j.fix \in Fixes
    /\ \A j \in Jobs : j.path # Torn

\* What git gives the driver: two sides whose sections follow one another and
\* in which no conflict was left, with "old" for the lines of a section and
\* "prose" for those around it; and as their merge one of them, or one
\* conflict, in the style "diff3" with the base's lines.
Old == {"old1", "old2"}
Prosaic == {"prose1", "prose2", "sep"}

Placed(D, u) ==
    \A i \in 1..Len(u) : (u[i] \in Old => D[i]) /\ (u[i] \in Prosaic => ~D[i])

IsSide(u) ==
    /\ u \in Document(Text)
    /\ \A i \in 1..Len(u) : u[i] \notin {"open", "close"}
    /\ \E D \in [0..Len(u) -> BOOLEAN] : Sections(D, u) /\ Placed(D, u)

IsBase(base) ==
    /\ base \in Document(Text)
    /\ \A i \in 1..Len(base) : base[i] \notin SectionMarkers \cup {"open", "close"}

IsMerge(j) ==
    /\ IsSide(j.ours) /\ IsSide(j.theirs)
    /\ \/ j.merged \in {j.ours, j.theirs}
       \/ /\ j.ours # j.theirs
          /\ \E i \in 1..Len(j.merged), k \in 0..Len(j.merged) :
                LET base == SubSeq(j.merged, i, k) IN
                IsBase(base) /\ j.merged = Conflict(j.ours, j.theirs, base)

ASSUME GitMerges == \A j \in Jobs : IsMerge(j)

VARIABLES
    job,
    pc,
    ours,     \* git's temporary file, which takes the result
    path,     \* the content of the pathname
    cleaned,  \* the merge without the markers in sections
    backup,   \* what the pathname held
    fixErr,   \* did fix fail?
    fixed,    \* the text read after fix
    exit,
    faults

vars == <<job, pc, ours, path, cleaned, backup, fixErr, fixed, exit, faults>>

PCs == {"merge", "strip", "backup", "place", "fix", "read", "restore", "write",
        "conclude", "done", "killed"}
NoExit == -1
Unset == <<>>

Init ==
    /\ job \in Jobs
    /\ pc = "merge"
    /\ ours = job.ours
    /\ path = job.path
    /\ cleaned = Unset /\ backup = Unset /\ fixed = Unset
    /\ fixErr = "none"
    /\ exit = NoExit
    /\ faults = 0

Fault == faults < MaxFaults /\ faults' = faults + 1
Quit(code) == exit' = code /\ pc' = "done"

\* A write with os.WriteFile: it fails before or after it emptied the file.
WriteFails(content) == content' \in {content, Torn}

\* mergeAndClean, step 1: git writes the merge to ours, or fails.
MergeFile ==
    /\ pc = "merge"
    /\ \/ /\ ours' = job.merged
          /\ pc' = "strip"
          /\ UNCHANGED <<exit, faults>>
       \/ Fault /\ Quit(2) /\ UNCHANGED ours
    /\ UNCHANGED <<job, path, cleaned, backup, fixErr, fixed>>

\* Step 2.
StripConflicts ==
    /\ pc = "strip"
    /\ \/ /\ cleaned' = StripSectionConflicts(ours)
          /\ ours' = cleaned'
          /\ pc' = "backup"
          /\ UNCHANGED <<exit, faults>>
       \/ Fault /\ Quit(2) /\ WriteFails(ours) /\ UNCHANGED cleaned
    /\ UNCHANGED <<job, path, backup, fixErr, fixed>>

\* fixAtRealPath: a pathname that does not exist is no error.
Backup ==
    /\ pc = "backup"
    /\ \/ /\ backup' = path
          /\ pc' = "place"
          /\ UNCHANGED <<exit, faults>>
       \/ Fault /\ Quit(2) /\ UNCHANGED backup
    /\ UNCHANGED <<job, ours, path, cleaned, fixErr, fixed>>

PlaceCleaned ==
    /\ pc = "place"
    /\ \/ /\ path' = cleaned
          /\ pc' = "fix"
          /\ UNCHANGED <<exit, faults>>
       \/ Fault /\ Quit(2) /\ WriteFails(path)
    /\ UNCHANGED <<job, ours, cleaned, backup, fixErr, fixed>>

\* fixFileInPlace; fix replaces the file as a whole, or leaves it.
FixInPlace ==
    /\ pc = "fix"
    /\ \/ /\ job.fix \in {"regenerates", "tooBig"}
          /\ path' = Regenerate(path)
          /\ UNCHANGED <<fixErr, faults>>
       \/ /\ job.fix = "disabled"
          /\ UNCHANGED <<path, fixErr, faults>>
       \/ /\ \/ job.fix = "refused" /\ UNCHANGED faults
             \/ Fault
          /\ fixErr' = "error"
          /\ UNCHANGED path
    /\ pc' = "read"
    /\ UNCHANGED <<job, ours, cleaned, backup, fixed, exit>>

\* readAndRestore up to the read.
ReadFixed ==
    /\ pc = "read"
    /\ \/ /\ job.fix # "tooBig" \/ fixErr = "error"
          /\ fixed' = path
          /\ pc' = "restore"
          /\ UNCHANGED <<exit, faults>>
       \/ /\ \/ job.fix = "tooBig" /\ fixErr = "none" /\ UNCHANGED faults
             \/ Fault
          /\ Quit(2)
          /\ UNCHANGED fixed
    /\ UNCHANGED <<job, ours, path, cleaned, backup, fixErr>>

Restore_Never ==
    /\ pc = "restore"
    /\ IF fixErr = "error" THEN Quit(2) ELSE pc' = "write" /\ UNCHANGED exit
    /\ UNCHANGED <<job, ours, path, cleaned, backup, fixErr, fixed, faults>>

\* The rest of readAndRestore: the backup is written, or the file removed; then
\* an error of fix ends the run.
Restore ==
    /\ pc = "restore"
    /\ \/ /\ path' = backup
          /\ IF fixErr = "error" THEN Quit(2) ELSE pc' = "write" /\ UNCHANGED exit
          /\ UNCHANGED faults
       \/ Fault /\ Quit(2) /\ WriteFails(path)
    /\ UNCHANGED <<job, ours, cleaned, backup, fixErr, fixed>>

WriteOurs_Cleaned ==
    /\ pc = "write"
    /\ ours' = cleaned
    /\ pc' = "conclude"
    /\ UNCHANGED <<job, path, cleaned, backup, fixErr, fixed, exit, faults>>

\* The end of fixAtRealPath.
WriteOurs ==
    /\ pc = "write"
    /\ \/ /\ ours' = fixed
          /\ pc' = "conclude"
          /\ UNCHANGED <<exit, faults>>
       \/ Fault /\ Quit(2) /\ WriteFails(ours)
    /\ UNCHANGED <<job, path, cleaned, backup, fixErr, fixed>>

\* Step 4.
Conclude ==
    /\ pc = "conclude"
    /\ Quit(IF HasConflictMarkers(fixed) THEN 1 ELSE 0)
    /\ UNCHANGED <<job, ours, path, cleaned, backup, fixErr, fixed, faults>>

Kill ==
    /\ pc \notin {"done", "killed"}
    /\ pc' = "killed"
    /\ UNCHANGED <<job, ours, path, cleaned, backup, fixErr, fixed, exit, faults>>

Next ==
    \/ MergeFile \/ StripConflicts \/ Backup \/ PlaceCleaned \/ FixInPlace
    \/ ReadFixed \/ Restore \/ WriteOurs \/ Conclude \/ Kill

Spec == Init /\ [][Next]_vars

-----------------------------------------------------------------------------
Contents == Document(Text \cup {"new"}) \cup {Absent, Torn}

TypeOK ==
    /\ job \in Jobs
    /\ pc \in PCs
    /\ ours \in Contents /\ path \in Contents
    /\ cleaned \in Contents /\ backup \in Contents /\ fixed \in Contents
    /\ fixErr \in {"none", "error"}
    /\ exit \in {NoExit, 0, 1, 2}
    /\ faults \in 0..MaxFaults

\* A run that ends with a merge, clean or with conflicts, leaves the file in
\* the working tree as git had it, also one that did not exist, and ours holds
\* the fixed text (fixAtRealPath, readAndRestore).
WorkTreeRestored ==
    exit \in {0, 1} => path = job.path /\ ours = fixed

\* Success means that git is given no conflict marker (hasConflictMarkers).
NoMarkersOnSuccess ==
    exit = 0 => \A i \in DOMAIN ours : ours[i] \notin {"open", "close"}

\* A conflict about nothing but the lines of one section is resolved, and the
\* result is what fix makes of either side.
SectionConflictIsResolved ==
    LET h == Hunk(job.ours, job.theirs) IN
    (/\ exit \in {0, 1} /\ job.fix = "regenerates"
     /\ job.merged \notin {job.ours, job.theirs}
     /\ \A i \in DOMAIN h.ours : h.ours[i] \in Old
     /\ \A i \in DOMAIN h.theirs : h.theirs[i] \in Old)
    => exit = 0 /\ ours = Regenerate(job.ours) /\ ours = Regenerate(job.theirs)

\* A conflict about prose alone is left to the user as git wrote it: the run
\* reports it, and its markers and its lines are there, with those of a
\* heading underlined with equals signs.
ProseConflictIsKept ==
    LET h == Hunk(job.ours, job.theirs) IN
    (/\ exit \in {0, 1} /\ job.fix = "regenerates"
     /\ job.merged \notin {job.ours, job.theirs}
     /\ \A i \in DOMAIN h.ours : h.ours[i] \in Prosaic
     /\ \A i \in DOMAIN h.theirs : h.theirs[i] \in Prosaic)
    => exit = 1 /\ ours = Regenerate(job.merged)
=============================================================================
