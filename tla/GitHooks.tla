------------------------------ MODULE GitHooks ------------------------------
(***************************************************************************)
(* The git integration: the git-hook-sync rule, whose Check and Fix run in *)
(* the workers of one process at a time (the editor's server, or one run   *)
(* of fix) with a cache of the drift and a record of a failed git add; and *)
(* mdsmith merge-driver install and pre-merge-commit install / uninstall,  *)
(* which write the same files from a process of their own.  The user edits *)
(* the files at any time, system calls fail, processes are killed.         *)
(***************************************************************************)
EXTENDS SequencesExt, Naturals, FiniteSets

CONSTANTS
    Texts,            \* patterns, and what the user's own lines say
    Includes,         \* the patterns of DefaultIncludes, in order
    Unrepresentable,  \* patterns with a "!" or white space
    Hashed,           \* patterns that begin with "#"
    Linters,       \* workers that only check
    Fixer,         \* the worker that checks, and fixes what it finds
    Ignores,       \* the ignore lists of .mdsmith.yml
    Files,         \* what a user may leave in .gitattributes
    Scopes,        \* the patterns that an install may be given
    MaxEdits, MaxInstalls, MaxFaults, MaxRestarts   \* bounds

-----------------------------------------------------------------------------
(* The managed block of .gitattributes: where it is, what it should hold    *)
(* for a list of ignore patterns, what is read from it and the file that    *)
(* writing it leaves.  A file is a sequence of lines, and a line is a       *)
(* record of what it says and of the pattern it says it for.                *)

Kinds == {"begin", "end", "set", "unset", "comment", "other"}
Lines(kinds) == [kind : kinds, pattern : Texts]
Line(kind, pattern) == [kind |-> kind, pattern |-> pattern]
Begin == Line("begin", "")
End == Line("end", "")

\* What a written attribute is when the file is read again: a line that
\* begins with "#" is a comment.
Attribute(kind, pattern) == Line(IF pattern \in Hashed THEN "comment" ELSE kind, pattern)

\* The elements of a sequence that are in a set, in their order.
Keep(seq, S) ==
    LET kept[i \in 0..Len(seq)] ==
          IF i = 0 THEN <<>>
          ELSE IF seq[i] \in S THEN Append(kept[i - 1], seq[i]) ELSE kept[i - 1]
    IN  kept[Len(seq)]

DefaultGlobs == [include |-> Includes, exclude |-> <<>>]

\* A pattern that .gitattributes cannot express is left out.
GlobsFromConfig(ignore) ==
    [DefaultGlobs EXCEPT !.exclude = Keep(ignore, Texts \ Unrepresentable)]

FindBegin(file) == SelectInSeq(file, LAMBDA l : l = Begin)

\* The line after the block: that of its end, or of the end of the file.
FindAfter(file) ==
    LET from == FindBegin(file)
        end == SelectInSubSeq(file, from, Len(file), LAMBDA l : l = End)
    IN  IF end = 0 THEN Len(file) + 1 ELSE end + 1

HasBlock(file) == FindBegin(file) # 0
Before(file) == SubSeq(file, 1, FindBegin(file) - 1)
After(file) == SubSeq(file, FindAfter(file), Len(file))

\* The patterns of a kind between the markers of the block.
Patterns(kind, file) ==
    LET from == FindBegin(file)
        to == FindAfter(file) - 1
        found[i \in 0..to] ==
          IF i < from THEN <<>>
          ELSE IF file[i].kind = kind THEN Append(found[i - 1], file[i].pattern) ELSE found[i - 1]
    IN  found[to]

ExtractGlobs(file) == [include |-> Patterns("set", file), exclude |-> Patterns("unset", file)]

GlobsEqual(a, b) == a = b

\* The block says what the configuration asks for.
InSync(file, globs) == HasBlock(file) /\ GlobsEqual(ExtractGlobs(file), globs)

RenderManagedBlock(globs) ==
    <<Begin>>
    \o [i \in DOMAIN globs.include |-> Attribute("set", globs.include[i])]
    \o [i \in DOMAIN globs.exclude |-> Attribute("unset", globs.exclude[i])]
    \o <<End>>

StripStale(lines) == Keep(lines, Lines(Kinds \ {"set"}))

WithBlock_Appended(file, globs) == StripStale(file) \o RenderManagedBlock(globs)

WithBlock_ToEnd(file, globs) ==
    IF HasBlock(file)
    THEN StripStale(Before(file)) \o RenderManagedBlock(globs)
    ELSE StripStale(file) \o RenderManagedBlock(globs)

\* The content WriteGitattributes gives the file.
WithBlock(file, globs) ==
    IF HasBlock(file)
    THEN StripStale(Before(file)) \o RenderManagedBlock(globs) \o StripStale(After(file))
    ELSE StripStale(file) \o RenderManagedBlock(globs)

-----------------------------------------------------------------------------
\* A hook is absent, the user's own, managed by an old template, torn by a
\* write that did not end, or current.
HookStates == {"absent", "user", "old", "torn", "current"}
Managed == {"old", "current"}

Workers == Linters \cup {Fixer}

ASSUME GitHooksAssumption ==
    /\ Fixer \notin Linters
    /\ {MaxEdits, MaxInstalls, MaxFaults, MaxRestarts} \subseteq Nat

\* Files have lines and lists have patterns; no default pattern is a comment.
ASSUME GitHooksTypes ==
    /\ "" \in Texts
    /\ Files \subseteq Seq(Lines(Kinds))
    /\ Ignores \subseteq Seq(Texts) /\ Scopes \subseteq Seq(Texts)
    /\ Includes \in Seq(Texts \ Hashed)

VARIABLES
    ignore,      \* the ignore list of .mdsmith.yml
    driver,      \* is merge.mdsmith.driver registered?
    attrs,       \* .gitattributes in the working tree
    hook,        \* the pre-merge-commit hook
    cache,       \* driftCache
    stagingErr,  \* stagingErrors
    worker,      \* what each worker does, and what it has read
    install,     \* what the installing process does, and what it has read
    edits, installs, faults, restarts

repo == <<ignore, driver, attrs, hook>>
memory == <<cache, stagingErr>>
counts == <<edits, installs, faults, restarts>>
vars == <<repo, memory, worker, install, counts>>

Uncached == {"uncached"}
IdleWorker == [pc |-> "lookup", hasDriver |-> FALSE, hook |-> "absent",
               parts |-> {}, globs |-> DefaultGlobs, read |-> <<>>]
IdleInstall == [pc |-> "idle", globs |-> DefaultGlobs, read |-> <<>>]

Init ==
    /\ ignore \in Ignores
    /\ driver \in BOOLEAN
    /\ attrs \in Files
    /\ hook = "absent"
    /\ cache = Uncached
    /\ stagingErr = FALSE
    /\ worker = [w \in Workers |-> IdleWorker]
    /\ install = IdleInstall
    /\ edits = 0 /\ installs = 0 /\ faults = 0 /\ restarts = 0

At(w, pc) == worker[w].pc = pc
Goto(w, pc) == worker' = [worker EXCEPT ![w].pc = pc]
Gives(w, pc) == worker' = [worker EXCEPT ![w] = [IdleWorker EXCEPT !.pc = pc]]
Fault == faults < MaxFaults /\ faults' = faults + 1 /\ UNCHANGED <<edits, installs, restarts>>

-----------------------------------------------------------------------------
\* The end of Check: a failed git add is a finding too.  Only the fixer goes
\* on, and only when there is a finding.
Concludes(w, parts) ==
    worker' = [worker EXCEPT ![w] =
        IF w = Fixer /\ (parts # {} \/ stagingErr)
        THEN [IdleWorker EXCEPT !.pc = "decide"] ELSE IdleWorker]

\* driftParts, first lock: a cached answer is used as it is.
Lookup(w) ==
    /\ At(w, "lookup")
    /\ IF cache = Uncached THEN Goto(w, "probe") ELSE Concludes(w, cache)
    /\ UNCHANGED <<repo, memory, install, counts>>

\* The two cheap questions; without a driver or a hook of ours there is no
\* drift to look for.
Probe(w) ==
    /\ At(w, "probe")
    /\ worker' = [worker EXCEPT ![w].pc = IF ~driver /\ hook \notin Managed THEN "store" ELSE "inspect",
                                ![w].hasDriver = driver]
    /\ UNCHANGED <<repo, memory, install, counts>>

\* mergeDriverDrift and preMergeCommitHookDrift.
Drift(hasDriver) ==
    (IF hasDriver /\ ~InSync(attrs, GlobsFromConfig(ignore)) THEN {"attributes"} ELSE {})
    \cup (IF hook = "old" THEN {"hook"} ELSE {})

Inspect(w) ==
    /\ At(w, "inspect")
    /\ worker' = [worker EXCEPT ![w].pc = "store", ![w].hasDriver = FALSE,
                                ![w].parts = Drift(worker[w].hasDriver)]
    /\ UNCHANGED <<repo, memory, install, counts>>

\* The second lock.
Store(w) ==
    /\ At(w, "store")
    /\ cache' = worker[w].parts
    /\ Concludes(w, cache')
    /\ UNCHANGED <<repo, stagingErr, install, counts>>

-----------------------------------------------------------------------------
\* Fix: nothing to repair without a driver; a file in sync is only staged
\* again when the last git add failed.
Decide ==
    /\ At(Fixer, "decide")
    /\ LET globs == GlobsFromConfig(ignore) IN
       worker' = [worker EXCEPT
          ![Fixer].globs = globs,
          ![Fixer].pc = IF ~driver THEN "drop"
                        ELSE IF ~InSync(attrs, globs) THEN "read"
                        ELSE IF stagingErr THEN "stage" ELSE "drop"]
    /\ UNCHANGED <<repo, memory, install, counts>>

\* WriteGitattributes reads the file again, or fails.
ReadAttributes ==
    /\ At(Fixer, "read")
    /\ \/ /\ worker' = [worker EXCEPT ![Fixer].pc = "rename", ![Fixer].read = attrs]
          /\ UNCHANGED counts
       \/ Fault /\ Gives(Fixer, "drop")
    /\ UNCHANGED <<repo, memory, install>>

\* writeGitattributesFile: the file is replaced as a whole, or left.
RenameAttributes ==
    /\ At(Fixer, "rename")
    /\ \/ /\ attrs' = WithBlock(worker[Fixer].read, worker[Fixer].globs)
          /\ Gives(Fixer, "stage")
          /\ UNCHANGED counts
       \/ Fault /\ Gives(Fixer, "drop") /\ UNCHANGED attrs
    /\ UNCHANGED <<ignore, driver, hook, memory, install>>

\* stage: git add, and what came of it.
Stage ==
    /\ At(Fixer, "stage")
    /\ \/ stagingErr' = FALSE /\ UNCHANGED counts
       \/ Fault /\ stagingErr' = TRUE
    /\ Gives(Fixer, "drop")
    /\ UNCHANGED <<ignore, driver, attrs, hook, cache, install>>

DropCache_Kept ==
    /\ At(Fixer, "drop")
    /\ worker' = [worker EXCEPT ![Fixer] = IdleWorker]
    /\ UNCHANGED <<repo, memory, install, counts>>

\* Fix's deferred function.
DropCache ==
    /\ At(Fixer, "drop")
    /\ cache' = Uncached
    /\ worker' = [worker EXCEPT ![Fixer] = IdleWorker]
    /\ UNCHANGED <<repo, stagingErr, install, counts>>

\* The process ends or is killed, and another one begins.
Restart ==
    /\ restarts < MaxRestarts
    /\ restarts' = restarts + 1
    /\ cache' = Uncached
    /\ stagingErr' = FALSE
    /\ worker' = [w \in Workers |-> IdleWorker]
    /\ UNCHANGED <<repo, install, edits, installs, faults>>

-----------------------------------------------------------------------------
InstallAt(pc) == install.pc = pc
Installs(pc) == install' = [install EXCEPT !.pc = pc]
Ends == install' = IdleInstall

\* runMergeDriverInstall: the driver is registered first; a configuration that
\* does not load or a call that fails ends the install with what it has done.
RegisterDriver ==
    /\ InstallAt("idle") /\ installs < MaxInstalls
    /\ installs' = installs + 1
    /\ driver' = TRUE
    /\ Installs("globs")
    /\ UNCHANGED <<ignore, attrs, hook, memory, worker, edits, faults, restarts>>

ResolveGlobs ==
    /\ InstallAt("globs")
    /\ \/ /\ \E scope \in Scopes :
                install' = [pc |-> "rename", read |-> attrs,
                            globs |-> IF scope = <<>> THEN GlobsFromConfig(ignore)
                                      ELSE [GlobsFromConfig(ignore) EXCEPT !.include = scope]]
          /\ UNCHANGED counts
       \/ Fault /\ Ends
    /\ UNCHANGED <<repo, memory, worker>>

InstallAttributes ==
    /\ InstallAt("rename")
    /\ \/ /\ attrs' = WithBlock(install.read, install.globs)
          /\ install' = [IdleInstall EXCEPT !.pc = "hook"]
          /\ UNCHANGED counts
       \/ Fault /\ Ends /\ UNCHANGED attrs
    /\ UNCHANGED <<ignore, driver, hook, memory, worker>>

\* pre-merge-commit install begins here.
InstallHookOnly ==
    /\ InstallAt("idle") /\ installs < MaxInstalls
    /\ installs' = installs + 1
    /\ Installs("hook")
    /\ UNCHANGED <<repo, memory, worker, edits, faults, restarts>>

\* ensurePreMergeCommitHook: a hook that does not carry the marker is refused;
\* the hook is emptied before it is written.
TruncateHook ==
    /\ InstallAt("hook")
    /\ IF hook \in Managed \cup {"absent"}
       THEN hook' = "torn" /\ Installs("write")
       ELSE Ends /\ UNCHANGED hook
    /\ UNCHANGED <<ignore, driver, attrs, memory, worker, counts>>

WriteHook ==
    /\ InstallAt("write")
    /\ \/ hook' = "current" /\ UNCHANGED counts
       \/ Fault /\ UNCHANGED hook
    /\ Ends
    /\ UNCHANGED <<ignore, driver, attrs, memory, worker>>

\* runPreMergeCommitUninstall: only a hook with the marker is removed.
UninstallHook ==
    /\ InstallAt("idle")
    /\ hook \in Managed
    /\ hook' = "absent"
    /\ UNCHANGED <<ignore, driver, attrs, memory, worker, install, counts>>

KillInstall ==
    /\ ~InstallAt("idle")
    /\ Ends
    /\ Fault
    /\ UNCHANGED <<repo, memory, worker>>

\* The user, another program, or another version of mdsmith.
UserEdits ==
    /\ edits < MaxEdits
    /\ edits' = edits + 1
    /\ \/ ignore' \in Ignores \ {ignore} /\ UNCHANGED <<driver, attrs, hook>>
       \/ attrs' \in Files \ {attrs} /\ UNCHANGED <<ignore, driver, hook>>
       \/ driver' = ~driver /\ UNCHANGED <<ignore, attrs, hook>>
       \/ hook' \in {"user", "old"} \ {hook} /\ UNCHANGED <<ignore, driver, attrs>>
    /\ UNCHANGED <<memory, worker, install, installs, faults, restarts>>

CheckStep(w) == Lookup(w) \/ Probe(w) \/ Inspect(w) \/ Store(w)
FixStep == Decide \/ ReadAttributes \/ RenameAttributes \/ Stage \/ DropCache
InstallStep ==
    \/ RegisterDriver \/ ResolveGlobs \/ InstallAttributes \/ InstallHookOnly
    \/ TruncateHook \/ WriteHook \/ UninstallHook \/ KillInstall

Next ==
    \/ \E w \in Workers : CheckStep(w)
    \/ FixStep \/ InstallStep \/ Restart \/ UserEdits

\* A worker that has begun goes on, and fix is asked for again and again, as
\* the rule's message tells the user to.
Fairness == \A w \in Workers : WF_vars(CheckStep(w) \/ (w = Fixer /\ FixStep))
Spec == Init /\ [][Next]_vars /\ Fairness

-----------------------------------------------------------------------------
TypeOK ==
    /\ ignore \in Ignores /\ driver \in BOOLEAN /\ hook \in HookStates
    /\ cache \in (SUBSET {"attributes", "hook"}) \cup {Uncached}
    /\ stagingErr \in BOOLEAN
    /\ DOMAIN worker = Workers

\* The lines of the user's own, which are not about merge=mdsmith.
Others(file) ==
    LET rest == IF HasBlock(file) THEN Before(file) \o After(file) ELSE file
    IN  Keep(rest, Lines({"other"}))

\* Whatever is found in .gitattributes, with stale assignments, two blocks or
\* none, the fix leaves a block from which the patterns of the configuration
\* are read back, so that the next Check has nothing to report and fix comes
\* to an end (WriteGitattributes against ExtractGlobs).  A pattern with a "#"
\* in front is written as a comment and is not covered.
FixEndsDrift ==
    [][/\ At(Fixer, "rename") /\ worker'[Fixer].pc = "stage"
       /\ worker[Fixer].globs = GlobsFromConfig(ignore)
       /\ {ignore[i] : i \in DOMAIN ignore} \cap Hashed = {}
       => InSync(attrs', GlobsFromConfig(ignore))]_vars

\* A fix or an install keeps the user's lines, and their order, in a file that
\* nobody else wrote since it was read; the lines after a block that lost its
\* end are the block's.
UserLinesKept ==
    [][/\ attrs' # attrs
       /\ \/ At(Fixer, "rename") /\ worker'[Fixer].pc = "stage" /\ worker[Fixer].read = attrs
          \/ InstallAt("rename") /\ install'.pc = "hook" /\ install.read = attrs
       => Others(attrs') = Others(attrs)]_vars

\* A linter that looked before the fix may put the old drift back into the
\* cache after the fix dropped it; the next fix clears it (driftParts, Fix).
StaleDriftHeals ==
    ("attributes" \in cache /\ "attributes" \notin Drift(driver))
        ~> ("attributes" \notin cache \/ "attributes" \in Drift(driver))
=============================================================================
