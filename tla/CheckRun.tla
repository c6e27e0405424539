------------------------------- MODULE CheckRun -------------------------------
(***************************************************************************)
(* mdsmith check (cmd/mdsmith/main.go): the arguments, the configuration,  *)
(* the files they stand for, the run of the engine on them, and the exit   *)
(* code.                                                                    *)
(***************************************************************************)
EXTENDS EngineRun, Discovery

CONSTANTS
    Commands,   \* the commands given, with what the disk holds
    PathOf      \* the path of each file

\* A path as it is spelled on the command line.
Spellings == [abs : BOOLEAN, segs : Seq(Names \cup {Up})]

\* Standard input is one buffer, and a buffer is only linted from there.
ASSUME CheckRunAssumption ==
    /\ PathOf \in Seq(Seq(Names)) /\ DOMAIN PathOf = Files
    /\ \A f, g \in Files : f # g => PathOf[f] # PathOf[g]
    /\ \A c \in Commands :
        /\ IsTree(c.tree) /\ c.cwd \in DOMAIN c.tree.ignore
        /\ \A p \in DOMAIN c.tree.kind : c.tree.kind[p] \in {"file", "link"} => p \in Range(PathOf)
        /\ c.args \in Seq([glob : BOOLEAN, path : Spellings, matches : Seq(Spellings)])
        /\ c.run \in JobType /\ c.run.inMemory = c.stdin /\ Len(c.run.paths) <= 1

VARIABLES
    cmd,       \* what was asked for
    resolved,  \* the files it stands for, or that they cannot be told
    phase,     \* load, run or exited
    exit

checkVars == <<cmd, resolved, phase, exit, vars>>

-----------------------------------------------------------------------------
(***************************************************************************)
(* The files of a command.                                                  *)
(***************************************************************************)
\* A flag given on the command line wins over the configuration.
resolveOpts(c) ==
    [gitignore |-> ~c.noGitignore,
     follow |-> IF c.followFlag # {} THEN TRUE \in c.followFlag ELSE c.config.follow]

\* "-" is standard input, and what else was named is forgotten.
HasStdin(c) == c.stdin

\* The paths that are left, each spelled as the engine is given it.
Resolution(c) ==
    LET opts == resolveOpts(c) IN
    CASE HasStdin(c) -> [failed |-> FALSE, result |-> {}]
      [] ~HasStdin(c) /\ c.args # <<>> ->
            [failed |-> ResolveFilesWithOpts(c.tree, c.cwd, c.args, opts).failed,
             result |-> ResolveFilesWithOpts(c.tree, c.cwd, c.args, opts).result]
      [] ~HasStdin(c) /\ c.args = <<>> /\ c.config.files = {} -> [failed |-> FALSE, result |-> {}]
      [] OTHER ->
            [failed |-> DiscoverFails(c.tree, c.cwd, opts),
             result |-> {[abs |-> TRUE, segs |-> q] : q \in Discover(c.tree, c.cwd, c.config.files, opts)}]

\* Files are numbered in the order of their paths, in which they are sorted.
FilesOf(c, paths) ==
    LET Times(f) == Cardinality({q \in paths : Abs(c.cwd, q) = PathOf[f]})
    IN FlattenSeq([f \in DOMAIN PathOf |-> [i \in 1 .. Times(f) |-> f]])

\* The engine's input; c.run has what is not about the files.
JobOf(c, r) ==
    IF HasStdin(c) \/ r.failed THEN c.run ELSE [c.run EXCEPT !.paths = FilesOf(c, r.result)]

-----------------------------------------------------------------------------
CheckInit ==
    /\ cmd \in Commands
    /\ resolved = Resolution(cmd)
    /\ job = JobOf(cmd, resolved) /\ Init
    /\ phase = "load" /\ exit = 0

Nothing == ~HasStdin(cmd) /\ ~resolved.failed /\ resolved.result = {}

\* loadConfig, loadAndResolve or discoverFiles, resolveMaxInputBytes.
Reject ==
    /\ phase = "load"
    /\ cmd.config.broken \/ resolved.failed \/ (~Nothing /\ cmd.badSize)
    /\ phase' = "exited" /\ exit' = 2
    /\ UNCHANGED <<cmd, resolved, vars>>

NothingToCheck ==
    /\ phase = "load" /\ Nothing /\ ~cmd.config.broken
    /\ phase' = "exited" /\ exit' = 0
    /\ UNCHANGED <<cmd, resolved, vars>>

Load ==
    /\ phase = "load" /\ ~Nothing
    /\ ~cmd.config.broken /\ ~resolved.failed /\ ~cmd.badSize
    /\ phase' = "run"
    /\ UNCHANGED <<cmd, resolved, exit, vars>>

Engine == phase = "run" /\ Next /\ UNCHANGED <<cmd, resolved, phase, exit>>

\* The diagnostics may fail to be written, unless they are not wanted.
Report ==
    /\ phase = "run" /\ stage = "done"
    /\ phase' = "exited"
    /\ exit' \in IF result.diags # <<>> THEN {1} \cup (IF cmd.quiet THEN {} ELSE {2})
                 ELSE IF result.errs # <<>> THEN {2} ELSE {0}
    /\ UNCHANGED <<cmd, resolved, vars>>

CheckNext == Reject \/ NothingToCheck \/ Load \/ Engine \/ Report

CheckSpec == CheckInit /\ [][CheckNext]_checkVars

\* As in EngineRun; the command's own goroutine goes on as well.
FairCheckSpec ==
    /\ CheckSpec
    /\ WF_checkVars(Reject \/ NothingToCheck \/ Load) /\ WF_checkVars(Report)
    /\ WF_checkVars(phase = "run" /\ Start /\ UNCHANGED <<cmd, resolved, phase, exit>>)
    /\ WF_checkVars(phase = "run" /\ Finish /\ UNCHANGED <<cmd, resolved, phase, exit>>)
    /\ \A w \in Workers :
        /\ WF_checkVars(phase = "run" /\ WorkerStep(w) /\ UNCHANGED <<cmd, resolved, phase, exit>>)
        /\ \A r \in Rules :
            WF_checkVars(phase = "run" /\ FinishCheck(w, r) /\ UNCHANGED <<cmd, resolved, phase, exit>>)

-----------------------------------------------------------------------------
(***************************************************************************)
(* Git's reading of the same patterns: "**" stands for any number of       *)
(* directories, but at the end for one or more names; a rule says nothing  *)
(* of its own directory; the rules of deeper directories come last.        *)
(***************************************************************************)
GitMatch(parts, rel) ==
    LET rest[i, j \in Nat] ==
            IF i > Len(parts) THEN j > Len(rel)
            ELSE IF parts[i] = Stars
            THEN IF i = Len(parts) THEN j <= Len(rel) ELSE \E k \in j .. Len(rel) : rest[i + 1, k]
            ELSE j <= Len(rel) /\ rel[j] \in parts[i] /\ rest[i + 1, j + 1]
    IN rest[1, 1]

GitMatchesRule(r, p) ==
    /\ Under(r.base, p) /\ p # r.base
    /\ GitMatch(IF r.hasSlash THEN r.parts ELSE <<Stars>> \o r.parts, From(r.base, p))

Repository(tree, p) == CHOOSE d \in gitProjectRoot(tree, p) : TRUE

GitExcludes(tree, p) ==
    LET inForce == FlattenSeq([i \in 1 .. Len(p) - Len(Repository(tree, p)) |->
                    parseGitignoreFile(tree, SubSeq(p, 1, Len(Repository(tree, p)) + i - 1))])
    IN LastExcludes(inForce, {i \in DOMAIN inForce :
            /\ inForce[i].dirOnly => tree.kind[p] \in {"dir", "locked"}
            /\ GitMatchesRule(inForce[i], p)})

(***************************************************************************)
(* Where the code reads the patterns as Git does: no rule matches its own  *)
(* directory, or a path below it by a "**" in the middle or the end in     *)
(* another way than Git; there is none below a directory that sorts before *)
(* its parent's .gitignore, as the parent's rules would then come last;    *)
(* and none lies above the repository.                                      *)
(***************************************************************************)
ReadsAsGit(tree) ==
    \A d \in DOMAIN tree.ignore :
        /\ tree.ignore[d] # <<>> =>
                \E g \in tree.git : Under(g, d) /\ ToSet(From(g, d)) \cap Early = {}
        /\ \A r \in ToSet(parseGitignoreFile(tree, d)) :
             \A p \in DOMAIN tree.kind : Under(d, p) => (matchRule(r, p) <=> GitMatchesRule(r, p))

\* The Markdown files that Git keeps in a directory that was named.
Kept(c, d) ==
    {p \in DOMAIN c.tree.kind :
        /\ Under(d, p) /\ Readable(c.tree, p, resolveOpts(c).follow)
        /\ resolveOpts(c).gitignore =>
              \A q \in Prefixes(p) : Under(d, q) /\ q \notin c.tree.git /\ (c.args = <<>> => q # d) =>
                                    ~GitExcludes(c.tree, q)}

\* A path with a link to a directory in it, of its own or on the way to "..",
\* is not followed.
Reached(c, arg) ==
    \A n \in DOMAIN arg.segs :
        LET q == Abs(c.cwd, [arg EXCEPT !.segs = SubSeq(arg.segs, 1, n)])
        IN arg.segs[n] # Up => q \in DOMAIN c.tree.kind /\ c.tree.kind[q] # "dirlink"

Named(c, arg, globbed) ==
    LET p == Abs(c.cwd, arg) IN
    IF ~Reached(c, arg) THEN {}
    ELSE IF c.tree.kind[p] = "dir" THEN {q \in Kept(c, p) : Last(q) \in Markdown}
    ELSE {q \in {p} : Readable(c.tree, p, resolveOpts(c).follow) /\ (globbed => Last(p) \in Markdown)}

Meant(c) ==
    IF c.args = <<>> THEN {p \in Kept(c, c.cwd) : Last(p) \in c.config.files}
    ELSE UNION {IF c.args[i].glob
                THEN UNION {Named(c, c.args[i].matches[n], TRUE) : n \in DOMAIN c.args[i].matches}
                ELSE Named(c, c.args[i].path, FALSE) : i \in DOMAIN c.args}

(***************************************************************************)
(* A run that ends with 0 could read every file that it was to check, and  *)
(* none has a finding outside its generated sections (checkFiles returns 0 *)
(* only with neither a diagnostic nor an error).                            *)
(***************************************************************************)
ZeroIsClean ==
    (phase = "exited" /\ exit = 0) =>
        \A i \in DOMAIN Work(job) : LET f == Work(job)[i] IN
            /\ job.loads[f] = "ok"
            /\ \A r \in Slots(job, f) : \A n \in DOMAIN job.finds[f][r] :
                  job.finds[f][r][n].line \in job.generated[f]

(***************************************************************************)
(* A run that ends with 0 or 1 checked the files that its arguments stand  *)
(* for, each of them once however often and in whatever spelling it was    *)
(* named, and no other; with 0 none of them has a finding to report.       *)
(***************************************************************************)
ChecksWhatIsMeant ==
    /\ ZeroIsClean
    /\ (phase = "exited" /\ exit # 2 /\ ~HasStdin(cmd)) =>
        \/ /\ {PathOf[job.paths[i]] : i \in DOMAIN job.paths} = Meant(cmd)
           /\ Len(job.paths) = Cardinality(Meant(cmd))
        \/ ~ReadsAsGit(cmd.tree)

(***************************************************************************)
(* Every check ends: no worker waits for a place that nobody gives back.   *)
(***************************************************************************)
CheckEnds == <>(phase = "exited")
===============================================================================
