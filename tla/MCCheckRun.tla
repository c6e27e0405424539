------------------------------ MODULE MCCheckRun ------------------------------
(***************************************************************************)
(* Small commands for CheckRun.  Some have a simple list of files and an   *)
(* engine with parallel workers, failures and generated sections; the      *)
(* others a sequential engine and a tree with .gitignore files, links and  *)
(* directories that cannot be read.                                         *)
(***************************************************************************)
EXTENDS CheckRun

CONSTANTS
    r, s, t,     \* the repository and its directories
    e,           \* a directory whose name sorts before ".gitignore"
    z,           \* a directory that cannot be read
    x, y, notes, l,  \* x.md, y.md, a text file, a link to x.md
    k, pipe      \* a link to s; a pipe

MCNames == {r, s, t, e, z, x, y, notes, l, k, pipe}
MCEarly == {e}
MCMarkdown == {x, y, l, pipe}

MCFiles == 1..7
MCConfigFile == 8
MCArtifact == 0
MCRepoRules == {4}
MCPathOf == <<<<r, e, t, x>>, <<r, l>>, <<r, notes>>, <<r, s, t, x>>, <<r, s, x>>, <<r, s, y>>, <<r, x>>>>

D(file, line, rule, message) ==
    [file |-> file, line |-> line, rule |-> rule, message |-> message]

\* Rule 1 is fed by the walk; rules 1 and 2 agree on a place and a message;
\* rule 3 finds two things, one in what may be a generated section; rule 4 is
\* about the repository and rule 5 about the configuration.
MCFinds ==
    [f \in MCFiles \cup {MCConfigFile} |->
        [i \in Rules |->
            CASE i \in {1, 2} /\ f \in MCFiles -> <<D(f, 2, i, 1)>>
              [] i = 3 /\ f \in MCFiles -> <<D(f, 3, i, 1), D(f, 1, i, 2)>>
              [] i = 4 /\ f \in MCFiles -> <<D(MCArtifact, 1, i, 3)>>
              [] i = 5 /\ f = MCConfigFile -> <<D(f, 1, i, 4)>>
              [] OTHER -> <<>>]]

BaseJob ==
    [inMemory |-> FALSE, paths |-> <<>>, ignored |-> {},
     configPath |-> MCConfigFile, concurrency |-> 2, intraFile |-> 0,
     gomaxprocs |-> 4, enabled |-> [f \in MCFiles \cup {MCConfigFile} |-> Rules],
     enabledGlobally |-> Rules, badSettings |-> {},
     loads |-> [f \in MCFiles |-> "ok"], offset |-> [f \in MCFiles |-> 0],
     generated |-> [f \in MCFiles |-> {}], finds |-> MCFinds]

-----------------------------------------------------------------------------
(* Trees.                                                                   *)

All == MCNames \cup {Here}
Md  == MCMarkdown
Rule(parts)     == Pattern(FALSE, FALSE, Len(parts) > 1, parts)
Rooted(parts)   == Pattern(FALSE, FALSE, TRUE, parts)
OnlyDir(parts)  == Pattern(FALSE, TRUE, Len(parts) > 1, parts)
Not(parts)      == Pattern(TRUE, FALSE, Len(parts) > 1, parts)

RootRules == {
    <<>>, <<Rule(<<{x}>>)>>, <<Rooted(<<{x}>>)>>, <<OnlyDir(<<{s}>>)>>, <<OnlyDir(<<{x}>>), Rule(<<{s}, {t}>>)>>,
    <<Rule(<<Md>>), Not(<<{x}>>)>>, <<Not(<<{x}>>), Rule(<<Md>>)>>, <<Rule(<<Stars, {t}, {x}>>)>>,
    <<Rule(<<{s}, Stars>>)>>, <<Rule(<<{s}, Stars, {x}>>)>>, <<Rule(<<Stars, {t}, Stars>>)>>,
    <<Rule(<<All>>), Not(<<{s}>>)>>}
SubRules == {<<>>, <<Not(<<{x}>>)>>, <<OnlyDir(<<{t}>>)>>, <<Rule(<<Md>>), Not(<<{t}, {x}>>)>>}

BaseKind ==
    (<<>> :> "dir") @@ (<<r>> :> "dir") @@ (<<r, s>> :> "dir") @@ (<<r, s, t>> :> "dir")
    @@ (<<r, x>> :> "file") @@ (<<r, notes>> :> "file") @@ (<<r, s, x>> :> "file")
    @@ (<<r, s, y>> :> "file") @@ (<<r, s, t, x>> :> "file")
Extras == {
    <<>>, (<<r, e>> :> "dir") @@ (<<r, e, t>> :> "dir") @@ (<<r, e, t, x>> :> "file"),
    (<<r, l>> :> "link") @@ (<<r, k>> :> "dirlink") @@ (<<r, s, l>> :> "broken") @@ (<<r, pipe>> :> "fifo"),
    (<<r, s, z>> :> "locked")}

Tree(extra, root, sub, early, above) ==
    LET kind == BaseKind @@ extra
    IN [kind |-> kind, git |-> {<<r>>},
        ignore |-> [d \in {q \in DOMAIN kind : kind[q] = "dir"} |->
            CASE d = <<>> -> above [] d = <<r>> -> root [] d = <<r, s>> -> sub
              [] d = <<r, e, t>> -> early [] OTHER -> <<>>]]

Trees ==
    {Tree(<<>>, root, sub, <<>>, <<>>) : root \in RootRules, sub \in SubRules}
    \cup {Tree(extra, root, <<>>, early, above) : extra \in Extras \ {<<>>},
            root \in {<<>>, <<Rule(<<{x}>>)>>, <<OnlyDir(<<{s}>>)>>}, early \in {<<>>, <<Not(<<{x}>>)>>},
            above \in {<<>>, <<Rule(<<{x}>>)>>}}

PlainTree == Tree((<<r, e>> :> "dir") @@ (<<r, e, t>> :> "dir") @@ (<<r, e, t, x>> :> "file"), <<>>, <<>>, <<>>, <<>>)

-----------------------------------------------------------------------------
(* Commands.                                                                *)

Rel(segs) == [abs |-> FALSE, segs |-> segs]
Path(segs) == [glob |-> FALSE, path |-> Rel(segs), matches |-> <<>>]
AbsPath(segs) == [glob |-> FALSE, path |-> [abs |-> TRUE, segs |-> segs], matches |-> <<>>]
GlobOf(paths) == [glob |-> TRUE, path |-> Rel(<<>>), matches |-> [i \in DOMAIN paths |-> Rel(paths[i])]]

RootArgs == {
    <<>>, <<Path(<<>>)>>, <<Path(<<s>>)>>, <<Path(<<s>>), Path(<<s, x>>)>>, <<Path(<<s, t>>), AbsPath(<<r, s>>)>>,
    <<Path(<<k, Up, x>>), Path(<<k, x>>)>>, <<Path(<<z, Up, x>>)>>,
    <<Path(<<s, Up, x>>), Path(<<x>>)>>, <<Path(<<notes>>), Path(<<y>>)>>,
    <<Path(<<notes>>), Path(<<s, t>>)>>, <<GlobOf(<<<<e>>, <<k>>, <<l>>, <<notes>>, <<s>>, <<x>>>>)>>,
    <<GlobOf(<<<<k, x>>, <<s, x>>>>), Path(<<s, x>>)>>}
SubArgs == {<<>>, <<Path(<<>>)>>, <<Path(<<Up>>)>>, <<Path(<<Up, x>>), AbsPath(<<r, x>>)>>, <<Path(<<Up, k, x>>)>>}

\* A glob has no match that is not on the disk.
OnDisk(tree, cwd, args) ==
    [i \in DOMAIN args |-> [args[i] EXCEPT !.matches =
        SelectSeq(@, LAMBDA m : Append(cwd, Head(m.segs)) \in DOMAIN tree.kind)]]

Config == [broken |-> FALSE, files |-> Md, follow |-> FALSE]
Command(tree, cwd, args, run) ==
    [tree |-> tree, cwd |-> cwd, args |-> OnDisk(tree, cwd, args), noGitignore |-> FALSE, followFlag |-> {}, stdin |-> FALSE,
     config |-> Config, badSize |-> FALSE, quiet |-> FALSE, run |-> run]

SmallJob ==
    [BaseJob EXCEPT !.concurrency = 1, !.enabled = [f \in MCFiles \cup {MCConfigFile} |->
                        IF f \in {4, 6} THEN {2} ELSE {}]]

TreeCommands ==
    {Command(tree, <<r>>, args, SmallJob) : tree \in Trees, args \in RootArgs}
    \cup {Command(tree, <<r, s>>, args, SmallJob) : tree \in Trees, args \in SubArgs}

FlagCommands ==
    {[Command(Tree(extra, <<Rule(<<{x}>>)>>, <<>>, <<>>, <<>>), <<r>>, args, SmallJob)
        EXCEPT !.noGitignore = g, !.followFlag = f, !.config.follow = c] :
        extra \in Extras, args \in RootArgs, g \in BOOLEAN, f \in {{}, {TRUE}, {FALSE}}, c \in BOOLEAN}
    \cup {[Command(PlainTree, <<r>>, args, SmallJob)
        EXCEPT !.config.broken = b, !.config.files = f, !.badSize = m, !.quiet = q] :
        args \in {<<>>, <<Path(<<s>>)>>, <<Path(<<y>>)>>, <<GlobOf(<<>>)>>},
        b \in BOOLEAN, f \in {{}, {y}, {notes, x}}, m \in BOOLEAN, q \in BOOLEAN}

\* Three files, and nothing to resolve; two or more workers and one.
ThreeFiles == <<Path(<<s, y>>), Path(<<notes>>), Path(<<s, t, x>>)>>
PoolRuns ==
    {[BaseJob EXCEPT !.concurrency = c, !.intraFile = i, !.gomaxprocs = g] :
        c \in {0, 1, 2}, i \in {0, 1}, g \in {1, 2, 3}}

\* Files that fail, generated sections, rules with bad settings, ignored
\* files, and one buffer in memory.
DataRuns ==
    {[BaseJob EXCEPT !.loads[3] = a, !.loads[6] = b, !.generated[4] = {3},
                     !.badSettings = c, !.ignored = g] :
        a \in {"ok", "read"}, b \in {"ok", "frontMatter"}, c \in {{}, {3, 5}}, g \in {{}, {4}}}
BufferRuns ==
    {[BaseJob EXCEPT !.inMemory = TRUE, !.paths = <<6>>, !.configPath = c, !.offset[6] = 2,
                     !.enabled[6] = {1, 2, 3}] : c \in {MCConfigFile, NoConfig}}
EngineCommands ==
    {Command(PlainTree, <<r>>, ThreeFiles, run) : run \in PoolRuns \cup DataRuns}
    \cup {[Command(PlainTree, <<r>>, <<>>, run) EXCEPT !.badSize = m, !.stdin = TRUE] :
            run \in BufferRuns, m \in BOOLEAN}

MCCommands == TreeCommands \cup FlagCommands \cup EngineCommands
\* No file is named in more than two ways.
Sorted(times) == FlattenSeq([f \in MCFiles |-> [i \in 1 .. times[f] |-> f]])
MCJobs ==
    {[SmallJob EXCEPT !.paths = Sorted(times)] : times \in [MCFiles -> 0 .. 2]}
    \cup {[run EXCEPT !.paths = Sorted([f \in MCFiles |-> IF f \in {3, 4, 6} THEN 1 ELSE 0])] : run \in PoolRuns \cup DataRuns}
    \cup BufferRuns
===============================================================================
