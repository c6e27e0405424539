----------------------------- MODULE LintResult -----------------------------
(***************************************************************************)
(* What one lint run computes, as functions of its input: the rule slots   *)
(* and the outcome of a file (internal/engine/check.go), the merge of the  *)
(* outcomes and the size of the two worker pools                           *)
(* (internal/engine/runner.go).                                            *)
(*                                                                         *)
(* Files are numbers in the order of their paths, rules are numbers in the *)
(* order of the registry, and a diagnostic is the record of its file,      *)
(* line, rule and message (a column would only be one more digit of line). *)
(* What a rule's Check finds in a file is given by the job.                *)
(***************************************************************************)
EXTENDS Integers, Sequences, SequencesExt, FiniteSets

CONSTANTS
    Files,        \* Markdown files
    ConfigFile,   \* the path of .mdsmith.yml
    Artifact,     \* a repository artifact, .gitattributes
    RuleCount,    \* the number of registered rules
    NodeRules,    \* rules fed by the shared walk (rule.NodeChecker)
    ConfigRules,  \* rules that check the configuration (rule.ConfigTarget)
    RepoRules,    \* rules whose findings are about the repository
    NoConfig,     \* the config path when there is no .mdsmith.yml
    Jobs          \* the inputs of a run

Rules == 1..RuleCount
Diagnostics ==
    [file: Files \cup {ConfigFile, Artifact}, line: Int, rule: Rules,
     message: Nat]
Loads == {"ok", "read", "parse", "frontMatter"}

\* What a call of Run or RunSource depends on.
JobType ==
    [inMemory: BOOLEAN,             \* RunSource rather than Run
     paths: Seq(Files),
     ignored: SUBSET Files,         \* by the configuration
     configPath: {ConfigFile, NoConfig},
     concurrency: Int,              \* Runner.Concurrency
     intraFile: Int,                \* Runner.IntraFileConcurrency
     gomaxprocs: Nat \ {0},
     enabled: [Files \cup {ConfigFile} -> SUBSET Rules],
     enabledGlobally: SUBSET Rules, \* for the empty path
     badSettings: SUBSET Rules,     \* rules whose ApplySettings fails
     loads: [Files -> Loads],       \* how far reading each file gets
     offset: [Files -> Nat],        \* lines of front matter
     generated: [Files -> SUBSET Nat], \* lines inside generated sections
     finds: [Files \cup {ConfigFile} -> [Rules -> Seq(Diagnostics)]]]

ASSUME LintResultAssumption ==
    /\ RuleCount \in Nat
    /\ NodeRules \subseteq Rules
    /\ ConfigRules \subseteq Rules
    /\ RepoRules \subseteq Rules \ ConfigRules
    /\ Files \cup {ConfigFile, Artifact} \subseteq Int
    /\ Jobs \subseteq JobType

-----------------------------------------------------------------------------
(* The rules of a file.                                                    *)

\* Config rules ran once already when there is a configuration.
MarkdownRules(job) ==
    IF job.configPath = NoConfig THEN Rules ELSE Rules \ ConfigRules

\* classifyRules: the slots, and the errors of the rules that get none.
Slots(job, file) ==
    (MarkdownRules(job) \cap job.enabled[file]) \ job.badSettings
Checkers(job, file) == Slots(job, file) \ NodeRules

SettingsErrors(S) ==
    FlattenSeq([r \in Rules |-> IF r \in S THEN <<<<"settings", r>>>> ELSE <<>>])
ClassifyErrors(job, file) ==
    SettingsErrors(MarkdownRules(job) \cap job.enabled[file]
                    \cap job.badSettings)

-----------------------------------------------------------------------------
(* The outcome of a file.                                                  *)

\* filterGeneratedDiags: without the findings in generated sections.
FilterGenerated(lines) ==
    [diags \in Seq(Diagnostics) |->
        FlattenSeq([i \in DOMAIN diags |->
            IF diags[i].line \in lines THEN <<>> ELSE <<diags[i]>>])]

\* At the lines they have with the front matter.
AdjustDiagnostics(offset) ==
    [diags \in Seq(Diagnostics) |->
        [i \in DOMAIN diags |-> [diags[i] EXCEPT !.line = @ + offset]]]

\* The slots when every rule has checked the file.
Filled(job, file) == [r \in Slots(job, file) |-> job.finds[file][r]]

\* checkRules: the slots' findings in the order of the rules.
Collect(job, file, slots) ==
    LET kept == FilterGenerated(job.generated[file])
        adjusted == AdjustDiagnostics(job.offset[file])
    IN adjusted[kept[FlattenSeq([r \in Rules |->
                        IF r \in DOMAIN slots THEN slots[r] ELSE <<>>])]]

\* lintFile: a file that cannot be read or parsed has one error instead.
Outcome(job, file, slots) ==
    IF job.loads[file] = "ok"
    THEN [diags |-> Collect(job, file, slots),
          errs |-> ClassifyErrors(job, file)]
    ELSE [diags |-> <<>>, errs |-> <<<<job.loads[file], file>>>>]

-----------------------------------------------------------------------------
(* The merge.                                                              *)

\* filterIgnored; RunSource takes its one buffer as it is.
Work(job) ==
    IF job.inMemory THEN job.paths
    ELSE FlattenSeq([i \in DOMAIN job.paths |->
            IF job.paths[i] \in job.ignored THEN <<>> ELSE <<job.paths[i]>>])

\* runConfigTargetRules.
ConfigTargets(job) ==
    IF job.configPath = NoConfig THEN {}
    ELSE ConfigRules \cap job.enabled[ConfigFile]
ConfigDiags(job) ==
    FlattenSeq([r \in Rules |->
                    IF r \in ConfigTargets(job) \ job.badSettings
                    THEN job.finds[ConfigFile][r] ELSE <<>>])
ConfigErrors(job) ==
    SettingsErrors(ConfigTargets(job) \cap job.badSettings)

AnyRepoScopedEnabled(job) ==
    MarkdownRules(job) \cap RepoRules \cap job.enabledGlobally # {}

\* The first of equal diagnostics stays.
DedupeDiagnostics[diags \in Seq(Diagnostics)] ==
    FlattenSeq([i \in DOMAIN diags |->
            IF \E j \in 1..i - 1 : diags[j] = diags[i] THEN <<>> ELSE <<diags[i]>>])

Before(d, e) ==
    \/ d.file < e.file
    \/ d.file = e.file /\ d.line < e.line
    \/ d.file = e.file /\ d.line = e.line /\ d.message < e.message

\* A stable sort: what is not before one another keeps its order.
SortDiagnostics[diags \in Seq(Diagnostics)] ==
    LET rank(i) == Cardinality(
            {j \in DOMAIN diags :
                \/ Before(diags[j], diags[i])
                \/ ~Before(diags[i], diags[j]) /\ j <= i})
    IN [n \in DOMAIN diags |->
            diags[CHOOSE i \in DOMAIN diags : rank(i) = n]]

\* RunSource returns before it sorts when its buffer is too large or cannot be
\* parsed.
ReturnsEarly(job) ==
    job.inMemory /\ \E i \in DOMAIN job.paths : job.loads[job.paths[i]] # "ok"

\* The diagnostics in the order in which they are returned.
Ordered(job, diags) ==
    IF ReturnsEarly(job) THEN diags ELSE SortDiagnostics[diags]

MergeOutcomes_NeverDedupes(job, outcomes) ==
    [checked |-> Len(Work(job)),
     diags |-> Ordered(job,
        ConfigDiags(job)
            \o FlattenSeq([i \in DOMAIN outcomes |-> outcomes[i].diags])),
     errs |-> ConfigErrors(job)
            \o FlattenSeq([i \in DOMAIN outcomes |-> outcomes[i].errs])]

\* The end of Run, and of RunSource, which does not look for duplicates.
MergeOutcomes(job, outcomes) ==
    LET all == ConfigDiags(job)
            \o FlattenSeq([i \in DOMAIN outcomes |-> outcomes[i].diags])
        once == IF ~job.inMemory /\ AnyRepoScopedEnabled(job)
                THEN DedupeDiagnostics[all] ELSE all
    IN [checked |-> Len(Work(job)),
        diags |-> Ordered(job, once),
        errs |-> ConfigErrors(job)
            \o FlattenSeq([i \in DOMAIN outcomes |-> outcomes[i].errs])]

-----------------------------------------------------------------------------
(* The two worker pools.                                                   *)

ResolveWorkers(job) ==
    LET n == Len(Work(job))
        w == IF job.concurrency <= 0 THEN job.gomaxprocs ELSE job.concurrency
    IN IF job.inMemory THEN 0 ELSE IF w > n THEN n ELSE w

ResolveIntraFileWorkers(job) ==
    LET files == IF ResolveWorkers(job) <= 0 THEN 1 ELSE ResolveWorkers(job)
        share == job.gomaxprocs \div files
    IN IF job.intraFile > 0 THEN job.intraFile
       ELSE IF share < 1 THEN 1 ELSE share
=============================================================================
