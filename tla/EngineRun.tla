------------------------------ MODULE EngineRun ------------------------------
(***************************************************************************)
(* A lint run (internal/engine/runner.go, check.go): the worker goroutines *)
(* of runFiles take files off an atomic counter, each with its own clones  *)
(* of the rules, and fill a slice by index; inside a file the goroutines   *)
(* of runNonNodeCheckers, at most intraCap at a time, each fill the slot   *)
(* of one rule, and the shared walk fills the others after they joined.    *)
(* With one worker or none, and for RunSource, the caller's goroutine does *)
(* the same with the registered rules: it is worker 1 here.                *)
(***************************************************************************)
EXTENDS LintResult

CONSTANTS
    MaxWorkers,  \* bound on the workers of a run
    Registry     \* the owner of the registered rule instances

Workers == 1..MaxWorkers

ASSUME EngineRunAssumption ==
    /\ MaxWorkers \in Nat \ {0}
    /\ Registry \notin Workers
    /\ \A job \in Jobs : ResolveWorkers(job) <= MaxWorkers

VARIABLES
    job,       \* the input of the run
    stage,     \* new, files or done
    next,      \* the atomic counter
    pc,        \* where each worker is
    rules,     \* whose rule instances each worker uses
    index,     \* the file each worker took
    left,      \* the rules of which it has still to spawn a Check
    running,   \* the rules whose Check runs for its file
    found,     \* its slots: what each rule found
    outcomes,  \* the slice the workers fill
    result     \* what the run returns

vars == <<job, stage, next, pc, rules, index, left, running, found, outcomes,
          result>>

WorkerPCs == {"off", "clone", "pull", "lint", "check", "exit"}
Pending == [diags |-> <<>>, errs |-> <<>>]
NoResult == [checked |-> 0, diags |-> <<>>, errs |-> <<>>]
NothingFound == [r \in Rules |-> <<>>]

File(w) == Work(job)[index[w]]
IntraCap == ResolveIntraFileWorkers(job)
UsedWorkers == IF ResolveWorkers(job) <= 1 THEN {1} ELSE 1..ResolveWorkers(job)

Init ==
    /\ job \in Jobs
    /\ stage = "new"
    /\ next = 1
    /\ pc = [w \in Workers |-> "off"]
    /\ rules = [w \in Workers |-> Registry]
    /\ index = [w \in Workers |-> 0]
    /\ left = [w \in Workers |-> {}]
    /\ running = [w \in Workers |-> {}]
    /\ found = [w \in Workers |-> NothingFound]
    /\ outcomes = <<>>
    /\ result = NoResult

\* Run up to the go statements; the config rules' diagnostics are in the
\* result of the merge.
Start ==
    /\ stage = "new"
    /\ stage' = "files"
    /\ outcomes' = [i \in DOMAIN Work(job) |-> Pending]
    /\ pc' = [w \in Workers |->
                IF w \notin UsedWorkers THEN "exit"
                ELSE IF ResolveWorkers(job) <= 1 THEN "pull" ELSE "clone"]
    /\ UNCHANGED <<job, next, rules, index, left, running, found, result>>

CloneRules(w) == rules' = [rules EXCEPT ![w] = w]

\* A goroutine of runFiles starts.
StartWorker(w) ==
    /\ pc[w] = "clone"
    /\ CloneRules(w)
    /\ pc' = [pc EXCEPT ![w] = "pull"]
    /\ UNCHANGED <<job, stage, next, index, left, running, found, outcomes,
                   result>>

\* i := int(next.Add(1)) - 1
Pull(w) ==
    /\ pc[w] = "pull"
    /\ next' = next + 1
    /\ \/ /\ next \in DOMAIN outcomes
          /\ index' = [index EXCEPT ![w] = next]
          /\ pc' = [pc EXCEPT ![w] = "lint"]
       \/ /\ next \notin DOMAIN outcomes
          /\ pc' = [pc EXCEPT ![w] = "exit"]
          /\ UNCHANGED index
    /\ UNCHANGED <<job, stage, rules, left, running, found, outcomes, result>>

\* outcomes[i] = ...
Put(w, outcome) == outcomes' = [outcomes EXCEPT ![index[w]] = outcome]

\* lintFile of a file that cannot be read, parsed, or has bad front matter.
FailFile(w) ==
    /\ pc[w] = "lint"
    /\ job.loads[File(w)] # "ok"
    /\ Put(w, Outcome(job, File(w), <<>>))
    /\ pc' = [pc EXCEPT ![w] = "pull"]
    /\ UNCHANGED <<job, stage, next, rules, index, left, running, found,
                   result>>

\* lintFile up to classifyRules: new, empty slots.
ClassifyRules(w) ==
    /\ pc[w] = "lint"
    /\ job.loads[File(w)] = "ok"
    /\ left' = [left EXCEPT ![w] = Checkers(job, File(w))]
    /\ found' = [found EXCEPT ![w] = NothingFound]
    /\ pc' = [pc EXCEPT ![w] = "check"]
    /\ UNCHANGED <<job, stage, next, rules, index, running, outcomes, result>>

\* runNonNodeCheckers takes a place in the semaphore for the next slot and
\* starts its goroutine.  With a cap of one the worker calls Check itself.
SpawnCheck(w) ==
    /\ pc[w] = "check"
    /\ Cardinality(running[w]) < IntraCap
    /\ \E r \in left[w] :
        /\ \A s \in left[w] : r <= s
        /\ left' = [left EXCEPT ![w] = @ \ {r}]
        /\ running' = [running EXCEPT ![w] = @ \cup {r}]
    /\ UNCHANGED <<job, stage, next, pc, rules, index, found, outcomes, result>>

FinishCheck_KeepsPlace(w, r) ==
    /\ r \in running[w]
    /\ found' = [found EXCEPT ![w][r] = job.finds[File(w)][r]]
    /\ UNCHANGED <<job, stage, next, pc, rules, index, left, running, outcomes,
                   result>>

\* slot.diags = slot.check.Check(f), and the place is given back.
FinishCheck(w, r) ==
    /\ r \in running[w]
    /\ running' = [running EXCEPT ![w] = @ \ {r}]
    /\ found' = [found EXCEPT ![w][r] = job.finds[File(w)][r]]
    /\ UNCHANGED <<job, stage, next, pc, rules, index, left, outcomes, result>>

Joined_AllSpawned(w) == left[w] = {}
Joined(w) == left[w] = {} /\ running[w] = {}

\* wg.Wait() is over: the walk fills the slots of the node checkers and the
\* file's outcome is put into the slice.
WalkAndCollect(w) ==
    /\ pc[w] = "check"
    /\ Joined(w)
    /\ LET slots == [r \in Slots(job, File(w)) |->
                        IF r \in NodeRules THEN job.finds[File(w)][r]
                        ELSE found[w][r]]
       IN Put(w, Outcome(job, File(w), slots))
    /\ pc' = [pc EXCEPT ![w] = "pull"]
    /\ UNCHANGED <<job, stage, next, rules, index, left, running, found,
                   result>>

\* wg.Wait() of runFiles is over.
Finish ==
    /\ stage = "files"
    /\ \A w \in Workers : pc[w] = "exit"
    /\ stage' = "done"
    /\ result' = MergeOutcomes(job, outcomes)
    /\ UNCHANGED <<job, next, pc, rules, index, left, running, found, outcomes>>

WorkerStep(w) ==
    \/ StartWorker(w) \/ Pull(w) \/ FailFile(w) \/ ClassifyRules(w)
    \/ SpawnCheck(w) \/ WalkAndCollect(w)

Next ==
    \/ Start \/ Finish
    \/ \E w \in Workers : WorkerStep(w) \/ \E r \in Rules : FinishCheck(w, r)

Spec == Init /\ [][Next]_vars

\* The Go scheduler runs every runnable goroutine, and Check returns.
FairSpec ==
    /\ Spec
    /\ WF_vars(Start) /\ WF_vars(Finish)
    /\ \A w \in Workers :
        /\ WF_vars(WorkerStep(w))
        /\ \A r \in Rules : WF_vars(FinishCheck(w, r))

-----------------------------------------------------------------------------
(* Properties.                                                             *)

\* Every variable has its type.
TypeOK ==
    /\ job \in Jobs
    /\ stage \in {"new", "files", "done"}
    /\ next \in Nat \ {0}
    /\ pc \in [Workers -> WorkerPCs]
    /\ rules \in [Workers -> Workers \cup {Registry}]
    /\ index \in [Workers -> Nat]
    /\ left \in [Workers -> SUBSET Rules]
    /\ running \in [Workers -> SUBSET Rules]
    /\ found \in [Workers -> [Rules -> Seq(Diagnostics)]]
    /\ DOMAIN outcomes = IF stage = "new" THEN {} ELSE DOMAIN Work(job)
    /\ \A w \in Workers :
        pc[w] \in {"lint", "check"} => index[w] \in DOMAIN outcomes

\* No rule instance is used by two goroutines at once (cloneRules: "concurrent
\* Check calls never share a rule instance's mutable state").
RulesAreNotShared ==
    \A v, w \in Workers : \A r \in Rules :
        v # w /\ r \in running[v] /\ pc[w] = "check"
            => rules[v] # rules[w]

\* What a run returns is a function of its input, whichever worker took which
\* file and whatever order the checks ended in ("the output is identical to a
\* sequential run regardless of scheduling").
SequentialResult(j) ==
    MergeOutcomes(j, [i \in DOMAIN Work(j) |->
                        Outcome(j, Work(j)[i], Filled(j, Work(j)[i]))])
OneShot == INSTANCE OneShotRun WITH
    Inputs <- Jobs, Reference <- SequentialResult, Nothing <- NoResult,
    input <- job, done <- stage = "done"
RunIsSequential == OneShot!Spec

\* Every finding is printed, and printed once: the files a run counts and the
\* rules it applies to them are all accounted for (a finding outside generated
\* sections is reported, at its line in the whole file), and a warning about
\* the repository is not printed again for every file.
EachFindingOnce ==
    /\ stage = "done" =>
         \A i \in DOMAIN Work(job) : LET f == Work(job)[i] IN
            job.loads[f] = "ok" =>
                \A r \in Slots(job, f) : \A n \in DOMAIN job.finds[f][r] :
                    LET d == job.finds[f][r][n]
                    IN d.line \notin job.generated[f] =>
                        [d EXCEPT !.line = @ + job.offset[f]]
                            \in ToSet(result.diags)
    /\ \A i, j \in DOMAIN result.diags :
         i # j => result.diags[i] # result.diags[j]
=============================================================================
