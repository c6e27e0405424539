# Verification of mdsmith

mdsmith is a Markdown linter and fixer written in Go: a command-line program, a language
server for editors, and a merge driver for Git. This directory holds TLA+ models of its
parts, what TLC checks of them on small instances, and what the TLA+ proof system proves of
them for every instance.

```
tlasany LspLint.tla                                  # parse a module
tlc -workers 2 -config LspLint.cfg MCLspLint.tla     # check a run
tlapm LspLint_proofs.tla                             # check its proofs
```

`PROJECT.json` lists the components, the runs with their configurations, the lines each
definition models, and the hazards the properties were chosen for.

## The system

| Component | State | Operations | Who it works with |
| --- | --- | --- | --- |
| Language server, scheduling (`internal/lsp/server.go`) | open documents, pending timers, settings, configuration, cached diagnostics, shutdown flag | initialized, didOpen, didChange, didSave, didClose, watched files, settings fetches, lint callbacks, shutdown, exit | runs the lint engine in a goroutine per callback |
| Run cache (`internal/lint/runcache.go`) | two maps of entries, each with a once | load, invalidate | read by the catalog rule in lint callbacks, invalidated by dispatch |
| Symbol index of the server (`internal/lsp/symbols.go`, `internal/index`) | nil, or an entry for each file | build, update, reload, drop | disk, open buffers, configuration |
| Command line and discovery (`cmd/mdsmith/main.go`, `internal/lint/files.go`, `internal/lint/gitignore.go`, `internal/discovery`) | none, but the rules of the ignore files | resolve arguments, walk, match, check, exit | the disk; the engine |
| Lint engine (`internal/engine`) | a counter, a slice of outcomes, a slice of slots for each file | Run, RunSource | rules; the command line; the server |
| Fixer (`internal/fix`) | the file being fixed, the report | Fix | rules; the disk |
| Merge driver (`cmd/mdsmith/mergedriver.go`) | Git's temporary files, the file in the working tree | merge, strip, place, fix, restore, conclude | `git merge-file`, the fixer |
| Generated sections (`internal/archetype/gensection`; rules include, catalog, toc) | none, but the sections of every file | pair markers, expand, generate, check, replace | the fixer; the files of the project; the run cache |
| Configuration (`internal/config`, `internal/convention`) | none | merge of defaults, conventions, kinds, overrides; the explanation of the result | everything |
| Schemas (`internal/schema`, `rules/requiredstructure`) | none | parse, compose, match, extract | the kinds of a file; the fixer, completion |
| Rename (`internal/rename`, `internal/linkgraph`, `internal/index`) | a transient index, the edits | compute, write, reply | the index; the disk; the editor |
| Git hooks (`internal/githooks`, `rules/githooksync`) | hook files, `.gitattributes`, Git's configuration, the drift cache, failed stagings | install, uninstall, check, fix, stage | Git; the user |
| Navigation (`internal/lsp/symbols.go`, `internal/index/locate.go`, `cmd/mdsmith/backlinks.go`) | none | definition, references, call hierarchy, outline, symbol search, completion, backlinks, deps | the index; the text under the cursor |
| Release tooling (`internal/release`) | the repository, the registries | stages of a release | GitHub, npm, PyPI |
| Single-file rules, metrics, queries, exporters, output, editors, packaging | none | pure functions and launchers | |

What is hard about it: the server's dispatch goroutine, its settings goroutines and its lint
callbacks share six pieces of state under five locks, and what the editor shows depends on the
order in which they take them; the engine has two nested pools of goroutines and promises the
output of a sequential run; the fixer and the merge driver change files of the user, and a
failing system call or a kill may come between any two steps; the fixer repeats rules that
may disturb each other's results, on files that are generated from each other; several pieces
of code walk the same data apart and have to agree (the merge of a configuration and its
explanation, the validation of a schema, its content checks and the extraction); and a rename or
an installation changes several files one after the other.

What makes each part correct:

- *Scheduling*: every edit is linted or superseded by one that is; a lint reads the newest
  text and configuration or another lint is on its way; when everything rests, the editor
  shows the diagnostics of what it holds; nothing starts after shutdown.
- *Run cache*: no reader gets what a file held before the last invalidation of it; a file is
  read once.
- *Symbol index*: an open buffer wins over the disk; when told of every change, the index has
  what is on the disk and was made with the configuration in force.
- *Lint engine*: the result does not depend on the schedule; the same finding is not reported
  twice; the two pools together do not oversubscribe the machine.
- *Command line*: check looks at the files that are meant, each once, whatever their spelling; exit code 0 means
  that none of them has a finding.
- *Fixer*: a file is whole at every moment; the report is about the disk; a second run
  changes nothing.
- *Merge driver*: the working tree is put back; exit code 0 means a merge without conflicts
  that loses no prose.
- *Single-file rules*: the fixes converge, leave nothing fixable, and change no block or word.
- *Generated sections*: authored lines survive; a file in which nothing is reported shows what
  it includes; what can be generated becomes clean.
- *Configuration*: what is explained is what runs; categories spare what the user named; no
  kind is missed.
- *Schemas*: a document is accepted when, and only when, it conforms; the three walks agree;
  composing loses no obligation.
- *Git hooks*: a fix ends the drift; the user's lines survive; a stale cache heals.
- *Rename*: what led to a heading leads to it afterwards; no link breaks.
- *Navigation*: what the server answers about a link, what the linter says of it and what list backlinks
  shows are about the same heading.

## Modules

| Module | What it models | Theorems |
| --- | --- | --- |
| `LspLint` | dispatch, settings fetches and lint callbacks of the server | `LspLint_proofs` |
| `RunCache`, abstract `FreshReads` | the run cache, its readers and invalidations | `RunCache_proofs` |
| `LspIndex` | configuration and index of the server, with its client | `LspIndex_proofs` |
| `CheckRun` on `EngineRun` and `Discovery`; `EngineRun` on `LintResult`, abstract `OneShotRun` | `mdsmith check`: arguments, files, the lint run, the exit code | `CheckRun_proofs` |
| `FixRun` | `mdsmith fix` with its writes, for any rules | `FixRun_proofs` |
| `FixRules` | twelve fixable rules under the fixer's loop | |
| `GeneratedSections` | the include, catalog and toc rules on the files of a project | |
| `MergeDriver` on `ConflictMarkers` | `mdsmith merge-driver run` | `MergeDriver_proofs` |
| `ConfigLayers` on `RuleConfig` | the configuration of a file and its explanation | `ConfigLayers_proofs` |
| `RequiredStructure` on `SchemaInline`, `SchemaSource`, `SchemaDocument`, `SchemaCompose`, `SchemaContent`, `SchemaMatch` | schemas read, composed and matched, and what a fix does | |
| `GitHooks` | hooks, attributes, their drift and their repair | `GitHooks_proofs` |
| `Rename` on `Navigation` and `WorkspaceLinks` | a rename over several files, and the server's answers about links | |

`MC*` modules give the constants values for TLC. An operator with an underscore in its name,
such as `Delete_Nothing`, is a plausible mistake in the operator without the suffix; no
specification uses it. Replacing the one by the other has to break the property that
`PROJECT.json` names beside it, which shows that the property depends on the code.

### LspLint

Actors are the dispatch goroutine (`Dispatcher`), the goroutines of `fetchClientSettings`
(`Fetchers`) and the callbacks of `time.AfterFunc`, one for each `*pendingLint` (`Tokens`). A
step is what one of them does between two points at which another may interfere: a critical
section, an atomic load, or a write to the client. `docs`, `mode`, `conf`, `shutdown`, `pending`
and `diags` are the server's fields; `shown` is what the client displays; `pc`, `op`, `cur`,
`todo`, `victims`, `lint`, `lintUri`, `lintText` are where the goroutines are and their local
variables. `initialized` loads the configuration before a document is open and lints nothing
(`HandleInitialized`). A text is the number of the edit it came from, and diagnostics are the number of the
text they are of, which is all that staleness asks. Tokens are allocated again when nothing
refers to them, so their number bounds the callbacks alive at once, not in the run.

`lsp_lint` has one document, one settings fetch that races dispatch, two edits and a
change of the configuration that ignores the document. It checks safety and liveness
under fairness. `LatestConfigCovered` says that each open document has been linted with the newest
configuration, or a timer or callback that will read it is registered, or dispatch is about to
register one (`LatestTextCovered` says it of the newest text); `SettledEditorIsCurrent` that
when no goroutine has anything left to do, the client shows the newest text's diagnostics,
unless an older lint published after a newer one; `TextIsPublished` that a text that stays is shown.

That exception is real: comments in the code claim that each URI has one lint at a time, but an
older lint may publish after a newer one, since the checks come before the lint and the write and
nothing orders the writes. For the same reason a lint may publish for a document closed
meanwhile or after `Run` returned, and hover may answer from diagnostics other than those
shown. `overlapped` marks the documents concerned. `NoStartAfterShutdown` is not repeated by the
run, because the theorem `ShutdownStartsNoLint` proves it.

Fairness: weak fairness of dispatch, of each settings goroutine and of each callback. The Go
scheduler runs every runnable goroutine, an armed timer fires, and no lock in the model is
held across a blocking call. The client is not fair: it may stop sending.

### RunCache

Two `sync.Map`s from paths to entries, an entry with its once, readers at the points of
`load`, and the dispatch goroutine at the points of `Invalidate`. `Return`, `LoadOrStore`,
`EnterOnce`, `Build` and `StoreValue` are the steps at which another reader or an
invalidation may come in between. Contents are the number of the file's last change.

`FreshReads` states what the rules may rely on: a read that starts after the server was told of
a change returns what the file held then or something newer. `run_cache` checks that RunCache
implements it (`ReadsAreFresh`), with two readers, a file with its two keys, one change and one message:
enough for a load before, during and after an invalidation, and for two loads of one entry.
A reader that waits at a once gets its entry in the end (`LoadsReturn`). A batch of watched changes
that also names the configuration invalidates nothing (`ToInvalidate` has the branch), so that the
cache keeps a Markdown file's old entry although the comment at server.go:608 says otherwise;
`ReadsAreFresh` counts a file as invalidated when `Invalidate` has run for it.

### LspIndex

The client, its messages in order (`inbox`), the dispatch goroutine, and one goroutine for each
`fetchClientSettings`. An index is nil or has for each file the text and the configuration of
its entry; symbols and edges are functions of both. `unseen` has the changes on the disk that
the client has not told of: the safety properties are about a server that has been told.
Simplified: the file that `mdsmith.config` may name is in the directory of `.mdsmith.yml` and
does not change, so the root stays; the build of the index is one step (dispatch waits for it,
and it takes the configuration once, at its start); the fetch of `initialized` is one of `Fetches`.

`lsp_index` has one fetch, that of `initialized` or a later one, which races dispatch, three
edits, a change of the configuration file, and two messages on their way. The variable `raced`
has two marks for the properties: that the reload that began last met another one, and that a
fetch put another configuration in force while there was an index. A fetch reloads the
configuration and keeps the index; only a change of a watched configuration file drops it.
The index then stays with the old configuration, so `IndexIsCurrent` (the entries of closed files
are those of the disk, and were made with the configuration in force) excepts this case, and
`ReloadsSettle` excepts reloads that meet. Two answers may also be applied in the wrong order, and
a file that is ignored, opened and closed stays in the index.

Fairness of `FairSpec`: weak, for dispatch, the fetches, the client's answers and its
notifications of changes on the disk. The first two are goroutines; the last two are what the
protocol asks of a client.

### EngineRun

`LintResult` has the functions of the engine: slots, the filter of generated sections, the
shift by the front matter, deduplication, order, the sizes of the pools, and `Reference`, the
sequential run. `EngineRun` has the goroutines: workers that take indices off an atomic
counter, checks of a file that fill slots under a semaphore, the join, the merge. What a rule
finds in a file is part of the job, so rules are arbitrary; whose instance a worker uses is
state (`rules`). `OneShotRun` is the promise of Run's comment: one return, and a result
that is a function of the input. `RunIsSequential` is the refinement.

`EachFindingOnce` takes a rule about the repository to be on for
all files or for none: `anyRepoScopedEnabled` asks about the empty path, which no kind applies to, so
the duplicates of a rule that only a kind turns on stay; they stay also when files have front
matter of different lengths, because lines are compared after the shift.

### Discovery and CheckRun

`Discovery` has the rules of `.gitignore` files (a pattern is a sequence, between its slashes, of the sets
of names that match), the order in which `NewGitignoreMatcher` comes by them, the walk below a directory that
was named and the one that starts without arguments, and arguments with their spelling: `..`, absolute
and relative, through links. `CheckRun` puts the command around `EngineRun`: a configuration
that may be broken, the resolution of the arguments, the size limit, the run, and the exit code.
Files are numbered in the order of their paths, and a spelled path is kept apart from the path it means,
because `addFile` compares the one and passes on the other.

`ChecksWhatIsMeant` compares the files that reach the engine with `Meant`, a definition that knows nothing of
matchers: the files that Git keeps, by Git's own reading of the patterns (`GitExcludes`), below each
directory that was named, and each file that was named itself, ignored or not. The code reads some
patterns otherwise than Git, and `ReadsAsGit` leaves them out: a directory that sorts before `.gitignore`
is walked before its parent's file, whose rules then override those of all ignore files below that
directory, however deep, although the comment on the matcher says from root to leaf; `*` matches the directory it is in, so that
`check .` finds nothing where `check` does; `dir/**` matches `dir`; `a/**/b` skips no directory, and matches
`b` at the top; rules above the repository apply. A directory that cannot be read ends a
walk with exit code 2, ignored or not, and `check - a.md` forgets `a.md`.

`engine_run` has 72 trees (nested ignore files with negations, anchored patterns, `**`, links to files
and directories, a pipe, an unreadable directory) under seventeen lists of arguments from two directories, the flags with
and against the configuration, and engines with one worker; and for the goroutines three files, five rules
(one for each way in which the engine treats a rule), up to three workers and CPUs, failing files, ignored
files, refused settings, a text on standard input, and findings in generated sections. Of its 1886
commands 1427 are on trees in which `ReadsAsGit` holds. `CheckEnds` says that each of them ends.

Fairness: weak, of each goroutine of the run and of the command's own. A check is a call that returns.

### FixRun

Files are read, fixed in passes, written through a temporary file and a rename, and checked
again, one after the other. `Finds` and `Repair` are what the rules report and do, for any
text and disk; a system call may fail (`MaxFaults`), the process may be killed (`Kill`), and
another program may write (`Save`).

`fix_run` has three files, of which one is ignored and any may be over the size limit, an
editor that may save once, a call that may fail, and texts of two kinds: plain ones, whose rules disturb
each other (aligning a table leaves trailing spaces, so that passes matter), and restless ones,
on which the rules never agree, so that the limit of ten passes is met. `FixIsIdempotent` is
about texts that settle within the limit and rules that read their own file. A file that includes
one fixed after it is reported clean and is not, against what the documents say of exit code 0;
without an include across files the report is that of the disk, and `Independent` says so in the
theorem. What includes do in fact is the subject of `GeneratedSections`.

### FixRules

Its first part is the parser as far as the rules look: paragraphs, headings of both styles,
thematic breaks, bullet lists, fenced and indented code. The rest is MDS002, 006 to 010, 013 to
015, 044, 045 and 064, each as its own code finds places and rewrites them, and the loop that runs
them in the order of their numbers, each on a fresh parse.

`fix_rules` runs the loop on every document of up to four lines out of fourteen kinds of line, and
of five and six lines of fences, text and blank lines, with the default styles and with the other
ones. `FixConverges` says that the limit of passes is never met, `CleanAfterFix` that nothing fixable
is left and no rule panics, `BlocksAreKept` that the blocks and words stay. `Plain` and `Separable` name
the documents on which the code does otherwise:

- the opening line of a fenced block without content is searched for from the block before it
  (fencepos.go), and another fence is found: MDS015 and MDS008 then undo each other in each pass,
  which counts as stable, or MDS010 cuts outside the text;
- MDS010 changes a fence and not the fences that its content shows; MDS009 has no place for a fence
  that nothing closes; MDS064 makes a heading of a word glued to a hash;
- MDS002 rewrites a setext heading of several lines as if it had one, and makes a setext heading
  that swallows the paragraph, or joins the list, above it; MDS045 joins two lists that differ in
  their bullets.

### GeneratedSections

A file is a sequence of lines: text, headings, links, the markers of a directive (one line each),
rows of a catalog, items of a toc, lines of a code block. A relative path is the file it leads to
and the directory it is written for, so that a path that is rebased wrongly is another path. The
functions are those of the engine (`FindMarkerPairs`, `Check`, `Fix`), of the include rule (expansion of
what is included, heading levels, links, source-dirs, wrapping, cycles and depth), of the catalog
rule and of the toc rule; the actions start a run, fix one file, and edit one. `written` is what
authors wrote, with empty sections; `Shown` says from it alone what a file should show.

A catalog has globs, the files that each one matches in a directory or below it: they are rebased
onto its source-dir, scanned up to the root when they climb with "..", joined, and thinned by the
negated ones, by the git-ignored files and by `where`; then come the sort, by path, by file name, by a
field as a text or as a number, in either direction, and the row; a value of it that would be a
directive is a hint, and the row is written all the same. A template is the one field that it names; a field in the wrong case is a hint
when nobody has it so.

`generated_sections` has four files in three directories, of four or five shapes each: nested and
wrapped includes, cycles, a missing file, a toc, markers out of order, and catalogs by number
backwards, of one file, of two directories, of the whole project, with a misspelt field, and of a
directory above the project. `MaxIncludeDepth` is 2 (10 in the code), so that chains reach the limit; three runs follow the
first text and the edit, one more than the nesting needs. `AuthoredIsKept` is about every state,
`CleanIsFlattened` and `WellFormedIsClean` about runs that have settled. One run is not enough, since a
catalog in an included file is expanded where it is included before it is generated where it
stands, although the comment at `expandNestedIncludes` claims a single pass. The conditions:

- `WellMarked`: with a stray end marker in an included file, the including file grows with every
  pass (generated-section.md says that malformed regions are left unchanged); with an unclosed
  start marker its section is never regenerated, even after the file is repaired; with one of
  each, the authored text between two sections is deleted;
- `LevelMisread`: `expandNestedIncludes` parses front matter as a heading of level 2, so that a nested
  include with adjusted levels differs from what the file itself shows;
- `TocTravels`: a file that includes a toc is never clean, because MDS038 lists its own headings
  where MDS021 wants the other file's;
- `ListsItsIncluder`: a catalog that lists a file that includes the catalog's file is refused;
- `Listable`: a catalog that the rule refuses, or that it has a hint for, keeps its file from being
  clean.

A catalog in an included file is sorted by the paths as the including file sees them when the catalog
rule regenerates it there, and as its own file sees them when the include rule does. The first
undoes the second in every pass and the include rule comes last, so the file is stable.

Left out, and known to go wrong: two tocs in a file (their text is taken at offsets of a text that
the first has changed), more than ten sections that depend on each other in a file, a cycle through
a directory that the catalog's scan cannot read, and a row with a file name outside a link.

### MergeDriver

A document is a sequence of section markers, conflict markers and lines of text.
`ConflictMarkers` has the pure parts: stripping conflict markers inside sections, the check for
the markers that remain, the pairing of section markers and the regeneration of their contents.
`git merge-file` is external: `OneConflict` and `Conflict` have what it writes for two sides
whose differences form one conflict, with or without the lines of the base. `MergeDriver` has the steps with their failures.
`GitMerges` says what git gives it: two sides whose sections are closed before another one opens, in which no
conflict was left, and as their merge one of the two or one conflict. A line "old" stands for the lines in a section and "prose"
for those around it. The run takes documents with one or two sections and prose around them.

A conflict that reaches from a section over prose into another is taken for resolved and the prose
of one side is lost; the file in the working tree is not put back when the fixed text cannot be
read; and a conflict in a section whose rule is off is stripped but not regenerated. The properties
that hold say for which conflicts the driver is right: those inside a section and those in prose.

### ConfigLayers

`RuleConfig` has one rule's configuration and how a later layer is merged onto it. `ConfigLayers` loads a
configuration, resolves the kinds of a file and then walks the layers: defaults, convention, user,
kinds, overrides, categories. Each step does what two pieces of code do with a layer: merge.go, whose
result runs, and provenance.go, whose result `kinds resolve` and `--explain` show.

`config_layers` has three rules (one with lists that append, one that is off by default, one that a
convention checks), the name of a rule that does not exist, two kinds, front matter, globs and fields, and overrides on the same rules.
`ExplainIsEffect` leaves out a kind that gives required-structure a schema and also switches it
off, where provenance.go shows what merge.go does not do (`Overrules`).

### RequiredStructure

One document and the schemas its kinds attach to it, from the settings in the layers of the
configuration to the tree that `extract` projects:

- `SchemaMatch` matches headings against scopes, greedily and with recovery. The same walk is written
  three times: in validation, in `ScopeRunIndices` for the content checks, and in the extraction
  (`SchemaContent`).
- `SchemaCompose` makes several schemas into one. `SchemaDocument` has what a schema asks beside
  headings: front matter, headings that quote it with the cache of what they are compiled to, the rules
  of a section, cross references, acronyms and the index. `SchemaSource` reads schema files and
  has the walk over a schema file that stands alone, with the sync of headings and body lines.
  `SchemaInline` reads inline schemas and settings: which are accepted, and what they become. CUE
  expressions and regular expressions are tables: the values they allow, the texts they match.
- `RequiredStructure` has the steps: `ApplySettings`, one of `NoSource`, `CheckSingleFile` and
  `ComposeSources`, then `CheckHeadings`, `CheckContent`, `Extract`. `mdsmith fix` repeats
  `FixDocument`; in the language server the user changes the front matter (`Edit`), and a code action
  (`OfferFix`) calls Fix on the buffer.

The properties compare the walks with a declarative reading of the schema: `DocConforms` asks for some
assignment of headings to scopes that keeps order and bounds, `FieldsHold`, `RefsHold` and
`AcronymsHold` say what the rest demands. `ComposedKeepsObligations` compares the outcome with every
source on its own, and `FixSettles` says what a fix changes and what it leaves.

`required_structure` has fourteen families of cases: seventeen lists of scopes, and every list of up to
three out of eight, open and closed, on every document of up to four headings; pairs of schemas;
content lists on up to five blocks; schema files alone and with another schema; two composed front
matters; headings that quote a field, under edits, with a cache that holds two; prose with
references, acronyms and words that rules report; the index in three modes on five disks; templates
of body lines; files that include each other, up to the depth limit; and layers of settings in
which one thing at a time is changed. `Cases` is a sequence of sets, one for each family.

What the properties except, and what the model shows of the code:

- `ConformingIsClean` is about schemas that can be read in one way (`Unambiguous`): where a slot of a
  closed list follows a scope that may be left out, or two scopes match one heading, greedy matching
  reports documents that conform. `CleanIsConforming` lets an open list hold a heading that matches a
  listed scope outside that scope's run: the code can absorb such a heading, although the comment at
  validate.go:676 says that it is reported. `WalkersAgree` excepts sections that `ScopeRunIndices`
  finds at another level or out of their order.
- One file as the only source and the same file among several are walked by different code, with
  other findings. Alone, its includes are read from the directory mdsmith runs in and not through the
  root, no shortcut is known, and `{n}` is a field; among several it is digits.
- Composition joins the constraints on a field: what only one value satisfies may be left out, although
  each source alone would have asked for it. Whether a level is closed and which acronyms are known are
  not kept from each source, but joined.
- A line of a template that is only a field stands for any line: a fix rewrites the lines of
  the section one per pass. Two such templates under one heading take turns on one line, so
  `LinesSettle` excepts lines that two templates stand for.
- A code action writes the index from a buffer that may never be saved. Two documents in one directory
  with one output overwrite each other's index.
- `schema: 5`, or another value of the wrong type, is dropped by `TranslateLayerSettings`, so the error
  `ApplySettings` has for it is not reported for a configuration file.

### GitHooks

The managed block is a function of lines. There is one process with workers that check, of which one
also fixes, with the cache of the drift and the record of a failed `git add`; a second process that
installs or uninstalls; a user who edits; failing calls, kills and restarts. A step is a system call
or a critical section.

`git_hooks` has a linter, a fixer, one installation, one edit, one fault and one restart. `FixEndsDrift`
says that what a fix writes is read back as what the configuration asks for, `UserLinesKept` that the
lines outside the block stay, `StaleDriftHeals` that a drift put back into the cache by a linter that
looked before the fix goes away. `Fairness` is weak, of the workers: a check or a fix that has begun
goes on, and fix is asked for again, as the rule's message tells the user to. The lines after a block that lost its end go with it; a pattern
that begins with a hash is written as a comment; and a failed `git add` is forgotten at a restart,
after which the file is in sync, not staged, and nothing is reported.

### Rename

`WorkspaceLinks` has headings, their slugs with the numbers that equal slugs get, links,
definitions, the edges of the index and the broken links of MDS027. `Rename` has the edits of a
heading's and of a label's rename, the command that writes the files in the order of a Go map, a write
that fails or a kill, a second run of the command, and the reply to an editor, which is applied at once.

`rename` has every sequence of up to three headings out of four texts, renamed to each of six, with
links, pictures, references and definitions in two discovered files; and renames of labels.
`ReferencesFollow` is the promise of the command; `SlugIsReused` excepts a second run after numbers
have shifted, which rewrites twice, and `Hidden` a link around an image with the same fragment.
A new slug that is another heading's number is accepted, and numbers shift silently, where
docs/features/rename.md says that the rename fails. If the heading's file was written before a failure,
the second run finds no heading and exits with 1, with the other files as they were.

`Navigation` has the symbols of a file with its front matter and directives, the token under the cursor,
and the requests that are answered from the two: definition, references, the call hierarchy, the outline,
symbol search, prepareRename, completion of anchors, labels, paths and kinds, `list backlinks` and `deps`,
which read the files by themselves. Five pieces of code number equal
slugs or walk links apart from each other here. `NavigationAgrees` says, of every job's files before and
after the rename, that a link with a fragment is listed under exactly one heading when MDS027 accepts
it and under none when it does not, that definition leads to that heading, that the outgoing
calls of a section are the links and directives that the outline has under it, that incoming calls are the
backlinks from other files, that a file which a directive names has the directive among its references, that
every heading is found by a search for it, that what completion offers at a cursor resolves, and that where
prepareRename offers a name, the rename that follows finds the same heading or label. A label's definition may be shown in a
code block before it (`DefShaped`). Headings have two levels; directives are in one file, whose
kinds come from its front matter or from an assignment.

## What is proved

TLAPS proves each theorem of `PROJECT.json` for every value of the constants that the named
assumptions allow. The argument is always an inductive invariant: it holds initially, each
action preserves it, and it implies the property.

- `LspLint_proofs`: `TypeInv` adds to the types that a callback has a document as long as it
  is alive. `PendingInv` adds `Replaced`: a token that dispatch has taken out of the map and
  not yet stopped is the only one that may be armed and not registered. Without it, a
  step of another goroutine between the two would refute the property. `CoverInv` adds that a callback
  never holds a newer text than the store. `ConfigInv` is `LatestConfigCovered` with a lint that is due
  whatever the run mode (`RelintDue`): in onSave mode a didChange on its way does not count; `Sent` says
  that no document is open when `initialized` reloads without a lint. `EditorInv`
  says of a document without an overlap that at most one of its lints is under way, and what each step of
  that lint carries to the next (`CarriesResult`); with `CoverInv` and `ConfigInv` it gives
  `SettledEditorIsCurrent`.
- `RunCache_proofs`: the invariant ties the entry of each key to the oldest contents a load
  of it may return, whether the entry is new, being built or built; the refinement maps that
  floor to the abstract one. `BudgetInv` counts the entries of a key that are still to be built, and one
  more if the map has none: these are the reads that may come, and never more than the invalidations have
  paid for (`Paid`), although a reader may hold an entry that is in the map no longer.
- `CheckRun_proofs`, the engine: the outcomes below the counter are either filled with the sequential
  outcome or in the hands of exactly one worker, whose slots hold what the sequential check finds (`Inv`), so
  that the result is `SequentialResult` (`ResultInv`). What that contains is then a matter of sequences:
  `Flattened` says of a concatenation of any number of sequences which elements it has and when it
  repeats none, `Sieved` what a filter leaves, `Sorted` that the stable sort keeps every diagnostic (its
  ranks are a bijection, `Ranks`), `Deduped` that the first of equal ones stays. `FindingsAreReportedOnce` needs
  `ProperInput`: a rule names itself and does not repeat itself (`RulesAreProper`), no file is named twice
  (`NamedOnce`), and a rule about the repository that is on for a file is on for the run (`GlobalWhenOn`);
  without the last the engine does not look for duplicates, as `anyRepoScopedEnabled` asks about no file.
  `ReportsAreFindings` needs nothing: what is reported was found.
- `CheckRun_proofs`, the command: `Abs` is a recursion over the names of a spelled path (`AbsIs`), and a path
  goes on from what it begins with (`AbsExtends`), so that a file below a directory has the path it was found at
  however the directory was spelled (`SpelledIs`). `Consistent` is kept by every step of the resolution: the
  paths seen are those of the result, one spelling of each. `CommandReportsOnce` is then free of
  `NamedOnce`. `ExitInv` has the reasons for the exit codes 0 and 1, and `NoErrorsNoFailures` says that no error
  is lost in the merge. Assumed of a command (`CheckRunAssumption`): its types, that standard input is one buffer,
  and that its tree is one that a disk can hold (`IsTree`).
- `CheckRun_proofs`, the ignore files: a path has levels, the rules of each directory from the root down to
  it. `Agrees` says that a sequence of rules decides as the levels do, of which the deepest with a rule that
  matches has the last word. The matcher is taken apart level by level (`MatcherIs`); where no rules lie below a directory of
  `Early`, the walk agrees with the levels it comes by (`WalkAgrees`), and with the rules above its start the matcher
  agrees with all of them (`MatcherAgrees`), as Git's rules do with those inside the repository (`GitAgrees`). `IgnoresAsGit` is
  then about a single path, and `WalkIs` and `DiscoverIs` carry it to the walks: they find the files that Git
  keeps. `PathMeans` says what one spelled path adds to the result, `ArgMeans` and `ArgsMean` what every list of
  arguments adds. With `ResolvedInv` (the job's files are those of the resolution) and `Counted` that is
  `CommandChecksWhatIsMeant`. Its hypothesis `InRepository` says that the disk has one repository, in which the working
  directory and every directory that is named lie, that the matches of a glob exist, and that a link to a directory on the
  way to a path is below `ancestorStopBoundary`, where the code looks for links. Every command of the run
  satisfies it. The proof found two mistakes of the model: `ReadsAsGit` allowed rules deeper below a directory of `Early`,
  which come first as well, and a path such as `z/../x` was found though there is no `z`, where `os.Lstat` fails.
- `FixRun_proofs`: `WriteInv` says what the temporary file holds at each step of the write;
  `DiskInv` relates disk, memory and the list of modified files; `ReportInv` relates the
  report to the disk. `SecondRunIsIdle` needs that `Turns` and `Passes` are what their recursions say
  (`Iteration`) whatever disk they are taken at (`TurnsOfAnyDisk`), and `PassInv`: the text in work is that of
  the turn and the pass, and each pass before changed it, so that a text left at the limit is one for
  which ten passes do not suffice. Assumed (`ReadOwnFile`): what a rule finds and makes of a text does
  not depend on other files.
- `MergeDriver_proofs`: the backup is what the pathname held, from its reading to the restoring (`Inv`). `Flow` says
  that the steps hand on git's merge, that merge stripped, and that fixed, so that a run that ends with 0 or 1
  has the result of the pure parts, `Result`. What that is for a conflict is proved for every document. `HunkIs` splits two sides into what they share before
  and after, and what they differ in. Stripping, the pairing of markers and fixing read a document line by line;
  `StripsTo`, `Paired` and `Regenerates` follow each of them, with `Sections` for whether a section is open
  after a line. Lines without section markers can take each other's place without moving a section (`Transported`), so the two sides of
  a conflict in a section, and what stripping leaves of it (`StripsConflict`), are fixed to the same text (`SameFix`). A
  conflict in prose is neither stripped (`StripsNothing`) nor in a section, and its opening marker stays (`MarkerStays`).
  Assumed: `GitMerges`, which TLC evaluates for the jobs of the run.
- `ConfigLayers_proofs`: `ExplanationIsTrue` from the invariant that the two walks know the same rules
  with the same settings after each layer; the lemmas show that an entry a kind adds before a merge or
  to the layer that is merged comes to the same. `NoFieldIsMissed` says that a front matter that
  `NeedsFieldsForFile` leaves unparsed has no kind to give. `ChainsTellTheValue` is an induction over the
  layers (`Told`): what the chain up to a layer says of a setting is what the merges up to it made, whether
  it replaces, appends or merges; `TheUserIsSpared` needs that the rules named explicitly are those
  with a layer of the user's (`Spared`). Assumed: users do not write the two keys that kinds add to, those
  keys' lists append, and a configuration has the shape of the Go types that config.go decodes it into
  (`ConfigTypes`); a rule may be misspelt, and then belongs to no category.
- `GitHooks_proofs`: `Typed` says that the file and what was read from it are sequences of lines. The
  lemmas are about the recursive functions of the block: `Keep` distributes over concatenation and keeps
  order, `BlockIsFound` says where `FindBegin` and `FindAfter` find the block in what was written,
  `ReadsBack` that `Patterns` reads from it what `RenderManagedBlock` wrote. `FixesEndTheDrift` and
  `UsersKeepTheirLines` follow for a file with any number of blocks, whole or torn. Assumed
  (`GitHooksTypes`): files are made of lines, and no pattern of `DefaultIncludes` is a comment.
- `LspIndex_proofs`: `OpenBufferWins` is inductive with the types, for any settings and
  reloads. `ClosedFilesMatchDisk` needs `WillMatch`: an entry of a closed file is that of the
  disk, or a change is not yet told or its message is still in the inbox. `ConfigFollowsFile`
  needs `RInv`: at most one reload is under way, and either a change is still to be reported,
  a fetch is about to reload, the reload under way holds the right configuration, or there is
  none and the right one is in force. `IndexStaysCurrent` puts together the two theorems about
  closed files and about the configuration.

Some theorems state more than a run repeats (types, `NoStaleLoad`, `NoStartAfterShutdown` and others
that TLC found to hold and a proof now covers).

Only model-checked: every liveness property, since TLAPS has no proof rule for `ENABLED` here;
what folds and RECURSIVE operators compute (all of `FixRules`, `GeneratedSections`,
`RequiredStructure` and `Rename`), for which
tlapm has no rule. Outside `InRepository` (a second repository inside the first, arguments outside any)
nothing is claimed of `ChecksWhatIsMeant`.
Recursive functions are within reach: the library's facts about well-founded orders on finite sets give the
least number of a set, and that gives an induction over numbers and over sequences (`NatInd`, `SeqInd`),
stated of a set where the library states it of a predicate.

## Bounds

Every bound is a constant with `Max` in its name, or the size of a set. They were raised until
the interesting cases happened (each action fires in some run, and each property has a mistake that
breaks it in the same run), and lowered until TLC ended in a minute or two. Two documents, two
readers, two workers and one failure are enough for the properties here, each of which relates
at most two actors and one resource; the theorems have no bounds.

Deadlock is not checked in runs of a system that may stop: a program that has ended, or a server
whose client is silent.

The runs of the pure parts (`FixRules`, `RequiredStructure`, `ConfigLayers`, `Rename`, the arguments of `CheckRun`) enumerate their
inputs up to a size at which each branch of the functions is taken by some input.

## Not modelled

- Most single-file rules, metrics, queries, exporters and output are functions of one text that keep
  no state and meet no other actor; a model would repeat them line by line. The twelve rules in
  `FixRules` are those whose fixes feed each other.
- goldmark, CUE, YAML and Git are external, and modelled by what the code relies on.
- The expansion of globs on the disk, flag parsing, help, init and query.
- Hover and code actions.
- Inside the modelled parts: the text of templates, columns and their widths in catalogs; hints in the
  diagnostics of schemas and the captures an extraction takes from headings; site-absolute links.
- Release tooling, the corpus tools, launchers, the website and the editor extension.

`PROJECT.json` gives the reason for each component.

## Plan

1. The other fixable rules (tables, ordered lists, links) in `FixRules`, with quotes and nested lists
   in its parser.
2. Index contents under add, replace and remove; refinement of the entry in `LspIndex`.
3. Release: stages that are run again after one failed.
4. Composition of `LspLint` and `RunCache`, whose readers are the callbacks.

Theorems to prove next: the edits of a rename for any links; and the refinement of the composition.
