-------------------------------- MODULE Rename --------------------------------
(***************************************************************************)
(* Renaming a heading or a link-reference label (internal/rename), from    *)
(* mdsmith rename, which builds an index, computes the edits and writes    *)
(* the files one after the other in the order of a Go map, and from the    *)
(* language server, whose client applies all edits at once.                *)
(* A write may fail or the process be killed; the user then runs the same  *)
(* command again.                                                          *)
(***************************************************************************)
EXTENDS Navigation

CONSTANTS
    Files,          \* the files on the disk
    Discovered,     \* those that discovery finds and the index knows
    Jobs,           \* what is renamed, and what the disk holds
    BadLabel,       \* a name with a bracket, a newline or nothing in it
    MaxRuns         \* bound on the runs of the command

ASSUME RenameAssumption ==
    /\ Discovered \subseteq Files
    /\ \A j \in Jobs : j.target \in Discovered /\ DOMAIN j.disk = Files
    /\ MaxRuns \in Nat \ {0}

VARIABLES
    job,        \* mode, surface, target, line or old, new, disk
    disk,
    pc,         \* "index", "compute", "apply", "done", "stopped"
    idx,        \* the transient index
    changes,    \* pairs of a file and an edit of it
    written,    \* the files this run has rewritten
    exit,
    runs

vars == <<job, disk, pc, idx, changes, written, exit, runs>>

-----------------------------------------------------------------------------
(***************************************************************************)
(* The edits of a heading's rename.                                         *)
(***************************************************************************)
Edit(line, col, new) == [line |-> line, col |-> col, new |-> new]

FindHeadingLine(doc, text) ==
    {i \in DOMAIN doc :
        /\ doc[i].text = text
        /\ \A k \in 1 .. i - 1 : doc[k].text # text}

Renamed(doc, line, new) == [doc EXCEPT ![line].text = new]

\* Another heading has the new text's bare slug.
headingConflict(doc, line, new) ==
    /\ Slugify(new) # Slugify(doc[line].text)
    /\ \E i \in DOMAIN doc \ {line} :
            doc[i].text # NoFrag /\ Slugify(doc[i].text) = Slugify(new)

slugRemapPairs_TargetOnly(doc, line, new) ==
    LET k == CHOOSE h \in DOMAIN HeadingLines(doc) : HeadingLines(doc)[h] = line
    IN {<<Slugs(doc)[k], Slugs(Renamed(doc, line, new))[k]>>}

slugRemapPairs(doc, line, new) ==
    LET old == Slugs(doc)
        neu == Slugs(Renamed(doc, line, new))
    IN {<<old[k], neu[k]>> : k \in {h \in DOMAIN old : old[h] # <<>> /\ old[h] # neu[h]}}

\* From the link's text on, the first inline destination of the row whose
\* fragment is the slug.
anchorFragment(row, col, slug) ==
    LET match == {j \in col .. Len(row) : /\ row[j].kind \in {"link", "picture", "image"}
                                          /\ FragSlug(row[j]) = slug}
    IN {j \in match : \A k \in match : j <= k}

anchorEditsForEdge(e, neu) ==
    IF e.line \in DOMAIN disk[e.source]
    THEN {<<e.source, Edit(e.line, j, Text(neu, 0))>> :
            j \in anchorFragment(disk[e.source][e.line].items, e.col, e.anchor)}
    ELSE {}

anchorEditsForHeading(file, old, neu) ==
    UNION {anchorEditsForEdge(e, neu) : e \in IncomingEdges(idx, file, old)}

refDefDestPointsAt(item, defFile, file, slug) ==
    /\ FragSlug(item) = slug
    /\ \/ item.to = file
       \/ item.to = Self /\ defFile = file

refDefDestEditsForHeading_OwnFile(file, old, neu) ==
    {<<file, Edit(i, 1, Text(neu, 0))>> :
        i \in {d \in Defs(disk[file]) :
                    refDefDestPointsAt(disk[file][d].items[1], file, file, old)}}

refDefDestEditsForHeading(file, old, neu) ==
    UNION {{<<f, Edit(i, 1, Text(neu, 0))>> :
                i \in {d \in Defs(disk[f]) :
                            refDefDestPointsAt(disk[f][d].items[1], f, file, old)}} :
            f \in DOMAIN idx}

HeadingEdits(file, line, new) ==
    {<<file, Edit(line, 0, new)>>}
    \cup UNION {anchorEditsForHeading(file, p[1], p[2])
                \cup refDefDestEditsForHeading(file, p[1], p[2]) :
                    p \in slugRemapPairs(disk[file], line, new)}

(***************************************************************************)
(* The edits of a label's rename, all in one file.  Uses that the parser   *)
(* resolved are links; figures are images, and not looked at.              *)
(***************************************************************************)
labelConflict(doc, old, new) == new # old /\ DefsOf(doc, new) # {}

linkRefEdits(file, old, new) ==
    {<<file, Edit(i, 1, new)>> : i \in DefsOf(disk[file], old)}
    \cup
    {<<file, Edit(p[1], p[2], new)>> :
        p \in {q \in Places(disk[file]) :
                    LET item == At(disk[file], q)
                    IN item.kind = "use" /\ item.label = old /\ Resolved(disk[file], item)}}

-----------------------------------------------------------------------------
ApplyTo(item, e) ==
    IF job.mode = "label" THEN [item EXCEPT !.label = e.new] ELSE [item EXCEPT !.frag = e.new]

EditsOf(f) == {c[2] : c \in {d \in changes : d[1] = f}}

applyEdits(doc, edits) ==
    [i \in DOMAIN doc |->
        [level |-> doc[i].level,
         text |-> IF \E e \in edits : e.line = i /\ e.col = 0
                  THEN (CHOOSE e \in edits : e.line = i /\ e.col = 0).new
                  ELSE doc[i].text,
         items |-> [j \in DOMAIN doc[i].items |->
            IF \E e \in edits : e.line = i /\ e.col = j
            THEN ApplyTo(doc[i].items[j], CHOOSE e \in edits : e.line = i /\ e.col = j)
            ELSE doc[i].items[j]]]]

Init ==
    /\ job \in Jobs
    /\ disk = job.disk
    /\ pc = "index" /\ runs = 1
    /\ idx = <<>> /\ changes = {} /\ written = {} /\ exit = 0

Stop(code) == pc' = "done" /\ exit' = code

\* buildRenameWorkspace: an empty file has no entry.
BuildRenameWorkspace ==
    /\ pc = "index"
    /\ pc' = "compute"
    /\ idx' = Build(disk, {f \in Discovered : disk[f] # <<>>})
    /\ UNCHANGED <<job, disk, changes, written, exit, runs>>

TargetLines ==
    IF job.surface = "cli" THEN FindHeadingLine(disk[job.target], job.old)
    ELSE {job.line} \cap {i \in DOMAIN disk[job.target] : disk[job.target][i].text = job.old}

ComputeHeading ==
    /\ pc = "compute" /\ job.mode = "heading"
    /\ \/ TargetLines = {} /\ Stop(1) /\ UNCHANGED changes
       \/ \E line \in TargetLines :
            LET doc == disk[job.target] IN
            CASE job.new = job.old -> Stop(1) /\ UNCHANGED changes
              [] job.new # job.old /\ (Slugify(job.new) = <<>> \/ headingConflict(doc, line, job.new)) ->
                    Stop(2) /\ UNCHANGED changes
              [] OTHER ->
                    /\ changes' = HeadingEdits(job.target, line, job.new)
                    /\ pc' = "apply" /\ UNCHANGED exit
    /\ UNCHANGED <<job, disk, idx, written, runs>>

ComputeLabel ==
    /\ pc = "compute" /\ job.mode = "label"
    /\ LET edits == linkRefEdits(job.target, job.old, job.new) IN
       CASE job.new = BadLabel \/ labelConflict(disk[job.target], job.old, job.new) ->
                Stop(2) /\ UNCHANGED changes
         [] job.new # BadLabel /\ ~labelConflict(disk[job.target], job.old, job.new) /\ edits = {} ->
                Stop(1) /\ UNCHANGED changes
         [] OTHER -> changes' = edits /\ pc' = "apply" /\ UNCHANGED exit
    /\ UNCHANGED <<job, disk, idx, written, runs>>

\* The client of the language server applies the edits of the reply.
ReplyToClient ==
    /\ pc = "apply" /\ job.surface = "lsp"
    /\ disk' = [f \in Files |-> applyEdits(disk[f], EditsOf(f))]
    /\ Stop(0)
    /\ UNCHANGED <<job, idx, changes, written, runs>>

Unwritten == {c[1] : c \in changes} \ written

WriteFile(f) ==
    /\ pc = "apply" /\ job.surface = "cli" /\ f \in Unwritten
    /\ disk' = [disk EXCEPT ![f] = applyEdits(disk[f], EditsOf(f))]
    /\ written' = written \cup {f}
    /\ IF Unwritten = {f} THEN Stop(0) ELSE UNCHANGED <<pc, exit>>
    /\ UNCHANGED <<job, idx, changes, runs>>

\* A write that fails, or a kill: the file is as it was, or truncated.
StopWriting(f) ==
    /\ pc = "apply" /\ job.surface = "cli" /\ f \in Unwritten
    /\ \/ UNCHANGED disk
       \/ disk' = [disk EXCEPT ![f] = <<>>]
    /\ pc' = "stopped" /\ exit' = 2
    /\ UNCHANGED <<job, idx, changes, written, runs>>

RunAgain ==
    /\ pc = "stopped" /\ runs < MaxRuns
    /\ pc' = "index" /\ runs' = runs + 1
    /\ exit' = 0 /\ changes' = {} /\ written' = {} /\ idx' = <<>>
    /\ UNCHANGED <<job, disk>>

Next ==
    \/ BuildRenameWorkspace \/ ComputeHeading \/ ComputeLabel \/ ReplyToClient
    \/ \E f \in Files : WriteFile(f) \/ StopWriting(f)
    \/ RunAgain

Spec == Init /\ [][Next]_vars

-----------------------------------------------------------------------------
(***************************************************************************)
(* What an item leads to: a file, and the heading of it that its fragment  *)
(* names, counted among the headings.                                       *)
(***************************************************************************)
Leads(d, f, item) ==
    LET dst == Destination(d[f], item)
        to  == IF dst.to = Self THEN f ELSE dst.to
    IN [file |-> to,
        heading |-> IF dst.frag = NoFrag \/ to \notin Files THEN {}
                    ELSE {k \in DOMAIN Slugs(d[to]) :
                            FragSlug(dst) # <<>> /\ Slugs(d[to])[k] = FragSlug(dst)}]

IsReference(doc, item) ==
    \/ item.kind \in {"link", "picture"}
    \/ item.kind = "use" /\ Resolved(doc, item)

\* The image a picture is around has a fragment of the same slug, and the
\* rename finds that one first.
Hidden(doc, p) ==
    /\ At(doc, p).kind = "picture"
    /\ FragSlug(At(doc, <<p[1], p[2] - 1>>)) = FragSlug(At(doc, p))

Truncated(f) == disk[f] = <<>> /\ job.disk[f] # <<>>

\* A slug that one heading loses and another one takes: a second run would
\* rewrite again what the first has rewritten.
SlugIsReused ==
    /\ job.mode = "heading"
    /\ \E line \in FindHeadingLine(job.disk[job.target], job.old) :
        LET pairs == slugRemapPairs(job.disk[job.target], line, job.new)
        IN \E p, q \in pairs : p[2] = q[1]

IsRenamed ==
    /\ pc = "done" /\ exit = 0
    /\ \A f \in Files : ~Truncated(f)
    /\ runs = 1 \/ ~SlugIsReused

(***************************************************************************)
(* After a rename that ends with 0, at once or when it was stopped and run *)
(* again, every link of a discovered file that led to a heading, this one  *)
(* or one whose number has shifted, leads to that heading still.           *)
(***************************************************************************)
ReferencesFollow ==
    IsRenamed => \A f \in Discovered :
        \A p \in Places(job.disk[f]) :
            LET item == At(job.disk[f], p)
                led  == Leads(job.disk, f, item)
            IN (/\ IsReference(job.disk[f], item)
                /\ ~Hidden(job.disk[f], p)
                /\ Destination(job.disk[f], item).frag = NoFrag \/ led.heading # {}) =>
                    /\ IsReference(disk[f], At(disk[f], p))
                    /\ Leads(disk, f, At(disk[f], p)) = led

(***************************************************************************)
(* After a rename that ends with 0, MDS027 reports no place of a           *)
(* discovered file that it did not report before; images are not renamed.  *)
(***************************************************************************)
NotRenamed(f, p) == At(disk[f], p).kind \in {"image", "figure"} \/ Hidden(job.disk[f], p)

NoNewBrokenLink ==
    IsRenamed =>
        \A f \in Discovered :
            {p \in BrokenLinks(disk, f) : ~NotRenamed(f, p)} \subseteq BrokenLinks(job.disk, f)

(***************************************************************************)
(* Where prepareRename offers a name, and only there, the rename has edits, *)
(* and what is offered is among what they change.                            *)
(***************************************************************************)
handleRename(file, p, new) ==
    LET res == Locate(file, disk[file], p) IN
    CASE res.tag = "Heading" -> HeadingEdits(file, p[1], new)
      [] res.tag = "RefDef" /\ p[1] \in Defs(disk[file]) -> linkRefEdits(file, res.label, new)
      [] res.tag = "RefUse" -> linkRefEdits(file, res.label, new)
      [] OTHER -> {}

NameFits(p, f) == (job.mode = "heading") <=> (disk[f][p[1]].text # NoFrag)

OffersAreRenamed ==
    \A f \in DOMAIN idx : \A p \in {q \in Cursors(disk[f]) : NameFits(q, f)} :
        LET offer == prepareRenameAt(f, disk[f], p)
            edits == handleRename(f, p, job.new)
        IN /\ offer = {} <=> edits = {}
           /\ \A o \in offer : \E c \in edits : c[1] = f /\ <<c[2].line, c[2].col>> = o

(***************************************************************************)
(* Before the rename and after it the language server's answers, MDS027,   *)
(* the outline, deps and list backlinks agree about every link, directive  *)
(* and kind.                                                                 *)
(***************************************************************************)
NavigationAgrees ==
    /\ pc \in {"index", "done"} =>
        LET entries == EntriesOf(disk, Discovered)
        IN /\ LinksAreFound(entries, disk)
           /\ DirectivesAreFound(entries, disk)
           /\ CallsFollowOutline(entries, disk)
           /\ SymbolsAreFound(entries, disk)
           /\ OffersResolve(entries, disk)
    /\ pc = "compute" => OffersAreRenamed
===============================================================================
