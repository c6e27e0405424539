------------------------------ MODULE Discovery ------------------------------
(***************************************************************************)
(* Which files a command works on: the rules of the .gitignore files       *)
(* (internal/lint/gitignore.go), the resolution of file, directory and     *)
(* glob arguments (internal/lint/files.go), and the files found when there *)
(* are none (internal/discovery).                                          *)
(*                                                                         *)
(* A path is a sequence of names from the root of the file system.  A tree *)
(* is what the disk holds: the kind of each path, the rules of each        *)
(* .gitignore by its directory, the directories symbolic links lead to,    *)
(* and the directories that hold a .git.                                    *)
(***************************************************************************)
EXTENDS Integers, FiniteSets, SequencesExt

CONSTANTS
    Names,      \* names of files and directories
    Early,      \* those that sort before ".gitignore"
    Markdown,   \* those with a Markdown extension
    Here,       \* ".", a path relative to itself
    Up,         \* ".."
    Stars       \* "**" in a pattern

ASSUME DiscoveryAssumption ==
    /\ Early \subseteq Names /\ Markdown \subseteq Names
    /\ Here \notin Names /\ Up \notin Names

Kinds == {"dir", "file", "fifo", "locked", "link", "dirlink", "broken"}

Under(d, p) == IsPrefix(d, p)
From(d, p) == SubSeq(p, Len(d) + 1, Len(p))

-----------------------------------------------------------------------------
(***************************************************************************)
(* Patterns.  A pattern is a sequence, between its slashes, of sets of the *)
(* names a part matches, or Stars; the parts before a last Stars are names. *)
(***************************************************************************)
Pattern(negate, dirOnly, hasSlash, parts) ==
    [negate |-> negate, dirOnly |-> dirOnly, hasSlash |-> hasSlash, parts |-> parts]

\* A line of a .gitignore file.
IgnoreLine ==
    [negate : BOOLEAN, dirOnly : BOOLEAN, hasSlash : BOOLEAN,
     parts : Seq({Stars} \cup SUBSET (Names \cup {Here}))]

\* What a disk can hold: every path lies in a directory, and so do ignore files.
IsTree(tree) ==
    /\ DOMAIN tree.kind \subseteq Seq(Names)
    /\ \A p \in DOMAIN tree.kind :
        /\ tree.kind[p] \in Kinds
        /\ \A q \in Prefixes(p) \ {p} : q \in DOMAIN tree.kind /\ tree.kind[q] = "dir"
    /\ DOMAIN tree.ignore = {p \in DOMAIN tree.kind : tree.kind[p] = "dir"}
    /\ tree.git \subseteq DOMAIN tree.ignore
    /\ tree.ignore \in [DOMAIN tree.ignore -> Seq(IgnoreLine)]

Glob(parts, rel) ==
    /\ Len(parts) = Len(rel)
    /\ \A i \in DOMAIN parts : rel[i] \in parts[i]

matchDoublestar(parts, rel) ==
    LET stars  == {i \in DOMAIN parts : parts[i] = Stars}
        star   == CHOOSE i \in stars : TRUE
        before == SubSeq(parts, 1, star - 1)
        after  == SubSeq(parts, star + 1, Len(parts))
    IN CASE Cardinality(stars) > 1 ->
                Glob([i \in DOMAIN parts |-> IF i \in stars THEN Names \cup {Here} ELSE parts[i]], rel)
         [] Cardinality(stars) = 1 /\ star = 1 ->
                after = <<>> \/ \E i \in DOMAIN rel : Glob(after, SubSeq(rel, i, Len(rel)))
         [] Cardinality(stars) = 1 /\ star > 1 /\ after = <<>> ->
                Glob(before, SubSeq(rel, 1, Len(before)))
         [] Cardinality(stars) = 1 /\ star > 1 /\ after # <<>> ->
                \E i \in 0 .. Len(rel) - 1 :
                    /\ i = 0 \/ Glob(before, SubSeq(rel, 1, i))
                    /\ Glob(after, SubSeq(rel, i + 1, Len(rel)))
         [] OTHER -> Glob(parts, rel)

\* A rule's own directory is "." to it.
matchRule(r, p) ==
    LET rel == IF p = r.base THEN <<Here>> ELSE From(r.base, p)
    IN /\ Under(r.base, p)
       /\ \/ matchDoublestar(r.parts, rel)
          \/ ~r.hasSlash /\ p # <<>> /\ matchDoublestar(r.parts, <<Last(p)>>)

parseGitignoreFile(tree, d) ==
    LET lines == tree.ignore[d]
    IN [i \in DOMAIN lines |->
            [base |-> d, negate |-> lines[i].negate, dirOnly |-> lines[i].dirOnly,
             hasSlash |-> lines[i].hasSlash, parts |-> lines[i].parts]]

(***************************************************************************)
(* The rules that may match p, in the order of the matcher made for root:  *)
(* those above root from the top down, then those that a walk in the order *)
(* of names comes by.  Rules of other directories match no path above or   *)
(* below p, and are left out.                                               *)
(***************************************************************************)
collectAncestorGitignores(tree, root) ==
    FlattenSeq([i \in DOMAIN root |-> parseGitignoreFile(tree, SubSeq(root, 1, i - 1))])

NewGitignoreMatcher_Reversed(tree, root, p) ==
    FlattenSeq([i \in 1 .. Len(p) + 1 |->
        LET d == SubSeq(p, 1, Len(p) + 1 - i)
        IN IF d \in DOMAIN tree.ignore THEN parseGitignoreFile(tree, d) ELSE <<>>])

NewGitignoreMatcher(tree, root, p) ==
    LET Own(n) == LET d == SubSeq(p, 1, n)
                  IN IF d \in DOMAIN tree.ignore THEN parseGitignoreFile(tree, d) ELSE <<>>
        from[n \in 0 .. Len(p) + 1] ==
            IF n > Len(p) THEN <<>>
            ELSE IF n < Len(p) /\ p[n + 1] \in Early THEN from[n + 1] \o Own(n)
            ELSE Own(n) \o from[n + 1]
    IN collectAncestorGitignores(tree, root) \o from[Len(root)]

\* The last of the rules that match decides.
LastExcludes(rules, hits) ==
    \E i \in hits : (\A j \in hits : j <= i) /\ ~rules[i].negate

IsIgnored(rules, p, isDir) ==
    LastExcludes(rules, {i \in DOMAIN rules : (rules[i].dirOnly => isDir) /\ matchRule(rules[i], p)})

isGitignored(tree, root, p) ==
    IsIgnored(NewGitignoreMatcher(tree, root, p), p, tree.kind[p] \in {"dir", "locked"})

-----------------------------------------------------------------------------
(***************************************************************************)
(* The two walks.                                                           *)
(***************************************************************************)
\* The walk comes to p: none of the directories in between is skipped.
Visited(tree, root, p, useGitignore) ==
    /\ Under(root, p)
    /\ useGitignore => \A q \in Prefixes(p) \ {p} : Under(root, q) => ~isGitignored(tree, root, q)

Readable(tree, p, follow) == tree.kind[p] \in IF follow THEN {"file", "link"} ELSE {"file"}

\* A directory that cannot be read ends the walk, ignored or not.
WalkFails(tree, root, useGitignore) ==
    \E p \in DOMAIN tree.kind : tree.kind[p] = "locked" /\ Visited(tree, root, p, useGitignore)

walkDir(tree, dir, opts) ==
    {p \in DOMAIN tree.kind :
        /\ Visited(tree, dir, p, opts.gitignore)
        /\ Readable(tree, p, opts.follow)
        /\ opts.gitignore => ~isGitignored(tree, dir, p)
        /\ Last(p) \in Markdown}

\* Discover: the directory it starts from is not asked about.
DiscoverVisits(tree, cwd, p, useGitignore) ==
    /\ Under(cwd, p)
    /\ useGitignore =>
        \A q \in Prefixes(p) \ {p, cwd} : Under(cwd, q) => ~isGitignored(tree, cwd, q)

DiscoverFails(tree, cwd, opts) ==
    \E p \in DOMAIN tree.kind :
        tree.kind[p] = "locked" /\ DiscoverVisits(tree, cwd, p, opts.gitignore)

Discover(tree, cwd, patterns, opts) ==
    {p \in DOMAIN tree.kind :
        /\ p # cwd
        /\ DiscoverVisits(tree, cwd, p, opts.gitignore)
        /\ Readable(tree, p, opts.follow)
        /\ opts.gitignore => ~isGitignored(tree, cwd, p)
        /\ Last(p) \in patterns}

-----------------------------------------------------------------------------
(***************************************************************************)
(* Arguments.  A path is spelled from the root or from the working         *)
(* directory, with ".." in it; a glob is the set of its matches.           *)
(***************************************************************************)
Step(d, name) == IF name # Up THEN Append(d, name) ELSE IF d = <<>> THEN d ELSE Front(d)
Abs(cwd, arg) ==
    LET upTo[n \in 0 .. Len(arg.segs)] ==
            IF n = 0 THEN IF arg.abs THEN <<>> ELSE cwd
            ELSE Step(upTo[n - 1], arg.segs[n])
    IN upTo[Len(arg.segs)]

gitProjectRoot(tree, p) ==
    LET roots == {d \in Prefixes(p) \ {p} : d \in tree.git}
    IN {d \in roots : \A e \in roots : Len(e) <= Len(d)}

\* Under the working directory that, else the repository's root, else none.
ancestorStopBoundary(tree, cwd, p) ==
    IF Under(cwd, p) /\ p # cwd THEN {cwd} ELSE gitProjectRoot(tree, p)

hasSymlinkAncestor_Cleaned(tree, cwd, arg) ==
    LET p == Abs(cwd, arg)
    IN \E stop \in ancestorStopBoundary(tree, cwd, p), q \in Prefixes(p) \ {p} :
          Under(stop, q) /\ q # stop /\ q \in DOMAIN tree.kind /\ tree.kind[q] = "dirlink"

\* The directories named on the way, before ".." takes any of them back.
hasSymlinkAncestor(tree, cwd, arg) ==
    \E stop \in ancestorStopBoundary(tree, cwd, Abs(cwd, arg)), n \in 1 .. Len(arg.segs) - 1 :
        LET q == Abs(cwd, [arg EXCEPT !.segs = SubSeq(arg.segs, 1, n)])
        IN /\ arg.segs[n] # Up
           /\ Under(stop, q) /\ q # stop
           /\ q \in DOMAIN tree.kind /\ tree.kind[q] = "dirlink"

Spelled(arg, cwd, p) == [arg EXCEPT !.segs = @ \o From(Abs(cwd, arg), p)]

\* The files of one argument have different paths.
addFiles_BySpelling(acc, cwd, files) == [acc EXCEPT !.result = @ \cup files]

addFiles(acc, cwd, files) ==
    LET new == {f \in files : Abs(cwd, f) \notin acc.seen}
    IN [acc EXCEPT !.seen = @ \cup {Abs(cwd, f) : f \in new}, !.result = @ \cup new]

addDirFiles(acc, tree, cwd, arg, opts) ==
    LET dir == Abs(cwd, arg)
    IN IF WalkFails(tree, dir, opts.gitignore) THEN [acc EXCEPT !.failed = TRUE]
       ELSE addFiles(acc, cwd, {Spelled(arg, cwd, p) : p \in walkDir(tree, dir, opts)})

\* The names on the way to a path are those of directories, or of links to some.
Leads(tree, cwd, arg) ==
    \A n \in 1 .. Len(arg.segs) - 1 :
        LET q == Abs(cwd, [arg EXCEPT !.segs = SubSeq(arg.segs, 1, n)])
        IN arg.segs[n] # Up => q \in DOMAIN tree.kind /\ tree.kind[q] \in {"dir", "dirlink"}

\* What is left of an argument, or of a match: links to files when they are
\* followed, no pipe, and of a glob's files only Markdown.
ResolvePath(acc, tree, cwd, arg, opts, globbed) ==
    LET p    == Abs(cwd, arg)
        kind == IF p \in DOMAIN tree.kind /\ Leads(tree, cwd, arg) THEN tree.kind[p] ELSE "none"
    IN IF acc.failed \/ hasSymlinkAncestor(tree, cwd, arg) THEN acc
       ELSE CASE kind = "none" /\ ~globbed -> [acc EXCEPT !.failed = TRUE]
              [] kind \in {"dir", "locked"} -> addDirFiles(acc, tree, cwd, arg, opts)
              [] kind \in {"file", "link"} /\ Readable(tree, p, opts.follow)
                   /\ (globbed => Last(p) \in Markdown) -> addFiles(acc, cwd, {arg})
              [] OTHER -> acc

resolveArg(acc, tree, cwd, arg, opts) ==
    LET after[n \in 0 .. Len(arg.matches)] ==
            IF n = 0 THEN acc ELSE ResolvePath(after[n - 1], tree, cwd, arg.matches[n], opts, TRUE)
    IN IF arg.glob THEN after[Len(arg.matches)]
       ELSE ResolvePath(acc, tree, cwd, arg.path, opts, FALSE)

ResolveFilesWithOpts(tree, cwd, args, opts) ==
    LET after[n \in 0 .. Len(args)] ==
            IF n = 0 THEN [seen |-> {}, result |-> {}, failed |-> FALSE]
            ELSE IF after[n - 1].failed THEN after[n - 1]
            ELSE resolveArg(after[n - 1], tree, cwd, args[n], opts)
    IN after[Len(args)]
===============================================================================
