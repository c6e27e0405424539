------------------------------ MODULE RunCache ------------------------------
(***************************************************************************)
(* The server-wide read cache (internal/lint/runcache.go) and the message  *)
(* handlers that invalidate it (internal/lsp/server.go).                   *)
(*                                                                         *)
(* The catalog rule reads the front matter and the include targets of a    *)
(* file through it.  load is LoadOrStore of an entry followed by the       *)
(* entry's once.Do(build); Invalidate deletes the file's entry from the    *)
(* front-matter map, then from the include map.  Readers are the lint      *)
(* callbacks; the dispatch goroutine invalidates.                          *)
(*                                                                         *)
(* Contents of a file, and what is derived from them, are the number of    *)
(* the file's last change.  Entries are identities: one can be allocated   *)
(* again when neither a map nor a reader refers to it.                     *)
(***************************************************************************)
EXTENDS Integers, FiniteSets

CONSTANTS
    Readers,     \* lint callbacks
    Paths,       \* absolute paths of Markdown files
    Entries,     \* identities of *runCacheEntry alive at one time
    None,        \* no entry, path or key
    WithConfig,  \* may a batch of watched changes hold .mdsmith.yml? a subset
                 \* of BOOLEAN
    MaxChanges,  \* bound on the changes of each file
    MaxMessages  \* bound on the messages that invalidate

Kinds == {"frontMatter", "includes"}
Keys == Kinds \X Paths

ASSUME RunCacheAssumption ==
    /\ None \notin Entries \cup Paths \cup Keys
    /\ WithConfig \subseteq BOOLEAN
    /\ MaxChanges \in Nat /\ MaxMessages \in Nat

VARIABLES
    disk,    \* the contents of each file
    unseen,  \* files that changed and of which the server was not told
    slot,    \* the two sync.Maps: the entry of each key
    entry,   \* each entry's once: new, building or built
    val,     \* each entry's val
    pc,      \* where each reader is in load
    asked,   \* the key it loads
    held,    \* the entry it got from LoadOrStore
    seen,    \* what its build read from disk
    got,     \* what its last load returned
    todo,    \* the paths the dispatcher has still to invalidate
    half,    \* the path of which it has deleted the front matter only
    floor,   \* history: the contents of each key's file when last invalidated
    base,    \* history: the floor of its key when each reader's load began
    budget,  \* history: invalidations of each key, plus one, minus its builds
    messages \* history: messages handled

fileVars == <<disk, unseen>>
mapVars == <<slot, entry, val>>
readVars == <<pc, asked, held, seen, got, base>>
dispVars == <<todo, half>>
countVars == <<budget, messages>>
vars == <<fileVars, mapVars, readVars, dispVars, floor, countVars>>

PCs == {"idle", "load", "once", "build", "store", "return"}
EntryStates == {"free", "new", "building", "built"}

Init ==
    /\ disk = [p \in Paths |-> 0]
    /\ unseen = {}
    /\ slot = [k \in Keys |-> None]
    /\ entry = [e \in Entries |-> "free"]
    /\ val = [e \in Entries |-> 0]
    /\ pc = [r \in Readers |-> "idle"]
    /\ asked = [r \in Readers |-> None]
    /\ held = [r \in Readers |-> None]
    /\ seen = [r \in Readers |-> 0]
    /\ got = [r \in Readers |-> 0]
    /\ todo = {}
    /\ half = None
    /\ floor = [k \in Keys |-> 0]
    /\ base = [r \in Readers |-> 0]
    /\ budget = [k \in Keys |-> 1]
    /\ messages = 0

-----------------------------------------------------------------------------
(* The file system and the editor.                                         *)

\* The file is written: by a save in this editor, by another program.
WriteFile(p) ==
    /\ disk[p] < MaxChanges
    /\ disk' = [disk EXCEPT ![p] = @ + 1]
    /\ unseen' = unseen \cup {p}
    /\ UNCHANGED <<mapVars, readVars, dispVars, floor, countVars>>

-----------------------------------------------------------------------------
(* The dispatch goroutine.  A definition whose name has a suffix after an   *)
(* underscore is a plausible bug in the one that follows it; the            *)
(* specification does not use it.                                           *)

Ready ==
    /\ todo = {}
    /\ messages < MaxMessages
    /\ messages' = messages + 1

\* didChange (told is empty: the disk did not change) and didSave.
HandleDidChangeOrSave(p) ==
    /\ Ready
    /\ \E told \in {{}, {p}} : unseen' = unseen \ told
    /\ todo' = {p}
    /\ UNCHANGED <<disk, mapVars, readVars, half, floor, budget>>

\* didChangeWatchedFiles: the files to invalidate of a batch; none when the
\* batch holds a config change, whose branch returns early.
ToInvalidate(S, config) == IF config THEN {} ELSE S

HandleDidChangeWatchedFiles(S) ==
    /\ Ready
    /\ S # {} /\ S \subseteq unseen
    /\ \E config \in WithConfig : todo' = ToInvalidate(S, config)
    /\ unseen' = unseen \ S
    /\ UNCHANGED <<disk, mapVars, readVars, half, floor, budget>>

Delete(k) == slot' = [slot EXCEPT ![k] = None]

\* Invalidate, first statement: forget the front matter of a path.
InvalidateFrontMatter ==
    /\ half = None
    /\ \E p \in todo :
        LET k == <<"frontMatter", p>> IN
        /\ Delete(k)
        /\ half' = p
        /\ floor' = [floor EXCEPT ![k] = disk[p]]
        /\ budget' = [budget EXCEPT ![k] = @ + 1]
    /\ UNCHANGED <<fileVars, entry, val, readVars, todo, messages>>

\* Invalidate, second statement: forget its include targets.
InvalidateIncludes ==
    /\ half # None
    /\ LET k == <<"includes", half>> IN
        /\ Delete(k)
        /\ floor' = [floor EXCEPT ![k] = disk[half]]
        /\ budget' = [budget EXCEPT ![k] = @ + 1]
    /\ todo' = todo \ {half}
    /\ half' = None
    /\ UNCHANGED <<fileVars, entry, val, readVars, messages>>

-----------------------------------------------------------------------------
(* load, in a lint callback.                                               *)

\* An entry the garbage collector may have freed.
Unreferenced(e) ==
    /\ \A k \in Keys : slot[k] # e
    /\ \A r \in Readers : held[r] # e

Begin(r, k) ==
    /\ pc[r] = "idle"
    /\ pc' = [pc EXCEPT ![r] = "load"]
    /\ asked' = [asked EXCEPT ![r] = k]
    /\ base' = [base EXCEPT ![r] = floor[k]]
    /\ UNCHANGED <<fileVars, mapVars, held, seen, got, dispVars, floor,
                   countVars>>

\* Two callers that both miss both store.
LoadOrStore_AlwaysStores(r) ==
    /\ pc[r] = "load"
    /\ \E e \in Entries :
        /\ Unreferenced(e)
        /\ slot' = [slot EXCEPT ![asked[r]] = e]
        /\ entry' = [entry EXCEPT ![e] = "new"]
        /\ held' = [held EXCEPT ![r] = e]
    /\ pc' = [pc EXCEPT ![r] = "once"]
    /\ UNCHANGED <<fileVars, val, asked, seen, got, dispVars, floor, base,
                   countVars>>

\* sync.Map.LoadOrStore(key, &runCacheEntry{}).
LoadOrStore(r) ==
    /\ pc[r] = "load"
    /\ LET k == asked[r] IN
        \/ /\ slot[k] # None
           /\ held' = [held EXCEPT ![r] = slot[k]]
           /\ UNCHANGED <<slot, entry>>
        \/ /\ slot[k] = None
           /\ \E e \in Entries :
                /\ Unreferenced(e)
                /\ slot' = [slot EXCEPT ![k] = e]
                /\ entry' = [entry EXCEPT ![e] = "new"]
                /\ held' = [held EXCEPT ![r] = e]
    /\ pc' = [pc EXCEPT ![r] = "once"]
    /\ UNCHANGED <<fileVars, val, asked, seen, got, dispVars, floor, base,
                   countVars>>

\* once.Do: the first caller builds, the others wait until it has built.
EnterOnce(r) ==
    /\ pc[r] = "once"
    /\ LET e == held[r] IN
        \/ /\ entry[e] = "new"
           /\ entry' = [entry EXCEPT ![e] = "building"]
           /\ pc' = [pc EXCEPT ![r] = "build"]
           /\ budget' = [budget EXCEPT ![asked[r]] = @ - 1]
        \/ /\ entry[e] = "built"
           /\ pc' = [pc EXCEPT ![r] = "return"]
           /\ UNCHANGED <<entry, budget>>
    /\ UNCHANGED <<fileVars, slot, val, asked, held, seen, got, dispVars,
                   floor, base, messages>>

\* build: read and parse the file.
Build(r) ==
    /\ pc[r] = "build"
    /\ seen' = [seen EXCEPT ![r] = disk[asked[r][2]]]
    /\ pc' = [pc EXCEPT ![r] = "store"]
    /\ UNCHANGED <<fileVars, mapVars, asked, held, got, dispVars, floor, base,
                   countVars>>

\* A cache that publishes the value under the key again when it is built.
StoreValue_Republishes(r) ==
    /\ pc[r] = "store"
    /\ val' = [val EXCEPT ![held[r]] = seen[r]]
    /\ entry' = [entry EXCEPT ![held[r]] = "built"]
    /\ slot' = [slot EXCEPT ![asked[r]] = held[r]]
    /\ pc' = [pc EXCEPT ![r] = "return"]
    /\ UNCHANGED <<fileVars, asked, held, seen, got, dispVars, floor, base,
                   countVars>>

\* e.val = build(); the once is done and its waiters go on.
StoreValue(r) ==
    /\ pc[r] = "store"
    /\ val' = [val EXCEPT ![held[r]] = seen[r]]
    /\ entry' = [entry EXCEPT ![held[r]] = "built"]
    /\ pc' = [pc EXCEPT ![r] = "return"]
    /\ UNCHANGED <<fileVars, slot, asked, held, seen, got, dispVars, floor,
                   base, countVars>>

\* A caller that compares its entry with the current one, the wrong way round.
Return_LoadsAgain(r) ==
    /\ pc[r] = "return"
    /\ LET again == slot[asked[r]] = held[r] IN
        /\ pc' = [pc EXCEPT ![r] = IF again THEN "load" ELSE "idle"]
        /\ asked' = [asked EXCEPT ![r] = IF again THEN @ ELSE None]
    /\ held' = [held EXCEPT ![r] = None]
    /\ UNCHANGED <<fileVars, mapVars, seen, got, dispVars, floor, base,
                   countVars>>

\* return e.val.
Return(r) ==
    /\ pc[r] = "return"
    /\ got' = [got EXCEPT ![r] = val[held[r]]]
    /\ pc' = [pc EXCEPT ![r] = "idle"]
    /\ asked' = [asked EXCEPT ![r] = None]
    /\ held' = [held EXCEPT ![r] = None]
    /\ seen' = [seen EXCEPT ![r] = 0]
    /\ base' = [base EXCEPT ![r] = 0]
    /\ UNCHANGED <<fileVars, mapVars, dispVars, floor, countVars>>

-----------------------------------------------------------------------------
Dispatch ==
    \/ \E p \in Paths : HandleDidChangeOrSave(p)
    \/ \E S \in SUBSET Paths : HandleDidChangeWatchedFiles(S)

Invalidate == InvalidateFrontMatter \/ InvalidateIncludes

Load(r) ==
    LoadOrStore(r) \/ EnterOnce(r) \/ Build(r) \/ StoreValue(r) \/ Return(r)

Next ==
    \/ \E p \in Paths : WriteFile(p)
    \/ Dispatch
    \/ Invalidate
    \/ \E r \in Readers : Load(r) \/ \E k \in Keys : Begin(r, k)

Spec == Init /\ [][Next]_vars

\* The Go scheduler runs every runnable goroutine.
FairSpec ==
    /\ Spec
    /\ WF_vars(Invalidate)
    /\ \A r \in Readers : WF_vars(Load(r))

-----------------------------------------------------------------------------
(* Properties.                                                             *)

\* Every variable has its type: the two maps, their entries and where each
\* load is.
TypeOK ==
    /\ disk \in [Paths -> Nat]
    /\ unseen \subseteq Paths
    /\ slot \in [Keys -> Entries \cup {None}]
    /\ entry \in [Entries -> EntryStates]
    /\ val \in [Entries -> Nat]
    /\ pc \in [Readers -> PCs]
    /\ asked \in [Readers -> Keys \cup {None}]
    /\ held \in [Readers -> Entries \cup {None}]
    /\ \A r \in Readers : asked[r] = None <=> pc[r] = "idle"
    /\ \A r \in Readers : held[r] = None <=> pc[r] \in {"idle", "load"}
    /\ seen \in [Readers -> Nat]
    /\ got \in [Readers -> Nat]
    /\ todo \subseteq Paths
    /\ half \in todo \cup {None}
    /\ floor \in [Keys -> Nat]
    /\ base \in [Readers -> Nat]
    /\ budget \in [Keys -> Int]
    /\ messages \in Nat

\* A load that starts after Invalidate never returns what the file held
\* before, whichever builds were under way when the entry was deleted: no
\* reader is about to return a value older than the floor it started from.
NoStaleLoad ==
    \A r \in Readers : pc[r] = "return" => val[held[r]] >= base[r]

\* The promise of the cache, as a specification: every step of the readers,
\* the dispatcher and the disk is one of FreshReads or changes nothing there.
Promise == INSTANCE FreshReads WITH
    Files <- Paths, FileOf <- [k \in Keys |-> k[2]], Nobody <- None
ReadsAreFresh == Promise!Spec

\* A file is read at most once per key between two invalidations, however
\* many host files' lints ask for it at once.
OneBuildPerInvalidation ==
    \A k \in Keys : budget[k] >= 0

\* Every load returns: no callback waits for a once nobody will finish.
LoadsReturn == \A r \in Readers : (pc[r] = "load") ~> (pc[r] = "idle")
=============================================================================
