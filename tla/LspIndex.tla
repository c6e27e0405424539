------------------------------ MODULE LspIndex ------------------------------
(***************************************************************************)
(* The language server's configuration and symbol index (internal/lsp      *)
(* server.go and symbols.go, internal/index/index.go).  The dispatch       *)
(* goroutine handles the client's messages one after the other; a          *)
(* goroutine per fetchClientSettings waits for the client's answer, stores *)
(* the settings and reloads the configuration, also while dispatch reloads *)
(* it.  The client edits buffers, files change on the disk, and the client *)
(* tells of the changes some time later.  LspLint has the lint passes that *)
(* these events schedule, RunCache the cache they invalidate.              *)
(***************************************************************************)
EXTENDS Integers, Sequences

CONSTANTS
    Files, Texts,
    InitialDisks,    \* what may be on the disk when the server starts
    Configs,         \* contents of a configuration file
    Ignores(_),      \* the files its ignore list names
    AltConfig,       \* the content of the file that mdsmith.config may name
    Fetches,         \* the calls of fetchClientSettings
    Absent, Closed, Nil, NoEntry,
    MaxEdits, MaxConfigEdits, MaxSettings, MaxAsks, MaxTimeouts, MaxInbox

ASSUME LspIndexAssumption ==
    /\ Absent \notin Texts /\ Closed \notin Texts
    /\ InitialDisks \subseteq [Files -> Texts \cup {Absent}]
    /\ AltConfig \in Configs
    /\ \A c \in Configs : Ignores(c) \subseteq Files
    /\ Fetches \subseteq Nat \ {0}
    /\ Nil \notin [Files -> [text : Texts, config : Configs] \cup {NoEntry}]
    /\ NoEntry \notin [text : Texts, config : Configs]

VARIABLES
    disk,       \* the files
    yaml,       \* the project's .mdsmith.yml
    wanted,     \* the client's mdsmith.config: "found" or "alt"
    unseen,     \* what changed on the disk and the client has not told of
    buffers,    \* the client's open buffers
    inbox,      \* its messages, in order
    asked,      \* the workspace/configuration requests it has not answered
    docs,       \* s.docs
    settings,   \* s.settings.ConfigPath
    config,     \* s.config
    idx,        \* s.idx: nil, or the entries
    dispatch,   \* where the dispatch goroutine is
    fetch,      \* where each fetchClientSettings is
    answers,    \* s.pendingResp: the channels and what is in them
    held,       \* the override and configuration each reload holds
    raced,      \* "reloads": the last reload that began met another one;
                \* "index": a fetch changed the configuration under the index
    counts      \* of the client's steps, for the bounds

vars == <<disk, yaml, wanted, unseen, buffers, inbox, asked, docs, settings,
          config, idx, dispatch, fetch, answers, held, raced, counts>>

client == <<disk, yaml, wanted, unseen, buffers>>
server == <<docs, settings, config, idx, dispatch, fetch, answers, held, raced>>

Overrides == {"found", "alt"}
Yaml == "yaml"   \* in a message of changed files, beside the Files
Main == 0        \* dispatch, beside the Fetches, as the owner of a reload
Owners == Fetches \cup {Main}

Entry(text, cfg) == [text |-> text, config |-> cfg]
Entries == [text : Texts, config : Configs] \cup {NoEntry}

\* resolveConfig, given the override: what config.Load reads now.
Resolve(override) == IF override = "alt" THEN AltConfig ELSE yaml

\* After handleInitialized: the configuration is loaded, and a client with the
\* capability has been asked for its settings.
Init ==
    /\ disk \in InitialDisks
    /\ yaml \in Configs
    /\ unseen = {}
    /\ buffers = [f \in Files |-> Closed]
    /\ inbox = <<>>
    /\ docs = [f \in Files |-> Closed]
    /\ settings = "found"
    /\ config = yaml
    /\ idx = Nil
    /\ dispatch = "idle"
    /\ asked = {} \/ \E i \in Fetches : asked = {i}
    /\ wanted \in Overrides /\ (asked = {} => wanted = "found")
    /\ fetch = [i \in Fetches |-> IF i \in asked THEN "wait" ELSE "new"]
    /\ raced = {}
    /\ answers = [i \in Fetches |-> "none"]
    /\ held = [o \in Owners |-> [override |-> "found", config |-> yaml]]
    /\ counts = [edits |-> 0, configs |-> 0, settings |-> IF asked = {} THEN 0 ELSE 1,
                 asks |-> 0, timeouts |-> 0]

Count(what, max) ==
    /\ counts[what] < max
    /\ counts' = [counts EXCEPT ![what] = @ + 1]

Send(m) == Len(inbox) < MaxInbox /\ inbox' = Append(inbox, m)

-----------------------------------------------------------------------------
(* The client and the disk *)

EditBuffer(f, text) ==
    /\ Count("edits", MaxEdits)
    /\ buffers' = [buffers EXCEPT ![f] = text]
    /\ UNCHANGED <<yaml, wanted, asked, server>>

Open(f) ==
    /\ buffers[f] = Closed /\ disk[f] # Absent
    /\ EditBuffer(f, disk[f])
    /\ Send([type |-> "open", file |-> f, text |-> disk[f]])
    /\ UNCHANGED <<disk, unseen>>

Type(f, text) ==
    /\ buffers[f] \notin {Closed, text}
    /\ EditBuffer(f, text)
    /\ Send([type |-> "change", file |-> f, text |-> text])
    /\ UNCHANGED <<disk, unseen>>

Close(f) ==
    /\ buffers[f] # Closed
    /\ EditBuffer(f, Closed)
    /\ Send([type |-> "close", file |-> f])
    /\ UNCHANGED <<disk, unseen>>

\* The user saves a buffer, or another program writes or removes the file.
Write(f, text) ==
    /\ disk[f] # text
    /\ Count("edits", MaxEdits)
    /\ disk' = [disk EXCEPT ![f] = text]
    /\ unseen' = unseen \cup {f}
    /\ UNCHANGED <<yaml, wanted, buffers, inbox, asked, server>>

WriteYaml(c) ==
    /\ yaml # c
    /\ Count("configs", MaxConfigEdits)
    /\ yaml' = c
    /\ unseen' = unseen \cup {Yaml}
    /\ UNCHANGED <<disk, wanted, buffers, inbox, asked, server>>

\* workspace/didChangeWatchedFiles with some of what changed.
Notify(changed) ==
    /\ changed # {}
    /\ Send([type |-> "watched", changed |-> changed])
    /\ unseen' = unseen \ changed
    /\ UNCHANGED <<disk, yaml, wanted, buffers, asked, counts, server>>

ChangeSettings(o) ==
    /\ wanted # o
    /\ Count("settings", MaxSettings)
    /\ wanted' = o
    /\ Send([type |-> "configuration"])
    /\ UNCHANGED <<disk, yaml, unseen, buffers, asked, server>>

Answer(i) ==
    /\ i \in asked
    /\ asked' = asked \ {i}
    /\ Send([type |-> "response", id |-> i, override |-> wanted])
    /\ UNCHANGED <<client, counts, server>>

AskSymbols ==
    /\ Count("asks", MaxAsks)
    /\ Send([type |-> "symbols"])
    /\ UNCHANGED <<client, asked, server>>

ClientStep ==
    \/ \E f \in Files : Open(f) \/ Close(f)
    \/ \E f \in Files, text \in Texts : Type(f, text)
    \/ \E f \in Files, text \in Texts \cup {Absent} : Write(f, text)
    \/ \E c \in Configs : WriteYaml(c)
    \/ \E changed \in SUBSET unseen : Notify(changed)
    \/ \E o \in Overrides : ChangeSettings(o)
    \/ \E i \in Fetches : Answer(i)
    \/ AskSymbols

-----------------------------------------------------------------------------
(* The index *)

\* indexUpdate: nothing to do before the index is built.
IndexUpdate(f, text) ==
    idx' = IF idx = Nil THEN Nil
           ELSE [idx EXCEPT ![f] = Entry(text, config)]

DiskEntry(f, cfg) == IF disk[f] = Absent THEN NoEntry ELSE Entry(disk[f], cfg)

\* indexReloadFromDisk of a set of files.
IndexReload(files) ==
    idx' = IF idx = Nil THEN Nil
           ELSE [f \in Files |-> IF f \in files THEN DiskEntry(f, config)
                                 ELSE idx[f]]

\* ensureIndex: the files that are not ignored, and over them the buffers.
BuildIndex ==
    [f \in Files |->
        IF docs[f] # Closed THEN Entry(docs[f], config)
        ELSE IF f \in Ignores(config) THEN NoEntry
        ELSE DiskEntry(f, config)]

-----------------------------------------------------------------------------
(* Reloads of the configuration, by dispatch and by the fetches *)

Reloading(o) ==
    IF o = Main THEN dispatch # "idle" ELSE fetch[o] \in {"load", "set"}

BeginReload(o) ==
    raced' = IF \E other \in Owners \ {o} : Reloading(other)
             THEN raced \cup {"reloads"} ELSE raced \ {"reloads"}

-----------------------------------------------------------------------------
(* The dispatch goroutine *)

Receive(type) ==
    /\ dispatch = "idle"
    /\ inbox # <<>> /\ Head(inbox).type = type
    /\ inbox' = Tail(inbox)
    /\ UNCHANGED <<client, settings, config, counts>>

HandleDidOpen ==
    /\ Receive("open")
    /\ LET m == Head(inbox) IN
       /\ docs' = [docs EXCEPT ![m.file] = m.text]
       /\ IndexUpdate(m.file, m.text)
    /\ UNCHANGED <<asked, dispatch, fetch, answers, held, raced>>

HandleDidChange ==
    /\ Receive("change")
    /\ LET m == Head(inbox) IN
       IF docs[m.file] = Closed THEN UNCHANGED <<docs, idx>>
       ELSE /\ docs' = [docs EXCEPT ![m.file] = m.text]
            /\ IndexUpdate(m.file, m.text)
    /\ UNCHANGED <<asked, dispatch, fetch, answers, held, raced>>

HandleDidClose_KeepsEntry ==
    /\ Receive("close")
    /\ docs' = [docs EXCEPT ![Head(inbox).file] = Closed]
    /\ UNCHANGED <<asked, idx, dispatch, fetch, answers, held, raced>>

HandleDidClose ==
    /\ Receive("close")
    /\ docs' = [docs EXCEPT ![Head(inbox).file] = Closed]
    /\ IndexReload(IF docs[Head(inbox).file] = Closed THEN {} ELSE {Head(inbox).file})
    /\ UNCHANGED <<asked, dispatch, fetch, answers, held, raced>>

HandleWatchedFiles_OpenToo ==
    /\ Receive("watched")
    /\ Yaml \notin Head(inbox).changed
    /\ IndexReload(Head(inbox).changed)
    /\ UNCHANGED <<asked, docs, dispatch, fetch, answers, held, raced>>

\* handleDidChangeWatchedFiles without the configuration.
HandleWatchedFiles ==
    /\ Receive("watched")
    /\ Yaml \notin Head(inbox).changed
    /\ IndexReload({f \in Head(inbox).changed : docs[f] = Closed})
    /\ UNCHANGED <<asked, docs, dispatch, fetch, answers, held, raced>>

\* handleDidChangeWatchedFiles with it: the reload begins.
HandleWatchedConfig ==
    /\ Receive("watched")
    /\ Yaml \in Head(inbox).changed
    /\ held' = [held EXCEPT ![Main].override = settings]
    /\ dispatch' = "load"
    /\ BeginReload(Main)
    /\ UNCHANGED <<asked, docs, idx, fetch, answers>>

LoadConfig_Keeps ==
    /\ dispatch = "load"
    /\ held' = [held EXCEPT ![Main].config = config]
    /\ dispatch' = "set"
    /\ UNCHANGED <<client, inbox, asked, docs, settings, config, idx, fetch,
                   answers, raced, counts>>

LoadConfig ==
    /\ dispatch = "load"
    /\ held' = [held EXCEPT ![Main].config = Resolve(held[Main].override)]
    /\ dispatch' = "set"
    /\ UNCHANGED <<client, inbox, asked, docs, settings, config, idx, fetch,
                   answers, raced, counts>>

\* The configuration is stored and the index dropped.
SetConfig ==
    /\ dispatch = "set"
    /\ config' = held[Main].config
    /\ idx' = Nil
    /\ raced' = raced \ {"index"}
    /\ dispatch' = "idle"
    /\ UNCHANGED <<client, inbox, asked, docs, settings, fetch, answers, held,
                   counts>>

HandleSymbols ==
    /\ Receive("symbols")
    /\ idx' = IF idx = Nil THEN BuildIndex ELSE idx
    /\ UNCHANGED <<asked, docs, dispatch, fetch, answers, held, raced>>

\* go fetchClientSettings, which registers its channel and sends the request.
HandleConfiguration ==
    /\ Receive("configuration")
    /\ \E i \in Fetches :
       /\ fetch[i] = "new" /\ \A n \in Fetches : n < i => fetch[n] # "new"
       /\ fetch' = [fetch EXCEPT ![i] = "wait"]
       /\ asked' = asked \cup {i}
    /\ UNCHANGED <<docs, idx, dispatch, answers, held, raced>>

\* deliverResponse: dropped when the request timed out.
HandleResponse ==
    /\ Receive("response")
    /\ LET m == Head(inbox) IN
       answers' = IF fetch[m.id] = "wait" /\ answers[m.id] = "none"
                  THEN [answers EXCEPT ![m.id] = m.override]
                  ELSE answers
    /\ UNCHANGED <<asked, docs, idx, dispatch, fetch, held, raced>>

-----------------------------------------------------------------------------
(* fetchClientSettings *)

FetchStep(i, from, to) ==
    /\ fetch[i] = from
    /\ fetch' = [fetch EXCEPT ![i] = to]
    /\ UNCHANGED <<client, inbox, asked, docs, idx, dispatch>>

ApplySettings(i) ==
    /\ answers[i] # "none"
    /\ FetchStep(i, "wait", "read")
    /\ settings' = answers[i]
    /\ answers' = [answers EXCEPT ![i] = "none"]
    /\ UNCHANGED <<config, held, raced, counts>>

\* No answer in time, or one that is an error.
TimeOut(i) ==
    /\ FetchStep(i, "wait", "done")
    /\ Count("timeouts", MaxTimeouts)
    /\ answers' = [answers EXCEPT ![i] = "none"]
    /\ UNCHANGED <<settings, config, held, raced>>

\* reloadConfig, which dispatch may be in too.
ReadOverride(i) ==
    /\ FetchStep(i, "read", "load")
    /\ held' = [held EXCEPT ![i].override = settings]
    /\ BeginReload(i)
    /\ UNCHANGED <<settings, config, answers, counts>>

FetchLoadConfig(i) ==
    /\ FetchStep(i, "load", "set")
    /\ held' = [held EXCEPT ![i].config = Resolve(held[i].override)]
    /\ UNCHANGED <<settings, config, answers, raced, counts>>

FetchSetConfig(i) ==
    /\ FetchStep(i, "set", "done")
    /\ config' = held[i].config
    /\ raced' = IF idx = Nil \/ config' = config THEN raced
                ELSE raced \cup {"index"}
    /\ UNCHANGED <<settings, answers, held, counts>>

ServerStep ==
    \/ HandleDidOpen \/ HandleDidChange \/ HandleDidClose
    \/ HandleWatchedFiles \/ HandleWatchedConfig \/ LoadConfig \/ SetConfig
    \/ HandleSymbols \/ HandleConfiguration \/ HandleResponse
    \/ \E i \in Fetches : \/ ApplySettings(i) \/ ReadOverride(i)
                          \/ FetchLoadConfig(i) \/ FetchSetConfig(i)

Next == ClientStep \/ ServerStep \/ \E i \in Fetches : TimeOut(i)

Spec == Init /\ [][Next]_vars

\* The server's goroutines run, and the client tells of what changed.
FairSpec ==
    /\ Spec
    /\ WF_vars(ServerStep)
    /\ WF_vars(unseen # {} /\ Notify(unseen))
    /\ WF_vars(\E i \in Fetches : Answer(i))

-----------------------------------------------------------------------------
Messages ==
    [type : {"open", "change"}, file : Files, text : Texts]
    \cup [type : {"close"}, file : Files]
    \cup [type : {"watched"}, changed : SUBSET (Files \cup {Yaml})]
    \cup [type : {"configuration", "symbols"}]
    \cup [type : {"response"}, id : Fetches, override : Overrides]

TypeOK ==
    /\ disk \in [Files -> Texts \cup {Absent}]
    /\ yaml \in Configs /\ config \in Configs
    /\ wanted \in Overrides /\ settings \in Overrides
    /\ unseen \subseteq Files \cup {Yaml}
    /\ buffers \in [Files -> Texts \cup {Closed}]
    /\ docs \in [Files -> Texts \cup {Closed}]
    /\ inbox \in Seq(Messages)
    /\ asked \subseteq Fetches
    /\ idx = Nil \/ idx \in [Files -> Entries]
    /\ dispatch \in {"idle", "load", "set"}
    /\ fetch \in [Fetches -> {"new", "wait", "read", "load", "set", "done"}]
    /\ answers \in [Fetches -> Overrides \cup {"none"}]
    /\ held \in [Owners -> [override : Overrides, config : Configs]]
    /\ raced \subseteq {"reloads", "index"}

\* The client has told of everything and the server has handled it.
Quiet ==
    /\ unseen = {} /\ inbox = <<>> /\ asked = {} /\ dispatch = "idle"
    /\ \A i \in Fetches : fetch[i] \in {"new", "done"}

\* Navigation sees what the user is typing: the index has the text of every
\* open buffer, whatever the watcher reports of the file and whenever the
\* index was built (handleDidChangeWatchedFiles, ensureIndex).
OpenBufferWins ==
    idx # Nil => \A f \in Files : docs[f] # Closed =>
                    idx[f] # NoEntry /\ idx[f].text = docs[f]

\* When all is quiet the entry of a closed file is about the file on the disk,
\* there is none for a file that is gone, and none is missing but an ignored
\* file's, unless a fetch changed the configuration under the index
\* (handleDidClose, indexReloadFromDisk, ensureIndex).
ClosedFilesMatchDisk ==
    (Quiet /\ idx # Nil /\ "index" \notin raced) =>
        \A f \in Files : docs[f] = Closed =>
            \/ idx[f] # NoEntry /\ idx[f].text = disk[f]
            \/ idx[f] = NoEntry /\ (disk[f] = Absent \/ f \in Ignores(config))

\* When all is quiet every entry was made with the configuration in force
\* (the comments at ensureIndex and at handleDidChangeWatchedFiles).
IndexMatchesConfig ==
    (Quiet /\ idx # Nil) => \A f \in Files :
        idx[f] = NoEntry \/ idx[f].config = config

\* That holds unless a fetch changed the configuration under the index, which
\* only fetchClientSettings can do: it reloads and keeps the index.
IndexFollowsFile == "index" \notin raced => IndexMatchesConfig

\* Once the messages and reloads under way have ended, the index is that of
\* the files on the disk, read with the configuration in force.
IndexIsCurrent == ClosedFilesMatchDisk /\ IndexFollowsFile

\* When all is quiet the configuration in force is that of the file the
\* settings name, as it is on the disk, unless two reloads of it met: dispatch
\* and fetchClientSettings may load in one order and store in the other.
ConfigFollowsFile ==
    (Quiet /\ "reloads" \notin raced) => config = Resolve(settings)

\* If reloads stop meeting, the server comes to rest with the configuration
\* on the disk.
ReloadsSettle ==
    <>[]("reloads" \notin raced) => <>[](config = Resolve(settings))
=============================================================================
