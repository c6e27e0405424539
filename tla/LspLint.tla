------------------------------ MODULE LspLint ------------------------------
(***************************************************************************)
(* Diagnostics scheduling in the language server (internal/lsp/server.go). *)
(*                                                                         *)
(* One dispatch goroutine handles the client's messages, any number of     *)
(* fetchClientSettings goroutines apply settings, and every scheduled lint *)
(* is a time.AfterFunc callback in a goroutine of its own.  They share the *)
(* document store, the pending map, the settings, the config, the cached   *)
(* diagnostics and the pipe to the editor.  Each action below is what one  *)
(* goroutine does between two points where another one can interfere: one  *)
(* critical section, one atomic load, or one notification.                 *)
(*                                                                         *)
(* Data: the text of a buffer is the number of the edit that produced it,  *)
(* 0 when the URI is not open; diagnostics are the number of the text they *)
(* were computed from, 0 when there are none; a config is the number of    *)
(* the reload that produced it.                                            *)
(***************************************************************************)
EXTENDS Naturals, FiniteSets

CONSTANTS
    Uris,        \* documents the client may open
    Tokens,      \* identities of *pendingLint allocations alive at one time
    Dispatcher,  \* the goroutine of Run
    Fetchers,    \* the goroutines of fetchClientSettings
    Ignored(_),  \* the documents the config of that number ignores
    None,        \* no token, no document
    MaxEdits,    \* bound on didOpen and didChange notifications
    MaxConf      \* bound on config reloads

ASSUME LspAssumption ==
    /\ Dispatcher \notin Fetchers
    /\ None \notin Tokens \cup Uris
    /\ MaxEdits \in Nat /\ MaxConf \in Nat

VARIABLES
    docs,       \* documentStore.m: the text of each open document
    edits,      \* the number of texts the client has sent
    mode,       \* settings.Run
    conf,       \* the number of the config in s.config
    shutdown,   \* the atomic shutdown flag
    pending,    \* s.pending: the live token of each document
    lint,       \* where the callback of each token is
    lintUri,    \* the document a token was armed for
    lintText,   \* the text its runLint took from the store
    diags,      \* s.diags: the diagnostics hover answers from
    shown,      \* the diagnostics of the last publishDiagnostics
    pc,         \* where each scheduling goroutine is
    op,         \* the handler it is running
    cur,        \* the document it is working on
    todo,       \* the documents its scheduling loop has left
    victims,    \* the timers it has taken from the map and must Stop
    linted,     \* history: the last text of a document a lint read
    lintedConf, \* history: the last config a lint of a document read
    overlapped  \* history: documents of which a lint ran into another one, or
                \* into a close, and none was alone when it began since

docVars  == <<docs, edits>>
cfgVars  == <<mode, conf>>
lintVars == <<lint, lintUri, lintText>>
outVars  == <<diags, shown>>
ctlVars  == <<pc, op, cur, todo, victims>>
histVars == <<linted, lintedConf, overlapped>>
vars == <<docVars, cfgVars, shutdown, pending, lintVars, outVars, ctlVars,
          histVars>>

Procs == {Dispatcher} \cup Fetchers
Modes == {"off", "onSave", "onType"}

\* From the live decision until it has published, a lint is in flight.
InFlight == {"live", "read", "ignored", "running", "alive", "open", "publish"}
LintStates == {"idle", "armed", "fired"} \cup InFlight

PCs == {"idle", "reload", "list", "sched", "arm", "stop", "cancel", "clear",
        "blank", "tear", "defer", "stopped"}
Ops == {"change", "lint", "close", "shutdown", "exit", "return"}

\* The token registered for u, if there is one.
Registered(u) == {pending[u]} \ {None}

OpenUris == {u \in Uris : docs[u] # 0}
LintsOf(u, states) == {k \in Tokens : lintUri[k] = u /\ lint[k] \in states}

\* A token nothing refers to any more; the next &pendingLint{} may be it.
Unreferenced(k) ==
    /\ lint[k] = "idle"
    /\ \A u \in Uris : pending[u] # k
    /\ \A p \in Procs : k \notin victims[p]

Init ==
    /\ docs = [u \in Uris |-> 0]
    /\ edits = 0
    /\ mode \in Modes
    /\ conf = 0
    /\ shutdown = FALSE
    /\ pending = [u \in Uris |-> None]
    /\ lint = [k \in Tokens |-> "idle"]
    /\ lintUri = [k \in Tokens |-> None]
    /\ lintText = [k \in Tokens |-> 0]
    /\ diags = [u \in Uris |-> 0]
    /\ shown = [u \in Uris |-> 0]
    /\ pc = [p \in Procs |-> "idle"]
    /\ op = [p \in Procs |-> "lint"]
    /\ cur = [p \in Procs |-> None]
    /\ todo = [p \in Procs |-> {}]
    /\ victims = [p \in Procs |-> {}]
    /\ linted = [u \in Uris |-> 0]
    /\ lintedConf = [u \in Uris |-> 0]
    /\ overlapped = {}

-----------------------------------------------------------------------------
(* The dispatch goroutine: document notifications.                         *)
(* A definition whose name has a suffix after an underscore (here and       *)
(* below) is a plausible bug in the definition that follows it, kept to     *)
(* show that a property catches it; the specification does not use it.      *)

\* dispatch: once the flag is set every message but exit is refused.
Ready == pc[Dispatcher] = "idle" /\ ~shutdown

\* Enter scheduleLint for the documents of S.
Schedule(p, trigger, S) ==
    /\ pc' = [pc EXCEPT ![p] = IF S = {} THEN "idle" ELSE "sched"]
    /\ op' = [op EXCEPT ![p] = trigger]
    /\ todo' = [todo EXCEPT ![p] = S]
    /\ UNCHANGED <<cur, victims>>

\* Store the client's next text of u.
SetText(u) ==
    /\ edits < MaxEdits
    /\ edits' = edits + 1
    /\ docs' = [docs EXCEPT ![u] = edits + 1]

HandleDidOpen(u) ==
    /\ Ready
    /\ docs[u] = 0
    /\ SetText(u)
    /\ Schedule(Dispatcher, "lint", {u})
    /\ UNCHANGED <<cfgVars, shutdown, pending, lintVars, outVars, histVars>>

HandleDidChange(u) ==
    /\ Ready
    /\ docs[u] # 0
    /\ SetText(u)
    /\ Schedule(Dispatcher, "change", {u})
    /\ UNCHANGED <<cfgVars, shutdown, pending, lintVars, outVars, histVars>>

HandleDidSave(u) ==
    /\ Ready
    /\ Schedule(Dispatcher, "lint", {u})
    /\ UNCHANGED <<docVars, cfgVars, shutdown, pending, lintVars, outVars,
                   histVars>>

\* handleDidClose in four steps: forget the text, take the pending lint out
\* of the map, drop the cached diagnostics, blank the editor's squiggles.
HandleDidClose(u) ==
    /\ Ready
    /\ docs' = [docs EXCEPT ![u] = 0]
    /\ overlapped' = IF LintsOf(u, InFlight) = {} THEN overlapped
                      ELSE overlapped \cup {u}
    /\ pc' = [pc EXCEPT ![Dispatcher] = "cancel"]
    /\ op' = [op EXCEPT ![Dispatcher] = "close"]
    /\ cur' = [cur EXCEPT ![Dispatcher] = u]
    /\ UNCHANGED <<edits, cfgVars, shutdown, pending, lintVars, outVars, todo,
                   victims, linted, lintedConf>>

\* Where a goroutine goes once it has stopped the timers it had to stop.
AfterStop(o, rest) ==
    CASE o \in {"change", "lint"} -> IF rest = {} THEN "idle" ELSE "sched"
      [] o = "close"    -> "clear"
      [] o = "shutdown" -> "idle"
      [] o = "exit"     -> "defer"
      [] o = "return"   -> "stopped"

\* Leave the critical section with the timers of S still to be stopped.
StopNext(p, S) ==
    /\ victims' = [victims EXCEPT ![p] = S]
    /\ pc' = [pc EXCEPT ![p] = IF S = {} THEN AfterStop(op[p], todo[p])
                               ELSE "stop"]

CancelPending ==
    /\ pc[Dispatcher] = "cancel"
    /\ LET u == cur[Dispatcher] IN
        /\ pending' = [pending EXCEPT ![u] = None]
        /\ StopNext(Dispatcher, Registered(u))
    /\ UNCHANGED <<docVars, cfgVars, shutdown, lintVars, outVars, op, cur,
                   todo, histVars>>

ClearCached_Skipped ==
    /\ pc[Dispatcher] = "clear"
    /\ pc' = [pc EXCEPT ![Dispatcher] = "blank"]
    /\ UNCHANGED <<docVars, cfgVars, shutdown, pending, lintVars, outVars, op,
                   cur, todo, victims, histVars>>

ClearCached ==
    /\ pc[Dispatcher] = "clear"
    /\ diags' = [diags EXCEPT ![cur[Dispatcher]] = 0]
    /\ pc' = [pc EXCEPT ![Dispatcher] = "blank"]
    /\ UNCHANGED <<docVars, cfgVars, shutdown, pending, lintVars, shown, op,
                   cur, todo, victims, histVars>>

PublishEmpty ==
    /\ pc[Dispatcher] = "blank"
    /\ shown' = [shown EXCEPT ![cur[Dispatcher]] = 0]
    /\ pc' = [pc EXCEPT ![Dispatcher] = "idle"]
    /\ cur' = [cur EXCEPT ![Dispatcher] = None]
    /\ UNCHANGED <<docVars, cfgVars, shutdown, pending, lintVars, diags, op,
                   todo, victims, histVars>>

-----------------------------------------------------------------------------
(* Config and settings changes.                                            *)

\* MaxConf bounds the reloads that are done or under way.
MayReload == conf + Cardinality({p \in Procs : pc[p] = "reload"}) < MaxConf

\* handleInitialized loads the configuration before the client opens a document,
\* and lints nothing; the fetch it starts then is ApplySettings.  One step: the
\* dispatcher is the only goroutine there is.
HandleInitialized ==
    /\ Ready
    /\ edits = 0 /\ conf = 0
    /\ \A p \in Fetchers : pc[p] = "idle"
    /\ MayReload
    /\ conf' = conf + 1
    /\ UNCHANGED <<docVars, mode, shutdown, pending, lintVars, outVars, ctlVars,
                   histVars>>

\* A watched .mdsmith.yml changed.
HandleConfigChanged ==
    /\ Ready
    /\ MayReload
    /\ pc' = [pc EXCEPT ![Dispatcher] = "reload"]
    /\ op' = [op EXCEPT ![Dispatcher] = "lint"]
    /\ UNCHANGED <<docVars, cfgVars, shutdown, pending, lintVars, outVars, cur,
                   todo, victims, histVars>>

\* fetchClientSettings receives the client's answer and applies it.
ApplySettings(p) ==
    /\ pc[p] = "idle"
    /\ MayReload
    /\ \E m \in Modes : mode' = m
    /\ pc' = [pc EXCEPT ![p] = "reload"]
    /\ op' = [op EXCEPT ![p] = "lint"]
    /\ UNCHANGED <<docVars, conf, shutdown, pending, lintVars, outVars, cur,
                   todo, victims, histVars>>

ReloadConfig_NoRelint(p) ==
    /\ pc[p] = "reload"
    /\ conf' = conf + 1
    /\ pc' = [pc EXCEPT ![p] = "idle"]
    /\ UNCHANGED <<docVars, mode, shutdown, pending, lintVars, outVars, op,
                   cur, todo, victims, histVars>>

ReloadConfig(p) ==
    /\ pc[p] = "reload"
    /\ conf' = conf + 1
    /\ pc' = [pc EXCEPT ![p] = "list"]
    /\ UNCHANGED <<docVars, mode, shutdown, pending, lintVars, outVars, op,
                   cur, todo, victims, histVars>>

ListOpen(p) ==
    /\ pc[p] = "list"
    /\ Schedule(p, op[p], OpenUris)
    /\ UNCHANGED <<docVars, cfgVars, shutdown, pending, lintVars, outVars,
                   histVars>>

-----------------------------------------------------------------------------
(* scheduleLint, called by the dispatcher and by the fetchers.             *)

\* What a trigger does in a run mode.
Accepts_NeverOnChange(m, trigger) == m # "off" /\ trigger # "change"
Accepts(m, trigger) == m = "onType" \/ (m = "onSave" /\ trigger # "change")

\* Read the flag and the run mode, and leave or go on.
ScheduleCheck(p) ==
    /\ pc[p] = "sched"
    /\ \E u \in todo[p] :
        /\ todo' = [todo EXCEPT ![p] = @ \ {u}]
        /\ IF ~shutdown /\ Accepts(mode, op[p])
           THEN /\ pc' = [pc EXCEPT ![p] = "arm"]
                /\ cur' = [cur EXCEPT ![p] = u]
           ELSE /\ pc' = [pc EXCEPT ![p] = AfterStop(op[p], todo[p] \ {u})]
                /\ UNCHANGED cur
    /\ UNCHANGED <<docVars, cfgVars, shutdown, pending, lintVars, outVars, op,
                   victims, histVars>>

\* Under pendingMu: allocate the token, start its timer, register it.
ScheduleArm(p) ==
    /\ pc[p] = "arm"
    /\ LET u == cur[p] IN
        \E k \in Tokens :
            /\ Unreferenced(k)
            /\ lint' = [lint EXCEPT ![k] = "armed"]
            /\ lintUri' = [lintUri EXCEPT ![k] = u]
            /\ pending' = [pending EXCEPT ![u] = k]
            /\ StopNext(p, Registered(u))
    /\ cur' = [cur EXCEPT ![p] = None]
    /\ UNCHANGED <<docVars, cfgVars, shutdown, lintText, outVars, op, todo,
                   histVars>>

\* The callback of k is over, or will never run.
Retire(k) ==
    /\ lint' = [lint EXCEPT ![k] = "idle"]
    /\ lintUri' = [lintUri EXCEPT ![k] = None]
    /\ lintText' = [lintText EXCEPT ![k] = 0]

\* Outside pendingMu: timer.Stop, which is too late for a fired timer.
StopTimer(p) ==
    /\ pc[p] = "stop"
    /\ \E k \in victims[p] :
        /\ IF lint[k] = "armed" THEN Retire(k) ELSE UNCHANGED lintVars
        /\ StopNext(p, victims[p] \ {k})
    /\ UNCHANGED <<docVars, cfgVars, shutdown, pending, outVars, op, cur, todo,
                   histVars>>

-----------------------------------------------------------------------------
(* Teardown.                                                               *)

BeginTeardown(o) ==
    /\ shutdown' = TRUE
    /\ pc' = [pc EXCEPT ![Dispatcher] = "tear"]
    /\ op' = [op EXCEPT ![Dispatcher] = o]
    /\ UNCHANGED <<docVars, cfgVars, pending, lintVars, outVars, cur, todo,
                   victims, histVars>>

HandleShutdown == Ready /\ BeginTeardown("shutdown")

HandleExit == pc[Dispatcher] = "idle" /\ BeginTeardown("exit")

\* End of input, a failed write or a cancelled context ends Run's loop.
Disconnect == pc[Dispatcher] = "idle" /\ BeginTeardown("return")

\* Run's deferred cleanup, after exit has already torn down once.
RunReturns == pc[Dispatcher] = "defer" /\ BeginTeardown("return")

StopPendingLints ==
    /\ pc[Dispatcher] = "tear"
    /\ pending' = [u \in Uris |-> None]
    /\ StopNext(Dispatcher, {k \in Tokens : \E u \in Uris : k = pending[u]})
    /\ UNCHANGED <<docVars, cfgVars, shutdown, lintVars, outVars, op, cur,
                   todo, histVars>>

-----------------------------------------------------------------------------
(* The callback of a token: runLintIfCurrent, then runLint.                *)

Goto(k, s) == lint' = [lint EXCEPT ![k] = s]

\* The timer fires and the callback takes the unlocked fast path.
Fire(k) ==
    /\ lint[k] = "armed"
    /\ IF shutdown THEN Retire(k)
       ELSE Goto(k, "fired") /\ UNCHANGED <<lintUri, lintText>>
    /\ UNCHANGED <<docVars, cfgVars, shutdown, pending, outVars, ctlVars,
                   histVars>>

\* k is live when it is still registered and the server is not shutting down.
IsLive(k) == pending[lintUri[k]] = k /\ ~shutdown

\* Under pendingMu: a live callback takes its token out of the map.
DecideLive(k) ==
    /\ lint[k] = "fired"
    /\ LET u == lintUri[k] IN
        IF IsLive(k)
        THEN /\ Goto(k, "live")
             /\ pending' = [pending EXCEPT ![u] = None]
             /\ overlapped' = IF LintsOf(u, InFlight) = {} THEN overlapped
                               ELSE overlapped \cup {u}
             /\ UNCHANGED <<lintUri, lintText>>
        ELSE Retire(k) /\ UNCHANGED <<pending, overlapped>>
    /\ UNCHANGED <<docVars, cfgVars, shutdown, outVars, ctlVars, linted,
                   lintedConf>>

ReadDoc(k) ==
    /\ lint[k] = "live"
    /\ LET u == lintUri[k] IN
        IF docs[u] = 0
        THEN Retire(k) /\ UNCHANGED <<linted, overlapped>>
        ELSE /\ Goto(k, "read")
             /\ lintText' = [lintText EXCEPT ![k] = docs[u]]
             /\ linted' = [linted EXCEPT ![u] = docs[u]]
             /\ overlapped' = IF LintsOf(u, InFlight) = {k}
                               THEN overlapped \ {u} ELSE overlapped
             /\ UNCHANGED lintUri
    /\ UNCHANGED <<docVars, cfgVars, shutdown, pending, outVars, ctlVars,
                   lintedConf>>

SnapshotConfig(k) ==
    /\ lint[k] = "read"
    /\ LET u == lintUri[k] IN
        /\ Goto(k, IF u \in Ignored(conf) THEN "ignored" ELSE "running")
        /\ lintedConf' = [lintedConf EXCEPT ![u] = conf]
    /\ UNCHANGED <<docVars, cfgVars, shutdown, pending, lintUri, lintText,
                   outVars, ctlVars, linted, overlapped>>

\* An ignored document has no diagnostics; nothing is checked again.
CacheIgnored(k) ==
    /\ lint[k] = "ignored"
    /\ Goto(k, "publish")
    /\ lintText' = [lintText EXCEPT ![k] = 0]
    /\ diags' = [diags EXCEPT ![lintUri[k]] = 0]
    /\ UNCHANGED <<docVars, cfgVars, shutdown, pending, lintUri, shown,
                   ctlVars, histVars>>

\* RunSource is over: drop its result when shutting down.
CheckShutdown(k) ==
    /\ lint[k] = "running"
    /\ IF shutdown THEN Retire(k)
       ELSE Goto(k, "alive") /\ UNCHANGED <<lintUri, lintText>>
    /\ UNCHANGED <<docVars, cfgVars, shutdown, pending, outVars, ctlVars,
                   histVars>>

\* ... and when the document was closed meanwhile.
CheckOpen(k) ==
    /\ lint[k] = "alive"
    /\ IF docs[lintUri[k]] = 0 THEN Retire(k)
       ELSE Goto(k, "open") /\ UNCHANGED <<lintUri, lintText>>
    /\ UNCHANGED <<docVars, cfgVars, shutdown, pending, outVars, ctlVars,
                   histVars>>

CacheDiagnostics(k) ==
    /\ lint[k] = "open"
    /\ Goto(k, "publish")
    /\ diags' = [diags EXCEPT ![lintUri[k]] = lintText[k]]
    /\ UNCHANGED <<docVars, cfgVars, shutdown, pending, lintUri, lintText,
                   shown, ctlVars, histVars>>

Publish(k) ==
    /\ lint[k] = "publish"
    /\ shown' = [shown EXCEPT ![lintUri[k]] = lintText[k]]
    /\ Retire(k)
    /\ UNCHANGED <<docVars, cfgVars, shutdown, pending, diags, ctlVars,
                   histVars>>

-----------------------------------------------------------------------------
\* The process may leave once Run has returned and nothing is running.
Terminated ==
    /\ pc[Dispatcher] = "stopped"
    /\ \A p \in Fetchers : pc[p] = "idle"
    /\ \A k \in Tokens : lint[k] = "idle"
    /\ UNCHANGED vars

\* What the client does; nothing obliges it to do any of it.
Client ==
    \/ \E u \in Uris : \/ HandleDidOpen(u) \/ HandleDidChange(u)
                       \/ HandleDidSave(u) \/ HandleDidClose(u)
    \/ HandleInitialized \/ HandleConfigChanged
    \/ HandleShutdown \/ HandleExit \/ Disconnect
    \/ \E p \in Fetchers : ApplySettings(p)

\* The steps a goroutine takes once it has been started.
Proceed(p) ==
    ReloadConfig(p) \/ ListOpen(p) \/ ScheduleCheck(p) \/ ScheduleArm(p)
        \/ StopTimer(p)

Dispatch ==
    \/ Proceed(Dispatcher)
    \/ CancelPending \/ ClearCached \/ PublishEmpty
    \/ RunReturns \/ StopPendingLints

Callback(k) ==
    \/ Fire(k) \/ DecideLive(k) \/ ReadDoc(k) \/ SnapshotConfig(k)
    \/ CacheIgnored(k) \/ CheckShutdown(k) \/ CheckOpen(k)
    \/ CacheDiagnostics(k) \/ Publish(k)

Next ==
    \/ Client
    \/ Dispatch
    \/ \E p \in Fetchers : Proceed(p)
    \/ \E k \in Tokens : Callback(k)
    \/ Terminated

Spec == Init /\ [][Next]_vars

\* The Go scheduler runs every runnable goroutine and fires every timer.
Fairness ==
    /\ WF_vars(Dispatch)
    /\ \A p \in Fetchers : WF_vars(Proceed(p))
    /\ \A k \in Tokens : WF_vars(Callback(k))

FairSpec == Spec /\ Fairness

-----------------------------------------------------------------------------
(* Properties.                                                             *)

\* Every variable has its type: the shape of the server's shared maps and
\* of the goroutines' local state.
TypeOK ==
    /\ docs \in [Uris -> Nat]
    /\ edits \in Nat
    /\ mode \in Modes
    /\ conf \in Nat
    /\ shutdown \in BOOLEAN
    /\ pending \in [Uris -> Tokens \cup {None}]
    /\ lint \in [Tokens -> LintStates]
    /\ lintUri \in [Tokens -> Uris \cup {None}]
    /\ lintText \in [Tokens -> Nat]
    /\ diags \in [Uris -> Nat]
    /\ shown \in [Uris -> Nat]
    /\ pc \in [Procs -> PCs]
    /\ op \in [Procs -> Ops]
    /\ cur \in [Procs -> Uris \cup {None}]
    /\ todo \in [Procs -> SUBSET Uris]
    /\ victims \in [Procs -> SUBSET Tokens]
    /\ linted \in [Uris -> Nat]
    /\ lintedConf \in [Uris -> Nat]
    /\ overlapped \subseteq Uris

\* Until teardown, the token registered for a document belongs to a callback
\* of that document that has yet to decide: stopping a replaced timer outside
\* pendingMu (scheduleLint, handleDidClose) never disarms the replacement, so
\* a registered lint is never lost.
RegisteredWillRun ==
    \A u \in Uris :
        pending[u] # None /\ ~shutdown =>
            /\ lintUri[pending[u]] = u
            /\ lint[pending[u]] \in {"armed", "fired"}

\* An armed timer is the registered one of its document or one somebody is
\* about to stop: replacing, closing and tearing down leave no stray timer.
NoStrayTimer ==
    \A k \in Tokens :
        lint[k] = "armed" =>
            \/ pending[lintUri[k]] = k
            \/ \E p \in Procs : k \in victims[p]

\* Somebody will still schedule, or start, a lint of u.
Scheduling(p, u) ==
    \/ pc[p] \in {"reload", "list"}
    \/ pc[p] = "sched" /\ u \in todo[p]
    \/ pc[p] \in {"arm", "stop"} /\ u \in todo[p]
        /\ op[p] \in {"change", "lint"}
    \/ pc[p] = "arm" /\ u = cur[p]
Committed(u) ==
    \/ pending[u] # None
    \/ LintsOf(u, {"live"}) # {}
    \/ \E p \in Procs : Scheduling(p, u)

\* While the run mode is onType, the current text of every open document has
\* been read by a lint or will be: whatever the interleaving of edits,
\* replaced timers, settings changes and callbacks, no edit is lost.
LatestTextCovered ==
    mode = "onType" /\ ~shutdown =>
        \A u \in OpenUris : linted[u] = docs[u] \/ Committed(u)

\* While linting is on, every open document has been linted with the current
\* config or will be: a document opened, or settings changed, while a reload
\* is under way is not missed.
LatestConfigCovered ==
    mode # "off" /\ ~shutdown =>
        \A u \in OpenUris :
            \/ lintedConf[u] = conf /\ linted[u] # 0
            \/ Committed(u)
            \/ LintsOf(u, {"read"}) # {}

\* Nothing is scheduled, running or being closed for u.
Settled(u) ==
    /\ \A p \in Procs : pc[p] \in {"idle", "stopped"}
    /\ pending[u] = None
    /\ LintsOf(u, LintStates) = {}

\* What the editor has to show for u: an ignored document has no diagnostics.
Expected(u) == IF u \in Ignored(conf) THEN 0 ELSE docs[u]

\* When nothing is going on, and the last lint of the document to begin neither
\* found another one running nor ran into a close or a later one, the editor
\* shows, and hover answers from, the same diagnostics, which in onType mode
\* are those of the current text under the current config.
SettledEditorIsCurrent ==
    \A u \in Uris :
        Settled(u) /\ u \notin overlapped /\ ~shutdown =>
            /\ diags[u] = shown[u]
            /\ docs[u] = 0 \/ mode = "onType" => shown[u] = Expected(u)

\* No lint starts once the shutdown flag is set, although the fast path and
\* scheduleLint read the flag without the lock and a fetcher may still
\* register a lint after stopPendingLints has emptied the map.
NoStartAfterShutdown ==
    [][shutdown => \A k \in Tokens : lint'[k] = "live" => lint[k] = "live"]_vars

\* Once the client stops sending, a text that stays in the store in onType mode
\* is published, unless the server shuts down, the settings change or lints of
\* the document overlap.  (A client that saves forever, each time before the
\* timer of the previous save has fired, postpones every lint: scheduleLint
\* always replaces a pending one.)
TextIsPublished ==
    <>[](pc[Dispatcher] = "idle") =>
        \A u \in Uris : \A e \in 1..MaxEdits :
            (docs[u] = e /\ mode = "onType") ~>
                \/ shown[u] = e \/ docs[u] # e \/ u \in Ignored(conf)
                \/ shutdown \/ mode # "onType" \/ u \in overlapped
=============================================================================
