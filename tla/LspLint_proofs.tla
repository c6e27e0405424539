--------------------------- MODULE LspLint_proofs ---------------------------
(* Proofs about the diagnostics scheduler, for every set of documents,     *)
(* tokens and fetchers and every bound.                                    *)
EXTENDS LspLint, TLAPS

\* A callback that is not idle knows its document, and so does a goroutine
\* that arms a timer or closes; only scheduleLint is entered from a loop over
\* documents.
Attached ==
    /\ \A k \in Tokens : lint[k] # "idle" => lintUri[k] \in Uris
    /\ \A p \in Procs :
        /\ pc[p] \in {"arm", "cancel", "clear", "blank"} => cur[p] \in Uris
        /\ pc[p] = "stop" /\ op[p] = "close" => cur[p] \in Uris
        /\ pc[p] \in {"reload", "list", "sched", "arm"}
               => op[p] \in {"change", "lint"}
        /\ pc[p] = "tear" => op[p] \in {"shutdown", "exit", "return"}

TypeInv == TypeOK /\ Attached

LEMMA TypeInvInit == Init => TypeInv
<1>1. Init => shutdown \in BOOLEAN
  BY DEF Init
<1> QED
  BY <1>1 DEF Init, TypeInv, TypeOK, Attached, Modes, PCs, Ops, LintStates,
              InFlight

LEMMA TypeInvStep == TypeInv /\ [Next]_vars => TypeInv'
<1> SUFFICES ASSUME TypeInv, [Next]_vars PROVE TypeInv'
  OBVIOUS
<1> USE LspAssumption
    DEF TypeInv, TypeOK, Attached, Procs, Modes, PCs, Ops, LintStates,
        InFlight, docVars, cfgVars, lintVars, outVars, ctlVars, histVars
<1>1. ASSUME NEW u \in Uris, HandleDidOpen(u) PROVE TypeInv'
  BY <1>1 DEF HandleDidOpen, SetText, Schedule
<1>2. ASSUME NEW u \in Uris, HandleDidChange(u) PROVE TypeInv'
  BY <1>2 DEF HandleDidChange, SetText, Schedule
<1>3. ASSUME NEW u \in Uris, HandleDidSave(u) PROVE TypeInv'
  BY <1>3 DEF HandleDidSave, Schedule
<1>4. ASSUME NEW u \in Uris, HandleDidClose(u) PROVE TypeInv'
  BY <1>4 DEF HandleDidClose
<1>5. CASE HandleConfigChanged
  BY <1>5 DEF HandleConfigChanged
<1>5a. CASE HandleInitialized
  BY <1>5a DEF HandleInitialized
<1>6. CASE HandleShutdown
  BY <1>6 DEF HandleShutdown, BeginTeardown
<1>7. CASE HandleExit
  BY <1>7 DEF HandleExit, BeginTeardown
<1>8. CASE Disconnect
  BY <1>8 DEF Disconnect, BeginTeardown
<1>9. ASSUME NEW p \in Fetchers, ApplySettings(p) PROVE TypeInv'
  BY <1>9 DEF ApplySettings
<1>10. ASSUME NEW p \in Procs, Proceed(p) PROVE TypeInv'
  <2>1. CASE ReloadConfig(p)
    BY <2>1 DEF ReloadConfig
  <2>2. CASE ListOpen(p)
    BY <2>2 DEF ListOpen, Schedule, OpenUris
  <2>3. CASE ScheduleCheck(p)
    BY <2>3 DEF ScheduleCheck, AfterStop
  <2>4. CASE ScheduleArm(p)
    BY <2>4 DEF ScheduleArm, Registered, StopNext, AfterStop
  <2>5. CASE StopTimer(p)
    BY <2>5 DEF StopTimer, StopNext, AfterStop, Retire
  <2> QED BY <1>10, <2>1, <2>2, <2>3, <2>4, <2>5
          DEF Proceed
<1>11. CASE CancelPending
  BY <1>11 DEF CancelPending, Registered, StopNext, AfterStop
<1>12. CASE ClearCached
  BY <1>12 DEF ClearCached
<1>13. CASE PublishEmpty
  BY <1>13 DEF PublishEmpty
<1>14. CASE RunReturns
  BY <1>14 DEF RunReturns, BeginTeardown
<1>15. CASE StopPendingLints
  BY <1>15 DEF StopPendingLints, StopNext, AfterStop
<1>16. ASSUME NEW k \in Tokens, Callback(k) PROVE TypeInv'
  <2>1. CASE Fire(k)
    BY <2>1 DEF Fire, Retire, Goto
  <2>2. CASE DecideLive(k)
    BY <2>2 DEF DecideLive, IsLive, Retire, Goto
  <2>3. CASE ReadDoc(k)
    BY <2>3 DEF ReadDoc, Retire, Goto
  <2>4. CASE SnapshotConfig(k)
    BY <2>4 DEF SnapshotConfig, Goto
  <2>5. CASE CacheIgnored(k)
    BY <2>5 DEF CacheIgnored, Goto
  <2>6. CASE CheckShutdown(k)
    BY <2>6 DEF CheckShutdown, Retire, Goto
  <2>7. CASE CheckOpen(k)
    BY <2>7 DEF CheckOpen, Retire, Goto
  <2>8. CASE CacheDiagnostics(k)
    BY <2>8 DEF CacheDiagnostics, Goto
  <2>9. CASE Publish(k)
    BY <2>9 DEF Publish, Retire
  <2> QED BY <1>16, <2>1, <2>2, <2>3, <2>4, <2>5, <2>6, <2>7, <2>8, <2>9
          DEF Callback
<1>17. CASE Terminated
  BY <1>17 DEF Terminated, vars
<1>18. CASE UNCHANGED vars
  BY <1>18 DEF vars
<1> QED
  BY <1>1, <1>2, <1>3, <1>4, <1>5, <1>5a, <1>6, <1>7, <1>8, <1>9, <1>10, <1>11,
     <1>12, <1>13, <1>14, <1>15, <1>16, <1>17, <1>18
     DEF Next, Client, Dispatch

\* The server's shared maps and its goroutines' local state keep their types.
THEOREM TypeCorrect == Spec => []TypeOK
<1>1. TypeInv => TypeOK
  BY DEF TypeInv
<1> QED BY <1>1, TypeInvInit, TypeInvStep, PTL DEF Spec

-----------------------------------------------------------------------------
\* A token is registered for one document at most, and a timer somebody is
\* about to stop is no longer registered: the facts about the pending map that
\* make stopping outside the lock harmless.  Nobody leaves StopTimer with timers
\* still to stop.
Replaced ==
    /\ \A u, v \in Uris : pending[u] = pending[v] /\ pending[u] # None => u = v
    /\ \A p \in Procs : \A k \in victims[p] : \A u \in Uris : pending[u] # k
    /\ \A p \in Procs : pc[p] # "stop" => victims[p] = {}

PendingInv == RegisteredWillRun /\ NoStrayTimer /\ Replaced

LEMMA PendingStep == TypeInv /\ PendingInv /\ [Next]_vars => PendingInv'
<1> SUFFICES ASSUME TypeInv, PendingInv, [Next]_vars, TypeInv' PROVE PendingInv'
  BY TypeInvStep
<1> USE LspAssumption
    DEF TypeInv, TypeOK, Attached, PendingInv, RegisteredWillRun, NoStrayTimer,
        Replaced, Ready, Procs, InFlight, LintStates, docVars, cfgVars,
        lintVars, outVars, ctlVars
<1>1. ASSUME NEW u \in Uris, HandleDidOpen(u) PROVE PendingInv'
  BY <1>1 DEF HandleDidOpen, SetText, Schedule
<1>2. ASSUME NEW u \in Uris, HandleDidChange(u) PROVE PendingInv'
  BY <1>2 DEF HandleDidChange, SetText, Schedule
<1>3. ASSUME NEW u \in Uris, HandleDidSave(u) PROVE PendingInv'
  BY <1>3 DEF HandleDidSave, Schedule
<1>4. ASSUME NEW u \in Uris, HandleDidClose(u) PROVE PendingInv'
  BY <1>4 DEF HandleDidClose
<1>5. CASE HandleConfigChanged
  BY <1>5 DEF HandleConfigChanged
<1>5a. CASE HandleInitialized
  BY <1>5a DEF HandleInitialized
<1>6. CASE HandleShutdown
  BY <1>6 DEF HandleShutdown, BeginTeardown
<1>7. CASE HandleExit
  BY <1>7 DEF HandleExit, BeginTeardown
<1>8. CASE Disconnect
  BY <1>8 DEF Disconnect, BeginTeardown
<1>9. ASSUME NEW p \in Fetchers, ApplySettings(p) PROVE PendingInv'
  BY <1>9 DEF ApplySettings
<1>10. ASSUME NEW p \in Procs, Proceed(p) PROVE PendingInv'
  <2>1. CASE ReloadConfig(p)
    BY <2>1 DEF ReloadConfig
  <2>2. CASE ListOpen(p)
    BY <2>2 DEF ListOpen, Schedule, OpenUris
  <2>3. CASE ScheduleCheck(p)
    BY <2>3 DEF ScheduleCheck, AfterStop
  <2>4. CASE ScheduleArm(p)
    BY <2>4 DEF ScheduleArm, Registered, StopNext, AfterStop, Unreferenced
  <2>5. CASE StopTimer(p)
    BY <2>5 DEF StopTimer, StopNext, AfterStop, Retire
  <2> QED BY <1>10, <2>1, <2>2, <2>3, <2>4, <2>5
          DEF Proceed
<1>11. CASE CancelPending
  BY <1>11 DEF CancelPending, Registered, StopNext, AfterStop
<1>12. CASE ClearCached
  BY <1>12 DEF ClearCached
<1>13. CASE PublishEmpty
  BY <1>13 DEF PublishEmpty
<1>14. CASE RunReturns
  BY <1>14 DEF RunReturns, BeginTeardown
<1>15. CASE StopPendingLints
  <2>1. /\ \A u \in Uris : pending'[u] = None
        /\ victims'[Dispatcher] = {k \in Tokens : \E u \in Uris : k = pending[u]}
        /\ \A p \in Procs \ {Dispatcher} : victims'[p] = victims[p]
        /\ \A p \in Procs \ {Dispatcher} : pc'[p] = pc[p]
        /\ victims'[Dispatcher] # {} => pc'[Dispatcher] = "stop"
        /\ UNCHANGED <<lint, lintUri, shutdown>>
    BY <1>15 DEF StopPendingLints, StopNext
  <2>2. RegisteredWillRun'
    BY <2>1
  <2>3. NoStrayTimer'
    <3> SUFFICES ASSUME NEW k \in Tokens, lint[k] = "armed"
                 PROVE  \E p \in Procs : k \in victims'[p]
      BY <2>1
    <3>1. CASE pending[lintUri[k]] = k
      BY <2>1, <3>1
    <3>2. ASSUME NEW p \in Procs, k \in victims[p]
          PROVE  k \in victims'[p] /\ p # Dispatcher
      BY <1>15, <2>1, <3>2 DEF StopPendingLints
    <3> QED BY <3>1, <3>2
  <2>4. Replaced'
    <3>1. \A p \in Procs : pc'[p] # "stop" => victims'[p] = {}
      BY <2>1
    <3>2. \A p \in Procs : None \notin victims'[p]
      BY DEF TypeInv, TypeOK
    <3> QED BY <2>1, <3>1, <3>2
  <2> QED BY <2>2, <2>3, <2>4
<1>16. ASSUME NEW k \in Tokens, Callback(k) PROVE PendingInv'
  <2>1. CASE Fire(k)
    BY <2>1 DEF Fire, Retire, Goto
  <2>2. CASE DecideLive(k)
    <3>1. CASE IsLive(k)
      BY <2>2, <3>1 DEF DecideLive, IsLive, Goto
    <3>2. CASE ~IsLive(k)
      BY <2>2, <3>2 DEF DecideLive, IsLive, Retire
    <3> QED BY <3>1, <3>2
  <2>3. CASE ReadDoc(k)
    BY <2>3 DEF ReadDoc, Retire, Goto
  <2>4. CASE SnapshotConfig(k)
    BY <2>4 DEF SnapshotConfig, Goto
  <2>5. CASE CacheIgnored(k)
    BY <2>5 DEF CacheIgnored, Goto
  <2>6. CASE CheckShutdown(k)
    BY <2>6 DEF CheckShutdown, Retire, Goto
  <2>7. CASE CheckOpen(k)
    BY <2>7 DEF CheckOpen, Retire, Goto
  <2>8. CASE CacheDiagnostics(k)
    BY <2>8 DEF CacheDiagnostics, Goto
  <2>9. CASE Publish(k)
    BY <2>9 DEF Publish, Retire
  <2> QED BY <1>16, <2>1, <2>2, <2>3, <2>4, <2>5, <2>6, <2>7, <2>8, <2>9
          DEF Callback
<1>17. CASE Terminated
  BY <1>17 DEF Terminated, vars
<1>18. CASE UNCHANGED vars
  BY <1>18 DEF vars
<1> QED
  BY <1>1, <1>2, <1>3, <1>4, <1>5, <1>5a, <1>6, <1>7, <1>8, <1>9, <1>10, <1>11,
     <1>12, <1>13, <1>14, <1>15, <1>16, <1>17, <1>18
     DEF Next, Client, Dispatch

LEMMA PendingInvariant == Spec => [](TypeInv /\ PendingInv)
<1>1. Init => PendingInv
  BY LspAssumption
     DEF Init, PendingInv, RegisteredWillRun, NoStrayTimer, Replaced
<1> QED BY <1>1, TypeInvInit, TypeInvStep, PendingStep, PTL DEF Spec

\* A registered lint is not lost until teardown: its callback is still to come.
THEOREM RegisteredLintsRun == Spec => []RegisteredWillRun
<1>1. PendingInv => RegisteredWillRun
  BY DEF PendingInv
<1> QED BY <1>1, PendingInvariant, PTL

\* No timer is armed that is neither registered nor about to be stopped.
THEOREM NoTimerStrays == Spec => []NoStrayTimer
<1>1. PendingInv => NoStrayTimer
  BY DEF PendingInv
<1> QED BY <1>1, PendingInvariant, PTL

-----------------------------------------------------------------------------
\* didClose cancels only after it has forgotten the text, and the pending map
\* is emptied only after the shutdown flag is set.
Ordered ==
    /\ pc[Dispatcher] = "cancel" => docs[cur[Dispatcher]] = 0
    /\ pc[Dispatcher] = "tear" => shutdown
    /\ \A p \in Fetchers : pc[p] \notin {"cancel", "tear"}

CoverInv == LatestTextCovered /\ Ordered

LEMMA CoverStep ==
    TypeInv /\ PendingInv /\ CoverInv /\ [Next]_vars => CoverInv'
<1> SUFFICES ASSUME TypeInv, PendingInv, CoverInv, [Next]_vars, TypeInv'
             PROVE  CoverInv'
  BY TypeInvStep
<1> USE LspAssumption
    DEF TypeInv, TypeOK, Attached, CoverInv, LatestTextCovered, Committed,
        Scheduling, OpenUris, LintsOf, Ordered, Ready, Procs, docVars,
        cfgVars, lintVars, outVars, ctlVars, histVars
<1>1. ASSUME NEW u \in Uris, HandleDidOpen(u) PROVE CoverInv'
  BY <1>1 DEF HandleDidOpen, SetText, Schedule
<1>2. ASSUME NEW u \in Uris, HandleDidChange(u) PROVE CoverInv'
  BY <1>2 DEF HandleDidChange, SetText, Schedule
<1>3. ASSUME NEW u \in Uris, HandleDidSave(u) PROVE CoverInv'
  BY <1>3 DEF HandleDidSave, Schedule
<1>4. ASSUME NEW u \in Uris, HandleDidClose(u) PROVE CoverInv'
  BY <1>4 DEF HandleDidClose
<1>5. CASE HandleConfigChanged
  BY <1>5 DEF HandleConfigChanged
<1>5a. CASE HandleInitialized
  BY <1>5a DEF HandleInitialized
<1>6. CASE HandleShutdown
  BY <1>6 DEF HandleShutdown, BeginTeardown
<1>7. CASE HandleExit
  BY <1>7 DEF HandleExit, BeginTeardown
<1>8. CASE Disconnect
  BY <1>8 DEF Disconnect, BeginTeardown
<1>9. ASSUME NEW p \in Fetchers, ApplySettings(p) PROVE CoverInv'
  BY <1>9 DEF ApplySettings
<1>10. ASSUME NEW p \in Procs, Proceed(p) PROVE CoverInv'
  <2>1. CASE ReloadConfig(p)
    BY <2>1 DEF ReloadConfig
  <2>2. CASE ListOpen(p)
    BY <2>2 DEF ListOpen, Schedule, OpenUris
  <2>3. CASE ScheduleCheck(p)
    BY <2>3 DEF ScheduleCheck, AfterStop, Accepts
  <2>4. CASE ScheduleArm(p)
    <3>1. PICK k \in Tokens :
            /\ Unreferenced(k)
            /\ lint' = [lint EXCEPT ![k] = "armed"]
            /\ lintUri' = [lintUri EXCEPT ![k] = cur[p]]
            /\ pending' = [pending EXCEPT ![cur[p]] = k]
      BY <2>4 DEF ScheduleArm
    <3>2. /\ UNCHANGED <<docs, mode, shutdown, linted, op, todo>>
          /\ cur' = [cur EXCEPT ![p] = None]
          /\ pc[p] = "arm"
          /\ pc' = [pc EXCEPT ![p] = pc'[p]]
          /\ pc'[p] \in {"stop", "sched", "idle"}
          /\ todo[p] # {} => pc'[p] \in {"stop", "sched"}
      BY <2>4 DEF ScheduleArm, Registered, StopNext, AfterStop
    <3>3. ASSUME NEW u \in OpenUris, Committed(u) PROVE Committed(u)'
      <4>1. CASE pending[u] # None \/ u = cur[p]
        BY <3>1, <4>1
      <4>2. CASE LintsOf(u, {"live"}) # {}
        BY <3>1, <4>2 DEF Unreferenced
      <4>3. ASSUME NEW q \in Procs, Scheduling(q, u), u # cur[p]
            PROVE  Scheduling(q, u)'
        BY <3>2, <4>3
      <4> QED BY <3>3, <4>1, <4>2, <4>3
    <3> QED BY <3>2, <3>3
  <2>5. CASE StopTimer(p)
    <3>1. /\ UNCHANGED <<docs, mode, shutdown, pending, linted, op, cur, todo>>
          /\ pc[p] = "stop"
          /\ \E v \in {"stop", AfterStop(op[p], todo[p])} :
                pc' = [pc EXCEPT ![p] = v]
      BY <2>5 DEF StopTimer, StopNext
    <3>2. /\ AfterStop(op[p], todo[p]) \notin {"cancel", "tear"}
          /\ todo[p] # {} /\ op[p] \in {"change", "lint"}
                => AfterStop(op[p], todo[p]) = "sched"
      BY DEF AfterStop, Ops
    <3>3. \A k \in Tokens :
            lint[k] = "live" => lint'[k] = "live" /\ lintUri'[k] = lintUri[k]
      BY <2>5 DEF StopTimer, Retire
    <3>4. ASSUME NEW u \in OpenUris, Committed(u) PROVE Committed(u)'
      <4>1. CASE LintsOf(u, {"live"}) # {}
        BY <3>3, <4>1
      <4>2. ASSUME NEW q \in Procs, Scheduling(q, u)
            PROVE  Scheduling(q, u)'
        BY <3>1, <3>2, <4>2
      <4> QED BY <3>1, <3>4, <4>1, <4>2
    <3> QED BY <3>1, <3>2, <3>4
  <2> QED BY <1>10, <2>1, <2>2, <2>3, <2>4, <2>5
          DEF Proceed
<1>11. CASE CancelPending
  <2>1. /\ pending' = [pending EXCEPT ![cur[Dispatcher]] = None]
        /\ docs[cur[Dispatcher]] = 0
        /\ pc[Dispatcher] = "cancel"
        /\ \A p \in Procs \ {Dispatcher} : pc'[p] = pc[p]
        /\ pc'[Dispatcher] \notin {"cancel", "tear"}
        /\ UNCHANGED <<docs, mode, shutdown, lint, lintUri, linted, op, cur,
                       todo>>
    BY <1>11 DEF CancelPending, Registered, StopNext, AfterStop, Ops
  <2>2. \A u \in OpenUris : Committed(u) => Committed(u)'
    BY <2>1
  <2> QED BY <2>1, <2>2
<1>12. CASE ClearCached
  BY <1>12 DEF ClearCached
<1>13. CASE PublishEmpty
  BY <1>13 DEF PublishEmpty
<1>14. CASE RunReturns
  BY <1>14 DEF RunReturns, BeginTeardown
<1>15. CASE StopPendingLints
  BY <1>15 DEF StopPendingLints, StopNext, AfterStop
<1>16. ASSUME NEW k \in Tokens, Callback(k) PROVE CoverInv'
  <2>1. CASE Fire(k)
    BY <2>1 DEF Fire, Retire, Goto
  <2>2. CASE DecideLive(k)
    BY <2>2 DEF DecideLive, IsLive, Retire, Goto
  <2>3. CASE ReadDoc(k)
    BY <2>3 DEF ReadDoc, Retire, Goto
  <2>4. CASE SnapshotConfig(k)
    BY <2>4 DEF SnapshotConfig, Goto
  <2>5. CASE CacheIgnored(k)
    BY <2>5 DEF CacheIgnored, Goto
  <2>6. CASE CheckShutdown(k)
    BY <2>6 DEF CheckShutdown, Retire, Goto
  <2>7. CASE CheckOpen(k)
    BY <2>7 DEF CheckOpen, Retire, Goto
  <2>8. CASE CacheDiagnostics(k)
    BY <2>8 DEF CacheDiagnostics, Goto
  <2>9. CASE Publish(k)
    BY <2>9 DEF Publish, Retire
  <2> QED BY <1>16, <2>1, <2>2, <2>3, <2>4, <2>5, <2>6, <2>7, <2>8, <2>9
          DEF Callback
<1>17. CASE Terminated
  BY <1>17 DEF Terminated, vars
<1>18. CASE UNCHANGED vars
  BY <1>18 DEF vars
<1> QED
  BY <1>1, <1>2, <1>3, <1>4, <1>5, <1>5a, <1>6, <1>7, <1>8, <1>9, <1>10, <1>11,
     <1>12, <1>13, <1>14, <1>15, <1>16, <1>17, <1>18
     DEF Next, Client, Dispatch

\* While the run mode is onType no edit of an open document goes unlinted.
THEOREM EditsAreCovered == Spec => []LatestTextCovered
<1>1. Init => CoverInv
  BY LspAssumption
     DEF Init, CoverInv, LatestTextCovered, OpenUris, Ordered, Procs
<1>2. CoverInv => LatestTextCovered
  BY DEF CoverInv
<1> QED
  BY <1>1, <1>2, CoverStep, TypeInvInit, TypeInvStep, PendingInvariant, PTL
     DEF Spec

-----------------------------------------------------------------------------
\* Somebody will lint u whatever the run mode: in onSave mode a didChange that is
\* on its way is not enough.
Relinting(p, u) ==
    \/ pc[p] \in {"reload", "list"}
    \/ pc[p] \in {"sched", "arm", "stop"} /\ u \in todo[p] /\ op[p] = "lint"
    \/ pc[p] = "arm" /\ u = cur[p]
RelintDue(u) ==
    \/ pending[u] # None
    \/ LintsOf(u, {"live"}) # {}
    \/ \E p \in Procs : Relinting(p, u)

\* LatestConfigCovered, with a lint that is due instead of a committed one.
ConfigCovered ==
    mode # "off" /\ ~shutdown =>
        \A u \in OpenUris :
            \/ lintedConf[u] = conf /\ linted[u] # 0
            \/ RelintDue(u)
            \/ LintsOf(u, {"read"}) # {}

\* A reload schedules as a save does, and what a lint has read is a text.
Reloading ==
    /\ \A p \in Procs : pc[p] \in {"reload", "list"} => op[p] = "lint"
    /\ \A k \in Tokens : lint[k] = "read" => linted[lintUri[k]] # 0

ConfigInv == ConfigCovered /\ Reloading /\ Ordered

\* No document is open before the client has sent a text, so that the reload of
\* handleInitialized has none to lint again.
Sent == edits = 0 => OpenUris = {}

LEMMA SentStep == TypeInv /\ Sent /\ [Next]_vars => Sent'
<1> SUFFICES ASSUME TypeInv, Sent, [Next]_vars, edits' = 0 PROVE OpenUris' = {}
  BY DEF Sent
<1> USE DEF TypeInv, TypeOK, Sent, OpenUris, docVars
<1>1. ASSUME NEW u \in Uris, HandleDidOpen(u) \/ HandleDidChange(u) PROVE FALSE
  BY <1>1 DEF HandleDidOpen, HandleDidChange, SetText
<1>2. ASSUME NEW u \in Uris, HandleDidClose(u) PROVE OpenUris' = {}
  BY <1>2 DEF HandleDidClose
<1>3. CASE UNCHANGED <<docs, edits>>
  BY <1>3
<1>4. \/ \E u \in Uris : HandleDidOpen(u) \/ HandleDidChange(u)
      \/ \E u \in Uris : HandleDidClose(u)
      \/ UNCHANGED <<docs, edits>>
  <2>1. ASSUME NEW p \in Procs, Proceed(p) PROVE UNCHANGED <<docs, edits>>
    BY <2>1 DEF Proceed, ReloadConfig, ListOpen, ScheduleCheck, ScheduleArm,
                StopTimer
  <2>2. ASSUME NEW k \in Tokens, Callback(k) PROVE UNCHANGED <<docs, edits>>
    BY <2>2 DEF Callback, Fire, DecideLive, ReadDoc, SnapshotConfig,
                CacheIgnored, CheckShutdown, CheckOpen, CacheDiagnostics,
                Publish
  <2> QED
    BY <2>1, <2>2
       DEF Next, Client, Dispatch, Procs, vars, Terminated, HandleDidSave,
           HandleInitialized, HandleConfigChanged, ApplySettings, HandleShutdown,
           HandleExit, Disconnect, RunReturns, BeginTeardown, CancelPending,
           ClearCached, PublishEmpty, StopPendingLints
<1> QED BY <1>1, <1>2, <1>3, <1>4

LEMMA ConfigStep ==
    TypeInv /\ Sent /\ ConfigInv /\ [Next]_vars => ConfigInv'
<1> SUFFICES ASSUME TypeInv, Sent, ConfigInv, [Next]_vars, TypeInv'
             PROVE  ConfigInv'
  BY TypeInvStep
<1> USE LspAssumption
    DEF TypeInv, TypeOK, Attached, ConfigInv, ConfigCovered, RelintDue,
        Relinting, Reloading, OpenUris, LintsOf, Ordered, Ready, Procs,
        docVars, cfgVars, lintVars, outVars, ctlVars, histVars
<1>1. ASSUME NEW u \in Uris, HandleDidOpen(u) PROVE ConfigInv'
  BY <1>1 DEF HandleDidOpen, SetText, Schedule
<1>2. ASSUME NEW u \in Uris, HandleDidChange(u) PROVE ConfigInv'
  BY <1>2 DEF HandleDidChange, SetText, Schedule
<1>3. ASSUME NEW u \in Uris, HandleDidSave(u) PROVE ConfigInv'
  BY <1>3 DEF HandleDidSave, Schedule
<1>4. ASSUME NEW u \in Uris, HandleDidClose(u) PROVE ConfigInv'
  BY <1>4 DEF HandleDidClose
<1>5. CASE HandleConfigChanged
  BY <1>5 DEF HandleConfigChanged
<1>5a. CASE HandleInitialized
  BY <1>5a DEF HandleInitialized, Sent
<1>6. CASE HandleShutdown
  BY <1>6 DEF HandleShutdown, BeginTeardown
<1>7. CASE HandleExit
  BY <1>7 DEF HandleExit, BeginTeardown
<1>8. CASE Disconnect
  BY <1>8 DEF Disconnect, BeginTeardown
<1>9. ASSUME NEW p \in Fetchers, ApplySettings(p) PROVE ConfigInv'
  BY <1>9 DEF ApplySettings
<1>10. ASSUME NEW p \in Procs, Proceed(p) PROVE ConfigInv'
  <2>1. CASE ReloadConfig(p)
    BY <2>1 DEF ReloadConfig
  <2>2. CASE ListOpen(p)
    BY <2>2 DEF ListOpen, Schedule
  <2>3. CASE ScheduleCheck(p)
    <3> PICK v \in todo[p] :
            /\ todo' = [todo EXCEPT ![p] = @ \ {v}]
            /\ IF ~shutdown /\ Accepts(mode, op[p])
               THEN /\ pc' = [pc EXCEPT ![p] = "arm"]
                    /\ cur' = [cur EXCEPT ![p] = v]
               ELSE /\ pc' = [pc EXCEPT ![p] = AfterStop(op[p], todo[p] \ {v})]
                    /\ UNCHANGED cur
      BY <2>3 DEF ScheduleCheck
    <3>1. /\ UNCHANGED <<docs, mode, conf, shutdown, pending, lint, lintUri,
                         linted, lintedConf, op>>
          /\ pc[p] = "sched" /\ op[p] \in {"change", "lint"}
          /\ AfterStop(op[p], todo[p] \ {v})
                = IF todo[p] \ {v} = {} THEN "idle" ELSE "sched"
      BY <2>3 DEF ScheduleCheck, AfterStop
    <3>2. ASSUME NEW u \in OpenUris, RelintDue(u), mode # "off", ~shutdown
          PROVE  RelintDue(u)'
      <4>1. CASE pending[u] # None \/ LintsOf(u, {"live"}) # {}
        BY <3>1, <4>1
      <4>2. ASSUME NEW q \in Procs, Relinting(q, u) PROVE Relinting(q, u)'
        <5>1. CASE q # p
          BY <3>1, <4>2, <5>1
        <5>2. CASE q = p
          BY <3>1, <3>2, <4>2, <5>2 DEF Accepts, Modes
        <5> QED BY <5>1, <5>2
      <4> QED BY <3>2, <4>1, <4>2
    <3>3. ConfigCovered'
      BY <3>1, <3>2
    <3>4. Reloading' /\ Ordered'
      BY <3>1
    <3> QED BY <3>3, <3>4
  <2>4. CASE ScheduleArm(p)
    <3>1. PICK k \in Tokens :
            /\ Unreferenced(k)
            /\ lint' = [lint EXCEPT ![k] = "armed"]
            /\ lintUri' = [lintUri EXCEPT ![k] = cur[p]]
            /\ pending' = [pending EXCEPT ![cur[p]] = k]
      BY <2>4 DEF ScheduleArm
    <3>2. /\ UNCHANGED <<docs, mode, conf, shutdown, linted, lintedConf, op,
                         todo>>
          /\ cur' = [cur EXCEPT ![p] = None]
          /\ pc[p] = "arm"
          /\ pc' = [pc EXCEPT ![p] = pc'[p]]
          /\ pc'[p] \in {"stop", "sched", "idle"}
          /\ todo[p] # {} => pc'[p] \in {"stop", "sched"}
      BY <2>4 DEF ScheduleArm, Registered, StopNext, AfterStop
    <3>3. \A j \in Tokens : lint[j] \in {"live", "read"} =>
            lint'[j] = lint[j] /\ lintUri'[j] = lintUri[j]
      BY <3>1 DEF Unreferenced
    <3>4. ASSUME NEW u \in OpenUris, RelintDue(u) PROVE RelintDue(u)'
      <4>1. CASE pending[u] # None \/ u = cur[p]
        BY <3>1, <4>1
      <4>2. CASE LintsOf(u, {"live"}) # {}
        BY <3>3, <4>2
      <4>3. ASSUME NEW q \in Procs, Relinting(q, u), u # cur[p]
            PROVE  Relinting(q, u)'
        BY <3>2, <4>3
      <4> QED BY <3>4, <4>1, <4>2, <4>3
    <3>5. ConfigCovered'
      BY <3>2, <3>3, <3>4
    <3>6. Reloading' /\ Ordered'
      BY <3>1, <3>2
    <3> QED BY <3>5, <3>6
  <2>5. CASE StopTimer(p)
    <3>1. /\ UNCHANGED <<docs, mode, conf, shutdown, pending, linted,
                         lintedConf, op, cur, todo>>
          /\ pc[p] = "stop"
          /\ \E v \in {"stop", AfterStop(op[p], todo[p])} :
                pc' = [pc EXCEPT ![p] = v]
      BY <2>5 DEF StopTimer, StopNext
    <3>2. /\ AfterStop(op[p], todo[p]) \notin {"cancel", "tear", "reload", "list"}
          /\ todo[p] # {} /\ op[p] = "lint" => AfterStop(op[p], todo[p]) = "sched"
      BY DEF AfterStop, Ops
    <3>3. \A k \in Tokens :
            /\ lint[k] \in {"live", "read"} =>
                lint'[k] = lint[k] /\ lintUri'[k] = lintUri[k]
            /\ lint'[k] = "read" => lint[k] = "read"
      BY <2>5 DEF StopTimer, Retire
    <3>4. ASSUME NEW u \in OpenUris, RelintDue(u) PROVE RelintDue(u)'
      <4>1. CASE LintsOf(u, {"live"}) # {}
        BY <3>3, <4>1
      <4>2. ASSUME NEW q \in Procs, Relinting(q, u)
            PROVE  Relinting(q, u)'
        BY <3>1, <3>2, <4>2
      <4> QED BY <3>1, <3>4, <4>1, <4>2
    <3>5. ConfigCovered'
      BY <3>1, <3>3, <3>4
    <3>6. Reloading' /\ Ordered'
      BY <3>1, <3>2, <3>3
    <3> QED BY <3>5, <3>6
  <2> QED BY <1>10, <2>1, <2>2, <2>3, <2>4, <2>5
          DEF Proceed
<1>11. CASE CancelPending
  <2>1. /\ pending' = [pending EXCEPT ![cur[Dispatcher]] = None]
        /\ docs[cur[Dispatcher]] = 0
        /\ pc[Dispatcher] = "cancel"
        /\ \A p \in Procs \ {Dispatcher} : pc'[p] = pc[p]
        /\ pc'[Dispatcher] \notin {"cancel", "tear", "reload", "list"}
        /\ UNCHANGED <<docs, mode, conf, shutdown, lint, lintUri, linted,
                       lintedConf, op, cur, todo>>
    BY <1>11 DEF CancelPending, Registered, StopNext, AfterStop, Ops
  <2>2. \A u \in OpenUris : RelintDue(u) => RelintDue(u)'
    BY <2>1
  <2> QED BY <2>1, <2>2
<1>12. CASE ClearCached
  BY <1>12 DEF ClearCached
<1>13. CASE PublishEmpty
  BY <1>13 DEF PublishEmpty
<1>14. CASE RunReturns
  BY <1>14 DEF RunReturns, BeginTeardown
<1>15. CASE StopPendingLints
  BY <1>15 DEF StopPendingLints, StopNext, AfterStop
<1>16. ASSUME NEW k \in Tokens, Callback(k) PROVE ConfigInv'
  <2>1. CASE Fire(k)
    BY <2>1 DEF Fire, Retire, Goto
  <2>2. CASE DecideLive(k)
    BY <2>2 DEF DecideLive, IsLive, Retire, Goto
  <2>3. CASE ReadDoc(k)
    BY <2>3 DEF ReadDoc, Retire, Goto
  <2>4. CASE SnapshotConfig(k)
    BY <2>4 DEF SnapshotConfig, Goto
  <2>5. CASE CacheIgnored(k)
    BY <2>5 DEF CacheIgnored, Goto
  <2>6. CASE CheckShutdown(k)
    BY <2>6 DEF CheckShutdown, Retire, Goto
  <2>7. CASE CheckOpen(k)
    BY <2>7 DEF CheckOpen, Retire, Goto
  <2>8. CASE CacheDiagnostics(k)
    BY <2>8 DEF CacheDiagnostics, Goto
  <2>9. CASE Publish(k)
    BY <2>9 DEF Publish, Retire
  <2> QED BY <1>16, <2>1, <2>2, <2>3, <2>4, <2>5, <2>6, <2>7, <2>8, <2>9
          DEF Callback
<1>17. CASE Terminated
  BY <1>17 DEF Terminated, vars
<1>18. CASE UNCHANGED vars
  BY <1>18 DEF vars
<1> QED
  BY <1>1, <1>2, <1>3, <1>4, <1>5, <1>5a, <1>6, <1>7, <1>8, <1>9, <1>10, <1>11,
     <1>12, <1>13, <1>14, <1>15, <1>16, <1>17, <1>18
     DEF Next, Client, Dispatch

LEMMA ConfigInvariant == Spec => []ConfigInv
<1>1. Init => ConfigInv
  BY LspAssumption
     DEF Init, ConfigInv, ConfigCovered, Reloading, OpenUris, Ordered, Procs
<1>2. Init => Sent
  BY DEF Init, Sent, OpenUris
<1> QED
  BY <1>1, <1>2, ConfigStep, SentStep, TypeInvInit, TypeInvStep, PTL DEF Spec

\* While linting is on, every open document is linted with the current config or
\* will be, whatever reloads, edits and callbacks meet.
THEOREM ConfigsAreCovered == Spec => []LatestConfigCovered
<1>1. ConfigInv => LatestConfigCovered
  BY DEF ConfigInv, ConfigCovered, RelintDue, Relinting, LatestConfigCovered,
         Committed, Scheduling
<1> QED BY <1>1, ConfigInvariant, PTL

-----------------------------------------------------------------------------
\* The dispatcher is between forgetting the text of u and blanking its squiggles.
Closing(u) ==
    /\ cur[Dispatcher] = u
    /\ \/ pc[Dispatcher] \in {"cancel", "clear", "blank"}
       \/ pc[Dispatcher] = "stop" /\ op[Dispatcher] = "close"

\* A lint that has read the text of its document and has yet to publish.
Begun == InFlight \ {"live"}
LintsAlone(u) == \A j, k \in LintsOf(u, InFlight) : j = k

\* What the last lint of u to begin has to show.
Result(u) == IF u \in Ignored(lintedConf[u]) THEN 0 ELSE linted[u]

\* Each step of a lint of u holds what the next ones publish.
CarriesResult(u, k) ==
    /\ lint[k] \in {"read", "running", "alive", "open"} => lintText[k] = linted[u]
    /\ lint[k] = "ignored" => u \in Ignored(lintedConf[u])
    /\ lint[k] \in {"running", "alive", "open"} => u \notin Ignored(lintedConf[u])
    /\ lint[k] = "publish" => lintText[k] = Result(u) /\ diags[u] = Result(u)

\* With no lint begun and no close under way, the editor and hover agree.
Shows(u) ==
    /\ diags[u] = shown[u]
    /\ docs[u] = 0 => shown[u] = 0
    /\ docs[u] # 0 /\ linted[u] = docs[u] => shown[u] = Result(u)

EditorOf(u) ==
    /\ LintsAlone(u)
    /\ \A k \in LintsOf(u, Begun) : docs[u] # 0 /\ CarriesResult(u, k)
    /\ Closing(u) /\ pc[Dispatcher] = "blank" => diags[u] = 0
    /\ ~shutdown /\ LintsOf(u, Begun) = {} /\ ~Closing(u) => Shows(u)

\* A closed document stays closed until its squiggles are blanked, and a text that
\* has been stored or linted is not a later one.
Stored ==
    /\ \A u \in Uris : Closing(u) => docs[u] = 0
    /\ pc[Dispatcher] = "cancel" => op[Dispatcher] = "close"
    /\ \A u \in Uris : docs[u] <= edits /\ linted[u] <= edits

EditorInv == Stored /\ \A u \in Uris \ overlapped : EditorOf(u)

LEMMA EditorStep == TypeInv /\ EditorInv /\ [Next]_vars => EditorInv'
<1> SUFFICES ASSUME TypeInv, EditorInv, [Next]_vars, TypeInv'
             PROVE  EditorInv'
  BY TypeInvStep
<1> USE LspAssumption
    DEF TypeInv, TypeOK, Attached, EditorInv, EditorOf, Stored, Shows,
        CarriesResult, Result, LintsAlone, Begun, Closing, LintsOf, InFlight,
        Ready, Procs, docVars, cfgVars, lintVars, outVars, ctlVars, histVars
<1>1. ASSUME NEW u \in Uris, HandleDidOpen(u) PROVE EditorInv'
  BY <1>1 DEF HandleDidOpen, SetText, Schedule
<1>2. ASSUME NEW u \in Uris, HandleDidChange(u) PROVE EditorInv'
  BY <1>2 DEF HandleDidChange, SetText, Schedule
<1>3. ASSUME NEW u \in Uris, HandleDidSave(u) PROVE EditorInv'
  BY <1>3 DEF HandleDidSave, Schedule
<1>4. ASSUME NEW u \in Uris, HandleDidClose(u) PROVE EditorInv'
  BY <1>4 DEF HandleDidClose
<1>5. CASE HandleConfigChanged
  BY <1>5 DEF HandleConfigChanged
<1>5a. CASE HandleInitialized
  BY <1>5a DEF HandleInitialized
<1>6. CASE HandleShutdown
  BY <1>6 DEF HandleShutdown, BeginTeardown
<1>7. CASE HandleExit
  BY <1>7 DEF HandleExit, BeginTeardown
<1>8. CASE Disconnect
  BY <1>8 DEF Disconnect, BeginTeardown
<1>9. ASSUME NEW p \in Fetchers, ApplySettings(p) PROVE EditorInv'
  BY <1>9 DEF ApplySettings
<1>10. ASSUME NEW p \in Procs, Proceed(p) PROVE EditorInv'
  <2>1. CASE ReloadConfig(p)
    BY <2>1 DEF ReloadConfig
  <2>2. CASE ListOpen(p)
    BY <2>2 DEF ListOpen, Schedule, OpenUris
  <2>3. CASE ScheduleCheck(p)
    BY <2>3 DEF ScheduleCheck, AfterStop
  <2>4. CASE ScheduleArm(p)
    BY <2>4 DEF ScheduleArm, Registered, StopNext, AfterStop, Unreferenced
  <2>5. CASE StopTimer(p)
    <3>1. /\ UNCHANGED <<docs, edits, mode, conf, shutdown, pending, diags,
                         shown, op, cur, todo, linted, lintedConf, overlapped>>
          /\ pc[p] = "stop"
          /\ \E v \in {"stop", AfterStop(op[p], todo[p])} :
                pc' = [pc EXCEPT ![p] = v]
      BY <2>5 DEF StopTimer, StopNext
    <3>2. /\ AfterStop(op[p], todo[p]) \notin {"cancel", "blank"}
          /\ AfterStop(op[p], todo[p]) = "clear" <=> op[p] = "close"
      BY DEF AfterStop, Ops
    <3>3. \A k \in Tokens : lint[k] \in InFlight \/ lint'[k] \in InFlight =>
            /\ lint'[k] = lint[k] /\ lintUri'[k] = lintUri[k]
            /\ lintText'[k] = lintText[k]
      BY <2>5 DEF StopTimer, Retire
    <3>4. \A u \in Uris : /\ Closing(u)' <=> Closing(u)
                          /\ pc'[Dispatcher] = "blank" <=> pc[Dispatcher] = "blank"
      BY <3>1, <3>2
    <3>5. \A u \in Uris : /\ LintsOf(u, InFlight)' = LintsOf(u, InFlight)
                          /\ LintsOf(u, Begun)' = LintsOf(u, Begun)
      BY <3>3
    <3> QED BY <3>1, <3>3, <3>4, <3>5
  <2> QED BY <1>10, <2>1, <2>2, <2>3, <2>4, <2>5
          DEF Proceed
<1>11. CASE CancelPending
  <2>1. /\ UNCHANGED <<docs, edits, shutdown, lint, lintUri, lintText, diags,
                       shown, op, cur, linted, lintedConf, overlapped>>
        /\ pc[Dispatcher] = "cancel"
        /\ \E v \in {"stop", AfterStop(op[Dispatcher], todo[Dispatcher])} :
              pc' = [pc EXCEPT ![Dispatcher] = v]
    BY <1>11 DEF CancelPending, StopNext
  <2>2. op[Dispatcher] = "close"
    BY <2>1
  <2>3. AfterStop(op[Dispatcher], todo[Dispatcher]) = "clear"
    BY <2>2 DEF AfterStop
  <2> QED BY <2>1, <2>2, <2>3
<1>12. CASE ClearCached
  BY <1>12 DEF ClearCached
<1>13. CASE PublishEmpty
  BY <1>13 DEF PublishEmpty
<1>14. CASE RunReturns
  BY <1>14 DEF RunReturns, BeginTeardown
<1>15. CASE StopPendingLints
  BY <1>15 DEF StopPendingLints, StopNext, AfterStop
<1>16. ASSUME NEW k \in Tokens, Callback(k) PROVE EditorInv'
  <2>1. CASE Fire(k)
    BY <2>1 DEF Fire, Retire, Goto
  <2>2. CASE DecideLive(k)
    BY <2>2 DEF DecideLive, IsLive, Retire, Goto
  <2>3. CASE ReadDoc(k)
    BY <2>3 DEF ReadDoc, Retire, Goto
  <2>4. CASE SnapshotConfig(k)
    BY <2>4 DEF SnapshotConfig, Goto
  <2>5. CASE CacheIgnored(k)
    BY <2>5 DEF CacheIgnored, Goto
  <2>6. CASE CheckShutdown(k)
    BY <2>6 DEF CheckShutdown, Retire, Goto
  <2>7. CASE CheckOpen(k)
    BY <2>7 DEF CheckOpen, Retire, Goto
  <2>8. CASE CacheDiagnostics(k)
    BY <2>8 DEF CacheDiagnostics, Goto
  <2>9. CASE Publish(k)
    BY <2>9 DEF Publish, Retire
  <2> QED BY <1>16, <2>1, <2>2, <2>3, <2>4, <2>5, <2>6, <2>7, <2>8, <2>9
          DEF Callback
<1>17. CASE Terminated
  BY <1>17 DEF Terminated, vars
<1>18. CASE UNCHANGED vars
  BY <1>18 DEF vars
<1> QED
  BY <1>1, <1>2, <1>3, <1>4, <1>5, <1>5a, <1>6, <1>7, <1>8, <1>9, <1>10, <1>11,
     <1>12, <1>13, <1>14, <1>15, <1>16, <1>17, <1>18
     DEF Next, Client, Dispatch

LEMMA EditorInvariant == Spec => []EditorInv
<1>1. Init => EditorInv
  BY LspAssumption
     DEF Init, EditorInv, EditorOf, Stored, Shows, LintsAlone, Begun,
         Closing, LintsOf, InFlight, Procs
<1> QED BY <1>1, EditorStep, TypeInvInit, TypeInvStep, PTL DEF Spec

\* When the server has settled, the editor shows what the last lint of a document
\* computed from its current text and config, unless that lint overlapped another
\* one or a close.
THEOREM SettledEditorsAreCurrent == Spec => []SettledEditorIsCurrent
<1>1. TypeInv /\ CoverInv /\ ConfigInv /\ EditorInv => SettledEditorIsCurrent
  <2> SUFFICES ASSUME TypeInv, CoverInv, ConfigInv, EditorInv, NEW u \in Uris,
                      Settled(u), u \notin overlapped, ~shutdown
               PROVE  /\ diags[u] = shown[u]
                      /\ docs[u] = 0 \/ mode = "onType" => shown[u] = Expected(u)
    BY DEF SettledEditorIsCurrent
  <2>1. Shows(u)
    BY DEF EditorInv, EditorOf, Settled, Closing, LintsOf, Begun, InFlight,
           LintStates, Procs
  <2>2. ASSUME docs[u] # 0, mode = "onType"
        PROVE  linted[u] = docs[u] /\ lintedConf[u] = conf
    BY <2>2 DEF Settled, CoverInv, LatestTextCovered, Committed, Scheduling,
                ConfigInv, ConfigCovered, RelintDue, Relinting, OpenUris,
                LintsOf, LintStates, InFlight
  <2> QED BY <2>1, <2>2 DEF Shows, Expected, Result
<1>2. Spec => []CoverInv
  <2>1. Init => CoverInv
    BY LspAssumption
       DEF Init, CoverInv, LatestTextCovered, OpenUris, Ordered, Procs
  <2> QED
    BY <2>1, CoverStep, TypeInvInit, TypeInvStep, PendingInvariant, PTL
       DEF Spec
<1> QED
  BY <1>1, <1>2, ConfigInvariant, EditorInvariant, PendingInvariant, PTL

\* No lint starts once the shutdown flag is set.
THEOREM ShutdownStartsNoLint == Spec => NoStartAfterShutdown
<1>1. ASSUME TypeInv, [Next]_vars, shutdown, NEW k \in Tokens, lint'[k] = "live"
      PROVE  lint[k] = "live"
  <2> USE <1>1 DEF TypeInv, TypeOK, lintVars
  <2>1. CASE \E j \in Tokens : Callback(j)
    BY <2>1 DEF Callback, Fire, DecideLive, IsLive, ReadDoc, SnapshotConfig,
                CacheIgnored, CheckShutdown, CheckOpen, CacheDiagnostics,
                Publish, Retire, Goto
  <2>2. CASE \E p \in Procs : ScheduleArm(p) \/ StopTimer(p)
    BY <2>2 DEF ScheduleArm, StopTimer, Retire
  <2>3. CASE UNCHANGED lint
    BY <2>3
  <2>4. (\E j \in Tokens : Callback(j))
            \/ (\E p \in Procs : ScheduleArm(p) \/ StopTimer(p))
            \/ UNCHANGED lint
    BY DEF Next, Client, Dispatch, Proceed, Procs, vars, Terminated,
           HandleDidOpen, HandleDidChange, HandleDidSave, HandleDidClose,
           HandleInitialized, HandleConfigChanged, ApplySettings, ReloadConfig, ListOpen,
           ScheduleCheck, CancelPending, ClearCached, PublishEmpty,
           HandleShutdown, HandleExit, Disconnect, RunReturns, BeginTeardown,
           StopPendingLints
  <2> QED BY <2>1, <2>2, <2>3, <2>4
<1>2. TypeInv /\ [Next]_vars =>
        [shutdown => \A k \in Tokens :
                        lint'[k] = "live" => lint[k] = "live"]_vars
  BY <1>1
<1> QED
  BY <1>2, TypeInvInit, TypeInvStep, PTL DEF Spec, NoStartAfterShutdown
=============================================================================
