--------------------------- MODULE RunCache_proofs ---------------------------
(* Proofs about the run cache, for any number of callbacks, files, entries  *)
(* and changes.                                                             *)
EXTENDS RunCache, FiniteSetTheorems, TLAPS

LEMMA KeyFile == ASSUME NEW k \in Keys PROVE k[2] \in Paths
  BY DEF Keys

LEMMA PathKeys ==
    ASSUME NEW p \in Paths
    PROVE  /\ <<"frontMatter", p>> \in Keys /\ <<"includes", p>> \in Keys
           /\ <<"frontMatter", p>>[2] = p /\ <<"includes", p>>[2] = p
  BY DEF Keys, Kinds

\* An entry serves one key: the key of the map slot it is in and the key every
\* reader that holds it asked for are the same.
OneKeyPerEntry ==
    /\ \A j, k \in Keys : slot[j] = slot[k] /\ slot[j] # None => j = k
    /\ \A r \in Readers : \A k \in Keys :
        held[r] # None /\ slot[k] = held[r] => asked[r] = k
    /\ \A q, r \in Readers :
        held[r] # None /\ held[q] = held[r] => asked[q] = asked[r]

\* Where a load is agrees with the state of the entry it holds.
OnceState ==
    /\ \A r \in Readers :
        /\ pc[r] \in {"build", "store"} => entry[held[r]] # "new"
        /\ pc[r] = "return" => entry[held[r]] = "built"

\* Nothing older than a key's floor is in its slot, or about to be put there,
\* and no reader holds or awaits a value older than its own floor.
Fresh ==
    /\ \A r \in Readers : pc[r] # "idle" => base[r] <= floor[asked[r]]
    /\ \A k \in Keys :
        slot[k] # None /\ entry[slot[k]] = "built" => floor[k] <= val[slot[k]]
    /\ \A r \in Readers :
        held[r] # None /\ entry[held[r]] = "built" => base[r] <= val[held[r]]
    /\ \A r \in Readers : pc[r] = "store" =>
        /\ \A k \in Keys : slot[k] = held[r] => floor[k] <= seen[r]
        /\ \A q \in Readers : held[q] = held[r] => base[q] <= seen[r]

\* Nothing is newer than the file it was read from.
Bound ==
    /\ \A k \in Keys : floor[k] <= disk[k[2]]
    /\ \A k \in Keys :
        slot[k] # None /\ entry[slot[k]] = "built"
            => val[slot[k]] <= disk[k[2]]
    /\ \A r \in Readers : held[r] # None =>
        /\ entry[held[r]] = "built" => val[held[r]] <= disk[asked[r][2]]
        /\ pc[r] = "store" => seen[r] <= disk[asked[r][2]]

Inv == TypeOK /\ OneKeyPerEntry /\ OnceState /\ Fresh /\ Bound

LEMMA InvInit == Init => Inv
  BY RunCacheAssumption, KeyFile
     DEF Init, Inv, TypeOK, OneKeyPerEntry, OnceState, Fresh, Bound, PCs,
         EntryStates

\* What both halves of Invalidate do for their key.
Raised(k) ==
    /\ slot' = [slot EXCEPT ![k] = None]
    /\ floor' = [floor EXCEPT ![k] = disk[k[2]]]
    /\ UNCHANGED <<fileVars, entry, val, readVars>>

\* An invalidation empties the slot whose floor it raises, and raises it no
\* higher than the file: nothing else has to change.
LEMMA RaiseStep ==
    ASSUME Inv, NEW k \in Keys, Raised(k), todo' \subseteq Paths,
           half' \in todo' \cup {None}, messages' \in Nat,
           budget' = [budget EXCEPT ![k] = @ + 1]
    PROVE  Inv'
<1> USE RunCacheAssumption, KeyFile
    DEF Inv, TypeOK, Raised, fileVars, readVars
<1>1. TypeOK'
  BY DEF TypeOK
<1>2. OneKeyPerEntry'
  BY DEF OneKeyPerEntry
<1>3. OnceState'
  BY DEF OnceState
<1>4. \A j \in Keys : /\ floor[j] <= floor'[j] /\ floor'[j] <= disk[j[2]]
                      /\ slot'[j] # None => slot'[j] = slot[j]
                                            /\ floor'[j] = floor[j]
  BY DEF Bound
<1>5. Fresh'
  <2>1. \A r \in Readers : pc[r] # "idle" => base[r] <= floor'[asked[r]]
    BY <1>4 DEF Fresh
  <2>2. \A j \in Keys : slot'[j] # None /\ entry[slot'[j]] = "built"
                          => floor'[j] <= val[slot'[j]]
    BY <1>4 DEF Fresh
  <2>3. \A r \in Readers : pc[r] = "store" =>
            \A j \in Keys : slot'[j] = held[r] => floor'[j] <= seen[r]
    BY <1>4 DEF Fresh
  <2> QED BY <2>1, <2>2, <2>3 DEF Fresh
<1>6. Bound'
  BY <1>4 DEF Bound
<1> QED BY <1>1, <1>2, <1>3, <1>5, <1>6

LEMMA InvStep == Inv /\ [Next]_vars => Inv'
<1> SUFFICES ASSUME Inv, [Next]_vars PROVE Inv'
  OBVIOUS
<1> USE RunCacheAssumption, KeyFile, PathKeys
    DEF Inv, TypeOK, PCs, EntryStates, fileVars, mapVars, readVars, dispVars,
        countVars
<1>1. ASSUME NEW p \in Paths, WriteFile(p) PROVE Inv'
  <2>1. TypeOK'
    BY <1>1 DEF WriteFile, TypeOK
  <2>2. OneKeyPerEntry'
    BY <1>1 DEF WriteFile, OneKeyPerEntry
  <2>3. OnceState'
    BY <1>1 DEF WriteFile, OnceState
  <2>4. Fresh'
    BY <1>1 DEF WriteFile, Fresh
  <2>5. Bound'
    BY <1>1 DEF WriteFile, Bound
  <2> QED BY <2>1, <2>2, <2>3, <2>4, <2>5
<1>2. ASSUME NEW p \in Paths, HandleDidChangeOrSave(p) PROVE Inv'
  <2>1. TypeOK'
    BY <1>2 DEF HandleDidChangeOrSave, Ready, TypeOK
  <2>2. OneKeyPerEntry'
    BY <1>2 DEF HandleDidChangeOrSave, Ready, OneKeyPerEntry
  <2>3. OnceState'
    BY <1>2 DEF HandleDidChangeOrSave, Ready, OnceState
  <2>4. Fresh'
    BY <1>2 DEF HandleDidChangeOrSave, Ready, Fresh
  <2>5. Bound'
    BY <1>2 DEF HandleDidChangeOrSave, Ready, Bound
  <2> QED BY <2>1, <2>2, <2>3, <2>4, <2>5
<1>3. ASSUME NEW S \in SUBSET Paths, HandleDidChangeWatchedFiles(S) PROVE Inv'
  <2>1. TypeOK'
    BY <1>3 DEF HandleDidChangeWatchedFiles, ToInvalidate, Ready, TypeOK
  <2>2. OneKeyPerEntry'
    BY <1>3 DEF HandleDidChangeWatchedFiles, ToInvalidate, Ready, OneKeyPerEntry
  <2>3. OnceState'
    BY <1>3 DEF HandleDidChangeWatchedFiles, ToInvalidate, Ready, OnceState
  <2>4. Fresh'
    BY <1>3 DEF HandleDidChangeWatchedFiles, ToInvalidate, Ready, Fresh
  <2>5. Bound'
    BY <1>3 DEF HandleDidChangeWatchedFiles, ToInvalidate, Ready, Bound
  <2> QED BY <2>1, <2>2, <2>3, <2>4, <2>5
<1>4. CASE InvalidateFrontMatter
  <2> PICK p \in todo :
        LET k == <<"frontMatter", p>> IN
        /\ Delete(k)
        /\ half' = p
        /\ floor' = [floor EXCEPT ![k] = disk[p]]
        /\ budget' = [budget EXCEPT ![k] = @ + 1]
    BY <1>4 DEF InvalidateFrontMatter
  <2> DEFINE k == <<"frontMatter", p>>
  <2>0. /\ k \in Keys /\ k[2] \in Paths
        /\ Raised(k)
        /\ half' \in todo' \cup {None}
        /\ budget' = [budget EXCEPT ![k] = @ + 1]
        /\ todo' = todo /\ messages' = messages
    BY <1>4 DEF InvalidateFrontMatter, Delete, Raised
  <2> HIDE DEF k
  <2> QED BY <2>0, RaiseStep DEF Raised
<1>5. CASE InvalidateIncludes
  <2> DEFINE k == <<"includes", half>>
  <2>0. /\ k \in Keys /\ k[2] \in Paths
        /\ Raised(k)
        /\ half' \in todo' \cup {None}
        /\ budget' = [budget EXCEPT ![k] = @ + 1]
        /\ todo' = todo \ {half} /\ messages' = messages
    <3>1. half \in Paths
      BY <1>5 DEF InvalidateIncludes
    <3> QED BY <1>5, <3>1 DEF InvalidateIncludes, Delete, Raised
  <2> HIDE DEF k
  <2> QED BY <2>0, RaiseStep DEF Raised
<1>6. ASSUME NEW r \in Readers, LoadOrStore(r) PROVE Inv'
  <2>1. TypeOK'
    BY <1>6 DEF LoadOrStore, Unreferenced, TypeOK
  <2>2. OneKeyPerEntry'
    <3>1. CASE slot[asked[r]] # None
      BY <1>6, <3>1 DEF LoadOrStore, OneKeyPerEntry
    <3>2. CASE slot[asked[r]] = None
      <4> PICK e \in Entries :
            /\ Unreferenced(e)
            /\ slot' = [slot EXCEPT ![asked[r]] = e]
            /\ held' = [held EXCEPT ![r] = e]
        BY <1>6, <3>2 DEF LoadOrStore
      <4>1. asked[r] \in Keys /\ asked' = asked
        BY <1>6 DEF LoadOrStore
      <4>2. \A k \in Keys : slot'[k] = IF k = asked[r] THEN e ELSE slot[k]
        BY <4>1
      <4>3. \A q \in Readers : held'[q] = IF q = r THEN e ELSE held[q]
        OBVIOUS
      <4> QED BY <4>1, <4>2, <4>3 DEF Unreferenced, OneKeyPerEntry
    <3> QED BY <3>1, <3>2
  <2>3. OnceState'
    BY <1>6 DEF LoadOrStore, Unreferenced, OnceState
  <2>4. Fresh'
    BY <1>6 DEF LoadOrStore, Unreferenced, Fresh
  <2>5. Bound'
    BY <1>6 DEF LoadOrStore, Unreferenced, Bound
  <2> QED BY <2>1, <2>2, <2>3, <2>4, <2>5
<1>7. ASSUME NEW r \in Readers, EnterOnce(r) PROVE Inv'
  <2>1. TypeOK'
    BY <1>7 DEF EnterOnce, TypeOK
  <2>2. OneKeyPerEntry'
    BY <1>7 DEF EnterOnce, OneKeyPerEntry
  <2>3. OnceState'
    BY <1>7 DEF EnterOnce, OnceState
  <2>4. Fresh'
    BY <1>7 DEF EnterOnce, Fresh
  <2>5. Bound'
    BY <1>7 DEF EnterOnce, Bound
  <2> QED BY <2>1, <2>2, <2>3, <2>4, <2>5
<1>8. ASSUME NEW r \in Readers, Build(r) PROVE Inv'
  <2>1. TypeOK'
    BY <1>8 DEF Build, TypeOK
  <2>2. OneKeyPerEntry'
    BY <1>8 DEF Build, OneKeyPerEntry
  <2>3. OnceState'
    BY <1>8 DEF Build, OnceState
  <2>4. Fresh'
    <3>1. asked[r] \in Keys /\ held[r] # None
      BY <1>8 DEF Build
    <3>2. floor[asked[r]] <= seen'[r] /\ seen'[r] \in Nat
      BY <1>8, <3>1 DEF Build, Bound
    <3>3. \A k \in Keys : slot[k] = held[r] => k = asked[r]
      BY <3>1 DEF OneKeyPerEntry
    <3>4. \A q \in Readers : held[q] = held[r] => base[q] <= floor[asked[r]]
      BY <3>1 DEF OneKeyPerEntry, Fresh
    <3>5. \A q \in Readers : held[q] = held[r] => base[q] <= seen'[r]
      BY <3>1, <3>2, <3>4
    <3>6. \A q \in Readers : q # r =>
            seen'[q] = seen[q] /\ (pc'[q] = "store" <=> pc[q] = "store")
      BY <1>8 DEF Build
    <3>7. \A q \in Readers : pc'[q] # "idle" => pc[q] # "idle"
      BY <1>8 DEF Build
    <3> QED BY <1>8, <3>2, <3>3, <3>5, <3>6, <3>7 DEF Build, Fresh
  <2>5. Bound'
    BY <1>8 DEF Build, Bound
  <2> QED BY <2>1, <2>2, <2>3, <2>4, <2>5
<1>9. ASSUME NEW r \in Readers, StoreValue(r) PROVE Inv'
  <2>1. TypeOK'
    BY <1>9 DEF StoreValue, TypeOK
  <2>2. OneKeyPerEntry'
    BY <1>9 DEF StoreValue, OneKeyPerEntry
  <2>3. OnceState'
    BY <1>9 DEF StoreValue, OnceState
  <2>4. Fresh'
    BY <1>9 DEF StoreValue, Fresh
  <2>5. Bound'
    <3>1. asked[r] \in Keys /\ held[r] \in Entries /\ held[r] # None
      BY <1>9 DEF StoreValue
    <3>2. seen[r] <= disk[asked[r][2]]
      BY <1>9, <3>1 DEF StoreValue, Bound
    <3>3. \A k \in Keys : slot[k] = held[r] => k = asked[r]
      BY <3>1 DEF OneKeyPerEntry
    <3>4. \A q \in Readers : held[q] = held[r] => asked[q] = asked[r]
      BY <3>1 DEF OneKeyPerEntry
    <3>5. \A e \in Entries : e # held[r] =>
            val'[e] = val[e] /\ entry'[e] = entry[e]
      BY <1>9 DEF StoreValue
    <3>6. val'[held[r]] = seen[r]
      BY <1>9, <3>1 DEF StoreValue
    <3>7. \A q \in Readers : pc'[q] = "store" => pc[q] = "store"
      BY <1>9 DEF StoreValue
    <3> QED BY <1>9, <3>1, <3>2, <3>3, <3>4, <3>5, <3>6, <3>7
            DEF StoreValue, Bound
  <2> QED BY <2>1, <2>2, <2>3, <2>4, <2>5
<1>10. ASSUME NEW r \in Readers, Return(r) PROVE Inv'
  <2>1. TypeOK'
    BY <1>10 DEF Return, TypeOK
  <2>2. OneKeyPerEntry'
    BY <1>10 DEF Return, OneKeyPerEntry
  <2>3. OnceState'
    BY <1>10 DEF Return, OnceState
  <2>4. Fresh'
    BY <1>10 DEF Return, Fresh
  <2>5. Bound'
    BY <1>10 DEF Return, Bound
  <2> QED BY <2>1, <2>2, <2>3, <2>4, <2>5
<1>11. ASSUME NEW r \in Readers, NEW k \in Keys, Begin(r, k) PROVE Inv'
  <2>1. TypeOK'
    BY <1>11 DEF Begin, TypeOK
  <2>2. OneKeyPerEntry'
    BY <1>11 DEF Begin, OneKeyPerEntry
  <2>3. OnceState'
    BY <1>11 DEF Begin, OnceState
  <2>4. Fresh'
    BY <1>11 DEF Begin, Fresh
  <2>5. Bound'
    BY <1>11 DEF Begin, Bound
  <2> QED BY <2>1, <2>2, <2>3, <2>4, <2>5
<1>12. CASE UNCHANGED vars
  BY <1>12 DEF vars, OneKeyPerEntry, OnceState, Fresh, Bound
<1> QED
  BY <1>1, <1>2, <1>3, <1>4, <1>5, <1>6, <1>7, <1>8, <1>9, <1>10, <1>11, <1>12
     DEF Next, Dispatch, Invalidate, Load

LEMMA Invariance == Spec => []Inv
<1>1. Init => Inv
  BY InvInit
<1>2. Inv /\ [Next]_vars => Inv'
  BY InvStep
<1> QED BY <1>1, <1>2, PTL DEF Spec

\* runcache.go: however many lints share an entry and whenever the dispatcher
\* invalidates, a load that started after an invalidation does not return what
\* the file held before it.
THEOREM NothingStaleIsReturned == Spec => []NoStaleLoad
<1>1. Inv => NoStaleLoad
  BY DEF Inv, TypeOK, OnceState, Fresh, NoStaleLoad
<1> QED BY <1>1, Invariance, PTL

-----------------------------------------------------------------------------
\* The entries a build of k can still start on: the one in its slot, and those
\* taken from it by readers before an invalidation emptied the slot.
Unbuilt(k) ==
    {e \in Entries :
        /\ entry[e] = "new"
        /\ slot[k] = e \/ \E r \in Readers : held[r] = e /\ asked[r] = k}

\* The next LoadOrStore of k allocates an entry.
Vacant(k) == IF slot[k] = None THEN 1 ELSE 0

\* What is left of the budget pays for every build that may still start.
Paid(k) ==
    /\ IsFiniteSet(Unbuilt(k))
    /\ Cardinality(Unbuilt(k)) + Vacant(k) <= budget[k]
BudgetInv == \A k \in Keys : Paid(k)

\* A step after which no more builds of k may start than before, the slot and
\* the budget counted, keeps them paid for.
LEMMA StillPaid ==
    ASSUME NEW k \in Keys, Paid(k), TypeOK, TypeOK',
           Unbuilt(k)' \subseteq Unbuilt(k),
           Vacant(k)' - Vacant(k) <= budget'[k] - budget[k]
    PROVE  Paid(k)'
<1>1. /\ IsFiniteSet(Unbuilt(k)')
      /\ Cardinality(Unbuilt(k)') <= Cardinality(Unbuilt(k))
  BY FS_Subset DEF Paid
<1>2. Cardinality(Unbuilt(k)) \in Nat /\ Cardinality(Unbuilt(k)') \in Nat
  BY <1>1, FS_CardinalityType DEF Paid
<1>3. /\ budget[k] \in Int /\ budget'[k] \in Int
      /\ Vacant(k) \in Int /\ Vacant(k)' \in Int
  BY DEF TypeOK, Vacant
<1> QED BY <1>1, <1>2, <1>3 DEF Paid

LEMMA BudgetStep == Inv /\ BudgetInv /\ [Next]_vars => BudgetInv'
<1> SUFFICES ASSUME Inv, BudgetInv, [Next]_vars, Inv', NEW k \in Keys
             PROVE  Paid(k)'
  BY InvStep DEF BudgetInv
<1>0. Paid(k) /\ TypeOK /\ TypeOK'
  BY DEF BudgetInv, Inv
<1> USE RunCacheAssumption, PathKeys
    DEF fileVars, mapVars, readVars, dispVars, countVars
<1>1. CASE \/ \E p \in Paths : WriteFile(p) \/ HandleDidChangeOrSave(p)
           \/ \E S \in SUBSET Paths : HandleDidChangeWatchedFiles(S)
           \/ \E r \in Readers : Build(r)
           \/ UNCHANGED vars
  <2>1. UNCHANGED <<slot, entry, held, asked, budget>>
    BY <1>1 DEF WriteFile, HandleDidChangeOrSave, HandleDidChangeWatchedFiles,
                Build, Ready, vars
  <2> QED BY <1>0, <2>1 DEF Paid, Unbuilt, Vacant
<1>2. ASSUME NEW j \in Keys, slot' = [slot EXCEPT ![j] = None],
             budget' = [budget EXCEPT ![j] = @ + 1],
             UNCHANGED <<entry, held, asked>>
      PROVE  Paid(k)'
  <2>1. Unbuilt(k)' \subseteq Unbuilt(k)
    BY <1>0, <1>2 DEF Unbuilt, TypeOK
  <2>2. Vacant(k)' - Vacant(k) <= budget'[k] - budget[k]
    BY <1>0, <1>2 DEF Vacant, TypeOK
  <2> QED BY <1>0, <2>1, <2>2, StillPaid
<1>3. CASE Invalidate
  <2>1. \E j \in Keys :
            /\ slot' = [slot EXCEPT ![j] = None]
            /\ budget' = [budget EXCEPT ![j] = @ + 1]
            /\ UNCHANGED <<entry, held, asked>>
    BY <1>0, <1>3 DEF Invalidate, InvalidateFrontMatter, InvalidateIncludes,
                      Delete, TypeOK
  <2> QED BY <1>2, <2>1
<1>4. ASSUME NEW r \in Readers, LoadOrStore(r) PROVE Paid(k)'
  <2> DEFINE j == asked[r]
  <2>1. /\ j \in Keys /\ held[r] = None /\ UNCHANGED <<asked, budget>>
        /\ held' = [held EXCEPT ![r] = held'[r]]
    BY <1>0, <1>4 DEF LoadOrStore, TypeOK
  <2>2. CASE slot[j] # None
    <3>1. UNCHANGED <<slot, entry>> /\ held'[r] = slot[j]
      BY <1>0, <1>4, <2>2 DEF LoadOrStore, TypeOK
    <3>2. Unbuilt(k)' \subseteq Unbuilt(k)
      BY <1>0, <2>1, <3>1 DEF Unbuilt, TypeOK
    <3> QED BY <1>0, <2>1, <3>1, <3>2, StillPaid DEF Vacant, TypeOK
  <2>3. CASE slot[j] = None
    <3> PICK e \in Entries :
            /\ Unreferenced(e)
            /\ slot' = [slot EXCEPT ![j] = e]
            /\ entry' = [entry EXCEPT ![e] = "new"]
            /\ held' = [held EXCEPT ![r] = e]
      BY <1>4, <2>3 DEF LoadOrStore
    <3>1. CASE k = j
      <4>0. \A x \in Entries : entry'[x] = IF x = e THEN "new" ELSE entry[x]
        BY <1>0 DEF TypeOK
      <4>1. Unbuilt(k)' = Unbuilt(k) \cup {e} /\ e \notin Unbuilt(k)
        <5>1. e \in Unbuilt(k)' /\ e \notin Unbuilt(k)
          BY <1>0, <2>1, <3>1, <4>0 DEF Unbuilt, Unreferenced, TypeOK
        <5>2. ASSUME NEW x \in Entries, x # e
              PROVE  x \in Unbuilt(k)' <=> x \in Unbuilt(k)
          <6>1. slot[k] = None /\ slot'[k] = e
            BY <1>0, <2>3, <3>1 DEF TypeOK
          <6>2. \A q \in Readers : held'[q] = x <=> held[q] = x
            BY <1>0, <2>1, <5>2, RunCacheAssumption DEF TypeOK
          <6> QED BY <2>1, <4>0, <5>2, <6>1, <6>2, RunCacheAssumption DEF Unbuilt
        <5> QED BY <5>1, <5>2 DEF Unbuilt
      <4>2. /\ IsFiniteSet(Unbuilt(k)')
            /\ Cardinality(Unbuilt(k)') = Cardinality(Unbuilt(k)) + 1
        BY <1>0, <4>1, FS_AddElement DEF Paid
      <4>3. Vacant(k) = 1 /\ Vacant(k)' = 0
        BY <1>0, <2>1, <2>3, <3>1 DEF Vacant, TypeOK
      <4>4. /\ Cardinality(Unbuilt(k)) \in Nat
            /\ budget[k] \in Int /\ budget'[k] = budget[k]
        BY <1>0, <2>1, FS_CardinalityType DEF Paid, TypeOK
      <4> QED BY <1>0, <4>2, <4>3, <4>4 DEF Paid
    <3>2. CASE k # j
      <4>1. Unbuilt(k)' \subseteq Unbuilt(k) /\ slot'[k] = slot[k]
        BY <1>0, <2>1, <3>2 DEF Unbuilt, Unreferenced, TypeOK
      <4> QED BY <1>0, <2>1, <4>1, StillPaid DEF Vacant, TypeOK
    <3> QED BY <3>1, <3>2
  <2> QED BY <2>2, <2>3
<1>5. ASSUME NEW r \in Readers, EnterOnce(r) PROVE Paid(k)'
  <2> DEFINE e == held[r]
  <2>1. /\ e \in Entries /\ asked[r] \in Keys
        /\ UNCHANGED <<slot, held, asked>>
    BY <1>0, <1>5 DEF EnterOnce, TypeOK
  <2>2. CASE entry[e] = "new" /\ k = asked[r]
    <3>1. /\ entry' = [entry EXCEPT ![e] = "building"]
          /\ budget'[k] = budget[k] - 1
      BY <1>0, <1>5, <2>2 DEF EnterOnce, TypeOK
    <3>2. Unbuilt(k)' = Unbuilt(k) \ {e} /\ e \in Unbuilt(k)
      BY <1>0, <2>1, <2>2, <3>1 DEF Unbuilt, TypeOK
    <3>3. /\ IsFiniteSet(Unbuilt(k)')
          /\ Cardinality(Unbuilt(k)') = Cardinality(Unbuilt(k)) - 1
      BY <1>0, <3>2, FS_RemoveElement DEF Paid
    <3>4. /\ Cardinality(Unbuilt(k)) \in Nat /\ budget[k] \in Int
          /\ Vacant(k)' = Vacant(k) /\ Vacant(k) \in Int
      BY <1>0, <2>1, FS_CardinalityType DEF Paid, TypeOK, Vacant
    <3> QED BY <1>0, <3>1, <3>3, <3>4 DEF Paid
  <2>3. CASE entry[e] # "new" \/ k # asked[r]
    <3>1. budget'[k] = budget[k]
      BY <1>0, <1>5, <2>3 DEF EnterOnce, TypeOK
    <3>2. Unbuilt(k)' \subseteq Unbuilt(k)
      BY <1>0, <1>5, <2>1 DEF EnterOnce, Unbuilt, TypeOK
    <3> QED BY <1>0, <2>1, <3>1, <3>2, StillPaid DEF Vacant, TypeOK
  <2> QED BY <2>2, <2>3
<1>6. ASSUME NEW r \in Readers, StoreValue(r) \/ Return(r) PROVE Paid(k)'
  <2>1. /\ UNCHANGED <<slot, budget>>
        /\ \A e \in Entries : entry'[e] = "new" => entry[e] = "new"
        /\ \A q \in Readers : \A e \in Entries :
            held'[q] = e /\ asked'[q] = k => held[q] = e /\ asked[q] = k
    BY <1>0, <1>6 DEF StoreValue, Return, TypeOK
  <2>2. Unbuilt(k)' \subseteq Unbuilt(k)
    BY <2>1 DEF Unbuilt
  <2> QED BY <1>0, <2>1, <2>2, StillPaid DEF Vacant, TypeOK
<1>7. ASSUME NEW r \in Readers, NEW j \in Keys, Begin(r, j) PROVE Paid(k)'
  <2>1. /\ UNCHANGED <<slot, entry, held, budget>> /\ held[r] = None
        /\ asked' = [asked EXCEPT ![r] = j]
    BY <1>0, <1>7 DEF Begin, TypeOK
  <2>2. Unbuilt(k)' \subseteq Unbuilt(k)
    BY <1>0, <2>1 DEF Unbuilt, TypeOK
  <2> QED BY <1>0, <2>1, <2>2, StillPaid DEF Vacant, TypeOK
<1> QED BY <1>1, <1>3, <1>4, <1>5, <1>6, <1>7 DEF Next, Dispatch, Load

\* runcache.go, load and Invalidate: however many lints ask for a file at once,
\* it is read at most once per key between two invalidations.
THEOREM ReadOncePerInvalidation == Spec => []OneBuildPerInvalidation
<1>1. Init => BudgetInv
  <2> SUFFICES ASSUME Init, NEW k \in Keys PROVE Paid(k)
    BY DEF BudgetInv
  <2>1. Unbuilt(k) = {} /\ Vacant(k) = 1 /\ budget[k] = 1
    BY DEF Init, Unbuilt, Vacant
  <2> QED BY <2>1, FS_EmptySet DEF Paid
<1>2. Inv /\ BudgetInv => OneBuildPerInvalidation
  <2> SUFFICES ASSUME Inv, BudgetInv, NEW k \in Keys PROVE budget[k] >= 0
    BY DEF OneBuildPerInvalidation
  <2>1. /\ Cardinality(Unbuilt(k)) \in Nat
        /\ Cardinality(Unbuilt(k)) + Vacant(k) <= budget[k]
    BY FS_CardinalityType DEF BudgetInv, Paid
  <2>2. budget[k] \in Int /\ Vacant(k) \in Nat
    BY DEF Inv, TypeOK, Vacant
  <2> QED BY <2>1, <2>2
<1> QED BY <1>1, <1>2, BudgetStep, Invariance, PTL DEF Spec

-----------------------------------------------------------------------------
\* runcache.go implements the promise of FreshReads: every step of the disk,
\* the dispatcher and the readers is one the promise allows.
THEOREM CacheKeepsPromise == Spec => ReadsAreFresh
<1>1. Init => Promise!Init
  BY DEF Init, Promise!Init
<1>2. Inv /\ [Next]_vars => [Promise!Next]_(Promise!vars)
  <2> SUFFICES ASSUME Inv, [Next]_vars
               PROVE  Promise!Next \/ UNCHANGED Promise!vars
    OBVIOUS
  <2> USE KeyFile, PathKeys
      DEF Promise!vars, fileVars, mapVars, readVars, dispVars, countVars
  <2>1. ASSUME NEW p \in Paths, WriteFile(p) PROVE Promise!Next
    <3>1. Promise!Change(p)
      BY <2>1 DEF WriteFile, Promise!Change
    <3> QED BY <3>1 DEF Promise!Next
  <2>2. CASE Dispatch
    BY <2>2 DEF Dispatch, HandleDidChangeOrSave, HandleDidChangeWatchedFiles
  <2>3. CASE InvalidateFrontMatter
    <3> PICK p \in todo :
          floor' = [floor EXCEPT ![<<"frontMatter", p>>] = disk[p]]
      BY <2>3 DEF InvalidateFrontMatter
    <3>1. p \in Paths
      BY DEF Inv, TypeOK
    <3>2. Promise!Tell(<<"frontMatter", p>>)
      BY <2>3, <3>1 DEF InvalidateFrontMatter, Promise!Tell
    <3> QED BY <3>1, <3>2 DEF Promise!Next
  <2>4. CASE InvalidateIncludes
    <3>1. half \in Paths
      BY <2>4 DEF Inv, TypeOK, InvalidateIncludes
    <3>2. Promise!Tell(<<"includes", half>>)
      BY <2>4, <3>1 DEF InvalidateIncludes, Promise!Tell
    <3> QED BY <3>1, <3>2 DEF Promise!Next
  <2>5. ASSUME NEW r \in Readers, Load(r)
        PROVE  Promise!Next \/ UNCHANGED Promise!vars
    <3>1. CASE LoadOrStore(r) \/ EnterOnce(r) \/ Build(r) \/ StoreValue(r)
      BY <3>1 DEF LoadOrStore, EnterOnce, Build, StoreValue
    <3>2. CASE Return(r)
      <4>1. /\ asked[r] \in Keys /\ held[r] \in Entries
            /\ val[held[r]] \in Nat /\ base[r] \in Nat
            /\ disk[asked[r][2]] \in Nat
        BY <3>2, RunCacheAssumption DEF Inv, TypeOK, Return
      <4>2. val[held[r]] \in base[r]..disk[asked[r][2]]
        BY <3>2, <4>1, RunCacheAssumption
           DEF Inv, TypeOK, OnceState, Fresh, Bound, Return
      <4>3. Promise!Answer(r)
        BY <3>2, <4>1, <4>2, RunCacheAssumption DEF Return, Promise!Answer
      <4> QED BY <4>3 DEF Promise!Next
    <3> QED BY <2>5, <3>1, <3>2 DEF Load
  <2>6. ASSUME NEW r \in Readers, NEW k \in Keys, Begin(r, k)
        PROVE  Promise!Next
    <3>1. Promise!Ask(r, k)
      BY <2>6 DEF Begin, Promise!Ask, Inv, TypeOK
    <3> QED BY <3>1 DEF Promise!Next
  <2>7. CASE UNCHANGED vars
    BY <2>7 DEF vars
  <2> QED BY <2>1, <2>2, <2>3, <2>4, <2>5, <2>6, <2>7 DEF Next, Invalidate
<1> QED BY <1>1, <1>2, Invariance, PTL DEF Spec, Promise!Spec, ReadsAreFresh
=============================================================================
