--------------------------- MODULE LspIndex_proofs ---------------------------
(* Proofs about LspIndex: an open buffer's text is what the index has; the   *)
(* index of a server at rest agrees with the disk and the configuration,     *)
(* unless a fetch changed that under it; and the configuration is that on    *)
(* the disk, unless two reloads met.                                         *)
EXTENDS LspIndex, TLAPS

IInv == TypeOK /\ OpenBufferWins

LEMMA EntryType ==
    ASSUME NEW text \in Texts, NEW c \in Configs
    PROVE  Entry(text, c) \in Entries /\ Entry(text, c) # NoEntry
           /\ Entry(text, c).text = text /\ Entry(text, c).config = c
BY LspIndexAssumption DEF Entry, Entries

LEMMA DiskEntryType ==
    ASSUME NEW f \in Files, NEW c \in Configs, TypeOK
    PROVE  DiskEntry(f, c) \in Entries
BY EntryType DEF DiskEntry, Entries, TypeOK

LEMMA BuildIndexType ==
    ASSUME TypeOK
    PROVE  /\ BuildIndex \in [Files -> Entries]
           /\ \A f \in Files : docs[f] # Closed =>
                 BuildIndex[f] # NoEntry /\ BuildIndex[f].text = docs[f]
<1> SUFFICES ASSUME NEW f \in Files
             PROVE  /\ BuildIndex[f] \in Entries
                    /\ docs[f] # Closed =>
                          BuildIndex[f] # NoEntry /\ BuildIndex[f].text = docs[f]
  BY DEF BuildIndex
<1>1. docs[f] # Closed => docs[f] \in Texts
  BY DEF TypeOK
<1>2. config \in Configs /\ NoEntry \in Entries
  BY DEF TypeOK, Entries
<1> QED BY <1>1, <1>2, EntryType, DiskEntryType DEF BuildIndex

LEMMA IndexNotNil ==
    ASSUME NEW x \in [Files -> Entries] PROVE x # Nil
BY LspIndexAssumption DEF Entries

LEMMA IndexUpdateType ==
    ASSUME TypeOK, OpenBufferWins, NEW f \in Files, NEW text \in Texts,
           IndexUpdate(f, text), docs' = [docs EXCEPT ![f] = text]
    PROVE  (idx' = Nil \/ idx' \in [Files -> Entries]) /\ OpenBufferWins'
<1>1. config \in Configs
  BY DEF TypeOK
<1>2. CASE idx = Nil
  BY <1>2 DEF IndexUpdate, OpenBufferWins
<1>3. CASE idx # Nil
  <2>1. idx \in [Files -> Entries] /\ docs \in [Files -> Texts \cup {Closed}]
    BY <1>3 DEF TypeOK
  <2>2. idx' = [idx EXCEPT ![f] = Entry(text, config)]
    BY <1>3 DEF IndexUpdate
  <2>3. idx' \in [Files -> Entries]
    BY <1>1, <2>1, <2>2, EntryType
  <2>4. ASSUME NEW g \in Files, docs'[g] # Closed
        PROVE  idx'[g] # NoEntry /\ idx'[g].text = docs'[g]
    <3>1. CASE g = f
      BY <1>1, <2>1, <2>2, <3>1, EntryType
    <3>2. CASE g # f
      BY <1>3, <2>1, <2>2, <2>4, <3>2 DEF OpenBufferWins
    <3> QED BY <3>1, <3>2
  <2> QED BY <2>3, <2>4 DEF OpenBufferWins
<1> QED BY <1>2, <1>3

LEMMA IndexReloadType ==
    ASSUME TypeOK, NEW files, IndexReload(files)
    PROVE  /\ idx' = Nil \/ idx' \in [Files -> Entries]
           /\ idx' # Nil => /\ idx # Nil
                            /\ \A f \in Files \ files : idx'[f] = idx[f]
                            /\ \A f \in Files \cap files :
                                  idx'[f] = DiskEntry(f, config)
<1>1. config \in Configs
  BY DEF TypeOK
<1>2. CASE idx = Nil
  BY <1>2 DEF IndexReload
<1>3. CASE idx # Nil
  <2>1. idx \in [Files -> Entries]
    BY <1>3 DEF TypeOK
  <2> QED BY <1>1, <1>3, <2>1, DiskEntryType DEF IndexReload
<1> QED BY <1>2, <1>3

LEMMA ReceiveType ==
    ASSUME TypeOK, NEW type, Receive(type)
    PROVE  Head(inbox) \in Messages /\ inbox' \in Seq(Messages)
BY DEF Receive, TypeOK

LEMMA InitIInv == Init => IInv
<1> SUFFICES ASSUME Init PROVE IInv
  OBVIOUS
<1>1. disk \in [Files -> Texts \cup {Absent}]
  BY LspIndexAssumption DEF Init
<1>2. held \in [Owners -> [override : Overrides, config : Configs]]
  BY DEF Init, Overrides
<1> QED BY <1>1, <1>2 DEF Init, IInv, TypeOK, OpenBufferWins, Overrides

LEMMA ClientIInv == IInv /\ ClientStep => IInv'
<1> SUFFICES ASSUME IInv, ClientStep PROVE IInv'
  OBVIOUS
<1> USE DEF IInv, server
<1>o. UNCHANGED <<docs, idx>> => OpenBufferWins'
  BY DEF OpenBufferWins
<1>1. ASSUME NEW f \in Files, Open(f) PROVE IInv'
  <2>1. disk[f] \in Texts
    BY <1>1 DEF Open, TypeOK
  <2>2. [type |-> "open", file |-> f, text |-> disk[f]] \in Messages
    BY <2>1 DEF Messages
  <2> QED BY <1>1, <1>o, <2>1, <2>2 DEF Open, EditBuffer, Send, TypeOK
<1>2. ASSUME NEW f \in Files, Close(f) PROVE IInv'
  <2>1. [type |-> "close", file |-> f] \in Messages
    BY DEF Messages
  <2> QED BY <1>2, <1>o, <2>1 DEF Close, EditBuffer, Send, TypeOK
<1>3. ASSUME NEW f \in Files, NEW text \in Texts, Type(f, text) PROVE IInv'
  <2>1. [type |-> "change", file |-> f, text |-> text] \in Messages
    BY DEF Messages
  <2> QED BY <1>3, <1>o, <2>1 DEF Type, EditBuffer, Send, TypeOK
<1>4. ASSUME NEW f \in Files, NEW text \in Texts \cup {Absent}, Write(f, text)
      PROVE  IInv'
  BY <1>4, <1>o DEF Write, TypeOK
<1>5. ASSUME NEW c \in Configs, WriteYaml(c) PROVE IInv'
  BY <1>5, <1>o DEF WriteYaml, TypeOK
<1>6. ASSUME NEW changed \in SUBSET unseen, Notify(changed) PROVE IInv'
  <2>1. [type |-> "watched", changed |-> changed] \in Messages
    BY DEF Messages, TypeOK
  <2> QED BY <1>6, <1>o, <2>1 DEF Notify, Send, TypeOK
<1>7. ASSUME NEW o \in Overrides, ChangeSettings(o) PROVE IInv'
  <2>1. [type |-> "configuration"] \in Messages
    BY DEF Messages
  <2> QED BY <1>7, <1>o, <2>1 DEF ChangeSettings, Send, TypeOK
<1>8. ASSUME NEW i \in Fetches, Answer(i) PROVE IInv'
  <2>1. [type |-> "response", id |-> i, override |-> wanted] \in Messages
    BY DEF Messages, TypeOK
  <2> QED BY <1>8, <1>o, <2>1 DEF Answer, Send, TypeOK, client
<1>9. CASE AskSymbols
  <2>1. [type |-> "symbols"] \in Messages
    BY DEF Messages
  <2> QED BY <1>9, <1>o, <2>1 DEF AskSymbols, Send, TypeOK, client
<1> QED
  BY <1>1, <1>2, <1>3, <1>4, <1>5, <1>6, <1>7, <1>8, <1>9 DEF ClientStep

LEMMA ServerIInv == IInv /\ ServerStep => IInv'
<1> SUFFICES ASSUME IInv, ServerStep PROVE IInv'
  OBVIOUS
<1> USE DEF IInv, client
<1>o. UNCHANGED <<docs, idx>> => OpenBufferWins'
  BY DEF OpenBufferWins
<1>c. config \in Configs
  BY DEF TypeOK
<1>1. CASE HandleDidOpen
  <2>1. Head(inbox) \in Messages /\ inbox' \in Seq(Messages)
    BY <1>1, ReceiveType DEF HandleDidOpen
  <2>2. Head(inbox).file \in Files /\ Head(inbox).text \in Texts
    BY <1>1, <2>1 DEF HandleDidOpen, Receive, Messages
  <2>3. (idx' = Nil \/ idx' \in [Files -> Entries]) /\ OpenBufferWins'
    BY <1>1, <2>2, IndexUpdateType DEF HandleDidOpen
  <2> QED BY <1>1, <2>1, <2>2, <2>3 DEF HandleDidOpen, Receive, TypeOK
<1>2. CASE HandleDidChange
  <2>1. Head(inbox) \in Messages /\ inbox' \in Seq(Messages)
    BY <1>2, ReceiveType DEF HandleDidChange
  <2>2. Head(inbox).file \in Files /\ Head(inbox).text \in Texts
    BY <1>2, <2>1 DEF HandleDidChange, Receive, Messages
  <2>3. CASE docs[Head(inbox).file] = Closed
    BY <1>2, <1>o, <2>1, <2>3 DEF HandleDidChange, Receive, TypeOK
  <2>4. CASE docs[Head(inbox).file] # Closed
    <3>1. (idx' = Nil \/ idx' \in [Files -> Entries]) /\ OpenBufferWins'
      BY <1>2, <2>2, <2>4, IndexUpdateType DEF HandleDidChange
    <3> QED BY <1>2, <2>1, <2>2, <2>4, <3>1 DEF HandleDidChange, Receive, TypeOK
  <2> QED BY <2>3, <2>4
<1>3. CASE HandleDidClose
  <2>1. Head(inbox) \in Messages /\ inbox' \in Seq(Messages)
    BY <1>3, ReceiveType DEF HandleDidClose
  <2>2. Head(inbox).file \in Files
    BY <1>3, <2>1 DEF HandleDidClose, Receive, Messages
  <2> DEFINE files == IF docs[Head(inbox).file] = Closed THEN {}
                      ELSE {Head(inbox).file}
  <2>3. IndexReload(files)
    BY <1>3 DEF HandleDidClose
  <2>4. /\ idx' = Nil \/ idx' \in [Files -> Entries]
        /\ idx' # Nil => /\ idx # Nil
                         /\ \A f \in Files \ {Head(inbox).file} : idx'[f] = idx[f]
    BY <2>3, IndexReloadType
  <2>5. OpenBufferWins'
    BY <1>3, <2>2, <2>4 DEF HandleDidClose, OpenBufferWins, TypeOK
  <2> QED BY <1>3, <2>1, <2>2, <2>4, <2>5 DEF HandleDidClose, Receive, TypeOK
<1>4. CASE HandleWatchedFiles
  <2>1. inbox' \in Seq(Messages)
    BY <1>4, ReceiveType DEF HandleWatchedFiles
  <2> DEFINE files == {f \in Head(inbox).changed : docs[f] = Closed}
  <2>2. IndexReload(files)
    BY <1>4 DEF HandleWatchedFiles
  <2>3. /\ idx' = Nil \/ idx' \in [Files -> Entries]
        /\ idx' # Nil => /\ idx # Nil
                         /\ \A f \in Files \ files : idx'[f] = idx[f]
    BY <2>2, IndexReloadType
  <2>4. OpenBufferWins'
    BY <1>4, <2>3 DEF HandleWatchedFiles, OpenBufferWins
  <2> QED BY <1>4, <2>1, <2>3, <2>4 DEF HandleWatchedFiles, Receive, TypeOK
<1>5. CASE HandleWatchedConfig
  <2>1. inbox' \in Seq(Messages)
    BY <1>5, ReceiveType DEF HandleWatchedConfig
  <2> QED BY <1>5, <1>o, <2>1
          DEF HandleWatchedConfig, Receive, TypeOK, Owners, BeginReload
<1>6. CASE LoadConfig
  <2>1. Resolve(held[Main].override) \in Configs
    BY LspIndexAssumption DEF Resolve, TypeOK
  <2> QED BY <1>6, <1>o, <2>1 DEF LoadConfig, TypeOK, Owners
<1>7. CASE SetConfig
  BY <1>7 DEF SetConfig, TypeOK, OpenBufferWins, Owners
<1>8. CASE HandleSymbols
  <2>1. inbox' \in Seq(Messages)
    BY <1>8, ReceiveType DEF HandleSymbols
  <2>2. (idx' = Nil \/ idx' \in [Files -> Entries]) /\ OpenBufferWins'
    BY <1>8, BuildIndexType DEF HandleSymbols, OpenBufferWins, TypeOK
  <2> QED BY <1>8, <2>1, <2>2 DEF HandleSymbols, Receive, TypeOK
<1>9. CASE HandleConfiguration
  <2>1. inbox' \in Seq(Messages)
    BY <1>9, ReceiveType DEF HandleConfiguration
  <2> QED BY <1>9, <1>o, <2>1 DEF HandleConfiguration, Receive, TypeOK
<1>10. CASE HandleResponse
  <2>1. Head(inbox) \in Messages /\ inbox' \in Seq(Messages)
    BY <1>10, ReceiveType DEF HandleResponse
  <2>2. Head(inbox).id \in Fetches /\ Head(inbox).override \in Overrides
    BY <1>10, <2>1 DEF HandleResponse, Receive, Messages
  <2>3. answers' \in [Fetches -> Overrides \cup {"none"}]
    BY <1>10, <2>2 DEF HandleResponse, TypeOK
  <2> QED BY <1>10, <1>o, <2>1, <2>3 DEF HandleResponse, Receive, TypeOK
<1>11. ASSUME NEW i \in Fetches, ApplySettings(i) PROVE IInv'
  BY <1>11, <1>o DEF ApplySettings, FetchStep, TypeOK
<1>12. ASSUME NEW i \in Fetches, ReadOverride(i) PROVE IInv'
  BY <1>12, <1>o DEF ReadOverride, FetchStep, TypeOK, Owners, BeginReload
<1>13. ASSUME NEW i \in Fetches, FetchLoadConfig(i) PROVE IInv'
  <2>1. Resolve(held[i].override) \in Configs
    BY LspIndexAssumption DEF Resolve, TypeOK
  <2> QED BY <1>13, <1>o, <2>1 DEF FetchLoadConfig, FetchStep, TypeOK, Owners
<1>14. ASSUME NEW i \in Fetches, FetchSetConfig(i) PROVE IInv'
  BY <1>14, <1>o DEF FetchSetConfig, FetchStep, TypeOK, Owners
<1> QED
  BY <1>1, <1>2, <1>3, <1>4, <1>5, <1>6, <1>7, <1>8, <1>9, <1>10, <1>11,
     <1>12, <1>13, <1>14 DEF ServerStep

LEMMA StepIInv == IInv /\ [Next]_vars => IInv'
<1> SUFFICES ASSUME IInv, [Next]_vars PROVE IInv'
  OBVIOUS
<1>1. ASSUME NEW i \in Fetches, TimeOut(i) PROVE IInv'
  BY <1>1 DEF TimeOut, FetchStep, IInv, TypeOK, OpenBufferWins, client
<1>2. CASE UNCHANGED vars
  BY <1>2 DEF vars, IInv, TypeOK, OpenBufferWins
<1> QED BY <1>1, <1>2, ClientIInv, ServerIInv DEF Next

LEMMA InductiveInvariant == Spec => []IInv
BY InitIInv, StepIInv, PTL DEF Spec

\* Every variable keeps its type, the messages under way included.
THEOREM TypeCorrect == Spec => []TypeOK
BY InductiveInvariant, PTL DEF IInv

\* The index has the text of every open buffer, whatever the watcher, the
\* settings and the reloads of the configuration do.
THEOREM OpenBuffersWin == Spec => []OpenBufferWins
BY InductiveInvariant, PTL DEF IInv
-----------------------------------------------------------------------------
(* Dispatch drops the index when it stores a configuration, and a fetch that *)
(* stores another one leaves its mark.                                       *)

\* The watcher will report f, or has and the report is unread.
Reported(f, changes, messages) ==
    \/ f \in changes
    \/ \E k \in 1..Len(messages) : /\ messages[k].type = "watched"
                                   /\ f \in messages[k].changed

UpToDate(f) ==
    \/ idx[f] # NoEntry /\ idx[f].text = disk[f]
    \/ idx[f] = NoEntry /\ (disk[f] = Absent \/ f \in Ignores(config))

WillMatch ==
    idx # Nil => \A f \in Files : docs[f] = Closed =>
        dispatch # "idle" \/ UpToDate(f) \/ Reported(f, unseen, inbox)

SameConfig ==
    idx # Nil => \A f \in Files : idx[f] = NoEntry \/ idx[f].config = config

LEMMA ReportedStays ==
    ASSUME NEW q \in Seq(Messages), NEW m \in Messages, NEW f, NEW S, NEW T,
           Reported(f, S, q), S \subseteq T \cup m.changed,
           m.type = "watched" \/ S \subseteq T
    PROVE  Reported(f, T, Append(q, m))
<1>1. CASE f \in T
  BY <1>1 DEF Reported
<1>2. CASE f \in S /\ f \notin T
  <2>1. /\ Append(q, m)[Len(q) + 1] = m
        /\ Len(q) + 1 \in 1..Len(Append(q, m))
    OBVIOUS
  <2> QED BY <1>2, <2>1 DEF Reported
<1>3. CASE \E k \in 1..Len(q) : q[k].type = "watched" /\ f \in q[k].changed
  <2>1. PICK k \in 1..Len(q) : q[k].type = "watched" /\ f \in q[k].changed
    BY <1>3
  <2>2. k \in 1..Len(Append(q, m)) /\ Append(q, m)[k] = q[k]
    OBVIOUS
  <2> QED BY <2>1, <2>2 DEF Reported
<1> QED BY <1>1, <1>2, <1>3 DEF Reported

LEMMA ReportedOrHeard ==
    ASSUME NEW q \in Seq(Messages), q # <<>>, NEW f, NEW S, Reported(f, S, q)
    PROVE  \/ Reported(f, S, Tail(q))
           \/ Head(q).type = "watched" /\ f \in Head(q).changed
<1>1. CASE f \in S
  BY <1>1 DEF Reported
<1>2. CASE \E k \in 1..Len(q) : q[k].type = "watched" /\ f \in q[k].changed
  <2>1. PICK k \in 1..Len(q) : q[k].type = "watched" /\ f \in q[k].changed
    BY <1>2
  <2>2. CASE k = 1
    BY <2>1, <2>2
  <2>3. CASE k # 1
    <3>1. k - 1 \in 1..Len(Tail(q)) /\ Tail(q)[k - 1] = q[k]
      BY <2>3
    <3> QED BY <2>1, <3>1 DEF Reported
  <2> QED BY <2>2, <2>3
<1> QED BY <1>1, <1>2 DEF Reported

Settled == WillMatch /\ SameConfig

SInv == TypeOK /\ ("index" \notin raced => Settled)

LEMMA DiskEntryUpToDate ==
    ASSUME NEW f \in Files, TypeOK
    PROVE  /\ DiskEntry(f, config) # NoEntry =>
                 /\ DiskEntry(f, config).text = disk[f]
                 /\ DiskEntry(f, config).config = config
           /\ DiskEntry(f, config) = NoEntry => disk[f] = Absent
BY EntryType DEF DiskEntry, TypeOK

\* A client's step loses no report.
LEMMA ClientReports ==
    ASSUME TypeOK, ClientStep, NEW f, Reported(f, unseen, inbox)
    PROVE  Reported(f, unseen', inbox')
<1>1. CASE inbox' = inbox /\ unseen \subseteq unseen'
  BY <1>1 DEF Reported
<1>2. ASSUME NEW m \in Messages, inbox' = Append(inbox, m),
             unseen \subseteq unseen' \cup m.changed,
             m.type = "watched" \/ unseen \subseteq unseen'
      PROVE  Reported(f, unseen', inbox')
  BY <1>2, ReportedStays DEF TypeOK
<1>3. \/ inbox' = inbox /\ unseen \subseteq unseen'
      \/ \E m \in Messages :
            /\ inbox' = Append(inbox, m)
            /\ unseen \subseteq unseen' \cup m.changed
            /\ m.type = "watched" \/ unseen \subseteq unseen'
  <2>1. ASSUME NEW g \in Files, Open(g) PROVE <1>3
    <3>1. [type |-> "open", file |-> g, text |-> disk[g]] \in Messages
      BY <2>1 DEF Messages, Open, TypeOK
    <3> QED BY <2>1, <3>1 DEF Open, Send
  <2>2. ASSUME NEW g \in Files, Close(g) PROVE <1>3
    <3>1. [type |-> "close", file |-> g] \in Messages
      BY DEF Messages
    <3> QED BY <2>2, <3>1 DEF Close, Send
  <2>3. ASSUME NEW g \in Files, NEW text \in Texts, Type(g, text) PROVE <1>3
    <3>1. [type |-> "change", file |-> g, text |-> text] \in Messages
      BY DEF Messages
    <3> QED BY <2>3, <3>1 DEF Type, Send
  <2>4. ASSUME NEW changed \in SUBSET unseen, Notify(changed) PROVE <1>3
    <3>1. [type |-> "watched", changed |-> changed] \in Messages
      BY DEF Messages, TypeOK
    <3> QED BY <2>4, <3>1 DEF Notify, Send
  <2>5. ASSUME NEW o \in Overrides, ChangeSettings(o) PROVE <1>3
    <3>1. [type |-> "configuration"] \in Messages
      BY DEF Messages
    <3> QED BY <2>5, <3>1 DEF ChangeSettings, Send
  <2>6. ASSUME NEW i \in Fetches, Answer(i) PROVE <1>3
    <3>1. [type |-> "response", id |-> i, override |-> wanted] \in Messages
      BY DEF Messages, TypeOK
    <3> QED BY <2>6, <3>1 DEF Answer, Send, client
  <2>7. CASE AskSymbols
    <3>1. [type |-> "symbols"] \in Messages
      BY DEF Messages
    <3> QED BY <2>7, <3>1 DEF AskSymbols, Send, client
  <2>8. ASSUME NEW g \in Files, NEW text \in Texts \cup {Absent},
               Write(g, text)
        PROVE  <1>3
    BY <2>8 DEF Write
  <2>9. ASSUME NEW c \in Configs, WriteYaml(c) PROVE <1>3
    BY <2>9 DEF WriteYaml
  <2> QED BY <2>1, <2>2, <2>3, <2>4, <2>5, <2>6, <2>7, <2>8, <2>9
          DEF ClientStep
<1> QED BY <1>1, <1>2, <1>3

LEMMA QuietClient ==
    ASSUME TypeOK, Settled, ClientStep, UNCHANGED server
    PROVE  WillMatch' /\ SameConfig'
<1>1. SameConfig'
  BY DEF Settled, SameConfig, server
<1>2. ASSUME idx # Nil, NEW f \in Files, docs[f] = Closed, dispatch = "idle"
      PROVE  UpToDate(f)' \/ Reported(f, unseen, inbox)'
  <2>1. UpToDate(f) \/ Reported(f, unseen, inbox)
    BY <1>2 DEF Settled, WillMatch
  <2>2. UpToDate(f) /\ disk'[f] = disk[f] => UpToDate(f)'
    BY DEF UpToDate, server
  <2>3. disk'[f] # disk[f] => f \in unseen'
    BY DEF ClientStep, Open, Close, Type, Write, WriteYaml, Notify,
           ChangeSettings, Answer, AskSymbols, client, TypeOK
  <2>4. Reported(f, unseen, inbox) => Reported(f, unseen, inbox)'
    BY ClientReports
  <2> QED BY <2>1, <2>2, <2>3, <2>4 DEF Reported
<1> QED BY <1>1, <1>2 DEF WillMatch, server

LEMMA QuietServer ==
    ASSUME TypeOK, Settled, ServerStep, "index" \notin raced'
    PROVE  WillMatch' /\ SameConfig'
<1> USE DEF Settled, client
<1>c. config \in Configs
  BY DEF TypeOK
<1>r. ASSUME NEW type, Receive(type), NEW f \in Files,
             Reported(f, unseen, inbox), type # "watched"
      PROVE  Reported(f, unseen', inbox')
  BY <1>r, ReportedOrHeard DEF Receive, TypeOK
<1>1. ASSUME NEW f \in Files, NEW text \in Texts, IndexUpdate(f, text),
             docs' = [docs EXCEPT ![f] = text], dispatch' = dispatch,
             NEW type, Receive(type), type # "watched"
      PROVE  WillMatch' /\ SameConfig'
  <2> USE <1>1
  <2>1. CASE idx = Nil
    BY <2>1 DEF IndexUpdate, WillMatch, SameConfig
  <2>2. CASE idx # Nil
    <3>1. idx \in [Files -> Entries] /\ docs \in [Files -> Texts \cup {Closed}]
          /\ idx' = [idx EXCEPT ![f] = Entry(text, config)]
          /\ config' = config /\ disk' = disk
      BY <2>2 DEF TypeOK, IndexUpdate, Receive
    <3>2. docs'[f] # Closed
      BY <3>1, LspIndexAssumption
    <3>3. ASSUME NEW g \in Files, g # f
          PROVE  /\ docs'[g] = docs[g] /\ idx'[g] = idx[g]
                 /\ UpToDate(g) => UpToDate(g)'
      BY <3>1, <3>3 DEF UpToDate
    <3>4. WillMatch'
      BY <2>2, <3>1, <3>2, <3>3, <1>r DEF WillMatch
    <3>5. SameConfig'
      BY <1>c, <2>2, <3>1, <3>3, EntryType DEF SameConfig
    <3> QED BY <3>4, <3>5
  <2> QED BY <2>1, <2>2
<1>2. ASSUME NEW files, IndexReload(files), NEW type, Receive(type),
             dispatch' = dispatch,
             \A f \in Files \ files : docs'[f] = docs[f],
             \A f \in Files \ files : docs'[f] = Closed =>
                (Reported(f, unseen, inbox) => Reported(f, unseen', inbox'))
      PROVE  WillMatch' /\ SameConfig'
  <2> USE <1>2
  <2>1. SUFFICES ASSUME idx' # Nil PROVE WillMatch' /\ SameConfig'
    BY DEF WillMatch, SameConfig
  <2>2. /\ idx # Nil
        /\ \A f \in Files \ files : idx'[f] = idx[f]
        /\ \A f \in Files \cap files : idx'[f] = DiskEntry(f, config)
    BY <2>1, IndexReloadType
  <2>3. config' = config /\ disk' = disk
    BY DEF Receive
  <2>4. ASSUME NEW f \in Files \cap files PROVE UpToDate(f)'
    BY <2>2, <2>3, DiskEntryUpToDate DEF UpToDate
  <2>5. ASSUME NEW f \in Files \ files PROVE UpToDate(f) => UpToDate(f)'
    BY <2>2, <2>3 DEF UpToDate
  <2>6. WillMatch'
    BY <2>2, <2>4, <2>5 DEF WillMatch
  <2>7. SameConfig'
    BY <2>2, <2>3, DiskEntryUpToDate DEF SameConfig
  <2> QED BY <2>6, <2>7
<1>3. ASSUME NEW type, Receive(type), type # "watched",
             UNCHANGED <<docs, idx, dispatch>>
      PROVE  WillMatch' /\ SameConfig'
  <2>1. \A f \in Files : UpToDate(f) => UpToDate(f)'
    BY <1>3 DEF UpToDate, Receive
  <2> QED BY <1>3, <1>r, <2>1 DEF WillMatch, SameConfig, Receive
<1>4. CASE HandleDidOpen
  <2>1. Head(inbox).file \in Files /\ Head(inbox).text \in Texts
    BY <1>4, ReceiveType DEF HandleDidOpen, Receive, Messages
  <2> QED BY <1>4, <1>1, <2>1 DEF HandleDidOpen
<1>5. CASE HandleDidChange
  <2>1. Head(inbox).file \in Files /\ Head(inbox).text \in Texts
    BY <1>5, ReceiveType DEF HandleDidChange, Receive, Messages
  <2> QED BY <1>5, <1>1, <1>3, <2>1 DEF HandleDidChange
<1>6. CASE HandleDidClose
  <2> DEFINE f == Head(inbox).file
             files == IF docs[f] = Closed THEN {} ELSE {f}
  <2>1. f \in Files
    BY <1>6, ReceiveType DEF HandleDidClose, Receive, Messages
  <2>2. docs' = [docs EXCEPT ![f] = Closed] /\ IndexReload(files)
        /\ Receive("close") /\ dispatch' = dispatch
    BY <1>6 DEF HandleDidClose
  <2>3. \A g \in Files \ files : docs'[g] = docs[g]
    BY <2>2 DEF TypeOK
  <2> QED BY <1>2, <1>r, <2>2, <2>3
<1>7. CASE HandleWatchedFiles
  <2> DEFINE files == {f \in Head(inbox).changed : docs[f] = Closed}
  <2>1. IndexReload(files) /\ Receive("watched") /\ UNCHANGED <<docs, dispatch>>
    BY <1>7 DEF HandleWatchedFiles
  <2>2. ASSUME NEW f \in Files \ files, docs[f] = Closed,
               Reported(f, unseen, inbox)
        PROVE  Reported(f, unseen', inbox')
    BY <2>1, <2>2, ReportedOrHeard DEF Receive, TypeOK
  <2> QED BY <1>2, <2>1, <2>2
<1>8. CASE HandleWatchedConfig
  BY <1>8 DEF HandleWatchedConfig, Receive, WillMatch, SameConfig
<1>9. CASE LoadConfig
  BY <1>9 DEF LoadConfig, WillMatch, SameConfig
<1>10. CASE SetConfig
  BY <1>10 DEF SetConfig, WillMatch, SameConfig
<1>11. CASE HandleSymbols
  <2>1. CASE idx # Nil
    BY <1>11, <1>3, <2>1 DEF HandleSymbols
  <2>2. CASE idx = Nil
    <3>1. idx' = BuildIndex /\ UNCHANGED <<docs, disk, config>>
      BY <1>11, <2>2 DEF HandleSymbols, Receive
    <3>2. ASSUME NEW f \in Files
          PROVE  /\ docs[f] = Closed => UpToDate(f)'
                 /\ idx'[f] = NoEntry \/ idx'[f].config = config
      <4>1. idx'[f] = IF docs[f] # Closed THEN Entry(docs[f], config)
                      ELSE IF f \in Ignores(config) THEN NoEntry
                      ELSE DiskEntry(f, config)
        BY <3>1 DEF BuildIndex
      <4>2. docs[f] # Closed => docs[f] \in Texts
        BY DEF TypeOK
      <4> QED BY <1>c, <3>1, <4>1, <4>2, EntryType, DiskEntryUpToDate
              DEF UpToDate
    <3> QED BY <3>1, <3>2 DEF WillMatch, SameConfig
  <2> QED BY <2>1, <2>2
<1>12. CASE HandleConfiguration
  BY <1>12, <1>3 DEF HandleConfiguration
<1>13. CASE HandleResponse
  BY <1>13, <1>3 DEF HandleResponse
<1>14. ASSUME NEW i \in Fetches, NEW from, NEW to, FetchStep(i, from, to),
              config' = config
       PROVE  WillMatch' /\ SameConfig'
  BY <1>14 DEF FetchStep, WillMatch, SameConfig, UpToDate
<1>15. ASSUME NEW i \in Fetches, FetchSetConfig(i)
       PROVE  WillMatch' /\ SameConfig'
  <2>1. CASE idx = Nil
    BY <1>15, <2>1 DEF FetchSetConfig, FetchStep, WillMatch, SameConfig
  <2>2. CASE idx # Nil
    <3>1. config' = config
      BY <1>15, <2>2 DEF FetchSetConfig
    <3> QED BY <1>14, <1>15, <3>1 DEF FetchSetConfig
  <2> QED BY <2>1, <2>2
<1> QED
  BY <1>4, <1>5, <1>6, <1>7, <1>8, <1>9, <1>10, <1>11, <1>12, <1>13, <1>14,
     <1>15
  DEF ServerStep, ApplySettings, ReadOverride, FetchLoadConfig

\* The mark goes when the index goes.
LEMMA MarkGoes ==
    ASSUME [Next]_vars, "index" \in raced, "index" \notin raced'
    PROVE  idx' = Nil
BY DEF Next, ClientStep, ServerStep, Open, Close, Type, Write, WriteYaml,
       EditBuffer, Notify, ChangeSettings, Answer, AskSymbols, vars, server,
       client, HandleDidOpen, HandleDidChange, HandleDidClose,
       HandleWatchedFiles, HandleWatchedConfig, LoadConfig, SetConfig,
       HandleSymbols, HandleConfiguration, HandleResponse, ApplySettings,
       TimeOut, ReadOverride, FetchLoadConfig, FetchSetConfig, FetchStep,
       BeginReload

LEMMA StepSInv ==
    ASSUME SInv, [Next]_vars, TypeOK'
    PROVE  SInv'
<1> SUFFICES ASSUME "index" \notin raced' PROVE Settled'
  BY DEF SInv
<1>1. CASE "index" \in raced
  BY <1>1, MarkGoes DEF Settled, WillMatch, SameConfig
<1>2. CASE "index" \notin raced
  <2>0. TypeOK /\ Settled
    BY <1>2 DEF SInv
  <2>1. CASE ClientStep
    <3>1. UNCHANGED server
      BY <2>1 DEF ClientStep, Open, Close, Type, EditBuffer, Write, WriteYaml,
                  Notify, ChangeSettings, Answer, AskSymbols
    <3> QED BY <2>0, <2>1, <3>1, QuietClient DEF Settled
  <2>2. CASE ServerStep
    BY <2>0, <2>2, QuietServer DEF Settled
  <2>3. CASE UNCHANGED vars
    BY <2>0, <2>3 DEF vars, Settled, WillMatch, SameConfig, UpToDate
  <2>4. ASSUME NEW i \in Fetches, TimeOut(i) PROVE Settled'
    BY <2>0, <2>4 DEF TimeOut, FetchStep, Settled, WillMatch, SameConfig,
                      UpToDate, client
  <2> QED BY <2>1, <2>2, <2>3, <2>4 DEF Next
<1> QED BY <1>1, <1>2

LEMMA SettledInvariant == Spec => []SInv
<1>1. Init => SInv
  BY InitIInv DEF Init, IInv, SInv, Settled, WillMatch, SameConfig
<1>2. IInv /\ IInv' /\ SInv /\ [Next]_vars => SInv'
  BY StepSInv DEF IInv
<1> QED BY <1>1, <1>2, InductiveInvariant, PTL DEF Spec

\* A server at rest has the closed files' entries as they are on the disk,
\* unless a fetch changed the configuration under the index.
THEOREM ClosedFilesAreCurrent == Spec => []ClosedFilesMatchDisk
<1>1. SInv => ClosedFilesMatchDisk
  BY DEF SInv, Settled, WillMatch, UpToDate, Reported, ClosedFilesMatchDisk,
         Quiet
<1> QED BY <1>1, SettledInvariant, PTL

\* And every entry was made with the configuration in force.
THEOREM EntriesFollowConfig == Spec => []IndexFollowsFile
<1>1. SInv => IndexFollowsFile
  BY DEF SInv, Settled, SameConfig, IndexFollowsFile, IndexMatchesConfig
<1> QED BY <1>1, SettledInvariant, PTL

\* The index of a server at rest is the index of what is there.
THEOREM IndexStaysCurrent == Spec => []IndexIsCurrent
<1>1. ClosedFilesMatchDisk /\ IndexFollowsFile => IndexIsCurrent
  BY DEF IndexIsCurrent
<1> QED BY <1>1, ClosedFilesAreCurrent, EntriesFollowConfig, PTL
-----------------------------------------------------------------------------
(* Two reloads that do not meet store in the order in which they load.       *)

\* What the reload o will store is what the settings and the disk say.
IsRight(o) ==
    LET at == IF o = Main THEN dispatch ELSE fetch[o]
    IN /\ at = "load" => held[o].override = settings
       /\ at = "set" => held[o].config = Resolve(settings)

OneReload == \A o, p \in Owners : Reloading(o) /\ Reloading(p) => o = p

WillReload ==
    \/ Reported(Yaml, unseen, inbox)
    \/ \E i \in Fetches : fetch[i] = "read"
    \/ \E o \in Owners : Reloading(o) /\ IsRight(o)
    \/ (\A o \in Owners : ~Reloading(o)) /\ config = Resolve(settings)

RInv == "reloads" \notin raced => OneReload /\ WillReload

LEMMA OwnersAre == Owners = Fetches \cup {Main} /\ Main \notin Fetches
BY LspIndexAssumption DEF Owners, Main

\* A step that leaves the reloads alone, and the reports of the file.
LEMMA OtherStep ==
    ASSUME TypeOK, RInv, raced' = raced,
           UNCHANGED <<settings, config, held, dispatch, yaml>>,
           Reported(Yaml, unseen, inbox) => Reported(Yaml, unseen', inbox'),
           \A i \in Fetches : fetch'[i] # fetch[i] =>
              /\ fetch[i] \notin {"read", "load", "set"}
              /\ fetch'[i] \notin {"read", "load", "set"}
    PROVE  RInv'
<1>1. \A o \in Owners : Reloading(o)' = Reloading(o)
  BY OwnersAre DEF Reloading
<1>2. ASSUME NEW o \in Owners, Reloading(o), IsRight(o) PROVE IsRight(o)'
  BY <1>2, OwnersAre DEF Reloading, IsRight, Resolve
<1>3. OneReload => OneReload'
  BY <1>1 DEF OneReload
<1>4. WillReload => WillReload'
  BY <1>1, <1>2 DEF WillReload, Resolve
<1> QED BY <1>3, <1>4 DEF RInv

\* The reload o begins, when no other is under way or raced tells.
LEMMA ReloadBegins ==
    ASSUME NEW o \in Owners, BeginReload(o), Reloading(o)', IsRight(o)',
           \A p \in Owners \ {o} : Reloading(p)' = Reloading(p)
    PROVE  RInv'
BY DEF BeginReload, RInv, OneReload, WillReload

\* The reload o loads, or stores and ends.
LEMMA ReloadGoesOn ==
    ASSUME RInv, NEW o \in Owners, Reloading(o),
           "reloads" \in raced => "reloads" \in raced',
           \A p \in Owners \ {o} : Reloading(p)' = Reloading(p),
           UNCHANGED <<unseen, inbox>>,
           \A i \in Fetches : fetch[i] = "read" => fetch'[i] = "read",
           IsRight(o) => \/ Reloading(o)' /\ IsRight(o)'
                         \/ ~Reloading(o)' /\ config' = Resolve(settings)'
    PROVE  RInv'
<1> SUFFICES ASSUME "reloads" \notin raced PROVE OneReload' /\ WillReload'
  BY DEF RInv
<1>1. OneReload /\ WillReload
  BY DEF RInv
<1>2. \A p \in Owners \ {o} : ~Reloading(p)
  BY <1>1 DEF OneReload
<1>3. OneReload'
  BY <1>2 DEF OneReload
<1>4. CASE Reported(Yaml, unseen, inbox)
  BY <1>3, <1>4 DEF WillReload
<1>5. CASE \E i \in Fetches : fetch[i] = "read"
  BY <1>3, <1>5 DEF WillReload
<1>6. CASE \E p \in Owners : Reloading(p) /\ IsRight(p)
  <2>1. IsRight(o)
    BY <1>2, <1>6
  <2> QED BY <1>2, <1>3, <2>1 DEF WillReload
<1> QED BY <1>1, <1>3, <1>4, <1>5, <1>6 DEF WillReload

LEMMA ServerRInv ==
    ASSUME TypeOK, RInv, ServerStep
    PROVE  RInv'
<1> USE DEF client
<1>r. ASSUME NEW type, Receive(type), type # "watched",
             Reported(Yaml, unseen, inbox)
      PROVE  Reported(Yaml, unseen', inbox')
  BY <1>r, ReportedOrHeard DEF Receive, TypeOK
<1>1. ASSUME NEW type, Receive(type), type # "watched",
             UNCHANGED <<dispatch, fetch, held, raced>>
      PROVE  RInv'
  BY <1>1, <1>r, OtherStep DEF Receive
<1>2. CASE HandleWatchedFiles
  <2>1. Reported(Yaml, unseen, inbox) => Reported(Yaml, unseen', inbox')
    BY <1>2, ReportedOrHeard DEF HandleWatchedFiles, Receive, TypeOK
  <2> QED BY <1>2, <2>1, OtherStep DEF HandleWatchedFiles, Receive
<1>3. CASE HandleWatchedConfig
  <2>1. Main \in Owners /\ BeginReload(Main) /\ Reloading(Main)'
    BY <1>3, OwnersAre DEF HandleWatchedConfig, Reloading
  <2>2. IsRight(Main)'
    BY <1>3, OwnersAre DEF HandleWatchedConfig, Receive, IsRight, TypeOK
  <2>3. \A p \in Owners \ {Main} : Reloading(p)' = Reloading(p)
    BY <1>3 DEF HandleWatchedConfig, Reloading
  <2> QED BY <2>1, <2>2, <2>3, ReloadBegins
<1>4. CASE LoadConfig
  <2>1. Main \in Owners /\ Reloading(Main) /\ Reloading(Main)'
    BY <1>4, OwnersAre DEF LoadConfig, Reloading
  <2>2. IsRight(Main) => IsRight(Main)'
    BY <1>4, OwnersAre DEF LoadConfig, IsRight, Resolve, TypeOK
  <2>3. \A p \in Owners \ {Main} : Reloading(p)' = Reloading(p)
    BY <1>4 DEF LoadConfig, Reloading
  <2> QED BY <1>4, <2>1, <2>2, <2>3, ReloadGoesOn DEF LoadConfig
<1>5. CASE SetConfig
  <2>1. Main \in Owners /\ Reloading(Main) /\ ~Reloading(Main)'
    BY <1>5, OwnersAre DEF SetConfig, Reloading
  <2>2. IsRight(Main) => config' = Resolve(settings)'
    BY <1>5 DEF SetConfig, IsRight, Resolve
  <2>3. \A p \in Owners \ {Main} : Reloading(p)' = Reloading(p)
    BY <1>5 DEF SetConfig, Reloading
  <2> QED BY <1>5, <2>1, <2>2, <2>3, ReloadGoesOn DEF SetConfig
<1>6. CASE HandleConfiguration
  <2>1. \A i \in Fetches : fetch'[i] # fetch[i] =>
            fetch[i] = "new" /\ fetch'[i] = "wait"
    BY <1>6 DEF HandleConfiguration, TypeOK
  <2>2. Reported(Yaml, unseen, inbox) => Reported(Yaml, unseen', inbox')
    BY <1>6, <1>r DEF HandleConfiguration
  <2> QED BY <1>6, <2>1, <2>2, OtherStep DEF HandleConfiguration, Receive
<1>7. ASSUME NEW i \in Fetches, ApplySettings(i) PROVE RInv'
  <2>1. /\ fetch'[i] = "read" /\ raced' = raced /\ dispatch' = dispatch
        /\ \A p \in Owners : Reloading(p)' = Reloading(p)
    BY <1>7, OwnersAre DEF ApplySettings, FetchStep, Reloading, TypeOK
  <2> QED BY <2>1 DEF RInv, OneReload, WillReload
<1>8. ASSUME NEW i \in Fetches, ReadOverride(i) PROVE RInv'
  <2>1. i \in Owners /\ i # Main /\ fetch' = [fetch EXCEPT ![i] = "load"]
        /\ UNCHANGED <<dispatch, settings>>
    BY <1>8, OwnersAre DEF ReadOverride, FetchStep
  <2>2. BeginReload(i) /\ Reloading(i)' /\ IsRight(i)'
    BY <1>8, <2>1 DEF ReadOverride, Reloading, IsRight, TypeOK
  <2>3. \A p \in Owners \ {i} : Reloading(p)' = Reloading(p)
    BY <2>1, OwnersAre DEF Reloading, TypeOK
  <2> QED BY <2>1, <2>2, <2>3, ReloadBegins
<1>9. ASSUME NEW i \in Fetches, FetchLoadConfig(i) PROVE RInv'
  <2>1. i \in Owners /\ i # Main /\ fetch[i] = "load"
        /\ fetch' = [fetch EXCEPT ![i] = "set"]
        /\ UNCHANGED <<dispatch, settings, yaml, unseen, inbox, raced>>
    BY <1>9, OwnersAre DEF FetchLoadConfig, FetchStep
  <2>2. Reloading(i) /\ Reloading(i)' /\ (IsRight(i) => IsRight(i)')
    BY <1>9, <2>1 DEF FetchLoadConfig, Reloading, IsRight, Resolve, TypeOK
  <2>3. \A p \in Owners \ {i} : Reloading(p)' = Reloading(p)
    BY <2>1, OwnersAre DEF Reloading, TypeOK
  <2>4. \A j \in Fetches : fetch[j] = "read" => fetch'[j] = "read"
    BY <2>1 DEF TypeOK
  <2> QED BY <2>1, <2>2, <2>3, <2>4, ReloadGoesOn
<1>10. ASSUME NEW i \in Fetches, FetchSetConfig(i) PROVE RInv'
  <2>1. i \in Owners /\ i # Main /\ fetch[i] = "set"
        /\ fetch' = [fetch EXCEPT ![i] = "done"]
        /\ UNCHANGED <<dispatch, settings, yaml, unseen, inbox>>
        /\ raced \subseteq raced'
    BY <1>10, OwnersAre DEF FetchSetConfig, FetchStep
  <2>2. Reloading(i) /\ ~Reloading(i)'
        /\ (IsRight(i) => config' = Resolve(settings)')
    BY <1>10, <2>1 DEF FetchSetConfig, Reloading, IsRight, Resolve, TypeOK
  <2>3. \A p \in Owners \ {i} : Reloading(p)' = Reloading(p)
    BY <2>1, OwnersAre DEF Reloading, TypeOK
  <2>4. \A j \in Fetches : fetch[j] = "read" => fetch'[j] = "read"
    BY <2>1 DEF TypeOK
  <2> QED BY <2>1, <2>2, <2>3, <2>4, ReloadGoesOn
<1> QED
  BY <1>1, <1>2, <1>3, <1>4, <1>5, <1>6, <1>7, <1>8, <1>9, <1>10
  DEF ServerStep, HandleDidOpen, HandleDidChange, HandleDidClose,
      HandleSymbols, HandleResponse

LEMMA StepRInv ==
    ASSUME TypeOK, RInv, [Next]_vars
    PROVE  RInv'
<1>1. CASE ClientStep
  <2>1. UNCHANGED server
    BY <1>1 DEF ClientStep, Open, Close, Type, EditBuffer, Write, WriteYaml,
                Notify, ChangeSettings, Answer, AskSymbols
  <2>2. Reported(Yaml, unseen, inbox) => Reported(Yaml, unseen', inbox')
    BY <1>1, ClientReports
  <2>3. yaml' # yaml => Reported(Yaml, unseen', inbox')
    BY <1>1 DEF ClientStep, Open, Close, Type, EditBuffer, Write, WriteYaml,
                Notify, ChangeSettings, Answer, AskSymbols, client, Reported
  <2>4. CASE yaml' = yaml
    BY <2>1, <2>2, <2>4, OtherStep DEF server
  <2>5. CASE yaml' # yaml
    BY <2>1, <2>3, <2>5 DEF RInv, OneReload, WillReload, Reloading, server
  <2> QED BY <2>4, <2>5
<1>2. CASE ServerStep
  BY <1>2, ServerRInv
<1>3. ASSUME NEW i \in Fetches, TimeOut(i) PROVE RInv'
  <2>1. \A j \in Fetches : fetch'[j] # fetch[j] =>
            fetch[j] = "wait" /\ fetch'[j] = "done"
    BY <1>3 DEF TimeOut, FetchStep, TypeOK
  <2>2. UNCHANGED <<settings, config, held, dispatch, yaml, raced, unseen, inbox>>
    BY <1>3 DEF TimeOut, FetchStep, client
  <2> QED BY <2>1, <2>2, OtherStep
<1>4. CASE UNCHANGED vars
  BY <1>4, OtherStep DEF vars
<1> QED BY <1>1, <1>2, <1>3, <1>4 DEF Next

LEMMA ReloadInvariant == Spec => []RInv
<1>1. Init => RInv
  BY OwnersAre
  DEF Init, RInv, OneReload, WillReload, Reloading, Resolve
<1>2. IInv /\ RInv /\ [Next]_vars => RInv'
  BY StepRInv DEF IInv
<1> QED BY <1>1, <1>2, InductiveInvariant, PTL DEF Spec

\* A server at rest has the configuration that the settings name, as it is on
\* the disk, unless the last two reloads met.
THEOREM ConfigurationIsCurrent == Spec => []ConfigFollowsFile
<1>1. RInv => ConfigFollowsFile
  BY OwnersAre DEF RInv, WillReload, ConfigFollowsFile, Quiet, Reported, Reloading
<1> QED BY <1>1, ReloadInvariant, PTL
=============================================================================
