------------------------ MODULE HistorySessionsProofs ------------------------
(***************************************************************************)
(* Theorems about the store of chat histories, for any set of identifiers, *)
(* any limits and any clock; and about its recorders, any number of which  *)
(* share it with its administrator, over any number of failed saves and    *)
(* stops of the process.                                                   *)
(***************************************************************************)
EXTENDS HistorySessions, FiniteSetTheorems, TLAPS

-----------------------------------------------------------------------------
(* The invariant of the store *)

\* A version 1 index is the one the process found at first: it is never written.
LegacyIndex ==
    index # NoIndex /\ index.legacy =>
        /\ Held(index.items) # {}
        /\ \A i \in Held(index.items) :
              index.items[i].rev = 1 /\ index.items[i].created = 1

\* The inductive invariant: what is dirty is held, what is to be removed is not.
Saved ==
    /\ TypeOK
    /\ LegacyIndex
    /\ dirty \subseteq Held(details)
    /\ deleted \cap Held(details) = {}
    /\ CleanOnDisk

-----------------------------------------------------------------------------
(* The operators *)

LEMMA RebuildKeeps ==
    ASSUME NEW t \in Table, NEW changed \in SUBSET Ids, NEW gone \in SUBSET Ids,
           Rebuild(t, changed, gone)
    PROVE  /\ details' \in Table
           /\ Held(details') \subseteq Held(t)
           /\ \A i \in Held(details') : details'[i] = t[i]
           /\ dirty' = changed \cap Held(details')
           /\ deleted' = gone \cup (Held(t) \ Held(details'))
           /\ dropped' = dropped \cup gone \cup (Held(t) \ Held(details'))
<1>1. PICK keep \in SUBSET Ids :
        /\ Keeps(t, limit', keep)
        /\ details' = [i \in Ids |-> IF i \in keep THEN t[i] ELSE NoEntry]
        /\ dirty' = changed \cap keep
        /\ deleted' = gone \cup (Held(t) \ keep)
        /\ dropped' = dropped \cup gone \cup (Held(t) \ keep)
  BY DEF Rebuild
<1>2. keep \subseteq Held(t)
  BY <1>1 DEF Keeps
<1>3. \A i \in Ids : details'[i] = IF i \in keep THEN t[i] ELSE NoEntry
  BY <1>1
<1>4. Held(details') = keep
  BY <1>2, <1>3 DEF Held
<1>5. details' \in Table
  BY <1>1 DEF Table
<1> QED
  BY <1>1, <1>2, <1>3, <1>4, <1>5

\* A revision is above the last one.
LEMMA NextRevisionAbove ==
    ASSUME TypeOK
    PROVE  NextRevision \in Nat /\ NextRevision > revision
BY ClockAssumption DEF TypeOK, NextRevision

LEMMA HeldEntry ==
    ASSUME NEW t \in Table, NEW i \in Held(t)
    PROVE  i \in Ids /\ t[i] \in Entry
BY DEF Table, Held

LEMMA NotHeld ==
    ASSUME NEW t \in Table, NEW i \in Ids, i \notin Held(t)
    PROVE  t[i] = NoEntry
BY DEF Table, Held

LEMMA LegacyRevisionOne ==
    ASSUME TypeOK, LegacyIndex, index # NoIndex, index.legacy
    PROVE  /\ LegacyRevision = 1
           /\ \A i \in Held(Items) : Items[i].rev = 1 /\ Items[i].created = 1
<1>1. Items = index.items
  BY DEF Items
<1>2. PICK i \in Held(index.items) : TRUE
  BY DEF LegacyIndex
<1>3. \A j \in Held(index.items) : index.items[j].rev = 1 /\ index.items[j].created = 1
  BY DEF LegacyIndex
<1>4. {Items[j].rev : j \in Held(Items)} = {1}
  BY <1>1, <1>2, <1>3
<1>5. \A j \in Held(Items) : Items[j].rev <= 1
  BY <1>1, <1>3
<1>6. LegacyRevision \in {1}
  BY <1>4, <1>5 DEF LegacyRevision
<1> QED
  BY <1>1, <1>3, <1>6

-----------------------------------------------------------------------------
(* CleanOnDisk *)

LEMMA InitSaved == Init => Saved
<1> SUFFICES ASSUME Init PROVE Saved
  OBVIOUS
<1>1. Empty \in Table /\ Held(Empty) = {}
  BY DEF Empty, Table, Held
<1>2. ASSUME NEW old \in (SUBSET Ids) \ {{}}, NEW n \in Limits,
             index = [limit |-> n, rev |-> 0, legacy |-> TRUE,
                      items |-> [i \in Ids |-> IF i \in old
                                   THEN [rev |-> 1, created |-> 1, done |-> TRUE]
                                   ELSE NoEntry]]
      PROVE  index \in Index /\ LegacyIndex
  <2>1. [rev |-> 1, created |-> 1, done |-> TRUE] \in Entry
    BY DEF Entry
  <2>2. index.items \in Table /\ index \in Index
    BY <1>2, <2>1 DEF Table, Index
  <2>3. \A i \in Held(index.items) : index.items[i].rev = 1 /\ index.items[i].created = 1
    BY <1>2 DEF Held
  <2>4. Held(index.items) = old
    BY <1>2, <2>1, NoEntryAssumption DEF Held
  <2> QED
    BY <1>2, <2>2, <2>3, <2>4 DEF LegacyIndex
<1>3. index \in Index \cup {NoIndex} /\ LegacyIndex
  BY <1>2 DEF Init, LegacyIndex
<1>4. TypeOK
  BY <1>1, <1>3, LimitAssumption, ClockAssumption DEF Init, TypeOK
<1> QED
  BY <1>1, <1>3, <1>4 DEF Init, Saved, CleanOnDisk, Up

\* What an operation on the copy leaves: t is the copy before the trim.
LEMMA OperationSaved ==
    ASSUME Saved, Begin,
           NEW t \in Table, NEW changed \in SUBSET Ids, NEW gone \in SUBSET Ids,
           Rebuild(t, changed, gone),
           gone \cap Held(t) = {},
           \A i \in Held(t) \ changed : t[i] = files[i],
           limit' \in Limits, revision' \in Nat, used' \in SUBSET Ids,
           op' \in Ids \cup {NoEntry}
    PROVE  Saved'
<1>1. /\ details' \in Table
      /\ Held(details') \subseteq Held(t)
      /\ \A i \in Held(details') : details'[i] = t[i]
      /\ dirty' = changed \cap Held(details')
      /\ deleted' = gone \cup (Held(t) \ Held(details'))
      /\ dropped' = dropped \cup gone \cup (Held(t) \ Held(details'))
  BY RebuildKeeps
<1>2. Held(t) \subseteq Ids
  BY DEF Held
<1>3. phase' = "saving" /\ UNCHANGED <<files, index, now, acked>>
  BY DEF Begin
<1>4. TypeOK'
  BY <1>1, <1>2, <1>3 DEF Saved, TypeOK
<1>5. LegacyIndex'
  BY <1>3 DEF Saved, LegacyIndex, Held
<1>6. dirty' \subseteq Held(details') /\ deleted' \cap Held(details') = {}
  BY <1>1
<1>7. CleanOnDisk'
  BY <1>1, <1>3 DEF CleanOnDisk
<1> QED
  BY <1>4, <1>5, <1>6, <1>7 DEF Saved

LEMMA StartSaved == ASSUME Saved, NEW i \in Ids, Start(i) PROVE Saved'
<1> DEFINE e == [rev |-> NextRevision, created |-> now, done |-> FALSE]
           t == [details EXCEPT ![i] = e]
<1>0. TypeOK
  BY DEF Saved
<1>1. NextRevision \in Nat
  BY <1>0, NextRevisionAbove
<1>2. e \in Entry
  BY <1>0, <1>1, ClockAssumption DEF Entry, TypeOK
<1>3. t \in Table
  BY <1>0, <1>2 DEF TypeOK, Table
<1>4. \A j \in Ids \ {i} : t[j] = details[j]
  BY <1>0 DEF TypeOK, Table
<1>5. Held(t) \subseteq Held(details) \cup {i}
  BY <1>4 DEF Held
<1>6. Begin /\ revision' = NextRevision /\ UNCHANGED limit
      /\ Rebuild(t, dirty \cup {i}, deleted \ {i})
      /\ used' = used \cup {i} /\ op' = i
  BY DEF Start
<1>7. \A j \in Held(t) \ (dirty \cup {i}) : t[j] = files[j]
  BY <1>4, <1>5, <1>6 DEF Saved, CleanOnDisk, Up, Begin, Held
<1>8. (deleted \ {i}) \cap Held(t) = {}
  BY <1>5 DEF Saved
<1>9. dirty \cup {i} \in SUBSET Ids /\ deleted \ {i} \in SUBSET Ids
  BY <1>0 DEF TypeOK
<1>10. limit' \in Limits /\ revision' \in Nat /\ used' \in SUBSET Ids /\ op' \in Ids \cup {NoEntry}
  BY <1>0, <1>1, <1>6 DEF TypeOK
<1> HIDE DEF t
<1> QED
  BY <1>3, <1>6, <1>7, <1>8, <1>9, <1>10, OperationSaved

LEMMA UpdateSaved ==
    ASSUME Saved, NEW i \in Ids, NEW ended \in BOOLEAN, Update(i, ended)
    PROVE  Saved'
<1> DEFINE t == [details EXCEPT ![i].rev = NextRevision, ![i].done = ended]
<1>0. TypeOK /\ details[i] # NoEntry
  BY DEF Saved, Update
<1>1. NextRevision \in Nat
  BY <1>0, NextRevisionAbove
<1>2. details[i] \in Entry
  BY <1>0 DEF TypeOK, Table
<1>3. t \in Table
  BY <1>0, <1>1, <1>2 DEF TypeOK, Table, Entry
<1>4. \A j \in Ids \ {i} : t[j] = details[j]
  BY <1>0 DEF TypeOK, Table
<1>5. Held(t) \subseteq Held(details) \cup {i}
  BY <1>4 DEF Held
<1>6. Begin /\ revision' = NextRevision /\ UNCHANGED <<limit, used>>
      /\ Rebuild(t, dirty \cup {i}, deleted \ {i}) /\ op' = i
  BY DEF Update
<1>7. \A j \in Held(t) \ (dirty \cup {i}) : t[j] = files[j]
  BY <1>4, <1>5, <1>6 DEF Saved, CleanOnDisk, Up, Begin, Held
<1>8. (deleted \ {i}) \cap Held(t) = {}
  BY <1>5 DEF Saved
<1>9. dirty \cup {i} \in SUBSET Ids /\ deleted \ {i} \in SUBSET Ids
  BY <1>0 DEF TypeOK
<1>10. limit' \in Limits /\ revision' \in Nat /\ used' \in SUBSET Ids /\ op' \in Ids \cup {NoEntry}
  BY <1>0, <1>1, <1>6 DEF TypeOK
<1> HIDE DEF t
<1> QED
  BY <1>3, <1>6, <1>7, <1>8, <1>9, <1>10, OperationSaved

LEMMA RemoveSaved == ASSUME Saved, NEW gone \in SUBSET Ids, Remove(gone) PROVE Saved'
<1> DEFINE t == [i \in Ids |-> IF i \in gone THEN NoEntry ELSE details[i]]
<1>0. TypeOK
  BY DEF Saved
<1>1. NextRevision \in Nat
  BY <1>0, NextRevisionAbove
<1>2. t \in Table
  BY <1>0 DEF TypeOK, Table
<1>3. Held(t) \subseteq Held(details) \ gone /\ \A j \in Held(t) : t[j] = details[j]
  BY DEF Held
<1>4. Begin /\ revision' = NextRevision /\ UNCHANGED <<limit, used>>
      /\ Rebuild(t, dirty \ gone, deleted \cup gone) /\ op' = NoEntry
  BY DEF Remove
<1>5. \A j \in Held(t) \ (dirty \ gone) : t[j] = files[j]
  BY <1>3, <1>4 DEF Saved, CleanOnDisk, Up, Begin
<1>6. (deleted \cup gone) \cap Held(t) = {}
  BY <1>3 DEF Saved
<1>7. dirty \ gone \in SUBSET Ids /\ deleted \cup gone \in SUBSET Ids
  BY <1>0 DEF TypeOK
<1>8. limit' \in Limits /\ revision' \in Nat /\ used' \in SUBSET Ids /\ op' \in Ids \cup {NoEntry}
  BY <1>0, <1>1, <1>4 DEF TypeOK
<1> HIDE DEF t
<1> QED
  BY <1>2, <1>4, <1>5, <1>6, <1>7, <1>8, OperationSaved

LEMMA AdminSaved == ASSUME Saved, Admin PROVE Saved'
<1>1. CASE Clear
  <2>1. Held(details) \in SUBSET Ids
    BY DEF Held
  <2> QED
    BY <1>1, <2>1, RemoveSaved DEF Clear
<1>2. ASSUME NEW i \in Ids, Delete(i) PROVE Saved'
  <2>1. Remove({i}) /\ {i} \in SUBSET Ids
    BY <1>2 DEF Delete
  <2> QED
    BY <2>1, RemoveSaved
<1>3. ASSUME NEW n \in Limits, SetLimit(n) PROVE Saved'
  <2>0. TypeOK
    BY DEF Saved
  <2>1. NextRevision \in Nat
    BY <2>0, NextRevisionAbove
  <2>2. Begin /\ Rebuild(details, dirty, deleted) /\ limit' = n
        /\ revision' = NextRevision /\ UNCHANGED used /\ op' = NoEntry
    BY <1>3 DEF SetLimit
  <2>3. details \in Table /\ dirty \in SUBSET Ids /\ deleted \in SUBSET Ids /\ used \in SUBSET Ids
    BY <2>0 DEF TypeOK
  <2>4. \A i \in Held(details) \ dirty : details[i] = files[i]
    BY <2>2 DEF Saved, CleanOnDisk, Up, Begin
  <2>5. deleted \cap Held(details) = {}
    BY DEF Saved
  <2> QED
    BY <2>1, <2>2, <2>3, <2>4, <2>5, OperationSaved
<1> QED
  BY <1>1, <1>2, <1>3 DEF Admin

LEMMA RemoveFileSaved == ASSUME Saved, NEW i \in Ids, RemoveFile(i) PROVE Saved'
<1>1. /\ files' = [files EXCEPT ![i] = NoEntry] /\ i \in deleted
      /\ UNCHANGED <<details, dirty, deleted, limit, revision, phase, op, index,
                     now, used, dropped, acked>>
  BY DEF RemoveFile, Saving
<1>2. files' \in Table /\ \A j \in Ids \ {i} : files'[j] = files[j]
  BY <1>1 DEF Saved, TypeOK, Table
<1>3. TypeOK' /\ LegacyIndex'
  BY <1>1, <1>2 DEF Saved, TypeOK, LegacyIndex
<1>4. CleanOnDisk'
  BY <1>1, <1>2 DEF Saved, CleanOnDisk, Up, Held
<1> QED
  BY <1>1, <1>3, <1>4 DEF Saved

LEMMA WriteFileSaved == ASSUME Saved, NEW i \in Ids, WriteFile(i) PROVE Saved'
<1>1. /\ files' = [files EXCEPT ![i] = details[i]]
      /\ UNCHANGED <<details, dirty, deleted, limit, revision, phase, op, index,
                     now, used, dropped, acked>>
  BY DEF WriteFile, Saving
<1>2. files' \in Table /\ files'[i] = details[i] /\ \A j \in Ids \ {i} : files'[j] = files[j]
  BY <1>1 DEF Saved, TypeOK, Table
<1>3. TypeOK' /\ LegacyIndex'
  BY <1>1, <1>2 DEF Saved, TypeOK, LegacyIndex
<1>4. CleanOnDisk'
  BY <1>1, <1>2 DEF Saved, CleanOnDisk, Up, Held
<1> QED
  BY <1>1, <1>3, <1>4 DEF Saved

LEMMA WriteIndexSaved == ASSUME Saved, WriteIndex PROVE Saved'
<1>1. /\ index' = [limit |-> limit, rev |-> revision, items |-> details, legacy |-> FALSE]
      /\ dirty' = {} /\ deleted' = {} /\ phase' = "ready" /\ op' = NoEntry
      /\ acked' = IF op \in Held(details) THEN [acked EXCEPT ![op] = details[op].rev] ELSE acked
      /\ Written
      /\ UNCHANGED <<details, limit, revision, now, used, dropped, files>>
  BY DEF WriteIndex, Saving
<1>2. index' \in Index /\ index'.legacy = FALSE
  BY <1>1 DEF Saved, TypeOK, Index
<1>3. acked' \in [Ids -> Nat]
  BY <1>1, HeldEntry DEF Saved, TypeOK, Entry
<1>4. TypeOK'
  BY <1>1, <1>2, <1>3 DEF Saved, TypeOK
<1>5. LegacyIndex'
  BY <1>2 DEF LegacyIndex
<1>6. CleanOnDisk'
  BY <1>1 DEF Saved, CleanOnDisk, Up, Written, WriteIndex, Saving, Held
<1> QED
  BY <1>1, <1>4, <1>5, <1>6 DEF Saved

LEMMA LoadSaved == ASSUME Saved, Load PROVE Saved'
<1>0. TypeOK /\ LegacyIndex
  BY DEF Saved
<1>1. /\ limit' = IF index = NoIndex THEN DefaultLimit ELSE index.limit
      /\ op' = NoEntry
      /\ UNCHANGED <<files, index, now, used, acked>>
  BY DEF Load
<1>2. limit' \in Limits
  BY <1>0, <1>1, LimitAssumption DEF TypeOK, Index
<1>3. Items \in Table
  BY <1>0 DEF TypeOK, Index, Items, Empty, Table
<1>4. LegacyIndex'
  BY <1>0, <1>1 DEF LegacyIndex
<1>5. CASE index # NoIndex /\ index.legacy
  <2>1. Rebuild(Items, Held(Items), {}) /\ phase' = "saving" /\ revision' = LegacyRevision
    BY <1>5 DEF Load
  <2>2. LegacyRevision \in Nat
    BY <1>0, <1>5, LegacyRevisionOne
  <2>3. Held(Items) \in SUBSET Ids
    BY DEF Held
  <2>4. /\ details' \in Table
        /\ Held(details') \subseteq Held(Items)
        /\ dirty' = Held(Items) \cap Held(details')
        /\ deleted' = {} \cup (Held(Items) \ Held(details'))
        /\ dropped' = dropped \cup {} \cup (Held(Items) \ Held(details'))
    <3>1. {} \in SUBSET Ids
      OBVIOUS
    <3> QED
      BY <1>3, <2>1, <2>3, <3>1, RebuildKeeps
  <2>5. TypeOK'
    BY <1>0, <1>1, <1>2, <2>1, <2>2, <2>3, <2>4 DEF TypeOK
  <2>6. CleanOnDisk'
    BY <2>4 DEF CleanOnDisk
  <2> QED
    BY <1>4, <2>4, <2>5, <2>6 DEF Saved
<1>6. CASE ~(index # NoIndex /\ index.legacy)
  <2> DEFINE t == [i \in Ids |-> IF Items[i] = NoEntry THEN NoEntry ELSE files[i]]
  <2>1. /\ Rebuild(t, {}, {})
        /\ phase' = IF Held(Items) \subseteq Held(files) THEN "saving" ELSE "failed"
        /\ revision' = IF index = NoIndex THEN 0 ELSE index.rev
    BY <1>6 DEF Load
  <2>2. t \in Table /\ Held(t) \subseteq Ids /\ \A i \in Held(t) : t[i] = files[i]
    BY <1>0 DEF TypeOK, Table, Held
  <2>3. revision' \in Nat
    BY <1>0, <2>1 DEF TypeOK, Index
  <2> HIDE DEF t
  <2>4. /\ details' \in Table
        /\ Held(details') \subseteq Held(t)
        /\ \A i \in Held(details') : details'[i] = t[i]
        /\ dirty' = {} \cap Held(details')
        /\ deleted' = {} \cup (Held(t) \ Held(details'))
        /\ dropped' = dropped \cup {} \cup (Held(t) \ Held(details'))
    BY <2>1, <2>2, RebuildKeeps
  <2>5. TypeOK'
    BY <1>0, <1>1, <1>2, <2>1, <2>2, <2>3, <2>4 DEF TypeOK
  <2>6. CleanOnDisk'
    BY <1>1, <2>2, <2>4 DEF CleanOnDisk
  <2> QED
    BY <1>4, <2>4, <2>5, <2>6 DEF Saved
<1> QED
  BY <1>5, <1>6

LEMMA NextSaved == Saved /\ [Next \/ Crash]_vars => Saved'
<1> SUFFICES ASSUME Saved, [Next \/ Crash]_vars PROVE Saved'
  OBVIOUS
<1>1. CASE Calls
  BY <1>1, StartSaved, UpdateSaved DEF Calls
<1>2. CASE Admin
  BY <1>2, AdminSaved
<1>3. ASSUME NEW i \in Ids, RemoveFile(i) \/ WriteFile(i) PROVE Saved'
  BY <1>3, RemoveFileSaved, WriteFileSaved
<1>4. CASE WriteIndex
  BY <1>4, WriteIndexSaved
<1>5. CASE SaveFails
  BY <1>5 DEF SaveFails, Saving, Saved, TypeOK, LegacyIndex, CleanOnDisk, Up
<1>6. CASE Load
  BY <1>6, LoadSaved
<1>7. CASE Crash
  <2>1. Empty \in Table /\ Held(Empty) = {}
    BY DEF Empty, Table, Held
  <2> QED
    BY <1>7, <2>1, LimitAssumption
    DEF Crash, Saved, TypeOK, LegacyIndex, CleanOnDisk, Up
<1>8. ASSUME NEW t \in Times, Tick(t) PROVE Saved'
  BY <1>8 DEF Tick, Saved, TypeOK, LegacyIndex, CleanOnDisk, Up
<1>9. CASE UNCHANGED vars
  BY <1>9 DEF vars, Saved, TypeOK, LegacyIndex, CleanOnDisk, Up
<1> QED
  BY <1>1, <1>2, <1>3, <1>4, <1>5, <1>6, <1>7, <1>8, <1>9 DEF Next, System

\* The invariant holds in every reachable state.
THEOREM SavedAlways == Spec => []Saved
BY InitSaved, NextSaved, PTL DEF Spec

LEMMA SavedInOneLife == OneLife => []Saved
<1>1. Saved /\ [Next]_vars => Saved'
  BY NextSaved
<1> QED
  BY <1>1, InitSaved, PTL DEF OneLife

\* Every variable keeps its type.
THEOREM HistoryTypeCorrect == Spec => []TypeOK
<1>1. Saved => TypeOK
  BY DEF Saved
<1> QED
  BY <1>1, SavedAlways, PTL

\* What is not marked dirty is on disk, through failed saves, stops of the
\* process and version 1 files.
THEOREM UnmarkedIsOnDisk == Spec => []CleanOnDisk
<1>1. Saved => CleanOnDisk
  BY DEF Saved
<1> QED
  BY <1>1, SavedAlways, PTL

-----------------------------------------------------------------------------
(* A process that does not stop *)

\* The invariant of one life of the process, from its first load on.
FirstLife ==
    /\ phase = "down" => details = Empty /\ files = Empty
    /\ NoOrphans
    /\ Up /\ dirty = {} /\ deleted = {} => Items = details
    /\ \A i \in Held(details) : details[i].rev <= revision
    /\ ~StepsBack => \A i \in Held(details) : details[i].created <= now

LEMMA InitFirstLife == Init => FirstLife
<1> SUFFICES ASSUME Init PROVE FirstLife
  OBVIOUS
<1>1. Held(Empty) = {}
  BY DEF Empty, Held
<1> QED
  BY <1>1 DEF Init, FirstLife, NoOrphans, Up

\* What an operation on the copy leaves: t is the copy before the trim.
LEMMA OperationFirstLife ==
    ASSUME Saved, FirstLife, Begin,
           NEW t \in Table, NEW changed \in SUBSET Ids, NEW gone \in SUBSET Ids,
           Rebuild(t, changed, gone),
           Held(details) \cup deleted \subseteq Held(t) \cup gone,
           changed \cap Held(t) = {} /\ gone = {} => t = details /\ dirty = {} /\ deleted = {},
           revision' \in Nat, revision' >= revision,
           \A i \in Held(t) : t[i].rev <= revision',
           ~StepsBack => \A i \in Held(t) : t[i].created <= now
    PROVE  FirstLife'
<1>1. /\ details' \in Table
      /\ Held(details') \subseteq Held(t)
      /\ \A i \in Held(details') : details'[i] = t[i]
      /\ dirty' = changed \cap Held(details')
      /\ deleted' = gone \cup (Held(t) \ Held(details'))
      /\ dropped' = dropped \cup gone \cup (Held(t) \ Held(details'))
  BY RebuildKeeps
<1>2. phase = "ready" /\ phase' = "saving" /\ UNCHANGED <<files, index, now, acked>>
  BY DEF Begin
<1>3. NoOrphans'
  BY <1>1, <1>2 DEF FirstLife, NoOrphans, Up
<1>4. ASSUME dirty' = {}, deleted' = {} PROVE Items' = details'
  <2>1. Held(details') = Held(t) /\ gone = {} /\ changed \cap Held(t) = {}
    BY <1>1, <1>4
  <2>2. t = details /\ dirty = {} /\ deleted = {}
    BY <2>1
  <2>3. details' = details
    <3>1. \A i \in Ids : details'[i] = details[i]
      BY <1>1, <2>1, <2>2, NotHeld DEF Saved, TypeOK
    <3> QED
      BY <1>1, <3>1 DEF Saved, TypeOK, Table
  <2>4. Items' = Items
    BY <1>2 DEF Items
  <2> QED
    BY <1>2, <2>2, <2>3, <2>4 DEF FirstLife, Up
<1>5. \A i \in Held(details') : details'[i].rev <= revision'
  BY <1>1
<1>6. ~StepsBack => \A i \in Held(details') : details'[i].created <= now'
  BY <1>1, <1>2
<1> QED
  BY <1>2, <1>3, <1>4, <1>5, <1>6 DEF FirstLife

\* Raising the revision keeps the revisions of the entries below it.
LEMMA RevisionsBelow ==
    ASSUME Saved, FirstLife
    PROVE  \A i \in Held(details) :
             /\ details[i].rev \in Nat /\ details[i].rev <= NextRevision
             /\ details[i].rev < NextRevision
<1> SUFFICES ASSUME NEW i \in Held(details)
             PROVE  details[i].rev \in Nat /\ details[i].rev < NextRevision
  BY NextRevisionAbove DEF Saved
<1>1. details[i].rev \in Nat
  BY HeldEntry DEF Saved, TypeOK, Entry
<1>2. details[i].rev <= revision
  BY DEF FirstLife
<1>3. NextRevision \in Nat /\ NextRevision > revision /\ revision \in Nat
  BY NextRevisionAbove DEF Saved, TypeOK
<1> QED
  BY <1>1, <1>2, <1>3

LEMMA StartFirstLife == ASSUME Saved, FirstLife, NEW i \in Ids, Start(i) PROVE FirstLife'
<1> DEFINE e == [rev |-> NextRevision, created |-> now, done |-> FALSE]
           t == [details EXCEPT ![i] = e]
<1>0. TypeOK /\ NextRevision \in Nat /\ NextRevision > revision
  BY NextRevisionAbove DEF Saved
<1>1. e \in Entry /\ e # NoEntry /\ e.rev = NextRevision /\ e.created = now
  <2>1. e \in Entry
    BY <1>0, ClockAssumption DEF Entry, TypeOK
  <2> QED
    BY <2>1, NoEntryAssumption
<1>2. t \in Table /\ t[i] = e /\ \A j \in Ids \ {i} : t[j] = details[j]
  BY <1>0, <1>1 DEF TypeOK, Table
<1> HIDE DEF t, e
<1>3. Held(t) = Held(details) \cup {i}
  BY <1>1, <1>2 DEF Held
<1>4. Begin /\ revision' = NextRevision
      /\ Rebuild(t, dirty \cup {i}, deleted \ {i})
  BY DEF Start, t, e
<1>5. dirty \cup {i} \in SUBSET Ids /\ deleted \ {i} \in SUBSET Ids
  BY <1>0 DEF TypeOK
<1>6. \A j \in Held(t) : t[j].rev <= revision'
  <2> TAKE j \in Held(t)
  <2>1. CASE j = i
    BY <1>0, <1>1, <1>2, <1>4, <2>1
  <2>2. CASE j # i
    BY <1>2, <1>3, <1>4, <2>2, RevisionsBelow DEF Held
  <2> QED
    BY <2>1, <2>2
<1>7. ~StepsBack => \A j \in Held(t) : t[j].created <= now
  BY <1>0, <1>1, <1>2, <1>3, ClockAssumption DEF FirstLife, Held, TypeOK
<1>8. (dirty \cup {i}) \cap Held(t) # {}
  BY <1>3
<1>9. revision' \in Nat /\ revision' >= revision
  BY <1>0, <1>4 DEF TypeOK
<1>10. Held(details) \cup deleted \subseteq Held(t) \cup (deleted \ {i})
  BY <1>3
<1> QED
  BY <1>2, <1>4, <1>5, <1>6, <1>7, <1>8, <1>9, <1>10, OperationFirstLife

LEMMA UpdateFirstLife ==
    ASSUME Saved, FirstLife, NEW i \in Ids, NEW ended \in BOOLEAN, Update(i, ended)
    PROVE  FirstLife'
<1> DEFINE t == [details EXCEPT ![i].rev = NextRevision, ![i].done = ended]
<1>0. TypeOK /\ NextRevision \in Nat /\ NextRevision > revision
  BY NextRevisionAbove DEF Saved
<1>1. details[i] \in Entry /\ details[i] # NoEntry
  BY <1>0 DEF TypeOK, Table, Update
<1>2. /\ t \in Table /\ t[i] \in Entry
      /\ t[i].rev = NextRevision /\ t[i].created = details[i].created
      /\ \A j \in Ids \ {i} : t[j] = details[j]
  BY <1>0, <1>1 DEF TypeOK, Table, Entry
<1>3. Begin /\ revision' = NextRevision
      /\ Rebuild(t, dirty \cup {i}, deleted \ {i})
  BY DEF Update
<1> HIDE DEF t
<1>4. Held(t) = Held(details) /\ i \in Held(details)
  BY <1>1, <1>2, NoEntryAssumption DEF Held
<1>5. dirty \cup {i} \in SUBSET Ids /\ deleted \ {i} \in SUBSET Ids
  BY <1>0 DEF TypeOK
<1>6. \A j \in Held(t) : t[j].rev <= revision'
  <2> TAKE j \in Held(t)
  <2>1. CASE j = i
    BY <1>0, <1>2, <1>3, <2>1
  <2>2. CASE j # i
    BY <1>2, <1>3, <1>4, <2>2, RevisionsBelow DEF Held
  <2> QED
    BY <2>1, <2>2
<1>7. ~StepsBack => \A j \in Held(t) : t[j].created <= now
  <2> SUFFICES ASSUME ~StepsBack, NEW j \in Held(t) PROVE t[j].created <= now
    OBVIOUS
  <2>1. j \in Ids /\ j \in Held(details) /\ t[j].created = details[j].created
    BY <1>2, <1>4 DEF Held
  <2> QED
    BY <2>1 DEF FirstLife
<1>8. (dirty \cup {i}) \cap Held(t) # {}
  BY <1>4
<1>9. revision' \in Nat /\ revision' >= revision
  BY <1>0, <1>3 DEF TypeOK
<1>10. Held(details) \cup deleted \subseteq Held(t) \cup (deleted \ {i})
  BY <1>4
<1> QED
  BY <1>2, <1>3, <1>5, <1>6, <1>7, <1>8, <1>9, <1>10, OperationFirstLife

LEMMA RemoveFirstLife ==
    ASSUME Saved, FirstLife, NEW gone \in SUBSET Ids, Remove(gone)
    PROVE  FirstLife'
<1> DEFINE t == [i \in Ids |-> IF i \in gone THEN NoEntry ELSE details[i]]
<1>0. TypeOK /\ NextRevision \in Nat /\ NextRevision > revision
  BY NextRevisionAbove DEF Saved
<1>1. /\ Begin /\ revision' = NextRevision /\ gone \subseteq Held(details)
      /\ Rebuild(t, dirty \ gone, deleted \cup gone)
  BY DEF Remove
<1>2. t \in Table /\ Held(t) = Held(details) \ gone /\ \A j \in Held(t) : t[j] = details[j]
  BY <1>0 DEF TypeOK, Table, Held
<1>3. ASSUME (dirty \ gone) \cap Held(t) = {}, deleted \cup gone = {}
      PROVE  t = details /\ dirty = {} /\ deleted = {}
  <2>1. gone = {} /\ deleted = {}
    BY <1>3
  <2>2. t = details
    BY <1>0, <2>1 DEF TypeOK, Table
  <2>3. dirty = {}
    BY <1>2, <1>3, <2>1 DEF Saved
  <2> QED
    BY <2>1, <2>2, <2>3
<1> HIDE DEF t
<1>4. dirty \ gone \in SUBSET Ids /\ deleted \cup gone \in SUBSET Ids
  BY <1>0 DEF TypeOK
<1>5. \A j \in Held(t) : t[j].rev <= revision'
  BY <1>1, <1>2, RevisionsBelow
<1>6. ~StepsBack => \A j \in Held(t) : t[j].created <= now
  BY <1>2 DEF FirstLife
<1>7. revision' \in Nat /\ revision' >= revision
  BY <1>0, <1>1 DEF TypeOK
<1>8. Held(details) \cup deleted \subseteq Held(t) \cup (deleted \cup gone)
  BY <1>2
<1> QED
  BY <1>1, <1>2, <1>3, <1>4, <1>5, <1>6, <1>7, <1>8, OperationFirstLife

LEMMA AdminFirstLife == ASSUME Saved, FirstLife, Admin PROVE FirstLife'
<1>1. CASE Clear
  <2>1. Held(details) \in SUBSET Ids
    BY DEF Held
  <2> QED
    BY <1>1, <2>1, RemoveFirstLife DEF Clear
<1>2. ASSUME NEW i \in Ids, Delete(i) PROVE FirstLife'
  <2>1. Remove({i}) /\ {i} \in SUBSET Ids
    BY <1>2 DEF Delete
  <2> QED
    BY <2>1, RemoveFirstLife
<1>3. ASSUME NEW n \in Limits, SetLimit(n) PROVE FirstLife'
  <2>0. TypeOK /\ NextRevision \in Nat /\ NextRevision > revision
    BY NextRevisionAbove DEF Saved
  <2>1. Begin /\ Rebuild(details, dirty, deleted) /\ revision' = NextRevision
    BY <1>3 DEF SetLimit
  <2>2. details \in Table /\ dirty \in SUBSET Ids /\ deleted \in SUBSET Ids
    BY <2>0 DEF TypeOK
  <2>3. \A j \in Held(details) : details[j].rev <= revision'
    BY <2>1, RevisionsBelow
  <2>4. ~StepsBack => \A j \in Held(details) : details[j].created <= now
    BY DEF FirstLife
  <2>5. revision' \in Nat /\ revision' >= revision
    BY <2>0, <2>1 DEF TypeOK
  <2>6. dirty \cap Held(details) = {} => dirty = {}
    BY DEF Saved
  <2> QED
    BY <2>1, <2>2, <2>3, <2>4, <2>5, <2>6, OperationFirstLife
<1> QED
  BY <1>1, <1>2, <1>3 DEF Admin

LEMMA SaveFirstLife ==
    ASSUME Saved, FirstLife,
           WriteIndex \/ SaveFails \/ \E i \in Ids : RemoveFile(i) \/ WriteFile(i)
    PROVE  FirstLife'
<1>0. files \in Table /\ details \in Table
  BY DEF Saved, TypeOK
<1>1. phase = "saving" /\ UNCHANGED <<details, limit, revision, now, used, dropped>>
  BY DEF WriteIndex, SaveFails, RemoveFile, WriteFile, Saving
<1>2. phase' # "down"
  BY <1>1 DEF WriteIndex, SaveFails, RemoveFile, WriteFile, Saving
<1>3. /\ \A i \in Held(details') : details'[i].rev <= revision'
      /\ ~StepsBack => \A i \in Held(details') : details'[i].created <= now'
  BY <1>1 DEF FirstLife
<1>4. CASE WriteIndex
  <2>1. /\ index' = [limit |-> limit, rev |-> revision, items |-> details, legacy |-> FALSE]
        /\ deleted' = {} /\ files' = files /\ Removed
    BY <1>4 DEF WriteIndex
  <2>2. Held(files') \subseteq Held(details')
    BY <1>1, <2>1 DEF FirstLife, NoOrphans, Up, Removed, Held
  <2>3. index' # NoIndex => Items' = details'
    BY <1>1, <2>1 DEF Items
  <2>4. index' # NoIndex
    <3>1. index' \in Index
      BY <2>1 DEF Saved, TypeOK, Index
    <3> QED
      BY <3>1, NoIndexAssumption
  <2> QED
    BY <1>2, <1>3, <2>2, <2>3, <2>4 DEF FirstLife, NoOrphans
<1>5. CASE SaveFails
  <2>1. UNCHANGED <<files, index, dirty, deleted>>
    BY <1>5 DEF SaveFails
  <2>2. Items' = Items
    BY <2>1 DEF Items
  <2> QED
    BY <1>1, <1>2, <1>3, <2>1, <2>2 DEF FirstLife, NoOrphans, Up
<1>6. ASSUME NEW i \in Ids, RemoveFile(i) PROVE FirstLife'
  <2>1. UNCHANGED <<phase, index, dirty, deleted>> /\ files' = [files EXCEPT ![i] = NoEntry]
    BY <1>6 DEF RemoveFile
  <2>2. Held(files') \subseteq Held(files)
    BY <1>0, <2>1 DEF Held, Table
  <2>3. Items' = Items
    BY <2>1 DEF Items
  <2> QED
    BY <1>1, <1>2, <1>3, <2>1, <2>2, <2>3 DEF FirstLife, NoOrphans, Up
<1>7. ASSUME NEW i \in Ids, WriteFile(i) PROVE FirstLife'
  <2>1. /\ UNCHANGED <<phase, index, dirty, deleted>>
        /\ files' = [files EXCEPT ![i] = details[i]] /\ i \in dirty
    BY <1>7 DEF WriteFile
  <2>2. Held(files') \subseteq Held(files) \cup {i}
    BY <1>0, <2>1 DEF Held, Table
  <2>3. i \in Held(details)
    BY <2>1 DEF Saved
  <2>4. Items' = Items
    BY <2>1 DEF Items
  <2> QED
    BY <1>1, <1>2, <1>3, <2>1, <2>2, <2>3, <2>4 DEF FirstLife, NoOrphans, Up
<1> QED
  BY <1>4, <1>5, <1>6, <1>7

LEMMA LoadFirstLife == ASSUME Saved, FirstLife, Load PROVE FirstLife'
<1>0. TypeOK /\ LegacyIndex /\ files = Empty /\ Held(files) = {}
  BY DEF Saved, FirstLife, Load, Empty, Held
<1>1. UNCHANGED <<files, index, now, used, acked>> /\ Items \in Table
  BY <1>0 DEF Load, TypeOK, Index, Items, Empty, Table
<1>2. Items' = Items
  BY <1>1 DEF Items
<1>3. NoOrphans'
  BY <1>0, <1>1 DEF NoOrphans
<1>4. phase' # "down"
  BY DEF Load
<1>5. CASE index # NoIndex /\ index.legacy
  <2>1. Rebuild(Items, Held(Items), {}) /\ phase' = "saving" /\ revision' = LegacyRevision
    BY <1>5 DEF Load
  <2>2. /\ LegacyRevision = 1
        /\ \A i \in Held(Items) : Items[i].rev = 1 /\ Items[i].created = 1
    BY <1>0, <1>5, LegacyRevisionOne
  <2>3. Held(Items) \in SUBSET Ids /\ {} \in SUBSET Ids
    BY DEF Held
  <2>4. /\ details' \in Table
        /\ Held(details') \subseteq Held(Items)
        /\ \A i \in Held(details') : details'[i] = Items[i]
        /\ dirty' = Held(Items) \cap Held(details')
        /\ deleted' = {} \cup (Held(Items) \ Held(details'))
        /\ dropped' = dropped \cup {} \cup (Held(Items) \ Held(details'))
    BY <1>1, <2>1, <2>3, RebuildKeeps
  <2>5. Held(Items) # {}
    BY <1>0, <1>5 DEF LegacyIndex, Items
  <2>6. ~(dirty' = {} /\ deleted' = {})
    BY <2>4, <2>5
  <2>7. now' \in Nat /\ now' >= 1
    BY <1>0, <1>1, ClockAssumption DEF TypeOK
  <2>8. /\ \A i \in Held(details') : details'[i].rev <= revision'
        /\ \A i \in Held(details') : details'[i].created <= now'
    BY <2>1, <2>2, <2>4, <2>7
  <2> QED
    BY <1>3, <1>4, <2>6, <2>8 DEF FirstLife
<1>6. CASE ~(index # NoIndex /\ index.legacy)
  <2> DEFINE t == [i \in Ids |-> IF Items[i] = NoEntry THEN NoEntry ELSE files[i]]
  <2>1. /\ Rebuild(t, {}, {})
        /\ phase' = IF Held(Items) \subseteq Held(files) THEN "saving" ELSE "failed"
    BY <1>6 DEF Load
  <2>2. t \in Table /\ Held(t) = {}
    BY <1>0 DEF Empty, Table, Held
  <2> HIDE DEF t
  <2>3. details' \in Table /\ Held(details') \subseteq Held(t)
    BY <2>1, <2>2, RebuildKeeps
  <2>4. Up' => Held(Items) = {}
    BY <1>0, <2>1 DEF Up
  <2>5. Up' => Items' = details'
    BY <1>1, <1>2, <2>2, <2>3, <2>4, NotHeld DEF Table, Held
  <2> QED
    BY <1>3, <1>4, <2>2, <2>3, <2>5 DEF FirstLife
<1> QED
  BY <1>5, <1>6

LEMMA NextFirstLife == Saved /\ FirstLife /\ [Next]_vars => FirstLife'
<1> SUFFICES ASSUME Saved, FirstLife, [Next]_vars PROVE FirstLife'
  OBVIOUS
<1>1. CASE Calls
  BY <1>1, StartFirstLife, UpdateFirstLife DEF Calls
<1>2. CASE Admin
  BY <1>2, AdminFirstLife
<1>3. CASE WriteIndex \/ SaveFails \/ \E i \in Ids : RemoveFile(i) \/ WriteFile(i)
  BY <1>3, SaveFirstLife
<1>4. CASE Load
  BY <1>4, LoadFirstLife
<1>5. ASSUME NEW t \in Times, Tick(t) PROVE FirstLife'
  <2>1. UNCHANGED <<details, dirty, deleted, revision, phase, files, index>>
        /\ (StepsBack \/ t > now) /\ now' = t
    BY <1>5 DEF Tick
  <2>2. now \in Nat /\ t \in Nat
    BY ClockAssumption DEF Saved, TypeOK
  <2>3. \A i \in Held(details) : details[i].created \in Nat
    BY HeldEntry DEF Saved, TypeOK, Entry
  <2>4. Items' = Items
    BY <2>1 DEF Items
  <2>5. ~StepsBack => \A i \in Held(details') : details'[i].created <= now'
    BY <2>1, <2>2, <2>3 DEF FirstLife
  <2> QED
    BY <2>1, <2>4, <2>5 DEF FirstLife, NoOrphans, Up
<1>6. CASE UNCHANGED vars
  BY <1>6 DEF vars, FirstLife, NoOrphans, Up, Items
<1> QED
  BY <1>1, <1>2, <1>3, <1>4, <1>5, <1>6 DEF Next, System

LEMMA FirstLifeAlways == OneLife => []FirstLife
BY SavedInOneLife, InitFirstLife, NextFirstLife, PTL DEF OneLife

\* While the process lives, every detail file belongs to an entry or is marked.
THEOREM FilesOwned == OneLife => []NoOrphans
<1>1. FirstLife => NoOrphans
  BY DEF FirstLife
<1> QED
  BY <1>1, FirstLifeAlways, PTL

\* With nothing pending, the index on disk is the copy.
THEOREM IndexCurrent == OneLife => []IndexMatches
<1>1. FirstLife => IndexMatches
  BY DEF FirstLife, IndexMatches, Up
<1> QED
  BY <1>1, FirstLifeAlways, PTL

\* While the process lives, memory, files, index and marks agree.
THEOREM CopiesSound == OneLife => []CopySound
<1>1. Saved => TypeOK /\ CleanOnDisk
  BY DEF Saved
<1> QED
  BY <1>1, SavedInOneLife, FilesOwned, IndexCurrent, PTL DEF CopySound

-----------------------------------------------------------------------------
(* The steps of one life of the process *)

LEMMA ChangeGrows ==
    ASSUME Saved, FirstLife,
           NEW t \in Table, NEW changed \in SUBSET Ids, NEW gone \in SUBSET Ids,
           Rebuild(t, changed, gone),
           \A j \in Held(t) \cap Held(details) : t[j] = details[j] \/ t[j].rev = NextRevision,
           NEW i \in Held(details) \cap Held(details'), details'[i] # details[i]
    PROVE  details'[i].rev > details[i].rev
<1>1. Held(details') \subseteq Held(t) /\ details'[i] = t[i]
  BY RebuildKeeps
<1>2. details'[i].rev = NextRevision
  BY <1>1
<1>3. details[i].rev < NextRevision
  BY RevisionsBelow
<1>4. NextRevision \in Nat /\ details[i].rev \in Nat
  BY NextRevisionAbove, RevisionsBelow DEF Saved
<1> QED
  BY <1>2, <1>3, <1>4

LEMMA StepGrows ==
    ASSUME Saved, FirstLife, Next,
           NEW i \in Held(details) \cap Held(details'), details'[i] # details[i]
    PROVE  details'[i].rev > details[i].rev
<1>0. TypeOK /\ dirty \in SUBSET Ids /\ deleted \in SUBSET Ids /\ details \in Table
      /\ NextRevision \in Nat
  BY NextRevisionAbove DEF Saved, TypeOK
<1>1. ASSUME NEW k \in Ids, Start(k) PROVE details'[i].rev > details[i].rev
  <2> DEFINE e == [rev |-> NextRevision, created |-> now, done |-> FALSE]
             t == [details EXCEPT ![k] = e]
  <2>1. e \in Entry /\ e.rev = NextRevision
    BY <1>0, ClockAssumption DEF Entry, TypeOK
  <2> HIDE DEF e
  <2>2. t \in Table /\ \A j \in Held(t) : t[j] = details[j] \/ t[j].rev = NextRevision
    BY <1>0, <2>1 DEF Table, Held
  <2>3. Rebuild(t, dirty \cup {k}, deleted \ {k})
    BY <1>1 DEF Start, e
  <2>4. dirty \cup {k} \in SUBSET Ids /\ deleted \ {k} \in SUBSET Ids
    BY <1>0
  <2> HIDE DEF t
  <2> QED
    BY <2>2, <2>3, <2>4, ChangeGrows
<1>2. ASSUME NEW k \in Ids, NEW ended \in BOOLEAN, Update(k, ended)
      PROVE  details'[i].rev > details[i].rev
  <2> DEFINE t == [details EXCEPT ![k].rev = NextRevision, ![k].done = ended]
  <2>1. details[k] \in Entry
    BY <1>0, <1>2 DEF Update, Table
  <2>2. t \in Table /\ t[k].rev = NextRevision /\ \A j \in Ids \ {k} : t[j] = details[j]
    BY <1>0, <2>1 DEF Table, Entry
  <2>3. Rebuild(t, dirty \cup {k}, deleted \ {k})
    BY <1>2 DEF Update
  <2>4. dirty \cup {k} \in SUBSET Ids /\ deleted \ {k} \in SUBSET Ids
    BY <1>0
  <2> HIDE DEF t
  <2>5. \A j \in Held(t) : t[j] = details[j] \/ t[j].rev = NextRevision
    BY <2>2 DEF Held
  <2> QED
    BY <2>2, <2>3, <2>4, <2>5, ChangeGrows
<1>3. ASSUME NEW gone \in SUBSET Ids, Remove(gone) PROVE details'[i].rev > details[i].rev
  <2> DEFINE t == [j \in Ids |-> IF j \in gone THEN NoEntry ELSE details[j]]
  <2>1. t \in Table /\ \A j \in Held(t) : t[j] = details[j]
    BY <1>0 DEF Table, Held
  <2>2. Rebuild(t, dirty \ gone, deleted \cup gone)
    BY <1>3 DEF Remove
  <2>3. dirty \ gone \in SUBSET Ids /\ deleted \cup gone \in SUBSET Ids
    BY <1>0
  <2> HIDE DEF t
  <2> QED
    BY <2>1, <2>2, <2>3, ChangeGrows
<1>4. ASSUME NEW n \in Limits, SetLimit(n) PROVE details'[i].rev > details[i].rev
  <2>1. Rebuild(details, dirty, deleted)
    BY <1>4 DEF SetLimit
  <2> QED
    BY <1>0, <2>1, ChangeGrows
<1>5. CASE Admin
  <2>1. CASE Clear
    <3>1. Held(details) \in SUBSET Ids
      BY DEF Held
    <3> QED
      BY <1>3, <2>1, <3>1 DEF Clear
  <2>2. ASSUME NEW k \in Ids, Delete(k) PROVE details'[i].rev > details[i].rev
    <3>1. {k} \in SUBSET Ids /\ Remove({k})
      BY <2>2 DEF Delete
    <3> QED
      BY <1>3, <3>1
  <2> QED
    BY <1>4, <1>5, <2>1, <2>2 DEF Admin
<1>6. CASE System
  <2>1. phase # "down" => details' = details
    BY <1>6 DEF System, RemoveFile, WriteFile, WriteIndex, SaveFails, Saving, Load, Tick
  <2>2. phase = "down" => Held(details) = {}
    BY DEF FirstLife, Empty, Held
  <2> QED
    BY <2>1, <2>2
<1> QED
  BY <1>1, <1>2, <1>5, <1>6 DEF Next, Calls

\* Whatever the clock reads, a change of an entry raises its revision.
THEOREM ChangesRaiseRevisions == OneLife => RevisionsGrow
<1>1. Saved /\ FirstLife /\ [Next]_vars =>
        [\A i \in Held(details) \cap Held(details') :
           details'[i] # details[i] => details'[i].rev > details[i].rev]_vars
  <2> SUFFICES ASSUME Saved, FirstLife, Next
               PROVE  \A i \in Held(details) \cap Held(details') :
                        details'[i] # details[i] => details'[i].rev > details[i].rev
    OBVIOUS
  <2> QED
    BY StepGrows
<1> QED
  BY <1>1, SavedInOneLife, FirstLifeAlways, PTL DEF OneLife, RevisionsGrow

\* The trim takes what is older: never the entry just started.
LEMMA NewestKept ==
    ASSUME ~StepsBack, Saved, FirstLife, NEW i \in Ids, Start(i)
    PROVE  details'[i] # NoEntry
<1> DEFINE e == [rev |-> NextRevision, created |-> now, done |-> FALSE]
           t == [details EXCEPT ![i] = e]
<1>0. TypeOK /\ NextRevision \in Nat /\ details \in Table /\ limit \in Nat /\ limit # 0
  BY NextRevisionAbove, LimitAssumption DEF Saved, TypeOK, Start
<1>1. e \in Entry /\ e # NoEntry /\ e.rev = NextRevision /\ e.created = now
  <2>1. e \in Entry
    BY <1>0, ClockAssumption DEF Entry, TypeOK
  <2> QED
    BY <2>1, NoEntryAssumption
<1>2. t \in Table /\ t[i] = e /\ \A j \in Ids \ {i} : t[j] = details[j]
  BY <1>0, <1>1 DEF Table
<1>3. PICK keep \in SUBSET Ids :
        /\ Keeps(t, limit', keep)
        /\ details' = [j \in Ids |-> IF j \in keep THEN t[j] ELSE NoEntry]
  BY DEF Start, Rebuild
<1>4. limit' = limit
  BY DEF Start
<1> HIDE DEF t, e
<1>5. Held(t) = Held(details) \cup {i}
  BY <1>1, <1>2 DEF Held
<1>6. i \in keep
  <2> SUFFICES ASSUME i \notin keep PROVE FALSE
    OBVIOUS
  <2>1. /\ keep \subseteq Held(t) /\ keep # Held(t)
        /\ Cardinality(keep) = limit
        /\ \A k \in keep, j \in Held(t) \ keep : ~Newer(t[j], t[k])
    BY <1>3, <1>4, <1>5 DEF Keeps
  <2>2. PICK k \in keep : TRUE
    <3>1. Cardinality({}) = 0
      BY FS_EmptySet
    <3> QED
      BY <1>0, <2>1, <3>1
  <2>3. k # i /\ k \in Held(details) /\ t[k] = details[k] /\ k \in Ids
    BY <1>2, <1>5, <2>1, <2>2
  <2>4. details[k].created <= now /\ details[k].created \in Nat /\ now \in Nat
    BY <1>0, <2>3, HeldEntry, ClockAssumption DEF FirstLife, Entry, TypeOK
  <2>5. details[k].rev < NextRevision /\ details[k].rev \in Nat
    BY <2>3, RevisionsBelow
  <2>6. Newer(t[i], t[k])
    BY <1>0, <1>1, <1>2, <2>3, <2>4, <2>5 DEF Newer
  <2> QED
    BY <1>5, <2>1, <2>2, <2>6
<1> QED
  BY <1>1, <1>2, <1>3, <1>6

\* A Start keeps its entry, so long as the clock does not step back.
THEOREM StartsAreKept == ASSUME ~StepsBack PROVE OneLife => StartKeepsEntry
<1>1. Saved /\ FirstLife /\ [Next]_vars =>
        [\A i \in used' \ used : details'[i] # NoEntry]_vars
  <2> SUFFICES ASSUME Saved, FirstLife, Next, NEW i \in used' \ used
               PROVE  details'[i] # NoEntry
    OBVIOUS
  <2>1. ASSUME NEW k \in Ids, Start(k) PROVE details'[i] # NoEntry
    <3>1. i = k
      BY <2>1 DEF Start
    <3> QED
      BY <2>1, <3>1, NewestKept
  <2>2. ASSUME NEW k \in Ids, NEW ended \in BOOLEAN, Update(k, ended) PROVE FALSE
    BY <2>2 DEF Update
  <2>3. CASE Admin
    BY <2>3 DEF Admin, Clear, Delete, Remove, SetLimit
  <2>4. CASE System
    BY <2>4 DEF System, RemoveFile, WriteFile, WriteIndex, SaveFails, Saving, Load, Tick
  <2> QED
    BY <2>1, <2>2, <2>3, <2>4 DEF Next, Calls
<1> QED
  BY <1>1, SavedInOneLife, FirstLifeAlways, PTL DEF OneLife, StartKeepsEntry

-----------------------------------------------------------------------------
(* Durable *)

\* What is listed, held or acknowledged has been given out.
GivenOut ==
    /\ Held(details) \subseteq used
    /\ Held(Items) \subseteq used
    /\ \A i \in Ids : acked[i] > 0 => i \in used

\* The revision a restart begins from.
Ground == IF index = NoIndex THEN 0 ELSE IF index.legacy THEN 1 ELSE index.rev

\* No acknowledged revision is above the one of the index, which a detail file
\* may be: its entry was written, and the index was not.
AckedBelow ==
    /\ \A i \in Ids : acked[i] <= Ground
    /\ Up => Ground <= revision
    /\ phase = "saving" /\ op \in Held(details) => details[op].rev = revision

Acknowledged ==
    /\ GivenOut /\ deleted \subseteq dropped
    /\ AckedBelow /\ Durable

LEMMA GroundInNat == ASSUME TypeOK PROVE Ground \in Nat
BY DEF TypeOK, Ground, Index

LEMMA InitAcknowledged == Init => Acknowledged
<1> SUFFICES ASSUME Init PROVE Acknowledged
  OBVIOUS
<1>0. /\ details = Empty /\ deleted = {} /\ revision = 0 /\ phase = "down"
      /\ acked = [i \in Ids |-> IF i \in used THEN 1 ELSE 0]
  BY DEF Init
<1>1. Held(Empty) = {} /\ \A i \in Ids : Empty[i] = NoEntry
  BY DEF Empty, Held
<1>2. CASE index = NoIndex /\ used = {}
  <2>1. Items = Empty /\ Ground = 0 /\ \A i \in Ids : acked[i] = 0
    BY <1>0, <1>2 DEF Items, Ground
  <2>2. Missing = {}
    BY <1>1, <1>2, <2>1 DEF Missing
  <2> QED
    BY <1>0, <1>1, <2>1, <2>2
    DEF Acknowledged, GivenOut, AckedBelow, AckedHeld, Durable, AckedOnDisk,
        OnlyDroppedMissing, Up
<1>3. ASSUME NEW old \in (SUBSET Ids) \ {{}}, NEW n \in Limits,
             index = [limit |-> n, rev |-> 0, legacy |-> TRUE,
                      items |-> [i \in Ids |-> IF i \in old
                                   THEN [rev |-> 1, created |-> 1, done |-> TRUE]
                                   ELSE NoEntry]],
             used = old
      PROVE  Acknowledged
  <2> DEFINE first == [rev |-> 1, created |-> 1, done |-> TRUE]
  <2>1. Saved
    BY InitSaved
  <2>2. first \in Entry /\ first # NoEntry
    <3>1. first \in Entry
      BY DEF Entry
    <3> QED
      BY <3>1, NoEntryAssumption
  <2>3. index \in Index
    <3>1. [i \in Ids |-> IF i \in old THEN first ELSE NoEntry] \in Table
      BY <2>2 DEF Table
    <3> QED
      BY <1>3, <3>1 DEF Index
  <2>4. index # NoIndex /\ index.legacy
    BY <1>3, <2>3, NoIndexAssumption
  <2>5. Items = [i \in Ids |-> IF i \in old THEN first ELSE NoEntry] /\ Ground = 1
    BY <1>3, <2>4 DEF Items, Ground
  <2>6. Held(Items) = old
    BY <2>2, <2>5 DEF Held
  <2>7. \A i \in Ids : acked[i] = IF i \in old THEN 1 ELSE 0
    BY <1>0, <1>3
  <2>8. \A i \in old : OnDisk(i) = first /\ first.rev = 1
    BY <2>4, <2>5 DEF OnDisk
  <2>9. Durable
    <3>1. Missing = {}
      BY <2>4 DEF Missing
    <3> QED
      BY <1>0, <2>2, <2>7, <2>8, <3>1 DEF Durable, AckedOnDisk, AckedHeld, Survives, OnlyDroppedMissing, Up
  <2>10. GivenOut
    BY <1>0, <1>1, <1>3, <2>6, <2>7 DEF GivenOut
  <2>11. AckedBelow
    BY <1>0, <1>1, <2>5, <2>7 DEF AckedBelow, Up
  <2> QED
    BY <1>0, <2>9, <2>10, <2>11 DEF Acknowledged, Durable, AckedHeld, Survives, Up
<1> QED
  BY <1>2, <1>3 DEF Init

\* What an operation on the copy leaves: t is the copy before the trim.
LEMMA OperationAcknowledged ==
    ASSUME Saved, Acknowledged, Begin,
           NEW t \in Table, NEW changed \in SUBSET Ids, NEW gone \in SUBSET Ids,
           Rebuild(t, changed, gone),
           used \subseteq used', Held(t) \subseteq used',
           revision' \in Nat, revision' >= revision,
           op' \in Held(t) => t[op'].rev = revision',
           Missing \subseteq gone,
           \A i \in Ids \ (dropped \cup gone) :
              acked[i] > 0 => t[i] # NoEntry /\ t[i].rev >= acked[i]
    PROVE  Acknowledged'
<1>1. /\ details' \in Table
      /\ Held(details') \subseteq Held(t)
      /\ \A i \in Held(details') : details'[i] = t[i]
      /\ deleted' = gone \cup (Held(t) \ Held(details'))
      /\ dropped' = dropped \cup gone \cup (Held(t) \ Held(details'))
  BY RebuildKeeps
<1>2. phase = "ready" /\ phase' = "saving" /\ UNCHANGED <<files, index, now, acked>>
  BY DEF Begin
<1>3. /\ Items' = Items /\ Ground' = Ground /\ Missing' = Missing
      /\ \A i \in Ids : OnDisk(i)' = OnDisk(i)
  BY <1>2 DEF Items, Ground, OnDisk, Missing, Held
<1>4. GivenOut'
  BY <1>1, <1>2, <1>3 DEF Acknowledged, GivenOut
<1>5. deleted' \subseteq dropped'
  BY <1>1
<1>6. AckedBelow'
  <2>1. Ground \in Nat /\ revision \in Nat
    BY GroundInNat DEF Saved, TypeOK
  <2>2. Ground <= revision'
    BY <1>2, <2>1 DEF Acknowledged, AckedBelow, Up
  <2>3. op' \in Held(details') => details'[op'].rev = revision'
    BY <1>1
  <2>4. \A i \in Ids : acked'[i] <= Ground'
    BY <1>2, <1>3 DEF Acknowledged, AckedBelow
  <2> QED
    BY <1>3, <2>2, <2>3, <2>4 DEF AckedBelow
<1>7. AckedHeld'
  <2> SUFFICES ASSUME NEW i \in Ids \ dropped', acked[i] > 0
               PROVE  details'[i] # NoEntry /\ details'[i].rev >= acked[i]
    BY <1>2 DEF AckedHeld, Survives
  <2>1. t[i] # NoEntry /\ t[i].rev >= acked[i]
    BY <1>1
  <2>2. i \in Held(details')
    BY <1>1, <2>1 DEF Held
  <2> QED
    BY <1>1, <2>1, <2>2 DEF Held
<1>8. Durable'
  <2>1. AckedOnDisk
    BY DEF Acknowledged, Durable
  <2>2. dropped \subseteq dropped' /\ Missing \subseteq dropped' /\ Missing \subseteq deleted'
    BY <1>1
  <2>3. AckedOnDisk'
    BY <1>2, <1>3, <2>1, <2>2 DEF AckedOnDisk, Survives
  <2> QED
    BY <1>2, <1>3, <1>7, <2>2, <2>3 DEF Durable, OnlyDroppedMissing
<1> QED
  BY <1>4, <1>5, <1>6, <1>7, <1>8 DEF Acknowledged

\* What is acknowledged and was not dropped is in the copy of a running process.
LEMMA AckedInCopy ==
    ASSUME Saved, Acknowledged, phase = "ready"
    PROVE  /\ \A i \in Ids \ dropped :
                acked[i] > 0 => details[i] # NoEntry /\ details[i].rev >= acked[i]
           /\ \A i \in Ids : acked[i] \in Nat /\ acked[i] <= revision
           /\ Held(details) \subseteq used
           /\ Missing \subseteq used \cap deleted
           /\ deleted \cap Held(details) = {}
<1>1. Ground \in Nat /\ revision \in Nat /\ \A i \in Ids : acked[i] \in Nat
  BY GroundInNat DEF Saved, TypeOK
<1>2. Ground <= revision /\ \A i \in Ids : acked[i] <= Ground
  BY DEF Acknowledged, AckedBelow, Up
<1>3. \A i \in Ids : acked[i] <= revision
  BY <1>1, <1>2
<1>4. Missing \subseteq Held(Items)
  BY DEF Missing
<1>5. Missing \subseteq used \cap deleted
  BY <1>4 DEF Acknowledged, GivenOut, Durable, OnlyDroppedMissing, Up
<1>6. deleted \cap Held(details) = {}
  BY DEF Saved
<1> QED
  BY <1>1, <1>3, <1>5, <1>6 DEF Acknowledged, Durable, AckedHeld, Survives, GivenOut, Up

LEMMA StartAcknowledged ==
    ASSUME Saved, Acknowledged, NEW i \in Ids, Start(i) PROVE Acknowledged'
<1> DEFINE e == [rev |-> NextRevision, created |-> now, done |-> FALSE]
           t == [details EXCEPT ![i] = e]
<1>0. TypeOK /\ Begin /\ phase = "ready"
  BY DEF Saved, Start, Begin
<1>1. NextRevision \in Nat /\ NextRevision > revision /\ revision \in Nat
  BY <1>0, NextRevisionAbove DEF TypeOK
<1>2. e \in Entry
  BY <1>0, <1>1, ClockAssumption DEF Entry, TypeOK
<1>3. t \in Table
  BY <1>0, <1>2 DEF TypeOK, Table
<1>4. t[i].rev = NextRevision /\ \A j \in Ids \ {i} : t[j] = details[j]
  BY <1>0 DEF TypeOK, Table
<1>5. Held(t) \subseteq Held(details) \cup {i}
  BY <1>4 DEF Held
<1>6. revision' = NextRevision /\ Rebuild(t, dirty \cup {i}, deleted \ {i})
      /\ used' = used \cup {i} /\ op' = i /\ i \notin used
  BY DEF Start
<1>7. dirty \cup {i} \in SUBSET Ids /\ deleted \ {i} \in SUBSET Ids
  BY <1>0 DEF TypeOK
<1>8. /\ \A j \in Ids \ dropped :
            acked[j] > 0 => details[j] # NoEntry /\ details[j].rev >= acked[j]
      /\ Held(details) \subseteq used
      /\ Missing \subseteq deleted \ {i}
  BY <1>0, <1>6, AckedInCopy
<1>9. ~(acked[i] > 0)
  BY <1>6 DEF Acknowledged, GivenOut
<1>10. op' \in Held(t) => t[op'].rev = revision'
  BY <1>4, <1>6
<1>11. \A j \in Ids \ dropped : acked[j] > 0 => t[j] # NoEntry /\ t[j].rev >= acked[j]
  BY <1>4, <1>8, <1>9
<1>12. Held(t) \subseteq used' /\ used \subseteq used'
  BY <1>5, <1>6, <1>8
<1>13. revision' \in Nat /\ revision' >= revision
  BY <1>1, <1>6
<1> HIDE DEF t, e
<1> QED
  BY <1>0, <1>3, <1>6, <1>7, <1>8, <1>10, <1>11, <1>12, <1>13, OperationAcknowledged

LEMMA UpdateAcknowledged ==
    ASSUME Saved, Acknowledged, NEW i \in Ids, NEW ended \in BOOLEAN, Update(i, ended)
    PROVE  Acknowledged'
<1> DEFINE t == [details EXCEPT ![i].rev = NextRevision, ![i].done = ended]
<1>0. TypeOK /\ Begin /\ phase = "ready" /\ details[i] # NoEntry
  BY DEF Saved, Update, Begin
<1>1. NextRevision \in Nat /\ NextRevision > revision /\ revision \in Nat
  BY <1>0, NextRevisionAbove DEF TypeOK
<1>2. details[i] \in Entry
  BY <1>0 DEF TypeOK, Table
<1>3. t \in Table /\ t[i] \in Entry
  BY <1>0, <1>1, <1>2 DEF TypeOK, Table, Entry
<1>4. t[i].rev = NextRevision /\ \A j \in Ids \ {i} : t[j] = details[j]
  BY <1>0, <1>2 DEF TypeOK, Table, Entry
<1>5. Held(t) \subseteq Held(details)
  BY <1>0, <1>4 DEF Held
<1>6. revision' = NextRevision /\ Rebuild(t, dirty \cup {i}, deleted \ {i})
      /\ used' = used /\ op' = i
  BY DEF Update
<1>7. dirty \cup {i} \in SUBSET Ids /\ deleted \ {i} \in SUBSET Ids
  BY <1>0 DEF TypeOK
<1>8. /\ \A j \in Ids \ dropped :
            acked[j] > 0 => details[j] # NoEntry /\ details[j].rev >= acked[j]
      /\ \A j \in Ids : acked[j] \in Nat /\ acked[j] <= revision
      /\ Held(details) \subseteq used
      /\ Missing \subseteq deleted \ {i}
  <2>1. i \in Held(details)
    BY <1>0 DEF Held
  <2> QED
    BY <1>0, <2>1, AckedInCopy
<1>9. t[i] # NoEntry
  BY <1>3, NoEntryAssumption
<1>10. op' \in Held(t) => t[op'].rev = revision'
  BY <1>4, <1>6
<1>11. acked[i] \in Nat /\ acked[i] <= revision
  BY <1>8
<1> HIDE DEF t
<1>12. t[i].rev >= acked[i]
  BY <1>1, <1>4, <1>11
<1>13. \A j \in Ids \ dropped : acked[j] > 0 => t[j] # NoEntry /\ t[j].rev >= acked[j]
  BY <1>4, <1>8, <1>9, <1>12
<1>14. Held(t) \subseteq used' /\ used \subseteq used'
  BY <1>5, <1>6, <1>8
<1>15. revision' \in Nat /\ revision' >= revision
  BY <1>1, <1>6
<1> QED
  BY <1>0, <1>3, <1>6, <1>7, <1>8, <1>10, <1>13, <1>14, <1>15, OperationAcknowledged

LEMMA RemoveAcknowledged ==
    ASSUME Saved, Acknowledged, NEW gone \in SUBSET Ids, Remove(gone)
    PROVE  Acknowledged'
<1> DEFINE t == [i \in Ids |-> IF i \in gone THEN NoEntry ELSE details[i]]
<1>0. TypeOK /\ Begin /\ phase = "ready"
  BY DEF Saved, Remove, Begin
<1>1. NextRevision \in Nat /\ NextRevision > revision /\ revision \in Nat
  BY <1>0, NextRevisionAbove DEF TypeOK
<1>2. t \in Table
  BY <1>0 DEF TypeOK, Table
<1>3. Held(t) \subseteq Held(details) /\ \A j \in Ids \ gone : t[j] = details[j]
  BY DEF Held
<1>4. revision' = NextRevision /\ used' = used
      /\ Rebuild(t, dirty \ gone, deleted \cup gone) /\ op' = NoEntry
  BY DEF Remove
<1>5. dirty \ gone \in SUBSET Ids /\ deleted \cup gone \in SUBSET Ids
  BY <1>0 DEF TypeOK
<1>6. /\ \A j \in Ids \ dropped :
            acked[j] > 0 => details[j] # NoEntry /\ details[j].rev >= acked[j]
      /\ Held(details) \subseteq used
      /\ Missing \subseteq deleted \cup gone
  BY <1>0, AckedInCopy
<1>7. \A j \in Ids \ (dropped \cup (deleted \cup gone)) :
         acked[j] > 0 => t[j] # NoEntry /\ t[j].rev >= acked[j]
  BY <1>3, <1>6
<1>8. op' \in Held(t) => t[op'].rev = revision'
  BY <1>4, IdsAssumption DEF Held
<1>9. Held(t) \subseteq used' /\ used \subseteq used'
  BY <1>3, <1>4, <1>6
<1>10. revision' \in Nat /\ revision' >= revision
  BY <1>1, <1>4
<1> HIDE DEF t
<1> QED
  BY <1>0, <1>2, <1>4, <1>5, <1>6, <1>7, <1>8, <1>9, <1>10, OperationAcknowledged

LEMMA AdminAcknowledged == ASSUME Saved, Acknowledged, Admin PROVE Acknowledged'
<1>1. CASE Clear
  <2>1. Held(details) \in SUBSET Ids
    BY DEF Held
  <2> QED
    BY <1>1, <2>1, RemoveAcknowledged DEF Clear
<1>2. ASSUME NEW i \in Ids, Delete(i) PROVE Acknowledged'
  <2>1. Remove({i}) /\ {i} \in SUBSET Ids
    BY <1>2 DEF Delete
  <2> QED
    BY <2>1, RemoveAcknowledged
<1>3. ASSUME NEW n \in Limits, SetLimit(n) PROVE Acknowledged'
  <2>0. TypeOK /\ Begin /\ phase = "ready"
    BY <1>3 DEF Saved, SetLimit, Begin
  <2>1. NextRevision \in Nat /\ NextRevision > revision /\ revision \in Nat
    BY <2>0, NextRevisionAbove DEF TypeOK
  <2>2. Rebuild(details, dirty, deleted) /\ revision' = NextRevision /\ used' = used
        /\ op' = NoEntry
    BY <1>3 DEF SetLimit
  <2>3. details \in Table /\ dirty \in SUBSET Ids /\ deleted \in SUBSET Ids
    BY <2>0 DEF TypeOK
  <2>4. /\ \A j \in Ids \ dropped :
              acked[j] > 0 => details[j] # NoEntry /\ details[j].rev >= acked[j]
        /\ Held(details) \subseteq used
        /\ Missing \subseteq deleted
    BY <2>0, AckedInCopy
  <2>5. op' \notin Held(details)
    BY <2>2, IdsAssumption DEF Held
  <2>6. revision' \in Nat /\ revision' >= revision
    BY <2>1, <2>2
  <2> QED
    BY <2>0, <2>2, <2>3, <2>4, <2>5, <2>6, OperationAcknowledged
<1> QED
  BY <1>1, <1>2, <1>3 DEF Admin

\* A file is changed under an index that lists the same entries.
LEMMA FileAcknowledged ==
    ASSUME Saved, Acknowledged, NEW i \in Ids, RemoveFile(i) \/ WriteFile(i)
    PROVE  Acknowledged'
<1>1. /\ phase = "saving"
      /\ UNCHANGED <<details, deleted, limit, revision, phase, op, index, used, dropped, acked>>
      /\ files \in Table /\ files' \in Table
      /\ \A j \in Ids \ {i} : files'[j] = files[j]
  BY DEF RemoveFile, WriteFile, Saving, Saved, TypeOK, Table
<1>2. Items' = Items /\ Ground' = Ground
  BY <1>1 DEF Items, Ground
<1>3. GivenOut' /\ deleted' \subseteq dropped' /\ AckedBelow' /\ AckedHeld'
  BY <1>1, <1>2 DEF Acknowledged, Durable, GivenOut, AckedBelow, AckedHeld, Survives, Up
<1>4. AckedOnDisk'
  <2> SUFFICES ASSUME NEW j \in Ids \ dropped, acked[j] > 0
               PROVE  OnDisk(j)' # NoEntry /\ OnDisk(j)'.rev >= acked[j]
    BY <1>1 DEF AckedOnDisk, Survives
  <2>1. OnDisk(j) # NoEntry /\ OnDisk(j).rev >= acked[j]
    BY DEF Acknowledged, Durable, AckedOnDisk, Survives
  <2>2. CASE j # i \/ (index # NoIndex /\ index.legacy)
    <3>1. OnDisk(j)' = OnDisk(j)
      BY <1>1, <1>2, <2>2 DEF OnDisk
    <3> QED
      BY <2>1, <3>1
  <2>3. CASE j = i /\ ~(index # NoIndex /\ index.legacy)
    <3>1. i \notin deleted
      BY <2>3 DEF Acknowledged
    <3>2. WriteFile(i)
      BY <3>1 DEF RemoveFile
    <3>3. files'[i] = details[i]
      BY <1>1, <3>2 DEF WriteFile, Saved, TypeOK, Table
    <3>4. details[i] # NoEntry /\ details[i].rev >= acked[i]
      BY <1>1, <2>3 DEF Acknowledged, Durable, AckedHeld, Survives, Up
    <3>5. OnDisk(j)' = files'[i]
      BY <1>1, <1>2, <2>1, <2>3 DEF OnDisk
    <3> QED
      BY <2>3, <3>3, <3>4, <3>5
  <2> QED
    BY <2>2, <2>3
<1>5. OnlyDroppedMissing'
  <2>1. Missing \subseteq deleted /\ deleted \subseteq dropped
    BY <1>1 DEF Acknowledged, Durable, OnlyDroppedMissing, Up
  <2>2. CASE RemoveFile(i)
    <3>1. i \in deleted
      BY <2>2 DEF RemoveFile
    <3>2. Missing' \subseteq Missing \cup {i}
      BY <1>1, <1>2 DEF Missing, Held
    <3> QED
      BY <1>1, <2>1, <3>1, <3>2 DEF OnlyDroppedMissing
  <2>3. CASE WriteFile(i)
    <3>1. files'[i] = details[i] /\ details[i] # NoEntry
      BY <2>3 DEF WriteFile, Saved, TypeOK, Table, Held
    <3>2. Missing' \subseteq Missing
      BY <1>1, <1>2, <3>1 DEF Missing, Held
    <3> QED
      BY <1>1, <2>1, <3>2 DEF OnlyDroppedMissing
  <2> QED
    BY <2>2, <2>3
<1> QED
  BY <1>3, <1>4, <1>5 DEF Acknowledged, Durable

LEMMA WriteIndexAcknowledged ==
    ASSUME Saved, Acknowledged, WriteIndex PROVE Acknowledged'
<1>1. /\ phase = "saving" /\ phase' = "ready"
      /\ index' = [limit |-> limit, rev |-> revision, items |-> details, legacy |-> FALSE]
      /\ deleted' = {} /\ op' = NoEntry
      /\ acked' = IF op \in Held(details) THEN [acked EXCEPT ![op] = details[op].rev] ELSE acked
      /\ UNCHANGED <<details, limit, revision, used, dropped, files>>
  BY DEF WriteIndex, Saving
<1>2. index' \in Index /\ index' # NoIndex
  <2>1. limit \in Limits /\ revision \in Nat /\ details \in Table
    BY DEF Saved, TypeOK
  <2>2. [limit |-> limit, rev |-> revision, items |-> details, legacy |-> FALSE] \in Index
    BY <2>1 DEF Index
  <2>3. index' \in Index
    BY <1>1, <2>2
  <2> QED
    BY <2>3, NoIndexAssumption
<1>3. Items' = details /\ Ground' = revision /\ ~index'.legacy
  BY <1>1, <1>2 DEF Items, Ground
<1>4. /\ revision \in Nat /\ Ground \in Nat /\ acked \in [Ids -> Nat]
      /\ Held(details) \subseteq Ids
  BY GroundInNat DEF Saved, TypeOK, Held
<1>5. op \in Held(details) => details[op].rev = revision
  BY <1>1 DEF Acknowledged, AckedBelow
<1>6. \A i \in Ids : acked[i] <= revision
  <2>1. \A i \in Ids : acked[i] <= Ground /\ acked[i] \in Nat
    BY <1>4 DEF Acknowledged, AckedBelow
  <2>2. Ground <= revision
    BY <1>1 DEF Acknowledged, AckedBelow, Up
  <2> QED
    BY <1>4, <2>1, <2>2
<1>7. /\ \A i \in Ids : i # op => acked'[i] = acked[i]
      /\ op \in Held(details) => acked'[op] = revision
      /\ op \notin Held(details) => acked' = acked
  BY <1>1, <1>4, <1>5
<1>8. \A i \in Ids : acked'[i] <= revision
  BY <1>4, <1>6, <1>7
<1>9. \A i \in Ids \ dropped :
         acked'[i] > 0 => details[i] # NoEntry /\ details[i].rev >= acked'[i]
  <2> SUFFICES ASSUME NEW i \in Ids \ dropped, acked'[i] > 0
               PROVE  details[i] # NoEntry /\ details[i].rev >= acked'[i]
    OBVIOUS
  <2>1. CASE i = op /\ op \in Held(details)
    BY <1>4, <1>5, <1>7, <2>1 DEF Held
  <2>2. CASE ~(i = op /\ op \in Held(details))
    BY <1>1, <1>7, <2>2 DEF Acknowledged, Durable, AckedHeld, Survives, Up
  <2> QED
    BY <2>1, <2>2
<1>10. GivenOut'
  <2>1. Held(details) \subseteq used
    BY DEF Acknowledged, GivenOut
  <2>2. \A i \in Ids : acked'[i] > 0 => i \in used
    BY <1>7, <2>1 DEF Acknowledged, GivenOut
  <2> QED
    BY <1>1, <1>3, <2>1, <2>2 DEF GivenOut
<1>11. AckedBelow'
  BY <1>1, <1>3, <1>4, <1>8 DEF AckedBelow
<1>12. AckedHeld'
  BY <1>1, <1>9 DEF AckedHeld, Survives
<1>13. \A i \in Held(details) : files[i] = details[i]
  BY <1>1 DEF WriteIndex, Written, Saved, CleanOnDisk, Up
<1>14. AckedOnDisk'
  <2> SUFFICES ASSUME NEW i \in Ids \ dropped, acked'[i] > 0
               PROVE  OnDisk(i)' # NoEntry /\ OnDisk(i)'.rev >= acked'[i]
    BY <1>1 DEF AckedOnDisk, Survives
  <2>1. i \in Held(details) /\ details[i].rev >= acked'[i]
    BY <1>9 DEF Held
  <2>2. files[i] = details[i]
    BY <1>13, <2>1
  <2>3. OnDisk(i)' = files'[i]
    BY <1>3, <2>1 DEF OnDisk, Held
  <2> QED
    BY <1>1, <2>1, <2>2, <2>3 DEF Held
<1>15. OnlyDroppedMissing'
  <2>1. Held(details) \subseteq Held(files)
    BY <1>13 DEF Held
  <2>2. Missing' = {}
    BY <1>1, <1>3, <2>1 DEF Missing, Held
  <2> QED
    BY <1>1, <2>2 DEF OnlyDroppedMissing
<1> QED
  BY <1>1, <1>10, <1>11, <1>12, <1>14, <1>15 DEF Acknowledged, Durable

\* A restart reads what is on disk, and drops only what it trims.
LEMMA LoadAcknowledged == ASSUME Saved, Acknowledged, Load PROVE Acknowledged'
<1>0. TypeOK /\ LegacyIndex
  BY DEF Saved
<1>1. op' = NoEntry /\ UNCHANGED <<files, index, now, used, acked>>
  BY DEF Load
<1>2. Items \in Table /\ Held(Items) \subseteq used
  BY <1>0 DEF TypeOK, Index, Items, Empty, Table, Acknowledged, GivenOut
<1>3. /\ Items' = Items /\ Ground' = Ground /\ Missing' = Missing
      /\ \A i \in Ids : OnDisk(i)' = OnDisk(i)
  BY <1>1 DEF Items, Ground, OnDisk, Missing, Held
<1>4. revision' = Ground
  BY <1>0, LegacyRevisionOne DEF Load, Ground
<1>5. PICK t \in Table, changed \in SUBSET Ids :
        /\ Rebuild(t, changed, {})
        /\ Held(t) \subseteq Held(Items)
        /\ \A i \in Ids : t[i] = OnDisk(i)
  <2>1. CASE index # NoIndex /\ index.legacy
    <3>1. Rebuild(Items, Held(Items), {})
      BY <2>1 DEF Load
    <3>2. Held(Items) \in SUBSET Ids
      BY DEF Held
    <3>3. \A i \in Ids : Items[i] = OnDisk(i)
      BY <2>1 DEF OnDisk
    <3> QED
      BY <1>2, <3>1, <3>2, <3>3
  <2>2. CASE ~(index # NoIndex /\ index.legacy)
    <3> DEFINE t == [i \in Ids |-> IF Items[i] = NoEntry THEN NoEntry ELSE files[i]]
    <3>1. Rebuild(t, {}, {})
      BY <2>2 DEF Load
    <3>2. t \in Table /\ Held(t) \subseteq Held(Items)
      BY <1>0 DEF TypeOK, Table, Held
    <3>3. \A i \in Ids : t[i] = OnDisk(i)
      BY <2>2 DEF OnDisk
    <3> HIDE DEF t
    <3>4. {} \in SUBSET Ids
      OBVIOUS
    <3> QED
      BY <3>1, <3>2, <3>3, <3>4
  <2> QED
    BY <2>1, <2>2
<1>6. /\ details' \in Table
      /\ Held(details') \subseteq Held(t)
      /\ \A i \in Held(details') : details'[i] = t[i]
      /\ deleted' = {} \cup (Held(t) \ Held(details'))
      /\ dropped' = dropped \cup {} \cup (Held(t) \ Held(details'))
  <2>1. {} \in SUBSET Ids
    OBVIOUS
  <2> QED
    BY <1>5, <2>1, RebuildKeeps
<1>7. GivenOut'
  BY <1>1, <1>2, <1>3, <1>5, <1>6 DEF Acknowledged, GivenOut
<1>8. AckedBelow'
  <2>1. op' \notin Held(details')
    BY <1>1, IdsAssumption DEF Held
  <2>2. Ground' <= revision'
    BY <1>0, <1>3, <1>4, GroundInNat
  <2> QED
    BY <1>1, <1>3, <2>1, <2>2 DEF Acknowledged, AckedBelow
<1>9. AckedHeld'
  <2> SUFFICES ASSUME NEW i \in Ids \ dropped', acked[i] > 0
               PROVE  details'[i] # NoEntry /\ details'[i].rev >= acked[i]
    BY <1>1 DEF AckedHeld, Survives
  <2>1. OnDisk(i) # NoEntry /\ OnDisk(i).rev >= acked[i]
    BY <1>6 DEF Acknowledged, Durable, AckedOnDisk, Survives
  <2>2. i \in Held(t)
    BY <1>5, <2>1 DEF Held
  <2>3. i \in Held(details')
    BY <1>6, <2>2
  <2> QED
    BY <1>5, <1>6, <2>1, <2>3 DEF Held
<1>10. Durable'
  <2>1. AckedOnDisk'
    BY <1>1, <1>3, <1>6 DEF Acknowledged, Durable, AckedOnDisk, Survives
  <2>2. Missing' \subseteq dropped'
    BY <1>3, <1>6 DEF Acknowledged, Durable, OnlyDroppedMissing
  <2>3. Up' => Missing = {}
    BY DEF Load, Up, Missing
  <2>4. phase' = "failed" => Missing # {}
    BY DEF Load, Missing
  <2> QED
    BY <1>3, <1>9, <2>1, <2>2, <2>3, <2>4 DEF Durable, OnlyDroppedMissing
<1> QED
  BY <1>6, <1>7, <1>8, <1>9, <1>10 DEF Acknowledged

LEMMA NextAcknowledged == Saved /\ Acknowledged /\ [Next \/ Crash]_vars => Acknowledged'
<1> SUFFICES ASSUME Saved, Acknowledged, [Next \/ Crash]_vars PROVE Acknowledged'
  OBVIOUS
<1>1. CASE Calls
  BY <1>1, StartAcknowledged, UpdateAcknowledged DEF Calls
<1>2. CASE Admin
  BY <1>2, AdminAcknowledged
<1>3. ASSUME NEW i \in Ids, RemoveFile(i) \/ WriteFile(i) PROVE Acknowledged'
  BY <1>3, FileAcknowledged
<1>4. CASE WriteIndex
  BY <1>4, WriteIndexAcknowledged
<1>5. CASE SaveFails
  BY <1>5 DEF SaveFails, Saving, Acknowledged, GivenOut, AckedBelow, AckedHeld, Durable, AckedOnDisk,
              OnlyDroppedMissing, Missing, Survives, Up, Items, Ground, OnDisk, Held
<1>6. CASE Load
  BY <1>6, LoadAcknowledged
<1>7. CASE Crash
  <2>1. Held(Empty) = {}
    BY DEF Empty, Held
  <2> QED
    BY <1>7, <2>1 DEF Crash, Acknowledged, GivenOut, AckedBelow, AckedHeld, Durable,
                      AckedOnDisk, OnlyDroppedMissing, Missing, Survives, Up, Items, Ground,
                      OnDisk, Held
<1>8. ASSUME NEW t \in Times, Tick(t) PROVE Acknowledged'
  BY <1>8 DEF Tick, Acknowledged, GivenOut, AckedBelow, AckedHeld, Durable, AckedOnDisk,
              OnlyDroppedMissing, Missing, Survives, Up, Items, Ground, OnDisk, Held
<1>9. CASE UNCHANGED vars
  BY <1>9 DEF vars, Acknowledged, GivenOut, AckedBelow, AckedHeld, Durable, AckedOnDisk,
              OnlyDroppedMissing, Missing, Survives, Up, Items, Ground, OnDisk, Held
<1> QED
  BY <1>1, <1>2, <1>3, <1>4, <1>5, <1>6, <1>7, <1>8, <1>9 DEF Next, System

\* The copy and the disk hold what was acknowledged in every reachable state.
THEOREM AcknowledgedAlways == Spec => []Acknowledged
BY InitAcknowledged, NextAcknowledged, SavedAlways, PTL DEF Spec

\* A change that was acknowledged survives any number of stops and failed saves,
\* unless its entry is trimmed or deleted.
THEOREM AcknowledgedSurvives == Spec => []Durable
<1>1. Acknowledged => Durable
  BY DEF Acknowledged
<1> QED
  BY <1>1, AcknowledgedAlways, PTL

-----------------------------------------------------------------------------
(* The invariant of the recorders *)

\* The recorders that hold an entry, or look for the one they held.
Recording == {"open", "missing", "recreated", "closed"}

\* A recorder holds an entry that was given to it and to no other.
Holding ==
    \A s \in Sessions : spc[s] \in Recording =>
        entry[s] \in Ids /\ entry[s] \in used /\ owner[entry[s]] = s

\* What is listed stands for one entry of each request.
ListedOnce ==
    \A i, j \in Held(Items) : owner[i] = owner[j] /\ owner[i] # NoSession => i = j

\* A recorder starts an entry only when the history shows none of its request,
\* and the one it updates is the only one.
SoleEntry ==
    \A i \in Held(details) : owner[i] \in Sessions =>
        /\ spc[owner[i]] # "missing"
        /\ spc[owner[i]] \in {"open", "recreated"} => entry[owner[i]] = i

\* A recorder that has not begun owns nothing.
NothingYet == \A i \in Ids : owner[i] \in Sessions => spc[owner[i]] # "new"

\* No request outlives the process.
NobodyRecords == phase = "down" => \A s \in Sessions : spc[s] \in {"new", "nil"}

\* The inductive invariant.
Recorded ==
    /\ SessionTypeOK
    /\ Holding /\ ListedOnce /\ SoleEntry /\ NothingYet /\ NobodyRecords
    /\ OneEntryPerSession /\ UnfinishedHasSession /\ OutcomeRecorded

Sound == Saved /\ Acknowledged /\ Recorded

-----------------------------------------------------------------------------
(* What the operations of the store do to the entries *)

LEMMA Started ==
    ASSUME Saved, Acknowledged, NEW i \in Ids, Start(i)
    PROVE  /\ phase = "ready" /\ phase' = "saving" /\ UNCHANGED index
           /\ i \notin used /\ used' = used \cup {i}
           /\ Held(details') \subseteq Held(details) \cup {i}
           /\ \A j \in Held(details') \ {i} : details'[j] = details[j]
           /\ dropped \subseteq dropped'
           /\ Held(details) \ Held(details') \subseteq dropped'
<1> DEFINE e == [rev |-> NextRevision, created |-> now, done |-> FALSE]
           t == [details EXCEPT ![i] = e]
<1>0. TypeOK
  BY DEF Saved
<1>1. e \in Entry
  BY <1>0, NextRevisionAbove, ClockAssumption DEF Entry, TypeOK
<1>2. t \in Table
  BY <1>0, <1>1 DEF TypeOK, Table
<1>3. t[i] = e /\ \A j \in Ids \ {i} : t[j] = details[j]
  BY <1>0 DEF TypeOK, Table
<1>4. Held(t) = Held(details) \cup {i}
  BY <1>1, <1>3, NoEntryAssumption DEF Held
<1>5. Rebuild(t, dirty \cup {i}, deleted \ {i})
  BY DEF Start
<1>6. dirty \cup {i} \in SUBSET Ids /\ deleted \ {i} \in SUBSET Ids
  BY <1>0 DEF TypeOK
<1> HIDE DEF t, e
<1>7. /\ Held(details') \subseteq Held(t)
      /\ \A j \in Held(details') : details'[j] = t[j]
      /\ dropped' = dropped \cup (deleted \ {i}) \cup (Held(t) \ Held(details'))
  BY <1>2, <1>5, <1>6, RebuildKeeps
<1>8. \A j \in Held(details') \ {i} : details'[j] = details[j]
  BY <1>3, <1>7 DEF Held
<1> QED
  BY <1>4, <1>7, <1>8 DEF Start, Begin

LEMMA Updated ==
    ASSUME Saved, Acknowledged, NEW i \in Ids, NEW last \in BOOLEAN, Update(i, last)
    PROVE  /\ phase = "ready" /\ phase' = "saving" /\ UNCHANGED <<index, used>>
           /\ i \in Held(details)
           /\ Held(details') \subseteq Held(details)
           /\ \A j \in Held(details') \ {i} : details'[j] = details[j]
           /\ i \in Held(details') => details'[i].done = last
           /\ dropped \subseteq dropped'
           /\ Held(details) \ Held(details') \subseteq dropped'
<1> DEFINE t == [details EXCEPT ![i].rev = NextRevision, ![i].done = last]
<1>0. TypeOK /\ details[i] # NoEntry
  BY DEF Saved, Update
<1>1. details[i] \in Entry /\ NextRevision \in Nat
  BY <1>0, NextRevisionAbove DEF TypeOK, Table
<1>2. t \in Table /\ t[i] \in Entry
  BY <1>0, <1>1 DEF TypeOK, Table, Entry
<1>3. t[i].done = last /\ \A j \in Ids \ {i} : t[j] = details[j]
  BY <1>0, <1>1 DEF TypeOK, Table, Entry
<1>4. Held(t) = Held(details)
  BY <1>0, <1>2, <1>3, NoEntryAssumption DEF Held
<1>5. Rebuild(t, dirty \cup {i}, deleted \ {i})
  BY DEF Update
<1>6. dirty \cup {i} \in SUBSET Ids /\ deleted \ {i} \in SUBSET Ids
  BY <1>0 DEF TypeOK
<1> HIDE DEF t
<1>7. /\ Held(details') \subseteq Held(t)
      /\ \A j \in Held(details') : details'[j] = t[j]
      /\ dropped' = dropped \cup (deleted \ {i}) \cup (Held(t) \ Held(details'))
  BY <1>2, <1>5, <1>6, RebuildKeeps
<1>8. \A j \in Held(details') \ {i} : details'[j] = details[j]
  BY <1>3, <1>7 DEF Held
<1> QED
  BY <1>0, <1>3, <1>4, <1>7, <1>8 DEF Update, Begin, Held

\* The administrator takes entries away, and changes none.
LEMMA Administered ==
    ASSUME Saved, Admin
    PROVE  /\ phase = "ready" /\ phase' = "saving" /\ UNCHANGED <<index, used>>
           /\ Held(details') \subseteq Held(details)
           /\ \A j \in Held(details') : details'[j] = details[j]
           /\ dropped \subseteq dropped'
           /\ Held(details) \ Held(details') \subseteq dropped'
<1>0. details \in Table /\ dirty \in SUBSET Ids /\ deleted \in SUBSET Ids
  BY DEF Saved, TypeOK
<1>1. ASSUME NEW gone \in SUBSET Ids, Remove(gone)
      PROVE  /\ phase = "ready" /\ phase' = "saving" /\ UNCHANGED <<index, used>>
             /\ Held(details') \subseteq Held(details)
             /\ \A j \in Held(details') : details'[j] = details[j]
             /\ dropped \subseteq dropped'
             /\ Held(details) \ Held(details') \subseteq dropped'
  <2> DEFINE t == [i \in Ids |-> IF i \in gone THEN NoEntry ELSE details[i]]
  <2>1. t \in Table
    BY <1>0 DEF Table
  <2>2. Held(t) = Held(details) \ gone /\ \A j \in Held(t) : t[j] = details[j]
    BY DEF Held
  <2>3. Rebuild(t, dirty \ gone, deleted \cup gone)
    BY <1>1 DEF Remove
  <2>4. dirty \ gone \in SUBSET Ids /\ deleted \cup gone \in SUBSET Ids
    BY <1>0
  <2> HIDE DEF t
  <2>5. /\ Held(details') \subseteq Held(t)
        /\ \A j \in Held(details') : details'[j] = t[j]
        /\ dropped' = dropped \cup (deleted \cup gone) \cup (Held(t) \ Held(details'))
    BY <2>1, <2>3, <2>4, RebuildKeeps
  <2>6. phase = "ready" /\ phase' = "saving" /\ UNCHANGED <<index, used>>
    BY <1>1 DEF Remove, Begin
  <2> QED
    BY <2>2, <2>5, <2>6
<1>2. CASE Clear
  <2>1. Held(details) \in SUBSET Ids
    BY DEF Held
  <2> QED
    BY <1>1, <1>2, <2>1 DEF Clear
<1>3. ASSUME NEW i \in Ids, Delete(i) PROVE Remove({i}) /\ {i} \in SUBSET Ids
  BY <1>3 DEF Delete
<1>4. CASE \E i \in Ids : Delete(i)
  BY <1>1, <1>3, <1>4
<1>5. ASSUME NEW n \in Limits, SetLimit(n)
      PROVE  /\ phase = "ready" /\ phase' = "saving" /\ UNCHANGED <<index, used>>
             /\ Held(details') \subseteq Held(details)
             /\ \A j \in Held(details') : details'[j] = details[j]
             /\ dropped \subseteq dropped'
             /\ Held(details) \ Held(details') \subseteq dropped'
  <2>1. Rebuild(details, dirty, deleted)
    BY <1>5 DEF SetLimit
  <2>2. /\ Held(details') \subseteq Held(details)
        /\ \A j \in Held(details') : details'[j] = details[j]
        /\ dropped' = dropped \cup deleted \cup (Held(details) \ Held(details'))
    BY <1>0, <2>1, RebuildKeeps
  <2> QED
    BY <1>5, <2>2 DEF SetLimit, Begin
<1> QED
  BY <1>2, <1>4, <1>5 DEF Admin

\* A restart shows no entry that was not listed.
LEMMA Loaded ==
    ASSUME Saved, Load
    PROVE  /\ phase = "down" /\ phase' # "down" /\ UNCHANGED <<index, used>>
           /\ Held(details') \subseteq Held(Items)
           /\ dropped \subseteq dropped'
<1>0. TypeOK
  BY DEF Saved
<1>1. Items \in Table
  BY <1>0 DEF TypeOK, Index, Items, Empty, Table
<1>2. {} \in SUBSET Ids
  OBVIOUS
<1>3. CASE index # NoIndex /\ index.legacy
  <2>1. Rebuild(Items, Held(Items), {}) /\ Held(Items) \in SUBSET Ids
    BY <1>3 DEF Load, Held
  <2>2. /\ Held(details') \subseteq Held(Items)
        /\ dropped' = dropped \cup {} \cup (Held(Items) \ Held(details'))
    BY <1>1, <1>2, <2>1, RebuildKeeps
  <2> QED
    BY <1>3, <2>2 DEF Load
<1>4. CASE ~(index # NoIndex /\ index.legacy)
  <2> DEFINE t == [i \in Ids |-> IF Items[i] = NoEntry THEN NoEntry ELSE files[i]]
  <2>1. Rebuild(t, {}, {})
    BY <1>4 DEF Load
  <2>2. t \in Table /\ Held(t) \subseteq Held(Items)
    BY <1>0 DEF TypeOK, Table, Held
  <2> HIDE DEF t
  <2>3. /\ Held(details') \subseteq Held(t)
        /\ dropped' = dropped \cup {} \cup (Held(t) \ Held(details'))
    BY <1>2, <2>1, <2>2, RebuildKeeps
  <2>4. phase = "down" /\ phase' # "down" /\ UNCHANGED <<index, used>>
    BY <1>4 DEF Load
  <2> QED
    BY <2>2, <2>3, <2>4
<1> QED
  BY <1>3, <1>4

-----------------------------------------------------------------------------
(* The recorders *)

LEMMA SessionInitSound == SessionInit => Sound
<1> SUFFICES ASSUME SessionInit PROVE Sound
  OBVIOUS
<1>1. Saved /\ Acknowledged
  BY InitSaved, InitAcknowledged DEF SessionInit
<1>2. /\ spc = [s \in Sessions |-> "new"] /\ owner = [i \in Ids |-> NoSession]
      /\ entry = [s \in Sessions |-> NoEntry] /\ final = [s \in Sessions |-> FALSE]
  BY DEF SessionInit
<1>3. \A i \in Ids : owner[i] = NoSession /\ owner[i] \notin Sessions
  BY <1>2, SessionsAssumption
<1>4. \A s \in Sessions : spc[s] = "new"
  BY <1>2
<1>5. SessionTypeOK
  BY <1>2 DEF SessionTypeOK, SPCs
<1>6. Holding /\ NobodyRecords /\ OutcomeRecorded
  BY <1>4 DEF Holding, Recording, NobodyRecords, OutcomeRecorded
<1>7. ListedOnce /\ SoleEntry /\ NothingYet /\ OneEntryPerSession /\ UnfinishedHasSession
  BY <1>3 DEF ListedOnce, SoleEntry, NothingYet, OneEntryPerSession, UnfinishedHasSession, Held
<1> QED
  BY <1>1, <1>5, <1>6, <1>7 DEF Sound, Recorded

\* The store takes entries away while the recorders stand still.
LEMMA FewerRecorded ==
    ASSUME Recorded, UNCHANGED sessionVars,
           phase' # "down", Up, UNCHANGED <<index, used>>,
           Held(details') \subseteq Held(details),
           \A j \in Held(details') : details'[j] = details[j],
           dropped \subseteq dropped',
           Held(details) \ Held(details') \subseteq dropped'
    PROVE  Recorded'
<1>1. Items' = Items
  BY DEF Items
<1>2. UNCHANGED <<spc, entry, final, owner>>
  BY DEF sessionVars
<1>3. SessionTypeOK' /\ Holding' /\ NothingYet' /\ NobodyRecords'
  BY <1>2 DEF Recorded, SessionTypeOK, Holding, NothingYet, NobodyRecords
<1>4. ListedOnce' /\ SoleEntry' /\ OneEntryPerSession'
  BY <1>1, <1>2 DEF Recorded, ListedOnce, SoleEntry, OneEntryPerSession
<1>5. UnfinishedHasSession'
  BY <1>2 DEF Recorded, UnfinishedHasSession
<1>6. OutcomeRecorded'
  BY <1>2 DEF Recorded, OutcomeRecorded
<1> QED
  BY <1>3, <1>4, <1>5, <1>6 DEF Recorded

LEMMA StoreMovesRecorded == ASSUME Sound, StoreMoves PROVE Recorded'
<1>0. Saved /\ Acknowledged /\ Recorded /\ UNCHANGED sessionVars
  BY DEF Sound, StoreMoves
<1>1. UNCHANGED <<spc, entry, final, owner>>
  BY <1>0 DEF sessionVars
<1>2. CASE Admin
  <2>1. /\ phase = "ready" /\ phase' = "saving" /\ UNCHANGED <<index, used>>
        /\ Held(details') \subseteq Held(details)
        /\ \A j \in Held(details') : details'[j] = details[j]
        /\ dropped \subseteq dropped'
        /\ Held(details) \ Held(details') \subseteq dropped'
    BY <1>0, <1>2, Administered
  <2> QED
    BY <1>0, <2>1, FewerRecorded DEF Up
<1>3. CASE (\E i \in Ids : RemoveFile(i) \/ WriteFile(i)) \/ SaveFails
  <2>1. /\ phase = "saving" /\ phase' # "down"
        /\ UNCHANGED <<details, index, used, dropped>>
    BY <1>3 DEF RemoveFile, WriteFile, SaveFails, Saving
  <2> QED
    BY <1>0, <2>1, FewerRecorded DEF Up
<1>4. CASE WriteIndex
  <2>1. /\ phase = "saving" /\ phase' = "ready" /\ UNCHANGED <<details, used, dropped>>
        /\ index' = [limit |-> limit, rev |-> revision, items |-> details, legacy |-> FALSE]
    BY <1>4 DEF WriteIndex, Saving
  <2>2. Items' = details
    <3>1. limit \in Limits /\ revision \in Nat /\ details \in Table
      BY <1>0 DEF Saved, TypeOK
    <3>2. [limit |-> limit, rev |-> revision, items |-> details, legacy |-> FALSE] \in Index
      BY <3>1 DEF Index
    <3>3. index' # NoIndex
      BY <2>1, <3>2, NoIndexAssumption
    <3> QED
      BY <2>1, <3>3 DEF Items
  <2>3. ListedOnce'
    BY <1>0, <1>1, <2>2 DEF Recorded, OneEntryPerSession, ListedOnce
  <2>4. SessionTypeOK' /\ Holding' /\ NothingYet' /\ NobodyRecords'
    BY <1>0, <1>1, <2>1 DEF Recorded, SessionTypeOK, Holding, NothingYet, NobodyRecords
  <2>5. SoleEntry' /\ OneEntryPerSession' /\ UnfinishedHasSession' /\ OutcomeRecorded'
    BY <1>0, <1>1, <2>1
    DEF Recorded, SoleEntry, OneEntryPerSession, UnfinishedHasSession, OutcomeRecorded, Up
  <2> QED
    BY <2>3, <2>4, <2>5 DEF Recorded
<1>5. CASE Load
  <2>1. /\ phase = "down" /\ phase' # "down" /\ UNCHANGED <<index, used>>
        /\ Held(details') \subseteq Held(Items)
    BY <1>0, <1>5, Loaded
  <2>2. Items' = Items /\ Held(details') \subseteq Ids
    BY <2>1 DEF Items, Held
  <2>3. \A s \in Sessions : spc[s] \in {"new", "nil"}
    BY <1>0, <2>1 DEF Recorded, NobodyRecords
  <2>4. SessionTypeOK' /\ NothingYet' /\ NobodyRecords' /\ ListedOnce'
    BY <1>0, <1>1, <2>1, <2>2 DEF Recorded, SessionTypeOK, NothingYet, NobodyRecords, ListedOnce
  <2>5. Holding' /\ OutcomeRecorded'
    BY <1>1, <2>3 DEF Holding, Recording, OutcomeRecorded
  <2>6. OneEntryPerSession'
    BY <1>0, <1>1, <2>1 DEF Recorded, ListedOnce, OneEntryPerSession
  <2>7. SoleEntry'
    BY <1>1, <2>3 DEF SoleEntry
  <2>8. UnfinishedHasSession'
    <3>1. \A i \in Ids : owner[i] # NoSession => owner[i] \in Sessions /\ spc[owner[i]] # "new"
      BY <1>0 DEF Recorded, NothingYet, SessionTypeOK
    <3> QED
      BY <1>1, <2>2, <2>3, <3>1 DEF UnfinishedHasSession
  <2> QED
    BY <2>4, <2>5, <2>6, <2>7, <2>8 DEF Recorded
<1>6. CASE \E t \in Times : Tick(t)
  <2>1. UNCHANGED <<details, phase, index, used, dropped>>
    BY <1>6 DEF Tick
  <2>2. Items' = Items
    BY <2>1 DEF Items
  <2>3. SessionTypeOK' /\ Holding' /\ NothingYet' /\ NobodyRecords' /\ ListedOnce'
    BY <1>0, <1>1, <2>1, <2>2
    DEF Recorded, SessionTypeOK, Holding, NothingYet, NobodyRecords, ListedOnce
  <2>4. SoleEntry' /\ OneEntryPerSession' /\ UnfinishedHasSession' /\ OutcomeRecorded'
    BY <1>0, <1>1, <2>1
    DEF Recorded, SoleEntry, OneEntryPerSession, UnfinishedHasSession, OutcomeRecorded, Up
  <2> QED
    BY <2>3, <2>4 DEF Recorded
<1> QED
  BY <1>2, <1>3, <1>4, <1>5, <1>6 DEF StoreMoves

\* A recorder whose request shows nothing starts an entry.
LEMMA GivenRecorded ==
    ASSUME Sound, NEW s \in Sessions, spc[s] \in {"new", "missing"},
           NEW i \in Ids, Given(s, i),
           NEW at \in {"open", "recreated"}, Moves(s, at), UNCHANGED final
    PROVE  Recorded'
<1>0. /\ Saved /\ Acknowledged /\ SessionTypeOK /\ Holding /\ ListedOnce /\ SoleEntry
      /\ NothingYet /\ OneEntryPerSession /\ UnfinishedHasSession /\ OutcomeRecorded
  BY DEF Sound, Recorded
<1>1. /\ phase = "ready" /\ phase' = "saving" /\ UNCHANGED index
      /\ i \notin used /\ used' = used \cup {i}
      /\ Held(details') \subseteq Held(details) \cup {i}
      /\ \A j \in Held(details') \ {i} : details'[j] = details[j]
      /\ dropped \subseteq dropped'
      /\ Held(details) \ Held(details') \subseteq dropped'
  BY <1>0, Started DEF Given
<1>2. /\ Items' = Items /\ Held(details) \subseteq used /\ Held(Items) \subseteq used
      /\ Held(details') \subseteq Ids
  BY <1>0, <1>1 DEF Items, Acknowledged, GivenOut, Held
<1>3. /\ spc' \in [Sessions -> SPCs] /\ spc'[s] = at
      /\ entry' \in [Sessions -> Ids \cup {NoEntry}] /\ entry'[s] = i
      /\ owner' \in [Ids -> Sessions \cup {NoSession}] /\ owner'[i] = s
      /\ \A o \in Sessions \ {s} : spc'[o] = spc[o] /\ entry'[o] = entry[o]
      /\ \A j \in Ids \ {i} : owner'[j] = owner[j]
  BY <1>0 DEF SessionTypeOK, SPCs, Moves, Given
<1>4. \A j \in Held(details) : owner[j] # s
  BY <1>0 DEF SoleEntry, NothingYet, Held
<1>5. \A j \in Held(Items) : j \in Ids /\ j # i
  BY <1>1, <1>2 DEF Held
<1>6. \A j \in Held(details') \ {i} :
         j \in Held(details) /\ j \in Ids /\ owner'[j] = owner[j] /\ owner[j] # s
  BY <1>1, <1>2, <1>3, <1>4
<1>7. s # NoSession /\ \A j \in Ids : owner[j] # NoSession => owner[j] \in Sessions
  BY <1>0, SessionsAssumption DEF SessionTypeOK
<1>8. SessionTypeOK'
  BY <1>0, <1>3 DEF SessionTypeOK
<1>9. Holding'
  <2> SUFFICES ASSUME NEW o \in Sessions, spc'[o] \in Recording
               PROVE  entry'[o] \in Ids /\ entry'[o] \in used' /\ owner'[entry'[o]] = o
    BY DEF Holding
  <2>1. CASE o = s
    BY <1>1, <1>3, <2>1
  <2>2. CASE o # s
    <3>1. entry[o] \in Ids /\ entry[o] \in used /\ owner[entry[o]] = o
      BY <1>0, <1>3, <2>2 DEF Holding
    <3> QED
      BY <1>1, <1>3, <2>2, <3>1
  <2> QED
    BY <2>1, <2>2
<1>10. ListedOnce'
  <2>1. \A j \in Held(Items) : owner'[j] = owner[j]
    BY <1>3, <1>5
  <2> QED
    BY <1>0, <1>2, <2>1 DEF ListedOnce
<1>11. SoleEntry'
  <2> SUFFICES ASSUME NEW j \in Held(details'), owner'[j] \in Sessions
               PROVE  /\ spc'[owner'[j]] # "missing"
                      /\ spc'[owner'[j]] \in {"open", "recreated"} => entry'[owner'[j]] = j
    BY DEF SoleEntry
  <2>1. CASE j = i
    BY <1>3, <2>1
  <2>2. CASE j # i
    BY <1>0, <1>3, <1>6, <2>2 DEF SoleEntry
  <2> QED
    BY <2>1, <2>2
<1>12. NothingYet'
  <2> SUFFICES ASSUME NEW j \in Ids, owner'[j] \in Sessions PROVE spc'[owner'[j]] # "new"
    BY DEF NothingYet
  <2>1. CASE owner'[j] = s
    BY <1>3, <2>1
  <2>2. CASE owner'[j] # s
    BY <1>0, <1>3, <2>2 DEF NothingYet
  <2> QED
    BY <2>1, <2>2
<1>13. NobodyRecords'
  BY <1>1 DEF NobodyRecords
<1>14. OneEntryPerSession'
  <2> SUFFICES ASSUME NEW j \in Held(details'), NEW k \in Held(details'),
                      owner'[j] = owner'[k], owner'[j] # NoSession
               PROVE  j = k
    BY DEF OneEntryPerSession
  <2>1. CASE j # i /\ k # i
    BY <1>0, <1>6, <2>1 DEF OneEntryPerSession
  <2>2. CASE j = i \/ k = i
    BY <1>3, <1>6, <2>2
  <2> QED
    BY <2>1, <2>2
<1>15. UnfinishedHasSession'
  <2> SUFFICES ASSUME NEW j \in Held(details'), ~details'[j].done, owner'[j] # NoSession
               PROVE  \/ spc'[owner'[j]] \in {"open", "recreated"} /\ entry'[owner'[j]] = j
                      \/ spc'[owner'[j]] = "nil"
                      \/ spc'[owner'[j]] = "left" /\ owner'[j] \in OfResponses
    BY DEF UnfinishedHasSession
  <2>1. CASE j = i
    BY <1>3, <2>1
  <2>2. CASE j # i
    <3>1. /\ j \in Held(details) /\ ~details[j].done /\ owner[j] # NoSession
          /\ owner'[j] = owner[j] /\ owner[j] \in Sessions \ {s}
      BY <1>1, <1>6, <1>7, <2>2
    <3>2. \/ spc[owner[j]] \in {"open", "recreated"} /\ entry[owner[j]] = j
          \/ spc[owner[j]] = "nil"
          \/ spc[owner[j]] = "left" /\ owner[j] \in OfResponses
      BY <1>0, <1>1, <3>1 DEF UnfinishedHasSession, Up
    <3> QED
      BY <1>3, <3>1, <3>2
  <2> QED
    BY <2>1, <2>2
<1>16. OutcomeRecorded'
  <2> SUFFICES ASSUME NEW o \in Sessions, spc'[o] = "closed"
               PROVE  \/ entry'[o] \in dropped'
                      \/ entry'[o] \in Held(details') /\ details'[entry'[o]].done
    BY DEF OutcomeRecorded
  <2>1. o # s /\ spc[o] = "closed" /\ entry'[o] = entry[o]
    BY <1>3
  <2>2. entry[o] # i
    BY <1>0, <1>1, <2>1 DEF Holding, Recording
  <2>3. entry[o] \in dropped \/ (entry[o] \in Held(details) /\ details[entry[o]].done)
    BY <1>0, <2>1 DEF OutcomeRecorded
  <2> QED
    BY <1>1, <2>1, <2>2, <2>3
<1> QED
  BY <1>8, <1>9, <1>10, <1>11, <1>12, <1>13, <1>14, <1>15, <1>16 DEF Recorded

\* A recorder writes to the entry it holds.
LEMMA WroteRecorded ==
    ASSUME Sound, NEW s \in Sessions, spc[s] \in {"open", "recreated"},
           NEW last \in BOOLEAN, Update(entry[s], last),
           Moves(s, IF last THEN "closed" ELSE "open"), UNCHANGED <<entry, final, owner>>
    PROVE  Recorded'
<1>0. /\ Saved /\ Acknowledged /\ SessionTypeOK /\ Holding /\ ListedOnce /\ SoleEntry
      /\ NothingYet /\ OneEntryPerSession /\ UnfinishedHasSession /\ OutcomeRecorded
  BY DEF Sound, Recorded
<1>1. PICK i \in Ids : i = entry[s] /\ owner[i] = s
  BY <1>0 DEF Holding, Recording
<1>2. Update(i, last)
  BY <1>1
<1>3. /\ phase = "ready" /\ phase' = "saving" /\ UNCHANGED <<index, used>>
      /\ i \in Held(details)
      /\ Held(details') \subseteq Held(details)
      /\ \A j \in Held(details') \ {i} : details'[j] = details[j]
      /\ i \in Held(details') => details'[i].done = last
      /\ dropped \subseteq dropped'
      /\ Held(details) \ Held(details') \subseteq dropped'
  BY <1>0, <1>2, Updated
<1>4. Items' = Items
  BY <1>3 DEF Items
<1>5. /\ spc' \in [Sessions -> SPCs] /\ spc'[s] = IF last THEN "closed" ELSE "open"
      /\ \A o \in Sessions \ {s} : spc'[o] = spc[o]
  BY <1>0 DEF SessionTypeOK, SPCs, Moves
<1>6. \A j \in Held(details) : owner[j] = s => j = i
  BY <1>0, <1>1 DEF SoleEntry
<1>7. SessionTypeOK' /\ ListedOnce'
  BY <1>0, <1>4, <1>5 DEF SessionTypeOK, ListedOnce
<1>8. Holding'
  <2> SUFFICES ASSUME NEW o \in Sessions, spc'[o] \in Recording
               PROVE  entry[o] \in Ids /\ entry[o] \in used /\ owner[entry[o]] = o
    BY <1>3 DEF Holding
  <2>1. spc[o] \in Recording
    BY <1>5 DEF Recording
  <2> QED
    BY <1>0, <2>1 DEF Holding
<1>9. SoleEntry'
  BY <1>0, <1>1, <1>3, <1>5, <1>6 DEF SoleEntry
<1>10. NothingYet'
  BY <1>0, <1>5 DEF NothingYet
<1>11. NobodyRecords'
  BY <1>3 DEF NobodyRecords
<1>12. OneEntryPerSession'
  BY <1>0, <1>3 DEF OneEntryPerSession
<1>13. UnfinishedHasSession'
  <2> SUFFICES ASSUME NEW j \in Held(details'), ~details'[j].done, owner[j] # NoSession
               PROVE  \/ spc'[owner[j]] \in {"open", "recreated"} /\ entry[owner[j]] = j
                      \/ spc'[owner[j]] = "nil"
                      \/ spc'[owner[j]] = "left" /\ owner[j] \in OfResponses
    BY DEF UnfinishedHasSession
  <2>1. CASE j = i
    BY <1>1, <1>3, <1>5, <2>1
  <2>2. CASE j # i
    <3>1. /\ j \in Held(details) /\ ~details[j].done /\ owner[j] # s
          /\ owner[j] \in Sessions
      BY <1>0, <1>3, <1>6, <2>2 DEF SessionTypeOK, Held
    <3>2. \/ spc[owner[j]] \in {"open", "recreated"} /\ entry[owner[j]] = j
          \/ spc[owner[j]] = "nil"
          \/ spc[owner[j]] = "left" /\ owner[j] \in OfResponses
      BY <1>0, <1>3, <3>1 DEF UnfinishedHasSession, Up
    <3> QED
      BY <1>5, <3>1, <3>2
  <2> QED
    BY <2>1, <2>2
<1>14. OutcomeRecorded'
  <2> SUFFICES ASSUME NEW o \in Sessions, spc'[o] = "closed"
               PROVE  \/ entry[o] \in dropped'
                      \/ entry[o] \in Held(details') /\ details'[entry[o]].done
    BY DEF OutcomeRecorded
  <2>1. CASE o = s
    BY <1>1, <1>3, <1>5, <2>1
  <2>2. CASE o # s
    <3>1. spc[o] = "closed"
      BY <1>5, <2>2
    <3>2. entry[o] # i
      BY <1>0, <1>1, <2>2, <3>1 DEF Holding, Recording
    <3>3. entry[o] \in dropped \/ (entry[o] \in Held(details) /\ details[entry[o]].done)
      BY <1>0, <3>1 DEF OutcomeRecorded
    <3> QED
      BY <1>3, <3>2, <3>3
  <2> QED
    BY <2>1, <2>2
<1> QED
  BY <1>7, <1>8, <1>9, <1>10, <1>11, <1>12, <1>13, <1>14 DEF Recorded

\* A recorder moves and the store does not: it is off, or its client left, or
\* what it held is gone.
LEMMA MovedRecorded ==
    ASSUME Sound, NEW s \in Sessions, phase # "down",
           UNCHANGED <<vars, entry, owner>>, final' \in [Sessions -> BOOLEAN],
           \/ spc[s] = "new" /\ Moves(s, "nil")
           \/ spc[s] = "open" /\ s \in OfResponses /\ Moves(s, "left")
           \/ spc[s] = "open" /\ details[entry[s]] = NoEntry /\ Moves(s, "missing")
           \/ spc[s] = "missing" /\ Moves(s, "disabled")
           \/ spc[s] = "recreated" /\ details[entry[s]] = NoEntry /\ Moves(s, "disabled")
    PROVE  Recorded'
<1>0. /\ SessionTypeOK /\ Holding /\ ListedOnce /\ SoleEntry
      /\ NothingYet /\ OneEntryPerSession /\ UnfinishedHasSession /\ OutcomeRecorded
  BY DEF Sound, Recorded
<1>1. UNCHANGED <<details, index, used, dropped, phase>>
  BY DEF vars
<1>2. Items' = Items
  BY <1>1 DEF Items
<1>3. /\ spc' \in [Sessions -> SPCs] /\ spc'[s] \in {"nil", "left", "missing", "disabled"}
      /\ \A o \in Sessions \ {s} : spc'[o] = spc[o]
      /\ spc'[s] = "left" => s \in OfResponses
      /\ spc'[s] = "missing" => spc[s] = "open"
  BY <1>0 DEF SessionTypeOK, SPCs, Moves
<1>4. spc'[s] \in {"missing", "disabled"} => \A j \in Held(details) : owner[j] # s
  BY <1>0 DEF SoleEntry, Held, Moves, SessionTypeOK
<1>5. SessionTypeOK' /\ ListedOnce' /\ OneEntryPerSession'
  BY <1>0, <1>1, <1>2, <1>3 DEF SessionTypeOK, ListedOnce, OneEntryPerSession
<1>6. Holding'
  BY <1>0, <1>1, <1>3 DEF Holding, Recording
<1>7. SoleEntry'
  BY <1>0, <1>1, <1>3, <1>4 DEF SoleEntry
<1>8. NothingYet'
  BY <1>0, <1>3 DEF NothingYet
<1>9. NobodyRecords'
  BY <1>1 DEF NobodyRecords
<1>10. UnfinishedHasSession'
  <2> SUFFICES ASSUME Up, NEW j \in Held(details), ~details[j].done, owner[j] # NoSession
               PROVE  \/ spc'[owner[j]] \in {"open", "recreated"} /\ entry[owner[j]] = j
                      \/ spc'[owner[j]] = "nil"
                      \/ spc'[owner[j]] = "left" /\ owner[j] \in OfResponses
    BY <1>1 DEF UnfinishedHasSession, Up
  <2>1. owner[j] \in Sessions
    BY <1>0 DEF SessionTypeOK, Held
  <2>2. \/ spc[owner[j]] \in {"open", "recreated"} /\ entry[owner[j]] = j
        \/ spc[owner[j]] = "nil"
        \/ spc[owner[j]] = "left" /\ owner[j] \in OfResponses
    BY <1>0 DEF UnfinishedHasSession
  <2> QED
    BY <1>3, <1>4, <2>1, <2>2
<1>11. OutcomeRecorded'
  BY <1>0, <1>1, <1>3 DEF OutcomeRecorded
<1> QED
  BY <1>5, <1>6, <1>7, <1>8, <1>9, <1>10, <1>11 DEF Recorded

LEMMA StopsRecorded == ASSUME Sound, Stops PROVE Recorded'
<1>0. SessionTypeOK /\ ListedOnce /\ NothingYet
  BY DEF Sound, Recorded
<1>1. /\ details' = Empty /\ phase' = "down" /\ UNCHANGED <<index, entry, final, owner>>
      /\ spc' = [s \in Sessions |-> IF spc[s] = "new" THEN "new" ELSE "nil"]
  BY DEF Stops, Crash
<1>2. Items' = Items /\ Held(details') = {}
  BY <1>1 DEF Items, Held, Empty
<1>3. \A s \in Sessions : spc'[s] \in {"new", "nil"} /\ (spc'[s] = "new" => spc[s] = "new")
  BY <1>1
<1>4. SessionTypeOK'
  BY <1>0, <1>1 DEF SessionTypeOK, SPCs
<1>5. ListedOnce' /\ SoleEntry' /\ OneEntryPerSession'
  BY <1>0, <1>1, <1>2 DEF ListedOnce, SoleEntry, OneEntryPerSession
<1>6. Holding' /\ OutcomeRecorded' /\ NobodyRecords'
  BY <1>3 DEF Holding, Recording, OutcomeRecorded, NobodyRecords
<1>7. NothingYet'
  BY <1>0, <1>1, <1>3 DEF NothingYet
<1>8. UnfinishedHasSession'
  BY <1>1 DEF UnfinishedHasSession, Up
<1> QED
  BY <1>4, <1>5, <1>6, <1>7, <1>8 DEF Recorded

LEMMA StepRecorded == ASSUME Sound, NEW s \in Sessions, SessionStep(s) PROVE Recorded'
<1>0. SessionTypeOK /\ Recorded
  BY DEF Sound, Recorded
<1>1. CASE Open(s)
  <2>1. "open" \in {"open", "recreated"}
    OBVIOUS
  <2> QED
    BY <1>1, <2>1, GivenRecorded DEF Open
<1>2. CASE Unrecorded(s)
  BY <1>0, <1>2, MovedRecorded DEF Unrecorded, SessionTypeOK
<1>3. CASE Abandons(s)
  <2>1. phase # "down"
    BY <1>0, <1>3 DEF Recorded, NobodyRecords, Abandons
  <2> QED
    BY <1>0, <1>3, <2>1, MovedRecorded DEF Abandons, SessionTypeOK
<1>4. CASE Recreate(s)
  <2>1. "recreated" \in {"open", "recreated"}
    OBVIOUS
  <2>2. CASE (\E i \in Ids : Given(s, i)) /\ Moves(s, "recreated")
    BY <1>4, <2>1, <2>2, GivenRecorded DEF Recreate
  <2>3. CASE ~((\E i \in Ids : Given(s, i)) /\ Moves(s, "recreated"))
    BY <1>0, <1>4, <2>3, MovedRecorded DEF Recreate, SessionTypeOK
  <2> QED
    BY <2>2, <2>3
<1>5. CASE Repeat(s)
  <2>1. final[s] \in BOOLEAN
    BY <1>0 DEF SessionTypeOK
  <2>2. CASE Update(entry[s], final[s]) /\ Moves(s, IF final[s] THEN "closed" ELSE "open")
    BY <1>5, <2>1, <2>2, WroteRecorded DEF Repeat
  <2>3. CASE ~(Update(entry[s], final[s]) /\ Moves(s, IF final[s] THEN "closed" ELSE "open"))
    BY <1>0, <1>5, <2>3, MovedRecorded DEF Repeat, SessionTypeOK
  <2> QED
    BY <2>2, <2>3
<1>6. ASSUME NEW last \in BOOLEAN, Persist(s, last) PROVE Recorded'
  BY <1>6, WroteRecorded DEF Persist
<1>7. ASSUME NEW last \in BOOLEAN, Misses(s, last) PROVE Recorded'
  <2>1. final' \in [Sessions -> BOOLEAN]
    BY <1>0, <1>7 DEF Misses, SessionTypeOK
  <2> QED
    BY <1>7, <2>1, MovedRecorded DEF Misses
<1> QED
  BY <1>1, <1>2, <1>3, <1>4, <1>5, <1>6, <1>7 DEF SessionStep

\* Every step of the recorders is one of the store, or leaves the store alone.
LEMMA StepOfStore ==
    ASSUME Recorded, [SessionNext]_allVars PROVE [Next \/ Crash]_vars
<1>1. ASSUME NEW s \in Sessions, NEW last \in BOOLEAN, Update(entry[s], last),
             spc[s] \in {"open", "recreated"}
      PROVE  Next
  <2>1. entry[s] \in Ids
    BY <1>1 DEF Recorded, Holding, Recording
  <2> QED
    BY <1>1, <2>1 DEF Next, Calls
<1>2. ASSUME NEW s \in Sessions, SessionStep(s) PROVE [Next \/ Crash]_vars
  <2>1. \A i \in Ids : Start(i) => Next
    BY DEF Next, Calls
  <2>2. final[s] \in BOOLEAN
    BY DEF Recorded, SessionTypeOK
  <2>3. CASE Open(s) \/ Recreate(s) \/ Unrecorded(s) \/ Abandons(s)
    BY <2>1, <2>3 DEF Open, Recreate, Unrecorded, Abandons, Given
  <2>4. CASE Repeat(s)
    BY <1>1, <2>2, <2>4 DEF Repeat
  <2>5. ASSUME NEW last \in BOOLEAN, Persist(s, last) \/ Misses(s, last)
        PROVE  [Next \/ Crash]_vars
    BY <1>1, <2>5 DEF Persist, Misses
  <2> QED
    BY <1>2, <2>3, <2>4, <2>5 DEF SessionStep
<1>3. CASE Stops
  BY <1>3 DEF Stops
<1>4. CASE StoreMoves
  BY <1>4 DEF StoreMoves, Next, System
<1>5. CASE UNCHANGED allVars
  BY <1>5 DEF allVars
<1> QED
  BY <1>2, <1>3, <1>4, <1>5 DEF SessionNext

LEMMA SessionNextSound == Sound /\ [SessionNext]_allVars => Sound'
<1> SUFFICES ASSUME Sound, [SessionNext]_allVars PROVE Sound'
  OBVIOUS
<1>0. Saved /\ Acknowledged /\ Recorded
  BY DEF Sound
<1>1. [Next \/ Crash]_vars
  BY <1>0, StepOfStore
<1>2. Saved' /\ Acknowledged'
  BY <1>0, <1>1, NextSaved, NextAcknowledged
<1>3. CASE UNCHANGED allVars
  <2>1. UNCHANGED <<details, index, used, dropped, phase, spc, entry, final, owner>>
    BY <1>3 DEF allVars, vars, sessionVars
  <2>2. Items' = Items
    BY <2>1 DEF Items
  <2>3. SessionTypeOK' /\ Holding' /\ NothingYet' /\ NobodyRecords' /\ ListedOnce'
    BY <1>0, <2>1, <2>2
    DEF Recorded, SessionTypeOK, Holding, NothingYet, NobodyRecords, ListedOnce
  <2>4. SoleEntry' /\ OneEntryPerSession' /\ UnfinishedHasSession' /\ OutcomeRecorded'
    BY <1>0, <2>1
    DEF Recorded, SoleEntry, OneEntryPerSession, UnfinishedHasSession, OutcomeRecorded, Up
  <2> QED
    BY <1>2, <2>3, <2>4 DEF Sound, Recorded
<1>4. Recorded'
  BY <1>3, StepRecorded, StopsRecorded, StoreMovesRecorded DEF SessionNext, Sound
<1> QED
  BY <1>2, <1>4 DEF Sound

LEMMA SoundAlways == SessionSpec => []Sound
BY SessionInitSound, SessionNextSound, PTL DEF SessionSpec

-----------------------------------------------------------------------------
(* Theorems *)

\* A request shows once in the history, and what shows as streaming is still
\* written by its recorder or was cut by a stop.
THEOREM RequestsShowOnce == SessionSpec => []EntriesOwned
<1>1. Sound => EntriesOwned
  BY DEF Sound, Recorded, EntriesOwned
<1> QED
  BY <1>1, SoundAlways, PTL

\* A recorder that closed left its outcome in an entry, unless it was removed.
THEOREM OutcomesRecorded == SessionSpec => []OutcomeRecorded
<1>1. Sound => OutcomeRecorded
  BY DEF Sound, Recorded
<1> QED
  BY <1>1, SoundAlways, PTL

\* The recorders use the store as its specification allows.
THEOREM RecordersUseStore == SessionSpec => Spec
<1>1. Sound /\ [SessionNext]_allVars => [Next \/ Crash]_vars
  BY StepOfStore DEF Sound
<1> QED
  BY <1>1, SoundAlways, PTL DEF SessionSpec, SessionInit, Spec

\* What a recorder was told is saved survives the process.
THEOREM RecordsSurvive == SessionSpec => []Durable
BY RecordersUseStore, AcknowledgedSurvives, PTL
=============================================================================
