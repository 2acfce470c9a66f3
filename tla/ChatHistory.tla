----------------------------- MODULE ChatHistory -----------------------------
(***************************************************************************)
(* The store of chat histories (internal/chathistory): an index file and   *)
(* one detail file per entry, both written from an in-memory copy.         *)
(*                                                                         *)
(* Every operation changes the copy and then saves it, all under Store.mu: *)
(* the change is one action, and the save is a sequence of file operations *)
(* any of which may fail, and between any two of which the process may     *)
(* stop.  A file is replaced by a rename, so it is never half written.     *)
(***************************************************************************)
EXTENDS Integers, FiniteSets

CONSTANTS
    Ids,            \* identifiers of entries: a new one for every Start
    NoEntry,        \* no entry, no file, no operation under way
    NoIndex,        \* the index file does not exist
    Limits,         \* limits SetLimit accepts; 0 is DisabledLimit
    DefaultLimit,
    Times,          \* readings of the clock
    MaxRevision,    \* bound on the revisions TLC explores
    StepsBack,      \* whether the wall clock may step back
    CanFail,        \* whether a file operation may fail
    AdminCalls,     \* whether Delete, Clear and SetLimit are called
    Legacy          \* whether the first index may be a version 1 file

ASSUME IdsAssumption == IsFiniteSet(Ids) /\ NoEntry \notin Ids
ASSUME LimitAssumption ==
    Limits \subseteq Nat /\ DefaultLimit \in Limits /\ DefaultLimit > 0
ASSUME ClockAssumption == Times \subseteq Nat \ {0} /\ Times # {} /\ MaxRevision \in Nat
ASSUME SwitchAssumption == {StepsBack, CanFail, AdminCalls, Legacy} \subseteq BOOLEAN

\* An entry: its revision, its time of creation, and whether its status is final.
Entry == [rev : Nat, created : Nat, done : BOOLEAN]
ASSUME NoEntryAssumption == NoEntry \notin Entry

Table == [Ids -> Entry \cup {NoEntry}]
Empty == [i \in Ids |-> NoEntry]
Held(t) == {i \in Ids : t[i] # NoEntry}
Index == [limit : Limits, rev : Nat, items : Table, legacy : BOOLEAN]

ASSUME NoIndexAssumption == NoIndex \notin Index

VARIABLES
    details,    \* Store.details
    dirty,      \* Store.dirty: details the files lag behind
    deleted,    \* Store.deleted: files to remove
    limit,      \* Store.state.Limit
    revision,   \* Store.state.Revision
    phase,      \* "down", "ready", "saving", or "failed": Store.err is set
    op,         \* the entry the running Start or Update is about
    files,      \* detail files
    index,      \* index file
    now,        \* the wall clock
    used,       \* identifiers that have been given out
    dropped,    \* entries deleted or trimmed
    acked       \* the last revision a successful Start or Update answered

vars == <<details, dirty, deleted, limit, revision, phase, op, files, index,
          now, used, dropped, acked>>

TypeOK ==
    /\ details \in Table
    /\ dirty \in SUBSET Ids
    /\ deleted \in SUBSET Ids
    /\ limit \in Limits
    /\ revision \in Nat
    /\ phase \in {"down", "ready", "saving", "failed"}
    /\ op \in Ids \cup {NoEntry}
    /\ files \in Table
    /\ index \in Index \cup {NoIndex}
    /\ now \in Times
    /\ used \in SUBSET Ids
    /\ dropped \in SUBSET Ids
    /\ acked \in [Ids -> Nat]

-----------------------------------------------------------------------------
(* The index *)

\* Slip: the revision is the reading of the clock.
NextRevisionUnguarded == now

NextRevision == IF now > revision THEN now ELSE revision + 1

\* Slip: the ties of the order go to the entry changed first.
NewerTiesReversed(e, f) ==
    e.created > f.created \/ (e.created = f.created /\ e.rev < f.rev)

\* The order of the index: newest first, and the last change breaks a tie.
Newer(e, f) == e.created > f.created \/ (e.created = f.created /\ e.rev > f.rev)

\* The entries a rebuild of the index keeps.
Keeps(t, max, keep) ==
    /\ keep \subseteq Held(t)
    /\ IF max = 0 \/ Cardinality(Held(t)) <= max
       THEN keep = Held(t)
       ELSE /\ Cardinality(keep) = max
            /\ \A i \in keep, j \in Held(t) \ keep : ~Newer(t[j], t[i])

\* The copy becomes what the limit leaves of t: "changed" are the details to
\* write, "gone" those to remove, to which the trimmed ones are added.
Rebuild(t, changed, gone) ==
    \E keep \in SUBSET Ids :
        /\ Keeps(t, limit', keep)
        /\ details' = [i \in Ids |-> IF i \in keep THEN t[i] ELSE NoEntry]
        /\ dirty' = changed \cap keep
        /\ deleted' = gone \cup (Held(t) \ keep)
        /\ dropped' = dropped \cup gone \cup (Held(t) \ keep)

-----------------------------------------------------------------------------
(* Operations.  Each leaves a save under way. *)

\* The index starts absent, or as a version 1 file that holds whole entries.
Init ==
    /\ details = Empty /\ dirty = {} /\ deleted = {}
    /\ limit = DefaultLimit /\ revision = 0
    /\ phase = "down" /\ op = NoEntry
    /\ files = Empty
    /\ \/ index = NoIndex /\ used = {}
       \/ /\ Legacy
          /\ \E old \in (SUBSET Ids) \ {{}}, n \in Limits :
                /\ index = [limit |-> n, rev |-> 0, legacy |-> TRUE,
                            items |-> [i \in Ids |-> IF i \in old
                                         THEN [rev |-> 1, created |-> 1, done |-> TRUE]
                                         ELSE NoEntry]]
                /\ used = old
    /\ now \in Times
    /\ dropped = {}
    /\ acked = [i \in Ids |-> IF i \in used THEN 1 ELSE 0]

Begin == phase = "ready" /\ phase' = "saving" /\ UNCHANGED <<files, index, now, acked>>

Start(i) ==
    /\ Begin /\ limit # 0 /\ i \notin used
    /\ NextRevision <= MaxRevision
    /\ revision' = NextRevision /\ UNCHANGED limit
    /\ Rebuild([details EXCEPT ![i] = [rev |-> NextRevision, created |-> now, done |-> FALSE]],
               dirty \cup {i}, deleted \ {i})
    /\ used' = used \cup {i} /\ op' = i

\* Update with a final status, or with progress.
Update(i, final) ==
    /\ Begin /\ details[i] # NoEntry
    /\ NextRevision <= MaxRevision
    /\ revision' = NextRevision /\ UNCHANGED <<limit, used>>
    /\ Rebuild([details EXCEPT ![i].rev = NextRevision, ![i].done = final],
               dirty \cup {i}, deleted \ {i})
    /\ op' = i

Remove(gone) ==
    /\ Begin /\ gone \subseteq Held(details)
    /\ NextRevision <= MaxRevision
    /\ revision' = NextRevision /\ UNCHANGED <<limit, used>>
    /\ Rebuild([i \in Ids |-> IF i \in gone THEN NoEntry ELSE details[i]],
               dirty \ gone, deleted \cup gone)
    /\ op' = NoEntry

Delete(i) == details[i] # NoEntry /\ Remove({i})
Clear == Remove(Held(details))

SetLimit(n) ==
    /\ Begin /\ NextRevision <= MaxRevision
    /\ limit' = n /\ revision' = NextRevision /\ UNCHANGED used
    /\ Rebuild(details, dirty, deleted)
    /\ op' = NoEntry

-----------------------------------------------------------------------------
(* The save *)

Saving == phase = "saving" /\ UNCHANGED <<details, limit, revision, now, used, dropped>>

RemoveFile(i) ==
    /\ Saving /\ i \in deleted /\ files[i] # NoEntry
    /\ files' = [files EXCEPT ![i] = NoEntry]
    /\ UNCHANGED <<phase, op, index, dirty, deleted, acked>>

Removed == \A i \in deleted : files[i] = NoEntry
Written == \A i \in dirty : files[i] = details[i]

WriteFile(i) ==
    /\ Saving /\ Removed
    /\ i \in dirty /\ files[i] # details[i]
    /\ files' = [files EXCEPT ![i] = details[i]]
    /\ UNCHANGED <<phase, op, index, dirty, deleted, acked>>

WriteIndex ==
    /\ Saving /\ Removed /\ Written
    /\ index' = [limit |-> limit, rev |-> revision, items |-> details, legacy |-> FALSE]
    /\ dirty' = {} /\ deleted' = {}
    /\ phase' = "ready"
    /\ acked' = IF op \in Held(details) THEN [acked EXCEPT ![op] = details[op].rev] ELSE acked
    /\ op' = NoEntry
    /\ UNCHANGED files

\* Slip: a failed save forgets what it could not write.
SaveFailsClean ==
    /\ CanFail /\ Saving
    /\ phase' = "ready" /\ op' = NoEntry
    /\ dirty' = {} /\ deleted' = {}
    /\ UNCHANGED <<files, index, acked>>

\* A file operation fails: the caller is told, and what is pending stays pending.
SaveFails ==
    /\ CanFail /\ Saving
    /\ phase' = "ready" /\ op' = NoEntry
    /\ UNCHANGED <<files, index, dirty, deleted, acked>>

-----------------------------------------------------------------------------
(* Start of the process, and its end *)

Items == IF index = NoIndex THEN Empty ELSE index.items

\* The largest revision of a version 1 file becomes that of the store.
LegacyRevision ==
    CHOOSE r \in {Items[i].rev : i \in Held(Items)} : \A i \in Held(Items) : Items[i].rev <= r

\* Slip: the migration does not mark what it must write.
LoadUnmarked ==
    /\ phase = "down"
    /\ limit' = IF index = NoIndex THEN DefaultLimit ELSE index.limit
    /\ revision' = IF index = NoIndex THEN 0
                   ELSE IF index.legacy THEN LegacyRevision ELSE index.rev
    /\ IF index # NoIndex /\ index.legacy
       THEN Rebuild(Items, {}, {}) /\ phase' = "saving"
       ELSE /\ Rebuild([i \in Ids |-> IF Items[i] = NoEntry THEN NoEntry ELSE files[i]], {}, {})
            /\ phase' = IF Held(Items) \subseteq Held(files) THEN "saving" ELSE "failed"
    /\ op' = NoEntry
    /\ UNCHANGED <<files, index, now, used, acked>>

\* New: the details of a version 1 index are all to be written; those of the
\* current one are read from their files, and one that is missing is an error
\* every later operation returns.
Load ==
    /\ phase = "down"
    /\ limit' = IF index = NoIndex THEN DefaultLimit ELSE index.limit
    /\ revision' = IF index = NoIndex THEN 0
                   ELSE IF index.legacy THEN LegacyRevision ELSE index.rev
    /\ IF index # NoIndex /\ index.legacy
       THEN Rebuild(Items, Held(Items), {}) /\ phase' = "saving"
       ELSE /\ Rebuild([i \in Ids |-> IF Items[i] = NoEntry THEN NoEntry ELSE files[i]], {}, {})
            /\ phase' = IF Held(Items) \subseteq Held(files) THEN "saving" ELSE "failed"
    /\ op' = NoEntry
    /\ UNCHANGED <<files, index, now, used, acked>>

Crash ==
    /\ phase # "down"
    /\ details' = Empty /\ dirty' = {} /\ deleted' = {}
    /\ limit' = DefaultLimit /\ revision' = 0
    /\ phase' = "down" /\ op' = NoEntry
    /\ UNCHANGED <<files, index, now, used, dropped, acked>>

Tick(t) ==
    /\ t # now /\ (StepsBack \/ t > now)
    /\ now' = t
    /\ UNCHANGED <<details, dirty, deleted, limit, revision, phase, op, files, index,
                   used, dropped, acked>>

-----------------------------------------------------------------------------
Admin ==
    /\ AdminCalls
    /\ Clear \/ (\E i \in Ids : Delete(i)) \/ (\E n \in Limits : SetLimit(n))

System ==
    \/ \E i \in Ids : RemoveFile(i) \/ WriteFile(i)
    \/ WriteIndex \/ SaveFails
    \/ Load
    \/ \E t \in Times : Tick(t)

Calls == \E i \in Ids : Start(i) \/ (\E final \in BOOLEAN : Update(i, final))

Next == Calls \/ Admin \/ System

\* One life of the process: it loads what it finds and is never stopped.
OneLife == Init /\ [][Next]_vars

\* The process may stop at any time, and loads again.
Spec == Init /\ [][Next \/ Crash]_vars

-----------------------------------------------------------------------------
(* What the store must guarantee *)

Up == phase \in {"ready", "saving"}

\* The details that are not marked dirty are what their files hold, across
\* failed saves and restarts: saveLocked writes only what is marked
\* (store.go:490-506), so a mark that is lost is a change never written.
CleanOnDisk == Up => \A i \in Held(details) \ dirty : files[i] = details[i]

\* While the process runs, every detail file belongs to an entry or is marked
\* for removal: trimming and deleting leave no file behind (store.go:484-489,
\* 545-550), even when the save that should have removed it failed.
NoOrphans == Up => Held(files) \subseteq Held(details) \cup deleted

\* With nothing pending, the index lists exactly the entries of the copy.
IndexMatches ==
    phase = "ready" /\ dirty = {} /\ deleted = {} => Items = details

\* In one life of the process, memory, files and what is marked for the next save
\* agree, after any number of saves that failed half-way (store.go:474-517).
CopySound == TypeOK /\ CleanOnDisk /\ NoOrphans /\ IndexMatches

\* An entry survives the Start that creates it: the trim takes older ones, those
\* of the same instant included (store.go:524-553), so long as the wall clock
\* does not step back.
StartKeepsEntry ==
    [][\A i \in used' \ used : details'[i] # NoEntry]_vars

\* A change of an entry raises its revision whatever the clock reads, for
\* readers who compare revisions (nextRevisionLocked).
RevisionsGrow ==
    [][\A i \in Held(details) \cap Held(details') :
         details'[i] # details[i] => details'[i].rev > details[i].rev]_vars

\* What the files hold of an entry.
OnDisk(i) == IF index # NoIndex /\ index.legacy THEN Items[i]
             ELSE IF Items[i] = NoEntry THEN NoEntry ELSE files[i]

\* The entries the index lists without their file: if there is one, New fails.
Missing == IF index # NoIndex /\ index.legacy THEN {} ELSE Held(Items) \ Held(files)

Survives(i, read) == read # NoEntry /\ read.rev >= acked[i]

\* A Start or an Update that returned no error, or an entry of a version 1 file,
\* leaves the files only when it is trimmed or deleted, wherever saves fail and the
\* process stops.
AckedOnDisk == \A i \in Ids \ dropped : acked[i] > 0 => Survives(i, OnDisk(i))

\* A store that is up, restarted or not, holds it.
AckedHeld == Up => \A i \in Ids \ dropped : acked[i] > 0 => Survives(i, details[i])

\* A load fails in one case only: a detail that was trimmed or deleted has been
\* removed, and the index that drops it was not written (store.go:428-432, 484-514).
\* While the process runs, its next save is still to do that.
OnlyDroppedMissing ==
    /\ Missing \subseteq dropped
    /\ Up => Missing \subseteq deleted
    /\ phase = "failed" => Missing # {}

\* What was acknowledged stays in the files, and a restart finds it unless the
\* process was stopped in the middle of a removal.
Durable == AckedOnDisk /\ AckedHeld /\ OnlyDroppedMissing
=============================================================================
