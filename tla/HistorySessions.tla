--------------------------- MODULE HistorySessions ---------------------------
(***************************************************************************)
(* The recorders of chat histories: one per request, in                    *)
(* httpapi/openai/chat/chat_history.go for chat completions and, the same  *)
(* code again, in internal/responsehistory for responses, which record     *)
(* nothing when their client leaves a stream.                              *)
(*                                                                         *)
(* A recorder starts an entry, updates it while its stream runs and once   *)
(* more at the end.  When the entry is gone - trimmed by newer requests,   *)
(* or deleted - it starts another and repeats the update.  Each call of    *)
(* the store is atomic; between two of them other recorders move.          *)
(***************************************************************************)
EXTENDS ChatHistory

CONSTANTS
    Sessions,
    OfResponses,    \* those of responsehistory
    NoSession

ASSUME SessionsAssumption == NoSession \notin Sessions /\ OfResponses \subseteq Sessions

VARIABLES
    spc,        \* where each recorder stands
    entry,      \* its entryID
    final,      \* whether the update it repeats is its last
    owner       \* the recorder that started each entry

sessionVars == <<spc, entry, final, owner>>
allVars == <<vars, sessionVars>>

SPCs == {"new", "open", "missing", "recreated", "closed", "disabled", "left", "nil"}

SessionTypeOK ==
    /\ spc \in [Sessions -> SPCs]
    /\ entry \in [Sessions -> Ids \cup {NoEntry}]
    /\ final \in [Sessions -> BOOLEAN]
    /\ owner \in [Ids -> Sessions \cup {NoSession}]

SessionInit ==
    /\ Init
    /\ spc = [s \in Sessions |-> "new"]
    /\ entry = [s \in Sessions |-> NoEntry]
    /\ final = [s \in Sessions |-> FALSE]
    /\ owner = [i \in Ids |-> NoSession]

\* Start hands s the entry i, whether or not it could be saved.
Given(s, i) ==
    /\ Start(i)
    /\ entry' = [entry EXCEPT ![s] = i]
    /\ owner' = [owner EXCEPT ![i] = s]

Moves(s, at) == spc' = [spc EXCEPT ![s] = at]

Open(s) ==
    /\ spc[s] = "new"
    /\ \E i \in Ids : Given(s, i)
    /\ Moves(s, "open")
    /\ UNCHANGED final

\* The store is switched off, or could not load: the request is not recorded.
Unrecorded(s) ==
    /\ spc[s] = "new"
    /\ phase = "failed" \/ (phase = "ready" /\ limit = 0)
    /\ Moves(s, "nil")
    /\ UNCHANGED <<vars, entry, final, owner>>

\* Progress (last = FALSE), or the outcome of the request.
Persist(s, last) ==
    /\ spc[s] = "open"
    /\ Update(entry[s], last)
    /\ Moves(s, IF last THEN "closed" ELSE "open")
    /\ UNCHANGED <<entry, final, owner>>

\* markContextCancelled of a stream of responses, which tells no recorder.
Abandons(s) ==
    /\ spc[s] = "open" /\ s \in OfResponses
    /\ Moves(s, "left")
    /\ UNCHANGED <<vars, entry, final, owner>>

\* Slip: a save that failed is taken for a missing entry.
MissesOnFailure(s, last) ==
    /\ spc[s] = "open"
    /\ phase = "ready" /\ (details[entry[s]] = NoEntry \/ entry[s] \in dirty)
    /\ Moves(s, "missing")
    /\ final' = [final EXCEPT ![s] = last]
    /\ UNCHANGED <<vars, entry, owner>>

\* Update finds no entry.
Misses(s, last) ==
    /\ spc[s] = "open"
    /\ phase = "ready" /\ details[entry[s]] = NoEntry
    /\ Moves(s, "missing")
    /\ final' = [final EXCEPT ![s] = last]
    /\ UNCHANGED <<vars, entry, owner>>

\* Slip: the update that found no entry is not repeated.
RecreateOnly(s) ==
    /\ spc[s] = "missing"
    /\ \/ (\E i \in Ids : Given(s, i)) /\ Moves(s, IF final[s] THEN "closed" ELSE "open")
       \/ /\ phase = "ready" /\ limit = 0
          /\ Moves(s, "disabled")
          /\ UNCHANGED <<vars, entry, owner>>
    /\ UNCHANGED final

\* retryMissingEntry
Recreate(s) ==
    /\ spc[s] = "missing"
    /\ \/ (\E i \in Ids : Given(s, i)) /\ Moves(s, "recreated")
       \/ /\ phase = "ready" /\ limit = 0
          /\ Moves(s, "disabled")
          /\ UNCHANGED <<vars, entry, owner>>
    /\ UNCHANGED final

\* The update is repeated; if the new entry is gone as well, the recorder gives up.
Repeat(s) ==
    /\ spc[s] = "recreated"
    /\ \/ /\ Update(entry[s], final[s])
          /\ Moves(s, IF final[s] THEN "closed" ELSE "open")
       \/ /\ phase = "ready" /\ details[entry[s]] = NoEntry
          /\ Moves(s, "disabled")
          /\ UNCHANGED vars
    /\ UNCHANGED <<entry, final, owner>>

\* The process stops, and its requests with it.
Stops ==
    /\ Crash
    /\ spc' = [s \in Sessions |-> IF spc[s] = "new" THEN "new" ELSE "nil"]
    /\ UNCHANGED <<entry, final, owner>>

StoreMoves ==
    /\ \/ \E i \in Ids : RemoveFile(i) \/ WriteFile(i)
       \/ WriteIndex \/ SaveFails \/ Load
       \/ \E t \in Times : Tick(t)
       \/ Admin
    /\ UNCHANGED sessionVars

SessionStep(s) ==
    \/ Open(s) \/ Unrecorded(s) \/ Abandons(s) \/ Recreate(s) \/ Repeat(s)
    \/ \E last \in BOOLEAN : Persist(s, last) \/ Misses(s, last)

SessionNext == (\E s \in Sessions : SessionStep(s)) \/ Stops \/ StoreMoves

SessionSpec == SessionInit /\ [][SessionNext]_allVars

-----------------------------------------------------------------------------
(* What the recorders must guarantee *)

\* A request shows once in the history: the entry a recorder starts again
\* stands for one that is gone, whatever saves failed in between
\* (chat_history.go:235-258).
OneEntryPerSession ==
    \A i, j \in Held(details) :
        owner[i] = owner[j] /\ owner[i] # NoSession => i = j

\* A recorder that closed without giving up left its outcome in its entry, also
\* when the entry had to be started again, unless the entry was trimmed or
\* deleted since.
OutcomeRecorded ==
    \A s \in Sessions :
        spc[s] = "closed" =>
            \/ entry[s] \in dropped
            \/ entry[s] \in Held(details) /\ details[entry[s]].done

\* An entry that shows as streaming is the one its recorder is still to finish,
\* or was left so by a stop of the process or by a client that left a stream of
\* responses, which nothing repairs.
UnfinishedHasSession ==
    Up => \A i \in Held(details) :
            ~details[i].done /\ owner[i] # NoSession =>
                \/ spc[owner[i]] \in {"open", "recreated"} /\ entry[owner[i]] = i
                \/ spc[owner[i]] = "nil"
                \/ spc[owner[i]] = "left" /\ owner[i] \in OfResponses

\* A request shows once in the history, and what shows as streaming is still
\* written by its recorder, or was cut by a stop (chat_history.go:204-258).
EntriesOwned == SessionTypeOK /\ OneEntryPerSession /\ UnfinishedHasSession
=============================================================================
