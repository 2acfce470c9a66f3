-------------------------------- MODULE Uploads --------------------------------
(***************************************************************************)
(* The files of a request, before its completion: the inline blocks of its *)
(* messages (httpapi/openai/files/file_inline_upload.go), then the text    *)
(* that is too long for a prompt (current_input_file.go), which requests   *)
(* of one account share through privatecontext/upload_cache.go.  Whatever  *)
(* is uploaded holds one of the slots of the process until DeepSeek has    *)
(* processed the file (deepseek/client/client_upload.go,                   *)
(* client_file_status.go, upload_limiter.go).  A request whose account is  *)
(* banned meanwhile starts again on another.                               *)
(***************************************************************************)
EXTENDS Naturals, FiniteSets, SequencesExt

CONSTANTS
    Requests,
    Accounts,
    None,
    Wants,          \* what a request may want: its first account, blocks, context
    Slots,          \* defaultGlobalUploadConcurrency (16)
    MaxAttempts,    \* of an upload (3)
    MaxPolls,       \* fileReadyPollAttempts (60)
    MaxInline,      \* maxInlineFilesPerRequest (50)
    CacheTTL,       \* cacheTTL (20 minutes)
    MaxClock        \* bound: the time the model runs

ASSUME RequestsAssumption == IsFiniteSet(Requests)
ASSUME NoneAssumption == None \notin Requests /\ None \notin Nat
ASSUME BoundsAssumption ==
    /\ {Slots, MaxAttempts, MaxPolls, MaxInline, CacheTTL} \subseteq Nat \ {0}
    /\ MaxClock \in Nat

\* A block of a message: its bytes, whether it is a reference already, its
\* type, and what its image_url and the data field of its type hold: base64 that
\* can be decoded, or not, or the address of an image.
IsBlock(b) ==
    /\ b.file_id \in BOOLEAN
    /\ b.type \in {"", "image_url", "image", "input_image", "file"}
    /\ b.url \in {"none", "good", "broken", "http"} /\ b.data \in {"none", "good", "broken"}

\* What a block holds and what is too long for a prompt go by different names:
\* the cache knows contexts only.
ASSUME WantsAssumption ==
    /\ \A w \in Wants :
          /\ w.acct \in Accounts /\ w.blocks \in Seq(ToSet(w.blocks))
          /\ \A i \in DOMAIN w.blocks : IsBlock(w.blocks[i])
    /\ \A v, w \in Wants : \A i \in DOMAIN w.blocks : w.blocks[i].name # v.context

VARIABLES
    want,           \* what the request wants
    acct,           \* the account it is leased
    tried,          \* TriedAccounts
    pc,             \* where it stands
    todo,           \* the blocks it has not walked yet
    count,          \* uploadCount
    refs,           \* the files it has; those of its blocks are uploadedByID
    asked,          \* the time it looked at before it took the lock of the cache
    tries,          \* attempts or polls so far
    gone,           \* requests whose context is done
    cache,          \* uploadCache.entries
    inflight,       \* uploadCache.inflight
    slots,          \* slots taken
    files,          \* what DeepSeek accepted, in order
    now

lease == <<acct, tried>>
walk == <<todo, count, refs>>
shared == <<cache, inflight>>
vars == <<want, lease, pc, walk, asked, tries, gone, shared, slots, files, now>>

Keys == Accounts \X {w.context : w \in Wants}
Busy == {"pow", "post", "poll"}
Over == {"ready", "refused", "failed"}

TypeOK ==
    /\ want \in [Requests -> Wants] /\ acct \in [Requests -> Accounts]
    /\ tried \in [Requests -> SUBSET Accounts]
    /\ pc \in [Requests -> {"walk", "ask", "lookup", "follow", "slot", "discarded"} \cup Busy \cup Over]
    /\ \A r \in Requests : refs[r] \in Seq(DOMAIN files)
    /\ count \in [Requests -> 0 .. MaxInline]
    /\ asked \in [Requests -> 0 .. MaxClock] /\ now \in 0 .. MaxClock
    /\ gone \subseteq Requests
    /\ cache \in [Keys -> 0 .. Len(files)] /\ inflight \in [Keys -> Requests \cup {None}]
    /\ slots \in 0 .. Slots

Init ==
    /\ want \in [Requests -> Wants] /\ acct = [r \in Requests |-> want[r].acct]
    /\ tried = [r \in Requests |-> {}]
    /\ pc = [r \in Requests |-> "walk"]
    /\ todo = [r \in Requests |-> want[r].blocks]
    /\ count = [r \in Requests |-> 0] /\ refs = [r \in Requests |-> <<>>]
    /\ asked = [r \in Requests |-> 0] /\ tries = [r \in Requests |-> 0]
    /\ gone = {}
    /\ cache = [k \in Keys |-> 0] /\ inflight = [k \in Keys |-> None]
    /\ slots = 0 /\ files = <<>> /\ now = 0

-----------------------------------------------------------------------------
(* The blocks of a request *)

\* extractInlineImageURL
ImageURL(b) == IF b.type \in {"image_url", ""} THEN b.url ELSE "none"

\* extractInlineImagePayload: an input_image is not read.
ImagePayload(b) == IF ImageURL(b) = "none" /\ b.type = "image" THEN b.data ELSE ImageURL(b)

\* extractInlineFilePayload: what is shaped as an image is not a file.
FilePayload(b) == IF b.type \in {"file", ""} THEN b.data ELSE "none"

\* decodeOpenAIInlineFileBlock: what a block holds.  A reference is left alone.
Decode(b) ==
    IF b.file_id THEN "none"
    ELSE IF ImagePayload(b) # "none" THEN ImagePayload(b) ELSE FilePayload(b)

Goto(r, at) == pc' = [pc EXCEPT ![r] = at] /\ tries' = [tries EXCEPT ![r] = 0]

\* The files of the request with these bytes.
Known(r) == {f \in ToSet(refs[r]) : files[f].content = Head(todo[r]).name}

\* A block that holds no file.
Skip(r) ==
    /\ Decode(Head(todo[r])) = "none"
    /\ todo' = [todo EXCEPT ![r] = Tail(@)]
    /\ UNCHANGED <<pc, tries, count, refs>>

\* decodeInlinePayload: neither a data URL nor base64.
Unreadable(r) == Decode(Head(todo[r])) = "broken"

\* fetchRemoteImage: the address is no image, or too large a one, or the fetch
\* fails or takes too long.
Unfetched(r) == Decode(Head(todo[r])) = "http"

\* A block that cannot be decoded or fetched, or is one too many.
Refuse(r) ==
    /\ Decode(Head(todo[r])) # "none"
    /\ Unreadable(r) \/ Unfetched(r) \/ count[r] >= MaxInline
    /\ Goto(r, "refused")
    /\ UNCHANGED walk

\* uploadInlineFile: the request has uploaded the same bytes already, or asks
\* for a slot.
Inline(r) ==
    /\ Decode(Head(todo[r])) \in {"good", "http"} /\ count[r] < MaxInline
    /\ IF Known(r) = {} THEN Goto(r, "slot") /\ UNCHANGED walk
       ELSE /\ todo' = [todo EXCEPT ![r] = Tail(@)]
            /\ count' = [count EXCEPT ![r] = @ + 1]
            /\ refs' = [refs EXCEPT ![r] = Append(@, CHOOSE f \in Known(r) : TRUE)]
            /\ UNCHANGED <<pc, tries>>

\* walk and tryUploadBlock for the next block.
Walk(r) ==
    /\ pc[r] = "walk" /\ todo[r] # <<>>
    /\ Skip(r) \/ Refuse(r) \/ Inline(r)
    /\ UNCHANGED <<want, lease, asked, gone, shared, slots, files, now>>

\* The blocks are through.  A request that stays long needs a context.
Walked(r) ==
    /\ pc[r] = "walk" /\ todo[r] = <<>>
    /\ Goto(r, IF want[r].context = None THEN "ready" ELSE "ask")
    /\ UNCHANGED <<want, lease, walk, asked, gone, shared, slots, files, now>>

\* What r uploads, once its blocks are through or before.
IsContext(r) == todo[r] = <<>>
Wanted(r) == IF IsContext(r) THEN want[r].context ELSE Head(todo[r]).name

-----------------------------------------------------------------------------
(* The shared cache *)

\* privatecontext.Key
Key(r) == <<acct[r], want[r].context>>

\* now is read before the lock is taken.
Ask(r) ==
    /\ pc[r] = "ask"
    /\ asked' = [asked EXCEPT ![r] = now]
    /\ Goto(r, "lookup")
    /\ UNCHANGED <<want, lease, walk, gone, shared, slots, files, now>>

Entry(r) == cache[Key(r)]

Fresh(r) == Entry(r) # 0 /\ asked[r] < files[Entry(r)].at + CacheTTL

\* Slip: the call under way is not looked for.
LookupAlone(r) ==
    /\ pc[r] = "lookup"
    /\ IF Fresh(r) THEN refs' = [refs EXCEPT ![r] = Append(@, Entry(r))] /\ Goto(r, "ready") /\ UNCHANGED shared
       ELSE /\ cache' = [cache EXCEPT ![Key(r)] = 0] /\ inflight' = [inflight EXCEPT ![Key(r)] = r]
            /\ Goto(r, "slot") /\ UNCHANGED refs
    /\ UNCHANGED <<want, lease, todo, count, asked, gone, slots, files, now>>

\* Upload, under its lock: a fresh entry, a call to wait for, or a call to make.
Lookup(r) ==
    /\ pc[r] = "lookup"
    /\ IF Fresh(r)
       THEN /\ refs' = [refs EXCEPT ![r] = Append(@, Entry(r))]
            /\ Goto(r, "ready")
            /\ UNCHANGED shared
       ELSE /\ cache' = [cache EXCEPT ![Key(r)] = 0]
            /\ IF inflight[Key(r)] # None THEN Goto(r, "follow") /\ UNCHANGED inflight
               ELSE /\ inflight' = [inflight EXCEPT ![Key(r)] = r]
                    /\ Goto(r, "slot")
            /\ UNCHANGED refs
    /\ asked' = [asked EXCEPT ![r] = 0]
    /\ UNCHANGED <<want, lease, todo, count, gone, slots, files, now>>

\* The select of a follower picks its own context.
StopsFollowing(r) ==
    /\ pc[r] = "follow" /\ r \in gone
    /\ Goto(r, "failed")
    /\ UNCHANGED <<want, lease, walk, asked, gone, shared, slots, files, now>>

\* The requests that wait for the call r makes.
Followers(r) ==
    IF IsContext(r) THEN {s \in Requests : pc[s] = "follow" /\ Key(s) = Key(r)} ELSE {}

-----------------------------------------------------------------------------
(* UploadFile *)

\* uploadSemaphore.acquire
Acquire(r) ==
    /\ pc[r] = "slot" /\ slots < Slots
    /\ slots' = slots + 1
    /\ Goto(r, "pow")
    /\ UNCHANGED <<want, lease, walk, asked, gone, shared, files, now>>

\* Slip: the slot is kept.
FreeSlotIfReady(r) == slots' = IF pc[r] = "poll" THEN slots - 1 ELSE slots

\* The deferred release of the slot.
FreeSlot(r) == slots' = IF pc[r] \in Busy THEN slots - 1 ELSE slots

\* Slip: a failed call stays, and its followers with it.
FailsAlone(r, how) ==
    /\ pc' = [pc EXCEPT ![r] = how]
    /\ FreeSlot(r)
    /\ UNCHANGED <<want, acct, walk, asked, tries, gone, shared, files, now>>

\* UploadFile fails.  The call of a context is over, and its followers fail
\* with it: they do not know that an account was banned.
Fails(r, how) ==
    /\ pc' = [s \in Requests |-> IF s = r THEN how
                                 ELSE IF s \in Followers(r) THEN "failed" ELSE pc[s]]
    /\ inflight' = IF IsContext(r) THEN [inflight EXCEPT ![Key(r)] = None] ELSE inflight
    /\ FreeSlot(r)
    /\ UNCHANGED <<want, acct, walk, asked, tries, gone, cache, files, now>>

\* UploadFile returns file f, which is processed now.
Returns(r, f) ==
    LET ends == {r} \cup Followers(r)
    IN  /\ pc' = [s \in Requests |-> IF s \notin ends THEN pc[s]
                                     ELSE IF IsContext(r) THEN "ready" ELSE "walk"]
        /\ refs' = [s \in Requests |-> IF s \in ends THEN Append(refs[s], f) ELSE refs[s]]
        /\ files' = [files EXCEPT ![f].at = now]
        /\ IF IsContext(r)
           THEN /\ inflight' = [inflight EXCEPT ![Key(r)] = None]
                /\ cache' = [cache EXCEPT ![Key(r)] = f]
                /\ UNCHANGED <<todo, count>>
           ELSE /\ todo' = [todo EXCEPT ![r] = Tail(@)]
                /\ count' = [count EXCEPT ![r] = @ + 1]
                /\ UNCHANGED shared
        /\ FreeSlot(r)
        /\ UNCHANGED <<want, lease, asked, tries, gone, now>>

\* A wait for a slot that the context ends, a proof of work that fails, an
\* answer without an id.
Breaks(r) ==
    /\ \/ pc[r] = "slot" /\ r \in gone
       \/ pc[r] \in {"pow", "post"}
    /\ Fails(r, "failed")
    /\ UNCHANGED tried

\* GetPowForTarget
Pow(r) ==
    /\ pc[r] = "pow"
    /\ pc' = [pc EXCEPT ![r] = "post"]
    /\ UNCHANGED <<want, lease, walk, asked, tries, gone, shared, slots, files, now>>

\* The attempt fails, whether or not it refreshed the token or waited.
Again(r) ==
    /\ pc[r] = "post" /\ tries[r] + 1 < MaxAttempts
    /\ tries' = [tries EXCEPT ![r] = @ + 1]
    /\ pc' = [pc EXCEPT ![r] = "pow"]
    /\ UNCHANGED <<want, lease, walk, asked, gone, shared, slots, files, now>>

\* The answer tells that the account is banned or muted, to the upload or to its
\* proof of work.
Discards(r) ==
    /\ pc[r] \in {"pow", "post"}
    /\ Fails(r, "discarded")
    /\ tried' = [tried EXCEPT ![r] = @ \cup {acct[r]}]

\* The upload is accepted, and the file is waited for.
Accepted(r) ==
    /\ pc[r] = "post"
    /\ files' = Append(files, [acct |-> acct[r], content |-> Wanted(r), by |-> r, at |-> None])
    /\ Goto(r, "poll")
    /\ UNCHANGED <<want, lease, walk, asked, gone, shared, slots, now>>

\* The file r waits for.
Polled(r) == CHOOSE f \in DOMAIN files : files[f].by = r /\ \A g \in f + 1 .. Len(files) : files[g].by # r

\* waitForUploadedFile: at once or after some polls the file is ready.
Ready(r) ==
    /\ pc[r] = "poll"
    /\ Returns(r, Polled(r))

\* It is not, or the poll fails: once more, or never.  The context and its
\* limit of time end the wait early.
NotReady(r) ==
    /\ pc[r] = "poll"
    /\ \/ /\ tries[r] + 1 < MaxPolls
          /\ tries' = [tries EXCEPT ![r] = @ + 1]
          /\ UNCHANGED <<want, lease, pc, walk, asked, gone, shared, slots, files, now>>
       \/ Fails(r, "failed") /\ UNCHANGED tried

-----------------------------------------------------------------------------
(* The handler *)

\* Slip: what was uploaded to the account before is kept.
SwitchKeepingRefs(r) ==
    /\ pc[r] = "discarded"
    /\ \E a \in Accounts \ tried[r] : acct' = [acct EXCEPT ![r] = a]
    /\ Goto(r, "walk")
    /\ UNCHANGED <<want, tried, walk, asked, gone, shared, slots, files, now>>

\* SwitchAccount, and the request is built again from its body.
Switch(r) ==
    /\ pc[r] = "discarded"
    /\ \E a \in Accounts \ tried[r] : acct' = [acct EXCEPT ![r] = a]
    /\ Goto(r, "walk")
    /\ todo' = [todo EXCEPT ![r] = want[r].blocks]
    /\ count' = [count EXCEPT ![r] = 0] /\ refs' = [refs EXCEPT ![r] = <<>>]
    /\ UNCHANGED <<want, tried, asked, gone, shared, slots, files, now>>

\* There is no other account.
NoSwitch(r) ==
    /\ pc[r] = "discarded"
    /\ Goto(r, "failed")
    /\ UNCHANGED <<want, lease, walk, asked, gone, shared, slots, files, now>>

\* The client leaves.  Nothing looks at it but the waits: elsewhere a call that
\* fails stands for it.
Leave(r) ==
    /\ r \notin gone /\ pc[r] \in {"follow", "slot"}
    /\ gone' = gone \cup {r}
    /\ UNCHANGED <<want, lease, pc, walk, asked, tries, shared, slots, files, now>>

Tick ==
    /\ now < MaxClock /\ now' = now + 1
    /\ UNCHANGED <<want, lease, pc, walk, asked, tries, gone, shared, slots, files>>

Step(r) ==
    \/ Walk(r) \/ Walked(r)
    \/ Ask(r) \/ Lookup(r) \/ StopsFollowing(r)
    \/ Acquire(r) \/ Breaks(r) \/ Pow(r) \/ Again(r) \/ Discards(r) \/ Accepted(r)
    \/ Ready(r) \/ NotReady(r)
    \/ Switch(r) \/ NoSwitch(r)

Next == Tick \/ \E r \in Requests : Step(r) \/ Leave(r)

\* Every call of DeepSeek returns (its clients have time limits).  The
\* goroutines of the requests run.
Spec == Init /\ [][Next]_vars /\ \A r \in Requests : WF_vars(Step(r))

-----------------------------------------------------------------------------
(* Properties *)

\* A slot is taken by each upload under way and by nothing else: it comes back
\* on every path out of UploadFile, and an upload that waits for a slot holds
\* none (upload_limiter.go:16, client_upload.go:48).  Every variable keeps its type.
SlotsComeBack == TypeOK /\ slots = Cardinality({r \in Requests : pc[r] \in Busy})

\* Which of the files of the request is that of block i, if it holds one.
Place(r, i) == Cardinality({j \in 1 .. i : Decode(want[r].blocks[j]) # "none"})

\* What a request refers to is processed, belongs to the account it holds by
\* now, and is what its blocks and its context say, each in its place: through
\* the sharing of uploads, the bytes it knows and the switch of accounts
\* (file_inline_upload.go:203, current_input_file.go:58).
OwnFiles ==
    \A r \in Requests :
        LET blocks == want[r].blocks
            contexts == IF want[r].context = None THEN 0 ELSE 1
            Content(i) == files[refs[r][i]].content
        IN  pc[r] # "discarded" =>
               /\ \A i \in DOMAIN refs[r] : LET f == files[refs[r][i]]
                                            IN  f.acct = acct[r] /\ f.at # None
               /\ pc[r] = "ready" =>
                     /\ Len(refs[r]) = Place(r, Len(blocks)) + contexts
                     /\ \A i \in DOMAIN blocks :
                           Decode(blocks[i]) # "none" => Content(Place(r, i)) = blocks[i].name
                     /\ contexts = 1 => Content(Len(refs[r])) = want[r].context

\* One context is uploaded by one request at a time, and not again before its
\* file is older than the time to live (upload_cache.go:76, 96).
Contexts == {w.context : w \in Wants}
UploadedOnce ==
    /\ \A r, s \in Requests :
          r # s /\ pc[r] \in Busy /\ pc[s] \in Busy /\ IsContext(r) /\ IsContext(s) => Key(r) # Key(s)
    /\ \A f, g \in DOMAIN files :
          /\ f < g /\ files[f].acct = files[g].acct /\ files[f].content = files[g].content
          /\ files[g].content \in Contexts /\ files[f].at # None
          => files[g].at = None \/ files[g].at >= files[f].at + CacheTTL

\* Every request has its files or an error in the end: nobody waits for a call
\* that is over, or for a slot that is lost (upload_cache.go:87).
AllReturn == <>(\A r \in Requests : pc[r] \in Over)
=============================================================================
