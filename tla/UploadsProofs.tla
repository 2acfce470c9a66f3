----------------------------- MODULE UploadsProofs -----------------------------
(***************************************************************************)
(* Theorems about Uploads, for any requests, wants, slots, limits and any  *)
(* time to live.                                                           *)
(***************************************************************************)
EXTENDS Uploads, FiniteSetTheorems, SequenceTheorems, TLAPS

Blocks == UNION {ToSet(w.blocks) : w \in Wants}
Contents == Contexts \cup {b.name : b \in Blocks}
File == [acct : Accounts, content : Contents, by : Requests, at : Nat \cup {None}]
PCs == {"walk", "ask", "lookup", "follow", "slot", "discarded"} \cup Busy \cup Over

Typed ==
    /\ want \in [Requests -> Wants] /\ acct \in [Requests -> Accounts]
    /\ tried \in [Requests -> SUBSET Accounts]
    /\ pc \in [Requests -> PCs]
    /\ todo \in [Requests -> Seq(Blocks)] /\ refs \in [Requests -> Seq(Nat)]
    /\ count \in [Requests -> Nat] /\ tries \in [Requests -> Nat]
    /\ asked \in [Requests -> Nat] /\ now \in 0 .. MaxClock
    /\ gone \subseteq Requests
    /\ cache \in [Keys -> Nat] /\ inflight \in [Keys -> Requests \cup {None}]
    /\ slots \in Nat
    /\ files \in Seq(File)

\* The upload a request makes or waits to make.
Uploading == {"slot"} \cup Busy

\* How far a request has walked, and what it uploads on the way.
WalksAt(r) ==
    LET blocks == want[r].blocks
        walked == Len(blocks) - Len(todo[r])
    IN  /\ walked \in Nat /\ \A i \in 1 .. Len(todo[r]) : todo[r][i] = blocks[walked + i]
        /\ count[r] <= MaxInline
        /\ pc[r] \in {"ask", "lookup", "follow", "ready"} => IsContext(r)
        /\ pc[r] \in {"ask", "lookup", "follow"} \cup Uploading /\ IsContext(r) => want[r].context # None
        /\ pc[r] \in Uploading /\ ~IsContext(r) =>
              Decode(Head(todo[r])) # "none" /\ count[r] < MaxInline
Walks == \A r \in Requests : WalksAt(r)

Holders == {r \in Requests : pc[r] \in Busy}
SlotsHeld == slots = Cardinality(Holders) /\ slots <= Slots

\* The call under way for a context is the one of the request that uploads it, and
\* a request that follows has somebody to follow.
Led ==
    /\ \A k \in Keys, r \in Requests : inflight[k] = r =>
          pc[r] \in Uploading /\ IsContext(r) /\ Key(r) = k /\ cache[k] = 0
    /\ \A r \in Requests : pc[r] \in Uploading /\ IsContext(r) => inflight[Key(r)] = r
    /\ \A r \in Requests : pc[r] = "follow" => inflight[Key(r)] # None

\* What the cache knows is processed, of the account and the context of its key.
Cached ==
    \A k \in Keys : cache[k] # 0 =>
        /\ cache[k] \in DOMAIN files
        /\ files[cache[k]].acct = k[1] /\ files[cache[k]].content = k[2] /\ files[cache[k]].at # None

\* The file a request waits for is its last, and the last of its context.
Waited(r, f) ==
    /\ files[f].by = r /\ files[f].acct = acct[r] /\ files[f].content = Wanted(r) /\ files[f].at = None
    /\ \A g \in f + 1 .. Len(files) :
          /\ files[g].by # r
          /\ IsContext(r) => <<files[g].acct, files[g].content>> # Key(r)
PollsOwn == \A r \in Requests : pc[r] = "poll" => \E f \in DOMAIN files : Waited(r, f)

RefsOwn ==
    \A r \in Requests : \A i \in DOMAIN refs[r] :
        /\ refs[r][i] \in DOMAIN files
        /\ files[refs[r][i]].acct = acct[r] /\ files[refs[r][i]].at # None

\* What a request has walked it refers to, each block in its place.
RefsSayAt(r) ==
    LET blocks == want[r].blocks
        own == pc[r] = "ready" /\ want[r].context # None
    IN  \A walked \in {Len(blocks) - Len(todo[r])} :
            /\ Len(refs[r]) = Place(r, walked) + (IF own THEN 1 ELSE 0)
            /\ \A i \in 1 .. walked :
                  Decode(blocks[i]) # "none" => files[refs[r][Place(r, i)]].content = blocks[i].name
            /\ own => files[refs[r][Len(refs[r])]].content = want[r].context
RefsSay == \A r \in Requests : RefsSayAt(r)

\* Nobody has looked at a time to come.
AskedBefore == \A r \in Requests : asked[r] <= now

\* A context whose file the cache has lost is older than the time to live.
Expired ==
    \A f \in DOMAIN files : files[f].at # None /\ files[f].content \in Contexts =>
        \/ cache[<<files[f].acct, files[f].content>>] = f
        \/ now >= files[f].at + CacheTTL

\* A context is uploaded again only when its file has expired.
Apart ==
    \A f, g \in DOMAIN files :
          /\ f < g /\ files[f].acct = files[g].acct /\ files[f].content = files[g].content
          /\ files[g].content \in Contexts /\ files[f].at # None
          => files[g].at = None \/ files[g].at >= files[f].at + CacheTTL

-----------------------------------------------------------------------------
(* The data *)

LEMMA FunsTyped ==
    ASSUME Typed
    PROVE  /\ todo \in [Requests -> Seq(Blocks)] /\ refs \in [Requests -> Seq(Nat)]
           /\ count \in [Requests -> Nat] /\ slots \in Nat /\ now \in Nat
           /\ cache \in [Keys -> Nat] /\ inflight \in [Keys -> Requests \cup {None}]
BY BoundsAssumption DEF Typed

LEMMA WantsTyped ==
    ASSUME NEW w \in Wants
    PROVE  w.acct \in Accounts /\ w.blocks \in Seq(Blocks) /\ w.context \in Contexts
<1>1. w.blocks \in Seq(ToSet(w.blocks)) /\ ToSet(w.blocks) \subseteq Blocks
  BY WantsAssumption DEF Blocks
<1>2. w.blocks \in Seq(Blocks)
  BY <1>1, SeqMonotonic
<1> QED
  BY <1>2, WantsAssumption DEF Contexts

LEMMA KeyTyped ==
    ASSUME Typed, NEW r \in Requests
    PROVE  Key(r) \in Keys /\ want[r] \in Wants /\ want[r].context \in Contexts
BY WantsTyped DEF Typed, Key, Keys, Contexts

\* What a block holds is never what the cache keeps.
LEMMA NamesApart ==
    ASSUME NEW b \in Blocks
    PROVE  b.name \notin Contexts
BY WantsAssumption DEF Blocks, Contexts, ToSet

LEMMA HeadTyped ==
    ASSUME Typed, NEW r \in Requests, todo[r] # <<>>
    PROVE  /\ Len(todo[r]) \in Nat \ {0}
           /\ Head(todo[r]) \in Blocks /\ Head(todo[r]) = todo[r][1]
           /\ Tail(todo[r]) \in Seq(Blocks) /\ Len(Tail(todo[r])) = Len(todo[r]) - 1
           /\ \A i \in 1 .. Len(todo[r]) - 1 : Tail(todo[r])[i] = todo[r][i + 1]
<1>1. todo[r] \in Seq(Blocks)
  BY DEF Typed
<1> QED
  BY <1>1, HeadTailProperties, EmptySeq

LEMMA WantedTyped ==
    ASSUME Typed, NEW r \in Requests
    PROVE  /\ Wanted(r) \in Contents
           /\ IsContext(r) => Wanted(r) = want[r].context
           /\ ~IsContext(r) => Wanted(r) \notin Contexts
<1>1. CASE IsContext(r)
  BY <1>1, KeyTyped DEF Wanted, Contents
<1>2. CASE ~IsContext(r)
  BY <1>2, HeadTyped, NamesApart DEF Wanted, IsContext, Contents
<1> QED
  BY <1>1, <1>2

\* The files DeepSeek has, before and after it accepts one more.
LEMMA FilesTyped ==
    ASSUME Typed
    PROVE  /\ Len(files) \in Nat /\ DOMAIN files = 1 .. Len(files)
           /\ \A f \in DOMAIN files : files[f] \in File
BY LenProperties, ElementOfSeq DEF Typed

LEMMA RefsTyped ==
    ASSUME Typed, NEW r \in Requests
    PROVE  /\ Len(refs[r]) \in Nat /\ DOMAIN refs[r] = 1 .. Len(refs[r])
           /\ \A i \in 1 .. Len(refs[r]) : refs[r][i] \in Nat
           /\ \A f \in Nat : /\ Append(refs[r], f) \in Seq(Nat)
                             /\ Len(Append(refs[r], f)) = Len(refs[r]) + 1
                             /\ DOMAIN Append(refs[r], f) = 1 .. Len(refs[r]) + 1
                             /\ \A i \in 1 .. Len(refs[r]) : Append(refs[r], f)[i] = refs[r][i]
                             /\ Append(refs[r], f)[Len(refs[r]) + 1] = f
<1>1. refs[r] \in Seq(Nat)
  BY DEF Typed
<1> QED
  BY <1>1, LenProperties, ElementOfSeq, AppendProperties

LEMMA AcceptedFiles ==
    ASSUME Typed, NEW r \in Requests, Accepted(r)
    PROVE  /\ files' \in Seq(File) /\ Len(files') = Len(files) + 1 /\ DOMAIN files' = 1 .. Len(files) + 1
           /\ \A f \in DOMAIN files : files'[f] = files[f]
           /\ files'[Len(files) + 1] = [acct |-> acct[r], content |-> Wanted(r), by |-> r, at |-> None]
<1> DEFINE new == [acct |-> acct[r], content |-> Wanted(r), by |-> r, at |-> None]
<1>1. new \in File
  BY WantedTyped DEF Typed, File
<1>2. files \in Seq(File) /\ files' = Append(files, new)
  BY DEF Typed, Accepted
<1>3. /\ Append(files, new) \in Seq(File) /\ Len(Append(files, new)) = Len(files) + 1
      /\ \A i \in 1 .. Len(files) : Append(files, new)[i] = files[i]
      /\ Append(files, new)[Len(files) + 1] = new
  BY <1>1, <1>2, AppendProperties
<1>4. DOMAIN files' = 1 .. Len(files) + 1
  BY <1>2, <1>3, LenProperties
<1> QED
  BY <1>2, <1>3, <1>4, FilesTyped

\* The file a request waits for is the one it polls.
LEMMA PolledWaited ==
    ASSUME Typed, PollsOwn, NEW r \in Requests, pc[r] = "poll"
    PROVE  Polled(r) \in DOMAIN files /\ Waited(r, Polled(r))
<1>1. PICK f \in DOMAIN files : Waited(r, f)
  BY DEF PollsOwn
<1>2. \E g \in DOMAIN files : files[g].by = r /\ \A h \in g + 1 .. Len(files) : files[h].by # r
  BY <1>1 DEF Waited
<1>3. /\ Polled(r) \in DOMAIN files /\ files[Polled(r)].by = r
      /\ \A h \in Polled(r) + 1 .. Len(files) : files[h].by # r
  BY <1>2 DEF Polled
<1>4. f \in 1 .. Len(files) /\ Polled(r) \in 1 .. Len(files) /\ Len(files) \in Nat
  BY <1>3, FilesTyped
<1>5. Polled(r) = f
  BY <1>1, <1>3, <1>4 DEF Waited
<1> QED
  BY <1>1, <1>5

LEMMA ReturnedFiles ==
    ASSUME Typed, NEW r \in Requests, NEW f \in DOMAIN files, Returns(r, f)
    PROVE  /\ files' \in Seq(File) /\ Len(files') = Len(files) /\ DOMAIN files' = DOMAIN files
           /\ files'[f] = [files[f] EXCEPT !.at = now]
           /\ \A g \in DOMAIN files : g # f => files'[g] = files[g]
<1>1. files' = [files EXCEPT ![f] = [files[f] EXCEPT !.at = now]]
  BY DEF Returns
<1>2. files \in Seq(File) /\ f \in 1 .. Len(files)
  BY FilesTyped DEF Typed
<1>3. [files[f] EXCEPT !.at = now] \in File
  <2>1. files[f] \in File /\ now \in Nat \cup {None}
    BY FilesTyped, BoundsAssumption DEF Typed
  <2> QED
    BY <2>1 DEF File
<1>4. /\ [files EXCEPT ![f] = [files[f] EXCEPT !.at = now]] \in Seq(File)
      /\ Len([files EXCEPT ![f] = [files[f] EXCEPT !.at = now]]) = Len(files)
  BY <1>2, <1>3, ExceptSeq
<1> QED
  BY <1>1, <1>2, <1>4, FilesTyped, LenProperties

\* Each block that holds a file has the next place, and the places are in order.
LEMMA Places ==
    ASSUME NEW r
    PROVE  /\ Place(r, 0) = 0
           /\ \A i \in Nat : /\ Place(r, i) \in Nat
                             /\ Place(r, i + 1) = IF Decode(want[r].blocks[i + 1]) # "none"
                                                  THEN Place(r, i) + 1 ELSE Place(r, i)
           /\ \A i, j \in Nat : i <= j => Place(r, i) <= Place(r, j)
           /\ \A i \in Nat : i > 0 /\ Decode(want[r].blocks[i]) # "none" => Place(r, i) > 0
<1> DEFINE P(i) == {j \in 1 .. i : Decode(want[r].blocks[j]) # "none"}
<1>1. \A i \in Nat : IsFiniteSet(P(i)) /\ Cardinality(P(i)) \in Nat
  <2> SUFFICES ASSUME NEW i \in Nat PROVE IsFiniteSet(P(i)) /\ Cardinality(P(i)) \in Nat
    OBVIOUS
  <2>1. IsFiniteSet(1 .. i)
    BY FS_Interval
  <2>2. P(i) \subseteq 1 .. i
    OBVIOUS
  <2> QED
    BY <2>1, <2>2, FS_Subset, FS_CardinalityType
<1>2. Place(r, 0) = 0
  <2>1. P(0) = {}
    OBVIOUS
  <2> QED
    BY <2>1, FS_EmptySet DEF Place
<1>3. \A i, j \in Nat : i <= j => Place(r, i) <= Place(r, j)
  <2> SUFFICES ASSUME NEW i \in Nat, NEW j \in Nat, i <= j PROVE Place(r, i) <= Place(r, j)
    OBVIOUS
  <2>1. P(i) \subseteq P(j)
    OBVIOUS
  <2> QED
    BY <1>1, <2>1, FS_Subset DEF Place
<1>4. \A i \in Nat : Place(r, i + 1) = IF Decode(want[r].blocks[i + 1]) # "none"
                                       THEN Place(r, i) + 1 ELSE Place(r, i)
  <2> SUFFICES ASSUME NEW i \in Nat
               PROVE  Place(r, i + 1) = IF Decode(want[r].blocks[i + 1]) # "none"
                                        THEN Place(r, i) + 1 ELSE Place(r, i)
    OBVIOUS
  <2>1. CASE Decode(want[r].blocks[i + 1]) # "none"
    <3>1. P(i + 1) = P(i) \cup {i + 1} /\ i + 1 \notin P(i)
      BY <2>1
    <3> QED
      BY <1>1, <2>1, <3>1, FS_AddElement DEF Place
  <2>2. CASE Decode(want[r].blocks[i + 1]) = "none"
    <3>1. P(i + 1) = P(i)
      BY <2>2
    <3> QED
      BY <2>2, <3>1 DEF Place
  <2> QED
    BY <2>1, <2>2
<1>5. \A i \in Nat : Place(r, i) \in Nat
  BY <1>1 DEF Place
<1>6. ASSUME NEW i \in Nat, i > 0, Decode(want[r].blocks[i]) # "none"
      PROVE  Place(r, i) > 0
  <2>1. i - 1 \in Nat /\ (i - 1) + 1 = i
    BY <1>6
  <2>2. Place(r, i) = Place(r, i - 1) + 1
    BY <1>4, <1>6, <2>1
  <2> QED
    BY <1>5, <2>1, <2>2
<1> HIDE DEF P
<1> QED
  BY <1>2, <1>3, <1>4, <1>5, <1>6

\* What the followers of a failed call, its leader and the slots become.
LEMMA SlotFreed ==
    ASSUME Typed, SlotsHeld, NEW r \in Requests, pc[r] \in Busy
    PROVE  slots > 0 /\ slots - 1 = Cardinality(Holders \ {r})
<1>1. IsFiniteSet(Holders) /\ r \in Holders
  BY RequestsAssumption, FS_Subset DEF Holders
<1>2. Cardinality(Holders) \in Nat /\ Cardinality(Holders \ {r}) \in Nat
      /\ Cardinality(Holders \ {r}) = Cardinality(Holders) - 1
  BY <1>1, FS_CardinalityType, FS_RemoveElement
<1> QED
  BY <1>2 DEF SlotsHeld

LEMMA FailsTyped ==
    ASSUME Typed, SlotsHeld, NEW r \in Requests, NEW how \in {"failed", "discarded"}, Fails(r, how)
    PROVE  /\ pc' \in [Requests -> PCs] /\ inflight' \in [Keys -> Requests \cup {None}]
           /\ slots' \in Nat
           /\ UNCHANGED <<want, acct, walk, asked, tries, gone, cache, files, now>>
<1>1. pc' \in [Requests -> PCs]
  BY DEF Fails, Typed, PCs, Over
<1>2. inflight' \in [Keys -> Requests \cup {None}]
  BY KeyTyped DEF Fails, Typed
<1>3. slots' \in Nat
  <2>1. slots \in Nat
    BY DEF Typed
  <2>2. pc[r] \in Busy => slots > 0
    BY SlotFreed
  <2> QED
    BY <2>1, <2>2 DEF Fails, FreeSlot
<1> QED
  BY <1>1, <1>2, <1>3 DEF Fails

-----------------------------------------------------------------------------
(* What the steps do *)

Idles == UNCHANGED <<want, acct, todo, count, refs, cache, inflight, files, now>>

\* The steps that only move their request on.
Way(r, q) ==
    \/ q = pc[r]
    \/ pc[r] = "walk" /\ q = "refused"
    \/ pc[r] = "walk" /\ q = "slot" /\ ~IsContext(r) /\ Decode(Head(todo[r])) # "none" /\ count[r] < MaxInline
    \/ pc[r] = "walk" /\ q = "ready" /\ IsContext(r) /\ want[r].context = None
    \/ pc[r] = "walk" /\ q = "ask" /\ IsContext(r) /\ want[r].context # None
    \/ pc[r] = "ask" /\ q = "lookup"
    \/ pc[r] \in {"follow", "discarded"} /\ q = "failed"
    \/ pc[r] = "slot" /\ q = "pow"
    \/ pc[r] = "pow" /\ q = "post"
    \/ pc[r] = "post" /\ q = "pow"
Passes(r) == Idles /\ \E q \in PCs : pc' = [pc EXCEPT ![r] = q] /\ Way(r, q)

\* A block without a file, and a block whose file is known.
Skips(r) ==
    /\ pc[r] = "walk" /\ ~IsContext(r) /\ Decode(Head(todo[r])) = "none"
    /\ todo' = [todo EXCEPT ![r] = Tail(todo[r])]
    /\ UNCHANGED <<want, acct, pc, count, refs, cache, inflight, files, now>>
Repeats(r) ==
    /\ pc[r] = "walk" /\ ~IsContext(r) /\ Decode(Head(todo[r])) # "none" /\ count[r] < MaxInline
    /\ \E i \in DOMAIN refs[r] :
          /\ files[refs[r][i]].content = Head(todo[r]).name
          /\ refs' = [refs EXCEPT ![r] = Append(refs[r], refs[r][i])]
    /\ todo' = [todo EXCEPT ![r] = Tail(todo[r])]
    /\ count' = [count EXCEPT ![r] = count[r] + 1]
    /\ UNCHANGED <<want, acct, pc, cache, inflight, files, now>>

\* The three ways out of the lock of the cache.
Hits(r) ==
    /\ pc[r] = "lookup" /\ cache[Key(r)] # 0
    /\ refs' = [refs EXCEPT ![r] = Append(refs[r], cache[Key(r)])]
    /\ pc' = [pc EXCEPT ![r] = "ready"]
    /\ UNCHANGED <<want, acct, todo, count, cache, inflight, files, now>>
Misses(r) ==
    /\ pc[r] = "lookup"
    /\ cache[Key(r)] # 0 => ~(asked[r] < files[cache[Key(r)]].at + CacheTTL)
    /\ cache' = [cache EXCEPT ![Key(r)] = 0]
    /\ UNCHANGED <<want, acct, todo, count, refs, files, now>>
Follows(r) ==
    /\ Misses(r)
    /\ inflight[Key(r)] # None /\ pc' = [pc EXCEPT ![r] = "follow"] /\ UNCHANGED inflight
Leads(r) ==
    /\ Misses(r)
    /\ inflight[Key(r)] = None /\ pc' = [pc EXCEPT ![r] = "slot"]
    /\ inflight' = [inflight EXCEPT ![Key(r)] = r]

\* The end of an upload, of a block or of a context.
Drops(r) ==
    /\ pc[r] \in Uploading
    /\ \E how \in {"failed", "discarded"} :
          pc' = [s \in Requests |-> IF s = r THEN how ELSE IF s \in Followers(r) THEN "failed" ELSE pc[s]]
    /\ inflight' = IF IsContext(r) THEN [inflight EXCEPT ![Key(r)] = None] ELSE inflight
    /\ UNCHANGED <<want, acct, todo, count, refs, cache, files, now>>
Lands(r) == pc[r] = "poll" /\ Returns(r, Polled(r))

Sends(r) ==
    /\ Accepted(r)
    /\ pc' = [pc EXCEPT ![r] = "poll"]
    /\ UNCHANGED <<want, acct, todo, count, refs, cache, inflight, now>>

Restarts(r) ==
    /\ pc[r] = "discarded"
    /\ \E a \in Accounts : acct' = [acct EXCEPT ![r] = a]
    /\ pc' = [pc EXCEPT ![r] = "walk"]
    /\ todo' = [todo EXCEPT ![r] = want[r].blocks]
    /\ count' = [count EXCEPT ![r] = 0] /\ refs' = [refs EXCEPT ![r] = <<>>]
    /\ UNCHANGED <<want, cache, inflight, files, now>>

LEMMA Kinds ==
    ASSUME Typed, NEW r \in Requests, Step(r) \/ Leave(r)
    PROVE  \/ Passes(r) \/ Skips(r) \/ Repeats(r) \/ Hits(r) \/ Follows(r) \/ Leads(r)
           \/ Drops(r) \/ Sends(r) \/ Lands(r) \/ Restarts(r)
<1> USE DEF walk, lease, shared, Goto
<1>0. pc \in [Requests -> PCs] /\ pc[r] \in PCs
  BY DEF Typed
<1>1. CASE Walk(r)
  <2>1. CASE Skip(r)
    BY <1>1, <2>1 DEF Walk, Skip, Skips, IsContext
  <2>2. CASE Refuse(r)
    BY <1>1, <2>2 DEF Walk, Refuse, Passes, Idles, Way, PCs, Over
  <2>3. CASE Inline(r) /\ Known(r) = {}
    <3>1. pc' = [pc EXCEPT ![r] = "slot"] /\ Way(r, "slot") /\ "slot" \in PCs
      BY <1>1, <2>3 DEF Walk, Inline, Way, IsContext, PCs
    <3> QED
      BY <1>1, <2>3, <3>1 DEF Walk, Inline, Passes, Idles
  <2>4. CASE Inline(r) /\ Known(r) # {}
    <3>1. PICK f \in Known(r) : f = CHOOSE g \in Known(r) : TRUE
      BY <2>4
    <3>2. PICK i \in DOMAIN refs[r] : f = refs[r][i] /\ files[f].content = Head(todo[r]).name
      BY DEF Known, ToSet
    <3>3. refs' = [refs EXCEPT ![r] = Append(refs[r], f)]
      BY <2>4, <3>1 DEF Inline
    <3>4. /\ pc[r] = "walk" /\ ~IsContext(r) /\ Decode(Head(todo[r])) # "none" /\ count[r] < MaxInline
          /\ todo' = [todo EXCEPT ![r] = Tail(todo[r])]
          /\ count' = [count EXCEPT ![r] = count[r] + 1]
          /\ UNCHANGED <<want, acct, pc, cache, inflight, files, now>>
      BY <1>1, <2>4 DEF Walk, Inline, IsContext
    <3> QED
      BY <3>2, <3>3, <3>4 DEF Repeats
  <2> QED
    BY <1>1, <2>1, <2>2, <2>3, <2>4 DEF Walk
<1>2. CASE Walked(r)
  BY <1>2 DEF Walked, Passes, Idles, Way, PCs, Over, IsContext
<1>3. CASE Ask(r)
  BY <1>3 DEF Ask, Passes, Idles, Way, PCs
<1>4. CASE Lookup(r)
  <2>1. CASE Fresh(r)
    BY <1>4, <2>1 DEF Lookup, Hits, Entry, Fresh
  <2>2. CASE ~Fresh(r)
    <3>1. /\ pc[r] = "lookup" /\ cache' = [cache EXCEPT ![Key(r)] = 0]
          /\ UNCHANGED <<want, acct, todo, count, refs, files, now>>
      BY <1>4, <2>2 DEF Lookup
    <3>2. cache[Key(r)] # 0 => ~(asked[r] < files[cache[Key(r)]].at + CacheTTL)
      BY <2>2 DEF Fresh, Entry
    <3>3. CASE inflight[Key(r)] # None
      BY <1>4, <2>2, <3>1, <3>2, <3>3 DEF Lookup, Follows, Misses
    <3>4. CASE inflight[Key(r)] = None
      BY <1>4, <2>2, <3>1, <3>2, <3>4 DEF Lookup, Leads, Misses
    <3> QED
      BY <3>3, <3>4
  <2> QED
    BY <2>1, <2>2
<1>5. CASE StopsFollowing(r)
  BY <1>5 DEF StopsFollowing, Passes, Idles, Way, PCs, Over
<1>6. CASE Acquire(r)
  BY <1>6 DEF Acquire, Passes, Idles, Way, PCs, Busy
<1>7. CASE Breaks(r)
  BY <1>7 DEF Breaks, Fails, Drops, Uploading, Busy
<1>8. CASE Pow(r)
  BY <1>8 DEF Pow, Passes, Idles, Way, PCs, Busy
<1>9. CASE Again(r)
  BY <1>9 DEF Again, Passes, Idles, Way, PCs, Busy
<1>10. CASE Discards(r)
  BY <1>10 DEF Discards, Fails, Drops, Uploading, Busy
<1>11. CASE Accepted(r)
  BY <1>11 DEF Accepted, Sends
<1>12. CASE Ready(r)
  BY <1>12 DEF Ready, Lands
<1>13. CASE NotReady(r)
  <2>1. CASE Fails(r, "failed")
    BY <1>13, <2>1 DEF NotReady, Fails, Drops, Uploading, Busy
  <2>2. CASE ~Fails(r, "failed")
    <3>1. Idles /\ UNCHANGED pc
      BY <1>13, <2>2 DEF NotReady, Idles
    <3>2. pc' = [pc EXCEPT ![r] = pc[r]]
      BY <1>0, <3>1
    <3> QED
      BY <1>0, <3>1, <3>2 DEF Passes, Way
  <2> QED
    BY <2>1, <2>2
<1>14. CASE Switch(r)
  BY <1>14 DEF Switch, Restarts
<1>15. CASE NoSwitch(r)
  BY <1>15 DEF NoSwitch, Passes, Idles, Way, PCs, Over
<1>16. CASE Leave(r)
  <2>1. pc' = [pc EXCEPT ![r] = pc[r]]
    BY <1>0, <1>16 DEF Leave
  <2> QED
    BY <1>0, <1>16, <2>1 DEF Leave, Passes, Idles, Way
<1> QED
  BY <1>1, <1>2, <1>3, <1>4, <1>5, <1>6, <1>7, <1>8, <1>9, <1>10, <1>11, <1>12, <1>13, <1>14, <1>15, <1>16 DEF Step

-----------------------------------------------------------------------------
(* The invariants, one by one *)

LEMMA NextTyped == Typed /\ PollsOwn /\ SlotsHeld /\ [Next]_vars => Typed'
<1> SUFFICES ASSUME Typed, PollsOwn, SlotsHeld, [Next]_vars PROVE Typed'
  OBVIOUS
<1> USE DEF PCs, Busy, Over, walk, lease, shared
<1>1. ASSUME NEW r \in Requests, Walk(r) PROVE Typed'
  <2>1. CASE Skip(r)
    <3>1. todo' \in [Requests -> Seq(Blocks)]
      BY <1>1, <2>1, HeadTyped, FunsTyped DEF Walk, Skip
    <3> QED
      BY <1>1, <2>1, <3>1 DEF Walk, Skip, Typed
  <2>2. CASE Refuse(r)
    BY <1>1, <2>2 DEF Walk, Refuse, Goto, Typed
  <2>3. CASE Inline(r)
    <3> DEFINE known == CHOOSE f \in Known(r) : TRUE
    <3>1. CASE Known(r) = {}
      <4>1. Goto(r, "slot") /\ UNCHANGED walk
        BY <2>3, <3>1 DEF Inline
      <4> QED
        BY <1>1, <4>1 DEF Walk, Goto, Typed
    <3>2. CASE Known(r) # {}
      <4>1. known \in Nat
        BY <3>2, RefsTyped DEF Known, ToSet
      <4>2. refs' = [refs EXCEPT ![r] = Append(refs[r], known)]
        BY <2>3, <3>2 DEF Inline
      <4>3. refs' \in [Requests -> Seq(Nat)]
        BY <4>1, <4>2, RefsTyped, FunsTyped
      <4>4. todo' \in [Requests -> Seq(Blocks)] /\ count' \in [Requests -> Nat]
        <5>1. Tail(todo[r]) \in Seq(Blocks)
          BY <1>1, HeadTyped DEF Walk
        <5>2. todo' = [todo EXCEPT ![r] = Tail(todo[r])] /\ count' = [count EXCEPT ![r] = count[r] + 1]
          BY <2>3, <3>2 DEF Inline
        <5> QED
          BY <5>1, <5>2, FunsTyped
      <4> QED
        BY <1>1, <2>3, <3>2, <4>3, <4>4 DEF Walk, Inline, Typed
    <3> QED
      BY <3>1, <3>2
  <2> QED
    BY <1>1, <2>1, <2>2, <2>3 DEF Walk
<1>2. ASSUME NEW r \in Requests, Walked(r) PROVE Typed'
  BY <1>2 DEF Walked, lease, walk, shared, Goto, Typed
<1>3. ASSUME NEW r \in Requests, Ask(r) PROVE Typed'
  BY <1>3 DEF Ask, lease, walk, shared, Goto, Typed
<1>4. ASSUME NEW r \in Requests, Lookup(r) PROVE Typed'
  <2>1. refs' \in [Requests -> Seq(Nat)]
    <3>1. Entry(r) \in Nat
      BY KeyTyped, FunsTyped DEF Entry
    <3>2. Append(refs[r], Entry(r)) \in Seq(Nat)
      BY <3>1, RefsTyped
    <3> QED
      BY <1>4, <3>2, FunsTyped DEF Lookup
  <2>2. cache' = cache \/ cache' = [cache EXCEPT ![Key(r)] = 0]
    BY <1>4 DEF Lookup
  <2>3. inflight' = inflight \/ inflight' = [inflight EXCEPT ![Key(r)] = r]
    BY <1>4 DEF Lookup
  <2>4. cache' \in [Keys -> Nat] /\ inflight' \in [Keys -> Requests \cup {None}]
    <3>1. Key(r) \in Keys
      BY KeyTyped
    <3>2. cache \in [Keys -> Nat] /\ inflight \in [Keys -> Requests \cup {None}]
      BY FunsTyped
    <3> QED
      BY <2>2, <2>3, <3>1, <3>2
  <2>5. \E q \in {"ready", "follow", "slot"} : Goto(r, q)
    BY <1>4 DEF Lookup
  <2>6. pc' \in [Requests -> PCs] /\ tries' \in [Requests -> Nat] /\ asked' \in [Requests -> Nat]
    BY <1>4, <2>5 DEF Lookup, Goto, Typed
  <2> QED
    BY <1>4, <2>1, <2>4, <2>6 DEF Lookup, Typed
<1>5. ASSUME NEW r \in Requests, StopsFollowing(r) PROVE Typed'
  BY <1>5 DEF StopsFollowing, lease, walk, shared, Goto, Typed
<1>6. ASSUME NEW r \in Requests, Acquire(r) PROVE Typed'
  BY <1>6 DEF Acquire, lease, walk, shared, Goto, Typed
<1>7. ASSUME NEW r \in Requests, Breaks(r) PROVE Typed'
  <2>1. Fails(r, "failed")
    BY <1>7 DEF Breaks
  <2>2. UNCHANGED tried
    BY <1>7 DEF Breaks
  <2> QED
    BY <2>1, <2>2, FailsTyped DEF Typed
<1>8. ASSUME NEW r \in Requests, Pow(r) PROVE Typed'
  BY <1>8 DEF Pow, lease, walk, shared, Goto, Typed
<1>9. ASSUME NEW r \in Requests, Again(r) PROVE Typed'
  BY <1>9 DEF Again, lease, walk, shared, Goto, Typed
<1>10. ASSUME NEW r \in Requests, Discards(r) PROVE Typed'
  <2>1. Fails(r, "discarded")
    BY <1>10 DEF Discards
  <2>2. tried' \in [Requests -> SUBSET Accounts]
    BY <1>10 DEF Discards, Typed
  <2> QED
    BY <2>1, <2>2, FailsTyped DEF Typed
<1>11. ASSUME NEW r \in Requests, Accepted(r) PROVE Typed'
  <2>1. files' \in Seq(File)
    BY <1>11, AcceptedFiles
  <2> QED
    BY <1>11, <2>1 DEF Accepted, Goto, Typed
<1>12. ASSUME NEW r \in Requests, Ready(r) PROVE Typed'
  <2> DEFINE f == Polled(r)
  <2>1. f \in DOMAIN files /\ Returns(r, f) /\ pc[r] = "poll"
    BY <1>12, PolledWaited DEF Ready
  <2> HIDE DEF f
  <2>2. files' \in Seq(File) /\ f \in Nat
    <3>1. files' \in Seq(File)
      BY <2>1, ReturnedFiles
    <3>2. f \in Nat
      BY <2>1, FilesTyped
    <3> QED
      BY <3>1, <3>2
  <2>3. refs' \in [Requests -> Seq(Nat)]
    <3>1. \A s \in Requests : Append(refs[s], f) \in Seq(Nat)
      BY <2>2, RefsTyped
    <3> QED
      BY <2>1, <3>1, FunsTyped DEF Returns
  <2>4. pc' \in [Requests -> PCs]
    BY <2>1 DEF Returns, Typed
  <2>5. cache' \in [Keys -> Nat] /\ inflight' \in [Keys -> Requests \cup {None}]
    BY <2>1, <2>2, KeyTyped, FunsTyped DEF Returns
  <2>6. todo' \in [Requests -> Seq(Blocks)] /\ count' \in [Requests -> Nat]
    <3>1. CASE IsContext(r)
      BY <2>1, <3>1, FunsTyped DEF Returns
    <3>2. CASE ~IsContext(r)
      <4>1. Tail(todo[r]) \in Seq(Blocks)
        BY <3>2, HeadTyped DEF IsContext
      <4>2. todo' = [todo EXCEPT ![r] = Tail(todo[r])] /\ count' = [count EXCEPT ![r] = count[r] + 1]
        BY <2>1, <3>2 DEF Returns
      <4> QED
        BY <4>1, <4>2, FunsTyped
    <3> QED
      BY <3>1, <3>2
  <2>7. slots' \in Nat
    <3>1. slots > 0
      BY <2>1, SlotFreed
    <3> QED
      BY <2>1, <3>1, FunsTyped DEF Returns, FreeSlot
  <2> QED
    BY <2>1, <2>2, <2>3, <2>4, <2>5, <2>6, <2>7 DEF Returns, Typed
<1>13. ASSUME NEW r \in Requests, NotReady(r) PROVE Typed'
  <2>1. CASE Fails(r, "failed") /\ UNCHANGED tried
    BY <2>1, FailsTyped DEF Typed
  <2>2. CASE ~(Fails(r, "failed") /\ UNCHANGED tried)
    <3>1. tries' \in [Requests -> Nat]
      <4>1. tries' = [tries EXCEPT ![r] = tries[r] + 1]
        BY <1>13, <2>2 DEF NotReady
      <4> QED
        BY <4>1 DEF Typed
    <3> QED
      BY <1>13, <2>2, <3>1 DEF NotReady, Typed
  <2> QED
    BY <2>1, <2>2
<1>14. ASSUME NEW r \in Requests, Switch(r) PROVE Typed'
  <2>1. acct' \in [Requests -> Accounts]
    BY <1>14 DEF Switch, Goto, Typed
  <2>2. todo' \in [Requests -> Seq(Blocks)] /\ refs' \in [Requests -> Seq(Nat)]
    BY <1>14, WantsTyped, EmptySeq DEF Switch, Goto, Typed
  <2> QED
    BY <1>14, <2>1, <2>2 DEF Switch, Goto, Typed
<1>15. ASSUME NEW r \in Requests, NoSwitch(r) PROVE Typed'
  BY <1>15 DEF NoSwitch, lease, walk, shared, Goto, Typed
<1>16. ASSUME NEW r \in Requests, Leave(r) PROVE Typed'
  BY <1>16 DEF Leave, lease, walk, shared, Goto, Typed
<1>17. CASE Tick
  BY <1>17, BoundsAssumption DEF Tick, Typed
<1>18. CASE UNCHANGED vars
  BY <1>18 DEF vars, Goto, Typed
<1> QED
  BY <1>1, <1>2, <1>3, <1>4, <1>5, <1>6, <1>7, <1>8, <1>9, <1>10, <1>11, <1>12, <1>13, <1>14, <1>15, <1>16, <1>17, <1>18 DEF Next, Step

LEMMA NextSlotsHeld == Typed /\ SlotsHeld /\ [Next]_vars => SlotsHeld'
<1> SUFFICES ASSUME Typed, SlotsHeld, [Next]_vars PROVE SlotsHeld'
  OBVIOUS
<1>1. ASSUME Holders' = Holders, slots' = slots PROVE SlotsHeld'
  BY <1>1 DEF SlotsHeld
<1>2. ASSUME NEW r \in Requests, pc[r] \in Busy, Holders' = Holders \ {r}, slots' = slots - 1
      PROVE  SlotsHeld'
  <2>1. slots > 0 /\ slots - 1 = Cardinality(Holders \ {r}) /\ slots \in Nat /\ Slots \in Nat
    BY <1>2, SlotFreed, FunsTyped, BoundsAssumption
  <2> QED
    BY <1>2, <2>1 DEF SlotsHeld
<1>3. ASSUME NEW r \in Requests, Acquire(r) PROVE SlotsHeld'
  <2>1. Holders' = Holders \cup {r} /\ r \notin Holders
    BY <1>3 DEF Acquire, Goto, Typed, Holders, Busy
  <2>2. IsFiniteSet(Holders)
    BY RequestsAssumption, FS_Subset DEF Holders
  <2>3. Cardinality(Holders') = Cardinality(Holders) + 1
    BY <2>1, <2>2, FS_AddElement
  <2>4. slots' = slots + 1 /\ slots < Slots /\ slots \in Nat /\ Slots \in Nat
    BY <1>3, FunsTyped, BoundsAssumption DEF Acquire
  <2> QED
    BY <2>3, <2>4 DEF SlotsHeld
<1>4. ASSUME NEW r \in Requests, NEW how \in {"failed", "discarded"}, Fails(r, how),
             pc[r] \in Uploading
      PROVE  SlotsHeld'
  <2>1. CASE pc[r] \in Busy
    <3>1. slots' = slots - 1
      BY <1>4, <2>1 DEF Fails, FreeSlot
    <3>2. Holders' = Holders \ {r}
      BY <1>4, <2>1 DEF Fails, Holders, Followers, Busy, Typed
    <3> QED
      BY <1>2, <2>1, <3>1, <3>2
  <2>2. CASE pc[r] = "slot"
    <3>1. slots' = slots
      BY <1>4, <2>2 DEF Fails, FreeSlot, Busy
    <3>2. Holders' = Holders
      BY <1>4, <2>2 DEF Fails, Holders, Followers, Busy, Typed
    <3> QED
      BY <1>1, <3>1, <3>2
  <2> QED
    BY <1>4, <2>1, <2>2 DEF Uploading
<1>5. ASSUME NEW r \in Requests, Breaks(r) \/ Discards(r) PROVE SlotsHeld'
  <2>1. pc[r] \in Uploading /\ \E how \in {"failed", "discarded"} : Fails(r, how)
    BY <1>5 DEF Breaks, Discards, Uploading, Busy
  <2> QED
    BY <1>4, <2>1
<1>6. ASSUME NEW r \in Requests, NotReady(r) PROVE SlotsHeld'
  <2>1. CASE Fails(r, "failed")
    BY <1>4, <1>6, <2>1 DEF NotReady, Uploading, Busy
  <2>2. CASE ~Fails(r, "failed")
    <3>1. UNCHANGED <<pc, slots>>
      BY <1>6, <2>2 DEF NotReady
    <3> QED
      BY <1>1, <3>1 DEF Holders
  <2> QED
    BY <2>1, <2>2
<1>7. ASSUME NEW r \in Requests, Ready(r) PROVE SlotsHeld'
  <2>1. pc[r] \in Busy /\ Returns(r, Polled(r))
    BY <1>7 DEF Ready, Busy
  <2>2. slots' = slots - 1
    BY <2>1 DEF Returns, FreeSlot
  <2>3. pc' = [s \in Requests |-> IF s \notin {r} \cup Followers(r) THEN pc[s]
                                  ELSE IF IsContext(r) THEN "ready" ELSE "walk"]
    BY <2>1 DEF Returns
  <2>4. Holders' = Holders \ {r}
    BY <2>1, <2>3 DEF Holders, Followers, Busy, Typed
  <2> QED
    BY <1>2, <2>1, <2>2, <2>4
<1>8. ASSUME NEW r \in Requests, Walk(r) \/ Walked(r) \/ Ask(r) \/ StopsFollowing(r) \/ Switch(r) \/ NoSwitch(r) \/ Leave(r)
      PROVE  SlotsHeld'
  <2>1. slots' = slots
    BY <1>8 DEF Walk, Walked, Ask, StopsFollowing, Switch, NoSwitch, Leave
  <2>2. Holders' = Holders
    BY <1>8 DEF Walk, Skip, Refuse, Inline, Walked, Ask, StopsFollowing, Switch, NoSwitch, Leave, Goto, Typed, Holders, Busy
  <2> QED
    BY <1>1, <2>1, <2>2
<1>9. ASSUME NEW r \in Requests, Lookup(r) PROVE SlotsHeld'
  <2>1. pc[r] = "lookup" /\ slots' = slots /\ \E q \in {"ready", "follow", "slot"} : pc' = [pc EXCEPT ![r] = q]
    BY <1>9 DEF Lookup, Goto
  <2>2. Holders' = Holders
    BY <2>1 DEF Typed, Holders, Busy
  <2> QED
    BY <1>1, <2>1, <2>2
<1>10. ASSUME NEW r \in Requests, Pow(r) \/ Again(r) \/ Accepted(r) PROVE SlotsHeld'
  <2>1. slots' = slots /\ Holders' = Holders
    BY <1>10 DEF Pow, Again, Accepted, Goto, Typed, Holders, Busy
  <2> QED
    BY <1>1, <2>1
<1>11. CASE Tick \/ UNCHANGED vars
  BY <1>1, <1>11 DEF Tick, vars, Holders
<1> QED
  BY <1>3, <1>5, <1>6, <1>7, <1>8, <1>9, <1>10, <1>11 DEF Next, Step

LEMMA WalksKept ==
    ASSUME Walks, NEW s \in Requests,
           UNCHANGED <<want[s], todo[s], count[s]>>,
           pc'[s] = pc[s] \/ pc'[s] \in {"refused", "failed", "discarded"}
    PROVE  WalksAt(s)'
<1>1. want'[s] = want[s] /\ todo'[s] = todo[s] /\ count'[s] = count[s] /\ WalksAt(s)
  BY DEF Walks
<1>2. CASE pc'[s] = pc[s]
  BY <1>1, <1>2 DEF WalksAt, IsContext
<1>3. CASE pc'[s] \in {"refused", "failed", "discarded"}
  <2>1. pc'[s] \notin {"ask", "lookup", "follow", "ready"} \cup Uploading
    BY <1>3 DEF Uploading, Busy
  <2> QED
    BY <1>1, <2>1 DEF WalksAt
<1> QED
  BY <1>2, <1>3

\* One block less to walk.
LEMMA WalkOn ==
    ASSUME Typed, NEW r \in Requests, WalksAt(r), todo[r] # <<>>, todo'[r] = Tail(todo[r])
    PROVE  LET blocks == want[r].blocks
               walked == Len(blocks) - Len(todo'[r])
           IN  /\ walked = Len(blocks) - Len(todo[r]) + 1 /\ walked \in Nat
               /\ \A i \in 1 .. Len(todo'[r]) : todo'[r][i] = blocks[walked + i]
<1> DEFINE n == Len(want[r].blocks)
           m == Len(todo[r])
<1>1. m \in Nat \ {0} /\ Len(todo'[r]) = m - 1 /\ \A i \in 1 .. m - 1 : todo'[r][i] = todo[r][i + 1]
  BY HeadTyped
<1>2. n \in Nat
  BY WantsTyped, LenProperties DEF Typed
<1>3. n - m \in Nat /\ \A i \in 1 .. m : todo[r][i] = want[r].blocks[(n - m) + i]
  BY DEF WalksAt
<1> HIDE DEF n, m
<1>4. n - (m - 1) = n - m + 1 /\ n - (m - 1) \in Nat
  BY <1>1, <1>2, <1>3
<1>5. ASSUME NEW i \in 1 .. m - 1 PROVE todo'[r][i] = want[r].blocks[n - (m - 1) + i]
  <2>1. todo'[r][i] = todo[r][i + 1] /\ i + 1 \in 1 .. m
    BY <1>1
  <2>2. (n - m) + (i + 1) = n - (m - 1) + i
    BY <1>1, <1>2
  <2> QED
    BY <1>3, <2>1, <2>2
<1> QED
  BY <1>1, <1>4, <1>5 DEF n, m

LEMMA KindsWalk ==
    ASSUME Typed, Walks, NEW r \in Requests,
           \/ Passes(r) \/ Skips(r) \/ Repeats(r) \/ Hits(r) \/ Follows(r) \/ Leads(r)
           \/ Drops(r) \/ Sends(r) \/ Lands(r) \/ Restarts(r)
    PROVE  Walks'
<1> SUFFICES ASSUME NEW s \in Requests PROVE WalksAt(s)'
  BY DEF Walks
<1>0. /\ pc \in [Requests -> PCs] /\ todo \in [Requests -> Seq(Blocks)] /\ count \in [Requests -> Nat]
      /\ WalksAt(r) /\ WalksAt(s) /\ MaxInline \in Nat \ {0}
  BY BoundsAssumption DEF Typed, Walks
<1>1. ASSUME Passes(r) PROVE WalksAt(s)'
  <2>1. PICK q \in PCs : pc' = [pc EXCEPT ![r] = q] /\ Way(r, q)
    BY <1>1 DEF Passes
  <2>2. UNCHANGED <<want, todo, count>>
    BY <1>1 DEF Passes, Idles
  <2>3. CASE s # r
    BY <1>0, <2>1, <2>2, <2>3, WalksKept
  <2>4. CASE s = r
    BY <1>0, <2>1, <2>2, <2>4 DEF Way, WalksAt, IsContext, Uploading, Busy
  <2> QED
    BY <2>3, <2>4
<1>2. ASSUME Skips(r) \/ Repeats(r) PROVE WalksAt(s)'
  <2>1. pc[r] = "walk" /\ todo[r] # <<>> /\ UNCHANGED <<want, pc>>
    BY <1>2 DEF Skips, Repeats, IsContext
  <2>2. /\ todo' = [todo EXCEPT ![r] = Tail(todo[r])]
        /\ count' = count \/ (count[r] < MaxInline /\ count' = [count EXCEPT ![r] = count[r] + 1])
    BY <1>2 DEF Skips, Repeats
  <2>3. CASE s # r
    BY <1>0, <2>1, <2>2, <2>3, WalksKept
  <2>4. CASE s = r
    <3>1. todo'[r] = Tail(todo[r])
      BY <1>0, <2>2
    <3>2. count'[r] <= MaxInline /\ pc'[r] = "walk" /\ want'[r] = want[r]
      BY <1>0, <2>1, <2>2 DEF WalksAt
    <3>4. LET blocks == want[r].blocks
              walked == Len(blocks) - Len(todo'[r])
          IN  walked \in Nat /\ \A i \in 1 .. Len(todo'[r]) : todo'[r][i] = blocks[walked + i]
      BY <1>0, <2>1, <3>1, WalkOn
    <3> QED
      BY <2>4, <3>2, <3>4 DEF WalksAt, Uploading, Busy
  <2> QED
    BY <2>3, <2>4
<1>3. ASSUME Hits(r) \/ Follows(r) \/ Leads(r) \/ Sends(r) PROVE WalksAt(s)'
  <2>1. UNCHANGED <<want, todo, count>>
    BY <1>3 DEF Hits, Follows, Leads, Misses, Sends
  <2>2. \/ pc[r] = "lookup" /\ \E q \in {"ready", "follow", "slot"} : pc' = [pc EXCEPT ![r] = q]
        \/ pc[r] = "post" /\ pc' = [pc EXCEPT ![r] = "poll"]
    BY <1>3 DEF Hits, Follows, Leads, Misses, Sends, Accepted
  <2>3. CASE s # r
    BY <1>0, <2>1, <2>2, <2>3, WalksKept
  <2>4. CASE s = r
    BY <1>0, <2>1, <2>2, <2>4 DEF WalksAt, IsContext, Uploading, Busy
  <2> QED
    BY <2>3, <2>4
<1>4. ASSUME Drops(r) PROVE WalksAt(s)'
  <2>1. UNCHANGED <<want, todo, count>> /\ (pc'[s] = pc[s] \/ pc'[s] \in {"refused", "failed", "discarded"})
    BY <1>4 DEF Drops
  <2> QED
    BY <2>1, WalksKept
<1>5. ASSUME Lands(r) PROVE WalksAt(s)'
  <2>1. /\ pc[r] = "poll" /\ UNCHANGED want
        /\ pc' = [t \in Requests |-> IF t \notin {r} \cup Followers(r) THEN pc[t]
                                     ELSE IF IsContext(r) THEN "ready" ELSE "walk"]
    BY <1>5 DEF Lands, Returns
  <2>2. CASE IsContext(r)
    <3>1. UNCHANGED <<todo, count>>
      BY <1>5, <2>2 DEF Lands, Returns
    <3>2. CASE s \notin {r} \cup Followers(r)
      BY <2>1, <3>1, <3>2, WalksKept
    <3>3. CASE s \in {r} \cup Followers(r)
      <4>1. pc'[s] = "ready" /\ IsContext(s)
        BY <1>0, <2>1, <2>2, <3>3 DEF Followers, WalksAt
      <4> QED
        BY <1>0, <2>1, <3>1, <4>1 DEF WalksAt, IsContext, Uploading, Busy
    <3> QED
      BY <3>2, <3>3
  <2>3. CASE ~IsContext(r)
    <3>1. todo' = [todo EXCEPT ![r] = Tail(todo[r])] /\ count' = [count EXCEPT ![r] = count[r] + 1]
      BY <1>5, <2>3 DEF Lands, Returns
    <3>2. Followers(r) = {} /\ todo[r] # <<>>
      BY <2>3 DEF Followers, IsContext
    <3>3. CASE s # r
      BY <1>0, <2>1, <3>1, <3>2, <3>3, WalksKept
    <3>4. CASE s = r
      <4>1. todo'[r] = Tail(todo[r])
        BY <1>0, <3>1
      <4>2. count'[r] <= MaxInline /\ pc'[r] = "walk" /\ want'[r] = want[r]
        <5>1. count[r] < MaxInline
          BY <1>0, <2>1, <2>3 DEF WalksAt, Uploading, Busy
        <5> QED
          BY <1>0, <2>1, <2>3, <3>1, <5>1
      <4>4. LET blocks == want[r].blocks
                walked == Len(blocks) - Len(todo'[r])
            IN  walked \in Nat /\ \A i \in 1 .. Len(todo'[r]) : todo'[r][i] = blocks[walked + i]
        BY <1>0, <3>2, <4>1, WalkOn
      <4> QED
        BY <3>4, <4>2, <4>4 DEF WalksAt, Uploading, Busy
    <3> QED
      BY <3>3, <3>4
  <2> QED
    BY <2>2, <2>3
<1>6. ASSUME Restarts(r) PROVE WalksAt(s)'
  <2>1. CASE s # r
    BY <1>0, <1>6, <2>1, WalksKept DEF Restarts
  <2>2. CASE s = r
    <3>1. todo'[r] = want[r].blocks /\ count'[r] = 0 /\ pc'[r] = "walk" /\ want' = want
      BY <1>0, <1>6 DEF Restarts
    <3>2. Len(want[r].blocks) \in Nat
      BY WantsTyped, LenProperties DEF Typed
    <3> QED
      BY <1>0, <2>2, <3>1, <3>2 DEF WalksAt, Uploading, Busy
  <2> QED
    BY <2>1, <2>2
<1> QED
  BY <1>1, <1>2, <1>3, <1>4, <1>5, <1>6

\* An upload that is over, whether it failed or not.
LEMMA LandsDo ==
    ASSUME NEW r \in Requests, Lands(r)
    PROVE  /\ pc[r] = "poll" /\ UNCHANGED <<want, acct, now>>
           /\ pc' = [s \in Requests |-> IF s \notin {r} \cup Followers(r) THEN pc[s]
                                        ELSE IF IsContext(r) THEN "ready" ELSE "walk"]
           /\ refs' = [s \in Requests |-> IF s \in {r} \cup Followers(r)
                                          THEN Append(refs[s], Polled(r)) ELSE refs[s]]
           /\ IsContext(r) => /\ inflight' = [inflight EXCEPT ![Key(r)] = None]
                              /\ cache' = [cache EXCEPT ![Key(r)] = Polled(r)]
                              /\ UNCHANGED <<todo, count>>
           /\ ~IsContext(r) => /\ todo' = [todo EXCEPT ![r] = Tail(todo[r])]
                               /\ count' = [count EXCEPT ![r] = count[r] + 1]
                               /\ UNCHANGED <<inflight, cache>>
BY DEF Lands, Returns, shared, lease

\* A request that leads no call does not disturb the others.
LEMMA LedKept ==
    ASSUME Led, NEW r \in Requests, UNCHANGED inflight,
           \A k \in Keys : inflight[k] # r /\ cache'[k] = cache[k],
           \A s \in Requests \ {r} : pc'[s] = pc[s] /\ IsContext(s)' = IsContext(s) /\ Key(s)' = Key(s),
           pc'[r] \notin Uploading \cup {"follow"}
    PROVE  Led'
<1>1. ASSUME NEW k \in Keys, NEW s \in Requests, inflight'[k] = s
      PROVE  pc'[s] \in Uploading /\ IsContext(s)' /\ Key(s)' = k /\ cache'[k] = 0
  BY <1>1 DEF Led
<1>2. ASSUME NEW s \in Requests, pc'[s] \in Uploading, IsContext(s)' PROVE inflight'[Key(s)'] = s
  BY <1>2 DEF Led
<1>3. ASSUME NEW s \in Requests, pc'[s] = "follow" PROVE inflight'[Key(s)'] # None
  BY <1>3 DEF Led
<1> QED
  BY <1>1, <1>2, <1>3 DEF Led

LEMMA KindsLed ==
    ASSUME Typed, Walks, Led, NEW r \in Requests,
           \/ Passes(r) \/ Skips(r) \/ Repeats(r) \/ Hits(r) \/ Follows(r) \/ Leads(r)
           \/ Drops(r) \/ Sends(r) \/ Lands(r) \/ Restarts(r)
    PROVE  Led'
<1>0. /\ pc \in [Requests -> PCs] /\ todo \in [Requests -> Seq(Blocks)] /\ acct \in [Requests -> Accounts]
      /\ inflight \in [Keys -> Requests \cup {None}] /\ cache \in [Keys -> Nat]
      /\ \A s \in Requests : WalksAt(s) /\ Key(s) \in Keys
      /\ None \notin Requests
  BY KeyTyped, NoneAssumption DEF Typed, Walks
<1>1. ASSUME Passes(r) PROVE Led'
  <2>1. PICK q \in PCs : pc' = [pc EXCEPT ![r] = q] /\ Way(r, q)
    BY <1>1 DEF Passes
  <2>2. UNCHANGED <<want, acct, todo, inflight, cache>>
    BY <1>1 DEF Passes, Idles
  <2>3. \A s \in Requests : IsContext(s)' = IsContext(s) /\ Key(s)' = Key(s)
    BY <2>2 DEF IsContext, Key
  <2>4. /\ q \in Uploading /\ IsContext(r) => pc[r] \in Uploading
        /\ pc[r] \in Uploading => q \in Uploading
        /\ q = "follow" => pc[r] = "follow"
    BY <2>1 DEF Way, Uploading, Busy
  <2> QED
    BY <1>0, <2>1, <2>2, <2>3, <2>4 DEF Led
<1>2. ASSUME Skips(r) \/ Repeats(r) \/ Hits(r) \/ Restarts(r) PROVE Led'
  <2>1. UNCHANGED <<want, inflight, cache>> /\ pc[r] \notin Uploading \cup {"follow"}
    BY <1>2 DEF Skips, Repeats, Hits, Restarts, Uploading, Busy
  <2>2. /\ \E q \in {"walk", "ready"} : pc' = [pc EXCEPT ![r] = q]
        /\ \A s \in Requests \ {r} : todo'[s] = todo[s] /\ acct'[s] = acct[s]
    BY <1>0, <1>2 DEF Skips, Repeats, Hits, Restarts
  <2>3. \A s \in Requests \ {r} : pc'[s] = pc[s] /\ IsContext(s)' = IsContext(s) /\ Key(s)' = Key(s)
    BY <1>0, <2>1, <2>2 DEF IsContext, Key
  <2>4. pc'[r] \notin Uploading \cup {"follow"}
    BY <1>0, <2>2 DEF Uploading, Busy
  <2>5. \A k \in Keys : inflight[k] # r
    BY <2>1 DEF Led
  <2> QED
    BY <2>1, <2>3, <2>4, <2>5, LedKept
<1>3. ASSUME Follows(r) \/ Leads(r) PROVE Led'
  <2>1. /\ pc[r] = "lookup" /\ cache' = [cache EXCEPT ![Key(r)] = 0] /\ UNCHANGED <<want, acct, todo>>
    BY <1>3 DEF Follows, Leads, Misses
  <2>2. \A s \in Requests : IsContext(s)' = IsContext(s) /\ Key(s)' = Key(s)
    BY <2>1 DEF IsContext, Key
  <2>3. CASE Follows(r)
    <3>1. inflight[Key(r)] # None /\ pc' = [pc EXCEPT ![r] = "follow"] /\ inflight' = inflight
      BY <2>3 DEF Follows
    <3> QED
      BY <1>0, <2>1, <2>2, <3>1 DEF Led, Uploading, Busy
  <2>4. CASE Leads(r)
    <3>1. inflight[Key(r)] = None /\ pc' = [pc EXCEPT ![r] = "slot"]
          /\ inflight' = [inflight EXCEPT ![Key(r)] = r]
      BY <2>4 DEF Leads
    <3>2. IsContext(r)
      BY <1>0, <2>1 DEF WalksAt
    <3> QED
      BY <1>0, <2>1, <2>2, <3>1, <3>2 DEF Led, Uploading, Busy
  <2> QED
    BY <1>3, <2>3, <2>4
<1>4. ASSUME Sends(r) PROVE Led'
  <2>1. pc[r] = "post" /\ pc' = [pc EXCEPT ![r] = "poll"] /\ UNCHANGED <<want, acct, todo, inflight, cache>>
    BY <1>4 DEF Sends, Accepted
  <2>2. \A s \in Requests : IsContext(s)' = IsContext(s) /\ Key(s)' = Key(s)
    BY <2>1 DEF IsContext, Key
  <2> QED
    BY <1>0, <2>1, <2>2 DEF Led, Uploading, Busy
<1>5. ASSUME Drops(r) \/ Lands(r) PROVE Led'
  <2>1. pc[r] \in Uploading /\ UNCHANGED <<want, acct>>
    BY <1>5, LandsDo DEF Drops, Uploading, Busy
  <2>2. inflight' = IF IsContext(r) THEN [inflight EXCEPT ![Key(r)] = None] ELSE inflight
    BY <1>5, LandsDo DEF Drops
  <2>3. \A k \in Keys : k # Key(r) \/ ~IsContext(r) => cache'[k] = cache[k]
    <3>1. CASE Drops(r)
      BY <3>1 DEF Drops
    <3>2. CASE Lands(r)
      BY <1>0, <3>2, LandsDo
    <3> QED
      BY <1>5, <3>1, <3>2
  <2>4. /\ \A s \in Requests \ ({r} \cup Followers(r)) : pc'[s] = pc[s]
        /\ \A s \in {r} \cup Followers(r) : pc'[s] \notin Uploading \cup {"follow"}
    BY <1>0, <1>5, LandsDo DEF Drops, Uploading, Busy, Followers
  <2>5. /\ \A s \in Requests \ {r} : todo'[s] = todo[s]
        /\ \A s \in Requests : Key(s)' = Key(s)
        /\ \A s \in Requests \ {r} : IsContext(s)' = IsContext(s)
    BY <1>0, <1>5, <2>1, LandsDo DEF Drops, IsContext, Key
  <2>6. \A s \in Followers(r) : pc[s] = "follow"
    BY DEF Followers
  <2>7. CASE IsContext(r)
    <3>1. inflight[Key(r)] = r
      BY <2>1, <2>7 DEF Led
    <3>2. \A s \in Requests : pc[s] = "follow" /\ Key(s) = Key(r) => s \in Followers(r)
      BY <2>7 DEF Followers
    <3>3. ASSUME NEW k \in Keys, NEW s \in Requests, inflight'[k] = s
          PROVE  pc'[s] \in Uploading /\ IsContext(s)' /\ Key(s)' = k /\ cache'[k] = 0
      <4>1. k # Key(r) /\ inflight[k] = s
        BY <1>0, <2>2, <2>7, <3>3
      <4>2. pc[s] \in Uploading /\ IsContext(s) /\ Key(s) = k /\ cache[k] = 0 /\ s # r
        BY <4>1 DEF Led
      <4>3. s \notin Followers(r)
        BY <2>6, <4>2 DEF Uploading, Busy
      <4> QED
        BY <2>3, <2>4, <2>5, <4>1, <4>2, <4>3
    <3>4. ASSUME NEW s \in Requests, pc'[s] \in Uploading, IsContext(s)' PROVE inflight'[Key(s)'] = s
      <4>1. s # r /\ s \notin Followers(r) /\ pc[s] \in Uploading /\ IsContext(s)
        BY <2>4, <2>5, <3>4
      <4>2. inflight[Key(s)] = s
        BY <4>1 DEF Led
      <4> QED
        BY <1>0, <2>2, <2>5, <2>7, <3>1, <4>1, <4>2
    <3>5. ASSUME NEW s \in Requests, pc'[s] = "follow" PROVE inflight'[Key(s)'] # None
      <4>1. s # r /\ s \notin Followers(r) /\ pc[s] = "follow"
        BY <2>4, <3>5
      <4>2. Key(s) # Key(r) /\ inflight[Key(s)] # None
        BY <3>2, <4>1 DEF Led
      <4> QED
        BY <1>0, <2>2, <2>5, <2>7, <4>2
    <3> QED
      BY <1>0, <3>3, <3>4, <3>5 DEF Led
  <2>8. CASE ~IsContext(r)
    <3>1. Followers(r) = {} /\ inflight' = inflight
      BY <2>2, <2>8 DEF Followers
    <3>2. \A k \in Keys : inflight[k] # r
      BY <1>0, <2>8 DEF Led
    <3> QED
      <4>1. \A s \in Requests \ {r} : pc'[s] = pc[s] /\ IsContext(s)' = IsContext(s) /\ Key(s)' = Key(s)
        BY <2>4, <2>5, <3>1
      <4>2. pc'[r] \notin Uploading \cup {"follow"} /\ \A k \in Keys : cache'[k] = cache[k]
        BY <2>3, <2>4, <2>8
      <4> QED
        BY <3>1, <3>2, <4>1, <4>2, LedKept
  <2> QED
    BY <2>7, <2>8
<1> QED
  BY <1>1, <1>2, <1>3, <1>4, <1>5

LEMMA SendsFile ==
    ASSUME Typed, NEW r \in Requests, Sends(r)
    PROVE  /\ DOMAIN files' = 1 .. Len(files) + 1 /\ Len(files') = Len(files) + 1
           /\ DOMAIN files = 1 .. Len(files) /\ Len(files) \in Nat
           /\ \A f \in DOMAIN files : f \in DOMAIN files' /\ files'[f] = files[f]
           /\ files'[Len(files) + 1] = [acct |-> acct[r], content |-> Wanted(r), by |-> r, at |-> None]
           /\ files'[Len(files) + 1].at = None
           /\ \A f \in DOMAIN files' : f \in DOMAIN files \/ f = Len(files) + 1
<1>1. DOMAIN files = 1 .. Len(files) /\ Len(files) \in Nat
  BY FilesTyped
<1>2. /\ DOMAIN files' = 1 .. Len(files) + 1 /\ Len(files') = Len(files) + 1
      /\ \A f \in DOMAIN files : files'[f] = files[f]
      /\ files'[Len(files) + 1] = [acct |-> acct[r], content |-> Wanted(r), by |-> r, at |-> None]
  BY AcceptedFiles DEF Sends
<1>3. /\ \A f \in 1 .. Len(files) : f \in 1 .. Len(files) + 1
      /\ \A f \in 1 .. Len(files) + 1 : f \in 1 .. Len(files) \/ f = Len(files) + 1
  BY <1>1
<1>4. files'[Len(files) + 1].at = None
  BY <1>2
<1> QED
  BY <1>1, <1>2, <1>3, <1>4

\* What DeepSeek has accepted stays as it is, once it is processed.
LEMMA FilesGrow ==
    ASSUME Typed, PollsOwn, NEW r \in Requests,
           \/ Passes(r) \/ Skips(r) \/ Repeats(r) \/ Hits(r) \/ Follows(r) \/ Leads(r)
           \/ Drops(r) \/ Sends(r) \/ Lands(r) \/ Restarts(r)
    PROVE  /\ \A f \in DOMAIN files :
                 /\ f \in DOMAIN files'
                 /\ files'[f].acct = files[f].acct /\ files'[f].content = files[f].content
                 /\ files'[f].by = files[f].by
                 /\ files[f].at # None => files'[f] = files[f]
           /\ ~Sends(r) => Len(files') = Len(files) /\ DOMAIN files' = DOMAIN files
           /\ ~Sends(r) /\ ~Lands(r) => files' = files
<1>1. CASE Sends(r)
  BY <1>1, SendsFile
<1>2. CASE Lands(r)
  <2>1. Polled(r) \in DOMAIN files /\ files[Polled(r)].at = None /\ Returns(r, Polled(r))
    BY <1>2, PolledWaited DEF Lands, Waited
  <2>2. /\ DOMAIN files' = DOMAIN files /\ Len(files') = Len(files)
        /\ files'[Polled(r)] = [files[Polled(r)] EXCEPT !.at = now]
        /\ \A g \in DOMAIN files : g # Polled(r) => files'[g] = files[g]
    BY <2>1, ReturnedFiles
  <2>3. files[Polled(r)] \in File
    BY <2>1, FilesTyped
  <2>4. /\ files'[Polled(r)].acct = files[Polled(r)].acct
        /\ files'[Polled(r)].content = files[Polled(r)].content
        /\ files'[Polled(r)].by = files[Polled(r)].by
    BY <2>2, <2>3 DEF File
  <2> QED
    BY <1>2, <2>1, <2>2, <2>4 DEF Lands, Sends, Accepted
<1>3. CASE ~Sends(r) /\ ~Lands(r)
  <2>1. files' = files
    BY <1>3 DEF Passes, Idles, Skips, Repeats, Hits, Follows, Leads, Misses, Drops, Restarts
  <2> QED
    BY <1>3, <2>1
<1> QED
  BY <1>1, <1>2, <1>3

\* The file of an upload that is over.
LEMMA LandsFile ==
    ASSUME Typed, PollsOwn, NEW r \in Requests, Lands(r)
    PROVE  /\ Polled(r) \in DOMAIN files /\ Polled(r) \in Nat \ {0} /\ Waited(r, Polled(r))
           /\ files'[Polled(r)].acct = acct[r] /\ files'[Polled(r)].content = Wanted(r)
           /\ files'[Polled(r)].at = now /\ now # None
           /\ \A g \in DOMAIN files : g # Polled(r) => files'[g] = files[g]
<1>1. Polled(r) \in DOMAIN files /\ Waited(r, Polled(r)) /\ Returns(r, Polled(r))
  BY PolledWaited DEF Lands
<1>2. /\ files'[Polled(r)] = [files[Polled(r)] EXCEPT !.at = now]
      /\ \A g \in DOMAIN files : g # Polled(r) => files'[g] = files[g]
  BY <1>1, ReturnedFiles
<1>3. files[Polled(r)] \in File /\ Polled(r) \in Nat \ {0}
  BY <1>1, FilesTyped
<1>4. now # None
  BY FunsTyped, NoneAssumption
<1> QED
  BY <1>1, <1>2, <1>3, <1>4 DEF File, Waited

LEMMA KindsCached ==
    ASSUME Typed, PollsOwn, Cached, NEW r \in Requests,
           \/ Passes(r) \/ Skips(r) \/ Repeats(r) \/ Hits(r) \/ Follows(r) \/ Leads(r)
           \/ Drops(r) \/ Sends(r) \/ Lands(r) \/ Restarts(r)
    PROVE  Cached'
<1> SUFFICES ASSUME NEW k \in Keys, cache'[k] # 0
             PROVE  /\ cache'[k] \in DOMAIN files'
                    /\ files'[cache'[k]].acct = k[1] /\ files'[cache'[k]].content = k[2]
                    /\ files'[cache'[k]].at # None
  BY DEF Cached
<1>1. CASE cache'[k] = cache[k]
  BY <1>1, FilesGrow DEF Cached
<1>2. CASE cache'[k] # cache[k]
  <2>1. cache \in [Keys -> Nat] /\ Key(r) \in Keys
    BY FunsTyped, KeyTyped
  <2>2. Lands(r) /\ IsContext(r) /\ k = Key(r) /\ cache'[k] = Polled(r)
    <3>1. CASE Follows(r) \/ Leads(r)
      BY <1>2, <2>1, <3>1 DEF Follows, Leads, Misses
    <3>2. CASE Lands(r)
      BY <1>2, <2>1, <3>2, LandsDo
    <3>3. CASE ~Follows(r) /\ ~Leads(r) /\ ~Lands(r)
      BY <1>2, <3>3 DEF Passes, Idles, Skips, Repeats, Hits, Drops, Sends, Restarts
    <3> QED
      BY <3>1, <3>2, <3>3
  <2>3. Polled(r) \in DOMAIN files' /\ files'[Polled(r)].at # None
        /\ files'[Polled(r)].acct = acct[r] /\ files'[Polled(r)].content = want[r].context
    BY <2>2, LandsFile, FilesGrow, WantedTyped
  <2> QED
    BY <2>2, <2>3 DEF Key
<1> QED
  BY <1>1, <1>2

LEMMA KindsPollsOwn ==
    ASSUME Typed, Walks, Led, PollsOwn, NEW r \in Requests,
           \/ Passes(r) \/ Skips(r) \/ Repeats(r) \/ Hits(r) \/ Follows(r) \/ Leads(r)
           \/ Drops(r) \/ Sends(r) \/ Lands(r) \/ Restarts(r)
    PROVE  PollsOwn'
<1> SUFFICES ASSUME NEW s \in Requests, pc'[s] = "poll"
             PROVE  \E f \in DOMAIN files' : Waited(s, f)'
  BY DEF PollsOwn
<1>0. /\ pc \in [Requests -> PCs] /\ todo \in [Requests -> Seq(Blocks)] /\ acct \in [Requests -> Accounts]
  BY DEF Typed
<1>1. CASE s = r /\ Sends(r)
  <2>1. /\ DOMAIN files' = 1 .. Len(files) + 1 /\ Len(files') = Len(files) + 1 /\ Len(files) \in Nat
        /\ files'[Len(files) + 1] = [acct |-> acct[r], content |-> Wanted(r), by |-> r, at |-> None]
    BY <1>1, SendsFile
  <2>2. acct' = acct /\ Wanted(r)' = Wanted(r)
    BY <1>1 DEF Sends, Wanted, IsContext
  <2>3. PICK n \in Nat : n = Len(files) + 1
    BY <2>1
  <2>4. Waited(r, n)'
    BY <2>1, <2>2, <2>3 DEF Waited
  <2> QED
    BY <1>1, <2>1, <2>3, <2>4
<1>2. CASE s # r \/ ~Sends(r)
  <2>1. pc[s] = "poll" /\ (s = r => Passes(r))
    <3>1. CASE Passes(r)
      BY <1>0, <3>1 DEF Passes, Way
    <3>2. CASE ~Passes(r)
      BY <1>0, <1>2, <3>2, LandsDo DEF Skips, Repeats, Hits, Follows, Leads, Misses, Drops, Sends, Restarts, Followers
    <3> QED
      BY <3>1, <3>2
  <2>2. PICK f \in DOMAIN files : Waited(s, f)
    BY <2>1 DEF PollsOwn
  <2>3. acct'[s] = acct[s] /\ want' = want /\ todo'[s] = todo[s]
    BY <1>0, <2>1, LandsDo DEF Passes, Idles, Skips, Repeats, Hits, Follows, Leads, Misses, Drops, Sends, Restarts
  <2>4. Wanted(s)' = Wanted(s) /\ IsContext(s)' = IsContext(s) /\ Key(s)' = Key(s)
    BY <2>3 DEF Wanted, IsContext, Key
  <2>5. CASE ~Sends(r) /\ ~Lands(r)
    <3>1. files' = files
      BY <2>5, FilesGrow
    <3> QED
      BY <2>2, <2>3, <2>4, <3>1 DEF Waited
  <2>6. CASE Lands(r)
    <3>1. r # s
      BY <2>1, <2>6, LandsDo, <1>0 DEF Passes, Idles, Lands, Returns
    <3>2. Polled(r) # f
      BY <2>2, <2>6, <3>1, LandsFile DEF Waited
    <3>3. files'[f] = files[f] /\ Len(files') = Len(files) /\ DOMAIN files' = DOMAIN files
      BY <2>6, <3>2, LandsFile, FilesGrow DEF Sends, Lands, Accepted
    <3>4. \A g \in f + 1 .. Len(files) : /\ files'[g].acct = files[g].acct
                                         /\ files'[g].content = files[g].content
                                         /\ files'[g].by = files[g].by
      BY FilesGrow, FilesTyped
    <3>5. Waited(s, f)'
      BY <2>2, <2>3, <2>4, <3>3, <3>4 DEF Waited
    <3> QED
      BY <3>3, <3>5
  <2>7. CASE Sends(r)
    <3>1. /\ DOMAIN files' = 1 .. Len(files) + 1 /\ Len(files') = Len(files) + 1
          /\ Len(files) \in Nat /\ DOMAIN files = 1 .. Len(files)
          /\ \A g \in DOMAIN files : files'[g] = files[g]
          /\ files'[Len(files) + 1] = [acct |-> acct[r], content |-> Wanted(r), by |-> r, at |-> None]
      BY <2>7, SendsFile
    <3>2. r # s
      BY <1>2, <2>7
    <3>3. IsContext(s) => <<acct[r], Wanted(r)>> # Key(s)
      <4>1. SUFFICES ASSUME IsContext(s), <<acct[r], Wanted(r)>> = Key(s) PROVE FALSE
        OBVIOUS
      <4>2. inflight[Key(s)] = s
        BY <2>1, <4>1 DEF Led, Uploading, Busy
      <4>3. CASE IsContext(r)
        <5>1. inflight[Key(r)] = r
          BY <2>7, <4>3 DEF Led, Uploading, Busy, Sends, Accepted
        <5>2. Key(r) = Key(s)
          BY <4>1, <4>3, WantedTyped DEF Key
        <5> QED
          BY <3>2, <4>2, <5>1, <5>2
      <4>4. CASE ~IsContext(r)
        <5>1. Wanted(r) \notin Contexts /\ want[s].context \in Contexts
          BY <4>4, WantedTyped, KeyTyped
        <5> QED
          BY <4>1, <5>1 DEF Key
      <4> QED
        BY <4>3, <4>4
    <3>4. \A g \in f + 1 .. Len(files') : g \in f + 1 .. Len(files) \/ g = Len(files) + 1
      BY <3>1
    <3>5. Waited(s, f)'
      BY <2>2, <2>3, <2>4, <3>1, <3>2, <3>3, <3>4 DEF Waited
    <3> QED
      BY <3>1, <3>5
  <2> QED
    BY <2>5, <2>6, <2>7
<1> QED
  BY <1>1, <1>2

LEMMA KindsRefsOwn ==
    ASSUME Typed, PollsOwn, Cached, RefsOwn, NEW r \in Requests,
           \/ Passes(r) \/ Skips(r) \/ Repeats(r) \/ Hits(r) \/ Follows(r) \/ Leads(r)
           \/ Drops(r) \/ Sends(r) \/ Lands(r) \/ Restarts(r)
    PROVE  RefsOwn'
<1> DEFINE Own(s, f) == f \in DOMAIN files /\ files[f].acct = acct[s] /\ files[f].at # None
<1> SUFFICES ASSUME NEW s \in Requests, NEW i \in DOMAIN refs'[s]
             PROVE  /\ refs'[s][i] \in DOMAIN files'
                    /\ files'[refs'[s][i]].acct = acct'[s] /\ files'[refs'[s][i]].at # None
  BY DEF RefsOwn
<1>0. acct \in [Requests -> Accounts] /\ refs \in [Requests -> Seq(Nat)] /\ Key(r) \in Keys /\ cache \in [Keys -> Nat]
  BY FunsTyped, KeyTyped DEF Typed
<1>1. ASSUME NEW f \in DOMAIN files, Own(s, f), refs'[s][i] = f, acct'[s] = acct[s]
      PROVE  /\ refs'[s][i] \in DOMAIN files'
             /\ files'[refs'[s][i]].acct = acct'[s] /\ files'[refs'[s][i]].at # None
  BY <1>1, FilesGrow
<1>2. CASE acct'[s] = acct[s] /\ refs'[s] = refs[s]
  BY <1>1, <1>2 DEF RefsOwn
<1>3. ASSUME NEW f \in Nat, acct'[s] = acct[s], refs'[s] = Append(refs[s], f), Own(s, f)
      PROVE  /\ refs'[s][i] \in DOMAIN files'
             /\ files'[refs'[s][i]].acct = acct'[s] /\ files'[refs'[s][i]].at # None
  <2>1. (i \in DOMAIN refs[s] /\ refs'[s][i] = refs[s][i]) \/ refs'[s][i] = f
    BY <1>3, RefsTyped
  <2> QED
    BY <1>1, <1>3, <2>1 DEF RefsOwn
<1>4. CASE Restarts(r)
  <2>1. s # r
    BY <1>0, <1>4 DEF Restarts
  <2> QED
    BY <1>0, <1>2, <1>4, <2>1 DEF Restarts
<1>5. CASE Hits(r)
  <2>1. CASE s # r
    BY <1>0, <1>2, <1>5, <2>1 DEF Hits
  <2>2. CASE s = r
    <3>1. Own(r, cache[Key(r)]) /\ cache[Key(r)] \in Nat
      BY <1>0, <1>5 DEF Hits, Cached, Key
    <3>2. acct'[s] = acct[s] /\ refs'[s] = Append(refs[s], cache[Key(r)])
      BY <1>0, <1>5, <2>2 DEF Hits
    <3> QED
      BY <1>3, <2>2, <3>1, <3>2
  <2> QED
    BY <2>1, <2>2
<1>6. CASE Repeats(r)
  <2>1. CASE s # r
    BY <1>0, <1>2, <1>6, <2>1 DEF Repeats
  <2>2. CASE s = r
    <3>1. PICK j \in DOMAIN refs[r] : refs' = [refs EXCEPT ![r] = Append(refs[r], refs[r][j])]
      BY <1>6 DEF Repeats
    <3>2. Own(r, refs[r][j]) /\ refs[r][j] \in Nat
      BY RefsTyped DEF RefsOwn
    <3>3. acct'[s] = acct[s] /\ refs'[s] = Append(refs[s], refs[r][j])
      BY <1>0, <1>6, <2>2, <3>1 DEF Repeats
    <3> QED
      BY <1>3, <2>2, <3>2, <3>3
  <2> QED
    BY <2>1, <2>2
<1>7. CASE Lands(r)
  <2>1. acct' = acct
    BY <1>7, LandsDo
  <2>2. CASE s \notin {r} \cup Followers(r)
    BY <1>2, <1>7, <2>1, <2>2, LandsDo
  <2>3. CASE s \in {r} \cup Followers(r)
    <3>1. acct[s] = acct[r]
      BY <2>3 DEF Followers, Key
    <3>2. refs'[s] = Append(refs[s], Polled(r)) /\ Polled(r) \in Nat
      BY <1>7, <2>3, LandsDo, LandsFile
    <3>3. (i \in DOMAIN refs[s] /\ refs'[s][i] = refs[s][i]) \/ refs'[s][i] = Polled(r)
      BY <3>2, RefsTyped
    <3>4. CASE i \in DOMAIN refs[s] /\ refs'[s][i] = refs[s][i]
      BY <1>1, <2>1, <3>4 DEF RefsOwn
    <3>5. CASE refs'[s][i] = Polled(r)
      BY <1>7, <2>1, <3>1, <3>5, LandsFile, FilesGrow
    <3> QED
      BY <3>3, <3>4, <3>5
  <2> QED
    BY <2>2, <2>3
<1>8. CASE Passes(r) \/ Skips(r) \/ Follows(r) \/ Leads(r) \/ Drops(r) \/ Sends(r)
  BY <1>2, <1>8 DEF Passes, Idles, Skips, Follows, Leads, Misses, Drops, Sends
<1> QED
  BY <1>4, <1>5, <1>6, <1>7, <1>8

LEMMA KindsExpired ==
    ASSUME Typed, PollsOwn, Led, AskedBefore, Expired, NEW r \in Requests,
           \/ Passes(r) \/ Skips(r) \/ Repeats(r) \/ Hits(r) \/ Follows(r) \/ Leads(r)
           \/ Drops(r) \/ Sends(r) \/ Lands(r) \/ Restarts(r)
    PROVE  Expired'
<1> SUFFICES ASSUME NEW f \in DOMAIN files', files'[f].at # None, files'[f].content \in Contexts
             PROVE  \/ cache'[<<files'[f].acct, files'[f].content>>] = f
                    \/ now' >= files'[f].at + CacheTTL
  BY DEF Expired, Contexts
<1>0. /\ cache \in [Keys -> Nat] /\ Key(r) \in Keys /\ now \in Nat /\ now' = now /\ CacheTTL \in Nat
      /\ asked \in [Requests -> Nat]
  BY FunsTyped, KeyTyped, BoundsAssumption, LandsDo DEF Typed, Passes, Idles, Skips, Repeats, Hits,
     Follows, Leads, Misses, Drops, Sends, Restarts
<1>1. CASE Sends(r)
  <2>1. f \in DOMAIN files /\ files'[f] = files[f] /\ cache' = cache
    <3>1. f # Len(files) + 1
      BY <1>1, SendsFile
    <3> QED
      <4>1. f \in DOMAIN files /\ files'[f] = files[f]
        BY <1>1, <3>1, SendsFile
      <4> QED
        BY <1>1, <4>1 DEF Sends
  <2> QED
    BY <1>0, <2>1 DEF Expired
<1>2. CASE Lands(r)
  <2>1. CASE f = Polled(r)
    <3>1. files'[f].acct = acct[r] /\ files'[f].content = Wanted(r)
      BY <1>2, <2>1, LandsFile
    <3>2. IsContext(r) /\ Wanted(r) = want[r].context
      BY <3>1, WantedTyped
    <3>3. cache'[Key(r)] = f
      BY <1>0, <1>2, <2>1, <3>2, LandsDo
    <3> QED
      BY <3>1, <3>2, <3>3 DEF Key
  <2>2. CASE f # Polled(r)
    <3>1. f \in DOMAIN files /\ files'[f] = files[f]
      BY <1>2, <2>2, LandsFile, FilesGrow DEF Sends, Lands, Accepted
    <3>2. \/ cache[<<files[f].acct, files[f].content>>] = f
          \/ now >= files[f].at + CacheTTL
      BY <3>1 DEF Expired
    <3>3. CASE cache[<<files[f].acct, files[f].content>>] = f
      <4>1. f # 0 /\ <<files[f].acct, files[f].content>> \in Keys
        BY <3>1, FilesTyped DEF File, Keys, Contexts
      <4>2. IsContext(r) => cache[Key(r)] = 0
        BY <1>0, <1>2 DEF Led, Lands, Uploading, Busy
      <4>3. cache'[<<files[f].acct, files[f].content>>] = f
        BY <1>0, <1>2, <3>3, <4>1, <4>2, LandsDo
      <4> QED
        BY <3>1, <4>3
    <3> QED
      BY <1>0, <3>1, <3>2, <3>3
  <2> QED
    BY <2>1, <2>2
<1>3. CASE Follows(r) \/ Leads(r)
  <2>1. /\ files' = files /\ cache' = [cache EXCEPT ![Key(r)] = 0]
        /\ cache[Key(r)] # 0 => ~(asked[r] < files[cache[Key(r)]].at + CacheTTL)
    BY <1>3 DEF Follows, Leads, Misses
  <2>2. \/ cache[<<files[f].acct, files[f].content>>] = f
        \/ now >= files[f].at + CacheTTL
    BY <2>1 DEF Expired
  <2>3. CASE cache[<<files[f].acct, files[f].content>>] = f
    <3>1. f \in Nat \ {0} /\ files[f].at \in Nat /\ <<files[f].acct, files[f].content>> \in Keys
      BY <2>1, FilesTyped DEF File, Keys, Contexts
    <3>2. CASE Key(r) = <<files[f].acct, files[f].content>>
      <4>1. asked[r] >= files[f].at + CacheTTL /\ asked[r] <= now /\ asked[r] \in Nat
        BY <1>0, <2>1, <2>3, <3>1, <3>2 DEF AskedBefore
      <4> QED
        BY <1>0, <2>1, <3>1, <4>1
    <3>3. CASE Key(r) # <<files[f].acct, files[f].content>>
      BY <1>0, <2>1, <2>3, <3>1, <3>3
    <3> QED
      BY <3>2, <3>3
  <2> QED
    BY <1>0, <2>1, <2>2, <2>3
<1>4. CASE Passes(r) \/ Skips(r) \/ Repeats(r) \/ Hits(r) \/ Drops(r) \/ Restarts(r)
  <2>1. files' = files /\ cache' = cache
    BY <1>4 DEF Passes, Idles, Skips, Repeats, Hits, Drops, Restarts
  <2> QED
    BY <1>0, <2>1 DEF Expired
<1> QED
  BY <1>1, <1>2, <1>3, <1>4

LEMMA KindsApart ==
    ASSUME Typed, PollsOwn, Led, Expired, Apart, NEW r \in Requests,
           \/ Passes(r) \/ Skips(r) \/ Repeats(r) \/ Hits(r) \/ Follows(r) \/ Leads(r)
           \/ Drops(r) \/ Sends(r) \/ Lands(r) \/ Restarts(r)
    PROVE  Apart'
<1> SUFFICES ASSUME NEW f \in DOMAIN files', NEW g \in DOMAIN files', f < g,
                    files'[f].acct = files'[g].acct, files'[f].content = files'[g].content,
                    files'[g].content \in Contexts, files'[f].at # None
             PROVE  files'[g].at = None \/ files'[g].at >= files'[f].at + CacheTTL
  BY DEF Apart, Contexts
<1>1. CASE Sends(r)
  <2>1. /\ DOMAIN files' = 1 .. Len(files) + 1 /\ Len(files) \in Nat /\ DOMAIN files = 1 .. Len(files)
        /\ \A h \in DOMAIN files : files'[h] = files[h]
        /\ files'[Len(files) + 1].at = None
    BY <1>1, SendsFile
  <2>2. CASE g = Len(files) + 1
    BY <2>1, <2>2
  <2>3. CASE g # Len(files) + 1
    <3>1. f \in DOMAIN files /\ g \in DOMAIN files
      BY <2>1, <2>3
    <3> QED
      BY <2>1, <3>1 DEF Apart
  <2> QED
    BY <2>2, <2>3
<1>2. CASE Lands(r)
  <2>0. f \in DOMAIN files /\ g \in DOMAIN files /\ Polled(r) \in DOMAIN files /\ DOMAIN files = 1 .. Len(files) /\ Len(files) \in Nat
    BY <1>2, LandsFile, FilesGrow, FilesTyped DEF Sends, Lands, Accepted
  <2>1. CASE f # Polled(r) /\ g # Polled(r)
    <3>1. files'[f] = files[f] /\ files'[g] = files[g]
      BY <1>2, <2>0, <2>1, LandsFile
    <3> QED
      BY <2>0, <3>1 DEF Apart
  <2>2. CASE f = Polled(r) \/ g = Polled(r)
    <3>1. IsContext(r) /\ Key(r) = <<acct[r], files'[g].content>>
      BY <1>2, <2>2, LandsFile, WantedTyped DEF Key
    <3>2. CASE f = Polled(r)
      <4>1. g \in f + 1 .. Len(files)
        BY <2>0
      <4>2. <<files[g].acct, files[g].content>> # Key(r)
        BY <1>2, <3>1, <3>2, <4>1, LandsFile DEF Waited
      <4>3. files'[g].acct = files[g].acct /\ files'[g].content = files[g].content /\ files'[f].acct = acct[r]
        BY <1>2, <2>0, <3>2, FilesGrow, LandsFile
      <4> QED
        BY <3>1, <4>2, <4>3
    <3>3. CASE g = Polled(r)
      <4>1. f # Polled(r) /\ files'[f] = files[f] /\ files'[g].acct = acct[r] /\ files'[g].at = now
        BY <1>2, <2>0, <3>3, LandsFile
      <4>2. cache[Key(r)] = 0 /\ f # 0
        BY <1>2, <2>0, <3>1, KeyTyped DEF Led, Lands, Uploading, Busy
      <4>3. <<files[f].acct, files[f].content>> = Key(r)
        BY <3>1, <4>1
      <4> QED
        BY <2>0, <4>1, <4>2, <4>3 DEF Expired
    <3> QED
      BY <2>2, <3>2, <3>3
  <2> QED
    BY <2>1, <2>2
<1>3. CASE ~Sends(r) /\ ~Lands(r)
  <2>1. files' = files
    BY <1>3, FilesGrow
  <2> QED
    BY <2>1 DEF Apart
<1> QED
  BY <1>1, <1>2, <1>3


-----------------------------------------------------------------------------
(* What a request refers to *)

Grown == \A f \in DOMAIN files : files'[f].content = files[f].content

\* The places of the blocks that a request has walked are those of its files.
LEMMA SaidBefore ==
    ASSUME Typed, RefsOwn, Grown, NEW s \in Requests, RefsSayAt(s), WalksAt(s),
           NEW n \in Nat, n = Len(want[s].blocks) - Len(todo[s]),
           NEW i \in 1 .. n, Decode(want[s].blocks[i]) # "none"
    PROVE  /\ Place(s, i) \in 1 .. Len(refs[s]) /\ refs[s][Place(s, i)] \in DOMAIN files
           /\ files'[refs[s][Place(s, i)]].content = want[s].blocks[i].name
<1> DEFINE p == Place(s, i)
           q == Place(s, n)
           m == Len(refs[s])
<1>1. q \in Nat /\ m \in Nat /\ q <= m
  <2>1. q \in Nat
    BY Places
  <2>2. m = q + 0 \/ m = q + 1
    BY DEF RefsSayAt
  <2> HIDE DEF q, m
  <2> QED
    BY <2>1, <2>2
<1>2. p \in Nat /\ p > 0 /\ p <= q
  <2>1. i \in Nat /\ i > 0 /\ i <= n
    OBVIOUS
  <2> QED
    BY <2>1, Places
<1>3. Place(s, i) \in 1 .. Len(refs[s])
  <2> HIDE DEF p, q, m
  <2>1. p \in 1 .. m
    BY <1>1, <1>2
  <2> QED
    BY <2>1 DEF p, m
<1>4. refs[s][Place(s, i)] \in DOMAIN files
  BY <1>3, RefsTyped DEF RefsOwn
<1>5. files[refs[s][Place(s, i)]].content = want[s].blocks[i].name
  BY DEF RefsSayAt
<1> QED
  BY <1>3, <1>4, <1>5 DEF Grown

LEMMA SaysKept ==
    ASSUME Typed, RefsOwn, Grown, NEW s \in Requests, RefsSayAt(s), WalksAt(s),
           refs'[s] = refs[s], todo'[s] = todo[s], want' = want,
           \/ want[s].context = None
           \/ pc'[s] = "ready" <=> pc[s] = "ready"
    PROVE  RefsSayAt(s)'
<1>1. PICK n \in Nat : n = Len(want[s].blocks) - Len(todo[s])
  BY DEF WalksAt
<1>2. \A i \in Nat : Place(s, i)' = Place(s, i)
  BY DEF Place
<1>3. Len(refs[s]) = Place(s, n) + (IF pc'[s] = "ready" /\ want[s].context # None THEN 1 ELSE 0)
  BY <1>1 DEF RefsSayAt
<1>4. \A i \in 1 .. n : Decode(want[s].blocks[i]) # "none" =>
          files'[refs[s][Place(s, i)]].content = want[s].blocks[i].name
  BY <1>1, SaidBefore
<1>5. pc'[s] = "ready" /\ want[s].context # None =>
          files'[refs[s][Len(refs[s])]].content = want[s].context
  <2>1. SUFFICES ASSUME pc'[s] = "ready", want[s].context # None
                 PROVE  files'[refs[s][Len(refs[s])]].content = want[s].context
    OBVIOUS
  <2>2. Len(refs[s]) = Place(s, n) + 1 /\ Place(s, n) \in Nat /\ Len(refs[s]) \in Nat
    BY <1>3, <2>1, Places, RefsTyped
  <2>3. Len(refs[s]) \in DOMAIN refs[s]
    BY <2>2, RefsTyped
  <2>4. refs[s][Len(refs[s])] \in DOMAIN files
    BY <2>3 DEF RefsOwn
  <2>5. files[refs[s][Len(refs[s])]].content = want[s].context
    BY <2>1 DEF RefsSayAt
  <2> QED
    BY <2>4, <2>5 DEF Grown
<1> QED
  <2>1. Len(refs[s]) = Place(s, n)' + (IF pc'[s] = "ready" /\ want[s].context # None THEN 1 ELSE 0)
    BY <1>2, <1>3
  <2>2. \A i \in 1 .. n : Place(s, i)' = Place(s, i)
    BY <1>2
  <2> QED
    BY <1>1, <1>4, <1>5, <2>1, <2>2 DEF RefsSayAt

LEMMA SaysOn ==
    ASSUME Typed, RefsOwn, Grown, NEW s \in Requests, RefsSayAt(s), WalksAt(s),
           todo[s] # <<>>, todo'[s] = Tail(todo[s]), want' = want,
           pc[s] # "ready", pc'[s] # "ready",
           \/ Decode(Head(todo[s])) = "none" /\ refs'[s] = refs[s]
           \/ /\ Decode(Head(todo[s])) # "none"
              /\ \E f \in DOMAIN files : /\ refs'[s] = Append(refs[s], f)
                                         /\ files'[f].content = Head(todo[s]).name
    PROVE  RefsSayAt(s)'
<1>1. PICK n \in Nat : n = Len(want[s].blocks) - Len(todo[s])
  BY DEF WalksAt
<1>2. n + 1 = Len(want[s].blocks) - Len(todo'[s])
  BY <1>1, WalkOn
<1>3. \A i \in Nat : Place(s, i)' = Place(s, i)
  BY DEF Place
<1>4. Head(todo[s]) = want[s].blocks[n + 1]
  <2>1. Len(todo[s]) \in Nat \ {0} /\ Head(todo[s]) = todo[s][1]
    BY HeadTyped
  <2>2. \A i \in 1 .. Len(todo[s]) : todo[s][i] = want[s].blocks[n + i]
    BY <1>1 DEF WalksAt
  <2>3. 1 \in 1 .. Len(todo[s])
    <3>1. PICK l \in Nat \ {0} : l = Len(todo[s])
      BY <2>1
    <3>2. 1 \in 1 .. l
      OBVIOUS
    <3> QED
      BY <3>1, <3>2, Zenon
  <2>4. todo[s][1] = want[s].blocks[n + 1]
    BY <2>2, <2>3, Zenon
  <2> QED
    BY <2>1, <2>4, Zenon
<1>5. /\ Len(refs[s]) = Place(s, n) /\ Len(refs[s]) \in Nat /\ Place(s, n) \in Nat
      /\ Place(s, n + 1) = IF Decode(want[s].blocks[n + 1]) # "none" THEN Place(s, n) + 1 ELSE Place(s, n)
  <2>1. Len(refs[s]) = Place(s, n) + 0
    BY <1>1 DEF RefsSayAt
  <2> QED
    BY <2>1, Places, RefsTyped
<1>6. \A i \in 1 .. n : Decode(want[s].blocks[i]) # "none" =>
          /\ Place(s, i) \in 1 .. Len(refs[s])
          /\ files'[refs[s][Place(s, i)]].content = want[s].blocks[i].name
  BY <1>1, SaidBefore
<1>7. \A i \in 1 .. n + 1 : i \in 1 .. n \/ i = n + 1
  OBVIOUS
<1>8. /\ Len(refs'[s]) = Place(s, n + 1)
      /\ \A i \in 1 .. n + 1 : Decode(want[s].blocks[i]) # "none" =>
            files'[refs'[s][Place(s, i)]].content = want[s].blocks[i].name
  <2>1. CASE Decode(Head(todo[s])) = "none" /\ refs'[s] = refs[s]
    BY <1>4, <1>5, <1>6, <1>7, <2>1
  <2>2. ASSUME NEW f \in DOMAIN files, refs'[s] = Append(refs[s], f),
               Decode(Head(todo[s])) # "none", files'[f].content = Head(todo[s]).name
        PROVE  <1>8!1 /\ <1>8!2
    <3>1. f \in Nat
      BY FilesTyped
    <3>2. /\ Len(refs'[s]) = Len(refs[s]) + 1 /\ refs'[s][Len(refs[s]) + 1] = f
          /\ \A i \in 1 .. Len(refs[s]) : refs'[s][i] = refs[s][i]
      BY <2>2, <3>1, RefsTyped
    <3>3. Place(s, n + 1) = Len(refs[s]) + 1
      BY <1>4, <1>5, <2>2
    <3>4. ASSUME NEW i \in 1 .. n + 1, Decode(want[s].blocks[i]) # "none"
          PROVE  files'[refs'[s][Place(s, i)]].content = want[s].blocks[i].name
      <4>1. CASE i \in 1 .. n
        BY <1>6, <3>2, <3>4, <4>1
      <4>2. CASE i = n + 1
        BY <1>4, <2>2, <3>2, <3>3, <4>2
      <4> QED
        BY <1>7, <4>1, <4>2
    <3> QED
      BY <3>2, <3>3, <3>4
  <2> QED
    BY <2>1, <2>2
<1> QED
  <2>1. n + 1 \in Nat
    OBVIOUS
  <2>2. \A i \in 1 .. n + 1 : Place(s, i)' = Place(s, i)
    BY <1>3
  <2>3. Len(refs'[s]) = Place(s, n + 1)' + 0
    BY <1>3, <1>5, <1>8, Places
  <2> QED
    BY <1>2, <1>8, <2>1, <2>2, <2>3 DEF RefsSayAt

LEMMA SaysContext ==
    ASSUME Typed, RefsOwn, Grown, NEW s \in Requests, RefsSayAt(s), WalksAt(s),
           todo'[s] = todo[s], want' = want, want[s].context # None,
           pc[s] # "ready", pc'[s] = "ready",
           NEW f \in Nat, refs'[s] = Append(refs[s], f), files'[f].content = want[s].context
    PROVE  RefsSayAt(s)'
<1>1. PICK n \in Nat : n = Len(want[s].blocks) - Len(todo[s])
  BY DEF WalksAt
<1>2. \A i \in Nat : Place(s, i)' = Place(s, i)
  BY DEF Place
<1>3. /\ Len(refs'[s]) = Len(refs[s]) + 1 /\ refs'[s][Len(refs[s]) + 1] = f
      /\ \A i \in 1 .. Len(refs[s]) : refs'[s][i] = refs[s][i]
  BY RefsTyped
<1>4. Len(refs[s]) = Place(s, n)
  <2>1. Len(refs[s]) = Place(s, n) + 0
    BY <1>1 DEF RefsSayAt
  <2> QED
    BY <2>1, Places
<1>5. \A i \in 1 .. n : Decode(want[s].blocks[i]) # "none" =>
          files'[refs'[s][Place(s, i)]].content = want[s].blocks[i].name
  BY <1>1, <1>3, SaidBefore
<1>6. files'[refs'[s][Len(refs'[s])]].content = want[s].context
  BY <1>3
<1> QED
  <2>1. Len(refs'[s]) = Place(s, n)' + 1
    BY <1>2, <1>3, <1>4
  <2>2. \A i \in 1 .. n : Place(s, i)' = Place(s, i)
    BY <1>2
  <2> QED
    BY <1>1, <1>5, <1>6, <2>1, <2>2 DEF RefsSayAt

LEMMA KindsRefsSay ==
    ASSUME Typed, Walks, PollsOwn, Cached, RefsOwn, RefsSay, NEW r \in Requests,
           \/ Passes(r) \/ Skips(r) \/ Repeats(r) \/ Hits(r) \/ Follows(r) \/ Leads(r)
           \/ Drops(r) \/ Sends(r) \/ Lands(r) \/ Restarts(r)
    PROVE  RefsSay'
<1> SUFFICES ASSUME NEW s \in Requests PROVE RefsSayAt(s)'
  BY DEF RefsSay
<1>0. /\ pc \in [Requests -> PCs] /\ todo \in [Requests -> Seq(Blocks)] /\ refs \in [Requests -> Seq(Nat)]
      /\ cache \in [Keys -> Nat] /\ Key(r) \in Keys
      /\ RefsSayAt(s) /\ WalksAt(s) /\ WalksAt(r) /\ Grown
  BY FilesGrow, KeyTyped DEF Typed, RefsSay, Walks, Grown
<1>1. CASE Passes(r)
  <2>1. PICK q \in PCs : pc' = [pc EXCEPT ![r] = q] /\ Way(r, q)
    BY <1>1 DEF Passes
  <2>2. UNCHANGED <<want, todo, refs>>
    BY <1>1 DEF Passes, Idles
  <2>3. want[s].context = None \/ (pc'[s] = "ready" <=> pc[s] = "ready")
    BY <1>0, <2>1 DEF Way
  <2> QED
    BY <1>0, <2>2, <2>3, SaysKept
<1>2. CASE Skips(r) \/ Repeats(r)
  <2>1. pc[r] = "walk" /\ todo[r] # <<>> /\ UNCHANGED <<want, pc>>
        /\ todo' = [todo EXCEPT ![r] = Tail(todo[r])]
    BY <1>2 DEF Skips, Repeats, IsContext
  <2>2. CASE s # r
    <3>1. refs'[s] = refs[s] /\ todo'[s] = todo[s]
      BY <1>0, <1>2, <2>2 DEF Skips, Repeats
    <3> QED
      BY <1>0, <2>1, <3>1, SaysKept
  <2>3. CASE s = r
    <3>1. \/ Decode(Head(todo[r])) = "none" /\ refs'[r] = refs[r]
          \/ /\ Decode(Head(todo[r])) # "none"
             /\ \E f \in DOMAIN files : /\ refs'[r] = Append(refs[r], f)
                                        /\ files'[f].content = Head(todo[r]).name
      <4>1. CASE Skips(r)
        BY <4>1 DEF Skips
      <4>2. CASE Repeats(r)
        <5>1. PICK i \in DOMAIN refs[r] : /\ files[refs[r][i]].content = Head(todo[r]).name
                                          /\ refs' = [refs EXCEPT ![r] = Append(refs[r], refs[r][i])]
          BY <4>2 DEF Repeats
        <5>2. refs[r][i] \in DOMAIN files /\ files' = files
          BY <4>2 DEF Repeats, RefsOwn
        <5> QED
          BY <1>0, <4>2, <5>1, <5>2 DEF Repeats
      <4> QED
        BY <1>2, <4>1, <4>2
    <3>2. todo'[r] = Tail(todo[r]) /\ pc'[r] # "ready" /\ pc[r] # "ready" /\ want' = want
      BY <1>0, <2>1
    <3> QED
      BY <1>0, <2>1, <2>3, <3>1, <3>2, SaysOn
  <2> QED
    BY <2>2, <2>3
<1>3. CASE Hits(r)
  <2>1. pc[r] = "lookup" /\ UNCHANGED <<want, todo, files>> /\ cache[Key(r)] # 0
        /\ pc' = [pc EXCEPT ![r] = "ready"] /\ refs' = [refs EXCEPT ![r] = Append(refs[r], cache[Key(r)])]
    BY <1>3 DEF Hits
  <2>2. CASE s # r
    BY <1>0, <2>1, <2>2, SaysKept
  <2>3. CASE s = r
    <3>1. files[cache[Key(r)]].content = want[r].context /\ cache[Key(r)] \in Nat
      BY <1>0, <2>1 DEF Cached, Key
    <3>2. want[r].context # None
      BY <1>0, <2>1 DEF WalksAt
    <3>3. /\ todo'[r] = todo[r] /\ pc[r] # "ready" /\ pc'[r] = "ready"
          /\ refs'[r] = Append(refs[r], cache[Key(r)])
      BY <1>0, <2>1
    <3>4. files'[cache[Key(r)]].content = want[r].context
      BY <2>1, <3>1
    <3> QED
      BY <1>0, <2>1, <2>3, <3>1, <3>2, <3>3, <3>4, SaysContext
  <2> QED
    BY <2>2, <2>3
<1>4. CASE Follows(r) \/ Leads(r) \/ Drops(r) \/ Sends(r)
  <2>1. UNCHANGED <<want, todo, refs>>
    BY <1>4 DEF Follows, Leads, Misses, Drops, Sends
  <2>2. pc'[s] = "ready" <=> pc[s] = "ready"
    <3>1. CASE Follows(r) \/ Leads(r) \/ Sends(r)
      BY <1>0, <3>1 DEF Follows, Leads, Misses, Sends, Accepted
    <3>2. CASE Drops(r)
      BY <1>0, <3>2 DEF Drops, Followers, Uploading, Busy
    <3> QED
      BY <1>4, <3>1, <3>2
  <2> QED
    BY <1>0, <2>1, <2>2, SaysKept
<1>5. CASE Lands(r)
  <2>1. /\ pc[r] = "poll" /\ UNCHANGED want /\ Polled(r) \in DOMAIN files /\ Polled(r) \in Nat
        /\ files'[Polled(r)].content = Wanted(r)
    BY <1>5, LandsDo, LandsFile
  <2>2. CASE s \notin {r} \cup Followers(r)
    <3>1. pc'[s] = pc[s] /\ refs'[s] = refs[s] /\ todo'[s] = todo[s]
      <4>1. pc'[s] = pc[s] /\ refs'[s] = refs[s] /\ s # r
        BY <1>0, <1>5, <2>2, LandsDo
      <4>2. todo' = todo \/ todo' = [todo EXCEPT ![r] = Tail(todo[r])]
        BY <1>5, LandsDo
      <4> QED
        BY <1>0, <4>1, <4>2
    <3> QED
      BY <1>0, <2>1, <3>1, SaysKept
  <2>3. CASE s \in {r} \cup Followers(r) /\ IsContext(r)
    <3>1. /\ pc'[s] = "ready" /\ refs'[s] = Append(refs[s], Polled(r)) /\ todo'[s] = todo[s]
          /\ pc[s] \in {"poll", "follow"}
      BY <1>0, <1>5, <2>3, LandsDo DEF Followers
    <3>2. IsContext(s) /\ want[s].context # None
      BY <1>0, <2>3, <3>1 DEF WalksAt, Uploading, Busy, Followers
    <3>3. want[s].context = want[r].context
      BY <2>3 DEF Followers, Key
    <3>4. files'[Polled(r)].content = want[s].context
      BY <2>1, <2>3, <3>3, WantedTyped
    <3>5. pc[s] # "ready"
      BY <3>1
    <3> QED
      BY <1>0, <2>1, <3>1, <3>2, <3>4, <3>5, SaysContext
  <2>4. CASE s = r /\ ~IsContext(r)
    <3>1. /\ pc'[r] = "walk" /\ refs'[r] = Append(refs[r], Polled(r)) /\ todo'[r] = Tail(todo[r])
          /\ todo[r] # <<>>
      BY <1>0, <1>5, <2>4, LandsDo DEF IsContext
    <3>2. Decode(Head(todo[r])) # "none"
      BY <1>0, <2>1, <2>4 DEF WalksAt, Uploading, Busy
    <3>3. files'[Polled(r)].content = Head(todo[r]).name
      BY <2>1, <2>4 DEF Wanted
    <3>4. pc[r] # "ready" /\ pc'[r] # "ready"
      BY <2>1, <3>1
    <3> QED
      BY <1>0, <2>1, <2>4, <3>1, <3>2, <3>3, <3>4, SaysOn
  <2> QED
    BY <2>2, <2>3, <2>4 DEF Followers
<1>6. CASE Restarts(r)
  <2>1. CASE s # r
    <3>1. pc'[s] = pc[s] /\ refs'[s] = refs[s] /\ todo'[s] = todo[s] /\ want' = want
      BY <1>0, <1>6, <2>1 DEF Restarts
    <3> QED
      BY <1>0, <3>1, SaysKept
  <2>2. CASE s = r
    <3>1. pc'[r] = "walk" /\ refs'[r] = <<>> /\ todo'[r] = want[r].blocks /\ want' = want
      BY <1>0, <1>6 DEF Restarts
    <3>2. Len(want[r].blocks) - Len(todo'[r]) = 0
      BY <3>1, WantsTyped, LenProperties DEF Typed
    <3>3. Place(r, 0)' = 0
      <4>1. Place(r, 0)' = Place(r, 0)
        BY <3>1 DEF Place
      <4> QED
        BY <4>1, Places
    <3>4. Len(refs'[r]) = Place(r, 0)' + 0
      BY <3>1, <3>3
    <3> QED
      BY <2>2, <3>1, <3>2, <3>4 DEF RefsSayAt
  <2> QED
    BY <2>1, <2>2
<1> QED
  BY <1>1, <1>2, <1>3, <1>4, <1>5, <1>6

LEMMA NextAskedBefore == Typed /\ AskedBefore /\ [Next]_vars => AskedBefore'
<1> SUFFICES ASSUME Typed, AskedBefore, [Next]_vars, NEW s \in Requests PROVE asked'[s] <= now'
  BY DEF AskedBefore
<1>0. asked \in [Requests -> Nat] /\ now \in Nat /\ asked[s] <= now /\ asked[s] \in Nat
  BY FunsTyped DEF Typed, AskedBefore
<1>1. CASE UNCHANGED <<asked, now>>
  BY <1>0, <1>1
<1>2. ASSUME NEW r \in Requests, Ask(r) PROVE asked'[s] <= now'
  <2>1. asked' = [asked EXCEPT ![r] = now] /\ now' = now
    BY <1>2 DEF Ask
  <2> QED
    BY <1>0, <2>1
<1>3. ASSUME NEW r \in Requests, Lookup(r) PROVE asked'[s] <= now'
  <2>1. asked' = [asked EXCEPT ![r] = 0] /\ now' = now
    BY <1>3 DEF Lookup
  <2> QED
    BY <1>0, <2>1
<1>4. CASE Tick
  BY <1>0, <1>4 DEF Tick
<1>5. ASSUME NEW r \in Requests, Step(r) \/ Leave(r), ~Ask(r), ~Lookup(r) PROVE UNCHANGED <<asked, now>>
  BY <1>5 DEF Step, Leave, Walk, Walked, StopsFollowing, Acquire, Breaks, Pow, Again, Discards, Accepted,
     Ready, NotReady, Switch, NoSwitch, Fails, Returns
<1>6. CASE UNCHANGED vars
  BY <1>1, <1>6 DEF vars
<1> QED
  BY <1>1, <1>2, <1>3, <1>4, <1>5, <1>6 DEF Next, Step

-----------------------------------------------------------------------------
(* The theorems *)

Sound ==
    /\ Typed /\ SlotsHeld /\ Walks /\ Led /\ Cached /\ PollsOwn
    /\ RefsOwn /\ RefsSay /\ AskedBefore /\ Expired /\ Apart

LEMMA InitSound == Init => Sound
<1> SUFFICES ASSUME Init PROVE Sound
  OBVIOUS
<1>0. /\ pc = [r \in Requests |-> "walk"] /\ todo = [r \in Requests |-> want[r].blocks]
      /\ count = [r \in Requests |-> 0] /\ refs = [r \in Requests |-> <<>>] /\ files = <<>>
      /\ cache = [k \in Keys |-> 0] /\ inflight = [k \in Keys |-> None]
      /\ asked = [r \in Requests |-> 0] /\ slots = 0 /\ now = 0 /\ want \in [Requests -> Wants]
      /\ DOMAIN files = {} /\ Len(files) = 0 /\ None \notin Requests
  BY NoneAssumption DEF Init
<1>1. Typed
  <2>1. todo \in [Requests -> Seq(Blocks)] /\ acct \in [Requests -> Accounts]
    BY WantsTyped DEF Init
  <2>2. refs \in [Requests -> Seq(Nat)] /\ files \in Seq(File)
    BY <1>0
  <2>3. now \in 0 .. MaxClock
    BY <1>0, BoundsAssumption
  <2> QED
    BY <2>1, <2>2, <2>3 DEF Init, Typed, PCs
<1>2. SlotsHeld
  <2>1. Holders = {}
    BY <1>0 DEF Holders, Busy
  <2>2. slots = 0 /\ Cardinality({}) = 0 /\ Slots \in Nat
    BY <1>0, FS_EmptySet, BoundsAssumption
  <2> QED
    BY <2>1, <2>2 DEF SlotsHeld
<1>3. Walks
  <2> SUFFICES ASSUME NEW r \in Requests PROVE WalksAt(r)
    BY DEF Walks
  <2>1. /\ Len(want[r].blocks) \in Nat /\ MaxInline \in Nat \ {0}
        /\ todo[r] = want[r].blocks /\ count[r] = 0 /\ pc[r] = "walk"
    BY <1>0, WantsTyped, LenProperties, BoundsAssumption
  <2> QED
    BY <2>1 DEF WalksAt, Uploading, Busy
<1>4. RefsSay
  <2> SUFFICES ASSUME NEW r \in Requests PROVE RefsSayAt(r)
    BY DEF RefsSay
  <2>1. Len(want[r].blocks) - Len(todo[r]) = 0
    BY <1>0, WantsTyped, LenProperties
  <2>2. pc[r] = "walk" /\ refs[r] = <<>> /\ Place(r, 0) = 0
    BY <1>0, Places
  <2> QED
    BY <2>1, <2>2 DEF RefsSayAt
<1>5. Led /\ Cached /\ PollsOwn /\ RefsOwn /\ AskedBefore /\ Expired /\ Apart
  <2>1. Led
    BY <1>0 DEF Led, Uploading, Busy
  <2>2. Cached /\ PollsOwn /\ RefsOwn /\ Expired /\ Apart
    BY <1>0 DEF Cached, PollsOwn, RefsOwn, Expired, Apart
  <2>3. AskedBefore
    BY <1>0 DEF AskedBefore
  <2> QED
    BY <2>1, <2>2, <2>3
<1> QED
  BY <1>1, <1>2, <1>3, <1>4, <1>5 DEF Sound

\* Time passes, or nothing does.
LEMMA IdleSound ==
    ASSUME Sound,
           UNCHANGED <<want, acct, pc, todo, count, refs, asked, cache, inflight, files>>, now' >= now, now' \in Nat
    PROVE  (Walks /\ Led /\ Cached /\ PollsOwn /\ RefsOwn /\ RefsSay /\ Expired /\ Apart)'
<1>1. \A r \in Requests : WalksAt(r)' = WalksAt(r) /\ RefsSayAt(r)' = RefsSayAt(r)
  <2>1. \A r, i : Place(r, i)' = Place(r, i)
    BY DEF Place
  <2> QED
    BY <2>1 DEF WalksAt, RefsSayAt, IsContext
<1>2. Walks' /\ RefsSay'
  BY <1>1 DEF Sound, Walks, RefsSay
<1>3. Led' /\ Cached' /\ RefsOwn' /\ Apart'
  BY DEF Sound, Led, Cached, RefsOwn, Apart, IsContext, Key, Contexts
<1>4. PollsOwn'
  BY DEF Sound, PollsOwn, Waited, Wanted, IsContext, Key
<1>5. Expired'
  <2> SUFFICES ASSUME NEW f \in DOMAIN files, files[f].at # None, files[f].content \in Contexts,
                      cache[<<files[f].acct, files[f].content>>] # f
               PROVE  now' >= files[f].at + CacheTTL
    BY DEF Expired, Contexts
  <2>1. now >= files[f].at + CacheTTL
    BY DEF Sound, Expired
  <2>2. files[f].at \in Nat /\ now \in Nat /\ CacheTTL \in Nat
    BY FilesTyped, FunsTyped, BoundsAssumption DEF Sound, File
  <2> QED
    BY <2>1, <2>2
<1> QED
  BY <1>2, <1>3, <1>4, <1>5

LEMMA NextSound == Sound /\ [Next]_vars => Sound'
<1> SUFFICES ASSUME Sound, [Next]_vars PROVE Sound'
  OBVIOUS
<1>0. /\ Typed /\ SlotsHeld /\ Walks /\ Led /\ Cached /\ PollsOwn
      /\ RefsOwn /\ RefsSay /\ AskedBefore /\ Expired /\ Apart
  BY DEF Sound
<1>1. Typed' /\ SlotsHeld' /\ AskedBefore'
  BY <1>0, NextTyped, NextSlotsHeld, NextAskedBefore
<1>2. ASSUME NEW r \in Requests, Step(r) \/ Leave(r)
      PROVE  (Walks /\ Led /\ Cached /\ PollsOwn /\ RefsOwn /\ RefsSay /\ Expired /\ Apart)'
  <2>1. \/ Passes(r) \/ Skips(r) \/ Repeats(r) \/ Hits(r) \/ Follows(r) \/ Leads(r)
        \/ Drops(r) \/ Sends(r) \/ Lands(r) \/ Restarts(r)
    BY <1>0, <1>2, Kinds
  <2>2. Walks' /\ Led' /\ Cached' /\ PollsOwn'
    BY <1>0, <2>1, KindsWalk, KindsLed, KindsCached, KindsPollsOwn
  <2>3. RefsOwn' /\ RefsSay'
    BY <1>0, <2>1, KindsRefsOwn, KindsRefsSay
  <2>4. Expired' /\ Apart'
    BY <1>0, <2>1, KindsExpired, KindsApart
  <2> QED
    BY <2>2, <2>3, <2>4
<1>3. CASE Tick \/ UNCHANGED vars
  <2>1. UNCHANGED <<want, acct, pc, todo, count, refs, asked, cache, inflight, files>>
    BY <1>3 DEF Tick, vars, lease, walk, shared
  <2>2. now' >= now /\ now' \in Nat
    BY <1>0, <1>3, FunsTyped DEF Tick, vars
  <2> QED
    BY <1>1, <2>1, <2>2, IdleSound DEF Sound
<1> QED
  BY <1>1, <1>2, <1>3 DEF Next, Sound

LEMMA Always == Spec => []Sound
<1>1. Init => Sound
  BY InitSound
<1>2. Sound /\ [Next]_vars => Sound'
  BY NextSound
<1> QED
  BY <1>1, <1>2, PTL DEF Spec

LEMMA SoundTypes == Sound => TypeOK
<1> SUFFICES ASSUME Sound PROVE TypeOK
  OBVIOUS
<1>1. \A r \in Requests : refs[r] \in Seq(DOMAIN files)
  <2> SUFFICES ASSUME NEW r \in Requests PROVE refs[r] \in Seq(DOMAIN files)
    OBVIOUS
  <2>1. refs[r] \in Seq(Nat) /\ \A i \in 1 .. Len(refs[r]) : refs[r][i] \in DOMAIN files
    BY LenProperties DEF Sound, Typed, RefsOwn
  <2> QED
    BY <2>1
<1>2. count \in [Requests -> 0 .. MaxInline] /\ asked \in [Requests -> 0 .. MaxClock]
  <2>1. \A r \in Requests : count[r] \in 0 .. MaxInline
    BY BoundsAssumption DEF Sound, Typed, Walks, WalksAt
  <2>2. \A r \in Requests : asked[r] \in 0 .. MaxClock
    BY BoundsAssumption DEF Sound, Typed, AskedBefore
  <2> QED
    BY <2>1, <2>2 DEF Sound, Typed
<1>3. cache \in [Keys -> 0 .. Len(files)] /\ slots \in 0 .. Slots
  <2>1. \A k \in Keys : cache[k] \in 0 .. Len(files)
    <3>1. Len(files) \in Nat /\ DOMAIN files = 1 .. Len(files)
      BY FilesTyped DEF Sound
    <3> QED
      BY <3>1 DEF Sound, Typed, Cached
  <2>2. slots \in 0 .. Slots
    BY BoundsAssumption DEF Sound, Typed, SlotsHeld
  <2> QED
    BY <2>1, <2>2 DEF Sound, Typed
<1> QED
  BY <1>1, <1>2, <1>3 DEF Sound, Typed, TypeOK, PCs

\* A slot is taken by each upload under way and by nothing else, whatever the
\* uploads do: each path out of UploadFile gives it back once, and no more are
\* taken than there are (upload_limiter.go:16, client_upload.go:48).
THEOREM SlotsNeverLost == Spec => []SlotsComeBack
<1>1. Sound => SlotsComeBack
  BY SoundTypes DEF Sound, SlotsHeld, Holders, SlotsComeBack
<1> QED
  BY <1>1, Always, PTL

\* A request refers to its own files and to no others: each is processed, belongs to
\* the account it holds, and stands where its block or its context asks for it
\* (file_inline_upload.go:203, current_input_file.go:58).
THEOREM FilesAreOwn == Spec => []OwnFiles
<1>1. Sound => OwnFiles
  <2> SUFFICES ASSUME Sound, NEW r \in Requests
               PROVE  /\ \A i \in DOMAIN refs[r] : files[refs[r][i]].acct = acct[r] /\ files[refs[r][i]].at # None
                      /\ pc[r] = "ready" =>
                            /\ Len(refs[r]) = Place(r, Len(want[r].blocks))
                                              + (IF want[r].context = None THEN 0 ELSE 1)
                            /\ \A i \in DOMAIN want[r].blocks :
                                  Decode(want[r].blocks[i]) # "none" =>
                                     files[refs[r][Place(r, i)]].content = want[r].blocks[i].name
                            /\ want[r].context # None =>
                                  files[refs[r][Len(refs[r])]].content = want[r].context
    BY DEF OwnFiles
  <2>1. \A i \in DOMAIN refs[r] : files[refs[r][i]].acct = acct[r] /\ files[refs[r][i]].at # None
    BY DEF Sound, RefsOwn
  <2>2. ASSUME pc[r] = "ready"
        PROVE  /\ Len(refs[r]) = Place(r, Len(want[r].blocks)) + (IF want[r].context = None THEN 0 ELSE 1)
               /\ \A i \in DOMAIN want[r].blocks :
                     Decode(want[r].blocks[i]) # "none" =>
                        files[refs[r][Place(r, i)]].content = want[r].blocks[i].name
               /\ want[r].context # None => files[refs[r][Len(refs[r])]].content = want[r].context
    <3>1. Len(todo[r]) = 0
      <4>1. todo[r] = <<>>
        BY <2>2 DEF Sound, Walks, WalksAt, IsContext
      <4> QED
        BY <4>1
    <3>2. Len(want[r].blocks) \in Nat /\ DOMAIN want[r].blocks = 1 .. Len(want[r].blocks)
      BY WantsTyped, LenProperties DEF Sound, Typed
    <3>3. PICK n \in Nat : n = Len(want[r].blocks)
      BY <3>2
    <3>4. n = Len(want[r].blocks) - Len(todo[r])
      BY <3>1, <3>3
    <3> QED
      BY <2>2, <3>2, <3>3, <3>4 DEF Sound, RefsSay, RefsSayAt
  <2> QED
    BY <2>1, <2>2
<1> QED
  BY <1>1, Always, PTL

\* However many requests ask for a context, one of them uploads it, and nobody does
\* again before its file is older than the time to live; the clock each reads before it
\* takes the lock does not change this (upload_cache.go:64, 76, 96).
THEOREM ContextsUploadedOnce == Spec => []UploadedOnce
<1>1. Sound => UploadedOnce
  <2> SUFFICES ASSUME Sound PROVE UploadedOnce
    OBVIOUS
  <2>1. ASSUME NEW r \in Requests, NEW s \in Requests, r # s, pc[r] \in Busy, pc[s] \in Busy,
               IsContext(r), IsContext(s), Key(r) = Key(s)
        PROVE  FALSE
    BY <2>1 DEF Sound, Led, Uploading
  <2> QED
    BY <2>1 DEF Sound, Apart, UploadedOnce
<1> QED
  BY <1>1, Always, PTL
=============================================================================
