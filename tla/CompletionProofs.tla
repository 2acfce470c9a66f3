--------------------------- MODULE CompletionProofs ---------------------------
(***************************************************************************)
(* Theorems about one chat request, for any accounts, any number of        *)
(* attempts and retries and answers of any length.                         *)
(***************************************************************************)
EXTENDS Completion, SequenceTheorems, TLAPS

Calls == Pieces \X (1 .. MaxBlocks)

-----------------------------------------------------------------------------
(* The inductive invariant *)

\* What the request holds, it holds on its account; a session it no longer
\* knows of is on an account it saw banned.
Accounted ==
    /\ sess \in {None, acct}
    /\ left \subseteq dead \cup {acct}
    /\ sess # acct => left \subseteq dead
    /\ pc = "rebuild" => sess = None
    /\ pc = "done" => left \subseteq dead
    /\ pc \in {"pow", "context", "completion", "reading"} \cup Retrying => sess = acct
    /\ pc \in Requests \cup {"gate", "reading"} /\ pc \notin Uploading => files = acct

\* The answer ends when the request goes on to clean up, and its record says how.
Ended ==
    /\ end = "open" <=> pc \notin {"cleanup", "done"}
    /\ end = "open" => hist.status \in {"none", "streaming"}
    /\ end # "open" /\ hist.status # "none" =>
          /\ hist.status # "streaming"
          /\ hist.status = "success" <=> end = "finish"
          /\ hist.status = "stopped" <=> end = "left"
          /\ hist.status = "success" => shown # <<>> \/ sent # <<>>
          /\ hist.status = "success" => IsPrefix(shown, hist.text)

\* The pieces that have arrived.
Arrived(p) == p[1] < retries \/ (p[1] = retries /\ p[2] <= parts)

\* Text has pieces that arrived, and none twice.
Written ==
    /\ IsInjective(text) /\ IsInjective(prior)
    /\ \A p \in Range(text) : Arrived(p)

\* A stream has shown its text but for what is held back; once it is asked again
\* for a call it shows nothing more.
Shown ==
    end = "open" =>
        IF ~req.stream THEN shown = <<>> /\ sent = <<>>
        ELSE IF prior = <<>> THEN shown \o held = text
        ELSE shown # <<>> /\ IsPrefix(shown, text)

\* The order of the calls of an answer.
Before(c, d) == c[1][2] < d[1][2] \/ (c[1] = d[1] /\ c[2] < d[2])
Sorted(s) == \A i, j \in DOMAIN s : i < j => Before(s[i], s[j])

\* The calls are those of this answer.
Called ==
    /\ \A c \in Range(calls) : c[1][1] = retries /\ c[1][2] <= parts
    /\ Sorted(calls)

\* What the sieve has handed on, or is about to, are calls of this answer but
\* for those that another of their chunk has replaced.
Sifted ==
    req.stream /\ end = "open" =>
        /\ done <=> sent # <<>>
        /\ Sorted(sent \o pending)
        /\ Range(sent \o pending) \subseteq Range(calls)
        /\ \A c \in Range(calls) \ Range(sent \o pending) :
              \E d \in Range(sent \o pending) : d[1] = c[1] /\ d[2] > c[2]

Sound == TypeOK /\ Accounted /\ Ended /\ Written /\ Shown /\ Called /\ Sifted /\ CallsOnce

-----------------------------------------------------------------------------
(* Sequences *)

LEMMA PrefixOf ==
    ASSUME NEW S, NEW s \in Seq(S), NEW t \in Seq(S)
    PROVE  IsPrefix(s, t) <=> Len(s) <= Len(t) /\ \A i \in 1 .. Len(s) : s[i] = t[i]
<1>0. Len(s) \in Nat /\ Len(t) \in Nat
  BY LenProperties
<1>1. SUFFICES ASSUME Len(s) <= Len(t)
               PROVE  SubSeq(s, 1, Len(s)) = SubSeq(t, 1, Len(s))
                      <=> \A i \in 1 .. Len(s) : s[i] = t[i]
  BY DEF IsPrefix
<1>2. \A i \in 1 .. Len(s) : s[i] \in S /\ t[i] \in S
  BY <1>0, <1>1, ElementOfSeq
<1>3. /\ SubSeq(s, 1, Len(s)) \in Seq(S)
      /\ Len(SubSeq(s, 1, Len(s))) = IF 1 <= Len(s) THEN Len(s) - 1 + 1 ELSE 0
      /\ \A i \in 1 .. Len(s) - 1 + 1 : SubSeq(s, 1, Len(s))[i] = s[1 + i - 1]
  BY <1>0, <1>2, SubSeqProperties
<1>4. /\ SubSeq(t, 1, Len(s)) \in Seq(S)
      /\ Len(SubSeq(t, 1, Len(s))) = IF 1 <= Len(s) THEN Len(s) - 1 + 1 ELSE 0
      /\ \A i \in 1 .. Len(s) - 1 + 1 : SubSeq(t, 1, Len(s))[i] = t[1 + i - 1]
  BY <1>0, <1>2, SubSeqProperties
<1>5. /\ Len(SubSeq(s, 1, Len(s))) = Len(s) /\ Len(SubSeq(t, 1, Len(s))) = Len(s)
      /\ \A i \in 1 .. Len(s) : SubSeq(s, 1, Len(s))[i] = s[i] /\ SubSeq(t, 1, Len(s))[i] = t[i]
  <2>1. Len(s) - 1 + 1 = Len(s) /\ \A i \in 1 .. Len(s) : 1 + i - 1 = i
    BY <1>0
  <2> QED
    BY <1>0, <1>3, <1>4, <2>1
<1>6. (\A i \in 1 .. Len(s) : s[i] = t[i]) => SubSeq(s, 1, Len(s)) = SubSeq(t, 1, Len(s))
  BY <1>3, <1>4, <1>5, SeqEqual
<1> QED
  BY <1>5, <1>6

LEMMA ConcatPrefix ==
    ASSUME NEW S, NEW s \in Seq(S), NEW t \in Seq(S)
    PROVE  IsPrefix(s, s \o t) /\ s \o t \in Seq(S)
<1>1. /\ s \o t \in Seq(S) /\ Len(s \o t) = Len(s) + Len(t)
      /\ \A i \in 1 .. Len(s) + Len(t) : (s \o t)[i] = IF i <= Len(s) THEN s[i] ELSE t[i - Len(s)]
  BY ConcatProperties
<1>2. Len(s) \in Nat /\ Len(t) \in Nat
  BY LenProperties
<1>3. Len(s) <= Len(s \o t) /\ \A i \in 1 .. Len(s) : s[i] = (s \o t)[i]
  BY <1>1, <1>2
<1> QED
  BY <1>1, <1>3, PrefixOf

LEMMA PrefixReflexive ==
    ASSUME NEW S, NEW s \in Seq(S) PROVE IsPrefix(s, s)
<1>1. Len(s) \in Nat
  BY LenProperties
<1> QED
  BY <1>1, PrefixOf

LEMMA PrefixTransitive ==
    ASSUME NEW S, NEW s \in Seq(S), NEW t \in Seq(S), NEW u \in Seq(S),
           IsPrefix(s, t), IsPrefix(t, u)
    PROVE  IsPrefix(s, u)
<1>1. Len(s) \in Nat /\ Len(t) \in Nat /\ Len(u) \in Nat
  BY LenProperties
<1>2. Len(s) <= Len(t) /\ \A i \in 1 .. Len(s) : s[i] = t[i]
  BY PrefixOf
<1>3. Len(t) <= Len(u) /\ \A i \in 1 .. Len(t) : t[i] = u[i]
  BY PrefixOf
<1>4. Len(s) <= Len(u) /\ \A i \in 1 .. Len(s) : s[i] = u[i]
  BY <1>1, <1>2, <1>3
<1> QED
  BY <1>4, PrefixOf

LEMMA PrefixInjective ==
    ASSUME NEW S, NEW s \in Seq(S), NEW t \in Seq(S), IsPrefix(s, t), IsInjective(t)
    PROVE  IsInjective(s)
<1>1. /\ Len(s) \in Nat /\ Len(t) \in Nat
      /\ DOMAIN s = 1 .. Len(s) /\ DOMAIN t = 1 .. Len(t)
  BY LenProperties
<1>2. Len(s) <= Len(t) /\ \A i \in 1 .. Len(s) : s[i] = t[i]
  BY PrefixOf
<1>3. \A i \in 1 .. Len(s) : i \in 1 .. Len(t)
  BY <1>1, <1>2
<1> QED
  BY <1>1, <1>2, <1>3 DEF IsInjective

LEMMA AppendStaysInjective ==
    ASSUME NEW S, NEW s \in Seq(S), NEW e \in S, IsInjective(s), e \notin Range(s)
    PROVE  /\ IsInjective(Append(s, e))
           /\ Range(Append(s, e)) = Range(s) \cup {e}
<1> DEFINE t == Append(s, e)
<1>1. t \in Seq(S) /\ Len(t) = Len(s) + 1 /\ t[Len(s) + 1] = e
      /\ \A i \in 1 .. Len(s) : t[i] = s[i]
  BY AppendProperties
<1>2. Len(s) \in Nat /\ DOMAIN s = 1 .. Len(s) /\ DOMAIN t = 1 .. Len(t)
  BY <1>1, LenProperties
<1> HIDE DEF t
<1>3. DOMAIN t = (1 .. Len(s)) \cup {Len(s) + 1}
  BY <1>1, <1>2
<1>4. \A i \in 1 .. Len(s) : t[i] # e
  BY <1>1, <1>2 DEF Range
<1>5. IsInjective(t)
  BY <1>1, <1>2, <1>3, <1>4 DEF IsInjective
<1>6. Range(t) = Range(s) \cup {e}
  BY <1>1, <1>2, <1>3 DEF Range
<1> QED
  BY <1>5, <1>6 DEF t

LEMMA ConcatRange ==
    ASSUME NEW S, NEW s \in Seq(S), NEW t \in Seq(S)
    PROVE  Range(s \o t) = Range(s) \cup Range(t)
<1>1. /\ s \o t \in Seq(S) /\ Len(s \o t) = Len(s) + Len(t)
      /\ \A i \in 1 .. Len(s) + Len(t) : (s \o t)[i] = IF i <= Len(s) THEN s[i] ELSE t[i - Len(s)]
  BY ConcatProperties
<1>2. /\ Len(s) \in Nat /\ Len(t) \in Nat
      /\ DOMAIN s = 1 .. Len(s) /\ DOMAIN t = 1 .. Len(t)
      /\ DOMAIN (s \o t) = 1 .. Len(s) + Len(t)
  BY <1>1, LenProperties
<1>3. \A i \in 1 .. Len(s) + Len(t) :
         IF i <= Len(s) THEN i \in 1 .. Len(s) ELSE i - Len(s) \in 1 .. Len(t)
  BY <1>2
<1>4. Range(s \o t) \subseteq Range(s) \cup Range(t)
  BY <1>1, <1>2, <1>3 DEF Range
<1>5. \A i \in 1 .. Len(s) : i \in 1 .. Len(s) + Len(t) /\ (s \o t)[i] = s[i]
  BY <1>1, <1>2
<1>6. \A i \in 1 .. Len(t) :
         /\ Len(s) + i \in 1 .. Len(s) + Len(t)
         /\ ~(Len(s) + i <= Len(s)) /\ (Len(s) + i) - Len(s) = i
  BY <1>2
<1>7. \A i \in 1 .. Len(t) : (s \o t)[Len(s) + i] = t[i]
  BY <1>1, <1>6
<1>8. Range(s) \subseteq Range(s \o t)
  BY <1>2, <1>5 DEF Range
<1>9. Range(t) \subseteq Range(s \o t)
  BY <1>2, <1>6, <1>7 DEF Range
<1> QED
  BY <1>4, <1>8, <1>9

LEMMA SortedConcat ==
    ASSUME NEW S, NEW s \in Seq(S), NEW t \in Seq(S), Sorted(s), Sorted(t),
           \A c \in Range(s), d \in Range(t) : Before(c, d)
    PROVE  Sorted(s \o t)
<1> DEFINE u == s \o t
<1>1. /\ u \in Seq(S) /\ Len(u) = Len(s) + Len(t)
      /\ \A i \in 1 .. Len(s) + Len(t) : u[i] = IF i <= Len(s) THEN s[i] ELSE t[i - Len(s)]
  BY ConcatProperties
<1>2. /\ Len(s) \in Nat /\ Len(t) \in Nat
      /\ DOMAIN s = 1 .. Len(s) /\ DOMAIN t = 1 .. Len(t) /\ DOMAIN u = 1 .. Len(s) + Len(t)
  BY <1>1, LenProperties
<1> HIDE DEF u
<1> SUFFICES ASSUME NEW i \in 1 .. Len(s) + Len(t), NEW j \in 1 .. Len(s) + Len(t), i < j
             PROVE  Before(u[i], u[j])
  BY <1>2 DEF Sorted, u
<1>3. CASE j <= Len(s)
  <2>1. i \in DOMAIN s /\ j \in DOMAIN s /\ u[i] = s[i] /\ u[j] = s[j]
    BY <1>1, <1>2, <1>3
  <2> QED
    BY <2>1 DEF Sorted
<1>4. CASE i <= Len(s) /\ ~(j <= Len(s))
  <2>1. i \in DOMAIN s /\ j - Len(s) \in DOMAIN t /\ u[i] = s[i] /\ u[j] = t[j - Len(s)]
    BY <1>1, <1>2, <1>4
  <2> QED
    BY <2>1 DEF Range
<1>5. CASE ~(i <= Len(s))
  <2>1. /\ i - Len(s) \in DOMAIN t /\ j - Len(s) \in DOMAIN t /\ i - Len(s) < j - Len(s)
        /\ u[i] = t[i - Len(s)] /\ u[j] = t[j - Len(s)]
    BY <1>1, <1>2, <1>5
  <2> QED
    BY <2>1 DEF Sorted
<1> QED
  BY <1>2, <1>3, <1>4, <1>5

LEMMA SortedInjective ==
    ASSUME NEW s \in Seq(Calls), Sorted(s) PROVE IsInjective(s)
<1>1. DOMAIN s = 1 .. Len(s) /\ Len(s) \in Nat /\ \A i \in 1 .. Len(s) : s[i] \in Calls
  BY LenProperties, ElementOfSeq
<1>2. \A c \in Calls : c[1][2] \in Nat /\ c[2] \in Nat
  BY BoundsAssumption DEF Calls, Pieces
<1>3. \A c \in Calls : ~Before(c, c)
  BY <1>2 DEF Before
<1> SUFFICES ASSUME NEW i \in DOMAIN s, NEW j \in DOMAIN s, s[i] = s[j], i # j PROVE FALSE
  BY DEF IsInjective
<1>4. i < j \/ j < i
  BY <1>1
<1> QED
  BY <1>1, <1>3, <1>4 DEF Sorted

\* What is sorted, and among what is sorted, keeps its order.
LEMMA SortedChosen ==
    ASSUME NEW s \in Seq(Calls), NEW t \in Seq(Calls), Sorted(s), Sorted(t),
           Range(s) \subseteq Range(t)
    PROVE  Chosen(s, t)
<1>1. /\ DOMAIN s = 1 .. Len(s) /\ Len(s) \in Nat /\ \A i \in 1 .. Len(s) : s[i] \in Calls
      /\ DOMAIN t = 1 .. Len(t) /\ Len(t) \in Nat /\ \A i \in 1 .. Len(t) : t[i] \in Calls
  BY LenProperties, ElementOfSeq
<1>2. \A c \in Calls : c[1][2] \in Nat /\ c[2] \in Nat
  BY BoundsAssumption DEF Calls, Pieces
<1>3. \A c, d \in Calls : Before(c, d) => ~Before(d, c) /\ c # d
  BY <1>2 DEF Before
<1>4. ASSUME NEW i \in DOMAIN s, NEW j \in DOMAIN s, i < j
      PROVE  \E k, l \in DOMAIN t : k < l /\ s[i] = t[k] /\ s[j] = t[l]
  <2>1. PICK k \in DOMAIN t, l \in DOMAIN t : s[i] = t[k] /\ s[j] = t[l]
    BY DEF Range
  <2>2. Before(t[k], t[l])
    BY <1>4, <2>1 DEF Sorted
  <2>3. ~(l < k) /\ k # l
    BY <1>1, <1>3, <2>2 DEF Sorted
  <2>4. k < l
    BY <1>1, <2>3
  <2> QED
    BY <2>1, <2>4
<1> QED
  BY <1>4, SortedInjective DEF Chosen

-----------------------------------------------------------------------------
(* Types *)

LEMMA Types ==
    ASSUME TypeOK
    PROVE  /\ text \in Seq(Pieces) /\ prior \in Seq(Pieces)
           /\ held \in Seq(Pieces) /\ shown \in Seq(Pieces)
           /\ calls \in Seq(Calls) /\ pending \in Seq(Calls) /\ sent \in Seq(Calls)
           /\ retries \in Nat /\ retries <= RetryMax /\ parts \in Nat /\ parts <= MaxParts
           /\ RetryMax \in Nat /\ MaxParts \in Nat /\ MaxBlocks \in Nat /\ MaxAttempts \in Nat \ {0}
           /\ req.stream \in BOOLEAN /\ req.tools \in BOOLEAN /\ req.required \in BOOLEAN
           /\ acct \in Accounts /\ dead \in SUBSET Accounts /\ left \in SUBSET Accounts
           /\ hist = [status |-> hist.status, text |-> hist.text]
           /\ hist.text \in Seq(Pieces)
BY BoundsAssumption DEF TypeOK, Calls

LEMMA FirstPiece ==
    ASSUME TypeOK, parts < MaxParts
    PROVE  <<retries, parts + 1>> \in Pieces /\ parts + 1 \in 0 .. MaxParts
BY BoundsAssumption DEF TypeOK, Pieces

LEMMA InitTyped == Init => TypeOK
<1> SUFFICES ASSUME Init PROVE TypeOK
  OBVIOUS
<1>1. <<>> \in Seq(Pieces) /\ <<>> \in Seq(Calls)
  BY EmptySeq
<1>2. 0 \in 0 .. MaxAttempts /\ 0 \in 0 .. RetryMax /\ 0 \in 0 .. MaxParts
  BY BoundsAssumption
<1> QED
  BY <1>1, <1>2 DEF Init, TypeOK, Calls, Requests, Starting, Retrying, Uploading

LEMMA EndingTyped ==
    ASSUME TypeOK, NEW how \in Ends, NEW status \in {"success", "error", "stopped"},
           NEW what \in Seq(Pieces), Ending(how, status, what)
    PROVE  /\ pc' = "cleanup" /\ tries' = 0 /\ refreshed' = FALSE
           /\ end' = how
           /\ hist' \in [status : {"none", "streaming", "success", "error", "stopped"}, text : Seq(Pieces)]
BY DEF TypeOK, Ending, Goto, Records

LEMMA RequestPCs ==
    /\ Requests = {"files", "rebuild", "session", "pow", "context", "completion", "repow", "recompletion"}
    /\ Looping = {"session", "pow", "completion", "repow", "recompletion"}
BY DEF Requests, Looping, Starting, Retrying, Uploading

\* The end of a call that failed.
LEMMA FailsTyped ==
    ASSUME TypeOK, pc \in Requests, NEW banned \in SUBSET Accounts, Fails(banned)
    PROVE  TypeOK'
<1>1. /\ dead' = banned
      /\ UNCHANGED <<req, left, retries, parts, text, calls, filtered, prior, held, pending, done, gone>>
  BY DEF Fails, turn, sieve
<1>2. <<>> \in Seq(Pieces) /\ text \in Seq(Pieces) /\ 0 \in 0 .. MaxAttempts
  BY Types, BoundsAssumption, EmptySeq
<1>3. {"error", "failed"} \subseteq Ends /\ "error" \in {"success", "error", "stopped"}
  BY DEF Ends
<1>4. CASE RetryFails
  <2>1. UNCHANGED <<acct, files, sess, shown, sent>>
    BY <1>4 DEF RetryFails
  <2>2. CASE pc = "repow"
    BY <1>1, <1>2, <1>4, <2>1, <2>2, RequestPCs DEF RetryFails, Goto, TypeOK
  <2>3. CASE pc # "repow"
    <3>1. Ending(IF req.stream THEN "failed" ELSE "error", "error", text)
      BY <1>4, <2>3 DEF RetryFails
    <3>2. /\ pc' = "cleanup" /\ tries' = 0 /\ refreshed' = FALSE /\ end' \in Ends
          /\ hist' \in [status : {"none", "streaming", "success", "error", "stopped"}, text : Seq(Pieces)]
      BY <1>2, <1>3, <3>1, EndingTyped
    <3> QED
      BY <1>1, <1>2, <2>1, <3>2 DEF TypeOK
  <2> QED
    BY <2>2, <2>3
<1>5. CASE Moves(banned)
  <2>1. PICK b \in Accounts : acct' = b /\ sess' = None /\ Goto(IF pc = "files" THEN "files" ELSE "rebuild")
    BY <1>5 DEF Moves
  <2>2. files' = None /\ UNCHANGED <<shown, sent, end, hist>>
    BY <1>5 DEF Moves
  <2> QED
    BY <1>1, <1>2, <2>1, <2>2, RequestPCs DEF Goto, TypeOK
<1>6. CASE Stops
  <2>1. Ending("error", "error", text) /\ UNCHANGED <<acct, files, shown, sent>>
        /\ sess' \in {None, sess}
    BY <1>6 DEF Stops
  <2>2. /\ pc' = "cleanup" /\ tries' = 0 /\ refreshed' = FALSE /\ end' \in Ends
        /\ hist' \in [status : {"none", "streaming", "success", "error", "stopped"}, text : Seq(Pieces)]
    BY <1>2, <1>3, <2>1, EndingTyped
  <2> QED
    BY <1>1, <1>2, <2>1, <2>2 DEF TypeOK
<1> QED
  BY <1>4, <1>5, <1>6 DEF Fails

LEMMA SucceedsTyped == ASSUME TypeOK, Succeeds PROVE TypeOK'
<1>1. /\ UNCHANGED <<req, acct, dead, retries, parts, text, calls, filtered, prior, held, pending,
                     done, shown, sent, end, gone>>
      /\ pc \in Requests
  BY DEF Succeeds, turn, sieve, wire
<1>2. 0 \in 0 .. MaxAttempts
  BY BoundsAssumption
<1>3. /\ pc' \in Requests \cup {"gate", "reading"} /\ tries' = 0 /\ refreshed' = FALSE
      /\ files' \in {files, acct} /\ sess' \in {sess, acct} /\ left' \in {left, left \cup {acct}}
      /\ hist' \in {hist, [hist EXCEPT !.status = "streaming"]}
  BY <1>1, RequestPCs DEF Succeeds, Goto
<1>4. hist' \in [status : {"none", "streaming", "success", "error", "stopped"}, text : Seq(Pieces)]
  BY <1>3 DEF TypeOK
<1>5. {files', sess'} \subseteq Accounts \cup {None} /\ left' \in SUBSET Accounts
  BY <1>3 DEF TypeOK
<1>6. pc' \in Requests \cup {"gate", "reading", "cleanup", "done"} /\ tries' \in 0 .. MaxAttempts
      /\ refreshed' \in BOOLEAN
  BY <1>2, <1>3
<1> QED
  BY <1>1, <1>4, <1>5, <1>6 DEF TypeOK

LEMMA UpstreamTyped == ASSUME TypeOK, Upstream PROVE TypeOK'
<1>1. CASE Succeeds
  BY <1>1, SucceedsTyped
<1>2. CASE Again
  <2>1. tries + 1 \in 0 .. MaxAttempts
    BY <1>2, Types DEF Again, TypeOK
  <2> QED
    BY <1>2, <2>1 DEF Again, TypeOK, turn, sieve, wire
<1>3. CASE Refresh
  BY <1>3 DEF Refresh, TypeOK, turn, sieve, wire
<1>4. CASE GivesUp
  <2>1. dead \in SUBSET Accounts
    BY DEF TypeOK
  <2> QED
    BY <1>4, <2>1, FailsTyped DEF GivesUp
<1>5. CASE Discovers
  <2>1. dead \cup {acct} \in SUBSET Accounts
    BY DEF TypeOK
  <2> QED
    BY <1>5, <2>1, FailsTyped DEF Discovers
<1>6. CASE Admit
  <2>1. 0 \in 0 .. MaxAttempts
    BY BoundsAssumption
  <2> QED
    BY <1>6, <2>1, RequestPCs DEF Admit, Goto, TypeOK, turn, sieve, wire
<1>7. CASE Refuses
  <2>1. Ending("error", "error", <<>>) /\ <<>> \in Seq(Pieces) /\ "error" \in Ends
    BY <1>7, EmptySeq DEF Refuses, Ends
  <2>2. /\ pc' = "cleanup" /\ tries' = 0 /\ refreshed' = FALSE /\ end' \in Ends
        /\ hist' \in [status : {"none", "streaming", "success", "error", "stopped"}, text : Seq(Pieces)]
    BY <2>1, EndingTyped
  <2>3. 0 \in 0 .. MaxAttempts
    BY BoundsAssumption
  <2> QED
    BY <1>7, <2>2, <2>3 DEF Refuses, TypeOK, turn, sieve
<1> QED
  BY <1>1, <1>2, <1>3, <1>4, <1>5, <1>6, <1>7 DEF Upstream

-----------------------------------------------------------------------------
(* The answer, and the types of its steps *)

LEMMA VisibleTyped ==
    ASSUME NEW s \in Seq(Pieces) PROVE Visible(s) \in Seq(Pieces)
BY EmptySeq DEF Visible

LEMMA TextTyped == ASSUME TypeOK, Text PROVE TypeOK'
<1> DEFINE piece == <<retries, parts + 1>>
<1>1. /\ pc = "reading" /\ parts < MaxParts /\ parts' = parts + 1
      /\ text' = Append(text, piece)
      /\ UNCHANGED <<req, pc, tries, refreshed, acct, dead, files, sess, left, retries, calls,
                     filtered, prior, end, hist, gone>>
  BY DEF Text, call
<1>2. piece \in Pieces /\ parts' \in 0 .. MaxParts
  BY <1>1, FirstPiece
<1>3. /\ text \in Seq(Pieces) /\ held \in Seq(Pieces) /\ shown \in Seq(Pieces)
      /\ sent \in Seq(Calls) /\ pending \in Seq(Calls) /\ done \in BOOLEAN
  BY Types DEF TypeOK
<1> HIDE DEF piece
<1>4. text' \in Seq(Pieces)
  BY <1>1, <1>2, <1>3, AppendProperties
<1>5. Append(held, piece) \in Seq(Pieces)
  BY <1>2, <1>3, AppendProperties
<1>6. Visible(Append(held, piece)) \in Seq(Pieces)
  BY <1>5, VisibleTyped
<1>7. shown \o Visible(Append(held, piece)) \in Seq(Pieces)
  BY <1>3, <1>6, ConcatProperties
<1>8. sent \o pending \in Seq(Calls)
  BY <1>3, ConcatProperties
<1>9. <<>> \in Seq(Calls) /\ <<>> \in Seq(Pieces)
  BY EmptySeq
<1>10. held' \in {held, <<>>, Append(held, piece)}
       /\ shown' \in {shown, shown \o Visible(Append(held, piece))}
       /\ sent' \in {sent, sent \o pending} /\ pending' \in {pending, <<>>} /\ done' \in BOOLEAN
  BY <1>3 DEF Text, HandsOn, piece
<1>11. held' \in Seq(Pieces) /\ shown' \in Seq(Pieces) /\ sent' \in Seq(Calls)
       /\ pending' \in Seq(Calls) /\ done' \in BOOLEAN
  BY <1>3, <1>5, <1>7, <1>8, <1>9, <1>10
<1> QED
  BY <1>1, <1>2, <1>4, <1>11 DEF TypeOK, Calls

\* The blocks of one chunk.
LEMMA BlocksFound ==
    ASSUME TypeOK, Blocks
    PROVE  /\ pc = "reading" /\ parts < MaxParts /\ parts' = parts + 1
           /\ UNCHANGED <<req, pc, tries, refreshed, acct, dead, files, sess, left, retries, text,
                          filtered, prior, held, shown, end, hist, gone>>
           /\ \E n \in 1 .. MaxBlocks, new \in Seq(Calls) :
                /\ Len(new) = n /\ \A i \in 1 .. n : new[i] = <<<<retries, parts + 1>>, i>>
                /\ calls' = calls \o new
                /\ IF req.stream
                   THEN /\ sent' = sent \o pending /\ done' = (done \/ pending # <<>>)
                        /\ pending' = <<new[n]>>
                   ELSE UNCHANGED <<pending, sent, done>>
<1>1. /\ pc = "reading" /\ parts < MaxParts /\ parts' = parts + 1
      /\ UNCHANGED <<req, pc, tries, refreshed, acct, dead, files, sess, left, retries, text,
                     filtered, prior, held, shown, end, hist, gone>>
  BY DEF Blocks, call
<1> DEFINE piece == <<retries, parts + 1>>
<1>2. PICK n \in 1 .. MaxBlocks :
        /\ calls' = calls \o [i \in 1 .. n |-> <<piece, i>>]
        /\ IF req.stream THEN HandsOn /\ pending' = <<<<piece, n>>>>
           ELSE UNCHANGED <<pending, sent, done>>
  BY DEF Blocks
<1>3. piece \in Pieces
  BY <1>1, FirstPiece
<1> DEFINE new == [i \in 1 .. n |-> <<piece, i>>]
<1>4. n \in Nat /\ n \in 1 .. n /\ \A i \in 1 .. n : i \in 1 .. MaxBlocks
  BY BoundsAssumption
<1> HIDE DEF piece
<1>5. \A i \in 1 .. n : <<piece, i>> \in Calls
  BY <1>3, <1>4 DEF Calls
<1>6. new \in Seq(Calls) /\ Len(new) = n /\ \A i \in 1 .. n : new[i] = <<piece, i>>
  BY <1>4, <1>5
<1> HIDE DEF new
<1>7. new[n] = <<piece, n>>
  BY <1>4, <1>6
<1>8. IF req.stream THEN /\ sent' = sent \o pending /\ done' = (done \/ pending # <<>>)
                         /\ pending' = <<new[n]>>
      ELSE UNCHANGED <<pending, sent, done>>
  BY <1>2, <1>7 DEF HandsOn
<1>9. calls' = calls \o new
  BY <1>2 DEF new
<1> QED
  BY <1>1, <1>6, <1>8, <1>9 DEF piece

LEMMA BlocksTyped == ASSUME TypeOK, Blocks PROVE TypeOK'
<1>1. /\ pc = "reading" /\ parts < MaxParts /\ parts' = parts + 1
      /\ UNCHANGED <<req, pc, tries, refreshed, acct, dead, files, sess, left, retries, text,
                     filtered, prior, held, shown, end, hist, gone>>
  BY BlocksFound
<1>2. PICK n \in 1 .. MaxBlocks, new \in Seq(Calls) :
        /\ Len(new) = n
        /\ calls' = calls \o new
        /\ IF req.stream
           THEN /\ sent' = sent \o pending /\ done' = (done \/ pending # <<>>)
                /\ pending' = <<new[n]>>
           ELSE UNCHANGED <<pending, sent, done>>
  BY BlocksFound
<1>3. calls \in Seq(Calls) /\ sent \in Seq(Calls) /\ pending \in Seq(Calls) /\ done \in BOOLEAN
      /\ calls = calls
  BY Types DEF TypeOK
<1>4. parts' \in 0 .. MaxParts
  BY <1>1, FirstPiece
<1>5. new[n] \in Calls
  <2>1. n \in 1 .. Len(new)
    BY <1>2, BoundsAssumption
  <2> QED
    BY <2>1, ElementOfSeq
<1>6. calls' \in Seq(Calls) /\ sent \o pending \in Seq(Calls)
  BY <1>2, <1>3, ConcatProperties
<1>7. <<new[n]>> \in Seq(Calls)
  BY <1>5
<1>8. sent' \in Seq(Calls) /\ pending' \in Seq(Calls) /\ done' \in BOOLEAN
  BY <1>2, <1>3, <1>6, <1>7
<1> QED
  BY <1>1, <1>4, <1>6, <1>8 DEF TypeOK, Calls

LEMMA BeginRetryTyped ==
    ASSUME TypeOK, retries < RetryMax, BeginRetry
    PROVE  /\ pc' \in Requests /\ tries' \in 0 .. MaxAttempts /\ refreshed' \in BOOLEAN
           /\ retries' \in 0 .. RetryMax /\ parts' \in 0 .. MaxParts
           /\ text' \in Seq(Pieces) /\ prior' \in Seq(Pieces) /\ held' \in Seq(Pieces)
           /\ calls' \in Seq(Calls) /\ pending' \in Seq(Calls)
           /\ filtered' \in BOOLEAN /\ done' \in BOOLEAN
<1>1. text \in Seq(Pieces) /\ <<>> \in Seq(Pieces) /\ <<>> \in Seq(Calls)
  BY Types, EmptySeq
<1>2. retries + 1 \in 0 .. RetryMax /\ 0 \in 0 .. MaxAttempts /\ 0 \in 0 .. MaxParts
  BY BoundsAssumption DEF TypeOK
<1> QED
  BY <1>1, <1>2, RequestPCs DEF BeginRetry, Goto

\* What the end of a stream sends, and what it leaves.
LEMMA Finalized ==
    ASSUME TypeOK, NEW reason, Finalize(reason)
    PROVE  /\ UNCHANGED <<req, acct, dead, files, sess, left, gone>>
           /\ shown' = shown \o LastText /\ sent' = sent \o LastCalls
           /\ LastText \in Seq(Pieces) /\ LastCalls \in Seq(Calls)
           /\ shown' \in Seq(Pieces) /\ sent' \in Seq(Calls)
           /\ \/ /\ retries < RetryMax /\ Incomplete /\ BeginRetry
                 /\ UNCHANGED <<end, hist>>
              \/ /\ IF Invalid(text) THEN Ending("failed", "error", text)
                                     ELSE Ending("finish", "success", text)
                 /\ held' = <<>> /\ pending' = <<>>
                 /\ UNCHANGED <<retries, parts, text, calls, filtered, prior, done>>
<1>1. /\ shown \in Seq(Pieces) /\ held \in Seq(Pieces)
      /\ sent \in Seq(Calls) /\ pending \in Seq(Calls) /\ calls \in Seq(Calls)
  BY Types
<1>2. LastText \in Seq(Pieces) /\ LastCalls \in Seq(Calls)
  BY <1>1, VisibleTyped, EmptySeq DEF LastText, LastCalls
<1>3. shown' = shown \o LastText /\ sent' = sent \o LastCalls
  BY DEF Finalize
<1>4. shown' \in Seq(Pieces) /\ sent' \in Seq(Calls)
  BY <1>1, <1>2, <1>3, ConcatProperties
<1>5. UNCHANGED <<req, acct, dead, files, sess, left, gone>>
  BY DEF Finalize
<1>6. \/ /\ retries < RetryMax /\ Incomplete /\ BeginRetry
         /\ UNCHANGED <<end, hist>>
      \/ /\ IF Invalid(text) THEN Ending("failed", "error", text)
                             ELSE Ending("finish", "success", text)
         /\ held' = <<>> /\ pending' = <<>>
         /\ UNCHANGED <<retries, parts, text, calls, filtered, prior, done>>
  BY DEF Finalize, turn
<1> QED
  BY <1>2, <1>3, <1>4, <1>5, <1>6

LEMMA FinalizeTyped == ASSUME TypeOK, NEW reason, Finalize(reason) PROVE TypeOK'
<1>1. /\ UNCHANGED <<req, acct, dead, files, sess, left, gone>>
      /\ shown' \in Seq(Pieces) /\ sent' \in Seq(Calls)
  BY Finalized
<1>2. CASE retries < RetryMax /\ BeginRetry /\ UNCHANGED <<end, hist>>
  <2>1. /\ pc' \in Requests /\ tries' \in 0 .. MaxAttempts /\ refreshed' \in BOOLEAN
        /\ retries' \in 0 .. RetryMax /\ parts' \in 0 .. MaxParts
        /\ text' \in Seq(Pieces) /\ prior' \in Seq(Pieces) /\ held' \in Seq(Pieces)
        /\ calls' \in Seq(Calls) /\ pending' \in Seq(Calls)
        /\ filtered' \in BOOLEAN /\ done' \in BOOLEAN
    BY <1>2, BeginRetryTyped
  <2> QED
    BY <1>1, <1>2, <2>1 DEF TypeOK, Calls
<1>3. ASSUME NEW how \in Ends, NEW status \in {"success", "error", "stopped"},
             Ending(how, status, text), held' = <<>>, pending' = <<>>,
             UNCHANGED <<retries, parts, text, calls, filtered, prior, done>>
      PROVE  TypeOK'
  <2>1. text \in Seq(Pieces) /\ <<>> \in Seq(Pieces) /\ <<>> \in Seq(Calls) /\ 0 \in 0 .. MaxAttempts
    BY Types, EmptySeq, BoundsAssumption
  <2>2. /\ pc' = "cleanup" /\ tries' = 0 /\ refreshed' = FALSE /\ end' = how
        /\ hist' \in [status : {"none", "streaming", "success", "error", "stopped"}, text : Seq(Pieces)]
    BY <1>3, <2>1, EndingTyped
  <2> QED
    BY <1>1, <1>3, <2>1, <2>2 DEF TypeOK, Calls
<1>4. "failed" \in Ends /\ "finish" \in Ends
  BY DEF Ends
<1> QED
  BY <1>2, <1>3, <1>4, Finalized

\* What the end of an answer that is not streamed sends.
LEMMA CollectedAnswer ==
    ASSUME TypeOK, Collected
    PROVE  /\ ~req.stream /\ pc = "reading"
           /\ UNCHANGED <<req, acct, dead, files, sess, left, gone>>
           /\ TheAnswer \in Seq(Pieces)
           /\ \/ /\ retries < RetryMax /\ Incomplete /\ BeginRetry
                 /\ UNCHANGED <<shown, sent, end, hist>>
              \/ /\ \/ /\ Invalid(TheAnswer) /\ Ending("error", "error", TheAnswer)
                       /\ UNCHANGED <<shown, sent>>
                    \/ /\ ~Invalid(TheAnswer) /\ Ending("finish", "success", TheAnswer)
                       /\ shown' = TheAnswer /\ sent' = calls
                 /\ filtered' \in BOOLEAN
                 /\ UNCHANGED <<retries, parts, text, calls, prior, held, pending, done>>
<1>1. text \in Seq(Pieces) /\ prior \in Seq(Pieces)
  BY Types
<1>2. TheAnswer \in Seq(Pieces)
  BY <1>1 DEF TheAnswer
<1>3. ~req.stream /\ pc = "reading" /\ UNCHANGED <<req, acct, dead, files, sess, left, gone>>
  BY DEF Collected
<1>4. PICK f \in BOOLEAN :
        IF retries < RetryMax /\ Incomplete /\ ~f
        THEN BeginRetry /\ UNCHANGED <<shown, sent, end, hist>>
        ELSE /\ IF Invalid(TheAnswer) THEN /\ Ending("error", "error", TheAnswer)
                                           /\ UNCHANGED <<shown, sent>>
                ELSE /\ Ending("finish", "success", TheAnswer)
                     /\ shown' = TheAnswer /\ sent' = calls
             /\ filtered' = f
             /\ UNCHANGED <<retries, parts, text, calls, prior, sieve>>
  BY DEF Collected
<1> QED
  BY <1>2, <1>3, <1>4 DEF sieve

LEMMA CollectedTyped == ASSUME TypeOK, Collected PROVE TypeOK'
<1>1. /\ UNCHANGED <<req, acct, dead, files, sess, left, gone>>
      /\ TheAnswer \in Seq(Pieces)
  BY CollectedAnswer
<1>2. CASE retries < RetryMax /\ BeginRetry /\ UNCHANGED <<shown, sent, end, hist>>
  <2>1. /\ pc' \in Requests /\ tries' \in 0 .. MaxAttempts /\ refreshed' \in BOOLEAN
        /\ retries' \in 0 .. RetryMax /\ parts' \in 0 .. MaxParts
        /\ text' \in Seq(Pieces) /\ prior' \in Seq(Pieces) /\ held' \in Seq(Pieces)
        /\ calls' \in Seq(Calls) /\ pending' \in Seq(Calls)
        /\ filtered' \in BOOLEAN /\ done' \in BOOLEAN
    BY <1>2, BeginRetryTyped
  <2> QED
    BY <1>1, <1>2, <2>1 DEF TypeOK, Calls
<1>3. ASSUME NEW how \in Ends, NEW status \in {"success", "error", "stopped"},
             Ending(how, status, TheAnswer),
             shown' \in {shown, TheAnswer}, sent' \in {sent, calls}, filtered' \in BOOLEAN,
             UNCHANGED <<retries, parts, text, calls, prior, held, pending, done>>
      PROVE  TypeOK'
  <2>1. /\ pc' = "cleanup" /\ tries' = 0 /\ refreshed' = FALSE /\ end' = how
        /\ hist' \in [status : {"none", "streaming", "success", "error", "stopped"}, text : Seq(Pieces)]
    BY <1>1, <1>3, EndingTyped
  <2>2. shown' \in Seq(Pieces) /\ sent' \in Seq(Calls) /\ 0 \in 0 .. MaxAttempts
    BY <1>1, <1>3, Types, BoundsAssumption
  <2> QED
    BY <1>1, <1>3, <2>1, <2>2 DEF TypeOK, Calls
<1>4. "error" \in Ends /\ "finish" \in Ends
  BY DEF Ends
<1> QED
  BY <1>2, <1>3, <1>4, CollectedAnswer

LEMMA NextTyped == ASSUME TypeOK, [Next]_vars PROVE TypeOK'
<1>1. CASE Upstream
  BY <1>1, UpstreamTyped
<1>2. CASE Text \/ Blocks \/ Collected
  BY <1>2, TextTyped, BlocksTyped, CollectedTyped
<1>3. CASE StreamEnds
  BY <1>3, FinalizeTyped DEF StreamEnds
<1>4. CASE StreamCancelled
  <2>1. Ending("left", "stopped", text) /\ text \in Seq(Pieces) /\ "left" \in Ends
    BY <1>4, Types DEF StreamCancelled, Ends
  <2>2. /\ pc' = "cleanup" /\ tries' = 0 /\ refreshed' = FALSE /\ end' \in Ends
        /\ hist' \in [status : {"none", "streaming", "success", "error", "stopped"}, text : Seq(Pieces)]
    BY <2>1, EndingTyped
  <2>3. 0 \in 0 .. MaxAttempts
    BY BoundsAssumption
  <2> QED
    BY <1>4, <2>2, <2>3 DEF StreamCancelled, TypeOK, turn, sieve
<1>5. CASE CleanUp
  <2>1. left' \in SUBSET Accounts /\ pc' = "done"
    BY <1>5 DEF CleanUp, TypeOK
  <2> QED
    BY <1>5, <2>1 DEF CleanUp, TypeOK, call, turn, sieve, wire
<1>6. CASE Leave
  BY <1>6 DEF Leave, TypeOK, call, turn, sieve, wire
<1>7. CASE UNCHANGED vars
  BY <1>7 DEF vars, TypeOK, call, turn, sieve, wire
<1> QED
  BY <1>1, <1>2, <1>3, <1>4, <1>5, <1>6, <1>7 DEF Next, Answer

-----------------------------------------------------------------------------
(* Accounts and sessions *)

\* An answer ends, or is asked for again, on the account that has given it.
LEMMA ReadAccounted ==
    ASSUME Accounted, pc = "reading", pc' \in {"repow", "reading", "cleanup"},
           UNCHANGED <<acct, dead, files, sess, left>>
    PROVE  Accounted'
BY RequestPCs DEF Accounted, Retrying, Uploading

LEMMA FailsAccounted ==
    ASSUME TypeOK, Accounted, pc \in Requests, NEW banned \in SUBSET Accounts,
           dead \subseteq banned, Fails(banned)
    PROVE  Accounted'
<1>1. dead' = banned /\ left' = left
  BY DEF Fails
<1>2. acct \in Accounts /\ None \notin Accounts
  BY NoneAssumption DEF TypeOK
<1>3. CASE pc \in Retrying /\ RetryFails
  <2>1. UNCHANGED <<acct, files, sess>> /\ pc' \in {"recompletion", "cleanup"}
    BY <1>3 DEF RetryFails, Goto, Ending
  <2>2. sess = acct /\ files = acct /\ pc # "rebuild"
    BY <1>3, RequestPCs DEF Accounted, Retrying, Uploading
  <2> QED
    BY <1>1, <2>1, <2>2 DEF Accounted
<1>4. CASE Moves(banned)
  <2>1. acct \in banned /\ sess' = None /\ files' = None /\ pc' \in {"files", "rebuild"}
        /\ acct' \in Accounts
    BY <1>4 DEF Moves, MaySwitch, Goto
  <2>2. left' \subseteq banned
    BY <1>1, <2>1 DEF Accounted
  <2>3. pc' \notin {"pow", "context", "completion", "reading"} \cup Retrying /\ pc' \in Uploading
    BY <2>1 DEF Retrying, Uploading
  <2> QED
    BY <1>1, <2>1, <2>2, <2>3 DEF Accounted
<1>5. CASE Stops
  <2>1. /\ pc' = "cleanup" /\ UNCHANGED <<acct, files>>
        /\ sess' = IF pc = "rebuild" THEN None ELSE sess
    BY <1>5 DEF Stops, Ending, Goto
  <2>2. sess' = sess
    BY <2>1 DEF Accounted
  <2>3. pc' \notin {"pow", "context", "completion", "reading"} \cup Retrying
        /\ pc' \notin Requests \cup {"gate", "reading"}
    BY <2>1, RequestPCs DEF Retrying
  <2> QED
    BY <1>1, <2>1, <2>2, <2>3 DEF Accounted
<1> QED
  BY <1>3, <1>4, <1>5 DEF Fails

LEMMA SucceedsAccounted == ASSUME TypeOK, Accounted, Succeeds PROVE Accounted'
<1>1. UNCHANGED <<acct, dead>> /\ pc \in Requests
  BY DEF Succeeds
<1>2. CASE pc = "files" \/ pc = "rebuild"
  <2>1. pc' \in {"gate", "session"} /\ files' = acct /\ UNCHANGED <<sess, left>>
    BY <1>2 DEF Succeeds, Goto
  <2> QED
    BY <1>1, <2>1 DEF Accounted, Retrying, Uploading
<1>3. CASE pc = "session"
  <2>1. pc' = "pow" /\ sess' = acct /\ left' = left \cup {acct} /\ UNCHANGED files
    BY <1>3 DEF Succeeds, Goto
  <2>2. files = acct
    BY <1>3, RequestPCs DEF Accounted, Uploading
  <2> QED
    BY <1>1, <2>1, <2>2 DEF Accounted, Retrying, Uploading
<1>4. CASE pc \in {"pow", "context", "completion", "repow", "recompletion"}
  <2>1. /\ pc' \in {"context", "completion", "reading", "recompletion"}
        /\ UNCHANGED <<files, sess, left>>
    BY <1>4 DEF Succeeds, Goto
  <2>2. sess = acct /\ files = acct
    BY <1>4, RequestPCs DEF Accounted, Retrying, Uploading
  <2> QED
    BY <1>1, <2>1, <2>2 DEF Accounted
<1> QED
  BY <1>1, <1>2, <1>3, <1>4, RequestPCs

LEMMA NextAccounted == ASSUME TypeOK, Accounted, [Next]_vars PROVE Accounted'
<1>1. CASE Succeeds
  BY <1>1, SucceedsAccounted
<1>2. CASE GivesUp
  <2>1. dead \in SUBSET Accounts
    BY DEF TypeOK
  <2> QED
    BY <1>2, <2>1, FailsAccounted DEF GivesUp
<1>3. CASE Discovers
  <2>1. dead \cup {acct} \in SUBSET Accounts
    BY DEF TypeOK
  <2> QED
    BY <1>3, <2>1, FailsAccounted DEF Discovers
<1>4. CASE Again \/ Refresh \/ Leave \/ UNCHANGED vars
  <2>1. UNCHANGED <<pc, acct, dead, files, sess, left>>
    BY <1>4 DEF Again, Refresh, Leave, vars
  <2> QED
    BY <2>1 DEF Accounted
<1>5. CASE Admit
  <2>1. pc = "gate" /\ pc' = "session" /\ UNCHANGED <<acct, dead, files, sess, left>>
    BY <1>5 DEF Admit, Goto
  <2> QED
    BY <2>1 DEF Accounted, Retrying, Uploading
<1>6. CASE Refuses \/ StreamCancelled
  <2>1. pc' = "cleanup" /\ UNCHANGED <<acct, dead, files, sess, left>>
    BY <1>6 DEF Refuses, StreamCancelled, Ending, Goto
  <2> QED
    BY <2>1, RequestPCs DEF Accounted, Retrying
<1>7. CASE Text \/ Blocks
  <2>1. pc = "reading" /\ UNCHANGED <<pc, acct, dead, files, sess, left>>
    BY <1>7 DEF Text, Blocks
  <2> QED
    BY <2>1 DEF Accounted
<1>8. CASE StreamEnds
  <2>1. PICK reason : Finalize(reason) /\ pc = "reading"
    BY <1>8 DEF StreamEnds, Streaming
  <2>2. UNCHANGED <<acct, dead, files, sess, left>> /\ pc' \in {"repow", "cleanup"}
    BY <2>1, Finalized DEF BeginRetry, Ending, Goto
  <2> QED
    BY <2>1, <2>2, ReadAccounted
<1>9. CASE Collected
  <2>1. pc = "reading" /\ UNCHANGED <<acct, dead, files, sess, left>> /\ pc' \in {"repow", "cleanup"}
    BY <1>9, CollectedAnswer DEF BeginRetry, Ending, Goto
  <2> QED
    BY <2>1, ReadAccounted
<1>10. CASE CleanUp
  <2>1. pc' = "done" /\ UNCHANGED <<acct, dead, files, sess>>
        /\ left' = IF sess = acct THEN left \ {sess} ELSE left
    BY <1>10 DEF CleanUp
  <2> QED
    BY <2>1, RequestPCs DEF Accounted, Retrying
<1> QED
  BY <1>1, <1>2, <1>3, <1>4, <1>5, <1>6, <1>7, <1>8, <1>9, <1>10 DEF Next, Upstream, Answer

-----------------------------------------------------------------------------
(* The end of an answer, and its record *)

LEMMA EndingEnded ==
    ASSUME Ended, end = "open",
           NEW how \in Ends, NEW status \in {"success", "error", "stopped"}, NEW what,
           Ending(how, status, what),
           status = "success" <=> how = "finish",
           status = "stopped" <=> how = "left",
           status = "success" => (shown' # <<>> \/ sent' # <<>>) /\ IsPrefix(shown', what)
    PROVE  Ended'
<1>1. pc' = "cleanup" /\ end' = how /\ how # "open"
      /\ hist' = IF hist.status = "none" THEN hist ELSE [status |-> status, text |-> what]
  BY DEF Ending, Goto, Records, Ends
<1>2. CASE hist.status = "none"
  BY <1>1, <1>2 DEF Ended
<1>3. CASE hist.status # "none"
  <2>1. hist'.status = status /\ hist'.text = what
    BY <1>1, <1>3
  <2> QED
    BY <1>1, <2>1 DEF Ended
<1> QED
  BY <1>2, <1>3

\* The answer goes on.
LEMMA GoesOnEnded ==
    ASSUME Ended, end = "open", end' = "open", pc' \notin {"cleanup", "done"},
           hist'.status \in {"none", "streaming"}
    PROVE  Ended'
BY DEF Ended

LEMMA FailsEnded ==
    ASSUME Ended, pc \in Requests, NEW banned, Fails(banned) PROVE Ended'
<1>1. end = "open" /\ hist.status \in {"none", "streaming"}
  BY RequestPCs DEF Ended
<1>2. CASE pc = "repow" /\ RetryFails
  <2>1. pc' = "recompletion" /\ UNCHANGED <<end, hist>>
    BY <1>2 DEF RetryFails, Goto
  <2> QED
    BY <1>1, <2>1, GoesOnEnded
<1>3. CASE (pc # "repow" /\ RetryFails) \/ Stops
  <2>1. PICK how \in {"failed", "error"} : Ending(how, "error", text)
    BY <1>3 DEF RetryFails, Stops
  <2>2. how \in Ends
    BY DEF Ends
  <2> QED
    BY <1>1, <2>1, <2>2, EndingEnded
<1>4. CASE Moves(banned)
  <2>1. pc' \in {"files", "rebuild"} /\ UNCHANGED <<end, hist>>
    BY <1>4 DEF Moves, Goto
  <2> QED
    BY <1>1, <2>1, GoesOnEnded
<1> QED
  BY <1>2, <1>3, <1>4 DEF Fails

\* Every step but those of an answer that is being read.
QuietStep ==
    \/ Upstream \/ StreamCancelled \/ CleanUp \/ Leave \/ UNCHANGED vars

LEMMA QuietEnded == ASSUME TypeOK, Ended, QuietStep PROVE Ended'
<1>1. CASE Succeeds
  <2>1. /\ pc \in Requests /\ pc' \in Requests \cup {"gate", "reading"} /\ end' = end
        /\ hist' \in {hist, [hist EXCEPT !.status = "streaming"]}
    BY <1>1, RequestPCs DEF Succeeds, Goto, wire
  <2>2. end = "open" /\ hist.status \in {"none", "streaming"}
    BY <2>1, RequestPCs DEF Ended
  <2>3. hist'.status \in {"none", "streaming"}
    BY <2>1, <2>2, Types
  <2> QED
    BY <2>1, <2>2, <2>3, RequestPCs, GoesOnEnded
<1>2. CASE GivesUp \/ Discovers
  BY <1>2, FailsEnded DEF GivesUp, Discovers
<1>3. CASE Admit
  <2>1. pc = "gate" /\ pc' = "session" /\ UNCHANGED <<end, hist>>
    BY <1>3 DEF Admit, Goto, wire
  <2> QED
    BY <2>1 DEF Ended
<1>4. CASE Refuses
  <2>1. end = "open" /\ Ending("error", "error", <<>>) /\ "error" \in Ends
    BY <1>4 DEF Refuses, Ended, Ends
  <2> QED
    BY <2>1, EndingEnded
<1>5. CASE StreamCancelled
  <2>1. end = "open" /\ Ending("left", "stopped", text) /\ "left" \in Ends
    BY <1>5 DEF StreamCancelled, Streaming, Ended, Ends
  <2> QED
    BY <2>1, EndingEnded
<1>6. CASE Again \/ Refresh \/ Leave \/ UNCHANGED vars
  <2>1. UNCHANGED <<pc, end, hist, shown, sent>>
    BY <1>6 DEF Again, Refresh, Leave, vars, wire
  <2> QED
    BY <2>1 DEF Ended
<1>7. CASE CleanUp
  <2>1. pc = "cleanup" /\ pc' = "done" /\ UNCHANGED <<end, hist, shown, sent>>
    BY <1>7 DEF CleanUp, wire
  <2> QED
    BY <2>1 DEF Ended
<1> QED
  BY <1>1, <1>2, <1>3, <1>4, <1>5, <1>6, <1>7 DEF QuietStep, Upstream

\* They leave the answer as it is.
LEMMA QuietKeeps ==
    ASSUME Ended, QuietStep
    PROVE  /\ UNCHANGED <<req, retries, parts, text, calls, prior, held, pending, done, shown, sent>>
           /\ end' = "open" => end = "open"
           /\ end' = "finish" => end = "finish"
<1>1. ASSUME NEW banned, Fails(banned)
      PROVE  /\ UNCHANGED <<req, retries, parts, text, calls, prior, held, pending, done, shown, sent>>
             /\ end' \in {end, "failed", "error"}
  BY <1>1 DEF Fails, RetryFails, Moves, Stops, Ending, turn, sieve
<1>2. CASE GivesUp \/ Discovers
  BY <1>1, <1>2 DEF GivesUp, Discovers
<1>3. CASE Succeeds \/ Again \/ Refresh \/ Admit
  BY <1>3 DEF Succeeds, Again, Refresh, Admit, turn, sieve, wire
<1>4. CASE Refuses \/ StreamCancelled
  BY <1>4 DEF Refuses, StreamCancelled, Ending, turn, sieve
<1>5. CASE CleanUp \/ Leave \/ UNCHANGED vars
  BY <1>5 DEF CleanUp, Leave, vars, turn, sieve, wire
<1> QED
  BY <1>2, <1>3, <1>4, <1>5 DEF QuietStep, Upstream

Faithful == Written /\ Shown /\ Called /\ Sifted /\ CallsOnce

LEMMA QuietFaithful == ASSUME Ended, Faithful, QuietStep PROVE Faithful'
<1>1. /\ UNCHANGED <<req, retries, parts, text, calls, prior, held, pending, done, shown, sent>>
      /\ end' = "open" => end = "open"
      /\ end' = "finish" => end = "finish"
  BY QuietKeeps
<1>2. Written'
  BY <1>1 DEF Faithful, Written, Arrived
<1>3. Shown'
  BY <1>1 DEF Faithful, Shown
<1>4. Called'
  BY <1>1 DEF Faithful, Called, Sorted
<1>5. Sifted'
  BY <1>1 DEF Faithful, Sifted, Sorted
<1>6. CallsOnce'
  BY <1>1 DEF Faithful, CallsOnce
<1> QED
  BY <1>2, <1>3, <1>4, <1>5, <1>6 DEF Faithful

-----------------------------------------------------------------------------
(* The answer *)

LEMMA CallTyped ==
    ASSUME TypeOK
    PROVE  /\ \A p \in Range(text) : p \in Pieces /\ p[1] \in Nat /\ p[2] \in Nat
           /\ \A c \in Range(calls) :
                c \in Calls /\ c[1] \in Pieces /\ c[1][1] \in Nat /\ c[1][2] \in Nat /\ c[2] \in Nat
<1>1. \A p \in Pieces : p[1] \in Nat /\ p[2] \in Nat
  BY BoundsAssumption DEF Pieces
<1>2. \A c \in Calls : c[1] \in Pieces /\ c[2] \in Nat
  BY BoundsAssumption DEF Calls
<1>3. Range(text) \subseteq Pieces /\ Range(calls) \subseteq Calls
  BY Types, LenProperties, ElementOfSeq DEF Range
<1> QED
  BY <1>1, <1>2, <1>3

\* What has been handed on or is about to be.
LEMMA SiftedTyped ==
    ASSUME TypeOK
    PROVE  /\ sent \o pending \in Seq(Calls)
           /\ sent \o pending # <<>> <=> sent # <<>> \/ pending # <<>>
           /\ calls = <<>> <=> Range(calls) = {}
<1>1. sent \in Seq(Calls) /\ pending \in Seq(Calls) /\ calls \in Seq(Calls)
  BY Types
<1>2. sent \o pending \in Seq(Calls) /\ (sent \o pending = <<>> <=> sent = <<>> /\ pending = <<>>)
  BY <1>1, ConcatProperties, ConcatEqualIffEmpty
<1>3. calls = <<>> <=> Range(calls) = {}
  <2>1. DOMAIN calls = 1 .. Len(calls) /\ (calls # <<>> => Len(calls) \in Nat \ {0}) /\ Len(<<>>) = 0
    BY <1>1, LenProperties, EmptySeq
  <2>2. ASSUME calls # <<>> PROVE calls[1] \in Range(calls)
    <3>1. PICK l \in Nat \ {0} : l = Len(calls)
      BY <2>1, <2>2
    <3>2. 1 \in 1 .. l
      OBVIOUS
    <3>3. 1 \in DOMAIN calls
      BY <2>1, <3>1, <3>2, Zenon
    <3> QED
      BY <3>3, Zenon DEF Range
  <2>3. Range(<<>>) = {}
    BY DEF Range
  <2> QED
    BY <2>2, <2>3
<1> QED
  BY <1>2, <1>3

\* An answer without calls has handed nothing on.
LEMMA NothingSifted ==
    ASSUME TypeOK, Sifted, req.stream, end = "open", calls = <<>>
    PROVE  sent = <<>> /\ pending = <<>>
<1>1. Range(sent \o pending) = {}
  BY SiftedTyped DEF Sifted
<1>2. sent \o pending \in Seq(Calls)
  BY SiftedTyped
<1>3. sent \o pending = <<>>
  <2>1. /\ DOMAIN (sent \o pending) = 1 .. Len(sent \o pending)
        /\ sent \o pending # <<>> => Len(sent \o pending) \in Nat \ {0}
    BY <1>2, LenProperties, EmptySeq
  <2>2. sent \o pending # <<>> => 1 \in DOMAIN (sent \o pending)
    BY <2>1
  <2> QED
    BY <1>1, <2>2 DEF Range
<1> QED
  BY <1>3, SiftedTyped

LEMMA TextFaithful ==
    ASSUME TypeOK, Ended, Faithful, Text PROVE Faithful' /\ Ended'
<1> DEFINE piece == <<retries, parts + 1>>
<1>1. /\ pc = "reading" /\ parts < MaxParts /\ parts' = parts + 1
      /\ text' = Append(text, piece)
      /\ UNCHANGED <<req, pc, retries, calls, prior, end, hist>>
  BY DEF Text
<1>2. end = "open" /\ Written /\ Shown /\ Called /\ Sifted
  BY <1>1 DEF Ended, Faithful
<1>3. /\ text \in Seq(Pieces) /\ held \in Seq(Pieces) /\ shown \in Seq(Pieces)
      /\ sent \in Seq(Calls) /\ pending \in Seq(Calls) /\ retries \in Nat /\ parts \in Nat
  BY Types
<1>4. piece \in Pieces /\ piece[1] = retries /\ piece[2] = parts + 1
  BY <1>1, FirstPiece
<1>5. ~Arrived(piece)
  BY <1>3, <1>4 DEF Arrived
<1> HIDE DEF piece
<1>6. Written'
  <2>1. piece \notin Range(text)
    BY <1>2, <1>5 DEF Written
  <2>2. IsInjective(text') /\ Range(text') = Range(text) \cup {piece}
    BY <1>1, <1>2, <1>3, <1>4, <2>1, AppendStaysInjective DEF Written
  <2>3. \A p \in Range(text) : p[1] < retries \/ (p[1] = retries /\ p[2] <= parts + 1)
    BY <1>2, <1>3, CallTyped DEF Written, Arrived
  <2>4. \A p \in Range(text') : Arrived(p)'
    BY <1>1, <1>3, <1>4, <2>2, <2>3 DEF Arrived
  <2> QED
    BY <1>1, <1>2, <2>2, <2>4 DEF Written
<1>7. Called'
  BY <1>1, <1>2, <1>3, CallTyped DEF Called
<1>8. CallsOnce'
  BY <1>1, <1>2 DEF CallsOnce
<1>9. CASE ~req.stream
  <2>1. UNCHANGED <<held, pending, done, shown, sent>>
    BY <1>9 DEF Text
  <2>2. Shown' /\ Sifted'
    BY <1>1, <1>2, <1>9, <2>1 DEF Shown, Sifted
  <2> QED
    BY <1>1, <1>2, <1>6, <1>7, <1>8, <2>1, <2>2 DEF Faithful, Ended
<1>10. CASE req.stream
  <2>1. /\ sent' = sent \o pending /\ done' = (done \/ pending # <<>>) /\ pending' = <<>>
        /\ \/ shown' = shown \o Visible(Append(held, piece)) /\ held' = <<>>
           \/ held' = Append(held, piece) /\ shown' = shown
    BY <1>10 DEF Text, HandsOn, piece
  <2>2. sent' \o pending' = sent \o pending
    BY <2>1, SiftedTyped, ConcatEmptySeq
  <2>3. done' <=> sent' # <<>>
    BY <1>2, <1>10, <2>1, SiftedTyped DEF Sifted
  <2>4. Sifted'
    BY <1>1, <1>2, <1>10, <2>2, <2>3 DEF Sifted
  <2>5. Append(held, piece) \in Seq(Pieces) /\ Append(held, piece) = held \o <<piece>>
        /\ <<piece>> \in Seq(Pieces) /\ text' = text \o <<piece>>
    BY <1>1, <1>3, <1>4, AppendProperties, AppendIsConcat
  <2>6. Shown'
    <3>1. CASE prior = <<>>
      <4>1. shown \o held = text
        BY <1>2, <1>10, <3>1 DEF Shown
      <4>2. shown \o Append(held, piece) = text'
        <5>1. (shown \o held) \o <<piece>> = shown \o (held \o <<piece>>)
          BY <1>3, <2>5, ConcatAssociative
        <5> QED
          BY <2>5, <4>1, <5>1
      <4>3. Visible(Append(held, piece)) = Append(held, piece)
        BY <3>1 DEF Visible, suppressed
      <4>4. shown \o Append(held, piece) \in Seq(Pieces)
        BY <1>3, <2>5, ConcatProperties
      <4>5. shown' \o held' = text'
        BY <2>1, <4>2, <4>3, <4>4, ConcatEmptySeq
      <4> QED
        BY <1>1, <1>10, <3>1, <4>5 DEF Shown
    <3>2. CASE prior # <<>>
      <4>1. shown # <<>> /\ IsPrefix(shown, text)
        BY <1>2, <1>10, <3>2 DEF Shown
      <4>2. shown' = shown
        BY <1>3, <2>1, <3>2, ConcatEmptySeq DEF Visible, suppressed
      <4>3. IsPrefix(text, text') /\ text' \in Seq(Pieces)
        BY <1>3, <2>5, ConcatPrefix
      <4>4. IsPrefix(shown', text')
        BY <1>3, <4>1, <4>2, <4>3, PrefixTransitive
      <4> QED
        BY <1>1, <1>10, <3>2, <4>1, <4>2, <4>4 DEF Shown
    <3> QED
      BY <3>1, <3>2
  <2>7. Ended'
    BY <1>1, <1>2 DEF Ended
  <2> QED
    BY <1>6, <1>7, <1>8, <2>4, <2>6, <2>7 DEF Faithful
<1> QED
  BY <1>9, <1>10

LEMMA BlocksFaithful ==
    ASSUME TypeOK, Ended, Faithful, Blocks PROVE Faithful' /\ Ended'
<1>1. /\ pc = "reading" /\ parts' = parts + 1
      /\ UNCHANGED <<req, pc, retries, text, prior, held, shown, end, hist>>
  BY BlocksFound
<1>2. PICK n \in 1 .. MaxBlocks, new \in Seq(Calls) :
        /\ Len(new) = n /\ \A i \in 1 .. n : new[i] = <<<<retries, parts + 1>>, i>>
        /\ calls' = calls \o new
        /\ IF req.stream
           THEN /\ sent' = sent \o pending /\ done' = (done \/ pending # <<>>)
                /\ pending' = <<new[n]>>
           ELSE UNCHANGED <<pending, sent, done>>
  BY BlocksFound
<1>3. end = "open" /\ Written /\ Shown /\ Called /\ Sifted
  BY <1>1 DEF Ended, Faithful
<1>4. calls \in Seq(Calls) /\ retries \in Nat /\ parts \in Nat /\ n \in Nat /\ n \in 1 .. n
  BY Types, BoundsAssumption
<1>5. /\ DOMAIN new = 1 .. n
      /\ \A i \in 1 .. n : /\ new[i][1] = <<retries, parts + 1>> /\ new[i][2] = i
                           /\ new[i][1][1] = retries /\ new[i][1][2] = parts + 1
  BY <1>2, LenProperties
<1>6. Sorted(new)
  <2> SUFFICES ASSUME NEW i \in 1 .. n, NEW j \in 1 .. n, i < j PROVE Before(new[i], new[j])
    BY <1>5 DEF Sorted
  <2>1. new[i][1] = new[j][1]
    <3>1. PICK at : at = <<retries, parts + 1>>
      OBVIOUS
    <3>2. new[i][1] = at
      BY <1>5, <3>1
    <3>3. new[j][1] = at
      BY <1>5, <3>1
    <3> QED
      BY <3>2, <3>3
  <2>2. new[i][2] < new[j][2]
    <3>1. new[i][2] = i /\ new[j][2] = j
      BY <1>5
    <3> QED
      BY <3>1
  <2> QED
    BY <2>1, <2>2 DEF Before
<1>7. \A c \in Range(calls), d \in Range(new) : Before(c, d)
  <2>1. \A c \in Range(calls) : c[1][2] < parts + 1
    BY <1>3, <1>4, CallTyped DEF Called
  <2> QED
    BY <1>5, <2>1 DEF Range, Before
<1>8. Called'
  <2>1. Sorted(calls')
    BY <1>2, <1>3, <1>4, <1>6, <1>7, SortedConcat DEF Called
  <2>2. Range(calls') = Range(calls) \cup Range(new)
    BY <1>2, <1>4, ConcatRange
  <2>3. \A c \in Range(calls) : c[1][1] = retries /\ c[1][2] <= parts + 1
    BY <1>3, <1>4, CallTyped DEF Called
  <2>4. \A c \in Range(new) : c[1][1] = retries /\ c[1][2] <= parts + 1
    BY <1>4, <1>5 DEF Range
  <2> QED
    BY <1>1, <2>1, <2>2, <2>3, <2>4 DEF Called
<1>9. Written'
  BY <1>1, <1>3, <1>4, CallTyped DEF Written, Arrived
<1>10. CallsOnce'
  BY <1>1, <1>3 DEF CallsOnce
<1>11. Ended'
  BY <1>1, <1>3 DEF Ended
<1>12. CASE ~req.stream
  <2>1. UNCHANGED <<pending, sent, done>>
    BY <1>2, <1>12
  <2> QED
    BY <1>1, <1>3, <1>8, <1>9, <1>10, <1>11, <1>12, <2>1 DEF Faithful, Shown, Sifted
<1>13. CASE req.stream
  <2> DEFINE sifted == sent \o pending
  <2>1. sent' = sifted /\ done' = (done \/ pending # <<>>) /\ pending' = <<new[n]>>
    BY <1>2, <1>13
  <2>2. sifted \in Seq(Calls) /\ (sifted # <<>> <=> sent # <<>> \/ pending # <<>>)
    BY SiftedTyped
  <2>3. /\ Sorted(sifted) /\ Range(sifted) \subseteq Range(calls) /\ (done <=> sent # <<>>)
        /\ \A c \in Range(calls) \ Range(sifted) :
              \E d \in Range(sifted) : d[1] = c[1] /\ d[2] > c[2]
    BY <1>3, <1>13 DEF Sifted
  <2> HIDE DEF sifted
  <2>4. new[n] \in Range(new) /\ new[n] \in Calls
    BY <1>2, <1>4, <1>5, ElementOfSeq DEF Range
  <2>5. <<new[n]>> \in Seq(Calls) /\ Range(<<new[n]>>) = {new[n]} /\ Sorted(<<new[n]>>)
    BY <2>4 DEF Range, Sorted
  <2>6. Sorted(sent' \o pending')
    BY <1>7, <2>1, <2>2, <2>3, <2>4, <2>5, SortedConcat
  <2>7. Range(sent' \o pending') = Range(sifted) \cup {new[n]}
    <3>1. ASSUME NEW last \in Seq(Calls)
          PROVE  Range(sifted \o last) = Range(sifted) \cup Range(last)
      BY <2>2, ConcatRange
    <3> QED
      BY <2>1, <2>5, <3>1
  <2>8. Range(calls') = Range(calls) \cup Range(new)
    BY <1>2, <1>4, ConcatRange
  <2>9. ASSUME NEW c \in Range(calls') \ Range(sent' \o pending')
        PROVE  \E d \in Range(sent' \o pending') : d[1] = c[1] /\ d[2] > c[2]
    <3>1. CASE c \in Range(calls)
      BY <2>3, <2>7, <2>9, <3>1
    <3>2. CASE c \in Range(new)
      <4>1. PICK i \in 1 .. n : c = new[i]
        BY <1>5, <3>2 DEF Range
      <4>2. i # n
        BY <2>7, <2>9, <4>1
      <4>3. new[n][1] = c[1] /\ new[n][2] > c[2]
        <5>1. c[1] = <<retries, parts + 1>> /\ c[2] = i
          BY <1>5, <4>1
        <5>2. new[n][1] = <<retries, parts + 1>> /\ new[n][2] = n
          BY <1>4, <1>5
        <5>3. n > i
          BY <1>4, <4>2
        <5> QED
          BY <5>1, <5>2, <5>3
      <4> QED
        BY <2>7, <4>3
    <3> QED
      BY <2>8, <3>1, <3>2
  <2>10. Sifted'
    BY <2>1, <2>2, <2>3, <2>4, <2>6, <2>7, <2>8, <2>9 DEF Sifted
  <2>11. Shown'
    BY <1>1, <1>3, <1>13 DEF Shown
  <2> QED
    BY <1>8, <1>9, <1>10, <1>11, <2>10, <2>11 DEF Faithful
<1> QED
  BY <1>12, <1>13

\* What a stream that ends has sent.
LEMMA StreamSends ==
    ASSUME TypeOK, Shown, Sifted, Called, req.stream, end = "open"
    PROVE  /\ IsPrefix(shown \o LastText, text)
           /\ calls # <<>> => sent \o LastCalls # <<>>
           /\ calls = <<>> /\ text # <<>> => shown \o LastText # <<>>
           /\ Chosen(sent \o LastCalls, calls)
           /\ \A c \in Range(calls) \ Range(sent \o LastCalls) :
                 \E d \in Range(sent \o LastCalls) : d[1] = c[1] /\ d[2] > c[2]
<1>1. /\ text \in Seq(Pieces) /\ held \in Seq(Pieces) /\ shown \in Seq(Pieces)
      /\ sent \in Seq(Calls) /\ pending \in Seq(Calls) /\ calls \in Seq(Calls)
  BY Types
<1>2. /\ prior = <<>> => shown \o held = text
      /\ prior # <<>> => shown # <<>> /\ IsPrefix(shown, text)
  BY DEF Shown
<1>3. shown \o <<>> = shown /\ Visible(held) = IF prior = <<>> THEN held ELSE <<>>
  BY <1>1, ConcatEmptySeq DEF Visible, suppressed
<1>4. IsPrefix(shown, text) /\ (prior = <<>> => IsPrefix(shown \o held, text))
  BY <1>1, <1>2, ConcatPrefix, PrefixReflexive
<1>5. IsPrefix(shown \o LastText, text)
  BY <1>3, <1>4 DEF LastText
<1>6. calls = <<>> /\ text # <<>> => shown \o LastText # <<>>
  BY <1>2, <1>3 DEF LastText
<1>7. CASE calls # <<>> /\ ~done
  <2>1. sent = <<>> /\ LastCalls = calls
    BY <1>7 DEF Sifted, LastCalls
  <2>2. sent \o LastCalls = calls
    BY <1>1, <2>1, ConcatEmptySeq
  <2>3. Chosen(calls, calls)
    BY <1>1, SortedChosen DEF Called
  <2> QED
    BY <1>5, <1>6, <1>7, <2>2, <2>3
<1>8. CASE ~(calls # <<>> /\ ~done)
  <2>1. LastCalls = pending
    BY <1>8 DEF LastCalls
  <2>2. sent \o pending \in Seq(Calls) /\ (sent # <<>> => sent \o pending # <<>>)
    BY SiftedTyped
  <2>3. Chosen(sent \o pending, calls)
    BY <1>1, <2>2, SortedChosen DEF Called, Sifted
  <2>4. /\ \A c \in Range(calls) \ Range(sent \o pending) :
              \E d \in Range(sent \o pending) : d[1] = c[1] /\ d[2] > c[2]
        /\ done => sent # <<>>
    BY DEF Sifted
  <2> QED
    BY <1>5, <1>6, <1>8, <2>1, <2>2, <2>3, <2>4
<1> QED
  BY <1>7, <1>8

LEMMA FinalizeFaithful ==
    ASSUME TypeOK, Ended, Faithful, req.stream, pc = "reading", NEW reason, Finalize(reason)
    PROVE  Faithful' /\ Ended'
<1>1. UNCHANGED req /\ shown' = shown \o LastText /\ sent' = sent \o LastCalls
  BY Finalized
<1>2. end = "open" /\ Written /\ Shown /\ Called /\ Sifted
  BY DEF Ended, Faithful
<1>3. /\ text \in Seq(Pieces) /\ held \in Seq(Pieces) /\ shown \in Seq(Pieces)
      /\ retries \in Nat /\ parts \in Nat
  BY Types
<1>4. CASE retries < RetryMax /\ Incomplete /\ BeginRetry /\ UNCHANGED <<end, hist>>
  <2>1. /\ retries' = retries + 1 /\ parts' = 0 /\ prior' = text /\ text' = text
        /\ calls' = <<>> /\ held' = <<>> /\ pending' = <<>> /\ done' = FALSE
        /\ pc' = "repow" /\ UNCHANGED <<end, hist>>
    BY <1>4 DEF BeginRetry, Goto
  <2>2. calls = <<>> /\ sent = <<>> /\ pending = <<>>
    BY <1>2, <1>4, NothingSifted DEF Incomplete
  <2>3. LastCalls = <<>> /\ LastText = IF prior = <<>> THEN held ELSE <<>>
    BY <2>2 DEF LastCalls, LastText, Visible, suppressed
  <2>4. sent' = <<>> /\ sent' \o pending' = <<>> /\ Range(<<>>) = {}
    BY <1>1, <2>1, <2>2, <2>3, ConcatEmptySeq DEF Range
  <2>5. shown' = text \/ (prior # <<>> /\ shown' = shown)
    BY <1>1, <1>2, <1>3, <2>3, ConcatEmptySeq DEF Shown
  <2>6. Written'
    <3>1. \A p \in Range(text) : p[1] < retries + 1
      BY <1>2, <1>3, CallTyped DEF Written, Arrived
    <3> QED
      BY <1>2, <2>1, <3>1 DEF Written, Arrived
  <2>7. Shown'
    <3>1. CASE text = <<>>
      <4>1. prior = <<>>
        <5> SUFFICES ASSUME prior # <<>> PROVE FALSE
          OBVIOUS
        <5>1. shown # <<>> /\ IsPrefix(shown, text)
          BY <1>2 DEF Shown
        <5>2. Len(shown) \in Nat \ {0} /\ Len(text) = 0
          <6>1. Len(text) = 0
            BY <3>1, EmptySeq
          <6>2. Len(shown) \in Nat /\ Len(shown) # 0
            BY <1>3, <5>1, LenProperties, EmptySeq
          <6> QED
            BY <6>1, <6>2
        <5>3. Len(shown) <= Len(text)
          BY <1>3, <5>1, PrefixOf
        <5> QED
          BY <5>2, <5>3
      <4>2. shown' \o held' = text'
        BY <2>1, <2>5, <3>1, <4>1, ConcatEmptySeq
      <4> QED
        BY <1>1, <2>1, <3>1, <4>2 DEF Shown
    <3>2. CASE text # <<>>
      <4>1. shown' # <<>> /\ IsPrefix(shown', text)
        BY <1>2, <1>3, <2>5, <3>2, PrefixReflexive DEF Shown
      <4> QED
        BY <1>1, <2>1, <3>2, <4>1 DEF Shown
    <3> QED
      BY <3>1, <3>2
  <2>8. Called'
    BY <2>1, <2>4 DEF Called, Sorted
  <2>9. Sifted'
    BY <2>1, <2>4 DEF Sifted, Sorted
  <2>10. CallsOnce'
    BY <1>2, <2>1 DEF CallsOnce
  <2>11. Ended'
    BY <1>2, <2>1 DEF Ended
  <2> QED
    BY <2>6, <2>7, <2>8, <2>9, <2>10, <2>11 DEF Faithful
<1>5. ASSUME NEW how \in {"failed", "finish"}, NEW status \in {"error", "success"},
             Ending(how, status, text), status = "success" <=> how = "finish",
             how = "finish" => ~Invalid(text),
             UNCHANGED <<retries, parts, text, calls, prior>>
      PROVE  Faithful' /\ Ended'
  <2>1. /\ IsPrefix(shown', text)
        /\ calls # <<>> => sent' # <<>>
        /\ calls = <<>> /\ text # <<>> => shown' # <<>>
        /\ Chosen(sent', calls)
        /\ \A c \in Range(calls) \ Range(sent') :
              \E d \in Range(sent') : d[1] = c[1] /\ d[2] > c[2]
    BY <1>1, <1>2, StreamSends
  <2>2. end' = how
    BY <1>5 DEF Ending
  <2>3. how = "finish" => shown' # <<>> \/ sent' # <<>>
    BY <1>5, <2>1 DEF Invalid
  <2>4. Ended'
    <3>1. how \in Ends /\ status \in {"success", "error", "stopped"}
      BY DEF Ends
    <3>2. status # "stopped" /\ how # "left"
      OBVIOUS
    <3> QED
      BY <1>2, <1>5, <2>1, <2>3, <3>1, <3>2, EndingEnded
  <2>5. CallsOnce'
    BY <1>1, <1>5, <2>1 DEF CallsOnce, Chosen
  <2>6. Written' /\ Called'
    BY <1>2, <1>5 DEF Written, Arrived, Called
  <2>7. Shown' /\ Sifted'
    BY <2>2 DEF Shown, Sifted
  <2> QED
    BY <2>4, <2>5, <2>6, <2>7 DEF Faithful
<1>6. CASE IF Invalid(text) THEN Ending("failed", "error", text)
                            ELSE Ending("finish", "success", text)
  <2>1. CASE retries < RetryMax /\ Incomplete /\ BeginRetry /\ UNCHANGED <<end, hist>>
    BY <1>4, <2>1
  <2>2. CASE UNCHANGED <<retries, parts, text, calls, prior>>
    BY <1>5, <1>6, <2>2
  <2> QED
    BY <2>1, <2>2, Finalized
<1> QED
  BY <1>4, <1>6, Finalized

LEMMA CollectedFaithful ==
    ASSUME TypeOK, Ended, Faithful, Collected PROVE Faithful' /\ Ended'
<1>1. ~req.stream /\ pc = "reading" /\ UNCHANGED req /\ TheAnswer \in Seq(Pieces)
  BY CollectedAnswer
<1>2. end = "open" /\ Written /\ Shown /\ Called
  BY <1>1 DEF Ended, Faithful
<1>3. calls \in Seq(Calls) /\ retries \in Nat /\ parts \in Nat /\ Range(<<>>) = {}
  BY Types DEF Range
<1>4. CASE retries < RetryMax /\ Incomplete /\ BeginRetry /\ UNCHANGED <<shown, sent, end, hist>>
  <2>1. /\ retries' = retries + 1 /\ parts' = 0 /\ prior' = text /\ text' = <<>>
        /\ calls' = <<>> /\ pc' = "repow" /\ UNCHANGED <<shown, sent, end, hist>>
    BY <1>1, <1>4 DEF BeginRetry, Goto
  <2>2. Written'
    BY <1>2, <1>3, <2>1 DEF Written, IsInjective
  <2>3. Shown' /\ Sifted' /\ CallsOnce'
    BY <1>1, <1>2, <2>1 DEF Shown, Sifted, CallsOnce
  <2>4. Called'
    BY <1>3, <2>1 DEF Called, Sorted
  <2>5. Ended'
    BY <1>2, <2>1 DEF Ended
  <2> QED
    BY <2>2, <2>3, <2>4, <2>5 DEF Faithful
<1>5. ASSUME UNCHANGED <<retries, parts, text, calls, prior>>, end' # "open",
             end' = "finish" => sent' = calls
      PROVE  Faithful'
  <2>1. Chosen(calls, calls)
    BY <1>2, <1>3, SortedChosen DEF Called
  <2>2. CallsOnce'
    BY <1>5, <2>1 DEF CallsOnce, Chosen
  <2>3. Written' /\ Called' /\ Shown' /\ Sifted'
    BY <1>2, <1>5 DEF Written, Arrived, Called, Shown, Sifted
  <2> QED
    BY <2>2, <2>3 DEF Faithful
<1>6. "error" \in Ends /\ "finish" \in Ends
  BY DEF Ends
<1>7. CASE /\ Invalid(TheAnswer) /\ Ending("error", "error", TheAnswer)
           /\ UNCHANGED <<retries, parts, text, calls, prior>>
  <2>1. end' = "error"
    BY <1>7 DEF Ending
  <2>2. Ended'
    BY <1>2, <1>6, <1>7, EndingEnded
  <2> QED
    BY <1>5, <1>7, <2>1, <2>2
<1>8. CASE /\ ~Invalid(TheAnswer) /\ Ending("finish", "success", TheAnswer)
           /\ shown' = TheAnswer /\ sent' = calls
           /\ UNCHANGED <<retries, parts, text, calls, prior>>
  <2>1. end' = "finish"
    BY <1>8 DEF Ending
  <2>2. shown' # <<>> \/ sent' # <<>>
    BY <1>8 DEF Invalid
  <2>3. IsPrefix(shown', TheAnswer)
    BY <1>1, <1>8, PrefixReflexive
  <2>4. Ended'
    BY <1>2, <1>6, <1>8, <2>2, <2>3, EndingEnded
  <2> QED
    BY <1>5, <1>8, <2>1, <2>4
<1> QED
  BY <1>4, <1>7, <1>8, CollectedAnswer

-----------------------------------------------------------------------------
(* Theorems *)

LEMMA InitSound == Init => Sound
<1> SUFFICES ASSUME Init PROVE Sound
  OBVIOUS
<1>1. TypeOK
  BY InitTyped
<1>2. Accounted
  BY RequestPCs DEF Init, Accounted, Retrying, Uploading
<1>3. Ended
  BY DEF Init, Ended
<1>4. Range(<<>>) = {} /\ <<>> \o <<>> = <<>>
  BY DEF Range
<1>5. Written /\ Called
  BY <1>4 DEF Init, Written, IsInjective, Called, Sorted
<1>6. Shown /\ Sifted /\ CallsOnce
  BY <1>4 DEF Init, Shown, Sifted, Sorted, CallsOnce
<1> QED
  BY <1>1, <1>2, <1>3, <1>5, <1>6 DEF Sound

LEMMA NextSound == Sound /\ [Next]_vars => Sound'
<1> SUFFICES ASSUME Sound, [Next]_vars PROVE Sound'
  OBVIOUS
<1>0. TypeOK /\ Accounted /\ Ended /\ Faithful
  BY DEF Sound, Faithful
<1>1. TypeOK' /\ Accounted'
  BY <1>0, NextTyped, NextAccounted
<1>2. ASSUME QuietStep PROVE Ended' /\ Faithful'
  BY <1>0, <1>2, QuietEnded, QuietFaithful
<1>3. ASSUME Text \/ Blocks \/ Collected PROVE Ended' /\ Faithful'
  BY <1>0, <1>3, TextFaithful, BlocksFaithful, CollectedFaithful
<1>4. ASSUME StreamEnds PROVE Ended' /\ Faithful'
  <2>1. req.stream /\ pc = "reading"
    BY <1>4 DEF StreamEnds, Streaming
  <2>2. PICK reason : Finalize(reason)
    BY <1>4 DEF StreamEnds
  <2> QED
    BY <1>0, <2>1, <2>2, FinalizeFaithful
<1>5. Ended' /\ Faithful'
  BY <1>2, <1>3, <1>4 DEF Next, Answer, QuietStep
<1> QED
  BY <1>1, <1>5 DEF Sound, Faithful

LEMMA SoundAlways == Spec => []Sound
BY InitSound, NextSound, PTL DEF Spec

\* The request asks for its completion with a session and files of the account
\* it asks, and leaves no session behind but on accounts it saw banned.
THEOREM RequestOwnsSessions == Spec => []SessionsOwned
<1>1. Sound => SessionsOwned
  <2> SUFFICES ASSUME Sound PROVE SessionsOwned
    OBVIOUS
  <2>1. TypeOK /\ Accounted
    BY DEF Sound
  <2>2. OwnAccount
    BY <2>1, RequestPCs DEF Accounted, OwnAccount, Retrying, Uploading
  <2>3. NoSessionLeft
    BY <2>1 DEF Accounted, NoSessionLeft
  <2> QED
    BY <2>1, <2>2, <2>3 DEF SessionsOwned
<1> QED
  BY <1>1, SoundAlways, PTL

\* The history tells what the client got, and begins with what it was shown.
THEOREM RecordsTellAnswers == Spec => []AnswerRecorded
<1>1. Sound => AnswerRecorded
  BY DEF Sound, Ended, AnswerRecorded
<1> QED
  BY <1>1, SoundAlways, PTL

\* A client that is told the answer is complete has its calls, in order and once,
\* but for those that another of their chunk has replaced.
THEOREM CallsSentOnce == Spec => []CallsOnce
<1>1. Sound => CallsOnce
  BY DEF Sound
<1> QED
  BY <1>1, SoundAlways, PTL

\* What the abstract step asks of a step, in the words of the request.
LEMMA DeliverMeans ==
    ASSUME end = "open", IsPrefix(shown, shown'), IsInjective(shown'),
           end' \in Ends \cup {"open"}
    PROVE  Client!Deliver
<1>1. Client!IsPrefix(shown, shown')
  BY DEF IsPrefix, Client!IsPrefix
<1>2. Client!IsInjective(shown')
  BY DEF IsInjective, Client!IsInjective
<1> QED
  BY <1>1, <1>2 DEF Client!Deliver

\* What a step sends continues what was sent.
LEMMA StepDelivers ==
    ASSUME Sound, Sound', Next, <<shown, end>>' # <<shown, end>>
    PROVE  Client!Deliver
<1>0. /\ TypeOK /\ Ended /\ Faithful /\ Shown /\ Sifted /\ Called /\ Written
      /\ TypeOK' /\ Shown' /\ Written'
  BY DEF Sound, Faithful
<1>1. shown \in Seq(Pieces) /\ text \in Seq(Pieces) /\ prior \in Seq(Pieces)
  BY <1>0, Types
<1>2. shown' \in Seq(Pieces) /\ text' \in Seq(Pieces) /\ held' \in Seq(Pieces)
  BY <1>0 DEF TypeOK
<1>3. IsPrefix(shown, shown) /\ IsInjective(<<>>)
  BY <1>1, PrefixReflexive DEF IsInjective
<1>4. end' \in Ends \cup {"open"}
  BY <1>0 DEF TypeOK
\* What is shown is all of the text, or the beginning of it.
<1>5. ASSUME end = "open" PROVE IsInjective(shown)
  <2>1. CASE ~req.stream
    BY <1>0, <1>3, <1>5, <2>1 DEF Shown
  <2>2. CASE req.stream
    <3>1. IsPrefix(shown, text)
      BY <1>0, <1>1, <1>5, <2>2, ConcatPrefix, Types DEF Shown
    <3> QED
      BY <1>0, <1>1, <3>1, PrefixInjective DEF Written
  <2> QED
    BY <2>1, <2>2
<1>6. CASE QuietStep
  <2>1. shown' = shown /\ pc \notin {"cleanup", "done"}
    <3>1. shown' = shown
      BY <1>0, <1>6, QuietKeeps
    <3>2. end' # end
      BY <3>1
    <3>3. ~CleanUp /\ ~Leave /\ ~UNCHANGED vars
      BY <3>2 DEF CleanUp, Leave, vars, wire
    <3>4. pc \in Requests \cup {"gate", "reading"}
      BY <1>6, <3>3 DEF QuietStep, Upstream, Succeeds, Again, Refresh, GivesUp, Discovers,
         Admit, Refuses, StreamCancelled, Streaming, Looping, Requests, Starting, Retrying, Uploading
    <3> QED
      BY <3>1, <3>4, RequestPCs
  <2>2. end = "open"
    BY <1>0, <2>1 DEF Ended
  <2> QED
    BY <1>3, <1>4, <1>5, <2>1, <2>2, DeliverMeans
<1>7. CASE Text \/ Blocks
  <2>1. end = "open" /\ end' = "open" /\ req' = req /\ \E s \in Seq(Pieces) : shown' = shown \o s
    <3>1. pc = "reading" /\ end' = end /\ req' = req
      BY <1>7 DEF Text, Blocks
    <3>2. shown' = shown \/ \E s \in Seq(Pieces) : shown' = shown \o s
      <4>1. CASE Blocks
        BY <4>1 DEF Blocks
      <4>2. CASE Text
        <5>1. parts < MaxParts
          BY <4>2 DEF Text
        <5>2. Append(held, <<retries, parts + 1>>) \in Seq(Pieces)
          BY <1>0, <5>1, FirstPiece, Types, AppendProperties
        <5>3. Visible(Append(held, <<retries, parts + 1>>)) \in Seq(Pieces)
          BY <5>2, VisibleTyped
        <5> QED
          BY <4>2, <5>3 DEF Text
      <4> QED
        BY <1>7, <4>1, <4>2
    <3>3. <<>> \in Seq(Pieces) /\ shown = shown \o <<>>
      BY <1>1, ConcatEmptySeq, EmptySeq
    <3> QED
      BY <1>0, <3>1, <3>2, <3>3 DEF Ended
  <2>2. IsPrefix(shown, shown')
    BY <1>1, <2>1, ConcatPrefix
  <2>3. IsInjective(shown')
    <3>1. CASE ~req.stream
      BY <1>0, <1>3, <2>1, <3>1 DEF Shown
    <3>2. CASE req.stream
      <4>1. IsPrefix(shown', text')
        BY <1>0, <1>2, <2>1, <3>2, ConcatPrefix DEF Shown
      <4> QED
        BY <1>0, <1>2, <4>1, PrefixInjective DEF Written
    <3> QED
      BY <3>1, <3>2
  <2> QED
    BY <1>4, <2>1, <2>2, <2>3, DeliverMeans
<1>8. CASE StreamEnds
  <2>1. PICK reason : Finalize(reason) /\ req.stream /\ pc = "reading"
    BY <1>8 DEF StreamEnds, Streaming
  <2>2. end = "open"
    BY <1>0, <2>1 DEF Ended
  <2>3. shown' = shown \o LastText /\ LastText \in Seq(Pieces)
    BY <1>0, <2>1, Finalized
  <2>4. IsPrefix(shown', text)
    BY <1>0, <2>1, <2>2, <2>3, StreamSends
  <2>5. IsInjective(shown')
    BY <1>0, <1>1, <1>2, <2>4, PrefixInjective DEF Written
  <2>6. IsPrefix(shown, shown')
    BY <1>1, <2>3, ConcatPrefix
  <2> QED
    BY <1>4, <2>2, <2>5, <2>6, DeliverMeans
<1>9. CASE Collected
  <2>1. ~req.stream /\ pc = "reading" /\ shown' \in {shown, TheAnswer} /\ TheAnswer \in Seq(Pieces)
    BY <1>0, <1>9, CollectedAnswer
  <2>2. end = "open" /\ shown = <<>>
    BY <1>0, <2>1 DEF Ended, Shown
  <2>3. IsInjective(shown')
    BY <1>0, <1>3, <2>1, <2>2 DEF TheAnswer, Written
  <2>4. IsPrefix(shown, shown')
    <3>1. <<>> \o shown' = shown' /\ <<>> \in Seq(Pieces)
      BY <1>2, ConcatEmptySeq, EmptySeq
    <3> QED
      BY <1>2, <2>2, <3>1, ConcatPrefix
  <2> QED
    BY <1>4, <2>2, <2>3, <2>4, DeliverMeans
<1> QED
  BY <1>6, <1>7, <1>8, <1>9 DEF Next, Answer, QuietStep

\* The request keeps what a client is promised but for the promise that its
\* answer ends: pieces each once and in order, and nothing after the end.
THEOREM AnswerDelivered == Spec => Client!Init /\ [][Client!Deliver]_<<shown, end>>
<1>1. Init => Client!Init
  BY DEF Init, Client!Init
<1>2. Sound /\ Sound' /\ [Next]_vars => [Client!Deliver]_<<shown, end>>
  <2> SUFFICES ASSUME Sound, Sound', [Next]_vars PROVE [Client!Deliver]_<<shown, end>>
    OBVIOUS
  <2>1. CASE UNCHANGED vars
    BY <2>1 DEF vars, wire
  <2>2. CASE Next
    BY <2>2, StepDelivers
  <2> QED
    BY <2>1, <2>2
<1> QED
  BY <1>1, <1>2, SoundAlways, PTL DEF Spec
=============================================================================
