-------------------------- MODULE AccountLoginsProofs --------------------------
(***************************************************************************)
(* Theorems about AccountLogins, for any keys and accounts, any number of  *)
(* requests and probes, and a harvester with any workers and any line.     *)
(***************************************************************************)
EXTENDS AccountLogins, FiniteSetTheorems, SequenceTheorems, TLAPS

Tokens == 0 .. MaxToken
Row == [id : 1 .. Cardinality(Accounts), discarded : BOOLEAN, reason : Reasons,
        until : BOOLEAN, device : Tokens]
CSVRow == [account : Accounts, device : {0, MaxToken}]
Verdicts == {"ok", "muted", "until", "banned"}
Task == [at : {"idle", "ensure", "lead", "harvested", "follow", "login", "ask", "report", "done"},
         process : Processes, key : Keys \cup {None}, account : Accounts \cup {None},
         device : Tokens, refused : SUBSET Tokens, verdict : Verdicts \cup {""}]

-----------------------------------------------------------------------------
(* The inductive invariant *)

MuteReason == \A a \in DOMAIN row : row[a].until => row[a].reason = "muted"

\* The rows are those of accounts, with tokens that there may be.
RowsSound ==
    /\ DOMAIN row \subseteq Accounts /\ row \in [DOMAIN row -> Row]
    /\ MuteReason

KeysSound ==
    /\ enabled \in [DOMAIN enabled -> BOOLEAN] /\ DOMAIN enabled \subseteq Keys
    /\ DOMAIN bound = DOMAIN enabled
    /\ \A k \in DOMAIN bound : DOMAIN bound[k] \subseteq DOMAIN row /\ Range(bound[k]) \subseteq Nat
    /\ importing \in [key : Keys \cup {None}, rows : Seq(CSVRow)]

\* What a task knows where it stands: without a token while one is harvested, with
\* one refused at most, and with a verdict that may be written.
Stands(t) ==
    LET u == task[t] IN
    /\ u.at \notin {"idle", "done"} => u.account \in Accounts
    /\ u.at \in {"lead", "follow"} => u.device = 0
    /\ u.at = "ensure" => u.device = 0 \/ u.refused = {}
    /\ u.at = "login" /\ u.device # 0 => u.device \notin u.refused
    /\ u.at = "report" /\ u.verdict = "until" => u.process = "poolui"
    /\ u.refused = {} \/ \E d \in Tokens : u.refused = {d}

\* A process knows the task that harvests for an account.
Led(t) ==
    task[t].at \in {"lead", "harvested"} => call[task[t].process][task[t].account] = t

\* The tokens of the rows.
Stored == {row[a].device : a \in DOMAIN row}

\* Nobody has a token but the task that harvested it, until that is stored.
Fresh(t) ==
    task[t].at = "harvested" =>
        /\ task[t].device \in 1 .. MaxToken - 1 /\ task[t].device \notin Stored
        /\ \A u \in Tasks : /\ task[t].device \notin task[u].refused
                            /\ u # t => task[t].device # task[u].device

TasksSound ==
    /\ task \in [Tasks -> Task]
    /\ call \in [Processes -> [Accounts -> Tasks \cup {None}]]
    /\ configured \subseteq Processes /\ edits \in 0 .. MaxEdits
    /\ \A t \in Tasks : Stands(t) /\ Led(t) /\ Fresh(t)

\* A job is in one place: with a worker or in line, where it waits for none that
\* is free.
Lines(jobs, line) ==
    /\ jobs \subseteq Tasks /\ line \in Seq(Tasks)
    /\ IsInjective(line) /\ jobs \cap Range(line) = {}
    /\ Cardinality(jobs) <= Workers

\* The jobs of the harvester are those of tasks that lead or have given up.
JobsSound ==
    /\ Lines(running, waiting) /\ Len(waiting) <= MaxQueue
    /\ waiting # <<>> => Cardinality(running) = Workers
    /\ \A t \in running \cup Range(waiting) : task[t].at \in {"lead", "report", "done"}

Sound == RowsSound /\ KeysSound /\ TasksSound /\ JobsSound

-----------------------------------------------------------------------------
(* The tables *)

\* The tokens are a bounded range, with the one that stands for none.
LEMMA TokenBounds == /\ Cardinality(Accounts) \in Nat /\ N \in Nat /\ MaxToken \in Nat \ {0}
                     /\ MaxToken = Cardinality(Accounts) + 2 * N + 1
                     /\ 0 \in Tokens /\ 1 \in Tokens /\ MaxToken \in Tokens
                     /\ 1 .. MaxToken - 1 \subseteq Tokens
<1>1. Cardinality(Accounts) \in Nat
  BY LimitAssumption, FS_CardinalityType
<1>2. N \in Nat
  BY HarvesterAssumption
<1>3. MaxToken = Cardinality(Accounts) + 2 * N + 1
  BY DEF MaxToken
<1> QED
  BY <1>1, <1>2, <1>3 DEF Tokens

\* A new account gets an id that there is, and an old one keeps its own.
LEMMA UpsertSound ==
    ASSUME RowsSound, NEW a \in Accounts, NEW device \in Tokens, row' = Upsert(a, device)
    PROVE  /\ RowsSound' /\ a \in DOMAIN row' /\ DOMAIN row \subseteq DOMAIN row'
           /\ Stored' \subseteq Stored \cup {device}
<1>1. CASE a \in DOMAIN row
  <2>1. row' = [row EXCEPT ![a].discarded = FALSE,
                           ![a].device = IF device = 0 THEN row[a].device ELSE device]
    BY <1>1 DEF Upsert
  <2>2. row \in [DOMAIN row -> Row] /\ DOMAIN row' = DOMAIN row
    BY <2>1 DEF RowsSound
  <2>3. \A b \in DOMAIN row : b # a => row'[b] = row[b]
    BY <2>1, <2>2
  <2>4. row'[a] = [row[a] EXCEPT !.discarded = FALSE,
                                 !.device = IF device = 0 THEN row[a].device ELSE device]
    BY <1>1, <2>1, <2>2
  <2>5. row[a] \in Row
    BY <1>1, <2>2
  <2>6. /\ row'[a] \in Row /\ row'[a].until = row[a].until /\ row'[a].reason = row[a].reason
        /\ row'[a].device \in {device, row[a].device}
    BY <2>4, <2>5 DEF Row
  <2>7. row' \in [DOMAIN row' -> Row]
    <3>1. row' = [b \in DOMAIN row |-> row'[b]]
      BY <2>1
    <3> QED
      BY <3>1, <2>2, <2>3, <2>6
  <2>8. MuteReason'
    BY <2>2, <2>3, <2>6 DEF RowsSound, MuteReason
  <2>9. Stored' \subseteq Stored \cup {device}
    BY <1>1, <2>2, <2>3, <2>6 DEF Stored
  <2> QED
    BY <1>1, <2>2, <2>7, <2>8, <2>9 DEF RowsSound
<1>2. CASE a \notin DOMAIN row
  <2> DEFINE new == [id |-> Cardinality(DOMAIN row) + 1, discarded |-> FALSE,
                     reason |-> "", until |-> FALSE, device |-> device]
  <2>1. row' = Insert(row, a, new)
    BY <1>2 DEF Upsert
  <2>2. DOMAIN row' = DOMAIN row \cup {a} /\ row' = [b \in DOMAIN row \cup {a} |-> row'[b]]
    BY <2>1 DEF Insert
  <2>3. row'[a] = new /\ \A b \in DOMAIN row : row'[b] = row[b]
    BY <1>2, <2>1 DEF Insert
  <2>4. Cardinality(DOMAIN row) + 1 \in 1 .. Cardinality(Accounts)
    <3>1. DOMAIN row \cup {a} \subseteq Accounts
      BY DEF RowsSound
    <3>2. IsFiniteSet(DOMAIN row)
      BY <3>1, LimitAssumption, FS_Subset
    <3>3. Cardinality(DOMAIN row \cup {a}) = Cardinality(DOMAIN row) + 1
      BY <1>2, <3>2, FS_AddElement
    <3>4. Cardinality(DOMAIN row \cup {a}) <= Cardinality(Accounts)
      BY <3>1, LimitAssumption, FS_Subset
    <3>5. Cardinality(DOMAIN row) \in Nat
      BY <3>2, FS_CardinalityType
    <3> QED
      BY <3>3, <3>4, <3>5, TokenBounds
  <2>5. new \in Row
    BY <2>4 DEF Row, Reasons
  <2>6. row' \in [DOMAIN row' -> Row] /\ DOMAIN row' \subseteq Accounts
    BY <2>2, <2>3, <2>5 DEF RowsSound
  <2>7. new.until = FALSE /\ new.device = device /\ DOMAIN row' = DOMAIN row \cup {a}
    BY <2>2
  <2> HIDE DEF new
  <2>8. MuteReason'
    BY <2>3, <2>7 DEF RowsSound, MuteReason
  <2>9. Stored' \subseteq Stored \cup {device}
    BY <2>3, <2>7 DEF Stored
  <2> QED
    BY <2>2, <2>6, <2>8, <2>9 DEF RowsSound
<1> QED
  BY <1>1, <1>2

\* What the others write: a discard with its reason, a mute with its end, a device.
LEMMA RowWritten ==
    ASSUME RowsSound, NEW a, NEW r \in Row,
           row' = [row EXCEPT ![a] = r],
           r.until => r.reason = "muted"
    PROVE  /\ RowsSound' /\ DOMAIN row' = DOMAIN row
           /\ Stored' \subseteq Stored \cup {r.device}
<1>1. row \in [DOMAIN row -> Row] /\ DOMAIN row \subseteq Accounts
  BY DEF RowsSound
<1>2. row' \in [DOMAIN row -> Row] /\ DOMAIN row' = DOMAIN row
  BY <1>1
<1>3. \A b \in DOMAIN row : row'[b] = row[b] \/ row'[b] = r
  BY <1>1
<1>4. MuteReason'
  BY <1>2, <1>3 DEF RowsSound, MuteReason
<1>5. Stored' \subseteq Stored \cup {r.device}
  BY <1>2, <1>3 DEF Stored
<1> QED
  BY <1>1, <1>2, <1>4, <1>5 DEF RowsSound

Kept == RowsSound' /\ DOMAIN row' = DOMAIN row /\ Stored' \subseteq Stored \cup {0}

\* A verdict is written with its reason, and a mute's end goes with the mute.
LEMMA StateKept ==
    ASSUME RowsSound, NEW k, NEW a, NEW discarded \in BOOLEAN,
           NEW reason, discarded => reason \in Reasons,
           SetAccountPoolState(k, a, discarded, reason)
    PROVE  Kept
<1>1. CASE ~IsBound(k, a) \/ a \notin DOMAIN row
  <2>1. row' = row
    BY <1>1 DEF SetAccountPoolState, RowsSound
  <2> QED
    BY <2>1 DEF Kept, RowsSound, MuteReason, Stored
<1>2. CASE IsBound(k, a) /\ a \in DOMAIN row
  <2> DEFINE r == [row[a] EXCEPT !.discarded = discarded, !.reason = IF discarded THEN reason ELSE "",
                                 !.until = @ /\ discarded /\ reason = "muted"]
  <2>1. row[a] \in Row
    BY <1>2 DEF RowsSound
  <2>2. r \in Row /\ r.device = row[a].device /\ (r.until => r.reason = "muted")
    BY <2>1 DEF Row, Reasons
  <2>3. row' = [row EXCEPT ![a] = r]
    BY <1>2 DEF SetAccountPoolState, RowsSound
  <2>4. RowsSound' /\ DOMAIN row' = DOMAIN row /\ Stored' \subseteq Stored \cup {r.device}
    BY <2>2, <2>3, RowWritten
  <2> QED
    BY <1>2, <2>2, <2>4 DEF Kept, Stored
<1> QED
  BY <1>1, <1>2

\* A mute is written with its end, if that is known.
LEMMA MutedKept ==
    ASSUME RowsSound, NEW k, NEW a, NEW known \in BOOLEAN, SetAccountMuted(k, a, known)
    PROVE  Kept
<1>1. CASE ~IsBound(k, a) \/ a \notin DOMAIN row
  <2>1. row' = row
    BY <1>1 DEF SetAccountMuted, RowsSound
  <2> QED
    BY <2>1 DEF Kept, RowsSound, MuteReason, Stored
<1>2. CASE IsBound(k, a) /\ a \in DOMAIN row
  <2> DEFINE r == [row[a] EXCEPT !.discarded = TRUE, !.reason = "muted", !.until = known]
  <2>1. row[a] \in Row
    BY <1>2 DEF RowsSound
  <2>2. r \in Row /\ r.device = row[a].device /\ (r.until => r.reason = "muted")
    BY <2>1 DEF Row, Reasons
  <2>3. row' = [row EXCEPT ![a] = r]
    BY <1>2 DEF SetAccountMuted, RowsSound
  <2>4. RowsSound' /\ DOMAIN row' = DOMAIN row /\ Stored' \subseteq Stored \cup {r.device}
    BY <2>2, <2>3, RowWritten
  <2> QED
    BY <1>2, <2>2, <2>4 DEF Kept, Stored
<1> QED
  BY <1>1, <1>2

\* A device is written or cleared, and nothing else is.
LEMMA DeviceSet ==
    ASSUME RowsSound, NEW a, NEW device \in Tokens, SetDevice(a, device)
    PROVE  RowsSound' /\ DOMAIN row' = DOMAIN row /\ Stored' \subseteq Stored \cup {device}
<1>1. CASE a \notin DOMAIN row
  <2>1. row' = row
    BY <1>1 DEF SetDevice, RowsSound
  <2> QED
    BY <2>1 DEF RowsSound, MuteReason, Stored
<1>2. CASE a \in DOMAIN row
  <2> DEFINE r == [row[a] EXCEPT !.device = device]
  <2>1. row[a] \in Row /\ (row[a].until => row[a].reason = "muted")
    BY <1>2 DEF RowsSound, MuteReason
  <2>2. r \in Row /\ r.device = device /\ (r.until => r.reason = "muted")
    BY <2>1 DEF Row
  <2>3. row' = [row EXCEPT ![a] = r]
    BY <1>2 DEF SetDevice, RowsSound
  <2> QED
    BY <2>2, <2>3, RowWritten
<1> QED
  BY <1>1, <1>2

-----------------------------------------------------------------------------
(* The administrator *)

\* What a step may do to the tables: it stores tokens of S, or known ones.
Tabled(S) == RowsSound' /\ KeysSound' /\ DOMAIN row \subseteq DOMAIN row' /\ Stored' \subseteq Stored \cup S

\* The tables stay sound when their rows do and the keys are left alone.
LEMMA KeysKept ==
    ASSUME KeysSound, RowsSound', UNCHANGED <<enabled, bound, importing>>,
           DOMAIN row \subseteq DOMAIN row'
    PROVE  KeysSound'
BY DEF KeysSound

\* A set of naturals has a least one.
LEMMA Least ==
    ASSUME NEW T \in SUBSET Nat, T # {}
    PROVE  \E i \in T : \A j \in T : i <= j
<1>1. PICK i \in T : \A j \in T : <<j, i>> \notin OpToRel(<, Nat)
  BY NatLessThanWellFounded, WFMin
<1>2. \A j \in T : ~(j < i)
  BY <1>1 DEF OpToRel
<1> QED
  BY <1>2

\* A finite set of integers has a greatest one: that with the fewest above it.
LEMMA Greatest ==
    ASSUME NEW S \in SUBSET Int, IsFiniteSet(S), S # {}
    PROVE  Max(S) \in S /\ \A y \in S : Max(S) >= y
<1> DEFINE Above(x) == {y \in S : y > x}
           T == {Cardinality(Above(x)) : x \in S}
<1>1. \A x \in S : IsFiniteSet(Above(x)) /\ Cardinality(Above(x)) \in Nat
  BY FS_Subset, FS_CardinalityType
<1>2. PICK x \in S : \A y \in S : Cardinality(Above(x)) <= Cardinality(Above(y))
  <2>1. T \in SUBSET Nat /\ T # {}
    BY <1>1
  <2> HIDE DEF Above
  <2>2. PICK i \in T : \A j \in T : i <= j
    BY <2>1, Least
  <2> QED
    BY <2>2
<1>3. ASSUME NEW y \in S, y > x PROVE FALSE
  <2>1. Above(y) \subseteq Above(x) /\ y \in Above(x) /\ y \notin Above(y)
    <3>1. x \in Int /\ y \in Int /\ \A z \in S : z \in Int
      OBVIOUS
    <3>2. \A z \in S : z > y => z > x
      BY <1>3, <3>1
    <3>3. ~(y > y)
      BY <3>1
    <3> QED
      BY <1>3, <3>2, <3>3
  <2> HIDE DEF Above
  <2>2. Cardinality(Above(x)) = Cardinality(Above(y))
    BY <1>1, <1>2, <2>1, FS_Subset
  <2> QED
    BY <1>1, <2>1, <2>2, FS_Subset
<1>4. \A y \in S : x >= y
  BY <1>3
<1> QED
  BY <1>4 DEF Max

\* The position after all positions is one.
LEMMA NextPositionSound ==
    ASSUME NEW positions, IsFiniteSet(DOMAIN positions), Range(positions) \subseteq Nat
    PROVE  /\ NextPosition(positions) \in Nat
           /\ \A a \in DOMAIN positions : positions[a] < NextPosition(positions)
<1> DEFINE S == Range(positions) \cup {-1}
<1>1. IsFiniteSet(Range(positions))
  <2> DEFINE f == [i \in DOMAIN positions |-> positions[i]]
  <2>1. f \in Surjection(DOMAIN positions, Range(positions))
    BY DEF Surjection, Range
  <2> QED
    BY <2>1, FS_Surjection
<1>2. IsFiniteSet(S)
  BY <1>1, FS_AddElement
<1>3. S \in SUBSET Int /\ S # {} /\ \A y \in S : y >= -1
  OBVIOUS
<1>4. Max(S) \in S /\ \A y \in S : Max(S) >= y
  BY <1>2, <1>3, Greatest
<1>5. \A a \in DOMAIN positions : positions[a] \in S
  BY DEF Range
<1> HIDE DEF S
<1>6. Max(S) \in Int /\ Max(S) >= -1
  BY <1>3, <1>4
<1>7. \A y \in S : y < Max(S) + 1
  BY <1>3, <1>4, <1>6
<1> QED
  BY <1>5, <1>6, <1>7 DEF NextPosition, S

\* An account that is added gets a row and a position.
LEMMA AddSound ==
    ASSUME RowsSound, KeysSound, NEW k, NEW a \in Accounts, NEW device \in {0, MaxToken},
           AddAccountToPool(k, a, device), importing' \in [key : Keys \cup {None}, rows : Seq(CSVRow)]
    PROVE  Tabled({0, MaxToken})
<1>1. RowsSound' /\ a \in DOMAIN row' /\ DOMAIN row \subseteq DOMAIN row' /\ Stored' \subseteq Stored \cup {device}
  BY UpsertSound, TokenBounds DEF AddAccountToPool
<1>2. k \in DOMAIN bound /\ enabled' = enabled
  BY DEF AddAccountToPool, KeysSound
<1>3. CASE a \in DOMAIN bound[k]
  <2>1. bound' = bound
    BY <1>3 DEF AddAccountToPool
  <2> QED
    BY <1>1, <1>2, <2>1 DEF Tabled, KeysSound
<1>4. CASE a \notin DOMAIN bound[k]
  <2> DEFINE n == NextPosition(bound[k])
  <2>1. n \in Nat
    <3>1. DOMAIN bound[k] \subseteq Accounts /\ Range(bound[k]) \subseteq Nat
      BY <1>2 DEF KeysSound, RowsSound
    <3>2. IsFiniteSet(DOMAIN bound[k])
      BY <3>1, LimitAssumption, FS_Subset
    <3> QED
      BY <3>1, <3>2, NextPositionSound
  <2>2. bound' = [bound EXCEPT ![k] = Insert(bound[k], a, n)]
    BY <1>4 DEF AddAccountToPool
  <2> HIDE DEF n
  <2>3. DOMAIN bound' = DOMAIN bound /\ bound'[k] = Insert(bound[k], a, n)
        /\ \A o \in DOMAIN bound : o # k => bound'[o] = bound[o]
    BY <1>2, <2>2
  <2>4. DOMAIN bound'[k] = DOMAIN bound[k] \cup {a} /\ Range(bound'[k]) \subseteq Range(bound[k]) \cup {n}
    BY <2>3 DEF Insert, Range
  <2>5. \A o \in DOMAIN bound' : DOMAIN bound'[o] \subseteq DOMAIN row' /\ Range(bound'[o]) \subseteq Nat
    BY <1>1, <1>2, <2>1, <2>3, <2>4 DEF KeysSound
  <2> QED
    BY <1>1, <1>2, <2>3, <2>5 DEF Tabled, KeysSound
<1> QED
  BY <1>3, <1>4

\* So does each row of a CSV, unless its key is gone.
LEMMA ImportSound ==
    ASSUME RowsSound, KeysSound, ImportRow
    PROVE  Tabled({0, MaxToken})
<1> DEFINE r == Head(importing.rows)
<1>1. importing \in [key : Keys \cup {None}, rows : Seq(CSVRow)] /\ importing.rows # <<>>
  BY DEF KeysSound, ImportRow
<1>2. r \in CSVRow /\ Tail(importing.rows) \in Seq(CSVRow)
  BY <1>1, HeadTailProperties
<1>3. importing' \in [key : Keys \cup {None}, rows : Seq(CSVRow)]
  BY <1>1, <1>2 DEF ImportRow
<1>4. CASE importing.key \in DOMAIN enabled
  <2>1. AddAccountToPool(importing.key, r.account, r.device)
    BY <1>4 DEF ImportRow
  <2>2. r.account \in Accounts /\ r.device \in {0, MaxToken}
    BY <1>2 DEF CSVRow
  <2> QED
    BY <1>3, <2>1, <2>2, AddSound
<1>5. CASE importing.key \notin DOMAIN enabled
  <2>1. UNCHANGED <<enabled, bound, row>>
    BY <1>5 DEF ImportRow
  <2> QED
    BY <1>3, <2>1 DEF Tabled, RowsSound, KeysSound, MuteReason, Stored
<1> QED
  BY <1>4, <1>5

\* Whatever the administrator does, keys and rows keep their types.
LEMMA EditSound ==
    ASSUME RowsSound, KeysSound, NEW rows \in CSVs, Edit(rows)
    PROVE  Tabled({0, MaxToken})
<1>1. ASSUME NEW k \in Keys, CreateGatewayKey(k)
      PROVE  Tabled({0, MaxToken})
  <2>1. enabled' = Insert(enabled, k, TRUE) /\ bound' = Insert(bound, k, <<>>) /\ UNCHANGED <<row, importing>>
    BY <1>1 DEF CreateGatewayKey
  <2>2. /\ enabled' \in [DOMAIN enabled' -> BOOLEAN] /\ DOMAIN enabled' = DOMAIN enabled \cup {k}
        /\ DOMAIN bound' = DOMAIN bound \cup {k}
    BY <2>1 DEF Insert, KeysSound
  <2>3. \A o \in DOMAIN bound' : bound'[o] = <<>> \/ (o \in DOMAIN bound /\ bound'[o] = bound[o])
    BY <2>1 DEF Insert
  <2>4. \A o \in DOMAIN bound' : DOMAIN bound'[o] \subseteq DOMAIN row /\ Range(bound'[o]) \subseteq Nat
    <3>1. DOMAIN <<>> = {} /\ Range(<<>>) = {}
      BY DEF Range
    <3> QED
      BY <2>3, <3>1 DEF KeysSound
  <2> QED
    BY <1>1, <2>1, <2>2, <2>4 DEF Tabled, RowsSound, KeysSound, MuteReason, Stored
<1>2. ASSUME NEW k \in Keys, DeleteGatewayKey(k)
      PROVE  Tabled({0, MaxToken})
  BY <1>2 DEF DeleteGatewayKey, Tabled, RowsSound, KeysSound, MuteReason, Stored
<1>3. ASSUME NEW k \in Keys, NEW new \in Keys, RotateGatewayAPIKey(k, new)
      PROVE  Tabled({0, MaxToken})
  <2>1. /\ enabled' = [o \in (DOMAIN enabled \ {k}) \cup {new} |-> IF o = new THEN enabled[k] ELSE enabled[o]]
        /\ bound' = [o \in (DOMAIN bound \ {k}) \cup {new} |-> IF o = new THEN bound[k] ELSE bound[o]]
        /\ k \in DOMAIN enabled /\ UNCHANGED <<row, importing>>
    BY <1>3 DEF RotateGatewayAPIKey
  <2> QED
    BY <2>1 DEF Tabled, RowsSound, KeysSound, MuteReason, Stored
<1>4. ASSUME NEW k \in Keys, NEW on \in BOOLEAN, UpdateGatewayKeyMeta(k, on)
      PROVE  Tabled({0, MaxToken})
  BY <1>4 DEF UpdateGatewayKeyMeta, Tabled, RowsSound, KeysSound, MuteReason, Stored
<1>5. ASSUME NEW k \in Keys, ImportAccountsCSV(k, rows)
      PROVE  Tabled({0, MaxToken})
  <2>1. importing' \in [key : Keys \cup {None}, rows : Seq(CSVRow)]
    BY <1>5, StartAssumption DEF ImportAccountsCSV, CSVRow
  <2> QED
    BY <1>5, <2>1 DEF ImportAccountsCSV, Tabled, RowsSound, KeysSound, MuteReason, Stored
<1>6. ASSUME NEW k \in Keys, NEW a \in Accounts, AddAccountToPool(k, a, 0), UNCHANGED importing
      PROVE  Tabled({0, MaxToken})
  BY <1>6, AddSound DEF KeysSound
<1>7. ASSUME NEW k, NEW a, NEW discarded \in BOOLEAN, SetAccountPoolState(k, a, discarded, "manual"),
             UNCHANGED <<enabled, bound, importing>>
      PROVE  Tabled({0, MaxToken})
  <2>1. Kept
    BY <1>7, StateKept DEF Reasons
  <2> QED
    BY <1>7, <2>1, KeysKept DEF Kept, Tabled
<1>8. ASSUME NEW a, SetDevice(a, 0), UNCHANGED <<enabled, bound, importing>>
      PROVE  Tabled({0, MaxToken})
  <2>1. RowsSound' /\ DOMAIN row' = DOMAIN row /\ Stored' \subseteq Stored \cup {0}
    BY <1>8, DeviceSet, TokenBounds
  <2> QED
    BY <1>8, <2>1, KeysKept DEF Tabled
<1> QED
  BY <1>1, <1>2, <1>3, <1>4, <1>5, <1>6, <1>7, <1>8 DEF Edit

-----------------------------------------------------------------------------
(* The harvester *)

\* What is in a sequence is at one of its places.
LEMMA SeqFacts ==
    ASSUME NEW S, NEW s \in Seq(S)
    PROVE  /\ Len(s) \in Nat /\ DOMAIN s = 1 .. Len(s)
           /\ \A i \in 1 .. Len(s) : s[i] \in S
           /\ \A x \in Range(s) : \E i \in 1 .. Len(s) : s[i] = x
           /\ \A i \in 1 .. Len(s) : s[i] \in Range(s)
BY DEF Range

\* The part of a sequence after its first m elements.
LEMMA PartFacts ==
    ASSUME NEW S, NEW s \in Seq(S), NEW m \in Nat, NEW n \in Nat, m <= n, n <= Len(s),
           NEW k \in Nat, k = m + 1
    PROVE  /\ SubSeq(s, k, n) \in Seq(S) /\ Len(SubSeq(s, k, n)) = n - m
           /\ \A i \in 1 .. n - m : SubSeq(s, k, n)[i] = s[m + i]
<1>1. \A i \in k .. n : s[i] \in S
  BY SeqFacts
<1>2. k \in Int /\ n \in Int
  OBVIOUS
<1> DEFINE p == SubSeq(s, k, n)
<1>3. p \in Seq(S) /\ Len(p) = (IF k <= n THEN n - k + 1 ELSE 0)
      /\ \A i \in 1 .. n - k + 1 : p[i] = s[k + i - 1]
  BY <1>1, <1>2, SubSeqProperties
<1> HIDE DEF p
<1>4. n - k + 1 = n - m /\ \A i \in 1 .. n - m : k + i - 1 = m + i
  OBVIOUS
<1>5. Len(p) = n - m
  BY <1>3
<1>6. \A i \in 1 .. n - m : p[i] = s[m + i]
  BY <1>3, <1>4
<1> QED
  BY <1>3, <1>5, <1>6 DEF p

\* There are finitely many tasks.
LEMMA TasksFinite == IsFiniteSet(Tasks) /\ Workers \in Nat /\ MaxQueue \in Nat \ {0}
<1>1. N \in Int /\ 1 \in Int
  BY HarvesterAssumption
<1>2. IsFiniteSet(1 .. N)
  BY <1>1, FS_Interval
<1> QED
  BY <1>2, HarvesterAssumption DEF Tasks

\* A line without repetition, cut in two after n of its l elements.
Cut(line, l, n, head, tail) ==
    /\ l \in Nat /\ l = Len(line) /\ n \in Nat /\ n <= l
    /\ head = SubSeq(line, 1, n) /\ tail = SubSeq(line, n + 1, l)

\* A line that is cut leaves each of its jobs in one of two parts.
LEMMA CutInTwo ==
    ASSUME NEW S, NEW line \in Seq(S), IsInjective(line), NEW l, NEW n, NEW head, NEW tail,
           Cut(line, l, n, head, tail)
    PROVE  /\ Range(head) \subseteq Range(line) /\ Range(tail) \subseteq Range(line)
           /\ Range(head) \cap Range(tail) = {}
           /\ tail \in Seq(S) /\ Len(tail) = l - n /\ IsInjective(tail)
           /\ IsFiniteSet(Range(head)) /\ Cardinality(Range(head)) = n
<1>0. /\ l \in Nat /\ l = Len(line) /\ n \in Nat /\ n <= l
      /\ head = SubSeq(line, 1, n) /\ tail = SubSeq(line, n + 1, l)
  BY DEF Cut
<1>1. DOMAIN line = 1 .. l /\ \A i \in 1 .. l : line[i] \in S /\ line[i] \in Range(line)
  BY <1>0, SeqFacts
<1>2. head \in Seq(S) /\ Len(head) = n /\ \A i \in 1 .. n : head[i] = line[i]
  <2>1. PICK o \in Nat : o = 0
    OBVIOUS
  <2>2. PICK j \in Nat : j = 1
    OBVIOUS
  <2>3. head = SubSeq(line, j, n) /\ j = o + 1 /\ o <= n /\ n <= Len(line)
    BY <1>0, <2>1, <2>2
  <2>4. /\ head \in Seq(S) /\ Len(head) = n - o
        /\ \A i \in 1 .. n - o : head[i] = line[o + i]
    BY <1>0, <2>3, PartFacts
  <2>5. n - o = n /\ \A i \in 1 .. n : o + i = i
    BY <1>0, <2>1
  <2> QED
    BY <2>4, <2>5
<1>3. tail \in Seq(S) /\ Len(tail) = l - n /\ \A i \in 1 .. l - n : tail[i] = line[n + i]
  <2>1. PICK k \in Nat : k = n + 1
    BY <1>0
  <2>2. tail = SubSeq(line, k, l) /\ l <= Len(line) /\ n <= l
    BY <1>0, <2>1
  <2> QED
    BY <1>0, <2>1, <2>2, PartFacts
<1>4. DOMAIN head = 1 .. n /\ DOMAIN tail = 1 .. l - n
  <2>1. DOMAIN head = 1 .. Len(head) /\ DOMAIN tail = 1 .. Len(tail)
    BY <1>2, <1>3, SeqFacts
  <2> QED
    BY <1>2, <1>3, <2>1
<1>5. \A x \in Range(head) : \E i \in 1 .. n : x = line[i]
  BY <1>2, <1>4 DEF Range
<1>6. \A x \in Range(tail) : \E i \in 1 .. l - n : x = line[n + i]
  <2>1. \A x \in Range(tail) : \E i \in 1 .. l - n : x = tail[i]
    BY <1>4 DEF Range
  <2> SUFFICES ASSUME NEW x \in Range(tail) PROVE \E i \in 1 .. l - n : x = line[n + i]
    OBVIOUS
  <2>2. PICK i \in 1 .. l - n : x = tail[i]
    BY <2>1
  <2>3. tail[i] = line[n + i]
    BY <1>3
  <2> QED
    BY <2>2, <2>3
<1>7. \A i \in 1 .. n : i \in 1 .. l
  BY <1>0
<1>8. \A i \in 1 .. l - n : n + i \in 1 .. l /\ n + i > n
  BY <1>0
<1>9. Range(head) \subseteq Range(line) /\ Range(tail) \subseteq Range(line)
  BY <1>1, <1>5, <1>6, <1>7, <1>8
<1>10. \A i, j \in 1 .. l : line[i] = line[j] => i = j
  BY <1>1 DEF IsInjective
<1>11. Range(head) \cap Range(tail) = {}
  <2> SUFFICES ASSUME NEW x \in Range(head), x \in Range(tail) PROVE FALSE
    OBVIOUS
  <2>1. PICK i \in 1 .. n : x = line[i]
    BY <1>5
  <2>2. PICK j \in 1 .. l - n : x = line[n + j]
    BY <1>6
  <2>3. i = n + j
    BY <1>7, <1>8, <1>10, <2>1, <2>2
  <2> QED
    BY <1>0, <1>8, <2>3
<1>12. IsInjective(tail)
  <2> SUFFICES ASSUME NEW i \in 1 .. l - n, NEW j \in 1 .. l - n, tail[i] = tail[j] PROVE i = j
    BY <1>4 DEF IsInjective
  <2>1. line[n + i] = line[n + j]
    BY <1>3
  <2>2. n + i = n + j
    BY <1>8, <1>10, <2>1
  <2> QED
    BY <1>0, <2>2
<1>13. IsFiniteSet(Range(head)) /\ Cardinality(Range(head)) = n
  <2> DEFINE f == [i \in 1 .. n |-> line[i]]
  <2>1. \A i \in 1 .. n : line[i] \in Range(head)
    BY <1>2, <1>4 DEF Range
  <2>2. f \in [1 .. n -> Range(head)]
    BY <2>1
  <2>3. \A i, j \in 1 .. n : f[i] = f[j] => i = j
    BY <1>7, <1>10
  <2>4. \A x \in Range(head) : \E i \in 1 .. n : f[i] = x
    BY <1>5
  <2>5. ExistsBijection(1 .. n, Range(head))
    <3>1. f \in Bijection(1 .. n, Range(head))
      BY <2>2, <2>3, <2>4 DEF Bijection, Injection, Surjection, IsInjective
    <3> QED
      BY <3>1 DEF ExistsBijection
  <2>6. IsFiniteSet(1 .. n) /\ Cardinality(1 .. n) = n
    <3>1. Cardinality(1 .. n) = IF 1 > n THEN 0 ELSE n - 1 + 1
      BY <1>0, FS_Interval
    <3>2. IsFiniteSet(1 .. n)
      BY <1>0, FS_Interval
    <3> QED
      BY <1>0, <3>1, <3>2
  <2> QED
    BY <2>5, <2>6, FS_Bijection
<1> QED
  BY <1>3, <1>9, <1>11, <1>12, <1>13

\* The workers get as many jobs as there are or as they can take.
LEMMA PumpSound ==
    ASSUME NEW jobs, NEW line, Lines(jobs, line), Pump(jobs, line)
    PROVE  /\ Lines(running', waiting') /\ Len(waiting') <= Len(line)
           /\ waiting' # <<>> => Cardinality(running') = Workers
           /\ running' \cup Range(waiting') \subseteq jobs \cup Range(line)
<1>1. /\ jobs \subseteq Tasks /\ line \in Seq(Tasks) /\ IsInjective(line)
      /\ jobs \cap Range(line) = {} /\ Cardinality(jobs) <= Workers
  BY DEF Lines
<1>2. Workers \in Nat /\ IsFiniteSet(Tasks) /\ IsFiniteSet(jobs) /\ Cardinality(jobs) \in Nat
  BY <1>1, TasksFinite, FS_Subset, FS_CardinalityType
<1>3. PICK l \in Nat : l = Len(line)
  BY <1>1, SeqFacts
<1>4. PICK c \in Nat : c = Cardinality(jobs)
  BY <1>2
<1>5. PICK n \in Nat : /\ n = Min({Workers - c, l})
                     /\ n <= l /\ n <= Workers - c /\ (n = l \/ n = Workers - c)
  <2>1. PICK w \in Nat : w = Workers - c
    BY <1>1, <1>2, <1>4
  <2>2. Min({w, l}) \in {w, l} /\ Min({w, l}) <= w /\ Min({w, l}) <= l
    BY DEF Min
  <2> QED
    BY <2>1, <2>2
<1>6. PICK head : head = SubSeq(line, 1, n)
  OBVIOUS
<1>7. Cut(line, l, n, head, waiting')
  BY <1>3, <1>4, <1>5, <1>6 DEF Pump, Cut
<1>8. running' = jobs \cup Range(head)
  BY <1>3, <1>4, <1>5, <1>6 DEF Pump
<1>9. /\ Range(head) \subseteq Range(line) /\ Range(waiting') \subseteq Range(line)
      /\ Range(head) \cap Range(waiting') = {}
      /\ waiting' \in Seq(Tasks) /\ Len(waiting') = l - n /\ IsInjective(waiting')
      /\ IsFiniteSet(Range(head)) /\ Cardinality(Range(head)) = n
  BY <1>1, <1>7, CutInTwo
<1>10. Cardinality(running') = c + n
  <2>1. jobs \cap Range(head) = {}
    BY <1>1, <1>9
  <2>2. Cardinality(running') = Cardinality(jobs) + Cardinality(Range(head)) - Cardinality({})
    BY <1>2, <1>8, <1>9, <2>1, FS_Union
  <2> QED
    BY <1>4, <1>9, <2>2, FS_EmptySet
<1>11. Cardinality(running') <= Workers /\ Len(waiting') <= l
  BY <1>2, <1>5, <1>9, <1>10
<1>12. ASSUME waiting' # <<>> PROVE Cardinality(running') = Workers
  <2>1. Len(waiting') # 0
    BY <1>9, <1>12, EmptySeq
  <2>2. n = Workers - c
    BY <1>5, <1>9, <2>1
  <2> QED
    BY <1>2, <1>10, <2>2
<1>13. running' \subseteq Tasks /\ running' \cap Range(waiting') = {}
  <2>1. Range(line) \subseteq Tasks
    BY <1>1, SeqFacts
  <2> QED
    BY <1>1, <1>8, <1>9, <2>1
<1> QED
  BY <1>3, <1>8, <1>9, <1>11, <1>12, <1>13 DEF Lines

\* A worker that is done leaves a job in no place.
LEMMA JobEndsSound ==
    ASSUME JobsSound, NEW t \in running, JobEnds(t)
    PROVE  /\ Lines(running', waiting') /\ Len(waiting') <= MaxQueue
           /\ waiting' # <<>> => Cardinality(running') = Workers
           /\ running' \cup Range(waiting') \subseteq (running \cup Range(waiting)) \ {t}
<1>1. Lines(running, waiting) /\ Len(waiting) <= MaxQueue
  BY DEF JobsSound
<1>2. IsFiniteSet(running)
  BY <1>1, TasksFinite, FS_Subset DEF Lines
<1>3. Cardinality(running \ {t}) = Cardinality(running) - 1 /\ Cardinality(running) \in Nat
  BY <1>2, FS_RemoveElement, FS_CardinalityType
<1>4. Lines(running \ {t}, waiting)
  BY <1>1, <1>3, TasksFinite DEF Lines
<1>5. Pump(running \ {t}, waiting)
  BY DEF JobEnds
<1>6. /\ Lines(running', waiting') /\ Len(waiting') <= Len(waiting)
      /\ waiting' # <<>> => Cardinality(running') = Workers
      /\ running' \cup Range(waiting') \subseteq (running \ {t}) \cup Range(waiting)
  BY <1>4, <1>5, PumpSound
<1>7. t \notin Range(waiting)
  BY <1>1 DEF Lines
<1>8. Len(waiting) \in Nat /\ Len(waiting') \in Nat /\ MaxQueue \in Nat
  BY <1>1, <1>6, TasksFinite, SeqFacts DEF Lines
<1>9. Len(waiting') <= MaxQueue
  BY <1>1, <1>6, <1>8
<1> QED
  BY <1>6, <1>7, <1>9

-----------------------------------------------------------------------------
(* New tokens *)

\* A function of a finite set has no more values than the set has members.
LEMMA ImageBound ==
    ASSUME NEW S, IsFiniteSet(S), NEW f
    PROVE  /\ IsFiniteSet({f[x] : x \in S})
           /\ Cardinality({f[x] : x \in S}) <= Cardinality(S)
<1> DEFINE g == [x \in S |-> f[x]]
<1>1. g \in Surjection(S, {f[x] : x \in S})
  BY DEF Surjection
<1> QED
  BY <1>1, FS_Surjection

\* A union has no more members than its parts have together.
LEMMA UnionBound ==
    ASSUME NEW S, IsFiniteSet(S), NEW T, IsFiniteSet(T), NEW m \in Nat, NEW n \in Nat,
           Cardinality(S) <= m, Cardinality(T) <= n
    PROVE  IsFiniteSet(S \cup T) /\ Cardinality(S \cup T) <= m + n
<1>1. IsFiniteSet(S \cup T)
  BY FS_Union
<1>2. Cardinality(S \cup T) = Cardinality(S) + Cardinality(T) - Cardinality(S \cap T)
  BY FS_Union
<1>3. Cardinality(S) \in Nat /\ Cardinality(T) \in Nat /\ Cardinality(S \cap T) \in Nat
  BY FS_CardinalityType, FS_Intersection
<1> QED
  BY <1>1, <1>2, <1>3

\* There is a token that nobody has, while one task has none.
LEMMA NewIsNew ==
    ASSUME RowsSound, task \in [Tasks -> Task], \A u \in Tasks : Stands(u),
           NEW t \in Tasks, task[t].device = 0
    PROVE  /\ New \in 1 .. MaxToken - 1 /\ New \notin Stored
           /\ \A u \in Tasks : New # task[u].device /\ New \notin task[u].refused
<1> DEFINE Taken == Stored \cup {task[u].device : u \in Tasks} \cup UNION {task[u].refused : u \in Tasks}
           Free == (1 .. MaxToken - 1) \ Taken
           devices == [u \in Tasks |-> task[u].device]
           refusals == [u \in Tasks |-> IF task[u].refused = {} THEN 0
                                        ELSE CHOOSE d \in Tokens : task[u].refused = {d}]
           kept == [a \in DOMAIN row |-> row[a].device]
           D == {devices[u] : u \in Tasks \ {t}}
           R == {refusals[u] : u \in Tasks}
<1>1. PICK c \in Nat : c = Cardinality(Accounts)
  BY TokenBounds
<1>2. PICK o \in Nat : o = N - 1
  <2>1. N \in Nat /\ t >= 1 /\ t <= N /\ t \in Int
    BY TokenBounds DEF Tasks
  <2> QED
    BY <2>1
<1>3. IsFiniteSet(Stored) /\ Cardinality(Stored) <= c
  <2>1. IsFiniteSet(DOMAIN row) /\ Cardinality(DOMAIN row) <= c
    BY <1>1, LimitAssumption, FS_Subset DEF RowsSound
  <2>2. IsFiniteSet({kept[a] : a \in DOMAIN row}) /\ Cardinality({kept[a] : a \in DOMAIN row}) <= Cardinality(DOMAIN row)
    BY <2>1, ImageBound
  <2>3. Stored = {kept[a] : a \in DOMAIN row}
    BY DEF Stored
  <2> HIDE DEF kept
  <2>4. Cardinality(Stored) \in Nat /\ Cardinality(DOMAIN row) \in Nat
    BY <2>1, <2>2, <2>3, FS_CardinalityType
  <2> QED
    BY <2>1, <2>2, <2>3, <2>4
<1>4. IsFiniteSet(Tasks) /\ Cardinality(Tasks) = N
  <2>1. N \in Nat /\ 1 \in Int /\ N \in Int
    BY TokenBounds
  <2>2. Cardinality(1 .. N) = IF 1 > N THEN 0 ELSE N - 1 + 1
    BY <2>1, FS_Interval
  <2>3. Cardinality(1 .. N) = N
    BY <2>1, <2>2
  <2> QED
    BY <2>3, TasksFinite DEF Tasks
<1>5. IsFiniteSet(D) /\ Cardinality(D) <= o
  <2>1. IsFiniteSet(Tasks \ {t}) /\ Cardinality(Tasks \ {t}) = o
    <3>1. IsFiniteSet(Tasks \ {t}) /\ Cardinality(Tasks \ {t}) = Cardinality(Tasks) - 1
      BY <1>4, FS_RemoveElement
    <3> QED
      BY <1>2, <1>4, <3>1
  <2> HIDE DEF devices
  <2> QED
    BY <2>1, ImageBound
<1>6. IsFiniteSet(R) /\ Cardinality(R) <= N
  <2> HIDE DEF refusals
  <2> QED
    BY <1>4, ImageBound
<1>7. \A u \in Tasks : task[u].refused \subseteq {refusals[u]}
  BY DEF Stands
<1>8. \A u \in Tasks : task[u].device \in D \cup {0}
  OBVIOUS
<1>9. Taken \subseteq (Stored \cup D) \cup R \cup {0}
  <2>1. UNION {task[u].refused : u \in Tasks} \subseteq R
    BY <1>7
  <2>2. {task[u].device : u \in Tasks} \subseteq D \cup {0}
    BY <1>8
  <2> QED
    BY <2>1, <2>2
<1> HIDE DEF D, R, Taken
<1>10. Free # {}
  <2> SUFFICES ASSUME Free = {} PROVE FALSE
    OBVIOUS
  <2> DEFINE U == (Stored \cup D) \cup R
  <2>1. IsFiniteSet(Stored \cup D) /\ Cardinality(Stored \cup D) <= c + o
    BY <1>3, <1>5, UnionBound
  <2>2. PICK co \in Nat : co = c + o
    OBVIOUS
  <2>3. N \in Nat
    BY TokenBounds
  <2>4. IsFiniteSet(U) /\ Cardinality(U) <= co + N
    BY <1>6, <2>1, <2>2, <2>3, UnionBound
  <2>5. PICK m \in Nat : m = MaxToken - 1
    BY TokenBounds
  <2>6. 1 .. m \subseteq U
    <3>1. \A x \in 1 .. m : x # 0
      OBVIOUS
    <3> QED
      BY <1>9, <2>5, <3>1
  <2>7. Cardinality(1 .. m) = m
    <3>1. Cardinality(1 .. m) = IF 1 > m THEN 0 ELSE m - 1 + 1
      BY FS_Interval
    <3> QED
      BY <3>1
  <2>8. Cardinality(1 .. m) <= Cardinality(U) /\ Cardinality(U) \in Nat
    BY <2>4, <2>6, FS_Subset, FS_CardinalityType
  <2> HIDE DEF U
  <2>9. m = c + 2 * N
    BY <1>1, <2>5, TokenBounds
  <2> QED
    BY <1>2, <2>2, <2>3, <2>4, <2>7, <2>8, <2>9
<1>11. Free \in SUBSET Nat
  OBVIOUS
<1>12. PICK d \in Free : \A e \in Free : d <= e
  BY <1>10, <1>11, Least
<1>13. Min(Free) \in Free
  BY <1>12 DEF Min
<1>14. New = Min(Free)
  BY DEF New, Stored, Taken
<1> QED
  BY <1>13, <1>14 DEF Taken

-----------------------------------------------------------------------------
(* What a step may do with a task *)

\* It is over, goes on without what it knew, or has a verdict to report.
Quits(u) ==
    LET r == task'[u] IN
    /\ task[u].at \notin {"idle", "done"}
    /\ r \in Task /\ r.at \in {"ask", "report", "done"} /\ r.device = 0 /\ r.refused = {}
    /\ r.at # "done" => r.account = task[u].account
    /\ r.at = "report" /\ r.verdict = "until" => r.process = "poolui"

\* It begins with the token of a row.
Begun(p, a, k, d) ==
    [Idle EXCEPT !.at = "ensure", !.process = p, !.account = a, !.key = k, !.device = d]

Begins(u) ==
    /\ task[u].at = "idle"
    /\ \E p \in Processes, a \in Accounts, k \in Keys, d \in Stored : task'[u] = Begun(p, a, k, d)

\* It goes on with the token it has, or has none and asks for one.
GoesOn(u) ==
    /\ task[u].at = "ensure"
    /\ \E at \in {"login", "follow", "lead"} :
          /\ task'[u] = [task[u] EXCEPT !.at = at]
          /\ at # "login" => task[u].device = 0

Refused(u) ==
    /\ task[u].at = "login" /\ task[u].refused = {}
    /\ task'[u] = [task[u] EXCEPT !.at = "ensure", !.device = 0, !.refused = {task[u].device}]

\* The token that a task has harvested is that of all who wait for it.
Gets(u) ==
    /\ task[u].at \in {"follow", "harvested"}
    /\ \E s \in Tasks :
          /\ task[s].at = "harvested" /\ task'[s].at = "login"
          /\ task'[u] = [task[u] EXCEPT !.at = "login", !.device = task[s].device]

Passes(u) == task'[u] = task[u] \/ Quits(u) \/ Begins(u) \/ GoesOn(u) \/ Refused(u) \/ Gets(u)

\* The tokens that a step makes known.
Spread == {task[s].device : s \in {s \in Tasks : task[s].at = "harvested" /\ task'[s].at # "harvested"}}

\* The rows have tokens that there may be.
LEMMA TokensTyped ==
    ASSUME RowsSound
    PROVE  Stored \subseteq Tokens
BY DEF RowsSound, Stored, Row

\* What a step may do leaves a task where it may stand.
LEMMA PassStands ==
    ASSUME RowsSound, TasksSound, NEW u \in Tasks, Passes(u)
    PROVE  /\ task'[u] \in Task /\ Stands(u)'
           /\ task'[u].at = "harvested" => task'[u] = task[u]
           /\ task'[u].device \in {0, task[u].device} \cup Stored \cup Spread
           /\ task'[u].refused \subseteq task[u].refused \cup {task[u].device}
<1> DEFINE r == task'[u]  q == task[u]
<1>1. q \in Task /\ Stands(u) /\ Fresh(u)
  BY DEF TasksSound
<1>2. CASE r = q
  BY <1>1, <1>2 DEF Stands
<1>3. CASE Quits(u)
  BY <1>1, <1>3 DEF Stands, Quits
<1>4. CASE Begins(u)
  <2>1. PICK p \in Processes, a \in Accounts, k \in Keys, d \in Stored : r = Begun(p, a, k, d)
    BY <1>4 DEF Begins
  <2>2. d \in Tokens
    BY TokensTyped
  <2>3. /\ r \in Task /\ r.at = "ensure" /\ r.account = a /\ r.device = d /\ r.refused = {}
    BY <2>1, <2>2 DEF Begun, Idle, Task
  <2> QED
    BY <2>3 DEF Stands
<1>5. CASE GoesOn(u)
  <2>1. PICK at \in {"login", "follow", "lead"} :
           r = [q EXCEPT !.at = at] /\ (at # "login" => q.device = 0) /\ q.at = "ensure"
    BY <1>5 DEF GoesOn
  <2>2. /\ r \in Task /\ r.at = at /\ r.account = q.account /\ r.device = q.device /\ r.refused = q.refused
    BY <1>1, <2>1 DEF Task
  <2> QED
    BY <1>1, <2>1, <2>2 DEF Stands
<1>6. CASE Refused(u)
  <2>1. r = [q EXCEPT !.at = "ensure", !.device = 0, !.refused = {q.device}] /\ q.at = "login"
    BY <1>6 DEF Refused
  <2>2. 0 \in Tokens
    BY TokenBounds
  <2>3. q.device \in Tokens /\ {q.device} \in SUBSET Tokens
    BY <1>1 DEF Task
  <2>4. r \in Task /\ r.at = "ensure" /\ r.account = q.account /\ r.device = 0 /\ r.refused = {q.device}
    BY <1>1, <2>1, <2>2, <2>3 DEF Task
  <2> QED
    BY <1>1, <2>1, <2>4, <2>3 DEF Stands
<1>7. CASE Gets(u)
  <2>1. PICK s \in Tasks : /\ task[s].at = "harvested" /\ task'[s].at = "login"
                           /\ r = [q EXCEPT !.at = "login", !.device = task[s].device]
                           /\ q.at \in {"follow", "harvested"}
    BY <1>7 DEF Gets
  <2>2. task[s] \in Task /\ task[s].device \notin q.refused
    BY <2>1 DEF TasksSound, Fresh
  <2>3. /\ r \in Task /\ r.at = "login" /\ r.account = q.account /\ r.device = task[s].device
        /\ r.refused = q.refused
    BY <1>1, <2>1, <2>2 DEF Task
  <2>4. task[s].device \in Spread
    BY <2>1 DEF Spread
  <2> QED
    BY <1>1, <2>1, <2>2, <2>3, <2>4 DEF Stands
<1> QED
  BY <1>2, <1>3, <1>4, <1>5, <1>6, <1>7 DEF Passes

\* A token that one task harvested stays with it until the task stores it.
LEMMA TasksMove ==
    ASSUME RowsSound, TasksSound, DOMAIN task' = Tasks, task' = [u \in Tasks |-> task'[u]],
           \A u \in Tasks : Passes(u) /\ Led(u)',
           call' \in [Processes -> [Accounts -> Tasks \cup {None}]],
           configured' = configured, edits' \in 0 .. MaxEdits,
           Stored' \subseteq Stored \cup {0, MaxToken} \cup Spread
    PROVE  TasksSound'
<1>1. task' \in [Tasks -> Task] /\ \A u \in Tasks : Stands(u)'
  <2>1. \A u \in Tasks : task'[u] \in Task /\ Stands(u)'
    BY PassStands
  <2> QED
    BY <2>1
<1>2. ASSUME NEW w \in Tasks PROVE Fresh(w)'
  <2> SUFFICES ASSUME task'[w].at = "harvested"
               PROVE  /\ task'[w].device \in 1 .. MaxToken - 1 /\ task'[w].device \notin Stored'
                      /\ \A u \in Tasks : /\ task'[w].device \notin task'[u].refused
                                          /\ u # w => task'[w].device # task'[u].device
    BY DEF Fresh
  <2> DEFINE d == task[w].device
  <2>1. task'[w] = task[w]
    BY PassStands
  <2>2. /\ d \in 1 .. MaxToken - 1 /\ d \notin Stored
        /\ \A u \in Tasks : d \notin task[u].refused /\ (u # w => d # task[u].device)
    BY <2>1 DEF TasksSound, Fresh
  <2>3. d # 0 /\ d # MaxToken
    BY <2>2, TokenBounds
  <2>4. d \notin Spread
    BY <2>1, <2>2 DEF Spread
  <2>5. ASSUME NEW u \in Tasks
        PROVE  d \notin task'[u].refused /\ (u # w => d # task'[u].device)
    <3>1. CASE u = w
      BY <2>1, <2>2, <3>1
    <3>2. CASE u # w
      <4>1. /\ task'[u].device \in {0, task[u].device} \cup Stored \cup Spread
            /\ task'[u].refused \subseteq task[u].refused \cup {task[u].device}
        BY PassStands
      <4> QED
        BY <2>2, <2>3, <2>4, <3>2, <4>1
    <3> QED
      BY <3>1, <3>2
  <2> QED
    BY <2>1, <2>2, <2>3, <2>4, <2>5
<1> QED
  BY <1>1, <1>2 DEF TasksSound

\* Where a harvest goes on, it goes on with the task that began it.
LEMMA LedKept ==
    ASSUME TasksSound, NEW u \in Tasks, call' = call,
           task'[u].at \in {"lead", "harvested"} => task'[u] = task[u]
    PROVE  Led(u)'
BY DEF TasksSound, Led

\* The harvester keeps its jobs where their tasks stay what they were.
LEMMA JobsKept ==
    ASSUME JobsSound, UNCHANGED service,
           \A u \in Tasks : task[u].at \in {"lead", "report", "done"} => task'[u].at \in {"lead", "report", "done"}
    PROVE  JobsSound'
<1>1. running \cup Range(waiting) \subseteq Tasks
  BY SeqFacts DEF JobsSound, Lines
<1> QED
  BY <1>1 DEF JobsSound, Lines, service

\* A step that leaves the tables alone keeps what holds of them.
LEMMA TablesKept ==
    ASSUME RowsSound, KeysSound, UNCHANGED tables
    PROVE  RowsSound' /\ KeysSound' /\ Stored' = Stored
BY DEF RowsSound, KeysSound, MuteReason, Stored, tables

-----------------------------------------------------------------------------
(* Tasks that quit *)

\* The verdict of an error is one of three.
LEMMA Classified ==
    ASSUME NEW error
    PROVE  Classify(error) \in {"", "muted", "banned"}
BY DEF Classify

\* A task that is over knows nothing.
LEMMA OverKnown == Over \in Task /\ Over.at = "done" /\ Over.device = 0 /\ Over.refused = {}
<1>1. 0 \in Tokens /\ {} \in SUBSET Tokens
  BY TokenBounds
<1>2. Idle.at = "idle" /\ Idle.device = 0 /\ Idle.refused = {}
  BY DEF Idle
<1>3. Idle \in Task
  BY <1>1 DEF Task, Idle, Processes
<1>4. Over = [Idle EXCEPT !.at = "done"]
  BY DEF Over
<1>5. Over \in Task
  BY <1>3, <1>4 DEF Task
<1>6. Over.at = "done" /\ Over.device = Idle.device /\ Over.refused = Idle.refused
  BY <1>3, <1>4 DEF Task
<1> QED
  BY <1>2, <1>5, <1>6

\* A task may be over, ask, or have a verdict to report.
LEMMA QuitsOver ==
    ASSUME NEW u \in Tasks, task[u].at \notin {"idle", "done"}, task'[u] = Over
    PROVE  Quits(u)
BY OverKnown DEF Quits

\* A login that succeeds forgets its token.
LEMMA QuitsAsking ==
    ASSUME TasksSound, NEW u \in Tasks, task[u].at = "login", task'[u] = Asking(u)
    PROVE  Quits(u)
<1>1. 0 \in Tokens
  BY TokenBounds
<1>2. task[u] \in Task
  BY DEF TasksSound
<1>3. task'[u] = [task[u] EXCEPT !.at = "ask", !.device = 0, !.refused = {}]
  BY DEF Asking
<1>4. /\ task'[u] \in Task /\ task'[u].at = "ask" /\ task'[u].device = 0 /\ task'[u].refused = {}
      /\ task'[u].account = task[u].account
  BY <1>1, <1>2, <1>3 DEF Task
<1> QED
  BY <1>4 DEF Quits

\* A task that reports has a verdict and no token.
LEMMA QuitsReporting ==
    ASSUME TasksSound, NEW u \in Tasks, task[u].at \notin {"idle", "done"},
           NEW v \in Verdicts, v = "until" => task[u].process = "poolui",
           task'[u] = Reporting(u, v)
    PROVE  Quits(u) /\ task'[u].at = "report"
<1>1. 0 \in Tokens
  BY TokenBounds
<1>2. task[u] \in Task
  BY DEF TasksSound
<1>3. task'[u] = [task[u] EXCEPT !.at = "report", !.device = 0, !.refused = {}, !.verdict = v]
  BY <1>2 DEF Reporting, Asking, Task
<1>4. /\ task'[u] \in Task /\ task'[u].at = "report" /\ task'[u].device = 0 /\ task'[u].refused = {}
      /\ task'[u].account = task[u].account /\ task'[u].process = task[u].process
      /\ task'[u].verdict = v
  BY <1>1, <1>2, <1>3 DEF Task
<1> QED
  BY <1>4 DEF Quits

\* A task that fails reports a verdict or is over.
LEMMA QuitsFailed ==
    ASSUME TasksSound, NEW u \in Tasks, task[u].at \notin {"idle", "done"},
           NEW error, task'[u] = Failed(u, error)
    PROVE  Quits(u) /\ task'[u].at \in {"report", "done"}
<1>1. CASE task[u].process = "gateway" /\ Classify(error) # ""
  <2>1. Classify(error) \in Verdicts /\ Classify(error) # "until"
    BY <1>1, Classified DEF Verdicts
  <2>2. task'[u] = Reporting(u, Classify(error))
    BY <1>1 DEF Failed
  <2> QED
    BY <2>1, <2>2, QuitsReporting
<1>2. CASE ~(task[u].process = "gateway" /\ Classify(error) # "")
  <2>1. task'[u] = Over
    BY <1>2 DEF Failed
  <2>2. Over.at = "done"
    BY DEF Over, Idle
  <2> QED
    BY <2>1, <2>2, QuitsOver
<1> QED
  BY <1>1, <1>2

\* The step of one task that neither begins a harvest nor ends one.
LEMMA OneMoves ==
    ASSUME Sound, NEW t \in Tasks, task' = [task EXCEPT ![t] = task'[t]],
           Passes(t), task'[t].at \notin {"lead", "harvested"},
           task[t].at \in {"lead", "report", "done"} => task'[t].at \in {"report", "done"},
           UNCHANGED <<call, service, configured, edits>>,
           RowsSound', KeysSound', Stored' \subseteq Stored \cup {0, MaxToken}
    PROVE  Sound'
<1>1. task \in [Tasks -> Task] /\ edits \in 0 .. MaxEdits /\ call' \in [Processes -> [Accounts -> Tasks \cup {None}]]
  BY DEF Sound, TasksSound
<1>2. DOMAIN task' = Tasks /\ task' = [u \in Tasks |-> task'[u]] /\ \A u \in Tasks : u # t => task'[u] = task[u]
  BY <1>1
<1>3. \A u \in Tasks : Passes(u)
  BY <1>2 DEF Passes
<1>4. \A u \in Tasks : Led(u)'
  BY <1>2, LedKept DEF Sound
<1>5. TasksSound'
  BY <1>1, <1>2, <1>3, <1>4, TasksMove DEF Sound
<1>6. JobsSound'
  <2>1. \A u \in Tasks : task[u].at \in {"lead", "report", "done"} => task'[u].at \in {"lead", "report", "done"}
    BY <1>2
  <2> QED
    BY <2>1, JobsKept DEF Sound
<1> QED
  BY <1>5, <1>6 DEF Sound

\* The tasks that wait for a harvest go on together.
LEMMA CallEnds ==
    ASSUME TasksSound, NEW t \in Tasks, NEW token, NEW error, EndCall(t, token, error),
           \/ task[t].at = "lead" /\ token = 0
           \/ task[t].at = "harvested" /\ token = task[t].device
    PROVE  /\ DOMAIN task' = Tasks /\ task' = [u \in Tasks |-> task'[u]]
           /\ call' \in [Processes -> [Accounts -> Tasks \cup {None}]]
           /\ \A u \in Tasks : /\ Passes(u) /\ Led(u)'
                               /\ task[u].at \in {"lead", "report", "done"}
                                  => task'[u].at \in {"lead", "report", "done"}
<1> DEFINE p == task[t].process  a == task[t].account
<1>1. task[t] \in Task /\ p \in Processes /\ a \in Accounts
  BY DEF TasksSound, Stands, Task
<1>2. call \in [Processes -> [Accounts -> Tasks \cup {None}]]
  BY DEF TasksSound
<1>3. call' = [call EXCEPT ![p][a] = None]
  BY DEF EndCall
<1>4. call' \in [Processes -> [Accounts -> Tasks \cup {None}]]
  BY <1>1, <1>2, <1>3
<1>5. task' = [u \in Tasks |-> IF u \notin Followers(t) \cup {t} THEN task[u]
                               ELSE IF token = 0 THEN Failed(u, error)
                               ELSE [task[u] EXCEPT !.at = "login", !.device = token]]
  BY DEF EndCall
<1>6. DOMAIN task' = Tasks /\ task' = [u \in Tasks |-> task'[u]]
  BY <1>5
<1>7. task[t].at = "harvested" => token # 0
  <2>1. task[t].at = "harvested" => token \in 1 .. MaxToken - 1
    BY DEF TasksSound, Fresh
  <2>2. \A x \in 1 .. MaxToken - 1 : x # 0
    BY TokenBounds
  <2> QED
    BY <2>1, <2>2
<1>8. ASSUME NEW u \in Tasks
      PROVE  /\ Passes(u) /\ Led(u)'
             /\ task[u].at \in {"lead", "report", "done"} => task'[u].at \in {"lead", "report", "done"}
  <2>1. CASE u \notin Followers(t) \cup {t}
    <3>1. task'[u] = task[u]
      BY <1>5, <2>1
    <3>2. ASSUME task[u].at \in {"lead", "harvested"}
          PROVE  call'[task[u].process][task[u].account] = u
      <4>1. call[task[u].process][task[u].account] = u /\ call[p][a] = t
        BY <3>2 DEF TasksSound, Led
      <4>2. ~(task[u].process = p /\ task[u].account = a)
        BY <2>1, <4>1
      <4>3. task[u] \in Task /\ task[u].process \in Processes /\ task[u].account \in Accounts
        BY <3>2 DEF TasksSound, Stands, Task
      <4> QED
        BY <1>1, <1>2, <1>3, <4>1, <4>2, <4>3
    <3> QED
      BY <3>1, <3>2 DEF Passes, Led
  <2>2. CASE u \in Followers(t) \cup {t} /\ token = 0
    <3>1. task'[u] = Failed(u, error)
      BY <1>5, <2>2
    <3>2. task[u].at \in {"follow", "lead"}
      BY <1>7, <2>2 DEF Followers
    <3>3. Quits(u) /\ task'[u].at \in {"report", "done"}
      BY <3>1, <3>2, QuitsFailed
    <3> QED
      BY <3>3 DEF Passes, Led
  <2>3. CASE u \in Followers(t) \cup {t} /\ token # 0
    <3>1. task'[u] = [task[u] EXCEPT !.at = "login", !.device = token]
      BY <1>5, <2>3
    <3>2. task[t].at = "harvested" /\ token = task[t].device
      BY <2>3
    <3>3. task[u].at \in {"follow", "harvested"}
      BY <2>3, <3>2 DEF Followers
    <3>4. task[u] \in Task /\ task[t] \in Task
      BY DEF TasksSound
    <3>5. task'[u].at = "login"
      BY <3>1, <3>4 DEF Task
    <3>6. task'[t].at = "login"
      <4>1. task'[t] = [task[t] EXCEPT !.at = "login", !.device = token]
        BY <1>5, <2>3
      <4> QED
        BY <3>4, <4>1 DEF Task
    <3>7. Gets(u)
      BY <3>1, <3>2, <3>3, <3>6 DEF Gets
    <3> QED
      BY <3>3, <3>5, <3>7 DEF Passes, Led
  <2> QED
    BY <2>1, <2>2, <2>3
<1> QED
  BY <1>4, <1>6, <1>8

-----------------------------------------------------------------------------
(* Every step keeps the invariant *)

\* The invariant, for one task.
LEMMA SoundTask ==
    ASSUME Sound, NEW t \in Tasks
    PROVE  /\ task \in [Tasks -> Task] /\ task[t] \in Task /\ Stands(t) /\ Led(t) /\ Fresh(t)
           /\ task[t].at \notin {"idle", "done"} => task[t].account \in Accounts
BY DEF Sound, TasksSound, Stands

\* A task begins with the token of its row.
LEMMA BeginSound ==
    ASSUME Sound, NEW t \in Tasks, Begin(t)
    PROVE  Sound'
<1> DEFINE Probes(k, p) == p = "poolui" => \A u \in Tasks : ~(/\ task[u].process = p /\ task[u].key = k
                                                              /\ task[u].at \notin {"idle", "done"})
           Serves(k, p, a) == p = "gateway" => /\ enabled[k]
                                               /\ \A u \in Tasks : ~(/\ task[u].process = p /\ task[u].account = a
                                                                     /\ task[u].at \notin {"idle", "ask", "report", "done"})
<1>1. /\ task[t].at = "idle" /\ UNCHANGED <<tables, call, service, configured, edits>>
      /\ \E k \in DOMAIN bound, p \in Processes :
         \E a \in IF p = "poolui" THEN DOMAIN bound[k] ELSE LoadAccountsForAPIKey(k) :
            /\ Probes(k, p)
            /\ Serves(k, p, a)
            /\ task' = [task EXCEPT ![t] = Begun(p, a, k, row[a].device)]
  BY DEF Begin, Begun
<1> HIDE DEF Probes, Serves
<1>2. PICK k \in DOMAIN bound, p \in Processes :
         \E a \in IF p = "poolui" THEN DOMAIN bound[k] ELSE LoadAccountsForAPIKey(k) :
            task' = [task EXCEPT ![t] = Begun(p, a, k, row[a].device)]
  BY <1>1
<1>3. PICK a \in IF p = "poolui" THEN DOMAIN bound[k] ELSE LoadAccountsForAPIKey(k) :
         task' = [task EXCEPT ![t] = Begun(p, a, k, row[a].device)]
  BY <1>2
<1>4. a \in DOMAIN bound[k]
  BY DEF LoadAccountsForAPIKey
<1>5. a \in DOMAIN row /\ a \in Accounts /\ k \in Keys /\ row[a].device \in Stored
  BY <1>4 DEF Sound, RowsSound, KeysSound, Stored
<1>6. task \in [Tasks -> Task]
  BY SoundTask
<1>7. task'[t] = Begun(p, a, k, row[a].device)
  BY <1>3, <1>6
<1>8. Begins(t)
  BY <1>1, <1>5, <1>7 DEF Begins
<1>9. task'[t].at = "ensure"
  BY <1>7 DEF Begun, Idle
<1>10. RowsSound' /\ KeysSound' /\ Stored' = Stored
  BY <1>1, TablesKept DEF Sound
<1>11. task' = [task EXCEPT ![t] = task'[t]]
  BY <1>3, <1>7
<1> QED
  BY <1>8, <1>9, <1>1, <1>10, <1>11, OneMoves DEF Passes

\* A task that harvests is led by the call of its process.
LEMMA LeadSound ==
    ASSUME Sound, NEW t \in Tasks, task[t].at = "ensure", task[t].device = 0,
           call[task[t].process][task[t].account] = None, Len(waiting) < MaxQueue,
           task' = [task EXCEPT ![t].at = "lead"],
           call' = [call EXCEPT ![task[t].process][task[t].account] = t],
           Pump(running, Append(waiting, t)),
           UNCHANGED <<tables, configured, edits>>
    PROVE  Sound'
<1> DEFINE p == task[t].process  a == task[t].account
<1>1. task[t] \in Task /\ p \in Processes /\ a \in Accounts /\ task \in [Tasks -> Task]
  BY SoundTask DEF Task
<1>2. call \in [Processes -> [Accounts -> Tasks \cup {None}]]
  BY DEF Sound, TasksSound
<1>3. call' \in [Processes -> [Accounts -> Tasks \cup {None}]]
  BY <1>1, <1>2
<1>4. call'[p][a] = t /\ \A q \in Processes, b \in Accounts : q # p \/ b # a => call'[q][b] = call[q][b]
  BY <1>1, <1>2
<1>5. DOMAIN task' = Tasks /\ task' = [u \in Tasks |-> task'[u]] /\ \A u \in Tasks : u # t => task'[u] = task[u]
  BY <1>1
<1>6. task'[t] = [task[t] EXCEPT !.at = "lead"]
  BY <1>1
<1>7. task'[t].at = "lead" /\ task'[t].process = p /\ task'[t].account = a
  BY <1>1, <1>6 DEF Task
<1>8. ASSUME NEW u \in Tasks PROVE Passes(u) /\ Led(u)'
  <2>1. CASE u = t
    <3>1. GoesOn(t)
      BY <1>6 DEF GoesOn
    <3> QED
      BY <1>4, <1>7, <2>1, <3>1 DEF Passes, Led
  <2>2. CASE u # t
    <3>1. task'[u] = task[u]
      BY <1>5, <2>2
    <3>2. ASSUME task[u].at \in {"lead", "harvested"}
          PROVE  call'[task[u].process][task[u].account] = u
      <4>1. call[task[u].process][task[u].account] = u
        BY <3>2, SoundTask DEF Led
      <4>2. u # None
        BY NoneAssumption
      <4>3. ~(task[u].process = p /\ task[u].account = a)
        BY <4>1, <4>2
      <4>4. task[u].process \in Processes /\ task[u].account \in Accounts
        BY <3>2, SoundTask DEF Task
      <4> QED
        BY <1>4, <4>1, <4>3, <4>4
    <3> QED
      BY <3>1, <3>2 DEF Passes, Led
  <2> QED
    BY <2>1, <2>2
<1>9. RowsSound' /\ KeysSound' /\ Stored' = Stored
  BY TablesKept DEF Sound
<1>10. edits \in 0 .. MaxEdits
  BY DEF Sound, TasksSound
<1>11. TasksSound'
  BY <1>3, <1>5, <1>8, <1>9, <1>10, TasksMove DEF Sound
<1> DEFINE line == Append(waiting, t)
<1>12. PICK l \in Nat : l = Len(waiting)
  BY SeqFacts DEF Sound, JobsSound, Lines
<1>13. /\ waiting \in Seq(Tasks) /\ IsInjective(waiting) /\ running \cap Range(waiting) = {}
       /\ running \subseteq Tasks /\ Cardinality(running) <= Workers
       /\ \A u \in running \cup Range(waiting) : task[u].at \in {"lead", "report", "done"}
  BY DEF Sound, JobsSound, Lines
<1>14. PICK m \in Nat : m = l + 1
  BY <1>12
<1>15. /\ line \in Seq(Tasks) /\ DOMAIN line = 1 .. m /\ Len(line) = m /\ line[m] = t
       /\ DOMAIN waiting = 1 .. l /\ \A i \in 1 .. l : line[i] = waiting[i]
  BY <1>12, <1>13, <1>14
<1>16. t \notin running \cup Range(waiting)
  BY <1>13
<1> HIDE DEF line
<1>17. \A i \in 1 .. m : i = m \/ i \in 1 .. l
  BY <1>14
<1>18. Range(line) = Range(waiting) \cup {t}
  <2>1. m \in 1 .. m /\ \A i \in 1 .. l : i \in 1 .. m
    BY <1>14
  <2> QED
    BY <1>15, <1>17, <2>1 DEF Range
<1>19. IsInjective(line)
  <2>1. \A i \in 1 .. l : line[i] # t
    BY <1>15, <1>16 DEF Range
  <2>2. \A i, j \in 1 .. l : line[i] = line[j] => i = j
    BY <1>13, <1>15 DEF IsInjective
  <2>3. \A i, j \in 1 .. m : line[i] = line[j] => i = j
    BY <1>15, <1>17, <2>1, <2>2
  <2> QED
    BY <1>15, <2>3 DEF IsInjective
<1>20. Lines(running, line)
  BY <1>13, <1>15, <1>16, <1>18, <1>19 DEF Lines
<1>21. /\ Lines(running', waiting') /\ Len(waiting') <= Len(line)
       /\ waiting' # <<>> => Cardinality(running') = Workers
       /\ running' \cup Range(waiting') \subseteq running \cup Range(line)
  BY <1>20, PumpSound DEF line
<1>22. Len(waiting') <= MaxQueue
  <2>1. Len(waiting') \in Nat /\ MaxQueue \in Nat
    BY <1>21, TasksFinite, SeqFacts DEF Lines
  <2>2. l < MaxQueue
    BY <1>12
  <2>3. Len(waiting') <= m
    BY <1>15, <1>21
  <2> QED
    BY <1>14, <2>1, <2>2, <2>3
<1>23. \A u \in running' \cup Range(waiting') : task'[u].at \in {"lead", "report", "done"}
  <2>1. \A u \in running' \cup Range(waiting') : u = t \/ u \in running \cup Range(waiting)
    BY <1>18, <1>21
  <2>2. running \cup Range(waiting) \subseteq Tasks
    BY <1>13, SeqFacts
  <2> QED
    BY <1>5, <1>7, <1>13, <2>1, <2>2
<1> QED
  BY <1>9, <1>11, <1>21, <1>22, <1>23 DEF Sound, JobsSound

\* A task that moves moves alone.
LEMMA Unmoved ==
    ASSUME Sound, NEW t \in Tasks, NEW r, task' = [task EXCEPT ![t] = r]
    PROVE  task'[t] = r /\ task' = [task EXCEPT ![t] = task'[t]]
BY SoundTask

\* A task has its token, waits for one, or asks for one when nobody does.
LEMMA EnsureSound ==
    ASSUME Sound, NEW t \in Tasks, Ensure(t)
    PROVE  Sound'
<1> DEFINE p == task[t].process  a == task[t].account
<1>1. task[t].at = "ensure" /\ UNCHANGED <<tables, configured, edits>> /\ task[t] \in Task
  BY SoundTask DEF Ensure
<1>2. RowsSound' /\ KeysSound' /\ Stored' = Stored
  BY <1>1, TablesKept DEF Sound
<1>3. ASSUME NEW at \in {"login", "follow"}, at = "follow" => task[t].device = 0,
             task' = [task EXCEPT ![t].at = at], UNCHANGED <<call, service>>
      PROVE  Sound'
  <2>1. task' = [task EXCEPT ![t] = [task[t] EXCEPT !.at = at]]
    BY <1>3, SoundTask
  <2>2. task'[t] = [task[t] EXCEPT !.at = at] /\ task' = [task EXCEPT ![t] = task'[t]]
    BY <2>1, Unmoved
  <2>3. GoesOn(t)
    BY <1>1, <1>3, <2>2 DEF GoesOn
  <2>4. task'[t].at = at
    BY <1>1, <2>2 DEF Task
  <2> QED
    BY <1>1, <1>2, <1>3, <2>2, <2>3, <2>4, OneMoves DEF Passes
<1>4. CASE task' = [task EXCEPT ![t] = Failed(t, {})] /\ UNCHANGED <<call, service>>
  <2>1. task'[t] = Failed(t, {}) /\ task' = [task EXCEPT ![t] = task'[t]]
    BY <1>4, Unmoved
  <2>2. Quits(t) /\ task'[t].at \in {"report", "done"}
    BY <1>1, <2>1, QuitsFailed DEF Sound
  <2> QED
    BY <1>1, <1>2, <1>4, <2>1, <2>2, OneMoves DEF Passes
<1>5. CASE /\ task[t].device = 0 /\ call[p][a] = None /\ ~(Len(waiting) >= MaxQueue)
           /\ task' = [task EXCEPT ![t].at = "lead"]
           /\ call' = [call EXCEPT ![p][a] = t]
           /\ Pump(running, Append(waiting, t))
  <2>1. Len(waiting) < MaxQueue
    <3>1. Len(waiting) \in Nat /\ MaxQueue \in Nat
      BY TasksFinite, SeqFacts DEF Sound, JobsSound, Lines
    <3> QED
      BY <1>5, <3>1
  <2> QED
    BY <1>1, <1>5, <2>1, LeadSound
<1> QED
  BY <1>3, <1>4, <1>5 DEF Ensure

\* The harvester has a job less when it answers or has none to answer.
LEMMA ServedSound ==
    ASSUME Sound, NEW t \in Tasks, t \in running, JobEnds(t),
           \A u \in Tasks : u # t /\ task[u].at \in {"lead", "report", "done"}
                            => task'[u].at \in {"lead", "report", "done"}
    PROVE  JobsSound'
<1>1. /\ Lines(running', waiting') /\ Len(waiting') <= MaxQueue
      /\ waiting' # <<>> => Cardinality(running') = Workers
      /\ running' \cup Range(waiting') \subseteq (running \cup Range(waiting)) \ {t}
  BY JobEndsSound DEF Sound
<1>2. running \cup Range(waiting) \subseteq Tasks
  BY SeqFacts DEF Sound, JobsSound, Lines
<1>3. \A u \in running' \cup Range(waiting') : u \in Tasks /\ u # t /\ task[u].at \in {"lead", "report", "done"}
  BY <1>1, <1>2 DEF Sound, JobsSound
<1> QED
  BY <1>1, <1>3 DEF JobsSound

\* A job that nobody waits for frees its worker.
LEMMA JobCancelledSound ==
    ASSUME Sound, NEW t \in Tasks, JobCancelled(t)
    PROVE  Sound'
<1>1. t \in running /\ JobEnds(t) /\ UNCHANGED <<tables, task, call, configured, edits>>
  BY DEF JobCancelled
<1>2. JobsSound'
  BY <1>1, ServedSound
<1>3. RowsSound' /\ KeysSound' /\ Stored' = Stored
  BY <1>1, TablesKept DEF Sound
<1>4. TasksSound'
  BY <1>1, <1>3 DEF Sound, TasksSound, Stands, Led, Fresh
<1> QED
  BY <1>2, <1>3, <1>4 DEF Sound

\* A token is harvested that nobody has, or there is none for all who wait.
LEMMA AnswerSound ==
    ASSUME Sound, NEW t \in Tasks, Answer(t)
    PROVE  Sound'
<1>1. /\ t \in running /\ task[t].at = "lead" /\ JobEnds(t)
      /\ UNCHANGED <<tables, configured, edits>>
  BY DEF Answer
<1>2. RowsSound' /\ KeysSound' /\ Stored' = Stored
  BY <1>1, TablesKept DEF Sound
<1>3. task \in [Tasks -> Task] /\ task[t] \in Task /\ edits \in 0 .. MaxEdits
  BY SoundTask DEF Sound, TasksSound
<1>4. CASE task' = [task EXCEPT ![t].at = "harvested", ![t].device = New] /\ UNCHANGED call
  <2>1. task[t].device = 0
    BY <1>1, SoundTask DEF Stands
  <2>2. \A u \in Tasks : Stands(u)
    BY SoundTask
  <2>3. /\ New \in 1 .. MaxToken - 1 /\ New \notin Stored
        /\ \A u \in Tasks : New # task[u].device /\ New \notin task[u].refused
    BY <1>3, <2>1, <2>2, NewIsNew DEF Sound
  <2>4. PICK new : new = New
    OBVIOUS
  <2>5. task'[t] = [task[t] EXCEPT !.at = "harvested", !.device = new]
    BY <1>3, <1>4, <2>4
  <2>6. new \in Tokens
    BY <2>3, <2>4, TokenBounds
  <2>7. /\ task'[t] \in Task /\ task'[t].at = "harvested" /\ task'[t].device = new
        /\ task'[t].refused = task[t].refused
        /\ task'[t].process = task[t].process /\ task'[t].account = task[t].account
    BY <1>3, <2>5, <2>6 DEF Task
  <2>8. DOMAIN task' = Tasks /\ task' = [u \in Tasks |-> task'[u]] /\ \A u \in Tasks : u # t => task'[u] = task[u]
    BY <1>3, <1>4
  <2>9. task' \in [Tasks -> Task]
    BY <1>3, <2>7, <2>8
  <2>10. ASSUME NEW u \in Tasks PROVE Stands(u)' /\ Led(u)'
    <3>1. CASE u = t
      <4>1. task[t].account \in Accounts /\ (task[t].refused = {} \/ \E d \in Tokens : task[t].refused = {d})
        BY <1>1, SoundTask DEF Stands
      <4>2. call[task[t].process][task[t].account] = t
        BY <1>1, SoundTask DEF Led
      <4> QED
        BY <1>4, <2>7, <3>1, <4>1, <4>2 DEF Stands, Led
    <3>2. CASE u # t
      BY <1>4, <2>8, <3>2, SoundTask DEF Stands, Led
    <3> QED
      BY <3>1, <3>2
  <2>11. ASSUME NEW u \in Tasks PROVE Fresh(u)'
    <3>1. CASE u = t
      <4>1. \A w \in Tasks : new \notin task'[w].refused /\ (w # t => new # task'[w].device)
        BY <2>3, <2>4, <2>7, <2>8
      <4> QED
        BY <1>2, <2>3, <2>4, <2>7, <3>1, <4>1 DEF Fresh
    <3>2. CASE u # t
      <4>1. task'[u] = task[u] /\ Fresh(u)
        BY <2>8, <3>2, SoundTask
      <4>2. new # task[u].device
        BY <2>3, <2>4
      <4>3. \A w \in Tasks : task'[w].refused = task[w].refused /\ (w # t => task'[w].device = task[w].device)
        BY <2>7, <2>8
      <4> QED
        BY <1>2, <2>7, <3>2, <4>1, <4>2, <4>3 DEF Fresh
    <3> QED
      BY <3>1, <3>2
  <2>12. TasksSound'
    BY <1>1, <1>4, <2>9, <2>10, <2>11 DEF Sound, TasksSound
  <2>13. JobsSound'
    BY <1>1, <2>8, ServedSound
  <2> QED
    BY <1>2, <2>12, <2>13 DEF Sound
<1>5. CASE \E error \in {{}, {"banned"}} : EndCall(t, 0, error)
  <2>1. PICK error : EndCall(t, 0, error)
    BY <1>5
  <2>2. /\ DOMAIN task' = Tasks /\ task' = [u \in Tasks |-> task'[u]]
        /\ call' \in [Processes -> [Accounts -> Tasks \cup {None}]]
        /\ \A u \in Tasks : /\ Passes(u) /\ Led(u)'
                            /\ task[u].at \in {"lead", "report", "done"}
                               => task'[u].at \in {"lead", "report", "done"}
    BY <1>1, <2>1, CallEnds DEF Sound
  <2>3. TasksSound'
    BY <1>1, <1>2, <1>3, <2>2, TasksMove DEF Sound
  <2>4. JobsSound'
    BY <1>1, <2>2, ServedSound
  <2> QED
    BY <1>2, <2>3, <2>4 DEF Sound
<1> QED
  BY <1>4, <1>5 DEF Answer

\* What ends a call without a word to the harvester.
LEMMA EndCallSound ==
    ASSUME Sound, NEW t \in Tasks, NEW token, NEW error, EndCall(t, token, error),
           \/ task[t].at = "lead" /\ token = 0
           \/ task[t].at = "harvested" /\ token = task[t].device,
           UNCHANGED <<service, configured, edits>>,
           RowsSound', KeysSound', Stored' \subseteq Stored \cup Spread
    PROVE  Sound'
<1>1. /\ DOMAIN task' = Tasks /\ task' = [u \in Tasks |-> task'[u]]
      /\ call' \in [Processes -> [Accounts -> Tasks \cup {None}]]
      /\ \A u \in Tasks : /\ Passes(u) /\ Led(u)'
                          /\ task[u].at \in {"lead", "report", "done"}
                             => task'[u].at \in {"lead", "report", "done"}
  BY CallEnds DEF Sound
<1>2. edits \in 0 .. MaxEdits
  BY DEF Sound, TasksSound
<1>3. TasksSound'
  BY <1>1, <1>2, TasksMove DEF Sound
<1>4. JobsSound'
  BY <1>1, JobsKept DEF Sound
<1> QED
  BY <1>3, <1>4 DEF Sound

\* A token is known when it is stored, or is that of one login.
LEMMA StoreSound ==
    ASSUME Sound, NEW t \in Tasks, Store(t)
    PROVE  Sound'
<1>1. /\ task[t].at = "harvested" /\ EndCall(t, task[t].device, {})
      /\ SetDevice(task[t].account, task[t].device) \/ UNCHANGED row
      /\ UNCHANGED <<enabled, bound, importing, service, configured, edits>>
  BY DEF Store
<1>2. RowsSound' /\ DOMAIN row' = DOMAIN row /\ Stored' \subseteq Stored \cup {task[t].device}
  <2>1. task[t].device \in Tokens
    BY SoundTask DEF Task
  <2>2. CASE SetDevice(task[t].account, task[t].device)
    BY <2>1, <2>2, DeviceSet DEF Sound
  <2>3. CASE UNCHANGED row
    BY <2>3 DEF Sound, RowsSound, MuteReason, Stored
  <2> QED
    BY <1>1, <2>2, <2>3
<1>3. KeysSound'
  BY <1>1, <1>2, KeysKept DEF Sound
<1>4. task[t].device \in Spread
  <2>1. t \in Followers(t) \cup {t} /\ task[t].device # 0
    <3>1. task[t].device \in 1 .. MaxToken - 1
      BY <1>1, SoundTask DEF Fresh
    <3>2. \A x \in 1 .. MaxToken - 1 : x # 0
      BY TokenBounds
    <3> QED
      BY <3>1, <3>2
  <2>2. task'[t] = [task[t] EXCEPT !.at = "login", !.device = task[t].device]
    BY <1>1, <2>1 DEF EndCall
  <2>3. task'[t].at = "login"
    BY <2>2, SoundTask DEF Task
  <2> QED
    BY <1>1, <2>3 DEF Spread
<1> QED
  BY <1>1, <1>2, <1>3, <1>4, EndCallSound

\* A leader that gives up ends the call; a follower leaves it.
LEMMA GiveUpSound ==
    ASSUME Sound, NEW t \in Tasks, GiveUp(t)
    PROVE  Sound'
<1>1. UNCHANGED <<tables, service, configured, edits>>
  BY DEF GiveUp
<1>2. RowsSound' /\ KeysSound' /\ Stored' = Stored
  BY <1>1, TablesKept DEF Sound
<1>3. CASE task[t].at = "lead" /\ EndCall(t, 0, {})
  BY <1>1, <1>2, <1>3, EndCallSound
<1>4. CASE task[t].at = "follow" /\ task' = Done(t) /\ UNCHANGED call
  <2>1. task'[t] = Over /\ task' = [task EXCEPT ![t] = task'[t]]
    BY <1>4, Unmoved DEF Done
  <2>2. Quits(t) /\ task'[t].at = "done"
    BY <1>4, <2>1, QuitsOver, OverKnown
  <2> QED
    BY <1>1, <1>2, <1>4, <2>1, <2>2, OneMoves DEF Passes
<1> QED
  BY <1>3, <1>4 DEF GiveUp

\* A task that stands outside the harvester quits.
LEMMA OneQuits ==
    ASSUME Sound, NEW t \in Tasks, NEW r, task' = [task EXCEPT ![t] = r],
           task'[t] = r => Quits(t), task[t].at \in {"login", "ask", "report"},
           task[t].at = "report" => r.at = "done",
           UNCHANGED <<enabled, bound, importing, call, service, configured, edits>>,
           RowsSound', DOMAIN row' = DOMAIN row, Stored' \subseteq Stored \cup {0}
    PROVE  Sound'
<1>1. task'[t] = r /\ task' = [task EXCEPT ![t] = task'[t]]
  BY Unmoved
<1>2. KeysSound'
  BY KeysKept DEF Sound
<1>3. Quits(t) /\ task'[t].at \notin {"lead", "harvested"}
  BY <1>1 DEF Quits
<1> QED
  BY <1>1, <1>2, <1>3, OneMoves DEF Passes

\* The rows stay sound when they stay.
LEMMA RowKept ==
    ASSUME Sound, UNCHANGED row
    PROVE  RowsSound' /\ DOMAIN row' = DOMAIN row /\ Stored' = Stored
BY DEF Sound, RowsSound, MuteReason, Stored

\* A login succeeds, fails, or clears the device that was refused.
LEMMA LoginSound ==
    ASSUME Sound, NEW t \in Tasks, Login(t)
    PROVE  Sound'
<1>1. task[t].at = "login" /\ UNCHANGED <<enabled, bound, importing, call, service, configured, edits>>
  BY DEF Login
<1>2. TasksSound
  BY DEF Sound
<1>3. CASE task' = [task EXCEPT ![t] = Asking(t)] /\ UNCHANGED row
  <2>1. task'[t] = Asking(t) => Quits(t)
    BY <1>1, <1>2, QuitsAsking
  <2> QED
    BY <1>1, <1>3, <2>1, RowKept, OneQuits
<1>4. CASE /\ task[t].refused = {}
           /\ SetDevice(task[t].account, 0)
           /\ task' = [task EXCEPT ![t].at = "ensure", ![t].device = 0, ![t].refused = {task[t].device}]
  <2>1. RowsSound' /\ DOMAIN row' = DOMAIN row /\ Stored' \subseteq Stored \cup {0}
    <3>1. 0 \in Tokens
      BY TokenBounds
    <3> QED
      BY <1>4, <3>1, DeviceSet DEF Sound
  <2>2. KeysSound'
    BY <1>1, <2>1, KeysKept DEF Sound
  <2>3. task' = [task EXCEPT ![t] = [task[t] EXCEPT !.at = "ensure", !.device = 0, !.refused = {task[t].device}]]
    BY <1>4, SoundTask
  <2>4. /\ task'[t] = [task[t] EXCEPT !.at = "ensure", !.device = 0, !.refused = {task[t].device}]
        /\ task' = [task EXCEPT ![t] = task'[t]]
    BY <2>3, Unmoved
  <2>5. Refused(t)
    BY <1>1, <1>4, <2>4 DEF Refused
  <2>6. task'[t].at = "ensure"
    BY <2>4, SoundTask DEF Task
  <2> QED
    BY <1>1, <2>1, <2>2, <2>4, <2>5, <2>6, OneMoves DEF Passes
<1>5. CASE task' = Done(t) /\ UNCHANGED row
  <2>1. task'[t] = Over => Quits(t)
    BY <1>1, QuitsOver
  <2> QED
    BY <1>1, <1>5, <2>1, RowKept, OneQuits DEF Done
<1>6. ASSUME NEW error,
             task' = IF task[t].process = "gateway" THEN [task EXCEPT ![t] = Failed(t, error)]
                     ELSE IF LoginVerdict(error) = "" THEN Done(t)
                     ELSE [task EXCEPT ![t] = Reporting(t, LoginVerdict(error))],
             UNCHANGED row
      PROVE  Sound'
  <2>1. CASE task[t].process = "gateway"
    <3>1. task'[t] = Failed(t, error) => Quits(t)
      BY <1>1, <1>2, QuitsFailed
    <3> QED
      BY <1>1, <1>6, <2>1, <3>1, RowKept, OneQuits
  <2>2. CASE task[t].process # "gateway" /\ LoginVerdict(error) # ""
    <3>1. LoginVerdict(error) \in Verdicts \ {"until"}
      BY <2>2, Classified DEF LoginVerdict, Verdicts
    <3>2. task'[t] = Reporting(t, LoginVerdict(error)) => Quits(t)
      BY <1>1, <1>2, <3>1, QuitsReporting
    <3> QED
      BY <1>1, <1>6, <2>2, <3>2, RowKept, OneQuits
  <2> QED
    BY <1>5, <1>6, <2>1, <2>2
<1> QED
  BY <1>3, <1>4, <1>5, <1>6 DEF Login

\* An answer is a verdict to report, or none.
LEMMA AskSound ==
    ASSUME Sound, NEW t \in Tasks, Ask(t)
    PROVE  Sound'
<1>1. task[t].at = "ask" /\ UNCHANGED <<tables, call, service, configured, edits>>
  BY DEF Ask
<1>2. PICK answer : LET verdict == IF task[t].process = "poolui" THEN ProbeVerdict(answer) ELSE Classify(answer)
                    IN task' = IF verdict = "" THEN Done(t) ELSE [task EXCEPT ![t] = Reporting(t, verdict)]
  BY DEF Ask
<1> DEFINE verdict == IF task[t].process = "poolui" THEN ProbeVerdict(answer) ELSE Classify(answer)
<1>3. verdict \in Verdicts \cup {""} /\ (verdict = "until" => task[t].process = "poolui")
  BY Classified DEF ProbeVerdict, Until, Verdicts
<1>4. task' = IF verdict = "" THEN Done(t) ELSE [task EXCEPT ![t] = Reporting(t, verdict)]
  BY <1>2
<1>5. UNCHANGED <<enabled, bound, importing, call, service, configured, edits>> /\ UNCHANGED row
  BY <1>1 DEF tables
<1> HIDE DEF verdict
<1>6. CASE verdict = ""
  <2>1. task'[t] = Over => Quits(t)
    BY <1>1, QuitsOver
  <2> QED
    BY <1>1, <1>4, <1>5, <1>6, <2>1, RowKept, OneQuits DEF Done
<1>7. CASE verdict # ""
  <2>1. task'[t] = Reporting(t, verdict) => Quits(t)
    BY <1>1, <1>3, <1>7, QuitsReporting DEF Sound
  <2> QED
    BY <1>1, <1>4, <1>5, <1>7, <2>1, RowKept, OneQuits
<1> QED
  BY <1>6, <1>7

\* Only a probe reports the end of a mute, and so it is never a reason.
LEMMA ReportSound ==
    ASSUME Sound, NEW t \in Tasks, Report(t)
    PROVE  Sound'
<1> DEFINE k == task[t].key  a == task[t].account  v == task[t].verdict
<1>1. task[t].at = "report" /\ UNCHANGED <<enabled, bound, importing, call, service, configured, edits>>
  BY DEF Report
<1>2. task' = [task EXCEPT ![t] = Over]
  BY DEF Report, Done
<1>3. \/ SetAccountMuted(k, a, v = "until")
      \/ ~(task[t].process = "poolui" /\ v \in {"muted", "until"}) /\ SetAccountPoolState(k, a, v # "ok", v)
  BY DEF Report
<1>4. v \in Verdicts \cup {""} /\ (v = "until" => task[t].process = "poolui")
  BY <1>1, SoundTask DEF Stands, Task
<1>5. Kept
  <2>1. CASE SetAccountMuted(k, a, v = "until")
    <3>1. (v = "until") \in BOOLEAN
      OBVIOUS
    <3> QED
      BY <2>1, <3>1, MutedKept DEF Sound
  <2>2. CASE ~(task[t].process = "poolui" /\ v \in {"muted", "until"}) /\ SetAccountPoolState(k, a, v # "ok", v)
    <3>1. v # "ok" => v \in Reasons
      BY <1>4, <2>2 DEF Verdicts, Reasons
    <3>2. (v # "ok") \in BOOLEAN
      OBVIOUS
    <3> QED
      BY <2>2, <3>1, <3>2, StateKept DEF Sound
  <2> QED
    BY <1>3, <2>1, <2>2
<1>6. task'[t] = Over => Quits(t)
  BY <1>1, QuitsOver
<1> QED
  BY <1>1, <1>2, <1>5, <1>6, OverKnown, OneQuits DEF Kept

\* The tables change, and no task and no job does.
LEMMA TabledSound ==
    ASSUME Sound, Tabled({0, MaxToken}), UNCHANGED <<task, call, service, configured>>, edits' \in 0 .. MaxEdits
    PROVE  Sound'
<1>1. task' = [u \in Tasks |-> task'[u]] /\ DOMAIN task' = Tasks
  BY DEF Sound, TasksSound
<1>2. \A u \in Tasks : Passes(u) /\ Led(u)'
  BY DEF Sound, TasksSound, Passes, Led
<1>3. TasksSound'
  <2>1. call' \in [Processes -> [Accounts -> Tasks \cup {None}]]
    BY DEF Sound, TasksSound
  <2> QED
    BY <1>1, <1>2, <2>1, TasksMove DEF Sound, Tabled
<1>4. JobsSound'
  BY JobsKept DEF Sound
<1> QED
  BY <1>3, <1>4 DEF Sound, Tabled

\* The edits are counted up to their bound.
LEMMA EditsCounted ==
    ASSUME Sound, edits < MaxEdits, edits' = edits + 1
    PROVE  edits' \in 0 .. MaxEdits
<1>1. edits \in 0 .. MaxEdits /\ MaxEdits \in Nat
  BY HarvesterAssumption DEF Sound, TasksSound
<1> QED
  BY <1>1

\* The administrator keeps the invariant.
LEMMA AdministerSound ==
    ASSUME Sound, Administer
    PROVE  Sound'
<1>1. PICK rows \in CSVs : Edit(rows)
  BY DEF Administer
<1>2. Tabled({0, MaxToken})
  BY <1>1, EditSound DEF Sound
<1> QED
  BY <1>2, EditsCounted, TabledSound DEF Administer

\* So does an import, row by row.
LEMMA ImportKeeps ==
    ASSUME Sound, Import
    PROVE  Sound'
<1>1. Tabled({0, MaxToken})
  BY ImportSound DEF Sound, Import
<1>2. edits' \in 0 .. MaxEdits
  BY DEF Sound, TasksSound, Import
<1> QED
  BY <1>1, <1>2, TabledSound DEF Import

\* A harvester that starts again leaves no job and no leader.
LEMMA RestartSound ==
    ASSUME Sound, RestartHarvester
    PROVE  Sound'
<1> DEFINE lost == {t \in Tasks : task[t].at = "lead"}
<1>1. /\ edits' \in 0 .. MaxEdits /\ UNCHANGED <<tables, configured>> /\ running' = {} /\ waiting' = <<>>
  BY EditsCounted DEF RestartHarvester
<1>2. task' = [t \in Tasks |-> IF t \in lost \/ \E u \in lost : t \in Followers(u)
                               THEN Failed(t, {}) ELSE task[t]]
  BY DEF RestartHarvester
<1>3. call' = [p \in Processes |-> [a \in Accounts |->
                 IF call[p][a] # None /\ task[call[p][a]].at = "lead" THEN None ELSE call[p][a]]]
  BY DEF RestartHarvester
<1>4. call \in [Processes -> [Accounts -> Tasks \cup {None}]]
  BY DEF Sound, TasksSound
<1>5. call' \in [Processes -> [Accounts -> Tasks \cup {None}]]
  BY <1>3, <1>4
<1>6. DOMAIN task' = Tasks /\ task' = [u \in Tasks |-> task'[u]]
  BY <1>2
<1>7. ASSUME NEW u \in Tasks PROVE Passes(u) /\ Led(u)'
  <2>1. CASE u \in lost \/ \E w \in lost : u \in Followers(w)
    <3>1. task'[u] = Failed(u, {})
      BY <1>2, <2>1
    <3>2. task[u].at \in {"lead", "follow"}
      BY <2>1 DEF Followers
    <3>3. Quits(u) /\ task'[u].at \in {"report", "done"}
      BY <3>1, <3>2, QuitsFailed DEF Sound
    <3> QED
      BY <3>3 DEF Passes, Led
  <2>2. CASE ~(u \in lost \/ \E w \in lost : u \in Followers(w))
    <3>1. task'[u] = task[u] /\ task[u].at # "lead"
      BY <1>2, <2>2
    <3>2. ASSUME task[u].at = "harvested" PROVE call'[task[u].process][task[u].account] = u
      <4>1. call[task[u].process][task[u].account] = u
        BY <3>2, SoundTask DEF Led
      <4>2. task[u].process \in Processes /\ task[u].account \in Accounts
        BY <3>2, SoundTask DEF Task
      <4> QED
        BY <1>3, <3>2, <4>1, <4>2
    <3> QED
      BY <3>1, <3>2 DEF Passes, Led
  <2> QED
    BY <2>1, <2>2
<1>8. RowsSound' /\ KeysSound' /\ Stored' = Stored
  BY <1>1, TablesKept DEF Sound
<1>9. TasksSound'
  BY <1>1, <1>5, <1>6, <1>7, <1>8, TasksMove DEF Sound
<1>10. JobsSound'
  <2>1. Range(waiting') = {} /\ waiting' \in Seq(Tasks) /\ Len(waiting') = 0 /\ IsInjective(waiting')
    BY <1>1 DEF Range, IsInjective
  <2>2. Cardinality(running') = 0
    BY <1>1, FS_EmptySet
  <2>3. 0 <= Workers /\ 0 <= MaxQueue
    BY TasksFinite
  <2> QED
    BY <1>1, <2>1, <2>2, <2>3 DEF JobsSound, Lines
<1> QED
  BY <1>8, <1>9, <1>10 DEF Sound

-----------------------------------------------------------------------------
(* The start *)

\* A finite set is listed member by member.
LEMMA Listed ==
    ASSUME NEW S, IsFiniteSet(S)
    PROVE  LET s == SetToSeq(S) IN
           /\ s \in [1 .. Cardinality(S) -> S] /\ DOMAIN s = 1 .. Cardinality(S)
           /\ \A x \in S : \E i \in DOMAIN s : s[i] = x
           /\ Range(s) = S
<1> DEFINE D == 1 .. Cardinality(S)  s == SetToSeq(S)
<1>1. Cardinality(S) \in Nat /\ ExistsBijection(D, S)
  BY FS_CardinalityType
<1>2. \E f \in [D -> S] : IsInjective(f)
  BY <1>1 DEF ExistsBijection, Bijection, Injection
<1>3. s \in [D -> S] /\ IsInjective(s)
  BY <1>2 DEF SetToSeq
<1> HIDE DEF s
<1>4. s \in Injection(D, S)
  BY <1>3 DEF Injection
<1>5. Cardinality(D) = Cardinality(S)
  <2>1. PICK n \in Nat : n = Cardinality(S)
    BY <1>1
  <2>2. Cardinality(1 .. n) = IF 1 > n THEN 0 ELSE n - 1 + 1
    BY FS_Interval
  <2> QED
    BY <2>1, <2>2
<1>6. s \in Surjection(D, S)
  BY <1>4, <1>5, FS_Injection
<1>7. \A x \in S : \E i \in D : s[i] = x
  BY <1>6 DEF Surjection
<1>8. Range(s) = S
  BY <1>3, <1>7 DEF Range
<1> QED
  BY <1>3, <1>7, <1>8 DEF s

\* The tables of the start are sound.
LEMMA StartsSound ==
    ASSUME NEW pools \in Pools, NEW device \in Devices, Starts(pools, device),
           importing = [key |-> None, rows |-> <<>>]
    PROVE  RowsSound /\ KeysSound
<1> DEFINE S == UNION {Range(pools[k]) : k \in DOMAIN pools}  accounts == SetToSeq(S)
<1>1. DOMAIN pools \subseteq Keys /\ \A k \in DOMAIN pools : pools[k] \in Seq(Accounts)
  BY StartAssumption
<1>2. \A k \in DOMAIN pools : Range(pools[k]) \subseteq Accounts /\ Range(pools[k]) \subseteq S
  BY <1>1 DEF Range
<1>3. S \subseteq Accounts
  BY <1>2
<1>4. IsFiniteSet(S) /\ Cardinality(S) <= Cardinality(Accounts)
  BY <1>3, LimitAssumption, FS_Subset
<1> HIDE DEF S
<1>5. /\ DOMAIN accounts = 1 .. Cardinality(S) /\ Range(accounts) = S
      /\ \A x \in S : \E i \in DOMAIN accounts : accounts[i] = x
  BY <1>4, Listed
<1>6. /\ enabled = [k \in DOMAIN pools |-> TRUE]
      /\ bound = [k \in DOMAIN pools |-> [a \in Range(pools[k]) |->
                     CHOOSE n \in 0 .. Len(pools[k]) - 1 : pools[k][n + 1] = a]]
      /\ row = [a \in Range(accounts) |-> [id |-> CHOOSE n \in DOMAIN accounts : accounts[n] = a,
                    discarded |-> FALSE, reason |-> "", until |-> FALSE, device |-> device]]
  BY DEF Starts, S
<1>7. DOMAIN row = S
  BY <1>5, <1>6
<1>8. device \in Tokens
  <2>1. device \in {0, 1}
    BY StartAssumption
  <2> QED
    BY <2>1, TokenBounds
<1>9. ASSUME NEW a \in S PROVE row[a] \in Row /\ row[a].until = FALSE
  <2> DEFINE id == CHOOSE n \in DOMAIN accounts : accounts[n] = a
  <2>1. id \in 1 .. Cardinality(S)
    BY <1>5
  <2> HIDE DEF id
  <2>2. id \in 1 .. Cardinality(Accounts)
    <3>1. Cardinality(S) \in Nat /\ Cardinality(Accounts) \in Nat
      BY <1>4, TokenBounds, FS_CardinalityType
    <3> QED
      BY <1>4, <2>1, <3>1
  <2>3. row[a] = [id |-> id, discarded |-> FALSE, reason |-> "", until |-> FALSE, device |-> device]
    BY <1>5, <1>6 DEF id
  <2>4. PICK r : r = row[a]
    OBVIOUS
  <2>5. PICK i \in 1 .. Cardinality(Accounts) : i = id
    BY <2>2
  <2>6. r = [id |-> i, discarded |-> FALSE, reason |-> "", until |-> FALSE, device |-> device]
    BY <2>3, <2>4, <2>5
  <2>7. r \in Row /\ r.until = FALSE
    BY <1>8, <2>6 DEF Row, Reasons
  <2> QED
    BY <2>4, <2>7
<1>10. RowsSound
  <2>1. row \in [DOMAIN row -> Row]
    <3>1. row = [a \in S |-> row[a]]
      BY <1>5, <1>6
    <3> QED
      BY <1>7, <1>9, <3>1
  <2> QED
    BY <1>3, <1>7, <1>9, <2>1 DEF RowsSound, MuteReason
<1>11. ASSUME NEW k \in DOMAIN pools
       PROVE  DOMAIN bound[k] \subseteq S /\ Range(bound[k]) \subseteq Nat
  <2> DEFINE pos == [a \in Range(pools[k]) |-> CHOOSE n \in 0 .. Len(pools[k]) - 1 : pools[k][n + 1] = a]
  <2>1. bound[k] = pos
    BY <1>6
  <2>2. ASSUME NEW a \in Range(pools[k]) PROVE pos[a] \in Nat
    <3>1. pools[k] \in Seq(Accounts)
      BY <1>1
    <3>2. PICK l \in Nat : l = Len(pools[k])
      BY <3>1, SeqFacts
    <3>3. PICK i \in 1 .. l : pools[k][i] = a
      BY <3>1, <3>2, SeqFacts
    <3>4. PICK n \in 0 .. l - 1 : n + 1 = i
      <4>1. i - 1 \in 0 .. l - 1 /\ (i - 1) + 1 = i
        BY <3>3
      <4> QED
        BY <4>1
    <3>5. \E m \in 0 .. l - 1 : pools[k][m + 1] = a
      BY <3>3, <3>4
    <3>6. (CHOOSE m \in 0 .. l - 1 : pools[k][m + 1] = a) \in 0 .. l - 1
      BY <3>5
    <3>7. pos[a] \in 0 .. l - 1
      BY <3>2, <3>6
    <3> QED
      BY <3>7
  <2> HIDE DEF pos
  <2>3. DOMAIN pos = Range(pools[k])
    BY DEF pos
  <2> QED
    BY <1>2, <2>1, <2>2, <2>3 DEF Range
<1>12. enabled \in [DOMAIN enabled -> BOOLEAN] /\ DOMAIN enabled = DOMAIN pools /\ DOMAIN bound = DOMAIN pools
  BY <1>6
<1>13. importing \in [key : Keys \cup {None}, rows : Seq(CSVRow)]
  BY EmptySeq
<1> QED
  BY <1>1, <1>7, <1>10, <1>11, <1>12, <1>13 DEF KeysSound

\* So are the tasks and the harvester: nothing has begun.
LEMMA InitSound ==
    ASSUME Init
    PROVE  Sound
<1>1. RowsSound /\ KeysSound
  BY StartsSound DEF Init
<1>2. task = [t \in Tasks |-> Idle] /\ call = [p \in Processes |-> [a \in Accounts |-> None]]
  BY DEF Init
<1>3. Idle \in Task /\ Idle.at = "idle" /\ Idle.refused = {}
  <2>1. 0 \in Tokens /\ {} \in SUBSET Tokens
    BY TokenBounds
  <2>2. Idle \in Task
    BY <2>1 DEF Task, Idle, Processes
  <2> QED
    BY <2>2 DEF Idle
<1>4. task \in [Tasks -> Task] /\ \A t \in Tasks : task[t].at = "idle" /\ task[t].refused = {}
  BY <1>2, <1>3
<1>5. configured \subseteq Processes /\ edits \in 0 .. MaxEdits
  BY StartAssumption, HarvesterAssumption DEF Init
<1>6. call \in [Processes -> [Accounts -> Tasks \cup {None}]]
  BY <1>2
<1>7. TasksSound
  BY <1>4, <1>5, <1>6 DEF TasksSound, Stands, Led, Fresh
<1>8. JobsSound
  <2>1. running = {} /\ waiting = <<>>
    BY DEF Init
  <2>2. Range(waiting) = {} /\ waiting \in Seq(Tasks) /\ Len(waiting) = 0 /\ IsInjective(waiting)
    BY <2>1 DEF Range, IsInjective
  <2>3. Cardinality(running) = 0
    BY <2>1, FS_EmptySet
  <2>4. 0 <= Workers /\ 0 <= MaxQueue
    BY TasksFinite
  <2> QED
    BY <2>1, <2>2, <2>3, <2>4 DEF JobsSound, Lines
<1> QED
  BY <1>1, <1>7, <1>8 DEF Sound

-----------------------------------------------------------------------------
(* Theorems *)

\* Every step keeps the invariant.
LEMMA StepSound ==
    ASSUME Sound, [Next]_vars
    PROVE  Sound'
<1>1. CASE UNCHANGED vars
  <2>1. RowsSound' /\ KeysSound' /\ Stored' = Stored
    BY <1>1, TablesKept DEF Sound, vars
  <2>2. TasksSound' /\ JobsSound'
    BY <1>1, <2>1 DEF Sound, TasksSound, JobsSound, Lines, Stands, Led, Fresh, vars, service
  <2> QED
    BY <2>1, <2>2 DEF Sound
<1>2. ASSUME NEW t \in Tasks, Begin(t) \/ Steps(t) \/ Served(t) \/ GiveUp(t)
      PROVE  Sound'
  BY <1>2, BeginSound, EnsureSound, StoreSound, LoginSound, AskSound, ReportSound,
     AnswerSound, JobCancelledSound, GiveUpSound DEF Steps, Served
<1> QED
  BY <1>1, <1>2, AdministerSound, ImportKeeps, RestartSound DEF Next

\* The inductive invariant holds of every run.
THEOREM AlwaysSound == Spec => []Sound
BY InitSound, StepSound, PTL DEF Spec

\* No login presents a token that DeepSeek has refused it, whoever harvests,
\* stores and clears tokens of its account meanwhile.
THEOREM TokensFresh == Spec => []FreshTokens
<1>1. Sound => FreshTokens
  BY DEF Sound, TasksSound, Stands, FreshTokens
<1> QED
  BY <1>1, AlwaysSound, PTL

\* A process harvests one token at a time for an account, and the harvester
\* has no worker free while a job is in line; every table keeps its type.
THEOREM HarvestsAlwaysSound == Spec => []HarvestsSound
<1>1. ASSUME Sound PROVE HarvestsSound
  <2>1. PoolTypeOK
    <3>1. \A a \in DOMAIN row : row[a] \in [id : 1 .. Cardinality(Accounts), discarded : BOOLEAN,
                                            reason : Reasons, until : BOOLEAN, device : Nat]
      <4>1. \A a \in DOMAIN row : row[a] \in Row
        BY <1>1 DEF Sound, RowsSound
      <4>2. Tokens \subseteq Nat
        BY TokenBounds DEF Tokens
      <4> QED
        BY <4>1, <4>2 DEF Row
    <3>2. row = [a \in DOMAIN row |-> row[a]]
      BY <1>1 DEF Sound, RowsSound
    <3> QED
      BY <1>1, <3>1, <3>2 DEF PoolTypeOK, Sound, RowsSound, KeysSound
  <2>2. TypeOK
    <3>1. task \in [Tasks -> Task]
      BY <1>1, SoundTask DEF Sound, TasksSound
    <3>2. Verdicts \cup {""} = {"", "ok", "muted", "until", "banned"}
      BY DEF Verdicts
    <3>3. Task = [at : {"idle", "ensure", "lead", "harvested", "follow", "login", "ask", "report", "done"},
                  process : Processes, key : Keys \cup {None}, account : Accounts \cup {None},
                  device : 0 .. MaxToken, refused : SUBSET (0 .. MaxToken),
                  verdict : {"", "ok", "muted", "until", "banned"}]
      BY <3>2 DEF Task, Tokens
    <3> QED
      BY <1>1, <2>1, <3>1, <3>3 DEF TypeOK, Sound, TasksSound, JobsSound, Lines
  <2>3. ASSUME NEW t \in Tasks, NEW u \in Tasks,
               {task[t].at, task[u].at} \subseteq {"lead", "harvested"},
               task[t].process = task[u].process, task[t].account = task[u].account
        PROVE  t = u
    BY <1>1, <2>3, SoundTask DEF Led
  <2>4. Cardinality(running) <= Workers /\ (waiting # <<>> => Cardinality(running) = Workers)
    BY <1>1 DEF Sound, JobsSound, Lines
  <2> QED
    BY <2>2, <2>3, <2>4 DEF HarvestsSound
<1> QED
  BY <1>1, AlwaysSound, PTL

\* What a step leaves of the ends that rows hold: an active account has one only
\* when it had it before.
EndsKept == \A a \in DOMAIN row' : row'[a].until =>
                row'[a].discarded \/ (a \in DOMAIN row /\ row[a].until /\ ~row[a].discarded)

LEMMA SameEnds == ASSUME UNCHANGED row PROVE EndsKept
BY DEF EndsKept

LEMMA DeviceKeepsEnds ==
    ASSUME RowsSound, NEW a, NEW device, SetDevice(a, device)
    PROVE  EndsKept
<1>1. row \in [DOMAIN row -> Row] /\ row' = [row EXCEPT ![a].device = device]
  BY DEF RowsSound, SetDevice
<1>2. DOMAIN row' = DOMAIN row /\ \A b \in DOMAIN row : b # a => row'[b] = row[b]
  BY <1>1
<1>3. ASSUME a \in DOMAIN row
      PROVE  row'[a].until = row[a].until /\ row'[a].discarded = row[a].discarded
  <2>1. row[a] \in Row /\ row'[a] = [row[a] EXCEPT !.device = device]
    BY <1>1, <1>3
  <2> QED
    BY <2>1 DEF Row
<1> QED
  BY <1>2, <1>3 DEF EndsKept

LEMMA StateKeepsEnds ==
    ASSUME RowsSound, NEW k, NEW a, NEW discarded \in BOOLEAN, NEW reason,
           SetAccountPoolState(k, a, discarded, reason)
    PROVE  EndsKept
<1>1. CASE UNCHANGED row
  BY <1>1, SameEnds
<1>2. CASE row' # row
  <2>1. /\ row \in [DOMAIN row -> Row]
        /\ row' = [row EXCEPT ![a].discarded = discarded,
                              ![a].reason = IF discarded THEN reason ELSE "",
                              ![a].until = @ /\ discarded /\ reason = "muted"]
    BY <1>2 DEF RowsSound, SetAccountPoolState
  <2>2. DOMAIN row' = DOMAIN row /\ \A b \in DOMAIN row : b # a => row'[b] = row[b]
    BY <2>1
  <2>3. ASSUME a \in DOMAIN row PROVE row'[a].until => row'[a].discarded
    <3>1. row[a] \in Row
      BY <2>1, <2>3
    <3>2. /\ row'[a].discarded = discarded
          /\ row'[a].until = (row[a].until /\ discarded /\ reason = "muted")
      BY <2>1, <2>3, <3>1 DEF Row
    <3> QED
      BY <3>2
  <2> QED
    BY <2>2, <2>3 DEF EndsKept
<1> QED
  BY <1>1, <1>2

LEMMA MutedKeepsEnds ==
    ASSUME RowsSound, NEW k, NEW a, NEW known \in BOOLEAN, SetAccountMuted(k, a, known)
    PROVE  EndsKept
<1>1. CASE UNCHANGED row
  BY <1>1, SameEnds
<1>2. CASE row' # row
  <2>1. /\ row \in [DOMAIN row -> Row]
        /\ row' = [row EXCEPT ![a].discarded = TRUE, ![a].reason = "muted", ![a].until = known]
    BY <1>2 DEF RowsSound, SetAccountMuted
  <2>2. DOMAIN row' = DOMAIN row /\ \A b \in DOMAIN row : b # a => row'[b] = row[b]
    BY <2>1
  <2>3. ASSUME a \in DOMAIN row PROVE row'[a].discarded
    <3>1. row[a] \in Row
      BY <2>1, <2>3
    <3> QED
      BY <2>1, <2>3, <3>1 DEF Row
  <2> QED
    BY <2>2, <2>3 DEF EndsKept
<1> QED
  BY <1>1, <1>2

\* Only the account that is entered may become active with an end.
EndsTimed == \A a \in DOMAIN row' : row'[a].until =>
    row'[a].discarded \/ Reenters(a) \/ (a \in DOMAIN row /\ row[a].until /\ ~row[a].discarded)

LEMMA UpsertKeepsEnds ==
    ASSUME RowsSound, UNCHANGED task, NEW k, NEW a, NEW device \in {0, MaxToken},
           AddAccountToPool(k, a, device)
    PROVE  EndsTimed
<1>1. k \in DOMAIN enabled /\ row' = Upsert(a, device)
  BY DEF AddAccountToPool
<1>2. Reenters(a)
  BY <1>1 DEF Reenters
<1>3. DOMAIN row' = DOMAIN row \cup {a} /\ \A b \in DOMAIN row : b # a => row'[b] = row[b]
  <2>1. CASE a \in DOMAIN row
    BY <1>1, <2>1 DEF Upsert, RowsSound
  <2>2. CASE a \notin DOMAIN row
    BY <1>1, <2>2 DEF Upsert, Insert
  <2> QED
    BY <2>1, <2>2
<1> QED
  BY <1>2, <1>3 DEF EndsTimed

LEMMA StepTimes ==
    ASSUME Sound, [Next]_vars
    PROVE  EndsTimed
<1>0. RowsSound /\ KeysSound
  BY DEF Sound
<1>1. ASSUME EndsKept PROVE EndsTimed
  BY <1>1 DEF EndsKept, EndsTimed
<1>2. ASSUME UNCHANGED row PROVE EndsTimed
  BY <1>1, <1>2, SameEnds
<1>3. ASSUME NEW t \in Tasks, Begin(t) \/ Ensure(t) \/ Ask(t) \/ Served(t) \/ GiveUp(t)
      PROVE  EndsTimed
  BY <1>2, <1>3 DEF Begin, Ensure, Ask, Served, Answer, JobCancelled, GiveUp, tables
<1>4. ASSUME NEW t \in Tasks, Store(t) PROVE EndsTimed
  BY <1>0, <1>1, <1>2, <1>4, DeviceKeepsEnds DEF Store
<1>5. ASSUME NEW t \in Tasks, Login(t) PROVE EndsTimed
  BY <1>0, <1>1, <1>2, <1>5, DeviceKeepsEnds DEF Login
<1>6. ASSUME NEW t \in Tasks, Report(t) PROVE EndsTimed
  <2> DEFINE v == task[t].verdict
  <2>1. (v = "until") \in BOOLEAN /\ (v # "ok") \in BOOLEAN
    OBVIOUS
  <2>2. SetAccountMuted(task[t].key, task[t].account, v = "until")
        \/ SetAccountPoolState(task[t].key, task[t].account, v # "ok", v)
    BY <1>6 DEF Report
  <2> QED
    BY <1>0, <1>1, <2>1, <2>2, StateKeepsEnds, MutedKeepsEnds
<1>7. ASSUME Administer PROVE EndsTimed
  <2>1. PICK rows \in CSVs : Edit(rows) /\ UNCHANGED task
    BY <1>7 DEF Administer
  <2>2. ASSUME NEW k \in Keys,
               \/ CreateGatewayKey(k) \/ DeleteGatewayKey(k)
               \/ \E new \in Keys : RotateGatewayAPIKey(k, new)
               \/ \E on \in BOOLEAN : UpdateGatewayKeyMeta(k, on)
               \/ ImportAccountsCSV(k, rows)
        PROVE  EndsTimed
    BY <1>2, <2>2 DEF CreateGatewayKey, DeleteGatewayKey, RotateGatewayAPIKey,
                      UpdateGatewayKeyMeta, ImportAccountsCSV
  <2>3. ASSUME NEW k \in Keys, NEW a \in Accounts, AddAccountToPool(k, a, 0)
        PROVE  EndsTimed
    BY <1>0, <2>1, <2>3, UpsertKeepsEnds
  <2>4. ASSUME NEW k, NEW a, NEW discarded \in BOOLEAN,
               SetAccountPoolState(k, a, discarded, "manual") \/ SetDevice(a, 0)
        PROVE  EndsTimed
    BY <1>0, <1>1, <2>4, StateKeepsEnds, DeviceKeepsEnds
  <2> QED
    BY <2>1, <2>2, <2>3, <2>4 DEF Edit
<1>8. ASSUME Import PROVE EndsTimed
  <2>1. ImportRow /\ UNCHANGED task
    BY <1>8 DEF Import
  <2>2. CASE importing.key \in DOMAIN enabled
    <3> DEFINE r == Head(importing.rows)
    <3>1. AddAccountToPool(importing.key, r.account, r.device)
      BY <2>1, <2>2 DEF ImportRow
    <3>2. r \in CSVRow
      BY <1>0, <2>1, HeadTailProperties DEF KeysSound, ImportRow
    <3>3. r.device \in {0, MaxToken}
      BY <3>2 DEF CSVRow
    <3> QED
      BY <1>0, <2>1, <3>1, <3>3, UpsertKeepsEnds
  <2>3. CASE importing.key \notin DOMAIN enabled
    BY <1>2, <2>1, <2>3 DEF ImportRow
  <2> QED
    BY <2>2, <2>3
<1>9. ASSUME RestartHarvester \/ UNCHANGED vars PROVE EndsTimed
  BY <1>2, <1>9 DEF RestartHarvester, vars, tables
<1> QED
  BY <1>3, <1>4, <1>5, <1>6, <1>7, <1>8, <1>9 DEF Next, Steps

\* An end is stored with the reason of a mute, and no step but one that enters an
\* account again leaves an active account an end that it had not before.
THEOREM MutesTimed == Spec => MuteTimed
<1>1. Sound /\ Sound' /\ [Next]_vars =>
          [\A a \in DOMAIN row' : row'[a].until =>
              /\ row'[a].reason = "muted"
              /\ \/ row'[a].discarded
                 \/ Reenters(a)
                 \/ a \in DOMAIN row /\ row[a].until /\ ~row[a].discarded]_vars
  <2>1. Sound' => \A a \in DOMAIN row' : row'[a].until => row'[a].reason = "muted"
    BY DEF Sound, RowsSound, MuteReason
  <2> QED
    BY <2>1, StepTimes DEF EndsTimed
<1> QED
  BY <1>1, AlwaysSound, PTL DEF Spec, MuteTimed

-----------------------------------------------------------------------------
(* The order of a pool *)

\* List, of a pool whose accounts have the positions p, in the rows r.
Precedes(p, r, a, b) == \/ p[a] < p[b]
                        \/ p[a] = p[b] /\ r[a].id < r[b].id
Sorted(p, r, s) ==
    /\ s \in [1 .. Cardinality(DOMAIN p) -> DOMAIN p]
    /\ \A i, j \in 1 .. Cardinality(DOMAIN p) : i < j => Precedes(p, r, s[i], s[j])
Listing(p, r) == CHOOSE s \in [1 .. Cardinality(DOMAIN p) -> DOMAIN p] :
                     \A i, j \in 1 .. Cardinality(DOMAIN p) : i < j => Precedes(p, r, s[i], s[j])

\* A pool lists its accounts by position, then by row.
LEMMA ListIsListing == \A k : List(k) = Listing(bound[k], row)
BY DEF List, Listing, Before, Precedes

\* So it does after a step.
LEMMA ListIsListingNext == \A k : List(k)' = Listing(bound'[k], row')
BY DEF List, Listing, Before, Precedes

\* What orders a pool: positions, and rows that differ.
Ranked(p, r) ==
    /\ IsFiniteSet(DOMAIN p)
    /\ \A a \in DOMAIN p : p[a] \in Int /\ r[a].id \in Int
    /\ \A a, b \in DOMAIN p : r[a].id = r[b].id => a = b

\* The accounts of a pool that come before one.
Ahead(p, r, a) == {b \in DOMAIN p : Precedes(p, r, b, a)}

\* The order is strict and total.
LEMMA OrderStrict ==
    ASSUME NEW p, NEW r, Ranked(p, r)
    PROVE  /\ \A a \in DOMAIN p : ~Precedes(p, r, a, a)
           /\ \A a, b \in DOMAIN p : a # b => Precedes(p, r, a, b) \/ Precedes(p, r, b, a)
           /\ \A a, b, c \in DOMAIN p : Precedes(p, r, a, b) /\ Precedes(p, r, b, c) => Precedes(p, r, a, c)
<1> DEFINE id(a) == r[a].id
           at(a) == p[a]
<1>1. \A a \in DOMAIN p : at(a) \in Int /\ id(a) \in Int
  BY DEF Ranked
<1>2. \A a, b \in DOMAIN p : id(a) = id(b) => a = b
  BY DEF Ranked
<1>3. \A a, b : Precedes(p, r, a, b) <=> at(a) < at(b) \/ (at(a) = at(b) /\ id(a) < id(b))
  BY DEF Precedes
<1> HIDE DEF id, at
<1> QED
  BY <1>1, <1>2, <1>3

\* An account has one ahead of it less than any that comes after it, and no two
\* have as many.
LEMMA AheadGrows ==
    ASSUME NEW p, NEW r, Ranked(p, r)
    PROVE  /\ \A a \in DOMAIN p : Cardinality(Ahead(p, r, a)) \in 0 .. Cardinality(DOMAIN p) - 1
           /\ \A a, b \in DOMAIN p : Precedes(p, r, a, b)
                  => Cardinality(Ahead(p, r, a)) < Cardinality(Ahead(p, r, b))
           /\ \A a, b \in DOMAIN p : Cardinality(Ahead(p, r, a)) = Cardinality(Ahead(p, r, b)) => a = b
<1> DEFINE n == Cardinality(DOMAIN p)
           k(a) == Cardinality(Ahead(p, r, a))
<1>1. IsFiniteSet(DOMAIN p) /\ n \in Nat
  BY FS_CardinalityType DEF Ranked
<1>2. \A a \in DOMAIN p : IsFiniteSet(Ahead(p, r, a)) /\ k(a) \in Nat
  <2> TAKE a \in DOMAIN p
  <2>1. Ahead(p, r, a) \subseteq DOMAIN p
    BY DEF Ahead
  <2>2. IsFiniteSet(Ahead(p, r, a))
    BY <1>1, <2>1, FS_Subset
  <2> QED
    BY <2>2, FS_CardinalityType
<1>3. ASSUME NEW S, NEW T, IsFiniteSet(T), S \subseteq T, S # T
      PROVE  Cardinality(S) < Cardinality(T)
  <2>1. IsFiniteSet(S) /\ Cardinality(S) <= Cardinality(T) /\ Cardinality(S) # Cardinality(T)
    BY <1>3, FS_Subset
  <2>2. Cardinality(S) \in Nat /\ Cardinality(T) \in Nat
    BY <1>3, <2>1, FS_CardinalityType
  <2> QED
    BY <2>1, <2>2
<1>4. \A a \in DOMAIN p : k(a) < n
  <2> TAKE a \in DOMAIN p
  <2>1. Ahead(p, r, a) \subseteq DOMAIN p /\ a \notin Ahead(p, r, a)
    BY OrderStrict DEF Ahead
  <2> QED
    BY <1>1, <1>3, <2>1
<1>5. ASSUME NEW a \in DOMAIN p, NEW b \in DOMAIN p, Precedes(p, r, a, b)
      PROVE  k(a) < k(b)
  <2>1. Ahead(p, r, a) \subseteq Ahead(p, r, b)
    BY <1>5, OrderStrict DEF Ahead
  <2>2. a \in Ahead(p, r, b) /\ a \notin Ahead(p, r, a)
    BY <1>5, OrderStrict DEF Ahead
  <2> QED
    BY <1>2, <1>3, <2>1, <2>2
<1>6. ASSUME NEW a \in DOMAIN p, NEW b \in DOMAIN p, k(a) = k(b)
      PROVE  a = b
  <2> SUFFICES ASSUME a # b PROVE FALSE
    OBVIOUS
  <2>1. k(a) < k(b) \/ k(b) < k(a)
    BY <1>5, OrderStrict
  <2> QED
    BY <1>2, <1>6, <2>1
<1> QED
  <2> HIDE DEF k, n
  <2>1. \A a \in DOMAIN p : k(a) \in 0 .. n - 1
    BY <1>1, <1>2, <1>4
  <2> QED
    BY <1>5, <1>6, <2>1 DEF k, n

\* A pool can be listed.
LEMMA ListingSorted ==
    ASSUME NEW p, NEW r, Ranked(p, r)
    PROVE  Sorted(p, r, Listing(p, r))
<1> DEFINE D == DOMAIN p
           n == Cardinality(D)
           f == [a \in D |-> Cardinality(Ahead(p, r, a)) + 1]
           s == [i \in 1 .. n |-> CHOOSE a \in D : f[a] = i]
<1>1. IsFiniteSet(D) /\ n \in Nat
  BY FS_CardinalityType DEF Ranked
<1>2. f \in [D -> 1 .. n]
  BY <1>1, AheadGrows
<1>3. f \in Injection(D, 1 .. n)
  <2>1. \A a, b \in D : f[a] = f[b] => a = b
    <3> TAKE a, b \in D
    <3>1. PICK x \in Nat : x = Cardinality(Ahead(p, r, a))
      BY <1>1, AheadGrows
    <3>2. PICK y \in Nat : y = Cardinality(Ahead(p, r, b))
      BY <1>1, AheadGrows
    <3>3. f[a] = x + 1 /\ f[b] = y + 1
      BY <3>1, <3>2
    <3>4. x = y => a = b
      BY <3>1, <3>2, AheadGrows
    <3> HIDE DEF f
    <3> QED
      BY <3>3, <3>4
  <2> HIDE DEF f
  <2> QED
    BY <1>2, <2>1 DEF Injection, IsInjective
<1>4. IsFiniteSet(1 .. n) /\ Cardinality(1 .. n) = n
  BY <1>1, FS_Interval
<1>5. f \in Surjection(D, 1 .. n)
  <2> HIDE DEF f
  <2> QED
    BY <1>3, <1>4, FS_Injection
<1>6. \A i \in 1 .. n : s[i] \in D /\ f[s[i]] = i
  <2> TAKE i \in 1 .. n
  <2>1. \E a \in D : f[a] = i
    <3> HIDE DEF f
    <3> QED
      BY <1>5 DEF Surjection
  <2> HIDE DEF f
  <2> QED
    BY <2>1
<1>7. \A i, j \in 1 .. n : i < j => Precedes(p, r, s[i], s[j])
  <2> TAKE i, j \in 1 .. n
  <2> HAVE i < j
  <2>1. f[s[i]] = i /\ f[s[j]] = j /\ s[i] \in D /\ s[j] \in D
    BY <1>6
  <2>2. s[i] # s[j] /\ i \in Int /\ j \in Int
    <3> HIDE DEF f, s
    <3> QED
      BY <1>1, <2>1
  <2>3. ~Precedes(p, r, s[j], s[i])
    <3> SUFFICES ASSUME Precedes(p, r, s[j], s[i]) PROVE FALSE
      OBVIOUS
    <3> DEFINE a == s[i]
               b == s[j]
    <3> HIDE DEF s, a, b
    <3>0. a \in D /\ b \in D /\ Precedes(p, r, b, a)
      BY <2>1 DEF a, b
    <3>1. PICK x \in Nat : x = Cardinality(Ahead(p, r, a))
      BY <1>1, <3>0, AheadGrows
    <3>2. PICK y \in Nat : y = Cardinality(Ahead(p, r, b))
      BY <1>1, <3>0, AheadGrows
    <3>3. y < x
      BY <3>0, <3>1, <3>2, AheadGrows
    <3>4. f[a] = x + 1 /\ f[b] = y + 1
      BY <3>0, <3>1, <3>2
    <3>5. f[a] = i /\ f[b] = j
      BY <2>1 DEF a, b
    <3> HIDE DEF f
    <3> QED
      BY <2>2, <3>3, <3>4, <3>5
  <2> HIDE DEF s
  <2> QED
    BY <2>1, <2>2, <2>3, OrderStrict
<1>8. s \in [1 .. n -> D]
  <2> HIDE DEF f
  <2> QED
    BY <1>6
<1>9. Sorted(p, r, s)
  <2> HIDE DEF s
  <2> QED
    BY <1>7, <1>8 DEF Sorted
<1> QED
  <2> HIDE DEF s
  <2> QED
    BY <1>9 DEF Sorted, Listing

\* The account at a place of a list has those before that place ahead of it.
LEMMA Placed ==
    ASSUME NEW p, NEW r, Ranked(p, r), NEW s, Sorted(p, r, s),
           NEW i \in 1 .. Cardinality(DOMAIN p)
    PROVE  s[i] \in DOMAIN p /\ Cardinality(Ahead(p, r, s[i])) = i - 1
<1> DEFINE D == DOMAIN p
           n == Cardinality(D)
<1>1. IsFiniteSet(D) /\ n \in Nat /\ i \in 1 .. n
  BY FS_CardinalityType DEF Ranked
<1>2. s \in [1 .. n -> D] /\ \A j, l \in 1 .. n : j < l => Precedes(p, r, s[j], s[l])
  BY DEF Sorted
<1>3. \A j, l \in 1 .. n : Precedes(p, r, s[j], s[l]) => j < l
  <2> TAKE j, l \in 1 .. n
  <2> HAVE Precedes(p, r, s[j], s[l])
  <2>1. s[j] \in D /\ s[l] \in D
    BY <1>2
  <2>2. ~Precedes(p, r, s[l], s[j]) /\ s[j] # s[l]
    BY <2>1, OrderStrict
  <2>3. ~(l < j) /\ j # l
    BY <1>2, <2>2
  <2> HIDE DEF n
  <2> QED
    BY <1>1, <2>3
<1>4. \A j, l \in 1 .. n : s[j] = s[l] => j = l
  <2> TAKE j, l \in 1 .. n
  <2> HAVE s[j] = s[l]
  <2>1. s[j] \in D /\ s[l] \in D
    BY <1>2
  <2>2. ~Precedes(p, r, s[j], s[l]) /\ ~Precedes(p, r, s[l], s[j])
    BY <2>1, OrderStrict
  <2>3. ~(l < j) /\ ~(j < l)
    BY <1>2, <2>2
  <2> HIDE DEF n
  <2> QED
    BY <1>1, <2>3
<1>5. \A a \in D : \E j \in 1 .. n : s[j] = a
  <2>1. s \in Injection(1 .. n, D)
    BY <1>2, <1>4 DEF Injection, IsInjective
  <2>2. Cardinality(1 .. n) = n
    BY <1>1, FS_Interval
  <2>3. s \in Surjection(1 .. n, D)
    BY <1>1, <2>1, <2>2, FS_Injection
  <2> QED
    BY <2>3 DEF Surjection
<1>6. i - 1 \in Nat /\ \A j \in 1 .. i - 1 : j \in 1 .. n /\ j < i
  <2> HIDE DEF n
  <2> QED
    BY <1>1
<1>7. Ahead(p, r, s[i]) = {s[j] : j \in 1 .. i - 1}
  <2>1. ASSUME NEW b \in Ahead(p, r, s[i]) PROVE \E j \in 1 .. i - 1 : b = s[j]
    <3>1. b \in D /\ Precedes(p, r, b, s[i])
      BY DEF Ahead
    <3>2. PICK j \in 1 .. n : s[j] = b
      BY <1>5, <3>1
    <3>3. j < i
      BY <1>1, <1>3, <3>1, <3>2
    <3>4. j \in 1 .. i - 1
      <4> HIDE DEF n
      <4> QED
        BY <1>1, <3>3
    <3> QED
      BY <3>2, <3>4
  <2>2. ASSUME NEW j \in 1 .. i - 1 PROVE s[j] \in Ahead(p, r, s[i])
    BY <1>1, <1>2, <1>6 DEF Ahead
  <2> QED
    BY <2>1, <2>2
<1>8. Cardinality(Ahead(p, r, s[i])) = i - 1
  <2> DEFINE g == [j \in 1 .. i - 1 |-> s[j]]
             A == {s[j] : j \in 1 .. i - 1}
  <2>1. g \in Surjection(1 .. i - 1, A)
    BY DEF Surjection
  <2>2. g \in Injection(1 .. i - 1, A)
    <3>1. \A j, l \in 1 .. i - 1 : g[j] = g[l] => j = l
      BY <1>4, <1>6
    <3>2. g \in [1 .. i - 1 -> A]
      OBVIOUS
    <3> HIDE DEF g, A
    <3> QED
      BY <3>1, <3>2 DEF Injection, IsInjective
  <2>3. IsFiniteSet(1 .. i - 1) /\ Cardinality(1 .. i - 1) = i - 1
    <3>1. i - 1 \in Int /\ 1 \in Int
      BY <1>6
    <3>2. IsFiniteSet(1 .. i - 1) /\ Cardinality(1 .. i - 1) = IF 1 > i - 1 THEN 0 ELSE (i - 1) - 1 + 1
      BY <3>1, FS_Interval
    <3> QED
      BY <1>6, <3>2
  <2> HIDE DEF g, A
  <2>4. Cardinality(A) = i - 1
    BY <2>1, <2>2, <2>3, FS_Surjection
  <2> QED
    BY <1>7, <2>4 DEF A
<1> QED
  BY <1>1, <1>2, <1>8

\* What is added after every account of a pool leaves the others their places.
LEMMA ListKept ==
    ASSUME NEW p, NEW r, Ranked(p, r), NEW q, NEW v, Ranked(q, v),
           DOMAIN p \subseteq DOMAIN q,
           \A a, b \in DOMAIN p : Precedes(q, v, a, b) <=> Precedes(p, r, a, b),
           \A a \in DOMAIN p, b \in DOMAIN q \ DOMAIN p : ~Precedes(q, v, b, a)
    PROVE  IsPrefix(Listing(p, r), Listing(q, v))
<1> DEFINE s == Listing(p, r)
           t == Listing(q, v)
           n == Cardinality(DOMAIN p)
           m == Cardinality(DOMAIN q)
<1>1. n \in Nat /\ m \in Nat /\ n <= m
  BY FS_CardinalityType, FS_Subset DEF Ranked
<1>2. Sorted(p, r, s) /\ Sorted(q, v, t)
  BY ListingSorted
<1>3. s \in [1 .. n -> DOMAIN p] /\ t \in [1 .. m -> DOMAIN q]
  BY <1>2 DEF Sorted
<1>4. \A a \in DOMAIN p : Ahead(q, v, a) = Ahead(p, r, a)
  BY DEF Ahead
<1> HIDE DEF s, t
<1>5. \A i \in 1 .. n : s[i] = t[i]
  <2> TAKE i \in 1 .. n
  <2>1. i \in 1 .. m
    <3> HIDE DEF n, m
    <3> QED
      BY <1>1
  <2>2. s[i] \in DOMAIN p /\ Cardinality(Ahead(p, r, s[i])) = i - 1
    BY <1>2, Placed
  <2>3. t[i] \in DOMAIN q /\ Cardinality(Ahead(q, v, t[i])) = i - 1
    BY <1>2, <2>1, Placed
  <2>4. Cardinality(Ahead(q, v, s[i])) = Cardinality(Ahead(q, v, t[i]))
    BY <1>4, <2>2, <2>3
  <2> QED
    BY <2>2, <2>3, <2>4, AheadGrows
<1> HIDE DEF n, m
<1>6. s \in Seq(DOMAIN p) /\ t \in Seq(DOMAIN q) /\ Len(s) = n /\ Len(t) = m
  BY <1>1, <1>3
<1>7. SubSeq(s, 1, n) = SubSeq(t, 1, n)
  BY <1>1, <1>3, <1>5, <1>6
<1> QED
  BY <1>1, <1>6, <1>7 DEF IsPrefix, s, t

-----------------------------------------------------------------------------
(* The numbers of the rows *)

\* Rows are numbered, each by itself, and none beyond their count.
Numbered ==
    /\ \A a, b \in DOMAIN row : row[a].id = row[b].id => a = b
    /\ \A a \in DOMAIN row : row[a].id <= Cardinality(DOMAIN row)

\* A row keeps its number, and a row that is new gets the next one.
NumbersKept ==
    /\ DOMAIN row \subseteq DOMAIN row' /\ \A a \in DOMAIN row : row'[a].id = row[a].id
    /\ \/ DOMAIN row' = DOMAIN row
       \/ \E a : /\ a \notin DOMAIN row /\ DOMAIN row' = DOMAIN row \cup {a}
                 /\ row'[a].id = Cardinality(DOMAIN row) + 1

\* So the numbers stay apart.
LEMMA NumberedStays ==
    ASSUME RowsSound, Numbered, NumbersKept
    PROVE  Numbered'
<1>1. CASE DOMAIN row' = DOMAIN row
  BY <1>1 DEF Numbered, NumbersKept
<1>2. CASE DOMAIN row' # DOMAIN row
  <2>1. PICK a : /\ a \notin DOMAIN row /\ DOMAIN row' = DOMAIN row \cup {a}
                 /\ row'[a].id = Cardinality(DOMAIN row) + 1
    BY <1>2 DEF NumbersKept
  <2>2. IsFiniteSet(DOMAIN row)
    BY LimitAssumption, FS_Subset DEF RowsSound
  <2>3. PICK n \in Nat : n = Cardinality(DOMAIN row)
    BY <2>2, FS_CardinalityType
  <2>4. Cardinality(DOMAIN row') = n + 1 /\ row'[a].id = n + 1
    BY <2>1, <2>2, <2>3, FS_AddElement
  <2> DEFINE id(b) == row[b].id
             new(b) == row'[b].id
  <2>5. \A b \in DOMAIN row : id(b) \in Int /\ id(b) <= n /\ new(b) = id(b)
    <3>1. \A b \in DOMAIN row : row[b] \in Row
      BY DEF RowsSound
    <3>2. \A b \in DOMAIN row : id(b) \in 1 .. Cardinality(Accounts)
      BY <3>1 DEF Row
    <3>3. 1 .. Cardinality(Accounts) \subseteq Int
      OBVIOUS
    <3> QED
      BY <2>3, <3>2, <3>3 DEF Numbered, NumbersKept
  <2>6. \A b, c \in DOMAIN row : id(b) = id(c) => b = c
    BY DEF Numbered
  <2>7. new(a) = n + 1
    BY <2>4
  <2> HIDE DEF id, new
  <2>8. \A b, c \in DOMAIN row' : new(b) = new(c) => b = c
    BY <2>1, <2>5, <2>6, <2>7
  <2>9. \A b \in DOMAIN row' : new(b) <= n + 1
    BY <2>1, <2>5, <2>7
  <2> QED
    BY <2>4, <2>8, <2>9 DEF Numbered, new
<1> QED
  BY <1>1, <1>2

\* An account that is new, or known.
LEMMA UpsertNumbers ==
    ASSUME RowsSound, NEW a, NEW device, row' = Upsert(a, device)
    PROVE  NumbersKept
<1>1. CASE a \in DOMAIN row
  <2>1. row' = [row EXCEPT ![a].discarded = FALSE,
                           ![a].device = IF device = 0 THEN row[a].device ELSE device]
    BY <1>1 DEF Upsert
  <2>2. row \in [DOMAIN row -> Row] /\ DOMAIN row' = DOMAIN row
    BY <2>1 DEF RowsSound
  <2>3. \A b \in DOMAIN row : b # a => row'[b] = row[b]
    BY <2>1, <2>2
  <2>4. PICK r \in Row : r = row[a]
    BY <1>1, <2>2
  <2>5. row'[a] = [r EXCEPT !.discarded = FALSE, !.device = IF device = 0 THEN r.device ELSE device]
    BY <1>1, <2>1, <2>2, <2>4
  <2>6. row'[a].id = row[a].id
    BY <2>4, <2>5 DEF Row
  <2> QED
    BY <2>2, <2>3, <2>6 DEF NumbersKept
<1>2. CASE a \notin DOMAIN row
  BY <1>2 DEF Upsert, Insert, NumbersKept
<1> QED
  BY <1>1, <1>2

\* The verdict of an administrator or of a task, and the device of an account.
LEMMA WrittenNumbers ==
    ASSUME RowsSound, NEW k, NEW a, NEW v, NEW w, NEW device,
           \/ SetAccountPoolState(k, a, v, w) \/ SetAccountMuted(k, a, v)
           \/ SetDevice(a, device) \/ UNCHANGED row
    PROVE  NumbersKept
<1>1. row \in [DOMAIN row -> Row] /\ \A b \in DOMAIN row : row[b] \in Row
  BY DEF RowsSound
<1>2. ASSUME NEW r, r.id = row[a].id, row' = [row EXCEPT ![a] = r]
      PROVE  NumbersKept
  BY <1>1, <1>2 DEF NumbersKept
<1>3. CASE row' = row
  BY <1>3 DEF NumbersKept
<1>4. CASE a \notin DOMAIN row
  <2>1. row' = row
    <3>1. row = [b \in DOMAIN row |-> row[b]]
      BY <1>1
    <3>2. SetAccountPoolState(k, a, v, w) => row' = row
      BY <1>4, <3>1 DEF SetAccountPoolState
    <3>3. SetAccountMuted(k, a, v) => row' = row
      BY <1>4, <3>1 DEF SetAccountMuted
    <3>4. SetDevice(a, device) => row' = row
      BY <1>4, <3>1 DEF SetDevice
    <3> QED
      BY <3>2, <3>3, <3>4
  <2> QED
    BY <1>3, <2>1
<1>5. CASE a \in DOMAIN row /\ row' # row
  <2>1. PICK r \in Row : r = row[a]
    BY <1>1, <1>5
  <2>2. CASE SetAccountPoolState(k, a, v, w)
    <3> DEFINE new == [r EXCEPT !.discarded = v, !.reason = IF v THEN w ELSE "",
                                !.until = @ /\ v /\ w = "muted"]
    <3>1. row' = [row EXCEPT ![a] = new]
      BY <1>1, <1>5, <2>1, <2>2 DEF SetAccountPoolState
    <3>2. new.id = row[a].id
      BY <2>1 DEF Row
    <3> QED
      BY <1>2, <3>1, <3>2
  <2>3. CASE SetAccountMuted(k, a, v)
    <3> DEFINE new == [r EXCEPT !.discarded = TRUE, !.reason = "muted", !.until = v]
    <3>1. row' = [row EXCEPT ![a] = new]
      BY <1>1, <1>5, <2>1, <2>3 DEF SetAccountMuted
    <3>2. new.id = row[a].id
      BY <2>1 DEF Row
    <3> QED
      BY <1>2, <3>1, <3>2
  <2>4. CASE SetDevice(a, device)
    <3> DEFINE new == [r EXCEPT !.device = device]
    <3>1. row' = [row EXCEPT ![a] = new]
      BY <1>1, <1>5, <2>1, <2>4 DEF SetDevice
    <3>2. new.id = row[a].id
      BY <2>1 DEF Row
    <3> QED
      BY <1>2, <3>1, <3>2
  <2> QED
    BY <1>5, <2>2, <2>3, <2>4
<1> QED
  BY <1>3, <1>4, <1>5

-----------------------------------------------------------------------------
(* The pools *)

\* Pools keep their accounts in their order, with any new one at the end; a
\* key that is new has an empty pool, or that of the key it replaces.
PoolsKept ==
    bound' # bound => \A k \in DOMAIN bound' :
        IF k \in DOMAIN bound THEN IsPrefix(List(k), List(k)')
        ELSE IF DOMAIN bound \subseteq DOMAIN bound' THEN List(k)' = <<>>
        ELSE \E o \in DOMAIN bound \ DOMAIN bound' : List(k)' = List(o)

\* Each pool has an order.
LEMMA PoolsRanked ==
    ASSUME RowsSound, KeysSound, Numbered, NEW k \in DOMAIN bound
    PROVE  Ranked(bound[k], row)
<1>1. DOMAIN bound[k] \subseteq DOMAIN row /\ DOMAIN row \subseteq Accounts /\ Range(bound[k]) \subseteq Nat
  BY DEF KeysSound, RowsSound
<1>2. IsFiniteSet(DOMAIN bound[k])
  BY <1>1, LimitAssumption, FS_Subset
<1>3. \A a \in DOMAIN bound[k] : bound[k][a] \in Int
  BY <1>1 DEF Range
<1>4. \A a \in DOMAIN row : row[a].id \in Int
  <2>1. \A a \in DOMAIN row : row[a] \in Row
    BY DEF RowsSound
  <2> QED
    BY <2>1 DEF Row
<1> QED
  BY <1>1, <1>2, <1>3, <1>4 DEF Ranked, Numbered

\* It has one after a step as well.
LEMMA PoolsRankedNext ==
    ASSUME RowsSound', KeysSound', Numbered', NEW k \in DOMAIN bound'
    PROVE  Ranked(bound'[k], row')
<1>1. DOMAIN bound'[k] \subseteq DOMAIN row' /\ DOMAIN row' \subseteq Accounts /\ Range(bound'[k]) \subseteq Nat
  BY DEF KeysSound, RowsSound
<1>2. IsFiniteSet(DOMAIN bound'[k])
  BY <1>1, LimitAssumption, FS_Subset
<1>3. \A a \in DOMAIN bound'[k] : bound'[k][a] \in Int
  BY <1>1 DEF Range
<1>4. \A a \in DOMAIN row' : row'[a].id \in Int
  <2>1. \A a \in DOMAIN row' : row'[a] \in Row
    BY DEF RowsSound
  <2> QED
    BY <2>1 DEF Row
<1> QED
  BY <1>1, <1>2, <1>3, <1>4 DEF Ranked, Numbered

\* What a step may do to the tables, and to their order.
Ordered == /\ RowsSound /\ KeysSound /\ Numbered
           /\ RowsSound' /\ KeysSound' /\ Numbered' /\ NumbersKept

\* A pool that a step leaves alone keeps its list, whatever becomes of the rows.
LEMMA PoolAlone ==
    ASSUME Ordered, NEW k \in DOMAIN bound, k \in DOMAIN bound', bound'[k] = bound[k]
    PROVE  IsPrefix(List(k), List(k)')
<1> DEFINE p == bound[k]
<1>1. Ranked(p, row) /\ Ranked(p, row')
  BY PoolsRanked, PoolsRankedNext DEF Ordered
<1>2. DOMAIN p \subseteq DOMAIN row /\ \A a \in DOMAIN p : row'[a].id = row[a].id
  BY DEF Ordered, KeysSound, NumbersKept
<1> HIDE DEF p
<1>3. \A a, b \in DOMAIN p : Precedes(p, row', a, b) <=> Precedes(p, row, a, b)
  BY <1>2 DEF Precedes
<1>4. IsPrefix(Listing(p, row), Listing(p, row'))
  BY <1>1, <1>3, ListKept
<1> QED
  BY <1>4, ListIsListing, ListIsListingNext DEF p

\* An account that is added comes last.
LEMMA AddKeepsPools ==
    ASSUME Ordered, NEW k \in DOMAIN bound, NEW a, a \notin DOMAIN bound[k],
           bound' = [bound EXCEPT ![k] = Insert(bound[k], a, NextPosition(bound[k]))]
    PROVE  PoolsKept
<1> DEFINE p == bound[k]
           q == bound'[k]
           n == NextPosition(p)
<1>1. DOMAIN bound' = DOMAIN bound /\ q = Insert(p, a, n)
      /\ \A o \in DOMAIN bound : o # k => bound'[o] = bound[o]
  OBVIOUS
<1>2. Ranked(p, row) /\ Ranked(q, row')
  BY <1>1, PoolsRanked, PoolsRankedNext DEF Ordered
<1>3. DOMAIN p \subseteq DOMAIN row /\ Range(p) \subseteq Nat
      /\ \A b \in DOMAIN p : row'[b].id = row[b].id
  BY DEF Ordered, KeysSound, NumbersKept
<1>4. n \in Nat /\ \A b \in DOMAIN p : p[b] < n
  BY <1>2, <1>3, NextPositionSound DEF Ranked
<1>5. \A b \in DOMAIN p : p[b] \in Nat
  BY <1>3 DEF Range
<1>6. DOMAIN q = DOMAIN p \cup {a} /\ q[a] = n /\ \A b \in DOMAIN p : q[b] = p[b]
  BY <1>1 DEF Insert
<1> HIDE DEF p, q, n
<1>7. \A b, c \in DOMAIN p : Precedes(q, row', b, c) <=> Precedes(p, row, b, c)
  BY <1>3, <1>6 DEF Precedes
<1>8. \A b \in DOMAIN p : ~Precedes(q, row', a, b)
  <2> TAKE b \in DOMAIN p
  <2>1. q[b] < q[a] /\ q[b] \in Nat /\ q[a] \in Nat
    BY <1>4, <1>5, <1>6
  <2>2. ~(q[a] < q[b]) /\ q[a] # q[b]
    BY <2>1
  <2> QED
    BY <2>2 DEF Precedes
<1>9. IsPrefix(Listing(p, row), Listing(q, row'))
  BY <1>2, <1>6, <1>7, <1>8, ListKept
<1>10. IsPrefix(List(k), List(k)')
  BY <1>9, ListIsListing, ListIsListingNext DEF p, q
<1> QED
  BY <1>1, <1>10, PoolAlone DEF PoolsKept

\* A new key has an empty pool.
LEMMA NewPoolEmpty ==
    ASSUME NEW k, bound'[k] = <<>>
    PROVE  List(k)' = <<>>
<1> DEFINE s == Listing(<<>>, row')
<1>1. DOMAIN <<>> = {} /\ IsFiniteSet({}) /\ Cardinality({}) = 0
  BY FS_EmptySet
<1>2. Ranked(<<>>, row')
  BY <1>1 DEF Ranked
<1>3. s \in [1 .. 0 -> {}]
  BY <1>1, <1>2, ListingSorted DEF Sorted
<1> HIDE DEF s
<1>4. s \in Seq({}) /\ Len(s) = 0
  BY <1>3
<1>5. s = <<>>
  BY <1>4, EmptySeq
<1> QED
  BY <1>5, ListIsListingNext DEF s

\* An account is added to a pool, by hand or from a CSV.
LEMMA AddOrdered ==
    ASSUME RowsSound, KeysSound, Numbered, RowsSound', KeysSound',
           NEW k, NEW a, NEW device, AddAccountToPool(k, a, device)
    PROVE  NumbersKept /\ PoolsKept
<1>1. NumbersKept
  BY UpsertNumbers DEF AddAccountToPool
<1>2. Ordered
  BY <1>1, NumberedStays DEF Ordered
<1>3. k \in DOMAIN bound
  BY DEF AddAccountToPool, KeysSound
<1>4. CASE a \in DOMAIN bound[k]
  BY <1>1, <1>4 DEF AddAccountToPool, PoolsKept
<1>5. CASE a \notin DOMAIN bound[k]
  BY <1>1, <1>2, <1>3, <1>5, AddKeepsPools DEF AddAccountToPool
<1> QED
  BY <1>4, <1>5

\* What the administrator does to keys and pools.
LEMMA EditOrdered ==
    ASSUME RowsSound, KeysSound, Numbered, RowsSound', KeysSound',
           NEW rows \in CSVs, Edit(rows)
    PROVE  NumbersKept /\ PoolsKept
<1>1. ASSUME UNCHANGED row, \A k \in DOMAIN bound \cap DOMAIN bound' : bound'[k] = bound[k]
      PROVE  NumbersKept /\ \A k \in DOMAIN bound \cap DOMAIN bound' : IsPrefix(List(k), List(k)')
  <2>1. NumbersKept
    BY <1>1 DEF NumbersKept
  <2>2. Ordered
    BY <2>1, NumberedStays DEF Ordered
  <2> QED
    BY <1>1, <2>1, <2>2, PoolAlone
<1>2. ASSUME NEW k \in Keys, CreateGatewayKey(k)
      PROVE  NumbersKept /\ PoolsKept
  <2>1. /\ UNCHANGED row /\ DOMAIN bound' = DOMAIN bound \cup {k} /\ k \notin DOMAIN bound
        /\ bound'[k] = <<>> /\ \A o \in DOMAIN bound : bound'[o] = bound[o]
    BY <1>2 DEF CreateGatewayKey, Insert, KeysSound
  <2>2. List(k)' = <<>>
    BY <2>1, NewPoolEmpty
  <2> QED
    BY <1>1, <2>1, <2>2 DEF PoolsKept
<1>3. ASSUME NEW k \in Keys, DeleteGatewayKey(k)
      PROVE  NumbersKept /\ PoolsKept
  <2>1. /\ UNCHANGED row /\ DOMAIN bound' \subseteq DOMAIN bound
        /\ \A o \in DOMAIN bound' : bound'[o] = bound[o]
    BY <1>3 DEF DeleteGatewayKey
  <2> QED
    BY <1>1, <2>1 DEF PoolsKept
<1>4. ASSUME NEW k \in Keys, NEW new \in Keys, RotateGatewayAPIKey(k, new)
      PROVE  NumbersKept /\ PoolsKept
  <2>1. /\ k \in DOMAIN bound /\ new \notin DOMAIN bound /\ UNCHANGED row
        /\ bound' = [o \in (DOMAIN bound \ {k}) \cup {new} |-> IF o = new THEN bound[k] ELSE bound[o]]
    BY <1>4 DEF RotateGatewayAPIKey, KeysSound
  <2>2. /\ DOMAIN bound' = (DOMAIN bound \ {k}) \cup {new} /\ bound'[new] = bound[k]
        /\ \A o \in DOMAIN bound \cap DOMAIN bound' : bound'[o] = bound[o]
    BY <2>1
  <2>3. List(new)' = List(k)
    BY <2>1, <2>2, ListIsListing, ListIsListingNext
  <2>4. k \in DOMAIN bound \ DOMAIN bound' /\ ~(DOMAIN bound \subseteq DOMAIN bound')
    BY <2>1, <2>2
  <2> QED
    BY <1>1, <2>1, <2>2, <2>3, <2>4 DEF PoolsKept
<1>5. ASSUME NEW k \in Keys, (\E on \in BOOLEAN : UpdateGatewayKeyMeta(k, on)) \/ ImportAccountsCSV(k, rows)
      PROVE  NumbersKept /\ PoolsKept
  BY <1>5 DEF UpdateGatewayKeyMeta, ImportAccountsCSV, NumbersKept, PoolsKept
<1>6. ASSUME NEW k \in Keys, NEW a \in Accounts, AddAccountToPool(k, a, 0)
      PROVE  NumbersKept /\ PoolsKept
  BY <1>6, AddOrdered
<1>7. ASSUME NEW k, NEW a, NEW discarded, UNCHANGED bound,
             SetAccountPoolState(k, a, discarded, "manual") \/ SetDevice(a, 0)
      PROVE  NumbersKept /\ PoolsKept
  BY <1>7, WrittenNumbers DEF PoolsKept
<1> QED
  BY <1>2, <1>3, <1>4, <1>5, <1>6, <1>7 DEF Edit

\* Every step keeps the numbers of the rows and the order of the pools.
LEMMA StepOrdered ==
    ASSUME Sound, Sound', Numbered, [Next]_vars
    PROVE  NumbersKept /\ PoolsKept
<1>1. RowsSound /\ KeysSound /\ RowsSound' /\ KeysSound'
  BY DEF Sound
<1>2. ASSUME UNCHANGED <<bound, row>>
      PROVE  NumbersKept /\ PoolsKept
  BY <1>2 DEF NumbersKept, PoolsKept
<1>3. ASSUME NEW t \in Tasks, Begin(t) \/ Ensure(t) \/ Ask(t) \/ Served(t) \/ GiveUp(t)
      PROVE  NumbersKept /\ PoolsKept
  BY <1>2, <1>3 DEF Begin, Ensure, Ask, Served, Answer, JobCancelled, GiveUp, tables
<1>4. ASSUME NEW t \in Tasks, Store(t)
      PROVE  NumbersKept /\ PoolsKept
  BY <1>1, <1>4, WrittenNumbers DEF Store, PoolsKept
<1>5. ASSUME NEW t \in Tasks, Login(t)
      PROVE  NumbersKept /\ PoolsKept
  BY <1>1, <1>5, WrittenNumbers DEF Login, PoolsKept
<1>6. ASSUME NEW t \in Tasks, Report(t)
      PROVE  NumbersKept /\ PoolsKept
  BY <1>1, <1>6, WrittenNumbers DEF Report, PoolsKept
<1>7. ASSUME Administer
      PROVE  NumbersKept /\ PoolsKept
  BY <1>1, <1>7, EditOrdered DEF Administer
<1>8. ASSUME Import
      PROVE  NumbersKept /\ PoolsKept
  BY <1>1, <1>2, <1>8, AddOrdered DEF Import, ImportRow
<1>9. ASSUME RestartHarvester \/ UNCHANGED vars
      PROVE  NumbersKept /\ PoolsKept
  BY <1>2, <1>9 DEF RestartHarvester, vars, tables
<1> QED
  BY <1>3, <1>4, <1>5, <1>6, <1>7, <1>8, <1>9 DEF Next, Steps

\* The rows of the start are numbered one by one.
LEMMA InitNumbered ==
    ASSUME Init
    PROVE  Numbered
<1>1. PICK pools \in Pools, device \in Devices : Starts(pools, device)
  BY DEF Init
<1> DEFINE S == UNION {Range(pools[k]) : k \in DOMAIN pools}  accounts == SetToSeq(S)
<1>2. S \subseteq Accounts
  <2>1. \A k \in DOMAIN pools : pools[k] \in Seq(Accounts)
    BY StartAssumption
  <2>2. \A k \in DOMAIN pools : Range(pools[k]) \subseteq Accounts
    BY <2>1 DEF Range
  <2> QED
    BY <2>2
<1>3. IsFiniteSet(S)
  BY <1>2, LimitAssumption, FS_Subset
<1>4. row = [a \in Range(accounts) |-> [id |-> CHOOSE n \in DOMAIN accounts : accounts[n] = a,
                    discarded |-> FALSE, reason |-> "", until |-> FALSE, device |-> device]]
  BY <1>1 DEF Starts
<1> HIDE DEF S
<1>5. /\ DOMAIN accounts = 1 .. Cardinality(S) /\ Range(accounts) = S
      /\ \A x \in S : \E i \in DOMAIN accounts : accounts[i] = x
  BY <1>3, Listed
<1>6. DOMAIN row = S /\ \A a \in S : row[a].id \in DOMAIN accounts /\ accounts[row[a].id] = a
  BY <1>4, <1>5
<1>7. \A a \in S : row[a].id <= Cardinality(S)
  <2>1. Cardinality(S) \in Nat
    BY <1>3, FS_CardinalityType
  <2> TAKE a \in S
  <2>2. row[a].id \in 1 .. Cardinality(S)
    BY <1>5, <1>6
  <2> QED
    BY <2>1, <2>2
<1> QED
  BY <1>6, <1>7 DEF Numbered

\* Rotations, imports, deletions and verdicts leave a pool the accounts it had
\* in the order it had them; a new account comes last.
THEOREM PoolsAlwaysKept == Spec => PoolKept
<1>1. Init => Numbered
  BY InitNumbered
<1>2. Sound /\ Sound' /\ Numbered /\ [Next]_vars => Numbered'
  BY StepOrdered, NumberedStays DEF Sound
<1>3. Sound /\ Sound' /\ Numbered /\ [Next]_vars =>
          [bound' # bound => \A k \in DOMAIN bound' :
              IF k \in DOMAIN bound THEN IsPrefix(List(k), List(k)')
              ELSE IF DOMAIN bound \subseteq DOMAIN bound' THEN List(k)' = <<>>
              ELSE \E o \in DOMAIN bound \ DOMAIN bound' : List(k)' = List(o)]_vars
  BY StepOrdered DEF PoolsKept
<1>4. Spec => []Numbered
  BY <1>1, <1>2, AlwaysSound, PTL DEF Spec
<1> QED
  BY <1>3, <1>4, AlwaysSound, PTL DEF Spec, PoolKept
=============================================================================
