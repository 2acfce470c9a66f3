------------------------------ MODULE PoolTables ------------------------------
(***************************************************************************)
(* The SQLite tables that the gateway and the pool UI share (pooldb/):     *)
(* gateway keys, accounts, and the bindings that give each key its pool.   *)
(* Every action is one statement or one transaction, so it is atomic for   *)
(* both processes.  Names, passwords and upstream tokens are left out; the *)
(* tokens are those of ManagedAuth.  Nothing in the program removes an     *)
(* account, or one binding alone (RemoveAccountFromPool has no caller).    *)
(***************************************************************************)
EXTENDS Integers, FiniteSetsExt, SequencesExt

CONSTANTS Keys, Accounts,
    MaxAccounts     \* maxAccountsPerKey; 0 for no limit

ASSUME LimitAssumption == MaxAccounts \in Nat /\ IsFiniteSet(Accounts)

VARIABLES
    enabled,        \* gateway_api_keys: the keys there are, and whether they are enabled
    bound,          \* pool_bindings: for each key the positions of its accounts
    row,            \* pool_accounts
    importing       \* the upload of a CSV: its key and the rows that are left

tables == <<enabled, bound, row, importing>>

\* discard_reason; "" is the reason of an account that nobody discarded.
Reasons == {"", "manual", "muted", "banned"}

PoolTypeOK ==
    /\ enabled \in [DOMAIN enabled -> BOOLEAN] /\ DOMAIN enabled \subseteq Keys
    /\ DOMAIN bound = DOMAIN enabled
    /\ \A k \in DOMAIN bound : DOMAIN bound[k] \subseteq DOMAIN row /\ Range(bound[k]) \subseteq Nat
    /\ DOMAIN row \subseteq Accounts
    /\ row \in [DOMAIN row -> [id : 1 .. Cardinality(Accounts), discarded : BOOLEAN,
                               reason : Reasons, until : BOOLEAN, device : Nat]]

\* A table with one row more.
Insert(table, key, v) == [k \in DOMAIN table \cup {key} |-> IF k = key THEN v ELSE table[k]]

\* ORDER BY pb.position, pa.id
Before(k, a, b) ==
    \/ bound[k][a] < bound[k][b]
    \/ bound[k][a] = bound[k][b] /\ row[a].id < row[b].id

List(k) ==
    LET pool == DOMAIN bound[k] IN
    CHOOSE s \in [1 .. Cardinality(pool) -> pool] :
        \A i, j \in 1 .. Cardinality(pool) : i < j => Before(k, s[i], s[j])

\* The accounts a request under k may be served with, the first MaxAccounts of
\* those that are not discarded.
LoadAccountsForAPIKey(k) ==
    LET active == {a \in DOMAIN bound[k] : ~row[a].discarded} IN
    {a \in active : \/ MaxAccounts = 0
                    \/ Cardinality({b \in active : Before(k, b, a)}) < MaxAccounts}

-----------------------------------------------------------------------------
(* Gateway keys *)

CreateGatewayKey(k) ==
    /\ k \notin DOMAIN enabled
    /\ enabled' = Insert(enabled, k, TRUE)
    /\ bound' = Insert(bound, k, <<>>)
    /\ UNCHANGED <<row, importing>>

\* Its bindings go with it (ON DELETE CASCADE); its accounts stay.
DeleteGatewayKey(k) ==
    /\ k \in DOMAIN enabled
    /\ enabled' = [o \in DOMAIN enabled \ {k} |-> enabled[o]]
    /\ bound' = [o \in DOMAIN bound \ {k} |-> bound[o]]
    /\ UNCHANGED <<row, importing>>

\* Slip: the old key is deleted first, and its bindings with it.
RotateDeletingFirst(old, new) ==
    /\ old \in DOMAIN enabled /\ new \notin DOMAIN enabled
    /\ LET After(table, v) == [k \in (DOMAIN table \ {old}) \cup {new} |->
                                  IF k = new THEN v ELSE table[k]]
       IN enabled' = After(enabled, enabled[old]) /\ bound' = After(bound, <<>>)
    /\ UNCHANGED <<row, importing>>

RotateGatewayAPIKey(old, new) ==
    /\ old \in DOMAIN enabled /\ new \notin DOMAIN enabled
    /\ LET After(table) == [k \in (DOMAIN table \ {old}) \cup {new} |->
                               IF k = new THEN table[old] ELSE table[k]]
       IN enabled' = After(enabled) /\ bound' = After(bound)
    /\ UNCHANGED <<row, importing>>

UpdateGatewayKeyMeta(k, on) ==
    /\ k \in DOMAIN enabled
    /\ enabled' = [enabled EXCEPT ![k] = on]
    /\ UNCHANGED <<bound, row, importing>>

-----------------------------------------------------------------------------
(* Accounts *)

NextPosition(positions) == Max(Range(positions) \cup {-1}) + 1

\* INSERT ... ON CONFLICT (identifier) DO UPDATE: the device stays unless a
\* new one comes along, and only the flag of the discard is taken back.
Upsert(a, device) ==
    IF a \in DOMAIN row
    THEN [row EXCEPT ![a].discarded = FALSE, ![a].device = IF device = 0 THEN @ ELSE device]
    ELSE Insert(row, a, [id |-> Cardinality(DOMAIN row) + 1, discarded |-> FALSE,
                         reason |-> "", until |-> FALSE, device |-> device])

AddAccountToPool(k, a, device) ==
    /\ k \in DOMAIN enabled
    /\ row' = Upsert(a, device)
    /\ bound' = IF a \in DOMAIN bound[k] THEN bound
                ELSE [bound EXCEPT ![k] = Insert(@, a, NextPosition(@))]
    /\ UNCHANGED enabled

\* A CSV is imported row by row, each in a transaction of its own: when the
\* key goes meanwhile, the rows before it stay and the others are errors.
ImportAccountsCSV(k, rows) ==
    /\ k \in DOMAIN enabled /\ importing.rows = <<>>
    /\ importing' = [key |-> k, rows |-> rows]
    /\ UNCHANGED <<enabled, bound, row>>

ImportRow ==
    /\ importing.rows # <<>>
    /\ importing' = [importing EXCEPT !.rows = Tail(@)]
    /\ LET r == Head(importing.rows) IN
       IF importing.key \in DOMAIN enabled
       THEN AddAccountToPool(importing.key, r.account, r.device)
       ELSE UNCHANGED <<enabled, bound, row>>

IsBound(k, a) == k \in DOMAIN bound /\ a \in DOMAIN bound[k]

\* Slip: a ban leaves the end of an earlier mute.
SetAccountPoolStateOnly(k, a, discarded, reason) ==
    row' = IF IsBound(k, a)
           THEN [row EXCEPT ![a].discarded = discarded,
                            ![a].reason = IF discarded THEN reason ELSE ""]
           ELSE row

\* The row of an account bound to k; the discard is that of the account, for
\* all the keys it is bound to.
SetAccountPoolState(k, a, discarded, reason) ==
    row' = IF IsBound(k, a)
           THEN [row EXCEPT ![a].discarded = discarded,
                            ![a].reason = IF discarded THEN reason ELSE "",
                            ![a].until = @ /\ discarded /\ reason = "muted"]
           ELSE row

SetAccountMuted(k, a, known) ==
    row' = IF IsBound(k, a)
           THEN [row EXCEPT ![a].discarded = TRUE, ![a].reason = "muted", ![a].until = known]
           ELSE row

SetDevice(a, device) == row' = [row EXCEPT ![a].device = device]

-----------------------------------------------------------------------------
(* What the administrator does through the pool UI; rows are those of a CSV. *)
(* An account entered by hand may come with a device as well: a CSV of one   *)
(* row does the same.                                                        *)

Edit(rows) ==
    \/ \E k \in Keys : \/ CreateGatewayKey(k) \/ DeleteGatewayKey(k)
                       \/ \E new \in Keys : RotateGatewayAPIKey(k, new)
                       \/ \E on \in BOOLEAN : UpdateGatewayKeyMeta(k, on)
                       \/ ImportAccountsCSV(k, rows)
    \/ \E k \in Keys, a \in Accounts : AddAccountToPool(k, a, 0) /\ UNCHANGED importing
    \/ \E k \in DOMAIN bound : \E a \in DOMAIN bound[k] :
          /\ \/ \E discarded \in BOOLEAN : SetAccountPoolState(k, a, discarded, "manual")
             \/ SetDevice(a, 0)
          /\ UNCHANGED <<enabled, bound, importing>>
=============================================================================
