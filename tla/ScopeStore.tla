------------------------------ MODULE ScopeStore ------------------------------
(***************************************************************************)
(* The cf_scope table of scope_store.cpp for one application: one row for  *)
(* the APPLICATION scope and one for each SESSION scope.  Every operator   *)
(* below is one SQLite statement (or one BEGIN IMMEDIATE transaction), so  *)
(* a module that uses it applies it in one step.  The JSON of a row is     *)
(* abstracted to whether it holds anything onApplicationStart has set      *)
(* ("data"), its cfc_path to whether it names an Application.cfc ("cfc").  *)
(***************************************************************************)
EXTENDS Naturals

CONSTANTS App,      \* the key of the APPLICATION row
          Sids,     \* the session ids (CFID:CFTOKEN pairs) that can be minted
          Absent    \* no row under a key

ASSUME KeyAssumption == App \notin Sids

Keys == Sids \cup {App}

Row == [exp : Nat, data : BOOLEAN, cfc : BOOLEAN]

ASSUME AbsentAssumption == Absent \notin Row

Table == [Keys -> Row \cup {Absent}]

(***************************************************************************)
(* A timeout is a double of seconds in the code, truncated when it is      *)
(* added to the clock; here it is a number of milliseconds.  The absolute  *)
(* expiry 0 means "never".                                                 *)
(***************************************************************************)
ExpiresAt(t, timeoutMs) == IF timeoutMs > 0 THEN t + timeoutMs \div 1000 ELSE 0

\* The mutated form: a row is still live in the second it expires.
LiveInclusive(row, t) == row # Absent /\ (row.exp = 0 \/ row.exp >= t)

Live(row, t) == row # Absent /\ (row.exp = 0 \/ row.exp > t)
Due(row, t) == row # Absent /\ row.exp > 0 /\ row.exp <= t

\* touchRow: the conditional UPDATE; its result is Live(rows[k], t).
Touch(rows, k, exp, t) ==
    IF Live(rows[k], t) THEN [rows EXCEPT ![k] = [@ EXCEPT !.exp = exp]] ELSE rows

\* loadRow when no live row was found: the lazy purge of an expired one.
PurgeDue(rows, k, t) == IF Due(rows[k], t) THEN [rows EXCEPT ![k] = Absent] ELSE rows

\* storeRow: the upsert; an empty cfc_path keeps the one the row has.
Store(rows, k, exp, data, cfc) ==
    [rows EXCEPT ![k] = [exp |-> exp, data |-> data,
                         cfc |-> cfc \/ (@ # Absent /\ @.cfc)]]

\* removeSession, and removeApplication with every key.
Delete(rows, ks) == [k \in Keys |-> IF k \in ks THEN Absent ELSE rows[k]]

\* claimExpired: the records it copies, which Delete then removes.
DueKeys(rows, t) == {k \in Keys : Due(rows[k], t)}
===============================================================================
