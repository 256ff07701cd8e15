------------------------------ MODULE AccountCache ------------------------------
(***************************************************************************)
(* The cache of accounts (storage.cpp) over the table of accounts (db.cpp), *)
(* for one account name: its id, from which getInitData derives a value    *)
(* for the client, and its exemption.  Each SQL statement and each         *)
(* operation of the cache is a step of a request; statements may fail, and *)
(* may have been executed when they do.                                    *)
(***************************************************************************)
EXTENDS Naturals

CONSTANTS Thread, MaxId, MaxFaults, MaxCrashes

AccountAssumption == {MaxId, MaxFaults, MaxCrashes} \subseteq Nat

VARIABLES
  row,     \* the account's row; id 0 when there is none
  cache,   \* g_account_cache's entry, id 0 when there is none
  ids,     \* the ids given out by the table
  pc, val, \* a request: its next step, the row it read or the flag it will write
  faults, crashes,
  passed,  \* history: requests whose row was changed after they read it
  late     \* history: the entry was put by one of them, or its row was changed
           \* by a statement that was reported as failed

vars == <<row, cache, ids, pc, val, faults, crashes, passed, late>>

Nobody == [id |-> 0, exempt |-> FALSE]

Init ==
  /\ row = Nobody /\ cache = Nobody /\ ids = 0
  /\ pc = [t \in Thread |-> "idle"] /\ val = [t \in Thread |-> Nobody]
  /\ faults = 0 /\ crashes = 0 /\ passed = {} /\ late = FALSE

Go(t, from, to) == pc[t] = from /\ pc' = [pc EXCEPT ![t] = to]
End(t) == val' = [val EXCEPT ![t] = Nobody] /\ passed' = passed \ {t}
Readers == {t \in Thread : pc[t] = "put"}
Exists == row.id # 0

-----------------------------------------------------------------------------
(* Faulty variants of the operators below, which a property must find.     *)

\* The account leaves the table, and stays in the cache.
CachedDelete(t) ==
  /\ Go(t, "delete", "idle") /\ row' = Nobody /\ End(t)
  /\ UNCHANGED <<cache, ids, faults, crashes, late>>

-----------------------------------------------------------------------------
(* ensure_account.                                                         *)

\* Only when the cache has no entry the database is asked.
Ensure(t) ==
  /\ cache = Nobody /\ Go(t, "idle", "find")
  /\ UNCHANGED <<row, cache, ids, val, faults, crashes, passed, late>>

Find(t) ==
  /\ Go(t, "find", IF Exists THEN "put" ELSE "insert")
  /\ val' = [val EXCEPT ![t] = row]
  /\ UNCHANGED <<row, cache, ids, faults, crashes, passed, late>>

NewRow == ids < MaxId /\ ids' = ids + 1 /\ row' = [id |-> ids', exempt |-> FALSE]

\* The unique key refuses a second row; both ways the row is read again.
Insert(t) ==
  /\ Go(t, "insert", "refind")
  /\ IF Exists THEN UNCHANGED <<row, ids>> ELSE NewRow
  /\ UNCHANGED <<cache, val, faults, crashes, passed, late>>

\* Without a row by now the request fails.
Refind(t) ==
  /\ Go(t, "refind", IF Exists THEN "put" ELSE "idle")
  /\ val' = [val EXCEPT ![t] = row]
  /\ UNCHANGED <<row, cache, ids, faults, crashes, passed, late>>

Put(t) ==
  /\ Go(t, "put", "idle") /\ End(t)
  /\ cache' = val[t] /\ late' = (t \in passed)
  /\ UNCHANGED <<row, ids, faults, crashes>>

\* A login or registration enters the account (Session).
Register ==
  /\ ~Exists /\ NewRow
  /\ UNCHANGED <<cache, pc, val, faults, crashes, passed, late>>

-----------------------------------------------------------------------------
(* set_bl_exempt, delete_account.                                          *)

SetExempt(t, f) ==
  /\ Exists /\ Go(t, "idle", "update")
  /\ val' = [val EXCEPT ![t] = [id |-> 0, exempt |-> f]]
  /\ UNCHANGED <<row, cache, ids, faults, crashes, passed, late>>

\* What the statement a request is at does to the row.
Changed(t) ==
  IF pc[t] = "delete" THEN Nobody
  ELSE IF Exists THEN [row EXCEPT !.exempt = val[t].exempt] ELSE row

Update(t) ==
  /\ Go(t, "update", "erase") /\ row' = Changed(t)
  /\ passed' = IF row' # row THEN passed \cup Readers ELSE passed
  /\ UNCHANGED <<cache, ids, val, faults, crashes, late>>

DeleteAccount(t) ==
  /\ Go(t, "idle", "delete")
  /\ UNCHANGED <<row, cache, ids, val, faults, crashes, passed, late>>

\* If there was no row the entry is left alone.
Delete(t) ==
  /\ Go(t, "delete", IF Exists THEN "erase" ELSE "idle") /\ row' = Changed(t)
  /\ passed' = IF Exists THEN passed \cup Readers ELSE passed
  /\ UNCHANGED <<cache, ids, val, faults, crashes, late>>

Erase(t) ==
  /\ Go(t, "erase", "idle") /\ End(t) /\ cache' = Nobody /\ late' = FALSE
  /\ UNCHANGED <<row, ids, faults, crashes>>

-----------------------------------------------------------------------------
\* A statement fails, executed or not, and the request with it.
DbError(t) ==
  /\ faults < MaxFaults /\ faults' = faults + 1
  /\ \E where \in {"find", "insert", "refind", "update", "delete"} : Go(t, where, "idle")
  /\ val' = [val EXCEPT ![t] = Nobody]
  /\ \/ UNCHANGED <<row, ids, passed, late>>
     \/ /\ pc[t] = "insert" /\ ~Exists /\ NewRow /\ UNCHANGED <<passed, late>>
     \/ /\ pc[t] \in {"update", "delete"} /\ row' = Changed(t) /\ ids' = ids
        /\ passed' = passed \cup Readers /\ late' = (cache # Nobody)
  /\ UNCHANGED <<cache, crashes>>

\* The entry is ten minutes old, or another one needs its place.
Expire ==
  /\ cache # Nobody /\ cache' = Nobody /\ late' = FALSE
  /\ UNCHANGED <<row, ids, pc, val, faults, crashes, passed>>

\* The server stops, and is started again.
Restart ==
  /\ crashes < MaxCrashes /\ crashes' = crashes + 1
  /\ cache' = Nobody /\ late' = FALSE /\ passed' = {}
  /\ pc' = [t \in Thread |-> "idle"] /\ val' = [t \in Thread |-> Nobody]
  /\ UNCHANGED <<row, ids, faults>>

Serve(t) ==
  \/ Ensure(t) \/ Find(t) \/ Insert(t) \/ Refind(t) \/ Put(t)
  \/ \E f \in BOOLEAN : SetExempt(t, f)
  \/ Update(t) \/ DeleteAccount(t) \/ Delete(t) \/ Erase(t) \/ DbError(t)

Next == (\E t \in Thread : Serve(t)) \/ Register \/ Expire \/ Restart

Spec == Init /\ [][Next]_vars

-----------------------------------------------------------------------------
(* The variables keep their types, and what is put into the cache is an    *)
(* account.                                                                *)
Account == [id : 0..MaxId, exempt : BOOLEAN]
TypeOK ==
  /\ {row, cache} \subseteq Account /\ ids \in 0..MaxId /\ row.id <= ids
  /\ pc \in [Thread -> {"idle", "find", "insert", "refind", "put", "update", "delete", "erase"}]
  /\ val \in [Thread -> Account] /\ passed \subseteq Thread /\ late \in BOOLEAN
  /\ \A t \in Readers : val[t].id # 0

(* An account in the cache is the one in the table, while no request is    *)
(* about to erase it, unless it was read before a change of the row and    *)
(* put after it, or the change was reported as failed (ensure_account,     *)
(* set_bl_exempt, delete_account).                                         *)
CacheFollowsRow ==
  cache # Nobody /\ ~late => cache = row \/ \E t \in Thread : pc[t] = "erase"
=============================================================================
