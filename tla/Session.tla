------------------------------ MODULE Session ------------------------------
(***************************************************************************)
(* Accounts, passwords and login sessions: the handlers of the gateway's   *)
(* threads (handlers.cpp), auth.cpp, session.cpp over TtlCache, and the    *)
(* tables accounts and sessions (db.cpp).  Every database call and every   *)
(* cache call is one step; calls of different requests interleave.         *)
(*                                                                         *)
(* A password stands for its salted hash; a token for its md5.             *)
(***************************************************************************)
EXTENDS Naturals, FiniteSets

CONSTANTS Acc, Token, Psw,
          Short,     \* the passwords shorter than min_password_len
          Worker,    \* gateway threads
          None,      \* no row, no token, no account
          NoPsw,     \* an account row without a password
          CacheCap,  \* g_session_cache's max_entries
          MaxFaults  \* database errors and restarts in one behaviour

SessionAssumption ==
  /\ Short \subseteq Psw /\ None \notin Acc \cup Token \cup Psw
  /\ NoPsw \notin Psw \cup {None}
  /\ CacheCap \in Nat \ {0} /\ MaxFaults \in Nat

VARIABLES
  account,  \* table accounts: the password of a row
  rows,     \* table sessions: the account of a token
  expired,  \* tokens past their expires_at
  cache,    \* g_session_cache
  pc, kind, \* the request a worker runs and where it is
  wacc, old, new, tok, \* its arguments; tok is also the token it issues
  ans,      \* what session_validate returned
  unread,   \* history: requests of which a row could not be read
  faults,
  owner, under, \* history: for whom a token was made, and on which password
  ended,    \* history: tokens that were revoked, deleted or have expired
  stale,    \* history: logins overtaken by a revocation after their check
  excused   \* history: tokens a revocation could not reach

tables  == <<account, rows>>
request == <<kind, wacc, old, new, unread>>
history == <<owner, under, ended, stale, excused>>
vars == <<tables, expired, cache, pc, request, tok, ans, faults, history>>

Init ==
  /\ account = [a \in Acc |-> None]
  /\ rows = [t \in Token |-> None]
  /\ expired = {} /\ faults = 0
  /\ cache = [t \in Token |-> None]
  /\ pc = [w \in Worker |-> "idle"]
  /\ kind = [w \in Worker |-> "none"]
  /\ wacc = [w \in Worker |-> None]
  /\ old = [w \in Worker |-> None] /\ new = [w \in Worker |-> None]
  /\ tok = [w \in Worker |-> None] /\ ans = [w \in Worker |-> None]
  /\ owner = [t \in Token |-> None] /\ under = [t \in Token |-> None]
  /\ ended = {} /\ excused = {} /\ unread = {}
  /\ stale = [w \in Worker |-> FALSE]

Goto(w, l) == pc' = [pc EXCEPT ![w] = l]

-----------------------------------------------------------------------------
(* Faulty variants of the actions below, which a property must find.       *)

\* accounts without its unique key: the second registration overwrites.
FaultyCreateInsert(w) ==
  /\ pc[w] = "createInsert"
  /\ Goto(w, "createRead")
  /\ account' = [account EXCEPT ![wacc[w]] = old[w]]
  /\ UNCHANGED <<rows, expired, cache, request, tok, ans, faults, history>>

\* The sweep of expired rows takes every row of the account.
FaultyIssueInsert(w, t) ==
  /\ pc[w] = "issue" /\ owner[t] = None
  /\ rows' = [u \in Token |-> IF u = t THEN wacc[w] ELSE IF rows[u] = wacc[w] THEN None ELSE rows[u]]
  /\ tok' = [tok EXCEPT ![w] = t]
  /\ owner' = [owner EXCEPT ![t] = wacc[w]]
  /\ under' = [under EXCEPT ![t] = IF kind[w] = "change" THEN new[w] ELSE old[w]]
  /\ excused' = IF stale[w] THEN excused \cup {t} ELSE excused
  /\ Goto(w, "put")
  /\ UNCHANGED <<account, expired, cache, request, ans, faults, ended, stale>>

\* A revocation that erases the account's name from a cache keyed by token.
ErasingClearCache(w) ==
  /\ pc[w] = "clear"
  /\ Goto(w, IF kind[w] = "change" THEN "issue" ELSE "done")
  /\ UNCHANGED <<tables, expired, cache, request, tok, ans, faults, history>>

-----------------------------------------------------------------------------
\* Tokens of account a.
Of(a) == {t \in Token : owner[t] = a}

-----------------------------------------------------------------------------
(* Requests arrive.                                                        *)

Start(w, k, a, o, n, t, l) ==
  /\ pc[w] \in {"idle", "done"}
  /\ kind' = [kind EXCEPT ![w] = k]
  /\ wacc' = [wacc EXCEPT ![w] = a]
  /\ old' = [old EXCEPT ![w] = o]
  /\ new' = [new EXCEPT ![w] = n]
  /\ tok' = [tok EXCEPT ![w] = t]
  /\ ans' = [ans EXCEPT ![w] = None]
  /\ stale' = [stale EXCEPT ![w] = FALSE] /\ unread' = unread \ {w}
  /\ Goto(w, l)
  /\ UNCHANGED <<tables, expired, cache, faults, owner, under, ended, excused>>

\* A bound of the model: Token holds a fresh token for every request that issues.
TokensLeft ==
  Cardinality({t \in Token : owner[t] = None}) >
    Cardinality({w \in Worker : kind[w] \in {"login", "change"} /\ pc[w] \notin {"idle", "done", "put"}})

\* login, register, regist and mail all run handle_login's code.
Login(w, a, p) == TokensLeft /\ Start(w, "login", a, p, None, None, "find")
ChangePassword(w, a, o, n) == TokensLeft /\ Start(w, "change", a, o, n, None, "check")
AdminSetPassword(w, a, n) == Start(w, "admin", a, None, n, None, "setFind")
DeleteAccount(w, a) == Start(w, "delete", a, None, None, None, "delSessions")
\* A validation is asked for by the push hub's auth frame.
Validate(w, t) ==
  /\ owner[t] # None
  /\ Start(w, "validate", None, None, None, t, "cacheGet")

-----------------------------------------------------------------------------
(* auth_login_*, register_account, login_existing.                         *)

Local == <<tables, expired, cache, request, tok, ans, faults, history>>

FindAccount(w) ==
  /\ pc[w] = "find"
  /\ Goto(w, IF account[wacc[w]] = None THEN "regFind" ELSE "check")
  /\ UNCHANGED Local

\* login_existing: for a login the password in old, for a change the old one.
CheckPassword(w) ==
  /\ pc[w] = "check"
  /\ LET ok == account[wacc[w]] = old[w] /\ old[w] \notin Short IN
     Goto(w, IF ~ok THEN "done"
             ELSE IF kind[w] = "login" THEN "issue"
             ELSE IF old[w] = new[w] THEN "done" ELSE "setFind")
  /\ UNCHANGED Local

RegisterFind(w) ==
  /\ pc[w] = "regFind"
  /\ Goto(w, IF account[wacc[w]] # None \/ old[w] \in Short THEN "done" ELSE "createFind")
  /\ UNCHANGED Local

CreateFind(w) ==
  /\ pc[w] = "createFind"
  /\ Goto(w, IF account[wacc[w]] # None THEN "done" ELSE "createInsert")
  /\ UNCHANGED Local

\* The unique key on acc answers a second INSERT with a duplicate entry.
CreateInsert(w) ==
  /\ pc[w] = "createInsert"
  /\ IF account[wacc[w]] # None
     THEN Goto(w, "done") /\ UNCHANGED account
     ELSE Goto(w, "createRead") /\ account' = [account EXCEPT ![wacc[w]] = old[w]]
  /\ UNCHANGED <<rows, expired, cache, request, tok, ans, faults, history>>

\* db_create_account returns what it finds; a row deleted meanwhile is "exists".
CreateRead(w) ==
  /\ pc[w] = "createRead"
  /\ Goto(w, IF account[wacc[w]] = None THEN "done" ELSE "issue")
  /\ UNCHANGED Local

-----------------------------------------------------------------------------
(* session_issue and session_validate.                                     *)

\* db_insert_session: sweep the expired rows, insert the new one.
IssueInsert(w, t) ==
  /\ pc[w] = "issue" /\ owner[t] = None
  /\ rows' = [u \in Token |-> IF u = t THEN wacc[w] ELSE IF u \in expired THEN None ELSE rows[u]]
  /\ tok' = [tok EXCEPT ![w] = t]
  /\ owner' = [owner EXCEPT ![t] = wacc[w]]
  /\ under' = [under EXCEPT ![t] = IF kind[w] = "change" THEN new[w] ELSE old[w]]
  /\ excused' = IF stale[w] THEN excused \cup {t} ELSE excused
  /\ Goto(w, "put")
  /\ UNCHANGED <<account, expired, cache, request, ans, faults, ended, stale>>

\* TtlCache::put evicts the first key, whichever that is, when it is full.
Put(t, a) ==
  LET held == {u \in Token : cache[u] # None} IN
  IF t \notin held /\ Cardinality(held) >= CacheCap
  THEN \E u \in held : cache' = [cache EXCEPT ![u] = None, ![t] = a]
  ELSE cache' = [cache EXCEPT ![t] = a]

IssuePut(w) ==
  /\ pc[w] = "put"
  /\ Put(tok[w], wacc[w])
  /\ Goto(w, "done")
  /\ UNCHANGED <<tables, expired, request, tok, ans, faults, history>>

CacheGet(w) ==
  LET hit == cache[tok[w]] IN
  /\ pc[w] = "cacheGet"
  /\ ans' = [ans EXCEPT ![w] = hit]
  /\ Goto(w, IF hit # None THEN "done" ELSE "findSession")
  /\ UNCHANGED <<tables, expired, cache, request, tok, faults, history>>

FindSession(w) ==
  LET found == tok[w] \notin expired /\ rows[tok[w]] # None IN
  /\ pc[w] = "findSession"
  /\ wacc' = [wacc EXCEPT ![w] = IF found THEN rows[tok[w]] ELSE None]
  /\ Goto(w, IF found THEN "remaining" ELSE "done")
  /\ UNCHANGED <<tables, expired, cache, kind, old, new, unread, tok, ans, faults, history>>

\* remaining <= 0: the second reading of the clock.
Remaining(w) ==
  /\ pc[w] = "remaining"
  /\ Goto(w, IF tok[w] \in expired THEN "done" ELSE "vput")
  /\ UNCHANGED Local

ValidatePut(w) ==
  /\ pc[w] = "vput"
  /\ Put(tok[w], wacc[w])
  /\ ans' = [ans EXCEPT ![w] = wacc[w]]
  /\ Goto(w, "done")
  /\ UNCHANGED <<tables, expired, request, tok, faults, history>>

\* Tokens of the requests that are at one of the steps S.
InHand(S) == {tok[v] : v \in {u \in Worker : pc[u] \in S}}

\* Row and cache entry of a token reach their end together.
Expire(t) ==
  /\ rows[t] # None /\ t \notin expired
  /\ \A w \in Worker : pc[w] = "put" => tok[w] # t
  /\ expired' = expired \cup {t}
  /\ ended' = ended \cup {t}
  /\ excused' = excused \cup ({t} \cap InHand({"vput"}))
  /\ cache' = [cache EXCEPT ![t] = None]
  /\ UNCHANGED <<tables, pc, request, tok, ans, faults, owner, under, stale>>

\* An entry that was put late lives on for what remained when it was read.
LateEntryExpires(t) ==
  /\ t \in expired /\ cache[t] # None
  /\ cache' = [cache EXCEPT ![t] = None]
  /\ UNCHANGED <<tables, expired, pc, request, tok, ans, faults, history>>

-----------------------------------------------------------------------------
(* auth_set_password, then session_revoke_account.                         *)

AfterFind(w) == IF new[w] \in Short THEN "done" ELSE "setRow"

SetFind(w) ==
  /\ pc[w] = "setFind"
  /\ Goto(w, IF account[wacc[w]] = None THEN "ensure" ELSE AfterFind(w))
  /\ UNCHANGED Local

\* db_ensure_account: the account exists before the password's length is looked at.
EnsureInsert(w) ==
  /\ pc[w] = "ensure"
  /\ account' = [account EXCEPT ![wacc[w]] = IF @ = None THEN NoPsw ELSE @]
  /\ Goto(w, "ensureRead")
  /\ UNCHANGED <<rows, expired, cache, request, tok, ans, faults, history>>

EnsureRead(w) ==
  /\ pc[w] = "ensureRead"
  /\ Goto(w, IF account[wacc[w]] = None THEN "done" ELSE AfterFind(w))
  /\ UNCHANGED Local

\* UPDATE accounts; no row affected is "save failed".
SetRow(w) ==
  /\ pc[w] = "setRow"
  /\ account' = [account EXCEPT ![wacc[w]] = IF @ = None THEN None ELSE new[w]]
  /\ Goto(w, IF account[wacc[w]] = None THEN "done" ELSE "revoke")
  /\ UNCHANGED <<rows, expired, cache, request, tok, ans, faults, history>>

\* The password a request shows for the session it is going to issue.
Granted(w) == IF kind[w] = "change" THEN new[w] ELSE old[w]

\* Requests past their password check: a DELETE of the rows misses the row
\* they are going to insert.  Those that showed another password are overtaken.
PastCheck(v, a) ==
  /\ wacc[v] = a
  /\ pc[v] \in {"createRead", "issue"} \/ (kind[v] = "change" /\ pc[v] \in {"revoke", "clear"})

Overtake(a) ==
  stale' = [v \in Worker |-> stale[v] \/ (PastCheck(v, a) /\ Granted(v) # account'[a])]

\* db_revoke_sessions: the account's rows go.
DeleteRows(a) ==
  /\ rows' = [t \in Token |-> IF rows[t] = a THEN None ELSE rows[t]]
  /\ ended' = ended \cup {t \in Token : rows[t] = a}

RevokeRows(w) ==
  /\ pc[w] = "revoke"
  /\ DeleteRows(wacc[w])
  /\ Goto(w, "clear")
  /\ UNCHANGED <<account, expired, cache, request, tok, ans, faults, owner, under, excused>>
  /\ Overtake(wacc[w])

\* g_session_cache.clear(): everybody's entries go.
ClearCache(w) ==
  /\ pc[w] = "clear"
  /\ cache' = [t \in Token |-> None]
  /\ excused' = excused \cup (ended \cap InHand({"put", "remaining", "vput"}))
  /\ Goto(w, IF kind[w] = "change" THEN "issue" ELSE "done")
  /\ UNCHANGED <<tables, expired, request, tok, ans, faults, owner, under, ended, stale>>

-----------------------------------------------------------------------------
(* storage::delete_account: two statements, and no word to the cache.      *)

DeleteSessions(w) ==
  /\ pc[w] = "delSessions"
  /\ DeleteRows(wacc[w])
  /\ excused' = excused \cup Of(wacc[w])
  /\ Goto(w, "delAccount")
  /\ UNCHANGED <<account, expired, cache, request, tok, ans, faults, owner, under, stale>>

DeleteRow(w) ==
  /\ pc[w] = "delAccount"
  /\ account' = [account EXCEPT ![wacc[w]] = None]
  /\ excused' = excused \cup Of(wacc[w])
  /\ Goto(w, "done")
  /\ UNCHANGED <<rows, expired, cache, request, tok, ans, faults, owner, under, ended>>
  /\ Overtake(wacc[w])

-----------------------------------------------------------------------------
(* Faults.                                                                 *)

DbSteps == {"find", "check", "regFind", "createFind", "createInsert", "createRead",
            "issue", "findSession", "setFind", "ensure", "ensureRead", "setRow",
            "revoke", "delSessions", "delAccount"}

\* exec_sql throws: the request is answered with an error, and what it has
\* done stays.
DbError(w) ==
  /\ pc[w] \in DbSteps /\ faults < MaxFaults
  /\ faults' = faults + 1
  /\ Goto(w, "idle")
  /\ UNCHANGED <<tables, expired, cache, request, tok, ans, owner, under, ended>>
  /\ IF pc[w] = "revoke"
     THEN Overtake(wacc[w]) /\ excused' = excused \cup Of(wacc[w])
     ELSE UNCHANGED <<stale, excused>>

\* mysql_store_result fails after a SELECT: the call answers that there is no
\* such row, and the request goes on as it does then.
NoResult(w) ==
  /\ faults < MaxFaults /\ faults' = faults + 1
  /\ \/ pc[w] = "find" /\ Goto(w, "regFind")
     \/ pc[w] = "regFind" /\ Goto(w, IF old[w] \in Short THEN "done" ELSE "createFind")
     \/ pc[w] = "createFind" /\ Goto(w, "createInsert")
     \/ pc[w] = "setFind" /\ Goto(w, "ensure")
     \/ pc[w] \in {"check", "createRead", "ensureRead", "findSession"} /\ Goto(w, "done")
  /\ unread' = unread \cup {w}
  /\ UNCHANGED <<tables, expired, cache, kind, wacc, old, new, tok, ans, history>>

\* The DELETE of a revocation, or the INSERT of a session, was executed and
\* its answer is lost: the request ends before it reaches the cache.
LostAnswer(w) ==
  /\ pc[w] \in {"clear", "put"} /\ faults < MaxFaults
  /\ faults' = faults + 1
  /\ excused' = IF pc[w] = "clear" THEN excused \cup Of(wacc[w]) ELSE excused
  /\ Goto(w, "idle")
  /\ UNCHANGED <<tables, expired, cache, request, tok, ans, owner, under, ended, stale>>

\* The process dies and starts again: requests and cache are gone.
Restart ==
  /\ faults < MaxFaults
  /\ faults' = faults + 1
  /\ cache' = [t \in Token |-> None]
  /\ pc' = [w \in Worker |-> "idle"]
  /\ excused' = excused \cup {t \in Token : \E w \in Worker : pc[w] = "revoke" /\ wacc[w] = owner[t]}
  /\ UNCHANGED <<tables, expired, request, tok, ans, owner, under, ended, stale>>

-----------------------------------------------------------------------------
LoginSteps(w) ==
  \/ FindAccount(w) \/ CheckPassword(w) \/ RegisterFind(w) \/ CreateFind(w)
  \/ CreateInsert(w) \/ CreateRead(w) \/ IssuePut(w) \/ \E t \in Token : IssueInsert(w, t)

ValidateSteps(w) == CacheGet(w) \/ FindSession(w) \/ Remaining(w) \/ ValidatePut(w)

PasswordSteps(w) ==
  \/ SetFind(w) \/ EnsureInsert(w) \/ EnsureRead(w) \/ SetRow(w)
  \/ RevokeRows(w) \/ ClearCache(w)

Arrive(w) ==
  \/ \E a \in Acc, p \in Psw : Login(w, a, p) \/ AdminSetPassword(w, a, p)
  \/ \E a \in Acc, p, q \in Psw : ChangePassword(w, a, p, q)
  \/ \E a \in Acc : DeleteAccount(w, a)
  \/ \E t \in Token : Validate(w, t)

Next ==
  \/ \E w \in Worker : \/ Arrive(w) \/ LoginSteps(w) \/ ValidateSteps(w) \/ PasswordSteps(w)
                       \/ DeleteSessions(w) \/ DeleteRow(w) \/ DbError(w)
                       \/ NoResult(w) \/ LostAnswer(w)
  \/ \E t \in Token : Expire(t) \/ LateEntryExpires(t)
  \/ Restart

Spec == Init /\ [][Next]_vars

-----------------------------------------------------------------------------
(* Properties.                                                             *)

Steps == DbSteps \cup {"idle", "done", "put", "cacheGet", "remaining", "vput", "clear"}

TypeOK ==
  /\ account \in [Acc -> Psw \cup {NoPsw, None}]
  /\ rows \in [Token -> Acc \cup {None}] /\ cache \in [Token -> Acc \cup {None}]
  /\ expired \subseteq Token /\ ended \subseteq Token /\ excused \subseteq Token
  /\ pc \in [Worker -> Steps]
  /\ kind \in [Worker -> {"none", "login", "change", "admin", "delete", "validate"}]
  /\ wacc \in [Worker -> Acc \cup {None}] /\ ans \in [Worker -> Acc \cup {None}]
  /\ old \in [Worker -> Psw \cup {None}] /\ new \in [Worker -> Psw \cup {None}]
  /\ tok \in [Worker -> Token \cup {None}]
  /\ faults \in 0..MaxFaults /\ unread \subseteq Worker
  /\ owner \in [Token -> Acc \cup {None}] /\ under \in [Token -> Psw \cup {None}]
  /\ stale \in [Worker -> BOOLEAN]
  /\ \A t \in Token : owner[t] = None <=> under[t] = None

\* A token the cache knows has a live row of the same account.  The exceptions
\* are the windows of the code: between the DELETE of a revocation and its
\* clear(), a row read before and put after (or put after its expiry), and an
\* account deletion or a failed revocation, which never reach the cache.
CacheFollowsRows ==
  \A t \in Token : cache[t] # None =>
    /\ cache[t] = owner[t]
    /\ \/ rows[t] = owner[t] /\ t \notin expired
       \/ t \in excused
       \/ \E w \in Worker : pc[w] = "clear" /\ wacc[w] = owner[t]

\* A session was granted on the password its account has now.  The exceptions:
\* a revocation on its way, one that failed, a login it overtook, a deletion.
\* Two registrations of one name, and a change that meets a login, are in it.
RowsFollowPassword ==
  \A t \in Token : rows[t] # None /\ t \notin expired =>
    \/ under[t] = account[rows[t]]
    \/ t \in excused
    \/ \E w \in Worker : pc[w] = "revoke" /\ wacc[w] = rows[t]

\* session_validate names the account a token was made for, and refuses none
\* that has not been revoked, deleted or expired: through evictions of the
\* cache, other people's clear() and restarts of the process.  The exception:
\* the database had no result to give, which db_find_session takes for no row.
ValidateAnswers ==
  \A w \in Worker : kind[w] = "validate" /\ pc[w] = "done" =>
    IF ans[w] = None THEN tok[w] \in ended \/ w \in unread ELSE ans[w] = owner[tok[w]]

=============================================================================
