------------------------------ MODULE Players_proofs ------------------------------
(* What holds of the sessions and of the maps of players.                  *)
(*                                                                         *)
(* Sessions: a worker that is about to put a token into the cache, or to   *)
(* issue a session, may have been overtaken since it looked.  Then another *)
(* worker still has to clear the cache (InHandFollows) or to delete the    *)
(* rows (GrantFollows), or the overtaken one was noted, in excused or in   *)
(* stale.  With the ownership of tokens and the arguments of requests this *)
(* is inductive: LoginInv.                                                 *)
(*                                                                         *)
(* Maps: the invariant of PushMap_proofs, of whichever players move.       *)
EXTENDS Players, TLAPS

\* What a worker knows at each of its steps.
Registers == {"find", "regFind", "createFind", "createInsert", "createRead"}
Changes   == {"setFind", "ensure", "ensureRead", "setRow", "revoke", "clear"}
Validates == {"cacheGet", "findSession", "remaining", "vput"}

Shown(w) ==
  /\ loginPc[w] \in Registers => kind[w] = "login"
  /\ loginPc[w] \in {"check", "issue", "put"} => kind[w] \in {"login", "change"}
  /\ loginPc[w] \in Changes => kind[w] \in {"change", "admin"}
  /\ loginPc[w] \in {"delSessions", "delAccount"} => kind[w] = "delete"
  /\ loginPc[w] \in Validates => kind[w] = "validate"
  /\ kind[w] \in {"login", "change", "admin", "delete"} => wacc[w] \in User
  /\ kind[w] \in {"login", "change"} => Logins!Granted(w) \in Psw
  /\ kind[w] = "validate" => tok[w] \in Token /\ owner[tok[w]] # None
  /\ loginPc[w] = "put" => tok[w] \in Token /\ owner[tok[w]] = wacc[w]
  /\ loginPc[w] \in {"remaining", "vput"} => owner[tok[w]] = wacc[w]
Requests == \A w \in Worker : Shown(w)

\* A token has ended when its row is gone or past its end, and not before.
Tokens ==
  \A t \in Token :
    /\ rows[t] \in {None, owner[t]} /\ cache[t] \in {None, owner[t]}
    /\ t \in ended <=> owner[t] # None /\ (rows[t] = None \/ t \in expired)
    /\ t \in expired => owner[t] # None

\* A revocation that has yet to clear the cache, or to delete the rows.
Clearing(a) == \E w \in Worker : loginPc[w] = "clear" /\ wacc[w] = a
Revoking(a) == \E w \in Worker : loginPc[w] = "revoke" /\ wacc[w] = a

\* What a worker is going to put into the cache.
InHandFollows ==
  \A w \in Worker, t \in Token : tok[w] = t =>
    /\ loginPc[w] \in {"put", "vput"} => t \notin ended \/ t \in excused \/ Clearing(owner[t])
    /\ loginPc[w] = "remaining" =>
         t \notin ended \/ t \in expired \/ t \in excused \/ Clearing(owner[t])

\* A session that is going to be issued.
GrantFollows ==
  \A w \in Worker :
    (loginPc[w] \in {"createRead", "issue"} \/ (loginPc[w] = "clear" /\ kind[w] = "change")) =>
      Logins!Granted(w) = account[wacc[w]] \/ stale[w] \/ Revoking(wacc[w])

\* A validation answers the token's account or nothing.
AnswersOwn ==
  /\ \A w \in Worker : kind[w] = "validate" => ans[w] \in {None, owner[tok[w]]}
  /\ Logins!ValidateAnswers

LoginInv ==
  /\ Logins!TypeOK /\ Requests /\ Tokens /\ InHandFollows /\ Logins!CacheFollowsRows
  /\ GrantFollows /\ Logins!RowsFollowPassword /\ AnswersOwn

\* What arrives at a worker.
Arrives(k, a, o, n, t, l) ==
  \/ k = "login" /\ a \in User /\ o \in Psw /\ n = None /\ t = None /\ l = "find"
  \/ k = "admin" /\ a \in User /\ o = None /\ n \in Psw /\ t = None /\ l = "setFind"
  \/ k = "change" /\ a \in User /\ o \in Psw /\ n \in Psw /\ t = None /\ l = "check"
  \/ k = "delete" /\ a \in User /\ o = None /\ n = None /\ t = None /\ l = "delSessions"
  \/ /\ k = "validate" /\ a = None /\ o = None /\ n = None /\ l = "cacheGet"
     /\ t \in Token /\ owner[t] # None

\* Every request starts with its arguments.
LEMMA ArriveStarts ==
  ASSUME NEW w \in Worker, Logins!Arrive(w)
  PROVE  \E k, a, o, n, t, l : Logins!Start(w, k, a, o, n, t, l) /\ Arrives(k, a, o, n, t, l)
<1>1. CASE \E a \in User, p \in Psw : Logins!Login(w, a, p)
  BY <1>1 DEF Logins!Login, Arrives
<1>2. CASE \E a \in User, p \in Psw : Logins!AdminSetPassword(w, a, p)
  BY <1>2 DEF Logins!AdminSetPassword, Arrives
<1>3. CASE \E a \in User, p, q \in Psw : Logins!ChangePassword(w, a, p, q)
  BY <1>3 DEF Logins!ChangePassword, Arrives
<1>4. CASE \E a \in User : Logins!DeleteAccount(w, a)
  BY <1>4 DEF Logins!DeleteAccount, Arrives
<1>5. CASE \E t \in Token : Logins!Validate(w, t)
  BY <1>5 DEF Logins!Validate, Arrives
<1> QED BY <1>1, <1>2, <1>3, <1>4, <1>5 DEF Logins!Arrive

\* A put enters the token; another one may leave the cache.
Puts(t, a) ==
  /\ cache' \in [Token -> User \cup {None}]
  /\ cache'[t] = a /\ \A u \in Token \ {t} : cache'[u] \in {cache[u], None}

\* It does just that.
LEMMA PutPuts ==
  ASSUME Logins!TypeOK, NEW t \in Token, NEW a \in User \cup {None}, Logins!Put(t, a) PROVE Puts(t, a)
BY DEF Logins!TypeOK, Logins!Put, Puts

\* Requests past their check that are overtaken by a revocation are marked.
LEMMA Overtaken ==
  ASSUME Logins!TypeOK, GrantFollows, NEW w \in Worker, loginPc[w] = "revoke",
         Logins!Overtake(wacc[w]), UNCHANGED <<account, kind, oldPsw, new, wacc>>,
         NEW where \in {"clear", "idle"}, loginPc' = [loginPc EXCEPT ![w] = where]
  PROVE  GrantFollows'
<1>1. ASSUME NEW v \in Worker
      PROVE  stale'[v] = (stale[v] \/ (Logins!PastCheck(v, wacc[w]) /\ Logins!Granted(v) # account[wacc[w]]))
  BY DEF Logins!Overtake
<1>2. \A v \in Worker : Logins!Granted(v)' = Logins!Granted(v)
  BY DEF Logins!Granted
<1>3. \A v \in Worker \ {w} : loginPc'[v] = loginPc[v]
  BY DEF Logins!TypeOK
<1>4. ASSUME NEW v \in Worker, ~stale'[v],
             \/ loginPc'[v] \in {"createRead", "issue"}
             \/ loginPc'[v] = "clear" /\ kind[v] = "change"
      PROVE  \/ Logins!Granted(v) = account[wacc[v]]
             \/ \E u \in Worker : loginPc'[u] = "revoke" /\ wacc[u] = wacc[v]
  <2>1. CASE wacc[v] = wacc[w]
    <3>1. Logins!PastCheck(v, wacc[w])
      BY <1>3, <1>4, <2>1 DEF Logins!PastCheck, Logins!TypeOK
    <3> QED BY <1>1, <1>4, <2>1, <3>1
  <2>2. CASE wacc[v] # wacc[w]
    <3>1. loginPc'[v] = loginPc[v] BY <1>3, <2>2
    <3>2. Logins!Granted(v) = account[wacc[v]] \/ Revoking(wacc[v])
      BY <1>1, <1>4, <3>1 DEF GrantFollows
    <3>3. ASSUME NEW u \in Worker, loginPc[u] = "revoke", wacc[u] = wacc[v]
          PROVE  loginPc'[u] = "revoke"
      BY <1>3, <2>2, <3>3
    <3> QED BY <3>2, <3>3 DEF Revoking
  <2> QED BY <2>1, <2>2
<1> QED BY <1>2, <1>4 DEF GrantFollows, Revoking

\* Every step keeps every variable of the sessions in its type.
LEMMA LoginTypeStep == LoginInv /\ [Logins!Next]_(Logins!vars) => Logins!TypeOK'
<1> SUFFICES ASSUME LoginInv, [Logins!Next]_(Logins!vars) PROVE Logins!TypeOK'
  OBVIOUS
<1>0. Logins!TypeOK /\ Requests BY DEF LoginInv
<1> USE <1>0, LoginConstants
    DEF Logins!SessionAssumption, Logins!tables, Logins!request, Logins!history, Logins!Local,
        Logins!Goto,
        Logins!TypeOK, Logins!Steps, Logins!DbSteps, Requests, Shown, Registers, Changes,
        Validates, Logins!Granted
<1>1. ASSUME NEW w \in Worker, Logins!Arrive(w) PROVE Logins!TypeOK'
  <2>1. PICK k, a, o, n, t, l : Logins!Start(w, k, a, o, n, t, l) /\ Arrives(k, a, o, n, t, l)
    BY <1>1, ArriveStarts
  <2> QED BY <2>1 DEF Logins!Start, Arrives
<1>2. ASSUME NEW w \in Worker,
             Logins!LoginSteps(w) \/ Logins!ValidateSteps(w) \/ Logins!PasswordSteps(w)
               \/ Logins!DeleteSessions(w) \/ Logins!DeleteRow(w) \/ Logins!DbError(w)
               \/ Logins!NoResult(w) \/ Logins!LostAnswer(w)
      PROVE  Logins!TypeOK'
  <2>1. CASE Logins!FindAccount(w) BY <2>1 DEF Logins!FindAccount
  <2>2. CASE Logins!CheckPassword(w) BY <2>2 DEF Logins!CheckPassword
  <2>3. CASE Logins!RegisterFind(w) BY <2>3 DEF Logins!RegisterFind
  <2>4. CASE Logins!CreateFind(w) BY <2>4 DEF Logins!CreateFind
  <2>5. CASE Logins!CreateInsert(w) BY <2>5 DEF Logins!CreateInsert
  <2>6. CASE Logins!CreateRead(w) BY <2>6 DEF Logins!CreateRead
  <2>7. CASE Logins!IssuePut(w)
    <3>1. tok[w] \in Token BY <2>7 DEF Logins!IssuePut, LoginInv, Requests, Shown, Validates
    <3>2. Puts(tok[w], wacc[w]) BY <2>7, <3>1, PutPuts DEF LoginInv, Logins!IssuePut
    <3> QED BY <2>7, <3>1, <3>2 DEF Logins!IssuePut, Puts
  <2>8. ASSUME NEW x \in Token, Logins!IssueInsert(w, x) PROVE Logins!TypeOK'
    BY <2>8 DEF Logins!IssueInsert
  <2>9. CASE Logins!CacheGet(w) BY <2>9 DEF Logins!CacheGet
  <2>10. CASE Logins!FindSession(w) BY <2>10 DEF Logins!FindSession
  <2>11. CASE Logins!Remaining(w) BY <2>11 DEF Logins!Remaining
  <2>12. CASE Logins!ValidatePut(w)
    <3>1. tok[w] \in Token BY <2>12 DEF Logins!ValidatePut, LoginInv, Requests, Shown, Validates
    <3>2. Puts(tok[w], wacc[w]) BY <2>12, <3>1, PutPuts DEF LoginInv, Logins!ValidatePut
    <3> QED BY <2>12, <3>1, <3>2 DEF Logins!ValidatePut, Puts
  <2>13. CASE Logins!SetFind(w) BY <2>13 DEF Logins!SetFind, Logins!AfterFind
  <2>14. CASE Logins!EnsureInsert(w) BY <2>14 DEF Logins!EnsureInsert
  <2>15. CASE Logins!EnsureRead(w) BY <2>15 DEF Logins!EnsureRead, Logins!AfterFind
  <2>16. CASE Logins!SetRow(w) BY <2>16 DEF Logins!SetRow
  <2>17. CASE Logins!RevokeRows(w) BY <2>17 DEF Logins!RevokeRows, Logins!DeleteRows,
                                                Logins!Overtake, Logins!PastCheck
  <2>18. CASE Logins!ClearCache(w) BY <2>18 DEF Logins!ClearCache, Logins!InHand
  <2>19. CASE Logins!DeleteSessions(w) BY <2>19 DEF Logins!DeleteSessions, Logins!DeleteRows,
                                                    Logins!Of
  <2>20. CASE Logins!DeleteRow(w) BY <2>20 DEF Logins!DeleteRow, Logins!Overtake,
                                               Logins!PastCheck, Logins!Of
  <2>21. CASE Logins!DbError(w)
    <3>1. stale' \in [Worker -> BOOLEAN] /\ excused' \subseteq Token
      <4>1. CASE UNCHANGED <<stale, excused>> BY <4>1
      <4>2. CASE Logins!Overtake(wacc[w]) /\ excused' = excused \cup Logins!Of(wacc[w])
        BY ONLY Logins!TypeOK, <4>2 DEF Logins!TypeOK, Logins!Overtake, Logins!Of
      <4> QED BY <2>21, <4>1, <4>2 DEF Logins!DbError
    <3>2. loginPc' = [loginPc EXCEPT ![w] = "idle"] /\ faults' \in 0..MaxFaults
      BY <2>21 DEF Logins!DbError
    <3> QED BY <2>21, <3>1, <3>2 DEF Logins!DbError
  <2>22. CASE Logins!LostAnswer(w) BY <2>22 DEF Logins!LostAnswer, Logins!Of
  <2>23. CASE Logins!NoResult(w) BY <2>23 DEF Logins!NoResult
  <2> QED BY <1>2, <2>1, <2>2, <2>3, <2>4, <2>5, <2>6, <2>7, <2>8, <2>9, <2>10, <2>11, <2>12,
             <2>13, <2>14, <2>15, <2>16, <2>17, <2>18, <2>19, <2>20, <2>21, <2>22, <2>23
          DEF Logins!LoginSteps, Logins!ValidateSteps, Logins!PasswordSteps
<1>3. ASSUME NEW x \in Token, Logins!Expire(x) PROVE Logins!TypeOK'
  BY <1>3 DEF Logins!Expire, Logins!InHand
<1>4. ASSUME NEW x \in Token, Logins!LateEntryExpires(x) PROVE Logins!TypeOK'
  BY <1>4 DEF Logins!LateEntryExpires
<1>5. CASE Logins!Restart BY <1>5 DEF Logins!Restart
<1>6. CASE UNCHANGED Logins!vars BY <1>6 DEF Logins!vars
<1> QED BY <1>1, <1>2, <1>3, <1>4, <1>5, <1>6 DEF Logins!Next

\* A request has its arguments, and a token it was issued or shown, at each step.
LEMMA RequestStep == LoginInv /\ [Logins!Next]_(Logins!vars) => Requests'
<1> SUFFICES ASSUME LoginInv, [Logins!Next]_(Logins!vars) PROVE Requests'
  OBVIOUS
<1>0. Logins!TypeOK /\ Requests /\ Tokens BY DEF LoginInv
<1> USE <1>0, LoginConstants
    DEF Logins!SessionAssumption, Logins!tables, Logins!request, Logins!history, Logins!Local,
        Logins!Goto,
        Logins!TypeOK, Tokens, Requests, Shown, Registers, Changes, Validates, Logins!Granted
<1>1. ASSUME NEW w \in Worker, Logins!Arrive(w) PROVE Requests'
  <2>1. PICK k, a, o, n, t, l : Logins!Start(w, k, a, o, n, t, l) /\ Arrives(k, a, o, n, t, l)
    BY <1>1, ArriveStarts
  <2> QED BY <2>1 DEF Logins!Start, Arrives
<1>2. ASSUME NEW w \in Worker,
             Logins!LoginSteps(w) \/ Logins!ValidateSteps(w) \/ Logins!PasswordSteps(w)
               \/ Logins!DeleteSessions(w) \/ Logins!DeleteRow(w) \/ Logins!DbError(w)
               \/ Logins!NoResult(w) \/ Logins!LostAnswer(w)
      PROVE  Requests'
  <2>1. CASE Logins!FindAccount(w) BY <2>1 DEF Logins!FindAccount
  <2>2. CASE Logins!CheckPassword(w) BY <2>2 DEF Logins!CheckPassword
  <2>3. CASE Logins!RegisterFind(w) BY <2>3 DEF Logins!RegisterFind
  <2>4. CASE Logins!CreateFind(w) BY <2>4 DEF Logins!CreateFind
  <2>5. CASE Logins!CreateInsert(w) BY <2>5 DEF Logins!CreateInsert
  <2>6. CASE Logins!CreateRead(w) BY <2>6 DEF Logins!CreateRead
  <2>7. CASE Logins!IssuePut(w)
    <3>1. tok[w] \in Token BY <2>7 DEF Logins!IssuePut, LoginInv, Requests, Shown, Validates
    <3>2. Puts(tok[w], wacc[w]) BY <2>7, <3>1, PutPuts DEF LoginInv, Logins!IssuePut
    <3> QED BY <2>7, <3>1, <3>2 DEF Logins!IssuePut, Puts
  <2>8. ASSUME NEW x \in Token, Logins!IssueInsert(w, x) PROVE Requests'
    BY <2>8 DEF Logins!IssueInsert
  <2>9. CASE Logins!CacheGet(w) BY <2>9 DEF Logins!CacheGet
  <2>10. CASE Logins!FindSession(w) BY <2>10 DEF Logins!FindSession
  <2>11. CASE Logins!Remaining(w) BY <2>11 DEF Logins!Remaining
  <2>12. CASE Logins!ValidatePut(w)
    <3>1. tok[w] \in Token BY <2>12 DEF Logins!ValidatePut, LoginInv, Requests, Shown, Validates
    <3>2. Puts(tok[w], wacc[w]) BY <2>12, <3>1, PutPuts DEF LoginInv, Logins!ValidatePut
    <3> QED BY <2>12, <3>1, <3>2 DEF Logins!ValidatePut, Puts
  <2>13. CASE Logins!SetFind(w) BY <2>13 DEF Logins!SetFind, Logins!AfterFind
  <2>14. CASE Logins!EnsureInsert(w) BY <2>14 DEF Logins!EnsureInsert
  <2>15. CASE Logins!EnsureRead(w) BY <2>15 DEF Logins!EnsureRead, Logins!AfterFind
  <2>16. CASE Logins!SetRow(w) BY <2>16 DEF Logins!SetRow
  <2>17. CASE Logins!RevokeRows(w) BY <2>17 DEF Logins!RevokeRows, Logins!DeleteRows,
                                                Logins!Overtake, Logins!PastCheck
  <2>18. CASE Logins!ClearCache(w) BY <2>18 DEF Logins!ClearCache, Logins!InHand
  <2>19. CASE Logins!DeleteSessions(w) BY <2>19 DEF Logins!DeleteSessions, Logins!DeleteRows,
                                                    Logins!Of
  <2>20. CASE Logins!DeleteRow(w) BY <2>20 DEF Logins!DeleteRow, Logins!Overtake,
                                               Logins!PastCheck, Logins!Of
  <2>21. CASE Logins!DbError(w) BY <2>21 DEF Logins!DbError, Logins!Overtake, Logins!PastCheck,
                                             Logins!Of, Logins!DbSteps
  <2>22. CASE Logins!LostAnswer(w) BY <2>22 DEF Logins!LostAnswer, Logins!Of
  <2>23. CASE Logins!NoResult(w) BY <2>23 DEF Logins!NoResult
  <2> QED BY <1>2, <2>1, <2>2, <2>3, <2>4, <2>5, <2>6, <2>7, <2>8, <2>9, <2>10, <2>11, <2>12,
             <2>13, <2>14, <2>15, <2>16, <2>17, <2>18, <2>19, <2>20, <2>21, <2>22, <2>23
          DEF Logins!LoginSteps, Logins!ValidateSteps, Logins!PasswordSteps
<1>3. ASSUME NEW x \in Token, Logins!Expire(x) PROVE Requests'
  BY <1>3 DEF Logins!Expire, Logins!InHand
<1>4. ASSUME NEW x \in Token, Logins!LateEntryExpires(x) PROVE Requests'
  BY <1>4 DEF Logins!LateEntryExpires
<1>5. CASE Logins!Restart BY <1>5 DEF Logins!Restart
<1>6. CASE UNCHANGED Logins!vars BY <1>6 DEF Logins!vars
<1> QED BY <1>1, <1>2, <1>3, <1>4, <1>5, <1>6 DEF Logins!Next

\* A token keeps its account, and ends once.
LEMMA TokenStep == LoginInv /\ [Logins!Next]_(Logins!vars) => Tokens'
<1> SUFFICES ASSUME LoginInv, [Logins!Next]_(Logins!vars) PROVE Tokens'
  OBVIOUS
<1>0. Logins!TypeOK /\ Requests /\ Tokens BY DEF LoginInv
<1> USE <1>0, LoginConstants
    DEF Logins!SessionAssumption, Logins!tables, Logins!request, Logins!history, Logins!Local,
        Logins!Goto,
        Logins!TypeOK, Requests, Shown, Validates, Tokens
<1>1. ASSUME NEW w \in Worker, Logins!Arrive(w) PROVE Tokens'
  <2>1. PICK k, a, o, n, t, l : Logins!Start(w, k, a, o, n, t, l) /\ Arrives(k, a, o, n, t, l)
    BY <1>1, ArriveStarts
  <2> QED BY <2>1 DEF Logins!Start, Arrives
<1>2. ASSUME NEW w \in Worker,
             Logins!LoginSteps(w) \/ Logins!ValidateSteps(w) \/ Logins!PasswordSteps(w)
               \/ Logins!DeleteSessions(w) \/ Logins!DeleteRow(w) \/ Logins!DbError(w)
               \/ Logins!NoResult(w) \/ Logins!LostAnswer(w)
      PROVE  Tokens'
  <2>1. CASE Logins!FindAccount(w) BY <2>1 DEF Logins!FindAccount
  <2>2. CASE Logins!CheckPassword(w) BY <2>2 DEF Logins!CheckPassword
  <2>3. CASE Logins!RegisterFind(w) BY <2>3 DEF Logins!RegisterFind
  <2>4. CASE Logins!CreateFind(w) BY <2>4 DEF Logins!CreateFind
  <2>5. CASE Logins!CreateInsert(w) BY <2>5 DEF Logins!CreateInsert
  <2>6. CASE Logins!CreateRead(w) BY <2>6 DEF Logins!CreateRead
  <2>7. CASE Logins!IssuePut(w)
    <3>1. tok[w] \in Token BY <2>7 DEF Logins!IssuePut, LoginInv, Requests, Shown, Validates
    <3>2. Puts(tok[w], wacc[w]) BY <2>7, <3>1, PutPuts DEF LoginInv, Logins!IssuePut
    <3> QED BY <2>7, <3>1, <3>2 DEF Logins!IssuePut, Puts
  <2>8. ASSUME NEW x \in Token, Logins!IssueInsert(w, x) PROVE Tokens'
    BY <2>8 DEF Logins!IssueInsert
  <2>9. CASE Logins!CacheGet(w) BY <2>9 DEF Logins!CacheGet
  <2>10. CASE Logins!FindSession(w) BY <2>10 DEF Logins!FindSession
  <2>11. CASE Logins!Remaining(w) BY <2>11 DEF Logins!Remaining
  <2>12. CASE Logins!ValidatePut(w)
    <3>1. tok[w] \in Token BY <2>12 DEF Logins!ValidatePut, LoginInv, Requests, Shown, Validates
    <3>2. Puts(tok[w], wacc[w]) BY <2>12, <3>1, PutPuts DEF LoginInv, Logins!ValidatePut
    <3> QED BY <2>12, <3>1, <3>2 DEF Logins!ValidatePut, Puts
  <2>13. CASE Logins!SetFind(w) BY <2>13 DEF Logins!SetFind, Logins!AfterFind
  <2>14. CASE Logins!EnsureInsert(w) BY <2>14 DEF Logins!EnsureInsert
  <2>15. CASE Logins!EnsureRead(w) BY <2>15 DEF Logins!EnsureRead, Logins!AfterFind
  <2>16. CASE Logins!SetRow(w) BY <2>16 DEF Logins!SetRow
  <2>17. CASE Logins!RevokeRows(w)
    <3>1. /\ rows' = [t \in Token |-> IF rows[t] = wacc[w] THEN None ELSE rows[t]]
          /\ ended' = ended \cup {t \in Token : rows[t] = wacc[w]}
          /\ UNCHANGED <<expired, cache, owner>> /\ wacc[w] \in User
      BY <2>17 DEF Logins!RevokeRows, Logins!DeleteRows, Changes
    <3> QED BY <3>1
  <2>18. CASE Logins!ClearCache(w) BY <2>18 DEF Logins!ClearCache, Logins!InHand
  <2>19. CASE Logins!DeleteSessions(w) BY <2>19 DEF Logins!DeleteSessions, Logins!DeleteRows,
                                                    Logins!Of
  <2>20. CASE Logins!DeleteRow(w) BY <2>20 DEF Logins!DeleteRow, Logins!Overtake,
                                               Logins!PastCheck, Logins!Of
  <2>21. CASE Logins!DbError(w) BY <2>21 DEF Logins!DbError, Logins!Overtake, Logins!PastCheck,
                                             Logins!Of, Logins!DbSteps
  <2>22. CASE Logins!LostAnswer(w) BY <2>22 DEF Logins!LostAnswer, Logins!Of
  <2>23. CASE Logins!NoResult(w) BY <2>23 DEF Logins!NoResult
  <2> QED BY <1>2, <2>1, <2>2, <2>3, <2>4, <2>5, <2>6, <2>7, <2>8, <2>9, <2>10, <2>11, <2>12,
             <2>13, <2>14, <2>15, <2>16, <2>17, <2>18, <2>19, <2>20, <2>21, <2>22, <2>23
          DEF Logins!LoginSteps, Logins!ValidateSteps, Logins!PasswordSteps
<1>3. ASSUME NEW x \in Token, Logins!Expire(x) PROVE Tokens'
  BY <1>3 DEF Logins!Expire, Logins!InHand
<1>4. ASSUME NEW x \in Token, Logins!LateEntryExpires(x) PROVE Tokens'
  BY <1>4 DEF Logins!LateEntryExpires
<1>5. CASE Logins!Restart BY <1>5 DEF Logins!Restart
<1>6. CASE UNCHANGED Logins!vars BY <1>6 DEF Logins!vars
<1> QED BY <1>1, <1>2, <1>3, <1>4, <1>5, <1>6 DEF Logins!Next

\* Whatever is put into the cache late was excused, or a clear() will follow.
LEMMA InHandStep == LoginInv /\ [Logins!Next]_(Logins!vars) => InHandFollows'
<1> SUFFICES ASSUME LoginInv, [Logins!Next]_(Logins!vars) PROVE InHandFollows'
  OBVIOUS
<1>0. Logins!TypeOK /\ Requests /\ Tokens /\ InHandFollows BY DEF LoginInv
<1> USE <1>0, LoginConstants
    DEF Logins!SessionAssumption, Logins!tables, Logins!request, Logins!history, Logins!Local,
        Logins!Goto,
        Logins!TypeOK, Requests, Shown, Validates, Tokens, InHandFollows, Clearing
<1>1. ASSUME NEW w \in Worker, Logins!Arrive(w) PROVE InHandFollows'
  <2>1. PICK k, a, o, n, t, l : Logins!Start(w, k, a, o, n, t, l) /\ Arrives(k, a, o, n, t, l)
    BY <1>1, ArriveStarts
  <2> QED BY <2>1 DEF Logins!Start, Arrives
<1>2. ASSUME NEW w \in Worker,
             Logins!LoginSteps(w) \/ Logins!ValidateSteps(w) \/ Logins!PasswordSteps(w)
               \/ Logins!DeleteSessions(w) \/ Logins!DeleteRow(w) \/ Logins!DbError(w)
               \/ Logins!NoResult(w) \/ Logins!LostAnswer(w)
      PROVE  InHandFollows'
  <2>1. CASE Logins!FindAccount(w) BY <2>1 DEF Logins!FindAccount
  <2>2. CASE Logins!CheckPassword(w) BY <2>2 DEF Logins!CheckPassword
  <2>3. CASE Logins!RegisterFind(w) BY <2>3 DEF Logins!RegisterFind
  <2>4. CASE Logins!CreateFind(w) BY <2>4 DEF Logins!CreateFind
  <2>5. CASE Logins!CreateInsert(w) BY <2>5 DEF Logins!CreateInsert
  <2>6. CASE Logins!CreateRead(w) BY <2>6 DEF Logins!CreateRead
  <2>7. CASE Logins!IssuePut(w)
    <3>1. tok[w] \in Token BY <2>7 DEF Logins!IssuePut, LoginInv, Requests, Shown, Validates
    <3>2. Puts(tok[w], wacc[w]) BY <2>7, <3>1, PutPuts DEF LoginInv, Logins!IssuePut
    <3> QED BY <2>7, <3>1, <3>2 DEF Logins!IssuePut, Puts
  <2>8. ASSUME NEW x \in Token, Logins!IssueInsert(w, x) PROVE InHandFollows'
    BY <2>8 DEF Logins!IssueInsert
  <2>9. CASE Logins!CacheGet(w) BY <2>9 DEF Logins!CacheGet
  <2>10. CASE Logins!FindSession(w) BY <2>10 DEF Logins!FindSession
  <2>11. CASE Logins!Remaining(w) BY <2>11 DEF Logins!Remaining
  <2>12. CASE Logins!ValidatePut(w)
    <3>1. tok[w] \in Token BY <2>12 DEF Logins!ValidatePut, LoginInv, Requests, Shown, Validates
    <3>2. Puts(tok[w], wacc[w]) BY <2>12, <3>1, PutPuts DEF LoginInv, Logins!ValidatePut
    <3> QED BY <2>12, <3>1, <3>2 DEF Logins!ValidatePut, Puts
  <2>13. CASE Logins!SetFind(w) BY <2>13 DEF Logins!SetFind, Logins!AfterFind
  <2>14. CASE Logins!EnsureInsert(w) BY <2>14 DEF Logins!EnsureInsert
  <2>15. CASE Logins!EnsureRead(w) BY <2>15 DEF Logins!EnsureRead, Logins!AfterFind
  <2>16. CASE Logins!SetRow(w) BY <2>16 DEF Logins!SetRow
  <2>17. CASE Logins!RevokeRows(w) BY <2>17 DEF Logins!RevokeRows, Logins!DeleteRows,
                                                Logins!Overtake, Logins!PastCheck
  <2>18. CASE Logins!ClearCache(w) BY <2>18 DEF Logins!ClearCache, Logins!InHand
  <2>19. CASE Logins!DeleteSessions(w) BY <2>19 DEF Logins!DeleteSessions, Logins!DeleteRows,
                                                    Logins!Of
  <2>20. CASE Logins!DeleteRow(w) BY <2>20 DEF Logins!DeleteRow, Logins!Overtake,
                                               Logins!PastCheck, Logins!Of
  <2>21. CASE Logins!DbError(w) BY <2>21 DEF Logins!DbError, Logins!Overtake, Logins!PastCheck,
                                             Logins!Of, Logins!DbSteps
  <2>22. CASE Logins!LostAnswer(w) BY <2>22 DEF Logins!LostAnswer, Logins!Of
  <2>23. CASE Logins!NoResult(w) BY <2>23 DEF Logins!NoResult
  <2> QED BY <1>2, <2>1, <2>2, <2>3, <2>4, <2>5, <2>6, <2>7, <2>8, <2>9, <2>10, <2>11, <2>12,
             <2>13, <2>14, <2>15, <2>16, <2>17, <2>18, <2>19, <2>20, <2>21, <2>22, <2>23
          DEF Logins!LoginSteps, Logins!ValidateSteps, Logins!PasswordSteps
<1>3. ASSUME NEW x \in Token, Logins!Expire(x) PROVE InHandFollows'
  BY <1>3 DEF Logins!Expire, Logins!InHand
<1>4. ASSUME NEW x \in Token, Logins!LateEntryExpires(x) PROVE InHandFollows'
  BY <1>4 DEF Logins!LateEntryExpires
<1>5. CASE Logins!Restart BY <1>5 DEF Logins!Restart
<1>6. CASE UNCHANGED Logins!vars BY <1>6 DEF Logins!vars
<1> QED BY <1>1, <1>2, <1>3, <1>4, <1>5, <1>6 DEF Logins!Next

\* An entry of the cache follows its row.
LEMMA CacheStep == LoginInv /\ [Logins!Next]_(Logins!vars) => Logins!CacheFollowsRows'
<1> SUFFICES ASSUME LoginInv, [Logins!Next]_(Logins!vars) PROVE Logins!CacheFollowsRows'
  OBVIOUS
<1>0. Logins!TypeOK /\ Requests /\ Tokens /\ InHandFollows /\ Logins!CacheFollowsRows
  BY DEF LoginInv
<1> USE <1>0, LoginConstants
    DEF Logins!SessionAssumption, Logins!tables, Logins!request, Logins!history, Logins!Local,
        Logins!Goto,
        Logins!TypeOK, Requests, Shown, Validates, Tokens, InHandFollows, Clearing,
        Logins!CacheFollowsRows
<1>1. ASSUME NEW w \in Worker, Logins!Arrive(w) PROVE Logins!CacheFollowsRows'
  <2>1. PICK k, a, o, n, t, l : Logins!Start(w, k, a, o, n, t, l) /\ Arrives(k, a, o, n, t, l)
    BY <1>1, ArriveStarts
  <2> QED BY <2>1 DEF Logins!Start, Arrives
<1>2. ASSUME NEW w \in Worker,
             Logins!LoginSteps(w) \/ Logins!ValidateSteps(w) \/ Logins!PasswordSteps(w)
               \/ Logins!DeleteSessions(w) \/ Logins!DeleteRow(w) \/ Logins!DbError(w)
               \/ Logins!NoResult(w) \/ Logins!LostAnswer(w)
      PROVE  Logins!CacheFollowsRows'
  <2>1. CASE Logins!FindAccount(w) BY <2>1 DEF Logins!FindAccount
  <2>2. CASE Logins!CheckPassword(w) BY <2>2 DEF Logins!CheckPassword
  <2>3. CASE Logins!RegisterFind(w) BY <2>3 DEF Logins!RegisterFind
  <2>4. CASE Logins!CreateFind(w) BY <2>4 DEF Logins!CreateFind
  <2>5. CASE Logins!CreateInsert(w) BY <2>5 DEF Logins!CreateInsert
  <2>6. CASE Logins!CreateRead(w) BY <2>6 DEF Logins!CreateRead
  <2>7. CASE Logins!IssuePut(w)
    <3>1. tok[w] \in Token BY <2>7 DEF Logins!IssuePut, LoginInv, Requests, Shown, Validates
    <3>2. Puts(tok[w], wacc[w]) BY <2>7, <3>1, PutPuts DEF LoginInv, Logins!IssuePut
    <3> QED BY <2>7, <3>1, <3>2 DEF Logins!IssuePut, Puts
  <2>8. ASSUME NEW x \in Token, Logins!IssueInsert(w, x) PROVE Logins!CacheFollowsRows'
    BY <2>8 DEF Logins!IssueInsert
  <2>9. CASE Logins!CacheGet(w) BY <2>9 DEF Logins!CacheGet
  <2>10. CASE Logins!FindSession(w) BY <2>10 DEF Logins!FindSession
  <2>11. CASE Logins!Remaining(w) BY <2>11 DEF Logins!Remaining
  <2>12. CASE Logins!ValidatePut(w)
    <3>1. tok[w] \in Token BY <2>12 DEF Logins!ValidatePut, LoginInv, Requests, Shown, Validates
    <3>2. Puts(tok[w], wacc[w]) BY <2>12, <3>1, PutPuts DEF LoginInv, Logins!ValidatePut
    <3> QED BY <2>12, <3>1, <3>2 DEF Logins!ValidatePut, Puts
  <2>13. CASE Logins!SetFind(w) BY <2>13 DEF Logins!SetFind, Logins!AfterFind
  <2>14. CASE Logins!EnsureInsert(w) BY <2>14 DEF Logins!EnsureInsert
  <2>15. CASE Logins!EnsureRead(w) BY <2>15 DEF Logins!EnsureRead, Logins!AfterFind
  <2>16. CASE Logins!SetRow(w) BY <2>16 DEF Logins!SetRow
  <2>17. CASE Logins!RevokeRows(w) BY <2>17 DEF Logins!RevokeRows, Logins!DeleteRows,
                                                Logins!Overtake, Logins!PastCheck
  <2>18. CASE Logins!ClearCache(w) BY <2>18 DEF Logins!ClearCache, Logins!InHand
  <2>19. CASE Logins!DeleteSessions(w) BY <2>19 DEF Logins!DeleteSessions, Logins!DeleteRows,
                                                    Logins!Of
  <2>20. CASE Logins!DeleteRow(w) BY <2>20 DEF Logins!DeleteRow, Logins!Overtake,
                                               Logins!PastCheck, Logins!Of
  <2>21. CASE Logins!DbError(w) BY <2>21 DEF Logins!DbError, Logins!Overtake, Logins!PastCheck,
                                             Logins!Of, Logins!DbSteps
  <2>22. CASE Logins!LostAnswer(w) BY <2>22 DEF Logins!LostAnswer, Logins!Of
  <2>23. CASE Logins!NoResult(w) BY <2>23 DEF Logins!NoResult
  <2> QED BY <1>2, <2>1, <2>2, <2>3, <2>4, <2>5, <2>6, <2>7, <2>8, <2>9, <2>10, <2>11, <2>12,
             <2>13, <2>14, <2>15, <2>16, <2>17, <2>18, <2>19, <2>20, <2>21, <2>22, <2>23
          DEF Logins!LoginSteps, Logins!ValidateSteps, Logins!PasswordSteps
<1>3. ASSUME NEW x \in Token, Logins!Expire(x) PROVE Logins!CacheFollowsRows'
  BY <1>3 DEF Logins!Expire, Logins!InHand
<1>4. ASSUME NEW x \in Token, Logins!LateEntryExpires(x) PROVE Logins!CacheFollowsRows'
  BY <1>4 DEF Logins!LateEntryExpires
<1>5. CASE Logins!Restart BY <1>5 DEF Logins!Restart
<1>6. CASE UNCHANGED Logins!vars BY <1>6 DEF Logins!vars
<1> QED BY <1>1, <1>2, <1>3, <1>4, <1>5, <1>6 DEF Logins!Next

\* A login that was overtaken after its check is marked.
LEMMA GrantStep == LoginInv /\ [Logins!Next]_(Logins!vars) => GrantFollows'
<1> SUFFICES ASSUME LoginInv, [Logins!Next]_(Logins!vars) PROVE GrantFollows'
  OBVIOUS
<1>0. Logins!TypeOK /\ Requests /\ GrantFollows BY DEF LoginInv
<1> USE <1>0, LoginConstants
    DEF Logins!SessionAssumption, Logins!tables, Logins!request, Logins!history, Logins!Local,
        Logins!Goto,
        Logins!TypeOK, Requests, Shown, Registers, Changes, Validates, Logins!Granted,
        GrantFollows, Revoking
<1>1. ASSUME NEW w \in Worker, Logins!Arrive(w) PROVE GrantFollows'
  <2>1. PICK k, a, o, n, t, l : Logins!Start(w, k, a, o, n, t, l) /\ Arrives(k, a, o, n, t, l)
    BY <1>1, ArriveStarts
  <2> QED BY <2>1 DEF Logins!Start, Arrives
<1>2. ASSUME NEW w \in Worker,
             Logins!LoginSteps(w) \/ Logins!ValidateSteps(w) \/ Logins!PasswordSteps(w)
               \/ Logins!DeleteSessions(w) \/ Logins!DeleteRow(w) \/ Logins!DbError(w)
               \/ Logins!NoResult(w) \/ Logins!LostAnswer(w)
      PROVE  GrantFollows'
  <2>1. CASE Logins!FindAccount(w) BY <2>1 DEF Logins!FindAccount
  <2>2. CASE Logins!CheckPassword(w) BY <2>2 DEF Logins!CheckPassword
  <2>3. CASE Logins!RegisterFind(w) BY <2>3 DEF Logins!RegisterFind
  <2>4. CASE Logins!CreateFind(w) BY <2>4 DEF Logins!CreateFind
  <2>5. CASE Logins!CreateInsert(w) BY <2>5 DEF Logins!CreateInsert
  <2>6. CASE Logins!CreateRead(w) BY <2>6 DEF Logins!CreateRead
  <2>7. CASE Logins!IssuePut(w)
    <3>1. tok[w] \in Token BY <2>7 DEF Logins!IssuePut, LoginInv, Requests, Shown, Validates
    <3>2. Puts(tok[w], wacc[w]) BY <2>7, <3>1, PutPuts DEF LoginInv, Logins!IssuePut
    <3> QED BY <2>7, <3>1, <3>2 DEF Logins!IssuePut, Puts
  <2>8. ASSUME NEW x \in Token, Logins!IssueInsert(w, x) PROVE GrantFollows'
    BY <2>8 DEF Logins!IssueInsert
  <2>9. CASE Logins!CacheGet(w) BY <2>9 DEF Logins!CacheGet
  <2>10. CASE Logins!FindSession(w) BY <2>10 DEF Logins!FindSession
  <2>11. CASE Logins!Remaining(w) BY <2>11 DEF Logins!Remaining
  <2>12. CASE Logins!ValidatePut(w)
    <3>1. tok[w] \in Token BY <2>12 DEF Logins!ValidatePut, LoginInv, Requests, Shown, Validates
    <3>2. Puts(tok[w], wacc[w]) BY <2>12, <3>1, PutPuts DEF LoginInv, Logins!ValidatePut
    <3> QED BY <2>12, <3>1, <3>2 DEF Logins!ValidatePut, Puts
  <2>13. CASE Logins!SetFind(w) BY <2>13 DEF Logins!SetFind, Logins!AfterFind
  <2>14. CASE Logins!EnsureInsert(w) BY <2>14 DEF Logins!EnsureInsert
  <2>15. CASE Logins!EnsureRead(w) BY <2>15 DEF Logins!EnsureRead, Logins!AfterFind
  <2>16. CASE Logins!SetRow(w) BY <2>16 DEF Logins!SetRow
  <2>17. CASE Logins!RevokeRows(w)
    <3>1. \E where \in {"clear", "idle"} : loginPc' = [loginPc EXCEPT ![w] = where]
      BY <2>17 DEF Logins!RevokeRows
    <3> QED BY ONLY <1>0, <2>17, <3>1, Overtaken DEF Logins!RevokeRows, Logins!request
  <2>18. CASE Logins!ClearCache(w) BY <2>18 DEF Logins!ClearCache, Logins!InHand
  <2>19. CASE Logins!DeleteSessions(w) BY <2>19 DEF Logins!DeleteSessions, Logins!DeleteRows,
                                                    Logins!Of
  <2>20. CASE Logins!DeleteRow(w)
    <3>1. /\ loginPc[w] = "delAccount" /\ loginPc' = [loginPc EXCEPT ![w] = "done"]
          /\ account' = [account EXCEPT ![wacc[w]] = None]
          /\ UNCHANGED <<kind, oldPsw, new, wacc>>
      BY <2>20 DEF Logins!DeleteRow
    <3>2. ASSUME NEW v \in Worker, Revoking(wacc[v]) PROVE Revoking(wacc[v])'
      BY <3>1, <3>2
    <3>3. ASSUME NEW v \in Worker
          PROVE  stale'[v] = (stale[v] \/ (Logins!PastCheck(v, wacc[w])
                                          /\ Logins!Granted(v) # account'[wacc[w]]))
      BY <2>20 DEF Logins!DeleteRow, Logins!Overtake
    <3>4. ASSUME NEW v \in Worker,
                 loginPc'[v] \in {"createRead", "issue"} \/ (loginPc'[v] = "clear" /\ kind'[v] = "change")
          PROVE  Logins!Granted(v)' = account'[wacc'[v]] \/ stale'[v] \/ Revoking(wacc[v])'
      <4>1. v # w /\ loginPc'[v] = loginPc[v] /\ Logins!Granted(v)' = Logins!Granted(v)
        BY <3>1, <3>4
      <4>2. CASE wacc[v] = wacc[w]
        BY <3>1, <3>3, <3>4, <4>1, <4>2 DEF Logins!PastCheck
      <4>3. CASE wacc[v] # wacc[w]
        <5>1. account'[wacc[v]] = account[wacc[v]] BY <3>1, <4>3
        <5> QED BY <3>1, <3>2, <3>3, <3>4, <4>1, <5>1
      <4> QED BY <4>2, <4>3
    <3> QED BY <3>1, <3>4
  <2>21. CASE Logins!DbError(w)
    <3>1. CASE loginPc[w] = "revoke"
      BY ONLY <1>0, <2>21, <3>1, Overtaken DEF Logins!DbError, Logins!request, Logins!tables,
                                               Logins!Goto
    <3>2. CASE loginPc[w] # "revoke"
      BY <2>21, <3>2 DEF Logins!DbError
    <3> QED BY <3>1, <3>2
  <2>22. CASE Logins!LostAnswer(w) BY <2>22 DEF Logins!LostAnswer, Logins!Of
  <2>23. CASE Logins!NoResult(w) BY <2>23 DEF Logins!NoResult
  <2> QED BY <1>2, <2>1, <2>2, <2>3, <2>4, <2>5, <2>6, <2>7, <2>8, <2>9, <2>10, <2>11, <2>12,
             <2>13, <2>14, <2>15, <2>16, <2>17, <2>18, <2>19, <2>20, <2>21, <2>22, <2>23
          DEF Logins!LoginSteps, Logins!ValidateSteps, Logins!PasswordSteps
<1>3. ASSUME NEW x \in Token, Logins!Expire(x) PROVE GrantFollows'
  BY <1>3 DEF Logins!Expire, Logins!InHand
<1>4. ASSUME NEW x \in Token, Logins!LateEntryExpires(x) PROVE GrantFollows'
  BY <1>4 DEF Logins!LateEntryExpires
<1>5. CASE Logins!Restart BY <1>5 DEF Logins!Restart
<1>6. CASE UNCHANGED Logins!vars BY <1>6 DEF Logins!vars
<1> QED BY <1>1, <1>2, <1>3, <1>4, <1>5, <1>6 DEF Logins!Next

\* A session stands on the password of its account.
LEMMA RowsStep == LoginInv /\ [Logins!Next]_(Logins!vars) => Logins!RowsFollowPassword'
<1> SUFFICES ASSUME LoginInv, [Logins!Next]_(Logins!vars) PROVE Logins!RowsFollowPassword'
  OBVIOUS
<1>0. Logins!TypeOK /\ Requests /\ Tokens /\ GrantFollows /\ Logins!RowsFollowPassword
  BY DEF LoginInv
<1> USE <1>0, LoginConstants
    DEF Logins!SessionAssumption, Logins!tables, Logins!request, Logins!history, Logins!Local,
        Logins!Goto,
        Logins!TypeOK, Requests, Shown, Registers, Changes, Validates, Logins!Granted, Tokens,
        GrantFollows, Revoking, Logins!RowsFollowPassword
<1>1. ASSUME NEW w \in Worker, Logins!Arrive(w) PROVE Logins!RowsFollowPassword'
  <2>1. PICK k, a, o, n, t, l : Logins!Start(w, k, a, o, n, t, l) /\ Arrives(k, a, o, n, t, l)
    BY <1>1, ArriveStarts
  <2> QED BY <2>1 DEF Logins!Start, Arrives
<1>2. ASSUME NEW w \in Worker,
             Logins!LoginSteps(w) \/ Logins!ValidateSteps(w) \/ Logins!PasswordSteps(w)
               \/ Logins!DeleteSessions(w) \/ Logins!DeleteRow(w) \/ Logins!DbError(w)
               \/ Logins!NoResult(w) \/ Logins!LostAnswer(w)
      PROVE  Logins!RowsFollowPassword'
  <2>1. CASE Logins!FindAccount(w) BY <2>1 DEF Logins!FindAccount
  <2>2. CASE Logins!CheckPassword(w) BY <2>2 DEF Logins!CheckPassword
  <2>3. CASE Logins!RegisterFind(w) BY <2>3 DEF Logins!RegisterFind
  <2>4. CASE Logins!CreateFind(w) BY <2>4 DEF Logins!CreateFind
  <2>5. CASE Logins!CreateInsert(w) BY <2>5 DEF Logins!CreateInsert
  <2>6. CASE Logins!CreateRead(w) BY <2>6 DEF Logins!CreateRead
  <2>7. CASE Logins!IssuePut(w)
    <3>1. tok[w] \in Token BY <2>7 DEF Logins!IssuePut, LoginInv, Requests, Shown, Validates
    <3>2. Puts(tok[w], wacc[w]) BY <2>7, <3>1, PutPuts DEF LoginInv, Logins!IssuePut
    <3> QED BY <2>7, <3>1, <3>2 DEF Logins!IssuePut, Puts
  <2>8. ASSUME NEW x \in Token, Logins!IssueInsert(w, x) PROVE Logins!RowsFollowPassword'
    BY <2>8 DEF Logins!IssueInsert
  <2>9. CASE Logins!CacheGet(w) BY <2>9 DEF Logins!CacheGet
  <2>10. CASE Logins!FindSession(w) BY <2>10 DEF Logins!FindSession
  <2>11. CASE Logins!Remaining(w) BY <2>11 DEF Logins!Remaining
  <2>12. CASE Logins!ValidatePut(w)
    <3>1. tok[w] \in Token BY <2>12 DEF Logins!ValidatePut, LoginInv, Requests, Shown, Validates
    <3>2. Puts(tok[w], wacc[w]) BY <2>12, <3>1, PutPuts DEF LoginInv, Logins!ValidatePut
    <3> QED BY <2>12, <3>1, <3>2 DEF Logins!ValidatePut, Puts
  <2>13. CASE Logins!SetFind(w) BY <2>13 DEF Logins!SetFind, Logins!AfterFind
  <2>14. CASE Logins!EnsureInsert(w) BY <2>14 DEF Logins!EnsureInsert
  <2>15. CASE Logins!EnsureRead(w) BY <2>15 DEF Logins!EnsureRead, Logins!AfterFind
  <2>16. CASE Logins!SetRow(w) BY <2>16 DEF Logins!SetRow
  <2>17. CASE Logins!RevokeRows(w) BY <2>17 DEF Logins!RevokeRows, Logins!DeleteRows,
                                                Logins!Overtake, Logins!PastCheck
  <2>18. CASE Logins!ClearCache(w) BY <2>18 DEF Logins!ClearCache, Logins!InHand
  <2>19. CASE Logins!DeleteSessions(w) BY <2>19 DEF Logins!DeleteSessions, Logins!DeleteRows,
                                                    Logins!Of
  <2>20. CASE Logins!DeleteRow(w) BY <2>20 DEF Logins!DeleteRow, Logins!Overtake,
                                               Logins!PastCheck, Logins!Of
  <2>21. CASE Logins!DbError(w) BY <2>21 DEF Logins!DbError, Logins!Overtake, Logins!PastCheck,
                                             Logins!Of, Logins!DbSteps
  <2>22. CASE Logins!LostAnswer(w) BY <2>22 DEF Logins!LostAnswer, Logins!Of
  <2>23. CASE Logins!NoResult(w) BY <2>23 DEF Logins!NoResult
  <2> QED BY <1>2, <2>1, <2>2, <2>3, <2>4, <2>5, <2>6, <2>7, <2>8, <2>9, <2>10, <2>11, <2>12,
             <2>13, <2>14, <2>15, <2>16, <2>17, <2>18, <2>19, <2>20, <2>21, <2>22, <2>23
          DEF Logins!LoginSteps, Logins!ValidateSteps, Logins!PasswordSteps
<1>3. ASSUME NEW x \in Token, Logins!Expire(x) PROVE Logins!RowsFollowPassword'
  BY <1>3 DEF Logins!Expire, Logins!InHand
<1>4. ASSUME NEW x \in Token, Logins!LateEntryExpires(x) PROVE Logins!RowsFollowPassword'
  BY <1>4 DEF Logins!LateEntryExpires
<1>5. CASE Logins!Restart BY <1>5 DEF Logins!Restart
<1>6. CASE UNCHANGED Logins!vars BY <1>6 DEF Logins!vars
<1> QED BY <1>1, <1>2, <1>3, <1>4, <1>5, <1>6 DEF Logins!Next

\* A validation has the account of its token, or nothing while the token lives.
LEMMA AnswerStep == LoginInv /\ [Logins!Next]_(Logins!vars) => AnswersOwn'
<1> SUFFICES ASSUME LoginInv, [Logins!Next]_(Logins!vars) PROVE AnswersOwn'
  OBVIOUS
<1>0. Logins!TypeOK /\ Requests /\ Tokens /\ AnswersOwn BY DEF LoginInv
<1> USE <1>0, LoginConstants
    DEF Logins!SessionAssumption, Logins!tables, Logins!request, Logins!history, Logins!Local,
        Logins!Goto,
        Logins!TypeOK, Requests, Shown, Registers, Changes, Validates, Tokens, AnswersOwn,
        Logins!ValidateAnswers
<1>1. ASSUME NEW w \in Worker, Logins!Arrive(w) PROVE AnswersOwn'
  <2>1. PICK k, a, o, n, t, l : Logins!Start(w, k, a, o, n, t, l) /\ Arrives(k, a, o, n, t, l)
    BY <1>1, ArriveStarts
  <2> QED BY <2>1 DEF Logins!Start, Arrives
<1>2. ASSUME NEW w \in Worker,
             Logins!LoginSteps(w) \/ Logins!ValidateSteps(w) \/ Logins!PasswordSteps(w)
               \/ Logins!DeleteSessions(w) \/ Logins!DeleteRow(w) \/ Logins!DbError(w)
               \/ Logins!NoResult(w) \/ Logins!LostAnswer(w)
      PROVE  AnswersOwn'
  <2>1. CASE Logins!FindAccount(w) BY <2>1 DEF Logins!FindAccount
  <2>2. CASE Logins!CheckPassword(w) BY <2>2 DEF Logins!CheckPassword
  <2>3. CASE Logins!RegisterFind(w) BY <2>3 DEF Logins!RegisterFind
  <2>4. CASE Logins!CreateFind(w) BY <2>4 DEF Logins!CreateFind
  <2>5. CASE Logins!CreateInsert(w) BY <2>5 DEF Logins!CreateInsert
  <2>6. CASE Logins!CreateRead(w) BY <2>6 DEF Logins!CreateRead
  <2>7. CASE Logins!IssuePut(w)
    <3>1. tok[w] \in Token BY <2>7 DEF Logins!IssuePut, LoginInv, Requests, Shown, Validates
    <3>2. Puts(tok[w], wacc[w]) BY <2>7, <3>1, PutPuts DEF LoginInv, Logins!IssuePut
    <3> QED BY <2>7, <3>1, <3>2 DEF Logins!IssuePut, Puts
  <2>8. ASSUME NEW x \in Token, Logins!IssueInsert(w, x) PROVE AnswersOwn'
    BY <2>8 DEF Logins!IssueInsert
  <2>9. CASE Logins!CacheGet(w) BY <2>9 DEF Logins!CacheGet
  <2>10. CASE Logins!FindSession(w) BY <2>10 DEF Logins!FindSession
  <2>11. CASE Logins!Remaining(w) BY <2>11 DEF Logins!Remaining
  <2>12. CASE Logins!ValidatePut(w)
    <3>1. tok[w] \in Token BY <2>12 DEF Logins!ValidatePut, LoginInv, Requests, Shown, Validates
    <3>2. Puts(tok[w], wacc[w]) BY <2>12, <3>1, PutPuts DEF LoginInv, Logins!ValidatePut
    <3> QED BY <2>12, <3>1, <3>2 DEF Logins!ValidatePut, Puts
  <2>13. CASE Logins!SetFind(w) BY <2>13 DEF Logins!SetFind, Logins!AfterFind
  <2>14. CASE Logins!EnsureInsert(w) BY <2>14 DEF Logins!EnsureInsert
  <2>15. CASE Logins!EnsureRead(w) BY <2>15 DEF Logins!EnsureRead, Logins!AfterFind
  <2>16. CASE Logins!SetRow(w) BY <2>16 DEF Logins!SetRow
  <2>17. CASE Logins!RevokeRows(w) BY <2>17 DEF Logins!RevokeRows, Logins!DeleteRows,
                                                Logins!Overtake, Logins!PastCheck
  <2>18. CASE Logins!ClearCache(w) BY <2>18 DEF Logins!ClearCache, Logins!InHand
  <2>19. CASE Logins!DeleteSessions(w) BY <2>19 DEF Logins!DeleteSessions, Logins!DeleteRows,
                                                    Logins!Of
  <2>20. CASE Logins!DeleteRow(w) BY <2>20 DEF Logins!DeleteRow, Logins!Overtake,
                                               Logins!PastCheck, Logins!Of
  <2>21. CASE Logins!DbError(w) BY <2>21 DEF Logins!DbError, Logins!Overtake, Logins!PastCheck,
                                             Logins!Of, Logins!DbSteps
  <2>22. CASE Logins!LostAnswer(w) BY <2>22 DEF Logins!LostAnswer, Logins!Of
  <2>23. CASE Logins!NoResult(w) BY <2>23 DEF Logins!NoResult
  <2> QED BY <1>2, <2>1, <2>2, <2>3, <2>4, <2>5, <2>6, <2>7, <2>8, <2>9, <2>10, <2>11, <2>12,
             <2>13, <2>14, <2>15, <2>16, <2>17, <2>18, <2>19, <2>20, <2>21, <2>22, <2>23
          DEF Logins!LoginSteps, Logins!ValidateSteps, Logins!PasswordSteps
<1>3. ASSUME NEW x \in Token, Logins!Expire(x) PROVE AnswersOwn'
  BY <1>3 DEF Logins!Expire, Logins!InHand
<1>4. ASSUME NEW x \in Token, Logins!LateEntryExpires(x) PROVE AnswersOwn'
  BY <1>4 DEF Logins!LateEntryExpires
<1>5. CASE Logins!Restart BY <1>5 DEF Logins!Restart
<1>6. CASE UNCHANGED Logins!vars BY <1>6 DEF Logins!vars
<1> QED BY <1>1, <1>2, <1>3, <1>4, <1>5, <1>6 DEF Logins!Next

\* No account, no session, no request.
LEMMA LoginInit == Logins!Init => LoginInv
<1> SUFFICES ASSUME Logins!Init PROVE LoginInv OBVIOUS
<1> USE LoginConstants DEF Logins!Init, Logins!SessionAssumption
<1>1. Logins!TypeOK BY DEF Logins!TypeOK, Logins!Steps
<1>2. Requests /\ Tokens
  BY DEF Requests, Shown, Registers, Changes, Validates, Tokens
<1>3. InHandFollows /\ GrantFollows BY DEF InHandFollows, GrantFollows
<1>4. Logins!CacheFollowsRows /\ Logins!RowsFollowPassword /\ AnswersOwn
  BY DEF Logins!CacheFollowsRows, Logins!RowsFollowPassword, AnswersOwn, Logins!ValidateAnswers
<1> QED BY <1>1, <1>2, <1>3, <1>4 DEF LoginInv

\* A step of AllPlayers is one of the sessions, or none.
LEMMA LoginSteps == ASSUME [Step]_<<part, vars, maps, logins>> PROVE [Logins!Next]_(Logins!vars)
<1> USE DEF Logins!vars, Logins!tables, Logins!request, Logins!history, logins
<1>1. CASE UNCHANGED logins BY <1>1
<1>2. CASE Logins!Next BY <1>2
<1> QED BY <1>1, <1>2 DEF Step

\* The inductive invariant of the sessions holds in every state (auth.cpp,
\* session.cpp, storage.cpp: delete_account).
THEOREM LoginsInvariant == AllPlayers => []LoginInv
<1>1. Start => LoginInv BY LoginInit DEF Start
<1>2. LoginInv /\ [Step]_<<part, vars, maps, logins>> => LoginInv'
  BY LoginSteps, LoginTypeStep, RequestStep, TokenStep, InHandStep, CacheStep, GrantStep,
     RowsStep, AnswerStep DEF LoginInv
<1> QED BY <1>1, <1>2, PTL DEF AllPlayers

\* The session cache answers as the table does, but for the named windows of
\* session_revoke_account and delete_account.
THEOREM LoginsCacheFollowsRows == AllPlayers => []CacheFollowsRows
<1>1. LoginInv => CacheFollowsRows BY DEF LoginInv, CacheFollowsRows
<1> QED BY <1>1, LoginsInvariant, PTL

\* Every live session stands on the present password, but for the named
\* windows of auth_set_password and delete_account.
THEOREM LoginsRowsFollowPassword == AllPlayers => []RowsFollowPassword
<1>1. LoginInv => RowsFollowPassword BY DEF LoginInv, RowsFollowPassword
<1> QED BY <1>1, LoginsInvariant, PTL

\* session_validate names the account its token was made for, and refuses no
\* token that is alive, but for one the database had no result for (find_session).
THEOREM LoginsValidateAnswers == AllPlayers => []ValidateAnswers
<1>1. LoginInv => ValidateAnswers BY DEF LoginInv, AnswersOwn, ValidateAnswers
<1> QED BY <1>1, LoginsInvariant, PTL

-----------------------------------------------------------------------------
\* What PushMap_proofs shows of PushMap holds of the maps of three players and
\* of two: they are the same definitions.
ThreeProved == INSTANCE PushMap_proofs WITH byAcc <- mapByAcc, gone <- mapGone, pc <- mapPc
TwoProved == INSTANCE PushMap_proofs WITH
  Conn <- Pair, AccOf <- PairAcc, MaxMoves <- PairMoves,
  byAcc <- mapByAcc, gone <- mapGone, pc <- mapPc

\* The same steps.
LEMMA ThreeSteps == Three!Next <=> ThreeProved!Next
<1>1. \A c \in Conn : Three!Register(c) <=> ThreeProved!Register(c)
  BY DEF Three!Register, ThreeProved!Register, Three!Go, ThreeProved!Go, Three!conns,
         ThreeProved!conns, Three!history, ThreeProved!history
<1>2. \A c \in Conn : Three!CloseOld(c) <=> ThreeProved!CloseOld(c)
  BY DEF Three!CloseOld, ThreeProved!CloseOld, Three!Go, ThreeProved!Go, Three!history,
         ThreeProved!history
<1>3. \A c \in Conn : Three!Close(c) <=> ThreeProved!Close(c)
  BY DEF Three!Close, ThreeProved!Close, Three!history, ThreeProved!history
<1>4. \A c \in Conn : Three!Leave(c) <=> ThreeProved!Leave(c)
  BY DEF Three!Leave, ThreeProved!Leave, Three!Go, ThreeProved!Go, Three!history,
         ThreeProved!history
<1>5. \A c \in Conn : Three!CloseOwn(c) <=> ThreeProved!CloseOwn(c)
  BY DEF Three!CloseOwn, ThreeProved!CloseOwn, Three!Go, ThreeProved!Go, Three!history,
         ThreeProved!history, Three!Farewell, ThreeProved!Farewell
<1>6. \A c \in Conn : Three!ReadFrame(c) <=> ThreeProved!ReadFrame(c)
  BY DEF Three!ReadFrame, ThreeProved!ReadFrame, Three!Go, ThreeProved!Go, Three!conns,
         ThreeProved!conns, Three!history, ThreeProved!history
<1>7. \A c \in Conn : Three!Snapshot(c) <=> ThreeProved!Snapshot(c)
  BY DEF Three!Snapshot, ThreeProved!Snapshot, Three!Working, ThreeProved!Working,
         Three!Receivers, ThreeProved!Receivers, Three!OnMap, ThreeProved!OnMap, Three!PlayersOn,
         ThreeProved!PlayersOn, Three!Writers, ThreeProved!Writers, Three!NoList,
         ThreeProved!NoList, Three!Nobody, ThreeProved!Nobody, Three!conns, ThreeProved!conns
<1>8. \A c \in Conn : Three!Return(c) <=> ThreeProved!Return(c)
  BY DEF Three!Return, ThreeProved!Return, Three!Working, ThreeProved!Working, Three!NoList,
         ThreeProved!NoList, Three!Nobody, ThreeProved!Nobody, Three!Go, ThreeProved!Go,
         Three!conns, ThreeProved!conns, Three!history, ThreeProved!history
<1>9. \A c \in Conn, m \in Map \cup {None} : Three!Presence(c, m) <=> ThreeProved!Presence(c, m)
  BY DEF Three!Presence, ThreeProved!Presence, Three!Told, ThreeProved!Told, Three!Go,
         ThreeProved!Go, Three!conns, ThreeProved!conns, Three!history, ThreeProved!history
<1>10. \A c, d \in Conn : Three!Write(c, d) <=> ThreeProved!Write(c, d)
  BY DEF Three!Write, ThreeProved!Write, Three!Sent, ThreeProved!Sent, Three!Unsent, ThreeProved!Unsent,
         Three!Older, ThreeProved!Older, Three!NoList,
         ThreeProved!NoList, Three!Nobody, ThreeProved!Nobody, Three!conns, ThreeProved!conns
<1>11. \A c \in Conn : Three!Thread(c) <=> ThreeProved!Thread(c)
  BY <1>1, <1>2, <1>3, <1>4, <1>5, <1>6, <1>7, <1>8, <1>9, <1>10 DEF Three!Thread,
     ThreeProved!Thread, Three!Handled, ThreeProved!Handled, Three!Notify, ThreeProved!Notify
<1> QED BY <1>3, <1>11 DEF Three!Next, ThreeProved!Next

\* The same beginning, invariant and variables.
LEMMA ThreeSame ==
  /\ Three!Init <=> ThreeProved!Init
  /\ Three!MapViews <=> ThreeProved!MapViews
  /\ Three!MapAssumption <=> ThreeProved!MapAssumption
  /\ Three!vars = ThreeProved!vars
<1>1. Three!Init <=> ThreeProved!Init BY DEF Three!Init, ThreeProved!Init, Three!NoList,
                                             ThreeProved!NoList, Three!Nobody, ThreeProved!Nobody
<1>2. Three!TypeOK <=> ThreeProved!TypeOK BY DEF Three!TypeOK, ThreeProved!TypeOK, Three!Body,
                                                 ThreeProved!Body
<1>3. Three!QuietViews <=> ThreeProved!QuietViews BY DEF Three!QuietViews, ThreeProved!QuietViews,
                                                         Three!Quiet, ThreeProved!Quiet,
                                                         Three!OnMap, ThreeProved!OnMap,
                                                         Three!PlayersOn, ThreeProved!PlayersOn
<1>4. Three!ListsNameReceiver <=> ThreeProved!ListsNameReceiver
  BY DEF Three!ListsNameReceiver, ThreeProved!ListsNameReceiver, Three!Nobody, ThreeProved!Nobody
<1>5. Three!MapViews <=> ThreeProved!MapViews BY <1>2, <1>3, <1>4 DEF Three!MapViews,
                                                 ThreeProved!MapViews
<1>6. Three!MapAssumption <=> ThreeProved!MapAssumption BY DEF Three!MapAssumption,
                                                           ThreeProved!MapAssumption
<1>7. Three!vars = ThreeProved!vars BY DEF Three!vars, ThreeProved!vars, Three!conns,
                                           ThreeProved!conns, Three!history, ThreeProved!history
<1> QED BY <1>1, <1>5, <1>6, <1>7

\* The same steps.
LEMMA TwoSteps == Two!Next <=> TwoProved!Next
<1>1. \A c \in Pair : Two!Register(c) <=> TwoProved!Register(c)
  BY DEF Two!Register, TwoProved!Register, Two!Go, TwoProved!Go, Two!conns, TwoProved!conns,
         Two!history, TwoProved!history
<1>2. \A c \in Pair : Two!CloseOld(c) <=> TwoProved!CloseOld(c)
  BY DEF Two!CloseOld, TwoProved!CloseOld, Two!Go, TwoProved!Go, Two!history, TwoProved!history
<1>3. \A c \in Pair : Two!Close(c) <=> TwoProved!Close(c)
  BY DEF Two!Close, TwoProved!Close, Two!history, TwoProved!history
<1>4. \A c \in Pair : Two!Leave(c) <=> TwoProved!Leave(c)
  BY DEF Two!Leave, TwoProved!Leave, Two!Go, TwoProved!Go, Two!history, TwoProved!history
<1>5. \A c \in Pair : Two!CloseOwn(c) <=> TwoProved!CloseOwn(c)
  BY DEF Two!CloseOwn, TwoProved!CloseOwn, Two!Go, TwoProved!Go, Two!history, TwoProved!history,
         Two!Farewell, TwoProved!Farewell
<1>6. \A c \in Pair : Two!ReadFrame(c) <=> TwoProved!ReadFrame(c)
  BY DEF Two!ReadFrame, TwoProved!ReadFrame, Two!Go, TwoProved!Go, Two!conns, TwoProved!conns,
         Two!history, TwoProved!history
<1>7. \A c \in Pair : Two!Snapshot(c) <=> TwoProved!Snapshot(c)
  BY DEF Two!Snapshot, TwoProved!Snapshot, Two!Working, TwoProved!Working, Two!Receivers,
         TwoProved!Receivers, Two!OnMap, TwoProved!OnMap, Two!PlayersOn, TwoProved!PlayersOn,
         Two!Writers, TwoProved!Writers, Two!NoList, TwoProved!NoList, Two!Nobody,
         TwoProved!Nobody, Two!conns, TwoProved!conns
<1>8. \A c \in Pair : Two!Return(c) <=> TwoProved!Return(c)
  BY DEF Two!Return, TwoProved!Return, Two!Working, TwoProved!Working, Two!NoList,
         TwoProved!NoList, Two!Nobody, TwoProved!Nobody, Two!Go, TwoProved!Go, Two!conns,
         TwoProved!conns, Two!history, TwoProved!history
<1>9. \A c \in Pair, m \in Map \cup {None} : Two!Presence(c, m) <=> TwoProved!Presence(c, m)
  BY DEF Two!Presence, TwoProved!Presence, Two!Told, TwoProved!Told, Two!Go, TwoProved!Go,
         Two!conns, TwoProved!conns, Two!history, TwoProved!history
<1>10. \A c, d \in Pair : Two!Write(c, d) <=> TwoProved!Write(c, d)
  BY DEF Two!Write, TwoProved!Write, Two!Sent, TwoProved!Sent, Two!Unsent, TwoProved!Unsent,
         Two!Older, TwoProved!Older, Two!NoList, TwoProved!NoList,
         Two!Nobody, TwoProved!Nobody, Two!conns, TwoProved!conns
<1>11. \A c \in Pair : Two!Thread(c) <=> TwoProved!Thread(c)
  BY <1>1, <1>2, <1>3, <1>4, <1>5, <1>6, <1>7, <1>8, <1>9, <1>10 DEF Two!Thread, TwoProved!Thread,
     Two!Handled, TwoProved!Handled, Two!Notify, TwoProved!Notify
<1> QED BY <1>3, <1>11 DEF Two!Next, TwoProved!Next

\* The same beginning, invariant and variables.
LEMMA TwoSame ==
  /\ Two!Init <=> TwoProved!Init
  /\ Two!MapViews <=> TwoProved!MapViews
  /\ Two!MapAssumption <=> TwoProved!MapAssumption
  /\ Two!vars = TwoProved!vars
<1>1. Two!Init <=> TwoProved!Init BY DEF Two!Init, TwoProved!Init, Two!NoList, TwoProved!NoList,
                                         Two!Nobody, TwoProved!Nobody
<1>2. Two!TypeOK <=> TwoProved!TypeOK BY DEF Two!TypeOK, TwoProved!TypeOK, Two!Body, TwoProved!Body
<1>3. Two!QuietViews <=> TwoProved!QuietViews BY DEF Two!QuietViews, TwoProved!QuietViews,
                                                     Two!Quiet, TwoProved!Quiet, Two!OnMap,
                                                     TwoProved!OnMap, Two!PlayersOn,
                                                     TwoProved!PlayersOn
<1>4. Two!ListsNameReceiver <=> TwoProved!ListsNameReceiver BY DEF Two!ListsNameReceiver,
                                                               TwoProved!ListsNameReceiver,
        Two!Nobody, TwoProved!Nobody
<1>5. Two!MapViews <=> TwoProved!MapViews BY <1>2, <1>3, <1>4 DEF Two!MapViews, TwoProved!MapViews
<1>6. Two!MapAssumption <=> TwoProved!MapAssumption BY DEF Two!MapAssumption,
                                                           TwoProved!MapAssumption
<1>7. Two!vars = TwoProved!vars BY DEF Two!vars, TwoProved!vars, Two!conns, TwoProved!conns,
                                       Two!history, TwoProved!history
<1> QED BY <1>1, <1>5, <1>6, <1>7

\* The inductive invariant of PushMap, of the players who move.
MovesInv ==
  IF part = "two" THEN TwoProved!MapInv ELSE ThreeProved!MapInv

\* The players on a map have the list of the players there when all is written,
\* but for those whom an older list overtook or the newest was not sent to, and
\* no list without the receiver
\* (handle_presence and notify_map of push_hub.cpp).
THEOREM PlayersMapViews == AllPlayers => []MapViews
<1>1. ThreeProved!MapAssumption /\ TwoProved!MapAssumption BY MapConstants, ThreeSame, TwoSame
<1>2. Start => MovesInv BY <1>1, ThreeSame, TwoSame, ThreeProved!MapInit,
                           TwoProved!MapInit DEF Start, MovesInv
<1>3. ASSUME MovesInv, [Step]_<<part, vars, maps, logins>> PROVE MovesInv'
  <2>1. CASE part = "two"
    <3>1. part' = "two" /\ [TwoProved!Next]_(TwoProved!vars)
      <4>1. UNCHANGED maps => UNCHANGED TwoProved!vars
        BY DEF maps, TwoProved!vars, TwoProved!conns, TwoProved!history
      <4> QED BY <1>3, <2>1, <4>1, TwoSteps DEF Step
    <3>2. TwoProved!MapInv BY <1>3, <2>1 DEF MovesInv
    <3> QED BY <1>1, <3>1, <3>2, TwoProved!MapStep DEF MovesInv
  <2>2. CASE part # "two"
    <3>1. part' # "two" /\ [ThreeProved!Next]_(ThreeProved!vars)
      <4>1. UNCHANGED maps => UNCHANGED ThreeProved!vars
        BY DEF maps, ThreeProved!vars, ThreeProved!conns, ThreeProved!history
      <4> QED BY <1>3, <2>2, <4>1, ThreeSteps DEF Step
    <3>2. ThreeProved!MapInv BY <1>3, <2>2 DEF MovesInv
    <3> QED BY <1>1, <3>1, <3>2, ThreeProved!MapStep DEF MovesInv
  <2> QED BY <2>1, <2>2
<1>4. MovesInv => MapViews
  BY <1>1, ThreeSame, TwoSame, ThreeProved!MapShows, TwoProved!MapShows DEF MovesInv, MapViews
<1> QED BY <1>2, <1>3, <1>4, PTL DEF AllPlayers
==============================================================================
