-------------------------------- MODULE Players --------------------------------
(* PushWave, PushMap and Session side by side: the waves and the maps of   *)
(* connected players, and the sessions they log in with.  They share no    *)
(* variable, and no property is about two of them: behaviours in which one *)
(* of them moves show all there is to see.  part says which.               *)
EXTENDS PushWave

CONSTANTS
  Map, MaxMoves,                     \* of PushMap, also for two players who
  Pair, PairMoves,                   \* move more often
  User, Token, Psw, Short, NoPsw,    \* of Session, whose accounts are User
  Worker, CacheCap, MaxFaults

VARIABLES
  part,
  mapByAcc, mapGone, at, pos, mapPc, todo, list, old, view, moves, before, passed, behind,
  account, rows, expired, cache, loginPc, kind, wacc, oldPsw, new, tok, ans, unread, faults,
  owner, under, ended, stale, excused

maps == <<mapByAcc, mapGone, at, pos, mapPc, todo, list, old, view, moves, before, passed, behind>>
logins == <<account, rows, expired, cache, loginPc, kind, wacc, oldPsw, new, tok, ans, unread, faults,
            owner, under, ended, stale, excused>>

PairAcc == [c \in Pair |-> AccOf[c]]

Three == INSTANCE PushMap WITH byAcc <- mapByAcc, gone <- mapGone, pc <- mapPc
Two == INSTANCE PushMap WITH
  Conn <- Pair, AccOf <- PairAcc, MaxMoves <- PairMoves,
  byAcc <- mapByAcc, gone <- mapGone, pc <- mapPc
Logins == INSTANCE Session WITH Acc <- User, pc <- loginPc, old <- oldPsw

ASSUME MapConstants == Pair \subseteq Conn /\ Three!MapAssumption /\ Two!MapAssumption
ASSUME LoginConstants == Logins!SessionAssumption

Start ==
  /\ part \in {"waves", "three", "two", "logins"}
  /\ Init /\ Logins!Init /\ IF part = "two" THEN Two!Init ELSE Three!Init

Step ==
  \/ part = "waves" /\ Next /\ UNCHANGED <<part, maps, logins>>
  \/ part = "three" /\ Three!Next /\ UNCHANGED <<part, vars, logins>>
  \/ part = "two" /\ Two!Next /\ UNCHANGED <<part, vars, logins>>
  \/ part = "logins" /\ Logins!Next /\ UNCHANGED <<part, vars, maps>>

AllPlayers == Start /\ [][Step]_<<part, vars, maps, logins>>

-----------------------------------------------------------------------------
(* The properties of PushMap and Session, which state them at length.      *)

\* Lists of players: right when all is written, but for those an older one
\* overtook or the newest was not sent to, and never without the receiver.
MapViews == (part = "three" => Three!MapViews) /\ (part = "two" => Two!MapViews)

\* The session cache answers as the table does, but for named windows.
CacheFollowsRows == part = "logins" => Logins!TypeOK /\ Logins!CacheFollowsRows
\* Sessions stand on the present password, but for named windows.
RowsFollowPassword == part = "logins" => Logins!RowsFollowPassword
\* session_validate names the account a token was made for, or could not read.
ValidateAnswers == part = "logins" => Logins!ValidateAnswers
===============================================================================
