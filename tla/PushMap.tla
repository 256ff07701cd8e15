-------------------------------- MODULE PushMap --------------------------------
(***************************************************************************)
(* Players on a map (handle_presence and notify_map of push_hub.cpp): a    *)
(* client tells its map and position; whoever is on the map it left and on *)
(* the one it came to is sent the list of players there.  The list and its *)
(* receivers are taken under the lock of the hub and written after it, one *)
(* receiver after the other, by the handler thread of each client: an      *)
(* older list may be written after a newer one.                            *)
(*                                                                         *)
(* A position is the number of frames read before it was told.             *)
(* Connections register and are superseded as in PushHub; each has a       *)
(* socket to itself.                                                       *)
(***************************************************************************)
EXTENDS Naturals, Sequences

CONSTANTS Conn, Acc,
          AccOf,   \* the account a connection authenticates as
          Map, None,
          MaxMoves \* presence messages in one behaviour

MapAssumption ==
  /\ AccOf \in [Conn -> Acc] /\ None \notin Conn \cup Acc \cup Map /\ MaxMoves \in Nat

VARIABLES
  byAcc,   \* g_hub.by_acc
  gone,    \* Conn::closed
  at, pos, \* Conn::map, None for the empty one, and Conn::x, y
  pc,      \* the handler thread of a connection
  todo,    \* the maps it has yet to notify
  list,    \* the list it is writing, and to whom it has yet to write it
  old,     \* the connection it supersedes
  view,    \* what a connection was sent last
  moves,
  before,  \* history: <<s, t>>: the list that s writes is older than t's
  passed,  \* history: <<t, c>>: c was sent a newer list than t's
  behind   \* history: connections that a newer list went past: an older one was
           \* written after it, or it was not sent

conns   == <<byAcc, gone>>
history == <<before, passed, behind>>
vars == <<conns, at, pos, pc, todo, list, old, view, moves, history>>

Nobody == [map |-> None, players |-> {}]
NoList == [body |-> Nobody, to |-> {}]

Init ==
  /\ byAcc = [a \in Acc |-> None] /\ gone = {}
  /\ at = [c \in Conn |-> None] /\ pos = [c \in Conn |-> 0]
  /\ pc = [c \in Conn |-> "new"] /\ todo = [c \in Conn |-> <<>>]
  /\ list = [c \in Conn |-> NoList] /\ old = [c \in Conn |-> None]
  /\ view = [c \in Conn |-> Nobody] /\ moves = 0
  /\ before = {} /\ passed = {} /\ behind = {}

Go(c, where) == pc' = [pc EXCEPT ![c] = where]

\* Connections on a map that by_acc lists and that are open.
OnMap(m) == {c \in Conn : byAcc[AccOf[c]] = c /\ c \notin gone /\ at[c] = m}
\* build_map_players_locked
PlayersOn(m) == [map |-> m, players |-> {<<AccOf[c], pos[c]>> : c \in OnMap(m)}]

-----------------------------------------------------------------------------
(* Faulty variants of the operators below, which a property must find.     *)

\* Only the map the player came to is told.
NewMapOnly(c, m) == IF m = None THEN <<>> ELSE <<m>>

\* The closed connection's map is forgotten.
NoFarewell(c) == <<>>

-----------------------------------------------------------------------------
(* Connections.                                                            *)

Register(c) ==
  /\ pc[c] = "new" /\ Go(c, "supersede")
  /\ byAcc' = [byAcc EXCEPT ![AccOf[c]] = c]
  /\ old' = [old EXCEPT ![c] = byAcc[AccOf[c]]]
  /\ UNCHANGED <<gone, at, pos, todo, list, view, moves, history>>

CloseOld(c) ==
  /\ pc[c] = "supersede" /\ Go(c, "loop")
  /\ gone' = gone \cup ({old[c]} \ {None}) /\ old' = [old EXCEPT ![c] = None]
  /\ UNCHANGED <<byAcc, at, pos, todo, list, view, moves, history>>

\* A pusher or an administrator closes the connection.
Close(c) ==
  /\ c \notin gone /\ byAcc[AccOf[c]] = c /\ gone' = gone \cup {c}
  /\ UNCHANGED <<byAcc, at, pos, pc, todo, list, old, view, moves, history>>

\* The loop ends: the peer has gone, or the connection is closed.
Leave(c) ==
  /\ pc[c] = "loop" /\ Go(c, "close")
  /\ byAcc' = [byAcc EXCEPT ![AccOf[c]] = IF @ = c THEN None ELSE @]
  /\ UNCHANGED <<gone, at, pos, todo, list, old, view, moves, history>>

Farewell(c) == IF at[c] = None THEN <<>> ELSE <<at[c]>>

CloseOwn(c) ==
  /\ pc[c] = "close" /\ Go(c, "last")
  /\ gone' = gone \cup {c} /\ todo' = [todo EXCEPT ![c] = Farewell(c)]
  /\ UNCHANGED <<byAcc, at, pos, list, old, view, moves, history>>

-----------------------------------------------------------------------------
(* handle_presence and notify_map.                                         *)

\* The maps to notify: the one that was left, if another, and the new one.
Told(c, m) ==
  (IF at[c] \notin {None, m} THEN <<at[c]>> ELSE <<>>) \o (IF m = None THEN <<>> ELSE <<m>>)

\* A presence frame is read; the connection may be closed before it is handled.
ReadFrame(c) ==
  /\ pc[c] = "loop" /\ c \notin gone /\ Go(c, "frame")
  /\ moves < MaxMoves /\ moves' = moves + 1
  /\ UNCHANGED <<conns, at, pos, todo, list, old, view, history>>

Presence(c, m) ==
  /\ pc[c] = "frame" /\ Go(c, "notify")
  /\ at' = [at EXCEPT ![c] = m] /\ pos' = [pos EXCEPT ![c] = moves]
  /\ todo' = [todo EXCEPT ![c] = Told(c, m)]
  /\ UNCHANGED <<conns, list, old, view, moves, history>>

Working(c) == pc[c] \in {"notify", "last"} /\ list[c] = NoList

Receivers(m) == OnMap(m)

\* Threads that are writing a list.
Writers == {t \in Conn : list[t] # NoList}

\* The list and its receivers, under the lock.
Snapshot(c) ==
  /\ Working(c) /\ todo[c] # <<>>
  /\ todo' = [todo EXCEPT ![c] = Tail(@)]
  /\ LET m == Head(todo[c]) IN
       IF Receivers(m) = {}
       THEN UNCHANGED <<list, before>>
       ELSE /\ list' = [list EXCEPT ![c] = [body |-> PlayersOn(m), to |-> Receivers(m)]]
            /\ before' = before \cup {<<t, c>> : t \in Writers}
  /\ UNCHANGED <<conns, at, pos, pc, old, view, moves, passed, behind>>

\* Threads whose lists are older than that of c.
Older(c) == {t \in Conn : <<t, c>> \in before}

\* The list is sent to d.
Sent(c, d) ==
  /\ view' = [view EXCEPT ![d] = list[c].body]
  /\ behind' = IF <<c, d>> \in passed THEN behind \cup {d} ELSE behind \ {d}

\* It is not: send_frame refuses a list above kMaxFrameBytes, or send() fails;
\* notify_map does not look at the answer.
Unsent(d) == view' = view /\ behind' = behind \cup {d}

\* One receiver is written to, whose socket may be closed by now.
Write(c, d) ==
  /\ d \in list[c].to
  /\ IF d \in gone THEN UNCHANGED <<view, behind>> ELSE Sent(c, d) \/ Unsent(d)
  /\ LET told == passed \cup {<<t, d>> : t \in Older(c)} IN
       IF list[c].to = {d}
       THEN /\ list' = [list EXCEPT ![c] = NoList] /\ before' = {p \in before : c \notin {p[1], p[2]}}
            /\ passed' = {p \in told : p[1] # c}
       ELSE /\ list' = [list EXCEPT ![c].to = @ \ {d}] /\ before' = before /\ passed' = told
  /\ UNCHANGED <<conns, at, pos, pc, todo, old, moves>>

Return(c) ==
  /\ Working(c) /\ todo[c] = <<>> /\ Go(c, IF pc[c] = "last" THEN "done" ELSE "loop")
  /\ UNCHANGED <<conns, at, pos, todo, list, old, view, moves, history>>

Notify(c) == Snapshot(c) \/ Return(c) \/ \E d \in Conn : Write(c, d)

Handled(c) == \E m \in Map \cup {None} : Presence(c, m)

Thread(c) ==
  Register(c) \/ CloseOld(c) \/ ReadFrame(c) \/ Handled(c) \/ Leave(c) \/ CloseOwn(c) \/ Notify(c)

Next == \E c \in Conn : Thread(c) \/ Close(c)

Spec == Init /\ [][Next]_vars

\* A thread that is writing to an open connection waits for its peer to read:
\* send() has no timeout.
Held(c) == \E d \in list[c].to : d \notin gone

\* Threads run, unless they are held, and a closed connection is noticed.
Runs(c) ==
  CloseOld(c) \/ Handled(c) \/ CloseOwn(c) \/ (~Held(c) /\ Notify(c)) \/ (c \in gone /\ Leave(c))

Fairness ==
  \A c \in Conn : WF_vars(Runs(c))

FairSpec == Spec /\ Fairness

-----------------------------------------------------------------------------
(* The variables keep their types.                                         *)
Body == [map : Map \cup {None}, players : SUBSET (Acc \X (0..MaxMoves))]
TypeOK ==
  /\ byAcc \in [Acc -> Conn \cup {None}] /\ gone \subseteq Conn
  /\ at \in [Conn -> Map \cup {None}] /\ pos \in [Conn -> 0..MaxMoves]
  /\ pc \in [Conn -> {"new", "supersede", "loop", "frame", "notify", "close", "last", "done"}]
  /\ todo \in [Conn -> Seq(Map)]
  /\ view \in [Conn -> Body] /\ list \in [Conn -> [body : Body, to : SUBSET Conn]]
  /\ old \in [Conn -> Conn \cup {None}] /\ moves \in 0..MaxMoves
  /\ before \cup passed \subseteq Conn \X Conn /\ behind \subseteq Conn

(* Nobody has anything left to do: every closed connection's thread ended. *)
Quiet == \A c \in Conn : pc[c] \in {"new", "loop", "done"} /\ (pc[c] = "loop" => c \notin gone)

(* When everything has been written, a player on a map has the list of the *)
(* players who are on it, at their places, whoever came, moved, left, was  *)
(* closed or superseded in whatever order; only a player to whom an older  *)
(* list was written after a newer one, or whose newest list was too long   *)
(* to be sent or failed, may have another (notify_map, send_frame).        *)
QuietViews ==
  Quiet => \A m \in Map : \A c \in OnMap(m) \ behind : view[c] = PlayersOn(m)

(* A client is sent only lists that name itself: the list of the map it    *)
(* was on when the list was taken (notify_map).                            *)
ListsNameReceiver ==
  \A c \in Conn : view[c] # Nobody => \E p \in view[c].players : p[1] = AccOf[c]

(* A player who was closed leaves the lists of the others in the end,      *)
(* unless they have gone, were written an older list last or not sent the  *)
(* newest, or the account is on the map again; and unless a thread stays   *)
(* for ever at a send to a peer that does not read (handle_client).        *)
Sees(d, c) == \E p \in view[d].players : p[1] = AccOf[c]
GhostsLeave ==
  \/ \A c \in Conn : \A d \in Conn \ {c} :
       c \in gone /\ d \notin gone /\ Sees(d, c)
         ~> ~Sees(d, c) \/ d \in gone \cup behind \/ at[d] # view[d].map
            \/ \E e \in OnMap(view[d].map) : AccOf[e] = AccOf[c]
  \/ \E t \in Conn : <>[]Held(t)

(* The lists that players see of each other: right when all is quiet, and  *)
(* never one without the receiver (notify_map).                            *)
MapViews == TypeOK /\ QuietViews /\ ListsNameReceiver
=============================================================================
