------------------------------ MODULE PushHub ------------------------------
(***************************************************************************)
(* The long-connection push hub (src/src/push_hub.cpp): the accept thread, *)
(* one handler thread per connection, the registry by_acc of the           *)
(* connection of each account, the threads of the HTTP gateway that push,  *)
(* stop(), and under them the descriptor table of the process, in which a  *)
(* closed number is handed out again by the next accept.                   *)
(*                                                                         *)
(* A Conn object and the TCP connection it stands for share one name.      *)
(* Frames are abstracted to the reply they cause.  The routes of waves are *)
(* in PushWave and the player lists of maps in PushMap: here a frame to    *)
(* another connection is only a send, with what its failure does.          *)
(***************************************************************************)
EXTENDS Naturals, FiniteSets

CONSTANTS Conn,      \* TCP connections that ever arrive
          Acc,       \* accounts
          Fd,        \* descriptor numbers the kernel hands out
          Pusher,    \* gateway threads inside push_to_acc or broadcast
          Stopper,   \* the main thread, in stop()
          Stalled,   \* the connections whose peer stops reading and stays
          None,      \* no connection, no account, kInvalidSocket
          MaxConns   \* config.push_max_conns

Thread == Conn \cup Pusher \cup {Stopper}

ASSUME HubAssumption ==
  /\ MaxConns \in Nat \ {0}
  /\ IsFiniteSet(Conn)
  /\ Conn \cap Pusher = {} /\ Stopper \notin Conn \cup Pusher
  /\ None \notin Conn \cup Acc \cup Fd

ASSUME PeersAssumption == Stalled \subseteq Conn

VARIABLES
  alive,     \* the process runs
  running,   \* g_hub.running
  listening, \* listen_sock is open
  acceptPc,  \* the accept thread
  incoming,  \* the connection the accept thread works on
  stopPc,    \* stop()
  byAcc,     \* g_hub.by_acc
  active,    \* g_hub.active
  file,      \* the descriptor table: the connection a number names
  pc,        \* the handler thread of a connection
  acc,       \* Conn::acc
  sock,      \* Conn::sock
  closed,    \* Conn::closed
  rfd,       \* the descriptor read_frame was called with
  job,       \* the send_frame a thread is in
  queue,     \* connections a thread has still to send to (or to close)
  closeStep, \* where a thread is in Conn::close()
  victim     \* the connection it closes

accVars   == <<acceptPc, incoming, listening>>
hubVars   == <<byAcc, active, running, stopPc, alive>>
connVars  == <<acc, sock, closed, file>>
sendVars  == <<job, queue>>
closeVars == <<closeStep, victim>>
vars == <<accVars, hubVars, connVars, sendVars, closeVars, pc, rfd>>

NoJob == [kind |-> "none", to |-> None, fd |-> None, st |-> "idle"]

\* The handler threads that count in g_hub.active.
Counted == {"loop", "read", "auth", "register", "evict", "reply", "leave", "shut", "dec"}
\* The phases in which a connection may stand in by_acc.
Online  == {"loop", "read", "evict", "reply", "leave"}

Registered == {byAcc[a] : a \in Acc} \ {None}

Job(kind, c) == [kind |-> kind, to |-> c, fd |-> None, st |-> "sock"]

Init ==
  /\ alive = TRUE /\ running = TRUE /\ listening = TRUE
  /\ acceptPc = "loop" /\ incoming = None
  /\ stopPc = "idle"
  /\ byAcc = [a \in Acc |-> None] /\ active = 0
  /\ file = [f \in Fd |-> None]
  /\ pc = [c \in Conn |-> "none"]
  /\ acc = [c \in Conn |-> None]
  /\ sock = [c \in Conn |-> None]
  /\ closed = [c \in Conn |-> FALSE]
  /\ rfd = [c \in Conn |-> None]
  /\ job = [t \in Thread |-> NoJob]
  /\ queue = [t \in Thread |-> {}]
  /\ closeStep = [t \in Thread |-> "idle"]
  /\ victim = [t \in Thread |-> None]

\* A thread enters Conn::close() on the connection v.
BeginClose(t, v) ==
  /\ closeStep' = [closeStep EXCEPT ![t] = "enter"]
  /\ victim' = [victim EXCEPT ![t] = v]

NotClosing(t) == closeStep[t] = "idle"

-----------------------------------------------------------------------------
(* Faulty variants of the actions below, which a property must find.       *)

\* close() without the exchange: every caller closes the number.
FaultyCloseExchange(t) ==
  /\ alive /\ closeStep[t] = "enter"
  /\ closed' = [closed EXCEPT ![victim[t]] = TRUE]
  /\ closeStep' = [closeStep EXCEPT ![t] = IF sock[victim[t]] = None THEN "idle" ELSE "fd"]
  /\ victim' = [victim EXCEPT ![t] = IF sock[victim[t]] = None THEN None ELSE @]
  /\ UNCHANGED <<accVars, hubVars, sendVars, acc, sock, file, pc, rfd>>

\* close() that tests closed and does not set it.
TestingCloseExchange(t) ==
  /\ alive /\ closeStep[t] = "enter"
  /\ closeStep' = [closeStep EXCEPT ![t] = IF closed[victim[t]] THEN "idle" ELSE "fd"]
  /\ victim' = [victim EXCEPT ![t] = IF closed[victim[t]] THEN None ELSE @]
  /\ UNCHANGED <<accVars, hubVars, sendVars, acc, sock, closed, file, pc, rfd>>

\* A thread that could not be started stays in the count.
SpawnFailsCounts ==
  /\ alive /\ acceptPc = "spawn"
  /\ file' = [file EXCEPT ![sock[incoming]] = None]
  /\ sock' = [sock EXCEPT ![incoming] = None]
  /\ closed' = [closed EXCEPT ![incoming] = TRUE]
  /\ pc' = [pc EXCEPT ![incoming] = "done"]
  /\ incoming' = None /\ acceptPc' = "loop"
  /\ UNCHANGED <<listening, hubVars, sendVars, closeVars, acc, rfd>>

\* unregister_conn that erases whoever holds the account.
FaultyUnregister(c) ==
  /\ alive /\ pc[c] = "leave" /\ NotClosing(c)
  /\ byAcc' = [a \in Acc |-> IF a = acc[c] THEN None ELSE byAcc[a]]
  /\ pc' = [pc EXCEPT ![c] = "shut"]
  /\ BeginClose(c, c)
  /\ UNCHANGED <<accVars, active, running, stopPc, alive, connVars, sendVars, rfd>>

\* register_conn that forgets the connection it displaces.
FaultyRegister(c) ==
  /\ alive /\ pc[c] = "register"
  /\ byAcc' = [byAcc EXCEPT ![acc[c]] = c]
  /\ pc' = [pc EXCEPT ![c] = "evict"]
  /\ UNCHANGED <<closeVars, accVars, active, running, stopPc, alive, connVars, sendVars, rfd>>

\* A broadcast that sends to the same connection until the send succeeds.
FaultyPushFails(p) ==
  /\ alive /\ NotClosing(p) /\ job[p].st = "write"
  /\ BeginClose(p, job[p].to)
  /\ job' = [job EXCEPT ![p].st = "sock"]
  /\ UNCHANGED <<accVars, hubVars, connVars, queue, pc, rfd>>

-----------------------------------------------------------------------------
(* Conn::close(), run by thread t.                                         *)

\* closed.exchange(true): only the first caller goes on.
CloseExchange(t) ==
  LET v == victim[t] IN
  /\ alive /\ closeStep[t] = "enter"
  /\ closed' = [closed EXCEPT ![v] = TRUE]
  /\ closeStep' = [closeStep EXCEPT ![t] = IF closed[v] THEN "idle" ELSE "fd"]
  /\ victim' = [victim EXCEPT ![t] = IF closed[v] THEN None ELSE v]
  /\ UNCHANGED <<accVars, hubVars, sendVars, acc, sock, file, pc, rfd>>

\* shutdown and close_socket: the number is free for the next accept.
CloseFd(t) ==
  /\ alive /\ closeStep[t] = "fd"
  /\ file' = [file EXCEPT ![sock[victim[t]]] = None]
  /\ closeStep' = [closeStep EXCEPT ![t] = "sock"]
  /\ UNCHANGED <<accVars, hubVars, sendVars, acc, sock, closed, victim, pc, rfd>>

\* sock = kInvalidSocket, after the number is already free.
CloseClear(t) ==
  /\ alive /\ closeStep[t] = "sock"
  /\ sock' = [sock EXCEPT ![victim[t]] = None]
  /\ closeStep' = [closeStep EXCEPT ![t] = "idle"]
  /\ victim' = [victim EXCEPT ![t] = None]
  /\ UNCHANGED <<accVars, hubVars, sendVars, acc, closed, file, pc, rfd>>

-----------------------------------------------------------------------------
(* send_frame, run by thread t: the argument c->sock is evaluated first,   *)
(* the bytes go later to whatever the number then names.                   *)

EvalSock(t) ==
  /\ alive /\ NotClosing(t) /\ job[t].st = "sock"
  /\ job' = [job EXCEPT ![t].fd = sock[job[t].to], ![t].st = "write"]
  /\ UNCHANGED <<accVars, hubVars, connVars, closeVars, queue, pc, rfd>>

\* Nothing but an open descriptor takes the bytes.
CanWrite(t) ==
  /\ NotClosing(t) /\ job[t].st = "write"
  /\ job[t].fd # None /\ file[job[t].fd] # None
\* A send may always fail: the peer is gone, or the number names nothing.
MayFail(t) == NotClosing(t) /\ job[t].st = "write"

\* Where the handler goes after a reply.
AfterReply(kind, ok) ==
  IF kind = "auth_fail" \/ (kind \in {"auth_ok", "pong"} /\ ~ok) THEN "leave" ELSE "loop"

\* A reply to its own client, or a wave_ok to the sender of a wave.
FinishReply(c) ==
  /\ alive /\ pc[c] = "reply" /\ job[c].kind # "wave"
  /\ \E ok \in BOOLEAN :
       /\ IF ok THEN CanWrite(c) ELSE MayFail(c)
       /\ pc' = [pc EXCEPT ![c] = AfterReply(job[c].kind, ok)]
  /\ job' = [job EXCEPT ![c] = NoJob]
  /\ UNCHANGED <<accVars, hubVars, connVars, closeVars, queue, rfd>>

\* handle_wave after its send.  With an id the answer comes from the receiver;
\* without one the sender is told at once.
WaveSent(c) ==
  /\ alive /\ pc[c] = "reply" /\ job[c].kind = "wave" /\ CanWrite(c)
  /\ pc' = [pc EXCEPT ![c] = "loop"]
  /\ job' = [job EXCEPT ![c] = NoJob]
  /\ UNCHANGED <<accVars, hubVars, connVars, closeVars, queue, rfd>>

WaveSentOldProtocol(c) ==
  /\ alive /\ pc[c] = "reply" /\ job[c].kind = "wave" /\ CanWrite(c)
  /\ job' = [job EXCEPT ![c] = Job("wave_ok", c)]
  /\ UNCHANGED <<accVars, hubVars, connVars, closeVars, queue, pc, rfd>>

\* A target that cannot be written to is closed by the sender's thread.
WaveSendFails(c) ==
  /\ alive /\ pc[c] = "reply" /\ job[c].kind = "wave" /\ MayFail(c)
  /\ BeginClose(c, job[c].to)
  /\ job' = [job EXCEPT ![c] = Job("wave_fail", c)]
  /\ UNCHANGED <<accVars, hubVars, connVars, queue, pc, rfd>>

-----------------------------------------------------------------------------
(* accept_loop: one thread, the only one that raises active.               *)

AcceptLoop ==
  /\ alive /\ acceptPc = "loop"
  /\ acceptPc' = IF running THEN "poll" ELSE "ended"
  /\ UNCHANGED <<incoming, listening, hubVars, connVars, sendVars, closeVars, pc, rfd>>

\* poll times out, or accept fails: no connection, no descriptor, no listener.
AcceptNothing ==
  /\ alive /\ acceptPc = "poll"
  /\ acceptPc' = "loop"
  /\ UNCHANGED <<incoming, listening, hubVars, connVars, sendVars, closeVars, pc, rfd>>

AcceptConn(c, f) ==
  /\ alive /\ acceptPc = "poll" /\ listening
  /\ pc[c] = "none" /\ file[f] = None
  /\ file' = [file EXCEPT ![f] = c]
  /\ sock' = [sock EXCEPT ![c] = f]
  /\ pc' = [pc EXCEPT ![c] = "accepted"]
  /\ incoming' = c /\ acceptPc' = "check"
  /\ UNCHANGED <<listening, hubVars, sendVars, closeVars, acc, closed, rfd>>

\* At capacity: the socket is closed before there is a Conn.
RejectConn ==
  /\ alive /\ acceptPc = "check" /\ active >= MaxConns
  /\ file' = [file EXCEPT ![sock[incoming]] = None]
  /\ sock' = [sock EXCEPT ![incoming] = None]
  /\ closed' = [closed EXCEPT ![incoming] = TRUE]
  /\ pc' = [pc EXCEPT ![incoming] = "done"]
  /\ incoming' = None /\ acceptPc' = "loop"
  /\ UNCHANGED <<listening, hubVars, sendVars, closeVars, acc, rfd>>

AdmitConn ==
  /\ alive /\ acceptPc = "check" /\ active < MaxConns
  /\ active' = active + 1
  /\ acceptPc' = "spawn"
  /\ UNCHANGED <<incoming, listening, byAcc, running, stopPc, alive,
                 connVars, sendVars, closeVars, pc, rfd>>

SpawnHandler ==
  /\ alive /\ acceptPc = "spawn"
  /\ pc' = [pc EXCEPT ![incoming] = "loop"]
  /\ incoming' = None /\ acceptPc' = "loop"
  /\ UNCHANGED <<listening, hubVars, connVars, sendVars, closeVars, rfd>>

\* std::thread throws: nobody else knows the connection, its close is one step.
SpawnFails ==
  /\ alive /\ acceptPc = "spawn"
  /\ active' = active - 1
  /\ file' = [file EXCEPT ![sock[incoming]] = None]
  /\ sock' = [sock EXCEPT ![incoming] = None]
  /\ closed' = [closed EXCEPT ![incoming] = TRUE]
  /\ pc' = [pc EXCEPT ![incoming] = "done"]
  /\ incoming' = None /\ acceptPc' = "loop"
  /\ UNCHANGED <<listening, byAcc, running, stopPc, alive, sendVars, closeVars, acc, rfd>>

-----------------------------------------------------------------------------
(* handle_client: the handler thread of connection c.                      *)

\* while (running && !closed) read_frame
LoopTop(c) ==
  /\ alive /\ pc[c] = "loop"
  /\ LET on == running /\ ~closed[c] IN
     /\ pc' = [pc EXCEPT ![c] = IF on THEN "read" ELSE "leave"]
     /\ rfd' = [rfd EXCEPT ![c] = IF on THEN sock[c] ELSE None]
  /\ UNCHANGED <<accVars, hubVars, connVars, sendVars, closeVars>>

\* End of stream, error, 60 idle seconds, closed seen, not JSON.
ReadEnds(c) ==
  /\ alive /\ pc[c] = "read"
  /\ pc' = [pc EXCEPT ![c] = "leave"]
  /\ rfd' = [rfd EXCEPT ![c] = None]
  /\ UNCHANGED <<accVars, hubVars, connVars, sendVars, closeVars>>

\* A frame came in from whatever the descriptor names.
ReadFrame(c) == alive /\ pc[c] = "read" /\ rfd[c] # None /\ file[rfd[c]] # None

Reply(c, j) ==
  /\ pc' = [pc EXCEPT ![c] = "reply"]
  /\ job' = [job EXCEPT ![c] = j]
  /\ rfd' = [rfd EXCEPT ![c] = None]

AuthFrame(c) ==
  /\ ReadFrame(c) /\ acc[c] = None
  /\ pc' = [pc EXCEPT ![c] = "auth"]
  /\ rfd' = [rfd EXCEPT ![c] = None]
  /\ UNCHANGED <<accVars, hubVars, connVars, sendVars, closeVars>>

OtherFirstFrame(c) ==
  /\ ReadFrame(c) /\ acc[c] = None
  /\ Reply(c, Job("auth_fail", c))
  /\ UNCHANGED <<accVars, hubVars, connVars, closeVars, queue>>

\* session_validate names the account, or none.
AuthValid(c, a) ==
  /\ alive /\ pc[c] = "auth"
  /\ acc' = [acc EXCEPT ![c] = a]
  /\ pc' = [pc EXCEPT ![c] = "register"]
  /\ UNCHANGED <<accVars, hubVars, sendVars, closeVars, sock, closed, file, rfd>>

AuthInvalid(c) ==
  /\ alive /\ pc[c] = "auth"
  /\ Reply(c, Job("auth_fail", c))
  /\ UNCHANGED <<accVars, hubVars, connVars, closeVars, queue>>

\* An exception leaves the thread's function: a database error in
\* session_validate, a frame that is no JSON object, a field of another type,
\* a text cut inside a character.  std::terminate ends the whole process.
HandlerThrows(c) ==
  /\ alive /\ (pc[c] = "auth" \/ ReadFrame(c))
  /\ alive' = FALSE
  /\ UNCHANGED <<accVars, byAcc, active, running, stopPc, connVars, sendVars, closeVars, pc, rfd>>

\* register_conn under g_hub.mu; the old connection is closed outside it.
Register(c) ==
  LET old == byAcc[acc[c]] IN
  /\ alive /\ pc[c] = "register"
  /\ byAcc' = [byAcc EXCEPT ![acc[c]] = c]
  /\ pc' = [pc EXCEPT ![c] = "evict"]
  /\ IF old \notin {None, c} THEN BeginClose(c, old) ELSE UNCHANGED closeVars
  /\ UNCHANGED <<accVars, active, running, stopPc, alive, connVars, sendVars, rfd>>

AuthOk(c) ==
  /\ alive /\ pc[c] = "evict" /\ NotClosing(c)
  /\ pc' = [pc EXCEPT ![c] = "reply"]
  /\ job' = [job EXCEPT ![c] = Job("auth_ok", c)]
  /\ UNCHANGED <<accVars, hubVars, connVars, closeVars, queue, rfd>>

HandlePing(c) ==
  /\ ReadFrame(c) /\ acc[c] # None
  /\ Reply(c, Job("pong", c))
  /\ UNCHANGED <<accVars, hubVars, connVars, closeVars, queue>>

\* ack, presence, an unknown type: nothing of the hub's own state changes.
HandleOther(c) ==
  /\ ReadFrame(c) /\ acc[c] # None
  /\ pc' = [pc EXCEPT ![c] = "loop"]
  /\ rfd' = [rfd EXCEPT ![c] = None]
  /\ UNCHANGED <<accVars, hubVars, connVars, sendVars, closeVars>>

\* A target that is offline, or closed but still listed, is answered wave_fail.
WaveOffline(c, to) ==
  /\ ReadFrame(c) /\ acc[c] \notin {None, to}
  /\ byAcc[to] # None => closed[byAcc[to]]
  /\ Reply(c, Job("wave_fail", c))
  /\ UNCHANGED <<accVars, hubVars, connVars, closeVars, queue>>

WaveForward(c, to) ==
  /\ ReadFrame(c) /\ acc[c] \notin {None, to}
  /\ byAcc[to] # None /\ ~closed[byAcc[to]]
  /\ Reply(c, Job("wave", byAcc[to]))
  /\ UNCHANGED <<accVars, hubVars, connVars, closeVars, queue>>

\* A wave_ack answers the sender of the wave, if it is not closed.
HandleWaveAck(c, sender) ==
  /\ ReadFrame(c) /\ acc[c] # None
  /\ pc[sender] \in Online \cup {"shut"} /\ acc[sender] \notin {None, acc[c]} /\ ~closed[sender]
  /\ Reply(c, Job("wave_ok", sender))
  /\ UNCHANGED <<accVars, hubVars, connVars, closeVars, queue>>

\* unregister_conn: only while the slot still holds this connection.
Unregister(c) ==
  /\ alive /\ pc[c] = "leave" /\ NotClosing(c)
  /\ byAcc' = [a \in Acc |-> IF a = acc[c] /\ byAcc[a] = c THEN None ELSE byAcc[a]]
  /\ pc' = [pc EXCEPT ![c] = "shut"]
  /\ BeginClose(c, c)
  /\ UNCHANGED <<accVars, active, running, stopPc, alive, connVars, sendVars, rfd>>

HandlerShut(c) ==
  /\ alive /\ pc[c] = "shut" /\ NotClosing(c)
  /\ pc' = [pc EXCEPT ![c] = "dec"]
  /\ UNCHANGED <<accVars, hubVars, connVars, sendVars, closeVars, rfd>>

HandlerDone(c) ==
  /\ alive /\ pc[c] = "dec"
  /\ active' = active - 1
  /\ pc' = [pc EXCEPT ![c] = "done"]
  /\ UNCHANGED <<accVars, byAcc, running, stopPc, alive, connVars, sendVars, closeVars, rfd>>

-----------------------------------------------------------------------------
(* push_to_acc and broadcast, called from the gateway's threads.           *)

PusherIdle(p) == NotClosing(p) /\ queue[p] = {} /\ job[p] = NoJob

PushToAcc(p, a) ==
  /\ alive /\ stopPc = "idle" /\ PusherIdle(p) /\ byAcc[a] # None
  /\ job' = [job EXCEPT ![p] = Job("push", byAcc[a])]
  /\ UNCHANGED <<accVars, hubVars, connVars, closeVars, queue, pc, rfd>>

Broadcast(p) ==
  /\ alive /\ stopPc = "idle" /\ PusherIdle(p) /\ Registered # {}
  /\ queue' = [queue EXCEPT ![p] = Registered]
  /\ UNCHANGED <<accVars, hubVars, connVars, closeVars, job, pc, rfd>>

BroadcastNext(p, c) ==
  /\ alive /\ NotClosing(p) /\ job[p] = NoJob /\ c \in queue[p]
  /\ queue' = [queue EXCEPT ![p] = @ \ {c}]
  /\ job' = [job EXCEPT ![p] = Job("push", c)]
  /\ UNCHANGED <<accVars, hubVars, connVars, closeVars, pc, rfd>>

PushSent(p) ==
  /\ alive /\ CanWrite(p)
  /\ job' = [job EXCEPT ![p] = NoJob]
  /\ UNCHANGED <<accVars, hubVars, connVars, closeVars, queue, pc, rfd>>

PushFails(p) ==
  /\ alive /\ MayFail(p)
  /\ BeginClose(p, job[p].to)
  /\ job' = [job EXCEPT ![p] = NoJob]
  /\ UNCHANGED <<accVars, hubVars, connVars, queue, pc, rfd>>

-----------------------------------------------------------------------------
(* stop(), by the main thread after gateway::serve has returned, when no   *)
(* gateway thread is left; main then returns and the process exits.        *)

StopBegin ==
  /\ alive /\ stopPc = "idle" /\ \A p \in Pusher : PusherIdle(p)
  /\ running' = FALSE
  /\ stopPc' = "listener"
  /\ UNCHANGED <<accVars, byAcc, active, alive, connVars, sendVars, closeVars, pc, rfd>>

StopListener ==
  /\ alive /\ stopPc = "listener"
  /\ listening' = FALSE
  /\ stopPc' = "join"
  /\ UNCHANGED <<acceptPc, incoming, byAcc, active, running, alive,
                 connVars, sendVars, closeVars, pc, rfd>>

StopSnapshot ==
  /\ alive /\ stopPc = "join" /\ acceptPc = "ended"
  /\ queue' = [queue EXCEPT ![Stopper] = Registered]
  /\ byAcc' = [a \in Acc |-> None]
  /\ stopPc' = "close"
  /\ UNCHANGED <<accVars, active, running, alive, connVars, job, closeVars, pc, rfd>>

StopCloses(c) ==
  /\ alive /\ stopPc = "close" /\ NotClosing(Stopper) /\ c \in queue[Stopper]
  /\ queue' = [queue EXCEPT ![Stopper] = @ \ {c}]
  /\ BeginClose(Stopper, c)
  /\ UNCHANGED <<accVars, hubVars, connVars, job, pc, rfd>>

StopReturns ==
  /\ alive /\ stopPc = "close" /\ NotClosing(Stopper) /\ queue[Stopper] = {}
  /\ stopPc' = "stopped"
  /\ UNCHANGED <<accVars, byAcc, active, running, alive, connVars, sendVars, closeVars, pc, rfd>>

Exit ==
  /\ alive /\ stopPc = "stopped"
  /\ alive' = FALSE
  /\ UNCHANGED <<accVars, byAcc, active, running, stopPc, connVars, sendVars, closeVars, pc, rfd>>

-----------------------------------------------------------------------------
AcceptThread ==
  \/ AcceptLoop \/ AcceptNothing \/ RejectConn \/ AdmitConn \/ SpawnHandler \/ SpawnFails
  \/ \E c \in Conn, f \in Fd : AcceptConn(c, f)

Close(t) == CloseExchange(t) \/ CloseFd(t) \/ CloseClear(t)

Frames(c) ==
  \/ AuthFrame(c) \/ OtherFirstFrame(c) \/ HandlePing(c) \/ HandleOther(c)
  \/ \E to \in Acc : WaveOffline(c, to) \/ WaveForward(c, to)
  \/ \E s \in Conn : HandleWaveAck(c, s)

\* What the handler thread of c does by itself, without waiting for its client.
HandlerStep(c) ==
  \/ LoopTop(c) \/ AuthInvalid(c) \/ (\E a \in Acc : AuthValid(c, a))
  \/ Register(c) \/ AuthOk(c) \/ FinishReply(c)
  \/ WaveSent(c) \/ WaveSentOldProtocol(c) \/ WaveSendFails(c)
  \/ Unregister(c) \/ HandlerShut(c) \/ HandlerDone(c)

Handler(c) == HandlerStep(c) \/ ReadEnds(c) \/ Frames(c) \/ HandlerThrows(c)

Push(p) ==
  \/ \E a \in Acc : PushToAcc(p, a)
  \/ Broadcast(p) \/ PushSent(p) \/ PushFails(p)
  \/ \E c \in Conn : BroadcastNext(p, c)

Stop ==
  \/ StopBegin \/ StopListener \/ StopSnapshot \/ StopReturns \/ Exit
  \/ \E c \in Conn : StopCloses(c)

Next ==
  \/ AcceptThread
  \/ \E t \in Thread : Close(t) \/ EvalSock(t)
  \/ \E c \in Conn : Handler(c)
  \/ \E p \in Pusher : Push(p)
  \/ Stop

Spec == Init /\ [][Next]_vars

\* send_frame has no timeout and holds the write_mu of job[t].to until send()
\* is through: what thread t writes waits for a peer that does not read, its
\* own or that of the thread which has the mutex.
Held(t) ==
  /\ job[t].st = "write"
  /\ \E u \in Thread :
       /\ job[u].st = "write" /\ job[u].to = job[t].to
       /\ job[u].fd # None /\ file[job[u].fd] \in Stalled

(* The scheduler runs every thread.  A handler waiting for its client polls *)
(* closed every second, so ReadEnds is owed once closed is set, and only    *)
(* then: a client that keeps talking is never cut off.  A send is owed to   *)
(* return when the peer reads, or the number is closed (shutdown wakes it), *)
(* and never while it is held.                                              *)
Fairness ==
  /\ \A t \in Thread : WF_vars(Close(t)) /\ WF_vars(EvalSock(t))
  /\ \A c \in Conn : WF_vars((~Held(c) /\ HandlerStep(c)) \/ (closed[c] /\ ReadEnds(c)))
  /\ \A p \in Pusher : /\ WF_vars(~Held(p) /\ (PushSent(p) \/ PushFails(p)))
                        /\ WF_vars(\E c \in Conn : BroadcastNext(p, c))
  /\ WF_vars(\E c \in Conn : StopCloses(c))

FairSpec == Spec /\ Fairness

-----------------------------------------------------------------------------
(* Properties.                                                             *)

Steps == {"none", "accepted", "loop", "read", "auth", "register", "evict",
          "reply", "leave", "shut", "dec", "done"}
Kinds == {"none", "auth_fail", "auth_ok", "pong", "wave", "wave_ok", "wave_fail", "push"}

SendJobs == [kind : Kinds, to : Conn \cup {None}, fd : Fd \cup {None},
             st : {"idle", "sock", "write"}]

TypeOK ==
  /\ alive \in BOOLEAN /\ running \in BOOLEAN /\ listening \in BOOLEAN
  /\ acceptPc \in {"loop", "poll", "check", "spawn", "ended"}
  /\ incoming \in Conn \cup {None}
  /\ stopPc \in {"idle", "listener", "join", "close", "stopped"}
  /\ byAcc \in [Acc -> Conn \cup {None}]
  /\ active \in Nat
  /\ file \in [Fd -> Conn \cup {None}]
  /\ pc \in [Conn -> Steps]
  /\ acc \in [Conn -> Acc \cup {None}]
  /\ sock \in [Conn -> Fd \cup {None}]
  /\ closed \in [Conn -> BOOLEAN]
  /\ rfd \in [Conn -> Fd \cup {None}]
  /\ job \in [Thread -> SendJobs]
  /\ queue \in [Thread -> SUBSET Conn]
  /\ closeStep \in [Thread -> {"idle", "enter", "fd", "sock"}]
  /\ victim \in [Thread -> Conn \cup {None}]

\* Descriptors: until a connection is marked closed its number names it and
\* nothing else, although every thread may close every connection and the
\* number of a closed one is reused at once (Conn::close, push_hub.cpp 145).
OpenConnOwnsFd ==
  \A c \in Conn : pc[c] # "none" /\ ~closed[c] => sock[c] \in Fd /\ file[sock[c]] = c

\* No descriptor leaks: one still open after its handler thread is gone is in
\* the hands of a thread that is about to close it.
NoFdLeak ==
  \A f \in Fd : file[f] # None /\ pc[file[f]] = "done" =>
    \E t \in Thread : closeStep[t] = "fd" /\ victim[t] = file[f]

\* by_acc lists a connection under its own account only, and only while its
\* handler thread still has to run unregister_conn: no entry is left behind.
RegistryEntry ==
  \A a \in Acc : byAcc[a] # None => acc[byAcc[a]] = a /\ pc[byAcc[a]] \in Online

Superseded(c) ==
  acc[c] # None /\ pc[c] \in Online \ {"leave"} /\ ~closed[c] /\ byAcc[acc[c]] # c

\* One open connection per account: an authenticated connection that is not
\* the one listed for its account is about to be closed, by the login that
\* took its place or by stop(), or came after stop() and will see it.
OneConnPerAccount ==
  \A c \in Conn : Superseded(c) =>
    \E t \in Thread : victim[t] = c \/ (t = Stopper /\ c \in queue[t])

Handlers == {c \in Conn : pc[c] \in Counted}

\* g_hub.active is exact on every path, spawn failure included (line 625).
CounterExact ==
  active = Cardinality(Handlers) + (IF acceptPc = "spawn" THEN 1 ELSE 0)

\* There are never more handler threads than push_max_conns: the bound that
\* the comment at line 175 says protects the whole process.
ThreadsBounded == Cardinality(Handlers) <= MaxConns

\* A frame for a connection that is still open goes to that connection.
OpenTargetGetsFrame ==
  \A t \in Thread : job[t].st = "write" /\ ~closed[job[t].to] =>
    job[t].fd # None /\ file[job[t].fd] = job[t].to

\* The header (push_hub.hpp 31) promises that push_to_acc returns true when
\* the message was pushed to the named account: no push is about to be written
\* to a connection that is logged in as somebody else.
PushReachesOnlyItsAccount ==
  \A p \in Pusher : job[p].st = "write" /\ job[p].fd # None =>
    \/ file[job[p].fd] = None
    \/ acc[file[job[p].fd]] \in {acc[job[p].to], None}

\* A second login ends the first: a connection that was superseded ends and
\* gives its thread back, but for one whose thread stays for ever at a send to
\* a peer that does not read.
SupersededEnds ==
  \A c \in Conn : (Superseded(c) ~> (pc[c] = "done" \/ ~alive)) \/ <>[]Held(c)

\* A closed connection does not stay in the list of the players online, with
\* the same exception.
ClosedGoesOffline ==
  \A c \in Conn : (closed[c] ~> (c \notin Registered \/ ~alive)) \/ <>[]Held(c)

\* A push returns to the gateway's thread, whatever was closed, superseded or
\* reused under it meanwhile, unless it stays for ever at one send that a peer
\* which does not read holds up (push_hub.cpp 127: no timeout).
PushReturns ==
  \A p \in Pusher : (~PusherIdle(p) ~> (PusherIdle(p) \/ ~alive)) \/ <>[]Held(p)

\* What the runs check: the properties above, two by two.

\* Every open connection has its descriptor, and every descriptor in use an
\* open connection or a thread about to free it (Conn::close, 145).
Descriptors == OpenConnOwnsFd /\ NoFdLeak

\* by_acc has at most one connection of an account, its own and live; every
\* other one of the account is about to be closed (register_conn, 312).
Registry == TypeOK /\ RegistryEntry /\ OneConnPerAccount

\* The count of handler threads is exact, and they are no more than the
\* configuration allows (accept_loop, 604).
ThreadCount == CounterExact /\ ThreadsBounded

\* A connection that was superseded, or closed by anybody, ends and leaves the
\* list of the players online (handle_client, 561).
ConnectionsEnd == SupersededEnds /\ ClosedGoesOffline
-----------------------------------------------------------------------------
(* What an induction needs besides.                                        *)

\* Connections that handler threads, pushers and stop() may know of.
Known(c) == pc[c] \notin {"none", "accepted"}

\* The accept thread is alone with the connection it has just accepted.
IncomingPrivate ==
  /\ acceptPc \in {"check", "spawn"} =>
       incoming \in Conn /\ pc[incoming] = "accepted"
  /\ \A c \in Conn : pc[c] = "accepted" => acceptPc \in {"check", "spawn"} /\ incoming = c
  /\ \A c \in Conn : ~Known(c) => ~closed[c] /\ acc[c] = None
  /\ \A t \in Thread : victim[t] # None => Known(victim[t])
  /\ \A t \in Thread : job[t].to # None => Known(job[t].to)
  /\ \A t \in Thread : \A c \in queue[t] : Known(c)

\* One thread, and one only, takes a closed connection's descriptor away.
ClosersApart ==
  /\ \A t \in Thread : (closeStep[t] = "idle") <=> (victim[t] = None)
  /\ \A t \in Thread : closeStep[t] \in {"fd", "sock"} => closed[victim[t]]
  /\ \A t \in Thread : closeStep[t] = "fd" =>
       sock[victim[t]] \in Fd /\ file[sock[victim[t]]] = victim[t]
  /\ \A t, u \in Thread :
       closeStep[t] \in {"fd", "sock"} /\ closeStep[u] \in {"fd", "sock"}
         /\ victim[t] = victim[u] => t = u

\* A thread that closes a connection does nothing else meanwhile; only an
\* authenticated connection registers.
Busy ==
  /\ \A c \in Conn : /\ pc[c] = "register" => acc[c] # None
                     /\ pc[c] = "auth" => acc[c] = None
  /\ \A c \in Conn : closeStep[c] # "idle" => pc[c] \in {"evict", "reply", "shut"}
  /\ \A t \in Thread : job[t].st # "idle" => job[t].to # None
  /\ stopPc \in {"idle", "listener", "join"} => queue[Stopper] = {} /\ closeStep[Stopper] = "idle"

IInv ==
  /\ TypeOK /\ IncomingPrivate /\ ClosersApart /\ Busy
  /\ OpenConnOwnsFd /\ RegistryEntry /\ OneConnPerAccount /\ OpenTargetGetsFrame
  /\ CounterExact /\ active <= MaxConns

\* Every descriptor in use is some connection's current one, and a closed
\* connection's is on its way to be freed; a thread leaves only when closed.
FdsHeld ==
  /\ \A f \in Fd : file[f] # None =>
       /\ sock[file[f]] = f /\ pc[file[f]] # "none"
       /\ closed[file[f]] => \E t \in Thread : closeStep[t] = "fd" /\ victim[t] = file[f]
  /\ \A c \in Conn : pc[c] \in {"dec", "done"} => closed[c]
  /\ \A c \in Conn : pc[c] = "shut" /\ ~closed[c] => closeStep[c] = "enter" /\ victim[c] = c

=============================================================================
