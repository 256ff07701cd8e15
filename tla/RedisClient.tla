------------------------------ MODULE RedisClient ------------------------------
(***************************************************************************)
(* The Redis client (redis.cpp): two connections, each with a mutex.  A    *)
(* call tries both, beginning with the next in turn, and waits for that    *)
(* one if both are busy.  command_unlocked connects if it must (AUTH and   *)
(* SELECT are one exchange here, the set-up), sends the command and reads  *)
(* the reply; when anything fails the connection is closed and the command *)
(* is tried once more.                                                     *)
(*                                                                         *)
(* A reply may be late, or never come: the client does not know whether a  *)
(* command was run, and one it gave up may still be.                       *)
(***************************************************************************)
EXTENDS Naturals, Sequences

CONSTANTS Thread, Socket, None, MaxCalls

RedisAssumption == None \notin Thread \cup Socket /\ MaxCalls \in Nat \ {0}

Slot  == {0, 1}      \* kPoolSize
Call  == 1..MaxCalls \* calls, in the order in which they are made
Setup == 0           \* AUTH and SELECT

VARIABLES
  next,        \* the slot the next call begins with
  owner, sock, \* Conn::mutex and Conn::socket of a slot
  pc, slot, call, tries, \* a thread: its slot, its call, the attempts that failed
  inbox, outbox, \* of a socket: commands under way to the server, and replies
  ready,       \* sockets on which the server has done the set-up
  made,        \* calls made
  ran,         \* history: how often the server ran a call
  stage,       \* history: how far a call is, as in RedisCall
  reply,       \* history: the command whose reply a call was given
  stray        \* history: calls that were run without the set-up

pool   == <<next, owner, sock>>
thread == <<pc, slot, call, tries>>
server == <<inbox, outbox, ready>>
history == <<ran, stage, reply, stray>>
vars   == <<pool, thread, server, made, history>>

Init ==
  /\ next = 0 /\ owner = [i \in Slot |-> None] /\ sock = [i \in Slot |-> None]
  /\ pc = [t \in Thread |-> "idle"] /\ slot = [t \in Thread |-> 0]
  /\ call = [t \in Thread |-> 0] /\ tries = [t \in Thread |-> 0]
  /\ inbox = [s \in Socket |-> <<>>] /\ outbox = [s \in Socket |-> <<>>] /\ ready = {}
  /\ made = 0 /\ ran = [n \in Call |-> 0] /\ stray = {}
  /\ stage = [n \in Call |-> "new"] /\ reply = [n \in Call |-> 0]

Go(t, where) == pc' = [pc EXCEPT ![t] = where]
Mine(t) == sock[slot[t]]

-----------------------------------------------------------------------------
(* Faulty variants of the operators below, which a property must find.     *)

\* The reply that did not come is forgotten, the connection is kept.
KeepSocket(t) == UNCHANGED <<sock, outbox>>

\* Attempts are counted from one.
Thrice(t) == tries[t] < 2

\* The mutex is kept when the call returns.
KeepLock(t) == owner' = owner

-----------------------------------------------------------------------------
(* Hold: a connection of the pool.                                         *)

Begin(t) ==
  /\ pc[t] = "idle" /\ made < MaxCalls /\ made' = made + 1 /\ Go(t, "try")
  /\ call' = [call EXCEPT ![t] = made'] /\ stage' = [stage EXCEPT ![made'] = "open"]
  /\ slot' = [slot EXCEPT ![t] = next] /\ next' = 1 - next
  /\ UNCHANGED <<owner, sock, tries, server, ran, reply, stray>>

Free(t) == owner[slot[t]] = None

Lock(t) ==
  /\ pc[t] \in {"try", "other", "wait"} /\ Free(t) /\ Go(t, "attempt")
  /\ owner' = [owner EXCEPT ![slot[t]] = t]
  /\ UNCHANGED <<next, sock, slot, call, tries, server, made, history>>

\* try_lock fails: the other slot is tried, then the first is waited for.
TryNext(t) ==
  /\ pc[t] \in {"try", "other"} /\ ~Free(t)
  /\ Go(t, IF pc[t] = "try" THEN "other" ELSE "wait")
  /\ slot' = [slot EXCEPT ![t] = 1 - @]
  /\ UNCHANGED <<pool, call, tries, server, made, history>>

Unlock(t) == owner' = [owner EXCEPT ![slot[t]] = None]

-----------------------------------------------------------------------------
(* command_unlocked.                                                       *)

Return(t, how, what) ==
  /\ Go(t, "idle") /\ Unlock(t)
  /\ stage' = [stage EXCEPT ![call[t]] = how] /\ reply' = [reply EXCEPT ![call[t]] = what]
  /\ call' = [call EXCEPT ![t] = 0] /\ tries' = [tries EXCEPT ![t] = 0]

MoreTries(t) == tries[t] = 0

\* An attempt failed: once more, or the call has failed.
TryAgain(t) ==
  IF MoreTries(t)
  THEN Go(t, "attempt") /\ tries' = [tries EXCEPT ![t] = @ + 1] /\ UNCHANGED <<owner, call, stage, reply>>
  ELSE Return(t, "failed", 0)

\* close_unlocked: replies that come now are lost.
CloseSocket(t) ==
  /\ sock' = [sock EXCEPT ![slot[t]] = None]
  /\ outbox' = [outbox EXCEPT ![Mine(t)] = <<>>]

Unused(s) == inbox[s] = <<>> /\ outbox[s] = <<>> /\ \A i \in Slot : sock[i] # s

\* connect_unlocked, as far as the first bytes of the set-up.
Connected(t, s) ==
  /\ sock' = [sock EXCEPT ![slot[t]] = s] /\ Go(t, "setup")
  /\ inbox' = [inbox EXCEPT ![s] = <<Setup>>] /\ UNCHANGED <<slot, call, tries>>

Connect(t, s) ==
  /\ pc[t] = "attempt" /\ Mine(t) = None /\ Unused(s) /\ Connected(t, s)
  /\ ready' = ready \ {s}
  /\ UNCHANGED <<next, owner, outbox, made, history>>

ConnectFails(t) ==
  /\ pc[t] = "attempt" /\ Mine(t) = None /\ TryAgain(t)
  /\ UNCHANGED <<next, sock, slot, server, made, ran, stray>>

Send(t) ==
  /\ pc[t] = "send" \/ (pc[t] = "attempt" /\ Mine(t) # None)
  /\ Go(t, "receive")
  /\ inbox' = [inbox EXCEPT ![Mine(t)] = Append(@, call[t])]
  /\ UNCHANGED <<pool, slot, call, tries, outbox, ready, made, history>>

\* A reply is read, whatever command it belongs to.
Receive(t) ==
  /\ pc[t] \in {"setup", "receive"} /\ outbox[Mine(t)] # <<>>
  /\ outbox' = [outbox EXCEPT ![Mine(t)] = Tail(@)]
  /\ IF pc[t] = "setup"
     THEN Go(t, "send") /\ UNCHANGED <<owner, call, tries, stage, reply>>
     ELSE Return(t, "answered", Head(outbox[Mine(t)]))
  /\ UNCHANGED <<next, sock, slot, inbox, ready, made, ran, stray>>

\* Sending fails, the set-up is refused, no reply comes in time, or half of one.
AttemptFails(t) ==
  /\ pc[t] \in {"setup", "send", "receive"} \/ (pc[t] = "attempt" /\ Mine(t) # None)
  /\ CloseSocket(t) /\ TryAgain(t)
  /\ UNCHANGED <<next, slot, inbox, ready, made, ran, stray>>

-----------------------------------------------------------------------------
(* The server, and the network.                                            *)

Open(s) == \E i \in Slot : sock[i] = s

Serve(s) ==
  /\ inbox[s] # <<>> /\ inbox' = [inbox EXCEPT ![s] = Tail(@)]
  /\ outbox' = IF Open(s) THEN [outbox EXCEPT ![s] = Append(@, Head(inbox[s]))] ELSE outbox
  /\ LET n == Head(inbox[s]) IN
       IF n = Setup
       THEN ready' = ready \cup {s} /\ UNCHANGED <<ran, stray>>
       ELSE /\ ran' = [ran EXCEPT ![n] = @ + 1] /\ ready' = ready
            /\ stray' = IF s \in ready THEN stray ELSE stray \cup {n}
  /\ UNCHANGED <<pool, thread, made, stage, reply>>

\* The connection breaks, and what was under way on it is lost.
Break(s) ==
  /\ inbox[s] # <<>> \/ outbox[s] # <<>>
  /\ inbox' = [inbox EXCEPT ![s] = <<>>] /\ outbox' = [outbox EXCEPT ![s] = <<>>]
  /\ UNCHANGED <<pool, thread, ready, made, history>>

Work(t) ==
  \/ TryNext(t) \/ ConnectFails(t) \/ Send(t) \/ Receive(t) \/ AttemptFails(t)
  \/ \E s \in Socket : Connect(t, s)

Next ==
  \/ \E t \in Thread : Begin(t) \/ Lock(t) \/ Work(t)
  \/ \E s \in Socket : Serve(s) \/ Break(s)

Spec == Init /\ [][Next]_vars

-----------------------------------------------------------------------------
(* The variables keep their types, and a command is tried twice at most.   *)
Inside == {"attempt", "setup", "send", "receive"}
TypeOK ==
  /\ next \in Slot /\ owner \in [Slot -> Thread \cup {None}]
  /\ sock \in [Slot -> Socket \cup {None}] /\ (sock[0] = sock[1] => sock[0] = None)
  /\ pc \in [Thread -> Inside \cup {"idle", "try", "other", "wait"}]
  /\ slot \in [Thread -> Slot] /\ call \in [Thread -> 0..MaxCalls]
  /\ tries \in [Thread -> 0..1] /\ made \in 0..MaxCalls
  /\ \A s \in Socket : {inbox[s], outbox[s]} \subseteq Seq(0..MaxCalls)
  /\ ready \subseteq Socket /\ ran \in [Call -> Nat] /\ stray \subseteq Call

(* A connection is used by one thread at a time, the one that holds its    *)
(* mutex; and who holds a mutex is at work on the connection and waits for *)
(* no other: threads cannot wait in a circle for the pool (Hold).          *)
HolderWorks ==
  /\ \A t \in Thread : pc[t] \in Inside <=> owner[slot[t]] = t
  /\ \A i \in Slot : owner[i] # None => slot[owner[i]] = i

(* A call is answered with the reply to its own command, never with one    *)
(* that an earlier command on the connection left behind, whatever timed   *)
(* out before (command_unlocked).                                          *)
ReplyIsOwn == \A n \in Call : stage[n] = "answered" => reply[n] = n

(* A command is run on a connection whose set-up was answered, so never    *)
(* in another database than the configured one (connect_unlocked).         *)
AfterSetup == stray = {}

(* The client keeps what RedisCall promises.                               *)
Promise == INSTANCE RedisCall
KeepsPromise == Promise!Spec

(* Every reply is of the caller's own command, run in the right database   *)
(* (command_unlocked, connect_unlocked).                                   *)
Replies == TypeOK /\ ReplyIsOwn /\ AfterSetup
=============================================================================
