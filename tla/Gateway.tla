-------------------------------- MODULE Gateway --------------------------------
(***************************************************************************)
(* Connections of the gateway (gateway.cpp, with the accept loop and the   *)
(* thread pool of the vendored httplib.h): the limit on the connections of *)
(* one peer, the light threads that take every connection first, and the   *)
(* slow threads to which transfers of saves and packages are handed over.  *)
(*                                                                         *)
(* The count of a peer is kept under the name getpeername gives, which is  *)
(* "?" once the peer has reset the connection.                             *)
(***************************************************************************)
EXTENDS Naturals, FiniteSets

CONSTANTS Conn, Peer,
          PeerOf,        \* where a connection comes from
          Slow,          \* those that bring a slow transfer
          Banned,        \* kBannedPeers
          Unknown,       \* the name "?"
          MaxPerPeer,    \* kMaxConnsPerPeer
          LightThreads, LightQueue, SlowThreads, SlowQueue

GatewayAssumption ==
  /\ PeerOf \in [Conn -> Peer] /\ Slow \subseteq Conn /\ Banned \subseteq Peer
  /\ Unknown \notin Peer
  /\ {MaxPerPeer, LightThreads, LightQueue, SlowThreads, SlowQueue} \subseteq Nat \ {0}

VARIABLES
  at,     \* where a connection is
  reset,  \* connections the peer has reset
  held,   \* held_: the connections counted under each name
  name    \* history: the name a connection was counted under

vars == <<at, reset, held, name>>

Init ==
  /\ at = [c \in Conn |-> "away"] /\ reset = {}
  /\ held = [p \in Peer \cup {Unknown} |-> 0]
  /\ name = [c \in Conn |-> Unknown]

In(place)      == {c \in Conn : at[c] = place}
Move(c, place) == at' = [at EXCEPT ![c] = place]
PeerName(c)    == IF c \in reset THEN Unknown ELSE PeerOf[c]

-----------------------------------------------------------------------------
(* Faulty variants of the operators below, which a property must find.     *)

\* A connection that found no room in the queue is not given back.
KeepCount(p) == held

\* A transfer that cannot be handed over is dropped.
DropSlow(c) ==
  /\ at[c] = "light" /\ Move(c, IF c \in Slow THEN "refused" ELSE "serve")
  /\ UNCHANGED <<reset, held, name>>

-----------------------------------------------------------------------------
\* The peer opens the connection, which waits to be accepted.
Connect(c) == at[c] = "away" /\ Move(c, "backlog") /\ UNCHANGED <<reset, held, name>>

\* The peer resets it.
Reset(c) ==
  /\ at[c] \notin {"away", "refused", "closed"} /\ c \notin reset
  /\ reset' = reset \cup {c} /\ UNCHANGED <<at, held, name>>

\* PeerGate::release, under the name the socket has by now.
Released(p) == [held EXCEPT ![p] = IF @ > 0 THEN @ - 1 ELSE 0]

\* PeerGate::admit
HasRoom(p) == held[p] < MaxPerPeer
Admits(c) == PeerName(c) \notin Banned /\ HasRoom(PeerName(c))

\* The accept loop: admitted and queued, or closed.
Accept(c) ==
  /\ at[c] = "backlog" /\ Admits(c)
  /\ Cardinality(In("light queue")) < LightQueue
  /\ held' = [held EXCEPT ![PeerName(c)] = @ + 1]
  /\ name' = [name EXCEPT ![c] = PeerName(c)]
  /\ Move(c, "light queue") /\ UNCHANGED reset

\* The queue is full: 503 overloaded.
Overload(c) ==
  /\ at[c] = "backlog" /\ Admits(c)
  /\ Cardinality(In("light queue")) = LightQueue
  /\ held' = [held EXCEPT ![PeerName(c)] = @ + 1]
  /\ name' = [name EXCEPT ![c] = PeerName(c)]
  /\ Move(c, "overloaded") /\ UNCHANGED reset

Turned(p) == Released(p)

TurnAway(c) ==
  /\ at[c] = "overloaded"
  /\ held' = Turned(PeerName(c)) /\ Move(c, "refused") /\ UNCHANGED <<reset, name>>

Refuse(c) ==
  /\ at[c] = "backlog" /\ ~Admits(c)
  /\ Move(c, "refused") /\ UNCHANGED <<reset, held, name>>

\* A light thread takes the connection.
TakeLight(c) ==
  /\ at[c] = "light queue" /\ Cardinality(In("light") \cup In("serve")) < LightThreads
  /\ Move(c, "light") /\ UNCHANGED <<reset, held, name>>

\* socket_handoff, once the request line of a transfer is there ...
SlowRoom == Cardinality(In("slow queue")) < SlowQueue

HandOff(c) ==
  /\ at[c] = "light" /\ c \in Slow /\ SlowRoom
  /\ Move(c, "slow queue") /\ UNCHANGED <<reset, held, name>>

\* ... or the connection stays: the line has not come, it is no transfer, or
\* the slow queue is full.
Stay(c) == at[c] = "light" /\ Move(c, "serve") /\ UNCHANGED <<reset, held, name>>

TakeSlow(c) ==
  /\ at[c] = "slow queue" /\ Cardinality(In("slow serve")) < SlowThreads
  /\ Move(c, "slow serve") /\ UNCHANGED <<reset, held, name>>

\* The requests have been answered, or have timed out: the place is given back
\* before the socket is closed.
Finish(c) ==
  /\ at[c] \in {"serve", "slow serve"}
  /\ held' = Released(PeerName(c)) /\ Move(c, "closed") /\ UNCHANGED <<reset, name>>

AcceptLoop == \E c \in Conn : Accept(c) \/ Overload(c) \/ TurnAway(c) \/ Refuse(c)
LightPool == \E c \in Conn : TakeLight(c) \/ HandOff(c) \/ Stay(c) \/ (at[c] = "serve" /\ Finish(c))
SlowPool == \E c \in Conn : TakeSlow(c) \/ (at[c] = "slow serve" /\ Finish(c))

Next == AcceptLoop \/ LightPool \/ SlowPool \/ \E c \in Conn : Connect(c) \/ Reset(c)

Spec == Init /\ [][Next]_vars

\* The threads run, a request ends (read and write have timeouts), and the
\* pools take connections in their order.
Fairness ==
  /\ WF_vars(AcceptLoop) /\ WF_vars(LightPool) /\ WF_vars(SlowPool)

FairSpec == Spec /\ Fairness

-----------------------------------------------------------------------------
Counted == {"light queue", "overloaded", "light", "serve", "slow queue", "slow serve"}
Live(p) == {c \in Conn : at[c] \in Counted /\ name[c] = p}

(* The variables keep their types, and no pool has more connections than   *)
(* threads and places in its queue.                                        *)
TypeOK ==
  /\ at \in [Conn -> Counted \cup {"away", "backlog", "refused", "closed"}]
  /\ reset \subseteq Conn /\ name \in [Conn -> Peer \cup {Unknown}]
  /\ held \in [Peer \cup {Unknown} -> Nat]
  /\ Cardinality(In("light queue")) <= LightQueue
  /\ Cardinality(In("light") \cup In("serve")) <= LightThreads
  /\ Cardinality(In("slow queue")) <= SlowQueue
  /\ Cardinality(In("slow serve")) <= SlowThreads

(* One address does not use up the threads: whatever is reset and handed   *)
(* over, a peer that is known has at most MaxPerPeer connections, because  *)
(* its count is never below them.                                          *)
PeerBounded ==
  \A p \in Peer : Cardinality(Live(p)) <= held[p] /\ held[p] <= MaxPerPeer

(* Without resets every place is given back, on each way out: served by    *)
(* light or slow threads, or turned away because the queue was full.       *)
NoResetNoLeak == reset = {} => \A p \in Peer : held[p] = Cardinality(Live(p))

(* The count of a peer bounds its connections, and without resets is exact. *)
PlacesCounted == TypeOK /\ PeerBounded /\ NoResetNoLeak

(* A connection that was admitted and not turned away by a full queue is   *)
(* served in the end: a transfer is not dropped because the slow queue is  *)
(* full, it stays on the light thread.                                     *)
AdmittedIsServed == \A c \in Conn : at[c] = "light queue" ~> at[c] = "closed"

(* 同一来源同时占住的连接数, the limit is on connections held at the same   *)
(* time (gateway.cpp): the count of a peer is that of its connections.     *)
HeldIsHeld == \A p \in Peer : held[p] = Cardinality(Live(p))
=============================================================================
