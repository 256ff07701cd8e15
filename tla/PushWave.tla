------------------------------ MODULE PushWave ------------------------------
(***************************************************************************)
(* Waves between players (handle_wave and handle_wave_ack of               *)
(* src/src/push_hub.cpp): a wave is looked up, routed in pending_waves,    *)
(* sent; the receiver's wave_ack comes back on the receiver's own handler  *)
(* thread and becomes the sender's wave_ok.  Ids are chosen by the         *)
(* clients and may collide; routes older than a minute are swept by the    *)
(* next wave.  Connections come and go as in PushHub; here every one has   *)
(* its socket to itself (PushHub models the reuse of descriptors).         *)
(***************************************************************************)
EXTENDS Naturals

CONSTANTS Conn, Acc,
          AccOf,    \* the account a connection authenticates as
          Id,       \* wave ids, NoId (the old protocol's) among them
          NoId,
          None,
          MaxWaves, \* waves in one behaviour
          MaxRepeats \* wave_ack frames sent twice in one behaviour

ASSUME WaveAssumption ==
  /\ AccOf \in [Conn -> Acc]
  /\ NoId \in Id
  /\ None \notin Conn \cup Acc
  /\ MaxWaves \in Nat /\ MaxRepeats \in Nat

Number == 1..MaxWaves

VARIABLES
  byAcc,     \* g_hub.by_acc
  gone,      \* Conn::closed
  wave,      \* the waves so far, in the order the hub read them
  pending,   \* g_hub.pending_waves: the wave whose route an id names
  aged,      \* waves routed more than a minute ago
  pc,        \* the handler thread of a connection
  cur,       \* the wave, or the route, it works on
  target,    \* the connection handle_wave looked up
  delivered, \* waves written to a connection: pairs <<wave, connection>>
  acks,      \* wave_ack frames: <<id, account>> of each, and how many repeats
  answer     \* what the sender of a wave was sent: oks and fails

routes == <<pending, aged>>
conns  == <<byAcc, gone>>
vars == <<conns, wave, routes, pc, cur, target, delivered, acks, answer>>

NoWave == [from |-> None, id |-> NoId, to |-> None]
Made   == {n \in Number : wave[n] # NoWave}
IsDelivered(n) == \E c \in Conn : <<n, c>> \in delivered

Init ==
  /\ byAcc = [a \in Acc |-> None] /\ gone = {}
  /\ wave = [n \in Number |-> NoWave]
  /\ pending = [i \in Id |-> 0] /\ aged = {}
  /\ pc = [c \in Conn |-> "new"]
  /\ cur = [c \in Conn |-> 0] /\ target = [c \in Conn |-> None]
  /\ delivered = {}
  /\ acks = [repeats |-> 0, seen |-> {}]
  /\ answer = [n \in Number |-> [ok |-> 0, fail |-> 0]]

-----------------------------------------------------------------------------
(* Faulty variants of the actions below, which a property must find.       *)

\* The ack of whichever account goes through.
AnybodysAck(c, i) ==
  LET n == pending[i] IN
  /\ pc[c] = "loop" /\ c \notin gone /\ i # NoId
  /\ \E m \in Made : IsDelivered(m) /\ wave[m].id = i /\ wave[m].to = AccOf[c]
  /\ <<i, AccOf[c]>> \in acks.seen => acks.repeats < MaxRepeats
  /\ acks' = [repeats |-> IF <<i, AccOf[c]>> \in acks.seen THEN acks.repeats + 1 ELSE acks.repeats,
              seen |-> acks.seen \cup {<<i, AccOf[c]>>}]
  /\ IF n # 0
     THEN /\ pending' = [pending EXCEPT ![i] = 0]
          /\ cur' = [cur EXCEPT ![c] = n]
          /\ pc' = [pc EXCEPT ![c] = "ok"]
     ELSE UNCHANGED <<pending, cur, pc>>
  /\ UNCHANGED <<conns, wave, aged, target, delivered, answer>>

\* The sweep takes the routes that are young.
FaultyRouteWave(c) ==
  LET i == wave[cur[c]].id IN
  /\ pc[c] = "look" /\ target[c] \notin gone \cup {None}
  /\ pending' = IF i = NoId THEN pending
                ELSE [j \in Id |-> IF j = i THEN cur[c]
                                   ELSE IF pending[j] \in aged THEN pending[j] ELSE 0]
  /\ pc' = [pc EXCEPT ![c] = "send"]
  /\ UNCHANGED <<conns, wave, aged, cur, target, delivered, acks, answer>>

\* The sender is told at once whatever the outcome, as in the old protocol.
FaultyEraseRoute(c) ==
  LET i == wave[cur[c]].id IN
  /\ pc[c] = "erase"
  /\ pending' = IF i = NoId THEN pending ELSE [pending EXCEPT ![i] = 0]
  /\ answer' = [answer EXCEPT ![cur[c]].ok = @ + 1]
  /\ pc' = [pc EXCEPT ![c] = "fail"]
  /\ UNCHANGED <<conns, wave, aged, cur, target, delivered, acks>>

\* The route is erased after a good send as well.
FaultySendWave(c) ==
  /\ pc[c] = "send" /\ target[c] \notin gone
  /\ delivered' = delivered \cup {<<cur[c], target[c]>>}
  /\ pending' = [pending EXCEPT ![wave[cur[c]].id] = 0]
  /\ pc' = [pc EXCEPT ![c] = "loop"]
  /\ UNCHANGED <<conns, wave, aged, cur, target, acks, answer>>

-----------------------------------------------------------------------------
(* Connections.                                                            *)

\* The thread is back at the top of its loop.
Finish(c) ==
  /\ pc' = [pc EXCEPT ![c] = "loop"]
  /\ cur' = [cur EXCEPT ![c] = 0]
  /\ target' = [target EXCEPT ![c] = None]

\* register_conn takes the account's entry under the lock, ...
Register(c) ==
  /\ pc[c] = "new"
  /\ byAcc' = [byAcc EXCEPT ![AccOf[c]] = c]
  /\ target' = [target EXCEPT ![c] = byAcc[AccOf[c]]]
  /\ pc' = [pc EXCEPT ![c] = "supersede"]
  /\ UNCHANGED <<gone, wave, routes, cur, delivered, acks, answer>>

\* ... and closes the connection that held it after the unlock.
CloseOld(c) ==
  /\ pc[c] = "supersede"
  /\ gone' = gone \cup ({target[c]} \ {None})
  /\ Finish(c)
  /\ UNCHANGED <<byAcc, wave, routes, delivered, acks, answer>>

\* The socket fails, or the loop sees closed: unregister_conn, ...
Unregister(c) ==
  /\ pc[c] = "loop"
  /\ byAcc' = [a \in Acc |-> IF byAcc[a] = c THEN None ELSE byAcc[a]]
  /\ pc' = [pc EXCEPT ![c] = "leaving"]
  /\ UNCHANGED <<gone, wave, routes, cur, target, delivered, acks, answer>>

\* ... and close.
Leave(c) ==
  /\ pc[c] = "leaving"
  /\ gone' = gone \cup {c}
  /\ pc' = [pc EXCEPT ![c] = "left"]
  /\ UNCHANGED <<byAcc, wave, routes, cur, target, delivered, acks, answer>>

-----------------------------------------------------------------------------
(* handle_wave, on the sender's thread.                                    *)

\* The first number that is free.
Fresh(n) == n \notin Made /\ \A m \in 1..(n - 1) : m \in Made

ReadWave(c, n, i, a) ==
  /\ pc[c] = "loop" /\ c \notin gone /\ a # AccOf[c] /\ Fresh(n)
  /\ wave' = [wave EXCEPT ![n] = [from |-> c, id |-> i, to |-> a]]
  /\ cur' = [cur EXCEPT ![c] = n]
  /\ target' = [target EXCEPT ![c] = byAcc[a]]
  /\ pc' = [pc EXCEPT ![c] = "look"]
  /\ UNCHANGED <<conns, routes, delivered, acks, answer>>

\* Nobody there, or closed already: wave_fail.
Offline(c) ==
  /\ pc[c] = "look" /\ target[c] \in gone \cup {None}
  /\ pc' = [pc EXCEPT ![c] = "fail"]
  /\ UNCHANGED <<conns, wave, routes, cur, target, delivered, acks, answer>>

\* Under g_hub.mu: sweep the old routes, enter the new one.
RouteWave(c) ==
  LET i == wave[cur[c]].id IN
  /\ pc[c] = "look" /\ target[c] \notin gone \cup {None}
  /\ pending' = IF i = NoId THEN pending
                ELSE [j \in Id |-> IF j = i THEN cur[c]
                                   ELSE IF pending[j] \in aged THEN 0 ELSE pending[j]]
  /\ pc' = [pc EXCEPT ![c] = "send"]
  /\ UNCHANGED <<conns, wave, aged, cur, target, delivered, acks, answer>>

\* With an id the receiver's ack is the answer, without one this is.
SendWave(c) ==
  /\ pc[c] = "send" /\ target[c] \notin gone
  /\ delivered' = delivered \cup {<<cur[c], target[c]>>}
  /\ IF wave[cur[c]].id = NoId
     THEN pc' = [pc EXCEPT ![c] = "ok"] /\ UNCHANGED <<cur, target>>
     ELSE Finish(c)
  /\ UNCHANGED <<conns, wave, routes, acks, answer>>

\* The send fails: the target is closed, ...
SendFails(c) ==
  /\ pc[c] = "send"
  /\ gone' = gone \cup {target[c]}
  /\ pc' = [pc EXCEPT ![c] = "erase"]
  /\ UNCHANGED <<byAcc, wave, routes, cur, target, delivered, acks, answer>>

\* ... and, under the lock again, the id's route erased, whosever it is.
EraseRoute(c) ==
  LET i == wave[cur[c]].id IN
  /\ pc[c] = "erase"
  /\ pending' = IF i = NoId THEN pending ELSE [pending EXCEPT ![i] = 0]
  /\ pc' = [pc EXCEPT ![c] = "fail"]
  /\ UNCHANGED <<conns, wave, aged, cur, target, delivered, acks, answer>>

\* The answer to the sender of the wave, if it is still there to get it.
Reply(c) ==
  LET n == cur[c] IN
  /\ pc[c] \in {"ok", "fail"}
  /\ answer' = IF wave[n].from \in gone THEN answer
               ELSE IF pc[c] = "ok" THEN [answer EXCEPT ![n].ok = @ + 1]
               ELSE [answer EXCEPT ![n].fail = @ + 1]
  /\ Finish(c)
  /\ UNCHANGED <<conns, wave, routes, delivered, acks>>

-----------------------------------------------------------------------------
(* handle_wave_ack, on the receiver's thread: a client acknowledges the    *)
(* waves its account was delivered, possibly again.                        *)

ReadAck(c, i) ==
  LET n == pending[i] IN
  /\ pc[c] = "loop" /\ c \notin gone /\ i # NoId
  /\ \E m \in Made : IsDelivered(m) /\ wave[m].id = i /\ wave[m].to = AccOf[c]
  /\ <<i, AccOf[c]>> \in acks.seen => acks.repeats < MaxRepeats
  /\ acks' = [repeats |-> IF <<i, AccOf[c]>> \in acks.seen THEN acks.repeats + 1 ELSE acks.repeats,
              seen |-> acks.seen \cup {<<i, AccOf[c]>>}]
  /\ IF n # 0 /\ wave[n].to = AccOf[c]
     THEN /\ pending' = [pending EXCEPT ![i] = 0]
          /\ cur' = [cur EXCEPT ![c] = n]
          /\ pc' = [pc EXCEPT ![c] = "ok"]
     ELSE UNCHANGED <<pending, cur, pc>>
  /\ UNCHANGED <<conns, wave, aged, target, delivered, answer>>

\* A minute passes over a route.
Age(n) ==
  /\ n \in Made \ aged /\ pending[wave[n].id] = n
  /\ aged' = aged \cup {n}
  /\ UNCHANGED <<conns, wave, pending, pc, cur, target, delivered, acks, answer>>

HandlerStep(c) ==
  CloseOld(c) \/ Leave(c) \/ Offline(c) \/ RouteWave(c) \/ SendWave(c) 
    \/ SendFails(c) \/ EraseRoute(c) \/ Reply(c)

Next ==
  \/ \E c \in Conn : \/ Register(c) \/ Unregister(c) \/ HandlerStep(c)
                     \/ \E n \in Number, i \in Id, a \in Acc : ReadWave(c, n, i, a)
                     \/ \E i \in Id : ReadAck(c, i)
  \/ \E n \in Number : Age(n)

Spec == Init /\ [][Next]_vars

\* A thread that is sending to an open connection waits for its peer to read:
\* send() has no timeout.
Held(c) ==
  \/ pc[c] = "send" /\ target[c] \notin gone
  \/ pc[c] \in {"ok", "fail"} /\ wave[cur[c]].from \notin gone

\* Handler threads run, unless they are held, and a client acknowledges what it
\* is delivered.
Fairness ==
  \A c \in Conn : WF_vars(~Held(c) /\ HandlerStep(c)) /\ SF_vars(\E i \in Id : ReadAck(c, i))

FairSpec == Spec /\ Fairness

-----------------------------------------------------------------------------
(* Properties.                                                             *)

TypeOK ==
  /\ byAcc \in [Acc -> Conn \cup {None}] /\ gone \subseteq Conn
  /\ wave \in [Number -> [from : Conn, id : Id, to : Acc] \cup {NoWave}]
  /\ pending \in [Id -> 0..MaxWaves] /\ pending[NoId] = 0
  /\ aged \subseteq Number /\ delivered \subseteq Number \X Conn
  /\ pc \in [Conn -> {"new", "loop", "look", "send", "erase", "fail", "ok", "supersede",
                  "leaving", "left"}]
  /\ cur \in [Conn -> 0..MaxWaves] /\ target \in [Conn -> Conn \cup {None}]
  /\ acks \in [repeats : 0..MaxRepeats, seen : SUBSET (Id \X Acc)]
  /\ answer \in [Number -> [ok : Nat, fail : Nat]]

\* A wave_ok with an id says that the account it names has acknowledged that
\* id: no other receiver's ack, of a colliding id, is passed on.
OkWasAcked ==
  \A n \in Made : answer[n].ok > 0 /\ wave[n].id # NoId => <<wave[n].id, wave[n].to>> \in acks.seen

\* However often a receiver acknowledges, a wave is answered wave_ok once.
OkOnce == \A n \in Made : answer[n].ok <= 1

\* A wave_ok is true and comes once: both of these, whatever ids collide and
\* acks are repeated (handle_wave_ack).
OkIsTrue == TypeOK /\ OkWasAcked /\ OkOnce

Reused(n) == \E m \in Made \ {n} : wave[m].id = wave[n].id

\* A wave whose id is its own is never reported both sent and failed.
AnswersAgree ==
  \A n \in Made : answer[n].fail > 0 /\ ~Reused(n) => answer[n].ok = 0 /\ ~IsDelivered(n)

\* The route is there before the receiver can answer, and stays until it does,
\* for a minute: a delivered wave with an id of its own that nobody has
\* acknowledged yet finds its sender.
RouteReady ==
  \A n \in Made :
    IsDelivered(n) /\ wave[n].id # NoId /\ ~Reused(n) /\ n \notin aged /\ <<wave[n].id, wave[n].to>> \notin acks.seen
      => pending[wave[n].id] = n

\* A delivered wave is confirmed to its sender, unless its id was used again,
\* a minute went by, one of the two connections is closed, or a thread stays for
\* ever at a send to a peer that does not read.
WaveConfirmed ==
  \/ \A n \in Number, c \in Conn :
       (<<n, c>> \in delivered /\ wave[n].id # NoId)
         ~> answer[n].ok > 0 \/ Reused(n) \/ n \in aged \/ wave[n].from \in gone \/ c \in gone
  \/ \E t \in Conn : <>[]Held(t)

-----------------------------------------------------------------------------
(* What an induction needs besides.                                        *)

Sending == {"look", "send", "erase", "fail"}

\* A thread at work has a wave in hand, a sender its own; one
\* that sends, somebody to send to.
InHand ==
  /\ \A c \in Conn : pc[c] \in Sending \cup {"ok"} <=> cur[c] # 0
  /\ \A c \in Conn : cur[c] # 0 => cur[c] \in Made
  /\ \A c \in Conn : pc[c] \in Sending => wave[cur[c]].from = c
  /\ \A c \in Conn : pc[c] \in {"send", "erase"} => target[c] # None

RoutesNameTheirIds ==
  \A i \in Id : pending[i] # 0 => pending[i] \in Made /\ wave[pending[i]].id = i

\* Nobody has confirmed a wave, or is about to.
Unconfirmed(n) == answer[n].ok = 0 /\ \A c \in Conn : pc[c] = "ok" => cur[c] # n

\* A wave is confirmed by the holder of its route alone.
OneConfirms ==
  /\ \A i \in Id : pending[i] # 0 => Unconfirmed(pending[i])
  /\ \A c \in Conn : pc[c] = "look" => \A i \in Id : pending[i] # cur[c]
  /\ \A c \in Conn : pc[c] = "look" \/ (pc[c] = "send" /\ wave[cur[c]].id = NoId) => Unconfirmed(cur[c])
  /\ \A c \in Conn : pc[c] = "ok" => answer[cur[c]].ok = 0
  /\ \A c, d \in Conn : pc[c] = "ok" /\ pc[d] = "ok" /\ cur[c] = cur[d] => c = d

\* Only a delivered wave's id is acknowledged, and only what was acknowledged,
\* or needs no acknowledgement, is confirmed.
AckedWasDelivered ==
  /\ \A i \in Id, a \in Acc : <<i, a>> \in acks.seen =>
       \E m \in Made : IsDelivered(m) /\ wave[m].id = i /\ wave[m].to = a
  /\ \A c \in Conn, n \in Made : pc[c] = "ok" /\ cur[c] = n =>
       IF wave[n].id = NoId THEN IsDelivered(n) ELSE <<wave[n].id, wave[n].to>> \in acks.seen
  /\ \A n \in Made : answer[n].ok > 0 /\ wave[n].id = NoId => IsDelivered(n)

\* A wave is failed by its sender before it is delivered, or never.
FailsUndelivered ==
  /\ \A n \in Number : n \notin Made => ~IsDelivered(n) /\ answer[n] = [ok |-> 0, fail |-> 0]
  /\ \A n \in Made : IsDelivered(n) => answer[n].fail = 0
  /\ \A c \in Conn : pc[c] \in Sending => ~IsDelivered(cur[c])
  /\ \A c \in Conn : pc[c] \in {"look", "send"} => answer[cur[c]].fail = 0

\* As RouteReady, from the moment the wave is routed.
NeedsRoute(n) ==
  /\ IsDelivered(n) \/ \E c \in Conn : pc[c] = "send" /\ cur[c] = n
  /\ wave[n].id # NoId /\ ~Reused(n) /\ n \notin aged
  /\ <<wave[n].id, wave[n].to>> \notin acks.seen

RouteKept == \A n \in Made : NeedsRoute(n) => pending[wave[n].id] = n

IInv ==
  /\ TypeOK /\ InHand /\ RoutesNameTheirIds /\ OneConfirms
  /\ AckedWasDelivered /\ FailsUndelivered /\ RouteKept
  /\ OkWasAcked /\ OkOnce

=============================================================================
