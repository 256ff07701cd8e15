--------------------------- MODULE PushWave_proofs ---------------------------
(* Theorems about PushWave, for every number of connections, accounts, ids *)
(* and waves.  IInv is inductive: one lemma for each of its conjuncts says *)
(* that every step keeps it.                                               *)
EXTENDS PushWave, TLAPS

\* The fields of a wave that was read, and of the place of one that was not.
LEMMA WaveFields ==
  /\ NoWave.id = NoId /\ NoWave.from = None /\ NoWave.to = None
  /\ \A c \in Conn, i \in Id, a \in Acc : [from |-> c, id |-> i, to |-> a] # NoWave
  /\ TypeOK => \A n \in Made : /\ n \in Number /\ n \in Nat /\ n # 0
                               /\ wave[n].from \in Conn /\ wave[n].id \in Id /\ wave[n].to \in Acc
BY WaveAssumption DEF NoWave, Made, TypeOK, Number

\* Waves are never forgotten or changed, and one more is known after ReadWave.
LEMMA MadeStep == TypeOK /\ [Next]_vars =>
  /\ Made \subseteq Made'
  /\ \A n \in Made : wave'[n] = wave[n]
  /\ \A n \in Made : ~Reused(n)' => ~Reused(n)
  /\ (UNCHANGED wave => Made' = Made)
<1> SUFFICES ASSUME TypeOK, [Next]_vars
    PROVE  /\ Made \subseteq Made'
           /\ \A n \in Made : wave'[n] = wave[n]
           /\ \A n \in Made : ~Reused(n)' => ~Reused(n)
           /\ (UNCHANGED wave => Made' = Made)
  OBVIOUS
<1>1. CASE UNCHANGED wave BY <1>1 DEF Made, Reused
<1>2. ASSUME NEW c \in Conn, NEW n \in Number, NEW i \in Id, NEW a \in Acc, ReadWave(c, n, i, a)
      PROVE  /\ Made \subseteq Made'
             /\ \A m \in Made : wave'[m] = wave[m]
             /\ \A m \in Made : ~Reused(m)' => ~Reused(m)
  <2>1. n \notin Made /\ wave' = [wave EXCEPT ![n] = [from |-> c, id |-> i, to |-> a]]
    BY <1>2 DEF ReadWave, Fresh
  <2>2. Made' = Made \cup {n} /\ \A m \in Made : wave'[m] = wave[m]
    BY <2>1, WaveFields DEF TypeOK, Made
  <2> QED BY <2>2 DEF Reused
<1>3. UNCHANGED wave \/ \E c \in Conn, n \in Number, i \in Id, a \in Acc : ReadWave(c, n, i, a)
  BY DEF Next, vars, conns, routes, HandlerStep, Register, Unregister, CloseOld, Leave, Offline,
         RouteWave, SendWave, SendFails, EraseRoute, Reply, ReadAck, Age
<1>4. ~UNCHANGED wave => \E c \in Conn, n \in Number, i \in Id, a \in Acc : ReadWave(c, n, i, a)
  BY <1>3
<1> QED BY <1>1, <1>2, <1>4

\* A wave is delivered when its sender sends it, and to somebody.
LEMMA DeliverStep == IInv => \A c \in Conn : SendWave(c) =>
  \A n \in Number : IsDelivered(n)' <=> IsDelivered(n) \/ n = cur[c]
BY DEF IInv, TypeOK, InHand, SendWave, IsDelivered

\* Without an id, a wave is confirmed on delivery.
LEMMA OkDelivered == IInv => \A c \in Conn, n \in Made :
  pc[c] = "ok" /\ cur[c] = n /\ wave[n].id = NoId => IsDelivered(n)
BY DEF IInv, AckedWasDelivered

\* What the sender of a wave is told.
LEMMA ReplyAnswer == IInv => \A c \in Conn : Reply(c) =>
  /\ \A n \in Number : n # cur[c] => answer'[n] = answer[n]
  /\ pc[c] = "ok" => answer'[cur[c]].fail = answer[cur[c]].fail
  /\ pc[c] = "fail" => answer'[cur[c]].ok = answer[cur[c]].ok
<1> SUFFICES ASSUME IInv, NEW c \in Conn, Reply(c)
    PROVE  /\ \A n \in Number : n # cur[c] => answer'[n] = answer[n]
           /\ pc[c] = "ok" => answer'[cur[c]].fail = answer[cur[c]].fail
           /\ pc[c] = "fail" => answer'[cur[c]].ok = answer[cur[c]].ok
  OBVIOUS
<1>1. answer \in [Number -> [ok : Nat, fail : Nat]] /\ (cur[c] # 0 => cur[c] \in Number)
  BY WaveFields DEF IInv, TypeOK, InHand
<1>2. cur[c] \in Number BY <1>1 DEF IInv, InHand, Sending, Reply
<1>3. CASE UNCHANGED answer BY <1>3
<1>4. CASE pc[c] = "ok" /\ answer' = [answer EXCEPT ![cur[c]].ok = @ + 1] BY <1>1, <1>2, <1>4
<1>5. CASE pc[c] = "fail" /\ answer' = [answer EXCEPT ![cur[c]].fail = @ + 1] BY <1>1, <1>2, <1>5
<1> QED BY <1>3, <1>4, <1>5 DEF Reply

\* What was delivered or acknowledged stays so.
LEMMA GrowStep == [Next]_vars => delivered \subseteq delivered' /\ acks.seen \subseteq acks'.seen
<1> SUFFICES ASSUME [Next]_vars PROVE delivered \subseteq delivered' /\ acks.seen \subseteq acks'.seen
  OBVIOUS
<1>1. \/ UNCHANGED <<delivered, acks>> \/ \E c \in Conn : SendWave(c)
      \/ \E c \in Conn, i \in Id : ReadAck(c, i)
  <2>1. ASSUME NEW c \in Conn, Register(c) \/ Unregister(c) PROVE UNCHANGED <<delivered, acks>>
    BY <2>1 DEF Register, Unregister
  <2>2. ASSUME NEW c \in Conn, HandlerStep(c) PROVE UNCHANGED <<delivered, acks>> \/ SendWave(c)
    BY <2>2 DEF HandlerStep, CloseOld, Leave, Offline, RouteWave, SendFails, EraseRoute, Reply
  <2>3. ASSUME NEW c \in Conn, NEW n \in Number, NEW i \in Id, NEW a \in Acc, ReadWave(c, n, i, a)
        PROVE  UNCHANGED <<delivered, acks>>
    BY <2>3 DEF ReadWave
  <2>4. ASSUME NEW n \in Number, Age(n) PROVE UNCHANGED <<delivered, acks>> BY <2>4 DEF Age
  <2>5. CASE UNCHANGED vars BY <2>5 DEF vars
  <2> QED BY <2>1, <2>2, <2>3, <2>4, <2>5 DEF Next
<1>2. ASSUME NEW c \in Conn, SendWave(c) PROVE delivered \subseteq delivered' /\ UNCHANGED acks
  BY <1>2 DEF SendWave
<1>3. ASSUME NEW c \in Conn, NEW i \in Id, ReadAck(c, i)
      PROVE  UNCHANGED delivered /\ acks'.seen = acks.seen \cup {<<i, AccOf[c]>>}
  BY <1>3 DEF ReadAck
<1> QED BY <1>1, <1>2, <1>3

-----------------------------------------------------------------------------
(* One conjunct of the invariant at a time.                                *)

\* Every step keeps every variable in its type.
LEMMA TypeStep == IInv /\ [Next]_vars => TypeOK'
<1> SUFFICES ASSUME IInv, [Next]_vars PROVE TypeOK'
  OBVIOUS
<1>0. /\ Made \subseteq Made' /\ (UNCHANGED wave => Made' = Made)
      /\ \A n \in Made : wave'[n] = wave[n] /\ (~Reused(n)' => ~Reused(n))
  BY MadeStep DEF IInv
<1>a. /\ TypeOK
      /\ \A c \in Conn : pc[c] \in {"look", "send", "erase", "fail", "ok"} =>
           cur[c] \in Number /\ wave[cur[c]].id \in Id /\ cur[c] \in 0..MaxWaves
      /\ \A c \in Conn : pc[c] = "send" => target[c] \in Conn
      /\ NoId \in Id /\ AccOf \in [Conn -> Acc] /\ MaxWaves \in Nat /\ MaxRepeats \in Nat
  <2>1. \A c \in Conn : pc[c] \in {"look", "send", "erase", "fail", "ok"} => cur[c] \in Made
    BY DEF IInv, InHand, Sending
  <2>2. \A c \in Conn : pc[c] = "send" => target[c] \in Conn
    BY DEF IInv, InHand, TypeOK
  <2> QED BY <2>1, <2>2, WaveFields, WaveAssumption DEF IInv, TypeOK
<1>b. ASSUME NEW c \in Conn, Finish(c)
      PROVE  /\ cur' \in [Conn -> 0..MaxWaves] /\ target' \in [Conn -> Conn \cup {None}]
             /\ pc' \in [Conn -> {"new", "loop", "look", "send", "erase", "fail", "ok",
                                  "supersede", "leaving", "left"}]
  BY <1>a, <1>b DEF Finish, TypeOK
<1> USE <1>a
    DEF vars, conns, routes, TypeOK, Number
<1>1. ASSUME NEW c \in Conn,
             \/ Register(c) \/ Unregister(c) \/ HandlerStep(c)
             \/ \E n \in Number, i \in Id, a \in Acc : ReadWave(c, n, i, a)
             \/ \E i \in Id : ReadAck(c, i)
      PROVE  TypeOK'
  <2>1. CASE Register(c) BY <2>1 DEF Register
  <2>2. CASE Unregister(c) BY <2>2 DEF Unregister
  <2>3. CASE CloseOld(c) BY <2>3, <1>b DEF CloseOld
  <2>4. CASE Leave(c) BY <2>4 DEF Leave
  <2>5. CASE Offline(c) BY <2>5 DEF Offline
  <2>6. CASE RouteWave(c)
    <3>1. \A j \in Id : pending[j] \in 0..MaxWaves OBVIOUS
    <3>2. wave[cur[c]].id \in Id /\ cur[c] \in 0..MaxWaves BY <2>6 DEF RouteWave
    <3>3. pending' \in [Id -> 0..MaxWaves] /\ pending'[NoId] = 0
      BY <2>6, <3>1, <3>2 DEF RouteWave
    <3> QED BY <3>3, <2>6 DEF RouteWave
  <2>7. CASE SendWave(c)
    <3>3. delivered' \subseteq Number \X Conn BY <2>7 DEF SendWave
    <3> QED BY <3>3, <1>b, <2>7 DEF SendWave
  <2>8. CASE SendFails(c)
    <3>1. target[c] \in Conn BY <2>8 DEF SendFails
    <3> QED BY <3>1, <2>8 DEF SendFails
  <2>9. CASE EraseRoute(c)
    <3>1. wave[cur[c]].id \in Id BY <2>9 DEF EraseRoute
    <3>2. pending' \in [Id -> 0..MaxWaves] /\ pending'[NoId] = 0 BY <2>9, <3>1 DEF EraseRoute
    <3> QED BY <3>2, <2>9 DEF EraseRoute
  <2>10. CASE Reply(c)
    <3>1. answer' \in [Number -> [ok : Nat, fail : Nat]] BY <2>10 DEF Reply
    <3> QED BY <3>1, <1>b, <2>10 DEF Reply
  <2>11. ASSUME NEW n \in Number, NEW i \in Id, NEW a \in Acc, ReadWave(c, n, i, a)
         PROVE TypeOK'
    <3>1. wave' = [wave EXCEPT ![n] = [from |-> c, id |-> i, to |-> a]] /\ n \notin Made
      BY <2>11 DEF ReadWave, Fresh
    <3>2. n \in 0..MaxWaves BY <1>a DEF Number
    <3>3. wave' \in [Number -> [from : Conn, id : Id, to : Acc] \cup {NoWave}] BY <3>1
    <3>4. byAcc[a] \in Conn \cup {None} OBVIOUS
    <3> QED BY <3>2, <3>3, <3>4, <2>11 DEF ReadWave
  <2>12. ASSUME NEW i \in Id, ReadAck(c, i) PROVE TypeOK'
    <3>1. AccOf[c] \in Acc /\ pending[i] \in 0..MaxWaves OBVIOUS
    <3>5. acks.repeats \in 0..MaxRepeats /\ acks.seen \subseteq Id \X Acc OBVIOUS
    <3>2. acks'.repeats \in 0..MaxRepeats /\ acks'.seen \subseteq Id \X Acc
      BY <2>12, <3>1, <3>5 DEF ReadAck
    <3>3. acks' \in [repeats : 0..MaxRepeats, seen : SUBSET (Id \X Acc)]
      BY <2>12, <3>2 DEF ReadAck
    <3>4. /\ pending' \in [Id -> 0..MaxWaves] /\ pending'[NoId] = 0
          /\ cur' \in [Conn -> 0..MaxWaves]
          /\ pc' \in [Conn -> {"new", "loop", "look", "send", "erase", "fail", "ok", "supersede",
                             "leaving", "left"}]
    <4>1. CASE UNCHANGED <<pending, cur, pc>> BY <4>1
    <4>2. CASE /\ pending' = [pending EXCEPT ![i] = 0] /\ i # NoId
               /\ cur' = [cur EXCEPT ![c] = pending[i]] /\ pc' = [pc EXCEPT ![c] = "ok"]
      BY <4>2, <3>1
    <4> QED BY <4>1, <4>2, <2>12 DEF ReadAck
    <3> QED BY <3>3, <3>4, <2>12 DEF ReadAck
  <2> QED BY <1>1, <2>1, <2>2, <2>3, <2>4, <2>5, <2>6,
             <2>7, <2>8, <2>9, <2>10, <2>11, <2>12 DEF HandlerStep
<1>2. ASSUME NEW n \in Number, Age(n) PROVE TypeOK'
  BY <1>2, <1>a DEF Age
<1>3. CASE UNCHANGED vars BY <1>3, <1>a
<1> QED BY <1>1, <1>2, <1>3 DEF Next

\* A thread keeps the wave it has in hand until it is done with it.
LEMMA InHandStep == IInv /\ [Next]_vars => InHand'
<1> SUFFICES ASSUME IInv, [Next]_vars PROVE InHand'
  OBVIOUS
<1>0. /\ Made \subseteq Made' /\ (UNCHANGED wave => Made' = Made)
      /\ \A n \in Made : wave'[n] = wave[n] /\ (~Reused(n)' => ~Reused(n))
  BY MadeStep DEF IInv
<1> USE WaveAssumption, WaveFields, <1>0
    DEF vars, conns, routes, IInv, TypeOK, InHand, Sending, RoutesNameTheirIds
<1>1. ASSUME NEW c \in Conn,
             \/ Register(c) \/ Unregister(c) \/ HandlerStep(c)
             \/ \E n \in Number, i \in Id, a \in Acc : ReadWave(c, n, i, a)
             \/ \E i \in Id : ReadAck(c, i)
      PROVE  InHand'
  <2>1. CASE Register(c) BY <2>1 DEF Register
  <2>2. CASE Unregister(c) BY <2>2 DEF Unregister
  <2>3. CASE CloseOld(c) BY <2>3 DEF CloseOld, Finish
  <2>4. CASE Leave(c) BY <2>4 DEF Leave
  <2>5. CASE Offline(c) BY <2>5 DEF Offline
  <2>6. CASE RouteWave(c) BY <2>6 DEF RouteWave
  <2>7. CASE SendWave(c) BY <2>7 DEF SendWave, Finish
  <2>8. CASE SendFails(c) BY <2>8 DEF SendFails
  <2>9. CASE EraseRoute(c) BY <2>9 DEF EraseRoute
  <2>10. CASE Reply(c) BY <2>10 DEF Reply, Finish
  <2>11. ASSUME NEW n \in Number, NEW i \in Id, NEW a \in Acc, ReadWave(c, n, i, a)
         PROVE InHand'
    <3>1. wave' = [wave EXCEPT ![n] = [from |-> c, id |-> i, to |-> a]] /\ n \notin Made
      BY <2>11 DEF ReadWave, Fresh
    <3>2. Made' = Made \cup {n} BY <3>1 DEF Made, TypeOK
    <3>3. n # 0 /\ wave'[n].from = c /\ wave'[n].id = i /\ wave'[n].to = a BY <3>1 DEF Number
    <3> QED BY <3>1, <3>2, <3>3, <2>11 DEF ReadWave
  <2>12. ASSUME NEW i \in Id, ReadAck(c, i) PROVE InHand'
    <3>1. CASE /\ pending' = [pending EXCEPT ![i] = 0] /\ pending[i] # 0
               /\ cur' = [cur EXCEPT ![c] = pending[i]] /\ pc' = [pc EXCEPT ![c] = "ok"]
      BY <2>12, <3>1 DEF ReadAck
    <3>2. CASE UNCHANGED <<pending, cur, pc>> BY <2>12, <3>2 DEF ReadAck
    <3> QED BY <3>1, <3>2, <2>12 DEF ReadAck
  <2> QED BY <1>1, <2>1, <2>2, <2>3, <2>4, <2>5, <2>6,
             <2>7, <2>8, <2>9, <2>10, <2>11, <2>12 DEF HandlerStep
<1>2. ASSUME NEW n \in Number, Age(n) PROVE InHand'
  BY <1>2 DEF Age
<1>3. CASE UNCHANGED vars BY <1>3
<1> QED BY <1>1, <1>2, <1>3 DEF Next

\* A route is entered under its wave's id.
LEMMA RoutesStep == IInv /\ [Next]_vars => RoutesNameTheirIds'
<1> SUFFICES ASSUME IInv, [Next]_vars PROVE RoutesNameTheirIds'
  OBVIOUS
<1>0. /\ Made \subseteq Made' /\ (UNCHANGED wave => Made' = Made)
      /\ \A n \in Made : wave'[n] = wave[n] /\ (~Reused(n)' => ~Reused(n))
  BY MadeStep DEF IInv
<1> USE WaveAssumption, WaveFields, <1>0
    DEF vars, conns, routes, IInv, TypeOK, InHand, Sending, RoutesNameTheirIds
<1>1. ASSUME NEW c \in Conn,
             \/ Register(c) \/ Unregister(c) \/ HandlerStep(c)
             \/ \E n \in Number, i \in Id, a \in Acc : ReadWave(c, n, i, a)
             \/ \E i \in Id : ReadAck(c, i)
      PROVE  RoutesNameTheirIds'
  <2>1. CASE Register(c) BY <2>1 DEF Register
  <2>2. CASE Unregister(c) BY <2>2 DEF Unregister
  <2>3. CASE CloseOld(c) BY <2>3 DEF CloseOld, Finish
  <2>4. CASE Leave(c) BY <2>4 DEF Leave
  <2>5. CASE Offline(c) BY <2>5 DEF Offline
  <2>6. CASE RouteWave(c) BY <2>6 DEF RouteWave
  <2>7. CASE SendWave(c) BY <2>7 DEF SendWave, Finish
  <2>8. CASE SendFails(c) BY <2>8 DEF SendFails
  <2>9. CASE EraseRoute(c) BY <2>9 DEF EraseRoute
  <2>10. CASE Reply(c) BY <2>10 DEF Reply, Finish
  <2>11. ASSUME NEW n \in Number, NEW i \in Id, NEW a \in Acc, ReadWave(c, n, i, a)
         PROVE RoutesNameTheirIds'
    <3>1. wave' = [wave EXCEPT ![n] = [from |-> c, id |-> i, to |-> a]] /\ n \notin Made
      BY <2>11 DEF ReadWave, Fresh
    <3>2. Made' = Made \cup {n} BY <3>1 DEF Made, TypeOK
    <3>3. n # 0 /\ wave'[n].from = c /\ wave'[n].id = i /\ wave'[n].to = a BY <3>1 DEF Number
    <3> QED BY <3>1, <3>2, <3>3, <2>11 DEF ReadWave
  <2>12. ASSUME NEW i \in Id, ReadAck(c, i) PROVE RoutesNameTheirIds'
    BY <2>12 DEF ReadAck
  <2> QED BY <1>1, <2>1, <2>2, <2>3, <2>4, <2>5, <2>6,
             <2>7, <2>8, <2>9, <2>10, <2>11, <2>12 DEF HandlerStep
<1>2. ASSUME NEW n \in Number, Age(n) PROVE RoutesNameTheirIds'
  BY <1>2 DEF Age
<1>3. CASE UNCHANGED vars BY <1>3
<1> QED BY <1>1, <1>2, <1>3 DEF Next

\* A route is taken away by the one ack that uses it.
LEMMA ConfirmStep == IInv /\ [Next]_vars => OneConfirms'
<1> SUFFICES ASSUME IInv, [Next]_vars PROVE OneConfirms'
  OBVIOUS
<1>0. /\ Made \subseteq Made' /\ (UNCHANGED wave => Made' = Made)
      /\ \A n \in Made : wave'[n] = wave[n] /\ (~Reused(n)' => ~Reused(n))
  BY MadeStep DEF IInv
<1> USE WaveAssumption, WaveFields, <1>0
    DEF vars, conns, routes, IInv, TypeOK, InHand, Sending, RoutesNameTheirIds,
        OneConfirms, Unconfirmed, FailsUndelivered
<1>1. ASSUME NEW c \in Conn,
             \/ Register(c) \/ Unregister(c) \/ HandlerStep(c)
             \/ \E n \in Number, i \in Id, a \in Acc : ReadWave(c, n, i, a)
             \/ \E i \in Id : ReadAck(c, i)
      PROVE  OneConfirms'
  <2>1. CASE Register(c) BY <2>1 DEF Register
  <2>2. CASE Unregister(c) BY <2>2 DEF Unregister
  <2>3. CASE CloseOld(c) BY <2>3 DEF CloseOld, Finish
  <2>4. CASE Leave(c) BY <2>4 DEF Leave
  <2>5. CASE Offline(c) BY <2>5 DEF Offline
  <2>6. CASE RouteWave(c) BY <2>6 DEF RouteWave
  <2>7. CASE SendWave(c)
    <3>1. CASE wave[cur[c]].id = NoId /\ pc' = [pc EXCEPT ![c] = "ok"] /\ UNCHANGED cur
      BY <2>7, <3>1 DEF SendWave
    <3>2. CASE pc' = [pc EXCEPT ![c] = "loop"] /\ cur' = [cur EXCEPT ![c] = 0]
      BY <2>7, <3>2 DEF SendWave
    <3> QED BY <3>1, <3>2, <2>7 DEF SendWave, Finish
  <2>8. CASE SendFails(c) BY <2>8 DEF SendFails
  <2>9. CASE EraseRoute(c) BY <2>9 DEF EraseRoute
  <2>10. CASE Reply(c) BY <2>10 DEF Reply, Finish
  <2>11. ASSUME NEW n \in Number, NEW i \in Id, NEW a \in Acc, ReadWave(c, n, i, a)
         PROVE OneConfirms'
    <3>1. wave' = [wave EXCEPT ![n] = [from |-> c, id |-> i, to |-> a]] /\ n \notin Made
      BY <2>11 DEF ReadWave, Fresh
    <3>2. Made' = Made \cup {n} BY <3>1 DEF Made, TypeOK
    <3>3. n # 0 /\ wave'[n].from = c /\ wave'[n].id = i /\ wave'[n].to = a BY <3>1 DEF Number
    <3> QED BY <3>1, <3>2, <3>3, <2>11 DEF ReadWave
  <2>12. ASSUME NEW i \in Id, ReadAck(c, i) PROVE OneConfirms'
    <3>1. CASE /\ pending' = [pending EXCEPT ![i] = 0] /\ pending[i] # 0
               /\ cur' = [cur EXCEPT ![c] = pending[i]] /\ pc' = [pc EXCEPT ![c] = "ok"]
      BY <2>12, <3>1 DEF ReadAck
    <3>2. CASE UNCHANGED <<pending, cur, pc>> BY <2>12, <3>2 DEF ReadAck
    <3> QED BY <3>1, <3>2, <2>12 DEF ReadAck
  <2> QED BY <1>1, <2>1, <2>2, <2>3, <2>4, <2>5, <2>6,
             <2>7, <2>8, <2>9, <2>10, <2>11, <2>12 DEF HandlerStep
<1>2. ASSUME NEW n \in Number, Age(n) PROVE OneConfirms'
  BY <1>2 DEF Age
<1>3. CASE UNCHANGED vars BY <1>3
<1> QED BY <1>1, <1>2, <1>3 DEF Next

\* An ack follows the delivery of its id.
LEMMA AckedStep == IInv /\ [Next]_vars => AckedWasDelivered'
<1> SUFFICES ASSUME IInv, [Next]_vars PROVE AckedWasDelivered'
  OBVIOUS
<1>0. /\ Made \subseteq Made' /\ (UNCHANGED wave => Made' = Made)
      /\ \A n \in Made : wave'[n] = wave[n] /\ (~Reused(n)' => ~Reused(n))
  BY MadeStep DEF IInv
<1>c. /\ \A m \in Made : IsDelivered(m) => IsDelivered(m)'
      /\ acks.seen \subseteq acks'.seen
      /\ \A i \in Id, a \in Acc : <<i, a>> \in acks.seen =>
           \E m \in Made' : IsDelivered(m)' /\ wave'[m].id = i /\ wave'[m].to = a
  <2>1. delivered \subseteq delivered' /\ acks.seen \subseteq acks'.seen BY GrowStep
  <2>2. \A m \in Made : IsDelivered(m) => IsDelivered(m)' BY <2>1 DEF IsDelivered
  <2>3. ASSUME NEW i \in Id, NEW a \in Acc, <<i, a>> \in acks.seen
        PROVE  \E m \in Made' : IsDelivered(m)' /\ wave'[m].id = i /\ wave'[m].to = a
    <3>1. PICK m \in Made : IsDelivered(m) /\ wave[m].id = i /\ wave[m].to = a
      BY <2>3 DEF IInv, AckedWasDelivered
    <3>2. m \in Made' /\ IsDelivered(m)' /\ wave'[m] = wave[m] BY <1>0, <2>2, <3>1
    <3> QED BY <3>1, <3>2
  <2> QED BY <2>1, <2>2, <2>3
<1> USE WaveAssumption, WaveFields, <1>0, <1>c
    DEF vars, conns, routes, IInv, TypeOK, InHand, Sending, RoutesNameTheirIds,
        AckedWasDelivered, FailsUndelivered
<1>1. ASSUME NEW c \in Conn,
             \/ Register(c) \/ Unregister(c) \/ HandlerStep(c)
             \/ \E n \in Number, i \in Id, a \in Acc : ReadWave(c, n, i, a)
             \/ \E i \in Id : ReadAck(c, i)
      PROVE  AckedWasDelivered'
  <2>1. CASE Register(c) BY <2>1 DEF Register
  <2>2. CASE Unregister(c) BY <2>2 DEF Unregister
  <2>3. CASE CloseOld(c) BY <2>3 DEF CloseOld, Finish
  <2>4. CASE Leave(c) BY <2>4 DEF Leave
  <2>5. CASE Offline(c) BY <2>5 DEF Offline
  <2>6. CASE RouteWave(c) BY <2>6 DEF RouteWave
  <2>7. CASE SendWave(c)
    <3>1. \A n \in Number : n = cur[c] => IsDelivered(n)' BY <2>7, DeliverStep
    <3>2. UNCHANGED <<wave, acks, answer>> BY <2>7 DEF SendWave
    <3>3. CASE wave[cur[c]].id = NoId /\ pc' = [pc EXCEPT ![c] = "ok"] /\ UNCHANGED cur
      BY <3>1, <3>2, <3>3
    <3>4. CASE pc' = [pc EXCEPT ![c] = "loop"] /\ cur' = [cur EXCEPT ![c] = 0] BY <3>2, <3>4
    <3> QED BY <3>3, <3>4, <2>7 DEF SendWave, Finish
  <2>8. CASE SendFails(c) BY <2>8 DEF SendFails
  <2>9. CASE EraseRoute(c) BY <2>9 DEF EraseRoute
  <2>10. CASE Reply(c)
    <3>1. /\ UNCHANGED <<wave, delivered, acks>> /\ cur[c] \in Made /\ cur[c] \in Number
          /\ pc' = [pc EXCEPT ![c] = "loop"] /\ cur' = [cur EXCEPT ![c] = 0]
      BY <2>10 DEF Reply, Finish
    <3>2. \A n \in Made : answer'[n].ok > 0 => answer[n].ok > 0 \/ (n = cur[c] /\ pc[c] = "ok")
      BY <2>10, ReplyAnswer, <3>1 DEF Reply
    <3>3. \A n \in Made' : answer'[n].ok > 0 /\ wave'[n].id = NoId => IsDelivered(n)'
      <4> SUFFICES ASSUME NEW n \in Made, answer'[n].ok > 0, wave[n].id = NoId PROVE IsDelivered(n)
        BY <3>1
      <4>1. CASE answer[n].ok > 0 BY <4>1
      <4>2. CASE n = cur[c] /\ pc[c] = "ok" BY <4>2, OkDelivered
      <4> QED BY <3>2, <4>1, <4>2
    <3>4. \A d \in Conn : pc'[d] = "ok" => d # c /\ pc[d] = "ok" /\ cur'[d] = cur[d] BY <3>1
    <3>5. UNCHANGED <<wave, acks>> /\ Made' = Made BY <3>1
    <3> QED BY <3>3, <3>4, <3>5
  <2>11. ASSUME NEW n \in Number, NEW i \in Id, NEW a \in Acc, ReadWave(c, n, i, a)
         PROVE AckedWasDelivered'
    <3>1. wave' = [wave EXCEPT ![n] = [from |-> c, id |-> i, to |-> a]] /\ n \notin Made
      BY <2>11 DEF ReadWave, Fresh
    <3>2. Made' = Made \cup {n} BY <3>1 DEF Made, TypeOK
    <3>3. n # 0 /\ wave'[n].from = c /\ wave'[n].id = i /\ wave'[n].to = a BY <3>1 DEF Number
    <3> QED BY <3>1, <3>2, <3>3, <2>11 DEF ReadWave
  <2>12. ASSUME NEW i \in Id, ReadAck(c, i) PROVE AckedWasDelivered'
    <3>1. PICK m \in Made : IsDelivered(m) /\ wave[m].id = i /\ wave[m].to = AccOf[c]
      BY <2>12 DEF ReadAck
    <3>2. m \in Made' /\ IsDelivered(m)' /\ wave'[m] = wave[m] BY <3>1
    <3>3. acks'.seen = acks.seen \cup {<<i, AccOf[c]>>} /\ wave' = wave /\ i # NoId /\ UNCHANGED answer
      BY <2>12 DEF ReadAck
    <3>4. CASE /\ pending[i] # 0 /\ wave[pending[i]].to = AccOf[c]
               /\ cur' = [cur EXCEPT ![c] = pending[i]] /\ pc' = [pc EXCEPT ![c] = "ok"]
      BY <3>1, <3>2, <3>3, <3>4
    <3>5. CASE UNCHANGED <<cur, pc>> BY <3>1, <3>2, <3>3, <3>5
    <3> QED BY <3>4, <3>5, <2>12 DEF ReadAck
  <2> QED BY <1>1, <2>1, <2>2, <2>3, <2>4, <2>5, <2>6,
             <2>7, <2>8, <2>9, <2>10, <2>11, <2>12 DEF HandlerStep
<1>2. ASSUME NEW n \in Number, Age(n) PROVE AckedWasDelivered'
  BY <1>2 DEF Age
<1>3. CASE UNCHANGED vars BY <1>3
<1> QED BY <1>1, <1>2, <1>3 DEF Next

\* A sender that fails a wave has not delivered it, and will not.
LEMMA FailsStep == IInv /\ [Next]_vars => FailsUndelivered'
<1> SUFFICES ASSUME IInv, [Next]_vars PROVE FailsUndelivered'
  OBVIOUS
<1>0. /\ Made \subseteq Made' /\ (UNCHANGED wave => Made' = Made)
      /\ \A n \in Made : wave'[n] = wave[n] /\ (~Reused(n)' => ~Reused(n))
  BY MadeStep DEF IInv
<1>c. UNCHANGED delivered => \A n \in Number : IsDelivered(n)' = IsDelivered(n)
  BY DEF IsDelivered
<1> USE WaveAssumption, WaveFields, <1>0, <1>c
    DEF vars, conns, routes, IInv, TypeOK, InHand, Sending, FailsUndelivered
<1>1. ASSUME NEW c \in Conn,
             \/ Register(c) \/ Unregister(c) \/ HandlerStep(c)
             \/ \E n \in Number, i \in Id, a \in Acc : ReadWave(c, n, i, a)
             \/ \E i \in Id : ReadAck(c, i)
      PROVE  FailsUndelivered'
  <2>1. CASE Register(c) BY <2>1 DEF Register
  <2>2. CASE Unregister(c) BY <2>2 DEF Unregister
  <2>3. CASE CloseOld(c) BY <2>3 DEF CloseOld, Finish
  <2>4. CASE Leave(c) BY <2>4 DEF Leave
  <2>5. CASE Offline(c) BY <2>5 DEF Offline
  <2>6. CASE RouteWave(c) BY <2>6 DEF RouteWave
  <2>7. CASE SendWave(c)
    <3>1. \A n \in Number : IsDelivered(n)' <=> IsDelivered(n) \/ n = cur[c]
      BY <2>7, DeliverStep
    <3>2. UNCHANGED <<wave, answer>> /\ cur[c] \in Made /\ wave[cur[c]].from = c
          /\ answer[cur[c]].fail = 0
      BY <2>7 DEF SendWave
    <3>3. CASE wave[cur[c]].id = NoId /\ pc' = [pc EXCEPT ![c] = "ok"] /\ UNCHANGED cur
      BY <3>1, <3>2, <3>3
    <3>4. CASE pc' = [pc EXCEPT ![c] = "loop"] /\ cur' = [cur EXCEPT ![c] = 0]
      BY <3>1, <3>2, <3>4
    <3> QED BY <3>3, <3>4, <2>7 DEF SendWave, Finish
  <2>8. CASE SendFails(c) BY <2>8 DEF SendFails
  <2>9. CASE EraseRoute(c) BY <2>9 DEF EraseRoute
  <2>10. CASE Reply(c)
    <3>1. UNCHANGED <<wave, delivered>> /\ cur[c] \in Made /\ cur[c] \in Number
          /\ pc' = [pc EXCEPT ![c] = "loop"] /\ cur' = [cur EXCEPT ![c] = 0]
      BY <2>10 DEF Reply, Finish
    <3>2. /\ \A n \in Number : n # cur[c] => answer'[n] = answer[n]
          /\ pc[c] = "ok" => answer'[cur[c]].fail = answer[cur[c]].fail
      BY <2>10, ReplyAnswer
    <3>3. pc[c] = "fail" => ~IsDelivered(cur[c]) /\ wave[cur[c]].from = c OBVIOUS
    <3>4. pc[c] \in {"ok", "fail"} BY <2>10 DEF Reply
    <3>5. \A n \in Made : IsDelivered(n) => answer'[n].fail = 0 BY <3>2, <3>3, <3>4
    <3>6. \A n \in Number : n \notin Made => answer'[n] = [ok |-> 0, fail |-> 0] BY <3>1, <3>2
    <3>7. \A d \in Conn : pc'[d] \in Sending => d # c /\ pc'[d] = pc[d] /\ cur'[d] = cur[d] BY <3>1
    <3>8. \A d \in Conn : d # c /\ pc[d] \in {"look", "send"} => answer'[cur[d]].fail = 0
      BY <3>2, <3>3, <3>4
    <3> QED BY <3>1, <3>5, <3>6, <3>7, <3>8
  <2>11. ASSUME NEW n \in Number, NEW i \in Id, NEW a \in Acc, ReadWave(c, n, i, a)
         PROVE FailsUndelivered'
    <3>1. wave' = [wave EXCEPT ![n] = [from |-> c, id |-> i, to |-> a]] /\ n \notin Made
      BY <2>11 DEF ReadWave, Fresh
    <3>2. Made' = Made \cup {n} BY <3>1 DEF Made, TypeOK
    <3>3. n # 0 /\ wave'[n].from = c /\ wave'[n].id = i /\ wave'[n].to = a BY <3>1 DEF Number
    <3> QED BY <3>1, <3>2, <3>3, <2>11 DEF ReadWave
  <2>12. ASSUME NEW i \in Id, ReadAck(c, i) PROVE FailsUndelivered'
    <3>1. UNCHANGED <<wave, delivered, answer>> BY <2>12 DEF ReadAck
    <3>2. CASE cur' = [cur EXCEPT ![c] = pending[i]] /\ pc' = [pc EXCEPT ![c] = "ok"]
      BY <3>1, <3>2
    <3>3. CASE UNCHANGED <<cur, pc>> BY <3>1, <3>3
    <3> QED BY <3>2, <3>3, <2>12 DEF ReadAck
  <2> QED BY <1>1, <2>1, <2>2, <2>3, <2>4, <2>5, <2>6,
             <2>7, <2>8, <2>9, <2>10, <2>11, <2>12 DEF HandlerStep
<1>2. ASSUME NEW n \in Number, Age(n) PROVE FailsUndelivered'
  BY <1>2 DEF Age
<1>3. CASE UNCHANGED vars BY <1>3
<1> QED BY <1>1, <1>2, <1>3 DEF Next

\* A young route of an id used once goes only with its ack.
LEMMA KeptStep == IInv /\ [Next]_vars => RouteKept'
<1> SUFFICES ASSUME IInv, [Next]_vars PROVE RouteKept'
  OBVIOUS
<1>0. /\ Made \subseteq Made' /\ (UNCHANGED wave => Made' = Made)
      /\ \A n \in Made : wave'[n] = wave[n] /\ (~Reused(n)' => ~Reused(n))
  BY MadeStep DEF IInv
<1>c. /\ UNCHANGED delivered => \A n \in Number : IsDelivered(n)' = IsDelivered(n)
      /\ \A n \in Made : ~Reused(n) => \A m \in Made : wave[m].id = wave[n].id => m = n
  BY DEF IsDelivered, Reused
<1> USE WaveAssumption, WaveFields, <1>0, <1>c
    DEF vars, conns, routes, IInv, TypeOK, InHand, Sending, RoutesNameTheirIds,
        FailsUndelivered, RouteKept, NeedsRoute
<1>1. ASSUME NEW c \in Conn,
             \/ Register(c) \/ Unregister(c) \/ HandlerStep(c)
             \/ \E n \in Number, i \in Id, a \in Acc : ReadWave(c, n, i, a)
             \/ \E i \in Id : ReadAck(c, i)
      PROVE  RouteKept'
  <2>1. CASE Register(c) BY <2>1 DEF Register
  <2>2. CASE Unregister(c) BY <2>2 DEF Unregister
  <2>3. CASE CloseOld(c) BY <2>3 DEF CloseOld, Finish
  <2>4. CASE Leave(c) BY <2>4 DEF Leave
  <2>5. CASE Offline(c) BY <2>5 DEF Offline
  <2>6. CASE RouteWave(c) BY <2>6 DEF RouteWave
  <2>7. CASE SendWave(c)
    <3>1. \A n \in Number : IsDelivered(n)' <=> IsDelivered(n) \/ n = cur[c]
      BY <2>7, DeliverStep
    <3>2. UNCHANGED <<wave, aged, acks, pending>> /\ pc[c] = "send"
          /\ \A d \in Conn : pc'[d] = "send" => pc[d] = "send" /\ cur'[d] = cur[d]
      BY <2>7 DEF SendWave, Finish
    <3> QED BY <3>1, <3>2
  <2>8. CASE SendFails(c) BY <2>8 DEF SendFails
  <2>9. CASE EraseRoute(c) BY <2>9 DEF EraseRoute
  <2>10. CASE Reply(c) BY <2>10 DEF Reply, Finish
  <2>11. ASSUME NEW n \in Number, NEW i \in Id, NEW a \in Acc, ReadWave(c, n, i, a)
         PROVE RouteKept'
    <3>1. wave' = [wave EXCEPT ![n] = [from |-> c, id |-> i, to |-> a]] /\ n \notin Made
      BY <2>11 DEF ReadWave, Fresh
    <3>2. Made' = Made \cup {n} BY <3>1 DEF Made, TypeOK
    <3>3. n # 0 /\ wave'[n].from = c /\ wave'[n].id = i /\ wave'[n].to = a BY <3>1 DEF Number
    <3> QED BY <3>1, <3>2, <3>3, <2>11 DEF ReadWave
  <2>12. ASSUME NEW i \in Id, ReadAck(c, i) PROVE RouteKept'
    BY <2>12 DEF ReadAck
  <2> QED BY <1>1, <2>1, <2>2, <2>3, <2>4, <2>5, <2>6,
             <2>7, <2>8, <2>9, <2>10, <2>11, <2>12 DEF HandlerStep
<1>2. ASSUME NEW n \in Number, Age(n) PROVE RouteKept'
  BY <1>2 DEF Age
<1>3. CASE UNCHANGED vars BY <1>3
<1> QED BY <1>1, <1>2, <1>3 DEF Next

\* A wave_ok repeats an ack.
LEMMA OkStep == IInv /\ [Next]_vars => OkWasAcked'
<1> SUFFICES ASSUME IInv, [Next]_vars PROVE OkWasAcked'
  OBVIOUS
<1>0. /\ Made \subseteq Made' /\ (UNCHANGED wave => Made' = Made)
      /\ \A n \in Made : wave'[n] = wave[n] /\ (~Reused(n)' => ~Reused(n))
  BY MadeStep DEF IInv
<1> USE WaveAssumption, WaveFields, <1>0
    DEF vars, conns, routes, IInv, TypeOK, InHand, AckedWasDelivered, OkWasAcked, FailsUndelivered
<1>1. ASSUME NEW c \in Conn,
             \/ Register(c) \/ Unregister(c) \/ HandlerStep(c)
             \/ \E n \in Number, i \in Id, a \in Acc : ReadWave(c, n, i, a)
             \/ \E i \in Id : ReadAck(c, i)
      PROVE  OkWasAcked'
  <2>1. CASE Register(c) BY <2>1 DEF Register
  <2>2. CASE Unregister(c) BY <2>2 DEF Unregister
  <2>3. CASE CloseOld(c) BY <2>3 DEF CloseOld, Finish
  <2>4. CASE Leave(c) BY <2>4 DEF Leave
  <2>5. CASE Offline(c) BY <2>5 DEF Offline
  <2>6. CASE RouteWave(c) BY <2>6 DEF RouteWave
  <2>7. CASE SendWave(c) BY <2>7 DEF SendWave, Finish
  <2>8. CASE SendFails(c) BY <2>8 DEF SendFails
  <2>9. CASE EraseRoute(c) BY <2>9 DEF EraseRoute
  <2>10. CASE Reply(c) BY <2>10 DEF Reply, Finish
  <2>11. ASSUME NEW n \in Number, NEW i \in Id, NEW a \in Acc, ReadWave(c, n, i, a)
         PROVE OkWasAcked'
    <3>1. wave' = [wave EXCEPT ![n] = [from |-> c, id |-> i, to |-> a]] /\ n \notin Made
      BY <2>11 DEF ReadWave, Fresh
    <3>2. Made' = Made \cup {n} BY <3>1 DEF Made, TypeOK
    <3>3. n # 0 /\ wave'[n].from = c /\ wave'[n].id = i /\ wave'[n].to = a BY <3>1 DEF Number
    <3> QED BY <3>1, <3>2, <3>3, <2>11 DEF ReadWave
  <2>12. ASSUME NEW i \in Id, ReadAck(c, i) PROVE OkWasAcked'
    BY <2>12 DEF ReadAck
  <2> QED BY <1>1, <2>1, <2>2, <2>3, <2>4, <2>5, <2>6,
             <2>7, <2>8, <2>9, <2>10, <2>11, <2>12 DEF HandlerStep
<1>2. ASSUME NEW n \in Number, Age(n) PROVE OkWasAcked'
  BY <1>2 DEF Age
<1>3. CASE UNCHANGED vars BY <1>3
<1> QED BY <1>1, <1>2, <1>3 DEF Next

\* A confirmed wave is not confirmed again.
LEMMA OnceStep == IInv /\ [Next]_vars => OkOnce'
<1> SUFFICES ASSUME IInv, [Next]_vars PROVE OkOnce'
  OBVIOUS
<1>0. /\ Made \subseteq Made' /\ (UNCHANGED wave => Made' = Made)
      /\ \A n \in Made : wave'[n] = wave[n] /\ (~Reused(n)' => ~Reused(n))
  BY MadeStep DEF IInv
<1> USE WaveAssumption, WaveFields, <1>0
    DEF vars, conns, routes, IInv, TypeOK, InHand, OneConfirms, OkOnce, FailsUndelivered
<1>1. ASSUME NEW c \in Conn,
             \/ Register(c) \/ Unregister(c) \/ HandlerStep(c)
             \/ \E n \in Number, i \in Id, a \in Acc : ReadWave(c, n, i, a)
             \/ \E i \in Id : ReadAck(c, i)
      PROVE  OkOnce'
  <2>1. CASE Register(c) BY <2>1 DEF Register
  <2>2. CASE Unregister(c) BY <2>2 DEF Unregister
  <2>3. CASE CloseOld(c) BY <2>3 DEF CloseOld, Finish
  <2>4. CASE Leave(c) BY <2>4 DEF Leave
  <2>5. CASE Offline(c) BY <2>5 DEF Offline
  <2>6. CASE RouteWave(c) BY <2>6 DEF RouteWave
  <2>7. CASE SendWave(c) BY <2>7 DEF SendWave, Finish
  <2>8. CASE SendFails(c) BY <2>8 DEF SendFails
  <2>9. CASE EraseRoute(c) BY <2>9 DEF EraseRoute
  <2>10. CASE Reply(c) BY <2>10 DEF Reply, Finish
  <2>11. ASSUME NEW n \in Number, NEW i \in Id, NEW a \in Acc, ReadWave(c, n, i, a)
         PROVE OkOnce'
    <3>1. wave' = [wave EXCEPT ![n] = [from |-> c, id |-> i, to |-> a]] /\ n \notin Made
      BY <2>11 DEF ReadWave, Fresh
    <3>2. Made' = Made \cup {n} BY <3>1 DEF Made, TypeOK
    <3>3. n # 0 /\ wave'[n].from = c /\ wave'[n].id = i /\ wave'[n].to = a BY <3>1 DEF Number
    <3> QED BY <3>1, <3>2, <3>3, <2>11 DEF ReadWave
  <2>12. ASSUME NEW i \in Id, ReadAck(c, i) PROVE OkOnce'
    BY <2>12 DEF ReadAck
  <2> QED BY <1>1, <2>1, <2>2, <2>3, <2>4, <2>5, <2>6,
             <2>7, <2>8, <2>9, <2>10, <2>11, <2>12 DEF HandlerStep
<1>2. ASSUME NEW n \in Number, Age(n) PROVE OkOnce'
  BY <1>2 DEF Age
<1>3. CASE UNCHANGED vars BY <1>3
<1> QED BY <1>1, <1>2, <1>3 DEF Next

-----------------------------------------------------------------------------
(* The invariant, and what it implies.                                     *)

\* Before the first wave nothing is in hand, routed, delivered or answered.
LEMMA InitInv == Init => IInv
<1> SUFFICES ASSUME Init PROVE IInv
  OBVIOUS
<1>1. Made = {} BY DEF Init, Made
<1>2. TypeOK BY WaveAssumption DEF Init, TypeOK, Number
<1>3. InHand BY DEF Init, InHand, Sending
<1>4. RoutesNameTheirIds BY DEF Init, RoutesNameTheirIds
<1>5. OneConfirms BY DEF Init, OneConfirms
<1>6. AckedWasDelivered BY <1>1 DEF Init, AckedWasDelivered
<1>7. FailsUndelivered BY <1>1 DEF Init, FailsUndelivered, IsDelivered, Sending
<1> QED BY <1>1, <1>2, <1>3, <1>4, <1>5, <1>6, <1>7 DEF IInv, RouteKept, OkWasAcked, OkOnce

\* Every reachable state satisfies the induction's invariant: threads have
\* their waves in hand, a route is confirmed by one ack, an ack follows the
\* delivery of its id, and a wave that failed was never delivered.
THEOREM WaveInvariant == Spec => []IInv
<1>1. IInv /\ [Next]_vars => IInv'
  BY TypeStep, InHandStep, RoutesStep, ConfirmStep, AckedStep, FailsStep, KeptStep, OkStep,
     OnceStep DEF IInv
<1> QED BY InitInv, <1>1, PTL DEF Spec

\* Every variable of the hub's waves keeps its type, and the old protocol's
\* empty id never has a route.
THEOREM WaveTypeCorrect == Spec => []TypeOK
<1>1. IInv => TypeOK BY DEF IInv
<1> QED BY <1>1, WaveInvariant, PTL

\* handle_wave_ack passes on only an ack of the account the wave went to,
\* whichever ids the clients choose.
THEOREM WaveOkWasAcked == Spec => []OkWasAcked
<1>1. IInv => OkWasAcked BY DEF IInv
<1> QED BY <1>1, WaveInvariant, PTL

\* A wave is confirmed to its sender once, however often it is acknowledged.
THEOREM WaveOkOnce == Spec => []OkOnce
<1>1. IInv => OkOnce BY DEF IInv
<1> QED BY <1>1, WaveInvariant, PTL

\* What a sender is told by wave_ok is true, and told once (handle_wave_ack).
THEOREM WaveOkIsTrue == Spec => []OkIsTrue
<1> QED BY WaveTypeCorrect, WaveOkWasAcked, WaveOkOnce, PTL DEF OkIsTrue

\* handle_wave reports as failed only a wave that was never delivered, and
\* nobody's ack confirms it, unless its id was used by another wave too.
THEOREM WaveAnswersAgree == Spec => []AnswersAgree
<1>1. IInv => AnswersAgree
  <2> SUFFICES ASSUME IInv, NEW n \in Made, answer[n].fail > 0, ~Reused(n)
      PROVE  answer[n].ok = 0 /\ ~IsDelivered(n)
    BY DEF AnswersAgree
  <2>1. ~IsDelivered(n) BY DEF IInv, FailsUndelivered
  <2>2. answer[n].ok \in Nat BY WaveFields DEF IInv, TypeOK
  <2>3. wave[n].id \in Id /\ wave[n].to \in Acc BY WaveFields DEF IInv
  <2>4. <<wave[n].id, wave[n].to>> \notin acks.seen
    BY <2>1, <2>3 DEF IInv, AckedWasDelivered, Reused
  <2>5. ~(answer[n].ok > 0) BY <2>1, <2>4 DEF IInv, AckedWasDelivered, OkWasAcked
  <2> QED BY <2>1, <2>2, <2>5
<1> QED BY <1>1, WaveInvariant, PTL

\* The route handle_wave enters before it sends is there for the receiver's
\* ack, until the ack comes or a minute has passed.
THEOREM WaveRouteReady == Spec => []RouteReady
<1>1. IInv => RouteReady BY DEF IInv, RouteKept, NeedsRoute, RouteReady
<1> QED BY <1>1, WaveInvariant, PTL

=============================================================================
