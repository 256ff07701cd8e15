----------------------------- MODULE PushMap_proofs -----------------------------
(* When all is quiet, the players on a map have the list of the players on *)
(* it, but for those an older list overtook or the newest was not sent to. *)
(*                                                                         *)
(* Of the lists that are being written to a player, the newest one is      *)
(* right, and after the last one what the player was sent, unless somebody *)
(* is going to send the list of that map again: Current.  A step that      *)
(* changes who is on a map, or where, makes that list due (Point); a       *)
(* snapshot makes it the newest (SnapshotCurrent); a write takes from a    *)
(* receiver the list written and those older (WriteNews).                  *)
EXTENDS PushMap, SequenceTheorems, TLAPS

\* A thread whose connection has been registered and has not left.
Joined == {"supersede", "loop", "frame", "notify"}

\* What a thread knows at each of its steps, and the hub of its connection.
Threads ==
  \A c \in Conn :
    /\ pc[c] \in {"new", "supersede"} => at[c] = None
    /\ pc[c] \notin {"notify", "last"} => todo[c] = <<>> /\ list[c] = NoList
    /\ list[c] # NoList => list[c].to # {}
    /\ \A a \in Acc : byAcc[a] = c => AccOf[c] = a /\ pc[c] \in Joined

\* A connection that has lost its place is closed, or about to be.
Superseded ==
  \A c \in Conn : pc[c] \in Joined /\ c \notin gone /\ byAcc[AccOf[c]] # c =>
    \E d \in Conn : pc[d] = "supersede" /\ old[d] = c

\* The lists that are being written are in an order; a thread that was passed
\* at a receiver was passed there with all older ones.
InOrder ==
  /\ \A s, t \in Conn : <<s, t>> \in before => {s, t} \subseteq Writers /\ <<t, s>> \notin before
  /\ \A s, t \in Writers : s = t \/ <<s, t>> \in before \/ <<t, s>> \in before
  /\ \A s, t, u \in Conn : <<s, t>> \in before /\ <<t, u>> \in before => <<s, u>> \in before
  /\ \A t, c \in Conn : <<t, c>> \in passed => t \in Writers
  /\ \A s, t, c \in Conn : <<t, c>> \in passed /\ <<s, t>> \in before => <<s, c>> \in passed

\* Somebody is going to send the list of a map again: a thread has it to notify,
\* or a player on it has left the list and not yet said so.
Has(c, m) == \E k \in DOMAIN todo[c] : todo[c][k] = m
Left(c, m) == at[c] = m /\ c \notin OnMap(m) /\ pc[c] \in Joined \cup {"close"}
Due(m) == \E c \in Conn : Has(c, m) \/ Left(c, m)

\* The threads that will write to c what c has not been sent a newer list than.
News(c) == {t \in Conn : c \in list[t].to /\ <<t, c>> \notin passed}

\* A player has, or will be sent last, the list of its map.
UpToDate(c, m) ==
  \/ \E t \in News(c) : /\ list[t].body = PlayersOn(m)
                        /\ \A s \in News(c) : s = t \/ <<s, t>> \in before
  \/ News(c) = {} /\ (c \in behind \/ view[c] = PlayersOn(m))
Current == \A m \in Map : ~Due(m) => \A c \in OnMap(m) : UpToDate(c, m)

\* Every list names those it is sent to.
Names(v, c) == \E p \in v.players : p[1] = AccOf[c]
ListsName == \A t, c \in Conn : c \in list[t].to => Names(list[t].body, c)

MapInv ==
  /\ TypeOK /\ Threads /\ Superseded /\ InOrder /\ Current /\ ListsName /\ ListsNameReceiver

\* Pairs with the same second are added to a relation.
Adds(B, W, y) == B \cup {<<w, y>> : w \in W}

\* What is in such a relation.
LEMMA Pairs ==
  \A B, W, y, s, t : <<s, t>> \in Adds(B, W, y) <=> <<s, t>> \in B \/ (s \in W /\ t = y)
BY DEF Adds

\* Two sequences of maps, one after the other.
LEMMA BothSequences ==
  \A p, q \in Seq(Map) : \A x \in Map :
    (\E k \in DOMAIN p : p[k] = x) \/ (\E k \in DOMAIN q : q[k] = x) =>
      \E k \in DOMAIN (p \o q) : (p \o q)[k] = x
<1> SUFFICES ASSUME NEW p \in Seq(Map), NEW q \in Seq(Map), NEW x \in Map,
                    (\E k \in DOMAIN p : p[k] = x) \/ (\E k \in DOMAIN q : q[k] = x)
             PROVE  \E k \in DOMAIN (p \o q) : (p \o q)[k] = x
  OBVIOUS
<1>1. /\ p \o q \in Seq(Map) /\ Len(p \o q) = Len(p) + Len(q)
      /\ \A i \in 1..(Len(p) + Len(q)) :
           (p \o q)[i] = IF i <= Len(p) THEN p[i] ELSE q[i - Len(p)]
  BY ConcatProperties
<1>2. /\ DOMAIN p = 1..Len(p) /\ DOMAIN q = 1..Len(q) /\ Len(p) \in Nat /\ Len(q) \in Nat
      /\ DOMAIN (p \o q) = 1..(Len(p) + Len(q))
  BY <1>1
<1>3. ASSUME NEW k \in DOMAIN p, p[k] = x PROVE \E j \in DOMAIN (p \o q) : (p \o q)[j] = x
  <2>1. k \in 1..(Len(p) + Len(q)) /\ k <= Len(p) BY <1>2
  <2> QED BY <1>1, <1>2, <1>3, <2>1
<1>4. ASSUME NEW k \in DOMAIN q, q[k] = x PROVE \E j \in DOMAIN (p \o q) : (p \o q)[j] = x
  <2> DEFINE j == Len(p) + k
  <2>1. j \in 1..(Len(p) + Len(q)) /\ ~(j <= Len(p)) /\ j - Len(p) = k BY <1>2
  <2> HIDE DEF j
  <2> QED BY <1>1, <1>2, <1>4, <2>1
<1> QED BY <1>3, <1>4

\* The maps to notify.
LEMMA ToldMaps ==
  ASSUME MapAssumption, TypeOK, NEW c \in Conn, NEW m \in Map \cup {None}
  PROVE  /\ Told(c, m) \in Seq(Map)
         /\ \A x \in Map : x \in {m, at[c]} => \E k \in DOMAIN Told(c, m) : Told(c, m)[k] = x
<1> DEFINE p == IF at[c] \notin {None, m} THEN <<at[c]>> ELSE <<>>
           q == IF m = None THEN <<>> ELSE <<m>>
<1>1. at[c] \in Map \cup {None} BY DEF TypeOK
<1>2. p \in Seq(Map) /\ q \in Seq(Map) BY <1>1
<1>3. Told(c, m) = p \o q BY DEF Told
<1>4. Told(c, m) \in Seq(Map) BY <1>2, <1>3, ConcatProperties
<1>5. ASSUME NEW x \in Map, x = m, m # None PROVE \E k \in DOMAIN Told(c, m) : Told(c, m)[k] = x
  <2>1. q = <<m>> BY <1>5
  <2>2. \E k \in DOMAIN q : q[k] = x BY <1>5, <2>1
  <2> HIDE DEF p, q
  <2>3. (\E k \in DOMAIN p : p[k] = x) \/ (\E k \in DOMAIN q : q[k] = x) BY <2>2
  <2>4. \E k \in DOMAIN (p \o q) : (p \o q)[k] = x BY <1>2, <2>3, BothSequences
  <2> QED BY <1>3, <2>4
<1>6. ASSUME NEW x \in Map, x = at[c], at[c] \notin {None, m}
      PROVE  \E k \in DOMAIN Told(c, m) : Told(c, m)[k] = x
  <2>1. p = <<at[c]>> BY <1>6
  <2>2. \E k \in DOMAIN p : p[k] = x BY <1>6, <2>1
  <2> HIDE DEF p, q
  <2>3. (\E k \in DOMAIN p : p[k] = x) \/ (\E k \in DOMAIN q : q[k] = x) BY <2>2
  <2>4. \E k \in DOMAIN (p \o q) : (p \o q)[k] = x BY <1>2, <2>3, BothSequences
  <2> QED BY <1>3, <2>4
<1> QED BY <1>4, <1>5, <1>6 DEF MapAssumption

\* One map after the other is taken.
LEMMA TakeMap ==
  ASSUME NEW q \in Seq(Map), q # <<>>
  PROVE  /\ Head(q) \in Map /\ Tail(q) \in Seq(Map)
         /\ \A k \in DOMAIN q : q[k] = Head(q) \/ \E j \in DOMAIN Tail(q) : Tail(q)[j] = q[k]
<1>1. Head(q) \in Map /\ Tail(q) \in Seq(Map) BY HeadTailProperties
<1>2. ASSUME NEW k \in DOMAIN q PROVE q[k] = Head(q) \/ \E j \in DOMAIN Tail(q) : Tail(q)[j] = q[k]
  <2>1. k \in 1..Len(q) /\ Len(q) \in Nat BY <1>2
  <2>2. CASE k = 1 BY <2>2
  <2>3. CASE k # 1
    <3>1. k - 1 \in 1..(Len(q) - 1) BY <2>1, <2>3
    <3>2. Len(Tail(q)) = Len(q) - 1 /\ Tail(q)[k - 1] = q[(k - 1) + 1] BY <3>1, HeadTailProperties
    <3>3. DOMAIN Tail(q) = 1..(Len(q) - 1) BY <1>1, <3>2
    <3>4. (k - 1) + 1 = k BY <2>1
    <3> QED BY <3>1, <3>2, <3>3, <3>4
  <2> QED BY <2>2, <2>3
<1> QED BY <1>1, <1>2

\* The list of a map has the players on it.
LEMMA PlayersOnType == ASSUME TypeOK, AccOf \in [Conn -> Acc], NEW m \in Map PROVE PlayersOn(m) \in Body
BY DEF TypeOK, PlayersOn, OnMap, Body

\* What a snapshot does to the lists.
Takes(c, m) ==
  /\ todo[c] # <<>> /\ m = Head(todo[c]) /\ list[c] = NoList /\ pc[c] \in {"notify", "last"}
  /\ todo' = [todo EXCEPT ![c] = Tail(todo[c])]
  /\ \/ OnMap(m) = {} /\ UNCHANGED <<list, before>>
     \/ /\ OnMap(m) # {}
        /\ list' = [list EXCEPT ![c] = [body |-> PlayersOn(m), to |-> OnMap(m)]]
        /\ before' = before \cup {<<t, c>> : t \in Writers}
  /\ UNCHANGED <<conns, at, pos, pc, old, view, moves, passed, behind>>

\* It does just that.
LEMMA SnapshotTakes ==
  ASSUME TypeOK, NEW c \in Conn, Snapshot(c) PROVE \E m \in Map : Takes(c, m)
<1>1. todo[c] \in Seq(Map) /\ todo[c] # <<>> BY DEF Snapshot, TypeOK
<1>2. Head(todo[c]) \in Map BY <1>1, TakeMap
<1>3. Takes(c, Head(todo[c]))
  <2>1. CASE OnMap(Head(todo[c])) = {} BY <2>1 DEF Snapshot, Takes, Working, Receivers
  <2>2. CASE OnMap(Head(todo[c])) # {} BY <2>2 DEF Snapshot, Takes, Working, Receivers
  <2> QED BY <2>1, <2>2
<1> QED BY <1>2, <1>3

\* What a write does to them.
Writes(c, d) ==
  /\ d \in list[c].to
  /\ list' \in [Conn -> [body : Body, to : SUBSET Conn]]
  /\ \A t \in Conn : t # c => list'[t] = list[t]
  /\ list'[c].to = list[c].to \ {d}
  /\ IF list[c].to = {d} THEN list'[c] = NoList ELSE list'[c].to # {} /\ list'[c].body = list[c].body

\* It does that: no list is written to nobody.
LEMMA WriteWrites ==
  ASSUME TypeOK, Threads, NEW c \in Conn, NEW d \in Conn, Write(c, d) PROVE Writes(c, d)
<1>1. d \in list[c].to /\ list[c] \in [body : Body, to : SUBSET Conn] BY DEF Write, TypeOK
<1>2. NoList.to = {} /\ NoList \in [body : Body, to : SUBSET Conn] BY DEF NoList, Nobody, Body
<1>3. \A t \in Conn : list[t].to = {} => list[t] = NoList BY DEF Threads
<1>4. CASE list[c].to = {d}
  <2>1. list' = [list EXCEPT ![c] = NoList] BY <1>4 DEF Write
  <2> HIDE DEF NoList
  <2> QED BY <1>1, <1>2, <1>3, <1>4, <2>1 DEF Writes, TypeOK
<1>5. CASE list[c].to # {d}
  <2>1. list' = [list EXCEPT ![c].to = list[c].to \ {d}] BY <1>5 DEF Write
  <2>2. list' = [list EXCEPT ![c] = [body |-> list[c].body, to |-> list[c].to \ {d}]]
    <3> DEFINE r == list[c]
    <3>1. [r EXCEPT !.to = r.to \ {d}] = [body |-> r.body, to |-> r.to \ {d}] BY <1>1
    <3>2. list' = [list EXCEPT ![c] = [r EXCEPT !.to = r.to \ {d}]] BY <2>1
    <3> QED BY <3>1, <3>2
  <2>3. list[c].to \ {d} # {} BY <1>1, <1>5
  <2> QED BY <1>1, <1>3, <2>2, <2>3 DEF Writes, TypeOK
<1> QED BY <1>4, <1>5

\* Every step keeps every variable in its type.
LEMMA TypeStep == MapAssumption /\ MapInv /\ [Next]_vars => TypeOK'
<1> SUFFICES ASSUME MapAssumption, MapInv, [Next]_vars PROVE TypeOK'
  OBVIOUS
<1>0. TypeOK /\ Threads BY DEF MapInv
<1> USE <1>0 DEF MapAssumption, conns, history, Go, TypeOK, Threads, Body, NoList, Nobody
<1>1. ASSUME NEW c \in Conn, Register(c) PROVE TypeOK'
  BY <1>1 DEF Register
<1>2. ASSUME NEW c \in Conn, CloseOld(c) PROVE TypeOK'
  BY <1>2 DEF CloseOld
<1>3. ASSUME NEW c \in Conn, ReadFrame(c) PROVE TypeOK'
  BY <1>3 DEF ReadFrame
<1>4. ASSUME NEW c \in Conn, NEW m \in Map \cup {None}, Presence(c, m) PROVE TypeOK'
  <2>1. Told(c, m) \in Seq(Map) BY ToldMaps DEF MapAssumption
  <2> QED BY <1>4, <2>1 DEF Presence
<1>5. ASSUME NEW c \in Conn, Leave(c) PROVE TypeOK'
  BY <1>5 DEF Leave
<1>6. ASSUME NEW c \in Conn, CloseOwn(c) PROVE TypeOK'
  <2>1. Farewell(c) \in Seq(Map) BY DEF Farewell
  <2> QED BY <1>6, <2>1 DEF CloseOwn
<1>7. ASSUME NEW c \in Conn, Snapshot(c) PROVE TypeOK'
  <2>1. PICK m \in Map : Takes(c, m) BY <1>7, SnapshotTakes
  <2>2. todo[c] \in Seq(Map) /\ todo[c] # <<>> BY <2>1 DEF Takes
  <2>3. Tail(todo[c]) \in Seq(Map) BY <2>2, TakeMap
  <2>4. PlayersOn(m) \in Body /\ OnMap(m) \subseteq Conn BY PlayersOnType DEF OnMap
  <2>5. list' \in [Conn -> [body : Body, to : SUBSET Conn]]
    <3>1. CASE OnMap(m) = {} BY <2>1, <3>1 DEF Takes
    <3>2. CASE OnMap(m) # {}
      <4> DEFINE r == [body |-> PlayersOn(m), to |-> OnMap(m)]
      <4>1. r \in [body : Body, to : SUBSET Conn] BY <2>4
      <4>2. list' = [list EXCEPT ![c] = r] BY <2>1, <3>2 DEF Takes
      <4> HIDE DEF r
      <4> QED BY <4>1, <4>2
    <3> QED BY <3>1, <3>2
  <2>6. before' \subseteq Conn \X Conn BY <2>1 DEF Takes, Writers
  <2> QED BY <2>1, <2>3, <2>5, <2>6 DEF Takes
<1>8. ASSUME NEW c \in Conn, Return(c) PROVE TypeOK'
  BY <1>8 DEF Return, Working
<1>9. ASSUME NEW c \in Conn, NEW d \in Conn, Write(c, d) PROVE TypeOK'
  <2>1. list' \in [Conn -> [body : Body, to : SUBSET Conn]] BY <1>9, WriteWrites DEF Writes
  <2>2. view' \in [Conn -> Body] /\ behind' \subseteq Conn
    <3>1. list[c].body \in Body OBVIOUS
    <3>2. CASE d \in gone BY <1>9, <3>2 DEF Write
    <3>3. CASE d \notin gone
      <4>1. /\ view' = [view EXCEPT ![d] = list[c].body] \/ view' = view
            /\ behind' \in {behind \cup {d}, behind \ {d}}
        BY <1>9, <3>3 DEF Write, Sent, Unsent
      <4>2. view \in [Conn -> Body] /\ behind \subseteq Conn OBVIOUS
      <4> QED BY ONLY <3>1, <4>1, <4>2
    <3> QED BY <3>2, <3>3
  <2>3. before' \subseteq Conn \X Conn /\ UNCHANGED <<conns, at, pos, pc, todo, old, moves>>
    BY <1>9 DEF Write
  <2>4. passed' \subseteq Conn \X Conn
    <3>1. passed \cup {<<t, d>> : t \in Older(c)} \subseteq Conn \X Conn
      <4>1. c \in Conn /\ d \in Conn /\ Older(c) \subseteq Conn BY DEF Older
      <4> QED BY <4>1
    <3> QED BY <1>9, <3>1 DEF Write
  <2> QED BY ONLY <1>0, <2>1, <2>2, <2>3, <2>4 DEF TypeOK, conns, Body
<1>10. ASSUME NEW c \in Conn, Close(c) PROVE TypeOK'
  BY <1>10 DEF Close
<1>11. CASE UNCHANGED vars BY <1>11 DEF vars
<1> QED BY <1>1, <1>2, <1>3, <1>4, <1>5, <1>6, <1>7, <1>8, <1>9, <1>10, <1>11 DEF Next, Thread,
           Handled, Notify

\* Every step keeps what a thread knows.
LEMMA ThreadsStep == MapAssumption /\ MapInv /\ [Next]_vars => Threads'
<1> SUFFICES ASSUME MapAssumption, MapInv, [Next]_vars PROVE Threads'
  OBVIOUS
<1>0. TypeOK /\ Threads BY DEF MapInv
<1> USE <1>0 DEF MapAssumption, conns, history, Go, TypeOK, Threads, NoList, Joined
<1>1. ASSUME NEW c \in Conn, Register(c) PROVE Threads'
  BY <1>1 DEF Register
<1>2. ASSUME NEW c \in Conn, CloseOld(c) PROVE Threads'
  BY <1>2 DEF CloseOld
<1>3. ASSUME NEW c \in Conn, ReadFrame(c) PROVE Threads'
  BY <1>3 DEF ReadFrame
<1>4. ASSUME NEW c \in Conn, NEW m \in Map \cup {None}, Presence(c, m) PROVE Threads'
  BY <1>4 DEF Presence
<1>5. ASSUME NEW c \in Conn, Leave(c) PROVE Threads'
  BY <1>5 DEF Leave
<1>6. ASSUME NEW c \in Conn, CloseOwn(c) PROVE Threads'
  BY <1>6 DEF CloseOwn, Farewell
<1>7. ASSUME NEW c \in Conn, Snapshot(c) PROVE Threads'
  <2>1. PICK m \in Map : Takes(c, m) BY <1>7, SnapshotTakes
  <2>2. UNCHANGED <<byAcc, at, pc>> BY <2>1 DEF Takes
  <2>3. pc[c] \in {"notify", "last"} BY <2>1 DEF Takes
  <2>4. ASSUME NEW x \in Conn, x # c PROVE todo'[x] = todo[x] /\ list'[x] = list[x]
    BY <2>1, <2>4 DEF Takes
  <2>5. list[c] = NoList BY <2>1 DEF Takes
  <2>6. list'[c] # NoList => list'[c].to # {}
    <3>1. CASE UNCHANGED list BY <2>5, <3>1
    <3>2. CASE OnMap(m) # {} /\ list' = [list EXCEPT ![c] = [body |-> PlayersOn(m), to |-> OnMap(m)]]
      <4>1. list'[c] = [body |-> PlayersOn(m), to |-> OnMap(m)] BY <3>2
      <4> QED BY <3>2, <4>1
    <3> QED BY <2>1, <3>1, <3>2 DEF Takes
  <2>7. \A x \in Conn : pc'[x] \notin {"notify", "last"} => todo'[x] = <<>> /\ list'[x] = NoList
    BY <2>2, <2>3, <2>4
  <2>8. \A x \in Conn : list'[x] # NoList => list'[x].to # {} BY <2>4, <2>6
  <2> HIDE DEF NoList
  <2> QED BY <2>2, <2>7, <2>8
<1>8. ASSUME NEW c \in Conn, Return(c) PROVE Threads'
  BY <1>8 DEF Return, Working
<1>9. ASSUME NEW c \in Conn, NEW d \in Conn, Write(c, d) PROVE Threads'
  <2>1. Writes(c, d) BY <1>9, WriteWrites
  <2>2. UNCHANGED <<byAcc, at, pc, todo>> BY <1>9 DEF Write
  <2>3. pc[c] \in {"notify", "last"}
    <3>1. list[c] # NoList BY <2>1 DEF Writes
    <3> QED BY <3>1
  <2>4. \A x \in Conn : x # c => list'[x] = list[x] BY <2>1 DEF Writes
  <2>5. \A x \in Conn : list'[x] # NoList => list'[x].to # {}
    <3> HIDE DEF NoList
    <3> QED BY <2>1, <2>4 DEF Writes
  <2> HIDE DEF NoList
  <2>6. \A x \in Conn : pc'[x] \notin {"notify", "last"} => todo'[x] = <<>> /\ list'[x] = NoList
    BY <2>2, <2>3, <2>4
  <2> QED BY <2>2, <2>5, <2>6
<1>10. ASSUME NEW c \in Conn, Close(c) PROVE Threads'
  BY <1>10 DEF Close
<1>11. CASE UNCHANGED vars BY <1>11 DEF vars
<1> QED BY <1>1, <1>2, <1>3, <1>4, <1>5, <1>6, <1>7, <1>8, <1>9, <1>10, <1>11 DEF Next, Thread,
           Handled, Notify

\* Every step keeps a superseded connection's end in sight.
LEMMA SupersededStep == MapAssumption /\ MapInv /\ [Next]_vars => Superseded'
<1> SUFFICES ASSUME MapAssumption, MapInv, [Next]_vars PROVE Superseded'
  OBVIOUS
<1>0. TypeOK /\ Threads /\ Superseded BY DEF MapInv
<1> USE <1>0 DEF MapAssumption, conns, history, Go, TypeOK, Threads, Superseded, Joined
<1>1. ASSUME NEW c \in Conn, Register(c) PROVE Superseded'
  BY <1>1 DEF Register
<1>2. ASSUME NEW c \in Conn, CloseOld(c) PROVE Superseded'
  BY <1>2 DEF CloseOld
<1>3. ASSUME NEW c \in Conn, ReadFrame(c) PROVE Superseded'
  BY <1>3 DEF ReadFrame
<1>4. ASSUME NEW c \in Conn, NEW m \in Map \cup {None}, Presence(c, m) PROVE Superseded'
  BY <1>4 DEF Presence
<1>5. ASSUME NEW c \in Conn, Leave(c) PROVE Superseded'
  BY <1>5 DEF Leave
<1>6. ASSUME NEW c \in Conn, CloseOwn(c) PROVE Superseded'
  BY <1>6 DEF CloseOwn, Farewell
<1>7. ASSUME NEW c \in Conn, Snapshot(c) PROVE Superseded'
  BY <1>7 DEF Snapshot, Working, Receivers
<1>8. ASSUME NEW c \in Conn, Return(c) PROVE Superseded'
  BY <1>8 DEF Return, Working
<1>9. ASSUME NEW c \in Conn, NEW d \in Conn, Write(c, d) PROVE Superseded'
  BY <1>9 DEF Write
<1>10. ASSUME NEW c \in Conn, Close(c) PROVE Superseded'
  BY <1>10 DEF Close
<1>11. CASE UNCHANGED vars BY <1>11 DEF vars
<1> QED BY <1>1, <1>2, <1>3, <1>4, <1>5, <1>6, <1>7, <1>8, <1>9, <1>10, <1>11 DEF Next, Thread,
           Handled, Notify

\* Every step keeps the order of the lists.
LEMMA InOrderStep == MapAssumption /\ MapInv /\ [Next]_vars => InOrder'
<1> SUFFICES ASSUME MapAssumption, MapInv, [Next]_vars PROVE InOrder'
  OBVIOUS
<1>0. TypeOK /\ Threads /\ InOrder BY DEF MapInv
<1> USE <1>0 DEF MapAssumption, conns, history, Go, TypeOK, Threads, InOrder, Writers, NoList, Older
<1>1. ASSUME NEW c \in Conn, Register(c) PROVE InOrder'
  BY <1>1 DEF Register
<1>2. ASSUME NEW c \in Conn, CloseOld(c) PROVE InOrder'
  BY <1>2 DEF CloseOld
<1>3. ASSUME NEW c \in Conn, ReadFrame(c) PROVE InOrder'
  BY <1>3 DEF ReadFrame
<1>4. ASSUME NEW c \in Conn, NEW m \in Map \cup {None}, Presence(c, m) PROVE InOrder'
  BY <1>4 DEF Presence
<1>5. ASSUME NEW c \in Conn, Leave(c) PROVE InOrder'
  BY <1>5 DEF Leave
<1>6. ASSUME NEW c \in Conn, CloseOwn(c) PROVE InOrder'
  BY <1>6 DEF CloseOwn, Farewell
<1>7. ASSUME NEW c \in Conn, Snapshot(c) PROVE InOrder'
  <2>1. PICK m \in Map : Takes(c, m) BY <1>7, SnapshotTakes
  <2>2. CASE UNCHANGED <<list, before>> BY <2>1, <2>2 DEF Takes
  <2>3. CASE /\ OnMap(m) # {} /\ before' = before \cup {<<t, c>> : t \in Writers}
             /\ list' = [list EXCEPT ![c] = [body |-> PlayersOn(m), to |-> OnMap(m)]]
    <3>1. passed' = passed /\ c \notin Writers BY <2>1 DEF Takes
    <3>2. Writers' = Writers \cup {c} /\ Writers \subseteq Conn
      <4>1. list'[c] = [body |-> PlayersOn(m), to |-> OnMap(m)] BY <2>3
      <4>2. list'[c] # NoList BY <2>3, <4>1
      <4>3. \A t \in Conn : t # c => list'[t] = list[t] BY <2>3
      <4> QED BY <4>2, <4>3 DEF Writers
    <3>3. \A s, t : <<s, t>> \in before' <=> <<s, t>> \in before \/ (s \in Writers /\ t = c)
      <4>1. before' = Adds(before, Writers, c) BY <2>3 DEF Adds
      <4> HIDE DEF Writers
      <4> QED BY ONLY <4>1, Pairs
    <3> USE DEF InOrder
    <3> HIDE DEF Writers, Older, NoList
    <3>4. \A s, t \in Conn : <<s, t>> \in before => s \in Writers /\ t \in Writers BY <1>0
    <3>5. \A s, t \in Conn : <<s, t>> \in before' => {s, t} \subseteq Writers' /\ <<t, s>> \notin before'
      BY <1>0, <3>1, <3>2, <3>3, <3>4
    <3>6. \A s, t \in Writers' : s = t \/ <<s, t>> \in before' \/ <<t, s>> \in before'
      BY <1>0, <3>1, <3>2, <3>3
    <3>7. \A s, t, u \in Conn : <<s, t>> \in before' /\ <<t, u>> \in before' => <<s, u>> \in before'
      BY <1>0, <3>1, <3>2, <3>3, <3>4
    <3>8. \A t, x \in Conn : <<t, x>> \in passed' => t \in Writers' BY <1>0, <3>1, <3>2
    <3>9. \A s, t, x \in Conn : <<t, x>> \in passed' /\ <<s, t>> \in before' => <<s, x>> \in passed'
      BY <1>0, <3>1, <3>3
    <3> QED BY <3>5, <3>6, <3>7, <3>8, <3>9
  <2> QED BY <2>1, <2>2, <2>3 DEF Takes
<1>8. ASSUME NEW c \in Conn, Return(c) PROVE InOrder'
  BY <1>8 DEF Return, Working
<1>9. ASSUME NEW c \in Conn, NEW d \in Conn, Write(c, d) PROVE InOrder'
  <2>1. Writes(c, d) BY <1>9, WriteWrites
  <2> DEFINE told == passed \cup {<<t, d>> : t \in Older(c)}
  <2>2. \A t, x : <<t, x>> \in told <=> <<t, x>> \in passed \/ (x = d /\ t \in Conn /\ <<t, c>> \in before)
    <3>1. \A t, x : <<t, x>> \in told <=> <<t, x>> \in passed \/ (t \in Older(c) /\ x = d)
      <4>1. told = Adds(passed, Older(c), d) BY DEF Adds
      <4> HIDE DEF told, Older
      <4> QED BY ONLY <4>1, Pairs
    <3>2. \A t : t \in Older(c) <=> t \in Conn /\ <<t, c>> \in before BY DEF Older
    <3> HIDE DEF told, Older
    <3>3. ASSUME NEW t, NEW x
          PROVE  <<t, x>> \in told <=> <<t, x>> \in passed \/ (x = d /\ t \in Conn /\ <<t, c>> \in before)
      <4>1. t \in Older(c) <=> t \in Conn /\ <<t, c>> \in before BY ONLY <3>2
      <4>2. <<t, x>> \in told <=> <<t, x>> \in passed \/ (t \in Older(c) /\ x = d) BY ONLY <3>1
      <4> QED BY ONLY <4>1, <4>2
    <3> QED BY ONLY <3>3
  <2> HIDE DEF told, Older
  <2>3. c \in Writers BY <2>1 DEF Writes
  <2>8. \A t, x \in Conn : <<t, x>> \in passed => t \in Writers BY DEF InOrder
  <2>9. \A s, t \in Conn : <<s, t>> \in before => s \in Writers /\ t \in Writers BY DEF InOrder
  <2>4. \A t, x \in Conn : <<t, x>> \in told => t \in Writers
    <3>1. c \in Conn OBVIOUS
    <3> QED BY ONLY <2>2, <2>8, <2>9, <3>1
  <2>5. \A s, t, x \in Conn : <<t, x>> \in told /\ <<s, t>> \in before => <<s, x>> \in told
    <3> HIDE DEF Writers
    <3>1. \A s, t, x \in Conn : <<t, x>> \in passed /\ <<s, t>> \in before => <<s, x>> \in passed
      BY DEF InOrder
    <3>2. \A s, t \in Conn : <<s, t>> \in before /\ <<t, c>> \in before => <<s, c>> \in before
      BY DEF InOrder
    <3>3. ASSUME NEW s \in Conn, NEW t \in Conn, NEW x \in Conn, <<t, x>> \in told, <<s, t>> \in before
          PROVE  <<s, x>> \in told
      <4>1. CASE <<t, x>> \in passed BY ONLY <2>2, <3>1, <3>3, <4>1
      <4>2. CASE x = d /\ <<t, c>> \in before BY ONLY <2>2, <3>2, <3>3, <4>2
      <4> QED BY ONLY <2>2, <3>3, <4>1, <4>2
    <3> QED BY <3>3
  <2>6. CASE list[c].to = {d}
    <3>1. /\ list' = [list EXCEPT ![c] = NoList]
          /\ before' = {p \in before : c \notin {p[1], p[2]}}
          /\ passed' = {p \in told : p[1] # c}
      BY <1>9, <2>6 DEF Write, told, Older
    <3>2. Writers' = Writers \ {c} BY <3>1
    <3>3. \A s, t : <<s, t>> \in before' <=> <<s, t>> \in before /\ s # c /\ t # c BY <3>1
    <3>4. \A s, t : <<s, t>> \in passed' <=> <<s, t>> \in told /\ s # c BY <3>1
    <3> HIDE DEF Writers, Older, NoList, told
    <3> QED BY <2>4, <2>5, <3>2, <3>3, <3>4
  <2>7. CASE list[c].to # {d}
    <3>1. before' = before /\ passed' = told BY <1>9, <2>7 DEF Write, told, Older
    <3>2. Writers' = Writers
      <4>1. \A t \in Conn : t # c => list'[t] = list[t] BY <2>1 DEF Writes
      <4>2. list'[c].to # {} BY <2>1, <2>7 DEF Writes
      <4>3. NoList.to = {} BY DEF NoList
      <4> HIDE DEF NoList
      <4>4. list'[c] # NoList BY <4>2, <4>3
      <4> QED BY <2>3, <4>1, <4>4
    <3> HIDE DEF Writers, Older, NoList, told
    <3> QED BY <2>4, <2>5, <3>1, <3>2
  <2> QED BY <2>6, <2>7
<1>10. ASSUME NEW c \in Conn, Close(c) PROVE InOrder'
  BY <1>10 DEF Close
<1>11. CASE UNCHANGED vars BY <1>11 DEF vars
<1> QED BY <1>1, <1>2, <1>3, <1>4, <1>5, <1>6, <1>7, <1>8, <1>9, <1>10, <1>11 DEF Next, Thread,
           Handled, Notify

\* Every step keeps every list one that names its receivers.
LEMMA ListsStep == MapAssumption /\ MapInv /\ [Next]_vars => (ListsName /\ ListsNameReceiver)'
<1> SUFFICES ASSUME MapAssumption, MapInv, [Next]_vars PROVE (ListsName /\ ListsNameReceiver)'
  OBVIOUS
<1>0. TypeOK /\ Threads /\ ListsName /\ ListsNameReceiver BY DEF MapInv
<1> USE <1>0 DEF MapAssumption, conns, history, Go, TypeOK, Threads, ListsName, ListsNameReceiver,
                 Names, NoList, Nobody
<1>1. ASSUME NEW c \in Conn, Register(c) PROVE (ListsName /\ ListsNameReceiver)'
  BY <1>1 DEF Register
<1>2. ASSUME NEW c \in Conn, CloseOld(c) PROVE (ListsName /\ ListsNameReceiver)'
  BY <1>2 DEF CloseOld
<1>3. ASSUME NEW c \in Conn, ReadFrame(c) PROVE (ListsName /\ ListsNameReceiver)'
  BY <1>3 DEF ReadFrame
<1>4. ASSUME NEW c \in Conn, NEW m \in Map \cup {None}, Presence(c, m) PROVE (ListsName /\ ListsNameReceiver)'
  BY <1>4 DEF Presence
<1>5. ASSUME NEW c \in Conn, Leave(c) PROVE (ListsName /\ ListsNameReceiver)'
  BY <1>5 DEF Leave
<1>6. ASSUME NEW c \in Conn, CloseOwn(c) PROVE (ListsName /\ ListsNameReceiver)'
  BY <1>6 DEF CloseOwn, Farewell
<1>7. ASSUME NEW c \in Conn, Snapshot(c) PROVE (ListsName /\ ListsNameReceiver)'
  <2>1. PICK m \in Map : Takes(c, m) BY <1>7, SnapshotTakes
  <2>2. view' = view BY <2>1 DEF Takes
  <2>3. CASE UNCHANGED list BY <2>2, <2>3
  <2>4. CASE list' = [list EXCEPT ![c] = [body |-> PlayersOn(m), to |-> OnMap(m)]]
    <3>1. list'[c] = [body |-> PlayersOn(m), to |-> OnMap(m)] BY <2>4
    <3>2. \A t \in Conn : t # c => list'[t] = list[t] BY <2>4
    <3>3. ASSUME NEW x \in OnMap(m) PROVE Names(PlayersOn(m), x)
      <4>1. <<AccOf[x], pos[x]>> \in PlayersOn(m).players BY <3>3 DEF PlayersOn, OnMap
      <4> QED BY <4>1
    <3> HIDE DEF Names, NoList
    <3>4. \A t, x \in Conn : x \in list'[t].to => Names(list'[t].body, x) 
      <4>1. list'[c].to = OnMap(m) /\ list'[c].body = PlayersOn(m) BY <3>1
      <4>2. \A x \in Conn : x \in list'[c].to => Names(list'[c].body, x) BY <3>3, <4>1
      <4>3. \A t, x \in Conn : t # c /\ x \in list'[t].to => Names(list'[t].body, x) BY <3>2
      <4> QED BY <4>2, <4>3
    <3>5. ListsName' BY <3>4
    <3>6. ListsNameReceiver' BY <2>2
    <3> QED BY <3>5, <3>6
  <2> QED BY <2>1, <2>3, <2>4 DEF Takes
<1>8. ASSUME NEW c \in Conn, Return(c) PROVE (ListsName /\ ListsNameReceiver)'
  BY <1>8 DEF Return, Working
<1>9. ASSUME NEW c \in Conn, NEW d \in Conn, Write(c, d) PROVE (ListsName /\ ListsNameReceiver)'
  <2>1. Writes(c, d) BY <1>9, WriteWrites
  <2>2. ASSUME NEW t \in Conn, NEW x \in Conn, x \in list'[t].to PROVE Names(list'[t].body, x)
    <3> HIDE DEF NoList, Names, ListsName, ListsNameReceiver
    <3>1. CASE t # c
      <4>1. list'[t] = list[t] BY <2>1, <3>1 DEF Writes
      <4> QED BY <2>2, <4>1 DEF ListsName
    <3>2. CASE t = c
      <4>1. NoList.to = {} BY DEF NoList
      <4>2. x \in list[c].to /\ list'[c].body = list[c].body BY <2>1, <2>2, <3>2, <4>1 DEF Writes
      <4> QED BY <3>2, <4>2 DEF ListsName
    <3> QED BY <3>1, <3>2
  <2>3. Names(list[c].body, d) BY <2>1 DEF Writes
  <2>4. view' = view \/ view' = [view EXCEPT ![d] = list[c].body] BY <1>9 DEF Write, Sent, Unsent
  <2>5. ListsNameReceiver'
    <3>1. CASE view' = view BY <3>1
    <3>2. CASE view' = [view EXCEPT ![d] = list[c].body]
      <4>1. view'[d] = list[c].body /\ \A x \in Conn : x # d => view'[x] = view[x] BY <3>2
      <4> QED BY <2>3, <4>1
    <3> QED BY <2>4, <3>1, <3>2
  <2>6. ListsName' BY <2>2
  <2> QED BY <2>5, <2>6
<1>10. ASSUME NEW c \in Conn, Close(c) PROVE (ListsName /\ ListsNameReceiver)'
  BY <1>10 DEF Close
<1>11. CASE UNCHANGED vars BY <1>11 DEF vars
<1> QED BY <1>1, <1>2, <1>3, <1>4, <1>5, <1>6, <1>7, <1>8, <1>9, <1>10, <1>11 DEF Next, Thread,
           Handled, Notify

\* A step that leaves the list of a map alone, or makes it due.
Point(x, m) ==
  /\ Has(x, m) \/ Left(x, m) => Has(x, m)' \/ Left(x, m)'
  /\ x \in OnMap(m) => (x \in OnMap(m)' /\ pos'[x] = pos[x]) \/ Has(x, m)' \/ Left(x, m)'
  /\ x \in OnMap(m)' => x \in OnMap(m) \/ Has(x, m)' \/ Left(x, m)'
Same == \A m \in Map : \A x \in Conn : Point(x, m)

\* Such a step keeps every list that was right and is not due.
LEMMA CurrentKept ==
  ASSUME Current, Same, UNCHANGED <<list, view, before, passed, behind>>
  PROVE  Current'
<1> SUFFICES ASSUME NEW m \in Map, ~Due(m)', NEW x \in OnMap(m)' PROVE UpToDate(x, m)'
  BY DEF Current
<1>1. ~Due(m) BY DEF Same, Point, Due
<1>2. OnMap(m)' = OnMap(m)
  <2>1. OnMap(m) \subseteq Conn /\ OnMap(m)' \subseteq Conn BY DEF OnMap
  <2> QED BY <2>1 DEF Same, Point, Due
<1>3. \A y \in OnMap(m) : pos'[y] = pos[y]
  <2>1. OnMap(m) \subseteq Conn BY DEF OnMap
  <2> QED BY <2>1 DEF Same, Point, Due
<1>4. PlayersOn(m)' = PlayersOn(m)
  <2> HIDE DEF OnMap
  <2> QED BY <1>2, <1>3 DEF PlayersOn
<1>5. News(x)' = News(x) BY DEF News
<1>6. UpToDate(x, m) BY <1>1, <1>2 DEF Current
<1> HIDE DEF News, PlayersOn
<1> QED BY <1>4, <1>5, <1>6 DEF UpToDate

\* The steps of a connection that notify nobody leave the lists alone.
LEMMA SameStep ==
  ASSUME MapAssumption, MapInv, NEW c \in Conn, NEW n \in Map \cup {None},
         Register(c) \/ CloseOld(c) \/ ReadFrame(c) \/ Presence(c, n) \/ Leave(c) \/ CloseOwn(c)
           \/ Return(c) \/ Close(c)
  PROVE  Current'
<1>0. TypeOK /\ Threads /\ Current BY DEF MapInv
<1>1. UNCHANGED <<list, view, before, passed, behind>>
  BY DEF Register, CloseOld, ReadFrame, Presence, Leave, CloseOwn, Return, Close, conns, history
<1> SUFFICES ASSUME NEW m \in Map, NEW x \in Conn PROVE Point(x, m)
  BY <1>0, <1>1, CurrentKept DEF Same
<1>2. ASSUME NEW a \in Acc, byAcc[a] = x PROVE AccOf[x] = a /\ pc[x] \in Joined
  BY <1>0, <1>2 DEF Threads
<1>3. pc[x] \in {"new", "supersede"} => at[x] = None BY <1>0 DEF Threads
<1>4. pc[x] \notin {"notify", "last"} => todo[x] = <<>> BY <1>0 DEF Threads
<1>5. m # None /\ AccOf[x] \in Acc /\ AccOf[c] \in Acc /\ c # None /\ x # None BY DEF MapAssumption
<1>6. todo' = todo => (Has(x, m)' <=> Has(x, m)) BY DEF Has
<1>7. ASSUME todo[x] = <<>> PROVE ~Has(x, m) BY <1>7 DEF Has
<1>8. at[x] \in Map \cup {None} /\ pc \in [Conn -> {"new", "supersede", "loop", "frame", "notify",
                                                  "close", "last", "done"}]
  BY <1>0 DEF TypeOK
<1>9. /\ byAcc \in [Acc -> Conn \cup {None}] /\ gone \subseteq Conn /\ at \in [Conn -> Map \cup {None}]
      /\ pos \in [Conn -> 0..MaxMoves] /\ todo \in [Conn -> Seq(Map)]
  BY <1>0 DEF TypeOK
<1> USE DEF Point, Left, OnMap, Joined, conns, history, Go
<1>10. CASE Register(c)
  <2>1. todo' = todo /\ at' = at /\ pos' = pos /\ gone' = gone BY <1>10 DEF Register
  <2>2. byAcc' = [byAcc EXCEPT ![AccOf[c]] = c] /\ pc' = [pc EXCEPT ![c] = "supersede"] /\ pc[c] = "new"
    BY <1>10 DEF Register
  <2> HIDE DEF Has
  <2>3. CASE x = c BY <1>2, <1>3, <1>5, <1>6, <1>9, <2>1, <2>2, <2>3
  <2>4. CASE x # c BY <1>2, <1>5, <1>6, <1>9, <2>1, <2>2, <2>4
  <2> QED BY <2>3, <2>4
<1>11. CASE CloseOld(c)
  <2>1. todo' = todo /\ at' = at /\ pos' = pos /\ byAcc' = byAcc BY <1>11 DEF CloseOld
  <2>2. gone' = gone \cup ({old[c]} \ {None}) /\ pc' = [pc EXCEPT ![c] = "loop"] /\ pc[c] = "supersede"
    BY <1>11 DEF CloseOld
  <2>3. pc[x] \in Joined \cup {"close"} => pc'[x] \in Joined \cup {"close"} BY <1>8, <2>2
  <2> QED BY <1>2, <1>5, <1>6, <2>1, <2>2, <2>3
<1>12. CASE ReadFrame(c)
  <2>1. todo' = todo /\ at' = at /\ pos' = pos /\ byAcc' = byAcc /\ gone' = gone
    BY <1>12 DEF ReadFrame
  <2>2. pc' = [pc EXCEPT ![c] = "frame"] /\ pc[c] = "loop" BY <1>12 DEF ReadFrame
  <2>3. pc[x] \in Joined \cup {"close"} => pc'[x] \in Joined \cup {"close"} BY <1>8, <2>2
  <2> QED BY <1>6, <2>1, <2>3
<1>13. CASE Presence(c, n)
  <2>1. byAcc' = byAcc /\ gone' = gone /\ pc[c] = "frame" /\ pc' = [pc EXCEPT ![c] = "notify"]
    BY <1>13 DEF Presence
  <2>2. at' = [at EXCEPT ![c] = n] /\ pos' = [pos EXCEPT ![c] = moves] BY <1>13 DEF Presence
  <2>3. todo' = [todo EXCEPT ![c] = Told(c, n)] BY <1>13 DEF Presence
  <2>4. CASE x # c
    <3>1. todo'[x] = todo[x] /\ at'[x] = at[x] /\ pos'[x] = pos[x] /\ pc'[x] = pc[x]
      BY <1>8, <1>9, <2>1, <2>2, <2>3, <2>4
    <3>2. Has(x, m)' <=> Has(x, m) BY <3>1 DEF Has
    <3> QED BY <2>1, <3>1, <3>2
  <2>5. CASE x = c
    <3>1. todo'[c] = Told(c, n) /\ at'[c] = n BY <1>9, <2>2, <2>3
    <3>2. m \in {n, at[c]} => Has(x, m)' BY <1>0, <2>5, <3>1, ToldMaps DEF Has
    <3>3. ~Has(x, m) BY <1>4, <1>7, <2>1, <2>5
    <3> QED BY <2>5, <3>1, <3>2, <3>3
  <2> QED BY <2>4, <2>5
<1>14. CASE Leave(c)
  <2>1. todo' = todo /\ at' = at /\ pos' = pos /\ gone' = gone BY <1>14 DEF Leave
  <2>2. /\ byAcc' = [byAcc EXCEPT ![AccOf[c]] = IF byAcc[AccOf[c]] = c THEN None ELSE byAcc[AccOf[c]]]
        /\ pc' = [pc EXCEPT ![c] = "close"] /\ pc[c] = "loop"
    BY <1>14 DEF Leave
  <2>3. pc[x] \in Joined \cup {"close"} => pc'[x] \in Joined \cup {"close"} BY <1>8, <2>2
  <2>4. byAcc'[AccOf[x]] = x => byAcc[AccOf[x]] = x BY <1>5, <1>9, <2>2
  <2>5. byAcc[AccOf[x]] = x => byAcc'[AccOf[x]] = x \/ x = c BY <1>5, <1>9, <2>2
  <2>6. byAcc[AccOf[x]] = x => pc[x] \in Joined BY <1>2, <1>5
  <2>7. x = c => pc'[x] = "close" BY <1>8, <2>2
  <2>8. x = c /\ byAcc'[AccOf[x]] = x => FALSE BY <1>5, <1>9, <2>2
  <2> QED BY <1>6, <2>1, <2>3, <2>4, <2>5, <2>6, <2>7, <2>8
<1>15. CASE CloseOwn(c)
  <2>1. byAcc' = byAcc /\ at' = at /\ pos' = pos BY <1>15 DEF CloseOwn
  <2>2. /\ gone' = gone \cup {c} /\ pc[c] = "close" /\ pc' = [pc EXCEPT ![c] = "last"]
        /\ todo' = [todo EXCEPT ![c] = Farewell(c)]
    BY <1>15 DEF CloseOwn
  <2>3. CASE x # c
    <3>1. todo'[x] = todo[x] /\ pc'[x] = pc[x] /\ (x \in gone' <=> x \in gone)
      BY <1>8, <1>9, <2>2, <2>3
    <3>2. Has(x, m)' <=> Has(x, m) BY <3>1 DEF Has
    <3> QED BY <2>1, <3>1, <3>2
  <2>4. CASE x = c
    <3>1. todo'[c] = Farewell(c) BY <1>9, <2>2
    <3>2. at[c] = m => Has(c, m)'
      <4>1. ASSUME at[c] = m PROVE todo'[c] = <<m>> BY <1>5, <3>1, <4>1 DEF Farewell
      <4> QED BY <4>1 DEF Has
    <3>3. ~Has(x, m) BY <1>4, <1>7, <2>2, <2>4
    <3> QED BY <2>1, <2>4, <3>2, <3>3
  <2> QED BY <2>3, <2>4
<1>16. CASE Return(c)
  <2>1. todo' = todo /\ at' = at /\ pos' = pos /\ byAcc' = byAcc /\ gone' = gone BY <1>16 DEF Return
  <2>2. pc[c] \in {"notify", "last"} /\ pc' = [pc EXCEPT ![c] = IF pc[c] = "last" THEN "done" ELSE "loop"]
    BY <1>16 DEF Return, Working
  <2>3. pc[x] \in Joined \cup {"close"} => pc'[x] \in Joined \cup {"close"} BY <1>8, <2>2
  <2> QED BY <1>6, <2>1, <2>3
<1>17. CASE Close(c)
  <2>1. todo' = todo /\ at' = at /\ pos' = pos /\ byAcc' = byAcc /\ pc' = pc BY <1>17 DEF Close
  <2>2. gone' = gone \cup {c} /\ byAcc[AccOf[c]] = c BY <1>17 DEF Close
  <2> QED BY <1>2, <1>5, <1>6, <2>1, <2>2
<1> QED BY <1>10, <1>11, <1>12, <1>13, <1>14, <1>15, <1>16, <1>17

\* What a write leaves to be written.
LEMMA WriteNews ==
  ASSUME TypeOK, Threads, InOrder, NEW c \in Conn, NEW d \in Conn, Write(c, d)
  PROVE  /\ \A x, t \in Conn :
              t \in News(x)' <=> t \in News(x) /\ (x = d => t # c /\ <<t, c>> \notin before)
         /\ \A x \in Conn : \A s, t \in News(x)' : <<s, t>> \in before => <<s, t>> \in before'
         /\ \A x \in Conn : \A t \in News(x)' : list'[t].body = list[t].body
<1>1. Writes(c, d) BY WriteWrites
<1> DEFINE told == passed \cup {<<t, d>> : t \in Older(c)}
<1>2. \A t, x : <<t, x>> \in told <=> <<t, x>> \in passed \/ (x = d /\ t \in Conn /\ <<t, c>> \in before)
  <2>1. \A t, x : <<t, x>> \in told <=> <<t, x>> \in passed \/ (t \in Older(c) /\ x = d)
    <3>1. told = Adds(passed, Older(c), d) BY DEF Adds
    <3> HIDE DEF told, Older
    <3> QED BY ONLY <3>1, Pairs
  <2> QED BY <2>1 DEF Older
<1>3. NoList.to = {} BY DEF NoList
<1>4. CASE list[c].to = {d}
  <2>1. /\ before' = {p \in before : c \notin {p[1], p[2]}}
        /\ passed' = {p \in told : p[1] # c}
    BY <1>4 DEF Write
  <2>2. \A s, t : <<s, t>> \in before' <=> <<s, t>> \in before /\ s # c /\ t # c BY <2>1
  <2>3. \A t, x : <<t, x>> \in passed' <=> <<t, x>> \in told /\ t # c BY <2>1
  <2>4. list'[c].to = {} /\ \A t \in Conn : t # c => list'[t] = list[t]
    BY <1>1, <1>3, <1>4 DEF Writes
  <2> HIDE DEF told
  <2>5. ASSUME NEW x \in Conn, NEW t \in Conn
        PROVE  t \in News(x)' <=> t \in News(x) /\ (x = d => t # c /\ <<t, c>> \notin before)
    <3>1. CASE t = c BY <1>4, <2>4, <3>1 DEF News
    <3>2. CASE t # c BY <1>2, <2>3, <2>4, <3>2 DEF News
    <3> QED BY <3>1, <3>2
  <2>6. \A x \in Conn : c \notin News(x)' /\ News(x)' \subseteq Conn BY <2>4 DEF News
  <2> QED BY <2>2, <2>4, <2>5, <2>6
<1>5. CASE list[c].to # {d}
  <2>1. before' = before /\ passed' = told BY <1>5 DEF Write
  <2>2. list'[c].to = list[c].to \ {d} /\ list'[c].body = list[c].body BY <1>1, <1>5 DEF Writes
  <2>3. \A t \in Conn : t # c => list'[t] = list[t] BY <1>1 DEF Writes
  <2> HIDE DEF told
  <2>4. ASSUME NEW x \in Conn, NEW t \in Conn
        PROVE  t \in News(x)' <=> t \in News(x) /\ (x = d => t # c /\ <<t, c>> \notin before)
    <3>1. CASE t = c
      <4>1. <<c, c>> \notin before
        <5>1. \A s, u \in Conn : <<s, u>> \in before => <<u, s>> \notin before BY DEF InOrder
        <5> QED BY <5>1
      <4> QED BY <1>2, <2>1, <2>2, <3>1, <4>1 DEF News
    <3>2. CASE t # c BY <1>2, <2>1, <2>3, <3>2 DEF News
    <3> QED BY <3>1, <3>2
  <2>5. \A t \in Conn : list'[t].body = list[t].body BY <2>2, <2>3
  <2>6. \A x \in Conn : News(x)' \subseteq Conn BY DEF News
  <2> QED BY <2>1, <2>4, <2>5, <2>6
<1> QED BY <1>4, <1>5

\* A write of the newest list brings its receiver up to date; any other leaves
\* the newest to be written.
LEMMA WriteCurrent ==
  ASSUME MapAssumption, MapInv, NEW c \in Conn, NEW d \in Conn, Write(c, d)
  PROVE  Current'
<1>0. TypeOK /\ Threads /\ InOrder /\ Current BY DEF MapInv
<1>1. UNCHANGED <<byAcc, gone, at, pos, pc, todo>> BY DEF Write, conns
<1>2. /\ \A x, t \in Conn :
           t \in News(x)' <=> t \in News(x) /\ (x = d => t # c /\ <<t, c>> \notin before)
      /\ \A x \in Conn : \A s, t \in News(x)' : <<s, t>> \in before => <<s, t>> \in before'
      /\ \A x \in Conn : \A t \in News(x)' : list'[t].body = list[t].body
  BY <1>0, WriteNews
<1> SUFFICES ASSUME NEW m \in Map, ~Due(m)', NEW x \in OnMap(m)' PROVE UpToDate(x, m)'
  BY DEF Current
<1>3. PlayersOn(m)' = PlayersOn(m) /\ OnMap(m)' = OnMap(m) BY <1>1 DEF PlayersOn, OnMap
<1>4. ~Due(m) BY <1>1, <1>3 DEF Due, Has, Left
<1>5. UpToDate(x, m) BY <1>0, <1>3, <1>4 DEF Current
<1>6. x \in Conn /\ x \notin gone BY <1>3 DEF OnMap
<1>7. News(x) \subseteq Conn /\ News(x)' \subseteq Conn BY DEF News
<1> HIDE DEF PlayersOn
<1>8. CASE x # d
  <2>1. News(x)' = News(x) BY <1>2, <1>6, <1>7, <1>8
  <2>2. view \in [Conn -> Body] /\ behind \subseteq Conn BY <1>0 DEF TypeOK
  <2>3. view'[x] = view[x] /\ (x \in behind' <=> x \in behind)
    <3>1. CASE d \in gone BY <3>1 DEF Write
    <3>2. CASE d \notin gone
      <4>1. /\ view' = [view EXCEPT ![d] = list[c].body] \/ view' = view
            /\ behind' = behind \cup {d} \/ behind' = behind \ {d}
        BY <3>2 DEF Write, Sent, Unsent
      <4> QED BY <1>6, <1>8, <2>2, <4>1
    <3> QED BY <3>1, <3>2
  <2>4. CASE \E t \in News(x) : list[t].body = PlayersOn(m) /\ \A s \in News(x) : s = t \/ <<s, t>> \in before
    BY <1>2, <1>3, <1>6, <2>1, <2>4 DEF UpToDate
  <2>5. CASE News(x) = {} /\ (x \in behind \/ view[x] = PlayersOn(m))
    BY <1>3, <2>1, <2>3, <2>5 DEF UpToDate
  <2> QED BY <1>5, <2>4, <2>5 DEF UpToDate
<1>9. CASE x = d
  <2>1. Sent(c, d) \/ Unsent(d) BY <1>6, <1>9 DEF Write
  <2>2. d \in behind' \/ view'[d] = list[c].body
    <3>1. CASE Sent(c, d) BY <1>0, <3>1 DEF Sent, TypeOK
    <3>2. CASE Unsent(d) BY <3>2 DEF Unsent
    <3> QED BY <2>1, <3>1, <3>2
  <2>3. CASE <<c, d>> \in passed
    <3>1. d \in behind' BY <2>1, <2>3 DEF Sent, Unsent
    <3>2. \A t \in News(d) : t # c /\ <<t, c>> \notin before
      <4>1. \A t \in Conn : <<t, c>> \in before => <<t, d>> \in passed BY <1>0, <2>3 DEF InOrder
      <4> QED BY <1>7, <1>9, <2>3, <4>1 DEF News
    <3>3. News(d)' = News(d) BY <1>2, <1>7, <1>9, <3>2
    <3>4. CASE \E t \in News(d) : list[t].body = PlayersOn(m) /\ \A s \in News(d) : s = t \/ <<s, t>> \in before
      BY <1>2, <1>3, <1>9, <3>3, <3>4 DEF UpToDate
    <3>5. CASE News(d) = {} BY <1>9, <3>1, <3>3, <3>5 DEF UpToDate
    <3> QED BY <1>5, <1>9, <3>4, <3>5 DEF UpToDate
  <2>4. CASE <<c, d>> \notin passed
    <3>1. c \in News(d) BY <2>4 DEF News, Write
    <3>2. PICK t \in News(d) : list[t].body = PlayersOn(m) /\ \A s \in News(d) : s = t \/ <<s, t>> \in before
      BY <1>5, <1>9, <3>1 DEF UpToDate
    <3>3. CASE t = c
      <4>1. News(d)' = {} BY <1>2, <1>7, <1>9, <3>2, <3>3
      <4> QED BY <1>3, <1>9, <2>2, <3>2, <3>3, <4>1 DEF UpToDate
    <3>4. CASE t # c
      <4>1. <<c, t>> \in before BY <3>1, <3>2, <3>4
      <4>2. <<t, c>> \notin before BY <1>0, <1>7, <1>9, <3>2, <4>1 DEF InOrder
      <4>3. t \in News(d)' BY <1>2, <1>7, <1>9, <3>2, <3>4, <4>2
      <4>4. News(d)' \subseteq News(d) BY <1>2, <1>7, <1>9
      <4>5. \A s \in News(d)' : s = t \/ <<s, t>> \in before' BY <1>2, <3>2, <4>3, <4>4
      <4>6. list'[t].body = PlayersOn(m)' BY <1>2, <1>3, <3>2, <4>3
      <4> QED BY <1>9, <4>3, <4>5, <4>6 DEF UpToDate
    <3> QED BY <3>3, <3>4
  <2> QED BY <2>3, <2>4
<1> QED BY <1>8, <1>9

\* A list that has just been taken is the newest and the right one.
LEMMA SnapshotCurrent ==
  ASSUME MapAssumption, MapInv, NEW c \in Conn, Snapshot(c)
  PROVE  Current'
<1>0. TypeOK /\ Threads /\ InOrder /\ Current BY DEF MapInv
<1>1. PICK n \in Map : Takes(c, n) BY <1>0, SnapshotTakes
<1>2. UNCHANGED <<byAcc, gone, at, pos, pc, view, passed, behind>> BY <1>1 DEF Takes, conns
<1> SUFFICES ASSUME NEW m \in Map, ~Due(m)', NEW x \in OnMap(m)' PROVE UpToDate(x, m)'
  BY DEF Current
<1>3. PlayersOn(m)' = PlayersOn(m) /\ OnMap(m)' = OnMap(m) BY <1>2 DEF PlayersOn, OnMap
<1>4. x \in Conn /\ at[x] = m BY <1>3 DEF OnMap
<1>5. News(x) \subseteq Conn /\ News(x)' \subseteq Conn BY DEF News
<1>6. list[c] = NoList /\ list[c].to = {} BY <1>1 DEF Takes, NoList
<1>7. \A t \in Conn : t # c => list'[t] = list[t]
  <2>1. CASE UNCHANGED list BY <2>1
  <2>2. CASE list' = [list EXCEPT ![c] = [body |-> PlayersOn(n), to |-> OnMap(n)]] BY <2>2
  <2> QED BY <1>1, <2>1, <2>2 DEF Takes
<1>8. CASE m = n
  <2>1. list'[c] = [body |-> PlayersOn(m), to |-> OnMap(m)] /\ before' = before \cup {<<t, c>> : t \in Writers}
    BY <1>0, <1>1, <1>3, <1>8 DEF Takes, TypeOK
  <2>2. <<c, x>> \notin passed BY <1>0, <1>4, <1>6 DEF InOrder, Writers
  <2>3. c \in News(x)' BY <1>2, <1>3, <2>1, <2>2 DEF News
  <2>4. ASSUME NEW s \in News(x)', s # c PROVE <<s, c>> \in before'
    <3>1. s \in Conn /\ x \in list[s].to BY <1>5, <1>7, <2>4 DEF News
    <3>2. s \in Writers BY <3>1 DEF Writers, NoList
    <3> HIDE DEF Writers
    <3> QED BY <2>1, <3>2
  <2>5. list'[c].body = PlayersOn(m)' BY <1>3, <2>1
  <2> QED BY <2>3, <2>4, <2>5 DEF UpToDate
<1>9. CASE m # n
  <2>1. ~Due(m)
    <3>1. todo[c] \in Seq(Map) /\ todo[c] # <<>> /\ n = Head(todo[c]) /\ todo'[c] = Tail(todo[c])
      BY <1>0, <1>1 DEF Takes, TypeOK
    <3>2. Has(c, m) => Has(c, m)' BY <1>9, <3>1, TakeMap DEF Has
    <3>3. \A y \in Conn : y # c => todo'[y] = todo[y] BY <1>1 DEF Takes
    <3>4. \A y \in Conn : Has(y, m) => Has(y, m)' BY <3>2, <3>3 DEF Has
    <3>5. \A y \in Conn : Left(y, m) => Left(y, m)' BY <1>2, <1>3 DEF Left
    <3> QED BY <3>4, <3>5 DEF Due
  <2>2. UpToDate(x, m) BY <1>0, <1>3, <2>1 DEF Current
  <2>3. x \notin list'[c].to
    <3>1. CASE list' = list BY <1>6, <3>1
    <3>2. CASE list' = [list EXCEPT ![c] = [body |-> PlayersOn(n), to |-> OnMap(n)]]
      <4>1. list'[c].to = OnMap(n) BY <1>0, <3>2 DEF TypeOK
      <4> QED BY <1>4, <1>9, <4>1 DEF OnMap
    <3> QED BY <1>1, <3>1, <3>2 DEF Takes
  <2>4. News(x)' = News(x)
    <3>1. ASSUME NEW t \in Conn PROVE t \in News(x)' <=> t \in News(x)
      <4>1. CASE t = c BY <1>6, <2>3, <4>1 DEF News
      <4>2. CASE t # c BY <1>2, <1>7, <4>2 DEF News
      <4> QED BY <4>1, <4>2
    <3> QED BY <1>5, <3>1
  <2>5. before \subseteq before' BY <1>1 DEF Takes
  <2>6. c \notin News(x) BY <1>6 DEF News
  <2>7. \A t \in News(x) : list'[t] = list[t] BY <1>5, <1>7, <2>6
  <2>8. CASE \E t \in News(x) : list[t].body = PlayersOn(m) /\ \A s \in News(x) : s = t \/ <<s, t>> \in before
    BY <1>3, <2>4, <2>5, <2>7, <2>8 DEF UpToDate
  <2>9. CASE News(x) = {} /\ (x \in behind \/ view[x] = PlayersOn(m))
    BY <1>2, <1>3, <2>4, <2>9 DEF UpToDate
  <2> QED BY <2>2, <2>8, <2>9 DEF UpToDate
<1> QED BY <1>8, <1>9

\* Every step keeps every list that is not due right.
LEMMA CurrentStep == MapAssumption /\ MapInv /\ [Next]_vars => Current'
<1> SUFFICES ASSUME MapAssumption, MapInv, [Next]_vars PROVE Current'
  OBVIOUS
<1>1. ASSUME NEW c \in Conn, Thread(c) \/ Close(c) PROVE Current'
  <2>1. CASE Snapshot(c) BY <2>1, SnapshotCurrent
  <2>2. ASSUME NEW d \in Conn, Write(c, d) PROVE Current' BY <2>2, WriteCurrent
  <2>3. ASSUME NEW n \in Map \cup {None}, Presence(c, n) PROVE Current' BY <2>3, SameStep
  <2>4. CASE Register(c) \/ CloseOld(c) \/ ReadFrame(c) \/ Leave(c) \/ CloseOwn(c) \/ Return(c) \/ Close(c)
    BY <2>4, SameStep
  <2> QED BY <1>1, <2>1, <2>2, <2>3, <2>4 DEF Thread, Handled, Notify
<1>2. CASE UNCHANGED vars
  <2>1. Current BY DEF MapInv
  <2>2. UNCHANGED <<byAcc, gone, at, pos, pc, todo, list, view, before, passed, behind>>
    BY <1>2 DEF vars, conns, history
  <2>3. Same BY <2>2 DEF Same, Point, Has, Left, OnMap
  <2> QED BY <2>1, <2>2, <2>3, CurrentKept
<1> QED BY <1>1, <1>2 DEF Next

\* It holds initially.
LEMMA MapInit == MapAssumption /\ Init => MapInv
<1> SUFFICES ASSUME MapAssumption, Init PROVE MapInv
  OBVIOUS
<1>1. TypeOK BY DEF MapAssumption, Init, TypeOK, NoList, Nobody, Body, history
<1>2. Threads /\ Superseded BY DEF MapAssumption, Init, Threads, Superseded, Joined
<1>3. \A c \in Conn : list[c] = NoList /\ list[c].to = {} /\ view[c] = Nobody BY DEF Init, NoList
<1>4. InOrder BY <1>3 DEF Init, InOrder, Writers
<1>5. ListsName /\ ListsNameReceiver BY <1>3 DEF ListsName, ListsNameReceiver
<1>6. Current BY DEF MapAssumption, Init, Current, OnMap
<1> QED BY <1>1, <1>2, <1>4, <1>5, <1>6 DEF MapInv

\* Every step keeps it.
LEMMA MapStep == MapAssumption /\ MapInv /\ [Next]_vars => MapInv'
BY TypeStep, ThreadsStep, SupersededStep, InOrderStep, CurrentStep, ListsStep DEF MapInv

\* When nobody has anything left to do, no list is due and none is being written.
LEMMA MapShows == MapAssumption /\ MapInv => MapViews
<1> SUFFICES ASSUME MapAssumption, MapInv PROVE MapViews
  OBVIOUS
<1>0. TypeOK /\ Threads /\ Superseded /\ Current /\ ListsNameReceiver BY DEF MapInv
<1>1. ASSUME Quiet, NEW m \in Map, NEW x \in OnMap(m) \ behind PROVE view[x] = PlayersOn(m)
  <2>1. \A c \in Conn : pc[c] \in {"new", "loop", "done"} /\ (pc[c] = "loop" => c \notin gone)
    BY <1>1 DEF Quiet
  <2>2. \A c \in Conn : todo[c] = <<>> /\ list[c] = NoList BY <1>0, <2>1 DEF Threads
  <2>3. ASSUME NEW c \in Conn PROVE ~Has(c, m) /\ ~Left(c, m)
    <3>1. ~Has(c, m) BY <2>2 DEF Has
    <3>2. ASSUME Left(c, m) PROVE FALSE
      <4>1. pc[c] = "loop" /\ c \notin gone /\ byAcc[AccOf[c]] # c
        BY <2>1, <3>2 DEF Left, Joined, OnMap
      <4> QED BY <1>0, <2>1, <4>1 DEF Superseded, Joined
    <3> QED BY <3>1, <3>2
  <2>4. UpToDate(x, m) BY <1>0, <2>3 DEF Current, Due
  <2>5. News(x) = {} BY <2>2 DEF News, NoList
  <2> QED BY <2>4, <2>5 DEF UpToDate
<1>2. QuietViews BY <1>1 DEF QuietViews
<1> QED BY <1>0, <1>2 DEF MapViews

\* The inductive invariant holds in every state, for all connections, accounts,
\* maps and numbers of moves (handle_client, handle_presence and notify_map).
THEOREM MapInvariant == ASSUME MapAssumption PROVE Spec => []MapInv
<1>1. Init => MapInv BY MapInit
<1>2. MapInv /\ [Next]_vars => MapInv' BY MapStep
<1> QED BY <1>1, <1>2, PTL DEF Spec

\* The lists are right when all is quiet, but for those an older one overtook or
\* the newest was not sent to, and name their receiver (handle_presence and notify_map).
THEOREM MapViewsHold == ASSUME MapAssumption PROVE Spec => []MapViews
<1>1. MapInv => MapViews BY MapShows
<1> QED BY <1>1, MapInvariant, PTL
==============================================================================
