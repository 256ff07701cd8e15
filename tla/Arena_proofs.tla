----------------------------- MODULE Arena_proofs -----------------------------
(***************************************************************************)
(* Theorems about the arena, for any number of players, opponents, days,   *)
(* results, failing statements and restarts: the board, the weekly pool    *)
(* and a player's team.                                                    *)
(***************************************************************************)
EXTENDS Arena, Sequences, FiniteSetTheorems, TLAPS

-----------------------------------------------------------------------------
(* The board.                                                              *)

Looks == {"top", "pool", "find"}      \* the handlers that look at the opponents
Writes == {"end", "set", "upload"}
Building == {"npcs", "delete", "save"}
Complete == \A n \in Npc : npcs[week][n] # None /\ npcs[week][n].ok
Ladders == {Score(i) : i \in Npc}

BoardTypes ==
  /\ day \in Day /\ week \in Week /\ week <= WeekOf(day) /\ ready \in BOOLEAN
  /\ rows \in [Week -> [Player -> Row \cup {None}]]
  /\ npcs \in [Week -> [Npc -> Opponent \cup {None}]]
  /\ client = [p \in Player |-> client[p]]
  /\ \A p \in Player : client[p] # None => client[p].week \in Week
  /\ told \in Player \cup {None} /\ faults \in Nat
  /\ acked \in [Week -> [Player -> Nat]]
  /\ matched \in [Player -> [week : Week, day : Day, n : Nat]]

\* What the request in hand may do next, and what it has seen to.
Request ==
  job # None =>
    /\ job = [kind |-> job.kind, who |-> job.who, pc |-> job.pc, todo |-> job.todo]
    /\ job.kind \in Looks \cup Writes \cup {"boot"}
    /\ job.kind = "boot" => job.pc \in Building \cup {"ready"}
    /\ job.kind \in Looks => job.pc \in Building \cup {"player", "repair", job.kind} /\ job.pc # "pool"
    /\ job.kind \in Writes => job.pc \in {"player", job.kind}
    /\ job.kind # "boot" => job.who \in Player
    /\ job.pc \in {"end", "set", "upload", "top", "find", "repair"} => Me # None
    /\ job.kind \in Looks /\ job.pc \notin Building => Complete

\* Who has the version of this week's list has the list, and nothing is rebuilt.
ListsCurrent ==
  /\ \A p \in Player : client[p] # None =>
       /\ client[p].week <= week
       /\ client[p].week = week =>
            /\ Complete /\ (client[p].list = <<Board, NpcBoard>> \/ week \in doubtful)
            /\ ~At("delete") /\ ~At("save")
  /\ told # None => client[told] # None /\ client[told].week = week

\* The attempts of a row: given on the day that is written in it.
Attempts ==
  /\ \A w \in Week : \A p \in Player : rows[w][p] # None => rows[w][p].day <= day
  /\ \A p \in Player : LET m == matched[p] IN
       m.n > 0 => rows[m.week][p] # None /\ m.day <= rows[m.week][p].day

\* An opponent's place on the ladder, had or about to be had.
Place(n) == IF n \in DOMAIN job.todo THEN job.todo[n] ELSE npcs[week][n].score

\* All opponents or none, but for interrupted rebuilds.
OnLadder(w) ==
  \/ \A n \in Npc : npcs[w][n] = None
  \/ /\ \A n \in Npc : npcs[w][n] # None
     /\ {npcs[w][n].score : n \in Npc} = Ladders

Opponents ==
  \A w \in Week \ broken : ~(At("save") /\ w = week) => OnLadder(w)

\* The opponents to be saved, and those that are.
ToSave ==
  At("save") =>
    /\ DOMAIN job.todo \subseteq Npc /\ job.todo \in [DOMAIN job.todo -> Nat]
    /\ \A n \in Npc : IF n \in DOMAIN job.todo THEN npcs[week][n] = None
                      ELSE npcs[week][n] # None /\ npcs[week][n].ok
    /\ week \notin broken => {Place(n) : n \in Npc} = Ladders

BoardInv ==
  /\ BoardTypes /\ Request /\ ListsCurrent /\ Attempts /\ Opponents /\ ToSave
  /\ MatchesBounded /\ ScoresKept
-----------------------------------------------------------------------------
\* Weeks are numbers and follow the days.
LEMMA Weeks ==
  /\ Week \subseteq Nat /\ 0 \in Day /\ 0 \in Week
  /\ \A d \in Day : WeekOf(d) \in Week
  /\ \A d \in Day : d < LastDay => d + 1 \in Day /\ WeekOf(d) <= WeekOf(d + 1)
<1>1. \A k \in Nat \ {0} : \A d \in Nat : d \div k \in Nat /\ d \div k <= (d + 1) \div k
  OBVIOUS
<1>2. \A d \in Day : WeekOf(d) \in Nat BY <1>1, BoardConstants DEF BoardAssumption, Day, WeekOf
<1>3. \A d \in Day : WeekOf(d) \in Week BY DEF Week
<1>4. 0 \in Day /\ WeekOf(0) = 0 BY BoardConstants DEF BoardAssumption, Day, WeekOf
<1>5. \A d \in Day : d < LastDay => d + 1 \in Day BY BoardConstants DEF BoardAssumption, Day
<1>6. \A d \in Day : WeekOf(d) <= WeekOf(d + 1)
  BY <1>1, BoardConstants DEF BoardAssumption, Day, WeekOf
<1> QED BY <1>2, <1>3, <1>4, <1>5, <1>6 DEF Week

\* What a statement does besides.
LEMMA StepEffects ==
  ASSUME BoardTypes, NEW next, Step(next)
  PROVE  /\ told' = None /\ doubtful \subseteq doubtful' /\ faults' \in Nat
         /\ \/ job' = next /\ faults' = faults /\ doubtful' = doubtful
            \/ job' = None /\ faults' # faults /\ doubtful' = doubtful \cup {week}
BY DEF Step, BoardTypes

\* A row is written.
LEMMA RowWritten ==
  ASSUME BoardTypes, NEW p \in Player, NEW r \in Row, rows' = [rows EXCEPT ![week][p] = r]
  PROVE  /\ rows' \in [Week -> [Player -> Row \cup {None}]]
         /\ rows'[week][p] = r
         /\ \A w \in Week : \A q \in Player : (w # week \/ q # p) => rows'[w][q] = rows[w][q]
BY DEF BoardTypes

\* The points of a result that was answered are written down (acked).
LEMMA PointsWritten ==
  BoardTypes => \A p \in Player, g \in Gain : acked' = [acked EXCEPT ![week][p] = @ + g] =>
    /\ acked' \in [Week -> [Player -> Nat]]
    /\ acked'[week][p] = acked[week][p] + g
    /\ \A w \in Week : \A q \in Player : (w # week \/ q # p) => acked'[w][q] = acked[w][q]
<1> SUFFICES ASSUME BoardTypes, NEW p \in Player, NEW g \in Gain,
                    acked' = [acked EXCEPT ![week][p] = @ + g]
    PROVE  /\ acked' \in [Week -> [Player -> Nat]]
           /\ acked'[week][p] = acked[week][p] + g
           /\ \A w \in Week : \A q \in Player : (w # week \/ q # p) => acked'[w][q] = acked[w][q]
  OBVIOUS
<1> DEFINE a == acked[week][p] + g
<1>1. week \in Week /\ acked \in [Week -> [Player -> Nat]] BY DEF BoardTypes
<1>2. g \in Nat BY BoardConstants DEF BoardAssumption
<1>3. a \in Nat BY <1>1, <1>2
<1>4. acked' = [acked EXCEPT ![week][p] = a] OBVIOUS
<1> HIDE DEF a
<1>5. /\ acked' \in [Week -> [Player -> Nat]]
      /\ acked'[week][p] = a
      /\ \A w \in Week : \A q \in Player : (w # week \/ q # p) => acked'[w][q] = acked[w][q]
  BY ONLY <1>1, <1>3, <1>4
<1> QED BY <1>5 DEF a

\* A computer opponent's row is written.
LEMMA OpponentWritten ==
  ASSUME BoardTypes, NEW n \in Npc, NEW o \in Opponent, npcs' = [npcs EXCEPT ![week][n] = o]
  PROVE  /\ npcs' \in [Week -> [Npc -> Opponent \cup {None}]]
         /\ npcs'[week][n] = o
         /\ \A w \in Week : \A m \in Npc : (w # week \/ m # n) => npcs'[w][m] = npcs[w][m]
BY DEF BoardTypes

\* Those who have this week's list lose its version.
LEMMA Bumped ==
  ASSUME BoardTypes, Bump
  PROVE  /\ client' = [p \in Player |-> client'[p]]
         /\ \A p \in Player : client'[p] # None =>
              client'[p] = client[p] /\ client[p] # None /\ client[p].week # week
BY DEF Bump, BoardTypes

\* The row of whom a request is about.
LEMMA Mine ==
  BoardTypes /\ Request /\ job # None =>
    /\ job.kind # "boot" => job.who \in Player /\ Me \in Row \cup {None}
    /\ job.pc \in {"end", "set", "upload", "top", "find", "repair"} =>
         job.kind # "boot" /\ job.who \in Player /\ Me \in Row
    /\ job.pc = "player" => job.kind # "boot"
BY DEF BoardTypes, Request, Me, Building, Looks, Writes

\* The rows that EnsurePlayer, Match, Result and SetTeam write.
NewRow == [score |-> 0, times |-> DefaultTimes, day |-> day, fights |-> FALSE]
Again(r) == [[r EXCEPT !.times = DefaultTimes] EXCEPT !.day = day]
Used(r) == [r EXCEPT !.times = @ - 1]
Richer(r, g) == [r EXCEPT !.score = @ + g]
Armed(r) == [r EXCEPT !.fights = TRUE]
Writing(r) == r \in Row /\ job.who \in Player /\ rows' = [rows EXCEPT ![week][job.who] = r]

\* The four ways in which a row is written make a row of it, and change what they name.
LEMMA WrittenFields ==
  BoardTypes =>
    /\ NewRow \in Row /\ NewRow.day = day /\ NewRow.score = 0
    /\ \A r \in Row :
         /\ Again(r) \in Row /\ Again(r).score = r.score /\ Again(r).times = DefaultTimes
         /\ Again(r).day = day
         /\ r.times > 0 => Used(r) \in Row /\ Used(r).times = r.times - 1
         /\ Used(r).score = r.score /\ Used(r).day = r.day
         /\ Armed(r) \in Row /\ Armed(r).score = r.score /\ Armed(r).times = r.times
         /\ Armed(r).day = r.day
         /\ \A g \in Nat : /\ Richer(r, g) \in Row /\ Richer(r, g).score = r.score + g
                           /\ Richer(r, g).times = r.times /\ Richer(r, g).day = r.day
<1> SUFFICES ASSUME BoardTypes PROVE
    /\ NewRow \in Row /\ NewRow.day = day /\ NewRow.score = 0
    /\ \A r \in Row :
         /\ Again(r) \in Row /\ Again(r).score = r.score /\ Again(r).times = DefaultTimes
         /\ Again(r).day = day
         /\ r.times > 0 => Used(r) \in Row /\ Used(r).times = r.times - 1
         /\ Used(r).score = r.score /\ Used(r).day = r.day
         /\ Armed(r) \in Row /\ Armed(r).score = r.score /\ Armed(r).times = r.times
         /\ Armed(r).day = r.day
         /\ \A g \in Nat : /\ Richer(r, g) \in Row /\ Richer(r, g).score = r.score + g
                           /\ Richer(r, g).times = r.times /\ Richer(r, g).day = r.day
  OBVIOUS
<1>1. NewRow \in Row /\ NewRow.day = day /\ NewRow.score = 0
  BY BoardConstants DEF BoardAssumption, NewRow, Row, BoardTypes
<1>2. ASSUME NEW r \in Row
      PROVE  /\ Again(r) \in Row /\ Again(r).score = r.score /\ Again(r).times = DefaultTimes
             /\ Again(r).day = day
  <2>1. [r EXCEPT !.times = DefaultTimes] \in Row
    BY BoardConstants DEF BoardAssumption, Row
  <2>2. Again(r) \in Row BY <2>1 DEF BoardTypes, Again, Row
  <2> QED BY <2>2 DEF Again, Row
<1>3. ASSUME NEW r \in Row
      PROVE  /\ r.times > 0 => Used(r) \in Row /\ Used(r).times = r.times - 1
             /\ Used(r).score = r.score /\ Used(r).day = r.day
  <2>1. r.times > 0 => r.times - 1 \in 0..DefaultTimes BY BoardConstants DEF BoardAssumption, Row
  <2>2. r.times > 0 => Used(r) \in Row BY <2>1 DEF Used, Row
  <2> QED BY <2>2 DEF Used, Row
<1>4. ASSUME NEW r \in Row
      PROVE  /\ Armed(r) \in Row /\ Armed(r).score = r.score /\ Armed(r).times = r.times
             /\ Armed(r).day = r.day
  BY DEF Armed, Row
<1>5. ASSUME NEW r \in Row, NEW g \in Nat
      PROVE  /\ Richer(r, g) \in Row /\ Richer(r, g).score = r.score + g
             /\ Richer(r, g).times = r.times /\ Richer(r, g).day = r.day
  BY DEF Richer, Row
<1> QED BY <1>1, <1>2, <1>3, <1>4, <1>5

\* ensure_player writes a new row or one whose day has passed, or nothing.
LEMMA EnsureWrites ==
  BoardTypes /\ Request /\ EnsurePlayer =>
    \/ Me = None /\ Writing(NewRow)
    \/ Me \in Row /\ Me.day # day /\ Writing(Again(Me))
    \/ Me \in Row /\ Me.day = day /\ UNCHANGED rows
<1> SUFFICES ASSUME BoardTypes, Request, EnsurePlayer
    PROVE  \/ Me = None /\ Writing(NewRow)
           \/ Me \in Row /\ Me.day # day /\ Writing(Again(Me))
           \/ Me \in Row /\ Me.day = day /\ UNCHANGED rows
  OBVIOUS
<1>1. job.who \in Player /\ Me \in Row \cup {None} BY Mine DEF EnsurePlayer, At
<1>2. CASE Me = None
  <2> QED BY <1>1, <1>2, WrittenFields DEF EnsurePlayer, Writing, NewRow
<1>3. CASE Me \in Row /\ Me # None
  <2>1. [Me EXCEPT !.times = DefaultTimes, !.day = day] = Again(Me) BY <1>3 DEF Row, Again
  <2>2. Again(Me) \in Row BY <1>3, WrittenFields
  <2>3. CASE Me.day = day BY <1>3, <2>3 DEF EnsurePlayer
  <2>4. CASE Me.day # day
    <3>1. rows' = [rows EXCEPT ![week][job.who] = [Me EXCEPT !.times = DefaultTimes, !.day = day]]
      BY <1>3, <2>4 DEF EnsurePlayer, Me
    <3> QED BY <1>1, <1>3, <2>1, <2>2, <2>4, <3>1 DEF Writing
  <2> QED BY <2>3, <2>4
<1> QED BY <1>1, <1>2, <1>3

\* handle_find takes one attempt of a row that has one.
LEMMA MatchWrites == BoardTypes /\ Request /\ Match => Me \in Row /\ Me.times > 0 /\ Writing(Used(Me))
<1> SUFFICES ASSUME BoardTypes, Request, Match PROVE Me \in Row /\ Me.times > 0 /\ Writing(Used(Me))
  OBVIOUS
<1>1. job.who \in Player /\ Me \in Row /\ Me.times > 0 BY Mine DEF Match, At
<1>2. rows' = [rows EXCEPT ![week][job.who] = Used(Me)] BY DEF Match, Me, Used
<1> QED BY <1>1, <1>2, WrittenFields DEF Writing

\* handle_end adds the result's points to a row.
LEMMA ResultWrites ==
  BoardTypes /\ Request => \A g \in Gain : Result(g) => Me \in Row /\ g \in Nat /\ Writing(Richer(Me, g))
<1> SUFFICES ASSUME BoardTypes, Request, NEW g \in Gain, Result(g)
    PROVE  Me \in Row /\ g \in Nat /\ Writing(Richer(Me, g))
  OBVIOUS
<1>1. job.who \in Player /\ Me \in Row BY Mine DEF Result, At
<1>2. g \in Nat BY BoardConstants DEF BoardAssumption
<1>3. rows' = [rows EXCEPT ![week][job.who] = Richer(Me, g)] BY DEF Result, Me, Richer
<1> QED BY <1>1, <1>2, <1>3, WrittenFields DEF Writing

\* handle_set gives a row its fight data.
LEMMA SetWrites == BoardTypes /\ Request /\ SetTeam => Me \in Row /\ Writing(Armed(Me))
<1> SUFFICES ASSUME BoardTypes, Request, SetTeam PROVE Me \in Row /\ Writing(Armed(Me))
  OBVIOUS
<1>1. job.who \in Player /\ Me \in Row BY Mine DEF SetTeam, At
<1>2. rows' = [rows EXCEPT ![week][job.who] = Armed(Me)] BY DEF SetTeam, Me, Armed
<1> QED BY <1>1, <1>2, WrittenFields DEF Writing

\* What a written row leaves alone.
LEMMA OthersKept ==
  BoardTypes => \A r : Writing(r) =>
    /\ rows' \in [Week -> [Player -> Row \cup {None}]]
    /\ rows'[week][job.who] = r /\ r # None
    /\ \A w \in Week : \A q \in Player : (w # week \/ q # job.who) => rows'[w][q] = rows[w][q]
<1> SUFFICES ASSUME BoardTypes, NEW r, Writing(r)
    PROVE  /\ rows' \in [Week -> [Player -> Row \cup {None}]]
           /\ rows'[week][job.who] = r /\ r # None
           /\ \A w \in Week : \A q \in Player :
                (w # week \/ q # job.who) => rows'[w][q] = rows[w][q]
  OBVIOUS
<1>1. r # None BY BoardConstants DEF Writing, BoardAssumption
<1> QED BY <1>1, RowWritten DEF Writing

\* Only these write rows.
LEMMA RowsChange ==
  BoardTypes /\ Request /\ [Next]_vars =>
    UNCHANGED rows \/ EnsurePlayer \/ Match \/ SetTeam \/ \E g \in Gain : Result(g)
BY DEF Next, vars, Begin, CheckNpcs, DeleteNpcs, NpcsSaved, SaveNpc, Repair, Top, NoMatch, Upload,
       BecomesReady, DbError, Restart, NextDay

\* After every step the rows are rows.
LEMMA RowsTyped == BoardTypes /\ Request /\ [Next]_vars => rows' \in [Week -> [Player -> Row \cup {None}]]
<1> SUFFICES ASSUME BoardTypes, Request, [Next]_vars
    PROVE  rows' \in [Week -> [Player -> Row \cup {None}]]
  OBVIOUS
<1>1. CASE UNCHANGED rows BY <1>1 DEF BoardTypes
<1>2. CASE EnsurePlayer BY <1>1, <1>2, EnsureWrites, OthersKept
<1>3. CASE Match BY <1>3, MatchWrites, OthersKept
<1>4. CASE SetTeam BY <1>4, SetWrites, OthersKept
<1>5. ASSUME NEW g \in Gain, Result(g) PROVE rows' \in [Week -> [Player -> Row \cup {None}]]
  BY <1>5, ResultWrites, OthersKept
<1> QED BY <1>1, <1>2, <1>3, <1>4, <1>5, RowsChange

\* The opponents after each step that writes them.
LEMMA OpponentsChange ==
  BoardTypes /\ [Next]_vars =>
    UNCHANGED npcs \/ DeleteNpcs \/ Restart \/ \E n \in Npc : SaveNpc(n)
BY DEF Next, vars, Begin, CheckNpcs, NpcsSaved, EnsurePlayer, Repair, Top, Match, NoMatch, SetTeam,
       Result, Upload, BecomesReady, DbError, NextDay

\* A rebuild deletes this week's opponents and no other's.
LEMMA DeleteWrites == BoardTypes /\ DeleteNpcs =>
  /\ npcs' \in [Week -> [Npc -> Opponent \cup {None}]]
  /\ \A n \in Npc : npcs'[week][n] = None
  /\ \A w \in Week : w # week => npcs'[w] = npcs[w]
BY DEF BoardTypes, DeleteNpcs

\* A restart keeps every opponent and his score; only his team may be outdated.
LEMMA RestartWrites == BoardTypes /\ Restart =>
  /\ npcs' \in [Week -> [Npc -> Opponent \cup {None}]]
  /\ \A w \in Week : \A n \in Npc :
       /\ npcs'[w][n] = None <=> npcs[w][n] = None
       /\ npcs[w][n] # None => npcs'[w][n].score = npcs[w][n].score
<1> SUFFICES ASSUME BoardTypes, Restart, NEW same \in BOOLEAN,
                    npcs' = [w \in Week |-> [n \in Npc |->
                      IF npcs[w][n] = None THEN None ELSE [npcs[w][n] EXCEPT !.ok = @ /\ same]]]
    PROVE  /\ npcs' \in [Week -> [Npc -> Opponent \cup {None}]]
           /\ \A w \in Week : \A n \in Npc :
                /\ npcs'[w][n] = None <=> npcs[w][n] = None
                /\ npcs[w][n] # None => npcs'[w][n].score = npcs[w][n].score
  BY DEF Restart
<1>1. ASSUME NEW o \in Opponent
      PROVE  [o EXCEPT !.ok = @ /\ same] \in Opponent /\ [o EXCEPT !.ok = @ /\ same].score = o.score
  BY DEF Opponent
<1>2. ASSUME NEW w \in Week, NEW n \in Npc
      PROVE  /\ npcs'[w][n] \in Opponent \cup {None}
             /\ npcs'[w][n] = None <=> npcs[w][n] = None
             /\ npcs[w][n] # None => npcs'[w][n].score = npcs[w][n].score
  <2>1. CASE npcs[w][n] = None BY <2>1
  <2>2. CASE npcs[w][n] # None
    <3>1. npcs[w][n] \in Opponent BY <2>2 DEF BoardTypes
    <3>2. npcs'[w][n] = [npcs[w][n] EXCEPT !.ok = @ /\ same] BY <2>2
    <3> QED BY <1>1, <2>2, <3>1, <3>2, BoardConstants DEF BoardAssumption
  <2> QED BY <2>1, <2>2
<1> QED BY <1>2

\* An opponent is saved with the score he was given, and a team of the present pool.
LEMMA SaveWrites == BoardTypes /\ ToSave => \A n \in Npc : SaveNpc(n) =>
  /\ npcs' \in [Week -> [Npc -> Opponent \cup {None}]]
  /\ npcs'[week][n] # None /\ npcs'[week][n].ok /\ npcs'[week][n].score = job.todo[n]
  /\ \A w \in Week : \A m \in Npc : (w # week \/ m # n) => npcs'[w][m] = npcs[w][m]
<1> SUFFICES ASSUME BoardTypes, ToSave, NEW n \in Npc, SaveNpc(n) PROVE
    /\ npcs' \in [Week -> [Npc -> Opponent \cup {None}]]
    /\ npcs'[week][n] # None /\ npcs'[week][n].ok /\ npcs'[week][n].score = job.todo[n]
    /\ \A w \in Week : \A m \in Npc : (w # week \/ m # n) => npcs'[w][m] = npcs[w][m]
  OBVIOUS
<1> DEFINE o == [score |-> job.todo[n], ok |-> TRUE]
<1>1. job.todo[n] \in Nat BY DEF SaveNpc, ToSave
<1>2. o \in Opponent /\ o.ok /\ o.score = job.todo[n] BY <1>1 DEF Opponent
<1>3. npcs' = [npcs EXCEPT ![week][n] = o] BY DEF SaveNpc
<1> HIDE DEF o
<1>4. o # None BY <1>2, BoardConstants DEF BoardAssumption
<1> QED BY <1>2, <1>3, <1>4, OpponentWritten

\* The clients and their versions after each step that changes them.
LEMMA ClientsChange ==
  [Next]_vars =>
    \/ UNCHANGED client
    \/ Bump /\ UNCHANGED week
    \/ Top /\ client' = [client EXCEPT ![job.who] = [week |-> week, list |-> <<Board, NpcBoard>>]]
    \/ Restart
BY DEF Next, vars, Begin, CheckNpcs, DeleteNpcs, SaveNpc, NpcsSaved, EnsurePlayer, Repair, Top, Match,
       NoMatch, SetTeam, Result, Upload, BecomesReady, DbError, NextDay, mem

\* Every step keeps every variable in its type.
LEMMA BoardTypesStep == BoardInv /\ [Next]_vars => BoardTypes'
<1> SUFFICES ASSUME BoardInv, [Next]_vars PROVE BoardTypes'
  OBVIOUS
<1> USE DEF BoardInv
<1>1. rows' \in [Week -> [Player -> Row \cup {None}]] BY RowsTyped
<1>2. npcs' \in [Week -> [Npc -> Opponent \cup {None}]]
  <2>1. CASE UNCHANGED npcs BY <2>1 DEF BoardTypes
  <2> QED BY <2>1, OpponentsChange, DeleteWrites, RestartWrites, SaveWrites
<1>3. /\ client' = [p \in Player |-> client'[p]]
      /\ \A p \in Player : client'[p] # None => client'[p].week \in Week
  <2>1. CASE UNCHANGED client BY <2>1 DEF BoardTypes
  <2>2. CASE Bump BY <2>2, Bumped DEF BoardTypes
  <2>3. CASE client' = [client EXCEPT ![job.who] = [week |-> week, list |-> <<Board, NpcBoard>>]]
    BY <2>3 DEF BoardTypes
  <2>4. CASE Restart BY <2>4 DEF Restart
  <2> QED BY <2>1, <2>2, <2>3, <2>4, ClientsChange
<1>4. /\ day' \in Day /\ week' \in Week /\ week' <= WeekOf(day)' /\ ready' \in BOOLEAN
  <2>1. CASE NextDay BY <2>1, Weeks DEF NextDay, BoardTypes, mem, Day
  <2>2. ready' \in BOOLEAN
    BY DEF BoardTypes, Next, vars, Begin, CheckNpcs, DeleteNpcs, SaveNpc, NpcsSaved, EnsurePlayer,
           Repair, Top, Match, NoMatch, SetTeam, Result, Upload, BecomesReady, DbError, Restart,
           NextDay, mem
  <2>3. CASE UNCHANGED day /\ week' \in {week, WeekOf(day)}
    <3>1. WeekOf(day) \in Nat /\ week \in Nat BY Weeks DEF BoardTypes
    <3>2. WeekOf(day)' = WeekOf(day) BY <2>3
    <3>3. week' <= WeekOf(day)' BY <2>3, <3>1, <3>2 DEF BoardTypes
    <3> QED BY <2>2, <2>3, <3>3, Weeks DEF BoardTypes
  <2>4. NextDay \/ (UNCHANGED day /\ week' \in {week, WeekOf(day)})
    BY DEF Next, vars, Begin, CheckNpcs, DeleteNpcs, SaveNpc, NpcsSaved, EnsurePlayer, Repair, Top,
           Match, NoMatch, SetTeam, Result, Upload, BecomesReady, DbError, Restart, mem
  <2> QED BY <2>1, <2>3, <2>4
<1>5. told' \in Player \cup {None} /\ faults' \in Nat
  <2>1. CASE Top BY <2>1, Mine DEF Top, BoardTypes, history, bounds, At
  <2>2. CASE UNCHANGED <<told, faults>> BY <2>2 DEF BoardTypes
  <2>3. CASE told' = None /\ faults' \in {faults, faults + 1} BY <2>3 DEF BoardTypes
  <2>4. Top \/ UNCHANGED <<told, faults>> \/ (told' = None /\ faults' \in {faults, faults + 1})
    BY DEF Next, vars, Begin, CheckNpcs, DeleteNpcs, SaveNpc, NpcsSaved, EnsurePlayer, Repair, Step,
           Match, NoMatch, SetTeam, Result, Upload, BecomesReady, DbError, Restart, NextDay
  <2> QED BY <2>1, <2>2, <2>3, <2>4
<1>6. acked' \in [Week -> [Player -> Nat]]
  <2>1. CASE UNCHANGED acked BY <2>1 DEF BoardTypes
  <2>2. ASSUME NEW g \in Gain, Result(g) PROVE acked' \in [Week -> [Player -> Nat]]
    <3>1. UNCHANGED acked \/ acked' = [acked EXCEPT ![week][job.who] = @ + g] BY <2>2 DEF Result
    <3>2. job.who \in Player BY <2>2, ResultWrites DEF Writing
    <3> QED BY <2>1, <3>1, <3>2, PointsWritten
  <2>3. UNCHANGED acked \/ \E g \in Gain : Result(g)
    BY DEF Next, vars, Begin, CheckNpcs, DeleteNpcs, SaveNpc, NpcsSaved, EnsurePlayer, Repair, Top,
           Match, NoMatch, SetTeam, Upload, BecomesReady, DbError, Restart, NextDay, history
  <2> QED BY <2>1, <2>2, <2>3
<1>7. matched' \in [Player -> [week : Week, day : Day, n : Nat]]
  <2>1. CASE UNCHANGED matched BY <2>1 DEF BoardTypes
  <2>2. CASE Match
    <3> DEFINE m == matched[job.who]
               n == IF m.week = week /\ m.day = Me.day THEN m.n ELSE 0
    <3>1. Me \in Row /\ job.who \in Player BY <2>2, MatchWrites DEF Writing
    <3>2. n \in Nat /\ Me.day \in Day BY <3>1 DEF BoardTypes, Row
    <3>3. \/ UNCHANGED matched
          \/ matched' = [matched EXCEPT ![job.who] = [week |-> week, day |-> Me.day, n |-> n + 1]]
      BY <2>2 DEF Match
    <3> DEFINE r == [week |-> week, day |-> Me.day, n |-> n + 1]
    <3>4. r \in [week : Week, day : Day, n : Nat] BY <3>2 DEF BoardTypes
    <3> HIDE DEF r
    <3>5. UNCHANGED matched \/ matched' = [matched EXCEPT ![job.who] = r] BY <3>3 DEF r
    <3> QED BY <3>4, <3>5, <3>1 DEF BoardTypes
  <2>3. UNCHANGED matched \/ Match
    BY DEF Next, vars, Begin, CheckNpcs, DeleteNpcs, SaveNpc, NpcsSaved, EnsurePlayer, Repair, Top,
           Result, NoMatch, SetTeam, Upload, BecomesReady, DbError, Restart, NextDay, history
  <2> QED BY <2>1, <2>2, <2>3
<1> QED BY <1>1, <1>2, <1>3, <1>4, <1>5, <1>6, <1>7 DEF BoardTypes

-----------------------------------------------------------------------------
\* The request goes on to another place.
LEMMA Goes ==
  Request /\ job # None => \A l : job' = GoTo(l) =>
    /\ job'.kind = job.kind /\ job'.who = job.who /\ job'.pc = l /\ job'.todo = job.todo
    /\ job' = [kind |-> job'.kind, who |-> job'.who, pc |-> job'.pc, todo |-> job'.todo]
<1> SUFFICES ASSUME Request, job # None, NEW l, job' = GoTo(l)
    PROVE  /\ job'.kind = job.kind /\ job'.who = job.who /\ job'.pc = l /\ job'.todo = job.todo
           /\ job' = [kind |-> job'.kind, who |-> job'.who, pc |-> job'.pc, todo |-> job'.todo]
  OBVIOUS
<1> DEFINE j == [kind |-> job.kind, who |-> job.who, pc |-> l, todo |-> job.todo]
<1>1. job = [kind |-> job.kind, who |-> job.who, pc |-> job.pc, todo |-> job.todo] BY DEF Request
<1>2. job' = j BY <1>1 DEF GoTo
<1> QED BY <1>2

\* The opponents are complete when they are looked at or saved.
LEMMA FoundComplete ==
  /\ AllOk /\ Missing = {} => Complete
  /\ Complete => AllOk /\ Missing = {}
  /\ ToSave /\ At("save") /\ DOMAIN job.todo = {} => Complete
<1>1. 0 \in Npc BY BoardConstants DEF BoardAssumption, Npc
<1>2. AllOk /\ Missing = {} => Complete BY DEF AllOk, Missing, Complete
<1>3. Complete => AllOk /\ Missing = {} BY <1>1 DEF AllOk, Missing, Complete
<1>4. ToSave /\ At("save") /\ DOMAIN job.todo = {} => Complete BY DEF ToSave, Complete
<1> QED BY <1>2, <1>3, <1>4

\* Every step keeps a request on its handler's way.
LEMMA RequestStep == BoardInv /\ [Next]_vars => Request'
<1> SUFFICES ASSUME BoardInv, [Next]_vars, job' # None PROVE Request'
  BY DEF Request
<1> USE DEF BoardInv
<1>1. ASSUME NEW k \in {"top", "pool", "find", "end", "set", "upload"}, NEW p \in Player, Begin(k, p)
      PROVE Request'
  BY <1>1 DEF Begin, Request, Looks, Writes, Building
<1>2. CASE CheckNpcs
  <2>1. CASE AllOk /\ Missing = {}
    <3>1. job # None /\ job.pc = "npcs" /\ job' = GoTo(AfterNpcs) BY <1>2, <2>1 DEF CheckNpcs, At
    <3>2. Complete' BY <1>2, <2>1, FoundComplete DEF CheckNpcs, Complete, mem
    <3> QED BY <3>1, <3>2, Goes DEF Request, Looks, Writes, Building, AfterNpcs
  <2>2. CASE ~AllOk
    <3>1. job # None /\ job.pc = "npcs" /\ job' = GoTo("delete") BY <1>2, <2>2 DEF CheckNpcs, At
    <3> QED BY <3>1, Goes DEF Request, Looks, Writes, Building
  <2>3. CASE AllOk /\ Missing # {}
    <3> DEFINE f == [n \in Missing |-> Score(n)]
    <3>1. job # None /\ job.pc = "npcs" /\ job' = [job EXCEPT !.pc = "save", !.todo = f]
      BY <1>2, <2>3 DEF CheckNpcs, At
    <3> HIDE DEF f
    <3>2. job' = [kind |-> job.kind, who |-> job.who, pc |-> "save", todo |-> f] BY <3>1 DEF Request
    <3> QED BY <3>1, <3>2 DEF Request, Looks, Writes, Building
  <2> QED BY <2>1, <2>2, <2>3
<1>3. CASE DeleteNpcs
  <2> PICK f \in [Npc -> {Score(i) : i \in Npc}] : Step([job EXCEPT !.pc = "save", !.todo = f])
    BY <1>3 DEF DeleteNpcs
  <2>1. job # None /\ job.pc = "delete" /\ job' = [job EXCEPT !.pc = "save", !.todo = f]
    BY <1>3 DEF DeleteNpcs, At, Step
  <2>2. job' = [kind |-> job.kind, who |-> job.who, pc |-> "save", todo |-> f] BY <2>1 DEF Request
  <2> QED BY <2>1, <2>2 DEF Request, Looks, Writes, Building
<1>4. ASSUME NEW n \in Npc, SaveNpc(n) PROVE Request'
  <2> DEFINE f == [m \in DOMAIN job.todo \ {n} |-> job.todo[m]]
  <2>1. job # None /\ job.pc = "save" /\ job' = [job EXCEPT !.todo = f] BY <1>4 DEF SaveNpc, At, Step
  <2> HIDE DEF f
  <2>2. job' = [kind |-> job.kind, who |-> job.who, pc |-> "save", todo |-> f] BY <2>1 DEF Request
  <2> QED BY <2>1, <2>2 DEF Request, Looks, Writes, Building
<1>5. CASE NpcsSaved
  <2>1. job # None /\ job.pc = "save" /\ job' = GoTo(AfterNpcs) BY <1>5 DEF NpcsSaved, At
  <2>2. Complete' BY <1>5, FoundComplete DEF NpcsSaved, Complete, mem
  <2> QED BY <2>1, <2>2, Goes DEF Request, Looks, Writes, Building, AfterNpcs
<1>6. CASE EnsurePlayer
  <2>1. job # None /\ job.pc = "player" /\ job' = GoTo(AfterPlayer) /\ UNCHANGED <<week, npcs>>
    BY <1>6 DEF EnsurePlayer, At, Step, mem
  <2>2. job.kind # "boot" /\ job.who \in Player BY <2>1, Mine
  <2>3. rows'[week][job.who] # None BY <1>6, <2>2, EnsureWrites, OthersKept, BoardConstants
                                       DEF BoardAssumption, Me
  <2>4. Complete' <=> Complete BY <2>1 DEF Complete
  <2>5. Me' # None BY <2>1, <2>3, Goes DEF Me
  <2> QED BY <2>1, <2>2, <2>4, <2>5, Goes DEF Request, Looks, Writes, Building, AfterPlayer
<1>7. CASE Repair
  <2>1. job # None /\ job.pc = "repair" /\ job.kind # "pool" /\ job' = GoTo(job.kind)
        /\ UNCHANGED <<week, npcs, rows>>
    BY <1>7 DEF Repair, At, Step, mem
  <2>2. Complete' <=> Complete BY <2>1 DEF Complete
  <2>3. Me' = Me BY <2>1, Goes DEF Me
  <2> QED BY <2>1, <2>2, <2>3, Goes DEF Request, Looks, Writes, Building
<1>8. CASE Restart BY <1>8 DEF Restart, Request, Looks, Writes, Building
<1>9. CASE UNCHANGED <<job, week, npcs, rows>>
  BY <1>9 DEF Request, Complete, Me
<1> QED BY <1>1, <1>2, <1>3, <1>4, <1>5, <1>6, <1>7, <1>8, <1>9
        DEF Next, vars, Top, Match, NoMatch, Result, SetTeam, Upload, BecomesReady, DbError, NextDay,
            Step, mem

-----------------------------------------------------------------------------
\* The steps of the ladder are numbers.
LEMMA ScoreType == \A n \in Npc : Score(n) \in Nat
BY BoardConstants DEF BoardAssumption, Npc, Score

\* Different scores for all opponents are all scores of the ladder.
LEMMA AllScores ==
  \A f \in [Npc -> Ladders] : (\A m, n \in Npc : f[m] = f[n] => m = n) => {f[n] : n \in Npc} = Ladders
<1> SUFFICES ASSUME NEW f \in [Npc -> Ladders], \A m, n \in Npc : f[m] = f[n] => m = n
    PROVE  {f[n] : n \in Npc} = Ladders
  OBVIOUS
<1>1. Npc \subseteq Nat /\ IsFiniteSet(Npc)
  BY FS_Interval, BoardConstants DEF BoardAssumption, Npc
<1> DEFINE g == [n \in Npc |-> Score(n)]
<1>2. g \in Bijection(Npc, Ladders)
  <2>1. g \in Surjection(Npc, Ladders) BY DEF Surjection, Ladders
  <2>2. \A m, n \in Npc : g[m] = g[n] => m = n BY <1>1 DEF Score
  <2> QED BY <2>1, <2>2 DEF Bijection, Injection, IsInjective, Surjection
<1>3. IsFiniteSet(Ladders) /\ Cardinality(Ladders) = Cardinality(Npc)
  BY <1>1, <1>2, FS_Bijection DEF ExistsBijection
<1>4. f \in Injection(Npc, Ladders) BY DEF Injection, IsInjective
<1>5. f \in Surjection(Npc, Ladders) BY <1>3, <1>4, FS_Injection
<1> QED BY <1>5 DEF Surjection

\* A week keeps its ladder as long as its opponents come or go together and keep their scores.
LEMMA LadderKept ==
  \A w \in Week :
    /\ OnLadder(w)
    /\ \A n \in Npc : /\ npcs'[w][n] = None <=> npcs[w][n] = None
                      /\ npcs[w][n] # None => npcs'[w][n].score = npcs[w][n].score
    => OnLadder(w)'
<1> SUFFICES ASSUME NEW w \in Week, OnLadder(w),
                    \A n \in Npc : /\ npcs'[w][n] = None <=> npcs[w][n] = None
                                   /\ npcs[w][n] # None => npcs'[w][n].score = npcs[w][n].score
    PROVE  OnLadder(w)'
  OBVIOUS
<1>1. CASE \A n \in Npc : npcs[w][n] = None BY <1>1 DEF OnLadder
<1>2. CASE \A n \in Npc : npcs[w][n] # None
  <2>1. {npcs'[w][n].score : n \in Npc} = {npcs[w][n].score : n \in Npc} BY <1>2
  <2>2. CASE {npcs[w][n].score : n \in Npc} = Ladders BY <1>2, <2>1, <2>2 DEF OnLadder, Ladders
  <2>3. CASE \A n \in Npc : npcs[w][n] = None BY <2>3 DEF OnLadder
  <2> QED BY <2>2, <2>3 DEF OnLadder
<1> QED BY <1>1, <1>2 DEF OnLadder

\* When a rebuild is left, it is done or noted.
LEMMA OpponentsStep == BoardInv /\ [Next]_vars => Opponents'
<1> SUFFICES ASSUME BoardInv, [Next]_vars,
                    NEW w \in Week, w \notin broken', ~(At("save")' /\ w = week')
    PROVE  OnLadder(w)'
  BY DEF Opponents
<1> USE DEF BoardInv
<1>1. CASE DeleteNpcs
  <2>1. CASE w = week BY <1>1, <2>1, DeleteWrites DEF OnLadder
  <2>2. CASE w # week
    <3>1. OnLadder(w) BY <1>1, <2>2 DEF DeleteNpcs, Opponents
    <3>2. npcs'[w] = npcs[w] BY <1>1, <2>2, DeleteWrites
    <3> QED BY <3>1, <3>2, LadderKept
  <2> QED BY <2>1, <2>2
<1>2. ASSUME NEW n \in Npc, SaveNpc(n) PROVE OnLadder(w)'
  <2>1. CASE w = week
    <3>1. At("save") /\ UNCHANGED week BY <1>2 DEF SaveNpc, mem
    <3>2. job' # None /\ job' = [job EXCEPT !.todo = [m \in DOMAIN job.todo \ {n} |-> job.todo[m]]]
      BY <1>2, <2>1, <3>1 DEF SaveNpc, Step
    <3>3. job'.pc = "save"
      <4> DEFINE f == [m \in DOMAIN job.todo \ {n} |-> job.todo[m]]
      <4>1. job = [kind |-> job.kind, who |-> job.who, pc |-> job.pc, todo |-> job.todo]
        BY <3>1 DEF Request, At
      <4>2. job' = [job EXCEPT !.todo = f] BY <3>2
      <4> HIDE DEF f
      <4> QED BY <3>1, <4>1, <4>2 DEF At
    <3> QED BY <2>1, <3>1, <3>2, <3>3 DEF At
  <2>2. CASE w # week
    <3>1. OnLadder(w) BY <1>2, <2>2 DEF SaveNpc, Opponents
    <3>2. \A m \in Npc : npcs'[w][m] = npcs[w][m] BY <1>2, <2>2, SaveWrites
    <3> QED BY <3>1, <3>2, LadderKept
  <2> QED BY <2>1, <2>2
<1>3. CASE NpcsSaved
  <2>1. UNCHANGED <<npcs, week, broken>> BY <1>3 DEF NpcsSaved, mem, history
  <2>2. CASE w = week
    <3>1. At("save") /\ DOMAIN job.todo = {} BY <1>3 DEF NpcsSaved
    <3>2. \A n \in Npc : npcs[week][n] # None /\ Place(n) = npcs[week][n].score
      BY <3>1 DEF ToSave, Place
    <3>3. {npcs[week][n].score : n \in Npc} = {Place(n) : n \in Npc} BY <3>2
    <3>4. {Place(n) : n \in Npc} = Ladders BY <2>1, <2>2, <3>1 DEF ToSave
    <3>5. OnLadder(w) BY <2>2, <3>2, <3>3, <3>4 DEF OnLadder
    <3> QED BY <2>1, <3>5, LadderKept
  <2>3. CASE w # week BY <2>1, <2>3, LadderKept DEF Opponents
  <2> QED BY <2>2, <2>3
<1>4. CASE Restart
  <2>1. OnLadder(w) BY <1>4 DEF Restart, Opponents, At
  <2> QED BY <1>4, <2>1, RestartWrites, LadderKept
<1>5. CASE DbError
  <2>1. OnLadder(w) /\ UNCHANGED npcs BY <1>5 DEF DbError, Opponents, At
  <2> QED BY <2>1, LadderKept
<1>6. CASE UNCHANGED <<npcs, broken>> /\ (~At("save") \/ UNCHANGED <<job, week>>)
  <2>1. OnLadder(w) BY <1>6 DEF Opponents, At
  <2> QED BY <1>6, <2>1, LadderKept
<1> QED BY <1>1, <1>2, <1>3, <1>4, <1>5, <1>6
        DEF Next, vars, Begin, CheckNpcs, EnsurePlayer, Repair, Top, Match, NoMatch, Result, SetTeam,
            Upload, BecomesReady, NextDay, At, mem, history

\* Where a rebuild starts.
LEMMA Rebuilds ==
  BoardInv /\ [Next]_vars /\ (At("delete")' \/ At("save")') =>
    UNCHANGED <<job, week, npcs, broken>> \/ CheckNpcs \/ DeleteNpcs \/ \E n \in Npc : SaveNpc(n)
<1> SUFFICES ASSUME BoardInv, [Next]_vars, At("delete")' \/ At("save")'
    PROVE  \/ UNCHANGED <<job, week, npcs, broken>>
           \/ CheckNpcs \/ DeleteNpcs \/ \E n \in Npc : SaveNpc(n)
  OBVIOUS
<1> USE DEF BoardInv
<1>1. ASSUME NEW k \in {"top", "pool", "find", "end", "set", "upload"}, NEW p \in Player, Begin(k, p)
      PROVE FALSE
  BY <1>1 DEF Begin, At
<1>2. CASE NpcsSaved BY <1>2, Goes DEF NpcsSaved, At, AfterNpcs
<1>3. CASE EnsurePlayer
  <2>1. job # None /\ job' = GoTo(AfterPlayer) BY <1>3 DEF EnsurePlayer, At, Step
  <2> QED BY <2>1, Goes DEF At, AfterPlayer, Request, Looks, Writes
<1>4. CASE Repair
  <2>1. job # None /\ job' = GoTo(job.kind) BY <1>4 DEF Repair, At, Step
  <2> QED BY <2>1, Goes DEF At, Request, Looks, Writes
<1>5. CASE Restart BY <1>5 DEF Restart, At
<1>6. CASE NextDay BY <1>6 DEF NextDay, mem, history
<1> QED BY <1>1, <1>2, <1>3, <1>4, <1>5, <1>6
        DEF Next, vars, Top, Match, NoMatch, Result, SetTeam, Upload, BecomesReady, DbError, Step, At,
            mem, history

\* What is to be saved is missing, and completes the ladder.
LEMMA ToSaveStep == BoardInv /\ [Next]_vars => ToSave'
<1> SUFFICES ASSUME BoardInv, [Next]_vars, At("save")' PROVE ToSave'
  BY DEF ToSave
<1> USE DEF BoardInv
<1>1. CASE CheckNpcs
  <2> DEFINE f == [n \in Missing |-> Score(n)]
  <2>1. job # None /\ job.pc = "npcs" /\ UNCHANGED <<npcs, week, broken>>
    BY <1>1 DEF CheckNpcs, At, mem, history
  <2>2. AllOk /\ Missing # {} /\ job' = [job EXCEPT !.pc = "save", !.todo = f]
    <3>1. \A l : job' = GoTo(l) => l = "save" BY <2>1, Goes DEF At
    <3>2. AllOk
      <4>1. ~AllOk => job' = GoTo("delete") BY <1>1 DEF CheckNpcs
      <4> QED BY <3>1, <4>1
    <3>3. Missing # {}
      <4>1. Missing = {} => job' = GoTo(AfterNpcs) BY <1>1, <3>2 DEF CheckNpcs
      <4>2. AfterNpcs # "save" BY DEF AfterNpcs
      <4> QED BY <3>1, <4>1, <4>2
    <3> QED BY <1>1, <3>2, <3>3 DEF CheckNpcs
  <2>3. job'.todo = f
    <3>1. job = [kind |-> job.kind, who |-> job.who, pc |-> job.pc, todo |-> job.todo]
      BY <2>1 DEF Request
    <3> HIDE DEF f
    <3> QED BY <2>2, <3>1
  <2>4. DOMAIN f \subseteq Npc /\ f \in [DOMAIN f -> Nat]
    BY ScoreType DEF Missing
  <2>5. \A n \in Npc : IF n \in DOMAIN f THEN npcs[week][n] = None
                      ELSE npcs[week][n] # None /\ npcs[week][n].ok
    BY <2>2 DEF Missing, AllOk
  <2>6. week \in broken
    <3>1. ~OnLadder(week) BY <2>2 DEF OnLadder, AllOk, Missing
    <3> QED BY <2>1, <3>1 DEF Opponents, BoardTypes, At
  <2> HIDE DEF f
  <2> QED BY <2>1, <2>3, <2>4, <2>5, <2>6 DEF ToSave
<1>2. CASE DeleteNpcs
  <2> PICK f \in [Npc -> {Score(i) : i \in Npc}] :
             /\ \A m, n \in Npc : f[m] = f[n] => m = n
             /\ Step([job EXCEPT !.pc = "save", !.todo = f])
    BY <1>2 DEF DeleteNpcs
  <2>1. job # None /\ job' = [job EXCEPT !.pc = "save", !.todo = f] /\ UNCHANGED week
    BY <1>2 DEF DeleteNpcs, At, Step, mem
  <2>2. job'.todo = f
    <3>1. job = [kind |-> job.kind, who |-> job.who, pc |-> job.pc, todo |-> job.todo]
      BY <2>1 DEF Request
    <3> QED BY <2>1, <3>1
  <2>3. f \in [Npc -> Nat]
    BY ScoreType
  <2>4. \A n \in Npc : npcs'[week'][n] = None BY <1>2, <2>1, DeleteWrites
  <2>5. {f[n] : n \in Npc} = Ladders BY AllScores DEF Ladders
  <2>6. \A n \in Npc : Place(n)' = f[n] BY <2>2 DEF Place
  <2>7. {Place(n)' : n \in Npc} = Ladders BY <2>5, <2>6
  <2> QED BY <2>2, <2>3, <2>4, <2>7 DEF ToSave, Ladders
<1>3. ASSUME NEW n \in Npc, SaveNpc(n) PROVE ToSave'
  <2> DEFINE f == [m \in DOMAIN job.todo \ {n} |-> job.todo[m]]
  <2>1. job # None /\ At("save") /\ n \in DOMAIN job.todo /\ job' = [job EXCEPT !.todo = f]
        /\ UNCHANGED week
    BY <1>3 DEF SaveNpc, At, Step, mem
  <2>2. job'.todo = f
    <3>1. job = [kind |-> job.kind, who |-> job.who, pc |-> job.pc, todo |-> job.todo]
      BY <2>1 DEF Request
    <3> HIDE DEF f
    <3> QED BY <2>1, <3>1
  <2>3. DOMAIN f \subseteq Npc /\ f \in [DOMAIN f -> Nat] BY <2>1 DEF ToSave
  <2>4. \A m \in Npc : IF m \in DOMAIN f THEN npcs'[week][m] = None
                      ELSE npcs'[week][m] # None /\ npcs'[week][m].ok
    BY <1>3, <2>1, SaveWrites DEF ToSave, BoardTypes
  <2>5. \A m \in Npc : Place(m)' = Place(m)
    <3>1. week' = week /\ week \in Week BY <2>1 DEF BoardTypes
    <3>2. npcs'[week][n].score = job.todo[n] BY <1>3, SaveWrites
    <3>3. Place(n)' = Place(n) BY <2>1, <2>2, <3>1, <3>2 DEF Place
    <3>4. ASSUME NEW m \in Npc, m # n PROVE Place(m)' = Place(m)
      BY <1>3, <2>2, <3>1, <3>4, SaveWrites DEF Place
    <3> QED BY <3>3, <3>4
  <2>6. week \notin broken' => {Place(m)' : m \in Npc} = Ladders
    <3>1. broken \subseteq broken' BY <1>3 DEF SaveNpc
    <3> QED BY <2>1, <2>5, <3>1 DEF ToSave
  <2> HIDE DEF f
  <2> QED BY <2>1, <2>2, <2>3, <2>4, <2>6 DEF ToSave, Ladders
<1>4. CASE UNCHANGED <<job, week, npcs, broken>>
  BY <1>4 DEF ToSave, At, Place
<1> QED BY <1>1, <1>2, <1>3, <1>4, Rebuilds

-----------------------------------------------------------------------------
\* The days go on, and with them a row's.
LEMMA DaysGrow == BoardInv /\ [Next]_vars => day' \in Nat /\ day \in Nat /\ day <= day'
<1> SUFFICES ASSUME BoardInv, [Next]_vars PROVE day' \in Nat /\ day \in Nat /\ day <= day'
  OBVIOUS
<1>1. day \in Nat BY DEF BoardInv, BoardTypes, Day
<1>2. day' = day \/ day' = day + 1
  BY DEF Next, vars, Begin, CheckNpcs, DeleteNpcs, SaveNpc, NpcsSaved, EnsurePlayer, Repair, Top, Match,
         NoMatch, SetTeam, Result, Upload, BecomesReady, DbError, Restart, NextDay
<1> QED BY <1>1, <1>2

\* What a step may make of a row.
LEMMA RowOutcome ==
  BoardInv /\ [Next]_vars => \A w \in Week : \A p \in Player :
    \/ rows'[w][p] = rows[w][p]
    \/ /\ w = week /\ p = job.who /\ Me = rows[w][p] /\ rows'[w][p] \in Row
       /\ \/ EnsurePlayer /\ Me = None /\ rows'[w][p] = NewRow
          \/ EnsurePlayer /\ Me \in Row /\ Me.day # day /\ rows'[w][p] = Again(Me)
          \/ Match /\ Me \in Row /\ Me.times > 0 /\ rows'[w][p] = Used(Me)
          \/ SetTeam /\ Me \in Row /\ rows'[w][p] = Armed(Me)
          \/ \E g \in Gain : Result(g) /\ g \in Nat /\ Me \in Row /\ rows'[w][p] = Richer(Me, g)
<1> SUFFICES ASSUME BoardInv, [Next]_vars, NEW w \in Week, NEW p \in Player, rows'[w][p] # rows[w][p]
    PROVE  /\ w = week /\ p = job.who /\ Me = rows[w][p] /\ rows'[w][p] \in Row
           /\ \/ EnsurePlayer /\ Me = None /\ rows'[w][p] = NewRow
              \/ EnsurePlayer /\ Me \in Row /\ Me.day # day /\ rows'[w][p] = Again(Me)
              \/ Match /\ Me \in Row /\ Me.times > 0 /\ rows'[w][p] = Used(Me)
              \/ SetTeam /\ Me \in Row /\ rows'[w][p] = Armed(Me)
              \/ \E g \in Gain : Result(g) /\ g \in Nat /\ Me \in Row /\ rows'[w][p] = Richer(Me, g)
  OBVIOUS
<1> USE DEF BoardInv
<1>1. \A r : Writing(r) => /\ w = week /\ p = job.who /\ Me = rows[w][p]
                          /\ rows'[w][p] = r /\ r \in Row
  BY OthersKept DEF Writing, Me
<1>2. CASE EnsurePlayer BY <1>1, <1>2, EnsureWrites
<1>3. CASE Match BY <1>1, <1>3, MatchWrites
<1>4. CASE SetTeam BY <1>1, <1>4, SetWrites
<1>5. ASSUME NEW g \in Gain, Result(g)
      PROVE  /\ w = week /\ p = job.who /\ Me = rows[w][p] /\ rows'[w][p] \in Row
             /\ Result(g) /\ g \in Nat /\ Me \in Row /\ rows'[w][p] = Richer(Me, g)
  BY <1>1, <1>5, ResultWrites
<1> QED BY <1>2, <1>3, <1>4, <1>5, RowsChange

\* A row stays, its day grows, and is no later than the present day.
LEMMA RowsGrow ==
  BoardInv /\ [Next]_vars => \A w \in Week : \A p \in Player :
    /\ rows[w][p] # None =>
         /\ rows'[w][p] # None /\ rows[w][p] \in Row /\ rows'[w][p] \in Row
         /\ rows[w][p].day <= rows'[w][p].day
    /\ rows'[w][p] # None => rows'[w][p].day <= day'
<1> SUFFICES ASSUME BoardInv, [Next]_vars, NEW w \in Week, NEW p \in Player
    PROVE  /\ rows[w][p] # None =>
                /\ rows'[w][p] # None /\ rows[w][p] \in Row /\ rows'[w][p] \in Row
                /\ rows[w][p].day <= rows'[w][p].day
           /\ rows'[w][p] # None => rows'[w][p].day <= day'
  OBVIOUS
<1> USE DEF BoardInv
<1>1. day \in Nat /\ day' \in Nat /\ day <= day' /\ \A r \in Row : r.day \in Nat /\ r # None
  BY DaysGrow, BoardConstants DEF Row, Day, BoardAssumption
<1>2. rows[w][p] \in Row \cup {None} /\ rows'[w][p] \in Row \cup {None}
  BY RowsTyped DEF BoardTypes
<1>3. rows[w][p] # None => rows[w][p].day <= day BY DEF Attempts
<1>4. CASE rows'[w][p] = rows[w][p] BY <1>1, <1>2, <1>3, <1>4
<1>5. CASE rows'[w][p] # rows[w][p]
  <2>1. /\ rows'[w][p] \in Row /\ Me = rows[w][p]
        /\ \/ rows'[w][p] = NewRow
           \/ Me \in Row /\ rows'[w][p] \in {Again(Me), Used(Me), Armed(Me)}
           \/ \E g \in Nat : Me \in Row /\ rows'[w][p] = Richer(Me, g)
    BY <1>5, RowOutcome
  <2>2. rows'[w][p].day = day \/ (Me \in Row /\ rows'[w][p].day = Me.day)
    <3>1. CASE rows'[w][p] = NewRow BY <3>1, WrittenFields
    <3>2. CASE Me \in Row /\ rows'[w][p] \in {Again(Me), Used(Me), Armed(Me)}
      BY <3>2, WrittenFields
    <3>3. ASSUME NEW g \in Nat, Me \in Row, rows'[w][p] = Richer(Me, g)
          PROVE  rows'[w][p].day = day \/ (Me \in Row /\ rows'[w][p].day = Me.day)
      <4>1. Richer(Me, g).day = Me.day BY <3>3, WrittenFields
      <4> QED BY <3>3, <4>1
    <3> QED BY <2>1, <3>1, <3>2, <3>3
  <2> QED BY <1>1, <1>2, <1>3, <2>1, <2>2
<1> QED BY <1>4, <1>5

\* What a step may make of the attempts that were given.
LEMMA MatchedOutcome ==
  BoardInv /\ [Next]_vars => \A p \in Player :
    \/ matched'[p] = matched[p]
    \/ /\ Match /\ p = job.who /\ Me \in Row /\ matched'[p].week = week /\ matched'[p].day = Me.day
       /\ matched'[p].n = 1 + (IF matched[p].week = week /\ matched[p].day = Me.day
                              THEN matched[p].n ELSE 0)
<1> SUFFICES ASSUME BoardInv, [Next]_vars, NEW p \in Player, matched'[p] # matched[p]
    PROVE  /\ Match /\ p = job.who /\ Me \in Row /\ matched'[p].week = week /\ matched'[p].day = Me.day
           /\ matched'[p].n = 1 + (IF matched[p].week = week /\ matched[p].day = Me.day
                                  THEN matched[p].n ELSE 0)
  OBVIOUS
<1> USE DEF BoardInv
<1>1. UNCHANGED matched \/ Match
  BY DEF Next, vars, Begin, CheckNpcs, DeleteNpcs, SaveNpc, NpcsSaved, EnsurePlayer, Repair, Top,
         Result, NoMatch, SetTeam, Upload, BecomesReady, DbError, Restart, NextDay, history
<1>2. Match BY <1>1
<1> DEFINE n == IF matched[job.who].week = week /\ matched[job.who].day = Me.day
                THEN matched[job.who].n ELSE 0
           r == [week |-> week, day |-> Me.day, n |-> n + 1]
<1>3. UNCHANGED matched \/ matched' = [matched EXCEPT ![job.who] = r] BY <1>2 DEF Match
<1>4. n \in Nat /\ Me \in Row /\ job.who \in Player
  <2>1. Me \in Row /\ job.who \in Player BY <1>2, MatchWrites DEF Writing
  <2> QED BY <2>1 DEF BoardTypes
<1>5. r.week = week /\ r.day = Me.day /\ r.n = 1 + n BY <1>4
<1>6. p = job.who /\ matched'[p] = r
  <2> HIDE DEF r
  <2> QED BY <1>3, <1>4 DEF BoardTypes
<1> QED BY <1>2, <1>4, <1>5, <1>6

\* Every step keeps the day of a row no later than today and no earlier than that of a match.
LEMMA AttemptsStep == BoardInv /\ [Next]_vars => Attempts'
<1> SUFFICES ASSUME BoardInv, [Next]_vars PROVE Attempts'
  OBVIOUS
<1> USE DEF BoardInv
<1>1. \A w \in Week : \A p \in Player : rows'[w][p] # None => rows'[w][p].day <= day' BY RowsGrow
<1>2. ASSUME NEW p \in Player, matched'[p].n > 0
      PROVE  /\ rows'[matched'[p].week][p] # None
             /\ matched'[p].day <= rows'[matched'[p].week][p].day
  <2>1. matched[p].week \in Week /\ week \in Week /\ \A r \in Row : r.day \in Nat
    BY DEF BoardTypes, Row, Day
  <2>2. matched[p].day \in Nat BY DEF BoardTypes, Day
  <2>3. CASE matched'[p] = matched[p]
    <3>1. rows[matched[p].week][p] # None /\ matched[p].day <= rows[matched[p].week][p].day
      BY <1>2, <2>3 DEF Attempts
    <3> QED BY <2>1, <2>2, <2>3, <3>1, RowsGrow
  <2>4. CASE matched'[p] # matched[p]
    <3>1. matched'[p].week = week /\ matched'[p].day = Me.day /\ Me = rows[week][p] /\ Me \in Row
      BY <2>4, MatchedOutcome DEF Me
    <3>2. Me # None BY <3>1, BoardConstants DEF BoardAssumption
    <3> QED BY <2>1, <3>1, <3>2, RowsGrow
  <2> QED BY <2>3, <2>4
<1> QED BY <1>1, <1>2 DEF Attempts

\* A day's attempts are used once each, or given again on the next day.
LEMMA MatchesStep == BoardInv /\ [Next]_vars => MatchesBounded'
<1> SUFFICES ASSUME BoardInv, [Next]_vars, NEW p \in Player
    PROVE  /\ matched'[p].n <= DefaultTimes
           /\ matched'[p].n > 0 /\ rows'[matched'[p].week][p].day = matched'[p].day
                => rows'[matched'[p].week][p].times + matched'[p].n <= DefaultTimes
  BY DEF MatchesBounded
<1> USE DEF BoardInv
<1> DEFINE m == matched[p]
           r == rows[m.week][p]
<1>1. /\ m.week \in Week /\ m.day \in Nat /\ m.n \in Nat /\ DefaultTimes \in Nat /\ week \in Week
      /\ \A s \in Row : s.day \in Nat /\ s.times \in Nat /\ s.times <= DefaultTimes /\ s # None
  BY BoardConstants DEF BoardTypes, Day, Row, BoardAssumption
<1>2. /\ m.n <= DefaultTimes
      /\ m.n > 0 /\ r.day = m.day => r.times + m.n <= DefaultTimes
      /\ m.n > 0 => r # None /\ r \in Row /\ m.day <= r.day /\ r.day <= day
  BY <1>1 DEF MatchesBounded, Attempts, BoardTypes
<1>3. CASE matched'[p] # m
  <2>1. /\ Match /\ p = job.who /\ Me \in Row /\ matched'[p].week = week /\ matched'[p].day = Me.day
        /\ matched'[p].n = 1 + (IF m.week = week /\ m.day = Me.day THEN m.n ELSE 0)
    BY <1>3, MatchedOutcome
  <2>2. Me.times > 0 /\ rows'[week][p] = Used(Me) BY <2>1, MatchWrites, OthersKept
  <2>3. rows'[week][p].times = Me.times - 1 BY <2>1, <2>2, WrittenFields
  <2>4. CASE m.week = week /\ m.day = Me.day
    <3>1. r = Me BY <2>1, <2>4 DEF Me
    <3>2. m.n + Me.times <= DefaultTimes BY <1>1, <1>2, <2>1, <2>4, <3>1
    <3> HIDE DEF m, r
    <3> QED BY <1>1, <2>1, <2>2, <2>3, <2>4, <3>2
  <2>5. CASE ~(m.week = week /\ m.day = Me.day)
    <3> HIDE DEF m, r
    <3> QED BY <1>1, <2>1, <2>2, <2>3, <2>5
  <2> QED BY <2>4, <2>5
<1>4. CASE matched'[p] = m /\ rows'[m.week][p] = r
  BY <1>2, <1>4
<1>5. CASE matched'[p] = m /\ rows'[m.week][p] # r /\ m.n > 0
  <2> DEFINE s == rows'[m.week][p]
  <2>1. r \in Row /\ r # None BY <1>2, <1>5
  <2>2. \/ EnsurePlayer /\ r.day # day /\ s.day = day
        \/ s.day = r.day /\ s.times <= r.times
    <3>1. m.week = week /\ p = job.who /\ Me = r BY <1>1, <1>5, RowOutcome
    <3>2. \/ EnsurePlayer /\ Me.day # day /\ s = Again(Me)
          \/ Me.times > 0 /\ s = Used(Me)
          \/ s = Armed(Me)
          \/ \E g \in Nat : s = Richer(Me, g)
      BY <1>1, <1>5, <2>1, <3>1, RowOutcome
    <3>3. r.times \in Nat BY <1>1, <2>1
    <3> HIDE DEF m, r, s
    <3> QED BY <2>1, <3>1, <3>2, <3>3, WrittenFields
  <2>3. s \in Row BY <1>1, <1>2, <1>5, RowsGrow
  <2>4. day \in Nat BY DaysGrow
  <2> HIDE DEF m, r, s
  <2> QED BY <1>1, <1>2, <1>5, <2>1, <2>2, <2>3, <2>4 DEF s
<1> QED BY <1>1, <1>2, <1>3, <1>4, <1>5

\* The points somebody was told of stay in the row.
LEMMA ScoresStep == BoardInv /\ [Next]_vars => ScoresKept'
<1> SUFFICES ASSUME BoardInv, [Next]_vars, NEW w \in Week, NEW p \in Player
    PROVE  LET s == IF rows'[w][p] = None THEN 0 ELSE rows'[w][p].score IN
           s >= acked'[w][p] /\ (w \notin doubtful' => s = acked'[w][p])
  BY DEF ScoresKept
<1> USE DEF BoardInv
<1> DEFINE s == IF rows[w][p] = None THEN 0 ELSE rows[w][p].score
           t == IF rows'[w][p] = None THEN 0 ELSE rows'[w][p].score
<1>1. s \in Nat /\ acked[w][p] \in Nat /\ s >= acked[w][p] /\ (w \notin doubtful => s = acked[w][p])
  BY DEF ScoresKept, BoardTypes, Row
<1>2. doubtful \subseteq doubtful'
  BY DEF Next, vars, Begin, CheckNpcs, DeleteNpcs, SaveNpc, NpcsSaved, EnsurePlayer, Repair, Top, Match,
         NoMatch, SetTeam, Result, Upload, BecomesReady, DbError, Restart, NextDay, Step, history
<1>3. ASSUME NEW g \in Gain, Result(g)
      PROVE  t >= acked'[w][p] /\ (w \notin doubtful' => t = acked'[w][p])
  <2>1. g \in Nat /\ Me \in Row /\ job.who \in Player /\ rows'[week][job.who] = Richer(Me, g)
        /\ rows'[week][job.who] # None
    BY <1>3, ResultWrites, OthersKept DEF Writing
  <2>2. rows'[week][job.who].score = Me.score + g
    <3>1. Richer(Me, g).score = Me.score + g BY <2>1, WrittenFields
    <3> QED BY <2>1, <3>1
  <2>3. \/ faults' = faults /\ acked' = [acked EXCEPT ![week][job.who] = @ + g]
        \/ UNCHANGED acked /\ week \in doubtful'
    BY <1>3, StepEffects DEF Result
  <2>4. CASE w = week /\ p = job.who
    <3>1. s = Me.score
      <4>1. Me # None BY <2>1, BoardConstants DEF BoardAssumption
      <4> QED BY <2>4, <4>1 DEF Me
    <3>2. t = s + g BY <2>1, <2>2, <2>4, <3>1
    <3>3. acked'[w][p] = acked[w][p] + g \/ (acked'[w][p] = acked[w][p] /\ w \in doubtful')
      BY <2>1, <2>3, <2>4, PointsWritten
    <3> HIDE DEF s, t
    <3> QED BY <1>1, <1>2, <2>1, <3>2, <3>3
  <2>5. CASE w # week \/ p # job.who
    <3>1. t = s BY <1>3, <2>5, ResultWrites, OthersKept
    <3>2. acked'[w][p] = acked[w][p] BY <2>1, <2>3, <2>5, PointsWritten
    <3> HIDE DEF s, t
    <3> QED BY <1>1, <1>2, <3>1, <3>2
  <2> QED BY <2>4, <2>5
<1>4. CASE \A g \in Gain : ~Result(g)
  <2>1. UNCHANGED acked
    BY <1>4 DEF Next, vars, Begin, CheckNpcs, DeleteNpcs, SaveNpc, NpcsSaved, EnsurePlayer, Repair, Top,
           Match, NoMatch, SetTeam, Upload, BecomesReady, DbError, Restart, NextDay, history
  <2>2. t = s
    <3>1. CASE rows'[w][p] = rows[w][p] BY <3>1
    <3>2. CASE rows'[w][p] # rows[w][p]
      <4>1. /\ Me = rows[w][p] /\ rows'[w][p] \in Row
            /\ \/ Me = None /\ rows'[w][p] = NewRow
               \/ Me \in Row /\ rows'[w][p] \in {Again(Me), Used(Me), Armed(Me)}
        BY <1>4, <3>2, RowOutcome
      <4>2. \A r \in Row : r # None BY BoardConstants DEF BoardAssumption
      <4>3. CASE Me = None /\ rows'[w][p] = NewRow BY <4>1, <4>2, <4>3, WrittenFields
      <4>4. CASE Me \in Row /\ rows'[w][p] \in {Again(Me), Used(Me), Armed(Me)}
        <5>1. rows'[w][p].score = Me.score BY <4>4, WrittenFields
        <5> QED BY <4>1, <4>2, <4>4, <5>1
      <4> QED BY <4>1, <4>3, <4>4
    <3> QED BY <3>1, <3>2
  <2>3. t >= acked'[w][p] /\ (w \notin doubtful' => t = acked'[w][p])
    <3> HIDE DEF s, t
    <3> QED BY <1>1, <1>2, <2>1, <2>2
  <2> QED BY <2>3
<1> QED BY <1>3, <1>4

-----------------------------------------------------------------------------
\* The list of players stays as long as nobody's points change.
LEMMA BoardKept ==
  BoardInv /\ [Next]_vars /\ UNCHANGED week /\ (\A g \in Gain : ~Result(g)) => Board' = Board
<1> SUFFICES ASSUME BoardInv, [Next]_vars, UNCHANGED week, \A g \in Gain : ~Result(g) PROVE Board' = Board
  OBVIOUS
<1> USE DEF BoardInv
<1> DEFINE Points(r) == IF r = None THEN 0 ELSE r.score
<1>1. \A r \in Row : r # None /\ r.score \in Nat BY BoardConstants DEF BoardAssumption, Row
<1>2. ASSUME NEW p \in Player PROVE Points(rows'[week][p]) = Points(rows[week][p])
  <2>1. week \in Week BY DEF BoardTypes
  <2>2. CASE rows'[week][p] = rows[week][p] BY <2>2
  <2>3. CASE rows'[week][p] # rows[week][p]
    <3>1. /\ Me = rows[week][p] /\ rows'[week][p] \in Row
          /\ \/ Me = None /\ rows'[week][p] = NewRow
             \/ Me \in Row /\ rows'[week][p] \in {Again(Me), Used(Me), Armed(Me)}
      BY <2>1, <2>3, RowOutcome
    <3>2. CASE Me = None /\ rows'[week][p] = NewRow BY <1>1, <3>1, <3>2, WrittenFields
    <3>3. CASE Me \in Row /\ rows'[week][p] \in {Again(Me), Used(Me), Armed(Me)}
      <4>1. rows'[week][p].score = Me.score BY <3>3, WrittenFields
      <4> QED BY <1>1, <3>1, <3>3, <4>1
    <3> QED BY <3>1, <3>2, <3>3
  <2> QED BY <2>2, <2>3
<1>3. \A r \in Row \cup {None} : r # None /\ r.score > 0 <=> Points(r) > 0 BY <1>1
<1>4. \A p \in Player : rows[week][p] \in Row \cup {None} /\ rows'[week][p] \in Row \cup {None}
  BY RowsTyped DEF BoardTypes
<1> DEFINE S == {q \in Player : rows[week][q] # None /\ rows[week][q].score > 0}
           T == {q \in Player : rows'[week'][q] # None /\ rows'[week'][q].score > 0}
<1>5. \A p \in Player : rows[week][p] # None /\ rows[week][p].score > 0
                     <=> rows'[week'][p] # None /\ rows'[week'][p].score > 0
  BY <1>2, <1>3, <1>4
<1>6. S = T BY <1>5
<1>7. \A p \in S : rows[week][p].score = rows'[week'][p].score BY <1>2, <1>5
<1>8. Board = [p \in S |-> rows[week][p].score] /\ Board' = [p \in T |-> rows'[week'][p].score]
  BY DEF Board
<1> HIDE DEF S, T
<1> QED BY <1>6, <1>7, <1>8

\* Who is in time for a step that keeps the clients' versions has a true list after it.
LEMMA ListsStep == BoardInv /\ [Next]_vars => ListsCurrent'
<1> SUFFICES ASSUME BoardInv, [Next]_vars PROVE ListsCurrent'
  OBVIOUS
<1> USE DEF BoardInv
<1> DEFINE Has(p) == client'[p] # None =>
             /\ client'[p].week <= week'
             /\ client'[p].week = week' =>
                  /\ Complete' /\ (client'[p].list = <<Board', NpcBoard'>> \/ week' \in doubtful')
                  /\ ~At("delete")' /\ ~At("save")'
<1>1. \A p \in Player : client[p] # None => client[p].week \in Nat /\ week \in Nat /\ week' \in Nat
  BY BoardTypesStep, Weeks DEF BoardTypes
<1>2. ASSUME NEW p \in Player PROVE Has(p)
  <2>1. CASE Bump /\ UNCHANGED week
    <3>1. client'[p] # None => client'[p] = client[p] /\ client[p] # None /\ client[p].week # week
      BY <2>1, Bumped
    <3> QED BY <2>1, <3>1 DEF ListsCurrent
  <2>2. CASE Top
    <3>1. job # None /\ job.pc = "top" /\ job' = None /\ UNCHANGED <<week, npcs, rows, doubtful>>
      BY <2>2 DEF Top, At, mem, history
    <3>2. Complete /\ job.who \in Player BY <3>1, Mine DEF Request, Looks, Writes, Building
    <3>3. Complete' /\ Board' = Board /\ NpcBoard' = NpcBoard /\ ~At("delete")' /\ ~At("save")'
      BY <3>1, <3>2 DEF Complete, Board, NpcBoard, At
    <3>4. CASE client'[p] = client[p]
      BY <1>1, <3>1, <3>3, <3>4 DEF ListsCurrent
    <3>5. CASE client'[p] # client[p]
      <4>1. client'[p] = [week |-> week, list |-> <<Board, NpcBoard>>]
        BY <2>2, <3>2, <3>5 DEF Top, BoardTypes
      <4>2. client'[p].week = week /\ client'[p].list = <<Board, NpcBoard>> BY <4>1
      <4>3. week <= week' BY <3>1, Weeks DEF BoardTypes
      <4> QED BY <3>1, <3>3, <4>2, <4>3
    <3> QED BY <3>4, <3>5
  <2>3. CASE Restart BY <2>3 DEF Restart
  <2>4. CASE UNCHANGED client /\ week' # week
    <3>1. week < week' /\ week \in Nat /\ week' \in Nat
      <4>1. week' = WeekOf(day) \/ Restart
        BY <2>4 DEF Next, vars, Begin, CheckNpcs, DeleteNpcs, SaveNpc, NpcsSaved, EnsurePlayer, Repair,
                    Top, Match, NoMatch, SetTeam, Result, Upload, BecomesReady, DbError, NextDay, mem
      <4>2. week' = WeekOf(day) BY <4>1 DEF Restart
      <4>3. week \in Nat /\ WeekOf(day) \in Nat /\ week <= WeekOf(day) BY Weeks DEF BoardTypes
      <4> QED BY <2>4, <4>2, <4>3
    <3> QED BY <1>1, <2>4, <3>1 DEF ListsCurrent
  <2>5. CASE UNCHANGED <<client, week>> /\ client[p] # None /\ client[p].week = week
    <3>1. /\ Complete /\ (client[p].list = <<Board, NpcBoard>> \/ week \in doubtful)
          /\ ~At("delete") /\ ~At("save")
      BY <2>5 DEF ListsCurrent
    <3>2. doubtful \subseteq doubtful'
      BY DEF Next, vars, Begin, CheckNpcs, DeleteNpcs, SaveNpc, NpcsSaved, EnsurePlayer, Repair, Top,
             Match, NoMatch, SetTeam, Result, Upload, BecomesReady, DbError, Restart, NextDay, Step,
             history
    <3>3. CASE Restart BY <2>3, <3>3
    <3>4. CASE ~Restart
      <4>1. UNCHANGED npcs
        <5>1. ~DeleteNpcs /\ \A n \in Npc : ~SaveNpc(n) BY <3>1 DEF DeleteNpcs, SaveNpc
        <5> QED BY <3>4, <5>1, OpponentsChange
      <4>2. Complete' /\ NpcBoard' = NpcBoard BY <2>5, <3>1, <4>1 DEF Complete, NpcBoard
      <4>3. ~At("delete")' /\ ~At("save")'
        <5>1. CASE CheckNpcs
          <6>1. AllOk /\ Missing = {} BY <3>1, FoundComplete
          <6>2. job # None /\ job' = GoTo(AfterNpcs) BY <5>1, <6>1 DEF CheckNpcs, At
          <6> QED BY <6>2, Goes DEF At, AfterNpcs
        <5>2. CASE DeleteNpcs \/ \E n \in Npc : SaveNpc(n) BY <3>1, <5>2 DEF DeleteNpcs, SaveNpc
        <5>3. CASE UNCHANGED job BY <3>1, <5>3 DEF At
        <5> QED BY <5>1, <5>2, <5>3, Rebuilds
      <4>4. Board' = Board \/ week' \in doubtful'
        <5>1. CASE \A g \in Gain : ~Result(g) BY <2>5, <5>1, BoardKept
        <5>2. ASSUME NEW g \in Gain, Result(g) PROVE week' \in doubtful'
          <6>1. ~Bump BY <2>5, Bumped
          <6> QED BY <2>5, <5>2, <6>1, StepEffects DEF Result
        <5> QED BY <5>1, <5>2
      <4> QED BY <1>1, <2>5, <3>1, <3>2, <4>2, <4>3, <4>4
    <3> QED BY <3>3, <3>4
  <2>6. CASE UNCHANGED <<client, week>> /\ (client[p] # None => client[p].week # week)
    BY <2>6 DEF ListsCurrent
  <2> QED BY <2>1, <2>2, <2>3, <2>4, <2>5, <2>6, ClientsChange
<1>3. told' # None => client'[told'] # None /\ client'[told'].week = week'
  <2>1. CASE Top
    <3>1. told' # None => told' = job.who /\ client[job.who] # None /\ client[job.who].week = week
                          /\ UNCHANGED <<client, week>>
      BY <2>1 DEF Top, mem
    <3> QED BY <3>1
  <2>2. CASE UNCHANGED vars BY <2>2 DEF vars, mem, ListsCurrent
  <2>3. Top \/ UNCHANGED vars \/ told' = None
    BY DEF Next, Begin, CheckNpcs, DeleteNpcs, SaveNpc, NpcsSaved, EnsurePlayer, Repair,
           Match, NoMatch, SetTeam, Result, Upload, BecomesReady, DbError, Restart, NextDay, Step
  <2> QED BY <2>1, <2>2, <2>3
<1> QED BY <1>2, <1>3 DEF ListsCurrent

-----------------------------------------------------------------------------
\* The board starts in the invariant.
LEMMA BoardInit == Init => BoardInv
<1> SUFFICES ASSUME Init PROVE BoardInv
  OBVIOUS
<1> USE DEF Init
<1>1. 0 \in Week /\ 0 \in Day /\ WeekOf(0) \in Nat BY Weeks
<1>2. BoardTypes
  <2>1. day \in Day /\ week \in Week /\ week <= WeekOf(day) /\ ready \in BOOLEAN
    <3>1. day = 0 /\ week = 0 /\ ready = FALSE OBVIOUS
    <3>2. 0 <= WeekOf(day) BY ONLY <3>1, <1>1
    <3> QED BY <3>1, <3>2, <1>1
  <2>2. rows \in [Week -> [Player -> Row \cup {None}]] OBVIOUS
  <2>3. npcs \in [Week -> [Npc -> Opponent \cup {None}]] OBVIOUS
  <2>4. /\ client = [p \in Player |-> client[p]]
        /\ \A p \in Player : client[p] # None => client[p].week \in Week
    OBVIOUS
  <2>5. acked \in [Week -> [Player -> Nat]] OBVIOUS
  <2>6. matched \in [Player -> [week : Week, day : Day, n : Nat]] BY <1>1
  <2> QED BY <2>1, <2>2, <2>3, <2>4, <2>5, <2>6 DEF BoardTypes
<1>3. Request BY DEF Request, Looks, Writes, Building
<1>4. ListsCurrent /\ Attempts BY <1>1 DEF ListsCurrent, Attempts
<1>5. Opponents /\ ToSave BY DEF Opponents, ToSave, OnLadder, At
<1>6. MatchesBounded BY BoardConstants DEF MatchesBounded, BoardAssumption
<1>7. ScoresKept BY DEF ScoresKept
<1> QED BY <1>2, <1>3, <1>4, <1>5, <1>6, <1>7 DEF BoardInv

\* Every step of the board keeps the invariant: the parts above together.
LEMMA BoardStep == BoardInv /\ [Next]_vars => BoardInv'
BY BoardTypesStep, RequestStep, ListsStep, AttemptsStep, OpponentsStep, ToSaveStep, MatchesStep,
   ScoresStep DEF BoardInv

\* The invariant shows the properties.
LEMMA BoardShows == BoardInv => TopCurrent /\ Ladder
<1> SUFFICES ASSUME BoardInv PROVE TopCurrent /\ Ladder
  OBVIOUS
<1> USE DEF BoardInv
<1>1. TopCurrent BY DEF TopCurrent, ListsCurrent, BoardTypes
<1>2. TypeOK BY DEF TypeOK, BoardTypes, Request
<1>3. NpcLadder
  <2> SUFFICES ASSUME At("top") \/ At("find") PROVE NpcLadder
    BY DEF NpcLadder
  <2>1. job # None /\ Complete BY DEF At, Request, Looks, Writes, Building
  <2>2. 0 \in Npc BY BoardConstants DEF BoardAssumption, Npc
  <2>3. week \notin broken => OnLadder(week) BY DEF Opponents, BoardTypes, At
  <2>4. week \notin broken => {npcs[week][n].score : n \in Npc} = Ladders
    BY <2>1, <2>2, <2>3 DEF OnLadder, Complete
  <2> QED BY <2>1, <2>4 DEF NpcLadder, Complete, Ladders
<1> QED BY <1>1, <1>2, <1>3 DEF Ladder

\* The board keeps its invariant through all requests, failed statements, restarts
\* and days (the handlers of lunjian.cpp under g_mu).
THEOREM BoardInvariant == Arena => []BoardInv
<1>1. Start => BoardInv BY BoardInit DEF Start
<1>2. BoardInv /\ [Turn]_<<part, vars, draws, teams>> => BoardInv'
  <2>1. [Turn]_<<part, vars, draws, teams>> => [Next]_vars BY DEF Turn
  <2> QED BY <2>1, BoardStep
<1> QED BY <1>1, <1>2, PTL DEF Arena

\* handle_top tells a client that its list is current only if it has the present
\* scores of all players and opponents, or a statement was reported failed but ran.
THEOREM BoardTopCurrent == Arena => []TopCurrent
<1>1. BoardInv => TopCurrent BY BoardShows
<1> QED BY <1>1, BoardInvariant, PTL

\* Attempts, points and opponents add up: no more matches than a day's attempts
\* (handle_find), no point lost of those a player was told of (handle_end), and all
\* opponents on the ladder for who looks at them (ensure_npcs).
THEOREM BoardLadder == Arena => []Ladder
<1>1. BoardInv => Ladder BY BoardShows
<1> QED BY <1>1, BoardInvariant, PTL

-----------------------------------------------------------------------------
(* The weekly pool.                                                        *)

\* What the catalogue c may draw in week w.
Fresh(c, w) ==
  [week : {w}, begin : {Pool!WeekBegin(w)}, end : {Pool!WeekEnd(w)},
   chars : Pool!PickChars(c), items : Pool!Picks(c, w)]

\* A pool q that is kept, with the catalogue c and the pin p, is but for its end a
\* draw of its week; a pool of no pin has its week's end.
Kept(c, p, q) ==
  q # None => /\ q \in Pool!PoolType /\ q.week # 0
              /\ Pool!Bare(q) \in Fresh(c, q.week)
              /\ IF p > 0 THEN q.week = p ELSE q = Pool!Bare(q)

\* What is known of the draws of c.
Known(c, known) == \A w \in DOMAIN known : known[w] \in Fresh(c, w) /\ known[w] \in Pool!PoolType

\* The last answer was given out of the pool of its week.
AnswerWeek ==
  answer # None => /\ weekPool # None /\ answer \in Instant
                   /\ pinned = 0 => weekPool.week = Pool!WeekIdAt(answer)

PoolInv ==
  Pool!TypeOK /\ Kept(catalog, pinned, weekPool) /\ Known(catalog, drawn) /\ AnswerWeek

-----------------------------------------------------------------------------
\* LunjianPool's sets are counted as all sets are.
LEMMA SameSets ==
  /\ \A S : Pool!IsFiniteSet(S) <=> IsFiniteSet(S)
  /\ \A S : Pool!Cardinality(S) = Cardinality(S)
<1>1. \A S : Pool!IsFiniteSet(S) <=> IsFiniteSet(S) BY DEF IsFiniteSet, Pool!IsFiniteSet
<1>2. \A S : Pool!Cardinality(S) = Cardinality(S) BY DEF Cardinality, Pool!Cardinality
<1> QED BY <1>1, <1>2

\* A week is a number, which is a Monday's.
LEMMA WeekNumber == \A t \in Instant :
  LET w == Pool!WeekIdAt(t) IN
  /\ w \in Nat \ {0} /\ (w + 3) % 7 = 0
  /\ w * Pool!Day - Pool!Shift <= t /\ t < w * Pool!Day - Pool!Shift + Pool!Week
<1> SUFFICES ASSUME NEW t \in Instant
             PROVE  LET w == Pool!WeekIdAt(t) IN
                    /\ w \in Nat \ {0} /\ (w + 3) % 7 = 0
                    /\ w * 6 - 1 <= t /\ t < w * 6 - 1 + 42
  BY DEF Pool!Day, Pool!Shift, Pool!Week
<1> DEFINE s == (t + 1) \div 6
           w == s - ((s + 3) % 7)
<1>1. t \in Nat /\ t >= 42 BY PoolConstants DEF Pool!PoolAssumption, Pool!Week, Pool!Day
<1>2. s \in Nat /\ s >= 7 /\ s * 6 <= t + 1 /\ t + 1 < s * 6 + 6 BY <1>1
<1>3. Pool!WeekIdAt(t) = w BY DEF Pool!WeekIdAt, Pool!Day, Pool!Shift
<1> HIDE DEF s
<1>4. (s + 3) % 7 \in 0..6 /\ (s - ((s + 3) % 7) + 3) % 7 = 0 BY <1>2
<1> QED BY <1>1, <1>2, <1>3, <1>4

\* A week begins and ends on a Monday at four.
LEMMA WeekBounds == \A w \in Nat \ {0} :
  /\ Pool!WeekBegin(w) \in Nat /\ Pool!WeekEnd(w) \in Nat
  /\ Pool!WeekEnd(w) - Pool!WeekBegin(w) = Pool!Week
  /\ (Pool!WeekBegin(w) + Pool!Shift) % Pool!Day = 0
  /\ (Pool!WeekBegin(w) + Pool!Shift) \div Pool!Day = w
BY DEF Pool!WeekBegin, Pool!WeekEnd, Pool!Week, Pool!Day, Pool!Shift

-----------------------------------------------------------------------------
\* The fixed characters are few and bear different names.
LEMMA FixedApart == \A c \in Doc :
  LET F == Pool!FixedOf(c) IN F \subseteq c.person /\ \A p \in F : \A q \in F : Shown[p] = Shown[q] => p = q
<1> SUFFICES ASSUME NEW c \in Doc, NEW p \in Pool!FixedOf(c), NEW q \in Pool!FixedOf(c), Shown[p] = Shown[q]
             PROVE  p = q
  BY DEF Pool!FixedOf
<1>1. PICK i \in DOMAIN Fixed : /\ Fixed[i] = p
                               /\ \A j \in 1..(i - 1) : Fixed[j] \in c.person => Shown[Fixed[j]] # Shown[p]
  BY DEF Pool!FixedOf
<1>2. PICK k \in DOMAIN Fixed : /\ Fixed[k] = q
                               /\ \A j \in 1..(k - 1) : Fixed[j] \in c.person => Shown[Fixed[j]] # Shown[q]
  BY DEF Pool!FixedOf
<1>3. p \in c.person /\ q \in c.person BY DEF Pool!FixedOf
<1>4. i \in Nat \ {0} /\ k \in Nat \ {0} BY PoolConstants DEF Pool!PoolAssumption
<1>5. ~(i < k) BY <1>1, <1>2, <1>3, <1>4
<1>6. ~(k < i) BY <1>1, <1>2, <1>3, <1>4
<1> QED BY <1>1, <1>2, <1>4, <1>5, <1>6

\* A finite set of characters has finitely many names, no more than characters, and
\* as many if they are different.
LEMMA NamesFinite ==
  ASSUME NEW S, IsFiniteSet(S)
  PROVE  /\ IsFiniteSet(Pool!NamesOf(S)) /\ Cardinality(Pool!NamesOf(S)) \in Nat
         /\ (\A p \in S : \A q \in S : Shown[p] = Shown[q] => p = q) =>
              Cardinality(Pool!NamesOf(S)) = Cardinality(S)
<1> DEFINE f == [p \in S |-> Shown[p]]
           N == Pool!NamesOf(S)
<1>1. f \in Surjection(S, N) BY DEF Surjection, Pool!NamesOf
<1>2. /\ IsFiniteSet(N) /\ (Cardinality(N) = Cardinality(S) <=> f \in Injection(S, N))
  BY <1>1, FS_Surjection
<1>3. (\A p \in S : \A q \in S : Shown[p] = Shown[q] => p = q) => f \in Injection(S, N)
  BY <1>1 DEF Injection, IsInjective, Surjection
<1>4. Cardinality(N) \in Nat BY <1>2, FS_CardinalityType
<1> QED BY <1>2, <1>3, <1>4

\* Of sets without a common name, or member, the numbers add up.
LEMMA Adds ==
  ASSUME NEW S, NEW T, IsFiniteSet(S), IsFiniteSet(T), S \cap T = {}
  PROVE  /\ IsFiniteSet(S \cup T) /\ Cardinality(S) \in Nat /\ Cardinality(T) \in Nat
         /\ Cardinality(S \cup T) = Cardinality(S) + Cardinality(T)
<1>1. Cardinality(S) \in Nat /\ Cardinality(T) \in Nat BY FS_CardinalityType
<1>2. IsFiniteSet(S \cup T) /\ Cardinality(S \cup T) = Cardinality(S) + Cardinality(T) - Cardinality(S \cap T)
  BY FS_Union
<1>3. Cardinality(S \cap T) = 0 BY FS_EmptySet
<1> QED BY <1>1, <1>2, <1>3

\* Of a catalogue, as many characters are drawn as are allowed or as there are
\* names, and no two share one.
LEMMA CharsFair == \A c \in Doc : \A s \in Pool!PickChars(c) :
  /\ s \subseteq c.person /\ Pool!Apart(s)
  /\ Cardinality(s) = Pool!Least(CharCount, Cardinality(Pool!NamesOf(c.person)))
<1> SUFFICES ASSUME NEW c \in Doc, NEW s \in Pool!PickChars(c)
             PROVE  /\ s \subseteq c.person /\ Pool!Apart(s)
                    /\ Cardinality(s) = Pool!Least(CharCount, Cardinality(Pool!NamesOf(c.person)))
  OBVIOUS
<1> DEFINE F == Pool!FixedOf(c)
           P == c.person
           N(S) == Pool!NamesOf(S)
           R == {p \in P : Shown[p] \notin N(F)}
<1>1. PICK T \in SUBSET R :
        /\ Pool!Apart(T) /\ Cardinality(F) + Cardinality(T) <= CharCount
        /\ Cardinality(F) + Cardinality(T) = CharCount \/ N(T) = N(R)
        /\ s = F \cup T
  BY SameSets DEF Pool!PickChars
<1>2. IsFiniteSet(P) /\ CharCount \in Nat BY PoolConstants, SameSets DEF Pool!PoolAssumption
<1>3. F \subseteq P /\ (\A p \in F : \A q \in F : Shown[p] = Shown[q] => p = q) BY FixedApart
<1>4. T \subseteq P /\ R \subseteq P OBVIOUS
<1>5. IsFiniteSet(F) /\ IsFiniteSet(T) BY <1>2, <1>3, <1>4, FS_Subset
<1>6. /\ IsFiniteSet(N(F)) /\ IsFiniteSet(N(T)) /\ IsFiniteSet(N(P))
      /\ Cardinality(N(F)) = Cardinality(F) /\ Cardinality(N(P)) \in Nat
  BY <1>2, <1>3, <1>5, NamesFinite
<1>7. Cardinality(N(T)) = Cardinality(T) BY <1>1, SameSets DEF Pool!Apart
<1>8. N(F) \cap N(T) = {} /\ F \cap T = {} BY DEF Pool!NamesOf
<1>9. N(s) = N(F) \cup N(T) BY <1>1 DEF Pool!NamesOf
<1>10. Cardinality(s) = Cardinality(F) + Cardinality(T) BY <1>1, <1>5, <1>8, Adds
<1>11. Cardinality(N(s)) = Cardinality(N(F)) + Cardinality(N(T)) BY <1>6, <1>8, <1>9, Adds
<1>12. Pool!Apart(s) BY <1>6, <1>7, <1>10, <1>11, SameSets DEF Pool!Apart
<1>13. s \subseteq P BY <1>1, <1>3, <1>4
<1>14. N(s) \subseteq N(P) BY <1>13 DEF Pool!NamesOf
<1>15. Cardinality(N(s)) <= Cardinality(N(P)) BY <1>6, <1>14, FS_Subset
<1>16. N(F) \cup N(R) = N(P) BY <1>3 DEF Pool!NamesOf
<1>20. N(T) = N(R) => N(s) = N(P) BY <1>9, <1>16
<1>17. Cardinality(s) \in Nat /\ Cardinality(N(s)) = Cardinality(s)
  BY <1>5, <1>12, <1>10, FS_CardinalityType, SameSets DEF Pool!Apart
<1>18. \/ Cardinality(s) = CharCount /\ CharCount <= Cardinality(N(P))
       \/ Cardinality(s) = Cardinality(N(P)) /\ Cardinality(s) <= CharCount
  BY <1>1, <1>10, <1>15, <1>17, <1>20
<1>19. Cardinality(s) = Pool!Least(CharCount, Cardinality(N(P)))
  BY <1>2, <1>6, <1>18 DEF Pool!Least
<1> QED BY <1>12, <1>13, <1>19

-----------------------------------------------------------------------------
\* There is a lowest star.
LEMMA LowestStar ==
  \A S \in SUBSET DOMAIN Star : S # {} =>
    Pool!Lowest(S) \in 0..6 /\ (\E i \in S : Star[i] = Pool!Lowest(S)) /\ \A i \in S : Pool!Lowest(S) <= Star[i]
<1> SUFFICES ASSUME NEW S \in SUBSET DOMAIN Star, S # {}
             PROVE  /\ Pool!Lowest(S) \in 0..6 /\ (\E i \in S : Star[i] = Pool!Lowest(S))
                    /\ \A i \in S : Pool!Lowest(S) <= Star[i]
  OBVIOUS
<1>1. \A i \in S : Star[i] \in 0..6 BY PoolConstants DEF Pool!PoolAssumption
<1> DEFINE Has(n) == \E i \in S : Star[i] = n
           V == {Star[i] : i \in S}
<1>2. \E n \in 0..6 : Has(n) /\ \A m \in 0..6 : m < n => ~Has(m)
  <2>1. Has(0) \/ Has(1) \/ Has(2) \/ Has(3) \/ Has(4) \/ Has(5) \/ Has(6)
    <3>1. PICK i \in S : TRUE OBVIOUS
    <3> QED BY <1>1, <3>1
  <2> HIDE DEF Has
  <2> QED BY <2>1
<1>3. PICK n \in 0..6 : Has(n) /\ \A m \in 0..6 : m < n => ~Has(m) BY <1>2
<1>4. n \in V /\ \A i \in S : n <= Star[i] BY <1>1, <1>3
<1>5. Pool!Lowest(S) \in V /\ \A i \in S : Pool!Lowest(S) <= Star[i] BY <1>4 DEF Pool!Lowest
<1> QED BY <1>1, <1>5

\* What check_category of the tests asks of one kind's items.
CategoryFair(S, f) ==
  /\ f.featured \in SUBSET S /\ f.plain \in SUBSET S /\ f.featured \cap f.plain = {}
  /\ f = [featured |-> f.featured, plain |-> f.plain]
  /\ Cardinality(f.featured) <= GradedMax /\ Cardinality(f.plain) <= PlainCount
  /\ \A i \in f.featured : \A j \in f.featured : Star[i] = Star[j]
  /\ \A i \in f.featured : \E j \in S : Star[j] < Star[i]
  /\ \A i \in f.plain : \A j \in S : Star[i] <= Star[j]

\* What is drawn of one kind is fair.
LEMMA ItemsFair ==
  \A S \in SUBSET DOMAIN Star : S # {} => \A f \in Pool!PickCategory(S) : CategoryFair(S, f)
<1> SUFFICES ASSUME NEW S \in SUBSET DOMAIN Star, S # {}, NEW f \in Pool!PickCategory(S)
             PROVE  CategoryFair(S, f)
  OBVIOUS
<1> DEFINE low == Pool!Lowest(S)
           A == f.featured
           B == f.plain
           plain == Pool!Graded(S, low)
<1>1. /\ low \in 0..6 /\ (\E i \in S : Star[i] = low) /\ (\A i \in S : low <= Star[i])
  BY LowestStar
<1>2. \A i \in S : Star[i] \in 0..6 BY PoolConstants DEF Pool!PoolAssumption
<1>3. GradedMax \in Nat /\ PlainCount \in Nat /\ IsFiniteSet(S)
  BY PoolConstants, SameSets, FS_Subset DEF Pool!PoolAssumption
<1>4. /\ f = [featured |-> A, plain |-> B]
      /\ B \in SUBSET plain /\ Cardinality(B) = Pool!Least(PlainCount, Cardinality(plain))
      /\ A = {} \/ \E g \in Pool!Grades(S) : A \in SUBSET Pool!Graded(S, g) /\ Cardinality(A) \in 1..GradedMax
  <2>1. CASE Pool!Grades(S) = {} BY <2>1, SameSets DEF Pool!PickCategory
  <2>2. CASE Pool!Grades(S) # {} BY <2>2, SameSets DEF Pool!PickCategory
  <2> QED BY <2>1, <2>2
<1>5. \A i \in plain : i \in S /\ Star[i] = low BY DEF Pool!Graded
<1>6. Cardinality(B) <= PlainCount
  <2>1. IsFiniteSet(plain) BY <1>3, FS_Subset DEF Pool!Graded
  <2>2. Cardinality(plain) \in Nat BY <2>1, FS_CardinalityType
  <2> QED BY <1>3, <1>4, <2>2 DEF Pool!Least
<1>7. B \subseteq S /\ \A i \in B : \A j \in S : Star[i] <= Star[j] BY <1>1, <1>4, <1>5
<1>8. CASE A = {}
  <2>1. Cardinality(A) = 0 BY <1>8, FS_EmptySet
  <2>2. Cardinality(A) <= GradedMax BY <1>3, <2>1
  <2> QED BY <1>4, <1>6, <1>7, <1>8, <2>2 DEF CategoryFair
<1>9. CASE \E g \in Pool!Grades(S) : A \in SUBSET Pool!Graded(S, g) /\ Cardinality(A) \in 1..GradedMax
  <2>1. PICK g \in Pool!Grades(S) : A \in SUBSET Pool!Graded(S, g) /\ Cardinality(A) \in 1..GradedMax
    BY <1>9
  <2>2. g \in 1..6 /\ g # low BY DEF Pool!Grades
  <2>3. \A i \in A : i \in S /\ Star[i] = g BY <2>1 DEF Pool!Graded
  <2>4. Cardinality(A) <= GradedMax BY <1>3, <2>1
  <2>5. A \cap B = {} BY <1>4, <1>5, <2>2, <2>3
  <2>6. \A i \in A : \E j \in S : Star[j] < Star[i]
    <3>1. \A i \in A : low <= g BY <1>1, <2>3
    <3> QED BY <1>1, <2>2, <2>3, <3>1
  <2> QED BY <1>4, <1>6, <1>7, <2>3, <2>4, <2>5, <2>6 DEF CategoryFair
<1> QED BY <1>4, <1>8, <1>9

-----------------------------------------------------------------------------
\* The draws of a week are pools.
LEMMA FreshPools == \A c \in Doc : \A w \in Nat \ {0} : Fresh(c, w) \subseteq Pool!PoolType
<1> SUFFICES ASSUME NEW c \in Doc, NEW w \in Nat \ {0}, NEW q \in Fresh(c, w)
             PROVE  q \in Pool!PoolType
  OBVIOUS
<1>1. /\ q = [week |-> q.week, begin |-> q.begin, end |-> q.end, chars |-> q.chars, items |-> q.items]
      /\ q.week = w /\ q.begin = Pool!WeekBegin(w) /\ q.end = Pool!WeekEnd(w)
      /\ q.chars \in Pool!PickChars(c) /\ q.items \in Pool!Picks(c, w)
  BY DEF Fresh
<1>2. q.week \in Nat /\ q.begin \in Nat /\ q.end \in Nat BY <1>1, WeekBounds
<1>3. c.person \subseteq Person /\ c.item \in [Kind -> SUBSET DOMAIN Star]
      /\ \A k \in Kind : c.item[k] # {}
  BY PoolConstants DEF Pool!PoolAssumption
<1>4. q.chars \subseteq Person BY <1>1, <1>3, CharsFair
<1>5. q.items \in Pool!Picked
  <2>1. CASE w = FirstWeek
    BY <1>1, <2>1, PoolConstants DEF Pool!Picks, Pool!Picked, Pool!PoolAssumption
  <2>2. CASE w # FirstWeek
    <3>1. q.items = [k \in Kind |-> q.items[k]] /\ \A k \in Kind : q.items[k] \in Pool!PickCategory(c.item[k])
      BY <1>1, <2>2 DEF Pool!Picks
    <3>2. \A k \in Kind : q.items[k] \in [featured : SUBSET DOMAIN Star, plain : SUBSET DOMAIN Star]
      <4> SUFFICES ASSUME NEW k \in Kind
                   PROVE  q.items[k] \in [featured : SUBSET DOMAIN Star, plain : SUBSET DOMAIN Star]
        OBVIOUS
      <4>1. c.item[k] \in SUBSET DOMAIN Star /\ c.item[k] # {} BY <1>3
      <4>2. CategoryFair(c.item[k], q.items[k]) BY <3>1, <4>1, ItemsFair
      <4> QED BY <4>1, <4>2 DEF CategoryFair
    <3> QED BY <3>1, <3>2 DEF Pool!Picked
  <2> QED BY <2>1, <2>2
<1> QED BY <1>1, <1>2, <1>4, <1>5 DEF Pool!PoolType

\* The end of a pinned period is written.
LEMMA EndWritten == \A d \in Pool!PoolType : \A e \in Nat :
  LET x == [d EXCEPT !.end = e] IN
  /\ x \in Pool!PoolType /\ x.end = e /\ x.week = d.week /\ x.begin = d.begin
  /\ x.chars = d.chars /\ x.items = d.items
  /\ e = d.end => x = d
  /\ \A g \in Nat : [x EXCEPT !.end = g] = [d EXCEPT !.end = g]
BY DEF Pool!PoolType

\* refresh_pool keeps or draws a pool of the wanted week.
LEMMA Refreshed ==
  ASSUME now \in Instant, NEW c \in Doc, NEW p \in Pin \cup {0}, NEW q, NEW known,
         Kept(c, p, q), Known(c, known), NEW r \in Pool!Refreshes(c, p, q, known)
  PROVE  /\ r # None /\ Kept(c, p, r) /\ Known(c, Pool!Remember(r, known))
         /\ r.week = Pool!WantedWeek(p)
<1> DEFINE w == Pool!WantedWeek(p)
<1>1. w \in Nat \ {0} /\ (p > 0 => w = p) /\ p \in Nat
  BY WeekNumber, PoolConstants DEF Pool!WantedWeek, Pool!PoolAssumption
<1>2. None \notin Pool!PoolType BY PoolConstants DEF Pool!PoolAssumption
<1>3. Kept(c, p, r) /\ r # None /\ r.week = w
  <2>1. CASE q # None /\ q.week = w /\ q.chars # {}
    BY <2>1 DEF Pool!Refreshes
  <2>2. CASE ~(q # None /\ q.week = w /\ q.chars # {})
    <3>1. PICK d \in Pool!Draws(c, w, known) :
            r = IF p > 0 /\ Pool!WeekEnd(Pool!WeekIdAt(now)) > d.end
                THEN [d EXCEPT !.end = Pool!WeekEnd(Pool!WeekIdAt(now))] ELSE d
      BY <2>2 DEF Pool!Refreshes
    <3>2. d \in Fresh(c, w) /\ d \in Pool!PoolType
      <4>1. CASE w \in DOMAIN known BY <4>1 DEF Pool!Draws, Known
      <4>2. CASE w \notin DOMAIN known BY <1>1, <4>2, FreshPools DEF Pool!Draws, Fresh
      <4> QED BY <4>1, <4>2
    <3>3. d.week = w /\ d.end = Pool!WeekEnd(w) BY <3>2 DEF Fresh
    <3>4. Pool!WeekEnd(Pool!WeekIdAt(now)) \in Nat BY WeekNumber, WeekBounds
    <3>9. Pool!WeekEnd(w) \in Nat BY <1>1, WeekBounds
    <3>5. Pool!Bare(d) = d BY <3>2, <3>3, <3>9, EndWritten DEF Pool!Bare
    <3>6. CASE r = d BY <1>1, <1>2, <3>2, <3>3, <3>5, <3>6 DEF Kept
    <3>7. CASE p > 0 /\ r = [d EXCEPT !.end = Pool!WeekEnd(Pool!WeekIdAt(now))]
      <4>1. /\ r \in Pool!PoolType /\ r.week = w
            /\ [r EXCEPT !.end = Pool!WeekEnd(w)] = [d EXCEPT !.end = Pool!WeekEnd(w)]
        BY <1>1, <3>2, <3>3, <3>4, <3>7, EndWritten, WeekBounds
      <4>2. Pool!Bare(r) = d BY <3>3, <3>5, <4>1 DEF Pool!Bare
      <4> QED BY <1>1, <1>2, <3>2, <3>7, <4>1, <4>2 DEF Kept
    <3> QED BY <3>1, <3>6, <3>7
  <2> QED BY <2>1, <2>2
<1>4. Pool!Bare(r) \in Pool!PoolType /\ Pool!Bare(r) \in Fresh(c, w)
  BY <1>1, <1>3, FreshPools DEF Kept
<1>5. Known(c, Pool!Remember(r, known))
  BY <1>3, <1>4 DEF Known, Pool!Remember
<1> QED BY <1>3, <1>5

\* A pool of the week that was kept or drawn is fair.
LEMMA KeptFair ==
  ASSUME catalog \in Doc, weekPool # None, weekPool \in Pool!PoolType,
         Pool!Bare(weekPool) \in Fresh(catalog, weekPool.week)
  PROVE  Pool!DrawIsFair
<1> DEFINE b == Pool!Bare(weekPool)
<1>1. Pool!WeekEnd(weekPool.week) \in Nat
  BY DEF Pool!PoolType, Pool!WeekEnd, Pool!WeekBegin, Pool!Week, Pool!Day, Pool!Shift
<1>2. b.chars = weekPool.chars /\ b.items = weekPool.items BY <1>1, EndWritten DEF Pool!Bare
<1>3. weekPool.chars \in Pool!PickChars(catalog) /\ weekPool.items \in Pool!Picks(catalog, weekPool.week)
  BY <1>2 DEF Fresh
<1>4. /\ Pool!Apart(weekPool.chars)
      /\ Cardinality(weekPool.chars) = Pool!Least(CharCount, Cardinality(Pool!NamesOf(catalog.person)))
  BY <1>3, CharsFair
<1>5. \A k \in Kind : catalog.item[k] \in SUBSET DOMAIN Star /\ catalog.item[k] # {}
  BY PoolConstants DEF Pool!PoolAssumption
<1>6. weekPool.week # FirstWeek => \A k \in Kind : CategoryFair(catalog.item[k], weekPool.items[k])
  <2> SUFFICES ASSUME weekPool.week # FirstWeek, NEW k \in Kind
               PROVE  CategoryFair(catalog.item[k], weekPool.items[k])
    OBVIOUS
  <2>1. weekPool.items[k] \in Pool!PickCategory(catalog.item[k]) BY <1>3 DEF Pool!Picks
  <2> QED BY <1>5, <2>1, ItemsFair
<1> QED BY <1>4, <1>6, SameSets DEF Pool!DrawIsFair, CategoryFair

\* An answer is of the week it is given in.
LEMMA AnswerInWeek == PoolInv => Pool!AnswerOfTheWeek
<1> SUFFICES ASSUME PoolInv, answer # None PROVE Pool!AnswerOfTheWeek
  BY DEF Pool!AnswerOfTheWeek
<1>1. CASE pinned > 0 BY <1>1 DEF PoolInv, Kept, AnswerWeek, Pool!AnswerOfTheWeek
<1>2. CASE ~(pinned > 0)
  <2> DEFINE w == Pool!WeekIdAt(answer)
  <2>1. pinned = 0 BY <1>2, PoolConstants DEF PoolInv, Pool!TypeOK, Pool!PoolAssumption
  <2>2. /\ weekPool # None /\ answer \in Instant /\ weekPool.week = w
        /\ weekPool = Pool!Bare(weekPool) /\ Pool!Bare(weekPool) \in Fresh(catalog, w)
    BY <1>2, <2>1 DEF PoolInv, Kept, AnswerWeek
  <2>3. weekPool.begin = Pool!WeekBegin(w) /\ weekPool.end = Pool!WeekEnd(w) BY <2>2 DEF Fresh
  <2>4. /\ w \in Nat \ {0} /\ (w + 3) % 7 = 0
        /\ w * Pool!Day - Pool!Shift <= answer /\ answer < w * Pool!Day - Pool!Shift + Pool!Week
    BY <2>2, WeekNumber
  <2>5. Pool!WeekBegin(w) <= answer /\ answer < Pool!WeekEnd(w)
    BY <2>4 DEF Pool!WeekBegin, Pool!WeekEnd
  <2>6. /\ Pool!WeekEnd(w) - Pool!WeekBegin(w) = Pool!Week
        /\ (Pool!WeekBegin(w) + Pool!Shift) % Pool!Day = 0
        /\ (Pool!WeekBegin(w) + Pool!Shift) \div Pool!Day = w
    BY <2>4, WeekBounds
  <2> HIDE DEF w
  <2> QED BY <1>2, <2>3, <2>4, <2>5, <2>6 DEF Pool!AnswerOfTheWeek
<1> QED BY <1>1, <1>2

\* The invariant shows the property.
LEMMA PoolShows == PoolInv => Pool!PoolOfWeek
<1>1. PoolInv => Pool!DrawIsFair
  <2> SUFFICES ASSUME PoolInv, weekPool # None PROVE Pool!DrawIsFair BY DEF Pool!DrawIsFair
  <2> QED BY KeptFair DEF PoolInv, Kept, Pool!TypeOK
<1> QED BY <1>1, AnswerInWeek DEF Pool!PoolOfWeek, PoolInv

\* The process starts without a pool.
LEMMA PoolInit == Pool!Init => PoolInv
<1> SUFFICES ASSUME Pool!Init PROVE PoolInv OBVIOUS
<1>1. boots \in 0..MaxBoots BY PoolConstants DEF Pool!Init, Pool!PoolAssumption
<1>2. poolReady \in BOOLEAN /\ ~poolReady BY DEF Pool!Init
<1>3. DOMAIN drawn = {} BY DEF Pool!Init
<1>4. Pool!TypeOK BY <1>1, <1>2, <1>3 DEF Pool!Init, Pool!TypeOK
<1> QED BY <1>3, <1>4 DEF Pool!Init, PoolInv, Kept, Known, AnswerWeek

\* Every step of the process or the operator keeps the invariant.
LEMMA PoolStep == PoolInv /\ [Pool!Next]_draws => PoolInv'
<1> SUFFICES ASSUME PoolInv, [Pool!Next]_draws PROVE PoolInv' OBVIOUS
<1>1. CASE Pool!Boot
  <2> DEFINE known == IF doc = catalog THEN drawn ELSE << >>
             pools == Pool!Refreshes(doc, pinFile, None, known)
  <2>1. /\ boots < MaxBoots /\ boots' = boots + 1 /\ catalog' = doc /\ pinned' = pinFile
        /\ answer' = None /\ now' = now /\ doc' = doc /\ pinFile' = pinFile
        /\ \/ poolReady' = FALSE /\ weekPool' = None /\ drawn' = known
           \/ \E q \in pools : poolReady' = TRUE /\ weekPool' = q /\ drawn' = Pool!Remember(q, known)
    BY <1>1 DEF Pool!Boot
  <2>2. boots' \in 0..MaxBoots BY <2>1, PoolConstants DEF PoolInv, Pool!TypeOK, Pool!PoolAssumption
  <2>3. Known(doc, known)
    <3>1. CASE doc = catalog BY <3>1 DEF PoolInv
    <3>2. CASE doc # catalog BY <3>2 DEF Known
    <3> QED BY <3>1, <3>2
  <2>4. Kept(doc, pinFile, None) BY DEF Kept
  <2>5. Kept(catalog, pinned, weekPool)' /\ Known(catalog, drawn)' /\ (poolReady' => weekPool' # None)
        /\ poolReady' \in BOOLEAN
    <3>1. CASE poolReady' = FALSE /\ weekPool' = None /\ drawn' = known
      BY <2>1, <2>3, <2>4, <3>1 DEF Kept, Known, Fresh
    <3>2. CASE \E q \in pools : poolReady' = TRUE /\ weekPool' = q /\ drawn' = Pool!Remember(q, known)
      <4>1. PICK q \in pools : poolReady' = TRUE /\ weekPool' = q /\ drawn' = Pool!Remember(q, known)
        BY <3>2
      <4>2. doc \in Doc /\ pinFile \in Pin \cup {0} /\ now \in Instant BY DEF PoolInv, Pool!TypeOK
      <4>3. q # None /\ Kept(doc, pinFile, q) /\ Known(doc, Pool!Remember(q, known))
        BY <2>3, <2>4, <4>2, Refreshed
      <4> QED BY <2>1, <4>1, <4>3
    <3> QED BY <2>1, <3>1, <3>2
  <2> HIDE DEF known, pools
  <2> QED BY <2>1, <2>2, <2>5 DEF PoolInv, Pool!TypeOK, Kept, Known, AnswerWeek
<1>2. CASE Pool!Request
  <2>1. PICK q \in Pool!Refreshes(catalog, pinned, weekPool, drawn) :
          weekPool' = q /\ drawn' = Pool!Remember(q, drawn) /\ answer' = now
    BY <1>2 DEF Pool!Request
  <2>2. UNCHANGED <<now, doc, pinFile, boots, poolReady, catalog, pinned>> BY <1>2 DEF Pool!Request
  <2>3. /\ q # None /\ Kept(catalog, pinned, q) /\ Known(catalog, Pool!Remember(q, drawn))
        /\ q.week = Pool!WantedWeek(pinned)
    BY Refreshed DEF PoolInv, Pool!TypeOK
  <2>4. Kept(catalog, pinned, weekPool)' /\ Known(catalog, drawn)' BY <2>1, <2>2, <2>3
  <2>5. AnswerWeek' BY <2>1, <2>2, <2>3 DEF AnswerWeek, Pool!WantedWeek, PoolInv, Pool!TypeOK
  <2>6. poolReady' \in BOOLEAN BY <2>2 DEF PoolInv, Pool!TypeOK
  <2>7. Pool!TypeOK' BY <2>1, <2>2, <2>3, <2>4, <2>6 DEF PoolInv, Pool!TypeOK, Kept, Known
  <2> QED BY <2>4, <2>5, <2>7 DEF PoolInv
<1>3. CASE Pool!Tick
  BY <1>3 DEF Pool!Tick, PoolInv, Pool!TypeOK, AnswerWeek
<1>4. CASE \E d \in Doc : Pool!ReplaceDoc(d)
  BY <1>4 DEF Pool!ReplaceDoc, PoolInv, Pool!TypeOK, AnswerWeek
<1>5. CASE \E w \in Pin \cup {0} : Pool!SetPin(w)
  BY <1>5 DEF Pool!SetPin, PoolInv, Pool!TypeOK, AnswerWeek
<1>6. CASE UNCHANGED draws
  BY <1>6 DEF draws, PoolInv, Pool!TypeOK, AnswerWeek
<1> QED BY <1>1, <1>2, <1>3, <1>4, <1>5, <1>6 DEF Pool!Next

\* The process keeps its invariant about the pool, whatever the clock, the operator
\* and restarts do (refresh_pool and init).
THEOREM PoolInvariant == Arena => []PoolInv
<1>1. Start => PoolInv BY PoolInit DEF Start
<1>2. PoolInv /\ [Turn]_<<part, vars, draws, teams>> => PoolInv'
  <2>1. [Turn]_<<part, vars, draws, teams>> => [Pool!Next]_draws BY DEF Turn
  <2> QED BY <2>1, PoolStep
<1> QED BY <1>1, <1>2, PTL DEF Arena

\* A request is answered from the pool of the week it is asked in, and a pool is a
\* fair draw of the catalogue (refresh_pool and init).
THEOREM PoolWeek == Arena => []PoolOfWeek
<1>1. PoolInv => PoolOfWeek BY PoolShows DEF PoolOfWeek
<1> QED BY <1>1, PoolInvariant, PTL

-----------------------------------------------------------------------------
(* The team.                                                               *)

\* LunjianTeam's sets are counted as all sets are.
LEMMA SameCount == \A S : Team!Cardinality(S) = Cardinality(S)
BY DEF Cardinality, Team!Cardinality

\* There are n numbers from 1 to n.
LEMMA Counts == \A n \in Nat :
  /\ IsFiniteSet(1..n) /\ Cardinality(1..n) = n
  /\ IsFiniteSet(0..(n - 1)) /\ Cardinality(0..(n - 1)) = n
<1> SUFFICES ASSUME NEW n \in Nat
             PROVE  /\ IsFiniteSet(1..n) /\ Cardinality(1..n) = n
                    /\ IsFiniteSet(0..(n - 1)) /\ Cardinality(0..(n - 1)) = n
  OBVIOUS
<1> DEFINE m == n - 1
<1>1. n \in Int /\ m \in Int /\ 0 \in Int /\ 1 \in Int OBVIOUS
<1>2. IsFiniteSet(1..n) /\ Cardinality(1..n) = IF 1 > n THEN 0 ELSE n - 1 + 1 BY <1>1, FS_Interval
<1> HIDE DEF m
<1>3. IsFiniteSet(0..m) /\ Cardinality(0..m) = IF 0 > m THEN 0 ELSE m - 0 + 1 BY <1>1, FS_Interval
<1>4. Cardinality(0..m) = n BY <1>3 DEF m
<1>5. Cardinality(1..n) = n BY <1>2
<1> QED BY <1>2, <1>3, <1>4, <1>5 DEF m

\* A finite set of numbers has a first, a second and so on to the last.
LEMMA NthOf ==
  ASSUME NEW I, I \subseteq Nat, IsFiniteSet(I)
  PROVE  /\ Cardinality(I) \in Nat
         /\ \A n \in 0..(Cardinality(I) - 1) : Team!Nth(I, n) \in I
         /\ \A i \in I : \E n \in 0..(Cardinality(I) - 1) : Team!Nth(I, n) = i
         /\ \A m, n \in 0..(Cardinality(I) - 1) : Team!Nth(I, m) = Team!Nth(I, n) => m = n
         /\ I # {} => Team!Nth(I, 0) \in I /\ \A j \in I : ~(j < Team!Nth(I, 0))
<1> DEFINE Below(i) == {j \in I : j < i}
           N == Cardinality(I)
           R == 0..(N - 1)
           f == [i \in I |-> Cardinality(Below(i))]
<1>1. N \in Nat BY FS_CardinalityType
<1>2. \A i \in I : IsFiniteSet(Below(i)) /\ Cardinality(Below(i)) \in R
  <2> SUFFICES ASSUME NEW i \in I PROVE IsFiniteSet(Below(i)) /\ Cardinality(Below(i)) \in R
    OBVIOUS
  <2>1. IsFiniteSet(I \ {i}) /\ Cardinality(I \ {i}) = N - 1 BY FS_RemoveElement
  <2>2. Below(i) \in SUBSET (I \ {i}) OBVIOUS
  <2>3. IsFiniteSet(Below(i)) /\ Cardinality(Below(i)) <= N - 1 BY <2>1, <2>2, FS_Subset
  <2>4. Cardinality(Below(i)) \in Nat BY <2>3, FS_CardinalityType
  <2> QED BY <1>1, <2>3, <2>4
<1>3. \A i, k \in I : i < k => Cardinality(Below(i)) < Cardinality(Below(k))
  <2> SUFFICES ASSUME NEW i \in I, NEW k \in I, i < k
               PROVE  Cardinality(Below(i)) < Cardinality(Below(k))
    OBVIOUS
  <2>1. IsFiniteSet(Below(i) \cup {i}) /\ Cardinality(Below(i) \cup {i}) = Cardinality(Below(i)) + 1
    BY <1>2, FS_AddElement
  <2>2. i \in Nat /\ k \in Nat /\ \A j \in I : j \in Nat OBVIOUS
  <2>4. \A j \in Below(i) \cup {i} : j \in I /\ j < k BY <2>2
  <2>5. Below(i) \cup {i} \in SUBSET Below(k) BY <2>4
  <2>3. Cardinality(Below(i) \cup {i}) <= Cardinality(Below(k)) BY <1>2, <2>5, FS_Subset
  <2> HIDE DEF Below
  <2> QED BY <1>2, <2>1, <2>3
<1>4. f \in Injection(I, R)
  <2>1. f \in [I -> R] BY <1>2
  <2>2. \A i, k \in I : f[i] = f[k] => i = k
    <3> HIDE DEF Below
    <3> QED BY <1>2, <1>3
  <2> HIDE DEF f
  <2> QED BY <2>1, <2>2 DEF Injection, IsInjective
<1>5. IsFiniteSet(R) /\ Cardinality(R) = N BY <1>1, Counts
<1>6. f \in Surjection(I, R) BY <1>4, <1>5, FS_Injection
<1>7. \A n \in R : Team!Nth(I, n) \in I /\ Cardinality(Below(Team!Nth(I, n))) = n
  <2> SUFFICES ASSUME NEW n \in R
               PROVE  Team!Nth(I, n) \in I /\ Cardinality(Below(Team!Nth(I, n))) = n
    OBVIOUS
  <2>1. \E i \in I : Cardinality(Below(i)) = n BY <1>6 DEF Surjection
  <2> QED BY <2>1, SameCount DEF Team!Nth
<1>8. \A i \in I : \E n \in R : Team!Nth(I, n) = i
  <2> SUFFICES ASSUME NEW i \in I PROVE \E n \in R : Team!Nth(I, n) = i OBVIOUS
  <2> DEFINE k == Team!Nth(I, Cardinality(Below(i)))
  <2>1. k \in I /\ Cardinality(Below(k)) = Cardinality(Below(i)) BY <1>2, <1>7
  <2> HIDE DEF k, Below
  <2>2. k = i BY <1>2, <1>3, <2>1
  <2> QED BY <1>2, <2>2 DEF k
<1>9. \A m, n \in R : Team!Nth(I, m) = Team!Nth(I, n) => m = n BY <1>7
<1>10. I # {} => Team!Nth(I, 0) \in I /\ \A j \in I : ~(j < Team!Nth(I, 0))
  <2> SUFFICES ASSUME I # {} PROVE Team!Nth(I, 0) \in I /\ \A j \in I : ~(j < Team!Nth(I, 0))
    OBVIOUS
  <2>1. N # 0 BY FS_EmptySet
  <2>2. 0 \in R BY <1>1, <2>1
  <2>3. Team!Nth(I, 0) \in I /\ Cardinality(Below(Team!Nth(I, 0))) = 0 BY <1>7, <2>2
  <2>4. Below(Team!Nth(I, 0)) = {} BY <1>2, <2>3, FS_EmptySet
  <2> QED BY <2>3, <2>4
<1> QED BY <1>1, <1>7, <1>8, <1>9, <1>10

\* The numbers of a sequence are finitely many.
LEMMA Numbers ==
  ASSUME NEW T, NEW s \in Seq(T), NEW I \in SUBSET DOMAIN s
  PROVE  /\ I \subseteq Nat /\ IsFiniteSet(I)
         /\ Cardinality(I) \in Nat /\ Cardinality(I) <= Len(s)
<1>1. DOMAIN s = 1..Len(s) /\ Len(s) \in Nat OBVIOUS
<1>2. IsFiniteSet(DOMAIN s) /\ Cardinality(DOMAIN s) = Len(s) BY <1>1, Counts
<1>3. IsFiniteSet(I) /\ Cardinality(I) <= Len(s) BY <1>2, FS_Subset
<1> QED BY <1>1, <1>3, FS_CardinalityType

\* What is picked is what stands at the numbers, each once.
LEMMA PickOf ==
  ASSUME NEW T, NEW s \in Seq(T), NEW I \in SUBSET DOMAIN s
  PROVE  LET r == Team!Pick(s, I) IN
         /\ r \in Seq(T) /\ Len(r) = Cardinality(I) /\ DOMAIN r = 1..Cardinality(I)
         /\ Cardinality(I) \in Nat /\ Len(r) <= Len(s)
         /\ \A n \in DOMAIN r : \E i \in I : r[n] = s[i]
         /\ \A i \in I : \E n \in DOMAIN r : r[n] = s[i]
         /\ (\A i, k \in I : s[i] = s[k] => i = k) => Team!Distinct(r)
<1> DEFINE r == Team!Pick(s, I)
           N == Cardinality(I)
<1>1. /\ I \subseteq Nat /\ IsFiniteSet(I) /\ N \in Nat /\ N <= Len(s) BY Numbers
<1>2. /\ \A n \in 0..(N - 1) : Team!Nth(I, n) \in I
      /\ \A i \in I : \E n \in 0..(N - 1) : Team!Nth(I, n) = i
      /\ \A m, n \in 0..(N - 1) : Team!Nth(I, m) = Team!Nth(I, n) => m = n
  BY <1>1, NthOf
<1>3. r = [n \in 1..N |-> s[Team!Nth(I, n - 1)]] BY SameCount DEF Team!Pick
<1> HIDE DEF r, N
<1>4. DOMAIN r = 1..N /\ \A n \in 1..N : n - 1 \in 0..(N - 1) /\ r[n] = s[Team!Nth(I, n - 1)]
  BY <1>1, <1>3
<1>5. \A n \in DOMAIN r : Team!Nth(I, n - 1) \in I /\ r[n] = s[Team!Nth(I, n - 1)] BY <1>2, <1>4
<1>6. r \in Seq(T) /\ Len(r) = N
  <2>1. \A n \in 1..N : s[Team!Nth(I, n - 1)] \in T BY <1>2, <1>4
  <2> QED BY <1>1, <1>3, <2>1
<1>7. \A i \in I : \E n \in DOMAIN r : r[n] = s[i]
  <2> SUFFICES ASSUME NEW i \in I PROVE \E n \in DOMAIN r : r[n] = s[i] OBVIOUS
  <2>1. PICK m \in 0..(N - 1) : Team!Nth(I, m) = i BY <1>2
  <2>2. m + 1 \in 1..N /\ (m + 1) - 1 = m BY <1>1
  <2> QED BY <1>4, <2>1, <2>2
<1>8. (\A i, k \in I : s[i] = s[k] => i = k) => Team!Distinct(r)
  <2> SUFFICES ASSUME \A i, k \in I : s[i] = s[k] => i = k,
                      NEW m \in DOMAIN r, NEW n \in DOMAIN r, r[m] = r[n]
               PROVE  m = n
    BY DEF Team!Distinct
  <2>1. Team!Nth(I, m - 1) = Team!Nth(I, n - 1) BY <1>5
  <2>2. m - 1 = n - 1 BY <1>2, <1>4, <2>1
  <2>3. m \in Nat /\ n \in Nat BY <1>1, <1>4
  <2> QED BY <2>2, <2>3
<1> QED BY <1>1, <1>4, <1>5, <1>6, <1>7, <1>8 DEF r, N

\* What is picked of different things is different.
LEMMA PickDistinct ==
  ASSUME NEW T, NEW s \in Seq(T), Team!Distinct(s), NEW I \in SUBSET DOMAIN s
  PROVE  Team!Distinct(Team!Pick(s, I))
<1>1. \A i, k \in I : s[i] = s[k] => i = k BY DEF Team!Distinct
<1> QED BY <1>1, PickOf

\* Where something stands in a sequence.
LEMMA IndexOf ==
  ASSUME NEW T, NEW s \in Seq(T)
  PROVE  /\ \A x \in Team!Elements(s) : Team!Index(s, x) \in DOMAIN s /\ s[Team!Index(s, x)] = x
         /\ Team!Distinct(s) => \A i \in DOMAIN s : Team!Index(s, s[i]) = i
<1>1. \A x \in Team!Elements(s) : Team!Index(s, x) \in DOMAIN s /\ s[Team!Index(s, x)] = x
  BY DEF Team!Elements, Team!Index
<1>2. \A i \in DOMAIN s : s[i] \in Team!Elements(s) BY DEF Team!Elements
<1> QED BY <1>1, <1>2 DEF Team!Distinct

\* A sequence has no more elements than places, and as many if none comes twice.
LEMMA CountOf ==
  ASSUME NEW T, NEW s \in Seq(T)
  PROVE  /\ IsFiniteSet(Team!Elements(s)) /\ Cardinality(Team!Elements(s)) \in Nat
         /\ Cardinality(Team!Elements(s)) <= Len(s)
         /\ Team!Distinct(s) => Cardinality(Team!Elements(s)) = Len(s)
<1> DEFINE E == Team!Elements(s)
<1>5. DOMAIN s = 1..Len(s) /\ Len(s) \in Nat OBVIOUS
<1>1. IsFiniteSet(DOMAIN s) /\ Cardinality(DOMAIN s) = Len(s) BY <1>5, Counts
<1>2. s \in Surjection(DOMAIN s, E) BY DEF Surjection, Team!Elements
<1>3. /\ IsFiniteSet(E) /\ Cardinality(E) <= Len(s)
      /\ Cardinality(E) = Len(s) <=> s \in Injection(DOMAIN s, E)
  BY <1>1, <1>2, FS_Surjection
<1>4. Team!Distinct(s) => s \in Injection(DOMAIN s, E)
  BY <1>2 DEF Team!Distinct, Injection, IsInjective, Surjection
<1> QED BY <1>3, <1>4, FS_CardinalityType

-----------------------------------------------------------------------------
\* What a pool is.
LEMMA PoolArts ==
  ASSUME pool \in Pools, NEW a \in Team!Art
  PROVE  /\ pool[a] \in Seq(KungFu) /\ Team!Distinct(pool[a])
         /\ Team!Elements(pool[a]) \subseteq KungFu /\ 0 \notin Team!Elements(pool[a])
         /\ KungFu \subseteq Nat \ {0} /\ Team!Distinct(pool[a])
<1>1. pool[a] \in Seq(KungFu) /\ Team!Distinct(pool[a]) /\ KungFu \subseteq Nat \ {0}
  BY TeamConstants DEF Team!TeamAssumption
<1>2. Team!Elements(pool[a]) \subseteq KungFu BY <1>1 DEF Team!Elements
<1> QED BY <1>1, <1>2

\* The arts f of the team T, of the kind a: of the pool, one of its own for every
\* member, unless the pool has no more.
Shared(f, a, T) ==
  /\ f \in [Char -> Team!Elements(pool[a]) \cup {0}]
  /\ \A c \in Char : f[c] # 0 => c \in T
  /\ \A c, d \in Char : f[c] # 0 /\ f[c] = f[d] => c = d
  /\ \A c \in T : f[c] = 0 => \A k \in Team!Elements(pool[a]) : \E d \in Char : f[d] = k

\* The first pass of ensure_loadout_kungfu leaves everybody his own art or none.
LEMMA KeepsOwn ==
  ASSUME pool \in Pools, NEW L \in Team!Loadout, NEW a \in Team!Art
  PROVE  LET kept == Team!Keeps(L, a) IN
         /\ kept \in [Char -> Team!Elements(pool[a]) \cup {0}]
         /\ \A c \in Char : kept[c] # 0 => c \in Team!Team(L)
         /\ \A c, d \in Char : kept[c] # 0 /\ kept[c] = kept[d] => c = d
         /\ \A c \in Char : kept[c] # 0 => kept[c] = L[a][c]
<1> DEFINE kept == Team!Keeps(L, a)
           I(c) == Team!Index(L.chars, c)
<1>1. kept = [c \in Char |->
         IF /\ c \in Team!Team(L) /\ Team!InPool(a, L[a][c])
            /\ \A i \in 1..(I(c) - 1) : L[a][L.chars[i]] # L[a][c]
         THEN L[a][c] ELSE 0]
  BY DEF Team!Keeps
<1>2. \A c \in Char : \/ kept[c] = 0
                      \/ /\ c \in Team!Team(L) /\ Team!InPool(a, L[a][c]) /\ kept[c] = L[a][c]
                         /\ \A i \in 1..(I(c) - 1) : L[a][L.chars[i]] # L[a][c]
  BY <1>1
<1>3. \A c \in Char : kept[c] \in Team!Elements(pool[a]) \cup {0} BY <1>2 DEF Team!InPool
<1>4. kept \in [Char -> Team!Elements(pool[a]) \cup {0}] BY <1>1, <1>3
<1>5. L.chars \in Seq(Char) BY DEF Team!Loadout
<1>6. \A c \in Team!Team(L) : I(c) \in DOMAIN L.chars /\ L.chars[I(c)] = c
  BY <1>5, IndexOf DEF Team!Team
<1>7. \A c \in Team!Team(L) : I(c) \in Nat \ {0} BY <1>5, <1>6
<1> HIDE DEF kept, I
<1>8. \A c, d \in Char : kept[c] # 0 /\ kept[c] = kept[d] => c = d
  <2> SUFFICES ASSUME NEW c \in Char, NEW d \in Char, kept[c] # 0, kept[c] = kept[d] PROVE c = d
    OBVIOUS
  <2>1. c \in Team!Team(L) /\ d \in Team!Team(L) /\ L[a][c] = L[a][d] BY <1>2
  <2>2. ~(I(d) < I(c))
    <3> SUFFICES ASSUME I(d) < I(c) PROVE FALSE OBVIOUS
    <3>1. I(d) \in 1..(I(c) - 1) BY <1>7, <2>1
    <3> QED BY <1>2, <1>6, <2>1, <3>1
  <2>3. ~(I(c) < I(d))
    <3> SUFFICES ASSUME I(c) < I(d) PROVE FALSE OBVIOUS
    <3>1. I(c) \in 1..(I(d) - 1) BY <1>7, <2>1
    <3> QED BY <1>2, <1>6, <2>1, <3>1
  <2>4. I(c) = I(d) BY <1>7, <2>1, <2>2, <2>3
  <2> QED BY <1>6, <2>1, <2>4
<1> QED BY <1>2, <1>4, <1>8 DEF kept

\* The second pass gives the members without one the unused arts, each to one.
LEMMA FilledShared ==
  ASSUME pool \in Pools, NEW L \in Team!Loadout, Team!Distinct(L.chars), NEW a \in Team!Art
  PROVE  Shared(Team!Filled(L, a), a, Team!Team(L))
<1> DEFINE kept == Team!Keeps(L, a)
           P == pool[a]
           E == Team!Elements(P)
           T == Team!Team(L)
           F == {i \in DOMAIN P : \A c \in Char : kept[c] # P[i]}
           J == {i \in DOMAIN L.chars : kept[L.chars[i]] = 0}
           free == Team!Pick(P, F)
           poor == Team!Pick(L.chars, J)
           X(c) == Team!Index(poor, c)
           f == Team!Filled(L, a)
<1>1. f = [c \in Char |-> IF c \in Team!Elements(poor) /\ X(c) <= Len(free) THEN free[X(c)] ELSE kept[c]]
  BY DEF Team!Filled
<1>2. /\ kept \in [Char -> E \cup {0}] /\ (\A c \in Char : kept[c] # 0 => c \in T)
      /\ \A c, d \in Char : kept[c] # 0 /\ kept[c] = kept[d] => c = d
  BY KeepsOwn
<1>3. P \in Seq(KungFu) /\ Team!Distinct(P) /\ 0 \notin E BY PoolArts
<1>4. L.chars \in Seq(Char) BY DEF Team!Loadout
<1>18. F \in SUBSET DOMAIN P /\ J \in SUBSET DOMAIN L.chars OBVIOUS
<1>19. /\ \A i \in DOMAIN P : i \in F <=> \A c \in Char : kept[c] # P[i]
       /\ \A i \in DOMAIN L.chars : i \in J <=> kept[L.chars[i]] = 0
  OBVIOUS
<1>20. \A k \in E : \E i \in DOMAIN P : P[i] = k BY DEF Team!Elements
<1>21. \A i \in DOMAIN P : P[i] \in E BY DEF Team!Elements
<1>22. \A c \in T : \E i \in DOMAIN L.chars : L.chars[i] = c BY DEF Team!Team, Team!Elements
<1>23. \A i \in DOMAIN L.chars : L.chars[i] \in T BY DEF Team!Team, Team!Elements
<1> HIDE DEF kept, P, E, T, F, J
<1>5. /\ free \in Seq(KungFu) /\ Team!Distinct(free)
      /\ \A n \in DOMAIN free : \E i \in F : free[n] = P[i]
      /\ \A i \in F : \E n \in DOMAIN free : free[n] = P[i]
  BY <1>3, <1>18, PickOf, PickDistinct
<1>6. /\ poor \in Seq(Char) /\ Team!Distinct(poor)
      /\ \A n \in DOMAIN poor : \E i \in J : poor[n] = L.chars[i]
      /\ \A i \in J : \E n \in DOMAIN poor : poor[n] = L.chars[i]
  BY <1>4, <1>18, PickOf, PickDistinct
<1> HIDE DEF free, poor, f
<1>7. \A n \in DOMAIN free : free[n] \in E /\ \A c \in Char : kept[c] # free[n]
  BY <1>5, <1>18, <1>19, <1>21
<1>8. \A k \in E : (\A c \in Char : kept[c] # k) => \E n \in DOMAIN free : free[n] = k
  BY <1>5, <1>18, <1>19, <1>20
<1>9. \A c \in Char : c \in Team!Elements(poor) <=> c \in T /\ kept[c] = 0
  <2>1. \A c \in Char : c \in Team!Elements(poor) <=> \E i \in J : c = L.chars[i]
    BY <1>6 DEF Team!Elements
  <2> QED BY <1>18, <1>19, <1>22, <1>23, <2>1
<1>10. /\ \A c \in Team!Elements(poor) : X(c) \in DOMAIN poor /\ poor[X(c)] = c
       /\ \A n \in DOMAIN poor : X(poor[n]) = n
  BY <1>6, IndexOf
<1>11. /\ \A n \in DOMAIN poor : n \in Nat \ {0} /\ poor[n] \in Team!Elements(poor) /\ poor[n] \in Char
       /\ \A n \in Nat \ {0} : n <= Len(free) <=> n \in DOMAIN free
       /\ \A m, n \in DOMAIN poor : \A k \in Nat \ {0} : k <= m => k \in DOMAIN poor
  <2>1. \A n \in DOMAIN poor : poor[n] \in Team!Elements(poor) BY DEF Team!Elements
  <2> QED BY <1>6, <1>5, <2>1
<1> HIDE DEF X
\* Who is given an art, and who keeps his.
<1>12. \A c \in Char : \/ /\ c \in Team!Elements(poor) /\ X(c) \in DOMAIN free
                          /\ f[c] = free[X(c)]
                       \/ /\ f[c] = kept[c]
                          /\ c \in Team!Elements(poor) => X(c) \notin DOMAIN free
  BY <1>1, <1>10, <1>11
<1>13. \A c \in Char : f[c] \in E \cup {0} BY <1>2, <1>7, <1>12
<1>14. f \in [Char -> E \cup {0}] BY <1>1, <1>13
<1>15. \A c \in Char : f[c] # 0 => c \in T BY <1>2, <1>9, <1>12
<1>16. \A c, d \in Char : f[c] # 0 /\ f[c] = f[d] => c = d
  <2> SUFFICES ASSUME NEW c \in Char, NEW d \in Char, f[c] # 0, f[c] = f[d] PROVE c = d
    OBVIOUS
  <2>1. CASE f[c] = kept[c] /\ f[d] = kept[d] BY <1>2, <2>1
  <2>2. CASE f[c] = kept[c] /\ d \in Team!Elements(poor) /\ X(d) \in DOMAIN free /\ f[d] = free[X(d)]
    BY <1>7, <2>2
  <2>3. CASE f[d] = kept[d] /\ c \in Team!Elements(poor) /\ X(c) \in DOMAIN free /\ f[c] = free[X(c)]
    BY <1>7, <2>3
  <2>4. CASE /\ c \in Team!Elements(poor) /\ X(c) \in DOMAIN free /\ f[c] = free[X(c)]
             /\ d \in Team!Elements(poor) /\ X(d) \in DOMAIN free /\ f[d] = free[X(d)]
    <3>1. X(c) = X(d) BY <1>5, <2>4 DEF Team!Distinct
    <3> QED BY <1>10, <2>4, <3>1
  <2> QED BY <1>12, <2>1, <2>2, <2>3, <2>4
<1>17. \A c \in T : f[c] = 0 => \A k \in E : \E d \in Char : f[d] = k
  <2> SUFFICES ASSUME NEW c \in T, f[c] = 0, NEW k \in E PROVE \E d \in Char : f[d] = k
    OBVIOUS
  <2>1. c \in Char BY <1>4 DEF T, Team!Team, Team!Elements
  <2>2. ~(X(c) \in DOMAIN free /\ f[c] = free[X(c)]) BY <1>3, <1>7
  <2>3. kept[c] = 0 /\ c \in Team!Elements(poor) /\ X(c) \notin DOMAIN free BY <1>9, <1>12, <2>1, <2>2
  <2>4. CASE \E d \in Char : kept[d] = k
    <3>1. PICK d \in Char : kept[d] = k BY <2>4
    <3>2. d \notin Team!Elements(poor) BY <1>3, <1>9, <3>1
    <3> QED BY <1>12, <3>1, <3>2
  <2>5. CASE \A d \in Char : kept[d] # k
    <3>1. PICK n \in DOMAIN free : free[n] = k BY <1>8, <2>5
    <3>2. n \in Nat \ {0} BY <1>5
    <3>3. X(c) \in DOMAIN poor /\ X(c) \in Nat \ {0} BY <1>10, <1>11, <2>3
    <3>4. n <= X(c)
      <4>1. n <= Len(free) /\ ~(X(c) <= Len(free)) /\ Len(free) \in Nat
        BY <1>5, <1>11, <2>3, <3>2, <3>3
      <4> QED BY <3>2, <3>3, <4>1
    <3>5. n \in DOMAIN poor BY <1>11, <3>2, <3>3, <3>4
    <3>6. poor[n] \in Char /\ poor[n] \in Team!Elements(poor) /\ X(poor[n]) = n BY <1>10, <1>11, <3>5
    <3> QED BY <1>12, <3>1, <3>6
  <2> QED BY <2>4, <2>5
<1> QED BY <1>14, <1>15, <1>16, <1>17 DEF Shared, f, E, T, P

-----------------------------------------------------------------------------
\* A pool has a skill for a member of a team who has none.
LEMMA Enough ==
  ASSUME pool \in Pools, NEW s \in Seq(Char), Len(s) <= MaxTeam, NEW f,
         NEW c \in Team!Elements(s), f[c] \notin Team!Elements(pool.skill),
         \A d \in Char : f[d] # 0 => d \in Team!Elements(s)
  PROVE  \E k \in Team!Elements(pool.skill) : \A d \in Char : f[d] # k
<1> DEFINE E == Team!Elements(pool.skill)
           T == Team!Elements(s)
           h == [k \in E |-> CHOOSE d \in Char : f[d] = k]
<1> SUFFICES ASSUME \A k \in E : \E d \in Char : f[d] = k PROVE FALSE OBVIOUS
<1>1. "skill" \in Team!Art /\ pool["skill"] = pool.skill BY DEF Team!Art
<1>2. /\ pool.skill \in Seq(KungFu) /\ Team!Distinct(pool.skill) /\ 0 \notin E
  BY <1>1, PoolArts
<1>3. Len(pool.skill) >= MaxTeam /\ MaxTeam \in Nat BY TeamConstants DEF Team!TeamAssumption
<1>4. IsFiniteSet(E) /\ Cardinality(E) = Len(pool.skill) /\ Len(pool.skill) \in Nat
  BY <1>2, CountOf
<1>5. IsFiniteSet(T) /\ Cardinality(T) \in Nat /\ Cardinality(T) <= Len(s) /\ Len(s) \in Nat BY CountOf
<1>6. IsFiniteSet(T \ {c}) /\ Cardinality(T \ {c}) = Cardinality(T) - 1 BY <1>5, FS_RemoveElement
<1> HIDE DEF E, T
<1>7. \A k \in E : h[k] \in Char /\ f[h[k]] = k OBVIOUS
<1>8. \A k \in E : h[k] \in T \ {c} BY <1>2, <1>7 DEF E, T
<1>9. h \in [E -> T \ {c}] BY <1>8
<1> HIDE DEF h
<1>10. h \in Injection(E, T \ {c}) BY <1>7, <1>9 DEF Injection, IsInjective
<1>11. Cardinality(E) <= Cardinality(T \ {c}) BY <1>6, <1>10, FS_Injection
<1> QED BY <1>3, <1>4, <1>5, <1>6, <1>11

\* take_unused_kungfu finds an art of the pool nobody has, if there is one.
LEMMA UnusedTaken ==
  ASSUME pool \in Pools, NEW a \in Team!Art, NEW owned
  PROVE  LET k == Team!TakeUnused(a, owned) IN
         /\ k = 0 \/ k \in Team!Elements(pool[a]) \ owned
         /\ Team!Elements(pool[a]) \ owned # {} => k # 0
<1> DEFINE free == {i \in DOMAIN pool[a] : pool[a][i] \notin owned}
<1>1. pool[a] \in Seq(KungFu) /\ 0 \notin Team!Elements(pool[a]) BY PoolArts
<1>2. free \subseteq Nat /\ IsFiniteSet(free) BY <1>1, Numbers
<1>3. free # {} => Team!Nth(free, 0) \in free BY <1>2, NthOf
<1>4. Team!Elements(pool[a]) \ owned # {} => free # {} BY DEF Team!Elements
<1>5. \A i \in free : pool[a][i] \in Team!Elements(pool[a]) \ owned BY DEF Team!Elements
<1>6. Team!TakeUnused(a, owned) = IF free = {} THEN 0 ELSE pool[a][Team!Nth(free, 0)]
  BY DEF Team!TakeUnused
<1> HIDE DEF free
<1> QED BY <1>1, <1>3, <1>4, <1>5, <1>6

\* What fight_data_of needs of a loadout.
HasTeam(L) ==
  /\ L.chars \in Seq(Char) /\ Len(L.chars) <= MaxTeam
  /\ \A a \in Team!Art : L[a] \in [Char -> KungFu \cup {0}]

\* resolve_fight_skill and resolve_fight_nei find an art, or none.
LEMMA ResolveType ==
  ASSUME pool \in Pools, NEW L, HasTeam(L), NEW a \in Team!Art, NEW c \in Char
  PROVE  Team!ResolveFight(L, a, c) \in KungFu \cup {0}
<1>1. L[a][c] \in KungFu \cup {0} BY DEF HasTeam
<1>2. Team!TakeUnused(a, Team!OwnedBy(L, a)) \in KungFu \cup {0} BY UnusedTaken, PoolArts
<1> QED BY <1>1, <1>2 DEF Team!ResolveFight

\* fight_data_of: a member for each character, with the arts found for him.
LEMMA FightType ==
  ASSUME pool \in Pools, NEW L, HasTeam(L)
  PROVE  LET b == Team!FightDataOf(L) IN
         /\ b \in Team!FightData /\ b.ver = Ver /\ b # None
         /\ DOMAIN b.team = DOMAIN L.chars /\ Len(b.team) = Len(L.chars)
         /\ \A i \in DOMAIN L.chars :
              /\ b.team[i].head = L.chars[i]
              /\ b.team[i].skill = Team!ResolveFight(L, "skill", L.chars[i])
              /\ b.team[i].nei = Team!ResolveFight(L, "nei", L.chars[i])
<1> DEFINE S(i) == Team!ResolveFight(L, "skill", L.chars[i])
           N(i) == Team!ResolveFight(L, "nei", L.chars[i])
           Q(i) == Team!Slotted(L.equip[L.chars[i]])
           team == [i \in DOMAIN L.chars |->
                      [head |-> L.chars[i], skill |-> S(i), nei |-> N(i), equip |-> Q(i)]]
           b == Team!FightDataOf(L)
<1>1. b = [ver |-> Ver, team |-> team] BY DEF Team!FightDataOf
<1>2. L.chars \in Seq(Char) BY DEF HasTeam
<1>3. \A i \in DOMAIN L.chars : L.chars[i] \in Char BY <1>2
<1>4. \A i \in DOMAIN L.chars : S(i) \in KungFu \cup {0} /\ N(i) \in KungFu \cup {0}
  BY <1>3, ResolveType DEF Team!Art
<1>5. \A i \in DOMAIN L.chars : Q(i) \in SUBSET Equip
  BY TeamConstants DEF Team!Slotted, Team!TeamAssumption
<1>6. Ver \in 0..Ver /\ None \notin Team!FightData BY TeamConstants DEF Team!TeamAssumption
<1> HIDE DEF S, N, Q, b
<1>7. \A i \in DOMAIN L.chars : team[i] \in Team!Member BY <1>3, <1>4, <1>5 DEF Team!Member
<1>8. team \in Seq(Team!Member) /\ DOMAIN team = DOMAIN L.chars /\ Len(team) = Len(L.chars)
  <2>1. DOMAIN L.chars = 1..Len(L.chars) /\ Len(L.chars) \in Nat BY <1>2
  <2>2. team = [i \in 1..Len(L.chars) |-> team[i]] BY <2>1
  <2> HIDE DEF team
  <2>3. team \in [1..Len(L.chars) -> Team!Member] BY <1>7, <2>1, <2>2
  <2>4. team \in Seq(Team!Member) BY <2>1, <2>3
  <2>5. Len(team) = Len(L.chars) BY <2>1, <2>3, <2>4
  <2> QED BY <2>1, <2>3, <2>4, <2>5
<1>9. b \in Team!FightData BY <1>1, <1>6, <1>8 DEF Team!FightData
<1> QED BY <1>1, <1>6, <1>8, <1>9 DEF S, N, b

\* A loadout whose arts are shared fights with just these.
LEMMA Resolved ==
  ASSUME pool \in Pools, NEW L, HasTeam(L), NEW a \in Team!Art, Shared(L[a], a, Team!Team(L)),
         NEW c \in Team!Team(L), c \in Char
  PROVE  Team!ResolveFight(L, a, c) = L[a][c]
<1> DEFINE E == Team!Elements(pool[a])
<1>1. CASE L[a][c] \in E BY <1>1 DEF Team!ResolveFight, Team!InPool
<1>2. CASE L[a][c] = 0
  <2>1. 0 \notin E BY PoolArts
  <2>2. \A k \in E : \E d \in Char : L[a][d] = k BY <1>2 DEF Shared
  <2>3. E \subseteq Team!OwnedBy(L, a) BY <2>1, <2>2 DEF Team!OwnedBy
  <2>4. Team!TakeUnused(a, Team!OwnedBy(L, a)) = 0 BY <2>3, UnusedTaken
  <2> QED BY <1>2, <2>1, <2>4 DEF Team!ResolveFight, Team!InPool
<1> QED BY <1>1, <1>2 DEF Shared
\* A stored loadout has a team.
LEMMA LoadoutTeam ==
  ASSUME NEW L, Team!IsLoadout(L)
  PROVE  HasTeam(L) /\ L \in Team!Loadout /\ Team!Distinct(L.chars) /\ Team!Team(L) \subseteq Char
<1>1. L \in Team!Loadout /\ Len(L.chars) <= MaxTeam /\ Team!Distinct(L.chars) BY DEF Team!IsLoadout
<1>2. /\ L.chars \in Seq(Char)
      /\ L.skill \in [Char -> KungFu \cup {0}] /\ L.nei \in [Char -> KungFu \cup {0}]
  BY <1>1 DEF Team!Loadout
<1>3. \A a \in Team!Art : L[a] \in [Char -> KungFu \cup {0}] BY <1>2 DEF Team!Art
<1>4. Team!Team(L) \subseteq Char BY <1>2 DEF Team!Team, Team!Elements
<1> QED BY <1>1, <1>2, <1>3, <1>4 DEF HasTeam

\* ensure_loadout_kungfu leaves a loadout in which the arts are shared.
LEMMA Ensured ==
  ASSUME pool \in Pools, NEW L, Team!IsLoadout(L)
  PROVE  LET M == Team!EnsureKungfu(L) IN
         /\ Team!IsLoadout(M) /\ M.chars = L.chars
         /\ \A a \in Team!Art : Shared(M[a], a, Team!Team(M))
<1> DEFINE M == Team!EnsureKungfu(L)
           S == Team!Filled(L, "skill")
           N == Team!Filled(L, "nei")
<1>1. L \in Team!Loadout /\ Team!Distinct(L.chars) BY LoadoutTeam
<1>2. "skill" \in Team!Art /\ "nei" \in Team!Art BY DEF Team!Art
<1>3. Shared(S, "skill", Team!Team(L)) /\ Shared(N, "nei", Team!Team(L)) BY <1>1, <1>2, FilledShared
<1>4. S \in [Char -> KungFu \cup {0}] /\ N \in [Char -> KungFu \cup {0}]
  BY <1>2, <1>3, PoolArts DEF Shared
<1>5. M = [L EXCEPT !.skill = S, !.nei = N] BY DEF Team!EnsureKungfu
<1> HIDE DEF M, S, N
<1>6. M \in Team!Loadout /\ M.chars = L.chars /\ M.skill = S /\ M.nei = N
  BY <1>1, <1>4, <1>5 DEF Team!Loadout
<1>7. Team!IsLoadout(M) BY <1>6 DEF Team!IsLoadout
<1>8. Team!Team(M) = Team!Team(L) BY <1>6 DEF Team!Team
<1>9. \A a \in Team!Art : Shared(M[a], a, Team!Team(M))
  BY <1>3, <1>6, <1>8 DEF Team!Art
<1> QED BY <1>6, <1>7, <1>9 DEF M

\* The loadout without the members the pool lost is one.
LEMMA CleanedOf ==
  ASSUME NEW L, Team!IsLoadout(L)
  PROVE  /\ Team!IsLoadout(Team!Cleaned(L))
         /\ Team!Cleaned(L).skill = L.skill /\ Team!Cleaned(L).nei = L.nei
         /\ Len(Team!Cleaned(L).chars) <= Len(L.chars)
<1> DEFINE keep(i) ==
             /\ L.chars[i] \in pool.chars
             /\ \A j \in 1..(i - 1) : ~(L.chars[j] \in pool.chars /\ Nick[L.chars[j]] = Nick[L.chars[i]])
           I == {i \in DOMAIN L.chars : keep(i)}
           r == Team!Pick(L.chars, I)
           M == Team!Cleaned(L)
<1>1. M = [L EXCEPT !.chars = r] BY DEF Team!Cleaned
<1>2. /\ L \in Team!Loadout /\ L.chars \in Seq(Char) /\ Team!Distinct(L.chars)
      /\ Len(L.chars) <= MaxTeam /\ MaxTeam \in Nat
  BY TeamConstants DEF Team!IsLoadout, Team!Loadout, Team!TeamAssumption
<1>3. I \in SUBSET DOMAIN L.chars OBVIOUS
<1> HIDE DEF I, M
<1>4. r \in Seq(Char) /\ Len(r) <= Len(L.chars) /\ Team!Distinct(r) BY <1>2, <1>3, PickOf, PickDistinct
<1> HIDE DEF r
<1>5. M \in Team!Loadout /\ M.chars = r /\ M.skill = L.skill /\ M.nei = L.nei
  BY <1>1, <1>2, <1>4 DEF Team!Loadout
<1>6. Len(r) <= MaxTeam BY <1>2, <1>4
<1> QED BY <1>4, <1>5, <1>6 DEF Team!IsLoadout, M

-----------------------------------------------------------------------------
\* Fight data as the present rules and the present pool want it.
InOrder(b) ==
  /\ b \in Team!FightData /\ b.ver = Ver
  /\ \A i \in DOMAIN b.team :
       /\ Team!InPool("skill", b.team[i].skill)
       /\ b.team[i].nei # 0 => Team!InPool("nei", b.team[i].nei)
       /\ \A j \in DOMAIN b.team \ {i} : \A a \in Team!Art :
            b.team[i][a] # 0 => b.team[i][a] # b.team[j][a]

\* The fight data of a loadout whose arts are shared is in order: the pool has
\* a skill for each of the few members.
LEMMA TidyFight ==
  ASSUME pool \in Pools, NEW L, Team!IsLoadout(L),
         \A a \in Team!Art : Shared(L[a], a, Team!Team(L))
  PROVE  InOrder(Team!FightDataOf(L))
<1> DEFINE b == Team!FightDataOf(L)
           s == L.chars
<1>1. HasTeam(L) /\ Team!Distinct(s) /\ Team!Team(L) \subseteq Char BY LoadoutTeam
<1>2. "skill" \in Team!Art /\ "nei" \in Team!Art BY DEF Team!Art
<1>3. \A i \in DOMAIN s : s[i] \in Team!Team(L) BY DEF Team!Team, Team!Elements
<1>4. \A a \in Team!Art : \A c \in Team!Team(L) : Team!ResolveFight(L, a, c) = L[a][c]
  BY <1>1, Resolved
<1>5. /\ b \in Team!FightData /\ b.ver = Ver /\ DOMAIN b.team = DOMAIN s
      /\ \A i \in DOMAIN s : b.team[i].skill = L.skill[s[i]] /\ b.team[i].nei = L.nei[s[i]]
  BY <1>1, <1>2, <1>3, <1>4, FightType
<1> HIDE DEF b
<1>6. \A i \in DOMAIN s : Team!InPool("skill", L.skill[s[i]])
  <2> SUFFICES ASSUME NEW i \in DOMAIN s, ~Team!InPool("skill", L.skill[s[i]]) PROVE FALSE
    OBVIOUS
  <2>1. Shared(L.skill, "skill", Team!Team(L)) BY <1>2
  <2>2. s[i] \in Team!Elements(s) /\ s[i] \in Char BY <1>1, <1>3 DEF Team!Team
  <2>3. L.skill[s[i]] = 0 /\ L.skill[s[i]] \notin Team!Elements(pool.skill)
    BY <2>1, <2>2 DEF Shared, Team!InPool
  <2>4. \A d \in Char : L.skill[d] # 0 => d \in Team!Elements(s) BY <2>1 DEF Shared, Team!Team
  <2>5. s \in Seq(Char) /\ Len(s) <= MaxTeam BY <1>1 DEF HasTeam
  <2>6. PICK k \in Team!Elements(pool.skill) : \A d \in Char : L.skill[d] # k
    BY <2>2, <2>3, <2>4, <2>5, Enough
  <2> QED BY <1>3, <2>1, <2>3, <2>6 DEF Shared
<1>7. \A i \in DOMAIN s : L.nei[s[i]] # 0 => Team!InPool("nei", L.nei[s[i]])
  <2>1. Shared(L.nei, "nei", Team!Team(L)) BY <1>2
  <2> QED BY <1>1, <1>3, <2>1 DEF Shared, Team!InPool
<1>8. \A i \in DOMAIN s : \A j \in DOMAIN s \ {i} : \A a \in Team!Art :
        L[a][s[i]] # 0 => L[a][s[i]] # L[a][s[j]]
  BY <1>1, <1>3 DEF Shared, Team!Distinct
<1>9. \A i \in DOMAIN s : b.team[i]["skill"] = L["skill"][s[i]] /\ b.team[i]["nei"] = L["nei"][s[i]]
  BY <1>5
<1>10. \A i \in DOMAIN s : \A a \in Team!Art : b.team[i][a] = L[a][s[i]] BY <1>9 DEF Team!Art
<1>11. \A i \in DOMAIN b.team : \A j \in DOMAIN b.team \ {i} : \A a \in Team!Art :
        b.team[i][a] # 0 => b.team[i][a] # b.team[j][a]
  BY <1>5, <1>8, <1>10
<1>12. \A i \in DOMAIN b.team : /\ Team!InPool("skill", b.team[i].skill)
                                /\ b.team[i].nei # 0 => Team!InPool("nei", b.team[i].nei)
  BY <1>5, <1>6, <1>7
<1>13. b \in Team!FightData /\ b.ver = Ver BY <1>5
<1> HIDE DEF s
<1> QED BY <1>11, <1>12, <1>13 DEF InOrder, b

\* Fight data in order is nothing to rebuild.
LEMMA InOrderStays == \A b : InOrder(b) => Team!CurrentFightData(b) = b
BY DEF InOrder, Team!CurrentFightData, Team!NeedsRebuild
\* fight_blob_for_rebuild keeps the members of the pool, each once, with the arts
\* of theirs that are of it; without any of them it keeps nobody.
LEMMA RebuiltOf ==
  ASSUME pool \in Pools, NEW b \in Team!FightData, Len(b.team) <= MaxTeam
  PROVE  LET R == Team!ForRebuild(b) IN
         /\ HasTeam(R) /\ Team!Distinct(R.chars)
         /\ \A a \in Team!Art : \A c \in Char : R[a][c] # 0 => c \in Team!Elements(R.chars)
         /\ R.chars = << >> => \A i \in DOMAIN b.team : b.team[i].head \notin pool.chars
<1> DEFINE heads == [i \in DOMAIN b.team |-> b.team[i].head]
           first == {i \in DOMAIN heads : heads[i] \in pool.chars /\ \A j \in 1..(i - 1) : heads[j] # heads[i]}
           of(c) == {i \in first : heads[i] = c}
           art(a) == [c \in Char |-> IF \E i \in of(c) : Team!InPool(a, b.team[i][a])
                                     THEN b.team[CHOOSE i \in of(c) : TRUE][a] ELSE 0]
           R == Team!ForRebuild(b)
<1>1. R.chars = Team!Pick(heads, first) /\ R.skill = art("skill") /\ R.nei = art("nei")
  BY DEF Team!ForRebuild
<1>2. b.team \in Seq(Team!Member) BY DEF Team!FightData
<1>3. heads \in Seq(Char) /\ DOMAIN heads = DOMAIN b.team /\ Len(heads) = Len(b.team)
  <2>1. DOMAIN b.team = 1..Len(b.team) /\ Len(b.team) \in Nat BY <1>2
  <2>2. \A i \in DOMAIN b.team : b.team[i].head \in Char
    <3>1. \A i \in DOMAIN b.team : b.team[i] \in Team!Member BY <1>2
    <3> QED BY <3>1 DEF Team!Member
  <2>3. heads \in [1..Len(b.team) -> Char] BY <2>1, <2>2
  <2> HIDE DEF heads
  <2>4. heads \in Seq(Char) BY <2>1, <2>3
  <2>5. Len(heads) = Len(b.team) BY <2>1, <2>3, <2>4
  <2> QED BY <2>1, <2>3, <2>4, <2>5
<1>4. \A i \in DOMAIN b.team : heads[i] = b.team[i].head OBVIOUS
<1>5. first \in SUBSET DOMAIN heads OBVIOUS
<1>6. \A i \in DOMAIN heads : i \in first <=> heads[i] \in pool.chars /\ \A j \in 1..(i - 1) : heads[j] # heads[i]
  OBVIOUS
<1>7. \A c, i : i \in of(c) <=> i \in first /\ heads[i] = c OBVIOUS
<1> HIDE DEF heads, first, of
<1>8. DOMAIN heads \subseteq Nat \ {0} BY <1>3
<1>9. \A i, j \in first : heads[i] = heads[j] => i = j
  <2> SUFFICES ASSUME NEW i \in first, NEW j \in first, heads[i] = heads[j] PROVE i = j OBVIOUS
  <2>1. i \in Nat \ {0} /\ j \in Nat \ {0} BY <1>5, <1>8
  <2>2. ~(i < j)
    <3> SUFFICES ASSUME i < j PROVE FALSE OBVIOUS
    <3>1. i \in 1..(j - 1) BY <2>1
    <3> QED BY <1>5, <1>6, <3>1
  <2>3. ~(j < i)
    <3> SUFFICES ASSUME j < i PROVE FALSE OBVIOUS
    <3>1. j \in 1..(i - 1) BY <2>1
    <3> QED BY <1>5, <1>6, <3>1
  <2> QED BY <2>1, <2>2, <2>3
<1>10. /\ R.chars \in Seq(Char) /\ Len(R.chars) <= Len(heads) /\ Team!Distinct(R.chars)
       /\ \A i \in first : \E n \in DOMAIN R.chars : R.chars[n] = heads[i]
  BY <1>1, <1>3, <1>5, <1>9, PickOf
<1>11. Len(R.chars) <= MaxTeam
  <2>1. MaxTeam \in Nat BY TeamConstants DEF Team!TeamAssumption
  <2>2. Len(R.chars) \in Nat /\ Len(heads) \in Nat /\ Len(heads) <= MaxTeam BY <1>3, <1>10
  <2> HIDE DEF R
  <2> QED BY <1>10, <2>1, <2>2
<1>12. \A a \in Team!Art : \A c \in Char :
         /\ art(a)[c] \in KungFu \cup {0}
         /\ art(a)[c] # 0 => \E i \in first : heads[i] = c
  <2> SUFFICES ASSUME NEW a \in Team!Art, NEW c \in Char, \E i \in of(c) : Team!InPool(a, b.team[i][a])
               PROVE  /\ b.team[CHOOSE i \in of(c) : TRUE][a] \in KungFu \cup {0}
                      /\ \E i \in first : heads[i] = c
    OBVIOUS
  <2>1. PICK i \in of(c) : Team!InPool(a, b.team[i][a]) OBVIOUS
  <2>2. (CHOOSE k \in of(c) : TRUE) \in of(c) BY <2>1
  <2>3. (CHOOSE k \in of(c) : TRUE) = i BY <1>7, <1>9, <2>1, <2>2
  <2>4. b.team[i][a] \in KungFu BY <2>1, PoolArts DEF Team!InPool
  <2>5. i \in first /\ heads[i] = c BY <1>7, <2>1
  <2> QED BY <2>3, <2>4, <2>5
<1>13. \A a \in Team!Art : art(a) \in [Char -> KungFu \cup {0}] BY <1>12
<1> HIDE DEF art, R
<1>14. \A a \in Team!Art : R[a] = art(a) BY <1>1 DEF Team!Art
<1>15. HasTeam(R) BY <1>10, <1>11, <1>13, <1>14 DEF HasTeam
<1>16. \A a \in Team!Art : \A c \in Char : R[a][c] # 0 => c \in Team!Elements(R.chars)
  BY <1>10, <1>12, <1>14 DEF Team!Elements
<1>17. R.chars = << >> => \A i \in DOMAIN b.team : b.team[i].head \notin pool.chars
  <2> SUFFICES ASSUME R.chars = << >>, NEW i \in DOMAIN b.team, b.team[i].head \in pool.chars
               PROVE  FALSE
    OBVIOUS
  <2> DEFINE I == {k \in DOMAIN heads : heads[k] = heads[i]}
             l == Team!Nth(I, 0)
  <2>1. I \in SUBSET DOMAIN heads /\ i \in I BY <1>3
  <2>2. I \subseteq Nat /\ IsFiniteSet(I) BY <1>3, <2>1, Numbers
  <2>3. l \in I /\ \A j \in I : ~(j < l) BY <2>1, <2>2, NthOf
  <2>4. l \in DOMAIN heads /\ heads[l] = heads[i] BY <2>3
  <2>5. \A j \in DOMAIN heads : heads[j] = heads[l] => ~(j < l) BY <2>3, <2>4
  <2> HIDE DEF I, l
  <2>6. \A j \in 1..(l - 1) : heads[j] # heads[l]
    <3> SUFFICES ASSUME NEW j \in 1..(l - 1), heads[j] = heads[l] PROVE FALSE OBVIOUS
    <3>1. l \in 1..Len(heads) /\ Len(heads) \in Nat BY <1>3, <2>4
    <3>2. j \in 1..Len(heads) /\ j < l BY <3>1
    <3>3. j \in DOMAIN heads BY <1>3, <3>2
    <3> QED BY <2>5, <3>2, <3>3
  <2>7. l \in first BY <1>4, <1>6, <2>4, <2>6
  <2> QED BY <1>10, <2>7
<1> QED BY <1>10, <1>15, <1>16, <1>17 DEF R

\* What is sent of fight data: whoever is in it has a skill of the pool, or
\* nobody of it is in the pool.
LEMMA CurrentOf ==
  ASSUME pool \in Pools, NEW b \in Team!FightData, Len(b.team) <= MaxTeam
  PROVE  LET C == Team!CurrentFightData(b) IN
         /\ C \in Team!FightData /\ Len(C.team) <= MaxTeam
         /\ \/ \A i \in DOMAIN C.team : Team!InPool("skill", C.team[i].skill)
            \/ \A i \in DOMAIN C.team : C.team[i].head \notin pool.chars
<1> DEFINE C == Team!CurrentFightData(b)
           R == Team!ForRebuild(b)
           F == Team!FightDataOf(R)
<1>1. /\ HasTeam(R)
      /\ \A a \in Team!Art : \A c \in Char : R[a][c] # 0 => c \in Team!Elements(R.chars)
      /\ R.chars = << >> => \A i \in DOMAIN b.team : b.team[i].head \notin pool.chars
  BY RebuiltOf
<1>2. b # None BY TeamConstants DEF Team!TeamAssumption
<1>3. C = IF ~Team!NeedsRebuild(b) \/ R.chars = << >> THEN b ELSE F BY <1>2 DEF Team!CurrentFightData
<1>4. "skill" \in Team!Art BY DEF Team!Art
<1>5. /\ F \in Team!FightData /\ Len(F.team) = Len(R.chars) /\ DOMAIN F.team = DOMAIN R.chars
      /\ \A i \in DOMAIN R.chars : F.team[i].skill = Team!ResolveFight(R, "skill", R.chars[i])
  BY <1>1, FightType
<1> HIDE DEF C, R, F
<1>6. CASE ~Team!NeedsRebuild(b) BY <1>3, <1>6 DEF C, Team!NeedsRebuild
<1>7. CASE R.chars = << >> BY <1>1, <1>3, <1>7 DEF C
<1>8. CASE Team!NeedsRebuild(b) /\ R.chars # << >>
  <2>1. C = F BY <1>3, <1>8
  <2>2. ASSUME NEW i \in DOMAIN R.chars
        PROVE  Team!InPool("skill", Team!ResolveFight(R, "skill", R.chars[i]))
    <3> DEFINE c == R.chars[i]
               E == Team!Elements(pool.skill)
               O == Team!OwnedBy(R, "skill")
    <3>1. R.chars \in Seq(Char) /\ Len(R.chars) <= MaxTeam BY <1>1 DEF HasTeam
    <3>2. c \in Team!Elements(R.chars) /\ c \in Char BY <3>1 DEF Team!Elements
    <3> HIDE DEF c
    <3>3. CASE R.skill[c] \in E BY <3>3 DEF c, Team!ResolveFight, Team!InPool
    <3>4. CASE R.skill[c] \notin E
      <4>1. \A d \in Char : R.skill[d] # 0 => d \in Team!Elements(R.chars) BY <1>1, <1>4
      <4>2. PICK k \in E : \A d \in Char : R.skill[d] # k BY <3>1, <3>2, <3>4, <4>1, Enough
      <4>3. k \in E \ O BY <4>2 DEF Team!OwnedBy
      <4>4. pool["skill"] = pool.skill OBVIOUS
      <4> HIDE DEF E, O
      <4>5. Team!TakeUnused("skill", O) \in E \ O BY <1>4, <4>3, <4>4, UnusedTaken DEF E
      <4> QED BY <3>4, <4>5 DEF Team!ResolveFight, Team!InPool, E, O, c
    <3> QED BY <3>3, <3>4
  <2> QED BY <1>1, <1>5, <2>1, <2>2 DEF C, HasTeam
<1> QED BY <1>6, <1>7, <1>8
-----------------------------------------------------------------------------
\* No art of f is two members'.
OneOwner(f) == \A c, d \in Char : f[c] # 0 /\ f[c] = f[d] => c = d

\* The fight data a player who was served may have.
Followed(L) == {Team!FightDataOf(L), Team!FightDataOf(Team!EnsureKungfu(Team!Cleaned(L)))}

\* The row of a player the running process has served.
ServedRow ==
  /\ load.chars # << >> /\ \A a \in Team!Art : OneOwner(load[a])
  /\ InOrder(blob) /\ blob \in Followed(load)

TeamInv == Team!TypeOK /\ (settled => ServedRow) /\ Team!SentHasSkills

\* None is no fight data.
LEMMA NoFight == \A b : InOrder(b) => b # None
BY TeamConstants DEF InOrder, Team!TeamAssumption

\* The invariant shows what the row of a served player is.
LEMMA TeamShows == TeamInv => Team!TeamsInOrder /\ Team!SentHasSkills
<1> SUFFICES ASSUME TeamInv PROVE Team!TeamsInOrder /\ Team!SentHasSkills OBVIOUS
<1>1. settled => \A a \in Team!Art : \A c \in Team!Team(load) : ~Team!UsedByOther(load[a], c, load[a][c])
  BY LoadoutTeam DEF TeamInv, ServedRow, OneOwner, Team!UsedByOther, Team!TypeOK
<1>2. Team!OwnTeamInOrder BY <1>1 DEF TeamInv, ServedRow, InOrder, Team!OwnTeamInOrder
<1>3. Team!BlobFollowsLoadout BY DEF TeamInv, ServedRow, Followed, Team!BlobFollowsLoadout
<1> QED BY <1>2, <1>3 DEF TeamInv, Team!TeamsInOrder

\* The fight data of a loadout does not depend on the time.
LEMMA SameFight ==
  ASSUME NEW M, pool' = pool, load' = M
  PROVE  Team!FightDataOf(load)' = Team!FightDataOf(M)
BY DEF Team!FightDataOf, Team!Slotted, Team!ResolveFight, Team!InPool, Team!Elements,
       Team!TakeUnused, Team!Nth, Team!OwnedBy

\* What may be sent of a team.
Sendable(b) ==
  /\ b \in Team!FightData /\ Len(b.team) <= MaxTeam
  /\ \/ \A i \in DOMAIN b.team : Team!InPool("skill", b.team[i].skill)
     \/ \A i \in DOMAIN b.team : b.team[i].head \notin pool.chars

\* What may be sent has a skill for everybody.
LEMMA SendableShows ==
  ASSUME pool' = pool, Sendable(sent')
  PROVE  Team!IsFightData(sent)' /\ Team!SentHasSkills'
BY DEF Sendable, Team!IsFightData, Team!SentHasSkills, Team!InPool, Team!Elements

\* A row that is not touched stays in order.
LEMMA SameRow ==
  ASSUME ServedRow, UNCHANGED <<pool, load, blob>>
  PROVE  ServedRow'
<1>1. InOrder(blob)' BY DEF ServedRow, InOrder, Team!InPool, Team!Elements
<1>2. Team!FightDataOf(load)' = Team!FightDataOf(load) BY SameFight
<1>3. Team!EnsureKungfu(Team!Cleaned(load))' = Team!EnsureKungfu(Team!Cleaned(load))
  <2>1. Team!Cleaned(load)' = Team!Cleaned(load) BY DEF Team!Cleaned, Team!Pick, Team!Nth
  <2> QED BY <2>1 DEF Team!EnsureKungfu, Team!Filled, Team!Keeps, Team!Pick, Team!Nth, Team!Elements,
                      Team!InPool, Team!Team, Team!Index
<1>4. Team!FightDataOf(Team!EnsureKungfu(Team!Cleaned(load)))'
        = Team!FightDataOf(Team!EnsureKungfu(Team!Cleaned(load)))
  BY <1>3 DEF Team!FightDataOf, Team!Slotted, Team!ResolveFight, Team!InPool, Team!Elements,
              Team!TakeUnused, Team!Nth, Team!OwnedBy
<1>5. Followed(load)' = Followed(load) BY <1>2, <1>4 DEF Followed
<1>6. (\A a \in Team!Art : OneOwner(load[a]))' BY DEF ServedRow, OneOwner, Team!Art
<1> QED BY <1>1, <1>5, <1>6 DEF ServedRow

\* A row that is saved is in order.
LEMMA Saved ==
  ASSUME TeamInv, NEW L, Team!IsLoadout(L), L.chars # << >>, Team!Save(Team!EnsureKungfu(L))
  PROVE  TeamInv'
<1> DEFINE M == Team!EnsureKungfu(L)
<1>1. /\ Team!IsLoadout(M) /\ M.chars # << >>
      /\ \A a \in Team!Art : Shared(M[a], a, Team!Team(M))
  BY Ensured DEF TeamInv, Team!TypeOK
<1>2. load' = M /\ settled' = TRUE /\ sent' = None /\ UNCHANGED <<pool, teamRestarts>>
      /\ blob' = Team!FightDataOf(M)
  BY <1>1 DEF Team!Save
<1> HIDE DEF M
<1>3. pool \in Pools BY DEF TeamInv, Team!TypeOK
<1>4. InOrder(blob') BY <1>1, <1>2, <1>3, TidyFight
<1>5. InOrder(blob)' BY <1>2, <1>4 DEF InOrder, Team!InPool, Team!Elements
<1>6. (blob \in Followed(load))' BY <1>2, SameFight DEF Followed
<1>7. \A a \in Team!Art : OneOwner(M[a]) BY <1>1 DEF Shared, OneOwner
<1>8. (\A a \in Team!Art : OneOwner(load[a]))' BY <1>2, <1>7 DEF OneOwner, Team!Art
<1>9. ServedRow' BY <1>1, <1>2, <1>5, <1>6, <1>8 DEF ServedRow
<1>10. Team!IsFightData(blob')
  <2>1. HasTeam(M) BY <1>1, LoadoutTeam
  <2>2. blob' \in Team!FightData /\ Len(blob'.team) = Len(M.chars) BY <1>2, <1>3, <2>1, FightType
  <2> QED BY <2>1, <2>2 DEF Team!IsFightData, HasTeam
<1>11. Team!TypeOK' BY <1>1, <1>2, <1>10 DEF TeamInv, Team!TypeOK, Team!IsLoadout, Team!IsFightData
<1>12. Team!SentHasSkills' BY <1>2 DEF Team!SentHasSkills
<1> QED BY <1>9, <1>11, <1>12 DEF TeamInv

\* handle_set stores a loadout.
LEMMA SetLoadouts ==
  ASSUME Team!IsLoadout(load)
  PROVE  /\ \A s \in Team!Teams : (\A i \in DOMAIN s : \A j \in DOMAIN s : Nick[s[i]] = Nick[s[j]] => i = j) =>
              \A T : LET L == [chars |-> s, skill |-> Team!Only(load.skill, T, 0),
                               nei |-> Team!Only(load.nei, T, 0), equip |-> Team!Only(load.equip, T, << >>)]
                     IN Team!IsLoadout(L) /\ L.chars # << >>
         /\ \A a \in Team!Art, c \in Char, k \in KungFu \cup {0} :
              LET L == [load EXCEPT ![a][c] = k] IN Team!IsLoadout(L) /\ L.chars = load.chars
         /\ \A c \in Char, s \in Team!Pieces :
              LET L == [load EXCEPT !.equip[c] = s] IN Team!IsLoadout(L) /\ L.chars = load.chars
<1>1. /\ load \in Team!Loadout /\ load.chars \in Seq(Char) /\ Len(load.chars) <= MaxTeam
      /\ Team!Distinct(load.chars)
      /\ load.skill \in [Char -> KungFu \cup {0}] /\ load.nei \in [Char -> KungFu \cup {0}]
      /\ load.equip \in [Char -> Seq(Equip)]
  BY DEF Team!IsLoadout, Team!Loadout
<1>2. MaxTeam \in Nat /\ MaxEquip \in Nat BY TeamConstants DEF Team!TeamAssumption
<1>3. ASSUME NEW s \in Team!Teams, NEW T,
             \A i \in DOMAIN s : \A j \in DOMAIN s : Nick[s[i]] = Nick[s[j]] => i = j
      PROVE  LET L == [chars |-> s, skill |-> Team!Only(load.skill, T, 0),
                       nei |-> Team!Only(load.nei, T, 0), equip |-> Team!Only(load.equip, T, << >>)]
             IN Team!IsLoadout(L) /\ L.chars # << >>
  <2>1. PICK n \in 1..MaxTeam : s \in [1..n -> Char] BY DEF Team!Teams
  <2>2. n \in Nat /\ n # 0 /\ n <= MaxTeam BY <1>2, <2>1
  <2>3. s \in Seq(Char) BY <2>1, <2>2
  <2>4. Len(s) = n BY <2>1, <2>2, <2>3
  <2>5. Team!Distinct(s) BY <1>3 DEF Team!Distinct
  <2>6. /\ Team!Only(load.skill, T, 0) \in [Char -> KungFu \cup {0}]
        /\ Team!Only(load.nei, T, 0) \in [Char -> KungFu \cup {0}]
    BY <1>1 DEF Team!Only
  <2>7. Team!Only(load.equip, T, << >>) \in [Char -> Seq(Equip)] BY <1>1 DEF Team!Only
  <2>8. s # << >> BY <2>2, <2>3, <2>4
  <2> QED BY <2>2, <2>3, <2>4, <2>5, <2>6, <2>7, <2>8 DEF Team!IsLoadout, Team!Loadout
<1>4. ASSUME NEW a \in Team!Art, NEW c \in Char, NEW k \in KungFu \cup {0}
      PROVE  LET L == [load EXCEPT ![a][c] = k] IN Team!IsLoadout(L) /\ L.chars = load.chars
  <2> DEFINE L == [load EXCEPT ![a][c] = k]
  <2>1. CASE a = "skill"
    <3>1. L = [load EXCEPT !.skill = [load.skill EXCEPT ![c] = k]] BY <1>1, <2>1 DEF Team!Loadout
    <3> QED BY <1>1, <3>1 DEF Team!IsLoadout, Team!Loadout
  <2>2. CASE a = "nei"
    <3>1. L = [load EXCEPT !.nei = [load.nei EXCEPT ![c] = k]] BY <1>1, <2>2 DEF Team!Loadout
    <3> QED BY <1>1, <3>1 DEF Team!IsLoadout, Team!Loadout
  <2> QED BY <2>1, <2>2 DEF Team!Art
<1>5. ASSUME NEW c \in Char, NEW s \in Team!Pieces
      PROVE  LET L == [load EXCEPT !.equip[c] = s] IN Team!IsLoadout(L) /\ L.chars = load.chars
  <2>1. PICK n \in 0..MaxEquip : s \in [1..n -> Equip] BY DEF Team!Pieces
  <2>2. s \in Seq(Equip) BY <1>2, <2>1
  <2>3. [load.equip EXCEPT ![c] = s] \in [Char -> Seq(Equip)] BY <1>1, <2>2
  <2> QED BY <1>1, <2>3 DEF Team!IsLoadout, Team!Loadout
<1> QED BY <1>3, <1>4, <1>5

\* A process starts with a row that some version left.
LEMMA TeamInit == Team!Init => TeamInv
<1> SUFFICES ASSUME Team!Init PROVE TeamInv OBVIOUS
<1>1. teamRestarts \in 0..TeamRestarts BY TeamConstants DEF Team!Init, Team!TeamAssumption
<1>2. Team!IsLoadout(load) /\ Team!IsFightData(blob) BY TeamConstants DEF Team!Init, Team!TeamAssumption
<1>3. settled = FALSE /\ settled \in BOOLEAN BY DEF Team!Init
<1> QED BY <1>1, <1>2, <1>3 DEF Team!Init, TeamInv, Team!TypeOK, Team!SentHasSkills, Team!IsFightData

\* Every request, of the owner or of somebody else, and every restart keeps the
\* invariant.
LEMMA TeamStep == TeamInv /\ [Team!Next]_teams => TeamInv'
<1> SUFFICES ASSUME TeamInv, [Team!Next]_teams PROVE TeamInv' OBVIOUS
<1>1. /\ pool \in Pools /\ settled \in BOOLEAN /\ teamRestarts \in 0..TeamRestarts
      /\ Team!IsLoadout(load) /\ Team!IsFightData(blob) /\ Team!IsFightData(sent)
  BY DEF TeamInv, Team!TypeOK
<1>2. \A c : c \in Team!Team(load) => load.chars # << >> BY DEF Team!Team, Team!Elements
<1>3. CASE \E s \in Team!Teams : Team!SetChars(s)
  <2>1. PICK s \in Team!Teams : Team!SetChars(s) BY <1>3
  <2> QED BY <1>1, <2>1, SetLoadouts, Saved DEF Team!SetChars
<1>4. CASE \E a \in Team!Art, c \in Char, k \in KungFu \cup {0} : Team!SetKungfu(a, c, k)
  <2>1. PICK a \in Team!Art, c \in Char, k \in KungFu \cup {0} : Team!SetKungfu(a, c, k) BY <1>4
  <2> QED BY <1>1, <1>2, <2>1, SetLoadouts, Saved DEF Team!SetKungfu
<1>5. CASE \E c \in Char, s \in Team!Pieces : Team!SetEquip(c, s)
  <2>1. PICK c \in Char, s \in Team!Pieces : Team!SetEquip(c, s) BY <1>5
  <2> QED BY <1>1, <1>2, <2>1, SetLoadouts, Saved DEF Team!SetEquip
<1>6. CASE Team!Upload
  <2>1. load.chars # << >> BY <1>2, <1>6 DEF Team!Upload
  <2> QED BY <1>1, <1>6, <2>1, Saved DEF Team!Upload
<1>7. CASE Team!Visit
  <2> DEFINE L == Team!Cleaned(load)
             M == Team!EnsureKungfu(L)
  <2>1. L.chars # << >>
        /\ \/ /\ M.skill = L.skill /\ M.nei = L.nei /\ blob = Team!FightDataOf(M)
              /\ settled' = TRUE /\ sent' = None /\ UNCHANGED <<pool, load, blob, teamRestarts>>
           \/ Team!Save(M)
    BY <1>7 DEF Team!Visit
  <2>2. Team!IsLoadout(L) /\ L.skill = load.skill /\ L.nei = load.nei BY <1>1, CleanedOf
  <2>3. Team!IsLoadout(M) /\ \A a \in Team!Art : Shared(M[a], a, Team!Team(M)) BY <1>1, <2>2, Ensured
  <2>4. CASE Team!Save(M) BY <2>1, <2>2, <2>4, Saved
  <2>5. CASE /\ M.skill = L.skill /\ M.nei = L.nei /\ blob = Team!FightDataOf(M)
             /\ settled' = TRUE /\ sent' = None /\ UNCHANGED <<pool, load, blob, teamRestarts>>
    <3>1. load.chars # << >>
      <4> SUFFICES ASSUME load.chars = << >> PROVE FALSE OBVIOUS
      <4>1. Len(L.chars) <= Len(load.chars) /\ L.chars \in Seq(Char)
        BY <1>1, <2>2, CleanedOf, LoadoutTeam DEF HasTeam
      <4> HIDE DEF L
      <4> QED BY <2>1, <4>1
    <3>2. InOrder(blob) BY <1>1, <2>3, <2>5, TidyFight
    <3>3. blob \in Followed(load) BY <2>5 DEF Followed
    <3> HIDE DEF L, M
    <3>4. M["skill"] = load["skill"] /\ M["nei"] = load["nei"] BY <2>2, <2>5
    <3>5. \A a \in Team!Art : OneOwner(load[a]) BY <2>3, <3>4 DEF Team!Art, Shared, OneOwner
    <3>6. ServedRow BY <3>1, <3>2, <3>3, <3>5 DEF ServedRow
    <3>7. (Team!TypeOK /\ Team!SentHasSkills)' BY <1>1, <2>5 DEF Team!TypeOK, Team!SentHasSkills, Team!IsLoadout, Team!IsFightData
    <3>8. ServedRow' BY <2>5, <3>6, SameRow
    <3> QED BY <3>7, <3>8 DEF TeamInv
  <2> QED BY <2>1, <2>4, <2>5
<1>8. CASE Team!RebuildMissing
  <2>1. blob = None /\ blob' = Team!FightDataOf(load) /\ sent' = None
        /\ UNCHANGED <<pool, load, settled, teamRestarts>>
    BY <1>8 DEF Team!RebuildMissing
  <2>2. ~settled BY <2>1, NoFight DEF TeamInv, ServedRow
  <2>3. HasTeam(load) BY <1>1, LoadoutTeam
  <2>4. blob' \in Team!FightData /\ Len(blob'.team) = Len(load.chars) BY <1>1, <2>1, <2>3, FightType
  <2>5. Team!IsFightData(blob') BY <2>3, <2>4 DEF Team!IsFightData, HasTeam
  <2> QED BY <1>1, <2>1, <2>2, <2>5 DEF TeamInv, Team!TypeOK, Team!SentHasSkills, Team!IsLoadout, Team!IsFightData
<1>9. CASE Team!Show
  <2>1. blob # None /\ sent' = Team!CurrentFightData(blob) /\ UNCHANGED <<pool, load, blob, settled, teamRestarts>>
    BY <1>9 DEF Team!Show
  <2>2. Sendable(sent') BY <1>1, <2>1, CurrentOf DEF Team!IsFightData, Sendable
  <2>3. ServedRow => ServedRow' BY <2>1, SameRow
  <2> QED BY <1>1, <2>1, <2>2, <2>3, SendableShows DEF TeamInv, Team!TypeOK, Team!IsLoadout, Team!IsFightData
<1>10. CASE Team!Fought
  <2>1. blob # None /\ sent' = Team!CurrentFightData(blob) /\ blob' = sent' /\ UNCHANGED <<pool, load, settled, teamRestarts>>
    BY <1>10 DEF Team!Fought
  <2>2. Sendable(sent') BY <1>1, <2>1, CurrentOf DEF Team!IsFightData, Sendable
  <2>3. settled => ServedRow' BY <2>1, InOrderStays, SameRow DEF TeamInv, ServedRow
  <2> QED BY <1>1, <2>1, <2>2, <2>3, SendableShows DEF TeamInv, Team!TypeOK, Team!IsLoadout, Team!IsFightData
<1>11. CASE Team!Restart
  <2>1. /\ teamRestarts < TeamRestarts /\ teamRestarts' = teamRestarts + 1 /\ pool' \in Pools
        /\ settled' = FALSE /\ sent' = None /\ UNCHANGED <<load, blob>>
    BY <1>11 DEF Team!Restart
  <2>2. teamRestarts' \in 0..TeamRestarts BY <1>1, <2>1, TeamConstants DEF Team!TeamAssumption
  <2> QED BY <1>1, <2>1, <2>2 DEF TeamInv, Team!TypeOK, Team!SentHasSkills, Team!IsLoadout, Team!IsFightData
<1>12. CASE UNCHANGED teams
  <2>1. UNCHANGED <<pool, load, blob, settled, sent, teamRestarts>> BY <1>12 DEF teams
  <2>2. ServedRow => ServedRow' BY <2>1, SameRow
  <2> QED BY <1>1, <2>1, <2>2 DEF TeamInv, Team!TypeOK, Team!SentHasSkills, Team!IsLoadout, Team!IsFightData, Team!InPool, Team!Elements
<1> QED BY <1>3, <1>4, <1>5, <1>6, <1>7, <1>8, <1>9, <1>10, <1>11, <1>12 DEF Team!Next

\* The team keeps its invariant through all requests of its owner and of others and
\* through restarts with other pools (the handlers of lunjian.cpp under g_mu).
THEOREM TeamInvariant == Arena => []TeamInv
<1>1. Start => TeamInv BY TeamInit DEF Start
<1>2. TeamInv /\ [Turn]_<<part, vars, draws, teams>> => TeamInv'
  <2>1. [Turn]_<<part, vars, draws, teams>> => [Team!Next]_teams BY DEF Turn
  <2> QED BY <2>1, TeamStep
<1> QED BY <1>1, <1>2, PTL DEF Arena

\* The row of a player the running process has served is in order, and his fight
\* data is that of his loadout, whatever older versions and restarts left and
\* whoever else's requests rewrite it (repair_fighter_loadout, save_loadout,
\* current_fight_data).
THEOREM TeamOrder == Arena => []TeamsInOrder
<1>1. TeamInv => TeamsInOrder BY TeamShows DEF TeamsInOrder
<1> QED BY <1>1, TeamInvariant, PTL

\* What is sent of a team gives everybody a skill of the pool, unless nobody of it
\* is in the pool any more (current_fight_data, resolve_fight_skill).
THEOREM TeamSkills == Arena => []SentHasSkills
<1>1. TeamInv => SentHasSkills BY TeamShows DEF SentHasSkills
<1> QED BY <1>1, TeamInvariant, PTL

==============================================================================
