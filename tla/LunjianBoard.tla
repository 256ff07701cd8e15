----------------------------- MODULE LunjianBoard -----------------------------
(***************************************************************************)
(* The arena's board of one channel (lunjian.cpp): rows of players and of  *)
(* computer opponents per week, daily attempts, scores, and the version    *)
(* by which clients keep the list they have.                               *)
(*                                                                         *)
(* Requests run one after the other under g_mu, each as several statements *)
(* on the database, any of which may fail, executed or not; a crash ends   *)
(* the request and the versions, which are kept in memory.  Teams are      *)
(* LunjianTeam's business: a row has fight data or has none.  A version is *)
(* a fresh random number, so all that matters of it is which clients have  *)
(* the present one.                                                        *)
(***************************************************************************)
EXTENDS Naturals, FiniteSets

CONSTANTS Player,         \* account and area
          NpcCount,       \* kNpcCount
          DefaultTimes,   \* kDefaultTimes
          Gain,           \* what a result may add (2 to 4 for a loss, 8 to 10 for a win)
          WeekDays, LastDay, \* days of a week, and the last day looked at
          MaxResults, MaxFaults, MaxRestarts,
          None

Day == 0..LastDay
WeekOf(d) == d \div WeekDays
Week == {WeekOf(d) : d \in Day}
Npc == 0..(NpcCount - 1)

\* A player's row, with or without fight data; a computer opponent, whose team is
\* of the present pool or not.
Row == [score : Nat, times : 0..DefaultTimes, day : Day, fights : BOOLEAN]
Opponent == [score : Nat, ok : BOOLEAN]

BoardAssumption ==
  /\ NpcCount \in Nat \ {0} /\ DefaultTimes \in Nat \ {0} /\ Gain \subseteq Nat \ {0}
  /\ WeekDays \in Nat \ {0} /\ LastDay \in Nat
  /\ None \notin Row \cup Opponent

VARIABLES
  day, week,   \* the present day; g_pool.week_id
  ready,       \* g_ready
  rows, npcs,  \* lunjian_fighter, per week: is_npc = 0 and 1
  job,         \* the request that holds g_mu
  client,      \* the week and the list a client keeps, if their version is in g_ver
  told,        \* the client last told that its list is current
  results, faults, restarts,
  acked,       \* history: the points a player was told of, per week
  matched,     \* history: attempts given for one row and day
  doubtful,    \* history: weeks with a statement that ran although it was reported failed
  broken       \* history: weeks with an interrupted rebuild of the opponents

mem == <<ready, week>>
bounds == <<results, restarts>>
history == <<acked, matched, doubtful, broken>>
vars == <<day, mem, rows, npcs, job, client, told, bounds, faults, history>>

Score(i) == 6 + 3 * i
Board == [p \in {q \in Player : rows[week][q] # None /\ rows[week][q].score > 0} |-> rows[week][p].score]
NpcBoard == [n \in {m \in Npc : npcs[week][m] # None} |-> npcs[week][n].score]

-----------------------------------------------------------------------------
Init ==
  /\ day = 0 /\ week = 0 /\ ready = FALSE
  /\ rows = [w \in Week |-> [p \in Player |-> None]]
  /\ npcs = [w \in Week |-> [n \in Npc |-> None]]
  /\ job = [kind |-> "boot", who |-> None, pc |-> "npcs", todo |-> << >>]
  /\ client = [p \in Player |-> None] /\ told = None
  /\ results = 0 /\ faults = 0 /\ restarts = 0
  /\ acked = [w \in Week |-> [p \in Player |-> 0]]
  /\ matched = [p \in Player |-> [week |-> 0, day |-> 0, n |-> 0]]
  /\ doubtful = {} /\ broken = {}

At(l) == job # None /\ job.pc = l
GoTo(l) == [job EXCEPT !.pc = l]

\* A step of the request: a statement that may run and still be reported as
\* failed, which ends the request (and the start-up) with an error.
Step(next) ==
  /\ told' = None
  /\ \/ job' = next /\ UNCHANGED <<faults, doubtful>>
     \/ /\ faults < MaxFaults /\ faults' = faults + 1
        /\ job' = None /\ doubtful' = doubtful \cup {week}

Bump == client' = [p \in Player |-> IF client[p] # None /\ client[p].week = week THEN None ELSE client[p]]

-----------------------------------------------------------------------------
(* ensure_npcs.                                                            *)

AllOk == /\ \E n \in Npc : npcs[week][n] # None
         /\ \A n \in Npc : npcs[week][n] # None => npcs[week][n].ok
Missing == {n \in Npc : npcs[week][n] = None}
AfterNpcs == IF job.kind = "boot" THEN "ready" ELSE "player"

CheckNpcs ==
  /\ At("npcs")
  /\ job' = IF AllOk /\ Missing = {} THEN GoTo(AfterNpcs)
            ELSE IF AllOk THEN [job EXCEPT !.pc = "save", !.todo = [n \in Missing |-> Score(n)]]
            ELSE GoTo("delete")
  /\ told' = None
  /\ UNCHANGED <<day, mem, rows, npcs, client, bounds, faults, history>>

\* All are built anew; their scores follow their strength, whatever that is.
DeleteNpcs ==
  /\ At("delete")
  /\ npcs' = [npcs EXCEPT ![week] = [n \in Npc |-> None]]
  /\ \E f \in [Npc -> {Score(i) : i \in Npc}] :
       /\ \A m, n \in Npc : f[m] = f[n] => m = n
       /\ Step([job EXCEPT !.pc = "save", !.todo = f])
  /\ broken' = broken \ {week}
  /\ UNCHANGED <<day, mem, rows, client, bounds, acked, matched>>

SaveNpc(n) ==
  /\ At("save") /\ n \in DOMAIN job.todo
  /\ npcs' = [npcs EXCEPT ![week][n] = [score |-> job.todo[n], ok |-> TRUE]]
  /\ Step([job EXCEPT !.todo = [m \in DOMAIN job.todo \ {n} |-> job.todo[m]]])
  /\ broken' = IF job' = None THEN broken \cup {week} ELSE broken
  /\ UNCHANGED <<day, mem, rows, client, bounds, acked, matched>>

NpcsSaved ==
  /\ At("save") /\ DOMAIN job.todo = {}
  /\ Bump /\ job' = GoTo(AfterNpcs) /\ told' = None
  /\ UNCHANGED <<day, mem, rows, npcs, bounds, faults, history>>

-----------------------------------------------------------------------------
(* ensure_player and the handlers.                                         *)

\* refresh_pool, then the handler: the board, the pool and the search for an
\* enemy look at the opponents first.
Begin(k, p) ==
  /\ job = None /\ ready
  /\ k = "end" => results < MaxResults
  /\ week' = WeekOf(day)
  /\ job' = [kind |-> k, who |-> p, todo |-> << >>,
             pc |-> IF k \in {"top", "pool", "find"} THEN "npcs" ELSE "player"]
  /\ told' = None
  /\ UNCHANGED <<day, ready, rows, npcs, client, bounds, faults, history>>

Me == rows[week][job.who]
AfterPlayer == IF job.kind \in {"top", "pool", "find"} THEN "repair" ELSE job.kind

\* A new player has a row with all attempts; a new day gives them back.
EnsurePlayer ==
  /\ At("player")
  /\ rows' = IF Me = None
             THEN [rows EXCEPT ![week][job.who] =
                     [score |-> 0, times |-> DefaultTimes, day |-> day, fights |-> FALSE]]
             ELSE IF Me.day = day THEN rows
             ELSE [rows EXCEPT ![week][job.who] = [@ EXCEPT !.times = DefaultTimes, !.day = day]]
  /\ Step(GoTo(AfterPlayer))
  /\ UNCHANGED <<day, mem, npcs, client, bounds, acked, matched, broken>>

\* repair_fighter_loadout writes the whole row back, team and power changed:
\* to this model nothing happens.
Repair ==
  /\ At("repair")
  /\ Step(IF job.kind = "pool" THEN None ELSE GoTo(job.kind))
  /\ UNCHANGED <<day, mem, rows, npcs, client, bounds, acked, matched, broken>>

\* handle_top: a client whose version is current is sent no list.
Top ==
  /\ At("top") /\ job' = None
  /\ IF client[job.who] # None /\ client[job.who].week = week
     THEN told' = job.who /\ UNCHANGED client
     ELSE told' = None /\ client' = [client EXCEPT ![job.who] = [week |-> week, list |-> <<Board, NpcBoard>>]]
  /\ UNCHANGED <<day, mem, rows, npcs, bounds, faults, history>>

\* Faulty: the attempt is taken when the result comes in, which may never be.
FreeMatch ==
  /\ At("find") /\ Me.fights /\ Me.times > 0
  /\ LET m == matched[job.who]
         n == IF m.week = week /\ m.day = Me.day THEN m.n ELSE 0
     IN matched' = [matched EXCEPT ![job.who] = [week |-> week, day |-> Me.day, n |-> n + 1]]
  /\ job' = None /\ told' = None
  /\ UNCHANGED <<day, mem, rows, npcs, client, bounds, faults, acked, doubtful, broken>>

\* handle_find: somebody with fight data is the enemy, and an attempt is used.
Match ==
  /\ At("find") /\ Me.fights /\ Me.times > 0
  /\ \/ \E q \in Player \ {job.who} : rows[week][q] # None /\ rows[week][q].fights
     \/ \E n \in Npc : npcs[week][n] # None
  /\ rows' = [rows EXCEPT ![week][job.who].times = @ - 1]
  /\ Step(None)
  /\ LET m == matched[job.who]
         n == IF m.week = week /\ m.day = Me.day THEN m.n ELSE 0
     IN matched' = IF doubtful' # doubtful \/ faults' # faults THEN matched
                   ELSE [matched EXCEPT ![job.who] = [week |-> week, day |-> Me.day, n |-> n + 1]]
  /\ UNCHANGED <<day, mem, npcs, client, bounds, acked, broken>>

NoMatch ==
  /\ At("find") /\ (~Me.fights \/ Me.times = 0)
  /\ job' = None /\ told' = None
  /\ UNCHANGED <<day, mem, rows, npcs, client, bounds, faults, history>>

\* Faulty: the version stays.
SilentResult(g) ==
  /\ At("end") /\ results < MaxResults /\ results' = results + 1
  /\ rows' = [rows EXCEPT ![week][job.who].score = @ + g]
  /\ Step(None)
  /\ acked' = IF faults' = faults THEN [acked EXCEPT ![week][job.who] = @ + g] ELSE acked
  /\ UNCHANGED <<day, mem, npcs, client, restarts, matched, broken>>

\* handle_end: whatever was matched before, the result counts, in this week.
Result(g) ==
  /\ At("end") /\ results < MaxResults /\ results' = results + 1
  /\ rows' = [rows EXCEPT ![week][job.who].score = @ + g]
  /\ Step(None)
  /\ IF faults' = faults
     THEN Bump /\ acked' = [acked EXCEPT ![week][job.who] = @ + g]
     ELSE UNCHANGED <<client, acked>>
  /\ UNCHANGED <<day, mem, npcs, restarts, matched, broken>>

\* handle_set: the row gets fight data; the version stays.
SetTeam ==
  /\ At("set")
  /\ rows' = [rows EXCEPT ![week][job.who].fights = TRUE]
  /\ Step(None)
  /\ UNCHANGED <<day, mem, npcs, client, bounds, acked, matched, broken>>

\* handle_upload: name, head and strength, which this model does not tell apart.
Upload ==
  /\ At("upload")
  /\ Step(None)
  /\ IF faults' = faults THEN Bump ELSE UNCHANGED client
  /\ UNCHANGED <<day, mem, rows, npcs, bounds, acked, matched, broken>>

-----------------------------------------------------------------------------
BecomesReady ==
  /\ At("ready") /\ job' = None /\ ready' = TRUE /\ told' = None
  /\ UNCHANGED <<day, week, rows, npcs, client, bounds, faults, history>>

\* A statement that is not executed: an exception ends the request.
DbError ==
  /\ job # None /\ faults < MaxFaults /\ faults' = faults + 1
  /\ job' = None /\ told' = None
  /\ broken' = IF job.pc = "save" THEN broken \cup {week} ELSE broken
  /\ UNCHANGED <<day, mem, rows, npcs, client, bounds, acked, matched, doubtful>>

\* The end of the process and its next start, perhaps with another catalogue,
\* which makes the opponents' teams of this week outdated.
Restart ==
  /\ restarts < MaxRestarts /\ restarts' = restarts + 1
  /\ ready' = FALSE /\ client' = [p \in Player |-> None] /\ week' = WeekOf(day)
  /\ \E same \in BOOLEAN :
       npcs' = [w \in Week |-> [n \in Npc |->
                  IF npcs[w][n] = None THEN None ELSE [npcs[w][n] EXCEPT !.ok = @ /\ same]]]
  /\ job' = [kind |-> "boot", who |-> None, pc |-> "npcs", todo |-> << >>]
  /\ told' = None
  /\ broken' = IF job # None /\ job.pc = "save" THEN broken \cup {week} ELSE broken
  /\ UNCHANGED <<day, rows, results, faults, acked, matched, doubtful>>

NextDay ==
  /\ day < LastDay /\ day' = day + 1
  /\ told' = None
  /\ UNCHANGED <<mem, rows, npcs, job, client, bounds, faults, history>>

Next ==
  \/ \E k \in {"top", "pool", "find", "end", "set", "upload"}, p \in Player : Begin(k, p)
  \/ CheckNpcs \/ DeleteNpcs \/ NpcsSaved \/ (\E n \in Npc : SaveNpc(n))
  \/ EnsurePlayer \/ Repair \/ Top \/ Match \/ NoMatch \/ SetTeam \/ Upload
  \/ \E g \in Gain : Result(g)
  \/ BecomesReady \/ DbError \/ Restart \/ NextDay

Spec == Init /\ [][Next]_vars

-----------------------------------------------------------------------------
(* Properties.                                                             *)

TypeOK ==
  /\ day \in Day /\ week \in Week /\ week <= WeekOf(day) /\ ready \in BOOLEAN
  /\ \A w \in Week : \A p \in Player : rows[w][p] = None \/ rows[w][p] \in Row
  /\ \A w \in Week : \A n \in Npc : npcs[w][n] = None \/ npcs[w][n] \in Opponent
  /\ \A p \in Player : client[p] # None => client[p].week \in Week
  /\ job # None /\ job.pc \in {"end", "set", "upload", "top", "find", "repair"} => Me # None
  /\ told \in Player \cup {None}

\* A client that is told its list is current has the present scores of all
\* players and opponents: every request that changes one also changes the
\* version.  A statement that ran although it was reported as failed is the
\* one exception (its score is there, its version is not).
TopCurrent ==
  told # None => \/ client[told].list = <<Board, NpcBoard>>
                 \/ week \in doubtful

\* However requests are repeated and the process restarts, a row is given no
\* more enemies on a day than attempts, and those left and those used make up
\* no more than a day's.
MatchesBounded ==
  \A p \in Player : LET m == matched[p] IN
    /\ m.n <= DefaultTimes
    /\ m.n > 0 /\ rows[m.week][p].day = m.day => rows[m.week][p].times + m.n <= DefaultTimes

\* The points a player was told of stay in his row, although other requests
\* write the whole row; nothing else is in it but results nobody was told of.
ScoresKept ==
  \A w \in Week : \A p \in Player :
    LET s == IF rows[w][p] = None THEN 0 ELSE rows[w][p].score IN
    s >= acked[w][p] /\ (w \notin doubtful => s = acked[w][p])

\* Whoever reads the board or looks for an enemy finds all opponents in teams of
\* the present pool, one at every step of the ladder of scores; an interrupted
\* rebuild may leave two on one step.
NpcLadder ==
  At("top") \/ At("find") =>
    /\ \A n \in Npc : npcs[week][n] # None /\ npcs[week][n].ok
    /\ week \notin broken => {npcs[week][n].score : n \in Npc} = {Score(i) : i \in Npc}

\* Attempts, points and opponents add up through repeated requests, errors half
\* way, restarts and the change of day and week: the three properties above.
Ladder == TypeOK /\ MatchesBounded /\ ScoresKept /\ NpcLadder
=============================================================================
