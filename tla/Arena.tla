---------------------------------- MODULE Arena ----------------------------------
(* LunjianBoard, LunjianPool and LunjianTeam side by side: the board of a  *)
(* channel, the week's pool and one player's team.  They share no          *)
(* variable, and no property is about two of them: behaviours in which one *)
(* of them moves show all there is to see.  part says which, and for the   *)
(* board whether one player acts, on several days, or all do on one day.   *)
EXTENDS LunjianBoard

CONSTANTS
  Person, Shown, Fixed, CharCount, Kind, Item, Star, GradedMax, PlainCount,  \* of LunjianPool,
  FirstWeek, FirstIds, Doc, Instant, Pin, MaxBoots,                          \* Shown is its Nick
  Char, Nick, KungFu, Equip, Slot, Pools, Legacy, MaxTeam, MaxEquip, Ver,    \* of LunjianTeam
  TeamRestarts

VARIABLES
  part,
  now, doc, pinFile, boots, poolReady, catalog, pinned, weekPool, drawn, answer,
  pool, load, blob, settled, sent, teamRestarts

draws == <<now, doc, pinFile, boots, poolReady, catalog, pinned, weekPool, drawn, answer>>
teams == <<pool, load, blob, settled, sent, teamRestarts>>

Pool == INSTANCE LunjianPool WITH Nick <- Shown, ready <- poolReady, pool <- weekPool
Team == INSTANCE LunjianTeam WITH MaxRestarts <- TeamRestarts, restarts <- teamRestarts

ASSUME BoardConstants == BoardAssumption
ASSUME PoolConstants == Pool!PoolAssumption
ASSUME TeamConstants == Team!TeamAssumption

\* The parts that never move have one beginning.
Start ==
  /\ part \in {"pool", "team", "day"} \cup Player
  /\ Init /\ Pool!Init /\ Team!Init
  /\ part # "pool" => doc = CHOOSE d \in Doc : TRUE
  /\ part # "team" => /\ pool = CHOOSE q \in Pools : TRUE
                      /\ [load |-> load, blob |-> blob] = CHOOSE r \in Legacy : TRUE

Turn ==
  \/ part = "pool" /\ Pool!Next /\ UNCHANGED <<part, vars, teams>>
  \/ part = "team" /\ Team!Next /\ UNCHANGED <<part, vars, draws>>
  \/ part = "day" /\ UNCHANGED <<part, day, draws, teams>> /\ Next
  \/ /\ part \in Player /\ Next /\ (job' # None => job'.who \in {None, part})
     /\ UNCHANGED <<part, draws, teams>>

Arena == Start /\ [][Turn]_<<part, vars, draws, teams>>

-----------------------------------------------------------------------------
(* The properties of LunjianPool and LunjianTeam, which state them at       *)
(* length; those of the board are its own.                                 *)

\* An answer is from the week's pool, and the pool is a fair draw.
PoolOfWeek == part = "pool" => Pool!PoolOfWeek

\* The team and fight data of a player who was served are in order and agree.
TeamsInOrder == part = "team" => Team!TeamsInOrder
\* Opponents are sent a martial art for everybody.
SentHasSkills == part = "team" => Team!SentHasSkills
==================================================================================
