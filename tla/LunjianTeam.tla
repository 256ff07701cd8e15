------------------------------ MODULE LunjianTeam ------------------------------
(***************************************************************************)
(* One player's team in the arena (lunjian.cpp): the loadout the player    *)
(* chooses, the fight data built from it, and what other players are sent  *)
(* of it, while restarts may change the week's pool under the stored row.  *)
(*                                                                         *)
(* All handlers run under g_mu and write the row with one statement, so a  *)
(* request is a step.  Players and substitutes of a fight are treated      *)
(* alike by the code and form one sequence.                                *)
(***************************************************************************)
EXTENDS Naturals, FiniteSets, Sequences

CONSTANTS Char, Nick,  \* characters and the names they show
          KungFu,      \* ids of skills and inner arts, positive numbers
          Equip, Slot, \* equipment and the slot each piece is for
          Pools,       \* the pools a catalogue may draw: [chars, skill, nei, equip]
          Legacy,      \* rows that older versions left: [load, blob]
          MaxTeam, MaxEquip, \* picks of handle_set
          MaxRestarts,
          Ver,         \* kFightDataVer
          None

Art == {"skill", "nei"}

Distinct(s) == \A i \in DOMAIN s : \A j \in DOMAIN s : s[i] = s[j] => i = j
Teams == UNION {[1..n -> Char] : n \in 1..MaxTeam}
Pieces == UNION {[1..n -> Equip] : n \in 0..MaxEquip}

\* loadout_json: the chars in their order, and per character skill, nei, equip;
\* fight_data: the version of the rules and the team.
Loadout == [chars : Seq(Char), skill : [Char -> KungFu \cup {0}],
            nei : [Char -> KungFu \cup {0}], equip : [Char -> Seq(Equip)]]
Member == [head : Char, skill : KungFu \cup {0}, nei : KungFu \cup {0}, equip : SUBSET Equip]
FightData == [ver : 0..Ver, team : Seq(Member)]

IsLoadout(L) == L \in Loadout /\ Len(L.chars) <= MaxTeam /\ Distinct(L.chars)
IsFightData(b) == b = None \/ (b \in FightData /\ Len(b.team) <= MaxTeam)

TeamAssumption ==
  /\ Nick \in [Char -> STRING] /\ KungFu \subseteq Nat \ {0}
  /\ MaxTeam \in Nat /\ MaxEquip \in Nat /\ MaxRestarts \in Nat /\ Ver \in Nat
  /\ \A p \in Pools : /\ p.chars \subseteq Char /\ p.equip \subseteq Equip
                      /\ \A a \in Art : p[a] \in Seq(KungFu) /\ Distinct(p[a])
                      /\ Len(p.skill) >= MaxTeam
  /\ Legacy # {}
  /\ \A r \in Legacy : IsLoadout(r.load) /\ IsFightData(r.blob)
  /\ None \notin FightData

VARIABLES pool,     \* g_pool
          load,     \* loadout_json
          blob,     \* fight_data, or None
          settled,  \* history: the owner was served by the running process
          sent,     \* the fight data the last step sent to a client, None if it sent none
          restarts

vars == <<pool, load, blob, settled, sent, restarts>>

-----------------------------------------------------------------------------
Elements(s) == {s[i] : i \in DOMAIN s}
InPool(a, k) == k \in Elements(pool[a])
Team(L) == Elements(L.chars)
OwnedBy(L, a) == {L[a][c] : c \in Char} \ {0}
Index(s, x) == CHOOSE i \in DOMAIN s : s[i] = x

\* The n-th number of I, from 0, and what s has at the numbers of I, in order.
Nth(I, n) == CHOOSE i \in I : Cardinality({j \in I : j < i}) = n
Pick(s, I) == [n \in 1..Cardinality(I) |-> s[Nth(I, n - 1)]]

\* kungfu_used_by_other and try_assign_kungfu: nobody is robbed of his art.
UsedByOther(owned, c, k) == k # 0 /\ \E d \in Char \ {c} : owned[d] = k

\* take_unused_kungfu: the first of the pool that is not owned, 0 without one.
TakeUnused(a, owned) ==
  LET free == {i \in DOMAIN pool[a] : pool[a][i] \notin owned} IN
  IF free = {} THEN 0 ELSE pool[a][Nth(free, 0)]

\* The first pass of ensure_loadout_kungfu: a member keeps an art of the pool
\* unless an earlier member keeps it.
Keeps(L, a) ==
  [c \in Char |->
     IF /\ c \in Team(L) /\ InPool(a, L[a][c])
        /\ \A i \in 1..(Index(L.chars, c) - 1) : L[a][L.chars[i]] # L[a][c]
     THEN L[a][c] ELSE 0]

\* The second pass: members without an art take the unused ones in turn.
Filled(L, a) ==
  LET kept == Keeps(L, a)
      free == Pick(pool[a], {i \in DOMAIN pool[a] : \A c \in Char : kept[c] # pool[a][i]})
      poor == Pick(L.chars, {i \in DOMAIN L.chars : kept[L.chars[i]] = 0})
  IN [c \in Char |-> IF c \in Elements(poor) /\ Index(poor, c) <= Len(free)
                     THEN free[Index(poor, c)] ELSE kept[c]]

EnsureKungfu(L) == [L EXCEPT !.skill = Filled(L, "skill"), !.nei = Filled(L, "nei")]

ResolveFight(L, a, c) == IF InPool(a, L[a][c]) THEN L[a][c] ELSE TakeUnused(a, OwnedBy(L, a))

\* slotted_equips: of each slot the first piece, if it is of the pool.
Slotted(s) ==
  {s[i] : i \in {j \in DOMAIN s : /\ s[j] \in pool.equip
                                  /\ \A h \in 1..(j - 1) : s[h] \in pool.equip => Slot[s[h]] # Slot[s[j]]}}

FightDataOf(L) ==
  [ver |-> Ver,
   team |-> [i \in DOMAIN L.chars |->
               LET c == L.chars[i] IN
               [head |-> c, skill |-> ResolveFight(L, "skill", c),
                nei |-> ResolveFight(L, "nei", c), equip |-> Slotted(L.equip[c])]]]

\* fight_needs_rebuild looks at the version, the skills and the inner arts.
NeedsRebuild(b) ==
  \/ b.ver # Ver
  \/ \E i \in DOMAIN b.team : \/ ~InPool("skill", b.team[i].skill)
                              \/ b.team[i].nei # 0 /\ ~InPool("nei", b.team[i].nei)

\* fight_blob_for_rebuild: the members of the pool, with what of theirs is of it.
\* (Without any, fight_blob_in_pool refuses the blob too.)
ForRebuild(b) ==
  LET heads == [i \in DOMAIN b.team |-> b.team[i].head]
      first == {i \in DOMAIN heads : heads[i] \in pool.chars /\ \A j \in 1..(i - 1) : heads[j] # heads[i]}
      of(c) == {i \in first : heads[i] = c}
      art(a) == [c \in Char |-> IF \E i \in of(c) : InPool(a, b.team[i][a])
                                THEN b.team[CHOOSE i \in of(c) : TRUE][a] ELSE 0]
  IN [chars |-> Pick(heads, first), skill |-> art("skill"), nei |-> art("nei"),
      equip |-> [c \in Char |-> IF of(c) = {} THEN << >>
                 ELSE LET S == b.team[CHOOSE i \in of(c) : TRUE].equip \cap pool.equip
                      IN CHOOSE s \in [1..Cardinality(S) -> S] : Elements(s) = S]]

\* Faulty: only the version is looked at.
TrustingFightData(b) == IF b = None \/ b.ver = Ver THEN b ELSE FightDataOf(ForRebuild(b))

CurrentFightData(b) ==
  IF b = None \/ ~NeedsRebuild(b) \/ ForRebuild(b).chars = << >> THEN b
  ELSE FightDataOf(ForRebuild(b))

-----------------------------------------------------------------------------
Init ==
  /\ pool \in Pools
  /\ \E r \in Legacy : load = r.load /\ blob = r.blob
  /\ settled = FALSE /\ sent = None /\ restarts = 0

\* The end of every request of the owner that saves the row.
Save(L) ==
  /\ load' = L
  /\ blob' = IF L.chars = << >> THEN None ELSE FightDataOf(L)
  /\ settled' = TRUE
  /\ sent' = None /\ UNCHANGED <<pool, restarts>>

Only(f, S, none) == [c \in Char |-> IF c \in S THEN f[c] ELSE none]

\* handle_set, kind char: members of the pool, no name twice; the others lose
\* what they had.
SetChars(s) ==
  /\ Elements(s) \subseteq pool.chars
  /\ \A i \in DOMAIN s : \A j \in DOMAIN s : Nick[s[i]] = Nick[s[j]] => i = j
  /\ LET T == Elements(s) IN
     Save(EnsureKungfu([chars |-> s, skill |-> Only(load.skill, T, 0), nei |-> Only(load.nei, T, 0),
                        equip |-> Only(load.equip, T, << >>)]))

\* kinds skill and nei; 0 gives the art back.
SetKungfu(a, c, k) ==
  /\ c \in Team(load) /\ (k # 0 => InPool(a, k))
  /\ ~UsedByOther(load[a], c, k)
  /\ Save(EnsureKungfu([load EXCEPT ![a][c] = k]))

SetEquip(c, s) ==
  /\ c \in Team(load) /\ Elements(s) \subseteq pool.equip /\ Distinct(s)
  /\ Save(EnsureKungfu([load EXCEPT !.equip[c] = s]))

\* handle_upload: what the client says of its strength is ignored.
Upload == Team(load) # {} /\ Save(EnsureKungfu(load))

\* The members repair_fighter_loadout keeps: of the pool, each name once.
Cleaned(L) ==
  LET keep(i) == /\ L.chars[i] \in pool.chars
                 /\ \A j \in 1..(i - 1) : ~(L.chars[j] \in pool.chars /\ Nick[L.chars[j]] = Nick[L.chars[i]])
  IN [L EXCEPT !.chars = Pick(L.chars, {i \in DOMAIN L.chars : keep(i)})]

\* Faulty: the row is left alone while its fight data passes for current.
LazyVisit ==
  /\ Team(load) \cap pool.chars # {}
  /\ IF blob # None /\ ~NeedsRebuild(blob)
     THEN settled' = TRUE /\ sent' = None /\ UNCHANGED <<pool, load, blob, restarts>>
     ELSE Save(EnsureKungfu(Cleaned(load)))

\* The owner asks for the board, the pool or an enemy: repair_fighter_loadout
\* saves the row if its arts changed or its fight data is another.
Visit ==
  LET L == Cleaned(load)  M == EnsureKungfu(L) IN
  /\ L.chars # << >>
  /\ IF M.skill = L.skill /\ M.nei = L.nei /\ blob = FightDataOf(M)
     THEN settled' = TRUE /\ sent' = None /\ UNCHANGED <<pool, load, blob, restarts>>
     ELSE Save(M)

\* handle_find when there is no fight data: out of the loadout as it is.
RebuildMissing ==
  /\ Cleaned(load).chars = << >> /\ Team(load) # {} /\ blob = None
  /\ blob' = FightDataOf(load)
  /\ sent' = None /\ UNCHANGED <<pool, load, settled, restarts>>

\* Somebody reads the list.
Show == blob # None /\ sent' = CurrentFightData(blob) /\ UNCHANGED <<pool, load, blob, settled, restarts>>

\* Somebody is given this player as enemy: what is sent is stored as well.
Fought ==
  /\ blob # None
  /\ sent' = CurrentFightData(blob) /\ blob' = sent'
  /\ UNCHANGED <<pool, load, settled, restarts>>

\* A restart loads the catalogue again, which may have changed.
Restart ==
  /\ restarts < MaxRestarts /\ restarts' = restarts + 1
  /\ pool' \in Pools /\ settled' = FALSE /\ sent' = None
  /\ UNCHANGED <<load, blob>>

Next ==
  \/ \E s \in Teams : SetChars(s)
  \/ \E a \in Art, c \in Char, k \in KungFu \cup {0} : SetKungfu(a, c, k)
  \/ \E c \in Char, s \in Pieces : SetEquip(c, s)
  \/ Upload \/ Visit \/ RebuildMissing \/ Show \/ Fought \/ Restart

Spec == Init /\ [][Next]_vars

-----------------------------------------------------------------------------
(* Properties.                                                             *)

TypeOK ==
  /\ pool \in Pools /\ settled \in BOOLEAN /\ restarts \in 0..MaxRestarts
  /\ IsLoadout(load) /\ IsFightData(blob) /\ IsFightData(sent)

\* lunjian.cpp:47: an art belongs to one member only, and everybody has a skill
\* (46: the client crashes without), in the loadout and the fight data of every
\* player the running process has served, whatever stood in the row before.
OwnTeamInOrder ==
  settled =>
    /\ \A a \in Art : \A c \in Team(load) : ~UsedByOther(load[a], c, load[a][c])
    /\ blob # None =>
         \A i \in DOMAIN blob.team :
           /\ InPool("skill", blob.team[i].skill)
           /\ \A j \in DOMAIN blob.team \ {i} : \A a \in Art :
                blob.team[i][a] # 0 => blob.team[i][a] # blob.team[j][a]

\* A player the process has served fights as configured: the fight data is
\* that of the loadout, although others' requests rewrite it too.  Of a row of an
\* older version it may be that of the loadout without the members the pool lost:
\* the row is not written again only because of them.
BlobFollowsLoadout ==
  settled => blob \in {FightDataOf(load), FightDataOf(EnsureKungfu(Cleaned(load)))}

\* What is sent of a team has a skill of the pool for everybody, unless nobody
\* of the team is in the pool any more.
SentHasSkills ==
  sent # None =>
    \/ \A i \in DOMAIN sent.team : InPool("skill", sent.team[i].skill)
    \/ \A i \in DOMAIN sent.team : sent.team[i].head \notin pool.chars

\* The row of a player who was served is in order, loadout and fight data
\* together (repair_fighter_loadout).
TeamsInOrder == TypeOK /\ OwnTeamInOrder /\ BlobFollowsLoadout
=============================================================================
