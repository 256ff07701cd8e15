------------------------------ MODULE LunjianPool ------------------------------
(***************************************************************************)
(* The arena's weekly pool (lunjian_pool.cpp; refresh_pool and init of     *)
(* lunjian.cpp): the draw of a week's characters and items out of the      *)
(* catalogue, the arithmetic of weeks, the pinned period, and the pool a   *)
(* request is answered from.                                               *)
(*                                                                         *)
(* The unit of time is kShiftSec, four hours.  Shuffling makes a pool a    *)
(* set; the generator is seeded with the week alone, so a catalogue and a  *)
(* week always draw the same pool, which the variable drawn remembers.     *)
(***************************************************************************)
EXTENDS Naturals, FiniteSets, Sequences

CONSTANTS Person, Nick,      \* characters, and the name each one shows
          Fixed, CharCount,  \* kFixedCharIds, kCharCount
          Kind, Item, Star,  \* equips, skills, neis; their items; an item's star
          GradedMax, PlainCount,
          FirstWeek, FirstIds, \* the first period and its items of each kind
          Doc,               \* the contents data/doc.json may have
          Instant,           \* the moments at which something happens
          Pin,               \* weeks an operator pins
          MaxBoots,
          None

Day == 6
Shift == 1
Week == 7 * Day

\* What a kind's items are picked into, and g_pool.
Picked == [Kind -> [featured : SUBSET DOMAIN Star, plain : SUBSET DOMAIN Star]]
PoolType == [week : Nat, begin : Nat, end : Nat, chars : SUBSET Person, items : Picked]

\* The clock is past the first week of 1970.
PoolAssumption ==
  /\ Nick \in [Person -> STRING] /\ Fixed \in Seq(Person) /\ Len(Fixed) <= CharCount
  /\ CharCount \in Nat /\ GradedMax \in Nat /\ PlainCount \in Nat /\ MaxBoots \in Nat
  /\ IsFiniteSet(DOMAIN Star) /\ \A i \in DOMAIN Star : Star[i] \in 0..6
  /\ Item \in [Kind -> SUBSET DOMAIN Star]
  /\ FirstWeek \in Nat \ {0} /\ FirstIds \in [Kind -> SUBSET DOMAIN Star]
  /\ Doc \subseteq [person : SUBSET Person, item : [Kind -> SUBSET DOMAIN Star]]
  /\ \A d \in Doc : IsFiniteSet(d.person) /\ \A k \in Kind : d.item[k] \in (SUBSET Item[k]) \ {{}}
  /\ Instant \subseteq Nat /\ (\A t \in Instant : t >= Week) /\ Pin \subseteq Nat \ {0}
  /\ None \notin PoolType

VARIABLES now,
          doc, pinFile,  \* data/doc.json; data/lunjian_pin.json, 0: no such file
          boots,
          ready, catalog, pinned, pool, \* g_ready, g_catalog, g_pinned_week, g_pool
          drawn,         \* what the loaded catalogue draws in a week, once it was drawn
          answer         \* the moment of the last answer, which is from pool

vars == <<now, doc, pinFile, boots, ready, catalog, pinned, pool, drawn, answer>>

-----------------------------------------------------------------------------
(* Faulty variants of the operators below, which a property must find.     *)

\* Weeks change at midnight.
MidnightWeekIdAt(t) == LET shifted == t \div Day IN shifted - ((shifted + 3) % 7)

-----------------------------------------------------------------------------
(* The draw.                                                               *)

\* Characters: the fixed ones first, of equal names the earlier one, then any
\* others until there are twelve or the names are used up.
FixedOf(c) ==
  {p \in c.person : \E i \in DOMAIN Fixed :
     /\ Fixed[i] = p
     /\ \A j \in 1..(i - 1) : Fixed[j] \in c.person => Nick[Fixed[j]] # Nick[p]}

NamesOf(S) == {Nick[p] : p \in S}
Apart(S) == Cardinality(NamesOf(S)) = Cardinality(S)

PickChars(c) ==
  LET fixed == FixedOf(c)
      rest  == {p \in c.person : Nick[p] \notin NamesOf(fixed)}
  IN {fixed \cup S : S \in {T \in SUBSET rest :
        /\ Apart(T) /\ Cardinality(fixed) + Cardinality(T) <= CharCount
        /\ \/ Cardinality(fixed) + Cardinality(T) = CharCount
           \/ NamesOf(T) = NamesOf(rest)}}

Lowest(S) == CHOOSE s \in {Star[i] : i \in S} : \A i \in S : s <= Star[i]
Grades(S) == {s \in 1..6 : s # Lowest(S) /\ \E i \in S : Star[i] = s}
Graded(S, g) == {i \in S : Star[i] = g}
Least(m, n) == IF m < n THEN m ELSE n

\* Items of one kind: up to GradedMax featured ones of one grade above the
\* lowest, if there is such a grade, and PlainCount of the lowest.
PickCategory(S) ==
  LET plain == Graded(S, Lowest(S))
      plains == {T \in SUBSET plain : Cardinality(T) = Least(PlainCount, Cardinality(plain))}
      featured(g) == {T \in SUBSET Graded(S, g) : Cardinality(T) \in 1..GradedMax}
  IN IF Grades(S) = {} THEN [featured : {{}}, plain : plains]
     ELSE UNION {[featured : featured(g), plain : plains] : g \in Grades(S)}

\* The first period's items are named; one that the catalogue lacks is an error.
FirstComplete(c) == \A k \in Kind : FirstIds[k] \subseteq c.item[k]

Picks(c, w) ==
  IF w = FirstWeek THEN {[k \in Kind |-> [featured |-> {}, plain |-> FirstIds[k]]]}
  ELSE {f \in [Kind -> UNION {PickCategory(c.item[k]) : k \in Kind}] :
          \A k \in Kind : f[k] \in PickCategory(c.item[k])}

-----------------------------------------------------------------------------
(* Weeks.                                                                  *)

WeekIdAt(t) == LET shifted == (t + Shift) \div Day IN shifted - ((shifted + 3) % 7)
WeekBegin(w) == w * Day - Shift
WeekEnd(w) == WeekBegin(w) + Week

\* known: what is known of the draws of c.
Draws(c, w, known) ==
  IF w \in DOMAIN known THEN {known[w]}
  ELSE [week : {w}, begin : {WeekBegin(w)}, end : {WeekEnd(w)},
        chars : PickChars(c), items : Picks(c, w)]

-----------------------------------------------------------------------------
WantedWeek(p) == IF p > 0 THEN p ELSE WeekIdAt(now)

\* refresh_pool with the catalogue c and the pinned week p: the pool q is kept
\* while it has the wanted week, else drawn again; a pinned period ends no
\* earlier than the natural week in which it was drawn.
Refreshes(c, p, q, known) ==
  LET w == WantedWeek(p) IN
  IF q # None /\ q.week = w /\ q.chars # {} THEN {q}
  ELSE IF w = FirstWeek /\ ~FirstComplete(c) THEN {}
  ELSE {IF p > 0 /\ WeekEnd(WeekIdAt(now)) > d.end
        THEN [d EXCEPT !.end = WeekEnd(WeekIdAt(now))] ELSE d : d \in Draws(c, w, known)}

\* What the draw itself was, for drawn.
Bare(q) == [q EXCEPT !.end = WeekEnd(q.week)]
Remember(q, known) ==
  [w \in DOMAIN known \cup {q.week} |-> IF w = q.week THEN Bare(q) ELSE known[w]]

Init ==
  /\ now \in Instant /\ \A t \in Instant : now <= t
  /\ doc \in Doc /\ pinFile = 0 /\ boots = 0
  /\ ready = FALSE /\ catalog = doc /\ pinned = 0 /\ pool = None
  /\ drawn = << >> /\ answer = None

\* lunjian::init at the start of the process; a failure leaves it not ready.
Boot ==
  LET known == IF doc = catalog THEN drawn ELSE << >>
      pools == Refreshes(doc, pinFile, None, known)
  IN
  /\ boots < MaxBoots /\ boots' = boots + 1
  /\ catalog' = doc /\ pinned' = pinFile
  /\ \/ /\ pools = {}
        /\ ready' = FALSE /\ pool' = None /\ drawn' = known
     \/ \E q \in pools : ready' = TRUE /\ pool' = q /\ drawn' = Remember(q, known)
  /\ answer' = None
  /\ UNCHANGED <<now, doc, pinFile>>

\* Any request of handle: refresh_pool, then an answer out of g_pool.  When the
\* draw throws the request fails and the old pool stays.
Request ==
  /\ ready
  /\ \E q \in Refreshes(catalog, pinned, pool, drawn) :
       /\ pool' = q /\ drawn' = Remember(q, drawn)
       /\ answer' = now
  /\ UNCHANGED <<now, doc, pinFile, boots, ready, catalog, pinned>>

\* The operator: a new doc.json, a pin set, changed or removed.
ReplaceDoc(d) ==
  /\ d # doc /\ doc' = d
  /\ UNCHANGED <<now, pinFile, boots, ready, catalog, pinned, pool, drawn, answer>>

SetPin(w) ==
  /\ w # pinFile /\ pinFile' = w
  /\ UNCHANGED <<now, doc, boots, ready, catalog, pinned, pool, drawn, answer>>

Tick ==
  /\ \E t \in Instant : t > now /\ now' = t /\ \A u \in Instant : u > now => t <= u
  /\ UNCHANGED <<doc, pinFile, boots, ready, catalog, pinned, pool, drawn, answer>>

Next ==
  \/ Boot \/ Request \/ Tick
  \/ \E d \in Doc : ReplaceDoc(d)
  \/ \E w \in Pin \cup {0} : SetPin(w)

Spec == Init /\ [][Next]_vars

-----------------------------------------------------------------------------
(* Properties.                                                             *)

TypeOK ==
  /\ now \in Instant /\ doc \in Doc /\ catalog \in Doc
  /\ pinFile \in Pin \cup {0} /\ pinned \in Pin \cup {0} /\ boots \in 0..MaxBoots
  /\ ready \in BOOLEAN /\ (pool = None \/ pool \in PoolType) /\ (ready => pool # None)
  /\ \A w \in DOMAIN drawn : drawn[w] \in PoolType
  /\ answer \in Instant \cup {None}

\* test_lunjian_pool's check_category, for every catalogue and outcome of the
\* draw: featured items are few, of one star, which is not the lowest; the others
\* have the lowest star; no item comes twice and no two characters share a name.
\* So the exceptions at the end of refresh_pool are never thrown.
DrawIsFair ==
  pool # None =>
    /\ Apart(pool.chars) /\ Cardinality(pool.chars) = Least(CharCount, Cardinality(NamesOf(catalog.person)))
    /\ pool.week # FirstWeek => \A k \in Kind :
         LET f == pool.items[k].featured  rest == pool.items[k].plain  S == catalog.item[k] IN
         /\ f \cap rest = {} /\ f \cup rest \subseteq S
         /\ Cardinality(f) <= GradedMax /\ Cardinality(rest) <= PlainCount
         /\ \A i \in f : \A j \in f : Star[i] = Star[j]
         /\ \A i \in f : \E j \in S : Star[j] < Star[i]
         /\ \A i \in rest : \A j \in S : Star[i] <= Star[j]

\* A week is a Monday 04:00 to the next (a Monday is a day d with (d + 3) % 7 = 0
\* after the shift), and an answer is from the pool of the week it is given in,
\* however long the process has run; a pinned process answers from its pin.
AnswerOfTheWeek ==
  answer # None =>
    IF pinned > 0 THEN pool.week = pinned
    ELSE /\ pool.begin <= answer /\ answer < pool.end
         /\ pool.end - pool.begin = Week /\ (pool.begin + Shift) % Day = 0
         /\ (((pool.begin + Shift) \div Day) + 3) % 7 = 0

\* What players are told is the fair draw of the week they ask in: the two
\* properties above (refresh_pool).
PoolOfWeek == TypeOK /\ DrawIsFair /\ AnswerOfTheWeek
=============================================================================
