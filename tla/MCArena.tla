-------------------------------- MODULE MCArena --------------------------------
(* Arena on a small instance.                                              *)
EXTENDS Arena, TLC

\* Small catalogues, around two ends of weeks.
Names  == [p1 |-> "a", p2 |-> "a", p3 |-> "b", p4 |-> "c", p5 |-> "c"]
FixedIds == <<"p2", "p1", "p3">>
Stars  == [e1 |-> 1, e2 |-> 1, e3 |-> 3, e4 |-> 3, s1 |-> 0, s3 |-> 2, s4 |-> 6]
Items  == [equips |-> {"e1", "e2", "e3", "e4"}, skills |-> {"s1", "s3", "s4"}]
First  == [equips |-> {"e1", "e3"}, skills |-> {"s1", "s4"}]
Full   == [person |-> DOMAIN Names, item |-> [Items EXCEPT !.equips = {"e1", "e3", "e4"}]]
\* A doc.json that lacks ids of the first period, and characters.
Lacking == [person |-> {"p1", "p4"}, item |-> [equips |-> {"e1", "e2"}, skills |-> {"s1", "s3"}]]
Docs   == {Full, Lacking}
\* The ends of the weeks 18 and 25 (the first) and a later moment, in sixths of a day.
End(w) == (w + 7) * 6 - 1
Instants == {End(18) - 1, End(18), End(25) - 1, End(25), End(32) - 1}

\* Three characters, three pools and a few old rows.
Nicks  == [c1 |-> "a", c2 |-> "a", c3 |-> "b"]
Slots  == [e1 |-> 1, e2 |-> 1]
Drawn  ==
  {[chars |-> {"c1", "c3"}, skill |-> <<1, 2>>, nei |-> <<4>>, equip |-> {"e1", "e2"}],
   [chars |-> {"c1", "c2"}, skill |-> <<2, 3>>, nei |-> <<4>>, equip |-> {"e1"}],
   [chars |-> {"c2"}, skill |-> <<3, 1>>, nei |-> << >>, equip |-> {}]}
NoArt == [c \in Char |-> 0]
Bare == [chars |-> << >>, skill |-> NoArt, nei |-> NoArt, equip |-> [c \in Char |-> << >>]]
Of(h, s) == [head |-> h, skill |-> s, nei |-> 0, equip |-> {}]
\* No row yet; a row that lost its fight data; a row of version 2 without skills;
\* one of version 3 that shares one, and one in which only one member has one.
OldRows ==
  {[load |-> Bare, blob |-> None],
   [load |-> [Bare EXCEPT !.chars = <<"c3">>], blob |-> None],
   [load |-> [Bare EXCEPT !.chars = <<"c1", "c3">>],
    blob |-> [ver |-> 2, team |-> <<Of("c1", 0), Of("c3", 0)>>]],
   [load |-> [Bare EXCEPT !.chars = <<"c3", "c1">>, !.skill = [c1 |-> 1, c2 |-> 0, c3 |-> 1]],
    blob |-> [ver |-> 3, team |-> <<Of("c3", 1), Of("c1", 1)>>]],
   [load |-> [Bare EXCEPT !.chars = <<"c1", "c2">>, !.skill = [c1 |-> 0, c2 |-> 3, c3 |-> 0]],
    blob |-> [ver |-> 3, team |-> <<Of("c1", 0), Of("c2", 3)>>]]}

Symmetry == Permutations(Player)

\* Requests are about the week of the pool, which never goes back: what is stored of
\* weeks gone by was checked then and is not looked at or changed any more.
Now == [p \in Player |->
          [row |-> rows[week][p], acked |-> acked[week][p],
           client |-> IF client[p] # None /\ client[p].week = week THEN client[p] ELSE None,
           matched |-> IF matched[p].week = week THEN matched[p] ELSE None]]
View == <<part, draws, teams, day, ready, week, npcs[week], job, told, bounds, faults,
          week \in doubtful, week \in broken, Now>>
===============================================================================
