SPECIFICATION Arena
CONSTANTS
  None = None
  Player = {p1, p2}
  NpcCount = 2
  DefaultTimes = 1
  Gain = {2}
  WeekDays = 2
  LastDay = 2
  MaxResults = 2
  MaxFaults = 1
  MaxRestarts = 1
  Person = {"p1", "p2", "p3", "p4", "p5"}
  Shown <- Names
  Fixed <- FixedIds
  CharCount = 3
  Kind = {"equips", "skills"}
  Item <- Items
  Star <- Stars
  GradedMax = 2
  PlainCount = 1
  FirstWeek = 25
  FirstIds <- First
  Doc <- Docs
  Instant <- Instants
  Pin = {18}
  MaxBoots = 2
  Char = {"c1", "c2", "c3"}
  Nick <- Nicks
  KungFu = {1, 2, 3, 4}
  Equip = {"e1", "e2"}
  Slot <- Slots
  Pools <- Drawn
  Legacy <- OldRows
  MaxTeam = 2
  MaxEquip = 2
  Ver = 4
  TeamRestarts = 2
SYMMETRY Symmetry
VIEW View
CHECK_DEADLOCK FALSE
INVARIANTS
  PoolOfWeek
  TeamsInOrder
  SentHasSkills
  TopCurrent
  Ladder
