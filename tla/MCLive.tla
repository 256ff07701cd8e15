-------------------------------- MODULE MCLive --------------------------------
(* What must happen in the end, for TLC: PushWave, PushMap, MailSchedule,  *)
(* InitData and Gateway under their fairness.  They share no variable;     *)
(* part says which of them moves.                                          *)
EXTENDS Naturals, TLC

CONSTANTS None, c1, c2, c3, a1, a2, p1, p2,
          i0, i1, m1, s1, s2, direct, unknown

VARIABLES
  part,
  waveByAcc, waveGone, wave, pending, aged, wavePc, cur, target, delivered, acks, answer,
  mapByAcc, mapGone, at, pos, mapPc, todo, list, old, view, moves, before, passed, behind,
  redis, due, mailPc, arg, tries, mailTodo, used, faults, crashes,
  accepted, cancelled, sent, doubtful, dropped,
  manifest, cache, initPc, seen, client, now, changes, lost, loaded, numbers, twice,
  place, reset, held, name

waves == <<waveByAcc, waveGone, wave, pending, aged, wavePc, cur, target, delivered, acks, answer>>
maps  == <<mapByAcc, mapGone, at, pos, mapPc, todo, list, old, view, moves, before, passed, behind>>
mails == <<redis, due, mailPc, arg, tries, mailTodo, used, faults, crashes,
           accepted, cancelled, sent, doubtful, dropped>>
inits == <<manifest, cache, initPc, seen, client, now, changes, lost, loaded, numbers, twice>>
gates == <<place, reset, held, name>>

Accs  == {a1, a2}
Pair  == {c1, c2}
Owner == c1 :> a1 @@ c2 :> a2
From  == c1 :> p1 @@ c2 :> p1 @@ c3 :> p2

Waves == INSTANCE PushWave WITH
  Conn <- Pair, Acc <- Accs, AccOf <- Owner, Id <- {i0, i1}, NoId <- i0,
  MaxWaves <- 2, MaxRepeats <- 1, byAcc <- waveByAcc, gone <- waveGone, pc <- wavePc
Maps == INSTANCE PushMap WITH
  Conn <- Pair, Acc <- Accs, AccOf <- Owner, Map <- {m1}, MaxMoves <- 2,
  byAcc <- mapByAcc, gone <- mapGone, pc <- mapPc
Mails == INSTANCE MailSchedule WITH
  Task <- {s1, s2}, Throwing <- {}, Admin <- {a1}, Scheduler <- p1, Direct <- direct,
  MaxFaults <- 0, MaxCrashes <- 0, pc <- mailPc, todo <- mailTodo
Inits == INSTANCE InitData WITH
  Client <- {c1}, MaxChanges <- 1, MaxTime <- 2, MaxRepair <- 2, MaxLost <- 0, pc <- initPc
Gates == INSTANCE Gateway WITH
  Conn <- {c1, c2, c3}, Peer <- {p1, p2}, PeerOf <- From, Slow <- {c1, c2}, Banned <- {p2},
  Unknown <- unknown, MaxPerPeer <- 2, LightThreads <- 1, LightQueue <- 2, SlowThreads <- 1,
  SlowQueue <- 1, at <- place

Init ==
  /\ part \in {"waves", "maps", "mails", "inits", "gates"}
  /\ Waves!Init /\ Maps!Init /\ Mails!Init /\ Inits!Init /\ Gates!Init

Next ==
  \/ part = "waves" /\ Waves!Next /\ UNCHANGED <<part, maps, mails, inits, gates>>
  \/ part = "maps" /\ Maps!Next /\ UNCHANGED <<part, waves, mails, inits, gates>>
  \/ part = "mails" /\ Mails!Next /\ UNCHANGED <<part, waves, maps, inits, gates>>
  \/ part = "inits" /\ Inits!Next /\ UNCHANGED <<part, waves, maps, mails, gates>>
  \/ part = "gates" /\ Gates!Next /\ UNCHANGED <<part, waves, maps, mails, inits>>

\* The fairness of each module, while it is the one that moves.
Fairness ==
  /\ \A c \in Pair :
       /\ WF_waves(part = "waves" /\ ~Waves!Held(c) /\ Waves!HandlerStep(c))
       /\ SF_waves(part = "waves" /\ \E i \in {i0, i1} : Waves!ReadAck(c, i))
       /\ WF_maps(part = "maps" /\ Maps!Runs(c))
  /\ WF_mails(part = "mails" /\ Mails!SchedulerStep)
  /\ WF_inits(part = "inits" /\ Inits!Request(c1))
  /\ \A k \in {"repair", "version"} : WF_inits(part = "inits" /\ Inits!Expire(k))
  /\ WF_gates(part = "gates" /\ Gates!AcceptLoop)
  /\ WF_gates(part = "gates" /\ Gates!LightPool)
  /\ WF_gates(part = "gates" /\ Gates!SlowPool)

Spec == Init /\ [][Next]_<<part, waves, maps, mails, inits, gates>> /\ Fairness

-----------------------------------------------------------------------------
(* The properties of the modules, which state them at length.              *)

\* A delivered wave is confirmed to its sender.
WaveConfirmed == Waves!WaveConfirmed
\* A player who left leaves the lists of the others.
GhostsLeave == Maps!GhostsLeave
\* A task whose time has come becomes mail, or was cancelled.
DueIsSent == Mails!DueIsSent
\* A client comes to have the newest version.
VersionArrives == part = "inits" => Inits!VersionArrives
\* A connection that was admitted is served and closed.
AdmittedIsServed == Gates!AdmittedIsServed
=============================================================================
