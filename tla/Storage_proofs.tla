----------------------------- MODULE Storage_proofs -----------------------------
(* What holds of the cloud saves, the list of forced accounts and the      *)
(* cache of accounts (storage.cpp).                                        *)
(*                                                                         *)
(* Saves: where nothing was left half done, the two files of an account    *)
(* hold the save last written whenever no thread is between two of its     *)
(* writes (Goods, Marking, UnderLock); what such a thread has in hand will  *)
(* make them so again (Hands), and it holds the account's lock (Owners).   *)
(* A mark that was not lost is in the meta or in the hands of the thread   *)
(* that has it (Marks, MarksInHand), which is why the next download keeps  *)
(* its distance (Intervals).                                               *)
(*                                                                         *)
(* List: the times agree only when the accounts do (TimesTell); the list   *)
(* about to be written differs from the file in one account (OneChange);   *)
(* who found a save not marked will mark it (Marked), and no upload that   *)
(* was found not forced will be written over it (NoPlain).                 *)
(*                                                                         *)
(* Cache: a request that is going to put a row in the cache has the        *)
(* present one, or another request changed it since (ReadersFollow).       *)
EXTENDS Storage, TLAPS

-----------------------------------------------------------------------------
(* The cloud saves.                                                        *)

\* The save's number, and the numbers of the saves in hand.
Number == 0..MaxRequests
Full == [of : Number, whole : BOOLEAN]
Clock == 0..MaxTime
SaveFile == Full \cup {Saves!Nothing, Saves!Empty}
MetaFile == [of : Number, down : Clock, body : BOOLEAN] \cup {Saves!Missing, Saves!Cut}
MetaInHand == [of : Number \cup {None}, down : Clock, body : BOOLEAN]

SaveFiles ==
  /\ blob \in [SaveAcc -> SaveFile]
  /\ meta \in [SaveAcc -> MetaFile]
Workers ==
  /\ lock \in [{Stripe[a] : a \in SaveAcc} -> Thread \cup {None}]
  /\ pc \in [Thread -> Saves!Locked \cup {"idle", "ensure", "trunc", "load", "mark", "sweep",
                                    "reload", "remeta"}]
  /\ acc \in [Thread -> SaveAcc \cup {None}]
  /\ \A t \in Thread : pc[t] # "idle" => acc[t] \in SaveAcc
InHand ==
  /\ val \in [Thread -> SaveFile]
  /\ kept \in [Thread -> MetaInHand]
Counts ==
  /\ now \in 1..MaxTime /\ requests \in Number /\ faults \in 0..MaxFaults /\ crashes \in 0..MaxCrashes
Past ==
  /\ account \subseteq SaveAcc /\ bl \subseteq Thread
  /\ last \in [SaveAcc -> Number \cup {None}] /\ served \in [SaveAcc -> Clock]
  /\ over \subseteq Thread /\ torn \subseteq SaveAcc /\ unmarked \subseteq SaveAcc /\ gone \subseteq SaveAcc

\* Whoever writes files holds the lock.
Owners == \A t \in Thread : pc[t] \in Saves!Locked => lock[Stripe[acc[t]]] = t
Works(a) == \E t \in Thread : acc[t] = a /\ pc[t] \in Saves!Locked \ {"open"}

\* What a thread has in hand at each step.
Hands ==
  \A t \in Thread :
    /\ pc[t] = "idle" => kept[t] = Saves!Missing
    /\ pc[t] \in {"trunc", "write", "rename", "ensure"} => val[t] \in Full /\ kept[t].of \in Number /\ ~kept[t].body
    /\ pc[t] = "remeta" => val[t] \in Full
    /\ pc[t] \in {"open", "remark"} => kept[t].of \in Number

\* The save that a blob and a meta hold.
Held(b, m) ==
  IF b \notin {Saves!Nothing, Saves!Empty} THEN b
  ELSE IF Saves!Read(m) /\ m.body THEN [of |-> m.of, whole |-> TRUE] ELSE Saves!Nothing
\* They hold save n, and the meta tells so.
Good(b, m, n) ==
  /\ Held(b, m) = IF n = None THEN Saves!Nothing ELSE [of |-> n, whole |-> TRUE]
  /\ (IF Saves!Read(m) THEN m.of ELSE None) = n

\* The files hold the last save but where something was left half done, or a
\* thread is about to go on.
Goods ==
  \A a \in SaveAcc \ torn : ~Works(a) => Good(blob[a], meta[a], last[a])
Marking ==
  \A t \in Thread :
    pc[t] \in {"open", "remark"} /\ acc[t] \notin torn =>
      /\ Good(blob[acc[t]], kept[t], last[acc[t]])
      /\ pc[t] = "remark" => meta[acc[t]] = Saves!Cut

\* What has been done to the files under the lock.
UnderLock ==
  \A t \in Thread :
    /\ pc[t] = "unlink" => meta[acc[t]] = Saves!Missing
    /\ pc[t] = "rename" => blob[acc[t]] = val[t]

\* Whose save is written has a row, or has been deleted since.
Accounts ==
  \A t \in Thread : pc[t] \in {"trunc", "write", "rename", "open", "remark"} => acc[t] \in account \cup gone

\* The mark of the last download.
Marks ==
  \A a \in SaveAcc \ unmarked :
    (\A t \in Thread : acc[t] = a => pc[t] \notin {"remark", "unlink"}) => Saves!MarkOf(a) = served[a]
MarksInHand ==
  \A t \in Thread \ over :
    /\ pc[t] \in {"mark", "open", "remark"} /\ kept[t].down # 0 => kept[t].down = served[acc[t]]
    /\ pc[t] \in {"trunc", "write", "rename", "ensure"} /\ acc[t] \notin unmarked =>
         kept[t].down = served[acc[t]]
Intervals ==
  \A t \in Thread \ over :
    pc[t] = "load" /\ acc[t] \notin unmarked =>
      acc[t] \in Exempt \/ served[acc[t]] = 0 \/ served[acc[t]] + Week <= kept[t].down

SaveInv ==
  /\ SaveFiles /\ Workers /\ InHand /\ Counts /\ Past /\ Owners /\ Hands /\ Goods /\ Marking /\ UnderLock
  /\ Accounts /\ Saves!NoOrphans /\ Marks /\ MarksInHand /\ Intervals

\* Every step keeps the types of the files.
LEMMA SaveFilesStep == SaveInv /\ [Saves!Next]_(Saves!vars) => SaveFiles'
<1> SUFFICES ASSUME SaveInv, [Saves!Next]_(Saves!vars) PROVE SaveFiles'
  OBVIOUS
<1>0. SaveFiles /\ Workers /\ InHand /\ Hands BY DEF SaveInv
<1>a. Saves!SaveAssumption BY SaveConstants
<1>1. ASSUME NEW t \in Thread, NEW a \in SaveAcc, Saves!UploadSave(t, a) PROVE SaveFiles'
  BY <1>0, <1>a, <1>1 DEF Saves!UploadSave, Saves!Begin, Saves!Go, Saves!End, Saves!request,
                          Saves!count, Saves!history, Saves!Free, Hands, SaveFiles, Workers,
                          InHand, Number, Full, Clock, SaveFile, MetaFile, MetaInHand,
                          Saves!Nothing, Saves!Empty, Saves!Missing, Saves!Cut
<1>2. ASSUME NEW t \in Thread, NEW a \in SaveAcc, Saves!DownloadSave(t, a) PROVE SaveFiles'
  BY <1>0, <1>a, <1>2 DEF Saves!DownloadSave, Saves!Begin, Saves!Go, Saves!End, Saves!request,
                          Saves!count, Saves!history, Saves!Free, Hands, SaveFiles, Workers,
                          InHand, Number, Full, Clock, SaveFile, MetaFile, MetaInHand,
                          Saves!Nothing, Saves!Empty, Saves!Missing, Saves!Cut
<1>3. ASSUME NEW t \in Thread, NEW a \in SaveAcc, Saves!ResetMark(t, a) PROVE SaveFiles'
  BY <1>0, <1>a, <1>3 DEF Saves!ResetMark, Saves!Begin, Saves!Go, Saves!End, Saves!request,
                          Saves!count, Saves!history, Hands, SaveFiles, Workers, InHand, Number,
                          Full, Clock, SaveFile, MetaFile, MetaInHand, Saves!Nothing, Saves!Empty,
                          Saves!Missing, Saves!Cut
<1>4. ASSUME NEW t \in Thread, NEW a \in SaveAcc, Saves!DeleteSave(t, a) PROVE SaveFiles'
  BY <1>0, <1>a, <1>4 DEF Saves!DeleteSave, Saves!Begin, Saves!Go, Saves!End, Saves!request,
                          Saves!count, Saves!history, Saves!Free, Hands, SaveFiles, Workers,
                          InHand, Number, Full, Clock, SaveFile, MetaFile, MetaInHand,
                          Saves!Nothing, Saves!Empty, Saves!Missing, Saves!Cut
<1>5. ASSUME NEW t \in Thread, NEW a \in SaveAcc, Saves!DeleteAccount(t, a) PROVE SaveFiles'
  BY <1>0, <1>a, <1>5 DEF Saves!DeleteAccount, Saves!Begin, Saves!Go, Saves!End, Saves!request,
                          Saves!count, Saves!history, Hands, SaveFiles, Workers, InHand, Number,
                          Full, Clock, SaveFile, MetaFile, MetaInHand, Saves!Nothing, Saves!Empty,
                          Saves!Missing, Saves!Cut
<1>6. ASSUME NEW t \in Thread, NEW a \in SaveAcc, Saves!BlForce(t, a) PROVE SaveFiles'
  BY <1>0, <1>a, <1>6 DEF Saves!BlForce, Saves!Begin, Saves!Go, Saves!End, Saves!request,
                          Saves!count, Saves!history, Hands, SaveFiles, Workers, InHand, Number,
                          Full, Clock, SaveFile, MetaFile, MetaInHand, Saves!Nothing, Saves!Empty,
                          Saves!Missing, Saves!Cut
<1>7. ASSUME NEW t \in Thread, Saves!EnsureAccount(t) PROVE SaveFiles'
  BY <1>0, <1>a, <1>7 DEF Saves!EnsureAccount, Saves!Begin, Saves!Go, Saves!End, Saves!request,
                          Saves!count, Saves!history, Hands, SaveFiles, Workers, InHand, Number,
                          Full, Clock, SaveFile, MetaFile, MetaInHand, Saves!Nothing, Saves!Empty,
                          Saves!Missing, Saves!Cut
<1>8. ASSUME NEW t \in Thread, Saves!Trunc(t) PROVE SaveFiles'
  BY <1>0, <1>a, <1>8 DEF Saves!Trunc, Saves!Begin, Saves!Go, Saves!End, Saves!request,
                          Saves!count, Saves!history, Saves!Take, Saves!Free, Hands, SaveFiles,
                          Workers, InHand, Number, Full, Clock, SaveFile, MetaFile, MetaInHand,
                          Saves!Nothing, Saves!Empty, Saves!Missing, Saves!Cut
<1>9. ASSUME NEW t \in Thread, Saves!WriteSome(t) PROVE SaveFiles'
  BY <1>0, <1>a, <1>9 DEF Saves!WriteSome, Saves!Begin, Saves!Go, Saves!End, Saves!request,
                          Saves!count, Saves!history, Hands, SaveFiles, Workers, InHand, Number,
                          Full, Clock, SaveFile, MetaFile, MetaInHand, Saves!Nothing, Saves!Empty,
                          Saves!Missing, Saves!Cut
<1>10. ASSUME NEW t \in Thread, Saves!Write(t) PROVE SaveFiles'
  BY <1>0, <1>a, <1>10 DEF Saves!Write, Saves!Begin, Saves!Go, Saves!End, Saves!request,
                           Saves!count, Saves!history, Hands, SaveFiles, Workers, InHand, Number,
                           Full, Clock, SaveFile, MetaFile, MetaInHand, Saves!Nothing,
                           Saves!Empty, Saves!Missing, Saves!Cut
<1>11. ASSUME NEW t \in Thread, Saves!Rename(t) PROVE SaveFiles'
  BY <1>0, <1>a, <1>11 DEF Saves!Rename, Saves!Begin, Saves!Go, Saves!End, Saves!request,
                           Saves!count, Saves!history, Saves!Release, Saves!Done, Saves!Others,
                           Saves!Renamed, Hands, SaveFiles, Workers, InHand, Number, Full, Clock,
                           SaveFile, MetaFile, MetaInHand, Saves!Nothing, Saves!Empty,
                           Saves!Missing, Saves!Cut
<1>12. ASSUME NEW t \in Thread, Saves!Fail(t) PROVE SaveFiles'
  BY <1>0, <1>a, <1>12 DEF Saves!Fail, Saves!Begin, Saves!Go, Saves!End, Saves!request,
                           Saves!count, Saves!history, Saves!Release, Saves!Done, Saves!Others,
                           Hands, SaveFiles, Workers, InHand, Number, Full, Clock, SaveFile,
                           MetaFile, MetaInHand, Saves!Nothing, Saves!Empty, Saves!Missing,
                           Saves!Cut
<1>13. ASSUME NEW t \in Thread, Saves!LoadCloud(t) PROVE SaveFiles'
  BY <1>0, <1>a, <1>13 DEF Saves!LoadCloud, Saves!Begin, Saves!Go, Saves!End, Saves!request,
                           Saves!count, Saves!history, Saves!Free, Saves!Escapes, Saves!Others,
                           Hands, SaveFiles, Workers, InHand, Number, Full, Clock, SaveFile,
                           MetaFile, MetaInHand, Saves!Nothing, Saves!Empty, Saves!Missing,
                           Saves!Cut
<1>14. ASSUME NEW t \in Thread, Saves!NoSave(t) PROVE SaveFiles'
  BY <1>0, <1>a, <1>14 DEF Saves!NoSave, Saves!Begin, Saves!Go, Saves!End, Saves!request,
                           Saves!count, Saves!history, Saves!Free, Hands, SaveFiles, Workers,
                           InHand, Number, Full, Clock, SaveFile, MetaFile, MetaInHand,
                           Saves!Nothing, Saves!Empty, Saves!Missing, Saves!Cut
<1>15. ASSUME NEW t \in Thread, Saves!MarkRead(t) PROVE SaveFiles'
  BY <1>0, <1>a, <1>15 DEF Saves!MarkRead, Saves!Begin, Saves!Go, Saves!End, Saves!request,
                           Saves!count, Saves!history, Saves!Take, Saves!Free, Hands, SaveFiles,
                           Workers, InHand, Number, Full, Clock, SaveFile, MetaFile, MetaInHand,
                           Saves!Nothing, Saves!Empty, Saves!Missing, Saves!Cut
<1>16. ASSUME NEW t \in Thread, Saves!NoMeta(t) PROVE SaveFiles'
  BY <1>0, <1>a, <1>16 DEF Saves!NoMeta, Saves!Begin, Saves!Go, Saves!End, Saves!request,
                           Saves!count, Saves!history, Saves!Free, Hands, SaveFiles, Workers,
                           InHand, Number, Full, Clock, SaveFile, MetaFile, MetaInHand,
                           Saves!Nothing, Saves!Empty, Saves!Missing, Saves!Cut
<1>17. ASSUME NEW t \in Thread, Saves!MarkOpen(t) PROVE SaveFiles'
  BY <1>0, <1>a, <1>17 DEF Saves!MarkOpen, Saves!Begin, Saves!Go, Saves!End, Saves!request,
                           Saves!count, Saves!history, Hands, SaveFiles, Workers, InHand, Number,
                           Full, Clock, SaveFile, MetaFile, MetaInHand, Saves!Nothing,
                           Saves!Empty, Saves!Missing, Saves!Cut
<1>18. ASSUME NEW t \in Thread, Saves!MarkWrite(t) PROVE SaveFiles'
  BY <1>0, <1>a, <1>18 DEF Saves!MarkWrite, Saves!Begin, Saves!Go, Saves!End, Saves!request,
                           Saves!count, Saves!history, Saves!Release, Saves!Done, Saves!Others,
                           Hands, SaveFiles, Workers, InHand, Number, Full, Clock, SaveFile,
                           MetaFile, MetaInHand, Saves!Nothing, Saves!Empty, Saves!Missing,
                           Saves!Cut
<1>19. ASSUME NEW t \in Thread, Saves!Unlink(t) PROVE SaveFiles'
  BY <1>0, <1>a, <1>19 DEF Saves!Unlink, Saves!Begin, Saves!Go, Saves!End, Saves!request,
                           Saves!count, Saves!history, Saves!Release, Saves!Done, Saves!Others,
                           Hands, SaveFiles, Workers, InHand, Number, Full, Clock, SaveFile,
                           MetaFile, MetaInHand, Saves!Nothing, Saves!Empty, Saves!Missing,
                           Saves!Cut
<1>20. ASSUME NEW t \in Thread, Saves!Sweep(t) PROVE SaveFiles'
  BY <1>0, <1>a, <1>20 DEF Saves!Sweep, Saves!Begin, Saves!Go, Saves!End, Saves!request,
                           Saves!count, Saves!history, Saves!Take, Saves!Free, Hands, SaveFiles,
                           Workers, InHand, Number, Full, Clock, SaveFile, MetaFile, MetaInHand,
                           Saves!Nothing, Saves!Empty, Saves!Missing, Saves!Cut
<1>21. ASSUME NEW t \in Thread, Saves!BlLoad(t) PROVE SaveFiles'
  BY <1>0, <1>a, <1>21 DEF Saves!BlLoad, Saves!Begin, Saves!Go, Saves!End, Saves!request,
                           Saves!count, Saves!history, Saves!Free, Hands, SaveFiles, Workers,
                           InHand, Number, Full, Clock, SaveFile, MetaFile, MetaInHand,
                           Saves!Nothing, Saves!Empty, Saves!Missing, Saves!Cut
<1>22. ASSUME NEW t \in Thread, Saves!BlSkip(t) PROVE SaveFiles'
  BY <1>0, <1>a, <1>22 DEF Saves!BlSkip, Saves!Begin, Saves!Go, Saves!End, Saves!request,
                           Saves!count, Saves!history, Saves!Free, Hands, SaveFiles, Workers,
                           InHand, Number, Full, Clock, SaveFile, MetaFile, MetaInHand,
                           Saves!Nothing, Saves!Empty, Saves!Missing, Saves!Cut
<1>23. ASSUME NEW t \in Thread, Saves!BlMeta(t) PROVE SaveFiles'
  BY <1>0, <1>a, <1>23 DEF Saves!BlMeta, Saves!Begin, Saves!Go, Saves!End, Saves!request,
                           Saves!count, Saves!history, Saves!Free, Hands, SaveFiles, Workers,
                           InHand, Number, Full, Clock, SaveFile, MetaFile, MetaInHand,
                           Saves!Nothing, Saves!Empty, Saves!Missing, Saves!Cut
<1>24. CASE Saves!Tick
  BY <1>0, <1>a, <1>24 DEF Saves!Tick, Saves!Begin, Saves!Go, Saves!End, Saves!request,
                           Saves!count, Saves!history, Hands, SaveFiles, Workers, InHand, Number,
                           Full, Clock, SaveFile, MetaFile, MetaInHand, Saves!Nothing,
                           Saves!Empty, Saves!Missing, Saves!Cut
<1>25. CASE Saves!Crash
  BY <1>0, <1>a, <1>25 DEF Saves!Crash, Saves!Begin, Saves!Go, Saves!End, Saves!request,
                           Saves!count, Saves!history, Hands, SaveFiles, Workers, InHand, Number,
                           Full, Clock, SaveFile, MetaFile, MetaInHand, Saves!Nothing,
                           Saves!Empty, Saves!Missing, Saves!Cut
<1>26. CASE UNCHANGED Saves!vars
  BY <1>0, <1>26 DEF Saves!vars, Saves!Begin, Saves!Go, Saves!End, Saves!request, Saves!count,
                     Saves!history, Hands, SaveFiles, Workers, InHand, Number, Full, Clock,
                     SaveFile, MetaFile, MetaInHand, Saves!Nothing, Saves!Empty, Saves!Missing,
                     Saves!Cut
<1> QED BY <1>1, <1>2, <1>3, <1>4, <1>5, <1>6, <1>7, <1>8, <1>9, <1>10, <1>11, <1>12, <1>13,
           <1>14, <1>15, <1>16, <1>17, <1>18, <1>19, <1>20, <1>21, <1>22, <1>23,
           <1>24, <1>25, <1>26 DEF Saves!Next, Saves!Serve

\* Every step keeps the types of the requests.
LEMMA WorkersStep == SaveInv /\ [Saves!Next]_(Saves!vars) => Workers'
<1> SUFFICES ASSUME SaveInv, [Saves!Next]_(Saves!vars) PROVE Workers'
  OBVIOUS
<1>0. SaveFiles /\ Workers BY DEF SaveInv
<1>a. Saves!SaveAssumption BY SaveConstants
<1>1. ASSUME NEW t \in Thread, NEW a \in SaveAcc, Saves!UploadSave(t, a) PROVE Workers'
  BY <1>0, <1>a, <1>1 DEF Saves!UploadSave, Saves!Begin, Saves!Go, Saves!End, Saves!request,
                          Saves!count, Saves!history, Saves!Free, Workers, Saves!Locked
<1>2. ASSUME NEW t \in Thread, NEW a \in SaveAcc, Saves!DownloadSave(t, a) PROVE Workers'
  BY <1>0, <1>a, <1>2 DEF Saves!DownloadSave, Saves!Begin, Saves!Go, Saves!End, Saves!request,
                          Saves!count, Saves!history, Saves!Free, Workers, Saves!Locked
<1>3. ASSUME NEW t \in Thread, NEW a \in SaveAcc, Saves!ResetMark(t, a) PROVE Workers'
  BY <1>0, <1>a, <1>3 DEF Saves!ResetMark, Saves!Begin, Saves!Go, Saves!End, Saves!request,
                          Saves!count, Saves!history, Workers, Saves!Locked
<1>4. ASSUME NEW t \in Thread, NEW a \in SaveAcc, Saves!DeleteSave(t, a) PROVE Workers'
  BY <1>0, <1>a, <1>4 DEF Saves!DeleteSave, Saves!Begin, Saves!Go, Saves!End, Saves!request,
                          Saves!count, Saves!history, Saves!Free, Workers, Saves!Locked
<1>5. ASSUME NEW t \in Thread, NEW a \in SaveAcc, Saves!DeleteAccount(t, a) PROVE Workers'
  BY <1>0, <1>a, <1>5 DEF Saves!DeleteAccount, Saves!Begin, Saves!Go, Saves!End, Saves!request,
                          Saves!count, Saves!history, Workers, Saves!Locked
<1>6. ASSUME NEW t \in Thread, NEW a \in SaveAcc, Saves!BlForce(t, a) PROVE Workers'
  BY <1>0, <1>a, <1>6 DEF Saves!BlForce, Saves!Begin, Saves!Go, Saves!End, Saves!request,
                          Saves!count, Saves!history, Workers, Saves!Locked
<1>7. ASSUME NEW t \in Thread, Saves!EnsureAccount(t) PROVE Workers'
  BY <1>0, <1>a, <1>7 DEF Saves!EnsureAccount, Saves!Begin, Saves!Go, Saves!End, Saves!request,
                          Saves!count, Saves!history, Workers, Saves!Locked
<1>8. ASSUME NEW t \in Thread, Saves!Trunc(t) PROVE Workers'
  BY <1>0, <1>a, <1>8 DEF Saves!Trunc, Saves!Begin, Saves!Go, Saves!End, Saves!request,
                          Saves!count, Saves!history, Saves!Take, Saves!Free, Workers,
                          Saves!Locked
<1>9. ASSUME NEW t \in Thread, Saves!WriteSome(t) PROVE Workers'
  BY <1>0, <1>a, <1>9 DEF Saves!WriteSome, Saves!Begin, Saves!Go, Saves!End, Saves!request,
                          Saves!count, Saves!history, Workers, Saves!Locked
<1>10. ASSUME NEW t \in Thread, Saves!Write(t) PROVE Workers'
  BY <1>0, <1>a, <1>10 DEF Saves!Write, Saves!Begin, Saves!Go, Saves!End, Saves!request,
                           Saves!count, Saves!history, Workers, Saves!Locked
<1>11. ASSUME NEW t \in Thread, Saves!Rename(t) PROVE Workers'
  BY <1>0, <1>a, <1>11 DEF Saves!Rename, Saves!Begin, Saves!Go, Saves!End, Saves!request,
                           Saves!count, Saves!history, Saves!Release, Saves!Done, Saves!Others,
                           Saves!Renamed, Workers, Saves!Locked
<1>12. ASSUME NEW t \in Thread, Saves!Fail(t) PROVE Workers'
  BY <1>0, <1>a, <1>12 DEF Saves!Fail, Saves!Begin, Saves!Go, Saves!End, Saves!request,
                           Saves!count, Saves!history, Saves!Release, Saves!Done, Saves!Others,
                           Workers, Saves!Locked
<1>13. ASSUME NEW t \in Thread, Saves!LoadCloud(t) PROVE Workers'
  BY <1>0, <1>a, <1>13 DEF Saves!LoadCloud, Saves!Begin, Saves!Go, Saves!End, Saves!request,
                           Saves!count, Saves!history, Saves!Free, Saves!Escapes, Saves!Others,
                           Workers, Saves!Locked
<1>14. ASSUME NEW t \in Thread, Saves!NoSave(t) PROVE Workers'
  BY <1>0, <1>a, <1>14 DEF Saves!NoSave, Saves!Begin, Saves!Go, Saves!End, Saves!request,
                           Saves!count, Saves!history, Saves!Free, Workers, Saves!Locked
<1>15. ASSUME NEW t \in Thread, Saves!MarkRead(t) PROVE Workers'
  BY <1>0, <1>a, <1>15 DEF Saves!MarkRead, Saves!Begin, Saves!Go, Saves!End, Saves!request,
                           Saves!count, Saves!history, Saves!Take, Saves!Free, Workers,
                           Saves!Locked
<1>16. ASSUME NEW t \in Thread, Saves!NoMeta(t) PROVE Workers'
  BY <1>0, <1>a, <1>16 DEF Saves!NoMeta, Saves!Begin, Saves!Go, Saves!End, Saves!request,
                           Saves!count, Saves!history, Saves!Free, Workers, Saves!Locked
<1>17. ASSUME NEW t \in Thread, Saves!MarkOpen(t) PROVE Workers'
  BY <1>0, <1>a, <1>17 DEF Saves!MarkOpen, Saves!Begin, Saves!Go, Saves!End, Saves!request,
                           Saves!count, Saves!history, Workers, Saves!Locked
<1>18. ASSUME NEW t \in Thread, Saves!MarkWrite(t) PROVE Workers'
  BY <1>0, <1>a, <1>18 DEF Saves!MarkWrite, Saves!Begin, Saves!Go, Saves!End, Saves!request,
                           Saves!count, Saves!history, Saves!Release, Saves!Done, Saves!Others,
                           Workers, Saves!Locked
<1>19. ASSUME NEW t \in Thread, Saves!Unlink(t) PROVE Workers'
  BY <1>0, <1>a, <1>19 DEF Saves!Unlink, Saves!Begin, Saves!Go, Saves!End, Saves!request,
                           Saves!count, Saves!history, Saves!Release, Saves!Done, Saves!Others,
                           Workers, Saves!Locked
<1>20. ASSUME NEW t \in Thread, Saves!Sweep(t) PROVE Workers'
  BY <1>0, <1>a, <1>20 DEF Saves!Sweep, Saves!End, Saves!request, Saves!count, Saves!history,
                           Saves!Free, Workers, Saves!Locked
<1>21. ASSUME NEW t \in Thread, Saves!BlLoad(t) PROVE Workers'
  BY <1>0, <1>a, <1>21 DEF Saves!BlLoad, Saves!Begin, Saves!Go, Saves!End, Saves!request,
                           Saves!count, Saves!history, Saves!Free, Workers, Saves!Locked
<1>22. ASSUME NEW t \in Thread, Saves!BlSkip(t) PROVE Workers'
  BY <1>0, <1>a, <1>22 DEF Saves!BlSkip, Saves!Begin, Saves!Go, Saves!End, Saves!request,
                           Saves!count, Saves!history, Saves!Free, Workers, Saves!Locked
<1>23. ASSUME NEW t \in Thread, Saves!BlMeta(t) PROVE Workers'
  BY <1>0, <1>a, <1>23 DEF Saves!BlMeta, Saves!Begin, Saves!Go, Saves!End, Saves!request,
                           Saves!count, Saves!history, Saves!Free, Workers, Saves!Locked
<1>24. CASE Saves!Tick
  BY <1>0, <1>a, <1>24 DEF Saves!Tick, Saves!Begin, Saves!Go, Saves!End, Saves!request,
                           Saves!count, Saves!history, Workers, Saves!Locked
<1>25. CASE Saves!Crash
  BY <1>0, <1>a, <1>25 DEF Saves!Crash, Saves!Begin, Saves!Go, Saves!End, Saves!request,
                           Saves!count, Saves!history, Workers, Saves!Locked
<1>26. CASE UNCHANGED Saves!vars
  BY <1>0, <1>26 DEF Saves!vars, Saves!Begin, Saves!Go, Saves!End, Saves!request, Saves!count,
                     Saves!history, Workers, Saves!Locked
<1> QED BY <1>1, <1>2, <1>3, <1>4, <1>5, <1>6, <1>7, <1>8, <1>9, <1>10, <1>11, <1>12, <1>13,
           <1>14, <1>15, <1>16, <1>17, <1>18, <1>19, <1>20, <1>21, <1>22, <1>23,
           <1>24, <1>25, <1>26 DEF Saves!Next, Saves!Serve

\* Every step keeps the types of what is in hand.
LEMMA InHandStep == SaveInv /\ [Saves!Next]_(Saves!vars) => InHand'
<1> SUFFICES ASSUME SaveInv, [Saves!Next]_(Saves!vars) PROVE InHand'
  OBVIOUS
<1>0. SaveFiles /\ Workers /\ InHand /\ Counts BY DEF SaveInv
<1>a. Saves!SaveAssumption BY SaveConstants
<1>1. ASSUME NEW t \in Thread, NEW a \in SaveAcc, Saves!UploadSave(t, a) PROVE InHand'
  <2>1. /\ val' = [val EXCEPT ![t] = [of |-> requests', whole |-> TRUE]]
        /\ kept' = [kept EXCEPT ![t] = [of |-> requests', down |-> Saves!MarkOf(a), body |-> FALSE]]
    BY <1>1 DEF Saves!UploadSave
  <2>2. requests' \in Number
    BY <1>0, <1>a, <1>1 DEF Saves!UploadSave, Saves!Begin, Counts, Number, Saves!SaveAssumption
  <2>3. Saves!MarkOf(a) \in Clock
    BY <1>0, <1>a DEF SaveFiles, MetaFile, Clock, Saves!MarkOf, Saves!Read, Saves!SaveAssumption
  <2>4. [of |-> requests', whole |-> TRUE] \in SaveFile BY <2>2 DEF SaveFile, Full
  <2>5. [of |-> requests', down |-> Saves!MarkOf(a), body |-> FALSE] \in MetaInHand
    BY <2>2, <2>3 DEF MetaInHand
  <2> QED BY <1>0, <2>1, <2>4, <2>5 DEF InHand
<1>2. ASSUME NEW t \in Thread, NEW a \in SaveAcc, Saves!DownloadSave(t, a) PROVE InHand'
  BY <1>0, <1>a, <1>2 DEF Saves!DownloadSave, Saves!Begin, Saves!Go, Saves!End, Saves!request,
                          Saves!count, Saves!history, Saves!Free, Counts, Saves!MarkOf,
                          Saves!Load, Saves!Read, SaveFiles, Workers, InHand, Number, Full, Clock,
                          SaveFile, MetaFile, MetaInHand, Saves!Nothing, Saves!Empty,
                          Saves!Missing, Saves!Cut
<1>3. ASSUME NEW t \in Thread, NEW a \in SaveAcc, Saves!ResetMark(t, a) PROVE InHand'
  BY <1>0, <1>a, <1>3 DEF Saves!ResetMark, Saves!Begin, Saves!Go, Saves!End, Saves!request,
                          Saves!count, Saves!history, Counts, Saves!MarkOf, Saves!Load,
                          Saves!Read, SaveFiles, Workers, InHand, Number, Full, Clock, SaveFile,
                          MetaFile, MetaInHand, Saves!Nothing, Saves!Empty, Saves!Missing, Saves!Cut
<1>4. ASSUME NEW t \in Thread, NEW a \in SaveAcc, Saves!DeleteSave(t, a) PROVE InHand'
  BY <1>0, <1>a, <1>4 DEF Saves!DeleteSave, Saves!Begin, Saves!Go, Saves!End, Saves!request,
                          Saves!count, Saves!history, Saves!Free, Counts, Saves!MarkOf,
                          Saves!Load, Saves!Read, SaveFiles, Workers, InHand, Number, Full, Clock,
                          SaveFile, MetaFile, MetaInHand, Saves!Nothing, Saves!Empty,
                          Saves!Missing, Saves!Cut
<1>5. ASSUME NEW t \in Thread, NEW a \in SaveAcc, Saves!DeleteAccount(t, a) PROVE InHand'
  BY <1>0, <1>a, <1>5 DEF Saves!DeleteAccount, Saves!Begin, Saves!Go, Saves!End, Saves!request,
                          Saves!count, Saves!history, Counts, Saves!MarkOf, Saves!Load,
                          Saves!Read, SaveFiles, Workers, InHand, Number, Full, Clock, SaveFile,
                          MetaFile, MetaInHand, Saves!Nothing, Saves!Empty, Saves!Missing, Saves!Cut
<1>6. ASSUME NEW t \in Thread, NEW a \in SaveAcc, Saves!BlForce(t, a) PROVE InHand'
  BY <1>0, <1>a, <1>6 DEF Saves!BlForce, Saves!Begin, Saves!Go, Saves!End, Saves!request,
                          Saves!count, Saves!history, Counts, Saves!MarkOf, Saves!Load,
                          Saves!Read, SaveFiles, Workers, InHand, Number, Full, Clock, SaveFile,
                          MetaFile, MetaInHand, Saves!Nothing, Saves!Empty, Saves!Missing, Saves!Cut
<1>7. ASSUME NEW t \in Thread, Saves!EnsureAccount(t) PROVE InHand'
  BY <1>0, <1>a, <1>7 DEF Saves!EnsureAccount, Saves!Begin, Saves!Go, Saves!End, Saves!request,
                          Saves!count, Saves!history, Counts, Saves!MarkOf, Saves!Load,
                          Saves!Read, SaveFiles, Workers, InHand, Number, Full, Clock, SaveFile,
                          MetaFile, MetaInHand, Saves!Nothing, Saves!Empty, Saves!Missing, Saves!Cut
<1>8. ASSUME NEW t \in Thread, Saves!Trunc(t) PROVE InHand'
  BY <1>0, <1>a, <1>8 DEF Saves!Trunc, Saves!Begin, Saves!Go, Saves!End, Saves!request,
                          Saves!count, Saves!history, Saves!Take, Saves!Free, Counts,
                          Saves!MarkOf, Saves!Load, Saves!Read, SaveFiles, Workers, InHand,
                          Number, Full, Clock, SaveFile, MetaFile, MetaInHand, Saves!Nothing,
                          Saves!Empty, Saves!Missing, Saves!Cut
<1>9. ASSUME NEW t \in Thread, Saves!WriteSome(t) PROVE InHand'
  BY <1>0, <1>a, <1>9 DEF Saves!WriteSome, Saves!Begin, Saves!Go, Saves!End, Saves!request,
                          Saves!count, Saves!history, Counts, Saves!MarkOf, Saves!Load,
                          Saves!Read, SaveFiles, Workers, InHand, Number, Full, Clock, SaveFile,
                          MetaFile, MetaInHand, Saves!Nothing, Saves!Empty, Saves!Missing, Saves!Cut
<1>10. ASSUME NEW t \in Thread, Saves!Write(t) PROVE InHand'
  BY <1>0, <1>a, <1>10 DEF Saves!Write, Saves!Begin, Saves!Go, Saves!End, Saves!request,
                           Saves!count, Saves!history, Counts, Saves!MarkOf, Saves!Load,
                           Saves!Read, SaveFiles, Workers, InHand, Number, Full, Clock, SaveFile,
                           MetaFile, MetaInHand, Saves!Nothing, Saves!Empty, Saves!Missing,
                           Saves!Cut
<1>11. ASSUME NEW t \in Thread, Saves!Rename(t) PROVE InHand'
  <2>1. val' = [val EXCEPT ![t] = Saves!Nothing] /\ kept' = [kept EXCEPT ![t] = Saves!Missing]
    BY <1>11 DEF Saves!Rename, Saves!End
  <2>2. Saves!Missing \in MetaInHand /\ Saves!Nothing \in SaveFile
    BY <1>a DEF Saves!Missing, MetaInHand, Clock, SaveFile, Saves!SaveAssumption
  <2> QED BY <1>0, <2>1, <2>2 DEF InHand
<1>12. ASSUME NEW t \in Thread, Saves!Fail(t) PROVE InHand'
  <2>1. val' = [val EXCEPT ![t] = Saves!Nothing] /\ kept' = [kept EXCEPT ![t] = Saves!Missing]
    BY <1>12 DEF Saves!Fail, Saves!End
  <2>2. Saves!Missing \in MetaInHand /\ Saves!Nothing \in SaveFile
    BY <1>a DEF Saves!Missing, MetaInHand, Clock, SaveFile, Saves!SaveAssumption
  <2> QED BY <1>0, <2>1, <2>2 DEF InHand
<1>13. ASSUME NEW t \in Thread, Saves!LoadCloud(t) PROVE InHand'
  BY <1>0, <1>a, <1>13 DEF Saves!LoadCloud, Saves!Begin, Saves!Go, Saves!End, Saves!request,
                           Saves!count, Saves!history, Saves!Free, Saves!Escapes, Saves!Others,
                           Counts, Saves!MarkOf, Saves!Load, Saves!Read, SaveFiles, Workers,
                           InHand, Number, Full, Clock, SaveFile, MetaFile, MetaInHand,
                           Saves!Nothing, Saves!Empty, Saves!Missing, Saves!Cut
<1>14. ASSUME NEW t \in Thread, Saves!NoSave(t) PROVE InHand'
  <2>1. val' = [val EXCEPT ![t] = Saves!Nothing] /\ kept' = [kept EXCEPT ![t] = Saves!Missing]
    BY <1>14 DEF Saves!NoSave, Saves!End
  <2>2. Saves!Missing \in MetaInHand /\ Saves!Nothing \in SaveFile
    BY <1>a DEF Saves!Missing, MetaInHand, Clock, SaveFile, Saves!SaveAssumption
  <2> QED BY <1>0, <2>1, <2>2 DEF InHand
<1>15. ASSUME NEW t \in Thread, Saves!MarkRead(t) PROVE InHand'
  <2>1. /\ pc[t] = "mark" /\ Saves!Read(meta[acc[t]]) /\ val' = val
        /\ kept' = [kept EXCEPT ![t] = [meta[acc[t]] EXCEPT !.down = kept[t].down]]
    BY <1>15 DEF Saves!MarkRead, Saves!Go
  <2>2. acc[t] \in SaveAcc /\ kept[t].down \in Clock /\ kept[t] \in MetaInHand
    BY <1>0, <2>1 DEF Workers, InHand, MetaInHand
  <2>3. meta[acc[t]] \in [of : Number, down : Clock, body : BOOLEAN]
    BY <1>0, <2>1, <2>2 DEF SaveFiles, MetaFile, Saves!Read
  <2>4. [meta[acc[t]] EXCEPT !.down = kept[t].down] \in MetaInHand
    BY ONLY <2>2, <2>3 DEF MetaInHand
  <2> QED BY <1>0, <2>1, <2>4 DEF InHand
<1>16. ASSUME NEW t \in Thread, Saves!NoMeta(t) PROVE InHand'
  <2>1. val' = [val EXCEPT ![t] = Saves!Nothing] /\ kept' = [kept EXCEPT ![t] = Saves!Missing]
    BY <1>16 DEF Saves!NoMeta, Saves!End
  <2>2. Saves!Missing \in MetaInHand /\ Saves!Nothing \in SaveFile
    BY <1>a DEF Saves!Missing, MetaInHand, Clock, SaveFile, Saves!SaveAssumption
  <2> QED BY <1>0, <2>1, <2>2 DEF InHand
<1>17. ASSUME NEW t \in Thread, Saves!MarkOpen(t) PROVE InHand'
  BY <1>0, <1>a, <1>17 DEF Saves!MarkOpen, Saves!Begin, Saves!Go, Saves!End, Saves!request,
                           Saves!count, Saves!history, Counts, Saves!MarkOf, Saves!Load,
                           Saves!Read, SaveFiles, Workers, InHand, Number, Full, Clock, SaveFile,
                           MetaFile, MetaInHand, Saves!Nothing, Saves!Empty, Saves!Missing,
                           Saves!Cut
<1>18. ASSUME NEW t \in Thread, Saves!MarkWrite(t) PROVE InHand'
  <2>1. val' = [val EXCEPT ![t] = Saves!Nothing] /\ kept' = [kept EXCEPT ![t] = Saves!Missing]
    BY <1>18 DEF Saves!MarkWrite, Saves!End
  <2>2. Saves!Missing \in MetaInHand /\ Saves!Nothing \in SaveFile
    BY <1>a DEF Saves!Missing, MetaInHand, Clock, SaveFile, Saves!SaveAssumption
  <2> QED BY <1>0, <2>1, <2>2 DEF InHand
<1>19. ASSUME NEW t \in Thread, Saves!Unlink(t) PROVE InHand'
  <2>1. val' = [val EXCEPT ![t] = Saves!Nothing] /\ kept' = [kept EXCEPT ![t] = Saves!Missing]
    BY <1>19 DEF Saves!Unlink, Saves!End
  <2>2. Saves!Missing \in MetaInHand /\ Saves!Nothing \in SaveFile
    BY <1>a DEF Saves!Missing, MetaInHand, Clock, SaveFile, Saves!SaveAssumption
  <2> QED BY <1>0, <2>1, <2>2 DEF InHand
<1>20. ASSUME NEW t \in Thread, Saves!Sweep(t) PROVE InHand'
  <2>1. val' = [val EXCEPT ![t] = Saves!Nothing] /\ kept' = [kept EXCEPT ![t] = Saves!Missing]
    BY <1>20 DEF Saves!Sweep, Saves!End
  <2>2. Saves!Missing \in MetaInHand /\ Saves!Nothing \in SaveFile
    BY <1>a DEF Saves!Missing, MetaInHand, Clock, SaveFile, Saves!SaveAssumption
  <2> QED BY <1>0, <2>1, <2>2 DEF InHand
<1>21. ASSUME NEW t \in Thread, Saves!BlLoad(t) PROVE InHand'
  BY <1>0, <1>a, <1>21 DEF Saves!BlLoad, Saves!Begin, Saves!Go, Saves!End, Saves!request,
                           Saves!count, Saves!history, Saves!Free, Counts, Saves!MarkOf,
                           Saves!Load, Saves!Read, SaveFiles, Workers, InHand, Number, Full,
                           Clock, SaveFile, MetaFile, MetaInHand, Saves!Nothing, Saves!Empty,
                           Saves!Missing, Saves!Cut
<1>22. ASSUME NEW t \in Thread, Saves!BlSkip(t) PROVE InHand'
  <2>1. val' = [val EXCEPT ![t] = Saves!Nothing] /\ kept' = [kept EXCEPT ![t] = Saves!Missing]
    BY <1>22 DEF Saves!BlSkip, Saves!End
  <2>2. Saves!Missing \in MetaInHand /\ Saves!Nothing \in SaveFile
    BY <1>a DEF Saves!Missing, MetaInHand, Clock, SaveFile, Saves!SaveAssumption
  <2> QED BY <1>0, <2>1, <2>2 DEF InHand
<1>23. ASSUME NEW t \in Thread, Saves!BlMeta(t) PROVE InHand'
  <2>1. acc[t] \in SaveAcc /\ val[t] \in SaveFile BY <1>0, <1>23 DEF Saves!BlMeta, Saves!Go,
                                                     Workers, InHand
  <2>2. val[t].of \in Number \cup {None} BY <2>1 DEF SaveFile, Full, Saves!Nothing, Saves!Empty
  <2>3. 0 \in Clock BY <1>a DEF Clock, Saves!SaveAssumption
  <2>4. CASE Saves!Read(meta[acc[t]])
    <3>1. meta[acc[t]] \in [of : Number, down : Clock, body : BOOLEAN]
      BY <1>0, <2>1, <2>4 DEF SaveFiles, MetaFile, Saves!Read
    <3>2. [meta[acc[t]] EXCEPT !.body = FALSE] \in MetaInHand BY <3>1 DEF MetaInHand
    <3> QED BY <1>0, <2>4, <3>2, <1>23 DEF Saves!BlMeta, InHand
  <2>5. CASE ~Saves!Read(meta[acc[t]])
    <3>1. [of |-> val[t].of, down |-> 0, body |-> FALSE] \in MetaInHand BY <2>2, <2>3 DEF MetaInHand
    <3> QED BY <1>0, <2>5, <3>1, <1>23 DEF Saves!BlMeta, InHand
  <2> QED BY <2>4, <2>5
<1>24. CASE Saves!Tick
  BY <1>0, <1>a, <1>24 DEF Saves!Tick, Saves!Begin, Saves!Go, Saves!End, Saves!request,
                           Saves!count, Saves!history, Counts, Saves!MarkOf, Saves!Load,
                           Saves!Read, SaveFiles, Workers, InHand, Number, Full, Clock, SaveFile,
                           MetaFile, MetaInHand, Saves!Nothing, Saves!Empty, Saves!Missing,
                           Saves!Cut
<1>25. CASE Saves!Crash
  <2>1. val' = [t \in Thread |-> Saves!Nothing] /\ kept' = [t \in Thread |-> Saves!Missing]
    BY <1>25 DEF Saves!Crash
  <2>2. Saves!Missing \in MetaInHand /\ Saves!Nothing \in SaveFile
    BY <1>a DEF Saves!Missing, MetaInHand, Clock, SaveFile, Saves!SaveAssumption
  <2> QED BY <2>1, <2>2 DEF InHand
<1>26. CASE UNCHANGED Saves!vars
  BY <1>0, <1>26 DEF Saves!vars, Saves!Begin, Saves!Go, Saves!End, Saves!request, Saves!count,
                     Saves!history, Counts, Saves!MarkOf, Saves!Load, Saves!Read, SaveFiles,
                     Workers, InHand, Number, Full, Clock, SaveFile, MetaFile, MetaInHand,
                     Saves!Nothing, Saves!Empty, Saves!Missing, Saves!Cut
<1> QED BY <1>1, <1>2, <1>3, <1>4, <1>5, <1>6, <1>7, <1>8, <1>9, <1>10, <1>11, <1>12, <1>13,
           <1>14, <1>15, <1>16, <1>17, <1>18, <1>19, <1>20, <1>21, <1>22, <1>23,
           <1>24, <1>25, <1>26 DEF Saves!Next, Saves!Serve

\* Every step keeps the counts.
LEMMA CountsStep == SaveInv /\ [Saves!Next]_(Saves!vars) => Counts'
<1> SUFFICES ASSUME SaveInv, [Saves!Next]_(Saves!vars) PROVE Counts'
  OBVIOUS
<1>0. Counts BY DEF SaveInv
<1>a. Saves!SaveAssumption BY SaveConstants
<1>1. ASSUME NEW t \in Thread, NEW a \in SaveAcc, Saves!UploadSave(t, a) PROVE Counts'
  BY <1>0, <1>a, <1>1 DEF Saves!UploadSave, Saves!Begin, Saves!Go, Saves!End, Saves!request,
                          Saves!count, Saves!history, Saves!Free, Counts, Number,
                          Saves!SaveAssumption
<1>2. ASSUME NEW t \in Thread, NEW a \in SaveAcc, Saves!DownloadSave(t, a) PROVE Counts'
  BY <1>0, <1>a, <1>2 DEF Saves!DownloadSave, Saves!Begin, Saves!Go, Saves!End, Saves!request,
                          Saves!count, Saves!history, Saves!Free, Counts, Number,
                          Saves!SaveAssumption
<1>3. ASSUME NEW t \in Thread, NEW a \in SaveAcc, Saves!ResetMark(t, a) PROVE Counts'
  BY <1>0, <1>a, <1>3 DEF Saves!ResetMark, Saves!Begin, Saves!Go, Saves!End, Saves!request,
                          Saves!count, Saves!history, Counts, Number, Saves!SaveAssumption
<1>4. ASSUME NEW t \in Thread, NEW a \in SaveAcc, Saves!DeleteSave(t, a) PROVE Counts'
  BY <1>0, <1>a, <1>4 DEF Saves!DeleteSave, Saves!Begin, Saves!Go, Saves!End, Saves!request,
                          Saves!count, Saves!history, Saves!Free, Counts, Number,
                          Saves!SaveAssumption
<1>5. ASSUME NEW t \in Thread, NEW a \in SaveAcc, Saves!DeleteAccount(t, a) PROVE Counts'
  BY <1>0, <1>a, <1>5 DEF Saves!DeleteAccount, Saves!Begin, Saves!Go, Saves!End, Saves!request,
                          Saves!count, Saves!history, Counts, Number, Saves!SaveAssumption
<1>6. ASSUME NEW t \in Thread, NEW a \in SaveAcc, Saves!BlForce(t, a) PROVE Counts'
  BY <1>0, <1>a, <1>6 DEF Saves!BlForce, Saves!Begin, Saves!Go, Saves!End, Saves!request,
                          Saves!count, Saves!history, Counts, Number, Saves!SaveAssumption
<1>7. ASSUME NEW t \in Thread, Saves!EnsureAccount(t) PROVE Counts'
  BY <1>0, <1>a, <1>7 DEF Saves!EnsureAccount, Saves!Begin, Saves!Go, Saves!End, Saves!request,
                          Saves!count, Saves!history, Counts, Number, Saves!SaveAssumption
<1>8. ASSUME NEW t \in Thread, Saves!Trunc(t) PROVE Counts'
  BY <1>0, <1>a, <1>8 DEF Saves!Trunc, Saves!Begin, Saves!Go, Saves!End, Saves!request,
                          Saves!count, Saves!history, Saves!Take, Saves!Free, Counts, Number,
                          Saves!SaveAssumption
<1>9. ASSUME NEW t \in Thread, Saves!WriteSome(t) PROVE Counts'
  BY <1>0, <1>a, <1>9 DEF Saves!WriteSome, Saves!Begin, Saves!Go, Saves!End, Saves!request,
                          Saves!count, Saves!history, Counts, Number, Saves!SaveAssumption
<1>10. ASSUME NEW t \in Thread, Saves!Write(t) PROVE Counts'
  BY <1>0, <1>a, <1>10 DEF Saves!Write, Saves!Begin, Saves!Go, Saves!End, Saves!request,
                           Saves!count, Saves!history, Counts, Number, Saves!SaveAssumption
<1>11. ASSUME NEW t \in Thread, Saves!Rename(t) PROVE Counts'
  BY <1>0, <1>a, <1>11 DEF Saves!Rename, Saves!Begin, Saves!Go, Saves!End, Saves!request,
                           Saves!count, Saves!history, Saves!Release, Saves!Done, Saves!Others,
                           Saves!Renamed, Counts, Number, Saves!SaveAssumption
<1>12. ASSUME NEW t \in Thread, Saves!Fail(t) PROVE Counts'
  BY <1>0, <1>a, <1>12 DEF Saves!Fail, Saves!Begin, Saves!Go, Saves!End, Saves!request,
                           Saves!count, Saves!history, Saves!Release, Saves!Done, Saves!Others,
                           Counts, Number, Saves!SaveAssumption
<1>13. ASSUME NEW t \in Thread, Saves!LoadCloud(t) PROVE Counts'
  BY <1>0, <1>a, <1>13 DEF Saves!LoadCloud, Saves!Begin, Saves!Go, Saves!End, Saves!request,
                           Saves!count, Saves!history, Saves!Free, Saves!Escapes, Saves!Others,
                           Counts, Number, Saves!SaveAssumption
<1>14. ASSUME NEW t \in Thread, Saves!NoSave(t) PROVE Counts'
  BY <1>0, <1>a, <1>14 DEF Saves!NoSave, Saves!Begin, Saves!Go, Saves!End, Saves!request,
                           Saves!count, Saves!history, Saves!Free, Counts, Number,
                           Saves!SaveAssumption
<1>15. ASSUME NEW t \in Thread, Saves!MarkRead(t) PROVE Counts'
  BY <1>0, <1>a, <1>15 DEF Saves!MarkRead, Saves!Begin, Saves!Go, Saves!End, Saves!request,
                           Saves!count, Saves!history, Saves!Take, Saves!Free, Counts, Number,
                           Saves!SaveAssumption
<1>16. ASSUME NEW t \in Thread, Saves!NoMeta(t) PROVE Counts'
  BY <1>0, <1>a, <1>16 DEF Saves!NoMeta, Saves!Begin, Saves!Go, Saves!End, Saves!request,
                           Saves!count, Saves!history, Saves!Free, Counts, Number,
                           Saves!SaveAssumption
<1>17. ASSUME NEW t \in Thread, Saves!MarkOpen(t) PROVE Counts'
  BY <1>0, <1>a, <1>17 DEF Saves!MarkOpen, Saves!Begin, Saves!Go, Saves!End, Saves!request,
                           Saves!count, Saves!history, Counts, Number, Saves!SaveAssumption
<1>18. ASSUME NEW t \in Thread, Saves!MarkWrite(t) PROVE Counts'
  BY <1>0, <1>a, <1>18 DEF Saves!MarkWrite, Saves!Begin, Saves!Go, Saves!End, Saves!request,
                           Saves!count, Saves!history, Saves!Release, Saves!Done, Saves!Others,
                           Counts, Number, Saves!SaveAssumption
<1>19. ASSUME NEW t \in Thread, Saves!Unlink(t) PROVE Counts'
  BY <1>0, <1>a, <1>19 DEF Saves!Unlink, Saves!Begin, Saves!Go, Saves!End, Saves!request,
                           Saves!count, Saves!history, Saves!Release, Saves!Done, Saves!Others,
                           Counts, Number, Saves!SaveAssumption
<1>20. ASSUME NEW t \in Thread, Saves!Sweep(t) PROVE Counts'
  BY <1>0, <1>a, <1>20 DEF Saves!Sweep, Saves!Begin, Saves!Go, Saves!End, Saves!request,
                           Saves!count, Saves!history, Saves!Take, Saves!Free, Counts, Number,
                           Saves!SaveAssumption
<1>21. ASSUME NEW t \in Thread, Saves!BlLoad(t) PROVE Counts'
  BY <1>0, <1>a, <1>21 DEF Saves!BlLoad, Saves!Begin, Saves!Go, Saves!End, Saves!request,
                           Saves!count, Saves!history, Saves!Free, Counts, Number,
                           Saves!SaveAssumption
<1>22. ASSUME NEW t \in Thread, Saves!BlSkip(t) PROVE Counts'
  BY <1>0, <1>a, <1>22 DEF Saves!BlSkip, Saves!Begin, Saves!Go, Saves!End, Saves!request,
                           Saves!count, Saves!history, Saves!Free, Counts, Number,
                           Saves!SaveAssumption
<1>23. ASSUME NEW t \in Thread, Saves!BlMeta(t) PROVE Counts'
  BY <1>0, <1>a, <1>23 DEF Saves!BlMeta, Saves!Begin, Saves!Go, Saves!End, Saves!request,
                           Saves!count, Saves!history, Saves!Free, Counts, Number,
                           Saves!SaveAssumption
<1>24. CASE Saves!Tick
  BY <1>0, <1>a, <1>24 DEF Saves!Tick, Saves!Begin, Saves!Go, Saves!End, Saves!request,
                           Saves!count, Saves!history, Counts, Number, Saves!SaveAssumption
<1>25. CASE Saves!Crash
  BY <1>0, <1>a, <1>25 DEF Saves!Crash, Saves!Begin, Saves!Go, Saves!End, Saves!request,
                           Saves!count, Saves!history, Counts, Number, Saves!SaveAssumption
<1>26. CASE UNCHANGED Saves!vars
  BY <1>0, <1>26 DEF Saves!vars, Saves!Begin, Saves!Go, Saves!End, Saves!request, Saves!count,
                     Saves!history, Counts, Number, Saves!SaveAssumption
<1> QED BY <1>1, <1>2, <1>3, <1>4, <1>5, <1>6, <1>7, <1>8, <1>9, <1>10, <1>11, <1>12, <1>13,
           <1>14, <1>15, <1>16, <1>17, <1>18, <1>19, <1>20, <1>21, <1>22, <1>23,
           <1>24, <1>25, <1>26 DEF Saves!Next, Saves!Serve

\* Every step keeps the types of the histories.
LEMMA PastStep == SaveInv /\ [Saves!Next]_(Saves!vars) => Past'
<1> SUFFICES ASSUME SaveInv, [Saves!Next]_(Saves!vars) PROVE Past'
  OBVIOUS
<1>0. Workers /\ InHand /\ Past BY DEF SaveInv
<1>a. Saves!SaveAssumption BY SaveConstants
<1>1. ASSUME NEW t \in Thread, NEW a \in SaveAcc, Saves!UploadSave(t, a) PROVE Past'
  BY <1>0, <1>a, <1>1 DEF Saves!UploadSave, Saves!Begin, Saves!Go, Saves!End, Saves!request,
                          Saves!count, Saves!history, Saves!Free, Workers, InHand, Past, Number,
                          Full, Clock, SaveFile, MetaFile, MetaInHand
<1>2. ASSUME NEW t \in Thread, NEW a \in SaveAcc, Saves!DownloadSave(t, a) PROVE Past'
  BY <1>0, <1>a, <1>2 DEF Saves!DownloadSave, Saves!Begin, Saves!Go, Saves!End, Saves!request,
                          Saves!count, Saves!history, Saves!Free, Workers, InHand, Past, Number,
                          Full, Clock, SaveFile, MetaFile, MetaInHand
<1>3. ASSUME NEW t \in Thread, NEW a \in SaveAcc, Saves!ResetMark(t, a) PROVE Past'
  BY <1>0, <1>a, <1>3 DEF Saves!ResetMark, Saves!Begin, Saves!Go, Saves!End, Saves!request,
                          Saves!count, Saves!history, Workers, InHand, Past, Number, Full, Clock,
                          SaveFile, MetaFile, MetaInHand
<1>4. ASSUME NEW t \in Thread, NEW a \in SaveAcc, Saves!DeleteSave(t, a) PROVE Past'
  BY <1>0, <1>a, <1>4 DEF Saves!DeleteSave, Saves!Begin, Saves!Go, Saves!End, Saves!request,
                          Saves!count, Saves!history, Saves!Free, Workers, InHand, Past, Number,
                          Full, Clock, SaveFile, MetaFile, MetaInHand
<1>5. ASSUME NEW t \in Thread, NEW a \in SaveAcc, Saves!DeleteAccount(t, a) PROVE Past'
  BY <1>0, <1>a, <1>5 DEF Saves!DeleteAccount, Saves!Begin, Saves!Go, Saves!End, Saves!request,
                          Saves!count, Saves!history, Workers, InHand, Past, Number, Full, Clock,
                          SaveFile, MetaFile, MetaInHand
<1>6. ASSUME NEW t \in Thread, NEW a \in SaveAcc, Saves!BlForce(t, a) PROVE Past'
  BY <1>0, <1>a, <1>6 DEF Saves!BlForce, Saves!Begin, Saves!Go, Saves!End, Saves!request,
                          Saves!count, Saves!history, Workers, InHand, Past, Number, Full, Clock,
                          SaveFile, MetaFile, MetaInHand
<1>7. ASSUME NEW t \in Thread, Saves!EnsureAccount(t) PROVE Past'
  BY <1>0, <1>a, <1>7 DEF Saves!EnsureAccount, Saves!Begin, Saves!Go, Saves!End, Saves!request,
                          Saves!count, Saves!history, Workers, InHand, Past, Number, Full, Clock,
                          SaveFile, MetaFile, MetaInHand
<1>8. ASSUME NEW t \in Thread, Saves!Trunc(t) PROVE Past'
  BY <1>0, <1>a, <1>8 DEF Saves!Trunc, Saves!Begin, Saves!Go, Saves!End, Saves!request,
                          Saves!count, Saves!history, Saves!Take, Saves!Free, Workers, InHand,
                          Past, Number, Full, Clock, SaveFile, MetaFile, MetaInHand
<1>9. ASSUME NEW t \in Thread, Saves!WriteSome(t) PROVE Past'
  BY <1>0, <1>a, <1>9 DEF Saves!WriteSome, Saves!Begin, Saves!Go, Saves!End, Saves!request,
                          Saves!count, Saves!history, Workers, InHand, Past, Number, Full, Clock,
                          SaveFile, MetaFile, MetaInHand
<1>10. ASSUME NEW t \in Thread, Saves!Write(t) PROVE Past'
  BY <1>0, <1>a, <1>10 DEF Saves!Write, Saves!Begin, Saves!Go, Saves!End, Saves!request,
                           Saves!count, Saves!history, Workers, InHand, Past, Number, Full, Clock,
                           SaveFile, MetaFile, MetaInHand
<1>11. ASSUME NEW t \in Thread, Saves!Rename(t) PROVE Past'
  <2>1. val[t].of \in Number \cup {None}
    BY <1>0 DEF InHand, SaveFile, Full, Saves!Nothing, Saves!Empty
  <2>2. acc[t] \in SaveAcc BY <1>0, <1>11 DEF Saves!Rename, Saves!End, Workers
  <2> QED BY <1>0, <2>1, <2>2, <1>11 DEF Saves!Rename, Saves!End, Saves!Done, Saves!Others, Past
<1>12. ASSUME NEW t \in Thread, Saves!Fail(t) PROVE Past'
  BY <1>0, <1>a, <1>12 DEF Saves!Fail, Saves!Begin, Saves!Go, Saves!End, Saves!request,
                           Saves!count, Saves!history, Saves!Release, Saves!Done, Saves!Others,
                           Workers, InHand, Past, Number, Full, Clock, SaveFile, MetaFile,
                           MetaInHand
<1>13. ASSUME NEW t \in Thread, Saves!LoadCloud(t) PROVE Past'
  BY <1>0, <1>a, <1>13 DEF Saves!LoadCloud, Saves!Begin, Saves!Go, Saves!End, Saves!request,
                           Saves!count, Saves!history, Saves!Free, Saves!Escapes, Saves!Others,
                           Workers, InHand, Past, Number, Full, Clock, SaveFile, MetaFile,
                           MetaInHand
<1>14. ASSUME NEW t \in Thread, Saves!NoSave(t) PROVE Past'
  BY <1>0, <1>a, <1>14 DEF Saves!NoSave, Saves!Begin, Saves!Go, Saves!End, Saves!request,
                           Saves!count, Saves!history, Saves!Free, Workers, InHand, Past, Number,
                           Full, Clock, SaveFile, MetaFile, MetaInHand
<1>15. ASSUME NEW t \in Thread, Saves!MarkRead(t) PROVE Past'
  BY <1>0, <1>a, <1>15 DEF Saves!MarkRead, Saves!Begin, Saves!Go, Saves!End, Saves!request,
                           Saves!count, Saves!history, Saves!Take, Saves!Free, Workers, InHand,
                           Past, Number, Full, Clock, SaveFile, MetaFile, MetaInHand
<1>16. ASSUME NEW t \in Thread, Saves!NoMeta(t) PROVE Past'
  BY <1>0, <1>a, <1>16 DEF Saves!NoMeta, Saves!Begin, Saves!Go, Saves!End, Saves!request,
                           Saves!count, Saves!history, Saves!Free, Workers, InHand, Past, Number,
                           Full, Clock, SaveFile, MetaFile, MetaInHand
<1>17. ASSUME NEW t \in Thread, Saves!MarkOpen(t) PROVE Past'
  BY <1>0, <1>a, <1>17 DEF Saves!MarkOpen, Saves!Begin, Saves!Go, Saves!End, Saves!request,
                           Saves!count, Saves!history, Workers, InHand, Past, Number, Full, Clock,
                           SaveFile, MetaFile, MetaInHand
<1>18. ASSUME NEW t \in Thread, Saves!MarkWrite(t) PROVE Past'
  BY <1>0, <1>a, <1>18 DEF Saves!MarkWrite, Saves!Begin, Saves!Go, Saves!End, Saves!request,
                           Saves!count, Saves!history, Saves!Release, Saves!Done, Saves!Others,
                           Workers, InHand, Past, Number, Full, Clock, SaveFile, MetaFile,
                           MetaInHand
<1>19. ASSUME NEW t \in Thread, Saves!Unlink(t) PROVE Past'
  BY <1>0, <1>a, <1>19 DEF Saves!Unlink, Saves!Begin, Saves!Go, Saves!End, Saves!request,
                           Saves!count, Saves!history, Saves!Release, Saves!Done, Saves!Others,
                           Workers, InHand, Past, Number, Full, Clock, SaveFile, MetaFile,
                           MetaInHand
<1>20. ASSUME NEW t \in Thread, Saves!Sweep(t) PROVE Past'
  BY <1>0, <1>a, <1>20 DEF Saves!Sweep, Saves!Begin, Saves!Go, Saves!End, Saves!request,
                           Saves!count, Saves!history, Saves!Take, Saves!Free, Workers, InHand,
                           Past, Number, Full, Clock, SaveFile, MetaFile, MetaInHand
<1>21. ASSUME NEW t \in Thread, Saves!BlLoad(t) PROVE Past'
  BY <1>0, <1>a, <1>21 DEF Saves!BlLoad, Saves!Begin, Saves!Go, Saves!End, Saves!request,
                           Saves!count, Saves!history, Saves!Free, Workers, InHand, Past, Number,
                           Full, Clock, SaveFile, MetaFile, MetaInHand
<1>22. ASSUME NEW t \in Thread, Saves!BlSkip(t) PROVE Past'
  BY <1>0, <1>a, <1>22 DEF Saves!BlSkip, Saves!Begin, Saves!Go, Saves!End, Saves!request,
                           Saves!count, Saves!history, Saves!Free, Workers, InHand, Past, Number,
                           Full, Clock, SaveFile, MetaFile, MetaInHand
<1>23. ASSUME NEW t \in Thread, Saves!BlMeta(t) PROVE Past'
  BY <1>0, <1>a, <1>23 DEF Saves!BlMeta, Saves!Begin, Saves!Go, Saves!End, Saves!request,
                           Saves!count, Saves!history, Saves!Free, Workers, InHand, Past, Number,
                           Full, Clock, SaveFile, MetaFile, MetaInHand
<1>24. CASE Saves!Tick
  BY <1>0, <1>a, <1>24 DEF Saves!Tick, Saves!Begin, Saves!Go, Saves!End, Saves!request,
                           Saves!count, Saves!history, Workers, InHand, Past, Number, Full, Clock,
                           SaveFile, MetaFile, MetaInHand
<1>25. CASE Saves!Crash
  BY <1>0, <1>a, <1>25 DEF Saves!Crash, Saves!Begin, Saves!Go, Saves!End, Saves!request,
                           Saves!count, Saves!history, Workers, InHand, Past, Number, Full, Clock,
                           SaveFile, MetaFile, MetaInHand
<1>26. CASE UNCHANGED Saves!vars
  BY <1>0, <1>26 DEF Saves!vars, Saves!Begin, Saves!Go, Saves!End, Saves!request, Saves!count,
                     Saves!history, Workers, InHand, Past, Number, Full, Clock, SaveFile,
                     MetaFile, MetaInHand
<1> QED BY <1>1, <1>2, <1>3, <1>4, <1>5, <1>6, <1>7, <1>8, <1>9, <1>10, <1>11, <1>12, <1>13,
           <1>14, <1>15, <1>16, <1>17, <1>18, <1>19, <1>20, <1>21, <1>22, <1>23,
           <1>24, <1>25, <1>26 DEF Saves!Next, Saves!Serve

\* Every step keeps the owners of the locks.
LEMMA OwnersStep == SaveInv /\ [Saves!Next]_(Saves!vars) => Owners'
<1> SUFFICES ASSUME SaveInv, [Saves!Next]_(Saves!vars) PROVE Owners'
  OBVIOUS
<1>0. Workers /\ Owners BY DEF SaveInv
<1>a. Saves!SaveAssumption BY SaveConstants
<1>1. ASSUME NEW t \in Thread, NEW a \in SaveAcc, Saves!UploadSave(t, a) PROVE Owners'
  BY <1>0, <1>a, <1>1 DEF Saves!UploadSave, Saves!Begin, Saves!Go, Saves!End, Saves!request,
                          Saves!count, Saves!history, Saves!Free, Workers, Owners, Saves!Locked,
                          Saves!SaveAssumption
<1>2. ASSUME NEW t \in Thread, NEW a \in SaveAcc, Saves!DownloadSave(t, a) PROVE Owners'
  BY <1>0, <1>a, <1>2 DEF Saves!DownloadSave, Saves!Begin, Saves!Go, Saves!End, Saves!request,
                          Saves!count, Saves!history, Saves!Free, Workers, Owners, Saves!Locked,
                          Saves!SaveAssumption
<1>3. ASSUME NEW t \in Thread, NEW a \in SaveAcc, Saves!ResetMark(t, a) PROVE Owners'
  BY <1>0, <1>a, <1>3 DEF Saves!ResetMark, Saves!Begin, Saves!Go, Saves!End, Saves!request,
                          Saves!count, Saves!history, Workers, Owners, Saves!Locked,
                          Saves!SaveAssumption
<1>4. ASSUME NEW t \in Thread, NEW a \in SaveAcc, Saves!DeleteSave(t, a) PROVE Owners'
  BY <1>0, <1>a, <1>4 DEF Saves!DeleteSave, Saves!Begin, Saves!Go, Saves!End, Saves!request,
                          Saves!count, Saves!history, Saves!Free, Workers, Owners, Saves!Locked,
                          Saves!SaveAssumption
<1>5. ASSUME NEW t \in Thread, NEW a \in SaveAcc, Saves!DeleteAccount(t, a) PROVE Owners'
  BY <1>0, <1>a, <1>5 DEF Saves!DeleteAccount, Saves!Begin, Saves!Go, Saves!End, Saves!request,
                          Saves!count, Saves!history, Workers, Owners, Saves!Locked,
                          Saves!SaveAssumption
<1>6. ASSUME NEW t \in Thread, NEW a \in SaveAcc, Saves!BlForce(t, a) PROVE Owners'
  BY <1>0, <1>a, <1>6 DEF Saves!BlForce, Saves!Begin, Saves!Go, Saves!End, Saves!request,
                          Saves!count, Saves!history, Workers, Owners, Saves!Locked,
                          Saves!SaveAssumption
<1>7. ASSUME NEW t \in Thread, Saves!EnsureAccount(t) PROVE Owners'
  BY <1>0, <1>a, <1>7 DEF Saves!EnsureAccount, Saves!Begin, Saves!Go, Saves!End, Saves!request,
                          Saves!count, Saves!history, Workers, Owners, Saves!Locked,
                          Saves!SaveAssumption
<1>8. ASSUME NEW t \in Thread, Saves!Trunc(t) PROVE Owners'
  BY <1>0, <1>a, <1>8 DEF Saves!Trunc, Saves!Begin, Saves!Go, Saves!End, Saves!request,
                          Saves!count, Saves!history, Saves!Take, Saves!Free, Workers, Owners,
                          Saves!Locked, Saves!SaveAssumption
<1>9. ASSUME NEW t \in Thread, Saves!WriteSome(t) PROVE Owners'
  BY <1>0, <1>a, <1>9 DEF Saves!WriteSome, Saves!Begin, Saves!Go, Saves!End, Saves!request,
                          Saves!count, Saves!history, Workers, Owners, Saves!Locked,
                          Saves!SaveAssumption
<1>10. ASSUME NEW t \in Thread, Saves!Write(t) PROVE Owners'
  BY <1>0, <1>a, <1>10 DEF Saves!Write, Saves!Begin, Saves!Go, Saves!End, Saves!request,
                           Saves!count, Saves!history, Workers, Owners, Saves!Locked,
                           Saves!SaveAssumption
<1>11. ASSUME NEW t \in Thread, Saves!Rename(t) PROVE Owners'
  BY <1>0, <1>a, <1>11 DEF Saves!Rename, Saves!Begin, Saves!Go, Saves!End, Saves!request,
                           Saves!count, Saves!history, Saves!Release, Saves!Done, Saves!Others,
                           Saves!Renamed, Workers, Owners, Saves!Locked, Saves!SaveAssumption
<1>12. ASSUME NEW t \in Thread, Saves!Fail(t) PROVE Owners'
  BY <1>0, <1>a, <1>12 DEF Saves!Fail, Saves!Begin, Saves!Go, Saves!End, Saves!request,
                           Saves!count, Saves!history, Saves!Release, Saves!Done, Saves!Others,
                           Workers, Owners, Saves!Locked, Saves!SaveAssumption
<1>13. ASSUME NEW t \in Thread, Saves!LoadCloud(t) PROVE Owners'
  BY <1>0, <1>a, <1>13 DEF Saves!LoadCloud, Saves!Begin, Saves!Go, Saves!End, Saves!request,
                           Saves!count, Saves!history, Saves!Free, Saves!Escapes, Saves!Others,
                           Workers, Owners, Saves!Locked, Saves!SaveAssumption
<1>14. ASSUME NEW t \in Thread, Saves!NoSave(t) PROVE Owners'
  BY <1>0, <1>a, <1>14 DEF Saves!NoSave, Saves!Begin, Saves!Go, Saves!End, Saves!request,
                           Saves!count, Saves!history, Saves!Free, Workers, Owners, Saves!Locked,
                           Saves!SaveAssumption
<1>15. ASSUME NEW t \in Thread, Saves!MarkRead(t) PROVE Owners'
  BY <1>0, <1>a, <1>15 DEF Saves!MarkRead, Saves!Begin, Saves!Go, Saves!End, Saves!request,
                           Saves!count, Saves!history, Saves!Take, Saves!Free, Workers, Owners,
                           Saves!Locked, Saves!SaveAssumption
<1>16. ASSUME NEW t \in Thread, Saves!NoMeta(t) PROVE Owners'
  BY <1>0, <1>a, <1>16 DEF Saves!NoMeta, Saves!Begin, Saves!Go, Saves!End, Saves!request,
                           Saves!count, Saves!history, Saves!Free, Workers, Owners, Saves!Locked,
                           Saves!SaveAssumption
<1>17. ASSUME NEW t \in Thread, Saves!MarkOpen(t) PROVE Owners'
  BY <1>0, <1>a, <1>17 DEF Saves!MarkOpen, Saves!Begin, Saves!Go, Saves!End, Saves!request,
                           Saves!count, Saves!history, Workers, Owners, Saves!Locked,
                           Saves!SaveAssumption
<1>18. ASSUME NEW t \in Thread, Saves!MarkWrite(t) PROVE Owners'
  BY <1>0, <1>a, <1>18 DEF Saves!MarkWrite, Saves!Begin, Saves!Go, Saves!End, Saves!request,
                           Saves!count, Saves!history, Saves!Release, Saves!Done, Saves!Others,
                           Workers, Owners, Saves!Locked, Saves!SaveAssumption
<1>19. ASSUME NEW t \in Thread, Saves!Unlink(t) PROVE Owners'
  BY <1>0, <1>a, <1>19 DEF Saves!Unlink, Saves!Begin, Saves!Go, Saves!End, Saves!request,
                           Saves!count, Saves!history, Saves!Release, Saves!Done, Saves!Others,
                           Workers, Owners, Saves!Locked, Saves!SaveAssumption
<1>20. ASSUME NEW t \in Thread, Saves!Sweep(t) PROVE Owners'
  BY <1>0, <1>a, <1>20 DEF Saves!Sweep, Saves!Begin, Saves!Go, Saves!End, Saves!request,
                           Saves!count, Saves!history, Saves!Take, Saves!Free, Workers, Owners,
                           Saves!Locked, Saves!SaveAssumption
<1>21. ASSUME NEW t \in Thread, Saves!BlLoad(t) PROVE Owners'
  BY <1>0, <1>a, <1>21 DEF Saves!BlLoad, Saves!Begin, Saves!Go, Saves!End, Saves!request,
                           Saves!count, Saves!history, Saves!Free, Workers, Owners, Saves!Locked,
                           Saves!SaveAssumption
<1>22. ASSUME NEW t \in Thread, Saves!BlSkip(t) PROVE Owners'
  BY <1>0, <1>a, <1>22 DEF Saves!BlSkip, Saves!Begin, Saves!Go, Saves!End, Saves!request,
                           Saves!count, Saves!history, Saves!Free, Workers, Owners, Saves!Locked,
                           Saves!SaveAssumption
<1>23. ASSUME NEW t \in Thread, Saves!BlMeta(t) PROVE Owners'
  BY <1>0, <1>a, <1>23 DEF Saves!BlMeta, Saves!Begin, Saves!Go, Saves!End, Saves!request,
                           Saves!count, Saves!history, Saves!Free, Workers, Owners, Saves!Locked,
                           Saves!SaveAssumption
<1>24. CASE Saves!Tick
  BY <1>0, <1>a, <1>24 DEF Saves!Tick, Saves!Begin, Saves!Go, Saves!End, Saves!request,
                           Saves!count, Saves!history, Workers, Owners, Saves!Locked,
                           Saves!SaveAssumption
<1>25. CASE Saves!Crash
  BY <1>0, <1>a, <1>25 DEF Saves!Crash, Saves!Begin, Saves!Go, Saves!End, Saves!request,
                           Saves!count, Saves!history, Workers, Owners, Saves!Locked,
                           Saves!SaveAssumption
<1>26. CASE UNCHANGED Saves!vars
  BY <1>0, <1>26 DEF Saves!vars, Saves!Begin, Saves!Go, Saves!End, Saves!request, Saves!count,
                     Saves!history, Workers, Owners, Saves!Locked, Saves!SaveAssumption
<1> QED BY <1>1, <1>2, <1>3, <1>4, <1>5, <1>6, <1>7, <1>8, <1>9, <1>10, <1>11, <1>12, <1>13,
           <1>14, <1>15, <1>16, <1>17, <1>18, <1>19, <1>20, <1>21, <1>22, <1>23,
           <1>24, <1>25, <1>26 DEF Saves!Next, Saves!Serve

\* Every step keeps what is in hand at each step.
LEMMA HandsStep == SaveInv /\ [Saves!Next]_(Saves!vars) => Hands'
<1> SUFFICES ASSUME SaveInv, [Saves!Next]_(Saves!vars) PROVE Hands'
  OBVIOUS
<1>0. SaveFiles /\ Workers /\ InHand /\ Counts /\ Hands BY DEF SaveInv
<1>a. Saves!SaveAssumption BY SaveConstants
<1>1. ASSUME NEW t \in Thread, NEW a \in SaveAcc, Saves!UploadSave(t, a) PROVE Hands'
  <2>1. /\ val' = [val EXCEPT ![t] = [of |-> requests', whole |-> TRUE]]
        /\ kept' = [kept EXCEPT ![t] = [of |-> requests', down |-> Saves!MarkOf(a), body |-> FALSE]]
        /\ pc' = [pc EXCEPT ![t] = "ensure"]
    BY <1>1 DEF Saves!UploadSave, Saves!Begin
  <2>2. requests' \in Number
    BY <1>0, <1>a, <1>1 DEF Saves!UploadSave, Saves!Begin, Counts, Number, Saves!SaveAssumption
  <2>3. /\ val'[t] = [of |-> requests', whole |-> TRUE] /\ kept'[t].of = requests' /\ ~kept'[t].body
        /\ pc'[t] = "ensure"
    BY <1>0, <2>1 DEF Workers, InHand
  <2>4. val'[t] \in Full BY <2>2, <2>3 DEF Full
  <2>5. \A u \in Thread \ {t} : val'[u] = val[u] /\ kept'[u] = kept[u] /\ pc'[u] = pc[u]
    BY <1>0, <2>1 DEF Workers, InHand
  <2> QED BY <1>0, <2>2, <2>3, <2>4, <2>5 DEF Hands
<1>2. ASSUME NEW t \in Thread, NEW a \in SaveAcc, Saves!DownloadSave(t, a) PROVE Hands'
  BY <1>0, <1>a, <1>2 DEF Saves!DownloadSave, Saves!Begin, Saves!Go, Saves!End, Saves!request,
                          Saves!count, Saves!history, Saves!Free, Counts, Hands, Saves!MarkOf,
                          Saves!Load, Saves!Read, SaveFiles, Workers, InHand, Number, Full, Clock,
                          SaveFile, MetaFile, MetaInHand, Saves!Nothing, Saves!Empty,
                          Saves!Missing, Saves!Cut
<1>3. ASSUME NEW t \in Thread, NEW a \in SaveAcc, Saves!ResetMark(t, a) PROVE Hands'
  BY <1>0, <1>a, <1>3 DEF Saves!ResetMark, Saves!Begin, Saves!Go, Saves!End, Saves!request,
                          Saves!count, Saves!history, Counts, Hands, Saves!MarkOf, Saves!Load,
                          Saves!Read, SaveFiles, Workers, InHand, Number, Full, Clock, SaveFile,
                          MetaFile, MetaInHand, Saves!Nothing, Saves!Empty, Saves!Missing, Saves!Cut
<1>4. ASSUME NEW t \in Thread, NEW a \in SaveAcc, Saves!DeleteSave(t, a) PROVE Hands'
  BY <1>0, <1>a, <1>4 DEF Saves!DeleteSave, Saves!Begin, Saves!Go, Saves!End, Saves!request,
                          Saves!count, Saves!history, Saves!Free, Counts, Hands, Saves!MarkOf,
                          Saves!Load, Saves!Read, SaveFiles, Workers, InHand, Number, Full, Clock,
                          SaveFile, MetaFile, MetaInHand, Saves!Nothing, Saves!Empty,
                          Saves!Missing, Saves!Cut
<1>5. ASSUME NEW t \in Thread, NEW a \in SaveAcc, Saves!DeleteAccount(t, a) PROVE Hands'
  BY <1>0, <1>a, <1>5 DEF Saves!DeleteAccount, Saves!Begin, Saves!Go, Saves!End, Saves!request,
                          Saves!count, Saves!history, Counts, Hands, Saves!MarkOf, Saves!Load,
                          Saves!Read, SaveFiles, Workers, InHand, Number, Full, Clock, SaveFile,
                          MetaFile, MetaInHand, Saves!Nothing, Saves!Empty, Saves!Missing, Saves!Cut
<1>6. ASSUME NEW t \in Thread, NEW a \in SaveAcc, Saves!BlForce(t, a) PROVE Hands'
  BY <1>0, <1>a, <1>6 DEF Saves!BlForce, Saves!Begin, Saves!Go, Saves!End, Saves!request,
                          Saves!count, Saves!history, Counts, Hands, Saves!MarkOf, Saves!Load,
                          Saves!Read, SaveFiles, Workers, InHand, Number, Full, Clock, SaveFile,
                          MetaFile, MetaInHand, Saves!Nothing, Saves!Empty, Saves!Missing, Saves!Cut
<1>7. ASSUME NEW t \in Thread, Saves!EnsureAccount(t) PROVE Hands'
  BY <1>0, <1>a, <1>7 DEF Saves!EnsureAccount, Saves!Begin, Saves!Go, Saves!End, Saves!request,
                          Saves!count, Saves!history, Counts, Hands, Saves!MarkOf, Saves!Load,
                          Saves!Read, SaveFiles, Workers, InHand, Number, Full, Clock, SaveFile,
                          MetaFile, MetaInHand, Saves!Nothing, Saves!Empty, Saves!Missing, Saves!Cut
<1>8. ASSUME NEW t \in Thread, Saves!Trunc(t) PROVE Hands'
  BY <1>0, <1>a, <1>8 DEF Saves!Trunc, Saves!Begin, Saves!Go, Saves!End, Saves!request,
                          Saves!count, Saves!history, Saves!Take, Saves!Free, Counts, Hands,
                          Saves!MarkOf, Saves!Load, Saves!Read, SaveFiles, Workers, InHand,
                          Number, Full, Clock, SaveFile, MetaFile, MetaInHand, Saves!Nothing,
                          Saves!Empty, Saves!Missing, Saves!Cut
<1>9. ASSUME NEW t \in Thread, Saves!WriteSome(t) PROVE Hands'
  BY <1>0, <1>a, <1>9 DEF Saves!WriteSome, Saves!Begin, Saves!Go, Saves!End, Saves!request,
                          Saves!count, Saves!history, Counts, Hands, Saves!MarkOf, Saves!Load,
                          Saves!Read, SaveFiles, Workers, InHand, Number, Full, Clock, SaveFile,
                          MetaFile, MetaInHand, Saves!Nothing, Saves!Empty, Saves!Missing, Saves!Cut
<1>10. ASSUME NEW t \in Thread, Saves!Write(t) PROVE Hands'
  BY <1>0, <1>a, <1>10 DEF Saves!Write, Saves!Begin, Saves!Go, Saves!End, Saves!request,
                           Saves!count, Saves!history, Counts, Hands, Saves!MarkOf, Saves!Load,
                           Saves!Read, SaveFiles, Workers, InHand, Number, Full, Clock, SaveFile,
                           MetaFile, MetaInHand, Saves!Nothing, Saves!Empty, Saves!Missing,
                           Saves!Cut
<1>11. ASSUME NEW t \in Thread, Saves!Rename(t) PROVE Hands'
  BY <1>0, <1>a, <1>11 DEF Saves!Rename, Saves!Begin, Saves!Go, Saves!End, Saves!request,
                           Saves!count, Saves!history, Saves!Release, Saves!Done, Saves!Others,
                           Saves!Renamed, Counts, Hands, Saves!MarkOf, Saves!Load, Saves!Read,
                           SaveFiles, Workers, InHand, Number, Full, Clock, SaveFile, MetaFile,
                           MetaInHand, Saves!Nothing, Saves!Empty, Saves!Missing, Saves!Cut
<1>12. ASSUME NEW t \in Thread, Saves!Fail(t) PROVE Hands'
  BY <1>0, <1>a, <1>12 DEF Saves!Fail, Saves!Begin, Saves!Go, Saves!End, Saves!request,
                           Saves!count, Saves!history, Saves!Release, Saves!Done, Saves!Others,
                           Counts, Hands, Saves!MarkOf, Saves!Load, Saves!Read, SaveFiles,
                           Workers, InHand, Number, Full, Clock, SaveFile, MetaFile, MetaInHand,
                           Saves!Nothing, Saves!Empty, Saves!Missing, Saves!Cut
<1>13. ASSUME NEW t \in Thread, Saves!LoadCloud(t) PROVE Hands'
  BY <1>0, <1>a, <1>13 DEF Saves!LoadCloud, Saves!Begin, Saves!Go, Saves!End, Saves!request,
                           Saves!count, Saves!history, Saves!Free, Saves!Escapes, Saves!Others,
                           Counts, Hands, Saves!MarkOf, Saves!Load, Saves!Read, SaveFiles,
                           Workers, InHand, Number, Full, Clock, SaveFile, MetaFile, MetaInHand,
                           Saves!Nothing, Saves!Empty, Saves!Missing, Saves!Cut
<1>14. ASSUME NEW t \in Thread, Saves!NoSave(t) PROVE Hands'
  BY <1>0, <1>a, <1>14 DEF Saves!NoSave, Saves!Begin, Saves!Go, Saves!End, Saves!request,
                           Saves!count, Saves!history, Saves!Free, Counts, Hands, Saves!MarkOf,
                           Saves!Load, Saves!Read, SaveFiles, Workers, InHand, Number, Full,
                           Clock, SaveFile, MetaFile, MetaInHand, Saves!Nothing, Saves!Empty,
                           Saves!Missing, Saves!Cut
<1>15. ASSUME NEW t \in Thread, Saves!MarkRead(t) PROVE Hands'
  BY <1>0, <1>a, <1>15 DEF Saves!MarkRead, Saves!Begin, Saves!Go, Saves!End, Saves!request,
                           Saves!count, Saves!history, Saves!Take, Saves!Free, Counts, Hands,
                           Saves!MarkOf, Saves!Load, Saves!Read, SaveFiles, Workers, InHand,
                           Number, Full, Clock, SaveFile, MetaFile, MetaInHand, Saves!Nothing,
                           Saves!Empty, Saves!Missing, Saves!Cut
<1>16. ASSUME NEW t \in Thread, Saves!NoMeta(t) PROVE Hands'
  BY <1>0, <1>a, <1>16 DEF Saves!NoMeta, Saves!Begin, Saves!Go, Saves!End, Saves!request,
                           Saves!count, Saves!history, Saves!Free, Counts, Hands, Saves!MarkOf,
                           Saves!Load, Saves!Read, SaveFiles, Workers, InHand, Number, Full,
                           Clock, SaveFile, MetaFile, MetaInHand, Saves!Nothing, Saves!Empty,
                           Saves!Missing, Saves!Cut
<1>17. ASSUME NEW t \in Thread, Saves!MarkOpen(t) PROVE Hands'
  BY <1>0, <1>a, <1>17 DEF Saves!MarkOpen, Saves!Begin, Saves!Go, Saves!End, Saves!request,
                           Saves!count, Saves!history, Counts, Hands, Saves!MarkOf, Saves!Load,
                           Saves!Read, SaveFiles, Workers, InHand, Number, Full, Clock, SaveFile,
                           MetaFile, MetaInHand, Saves!Nothing, Saves!Empty, Saves!Missing,
                           Saves!Cut
<1>18. ASSUME NEW t \in Thread, Saves!MarkWrite(t) PROVE Hands'
  BY <1>0, <1>a, <1>18 DEF Saves!MarkWrite, Saves!Begin, Saves!Go, Saves!End, Saves!request,
                           Saves!count, Saves!history, Saves!Release, Saves!Done, Saves!Others,
                           Counts, Hands, Saves!MarkOf, Saves!Load, Saves!Read, SaveFiles,
                           Workers, InHand, Number, Full, Clock, SaveFile, MetaFile, MetaInHand,
                           Saves!Nothing, Saves!Empty, Saves!Missing, Saves!Cut
<1>19. ASSUME NEW t \in Thread, Saves!Unlink(t) PROVE Hands'
  BY <1>0, <1>a, <1>19 DEF Saves!Unlink, Saves!Begin, Saves!Go, Saves!End, Saves!request,
                           Saves!count, Saves!history, Saves!Release, Saves!Done, Saves!Others,
                           Counts, Hands, Saves!MarkOf, Saves!Load, Saves!Read, SaveFiles,
                           Workers, InHand, Number, Full, Clock, SaveFile, MetaFile, MetaInHand,
                           Saves!Nothing, Saves!Empty, Saves!Missing, Saves!Cut
<1>20. ASSUME NEW t \in Thread, Saves!Sweep(t) PROVE Hands'
  BY <1>0, <1>a, <1>20 DEF Saves!Sweep, Saves!Begin, Saves!Go, Saves!End, Saves!request,
                           Saves!count, Saves!history, Saves!Take, Saves!Free, Counts, Hands,
                           Saves!MarkOf, Saves!Load, Saves!Read, SaveFiles, Workers, InHand,
                           Number, Full, Clock, SaveFile, MetaFile, MetaInHand, Saves!Nothing,
                           Saves!Empty, Saves!Missing, Saves!Cut
<1>21. ASSUME NEW t \in Thread, Saves!BlLoad(t) PROVE Hands'
  BY <1>0, <1>a, <1>21 DEF Saves!BlLoad, Saves!Begin, Saves!Go, Saves!End, Saves!request,
                           Saves!count, Saves!history, Saves!Free, Counts, Hands, Saves!MarkOf,
                           Saves!Load, Saves!Read, SaveFiles, Workers, InHand, Number, Full,
                           Clock, SaveFile, MetaFile, MetaInHand, Saves!Nothing, Saves!Empty,
                           Saves!Missing, Saves!Cut
<1>22. ASSUME NEW t \in Thread, Saves!BlSkip(t) PROVE Hands'
  <2>1. /\ pc' = [pc EXCEPT ![t] = "idle"] /\ kept' = [kept EXCEPT ![t] = Saves!Missing]
        /\ val' = [val EXCEPT ![t] = Saves!Nothing]
    BY <1>22 DEF Saves!BlSkip, Saves!End
  <2> QED BY <1>0, <2>1 DEF Hands, Workers, InHand
<1>23. ASSUME NEW t \in Thread, Saves!BlMeta(t) PROVE Hands'
  BY <1>0, <1>a, <1>23 DEF Saves!BlMeta, Saves!Begin, Saves!Go, Saves!End, Saves!request,
                           Saves!count, Saves!history, Saves!Free, Counts, Hands, Saves!MarkOf,
                           Saves!Load, Saves!Read, SaveFiles, Workers, InHand, Number, Full,
                           Clock, SaveFile, MetaFile, MetaInHand, Saves!Nothing, Saves!Empty,
                           Saves!Missing, Saves!Cut
<1>24. CASE Saves!Tick
  BY <1>0, <1>a, <1>24 DEF Saves!Tick, Saves!Begin, Saves!Go, Saves!End, Saves!request,
                           Saves!count, Saves!history, Counts, Hands, Saves!MarkOf, Saves!Load,
                           Saves!Read, SaveFiles, Workers, InHand, Number, Full, Clock, SaveFile,
                           MetaFile, MetaInHand, Saves!Nothing, Saves!Empty, Saves!Missing,
                           Saves!Cut
<1>25. CASE Saves!Crash
  BY <1>0, <1>a, <1>25 DEF Saves!Crash, Saves!Begin, Saves!Go, Saves!End, Saves!request,
                           Saves!count, Saves!history, Counts, Hands, Saves!MarkOf, Saves!Load,
                           Saves!Read, SaveFiles, Workers, InHand, Number, Full, Clock, SaveFile,
                           MetaFile, MetaInHand, Saves!Nothing, Saves!Empty, Saves!Missing,
                           Saves!Cut
<1>26. CASE UNCHANGED Saves!vars
  BY <1>0, <1>26 DEF Saves!vars, Saves!Begin, Saves!Go, Saves!End, Saves!request, Saves!count,
                     Saves!history, Counts, Hands, Saves!MarkOf, Saves!Load, Saves!Read,
                     SaveFiles, Workers, InHand, Number, Full, Clock, SaveFile, MetaFile,
                     MetaInHand, Saves!Nothing, Saves!Empty, Saves!Missing, Saves!Cut
<1> QED BY <1>1, <1>2, <1>3, <1>4, <1>5, <1>6, <1>7, <1>8, <1>9, <1>10, <1>11, <1>12, <1>13,
           <1>14, <1>15, <1>16, <1>17, <1>18, <1>19, <1>20, <1>21, <1>22, <1>23,
           <1>24, <1>25, <1>26 DEF Saves!Next, Saves!Serve

\* Every step keeps what was done to the files under the lock.
LEMMA UnderLockStep == SaveInv /\ [Saves!Next]_(Saves!vars) => UnderLock'
<1> SUFFICES ASSUME SaveInv, [Saves!Next]_(Saves!vars) PROVE UnderLock'
  OBVIOUS
<1>0. SaveFiles /\ Workers /\ InHand /\ Owners /\ UnderLock BY DEF SaveInv
<1>a. Saves!SaveAssumption BY SaveConstants
<1>1. ASSUME NEW t \in Thread, NEW a \in SaveAcc, Saves!UploadSave(t, a) PROVE UnderLock'
  BY <1>0, <1>a, <1>1 DEF Saves!UploadSave, Saves!Begin, Saves!Go, Saves!End, Saves!request,
                          Saves!count, Saves!history, Saves!Free, SaveFiles, Workers, Owners,
                          UnderLock, Saves!Locked, Saves!SaveAssumption
<1>2. ASSUME NEW t \in Thread, NEW a \in SaveAcc, Saves!DownloadSave(t, a) PROVE UnderLock'
  BY <1>0, <1>a, <1>2 DEF Saves!DownloadSave, Saves!Begin, Saves!Go, Saves!End, Saves!request,
                          Saves!count, Saves!history, Saves!Free, SaveFiles, Workers, Owners,
                          UnderLock, Saves!Locked, Saves!SaveAssumption
<1>3. ASSUME NEW t \in Thread, NEW a \in SaveAcc, Saves!ResetMark(t, a) PROVE UnderLock'
  BY <1>0, <1>a, <1>3 DEF Saves!ResetMark, Saves!Begin, Saves!Go, Saves!End, Saves!request,
                          Saves!count, Saves!history, SaveFiles, Workers, Owners, UnderLock,
                          Saves!Locked, Saves!SaveAssumption
<1>4. ASSUME NEW t \in Thread, NEW a \in SaveAcc, Saves!DeleteSave(t, a) PROVE UnderLock'
  BY <1>0, <1>a, <1>4 DEF Saves!DeleteSave, Saves!Begin, Saves!Go, Saves!End, Saves!request,
                          Saves!count, Saves!history, Saves!Free, SaveFiles, Workers, Owners,
                          UnderLock, Saves!Locked, Saves!SaveAssumption
<1>5. ASSUME NEW t \in Thread, NEW a \in SaveAcc, Saves!DeleteAccount(t, a) PROVE UnderLock'
  BY <1>0, <1>a, <1>5 DEF Saves!DeleteAccount, Saves!Begin, Saves!Go, Saves!End, Saves!request,
                          Saves!count, Saves!history, SaveFiles, Workers, Owners, UnderLock,
                          Saves!Locked, Saves!SaveAssumption
<1>6. ASSUME NEW t \in Thread, NEW a \in SaveAcc, Saves!BlForce(t, a) PROVE UnderLock'
  BY <1>0, <1>a, <1>6 DEF Saves!BlForce, Saves!Begin, Saves!Go, Saves!End, Saves!request,
                          Saves!count, Saves!history, SaveFiles, Workers, Owners, UnderLock,
                          Saves!Locked, Saves!SaveAssumption
<1>7. ASSUME NEW t \in Thread, Saves!EnsureAccount(t) PROVE UnderLock'
  BY <1>0, <1>a, <1>7 DEF Saves!EnsureAccount, Saves!Begin, Saves!Go, Saves!End, Saves!request,
                          Saves!count, Saves!history, SaveFiles, Workers, Owners, UnderLock,
                          Saves!Locked, Saves!SaveAssumption
<1>8. ASSUME NEW t \in Thread, Saves!Trunc(t) PROVE UnderLock'
  BY <1>0, <1>a, <1>8 DEF Saves!Trunc, Saves!Begin, Saves!Go, Saves!End, Saves!request,
                          Saves!count, Saves!history, Saves!Take, Saves!Free, SaveFiles, Workers,
                          Owners, UnderLock, Saves!Locked, Saves!SaveAssumption
<1>9. ASSUME NEW t \in Thread, Saves!WriteSome(t) PROVE UnderLock'
  BY <1>0, <1>a, <1>9 DEF Saves!WriteSome, Saves!Begin, Saves!Go, Saves!End, Saves!request,
                          Saves!count, Saves!history, SaveFiles, Workers, Owners, UnderLock,
                          Saves!Locked, Saves!SaveAssumption
<1>10. ASSUME NEW t \in Thread, Saves!Write(t) PROVE UnderLock'
  BY <1>0, <1>a, <1>10 DEF Saves!Write, Saves!Begin, Saves!Go, Saves!End, Saves!request,
                           Saves!count, Saves!history, SaveFiles, Workers, Owners, UnderLock,
                           Saves!Locked, Saves!SaveAssumption
<1>11. ASSUME NEW t \in Thread, Saves!Rename(t) PROVE UnderLock'
  BY <1>0, <1>a, <1>11 DEF Saves!Rename, Saves!Begin, Saves!Go, Saves!End, Saves!request,
                           Saves!count, Saves!history, Saves!Release, Saves!Done, Saves!Others,
                           Saves!Renamed, SaveFiles, Workers, Owners, UnderLock, Saves!Locked,
                           Saves!SaveAssumption
<1>12. ASSUME NEW t \in Thread, Saves!Fail(t) PROVE UnderLock'
  BY <1>0, <1>a, <1>12 DEF Saves!Fail, Saves!Begin, Saves!Go, Saves!End, Saves!request,
                           Saves!count, Saves!history, Saves!Release, Saves!Done, Saves!Others,
                           SaveFiles, Workers, Owners, UnderLock, Saves!Locked, Saves!SaveAssumption
<1>13. ASSUME NEW t \in Thread, Saves!LoadCloud(t) PROVE UnderLock'
  BY <1>0, <1>a, <1>13 DEF Saves!LoadCloud, Saves!Begin, Saves!Go, Saves!End, Saves!request,
                           Saves!count, Saves!history, Saves!Free, Saves!Escapes, Saves!Others,
                           SaveFiles, Workers, Owners, UnderLock, Saves!Locked, Saves!SaveAssumption
<1>14. ASSUME NEW t \in Thread, Saves!NoSave(t) PROVE UnderLock'
  BY <1>0, <1>a, <1>14 DEF Saves!NoSave, Saves!Begin, Saves!Go, Saves!End, Saves!request,
                           Saves!count, Saves!history, Saves!Free, SaveFiles, Workers, Owners,
                           UnderLock, Saves!Locked, Saves!SaveAssumption
<1>15. ASSUME NEW t \in Thread, Saves!MarkRead(t) PROVE UnderLock'
  BY <1>0, <1>a, <1>15 DEF Saves!MarkRead, Saves!Begin, Saves!Go, Saves!End, Saves!request,
                           Saves!count, Saves!history, Saves!Take, Saves!Free, SaveFiles, Workers,
                           Owners, UnderLock, Saves!Locked, Saves!SaveAssumption
<1>16. ASSUME NEW t \in Thread, Saves!NoMeta(t) PROVE UnderLock'
  BY <1>0, <1>a, <1>16 DEF Saves!NoMeta, Saves!Begin, Saves!Go, Saves!End, Saves!request,
                           Saves!count, Saves!history, Saves!Free, SaveFiles, Workers, Owners,
                           UnderLock, Saves!Locked, Saves!SaveAssumption
<1>17. ASSUME NEW t \in Thread, Saves!MarkOpen(t) PROVE UnderLock'
  BY <1>0, <1>a, <1>17 DEF Saves!MarkOpen, Saves!Begin, Saves!Go, Saves!End, Saves!request,
                           Saves!count, Saves!history, SaveFiles, Workers, Owners, UnderLock,
                           Saves!Locked, Saves!SaveAssumption
<1>18. ASSUME NEW t \in Thread, Saves!MarkWrite(t) PROVE UnderLock'
  BY <1>0, <1>a, <1>18 DEF Saves!MarkWrite, Saves!Begin, Saves!Go, Saves!End, Saves!request,
                           Saves!count, Saves!history, Saves!Release, Saves!Done, Saves!Others,
                           SaveFiles, Workers, Owners, UnderLock, Saves!Locked, Saves!SaveAssumption
<1>19. ASSUME NEW t \in Thread, Saves!Unlink(t) PROVE UnderLock'
  BY <1>0, <1>a, <1>19 DEF Saves!Unlink, Saves!Begin, Saves!Go, Saves!End, Saves!request,
                           Saves!count, Saves!history, Saves!Release, Saves!Done, Saves!Others,
                           SaveFiles, Workers, Owners, UnderLock, Saves!Locked, Saves!SaveAssumption
<1>20. ASSUME NEW t \in Thread, Saves!Sweep(t) PROVE UnderLock'
  BY <1>0, <1>a, <1>20 DEF Saves!Sweep, Saves!Begin, Saves!Go, Saves!End, Saves!request,
                           Saves!count, Saves!history, Saves!Take, Saves!Free, SaveFiles, Workers,
                           Owners, UnderLock, Saves!Locked, Saves!SaveAssumption
<1>21. ASSUME NEW t \in Thread, Saves!BlLoad(t) PROVE UnderLock'
  BY <1>0, <1>a, <1>21 DEF Saves!BlLoad, Saves!Begin, Saves!Go, Saves!End, Saves!request,
                           Saves!count, Saves!history, Saves!Free, SaveFiles, Workers, Owners,
                           UnderLock, Saves!Locked, Saves!SaveAssumption
<1>22. ASSUME NEW t \in Thread, Saves!BlSkip(t) PROVE UnderLock'
  <2>1. /\ pc' = [pc EXCEPT ![t] = "idle"] /\ acc' = [acc EXCEPT ![t] = None]
        /\ val' = [val EXCEPT ![t] = Saves!Nothing] /\ UNCHANGED <<blob, meta>>
    BY <1>22 DEF Saves!BlSkip, Saves!End
  <2>2. /\ pc'[t] = "idle"
        /\ \A u \in Thread \ {t} : pc'[u] = pc[u] /\ acc'[u] = acc[u] /\ val'[u] = val[u]
    BY <1>0, <2>1 DEF Workers, InHand
  <2> QED BY <1>0, <2>1, <2>2 DEF UnderLock
<1>23. ASSUME NEW t \in Thread, Saves!BlMeta(t) PROVE UnderLock'
  BY <1>0, <1>a, <1>23 DEF Saves!BlMeta, Saves!Begin, Saves!Go, Saves!End, Saves!request,
                           Saves!count, Saves!history, Saves!Free, SaveFiles, Workers, Owners,
                           UnderLock, Saves!Locked, Saves!SaveAssumption
<1>24. CASE Saves!Tick
  BY <1>0, <1>a, <1>24 DEF Saves!Tick, Saves!Begin, Saves!Go, Saves!End, Saves!request,
                           Saves!count, Saves!history, SaveFiles, Workers, Owners, UnderLock,
                           Saves!Locked, Saves!SaveAssumption
<1>25. CASE Saves!Crash
  BY <1>0, <1>a, <1>25 DEF Saves!Crash, Saves!Begin, Saves!Go, Saves!End, Saves!request,
                           Saves!count, Saves!history, SaveFiles, Workers, Owners, UnderLock,
                           Saves!Locked, Saves!SaveAssumption
<1>26. CASE UNCHANGED Saves!vars
  BY <1>0, <1>26 DEF Saves!vars, Saves!Begin, Saves!Go, Saves!End, Saves!request, Saves!count,
                     Saves!history, SaveFiles, Workers, Owners, UnderLock, Saves!Locked,
                     Saves!SaveAssumption
<1> QED BY <1>1, <1>2, <1>3, <1>4, <1>5, <1>6, <1>7, <1>8, <1>9, <1>10, <1>11, <1>12, <1>13,
           <1>14, <1>15, <1>16, <1>17, <1>18, <1>19, <1>20, <1>21, <1>22, <1>23,
           <1>24, <1>25, <1>26 DEF Saves!Next, Saves!Serve

\* Every step keeps the accounts of who writes.
LEMMA AccountsStep == SaveInv /\ [Saves!Next]_(Saves!vars) => Accounts'
<1> SUFFICES ASSUME SaveInv, [Saves!Next]_(Saves!vars) PROVE Accounts'
  OBVIOUS
<1>0. SaveFiles /\ Workers /\ Owners /\ Past /\ Accounts /\ Saves!NoOrphans BY DEF SaveInv
<1>a. Saves!SaveAssumption BY SaveConstants
<1>1. ASSUME NEW t \in Thread, NEW a \in SaveAcc, Saves!UploadSave(t, a) PROVE Accounts'
  BY <1>0, <1>a, <1>1 DEF Saves!UploadSave, Saves!Begin, Saves!Go, Saves!End, Saves!request,
                          Saves!count, Saves!history, Saves!Free, SaveFiles, Workers, Owners,
                          Past, Accounts, Saves!NoOrphans, Saves!Locked, Saves!Read,
                          Saves!SaveAssumption
<1>2. ASSUME NEW t \in Thread, NEW a \in SaveAcc, Saves!DownloadSave(t, a) PROVE Accounts'
  BY <1>0, <1>a, <1>2 DEF Saves!DownloadSave, Saves!Begin, Saves!Go, Saves!End, Saves!request,
                          Saves!count, Saves!history, Saves!Free, SaveFiles, Workers, Owners,
                          Past, Accounts, Saves!NoOrphans, Saves!Locked, Saves!Read,
                          Saves!SaveAssumption
<1>3. ASSUME NEW t \in Thread, NEW a \in SaveAcc, Saves!ResetMark(t, a) PROVE Accounts'
  BY <1>0, <1>a, <1>3 DEF Saves!ResetMark, Saves!Begin, Saves!Go, Saves!End, Saves!request,
                          Saves!count, Saves!history, SaveFiles, Workers, Owners, Past, Accounts,
                          Saves!NoOrphans, Saves!Locked, Saves!Read, Saves!SaveAssumption
<1>4. ASSUME NEW t \in Thread, NEW a \in SaveAcc, Saves!DeleteSave(t, a) PROVE Accounts'
  BY <1>0, <1>a, <1>4 DEF Saves!DeleteSave, Saves!Begin, Saves!Go, Saves!End, Saves!request,
                          Saves!count, Saves!history, Saves!Free, SaveFiles, Workers, Owners,
                          Past, Accounts, Saves!NoOrphans, Saves!Locked, Saves!Read,
                          Saves!SaveAssumption
<1>5. ASSUME NEW t \in Thread, NEW a \in SaveAcc, Saves!DeleteAccount(t, a) PROVE Accounts'
  BY <1>0, <1>a, <1>5 DEF Saves!DeleteAccount, Saves!Begin, Saves!Go, Saves!End, Saves!request,
                          Saves!count, Saves!history, SaveFiles, Workers, Owners, Past, Accounts,
                          Saves!NoOrphans, Saves!Locked, Saves!Read, Saves!SaveAssumption
<1>6. ASSUME NEW t \in Thread, NEW a \in SaveAcc, Saves!BlForce(t, a) PROVE Accounts'
  BY <1>0, <1>a, <1>6 DEF Saves!BlForce, Saves!Begin, Saves!Go, Saves!End, Saves!request,
                          Saves!count, Saves!history, SaveFiles, Workers, Owners, Past, Accounts,
                          Saves!NoOrphans, Saves!Locked, Saves!Read, Saves!SaveAssumption
<1>7. ASSUME NEW t \in Thread, Saves!EnsureAccount(t) PROVE Accounts'
  BY <1>0, <1>a, <1>7 DEF Saves!EnsureAccount, Saves!Begin, Saves!Go, Saves!End, Saves!request,
                          Saves!count, Saves!history, SaveFiles, Workers, Owners, Past, Accounts,
                          Saves!NoOrphans, Saves!Locked, Saves!Read, Saves!SaveAssumption
<1>8. ASSUME NEW t \in Thread, Saves!Trunc(t) PROVE Accounts'
  BY <1>0, <1>a, <1>8 DEF Saves!Trunc, Saves!Begin, Saves!Go, Saves!End, Saves!request,
                          Saves!count, Saves!history, Saves!Take, Saves!Free, SaveFiles, Workers,
                          Owners, Past, Accounts, Saves!NoOrphans, Saves!Locked,
                          Saves!Read, Saves!SaveAssumption
<1>9. ASSUME NEW t \in Thread, Saves!WriteSome(t) PROVE Accounts'
  BY <1>0, <1>a, <1>9 DEF Saves!WriteSome, Saves!Begin, Saves!Go, Saves!End, Saves!request,
                          Saves!count, Saves!history, SaveFiles, Workers, Owners, Past, Accounts,
                          Saves!NoOrphans, Saves!Locked, Saves!Read, Saves!SaveAssumption
<1>10. ASSUME NEW t \in Thread, Saves!Write(t) PROVE Accounts'
  BY <1>0, <1>a, <1>10 DEF Saves!Write, Saves!Begin, Saves!Go, Saves!End, Saves!request,
                           Saves!count, Saves!history, SaveFiles, Workers, Owners, Past, Accounts,
                           Saves!NoOrphans, Saves!Locked, Saves!Read, Saves!SaveAssumption
<1>11. ASSUME NEW t \in Thread, Saves!Rename(t) PROVE Accounts'
  BY <1>0, <1>a, <1>11 DEF Saves!Rename, Saves!Begin, Saves!Go, Saves!End, Saves!request,
                           Saves!count, Saves!history, Saves!Release, Saves!Done, Saves!Others,
                           Saves!Renamed, SaveFiles, Workers, Owners, Past, Accounts, Saves!NoOrphans, Saves!Locked, Saves!Read, Saves!SaveAssumption
<1>12. ASSUME NEW t \in Thread, Saves!Fail(t) PROVE Accounts'
  BY <1>0, <1>a, <1>12 DEF Saves!Fail, Saves!Begin, Saves!Go, Saves!End, Saves!request,
                           Saves!count, Saves!history, Saves!Release, Saves!Done, Saves!Others,
                           SaveFiles, Workers, Owners, Past, Accounts, Saves!NoOrphans,
                           Saves!Locked, Saves!Read, Saves!SaveAssumption
<1>13. ASSUME NEW t \in Thread, Saves!LoadCloud(t) PROVE Accounts'
  BY <1>0, <1>a, <1>13 DEF Saves!LoadCloud, Saves!Begin, Saves!Go, Saves!End, Saves!request,
                           Saves!count, Saves!history, Saves!Free, Saves!Escapes, Saves!Others,
                           SaveFiles, Workers, Owners, Past, Accounts, Saves!NoOrphans,
                           Saves!Locked, Saves!Read, Saves!SaveAssumption
<1>14. ASSUME NEW t \in Thread, Saves!NoSave(t) PROVE Accounts'
  BY <1>0, <1>a, <1>14 DEF Saves!NoSave, Saves!Begin, Saves!Go, Saves!End, Saves!request,
                           Saves!count, Saves!history, Saves!Free, SaveFiles, Workers, Owners,
                           Past, Accounts, Saves!NoOrphans, Saves!Locked, Saves!Read,
                           Saves!SaveAssumption
<1>15. ASSUME NEW t \in Thread, Saves!MarkRead(t) PROVE Accounts'
  BY <1>0, <1>a, <1>15 DEF Saves!MarkRead, Saves!Begin, Saves!Go, Saves!End, Saves!request,
                           Saves!count, Saves!history, Saves!Take, Saves!Free, SaveFiles, Workers,
                           Owners, Past, Accounts, Saves!NoOrphans, Saves!Locked,
                           Saves!Read, Saves!SaveAssumption
<1>16. ASSUME NEW t \in Thread, Saves!NoMeta(t) PROVE Accounts'
  BY <1>0, <1>a, <1>16 DEF Saves!NoMeta, Saves!Begin, Saves!Go, Saves!End, Saves!request,
                           Saves!count, Saves!history, Saves!Free, SaveFiles, Workers, Owners,
                           Past, Accounts, Saves!NoOrphans, Saves!Locked, Saves!Read,
                           Saves!SaveAssumption
<1>17. ASSUME NEW t \in Thread, Saves!MarkOpen(t) PROVE Accounts'
  BY <1>0, <1>a, <1>17 DEF Saves!MarkOpen, Saves!Begin, Saves!Go, Saves!End, Saves!request,
                           Saves!count, Saves!history, SaveFiles, Workers, Owners, Past, Accounts,
                           Saves!NoOrphans, Saves!Locked, Saves!Read, Saves!SaveAssumption
<1>18. ASSUME NEW t \in Thread, Saves!MarkWrite(t) PROVE Accounts'
  BY <1>0, <1>a, <1>18 DEF Saves!MarkWrite, Saves!Begin, Saves!Go, Saves!End, Saves!request,
                           Saves!count, Saves!history, Saves!Release, Saves!Done, Saves!Others,
                           SaveFiles, Workers, Owners, Past, Accounts, Saves!NoOrphans,
                           Saves!Locked, Saves!Read, Saves!SaveAssumption
<1>19. ASSUME NEW t \in Thread, Saves!Unlink(t) PROVE Accounts'
  BY <1>0, <1>a, <1>19 DEF Saves!Unlink, Saves!Begin, Saves!Go, Saves!End, Saves!request,
                           Saves!count, Saves!history, Saves!Release, Saves!Done, Saves!Others,
                           SaveFiles, Workers, Owners, Past, Accounts, Saves!NoOrphans,
                           Saves!Locked, Saves!Read, Saves!SaveAssumption
<1>20. ASSUME NEW t \in Thread, Saves!Sweep(t) PROVE Accounts'
  BY <1>0, <1>a, <1>20 DEF Saves!Sweep, Saves!Begin, Saves!Go, Saves!End, Saves!request,
                           Saves!count, Saves!history, Saves!Take, Saves!Free, SaveFiles, Workers,
                           Owners, Past, Accounts, Saves!NoOrphans, Saves!Locked,
                           Saves!Read, Saves!SaveAssumption
<1>21. ASSUME NEW t \in Thread, Saves!BlLoad(t) PROVE Accounts'
  BY <1>0, <1>a, <1>21 DEF Saves!BlLoad, Saves!Begin, Saves!Go, Saves!End, Saves!request,
                           Saves!count, Saves!history, Saves!Free, SaveFiles, Workers, Owners,
                           Past, Accounts, Saves!NoOrphans, Saves!Locked, Saves!Read,
                           Saves!SaveAssumption
<1>22. ASSUME NEW t \in Thread, Saves!BlSkip(t) PROVE Accounts'
  BY <1>0, <1>a, <1>22 DEF Saves!BlSkip, Saves!Begin, Saves!Go, Saves!End, Saves!request,
                           Saves!count, Saves!history, Saves!Free, SaveFiles, Workers, Owners,
                           Past, Accounts, Saves!NoOrphans, Saves!Locked, Saves!Read,
                           Saves!SaveAssumption
<1>23. ASSUME NEW t \in Thread, Saves!BlMeta(t) PROVE Accounts'
  BY <1>0, <1>a, <1>23 DEF Saves!BlMeta, Saves!Begin, Saves!Go, Saves!End, Saves!request,
                           Saves!count, Saves!history, Saves!Free, SaveFiles, Workers, Owners,
                           Past, Accounts, Saves!NoOrphans, Saves!Locked, Saves!Read,
                           Saves!SaveAssumption
<1>24. CASE Saves!Tick
  BY <1>0, <1>a, <1>24 DEF Saves!Tick, Saves!Begin, Saves!Go, Saves!End, Saves!request,
                           Saves!count, Saves!history, SaveFiles, Workers, Owners, Past, Accounts,
                           Saves!NoOrphans, Saves!Locked, Saves!Read, Saves!SaveAssumption
<1>25. CASE Saves!Crash
  BY <1>0, <1>a, <1>25 DEF Saves!Crash, Saves!Begin, Saves!Go, Saves!End, Saves!request,
                           Saves!count, Saves!history, SaveFiles, Workers, Owners, Past, Accounts,
                           Saves!NoOrphans, Saves!Locked, Saves!Read, Saves!SaveAssumption
<1>26. CASE UNCHANGED Saves!vars
  BY <1>0, <1>26 DEF Saves!vars, Saves!Begin, Saves!Go, Saves!End, Saves!request, Saves!count,
                     Saves!history, SaveFiles, Workers, Owners, Past, Accounts, Saves!NoOrphans, Saves!Locked, Saves!Read, Saves!SaveAssumption
<1> QED BY <1>1, <1>2, <1>3, <1>4, <1>5, <1>6, <1>7, <1>8, <1>9, <1>10, <1>11, <1>12, <1>13,
           <1>14, <1>15, <1>16, <1>17, <1>18, <1>19, <1>20, <1>21, <1>22, <1>23,
           <1>24, <1>25, <1>26 DEF Saves!Next, Saves!Serve

\* No step leaves a save without an account.
LEMMA OrphansStep == SaveInv /\ [Saves!Next]_(Saves!vars) => Saves!NoOrphans'
<1> SUFFICES ASSUME SaveInv, [Saves!Next]_(Saves!vars) PROVE Saves!NoOrphans'
  OBVIOUS
<1>0. SaveFiles /\ Workers /\ Owners /\ Past /\ UnderLock /\ Accounts /\ Saves!NoOrphans
  BY DEF SaveInv
<1>a. Saves!SaveAssumption BY SaveConstants
<1>1. ASSUME NEW t \in Thread, NEW a \in SaveAcc, Saves!UploadSave(t, a) PROVE Saves!NoOrphans'
  BY <1>0, <1>a, <1>1 DEF Saves!UploadSave, Saves!Begin, Saves!Go, Saves!End, Saves!request,
                          Saves!count, Saves!history, Saves!Free, SaveFiles, Workers, Owners,
                          Past, UnderLock, Accounts, Saves!NoOrphans, Saves!Locked,
                          Saves!SaveAssumption
<1>2. ASSUME NEW t \in Thread, NEW a \in SaveAcc, Saves!DownloadSave(t, a) PROVE Saves!NoOrphans'
  BY <1>0, <1>a, <1>2 DEF Saves!DownloadSave, Saves!Begin, Saves!Go, Saves!End, Saves!request,
                          Saves!count, Saves!history, Saves!Free, SaveFiles, Workers, Owners,
                          Past, UnderLock, Accounts, Saves!NoOrphans, Saves!Locked,
                          Saves!SaveAssumption
<1>3. ASSUME NEW t \in Thread, NEW a \in SaveAcc, Saves!ResetMark(t, a) PROVE Saves!NoOrphans'
  BY <1>0, <1>a, <1>3 DEF Saves!ResetMark, Saves!Begin, Saves!Go, Saves!End, Saves!request,
                          Saves!count, Saves!history, SaveFiles, Workers, Owners, Past, UnderLock,
                          Accounts, Saves!NoOrphans, Saves!Locked, Saves!SaveAssumption
<1>4. ASSUME NEW t \in Thread, NEW a \in SaveAcc, Saves!DeleteSave(t, a) PROVE Saves!NoOrphans'
  BY <1>0, <1>a, <1>4 DEF Saves!DeleteSave, Saves!Begin, Saves!Go, Saves!End, Saves!request,
                          Saves!count, Saves!history, Saves!Free, SaveFiles, Workers, Owners,
                          Past, UnderLock, Accounts, Saves!NoOrphans, Saves!Locked,
                          Saves!SaveAssumption
<1>5. ASSUME NEW t \in Thread, NEW a \in SaveAcc, Saves!DeleteAccount(t, a) PROVE Saves!NoOrphans'
  BY <1>0, <1>a, <1>5 DEF Saves!DeleteAccount, Saves!Begin, Saves!Go, Saves!End, Saves!request,
                          Saves!count, Saves!history, SaveFiles, Workers, Owners, Past, UnderLock,
                          Accounts, Saves!NoOrphans, Saves!Locked, Saves!SaveAssumption
<1>6. ASSUME NEW t \in Thread, NEW a \in SaveAcc, Saves!BlForce(t, a) PROVE Saves!NoOrphans'
  BY <1>0, <1>a, <1>6 DEF Saves!BlForce, Saves!Begin, Saves!Go, Saves!End, Saves!request,
                          Saves!count, Saves!history, SaveFiles, Workers, Owners, Past, UnderLock,
                          Accounts, Saves!NoOrphans, Saves!Locked, Saves!SaveAssumption
<1>7. ASSUME NEW t \in Thread, Saves!EnsureAccount(t) PROVE Saves!NoOrphans'
  BY <1>0, <1>a, <1>7 DEF Saves!EnsureAccount, Saves!Begin, Saves!Go, Saves!End, Saves!request,
                          Saves!count, Saves!history, SaveFiles, Workers, Owners, Past, UnderLock,
                          Accounts, Saves!NoOrphans, Saves!Locked, Saves!SaveAssumption
<1>8. ASSUME NEW t \in Thread, Saves!Trunc(t) PROVE Saves!NoOrphans'
  BY <1>0, <1>a, <1>8 DEF Saves!Trunc, Saves!Begin, Saves!Go, Saves!End, Saves!request,
                          Saves!count, Saves!history, Saves!Take, Saves!Free, SaveFiles, Workers,
                          Owners, Past, UnderLock, Accounts, Saves!NoOrphans, Saves!Locked,
                          Saves!SaveAssumption
<1>9. ASSUME NEW t \in Thread, Saves!WriteSome(t) PROVE Saves!NoOrphans'
  BY <1>0, <1>a, <1>9 DEF Saves!WriteSome, Saves!Begin, Saves!Go, Saves!End, Saves!request,
                          Saves!count, Saves!history, SaveFiles, Workers, Owners, Past, UnderLock,
                          Accounts, Saves!NoOrphans, Saves!Locked, Saves!SaveAssumption
<1>10. ASSUME NEW t \in Thread, Saves!Write(t) PROVE Saves!NoOrphans'
  BY <1>0, <1>a, <1>10 DEF Saves!Write, Saves!Begin, Saves!Go, Saves!End, Saves!request,
                           Saves!count, Saves!history, SaveFiles, Workers, Owners, Past, UnderLock,
                           Accounts, Saves!NoOrphans, Saves!Locked, Saves!SaveAssumption
<1>11. ASSUME NEW t \in Thread, Saves!Rename(t) PROVE Saves!NoOrphans'
  BY <1>0, <1>a, <1>11 DEF Saves!Rename, Saves!Begin, Saves!Go, Saves!End, Saves!request,
                           Saves!count, Saves!history, Saves!Release, Saves!Done, Saves!Others,
                           Saves!Renamed, SaveFiles, Workers, Owners, Past, UnderLock, Accounts,
                           Saves!NoOrphans, Saves!Locked, Saves!SaveAssumption
<1>12. ASSUME NEW t \in Thread, Saves!Fail(t) PROVE Saves!NoOrphans'
  BY <1>0, <1>a, <1>12 DEF Saves!Fail, Saves!Begin, Saves!Go, Saves!End, Saves!request,
                           Saves!count, Saves!history, Saves!Release, Saves!Done, Saves!Others,
                           SaveFiles, Workers, Owners, Past, UnderLock, Accounts, Saves!NoOrphans, Saves!Locked, Saves!SaveAssumption
<1>13. ASSUME NEW t \in Thread, Saves!LoadCloud(t) PROVE Saves!NoOrphans'
  BY <1>0, <1>a, <1>13 DEF Saves!LoadCloud, Saves!Begin, Saves!Go, Saves!End, Saves!request,
                           Saves!count, Saves!history, Saves!Free, Saves!Escapes, Saves!Others,
                           SaveFiles, Workers, Owners, Past, UnderLock, Accounts, Saves!NoOrphans, Saves!Locked, Saves!SaveAssumption
<1>14. ASSUME NEW t \in Thread, Saves!NoSave(t) PROVE Saves!NoOrphans'
  BY <1>0, <1>a, <1>14 DEF Saves!NoSave, Saves!Begin, Saves!Go, Saves!End, Saves!request,
                           Saves!count, Saves!history, Saves!Free, SaveFiles, Workers, Owners,
                           Past, UnderLock, Accounts, Saves!NoOrphans, Saves!Locked,
                           Saves!SaveAssumption
<1>15. ASSUME NEW t \in Thread, Saves!MarkRead(t) PROVE Saves!NoOrphans'
  BY <1>0, <1>a, <1>15 DEF Saves!MarkRead, Saves!Begin, Saves!Go, Saves!End, Saves!request,
                           Saves!count, Saves!history, Saves!Take, Saves!Free, SaveFiles, Workers,
                           Owners, Past, UnderLock, Accounts, Saves!NoOrphans,
                           Saves!Locked, Saves!SaveAssumption
<1>16. ASSUME NEW t \in Thread, Saves!NoMeta(t) PROVE Saves!NoOrphans'
  BY <1>0, <1>a, <1>16 DEF Saves!NoMeta, Saves!Begin, Saves!Go, Saves!End, Saves!request,
                           Saves!count, Saves!history, Saves!Free, SaveFiles, Workers, Owners,
                           Past, UnderLock, Accounts, Saves!NoOrphans, Saves!Locked,
                           Saves!SaveAssumption
<1>17. ASSUME NEW t \in Thread, Saves!MarkOpen(t) PROVE Saves!NoOrphans'
  BY <1>0, <1>a, <1>17 DEF Saves!MarkOpen, Saves!Begin, Saves!Go, Saves!End, Saves!request,
                           Saves!count, Saves!history, SaveFiles, Workers, Owners, Past, UnderLock,
                           Accounts, Saves!NoOrphans, Saves!Locked, Saves!SaveAssumption
<1>18. ASSUME NEW t \in Thread, Saves!MarkWrite(t) PROVE Saves!NoOrphans'
  BY <1>0, <1>a, <1>18 DEF Saves!MarkWrite, Saves!Begin, Saves!Go, Saves!End, Saves!request,
                           Saves!count, Saves!history, Saves!Release, Saves!Done, Saves!Others,
                           SaveFiles, Workers, Owners, Past, UnderLock, Accounts, Saves!NoOrphans, Saves!Locked, Saves!SaveAssumption
<1>19. ASSUME NEW t \in Thread, Saves!Unlink(t) PROVE Saves!NoOrphans'
  BY <1>0, <1>a, <1>19 DEF Saves!Unlink, Saves!Begin, Saves!Go, Saves!End, Saves!request,
                           Saves!count, Saves!history, Saves!Release, Saves!Done, Saves!Others,
                           SaveFiles, Workers, Owners, Past, UnderLock, Accounts, Saves!NoOrphans, Saves!Locked, Saves!SaveAssumption
<1>20. ASSUME NEW t \in Thread, Saves!Sweep(t) PROVE Saves!NoOrphans'
  BY <1>0, <1>a, <1>20 DEF Saves!Sweep, Saves!Begin, Saves!Go, Saves!End, Saves!request,
                           Saves!count, Saves!history, Saves!Take, Saves!Free, SaveFiles, Workers,
                           Owners, Past, UnderLock, Accounts, Saves!NoOrphans,
                           Saves!Locked, Saves!SaveAssumption
<1>21. ASSUME NEW t \in Thread, Saves!BlLoad(t) PROVE Saves!NoOrphans'
  BY <1>0, <1>a, <1>21 DEF Saves!BlLoad, Saves!Begin, Saves!Go, Saves!End, Saves!request,
                           Saves!count, Saves!history, Saves!Free, SaveFiles, Workers, Owners,
                           Past, UnderLock, Accounts, Saves!NoOrphans, Saves!Locked,
                           Saves!SaveAssumption
<1>22. ASSUME NEW t \in Thread, Saves!BlSkip(t) PROVE Saves!NoOrphans'
  BY <1>0, <1>a, <1>22 DEF Saves!BlSkip, Saves!Begin, Saves!Go, Saves!End, Saves!request,
                           Saves!count, Saves!history, Saves!Free, SaveFiles, Workers, Owners,
                           Past, UnderLock, Accounts, Saves!NoOrphans, Saves!Locked,
                           Saves!SaveAssumption
<1>23. ASSUME NEW t \in Thread, Saves!BlMeta(t) PROVE Saves!NoOrphans'
  BY <1>0, <1>a, <1>23 DEF Saves!BlMeta, Saves!Begin, Saves!Go, Saves!End, Saves!request,
                           Saves!count, Saves!history, Saves!Free, SaveFiles, Workers, Owners,
                           Past, UnderLock, Accounts, Saves!NoOrphans, Saves!Locked,
                           Saves!SaveAssumption
<1>24. CASE Saves!Tick
  BY <1>0, <1>a, <1>24 DEF Saves!Tick, Saves!Begin, Saves!Go, Saves!End, Saves!request,
                           Saves!count, Saves!history, SaveFiles, Workers, Owners, Past, UnderLock,
                           Accounts, Saves!NoOrphans, Saves!Locked, Saves!SaveAssumption
<1>25. CASE Saves!Crash
  BY <1>0, <1>a, <1>25 DEF Saves!Crash, Saves!Begin, Saves!Go, Saves!End, Saves!request,
                           Saves!count, Saves!history, SaveFiles, Workers, Owners, Past, UnderLock,
                           Accounts, Saves!NoOrphans, Saves!Locked, Saves!SaveAssumption
<1>26. CASE UNCHANGED Saves!vars
  BY <1>0, <1>26 DEF Saves!vars, Saves!Begin, Saves!Go, Saves!End, Saves!request, Saves!count,
                     Saves!history, SaveFiles, Workers, Owners, Past, UnderLock, Accounts, Saves!NoOrphans, Saves!Locked, Saves!SaveAssumption
<1> QED BY <1>1, <1>2, <1>3, <1>4, <1>5, <1>6, <1>7, <1>8, <1>9, <1>10, <1>11, <1>12, <1>13,
           <1>14, <1>15, <1>16, <1>17, <1>18, <1>19, <1>20, <1>21, <1>22, <1>23,
           <1>24, <1>25, <1>26 DEF Saves!Next, Saves!Serve

\* Every step keeps the marks.
LEMMA MarksStep == SaveInv /\ [Saves!Next]_(Saves!vars) => Marks'
<1> SUFFICES ASSUME SaveInv, [Saves!Next]_(Saves!vars) PROVE Marks'
  OBVIOUS
<1>0. SaveFiles /\ Workers /\ InHand /\ Owners /\ Hands /\ Marks /\ MarksInHand BY DEF SaveInv
<1>a. Saves!SaveAssumption BY SaveConstants
<1>1. ASSUME NEW t \in Thread, NEW a \in SaveAcc, Saves!UploadSave(t, a) PROVE Marks'
  BY <1>0, <1>a, <1>1 DEF Saves!UploadSave, Saves!Begin, Saves!Go, Saves!End, Saves!request,
                          Saves!count, Saves!history, Saves!Free, SaveFiles, Workers, InHand,
                          Owners, Hands, Marks, MarksInHand, Saves!MarkOf, Saves!Read,
                          Saves!Locked, Saves!SaveAssumption
<1>2. ASSUME NEW t \in Thread, NEW a \in SaveAcc, Saves!DownloadSave(t, a) PROVE Marks'
  BY <1>0, <1>a, <1>2 DEF Saves!DownloadSave, Saves!Begin, Saves!Go, Saves!End, Saves!request,
                          Saves!count, Saves!history, Saves!Free, SaveFiles, Workers, InHand,
                          Owners, Hands, Marks, MarksInHand, Saves!MarkOf, Saves!Read,
                          Saves!Locked, Saves!SaveAssumption
<1>3. ASSUME NEW t \in Thread, NEW a \in SaveAcc, Saves!ResetMark(t, a) PROVE Marks'
  BY <1>0, <1>a, <1>3 DEF Saves!ResetMark, Saves!Begin, Saves!Go, Saves!End, Saves!request,
                          Saves!count, Saves!history, SaveFiles, Workers, InHand, Owners, Hands,
                          Marks, MarksInHand, Saves!MarkOf, Saves!Read, Saves!Locked,
                          Saves!SaveAssumption
<1>4. ASSUME NEW t \in Thread, NEW a \in SaveAcc, Saves!DeleteSave(t, a) PROVE Marks'
  BY <1>0, <1>a, <1>4 DEF Saves!DeleteSave, Saves!Begin, Saves!Go, Saves!End, Saves!request,
                          Saves!count, Saves!history, Saves!Free, SaveFiles, Workers, InHand,
                          Owners, Hands, Marks, MarksInHand, Saves!MarkOf, Saves!Read,
                          Saves!Locked, Saves!SaveAssumption
<1>5. ASSUME NEW t \in Thread, NEW a \in SaveAcc, Saves!DeleteAccount(t, a) PROVE Marks'
  BY <1>0, <1>a, <1>5 DEF Saves!DeleteAccount, Saves!Begin, Saves!Go, Saves!End, Saves!request,
                          Saves!count, Saves!history, SaveFiles, Workers, InHand, Owners, Hands,
                          Marks, MarksInHand, Saves!MarkOf, Saves!Read, Saves!Locked,
                          Saves!SaveAssumption
<1>6. ASSUME NEW t \in Thread, NEW a \in SaveAcc, Saves!BlForce(t, a) PROVE Marks'
  BY <1>0, <1>a, <1>6 DEF Saves!BlForce, Saves!Begin, Saves!Go, Saves!End, Saves!request,
                          Saves!count, Saves!history, SaveFiles, Workers, InHand, Owners, Hands,
                          Marks, MarksInHand, Saves!MarkOf, Saves!Read, Saves!Locked,
                          Saves!SaveAssumption
<1>7. ASSUME NEW t \in Thread, Saves!EnsureAccount(t) PROVE Marks'
  BY <1>0, <1>a, <1>7 DEF Saves!EnsureAccount, Saves!Begin, Saves!Go, Saves!End, Saves!request,
                          Saves!count, Saves!history, SaveFiles, Workers, InHand, Owners, Hands,
                          Marks, MarksInHand, Saves!MarkOf, Saves!Read, Saves!Locked,
                          Saves!SaveAssumption
<1>8. ASSUME NEW t \in Thread, Saves!Trunc(t) PROVE Marks'
  BY <1>0, <1>a, <1>8 DEF Saves!Trunc, Saves!Begin, Saves!Go, Saves!End, Saves!request,
                          Saves!count, Saves!history, Saves!Take, Saves!Free, SaveFiles, Workers,
                          InHand, Owners, Hands, Marks, MarksInHand, Saves!MarkOf, Saves!Read,
                          Saves!Locked, Saves!SaveAssumption
<1>9. ASSUME NEW t \in Thread, Saves!WriteSome(t) PROVE Marks'
  BY <1>0, <1>a, <1>9 DEF Saves!WriteSome, Saves!Begin, Saves!Go, Saves!End, Saves!request,
                          Saves!count, Saves!history, SaveFiles, Workers, InHand, Owners, Hands,
                          Marks, MarksInHand, Saves!MarkOf, Saves!Read, Saves!Locked,
                          Saves!SaveAssumption
<1>10. ASSUME NEW t \in Thread, Saves!Write(t) PROVE Marks'
  BY <1>0, <1>a, <1>10 DEF Saves!Write, Saves!Begin, Saves!Go, Saves!End, Saves!request,
                           Saves!count, Saves!history, SaveFiles, Workers, InHand, Owners, Hands,
                           Marks, MarksInHand, Saves!MarkOf, Saves!Read, Saves!Locked,
                           Saves!SaveAssumption
<1>11. ASSUME NEW t \in Thread, Saves!Rename(t) PROVE Marks'
  <2>1. /\ pc[t] = "rename" /\ pc' = [pc EXCEPT ![t] = "idle"] /\ acc' = [acc EXCEPT ![t] = None] /\ acc[t] \in SaveAcc
        /\ UNCHANGED served
    BY <1>0, <1>11 DEF Saves!Rename, Saves!End, Workers
  <2>2. \A u \in Thread \ {t} : pc'[u] = pc[u] /\ acc'[u] = acc[u] BY <1>0, <2>1 DEF Workers
  <2>3. SUFFICES ASSUME NEW b \in SaveAcc \ unmarked',
                        \A u \in Thread : acc'[u] = b => pc'[u] \notin {"remark", "unlink"}
                 PROVE  Saves!MarkOf(b)' = served[b]
    BY <2>1 DEF Marks
  <2>4. meta' = [meta EXCEPT ![acc[t]] = kept[t]]
        /\ unmarked' = (IF t \in over THEN unmarked \cup {acc[t]} ELSE unmarked)
    BY <1>11 DEF Saves!Rename, Saves!Renamed
  <2>5. CASE b = acc[t]
    <3>1. meta'[b] = kept[t] /\ kept[t].of \in Number BY <1>0, <2>1, <2>4, <2>5 DEF SaveFiles, Hands
    <3>2. Saves!Read(kept[t])
      BY <1>a, <3>1 DEF Saves!Read, Saves!Missing, Saves!Cut, Number, Saves!SaveAssumption
    <3>3. kept[t].down = served[b] BY <1>0, <2>1, <2>4, <2>5 DEF MarksInHand
    <3> QED BY <3>1, <3>2, <3>3 DEF Saves!MarkOf, Saves!Read
  <2>6. CASE b # acc[t]
    <3>1. meta'[b] = meta[b] /\ b \notin unmarked BY <1>0, <2>4, <2>6 DEF SaveFiles
    <3>2. \A u \in Thread : acc[u] = b => pc[u] \notin {"remark", "unlink"} BY <2>2, <2>3, <2>6
    <3> QED BY <1>0, <3>1, <3>2 DEF Marks, Saves!MarkOf, Saves!Read
  <2> QED BY <2>5, <2>6
<1>12. ASSUME NEW t \in Thread, Saves!Fail(t) PROVE Marks'
  BY <1>0, <1>a, <1>12 DEF Saves!Fail, Saves!Begin, Saves!Go, Saves!End, Saves!request,
                           Saves!count, Saves!history, Saves!Release, Saves!Done, Saves!Others,
                           SaveFiles, Workers, InHand, Owners, Hands, Marks, MarksInHand,
                           Saves!MarkOf, Saves!Read, Saves!Locked, Saves!SaveAssumption
<1>13. ASSUME NEW t \in Thread, Saves!LoadCloud(t) PROVE Marks'
  BY <1>0, <1>a, <1>13 DEF Saves!LoadCloud, Saves!Begin, Saves!Go, Saves!End, Saves!request,
                           Saves!count, Saves!history, Saves!Free, Saves!Escapes, Saves!Others,
                           SaveFiles, Workers, InHand, Owners, Hands, Marks, MarksInHand,
                           Saves!MarkOf, Saves!Read, Saves!Locked, Saves!SaveAssumption
<1>14. ASSUME NEW t \in Thread, Saves!NoSave(t) PROVE Marks'
  BY <1>0, <1>a, <1>14 DEF Saves!NoSave, Saves!Begin, Saves!Go, Saves!End, Saves!request,
                           Saves!count, Saves!history, Saves!Free, SaveFiles, Workers, InHand,
                           Owners, Hands, Marks, MarksInHand, Saves!MarkOf, Saves!Read,
                           Saves!Locked, Saves!SaveAssumption
<1>15. ASSUME NEW t \in Thread, Saves!MarkRead(t) PROVE Marks'
  BY <1>0, <1>a, <1>15 DEF Saves!MarkRead, Saves!Begin, Saves!Go, Saves!End, Saves!request,
                           Saves!count, Saves!history, Saves!Take, Saves!Free, SaveFiles, Workers,
                           InHand, Owners, Hands, Marks, MarksInHand, Saves!MarkOf, Saves!Read,
                           Saves!Locked, Saves!SaveAssumption
<1>16. ASSUME NEW t \in Thread, Saves!NoMeta(t) PROVE Marks'
  BY <1>0, <1>a, <1>16 DEF Saves!NoMeta, Saves!Begin, Saves!Go, Saves!End, Saves!request,
                           Saves!count, Saves!history, Saves!Free, SaveFiles, Workers, InHand,
                           Owners, Hands, Marks, MarksInHand, Saves!MarkOf, Saves!Read,
                           Saves!Locked, Saves!SaveAssumption
<1>17. ASSUME NEW t \in Thread, Saves!MarkOpen(t) PROVE Marks'
  BY <1>0, <1>a, <1>17 DEF Saves!MarkOpen, Saves!Begin, Saves!Go, Saves!End, Saves!request,
                           Saves!count, Saves!history, SaveFiles, Workers, InHand, Owners, Hands,
                           Marks, MarksInHand, Saves!MarkOf, Saves!Read, Saves!Locked,
                           Saves!SaveAssumption
<1>18. ASSUME NEW t \in Thread, Saves!MarkWrite(t) PROVE Marks'
  <2>1. /\ pc[t] = "remark" /\ pc' = [pc EXCEPT ![t] = "idle"] /\ acc' = [acc EXCEPT ![t] = None] /\ acc[t] \in SaveAcc
        /\ UNCHANGED served
    BY <1>0, <1>18 DEF Saves!MarkWrite, Saves!End, Workers
  <2>2. \A u \in Thread \ {t} : pc'[u] = pc[u] /\ acc'[u] = acc[u] BY <1>0, <2>1 DEF Workers
  <2>3. SUFFICES ASSUME NEW b \in SaveAcc \ unmarked',
                        \A u \in Thread : acc'[u] = b => pc'[u] \notin {"remark", "unlink"}
                 PROVE  Saves!MarkOf(b)' = served[b]
    BY <2>1 DEF Marks
  <2>4. /\ meta' = [meta EXCEPT ![acc[t]] = kept[t]]
        /\ unmarked' = (IF t \in over \/ kept[t].down = 0
                        THEN unmarked \cup {acc[t]} ELSE unmarked \ {acc[t]})
    BY <1>18 DEF Saves!MarkWrite
  <2>5. CASE b = acc[t]
    <3>0. t \notin over /\ kept[t].down # 0 BY <2>4, <2>5
    <3>1. meta'[b] = kept[t] /\ kept[t].of \in Number BY <1>0, <2>1, <2>4, <2>5,
                                                         <3>0 DEF SaveFiles, Hands
    <3>2. Saves!Read(kept[t])
      BY <1>a, <3>1 DEF Saves!Read, Saves!Missing, Saves!Cut, Number, Saves!SaveAssumption
    <3>3. kept[t].down = served[b] BY <1>0, <2>1, <2>5, <3>0 DEF MarksInHand
    <3> QED BY <3>1, <3>2, <3>3 DEF Saves!MarkOf, Saves!Read
  <2>6. CASE b # acc[t]
    <3>1. meta'[b] = meta[b] /\ b \notin unmarked BY <1>0, <2>4, <2>6 DEF SaveFiles
    <3>2. \A u \in Thread : acc[u] = b => pc[u] \notin {"remark", "unlink"} BY <2>2, <2>3, <2>6
    <3> QED BY <1>0, <3>1, <3>2 DEF Marks, Saves!MarkOf, Saves!Read
  <2> QED BY <2>5, <2>6
<1>19. ASSUME NEW t \in Thread, Saves!Unlink(t) PROVE Marks'
  BY <1>0, <1>a, <1>19 DEF Saves!Unlink, Saves!Begin, Saves!Go, Saves!End, Saves!request,
                           Saves!count, Saves!history, Saves!Release, Saves!Done, Saves!Others,
                           SaveFiles, Workers, InHand, Owners, Hands, Marks, MarksInHand,
                           Saves!MarkOf, Saves!Read, Saves!Locked, Saves!SaveAssumption
<1>20. ASSUME NEW t \in Thread, Saves!Sweep(t) PROVE Marks'
  BY <1>0, <1>a, <1>20 DEF Saves!Sweep, Saves!Begin, Saves!Go, Saves!End, Saves!request,
                           Saves!count, Saves!history, Saves!Take, Saves!Free, SaveFiles, Workers,
                           InHand, Owners, Hands, Marks, MarksInHand, Saves!MarkOf, Saves!Read,
                           Saves!Locked, Saves!SaveAssumption
<1>21. ASSUME NEW t \in Thread, Saves!BlLoad(t) PROVE Marks'
  BY <1>0, <1>a, <1>21 DEF Saves!BlLoad, Saves!Begin, Saves!Go, Saves!End, Saves!request,
                           Saves!count, Saves!history, Saves!Free, SaveFiles, Workers, InHand,
                           Owners, Hands, Marks, MarksInHand, Saves!MarkOf, Saves!Read,
                           Saves!Locked, Saves!SaveAssumption
<1>22. ASSUME NEW t \in Thread, Saves!BlSkip(t) PROVE Marks'
  BY <1>0, <1>a, <1>22 DEF Saves!BlSkip, Saves!Begin, Saves!Go, Saves!End, Saves!request,
                           Saves!count, Saves!history, Saves!Free, SaveFiles, Workers, InHand,
                           Owners, Hands, Marks, MarksInHand, Saves!MarkOf, Saves!Read,
                           Saves!Locked, Saves!SaveAssumption
<1>23. ASSUME NEW t \in Thread, Saves!BlMeta(t) PROVE Marks'
  BY <1>0, <1>a, <1>23 DEF Saves!BlMeta, Saves!Begin, Saves!Go, Saves!End, Saves!request,
                           Saves!count, Saves!history, Saves!Free, SaveFiles, Workers, InHand,
                           Owners, Hands, Marks, MarksInHand, Saves!MarkOf, Saves!Read,
                           Saves!Locked, Saves!SaveAssumption
<1>24. CASE Saves!Tick
  BY <1>0, <1>a, <1>24 DEF Saves!Tick, Saves!Begin, Saves!Go, Saves!End, Saves!request,
                           Saves!count, Saves!history, SaveFiles, Workers, InHand, Owners, Hands,
                           Marks, MarksInHand, Saves!MarkOf, Saves!Read, Saves!Locked,
                           Saves!SaveAssumption
<1>25. CASE Saves!Crash
  BY <1>0, <1>a, <1>25 DEF Saves!Crash, Saves!Begin, Saves!Go, Saves!End, Saves!request,
                           Saves!count, Saves!history, SaveFiles, Workers, InHand, Owners, Hands,
                           Marks, MarksInHand, Saves!MarkOf, Saves!Read, Saves!Locked,
                           Saves!SaveAssumption
<1>26. CASE UNCHANGED Saves!vars
  BY <1>0, <1>26 DEF Saves!vars, Saves!Begin, Saves!Go, Saves!End, Saves!request, Saves!count,
                     Saves!history, SaveFiles, Workers, InHand, Owners, Hands, Marks, MarksInHand,
                     Saves!MarkOf, Saves!Read, Saves!Locked, Saves!SaveAssumption
<1> QED BY <1>1, <1>2, <1>3, <1>4, <1>5, <1>6, <1>7, <1>8, <1>9, <1>10, <1>11, <1>12, <1>13,
           <1>14, <1>15, <1>16, <1>17, <1>18, <1>19, <1>20, <1>21, <1>22, <1>23,
           <1>24, <1>25, <1>26 DEF Saves!Next, Saves!Serve

\* Every step keeps the marks in hand.
LEMMA MarksInHandStep == SaveInv /\ [Saves!Next]_(Saves!vars) => MarksInHand'
<1> SUFFICES ASSUME SaveInv, [Saves!Next]_(Saves!vars) PROVE MarksInHand'
  OBVIOUS
<1>0. SaveFiles /\ Workers /\ Past /\ InHand /\ Owners /\ Hands /\ Marks /\ MarksInHand
  BY DEF SaveInv
<1>a. Saves!SaveAssumption BY SaveConstants
<1>1. ASSUME NEW t \in Thread, NEW a \in SaveAcc, Saves!UploadSave(t, a) PROVE MarksInHand'
  BY <1>0, <1>a, <1>1 DEF Saves!UploadSave, Saves!Begin, Saves!Go, Saves!End, Saves!request,
                          Saves!count, Saves!history, Saves!Free, SaveFiles, Workers, InHand,
                          Owners, Hands, Marks, MarksInHand, Saves!MarkOf, Saves!Read,
                          Saves!Locked, Saves!SaveAssumption, Saves!Missing
<1>2. ASSUME NEW t \in Thread, NEW a \in SaveAcc, Saves!DownloadSave(t, a) PROVE MarksInHand'
  BY <1>0, <1>a, <1>2 DEF Saves!DownloadSave, Saves!Begin, Saves!Go, Saves!End, Saves!request,
                          Saves!count, Saves!history, Saves!Free, SaveFiles, Workers, InHand,
                          Owners, Hands, Marks, MarksInHand, Saves!MarkOf, Saves!Read,
                          Saves!Locked, Saves!SaveAssumption, Saves!Missing
<1>3. ASSUME NEW t \in Thread, NEW a \in SaveAcc, Saves!ResetMark(t, a) PROVE MarksInHand'
  BY <1>0, <1>a, <1>3 DEF Saves!ResetMark, Saves!Begin, Saves!Go, Saves!End, Saves!request,
                          Saves!count, Saves!history, SaveFiles, Workers, InHand, Owners, Hands,
                          Marks, MarksInHand, Saves!MarkOf, Saves!Read, Saves!Locked,
                          Saves!SaveAssumption, Saves!Missing
<1>4. ASSUME NEW t \in Thread, NEW a \in SaveAcc, Saves!DeleteSave(t, a) PROVE MarksInHand'
  BY <1>0, <1>a, <1>4 DEF Saves!DeleteSave, Saves!Begin, Saves!Go, Saves!End, Saves!request,
                          Saves!count, Saves!history, Saves!Free, SaveFiles, Workers, InHand,
                          Owners, Hands, Marks, MarksInHand, Saves!MarkOf, Saves!Read,
                          Saves!Locked, Saves!SaveAssumption, Saves!Missing
<1>5. ASSUME NEW t \in Thread, NEW a \in SaveAcc, Saves!DeleteAccount(t, a) PROVE MarksInHand'
  BY <1>0, <1>a, <1>5 DEF Saves!DeleteAccount, Saves!Begin, Saves!Go, Saves!End, Saves!request,
                          Saves!count, Saves!history, SaveFiles, Workers, InHand, Owners, Hands,
                          Marks, MarksInHand, Saves!MarkOf, Saves!Read, Saves!Locked,
                          Saves!SaveAssumption, Saves!Missing
<1>6. ASSUME NEW t \in Thread, NEW a \in SaveAcc, Saves!BlForce(t, a) PROVE MarksInHand'
  BY <1>0, <1>a, <1>6 DEF Saves!BlForce, Saves!Begin, Saves!Go, Saves!End, Saves!request,
                          Saves!count, Saves!history, SaveFiles, Workers, InHand, Owners, Hands,
                          Marks, MarksInHand, Saves!MarkOf, Saves!Read, Saves!Locked,
                          Saves!SaveAssumption, Saves!Missing
<1>7. ASSUME NEW t \in Thread, Saves!EnsureAccount(t) PROVE MarksInHand'
  BY <1>0, <1>a, <1>7 DEF Saves!EnsureAccount, Saves!Begin, Saves!Go, Saves!End, Saves!request,
                          Saves!count, Saves!history, SaveFiles, Workers, InHand, Owners, Hands,
                          Marks, MarksInHand, Saves!MarkOf, Saves!Read, Saves!Locked,
                          Saves!SaveAssumption, Saves!Missing
<1>8. ASSUME NEW t \in Thread, Saves!Trunc(t) PROVE MarksInHand'
  BY <1>0, <1>a, <1>8 DEF Saves!Trunc, Saves!Begin, Saves!Go, Saves!End, Saves!request,
                          Saves!count, Saves!history, Saves!Take, Saves!Free, SaveFiles, Workers,
                          InHand, Owners, Hands, Marks, MarksInHand, Saves!MarkOf, Saves!Read,
                          Saves!Locked, Saves!SaveAssumption, Saves!Missing
<1>9. ASSUME NEW t \in Thread, Saves!WriteSome(t) PROVE MarksInHand'
  BY <1>0, <1>a, <1>9 DEF Saves!WriteSome, Saves!Begin, Saves!Go, Saves!End, Saves!request,
                          Saves!count, Saves!history, SaveFiles, Workers, InHand, Owners, Hands,
                          Marks, MarksInHand, Saves!MarkOf, Saves!Read, Saves!Locked,
                          Saves!SaveAssumption, Saves!Missing
<1>10. ASSUME NEW t \in Thread, Saves!Write(t) PROVE MarksInHand'
  BY <1>0, <1>a, <1>10 DEF Saves!Write, Saves!Begin, Saves!Go, Saves!End, Saves!request,
                           Saves!count, Saves!history, SaveFiles, Workers, InHand, Owners, Hands,
                           Marks, MarksInHand, Saves!MarkOf, Saves!Read, Saves!Locked,
                           Saves!SaveAssumption, Saves!Missing
<1>11. ASSUME NEW t \in Thread, Saves!Rename(t) PROVE MarksInHand'
  BY <1>0, <1>a, <1>11 DEF Saves!Rename, Saves!Begin, Saves!Go, Saves!End, Saves!request,
                           Saves!count, Saves!history, Saves!Release, Saves!Done, Saves!Others,
                           Saves!Renamed, SaveFiles, Workers, InHand, Owners, Hands, Marks,
                           MarksInHand, Saves!MarkOf, Saves!Read, Saves!Locked,
                           Saves!SaveAssumption, Saves!Missing
<1>12. ASSUME NEW t \in Thread, Saves!Fail(t) PROVE MarksInHand'
  BY <1>0, <1>a, <1>12 DEF Saves!Fail, Saves!Begin, Saves!Go, Saves!End, Saves!request,
                           Saves!count, Saves!history, Saves!Release, Saves!Done, Saves!Others,
                           SaveFiles, Workers, InHand, Owners, Hands, Marks, MarksInHand,
                           Saves!MarkOf, Saves!Read, Saves!Locked, Saves!SaveAssumption,
                           Saves!Missing
<1>13. ASSUME NEW t \in Thread, Saves!LoadCloud(t) PROVE MarksInHand'
  <2>1. /\ pc[t] = "load" /\ pc' = [pc EXCEPT ![t] = "mark"] /\ acc[t] \in SaveAcc
        /\ over' = over \cup {u \in Thread \ {t} : acc[u] = acc[t]} /\ UNCHANGED <<acc, kept>>
        /\ served' = [served EXCEPT ![acc[t]] = kept[t].down] /\ unmarked' = unmarked \cup {acc[t]}
    BY <1>0, <1>13 DEF Saves!LoadCloud, Saves!Go, Saves!Escapes, Saves!Others, Workers
  <2>2. pc'[t] = "mark" /\ \A u \in Thread \ {t} : pc'[u] = pc[u] BY <1>0, <2>1 DEF Workers
  <2>3. served'[acc[t]] = kept[t].down BY <1>0, <2>1 DEF Past
  <2>4. \A u \in Thread \ over' : u # t => acc[u] # acc[t] BY <2>1
  <2>5. \A b \in SaveAcc : b # acc[t] => served'[b] = served[b] BY <1>0, <2>1 DEF Past
  <2>6. \A u \in Thread \ over' : u # t /\ pc[u] # "idle" => served'[acc[u]] = served[acc[u]]
    BY <1>0, <2>4, <2>5 DEF Workers
  <2> QED BY <1>0, <2>1, <2>2, <2>3, <2>6 DEF MarksInHand
<1>14. ASSUME NEW t \in Thread, Saves!NoSave(t) PROVE MarksInHand'
  BY <1>0, <1>a, <1>14 DEF Saves!NoSave, Saves!Begin, Saves!Go, Saves!End, Saves!request,
                           Saves!count, Saves!history, Saves!Free, SaveFiles, Workers, InHand,
                           Owners, Hands, Marks, MarksInHand, Saves!MarkOf, Saves!Read,
                           Saves!Locked, Saves!SaveAssumption, Saves!Missing
<1>15. ASSUME NEW t \in Thread, Saves!MarkRead(t) PROVE MarksInHand'
  BY <1>0, <1>a, <1>15 DEF Saves!MarkRead, Saves!Begin, Saves!Go, Saves!End, Saves!request,
                           Saves!count, Saves!history, Saves!Take, Saves!Free, SaveFiles, Workers,
                           InHand, Owners, Hands, Marks, MarksInHand, Saves!MarkOf, Saves!Read,
                           Saves!Locked, Saves!SaveAssumption, Saves!Missing
<1>16. ASSUME NEW t \in Thread, Saves!NoMeta(t) PROVE MarksInHand'
  BY <1>0, <1>a, <1>16 DEF Saves!NoMeta, Saves!Begin, Saves!Go, Saves!End, Saves!request,
                           Saves!count, Saves!history, Saves!Free, SaveFiles, Workers, InHand,
                           Owners, Hands, Marks, MarksInHand, Saves!MarkOf, Saves!Read,
                           Saves!Locked, Saves!SaveAssumption, Saves!Missing
<1>17. ASSUME NEW t \in Thread, Saves!MarkOpen(t) PROVE MarksInHand'
  BY <1>0, <1>a, <1>17 DEF Saves!MarkOpen, Saves!Begin, Saves!Go, Saves!End, Saves!request,
                           Saves!count, Saves!history, SaveFiles, Workers, InHand, Owners, Hands,
                           Marks, MarksInHand, Saves!MarkOf, Saves!Read, Saves!Locked,
                           Saves!SaveAssumption, Saves!Missing
<1>18. ASSUME NEW t \in Thread, Saves!MarkWrite(t) PROVE MarksInHand'
  BY <1>0, <1>a, <1>18 DEF Saves!MarkWrite, Saves!Begin, Saves!Go, Saves!End, Saves!request,
                           Saves!count, Saves!history, Saves!Release, Saves!Done, Saves!Others,
                           SaveFiles, Workers, InHand, Owners, Hands, Marks, MarksInHand,
                           Saves!MarkOf, Saves!Read, Saves!Locked, Saves!SaveAssumption,
                           Saves!Missing
<1>19. ASSUME NEW t \in Thread, Saves!Unlink(t) PROVE MarksInHand'
  BY <1>0, <1>a, <1>19 DEF Saves!Unlink, Saves!Begin, Saves!Go, Saves!End, Saves!request,
                           Saves!count, Saves!history, Saves!Release, Saves!Done, Saves!Others,
                           SaveFiles, Workers, InHand, Owners, Hands, Marks, MarksInHand,
                           Saves!MarkOf, Saves!Read, Saves!Locked, Saves!SaveAssumption,
                           Saves!Missing
<1>20. ASSUME NEW t \in Thread, Saves!Sweep(t) PROVE MarksInHand'
  BY <1>0, <1>a, <1>20 DEF Saves!Sweep, Saves!Begin, Saves!Go, Saves!End, Saves!request,
                           Saves!count, Saves!history, Saves!Take, Saves!Free, SaveFiles, Workers,
                           InHand, Owners, Hands, Marks, MarksInHand, Saves!MarkOf, Saves!Read,
                           Saves!Locked, Saves!SaveAssumption, Saves!Missing
<1>21. ASSUME NEW t \in Thread, Saves!BlLoad(t) PROVE MarksInHand'
  BY <1>0, <1>a, <1>21 DEF Saves!BlLoad, Saves!Begin, Saves!Go, Saves!End, Saves!request,
                           Saves!count, Saves!history, Saves!Free, SaveFiles, Workers, InHand,
                           Owners, Hands, Marks, MarksInHand, Saves!MarkOf, Saves!Read,
                           Saves!Locked, Saves!SaveAssumption, Saves!Missing
<1>22. ASSUME NEW t \in Thread, Saves!BlSkip(t) PROVE MarksInHand'
  BY <1>0, <1>a, <1>22 DEF Saves!BlSkip, Saves!Begin, Saves!Go, Saves!End, Saves!request,
                           Saves!count, Saves!history, Saves!Free, SaveFiles, Workers, InHand,
                           Owners, Hands, Marks, MarksInHand, Saves!MarkOf, Saves!Read,
                           Saves!Locked, Saves!SaveAssumption, Saves!Missing
<1>23. ASSUME NEW t \in Thread, Saves!BlMeta(t) PROVE MarksInHand'
  BY <1>0, <1>a, <1>23 DEF Saves!BlMeta, Saves!Begin, Saves!Go, Saves!End, Saves!request,
                           Saves!count, Saves!history, Saves!Free, SaveFiles, Workers, InHand,
                           Owners, Hands, Marks, MarksInHand, Saves!MarkOf, Saves!Read,
                           Saves!Locked, Saves!SaveAssumption, Saves!Missing
<1>24. CASE Saves!Tick
  BY <1>0, <1>a, <1>24 DEF Saves!Tick, Saves!Begin, Saves!Go, Saves!End, Saves!request,
                           Saves!count, Saves!history, SaveFiles, Workers, InHand, Owners, Hands,
                           Marks, MarksInHand, Saves!MarkOf, Saves!Read, Saves!Locked,
                           Saves!SaveAssumption, Saves!Missing
<1>25. CASE Saves!Crash
  BY <1>0, <1>a, <1>25 DEF Saves!Crash, Saves!Begin, Saves!Go, Saves!End, Saves!request,
                           Saves!count, Saves!history, SaveFiles, Workers, InHand, Owners, Hands,
                           Marks, MarksInHand, Saves!MarkOf, Saves!Read, Saves!Locked,
                           Saves!SaveAssumption, Saves!Missing
<1>26. CASE UNCHANGED Saves!vars
  BY <1>0, <1>26 DEF Saves!vars, Saves!Begin, Saves!Go, Saves!End, Saves!request, Saves!count,
                     Saves!history, SaveFiles, Workers, InHand, Owners, Hands, Marks, MarksInHand,
                     Saves!MarkOf, Saves!Read, Saves!Locked, Saves!SaveAssumption, Saves!Missing
<1> QED BY <1>1, <1>2, <1>3, <1>4, <1>5, <1>6, <1>7, <1>8, <1>9, <1>10, <1>11, <1>12, <1>13,
           <1>14, <1>15, <1>16, <1>17, <1>18, <1>19, <1>20, <1>21, <1>22, <1>23,
           <1>24, <1>25, <1>26 DEF Saves!Next, Saves!Serve

\* Every step keeps the intervals.
LEMMA IntervalsStep == SaveInv /\ [Saves!Next]_(Saves!vars) => Intervals'
<1> SUFFICES ASSUME SaveInv, [Saves!Next]_(Saves!vars) PROVE Intervals'
  OBVIOUS
<1>0. SaveFiles /\ Workers /\ InHand /\ Owners /\ Hands /\ Marks /\ Intervals BY DEF SaveInv
<1>a. Saves!SaveAssumption BY SaveConstants
<1>1. ASSUME NEW t \in Thread, NEW a \in SaveAcc, Saves!UploadSave(t, a) PROVE Intervals'
  BY <1>0, <1>a, <1>1 DEF Saves!UploadSave, Saves!Begin, Saves!Go, Saves!End, Saves!request,
                          Saves!count, Saves!history, Saves!Free, SaveFiles, Workers, InHand,
                          Owners, Hands, Marks, Intervals, Saves!MarkOf, Saves!Read, Saves!Locked,
                          Saves!SaveAssumption
<1>2. ASSUME NEW t \in Thread, NEW a \in SaveAcc, Saves!DownloadSave(t, a) PROVE Intervals'
  BY <1>0, <1>a, <1>2 DEF Saves!DownloadSave, Saves!Begin, Saves!Go, Saves!End, Saves!request,
                          Saves!count, Saves!history, Saves!Free, SaveFiles, Workers, InHand,
                          Owners, Hands, Marks, Intervals, Saves!MarkOf, Saves!Read, Saves!Locked,
                          Saves!SaveAssumption
<1>3. ASSUME NEW t \in Thread, NEW a \in SaveAcc, Saves!ResetMark(t, a) PROVE Intervals'
  BY <1>0, <1>a, <1>3 DEF Saves!ResetMark, Saves!Begin, Saves!Go, Saves!End, Saves!request,
                          Saves!count, Saves!history, SaveFiles, Workers, InHand, Owners, Hands,
                          Marks, Intervals, Saves!MarkOf, Saves!Read, Saves!Locked,
                          Saves!SaveAssumption
<1>4. ASSUME NEW t \in Thread, NEW a \in SaveAcc, Saves!DeleteSave(t, a) PROVE Intervals'
  BY <1>0, <1>a, <1>4 DEF Saves!DeleteSave, Saves!Begin, Saves!Go, Saves!End, Saves!request,
                          Saves!count, Saves!history, Saves!Free, SaveFiles, Workers, InHand,
                          Owners, Hands, Marks, Intervals, Saves!MarkOf, Saves!Read, Saves!Locked,
                          Saves!SaveAssumption
<1>5. ASSUME NEW t \in Thread, NEW a \in SaveAcc, Saves!DeleteAccount(t, a) PROVE Intervals'
  BY <1>0, <1>a, <1>5 DEF Saves!DeleteAccount, Saves!Begin, Saves!Go, Saves!End, Saves!request,
                          Saves!count, Saves!history, SaveFiles, Workers, InHand, Owners, Hands,
                          Marks, Intervals, Saves!MarkOf, Saves!Read, Saves!Locked,
                          Saves!SaveAssumption
<1>6. ASSUME NEW t \in Thread, NEW a \in SaveAcc, Saves!BlForce(t, a) PROVE Intervals'
  BY <1>0, <1>a, <1>6 DEF Saves!BlForce, Saves!Begin, Saves!Go, Saves!End, Saves!request,
                          Saves!count, Saves!history, SaveFiles, Workers, InHand, Owners, Hands,
                          Marks, Intervals, Saves!MarkOf, Saves!Read, Saves!Locked,
                          Saves!SaveAssumption
<1>7. ASSUME NEW t \in Thread, Saves!EnsureAccount(t) PROVE Intervals'
  BY <1>0, <1>a, <1>7 DEF Saves!EnsureAccount, Saves!Begin, Saves!Go, Saves!End, Saves!request,
                          Saves!count, Saves!history, SaveFiles, Workers, InHand, Owners, Hands,
                          Marks, Intervals, Saves!MarkOf, Saves!Read, Saves!Locked,
                          Saves!SaveAssumption
<1>8. ASSUME NEW t \in Thread, Saves!Trunc(t) PROVE Intervals'
  BY <1>0, <1>a, <1>8 DEF Saves!Trunc, Saves!Begin, Saves!Go, Saves!End, Saves!request,
                          Saves!count, Saves!history, Saves!Take, Saves!Free, SaveFiles, Workers,
                          InHand, Owners, Hands, Marks, Intervals, Saves!MarkOf, Saves!Read,
                          Saves!Locked, Saves!SaveAssumption
<1>9. ASSUME NEW t \in Thread, Saves!WriteSome(t) PROVE Intervals'
  BY <1>0, <1>a, <1>9 DEF Saves!WriteSome, Saves!Begin, Saves!Go, Saves!End, Saves!request,
                          Saves!count, Saves!history, SaveFiles, Workers, InHand, Owners, Hands,
                          Marks, Intervals, Saves!MarkOf, Saves!Read, Saves!Locked,
                          Saves!SaveAssumption
<1>10. ASSUME NEW t \in Thread, Saves!Write(t) PROVE Intervals'
  BY <1>0, <1>a, <1>10 DEF Saves!Write, Saves!Begin, Saves!Go, Saves!End, Saves!request,
                           Saves!count, Saves!history, SaveFiles, Workers, InHand, Owners, Hands,
                           Marks, Intervals, Saves!MarkOf, Saves!Read, Saves!Locked,
                           Saves!SaveAssumption
<1>11. ASSUME NEW t \in Thread, Saves!Rename(t) PROVE Intervals'
  BY <1>0, <1>a, <1>11 DEF Saves!Rename, Saves!Begin, Saves!Go, Saves!End, Saves!request,
                           Saves!count, Saves!history, Saves!Release, Saves!Done, Saves!Others,
                           Saves!Renamed, SaveFiles, Workers, InHand, Owners, Hands, Marks,
                           Intervals, Saves!MarkOf, Saves!Read, Saves!Locked, Saves!SaveAssumption
<1>12. ASSUME NEW t \in Thread, Saves!Fail(t) PROVE Intervals'
  BY <1>0, <1>a, <1>12 DEF Saves!Fail, Saves!Begin, Saves!Go, Saves!End, Saves!request,
                           Saves!count, Saves!history, Saves!Release, Saves!Done, Saves!Others,
                           SaveFiles, Workers, InHand, Owners, Hands, Marks, Intervals,
                           Saves!MarkOf, Saves!Read, Saves!Locked, Saves!SaveAssumption
<1>13. ASSUME NEW t \in Thread, Saves!LoadCloud(t) PROVE Intervals'
  BY <1>0, <1>a, <1>13 DEF Saves!LoadCloud, Saves!Begin, Saves!Go, Saves!End, Saves!request,
                           Saves!count, Saves!history, Saves!Free, Saves!Escapes, Saves!Others,
                           SaveFiles, Workers, InHand, Owners, Hands, Marks, Intervals,
                           Saves!MarkOf, Saves!Read, Saves!Locked, Saves!SaveAssumption
<1>14. ASSUME NEW t \in Thread, Saves!NoSave(t) PROVE Intervals'
  BY <1>0, <1>a, <1>14 DEF Saves!NoSave, Saves!Begin, Saves!Go, Saves!End, Saves!request,
                           Saves!count, Saves!history, Saves!Free, SaveFiles, Workers, InHand,
                           Owners, Hands, Marks, Intervals, Saves!MarkOf, Saves!Read,
                           Saves!Locked, Saves!SaveAssumption
<1>15. ASSUME NEW t \in Thread, Saves!MarkRead(t) PROVE Intervals'
  BY <1>0, <1>a, <1>15 DEF Saves!MarkRead, Saves!Begin, Saves!Go, Saves!End, Saves!request,
                           Saves!count, Saves!history, Saves!Take, Saves!Free, SaveFiles, Workers,
                           InHand, Owners, Hands, Marks, Intervals, Saves!MarkOf, Saves!Read,
                           Saves!Locked, Saves!SaveAssumption
<1>16. ASSUME NEW t \in Thread, Saves!NoMeta(t) PROVE Intervals'
  BY <1>0, <1>a, <1>16 DEF Saves!NoMeta, Saves!Begin, Saves!Go, Saves!End, Saves!request,
                           Saves!count, Saves!history, Saves!Free, SaveFiles, Workers, InHand,
                           Owners, Hands, Marks, Intervals, Saves!MarkOf, Saves!Read,
                           Saves!Locked, Saves!SaveAssumption
<1>17. ASSUME NEW t \in Thread, Saves!MarkOpen(t) PROVE Intervals'
  BY <1>0, <1>a, <1>17 DEF Saves!MarkOpen, Saves!Begin, Saves!Go, Saves!End, Saves!request,
                           Saves!count, Saves!history, SaveFiles, Workers, InHand, Owners, Hands,
                           Marks, Intervals, Saves!MarkOf, Saves!Read, Saves!Locked,
                           Saves!SaveAssumption
<1>18. ASSUME NEW t \in Thread, Saves!MarkWrite(t) PROVE Intervals'
  BY <1>0, <1>a, <1>18 DEF Saves!MarkWrite, Saves!Begin, Saves!Go, Saves!End, Saves!request,
                           Saves!count, Saves!history, Saves!Release, Saves!Done, Saves!Others,
                           SaveFiles, Workers, InHand, Owners, Hands, Marks, Intervals,
                           Saves!MarkOf, Saves!Read, Saves!Locked, Saves!SaveAssumption
<1>19. ASSUME NEW t \in Thread, Saves!Unlink(t) PROVE Intervals'
  BY <1>0, <1>a, <1>19 DEF Saves!Unlink, Saves!Begin, Saves!Go, Saves!End, Saves!request,
                           Saves!count, Saves!history, Saves!Release, Saves!Done, Saves!Others,
                           SaveFiles, Workers, InHand, Owners, Hands, Marks, Intervals,
                           Saves!MarkOf, Saves!Read, Saves!Locked, Saves!SaveAssumption
<1>20. ASSUME NEW t \in Thread, Saves!Sweep(t) PROVE Intervals'
  BY <1>0, <1>a, <1>20 DEF Saves!Sweep, Saves!Begin, Saves!Go, Saves!End, Saves!request,
                           Saves!count, Saves!history, Saves!Take, Saves!Free, SaveFiles, Workers,
                           InHand, Owners, Hands, Marks, Intervals, Saves!MarkOf, Saves!Read,
                           Saves!Locked, Saves!SaveAssumption
<1>21. ASSUME NEW t \in Thread, Saves!BlLoad(t) PROVE Intervals'
  BY <1>0, <1>a, <1>21 DEF Saves!BlLoad, Saves!Begin, Saves!Go, Saves!End, Saves!request,
                           Saves!count, Saves!history, Saves!Free, SaveFiles, Workers, InHand,
                           Owners, Hands, Marks, Intervals, Saves!MarkOf, Saves!Read,
                           Saves!Locked, Saves!SaveAssumption
<1>22. ASSUME NEW t \in Thread, Saves!BlSkip(t) PROVE Intervals'
  BY <1>0, <1>a, <1>22 DEF Saves!BlSkip, Saves!Begin, Saves!Go, Saves!End, Saves!request,
                           Saves!count, Saves!history, Saves!Free, SaveFiles, Workers, InHand,
                           Owners, Hands, Marks, Intervals, Saves!MarkOf, Saves!Read,
                           Saves!Locked, Saves!SaveAssumption
<1>23. ASSUME NEW t \in Thread, Saves!BlMeta(t) PROVE Intervals'
  BY <1>0, <1>a, <1>23 DEF Saves!BlMeta, Saves!Begin, Saves!Go, Saves!End, Saves!request,
                           Saves!count, Saves!history, Saves!Free, SaveFiles, Workers, InHand,
                           Owners, Hands, Marks, Intervals, Saves!MarkOf, Saves!Read,
                           Saves!Locked, Saves!SaveAssumption
<1>24. CASE Saves!Tick
  BY <1>0, <1>a, <1>24 DEF Saves!Tick, Saves!Begin, Saves!Go, Saves!End, Saves!request,
                           Saves!count, Saves!history, SaveFiles, Workers, InHand, Owners, Hands,
                           Marks, Intervals, Saves!MarkOf, Saves!Read, Saves!Locked,
                           Saves!SaveAssumption
<1>25. CASE Saves!Crash
  BY <1>0, <1>a, <1>25 DEF Saves!Crash, Saves!Begin, Saves!Go, Saves!End, Saves!request,
                           Saves!count, Saves!history, SaveFiles, Workers, InHand, Owners, Hands,
                           Marks, Intervals, Saves!MarkOf, Saves!Read, Saves!Locked,
                           Saves!SaveAssumption
<1>26. CASE UNCHANGED Saves!vars
  BY <1>0, <1>26 DEF Saves!vars, Saves!Begin, Saves!Go, Saves!End, Saves!request, Saves!count,
                     Saves!history, SaveFiles, Workers, InHand, Owners, Hands, Marks, Intervals,
                     Saves!MarkOf, Saves!Read, Saves!Locked, Saves!SaveAssumption
<1> QED BY <1>1, <1>2, <1>3, <1>4, <1>5, <1>6, <1>7, <1>8, <1>9, <1>10, <1>11, <1>12, <1>13,
           <1>14, <1>15, <1>16, <1>17, <1>18, <1>19, <1>20, <1>21, <1>22, <1>23,
           <1>24, <1>25, <1>26 DEF Saves!Next, Saves!Serve

\* Every step keeps the last save, or notes that it was left half done.
LEMMA GoodsStep == SaveInv /\ [Saves!Next]_(Saves!vars) => Goods'
<1> SUFFICES ASSUME SaveInv, [Saves!Next]_(Saves!vars) PROVE Goods'
  OBVIOUS
<1>0. SaveFiles /\ Workers /\ InHand /\ Past /\ Owners /\ Hands /\ UnderLock /\ Goods /\ Marking
  BY DEF SaveInv
<1>a. Saves!SaveAssumption BY SaveConstants
<1>1. ASSUME NEW t \in Thread, NEW a \in SaveAcc, Saves!UploadSave(t, a) PROVE Goods'
  BY <1>0, <1>a, <1>1 DEF Saves!UploadSave, Saves!Begin, Saves!Go, Saves!End, Saves!request,
                          Saves!count, Saves!history, Saves!Free, SaveFiles, Workers, InHand,
                          Past, Owners, Goods, Works, Marking, Saves!Locked, Saves!SaveAssumption
<1>2. ASSUME NEW t \in Thread, NEW a \in SaveAcc, Saves!DownloadSave(t, a) PROVE Goods'
  BY <1>0, <1>a, <1>2 DEF Saves!DownloadSave, Saves!Begin, Saves!Go, Saves!End, Saves!request,
                          Saves!count, Saves!history, Saves!Free, SaveFiles, Workers, InHand,
                          Past, Owners, Goods, Works, Marking, Saves!Locked, Saves!SaveAssumption
<1>3. ASSUME NEW t \in Thread, NEW a \in SaveAcc, Saves!ResetMark(t, a) PROVE Goods'
  BY <1>0, <1>a, <1>3 DEF Saves!ResetMark, Saves!Begin, Saves!Go, Saves!End, Saves!request,
                          Saves!count, Saves!history, SaveFiles, Workers, InHand, Past, Owners,
                          Goods, Works, Marking, Saves!Locked, Saves!SaveAssumption
<1>4. ASSUME NEW t \in Thread, NEW a \in SaveAcc, Saves!DeleteSave(t, a) PROVE Goods'
  BY <1>0, <1>a, <1>4 DEF Saves!DeleteSave, Saves!Begin, Saves!Go, Saves!End, Saves!request,
                          Saves!count, Saves!history, Saves!Free, SaveFiles, Workers, InHand,
                          Past, Owners, Goods, Works, Marking, Saves!Locked, Saves!SaveAssumption
<1>5. ASSUME NEW t \in Thread, NEW a \in SaveAcc, Saves!DeleteAccount(t, a) PROVE Goods'
  BY <1>0, <1>a, <1>5 DEF Saves!DeleteAccount, Saves!Begin, Saves!Go, Saves!End, Saves!request,
                          Saves!count, Saves!history, SaveFiles, Workers, InHand, Past, Owners,
                          Goods, Works, Marking, Saves!Locked, Saves!SaveAssumption
<1>6. ASSUME NEW t \in Thread, NEW a \in SaveAcc, Saves!BlForce(t, a) PROVE Goods'
  BY <1>0, <1>a, <1>6 DEF Saves!BlForce, Saves!Begin, Saves!Go, Saves!End, Saves!request,
                          Saves!count, Saves!history, SaveFiles, Workers, InHand, Past, Owners,
                          Goods, Works, Marking, Saves!Locked, Saves!SaveAssumption
<1>7. ASSUME NEW t \in Thread, Saves!EnsureAccount(t) PROVE Goods'
  BY <1>0, <1>a, <1>7 DEF Saves!EnsureAccount, Saves!Begin, Saves!Go, Saves!End, Saves!request,
                          Saves!count, Saves!history, SaveFiles, Workers, InHand, Past, Owners,
                          Goods, Works, Marking, Saves!Locked, Saves!SaveAssumption
<1>8. ASSUME NEW t \in Thread, Saves!Trunc(t) PROVE Goods'
  BY <1>0, <1>a, <1>8 DEF Saves!Trunc, Saves!Begin, Saves!Go, Saves!End, Saves!request,
                          Saves!count, Saves!history, Saves!Take, Saves!Free, SaveFiles, Workers,
                          InHand, Past, Owners, Goods, Works, Marking, Saves!Locked,
                          Saves!SaveAssumption
<1>9. ASSUME NEW t \in Thread, Saves!WriteSome(t) PROVE Goods'
  BY <1>0, <1>a, <1>9 DEF Saves!WriteSome, Saves!Begin, Saves!Go, Saves!End, Saves!request,
                          Saves!count, Saves!history, SaveFiles, Workers, InHand, Past, Owners,
                          Goods, Works, Marking, Saves!Locked, Saves!SaveAssumption
<1>10. ASSUME NEW t \in Thread, Saves!Write(t) PROVE Goods'
  BY <1>0, <1>a, <1>10 DEF Saves!Write, Saves!Begin, Saves!Go, Saves!End, Saves!request,
                           Saves!count, Saves!history, SaveFiles, Workers, InHand, Past, Owners,
                           Goods, Works, Marking, Saves!Locked, Saves!SaveAssumption
<1>11. ASSUME NEW t \in Thread, Saves!Rename(t) PROVE Goods'
  <2>1. /\ pc[t] = "rename" /\ pc' = [pc EXCEPT ![t] = "idle"] /\ acc' = [acc EXCEPT ![t] = None] /\ acc[t] \in SaveAcc
    BY <1>0, <1>11 DEF Saves!Rename, Saves!End, Workers
  <2>2. \A u \in Thread \ {t} : pc'[u] = pc[u] /\ acc'[u] = acc[u] BY <1>0, <2>1 DEF Workers
  <2>3. SUFFICES ASSUME NEW b \in SaveAcc \ torn', ~Works(b)' PROVE Good(blob[b], meta[b], last[b])'
    BY DEF Goods
  <2>4. CASE b # acc[t]
    <3>1. ~Works(b) BY <2>2, <2>3, <2>4 DEF Works
    <3>2. b \notin torn /\ UNCHANGED <<blob[b], meta[b], last[b]>>
      BY <1>0, <2>4, <1>11 DEF Saves!Rename, Saves!Renamed, SaveFiles, Past
    <3> QED BY <1>0, <3>1, <3>2 DEF Goods, Good, Held, Saves!Read
  <2>5. CASE b = acc[t]
    <3>1. t \in over /\ t \in bl => acc[t] \in torn' BY <1>11 DEF Saves!Rename
    <3>2. ~(t \in over /\ t \in bl) BY <2>3, <2>5, <3>1
    <3>3. /\ val[t].whole /\ kept[t].of = val[t].of
          /\ blob'[b] = blob[b] /\ meta'[b] = kept[t] /\ last'[b] = val[t].of
      BY <1>0, <2>3, <2>5, <3>2, <1>11 DEF Saves!Rename, Saves!Renamed, SaveFiles, Past
    <3>a. blob[b] = val[t] BY <1>0, <2>1, <2>5 DEF UnderLock
    <3>4. val[t] \in Full /\ kept[t].of \in Number BY <1>0, <2>1 DEF Hands
    <3>5. Saves!Read(kept[t]) /\ val[t].of # None
      BY <1>a, <3>3, <3>4 DEF Saves!Read, Saves!Missing, Saves!Cut, Number, Full,
                              Saves!SaveAssumption
    <3>6. val[t] \notin {Saves!Nothing, Saves!Empty} BY <3>5 DEF Saves!Nothing, Saves!Empty
    <3>7. val[t] = [of |-> val[t].of, whole |-> TRUE] BY <3>3, <3>4 DEF Full
    <3> QED BY <3>3, <3>a, <3>5, <3>6, <3>7 DEF Good, Held, Saves!Read
  <2> QED BY <2>4, <2>5
<1>12. ASSUME NEW t \in Thread, Saves!Fail(t) PROVE Goods'
  BY <1>0, <1>a, <1>12 DEF Saves!Fail, Saves!Begin, Saves!Go, Saves!End, Saves!request,
                           Saves!count, Saves!history, Saves!Release, Saves!Done, Saves!Others,
                           SaveFiles, Workers, InHand, Past, Owners, Goods, Works, Marking,
                           Saves!Locked, Saves!SaveAssumption
<1>13. ASSUME NEW t \in Thread, Saves!LoadCloud(t) PROVE Goods'
  BY <1>0, <1>a, <1>13 DEF Saves!LoadCloud, Saves!Begin, Saves!Go, Saves!End, Saves!request,
                           Saves!count, Saves!history, Saves!Free, Saves!Escapes, Saves!Others,
                           SaveFiles, Workers, InHand, Past, Owners, Goods, Works, Marking,
                           Saves!Locked, Saves!SaveAssumption
<1>14. ASSUME NEW t \in Thread, Saves!NoSave(t) PROVE Goods'
  BY <1>0, <1>a, <1>14 DEF Saves!NoSave, Saves!Begin, Saves!Go, Saves!End, Saves!request,
                           Saves!count, Saves!history, Saves!Free, SaveFiles, Workers, InHand,
                           Past, Owners, Goods, Works, Marking, Saves!Locked, Saves!SaveAssumption
<1>15. ASSUME NEW t \in Thread, Saves!MarkRead(t) PROVE Goods'
  BY <1>0, <1>a, <1>15 DEF Saves!MarkRead, Saves!Begin, Saves!Go, Saves!End, Saves!request,
                           Saves!count, Saves!history, Saves!Take, Saves!Free, SaveFiles, Workers,
                           InHand, Past, Owners, Goods, Works, Marking, Saves!Locked,
                           Saves!SaveAssumption
<1>16. ASSUME NEW t \in Thread, Saves!NoMeta(t) PROVE Goods'
  BY <1>0, <1>a, <1>16 DEF Saves!NoMeta, Saves!Begin, Saves!Go, Saves!End, Saves!request,
                           Saves!count, Saves!history, Saves!Free, SaveFiles, Workers, InHand,
                           Past, Owners, Goods, Works, Marking, Saves!Locked, Saves!SaveAssumption
<1>17. ASSUME NEW t \in Thread, Saves!MarkOpen(t) PROVE Goods'
  BY <1>0, <1>a, <1>17 DEF Saves!MarkOpen, Saves!Begin, Saves!Go, Saves!End, Saves!request,
                           Saves!count, Saves!history, SaveFiles, Workers, InHand, Past, Owners,
                           Goods, Works, Marking, Saves!Locked, Saves!SaveAssumption
<1>18. ASSUME NEW t \in Thread, Saves!MarkWrite(t) PROVE Goods'
  <2>1. /\ pc[t] = "remark" /\ pc' = [pc EXCEPT ![t] = "idle"] /\ acc' = [acc EXCEPT ![t] = None] /\ acc[t] \in SaveAcc
    BY <1>0, <1>18 DEF Saves!MarkWrite, Saves!End, Workers
  <2>2. \A u \in Thread \ {t} : pc'[u] = pc[u] /\ acc'[u] = acc[u] BY <1>0, <2>1 DEF Workers
  <2>3. SUFFICES ASSUME NEW b \in SaveAcc \ torn', ~Works(b)' PROVE Good(blob[b], meta[b], last[b])'
    BY DEF Goods
  <2>4. CASE b # acc[t]
    <3>1. ~Works(b) BY <2>2, <2>3, <2>4 DEF Works
    <3>2. b \notin torn /\ UNCHANGED <<blob[b], meta[b], last[b]>>
      BY <1>0, <2>4, <1>18 DEF Saves!MarkWrite, Saves!Renamed, SaveFiles, Past
    <3> QED BY <1>0, <3>1, <3>2 DEF Goods, Good, Held, Saves!Read
  <2>5. CASE b = acc[t]
    <3>1. b \notin torn BY <2>3, <1>18 DEF Saves!MarkWrite
    <3>2. Good(blob[b], kept[t], last[b]) BY <1>0, <2>1, <2>5, <3>1 DEF Marking
    <3>3. meta[b] = Saves!Cut BY <1>0, <2>1, <2>5, <3>1 DEF Marking
    <3>4. meta'[b] = kept[t] /\ UNCHANGED <<blob, last>>
      BY <1>0, <2>5, <3>3, <1>18 DEF Saves!MarkWrite, SaveFiles, Saves!Cut, Saves!Missing
    <3> QED BY <3>2, <3>4 DEF Good, Held, Saves!Read
  <2> QED BY <2>4, <2>5
<1>19. ASSUME NEW t \in Thread, Saves!Unlink(t) PROVE Goods'
  <2>1. /\ pc[t] = "unlink" /\ pc' = [pc EXCEPT ![t] = "idle"] /\ acc' = [acc EXCEPT ![t] = None] /\ acc[t] \in SaveAcc
    BY <1>0, <1>19 DEF Saves!Unlink, Saves!End, Workers
  <2>2. \A u \in Thread \ {t} : pc'[u] = pc[u] /\ acc'[u] = acc[u] BY <1>0, <2>1 DEF Workers
  <2>3. SUFFICES ASSUME NEW b \in SaveAcc \ torn', ~Works(b)' PROVE Good(blob[b], meta[b], last[b])'
    BY DEF Goods
  <2>4. CASE b # acc[t]
    <3>1. ~Works(b) BY <2>2, <2>3, <2>4 DEF Works
    <3>2. b \notin torn /\ UNCHANGED <<blob[b], meta[b], last[b]>>
      BY <1>0, <2>4, <1>19 DEF Saves!Unlink, Saves!Renamed, SaveFiles, Past
    <3> QED BY <1>0, <3>1, <3>2 DEF Goods, Good, Held, Saves!Read
  <2>5. CASE b = acc[t]
    <3>1. meta[b] = Saves!Missing BY <1>0, <2>1, <2>5 DEF UnderLock
    <3>2. blob'[b] = Saves!Nothing /\ last'[b] = None /\ meta'[b] = Saves!Missing
      BY <1>0, <2>5, <3>1, <1>19 DEF Saves!Unlink, SaveFiles, Past
    <3> QED BY <3>2 DEF Good, Held, Saves!Read
  <2> QED BY <2>4, <2>5
<1>20. ASSUME NEW t \in Thread, Saves!Sweep(t) PROVE Goods'
  BY <1>0, <1>a, <1>20 DEF Saves!Sweep, Saves!Begin, Saves!Go, Saves!End, Saves!request,
                           Saves!count, Saves!history, Saves!Take, Saves!Free, SaveFiles, Workers,
                           InHand, Past, Owners, Goods, Works, Marking, Saves!Locked,
                           Saves!SaveAssumption
<1>21. ASSUME NEW t \in Thread, Saves!BlLoad(t) PROVE Goods'
  BY <1>0, <1>a, <1>21 DEF Saves!BlLoad, Saves!Begin, Saves!Go, Saves!End, Saves!request,
                           Saves!count, Saves!history, Saves!Free, SaveFiles, Workers, InHand,
                           Past, Owners, Goods, Works, Marking, Saves!Locked, Saves!SaveAssumption
<1>22. ASSUME NEW t \in Thread, Saves!BlSkip(t) PROVE Goods'
  BY <1>0, <1>a, <1>22 DEF Saves!BlSkip, Saves!Begin, Saves!Go, Saves!End, Saves!request,
                           Saves!count, Saves!history, Saves!Free, SaveFiles, Workers, InHand,
                           Past, Owners, Goods, Works, Marking, Saves!Locked, Saves!SaveAssumption
<1>23. ASSUME NEW t \in Thread, Saves!BlMeta(t) PROVE Goods'
  BY <1>0, <1>a, <1>23 DEF Saves!BlMeta, Saves!Begin, Saves!Go, Saves!End, Saves!request,
                           Saves!count, Saves!history, Saves!Free, SaveFiles, Workers, InHand,
                           Past, Owners, Goods, Works, Marking, Saves!Locked, Saves!SaveAssumption
<1>24. CASE Saves!Tick
  BY <1>0, <1>a, <1>24 DEF Saves!Tick, Saves!Begin, Saves!Go, Saves!End, Saves!request,
                           Saves!count, Saves!history, SaveFiles, Workers, InHand, Past, Owners,
                           Goods, Works, Marking, Saves!Locked, Saves!SaveAssumption
<1>25. CASE Saves!Crash
  BY <1>0, <1>a, <1>25 DEF Saves!Crash, Saves!Begin, Saves!Go, Saves!End, Saves!request,
                           Saves!count, Saves!history, SaveFiles, Workers, InHand, Past, Owners,
                           Goods, Works, Marking, Saves!Locked, Saves!SaveAssumption
<1>26. CASE UNCHANGED Saves!vars
  BY <1>0, <1>26 DEF Saves!vars, Saves!Begin, Saves!Go, Saves!End, Saves!request, Saves!count,
                     Saves!history, SaveFiles, Workers, InHand, Past, Owners, Goods, Works,
                     Marking, Saves!Locked, Saves!SaveAssumption
<1> QED BY <1>1, <1>2, <1>3, <1>4, <1>5, <1>6, <1>7, <1>8, <1>9, <1>10, <1>11, <1>12, <1>13,
           <1>14, <1>15, <1>16, <1>17, <1>18, <1>19, <1>20, <1>21, <1>22, <1>23,
           <1>24, <1>25, <1>26 DEF Saves!Next, Saves!Serve

\* Every step keeps the save in the meta that is being rewritten.
LEMMA MarkingStep == SaveInv /\ [Saves!Next]_(Saves!vars) => Marking'
<1> SUFFICES ASSUME SaveInv, [Saves!Next]_(Saves!vars) PROVE Marking'
  OBVIOUS
<1>0. SaveFiles /\ Workers /\ InHand /\ Past /\ Owners /\ Hands /\ UnderLock /\ Goods /\ Marking
  BY DEF SaveInv
<1>a. Saves!SaveAssumption BY SaveConstants
<1>1. ASSUME NEW t \in Thread, NEW a \in SaveAcc, Saves!UploadSave(t, a) PROVE Marking'
  BY <1>0, <1>a, <1>1 DEF Saves!UploadSave, Saves!Begin, Saves!Go, Saves!End, Saves!request,
                          Saves!count, Saves!history, Saves!Free, SaveFiles, Workers, InHand,
                          Past, Owners, Goods, Works, Marking, Saves!Locked, Saves!SaveAssumption
<1>2. ASSUME NEW t \in Thread, NEW a \in SaveAcc, Saves!DownloadSave(t, a) PROVE Marking'
  BY <1>0, <1>a, <1>2 DEF Saves!DownloadSave, Saves!Begin, Saves!Go, Saves!End, Saves!request,
                          Saves!count, Saves!history, Saves!Free, SaveFiles, Workers, InHand,
                          Past, Owners, Goods, Works, Marking, Saves!Locked, Saves!SaveAssumption
<1>3. ASSUME NEW t \in Thread, NEW a \in SaveAcc, Saves!ResetMark(t, a) PROVE Marking'
  BY <1>0, <1>a, <1>3 DEF Saves!ResetMark, Saves!Begin, Saves!Go, Saves!End, Saves!request,
                          Saves!count, Saves!history, SaveFiles, Workers, InHand, Past, Owners,
                          Goods, Works, Marking, Saves!Locked, Saves!SaveAssumption
<1>4. ASSUME NEW t \in Thread, NEW a \in SaveAcc, Saves!DeleteSave(t, a) PROVE Marking'
  BY <1>0, <1>a, <1>4 DEF Saves!DeleteSave, Saves!Begin, Saves!Go, Saves!End, Saves!request,
                          Saves!count, Saves!history, Saves!Free, SaveFiles, Workers, InHand,
                          Past, Owners, Goods, Works, Marking, Saves!Locked, Saves!SaveAssumption
<1>5. ASSUME NEW t \in Thread, NEW a \in SaveAcc, Saves!DeleteAccount(t, a) PROVE Marking'
  BY <1>0, <1>a, <1>5 DEF Saves!DeleteAccount, Saves!Begin, Saves!Go, Saves!End, Saves!request,
                          Saves!count, Saves!history, SaveFiles, Workers, InHand, Past, Owners,
                          Goods, Works, Marking, Saves!Locked, Saves!SaveAssumption
<1>6. ASSUME NEW t \in Thread, NEW a \in SaveAcc, Saves!BlForce(t, a) PROVE Marking'
  BY <1>0, <1>a, <1>6 DEF Saves!BlForce, Saves!Begin, Saves!Go, Saves!End, Saves!request,
                          Saves!count, Saves!history, SaveFiles, Workers, InHand, Past, Owners,
                          Goods, Works, Marking, Saves!Locked, Saves!SaveAssumption
<1>7. ASSUME NEW t \in Thread, Saves!EnsureAccount(t) PROVE Marking'
  BY <1>0, <1>a, <1>7 DEF Saves!EnsureAccount, Saves!Begin, Saves!Go, Saves!End, Saves!request,
                          Saves!count, Saves!history, SaveFiles, Workers, InHand, Past, Owners,
                          Goods, Works, Marking, Saves!Locked, Saves!SaveAssumption
<1>8. ASSUME NEW t \in Thread, Saves!Trunc(t) PROVE Marking'
  BY <1>0, <1>a, <1>8 DEF Saves!Trunc, Saves!Begin, Saves!Go, Saves!End, Saves!request,
                          Saves!count, Saves!history, Saves!Take, Saves!Free, SaveFiles, Workers,
                          InHand, Past, Owners, Goods, Works, Marking, Saves!Locked,
                          Saves!SaveAssumption
<1>9. ASSUME NEW t \in Thread, Saves!WriteSome(t) PROVE Marking'
  BY <1>0, <1>a, <1>9 DEF Saves!WriteSome, Saves!Begin, Saves!Go, Saves!End, Saves!request,
                          Saves!count, Saves!history, SaveFiles, Workers, InHand, Past, Owners,
                          Goods, Works, Marking, Saves!Locked, Saves!SaveAssumption
<1>10. ASSUME NEW t \in Thread, Saves!Write(t) PROVE Marking'
  BY <1>0, <1>a, <1>10 DEF Saves!Write, Saves!Begin, Saves!Go, Saves!End, Saves!request,
                           Saves!count, Saves!history, SaveFiles, Workers, InHand, Past, Owners,
                           Goods, Works, Marking, Saves!Locked, Saves!SaveAssumption
<1>11. ASSUME NEW t \in Thread, Saves!Rename(t) PROVE Marking'
  BY <1>0, <1>a, <1>11 DEF Saves!Rename, Saves!Begin, Saves!Go, Saves!End, Saves!request,
                           Saves!count, Saves!history, Saves!Release, Saves!Done, Saves!Others,
                           Saves!Renamed, SaveFiles, Workers, InHand, Past, Owners, Goods, Works,
                           Marking, Saves!Locked, Saves!SaveAssumption
<1>12. ASSUME NEW t \in Thread, Saves!Fail(t) PROVE Marking'
  BY <1>0, <1>a, <1>12 DEF Saves!Fail, Saves!Begin, Saves!Go, Saves!End, Saves!request,
                           Saves!count, Saves!history, Saves!Release, Saves!Done, Saves!Others,
                           SaveFiles, Workers, InHand, Past, Owners, Goods, Works, Marking,
                           Saves!Locked, Saves!SaveAssumption
<1>13. ASSUME NEW t \in Thread, Saves!LoadCloud(t) PROVE Marking'
  BY <1>0, <1>a, <1>13 DEF Saves!LoadCloud, Saves!Begin, Saves!Go, Saves!End, Saves!request,
                           Saves!count, Saves!history, Saves!Free, Saves!Escapes, Saves!Others,
                           SaveFiles, Workers, InHand, Past, Owners, Goods, Works, Marking,
                           Saves!Locked, Saves!SaveAssumption
<1>14. ASSUME NEW t \in Thread, Saves!NoSave(t) PROVE Marking'
  BY <1>0, <1>a, <1>14 DEF Saves!NoSave, Saves!Begin, Saves!Go, Saves!End, Saves!request,
                           Saves!count, Saves!history, Saves!Free, SaveFiles, Workers, InHand,
                           Past, Owners, Goods, Works, Marking, Saves!Locked,
                           Saves!SaveAssumption
<1>15. ASSUME NEW t \in Thread, Saves!MarkRead(t) PROVE Marking'
  <2>1. /\ pc[t] = "mark" /\ pc' = [pc EXCEPT ![t] = "open"] /\ acc[t] \in SaveAcc /\ Saves!Free(acc[t])
        /\ UNCHANGED <<acc, blob, meta, last, torn>> /\ Saves!Read(meta[acc[t]])
        /\ kept' = [kept EXCEPT ![t] = [meta[acc[t]] EXCEPT !.down = kept[t].down]]
    BY <1>0, <1>15 DEF Saves!MarkRead, Saves!Go, Saves!Take, Workers, Saves!history
  <2>2. ~Works(acc[t]) BY <1>0, <1>a, <2>1 DEF Works, Owners, Saves!Free, Saves!SaveAssumption
  <2>3. meta[acc[t]] \in [of : Number, down : Clock, body : BOOLEAN]
    BY <1>0, <2>1 DEF SaveFiles, MetaFile, Saves!Read
  <2>4. kept'[t].of = meta[acc[t]].of /\ kept'[t].body = meta[acc[t]].body
    BY <1>0, <2>1, <2>3 DEF InHand
  <2>5. Saves!Read(kept'[t])
    BY <1>a, <2>3, <2>4 DEF Saves!Read, Saves!Missing, Saves!Cut, Number, Saves!SaveAssumption
  <2>6. acc[t] \notin torn => Good(blob[acc[t]], meta[acc[t]], last[acc[t]])
    BY <1>0, <2>1, <2>2 DEF Goods
  <2>7. acc[t] \notin torn => Good(blob[acc[t]], kept'[t], last[acc[t]])
    BY <2>1, <2>4, <2>5, <2>6 DEF Good, Held
  <2>8. pc'[t] = "open" /\ \A u \in Thread \ {t} : pc'[u] = pc[u] /\ kept'[u] = kept[u]
    BY <1>0, <2>1 DEF Workers, InHand
  <2> HIDE DEF Good
  <2>9. SUFFICES ASSUME NEW u \in Thread, pc'[u] \in {"open", "remark"}, acc[u] \notin torn
                 PROVE  /\ Good(blob[acc[u]], kept'[u], last[acc[u]])
                        /\ pc'[u] = "remark" => meta[acc[u]] = Saves!Cut
    BY <2>1 DEF Marking, Good, Held, Saves!Read
  <2>10. CASE u = t BY <2>7, <2>8, <2>9, <2>10
  <2>11. CASE u # t BY <1>0, <2>8, <2>9, <2>11 DEF Marking
  <2> QED BY <2>10, <2>11
<1>16. ASSUME NEW t \in Thread, Saves!NoMeta(t) PROVE Marking'
  BY <1>0, <1>a, <1>16 DEF Saves!NoMeta, Saves!Begin, Saves!Go, Saves!End, Saves!request,
                           Saves!count, Saves!history, Saves!Free, SaveFiles, Workers, InHand,
                           Past, Owners, Goods, Works, Marking, Saves!Locked,
                           Saves!SaveAssumption
<1>17. ASSUME NEW t \in Thread, Saves!MarkOpen(t) PROVE Marking'
  BY <1>0, <1>a, <1>17 DEF Saves!MarkOpen, Saves!Begin, Saves!Go, Saves!End, Saves!request,
                           Saves!count, Saves!history, SaveFiles, Workers, InHand, Past, Owners,
                           Goods, Works, Marking, Saves!Locked, Saves!SaveAssumption
<1>18. ASSUME NEW t \in Thread, Saves!MarkWrite(t) PROVE Marking'
  BY <1>0, <1>a, <1>18 DEF Saves!MarkWrite, Saves!Begin, Saves!Go, Saves!End, Saves!request,
                           Saves!count, Saves!history, Saves!Release, Saves!Done, Saves!Others,
                           SaveFiles, Workers, InHand, Past, Owners, Goods, Works, Marking,
                           Saves!Locked, Saves!SaveAssumption
<1>19. ASSUME NEW t \in Thread, Saves!Unlink(t) PROVE Marking'
  BY <1>0, <1>a, <1>19 DEF Saves!Unlink, Saves!Begin, Saves!Go, Saves!End, Saves!request,
                           Saves!count, Saves!history, Saves!Release, Saves!Done, Saves!Others,
                           SaveFiles, Workers, InHand, Past, Owners, Goods, Works, Marking,
                           Saves!Locked, Saves!SaveAssumption
<1>20. ASSUME NEW t \in Thread, Saves!Sweep(t) PROVE Marking'
  BY <1>0, <1>a, <1>20 DEF Saves!Sweep, Saves!Begin, Saves!Go, Saves!End, Saves!request,
                           Saves!count, Saves!history, Saves!Take, Saves!Free, SaveFiles, Workers,
                           InHand, Past, Owners, Goods, Works, Marking, Saves!Locked,
                           Saves!SaveAssumption
<1>21. ASSUME NEW t \in Thread, Saves!BlLoad(t) PROVE Marking'
  BY <1>0, <1>a, <1>21 DEF Saves!BlLoad, Saves!Begin, Saves!Go, Saves!End, Saves!request,
                           Saves!count, Saves!history, Saves!Free, SaveFiles, Workers, InHand,
                           Past, Owners, Goods, Works, Marking, Saves!Locked,
                           Saves!SaveAssumption
<1>22. ASSUME NEW t \in Thread, Saves!BlSkip(t) PROVE Marking'
  BY <1>0, <1>a, <1>22 DEF Saves!BlSkip, Saves!Begin, Saves!Go, Saves!End, Saves!request,
                           Saves!count, Saves!history, Saves!Free, SaveFiles, Workers, InHand,
                           Past, Owners, Goods, Works, Marking, Saves!Locked,
                           Saves!SaveAssumption
<1>23. ASSUME NEW t \in Thread, Saves!BlMeta(t) PROVE Marking'
  BY <1>0, <1>a, <1>23 DEF Saves!BlMeta, Saves!Begin, Saves!Go, Saves!End, Saves!request,
                           Saves!count, Saves!history, Saves!Free, SaveFiles, Workers, InHand,
                           Past, Owners, Goods, Works, Marking, Saves!Locked,
                           Saves!SaveAssumption
<1>24. CASE Saves!Tick
  BY <1>0, <1>a, <1>24 DEF Saves!Tick, Saves!Begin, Saves!Go, Saves!End, Saves!request,
                           Saves!count, Saves!history, SaveFiles, Workers, InHand, Past, Owners,
                           Goods, Works, Marking, Saves!Locked, Saves!SaveAssumption
<1>25. CASE Saves!Crash
  BY <1>0, <1>a, <1>25 DEF Saves!Crash, Saves!Begin, Saves!Go, Saves!End, Saves!request,
                           Saves!count, Saves!history, SaveFiles, Workers, InHand, Past, Owners,
                           Goods, Works, Marking, Saves!Locked, Saves!SaveAssumption
<1>26. CASE UNCHANGED Saves!vars
  BY <1>0, <1>26 DEF Saves!vars, Saves!Begin, Saves!Go, Saves!End, Saves!request, Saves!count,
                     Saves!history, SaveFiles, Workers, InHand, Past, Owners, Goods, Works,
                     Marking, Saves!Locked, Saves!SaveAssumption
<1> QED BY <1>1, <1>2, <1>3, <1>4, <1>5, <1>6, <1>7, <1>8, <1>9, <1>10, <1>11, <1>12, <1>13,
           <1>14, <1>15, <1>16, <1>17, <1>18, <1>19, <1>20, <1>21, <1>22, <1>23,
           <1>24, <1>25, <1>26 DEF Saves!Next, Saves!Serve

\* Every step keeps all of it.
LEMMA SaveStep == SaveInv /\ [Saves!Next]_(Saves!vars) => SaveInv'
BY SaveFilesStep, WorkersStep, InHandStep, CountsStep, PastStep, OwnersStep, HandsStep, GoodsStep,
   MarkingStep,
   UnderLockStep, AccountsStep, OrphansStep, MarksStep, MarksInHandStep, IntervalsStep DEF SaveInv

\* The saves that are there at first are whole.
LEMMA SaveFirst == Saves!Init => SaveInv
<1> SUFFICES ASSUME Saves!Init PROVE SaveInv
  OBVIOUS
<1>a. Saves!SaveAssumption BY SaveConstants
<1>0. PICK given \in SUBSET SaveAcc :
        /\ blob = [a \in SaveAcc |-> IF a \in given \ Legacy THEN [of |-> 0, whole |-> TRUE] ELSE Saves!Nothing]
        /\ meta = [a \in SaveAcc |-> IF a \in given THEN [of |-> 0, down |-> 0, body |-> a \in Legacy]
                                     ELSE Saves!Missing]
        /\ account = given
        /\ last = [a \in SaveAcc |-> IF a \in given THEN 0 ELSE None]
  BY DEF Saves!Init
<1>1. /\ lock = [s \in {Stripe[a] : a \in SaveAcc} |-> None]
      /\ pc = [t \in Thread |-> "idle"] /\ acc = [t \in Thread |-> None]
      /\ val = [t \in Thread |-> Saves!Nothing] /\ kept = [t \in Thread |-> Saves!Missing]
      /\ bl = {}
      /\ now = 1 /\ requests = 0 /\ faults = 0 /\ crashes = 0
      /\ served = [a \in SaveAcc |-> 0]
      /\ over = {} /\ torn = {} /\ unmarked = {} /\ gone = {}
  BY DEF Saves!Init
<1>2. 0 \in Number /\ 0 \in Clock /\ 1 \in 1..MaxTime /\ 0 \in 0..MaxFaults /\ 0 \in 0..MaxCrashes
  BY <1>a DEF Number, Clock, Saves!SaveAssumption
<1>3. SaveFiles
  <2>1. [of |-> 0, whole |-> TRUE] \in SaveFile /\ Saves!Nothing \in SaveFile
    BY <1>2 DEF SaveFile, Full
  <2>2. Saves!Missing \in MetaFile BY DEF MetaFile
  <2>3. \A b \in BOOLEAN : [of |-> 0, down |-> 0, body |-> b] \in MetaFile BY <1>2 DEF MetaFile
  <2>4. \A a \in SaveAcc : (a \in Legacy) \in BOOLEAN OBVIOUS
  <2>5. \A a \in SaveAcc : [of |-> 0, down |-> 0, body |-> a \in Legacy] \in MetaFile BY <2>3, <2>4
  <2> QED BY <1>0, <2>1, <2>2, <2>5 DEF SaveFiles
<1>4. Workers BY <1>1 DEF Workers
<1>5. InHand
  <2>1. Saves!Missing \in MetaInHand /\ Saves!Nothing \in SaveFile
    BY <1>2 DEF Saves!Missing, MetaInHand, SaveFile
  <2> QED BY <1>1, <2>1 DEF InHand
<1>6. Counts BY <1>1, <1>2 DEF Counts
<1>7. Past BY <1>0, <1>1, <1>2 DEF Past
<1>8. Owners BY <1>1 DEF Owners, Saves!Locked
<1>9. Hands BY <1>1 DEF Hands
<1>10. Goods
  <2> SUFFICES ASSUME NEW a \in SaveAcc PROVE Good(blob[a], meta[a], last[a])
    BY DEF Goods
  <2>1. CASE a \in given \ Legacy
    <3>1. blob[a] = [of |-> 0, whole |-> TRUE] /\ last[a] = 0 /\ 0 # None
      BY <1>0, <1>a, <2>1 DEF Saves!SaveAssumption
    <3>2. meta[a].of = 0 /\ meta[a] \notin {Saves!Missing, Saves!Cut}
      BY <1>0, <2>1, <3>1 DEF Saves!Missing, Saves!Cut
    <3>3. blob[a] \notin {Saves!Nothing, Saves!Empty} BY <3>1 DEF Saves!Nothing, Saves!Empty
    <3> QED BY <3>1, <3>2, <3>3 DEF Good, Held, Saves!Read
  <2>2. CASE a \in given /\ a \in Legacy
    <3>1. blob[a] = Saves!Nothing /\ last[a] = 0 /\ 0 # None
      BY <1>0, <1>a, <2>2 DEF Saves!SaveAssumption
    <3>2. meta[a].of = 0 /\ meta[a] \notin {Saves!Missing, Saves!Cut} /\ meta[a].body
      BY <1>0, <2>2, <3>1 DEF Saves!Missing, Saves!Cut
    <3> QED BY <3>1, <3>2 DEF Good, Held, Saves!Read
  <2>3. CASE a \notin given BY <1>0, <2>3 DEF Good, Held, Saves!Read
  <2> QED BY <2>1, <2>2, <2>3
<1>11. Marking /\ UnderLock /\ Accounts BY <1>1 DEF Marking, UnderLock, Accounts
<1>12. Saves!NoOrphans BY <1>0, <1>1 DEF Saves!NoOrphans
<1>13. Marks BY <1>0, <1>1 DEF Marks, Saves!MarkOf, Saves!Read
<1>14. MarksInHand /\ Intervals BY <1>1 DEF MarksInHand, Intervals
<1> QED BY <1>3, <1>4, <1>5, <1>6, <1>7, <1>8, <1>9, <1>10, <1>11, <1>12, <1>13, <1>14 DEF SaveInv

\* What the properties say follows.
LEMMA SaveShows == SaveInv => Saves!SaveIsTheLast /\ Saves!SavesInOrder
<1> SUFFICES ASSUME SaveInv PROVE Saves!SaveIsTheLast /\ Saves!SavesInOrder
  OBVIOUS
<1>0. /\ SaveFiles /\ Workers /\ InHand /\ Counts /\ Past /\ Owners /\ Goods /\ Saves!NoOrphans
  BY DEF SaveInv
<1>a. Saves!SaveAssumption BY SaveConstants
<1>1. ASSUME NEW a \in SaveAcc, Saves!Sound(a) PROVE Good(blob[a], meta[a], last[a])
  <2>1. ~Works(a)
    BY <1>0, <1>a, <1>1 DEF Saves!Sound, Saves!Free, Works, Owners, Saves!SaveAssumption
  <2> QED BY <1>0, <1>1, <2>1 DEF Goods, Saves!Sound
<1>2. \A a \in SaveAcc : Saves!Load(a) = Held(blob[a], meta[a]) BY DEF Saves!Load, Held
<1>3. Saves!SaveIsTheLast BY <1>1, <1>2 DEF Saves!SaveIsTheLast, Good
<1>4. Saves!MetaDescribesSave
  <2>1. SUFFICES ASSUME NEW a \in SaveAcc, Saves!Sound(a)
                 PROVE  Saves!FindSave(a) = IF Saves!Load(a) = Saves!Nothing THEN None ELSE Saves!Load(a).of
    BY DEF Saves!MetaDescribesSave
  <2>2. Good(blob[a], meta[a], last[a]) BY <1>1, <2>1
  <2>3. Saves!FindSave(a) = last[a] BY <2>2 DEF Good, Saves!FindSave
  <2>4. Saves!Load(a) = IF last[a] = None THEN Saves!Nothing ELSE [of |-> last[a], whole |-> TRUE]
    BY <1>2, <2>2 DEF Good
  <2>5. [of |-> last[a], whole |-> TRUE] # Saves!Nothing BY DEF Saves!Nothing
  <2> QED BY <2>3, <2>4, <2>5
<1>5. Saves!TypeOK
  <2>1. blob \in [SaveAcc -> Saves!Blob]
    BY <1>0 DEF SaveFiles, SaveFile, Full, Number, Saves!Blob, Saves!Save
  <2>2. meta \in [SaveAcc -> Saves!Meta] BY <1>0 DEF SaveFiles, MetaFile, Number, Clock,
                                                     Saves!Meta, Saves!Save
  <2>3. val \in [Thread -> Saves!Blob]
    BY <1>0 DEF InHand, SaveFile, Full, Number, Saves!Blob, Saves!Save
  <2>4. kept \in [Thread -> [of : Saves!Save \cup {None}, down : 0..MaxTime, body : BOOLEAN]]
    BY <1>0 DEF InHand, MetaInHand, Number, Clock, Saves!Save
  <2>5. /\ now \in 1..MaxTime /\ requests \in Saves!Save /\ faults \in 0..MaxFaults /\ crashes \in 0..MaxCrashes
        /\ last \in [SaveAcc -> Saves!Save \cup {None}] /\ served \in [SaveAcc -> 0..MaxTime]
        /\ account \subseteq SaveAcc /\ bl \subseteq Thread /\ over \subseteq Thread
        /\ torn \cup unmarked \cup gone \subseteq SaveAcc
    BY <1>0 DEF Counts, Past, Number, Clock, Saves!Save
  <2>6. /\ lock \in [{Stripe[a] : a \in SaveAcc} -> Thread \cup {None}]
        /\ pc \in [Thread -> Saves!Locked \cup {"idle", "ensure", "trunc", "load", "mark", "sweep",
                                              "reload", "remeta"}]
        /\ acc \in [Thread -> SaveAcc \cup {None}]
    BY <1>0 DEF Workers
  <2>7. \A t \in Thread : pc[t] \in Saves!Locked => lock[Stripe[acc[t]]] = t BY <1>0 DEF Owners
  <2> QED BY <2>1, <2>2, <2>3, <2>4, <2>5, <2>6, <2>7 DEF Saves!TypeOK
<1> QED BY <1>0, <1>3, <1>4, <1>5 DEF Saves!SavesInOrder

\* A download that begins keeps its distance to the last one.
Distance ==
  \A t \in Thread : pc[t] = "load" /\ pc'[t] = "mark" =>
    \/ acc[t] \in Exempt \/ served[acc[t]] = 0 \/ served[acc[t]] + Week <= kept[t].down
    \/ t \in over \/ acc[t] \in unmarked
\* The intervals that the invariant bounds are those of the property.
LEMMA KeepsDistance == SaveInv => Distance
BY DEF SaveInv, Intervals, Distance

-----------------------------------------------------------------------------
(* The list of forced accounts.                                            *)

ListFiles ==
  /\ file \in [accs : SUBSET ListAcc, time : 1..blNow] /\ list \in [accs : SUBSET ListAcc, time : 0..blNow]
  /\ save \in [ListAcc -> {"none", "plain", "marked"}]
  /\ blNow \in 1..ListTime /\ edits \in 0..MaxEdits /\ blFaults \in 0..ListFaults /\ blCrashes \in 0..ListCrashes
ListWorkers ==
  /\ blPc \in [Thread -> {"idle", "persist", "stamp", "saves", "write"}]
  /\ blAcc \in [Thread -> ListAcc \cup {None}] /\ forced \in [Thread -> BOOLEAN]
  /\ blBlob \in [Thread -> {"none", "plain", "marked"}]
  /\ blLock \in Thread \cup {None}
ListPast ==
  /\ want \in [ListAcc -> BOOLEAN] /\ raced \subseteq ListAcc /\ exempt \subseteq ListAcc /\ apart \in BOOLEAN

\* Who holds g_bl_force_mu, and what a request is about at each step.
ListOwners ==
  \A t \in Thread :
    /\ blPc[t] \in {"persist", "stamp"} <=> blLock = t
    /\ blPc[t] = "idle" <=> blAcc[t] = None
    /\ forced[t] => blPc[t] # "idle"
    /\ forced[t] /\ blPc[t] = "write" => blBlob[t] = "marked"

\* Memory has the file's accounts when the times agree, but for what apart notes.
TimesTell == blLock = None /\ ~apart /\ list.time = file.time => list.accs = file.accs

\* The list that will be written has one change, but for the operator's.
OneChange ==
  \A t \in Thread : blPc[t] = "persist" =>
    \A x \in ListAcc :
      IF x = blAcc[t] THEN (x \in list.accs) = forced[t]
      ELSE x \notin raced => (x \in list.accs) = (x \in file.accs)

\* Accounts that are in the file, or will be again.
Listed == file.accs \cup {x \in list.accs : \E t \in Thread : blPc[t] = "persist" /\ x # blAcc[t]}
\* No upload that was found not forced will be written over a mark.
NoPlain == \A x \in Listed \ exempt : List!Plain(x) = {}
\* Who finds the saves not marked will mark them.
Marker(t, x) == blAcc[t] = x /\ forced[t] /\ blPc[t] \in {"stamp", "saves", "write"}
Marked == \A x \in Listed \ exempt : save[x] = "plain" => \E t \in Thread : Marker(t, x)

ListInv ==
  /\ ListFiles /\ ListWorkers /\ ListPast /\ ListOwners /\ TimesTell /\ OneChange
  /\ List!ChangesStay /\ NoPlain /\ Marked

\* Every step keeps the types of the files and counts.
LEMMA ListFilesStep == ListInv /\ [List!Next]_(List!vars) => ListFiles'
<1> SUFFICES ASSUME ListInv, [List!Next]_(List!vars) PROVE ListFiles'
  OBVIOUS
<1>0. ListFiles /\ ListWorkers BY DEF ListInv
<1>a. List!BlForceAssumption BY ListConstants
<1>1. ASSUME NEW t \in Thread, List!Persist(t) PROVE ListFiles'
  BY <1>0, <1>a, <1>1 DEF List!Persist, List!Go, List!Start, List!End, List!Hold, List!Rewrites,
                          List!Loaded, List!Reloaded, List!Fresh, List!request, List!count,
                          List!history, ListFiles, ListWorkers, List!BlForceAssumption
<1>2. ASSUME NEW t \in Thread, List!PersistFails(t) PROVE ListFiles'
  BY <1>0, <1>a, <1>2 DEF List!PersistFails, List!Go, List!Start, List!End, List!Hold,
                          List!Rewrites, List!Loaded, List!Reloaded, List!Fresh, List!request,
                          List!count, List!history, ListFiles, ListWorkers, List!BlForceAssumption
<1>3. ASSUME NEW t \in Thread, List!Stamp(t) PROVE ListFiles'
  BY <1>0, <1>a, <1>3 DEF List!Stamp, List!Go, List!Start, List!End, List!Hold, List!Rewrites,
                          List!Loaded, List!Reloaded, List!Fresh, List!request, List!count,
                          List!history, ListFiles, ListWorkers, List!BlForceAssumption
<1>4. ASSUME NEW t \in Thread, List!LoadSave(t) PROVE ListFiles'
  BY <1>0, <1>a, <1>4 DEF List!LoadSave, List!Go, List!Start, List!End, List!Hold, List!Rewrites,
                          List!Loaded, List!Reloaded, List!Fresh, List!request, List!count,
                          List!history, ListFiles, ListWorkers, List!BlForceAssumption
<1>5. ASSUME NEW t \in Thread, List!NoSaves(t) PROVE ListFiles'
  BY <1>0, <1>a, <1>5 DEF List!NoSaves, List!Go, List!Start, List!End, List!Hold, List!Rewrites,
                          List!Loaded, List!Reloaded, List!Fresh, List!request, List!count,
                          List!history, ListFiles, ListWorkers, List!BlForceAssumption
<1>6. ASSUME NEW t \in Thread, List!WriteSave(t) PROVE ListFiles'
  BY <1>0, <1>a, <1>6 DEF List!WriteSave, List!Go, List!Start, List!End, List!Hold, List!Rewrites,
                          List!Loaded, List!Reloaded, List!Fresh, List!request, List!count,
                          List!history, ListFiles, ListWorkers, List!BlForceAssumption
<1>7. ASSUME NEW t \in Thread, List!SaveFails(t) PROVE ListFiles'
  BY <1>0, <1>a, <1>7 DEF List!SaveFails, List!Go, List!Start, List!End, List!Hold, List!Rewrites,
                          List!Loaded, List!Reloaded, List!Fresh, List!request, List!count,
                          List!history, ListFiles, ListWorkers, List!BlForceAssumption
<1>8. ASSUME NEW t \in Thread, NEW x \in ListAcc, List!Upload(t, x) PROVE ListFiles'
  BY <1>0, <1>a, <1>8 DEF List!Upload, List!Go, List!Start, List!End, List!Hold, List!Rewrites,
                          List!Loaded, List!Reloaded, List!Fresh, List!request, List!count,
                          List!history, ListFiles, ListWorkers, List!BlForceAssumption
<1>9. ASSUME NEW t \in Thread, NEW x \in ListAcc, NEW sent \in {"plain", "marked"}, List!UploadAsSent(t, x, sent) PROVE ListFiles'
  BY <1>0, <1>a, <1>9 DEF List!UploadAsSent, List!Go, List!Start, List!End, List!Hold,
                          List!Rewrites, List!Loaded, List!Reloaded, List!Fresh, List!request,
                          List!count, List!history, ListFiles, ListWorkers, List!BlForceAssumption
<1>10. ASSUME NEW t \in Thread, NEW x \in ListAcc, NEW f \in BOOLEAN, List!SetForced(t, x, f) PROVE ListFiles'
  BY <1>0, <1>a, <1>10 DEF List!SetForced, List!Go, List!Start, List!End, List!Hold,
                           List!Rewrites, List!Loaded, List!Reloaded, List!Fresh, List!request,
                           List!count, List!history, ListFiles, ListWorkers, List!BlForceAssumption
<1>11. ASSUME NEW accs \in SUBSET ListAcc, List!EditFile(accs) PROVE ListFiles'
  BY <1>0, <1>a, <1>11 DEF List!EditFile, List!Go, List!Start, List!End, List!Hold, List!Rewrites,
                           List!Loaded, List!Reloaded, List!Fresh, List!request, List!count,
                           List!history, ListFiles, ListWorkers, List!BlForceAssumption
<1>12. CASE List!Tick
  BY <1>0, <1>a, <1>12 DEF List!Tick, List!Go, List!Start, List!End, List!Hold, List!Rewrites,
                           List!Loaded, List!Reloaded, List!Fresh, List!request, List!count,
                           List!history, ListFiles, ListWorkers, List!BlForceAssumption
<1>13. CASE List!Restart
  BY <1>0, <1>a, <1>13 DEF List!Restart, List!Go, List!Start, List!End, List!Hold, List!Rewrites,
                           List!Loaded, List!Reloaded, List!Fresh, List!request, List!count,
                           List!history, ListFiles, ListWorkers, List!BlForceAssumption
<1>14. CASE UNCHANGED List!vars
  BY <1>0, <1>14 DEF List!vars, List!Go, List!Start, List!End, List!Hold, List!Rewrites,
                     List!Loaded, List!Reloaded, List!Fresh, List!request, List!count,
                     List!history, ListFiles, ListWorkers, List!BlForceAssumption
<1> QED BY <1>1, <1>2, <1>3, <1>4, <1>5, <1>6, <1>7, <1>8, <1>9, <1>10, <1>11, <1>12, <1>13,
           <1>14 DEF List!Next

\* Every step keeps the types of the requests.
LEMMA ListWorkersStep == ListInv /\ [List!Next]_(List!vars) => ListWorkers'
<1> SUFFICES ASSUME ListInv, [List!Next]_(List!vars) PROVE ListWorkers'
  OBVIOUS
<1>0. ListFiles /\ ListWorkers BY DEF ListInv
<1>a. List!BlForceAssumption BY ListConstants
<1>1. ASSUME NEW t \in Thread, List!Persist(t) PROVE ListWorkers'
  BY <1>0, <1>a, <1>1 DEF List!Persist, List!Go, List!Start, List!End, List!Hold, List!Rewrites,
                          List!Loaded, List!Reloaded, List!Fresh, List!request, List!count,
                          List!history, ListWorkers
<1>2. ASSUME NEW t \in Thread, List!PersistFails(t) PROVE ListWorkers'
  BY <1>0, <1>a, <1>2 DEF List!PersistFails, List!Go, List!Start, List!End, List!Hold,
                          List!Rewrites, List!Loaded, List!Reloaded, List!Fresh, List!request,
                          List!count, List!history, ListWorkers
<1>3. ASSUME NEW t \in Thread, List!Stamp(t) PROVE ListWorkers'
  BY <1>0, <1>a, <1>3 DEF List!Stamp, List!Go, List!Start, List!End, List!Hold, List!Rewrites,
                          List!Loaded, List!Reloaded, List!Fresh, List!request, List!count,
                          List!history, ListWorkers
<1>4. ASSUME NEW t \in Thread, List!LoadSave(t) PROVE ListWorkers'
  BY <1>0, <1>a, <1>4 DEF List!LoadSave, List!Go, List!Start, List!End, List!Hold, List!Rewrites,
                          List!Loaded, List!Reloaded, List!Fresh, List!request, List!count,
                          List!history, ListWorkers
<1>5. ASSUME NEW t \in Thread, List!NoSaves(t) PROVE ListWorkers'
  BY <1>0, <1>a, <1>5 DEF List!NoSaves, List!Go, List!Start, List!End, List!Hold, List!Rewrites,
                          List!Loaded, List!Reloaded, List!Fresh, List!request, List!count,
                          List!history, ListWorkers
<1>6. ASSUME NEW t \in Thread, List!WriteSave(t) PROVE ListWorkers'
  BY <1>0, <1>a, <1>6 DEF List!WriteSave, List!Go, List!Start, List!End, List!Hold, List!Rewrites,
                          List!Loaded, List!Reloaded, List!Fresh, List!request, List!count,
                          List!history, ListWorkers
<1>7. ASSUME NEW t \in Thread, List!SaveFails(t) PROVE ListWorkers'
  BY <1>0, <1>a, <1>7 DEF List!SaveFails, List!Go, List!Start, List!End, List!Hold, List!Rewrites,
                          List!Loaded, List!Reloaded, List!Fresh, List!request, List!count,
                          List!history, ListWorkers
<1>8. ASSUME NEW t \in Thread, NEW x \in ListAcc, List!Upload(t, x) PROVE ListWorkers'
  BY <1>0, <1>a, <1>8 DEF List!Upload, List!Go, List!Start, List!End, List!Hold, List!Rewrites,
                          List!Loaded, List!Reloaded, List!Fresh, List!request, List!count,
                          List!history, ListWorkers
<1>9. ASSUME NEW t \in Thread, NEW x \in ListAcc, NEW sent \in {"plain", "marked"}, List!UploadAsSent(t, x, sent) PROVE ListWorkers'
  BY <1>0, <1>a, <1>9 DEF List!UploadAsSent, List!Go, List!Start, List!End, List!Hold,
                          List!Rewrites, List!Loaded, List!Reloaded, List!Fresh, List!request,
                          List!count, List!history, ListWorkers
<1>10. ASSUME NEW t \in Thread, NEW x \in ListAcc, NEW f \in BOOLEAN, List!SetForced(t, x, f) PROVE ListWorkers'
  BY <1>0, <1>a, <1>10 DEF List!SetForced, List!Go, List!Start, List!End, List!Hold,
                           List!Rewrites, List!Loaded, List!Reloaded, List!Fresh, List!request,
                           List!count, List!history, ListWorkers
<1>11. ASSUME NEW accs \in SUBSET ListAcc, List!EditFile(accs) PROVE ListWorkers'
  BY <1>0, <1>a, <1>11 DEF List!EditFile, List!Go, List!Start, List!End, List!Hold, List!Rewrites,
                           List!Loaded, List!Reloaded, List!Fresh, List!request, List!count,
                           List!history, ListWorkers
<1>12. CASE List!Tick
  BY <1>0, <1>a, <1>12 DEF List!Tick, List!Go, List!Start, List!End, List!Hold, List!Rewrites,
                           List!Loaded, List!Reloaded, List!Fresh, List!request, List!count,
                           List!history, ListWorkers
<1>13. CASE List!Restart
  BY <1>0, <1>a, <1>13 DEF List!Restart, List!Go, List!Start, List!End, List!Hold, List!Rewrites,
                           List!Loaded, List!Reloaded, List!Fresh, List!request, List!count,
                           List!history, ListWorkers
<1>14. CASE UNCHANGED List!vars
  BY <1>0, <1>14 DEF List!vars, List!Go, List!Start, List!End, List!Hold, List!Rewrites,
                     List!Loaded, List!Reloaded, List!Fresh, List!request, List!count,
                     List!history, ListWorkers
<1> QED BY <1>1, <1>2, <1>3, <1>4, <1>5, <1>6, <1>7, <1>8, <1>9, <1>10, <1>11, <1>12, <1>13,
           <1>14 DEF List!Next

\* Every step keeps the types of the histories.
LEMMA ListPastStep == ListInv /\ [List!Next]_(List!vars) => ListPast'
<1> SUFFICES ASSUME ListInv, [List!Next]_(List!vars) PROVE ListPast'
  OBVIOUS
<1>0. ListFiles /\ ListWorkers /\ ListPast /\ ListOwners BY DEF ListInv
<1>a. List!BlForceAssumption BY ListConstants
<1>1. ASSUME NEW t \in Thread, List!Persist(t) PROVE ListPast'
  <2>1. /\ blAcc[t] \in ListAcc \cup {None} /\ forced[t] \in BOOLEAN /\ want \in [ListAcc -> BOOLEAN]
        /\ exempt \subseteq ListAcc
    BY <1>0 DEF ListWorkers, ListPast
  <2>2. want' = [want EXCEPT ![blAcc[t]] = forced[t]] /\ UNCHANGED <<raced, apart>>
    BY <1>1 DEF List!Persist, List!history
  <2>3. exempt' \subseteq exempt \cup {blAcc[t]} /\ (exempt' # exempt => forced[t])
    BY <1>1 DEF List!Persist
  <2>4. forced[t] => blAcc[t] \in ListAcc BY <1>0, <1>1 DEF ListOwners, ListWorkers, List!Persist
  <2>5. want' \in [ListAcc -> BOOLEAN] BY <2>1, <2>2
  <2> QED BY <1>0, <2>1, <2>2, <2>3, <2>4, <2>5 DEF ListPast
<1>2. ASSUME NEW t \in Thread, List!PersistFails(t) PROVE ListPast'
  BY <1>0, <1>a, <1>2 DEF List!PersistFails, List!Go, List!Start, List!End, List!Hold,
                          List!Rewrites, List!Loaded, List!Reloaded, List!Fresh, List!request,
                          List!count, List!history, ListFiles, ListWorkers, ListPast, ListOwners,
                          List!Plain
<1>3. ASSUME NEW t \in Thread, List!Stamp(t) PROVE ListPast'
  BY <1>0, <1>a, <1>3 DEF List!Stamp, List!Go, List!Start, List!End, List!Hold, List!Rewrites,
                          List!Loaded, List!Reloaded, List!Fresh, List!request, List!count,
                          List!history, ListFiles, ListWorkers, ListPast, ListOwners, List!Plain
<1>4. ASSUME NEW t \in Thread, List!LoadSave(t) PROVE ListPast'
  BY <1>0, <1>a, <1>4 DEF List!LoadSave, List!Go, List!Start, List!End, List!Hold, List!Rewrites,
                          List!Loaded, List!Reloaded, List!Fresh, List!request, List!count,
                          List!history, ListFiles, ListWorkers, ListPast, ListOwners, List!Plain
<1>5. ASSUME NEW t \in Thread, List!NoSaves(t) PROVE ListPast'
  BY <1>0, <1>a, <1>5 DEF List!NoSaves, List!Go, List!Start, List!End, List!Hold, List!Rewrites,
                          List!Loaded, List!Reloaded, List!Fresh, List!request, List!count,
                          List!history, ListFiles, ListWorkers, ListPast, ListOwners, List!Plain
<1>6. ASSUME NEW t \in Thread, List!WriteSave(t) PROVE ListPast'
  BY <1>0, <1>a, <1>6 DEF List!WriteSave, List!Go, List!Start, List!End, List!Hold, List!Rewrites,
                          List!Loaded, List!Reloaded, List!Fresh, List!request, List!count,
                          List!history, ListFiles, ListWorkers, ListPast, ListOwners, List!Plain
<1>7. ASSUME NEW t \in Thread, List!SaveFails(t) PROVE ListPast'
  <2>1. exempt' \subseteq exempt \cup {blAcc[t]} /\ (exempt' # exempt => forced[t]) /\ UNCHANGED <<want, raced, apart>>
    BY <1>7 DEF List!SaveFails
  <2>2. forced[t] => blAcc[t] \in ListAcc
    BY <1>0, <1>a DEF ListOwners, ListWorkers, List!BlForceAssumption
  <2> QED BY <1>0, <2>1, <2>2 DEF ListPast
<1>8. ASSUME NEW t \in Thread, NEW x \in ListAcc, List!Upload(t, x) PROVE ListPast'
  BY <1>0, <1>a, <1>8 DEF List!Upload, List!Go, List!Start, List!End, List!Hold, List!Rewrites,
                          List!Loaded, List!Reloaded, List!Fresh, List!request, List!count,
                          List!history, ListFiles, ListWorkers, ListPast, ListOwners, List!Plain
<1>9. ASSUME NEW t \in Thread, NEW x \in ListAcc, NEW sent \in {"plain", "marked"}, List!UploadAsSent(t, x, sent) PROVE ListPast'
  BY <1>0, <1>a, <1>9 DEF List!UploadAsSent, List!Go, List!Start, List!End, List!Hold,
                          List!Rewrites, List!Loaded, List!Reloaded, List!Fresh, List!request,
                          List!count, List!history, ListFiles, ListWorkers, ListPast, ListOwners,
                          List!Plain
<1>10. ASSUME NEW t \in Thread, NEW x \in ListAcc, NEW f \in BOOLEAN, List!SetForced(t, x, f) PROVE ListPast'
  BY <1>0, <1>a, <1>10 DEF List!SetForced, List!Go, List!Start, List!End, List!Hold,
                           List!Rewrites, List!Loaded, List!Reloaded, List!Fresh, List!request,
                           List!count, List!history, ListFiles, ListWorkers, ListPast, ListOwners,
                           List!Plain
<1>11. ASSUME NEW accs \in SUBSET ListAcc, List!EditFile(accs) PROVE ListPast'
  <2>1. /\ want' \in [ListAcc -> BOOLEAN] /\ exempt' \subseteq exempt \cup ListAcc
        /\ raced' \subseteq raced \cup ListAcc /\ apart' \in BOOLEAN
    <3>1. \A y \in ListAcc : want[y] \in BOOLEAN BY <1>0 DEF ListPast
    <3> DEFINE changed == {y \in ListAcc : (y \in accs) # (y \in file.accs)}
               wanted(y) == IF y \in changed THEN y \in accs ELSE want[y]
    <3>w. want' = [y \in ListAcc |-> wanted(y)] BY <1>11 DEF List!EditFile
    <3>n. \A y \in ListAcc : wanted(y) \in BOOLEAN
      <4>1. SUFFICES ASSUME NEW y \in ListAcc PROVE wanted(y) \in BOOLEAN OBVIOUS
      <4>2. CASE y \in changed
        <5>1. CASE y \in accs
          <6>1. wanted(y) = TRUE BY <4>2, <5>1
          <6> QED BY <6>1
        <5>2. CASE y \notin accs
          <6>1. wanted(y) = FALSE BY <4>2, <5>2
          <6> QED BY <6>1
        <5> QED BY <5>1, <5>2
      <4>3. CASE y \notin changed
        <5>1. wanted(y) = want[y] BY <4>3, Zenon
        <5> QED BY <3>1, <5>1
      <4> QED BY <4>2, <4>3
    <3> HIDE DEF wanted
    <3>2. want' \in [ListAcc -> BOOLEAN] BY <3>w, <3>n, Zenon
    <3>3. apart' \in BOOLEAN BY <1>0, <1>11 DEF List!EditFile, ListPast
    <3>4. exempt' \subseteq exempt \cup ListAcc BY <1>11 DEF List!EditFile
    <3>5. raced' \subseteq raced \cup ListAcc BY <1>11 DEF List!EditFile
    <3> QED BY <3>2, <3>3, <3>4, <3>5
  <2> QED BY <1>0, <2>1 DEF ListPast
<1>12. CASE List!Tick
  BY <1>0, <1>a, <1>12 DEF List!Tick, List!Go, List!Start, List!End, List!Hold, List!Rewrites,
                           List!Loaded, List!Reloaded, List!Fresh, List!request, List!count,
                           List!history, ListFiles, ListWorkers, ListPast, ListOwners, List!Plain
<1>13. CASE List!Restart
  <2>1. /\ exempt' = exempt \cup {blAcc[t] : t \in {u \in Thread : forced[u]}}
        /\ apart' = FALSE /\ UNCHANGED <<want, raced>>
    BY <1>13 DEF List!Restart
  <2>2. \A t \in Thread : forced[t] => blAcc[t] \in ListAcc
    BY <1>0, <1>a DEF ListOwners, ListWorkers, List!BlForceAssumption
  <2> QED BY <1>0, <2>1, <2>2 DEF ListPast
<1>14. CASE UNCHANGED List!vars
  BY <1>0, <1>14 DEF List!vars, List!Go, List!Start, List!End, List!Hold, List!Rewrites,
                     List!Loaded, List!Reloaded, List!Fresh, List!request, List!count,
                     List!history, ListFiles, ListWorkers, ListPast, ListOwners, List!Plain
<1> QED BY <1>1, <1>2, <1>3, <1>4, <1>5, <1>6, <1>7, <1>8, <1>9, <1>10, <1>11, <1>12, <1>13,
           <1>14 DEF List!Next

\* Every step keeps who holds g_bl_force_mu.
LEMMA ListOwnersStep == ListInv /\ [List!Next]_(List!vars) => ListOwners'
<1> SUFFICES ASSUME ListInv, [List!Next]_(List!vars) PROVE ListOwners'
  OBVIOUS
<1>0. ListWorkers /\ ListOwners BY DEF ListInv
<1>a. List!BlForceAssumption BY ListConstants
<1>1. ASSUME NEW t \in Thread, List!Persist(t) PROVE ListOwners'
  BY <1>0, <1>a, <1>1 DEF List!Persist, List!Go, List!Start, List!End, List!Hold, List!Rewrites,
                          List!Loaded, List!Reloaded, List!Fresh, List!request, List!count,
                          List!history, ListWorkers, ListOwners, List!BlForceAssumption
<1>2. ASSUME NEW t \in Thread, List!PersistFails(t) PROVE ListOwners'
  BY <1>0, <1>a, <1>2 DEF List!PersistFails, List!Go, List!Start, List!End, List!Hold,
                          List!Rewrites, List!Loaded, List!Reloaded, List!Fresh, List!request,
                          List!count, List!history, ListWorkers, ListOwners, List!BlForceAssumption
<1>3. ASSUME NEW t \in Thread, List!Stamp(t) PROVE ListOwners'
  BY <1>0, <1>a, <1>3 DEF List!Stamp, List!Go, List!Start, List!End, List!Hold, List!Rewrites,
                          List!Loaded, List!Reloaded, List!Fresh, List!request, List!count,
                          List!history, ListWorkers, ListOwners, List!BlForceAssumption
<1>4. ASSUME NEW t \in Thread, List!LoadSave(t) PROVE ListOwners'
  BY <1>0, <1>a, <1>4 DEF List!LoadSave, List!Go, List!Start, List!End, List!Hold, List!Rewrites,
                          List!Loaded, List!Reloaded, List!Fresh, List!request, List!count,
                          List!history, ListWorkers, ListOwners, List!BlForceAssumption
<1>5. ASSUME NEW t \in Thread, List!NoSaves(t) PROVE ListOwners'
  BY <1>0, <1>a, <1>5 DEF List!NoSaves, List!Go, List!Start, List!End, List!Hold, List!Rewrites,
                          List!Loaded, List!Reloaded, List!Fresh, List!request, List!count,
                          List!history, ListWorkers, ListOwners, List!BlForceAssumption
<1>6. ASSUME NEW t \in Thread, List!WriteSave(t) PROVE ListOwners'
  BY <1>0, <1>a, <1>6 DEF List!WriteSave, List!Go, List!Start, List!End, List!Hold, List!Rewrites,
                          List!Loaded, List!Reloaded, List!Fresh, List!request, List!count,
                          List!history, ListWorkers, ListOwners, List!BlForceAssumption
<1>7. ASSUME NEW t \in Thread, List!SaveFails(t) PROVE ListOwners'
  BY <1>0, <1>a, <1>7 DEF List!SaveFails, List!Go, List!Start, List!End, List!Hold, List!Rewrites,
                          List!Loaded, List!Reloaded, List!Fresh, List!request, List!count,
                          List!history, ListWorkers, ListOwners, List!BlForceAssumption
<1>8. ASSUME NEW t \in Thread, NEW x \in ListAcc, List!Upload(t, x) PROVE ListOwners'
  BY <1>0, <1>a, <1>8 DEF List!Upload, List!Go, List!Start, List!End, List!Hold, List!Rewrites,
                          List!Loaded, List!Reloaded, List!Fresh, List!request, List!count,
                          List!history, ListWorkers, ListOwners, List!BlForceAssumption
<1>9. ASSUME NEW t \in Thread, NEW x \in ListAcc, NEW sent \in {"plain", "marked"}, List!UploadAsSent(t, x, sent) PROVE ListOwners'
  BY <1>0, <1>a, <1>9 DEF List!UploadAsSent, List!Go, List!Start, List!End, List!Hold,
                          List!Rewrites, List!Loaded, List!Reloaded, List!Fresh, List!request,
                          List!count, List!history, ListWorkers, ListOwners, List!BlForceAssumption
<1>10. ASSUME NEW t \in Thread, NEW x \in ListAcc, NEW f \in BOOLEAN, List!SetForced(t, x, f) PROVE ListOwners'
  BY <1>0, <1>a, <1>10 DEF List!SetForced, List!Go, List!Start, List!End, List!Hold,
                           List!Rewrites, List!Loaded, List!Reloaded, List!Fresh, List!request,
                           List!count, List!history, ListWorkers, ListOwners, List!BlForceAssumption
<1>11. ASSUME NEW accs \in SUBSET ListAcc, List!EditFile(accs) PROVE ListOwners'
  BY <1>0, <1>a, <1>11 DEF List!EditFile, List!Go, List!Start, List!End, List!Hold, List!Rewrites,
                           List!Loaded, List!Reloaded, List!Fresh, List!request, List!count,
                           List!history, ListWorkers, ListOwners, List!BlForceAssumption
<1>12. CASE List!Tick
  BY <1>0, <1>a, <1>12 DEF List!Tick, List!Go, List!Start, List!End, List!Hold, List!Rewrites,
                           List!Loaded, List!Reloaded, List!Fresh, List!request, List!count,
                           List!history, ListWorkers, ListOwners, List!BlForceAssumption
<1>13. CASE List!Restart
  BY <1>0, <1>a, <1>13 DEF List!Restart, List!Go, List!Start, List!End, List!Hold, List!Rewrites,
                           List!Loaded, List!Reloaded, List!Fresh, List!request, List!count,
                           List!history, ListWorkers, ListOwners, List!BlForceAssumption
<1>14. CASE UNCHANGED List!vars
  BY <1>0, <1>14 DEF List!vars, List!Go, List!Start, List!End, List!Hold, List!Rewrites,
                     List!Loaded, List!Reloaded, List!Fresh, List!request, List!count,
                     List!history, ListWorkers, ListOwners, List!BlForceAssumption
<1> QED BY <1>1, <1>2, <1>3, <1>4, <1>5, <1>6, <1>7, <1>8, <1>9, <1>10, <1>11, <1>12, <1>13,
           <1>14 DEF List!Next

\* Every step keeps what the times tell.
LEMMA TimesTellStep == ListInv /\ [List!Next]_(List!vars) => TimesTell'
<1> SUFFICES ASSUME ListInv, [List!Next]_(List!vars) PROVE TimesTell'
  OBVIOUS
<1>0. ListFiles /\ ListWorkers /\ ListOwners /\ TimesTell BY DEF ListInv
<1>a. List!BlForceAssumption BY ListConstants
<1>1. ASSUME NEW t \in Thread, List!Persist(t) PROVE TimesTell'
  BY <1>0, <1>a, <1>1 DEF List!Persist, List!Go, List!Start, List!End, List!Hold, List!Rewrites,
                          List!Loaded, List!Reloaded, List!Fresh, List!request, List!count,
                          List!history, ListFiles, ListWorkers, ListOwners, TimesTell,
                          List!BlForceAssumption
<1>2. ASSUME NEW t \in Thread, List!PersistFails(t) PROVE TimesTell'
  BY <1>0, <1>a, <1>2 DEF List!PersistFails, List!Go, List!Start, List!End, List!Hold,
                          List!Rewrites, List!Loaded, List!Reloaded, List!Fresh, List!request,
                          List!count, List!history, ListFiles, ListWorkers, ListOwners, TimesTell,
                          List!BlForceAssumption
<1>3. ASSUME NEW t \in Thread, List!Stamp(t) PROVE TimesTell'
  BY <1>0, <1>a, <1>3 DEF List!Stamp, List!Go, List!Start, List!End, List!Hold, List!Rewrites,
                          List!Loaded, List!Reloaded, List!Fresh, List!request, List!count,
                          List!history, ListFiles, ListWorkers, ListOwners, TimesTell,
                          List!BlForceAssumption
<1>4. ASSUME NEW t \in Thread, List!LoadSave(t) PROVE TimesTell'
  BY <1>0, <1>a, <1>4 DEF List!LoadSave, List!Go, List!Start, List!End, List!Hold, List!Rewrites,
                          List!Loaded, List!Reloaded, List!Fresh, List!request, List!count,
                          List!history, ListFiles, ListWorkers, ListOwners, TimesTell,
                          List!BlForceAssumption
<1>5. ASSUME NEW t \in Thread, List!NoSaves(t) PROVE TimesTell'
  BY <1>0, <1>a, <1>5 DEF List!NoSaves, List!Go, List!Start, List!End, List!Hold, List!Rewrites,
                          List!Loaded, List!Reloaded, List!Fresh, List!request, List!count,
                          List!history, ListFiles, ListWorkers, ListOwners, TimesTell,
                          List!BlForceAssumption
<1>6. ASSUME NEW t \in Thread, List!WriteSave(t) PROVE TimesTell'
  BY <1>0, <1>a, <1>6 DEF List!WriteSave, List!Go, List!Start, List!End, List!Hold, List!Rewrites,
                          List!Loaded, List!Reloaded, List!Fresh, List!request, List!count,
                          List!history, ListFiles, ListWorkers, ListOwners, TimesTell,
                          List!BlForceAssumption
<1>7. ASSUME NEW t \in Thread, List!SaveFails(t) PROVE TimesTell'
  BY <1>0, <1>a, <1>7 DEF List!SaveFails, List!Go, List!Start, List!End, List!Hold, List!Rewrites,
                          List!Loaded, List!Reloaded, List!Fresh, List!request, List!count,
                          List!history, ListFiles, ListWorkers, ListOwners, TimesTell,
                          List!BlForceAssumption
<1>8. ASSUME NEW t \in Thread, NEW x \in ListAcc, List!Upload(t, x) PROVE TimesTell'
  BY <1>0, <1>a, <1>8 DEF List!Upload, List!Go, List!Start, List!End, List!Hold, List!Rewrites,
                          List!Loaded, List!Reloaded, List!Fresh, List!request, List!count,
                          List!history, ListFiles, ListWorkers, ListOwners, TimesTell,
                          List!BlForceAssumption
<1>9. ASSUME NEW t \in Thread, NEW x \in ListAcc, NEW sent \in {"plain", "marked"}, List!UploadAsSent(t, x, sent) PROVE TimesTell'
  BY <1>0, <1>a, <1>9 DEF List!UploadAsSent, List!Go, List!Start, List!End, List!Hold,
                          List!Rewrites, List!Loaded, List!Reloaded, List!Fresh, List!request,
                          List!count, List!history, ListFiles, ListWorkers, ListOwners, TimesTell,
                          List!BlForceAssumption
<1>10. ASSUME NEW t \in Thread, NEW x \in ListAcc, NEW f \in BOOLEAN, List!SetForced(t, x, f) PROVE TimesTell'
  BY <1>0, <1>a, <1>10 DEF List!SetForced, List!Go, List!Start, List!End, List!Hold,
                           List!Rewrites, List!Loaded, List!Reloaded, List!Fresh, List!request,
                           List!count, List!history, ListFiles, ListWorkers, ListOwners,
                           TimesTell, List!BlForceAssumption
<1>11. ASSUME NEW accs \in SUBSET ListAcc, List!EditFile(accs) PROVE TimesTell'
  BY <1>0, <1>a, <1>11 DEF List!EditFile, List!Go, List!Start, List!End, List!Hold, List!Rewrites,
                           List!Loaded, List!Reloaded, List!Fresh, List!request, List!count,
                           List!history, ListFiles, ListWorkers, ListOwners, TimesTell,
                           List!BlForceAssumption
<1>12. CASE List!Tick
  BY <1>0, <1>a, <1>12 DEF List!Tick, List!Go, List!Start, List!End, List!Hold, List!Rewrites,
                           List!Loaded, List!Reloaded, List!Fresh, List!request, List!count,
                           List!history, ListFiles, ListWorkers, ListOwners, TimesTell,
                           List!BlForceAssumption
<1>13. CASE List!Restart
  BY <1>0, <1>a, <1>13 DEF List!Restart, List!Go, List!Start, List!End, List!Hold, List!Rewrites,
                           List!Loaded, List!Reloaded, List!Fresh, List!request, List!count,
                           List!history, ListFiles, ListWorkers, ListOwners, TimesTell,
                           List!BlForceAssumption
<1>14. CASE UNCHANGED List!vars
  BY <1>0, <1>14 DEF List!vars, List!Go, List!Start, List!End, List!Hold, List!Rewrites,
                     List!Loaded, List!Reloaded, List!Fresh, List!request, List!count,
                     List!history, ListFiles, ListWorkers, ListOwners, TimesTell,
                     List!BlForceAssumption
<1> QED BY <1>1, <1>2, <1>3, <1>4, <1>5, <1>6, <1>7, <1>8, <1>9, <1>10, <1>11, <1>12, <1>13,
           <1>14 DEF List!Next

\* Every step keeps the list that will be written.
LEMMA OneChangeStep == ListInv /\ [List!Next]_(List!vars) => OneChange'
<1> SUFFICES ASSUME ListInv, [List!Next]_(List!vars) PROVE OneChange'
  OBVIOUS
<1>0. ListFiles /\ ListWorkers /\ ListPast /\ ListOwners /\ OneChange BY DEF ListInv
<1>a. List!BlForceAssumption BY ListConstants
<1>1. ASSUME NEW t \in Thread, List!Persist(t) PROVE OneChange'
  BY <1>0, <1>a, <1>1 DEF List!Persist, List!Go, List!Start, List!End, List!Hold, List!Rewrites,
                          List!Loaded, List!Reloaded, List!Fresh, List!request, List!count,
                          List!history, ListFiles, ListWorkers, ListPast, ListOwners, OneChange,
                          List!BlForceAssumption
<1>2. ASSUME NEW t \in Thread, List!PersistFails(t) PROVE OneChange'
  BY <1>0, <1>a, <1>2 DEF List!PersistFails, List!Go, List!Start, List!End, List!Hold,
                          List!Rewrites, List!Loaded, List!Reloaded, List!Fresh, List!request,
                          List!count, List!history, ListFiles, ListWorkers, ListPast, ListOwners,
                          OneChange, List!BlForceAssumption
<1>3. ASSUME NEW t \in Thread, List!Stamp(t) PROVE OneChange'
  BY <1>0, <1>a, <1>3 DEF List!Stamp, List!Go, List!Start, List!End, List!Hold, List!Rewrites,
                          List!Loaded, List!Reloaded, List!Fresh, List!request, List!count,
                          List!history, ListFiles, ListWorkers, ListPast, ListOwners, OneChange,
                          List!BlForceAssumption
<1>4. ASSUME NEW t \in Thread, List!LoadSave(t) PROVE OneChange'
  BY <1>0, <1>a, <1>4 DEF List!LoadSave, List!Go, List!Start, List!End, List!Hold, List!Rewrites,
                          List!Loaded, List!Reloaded, List!Fresh, List!request, List!count,
                          List!history, ListFiles, ListWorkers, ListPast, ListOwners, OneChange,
                          List!BlForceAssumption
<1>5. ASSUME NEW t \in Thread, List!NoSaves(t) PROVE OneChange'
  <2>1. \A u \in Thread : blPc'[u] = "persist" =>
          blPc[u] = "persist" /\ blAcc'[u] = blAcc[u] /\ forced'[u] = forced[u]
    BY <1>0, <1>5 DEF List!NoSaves, List!End, List!Go, ListWorkers
  <2>2. UNCHANGED <<file, list, raced>> BY <1>5 DEF List!NoSaves, List!history
  <2> QED BY <1>0, <2>1, <2>2 DEF OneChange
<1>6. ASSUME NEW t \in Thread, List!WriteSave(t) PROVE OneChange'
  <2>1. \A u \in Thread : blPc'[u] = "persist" =>
          blPc[u] = "persist" /\ blAcc'[u] = blAcc[u] /\ forced'[u] = forced[u]
    BY <1>0, <1>6 DEF List!WriteSave, List!End, List!Go, ListWorkers
  <2>2. UNCHANGED <<file, list, raced>> BY <1>6 DEF List!WriteSave, List!history
  <2> QED BY <1>0, <2>1, <2>2 DEF OneChange
<1>7. ASSUME NEW t \in Thread, List!SaveFails(t) PROVE OneChange'
  <2>1. \A u \in Thread : blPc'[u] = "persist" =>
          blPc[u] = "persist" /\ blAcc'[u] = blAcc[u] /\ forced'[u] = forced[u]
    BY <1>0, <1>7 DEF List!SaveFails, List!End, List!Go, ListWorkers
  <2>2. UNCHANGED <<file, list, raced>> BY <1>7 DEF List!SaveFails, List!history
  <2> QED BY <1>0, <2>1, <2>2 DEF OneChange
<1>8. ASSUME NEW t \in Thread, NEW x \in ListAcc, List!Upload(t, x) PROVE OneChange'
  BY <1>0, <1>a, <1>8 DEF List!Upload, List!Go, List!Start, List!End, List!Hold, List!Rewrites,
                          List!Loaded, List!Reloaded, List!Fresh, List!request, List!count,
                          List!history, ListFiles, ListWorkers, ListPast, ListOwners, OneChange,
                          List!BlForceAssumption
<1>9. ASSUME NEW t \in Thread, NEW x \in ListAcc, NEW sent \in {"plain", "marked"}, List!UploadAsSent(t, x, sent) PROVE OneChange'
  BY <1>0, <1>a, <1>9 DEF List!UploadAsSent, List!Go, List!Start, List!End, List!Hold,
                          List!Rewrites, List!Loaded, List!Reloaded, List!Fresh, List!request,
                          List!count, List!history, ListFiles, ListWorkers, ListPast, ListOwners,
                          OneChange, List!BlForceAssumption
<1>10. ASSUME NEW t \in Thread, NEW x \in ListAcc, NEW f \in BOOLEAN, List!SetForced(t, x, f) PROVE OneChange'
  BY <1>0, <1>a, <1>10 DEF List!SetForced, List!Go, List!Start, List!End, List!Hold,
                           List!Rewrites, List!Loaded, List!Reloaded, List!Fresh, List!request,
                           List!count, List!history, ListFiles, ListWorkers, ListPast, ListOwners,
                           OneChange, List!BlForceAssumption
<1>11. ASSUME NEW accs \in SUBSET ListAcc, List!EditFile(accs) PROVE OneChange'
  BY <1>0, <1>a, <1>11 DEF List!EditFile, List!Go, List!Start, List!End, List!Hold, List!Rewrites,
                           List!Loaded, List!Reloaded, List!Fresh, List!request, List!count,
                           List!history, ListFiles, ListWorkers, ListPast, ListOwners, OneChange,
                           List!BlForceAssumption
<1>12. CASE List!Tick
  BY <1>0, <1>a, <1>12 DEF List!Tick, List!Go, List!Start, List!End, List!Hold, List!Rewrites,
                           List!Loaded, List!Reloaded, List!Fresh, List!request, List!count,
                           List!history, ListFiles, ListWorkers, ListPast, ListOwners, OneChange,
                           List!BlForceAssumption
<1>13. CASE List!Restart
  BY <1>0, <1>a, <1>13 DEF List!Restart, List!Go, List!Start, List!End, List!Hold, List!Rewrites,
                           List!Loaded, List!Reloaded, List!Fresh, List!request, List!count,
                           List!history, ListFiles, ListWorkers, ListPast, ListOwners, OneChange,
                           List!BlForceAssumption
<1>14. CASE UNCHANGED List!vars
  BY <1>0, <1>14 DEF List!vars, List!Go, List!Start, List!End, List!Hold, List!Rewrites,
                     List!Loaded, List!Reloaded, List!Fresh, List!request, List!count,
                     List!history, ListFiles, ListWorkers, ListPast, ListOwners, OneChange,
                     List!BlForceAssumption
<1> QED BY <1>1, <1>2, <1>3, <1>4, <1>5, <1>6, <1>7, <1>8, <1>9, <1>10, <1>11, <1>12, <1>13,
           <1>14 DEF List!Next

\* Every step keeps the changes of the list.
LEMMA ChangesStep == ListInv /\ [List!Next]_(List!vars) => List!ChangesStay'
<1> SUFFICES ASSUME ListInv, [List!Next]_(List!vars) PROVE List!ChangesStay'
  OBVIOUS
<1>0. ListFiles /\ ListWorkers /\ ListPast /\ ListOwners /\ OneChange /\ List!ChangesStay
  BY DEF ListInv
<1>a. List!BlForceAssumption BY ListConstants
<1>1. ASSUME NEW t \in Thread, List!Persist(t) PROVE List!ChangesStay'
  BY <1>0, <1>a, <1>1 DEF List!Persist, List!Go, List!Start, List!End, List!Hold, List!Rewrites,
                          List!Loaded, List!Reloaded, List!Fresh, List!request, List!count,
                          List!history, ListFiles, ListWorkers, ListPast, ListOwners, OneChange,
                          List!ChangesStay
<1>2. ASSUME NEW t \in Thread, List!PersistFails(t) PROVE List!ChangesStay'
  BY <1>0, <1>a, <1>2 DEF List!PersistFails, List!Go, List!Start, List!End, List!Hold,
                          List!Rewrites, List!Loaded, List!Reloaded, List!Fresh, List!request,
                          List!count, List!history, ListFiles, ListWorkers, ListPast, ListOwners,
                          OneChange, List!ChangesStay
<1>3. ASSUME NEW t \in Thread, List!Stamp(t) PROVE List!ChangesStay'
  BY <1>0, <1>a, <1>3 DEF List!Stamp, List!Go, List!Start, List!End, List!Hold, List!Rewrites,
                          List!Loaded, List!Reloaded, List!Fresh, List!request, List!count,
                          List!history, ListFiles, ListWorkers, ListPast, ListOwners, OneChange,
                          List!ChangesStay
<1>4. ASSUME NEW t \in Thread, List!LoadSave(t) PROVE List!ChangesStay'
  BY <1>0, <1>a, <1>4 DEF List!LoadSave, List!Go, List!Start, List!End, List!Hold, List!Rewrites,
                          List!Loaded, List!Reloaded, List!Fresh, List!request, List!count,
                          List!history, ListFiles, ListWorkers, ListPast, ListOwners, OneChange,
                          List!ChangesStay
<1>5. ASSUME NEW t \in Thread, List!NoSaves(t) PROVE List!ChangesStay'
  BY <1>0, <1>a, <1>5 DEF List!NoSaves, List!Go, List!Start, List!End, List!Hold, List!Rewrites,
                          List!Loaded, List!Reloaded, List!Fresh, List!request, List!count,
                          List!history, ListFiles, ListWorkers, ListPast, ListOwners, OneChange,
                          List!ChangesStay
<1>6. ASSUME NEW t \in Thread, List!WriteSave(t) PROVE List!ChangesStay'
  BY <1>0, <1>a, <1>6 DEF List!WriteSave, List!Go, List!Start, List!End, List!Hold, List!Rewrites,
                          List!Loaded, List!Reloaded, List!Fresh, List!request, List!count,
                          List!history, ListFiles, ListWorkers, ListPast, ListOwners, OneChange,
                          List!ChangesStay
<1>7. ASSUME NEW t \in Thread, List!SaveFails(t) PROVE List!ChangesStay'
  BY <1>0, <1>a, <1>7 DEF List!SaveFails, List!Go, List!Start, List!End, List!Hold, List!Rewrites,
                          List!Loaded, List!Reloaded, List!Fresh, List!request, List!count,
                          List!history, ListFiles, ListWorkers, ListPast, ListOwners, OneChange,
                          List!ChangesStay
<1>8. ASSUME NEW t \in Thread, NEW x \in ListAcc, List!Upload(t, x) PROVE List!ChangesStay'
  BY <1>0, <1>a, <1>8 DEF List!Upload, List!Go, List!Start, List!End, List!Hold, List!Rewrites,
                          List!Loaded, List!Reloaded, List!Fresh, List!request, List!count,
                          List!history, ListFiles, ListWorkers, ListPast, ListOwners, OneChange,
                          List!ChangesStay
<1>9. ASSUME NEW t \in Thread, NEW x \in ListAcc, NEW sent \in {"plain", "marked"}, List!UploadAsSent(t, x, sent) PROVE List!ChangesStay'
  BY <1>0, <1>a, <1>9 DEF List!UploadAsSent, List!Go, List!Start, List!End, List!Hold,
                          List!Rewrites, List!Loaded, List!Reloaded, List!Fresh, List!request,
                          List!count, List!history, ListFiles, ListWorkers, ListPast, ListOwners,
                          OneChange, List!ChangesStay
<1>10. ASSUME NEW t \in Thread, NEW x \in ListAcc, NEW f \in BOOLEAN, List!SetForced(t, x, f) PROVE List!ChangesStay'
  BY <1>0, <1>a, <1>10 DEF List!SetForced, List!Go, List!Start, List!End, List!Hold,
                           List!Rewrites, List!Loaded, List!Reloaded, List!Fresh, List!request,
                           List!count, List!history, ListFiles, ListWorkers, ListPast, ListOwners,
                           OneChange, List!ChangesStay
<1>11. ASSUME NEW accs \in SUBSET ListAcc, List!EditFile(accs) PROVE List!ChangesStay'
  BY <1>0, <1>a, <1>11 DEF List!EditFile, List!Go, List!Start, List!End, List!Hold, List!Rewrites,
                           List!Loaded, List!Reloaded, List!Fresh, List!request, List!count,
                           List!history, ListFiles, ListWorkers, ListPast, ListOwners, OneChange,
                           List!ChangesStay
<1>12. CASE List!Tick
  BY <1>0, <1>a, <1>12 DEF List!Tick, List!Go, List!Start, List!End, List!Hold, List!Rewrites,
                           List!Loaded, List!Reloaded, List!Fresh, List!request, List!count,
                           List!history, ListFiles, ListWorkers, ListPast, ListOwners, OneChange,
                           List!ChangesStay
<1>13. CASE List!Restart
  BY <1>0, <1>a, <1>13 DEF List!Restart, List!Go, List!Start, List!End, List!Hold, List!Rewrites,
                           List!Loaded, List!Reloaded, List!Fresh, List!request, List!count,
                           List!history, ListFiles, ListWorkers, ListPast, ListOwners, OneChange,
                           List!ChangesStay
<1>14. CASE UNCHANGED List!vars
  BY <1>0, <1>14 DEF List!vars, List!Go, List!Start, List!End, List!Hold, List!Rewrites,
                     List!Loaded, List!Reloaded, List!Fresh, List!request, List!count,
                     List!history, ListFiles, ListWorkers, ListPast, ListOwners, OneChange,
                     List!ChangesStay
<1> QED BY <1>1, <1>2, <1>3, <1>4, <1>5, <1>6, <1>7, <1>8, <1>9, <1>10, <1>11, <1>12, <1>13,
           <1>14 DEF List!Next

\* No step writes over a mark.
LEMMA NoPlainStep == ListInv /\ [List!Next]_(List!vars) => NoPlain'
<1> SUFFICES ASSUME ListInv, [List!Next]_(List!vars) PROVE NoPlain'
  OBVIOUS
<1>0. ListFiles /\ ListWorkers /\ ListPast /\ ListOwners /\ OneChange /\ NoPlain BY DEF ListInv
<1>a. List!BlForceAssumption BY ListConstants
<1>1. ASSUME NEW t \in Thread, List!Persist(t) PROVE NoPlain'
  BY <1>0, <1>a, <1>1 DEF List!Persist, List!Go, List!Start, List!End, List!Hold, List!Rewrites,
                          List!Loaded, List!Reloaded, List!Fresh, List!request, List!count,
                          List!history, ListFiles, ListWorkers, ListPast, ListOwners, OneChange,
                          NoPlain, Listed, List!Plain
<1>2. ASSUME NEW t \in Thread, List!PersistFails(t) PROVE NoPlain'
  BY <1>0, <1>a, <1>2 DEF List!PersistFails, List!Go, List!Start, List!End, List!Hold,
                          List!Rewrites, List!Loaded, List!Reloaded, List!Fresh, List!request,
                          List!count, List!history, ListFiles, ListWorkers, ListPast, ListOwners,
                          OneChange, NoPlain, Listed, List!Plain
<1>3. ASSUME NEW t \in Thread, List!Stamp(t) PROVE NoPlain'
  BY <1>0, <1>a, <1>3 DEF List!Stamp, List!Go, List!Start, List!End, List!Hold, List!Rewrites,
                          List!Loaded, List!Reloaded, List!Fresh, List!request, List!count,
                          List!history, ListFiles, ListWorkers, ListPast, ListOwners, OneChange,
                          NoPlain, Listed, List!Plain
<1>4. ASSUME NEW t \in Thread, List!LoadSave(t) PROVE NoPlain'
  BY <1>0, <1>a, <1>4 DEF List!LoadSave, List!Go, List!Start, List!End, List!Hold, List!Rewrites,
                          List!Loaded, List!Reloaded, List!Fresh, List!request, List!count,
                          List!history, ListFiles, ListWorkers, ListPast, ListOwners, OneChange,
                          NoPlain, Listed, List!Plain
<1>5. ASSUME NEW t \in Thread, List!NoSaves(t) PROVE NoPlain'
  BY <1>0, <1>a, <1>5 DEF List!NoSaves, List!Go, List!Start, List!End, List!Hold, List!Rewrites,
                          List!Loaded, List!Reloaded, List!Fresh, List!request, List!count,
                          List!history, ListFiles, ListWorkers, ListPast, ListOwners, OneChange,
                          NoPlain, Listed, List!Plain
<1>6. ASSUME NEW t \in Thread, List!WriteSave(t) PROVE NoPlain'
  BY <1>0, <1>a, <1>6 DEF List!WriteSave, List!Go, List!Start, List!End, List!Hold, List!Rewrites,
                          List!Loaded, List!Reloaded, List!Fresh, List!request, List!count,
                          List!history, ListFiles, ListWorkers, ListPast, ListOwners, OneChange,
                          NoPlain, Listed, List!Plain
<1>7. ASSUME NEW t \in Thread, List!SaveFails(t) PROVE NoPlain'
  BY <1>0, <1>a, <1>7 DEF List!SaveFails, List!Go, List!Start, List!End, List!Hold, List!Rewrites,
                          List!Loaded, List!Reloaded, List!Fresh, List!request, List!count,
                          List!history, ListFiles, ListWorkers, ListPast, ListOwners, OneChange,
                          NoPlain, Listed, List!Plain
<1>8. ASSUME NEW t \in Thread, NEW x \in ListAcc, List!Upload(t, x) PROVE NoPlain'
  BY <1>0, <1>a, <1>8 DEF List!Upload, List!Go, List!Start, List!End, List!Hold, List!Rewrites,
                          List!Loaded, List!Reloaded, List!Fresh, List!request, List!count,
                          List!history, ListFiles, ListWorkers, ListPast, ListOwners, OneChange,
                          NoPlain, Listed, List!Plain
<1>9. ASSUME NEW t \in Thread, NEW x \in ListAcc, NEW sent \in {"plain", "marked"}, List!UploadAsSent(t, x, sent) PROVE NoPlain'
  <2>1. /\ \A u \in Thread : blPc[u] # "persist"
        /\ blPc[t] = "idle" /\ UNCHANGED <<file, save>>
    BY <1>0, <1>a, <1>9 DEF List!UploadAsSent, List!Start, ListOwners, List!BlForceAssumption
  <2>2. /\ exempt' = exempt \cup ({x} \cap file.accs)
        /\ blPc' = [blPc EXCEPT ![t] = "write"] /\ blAcc' = [blAcc EXCEPT ![t] = x]
        /\ blBlob' = [blBlob EXCEPT ![t] = sent]
    BY <1>9 DEF List!UploadAsSent, List!Start, List!Go
  <2>3. \A u \in Thread : blPc'[u] # "persist" BY <1>0, <2>1, <2>2 DEF ListWorkers
  <2>4. Listed' = file.accs /\ Listed = file.accs BY <2>1, <2>3 DEF Listed
  <2>5. \A y \in ListAcc \ {x} : List!Plain(y)' \subseteq List!Plain(y)
    BY <1>0, <2>2 DEF ListWorkers, List!Plain
  <2>6. file.accs \subseteq ListAcc BY <1>0 DEF ListFiles
  <2> QED BY <1>0, <2>2, <2>4, <2>5, <2>6 DEF NoPlain
<1>10. ASSUME NEW t \in Thread, NEW x \in ListAcc, NEW f \in BOOLEAN, List!SetForced(t, x, f) PROVE NoPlain'
  <2>1. /\ \A u \in Thread : blPc[u] # "persist"
        /\ blPc[t] = "idle" /\ UNCHANGED <<file, save>>
    BY <1>0, <1>a, <1>10 DEF List!SetForced, List!Start, ListOwners, List!BlForceAssumption
  <2>2. /\ \E where \in {"saves", "persist"} : blPc' = [blPc EXCEPT ![t] = where]
        /\ blAcc' = [blAcc EXCEPT ![t] = x] /\ UNCHANGED <<exempt, blBlob>>
        /\ forced' = [forced EXCEPT ![t] = f]
    BY <1>10 DEF List!SetForced, List!Start, List!Go
  <2>3. list'.accs \subseteq file.accs \cup {x}
    BY <1>0, <1>10 DEF List!SetForced, List!Reloaded, ListFiles
  <2>4. Listed = file.accs /\ Listed' \subseteq file.accs
    <3>1. \A u \in Thread : blPc'[u] = "persist" => u = t BY <1>0, <2>1, <2>2 DEF ListWorkers
    <3>2. blAcc'[t] = x BY <1>0, <2>2 DEF ListWorkers
    <3> QED BY <2>1, <2>3, <3>1, <3>2 DEF Listed
  <2>5. \A y \in ListAcc : List!Plain(y)' \subseteq List!Plain(y)
    BY <1>0, <2>2 DEF ListWorkers, List!Plain
  <2>6. file.accs \subseteq ListAcc BY <1>0 DEF ListFiles
  <2> QED BY <1>0, <2>2, <2>4, <2>5, <2>6 DEF NoPlain
<1>11. ASSUME NEW accs \in SUBSET ListAcc, List!EditFile(accs) PROVE NoPlain'
  BY <1>0, <1>a, <1>11 DEF List!EditFile, List!Go, List!Start, List!End, List!Hold, List!Rewrites,
                           List!Loaded, List!Reloaded, List!Fresh, List!request, List!count,
                           List!history, ListFiles, ListWorkers, ListPast, ListOwners, OneChange,
                           NoPlain, Listed, List!Plain
<1>12. CASE List!Tick
  BY <1>0, <1>a, <1>12 DEF List!Tick, List!Go, List!Start, List!End, List!Hold, List!Rewrites,
                           List!Loaded, List!Reloaded, List!Fresh, List!request, List!count,
                           List!history, ListFiles, ListWorkers, ListPast, ListOwners, OneChange,
                           NoPlain, Listed, List!Plain
<1>13. CASE List!Restart
  BY <1>0, <1>a, <1>13 DEF List!Restart, List!Go, List!Start, List!End, List!Hold, List!Rewrites,
                           List!Loaded, List!Reloaded, List!Fresh, List!request, List!count,
                           List!history, ListFiles, ListWorkers, ListPast, ListOwners, OneChange,
                           NoPlain, Listed, List!Plain
<1>14. CASE UNCHANGED List!vars
  BY <1>0, <1>14 DEF List!vars, List!Go, List!Start, List!End, List!Hold, List!Rewrites,
                     List!Loaded, List!Reloaded, List!Fresh, List!request, List!count,
                     List!history, ListFiles, ListWorkers, ListPast, ListOwners, OneChange,
                     NoPlain, Listed, List!Plain
<1> QED BY <1>1, <1>2, <1>3, <1>4, <1>5, <1>6, <1>7, <1>8, <1>9, <1>10, <1>11, <1>12, <1>13,
           <1>14 DEF List!Next

\* Every step leaves somebody to mark a save.
LEMMA MarkedStep == ListInv /\ [List!Next]_(List!vars) => Marked'
<1> SUFFICES ASSUME ListInv, [List!Next]_(List!vars) PROVE Marked'
  OBVIOUS
<1>0. ListFiles /\ ListWorkers /\ ListPast /\ ListOwners /\ OneChange /\ NoPlain /\ Marked
  BY DEF ListInv
<1>a. List!BlForceAssumption BY ListConstants
<1>1. ASSUME NEW t \in Thread, List!Persist(t) PROVE Marked'
  BY <1>0, <1>a, <1>1 DEF List!Persist, List!Go, List!Start, List!End, List!Hold, List!Rewrites,
                          List!Loaded, List!Reloaded, List!Fresh, List!request, List!count,
                          List!history, ListFiles, ListWorkers, ListPast, ListOwners, OneChange,
                          NoPlain, Listed, List!Plain, Marked, Marker
<1>2. ASSUME NEW t \in Thread, List!PersistFails(t) PROVE Marked'
  BY <1>0, <1>a, <1>2 DEF List!PersistFails, List!Go, List!Start, List!End, List!Hold,
                          List!Rewrites, List!Loaded, List!Reloaded, List!Fresh, List!request,
                          List!count, List!history, ListFiles, ListWorkers, ListPast, ListOwners,
                          OneChange, NoPlain, Listed, List!Plain, Marked, Marker
<1>3. ASSUME NEW t \in Thread, List!Stamp(t) PROVE Marked'
  BY <1>0, <1>a, <1>3 DEF List!Stamp, List!Go, List!Start, List!End, List!Hold, List!Rewrites,
                          List!Loaded, List!Reloaded, List!Fresh, List!request, List!count,
                          List!history, ListFiles, ListWorkers, ListPast, ListOwners, OneChange,
                          NoPlain, Listed, List!Plain, Marked, Marker
<1>4. ASSUME NEW t \in Thread, List!LoadSave(t) PROVE Marked'
  BY <1>0, <1>a, <1>4 DEF List!LoadSave, List!Go, List!Start, List!End, List!Hold, List!Rewrites,
                          List!Loaded, List!Reloaded, List!Fresh, List!request, List!count,
                          List!history, ListFiles, ListWorkers, ListPast, ListOwners, OneChange,
                          NoPlain, Listed, List!Plain, Marked, Marker
<1>5. ASSUME NEW t \in Thread, List!NoSaves(t) PROVE Marked'
  BY <1>0, <1>a, <1>5 DEF List!NoSaves, List!Go, List!Start, List!End, List!Hold, List!Rewrites,
                          List!Loaded, List!Reloaded, List!Fresh, List!request, List!count,
                          List!history, ListFiles, ListWorkers, ListPast, ListOwners, OneChange,
                          NoPlain, Listed, List!Plain, Marked, Marker
<1>6. ASSUME NEW t \in Thread, List!WriteSave(t) PROVE Marked'
  BY <1>0, <1>a, <1>6 DEF List!WriteSave, List!Go, List!Start, List!End, List!Hold, List!Rewrites,
                          List!Loaded, List!Reloaded, List!Fresh, List!request, List!count,
                          List!history, ListFiles, ListWorkers, ListPast, ListOwners, OneChange,
                          NoPlain, Listed, List!Plain, Marked, Marker
<1>7. ASSUME NEW t \in Thread, List!SaveFails(t) PROVE Marked'
  BY <1>0, <1>a, <1>7 DEF List!SaveFails, List!Go, List!Start, List!End, List!Hold, List!Rewrites,
                          List!Loaded, List!Reloaded, List!Fresh, List!request, List!count,
                          List!history, ListFiles, ListWorkers, ListPast, ListOwners, OneChange,
                          NoPlain, Listed, List!Plain, Marked, Marker
<1>8. ASSUME NEW t \in Thread, NEW x \in ListAcc, List!Upload(t, x) PROVE Marked'
  BY <1>0, <1>a, <1>8 DEF List!Upload, List!Go, List!Start, List!End, List!Hold, List!Rewrites,
                          List!Loaded, List!Reloaded, List!Fresh, List!request, List!count,
                          List!history, ListFiles, ListWorkers, ListPast, ListOwners, OneChange,
                          NoPlain, Listed, List!Plain, Marked, Marker
<1>9. ASSUME NEW t \in Thread, NEW x \in ListAcc, NEW sent \in {"plain", "marked"}, List!UploadAsSent(t, x, sent) PROVE Marked'
  BY <1>0, <1>a, <1>9 DEF List!UploadAsSent, List!Go, List!Start, List!End, List!Hold,
                          List!Rewrites, List!Loaded, List!Reloaded, List!Fresh, List!request,
                          List!count, List!history, ListFiles, ListWorkers, ListPast, ListOwners,
                          OneChange, NoPlain, Listed, List!Plain, Marked, Marker
<1>10. ASSUME NEW t \in Thread, NEW x \in ListAcc, NEW f \in BOOLEAN, List!SetForced(t, x, f) PROVE Marked'
  <2>1. /\ \A u \in Thread : blPc[u] # "persist"
        /\ blPc[t] = "idle" /\ UNCHANGED <<file, save>>
    BY <1>0, <1>a, <1>10 DEF List!SetForced, List!Start, ListOwners, List!BlForceAssumption
  <2>2. /\ \E where \in {"saves", "persist"} : blPc' = [blPc EXCEPT ![t] = where]
        /\ blAcc' = [blAcc EXCEPT ![t] = x] /\ UNCHANGED <<exempt, blBlob>>
        /\ forced' = [forced EXCEPT ![t] = f]
    BY <1>10 DEF List!SetForced, List!Start, List!Go
  <2>3. list'.accs \subseteq file.accs \cup {x}
    BY <1>0, <1>10 DEF List!SetForced, List!Reloaded, ListFiles
  <2>4. Listed = file.accs /\ Listed' \subseteq file.accs
    <3>1. \A u \in Thread : blPc'[u] = "persist" => u = t BY <1>0, <2>1, <2>2 DEF ListWorkers
    <3>2. blAcc'[t] = x BY <1>0, <2>2 DEF ListWorkers
    <3> QED BY <2>1, <2>3, <3>1, <3>2 DEF Listed
  <2>5. \A y \in ListAcc : List!Plain(y)' \subseteq List!Plain(y)
    BY <1>0, <2>2 DEF ListWorkers, List!Plain
  <2>6. file.accs \subseteq ListAcc BY <1>0 DEF ListFiles
  <2>7. \A u \in Thread, y \in ListAcc : Marker(u, y) => u # t BY <2>1 DEF Marker
  <2>8. \A u \in Thread, y \in ListAcc : Marker(u, y) => Marker(u, y)'
    BY <1>0, <2>2, <2>7 DEF Marker, ListWorkers
  <2> QED BY <1>0, <2>1, <2>2, <2>4, <2>6, <2>8 DEF Marked
<1>11. ASSUME NEW accs \in SUBSET ListAcc, List!EditFile(accs) PROVE Marked'
  BY <1>0, <1>a, <1>11 DEF List!EditFile, List!Go, List!Start, List!End, List!Hold, List!Rewrites,
                           List!Loaded, List!Reloaded, List!Fresh, List!request, List!count,
                           List!history, ListFiles, ListWorkers, ListPast, ListOwners, OneChange,
                           NoPlain, Listed, List!Plain, Marked, Marker
<1>12. CASE List!Tick
  BY <1>0, <1>a, <1>12 DEF List!Tick, List!Go, List!Start, List!End, List!Hold, List!Rewrites,
                           List!Loaded, List!Reloaded, List!Fresh, List!request, List!count,
                           List!history, ListFiles, ListWorkers, ListPast, ListOwners, OneChange,
                           NoPlain, Listed, List!Plain, Marked, Marker
<1>13. CASE List!Restart
  BY <1>0, <1>a, <1>13 DEF List!Restart, List!Go, List!Start, List!End, List!Hold, List!Rewrites,
                           List!Loaded, List!Reloaded, List!Fresh, List!request, List!count,
                           List!history, ListFiles, ListWorkers, ListPast, ListOwners, OneChange,
                           NoPlain, Listed, List!Plain, Marked, Marker
<1>14. CASE UNCHANGED List!vars
  BY <1>0, <1>14 DEF List!vars, List!Go, List!Start, List!End, List!Hold, List!Rewrites,
                     List!Loaded, List!Reloaded, List!Fresh, List!request, List!count,
                     List!history, ListFiles, ListWorkers, ListPast, ListOwners, OneChange,
                     NoPlain, Listed, List!Plain, Marked, Marker
<1> QED BY <1>1, <1>2, <1>3, <1>4, <1>5, <1>6, <1>7, <1>8, <1>9, <1>10, <1>11, <1>12, <1>13,
           <1>14 DEF List!Next

\* Every step keeps all of it.
LEMMA ListStep == ListInv /\ [List!Next]_(List!vars) => ListInv'
BY ListFilesStep, ListWorkersStep, ListPastStep, ListOwnersStep, TimesTellStep, OneChangeStep,
   ChangesStep,
   NoPlainStep, MarkedStep DEF ListInv

\* Nobody is in the list at first.
LEMMA ListFirst == List!Init => ListInv
<1> SUFFICES ASSUME List!Init PROVE ListInv
  OBVIOUS
<1> USE ListConstants DEF List!BlForceAssumption, List!Init
<1>1. ListFiles
  <2>1. 1 \in 1..ListTime /\ 0 \in 0..MaxEdits /\ 0 \in 0..ListFaults /\ 0 \in 0..ListCrashes OBVIOUS
  <2> QED BY <2>1 DEF ListFiles
<1>2. ListWorkers BY DEF ListWorkers
<1>3. ListPast BY DEF ListPast
<1>4. ListOwners /\ TimesTell BY DEF ListOwners, TimesTell
<1>5. OneChange BY DEF OneChange
<1>7. List!ChangesStay
  <2>1. SUFFICES ASSUME NEW x \in ListAcc PROVE (x \in file.accs) = want[x]
    BY DEF List!ChangesStay
  <2>2. want \in [ListAcc -> BOOLEAN] /\ want[x] = FALSE OBVIOUS
  <2>3. x \notin file.accs OBVIOUS
  <2> HIDE DEF List!Init
  <2>4. (x \in file.accs) \in BOOLEAN OBVIOUS
  <2> QED BY <2>2, <2>3, <2>4
<1>6. NoPlain /\ Marked BY DEF NoPlain, Marked, Listed, List!Plain
<1> QED BY <1>1, <1>2, <1>3, <1>4, <1>5, <1>6, <1>7 DEF ListInv

\* What the properties say follows.
LEMMA ListShows == ListInv => List!TypeOK /\ List!ChangesStay /\ List!ForcedIsMarked
<1> SUFFICES ASSUME ListInv PROVE List!TypeOK /\ List!ForcedIsMarked
  BY DEF ListInv
<1>0. ListFiles /\ ListWorkers /\ ListPast /\ ListOwners /\ Marked BY DEF ListInv
<1>1. List!TypeOK
  <2>1. blNow \in 1..ListTime /\ ListTime \in Nat
    BY <1>0, ListConstants DEF ListFiles, List!BlForceAssumption
  <2>2. 1..blNow \subseteq 1..ListTime /\ 0..blNow \subseteq 0..ListTime BY ONLY <2>1
  <2>3. /\ file \in [accs : SUBSET ListAcc, time : 1..ListTime]
        /\ list \in [accs : SUBSET ListAcc, time : 0..ListTime]
    BY <1>0, <2>2 DEF ListFiles
  <2> QED BY <1>0, <2>3 DEF ListFiles, ListWorkers, ListPast, ListOwners, List!TypeOK
<1>2. List!ForcedIsMarked
  BY <1>0 DEF List!ForcedIsMarked, List!Busy, Marked, Marker, Listed
<1> QED BY <1>1, <1>2

\* An upload looks at the list that the file has.
LEMMA UploadLooks ==
  ListInv /\ [List!Next]_(List!vars) =>
    \A t \in Thread, x \in ListAcc :
      List!Upload(t, x) /\ ~apart' => (blBlob'[t] = "marked") = (x \in file.accs)
<1> SUFFICES ASSUME ListInv, NEW t \in Thread, NEW x \in ListAcc, List!Upload(t, x), ~apart'
             PROVE  (blBlob'[t] = "marked") = (x \in file.accs)
  OBVIOUS
<1>0. apart \in BOOLEAN /\ apart' = (apart /\ List!Fresh)
  BY DEF ListInv, ListPast, List!Upload
<1>1. List!Loaded.accs = file.accs
  <2>1. CASE ~List!Fresh
    BY <2>1 DEF List!Loaded
  <2>2. CASE List!Fresh
    <3>1. ~apart /\ blLock = None
      BY <1>0, <2>2 DEF List!Upload
    <3>2. list.accs = file.accs
      BY <3>1, <2>2 DEF ListInv, TimesTell, List!Fresh
    <3> QED BY <2>2, <3>2 DEF List!Loaded
  <2> QED BY <2>1, <2>2
<1>2. blBlob' = [blBlob EXCEPT ![t] = IF x \in file.accs THEN "marked" ELSE "plain"]
  BY <1>1 DEF List!Upload
<1>3. blBlob'[t] = IF x \in file.accs THEN "marked" ELSE "plain"
  BY <1>2 DEF ListInv, ListWorkers
<1> QED BY <1>3

-----------------------------------------------------------------------------
(* The cache of accounts.                                                  *)

\* A request that is about to put a row read the present one, or was passed.
ReadersFollow == \A t \in Ids!Readers \ passed : idVal[t] = row
CachedIsAccount == cache = Ids!Nobody \/ cache.id # 0

\* The types, in three parts.
RowTypes == row \in Ids!Account /\ ids \in 0..MaxId /\ row.id <= ids
EntryTypes == cache \in Ids!Account
RequestTypes ==
  /\ idPc \in [Thread -> {"idle", "find", "insert", "refind", "put", "update", "delete", "erase"}]
  /\ idVal \in [Thread -> Ids!Account] /\ passed \subseteq Thread /\ idLate \in BOOLEAN
  /\ \A t \in Thread : idPc[t] = "put" => idVal[t].id # 0
IdTypes == RowTypes /\ EntryTypes /\ RequestTypes

IdsInv == IdTypes /\ ReadersFollow /\ CachedIsAccount /\ Ids!CacheFollowsRow

\* Every step keeps the row's type.
LEMMA RowTypesStep == IdsInv /\ [Ids!Next]_(Ids!vars) => RowTypes'
<1> SUFFICES ASSUME IdsInv, [Ids!Next]_(Ids!vars) PROVE RowTypes'
  OBVIOUS
<1>0. IdTypes BY DEF IdsInv
<1>a. Ids!AccountAssumption BY IdConstants
<1>1. ASSUME NEW t \in Thread, Ids!Ensure(t) PROVE RowTypes'
  BY <1>0, <1>a, <1>1 DEF Ids!Ensure, Ids!Go, Ids!End, Ids!Exists, Ids!Nobody, Ids!NewRow,
                          Ids!Changed, Ids!Readers, IdTypes, RowTypes, RequestTypes, Ids!Account,
                          Ids!AccountAssumption
<1>2. ASSUME NEW t \in Thread, Ids!Find(t) PROVE RowTypes'
  BY <1>0, <1>a, <1>2 DEF Ids!Find, Ids!Go, Ids!End, Ids!Exists, Ids!Nobody, Ids!NewRow,
                          Ids!Changed, Ids!Readers, IdTypes, RowTypes, RequestTypes, Ids!Account,
                          Ids!AccountAssumption
<1>3. ASSUME NEW t \in Thread, Ids!Insert(t) PROVE RowTypes'
  <2>1. \A f \in BOOLEAN : [row EXCEPT !.exempt = f] \in Ids!Account /\ [row EXCEPT !.exempt = f].id = row.id
    BY <1>0 DEF IdTypes, RowTypes, Ids!Account
  <2>2. ids + 1 \in 0..MaxId \/ ~(ids < MaxId) BY <1>0, <1>a DEF IdTypes, RowTypes,
                                                  Ids!AccountAssumption
  <2>3. Ids!Nobody \in Ids!Account /\ Ids!Nobody.id = 0 BY <1>a DEF Ids!Nobody, Ids!Account,
                                                           Ids!AccountAssumption
  <2>4. Ids!NewRow => RowTypes' BY <1>0, <2>2 DEF IdTypes, RowTypes, Ids!Account, Ids!NewRow
  <2>5. ids \in Nat BY <1>0 DEF IdTypes, RowTypes
  <2> QED BY <1>0, <2>4, <1>3 DEF Ids!Insert, Ids!Go, Ids!Exists, IdTypes, RowTypes
<1>4. ASSUME NEW t \in Thread, Ids!Refind(t) PROVE RowTypes'
  BY <1>0, <1>a, <1>4 DEF Ids!Refind, Ids!Go, Ids!End, Ids!Exists, Ids!Nobody, Ids!NewRow,
                          Ids!Changed, Ids!Readers, IdTypes, RowTypes, RequestTypes, Ids!Account,
                          Ids!AccountAssumption
<1>5. ASSUME NEW t \in Thread, Ids!Put(t) PROVE RowTypes'
  BY <1>0, <1>a, <1>5 DEF Ids!Put, Ids!Go, Ids!End, Ids!Exists, Ids!Nobody, Ids!NewRow,
                          Ids!Changed, Ids!Readers, IdTypes, RowTypes, RequestTypes, Ids!Account,
                          Ids!AccountAssumption
<1>6. ASSUME NEW t \in Thread, Ids!Update(t) PROVE RowTypes'
  <2>1. \A f \in BOOLEAN : [row EXCEPT !.exempt = f] \in Ids!Account /\ [row EXCEPT !.exempt = f].id = row.id
    BY <1>0 DEF IdTypes, RowTypes, Ids!Account
  <2>2. ids + 1 \in 0..MaxId \/ ~(ids < MaxId) BY <1>0, <1>a DEF IdTypes, RowTypes,
                                                  Ids!AccountAssumption
  <2>3. Ids!Nobody \in Ids!Account /\ Ids!Nobody.id = 0 BY <1>a DEF Ids!Nobody, Ids!Account,
                                                           Ids!AccountAssumption
  <2>4. Ids!NewRow => RowTypes' BY <1>0, <2>2 DEF IdTypes, RowTypes, Ids!Account, Ids!NewRow
  <2>5. ids \in Nat BY <1>0 DEF IdTypes, RowTypes
  <2>6. Ids!Changed(t) \in Ids!Account /\ (idPc[t] # "idle" => Ids!Changed(t).id <= ids)
    <3>1. idVal[t].exempt \in BOOLEAN BY <1>0 DEF IdTypes, RequestTypes, Ids!Account
    <3> QED BY <1>0, <2>1, <2>3, <2>5, <3>1 DEF Ids!Changed, IdTypes, RowTypes
  <2> QED BY <1>0, <2>4, <2>6, <1>6 DEF Ids!Update, Ids!Go, Ids!Exists, IdTypes, RowTypes
<1>7. ASSUME NEW t \in Thread, Ids!DeleteAccount(t) PROVE RowTypes'
  BY <1>0, <1>a, <1>7 DEF Ids!DeleteAccount, Ids!Go, Ids!End, Ids!Exists, Ids!Nobody, Ids!NewRow,
                          Ids!Changed, Ids!Readers, IdTypes, RowTypes, RequestTypes, Ids!Account,
                          Ids!AccountAssumption
<1>8. ASSUME NEW t \in Thread, Ids!Delete(t) PROVE RowTypes'
  <2>1. \A f \in BOOLEAN : [row EXCEPT !.exempt = f] \in Ids!Account /\ [row EXCEPT !.exempt = f].id = row.id
    BY <1>0 DEF IdTypes, RowTypes, Ids!Account
  <2>2. ids + 1 \in 0..MaxId \/ ~(ids < MaxId) BY <1>0, <1>a DEF IdTypes, RowTypes,
                                                  Ids!AccountAssumption
  <2>3. Ids!Nobody \in Ids!Account /\ Ids!Nobody.id = 0 BY <1>a DEF Ids!Nobody, Ids!Account,
                                                           Ids!AccountAssumption
  <2>4. Ids!NewRow => RowTypes' BY <1>0, <2>2 DEF IdTypes, RowTypes, Ids!Account, Ids!NewRow
  <2>5. ids \in Nat BY <1>0 DEF IdTypes, RowTypes
  <2>6. Ids!Changed(t) \in Ids!Account /\ (idPc[t] # "idle" => Ids!Changed(t).id <= ids)
    <3>1. idVal[t].exempt \in BOOLEAN BY <1>0 DEF IdTypes, RequestTypes, Ids!Account
    <3> QED BY <1>0, <2>1, <2>3, <2>5, <3>1 DEF Ids!Changed, IdTypes, RowTypes
  <2> QED BY <1>0, <2>4, <2>6, <1>8 DEF Ids!Delete, Ids!Go, Ids!Exists, IdTypes, RowTypes
<1>9. ASSUME NEW t \in Thread, Ids!Erase(t) PROVE RowTypes'
  BY <1>0, <1>a, <1>9 DEF Ids!Erase, Ids!Go, Ids!End, Ids!Exists, Ids!Nobody, Ids!NewRow,
                          Ids!Changed, Ids!Readers, IdTypes, RowTypes, RequestTypes, Ids!Account,
                          Ids!AccountAssumption
<1>10. ASSUME NEW t \in Thread, Ids!DbError(t) PROVE RowTypes'
  <2>1. \A f \in BOOLEAN : [row EXCEPT !.exempt = f] \in Ids!Account /\ [row EXCEPT !.exempt = f].id = row.id
    BY <1>0 DEF IdTypes, RowTypes, Ids!Account
  <2>2. ids + 1 \in 0..MaxId \/ ~(ids < MaxId) BY <1>0, <1>a DEF IdTypes, RowTypes,
                                                  Ids!AccountAssumption
  <2>3. Ids!Nobody \in Ids!Account /\ Ids!Nobody.id = 0 BY <1>a DEF Ids!Nobody, Ids!Account,
                                                           Ids!AccountAssumption
  <2>4. Ids!NewRow => RowTypes' BY <1>0, <2>2 DEF IdTypes, RowTypes, Ids!Account, Ids!NewRow
  <2>5. ids \in Nat BY <1>0 DEF IdTypes, RowTypes
  <2>6. Ids!Changed(t) \in Ids!Account /\ (idPc[t] # "idle" => Ids!Changed(t).id <= ids)
    <3>1. idVal[t].exempt \in BOOLEAN BY <1>0 DEF IdTypes, RequestTypes, Ids!Account
    <3> QED BY <1>0, <2>1, <2>3, <2>5, <3>1 DEF Ids!Changed, IdTypes, RowTypes
  <2> QED BY <1>0, <2>4, <2>6, <1>10 DEF Ids!DbError, Ids!Go, Ids!Exists, IdTypes, RowTypes
<1>11. ASSUME NEW t \in Thread, NEW f \in BOOLEAN, Ids!SetExempt(t, f) PROVE RowTypes'
  BY <1>0, <1>a, <1>11 DEF Ids!SetExempt, Ids!Go, Ids!End, Ids!Exists, Ids!Nobody, Ids!NewRow,
                           Ids!Changed, Ids!Readers, IdTypes, RowTypes, RequestTypes, Ids!Account,
                           Ids!AccountAssumption
<1>12. CASE Ids!Register
  BY <1>0, <1>a, <1>12 DEF Ids!Register, Ids!Go, Ids!End, Ids!Exists, Ids!Nobody, Ids!NewRow,
                           Ids!Changed, Ids!Readers, IdTypes, RowTypes, RequestTypes, Ids!Account,
                           Ids!AccountAssumption
<1>13. CASE Ids!Expire
  BY <1>0, <1>a, <1>13 DEF Ids!Expire, Ids!Go, Ids!End, Ids!Exists, Ids!Nobody, Ids!NewRow,
                           Ids!Changed, Ids!Readers, IdTypes, RowTypes, RequestTypes, Ids!Account,
                           Ids!AccountAssumption
<1>14. CASE Ids!Restart
  BY <1>0, <1>a, <1>14 DEF Ids!Restart, Ids!Go, Ids!End, Ids!Exists, Ids!Nobody, Ids!NewRow,
                           Ids!Changed, Ids!Readers, IdTypes, RowTypes, RequestTypes, Ids!Account,
                           Ids!AccountAssumption
<1>15. CASE UNCHANGED Ids!vars
  BY <1>0, <1>15 DEF Ids!vars, Ids!Go, Ids!End, Ids!Exists, Ids!Nobody, Ids!NewRow, Ids!Changed,
                     Ids!Readers, IdTypes, RowTypes, RequestTypes, Ids!Account,
                     Ids!AccountAssumption
<1> QED BY <1>1, <1>2, <1>3, <1>4, <1>5, <1>6, <1>7, <1>8, <1>9, <1>10, <1>11, <1>12, <1>13,
           <1>14, <1>15 DEF Ids!Next, Ids!Serve

\* Every step keeps the entry's type.
LEMMA EntryTypesStep == IdsInv /\ [Ids!Next]_(Ids!vars) => EntryTypes'
<1> SUFFICES ASSUME IdsInv, [Ids!Next]_(Ids!vars) PROVE EntryTypes'
  OBVIOUS
<1>0. IdTypes BY DEF IdsInv
<1>a. Ids!AccountAssumption BY IdConstants
<1>1. ASSUME NEW t \in Thread, Ids!Ensure(t) PROVE EntryTypes'
  BY <1>0, <1>a, <1>1 DEF Ids!Ensure, Ids!Go, Ids!End, Ids!Exists, Ids!Nobody, Ids!NewRow,
                          Ids!Changed, Ids!Readers, IdTypes, EntryTypes, RequestTypes
<1>2. ASSUME NEW t \in Thread, Ids!Find(t) PROVE EntryTypes'
  BY <1>0, <1>a, <1>2 DEF Ids!Find, Ids!Go, Ids!End, Ids!Exists, Ids!Nobody, Ids!NewRow,
                          Ids!Changed, Ids!Readers, IdTypes, EntryTypes, RequestTypes
<1>3. ASSUME NEW t \in Thread, Ids!Insert(t) PROVE EntryTypes'
  BY <1>0, <1>a, <1>3 DEF Ids!Insert, Ids!Go, Ids!End, Ids!Exists, Ids!Nobody, Ids!NewRow,
                          Ids!Changed, Ids!Readers, IdTypes, EntryTypes, RequestTypes
<1>4. ASSUME NEW t \in Thread, Ids!Refind(t) PROVE EntryTypes'
  BY <1>0, <1>a, <1>4 DEF Ids!Refind, Ids!Go, Ids!End, Ids!Exists, Ids!Nobody, Ids!NewRow,
                          Ids!Changed, Ids!Readers, IdTypes, EntryTypes, RequestTypes
<1>5. ASSUME NEW t \in Thread, Ids!Put(t) PROVE EntryTypes'
  BY <1>0, <1>a, <1>5 DEF Ids!Put, Ids!Go, Ids!End, Ids!Exists, Ids!Nobody, Ids!NewRow,
                          Ids!Changed, Ids!Readers, IdTypes, EntryTypes, RequestTypes
<1>6. ASSUME NEW t \in Thread, Ids!Update(t) PROVE EntryTypes'
  BY <1>0, <1>a, <1>6 DEF Ids!Update, Ids!Go, Ids!End, Ids!Exists, Ids!Nobody, Ids!NewRow,
                          Ids!Changed, Ids!Readers, IdTypes, EntryTypes, RequestTypes
<1>7. ASSUME NEW t \in Thread, Ids!DeleteAccount(t) PROVE EntryTypes'
  BY <1>0, <1>a, <1>7 DEF Ids!DeleteAccount, Ids!Go, Ids!End, Ids!Exists, Ids!Nobody, Ids!NewRow,
                          Ids!Changed, Ids!Readers, IdTypes, EntryTypes, RequestTypes
<1>8. ASSUME NEW t \in Thread, Ids!Delete(t) PROVE EntryTypes'
  BY <1>0, <1>a, <1>8 DEF Ids!Delete, Ids!Go, Ids!End, Ids!Exists, Ids!Nobody, Ids!NewRow,
                          Ids!Changed, Ids!Readers, IdTypes, EntryTypes, RequestTypes
<1>9. ASSUME NEW t \in Thread, Ids!Erase(t) PROVE EntryTypes'
  <2>1. Ids!Nobody \in Ids!Account BY <1>a DEF Ids!Nobody, Ids!Account, Ids!AccountAssumption
  <2> QED BY <2>1, <1>9 DEF Ids!Erase, EntryTypes
<1>10. ASSUME NEW t \in Thread, Ids!DbError(t) PROVE EntryTypes'
  BY <1>0, <1>a, <1>10 DEF Ids!DbError, Ids!Go, Ids!End, Ids!Exists, Ids!Nobody, Ids!NewRow,
                           Ids!Changed, Ids!Readers, IdTypes, EntryTypes, RequestTypes
<1>11. ASSUME NEW t \in Thread, NEW f \in BOOLEAN, Ids!SetExempt(t, f) PROVE EntryTypes'
  BY <1>0, <1>a, <1>11 DEF Ids!SetExempt, Ids!Go, Ids!End, Ids!Exists, Ids!Nobody, Ids!NewRow,
                           Ids!Changed, Ids!Readers, IdTypes, EntryTypes, RequestTypes
<1>12. CASE Ids!Register
  BY <1>0, <1>a, <1>12 DEF Ids!Register, Ids!Go, Ids!End, Ids!Exists, Ids!Nobody, Ids!NewRow,
                           Ids!Changed, Ids!Readers, IdTypes, EntryTypes, RequestTypes
<1>13. CASE Ids!Expire
  <2>1. Ids!Nobody \in Ids!Account BY <1>a DEF Ids!Nobody, Ids!Account, Ids!AccountAssumption
  <2> QED BY <2>1, <1>13 DEF Ids!Expire, EntryTypes
<1>14. CASE Ids!Restart
  <2>1. Ids!Nobody \in Ids!Account BY <1>a DEF Ids!Nobody, Ids!Account, Ids!AccountAssumption
  <2> QED BY <2>1, <1>14 DEF Ids!Restart, EntryTypes
<1>15. CASE UNCHANGED Ids!vars
  BY <1>0, <1>15 DEF Ids!vars, Ids!Go, Ids!End, Ids!Exists, Ids!Nobody, Ids!NewRow, Ids!Changed,
                     Ids!Readers, IdTypes, EntryTypes, RequestTypes
<1> QED BY <1>1, <1>2, <1>3, <1>4, <1>5, <1>6, <1>7, <1>8, <1>9, <1>10, <1>11, <1>12, <1>13,
           <1>14, <1>15 DEF Ids!Next, Ids!Serve

\* Every step keeps the requests' types.
LEMMA RequestTypesStep == IdsInv /\ [Ids!Next]_(Ids!vars) => RequestTypes'
<1> SUFFICES ASSUME IdsInv, [Ids!Next]_(Ids!vars) PROVE RequestTypes'
  OBVIOUS
<1>0. IdTypes BY DEF IdsInv
<1>a. Ids!AccountAssumption BY IdConstants
<1>1. ASSUME NEW t \in Thread, Ids!Ensure(t) PROVE RequestTypes'
  BY <1>0, <1>a, <1>1 DEF Ids!Ensure, Ids!Go, Ids!End, Ids!Exists, Ids!Nobody, Ids!NewRow,
                          Ids!Changed, Ids!Readers, IdTypes, RowTypes, RequestTypes
<1>2. ASSUME NEW t \in Thread, Ids!Find(t) PROVE RequestTypes'
  BY <1>0, <1>a, <1>2 DEF Ids!Find, Ids!Go, Ids!End, Ids!Exists, Ids!Nobody, Ids!NewRow,
                          Ids!Changed, Ids!Readers, IdTypes, RowTypes, RequestTypes
<1>3. ASSUME NEW t \in Thread, Ids!Insert(t) PROVE RequestTypes'
  BY <1>0, <1>a, <1>3 DEF Ids!Insert, Ids!Go, Ids!End, Ids!Exists, Ids!Nobody, Ids!NewRow,
                          Ids!Changed, Ids!Readers, IdTypes, RowTypes, RequestTypes
<1>4. ASSUME NEW t \in Thread, Ids!Refind(t) PROVE RequestTypes'
  BY <1>0, <1>a, <1>4 DEF Ids!Refind, Ids!Go, Ids!End, Ids!Exists, Ids!Nobody, Ids!NewRow,
                          Ids!Changed, Ids!Readers, IdTypes, RowTypes, RequestTypes
<1>5. ASSUME NEW t \in Thread, Ids!Put(t) PROVE RequestTypes'
  <2>1. Ids!Nobody \in Ids!Account BY <1>a DEF Ids!Nobody, Ids!Account, Ids!AccountAssumption
  <2> QED BY <1>0, <2>1, <1>5 DEF Ids!Put, Ids!Go, Ids!End, IdTypes, RequestTypes
<1>6. ASSUME NEW t \in Thread, Ids!Update(t) PROVE RequestTypes'
  BY <1>0, <1>a, <1>6 DEF Ids!Update, Ids!Go, Ids!End, Ids!Exists, Ids!Nobody, Ids!NewRow,
                          Ids!Changed, Ids!Readers, IdTypes, RowTypes, RequestTypes
<1>7. ASSUME NEW t \in Thread, Ids!DeleteAccount(t) PROVE RequestTypes'
  BY <1>0, <1>a, <1>7 DEF Ids!DeleteAccount, Ids!Go, Ids!End, Ids!Exists, Ids!Nobody, Ids!NewRow,
                          Ids!Changed, Ids!Readers, IdTypes, RowTypes, RequestTypes
<1>8. ASSUME NEW t \in Thread, Ids!Delete(t) PROVE RequestTypes'
  BY <1>0, <1>a, <1>8 DEF Ids!Delete, Ids!Go, Ids!End, Ids!Exists, Ids!Nobody, Ids!NewRow,
                          Ids!Changed, Ids!Readers, IdTypes, RowTypes, RequestTypes
<1>9. ASSUME NEW t \in Thread, Ids!Erase(t) PROVE RequestTypes'
  <2>1. Ids!Nobody \in Ids!Account BY <1>a DEF Ids!Nobody, Ids!Account, Ids!AccountAssumption
  <2> QED BY <1>0, <2>1, <1>9 DEF Ids!Erase, Ids!Go, Ids!End, IdTypes, RequestTypes
<1>10. ASSUME NEW t \in Thread, Ids!DbError(t) PROVE RequestTypes'
  <2>1. Ids!Nobody \in Ids!Account BY <1>a DEF Ids!Nobody, Ids!Account, Ids!AccountAssumption
  <2>2. /\ idPc' = [idPc EXCEPT ![t] = "idle"] /\ idVal' = [idVal EXCEPT ![t] = Ids!Nobody]
        /\ passed' \subseteq Thread /\ idLate' \in BOOLEAN
    BY <1>0, <1>10 DEF Ids!DbError, Ids!Go, Ids!Readers, IdTypes, RequestTypes
  <2> QED BY <1>0, <2>1, <2>2 DEF IdTypes, RequestTypes
<1>11. ASSUME NEW t \in Thread, NEW f \in BOOLEAN, Ids!SetExempt(t, f) PROVE RequestTypes'
  <2>1. [id |-> 0, exempt |-> f] \in Ids!Account BY <1>a DEF Ids!Account, Ids!AccountAssumption
  <2> QED BY <1>0, <2>1, <1>11 DEF Ids!SetExempt, Ids!Go, IdTypes, RequestTypes
<1>12. CASE Ids!Register
  BY <1>0, <1>a, <1>12 DEF Ids!Register, Ids!Go, Ids!End, Ids!Exists, Ids!Nobody, Ids!NewRow,
                           Ids!Changed, Ids!Readers, IdTypes, RowTypes, RequestTypes
<1>13. CASE Ids!Expire
  BY <1>0, <1>a, <1>13 DEF Ids!Expire, Ids!Go, Ids!End, Ids!Exists, Ids!Nobody, Ids!NewRow,
                           Ids!Changed, Ids!Readers, IdTypes, RowTypes, RequestTypes
<1>14. CASE Ids!Restart
  <2>1. Ids!Nobody \in Ids!Account BY <1>a DEF Ids!Nobody, Ids!Account, Ids!AccountAssumption
  <2> QED BY <2>1, <1>14 DEF Ids!Restart, RequestTypes
<1>15. CASE UNCHANGED Ids!vars
  BY <1>0, <1>15 DEF Ids!vars, Ids!Go, Ids!End, Ids!Exists, Ids!Nobody, Ids!NewRow, Ids!Changed,
                     Ids!Readers, IdTypes, RowTypes, RequestTypes
<1> QED BY <1>1, <1>2, <1>3, <1>4, <1>5, <1>6, <1>7, <1>8, <1>9, <1>10, <1>11, <1>12, <1>13,
           <1>14, <1>15 DEF Ids!Next, Ids!Serve

\* Every step keeps what readers have, or passes them.
LEMMA ReadersStep == IdsInv /\ [Ids!Next]_(Ids!vars) => ReadersFollow'
<1> SUFFICES ASSUME IdsInv, [Ids!Next]_(Ids!vars) PROVE ReadersFollow'
  OBVIOUS
<1>0. IdTypes /\ ReadersFollow BY DEF IdsInv
<1>a. Ids!AccountAssumption BY IdConstants
<1>1. ASSUME NEW t \in Thread, Ids!Ensure(t) PROVE ReadersFollow'
  BY <1>0, <1>a, <1>1 DEF Ids!Ensure, Ids!Go, Ids!End, Ids!Exists, Ids!Nobody, Ids!NewRow,
                          Ids!Changed, Ids!Readers, IdTypes, RowTypes, EntryTypes, RequestTypes,
                          Ids!Account, ReadersFollow
<1>2. ASSUME NEW t \in Thread, Ids!Find(t) PROVE ReadersFollow'
  BY <1>0, <1>a, <1>2 DEF Ids!Find, Ids!Go, Ids!End, Ids!Exists, Ids!Nobody, Ids!NewRow,
                          Ids!Changed, Ids!Readers, IdTypes, RowTypes, EntryTypes, RequestTypes,
                          Ids!Account, ReadersFollow
<1>3. ASSUME NEW t \in Thread, Ids!Insert(t) PROVE ReadersFollow'
  BY <1>0, <1>a, <1>3 DEF Ids!Insert, Ids!Go, Ids!End, Ids!Exists, Ids!Nobody, Ids!NewRow,
                          Ids!Changed, Ids!Readers, IdTypes, RowTypes, EntryTypes, RequestTypes,
                          Ids!Account, ReadersFollow
<1>4. ASSUME NEW t \in Thread, Ids!Refind(t) PROVE ReadersFollow'
  BY <1>0, <1>a, <1>4 DEF Ids!Refind, Ids!Go, Ids!End, Ids!Exists, Ids!Nobody, Ids!NewRow,
                          Ids!Changed, Ids!Readers, IdTypes, RowTypes, EntryTypes, RequestTypes,
                          Ids!Account, ReadersFollow
<1>5. ASSUME NEW t \in Thread, Ids!Put(t) PROVE ReadersFollow'
  BY <1>0, <1>a, <1>5 DEF Ids!Put, Ids!Go, Ids!End, Ids!Exists, Ids!Nobody, Ids!NewRow,
                          Ids!Changed, Ids!Readers, IdTypes, RowTypes, EntryTypes, RequestTypes,
                          Ids!Account, ReadersFollow
<1>6. ASSUME NEW t \in Thread, Ids!Update(t) PROVE ReadersFollow'
  BY <1>0, <1>a, <1>6 DEF Ids!Update, Ids!Go, Ids!End, Ids!Exists, Ids!Nobody, Ids!NewRow,
                          Ids!Changed, Ids!Readers, IdTypes, RowTypes, EntryTypes, RequestTypes,
                          Ids!Account, ReadersFollow
<1>7. ASSUME NEW t \in Thread, Ids!DeleteAccount(t) PROVE ReadersFollow'
  BY <1>0, <1>a, <1>7 DEF Ids!DeleteAccount, Ids!Go, Ids!End, Ids!Exists, Ids!Nobody, Ids!NewRow,
                          Ids!Changed, Ids!Readers, IdTypes, RowTypes, EntryTypes, RequestTypes,
                          Ids!Account, ReadersFollow
<1>8. ASSUME NEW t \in Thread, Ids!Delete(t) PROVE ReadersFollow'
  BY <1>0, <1>a, <1>8 DEF Ids!Delete, Ids!Go, Ids!End, Ids!Exists, Ids!Nobody, Ids!NewRow,
                          Ids!Changed, Ids!Readers, IdTypes, RowTypes, EntryTypes, RequestTypes,
                          Ids!Account, ReadersFollow
<1>9. ASSUME NEW t \in Thread, Ids!Erase(t) PROVE ReadersFollow'
  BY <1>0, <1>a, <1>9 DEF Ids!Erase, Ids!Go, Ids!End, Ids!Exists, Ids!Nobody, Ids!NewRow,
                          Ids!Changed, Ids!Readers, IdTypes, RowTypes, EntryTypes, RequestTypes,
                          Ids!Account, ReadersFollow
<1>10. ASSUME NEW t \in Thread, Ids!DbError(t) PROVE ReadersFollow'
  BY <1>0, <1>a, <1>10 DEF Ids!DbError, Ids!Go, Ids!End, Ids!Exists, Ids!Nobody, Ids!NewRow,
                           Ids!Changed, Ids!Readers, IdTypes, RowTypes, EntryTypes, RequestTypes,
                           Ids!Account, ReadersFollow
<1>11. ASSUME NEW t \in Thread, NEW f \in BOOLEAN, Ids!SetExempt(t, f) PROVE ReadersFollow'
  BY <1>0, <1>a, <1>11 DEF Ids!SetExempt, Ids!Go, Ids!End, Ids!Exists, Ids!Nobody, Ids!NewRow,
                           Ids!Changed, Ids!Readers, IdTypes, RowTypes, EntryTypes, RequestTypes,
                           Ids!Account, ReadersFollow
<1>12. CASE Ids!Register
  BY <1>0, <1>a, <1>12 DEF Ids!Register, Ids!Go, Ids!End, Ids!Exists, Ids!Nobody, Ids!NewRow,
                           Ids!Changed, Ids!Readers, IdTypes, RowTypes, EntryTypes, RequestTypes,
                           Ids!Account, ReadersFollow
<1>13. CASE Ids!Expire
  BY <1>0, <1>a, <1>13 DEF Ids!Expire, Ids!Go, Ids!End, Ids!Exists, Ids!Nobody, Ids!NewRow,
                           Ids!Changed, Ids!Readers, IdTypes, RowTypes, EntryTypes, RequestTypes,
                           Ids!Account, ReadersFollow
<1>14. CASE Ids!Restart
  BY <1>0, <1>a, <1>14 DEF Ids!Restart, Ids!Go, Ids!End, Ids!Exists, Ids!Nobody, Ids!NewRow,
                           Ids!Changed, Ids!Readers, IdTypes, RowTypes, EntryTypes, RequestTypes,
                           Ids!Account, ReadersFollow
<1>15. CASE UNCHANGED Ids!vars
  BY <1>0, <1>15 DEF Ids!vars, Ids!Go, Ids!End, Ids!Exists, Ids!Nobody, Ids!NewRow, Ids!Changed,
                     Ids!Readers, IdTypes, RowTypes, EntryTypes, RequestTypes, Ids!Account,
                     ReadersFollow
<1> QED BY <1>1, <1>2, <1>3, <1>4, <1>5, <1>6, <1>7, <1>8, <1>9, <1>10, <1>11, <1>12, <1>13,
           <1>14, <1>15 DEF Ids!Next, Ids!Serve

\* Only accounts are put into the cache.
LEMMA CachedStep == IdsInv /\ [Ids!Next]_(Ids!vars) => CachedIsAccount'
<1> SUFFICES ASSUME IdsInv, [Ids!Next]_(Ids!vars) PROVE CachedIsAccount'
  OBVIOUS
<1>0. IdTypes /\ CachedIsAccount BY DEF IdsInv
<1>a. Ids!AccountAssumption BY IdConstants
<1>1. ASSUME NEW t \in Thread, Ids!Ensure(t) PROVE CachedIsAccount'
  BY <1>0, <1>a, <1>1 DEF Ids!Ensure, Ids!Go, Ids!End, Ids!Exists, Ids!Nobody, Ids!NewRow,
                          Ids!Changed, Ids!Readers, IdTypes, RowTypes, EntryTypes, RequestTypes,
                          Ids!Account, CachedIsAccount
<1>2. ASSUME NEW t \in Thread, Ids!Find(t) PROVE CachedIsAccount'
  BY <1>0, <1>a, <1>2 DEF Ids!Find, Ids!Go, Ids!End, Ids!Exists, Ids!Nobody, Ids!NewRow,
                          Ids!Changed, Ids!Readers, IdTypes, RowTypes, EntryTypes, RequestTypes,
                          Ids!Account, CachedIsAccount
<1>3. ASSUME NEW t \in Thread, Ids!Insert(t) PROVE CachedIsAccount'
  BY <1>0, <1>a, <1>3 DEF Ids!Insert, Ids!Go, Ids!End, Ids!Exists, Ids!Nobody, Ids!NewRow,
                          Ids!Changed, Ids!Readers, IdTypes, RowTypes, EntryTypes, RequestTypes,
                          Ids!Account, CachedIsAccount
<1>4. ASSUME NEW t \in Thread, Ids!Refind(t) PROVE CachedIsAccount'
  BY <1>0, <1>a, <1>4 DEF Ids!Refind, Ids!Go, Ids!End, Ids!Exists, Ids!Nobody, Ids!NewRow,
                          Ids!Changed, Ids!Readers, IdTypes, RowTypes, EntryTypes, RequestTypes,
                          Ids!Account, CachedIsAccount
<1>5. ASSUME NEW t \in Thread, Ids!Put(t) PROVE CachedIsAccount'
  BY <1>0, <1>a, <1>5 DEF Ids!Put, Ids!Go, Ids!End, Ids!Exists, Ids!Nobody, Ids!NewRow,
                          Ids!Changed, Ids!Readers, IdTypes, RowTypes, EntryTypes, RequestTypes,
                          Ids!Account, CachedIsAccount
<1>6. ASSUME NEW t \in Thread, Ids!Update(t) PROVE CachedIsAccount'
  BY <1>0, <1>a, <1>6 DEF Ids!Update, Ids!Go, Ids!End, Ids!Exists, Ids!Nobody, Ids!NewRow,
                          Ids!Changed, Ids!Readers, IdTypes, RowTypes, EntryTypes, RequestTypes,
                          Ids!Account, CachedIsAccount
<1>7. ASSUME NEW t \in Thread, Ids!DeleteAccount(t) PROVE CachedIsAccount'
  BY <1>0, <1>a, <1>7 DEF Ids!DeleteAccount, Ids!Go, Ids!End, Ids!Exists, Ids!Nobody, Ids!NewRow,
                          Ids!Changed, Ids!Readers, IdTypes, RowTypes, EntryTypes, RequestTypes,
                          Ids!Account, CachedIsAccount
<1>8. ASSUME NEW t \in Thread, Ids!Delete(t) PROVE CachedIsAccount'
  BY <1>0, <1>a, <1>8 DEF Ids!Delete, Ids!Go, Ids!End, Ids!Exists, Ids!Nobody, Ids!NewRow,
                          Ids!Changed, Ids!Readers, IdTypes, RowTypes, EntryTypes, RequestTypes,
                          Ids!Account, CachedIsAccount
<1>9. ASSUME NEW t \in Thread, Ids!Erase(t) PROVE CachedIsAccount'
  BY <1>0, <1>a, <1>9 DEF Ids!Erase, Ids!Go, Ids!End, Ids!Exists, Ids!Nobody, Ids!NewRow,
                          Ids!Changed, Ids!Readers, IdTypes, RowTypes, EntryTypes, RequestTypes,
                          Ids!Account, CachedIsAccount
<1>10. ASSUME NEW t \in Thread, Ids!DbError(t) PROVE CachedIsAccount'
  BY <1>0, <1>a, <1>10 DEF Ids!DbError, Ids!Go, Ids!End, Ids!Exists, Ids!Nobody, Ids!NewRow,
                           Ids!Changed, Ids!Readers, IdTypes, RowTypes, EntryTypes, RequestTypes,
                           Ids!Account, CachedIsAccount
<1>11. ASSUME NEW t \in Thread, NEW f \in BOOLEAN, Ids!SetExempt(t, f) PROVE CachedIsAccount'
  BY <1>0, <1>a, <1>11 DEF Ids!SetExempt, Ids!Go, Ids!End, Ids!Exists, Ids!Nobody, Ids!NewRow,
                           Ids!Changed, Ids!Readers, IdTypes, RowTypes, EntryTypes, RequestTypes,
                           Ids!Account, CachedIsAccount
<1>12. CASE Ids!Register
  BY <1>0, <1>a, <1>12 DEF Ids!Register, Ids!Go, Ids!End, Ids!Exists, Ids!Nobody, Ids!NewRow,
                           Ids!Changed, Ids!Readers, IdTypes, RowTypes, EntryTypes, RequestTypes,
                           Ids!Account, CachedIsAccount
<1>13. CASE Ids!Expire
  BY <1>0, <1>a, <1>13 DEF Ids!Expire, Ids!Go, Ids!End, Ids!Exists, Ids!Nobody, Ids!NewRow,
                           Ids!Changed, Ids!Readers, IdTypes, RowTypes, EntryTypes, RequestTypes,
                           Ids!Account, CachedIsAccount
<1>14. CASE Ids!Restart
  BY <1>0, <1>a, <1>14 DEF Ids!Restart, Ids!Go, Ids!End, Ids!Exists, Ids!Nobody, Ids!NewRow,
                           Ids!Changed, Ids!Readers, IdTypes, RowTypes, EntryTypes, RequestTypes,
                           Ids!Account, CachedIsAccount
<1>15. CASE UNCHANGED Ids!vars
  BY <1>0, <1>15 DEF Ids!vars, Ids!Go, Ids!End, Ids!Exists, Ids!Nobody, Ids!NewRow, Ids!Changed,
                     Ids!Readers, IdTypes, RowTypes, EntryTypes, RequestTypes, Ids!Account,
                     CachedIsAccount
<1> QED BY <1>1, <1>2, <1>3, <1>4, <1>5, <1>6, <1>7, <1>8, <1>9, <1>10, <1>11, <1>12, <1>13,
           <1>14, <1>15 DEF Ids!Next, Ids!Serve

\* Every step keeps the cache with the row.
LEMMA RowStep == IdsInv /\ [Ids!Next]_(Ids!vars) => Ids!CacheFollowsRow'
<1> SUFFICES ASSUME IdsInv, [Ids!Next]_(Ids!vars) PROVE Ids!CacheFollowsRow'
  OBVIOUS
<1>0. IdTypes /\ ReadersFollow /\ CachedIsAccount /\ Ids!CacheFollowsRow BY DEF IdsInv
<1>a. Ids!AccountAssumption BY IdConstants
<1>1. ASSUME NEW t \in Thread, Ids!Ensure(t) PROVE Ids!CacheFollowsRow'
  BY <1>0, <1>a, <1>1 DEF Ids!Ensure, Ids!Go, Ids!End, Ids!Exists, Ids!Nobody, Ids!NewRow,
                          Ids!Changed, Ids!Readers, IdTypes, RowTypes, EntryTypes, RequestTypes,
                          Ids!Account, ReadersFollow, CachedIsAccount, Ids!CacheFollowsRow
<1>2. ASSUME NEW t \in Thread, Ids!Find(t) PROVE Ids!CacheFollowsRow'
  BY <1>0, <1>a, <1>2 DEF Ids!Find, Ids!Go, Ids!End, Ids!Exists, Ids!Nobody, Ids!NewRow,
                          Ids!Changed, Ids!Readers, IdTypes, RowTypes, EntryTypes, RequestTypes,
                          Ids!Account, ReadersFollow, CachedIsAccount, Ids!CacheFollowsRow
<1>3. ASSUME NEW t \in Thread, Ids!Insert(t) PROVE Ids!CacheFollowsRow'
  BY <1>0, <1>a, <1>3 DEF Ids!Insert, Ids!Go, Ids!End, Ids!Exists, Ids!Nobody, Ids!NewRow,
                          Ids!Changed, Ids!Readers, IdTypes, RowTypes, EntryTypes, RequestTypes,
                          Ids!Account, ReadersFollow, CachedIsAccount, Ids!CacheFollowsRow
<1>4. ASSUME NEW t \in Thread, Ids!Refind(t) PROVE Ids!CacheFollowsRow'
  BY <1>0, <1>a, <1>4 DEF Ids!Refind, Ids!Go, Ids!End, Ids!Exists, Ids!Nobody, Ids!NewRow,
                          Ids!Changed, Ids!Readers, IdTypes, RowTypes, EntryTypes, RequestTypes,
                          Ids!Account, ReadersFollow, CachedIsAccount, Ids!CacheFollowsRow
<1>5. ASSUME NEW t \in Thread, Ids!Put(t) PROVE Ids!CacheFollowsRow'
  BY <1>0, <1>a, <1>5 DEF Ids!Put, Ids!Go, Ids!End, Ids!Exists, Ids!Nobody, Ids!NewRow,
                          Ids!Changed, Ids!Readers, IdTypes, RowTypes, EntryTypes, RequestTypes,
                          Ids!Account, ReadersFollow, CachedIsAccount, Ids!CacheFollowsRow
<1>6. ASSUME NEW t \in Thread, Ids!Update(t) PROVE Ids!CacheFollowsRow'
  BY <1>0, <1>a, <1>6 DEF Ids!Update, Ids!Go, Ids!End, Ids!Exists, Ids!Nobody, Ids!NewRow,
                          Ids!Changed, Ids!Readers, IdTypes, RowTypes, EntryTypes, RequestTypes,
                          Ids!Account, ReadersFollow, CachedIsAccount, Ids!CacheFollowsRow
<1>7. ASSUME NEW t \in Thread, Ids!DeleteAccount(t) PROVE Ids!CacheFollowsRow'
  BY <1>0, <1>a, <1>7 DEF Ids!DeleteAccount, Ids!Go, Ids!End, Ids!Exists, Ids!Nobody, Ids!NewRow,
                          Ids!Changed, Ids!Readers, IdTypes, RowTypes, EntryTypes, RequestTypes,
                          Ids!Account, ReadersFollow, CachedIsAccount, Ids!CacheFollowsRow
<1>8. ASSUME NEW t \in Thread, Ids!Delete(t) PROVE Ids!CacheFollowsRow'
  BY <1>0, <1>a, <1>8 DEF Ids!Delete, Ids!Go, Ids!End, Ids!Exists, Ids!Nobody, Ids!NewRow,
                          Ids!Changed, Ids!Readers, IdTypes, RowTypes, EntryTypes, RequestTypes,
                          Ids!Account, ReadersFollow, CachedIsAccount, Ids!CacheFollowsRow
<1>9. ASSUME NEW t \in Thread, Ids!Erase(t) PROVE Ids!CacheFollowsRow'
  BY <1>0, <1>a, <1>9 DEF Ids!Erase, Ids!Go, Ids!End, Ids!Exists, Ids!Nobody, Ids!NewRow,
                          Ids!Changed, Ids!Readers, IdTypes, RowTypes, EntryTypes, RequestTypes,
                          Ids!Account, ReadersFollow, CachedIsAccount, Ids!CacheFollowsRow
<1>10. ASSUME NEW t \in Thread, Ids!DbError(t) PROVE Ids!CacheFollowsRow'
  <2>1. UNCHANGED cache /\ \E where \in {"find", "insert", "refind", "update", "delete"} : Ids!Go(t, where, "idle")
    BY <1>10 DEF Ids!DbError
  <2>2. \A u \in Thread : idPc[u] = "erase" => idPc'[u] = "erase"
    BY <1>0, <2>1 DEF Ids!Go, IdTypes, RequestTypes
  <2>3. CASE UNCHANGED <<row, idLate>> BY <1>0, <2>1, <2>2, <2>3 DEF Ids!CacheFollowsRow
  <2>4. CASE ~Ids!Exists /\ UNCHANGED idLate
    BY <1>0, <2>1, <2>2, <2>4 DEF Ids!CacheFollowsRow, Ids!Exists, CachedIsAccount
  <2>5. CASE idLate' = (cache # Ids!Nobody) BY <2>1, <2>5 DEF Ids!CacheFollowsRow
  <2> QED BY <2>3, <2>4, <2>5, <1>10 DEF Ids!DbError
<1>11. ASSUME NEW t \in Thread, NEW f \in BOOLEAN, Ids!SetExempt(t, f) PROVE Ids!CacheFollowsRow'
  BY <1>0, <1>a, <1>11 DEF Ids!SetExempt, Ids!Go, Ids!End, Ids!Exists, Ids!Nobody, Ids!NewRow,
                           Ids!Changed, Ids!Readers, IdTypes, RowTypes, EntryTypes, RequestTypes,
                           Ids!Account, ReadersFollow, CachedIsAccount, Ids!CacheFollowsRow
<1>12. CASE Ids!Register
  BY <1>0, <1>a, <1>12 DEF Ids!Register, Ids!Go, Ids!End, Ids!Exists, Ids!Nobody, Ids!NewRow,
                           Ids!Changed, Ids!Readers, IdTypes, RowTypes, EntryTypes, RequestTypes,
                           Ids!Account, ReadersFollow, CachedIsAccount, Ids!CacheFollowsRow
<1>13. CASE Ids!Expire
  BY <1>0, <1>a, <1>13 DEF Ids!Expire, Ids!Go, Ids!End, Ids!Exists, Ids!Nobody, Ids!NewRow,
                           Ids!Changed, Ids!Readers, IdTypes, RowTypes, EntryTypes, RequestTypes,
                           Ids!Account, ReadersFollow, CachedIsAccount, Ids!CacheFollowsRow
<1>14. CASE Ids!Restart
  BY <1>0, <1>a, <1>14 DEF Ids!Restart, Ids!Go, Ids!End, Ids!Exists, Ids!Nobody, Ids!NewRow,
                           Ids!Changed, Ids!Readers, IdTypes, RowTypes, EntryTypes, RequestTypes,
                           Ids!Account, ReadersFollow, CachedIsAccount, Ids!CacheFollowsRow
<1>15. CASE UNCHANGED Ids!vars
  BY <1>0, <1>15 DEF Ids!vars, Ids!Go, Ids!End, Ids!Exists, Ids!Nobody, Ids!NewRow, Ids!Changed,
                     Ids!Readers, IdTypes, RowTypes, EntryTypes, RequestTypes, Ids!Account,
                     ReadersFollow, CachedIsAccount, Ids!CacheFollowsRow
<1> QED BY <1>1, <1>2, <1>3, <1>4, <1>5, <1>6, <1>7, <1>8, <1>9, <1>10, <1>11, <1>12, <1>13,
           <1>14, <1>15 DEF Ids!Next, Ids!Serve

\* Every step keeps all of it.
LEMMA IdsStep == IdsInv /\ [Ids!Next]_(Ids!vars) => IdsInv'
BY RowTypesStep, EntryTypesStep, RequestTypesStep, ReadersStep, CachedStep, RowStep DEF IdsInv,
   IdTypes

\* Nothing is cached at first.
LEMMA IdsFirst == Ids!Init => IdsInv
<1> SUFFICES ASSUME Ids!Init PROVE IdsInv
  OBVIOUS
<1>1. Ids!Nobody \in Ids!Account /\ Ids!Nobody.id = 0 /\ MaxId \in Nat
  BY IdConstants DEF Ids!AccountAssumption, Ids!Nobody, Ids!Account
<1>2. IdTypes
  <2>1. RowTypes
    <3>1. row = Ids!Nobody /\ ids = 0 /\ row.id = 0 BY DEF Ids!Init, Ids!Nobody
    <3> QED BY <1>1, <3>1 DEF RowTypes
  <2>2. EntryTypes BY <1>1 DEF Ids!Init, EntryTypes
  <2>3. RequestTypes BY <1>1 DEF Ids!Init, RequestTypes
  <2> QED BY <2>1, <2>2, <2>3 DEF IdTypes
<1>3. ReadersFollow /\ CachedIsAccount /\ Ids!CacheFollowsRow
  BY DEF Ids!Init, ReadersFollow, CachedIsAccount, Ids!CacheFollowsRow, Ids!Readers
<1> QED BY <1>2, <1>3 DEF IdsInv

\* What the property says follows.
LEMMA IdsShow == IdsInv => Ids!TypeOK /\ Ids!CacheFollowsRow
BY DEF IdsInv, IdTypes, RowTypes, EntryTypes, RequestTypes, Ids!TypeOK, Ids!Readers

-----------------------------------------------------------------------------
(* All three, of which one moves.                                          *)

StorageInv == SaveInv /\ ListInv /\ IdsInv

\* Whoever does not move keeps its part.
LEMMA Parts ==
  [Next]_<<part, saves, lists, rows>> =>
    [Saves!Next]_(Saves!vars) /\ [List!Next]_(List!vars) /\ [Ids!Next]_(Ids!vars)
<1>1. UNCHANGED saves => UNCHANGED Saves!vars
  BY DEF saves, Saves!vars, Saves!request, Saves!count, Saves!history
<1>2. UNCHANGED lists => UNCHANGED List!vars
  BY DEF lists, List!vars, List!request, List!count, List!history
<1>3. UNCHANGED rows => UNCHANGED Ids!vars BY DEF rows, Ids!vars
<1> QED BY <1>1, <1>2, <1>3 DEF Next

\* The first state has all of it, and every step keeps it.
LEMMA StorageFirst == Init => StorageInv
BY SaveFirst, ListFirst, IdsFirst DEF Init, StorageInv
\* Of the three steps one is a step of its part, the others change nothing.
LEMMA StorageStep == StorageInv /\ [Next]_<<part, saves, lists, rows>> => StorageInv'
BY Parts, SaveStep, ListStep, IdsStep DEF StorageInv

\* The invariant of the saves, of the list and of the cache is one of every
\* behaviour.
THEOREM StorageInvariant == Spec => []StorageInv
BY StorageFirst, StorageStep, PTL DEF Spec

\* A download brings the save last written, whole, or none after delete_save
\* (save_cloud and load_cloud of storage.cpp).
THEOREM StorageSaveIsTheLast == Spec => []SaveIsTheLast
<1>1. StorageInv => SaveIsTheLast BY SaveShows DEF StorageInv, SaveIsTheLast
<1> QED BY <1>1, StorageInvariant, PTL

\* findSave describes the save a download would bring, and no save is without an
\* account but those of a deleted one (ensure_account in save_cloud, delete_account).
THEOREM StorageSavesInOrder == Spec => []SavesInOrder
<1>1. StorageInv => SavesInOrder BY SaveShows DEF StorageInv, SavesInOrder
<1> QED BY <1>1, StorageInvariant, PTL

\* A player is given a save no earlier than a week after the last one, but for the
\* named ways a mark is lost (handle_download_save, mark_manual_download).
THEOREM StorageCooldownKept == Spec => CooldownKept
<1>1. StorageInv => [Distance]_(Saves!vars) BY KeepsDistance DEF StorageInv
<1>2. CooldownKept <=> [][Distance]_(Saves!vars) BY PTL DEF CooldownKept, Saves!CooldownKept,
                                                            Distance
<1> QED BY <1>1, <1>2, StorageInvariant, PTL

\* An upload marks what it puts in the file by the list.
Looks == \A t \in Thread, x \in ListAcc :
           List!Upload(t, x) /\ ~apart' => (blBlob'[t] = "marked") = (x \in file.accs)

\* Changes of the list stay in the file, uploads are marked by the file, and the
\* saves of forced accounts are marked (set_bl_forced and is_bl_forced of
\* storage.cpp, enforce_bl_policy of handlers.cpp).
THEOREM StorageListHolds == Spec => ListHolds
<1>1. StorageInv => List!TypeOK /\ List!ChangesStay /\ List!ForcedIsMarked
  BY ListShows DEF StorageInv
<1>2. StorageInv /\ [Next]_<<part, saves, lists, rows>> => [Looks]_(List!vars)
  BY Parts, UploadLooks DEF StorageInv, Looks
<1>3. ListHolds <=> []List!TypeOK /\ []List!ChangesStay /\ []List!ForcedIsMarked /\ [][Looks]_(List!vars)
  BY PTL DEF ListHolds, List!ListHolds, List!MarkFollowsFile, Looks
<1> QED BY <1>1, <1>2, <1>3, StorageInvariant, PTL DEF Spec

\* The cached account is the one in the table, but for a row that was changed
\* between the reading and the putting (ensure_account, set_bl_exempt).
THEOREM StorageCacheFollowsRow == Spec => []CacheFollowsRow
<1>1. StorageInv => CacheFollowsRow BY IdsShow DEF StorageInv, CacheFollowsRow
<1> QED BY <1>1, StorageInvariant, PTL
===============================================================================
