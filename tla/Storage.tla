-------------------------------- MODULE Storage --------------------------------
(* CloudSave, BlForce and AccountCache side by side (storage.cpp).  They   *)
(* share no variable, and no property is about two of them: behaviours in  *)
(* which one of them moves show all there is to see.  part says which.     *)
EXTENDS Naturals

CONSTANTS
  Thread, None,
  SaveAcc, Stripe, Legacy, Exempt, Week, \* of CloudSave
  MaxRequests, MaxTime, MaxFaults, MaxCrashes,
  ListAcc, ListTime, MaxEdits, ListFaults, ListCrashes, \* of BlForce
  MaxId, IdFaults, IdCrashes \* of AccountCache

VARIABLES
  part,
  blob, meta, account, lock, pc, acc, val, kept, bl, now, requests, faults, crashes,
  last, served, over, torn, unmarked, gone,
  file, list, blLock, save, blPc, blAcc, forced, blBlob, blNow, edits, blFaults, blCrashes,
  want, raced, apart, exempt,
  row, cache, ids, idPc, idVal, idFaults, idCrashes, passed, idLate

saves == <<blob, meta, account, lock, pc, acc, val, kept, bl, now, requests, faults, crashes,
           last, served, over, torn, unmarked, gone>>
lists == <<file, list, blLock, save, blPc, blAcc, forced, blBlob, blNow, edits, blFaults,
           blCrashes, want, raced, apart, exempt>>
rows  == <<row, cache, ids, idPc, idVal, idFaults, idCrashes, passed, idLate>>

Saves == INSTANCE CloudSave WITH Acc <- SaveAcc

List == INSTANCE BlForce WITH
  Acc <- ListAcc, MaxTime <- ListTime, MaxFaults <- ListFaults, MaxCrashes <- ListCrashes,
  lock <- blLock, pc <- blPc, acc <- blAcc, blob <- blBlob, now <- blNow,
  faults <- blFaults, crashes <- blCrashes

Ids == INSTANCE AccountCache WITH
  MaxFaults <- IdFaults, MaxCrashes <- IdCrashes,
  pc <- idPc, val <- idVal, faults <- idFaults, crashes <- idCrashes, late <- idLate

ASSUME SaveConstants == Saves!SaveAssumption
ASSUME ListConstants == List!BlForceAssumption
ASSUME IdConstants   == Ids!AccountAssumption

Init ==
  /\ part \in {"saves", "list", "ids"}
  /\ Saves!Init /\ List!Init /\ Ids!Init
  /\ part # "saves" => account = {}

Next ==
  \/ part = "saves" /\ Saves!Next /\ UNCHANGED <<part, lists, rows>>
  \/ part = "list" /\ List!Next /\ UNCHANGED <<part, saves, rows>>
  \/ part = "ids" /\ Ids!Next /\ UNCHANGED <<part, saves, lists>>

Spec == Init /\ [][Next]_<<part, saves, lists, rows>>

-----------------------------------------------------------------------------
(* The properties of the modules, which state them at length.              *)

\* A download brings the save last written, whole.
SaveIsTheLast == part = "saves" => Saves!SaveIsTheLast
\* findSave describes the save, and saves and accounts go together.
SavesInOrder == part = "saves" => Saves!SavesInOrder
\* Downloads keep their distance, but for the named ways a mark is lost.
CooldownKept == Saves!CooldownKept
\* An account is deleted with its saves (README.md:76).
DeletedWithSaves == part = "saves" => Saves!DeletedWithSaves

\* Changes of the list stay, and uploads and the route mark saves by the file.
ListHolds == List!ListHolds

\* The cached account is the one in the table.
CacheFollowsRow == part = "ids" => Ids!TypeOK /\ Ids!CacheFollowsRow
===============================================================================
