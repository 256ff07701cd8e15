-------------------------------- MODULE BlForce --------------------------------
(***************************************************************************)
(* The list of forced accounts (storage.cpp, admin.cpp): bl_force.json,    *)
(* its copy in memory with the file's time, the route that enters an       *)
(* account and then rewrites its cloud saves, and the uploads and          *)
(* downloads that mark or clean a save by the list (enforce_bl_policy).    *)
(* The operator may replace the file while the server runs.                *)
(*                                                                         *)
(* Of a save only the mark "bl" is modelled; every account has one area.   *)
(***************************************************************************)
EXTENDS Naturals, FiniteSets

CONSTANTS Thread, Acc, None, MaxTime, MaxEdits, MaxFaults, MaxCrashes

BlForceAssumption ==
  /\ None \notin Thread \cup Acc
  /\ {MaxEdits, MaxFaults, MaxCrashes} \subseteq Nat /\ MaxTime \in Nat \ {0}

VARIABLES
  file,     \* bl_force.json: the accounts and the file's time
  list,     \* g_bl_force with g_bl_force_mtime; time 0 when not loaded
  lock,     \* the owner of g_bl_force_mu
  save,     \* the cloud saves: "none", "plain" or "marked"
  pc, acc, forced, \* where a request is, and what it is about
  blob,     \* the save it has in hand
  now, edits, faults, crashes,
  want,     \* history: whether an account's last change entered it
  raced,    \* history: accounts the operator changed while the file was written
  apart,    \* history: the list is not the file's although the times agree
  exempt    \* history: forced accounts with a save the route did not get at

request == <<pc, acc, forced, blob>>
count   == <<now, edits, faults, crashes>>
history == <<want, raced, apart, exempt>>
vars == <<file, list, lock, save, request, count, history>>

Init ==
  /\ file = [accs |-> {}, time |-> 1] /\ list = [accs |-> {}, time |-> 0] /\ lock = None
  /\ save = [x \in Acc |-> "none"]
  /\ pc = [t \in Thread |-> "idle"] /\ acc = [t \in Thread |-> None]
  /\ forced = [t \in Thread |-> FALSE] /\ blob = [t \in Thread |-> "none"]
  /\ now = 1 /\ edits = 0 /\ faults = 0 /\ crashes = 0
  /\ want = [x \in Acc |-> FALSE] /\ raced = {} /\ apart = FALSE /\ exempt = {}

Go(t, where) == pc' = [pc EXCEPT ![t] = where]
Busy(x) == \E t \in Thread : acc[t] = x
\* Uploads that were found not forced, and have yet to be written.
Plain(x) == {t \in Thread : pc[t] = "write" /\ acc[t] = x /\ blob[t] = "plain"}

-----------------------------------------------------------------------------
(* Faulty variants of the operators below, which a property must find.     *)

\* The file is never looked at again once it was loaded.
OnceLoaded == list.time # 0

-----------------------------------------------------------------------------
(* The file and the list.                                                  *)

Tick ==
  /\ now < MaxTime /\ now' = now + 1
  /\ UNCHANGED <<file, list, lock, save, request, edits, faults, crashes, history>>

\* The operator replaces the file.
EditFile(accs) ==
  LET changed == {x \in Acc : (x \in accs) # (x \in file.accs)} IN
  /\ edits < MaxEdits /\ edits' = edits + 1 /\ changed # {}
  /\ file' = [accs |-> accs, time |-> now]
  /\ want' = [x \in Acc |-> IF x \in changed THEN x \in accs ELSE want[x]]
  /\ raced' = IF \E t \in Thread : pc[t] = "persist" THEN raced \cup changed ELSE raced
  /\ apart' = (apart \/ list.time = now)
  /\ exempt' = exempt \cup (changed \cap accs)
  /\ UNCHANGED <<list, lock, save, request, now, faults, crashes>>

\* load_bl_force_unlocked
Fresh == list.time = file.time
Loaded == IF Fresh THEN list ELSE file
Reloaded == file
Hold(t) == lock' = t

Start(t, x, where) ==
  /\ pc[t] = "idle" /\ Go(t, where) /\ acc' = [acc EXCEPT ![t] = x]

End(t) ==
  /\ Go(t, "idle") /\ acc' = [acc EXCEPT ![t] = None]
  /\ forced' = [forced EXCEPT ![t] = FALSE] /\ blob' = [blob EXCEPT ![t] = "none"]

-----------------------------------------------------------------------------
(* /admin/api/account/bl-force                                             *)

\* set_bl_forced: nothing to do, or the list changes ...
SetForced(t, x, f) ==
  /\ lock = None /\ apart' = FALSE
  /\ forced' = [forced EXCEPT ![t] = f]
  /\ IF (x \in Reloaded.accs) = f
     THEN Start(t, x, "saves") /\ list' = Reloaded /\ lock' = lock
     ELSE /\ Start(t, x, "persist") /\ Hold(t)
          /\ list' = [Reloaded EXCEPT !.accs = IF f THEN @ \cup {x} ELSE @ \ {x}]
  /\ UNCHANGED <<file, save, blob, count, want, raced, exempt>>

\* ... and the file is renamed ...
Persist(t) ==
  /\ pc[t] = "persist" /\ Go(t, "stamp")
  /\ file' = [accs |-> list.accs, time |-> now]
  /\ want' = [want EXCEPT ![acc[t]] = forced[t]]
  /\ exempt' = IF forced[t] /\ Plain(acc[t]) # {} THEN exempt \cup {acc[t]} ELSE exempt
  /\ UNCHANGED <<list, lock, save, acc, forced, blob, count, raced, apart>>

\* ... or cannot be written: the answer is 500, the change is in memory.
PersistFails(t) ==
  /\ faults < MaxFaults /\ faults' = faults + 1
  /\ pc[t] = "persist" /\ End(t) /\ lock' = None /\ apart' = TRUE
  /\ UNCHANGED <<file, list, save, now, edits, crashes, want, raced, exempt>>

\* The time of the file is read after it was renamed.
Stamp(t) ==
  /\ pc[t] = "stamp" /\ Go(t, "saves") /\ lock' = None
  /\ list' = [list EXCEPT !.time = file.time]
  /\ apart' = (list.accs # file.accs)
  /\ UNCHANGED <<file, save, acc, forced, blob, count, want, raced, exempt>>

\* Only when an account is forced are its saves rewritten.
Rewrites(t) == forced[t] /\ save[acc[t]] # "none"

LoadSave(t) ==
  /\ pc[t] = "saves" /\ Rewrites(t) /\ Go(t, "write")
  /\ blob' = [blob EXCEPT ![t] = "marked"]
  /\ UNCHANGED <<file, list, lock, save, acc, forced, count, history>>

NoSaves(t) ==
  /\ pc[t] = "saves" /\ ~Rewrites(t) /\ End(t)
  /\ UNCHANGED <<file, list, lock, save, count, history>>

\* save_cloud, of the route or of an upload.
WriteSave(t) ==
  /\ pc[t] = "write" /\ End(t)
  /\ save' = [save EXCEPT ![acc[t]] = blob[t]]
  /\ UNCHANGED <<file, list, lock, count, history>>

\* The save cannot be read, changed or written: it is counted as failed.
SaveFails(t) ==
  /\ faults < MaxFaults /\ faults' = faults + 1
  /\ (pc[t] = "saves" /\ Rewrites(t)) \/ pc[t] = "write"
  /\ End(t)
  /\ exempt' = IF forced[t] THEN exempt \cup {acc[t]} ELSE exempt
  /\ UNCHANGED <<file, list, lock, save, now, edits, crashes, want, raced, apart>>

-----------------------------------------------------------------------------
\* An upload: enforce_bl_policy marks or cleans the save, which is then written.
Upload(t, x) ==
  /\ lock = None /\ Start(t, x, "write") /\ list' = Loaded
  /\ blob' = [blob EXCEPT ![t] = IF x \in Loaded.accs THEN "marked" ELSE "plain"]
  /\ apart' = (apart /\ Fresh)
  /\ exempt' = IF x \in file.accs \ Loaded.accs THEN exempt \cup {x} ELSE exempt
  /\ UNCHANGED <<file, lock, save, forced, count, want, raced>>

\* A save that the policy cannot read is written as it was sent.
UploadAsSent(t, x, sent) ==
  /\ faults < MaxFaults /\ faults' = faults + 1
  /\ lock = None /\ Start(t, x, "write") /\ list' = Loaded
  /\ blob' = [blob EXCEPT ![t] = sent] /\ apart' = (apart /\ Fresh)
  /\ exempt' = exempt \cup ({x} \cap file.accs)
  /\ UNCHANGED <<file, lock, save, forced, now, edits, crashes, want, raced>>

\* The server stops and starts again.
Restart ==
  /\ crashes < MaxCrashes /\ crashes' = crashes + 1
  /\ list' = [accs |-> {}, time |-> 0] /\ lock' = None /\ apart' = FALSE
  /\ pc' = [t \in Thread |-> "idle"] /\ acc' = [t \in Thread |-> None]
  /\ forced' = [t \in Thread |-> FALSE] /\ blob' = [t \in Thread |-> "none"]
  /\ exempt' = exempt \cup {acc[t] : t \in {u \in Thread : forced[u]}}
  /\ UNCHANGED <<file, save, now, edits, faults, want, raced>>

Next ==
  \/ \E t \in Thread, x \in Acc :
       \/ Upload(t, x)
       \/ \E sent \in {"plain", "marked"} : UploadAsSent(t, x, sent)
       \/ \E f \in BOOLEAN : SetForced(t, x, f)
  \/ \E t \in Thread :
       \/ Persist(t) \/ PersistFails(t) \/ Stamp(t)
       \/ LoadSave(t) \/ NoSaves(t) \/ WriteSave(t) \/ SaveFails(t)
  \/ \E accs \in SUBSET Acc : EditFile(accs)
  \/ Tick \/ Restart

Spec == Init /\ [][Next]_vars

-----------------------------------------------------------------------------
(* The variables keep their types, and whoever writes the file holds       *)
(* g_bl_force_mu.                                                          *)
TypeOK ==
  /\ file \in [accs : SUBSET Acc, time : 1..MaxTime]
  /\ list \in [accs : SUBSET Acc, time : 0..MaxTime]
  /\ save \in [Acc -> {"none", "plain", "marked"}]
  /\ pc \in [Thread -> {"idle", "persist", "stamp", "saves", "write"}]
  /\ acc \in [Thread -> Acc \cup {None}] /\ forced \in [Thread -> BOOLEAN]
  /\ blob \in [Thread -> {"none", "plain", "marked"}]
  /\ \A t \in Thread : pc[t] \in {"persist", "stamp"} <=> lock = t
  /\ want \in [Acc -> BOOLEAN] /\ raced \cup exempt \subseteq Acc

(* A change of the list stays until the same account is changed again, by  *)
(* the route or in the file: the route works on the file as it is now, not *)
(* on what was loaded (set_bl_forced).  Only what the operator changes     *)
(* while the route writes the file may be lost.                            *)
ChangesStay == \A x \in Acc \ raced : (x \in file.accs) = want[x]

(* An upload is marked or cleaned by the file as it is then, also after    *)
(* the operator replaced it and after a restart; but not after a write of  *)
(* the list that failed, or two changes with one time (is_bl_forced).      *)
MarkFollowsFile ==
  [][\A t \in Thread, x \in Acc :
       Upload(t, x) /\ ~apart' => (blob'[t] = "marked") = (x \in file.accs)]_vars

(* Once the route has answered, a forced account's save is marked, unless  *)
(* the account was entered by hand, the save could not be changed, the     *)
(* server was stopped, or an upload had looked at the list before.         *)
ForcedIsMarked ==
  \A x \in Acc : x \in file.accs /\ ~Busy(x) /\ x \notin exempt => save[x] # "plain"

(* The list in the file, the copy in memory and the marks of the saves go  *)
(* together: the three properties above (set_bl_forced, is_bl_forced).     *)
ListHolds == []TypeOK /\ []ChangesStay /\ []ForcedIsMarked /\ MarkFollowsFile
=============================================================================
