------------------------------- MODULE InitData -------------------------------
(***************************************************************************)
(* getInitData and its version protocol (handlers.cpp, README): a client   *)
(* sends the repairVer it has; if it is the present one, and there is no   *)
(* mail, the answer is only that; otherwise it is everything with the      *)
(* present version.  The handler reads repairs, mail, version and          *)
(* activities one after the other, all but the mail through caches of      *)
(* thirty seconds whose entries are loaded and put in separate steps.      *)
(*                                                                         *)
(* The version is the largest of one, the second of the manifest's last    *)
(* change and every repairVer of its repairs, both as the caches have      *)
(* them.  Of the repairs only the largest repairVer is kept here; it is    *)
(* what the administrator wrote, whatever the time.  Activities are the    *)
(* number of the change that brought them.                                 *)
(***************************************************************************)
EXTENDS Naturals

CONSTANTS Client, None, MaxChanges, MaxTime, MaxRepair, MaxLost

InitDataAssumption ==
  None \notin Nat /\ {MaxChanges, MaxRepair, MaxLost} \subseteq Nat /\ MaxTime \in Nat \ {0}

VARIABLES
  manifest,  \* the second, the largest repairVer and the number of the last change
  cache,     \* g_init_data_cache
  pc, seen,  \* where a client's request is, and what it has read
  client,    \* what a client has: version, activities
  now, changes, lost,
  loaded,    \* history: a client's activities were loaded for it
  numbers,   \* history: the seconds and repairVers there have been
  twice      \* history: the present version is a number there was before

history == <<loaded, numbers, twice>>
vars == <<manifest, cache, pc, seen, client, now, changes, lost, history>>

Key == {"repair", "version", "huoDong"}
Blank == [version |-> 0, huoDong |-> 0]
Nothing == [version |-> 0, repair |-> 0, huoDong |-> 0, mail |-> None, hit |-> FALSE]

Init ==
  /\ manifest = [version |-> 1, repair |-> 0, of |-> 0] /\ cache = [k \in Key |-> None]
  /\ pc = [c \in Client |-> "idle"]
  /\ seen = [c \in Client |-> Nothing]
  /\ client = [c \in Client |-> Blank]
  /\ now = 1 /\ changes = 0 /\ lost = 0
  /\ loaded = [c \in Client |-> FALSE] /\ numbers = {0, 1} /\ twice = FALSE

-----------------------------------------------------------------------------
(* Faulty variants of the operators below, which a property must find.     *)

\* Activities are read before the version.
ActivitiesFirst(k) ==
  CASE k = "repair" -> "mail" [] k = "mail" -> "huoDong" [] k = "huoDong" -> "version"
    [] k = "version" -> "compare" [] OTHER -> "answer"

\* An entry stays for as long as the process runs.
ForeverEntry(k) == FALSE /\ cache' = [cache EXCEPT ![k] = None]

-----------------------------------------------------------------------------
(* The manifest, the mail and the caches.                                  *)

Larger(a, b) == IF a < b THEN b ELSE a
CurrentVersion(version, repair) == Larger(1, Larger(version, repair))
Present == CurrentVersion(manifest.version, manifest.repair)

Becomes(version, repair) ==
  /\ changes < MaxChanges /\ changes' = changes + 1
  /\ manifest' = [version |-> version, repair |-> repair, of |-> changes']
  /\ numbers' = numbers \cup {version, repair}
  /\ twice' = (CurrentVersion(version, repair) \in numbers)

\* save_manifest
Publish ==
  /\ \E r \in 0..MaxRepair : Becomes(now, r)
  /\ UNCHANGED <<cache, pc, seen, client, now, lost, loaded>>

\* The server stops and starts again, and may not be able to read its manifest:
\* the empty one has no second.
Restart ==
  /\ lost < MaxLost /\ lost' = lost + 1
  /\ Becomes(0, 0) \/ UNCHANGED <<manifest, changes, numbers, twice>>
  /\ cache' = [k \in Key |-> None]
  /\ pc' = [c \in Client |-> "idle"] /\ seen' = [c \in Client |-> Nothing]
  /\ UNCHANGED <<client, now, loaded>>

Tick ==
  /\ now < MaxTime /\ now' = now + 1
  /\ UNCHANGED <<manifest, cache, pc, seen, client, changes, lost, history>>

\* The thirty seconds of an entry are over.
Dropped(k) == cache[k] # None /\ cache' = [cache EXCEPT ![k] = None]
Expire(k) ==
  /\ Dropped(k)
  /\ UNCHANGED <<manifest, pc, seen, client, now, changes, lost, history>>

-----------------------------------------------------------------------------
(* handle_get_init_data, for one client.                                   *)

Loads(k) ==
  CASE k = "version" -> manifest.version [] k = "repair" -> manifest.repair [] OTHER -> manifest.of

\* The order of the handler's steps.
After(k) ==
  CASE k = "repair" -> "mail" [] k = "mail" -> "version" [] k = "version" -> "compare"
    [] k = "compare" -> "huoDong" [] OTHER -> "answer"

Ask(c) ==
  /\ pc[c] = "idle" /\ pc' = [pc EXCEPT ![c] = "repair"]
  /\ UNCHANGED <<manifest, cache, seen, client, now, changes, lost, history>>

\* cached_init_data: the value that was loaded is put in a step of its own.
Putting(k) ==
  CASE k = "repair" -> "put repair" [] k = "version" -> "put version" [] OTHER -> "put huoDong"

\* A hit ...
Hit(c, k) ==
  /\ pc[c] = k /\ cache[k] # None /\ pc' = [pc EXCEPT ![c] = After(k)]
  /\ seen' = [seen EXCEPT ![c] = [@ EXCEPT ![k] = cache[k], !.hit = k = "huoDong"]]
  /\ UNCHANGED <<manifest, cache, client, now, changes, lost, history>>

\* ... or a value that is loaded now, and put later.
Miss(c, k) ==
  /\ pc[c] = k /\ cache[k] = None /\ pc' = [pc EXCEPT ![c] = Putting(k)]
  /\ seen' = [seen EXCEPT ![c] = [@ EXCEPT ![k] = Loads(k), !.hit = FALSE]]
  /\ UNCHANGED <<manifest, cache, client, now, changes, lost, history>>

Put(c, k) ==
  /\ pc[c] = Putting(k) /\ pc' = [pc EXCEPT ![c] = After(k)]
  /\ cache' = [cache EXCEPT ![k] = seen[c][k]]
  /\ UNCHANGED <<manifest, seen, client, now, changes, lost, history>>

\* take_huo_dong and take_global_huo_dong: any client may have mail at any time,
\* with the activities there were when the mail was sent.
TakeMail(c) ==
  /\ pc[c] = "mail" /\ pc' = [pc EXCEPT ![c] = After("mail")]
  /\ \E m \in {None} \cup 0..manifest.of : seen' = [seen EXCEPT ![c].mail = m]
  /\ UNCHANGED <<manifest, cache, client, now, changes, lost, history>>

Version(c) == CurrentVersion(seen[c].version, seen[c].repair)
Unchanged(c) == client[c].version = Version(c) /\ seen[c].mail = None

\* The end of a request.
End(c) == pc' = [pc EXCEPT ![c] = "idle"] /\ seen' = [seen EXCEPT ![c] = Nothing]

Compare(c) ==
  /\ pc[c] = "compare"
  /\ IF Unchanged(c) THEN End(c) ELSE pc' = [pc EXCEPT ![c] = After("compare")] /\ seen' = seen
  /\ UNCHANGED <<manifest, cache, client, now, changes, lost, history>>

\* What the mail holds takes the place of the activities.
Given(c) ==
  [version |-> Version(c),
   huoDong |-> IF seen[c].mail # None THEN seen[c].mail ELSE seen[c].huoDong]

Answer(c) ==
  /\ pc[c] = "answer" /\ End(c)
  /\ client' = [client EXCEPT ![c] = Given(c)]
  /\ loaded' = [loaded EXCEPT ![c] = seen[c].mail = None /\ ~seen[c].hit]
  /\ UNCHANGED <<manifest, cache, now, changes, lost, numbers, twice>>

\* The client never sees the answer.
LoseAnswer(c) ==
  /\ lost < MaxLost /\ lost' = lost + 1
  /\ pc[c] = "answer" /\ End(c)
  /\ UNCHANGED <<manifest, cache, client, now, changes, history>>

Request(c) ==
  \/ Ask(c) \/ TakeMail(c) \/ Compare(c) \/ Answer(c) \/ LoseAnswer(c)
  \/ \E k \in Key : Hit(c, k) \/ Miss(c, k) \/ Put(c, k)

Next ==
  \/ \E c \in Client : Request(c)
  \/ \E k \in Key : Expire(k)
  \/ Publish \/ Restart \/ Tick

Spec == Init /\ [][Next]_vars

\* A client asks again and its request runs on; an entry lives thirty seconds,
\* which is needed of those the version is made from only.
Fairness ==
  /\ \A c \in Client : WF_vars(Request(c))
  /\ \A k \in {"repair", "version"} : WF_vars(Expire(k))

FairSpec == Spec /\ Fairness

-----------------------------------------------------------------------------
(* The variables keep their types; no cache, request or client has a       *)
(* number that no manifest had, or activities later than the manifest's.   *)
TypeOK ==
  /\ manifest \in [version : 0..MaxTime, repair : 0..MaxRepair, of : 0..MaxChanges]
  /\ {cache.version, cache.repair} \subseteq {None} \cup numbers
  /\ cache.huoDong \in {None} \cup 0..manifest.of
  /\ twice \in BOOLEAN
  /\ \A c \in Client :
       /\ {client[c].version, seen[c].version, seen[c].repair} \subseteq numbers
       /\ {client[c].huoDong, seen[c].huoDong} \subseteq 0..manifest.of
       /\ loaded[c] \in BOOLEAN /\ seen[c].mail \in {None} \cup 0..manifest.of

(* A client with the present version has the manifest's activities, if     *)
(* they were loaded for it: the version is read first, so a change in      *)
(* between is only given early.  A client with activities from an older    *)
(* cache entry, or from mail, keeps them under the new version, and so     *)
(* does every client when the change has left the version at a number      *)
(* there was before: in the same second, while a repairVer is above the    *)
(* seconds, or after a manifest that could not be read.                    *)
LoadedIsCurrent ==
  \A c \in Client :
    client[c].version = Present /\ loaded[c] /\ ~twice => client[c].huoDong = manifest.of

(* When the changes have ended every client comes to the version of the    *)
(* manifest and its repairs, although caches put an older one back for a   *)
(* while, or mix one's second with another's repairVer.  It is the number  *)
(* that arrives: what a client has with it is LoadedIsCurrent's.           *)
VersionArrives == <>[](\A c \in Client : client[c].version = Present)
=============================================================================
