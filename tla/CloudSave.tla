------------------------------ MODULE CloudSave ------------------------------
(***************************************************************************)
(* Cloud saves (storage.cpp, handlers.cpp, admin.cpp): for each account,   *)
(* and one area, a blob file and a meta file, written by the threads of    *)
(* the gateway under one of the stripe locks.  A handler makes several     *)
(* calls, each of which takes the lock for itself; save_cloud writes the   *)
(* blob in place and renames the meta, the weekly download mark is written *)
(* in place, and the server may stop between any two of these steps.       *)
(*                                                                         *)
(* A save is the number of the request that brought it, 0 for what was     *)
(* there at the start.                                                     *)
(***************************************************************************)
EXTENDS Naturals, FiniteSets

CONSTANTS Acc, Thread,
          Stripe,     \* the lock an account hashes to
          Legacy,     \* accounts whose first save lies in the meta file
          Exempt,     \* the account without a download interval
          Week,       \* kManualSaveIntervalSec
          None,
          MaxRequests, MaxTime, MaxFaults, MaxCrashes

SaveAssumption ==
  /\ Stripe \in [Acc -> Nat]
  /\ Legacy \subseteq Acc /\ Exempt \subseteq Acc /\ Week \in Nat \ {0}
  /\ None \notin Acc \cup Thread \cup Nat
  /\ {MaxRequests, MaxFaults, MaxCrashes} \subseteq Nat /\ MaxTime \in Nat \ {0}

VARIABLES
  blob,      \* the .sav file: its save, and whether all of it is there
  meta,      \* the .json file: the save it describes, the download mark,
             \* and whether it holds the save itself
  account,   \* accounts with a row
  lock,      \* the owners of the stripes
  pc, acc,   \* where a thread is, and the account of its request
  val, kept, \* the blob and the meta it is about to write
  bl,        \* threads that serve a bl-force
  now, requests, faults, crashes,
  last,      \* history: the save last written, None after delete_save
  served,    \* history: when a save was last given to the account's player
  over,      \* history: threads whose account changed after they looked
  torn,      \* history: accounts whose save was left half done
  unmarked,  \* history: accounts whose last download has no mark
  gone       \* history: accounts that were deleted, and have had no row since

request == <<pc, acc, val, kept, bl>>
count   == <<now, requests, faults, crashes>>
history == <<last, served, over, torn, unmarked, gone>>
vars == <<blob, meta, account, lock, request, count, history>>

Nothing == [of |-> None, whole |-> FALSE]            \* there is no .sav file
Empty   == [of |-> None, whole |-> TRUE]             \* one of no bytes
Missing == [of |-> None, down |-> 0, body |-> FALSE] \* no .json file
Cut     == [of |-> None, down |-> 0, body |-> TRUE]  \* one that is not JSON
Read(m) == m \notin {Missing, Cut}                   \* get_save_meta has it

Init ==
  /\ \E given \in SUBSET Acc :
       /\ blob = [a \in Acc |-> IF a \in given \ Legacy THEN [of |-> 0, whole |-> TRUE] ELSE Nothing]
       /\ meta = [a \in Acc |-> IF a \in given THEN [of |-> 0, down |-> 0, body |-> a \in Legacy]
                                ELSE Missing]
       /\ account = given
       /\ last = [a \in Acc |-> IF a \in given THEN 0 ELSE None]
  /\ lock = [s \in {Stripe[a] : a \in Acc} |-> None]
  /\ pc = [t \in Thread |-> "idle"] /\ acc = [t \in Thread |-> None]
  /\ val = [t \in Thread |-> Nothing] /\ kept = [t \in Thread |-> Missing]
  /\ bl = {}
  /\ now = 1 /\ requests = 0 /\ faults = 0 /\ crashes = 0
  /\ served = [a \in Acc |-> 0]
  /\ over = {} /\ torn = {} /\ unmarked = {} /\ gone = {}

Free(a)    == lock[Stripe[a]] = None
Take(t)    == Free(acc[t]) /\ lock' = [lock EXCEPT ![Stripe[acc[t]]] = t]
Release(t) == lock' = [lock EXCEPT ![Stripe[acc[t]]] = None]

\* Thread t begins a request of account a, goes on with it, has answered it.
Begin(t, a, where) ==
  /\ pc[t] = "idle" /\ pc' = [pc EXCEPT ![t] = where] /\ acc' = [acc EXCEPT ![t] = a]
  /\ requests < MaxRequests /\ requests' = requests + 1
  /\ UNCHANGED <<now, faults, crashes>>
Go(t, from, to) == pc[t] = from /\ pc' = [pc EXCEPT ![t] = to] /\ UNCHANGED acc
End(t, from) ==
  /\ pc[t] = from /\ pc' = [pc EXCEPT ![t] = "idle"] /\ acc' = [acc EXCEPT ![t] = None]
  /\ val' = [val EXCEPT ![t] = Nothing] /\ kept' = [kept EXCEPT ![t] = Missing]
  /\ bl' = bl \ {t}

\* load_cloud: the blob unless it is empty, or the save in an early meta.
Load(a) ==
  IF blob[a] \notin {Nothing, Empty} THEN blob[a]
  ELSE IF Read(meta[a]) /\ meta[a].body THEN [of |-> meta[a].of, whole |-> TRUE] ELSE Nothing

\* handle_find_save: the save whose name, level and time the player is told.
FindSave(a) == IF Read(meta[a]) THEN meta[a].of ELSE None

\* The others that already looked at t's account do not see what t does.
Others(t)  == {u \in Thread \ {t} : acc[u] = acc[t]}
Escapes(t) == over' = over \cup Others(t)
Done(t)    == over' = (over \cup Others(t)) \ {t}

-----------------------------------------------------------------------------
(* Faulty variants of the operators below, which a property must find.     *)

\* The lock is forgotten.
UnlockedTrunc(t) ==
  /\ Go(t, "trunc", "write") /\ UNCHANGED lock
  /\ blob' = [blob EXCEPT ![acc[t]] = Empty]
  /\ UNCHANGED <<meta, account, val, kept, bl, count, history>>

\* The temporary file is left where it is.
NoRename(t, a) == meta

\* The mark of the meta that is replaced is not carried over.
ForgetfulMark(a) == 0

-----------------------------------------------------------------------------
(* Uploads, and save_cloud, which an upload and a bl-force end in.         *)

MarkOf(a) == IF Read(meta[a]) THEN meta[a].down ELSE 0

\* handle_upload_save_fields: the mark is read before save_cloud is called.
UploadSave(t, a) ==
  /\ Begin(t, a, "ensure") /\ Free(a)
  /\ val' = [val EXCEPT ![t] = [of |-> requests', whole |-> TRUE]]
  /\ kept' = [kept EXCEPT ![t] = [of |-> requests', down |-> MarkOf(a), body |-> FALSE]]
  /\ UNCHANGED <<blob, meta, account, lock, bl, history>>

EnsureAccount(t) ==
  /\ Go(t, "ensure", "trunc")
  /\ account' = account \cup {acc[t]} /\ gone' = gone \ {acc[t]}
  /\ UNCHANGED <<blob, meta, lock, val, kept, bl, count, last, served, over, torn, unmarked>>

Trunc(t) ==
  /\ Go(t, "trunc", "write") /\ Take(t)
  /\ blob' = [blob EXCEPT ![acc[t]] = Empty]
  /\ UNCHANGED <<meta, account, val, kept, bl, count, history>>

\* Some of the bytes are in the file.
WriteSome(t) ==
  /\ pc[t] = "write" /\ blob[acc[t]] = Empty
  /\ blob' = [blob EXCEPT ![acc[t]] = [of |-> val[t].of, whole |-> FALSE]]
  /\ UNCHANGED <<meta, account, lock, request, count, history>>

Write(t) ==
  /\ Go(t, "write", "rename")
  /\ blob' = [blob EXCEPT ![acc[t]] = val[t]]
  /\ UNCHANGED <<meta, account, lock, val, kept, bl, count, history>>

Renamed(t, a) == [meta EXCEPT ![a] = kept[t]]

\* Done under the lock, and with nobody in between since the request began.
Rename(t) ==
  LET a == acc[t]
      stale == t \in over /\ t \in bl
      sound == val[t].whole /\ kept[t].of = val[t].of IN
  /\ End(t, "rename") /\ Release(t)
  /\ meta' = Renamed(t, a)
  /\ Done(t)
  /\ last' = [last EXCEPT ![a] = IF stale THEN @ ELSE val[t].of]
  /\ torn' = IF sound /\ ~stale THEN torn \ {a} ELSE torn \cup {a}
  /\ unmarked' = IF t \in over THEN unmarked \cup {a} ELSE unmarked
  /\ UNCHANGED <<blob, account, count, served, gone>>

\* A stream that reports an error: save_cloud or the mark gives up.
Fail(t) ==
  /\ faults < MaxFaults /\ faults' = faults + 1
  /\ \E at \in {"write", "rename", "remark"} : End(t, at)
  /\ Release(t) /\ Done(t)
  /\ torn' = torn \cup {acc[t]} /\ unmarked' = unmarked \cup {acc[t]}
  /\ UNCHANGED <<blob, meta, account, now, requests, crashes, last, served, gone>>

-----------------------------------------------------------------------------
(* Downloads and their mark.                                               *)

\* handle_download_save goes on unless the last one is less than Week ago.
DownloadSave(t, a) ==
  /\ Begin(t, a, "load") /\ Free(a)
  /\ a \in Exempt \/ MarkOf(a) = 0 \/ MarkOf(a) + Week <= now
  /\ kept' = [kept EXCEPT ![t].down = now]
  /\ UNCHANGED <<blob, meta, account, lock, val, bl, history>>

LoadCloud(t) ==
  LET a == acc[t] IN
  /\ Go(t, "load", "mark") /\ Free(a) /\ Load(a) # Nothing
  /\ served' = [served EXCEPT ![a] = kept[t].down] /\ unmarked' = unmarked \cup {a}
  /\ Escapes(t)
  /\ UNCHANGED <<blob, meta, account, lock, val, kept, bl, count, last, torn, gone>>

NoSave(t) ==
  /\ End(t, "load") /\ Free(acc[t]) /\ Load(acc[t]) = Nothing
  /\ over' = over \ {t}
  /\ UNCHANGED <<blob, meta, account, lock, count, last, served, torn, unmarked, gone>>

\* clear_manual_download, for the administrator.
ResetMark(t, a) ==
  /\ Begin(t, a, "mark")
  /\ UNCHANGED <<blob, meta, account, lock, val, kept, bl, history>>

\* mark_manual_download and clear_manual_download: the meta is read ...
MarkRead(t) ==
  /\ Go(t, "mark", "open") /\ Read(meta[acc[t]]) /\ Take(t)
  /\ kept' = [kept EXCEPT ![t] = [meta[acc[t]] EXCEPT !.down = kept[t].down]]
  /\ UNCHANGED <<blob, meta, account, val, bl, count, history>>

NoMeta(t) ==
  /\ End(t, "mark") /\ Free(acc[t]) /\ ~Read(meta[acc[t]])
  /\ over' = over \ {t}
  /\ UNCHANGED <<blob, meta, account, lock, count, last, served, torn, unmarked, gone>>

\* ... cut to nothing ...
MarkOpen(t) ==
  /\ Go(t, "open", "remark")
  /\ meta' = [meta EXCEPT ![acc[t]] = Cut]
  /\ UNCHANGED <<blob, account, lock, val, kept, bl, count, history>>

\* ... and written.
MarkWrite(t) ==
  LET a == acc[t] IN
  /\ End(t, "remark") /\ Release(t)
  /\ meta' = [meta EXCEPT ![a] = kept[t]]
  /\ unmarked' = IF t \in over \/ kept[t].down = 0 THEN unmarked \cup {a} ELSE unmarked \ {a}
  /\ Done(t)
  /\ UNCHANGED <<blob, account, count, last, served, torn, gone>>

-----------------------------------------------------------------------------
(* The administrator's requests.                                           *)

\* delete_save: the meta, then the blob.
DeleteSave(t, a) ==
  /\ Begin(t, a, "unlink") /\ Free(a) /\ lock' = [lock EXCEPT ![Stripe[a]] = t]
  /\ meta' = [meta EXCEPT ![a] = Missing]
  /\ UNCHANGED <<blob, account, val, kept, bl, history>>

Unlink(t) ==
  LET a == acc[t] IN
  /\ End(t, "unlink") /\ Release(t)
  /\ blob' = [blob EXCEPT ![a] = Nothing]
  /\ last' = [last EXCEPT ![a] = None]
  /\ torn' = torn \ {a} /\ unmarked' = unmarked \cup {a} /\ Done(t)
  /\ UNCHANGED <<meta, account, count, served, gone>>

\* delete_account: the row, and the cache's entry, before the lock is taken ...
DeleteAccount(t, a) ==
  /\ Begin(t, a, "sweep") /\ a \in account
  /\ account' = account \ {a} /\ gone' = gone \cup {a}
  /\ UNCHANGED <<blob, meta, lock, val, kept, bl, last, served, over, torn, unmarked>>

\* ... and then every file of the directory is looked at.  None is removed: the
\* prefix is that of a path, and no file's name begins with a path.
Sweep(t) ==
  /\ End(t, "sweep") /\ Free(acc[t])
  /\ over' = over \ {t}
  /\ UNCHANGED <<blob, meta, account, lock, count, last, served, torn, unmarked, gone>>

\* list_saves: it has_blob, which may be an empty one.
Listed(a) == blob[a] # Nothing \/ (Read(meta[a]) /\ meta[a].body)

\* bl-force: the list is read without a lock, then every save loaded, its
\* meta read, and both written again.
BlForce(t, a) ==
  /\ Begin(t, a, "reload")
  /\ Listed(a)
  /\ bl' = bl \cup {t}
  /\ UNCHANGED <<blob, meta, account, lock, val, kept, history>>

BlLoad(t) ==
  /\ Go(t, "reload", "remeta") /\ Free(acc[t]) /\ Load(acc[t]) # Nothing
  /\ val' = [val EXCEPT ![t] = Load(acc[t])]
  /\ UNCHANGED <<blob, meta, account, lock, kept, bl, count, history>>

\* Nothing to load, or a save apply_bl cannot read.
BlSkip(t) ==
  /\ \/ End(t, "reload") /\ Free(acc[t]) /\ Load(acc[t]) = Nothing
     \/ End(t, "remeta")
  /\ over' = over \ {t}
  /\ UNCHANGED <<blob, meta, account, lock, count, last, served, torn, unmarked, gone>>

BlMeta(t) ==
  LET a == acc[t] IN
  /\ Go(t, "remeta", "ensure") /\ Free(a)
  /\ kept' = [kept EXCEPT ![t] = IF Read(meta[a]) THEN [meta[a] EXCEPT !.body = FALSE]
                                 ELSE [of |-> val[t].of, down |-> 0, body |-> FALSE]]
  /\ UNCHANGED <<blob, meta, account, lock, val, bl, count, history>>

-----------------------------------------------------------------------------
Tick ==
  /\ now < MaxTime /\ now' = now + 1
  /\ UNCHANGED <<blob, meta, account, lock, request, requests, faults, crashes, history>>

\* The server stops, and is started again.
Crash ==
  /\ crashes < MaxCrashes /\ crashes' = crashes + 1
  /\ lock' = [s \in DOMAIN lock |-> None]
  /\ pc' = [t \in Thread |-> "idle"] /\ acc' = [t \in Thread |-> None]
  /\ val' = [t \in Thread |-> Nothing] /\ kept' = [t \in Thread |-> Missing]
  /\ bl' = {} /\ over' = {}
  /\ LET At(where) == {acc[t] : t \in {u \in Thread : pc[u] \in where}} IN
     /\ torn' = torn \cup At({"write", "rename", "remark", "unlink"})
     /\ unmarked' = unmarked \cup At({"remark", "unlink"})
  /\ UNCHANGED <<blob, meta, account, now, requests, faults, last, served, gone>>

Serve(t) ==
  \/ \E a \in Acc : UploadSave(t, a) \/ DownloadSave(t, a) \/ ResetMark(t, a)
                      \/ DeleteSave(t, a) \/ DeleteAccount(t, a) \/ BlForce(t, a)
  \/ EnsureAccount(t) \/ Trunc(t) \/ WriteSome(t) \/ Write(t) \/ Rename(t) \/ Fail(t)
  \/ LoadCloud(t) \/ NoSave(t) \/ MarkRead(t) \/ NoMeta(t) \/ MarkOpen(t) \/ MarkWrite(t)
  \/ Unlink(t) \/ Sweep(t)
  \/ BlLoad(t) \/ BlSkip(t) \/ BlMeta(t)

Next == (\E t \in Thread : Serve(t)) \/ Tick \/ Crash

Spec == Init /\ [][Next]_vars

-----------------------------------------------------------------------------
Save   == 0..MaxRequests
Blob   == [of : Save, whole : BOOLEAN] \cup {Nothing, Empty}
Meta   == [of : Save, down : 0..MaxTime, body : BOOLEAN] \cup {Missing, Cut}
Locked == {"write", "rename", "open", "remark", "unlink"}

(* The variables keep their types, a stripe has one owner, and a thread    *)
(* that writes files (save_cloud, the mark, a deletion) is the owner of    *)
(* its account's.                                                          *)
TypeOK ==
  /\ blob \in [Acc -> Blob] /\ meta \in [Acc -> Meta] /\ account \subseteq Acc
  /\ lock \in [{Stripe[a] : a \in Acc} -> Thread \cup {None}]
  /\ pc \in [Thread -> Locked \cup {"idle", "ensure", "trunc", "load", "mark", "sweep",
                                    "reload", "remeta"}]
  /\ acc \in [Thread -> Acc \cup {None}] /\ val \in [Thread -> Blob]
  /\ kept \in [Thread -> [of : Save \cup {None}, down : 0..MaxTime, body : BOOLEAN]]
  /\ bl \subseteq Thread
  /\ now \in 1..MaxTime /\ requests \in Save /\ faults \in 0..MaxFaults /\ crashes \in 0..MaxCrashes
  /\ last \in [Acc -> Save \cup {None}] /\ served \in [Acc -> 0..MaxTime]
  /\ over \subseteq Thread /\ torn \cup unmarked \cup gone \subseteq Acc
  /\ \A t \in Thread : pc[t] \in Locked => lock[Stripe[acc[t]]] = t

\* Nobody is writing a's files, and nothing has left them half done: no
\* crash, failed write, or rewriting of an older save.
Sound(a) == Free(a) /\ a \notin torn

(* What is downloaded is the save last written, all of it, and nothing     *)
(* after delete_save (load_cloud under the stripe's lock): requests, marks, *)
(* deletions and rewritings of one account do not mix.                     *)
SaveIsTheLast ==
  \A a \in Acc : Sound(a) =>
    Load(a) = IF last[a] = None THEN Nothing ELSE [of |-> last[a], whole |-> TRUE]

(* findSave tells the player, from the meta, about the save that           *)
(* downloadSave would bring, and of no save when there is none.            *)
MetaDescribesSave ==
  \A a \in Acc : Sound(a) =>
    FindSave(a) = IF Load(a) = Nothing THEN None ELSE Load(a).of

(* A player is given a save no earlier than Week after the last one, but   *)
(* for the ways a mark is lost: a request that overlapped another of the   *)
(* account, a mark that was reset, deleted with its save, or not written.  *)
CooldownKept ==
  [][\A t \in Thread : pc[t] = "load" /\ pc'[t] = "mark" =>
       LET a == acc[t] IN
       \/ a \in Exempt \/ served[a] = 0 \/ served[a] + Week <= kept[t].down
       \/ t \in over \/ a \in unmarked]_vars

(* A save without an account is that of a deleted one, and stays until     *)
(* somebody has the name again: save_cloud makes sure of the row before it *)
(* writes.                                                                 *)
NoOrphans ==
  \A a \in Acc \ (account \cup gone) : blob[a] = Nothing /\ meta[a] = Missing

(* A save, its meta and its account are there together (save_cloud).       *)
SavesInOrder == TypeOK /\ MetaDescribesSave /\ NoOrphans

(* 删除账号及存档, an account is deleted with its saves (README.md): once   *)
(* the request is done, there is none to be had under that name.           *)
DeletedWithSaves ==
  \A a \in gone : (\A t \in Thread : acc[t] # a) => Load(a) = Nothing
=============================================================================
