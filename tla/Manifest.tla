------------------------------- MODULE Manifest -------------------------------
(***************************************************************************)
(* The update service (update.cpp): the manifest on disk and in memory,    *)
(* the download file written from it, the remote doc.json with its cache,  *)
(* and the administrator's handlers.  All but the doc's take a copy of the *)
(* manifest, change it and save the copy; only single calls are under      *)
(* g_mu.  The server may stop between any two writes.                      *)
(*                                                                         *)
(* Every file can be unreadable or unwritable when its turn comes: a       *)
(* manifest that cannot be read is taken for an empty one, and a rename    *)
(* that fails removes its target before it is tried again.                 *)
(*                                                                         *)
(* What an upload or an edit brings is the number of its request.  "huo"   *)
(* stands for the activities with json_version, "md5" for the reference    *)
(* APK, "apk" for apk_file and program_version, "doc" for doc.json.  The   *)
(* json files have one name and the APKs have one: a file of another name  *)
(* is not what clients are sent to.                                        *)
(***************************************************************************)
EXTENDS Naturals, FiniteSets

CONSTANTS Thread, None, MaxRequests, MaxFaults, MaxCrashes

ManifestAssumption ==
  /\ None \notin Thread
  /\ MaxRequests \in Nat /\ MaxFaults \in Nat /\ MaxCrashes \in Nat

Field == {"huo", "md5", "apk", "doc"}

VARIABLES
  disk, there, \* manifest.json, which reads as an empty one when it is not there
  cache,       \* g_manifest_cache
  loaded,      \* g_manifest_loaded
  jsonFile,    \* the activities in the download file, None if it is cut off
  apkFile,     \* the APK in the download directory, None if there is none
  docFile,     \* conf/doc.json, 0 if there is none
  docCache,    \* g_doc_cache: the document and the version it is served under
  lock,        \* the owner of g_mu
  pc, copy,    \* where a handler is, and the manifest it will save
  own,         \* the field its request is about
  requests, faults, crashes,
  want,        \* history: for each field, the last change that was saved
  unread,      \* history: the cache is empty because the file could not be read
  over,        \* history: handlers whose copy is old or empty
  slip,        \* history: fields lost with such a copy, or with the file
  apart,       \* history: fields whose file may not be the manifest's
  reused,      \* history: the documents' numbers may have gone back
  issued       \* history: versions and documents clients were given

files    == <<jsonFile, apkFile, docFile, docCache>>
handlers == <<pc, copy, own>>
count    == <<requests, faults, crashes>>
history  == <<want, unread, over, slip, apart, reused, issued>>
vars == <<disk, there, cache, loaded, files, lock, handlers, count, history>>

\* Manifest{}: nothing of it comes from a request.
Default == [f \in Field \cup {"docVer"} |-> 0]
NoDoc == [of |-> 0, ver |-> 0]

Init ==
  /\ disk = Default /\ there = TRUE /\ cache = Default /\ loaded = TRUE
  /\ jsonFile = 0 /\ apkFile = 0 /\ docFile = 0 /\ docCache = NoDoc
  /\ lock = None
  /\ pc = [t \in Thread |-> "idle"] /\ copy = [t \in Thread |-> Default]
  /\ own = [t \in Thread |-> None]
  /\ requests = 0 /\ faults = 0 /\ crashes = 0
  /\ want = [f \in Field |-> 0] /\ issued = {}
  /\ unread = FALSE /\ over = {} /\ slip = {} /\ apart = {} /\ reused = FALSE

-----------------------------------------------------------------------------
(* Faulty variants of the operators below, which a property must find.     *)

\* The manifest is built anew instead of from the one in memory.
FromNothing(m, f, r) == [Default EXCEPT ![f] = r]

\* The version is not raised.
SameVersion(m, r) == [m EXCEPT !.doc = r]

\* The version the cache was built with, before the manifest was read.
VersionZero(t) == [of |-> copy[t].doc, ver |-> 0]

-----------------------------------------------------------------------------
(* The manifest in memory, and the handlers.                               *)

Fault == faults < MaxFaults /\ faults' = faults + 1

\* get_manifest's first call after a start, whoever makes it.
LoadManifest ==
  /\ ~loaded /\ lock = None /\ loaded' = TRUE
  /\ \/ cache' = disk /\ UNCHANGED <<faults, unread>>
     \/ Fault /\ cache' = Default /\ unread' = TRUE
  /\ UNCHANGED <<disk, there, files, lock, handlers, requests, crashes,
                 want, over, slip, apart, reused, issued>>

Begin(t, f, where) ==
  /\ pc[t] = "idle" /\ pc' = [pc EXCEPT ![t] = where]
  /\ own' = [own EXCEPT ![t] = f]
  /\ requests < MaxRequests /\ requests' = requests + 1

\* A handler takes what get_manifest returns and changes the field of request r.
Changed(m, f, r) == [m EXCEPT ![f] = r]
Takes(t, f, r) ==
  /\ lock = None /\ loaded
  /\ copy' = [copy EXCEPT ![t] = Changed(cache, f, r)]
  /\ over' = IF unread THEN over \cup {t} ELSE over

\* /admin/api/update and /admin/api/update/integrity-md5
Edit(t, f) ==
  /\ f \in {"huo", "md5", "apk"} /\ Begin(t, f, "save") /\ Takes(t, f, requests')
  /\ apart' = IF f = "apk" THEN apart \cup {"apk"} ELSE apart
  /\ UNCHANGED <<disk, there, cache, loaded, files, lock, faults, crashes,
                 want, unread, slip, reused, issued>>

\* /admin/api/update/apk puts the APK in its place while nobody has g_mu ...
ReceiveApk(t) ==
  /\ Begin(t, "apk", "apk") /\ apkFile' = requests' /\ apart' = apart \cup {"apk"}
  /\ copy' = [copy EXCEPT ![t].apk = requests']
  /\ UNCHANGED <<disk, there, cache, loaded, jsonFile, docFile, docCache, lock,
                 faults, crashes, want, unread, over, slip, reused, issued>>

\* ... or takes the old one away, and cannot.
LoseApk ==
  /\ Fault /\ apkFile' = None /\ apart' = apart \cup {"apk"}
  /\ UNCHANGED <<disk, there, cache, loaded, jsonFile, docFile, docCache, lock, handlers,
                 requests, crashes, want, unread, over, slip, reused, issued>>

\* Then it copies the manifest.  Its program_version is what the administrator's
\* page sends, or one more than the manifest's.
UploadApk(t) ==
  /\ pc[t] = "apk" /\ pc' = [pc EXCEPT ![t] = "save"] /\ Takes(t, "apk", copy[t].apk)
  /\ UNCHANGED <<disk, there, cache, loaded, files, lock, own, count,
                 want, unread, slip, apart, reused, issued>>

\* The end of a request.
End(t) ==
  /\ pc' = [pc EXCEPT ![t] = "idle"]
  /\ copy' = [copy EXCEPT ![t] = Default] /\ own' = [own EXCEPT ![t] = None]

\* A program_version that is no number is refused when the APK is in its place.
RefuseApk(t) ==
  /\ pc[t] = "apk" /\ lock = None /\ loaded /\ End(t)
  /\ UNCHANGED <<disk, there, cache, loaded, files, lock, count, history>>

\* /admin/api/update/json writes the file without a lock, and does not see
\* whether it was written, ...
SaveJsonFile(t) ==
  /\ Begin(t, "huo", "parse") /\ apart' = apart \cup {"huo"}
  /\ \/ jsonFile' = requests' /\ UNCHANGED faults
     \/ Fault /\ jsonFile' = None
  /\ copy' = [copy EXCEPT ![t].huo = requests']
  /\ UNCHANGED <<disk, there, cache, loaded, apkFile, docFile, docCache, lock, crashes,
                 want, unread, over, slip, reused, issued>>

\* ... then copies the manifest.
CopyManifest(t) ==
  /\ pc[t] = "parse" /\ pc' = [pc EXCEPT ![t] = "save"] /\ Takes(t, "huo", copy[t].huo)
  /\ UNCHANGED <<disk, there, cache, loaded, files, lock, own, count,
                 want, unread, slip, apart, reused, issued>>

NextDoc(m, r) == [m EXCEPT !.doc = r, !.docVer = @ + 1]

\* /admin/api/update/doc works on the file's manifest under g_mu.
UploadDoc(t) ==
  /\ Begin(t, "doc", "doc") /\ lock = None /\ lock' = t
  /\ \/ copy' = [copy EXCEPT ![t] = NextDoc(disk, requests')] /\ UNCHANGED faults
        /\ over' = IF there THEN over ELSE over \cup {t}
     \/ Fault /\ copy' = [copy EXCEPT ![t] = NextDoc(Default, requests')]
        /\ over' = over \cup {t}
  /\ UNCHANGED <<disk, there, cache, loaded, files, crashes,
                 want, unread, slip, apart, reused, issued>>

\* write_doc_unlocked
WriteDoc(t) ==
  /\ pc[t] \in {"doc", "doc again"} /\ pc' = [pc EXCEPT ![t] = "save"]
  /\ docFile' = copy[t].doc /\ apart' = apart \cup {"doc"}
  /\ UNCHANGED <<disk, there, cache, loaded, jsonFile, apkFile, docCache, lock, copy, own,
                 count, want, unread, over, slip, reused, issued>>

\* The rename failed: the old document is removed before it is tried again.
RemoveDoc(t) ==
  /\ pc[t] = "doc" /\ pc' = [pc EXCEPT ![t] = "doc again"] /\ Fault
  /\ docFile' = 0 /\ apart' = apart \cup {"doc"}
  /\ UNCHANGED <<disk, there, cache, loaded, jsonFile, apkFile, docCache, lock, copy, own,
                 requests, crashes, want, unread, over, slip, reused, issued>>

-----------------------------------------------------------------------------
(* save_manifest_unlocked.                                                 *)

Hold(t) == lock \in {None, t} /\ lock' = t

RenameManifest(t) ==
  /\ pc[t] \in {"save", "save again"} /\ pc' = [pc EXCEPT ![t] = "sync"] /\ Hold(t)
  /\ disk' = copy[t] /\ there' = TRUE
  /\ want' = [want EXCEPT ![own[t]] = copy[t][own[t]]]
  /\ slip' = (IF t \in over THEN Field ELSE slip) \ {own[t]}
  /\ reused' = (reused \/ t \in over) /\ apart' = apart \cup {"huo", own[t]}
  /\ UNCHANGED <<cache, loaded, files, copy, own, count, unread, over, issued>>

\* The rename failed: the old manifest is removed before it is tried again.  If
\* memory does not have it, it is lost.
RemoveManifest(t) ==
  LET lost == ~loaded \/ unread IN
  /\ pc[t] = "save" /\ pc' = [pc EXCEPT ![t] = "save again"] /\ Hold(t) /\ Fault
  /\ disk' = Default /\ there' = FALSE
  /\ slip' = (IF lost THEN Field ELSE slip) /\ reused' = (reused \/ lost)
  /\ UNCHANGED <<cache, loaded, files, copy, own, requests, crashes,
                 want, unread, over, apart, issued>>

\* sync_json_download_file, which nobody asks whether it could write the file.
Download(m) == m.huo
Written(m) == jsonFile' = Download(m) /\ UNCHANGED faults
CutOff     == Fault /\ jsonFile' \in {jsonFile, None}

Cached(t) == copy[t]
Served(t) == [of |-> copy[t].doc, ver |-> copy[t].docVer]

\* The fields whose files are the manifest's at the end of a save.
Together(t) ==
  {f \in Field : CASE f = "huo" -> \A u \in Thread : pc[u] # "parse"
                   [] f = "apk" -> own[t] = "apk" /\ copy[t].apk = apkFile
                   [] OTHER -> own[t] = f}

SyncFiles(t) ==
  /\ pc[t] = "sync" /\ End(t) /\ lock' = None
  /\ \/ Written(copy[t]) /\ apart' = apart \ Together(t)
     \/ CutOff /\ apart' = (apart \ Together(t)) \cup {"huo"}
  /\ cache' = Cached(t) /\ loaded' = TRUE /\ unread' = FALSE
  /\ IF own[t] = "doc"
     THEN /\ docCache' = Served(t)
          /\ issued' = issued \cup {<<copy[t].docVer, copy[t].doc>>}
     ELSE UNCHANGED <<docCache, issued>>
  /\ over' = (over \cup {u \in Thread : pc[u] = "save"}) \ {t}
  /\ UNCHANGED <<disk, there, apkFile, docFile, requests, crashes, want, slip, reused>>

\* A file that cannot be written, of the document or of the manifest.
SaveFails(t) ==
  /\ \/ pc[t] \in {"doc", "save"} /\ lock \in {None, t} /\ Fault
     \/ pc[t] \in {"doc again", "save again"} /\ UNCHANGED faults
  /\ End(t) /\ lock' = None /\ over' = over \ {t}
  /\ UNCHANGED <<disk, there, cache, loaded, files, requests, crashes,
                 want, unread, slip, apart, reused, issued>>

-----------------------------------------------------------------------------
\* The server stops and starts again.  ensure_defaults writes an empty manifest
\* if there is none, and gives a document that the manifest does not know its
\* md5; then the document is served under the manifest's version.  What can
\* fail: the first and the second reading of the manifest, its saving without
\* and with its removal, the download file, the reading of the document.
Mishap == {"none", "manifest", "version", "save", "remove", "download", "doc"}

Restart(bad) ==
  LET found  == IF bad = "manifest" THEN Default ELSE disk
      adopts == there /\ docFile # 0 /\ found.doc = 0
      known  == IF adopts THEN [found EXCEPT !.doc = docFile] ELSE found
      saves  == (adopts \/ ~there) /\ bad \notin {"save", "remove"}
      gone   == ~there \/ (adopts /\ bad = "remove")
      lost   == gone \/ (saves /\ bad = "manifest")
      version == IF gone \/ bad = "version" THEN 0 ELSE found.docVer
      serves == docFile # 0 /\ bad # "doc" IN
  /\ crashes < MaxCrashes /\ crashes' = crashes + 1
  /\ IF bad \in {"none", "download"} THEN TRUE ELSE Fault
  /\ disk' = (IF saves THEN known ELSE IF gone THEN Default ELSE disk)
  /\ there' = (saves \/ ~gone)
  /\ cache' = (IF saves THEN known ELSE Default) /\ loaded' = saves
  /\ CASE saves /\ bad # "download" -> jsonFile' = Download(known)
       [] saves /\ bad = "download"  -> CutOff
       [] OTHER -> UNCHANGED jsonFile
  /\ bad = "none" => UNCHANGED faults
  /\ bad = "download" => saves
  /\ docCache' = IF serves THEN [of |-> docFile, ver |-> version] ELSE NoDoc
  /\ issued' = IF serves THEN issued \cup {<<version, docFile>>} ELSE issued
  /\ want' = IF adopts /\ saves THEN [want EXCEPT !.doc = docFile] ELSE want
  /\ slip' = (IF lost THEN Field ELSE slip)
  /\ reused' = (reused \/ lost \/ "doc" \in apart \/ bad = "version")
  /\ apart' = (IF saves THEN apart \ {"huo"} ELSE apart)
             \cup (CASE bad = "download" -> {"huo"} [] bad = "version" -> {"doc"} [] OTHER -> {})
  /\ unread' = FALSE /\ over' = {} /\ lock' = None
  /\ pc' = [t \in Thread |-> "idle"]
  /\ copy' = [t \in Thread |-> Default] /\ own' = [t \in Thread |-> None]
  /\ UNCHANGED <<apkFile, docFile, requests>>

Next ==
  \/ \E t \in Thread :
       \/ \E f \in Field : Edit(t, f)
       \/ ReceiveApk(t) \/ UploadApk(t) \/ RefuseApk(t)
       \/ SaveJsonFile(t) \/ CopyManifest(t)
       \/ UploadDoc(t) \/ WriteDoc(t) \/ RemoveDoc(t)
       \/ RenameManifest(t) \/ RemoveManifest(t) \/ SyncFiles(t) \/ SaveFails(t)
  \/ \E bad \in Mishap : Restart(bad)
  \/ LoadManifest \/ LoseApk

Spec == Init /\ [][Next]_vars

-----------------------------------------------------------------------------
Number == 0..MaxRequests

(* The variables keep their types, and whoever writes the manifest or the  *)
(* document holds g_mu.                                                    *)
TypeOK ==
  /\ {disk, cache} \cup {copy[t] : t \in Thread} \subseteq [Field \cup {"docVer"} -> Number]
  /\ {there, loaded, unread, reused} \subseteq BOOLEAN
  /\ {jsonFile, apkFile} \subseteq Number \cup {None} /\ docFile \in Number
  /\ docCache \in [of : Number, ver : Number]
  /\ lock \in Thread \cup {None}
  /\ pc \in [Thread -> {"idle", "parse", "apk", "doc", "doc again", "save", "save again", "sync"}]
  /\ own \in [Thread -> Field \cup {None}]
  /\ requests \in Number /\ faults \in 0..MaxFaults /\ crashes \in 0..MaxCrashes
  /\ want \in [Field -> Number] /\ over \subseteq Thread /\ slip \cup apart \subseteq Field
  /\ \A t \in Thread : pc[t] \in {"doc", "doc again", "save again", "sync"} => lock = t

(* Readers in memory see the manifest of the disk whenever nobody saves,   *)
(* also after a save that failed (save_manifest_unlocked), unless the file *)
(* could not be read at their first call, or is not there any more.        *)
CacheIsDisk == lock = None /\ loaded /\ there /\ ~unread => cache = disk

(* A saved change stays until the field is changed again, whatever the     *)
(* other handlers save: on the disk, or in memory while a failed rename    *)
(* has left no file.  It is lost with an old or an empty copy: of a        *)
(* handler that another overtook, of a document upload, a first call or a  *)
(* start that could not read the file; and if the server stops, or a       *)
(* document is uploaded, while there is no file.                           *)
ChangesKept ==
  \A f \in Field \ slip : IF there THEN disk[f] = want[f] ELSE loaded /\ cache[f] = want[f]

(* The file clients download under json_url has the activities and version *)
(* the manifest announces, but while a file is being edited, or after a    *)
(* stop between the two writes, or when one of the two failed.             *)
DownloadFollows == lock = None /\ there /\ "huo" \notin apart => jsonFile = disk.huo

(* The document that is served has the version and the md5 the manifest    *)
(* announces, unless the manifest could not be saved after the document or *)
(* not be read at the start, or lost the announcement.                     *)
DocAsAnnounced ==
  lock = None /\ there /\ "doc" \notin slip \cup apart =>
    docCache \in {[of |-> disk.doc, ver |-> disk.docVer], NoDoc}

(* The APK that is served is the one the manifest was changed for, if no   *)
(* upload is under way, was refused, failed or was stopped after the APK   *)
(* was replaced, or was saved after a later one, and nobody has set        *)
(* apk_file or program_version by hand.                                    *)
ApkAsAnnounced == lock = None /\ there /\ "apk" \notin slip \cup apart => apkFile = disk.apk

(* A version names one document: the client, which asks for the document   *)
(* of another version than its own, misses none.  The numbers may go back  *)
(* with an old or an empty copy of the manifest, and a document that could *)
(* not be announced is served under the old number after a restart.        *)
VersionNamesOne == reused \/ \A x, y \in issued : x[1] = y[1] => x[2] = y[2]

(* Memory, disk and what the administrators saved agree.                   *)
ManifestKept == TypeOK /\ CacheIsDisk /\ ChangesKept

(* What clients can download is what the manifest announces to them.       *)
Announced == DownloadFollows /\ DocAsAnnounced /\ ApkAsAnnounced
=============================================================================
