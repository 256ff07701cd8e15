----------------------------- MODULE Serving_proofs -----------------------------
(* What holds of the manifest, of getInitData and of the gateway.          *)
(*                                                                         *)
(* Manifest: the manifest that counts is the disk's, or memory's while     *)
(* there is none on the disk (Current).  Without an old or an empty copy,  *)
(* what a handler will save differs from it in the field of its request    *)
(* only, and in the document's version (Copies): saving it loses nothing   *)
(* and makes that version greater than any that was told (VersionsGrow).   *)
(* If neither has the changes, all fields are in slip (StaysSomewhere).    *)
(* Most steps touch neither of the two (Quiet).                            *)
(*                                                                         *)
(* getInitData: activities that were loaded by a request whose version is  *)
(* the present one are the manifest's, already before the client has them  *)
(* (ReadIsCurrent), as a change either takes a number that nobody can have *)
(* yet, or is marked as one that does not.                                 *)
(*                                                                         *)
(* Gateway: no more connections are counted under a peer than held_ says,  *)
(* of which finitely many are present; a reset moves a connection's count  *)
(* to the unknown name (Names).                                            *)
EXTENDS Serving, FiniteSetTheorems, TLAPS

-----------------------------------------------------------------------------
(* The manifest.                                                           *)

Field == Files!Field
Numbers == 0..requests
Locked == {"doc", "doc again", "save again", "sync"}
Syncs == \E t \in Thread : pc[t] = "sync"

\* No number is greater than that of the last request.
Kept == [Field \cup {"docVer"} -> Numbers]
Manifests == disk \in Kept /\ cache \in Kept /\ copy \in [Thread -> Kept]
Numbered ==
  /\ {jsonFile, apkFile} \subseteq Numbers \cup {None} /\ docFile \in Numbers
  /\ docCache \in [of : Numbers, ver : Numbers]
  /\ requests \in 0..MaxRequests /\ want \in [Field -> Numbers]
  /\ issued \subseteq Numbers \X Numbers
Handlers ==
  /\ lock \in Thread \cup {None}
  /\ pc \in [Thread -> {"idle", "parse", "apk", "save"} \cup Locked]
  /\ own \in [Thread -> Field \cup {None}]
Past ==
  /\ there \in BOOLEAN /\ loaded \in BOOLEAN /\ unread \in BOOLEAN /\ reused \in BOOLEAN
  /\ faults \in 0..MaxFaults /\ crashes \in 0..MaxCrashes
  /\ over \subseteq Thread /\ slip \subseteq Field /\ apart \subseteq Field

FileTypes == Manifests /\ Numbered /\ Handlers /\ Past

\* Who holds g_mu, and what a handler is about at each step.
Holders ==
  \A t \in Thread :
    /\ pc[t] \in Locked => lock = t
    /\ lock = t => pc[t] \in Locked \/ (pc[t] = "save" /\ own[t] = "doc")
    /\ pc[t] = "save" /\ own[t] = "doc" => lock = t
    /\ pc[t] \in {"doc", "doc again"} => own[t] = "doc"
    /\ pc[t] = "apk" => own[t] = "apk"
    /\ pc[t] = "parse" => own[t] = "huo"
    /\ pc[t] # "idle" => own[t] \in Field

InMemory == loaded /\ ~unread
Current  == IF there THEN disk ELSE cache

\* The changes are on the disk or in memory, or counted as lost.
StaysSomewhere ==
  /\ \A f \in Field \ slip : Current[f] = want[f]
  /\ there \/ InMemory \/ slip = Field
  /\ slip # {} => reused

\* A copy differs from the current manifest in what its request is about, if
\* it is neither old nor empty and the current one is not lost.
Differs(t) ==
  /\ \A f \in Field \ {own[t]} : copy[t][f] = Current[f]
  /\ copy[t].docVer = IF own[t] = "doc" THEN Current.docVer + 1 ELSE Current.docVer
Lost == slip = Field /\ reused
FreshCopies ==
  \A t \in Thread :
    pc[t] \in {"doc", "doc again", "save", "save again"} /\ t \notin over /\ ~Syncs =>
      Differs(t) \/ Lost

\* What was renamed is on the disk, and the document was written before.
RenamedCopies == \A t \in Thread : pc[t] = "sync" => disk = copy[t] /\ there
DocumentCopies ==
  \A t \in Thread : pc[t] \in {"save", "save again", "sync"} /\ own[t] = "doc" =>
    "doc" \in apart /\ docFile = copy[t].doc

Copies == FreshCopies /\ RenamedCopies /\ DocumentCopies

\* Memory has the disk's manifest when nobody saves.
MemoryFollows == ~Syncs /\ InMemory /\ there => cache = disk

\* The files are the manifest's where nothing has parted them.
FilesFollow ==
  /\ there /\ "huo" \notin apart => jsonFile = disk.huo
  /\ "apk" \notin slip \cup apart => apkFile = Current.apk
  /\ "doc" \notin slip \cup apart =>
       /\ docFile = Current.doc
       /\ docCache \in {[of |-> Current.doc, ver |-> Current.docVer], Files!NoDoc}

\* No version that was told is greater than the manifest's.
Told(m) == \A x \in issued : x[1] <= m.docVer /\ (x[1] = m.docVer => x[2] = m.doc)
VersionsGrow == reused \/ Told(Current)

FileInv ==
  /\ FileTypes /\ Holders /\ Copies /\ MemoryFollows /\ StaysSomewhere /\ FilesFollow
  /\ VersionsGrow /\ Files!VersionNamesOne

\* Numbers grow with the requests.
LEMMA MoreNumbers ==
  requests \in Nat /\ requests' = requests + 1 =>
    Numbers \subseteq Numbers' /\ requests' \in Numbers' /\ \A n \in Numbers : n + 1 \in Numbers'
<1> SUFFICES ASSUME requests \in Nat, requests' = requests + 1
             PROVE  Numbers \subseteq Numbers' /\ requests' \in Numbers' /\ \A n \in Numbers : n + 1 \in Numbers'
  OBVIOUS
<1>1. Numbers' = 0..(requests + 1) BY DEF Numbers
<1> QED BY <1>1 DEF Numbers

\* Whoever is about to rename the manifest holds the lock or finds it free.
LEMMA Alone ==
  ASSUME Holders, NEW t \in Thread, pc[t] # "sync", lock \in {None, t}
  PROVE  ~Syncs
BY FileConstants DEF Files!ManifestAssumption, Holders, Locked, Syncs

\* With g_mu free a handler that reads memory reads the current manifest.
LEMMA FreeLock ==
  ASSUME Holders, MemoryFollows, lock = None, InMemory
  PROVE  ~Syncs /\ cache = Current
<1>1. ~Syncs BY FileConstants DEF Files!ManifestAssumption, Holders, Locked, Syncs
<1> QED BY <1>1 DEF MemoryFollows, Current

-----------------------------------------------------------------------------
(* Most steps leave the manifest, on the disk and in memory, as it is.     *)

Quiet ==
  /\ UNCHANGED <<disk, there, cache, loaded, docCache, want, unread, slip, reused, issued>>
  /\ apart \subseteq apart'
  /\ jsonFile' = jsonFile \/ "huo" \in apart'
  /\ apkFile' = apkFile \/ "apk" \in apart'
  /\ docFile' = docFile \/ "doc" \in apart'
  /\ Syncs' = Syncs

\* A handler's step outside of a save that succeeds.
HandlerSteps(t) ==
  \/ \E f \in Field : Files!Edit(t, f)
  \/ Files!ReceiveApk(t) \/ Files!UploadApk(t) \/ Files!RefuseApk(t)
  \/ Files!SaveJsonFile(t) \/ Files!CopyManifest(t)
  \/ Files!UploadDoc(t) \/ Files!WriteDoc(t) \/ Files!RemoveDoc(t) \/ Files!SaveFails(t)

\* They are the quiet ones.
LEMMA QuietSteps ==
  ASSUME FileTypes, NEW t \in Thread, HandlerSteps(t)
  PROVE  Quiet
<1>0. pc \in [Thread -> {"idle", "parse", "apk", "save"} \cup Locked] BY DEF FileTypes, Handlers
<1>s. ASSUME NEW w, w # "sync", pc[t] # "sync", pc' = [pc EXCEPT ![t] = w] PROVE Syncs' = Syncs
  BY <1>0, <1>s DEF Syncs
<1>1. ASSUME NEW f \in Field, Files!Edit(t, f) PROVE Quiet
  BY <1>1, <1>s DEF Quiet, Files!Edit, Files!Begin, Files!files
<1>2. CASE Files!ReceiveApk(t) BY <1>2, <1>s DEF Quiet, Files!ReceiveApk, Files!Begin
<1>3. CASE Files!UploadApk(t) BY <1>3, <1>s DEF Quiet, Files!UploadApk, Files!files
<1>4. CASE Files!RefuseApk(t)
  BY <1>4, <1>s DEF Quiet, Files!RefuseApk, Files!End, Files!files, Files!history
<1>5. CASE Files!SaveJsonFile(t) BY <1>5, <1>s DEF Quiet, Files!SaveJsonFile, Files!Begin
<1>6. CASE Files!CopyManifest(t) BY <1>6, <1>s DEF Quiet, Files!CopyManifest, Files!files
<1>7. CASE Files!UploadDoc(t) BY <1>7, <1>s DEF Quiet, Files!UploadDoc, Files!Begin, Files!files
<1>8. CASE Files!WriteDoc(t) BY <1>8, <1>s DEF Quiet, Files!WriteDoc
<1>9. CASE Files!RemoveDoc(t) BY <1>9, <1>s DEF Quiet, Files!RemoveDoc
<1>10. CASE Files!SaveFails(t) BY <1>10, <1>s DEF Quiet, Files!SaveFails, Files!End, Files!files
<1> QED BY <1>1, <1>2, <1>3, <1>4, <1>5, <1>6, <1>7, <1>8, <1>9, <1>10 DEF HandlerSteps

\* What holds of the manifest and its files holds after a quiet step.
LEMMA QuietKeeps ==
  ASSUME FileInv, Quiet
  PROVE  (MemoryFollows /\ StaysSomewhere /\ FilesFollow /\ VersionsGrow /\ Files!VersionNamesOne)'
<1>0. MemoryFollows /\ StaysSomewhere /\ FilesFollow /\ VersionsGrow /\ Files!VersionNamesOne
  BY DEF FileInv
<1>1. Current' = Current /\ InMemory' = InMemory BY DEF Quiet, Current, InMemory
<1>2. MemoryFollows' BY <1>0, <1>1 DEF Quiet, MemoryFollows
<1>3. StaysSomewhere' BY <1>0, <1>1 DEF Quiet, StaysSomewhere
<1>4. FilesFollow' BY <1>0, <1>1 DEF Quiet, FilesFollow
<1>5. VersionsGrow' BY <1>0, <1>1 DEF Quiet, VersionsGrow, Told
<1>6. Files!VersionNamesOne' BY <1>0 DEF Quiet, Files!VersionNamesOne
<1> QED BY <1>2, <1>3, <1>4, <1>5, <1>6

\* The steps of the update service, by what they do to the manifest.
LEMMA FileSteps ==
  ASSUME FileTypes, [Files!Next]_(Files!vars)
  PROVE  \/ \E t \in Thread : HandlerSteps(t)
         \/ \E t \in Thread : Files!RenameManifest(t) \/ Files!RemoveManifest(t) \/ Files!SyncFiles(t)
         \/ \E bad \in Files!Mishap : Files!Restart(bad)
         \/ Files!LoadManifest \/ Files!LoseApk \/ UNCHANGED Files!vars
BY DEF Files!Next, HandlerSteps, Field

-----------------------------------------------------------------------------
(* The steps that change it.                                               *)

\* What a start does to the manifest, losing it or not.
LEMMA StartKeeps ==
  ASSUME FileTypes, NEW bad \in Files!Mishap, Files!Restart(bad)
  PROVE  /\ loaded' => there' /\ cache' = disk'
         /\ apkFile' = apkFile /\ docFile' = docFile /\ ~Syncs'
         /\ \/ slip' = Field /\ reused' /\ (there' => jsonFile' = disk'.huo \/ "huo" \in apart')
            \/ /\ there /\ there' /\ slip' = slip /\ (reused \/ "doc" \in apart => reused')
               /\ \/ /\ docFile # 0 /\ disk.doc = 0 /\ disk' = [disk EXCEPT !.doc = docFile]
                     /\ want' = [want EXCEPT !.doc = docFile]
                     /\ jsonFile' = disk'.huo \/ "huo" \in apart'
                  \/ /\ disk' = disk /\ want' = want
                     /\ jsonFile' = jsonFile /\ ("huo" \in apart => "huo" \in apart')
               /\ \/ docCache' = Files!NoDoc /\ issued' = issued
                  \/ /\ docCache' = [of |-> docFile, ver |-> disk.docVer]
                     /\ issued' = issued \cup {<<disk.docVer, docFile>>}
                  \/ "doc" \in apart' /\ reused'
               /\ \A f \in {"apk", "doc"} : f \in apart => f \in apart'
<1> DEFINE found   == IF bad = "manifest" THEN Files!Default ELSE disk
           adopts  == there /\ docFile # 0 /\ found.doc = 0
           known   == IF adopts THEN [found EXCEPT !.doc = docFile] ELSE found
           saves   == (adopts \/ ~there) /\ bad \notin {"save", "remove"}
           gone    == ~there \/ (adopts /\ bad = "remove")
           loses   == gone \/ (saves /\ bad = "manifest")
           version == IF gone \/ bad = "version" THEN 0 ELSE found.docVer
           serves  == docFile # 0 /\ bad # "doc"
<1>1. /\ disk' = (IF saves THEN known ELSE IF gone THEN Files!Default ELSE disk)
      /\ there' = (saves \/ ~gone)
      /\ cache' = (IF saves THEN known ELSE Files!Default) /\ loaded' = saves
      /\ want' = IF adopts /\ saves THEN [want EXCEPT !.doc = docFile] ELSE want
      /\ UNCHANGED <<apkFile, docFile>>
  BY DEF Files!Restart
<1>2. /\ docCache' = IF serves THEN [of |-> docFile, ver |-> version] ELSE Files!NoDoc
      /\ issued' = IF serves THEN issued \cup {<<version, docFile>>} ELSE issued
      /\ slip' = (IF loses THEN Field ELSE slip)
      /\ reused' = (reused \/ loses \/ "doc" \in apart \/ bad = "version")
  BY DEF Files!Restart, Field
<1>3. /\ apart' = (IF saves THEN apart \ {"huo"} ELSE apart)
                  \cup (CASE bad = "download" -> {"huo"} [] bad = "version" -> {"doc"} [] OTHER -> {})
      /\ pc' = [t \in Thread |-> "idle"]
  BY DEF Files!Restart
<1>4. /\ saves => jsonFile' = known.huo \/ bad = "download"
      /\ ~saves => jsonFile' = jsonFile
      /\ bad = "download" => saves
  BY DEF Files!Restart, Files!CutOff, Files!Download, Files!Mishap
<1>5. /\ "doc" \in apart => "doc" \in apart'
      /\ "apk" \in apart => "apk" \in apart'
      /\ "huo" \in apart /\ ~saves => "huo" \in apart'
      /\ bad = "download" => "huo" \in apart'
      /\ bad = "version" => "doc" \in apart'
  BY <1>3
<1>6. ~Syncs' BY <1>3 DEF Syncs
<1>7. there' => saves \/ (~gone /\ disk' = disk) BY <1>1
<1>8. CASE loses
  <2>1. there' => saves BY <1>1, <1>8
  <2> QED BY <1>1, <1>2, <1>4, <1>5, <1>6, <1>8, <2>1
<1>9. CASE ~loses
  <2>1. there /\ there' /\ slip' = slip BY <1>1, <1>2, <1>9
  <2>2. saves => adopts /\ found = disk BY <2>1, <1>9
  <2>3. adopts /\ ~saves => bad = "save" BY <1>9
  <2>4. adopts => found = disk BY <2>2, <2>3
  <2>5. serves /\ bad # "version" => version = disk.docVer
    <3>1. serves /\ bad = "manifest" => adopts BY <2>1 DEF Files!Default, Files!Field
    <3> QED BY <1>9, <2>4, <3>1
  <2>6. \/ /\ docFile # 0 /\ disk.doc = 0 /\ disk' = [disk EXCEPT !.doc = docFile]
           /\ want' = [want EXCEPT !.doc = docFile]
           /\ jsonFile' = disk'.huo \/ "huo" \in apart'
        \/ /\ disk' = disk /\ want' = want
           /\ jsonFile' = jsonFile /\ ("huo" \in apart => "huo" \in apart')
    BY <1>1, <1>4, <1>5, <1>9, <2>2
  <2>7. \/ docCache' = Files!NoDoc /\ issued' = issued
        \/ /\ docCache' = [of |-> docFile, ver |-> disk.docVer]
           /\ issued' = issued \cup {<<disk.docVer, docFile>>}
        \/ "doc" \in apart' /\ reused'
    BY <1>2, <1>5, <2>5
  <2> QED BY <1>1, <1>2, <1>5, <1>6, <2>1, <2>6, <2>7
<1> QED BY <1>8, <1>9

\* The manifest and its files after each of the steps that change it.
FilesKept == MemoryFollows /\ StaysSomewhere /\ FilesFollow /\ VersionsGrow /\ Files!VersionNamesOne

LEMMA KeptTypes ==
  FileTypes /\ Holders =>
    /\ disk \in Kept /\ cache \in Kept /\ copy \in [Thread -> Kept] /\ Current \in Kept
    /\ \A t \in Thread : pc[t] # "idle" => own[t] \in Field
    /\ Numbers \subseteq Nat /\ slip \subseteq Field
    /\ \A x \in issued : x[1] \in Nat /\ x[2] \in Nat
    /\ there \in BOOLEAN /\ loaded \in BOOLEAN /\ unread \in BOOLEAN /\ reused \in BOOLEAN
<1> SUFFICES ASSUME FileTypes, Holders
             PROVE  /\ disk \in Kept /\ cache \in Kept /\ copy \in [Thread -> Kept] /\ Current \in Kept
                    /\ \A t \in Thread : pc[t] # "idle" => own[t] \in Field
                    /\ Numbers \subseteq Nat /\ slip \subseteq Field
                    /\ \A x \in issued : x[1] \in Nat /\ x[2] \in Nat
                    /\ there \in BOOLEAN /\ loaded \in BOOLEAN /\ unread \in BOOLEAN /\ reused \in BOOLEAN
  OBVIOUS
<1>1. Numbers \subseteq Nat
  BY FileConstants DEF FileTypes, Numbered, Numbers, Files!ManifestAssumption
<1>2. \A x \in issued : x[1] \in Nat /\ x[2] \in Nat BY <1>1 DEF FileTypes, Numbered
<1>3. disk \in Kept /\ cache \in Kept /\ copy \in [Thread -> Kept] /\ Current \in Kept
  BY DEF FileTypes, Manifests, Current
<1> QED BY <1>1, <1>2, <1>3 DEF FileTypes, Past, Holders

LEMMA StartStep ==
  ASSUME FileInv, NEW bad \in Files!Mishap, Files!Restart(bad)
  PROVE  FilesKept'
<1>0. /\ FileTypes /\ Holders /\ StaysSomewhere /\ FilesFollow /\ VersionsGrow
      /\ Files!VersionNamesOne
  BY DEF FileInv
<1>1. MemoryFollows' BY <1>0, StartKeeps DEF MemoryFollows, InMemory
<1>2. CASE /\ slip' = Field /\ reused'
           /\ there' => jsonFile' = disk'.huo \/ "huo" \in apart'
  <2>1. StaysSomewhere' BY <1>2 DEF StaysSomewhere
  <2>2. FilesFollow' BY <1>2 DEF FilesFollow, Field, Files!Field
  <2> QED BY <1>1, <1>2, <2>1, <2>2 DEF FilesKept, VersionsGrow, Files!VersionNamesOne
<1>3. CASE ~(slip' = Field /\ reused' /\ (there' => jsonFile' = disk'.huo \/ "huo" \in apart'))
  <2>1. /\ there /\ there' /\ slip' = slip /\ (reused \/ "doc" \in apart => reused')
        /\ \/ /\ docFile # 0 /\ disk.doc = 0 /\ disk' = [disk EXCEPT !.doc = docFile]
              /\ want' = [want EXCEPT !.doc = docFile]
              /\ jsonFile' = disk'.huo \/ "huo" \in apart'
           \/ /\ disk' = disk /\ want' = want
              /\ jsonFile' = jsonFile /\ ("huo" \in apart => "huo" \in apart')
        /\ \/ docCache' = Files!NoDoc /\ issued' = issued
           \/ /\ docCache' = [of |-> docFile, ver |-> disk.docVer]
              /\ issued' = issued \cup {<<disk.docVer, docFile>>}
           \/ "doc" \in apart' /\ reused'
        /\ \A f \in {"apk", "doc"} : f \in apart => f \in apart'
        /\ apkFile' = apkFile /\ docFile' = docFile
    BY <1>0, <1>3, StartKeeps
  <2>2. disk \in [Field \cup {"docVer"} -> Numbers] /\ want \in [Field -> Numbers]
    BY <1>0 DEF FileTypes, Manifests, Numbered, Kept
  <2>3. "doc" \notin slip \cup apart => disk' = disk /\ docFile = disk.doc
    BY <1>0, <2>1 DEF FilesFollow, Current
  <2>4. Current = disk /\ Current' = disk' BY <2>1 DEF Current
  <2>5. disk'.docVer = disk.docVer /\ \A f \in Field \ {"doc"} : disk'[f] = disk[f]
    BY <2>1, <2>2 DEF Field, Files!Field
  <2>6. StaysSomewhere'
    <3>1. \A f \in Field \ slip : disk'[f] = want'[f]
      BY <1>0, <2>1, <2>2, <2>4 DEF StaysSomewhere, Field, Files!Field
    <3> QED BY <1>0, <2>1, <2>4, <3>1 DEF StaysSomewhere
  <2>7. FilesFollow'
    <3>1. there' /\ "huo" \notin apart' => jsonFile' = disk'.huo
      BY <1>0, <2>1 DEF FilesFollow
    <3>2. "apk" \notin slip' \cup apart' => apkFile' = Current'.apk
      BY <1>0, <2>1, <2>4, <2>5 DEF FilesFollow, Field, Files!Field
    <3>3. "doc" \notin slip' \cup apart' =>
            /\ docFile' = Current'.doc
            /\ docCache' \in {[of |-> Current'.doc, ver |-> Current'.docVer], Files!NoDoc}
      BY <2>1, <2>3, <2>4
    <3> QED BY <3>1, <3>2, <3>3 DEF FilesFollow, Files!NoDoc
  <2>8. CASE reused' BY <1>1, <2>6, <2>7, <2>8 DEF FilesKept, VersionsGrow, Files!VersionNamesOne
  <2>9. CASE ~reused'
    <3>1. "doc" \notin slip \cup apart /\ ~reused BY <1>0, <2>1, <2>9 DEF StaysSomewhere
    <3>2. Told(disk) BY <1>0, <2>4, <3>1 DEF VersionsGrow
    <3>3. issued' \subseteq issued \cup {<<disk.docVer, disk.doc>>} BY <2>1, <2>3, <2>9, <3>1
    <3>4. disk.docVer \in Nat BY <1>0, KeptTypes DEF Kept
    <3>5. Told(disk)' BY <2>3, <3>1, <3>2, <3>3, <3>4 DEF Told
    <3>6. \A x, y \in issued' : x[1] = y[1] => x[2] = y[2]
      BY <1>0, <3>1, <3>2, <3>3 DEF Told, Files!VersionNamesOne
    <3> QED
      BY <1>1, <2>4, <2>6, <2>7, <3>5, <3>6 DEF FilesKept, VersionsGrow, Told,
                                                Files!VersionNamesOne
  <2> QED BY <2>8, <2>9
<1> QED BY <1>2, <1>3

\* A manifest that is renamed into its place.
LEMMA RenameStep ==
  ASSUME FileInv, NEW t \in Thread, Files!RenameManifest(t)
  PROVE  FilesKept'
<1>0. /\ FileTypes /\ Holders /\ Copies /\ StaysSomewhere /\ FilesFollow /\ VersionsGrow
      /\ Files!VersionNamesOne
  BY DEF FileInv
<1>1. /\ pc[t] \in {"save", "save again"} /\ lock \in {None, t} /\ disk' = copy[t] /\ there'
      /\ pc' = [pc EXCEPT ![t] = "sync"]
      /\ want' = [want EXCEPT ![own[t]] = copy[t][own[t]]]
      /\ slip' = (IF t \in over THEN Field ELSE slip) \ {own[t]}
      /\ reused' = (reused \/ t \in over) /\ apart' = apart \cup {"huo", own[t]}
      /\ UNCHANGED <<jsonFile, apkFile, docFile, docCache, issued>>
  BY DEF Files!RenameManifest, Files!Hold, Files!files, Field
<1>2. own[t] \in Field /\ slip \subseteq Field /\ want \in [Field -> Numbers]
      /\ pc \in [Thread -> {"idle", "parse", "apk", "save"} \cup Locked]
  BY <1>0, <1>1 DEF FileTypes, Past, Numbered, Holders, Handlers
<1>3. ~Syncs BY <1>0, <1>1, Alone
<1>4. Syncs' BY <1>1, <1>2 DEF Syncs
<1>5. t \in over \/ Differs(t) \/ Lost BY <1>0, <1>1, <1>3 DEF Copies, FreshCopies
<1>6. Current' = copy[t] BY <1>1 DEF Current
<1>7. StaysSomewhere'
  <2>1. ASSUME NEW f \in Field \ slip' PROVE Current'[f] = want'[f]
    <3>1. CASE f = own[t] BY <1>1, <1>2, <1>6, <3>1
    <3>2. CASE f # own[t]
      <4>1. t \notin over /\ f \notin slip BY <1>1, <2>1, <3>2
      <4>2. copy[t][f] = Current[f] BY <1>5, <3>2, <4>1 DEF Lost, Differs
      <4>3. Current[f] = want[f] BY <1>0, <4>1 DEF StaysSomewhere
      <4> QED BY <1>1, <1>2, <1>6, <3>2, <4>2, <4>3
    <3> QED BY <3>1, <3>2
  <2>2. slip' # {} => reused' BY <1>0, <1>1 DEF StaysSomewhere
  <2> QED BY <1>1, <2>1, <2>2 DEF StaysSomewhere
<1>8. FilesFollow'
  <2>1. ASSUME NEW f \in {"apk", "doc"}, f \notin slip' \cup apart'
        PROVE  f # own[t] /\ f \notin slip \cup apart /\ Differs(t) /\ copy[t][f] = Current[f]
    <3>1. f # own[t] /\ f \notin slip \cup apart /\ t \notin over /\ f \in Field
      BY <1>1, <2>1 DEF Field, Files!Field
    <3> QED BY <1>5, <3>1 DEF Lost, Differs
  <2>2. "apk" \notin slip' \cup apart' => apkFile' = Current'.apk
    BY <1>0, <1>1, <1>6, <2>1 DEF FilesFollow
  <2>3. "doc" \notin slip' \cup apart' =>
          /\ docFile' = Current'.doc
          /\ docCache' \in {[of |-> Current'.doc, ver |-> Current'.docVer], Files!NoDoc}
    BY <1>0, <1>1, <1>6, <2>1 DEF FilesFollow, Differs
  <2> QED BY <1>1, <2>2, <2>3 DEF FilesFollow, Files!NoDoc
<1>9. VersionsGrow'
  <2>1. CASE reused' BY <2>1 DEF VersionsGrow
  <2>2. CASE ~reused'
    <3>1. t \notin over /\ ~reused /\ Differs(t) BY <1>1, <1>5, <2>2 DEF Lost
    <3>2. Told(Current) BY <1>0, <3>1 DEF VersionsGrow
    <3>3. Current.docVer \in Nat /\ \A x \in issued : x[1] \in Nat BY <1>0, KeptTypes DEF Kept
    <3>4. CASE own[t] = "doc"
      <4>1. copy[t].docVer = Current.docVer + 1 BY <3>1, <3>4 DEF Differs
      <4>2. \A x \in issued : x[1] < copy[t].docVer BY <3>2, <3>3, <4>1 DEF Told
      <4>3. \A x \in issued : x[1] <= copy[t].docVer /\ x[1] # copy[t].docVer
        BY <3>3, <4>1, <4>2
      <4> QED BY <1>1, <1>6, <4>3 DEF VersionsGrow, Told
    <3>5. CASE own[t] # "doc"
      <4>1. copy[t].docVer = Current.docVer /\ copy[t].doc = Current.doc
        BY <3>1, <3>5 DEF Differs, Field, Files!Field
      <4> QED BY <1>1, <1>6, <3>2, <4>1 DEF VersionsGrow, Told
    <3> QED BY <3>4, <3>5
  <2> QED BY <2>1, <2>2
<1>10. Files!VersionNamesOne' BY <1>0, <1>1 DEF Files!VersionNamesOne
<1>11. MemoryFollows' BY <1>4 DEF MemoryFollows
<1> QED BY <1>7, <1>8, <1>9, <1>10, <1>11 DEF FilesKept

\* A manifest that is removed: memory has it, or it is lost.
LEMMA RemovedStays ==
  ASSUME FileInv, NEW t \in Thread, Files!RemoveManifest(t)
  PROVE  ~Syncs /\ ~there' /\ (Lost' \/ (InMemory /\ Current' = Current /\ UNCHANGED <<slip, reused>>))
<1>0. FileTypes /\ Holders /\ MemoryFollows BY DEF FileInv
<1>1. /\ pc[t] = "save" /\ lock \in {None, t} /\ there' = FALSE
      /\ slip' = (IF ~InMemory THEN Field ELSE slip) /\ reused' = (reused \/ ~InMemory)
      /\ UNCHANGED cache
  BY <1>0 DEF Files!RemoveManifest, Files!Hold, Field, InMemory, FileTypes, Past
<1>2. ~Syncs BY <1>0, <1>1, Alone
<1>3. CASE InMemory
  <2>1. Current' = cache BY <1>1 DEF Current
  <2>2. Current = cache BY <1>0, <1>2, <1>3 DEF MemoryFollows, Current
  <2>3. UNCHANGED <<slip, reused>> BY <1>0, <1>1, <1>3 DEF FileTypes, Past
  <2> QED BY <1>1, <1>2, <1>3, <2>1, <2>2, <2>3
<1>4. CASE ~InMemory BY <1>1, <1>2, <1>4 DEF Lost
<1> QED BY <1>3, <1>4

LEMMA RemoveStep ==
  ASSUME FileInv, NEW t \in Thread, Files!RemoveManifest(t)
  PROVE  FilesKept'
<1>0. StaysSomewhere /\ FilesFollow /\ VersionsGrow /\ Files!VersionNamesOne BY DEF FileInv
<1>1. UNCHANGED <<loaded, unread, jsonFile, apkFile, docFile, docCache, want, apart, issued>>
  BY DEF Files!RemoveManifest, Files!files
<1>2. ~there' /\ (Lost' \/ (InMemory /\ Current' = Current /\ UNCHANGED <<slip, reused>>))
  BY RemovedStays
<1>3. MemoryFollows' BY <1>2 DEF MemoryFollows
<1>4. CASE Lost'
  BY <1>2, <1>3, <1>4 DEF Lost, FilesKept, StaysSomewhere, FilesFollow, VersionsGrow,
                          Files!VersionNamesOne, Field, Files!Field
<1>5. CASE InMemory /\ Current' = Current /\ UNCHANGED <<slip, reused>>
  <2>1. StaysSomewhere' BY <1>0, <1>1, <1>5 DEF StaysSomewhere, InMemory
  <2>2. FilesFollow' BY <1>0, <1>1, <1>2, <1>5 DEF FilesFollow
  <2>3. VersionsGrow' BY <1>0, <1>1, <1>5 DEF VersionsGrow, Told
  <2>4. Files!VersionNamesOne' BY <1>0, <1>1, <1>5 DEF Files!VersionNamesOne
  <2> QED BY <1>3, <2>1, <2>2, <2>3, <2>4 DEF FilesKept
<1> QED BY <1>2, <1>4, <1>5

\* The first reading of the manifest, which succeeds or does not.
LEMMA LoadKeeps ==
  ASSUME FileInv, Files!LoadManifest
  PROVE  (Lost /\ Lost') \/ (there /\ Current' = Current)
<1>1. ~loaded /\ UNCHANGED <<disk, there, slip, reused>> BY DEF Files!LoadManifest
<1>2. there \/ Lost
  <2>1. there \/ slip = Field BY <1>1 DEF FileInv, StaysSomewhere, InMemory
  <2>2. Field # {} BY DEF Field, Files!Field
  <2> QED BY <2>1, <2>2 DEF FileInv, StaysSomewhere, Lost
<1> QED BY <1>1, <1>2 DEF Lost, Current

LEMMA LoadStep ==
  ASSUME FileInv, Files!LoadManifest
  PROVE  FilesKept'
<1>0. StaysSomewhere /\ FilesFollow /\ VersionsGrow /\ Files!VersionNamesOne BY DEF FileInv
<1>1. UNCHANGED <<disk, there, jsonFile, apkFile, docFile, docCache, want, slip, apart, reused, issued>>
  BY DEF Files!LoadManifest, Files!files
<1>2. MemoryFollows' BY <1>1 DEF MemoryFollows, Files!LoadManifest, InMemory
<1>3. CASE Lost /\ Lost'
  BY <1>0, <1>1, <1>2, <1>3 DEF Lost, FilesKept, StaysSomewhere, FilesFollow, VersionsGrow,
                          Files!VersionNamesOne, Field, Files!Field
<1>4. CASE there /\ Current' = Current
  <2>1. StaysSomewhere' BY <1>0, <1>1, <1>4 DEF StaysSomewhere
  <2>2. FilesFollow' BY <1>0, <1>1, <1>4 DEF FilesFollow
  <2>3. VersionsGrow' BY <1>0, <1>1, <1>4 DEF VersionsGrow, Told
  <2>4. Files!VersionNamesOne' BY <1>0, <1>1, <1>4 DEF Files!VersionNamesOne
  <2> QED BY <1>2, <2>1, <2>2, <2>3, <2>4 DEF FilesKept
<1> QED BY <1>3, <1>4, LoadKeeps

\* The end of a save: memory and the download file follow.
LEMMA SyncStep ==
  ASSUME FileInv, NEW t \in Thread, Files!SyncFiles(t)
  PROVE  FilesKept'
<1>0. /\ FileTypes /\ Holders /\ Copies /\ StaysSomewhere /\ FilesFollow /\ VersionsGrow
      /\ Files!VersionNamesOne
  BY DEF FileInv
<1>1. /\ pc[t] = "sync" /\ cache' = copy[t] /\ loaded' = TRUE /\ unread' = FALSE
      /\ \/ jsonFile' = copy[t].huo /\ apart' = apart \ Files!Together(t)
         \/ apart' = (apart \ Files!Together(t)) \cup {"huo"}
      /\ IF own[t] = "doc"
         THEN /\ docCache' = [of |-> copy[t].doc, ver |-> copy[t].docVer]
              /\ issued' = issued \cup {<<copy[t].docVer, copy[t].doc>>}
         ELSE UNCHANGED <<docCache, issued>>
      /\ UNCHANGED <<disk, there, apkFile, docFile, want, slip, reused>>
  BY DEF Files!SyncFiles, Files!Cached, Files!Served, Files!Written, Files!Download
<1>2. disk = copy[t] /\ there BY <1>0, <1>1 DEF Copies, RenamedCopies
<1>3. Current = disk /\ Current' = disk BY <1>1, <1>2 DEF Current
<1>4. MemoryFollows' BY <1>1, <1>2 DEF MemoryFollows
<1>5. StaysSomewhere' BY <1>0, <1>1, <1>2, <1>3 DEF StaysSomewhere
<1>6. /\ "apk" \in Files!Together(t) => copy[t].apk = apkFile
      /\ "doc" \in Files!Together(t) <=> own[t] = "doc"
  BY DEF Files!Together, Files!Field
<1>7. FilesFollow'
  <2>1. "huo" \notin apart' => jsonFile' = disk'.huo BY <1>1, <1>2
  <2>2. "apk" \notin slip' \cup apart' => apkFile' = Current'.apk
    BY <1>0, <1>1, <1>2, <1>3, <1>6 DEF FilesFollow
  <2>3. ASSUME "doc" \notin slip' \cup apart'
        PROVE  /\ docFile' = Current'.doc
               /\ docCache' \in {[of |-> Current'.doc, ver |-> Current'.docVer], Files!NoDoc}
    <3>1. CASE own[t] = "doc"
      <4>1. docFile = copy[t].doc BY <1>0, <1>1, <3>1 DEF Copies, DocumentCopies
      <4> QED BY <1>1, <1>2, <1>3, <3>1, <4>1
    <3>2. CASE own[t] # "doc"
      <4>1. "doc" \notin slip \cup apart BY <1>1, <1>6, <2>3, <3>2
      <4> QED BY <1>0, <1>1, <1>3, <3>2, <4>1 DEF FilesFollow, Files!NoDoc
    <3> QED BY <3>1, <3>2
  <2> QED BY <2>1, <2>2, <2>3 DEF FilesFollow, Files!NoDoc
<1>8. CASE reused
  BY <1>1, <1>4, <1>5, <1>7, <1>8 DEF FilesKept, VersionsGrow, Files!VersionNamesOne
<1>9. CASE ~reused
  <2>1. Told(disk) BY <1>0, <1>3, <1>9 DEF VersionsGrow
  <2>2. disk.docVer \in Nat BY <1>0, KeptTypes DEF Kept
  <2>3. issued' \subseteq issued \cup {<<disk.docVer, disk.doc>>} BY <1>1, <1>2
  <2>4. \A x \in issued' : x[1] <= disk.docVer /\ (x[1] = disk.docVer => x[2] = disk.doc)
    BY <2>1, <2>2, <2>3 DEF Told
  <2>5. VersionsGrow' BY <1>1, <1>3, <2>4 DEF VersionsGrow, Told
  <2>6. \A x, y \in issued' : x[1] = y[1] => x[2] = y[2]
    BY <1>0, <1>9, <2>1, <2>3 DEF Told, Files!VersionNamesOne
  <2> QED BY <1>4, <1>5, <1>7, <2>5, <2>6 DEF FilesKept, Files!VersionNamesOne
<1> QED BY <1>8, <1>9

\* The manifest and its files are kept by every step.
LEMMA KeptStep == FileInv /\ [Files!Next]_(Files!vars) => FilesKept'
<1> SUFFICES ASSUME FileInv, [Files!Next]_(Files!vars) PROVE FilesKept'
  OBVIOUS
<1>0. FileTypes BY DEF FileInv
<1>1. Quiet => FilesKept' BY QuietKeeps DEF FilesKept
<1>2. ASSUME NEW t \in Thread, HandlerSteps(t) PROVE FilesKept' BY <1>0, <1>1, <1>2, QuietSteps
<1>3. CASE Files!LoseApk
  <2>1. Quiet BY <1>3 DEF Quiet, Files!LoseApk, Files!handlers, Syncs
  <2> QED BY <1>1, <2>1
<1>4. CASE UNCHANGED Files!vars
  <2>1. Quiet BY <1>4 DEF Quiet, Files!vars, Files!files, Files!handlers, Files!history, Syncs
  <2> QED BY <1>1, <2>1
<1> QED
  BY <1>0, <1>2, <1>3, <1>4, FileSteps, RenameStep, RemoveStep, SyncStep, StartStep, LoadStep

\* Every step keeps who holds g_mu.
LEMMA HoldersStep == FileInv /\ [Files!Next]_(Files!vars) => Holders'
<1> SUFFICES ASSUME FileInv, [Files!Next]_(Files!vars) PROVE Holders'
  OBVIOUS
<1>0. FileTypes /\ Holders BY DEF FileInv
<1>a. Files!ManifestAssumption BY FileConstants
<1>1. ASSUME NEW t \in Thread, NEW f \in Files!Field, Files!Edit(t, f) PROVE Holders'
  BY <1>0, <1>a, <1>1
     DEF Files!Edit, Files!Begin, Files!Takes, Files!Changed, Files!files, Files!handlers,
         Files!count, Files!history, Files!Fault, FileTypes, Handlers, Holders, Locked,
         Field, Files!Field, Files!ManifestAssumption
<1>2. ASSUME NEW t \in Thread, Files!ReceiveApk(t) PROVE Holders'
  BY <1>0, <1>a, <1>2
     DEF Files!ReceiveApk, Files!Begin, Files!files, Files!handlers, Files!count,
         Files!history, Files!Fault, FileTypes, Handlers, Holders, Locked, Field,
         Files!Field, Files!ManifestAssumption
<1>3. ASSUME NEW t \in Thread, Files!UploadApk(t) PROVE Holders'
  BY <1>0, <1>a, <1>3
     DEF Files!UploadApk, Files!Takes, Files!Changed, Files!files, Files!handlers,
         Files!count, Files!history, Files!Fault, FileTypes, Handlers, Holders, Locked,
         Field, Files!Field, Files!ManifestAssumption
<1>4. ASSUME NEW t \in Thread, Files!RefuseApk(t) PROVE Holders'
  BY <1>0, <1>a, <1>4
     DEF Files!RefuseApk, Files!End, Files!files, Files!handlers, Files!count, Files!history,
         Files!Fault, FileTypes, Handlers, Holders, Locked, Field, Files!Field,
         Files!ManifestAssumption
<1>5. ASSUME NEW t \in Thread, Files!SaveJsonFile(t) PROVE Holders'
  BY <1>0, <1>a, <1>5
     DEF Files!SaveJsonFile, Files!Begin, Files!files, Files!handlers, Files!count,
         Files!history, Files!Fault, FileTypes, Handlers, Holders, Locked, Field,
         Files!Field, Files!ManifestAssumption
<1>6. ASSUME NEW t \in Thread, Files!CopyManifest(t) PROVE Holders'
  BY <1>0, <1>a, <1>6
     DEF Files!CopyManifest, Files!Takes, Files!Changed, Files!files, Files!handlers,
         Files!count, Files!history, Files!Fault, FileTypes, Handlers, Holders, Locked,
         Field, Files!Field, Files!ManifestAssumption
<1>7. ASSUME NEW t \in Thread, Files!UploadDoc(t) PROVE Holders'
  BY <1>0, <1>a, <1>7
     DEF Files!UploadDoc, Files!Begin, Files!NextDoc, Files!Default, Files!files,
         Files!handlers, Files!count, Files!history, Files!Fault, FileTypes, Handlers,
         Holders, Locked, Field, Files!Field, Files!ManifestAssumption
<1>8. ASSUME NEW t \in Thread, Files!WriteDoc(t) PROVE Holders'
  BY <1>0, <1>a, <1>8
     DEF Files!WriteDoc, Files!files, Files!handlers, Files!count, Files!history,
         Files!Fault, FileTypes, Handlers, Holders, Locked, Field, Files!Field,
         Files!ManifestAssumption
<1>9. ASSUME NEW t \in Thread, Files!RemoveDoc(t) PROVE Holders'
  BY <1>0, <1>a, <1>9
     DEF Files!RemoveDoc, Files!files, Files!handlers, Files!count, Files!history,
         Files!Fault, FileTypes, Handlers, Holders, Locked, Field, Files!Field,
         Files!ManifestAssumption
<1>10. ASSUME NEW t \in Thread, Files!SaveFails(t) PROVE Holders'
  BY <1>0, <1>a, <1>10
     DEF Files!SaveFails, Files!End, Files!files, Files!handlers, Files!count, Files!history,
         Files!Fault, FileTypes, Handlers, Holders, Locked, Field, Files!Field,
         Files!ManifestAssumption
<1>11. ASSUME NEW t \in Thread, Files!RenameManifest(t) PROVE Holders'
  BY <1>0, <1>a, <1>11
     DEF Files!RenameManifest, Files!Hold, Files!files, Files!handlers, Files!count,
         Files!history, Files!Fault, FileTypes, Handlers, Holders, Locked, Field,
         Files!Field, Files!ManifestAssumption
<1>12. ASSUME NEW t \in Thread, Files!RemoveManifest(t) PROVE Holders'
  BY <1>0, <1>a, <1>12
     DEF Files!RemoveManifest, Files!Hold, Files!files, Files!handlers, Files!count,
         Files!history, Files!Fault, FileTypes, Handlers, Holders, Locked, Field,
         Files!Field, Files!ManifestAssumption
<1>13. ASSUME NEW t \in Thread, Files!SyncFiles(t) PROVE Holders'
  BY <1>0, <1>a, <1>13
     DEF Files!SyncFiles, Files!End, Files!Written, Files!CutOff, Files!Download,
         Files!Cached, Files!Served, Files!files, Files!handlers, Files!count, Files!history,
         Files!Fault, FileTypes, Handlers, Holders, Locked, Field, Files!Field,
         Files!ManifestAssumption
<1>14. ASSUME NEW bad \in Files!Mishap, Files!Restart(bad) PROVE Holders'
  BY <1>0, <1>a, <1>14
     DEF Files!Restart, Files!CutOff, Files!Download, Files!Default, Files!files,
         Files!handlers, Files!count, Files!history, Files!Fault, FileTypes, Handlers,
         Holders, Locked, Field, Files!Field, Files!ManifestAssumption
<1>15. CASE Files!LoadManifest
  BY <1>0, <1>a, <1>15
     DEF Files!LoadManifest, Files!Default, Files!files, Files!handlers, Files!count,
         Files!history, Files!Fault, FileTypes, Handlers, Holders, Locked, Field,
         Files!Field, Files!ManifestAssumption
<1>16. CASE Files!LoseApk
  BY <1>0, <1>a, <1>16
     DEF Files!LoseApk, Files!files, Files!handlers, Files!count, Files!history, Files!Fault,
         FileTypes, Handlers, Holders, Locked, Field, Files!Field, Files!ManifestAssumption
<1>17. CASE UNCHANGED Files!vars
  BY <1>0, <1>a, <1>17
     DEF Files!vars, Files!files, Files!handlers, Files!count, Files!history, FileTypes,
         Handlers, Holders, Locked, Field, Files!Field, Files!ManifestAssumption
<1> QED
  BY <1>1, <1>2, <1>3, <1>4, <1>5, <1>6, <1>7, <1>8, <1>9, <1>10, <1>11, <1>12,
     <1>13, <1>14, <1>15, <1>16, <1>17
     DEF Files!Next

\* Every step keeps the types of the handlers, of the counts and of the history.
LEMMA HandlersStep == FileInv /\ [Files!Next]_(Files!vars) => Handlers'
<1> SUFFICES ASSUME FileInv, [Files!Next]_(Files!vars) PROVE Handlers'
  OBVIOUS
<1>0. FileTypes /\ Holders BY DEF FileInv
<1>a. Files!ManifestAssumption BY FileConstants
<1>1. ASSUME NEW t \in Thread, NEW f \in Files!Field, Files!Edit(t, f) PROVE Handlers'
  BY <1>0, <1>a, <1>1
     DEF Files!Edit, Files!Begin, Files!Takes, Files!Changed, Files!files, Files!handlers,
         Files!count, Files!history, Files!Fault, FileTypes, Handlers, Locked, Field,
         Files!Field
<1>2. ASSUME NEW t \in Thread, Files!ReceiveApk(t) PROVE Handlers'
  BY <1>0, <1>a, <1>2
     DEF Files!ReceiveApk, Files!Begin, Files!files, Files!handlers, Files!count,
         Files!history, Files!Fault, FileTypes, Handlers, Locked, Field, Files!Field
<1>3. ASSUME NEW t \in Thread, Files!UploadApk(t) PROVE Handlers'
  BY <1>0, <1>a, <1>3
     DEF Files!UploadApk, Files!Takes, Files!Changed, Files!files, Files!handlers,
         Files!count, Files!history, Files!Fault, FileTypes, Handlers, Locked, Field,
         Files!Field
<1>4. ASSUME NEW t \in Thread, Files!RefuseApk(t) PROVE Handlers'
  BY <1>0, <1>a, <1>4
     DEF Files!RefuseApk, Files!End, Files!files, Files!handlers, Files!count, Files!history,
         Files!Fault, FileTypes, Handlers, Locked, Field, Files!Field
<1>5. ASSUME NEW t \in Thread, Files!SaveJsonFile(t) PROVE Handlers'
  BY <1>0, <1>a, <1>5
     DEF Files!SaveJsonFile, Files!Begin, Files!files, Files!handlers, Files!count,
         Files!history, Files!Fault, FileTypes, Handlers, Locked, Field, Files!Field
<1>6. ASSUME NEW t \in Thread, Files!CopyManifest(t) PROVE Handlers'
  BY <1>0, <1>a, <1>6
     DEF Files!CopyManifest, Files!Takes, Files!Changed, Files!files, Files!handlers,
         Files!count, Files!history, Files!Fault, FileTypes, Handlers, Locked, Field,
         Files!Field
<1>7. ASSUME NEW t \in Thread, Files!UploadDoc(t) PROVE Handlers'
  BY <1>0, <1>a, <1>7
     DEF Files!UploadDoc, Files!Begin, Files!NextDoc, Files!Default, Files!files,
         Files!handlers, Files!count, Files!history, Files!Fault, FileTypes, Handlers,
         Locked, Field, Files!Field
<1>8. ASSUME NEW t \in Thread, Files!WriteDoc(t) PROVE Handlers'
  BY <1>0, <1>a, <1>8
     DEF Files!WriteDoc, Files!files, Files!handlers, Files!count, Files!history,
         Files!Fault, FileTypes, Handlers, Locked, Field, Files!Field
<1>9. ASSUME NEW t \in Thread, Files!RemoveDoc(t) PROVE Handlers'
  BY <1>0, <1>a, <1>9
     DEF Files!RemoveDoc, Files!files, Files!handlers, Files!count, Files!history,
         Files!Fault, FileTypes, Handlers, Locked, Field, Files!Field
<1>10. ASSUME NEW t \in Thread, Files!SaveFails(t) PROVE Handlers'
  BY <1>0, <1>a, <1>10
     DEF Files!SaveFails, Files!End, Files!files, Files!handlers, Files!count, Files!history,
         Files!Fault, FileTypes, Handlers, Locked, Field, Files!Field
<1>11. ASSUME NEW t \in Thread, Files!RenameManifest(t) PROVE Handlers'
  BY <1>0, <1>a, <1>11
     DEF Files!RenameManifest, Files!Hold, Files!files, Files!handlers, Files!count,
         Files!history, Files!Fault, FileTypes, Handlers, Locked, Field, Files!Field
<1>12. ASSUME NEW t \in Thread, Files!RemoveManifest(t) PROVE Handlers'
  BY <1>0, <1>a, <1>12
     DEF Files!RemoveManifest, Files!Hold, Files!files, Files!handlers, Files!count,
         Files!history, Files!Fault, FileTypes, Handlers, Locked, Field, Files!Field
<1>13. ASSUME NEW t \in Thread, Files!SyncFiles(t) PROVE Handlers'
  BY <1>0, <1>a, <1>13
     DEF Files!SyncFiles, Files!End, Files!Written, Files!CutOff, Files!Download,
         Files!Cached, Files!Served, Files!files, Files!handlers, Files!count, Files!history,
         Files!Fault, FileTypes, Handlers, Locked, Field, Files!Field
<1>14. ASSUME NEW bad \in Files!Mishap, Files!Restart(bad) PROVE Handlers'
  BY <1>0, <1>a, <1>14
     DEF Files!Restart, Files!CutOff, Files!Download, Files!Default, Files!files,
         Files!handlers, Files!count, Files!history, Files!Fault, FileTypes, Handlers,
         Locked, Field, Files!Field
<1>15. CASE Files!LoadManifest
  BY <1>0, <1>a, <1>15
     DEF Files!LoadManifest, Files!Default, Files!files, Files!handlers, Files!count,
         Files!history, Files!Fault, FileTypes, Handlers, Locked, Field, Files!Field
<1>16. CASE Files!LoseApk
  BY <1>0, <1>a, <1>16
     DEF Files!LoseApk, Files!files, Files!handlers, Files!count, Files!history, Files!Fault,
         FileTypes, Handlers, Locked, Field, Files!Field
<1>17. CASE UNCHANGED Files!vars
  BY <1>0, <1>a, <1>17
     DEF Files!vars, Files!files, Files!handlers, Files!count, Files!history, FileTypes,
         Handlers, Locked, Field, Files!Field
<1> QED
  BY <1>1, <1>2, <1>3, <1>4, <1>5, <1>6, <1>7, <1>8, <1>9, <1>10, <1>11, <1>12,
     <1>13, <1>14, <1>15, <1>16, <1>17
     DEF Files!Next

LEMMA PastStep == FileInv /\ [Files!Next]_(Files!vars) => Past'
<1> SUFFICES ASSUME FileInv, [Files!Next]_(Files!vars) PROVE Past'
  OBVIOUS
<1>0. FileTypes /\ Holders BY DEF FileInv
<1>a. Files!ManifestAssumption BY FileConstants
<1>f. Files!Fault => faults' \in 0..MaxFaults
  BY <1>0, <1>a DEF Files!Fault, FileTypes, Past, Files!ManifestAssumption
<1>1. ASSUME NEW t \in Thread, NEW f \in Files!Field, Files!Edit(t, f) PROVE Past'
  BY <1>0, <1>a, <1>1
     DEF Files!Edit, Files!Begin, Files!Takes, Files!Changed, Files!files, Files!handlers,
         Files!count, Files!history, Files!Fault, FileTypes, Past, Holders, Field,
         Files!Field, Files!Together, Handlers, Files!ManifestAssumption
<1>2. ASSUME NEW t \in Thread, Files!ReceiveApk(t) PROVE Past'
  BY <1>0, <1>a, <1>2
     DEF Files!ReceiveApk, Files!Begin, Files!files, Files!handlers, Files!count,
         Files!history, Files!Fault, FileTypes, Past, Holders, Field, Files!Field,
         Files!Together, Handlers, Files!ManifestAssumption
<1>3. ASSUME NEW t \in Thread, Files!UploadApk(t) PROVE Past'
  BY <1>0, <1>a, <1>3
     DEF Files!UploadApk, Files!Takes, Files!Changed, Files!files, Files!handlers,
         Files!count, Files!history, Files!Fault, FileTypes, Past, Holders, Field,
         Files!Field, Files!Together, Handlers, Files!ManifestAssumption
<1>4. ASSUME NEW t \in Thread, Files!RefuseApk(t) PROVE Past'
  BY <1>0, <1>a, <1>4
     DEF Files!RefuseApk, Files!End, Files!files, Files!handlers, Files!count, Files!history,
         Files!Fault, FileTypes, Past, Holders, Field, Files!Field, Files!Together, Handlers,
         Files!ManifestAssumption
<1>5. ASSUME NEW t \in Thread, Files!SaveJsonFile(t) PROVE Past'
  BY <1>0, <1>f, <1>5
     DEF Files!SaveJsonFile, Files!Begin, Files!files, Files!handlers, Files!count,
         Files!history, FileTypes, Past, Holders, Field, Files!Field, Files!Together
<1>6. ASSUME NEW t \in Thread, Files!CopyManifest(t) PROVE Past'
  BY <1>0, <1>a, <1>6
     DEF Files!CopyManifest, Files!Takes, Files!Changed, Files!files, Files!handlers,
         Files!count, Files!history, Files!Fault, FileTypes, Past, Holders, Field,
         Files!Field, Files!Together, Handlers, Files!ManifestAssumption
<1>7. ASSUME NEW t \in Thread, Files!UploadDoc(t) PROVE Past'
  BY <1>0, <1>f, <1>7
     DEF Files!UploadDoc, Files!Begin, Files!NextDoc, Files!Default, Files!files,
         Files!handlers, Files!count, Files!history, FileTypes, Past, Holders, Field,
         Files!Field, Files!Together
<1>8. ASSUME NEW t \in Thread, Files!WriteDoc(t) PROVE Past'
  BY <1>0, <1>a, <1>8
     DEF Files!WriteDoc, Files!files, Files!handlers, Files!count, Files!history,
         Files!Fault, FileTypes, Past, Holders, Field, Files!Field, Files!Together, Handlers,
         Files!ManifestAssumption
<1>9. ASSUME NEW t \in Thread, Files!RemoveDoc(t) PROVE Past'
  BY <1>0, <1>f, <1>9
     DEF Files!RemoveDoc, Files!files, Files!handlers, Files!count, Files!history, FileTypes,
         Past, Holders, Field, Files!Field, Files!Together
<1>10. ASSUME NEW t \in Thread, Files!SaveFails(t) PROVE Past'
  BY <1>0, <1>f, <1>10
     DEF Files!SaveFails, Files!End, Files!files, Files!handlers, Files!count, Files!history,
         FileTypes, Past, Holders, Field, Files!Field, Files!Together
<1>11. ASSUME NEW t \in Thread, Files!RenameManifest(t) PROVE Past'
  BY <1>0, <1>a, <1>11
     DEF Files!RenameManifest, Files!Hold, Files!files, Files!handlers, Files!count,
         Files!history, Files!Fault, FileTypes, Past, Holders, Field, Files!Field,
         Files!Together, Handlers, Files!ManifestAssumption
<1>12. ASSUME NEW t \in Thread, Files!RemoveManifest(t) PROVE Past'
  BY <1>0, <1>f, <1>12
     DEF Files!RemoveManifest, Files!Hold, Files!files, Files!handlers, Files!count,
         Files!history, FileTypes, Past, Holders, Field, Files!Field, Files!Together
<1>13. ASSUME NEW t \in Thread, Files!SyncFiles(t) PROVE Past'
  BY <1>0, <1>f, <1>13
     DEF Files!SyncFiles, Files!End, Files!Written, Files!CutOff, Files!Download,
         Files!Cached, Files!Served, Files!files, Files!handlers, Files!count, Files!history,
         FileTypes, Past, Holders, Field, Files!Field, Files!Together
<1>14. ASSUME NEW bad \in Files!Mishap, Files!Restart(bad) PROVE Past'
  <2>1. faults' \in 0..MaxFaults
    BY <1>0, <1>f, <1>14 DEF Files!Restart, Files!CutOff, Files!Mishap, FileTypes, Past
  <2>2. crashes' \in 0..MaxCrashes
    BY <1>0, <1>a, <1>14 DEF Files!Restart, FileTypes, Past, Files!ManifestAssumption
  <2>3. /\ loaded' \in BOOLEAN /\ there' \in BOOLEAN /\ over' \subseteq Thread /\ slip' \subseteq Field
        /\ apart' \subseteq Field /\ reused' \in BOOLEAN /\ unread' \in BOOLEAN
    BY <1>0, <1>14 DEF Files!Restart, FileTypes, Past, Field, Files!Field
  <2> QED BY <2>1, <2>2, <2>3 DEF Past
<1>15. CASE Files!LoadManifest
  BY <1>0, <1>f, <1>15
     DEF Files!LoadManifest, Files!Default, Files!files, Files!handlers, Files!count,
         Files!history, FileTypes, Past, Holders, Field, Files!Field, Files!Together
<1>16. CASE Files!LoseApk
  BY <1>0, <1>f, <1>16
     DEF Files!LoseApk, Files!files, Files!handlers, Files!count, Files!history, FileTypes,
         Past, Holders, Field, Files!Field, Files!Together
<1>17. CASE UNCHANGED Files!vars
  BY <1>0, <1>a, <1>17
     DEF Files!vars, Files!files, Files!handlers, Files!count, Files!history, FileTypes,
         Past, Holders, Field, Files!Field, Files!Together, Handlers,
         Files!ManifestAssumption
<1> QED
  BY <1>1, <1>2, <1>3, <1>4, <1>5, <1>6, <1>7, <1>8, <1>9, <1>10, <1>11, <1>12,
     <1>13, <1>14, <1>15, <1>16, <1>17
     DEF Files!Next

\* Numbers only grow, and with them what a manifest may have.
LEMMA MoreKept ==
  ASSUME FileTypes, [Files!Next]_(Files!vars)
  PROVE  /\ requests \in Nat /\ requests' \in 0..MaxRequests
         /\ Numbers \subseteq Numbers' /\ Kept \subseteq Kept' /\ 0 \in Numbers
         /\ Files!Default \in Kept
         /\ requests' = requests + 1 => requests' \in Numbers' /\ \A n \in Numbers : n + 1 \in Numbers'
<1>a. requests \in 0..MaxRequests /\ MaxRequests \in Nat
  BY FileConstants DEF FileTypes, Numbered, Files!ManifestAssumption
<1>1. requests' = requests \/ (requests < MaxRequests /\ requests' = requests + 1)
  <2>1. ASSUME NEW t \in Thread, HandlerSteps(t)
        PROVE  requests' = requests \/ (requests < MaxRequests /\ requests' = requests + 1)
    BY <2>1 DEF HandlerSteps, Files!Edit, Files!ReceiveApk, Files!UploadApk, Files!RefuseApk,
                Files!SaveJsonFile, Files!CopyManifest, Files!UploadDoc, Files!WriteDoc,
                Files!RemoveDoc, Files!SaveFails, Files!Begin, Files!count
  <2> QED BY <2>1, FileSteps DEF Files!RenameManifest, Files!RemoveManifest, Files!SyncFiles,
             Files!Restart, Files!LoadManifest, Files!LoseApk, Files!vars, Files!count
<1>2. Numbers \subseteq Numbers' /\ 0 \in Numbers BY <1>a, <1>1 DEF Numbers
<1>3. Kept \subseteq Kept' BY <1>2 DEF Kept
<1>4. Files!Default \in Kept BY <1>2 DEF Kept, Files!Default, Field
<1>5. requests' = requests + 1 => requests' \in Numbers' /\ \A n \in Numbers : n + 1 \in Numbers'
  BY <1>a, MoreNumbers
<1> QED BY <1>a, <1>1, <1>2, <1>3, <1>4, <1>5

\* Every step keeps the types of the files.
LEMMA NumberedStep == FileInv /\ [Files!Next]_(Files!vars) => Numbered'
<1> SUFFICES ASSUME FileInv, [Files!Next]_(Files!vars) PROVE Numbered'
  OBVIOUS
<1>0. FileTypes /\ Holders BY DEF FileInv
<1>a. Files!ManifestAssumption BY FileConstants
<1>m. /\ requests' \in 0..MaxRequests /\ Numbers \subseteq Numbers' /\ 0 \in Numbers
      /\ requests' = requests + 1 => requests' \in Numbers'
  BY <1>0, MoreKept
<1>1. ASSUME NEW t \in Thread, NEW f \in Files!Field, Files!Edit(t, f) PROVE Numbered'
  BY <1>0, <1>m, <1>1
     DEF Files!Edit, Files!Begin, Files!Takes, Files!Changed, Files!files, Files!handlers,
         Files!count, Files!history, Files!Fault, FileTypes, Numbered, Manifests, Kept,
         Handlers, Holders, Field, Files!Field, Files!NoDoc
<1>2. ASSUME NEW t \in Thread, Files!ReceiveApk(t) PROVE Numbered'
  BY <1>0, <1>m, <1>2
     DEF Files!ReceiveApk, Files!Begin, Files!files, Files!handlers, Files!count,
         Files!history, Files!Fault, FileTypes, Numbered, Manifests, Kept, Handlers, Holders,
         Field, Files!Field, Files!NoDoc
<1>3. ASSUME NEW t \in Thread, Files!UploadApk(t) PROVE Numbered'
  BY <1>0, <1>m, <1>3
     DEF Files!UploadApk, Files!Takes, Files!Changed, Files!files, Files!handlers,
         Files!count, Files!history, Files!Fault, FileTypes, Numbered, Manifests, Kept,
         Handlers, Holders, Field, Files!Field, Files!NoDoc
<1>4. ASSUME NEW t \in Thread, Files!RefuseApk(t) PROVE Numbered'
  BY <1>0, <1>m, <1>4
     DEF Files!RefuseApk, Files!End, Files!files, Files!handlers, Files!count, Files!history,
         Files!Fault, FileTypes, Numbered, Manifests, Kept, Handlers, Holders, Field,
         Files!Field, Files!NoDoc
<1>5. ASSUME NEW t \in Thread, Files!SaveJsonFile(t) PROVE Numbered'
  BY <1>0, <1>m, <1>5
     DEF Files!SaveJsonFile, Files!Begin, Files!files, Files!handlers, Files!count,
         Files!history, Files!Fault, FileTypes, Numbered, Manifests, Kept, Handlers, Holders,
         Field, Files!Field, Files!NoDoc
<1>6. ASSUME NEW t \in Thread, Files!CopyManifest(t) PROVE Numbered'
  BY <1>0, <1>m, <1>6
     DEF Files!CopyManifest, Files!Takes, Files!Changed, Files!files, Files!handlers,
         Files!count, Files!history, Files!Fault, FileTypes, Numbered, Manifests, Kept,
         Handlers, Holders, Field, Files!Field, Files!NoDoc
<1>7. ASSUME NEW t \in Thread, Files!UploadDoc(t) PROVE Numbered'
  BY <1>0, <1>m, <1>7
     DEF Files!UploadDoc, Files!Begin, Files!NextDoc, Files!Default, Files!files,
         Files!handlers, Files!count, Files!history, Files!Fault, FileTypes, Numbered,
         Manifests, Kept, Handlers, Holders, Field, Files!Field, Files!NoDoc
<1>8. ASSUME NEW t \in Thread, Files!WriteDoc(t) PROVE Numbered'
  <2>1. copy[t].doc \in Numbers BY <1>0 DEF FileTypes, Manifests, Kept, Field, Files!Field
  <2>2. docFile' = copy[t].doc /\ UNCHANGED <<jsonFile, apkFile, docCache, requests, want, issued>>
    BY <1>8 DEF Files!WriteDoc, Files!count
  <2> QED BY <1>0, <1>m, <2>1, <2>2 DEF FileTypes, Numbered
<1>9. ASSUME NEW t \in Thread, Files!RemoveDoc(t) PROVE Numbered'
  BY <1>0, <1>m, <1>9
     DEF Files!RemoveDoc, Files!files, Files!handlers, Files!count, Files!history,
         Files!Fault, FileTypes, Numbered, Manifests, Kept, Handlers, Holders, Field,
         Files!Field, Files!NoDoc
<1>10. ASSUME NEW t \in Thread, Files!SaveFails(t) PROVE Numbered'
  BY <1>0, <1>m, <1>10
     DEF Files!SaveFails, Files!End, Files!files, Files!handlers, Files!count, Files!history,
         Files!Fault, FileTypes, Numbered, Manifests, Kept, Handlers, Holders, Field,
         Files!Field, Files!NoDoc
<1>11. ASSUME NEW t \in Thread, Files!RenameManifest(t) PROVE Numbered'
  <2>1. own[t] \in Field /\ copy[t] \in Kept
    BY <1>0, <1>11 DEF Files!RenameManifest, Holders, FileTypes, Manifests
  <2>2. want' \in [Field -> Numbers]
    BY <1>0, <1>11, <2>1 DEF Files!RenameManifest, FileTypes, Numbered, Kept
  <2>3. UNCHANGED <<jsonFile, apkFile, docFile, docCache, requests, issued>>
    BY <1>11 DEF Files!RenameManifest, Files!files, Files!count
  <2> QED BY <1>0, <1>m, <2>2, <2>3 DEF FileTypes, Numbered
<1>12. ASSUME NEW t \in Thread, Files!RemoveManifest(t) PROVE Numbered'
  BY <1>0, <1>m, <1>12
     DEF Files!RemoveManifest, Files!Hold, Files!files, Files!handlers, Files!count,
         Files!history, Files!Fault, FileTypes, Numbered, Manifests, Kept, Handlers, Holders,
         Field, Files!Field, Files!NoDoc
<1>13. ASSUME NEW t \in Thread, Files!SyncFiles(t) PROVE Numbered'
  <2>1. copy[t] \in Kept BY <1>0 DEF FileTypes, Manifests
  <2>2. copy[t].huo \in Numbers /\ copy[t].doc \in Numbers /\ copy[t].docVer \in Numbers
    BY <2>1 DEF Kept, Field, Files!Field
  <2>3. jsonFile' \in Numbers \cup {None} /\ UNCHANGED <<apkFile, docFile, requests, want>>
    BY <1>0, <2>2, <1>13 DEF Files!SyncFiles, Files!Written, Files!CutOff, Files!Download,
                             FileTypes, Numbered
  <2>4. docCache' \in [of : Numbers, ver : Numbers] /\ issued' \subseteq Numbers \X Numbers
    BY <1>0, <2>2, <1>13 DEF Files!SyncFiles, Files!Served, FileTypes, Numbered
  <2> QED BY <1>0, <1>m, <2>3, <2>4 DEF FileTypes, Numbered
<1>14. ASSUME NEW bad \in Files!Mishap, Files!Restart(bad) PROVE Numbered'
  <2>1. /\ disk.huo \in Numbers /\ disk.docVer \in Numbers /\ Files!Default.huo = 0
        /\ Files!Default.docVer = 0 /\ disk \in Kept
    BY <1>0 DEF FileTypes, Manifests, Kept, Field, Files!Field, Files!Default
  <2>2. \A m : [m EXCEPT !.doc = docFile].huo = m.huo OBVIOUS
  <2>3. jsonFile' \in {jsonFile, None, disk.huo, Files!Default.huo}
    BY <2>2, <1>14 DEF Files!Restart, Files!CutOff, Files!Download
  <2>4. \E v \in {0, disk.docVer, Files!Default.docVer} :
          /\ docCache' \in {Files!NoDoc, [of |-> docFile, ver |-> v]}
          /\ issued' \in {issued, issued \cup {<<v, docFile>>}}
    BY <1>14 DEF Files!Restart
  <2>5. docCache' \in [of : Numbers, ver : Numbers] /\ issued' \subseteq Numbers \X Numbers
    BY <1>0, <1>m, <2>1, <2>4 DEF FileTypes, Numbered, Files!NoDoc
  <2>6. want' \in [Field -> Numbers] /\ UNCHANGED <<apkFile, docFile, requests>>
    BY <1>0, <1>14 DEF Files!Restart, FileTypes, Numbered
  <2> QED BY <1>0, <1>m, <2>1, <2>3, <2>5, <2>6 DEF FileTypes, Numbered
<1>15. CASE Files!LoadManifest
  BY <1>0, <1>m, <1>15
     DEF Files!LoadManifest, Files!Default, Files!files, Files!handlers, Files!count,
         Files!history, Files!Fault, FileTypes, Numbered, Manifests, Kept, Handlers, Holders,
         Field, Files!Field, Files!NoDoc
<1>16. CASE Files!LoseApk
  <2>1. apkFile' = None /\ UNCHANGED <<jsonFile, docFile, docCache, requests, want, issued>>
    BY <1>16 DEF Files!LoseApk
  <2> QED BY <1>0, <1>m, <2>1 DEF FileTypes, Numbered
<1>17. CASE UNCHANGED Files!vars
  BY <1>0, <1>m, <1>17
     DEF Files!vars, Files!files, Files!handlers, Files!count, Files!history, FileTypes,
         Numbered, Manifests, Kept, Handlers, Holders, Field, Files!Field, Files!NoDoc
<1> QED
  BY <1>1, <1>2, <1>3, <1>4, <1>5, <1>6, <1>7, <1>8, <1>9, <1>10, <1>11, <1>12,
     <1>13, <1>14, <1>15, <1>16, <1>17
     DEF Files!Next

\* Every step keeps the types of the manifests.
LEMMA ManifestsStep == FileInv /\ [Files!Next]_(Files!vars) => Manifests'
<1> SUFFICES ASSUME FileInv, [Files!Next]_(Files!vars) PROVE Manifests'
  OBVIOUS
<1>0. FileTypes /\ Holders BY DEF FileInv
<1>a. Files!ManifestAssumption BY FileConstants
<1>m. /\ requests' \in 0..MaxRequests /\ Numbers \subseteq Numbers' /\ Kept \subseteq Kept'
      /\ 0 \in Numbers /\ Files!Default \in Kept
      /\ requests' = requests + 1 => requests' \in Numbers' /\ \A n \in Numbers : n + 1 \in Numbers'
  BY <1>0, MoreKept
<1>1. ASSUME NEW t \in Thread, NEW f \in Files!Field, Files!Edit(t, f) PROVE Manifests'
  <2>1. copy' = [copy EXCEPT ![t] = [cache EXCEPT ![f] = requests']] /\ UNCHANGED <<disk, cache>>
    BY <1>1 DEF Files!Edit, Files!Takes, Files!Changed
  <2>2. [cache EXCEPT ![f] = requests'] \in Kept'
    BY <1>0, <1>m, <1>1 DEF Files!Edit, Files!Begin, FileTypes, Manifests, Kept, Field,
                            Files!Field
  <2> QED BY <1>0, <1>m, <2>1, <2>2 DEF FileTypes, Manifests
<1>2. ASSUME NEW t \in Thread, Files!ReceiveApk(t) PROVE Manifests'
  <2>1. copy' = [copy EXCEPT ![t] = [copy[t] EXCEPT !.apk = requests']] /\ UNCHANGED <<disk, cache>>
    BY <1>2 DEF Files!ReceiveApk, Files!Takes, Files!Changed
  <2>2. [copy[t] EXCEPT !.apk = requests'] \in Kept'
    BY <1>0, <1>m, <1>2 DEF Files!ReceiveApk, Files!Begin, FileTypes, Manifests, Kept, Field,
                            Files!Field
  <2> QED BY <1>0, <1>m, <2>1, <2>2 DEF FileTypes, Manifests
<1>3. ASSUME NEW t \in Thread, Files!UploadApk(t) PROVE Manifests'
  <2>1. copy' = [copy EXCEPT ![t] = [cache EXCEPT !["apk"] = copy[t].apk]] /\ UNCHANGED <<disk, cache>>
    BY <1>3 DEF Files!UploadApk, Files!Takes, Files!Changed
  <2>2. [cache EXCEPT !["apk"] = copy[t].apk] \in Kept'
    BY <1>0, <1>m, <1>3 DEF Files!UploadApk, Files!Begin, FileTypes, Manifests, Kept, Field,
                            Files!Field
  <2> QED BY <1>0, <1>m, <2>1, <2>2 DEF FileTypes, Manifests
<1>4. ASSUME NEW t \in Thread, Files!RefuseApk(t) PROVE Manifests'
  BY <1>0, <1>m, <1>4
     DEF Files!RefuseApk, Files!End, Files!files, Files!handlers, Files!count, Files!history,
         Files!Fault, FileTypes, Manifests
<1>5. ASSUME NEW t \in Thread, Files!SaveJsonFile(t) PROVE Manifests'
  <2>1. copy' = [copy EXCEPT ![t] = [copy[t] EXCEPT !.huo = requests']] /\ UNCHANGED <<disk, cache>>
    BY <1>5 DEF Files!SaveJsonFile, Files!Takes, Files!Changed
  <2>2. [copy[t] EXCEPT !.huo = requests'] \in Kept'
    BY <1>0, <1>m, <1>5 DEF Files!SaveJsonFile, Files!Begin, FileTypes, Manifests, Kept, Field,
                            Files!Field
  <2> QED BY <1>0, <1>m, <2>1, <2>2 DEF FileTypes, Manifests
<1>6. ASSUME NEW t \in Thread, Files!CopyManifest(t) PROVE Manifests'
  <2>1. copy' = [copy EXCEPT ![t] = [cache EXCEPT !["huo"] = copy[t].huo]] /\ UNCHANGED <<disk, cache>>
    BY <1>6 DEF Files!CopyManifest, Files!Takes, Files!Changed
  <2>2. [cache EXCEPT !["huo"] = copy[t].huo] \in Kept'
    BY <1>0, <1>m, <1>6 DEF Files!CopyManifest, Files!Begin, FileTypes, Manifests, Kept, Field,
                            Files!Field
  <2> QED BY <1>0, <1>m, <2>1, <2>2 DEF FileTypes, Manifests
<1>7. ASSUME NEW t \in Thread, Files!UploadDoc(t) PROVE Manifests'
  <2>1. /\ UNCHANGED <<disk, cache>>
        /\ \E m \in {disk, Files!Default} : copy' = [copy EXCEPT ![t] = Files!NextDoc(m, requests')]
    BY <1>7 DEF Files!UploadDoc
  <2>2. \A m \in Kept : Files!NextDoc(m, requests') \in Kept'
    BY <1>m, <1>7 DEF Files!UploadDoc, Files!Begin, Kept, Field, Files!Field, Files!NextDoc
  <2>3. PICK m \in Kept : copy' = [copy EXCEPT ![t] = Files!NextDoc(m, requests')]
    BY <1>0, <1>m, <2>1 DEF FileTypes, Manifests
  <2> QED BY <1>0, <1>m, <2>1, <2>2, <2>3 DEF FileTypes, Manifests
<1>8. ASSUME NEW t \in Thread, Files!WriteDoc(t) PROVE Manifests'
  BY <1>0, <1>m, <1>8
     DEF Files!WriteDoc, Files!files, Files!handlers, Files!count, Files!history,
         Files!Fault, FileTypes, Manifests
<1>9. ASSUME NEW t \in Thread, Files!RemoveDoc(t) PROVE Manifests'
  BY <1>0, <1>m, <1>9
     DEF Files!RemoveDoc, Files!files, Files!handlers, Files!count, Files!history,
         Files!Fault, FileTypes, Manifests
<1>10. ASSUME NEW t \in Thread, Files!SaveFails(t) PROVE Manifests'
  BY <1>0, <1>m, <1>10
     DEF Files!SaveFails, Files!End, Files!files, Files!handlers, Files!count, Files!history,
         Files!Fault, FileTypes, Manifests
<1>11. ASSUME NEW t \in Thread, Files!RenameManifest(t) PROVE Manifests'
  BY <1>0, <1>m, <1>11
     DEF Files!RenameManifest, Files!Hold, Files!files, Files!handlers, Files!count,
         Files!history, Files!Fault, FileTypes, Manifests
<1>12. ASSUME NEW t \in Thread, Files!RemoveManifest(t) PROVE Manifests'
  BY <1>0, <1>m, <1>12
     DEF Files!RemoveManifest, Files!Hold, Files!files, Files!handlers, Files!count,
         Files!history, Files!Fault, FileTypes, Manifests
<1>13. ASSUME NEW t \in Thread, Files!SyncFiles(t) PROVE Manifests'
  BY <1>0, <1>m, <1>13
     DEF Files!SyncFiles, Files!End, Files!Written, Files!CutOff, Files!Download,
         Files!Cached, Files!Served, Files!files, Files!handlers, Files!count, Files!history,
         Files!Fault, FileTypes, Manifests
<1>14. ASSUME NEW bad \in Files!Mishap, Files!Restart(bad) PROVE Manifests'
  <2>1. /\ copy' = [t \in Thread |-> Files!Default]
        /\ {disk', cache'} \subseteq {disk, Files!Default, [disk EXCEPT !.doc = docFile],
                                      [Files!Default EXCEPT !.doc = docFile]}
    BY <1>14 DEF Files!Restart
  <2>2. docFile \in Numbers BY <1>0 DEF FileTypes, Numbered
  <2>3. \A m \in Kept : m \in Kept' /\ [m EXCEPT !.doc = docFile] \in Kept'
    BY <1>m, <2>2 DEF Kept, Field, Files!Field
  <2> QED BY <1>0, <1>m, <2>1, <2>3 DEF FileTypes, Manifests
<1>15. CASE Files!LoadManifest
  BY <1>0, <1>m, <1>15
     DEF Files!LoadManifest, Files!Default, Files!files, Files!handlers, Files!count,
         Files!history, Files!Fault, FileTypes, Manifests
<1>16. CASE Files!LoseApk
  BY <1>0, <1>m, <1>16
     DEF Files!LoseApk, Files!files, Files!handlers, Files!count, Files!history, Files!Fault,
         FileTypes, Manifests
<1>17. CASE UNCHANGED Files!vars
  BY <1>0, <1>m, <1>17
     DEF Files!vars, Files!files, Files!handlers, Files!count, Files!history, FileTypes,
         Manifests
<1> QED
  BY <1>1, <1>2, <1>3, <1>4, <1>5, <1>6, <1>7, <1>8, <1>9, <1>10, <1>11, <1>12,
     <1>13, <1>14, <1>15, <1>16, <1>17
     DEF Files!Next

\* What was renamed stays on the disk until the end of the save.
LEMMA RenamedStep == FileInv /\ [Files!Next]_(Files!vars) => RenamedCopies'
<1> SUFFICES ASSUME FileInv, [Files!Next]_(Files!vars) PROVE RenamedCopies'
  OBVIOUS
<1>0. FileTypes /\ Holders /\ Copies /\ MemoryFollows BY DEF FileInv
<1>a. Files!ManifestAssumption BY FileConstants
<1>1. ASSUME NEW t \in Thread, NEW f \in Files!Field, Files!Edit(t, f) PROVE RenamedCopies'
  BY <1>0, <1>a, <1>1
     DEF Files!Edit, Files!Begin, Files!Takes, Files!Changed, Files!files, Files!handlers,
         Files!count, Files!history, Files!Fault, FileTypes, Manifests, Handlers, Holders,
         Locked, Field, Files!Field, Files!ManifestAssumption, Copies, RenamedCopies
<1>2. ASSUME NEW t \in Thread, Files!ReceiveApk(t) PROVE RenamedCopies'
  BY <1>0, <1>a, <1>2
     DEF Files!ReceiveApk, Files!Begin, Files!files, Files!handlers, Files!count,
         Files!history, Files!Fault, FileTypes, Manifests, Handlers, Holders, Locked, Field,
         Files!Field, Files!ManifestAssumption, Copies, RenamedCopies
<1>3. ASSUME NEW t \in Thread, Files!UploadApk(t) PROVE RenamedCopies'
  BY <1>0, <1>a, <1>3
     DEF Files!UploadApk, Files!Takes, Files!Changed, Files!files, Files!handlers,
         Files!count, Files!history, Files!Fault, FileTypes, Manifests, Handlers, Holders,
         Locked, Field, Files!Field, Files!ManifestAssumption, Copies, RenamedCopies
<1>4. ASSUME NEW t \in Thread, Files!RefuseApk(t) PROVE RenamedCopies'
  BY <1>0, <1>a, <1>4
     DEF Files!RefuseApk, Files!End, Files!files, Files!handlers, Files!count, Files!history,
         Files!Fault, FileTypes, Manifests, Handlers, Holders, Locked, Field, Files!Field,
         Files!ManifestAssumption, Copies, RenamedCopies
<1>5. ASSUME NEW t \in Thread, Files!SaveJsonFile(t) PROVE RenamedCopies'
  BY <1>0, <1>a, <1>5
     DEF Files!SaveJsonFile, Files!Begin, Files!files, Files!handlers, Files!count,
         Files!history, Files!Fault, FileTypes, Manifests, Handlers, Holders, Locked, Field,
         Files!Field, Files!ManifestAssumption, Copies, RenamedCopies
<1>6. ASSUME NEW t \in Thread, Files!CopyManifest(t) PROVE RenamedCopies'
  BY <1>0, <1>a, <1>6
     DEF Files!CopyManifest, Files!Takes, Files!Changed, Files!files, Files!handlers,
         Files!count, Files!history, Files!Fault, FileTypes, Manifests, Handlers, Holders,
         Locked, Field, Files!Field, Files!ManifestAssumption, Copies, RenamedCopies
<1>7. ASSUME NEW t \in Thread, Files!UploadDoc(t) PROVE RenamedCopies'
  BY <1>0, <1>a, <1>7
     DEF Files!UploadDoc, Files!Begin, Files!NextDoc, Files!Default, Files!files,
         Files!handlers, Files!count, Files!history, Files!Fault, FileTypes, Manifests,
         Handlers, Holders, Locked, Field, Files!Field, Files!ManifestAssumption, Copies,
         RenamedCopies
<1>8. ASSUME NEW t \in Thread, Files!WriteDoc(t) PROVE RenamedCopies'
  BY <1>0, <1>a, <1>8
     DEF Files!WriteDoc, Files!files, Files!handlers, Files!count, Files!history,
         Files!Fault, FileTypes, Manifests, Handlers, Holders, Locked, Field, Files!Field,
         Files!ManifestAssumption, Copies, RenamedCopies
<1>9. ASSUME NEW t \in Thread, Files!RemoveDoc(t) PROVE RenamedCopies'
  BY <1>0, <1>a, <1>9
     DEF Files!RemoveDoc, Files!files, Files!handlers, Files!count, Files!history,
         Files!Fault, FileTypes, Manifests, Handlers, Holders, Locked, Field, Files!Field,
         Files!ManifestAssumption, Copies, RenamedCopies
<1>10. ASSUME NEW t \in Thread, Files!SaveFails(t) PROVE RenamedCopies'
  BY <1>0, <1>a, <1>10
     DEF Files!SaveFails, Files!End, Files!files, Files!handlers, Files!count, Files!history,
         Files!Fault, FileTypes, Manifests, Handlers, Holders, Locked, Field, Files!Field,
         Files!ManifestAssumption, Copies, RenamedCopies
<1>11. ASSUME NEW t \in Thread, Files!RenameManifest(t) PROVE RenamedCopies'
  BY <1>0, <1>a, <1>11
     DEF Files!RenameManifest, Files!Hold, Files!files, Files!handlers, Files!count,
         Files!history, Files!Fault, FileTypes, Manifests, Handlers, Holders, Locked, Field,
         Files!Field, Files!ManifestAssumption, Copies, RenamedCopies
<1>12. ASSUME NEW t \in Thread, Files!RemoveManifest(t) PROVE RenamedCopies'
  BY <1>0, <1>a, <1>12
     DEF Files!RemoveManifest, Files!Hold, Files!files, Files!handlers, Files!count,
         Files!history, Files!Fault, FileTypes, Manifests, Handlers, Holders, Locked, Field,
         Files!Field, Files!ManifestAssumption, Copies, RenamedCopies
<1>13. ASSUME NEW t \in Thread, Files!SyncFiles(t) PROVE RenamedCopies'
  BY <1>0, <1>a, <1>13
     DEF Files!SyncFiles, Files!End, Files!Written, Files!CutOff, Files!Download,
         Files!Cached, Files!Served, Files!files, Files!handlers, Files!count, Files!history,
         Files!Fault, FileTypes, Manifests, Handlers, Holders, Locked, Field, Files!Field,
         Files!ManifestAssumption, Copies, RenamedCopies
<1>14. ASSUME NEW bad \in Files!Mishap, Files!Restart(bad) PROVE RenamedCopies'
  BY <1>0, <1>a, <1>14
     DEF Files!Restart, Files!CutOff, Files!Download, Files!Default, Files!files,
         Files!handlers, Files!count, Files!history, Files!Fault, FileTypes, Manifests,
         Handlers, Holders, Locked, Field, Files!Field, Files!ManifestAssumption, Copies,
         RenamedCopies
<1>15. CASE Files!LoadManifest
  BY <1>0, <1>a, <1>15
     DEF Files!LoadManifest, Files!Default, Files!files, Files!handlers, Files!count,
         Files!history, Files!Fault, FileTypes, Manifests, Handlers, Holders, Locked, Field,
         Files!Field, Files!ManifestAssumption, Copies, RenamedCopies
<1>16. CASE Files!LoseApk
  BY <1>0, <1>a, <1>16
     DEF Files!LoseApk, Files!files, Files!handlers, Files!count, Files!history, Files!Fault,
         FileTypes, Manifests, Handlers, Holders, Locked, Field, Files!Field,
         Files!ManifestAssumption, Copies, RenamedCopies
<1>17. CASE UNCHANGED Files!vars
  BY <1>0, <1>a, <1>17
     DEF Files!vars, Files!files, Files!handlers, Files!count, Files!history, FileTypes,
         Manifests, Handlers, Holders, Locked, Field, Files!Field, Files!ManifestAssumption,
         Copies, RenamedCopies
<1> QED
  BY <1>1, <1>2, <1>3, <1>4, <1>5, <1>6, <1>7, <1>8, <1>9, <1>10, <1>11, <1>12,
     <1>13, <1>14, <1>15, <1>16, <1>17
     DEF Files!Next

\* The document that was written stays until then.
LEMMA DocumentStep == FileInv /\ [Files!Next]_(Files!vars) => DocumentCopies'
<1> SUFFICES ASSUME FileInv, [Files!Next]_(Files!vars) PROVE DocumentCopies'
  OBVIOUS
<1>0. FileTypes /\ Holders /\ Copies /\ MemoryFollows BY DEF FileInv
<1>a. Files!ManifestAssumption BY FileConstants
<1>1. ASSUME NEW t \in Thread, NEW f \in Files!Field, Files!Edit(t, f) PROVE DocumentCopies'
  BY <1>0, <1>a, <1>1
     DEF Files!Edit, Files!Begin, Files!Takes, Files!Changed, Files!files, Files!handlers,
         Files!count, Files!history, Files!Fault, FileTypes, Manifests, Handlers, Holders,
         Locked, Field, Files!Field, Files!ManifestAssumption, Copies, DocumentCopies
<1>2. ASSUME NEW t \in Thread, Files!ReceiveApk(t) PROVE DocumentCopies'
  BY <1>0, <1>a, <1>2
     DEF Files!ReceiveApk, Files!Begin, Files!files, Files!handlers, Files!count,
         Files!history, Files!Fault, FileTypes, Manifests, Handlers, Holders, Locked, Field,
         Files!Field, Files!ManifestAssumption, Copies, DocumentCopies
<1>3. ASSUME NEW t \in Thread, Files!UploadApk(t) PROVE DocumentCopies'
  BY <1>0, <1>a, <1>3
     DEF Files!UploadApk, Files!Takes, Files!Changed, Files!files, Files!handlers,
         Files!count, Files!history, Files!Fault, FileTypes, Manifests, Handlers, Holders,
         Locked, Field, Files!Field, Files!ManifestAssumption, Copies, DocumentCopies
<1>4. ASSUME NEW t \in Thread, Files!RefuseApk(t) PROVE DocumentCopies'
  BY <1>0, <1>a, <1>4
     DEF Files!RefuseApk, Files!End, Files!files, Files!handlers, Files!count, Files!history,
         Files!Fault, FileTypes, Manifests, Handlers, Holders, Locked, Field, Files!Field,
         Files!ManifestAssumption, Copies, DocumentCopies
<1>5. ASSUME NEW t \in Thread, Files!SaveJsonFile(t) PROVE DocumentCopies'
  BY <1>0, <1>a, <1>5
     DEF Files!SaveJsonFile, Files!Begin, Files!files, Files!handlers, Files!count,
         Files!history, Files!Fault, FileTypes, Manifests, Handlers, Holders, Locked, Field,
         Files!Field, Files!ManifestAssumption, Copies, DocumentCopies
<1>6. ASSUME NEW t \in Thread, Files!CopyManifest(t) PROVE DocumentCopies'
  BY <1>0, <1>a, <1>6
     DEF Files!CopyManifest, Files!Takes, Files!Changed, Files!files, Files!handlers,
         Files!count, Files!history, Files!Fault, FileTypes, Manifests, Handlers, Holders,
         Locked, Field, Files!Field, Files!ManifestAssumption, Copies, DocumentCopies
<1>7. ASSUME NEW t \in Thread, Files!UploadDoc(t) PROVE DocumentCopies'
  BY <1>0, <1>a, <1>7
     DEF Files!UploadDoc, Files!Begin, Files!NextDoc, Files!Default, Files!files,
         Files!handlers, Files!count, Files!history, Files!Fault, FileTypes, Manifests,
         Handlers, Holders, Locked, Field, Files!Field, Files!ManifestAssumption, Copies,
         DocumentCopies
<1>8. ASSUME NEW t \in Thread, Files!WriteDoc(t) PROVE DocumentCopies'
  BY <1>0, <1>a, <1>8
     DEF Files!WriteDoc, Files!files, Files!handlers, Files!count, Files!history,
         Files!Fault, FileTypes, Manifests, Handlers, Holders, Locked, Field, Files!Field,
         Files!ManifestAssumption, Copies, DocumentCopies
<1>9. ASSUME NEW t \in Thread, Files!RemoveDoc(t) PROVE DocumentCopies'
  BY <1>0, <1>a, <1>9
     DEF Files!RemoveDoc, Files!files, Files!handlers, Files!count, Files!history,
         Files!Fault, FileTypes, Manifests, Handlers, Holders, Locked, Field, Files!Field,
         Files!ManifestAssumption, Copies, DocumentCopies
<1>10. ASSUME NEW t \in Thread, Files!SaveFails(t) PROVE DocumentCopies'
  BY <1>0, <1>a, <1>10
     DEF Files!SaveFails, Files!End, Files!files, Files!handlers, Files!count, Files!history,
         Files!Fault, FileTypes, Manifests, Handlers, Holders, Locked, Field, Files!Field,
         Files!ManifestAssumption, Copies, DocumentCopies
<1>11. ASSUME NEW t \in Thread, Files!RenameManifest(t) PROVE DocumentCopies'
  BY <1>0, <1>a, <1>11
     DEF Files!RenameManifest, Files!Hold, Files!files, Files!handlers, Files!count,
         Files!history, Files!Fault, FileTypes, Manifests, Handlers, Holders, Locked, Field,
         Files!Field, Files!ManifestAssumption, Copies, DocumentCopies
<1>12. ASSUME NEW t \in Thread, Files!RemoveManifest(t) PROVE DocumentCopies'
  BY <1>0, <1>a, <1>12
     DEF Files!RemoveManifest, Files!Hold, Files!files, Files!handlers, Files!count,
         Files!history, Files!Fault, FileTypes, Manifests, Handlers, Holders, Locked, Field,
         Files!Field, Files!ManifestAssumption, Copies, DocumentCopies
<1>13. ASSUME NEW t \in Thread, Files!SyncFiles(t) PROVE DocumentCopies'
  <2>1. /\ pc[t] = "sync" /\ pc' = [pc EXCEPT ![t] = "idle"] /\ own' = [own EXCEPT ![t] = None]
        /\ copy' = [copy EXCEPT ![t] = Files!Default] /\ UNCHANGED docFile
        /\ apart' = apart \ Files!Together(t) \/ apart' = (apart \ Files!Together(t)) \cup {"huo"}
    BY <1>13 DEF Files!SyncFiles, Files!End
  <2>2. \A u \in Thread \ {t} : ~(pc[u] \in {"save", "save again", "sync"} /\ own[u] = "doc")
    BY <1>0, <2>1 DEF Holders, Locked
  <2>3. pc'[t] = "idle" /\ \A u \in Thread \ {t} : pc'[u] = pc[u] /\ own'[u] = own[u]
    BY <1>0, <2>1 DEF FileTypes, Handlers
  <2> QED BY <2>2, <2>3 DEF DocumentCopies
<1>14. ASSUME NEW bad \in Files!Mishap, Files!Restart(bad) PROVE DocumentCopies'
  BY <1>0, <1>a, <1>14
     DEF Files!Restart, Files!CutOff, Files!Download, Files!Default, Files!files,
         Files!handlers, Files!count, Files!history, Files!Fault, FileTypes, Manifests,
         Handlers, Holders, Locked, Field, Files!Field, Files!ManifestAssumption, Copies,
         DocumentCopies
<1>15. CASE Files!LoadManifest
  BY <1>0, <1>a, <1>15
     DEF Files!LoadManifest, Files!Default, Files!files, Files!handlers, Files!count,
         Files!history, Files!Fault, FileTypes, Manifests, Handlers, Holders, Locked, Field,
         Files!Field, Files!ManifestAssumption, Copies, DocumentCopies
<1>16. CASE Files!LoseApk
  BY <1>0, <1>a, <1>16
     DEF Files!LoseApk, Files!files, Files!handlers, Files!count, Files!history, Files!Fault,
         FileTypes, Manifests, Handlers, Holders, Locked, Field, Files!Field,
         Files!ManifestAssumption, Copies, DocumentCopies
<1>17. CASE UNCHANGED Files!vars
  BY <1>0, <1>a, <1>17
     DEF Files!vars, Files!files, Files!handlers, Files!count, Files!history, FileTypes,
         Manifests, Handlers, Holders, Locked, Field, Files!Field, Files!ManifestAssumption,
         Copies, DocumentCopies
<1> QED
  BY <1>1, <1>2, <1>3, <1>4, <1>5, <1>6, <1>7, <1>8, <1>9, <1>10, <1>11, <1>12,
     <1>13, <1>14, <1>15, <1>16, <1>17
     DEF Files!Next

\* A copy differs from the manifest as it should when one handler moves, and what
\* it will save does.
LEMMA OneMoves ==
  ASSUME FileInv, Quiet, NEW t \in Thread, NEW p, pc' = [pc EXCEPT ![t] = p],
         \A u \in Thread \ {t} : copy'[u] = copy[u] /\ own'[u] = own[u] /\ (u \in over => u \in over'),
         p \in {"doc", "doc again", "save", "save again"} /\ t \notin over' => Differs(t)' \/ Lost'
  PROVE  FreshCopies'
<1>1. Current' = Current /\ Syncs' = Syncs /\ (Lost => Lost') BY DEF Quiet, Current, Lost
<1>2. FreshCopies /\ pc \in [Thread -> {"idle", "parse", "apk", "save"} \cup Locked]
  BY DEF FileInv, Copies, FileTypes, Handlers
<1> SUFFICES ASSUME NEW u \in Thread, pc'[u] \in {"doc", "doc again", "save", "save again"},
                    u \notin over', ~Syncs'
             PROVE  Differs(u)' \/ Lost'
  BY DEF FreshCopies
<1>3. CASE u = t BY <1>2, <1>3
<1>4. CASE u # t
  <2>1. Differs(u) \/ Lost BY <1>1, <1>2, <1>4 DEF FreshCopies
  <2>2. Differs(u) => Differs(u)' BY <1>1, <1>4 DEF Differs
  <2> QED BY <1>1, <2>1, <2>2
<1> QED BY <1>3, <1>4

\* What a handler takes from memory is the current manifest, or it is marked.
LEMMA Taken ==
  ASSUME FileInv, Quiet, NEW t \in Thread, NEW f \in Field \ {"doc"}, NEW r,
         Files!Takes(t, f, r), own'[t] = f
  PROVE  /\ t \in over' \/ Differs(t)'
         /\ \A u \in Thread \ {t} : copy'[u] = copy[u] /\ (u \in over => u \in over')
<1>1. /\ lock = None /\ loaded /\ copy' = [copy EXCEPT ![t] = [cache EXCEPT ![f] = r]]
      /\ over' = IF unread THEN over \cup {t} ELSE over
  BY DEF Files!Takes, Files!Changed
<1>2. copy \in [Thread -> Kept] /\ cache \in Kept /\ over \subseteq Thread
  BY DEF FileInv, FileTypes, Manifests, Past
<1>3. Current' = Current BY DEF Quiet, Current
<1>4. CASE unread BY <1>1, <1>2, <1>4
<1>5. CASE ~unread
  <2>1. cache = Current BY <1>1, <1>5, FreeLock DEF FileInv, InMemory
  <2>2. copy'[t] = [cache EXCEPT ![f] = r] BY <1>1, <1>2
  <2>3. \A g \in (Field \cup {"docVer"}) \ {f} : copy'[t][g] = cache[g] BY <1>2, <2>2 DEF Kept
  <2>4. "docVer" # f BY DEF Field, Files!Field
  <2>5. Differs(t)' BY <1>3, <2>1, <2>3, <2>4 DEF Differs
  <2> QED BY <1>1, <1>2, <2>5
<1> QED BY <1>4, <1>5

\* Every step keeps what the copies have to be.
LEMMA FreshStep == FileInv /\ [Files!Next]_(Files!vars) => FreshCopies'
<1> SUFFICES ASSUME FileInv, [Files!Next]_(Files!vars) PROVE FreshCopies'
  OBVIOUS
<1>0. FileTypes /\ Holders /\ FreshCopies BY DEF FileInv, Copies
<1>t. /\ pc \in [Thread -> {"idle", "parse", "apk", "save"} \cup Locked]
      /\ own \in [Thread -> Field \cup {None}] /\ copy \in [Thread -> Kept] /\ over \subseteq Thread
  BY <1>0 DEF FileTypes, Handlers, Manifests, Past
<1>1. ASSUME NEW t \in Thread, HandlerSteps(t) PROVE FreshCopies'
  <2>0. Quiet BY <1>0, <1>1, QuietSteps
  <2>q. Current' = Current /\ (Lost => Lost') BY <2>0 DEF Quiet, Current, Lost
  <2>1. ASSUME NEW f \in Field, Files!Edit(t, f) PROVE FreshCopies'
    <3>1. /\ f \in Field \ {"doc"} /\ Files!Takes(t, f, requests') /\ own' = [own EXCEPT ![t] = f]
          /\ pc' = [pc EXCEPT ![t] = "save"]
      BY <2>1 DEF Files!Edit, Files!Begin
    <3>2. own'[t] = f /\ \A u \in Thread \ {t} : own'[u] = own[u] BY <1>t, <3>1
    <3> QED BY <2>0, <3>1, <3>2, Taken, OneMoves
  <2>2. CASE Files!ReceiveApk(t)
    BY <1>t, <2>0, <2>2, OneMoves DEF Files!ReceiveApk, Files!Begin
  <2>3. CASE Files!UploadApk(t)
    <3>1. /\ Files!Takes(t, "apk", copy[t].apk) /\ own' = own /\ pc[t] = "apk"
          /\ pc' = [pc EXCEPT ![t] = "save"]
      BY <2>3 DEF Files!UploadApk
    <3>2. own'[t] = "apk" /\ "apk" \in Field \ {"doc"}
      BY <1>0, <3>1 DEF Holders, Field, Files!Field
    <3> QED BY <2>0, <3>1, <3>2, Taken, OneMoves
  <2>4. CASE Files!RefuseApk(t)
    BY <1>t, <2>0, <2>4, OneMoves DEF Files!RefuseApk, Files!End, Files!history
  <2>5. CASE Files!SaveJsonFile(t)
    BY <1>t, <2>0, <2>5, OneMoves DEF Files!SaveJsonFile, Files!Begin
  <2>6. CASE Files!CopyManifest(t)
    <3>1. /\ Files!Takes(t, "huo", copy[t].huo) /\ own' = own /\ pc[t] = "parse"
          /\ pc' = [pc EXCEPT ![t] = "save"]
      BY <2>6 DEF Files!CopyManifest
    <3>2. own'[t] = "huo" /\ "huo" \in Field \ {"doc"}
      BY <1>0, <3>1 DEF Holders, Field, Files!Field
    <3> QED BY <2>0, <3>1, <3>2, Taken, OneMoves
  <2>7. CASE Files!UploadDoc(t)
    <3>1. /\ pc' = [pc EXCEPT ![t] = "doc"] /\ own' = [own EXCEPT ![t] = "doc"]
          /\ \/ /\ copy' = [copy EXCEPT ![t] = Files!NextDoc(disk, requests')]
                /\ over' = IF there THEN over ELSE over \cup {t}
             \/ /\ copy' = [copy EXCEPT ![t] = Files!NextDoc(Files!Default, requests')]
                /\ over' = over \cup {t}
      BY <2>7 DEF Files!UploadDoc, Files!Begin
    <3>2. \A u \in Thread \ {t} : copy'[u] = copy[u] /\ own'[u] = own[u] /\ (u \in over => u \in over')
      BY <1>t, <3>1
    <3>3. t \notin over' => Differs(t)'
      <4> SUFFICES ASSUME t \notin over' PROVE Differs(t)'
        OBVIOUS
      <4>1. there /\ copy'[t] = Files!NextDoc(disk, requests') /\ own'[t] = "doc" BY <1>t, <3>1
      <4>2. disk = Current /\ disk \in Kept BY <1>0, <4>1 DEF Current, FileTypes, Manifests
      <4>3. /\ \A f \in Field \ {"doc"} : copy'[t][f] = disk[f]
            /\ copy'[t].docVer = disk.docVer + 1
        BY <4>1, <4>2 DEF Files!NextDoc, Kept, Field, Files!Field
      <4> QED BY <2>q, <4>1, <4>2, <4>3 DEF Differs
    <3> QED BY <2>0, <3>1, <3>2, <3>3, OneMoves
  <2>8. CASE Files!WriteDoc(t) \/ Files!RemoveDoc(t)
    <3>1. /\ UNCHANGED <<copy, own, over>> /\ pc[t] \in {"doc", "doc again"}
          /\ \E p : pc' = [pc EXCEPT ![t] = p]
      BY <2>8 DEF Files!WriteDoc, Files!RemoveDoc
    <3>2. ~Syncs => t \in over \/ Differs(t) \/ Lost BY <1>0, <3>1 DEF FreshCopies
    <3>3. ~Syncs
      BY <1>0, <3>1, FileConstants DEF Holders, Locked, Syncs, Files!ManifestAssumption
    <3>4. Differs(t) => Differs(t)' BY <2>q, <3>1 DEF Differs
    <3> QED BY <2>0, <2>q, <3>1, <3>2, <3>3, <3>4, OneMoves
  <2>9. CASE Files!SaveFails(t)
    BY <1>t, <2>0, <2>9, OneMoves DEF Files!SaveFails, Files!End
  <2> QED BY <1>1, <2>1, <2>2, <2>3, <2>4, <2>5, <2>6, <2>7, <2>8, <2>9 DEF HandlerSteps
<1>2. ASSUME NEW t \in Thread, Files!RenameManifest(t) PROVE FreshCopies'
  BY <1>t, <1>2 DEF Files!RenameManifest, FreshCopies, Syncs
<1>3. ASSUME UNCHANGED <<copy, own, over>>, ~Syncs \/ Syncs',
             Lost' \/ (Current' = Current /\ (Lost => Lost')),
             \A u \in Thread : pc'[u] \in {"doc", "doc again", "save", "save again"} =>
               pc[u] \in {"doc", "doc again", "save", "save again"}
      PROVE  FreshCopies'
  <2>1. ASSUME NEW u \in Thread, Current' = Current, Differs(u) PROVE Differs(u)'
    BY <1>3, <2>1 DEF Differs
  <2> QED BY <1>0, <1>3, <2>1 DEF FreshCopies
<1>4. ASSUME NEW t \in Thread, Files!RemoveManifest(t) PROVE FreshCopies'
  <2>1. /\ UNCHANGED <<copy, own, over>> /\ pc[t] = "save" /\ pc' = [pc EXCEPT ![t] = "save again"]
    BY <1>4 DEF Files!RemoveManifest
  <2>2. ~Syncs /\ (Lost' \/ (Current' = Current /\ (Lost => Lost')))
    BY <1>4, RemovedStays DEF Lost
  <2> QED BY <1>t, <1>3, <2>1, <2>2
<1>5. ASSUME NEW t \in Thread, Files!SyncFiles(t) PROVE FreshCopies'
  <2>1. /\ pc[t] = "sync" /\ pc' = [pc EXCEPT ![t] = "idle"]
        /\ over' = (over \cup {u \in Thread : pc[u] = "save"}) \ {t}
    BY <1>5 DEF Files!SyncFiles, Files!End
  <2>2. ASSUME NEW u \in Thread, pc'[u] \in {"doc", "doc again", "save", "save again"}
        PROVE  u \in over'
    <3>1. u # t /\ pc[u] = pc'[u] BY <1>t, <2>1, <2>2
    <3>2. lock = t BY <1>0, <2>1 DEF Holders, Locked
    <3>3. pc[u] = "save" BY <1>0, <2>2, <3>1, <3>2 DEF Holders, Locked
    <3> QED BY <2>1, <3>1, <3>3
  <2> QED BY <2>2 DEF FreshCopies
<1>6. ASSUME NEW bad \in Files!Mishap, Files!Restart(bad) PROVE FreshCopies'
  BY <1>6 DEF Files!Restart, FreshCopies
<1>7. CASE Files!LoadManifest
  <2>1. UNCHANGED <<pc, copy, own, over>> BY <1>7 DEF Files!LoadManifest, Files!handlers
  <2>2. Lost' \/ (Current' = Current /\ (Lost => Lost'))
    <3>1. UNCHANGED <<slip, reused>> BY <1>7 DEF Files!LoadManifest
    <3> QED BY <1>7, <3>1, LoadKeeps DEF Lost
  <2>3. Syncs' = Syncs BY <2>1 DEF Syncs
  <2> QED BY <1>3, <2>1, <2>2, <2>3
<1>8. CASE Files!LoseApk \/ UNCHANGED Files!vars
  <2>1. UNCHANGED <<pc, copy, own, over, disk, there, cache, slip, reused>>
    BY <1>8 DEF Files!LoseApk, Files!vars, Files!handlers, Files!history
  <2>2. Syncs' = Syncs /\ Current' = Current /\ Lost' = Lost BY <2>1 DEF Syncs, Current, Lost
  <2> QED BY <1>3, <2>1, <2>2
<1> QED BY <1>0, <1>1, <1>2, <1>4, <1>5, <1>6, <1>7, <1>8, FileSteps

\* The manifest is kept from the first.
LEMMA FileFirst == Files!Init => FileInv
<1> SUFFICES ASSUME Files!Init PROVE FileInv
  OBVIOUS
<1> USE FileConstants DEF Files!ManifestAssumption, Files!Init
<1>1. FileTypes
  <2>1. Numbers = {0} BY DEF Numbers
  <2>2. Files!Default \in Kept BY <2>1 DEF Files!Default, Kept, Field, Files!Field
  <2>3. Manifests BY <2>2 DEF Manifests
  <2>4. 0 \in 0..MaxRequests /\ 0 \in 0..MaxFaults /\ 0 \in 0..MaxCrashes OBVIOUS
  <2>5. Numbered BY <2>1, <2>4 DEF Numbered, Files!NoDoc, Field, Files!Field
  <2>6. Handlers BY DEF Handlers
  <2>7. Past BY <2>4 DEF Past
  <2> QED BY <2>3, <2>5, <2>6, <2>7 DEF FileTypes
<1>2. Holders BY DEF Holders, Locked
<1>3. Copies BY DEF Copies, FreshCopies, RenamedCopies, DocumentCopies
<1>4. MemoryFollows BY DEF MemoryFollows
<1>5. Current = Files!Default BY DEF Current
<1>6. StaysSomewhere BY <1>5 DEF StaysSomewhere, Files!Default, Field
<1>7. FilesFollow BY <1>5 DEF FilesFollow, Files!Default, Files!NoDoc, Files!Field
<1>8. VersionsGrow BY DEF VersionsGrow, Told
<1>9. Files!VersionNamesOne BY DEF Files!VersionNamesOne
<1> QED BY <1>1, <1>2, <1>3, <1>4, <1>6, <1>7, <1>8, <1>9 DEF FileInv

\* Every step keeps all of it.
LEMMA FileStep == FileInv /\ [Files!Next]_(Files!vars) => FileInv'
<1> SUFFICES ASSUME FileInv, [Files!Next]_(Files!vars) PROVE FileInv'
  OBVIOUS
<1>1. FileTypes' BY ManifestsStep, NumberedStep, HandlersStep, PastStep DEF FileTypes
<1>2. Copies' BY FreshStep, RenamedStep, DocumentStep DEF Copies
<1> QED BY <1>1, <1>2, HoldersStep, KeptStep DEF FileInv, FilesKept

\* What the properties say follows.
LEMMA FileShows == FileInv => Files!ManifestKept /\ Files!Announced /\ Files!VersionNamesOne
<1> SUFFICES ASSUME FileInv PROVE Files!ManifestKept /\ Files!Announced
  BY DEF FileInv
<1>0. FileTypes /\ Holders /\ MemoryFollows /\ StaysSomewhere /\ FilesFollow BY DEF FileInv
<1>1. lock = None => ~Syncs
  BY <1>0, FileConstants DEF Files!ManifestAssumption, Holders, Locked, Syncs
<1>2. requests \in 0..MaxRequests /\ MaxRequests \in Nat
  BY <1>0, FileConstants DEF FileTypes, Numbered, Files!ManifestAssumption
<1>3. Numbers \subseteq Files!Number /\ requests \in Files!Number
  BY <1>2 DEF Numbers, Files!Number
<1>4. Files!TypeOK
  <2>1. Kept \subseteq [Files!Field \cup {"docVer"} -> Files!Number]
    BY <1>3 DEF Kept, Field
  <2>2. {disk, cache} \cup {copy[t] : t \in Thread} \subseteq Kept
    BY <1>0 DEF FileTypes, Manifests
  <2>3. /\ {jsonFile, apkFile} \subseteq Files!Number \cup {None} /\ docFile \in Files!Number
        /\ docCache \in [of : Files!Number, ver : Files!Number]
        /\ want \in [Files!Field -> Files!Number]
    BY <1>0, <1>3 DEF FileTypes, Numbered, Field
  <2>4. \A t \in Thread : pc[t] \in {"doc", "doc again", "save again", "sync"} => lock = t
    BY <1>0 DEF Holders, Locked
  <2>5. /\ lock \in Thread \cup {None} /\ own \in [Thread -> Files!Field \cup {None}]
        /\ pc \in [Thread -> {"idle", "parse", "apk", "doc", "doc again", "save", "save again", "sync"}]
    BY <1>0 DEF FileTypes, Handlers, Field, Locked
  <2>6. /\ faults \in 0..MaxFaults /\ crashes \in 0..MaxCrashes /\ over \subseteq Thread
        /\ slip \cup apart \subseteq Files!Field /\ {there, loaded, unread, reused} \subseteq BOOLEAN
    BY <1>0 DEF FileTypes, Past, Field
  <2> QED BY <1>3, <2>1, <2>2, <2>3, <2>4, <2>5, <2>6 DEF Files!TypeOK
<1>5. Files!CacheIsDisk BY <1>0, <1>1 DEF Files!CacheIsDisk, MemoryFollows, InMemory
<1>6. Files!ChangesKept
  <2>1. ~there => InMemory \/ slip = Field BY <1>0 DEF StaysSomewhere
  <2> QED BY <1>0, <2>1 DEF StaysSomewhere, Current, InMemory, Files!ChangesKept, Field
<1>7. Files!DownloadFollows BY <1>0 DEF Files!DownloadFollows, FilesFollow
<1>8. Files!DocAsAnnounced BY <1>0 DEF Files!DocAsAnnounced, FilesFollow, Current
<1>9. Files!ApkAsAnnounced BY <1>0 DEF Files!ApkAsAnnounced, FilesFollow, Current
<1> QED BY <1>4, <1>5, <1>6, <1>7, <1>8, <1>9 DEF Files!ManifestKept, Files!Announced

-----------------------------------------------------------------------------
(* getInitData.                                                            *)

Contents == 0..changes
InitSteps == {"idle", "repair", "mail", "version", "compare", "huoDong", "answer",
              "put repair", "put version", "put huoDong"}

\* Nobody has a number that no manifest had, or contents later than its own.
Reading ==
  [version : numbers, repair : numbers, huoDong : Contents, mail : Contents \cup {None}, hit : BOOLEAN]
Had == [version : numbers, huoDong : Contents]

Clock ==
  /\ manifest \in [version : 0..MaxTime, repair : 0..MaxRepair, of : {changes}]
  /\ now \in 1..MaxTime /\ changes \in 0..MaxChanges /\ lost \in 0..MaxLost
  /\ numbers \subseteq Nat /\ {0, 1, manifest.version, manifest.repair} \subseteq numbers
  /\ twice \in BOOLEAN
Entries ==
  /\ initCache \in [Inits!Key -> Nat \cup {None}]
  /\ initCache["huoDong"] \in Contents \cup {None}
  /\ \A k \in {"version", "repair"} : initCache[k] \in numbers \cup {None}
Requests == initPc \in [Client -> InitSteps] /\ seen \in [Client -> Reading]
Clients == client \in [Client -> Had] /\ fresh \in [Client -> BOOLEAN]

InitTypes == Clock /\ Entries /\ Requests /\ Clients

\* What was loaded for a version that is still the present one is the manifest's.
ReadIsCurrent ==
  \A c \in Client :
    initPc[c] \in {"put huoDong", "answer"} /\ ~seen[c].hit /\ ~twice
      /\ Inits!Version(c) = Inits!Present => seen[c].huoDong = manifest.of

InitInv == InitTypes /\ ReadIsCurrent /\ Inits!LoadedIsCurrent

\* The version is one of the numbers it is the largest of.
LEMMA VersionIsOne ==
  Clock =>
    /\ \A v, r \in numbers : Inits!CurrentVersion(v, r) \in numbers
    /\ Inits!Present \in numbers
    /\ Requests => \A c \in Client : Inits!Version(c) \in numbers
<1> SUFFICES ASSUME Clock
             PROVE  /\ \A v, r \in numbers : Inits!CurrentVersion(v, r) \in numbers
                    /\ Inits!Present \in numbers
                    /\ Requests => \A c \in Client : Inits!Version(c) \in numbers
  OBVIOUS
<1>1. \A v, r \in numbers : Inits!CurrentVersion(v, r) \in numbers
  BY DEF Clock, Inits!CurrentVersion, Inits!Larger
<1>2. manifest.version \in numbers /\ manifest.repair \in numbers BY DEF Clock
<1>3. Requests => \A c \in Client : seen[c].version \in numbers /\ seen[c].repair \in numbers
  BY DEF Requests, Reading
<1> QED BY <1>1, <1>2, <1>3 DEF Inits!Present, Inits!Version

\* A change keeps the types, takes the next number, and is marked if its version
\* is a number there was before.
LEMMA Change ==
  ASSUME Clock, Inits!InitDataAssumption, NEW v \in 0..MaxTime, NEW r \in 0..MaxRepair,
         Inits!Becomes(v, r), now' = now, lost' \in 0..MaxLost
  PROVE  /\ Clock' /\ numbers \subseteq numbers' /\ changes' = changes + 1
         /\ twice' \/ Inits!Present' \notin numbers
<1>1. /\ changes < MaxChanges /\ changes' = changes + 1
      /\ manifest' = [version |-> v, repair |-> r, of |-> changes']
      /\ numbers' = numbers \cup {v, r} /\ twice' = (Inits!CurrentVersion(v, r) \in numbers)
  BY DEF Inits!Becomes
<1>2. changes' \in 0..MaxChanges BY <1>1 DEF Clock, Inits!InitDataAssumption
<1>3. numbers' \subseteq Nat BY <1>1 DEF Clock
<1>4. {0, 1, manifest'.version, manifest'.repair} \subseteq numbers' BY <1>1 DEF Clock
<1>5. Clock' BY <1>1, <1>2, <1>3, <1>4 DEF Clock
<1>6. Inits!Present' = Inits!CurrentVersion(v, r)
  BY <1>1 DEF Inits!Present, Inits!CurrentVersion, Inits!Larger
<1> QED BY <1>1, <1>5, <1>6

\* A field that has been read.
Read(c, k, v, b) == seen' = [seen EXCEPT ![c] = [seen[c] EXCEPT ![k] = v, !.hit = b]]
\* What reading a field leaves in the request, and that other requests keep theirs.
LEMMA Reads ==
  Requests =>
    \A c \in Client, k \in Inits!Key, b \in BOOLEAN :
      \A v \in IF k = "huoDong" THEN Contents ELSE numbers :
        Read(c, k, v, b) =>
          /\ seen' \in [Client -> Reading]
          /\ seen'[c].hit = b /\ seen'[c][k] = v
          /\ k = "huoDong" => Inits!Version(c)' = Inits!Version(c)
          /\ \A d \in Client : d # c => seen'[d] = seen[d]
<1> SUFFICES ASSUME Requests, NEW c \in Client, NEW k \in Inits!Key, NEW b \in BOOLEAN,
                    NEW v \in IF k = "huoDong" THEN Contents ELSE numbers, Read(c, k, v, b)
             PROVE  /\ seen' \in [Client -> Reading]
                    /\ seen'[c].hit = b /\ seen'[c][k] = v
                    /\ k = "huoDong" => Inits!Version(c)' = Inits!Version(c)
                    /\ \A d \in Client : d # c => seen'[d] = seen[d]
  OBVIOUS
<1> DEFINE e == [seen[c] EXCEPT ![k] = v, !.hit = b]
<1>1. seen \in [Client -> Reading] /\ seen[c] \in Reading BY DEF Requests
<1>2. /\ e \in Reading /\ e.hit = b /\ e[k] = v
      /\ k = "huoDong" => e.version = seen[c].version /\ e.repair = seen[c].repair
  <2>1. CASE k = "version" BY <1>1, <2>1 DEF Reading
  <2>2. CASE k = "repair" BY <1>1, <2>2 DEF Reading
  <2>3. CASE k = "huoDong" BY <1>1, <2>3 DEF Reading
  <2> QED BY <2>1, <2>2, <2>3 DEF Inits!Key
<1>3. seen' = [seen EXCEPT ![c] = e] BY DEF Read
<1> HIDE DEF e
<1>4. seen' \in [Client -> Reading] /\ seen'[c] = e /\ \A d \in Client : d # c => seen'[d] = seen[d]
  BY <1>1, <1>2, <1>3
<1> QED BY <1>2, <1>4 DEF Inits!Version, Inits!CurrentVersion, Inits!Larger

\* Numbers and contents are never forgotten.
Grows == numbers \subseteq numbers' /\ Contents \subseteq Contents'

\* A change of the manifest, by an administrator or at a start without it.
LEMMA Changes ==
  ASSUME Clock, Inits!InitDataAssumption,
         Inits!Publish \/ (Inits!Restart /\ ~UNCHANGED <<manifest, changes, numbers, twice>>)
  PROVE  /\ Clock' /\ numbers \subseteq numbers' /\ changes' = changes + 1
         /\ twice' \/ Inits!Present' \notin numbers
<1>1. /\ now \in 0..MaxTime /\ 0 \in 0..MaxTime /\ 0 \in 0..MaxRepair /\ lost \in 0..MaxLost
      /\ lost < MaxLost => lost + 1 \in 0..MaxLost
  BY DEF Clock, Inits!InitDataAssumption
<1>2. \/ \E r \in 0..MaxRepair : Inits!Becomes(now, r) /\ lost' = lost
      \/ Inits!Becomes(0, 0) /\ lost < MaxLost /\ lost' = lost + 1
  BY DEF Inits!Publish, Inits!Restart
<1>3. now' = now BY DEF Inits!Publish, Inits!Restart
<1> QED BY <1>1, <1>2, <1>3, Change

\* Every step keeps the clock, and the numbers and contents there were.
LEMMA ClockStep == InitInv /\ [Inits!Next]_(Inits!vars) => Clock' /\ Grows
<1> SUFFICES ASSUME InitInv, [Inits!Next]_(Inits!vars) PROVE Clock' /\ Grows
  OBVIOUS
<1>0. Clock BY DEF InitInv, InitTypes
<1>a. Inits!InitDataAssumption BY InitConstants
<1>1. CASE Inits!Publish \/ (Inits!Restart /\ ~UNCHANGED <<manifest, changes, numbers, twice>>)
  <2>1. Clock' /\ numbers \subseteq numbers' /\ changes' = changes + 1
    BY <1>0, <1>a, <1>1, Changes
  <2>2. changes \in Nat BY <1>0, <1>a DEF Clock, Inits!InitDataAssumption
  <2> QED BY <2>1, <2>2 DEF Grows, Contents
<1>2. CASE UNCHANGED <<manifest, changes, numbers, twice>>
  <2>1. Grows BY <1>2 DEF Grows, Contents
  <2>2. now' = now \/ (now < MaxTime /\ now' = now + 1)
    BY DEF Inits!Next, Inits!Request, Inits!Publish,
             Inits!Restart, Inits!Tick, Inits!Ask, Inits!TakeMail, Inits!Compare, Inits!Answer,
             Inits!LoseAnswer, Inits!Hit, Inits!Miss, Inits!Put, Inits!Expire, Inits!vars
  <2>3. lost' = lost \/ (lost < MaxLost /\ lost' = lost + 1)
    BY DEF Inits!Next, Inits!Request, Inits!Publish,
             Inits!Restart, Inits!Tick, Inits!Ask, Inits!TakeMail, Inits!Compare, Inits!Answer,
             Inits!LoseAnswer, Inits!Hit, Inits!Miss, Inits!Put, Inits!Expire, Inits!vars
  <2>4. now' \in 1..MaxTime /\ lost' \in 0..MaxLost
    BY <1>0, <1>a, <2>2, <2>3 DEF Clock, Inits!InitDataAssumption
  <2> QED BY <1>0, <1>2, <2>1, <2>4 DEF Clock
<1> QED BY <1>1, <1>2 DEF Inits!Next, Inits!Request, Inits!Tick, Inits!Ask, Inits!TakeMail,
      Inits!Compare, Inits!Answer, Inits!LoseAnswer, Inits!Hit, Inits!Miss, Inits!Put, Inits!Expire,
      Inits!vars, Inits!history

\* Every step keeps what the caches have.
LEMMA EntriesStep == InitInv /\ [Inits!Next]_(Inits!vars) => Entries'
<1> SUFFICES ASSUME InitInv, [Inits!Next]_(Inits!vars) PROVE Entries'
  OBVIOUS
<1>0. Clock /\ Entries /\ Requests BY DEF InitInv, InitTypes
<1>g. Grows BY ClockStep
<1>n. Contents \subseteq Nat /\ numbers \subseteq Nat BY <1>0 DEF Clock, Contents
<1>1. CASE UNCHANGED initCache BY <1>0, <1>g, <1>1 DEF Entries, Grows
<1>2. ASSUME NEW c \in Client, NEW k \in Inits!Key, Inits!Put(c, k) PROVE Entries'
  <2>1. initCache' = [initCache EXCEPT ![k] = seen[c][k]] BY <1>2 DEF Inits!Put
  <2>2. seen[c] \in Reading BY <1>0 DEF Requests
  <2>3. seen[c][k] \in IF k = "huoDong" THEN Contents ELSE numbers
    <3>1. CASE k = "repair" BY <2>2, <3>1 DEF Reading
    <3>2. CASE k = "version" BY <2>2, <3>2 DEF Reading
    <3>3. CASE k = "huoDong" BY <2>2, <3>3 DEF Reading
    <3> QED BY <3>1, <3>2, <3>3 DEF Inits!Key
  <2>4. initCache' \in [Inits!Key -> Nat \cup {None}] BY <1>0, <1>n, <2>1, <2>3 DEF Entries
  <2>5. initCache'["huoDong"] \in Contents \cup {None}
    BY <1>0, <2>1, <2>3 DEF Entries, Inits!Key
  <2>6. \A j \in {"version", "repair"} : initCache'[j] \in numbers \cup {None}
    BY <1>0, <2>1, <2>3 DEF Entries, Inits!Key
  <2> QED BY <1>g, <2>4, <2>5, <2>6 DEF Entries, Grows
<1>3. ASSUME NEW k \in Inits!Key, Inits!Expire(k) PROVE Entries'
  <2>1. initCache' = [initCache EXCEPT ![k] = None] BY <1>3 DEF Inits!Expire, Inits!Dropped
  <2> QED BY <1>0, <1>g, <2>1 DEF Entries, Grows
<1>4. CASE Inits!Restart BY <1>4 DEF Inits!Restart, Entries, Inits!Key
<1> QED BY <1>1, <1>2, <1>3, <1>4 DEF Inits!Next, Inits!Request, Inits!Publish, Inits!Tick,
      Inits!Ask, Inits!TakeMail, Inits!Compare, Inits!Answer, Inits!LoseAnswer, Inits!Hit,
      Inits!Miss, Inits!vars

\* What a request reads with a hit or without, and where it goes on.
ReadsOn(c, k, v, b) ==
  /\ Read(c, k, v, b)
  /\ k = "huoDong" => b \/ v = manifest.of
  /\ \E p \in InitSteps : initPc' = [initPc EXCEPT ![c] = p]
                          /\ (p \in {"put huoDong", "answer"} => k = "huoDong")
LEMMA ReadTypes ==
  ASSUME InitInv, NEW c \in Client, NEW k \in Inits!Key, Inits!Hit(c, k) \/ Inits!Miss(c, k)
  PROVE  \E v \in IF k = "huoDong" THEN Contents ELSE numbers, b \in BOOLEAN :
           ReadsOn(c, k, v, b)
<1>0. Clock /\ Entries BY DEF InitInv, InitTypes
<1>1. CASE Inits!Hit(c, k)
  <2>1. /\ initCache[k] # None /\ initPc' = [initPc EXCEPT ![c] = Inits!After(k)]
        /\ seen' = [seen EXCEPT ![c] = [seen[c] EXCEPT ![k] = initCache[k], !.hit = (k = "huoDong")]]
    BY <1>1 DEF Inits!Hit
  <2>2. initCache[k] \in IF k = "huoDong" THEN Contents ELSE numbers
    BY <1>0, <2>1 DEF Entries, Inits!Key
  <2>3. Inits!After(k) \in InitSteps /\ (Inits!After(k) \in {"put huoDong", "answer"} => k = "huoDong")
    BY DEF Inits!After, InitSteps, Inits!Key
  <2>4. (k = "huoDong") \in BOOLEAN OBVIOUS
  <2>5. Read(c, k, initCache[k], k = "huoDong") BY <2>1 DEF Read
  <2> QED BY <2>1, <2>2, <2>3, <2>4, <2>5 DEF ReadsOn
<1>2. CASE Inits!Miss(c, k)
  <2>1. /\ initPc' = [initPc EXCEPT ![c] = Inits!Putting(k)]
        /\ seen' = [seen EXCEPT ![c] = [seen[c] EXCEPT ![k] = Inits!Loads(k), !.hit = FALSE]]
    BY <1>2 DEF Inits!Miss
  <2>2. /\ Inits!Loads(k) \in IF k = "huoDong" THEN Contents ELSE numbers
        /\ k = "huoDong" => Inits!Loads(k) = manifest.of
    BY <1>0 DEF Clock, Contents, Inits!Loads, Inits!Key
  <2>3. Inits!Putting(k) \in InitSteps /\ (Inits!Putting(k) \in {"put huoDong", "answer"} => k = "huoDong")
    BY DEF Inits!Putting, InitSteps, Inits!Key
  <2>5. Read(c, k, Inits!Loads(k), FALSE) BY <2>1 DEF Read
  <2> QED BY <2>1, <2>2, <2>3, <2>5 DEF ReadsOn
<1> QED BY <1>1, <1>2

\* Every step keeps what the requests have read.
LEMMA RequestsStep == InitInv /\ [Inits!Next]_(Inits!vars) => Requests'
<1> SUFFICES ASSUME InitInv, [Inits!Next]_(Inits!vars) PROVE Requests'
  OBVIOUS
<1>0. Clock /\ Requests BY DEF InitInv, InitTypes
<1>g. Reading \subseteq Reading' BY ClockStep DEF Grows, Reading
<1>n. Inits!Nothing \in Reading BY <1>0 DEF Inits!Nothing, Reading, Clock, Contents
<1>1. CASE UNCHANGED <<initPc, seen>> BY <1>0, <1>g, <1>1 DEF Requests
<1>2. ASSUME NEW c \in Client, NEW p \in InitSteps, initPc' = [initPc EXCEPT ![c] = p],
             seen' = seen \/ seen' = [seen EXCEPT ![c] = Inits!Nothing]
      PROVE  Requests'
  BY <1>0, <1>g, <1>n, <1>2 DEF Requests
<1>3. ASSUME NEW c \in Client, Inits!TakeMail(c) PROVE Requests'
  <2>1. initPc' = [initPc EXCEPT ![c] = "version"] BY <1>3 DEF Inits!TakeMail, Inits!After
  <2>2. PICK m \in {None} \cup 0..manifest.of : seen' = [seen EXCEPT ![c].mail = m]
    BY <1>3 DEF Inits!TakeMail
  <2>3. m \in Contents \cup {None} BY <1>0 DEF Clock, Contents
  <2>4. seen[c] \in Reading BY <1>0 DEF Requests
  <2>5. [seen[c] EXCEPT !.mail = m] \in Reading BY <2>3, <2>4 DEF Reading
  <2>6. seen' = [seen EXCEPT ![c] = [seen[c] EXCEPT !.mail = m]] BY <2>2
  <2>7. seen' \in [Client -> Reading] BY <1>0, <2>5, <2>6 DEF Requests
  <2> QED BY <1>0, <1>g, <2>1, <2>7 DEF Requests, InitSteps
<1>4. ASSUME NEW c \in Client, NEW k \in Inits!Key, Inits!Hit(c, k) \/ Inits!Miss(c, k)
      PROVE  Requests'
  <2>1. PICK v \in IF k = "huoDong" THEN Contents ELSE numbers, b \in BOOLEAN :
          ReadsOn(c, k, v, b)
    BY <1>4, ReadTypes
  <2>2. Requests /\ Read(c, k, v, b) BY <1>0, <2>1 DEF ReadsOn
  <2>3. seen' \in [Client -> Reading] BY <2>2, Reads
  <2> QED BY <1>0, <1>g, <2>1, <2>3 DEF Requests, ReadsOn
<1>5. CASE Inits!Restart BY <1>n, <1>g, <1>5 DEF Inits!Restart, Requests, InitSteps
<1>6. ASSUME NEW c \in Client, NEW k \in Inits!Key, Inits!Put(c, k) PROVE Requests'
  <2>1. Inits!After(k) \in InitSteps BY DEF InitSteps, Inits!Key, Inits!After
  <2> QED BY <1>2, <1>6, <2>1 DEF Inits!Put
<1>7. ASSUME NEW c \in Client,
             Inits!Ask(c) \/ Inits!Compare(c) \/ Inits!Answer(c) \/ Inits!LoseAnswer(c)
      PROVE  Requests'
  BY <1>2, <1>7 DEF Inits!Ask, Inits!Compare, Inits!Answer, Inits!LoseAnswer, Inits!End,
                    Inits!After, InitSteps
<1> QED BY <1>1, <1>3, <1>4, <1>5, <1>6, <1>7 DEF Inits!Next, Inits!Request, Inits!Publish,
      Inits!Tick, Inits!Expire, Inits!vars

\* Every step keeps what the clients have.
LEMMA ClientsStep == InitInv /\ [Inits!Next]_(Inits!vars) => Clients'
<1> SUFFICES ASSUME InitInv, [Inits!Next]_(Inits!vars) PROVE Clients'
  OBVIOUS
<1>0. Clock /\ Requests /\ Clients BY DEF InitInv, InitTypes
<1>g. Had \subseteq Had' BY ClockStep DEF Grows, Had
<1>1. CASE UNCHANGED <<client, fresh>> BY <1>0, <1>g, <1>1 DEF Clients
<1>2. ASSUME NEW c \in Client, Inits!Answer(c) PROVE Clients'
  <2>1. /\ client' = [client EXCEPT ![c] = Inits!Given(c)]
        /\ fresh' = [fresh EXCEPT ![c] = seen[c].mail = None /\ ~seen[c].hit]
    BY <1>2 DEF Inits!Answer
  <2>2. seen[c] \in Reading /\ Inits!Version(c) \in numbers BY <1>0, VersionIsOne DEF Requests
  <2>3. Inits!Given(c) \in Had BY <2>2 DEF Inits!Given, Reading, Had
  <2>4. (seen[c].mail = None /\ ~seen[c].hit) \in BOOLEAN OBVIOUS
  <2> QED BY <1>0, <1>g, <2>1, <2>3, <2>4 DEF Clients
<1> QED BY <1>1, <1>2 DEF Inits!Next, Inits!Request, Inits!Publish, Inits!Restart, Inits!Tick,
      Inits!Ask, Inits!TakeMail, Inits!Compare, Inits!LoseAnswer, Inits!Hit, Inits!Miss, Inits!Put,
      Inits!Expire, Inits!vars, Inits!history

\* What was read without a cache is current for as long as its version is.
LEMMA OneReads ==
  ASSUME InitInv, UNCHANGED <<manifest, twice>>, NEW c \in Client,
         \A d \in Client \ {c} : seen'[d] = seen[d] /\ initPc'[d] = initPc[d],
         \/ initPc'[c] \notin {"put huoDong", "answer"}
         \/ seen'[c].hit \/ seen'[c].huoDong = manifest.of
         \/ initPc[c] \in {"put huoDong", "answer"} /\ seen' = seen
  PROVE  ReadIsCurrent'
<1>0. ReadIsCurrent BY DEF InitInv
<1>1. Inits!Present' = Inits!Present
  BY DEF Inits!Present, Inits!CurrentVersion, Inits!Larger
<1>2. \A d \in Client : seen'[d] = seen[d] => Inits!Version(d)' = Inits!Version(d)
  BY DEF Inits!Version, Inits!CurrentVersion, Inits!Larger
<1> QED BY <1>0, <1>1, <1>2 DEF ReadIsCurrent

\* Every step keeps what was read for a version current.
LEMMA ReadStep == InitInv /\ [Inits!Next]_(Inits!vars) => ReadIsCurrent'
<1> SUFFICES ASSUME InitInv, [Inits!Next]_(Inits!vars) PROVE ReadIsCurrent'
  OBVIOUS
<1>0. Clock /\ Requests /\ ReadIsCurrent BY DEF InitInv, InitTypes
<1>a. Inits!InitDataAssumption BY InitConstants
<1>t. initPc \in [Client -> InitSteps] /\ seen \in [Client -> Reading] BY <1>0 DEF Requests
<1>1. CASE Inits!Publish
  <2>1. UNCHANGED <<initPc, seen>> BY <1>1 DEF Inits!Publish
  <2>2. twice' \/ Inits!Present' \notin numbers BY <1>0, <1>a, <1>1, Changes
  <2>3. \A c \in Client : Inits!Version(c)' = Inits!Version(c) /\ Inits!Version(c) \in numbers
    BY <1>0, <2>1, VersionIsOne DEF Inits!Version, Inits!CurrentVersion, Inits!Larger
  <2> QED BY <2>2, <2>3 DEF ReadIsCurrent
<1>2. CASE Inits!Restart BY <1>2 DEF Inits!Restart, ReadIsCurrent
<1>3. CASE UNCHANGED <<manifest, initPc, seen, twice>>
  BY <1>0, <1>3 DEF ReadIsCurrent, Inits!Version, Inits!Present, Inits!CurrentVersion,
                    Inits!Larger
<1>4. ASSUME NEW c \in Client, NEW k \in Inits!Key, Inits!Hit(c, k) \/ Inits!Miss(c, k)
      PROVE  ReadIsCurrent'
  <2>1. UNCHANGED <<manifest, twice>> BY <1>4 DEF Inits!Hit, Inits!Miss, Inits!history
  <2>2. PICK v \in IF k = "huoDong" THEN Contents ELSE numbers, b \in BOOLEAN :
          ReadsOn(c, k, v, b)
    BY <1>4, ReadTypes
  <2>r. Requests /\ Read(c, k, v, b) BY <1>0, <2>2 DEF ReadsOn
  <2>3. seen'[c].hit = b /\ seen'[c][k] = v /\ \A d \in Client : d # c => seen'[d] = seen[d]
    BY <2>r, Reads
  <2>4. /\ initPc'[c] \in {"put huoDong", "answer"} => k = "huoDong"
        /\ \A d \in Client \ {c} : initPc'[d] = initPc[d]
    BY <1>t, <2>2 DEF ReadsOn
  <2>5. k = "huoDong" => b \/ v = manifest.of BY <2>2 DEF ReadsOn
  <2> QED BY <2>1, <2>3, <2>4, <2>5, OneReads
<1>5. ASSUME NEW c \in Client, Inits!TakeMail(c) PROVE ReadIsCurrent'
  <2>1. /\ initPc' = [initPc EXCEPT ![c] = "version"] /\ UNCHANGED <<manifest, twice>>
        /\ \E m : seen' = [seen EXCEPT ![c].mail = m]
    BY <1>5 DEF Inits!TakeMail, Inits!After, Inits!history
  <2>2. initPc'[c] = "version" /\ \A d \in Client \ {c} : seen'[d] = seen[d] /\ initPc'[d] = initPc[d]
    BY <1>t, <2>1 DEF InitSteps
  <2> QED BY <2>1, <2>2, OneReads
<1>6. ASSUME NEW c \in Client, NEW k \in Inits!Key, Inits!Put(c, k) PROVE ReadIsCurrent'
  <2>1. /\ initPc' = [initPc EXCEPT ![c] = Inits!After(k)] /\ initPc[c] = Inits!Putting(k)
        /\ UNCHANGED <<seen, manifest, twice>>
    BY <1>6 DEF Inits!Put, Inits!history
  <2>2. k = "huoDong" \/ Inits!After(k) \notin {"put huoDong", "answer"}
    BY DEF Inits!Key, Inits!After
  <2>3. k = "huoDong" => initPc[c] = "put huoDong" BY <2>1 DEF Inits!Putting
  <2> QED BY <1>t, <2>1, <2>2, <2>3, OneReads
<1>7. ASSUME NEW c \in Client,
             Inits!Ask(c) \/ Inits!Compare(c) \/ Inits!Answer(c) \/ Inits!LoseAnswer(c)
      PROVE  ReadIsCurrent'
  <2>1. /\ \E p \in {"repair", "idle", "huoDong"} : initPc' = [initPc EXCEPT ![c] = p]
        /\ seen' = seen \/ seen' = [seen EXCEPT ![c] = Inits!Nothing]
        /\ UNCHANGED <<manifest, twice>>
    BY <1>7 DEF Inits!Ask, Inits!Compare, Inits!Answer, Inits!LoseAnswer, Inits!End, Inits!After,
                Inits!history
  <2> QED BY <1>t, <2>1, OneReads
<1> QED BY <1>1, <1>2, <1>3, <1>4, <1>5, <1>6, <1>7
        DEF Inits!Next, Inits!Request, Inits!Tick, Inits!Expire, Inits!vars, Inits!history

\* Every step keeps what was loaded for a version current.
LEMMA LoadedStep == InitInv /\ [Inits!Next]_(Inits!vars) => Inits!LoadedIsCurrent'
<1> SUFFICES ASSUME InitInv, [Inits!Next]_(Inits!vars) PROVE Inits!LoadedIsCurrent'
  OBVIOUS
<1>0. Clock /\ Requests /\ Clients /\ ReadIsCurrent /\ Inits!LoadedIsCurrent
  BY DEF InitInv, InitTypes
<1>a. Inits!InitDataAssumption BY InitConstants
<1>1. CASE UNCHANGED <<manifest, client, fresh, twice>>
  BY <1>0, <1>1 DEF Inits!LoadedIsCurrent, Inits!Present, Inits!CurrentVersion, Inits!Larger
<1>2. CASE Inits!Publish \/ (Inits!Restart /\ ~UNCHANGED <<manifest, changes, numbers, twice>>)
  <2>1. UNCHANGED <<client, fresh>> BY <1>2 DEF Inits!Publish, Inits!Restart
  <2>2. twice' \/ Inits!Present' \notin numbers BY <1>0, <1>a, <1>2, Changes
  <2>3. \A c \in Client : client[c].version \in numbers BY <1>0 DEF Clients, Had
  <2> QED BY <2>1, <2>2, <2>3 DEF Inits!LoadedIsCurrent
<1>3. ASSUME NEW c \in Client, Inits!Answer(c) PROVE Inits!LoadedIsCurrent'
  <2>1. /\ initPc[c] = "answer" /\ client' = [client EXCEPT ![c] = Inits!Given(c)]
        /\ fresh' = [fresh EXCEPT ![c] = seen[c].mail = None /\ ~seen[c].hit]
        /\ UNCHANGED <<manifest, twice>>
    BY <1>3 DEF Inits!Answer
  <2>2. Inits!Present' = Inits!Present
    BY <2>1 DEF Inits!Present, Inits!CurrentVersion, Inits!Larger
  <2>3. /\ client'[c] = Inits!Given(c) /\ fresh'[c] = (seen[c].mail = None /\ ~seen[c].hit)
        /\ \A d \in Client \ {c} : client'[d] = client[d] /\ fresh'[d] = fresh[d]
    BY <1>0, <2>1 DEF Clients
  <2>4. /\ client'[c].version = Inits!Version(c)
        /\ seen[c].mail = None => client'[c].huoDong = seen[c].huoDong
    BY <2>3 DEF Inits!Given
  <2>5. client'[c].version = Inits!Present /\ fresh'[c] /\ ~twice => client'[c].huoDong = manifest.of
    BY <1>0, <2>1, <2>3, <2>4 DEF ReadIsCurrent
  <2> QED BY <1>0, <2>1, <2>2, <2>3, <2>5 DEF Inits!LoadedIsCurrent
<1> QED BY <1>1, <1>2, <1>3 DEF Inits!Next, Inits!Request, Inits!Restart, Inits!Tick, Inits!Ask,
      Inits!TakeMail, Inits!Compare, Inits!LoseAnswer, Inits!Hit, Inits!Miss, Inits!Put,
      Inits!Expire, Inits!vars, Inits!history

\* Nothing has been read at first.
LEMMA InitFirst == Inits!Init => InitInv
<1> SUFFICES ASSUME Inits!Init PROVE InitInv
  OBVIOUS
<1> USE InitConstants DEF Inits!InitDataAssumption, Inits!Init
<1>1. InitTypes
  <2>1. Clock
    <3>1. /\ now = 1 /\ changes = 0 /\ lost = 0 /\ numbers = {0, 1} /\ twice = FALSE
          /\ manifest = [version |-> 1, repair |-> 0, of |-> 0]
      OBVIOUS
    <3>2. MaxTime \in Nat \ {0} /\ MaxChanges \in Nat /\ MaxLost \in Nat /\ MaxRepair \in Nat OBVIOUS
    <3>3. /\ 1 \in 1..MaxTime /\ 1 \in 0..MaxTime /\ 0 \in 0..MaxChanges /\ 0 \in 0..MaxLost
          /\ 0 \in 0..MaxRepair
      BY ONLY <3>2
    <3>4. manifest \in [version : 0..MaxTime, repair : 0..MaxRepair, of : {0}] BY ONLY <3>1, <3>3
    <3> QED BY ONLY <3>1, <3>3, <3>4, 0 \in Nat, 1 \in Nat DEF Clock
  <2>2. Entries BY DEF Entries, Inits!Key
  <2>3. Requests BY DEF Requests, Reading, InitSteps, Contents, Inits!Nothing
  <2>4. Clients BY DEF Clients, Had, Contents, Inits!Blank
  <2> QED BY <2>1, <2>2, <2>3, <2>4 DEF InitTypes
<1>2. ReadIsCurrent /\ Inits!LoadedIsCurrent BY DEF ReadIsCurrent, Inits!LoadedIsCurrent
<1> QED BY <1>1, <1>2 DEF InitInv

\* Every step keeps all of it.
LEMMA InitStep == InitInv /\ [Inits!Next]_(Inits!vars) => InitInv'
<1> SUFFICES ASSUME InitInv, [Inits!Next]_(Inits!vars) PROVE InitInv'
  OBVIOUS
<1>1. InitTypes' BY ClockStep, EntriesStep, RequestsStep, ClientsStep DEF InitTypes
<1> QED BY <1>1, ReadStep, LoadedStep DEF InitInv

\* What the properties say follows.
LEMMA InitShows == InitInv => Inits!TypeOK /\ Inits!LoadedIsCurrent
<1> SUFFICES ASSUME InitInv PROVE Inits!TypeOK
  BY DEF InitInv
<1>0. Clock /\ Entries /\ Requests /\ Clients BY DEF InitInv, InitTypes
<1>1. manifest \in [version : 0..MaxTime, repair : 0..MaxRepair, of : 0..MaxChanges]
  BY <1>0 DEF Clock
<1>2. Contents = 0..manifest.of /\ twice \in BOOLEAN BY <1>0 DEF Clock, Contents
<1>3. ASSUME NEW c \in Client
      PROVE  /\ {client[c].version, seen[c].version, seen[c].repair} \subseteq numbers
             /\ {client[c].huoDong, seen[c].huoDong} \subseteq Contents
             /\ fresh[c] \in BOOLEAN /\ seen[c].mail \in {None} \cup Contents
  <2>1. seen[c] \in Reading /\ client[c] \in Had /\ fresh[c] \in BOOLEAN
    BY <1>0 DEF Requests, Clients
  <2> QED BY ONLY <2>1 DEF Reading, Had
<1> QED BY <1>0, <1>1, <1>2, <1>3 DEF Inits!TypeOK, Entries

-----------------------------------------------------------------------------
(* The gateway.                                                            *)

Present == {c \in Conn : at[c] # "away"}

\* A connection is counted under its peer, or, reset before, under none.
Names ==
  \A c \in Conn : at[c] \in Gate!Counted =>
    name[c] = PeerOf[c] \/ (name[c] = Unknown /\ c \in reset)

GateInv ==
  /\ Gate!TypeOK /\ IsFiniteSet(Present) /\ Names /\ Gate!PeerBounded /\ Gate!NoResetNoLeak

\* The module of the gateway counts with an operator of its own.
LEMMA SameCardinality == \A S : Gate!Cardinality(S) = Cardinality(S)
BY DEF Gate!Cardinality, Cardinality

\* One less in a finite set.
LEMMA OneLeaves ==
  \A S, x : IsFiniteSet(S) =>
    /\ IsFiniteSet(S \ {x})
    /\ x \in S => Gate!Cardinality(S \ {x}) = Gate!Cardinality(S) - 1
<1> SUFFICES ASSUME NEW S, NEW x, IsFiniteSet(S)
             PROVE  /\ IsFiniteSet(S \ {x})
                    /\ x \in S => Gate!Cardinality(S \ {x}) = Gate!Cardinality(S) - 1
  OBVIOUS
<1>1. Gate!Cardinality(S \ {x}) = Cardinality(S \ {x}) /\ Gate!Cardinality(S) = Cardinality(S)
  BY SameCardinality
<1> QED BY <1>1, FS_RemoveElement

\* Connections that are at one of some places.
Places(Q) == {c \in Conn : at[c] \in Q}

\* One connection moves.
LEMMA PlacesMove ==
  ASSUME Gate!TypeOK, IsFiniteSet(Present), NEW c \in Conn, NEW place, Gate!Move(c, place),
         NEW Q, "away" \notin Q
  PROVE  /\ Gate!Cardinality(Places(Q)) \in Nat
         /\ Gate!Cardinality(Places(Q)') =
              IF place \in Q
              THEN IF at[c] \in Q THEN Gate!Cardinality(Places(Q)) ELSE Gate!Cardinality(Places(Q)) + 1
              ELSE IF at[c] \in Q THEN Gate!Cardinality(Places(Q)) - 1 ELSE Gate!Cardinality(Places(Q))
<1>1. IsFiniteSet(Places(Q)) /\ Gate!Cardinality(Places(Q)) \in Nat
  <2>1. Places(Q) \subseteq Present BY DEF Places, Present
  <2> QED BY <2>1, FS_Subset, FS_CardinalityType, SameCardinality
<1>2. \A d \in Conn : at'[d] = IF d = c THEN place ELSE at[d] BY DEF Gate!TypeOK, Gate!Move
<1>3. c \in Places(Q) <=> at[c] \in Q BY DEF Places
<1>4. CASE place \in Q
  <2>1. Places(Q)' = Places(Q) \cup {c} BY <1>2, <1>4 DEF Places
  <2> QED BY <1>1, <1>3, <1>4, <2>1, FS_AddElement, SameCardinality
<1>5. CASE place \notin Q
  <2>1. Places(Q)' = Places(Q) \ {c} BY <1>2, <1>5 DEF Places
  <2> QED BY <1>1, <1>3, <1>5, <2>1, FS_RemoveElement, SameCardinality
<1> QED BY <1>4, <1>5

\* It finds room, or was there.
LEMMA PlacesFit ==
  ASSUME Gate!TypeOK, IsFiniteSet(Present), NEW c \in Conn, NEW place, Gate!Move(c, place),
         NEW Q, "away" \notin Q, NEW n \in Nat, Gate!Cardinality(Places(Q)) <= n,
         place \in Q => at[c] \in Q \/ Gate!Cardinality(Places(Q)) < n
  PROVE  Gate!Cardinality(Places(Q)') <= n
<1>1. CASE place \in Q /\ at[c] \notin Q BY <1>1, PlacesMove
<1>2. CASE place \in Q /\ at[c] \in Q BY <1>2, PlacesMove
<1>3. CASE place \notin Q BY <1>3, PlacesMove
<1> QED BY <1>1, <1>2, <1>3

\* Finitely many connections have been opened.
LEMMA PresentMove ==
  ASSUME Gate!TypeOK, IsFiniteSet(Present), NEW c \in Conn, NEW place, Gate!Move(c, place)
  PROVE  IsFiniteSet(Present')
<1>1. \A d \in Conn : at'[d] = IF d = c THEN place ELSE at[d] BY DEF Gate!TypeOK, Gate!Move
<1>2. Present' \subseteq Present \cup {c} BY <1>1 DEF Present
<1>3. IsFiniteSet(Present \cup {c}) BY FS_AddElement, SameCardinality
<1> QED BY <1>2, <1>3, FS_Subset

\* No pool takes more than it has room for.
Room(c, place) ==
  /\ place \in Gate!Counted \cup {"away", "backlog", "refused", "closed"}
  /\ place = "light queue" => Gate!Cardinality(Gate!In("light queue")) < LightQueue
  /\ place = "light" => Gate!Cardinality(Gate!In("light") \cup Gate!In("serve")) < LightThreads
  /\ place = "serve" => at[c] = "light"
  /\ place = "slow queue" => Gate!Cardinality(Gate!In("slow queue")) < SlowQueue
  /\ place = "slow serve" => Gate!Cardinality(Gate!In("slow serve")) < SlowThreads

\* A move to a place that has room for one more keeps the types and every limit.
LEMMA RoomKept ==
  ASSUME Gate!TypeOK, IsFiniteSet(Present), NEW c \in Conn, NEW place, Gate!Move(c, place),
         Room(c, place), reset' \subseteq Conn, name' \in [Conn -> Peer \cup {Unknown}],
         held' \in [Peer \cup {Unknown} -> Nat]
  PROVE  Gate!TypeOK'
<1> DEFINE Holds(Q, n) == Gate!Cardinality(Places(Q)) <= n
<1>1. {LightQueue, LightThreads, SlowQueue, SlowThreads} \subseteq Nat
  BY GateConstants DEF Gate!GatewayAssumption
<1>2. /\ Gate!In("light queue") = Places({"light queue"})
      /\ Gate!In("light") \cup Gate!In("serve") = Places({"light", "serve"})
      /\ Gate!In("slow queue") = Places({"slow queue"})
      /\ Gate!In("slow serve") = Places({"slow serve"})
  BY DEF Gate!In, Places
<1>3. /\ Gate!In("light queue")' = Places({"light queue"})'
      /\ (Gate!In("light") \cup Gate!In("serve"))' = Places({"light", "serve"})'
      /\ Gate!In("slow queue")' = Places({"slow queue"})'
      /\ Gate!In("slow serve")' = Places({"slow serve"})'
  BY DEF Gate!In, Places
<1>4. Gate!Cardinality(Places({"light queue"})') <= LightQueue
  <2>1. /\ Gate!Cardinality(Places({"light queue"})) <= LightQueue
        /\ place = "light queue" => Gate!Cardinality(Places({"light queue"})) < LightQueue
    BY <1>2 DEF Gate!TypeOK, Room
  <2>2. LightQueue \in Nat /\ "away" \notin {"light queue"} BY <1>1
  <2>3. place \in {"light queue"} => at[c] \in {"light queue"} \/ Gate!Cardinality(Places({"light queue"})) < LightQueue
    BY <2>1
  <2> QED BY <2>1, <2>2, <2>3, PlacesFit
<1>5. Gate!Cardinality(Places({"light", "serve"})') <= LightThreads
  <2>1. /\ Gate!Cardinality(Places({"light", "serve"})) <= LightThreads
        /\ place = "light" => Gate!Cardinality(Places({"light", "serve"})) < LightThreads
        /\ place = "serve" => at[c] = "light"
    BY <1>2 DEF Gate!TypeOK, Room
  <2>2. LightThreads \in Nat /\ "away" \notin {"light", "serve"} BY <1>1
  <2>3. place \in {"light", "serve"} => at[c] \in {"light", "serve"} \/ Gate!Cardinality(Places({"light", "serve"})) < LightThreads
    BY <2>1
  <2> QED BY <2>1, <2>2, <2>3, PlacesFit
<1>6. Gate!Cardinality(Places({"slow queue"})') <= SlowQueue
  <2>1. /\ Gate!Cardinality(Places({"slow queue"})) <= SlowQueue
        /\ place = "slow queue" => Gate!Cardinality(Places({"slow queue"})) < SlowQueue
    BY <1>2 DEF Gate!TypeOK, Room
  <2>2. SlowQueue \in Nat /\ "away" \notin {"slow queue"} BY <1>1
  <2>3. place \in {"slow queue"} => at[c] \in {"slow queue"} \/ Gate!Cardinality(Places({"slow queue"})) < SlowQueue
    BY <2>1
  <2> QED BY <2>1, <2>2, <2>3, PlacesFit
<1>7. Gate!Cardinality(Places({"slow serve"})') <= SlowThreads
  <2>1. /\ Gate!Cardinality(Places({"slow serve"})) <= SlowThreads
        /\ place = "slow serve" => Gate!Cardinality(Places({"slow serve"})) < SlowThreads
    BY <1>2 DEF Gate!TypeOK, Room
  <2>2. SlowThreads \in Nat /\ "away" \notin {"slow serve"} BY <1>1
  <2>3. place \in {"slow serve"} => at[c] \in {"slow serve"} \/ Gate!Cardinality(Places({"slow serve"})) < SlowThreads
    BY <2>1
  <2> QED BY <2>1, <2>2, <2>3, PlacesFit
<1>8. at' \in [Conn -> Gate!Counted \cup {"away", "backlog", "refused", "closed"}]
  BY DEF Gate!TypeOK, Gate!Move, Room
<1> QED BY <1>3, <1>4, <1>5, <1>6, <1>7, <1>8 DEF Gate!TypeOK

\* The places a peer has.
Bounds == Names /\ Gate!PeerBounded /\ Gate!NoResetNoLeak

\* A peer's live connections are finitely many.
LEMMA LiveFinite ==
  ASSUME IsFiniteSet(Present), NEW p PROVE IsFiniteSet(Gate!Live(p)) /\ Gate!Cardinality(Gate!Live(p)) \in Nat
<1>1. Gate!Live(p) \subseteq Present BY DEF Gate!Live, Gate!Counted, Present
<1> QED BY <1>1, FS_Subset, FS_CardinalityType, SameCardinality

\* One more below a limit.
LEMMA OneMore == \A n, h, m \in Nat : n <= h /\ h < m => n + 1 <= h + 1 /\ h + 1 <= m
OBVIOUS

\* A connection that is admitted.
LEMMA Enters ==
  ASSUME Gate!TypeOK, IsFiniteSet(Present), Bounds, NEW c \in Conn, at[c] = "backlog", Gate!Admits(c),
         NEW place \in {"light queue", "overloaded"}, Gate!Move(c, place), reset' = reset,
         held' = [held EXCEPT ![Gate!PeerName(c)] = held[Gate!PeerName(c)] + 1],
         name' = [name EXCEPT ![c] = Gate!PeerName(c)]
  PROVE  Bounds'
<1> USE GateConstants DEF Gate!GatewayAssumption
<1> DEFINE q == Gate!PeerName(c)
<1>1. q \in Peer \cup {Unknown} /\ (c \notin reset => q = PeerOf[c]) /\ (c \in reset => q = Unknown)
  BY DEF Gate!PeerName
<1>2. held[q] < MaxPerPeer BY DEF Gate!Admits, Gate!HasRoom
<1> HIDE DEF q
<1>3. \A d \in Conn : at'[d] = IF d = c THEN place ELSE at[d] BY DEF Gate!TypeOK, Gate!Move
<1>4. \A d \in Conn : name'[d] = IF d = c THEN q ELSE name[d] BY DEF Gate!TypeOK, q
<1>5. \A p \in Peer : held'[p] = IF p = q THEN held[p] + 1 ELSE held[p] BY <1>1 DEF Gate!TypeOK, q
<1>6. Names' BY <1>1, <1>3, <1>4 DEF Bounds, Names, Gate!TypeOK, Gate!Counted
<1>7. ASSUME NEW p \in Peer
      PROVE  Gate!Cardinality(Gate!Live(p)') = IF p = q THEN Gate!Cardinality(Gate!Live(p)) + 1
                                                   ELSE Gate!Cardinality(Gate!Live(p))
  <2>1. c \notin Gate!Live(p) BY DEF Gate!Live, Gate!Counted
  <2>2. CASE p = q
    <3>1. Gate!Live(p)' = Gate!Live(p) \cup {c} BY <1>3, <1>4, <2>2 DEF Gate!Live, Gate!Counted
    <3> QED BY <2>1, <2>2, <3>1, LiveFinite, FS_AddElement, SameCardinality
  <2>3. CASE p # q
    <3>1. Gate!Live(p)' = Gate!Live(p) BY <1>3, <1>4, <2>1, <2>3 DEF Gate!Live
    <3> QED BY <2>3, <3>1
  <2> QED BY <2>2, <2>3
<1>8. ASSUME NEW p \in Peer
      PROVE  /\ Gate!Cardinality(Gate!Live(p)') <= held'[p] /\ held'[p] <= MaxPerPeer
             /\ reset' = {} => held'[p] = Gate!Cardinality(Gate!Live(p)')
  <2>1. /\ Gate!Cardinality(Gate!Live(p)) <= held[p] /\ held[p] <= MaxPerPeer
        /\ reset = {} => held[p] = Gate!Cardinality(Gate!Live(p))
    BY DEF Bounds, Gate!PeerBounded, Gate!NoResetNoLeak
  <2>2. held[p] \in Nat /\ Gate!Cardinality(Gate!Live(p)) \in Nat BY LiveFinite DEF Gate!TypeOK
  <2>3. MaxPerPeer \in Nat OBVIOUS
  <2>4. CASE p = q
    <3>1. /\ Gate!Cardinality(Gate!Live(p)') = Gate!Cardinality(Gate!Live(p)) + 1
          /\ held'[p] = held[p] + 1 /\ held[p] < MaxPerPeer
      BY <1>2, <1>5, <1>7, <2>4
    <3>2. Gate!Cardinality(Gate!Live(p)') <= held'[p] /\ held'[p] <= MaxPerPeer
      <4>1. Gate!Cardinality(Gate!Live(p)) <= held[p] BY <2>1
      <4> QED BY ONLY <2>2, <2>3, <3>1, <4>1, OneMore
    <3>3. reset = {} => held'[p] = Gate!Cardinality(Gate!Live(p)') BY <2>1, <3>1
    <3> QED BY <3>2, <3>3
  <2>5. CASE p # q
    <3>1. Gate!Cardinality(Gate!Live(p)') = Gate!Cardinality(Gate!Live(p)) /\ held'[p] = held[p]
      BY <1>5, <1>7, <2>5
    <3> QED BY <2>1, <3>1
  <2> QED BY <2>4, <2>5
<1> QED BY <1>6, <1>8 DEF Bounds, Gate!PeerBounded, Gate!NoResetNoLeak

\* A connection that gives its place back, under the name it has by now.
LEMMA Leaves ==
  ASSUME Gate!TypeOK, IsFiniteSet(Present), Bounds, NEW c \in Conn, at[c] \in Gate!Counted,
         NEW place \in {"refused", "closed"}, Gate!Move(c, place),
         held' = Gate!Released(Gate!PeerName(c)), UNCHANGED <<reset, name>>
  PROVE  Bounds'
<1> USE GateConstants DEF Gate!GatewayAssumption
<1> DEFINE q == Gate!PeerName(c)
<1>1. q \in Peer \cup {Unknown} /\ (c \notin reset => q = PeerOf[c]) /\ (c \in reset => q = Unknown)
  BY DEF Gate!PeerName
<1> HIDE DEF q
<1>2. \A d \in Conn : at'[d] = IF d = c THEN place ELSE at[d] BY DEF Gate!TypeOK, Gate!Move
<1>3. \A p \in Peer :
        held'[p] = IF p = q THEN IF held[p] > 0 THEN held[p] - 1 ELSE 0 ELSE held[p]
  BY <1>1 DEF Gate!TypeOK, Gate!Released, q
<1>4. Names' BY <1>2 DEF Bounds, Names, Gate!Counted
<1>5. name[c] = PeerOf[c] \/ (name[c] = Unknown /\ c \in reset) BY DEF Bounds, Names
<1>6. ASSUME NEW p \in Peer
      PROVE  /\ Gate!Cardinality(Gate!Live(p)') <= held'[p] /\ held'[p] <= MaxPerPeer
             /\ reset' = {} => held'[p] = Gate!Cardinality(Gate!Live(p)')
  <2>1. /\ Gate!Cardinality(Gate!Live(p)) <= held[p] /\ held[p] <= MaxPerPeer
        /\ reset = {} => held[p] = Gate!Cardinality(Gate!Live(p))
    BY DEF Bounds, Gate!PeerBounded, Gate!NoResetNoLeak
  <2>2. held[p] \in Nat /\ Gate!Cardinality(Gate!Live(p)) \in Nat /\ MaxPerPeer \in Nat
    BY LiveFinite DEF Gate!TypeOK
  <2>3. Gate!Live(p)' = Gate!Live(p) \ {c} BY <1>2 DEF Gate!Live, Gate!Counted
  <2>4. CASE name[c] = p
    <3>1. c \in Gate!Live(p) BY <2>4 DEF Gate!Live
    <3>2. Gate!Cardinality(Gate!Live(p)') = Gate!Cardinality(Gate!Live(p)) - 1
      <4>1. IsFiniteSet(Gate!Live(p)) BY LiveFinite
      <4> QED BY ONLY <2>3, <3>1, <4>1, OneLeaves
    <3>3. reset = {} => p = q BY <1>1, <1>5, <2>4
    <3>4. IsFiniteSet(Gate!Live(p)')
      <4>1. IsFiniteSet(Gate!Live(p)) BY LiveFinite
      <4> QED BY ONLY <2>3, <4>1, OneLeaves
    <3>5. Gate!Cardinality(Gate!Live(p)') \in Nat BY <3>4, FS_CardinalityType, SameCardinality
    <3> QED BY <1>3, <2>1, <2>2, <3>2, <3>3, <3>5
  <2>5. CASE name[c] # p
    <3>1. Gate!Live(p)' = Gate!Live(p) BY <2>3, <2>5 DEF Gate!Live
    <3>2. p # q BY <1>1, <1>5, <2>5
    <3> QED BY <1>3, <2>1, <3>1, <3>2
  <2> QED BY <2>4, <2>5
<1> QED BY <1>4, <1>6 DEF Bounds, Gate!PeerBounded, Gate!NoResetNoLeak

\* A connection that keeps its place, or has none.
LEMMA StaysCounted ==
  ASSUME Gate!TypeOK, Bounds, NEW c \in Conn, NEW place, Gate!Move(c, place),
         place \in Gate!Counted <=> at[c] \in Gate!Counted, UNCHANGED <<reset, held, name>>
  PROVE  Bounds'
<1>1. \A d \in Conn : at'[d] = IF d = c THEN place ELSE at[d] BY DEF Gate!TypeOK, Gate!Move
<1>2. Names' BY <1>1 DEF Bounds, Names
<1>3. \A p : Gate!Live(p)' = Gate!Live(p) BY <1>1 DEF Gate!Live
<1> QED BY <1>2, <1>3 DEF Bounds, Gate!PeerBounded, Gate!NoResetNoLeak

\* Every step of the gateway keeps the places counted.
LEMMA GateStep == GateInv /\ [Gate!Next]_(Gate!vars) => GateInv'
<1> SUFFICES ASSUME GateInv, [Gate!Next]_(Gate!vars) PROVE GateInv'
  OBVIOUS
<1>0. Gate!TypeOK /\ IsFiniteSet(Present) /\ Bounds BY DEF GateInv, Bounds
<1>a. /\ held \in [Peer \cup {Unknown} -> Nat] /\ name \in [Conn -> Peer \cup {Unknown}]
      /\ reset \subseteq Conn /\ PeerOf \in [Conn -> Peer] /\ LightQueue \in Nat
  BY <1>0, GateConstants DEF Gate!TypeOK, Gate!GatewayAssumption
<1> SUFFICES Gate!TypeOK' /\ IsFiniteSet(Present') /\ Bounds' BY DEF GateInv, Bounds
<1>b. ASSUME NEW c \in Conn
      PROVE  /\ Gate!PeerName(c) \in Peer \cup {Unknown}
             /\ Gate!Released(Gate!PeerName(c)) \in [Peer \cup {Unknown} -> Nat]
             /\ [held EXCEPT ![Gate!PeerName(c)] = held[Gate!PeerName(c)] + 1] \in [Peer \cup {Unknown} -> Nat]
             /\ [name EXCEPT ![c] = Gate!PeerName(c)] \in [Conn -> Peer \cup {Unknown}]
  <2>1. Gate!PeerName(c) \in Peer \cup {Unknown} BY <1>a DEF Gate!PeerName
  <2> QED BY <1>a, <2>1 DEF Gate!Released
<1>c. ASSUME NEW c \in Conn, NEW place, Gate!Move(c, place), Room(c, place), UNCHANGED <<reset, held, name>>,
             place \in Gate!Counted <=> at[c] \in Gate!Counted
      PROVE  Gate!TypeOK' /\ IsFiniteSet(Present') /\ Bounds'
  BY <1>0, <1>a, <1>c, RoomKept, PresentMove, StaysCounted
<1>d. ASSUME NEW c \in Conn, NEW place \in {"refused", "closed"}, Gate!Move(c, place), at[c] \in Gate!Counted,
             held' = Gate!Released(Gate!PeerName(c)), UNCHANGED <<reset, name>>
      PROVE  Gate!TypeOK' /\ IsFiniteSet(Present') /\ Bounds'
  <2>1. Room(c, place) BY DEF Room
  <2> QED BY <1>0, <1>a, <1>b, <1>d, <2>1, RoomKept, PresentMove, Leaves
<1>e. ASSUME NEW c \in Conn, NEW place \in {"light queue", "overloaded"}, Gate!Move(c, place),
             Room(c, place), at[c] = "backlog", Gate!Admits(c), reset' = reset,
             held' = [held EXCEPT ![Gate!PeerName(c)] = held[Gate!PeerName(c)] + 1],
             name' = [name EXCEPT ![c] = Gate!PeerName(c)]
      PROVE  Gate!TypeOK' /\ IsFiniteSet(Present') /\ Bounds'
  BY <1>0, <1>a, <1>b, <1>e, RoomKept, PresentMove, Enters
<1>1. ASSUME NEW c \in Conn, Gate!Accept(c) PROVE Gate!TypeOK' /\ IsFiniteSet(Present') /\ Bounds'
  <2>1. Room(c, "light queue") BY <1>1 DEF Room, Gate!Accept, Gate!Counted
  <2> QED BY <1>1, <1>e, <2>1 DEF Gate!Accept
<1>2. ASSUME NEW c \in Conn, Gate!Overload(c) PROVE Gate!TypeOK' /\ IsFiniteSet(Present') /\ Bounds'
  <2>1. Room(c, "overloaded") BY DEF Room, Gate!Counted
  <2> QED BY <1>2, <1>e, <2>1 DEF Gate!Overload
<1>3. ASSUME NEW c \in Conn, Gate!TurnAway(c) PROVE Gate!TypeOK' /\ IsFiniteSet(Present') /\ Bounds'
  BY <1>3, <1>d DEF Gate!TurnAway, Gate!Turned, Gate!Counted
<1>4. ASSUME NEW c \in Conn, Gate!Finish(c) PROVE Gate!TypeOK' /\ IsFiniteSet(Present') /\ Bounds'
  BY <1>4, <1>d DEF Gate!Finish, Gate!Counted
<1>5. ASSUME NEW c \in Conn, Gate!Refuse(c) PROVE Gate!TypeOK' /\ IsFiniteSet(Present') /\ Bounds'
  BY <1>5, <1>c DEF Gate!Refuse, Gate!Counted, Room
<1>6. ASSUME NEW c \in Conn, Gate!TakeLight(c) PROVE Gate!TypeOK' /\ IsFiniteSet(Present') /\ Bounds'
  BY <1>6, <1>c DEF Gate!TakeLight, Gate!Counted, Room
<1>7. ASSUME NEW c \in Conn, Gate!HandOff(c) PROVE Gate!TypeOK' /\ IsFiniteSet(Present') /\ Bounds'
  BY <1>7, <1>c DEF Gate!HandOff, Gate!SlowRoom, Gate!Counted, Room
<1>8. ASSUME NEW c \in Conn, Gate!Stay(c) PROVE Gate!TypeOK' /\ IsFiniteSet(Present') /\ Bounds'
  BY <1>8, <1>c DEF Gate!Stay, Gate!Counted, Room
<1>9. ASSUME NEW c \in Conn, Gate!TakeSlow(c) PROVE Gate!TypeOK' /\ IsFiniteSet(Present') /\ Bounds'
  BY <1>9, <1>c DEF Gate!TakeSlow, Gate!Counted, Room
<1>10. ASSUME NEW c \in Conn, Gate!Connect(c) PROVE Gate!TypeOK' /\ IsFiniteSet(Present') /\ Bounds'
  BY <1>10, <1>c DEF Gate!Connect, Gate!Counted, Room
<1>11. ASSUME NEW c \in Conn, Gate!Reset(c) PROVE Gate!TypeOK' /\ IsFiniteSet(Present') /\ Bounds'
  <2>1. reset' = reset \cup {c} /\ UNCHANGED <<at, held, name>> BY <1>11 DEF Gate!Reset
  <2>2. Gate!TypeOK' BY <1>0, <2>1 DEF Gate!TypeOK, Gate!In
  <2>3. Present' = Present BY <2>1 DEF Present
  <2>4. \A p : Gate!Live(p)' = Gate!Live(p) BY <2>1 DEF Gate!Live
  <2>5. Names' BY <1>0, <2>1 DEF Bounds, Names
  <2> QED BY <1>0, <2>1, <2>2, <2>3, <2>4, <2>5 DEF Bounds, Gate!PeerBounded, Gate!NoResetNoLeak
<1>12. CASE UNCHANGED Gate!vars
  <2>1. UNCHANGED <<at, reset, held, name>> BY <1>12 DEF Gate!vars
  <2>2. Gate!TypeOK' BY <1>0, <2>1 DEF Gate!TypeOK, Gate!In
  <2>3. Present' = Present BY <2>1 DEF Present
  <2>4. \A p : Gate!Live(p)' = Gate!Live(p) BY <2>1 DEF Gate!Live
  <2>5. Names' BY <1>0, <2>1 DEF Bounds, Names
  <2> QED BY <1>0, <2>1, <2>2, <2>3, <2>4, <2>5 DEF Bounds, Gate!PeerBounded, Gate!NoResetNoLeak
<1> QED BY <1>1, <1>2, <1>3, <1>4, <1>5, <1>6, <1>7, <1>8, <1>9, <1>10, <1>11, <1>12
        DEF Gate!Next, Gate!AcceptLoop, Gate!LightPool, Gate!SlowPool

\* No connection is there at first.
LEMMA GateFirst == Gate!Init => GateInv
<1> SUFFICES ASSUME Gate!Init PROVE GateInv
  OBVIOUS
<1> USE GateConstants DEF Gate!GatewayAssumption, Gate!Init
<1>1. Present = {} BY DEF Present
<1>2. \A q : q # "away" => Gate!In(q) = {} BY DEF Gate!In
<1>3. Gate!In("light") \cup Gate!In("serve") = {} BY <1>2
<1>4. \A p : Gate!Live(p) = {} BY DEF Gate!Live, Gate!Counted
<1>8. Gate!Cardinality({}) = 0 BY FS_EmptySet, SameCardinality
<1>5. Gate!TypeOK
  <2>1. ASSUME NEW n \in Nat, NEW S, S = {} PROVE Gate!Cardinality(S) <= n BY <1>8, <2>1
  <2>2. LightQueue \in Nat /\ LightThreads \in Nat /\ SlowQueue \in Nat /\ SlowThreads \in Nat OBVIOUS
  <2>3. /\ Gate!In("light queue") = {} /\ Gate!In("slow queue") = {} /\ Gate!In("slow serve") = {}
    BY <1>2
  <2>4. /\ at \in [Conn -> Gate!Counted \cup {"away", "backlog", "refused", "closed"}]
        /\ reset \subseteq Conn /\ name \in [Conn -> Peer \cup {Unknown}]
        /\ held \in [Peer \cup {Unknown} -> Nat]
    OBVIOUS
  <2>5. Gate!Cardinality(Gate!In("light queue")) <= LightQueue BY <2>1, <2>2, <2>3
  <2>6. Gate!Cardinality(Gate!In("light") \cup Gate!In("serve")) <= LightThreads
    BY <1>3, <2>1, <2>2
  <2>7. Gate!Cardinality(Gate!In("slow queue")) <= SlowQueue BY <2>1, <2>2, <2>3
  <2>8. Gate!Cardinality(Gate!In("slow serve")) <= SlowThreads BY <2>1, <2>2, <2>3
  <2> HIDE DEF Gate!Init, Gate!GatewayAssumption
  <2> QED BY ONLY <2>4, <2>5, <2>6, <2>7, <2>8 DEF Gate!TypeOK
<1>6. Names BY DEF Names, Gate!Counted
<1>7. Gate!PeerBounded /\ Gate!NoResetNoLeak
  <2>1. \A p : Gate!Cardinality(Gate!Live(p)) = 0 BY ONLY <1>4, <1>8
  <2>2. \A p \in Peer : held[p] = 0 /\ 0 <= MaxPerPeer OBVIOUS
  <2> QED BY ONLY <2>1, <2>2 DEF Gate!PeerBounded, Gate!NoResetNoLeak
<1> QED BY <1>1, <1>5, <1>6, <1>7, FS_EmptySet, SameCardinality DEF GateInv

-----------------------------------------------------------------------------
(* All three, of which one moves.                                          *)

ServingInv == FileInv /\ InitInv /\ GateInv

\* Whoever does not move keeps its part.
LEMMA Parts ==
  [Next]_<<part, files, inits, gates>> =>
    [Files!Next]_(Files!vars) /\ [Inits!Next]_(Inits!vars) /\ [Gate!Next]_(Gate!vars)
<1>1. UNCHANGED files => UNCHANGED Files!vars
  BY DEF files, Files!vars, Files!files, Files!handlers, Files!count, Files!history
<1>2. UNCHANGED inits => UNCHANGED Inits!vars BY DEF inits, Inits!vars, Inits!history
<1>3. UNCHANGED gates => UNCHANGED Gate!vars BY DEF gates, Gate!vars
<1> QED BY <1>1, <1>2, <1>3 DEF Next

\* The invariant of the manifest, of getInitData and of the gateway is one of
\* every behaviour.
THEOREM ServingInvariant == Spec => []ServingInv
<1>1. Init => ServingInv BY FileFirst, InitFirst, GateFirst DEF Init, ServingInv
<1>2. ServingInv /\ [Next]_<<part, files, inits, gates>> => ServingInv'
  BY Parts, FileStep, InitStep, GateStep DEF ServingInv
<1> QED BY <1>1, <1>2, PTL DEF Spec

\* Memory has the disk's manifest whenever nobody saves, and what administrators
\* saved stays on the disk or in memory but where an old or an empty copy went
\* over it, or nobody had it any more after a failed rename (get_manifest and
\* save_manifest of update.cpp).
THEOREM ServingManifestKept == Spec => []ManifestKept
<1>1. ServingInv => ManifestKept BY FileShows DEF ServingInv, ManifestKept
<1> QED BY <1>1, ServingInvariant, PTL

\* The files clients download are the ones the manifest announces, but after the
\* named mishaps (save_manifest_unlocked and the handlers of update.cpp).
THEOREM ServingAnnounced == Spec => []Announced
<1>1. ServingInv => Announced BY FileShows DEF ServingInv, Announced
<1> QED BY <1>1, ServingInvariant, PTL

\* A version a client was told names one document, if the manifest was never
\* saved from an old or an empty copy (/admin/api/update/doc of update.cpp).
THEOREM ServingVersionNamesOne == Spec => []VersionNamesOne
<1>1. ServingInv => VersionNamesOne BY FileShows DEF ServingInv, VersionNamesOne
<1> QED BY <1>1, ServingInvariant, PTL

\* A client with the present version has the manifest's activities, if they were
\* loaded for it and the last change took a number of its own
\* (handle_get_init_data of handlers.cpp).
THEOREM ServingLoadedIsCurrent == Spec => []LoadedIsCurrent
<1>1. ServingInv => LoadedIsCurrent BY InitShows DEF ServingInv, LoadedIsCurrent
<1> QED BY <1>1, ServingInvariant, PTL

\* A peer has no more connections than the limit, and gets its places back
\* (on_accept and the thread pools of gateway.cpp).
THEOREM ServingPlacesCounted == Spec => []PlacesCounted
<1>1. ServingInv => PlacesCounted BY DEF ServingInv, GateInv, PlacesCounted, Gate!PlacesCounted
<1> QED BY <1>1, ServingInvariant, PTL
================================================================================
