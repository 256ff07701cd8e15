-------------------------------- MODULE Serving --------------------------------
(* Manifest, InitData and Gateway side by side: what clients are served,   *)
(* what they are told, and how they get through.  They share no variable,  *)
(* and no property is about two of them: behaviours in which one of them   *)
(* moves show all there is to see.  part says which.                       *)
EXTENDS Naturals

CONSTANTS
  None,
  Thread, MaxRequests, MaxFaults, MaxCrashes, \* of Manifest
  Client, MaxChanges, MaxTime, MaxRepair, MaxLost, \* of InitData
  Conn, Peer, PeerOf, Slow, Banned, Unknown, MaxPerPeer, \* of Gateway
  LightThreads, LightQueue, SlowThreads, SlowQueue

VARIABLES
  part,
  disk, there, cache, loaded, jsonFile, apkFile, docFile, docCache, lock, pc, copy, own,
  requests, faults, crashes, want, unread, over, slip, apart, reused, issued,
  manifest, initCache, initPc, seen, client, now, changes, lost, fresh, numbers, twice,
  at, reset, held, name

files == <<disk, there, cache, loaded, jsonFile, apkFile, docFile, docCache, lock, pc, copy, own,
           requests, faults, crashes, want, unread, over, slip, apart, reused, issued>>
inits == <<manifest, initCache, initPc, seen, client, now, changes, lost, fresh, numbers, twice>>
gates == <<at, reset, held, name>>

Files == INSTANCE Manifest
Inits == INSTANCE InitData WITH cache <- initCache, pc <- initPc, loaded <- fresh
Gate  == INSTANCE Gateway

ASSUME FileConstants == Files!ManifestAssumption
ASSUME InitConstants == Inits!InitDataAssumption
ASSUME GateConstants == Gate!GatewayAssumption

Init ==
  /\ part \in {"files", "inits", "gates"}
  /\ Files!Init /\ Inits!Init /\ Gate!Init

Next ==
  \/ part = "files" /\ Files!Next /\ UNCHANGED <<part, inits, gates>>
  \/ part = "inits" /\ Inits!Next /\ UNCHANGED <<part, files, gates>>
  \/ part = "gates" /\ Gate!Next /\ UNCHANGED <<part, files, inits>>

Spec == Init /\ [][Next]_<<part, files, inits, gates>>

-----------------------------------------------------------------------------
(* The properties of the modules, which state them at length.              *)

\* Memory has the manifest of the disk, and saved changes stay in one of them.
ManifestKept == part = "files" => Files!ManifestKept
\* The files clients download are the ones the manifest announces.
Announced == part = "files" => Files!Announced
\* A version number names one document.
VersionNamesOne == part = "files" => Files!VersionNamesOne

\* What is loaded for a version is not older than the version.
LoadedIsCurrent == part = "inits" => Inits!TypeOK /\ Inits!LoadedIsCurrent

\* A peer has no more connections than the limit, and gets its places back.
PlacesCounted == part = "gates" => Gate!PlacesCounted
\* The count of a peer is that of the connections it holds (gateway.cpp:212).
HeldIsHeld == part = "gates" => Gate!HeldIsHeld
===============================================================================
