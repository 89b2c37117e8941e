------------------------- MODULE SyncInstallProofs -------------------------
(****************************************************************************)
(* Proofs about SyncInstall, for any number of versions, starts and faults: *)
(* the live file is never incomplete, nothing unsigned is served, what is   *)
(* served is what a restart finds, and versions and tags do not step back.  *)
(****************************************************************************)
EXTENDS SyncInstall, TLAPS

\* Where a syncer holds syncMu, has a download, and has verified it.
Holding == {"wait", "verify", "fsync", "open", "rename", "sig", "dir", "publish", "tag"}
Downloaded == Holding \ {"wait"}
Verified == Downloaded \ {"verify"}
Opened == {"rename", "sig", "dir", "publish", "tag"}
Renamed == {"sig", "dir", "publish", "tag"}

\* One syncer at a time; a starting Synchronizer has no caller yet, and a process that is
\* down has nothing.
MutexInv ==
    /\ \A s \in Syncers : pc[s] \in Holding <=> syncMu = s
    /\ \A s \in Syncers : s # Loop /\ phase \in {"down", "starting"} => pc[s] = "idle"
    /\ phase = "down" => served = None /\ pc[Loop] = "idle"
    /\ \A s \in Syncers : pc[s] = "load" => s = Loop /\ phase = "starting" /\ served = None
    /\ phase = "closed" => served = None

\* A download is synced before it is opened, and whole once it was opened.
FileInv ==
    /\ liveSynced /\ disk.live # Torn /\ kept.live # Torn
    /\ \A s \in Syncers :
          /\ pc[s] \in {"open", "rename"} => tempSynced[s]
          /\ pc[s] \in Downloaded => temp[s] # None
          /\ pc[s] \in Opened => temp[s] \in Blobs

\* Signatures are of signed blobs, and so is what they let through.
SignInv ==
    /\ pendingSig \in Signed \cup {None}
    /\ disk.sig \in Signed \cup {None} /\ kept.sig \in Signed \cup {None}
    /\ enforce => served \in Signed \cup {None}
    /\ \A s \in Syncers : enforce /\ pc[s] \in Verified => temp[s] \in Signed

\* The live file is the blob being served, except while a syncer is replacing it.
CacheInv ==
    /\ served # None /\ (\A s \in Syncers : pc[s] \notin Renamed) => disk.live = served
    /\ \A s \in Syncers : pc[s] \in Renamed => disk.live = temp[s]
    /\ \A s \in Syncers : pc[s] = "tag" /\ served # None => served = temp[s]

IInv == TypeOK /\ MutexInv /\ FileInv /\ SignInv /\ CacheInv

\* While the control plane only goes forward, nothing is newer than what it serves, and a
\* download is no older than what it replaces.
OrderInv ==
    /\ disk.live <= current /\ kept.live <= current /\ served <= current
    /\ \A s \in Syncers :
          pc[s] \in Downloaded /\ temp[s] # Torn =>
              temp[s] <= current /\ disk.live <= temp[s] /\ served <= temp[s]

\* A tag is never newer than the blob it is kept with, on the medium either where power
\* may fail.
MayLosePower == "power" \in kinds
FaultsApart == \A k \in FaultKinds : ~("dir" \in k /\ "power" \in k)
TagInv ==
    /\ kinds \in FaultKinds
    /\ disk.tag <= disk.live
    /\ served # None => etag <= served
    /\ served = None /\ phase # "closed" => etag = None
    /\ MayLosePower => /\ disk.tag <= kept.live
                       /\ kept.tag <= kept.live /\ kept.tag <= disk.live
    /\ \A s \in Syncers :
          /\ pc[s] \in Downloaded /\ temp[s] # Torn => newTag[s] <= temp[s]
          /\ pc[s] \in {"publish", "tag"} /\ MayLosePower => kept.live = temp[s]
          /\ pc[s] = "tag" /\ phase # "closed" => served # None

----------------------------------------------------------------------------
LEMMA SyncersFacts ==
    /\ Loop \in Syncers /\ NoOne \notin Syncers
    /\ \A s \in Syncers : s # Loop => s = Caller
    /\ None \notin Blobs /\ Torn \notin Blobs /\ Torn # None
    /\ Signed \subseteq Blobs
BY BlobsAssumption DEF Loop, NoOne, Syncers, Caller, None, Torn, Blobs

LEMMA OrderFacts ==
    /\ None = 0 /\ Torn = -1
    /\ \A b \in Blobs : b \in Int /\ b > 0
BY DEF None, Torn, Blobs

\* How a sync that installs nothing ends: the Synchronizer is gone, or its syncer is idle
\* or tries again.
Over(s) ==
    \/ Gone
    \/ /\ Returned(s)
       /\ UNCHANGED <<served, etag, enforce, cancelled, starts>>
       /\ attempt' \in 0 .. Attempts - 1
       /\ phase' = phase \/ (phase = "starting" /\ phase' = "running")
       /\ \E to \in {"idle", "lock"} : pc' = [pc EXCEPT ![s] = to]

EndOf(s) ==
    /\ pc[s] \in Holding /\ (pc[s] \in Renamed => phase = "closed")
    /\ Over(s)
    /\ UNCHANGED <<current, files>> /\ faults' \in 0 .. MaxFaults

LEMMA FailedIsOver ==
    ASSUME TypeOK, NEW s \in Syncers, NEW transient, Failed(s, transient)
    PROVE  Over(s)
<1>1. CASE phase # "starting" /\ Returned(s) /\ pc' = [pc EXCEPT ![s] = "idle"]
           /\ UNCHANGED <<process, served, etag>>
  BY <1>1 DEF Over, process, TypeOK
<1>2. CASE /\ phase = "starting" /\ transient /\ TryAgain
           /\ Returned(s)
           /\ attempt' = attempt + 1
           /\ pc' = [pc EXCEPT ![s] = "lock"]
           /\ UNCHANGED <<phase, enforce, cancelled, starts, served, etag>>
  BY <1>2 DEF Over, TypeOK, TryAgain, Attempts
<1>3. CASE /\ phase = "starting" /\ ~(transient /\ TryAgain) /\ served # None
           /\ Returned(s)
           /\ attempt' = 0 /\ phase' = "running"
           /\ pc' = [pc EXCEPT ![s] = "idle"]
           /\ UNCHANGED <<enforce, cancelled, starts, served, etag>>
  BY <1>3 DEF Over, Attempts
<1>4. CASE phase = "starting" /\ ~(transient /\ TryAgain) /\ served = None /\ Gone
  BY <1>4 DEF Over
<1> QED BY <1>1, <1>2, <1>3, <1>4 DEF Failed

LEMMA FaultBound ==
    ASSUME TypeOK, NEW k, Fault(k)
    PROVE  faults' \in 0 .. MaxFaults
BY BoundsAssumption DEF TypeOK, Fault

\* The steps of a syncer: it installs, or its sync is over.
Advance(s) ==
    \/ CallSync(s) \/ Request(s) \/ Download(s) \/ BadDownload(s) \/ SignatureOK(s)
    \/ Fsync(s) \/ OpenOK(s) \/ Rename(s) \/ WriteSig(s) \/ SyncDir(s) \/ Publish(s)
    \/ PersistETag(s)

LEMMA SyncCases ==
    ASSUME TypeOK, NEW s \in Syncers, Sync(s)
    PROVE  Advance(s) \/ EndOf(s)
<1>1. CASE NotModified(s)
  <2>1. Over(s)
    BY <1>1 DEF NotModified, Succeeded, Over, Attempts
  <2> QED BY <1>1, <2>1 DEF NotModified, Answered, EndOf, Holding, Renamed, TypeOK
<1>2. CASE RequestFails(s)
  BY <1>2, FailedIsOver, FaultBound DEF RequestFails, EndOf, Holding, Renamed
<1>3. CASE RequestCancelled(s)
  BY <1>3, FailedIsOver DEF RequestCancelled, EndOf, Holding, Renamed, TypeOK
<1>4. CASE SignatureRejected(s)
  BY <1>4, FailedIsOver DEF SignatureRejected, EndOf, Holding, Renamed, TypeOK
<1>5. CASE OpenRejected(s)
  BY <1>5, FailedIsOver DEF OpenRejected, EndOf, Holding, Renamed, TypeOK
<1>6. CASE FileFails(s)
  BY <1>6, FailedIsOver, FaultBound DEF FileFails, EndOf, Holding, Renamed
<1>7. CASE PublishRefused(s)
  BY <1>7, FailedIsOver DEF PublishRefused, EndOf, Holding, Renamed, TypeOK
<1> QED BY <1>1, <1>2, <1>3, <1>4, <1>5, <1>6, <1>7 DEF Sync, Install, Advance

----------------------------------------------------------------------------
\* Types.

LEMMA NoSyncerType ==
    ASSUME NEW T, NEW v \in T
    PROVE  NoSyncer(v) \in [Syncers -> T]
BY DEF NoSyncer

LEMMA InitType == Init => TypeOK
<1> SUFFICES ASSUME Init PROVE TypeOK
  OBVIOUS
<1>1. current \in Blobs /\ None \in Blobs \cup {None}
  BY BlobsAssumption DEF Init, Blobs
<1>2. disk \in Directory /\ kept \in Directory
  BY DEF Init, Directory
<1>3. attempt \in 0 .. Attempts - 1 /\ starts \in 0 .. MaxStarts /\ faults \in 0 .. MaxFaults
  BY BoundsAssumption DEF Init, Attempts
<1>4. /\ pc \in [Syncers -> {"idle", "load", "lock", "wait", "verify", "fsync", "open", "rename",
                             "sig", "dir", "publish", "tag"}]
      /\ cond \in [Syncers -> Blobs \cup {None}] /\ newTag \in [Syncers -> Blobs \cup {None}]
      /\ temp \in [Syncers -> Blobs \cup {None, Torn}] /\ tempSynced \in [Syncers -> BOOLEAN]
  BY NoSyncerType DEF Init
<1> QED BY <1>1, <1>2, <1>3, <1>4, ChoicesAssumption DEF Init, TypeOK

LEMMA GoneType ==
    ASSUME TypeOK, Gone, UNCHANGED current, disk' \in Directory, kept' \in Directory,
           liveSynced' \in BOOLEAN, faults' \in 0 .. MaxFaults
    PROVE  TypeOK'
<1>1. /\ pc' \in [Syncers -> {"idle", "load", "lock", "wait", "verify", "fsync", "open", "rename",
                              "sig", "dir", "publish", "tag"}]
      /\ cond' \in [Syncers -> Blobs \cup {None}] /\ newTag' \in [Syncers -> Blobs \cup {None}]
      /\ temp' \in [Syncers -> Blobs \cup {None, Torn}] /\ tempSynced' \in [Syncers -> BOOLEAN]
  BY NoSyncerType DEF Gone
<1>2. attempt' \in 0 .. Attempts - 1
  BY DEF Gone, Attempts
<1> QED BY <1>1, <1>2 DEF TypeOK, Gone

LEMMA StepType == TypeOK /\ FileInv /\ [Next]_vars => TypeOK'
<1> SUFFICES ASSUME TypeOK, FileInv, [Next]_vars PROVE TypeOK'
  OBVIOUS
<1> USE DEF files
<1>1. CASE UNCHANGED vars
  BY <1>1 DEF vars, process, locals, TypeOK
<1>2. CASE Release
  BY <1>2 DEF Release, process, locals, TypeOK
<1>3. CASE Start
  BY <1>3, SyncersFacts, ChoicesAssumption, BoundsAssumption DEF Start, locals, TypeOK
<1>4. CASE LoadCached
  BY <1>4, SyncersFacts DEF LoadCached, process, locals, TypeOK, Directory
<1>5. CASE Cancel
  BY <1>5 DEF Cancel, locals, TypeOK
<1>6. CASE CloseMap
  BY <1>6 DEF CloseMap, locals, TypeOK
<1>7. CASE Exit
  BY <1>7, GoneType DEF Exit, TypeOK
<1>8. CASE Crash
  <2>1. disk' \in Directory
    BY <1>8 DEF Crash, TypeOK, Directory
  <2> QED BY <1>8, <2>1, GoneType, FaultBound DEF Crash, TypeOK
<1>9. CASE PowerLoss
  <2>1. disk' \in Directory
    BY <1>9 DEF PowerLoss, TypeOK, Directory
  <2> QED BY <1>9, <2>1, GoneType, FaultBound DEF PowerLoss
<1>10. ASSUME NEW s \in Syncers, Advance(s) PROVE TypeOK'
  <2> USE DEF process, locals
  <2>1. CASE CallSync(s)
    BY <2>1 DEF CallSync, TypeOK
  <2>2. CASE Request(s)
    BY <2>2 DEF Request, TypeOK
  <2>3. CASE Download(s)
    BY <2>3 DEF Download, TypeOK
  <2>4. CASE BadDownload(s)
    BY <2>4, FaultBound, SyncersFacts DEF BadDownload, TypeOK
  <2>5. CASE SignatureOK(s)
    BY <2>5 DEF SignatureOK, Step, TypeOK
  <2>6. CASE Fsync(s)
    BY <2>6 DEF Fsync, Synced, Step, TypeOK
  <2>7. CASE OpenOK(s)
    BY <2>7 DEF OpenOK, Step, TypeOK
  <2>8. CASE Rename(s)
    <3>1. disk' \in Directory
      BY <2>8 DEF Rename, TypeOK, Directory
    <3> QED BY <2>8, <3>1 DEF Rename, Step, TypeOK
  <2>9. CASE WriteSig(s)
    <3>1. disk' \in Directory
      BY <2>9 DEF WriteSig, TypeOK, Directory
    <3>2. faults' \in 0 .. MaxFaults
      BY <2>9, FaultBound DEF WriteSig, TypeOK
    <3> QED BY <2>9, <3>1, <3>2 DEF WriteSig, Step, TypeOK
  <2>10. CASE SyncDir(s)
    <3>1. faults' \in 0 .. MaxFaults
      BY <2>10, FaultBound DEF SyncDir, TypeOK
    <3> QED BY <2>10, <3>1 DEF SyncDir, DirKept, Step, TypeOK
  <2>11. CASE Publish(s)
    <3>1. temp[s] \in Blobs
      BY <2>11 DEF Publish, Step, FileInv, Opened
    <3> QED BY <2>11, <3>1 DEF Publish, Step, TypeOK
  <2>12. CASE PersistETag(s)
    <3>1. disk' \in Directory
      BY <2>12 DEF PersistETag, TypeOK, Directory
    <3>2. faults' \in 0 .. MaxFaults
      BY <2>12, FaultBound DEF PersistETag, TypeOK
    <3> QED BY <2>12, <3>1, <3>2 DEF PersistETag, Succeeded, Returned, Attempts, TypeOK
  <2> QED BY <1>10, <2>1, <2>2, <2>3, <2>4, <2>5, <2>6, <2>7, <2>8, <2>9, <2>10, <2>11, <2>12 DEF Advance
<1>11. ASSUME NEW s \in Syncers, EndOf(s) PROVE TypeOK'
  <2>1. CASE Gone
    BY <1>11, <2>1, GoneType DEF EndOf, TypeOK
  <2>2. CASE ~Gone
    BY <1>11, <2>2 DEF EndOf, Over, Returned, TypeOK
  <2> QED BY <2>1, <2>2
<1> QED BY <1>1, <1>2, <1>3, <1>4, <1>5, <1>6, <1>7, <1>8, <1>9, <1>10, <1>11, SyncCases DEF Next
----------------------------------------------------------------------------
\* The parts of the invariant.

LEMMA StepMutex == TypeOK /\ MutexInv /\ [Next]_vars => MutexInv'
<1> SUFFICES ASSUME TypeOK, MutexInv, [Next]_vars PROVE MutexInv'
  OBVIOUS
<1> USE SyncersFacts DEF files, process, locals, MutexInv, TypeOK, Holding
<1>1. CASE UNCHANGED vars
  BY <1>1 DEF vars
<1>2. CASE Release
  BY <1>2 DEF Release
<1>3. CASE Start
  BY <1>3 DEF Start
<1>4. CASE LoadCached
  BY <1>4 DEF LoadCached, Verifies
<1>5. CASE Cancel
  BY <1>5 DEF Cancel
<1>6. CASE CloseMap
  BY <1>6 DEF CloseMap
<1>7. CASE Exit
  BY <1>7 DEF Exit, Gone, NoSyncer
<1>8. CASE Crash
  BY <1>8 DEF Crash, Gone, NoSyncer
<1>9. CASE PowerLoss
  BY <1>9 DEF PowerLoss, Gone, NoSyncer
<1>10. ASSUME NEW s \in Syncers, Advance(s) PROVE MutexInv'
  <2>1. CASE CallSync(s)
    BY <2>1 DEF CallSync
  <2>2. CASE Request(s)
    BY <2>2 DEF Request, MutexFree
  <2>3. CASE Download(s)
    BY <2>3 DEF Download, Answered
  <2>4. CASE BadDownload(s)
    BY <2>4 DEF BadDownload, Answered
  <2>5. CASE SignatureOK(s)
    BY <2>5 DEF SignatureOK, Verifies, Step
  <2>6. CASE Fsync(s)
    BY <2>6 DEF Fsync, Synced, Step
  <2>7. CASE OpenOK(s)
    BY <2>7 DEF OpenOK, Step
  <2>8. CASE Rename(s)
    BY <2>8 DEF Rename, Step
  <2>9. CASE WriteSig(s)
    BY <2>9 DEF WriteSig, Step
  <2>10. CASE SyncDir(s)
    BY <2>10 DEF SyncDir, DirKept, Fault, Step
  <2>11. CASE Publish(s)
    BY <2>11 DEF Publish, Step
  <2>12. CASE PersistETag(s)
    BY <2>12 DEF PersistETag, Succeeded, Returned
  <2> QED BY <1>10, <2>1, <2>2, <2>3, <2>4, <2>5, <2>6, <2>7, <2>8, <2>9, <2>10, <2>11, <2>12 DEF
       Advance
<1>11. ASSUME NEW s \in Syncers, EndOf(s) PROVE MutexInv'
  <2>1. CASE Gone
    BY <1>11, <2>1 DEF EndOf, Gone, NoSyncer
  <2>2. CASE ~Gone
    BY <1>11, <2>2 DEF EndOf, Over, Returned
  <2> QED BY <2>1, <2>2
<1> QED BY <1>1, <1>2, <1>3, <1>4, <1>5, <1>6, <1>7, <1>8, <1>9, <1>10, <1>11, SyncCases DEF Next

LEMMA StepFile == TypeOK /\ MutexInv /\ FileInv /\ [Next]_vars => FileInv'
<1> SUFFICES ASSUME TypeOK, MutexInv, FileInv, [Next]_vars PROVE FileInv'
  OBVIOUS
<1> USE SyncersFacts DEF files, process, locals, FileInv, TypeOK, Holding, Downloaded, Opened,
     Directory
<1>1. CASE UNCHANGED vars
  BY <1>1 DEF vars
<1>2. CASE Release
  BY <1>2 DEF Release
<1>3. CASE Start
  BY <1>3 DEF Start
<1>4. CASE LoadCached
  BY <1>4 DEF LoadCached, Verifies
<1>5. CASE Cancel
  BY <1>5 DEF Cancel
<1>6. CASE CloseMap
  BY <1>6 DEF CloseMap
<1>7. CASE Exit
  BY <1>7 DEF Exit, Gone, NoSyncer
<1>8. CASE Crash
  BY <1>8 DEF Crash, Gone, NoSyncer
<1>9. CASE PowerLoss
  BY <1>9 DEF PowerLoss, Gone, NoSyncer
<1>10. ASSUME NEW s \in Syncers, Advance(s) PROVE FileInv'
  <2>1. CASE CallSync(s)
    BY <2>1 DEF CallSync
  <2>2. CASE Request(s)
    BY <2>2 DEF Request, MutexFree
  <2>3. CASE Download(s)
    BY <2>3 DEF Download, Answered
  <2>4. CASE BadDownload(s)
    BY <2>4 DEF BadDownload, Answered
  <2>5. CASE SignatureOK(s)
    BY <2>5 DEF SignatureOK, Verifies, Step
  <2>6. CASE Fsync(s)
    BY <2>6 DEF Fsync, Synced, Step
  <2>7. CASE OpenOK(s)
    BY <2>7 DEF OpenOK, Step
  <2>8. CASE Rename(s)
    BY <2>8 DEF Rename, Step
  <2>9. CASE WriteSig(s)
    BY <2>9 DEF WriteSig, Step
  <2>10. CASE SyncDir(s)
    BY <2>10 DEF SyncDir, DirKept, Fault, Step
  <2>11. CASE Publish(s)
    BY <2>11 DEF Publish, Step
  <2>12. CASE PersistETag(s)
    BY <2>12 DEF PersistETag, Succeeded, Returned
  <2> QED BY <1>10, <2>1, <2>2, <2>3, <2>4, <2>5, <2>6, <2>7, <2>8, <2>9, <2>10, <2>11, <2>12 DEF
       Advance
<1>11. ASSUME NEW s \in Syncers, EndOf(s) PROVE FileInv'
  <2>1. CASE Gone
    BY <1>11, <2>1 DEF EndOf, Gone, NoSyncer
  <2>2. CASE ~Gone
    BY <1>11, <2>2 DEF EndOf, Over, Returned
  <2> QED BY <2>1, <2>2
<1> QED BY <1>1, <1>2, <1>3, <1>4, <1>5, <1>6, <1>7, <1>8, <1>9, <1>10, <1>11, SyncCases DEF Next

LEMMA StepSign == TypeOK /\ MutexInv /\ FileInv /\ SignInv /\ [Next]_vars => SignInv'
<1> SUFFICES ASSUME TypeOK, MutexInv, FileInv, SignInv, [Next]_vars PROVE SignInv'
  OBVIOUS
<1> USE SyncersFacts DEF files, process, locals, SignInv, MutexInv, TypeOK, Holding, Downloaded,
     Verified, Directory
<1>1. CASE UNCHANGED vars
  BY <1>1 DEF vars
<1>2. CASE Release
  BY <1>2 DEF Release
<1>3. CASE Start
  BY <1>3 DEF Start
<1>4. CASE LoadCached
  BY <1>4 DEF LoadCached, Verifies
<1>5. CASE Cancel
  BY <1>5 DEF Cancel
<1>6. CASE CloseMap
  BY <1>6 DEF CloseMap
<1>7. CASE Exit
  BY <1>7 DEF Exit, Gone, NoSyncer
<1>8. CASE Crash
  BY <1>8 DEF Crash, Gone, NoSyncer
<1>9. CASE PowerLoss
  BY <1>9 DEF PowerLoss, Gone, NoSyncer
<1>10. ASSUME NEW s \in Syncers, Advance(s) PROVE SignInv'
  <2>1. CASE CallSync(s)
    BY <2>1 DEF CallSync
  <2>2. CASE Request(s)
    BY <2>2 DEF Request, MutexFree
  <2>3. CASE Download(s)
    BY <2>3 DEF Download, Answered
  <2>4. CASE BadDownload(s)
    BY <2>4 DEF BadDownload, Answered
  <2>5. CASE SignatureOK(s)
    BY <2>5 DEF SignatureOK, Verifies, Step
  <2>6. CASE Fsync(s)
    BY <2>6 DEF Fsync, Synced, Step
  <2>7. CASE OpenOK(s)
    BY <2>7 DEF OpenOK, Step
  <2>8. CASE Rename(s)
    BY <2>8 DEF Rename, Step
  <2>9. CASE WriteSig(s)
    BY <2>9 DEF WriteSig, Step
  <2>10. CASE SyncDir(s)
    BY <2>10 DEF SyncDir, DirKept, Fault, Step
  <2>11. CASE Publish(s)
    BY <2>11 DEF Publish, Step
  <2>12. CASE PersistETag(s)
    BY <2>12 DEF PersistETag, Succeeded, Returned
  <2> QED BY <1>10, <2>1, <2>2, <2>3, <2>4, <2>5, <2>6, <2>7, <2>8, <2>9, <2>10, <2>11, <2>12 DEF
       Advance
<1>11. ASSUME NEW s \in Syncers, EndOf(s) PROVE SignInv'
  <2>1. CASE Gone
    BY <1>11, <2>1 DEF EndOf, Gone, NoSyncer
  <2>2. CASE ~Gone
    BY <1>11, <2>2 DEF EndOf, Over, Returned
  <2> QED BY <2>1, <2>2
<1> QED BY <1>1, <1>2, <1>3, <1>4, <1>5, <1>6, <1>7, <1>8, <1>9, <1>10, <1>11, SyncCases DEF Next

LEMMA StepCache == TypeOK /\ MutexInv /\ FileInv /\ CacheInv /\ [Next]_vars => CacheInv'
<1> SUFFICES ASSUME TypeOK, MutexInv, FileInv, CacheInv, [Next]_vars PROVE CacheInv'
  OBVIOUS
<1> USE SyncersFacts DEF files, process, locals, CacheInv, MutexInv, TypeOK, Holding, Renamed,
     Directory
<1>1. CASE UNCHANGED vars
  BY <1>1 DEF vars
<1>2. CASE Release
  BY <1>2 DEF Release
<1>3. CASE Start
  BY <1>3 DEF Start
<1>4. CASE LoadCached
  BY <1>4 DEF LoadCached, Verifies
<1>5. CASE Cancel
  BY <1>5 DEF Cancel
<1>6. CASE CloseMap
  BY <1>6 DEF CloseMap
<1>7. CASE Exit
  BY <1>7 DEF Exit, Gone, NoSyncer
<1>8. CASE Crash
  BY <1>8 DEF Crash, Gone, NoSyncer
<1>9. CASE PowerLoss
  BY <1>9 DEF PowerLoss, Gone, NoSyncer
<1>10. ASSUME NEW s \in Syncers, Advance(s) PROVE CacheInv'
  <2>1. CASE CallSync(s)
    BY <2>1 DEF CallSync
  <2>2. CASE Request(s)
    BY <2>2 DEF Request, MutexFree
  <2>3. CASE Download(s)
    BY <2>3 DEF Download, Answered
  <2>4. CASE BadDownload(s)
    BY <2>4 DEF BadDownload, Answered
  <2>5. CASE SignatureOK(s)
    BY <2>5 DEF SignatureOK, Verifies, Step
  <2>6. CASE Fsync(s)
    BY <2>6 DEF Fsync, Synced, Step
  <2>7. CASE OpenOK(s)
    BY <2>7 DEF OpenOK, Step
  <2>8. CASE Rename(s)
    BY <2>8 DEF Rename, Step
  <2>9. CASE WriteSig(s)
    BY <2>9 DEF WriteSig, Step
  <2>10. CASE SyncDir(s)
    BY <2>10 DEF SyncDir, DirKept, Fault, Step
  <2>11. CASE Publish(s)
    BY <2>11 DEF Publish, Step
  <2>12. CASE PersistETag(s)
    BY <2>12 DEF PersistETag, Succeeded, Returned
  <2> QED BY <1>10, <2>1, <2>2, <2>3, <2>4, <2>5, <2>6, <2>7, <2>8, <2>9, <2>10, <2>11, <2>12 DEF
       Advance
<1>11. ASSUME NEW s \in Syncers, EndOf(s) PROVE CacheInv'
  <2>1. CASE Gone
    BY <1>11, <2>1 DEF EndOf, Gone, NoSyncer
  <2>2. CASE ~Gone
    BY <1>11, <2>2 DEF EndOf, Over, Returned
  <2> QED BY <2>1, <2>2
<1> QED BY <1>1, <1>2, <1>3, <1>4, <1>5, <1>6, <1>7, <1>8, <1>9, <1>10, <1>11, SyncCases DEF Next

LEMMA StepOrder == Rollback = FALSE /\ TypeOK /\ MutexInv /\ FileInv /\ CacheInv /\ OrderInv /\
     [Next]_vars => OrderInv'
<1> SUFFICES ASSUME Rollback = FALSE, TypeOK, MutexInv, FileInv, CacheInv, OrderInv, [Next]_vars
     PROVE OrderInv'
  OBVIOUS
<1> USE SyncersFacts, OrderFacts DEF files, process, locals, OrderInv, MutexInv, FileInv, CacheInv,
     TypeOK, Holding, Downloaded, Opened, Renamed, Directory
<1>1. CASE UNCHANGED vars
  BY <1>1 DEF vars
<1>2. CASE Release
  BY <1>2 DEF Release
<1>3. CASE Start
  BY <1>3 DEF Start
<1>4. CASE LoadCached
  BY <1>4 DEF LoadCached, Verifies
<1>5. CASE Cancel
  BY <1>5 DEF Cancel
<1>6. CASE CloseMap
  BY <1>6 DEF CloseMap
<1>7. CASE Exit
  BY <1>7 DEF Exit, Gone, NoSyncer
<1>8. CASE Crash
  BY <1>8 DEF Crash, Gone, NoSyncer
<1>9. CASE PowerLoss
  BY <1>9 DEF PowerLoss, Gone, NoSyncer
<1>10. ASSUME NEW s \in Syncers, Advance(s) PROVE OrderInv'
  <2>1. CASE CallSync(s)
    BY <2>1 DEF CallSync
  <2>2. CASE Request(s)
    BY <2>2 DEF Request, MutexFree
  <2>3. CASE Download(s)
    BY <2>3 DEF Download, Answered
  <2>4. CASE BadDownload(s)
    BY <2>4 DEF BadDownload, Answered
  <2>5. CASE SignatureOK(s)
    BY <2>5 DEF SignatureOK, Verifies, Step
  <2>6. CASE Fsync(s)
    BY <2>6 DEF Fsync, Synced, Step
  <2>7. CASE OpenOK(s)
    BY <2>7 DEF OpenOK, Step
  <2>8. CASE Rename(s)
    BY <2>8 DEF Rename, Step
  <2>9. CASE WriteSig(s)
    BY <2>9 DEF WriteSig, Step
  <2>10. CASE SyncDir(s)
    BY <2>10 DEF SyncDir, DirKept, Fault, Step
  <2>11. CASE Publish(s)
    BY <2>11 DEF Publish, Step
  <2>12. CASE PersistETag(s)
    BY <2>12 DEF PersistETag, Succeeded, Returned
  <2> QED BY <1>10, <2>1, <2>2, <2>3, <2>4, <2>5, <2>6, <2>7, <2>8, <2>9, <2>10, <2>11, <2>12 DEF
       Advance
<1>11. ASSUME NEW s \in Syncers, EndOf(s) PROVE OrderInv'
  <2>1. CASE Gone
    BY <1>11, <2>1 DEF EndOf, Gone, NoSyncer
  <2>2. CASE ~Gone
    BY <1>11, <2>2 DEF EndOf, Over, Returned
  <2> QED BY <2>1, <2>2
<1> QED BY <1>1, <1>2, <1>3, <1>4, <1>5, <1>6, <1>7, <1>8, <1>9, <1>10, <1>11, SyncCases DEF Next

LEMMA StepTag == FaultsApart /\ TypeOK /\ MutexInv /\ FileInv /\ CacheInv /\ OrderInv /\ TagInv /\
     [Next]_vars => TagInv'
<1> SUFFICES ASSUME FaultsApart, TypeOK, MutexInv, FileInv, CacheInv, OrderInv, TagInv, [Next]_vars
     PROVE TagInv'
  OBVIOUS
<1>0. kinds' = kinds
  BY DEF Next, vars
<1> USE SyncersFacts, OrderFacts, <1>0 DEF files, process, locals, TagInv, MayLosePower,
     FaultsApart, OrderInv, MutexInv, FileInv, CacheInv, TypeOK, Holding, Downloaded, Opened,
     Renamed, Directory
<1>1. CASE UNCHANGED vars
  BY <1>1 DEF vars
<1>2. CASE Release
  BY <1>2 DEF Release
<1>3. CASE Start
  BY <1>3 DEF Start
<1>4. CASE LoadCached
  BY <1>4 DEF LoadCached, Verifies
<1>5. CASE Cancel
  BY <1>5 DEF Cancel
<1>6. CASE CloseMap
  BY <1>6 DEF CloseMap
<1>7. CASE Exit
  BY <1>7 DEF Exit, Gone, NoSyncer
<1>8. CASE Crash
  BY <1>8 DEF Crash, Gone, NoSyncer
<1>9. CASE PowerLoss
  <2>1. MayLosePower /\ disk.live # Torn /\ kept.live # Torn /\ liveSynced
    BY <1>9 DEF PowerLoss, Fault, MayLosePower, FileInv
  <2>2. PICK live \in {kept.live, disk.live}, tag \in {disk.tag, kept.tag, None} :
            disk'.live = live /\ disk'.tag = tag
    BY <1>9, <2>1 DEF PowerLoss
  <2>3. live \in Int /\ tag \in Int /\ live >= 0 /\ tag <= live
    BY <2>1, <2>2, SyncersFacts, OrderFacts DEF TagInv, TypeOK, Directory
  <2>4. kept' = disk' /\ served' = None /\ etag' = None /\ \A s \in Syncers : pc'[s] = "idle"
    BY <1>9 DEF PowerLoss, Gone, NoSyncer
  <2> QED BY <1>0, <2>2, <2>3, <2>4 DEF TagInv, MayLosePower, Downloaded, Holding
<1>10. ASSUME NEW s \in Syncers, Advance(s) PROVE TagInv'
  <2>1. CASE CallSync(s)
    BY <2>1 DEF CallSync
  <2>2. CASE Request(s)
    BY <2>2 DEF Request, MutexFree
  <2>3. CASE Download(s)
    BY <2>3 DEF Download, Answered
  <2>4. CASE BadDownload(s)
    BY <2>4 DEF BadDownload, Answered
  <2>5. CASE SignatureOK(s)
    BY <2>5 DEF SignatureOK, Verifies, Step
  <2>6. CASE Fsync(s)
    BY <2>6 DEF Fsync, Synced, Step
  <2>7. CASE OpenOK(s)
    BY <2>7 DEF OpenOK, Step
  <2>8. CASE Rename(s)
    BY <2>8 DEF Rename, Step
  <2>9. CASE WriteSig(s)
    BY <2>9 DEF WriteSig, Step
  <2>10. CASE SyncDir(s)
    BY <2>10 DEF SyncDir, DirKept, Fault, Step
  <2>11. CASE Publish(s)
    BY <2>11 DEF Publish, Step
  <2>12. CASE PersistETag(s)
    BY <2>12 DEF PersistETag, Succeeded, Returned
  <2> QED BY <1>10, <2>1, <2>2, <2>3, <2>4, <2>5, <2>6, <2>7, <2>8, <2>9, <2>10, <2>11, <2>12 DEF
       Advance
<1>11. ASSUME NEW s \in Syncers, EndOf(s) PROVE TagInv'
  <2>1. CASE Gone
    BY <1>11, <2>1 DEF EndOf, Gone, NoSyncer
  <2>2. CASE ~Gone
    BY <1>11, <2>2 DEF EndOf, Over, Returned
  <2> QED BY <2>1, <2>2
<1> QED BY <1>1, <1>2, <1>3, <1>4, <1>5, <1>6, <1>7, <1>8, <1>9, <1>10, <1>11, SyncCases DEF Next

----------------------------------------------------------------------------
\* Theorems.

LEMMA InitIInv == Init => IInv
<1> SUFFICES ASSUME Init PROVE IInv
  OBVIOUS
<1>1. \A s \in Syncers : pc[s] = "idle" /\ syncMu # s
  BY SyncersFacts DEF Init, NoSyncer
<1>2. MutexInv
  BY <1>1, SyncersFacts DEF Init, MutexInv, Holding
<1>3. FileInv
  BY <1>1, SyncersFacts DEF Init, FileInv, Downloaded, Holding, Opened
<1>4. SignInv
  BY <1>1 DEF Init, SignInv, Verified, Downloaded, Holding
<1>5. CacheInv
  BY <1>1 DEF Init, CacheInv, Renamed
<1> QED BY <1>2, <1>3, <1>4, <1>5, InitType DEF IInv

LEMMA Invariance == Spec => []IInv
<1>1. IInv /\ [Next]_vars => IInv'
  BY StepType, StepMutex, StepFile, StepSign, StepCache DEF IInv
<1> QED BY InitIInv, <1>1, PTL DEF Spec

\* Every variable keeps its type, for any number of versions, starts and faults.
THEOREM TypeCorrect == Spec => []TypeOK
<1>1. IInv => TypeOK
  BY DEF IInv
<1> QED BY Invariance, <1>1, PTL

\* installFrom never leaves an incomplete blob at the live path, whatever was downloaded
\* and wherever a process or the power stopped.
THEOREM LiveStaysIntact == Spec => []LiveIntact
<1>1. IInv => LiveIntact
  BY DEF IInv, FileInv, LiveIntact
<1> QED BY Invariance, <1>1, PTL

\* With signing enforced the Map serves signed blobs only: verifySignature for downloads
\* and verifyCached for files an unenforced run may have left.
THEOREM OnlySignedServed == Spec => []ServedSigned
<1>1. IInv => ServedSigned
  BY DEF IInv, SignInv, ServedSigned
<1> QED BY Invariance, <1>1, PTL

\* While no sync is in progress the live file is the blob the Map serves.
THEOREM CacheIsTheServedBlob == Spec => []CacheIsServed
<1>1. IInv => CacheIsServed
  <2> SUFFICES ASSUME IInv, served # None, syncMu = NoOne PROVE disk.live = served
    BY DEF CacheIsServed
  <2>1. \A s \in Syncers : pc[s] \notin Renamed
    BY SyncersFacts DEF IInv, MutexInv, Holding, Renamed
  <2> QED BY <2>1 DEF IInv, CacheInv
<1> QED BY Invariance, <1>1, PTL

LEMMA Ordered ==
    ASSUME Rollback = FALSE
    PROVE  Spec => []OrderInv
<1>1. Init => OrderInv
  BY SyncersFacts, OrderFacts DEF Init, NoSyncer, OrderInv, Downloaded, Holding
<1>2. IInv /\ OrderInv /\ [Next]_vars => OrderInv'
  BY StepOrder DEF IInv
<1> QED BY Invariance, <1>1, <1>2, PTL DEF Spec

\* While the control plane only goes forward, a process never replaces the blob it serves
\* by an older one, although manual syncs, the poll loop and Close overlap.
THEOREM NeverStepsBack ==
    ASSUME Rollback = FALSE
    PROVE  Spec => NoStepBack
<1>1. IInv /\ OrderInv /\ [Next]_vars =>
          [served # None /\ served' # None => served' >= served]_vars
  <2> SUFFICES ASSUME IInv, OrderInv, Next, served # None, served' # None
               PROVE  served' >= served
    BY DEF IInv, TypeOK, vars
  <2>1. served \in Int
    BY OrderFacts DEF IInv, TypeOK
  <2>2. CASE UNCHANGED served
    BY <2>1, <2>2
  <2>3. CASE LoadCached
    BY <2>3, SyncersFacts DEF LoadCached, IInv, MutexInv
  <2>4. ASSUME NEW s \in Syncers, Publish(s) PROVE served' >= served
    BY <2>4, SyncersFacts DEF Publish, Step, IInv, FileInv, OrderInv, Opened, Downloaded, Holding
  <2>5. ASSUME NEW s \in Syncers, Advance(s), ~Publish(s) PROVE UNCHANGED served
    BY <2>5 DEF Advance, CallSync, Request, Download, BadDownload, SignatureOK, Fsync, OpenOK,
         Rename, WriteSig, SyncDir, PersistETag
  <2>6. ASSUME NEW s \in Syncers, EndOf(s) PROVE UNCHANGED served
    BY <2>6 DEF EndOf, Over, Gone
  <2>7. CASE Release \/ Start \/ Cancel
    BY <2>2, <2>7 DEF Release, Start, Cancel
  <2>8. CASE CloseMap \/ Exit \/ Crash \/ PowerLoss
    BY <2>8 DEF CloseMap, Exit, Crash, PowerLoss, Gone
  <2> QED BY <2>2, <2>3, <2>4, <2>5, <2>6, <2>7, <2>8, SyncCases DEF Next, IInv
<1> QED BY Invariance, Ordered, <1>1, PTL DEF Spec, NoStepBack

\* While the control plane only goes forward, the saved ETag never names a newer blob than
\* the live file and Synchronizer.etag none newer than the served one, so If-None-Match
\* skips no version: after crashes and failed writes, and after power losses unless a
\* directory sync failed before.
THEOREM TagsAreNotNewer ==
    ASSUME Rollback = FALSE, FaultsApart
    PROVE  Spec => []TagNotNewer
<1>1. Init => TagInv
  BY SyncersFacts, OrderFacts DEF Init, NoSyncer, TagInv, Downloaded, Holding
<1>2. IInv /\ OrderInv /\ TagInv /\ [Next]_vars => TagInv'
  BY StepTag DEF IInv
<1>3. TagInv => TagNotNewer
  BY DEF TagInv, TagNotNewer
<1> QED BY Invariance, Ordered, <1>1, <1>2, <1>3, PTL DEF Spec
=============================================================================
