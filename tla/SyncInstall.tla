----------------------------- MODULE SyncInstall -----------------------------
(****************************************************************************)
(* The Synchronizer's download, validation and installation of a stash's    *)
(* blob (sync.go, signature.go): a start loads the cached file and syncs,   *)
(* the poll loop and callers of Sync fetch new versions, and each install   *)
(* goes through a temporary file, a signature check, fsync, validation,     *)
(* rename, publish and the saved ETag.  Processes crash and restart, power  *)
(* fails, requests and writes fail, and Close runs meanwhile.               *)
(*                                                                          *)
(* A blob is its number; its ETag is the same number and its signature is   *)
(* the number of the blob it signs for this stash.  Publishing is one step  *)
(* here: HotSwap has its details.                                           *)
(****************************************************************************)
EXTENDS Integers, FiniteSets

CONSTANTS
    NumBlobs,    \* versions the control plane publishes
    Signed,      \* those it signs
    Enforcing,   \* what a start may choose for signingEnforced
    Rollback,    \* the control plane may go back to an older version
    ManualSync,  \* the application calls Sync itself, too
    FaultKinds,  \* sets of "net", "io", "dir" (the directory cannot be synced), "crash" and
                 \* "power": the kinds of fault a behaviour may have
    MaxStarts,   \* bound: starts of a Synchronizer
    MaxFaults    \* bound: crashes, power losses, failed requests and writes

Blobs == 1 .. NumBlobs
None == 0        \* no file, no ETag, no signature, no mapping
Torn == -1       \* an incomplete or corrupted file

ASSUME BlobsAssumption == NumBlobs \in Nat \ {0} /\ Signed \subseteq Blobs
ASSUME ChoicesAssumption == Enforcing \subseteq BOOLEAN /\ Rollback \in BOOLEAN /\ ManualSync \in BOOLEAN
ASSUME BoundsAssumption == MaxStarts \in Nat /\ MaxFaults \in Nat

Loop == "loop"          \* NewSynchronizer, then the poll goroutine
Caller == "caller"      \* an application goroutine that calls Sync
Syncers == IF ManualSync THEN {Loop, Caller} ELSE {Loop}
NoOne == "none"
Attempts == 3           \* initial syncs NewSynchronizer tries

VARIABLES
    current,     \* the version the control plane serves
    disk,        \* the cache directory: live blob, saved signature, saved ETag
    kept,        \* the state of the directory that is surely on the medium
    liveSynced,  \* the bytes of the live blob are on the medium
    phase,       \* of the process: down, starting, running, closed
    enforce,     \* signingEnforced()
    served,      \* the blob the Map serves
    etag,        \* Synchronizer.etag
    pendingSig,  \* Synchronizer.pendingSig
    syncMu,      \* the holder of syncMu
    cancelled,   \* ctx is done: Close was called
    attempt,     \* of the initial sync
    pc,          \* of a syncer
    cond,        \* its If-None-Match
    temp, tempSynced,  \* its download, and whether it was fsynced
    newTag,      \* the ETag header of its answer
    starts, faults, kinds

process == <<phase, enforce, cancelled, attempt, starts>>
locals == <<cond, temp, tempSynced, newTag>>
files == <<disk, kept, liveSynced>>
vars == <<current, files, process, served, etag, pendingSig, syncMu, pc, locals, faults, kinds>>

NoSyncer(v) == [s \in Syncers |-> v]

Init ==
    /\ current = 1
    /\ disk = [live |-> None, sig |-> None, tag |-> None] /\ kept = disk
    /\ liveSynced = TRUE
    /\ phase = "down" /\ enforce \in Enforcing /\ cancelled = FALSE
    /\ attempt = 0 /\ starts = 0 /\ faults = 0 /\ kinds \in FaultKinds
    /\ served = None /\ etag = None /\ pendingSig = None /\ syncMu = NoOne
    /\ pc = NoSyncer("idle") /\ cond = NoSyncer(None) /\ temp = NoSyncer(None)
    /\ tempSynced = NoSyncer(FALSE) /\ newTag = NoSyncer(None)

----------------------------------------------------------------------------
\* The control plane.
Release ==
    /\ \E b \in Blobs : b # current /\ (b > current \/ Rollback) /\ current' = b
    /\ UNCHANGED <<files, process, served, etag, pendingSig, syncMu, pc, locals, faults>>

\* A fault of kind k happens.
Fault(k) == k \in kinds /\ faults < MaxFaults /\ faults' = faults + 1

----------------------------------------------------------------------------
\* Starting: NewSynchronizer and loadCached.

\* A new Synchronizer: the directory exists, stale temporary files are removed.
Start ==
    /\ phase = "down" /\ starts < MaxStarts
    /\ starts' = starts + 1
    /\ enforce' \in Enforcing
    /\ phase' = "starting"
    /\ pc' = [pc EXCEPT ![Loop] = "load"]
    /\ UNCHANGED <<current, files, served, etag, pendingSig, syncMu, cancelled, attempt,
                   locals, faults>>

\* mutant: the cached file is not checked against its signature.
NotChecked(b, sig) == TRUE
\* verifySignature of a file's digest.
Verifies(b, sig) == b \in Blobs /\ sig = b

\* loadCached publishes the live file if it verifies and is intact.
LoadCached ==
    /\ pc[Loop] = "load"
    /\ IF disk.live \in Blobs /\ (enforce => Verifies(disk.live, disk.sig))
       THEN served' = disk.live /\ etag' = disk.tag
       ELSE UNCHANGED <<served, etag>>
    /\ pc' = [pc EXCEPT ![Loop] = "lock"]
    /\ UNCHANGED <<current, files, process, pendingSig, syncMu, locals, faults>>

----------------------------------------------------------------------------
\* Sync by syncer s.

\* The poll timer fires; the application calls Sync, even on a closed Synchronizer.
CallSync(s) ==
    /\ pc[s] = "idle"
    /\ \/ s = Loop /\ phase = "running" /\ ~cancelled
       \/ s = Caller /\ phase \in {"running", "closed"}
    /\ pc' = [pc EXCEPT ![s] = "lock"]
    /\ UNCHANGED <<current, files, process, served, etag, pendingSig, syncMu, locals, faults>>

\* mutant: syncs are not serialised.
NoMutex == TRUE
MutexFree == syncMu = NoOne

\* syncMu.Lock() and the request, conditional if a blob is being served.
Request(s) ==
    /\ pc[s] = "lock" /\ MutexFree
    /\ syncMu' = s
    /\ cond' = [cond EXCEPT ![s] = IF served # None THEN etag ELSE None]
    /\ pc' = [pc EXCEPT ![s] = "wait"]
    /\ UNCHANGED <<current, files, process, served, etag, pendingSig, temp, tempSynced,
                   newTag, faults>>

TryAgain == attempt + 1 < Attempts

\* The syncer's locals are gone, its temporary file is removed and syncMu released.
Returned(s) ==
    /\ temp' = [temp EXCEPT ![s] = None]
    /\ tempSynced' = [tempSynced EXCEPT ![s] = FALSE]
    /\ cond' = [cond EXCEPT ![s] = None]
    /\ newTag' = [newTag EXCEPT ![s] = None]
    /\ syncMu' = NoOne
    /\ pendingSig' = None

\* The Synchronizer is gone: its process ended, or its start failed.
Gone ==
    /\ phase' = "down" /\ cancelled' = FALSE /\ attempt' = 0
    /\ served' = None /\ etag' = None /\ pendingSig' = None /\ syncMu' = NoOne
    /\ pc' = NoSyncer("idle") /\ cond' = NoSyncer(None) /\ temp' = NoSyncer(None)
    /\ tempSynced' = NoSyncer(FALSE) /\ newTag' = NoSyncer(None)
    /\ UNCHANGED <<enforce, starts>>

\* Sync returns an error.  A starting Synchronizer tries again if it may be transient;
\* otherwise it serves the cached blob, or fails without one.
Failed(s, transient) ==
    \/ /\ phase # "starting"
       /\ Returned(s)
       /\ pc' = [pc EXCEPT ![s] = "idle"]
       /\ UNCHANGED <<process, served, etag>>
    \/ /\ phase = "starting" /\ transient /\ TryAgain
       /\ Returned(s)
       /\ attempt' = attempt + 1
       /\ pc' = [pc EXCEPT ![s] = "lock"]
       /\ UNCHANGED <<phase, enforce, cancelled, starts, served, etag>>
    \/ /\ phase = "starting" /\ ~(transient /\ TryAgain) /\ served # None
       /\ Returned(s)
       /\ attempt' = 0 /\ phase' = "running"
       /\ pc' = [pc EXCEPT ![s] = "idle"]
       /\ UNCHANGED <<enforce, cancelled, starts, served, etag>>
    \/ /\ phase = "starting" /\ ~(transient /\ TryAgain) /\ served = None
       /\ Gone

\* Sync returns nil.
Succeeded(s) ==
    /\ Returned(s)
    /\ pc' = [pc EXCEPT ![s] = "idle"]
    /\ attempt' = 0
    /\ phase' = IF phase = "starting" THEN "running" ELSE phase
    /\ UNCHANGED <<enforce, cancelled, starts>>

\* A request of the poll loop is answered only until Close cancels its context.
Answered(s) == pc[s] = "wait" /\ ~(s = Loop /\ cancelled)

NotModified(s) ==
    /\ Answered(s) /\ cond[s] = current
    /\ Succeeded(s)
    /\ UNCHANGED <<current, files, served, etag, faults>>

\* A status other than 200 and 304, which NewSynchronizer does not retry; no answer; a
\* body that ends early.
RequestFails(s) ==
    /\ pc[s] = "wait" /\ Fault("net")
    /\ \E transient \in BOOLEAN : Failed(s, transient)
    /\ UNCHANGED <<current, files>>

RequestCancelled(s) ==
    /\ pc[s] = "wait" /\ s = Loop /\ cancelled
    /\ Failed(s, TRUE)
    /\ UNCHANGED <<current, files, faults>>

\* 200: the body is in the temporary file, the headers are pendingSig and ETag, which
\* the server may not send.
Download(s) ==
    /\ Answered(s) /\ cond[s] # current
    /\ temp' = [temp EXCEPT ![s] = current]
    /\ pendingSig' = IF current \in Signed THEN current ELSE None
    /\ \E t \in {current, None} : newTag' = [newTag EXCEPT ![s] = t]
    /\ pc' = [pc EXCEPT ![s] = "verify"]
    /\ UNCHANGED <<current, files, process, served, etag, syncMu, cond, tempSynced, faults>>

\* 200 with a corrupted body, or with the signature of another file or none.
BadDownload(s) ==
    /\ Answered(s) /\ cond[s] # current /\ Fault("net")
    /\ \E t \in {current, Torn}, g \in Signed \cup {None} :
          /\ temp' = [temp EXCEPT ![s] = t]
          /\ pendingSig' = g
    /\ newTag' = [newTag EXCEPT ![s] = current]
    /\ pc' = [pc EXCEPT ![s] = "verify"]
    /\ UNCHANGED <<current, files, process, served, etag, syncMu, cond, tempSynced>>

----------------------------------------------------------------------------
\* installFrom, once the body is in the temporary file.

Step(s, from, to) == pc[s] = from /\ pc' = [pc EXCEPT ![s] = to]

SignatureOK(s) ==
    /\ Step(s, "verify", "fsync")
    /\ enforce => Verifies(temp[s], pendingSig)
    /\ UNCHANGED <<current, files, process, served, etag, pendingSig, syncMu, locals, faults>>

SignatureRejected(s) ==
    /\ pc[s] = "verify" /\ enforce /\ ~Verifies(temp[s], pendingSig)
    /\ Failed(s, TRUE)
    /\ UNCHANGED <<current, files, faults>>

\* mutant: the file is not synced before it is renamed.
NotSynced == FALSE
Synced == TRUE

Fsync(s) ==
    /\ Step(s, "fsync", "open")
    /\ tempSynced' = [tempSynced EXCEPT ![s] = Synced]
    /\ UNCHANGED <<current, files, process, served, etag, pendingSig, syncMu, cond, temp,
                   newTag, faults>>

\* openMapping validates the complete file.
OpenOK(s) ==
    /\ Step(s, "open", "rename")
    /\ temp[s] # Torn
    /\ UNCHANGED <<current, files, process, served, etag, pendingSig, syncMu, locals, faults>>

OpenRejected(s) ==
    /\ pc[s] = "open" /\ temp[s] = Torn
    /\ Failed(s, TRUE)
    /\ UNCHANGED <<current, files, faults>>

Rename(s) ==
    /\ Step(s, "rename", IF enforce THEN "sig" ELSE "dir")
    /\ disk' = [disk EXCEPT !.live = temp[s]]
    /\ liveSynced' = tempSynced[s]
    /\ UNCHANGED <<current, kept, process, served, etag, pendingSig, syncMu, locals, faults>>

\* fsync, close, openMapping or rename fails.
FileFails(s) ==
    /\ pc[s] \in {"fsync", "open", "rename"} /\ Fault("io")
    /\ Failed(s, TRUE)
    /\ UNCHANGED <<current, files>>

\* The signature is saved; an error is only logged.
WriteSig(s) ==
    /\ Step(s, "sig", "dir")
    /\ \/ disk' = [disk EXCEPT !.sig = pendingSig] /\ UNCHANGED faults
       \/ Fault("io") /\ disk' \in {disk, [disk EXCEPT !.sig = None]}
    /\ UNCHANGED <<current, kept, liveSynced, process, served, etag, pendingSig, syncMu, locals>>

\* mutant: the directory is not synced.
NothingKept == kept
DirKept == disk

\* The directory is synced; an error is ignored.
SyncDir(s) ==
    /\ Step(s, "dir", "publish")
    /\ \/ kept' = DirKept /\ UNCHANGED faults
       \/ Fault("dir") /\ UNCHANGED kept
    /\ UNCHANGED <<current, disk, liveSynced, process, served, etag, pendingSig, syncMu, locals>>

Publish(s) ==
    /\ Step(s, "publish", "tag") /\ phase # "closed"
    /\ served' = temp[s]
    /\ UNCHANGED <<current, files, process, etag, pendingSig, syncMu, locals, faults>>

\* publish returns ErrMapClosed: Close overtook the sync.
PublishRefused(s) ==
    /\ pc[s] = "publish" /\ phase = "closed"
    /\ Failed(s, TRUE)
    /\ UNCHANGED <<current, files, faults>>

\* s.etag and persistETag, whose errors are ignored.
PersistETag(s) ==
    /\ pc[s] = "tag"
    /\ etag' = newTag[s]
    /\ \/ disk' = [disk EXCEPT !.tag = newTag[s]] /\ UNCHANGED faults
       \/ Fault("io") /\ UNCHANGED disk
    /\ Succeeded(s)
    /\ UNCHANGED <<current, kept, liveSynced, served>>

Install(s) == \/ SignatureOK(s) \/ SignatureRejected(s) \/ Fsync(s) \/ OpenOK(s)
              \/ OpenRejected(s) \/ Rename(s) \/ FileFails(s) \/ WriteSig(s)
              \/ SyncDir(s) \/ Publish(s) \/ PublishRefused(s) \/ PersistETag(s)

----------------------------------------------------------------------------
\* Close, and the end of the process.

Cancel ==
    /\ phase = "running" /\ ~cancelled
    /\ cancelled' = TRUE
    /\ UNCHANGED <<current, files, phase, enforce, attempt, starts, served, etag, pendingSig,
                   syncMu, pc, locals, faults>>

\* wg.Wait has seen the poll loop end; Map.Close.  A caller's Sync is not waited for.
CloseMap ==
    /\ cancelled /\ phase = "running" /\ pc[Loop] = "idle"
    /\ phase' = "closed"
    /\ served' = None
    /\ UNCHANGED <<current, files, enforce, cancelled, attempt, starts, etag, pendingSig, syncMu,
                   pc, locals, faults>>

Exit ==
    /\ phase = "closed" /\ \A s \in Syncers : pc[s] = "idle"
    /\ Gone
    /\ UNCHANGED <<current, files, faults>>

\* The process is killed; a signature being written may be left empty.
Crash ==
    /\ phase # "down" /\ Fault("crash")
    /\ Gone
    /\ disk' \in {disk} \cup {[disk EXCEPT !.sig = None] : s \in {t \in Syncers : pc[t] = "sig"}}
    /\ UNCHANGED <<current, kept, liveSynced>>

\* Renames since the last sync of the directory may be undone, files that were never
\* synced may be empty.
PowerLoss ==
    /\ Fault("power")
    /\ Gone
    /\ \E live \in {kept.live, IF liveSynced THEN disk.live ELSE Torn},
          sig \in {disk.sig, kept.sig, None}, tag \in {disk.tag, kept.tag, None} :
          disk' = [live |-> live, sig |-> sig, tag |-> tag]
    /\ kept' = disk'
    /\ liveSynced' = TRUE
    /\ UNCHANGED current

----------------------------------------------------------------------------
Sync(s) == \/ CallSync(s) \/ Request(s) \/ NotModified(s) \/ RequestFails(s)
           \/ RequestCancelled(s) \/ Download(s) \/ BadDownload(s) \/ Install(s)

Next == /\ UNCHANGED kinds
        /\ \/ Release \/ Start \/ LoadCached \/ Cancel \/ CloseMap \/ Exit \/ Crash \/ PowerLoss
           \/ \E s \in Syncers : Sync(s)

Spec == Init /\ [][Next]_vars

\* The goroutines run, the poll timer fires, requests end (http.Client has a timeout).
FairSpec == /\ Spec
            /\ WF_vars(LoadCached /\ UNCHANGED kinds)
            /\ WF_vars(CallSync(Loop) /\ UNCHANGED kinds)
            /\ \A s \in Syncers : WF_vars(Sync(s) /\ pc[s] # "idle" /\ UNCHANGED kinds)

----------------------------------------------------------------------------
\* Properties.

Directory == [live : Blobs \cup {None, Torn}, sig : Blobs \cup {None}, tag : Blobs \cup {None}]

TypeOK ==
    /\ current \in Blobs
    /\ disk \in Directory /\ kept \in Directory /\ liveSynced \in BOOLEAN
    /\ phase \in {"down", "starting", "running", "closed"}
    /\ enforce \in BOOLEAN /\ cancelled \in BOOLEAN
    /\ attempt \in 0 .. Attempts - 1
    /\ served \in Blobs \cup {None} /\ etag \in Blobs \cup {None}
    /\ pendingSig \in Blobs \cup {None} /\ syncMu \in Syncers \cup {NoOne}
    /\ pc \in [Syncers -> {"idle", "load", "lock", "wait", "verify", "fsync", "open", "rename",
                            "sig", "dir", "publish", "tag"}]
    /\ cond \in [Syncers -> Blobs \cup {None}] /\ newTag \in [Syncers -> Blobs \cup {None}]
    /\ temp \in [Syncers -> Blobs \cup {None, Torn}] /\ tempSynced \in [Syncers -> BOOLEAN]
    /\ starts \in 0 .. MaxStarts /\ faults \in 0 .. MaxFaults

\* The live file is never incomplete, whatever was downloaded and wherever the process or
\* the power stopped (installFrom).
LiveIntact == disk.live # Torn

\* With signing enforced nothing is served that the control plane did not sign, not even
\* a blob cached while it was not enforced (verifySignature, verifyCached).
ServedSigned == enforce => served \in Signed \cup {None}

\* Between syncs the live file is the blob being served, so a restart finds it again
\* (installFrom's rename comes before publish).
CacheIsServed == served # None /\ syncMu = NoOne => disk.live = served

\* While the control plane only goes forward, a saved ETag never names a newer blob than
\* the live file: a restart may download again, but never skips a version.
TagNotNewer == disk.tag <= disk.live /\ (served # None => etag <= served)

\* One process never goes back to an older blob than it served.
NoStepBack == [][served # None /\ served' # None => served' >= served]_vars

\* A process that keeps running ends up serving the current version, unless it is
\* unsigned and must not be installed.
CatchesUp == <>[](phase = "running" /\ ~cancelled)
             => <>[](served = current \/ (enforce /\ current \notin Signed))
=============================================================================
