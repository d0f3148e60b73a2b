--------------------------- MODULE DatabaseUpgrade ---------------------------
(***************************************************************************)
(* The embedded database of one data directory through a succession of      *)
(* starts by different versions of Revo, each of which may end at any point, *)
(* by a failure, the death of the host or a power loss:                     *)
(*                                                                         *)
(*   postgres/             the cluster, whole or not there                 *)
(*   postgres-password     the credential the cluster was initialised with *)
(*   data-version.json     the newest version that opened the cluster      *)
(*   database-backup       a symbolic link to the latest complete copy     *)
(*   .database-backups/    the copies                                      *)
(*                                                                         *)
(* The ownership of the directory (DataDirectory) makes the starts follow    *)
(* one another, but a host that is killed may leave PostgreSQL running.     *)
(*                                                                         *)
(* disk is what the processes see, synced what a power loss leaves: a       *)
(* change becomes durable when it is synced or, on its own, at any time.   *)
(* Journaled says how: with one ordered journal a sync makes everything     *)
(* before it durable; without, the entries of each directory are durable    *)
(* only when that very directory has been written or synced.               *)
(***************************************************************************)
EXTENDS Naturals

CONSTANTS LastVersion,  \* the versions of Revo are 1 .. LastVersion
          MaxEdits,     \* bound: how often the users change the data
          Copy,         \* random names of copies
          Secret,       \* random credentials
          Nothing,      \* no such file
          Empty,        \* an empty directory
          Partial,      \* an incomplete or not yet synced copy
          Foreign,      \* a database-backup that Revo has not made
          Journaled     \* the file system keeps the order of its changes

Version == 1 .. LastVersion
Recorded == 0 .. LastVersion   \* 0: there is no data-version.json

\* A cluster: the newest version whose Core has opened it (0: none has, 1: data
\* that may be older than data-version.json), the users' changes, its password.
Content == [schema : Recorded, edit : 0 .. MaxEdits, secret : Secret]
Saved == [data : Content, record : Recorded]

ASSUME ConstantsAssumption ==
    /\ LastVersion \in Nat \ {0}
    /\ MaxEdits \in Nat
    /\ Journaled \in BOOLEAN
    /\ Nothing \notin Content \cup Saved \cup Copy \cup Secret
    /\ {Empty, Partial} \cap (Content \cup Saved \cup {Nothing}) = {}
    /\ Foreign \notin Copy \cup {Nothing}

VARIABLES
    disk,      \* the files as the processes see them
    synced,    \* the files as a power loss leaves them
    pc,        \* where the start of the owner is
    revo,      \* its version
    admitted,  \* what admit has found
    created,   \* prepare has made the cluster
    staged,    \* the copy being made
    server,    \* PostgreSQL runs on the cluster
    core,      \* the version of the Core that uses it, or 0
    origin     \* history: the data before the last change of version

processVars == <<server, core>>
startVars == <<pc, revo, admitted, created, staged>>
vars == <<disk, synced, startVars, processVars, origin>>

Files == [cluster    : Content \cup {Nothing, Empty},
          credential : Secret \cup {Nothing},
          record     : Recorded,
          link       : Copy \cup {Nothing, Foreign},
          copies     : [Copy -> Saved \cup {Nothing, Partial}]]

Steps == {"idle", "inspecting", "credential", "credential sync", "initializing",
          "cluster sync", "recovering", "adopting", "room", "staging", "copying",
          "publishing", "link sync", "discarding", "recording", "record sync",
          "starting", "opening", "serving", "failed"}

TypeOK ==
    /\ disk \in Files
    /\ synced \in Files
    /\ pc \in Steps
    /\ revo \in Version
    /\ admitted \in {"current", "earlier", "unrecorded"}
    /\ created \in BOOLEAN
    /\ staged \in Copy \cup {Nothing}
    /\ server \in BOOLEAN
    /\ core \in Recorded
    /\ origin \in Content \cup {Nothing}

(* A new directory, or one with the data of a Revo that kept no record; the *)
(* user may have put something in the place of the backup.                 *)
Init ==
    /\ \E link \in {Nothing, Foreign}, k \in Secret :
          disk \in {[cluster |-> c, credential |-> Nothing, record |-> 0, link |-> link,
                     copies |-> [id \in Copy |-> Nothing]] : c \in {Nothing, Empty}}
              \cup {[cluster |-> [schema |-> 1, edit |-> 0, secret |-> k], credential |-> k,
                     record |-> 0, link |-> link, copies |-> [id \in Copy |-> Nothing]]}
    /\ synced = disk
    /\ pc = "idle" /\ revo = 1 /\ admitted = "unrecorded" /\ created = FALSE
    /\ staged = Nothing
    /\ server = FALSE /\ core = 0
    /\ origin = Nothing

Go(step) == pc' = step

-----------------------------------------------------------------------------
(* Durability                                                              *)

(* syncDirectory(dataDir): its own entries, not those of the store of copies. *)
DataDirSynced == IF Journaled THEN disk ELSE [disk EXCEPT !.copies = synced.copies]

SyncDataDir == synced' = DataDirSynced

(* The contents of the files of a copy, before it is used.                 *)
SyncTree == synced' = IF Journaled THEN disk' ELSE synced

(* PostgreSQL makes durable what it has committed, within its directory.   *)
WriteCluster(content) ==
    /\ disk' = [disk EXCEPT !.cluster = content]
    /\ synced' = IF Journaled THEN disk'
                 ELSE IF synced.cluster \in Content THEN [synced EXCEPT !.cluster = content]
                 ELSE synced

(* The system writes back what nobody has synced.                          *)
Flush ==
    /\ synced' \in {DataDirSynced} \cup
          IF Journaled THEN {} ELSE {[synced EXCEPT !.copies = disk.copies]}
    /\ UNCHANGED <<disk, startVars, processVars, origin>>

-----------------------------------------------------------------------------
(* EmbeddedDataVersion.admit                                               *)

Admit(v) ==
    /\ pc = "idle"
    /\ revo' = v
    /\ IF disk.record > v
          THEN Go("failed") /\ UNCHANGED admitted
          ELSE /\ Go("inspecting")
               /\ admitted' = CASE disk.record = 0 -> "unrecorded"
                                [] disk.record = v -> "current"
                                [] OTHER           -> "earlier"
    /\ UNCHANGED <<disk, synced, created, staged, processVars, origin>>

-----------------------------------------------------------------------------
(* OwnedEmbeddedPostgresPreparation.prepareCluster                         *)

InspectM ==  \* the credential is made anew by every start
    /\ pc = "inspecting"
    /\ created' = FALSE
    /\ disk' = IF disk.cluster = Empty THEN [disk EXCEPT !.cluster = Nothing] ELSE disk
    /\ Go("credential")
    /\ UNCHANGED <<synced, revo, admitted, staged, processVars, origin>>

(* A cluster without its credential is refused; an empty directory in the   *)
(* place of a cluster is removed.                                          *)
Inspect ==
    /\ pc = "inspecting"
    /\ created' = FALSE
    /\ IF disk.cluster \in Content
          THEN /\ Go(IF disk.credential = Nothing THEN "failed" ELSE "recovering")
               /\ UNCHANGED disk
          ELSE /\ Go(IF disk.credential = Nothing THEN "credential" ELSE "initializing")
               /\ disk' = [disk EXCEPT !.cluster = Nothing]
    /\ UNCHANGED <<synced, revo, admitted, staged, processVars, origin>>

CommitCredential ==
    /\ pc = "credential"
    /\ \E k \in Secret : disk' = [disk EXCEPT !.credential = k]
    /\ Go("credential sync")
    /\ UNCHANGED <<synced, revo, admitted, created, staged, processVars, origin>>

SyncCredential ==
    /\ pc = "credential sync"
    /\ SyncDataDir
    /\ Go("initializing")
    /\ UNCHANGED <<disk, revo, admitted, created, staged, processVars, origin>>

(* initdb writes to a directory that nobody else looks at; commitCluster    *)
(* renames it when it is complete.                                         *)
CommitCluster ==
    /\ pc = "initializing"
    /\ disk' = [disk EXCEPT !.cluster =
                   [schema |-> 0, edit |-> 0, secret |-> disk.credential]]
    /\ Go("cluster sync")
    /\ UNCHANGED <<synced, revo, admitted, created, staged, processVars, origin>>

SyncCluster ==
    /\ pc = "cluster sync"
    /\ SyncDataDir
    /\ created' = TRUE
    /\ Go("recovering")
    /\ UNCHANGED <<disk, revo, admitted, staged, processVars, origin>>

-----------------------------------------------------------------------------
(* EmbeddedPostgresLockRecovery: a PostgreSQL that an earlier host has left  *)
(* is stopped, or the start is refused; see PostmasterLock.                *)

Recover ==
    /\ pc = "recovering"
    /\ \/ /\ server' = FALSE
          /\ core' = 0
          /\ Go("adopting")
       \/ /\ server
          /\ Go("failed")
          /\ UNCHANGED processVars
    /\ UNCHANGED <<disk, synced, revo, admitted, created, staged, origin>>

-----------------------------------------------------------------------------
(* EmbeddedDataVersion.adopt and EmbeddedPostgresBackupService.replace      *)

AdoptM ==  \* a backup that is there is thought to be enough
    /\ pc = "adopting"
    /\ Go(IF admitted = "current" THEN "starting"
          ELSE IF created \/ disk.link \in Copy THEN "recording"
          ELSE "room")
    /\ UNCHANGED <<disk, synced, revo, admitted, created, staged, processVars, origin>>

AdoptCreatedM ==  \* what this start has made needs no record
    /\ pc = "adopting"
    /\ Go(IF admitted = "current" \/ created THEN "starting" ELSE "room")
    /\ UNCHANGED <<disk, synced, revo, admitted, created, staged, processVars, origin>>

Adopt ==
    /\ pc = "adopting"
    /\ Go(CASE admitted = "current" -> "starting"
            [] admitted # "current" /\ created  -> "recording"
            [] admitted # "current" /\ ~created -> "room")
    /\ UNCHANGED <<disk, synced, revo, admitted, created, staged, processVars, origin>>

(* discardBackupsExcept: every removal may fail, and nobody minds.         *)
DiscardExcept(kept) ==
    \E lost \in SUBSET (Copy \ {kept}) :
        disk' = [disk EXCEPT !.copies =
                    [id \in Copy |-> IF id \in lost THEN Nothing ELSE disk.copies[id]]]

PrepareRoomM ==  \* the old copy makes room for the new one
    /\ pc = "room"
    /\ IF disk.link = Foreign
          THEN Go("failed") /\ UNCHANGED disk
          ELSE Go("staging") /\ DiscardExcept(Nothing)
    /\ UNCHANGED <<synced, revo, admitted, created, staged, processVars, origin>>

(* Copies no link names are removed before the room for a new one is        *)
(* measured; a link that is not Revo's is left alone.                      *)
PrepareRoom ==
    /\ pc = "room"
    /\ IF disk.link = Foreign
          THEN Go("failed") /\ UNCHANGED disk
          ELSE Go("staging") /\ DiscardExcept(disk.link)
    /\ UNCHANGED <<synced, revo, admitted, created, staged, processVars, origin>>

Stage ==
    /\ pc = "staging"
    /\ \E id \in Copy :
          /\ disk.copies[id] = Nothing
          /\ disk' = [disk EXCEPT !.copies[id] = Partial]
          /\ staged' = id
    /\ Go("copying")
    /\ UNCHANGED <<synced, revo, admitted, created, processVars, origin>>

(* The cluster, its modes and data-version.json are copied and synced.     *)
FinishCopy ==
    /\ pc = "copying"
    /\ disk' = [disk EXCEPT !.copies[staged] =
                   [data |-> disk.cluster, record |-> disk.record]]
    /\ SyncTree
    /\ Go("publishing")
    /\ UNCHANGED <<revo, admitted, created, staged, processVars, origin>>

(* The latest copy is now this one: the one before is no longer kept.      *)
Publish ==
    /\ pc = "publishing"
    /\ disk' = [disk EXCEPT !.link = staged]
    /\ origin' = Nothing
    /\ Go("link sync")
    /\ UNCHANGED <<synced, revo, admitted, created, staged, processVars>>

SyncLink ==
    /\ pc = "link sync"
    /\ SyncDataDir
    /\ Go("discarding")
    /\ UNCHANGED <<disk, revo, admitted, created, staged, processVars, origin>>

DiscardReplaced ==
    /\ pc = "discarding"
    /\ DiscardExcept(staged)
    /\ staged' = Nothing
    /\ Go("recording")
    /\ UNCHANGED <<synced, revo, admitted, created, processVars, origin>>

Record ==
    /\ pc = "recording"
    /\ disk' = [disk EXCEPT !.record = revo]
    /\ Go("record sync")
    /\ UNCHANGED <<synced, revo, admitted, created, staged, processVars, origin>>

SyncRecord ==
    /\ pc = "record sync"
    /\ SyncDataDir
    /\ Go("starting")
    /\ UNCHANGED <<disk, revo, admitted, created, staged, processVars, origin>>

-----------------------------------------------------------------------------
(* PostgreSQL and Revo Core                                                *)

StartServer ==
    /\ pc = "starting"
    /\ server' = TRUE
    /\ Go("opening")
    /\ UNCHANGED <<disk, synced, revo, admitted, created, staged, core, origin>>

(* Core changes the structure of data of an earlier version.               *)
OpenCore ==
    /\ pc = "opening" /\ server
    /\ core' = revo
    /\ WriteCluster([disk.cluster EXCEPT !.schema = revo])
    /\ origin' = IF disk.cluster.schema \in {0, revo} THEN origin ELSE disk.cluster
    /\ Go("serving")
    /\ UNCHANGED <<revo, admitted, created, staged, server>>

(* The users change the data, as long as PostgreSQL and a Core run.        *)
Edit ==
    /\ server /\ core # 0
    /\ disk.cluster.edit < MaxEdits
    /\ WriteCluster([disk.cluster EXCEPT !.edit = @ + 1])
    /\ UNCHANGED <<startVars, processVars, origin>>

Close ==
    /\ pc = "serving"
    /\ server' = FALSE /\ core' = 0
    /\ Go("idle")
    /\ UNCHANGED <<disk, synced, revo, admitted, created, staged, origin>>

(* PostgreSQL ends by itself.                                              *)
ServerExits ==
    /\ server
    /\ server' = FALSE /\ core' = 0
    /\ UNCHANGED <<disk, synced, startVars, origin>>

-----------------------------------------------------------------------------
(* What goes wrong                                                         *)

(* A cancellation, the deadline or an error at any step of the start; the   *)
(* copy under way is removed if that works, PostgreSQL is stopped.          *)
Fail ==
    /\ pc \notin {"idle", "failed", "serving"}
    /\ Go("failed")
    /\ disk' \in IF pc = "copying" THEN {disk, [disk EXCEPT !.copies[staged] = Nothing]}
                 ELSE {disk}
    /\ IF pc = "opening" THEN server' = FALSE /\ core' = 0 ELSE UNCHANGED processVars
    /\ UNCHANGED <<synced, revo, admitted, created, staged, origin>>

Release ==
    /\ pc = "failed"
    /\ Go("idle")
    /\ staged' = Nothing
    /\ UNCHANGED <<disk, synced, revo, admitted, created, processVars, origin>>

(* The host is killed: PostgreSQL, and for a while Core, are left.          *)
HostDies ==
    /\ pc # "idle"
    /\ Go("idle")
    /\ staged' = Nothing
    /\ UNCHANGED <<disk, synced, revo, admitted, created, processVars, origin>>

PowerLoss ==
    /\ disk' = synced
    /\ origin' = IF synced.cluster \in Content THEN origin ELSE Nothing
    /\ Go("idle")
    /\ staged' = Nothing
    /\ server' = FALSE /\ core' = 0
    /\ UNCHANGED <<synced, revo, admitted, created>>

(* The user puts the backup in the place of the database, as the README     *)
(* describes, and sees to it that it is durable.                           *)
Restore ==
    /\ pc = "idle" /\ ~server
    /\ disk.link \in Copy /\ disk.copies[disk.link] \in Saved
    /\ disk' = [disk EXCEPT !.cluster = disk.copies[disk.link].data,
                            !.record = disk.copies[disk.link].record]
    /\ synced' = disk'
    /\ origin' = Nothing
    /\ UNCHANGED <<startVars, processVars>>

-----------------------------------------------------------------------------
StartStep ==
    \/ Inspect \/ CommitCredential \/ SyncCredential \/ CommitCluster \/ SyncCluster
    \/ Recover \/ Adopt \/ PrepareRoom \/ Stage \/ FinishCopy \/ Publish \/ SyncLink
    \/ DiscardReplaced \/ Record \/ SyncRecord \/ StartServer \/ OpenCore

Next ==
    \/ \E v \in Version : Admit(v)
    \/ StartStep \/ Edit \/ Close \/ ServerExits
    \/ Fail \/ Release \/ HostDies \/ PowerLoss \/ Restore
    \/ Flush

Spec == Init /\ [][Next]_vars

-----------------------------------------------------------------------------
(* Properties                                                              *)

(* database-backup, once it is Revo's, is a link to a complete copy: no     *)
(* interruption of a later backup, no retry and no power loss leaves it     *)
(* without.                                                                *)
LinkNamesCompleteCopy ==
    disk.link \in Copy => disk.copies[disk.link] \in Saved

(* From the moment a new version has opened the database until the next    *)
(* backup, the link names the database as it was before.                   *)
UpgradeIsInsured ==
    origin # Nothing =>
        /\ disk.link \in Copy
        /\ disk.copies[disk.link] \in Saved
        /\ disk.copies[disk.link].data = origin

(* The record is never behind the data, in the directory and in the copies, *)
(* so that no earlier version opens what a later one has changed, before or *)
(* after a restore: PostgreSQL is started by a version that has recorded    *)
(* itself, on data no later one has opened.                                *)
Covers(record, content) == content.schema <= record \/ (record = 0 /\ content.schema <= 1)

RecordCoversData ==
    /\ disk.cluster \in Content => Covers(disk.record, disk.cluster)
    /\ \A id \in Copy : disk.copies[id] \in Saved =>
          Covers(disk.copies[id].record, disk.copies[id].data)
    /\ pc \in {"starting", "opening", "serving"} =>
          disk.record = revo /\ disk.cluster.schema <= revo

(* The credential in the directory is the one the cluster was made with.    *)
CredentialFits ==
    disk.cluster \in Content => disk.credential = disk.cluster.secret

=============================================================================
