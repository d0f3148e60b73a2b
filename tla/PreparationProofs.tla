--------------------------- MODULE PreparationProofs ---------------------------
(* Theorems about what happens to the cluster directory before PostgreSQL    *)
(* starts: first about DatabaseUpgrade, on a file system that keeps the      *)
(* order of its changes, for any number of versions, edits, copies and       *)
(* credentials; then about PostmasterLock, for any set of process ids.  The   *)
(* two share no variable.                                                  *)
EXTENDS DatabaseUpgrade, PostmasterLock, TLAPS

(* The files f hold a complete copy of the data c, and the link names it.   *)
Insures(f, c) ==
    /\ f.link \in Copy
    /\ f.copies[f.link] \in Saved
    /\ f.copies[f.link].data = c

(* What is true of the files whenever somebody looks, those a power loss    *)
(* leaves included: what the record covers and what the credential opens,   *)
(* and a copy of data that a recorded version has not opened yet.           *)
FilesInv(f) ==
    /\ f.link \in Copy => f.copies[f.link] \in Saved
    /\ f.cluster \in Content =>
          /\ Covers(f.record, f.cluster)
          /\ f.credential = f.cluster.secret
          /\ f.record # 0 /\ f.cluster.schema \notin {0, f.record} => Insures(f, f.cluster)
    /\ \A id \in Copy : f.copies[id] \in Saved =>
          /\ Covers(f.copies[id].record, f.copies[id].data)
          /\ f.credential = f.copies[id].data.secret

(* What the last change of version has replaced is insured, also after a    *)
(* power loss.                                                             *)
OriginInv == origin # Nothing => Insures(disk, origin) /\ Insures(synced, origin)

(* What the steps of a start have established before each of them.          *)
StartInv ==
    /\ pc \notin {"idle", "failed"} => disk.record <= revo
    /\ pc \in {"inspecting", "credential", "credential sync", "initializing", "cluster sync",
               "recovering", "adopting"} /\ admitted = "current" => disk.record = revo
    /\ pc = "credential" => disk.cluster \notin Content /\ disk.credential = Nothing
    /\ pc \in {"credential sync", "initializing"} =>
          disk.cluster \notin Content /\ disk.credential # Nothing
    /\ pc \notin {"idle", "failed", "inspecting", "credential", "credential sync", "initializing"} =>
          disk.cluster \in Content
    /\ pc = "cluster sync" \/ (pc \in {"recovering", "adopting"} /\ created) =>
          disk.cluster.schema = 0
    /\ pc = "copying" => staged \in Copy /\ disk.copies[staged] = Partial
    /\ pc \in {"publishing", "link sync", "discarding"} =>
          /\ staged \in Copy
          /\ disk.copies[staged] \in Saved
          /\ disk.copies[staged].data = disk.cluster
    /\ pc \in {"link sync", "discarding"} => disk.link = staged
    /\ pc = "recording" => disk.cluster.schema = 0 \/ Insures(disk, disk.cluster)
    /\ pc \in {"record sync", "starting", "opening", "serving"} => disk.record = revo

(* A Core that runs has its version in the data and in the record, also     *)
(* when its host is dead, and no start gets past it.                       *)
CoreInv ==
    core # 0 =>
        /\ server
        /\ disk.cluster \in Content
        /\ disk.cluster.schema = core /\ disk.record = core
        /\ pc \in {"idle", "inspecting", "recovering", "failed", "serving"}

(* The inductive invariant.                                                *)
IndInv ==
    /\ TypeOK /\ FilesInv(disk) /\ FilesInv(synced)
    /\ OriginInv /\ StartInv /\ CoreInv

-----------------------------------------------------------------------------

(* What the operators on contents and copies are used for.                  *)
LEMMA ContentFacts ==
    /\ \A c \in Content : c.schema \in Recorded /\ c.edit \in 0 .. MaxEdits /\ c.secret \in Secret
    /\ \A c \in Content, s \in Recorded :
          /\ [c EXCEPT !.schema = s] \in Content
          /\ [c EXCEPT !.schema = s].schema = s
          /\ [c EXCEPT !.schema = s].secret = c.secret
    /\ \A c \in Content : c.edit < MaxEdits =>
          /\ [c EXCEPT !.edit = @ + 1] \in Content
          /\ [c EXCEPT !.edit = @ + 1].schema = c.schema
          /\ [c EXCEPT !.edit = @ + 1].secret = c.secret
    /\ \A k \in Secret :
          /\ [schema |-> 0, edit |-> 0, secret |-> k] \in Content
          /\ [schema |-> 0, edit |-> 0, secret |-> k].schema = 0
          /\ [schema |-> 0, edit |-> 0, secret |-> k].secret = k
BY ConstantsAssumption DEF Content, Recorded

(* A copy is a content with a record, and nothing else that may be found.   *)
LEMMA SavedFacts ==
    /\ \A s \in Saved : s.data \in Content /\ s.record \in Recorded
    /\ \A c \in Content, r \in Recorded : [data |-> c, record |-> r] \in Saved
    /\ Nothing \notin Content \cup Saved \cup Copy \cup Secret
    /\ {Empty, Partial} \cap (Content \cup Saved \cup {Nothing}) = {}
    /\ Foreign \notin Copy \cup {Nothing}
BY ConstantsAssumption DEF Saved

(* Versions are records, and 0 stands for none.                             *)
LEMMA VersionFacts ==
    /\ Version \subseteq Recorded /\ 0 \in Recorded
    /\ Recorded \subseteq Nat
    /\ \A v \in Version : v > 0
BY ConstantsAssumption DEF Version, Recorded

(* A change of one file keeps the types of all and the others.              *)
LEMMA FilesFacts ==
  \A f \in Files :
    /\ f.cluster \in Content \cup {Nothing, Empty}
    /\ f.credential \in Secret \cup {Nothing}
    /\ f.record \in Recorded
    /\ f.link \in Copy \cup {Nothing, Foreign}
    /\ f.copies \in [Copy -> Saved \cup {Nothing, Partial}]
    /\ \A x \in Content \cup {Nothing, Empty} :
          /\ [f EXCEPT !.cluster = x] \in Files
          /\ [f EXCEPT !.cluster = x].cluster = x
          /\ [f EXCEPT !.cluster = x].credential = f.credential
          /\ [f EXCEPT !.cluster = x].record = f.record
          /\ [f EXCEPT !.cluster = x].link = f.link
          /\ [f EXCEPT !.cluster = x].copies = f.copies
    /\ \A x \in Secret \cup {Nothing} :
          /\ [f EXCEPT !.credential = x] \in Files
          /\ [f EXCEPT !.credential = x].credential = x
          /\ [f EXCEPT !.credential = x].cluster = f.cluster
          /\ [f EXCEPT !.credential = x].record = f.record
          /\ [f EXCEPT !.credential = x].link = f.link
          /\ [f EXCEPT !.credential = x].copies = f.copies
    /\ \A x \in Recorded :
          /\ [f EXCEPT !.record = x] \in Files
          /\ [f EXCEPT !.record = x].record = x
          /\ [f EXCEPT !.record = x].cluster = f.cluster
          /\ [f EXCEPT !.record = x].credential = f.credential
          /\ [f EXCEPT !.record = x].link = f.link
          /\ [f EXCEPT !.record = x].copies = f.copies
    /\ \A x \in Copy \cup {Nothing, Foreign} :
          /\ [f EXCEPT !.link = x] \in Files
          /\ [f EXCEPT !.link = x].link = x
          /\ [f EXCEPT !.link = x].cluster = f.cluster
          /\ [f EXCEPT !.link = x].credential = f.credential
          /\ [f EXCEPT !.link = x].record = f.record
          /\ [f EXCEPT !.link = x].copies = f.copies
    /\ \A x \in [Copy -> Saved \cup {Nothing, Partial}] :
          /\ [f EXCEPT !.copies = x] \in Files
          /\ [f EXCEPT !.copies = x].copies = x
          /\ [f EXCEPT !.copies = x].cluster = f.cluster
          /\ [f EXCEPT !.copies = x].credential = f.credential
          /\ [f EXCEPT !.copies = x].record = f.record
          /\ [f EXCEPT !.copies = x].link = f.link
BY DEF Files

(* And a copy is changed without the others.                                *)
LEMMA CopyFacts ==
  \A f \in Files, id \in Copy, x \in Saved \cup {Nothing, Partial} :
    LET g == [f EXCEPT !.copies[id] = x] IN
        /\ g \in Files
        /\ g.cluster = f.cluster /\ g.credential = f.credential
        /\ g.record = f.record /\ g.link = f.link
        /\ g.copies[id] = x
        /\ \A other \in Copy \ {id} : g.copies[other] = f.copies[other]
BY DEF Files

(* Discarding copies touches nothing but them, and not the one that is kept. *)
LEMMA DiscardFacts ==
    ASSUME disk \in Files, NEW kept, DiscardExcept(kept)
    PROVE  /\ disk' \in Files
           /\ disk'.cluster = disk.cluster /\ disk'.credential = disk.credential
           /\ disk'.record = disk.record /\ disk'.link = disk.link
           /\ \A id \in Copy : disk'.copies[id] \in {disk.copies[id], Nothing}
           /\ kept \in Copy => disk'.copies[kept] = disk.copies[kept]
BY DEF Files, DiscardExcept

(* What becomes durable is a state of the files: with one journal nothing is*)
(* made durable without what came before it.                               *)
LEMMA SyncedEffect ==
    Journaled /\ IndInv /\ [Next]_vars =>
        synced' \in {synced, disk, disk'}
<1> SUFFICES ASSUME Journaled, TypeOK, [Next]_vars
             PROVE  synced' \in {synced, disk, disk'}
    BY DEF IndInv
<1> USE TRUE
    DEF 
        vars, startVars, processVars, Go, SyncDataDir, DataDirSynced, SyncTree
<1>1. ASSUME NEW v \in Version, Admit(v) PROVE synced' \in {synced, disk, disk'}
    BY <1>1 DEF Admit
<1>2. CASE Inspect
    BY <1>2 DEF Inspect
<1>3. CASE CommitCredential
    BY <1>3 DEF CommitCredential
<1>4. CASE SyncCredential
    BY <1>4 DEF SyncCredential
<1>5. CASE CommitCluster
    BY <1>5 DEF CommitCluster
<1>6. CASE SyncCluster
    BY <1>6 DEF SyncCluster
<1>7. CASE Recover
    BY <1>7 DEF Recover
<1>8. CASE Adopt
    BY <1>8 DEF Adopt
<1>9. CASE PrepareRoom
    BY <1>9 DEF PrepareRoom, DiscardExcept
<1>10. CASE Stage
    BY <1>10 DEF Stage
<1>11. CASE FinishCopy
    BY <1>11 DEF FinishCopy
<1>12. CASE Publish
    BY <1>12 DEF Publish
<1>13. CASE SyncLink
    BY <1>13 DEF SyncLink
<1>14. CASE DiscardReplaced
    BY <1>14 DEF DiscardReplaced, DiscardExcept
<1>15. CASE Record
    BY <1>15 DEF Record
<1>16. CASE SyncRecord
    BY <1>16 DEF SyncRecord
<1>17. CASE StartServer
    BY <1>17 DEF StartServer
<1>18. CASE OpenCore
    BY <1>18 DEF OpenCore, WriteCluster
<1>19. CASE Edit
    BY <1>19 DEF Edit, WriteCluster
<1>20. CASE Close
    BY <1>20 DEF Close
<1>21. CASE ServerExits
    BY <1>21 DEF ServerExits
<1>22. CASE Fail
    BY <1>22 DEF Fail
<1>23. CASE Release
    BY <1>23 DEF Release
<1>24. CASE HostDies
    BY <1>24 DEF HostDies
<1>25. CASE PowerLoss
    BY <1>25 DEF PowerLoss
<1>26. CASE Restore
    BY <1>26 DEF Restore
<1>27. CASE Flush
    BY <1>27 DEF Flush
<1>28. CASE UNCHANGED vars
    BY <1>28
<1>29. QED
    BY <1>1, <1>2, <1>3, <1>4, <1>5, <1>6, <1>7, <1>8, <1>9, <1>10, <1>11, <1>12, <1>13, <1>14,
       <1>15, <1>16, <1>17, <1>18, <1>19, <1>20, <1>21, <1>22, <1>23, <1>24, <1>25, <1>26,
       <1>27, <1>28
    DEF Next, StartStep

(* The files keep their types.                                             *)
LEMMA DiskTyped == Journaled /\ IndInv /\ [Next]_vars => disk' \in Files
<1> SUFFICES ASSUME Journaled, TypeOK, StartInv, CoreInv, [Next]_vars
             PROVE  disk' \in Files
    BY DEF IndInv
<1> USE ContentFacts, SavedFacts, FilesFacts, CopyFacts
    DEF TypeOK, StartInv,
        vars, startVars, processVars, Go, SyncDataDir, DataDirSynced, SyncTree
<1>1. ASSUME NEW v \in Version, Admit(v) PROVE disk' \in Files
    BY <1>1 DEF Admit
<1>2. CASE Inspect
    BY <1>2 DEF Inspect
<1>3. CASE CommitCredential
    <2>1. PICK k \in Secret : disk' = [disk EXCEPT !.credential = k]
        BY <1>3 DEF CommitCredential
    <2>2. QED
        BY <2>1
<1>4. CASE SyncCredential
    BY <1>4 DEF SyncCredential
<1>5. CASE CommitCluster
    BY <1>5 DEF CommitCluster
<1>6. CASE SyncCluster
    BY <1>6 DEF SyncCluster
<1>7. CASE Recover
    BY <1>7 DEF Recover
<1>8. CASE Adopt
    BY <1>8 DEF Adopt
<1>9. CASE PrepareRoom
    BY <1>9, DiscardFacts DEF PrepareRoom
<1>10. CASE Stage
    BY <1>10 DEF Stage
<1>11. CASE FinishCopy
    BY <1>11 DEF FinishCopy
<1>12. CASE Publish
    BY <1>12 DEF Publish
<1>13. CASE SyncLink
    BY <1>13 DEF SyncLink
<1>14. CASE DiscardReplaced
    BY <1>14, DiscardFacts DEF DiscardReplaced
<1>15. CASE Record
    <2>1. revo \in Recorded
        BY VersionFacts
    <2>2. QED
        BY <1>15, <2>1 DEF Record
<1>16. CASE SyncRecord
    BY <1>16 DEF SyncRecord
<1>17. CASE StartServer
    BY <1>17 DEF StartServer
<1>18. CASE OpenCore
    BY <1>18 DEF OpenCore, WriteCluster
<1>19. CASE Edit
    <2>1. disk.cluster \in Content /\ disk.cluster.edit < MaxEdits
        BY <1>19 DEF Edit, CoreInv
    <2>2. [disk.cluster EXCEPT !.edit = @ + 1] \in Content
        BY <2>1
    <2>3. QED
        BY <1>19, <2>2 DEF Edit, WriteCluster
<1>20. CASE Close
    BY <1>20 DEF Close
<1>21. CASE ServerExits
    BY <1>21 DEF ServerExits
<1>22. CASE Fail
    <2>1. CASE pc = "copying"
        BY <1>22, <2>1 DEF Fail
    <2>2. CASE pc # "copying"
        BY <1>22, <2>2 DEF Fail
    <2>3. QED
        BY <2>1, <2>2
<1>23. CASE Release
    BY <1>23 DEF Release
<1>24. CASE HostDies
    BY <1>24 DEF HostDies
<1>25. CASE PowerLoss
    BY <1>25 DEF PowerLoss
<1>26. CASE Restore
    BY <1>26 DEF Restore
<1>27. CASE Flush
    BY <1>27 DEF Flush
<1>28. CASE UNCHANGED vars
    BY <1>28
<1>29. QED
    BY <1>1, <1>2, <1>3, <1>4, <1>5, <1>6, <1>7, <1>8, <1>9, <1>10, <1>11, <1>12, <1>13, <1>14,
       <1>15, <1>16, <1>17, <1>18, <1>19, <1>20, <1>21, <1>22, <1>23, <1>24, <1>25, <1>26,
       <1>27, <1>28
    DEF Next, StartStep

(* So do the steps of the start and the versions.                          *)
LEMMA StepsTyped ==
    Journaled /\ IndInv /\ [Next]_vars =>
        /\ pc' \in Steps /\ revo' \in Version
        /\ admitted' \in {"current", "earlier", "unrecorded"}
        /\ staged' \in Copy \cup {Nothing}
<1> SUFFICES ASSUME Journaled, TypeOK, StartInv, [Next]_vars
             PROVE  /\ pc' \in Steps /\ revo' \in Version
                    /\ admitted' \in {"current", "earlier", "unrecorded"}
                    /\ staged' \in Copy \cup {Nothing}
    BY DEF IndInv
<1> DEFINE Goal ==
        /\ pc' \in Steps /\ revo' \in Version
        /\ admitted' \in {"current", "earlier", "unrecorded"}
        /\ staged' \in Copy \cup {Nothing}
<1> USE TRUE
    DEF Steps, Version,
        vars, startVars, processVars, Go, SyncDataDir, DataDirSynced, SyncTree
<1>0. /\ pc \in Steps /\ revo \in Version
      /\ admitted \in {"current", "earlier", "unrecorded"}
      /\ staged \in Copy \cup {Nothing}
    BY DEF TypeOK
<1> USE <1>0
<1>1. ASSUME NEW v \in Version, Admit(v) PROVE Goal
    BY <1>1 DEF Admit
<1>2. CASE Inspect
    BY <1>2 DEF Inspect
<1>3. CASE CommitCredential
    BY <1>3 DEF CommitCredential
<1>4. CASE SyncCredential
    BY <1>4 DEF SyncCredential
<1>5. CASE CommitCluster
    BY <1>5 DEF CommitCluster
<1>6. CASE SyncCluster
    BY <1>6 DEF SyncCluster
<1>7. CASE Recover
    BY <1>7 DEF Recover
<1>8. CASE Adopt
    BY <1>8 DEF Adopt
<1>9. CASE PrepareRoom
    BY <1>9 DEF PrepareRoom, DiscardExcept
<1>10. CASE Stage
    BY <1>10 DEF Stage
<1>11. CASE FinishCopy
    BY <1>11 DEF FinishCopy
<1>12. CASE Publish
    BY <1>12 DEF Publish
<1>13. CASE SyncLink
    BY <1>13 DEF SyncLink
<1>14. CASE DiscardReplaced
    BY <1>14 DEF DiscardReplaced, DiscardExcept
<1>15. CASE Record
    BY <1>15 DEF Record
<1>16. CASE SyncRecord
    BY <1>16 DEF SyncRecord
<1>17. CASE StartServer
    BY <1>17 DEF StartServer
<1>18. CASE OpenCore
    BY <1>18 DEF OpenCore, WriteCluster
<1>19. CASE Edit
    BY <1>19 DEF Edit, WriteCluster
<1>20. CASE Close
    BY <1>20 DEF Close
<1>21. CASE ServerExits
    BY <1>21 DEF ServerExits
<1>22. CASE Fail
    BY <1>22 DEF Fail
<1>23. CASE Release
    BY <1>23 DEF Release
<1>24. CASE HostDies
    BY <1>24 DEF HostDies
<1>25. CASE PowerLoss
    BY <1>25 DEF PowerLoss
<1>26. CASE Restore
    BY <1>26 DEF Restore
<1>27. CASE Flush
    BY <1>27 DEF Flush
<1>28. CASE UNCHANGED vars
    BY <1>28
<1>29. QED
    BY <1>1, <1>2, <1>3, <1>4, <1>5, <1>6, <1>7, <1>8, <1>9, <1>10, <1>11, <1>12, <1>13, <1>14,
       <1>15, <1>16, <1>17, <1>18, <1>19, <1>20, <1>21, <1>22, <1>23, <1>24, <1>25, <1>26,
       <1>27, <1>28
    DEF Next, StartStep

(* The version of the running Core and the history are typed too.          *)
LEMMA HistoryTyped ==
    Journaled /\ IndInv /\ [Next]_vars =>
        core' \in Recorded /\ origin' \in Content \cup {Nothing}
<1> SUFFICES ASSUME Journaled, TypeOK, StartInv, [Next]_vars
             PROVE  core' \in Recorded /\ origin' \in Content \cup {Nothing}
    BY DEF IndInv
<1> USE TRUE
    DEF 
        vars, startVars, processVars, Go, SyncDataDir, DataDirSynced, SyncTree
<1>0. /\ 0 \in Recorded /\ core \in Recorded /\ Nothing \in Content \cup {Nothing}
      /\ revo \in Recorded /\ origin \in Content \cup {Nothing}
      /\ pc = "opening" => disk.cluster \in Content
    BY VersionFacts DEF TypeOK, StartInv
<1> USE <1>0
<1>1. ASSUME NEW v \in Version, Admit(v)
      PROVE  core' \in Recorded /\ origin' \in Content \cup {Nothing}
    BY <1>1 DEF Admit
<1>2. CASE Inspect
    BY <1>2 DEF Inspect
<1>3. CASE CommitCredential
    BY <1>3 DEF CommitCredential
<1>4. CASE SyncCredential
    BY <1>4 DEF SyncCredential
<1>5. CASE CommitCluster
    BY <1>5 DEF CommitCluster
<1>6. CASE SyncCluster
    BY <1>6 DEF SyncCluster
<1>7. CASE Recover
    BY <1>7 DEF Recover
<1>8. CASE Adopt
    BY <1>8 DEF Adopt
<1>9. CASE PrepareRoom
    BY <1>9 DEF PrepareRoom, DiscardExcept
<1>10. CASE Stage
    BY <1>10 DEF Stage
<1>11. CASE FinishCopy
    BY <1>11 DEF FinishCopy
<1>12. CASE Publish
    BY <1>12 DEF Publish
<1>13. CASE SyncLink
    BY <1>13 DEF SyncLink
<1>14. CASE DiscardReplaced
    BY <1>14 DEF DiscardReplaced, DiscardExcept
<1>15. CASE Record
    BY <1>15 DEF Record
<1>16. CASE SyncRecord
    BY <1>16 DEF SyncRecord
<1>17. CASE StartServer
    BY <1>17 DEF StartServer
<1>18. CASE OpenCore
    BY <1>18 DEF OpenCore, WriteCluster
<1>19. CASE Edit
    BY <1>19 DEF Edit, WriteCluster
<1>20. CASE Close
    BY <1>20 DEF Close
<1>21. CASE ServerExits
    BY <1>21 DEF ServerExits
<1>22. CASE Fail
    BY <1>22 DEF Fail
<1>23. CASE Release
    BY <1>23 DEF Release
<1>24. CASE HostDies
    BY <1>24 DEF HostDies
<1>25. CASE PowerLoss
    BY <1>25 DEF PowerLoss
<1>26. CASE Restore
    BY <1>26 DEF Restore
<1>27. CASE Flush
    BY <1>27 DEF Flush
<1>28. CASE UNCHANGED vars
    BY <1>28
<1>29. QED
    BY <1>1, <1>2, <1>3, <1>4, <1>5, <1>6, <1>7, <1>8, <1>9, <1>10, <1>11, <1>12, <1>13, <1>14,
       <1>15, <1>16, <1>17, <1>18, <1>19, <1>20, <1>21, <1>22, <1>23, <1>24, <1>25, <1>26,
       <1>27, <1>28
    DEF Next, StartStep

(* The flags are set to values and to nothing else.                         *)
LEMMA FlagsTyped == IndInv /\ [Next]_vars => created' \in BOOLEAN /\ server' \in BOOLEAN
<1> SUFFICES ASSUME TypeOK, [Next]_vars
             PROVE  created' \in BOOLEAN /\ server' \in BOOLEAN
    BY DEF IndInv
<1>0. created \in BOOLEAN /\ server \in BOOLEAN
    BY DEF TypeOK
<1> USE <1>0 DEF vars, startVars, processVars
<1>1. ASSUME NEW v \in Version, Admit(v) PROVE created' \in BOOLEAN /\ server' \in BOOLEAN
    BY <1>1 DEF Admit
<1>2. CASE Inspect
    BY <1>2 DEF Inspect
<1>3. CASE CommitCredential
    BY <1>3 DEF CommitCredential
<1>4. CASE SyncCredential
    BY <1>4 DEF SyncCredential
<1>5. CASE CommitCluster
    BY <1>5 DEF CommitCluster
<1>6. CASE SyncCluster
    BY <1>6 DEF SyncCluster
<1>7. CASE Recover
    BY <1>7 DEF Recover
<1>8. CASE Adopt
    BY <1>8 DEF Adopt
<1>9. CASE PrepareRoom
    BY <1>9 DEF PrepareRoom, DiscardExcept
<1>10. CASE Stage
    BY <1>10 DEF Stage
<1>11. CASE FinishCopy
    BY <1>11 DEF FinishCopy
<1>12. CASE Publish
    BY <1>12 DEF Publish
<1>13. CASE SyncLink
    BY <1>13 DEF SyncLink
<1>14. CASE DiscardReplaced
    BY <1>14 DEF DiscardReplaced, DiscardExcept
<1>15. CASE Record
    BY <1>15 DEF Record
<1>16. CASE SyncRecord
    BY <1>16 DEF SyncRecord
<1>17. CASE StartServer
    BY <1>17 DEF StartServer
<1>18. CASE OpenCore
    BY <1>18 DEF OpenCore, WriteCluster
<1>19. CASE Edit
    BY <1>19 DEF Edit, WriteCluster
<1>20. CASE Close
    BY <1>20 DEF Close
<1>21. CASE ServerExits
    BY <1>21 DEF ServerExits
<1>22. CASE Fail
    BY <1>22 DEF Fail
<1>23. CASE Release
    BY <1>23 DEF Release
<1>24. CASE HostDies
    BY <1>24 DEF HostDies
<1>25. CASE PowerLoss
    BY <1>25 DEF PowerLoss
<1>26. CASE Restore
    BY <1>26 DEF Restore
<1>27. CASE Flush
    BY <1>27 DEF Flush
<1>28. CASE UNCHANGED vars
    BY <1>28
<1>29. QED
    BY <1>1, <1>2, <1>3, <1>4, <1>5, <1>6, <1>7, <1>8, <1>9, <1>10, <1>11, <1>12, <1>13, <1>14,
       <1>15, <1>16, <1>17, <1>18, <1>19, <1>20, <1>21, <1>22, <1>23, <1>24, <1>25, <1>26,
       <1>27, <1>28
    DEF Next, StartStep

(* Together: the types are kept.                                            *)
LEMMA TypeStep == Journaled /\ IndInv /\ [Next]_vars => TypeOK'
<1> SUFFICES ASSUME Journaled, IndInv, [Next]_vars
             PROVE  TypeOK'
    OBVIOUS
<1>1. disk' \in Files
    BY DiskTyped
<1>2. synced' \in Files
    BY <1>1, SyncedEffect DEF IndInv, TypeOK
<1>3. QED
    BY <1>1, <1>2, StepsTyped, FlagsTyped, HistoryTyped DEF TypeOK

(* The files keep what is true of them, and what they insure, when copies    *)
(* other than the one the link names are lost or begun.                    *)
LEMMA CopiesLost ==
    ASSUME NEW f \in Files, NEW g \in Files,
           g.cluster = f.cluster, g.credential = f.credential,
           g.record = f.record, g.link = f.link,
           \A id \in Copy : g.copies[id] \in {f.copies[id], Nothing, Partial},
           f.link \in Copy => g.copies[f.link] = f.copies[f.link]
    PROVE  /\ FilesInv(f) => FilesInv(g)
           /\ \A c : Insures(f, c) => Insures(g, c)
<1>1. \A id \in Copy : g.copies[id] \in Saved => g.copies[id] = f.copies[id]
    BY SavedFacts
<1>2. ASSUME NEW c, Insures(f, c) PROVE Insures(g, c)
    BY <1>2 DEF Insures
<1>3. ASSUME FilesInv(f) PROVE FilesInv(g)
    BY <1>1, <1>2, <1>3 DEF FilesInv
<1>4. QED
    BY <1>2, <1>3

(* A copy that is not complete is not the one the link names.               *)
LEMMA CopyLost ==
    ASSUME NEW f \in Files, NEW id \in Copy, NEW x \in {Nothing, Partial},
           FilesInv(f), f.copies[id] \notin Saved
    PROVE  /\ FilesInv([f EXCEPT !.copies[id] = x])
           /\ \A c : Insures(f, c) => Insures([f EXCEPT !.copies[id] = x], c)
<1> DEFINE g == [f EXCEPT !.copies[id] = x]
<1>1. f.link # id
    BY DEF FilesInv
<1>2. /\ g \in Files
      /\ g.cluster = f.cluster /\ g.credential = f.credential
      /\ g.record = f.record /\ g.link = f.link
      /\ g.copies[id] = x
      /\ \A other \in Copy \ {id} : g.copies[other] = f.copies[other]
    BY CopyFacts
<1>3. /\ \A i \in Copy : g.copies[i] \in {f.copies[i], Nothing, Partial}
      /\ f.link \in Copy => g.copies[f.link] = f.copies[f.link]
    BY <1>1, <1>2
<1> HIDE DEF g
<1>4. FilesInv(g) /\ \A c : Insures(f, c) => Insures(g, c)
    BY <1>2, <1>3, CopiesLost
<1>5. QED
    BY <1>4 DEF g

(* What the Core of a new version does to the files.                        *)
LEMMA OpenEffect ==
    ASSUME Journaled, TypeOK, StartInv, OpenCore
    PROVE  /\ disk.cluster \in Content /\ disk.record = revo /\ revo # 0
           /\ disk'.cluster \in Content /\ disk'.cluster.schema = revo
           /\ disk'.cluster.secret = disk.cluster.secret
           /\ disk'.credential = disk.credential /\ disk'.record = disk.record
           /\ disk'.link = disk.link /\ disk'.copies = disk.copies
           /\ synced' = disk'
<1>1. /\ revo \in Recorded /\ revo # 0
      /\ disk.cluster \in Content /\ disk.record = revo
    BY VersionFacts DEF OpenCore, StartInv, TypeOK
<1> DEFINE new == [disk.cluster EXCEPT !.schema = revo]
<1>2. new \in Content /\ new.schema = revo /\ new.secret = disk.cluster.secret
    BY <1>1, ContentFacts
<1>3. disk' = [disk EXCEPT !.cluster = new] /\ synced' = disk'
    BY DEF OpenCore, WriteCluster
<1> HIDE DEF new
<1>4. /\ disk'.cluster = new /\ disk'.record = disk.record
      /\ disk'.credential = disk.credential
      /\ disk'.link = disk.link /\ disk'.copies = disk.copies
    BY <1>2, <1>3, FilesFacts DEF TypeOK
<1>5. QED
    BY <1>1, <1>2, <1>3, <1>4

(* What is true of the files stays true of them.                           *)
LEMMA FilesStep == Journaled /\ IndInv /\ [Next]_vars => FilesInv(disk')
<1> SUFFICES ASSUME Journaled, TypeOK, FilesInv(disk), FilesInv(synced), StartInv, CoreInv, [Next]_vars
             PROVE  FilesInv(disk')
    BY DEF IndInv
<1> USE TRUE
    DEF 
        vars, startVars, processVars, Go, SyncDataDir, DataDirSynced, SyncTree
<1>0. disk \in Files /\ synced \in Files
    BY DEF TypeOK
<1> USE <1>0
<1>1. ASSUME NEW v \in Version, Admit(v) PROVE FilesInv(disk')
    BY <1>1 DEF Admit
<1>2. CASE Inspect
    <2>1. CASE disk.cluster \in Content
        BY <1>2, <2>1 DEF Inspect
    <2>2. CASE disk.cluster \notin Content
        <3>1. disk' = [disk EXCEPT !.cluster = Nothing]
            BY <1>2, <2>2 DEF Inspect
        <3>2. /\ disk'.cluster = Nothing /\ disk'.record = disk.record
              /\ disk'.credential = disk.credential
              /\ disk'.link = disk.link /\ disk'.copies = disk.copies
            BY <3>1, FilesFacts
        <3>3. QED
            BY <3>2, SavedFacts DEF FilesInv
    <2>3. QED
        BY <2>1, <2>2
<1>3. CASE CommitCredential
    <2>1. PICK k \in Secret : disk' = [disk EXCEPT !.credential = k]
        BY <1>3 DEF CommitCredential
    <2>2. disk.cluster \notin Content /\ disk.credential = Nothing
        BY <1>3 DEF CommitCredential, StartInv
    <2>3. \A id \in Copy : disk.copies[id] \notin Saved
        BY <2>2, SavedFacts, ContentFacts DEF FilesInv
    <2>4. /\ disk'.cluster = disk.cluster /\ disk'.record = disk.record
          /\ disk'.link = disk.link /\ disk'.copies = disk.copies
        BY <2>1, FilesFacts DEF TypeOK
    <2>5. QED
        BY <2>2, <2>3, <2>4 DEF FilesInv
<1>4. CASE SyncCredential
    BY <1>4 DEF SyncCredential
<1>5. CASE CommitCluster
    <2> DEFINE new == [schema |-> 0, edit |-> 0, secret |-> disk.credential]
    <2>1. disk.credential \in Secret
        BY <1>5, FilesFacts DEF CommitCluster, StartInv, TypeOK
    <2>2. new \in Content /\ new.schema = 0 /\ new.secret = disk.credential
        BY <2>1, ContentFacts
    <2>3. disk' = [disk EXCEPT !.cluster = new]
        BY <1>5 DEF CommitCluster
    <2> HIDE DEF new
    <2>4. /\ disk'.cluster = new /\ disk'.record = disk.record
          /\ disk'.credential = disk.credential
          /\ disk'.link = disk.link /\ disk'.copies = disk.copies
        BY <2>2, <2>3, FilesFacts DEF TypeOK
    <2>5. disk.record \in Nat
        BY FilesFacts, VersionFacts DEF TypeOK
    <2>6. QED
        BY <2>2, <2>4, <2>5 DEF FilesInv, Covers
<1>6. CASE SyncCluster
    BY <1>6 DEF SyncCluster
<1>7. CASE Recover
    BY <1>7 DEF Recover
<1>8. CASE Adopt
    BY <1>8 DEF Adopt
<1>9. CASE PrepareRoom
    <2>1. CASE disk.link = Foreign
        BY <1>9, <2>1 DEF PrepareRoom
    <2>2. CASE disk.link # Foreign
        <3>1. /\ disk' \in Files
              /\ disk'.cluster = disk.cluster /\ disk'.credential = disk.credential
              /\ disk'.record = disk.record /\ disk'.link = disk.link
              /\ \A id \in Copy : disk'.copies[id] \in {disk.copies[id], Nothing}
              /\ disk.link \in Copy => disk'.copies[disk.link] = disk.copies[disk.link]
            BY <1>9, <2>2, DiscardFacts DEF PrepareRoom
        <3>2. QED
            BY <1>9, <3>1, CopiesLost
    <2>3. QED
        BY <2>1, <2>2
<1>10. CASE Stage
    <2>1. PICK id \in Copy : disk.copies[id] = Nothing /\ disk' = [disk EXCEPT !.copies[id] = Partial]
        BY <1>10 DEF Stage
    <2>2. QED
        BY <2>1, CopyLost, SavedFacts DEF TypeOK
<1>11. CASE FinishCopy
    <2> DEFINE new == [data |-> disk.cluster, record |-> disk.record]
    <2>1. /\ staged \in Copy /\ disk.copies[staged] \notin Saved
          /\ disk.cluster \in Content /\ disk.record \in Recorded
        BY <1>11, FilesFacts, SavedFacts DEF FinishCopy, StartInv, TypeOK
    <2>2. new \in Saved /\ new.data = disk.cluster /\ new.record = disk.record
        BY <2>1, SavedFacts
    <2>3. disk' = [disk EXCEPT !.copies[staged] = new]
        BY <1>11 DEF FinishCopy
    <2> HIDE DEF new
    <2>4. /\ disk'.cluster = disk.cluster /\ disk'.record = disk.record
          /\ disk'.credential = disk.credential /\ disk'.link = disk.link
          /\ disk'.copies[staged] = new
          /\ \A other \in Copy \ {staged} : disk'.copies[other] = disk.copies[other]
        BY <2>1, <2>2, <2>3, CopyFacts DEF TypeOK
    <2>5. disk.link # staged
        BY <2>1 DEF FilesInv
    <2>6. QED
        BY <2>1, <2>2, <2>4, <2>5 DEF FilesInv, Insures
<1>12. CASE Publish
    <2>1. /\ staged \in Copy /\ disk.copies[staged] \in Saved
          /\ disk.copies[staged].data = disk.cluster
        BY <1>12 DEF Publish, StartInv
    <2>2. /\ disk'.cluster = disk.cluster /\ disk'.record = disk.record
          /\ disk'.credential = disk.credential /\ disk'.link = staged
          /\ disk'.copies = disk.copies
        <3>1. disk' = [disk EXCEPT !.link = staged]
            BY <1>12 DEF Publish
        <3>2. QED
            BY <2>1, <3>1, FilesFacts
    <2>3. QED
        BY <2>1, <2>2 DEF FilesInv, Insures
<1>13. CASE SyncLink
    BY <1>13 DEF SyncLink
<1>14. CASE DiscardReplaced
    <2>1. /\ disk' \in Files
          /\ disk'.cluster = disk.cluster /\ disk'.credential = disk.credential
          /\ disk'.record = disk.record /\ disk'.link = disk.link
          /\ \A id \in Copy : disk'.copies[id] \in {disk.copies[id], Nothing}
          /\ disk.link \in Copy => disk'.copies[disk.link] = disk.copies[disk.link]
        BY <1>14, DiscardFacts DEF DiscardReplaced, StartInv
    <2>2. QED
        BY <1>14, <2>1, CopiesLost
<1>15. CASE Record
    <2>1. /\ revo \in Nat /\ revo > 0 /\ revo \in Recorded
          /\ disk.record \in Nat /\ disk.record <= revo
        <3>1. revo \in Version /\ disk.record \in Recorded
            BY FilesFacts DEF TypeOK
        <3>2. disk.record <= revo
            BY <1>15 DEF Record, StartInv
        <3>3. QED
            BY <3>1, <3>2, VersionFacts
    <2>2. /\ disk'.cluster = disk.cluster /\ disk'.record = revo
          /\ disk'.credential = disk.credential /\ disk'.link = disk.link
          /\ disk'.copies = disk.copies
        <3>1. disk' = [disk EXCEPT !.record = revo]
            BY <1>15 DEF Record
        <3>2. QED
            BY <2>1, <3>1, FilesFacts
    <2>3. disk.cluster.schema = 0 \/ Insures(disk, disk.cluster)
        BY <1>15 DEF Record, StartInv
    <2>4. ASSUME disk.cluster \in Content PROVE Covers(revo, disk.cluster)
        <3>1. disk.cluster.schema \in Nat
            BY <2>4, ContentFacts, VersionFacts
        <3>2. QED
            BY <2>1, <2>4, <3>1 DEF FilesInv, Covers
    <2>5. QED
        BY <2>2, <2>3, <2>4 DEF FilesInv, Insures
<1>16. CASE SyncRecord
    BY <1>16 DEF SyncRecord
<1>17. CASE StartServer
    BY <1>17 DEF StartServer
<1>18. CASE OpenCore
    <2>1. revo \in Nat
        BY <1>18, VersionFacts DEF TypeOK
    <2>2. QED
        BY <1>18, <2>1, OpenEffect DEF FilesInv, Covers
<1>19. CASE Edit
    <2>1. /\ core \in Nat /\ disk.cluster \in Content /\ disk.cluster.edit < MaxEdits
          /\ disk.cluster.schema = core /\ disk.record = core
        BY <1>19, VersionFacts DEF Edit, CoreInv, TypeOK
    <2> DEFINE new == [disk.cluster EXCEPT !.edit = @ + 1]
    <2>2. new \in Content /\ new.schema = core /\ new.secret = disk.cluster.secret
        BY <2>1, ContentFacts
    <2>3. disk' = [disk EXCEPT !.cluster = new]
        BY <1>19 DEF Edit, WriteCluster
    <2> HIDE DEF new
    <2>4. /\ disk'.cluster = new /\ disk'.record = disk.record
          /\ disk'.credential = disk.credential
          /\ disk'.link = disk.link /\ disk'.copies = disk.copies
        BY <2>2, <2>3, FilesFacts DEF TypeOK
    <2>5. QED
        BY <2>1, <2>2, <2>4 DEF FilesInv, Covers
<1>20. CASE Close
    BY <1>20 DEF Close
<1>21. CASE ServerExits
    BY <1>21 DEF ServerExits
<1>22. CASE Fail
    <2>1. CASE pc = "copying"
        <3>1. staged \in Copy /\ disk.copies[staged] \notin Saved
            BY <2>1, SavedFacts DEF StartInv
        <3>2. disk' \in {disk, [disk EXCEPT !.copies[staged] = Nothing]}
            BY <1>22, <2>1 DEF Fail
        <3>3. QED
            BY <3>1, <3>2, CopyLost
    <2>2. CASE pc # "copying"
        BY <1>22, <2>2 DEF Fail
    <2>3. QED
        BY <2>1, <2>2
<1>23. CASE Release
    BY <1>23 DEF Release
<1>24. CASE HostDies
    BY <1>24 DEF HostDies
<1>25. CASE PowerLoss
    BY <1>25 DEF PowerLoss
<1>26. CASE Restore
    <2> DEFINE saved == disk.copies[disk.link]
    <2>1. /\ disk.link \in Copy /\ saved \in Saved
          /\ saved.data \in Content /\ saved.record \in Recorded
        BY <1>26, SavedFacts DEF Restore
    <2>2. disk' = [[disk EXCEPT !.cluster = saved.data] EXCEPT !.record = saved.record]
        BY <1>26 DEF Restore
    <2>3. /\ disk'.cluster = saved.data /\ disk'.record = saved.record
          /\ disk'.credential = disk.credential
          /\ disk'.link = disk.link /\ disk'.copies = disk.copies
        BY <2>1, <2>2, FilesFacts DEF TypeOK
    <2>4. QED
        BY <2>1, <2>3 DEF FilesInv, Insures
<1>27. CASE Flush
    BY <1>27 DEF Flush
<1>28. CASE UNCHANGED vars
    BY <1>28
<1>29. QED
    BY <1>1, <1>2, <1>3, <1>4, <1>5, <1>6, <1>7, <1>8, <1>9, <1>10, <1>11, <1>12, <1>13, <1>14,
       <1>15, <1>16, <1>17, <1>18, <1>19, <1>20, <1>21, <1>22, <1>23, <1>24, <1>25, <1>26,
       <1>27, <1>28
    DEF Next, StartStep

(* What the last change of version has replaced stays insured in the       *)
(* directory.                                                              *)
LEMMA InsuredStep ==
    Journaled /\ IndInv /\ [Next]_vars =>
        (origin' # Nothing => Insures(disk', origin'))
<1> SUFFICES ASSUME Journaled, TypeOK, FilesInv(disk), OriginInv, StartInv, [Next]_vars
             PROVE  (origin' # Nothing => Insures(disk', origin'))
    BY DEF IndInv
<1> USE TRUE
    DEF 
        vars, startVars, processVars, Go, SyncDataDir, DataDirSynced, SyncTree
<1>0. /\ disk \in Files /\ synced \in Files
      /\ origin # Nothing => Insures(disk, origin) /\ Insures(synced, origin)
    BY DEF TypeOK, OriginInv
<1> USE <1>0
<1>1. ASSUME NEW v \in Version, Admit(v) PROVE (origin' # Nothing => Insures(disk', origin'))
    BY <1>1 DEF Admit
<1>2. CASE Inspect
    <2>1. disk' = disk \/ disk' = [disk EXCEPT !.cluster = Nothing]
        BY <1>2 DEF Inspect
    <2>2. origin' = origin /\ disk'.link = disk.link /\ disk'.copies = disk.copies
        <3>1. origin' = origin
            BY <1>2 DEF Inspect
        <3>2. [disk EXCEPT !.cluster = Nothing].link = disk.link
              /\ [disk EXCEPT !.cluster = Nothing].copies = disk.copies
            BY FilesFacts
        <3>3. QED
            BY <2>1, <3>1, <3>2
    <2>3. QED
        BY <2>2 DEF Insures
<1>3. CASE CommitCredential
    <2>1. PICK k \in Secret : disk' = [disk EXCEPT !.credential = k]
        BY <1>3 DEF CommitCredential
    <2>2. origin' = origin /\ disk'.link = disk.link /\ disk'.copies = disk.copies
        <3>1. origin' = origin
            BY <1>3 DEF CommitCredential
        <3>2. /\ [disk EXCEPT !.credential = k].link = disk.link
              /\ [disk EXCEPT !.credential = k].copies = disk.copies
            BY FilesFacts
        <3>3. QED
            BY <2>1, <3>1, <3>2
    <2>3. QED
        BY <2>2 DEF Insures
<1>4. CASE SyncCredential
    BY <1>4 DEF SyncCredential
<1>5. CASE CommitCluster
    <2>1. origin' = origin /\ disk'.link = disk.link /\ disk'.copies = disk.copies
        BY <1>5 DEF CommitCluster, Files
    <2>2. QED
        BY <2>1 DEF Insures
<1>6. CASE SyncCluster
    BY <1>6 DEF SyncCluster
<1>7. CASE Recover
    BY <1>7 DEF Recover
<1>8. CASE Adopt
    BY <1>8 DEF Adopt
<1>9. CASE PrepareRoom
    <2>1. CASE disk.link = Foreign
        BY <1>9, <2>1 DEF PrepareRoom
    <2>2. CASE disk.link # Foreign
        <3>1. /\ disk' \in Files
              /\ disk'.cluster = disk.cluster /\ disk'.credential = disk.credential
              /\ disk'.record = disk.record /\ disk'.link = disk.link
              /\ \A id \in Copy : disk'.copies[id] \in {disk.copies[id], Nothing}
              /\ disk.link \in Copy => disk'.copies[disk.link] = disk.copies[disk.link]
            BY <1>9, <2>2, DiscardFacts DEF PrepareRoom
        <3>2. QED
            BY <1>9, <3>1, CopiesLost DEF PrepareRoom
    <2>3. QED
        BY <2>1, <2>2
<1>10. CASE Stage
    <2>1. PICK id \in Copy : disk.copies[id] = Nothing /\ disk' = [disk EXCEPT !.copies[id] = Partial]
        BY <1>10 DEF Stage
    <2>2. origin' = origin
        BY <1>10 DEF Stage
    <2>3. QED
        BY <2>1, <2>2, CopyLost, SavedFacts
<1>11. CASE FinishCopy
    <2> DEFINE new == [data |-> disk.cluster, record |-> disk.record]
    <2>1. /\ staged \in Copy /\ disk.copies[staged] \notin Saved
          /\ disk.cluster \in Content /\ disk.record \in Recorded
        BY <1>11, FilesFacts, SavedFacts DEF FinishCopy, StartInv
    <2>2. new \in Saved /\ disk' = [disk EXCEPT !.copies[staged] = new] /\ origin' = origin
        BY <1>11, <2>1, SavedFacts DEF FinishCopy
    <2> HIDE DEF new
    <2>3. /\ disk'.link = disk.link
          /\ \A other \in Copy \ {staged} : disk'.copies[other] = disk.copies[other]
        BY <2>1, <2>2, CopyFacts
    <2>4. QED
        BY <2>1, <2>2, <2>3 DEF FilesInv, Insures
<1>12. CASE Publish
    BY <1>12 DEF Publish
<1>13. CASE SyncLink
    BY <1>13 DEF SyncLink
<1>14. CASE DiscardReplaced
    <2>1. /\ disk' \in Files
          /\ disk'.cluster = disk.cluster /\ disk'.credential = disk.credential
          /\ disk'.record = disk.record /\ disk'.link = disk.link
          /\ \A id \in Copy : disk'.copies[id] \in {disk.copies[id], Nothing}
          /\ disk.link \in Copy => disk'.copies[disk.link] = disk.copies[disk.link]
        BY <1>14, DiscardFacts DEF DiscardReplaced, StartInv
    <2>2. QED
        BY <1>14, <2>1, CopiesLost DEF DiscardReplaced
<1>15. CASE Record
    <2>1. origin' = origin /\ disk'.link = disk.link /\ disk'.copies = disk.copies
        BY <1>15 DEF Record, Files
    <2>2. QED
        BY <2>1 DEF Insures
<1>16. CASE SyncRecord
    BY <1>16 DEF SyncRecord
<1>17. CASE StartServer
    BY <1>17 DEF StartServer
<1>18. CASE OpenCore
    <2>1. origin' = IF disk.cluster.schema \in {0, revo} THEN origin ELSE disk.cluster
        BY <1>18 DEF OpenCore
    <2>2. QED
        BY <1>18, <2>1, OpenEffect DEF FilesInv, Insures
<1>19. CASE Edit
    <2>1. origin' = origin /\ disk'.link = disk.link /\ disk'.copies = disk.copies
        BY <1>19 DEF Edit, WriteCluster, Files
    <2>2. QED
        BY <2>1 DEF Insures
<1>20. CASE Close
    BY <1>20 DEF Close
<1>21. CASE ServerExits
    BY <1>21 DEF ServerExits
<1>22. CASE Fail
    <2>1. CASE pc = "copying"
        <3>1. staged \in Copy /\ disk.copies[staged] \notin Saved
            BY <2>1, SavedFacts DEF StartInv
        <3>2. disk' \in {disk, [disk EXCEPT !.copies[staged] = Nothing]} /\ origin' = origin
            BY <1>22, <2>1 DEF Fail
        <3>3. QED
            BY <3>1, <3>2, CopyLost
    <2>2. CASE pc # "copying"
        BY <1>22, <2>2 DEF Fail
    <2>3. QED
        BY <2>1, <2>2
<1>23. CASE Release
    BY <1>23 DEF Release
<1>24. CASE HostDies
    BY <1>24 DEF HostDies
<1>25. CASE PowerLoss
    BY <1>25 DEF PowerLoss
<1>26. CASE Restore
    BY <1>26 DEF Restore
<1>27. CASE Flush
    BY <1>27 DEF Flush
<1>28. CASE UNCHANGED vars
    BY <1>28
<1>29. QED
    BY <1>1, <1>2, <1>3, <1>4, <1>5, <1>6, <1>7, <1>8, <1>9, <1>10, <1>11, <1>12, <1>13, <1>14,
       <1>15, <1>16, <1>17, <1>18, <1>19, <1>20, <1>21, <1>22, <1>23, <1>24, <1>25, <1>26,
       <1>27, <1>28
    DEF Next, StartStep

(* What is remembered changes only where a Core opens data of an earlier   *)
(* version.                                                                *)
LEMMA OriginKept ==
    Journaled /\ IndInv /\ [Next]_vars =>
        origin' \in {origin, Nothing} \/ (origin' = disk.cluster /\ synced' = disk')
<1> SUFFICES ASSUME Journaled, TRUE, [Next]_vars
             PROVE  origin' \in {origin, Nothing} \/ (origin' = disk.cluster /\ synced' = disk')
    BY DEF IndInv
<1> USE TRUE
    DEF 
        vars, startVars, processVars, Go, SyncDataDir, DataDirSynced, SyncTree
<1>1. ASSUME NEW v \in Version, Admit(v)
      PROVE  origin' \in {origin, Nothing} \/ (origin' = disk.cluster /\ synced' = disk')
    BY <1>1 DEF Admit
<1>2. CASE Inspect
    BY <1>2 DEF Inspect
<1>3. CASE CommitCredential
    BY <1>3 DEF CommitCredential
<1>4. CASE SyncCredential
    BY <1>4 DEF SyncCredential
<1>5. CASE CommitCluster
    BY <1>5 DEF CommitCluster
<1>6. CASE SyncCluster
    BY <1>6 DEF SyncCluster
<1>7. CASE Recover
    BY <1>7 DEF Recover
<1>8. CASE Adopt
    BY <1>8 DEF Adopt
<1>9. CASE PrepareRoom
    BY <1>9 DEF PrepareRoom, DiscardExcept
<1>10. CASE Stage
    BY <1>10 DEF Stage
<1>11. CASE FinishCopy
    BY <1>11 DEF FinishCopy
<1>12. CASE Publish
    BY <1>12 DEF Publish
<1>13. CASE SyncLink
    BY <1>13 DEF SyncLink
<1>14. CASE DiscardReplaced
    BY <1>14 DEF DiscardReplaced, DiscardExcept
<1>15. CASE Record
    BY <1>15 DEF Record
<1>16. CASE SyncRecord
    BY <1>16 DEF SyncRecord
<1>17. CASE StartServer
    BY <1>17 DEF StartServer
<1>18. CASE OpenCore
    BY <1>18 DEF OpenCore, WriteCluster
<1>19. CASE Edit
    BY <1>19 DEF Edit, WriteCluster
<1>20. CASE Close
    BY <1>20 DEF Close
<1>21. CASE ServerExits
    BY <1>21 DEF ServerExits
<1>22. CASE Fail
    BY <1>22 DEF Fail
<1>23. CASE Release
    BY <1>23 DEF Release
<1>24. CASE HostDies
    BY <1>24 DEF HostDies
<1>25. CASE PowerLoss
    BY <1>25 DEF PowerLoss
<1>26. CASE Restore
    BY <1>26 DEF Restore
<1>27. CASE Flush
    BY <1>27 DEF Flush
<1>28. CASE UNCHANGED vars
    BY <1>28
<1>29. QED
    BY <1>1, <1>2, <1>3, <1>4, <1>5, <1>6, <1>7, <1>8, <1>9, <1>10, <1>11, <1>12, <1>13, <1>14,
       <1>15, <1>16, <1>17, <1>18, <1>19, <1>20, <1>21, <1>22, <1>23, <1>24, <1>25, <1>26,
       <1>27, <1>28
    DEF Next, StartStep

(* And, whatever has become durable, after a power loss.                    *)
LEMMA OriginStep == Journaled /\ IndInv /\ [Next]_vars => OriginInv'
<1> SUFFICES ASSUME Journaled, IndInv, [Next]_vars, origin' # Nothing
             PROVE  Insures(disk', origin') /\ Insures(synced', origin')
    BY DEF OriginInv
<1>1. Insures(disk', origin')
    BY InsuredStep
<1>2. CASE synced' = disk'
    BY <1>1, <1>2
<1>3. CASE origin' = origin /\ synced' \in {synced, disk}
    <2>1. Insures(disk, origin) /\ Insures(synced, origin)
        BY <1>3 DEF IndInv, OriginInv
    <2>2. synced' = disk \/ synced' = synced
        BY <1>3
    <2>3. QED
        BY <1>1, <1>3, <2>1, <2>2
<1>4. QED
    BY <1>2, <1>3, OriginKept, SyncedEffect

(* A power loss leaves files of which the same is true.                     *)
LEMMA SyncedStep == Journaled /\ IndInv /\ [Next]_vars => FilesInv(synced')
<1> SUFFICES ASSUME Journaled, IndInv, [Next]_vars
             PROVE  FilesInv(synced')
    OBVIOUS
<1>1. FilesInv(disk')
    BY FilesStep
<1>2. FilesInv(disk) /\ FilesInv(synced)
    BY DEF IndInv
<1>3. synced' = synced \/ synced' = disk \/ synced' = disk'
    BY SyncedEffect
<1>4. QED
    BY <1>1, <1>2, <1>3

(* A Core that runs is the recorded one.                                   *)
LEMMA CoreStep == Journaled /\ IndInv /\ [Next]_vars => CoreInv'
<1> SUFFICES ASSUME Journaled, TypeOK, StartInv, CoreInv, [Next]_vars
             PROVE  CoreInv'
    BY DEF IndInv
<1> USE VersionFacts, ContentFacts
    DEF StartInv, CoreInv, Files,
        vars, startVars, processVars, Go, SyncDataDir, DataDirSynced, SyncTree
<1>0. /\ disk \in Files /\ synced \in Files /\ revo \in Version /\ pc \in Steps
    BY DEF TypeOK
<1> USE <1>0
<1>1. ASSUME NEW v \in Version, Admit(v) PROVE CoreInv'
    BY <1>1 DEF Admit
<1>2. CASE Inspect
    BY <1>2 DEF Inspect
<1>3. CASE CommitCredential
    BY <1>3 DEF CommitCredential
<1>4. CASE SyncCredential
    BY <1>4 DEF SyncCredential
<1>5. CASE CommitCluster
    BY <1>5 DEF CommitCluster
<1>6. CASE SyncCluster
    BY <1>6 DEF SyncCluster
<1>7. CASE Recover
    BY <1>7 DEF Recover
<1>8. CASE Adopt
    BY <1>8 DEF Adopt
<1>9. CASE PrepareRoom
    BY <1>9 DEF PrepareRoom, DiscardExcept
<1>10. CASE Stage
    BY <1>10 DEF Stage
<1>11. CASE FinishCopy
    BY <1>11 DEF FinishCopy
<1>12. CASE Publish
    BY <1>12 DEF Publish
<1>13. CASE SyncLink
    BY <1>13 DEF SyncLink
<1>14. CASE DiscardReplaced
    BY <1>14 DEF DiscardReplaced, DiscardExcept
<1>15. CASE Record
    BY <1>15 DEF Record
<1>16. CASE SyncRecord
    BY <1>16 DEF SyncRecord
<1>17. CASE StartServer
    BY <1>17 DEF StartServer
<1>18. CASE OpenCore
    <2>1. server' /\ core' = revo /\ pc' = "serving"
        BY <1>18 DEF OpenCore
    <2>2. QED
        BY <1>18, <2>1, OpenEffect
<1>19. CASE Edit
    BY <1>19 DEF Edit, WriteCluster
<1>20. CASE Close
    BY <1>20 DEF Close
<1>21. CASE ServerExits
    BY <1>21 DEF ServerExits
<1>22. CASE Fail
    BY <1>22 DEF Fail
<1>23. CASE Release
    BY <1>23 DEF Release
<1>24. CASE HostDies
    BY <1>24 DEF HostDies
<1>25. CASE PowerLoss
    BY <1>25 DEF PowerLoss
<1>26. CASE Restore
    BY <1>26 DEF Restore
<1>27. CASE Flush
    BY <1>27 DEF Flush
<1>28. CASE UNCHANGED vars
    BY <1>28
<1>29. QED
    BY <1>1, <1>2, <1>3, <1>4, <1>5, <1>6, <1>7, <1>8, <1>9, <1>10, <1>11, <1>12, <1>13, <1>14,
       <1>15, <1>16, <1>17, <1>18, <1>19, <1>20, <1>21, <1>22, <1>23, <1>24, <1>25, <1>26,
       <1>27, <1>28
    DEF Next, StartStep

(* A start that has recorded its version stands behind its record.          *)
LEMMA RecordEffect ==
    ASSUME TypeOK, StartInv, Record
    PROVE  /\ pc' = "record sync" /\ disk'.record = revo' /\ disk'.record <= revo'
           /\ disk'.cluster \in Content
<1>1. revo \in Nat
    BY VersionFacts DEF TypeOK
<1>2. pc' = "record sync"
    BY DEF Record, Go
<1>0. revo' = revo
    BY DEF Record
<1>3. disk.cluster \in Content
    BY DEF Record, StartInv
<1>4. disk'.cluster = disk.cluster /\ disk'.record = revo
    <2>1. disk \in Files /\ revo \in Recorded
        BY VersionFacts DEF TypeOK
    <2>2. disk' = [disk EXCEPT !.record = revo]
        BY DEF Record
    <2>3. QED
        BY <2>1, <2>2, FilesFacts
<1>5. disk'.record = revo' /\ disk'.record <= revo'
    BY <1>0, <1>1, <1>4
<1>6. QED
    BY <1>2, <1>3, <1>4, <1>5

(* Each step of the start finds what the earlier ones have established.    *)
LEMMA StartStepKept == Journaled /\ IndInv /\ [Next]_vars => StartInv'
<1> SUFFICES ASSUME Journaled, TypeOK, FilesInv(disk), StartInv, CoreInv, [Next]_vars
             PROVE  StartInv'
    BY DEF IndInv
<1> USE VersionFacts, ContentFacts, SavedFacts, FilesFacts
    DEF StartInv, CoreInv, Files,
        vars, startVars, processVars, Go, SyncDataDir, DataDirSynced, SyncTree
<1>0. /\ disk \in Files /\ synced \in Files /\ revo \in Version /\ pc \in Steps
    BY DEF TypeOK
<1> USE <1>0
<1>1. ASSUME NEW v \in Version, Admit(v) PROVE StartInv'
    <2>0. disk.record \in Nat /\ v \in Nat
        BY FilesFacts
    <2>1. CASE disk.record > v
        BY <1>1, <2>1 DEF Admit
    <2>2. CASE ~(disk.record > v)
        <3>1. pc' = "inspecting" /\ revo' = v /\ disk' = disk /\ disk.record <= v
            BY <1>1, <2>0, <2>2 DEF Admit
        <3>2. admitted' = "current" => disk.record = v
            BY <1>1, <2>2 DEF Admit
        <3>3. QED
            BY <3>1, <3>2
    <2>3. QED
        BY <2>1, <2>2
<1>2. CASE Inspect
    <2>1. revo' = revo /\ admitted' = admitted /\ ~created' /\ staged' = staged /\ pc = "inspecting"
        BY <1>2 DEF Inspect
    <2>2. CASE disk.cluster \in Content
        <3>1. pc' \in {"failed", "recovering"} /\ disk' = disk
            BY <1>2, <2>2 DEF Inspect
        <3>2. QED
            BY <2>1, <2>2, <3>1
    <2>3. CASE disk.cluster \notin Content
        <3>1. disk' = [disk EXCEPT !.cluster = Nothing]
            BY <1>2, <2>3 DEF Inspect
        <3>2. pc' = IF disk.credential = Nothing THEN "credential" ELSE "initializing"
            BY <1>2, <2>3 DEF Inspect
        <3>3. /\ disk'.cluster = Nothing /\ disk'.record = disk.record
              /\ disk'.credential = disk.credential
            BY <3>1
        <3>4. QED
            BY <2>1, <3>2, <3>3
    <2>4. QED
        BY <2>2, <2>3
<1>3. CASE CommitCredential
    <2>1. PICK k \in Secret : disk' = [disk EXCEPT !.credential = k]
        BY <1>3 DEF CommitCredential
    <2>2. /\ disk'.cluster = disk.cluster /\ disk'.record = disk.record
          /\ disk'.credential \in Secret
        BY <2>1
    <2>3. /\ pc = "credential" /\ pc' = "credential sync"
          /\ revo' = revo /\ admitted' = admitted /\ created' = created
        BY <1>3 DEF CommitCredential
    <2>4. QED
        BY <2>2, <2>3
<1>4. CASE SyncCredential
    BY <1>4 DEF SyncCredential
<1>5. CASE CommitCluster
    BY <1>5 DEF CommitCluster
<1>6. CASE SyncCluster
    BY <1>6 DEF SyncCluster
<1>7. CASE Recover
    BY <1>7 DEF Recover
<1>8. CASE Adopt
    BY <1>8 DEF Adopt
<1>9. CASE PrepareRoom
    <2>1. /\ pc = "room" /\ pc' \in {"failed", "staging"} /\ revo' = revo
        BY <1>9 DEF PrepareRoom
    <2>2. disk'.cluster = disk.cluster /\ disk'.record = disk.record
        BY <1>9, DiscardFacts DEF PrepareRoom
    <2>3. QED
        BY <2>1, <2>2
<1>10. CASE Stage
    BY <1>10 DEF Stage
<1>11. CASE FinishCopy
    BY <1>11 DEF FinishCopy
<1>12. CASE Publish
    BY <1>12 DEF Publish
<1>13. CASE SyncLink
    BY <1>13 DEF SyncLink
<1>14. CASE DiscardReplaced
    <2>1. pc = "discarding" /\ pc' = "recording" /\ revo' = revo
        BY <1>14 DEF DiscardReplaced
    <2>2. /\ disk.link = staged /\ staged \in Copy
          /\ disk.copies[staged] \in Saved /\ disk.copies[staged].data = disk.cluster
        BY <2>1
    <2>3. /\ disk'.cluster = disk.cluster /\ disk'.record = disk.record
          /\ disk'.link = disk.link /\ disk'.copies[staged] = disk.copies[staged]
        BY <1>14, <2>2, DiscardFacts DEF DiscardReplaced
    <2>4. QED
        BY <2>1, <2>2, <2>3 DEF Insures
<1>15. CASE Record
    <2>1. /\ pc' = "record sync" /\ disk'.record = revo' /\ disk'.record <= revo'
          /\ disk'.cluster \in Content
        BY <1>15, RecordEffect
    <2>2. QED
        BY <2>1
<1>16. CASE SyncRecord
    BY <1>16 DEF SyncRecord
<1>17. CASE StartServer
    BY <1>17 DEF StartServer
<1>18. CASE OpenCore
    BY <1>18 DEF OpenCore, WriteCluster
<1>19. CASE Edit
    BY <1>19 DEF Edit, WriteCluster
<1>20. CASE Close
    BY <1>20 DEF Close
<1>21. CASE ServerExits
    BY <1>21 DEF ServerExits
<1>22. CASE Fail
    BY <1>22 DEF Fail
<1>23. CASE Release
    BY <1>23 DEF Release
<1>24. CASE HostDies
    BY <1>24 DEF HostDies
<1>25. CASE PowerLoss
    BY <1>25 DEF PowerLoss
<1>26. CASE Restore
    BY <1>26 DEF Restore
<1>27. CASE Flush
    BY <1>27 DEF Flush
<1>28. CASE UNCHANGED vars
    BY <1>28
<1>29. QED
    BY <1>1, <1>2, <1>3, <1>4, <1>5, <1>6, <1>7, <1>8, <1>9, <1>10, <1>11, <1>12, <1>13, <1>14,
       <1>15, <1>16, <1>17, <1>18, <1>19, <1>20, <1>21, <1>22, <1>23, <1>24, <1>25, <1>26,
       <1>27, <1>28
    DEF Next, StartStep

(* A new directory, and one of a Revo that kept no record, are such files.  *)
LEMMA InitInv == Init => IndInv
<1> SUFFICES ASSUME Init
             PROVE  IndInv
    OBVIOUS
<1> USE ContentFacts, SavedFacts, VersionFacts DEF Init
<1>1. /\ disk \in Files /\ disk.record = 0 /\ disk.link \notin Copy
      /\ \A id \in Copy : disk.copies[id] = Nothing
      /\ disk.cluster \in Content => disk.cluster.schema = 1 /\ disk.credential = disk.cluster.secret
      /\ synced = disk
    <2>1. PICK link \in {Nothing, Foreign}, k \in Secret :
          disk \in {[cluster |-> c, credential |-> Nothing, record |-> 0, link |-> link,
                     copies |-> [id \in Copy |-> Nothing]] : c \in {Nothing, Empty}}
              \cup {[cluster |-> [schema |-> 1, edit |-> 0, secret |-> k], credential |-> k,
                     record |-> 0, link |-> link, copies |-> [id \in Copy |-> Nothing]]}
        OBVIOUS
    <2>2. CASE disk.cluster \in {Nothing, Empty}
        BY <2>1, <2>2 DEF Files
    <2>3. [schema |-> 1, edit |-> 0, secret |-> k] \in Content
        BY ConstantsAssumption DEF Content, Recorded
    <2>4. CASE disk.cluster \notin {Nothing, Empty}
        BY <2>1, <2>3, <2>4 DEF Files
    <2>5. QED
        BY <2>2, <2>4
<1>2. TypeOK
    <2>1. revo \in Version /\ pc \in Steps /\ core \in Recorded
        BY ConstantsAssumption DEF Steps, Version
    <2>2. created \in BOOLEAN /\ server \in BOOLEAN
        OBVIOUS
    <2>3. QED
        BY <1>1, <2>1, <2>2 DEF TypeOK
<1>3. FilesInv(disk) /\ FilesInv(synced)
    BY <1>1 DEF FilesInv, Covers
<1>4. OriginInv /\ StartInv /\ CoreInv
    BY DEF OriginInv, StartInv, CoreInv
<1>5. QED
    BY <1>2, <1>3, <1>4 DEF IndInv

(* On a file system that keeps the order of its changes the invariant holds *)
(* in every state.                                                         *)
THEOREM Invariant ==
    ASSUME Journaled
    PROVE  Spec => []IndInv
<1>1. IndInv /\ [Next]_vars => IndInv'
    BY TypeStep, FilesStep, SyncedStep, OriginStep, StartStepKept, CoreStep DEF IndInv
<1>2. QED
    BY InitInv, <1>1, PTL DEF Spec

(* The files, the steps of a start and the processes are of their types.    *)
THEOREM TypeCorrect ==
    ASSUME Journaled
    PROVE  Spec => []TypeOK
<1>1. IndInv => TypeOK
    BY DEF IndInv
<1>2. QED
    BY Invariant, <1>1, PTL

(* database-backup, once it is Revo's, links a complete copy, whatever start *)
(* fails, is killed or loses power, and whatever was not synced.           *)
THEOREM LinkComplete ==
    ASSUME Journaled
    PROVE  Spec => []LinkNamesCompleteCopy
<1>1. IndInv => LinkNamesCompleteCopy
    BY DEF IndInv, FilesInv, LinkNamesCompleteCopy
<1>2. QED
    BY Invariant, <1>1, PTL

(* The data a new version has changed is kept as it was, under the link,    *)
(* until the next backup.                                                  *)
THEOREM UpgradeInsured ==
    ASSUME Journaled
    PROVE  Spec => []UpgradeIsInsured
<1>1. IndInv => UpgradeIsInsured
    BY DEF IndInv, OriginInv, Insures, UpgradeIsInsured
<1>2. QED
    BY Invariant, <1>1, PTL

(* data-version.json is never behind the data, in the directory and in the  *)
(* copies, and a server is started only by the version it names.           *)
THEOREM RecordCovers ==
    ASSUME Journaled
    PROVE  Spec => []RecordCoversData
<1>1. IndInv => RecordCoversData
    <2> SUFFICES ASSUME IndInv
                 PROVE  RecordCoversData
        OBVIOUS
    <2>1. /\ disk.cluster \in Content => Covers(disk.record, disk.cluster)
          /\ \A id \in Copy : disk.copies[id] \in Saved =>
                Covers(disk.copies[id].record, disk.copies[id].data)
        BY DEF IndInv, FilesInv
    <2>2. ASSUME pc \in {"starting", "opening", "serving"}
          PROVE  disk.record = revo /\ disk.cluster.schema <= revo
        <3>1. disk.record = revo /\ disk.cluster \in Content
            BY <2>2 DEF IndInv, StartInv
        <3>2. revo > 0 /\ revo \in Nat
            BY VersionFacts DEF IndInv, TypeOK
        <3>3. Covers(revo, disk.cluster)
            BY <2>1, <3>1
        <3>4. disk.cluster.schema <= revo
            BY <3>2, <3>3 DEF Covers
        <3>5. QED
            BY <3>1, <3>4
    <2>3. QED
        BY <2>1, <2>2 DEF RecordCoversData
<1>2. QED
    BY Invariant, <1>1, PTL

(* No interruption of a first start, no retry and no restore leaves a       *)
(* cluster whose credential is not the one in the directory.               *)
THEOREM CredentialAlwaysFits ==
    ASSUME Journaled
    PROVE  Spec => []CredentialFits
<1>1. IndInv => CredentialFits
    BY DEF IndInv, FilesInv, CredentialFits
<1>2. QED
    BY Invariant, <1>1, PTL

-----------------------------------------------------------------------------
(* The inductive invariant of PostmasterLock                               *)

(* A file that is being written is of this boot and of one postmaster; a    *)
(* complete one names a process.                                           *)
LockFileInv ==
    /\ lock = "complete" => named \in Pid
    /\ \A p \in Pid : process[p] = "locking" => ~old
    /\ \A p, q \in Pid : process[p] = "locking" /\ process[q] = "locking" => p = q

(* While a recovery is under way nobody comes to the lock file anew.        *)
PromptInv == Recovering \/ step = "released" => Prompt

(* What the recovery has read stays the only possible user of the cluster.  *)
JudgedInv ==
    /\ step \in {"observing", "locating", "stopping"} =>
          /\ target \in Pid
          /\ lock = "complete" => named = target
          /\ \A p \in Pid : process[p] # "locking" /\ (process[p] = "server" => p = target)
    /\ step \in {"locating", "stopping"} /\ born => process[target] \in Postmaster \cup {"none"}
    /\ step = "stopping" => born /\ round = 1
    /\ step = "discarding" => \A p \in Pid : process[p] \notin UsesCluster

RecoveryInv ==
    /\ RecoveryTypeOK /\ ServerHoldsLock /\ ReleasedMeansStopped
    /\ LockFileInv /\ PromptInv /\ JudgedInv

-----------------------------------------------------------------------------
(* The initial states satisfy the inductive invariant.                      *)
LEMMA RecoveryInitInv == RecoveryInit => RecoveryInv
<1> SUFFICES ASSUME RecoveryInit PROVE RecoveryInv
    OBVIOUS
<1> USE DEF RecoveryInit, Others
<1>1. RecoveryTypeOK
  <2>1. process \in [Pid -> Postmaster \cup Others \cup {"none"}]
      OBVIOUS
  <2>2. round \in 1 .. 2
      OBVIOUS
  <2>3. old \in BOOLEAN /\ moved \in BOOLEAN /\ born \in BOOLEAN
      BY Zenon
  <2>4. QED
      BY <2>1, <2>2, <2>3, Zenon DEF RecoveryTypeOK, LockFile
<1>2. ServerHoldsLock /\ ReleasedMeansStopped
    BY DEF ServerHoldsLock, ReleasedMeansStopped
<1>3. LockFileInv /\ PromptInv /\ JudgedInv
    BY DEF LockFileInv, PromptInv, JudgedInv, Recovering
<1>4. QED
    BY <1>1, <1>2, <1>3 DEF RecoveryInv

(* Every step keeps the variables within their types.                       *)
LEMMA RecoveryTypeStep == RecoveryInv /\ [RecoveryNext]_recoveryVars => RecoveryTypeOK'
<1> SUFFICES ASSUME RecoveryInv, [RecoveryNext]_recoveryVars PROVE RecoveryTypeOK'
    OBVIOUS
<1> USE NoPidIsNone DEF RecoveryInv, RecoveryTypeOK, LockFile, Postmaster, Others, recoveryVars,
   lockVars, ownerVars
<1>1. CASE Begin
    BY <1>1 DEF Begin, Enter
<1>2. CASE InspectLock
    BY <1>2 DEF InspectLock, Enter
<1>3. CASE Observe
    BY <1>3 DEF Observe, Enter
<1>4. CASE Locate
    BY <1>4 DEF Locate, Judge, Identify, Enter
<1>5. CASE StopOrphan
    BY <1>5 DEF StopOrphan, Enter, JudgedInv
<1>6. CASE StopWait
    BY <1>6 DEF StopWait, Judge, Enter
<1>7. CASE Discard
    BY <1>7 DEF Discard, Enter, Unlink, Write
<1>8. CASE Refuse
    BY <1>8 DEF Refuse, Enter, Unlink, Write
<1>9. CASE ServerReady
    BY <1>9 DEF ServerReady, Judge, Enter
<1>10. CASE End
    BY <1>10 DEF End, Judge, Enter
<1>11. CASE OwnerDies
    BY <1>11 DEF OwnerDies, Enter
<1>12. CASE ClockMoves
    BY <1>12 DEF ClockMoves
<1>13. CASE Reboot
    BY <1>13 DEF Reboot, Enter
<1>14. ASSUME NEW p \in Pid, SpawnServer(p) PROVE RecoveryTypeOK'
    BY <1>14 DEF SpawnServer, Enter
<1>15. ASSUME NEW p \in Pid, CreateLock(p) PROVE RecoveryTypeOK'
    BY <1>15 DEF CreateLock, Write, Ends
<1>16. ASSUME NEW p \in Pid, WriteLock(p) PROVE RecoveryTypeOK'
    BY <1>16 DEF WriteLock, Write
<1>17. ASSUME NEW p \in Pid, ServerLeaves(p) PROVE RecoveryTypeOK'
    BY <1>17 DEF ServerLeaves, Unlink, Write
<1>18. ASSUME NEW p \in Pid, ProcessEnds(p) PROVE RecoveryTypeOK'
    BY <1>18 DEF ProcessEnds, Ends
<1>19. ASSUME NEW p \in Pid, ProcessStarts(p) PROVE RecoveryTypeOK'
    BY <1>19 DEF ProcessStarts
<1>20. CASE UNCHANGED recoveryVars
    BY <1>20
<1>21. QED
    BY <1>1, <1>2, <1>3, <1>4, <1>5, <1>6, <1>7, <1>8, <1>9, <1>10,
       <1>11, <1>12, <1>13, <1>14, <1>15, <1>16, <1>17, <1>18, <1>19, <1>20 DEF RecoveryNext

(* No step takes the lock file from a running server.                       *)
LEMMA RecoveryHoldsStep == RecoveryInv /\ [RecoveryNext]_recoveryVars => ServerHoldsLock'
<1> SUFFICES ASSUME RecoveryInv, [RecoveryNext]_recoveryVars PROVE ServerHoldsLock'
    OBVIOUS
<1> USE NoPidIsNone DEF RecoveryInv, RecoveryTypeOK, LockFile, Postmaster, Others, recoveryVars,
   lockVars, ownerVars,
   ServerHoldsLock
<1>1. CASE Begin
    BY <1>1 DEF Begin, Enter
<1>2. CASE InspectLock
    BY <1>2 DEF InspectLock, Enter
<1>3. CASE Observe
    BY <1>3 DEF Observe, Enter
<1>4. CASE Locate
    BY <1>4 DEF Locate, Judge, Identify, Enter
<1>5. CASE StopOrphan
    BY <1>5 DEF StopOrphan, Enter
<1>6. CASE StopWait
    BY <1>6 DEF StopWait, Judge, Enter
<1>7. CASE Discard
    BY <1>7 DEF Discard, Enter, Unlink, Write, JudgedInv, UsesCluster
<1>8. CASE Refuse
    BY <1>8 DEF Refuse, Enter, Unlink, Write, NoPostmaster
<1>9. CASE ServerReady
    BY <1>9 DEF ServerReady, Judge, Enter
<1>10. CASE End
    BY <1>10 DEF End, Judge, Enter
<1>11. CASE OwnerDies
    BY <1>11 DEF OwnerDies, Enter
<1>12. CASE ClockMoves
    BY <1>12 DEF ClockMoves
<1>13. CASE Reboot
    BY <1>13 DEF Reboot, Enter
<1>14. ASSUME NEW p \in Pid, SpawnServer(p) PROVE ServerHoldsLock'
    BY <1>14 DEF SpawnServer, Enter
<1>15. ASSUME NEW p \in Pid, CreateLock(p) PROVE ServerHoldsLock'
    BY <1>15 DEF CreateLock, Write, Ends, LockFileInv
<1>16. ASSUME NEW p \in Pid, WriteLock(p) PROVE ServerHoldsLock'
    BY <1>16 DEF WriteLock, Write, LockFileInv
<1>17. ASSUME NEW p \in Pid, ServerLeaves(p) PROVE ServerHoldsLock'
    BY <1>17 DEF ServerLeaves, Unlink, Write, LockFileInv
<1>18. ASSUME NEW p \in Pid, ProcessEnds(p) PROVE ServerHoldsLock'
    BY <1>18 DEF ProcessEnds, Ends
<1>19. ASSUME NEW p \in Pid, ProcessStarts(p) PROVE ServerHoldsLock'
    BY <1>19 DEF ProcessStarts
<1>20. CASE UNCHANGED recoveryVars
    BY <1>20
<1>21. QED
    BY <1>1, <1>2, <1>3, <1>4, <1>5, <1>6, <1>7, <1>8, <1>9, <1>10,
       <1>11, <1>12, <1>13, <1>14, <1>15, <1>16, <1>17, <1>18, <1>19, <1>20 DEF RecoveryNext

(* A lock file that is being written belongs to one postmaster.             *)
LEMMA RecoveryFileStep == RecoveryInv /\ [RecoveryNext]_recoveryVars => LockFileInv'
<1> SUFFICES ASSUME RecoveryInv, [RecoveryNext]_recoveryVars PROVE LockFileInv'
    OBVIOUS
<1> USE NoPidIsNone DEF RecoveryInv, RecoveryTypeOK, LockFile, Postmaster, Others, recoveryVars,
   lockVars, ownerVars,
   ServerHoldsLock, LockFileInv
<1>1. CASE Begin
    BY <1>1 DEF Begin, Enter
<1>2. CASE InspectLock
    BY <1>2 DEF InspectLock, Enter
<1>3. CASE Observe
    BY <1>3 DEF Observe, Enter
<1>4. CASE Locate
    BY <1>4 DEF Locate, Judge, Identify, Enter
<1>5. CASE StopOrphan
    BY <1>5 DEF StopOrphan, Enter
<1>6. CASE StopWait
    BY <1>6 DEF StopWait, Judge, Enter
<1>7. CASE Discard
    BY <1>7 DEF Discard, Enter, Unlink, Write, JudgedInv, UsesCluster
<1>8. CASE Refuse
    BY <1>8 DEF Refuse, Enter, Unlink, Write, NoPostmaster
<1>9. CASE ServerReady
    BY <1>9 DEF ServerReady, Judge, Enter
<1>10. CASE End
    BY <1>10 DEF End, Judge, Enter
<1>11. CASE OwnerDies
    BY <1>11 DEF OwnerDies, Enter
<1>12. CASE ClockMoves
    BY <1>12 DEF ClockMoves
<1>13. CASE Reboot
    BY <1>13 DEF Reboot, Enter
<1>14. ASSUME NEW p \in Pid, SpawnServer(p) PROVE LockFileInv'
    BY <1>14 DEF SpawnServer, Enter
<1>15. ASSUME NEW p \in Pid, CreateLock(p) PROVE LockFileInv'
    BY <1>15 DEF CreateLock, Write, Ends
<1>16. ASSUME NEW p \in Pid, WriteLock(p) PROVE LockFileInv'
    BY <1>16 DEF WriteLock, Write
<1>17. ASSUME NEW p \in Pid, ServerLeaves(p) PROVE LockFileInv'
    BY <1>17 DEF ServerLeaves, Unlink, Write
<1>18. ASSUME NEW p \in Pid, ProcessEnds(p) PROVE LockFileInv'
    BY <1>18 DEF ProcessEnds, Ends
<1>19. ASSUME NEW p \in Pid, ProcessStarts(p) PROVE LockFileInv'
    BY <1>19 DEF ProcessStarts
<1>20. CASE UNCHANGED recoveryVars
    BY <1>20
<1>21. QED
    BY <1>1, <1>2, <1>3, <1>4, <1>5, <1>6, <1>7, <1>8, <1>9, <1>10,
       <1>11, <1>12, <1>13, <1>14, <1>15, <1>16, <1>17, <1>18, <1>19, <1>20 DEF RecoveryNext

(* No step spawns a postmaster while the owner recovers the lock.           *)
LEMMA RecoveryPromptStep == RecoveryInv /\ [RecoveryNext]_recoveryVars => PromptInv'
<1> SUFFICES ASSUME RecoveryInv, [RecoveryNext]_recoveryVars PROVE PromptInv'
    OBVIOUS
<1> USE NoPidIsNone DEF RecoveryInv, RecoveryTypeOK, LockFile, Postmaster, Others, recoveryVars,
   lockVars, ownerVars,
   PromptInv, Recovering, Prompt
<1>1. CASE Begin
    BY <1>1 DEF Begin, Enter
<1>2. CASE InspectLock
    BY <1>2 DEF InspectLock, Enter
<1>3. CASE Observe
    BY <1>3 DEF Observe, Enter
<1>4. CASE Locate
    BY <1>4 DEF Locate, Judge, Identify, Enter
<1>5. CASE StopOrphan
    BY <1>5 DEF StopOrphan, Enter
<1>6. CASE StopWait
    BY <1>6 DEF StopWait, Judge, Enter
<1>7. CASE Discard
    BY <1>7 DEF Discard, Enter, Unlink, Write
<1>8. CASE Refuse
    BY <1>8 DEF Refuse, Enter, Unlink, Write
<1>9. CASE ServerReady
    BY <1>9 DEF ServerReady, Judge, Enter
<1>10. CASE End
    BY <1>10 DEF End, Judge, Enter
<1>11. CASE OwnerDies
    BY <1>11 DEF OwnerDies, Enter
<1>12. CASE ClockMoves
    BY <1>12 DEF ClockMoves
<1>13. CASE Reboot
    BY <1>13 DEF Reboot, Enter
<1>14. ASSUME NEW p \in Pid, SpawnServer(p) PROVE PromptInv'
    BY <1>14 DEF SpawnServer, Enter
<1>15. ASSUME NEW p \in Pid, CreateLock(p) PROVE PromptInv'
    BY <1>15 DEF CreateLock, Write, Ends
<1>16. ASSUME NEW p \in Pid, WriteLock(p) PROVE PromptInv'
    BY <1>16 DEF WriteLock, Write
<1>17. ASSUME NEW p \in Pid, ServerLeaves(p) PROVE PromptInv'
    BY <1>17 DEF ServerLeaves, Unlink, Write
<1>18. ASSUME NEW p \in Pid, ProcessEnds(p) PROVE PromptInv'
    BY <1>18 DEF ProcessEnds, Ends
<1>19. ASSUME NEW p \in Pid, ProcessStarts(p) PROVE PromptInv'
    BY <1>19 DEF ProcessStarts
<1>20. CASE UNCHANGED recoveryVars
    BY <1>20
<1>21. QED
    BY <1>1, <1>2, <1>3, <1>4, <1>5, <1>6, <1>7, <1>8, <1>9, <1>10,
       <1>11, <1>12, <1>13, <1>14, <1>15, <1>16, <1>17, <1>18, <1>19, <1>20 DEF RecoveryNext

(* What the recovery has concluded stays true until it acts on it.          *)
LEMMA RecoveryJudgedStep == RecoveryInv /\ [RecoveryNext]_recoveryVars => JudgedInv'
<1> SUFFICES ASSUME RecoveryInv, [RecoveryNext]_recoveryVars PROVE JudgedInv'
    OBVIOUS
<1> USE NoPidIsNone DEF RecoveryInv, RecoveryTypeOK, LockFile, Postmaster, Others, recoveryVars,
   lockVars, ownerVars,
   ServerHoldsLock, LockFileInv, PromptInv, Recovering, Prompt, JudgedInv, UsesCluster
<1>1. CASE Begin
    BY <1>1 DEF Begin, Enter
<1>2. CASE InspectLock
    BY <1>2 DEF InspectLock, Enter
<1>3. CASE Observe
    BY <1>3 DEF Observe, Enter
<1>4. CASE Locate
    BY <1>4 DEF Locate, Judge, Identify, Enter
<1>5. CASE StopOrphan
    BY <1>5 DEF StopOrphan, Enter
<1>6. CASE StopWait
    BY <1>6 DEF StopWait, Judge, Enter
<1>7. CASE Discard
    BY <1>7 DEF Discard, Enter, Unlink, Write
<1>8. CASE Refuse
    BY <1>8 DEF Refuse, Enter, Unlink, Write
<1>9. CASE ServerReady
    BY <1>9 DEF ServerReady, Judge, Enter
<1>10. CASE End
    BY <1>10 DEF End, Judge, Enter
<1>11. CASE OwnerDies
    BY <1>11 DEF OwnerDies, Enter
<1>12. CASE ClockMoves
    BY <1>12 DEF ClockMoves
<1>13. CASE Reboot
    BY <1>13 DEF Reboot, Enter
<1>14. ASSUME NEW p \in Pid, SpawnServer(p) PROVE JudgedInv'
    BY <1>14 DEF SpawnServer, Enter
<1>15. ASSUME NEW p \in Pid, CreateLock(p) PROVE JudgedInv'
    BY <1>15 DEF CreateLock, Write, Ends
<1>16. ASSUME NEW p \in Pid, WriteLock(p) PROVE JudgedInv'
    BY <1>16 DEF WriteLock, Write
<1>17. ASSUME NEW p \in Pid, ServerLeaves(p) PROVE JudgedInv'
    BY <1>17 DEF ServerLeaves, Unlink, Write
<1>18. ASSUME NEW p \in Pid, ProcessEnds(p) PROVE JudgedInv'
    BY <1>18 DEF ProcessEnds, Ends
<1>19. ASSUME NEW p \in Pid, ProcessStarts(p) PROVE JudgedInv'
    BY <1>19 DEF ProcessStarts
<1>20. CASE UNCHANGED recoveryVars
    BY <1>20
<1>21. QED
    BY <1>1, <1>2, <1>3, <1>4, <1>5, <1>6, <1>7, <1>8, <1>9, <1>10,
       <1>11, <1>12, <1>13, <1>14, <1>15, <1>16, <1>17, <1>18, <1>19, <1>20 DEF RecoveryNext

(* The recovery releases the lock only when nobody uses the cluster.        *)
LEMMA RecoveryReleasedStep == RecoveryInv /\ [RecoveryNext]_recoveryVars => ReleasedMeansStopped'
<1> SUFFICES ASSUME RecoveryInv, [RecoveryNext]_recoveryVars PROVE ReleasedMeansStopped'
    OBVIOUS
<1> USE NoPidIsNone DEF RecoveryInv, RecoveryTypeOK, LockFile, Postmaster, Others, recoveryVars,
   lockVars, ownerVars,
   ServerHoldsLock, LockFileInv, PromptInv, Recovering, Prompt, JudgedInv, UsesCluster,
           ReleasedMeansStopped
<1>1. CASE Begin
    BY <1>1 DEF Begin, Enter
<1>2. CASE InspectLock
    BY <1>2 DEF InspectLock, Enter
<1>3. CASE Observe
    BY <1>3 DEF Observe, Enter
<1>4. CASE Locate
    BY <1>4 DEF Locate, Judge, Identify, Enter
<1>5. CASE StopOrphan
    BY <1>5 DEF StopOrphan, Enter
<1>6. CASE StopWait
    BY <1>6 DEF StopWait, Judge, Enter
<1>7. CASE Discard
    BY <1>7 DEF Discard, Enter, Unlink, Write
<1>8. CASE Refuse
    BY <1>8 DEF Refuse, Enter, Unlink, Write
<1>9. CASE ServerReady
    BY <1>9 DEF ServerReady, Judge, Enter
<1>10. CASE End
    BY <1>10 DEF End, Judge, Enter
<1>11. CASE OwnerDies
    BY <1>11 DEF OwnerDies, Enter
<1>12. CASE ClockMoves
    BY <1>12 DEF ClockMoves
<1>13. CASE Reboot
    BY <1>13 DEF Reboot, Enter
<1>14. ASSUME NEW p \in Pid, SpawnServer(p) PROVE ReleasedMeansStopped'
    BY <1>14 DEF SpawnServer, Enter
<1>15. ASSUME NEW p \in Pid, CreateLock(p) PROVE ReleasedMeansStopped'
    BY <1>15 DEF CreateLock, Write, Ends
<1>16. ASSUME NEW p \in Pid, WriteLock(p) PROVE ReleasedMeansStopped'
    BY <1>16 DEF WriteLock, Write
<1>17. ASSUME NEW p \in Pid, ServerLeaves(p) PROVE ReleasedMeansStopped'
    BY <1>17 DEF ServerLeaves, Unlink, Write
<1>18. ASSUME NEW p \in Pid, ProcessEnds(p) PROVE ReleasedMeansStopped'
    BY <1>18 DEF ProcessEnds, Ends
<1>19. ASSUME NEW p \in Pid, ProcessStarts(p) PROVE ReleasedMeansStopped'
    BY <1>19 DEF ProcessStarts
<1>20. CASE UNCHANGED recoveryVars
    BY <1>20
<1>21. QED
    BY <1>1, <1>2, <1>3, <1>4, <1>5, <1>6, <1>7, <1>8, <1>9, <1>10,
       <1>11, <1>12, <1>13, <1>14, <1>15, <1>16, <1>17, <1>18, <1>19, <1>20 DEF RecoveryNext

(* The strengthened invariant holds in every reachable state.              *)
THEOREM RecoveryInvariant == RecoverySpec => []RecoveryInv
<1>1. RecoveryInv /\ [RecoveryNext]_recoveryVars => RecoveryInv'
    BY RecoveryTypeStep, RecoveryHoldsStep, RecoveryFileStep, RecoveryPromptStep,
       RecoveryJudgedStep, RecoveryReleasedStep DEF RecoveryInv
<1>2. QED
    BY <1>1, RecoveryInitInv, PTL DEF RecoverySpec

(* The variables keep their types.                                         *)
THEOREM RecoveryTypeCorrect == RecoverySpec => []RecoveryTypeOK
<1>1. RecoveryInv => RecoveryTypeOK
    BY DEF RecoveryInv
<1>2. QED
    BY <1>1, RecoveryInvariant, PTL

(* A running server never loses its lock file, so that there is one server. *)
THEOREM ServerIsAlone == RecoverySpec => []ServerHoldsLock
<1>1. RecoveryInv => ServerHoldsLock
    BY DEF RecoveryInv
<1>2. QED
    BY <1>1, RecoveryInvariant, PTL

(* A released lock means that no PostgreSQL uses the cluster.              *)
THEOREM ReleaseIsSafe == RecoverySpec => []ReleasedMeansStopped
<1>1. RecoveryInv => ReleasedMeansStopped
    BY DEF RecoveryInv
<1>2. QED
    BY <1>1, RecoveryInvariant, PTL

(* pg_ctl never signals a process that has come by the id of the server.    *)
THEOREM SignalsAreAimed == RecoverySpec => OnlyTheServerIsSignalled
<1> DEFINE Aimed == (step = "stopping" /\ step' = "waiting") =>
                       process[named] \in Postmaster \cup {"none"}
<1>1. RecoveryInv /\ [RecoveryNext]_recoveryVars => [Aimed]_recoveryVars
  <2> SUFFICES ASSUME RecoveryInv, [RecoveryNext]_recoveryVars, step = "stopping", step' = "waiting"
               PROVE  process[named] \in Postmaster \cup {"none"}
      OBVIOUS
  <2>1. lock = "complete"
      BY DEF RecoveryNext, recoveryVars, ownerVars, Begin, InspectLock, Observe, Locate,
         StopOrphan, StopWait,
             Discard, Refuse, ServerReady, End, OwnerDies, ClockMoves, Reboot, SpawnServer,
             CreateLock, WriteLock, ServerLeaves, ProcessEnds, ProcessStarts, Enter, Judge
  <2>2. QED
      BY <2>1 DEF RecoveryInv, JudgedInv
<1>2. QED
    BY <1>1, RecoveryInvariant, PTL DEF RecoverySpec, OnlyTheServerIsSignalled
=============================================================================
