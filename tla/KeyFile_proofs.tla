-------------------------- MODULE KeyFile_proofs ---------------------------
(***************************************************************************)
(* Proofs about KeyFile, for every set of clients, any number of key-mgmt  *)
(* processes beside the server, and every bound on the inodes.             *)
(***************************************************************************)
EXTENDS KeyFile, TLAPS

(* An edit of a well-typed snapshot is a well-typed snapshot, and is one   *)
(* Create, Update or Delete of its entries.                                *)
LEMMA EditLemma ==
  ASSUME NEW s \in Snapshot, NEW c \in Clients,
         NEW t \in Created(s, c) \cup Updated(s, c) \cup Deleted(s, c)
  PROVE  t \in Snapshot /\ OneEdit(s.ents, t.ents)
<1> USE DEF Snapshot, KeyState, OneEdit
<1>1. CASE t \in Created(s, c)
  <2>1. t = [s EXCEPT !.ents[c] = "on"]
    BY <1>1 DEF Created
  <2>2. t.ents = [s.ents EXCEPT ![c] = "on"]
    BY <2>1
  <2>3. QED
    BY <2>1, <2>2
<1>2. CASE t \in Updated(s, c)
  <2>1. PICK v \in {"on", "off"} : t = [s EXCEPT !.ents[c] = v] /\ s.ents[c] # "none"
    BY <1>2 DEF Updated
  <2>2. QED
    BY <2>1
<1>3. CASE t \in Deleted(s, c)
  <2>1. t = [s EXCEPT !.ents[c] = "none", !.raw = @ \ {c}] /\ s.ents[c] # "none"
    BY <1>3 DEF Deleted
  <2>2. t.ents = [s.ents EXCEPT ![c] = "none"]
    BY <2>1
  <2>3. QED
    BY <2>1, <2>2
<1>4. QED
  BY <1>1, <1>2, <1>3

(* The state a deployment starts from is well typed.                       *)
LEMMA InitType == Init => TypeOK
<1> SUFFICES ASSUME Init PROVE TypeOK
  OBVIOUS
<1>1. Empty \in Snapshot
  BY DEF Empty, Snapshot, KeyState
<1>2. /\ target \in Inodes \cup {NoFile}
      /\ whole \subseteq Inodes
      /\ files \in 0..MaxFiles
      /\ live \in Snapshot
  BY <1>1, KeyFileAssumption DEF Init, Inodes, NoFile
<1>3. QED
  BY <1>1, <1>2 DEF Init, TypeOK, Procs, Inodes, NoFile, Steps

(* No step of a save, of the server's boot or edits, or of the tool breaks *)
(* the types.                                                              *)
LEMMA TypeStep == TypeOK /\ [Next]_keyFileVars => TypeOK'
<1> SUFFICES ASSUME TypeOK, [Next]_keyFileVars
             PROVE  TypeOK'
  OBVIOUS
<1> USE KeyFileAssumption
        DEF TypeOK, Procs, Inodes, NoFile, Snapshot, KeyState, Empty, Steps
<1>1. ASSUME NEW p \in Procs, OpenForLock(p)
      PROVE  TypeOK'
  BY <1>1 DEF OpenForLock, Goto
<1>2. ASSUME NEW p \in Procs, Flock(p)
      PROVE  TypeOK'
  BY <1>2 DEF Flock, Goto
<1>3. ASSUME NEW p \in Procs, CreateTemp(p)
      PROVE  TypeOK'
  BY <1>3 DEF CreateTemp, Goto, NewTemp
<1>4. ASSUME NEW p \in Procs, WriteTemp(p)
      PROVE  TypeOK'
  BY <1>4 DEF WriteTemp, Goto
<1>5. ASSUME NEW p \in Procs, Rename(p)
      PROVE  TypeOK'
  BY <1>5 DEF Rename, Goto
<1>6. ASSUME NEW p \in Procs, Commit(p)
      PROVE  TypeOK'
  BY <1>6 DEF Commit, Goto, Release
<1>7. ASSUME NEW p \in Procs, SaveFails(p)
      PROVE  TypeOK'
  BY <1>7 DEF SaveFails, Goto, Saving, Release
<1>8. CASE Boot
  BY <1>8 DEF Boot, Goto, Load, Migrated
<1>9. CASE BackupCreate
  BY <1>9 DEF BackupCreate, Goto
<1>10. CASE BackupFill
  BY <1>10 DEF BackupFill, Goto
<1>11. CASE BackupFails
  BY <1>11 DEF BackupFails, Goto
<1>12. CASE ServerEdit
  <2>0. PICK c \in Clients :
           \E s \in Created(mem, c) \cup Updated(mem, c) \cup Deleted(mem, c) :
               draft' = [draft EXCEPT ![Server] = s]
    BY <1>12 DEF ServerEdit
  <2>1. PICK s \in Created(mem, c) \cup Updated(mem, c) \cup Deleted(mem, c) :
           draft' = [draft EXCEPT ![Server] = s]
    BY <2>0
  <2>2. s \in Snapshot /\ OneEdit(mem.ents, s.ents)
    BY EditLemma DEF TypeOK
  <2>3. QED
    BY <1>12, <2>1, <2>2 DEF ServerEdit, Goto
<1>13. CASE Crash
  BY <1>13 DEF Crash, Goto, Release
<1>14. ASSUME NEW p \in Tools, ToolEdit(p)
       PROVE  TypeOK'
  <2>1. Load \in Snapshot
    BY DEF Load
  <2>0. PICK c \in Clients :
           \E s \in Created(Load, c) \cup Updated(Load, c) :
               draft' = [draft EXCEPT ![p] = s]
    BY <1>14 DEF ToolEdit
  <2>2. PICK s \in Created(Load, c) \cup Updated(Load, c) :
           draft' = [draft EXCEPT ![p] = s]
    BY <2>0
  <2>3. s \in Snapshot
    BY <2>1, EditLemma
  <2>4. QED
    BY <1>14, <2>2, <2>3 DEF ToolEdit, Goto
<1>15. ASSUME NEW p \in Tools, ToolKilled(p)
       PROVE  TypeOK'
  BY <1>15 DEF ToolKilled, Goto, Saving, Release
<1>16. CASE UNCHANGED keyFileVars
  BY <1>16 DEF keyFileVars
<1>17. QED
  BY <1>1, <1>2, <1>3, <1>4, <1>5, <1>6, <1>7, <1>8,
     <1>9, <1>10, <1>11, <1>12, <1>13, <1>14, <1>15, <1>16 DEF Next, Save

(* Every reachable state of the keys file and its writers is well typed.   *)
THEOREM TypeCorrect == Spec => []TypeOK
BY InitType, TypeStep, PTL DEF Spec

---------------------------------------------------------------------------
(* No step lets two writers share a temp file or names an unfinished one.  *)
LEMMA FileStep == FileInv /\ [Next]_keyFileVars => FileInv'
<1> SUFFICES ASSUME FileInv, [Next]_keyFileVars
             PROVE  FileInv'
  OBVIOUS
<1> TypeOK'
  BY TypeStep DEF FileInv
<1> USE KeyFileAssumption
        DEF FileInv, TempsApart, FileWhole, TypeOK, Procs, Inodes, NoFile, Steps
<1>1. ASSUME NEW p \in Procs, OpenForLock(p)
      PROVE  FileInv'
  BY <1>1 DEF OpenForLock, Goto
<1>2. ASSUME NEW p \in Procs, Flock(p)
      PROVE  FileInv'
  BY <1>2 DEF Flock, Goto
<1>3. ASSUME NEW p \in Procs, CreateTemp(p)
      PROVE  FileInv'
  BY <1>3 DEF CreateTemp, Goto, NewTemp
<1>4. ASSUME NEW p \in Procs, WriteTemp(p)
      PROVE  FileInv'
  BY <1>4 DEF WriteTemp, Goto
<1>5. ASSUME NEW p \in Procs, Rename(p)
      PROVE  FileInv'
  BY <1>5 DEF Rename, Goto
<1>6. ASSUME NEW p \in Procs, Commit(p)
      PROVE  FileInv'
  BY <1>6 DEF Commit, Goto, Release
<1>7. ASSUME NEW p \in Procs, SaveFails(p)
      PROVE  FileInv'
  BY <1>7 DEF SaveFails, Goto, Saving, Release
<1>8. CASE Boot
  BY <1>8 DEF Boot, Goto, Load, Migrated
<1>9. CASE BackupCreate
  BY <1>9 DEF BackupCreate, Goto
<1>10. CASE BackupFill
  BY <1>10 DEF BackupFill, Goto
<1>11. CASE BackupFails
  BY <1>11 DEF BackupFails, Goto
<1>12. CASE ServerEdit
  BY <1>12 DEF ServerEdit, Goto
<1>13. CASE Crash
  BY <1>13 DEF Crash, Goto, Release
<1>14. ASSUME NEW p \in Tools, ToolEdit(p)
       PROVE  FileInv'
  BY <1>14 DEF ToolEdit, Goto
<1>15. ASSUME NEW p \in Tools, ToolKilled(p)
       PROVE  FileInv'
  BY <1>15 DEF ToolKilled, Goto, Saving, Release
<1>16. CASE UNCHANGED keyFileVars
  BY <1>16 DEF keyFileVars
<1>17. QED
  BY <1>1, <1>2, <1>3, <1>4, <1>5, <1>6, <1>7, <1>8,
     <1>9, <1>10, <1>11, <1>12, <1>13, <1>14, <1>15, <1>16 DEF Next, Save

(* However saves of the server and of any number of key-mgmt processes     *)
(* interleave, fail or are cut off, the path never names a half-written    *)
(* file: SaveKeysFile's temp file, fsync and rename are crash-safe.        *)
THEOREM FileAlwaysWhole == Spec => []FileWhole
<1>1. Init => FileInv
  BY InitType DEF Init, FileInv, TempsApart, FileWhole, NoFile, Procs, Inodes
<1>2. FileInv => FileWhole
  BY DEF FileInv
<1>3. QED
  BY <1>1, <1>2, FileStep, PTL DEF Spec

---------------------------------------------------------------------------
(* While no key-mgmt edit stands against the server's copy, no step         *)
(* separates memory, draft and file by more than one edit.                  *)
LEMMA SoleWriterStep ==
  TypeOK /\ SoleWriterInv /\ [Next]_keyFileVars => SoleWriterInv'
<1> SUFFICES ASSUME TypeOK, SoleWriterInv, [Next]_keyFileVars
             PROVE  SoleWriterInv'
  OBVIOUS
<1> TypeOK'
  BY TypeStep
<1>0. ASSUME NEW c \in Clients,
             NEW s \in Created(mem, c) \cup Updated(mem, c) \cup Deleted(mem, c)
      PROVE  OneEdit(mem.ents, s.ents)
  BY EditLemma DEF TypeOK
<1> USE KeyFileAssumption
        DEF SoleWriterInv, TypeOK, Procs, Inodes, NoFile, Snapshot, KeyState,
            Empty, Load, Saving
<1>1. ASSUME NEW p \in Procs, OpenForLock(p)
      PROVE  SoleWriterInv'
  BY <1>1 DEF OpenForLock, Goto
<1>2. ASSUME NEW p \in Procs, Flock(p)
      PROVE  SoleWriterInv'
  BY <1>2 DEF Flock, Goto
<1>3. ASSUME NEW p \in Procs, CreateTemp(p)
      PROVE  SoleWriterInv'
  BY <1>3 DEF CreateTemp, Goto, NewTemp
<1>4. ASSUME NEW p \in Procs, WriteTemp(p)
      PROVE  SoleWriterInv'
  BY <1>4 DEF WriteTemp, Goto
<1>5. ASSUME NEW p \in Procs, Rename(p)
      PROVE  SoleWriterInv'
  BY <1>5 DEF Rename, Goto
<1>6. ASSUME NEW p \in Procs, Commit(p)
      PROVE  SoleWriterInv'
  BY <1>6 DEF Commit, Goto, Release
<1>7. ASSUME NEW p \in Procs, SaveFails(p)
      PROVE  SoleWriterInv'
  BY <1>7 DEF SaveFails, Goto, Release
<1>8. CASE Boot
  BY <1>8 DEF Boot, Goto, Migrated, OneEdit
<1>9. CASE BackupCreate
  BY <1>9 DEF BackupCreate, Goto
<1>10. CASE BackupFill
  BY <1>10 DEF BackupFill, Goto
<1>11. CASE BackupFails
  BY <1>11 DEF BackupFails, Goto
<1>12. CASE ServerEdit
  <2>0. PICK c \in Clients :
           \E s \in Created(mem, c) \cup Updated(mem, c) \cup Deleted(mem, c) :
               draft' = [draft EXCEPT ![Server] = s]
    BY <1>12 DEF ServerEdit
  <2>1. PICK s \in Created(mem, c) \cup Updated(mem, c) \cup Deleted(mem, c) :
           draft' = [draft EXCEPT ![Server] = s]
    BY <2>0
  <2>2. QED
    BY <1>0, <1>12, <2>1 DEF ServerEdit, Goto
<1>13. CASE Crash
  BY <1>13 DEF Crash, Goto, Release
<1>14. ASSUME NEW p \in Tools, ToolEdit(p)
       PROVE  SoleWriterInv'
  BY <1>14 DEF ToolEdit, Goto
<1>15. ASSUME NEW p \in Tools, ToolKilled(p)
       PROVE  SoleWriterInv'
  BY <1>15 DEF ToolKilled, Goto, Release
<1>16. CASE UNCHANGED keyFileVars
  BY <1>16 DEF keyFileVars
<1>17. QED
  BY <1>1, <1>2, <1>3, <1>4, <1>5, <1>6, <1>7, <1>8,
     <1>9, <1>10, <1>11, <1>12, <1>13, <1>14, <1>15, <1>16 DEF Next, Save

(* A step that changes the file while no key-mgmt edit stands is the        *)
(* server's rename, and that is one registry operation.                     *)
LEMMA RegistryStep ==
  TypeOK /\ SoleWriterInv /\ [Next]_keyFileVars => [~tooled => Registry!Next]_(Load.ents)
<1> SUFFICES ASSUME TypeOK, SoleWriterInv, [Next]_keyFileVars, ~tooled
             PROVE  [Registry!Next]_(Load.ents)
  OBVIOUS
<1>1. ASSUME NEW p \in Procs, Rename(p)
      PROVE  [Registry!Next]_(Load.ents)
  <2>1. p = Server
    BY <1>1 DEF Procs, SoleWriterInv, Saving, Rename
  <2>2. Load.ents' = draft[Server].ents
    BY <1>1, <2>1 DEF Rename, Load, TypeOK, Inodes, NoFile, Procs
  <2>3. OneEdit(Load.ents, draft[Server].ents)
    BY <1>1, <2>1 DEF Rename, SoleWriterInv
  <2>4. QED
    BY <2>2, <2>3 DEF OneEdit, KeyState, Registry!Next, Registry!Create,
       Registry!Update, Registry!Delete
<1>2. (\A p \in Procs : ~Rename(p)) => UNCHANGED <<target, live>>
  BY DEF Next, Save, keyFileVars, OpenForLock, Flock, CreateTemp, WriteTemp, Commit,
         SaveFails, Boot, BackupCreate, BackupFill, BackupFails, ServerEdit, Crash,
         ToolEdit, ToolKilled
<1>3. QED
  BY <1>1, <1>2 DEF Load

(* Before the server runs its copy and the file cannot differ.              *)
LEMMA SoleWriterInit == Init => SoleWriterInv
BY KeyFileAssumption DEF Init, SoleWriterInv, Procs, Saving

(* A server that is not in the middle of a save holds in memory exactly     *)
(* what is on disk, whatever saves failed or crashes happened before, until *)
(* a key-mgmt process edits the file, and again once it has been restarted. *)
THEOREM ServesWhatIsOnDisk == Spec => []MemoryMatchesDisk
<1>1. SoleWriterInv => MemoryMatchesDisk
  BY DEF SoleWriterInv, MemoryMatchesDisk
<1>2. QED
  BY <1>1, SoleWriterInit, TypeCorrect, SoleWriterStep, PTL DEF Spec

(* Whatever crashes and failed saves happen, and however many key-mgmt      *)
(* processes there are, each change of the file while no edit of theirs is  *)
(* newer than the server's copy is one whole Create, Update or Delete.      *)
THEOREM RegistryBetweenTools == Spec => RegistryUntilTool
BY SoleWriterInit, TypeCorrect, SoleWriterStep, RegistryStep, PTL DEF Spec, RegistryUntilTool

(* With the server as its only writer the keys file implements the          *)
(* abstract registry.                                                       *)
THEOREM ImplementsRegistry ==
  ASSUME Tools = {}
  PROVE  Spec => RegistrySpec
<1>1. Init => Registry!Init
  BY DEF Init, Registry!Init, Registry!States, Load, Snapshot, KeyState, Empty, NoFile
<1>2. Init => ~tooled
  BY DEF Init
<1>3. ~tooled /\ [Next]_keyFileVars => ~tooled'
  BY DEF Next, Save, keyFileVars, OpenForLock, Flock, CreateTemp, WriteTemp, Rename, Commit,
         SaveFails, Boot, BackupCreate, BackupFill, BackupFails, ServerEdit, Crash,
         ToolEdit, ToolKilled
<1>4. ~tooled /\ [~tooled => Registry!Next]_(Load.ents) => [Registry!Next]_(Load.ents)
  OBVIOUS
<1>5. QED
  BY <1>1, <1>2, <1>3, <1>4, SoleWriterInit, TypeCorrect, SoleWriterStep, RegistryStep, PTL
     DEF Spec, RegistrySpec, Registry!Spec

=============================================================================
