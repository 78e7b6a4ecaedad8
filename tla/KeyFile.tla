------------------------------ MODULE KeyFile ------------------------------
(***************************************************************************)
(* The API keys file (MCP_API_KEYS_FILE) and the processes that write it:  *)
(* the server's ManagedKeyStore, and the key-mgmt command-line tool.       *)
(*                                                                         *)
(* The file system is a set of inodes, one of which the path names.  A     *)
(* save opens the path, takes a non-blocking flock on the inode it opened, *)
(* writes a temp file and renames it over the path; the rename replaces    *)
(* the inode, the lock stays on the old one.  The server keeps its entries *)
(* in memory from boot on; the tool loads the file, edits and saves, with  *)
(* no lock between load and save.                                          *)
(*                                                                         *)
(* An entry is abstracted to whether its client has a key and whether it   *)
(* is enabled; renew and set-roles edit other fields in the same way as    *)
(* enable and disable.  "raw" is the set of clients whose entry still      *)
(* holds an tooled key (the pre-8.6 format the server migrates at boot). *)
(***************************************************************************)
EXTENDS Naturals

CONSTANTS
    Clients,
    Server,      \* the server process
    Tools,       \* concurrent key-mgmt invocations
    MayBeMissing, \* may the first start find no keys file
    MaxFiles     \* bound: number of inodes ever created at or beside the path

ASSUME KeyFileAssumption ==
    /\ Server \notin Tools
    /\ MayBeMissing \in BOOLEAN
    /\ MaxFiles \in Nat \ {0}

Procs == Tools \cup {Server}
Inodes == 1..MaxFiles
NoFile == 0

VARIABLES
    target,      \* the inode the path names, or NoFile
    live,        \* the snapshot the path's inode holds
    whole,       \* the inodes whose contents are completely written
    files,       \* inodes created so far
    tooled,      \* observer: key-mgmt edited the file after the server's last load
    backup,      \* <path>.pre-migration: "none", "partial" or "full"
    mem,         \* ManagedKeyStore.entries (the server's memory)
    pc,          \* control point of each process
    fd,          \* the inode a saving process opened, or NoFile
    locked,      \* the inode a process holds a flock on, or NoFile
    temp,        \* the temp inode a saving process writes
    draft        \* the snapshot a process is about to save

keyFileVars == <<target, live, whole, files, tooled, backup, mem, pc, fd, locked, temp, draft>>

KeyState == {"none", "on", "off"}
Snapshot == [ents : [Clients -> KeyState], raw : SUBSET Clients]
Empty == [ents |-> [c \in Clients |-> "none"], raw |-> {}]
Steps == {"down", "backup", "fill", "ready", "open", "lock", "create", "write",
          "rename", "commit"}
Saving(p) == pc[p] \in {"open", "lock", "create", "write", "rename", "commit"}

\* A parsed file: LoadKeysFile of a missing file is the empty key set for
\* both the server and the tool (fs.ErrNotExist is not an error).
Load == IF target = NoFile THEN Empty ELSE live

\* migrateLegacyEntries: hash every raw key in place.
Migrated(s) == [s EXCEPT !.raw = {}]

\* A valid file, migrated or not, or none at all; the server is not running.
Init ==
    /\ \/ MayBeMissing /\ target = NoFile /\ files = 0 /\ whole = {} /\ live = Empty
       \/ /\ target = 1 /\ files = 1 /\ whole = {1}
          /\ live \in {s \in Snapshot : \A c \in s.raw : s.ents[c] # "none"}
    /\ tooled = FALSE
    /\ backup = "none"
    /\ mem = Empty
    /\ pc = [p \in Procs |-> IF p = Server THEN "down" ELSE "ready"]
    /\ fd = [p \in Procs |-> NoFile]
    /\ locked = [p \in Procs |-> NoFile]
    /\ temp = [p \in Procs |-> NoFile]
    /\ draft = [p \in Procs |-> Empty]

---------------------------------------------------------------------------
(* Edits.  Each yields the snapshot to save, from the one it started from. *)

\* ManagedKeyStore.Create and key-mgmt create: refuse a client already there.
Created(s, c) ==
    IF s.ents[c] = "none" THEN {[s EXCEPT !.ents[c] = "on"]} ELSE {}

\* ManagedKeyStore.Update and key-mgmt enable, disable, renew, set-roles.
Updated(s, c) ==
    IF s.ents[c] # "none" THEN {[s EXCEPT !.ents[c] = v] : v \in {"on", "off"}} ELSE {}

\* ManagedKeyStore.Delete; the tool has no delete.
Deleted(s, c) ==
    IF s.ents[c] # "none" THEN {[s EXCEPT !.ents[c] = "none", !.raw = @ \ {c}]} ELSE {}

---------------------------------------------------------------------------
(* SaveKeysFile, one step per system call that another process can see.    *)

Goto(p, step) == pc' = [pc EXCEPT ![p] = step]

\* withExclusiveLock: open the path.  A missing file is not locked.
OpenForLock(p) ==
    /\ pc[p] = "open"
    /\ fd' = [fd EXCEPT ![p] = target]
    /\ Goto(p, IF target = NoFile THEN "create" ELSE "lock")
    /\ UNCHANGED <<target, live, whole, files, tooled, backup, mem, locked, temp, draft>>

\* flock(LOCK_EX | LOCK_NB) on the inode that was opened.
Flock(p) ==
    /\ pc[p] = "lock"
    /\ \A q \in Procs : locked[q] # fd[p]
    /\ locked' = [locked EXCEPT ![p] = fd[p]]
    /\ Goto(p, "create")
    /\ UNCHANGED <<target, live, whole, files, tooled, backup, mem, fd, temp, draft>>

\* Mutation: one fixed temp name, which a second writer truncates and reuses.
NewTempFixed == IF files < 2 THEN files + 1 ELSE files

\* os.CreateTemp never reuses a name.
NewTemp == files + 1

\* writeKeysAtomic: create the temp file, empty so far.
CreateTemp(p) ==
    /\ pc[p] = "create"
    /\ NewTemp \in Inodes
    /\ files' = NewTemp
    /\ temp' = [temp EXCEPT ![p] = NewTemp]
    /\ whole' = whole \ {NewTemp}
    /\ Goto(p, "write")
    /\ UNCHANGED <<target, live, tooled, backup, mem, fd, locked, draft>>

\* Write, fsync and close the temp file.
WriteTemp(p) ==
    /\ pc[p] = "write"
    /\ whole' = whole \cup {temp[p]}
    /\ Goto(p, "rename")
    /\ UNCHANGED <<target, live, files, tooled, backup, mem, fd, locked, temp, draft>>

\* Rename over the path: the save's commit point.
Rename(p) ==
    /\ pc[p] = "rename"
    /\ target' = temp[p]
    /\ live' = draft[p]
    /\ whole' = whole \ {target}
    /\ Goto(p, "commit")
    /\ UNCHANGED <<files, tooled, backup, mem, fd, locked, temp, draft>>

\* What a process forgets when its save is over: the descriptor, with it the
\* flock, and the temp name.
Release(p) ==
    /\ fd' = [fd EXCEPT ![p] = NoFile]
    /\ locked' = [locked EXCEPT ![p] = NoFile]
    /\ temp' = [temp EXCEPT ![p] = NoFile]
    /\ draft' = [draft EXCEPT ![p] = Empty]

\* Mutation: a Create, Update or Delete that forgets to swap in what it saved.
CommitWithoutSwap(p) ==
    /\ pc[p] = "commit"
    /\ Release(p)
    /\ Goto(p, "ready")
    /\ UNCHANGED <<target, live, whole, files, tooled, backup, mem>>

\* SaveKeysFile returns nil; the server swaps its entries and index.
Commit(p) ==
    /\ pc[p] = "commit"
    /\ mem' = IF p = Server THEN draft[p] ELSE mem
    /\ Release(p)
    /\ Goto(p, "ready")
    /\ UNCHANGED <<target, live, whole, files, tooled, backup>>

\* SaveKeysFile returns an error from any step before the rename (the lock is
\* taken, or a system call fails): memory and the path are left alone and the
\* temp file is removed.
SaveFails(p) ==
    /\ Saving(p)
    /\ pc[p] # "commit"
    /\ Release(p)
    /\ Goto(p, "ready")
    /\ UNCHANGED <<target, live, whole, files, tooled, backup, mem>>

---------------------------------------------------------------------------
(* The server: boot with migration, then admin CRUD.                       *)

\* NewManagedKeyStoreWithHasher: load, normalise in memory, and if anything
\* was raw, back up and re-save.
Boot ==
    /\ pc[Server] = "down"
    /\ mem' = Migrated(Load)
    /\ draft' = [draft EXCEPT ![Server] = IF Load.raw = {} THEN Empty ELSE Migrated(Load)]
    /\ Goto(Server, IF Load.raw = {} THEN "ready"
                    ELSE IF backup = "none" THEN "backup" ELSE "open")
    /\ tooled' = \E p \in Tools : Saving(p)
    /\ UNCHANGED <<target, live, whole, files, backup, fd, locked, temp>>

\* writePreMigrationBackup: os.WriteFile creates the backup ...
BackupCreate ==
    /\ pc[Server] = "backup"
    /\ backup' = "partial"
    /\ Goto(Server, "fill")
    /\ UNCHANGED <<target, live, whole, files, tooled, mem, fd, locked, temp, draft>>

\* ... and then fills it.
BackupFill ==
    /\ pc[Server] = "fill"
    /\ backup' = "full"
    /\ Goto(Server, "open")
    /\ UNCHANGED <<target, live, whole, files, tooled, mem, fd, locked, temp, draft>>

\* The backup cannot be written: WARN, no re-save, the server starts.
BackupFails ==
    /\ pc[Server] \in {"backup", "fill"}
    /\ draft' = [draft EXCEPT ![Server] = Empty]
    /\ Goto(Server, "ready")
    /\ UNCHANGED <<target, live, whole, files, tooled, backup, mem, fd, locked, temp>>

\* Mutation: the edit is applied to memory before the save.
ServerEditEager ==
    /\ pc[Server] = "ready"
    /\ \E c \in Clients :
          \E s \in Created(mem, c) \cup Updated(mem, c) \cup Deleted(mem, c) :
              draft' = [draft EXCEPT ![Server] = s] /\ mem' = s
    /\ Goto(Server, "open")
    /\ UNCHANGED <<target, live, whole, files, tooled, backup, fd, locked, temp>>

\* An admin Create, Update or Delete: the edit of the server's memory, under
\* its mutex until the save is over.
ServerEdit ==
    /\ pc[Server] = "ready"
    /\ \E c \in Clients :
          \E s \in Created(mem, c) \cup Updated(mem, c) \cup Deleted(mem, c) :
              draft' = [draft EXCEPT ![Server] = s]
    /\ Goto(Server, "open")
    /\ UNCHANGED <<target, live, whole, files, tooled, backup, mem, fd, locked, temp>>

\* The server stops at any point.
Crash ==
    /\ pc[Server] # "down"
    /\ mem' = Empty
    /\ Release(Server)
    /\ Goto(Server, "down")
    /\ UNCHANGED <<target, live, whole, files, tooled, backup>>

---------------------------------------------------------------------------
(* The key-mgmt tool.                                                      *)

\* loadOrInit and the edit; the save follows.
ToolEdit(p) ==
    /\ pc[p] = "ready"
    /\ \E c \in Clients :
          \E s \in Created(Load, c) \cup Updated(Load, c) :
              draft' = [draft EXCEPT ![p] = s]
    /\ Goto(p, "open")
    /\ tooled' = TRUE
    /\ UNCHANGED <<target, live, whole, files, backup, mem, fd, locked, temp>>

\* The tool is killed mid-save; the kernel drops its flock.
ToolKilled(p) ==
    /\ Saving(p)
    /\ Release(p)
    /\ Goto(p, "ready")
    /\ UNCHANGED <<target, live, whole, files, tooled, backup, mem>>

Save(p) ==
    \/ OpenForLock(p) \/ Flock(p) \/ CreateTemp(p) \/ WriteTemp(p)
    \/ Rename(p) \/ Commit(p) \/ SaveFails(p)

Next ==
    \/ \E p \in Procs : Save(p)
    \/ Boot \/ BackupCreate \/ BackupFill \/ BackupFails
    \/ ServerEdit \/ Crash
    \/ \E p \in Tools : ToolEdit(p) \/ ToolKilled(p)

Spec == Init /\ [][Next]_keyFileVars

---------------------------------------------------------------------------
(* Properties.                                                             *)

(* Type correctness of the file system, the server's memory and the        *)
(* processes saving.                                                       *)
TypeOK ==
    /\ target \in Inodes \cup {NoFile}
    /\ live \in Snapshot
    /\ whole \subseteq Inodes
    /\ files \in 0..MaxFiles
    /\ tooled \in BOOLEAN
    /\ backup \in {"none", "partial", "full"}
    /\ mem \in Snapshot
    /\ pc \in [Procs -> Steps]
    /\ fd \in [Procs -> Inodes \cup {NoFile}]
    /\ locked \in [Procs -> Inodes \cup {NoFile}]
    /\ temp \in [Procs -> Inodes \cup {NoFile}]
    /\ \A p \in Procs : pc[p] \in {"write", "rename"} => temp[p] \in Inodes
    /\ draft \in [Procs -> Snapshot]

(* Whatever crashes, fails or races, the path never names a half-written   *)
(* keys file: the next boot can always load it (SaveKeysFile's temp file,  *)
(* fsync, rename).                                                         *)
FileWhole == target # NoFile => target \in whole

(* A server that is serving and not in the middle of a save authenticates  *)
(* exactly the keys that are on disk, so a restart changes nothing; and no *)
(* failed save leaves memory ahead of the disk.  The one exception is a    *)
(* key-mgmt edit since the server loaded the file: ManagedKeyStore does    *)
(* not read it again.                                                      *)
MemoryMatchesDisk == pc[Server] = "ready" /\ ~tooled => mem.ents = Load.ents

(* The keys file behaves as the abstract registry: every change of what    *)
(* the path holds is one operation applied to what it held before, so no   *)
(* acknowledged change is ever overwritten (SaveKeysFile: the flock guards *)
(* against admin CLI and server overwriting each other).                   *)
Registry == INSTANCE KeyRegistry WITH registry <- Load.ents
RegistrySpec == Registry!Spec

(* The same of every change that happens while no key-mgmt edit has been   *)
(* made since the server loaded the file: through crashes, failed saves    *)
(* and the boot migration each one is a whole Create, Update or Delete of  *)
(* what the file held, and restarting the server after key-mgmt is enough  *)
(* to restore that.                                                        *)
RegistryUntilTool == [][~tooled => Registry!Next]_(Load.ents)

---------------------------------------------------------------------------
(* The inductive strengthenings used by the proofs.                        *)

\* A temp file belongs to one process, is not the live file, and is complete
\* before it is renamed.
TempsApart ==
    /\ target <= files
    /\ \A p \in Procs : pc[p] \in {"write", "rename"} =>
          temp[p] <= files /\ temp[p] # target
    /\ \A p \in Procs : pc[p] = "rename" => temp[p] \in whole
    /\ \A p, q \in Procs : /\ p # q
                           /\ pc[p] \in {"write", "rename"}
                           /\ pc[q] \in {"write", "rename"}
                           => temp[p] # temp[q]

FileInv == TypeOK /\ TempsApart /\ FileWhole

\* d is m, or m after one Create, Update or Delete.
OneEdit(m, d) ==
    \/ d = m
    \/ \E c \in Clients, v \in KeyState :
          d = [m EXCEPT ![c] = v] /\ (v = "on" \/ m[c] # "none")

\* While no key-mgmt edit stands against the server's copy: no tool is saving,
\* until the rename the path still holds what memory holds and the draft is
\* one edit away, and after it the path holds the draft.
SoleWriterInv ==
    ~tooled =>
      /\ \A p \in Tools : ~Saving(p)
      /\ pc[Server] \in {"ready", "backup", "fill", "open", "lock", "create", "write",
                         "rename"} => mem.ents = Load.ents
      /\ pc[Server] \in {"backup", "fill", "open", "lock", "create", "write", "rename"}
            => OneEdit(mem.ents, draft[Server].ents)
      /\ pc[Server] = "commit" => draft[Server].ents = Load.ents
=============================================================================
