--------------------------------- MODULE Vfs --------------------------------
(***************************************************************************)
(* The file system of fs/vfs.c over the sectors of the drive, with power   *)
(* losses.  Every operation works on the table in memory at once (the      *)
(* kernel is single threaded and the timer interrupt touches none of this) *)
(* and then vfs_sync rewrites the whole table on the drive, inode by       *)
(* inode and sector by sector; the power can go between any two sectors.   *)
(*                                                                         *)
(* A drive_write_sector is one step and durable when it returns.  A call   *)
(* that returns early with an error has changed nothing, so it is a        *)
(* stuttering step here, except vfs_write_file on an over-long content.    *)
(***************************************************************************)
EXTENDS InodeTable, FiniteSets

CONSTANTS
    Content,    \* contents passed to vfs_write_file, sequences of blocks
    DotDot,     \* the path ".." of vfs_cd
    Slash,      \* the path "/" of vfs_cd
    InitName,   \* the name tools/mkfs.py installs its file under
    InitData,   \* the blocks of that file
    MaxTorn     \* bound on the power losses that interrupt a vfs_sync

ASSUME ContentAssumption ==
    /\ Content \subseteq Seq(Block \ {ZeroBlock})
    /\ InitData \in Seq(Block \ {ZeroBlock})
    /\ InitName \in Name

ASSUME TornAssumption == MaxTorn \in Nat

VARIABLES
    inode_array,  \* the table in memory
    disk,         \* the table on the drive
    current_dir,  \* the directory the shell is in
    pc,           \* "off", "idle" (no call in progress) or "sync"
    cursor,       \* inode and sector vfs_sync writes next
    torn          \* power losses that hit a vfs_sync so far

vars == <<inode_array, disk, current_dir, pc, cursor, torn>>

TypeOK ==
    /\ inode_array \in [Inodes -> Inode]
    /\ disk \in [Inodes -> Inode]
    /\ current_dir \in Inodes
    /\ pc \in {"off", "idle", "sync"}
    /\ cursor \in [i : Inodes, s : Sectors]
    /\ torn \in 0 .. MaxTorn

-----------------------------------------------------------------------------
FirstSector == [i |-> 0, s |-> 0]

Root == [Zeroed EXCEPT !.type = "INODE_DIR"]

\* The image of tools/mkfs.py: the root, and one file in inode 1.
MkfsImage ==
    LET root == [Root EXCEPT !.dir_entries = <<1>>]
        file == [Zeroed EXCEPT !.name = Stored[InitName],
                               !.type = "INODE_FILE"]
    IN  [i \in Inodes |->
            IF i = 0 THEN root
            ELSE IF i = 1 THEN Overwritten(file, InitData) ELSE Zeroed]

\* A drive is blank or carries an installed image; the machine is off.
Init ==
    /\ disk \in {ZeroTable, MkfsImage}
    /\ inode_array = ZeroTable
    /\ current_dir = 0
    /\ pc = "off"
    /\ cursor = FirstSector
    /\ torn = 0

StartSync ==
    /\ pc' = "sync"
    /\ cursor' = FirstSector

\* vfs_load, which reads every sector of the table and keeps no part of it out.
Loaded == disk

\* Mutant: the root is formatted without looking at what the drive has.
Boot_AlwaysFormats ==
    /\ pc = "off"
    /\ current_dir' = 0
    /\ inode_array' = [Loaded EXCEPT ![0] = Root]
    /\ StartSync
    /\ UNCHANGED <<disk, torn>>

\* vfs_init: load the table, and format the root if there is none.
Boot ==
    /\ pc = "off"
    /\ current_dir' = 0
    /\ IF Loaded[0].type = "INODE_DIR"
          THEN /\ inode_array' = Loaded
               /\ pc' = "idle"
               /\ UNCHANGED cursor
          ELSE /\ inode_array' = [Loaded EXCEPT ![0] = Root]
               /\ StartSync
    /\ UNCHANGED <<disk, torn>>

WriteSector ==
    disk' = [disk EXCEPT ![cursor.i] =
                SectorCopied(@, inode_array[cursor.i], cursor.s)]

\* The two loops of vfs_sync, over inodes below ni and sectors below ns.
AdvanceCursor(ni, ns) ==
    IF cursor.s < ns - 1
       THEN cursor' = [cursor EXCEPT !.s = @ + 1] /\ UNCHANGED pc
       ELSE IF cursor.i < ni - 1
          THEN cursor' = [i |-> cursor.i + 1, s |-> 0] /\ UNCHANGED pc
          ELSE cursor' = FirstSector /\ pc' = "idle"

\* Mutant: the outer loop leaves out the last inode.
SyncSector_ShortTable ==
    /\ pc = "sync"
    /\ WriteSector
    /\ AdvanceCursor(MAX_INODES - 1, INODE_SECTORS)
    /\ UNCHANGED <<inode_array, current_dir, torn>>

\* Mutant: the inner loop leaves out the last, partly used sector.
SyncSector_ShortInode ==
    /\ pc = "sync"
    /\ WriteSector
    /\ AdvanceCursor(MAX_INODES, INODE_SECTORS - 1)
    /\ UNCHANGED <<inode_array, current_dir, torn>>

\* One drive_write_sector of vfs_sync, and the advance of its two loops.
SyncSector ==
    /\ pc = "sync"
    /\ WriteSector
    /\ AdvanceCursor(MAX_INODES, INODE_SECTORS)
    /\ UNCHANGED <<inode_array, current_dir, torn>>

-----------------------------------------------------------------------------
vfs_mkdir(name) ==
    /\ pc = "idle"
    /\ \E idx \in Inodes :
          /\ CanMkdir(inode_array, current_dir, name, idx)
          /\ inode_array' =
                Created(inode_array, current_dir, name, "INODE_DIR", idx)
    /\ StartSync
    /\ UNCHANGED <<disk, current_dir, torn>>

\* Mutant: the new file is not synced.
vfs_touch_NoSync(name) ==
    /\ pc = "idle"
    /\ \E idx \in Inodes :
          /\ CanCreate(inode_array, current_dir, name, idx)
          /\ inode_array' =
                Created(inode_array, current_dir, name, "INODE_FILE", idx)
    /\ UNCHANGED <<disk, current_dir, pc, cursor, torn>>

vfs_touch(name) ==
    /\ pc = "idle"
    /\ \E idx \in Inodes :
          /\ CanCreate(inode_array, current_dir, name, idx)
          /\ inode_array' =
                Created(inode_array, current_dir, name, "INODE_FILE", idx)
    /\ StartSync
    /\ UNCHANGED <<disk, current_dir, torn>>

\* The inode written is the file found under the name, or a new one.  A
\* content that does not fit is cut, and the call returns without a sync.
vfs_write_file(name, content) ==
    /\ pc = "idle"
    /\ \E idx \in Inodes :
          LET T == inode_array
              new == Created(T, current_dir, name, "INODE_FILE", idx)
          IN  \/ /\ Match(T, current_dir, name, idx)
                 /\ T[idx].type = "INODE_FILE"
                 /\ inode_array' = [T EXCEPT ![idx] = Overwritten(@, content)]
              \/ /\ CanCreate(T, current_dir, name, idx)
                 /\ inode_array' = [new EXCEPT ![idx] = Overwritten(@, content)]
    /\ IF WriteLength(content) < Len(content)
          THEN UNCHANGED <<pc, cursor>>
          ELSE StartSync
    /\ UNCHANGED <<disk, current_dir, torn>>

\* Mutant: the inode found is not checked to be a directory.
vfs_cd_NoTypeCheck(path) ==
    /\ pc = "idle"
    /\ \/ /\ path = DotDot
          /\ current_dir' = IF current_dir = 0
                               THEN 0
                               ELSE inode_array[current_dir].parent_inode
       \/ path = Slash /\ current_dir' = 0
       \/ /\ path \notin {DotDot, Slash}
          /\ \E idx \in Inodes :
                /\ Match(inode_array, current_dir, path, idx)
                /\ current_dir' = idx
    /\ UNCHANGED <<inode_array, disk, pc, cursor, torn>>

vfs_cd(path) ==
    /\ pc = "idle"
    /\ \/ /\ path = DotDot
          /\ current_dir' = IF current_dir = 0
                               THEN 0
                               ELSE inode_array[current_dir].parent_inode
       \/ path = Slash /\ current_dir' = 0
       \/ /\ path \notin {DotDot, Slash}
          /\ \E idx \in Inodes :
                /\ Match(inode_array, current_dir, path, idx)
                /\ inode_array[idx].type = "INODE_DIR"
                /\ current_dir' = idx
    /\ UNCHANGED <<inode_array, disk, pc, cursor, torn>>

\* The power fails, or the machine is reset: memory is gone.  Only a loss
\* that interrupts a sync counts against the bound.
PowerLoss ==
    /\ pc # "off"
    /\ pc = "sync" => torn < MaxTorn
    /\ torn' = IF pc = "sync" THEN torn + 1 ELSE torn
    /\ inode_array' = ZeroTable
    /\ current_dir' = 0
    /\ pc' = "off"
    /\ cursor' = FirstSector
    /\ UNCHANGED disk

Next ==
    \/ Boot
    \/ SyncSector
    \/ \E name \in Name : vfs_mkdir(name) \/ vfs_touch(name)
    \/ \E name \in Name, content \in Content : vfs_write_file(name, content)
    \/ \E path \in Name \cup {DotDot, Slash} : vfs_cd(path)
    \/ PowerLoss

Spec == Init /\ [][Next]_vars

\* The kernel keeps executing while the power is on, and is powered on
\* again.  Nothing is promised of the user.
Fairness == WF_vars(Boot) /\ WF_vars(SyncSector)

FairSpec == Spec /\ Fairness

-----------------------------------------------------------------------------
(***************************************************************************)
(* Properties of a table, used on the drive's and on the memory's.         *)
(***************************************************************************)

\* Every inode but the root is listed by the directory it names as parent.
ParentsListChildren(T) ==
    \A i \in Allocated(T) \ {0} :
        LET p == T[i].parent_inode IN
        T[p].type = "INODE_DIR" /\ i \in EntriesOf(T, p)

\* Parents lie below their children and directories below their entries.
LinksPointUp(T) ==
    /\ \A i \in Allocated(T) \ {0} : T[i].parent_inode < i
    /\ \A d \in Allocated(T) : \A e \in EntriesOf(T, d) : d < e

\* The indices vfs_pwd stores in path[], the root's repeated at the end.
PwdPath(T, dir) ==
    LET up[k \in 0 .. MAX_INODES] ==
            IF k = 0 THEN dir
            ELSE IF up[k - 1] = 0 THEN 0 ELSE T[up[k - 1]].parent_inode
    IN  up

LinksTo(T, i) ==
    {link \in Inodes \X (1 .. MAX_DIR_ENTRIES) :
        LET entries == T[link[1]].dir_entries IN
        link[2] \in DOMAIN entries /\ entries[link[2]] = i}

-----------------------------------------------------------------------------
(***************************************************************************)
(* Safety.                                                                 *)
(***************************************************************************)

\* Whenever the power goes, no inode on the drive is an orphan: vfs_sync
\* writes a directory before the inodes it has just been given, so what it
\* has written of a new tree is always reachable from the root.
NoOrphan == ParentsListChildren(disk)

\* Neither cd down through listings nor cd .. up through parents can go
\* round in a circle, on the drive or in memory, even after torn syncs have
\* left inodes listed twice.
Acyclic == LinksPointUp(disk) /\ LinksPointUp(inode_array)

\* The unchecked loop of vfs_pwd reaches the root before it has filled
\* path[32], which has one place per inode.
PwdReachesRoot == PwdPath(inode_array, current_dir)[MAX_INODES - 1] = 0

\* vfs_ls, vfs_mkdir and find_inode_in_dir index with current_dir, which
\* vfs_mkdir never checks to be a directory.
CurrentDirIsDir ==
    pc = "idle" => inode_array[current_dir].type = "INODE_DIR"

\* An inode is listed once; each torn sync can leave at most one more link
\* to it, when the directory was written and the new inode was not.
LinkedOncePerTear ==
    \A i \in Allocated(inode_array) :
        Cardinality(LinksTo(inode_array, i)) <= 1 + torn

\* Two inodes with one parent have different names, unless a longer name is
\* stored as that one: the duplicate check compares the full name asked for
\* with the cut names stored.
SiblingNamesDiffer ==
    \A i, j \in Allocated(inode_array) \ {0} :
        /\ i # j
        /\ inode_array[i].parent_inode = inode_array[j].parent_inode
        /\ inode_array[i].name = inode_array[j].name
        => \E long \in Name :
              long # Stored[long] /\ Stored[long] = inode_array[i].name

\* Between calls the drive lags behind memory only because of a write that
\* was cut: in a file that is full, or in the directory that lists it.
DriveLagsOnlyByCutWrites ==
    pc = "idle" =>
        \A i \in Inodes : disk[i] # inode_array[i] =>
            LET full(j) == /\ inode_array[j].type = "INODE_FILE"
                           /\ inode_array[j].size = MAX_FILE_SIZE
            IN  full(i) \/ \E j \in EntriesOf(inode_array, i) :
                              full(j) /\ disk[j].type = "INODE_FREE"

\* As long as no sync was torn, a file's size covers only blocks that a
\* caller wrote.
SizeCoversWrittenBlocks ==
    pc = "idle" /\ torn = 0 =>
        \A i \in Inodes : \A s \in 0 .. inode_array[i].size - 1 :
            inode_array[i].data[s] # ZeroBlock

\* What the drive has once been given it keeps: no later operation, torn
\* sync or reboot frees an inode on the drive, renames it, turns a file into
\* a directory or moves it, although freed-looking indices are reused.
DriveNeverForgets ==
    [][\A i \in Allocated(disk) :
          /\ disk'[i].type = disk[i].type
          /\ disk'[i].name = disk[i].name
          /\ disk'[i].parent_inode = disk[i].parent_inode
          /\ EntriesOf(disk, i) \subseteq EntriesOf(disk', i)]_vars

-----------------------------------------------------------------------------
(***************************************************************************)
(* Liveness and refinement.                                                *)
(***************************************************************************)

\* An inode that a sync has set out to write is on the drive some time
\* later, unless the power goes first.
SyncedInodeArrives ==
    \A i \in Inodes :
        (pc = "sync" /\ inode_array[i].type # "INODE_FREE")
            ~> (disk[i].type # "INODE_FREE" \/ pc = "off")

TreeOf(T) ==
    {[idx |-> i, name |-> T[i].name, dir |-> T[i].type = "INODE_DIR",
      parent |-> T[i].parent_inode] : i \in Allocated(T)}

\* The tree the system has: memory's, or the drive's when it is off.
Tree ==
    INSTANCE DurableTree WITH
        Index <- Inodes,
        NodeName <- Name \cup {NoName},
        ImageTree <- TreeOf(MkfsImage),
        tree <- IF pc = "off" THEN TreeOf(disk) ELSE TreeOf(inode_array),
        durable <- TreeOf(disk)

\* The file system implements the tree it promises: creating an inode is
\* one abstract Create, writing its first sector one Commit, and a power
\* loss or reboot loses exactly what was not committed.
ImplementsDurableTree == Tree!TreeSpec
=============================================================================
