----------------------------- MODULE InodeTable -----------------------------
(***************************************************************************)
(* The inode table of fs/file.c and fs/file.h as a value, and the          *)
(* operators that look a name up in it and add an inode to it.  The file   *)
(* system keeps one such table in memory (inode_array) and one on the      *)
(* drive; module Vfs owns both variables.                                  *)
(*                                                                         *)
(* Data is abstracted to what the properties tell apart.  A name is an     *)
(* element of Name, and Stored is the effect of strncpy(.., 31) on it.     *)
(* dir_entries is the sequence of the first num_entries array elements.    *)
(* File contents are counted in blocks, one block being the data bytes     *)
(* that one sector of the inode carries, so MAX_FILE_SIZE is INODE_SECTORS *)
(* blocks and sector s of an inode holds block s.                          *)
(***************************************************************************)
EXTENDS Naturals, Sequences

CONSTANTS
    MAX_INODES,      \* entries of the inode table
    MAX_DIR_ENTRIES, \* entries of one directory
    INODE_SECTORS,   \* sectors of one inode on the drive
    Name,            \* names a caller may pass, too long ones included
    NoName,          \* the empty name of a zeroed inode and of the root
    Stored,          \* Stored[n] is the name an inode created as n holds
    Block,           \* contents of one block of file data
    ZeroBlock        \* the block that memset leaves

ASSUME SizeAssumption ==
    /\ MAX_INODES \in Nat \ {0, 1}
    /\ MAX_DIR_ENTRIES \in Nat
    /\ INODE_SECTORS \in Nat \ {0}

\* Cutting a name at MAX_FILENAME - 1 characters twice is cutting it once.
ASSUME NameAssumption ==
    /\ NoName \notin Name
    /\ Stored \in [Name -> Name]
    /\ \A n \in Name : Stored[Stored[n]] = Stored[n]

ASSUME BlockAssumption == ZeroBlock \in Block

Inodes == 0 .. MAX_INODES - 1
Sectors == 0 .. INODE_SECTORS - 1
MAX_FILE_SIZE == INODE_SECTORS
InodeType == {"INODE_FREE", "INODE_FILE", "INODE_DIR"}

Inode ==
    [ name : Name \cup {NoName},
      type : InodeType,
      size : 0 .. MAX_FILE_SIZE,
      parent_inode : Inodes,
      dir_entries : Seq(Inodes),
      data : [Sectors -> Block] ]

Zeroed ==
    [ name |-> NoName, type |-> "INODE_FREE", size |-> 0, parent_inode |-> 0,
      dir_entries |-> <<>>, data |-> [s \in Sectors |-> ZeroBlock] ]

ZeroTable == [i \in Inodes |-> Zeroed]

Allocated(T) == {i \in Inodes : T[i].type # "INODE_FREE"}

EntriesOf(T, dir) ==
    {T[dir].dir_entries[k] : k \in DOMAIN T[dir].dir_entries}

\* Mutant: the search for a free inode runs from the top of the table.
FirstFree_FromTheTop(T, idx) ==
    /\ T[idx].type = "INODE_FREE"
    /\ \A j \in Inodes : idx < j => T[j].type # "INODE_FREE"

\* find_free_inode and the loop of vfs_mkdir return the lowest free index.
FirstFree(T, idx) ==
    /\ T[idx].type = "INODE_FREE"
    /\ \A j \in Inodes : j < idx => T[j].type # "INODE_FREE"

\* The k-th entry of dir is the first whose inode holds exactly this name.
MatchAt(T, dir, name, k) == T[T[dir].dir_entries[k]].name = name

\* Mutant: the loop over the entries ends one entry early.
NoMatch_ShortLoop(T, dir, name) ==
    \/ T[dir].type # "INODE_DIR"
    \/ \A k \in 1 .. Len(T[dir].dir_entries) - 1 : ~MatchAt(T, dir, name, k)

NoMatch(T, dir, name) ==
    \/ T[dir].type # "INODE_DIR"
    \/ \A k \in DOMAIN T[dir].dir_entries : ~MatchAt(T, dir, name, k)

Match(T, dir, name, idx) ==
    /\ T[dir].type = "INODE_DIR"
    /\ \E k \in DOMAIN T[dir].dir_entries :
          /\ T[dir].dir_entries[k] = idx
          /\ MatchAt(T, dir, name, k)
          /\ \A j \in 1 .. k - 1 : ~MatchAt(T, dir, name, j)

\* The checks vfs_mkdir makes before it touches anything: it takes the type
\* of the directory on trust.
CanMkdir(T, dir, name, idx) ==
    /\ FirstFree(T, idx)
    /\ Len(T[dir].dir_entries) < MAX_DIR_ENTRIES
    /\ NoMatch(T, dir, name)

\* The checks of file_create.
CanCreate(T, dir, name, idx) ==
    /\ T[dir].type = "INODE_DIR"
    /\ CanMkdir(T, dir, name, idx)

\* Mutant: parent_inode is left as memset left it.
Created_NoParent(T, dir, name, type, idx) ==
    [T EXCEPT ![idx] = [Zeroed EXCEPT !.name = Stored[name], !.type = type],
              ![dir].dir_entries = Append(@, idx)]

\* Mutant: parent_inode is given the inode's own index.
Created_OwnParent(T, dir, name, type, idx) ==
    [T EXCEPT ![idx] = [Zeroed EXCEPT !.name = Stored[name],
                                      !.type = type,
                                      !.parent_inode = idx],
              ![dir].dir_entries = Append(@, idx)]

\* The inode is cleared and filled in, then appended to its parent.
Created(T, dir, name, type, idx) ==
    [T EXCEPT ![idx] = [Zeroed EXCEPT !.name = Stored[name],
                                      !.type = type,
                                      !.parent_inode = dir],
              ![dir].dir_entries = Append(@, idx)]

\* file_write at position 0: the bytes past MAX_FILE_SIZE are not taken.
WriteLength(content) ==
    IF Len(content) > MAX_FILE_SIZE THEN MAX_FILE_SIZE ELSE Len(content)

Overwritten(node, content) ==
    LET n == WriteLength(content) IN
    [node EXCEPT !.data = [s \in Sectors |->
                              IF s < n THEN content[s + 1] ELSE node.data[s]],
                 !.size = IF n > node.size THEN n ELSE node.size]

\* What sector s of an inode holds once it has been overwritten from src:
\* sector 0 carries the whole header, every sector carries its own block.
SectorCopied(dst, src, s) ==
    [(IF s = 0 THEN src ELSE dst) EXCEPT
        !.data = [dst.data EXCEPT ![s] = src.data[s]]]
=============================================================================
