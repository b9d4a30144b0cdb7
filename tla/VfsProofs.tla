------------------------------ MODULE VfsProofs -----------------------------
(***************************************************************************)
(* Proofs about Vfs, for every number of inodes, directory entries and     *)
(* sectors per inode and for any number of power losses.                   *)
(*                                                                         *)
(* The inductive invariant relates the two tables: the drive's is a        *)
(* subtree of memory's (Extends), and its headers are memory's up to the   *)
(* cursor of vfs_sync (Progress).  Since find_free_inode takes the lowest  *)
(* free index, both tables are allocated from the bottom up (DownClosed),  *)
(* so a parent lies below its children and is written before them.         *)
(*                                                                         *)
(* Every step is classified once (StepKinds): what it adds to memory, and  *)
(* how much of it the sync brought to the drive.  The invariants about the *)
(* lag of the drive, written blocks, sibling names and the number of links *)
(* and the refinement of DurableTree are read off that classification.     *)
(* That the walk of vfs_pwd ends is shown by induction over the table.     *)
(***************************************************************************)
EXTENDS Vfs, FiniteSetTheorems, WellFoundedInduction, TLAPS

\* The part of an inode that its sector 0 carries, as far as the tree goes.
SameHeader(m, n) ==
    /\ m.name = n.name
    /\ m.type = n.type
    /\ m.parent_inode = n.parent_inode
    /\ m.dir_entries = n.dir_entries

DownClosed(T) ==
    \A i, j \in Inodes :
        j < i /\ T[i].type # "INODE_FREE" => T[j].type # "INODE_FREE"

TableOK(T) ==
    /\ DownClosed(T)
    /\ ParentsListChildren(T)
    /\ LinksPointUp(T)

\* The inodes T has are in U, under the same names and with the same links.
Keeps(T, U) ==
    \A i \in Allocated(T) :
        /\ U[i].name = T[i].name
        /\ U[i].type = T[i].type
        /\ U[i].parent_inode = T[i].parent_inode
        /\ EntriesOf(T, i) \subseteq EntriesOf(U, i)

\* The kernel works in a directory of a tree that has its root.
CwdOK ==
    /\ disk[0].type \in {"INODE_FREE", "INODE_DIR"}
    /\ pc # "off" =>
          /\ inode_array[0].type = "INODE_DIR"
          /\ inode_array[current_dir].type = "INODE_DIR"

Extends == pc # "off" => Keeps(disk, inode_array)

Written(i) == i < cursor.i \/ (i = cursor.i /\ cursor.s # 0)

Progress ==
    pc = "sync" =>
        \A i \in Inodes : Written(i) => SameHeader(disk[i], inode_array[i])

IInv ==
    /\ TypeOK
    /\ TableOK(disk)
    /\ TableOK(inode_array)
    /\ CwdOK
    /\ Extends
    /\ Progress

-----------------------------------------------------------------------------
(***************************************************************************)
(* The operators of the table.                                             *)
(***************************************************************************)

\* memset gives a well-typed inode.
LEMMA ZeroedType == Zeroed \in Inode /\ Root \in Inode
<1>1. 0 \in Inodes /\ 0 \in 0 .. MAX_FILE_SIZE
  BY SizeAssumption DEF Inodes, MAX_FILE_SIZE
<1>2. <<>> \in Seq(Inodes) /\ [s \in Sectors |-> ZeroBlock] \in [Sectors -> Block]
  BY BlockAssumption
<1>3. Zeroed \in Inode
  BY <1>1, <1>2 DEF Zeroed, Inode, InodeType
<1>4. Root \in Inode
  BY <1>3 DEF Root, Inode, InodeType
<1> QED
  BY <1>3, <1>4

\* file_write keeps an inode well typed and leaves its header alone.
LEMMA OverwrittenType ==
    ASSUME NEW n \in Inode, NEW c \in Seq(Block)
    PROVE  /\ Overwritten(n, c) \in Inode
           /\ SameHeader(Overwritten(n, c), n)
<1> DEFINE L == WriteLength(c)
           d == [s \in Sectors |-> IF s < L THEN c[s + 1] ELSE n.data[s]]
           z == IF L > n.size THEN L ELSE n.size
<1>1. L \in 0 .. MAX_FILE_SIZE /\ L <= Len(c)
  BY SizeAssumption DEF WriteLength, MAX_FILE_SIZE
<1>2. d \in [Sectors -> Block]
  <2>1. \A k \in 1 .. Len(c) : c[k] \in Block
    OBVIOUS
  <2>2. \A s \in Sectors : s < L => s + 1 \in 1 .. Len(c)
    BY <1>1, SizeAssumption DEF Sectors
  <2>3. n.data \in [Sectors -> Block]
    BY DEF Inode
  <2> HIDE DEF L
  <2> QED
    BY <2>1, <2>2, <2>3
<1>3. z \in 0 .. MAX_FILE_SIZE
  BY <1>1 DEF Inode
<1>4. Overwritten(n, c) = [n EXCEPT !.data = d, !.size = z]
  BY DEF Overwritten
<1> HIDE DEF L, d, z
<1> QED
  BY <1>2, <1>3, <1>4 DEF Inode, SameHeader

\* Writing a sector keeps an inode well typed; sector 0 brings the header.
LEMMA SectorCopiedType ==
    ASSUME NEW m \in Inode, NEW n \in Inode, NEW s \in Sectors
    PROVE  /\ SectorCopied(m, n, s) \in Inode
           /\ SameHeader(SectorCopied(m, n, s), IF s = 0 THEN n ELSE m)
<1> DEFINE d == [m.data EXCEPT ![s] = n.data[s]]
           b == IF s = 0 THEN n ELSE m
<1>1. d \in [Sectors -> Block]
  BY DEF Inode
<1>2. b \in Inode
  OBVIOUS
<1>3. SectorCopied(m, n, s) = [b EXCEPT !.data = d]
  BY DEF SectorCopied
<1> HIDE DEF d, b
<1> QED
  BY <1>1, <1>2, <1>3 DEF Inode, SameHeader, b

\* Creating an inode keeps the table well typed, and changes only the header
\* of the new inode and the entries of its directory.
LEMMA CreatedType ==
    ASSUME NEW T \in [Inodes -> Inode], NEW dir \in Inodes, NEW name \in Name,
           NEW type \in InodeType, NEW idx \in Inodes, idx # dir
    PROVE  LET U == Created(T, dir, name, type, idx) IN
           /\ U \in [Inodes -> Inode]
           /\ U[idx].name = Stored[name]
           /\ U[idx].type = type
           /\ U[idx].parent_inode = dir
           /\ U[idx].dir_entries = <<>>
           /\ U[dir].name = T[dir].name
           /\ U[dir].type = T[dir].type
           /\ U[dir].parent_inode = T[dir].parent_inode
           /\ U[dir].dir_entries = Append(T[dir].dir_entries, idx)
           /\ \A k \in Inodes \ {idx, dir} : U[k] = T[k]
<1> DEFINE new == [Zeroed EXCEPT !.name = Stored[name], !.type = type,
                                 !.parent_inode = dir]
           old == [T[dir] EXCEPT !.dir_entries = Append(@, idx)]
<1>1. new \in Inode /\ new.name = Stored[name] /\ new.type = type
      /\ new.parent_inode = dir /\ new.dir_entries = <<>>
  BY ZeroedType, NameAssumption DEF Inode, Zeroed
<1>2. old \in Inode /\ old.name = T[dir].name /\ old.type = T[dir].type
      /\ old.parent_inode = T[dir].parent_inode
      /\ old.dir_entries = Append(T[dir].dir_entries, idx)
  <2>1. Append(T[dir].dir_entries, idx) \in Seq(Inodes)
    BY DEF Inode
  <2>2. T[dir] \in Inode
    OBVIOUS
  <2> DEFINE n == T[dir]
             e == Append(T[dir].dir_entries, idx)
  <2>3. old = [n EXCEPT !.dir_entries = e]
    OBVIOUS
  <2> HIDE DEF n, e
  <2>4. n \in Inode /\ e \in Seq(Inodes)
    BY <2>1, <2>2 DEF n, e
  <2>5. /\ old \in Inode /\ old.name = n.name /\ old.type = n.type
        /\ old.parent_inode = n.parent_inode /\ old.dir_entries = e
    BY <2>3, <2>4 DEF Inode
  <2> QED
    BY <2>5 DEF n, e
<1>3. Created(T, dir, name, type, idx) = [T EXCEPT ![idx] = new, ![dir] = old]
  BY DEF Created
<1> HIDE DEF new, old
<1> QED
  BY <1>1, <1>2, <1>3

\* An entry appended to a directory is added to the set of its entries.
LEMMA AppendEntries ==
    ASSUME NEW S \in Seq(Inodes), NEW idx \in Inodes
    PROVE  LET A == Append(S, idx) IN
           {A[k] : k \in DOMAIN A} = {S[k] : k \in DOMAIN S} \cup {idx}
<1> DEFINE A == Append(S, idx)
<1>1. Len(A) = Len(S) + 1 /\ A[Len(S) + 1] = idx /\ Len(S) \in Nat
  OBVIOUS
<1>2. \A k \in 1 .. Len(S) : A[k] = S[k]
  OBVIOUS
<1>3. DOMAIN A = 1 .. Len(S) + 1 /\ DOMAIN S = 1 .. Len(S)
  OBVIOUS
<1> HIDE DEF A
<1> QED
  BY <1>1, <1>2, <1>3

-----------------------------------------------------------------------------
(***************************************************************************)
(* What each kind of change does to the structure of a table.              *)
(***************************************************************************)

\* U is T with a new inode idx under the directory dir.
Adds(T, U, dir, idx) ==
    /\ U[idx].type \in {"INODE_FILE", "INODE_DIR"}
    /\ U[idx].parent_inode = dir
    /\ U[idx].dir_entries = <<>>
    /\ U[dir].name = T[dir].name
    /\ U[dir].type = T[dir].type
    /\ U[dir].parent_inode = T[dir].parent_inode
    /\ U[dir].dir_entries = Append(T[dir].dir_entries, idx)
    /\ \A k \in Inodes \ {idx, dir} : SameHeader(U[k], T[k])

\* Equal headers mean equal entries.
LEMMA SameEntries ==
    ASSUME NEW T, NEW U, NEW i, SameHeader(T[i], U[i])
    PROVE  EntriesOf(T, i) = EntriesOf(U, i)
BY DEF SameHeader, EntriesOf

\* A change of sizes and data changes nothing of the structure.
LEMMA SameTable ==
    ASSUME NEW T \in [Inodes -> Inode], NEW U, TableOK(T),
           \A k \in Inodes : SameHeader(U[k], T[k])
    PROVE  TableOK(U) /\ Keeps(T, U)
<1>1. \A k \in Inodes : EntriesOf(U, k) = EntriesOf(T, k)
  BY SameEntries
<1>2. Allocated(U) = Allocated(T)
  BY DEF Allocated, SameHeader
<1>3. DownClosed(U)
  BY DEF TableOK, DownClosed, SameHeader
<1>4. LinksPointUp(U)
  BY <1>1, <1>2 DEF TableOK, LinksPointUp, SameHeader, Allocated
<1>5. ParentsListChildren(U)
  <2> SUFFICES ASSUME NEW i \in Allocated(U) \ {0}
               PROVE  /\ U[U[i].parent_inode].type = "INODE_DIR"
                      /\ i \in EntriesOf(U, U[i].parent_inode)
    BY DEF ParentsListChildren
  <2> DEFINE p == T[i].parent_inode
  <2>1. T[p].type = "INODE_DIR" /\ i \in EntriesOf(T, p)
    BY <1>2 DEF TableOK, ParentsListChildren
  <2>2. p \in Inodes
    BY <1>2 DEF Inode, Allocated
  <2> QED
    BY <1>1, <2>1, <2>2 DEF SameHeader, Allocated
<1> QED
  BY <1>1, <1>3, <1>4, <1>5 DEF TableOK, Keeps, SameHeader, Allocated

\* A new inode takes the lowest free index, which is above all that are
\* allocated, so both its links point up.
LEMMA AddKeepsTable ==
    ASSUME NEW T \in [Inodes -> Inode], NEW U \in [Inodes -> Inode],
           TableOK(T), NEW dir \in Inodes, T[dir].type = "INODE_DIR",
           NEW idx \in Inodes, FirstFree(T, idx), Adds(T, U, dir, idx)
    PROVE  TableOK(U) /\ Keeps(T, U)
<1>1. \A k \in Inodes : T[k].type # "INODE_FREE" <=> k < idx
  BY DEF FirstFree, TableOK, DownClosed, Inodes
<1>2. dir < idx /\ dir # idx /\ idx # 0
  BY <1>1 DEF Inodes
<1>3. \A k \in Inodes : U[k].type # "INODE_FREE" <=> k <= idx
  <2> SUFFICES ASSUME NEW k \in Inodes
               PROVE  U[k].type # "INODE_FREE" <=> k <= idx
    OBVIOUS
  <2>1. CASE k = idx
    BY <2>1 DEF Adds, Inodes
  <2>2. CASE k = dir
    BY <2>2, <1>2 DEF Adds, Inodes
  <2>3. CASE k \notin {idx, dir}
    BY <2>3, <1>1 DEF Adds, SameHeader, Inodes
  <2> QED
    BY <2>1, <2>2, <2>3
<1>4. EntriesOf(U, idx) = {}
  BY DEF Adds, EntriesOf
<1>5. EntriesOf(U, dir) = EntriesOf(T, dir) \cup {idx}
  <2> DEFINE S == T[dir].dir_entries
             A == Append(S, idx)
  <2>1. S \in Seq(Inodes)
    BY DEF Inode
  <2>2. {A[k] : k \in DOMAIN A} = {S[k] : k \in DOMAIN S} \cup {idx}
    <3> HIDE DEF S
    <3> QED
      BY <2>1, AppendEntries
  <2>3. U[dir].dir_entries = A
    BY DEF Adds
  <2> HIDE DEF A
  <2> QED
    BY <2>2, <2>3 DEF EntriesOf
<1>6. \A k \in Inodes \ {idx, dir} : EntriesOf(U, k) = EntriesOf(T, k)
  BY SameEntries DEF Adds
<1>7. \A k \in Inodes \ {idx} :
         /\ U[k].name = T[k].name
         /\ U[k].type = T[k].type
         /\ U[k].parent_inode = T[k].parent_inode
         /\ EntriesOf(T, k) \subseteq EntriesOf(U, k)
  BY <1>5, <1>6 DEF Adds, SameHeader
<1>8. DownClosed(U)
  BY <1>3 DEF DownClosed, Inodes
<1>9. LinksPointUp(U)
  <2>1. ASSUME NEW i \in Allocated(U) \ {0} PROVE U[i].parent_inode < i
    <3>1. CASE i = idx
      BY <3>1, <1>2 DEF Adds
    <3>2. CASE i # idx
      BY <3>2, <1>1, <1>3, <1>7
         DEF TableOK, LinksPointUp, Allocated, Inodes
    <3> QED
      BY <3>1, <3>2
  <2>2. ASSUME NEW d \in Allocated(U), NEW e \in EntriesOf(U, d) PROVE d < e
    <3>1. CASE d = idx
      BY <3>1, <1>4
    <3>2. CASE d # idx
      <4>1. d \in Allocated(T)
        BY <3>2, <1>7 DEF Allocated
      <4>2. e \in EntriesOf(T, d) \/ (d = dir /\ e = idx)
        BY <3>2, <1>5, <1>6 DEF Allocated
      <4> QED
        BY <4>1, <4>2, <1>2 DEF TableOK, LinksPointUp
    <3> QED
      BY <3>1, <3>2
  <2> QED
    BY <2>1, <2>2 DEF LinksPointUp
<1>10. ParentsListChildren(U)
  <2> SUFFICES ASSUME NEW i \in Allocated(U) \ {0}
               PROVE  /\ U[U[i].parent_inode].type = "INODE_DIR"
                      /\ i \in EntriesOf(U, U[i].parent_inode)
    BY DEF ParentsListChildren
  <2>1. CASE i = idx
    BY <2>1, <1>5 DEF Adds
  <2>2. CASE i # idx
    <3> DEFINE p == T[i].parent_inode
    <3>1. i \in Allocated(T) \ {0}
      BY <2>2, <1>7 DEF Allocated
    <3>2. T[p].type = "INODE_DIR" /\ i \in EntriesOf(T, p)
      BY <3>1 DEF TableOK, ParentsListChildren
    <3>3. p \in Inodes
      BY <3>1 DEF Inode, Allocated
    <3>4. p # idx
      BY <3>2, <3>3, <1>1 DEF Inodes
    <3> QED
      BY <2>2, <3>2, <3>3, <3>4, <1>7 DEF Allocated
  <2> QED
    BY <2>1, <2>2
<1>11. Keeps(T, U)
  BY <1>1, <1>7 DEF Keeps, Allocated, Inodes
<1> QED
  BY <1>8, <1>9, <1>10, <1>11 DEF TableOK

\* A header that arrives on the drive D after those of all lower inodes, and
\* of which D has at most an older version, fits into its tree.
LEMMA HeaderArrives ==
    ASSUME NEW D \in [Inodes -> Inode], NEW M \in [Inodes -> Inode],
           NEW E \in [Inodes -> Inode], NEW i \in Inodes,
           TableOK(D), TableOK(M), Keeps(D, M),
           \A k \in Inodes : k < i => SameHeader(D[k], M[k]),
           SameHeader(E[i], M[i]),
           \A k \in Inodes \ {i} : E[k] = D[k]
    PROVE  TableOK(E) /\ Keeps(D, E) /\ Keeps(E, M)
<1>1. EntriesOf(E, i) = EntriesOf(M, i)
  BY SameEntries
<1>2. \A k \in Inodes \ {i} : EntriesOf(E, k) = EntriesOf(D, k)
  BY DEF EntriesOf
<1>3. Keeps(D, E)
  BY <1>1, <1>2 DEF Keeps, SameHeader, Allocated
<1>4. Keeps(E, M)
  BY <1>1, <1>2 DEF Keeps, SameHeader, Allocated
<1>5. \A k \in Inodes : k < i => SameHeader(E[k], M[k])
  BY DEF Inodes
<1>6. \A k \in Inodes : D[k].type # "INODE_FREE" => E[k].type # "INODE_FREE"
  BY <1>3 DEF Keeps, Allocated
<1>7. DownClosed(E)
  <2> SUFFICES ASSUME NEW k \in Inodes, NEW j \in Inodes, j < k,
                      E[k].type # "INODE_FREE"
               PROVE  E[j].type # "INODE_FREE"
    BY DEF DownClosed
  <2>1. CASE k = i
    BY <2>1, <1>5 DEF TableOK, DownClosed, SameHeader
  <2>2. CASE k # i
    BY <2>2, <1>6 DEF TableOK, DownClosed
  <2> QED
    BY <2>1, <2>2
<1>8. LinksPointUp(E)
  BY <1>1, <1>2 DEF TableOK, LinksPointUp, SameHeader, Allocated
<1>9. ParentsListChildren(E)
  <2> SUFFICES ASSUME NEW k \in Allocated(E) \ {0}
               PROVE  /\ E[E[k].parent_inode].type = "INODE_DIR"
                      /\ k \in EntriesOf(E, E[k].parent_inode)
    BY DEF ParentsListChildren
  <2>1. CASE k = i
    <3> DEFINE p == M[i].parent_inode
    <3>1. i \in Allocated(M) \ {0} /\ p \in Inodes
      BY <2>1 DEF Allocated, SameHeader, Inode
    <3>2. M[p].type = "INODE_DIR" /\ i \in EntriesOf(M, p) /\ p < i
      BY <3>1 DEF TableOK, ParentsListChildren, LinksPointUp
    <3>3. SameHeader(E[p], M[p])
      BY <3>1, <3>2, <1>5
    <3>4. EntriesOf(E, p) = EntriesOf(M, p)
      BY <3>3, SameEntries
    <3> QED
      BY <2>1, <3>2, <3>3, <3>4 DEF SameHeader
  <2>2. CASE k # i
    <3> DEFINE p == D[k].parent_inode
    <3>1. k \in Allocated(D) \ {0} /\ p \in Inodes
      BY <2>2 DEF Allocated, Inode
    <3>2. D[p].type = "INODE_DIR" /\ k \in EntriesOf(D, p)
      BY <3>1 DEF TableOK, ParentsListChildren
    <3>3. p \in Allocated(D)
      BY <3>1, <3>2 DEF Allocated
    <3> QED
      BY <2>2, <3>2, <3>3, <1>3 DEF Keeps, Allocated
  <2> QED
    BY <2>1, <2>2
<1> QED
  BY <1>3, <1>4, <1>7, <1>8, <1>9 DEF TableOK

-----------------------------------------------------------------------------
(***************************************************************************)
(* The invariant: it holds of a blank and of an installed drive, and each  *)
(* action preserves it.                                                    *)
(***************************************************************************)

\* A zeroed table is a well-formed tree with no inode in it.
LEMMA ZeroTableOK ==
    /\ ZeroTable \in [Inodes -> Inode]
    /\ TableOK(ZeroTable)
    /\ Allocated(ZeroTable) = {}
    /\ 0 \in Inodes /\ ZeroTable[0].type = "INODE_FREE"
<1>1. \A i \in Inodes : ZeroTable[i].type = "INODE_FREE"
  BY DEF ZeroTable, Zeroed
<1>2. Allocated(ZeroTable) = {}
  BY <1>1 DEF Allocated
<1>3. ZeroTable \in [Inodes -> Inode]
  BY ZeroedType DEF ZeroTable
<1>4. TableOK(ZeroTable)
  BY <1>1, <1>2 DEF TableOK, DownClosed, ParentsListChildren, LinksPointUp
<1> QED
  BY <1>1, <1>2, <1>3, <1>4, SizeAssumption DEF Inodes

\* mkfs.py writes a well-formed tree of the root and one file.
LEMMA MkfsImageOK ==
    /\ MkfsImage \in [Inodes -> Inode]
    /\ TableOK(MkfsImage)
    /\ MkfsImage[0].type = "INODE_DIR"
<1> DEFINE root == [Root EXCEPT !.dir_entries = <<1>>]
           file == [Zeroed EXCEPT !.name = Stored[InitName],
                                  !.type = "INODE_FILE"]
           f == Overwritten(file, InitData)
<1>1. 0 \in Inodes /\ 1 \in Inodes
  BY SizeAssumption DEF Inodes
<1>2. root \in Inode /\ root.type = "INODE_DIR" /\ root.dir_entries = <<1>>
  <2>1. Root.type = "INODE_DIR"
    BY ZeroedType DEF Root, Inode
  <2>2. <<1>> \in Seq(Inodes)
    BY <1>1
  <2> DEFINE one == <<1>>
  <2> HIDE DEF one
  <2>3. [Root EXCEPT !.dir_entries = one] \in Inode
    BY <2>2, ZeroedType DEF Inode, one
  <2> QED
    BY <2>1, <2>3, ZeroedType DEF Inode, one
<1>3. /\ file \in Inode /\ file.type = "INODE_FILE"
      /\ file.parent_inode = 0 /\ file.dir_entries = <<>>
  <2>1. Zeroed.parent_inode = 0 /\ Zeroed.dir_entries = <<>>
    BY DEF Zeroed
  <2>2. Stored[InitName] \in Name
    BY NameAssumption, ContentAssumption
  <2> QED
    BY <2>1, <2>2, ZeroedType DEF Inode, InodeType
<1>4. /\ f \in Inode /\ f.type = "INODE_FILE"
      /\ f.parent_inode = 0 /\ f.dir_entries = <<>>
  <2>1. InitData \in Seq(Block)
    BY ContentAssumption
  <2> HIDE DEF file
  <2> QED
    BY <2>1, <1>3, OverwrittenType DEF SameHeader
<1>5. MkfsImage = [i \in Inodes |-> IF i = 0 THEN root
                                    ELSE IF i = 1 THEN f ELSE Zeroed]
  BY DEF MkfsImage
<1> HIDE DEF root, f
<1>6. /\ MkfsImage \in [Inodes -> Inode]
      /\ MkfsImage[0] = root /\ MkfsImage[1] = f
  BY <1>1, <1>2, <1>4, <1>5, ZeroedType
<1>7. Allocated(MkfsImage) = {0, 1}
  <2>1. \A i \in Inodes \ {0, 1} : MkfsImage[i].type = "INODE_FREE"
    BY <1>5 DEF Zeroed
  <2> QED
    BY <2>1, <1>1, <1>2, <1>4, <1>6 DEF Allocated
<1>8. EntriesOf(MkfsImage, 0) = {1} /\ EntriesOf(MkfsImage, 1) = {}
  BY <1>2, <1>4, <1>6 DEF EntriesOf
<1>9. DownClosed(MkfsImage)
  BY <1>7, <1>1 DEF DownClosed, Allocated, Inodes
<1>10. ParentsListChildren(MkfsImage) /\ LinksPointUp(MkfsImage)
  BY <1>2, <1>4, <1>6, <1>7, <1>8 DEF ParentsListChildren, LinksPointUp
<1> QED
  BY <1>2, <1>6, <1>9, <1>10 DEF TableOK

LEMMA InitInv == Init => IInv
<1> SUFFICES ASSUME Init PROVE IInv
  OBVIOUS
<1>1. TypeOK
  BY ZeroTableOK, MkfsImageOK, SizeAssumption, TornAssumption
     DEF Init, TypeOK, FirstSector, Sectors
<1>2. TableOK(disk) /\ TableOK(inode_array)
  BY ZeroTableOK, MkfsImageOK DEF Init
<1>3. CwdOK /\ Extends /\ Progress
  BY ZeroTableOK, MkfsImageOK DEF Init, CwdOK, Extends, Progress
<1> QED
  BY <1>1, <1>2, <1>3 DEF IInv

LEMMA BootInv == IInv /\ Boot => IInv' /\ Keeps(disk, disk')
<1> SUFFICES ASSUME IInv, Boot PROVE IInv' /\ Keeps(disk, disk')
  OBVIOUS
<1> USE DEF IInv, TypeOK, Boot, Loaded
<1>1. 0 \in Inodes /\ 0 \in Sectors
  BY SizeAssumption DEF Inodes, Sectors
<1>2. Keeps(disk, disk') /\ TableOK(disk')
  BY DEF Keeps
<1>3. CASE disk[0].type = "INODE_DIR"
  BY <1>1, <1>2, <1>3 DEF CwdOK, Extends, Keeps, Progress
<1>4. CASE disk[0].type # "INODE_DIR"
  <2>1. Root.type = "INODE_DIR" /\ Root.dir_entries = <<>>
    <3>1. Zeroed.dir_entries = <<>>
      BY DEF Zeroed
    <3> QED
      BY <3>1, ZeroedType DEF Root, Inode
  <2>2. inode_array' = [disk EXCEPT ![0] = Root] /\ StartSync
    BY <1>4
  <2>3. TypeOK'
    BY <1>1, <2>2, ZeroedType DEF StartSync, FirstSector
  <2>4. disk[0].type = "INODE_FREE"
    BY <1>4 DEF CwdOK
  <2>5. Allocated(disk) = {}
    BY <1>1, <2>4 DEF TableOK, DownClosed, Allocated, Inodes
  <2>6. Allocated(inode_array') = {0}
    BY <1>1, <2>1, <2>2, <2>5 DEF Allocated
  <2>7. EntriesOf(inode_array', 0) = {}
    BY <1>1, <2>1, <2>2 DEF EntriesOf
  <2>8. TableOK(inode_array')
    BY <1>1, <2>6, <2>7
       DEF TableOK, DownClosed, ParentsListChildren, LinksPointUp, Allocated,
           Inodes
  <2>9. CwdOK'
    BY <1>1, <2>1, <2>2, <2>4 DEF CwdOK
  <2>10. Extends'
    BY <2>5 DEF Extends, Keeps, Allocated
  <2>11. Progress'
    BY <2>2 DEF Progress, Written, StartSync, FirstSector, Inodes
  <2> QED
    BY <1>2, <2>3, <2>8, <2>9, <2>10, <2>11
<1> QED
  BY <1>3, <1>4

LEMMA SyncSectorInv == IInv /\ SyncSector => IInv' /\ Keeps(disk, disk')
<1> SUFFICES ASSUME IInv, SyncSector PROVE IInv' /\ Keeps(disk, disk')
  OBVIOUS
<1> DEFINE i == cursor.i
           s == cursor.s
<1> USE DEF IInv, TypeOK
<1>1. i \in Inodes /\ s \in Sectors /\ pc = "sync"
  BY DEF SyncSector
<1>2. /\ disk' = [disk EXCEPT ![i] = SectorCopied(@, inode_array[i], s)]
      /\ UNCHANGED <<inode_array, current_dir, torn>>
  BY DEF SyncSector, WriteSector
<1>3. /\ disk'[i] \in Inode
      /\ SameHeader(disk'[i], inode_array[i])
  <2>1. /\ disk'[i] \in Inode
        /\ SameHeader(disk'[i], IF s = 0 THEN inode_array[i] ELSE disk[i])
    BY <1>1, <1>2, SectorCopiedType
  <2>2. s # 0 => SameHeader(disk[i], inode_array[i])
    BY <1>1 DEF Progress, Written
  <2> QED
    BY <2>1, <2>2 DEF SameHeader
<1>4. \A k \in Inodes \ {i} : disk'[k] = disk[k]
  BY <1>2
<1>5. disk' \in [Inodes -> Inode]
  BY <1>1, <1>2, <1>3
<1>6. \A k \in Inodes : k < i => SameHeader(disk[k], inode_array[k])
  BY <1>1 DEF Progress, Written
<1>7. TableOK(disk') /\ Keeps(disk, disk') /\ Keeps(disk', inode_array)
  <2> HIDE DEF i
  <2>1. Keeps(disk, inode_array)
    BY <1>1 DEF Extends
  <2> QED
    BY <1>1, <1>3, <1>4, <1>5, <1>6, <2>1, HeaderArrives
<1>8. TypeOK' /\ (pc' = "sync" => \A k \in Inodes : Written(k)' => k <= i)
  <2>1. AdvanceCursor(MAX_INODES, INODE_SECTORS)
    BY DEF SyncSector
  <2>2. CASE s < INODE_SECTORS - 1
    BY <2>1, <2>2, <1>1, <1>2, <1>5, SizeAssumption
       DEF AdvanceCursor, Sectors, Inodes, Written
  <2>3. CASE ~(s < INODE_SECTORS - 1) /\ i < MAX_INODES - 1
    BY <2>1, <2>3, <1>1, <1>2, <1>5, SizeAssumption
       DEF AdvanceCursor, Sectors, Inodes, Written
  <2>4. CASE ~(s < INODE_SECTORS - 1) /\ ~(i < MAX_INODES - 1)
    BY <2>1, <2>4, <1>1, <1>2, <1>5, SizeAssumption
       DEF AdvanceCursor, Sectors, Inodes, FirstSector
  <2> QED
    BY <2>2, <2>3, <2>4
<1>9. Progress'
  <2>1. \A k \in Inodes : k <= i => SameHeader(disk'[k], inode_array'[k])
    BY <1>1, <1>2, <1>3, <1>4, <1>6 DEF Inodes
  <2> QED
    BY <1>8, <2>1 DEF Progress
<1>10. CwdOK'
  <2>1. disk'[0].type \in {"INODE_FREE", "INODE_DIR"}
    BY <1>1, <1>3, <1>4, SizeAssumption DEF CwdOK, SameHeader, Inodes
  <2> QED
    BY <2>1, <1>1, <1>2 DEF CwdOK
<1> QED
  BY <1>2, <1>7, <1>8, <1>9, <1>10 DEF Extends

\* An operation that adds an inode, whether or not it goes on to a sync.
LEMMA AddInv ==
    ASSUME IInv, pc = "idle",
           NEW idx \in Inodes, FirstFree(inode_array, idx),
           inode_array' \in [Inodes -> Inode],
           Adds(inode_array, inode_array', current_dir, idx),
           StartSync \/ UNCHANGED <<pc, cursor>>,
           UNCHANGED <<disk, current_dir, torn>>
    PROVE  IInv' /\ Keeps(disk, disk')
<1> USE DEF IInv, TypeOK
<1>1. inode_array[current_dir].type = "INODE_DIR"
  BY DEF CwdOK
<1>2. TableOK(inode_array') /\ Keeps(inode_array, inode_array')
  BY <1>1, AddKeepsTable
<1>3. Extends'
  BY <1>2 DEF Extends, Keeps, Allocated
<1>4. CwdOK'
  <2>1. 0 \in Inodes
    BY SizeAssumption DEF Inodes
  <2> QED
    BY <1>1, <1>2, <2>1 DEF CwdOK, Keeps, Allocated
<1>5. TypeOK' /\ Progress'
  BY SizeAssumption
     DEF StartSync, FirstSector, Progress, Written, Inodes, Sectors
<1> QED
  BY <1>2, <1>3, <1>4, <1>5 DEF Keeps

\* An operation that changes sizes and data only.
LEMMA RewriteInv ==
    ASSUME IInv, pc = "idle",
           inode_array' \in [Inodes -> Inode],
           \A k \in Inodes : SameHeader(inode_array'[k], inode_array[k]),
           StartSync \/ UNCHANGED <<pc, cursor>>,
           UNCHANGED <<disk, current_dir, torn>>
    PROVE  IInv' /\ Keeps(disk, disk')
<1> USE DEF IInv, TypeOK
<1>1. TableOK(inode_array') /\ Keeps(inode_array, inode_array')
  BY SameTable
<1>2. Extends'
  BY <1>1 DEF Extends, Keeps, Allocated
<1>3. CwdOK'
  <2>1. 0 \in Inodes
    BY SizeAssumption DEF Inodes
  <2> QED
    BY <2>1 DEF CwdOK, SameHeader
<1>4. TypeOK' /\ Progress'
  BY SizeAssumption
     DEF StartSync, FirstSector, Progress, Written, Inodes, Sectors
<1> QED
  BY <1>1, <1>2, <1>3, <1>4 DEF Keeps

\* file_create and vfs_mkdir add an inode.
LEMMA CreatedAdds ==
    ASSUME NEW T \in [Inodes -> Inode], NEW dir \in Inodes, NEW name \in Name,
           NEW type \in {"INODE_FILE", "INODE_DIR"}, NEW idx \in Inodes,
           T[dir].type = "INODE_DIR", FirstFree(T, idx)
    PROVE  LET U == Created(T, dir, name, type, idx) IN
           U \in [Inodes -> Inode] /\ Adds(T, U, dir, idx)
<1>1. idx # dir /\ type \in InodeType
  BY DEF FirstFree, InodeType
<1> QED
  BY <1>1, CreatedType DEF Adds, SameHeader

-----------------------------------------------------------------------------
(***************************************************************************)
(* What the operations do to the table in memory, up to what the proofs    *)
(* tell apart.                                                             *)
(***************************************************************************)

\* A file's size covers only blocks that were written.
Covers(n) == \A s \in 0 .. n.size - 1 : n.data[s] # ZeroBlock

\* U is T with a new inode idx, created under name in the directory dir.
NewInode(T, U, dir, name, idx) ==
    /\ FirstFree(T, idx)
    /\ NoMatch(T, dir, name)
    /\ U \in [Inodes -> Inode]
    /\ Adds(T, U, dir, idx)
    /\ U[idx].name = Stored[name]
    /\ Covers(U[idx])
    /\ U[dir].size = T[dir].size /\ U[dir].data = T[dir].data
    /\ \A k \in Inodes \ {idx, dir} : U[k] = T[k]

\* U is T with another content in the file idx.
NewContent(T, U, idx) ==
    /\ U \in [Inodes -> Inode]
    /\ SameHeader(U[idx], T[idx])
    /\ U[idx].size >= T[idx].size
    /\ Covers(T[idx]) => Covers(U[idx])
    /\ \A k \in Inodes \ {idx} : U[k] = T[k]

Full(n) == n.type = "INODE_FILE" /\ n.size = MAX_FILE_SIZE

\* A change of the inode idx is synced, unless it was a write that was cut.
SyncedOrFull(idx) ==
    /\ pc = "idle"
    /\ \/ StartSync
       \/ UNCHANGED <<pc, cursor>> /\ Full(inode_array'[idx])
    /\ UNCHANGED <<disk, current_dir, torn>>

Adding(name, idx) ==
    /\ NewInode(inode_array, inode_array', current_dir, name, idx)
    /\ SyncedOrFull(idx)

Filling(idx) ==
    /\ NewContent(inode_array, inode_array', idx)
    /\ SyncedOrFull(idx)

LEMMA CreatedIsNew ==
    ASSUME NEW T \in [Inodes -> Inode], NEW dir \in Inodes, NEW name \in Name,
           NEW type \in {"INODE_FILE", "INODE_DIR"}, NEW idx \in Inodes,
           T[dir].type = "INODE_DIR", CanMkdir(T, dir, name, idx)
    PROVE  /\ NewInode(T, Created(T, dir, name, type, idx), dir, name, idx)
           /\ Created(T, dir, name, type, idx)[idx].type = type
<1> DEFINE U == Created(T, dir, name, type, idx)
<1>1. FirstFree(T, idx) /\ NoMatch(T, dir, name)
  BY DEF CanMkdir
<1>2. U \in [Inodes -> Inode] /\ Adds(T, U, dir, idx)
  BY <1>1, CreatedAdds
<1>3. idx # dir /\ type \in InodeType
  BY <1>1 DEF FirstFree, InodeType
<1>4. /\ U[idx].name = Stored[name] /\ U[idx].type = type
      /\ \A k \in Inodes \ {idx, dir} : U[k] = T[k]
  BY <1>3, CreatedType
<1>5. U[idx].size = 0
  <2>1. U[idx] = [Zeroed EXCEPT !.name = Stored[name], !.type = type,
                                !.parent_inode = dir]
    BY <1>3 DEF Created
  <2>2. Zeroed.size = 0
    BY DEF Zeroed
  <2> QED
    BY <2>1, <2>2, ZeroedType DEF Inode
<1>6. U[dir].size = T[dir].size /\ U[dir].data = T[dir].data
  <2>1. U[dir] = [T[dir] EXCEPT !.dir_entries = Append(@, idx)]
    BY <1>3 DEF Created
  <2> DEFINE longer == Append(T[dir].dir_entries, idx)
             n == T[dir]
  <2>2. U[dir] = [n EXCEPT !.dir_entries = longer] /\ n \in Inode
    BY <2>1
  <2> HIDE DEF longer, n
  <2>3. U[dir].size = n.size /\ U[dir].data = n.data
    BY <2>2 DEF Inode
  <2> QED
    BY <2>3 DEF n
<1> HIDE DEF U
<1>7. Covers(U[idx])
  BY <1>5 DEF Covers
<1> QED
  BY <1>1, <1>2, <1>4, <1>6, <1>7 DEF NewInode, U

\* A write keeps the inode covered, and a write that is cut fills it.
LEMMA OverwrittenCovers ==
    ASSUME NEW n \in Inode, NEW c \in Seq(Block \ {ZeroBlock})
    PROVE  /\ Overwritten(n, c) \in Inode
           /\ SameHeader(Overwritten(n, c), n)
           /\ Overwritten(n, c).size >= n.size
           /\ Covers(n) => Covers(Overwritten(n, c))
           /\ WriteLength(c) < Len(c) => Overwritten(n, c).size = MAX_FILE_SIZE
<1> DEFINE L == WriteLength(c)
           d == [s \in Sectors |-> IF s < L THEN c[s + 1] ELSE n.data[s]]
           z == IF L > n.size THEN L ELSE n.size
           o == Overwritten(n, c)
<1>1. /\ o \in Inode /\ SameHeader(o, n)
  <2>1. c \in Seq(Block)
    OBVIOUS
  <2> QED
    BY <2>1, OverwrittenType
<1>2. o.data = d /\ o.size = z
  <2>1. o = [n EXCEPT !.data = d, !.size = z]
    BY DEF Overwritten
  <2> HIDE DEF d, z, o
  <2> QED
    BY <2>1 DEF Inode
<1>3. /\ L \in 0 .. MAX_FILE_SIZE /\ L <= Len(c)
      /\ L < Len(c) => L = MAX_FILE_SIZE
      /\ n.size \in 0 .. MAX_FILE_SIZE /\ MAX_FILE_SIZE = INODE_SECTORS
      /\ INODE_SECTORS \in Nat
  BY SizeAssumption DEF WriteLength, MAX_FILE_SIZE, Inode
<1>4. \A s \in 0 .. L - 1 : d[s] # ZeroBlock
  <2> SUFFICES ASSUME NEW s \in 0 .. L - 1 PROVE d[s] # ZeroBlock
    OBVIOUS
  <2> HIDE DEF L
  <2>1. s \in Sectors /\ s < L /\ s + 1 \in 1 .. Len(c)
    BY <1>3 DEF Sectors
  <2>2. c[s + 1] # ZeroBlock
    BY <2>1
  <2> QED
    BY <2>1, <2>2
<1>5. ASSUME Covers(n), NEW s \in 0 .. z - 1, ~(s < L) PROVE d[s] # ZeroBlock
  <2> HIDE DEF L
  <2>1. s \in Sectors /\ s \in 0 .. n.size - 1
    BY <1>3, <1>5 DEF Sectors
  <2> QED
    BY <1>5, <2>1 DEF Covers
<1> HIDE DEF L, d
<1>6. Covers(n) => Covers(o)
  BY <1>2, <1>3, <1>4, <1>5 DEF Covers
<1>7. z >= n.size /\ (L < Len(c) => z = MAX_FILE_SIZE)
  BY <1>3
<1> QED
  BY <1>1, <1>2, <1>6, <1>7 DEF L

LEMMA MkdirAdds ==
    ASSUME NEW name \in Name, IInv, vfs_mkdir(name)
    PROVE  \E idx \in Inodes : Adding(name, idx)
<1>1. PICK idx \in Inodes :
         /\ CanMkdir(inode_array, current_dir, name, idx)
         /\ inode_array' =
               Created(inode_array, current_dir, name, "INODE_DIR", idx)
  BY DEF vfs_mkdir
<1>2. pc = "idle" /\ StartSync /\ UNCHANGED <<disk, current_dir, torn>>
  BY DEF vfs_mkdir
<1>3. NewInode(inode_array, inode_array', current_dir, name, idx)
  BY <1>1, <1>2, CreatedIsNew DEF IInv, TypeOK, CwdOK
<1> QED
  BY <1>2, <1>3 DEF Adding, SyncedOrFull

LEMMA TouchAdds ==
    ASSUME NEW name \in Name, IInv, vfs_touch(name)
    PROVE  \E idx \in Inodes : Adding(name, idx)
<1>1. PICK idx \in Inodes :
         /\ CanMkdir(inode_array, current_dir, name, idx)
         /\ inode_array' =
               Created(inode_array, current_dir, name, "INODE_FILE", idx)
  BY DEF vfs_touch, CanCreate
<1>2. pc = "idle" /\ StartSync /\ UNCHANGED <<disk, current_dir, torn>>
  BY DEF vfs_touch
<1>3. NewInode(inode_array, inode_array', current_dir, name, idx)
  BY <1>1, <1>2, CreatedIsNew DEF IInv, TypeOK, CwdOK
<1> QED
  BY <1>2, <1>3 DEF Adding, SyncedOrFull

LEMMA WriteFileAddsOrFills ==
    ASSUME NEW name \in Name, NEW content \in Content, IInv,
           vfs_write_file(name, content)
    PROVE  \E idx \in Inodes : Adding(name, idx) \/ Filling(idx)
<1> DEFINE T == inode_array
           new(idx) == Created(T, current_dir, name, "INODE_FILE", idx)
<1>1. /\ pc = "idle"
      /\ StartSync \/ (WriteLength(content) < Len(content) /\ UNCHANGED <<pc, cursor>>)
      /\ UNCHANGED <<disk, current_dir, torn>>
  BY DEF vfs_write_file
<1>2. content \in Seq(Block \ {ZeroBlock})
  BY ContentAssumption
<1>3. T \in [Inodes -> Inode] /\ current_dir \in Inodes
      /\ T[current_dir].type = "INODE_DIR"
  BY <1>1 DEF IInv, TypeOK, CwdOK
<1>4. PICK idx \in Inodes :
         \/ /\ T[idx].type = "INODE_FILE"
            /\ T' = [T EXCEPT ![idx] = Overwritten(@, content)]
         \/ /\ CanMkdir(T, current_dir, name, idx)
            /\ T' = [new(idx) EXCEPT ![idx] = Overwritten(@, content)]
  BY DEF vfs_write_file, CanCreate
<1>5. CASE /\ T[idx].type = "INODE_FILE"
           /\ T' = [T EXCEPT ![idx] = Overwritten(@, content)]
  <2>1. T[idx] \in Inode /\ T'[idx] = Overwritten(T[idx], content)
    BY <1>3, <1>5
  <2>2. /\ Overwritten(T[idx], content) \in Inode
        /\ SameHeader(T'[idx], T[idx])
        /\ T'[idx].size >= T[idx].size
        /\ Covers(T[idx]) => Covers(T'[idx])
        /\ WriteLength(content) < Len(content) => T'[idx].size = MAX_FILE_SIZE
    BY <1>2, <2>1, OverwrittenCovers
  <2>3. T' \in [Inodes -> Inode] /\ \A k \in Inodes \ {idx} : T'[k] = T[k]
    BY <1>3, <1>5, <2>2
  <2>4. NewContent(T, T', idx)
    BY <2>2, <2>3 DEF NewContent
  <2> QED
    BY <1>1, <1>5, <2>2, <2>4 DEF Filling, SyncedOrFull, Full, SameHeader
<1>6. CASE /\ CanMkdir(T, current_dir, name, idx)
           /\ T' = [new(idx) EXCEPT ![idx] = Overwritten(@, content)]
  <2> DEFINE U == new(idx)
  <2>1. NewInode(T, U, current_dir, name, idx) /\ U[idx].type = "INODE_FILE"
    BY <1>3, <1>6, CreatedIsNew
  <2>2. T' = [U EXCEPT ![idx] = Overwritten(@, content)]
    BY <1>6
  <2> HIDE DEF U
  <2>3. /\ U \in [Inodes -> Inode] /\ Covers(U[idx]) /\ U[idx] \in Inode
        /\ FirstFree(T, idx)
    BY <2>1 DEF NewInode
  <2>4. /\ T'[idx] = Overwritten(U[idx], content)
        /\ \A k \in Inodes \ {idx} : T'[k] = U[k]
    BY <2>2, <2>3
  <2>5. /\ Overwritten(U[idx], content) \in Inode
        /\ SameHeader(T'[idx], U[idx])
        /\ Covers(T'[idx])
        /\ WriteLength(content) < Len(content) => T'[idx].size = MAX_FILE_SIZE
    BY <1>2, <2>3, <2>4, OverwrittenCovers
  <2>6. T' \in [Inodes -> Inode]
    BY <2>2, <2>3, <2>5
  <2>7. idx # current_dir
    BY <1>3, <2>3 DEF FirstFree
  <2>8. Adds(T, T', current_dir, idx)
    <3>1. T'[current_dir] = U[current_dir] /\ Adds(T, U, current_dir, idx)
      BY <1>3, <2>1, <2>4, <2>7 DEF NewInode
    <3> QED
      BY <2>4, <2>5, <3>1 DEF Adds, SameHeader
  <2>9. NewInode(T, T', current_dir, name, idx)
    BY <1>3, <2>1, <2>4, <2>5, <2>6, <2>7, <2>8 DEF NewInode, SameHeader
  <2>10. T'[idx].type = "INODE_FILE"
    BY <2>1, <2>5 DEF SameHeader
  <2> QED
    BY <1>1, <2>5, <2>9, <2>10 DEF Adding, SyncedOrFull, Full
<1> QED
  BY <1>4, <1>5, <1>6

LEMMA AddingInv ==
    ASSUME NEW name, NEW idx \in Inodes, IInv, Adding(name, idx)
    PROVE  IInv' /\ Keeps(disk, disk')
BY AddInv DEF Adding, NewInode, SyncedOrFull

LEMMA FillingInv ==
    ASSUME NEW idx \in Inodes, IInv, Filling(idx)
    PROVE  IInv' /\ Keeps(disk, disk')
<1>1. \A k \in Inodes : SameHeader(inode_array'[k], inode_array[k])
  BY DEF Filling, NewContent, SameHeader
<1> QED
  BY <1>1, RewriteInv DEF Filling, NewContent, SyncedOrFull

LEMMA CdInv ==
    ASSUME NEW path, IInv, vfs_cd(path)
    PROVE  IInv' /\ Keeps(disk, disk')
<1> USE DEF IInv, TypeOK
<1>1. pc = "idle" /\ UNCHANGED <<inode_array, disk, pc, cursor, torn>>
  BY DEF vfs_cd
<1>2. 0 \in Inodes /\ inode_array[0].type = "INODE_DIR"
      /\ inode_array[current_dir].type = "INODE_DIR"
  BY <1>1, SizeAssumption DEF CwdOK, Inodes
<1>3. current_dir' \in Inodes /\ inode_array[current_dir'].type = "INODE_DIR"
  <2> DEFINE p == inode_array[current_dir].parent_inode
  <2>1. current_dir # 0 => p \in Inodes /\ inode_array[p].type = "INODE_DIR"
    BY <1>2 DEF Inode, TableOK, ParentsListChildren, Allocated
  <2>2. \/ current_dir' = 0
        \/ current_dir # 0 /\ current_dir' = p
        \/ \E idx \in Inodes : /\ inode_array[idx].type = "INODE_DIR"
                               /\ current_dir' = idx
    BY DEF vfs_cd
  <2> QED
    BY <1>2, <2>1, <2>2
<1> QED
  BY <1>1, <1>3 DEF CwdOK, Extends, Progress, Written, Keeps

LEMMA PowerLossInv == IInv /\ PowerLoss => IInv' /\ Keeps(disk, disk')
<1> SUFFICES ASSUME IInv, PowerLoss PROVE IInv' /\ Keeps(disk, disk')
  OBVIOUS
<1>1. TypeOK'
  BY ZeroTableOK, SizeAssumption, TornAssumption
     DEF IInv, TypeOK, PowerLoss, FirstSector, Sectors
<1> QED
  BY <1>1, ZeroTableOK
     DEF IInv, PowerLoss, CwdOK, Extends, Progress, Keeps

\* Each step is one of these.
LEMMA StepKinds ==
    ASSUME IInv, [Next]_vars
    PROVE  \/ Boot \/ SyncSector \/ PowerLoss
           \/ \E name \in Name, idx \in Inodes : Adding(name, idx)
           \/ \E idx \in Inodes : Filling(idx)
           \/ \E path : vfs_cd(path)
           \/ UNCHANGED vars
<1>1. ASSUME NEW name \in Name, vfs_mkdir(name) \/ vfs_touch(name)
      PROVE  \E idx \in Inodes : Adding(name, idx)
  BY <1>1, MkdirAdds, TouchAdds
<1>2. ASSUME NEW name \in Name, NEW content \in Content,
             vfs_write_file(name, content)
      PROVE  \E idx \in Inodes : Adding(name, idx) \/ Filling(idx)
  BY <1>2, WriteFileAddsOrFills
<1> QED
  BY <1>1, <1>2 DEF Next

\* Every step of the file system preserves the invariant and keeps what the
\* drive has.
LEMMA NextInv == IInv /\ [Next]_vars => IInv' /\ Keeps(disk, disk')
<1> SUFFICES ASSUME IInv, [Next]_vars PROVE IInv' /\ Keeps(disk, disk')
  OBVIOUS
<1>1. CASE Boot
  BY <1>1, BootInv
<1>2. CASE SyncSector
  BY <1>2, SyncSectorInv
<1>3. CASE \E name \in Name, idx \in Inodes : Adding(name, idx)
  BY <1>3, AddingInv
<1>4. CASE \E idx \in Inodes : Filling(idx)
  BY <1>4, FillingInv
<1>5. CASE \E path : vfs_cd(path)
  BY <1>5, CdInv
<1>6. CASE PowerLoss
  BY <1>6, PowerLossInv
<1>7. CASE UNCHANGED vars
  BY <1>7 DEF vars, IInv, TypeOK, TableOK, CwdOK, Extends, Progress, Written,
              Keeps
<1> QED
  BY <1>1, <1>2, <1>3, <1>4, <1>5, <1>6, <1>7, StepKinds

-----------------------------------------------------------------------------
(***************************************************************************)
(* The theorems.                                                           *)
(***************************************************************************)

\* The invariant holds in every reachable state: the drive's table is always
\* a well-formed part of memory's, up to date below the cursor of vfs_sync.
THEOREM InductiveInvariant == Spec => []IInv
<1>1. Init => IInv
  BY InitInv
<1>2. IInv /\ [Next]_vars => IInv'
  BY NextInv
<1> QED
  BY <1>1, <1>2, PTL DEF Spec

\* Every table, cursor and directory index stays in its range: in particular
\* vfs_write_file never makes a file larger than MAX_FILE_SIZE.
THEOREM TypeCorrect == Spec => []TypeOK
<1>1. IInv => TypeOK
  BY DEF IInv
<1> QED
  BY <1>1, InductiveInvariant, PTL

\* No power loss, at whatever sector of vfs_sync, leaves an inode on the
\* drive that its parent does not list.
THEOREM NoOrphanOnDrive == Spec => []NoOrphan
<1>1. IInv => NoOrphan
  BY DEF IInv, TableOK, NoOrphan
<1> QED
  BY <1>1, InductiveInvariant, PTL

\* vfs_cd and vfs_pwd never walk in a circle.
THEOREM TreesAcyclic == Spec => []Acyclic
<1>1. IInv => Acyclic
  BY DEF IInv, TableOK, Acyclic
<1> QED
  BY <1>1, InductiveInvariant, PTL

\* The directory the shell is in is one, so vfs_mkdir's unchecked use of it
\* as a parent is safe.
THEOREM CurrentDirValid == Spec => []CurrentDirIsDir
<1>1. IInv => CurrentDirIsDir
  BY DEF IInv, CwdOK, CurrentDirIsDir
<1> QED
  BY <1>1, InductiveInvariant, PTL

\* What the drive has been given it keeps, over any number of torn syncs.
THEOREM NothingForgotten == Spec => DriveNeverForgets
<1>1. IInv /\ [Next]_vars =>
         [\A i \in Allocated(disk) :
             /\ disk'[i].type = disk[i].type
             /\ disk'[i].name = disk[i].name
             /\ disk'[i].parent_inode = disk[i].parent_inode
             /\ EntriesOf(disk, i) \subseteq EntriesOf(disk', i)]_vars
  BY NextInv DEF Keeps
<1> QED
  BY <1>1, InductiveInvariant, PTL DEF Spec, DriveNeverForgets

-----------------------------------------------------------------------------
(***************************************************************************)
(* Vfs implements DurableTree.                                             *)
(***************************************************************************)

NodeOf(T, i) ==
    [idx |-> i, name |-> T[i].name, dir |-> T[i].type = "INODE_DIR",
     parent |-> T[i].parent_inode]

LEMMA TreeNodes ==
    ASSUME NEW T
    PROVE  TreeOf(T) = {NodeOf(T, i) : i \in Allocated(T)}
BY DEF TreeOf, NodeOf

LEMMA NodeFields ==
    ASSUME NEW T \in [Inodes -> Inode], NEW i \in Inodes
    PROVE  /\ NodeOf(T, i) \in Tree!Node
           /\ NodeOf(T, i).idx = i
           /\ NodeOf(T, i).parent = T[i].parent_inode
           /\ NodeOf(T, i).dir <=> T[i].type = "INODE_DIR"
<1>1. T[i].name \in Name \cup {NoName} /\ T[i].parent_inode \in Inodes
  BY DEF Inode
<1> QED
  BY <1>1 DEF NodeOf, Tree!Node

\* An inode is a node of the tree exactly if it is allocated.
LEMMA InTree ==
    ASSUME NEW T \in [Inodes -> Inode]
    PROVE  /\ Tree!Indices(TreeOf(T)) = Allocated(T)
           /\ \A i \in Allocated(T) : NodeOf(T, i) \in TreeOf(T)
           /\ \A n \in TreeOf(T) : n.idx \in Allocated(T) /\ n = NodeOf(T, n.idx)
<1>1. \A i \in Allocated(T) : NodeOf(T, i).idx = i
  BY NodeFields DEF Allocated
<1> QED
  BY <1>1, TreeNodes DEF Tree!Indices

LEMMA SameTree ==
    ASSUME NEW T, NEW U, \A k \in Inodes : SameHeader(U[k], T[k])
    PROVE  TreeOf(U) = TreeOf(T)
<1>1. Allocated(U) = Allocated(T) /\ \A k \in Inodes : NodeOf(U, k) = NodeOf(T, k)
  BY DEF Allocated, SameHeader, NodeOf
<1> QED
  BY <1>1, TreeNodes DEF Allocated

\* The drive's nodes are among memory's.
LEMMA KeptTree ==
    ASSUME NEW T, NEW U, Keeps(T, U)
    PROVE  TreeOf(T) \subseteq TreeOf(U)
<1>1. Allocated(T) \subseteq Allocated(U)
      /\ \A k \in Allocated(T) : NodeOf(U, k) = NodeOf(T, k)
  BY DEF Allocated, Keeps, NodeOf
<1> QED
  BY <1>1, TreeNodes

LEMMA AddedTree ==
    ASSUME NEW T \in [Inodes -> Inode], NEW U \in [Inodes -> Inode],
           NEW dir \in Inodes, NEW idx \in Inodes, FirstFree(T, idx),
           T[dir].type = "INODE_DIR", Adds(T, U, dir, idx)
    PROVE  TreeOf(U) = TreeOf(T) \cup {NodeOf(U, idx)}
<1>1. dir # idx /\ idx \in Allocated(U) /\ idx \notin Allocated(T)
  BY DEF Adds, FirstFree, Allocated
<1>2. \A k \in Inodes \ {idx} :
         /\ NodeOf(U, k) = NodeOf(T, k)
         /\ k \in Allocated(U) <=> k \in Allocated(T)
  BY DEF Adds, SameHeader, NodeOf, Allocated
<1>3. Allocated(U) = Allocated(T) \cup {idx}
  BY <1>1, <1>2 DEF Allocated
<1>4. \A k \in Allocated(T) : NodeOf(U, k) = NodeOf(T, k)
  BY <1>1, <1>2 DEF Allocated
<1> QED
  BY <1>3, <1>4, TreeNodes

InMemory == IF pc = "off" THEN TreeOf(disk) ELSE TreeOf(inode_array)

TreeStep == Tree!TreeNext \/ UNCHANGED <<InMemory, TreeOf(disk)>>

LEMMA InitImplements == Init => Tree!TreeInit
<1> SUFFICES ASSUME Init PROVE Tree!TreeInit
  OBVIOUS
<1>1. TreeOf(ZeroTable) = {}
  BY ZeroTableOK, TreeNodes
<1> QED
  BY <1>1 DEF Init, Tree!TreeInit

LEMMA BootImplements ==
    ASSUME IInv, Boot
    PROVE  TreeStep
<1>1. pc = "off" /\ disk' = disk /\ disk \in [Inodes -> Inode]
      /\ 0 \in Inodes /\ pc' # "off"
  BY SizeAssumption DEF Boot, Loaded, StartSync, IInv, TypeOK, Inodes
<1>2. CASE disk[0].type = "INODE_DIR"
  BY <1>1, <1>2 DEF Boot, Loaded, TreeStep, InMemory
<1>3. CASE disk[0].type # "INODE_DIR"
  <2>1. inode_array' = [disk EXCEPT ![0] = Root]
    BY <1>3 DEF Boot, Loaded
  <2>2. Allocated(disk) = {}
    <3>1. disk[0].type = "INODE_FREE"
      BY <1>3 DEF IInv, CwdOK
    <3> QED
      BY <1>1, <3>1 DEF IInv, TableOK, DownClosed, Allocated, Inodes
  <2>3. Root \in Inode /\ Root.type = "INODE_DIR"
    BY ZeroedType DEF Root, Inode
  <2>4. inode_array' \in [Inodes -> Inode] /\ inode_array'[0] = Root
        /\ Allocated(inode_array') = {0}
    BY <1>1, <2>1, <2>2, <2>3 DEF Allocated
  <2>5. TreeOf(disk) = {} /\ TreeOf(inode_array') = {NodeOf(inode_array', 0)}
    BY <2>2, <2>4, TreeNodes
  <2> DEFINE n == NodeOf(inode_array', 0)
  <2>6. n \in Tree!Node /\ n.idx = 0 /\ n.dir
    BY <1>1, <2>3, <2>4, NodeFields
  <2> HIDE DEF n
  <2>7. Tree!Indices(TreeOf(disk)) = {}
    BY <2>5 DEF Tree!Indices
  <2>8. \A i \in Inodes : i < n.idx <=> i \in Tree!Indices(TreeOf(disk))
    BY <2>6, <2>7 DEF Inodes
  <2>9. InMemory = {} /\ InMemory' = {n} /\ TreeOf(disk)' = TreeOf(disk)
    BY <1>1, <2>5 DEF InMemory, n
  <2>10. Tree!Create(n)
    BY <2>5, <2>6, <2>8, <2>9, <1>1 DEF Tree!Create, InMemory
  <2> QED
    BY <2>6, <2>10 DEF TreeStep, Tree!TreeNext
<1> QED
  BY <1>2, <1>3

LEMMA AddingImplements ==
    ASSUME IInv, NEW name, NEW idx \in Inodes, Adding(name, idx)
    PROVE  TreeStep
<1> DEFINE n == NodeOf(inode_array', idx)
<1>1. /\ pc = "idle" /\ pc' # "off" /\ disk' = disk
      /\ FirstFree(inode_array, idx)
      /\ inode_array' \in [Inodes -> Inode]
      /\ Adds(inode_array, inode_array', current_dir, idx)
  BY DEF Adding, NewInode, SyncedOrFull, StartSync
<1>2. /\ inode_array \in [Inodes -> Inode] /\ current_dir \in Inodes
      /\ inode_array[current_dir].type = "INODE_DIR"
      /\ DownClosed(inode_array)
  BY <1>1 DEF IInv, TypeOK, CwdOK, TableOK
<1>3. TreeOf(inode_array') = TreeOf(inode_array) \cup {n}
  BY <1>1, <1>2, AddedTree
<1>4. n \in Tree!Node /\ n.idx = idx /\ n.parent = current_dir
  BY <1>1, NodeFields DEF Adds
<1> HIDE DEF n
<1>5. \A i \in Inodes : i < idx <=> i \in Tree!Indices(TreeOf(inode_array))
  <2>1. \A i \in Inodes : i < idx <=> i \in Allocated(inode_array)
    BY <1>1, <1>2 DEF FirstFree, DownClosed, Allocated, Inodes
  <2> QED
    BY <1>2, <2>1, InTree
<1>6. idx # 0
  BY <1>1, <1>2, SizeAssumption DEF FirstFree, IInv, CwdOK, Inodes
<1>7. \E p \in TreeOf(inode_array) : p.idx = n.parent /\ p.dir
  <2>1. current_dir \in Allocated(inode_array)
    BY <1>2 DEF Allocated
  <2>2. /\ NodeOf(inode_array, current_dir) \in TreeOf(inode_array)
        /\ NodeOf(inode_array, current_dir).idx = current_dir
        /\ NodeOf(inode_array, current_dir).dir
    BY <1>2, <2>1, InTree, NodeFields
  <2> QED
    BY <1>4, <2>2
<1>8. InMemory = TreeOf(inode_array) /\ InMemory' = TreeOf(inode_array')
  BY <1>1 DEF InMemory
<1>9. Tree!Create(n)
  BY <1>1, <1>3, <1>4, <1>5, <1>6, <1>7, <1>8 DEF Tree!Create, InMemory
<1> QED
  BY <1>4, <1>9 DEF TreeStep, Tree!TreeNext

LEMMA FillingImplements ==
    ASSUME IInv, NEW idx \in Inodes, Filling(idx)
    PROVE  TreeStep
<1>1. /\ pc = "idle" /\ pc' # "off" /\ disk' = disk
      /\ \A k \in Inodes : SameHeader(inode_array'[k], inode_array[k])
  BY DEF Filling, NewContent, SyncedOrFull, StartSync, SameHeader
<1>2. TreeOf(inode_array') = TreeOf(inode_array)
  BY <1>1, SameTree
<1> QED
  BY <1>1, <1>2 DEF TreeStep, InMemory

LEMMA SyncSectorImplements ==
    ASSUME IInv, SyncSector
    PROVE  TreeStep
<1> DEFINE i == cursor.i
           s == cursor.s
           n == NodeOf(inode_array, i)
<1>1. /\ i \in Inodes /\ s \in Sectors /\ pc = "sync"
      /\ disk \in [Inodes -> Inode] /\ inode_array \in [Inodes -> Inode]
  BY DEF SyncSector, IInv, TypeOK
<1>2. /\ disk' = [disk EXCEPT ![i] = SectorCopied(@, inode_array[i], s)]
      /\ inode_array' = inode_array /\ pc' # "off"
  BY DEF SyncSector, WriteSector, AdvanceCursor
<1>3. /\ SameHeader(disk'[i], inode_array[i])
      /\ \A k \in Inodes \ {i} : disk'[k] = disk[k]
  <2>1. SameHeader(disk'[i], IF s = 0 THEN inode_array[i] ELSE disk[i])
    BY <1>1, <1>2, SectorCopiedType
  <2>2. s # 0 => SameHeader(disk[i], inode_array[i])
    BY <1>1 DEF IInv, Progress, Written
  <2> QED
    BY <1>1, <1>2, <2>1, <2>2 DEF SameHeader
<1>4. Keeps(disk, inode_array)
  BY <1>1 DEF IInv, Extends
<1>5. InMemory = TreeOf(inode_array) /\ InMemory' = InMemory
  BY <1>1, <1>2 DEF InMemory
<1>6. CASE i \in Allocated(disk) \/ i \notin Allocated(inode_array)
  <2>1. Allocated(disk') = Allocated(disk)
    BY <1>1, <1>3, <1>4, <1>6 DEF Allocated, SameHeader, Keeps
  <2>2. \A k \in Allocated(disk) : NodeOf(disk', k) = NodeOf(disk, k)
    BY <1>1, <1>3, <1>4 DEF Allocated, SameHeader, Keeps, NodeOf
  <2>3. TreeOf(disk') = TreeOf(disk)
    BY <2>1, <2>2, TreeNodes
  <2> QED
    BY <1>5, <2>3 DEF TreeStep
<1>7. CASE i \notin Allocated(disk) /\ i \in Allocated(inode_array)
  <2>1. Allocated(disk') = Allocated(disk) \cup {i}
    BY <1>1, <1>3, <1>7 DEF Allocated, SameHeader
  <2>2. /\ \A k \in Allocated(disk) : NodeOf(disk', k) = NodeOf(disk, k)
        /\ NodeOf(disk', i) = n
    BY <1>1, <1>3, <1>7 DEF Allocated, SameHeader, NodeOf
  <2>3. TreeOf(disk') = TreeOf(disk) \cup {n}
    BY <2>1, <2>2, TreeNodes
  <2>4. n \in TreeOf(inode_array) /\ n.idx = i /\ n \in Tree!Node
    BY <1>1, <1>7, InTree, NodeFields
  <2>5. n \notin TreeOf(disk)
    BY <1>1, <1>7, <2>4, InTree
  <2>6. \A m \in TreeOf(inode_array) \ TreeOf(disk) : i <= m.idx
    <3> SUFFICES ASSUME NEW m \in TreeOf(inode_array), m \notin TreeOf(disk), m.idx < i
                 PROVE  FALSE
      <4>1. \A m \in TreeOf(inode_array) : m.idx \in Inodes
        BY <1>1, InTree DEF Allocated
      <4> QED
        BY <1>1, <4>1 DEF Inodes
    <3> DEFINE k == m.idx
    <3>1. k \in Allocated(inode_array) /\ m = NodeOf(inode_array, k) /\ k \in Inodes
      BY <1>1, InTree DEF Allocated
    <3> HIDE DEF k
    <3>2. SameHeader(disk[k], inode_array[k])
      BY <1>1, <3>1 DEF IInv, Progress, Written, k
    <3>3. k \in Allocated(disk) /\ NodeOf(disk, k) = m
      BY <3>1, <3>2 DEF Allocated, SameHeader, NodeOf
    <3> QED
      BY <1>1, <3>3, InTree
  <2> HIDE DEF n, i
  <2>7. Tree!Commit(n)
    BY <1>5, <2>3, <2>4, <2>5, <2>6 DEF Tree!Commit, InMemory
  <2> QED
    BY <2>4, <2>7 DEF TreeStep, Tree!TreeNext
<1> QED
  BY <1>6, <1>7

LEMMA PowerLossImplements ==
    ASSUME IInv, PowerLoss
    PROVE  TreeStep
<1>1. pc' = "off" /\ disk' = disk
  BY DEF PowerLoss
<1>2. Tree!Lose
  BY <1>1 DEF Tree!Lose
<1> QED
  BY <1>2 DEF TreeStep, Tree!TreeNext

\* The file system keeps the promise of DurableTree: a created inode appears
\* whole, becomes durable with its first sector and in order, and a power loss
\* or a reboot loses just what was not durable.
THEOREM VfsIsDurableTree == Spec => ImplementsDurableTree
<1>1. Init => Tree!TreeInit
  BY InitImplements
<1>2. IInv /\ [Next]_vars => [Tree!TreeNext]_(Tree!treeVars)
  <2> SUFFICES ASSUME IInv, [Next]_vars PROVE TreeStep
    BY DEF TreeStep, Tree!treeVars, InMemory
  <2>1. CASE Boot
    BY <2>1, BootImplements
  <2>2. CASE SyncSector
    BY <2>2, SyncSectorImplements
  <2>3. CASE PowerLoss
    BY <2>3, PowerLossImplements
  <2>4. CASE \E name \in Name, idx \in Inodes : Adding(name, idx)
    BY <2>4, AddingImplements
  <2>5. CASE \E idx \in Inodes : Filling(idx)
    BY <2>5, FillingImplements
  <2>6. CASE \E path : vfs_cd(path)
    <3>1. UNCHANGED <<inode_array, disk, pc>>
      BY <2>6 DEF vfs_cd
    <3> QED
      BY <3>1 DEF TreeStep, InMemory
  <2>7. CASE UNCHANGED vars
    BY <2>7 DEF vars, TreeStep, InMemory
  <2> QED
    BY <2>1, <2>2, <2>3, <2>4, <2>5, <2>6, <2>7, StepKinds
<1> QED
  BY <1>1, <1>2, InductiveInvariant, PTL
     DEF Spec, ImplementsDurableTree, Tree!TreeSpec

-----------------------------------------------------------------------------
(***************************************************************************)
(* What the drive has of the contents: behind the cursor of vfs_sync it    *)
(* equals memory, and between calls only cut writes are missing.           *)
(***************************************************************************)

Copied ==
    pc = "sync" =>
        /\ \A i \in Inodes : i < cursor.i => disk[i] = inode_array[i]
        /\ cursor.s # 0 => disk[cursor.i].size = inode_array[cursor.i].size
        /\ \A s \in 0 .. cursor.s - 1 :
              disk[cursor.i].data[s] = inode_array[cursor.i].data[s]

LagInv == Copied /\ DriveLagsOnlyByCutWrites

LEMMA SameInode ==
    ASSUME NEW m \in Inode, NEW n \in Inode, SameHeader(m, n), m.size = n.size,
           \A s \in Sectors : m.data[s] = n.data[s]
    PROVE  m = n
<1>1. m.data = n.data
  <2>1. m.data \in [Sectors -> Block] /\ n.data \in [Sectors -> Block]
    BY DEF Inode
  <2> QED
    BY <2>1
<1> QED
  BY <1>1 DEF Inode, SameHeader

LEMMA EntryType ==
    ASSUME NEW T \in [Inodes -> Inode], NEW i \in Inodes, NEW j \in EntriesOf(T, i)
    PROVE  j \in Inodes
<1>1. T[i].dir_entries \in Seq(Inodes)
  BY DEF Inode
<1>2. \A S \in Seq(Inodes) : \A k \in DOMAIN S : S[k] \in Inodes
  OBVIOUS
<1> QED
  BY <1>1, <1>2 DEF EntriesOf

\* What one drive_write_sector brings.
LEMMA SectorArrives ==
    ASSUME IInv, Copied, SyncSector,
           NEW i, i = cursor.i, NEW s, s = cursor.s
    PROVE  /\ i \in Inodes /\ s \in Sectors
           /\ disk'[i] \in Inode /\ inode_array[i] \in Inode
           /\ SameHeader(disk'[i], inode_array[i])
           /\ disk'[i].size = inode_array[i].size
           /\ \A t \in 0 .. s : disk'[i].data[t] = inode_array[i].data[t]
           /\ \A k \in Inodes \ {i} : disk'[k] = disk[k]
           /\ inode_array' = inode_array
<1> DEFINE m == disk[i]
           n == inode_array[i]
<1>1. /\ i \in Inodes /\ s \in Sectors /\ pc = "sync"
      /\ disk \in [Inodes -> Inode] /\ m \in Inode /\ n \in Inode
  BY DEF SyncSector, IInv, TypeOK
<1>2. /\ disk' = [disk EXCEPT ![i] = SectorCopied(@, inode_array[i], s)]
      /\ inode_array' = inode_array
  BY DEF SyncSector, WriteSector
<1>3. disk'[i] = SectorCopied(m, n, s) /\ \A k \in Inodes \ {i} : disk'[k] = disk[k]
  BY <1>1, <1>2
<1>4. /\ s # 0 => SameHeader(m, n) /\ m.size = n.size
      /\ \A t \in 0 .. s - 1 : m.data[t] = n.data[t]
  BY <1>1 DEF Copied, IInv, Progress, Written
<1> HIDE DEF m, n
<1>5. /\ disk'[i] \in Inode
      /\ SameHeader(disk'[i], IF s = 0 THEN n ELSE m)
  BY <1>1, <1>3, SectorCopiedType
<1> DEFINE b == IF s = 0 THEN n ELSE m
           d == [m.data EXCEPT ![s] = n.data[s]]
<1>6. disk'[i] = [b EXCEPT !.data = d] /\ b \in Inode
  BY <1>1, <1>3 DEF SectorCopied
<1>7. b.size = n.size /\ SameHeader(b, n)
  BY <1>4 DEF SameHeader
<1>8. m.data \in [Sectors -> Block]
  BY <1>1 DEF Inode
<1>9. \A t \in 0 .. s : d[t] = n.data[t]
  <2> SUFFICES ASSUME NEW t \in 0 .. s PROVE d[t] = n.data[t]
    OBVIOUS
  <2>1. t \in Sectors /\ (t = s \/ t \in 0 .. s - 1)
    BY <1>1, SizeAssumption DEF Sectors
  <2>2. CASE t = s
    BY <1>8, <2>1, <2>2
  <2>3. CASE t # s
    <3>1. d[t] = m.data[t]
      BY <1>8, <2>1, <2>3
    <3>2. m.data[t] = n.data[t]
      BY <1>4, <2>1, <2>3
    <3> QED
      BY <3>1, <3>2
  <2> QED
    BY <2>2, <2>3
<1> HIDE DEF b, d
<1>10. disk'[i].size = b.size /\ disk'[i].data = d
  BY <1>6 DEF Inode
<1> QED
  BY <1>1, <1>2, <1>3, <1>5, <1>7, <1>9, <1>10, <1>4 DEF SameHeader, n, b

\* When vfs_sync has written its last sector, the drive equals memory.
LEMMA SyncSectorCopies ==
    ASSUME IInv, Copied, SyncSector
    PROVE  /\ Copied'
           /\ pc' # "sync" => disk' = inode_array /\ inode_array' = inode_array
<1> DEFINE i == cursor.i
           s == cursor.s
<1>1. /\ i \in Inodes /\ s \in Sectors
      /\ disk'[i] \in Inode /\ inode_array[i] \in Inode
      /\ SameHeader(disk'[i], inode_array[i])
      /\ disk'[i].size = inode_array[i].size
      /\ \A t \in 0 .. s : disk'[i].data[t] = inode_array[i].data[t]
      /\ \A k \in Inodes \ {i} : disk'[k] = disk[k]
      /\ inode_array' = inode_array
  BY SectorArrives
<1>2. \A k \in Inodes : k < i => disk'[k] = inode_array[k]
  BY <1>1 DEF Copied, SyncSector, Inodes
<1>3. pc = "sync" /\ AdvanceCursor(MAX_INODES, INODE_SECTORS)
      /\ cursor \in [i : Inodes, s : Sectors]
  BY DEF SyncSector, IInv, TypeOK
<1>4. CASE s < INODE_SECTORS - 1
  <2>1. cursor' = [cursor EXCEPT !.s = @ + 1] /\ pc' = "sync"
    BY <1>3, <1>4 DEF AdvanceCursor
  <2>2. cursor'.i = i /\ cursor'.s = s + 1
    BY <1>3, <2>1
  <2>3. 0 .. (s + 1) - 1 = 0 .. s
    BY <1>1 DEF Sectors
  <2> HIDE DEF i, s
  <2> QED
    BY <1>1, <1>2, <2>1, <2>2, <2>3 DEF Copied
<1>5. CASE ~(s < INODE_SECTORS - 1)
  <2>1. disk'[i] = inode_array[i]
    <3>1. Sectors = 0 .. s
      BY <1>1, <1>5, SizeAssumption DEF Sectors
    <3> QED
      BY <1>1, <3>1, SameInode
  <2>2. \A k \in Inodes : k <= i => disk'[k] = inode_array[k]
    BY <1>1, <1>2, <2>1 DEF Inodes
  <2>3. CASE i < MAX_INODES - 1
    <3>1. cursor' = [i |-> i + 1, s |-> 0] /\ pc' = "sync"
      BY <1>3, <1>5, <2>3 DEF AdvanceCursor
    <3>2. \A k \in Inodes : k < i + 1 => k <= i
      BY <1>1 DEF Inodes
    <3> QED
      BY <1>1, <2>2, <3>1, <3>2 DEF Copied
  <2>4. CASE ~(i < MAX_INODES - 1)
    <3>1. pc' = "idle"
      BY <1>3, <1>5, <2>4 DEF AdvanceCursor
    <3>2. \A k \in Inodes : disk'[k] = inode_array[k]
      BY <1>1, <2>2, <2>4, SizeAssumption DEF Inodes
    <3>3. disk' = inode_array
      <4>1. disk' \in [Inodes -> Inode] /\ inode_array \in [Inodes -> Inode]
        BY SyncSectorInv DEF IInv, TypeOK
      <4> QED
        BY <3>2, <4>1
    <3> QED
      BY <1>1, <3>1, <3>3 DEF Copied
  <2> QED
    BY <2>3, <2>4
<1> QED
  BY <1>4, <1>5

LEMMA StartCopied ==
    ASSUME StartSync
    PROVE  Copied'
<1>1. cursor'.i = 0 /\ cursor'.s = 0
  BY DEF StartSync, FirstSector
<1>2. ~ \E k \in Inodes : k < 0
  BY DEF Inodes
<1> QED
  BY <1>1, <1>2 DEF Copied

\* The property DriveLagsOnlyByCutWrites of one inode.
Lags(D, M, i) ==
    \/ Full(M[i])
    \/ \E j \in EntriesOf(M, i) : Full(M[j]) /\ D[j].type = "INODE_FREE"

LEMMA LagsMeans ==
    DriveLagsOnlyByCutWrites <=>
        (pc = "idle" => \A i \in Inodes :
                            disk[i] # inode_array[i] => Lags(disk, inode_array, i))
BY DEF DriveLagsOnlyByCutWrites, Lags, Full

LEMMA AddingLags ==
    ASSUME IInv, DriveLagsOnlyByCutWrites, NEW name, NEW idx \in Inodes,
           Adding(name, idx), UNCHANGED <<pc, cursor>>, Full(inode_array'[idx]),
           NEW i \in Inodes, disk'[i] # inode_array'[i]
    PROVE  Lags(disk', inode_array', i)
<1>1. /\ pc = "idle" /\ disk' = disk
      /\ NewInode(inode_array, inode_array', current_dir, name, idx)
  BY DEF Adding, SyncedOrFull
<1>2. /\ inode_array \in [Inodes -> Inode] /\ current_dir \in Inodes
      /\ inode_array[current_dir].type = "INODE_DIR"
      /\ Keeps(disk, inode_array)
  BY <1>1 DEF IInv, TypeOK, CwdOK, Extends
<1>3. /\ FirstFree(inode_array, idx) /\ Adds(inode_array, inode_array', current_dir, idx)
      /\ \A k \in Inodes \ {idx, current_dir} : inode_array'[k] = inode_array[k]
  BY <1>1 DEF NewInode
<1>4. disk[idx].type = "INODE_FREE"
  BY <1>2, <1>3 DEF FirstFree, Keeps, Allocated
<1>5. CASE i = idx
  BY <1>5 DEF Lags
<1>6. CASE i = current_dir
  <2> DEFINE S == inode_array[current_dir].dir_entries
  <2>1. S \in Seq(Inodes) /\ inode_array'[current_dir].dir_entries = Append(S, idx)
    BY <1>2, <1>3 DEF Adds, Inode
  <2> HIDE DEF S
  <2>2. Len(S) + 1 \in DOMAIN Append(S, idx) /\ Append(S, idx)[Len(S) + 1] = idx
    BY <2>1
  <2>3. idx \in EntriesOf(inode_array', current_dir)
    BY <2>1, <2>2 DEF EntriesOf
  <2> QED
    BY <1>1, <1>4, <1>6, <2>3 DEF Lags
<1>7. CASE i \notin {idx, current_dir}
  <2>1. inode_array'[i] = inode_array[i]
    BY <1>3, <1>7
  <2>2. Lags(disk, inode_array, i)
    BY <1>1, <2>1, LagsMeans
  <2>3. ASSUME NEW j \in EntriesOf(inode_array, i), Full(inode_array[j])
        PROVE  Full(inode_array'[j])
    <3>1. j \in Inodes
      BY <1>2, EntryType
    <3>2. j # current_dir
      BY <1>2, <2>3 DEF Full
    <3> QED
      BY <1>3, <2>3, <3>1, <3>2
  <2>4. EntriesOf(inode_array', i) = EntriesOf(inode_array, i)
    BY <2>1 DEF EntriesOf
  <2> QED
    BY <1>1, <2>1, <2>2, <2>3, <2>4 DEF Lags
<1> QED
  BY <1>5, <1>6, <1>7

LEMMA FillingLags ==
    ASSUME IInv, DriveLagsOnlyByCutWrites, NEW idx \in Inodes,
           Filling(idx), UNCHANGED <<pc, cursor>>, Full(inode_array'[idx]),
           NEW i \in Inodes, disk'[i] # inode_array'[i]
    PROVE  Lags(disk', inode_array', i)
<1>1. /\ pc = "idle" /\ disk' = disk /\ inode_array \in [Inodes -> Inode]
      /\ \A k \in Inodes \ {idx} : inode_array'[k] = inode_array[k]
  BY DEF Filling, NewContent, SyncedOrFull, IInv, TypeOK
<1>2. CASE i = idx
  BY <1>2 DEF Lags
<1>3. CASE i # idx
  <2>1. inode_array'[i] = inode_array[i]
    BY <1>1, <1>3
  <2>2. Lags(disk, inode_array, i)
    BY <1>1, <2>1, LagsMeans
  <2>3. ASSUME NEW j \in EntriesOf(inode_array, i), Full(inode_array[j])
        PROVE  Full(inode_array'[j])
    BY <1>1, <2>3, EntryType
  <2>4. EntriesOf(inode_array', i) = EntriesOf(inode_array, i)
    BY <2>1 DEF EntriesOf
  <2> QED
    BY <1>1, <2>1, <2>2, <2>3, <2>4 DEF Lags
<1> QED
  BY <1>2, <1>3

LEMMA LagNext == IInv /\ LagInv /\ [Next]_vars => LagInv'
<1> SUFFICES ASSUME IInv, LagInv, [Next]_vars PROVE LagInv'
  OBVIOUS
<1>1. ASSUME pc' = "off" PROVE LagInv'
  BY <1>1 DEF LagInv, Copied, DriveLagsOnlyByCutWrites
<1>2. ASSUME StartSync PROVE LagInv'
  BY <1>2, StartCopied DEF LagInv, DriveLagsOnlyByCutWrites, StartSync
<1>3. ASSUME disk' = inode_array' PROVE DriveLagsOnlyByCutWrites'
  BY <1>3 DEF DriveLagsOnlyByCutWrites
<1>4. CASE Boot
  <2>1. CASE StartSync
    BY <1>2, <2>1
  <2>2. CASE ~StartSync
    BY <1>3, <1>4, <2>2 DEF Boot, Loaded, LagInv, Copied
  <2> QED
    BY <2>1, <2>2
<1>5. CASE SyncSector
  <2>1. Copied' /\ (pc' # "sync" => disk' = inode_array')
    BY <1>5, SyncSectorCopies DEF LagInv
  <2>2. pc' = "sync" => DriveLagsOnlyByCutWrites'
    BY DEF DriveLagsOnlyByCutWrites
  <2> QED
    BY <1>3, <2>1, <2>2 DEF LagInv
<1>6. CASE PowerLoss
  BY <1>1, <1>6 DEF PowerLoss
<1>7. ASSUME NEW name \in Name, NEW idx \in Inodes, Adding(name, idx)
      PROVE  LagInv'
  <2>1. StartSync \/ (UNCHANGED <<pc, cursor>> /\ Full(inode_array'[idx]) /\ pc = "idle")
    BY <1>7 DEF Adding, SyncedOrFull
  <2>2. ASSUME UNCHANGED <<pc, cursor>>, Full(inode_array'[idx]), pc = "idle"
        PROVE  LagInv'
    <3>1. \A i \in Inodes : disk'[i] # inode_array'[i] => Lags(disk', inode_array', i)
      BY <1>7, <2>2, AddingLags DEF LagInv
    <3>2. DriveLagsOnlyByCutWrites'
      BY <3>1 DEF DriveLagsOnlyByCutWrites, Lags, Full
    <3> QED
      BY <2>2, <3>2 DEF LagInv, Copied
  <2> QED
    BY <1>2, <2>1, <2>2
<1>8. ASSUME NEW idx \in Inodes, Filling(idx)
      PROVE  LagInv'
  <2>1. StartSync \/ (UNCHANGED <<pc, cursor>> /\ Full(inode_array'[idx]) /\ pc = "idle")
    BY <1>8 DEF Filling, SyncedOrFull
  <2>2. ASSUME UNCHANGED <<pc, cursor>>, Full(inode_array'[idx]), pc = "idle"
        PROVE  LagInv'
    <3>1. \A i \in Inodes : disk'[i] # inode_array'[i] => Lags(disk', inode_array', i)
      BY <1>8, <2>2, FillingLags DEF LagInv
    <3>2. DriveLagsOnlyByCutWrites'
      BY <3>1 DEF DriveLagsOnlyByCutWrites, Lags, Full
    <3> QED
      BY <2>2, <3>2 DEF LagInv, Copied
  <2> QED
    BY <1>2, <2>1, <2>2
<1>9. ASSUME UNCHANGED <<inode_array, disk, pc, cursor>> PROVE LagInv'
  BY <1>9 DEF LagInv, Copied, DriveLagsOnlyByCutWrites, EntriesOf
<1>10. CASE \E path : vfs_cd(path)
  BY <1>9, <1>10 DEF vfs_cd
<1>11. CASE UNCHANGED vars
  BY <1>9, <1>11 DEF vars
<1> QED
  BY <1>4, <1>5, <1>6, <1>7, <1>8, <1>10, <1>11, StepKinds

LEMMA LagHolds == Spec => []LagInv
<1>1. Init => LagInv
  BY DEF Init, LagInv, Copied, DriveLagsOnlyByCutWrites
<1> QED
  BY <1>1, LagNext, InductiveInvariant, PTL DEF Spec

\* Between calls the drive equals memory but for a write that vfs_write_file
\* cut: a full file, or the directory of a full file that is not yet there.
THEOREM LagOnlyByCutWrites == Spec => []DriveLagsOnlyByCutWrites
<1>1. LagInv => DriveLagsOnlyByCutWrites
  BY DEF LagInv
<1> QED
  BY <1>1, LagHolds, PTL

-----------------------------------------------------------------------------
(***************************************************************************)
(* vfs_pwd reaches the root.  The provers know no induction, but that each *)
(* set of naturals has a least element, from which it follows.             *)
(***************************************************************************)

LEMMA LeastNat ==
    ASSUME NEW S, S \subseteq Nat, S # {}
    PROVE  \E x \in S : \A y \in S : x <= y
<1>1. \E x \in S : \A y \in S : ~ (<<y, x>> \in OpToRel(<, Nat))
  BY WFMin, NatLessThanWellFounded, Zenon
<1>2. PICK x \in S : \A y \in S : ~ (<<y, x>> \in OpToRel(<, Nat))
  BY <1>1, Zenon
<1>3. \A y \in S : ~ (y < x)
  BY <1>2, Zenon DEF OpToRel
<1> QED
  BY <1>3

LEMMA NatInd ==
    ASSUME NEW S, 0 \in S, \A n \in Nat : n \in S => n + 1 \in S
    PROVE  Nat \subseteq S
<1> SUFFICES ASSUME Nat \ S # {} PROVE FALSE
  OBVIOUS
<1>1. PICK x \in Nat \ S : \A y \in Nat \ S : x <= y
  BY LeastNat
<1>2. x - 1 \in Nat /\ x - 1 \notin Nat \ S
  BY <1>1
<1> QED
  BY <1>1, <1>2

\* The loop of vfs_pwd is defined, and each round goes to the parent.
LEMMA PwdSteps ==
    ASSUME NEW T \in [Inodes -> Inode], NEW dir \in Inodes,
           NEW up, up = PwdPath(T, dir)
    PROVE  /\ up \in [0 .. MAX_INODES -> Inodes]
           /\ up[0] = dir
           /\ \A k \in 1 .. MAX_INODES :
                 up[k] = IF up[k - 1] = 0 THEN 0 ELSE T[up[k - 1]].parent_inode
<1> DEFINE Above(i) == IF i = 0 THEN 0 ELSE T[i].parent_inode
           Goes(f, n) == f[0] = dir /\ \A k \in 1 .. n : f[k] = Above(f[k - 1])
           Reached == {n \in Nat : \E f \in [0 .. n -> Inodes] : Goes(f, n)}
<1>1. \A i \in Inodes : Above(i) \in Inodes
  BY SizeAssumption DEF Inodes, Inode
<1> HIDE DEF Above
<1>2. 0 \in Reached
  <2> DEFINE f == [k \in 0 .. 0 |-> dir]
  <2>1. f \in [0 .. 0 -> Inodes] /\ Goes(f, 0)
    OBVIOUS
  <2> QED
    BY <2>1
<1>3. \A n \in Nat : n \in Reached => n + 1 \in Reached
  <2> SUFFICES ASSUME NEW n \in Nat, n \in Reached PROVE n + 1 \in Reached
    OBVIOUS
  <2>1. PICK f \in [0 .. n -> Inodes] : Goes(f, n)
    OBVIOUS
  <2> DEFINE g == [k \in 0 .. n + 1 |-> IF k = n + 1 THEN Above(f[n]) ELSE f[k]]
  <2>2. g \in [0 .. n + 1 -> Inodes]
    <3>1. Above(f[n]) \in Inodes /\ \A k \in 0 .. n + 1 : k # n + 1 => f[k] \in Inodes
      BY <1>1
    <3> QED
      BY <3>1
  <2>3. g[0] = dir
    BY <2>1
  <2>4. \A k \in 1 .. n + 1 : g[k] = Above(g[k - 1])
    <3> SUFFICES ASSUME NEW k \in 1 .. n + 1 PROVE g[k] = Above(g[k - 1])
      OBVIOUS
    <3>1. g[k - 1] = f[k - 1]
      OBVIOUS
    <3>2. CASE k = n + 1
      BY <3>1, <3>2
    <3>3. CASE k # n + 1
      BY <2>1, <3>1, <3>3
    <3> QED
      BY <3>2, <3>3
  <2>5. Goes(g, n + 1)
    BY <2>3, <2>4
  <2> HIDE DEF g, Goes
  <2> QED
    BY <2>2, <2>5
<1>4. MAX_INODES \in Reached
  <2> HIDE DEF Reached
  <2> QED
    BY <1>2, <1>3, NatInd, SizeAssumption
<1>5. PICK f \in [0 .. MAX_INODES -> Inodes] : Goes(f, MAX_INODES)
  BY <1>4
<1>6. f = [k \in 0 .. MAX_INODES |->
              IF k = 0 THEN dir ELSE IF f[k - 1] = 0 THEN 0 ELSE T[f[k - 1]].parent_inode]
  <2>1. f = [k \in 0 .. MAX_INODES |-> f[k]]
    OBVIOUS
  <2>2. \A k \in 0 .. MAX_INODES :
            f[k] = IF k = 0 THEN dir
                   ELSE IF f[k - 1] = 0 THEN 0 ELSE T[f[k - 1]].parent_inode
    BY <1>5, SizeAssumption DEF Above
  <2> QED
    BY <2>1, <2>2, Zenon
<1>7. up = [k \in 0 .. MAX_INODES |->
              IF k = 0 THEN dir
              ELSE IF up[k - 1] = 0 THEN 0 ELSE T[up[k - 1]].parent_inode]
  BY <1>6, Zenon DEF PwdPath
<1>8. up[0] = dir /\ \A k \in 1 .. MAX_INODES : up[k] = Above(up[k - 1])
  <2>1. \A k \in 0 .. MAX_INODES :
            up[k] = IF k = 0 THEN dir
                    ELSE IF up[k - 1] = 0 THEN 0 ELSE T[up[k - 1]].parent_inode
    BY <1>7, Zenon
  <2> QED
    BY <2>1, SizeAssumption DEF Above
<1>9. \A k \in Nat : k <= MAX_INODES => up[k] \in Inodes
  <2> DEFINE S == {k \in Nat : k <= MAX_INODES => up[k] \in Inodes}
  <2>1. 0 \in S
    BY <1>8
  <2>2. \A k \in Nat : k \in S => k + 1 \in S
    <3> SUFFICES ASSUME NEW k \in Nat, k \in S, k + 1 <= MAX_INODES
                 PROVE  up[k + 1] \in Inodes
      OBVIOUS
    <3>1. up[k] \in Inodes /\ k + 1 \in 1 .. MAX_INODES
      BY SizeAssumption
    <3>2. up[k + 1] = Above(up[k])
      BY <1>8, <3>1
    <3> QED
      BY <1>1, <3>1, <3>2
  <2> HIDE DEF S
  <2>3. Nat \subseteq S
    BY <2>1, <2>2, NatInd
  <2> QED
    BY <2>3 DEF S
<1>10. up \in [0 .. MAX_INODES -> Inodes]
  BY <1>7, <1>9, SizeAssumption
<1> QED
  BY <1>8, <1>10 DEF Above

\* Parents lie below their children, so the loop is at the root after at most
\* as many rounds as the index of the directory it began in.
LEMMA PwdArrives ==
    ASSUME NEW T \in [Inodes -> Inode], TableOK(T), NEW dir \in Inodes,
           dir = 0 \/ T[dir].type = "INODE_DIR"
    PROVE  PwdPath(T, dir)[MAX_INODES - 1] = 0
<1> DEFINE up == PwdPath(T, dir)
           Low(k) == up[k] = 0 \/ (up[k] + k <= dir /\ T[up[k]].type = "INODE_DIR")
           S == {k \in Nat : k <= MAX_INODES => Low(k)}
<1>1. /\ up \in [0 .. MAX_INODES -> Inodes]
      /\ up[0] = dir
      /\ \A k \in 1 .. MAX_INODES :
            up[k] = IF up[k - 1] = 0 THEN 0 ELSE T[up[k - 1]].parent_inode
  BY PwdSteps
<1> HIDE DEF up
<1>2. 0 \in S
  BY <1>1 DEF Inodes
<1>3. \A k \in Nat : k \in S => k + 1 \in S
  <2> SUFFICES ASSUME NEW k \in Nat, k \in S, k + 1 <= MAX_INODES PROVE Low(k + 1)
    OBVIOUS
  <2>1. Low(k) /\ k \in 0 .. MAX_INODES /\ k + 1 \in 1 .. MAX_INODES /\ (k + 1) - 1 = k
    BY SizeAssumption
  <2>2. up[k + 1] = IF up[k] = 0 THEN 0 ELSE T[up[k]].parent_inode
    BY <1>1, <2>1
  <2>3. up[k] \in Inodes /\ up[k + 1] \in Inodes
    BY <1>1, <2>1, SizeAssumption
  <2>4. CASE up[k] # 0
    <3> DEFINE i == up[k]
               p == T[i].parent_inode
    <3>1. i \in Allocated(T) \ {0} /\ i + k <= dir
      BY <2>1, <2>3, <2>4 DEF Allocated
    <3>2. p < i /\ T[p].type = "INODE_DIR"
      BY <3>1 DEF TableOK, LinksPointUp, ParentsListChildren
    <3>3. up[k + 1] = p
      BY <2>2, <2>4
    <3> HIDE DEF i, p
    <3>4. i \in Nat /\ p \in Nat /\ dir \in Nat
      BY <2>3, <3>3 DEF Inodes, i
    <3> QED
      BY <3>1, <3>2, <3>3, <3>4
  <2> QED
    BY <2>2, <2>4
<1>4. MAX_INODES - 1 \in S
  <2> HIDE DEF S
  <2> QED
    BY <1>2, <1>3, NatInd, SizeAssumption
<1>5. /\ Low(MAX_INODES - 1) /\ up[MAX_INODES - 1] \in Inodes
      /\ dir <= MAX_INODES - 1 /\ dir \in Nat
  BY <1>1, <1>4, SizeAssumption DEF Inodes
<1>6. up[MAX_INODES - 1] = 0
  BY <1>5, SizeAssumption DEF Inodes
<1> QED
  BY <1>6 DEF up

OffAtRoot == pc = "off" => current_dir = 0

LEMMA OffHolds == Spec => []OffAtRoot
<1>1. Init => OffAtRoot
  BY DEF Init, OffAtRoot
<1>2. OffAtRoot /\ [Next]_vars => OffAtRoot'
  BY DEF OffAtRoot, Next, vars, Boot, Loaded, SyncSector, AdvanceCursor, StartSync,
         vfs_mkdir, vfs_touch, vfs_write_file, vfs_cd, PowerLoss
<1> QED
  BY <1>1, <1>2, PTL DEF Spec

\* The unchecked loop of vfs_pwd, which fills path[32], is at the root in time.
THEOREM PwdEnds == Spec => []PwdReachesRoot
<1>1. IInv /\ OffAtRoot => PwdReachesRoot
  BY PwdArrives DEF IInv, TypeOK, CwdOK, OffAtRoot, PwdReachesRoot
<1> QED
  BY <1>1, InductiveInvariant, OffHolds, PTL

-----------------------------------------------------------------------------
(***************************************************************************)
(* Contents and names.                                                     *)
(***************************************************************************)

CoversAll(T) == \A i \in Inodes : Covers(T[i])

\* As long as no sync was torn, the drive is covered too whenever none runs.
CoverInv ==
    torn = 0 => CoversAll(inode_array) /\ (pc # "sync" => CoversAll(disk))

LEMMA ZeroCovers == CoversAll(ZeroTable) /\ Covers(Root)
<1>1. Zeroed.size = 0
  BY DEF Zeroed
<1>2. Root.size = 0
  BY <1>1, ZeroedType DEF Root, Inode
<1> QED
  BY <1>1, <1>2 DEF CoversAll, Covers, ZeroTable

LEMMA ImageCovers == CoversAll(MkfsImage)
<1> DEFINE root == [Root EXCEPT !.dir_entries = <<1>>]
           file == [Zeroed EXCEPT !.name = Stored[InitName], !.type = "INODE_FILE"]
<1>1. Zeroed.size = 0
  BY DEF Zeroed
<1>2. Root.size = 0
  BY <1>1, ZeroedType DEF Root, Inode
<1>3. root.size = 0
  <2> DEFINE one == <<1>>
  <2> HIDE DEF one
  <2>1. [Root EXCEPT !.dir_entries = one].size = Root.size
    BY ZeroedType DEF Inode
  <2> QED
    BY <1>2, <2>1 DEF one
<1>4. file \in Inode /\ file.size = 0
  <2>1. Stored[InitName] \in Name
    BY NameAssumption, ContentAssumption
  <2> QED
    BY <1>1, <2>1, ZeroedType DEF Inode, InodeType
<1> HIDE DEF root, file
<1>5. Covers(root) /\ Covers(file) /\ Covers(Zeroed)
  BY <1>1, <1>3, <1>4 DEF Covers
<1>6. Covers(Overwritten(file, InitData))
  BY <1>4, <1>5, OverwrittenCovers, ContentAssumption
<1>7. MkfsImage = [i \in Inodes |->
                      IF i = 0 THEN root
                      ELSE IF i = 1 THEN Overwritten(file, InitData) ELSE Zeroed]
  BY DEF MkfsImage, root, file
<1> QED
  BY <1>5, <1>6, <1>7 DEF CoversAll

LEMMA CoverNext == IInv /\ LagInv /\ CoverInv /\ [Next]_vars => CoverInv'
<1> SUFFICES ASSUME IInv, LagInv, CoverInv, [Next]_vars, torn' = 0
             PROVE  CoversAll(inode_array') /\ (pc' # "sync" => CoversAll(disk'))
  BY DEF CoverInv, CoversAll
<1>1. CASE Boot
  <2>1. CoversAll(disk) /\ disk' = disk
    BY <1>1 DEF Boot, Loaded, CoverInv
  <2>2. inode_array' = disk \/ inode_array' = [disk EXCEPT ![0] = Root]
    BY <1>1 DEF Boot, Loaded
  <2>3. disk \in [Inodes -> Inode]
    BY DEF IInv, TypeOK
  <2> QED
    BY <2>1, <2>2, <2>3, ZeroCovers DEF CoversAll
<1>2. CASE SyncSector
  <2>1. torn = 0 /\ inode_array' = inode_array
    BY <1>2 DEF SyncSector
  <2>2. pc' # "sync" => disk' = inode_array
    BY <1>2, SyncSectorCopies DEF LagInv
  <2> QED
    BY <2>1, <2>2 DEF CoverInv
<1>3. CASE PowerLoss
  <2>1. /\ torn' = IF pc = "sync" THEN torn + 1 ELSE torn
        /\ disk' = disk /\ inode_array' = ZeroTable
    BY <1>3 DEF PowerLoss
  <2>2. pc # "sync" /\ torn = 0
    BY <2>1 DEF IInv, TypeOK
  <2> QED
    BY <2>1, <2>2, ZeroCovers DEF CoverInv
<1>4. ASSUME NEW name \in Name, NEW idx \in Inodes, Adding(name, idx)
      PROVE  CoversAll(inode_array') /\ (pc' # "sync" => CoversAll(disk'))
  <2>1. /\ disk' = disk /\ pc = "idle" /\ torn = 0
        /\ NewInode(inode_array, inode_array', current_dir, name, idx)
    BY <1>4 DEF Adding, SyncedOrFull
  <2>2. \A i \in Inodes : Covers(inode_array[i])
    BY <2>1 DEF CoverInv, CoversAll
  <2>3. Covers(inode_array'[idx])
    BY <2>1 DEF NewInode
  <2>4. current_dir \in Inodes
    BY DEF IInv, TypeOK
  <2>5. Covers(inode_array'[current_dir])
    BY <2>1, <2>2, <2>4 DEF NewInode, Covers
  <2>6. \A i \in Inodes \ {idx, current_dir} : Covers(inode_array'[i])
    BY <2>1, <2>2 DEF NewInode
  <2> QED
    BY <2>1, <2>3, <2>5, <2>6 DEF CoverInv, CoversAll
<1>5. ASSUME NEW idx \in Inodes, Filling(idx)
      PROVE  CoversAll(inode_array') /\ (pc' # "sync" => CoversAll(disk'))
  <2>1. /\ disk' = disk /\ pc = "idle" /\ torn = 0
        /\ NewContent(inode_array, inode_array', idx)
    BY <1>5 DEF Filling, SyncedOrFull
  <2>2. \A i \in Inodes : Covers(inode_array[i])
    BY <2>1 DEF CoverInv, CoversAll
  <2>3. \A i \in Inodes : Covers(inode_array'[i])
    BY <2>1, <2>2 DEF NewContent
  <2> QED
    BY <2>1, <2>3 DEF CoverInv, CoversAll
<1>6. ASSUME UNCHANGED <<inode_array, disk, pc, torn>>
      PROVE  CoversAll(inode_array') /\ (pc' # "sync" => CoversAll(disk'))
  BY <1>6 DEF CoverInv
<1>7. CASE \E path : vfs_cd(path)
  BY <1>6, <1>7 DEF vfs_cd
<1>8. CASE UNCHANGED vars
  BY <1>6, <1>8 DEF vars
<1> QED
  BY <1>1, <1>2, <1>3, <1>4, <1>5, <1>7, <1>8, StepKinds

\* Until a sync is torn, a file's size covers only blocks a caller wrote.
THEOREM SizesCovered == Spec => []SizeCoversWrittenBlocks
<1>1. Init => CoverInv
  BY ZeroCovers, ImageCovers DEF Init, CoverInv
<1>2. Spec => []CoverInv
  BY <1>1, CoverNext, InductiveInvariant, LagHolds, PTL DEF Spec
<1>3. CoverInv => SizeCoversWrittenBlocks
  BY DEF CoverInv, CoversAll, Covers, SizeCoversWrittenBlocks
<1> QED
  BY <1>2, <1>3, PTL

SiblingsOK(T) ==
    \A i, j \in Allocated(T) \ {0} :
        i # j /\ T[i].parent_inode = T[j].parent_inode /\ T[i].name = T[j].name
        => \E long \in Name : long # Stored[long] /\ Stored[long] = T[i].name

NamesInv == SiblingsOK(disk) /\ SiblingsOK(inode_array)

\* A new name that is not cut is in none of the directory's entries, and so
\* on none of its children.
LEMMA NewNameDiffers ==
    ASSUME NEW T \in [Inodes -> Inode], NEW U \in [Inodes -> Inode],
           NEW dir \in Inodes, NEW name \in Name, NEW idx \in Inodes,
           T[dir].type = "INODE_DIR", TableOK(T), SiblingsOK(T),
           NewInode(T, U, dir, name, idx)
    PROVE  SiblingsOK(U)
<1>1. /\ FirstFree(T, idx) /\ NoMatch(T, dir, name) /\ Adds(T, U, dir, idx)
      /\ U[idx].name = Stored[name]
  BY DEF NewInode
<1>2. /\ idx # dir /\ U[idx].parent_inode = dir
      /\ \A k \in Inodes \ {idx} : /\ U[k].type = T[k].type
                                   /\ U[k].parent_inode = T[k].parent_inode
                                   /\ U[k].name = T[k].name
  BY <1>1 DEF FirstFree, Adds, SameHeader
<1>3. ASSUME NEW k \in Allocated(U) \ {0}, k # idx,
             U[k].parent_inode = dir, U[k].name = Stored[name]
      PROVE  \E long \in Name : long # Stored[long] /\ Stored[long] = Stored[name]
  <2>1. k \in Allocated(T) \ {0} /\ T[k].parent_inode = dir /\ T[k].name = Stored[name]
    BY <1>2, <1>3 DEF Allocated
  <2>2. k \in EntriesOf(T, dir)
    BY <2>1 DEF TableOK, ParentsListChildren
  <2>3. T[k].name # name
    BY <1>1, <2>2 DEF NoMatch, MatchAt, EntriesOf
  <2> QED
    BY <2>1, <2>3
<1>4. ASSUME NEW i \in Allocated(U) \ {0}, NEW j \in Allocated(U) \ {0},
             i # j, U[i].parent_inode = U[j].parent_inode, U[i].name = U[j].name
      PROVE  \E long \in Name : long # Stored[long] /\ Stored[long] = U[i].name
  <2>1. CASE i = idx
    BY <1>1, <1>2, <1>3, <1>4, <2>1
  <2>2. CASE j = idx
    BY <1>1, <1>2, <1>3, <1>4, <2>2
  <2>3. CASE i # idx /\ j # idx
    <3>1. i \in Allocated(T) \ {0} /\ j \in Allocated(T) \ {0}
      BY <1>2, <2>3 DEF Allocated
    <3>2. /\ T[i].parent_inode = T[j].parent_inode /\ T[i].name = T[j].name
          /\ U[i].name = T[i].name
      BY <1>2, <1>4, <2>3 DEF Allocated
    <3> QED
      BY <1>4, <3>1, <3>2 DEF SiblingsOK
  <2> QED
    BY <2>1, <2>2, <2>3
<1> QED
  BY <1>4 DEF SiblingsOK

LEMMA KeptSiblings ==
    ASSUME NEW T, NEW U, Keeps(T, U), SiblingsOK(U)
    PROVE  SiblingsOK(T)
<1>1. Allocated(T) \subseteq Allocated(U)
  BY DEF Keeps, Allocated
<1> QED
  BY <1>1 DEF SiblingsOK, Keeps

LEMMA NamesNext == IInv /\ IInv' /\ NamesInv /\ [Next]_vars => NamesInv'
<1> SUFFICES ASSUME IInv, IInv', NamesInv, [Next]_vars PROVE NamesInv'
  OBVIOUS
<1>1. ASSUME SiblingsOK(inode_array'), disk' = disk PROVE NamesInv'
  BY <1>1 DEF NamesInv
<1>2. CASE Boot
  <2>1. CASE disk[0].type = "INODE_DIR"
    BY <1>1, <1>2, <2>1 DEF Boot, Loaded, NamesInv
  <2>2. CASE disk[0].type # "INODE_DIR"
    <3>1. inode_array' = [disk EXCEPT ![0] = Root] /\ disk' = disk
      BY <1>2, <2>2 DEF Boot, Loaded
    <3>2. Allocated(inode_array') \ {0} \subseteq Allocated(disk) \ {0}
      BY <3>1 DEF Allocated, IInv, TypeOK
    <3>3. \A i \in Inodes \ {0} : inode_array'[i] = disk[i]
      BY <3>1 DEF IInv, TypeOK
    <3>4. SiblingsOK(inode_array')
      BY <3>2, <3>3 DEF NamesInv, SiblingsOK, Allocated
    <3> QED
      BY <1>1, <3>1, <3>4
  <2> QED
    BY <2>1, <2>2
<1>3. CASE SyncSector
  <2>1. inode_array' = inode_array /\ pc' # "off"
    BY <1>3 DEF SyncSector, AdvanceCursor
  <2>2. Keeps(disk', inode_array')
    BY <2>1 DEF IInv, Extends
  <2> QED
    BY <2>1, <2>2, KeptSiblings DEF NamesInv
<1>4. CASE PowerLoss
  <2>1. SiblingsOK(ZeroTable)
    BY ZeroTableOK DEF SiblingsOK
  <2> QED
    BY <1>1, <1>4, <2>1 DEF PowerLoss
<1>5. ASSUME NEW name \in Name, NEW idx \in Inodes, Adding(name, idx)
      PROVE  NamesInv'
  <2>1. /\ pc = "idle" /\ disk' = disk
        /\ NewInode(inode_array, inode_array', current_dir, name, idx)
    BY <1>5 DEF Adding, SyncedOrFull
  <2>2. /\ inode_array \in [Inodes -> Inode] /\ current_dir \in Inodes
        /\ inode_array[current_dir].type = "INODE_DIR"
        /\ TableOK(inode_array) /\ SiblingsOK(inode_array)
    BY <2>1 DEF IInv, TypeOK, CwdOK, NamesInv
  <2>3. inode_array' \in [Inodes -> Inode]
    BY <2>1 DEF NewInode
  <2> QED
    BY <1>1, <2>1, <2>2, <2>3, NewNameDiffers
<1>6. ASSUME NEW idx \in Inodes, Filling(idx)
      PROVE  NamesInv'
  <2>1. disk' = disk /\ \A k \in Inodes : SameHeader(inode_array'[k], inode_array[k])
    BY <1>6 DEF Filling, SyncedOrFull, NewContent, SameHeader
  <2>2. Allocated(inode_array') = Allocated(inode_array)
    BY <2>1 DEF Allocated, SameHeader
  <2>3. SiblingsOK(inode_array')
    BY <2>1, <2>2 DEF NamesInv, SiblingsOK, SameHeader, Allocated
  <2> QED
    BY <1>1, <2>1, <2>3
<1>7. ASSUME UNCHANGED <<inode_array, disk>> PROVE NamesInv'
  BY <1>7 DEF NamesInv
<1>8. CASE \E path : vfs_cd(path)
  BY <1>7, <1>8 DEF vfs_cd
<1>9. CASE UNCHANGED vars
  BY <1>7, <1>9 DEF vars
<1> QED
  BY <1>2, <1>3, <1>4, <1>5, <1>6, <1>8, <1>9, StepKinds

\* The duplicate check of vfs_mkdir and file_create fails for no name but one
\* that is cut, over any number of torn syncs.
THEOREM SiblingsDiffer == Spec => []SiblingNamesDiffer
<1>1. Init => NamesInv
  <2>1. SiblingsOK(ZeroTable)
    BY ZeroTableOK DEF SiblingsOK
  <2>2. SiblingsOK(MkfsImage)
    <3>1. Allocated(MkfsImage) \ {0} \subseteq {1}
      BY DEF MkfsImage, Allocated, Zeroed
    <3> QED
      BY <3>1 DEF SiblingsOK
  <2> QED
    BY <2>1, <2>2 DEF Init, NamesInv
<1>2. Spec => []NamesInv
  BY <1>1, NamesNext, InductiveInvariant, PTL DEF Spec
<1>3. NamesInv => SiblingNamesDiffer
  BY DEF NamesInv, SiblingsOK, SiblingNamesDiffer
<1> QED
  BY <1>2, <1>3, PTL

-----------------------------------------------------------------------------
(***************************************************************************)
(* How often an inode is listed.                                           *)
(***************************************************************************)

Entry(T, d, k) == T[d].dir_entries[k]
Places(T, d) == DOMAIN T[d].dir_entries

FreeEmpty(T) ==
    \A i \in Inodes : T[i].type = "INODE_FREE" => T[i].dir_entries = <<>>

\* Each entry of T is an entry of U, at the same place.
Lists(T, U) ==
    \A d \in Inodes : \A k \in Places(T, d) :
        k \in Places(U, d) /\ Entry(U, d, k) = Entry(T, d, k)

\* An inode is listed once, if it is there, and once more per torn sync.
Linked(T, t) ==
    \A i \in Inodes :
        Cardinality(LinksTo(T, i)) <= t + IF T[i].type = "INODE_FREE" THEN 0 ELSE 1

LinkInv ==
    /\ FreeEmpty(disk) /\ FreeEmpty(inode_array)
    /\ pc # "off" => Lists(disk, inode_array)
    /\ Linked(inode_array, torn)
    /\ pc # "sync" => Linked(disk, torn)

LEMMA LinkMeans ==
    ASSUME NEW T, NEW i, NEW d, NEW k
    PROVE  <<d, k>> \in LinksTo(T, i) <=>
               /\ d \in Inodes /\ k \in 1 .. MAX_DIR_ENTRIES
               /\ k \in Places(T, d) /\ Entry(T, d, k) = i
BY DEF LinksTo, Places, Entry

LEMMA LinksFinite ==
    ASSUME NEW T, NEW i
    PROVE  /\ IsFiniteSet(LinksTo(T, i))
           /\ Cardinality(LinksTo(T, i)) \in Nat
           /\ LinksTo(T, i) \subseteq Inodes \X (1 .. MAX_DIR_ENTRIES)
<1>1. IsFiniteSet(Inodes) /\ IsFiniteSet(1 .. MAX_DIR_ENTRIES)
  BY FS_Interval, SizeAssumption DEF Inodes
<1>2. IsFiniteSet(Inodes \X (1 .. MAX_DIR_ENTRIES))
  BY <1>1, FS_Product
<1>3. LinksTo(T, i) \subseteq Inodes \X (1 .. MAX_DIR_ENTRIES)
  BY DEF LinksTo
<1>4. IsFiniteSet(LinksTo(T, i))
  BY <1>2, <1>3, FS_Subset
<1> QED
  BY <1>3, <1>4, FS_CardinalityType

LEMMA FewerLinks ==
    ASSUME NEW T, NEW U, NEW i, LinksTo(T, i) \subseteq LinksTo(U, i)
    PROVE  Cardinality(LinksTo(T, i)) <= Cardinality(LinksTo(U, i))
BY LinksFinite, FS_Subset

LEMMA ListsLinks ==
    ASSUME NEW T, NEW U, Lists(T, U), NEW i
    PROVE  LinksTo(T, i) \subseteq LinksTo(U, i)
<1> SUFFICES ASSUME NEW d \in Inodes, NEW k \in 1 .. MAX_DIR_ENTRIES,
                    <<d, k>> \in LinksTo(T, i)
             PROVE  <<d, k>> \in LinksTo(U, i)
  BY LinksFinite
<1> QED
  BY LinkMeans DEF Lists

LEMMA ZeroLinks ==
    ASSUME NEW t \in Nat
    PROVE  FreeEmpty(ZeroTable) /\ Linked(ZeroTable, t)
<1>1. \A i \in Inodes : ZeroTable[i].dir_entries = <<>>
  BY DEF ZeroTable, Zeroed
<1>2. \A i \in Inodes : LinksTo(ZeroTable, i) = {}
  <2>1. \A d \in Inodes : Places(ZeroTable, d) = {}
    BY <1>1 DEF Places
  <2> QED
    BY <2>1, LinkMeans, LinksFinite
<1>3. \A i \in Inodes : Cardinality(LinksTo(ZeroTable, i)) = 0
  BY <1>2, FS_EmptySet
<1> QED
  BY <1>1, <1>3 DEF FreeEmpty, Linked

LEMMA ImageLinks == FreeEmpty(MkfsImage) /\ Linked(MkfsImage, 0)
<1> DEFINE root == [Root EXCEPT !.dir_entries = <<1>>]
           file == [Zeroed EXCEPT !.name = Stored[InitName], !.type = "INODE_FILE"]
           f == Overwritten(file, InitData)
<1>1. Zeroed.dir_entries = <<>>
  BY DEF Zeroed
<1>2. root.dir_entries = <<1>> /\ root.type = "INODE_DIR"
  <2> DEFINE one == <<1>>
  <2> HIDE DEF one
  <2>1. /\ [Root EXCEPT !.dir_entries = one].dir_entries = one
        /\ [Root EXCEPT !.dir_entries = one].type = Root.type
    BY ZeroedType DEF Inode
  <2>2. Root.type = "INODE_DIR"
    BY ZeroedType DEF Root, Inode
  <2> QED
    BY <2>1, <2>2 DEF one
<1>3. file \in Inode /\ file.type = "INODE_FILE" /\ file.dir_entries = <<>>
  <2>1. Stored[InitName] \in Name
    BY NameAssumption, ContentAssumption
  <2> QED
    BY <1>1, <2>1, ZeroedType DEF Inode, InodeType
<1>4. f.type = "INODE_FILE" /\ f.dir_entries = <<>>
  <2>1. InitData \in Seq(Block)
    BY ContentAssumption
  <2> HIDE DEF file
  <2> QED
    BY <1>3, <2>1, OverwrittenType DEF SameHeader
<1>5. MkfsImage = [i \in Inodes |-> IF i = 0 THEN root ELSE IF i = 1 THEN f ELSE Zeroed]
  BY DEF MkfsImage
<1> HIDE DEF root, f
<1>6. 0 \in Inodes /\ 1 \in Inodes
  BY SizeAssumption DEF Inodes
<1>7. /\ MkfsImage[0] = root /\ MkfsImage[1] = f
      /\ \A i \in Inodes \ {0} : MkfsImage[i].dir_entries = <<>>
  BY <1>1, <1>4, <1>5, <1>6
<1>8. /\ Places(MkfsImage, 0) = {1} /\ Entry(MkfsImage, 0, 1) = 1
      /\ \A d \in Inodes \ {0} : Places(MkfsImage, d) = {}
  BY <1>2, <1>7 DEF Places, Entry
<1>9. ASSUME NEW i \in Inodes, i # 1
      PROVE  Cardinality(LinksTo(MkfsImage, i)) = 0
  <2>1. LinksTo(MkfsImage, i) = {}
    BY <1>8, <1>9, LinkMeans, LinksFinite
  <2> QED
    BY <2>1, FS_EmptySet
<1>10. Cardinality(LinksTo(MkfsImage, 1)) <= 1
  <2>1. LinksTo(MkfsImage, 1) \subseteq {<<0, 1>>}
    BY <1>8, LinkMeans, LinksFinite
  <2>2. IsFiniteSet({<<0, 1>>}) /\ Cardinality({<<0, 1>>}) = 1
    BY FS_Singleton
  <2>3. Cardinality(LinksTo(MkfsImage, 1)) <= Cardinality({<<0, 1>>})
    BY <2>1, <2>2, FS_Subset
  <2> QED
    BY <2>2, <2>3
<1>11. Linked(MkfsImage, 0)
  <2>1. MkfsImage[1].type # "INODE_FREE"
    BY <1>4, <1>7
  <2> QED
    BY <1>9, <1>10, <2>1 DEF Linked
<1>12. FreeEmpty(MkfsImage)
  BY <1>2, <1>7 DEF FreeEmpty
<1> QED
  BY <1>11, <1>12

\* A new inode is listed once more than the torn syncs have left it listed.
LEMMA AddLinks ==
    ASSUME NEW T \in [Inodes -> Inode], NEW U \in [Inodes -> Inode],
           NEW dir \in Inodes, NEW idx \in Inodes, FirstFree(T, idx),
           T[dir].type = "INODE_DIR", Adds(T, U, dir, idx),
           NEW t \in Nat, Linked(T, t), FreeEmpty(T)
    PROVE  Linked(U, t) /\ FreeEmpty(U) /\ Lists(T, U)
<1> DEFINE S == T[dir].dir_entries
           last == Len(S) + 1
<1>1. idx # dir /\ T[idx].type = "INODE_FREE" /\ S \in Seq(Inodes)
  BY DEF FirstFree, Inode
<1>2. /\ U[dir].dir_entries = Append(S, idx)
      /\ U[idx].dir_entries = <<>> /\ U[idx].type # "INODE_FREE"
      /\ T[idx].dir_entries = <<>>
      /\ \A k \in Inodes \ {idx, dir} : U[k].dir_entries = T[k].dir_entries
      /\ \A k \in Inodes \ {idx} : U[k].type = T[k].type
  BY <1>1 DEF Adds, SameHeader, FreeEmpty
<1>3. /\ DOMAIN Append(S, idx) = DOMAIN S \cup {last}
      /\ \A k \in DOMAIN S : Append(S, idx)[k] = S[k]
      /\ Append(S, idx)[last] = idx
  BY <1>1
<1> HIDE DEF S, last
<1>4. /\ Places(T, dir) = DOMAIN S /\ Places(U, dir) = DOMAIN S \cup {last}
      /\ \A k \in DOMAIN S : Entry(U, dir, k) = Entry(T, dir, k)
      /\ Entry(U, dir, last) = idx
      /\ \A d \in Inodes \ {dir} : /\ Places(U, d) = Places(T, d)
                                   /\ \A k : Entry(U, d, k) = Entry(T, d, k)
  BY <1>2, <1>3 DEF Places, Entry, S
<1>5. ASSUME NEW i \in Inodes, i # idx
      PROVE  LinksTo(U, i) \subseteq LinksTo(T, i)
  <2> SUFFICES ASSUME NEW d \in Inodes, NEW k \in 1 .. MAX_DIR_ENTRIES,
                      <<d, k>> \in LinksTo(U, i)
               PROVE  <<d, k>> \in LinksTo(T, i)
    BY LinksFinite
  <2>1. k \in Places(U, d) /\ Entry(U, d, k) = i
    BY LinkMeans
  <2>2. k \in Places(T, d) /\ Entry(T, d, k) = i
    BY <1>4, <1>5, <2>1
  <2> QED
    BY <2>2, LinkMeans
<1>6. LinksTo(U, idx) \subseteq LinksTo(T, idx) \cup {<<dir, last>>}
  <2> SUFFICES ASSUME NEW d \in Inodes, NEW k \in 1 .. MAX_DIR_ENTRIES,
                      <<d, k>> \in LinksTo(U, idx), <<d, k>> # <<dir, last>>
               PROVE  <<d, k>> \in LinksTo(T, idx)
    BY LinksFinite
  <2>1. k \in Places(U, d) /\ Entry(U, d, k) = idx
    BY LinkMeans
  <2>2. k \in Places(T, d) /\ Entry(T, d, k) = idx
    BY <1>4, <2>1
  <2> QED
    BY <2>2, LinkMeans
<1>7. Cardinality(LinksTo(U, idx)) <= t + 1
  <2> DEFINE L == LinksTo(T, idx)
             x == <<dir, last>>
  <2>1. IsFiniteSet(L) /\ Cardinality(L) \in Nat /\ Cardinality(L) <= t + 0
    BY <1>1, LinksFinite DEF Linked
  <2>2. LinksTo(U, idx) \subseteq L \cup {x}
    BY <1>6
  <2>4. IsFiniteSet(LinksTo(U, idx)) /\ Cardinality(LinksTo(U, idx)) \in Nat
    BY LinksFinite
  <2> HIDE DEF L, x
  <2>3. /\ IsFiniteSet(L \cup {x})
        /\ Cardinality(L \cup {x}) = IF x \in L THEN Cardinality(L) ELSE Cardinality(L) + 1
    BY <2>1, FS_AddElement
  <2>5. Cardinality(LinksTo(U, idx)) <= Cardinality(L \cup {x})
    BY <2>2, <2>3, FS_Subset
  <2> QED
    BY <2>1, <2>3, <2>4, <2>5
<1>8. Linked(U, t)
  <2> SUFFICES ASSUME NEW i \in Inodes
               PROVE  Cardinality(LinksTo(U, i))
                          <= t + IF U[i].type = "INODE_FREE" THEN 0 ELSE 1
    BY DEF Linked
  <2>1. CASE i = idx
    BY <1>2, <1>7, <2>1
  <2>2. CASE i # idx
    <3>1. Cardinality(LinksTo(U, i)) <= Cardinality(LinksTo(T, i))
      BY <1>5, <2>2, FewerLinks
    <3>2. Cardinality(LinksTo(T, i)) <= t + IF U[i].type = "INODE_FREE" THEN 0 ELSE 1
      BY <1>2, <2>2 DEF Linked
    <3>3. Cardinality(LinksTo(U, i)) \in Nat /\ Cardinality(LinksTo(T, i)) \in Nat
      BY LinksFinite
    <3> DEFINE b == t + IF U[i].type = "INODE_FREE" THEN 0 ELSE 1
    <3>4. b \in Nat
      OBVIOUS
    <3> HIDE DEF b
    <3> QED
      BY <3>1, <3>2, <3>3, <3>4 DEF b
  <2> QED
    BY <2>1, <2>2
<1>9. FreeEmpty(U)
  <2>1. U[dir].type = "INODE_DIR"
    BY <1>1, <1>2
  <2> QED
    BY <1>2, <2>1 DEF FreeEmpty
<1>10. Lists(T, U)
  BY <1>4 DEF Lists
<1> QED
  BY <1>8, <1>9, <1>10

\* Equal headers, but for the type of the root, list the same.
LEMMA SameLinks ==
    ASSUME NEW T, NEW U, NEW t \in Nat, Linked(T, t),
           \A k \in Inodes : /\ U[k].dir_entries = T[k].dir_entries
                             /\ U[k].type = "INODE_FREE" => T[k].type = "INODE_FREE"
    PROVE  Linked(U, t)
<1> SUFFICES ASSUME NEW i \in Inodes
             PROVE  Cardinality(LinksTo(U, i))
                        <= t + IF U[i].type = "INODE_FREE" THEN 0 ELSE 1
  BY DEF Linked
<1>1. LinksTo(U, i) = LinksTo(T, i)
  BY DEF LinksTo
<1>2. Cardinality(LinksTo(T, i)) <= t + IF T[i].type = "INODE_FREE" THEN 0 ELSE 1
  BY DEF Linked
<1>3. Cardinality(LinksTo(T, i)) \in Nat
  BY LinksFinite
<1> QED
  BY <1>1, <1>2, <1>3

LEMMA LinkNext == IInv /\ LagInv /\ LinkInv /\ [Next]_vars => LinkInv'
<1> SUFFICES ASSUME IInv, LagInv, LinkInv, [Next]_vars PROVE LinkInv'
  OBVIOUS
<1>0. torn \in Nat /\ disk \in [Inodes -> Inode] /\ inode_array \in [Inodes -> Inode]
      /\ pc \in {"off", "idle", "sync"}
  BY TornAssumption DEF IInv, TypeOK
<1>1. CASE Boot
  <2>1. disk' = disk /\ torn' = torn /\ pc = "off" /\ Linked(disk, torn)
    BY <1>1 DEF Boot, Loaded, LinkInv
  <2>2. CASE inode_array' = disk
    BY <2>1, <2>2 DEF LinkInv, Lists
  <2>3. CASE inode_array' = [disk EXCEPT ![0] = Root] /\ disk[0].type # "INODE_DIR"
    <3>1. disk[0].type = "INODE_FREE" /\ 0 \in Inodes
      BY <2>3, SizeAssumption DEF IInv, CwdOK, Inodes
    <3>2. disk[0].dir_entries = <<>> /\ Root.dir_entries = <<>> /\ Root.type = "INODE_DIR"
      <4>1. Zeroed.dir_entries = <<>>
        BY DEF Zeroed
      <4> QED
        BY <3>1, <4>1, ZeroedType DEF Root, Inode, LinkInv, FreeEmpty
    <3>3. \A k \in Inodes :
             /\ inode_array'[k].dir_entries = disk[k].dir_entries
             /\ inode_array'[k].type = "INODE_FREE" => disk[k].type = "INODE_FREE"
      BY <1>0, <2>3, <3>1, <3>2
    <3>4. Linked(inode_array', torn)
      BY <1>0, <2>1, <3>3, SameLinks
    <3>5. FreeEmpty(inode_array') /\ Lists(disk, inode_array')
      BY <3>3 DEF LinkInv, FreeEmpty, Lists, Places, Entry
    <3> QED
      BY <2>1, <3>4, <3>5 DEF LinkInv
  <2> QED
    BY <1>1, <2>2, <2>3 DEF Boot, Loaded
<1>2. CASE SyncSector
  <2> DEFINE i == cursor.i
  <2>1. /\ pc = "sync" /\ inode_array' = inode_array /\ torn' = torn
        /\ i \in Inodes
        /\ SameHeader(disk'[i], inode_array[i])
        /\ \A k \in Inodes \ {i} : disk'[k] = disk[k]
    BY <1>2, SectorArrives DEF SyncSector, LagInv
  <2>2. FreeEmpty(disk')
    BY <2>1 DEF LinkInv, FreeEmpty, SameHeader
  <2>3. Lists(disk', inode_array)
    BY <2>1 DEF LinkInv, Lists, SameHeader, Places, Entry
  <2>4. pc' # "sync" => disk' = inode_array
    BY <1>2, SyncSectorCopies DEF LagInv
  <2> QED
    BY <2>1, <2>2, <2>3, <2>4 DEF LinkInv
<1>3. CASE PowerLoss
  <2>1. /\ torn' = IF pc = "sync" THEN torn + 1 ELSE torn
        /\ disk' = disk /\ inode_array' = ZeroTable /\ pc' = "off"
    BY <1>3 DEF PowerLoss
  <2>2. torn' \in Nat
    BY <1>0, <2>1
  <2>3. Linked(disk, torn')
    <3>1. CASE pc # "sync"
      BY <2>1, <3>1 DEF LinkInv
    <3>2. CASE pc = "sync"
      <4> SUFFICES ASSUME NEW i \in Inodes
                   PROVE  Cardinality(LinksTo(disk, i))
                            <= torn' + IF disk[i].type = "INODE_FREE" THEN 0 ELSE 1
        BY DEF Linked
      <4>1. Cardinality(LinksTo(disk, i)) <= Cardinality(LinksTo(inode_array, i))
        BY <3>2, ListsLinks, FewerLinks DEF LinkInv
      <4>2. Cardinality(LinksTo(inode_array, i))
                <= torn + IF inode_array[i].type = "INODE_FREE" THEN 0 ELSE 1
        BY DEF LinkInv, Linked
      <4>3. /\ Cardinality(LinksTo(disk, i)) \in Nat
            /\ Cardinality(LinksTo(inode_array, i)) \in Nat
        BY LinksFinite
      <4>4. Cardinality(LinksTo(inode_array, i)) <= torn + 1
        BY <1>0, <4>2, <4>3
      <4>5. torn' = torn + 1
        BY <2>1, <3>2
      <4>6. Cardinality(LinksTo(disk, i)) <= torn'
        BY <1>0, <4>1, <4>3, <4>4, <4>5
      <4> QED
        BY <2>2, <4>3, <4>6
    <3> QED
      BY <3>1, <3>2
  <2> QED
    BY <2>1, <2>2, <2>3, ZeroLinks DEF LinkInv
<1>4. ASSUME NEW name \in Name, NEW idx \in Inodes, Adding(name, idx)
      PROVE  LinkInv'
  <2>1. /\ pc = "idle" /\ disk' = disk /\ torn' = torn
        /\ FirstFree(inode_array, idx) /\ inode_array' \in [Inodes -> Inode]
        /\ Adds(inode_array, inode_array', current_dir, idx)
        /\ current_dir \in Inodes /\ inode_array[current_dir].type = "INODE_DIR"
    BY <1>4 DEF Adding, SyncedOrFull, NewInode, IInv, TypeOK, CwdOK
  <2>2. /\ Linked(inode_array', torn) /\ FreeEmpty(inode_array')
        /\ Lists(inode_array, inode_array')
    BY <1>0, <2>1, AddLinks DEF LinkInv
  <2>3. Lists(disk, inode_array')
    BY <2>1, <2>2 DEF LinkInv, Lists
  <2> QED
    BY <2>1, <2>2, <2>3 DEF LinkInv
<1>5. ASSUME NEW idx \in Inodes, Filling(idx)
      PROVE  LinkInv'
  <2>1. /\ pc = "idle" /\ disk' = disk /\ torn' = torn
        /\ \A k \in Inodes : SameHeader(inode_array'[k], inode_array[k])
    BY <1>5 DEF Filling, SyncedOrFull, NewContent, SameHeader
  <2>2. Linked(inode_array', torn)
    BY <1>0, <2>1, SameLinks DEF LinkInv, SameHeader
  <2>3. FreeEmpty(inode_array') /\ Lists(disk, inode_array')
    BY <2>1 DEF LinkInv, FreeEmpty, SameHeader, Lists, Places, Entry
  <2> QED
    BY <2>1, <2>2, <2>3 DEF LinkInv
<1>6. ASSUME UNCHANGED <<inode_array, disk, pc, torn>> PROVE LinkInv'
  BY <1>6 DEF LinkInv
<1>7. CASE \E path : vfs_cd(path)
  BY <1>6, <1>7 DEF vfs_cd
<1>8. CASE UNCHANGED vars
  BY <1>6, <1>8 DEF vars
<1> QED
  BY <1>1, <1>2, <1>3, <1>4, <1>5, <1>7, <1>8, StepKinds

\* Each torn sync leaves an inode at most one link too many: that of the
\* directory which reached the drive before the inode.
THEOREM LinksBounded == Spec => []LinkedOncePerTear
<1>1. Init => LinkInv
  <2>1. 0 \in Nat
    OBVIOUS
  <2> QED
    BY <2>1, ZeroLinks, ImageLinks DEF Init, LinkInv
<1>2. Spec => []LinkInv
  BY <1>1, LinkNext, InductiveInvariant, LagHolds, PTL DEF Spec
<1>3. IInv /\ LinkInv => LinkedOncePerTear
  <2> SUFFICES ASSUME IInv, LinkInv, NEW i \in Allocated(inode_array)
               PROVE  Cardinality(LinksTo(inode_array, i)) <= 1 + torn
    BY DEF LinkedOncePerTear
  <2>1. torn \in Nat
    BY TornAssumption DEF IInv, TypeOK
  <2>2. Cardinality(LinksTo(inode_array, i)) <= torn + 1
    BY DEF LinkInv, Linked, Allocated
  <2> QED
    BY <2>1, <2>2
<1> QED
  BY <1>2, <1>3, InductiveInvariant, PTL
=============================================================================
