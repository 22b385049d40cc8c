-------------------------------- MODULE Fat --------------------------------
(***************************************************************************)
(* The FAT12 reader of pico-os1 (kernel/fat.c) and the commands ls and cat *)
(* of its shell (application/shell.c), one step per directory entry and    *)
(* per cluster.  The disk image is in flash and never changes.             *)
(*                                                                         *)
(* The bytes of a file are pairs of a cluster and a number of its bytes; a *)
(* character is a string of length one.  What is printed besides names and *)
(* bytes is left out.                                                      *)
(***************************************************************************)
EXTENDS Integers, Sequences, FiniteSets, SequencesExt

CONSTANTS
    Disks,          \* images: chains of clusters, contents of directories, and
                    \* which bytes of the data are zero
    Geometries,     \* the fields of the boot sector that give the layout
    LsPaths,        \* arguments of ls and of cat, split at the slashes; none
    CatPaths,       \* takes a file for a directory
    NoArgument,     \* ls without an argument; the argument "/" has no names
    CLUSTER_SIZE,   \* bytes per cluster, of the boot sector
    BUFFER_SIZE,    \* bytes that cat prints at a time, 1024 in the code
    DIR_ENTRIES,    \* directory entries per cluster, 32
    BASE_LEN,       \* lengths of the two parts of a name, 8 and 3
    EXT_LEN,
    Upper           \* the lower case letters and what they become

EMPTY == 0          \* the cluster of the root directory and of an empty file
LAST == 3840        \* 0xF00: a larger value is no cluster
END_OF_CHAIN == 4095
NAME_LEN == BASE_LEN + EXT_LEN
BLANK == " "        \* what pads a name
DOT == "."

DirectoryEntry == [name : Seq(STRING), kind : STRING, cluster : Nat, size : Nat]

Live(e) == e.kind \notin {"free", "deleted"}

(* A name as a FAT12 formatter writes it: capitals, blanks only at the end *)
(* of each part, and no dot but in the first two entries of a directory.   *)
NameWritten(name) ==
    /\ Len(name) = NAME_LEN
    /\ name[1] # BLANK
    /\ \A i \in DOMAIN name : name[i] \notin DOMAIN Upper
    /\ \A i, j \in 1 .. BASE_LEN : (i < j /\ name[i] = BLANK) => name[j] = BLANK
    /\ name[1] = DOT \/ \A i \in 1 .. BASE_LEN : name[i] # DOT

(* A file system without damage: chains share no cluster, a directory has  *)
(* the entries and a file the bytes that their clusters can hold, and no   *)
(* two entries of a directory have the name of the same file.              *)
WellFormed(image) ==
    /\ \A c \in image.chains : /\ c \in Seq(2 .. LAST - 1) /\ c # <<>>
                               /\ IsInjective(c)
    /\ \A c, d \in image.chains : c # d => ToSet(c) \cap ToSet(d) = {}
    /\ EMPTY \in DOMAIN image.dirs
    /\ \A dir \in DOMAIN image.dirs :
          /\ image.dirs[dir] \in Seq(DirectoryEntry)
          /\ dir # EMPTY => \E c \in image.chains :
                c[1] = dir /\ Len(image.dirs[dir]) = DIR_ENTRIES * Len(c)
          /\ \A i, j \in DOMAIN image.dirs[dir] :
                LET e == image.dirs[dir][i]
                    other == image.dirs[dir][j]
                IN  (e.kind \in {"file", "dir"} /\ Live(other)) =>
                        /\ NameWritten(e.name)
                        /\ other.name = e.name => i = j
          /\ \A e \in ToSet(image.dirs[dir]) :
                /\ e.kind = "dir" => e.cluster \in DOMAIN image.dirs
                /\ (e.kind = "file" /\ e.size > 0) => \E c \in image.chains :
                      /\ c[1] = e.cluster
                      /\ e.size \in (Len(c) - 1) * CLUSTER_SIZE + 1 .. Len(c) * CLUSTER_SIZE
    /\ image.zeros \subseteq Nat

Layout == [bytesPerSector : Nat \ {0}, sectorsPerCluster : Nat,
           reservedSectorCount : Nat, tableSize16 : Nat, tableCount : Nat,
           rootEntryCount : Nat]

ASSUME FatAssumption ==
    /\ {CLUSTER_SIZE, BUFFER_SIZE, DIR_ENTRIES, BASE_LEN, EXT_LEN} \subseteq Nat \ {0}
    /\ BLANK \notin DOMAIN Upper
    /\ Geometries \subseteq Layout
    /\ (LsPaths \ {NoArgument}) \cup CatPaths \subseteq Seq(Seq(STRING))
    /\ NoArgument \notin CatPaths
    /\ \A image \in Disks : WellFormed(image)

VARIABLES
    disk,       \* the image
    bs,         \* its boot sector
    command,    \* "ls" or "cat"
    path,       \* the argument of the command
    tokens,     \* what cluster_for_path has not looked up yet
    phase,      \* the function that runs
    entry,      \* the DirectoryEntry that is looked for
    found,      \* CallbackFindEntryArg
    cluster, index,     \* where the reader is
    left,       \* bytes of the file not read yet
    printed     \* names or bytes printed by the command

vars == <<disk, bs, command, path, tokens, phase, entry, found, cluster,
          index, left, printed>>

-----------------------------------------------------------------------------
(* The image: the format of FAT12 directories and tables.                  *)

ChainOf(c) == CHOOSE chain \in disk.chains : c \in ToSet(chain)
PositionOf(c) == CHOOSE k \in DOMAIN ChainOf(c) : ChainOf(c)[k] = c

(* The entry of the table for cluster c: the cluster that follows it. *)
Table(c) ==
    IF \A chain \in disk.chains : c \notin ToSet(chain) THEN EMPTY
    ELSE IF c = Last(ChainOf(c)) THEN END_OF_CHAIN
    ELSE ChainOf(c)[PositionOf(c) + 1]

(* Two entries of 12 bits share three bytes. *)
fatp(byte) ==
    LET even == Table(2 * (byte \div 3))
        odd == Table(2 * (byte \div 3) + 1)
    IN  CASE byte % 3 = 0 -> even % 256
          [] byte % 3 = 1 -> (even \div 256) + 16 * (odd % 16)
          [] byte % 3 = 2 -> odd \div 16

(* The directory entries in a cluster, or in the root directory. *)
Entries(c) ==
    IF c = EMPTY THEN disk.dirs[EMPTY]
    ELSE LET first == DIR_ENTRIES * (PositionOf(c) - 1)
         IN  SubSeq(disk.dirs[ChainOf(c)[1]], first + 1, first + DIR_ENTRIES)

-----------------------------------------------------------------------------
(* Functions of fat.c.                                                     *)

(* Mutant of fat_get_fat: the middle byte's halves are exchanged. *)
GetFatSwapped(c) ==
    LET b == 3 * (c \div 2)
    IN  IF c % 2 = 0 THEN fatp(b) + 256 * (fatp(b + 1) \div 16)
        ELSE 16 * fatp(b + 2) + (fatp(b + 1) % 16)

fat_get_fat(c) ==
    LET b == 3 * (c \div 2)
    IN  IF c % 2 = 0 THEN fatp(b) + 256 * (fatp(b + 1) % 16)
        ELSE 16 * fatp(b + 2) + (fatp(b + 1) \div 16)

(* Sectors of the root directory and of the data; fat_init. *)
root_dir_start == bs.reservedSectorCount + bs.tableSize16 * bs.tableCount

(* Mutant of root_dir_sectors: rounded down. *)
RootSectorsDown == (32 * bs.rootEntryCount) \div bs.bytesPerSector

root_dir_sectors ==
    (32 * bs.rootEntryCount + bs.bytesPerSector - 1) \div bs.bytesPerSector

fat_get_cluster_addr(c) ==
    (root_dir_start + root_dir_sectors + (c - 2) * bs.sectorsPerCluster)
        * bs.bytesPerSector

Up(x) == IF x \in DOMAIN Upper THEN Upper[x] ELSE x

(* The base is written first and padded; the extension is written over it. *)
fat_set_entry_name(name) ==
    LET dot == SelectInSeq(name, LAMBDA x : x = DOT)
        base == IF dot = 0 THEN name ELSE SubSeq(name, 1, dot - 1)
        ext == IF dot = 0 THEN <<>> ELSE SubSeq(name, dot + 1, Len(name))
    IN  [i \in 1 .. NAME_LEN |->
            Up(IF i > BASE_LEN /\ i - BASE_LEN <= Len(ext) THEN ext[i - BASE_LEN]
               ELSE IF i <= Len(base) THEN base[i] ELSE BLANK)]

(* Mutant of ShownBase: the base is cut one character early. *)
ShownBaseShort(name) ==
    LET space == SelectInSeq(name, LAMBDA x : x = BLANK)
    IN  SubSeq(name, 1, (IF space \in 1 .. BASE_LEN THEN space ELSE BASE_LEN) - 1)

ShownBase(name) ==
    LET space == SelectInSeq(name, LAMBDA x : x = BLANK)
    IN  SubSeq(name, 1, IF space \in 1 .. BASE_LEN THEN space - 1 ELSE BASE_LEN)

(* Only files are shown with their extension. *)
fat_get_entry_name(e) ==
    IF e.kind # "file" THEN ShownBase(e.name)
    ELSE ShownBase(e.name) \o <<DOT>> \o SubSeq(e.name, BASE_LEN + 1, NAME_LEN)

NoEntry == [name |-> <<>>, kind |-> "free", cluster |-> EMPTY, size |-> 0]

(* No path takes a file with contents for a directory. *)
ASSUME PathAssumption ==
    \A arg \in (LsPaths \ {NoArgument}) \cup {Front(a) : a \in CatPaths \ {<<>>}} :
      \A k \in DOMAIN arg :
        \A image \in Disks : \A dir \in DOMAIN image.dirs :
            \A e \in ToSet(image.dirs[dir]) :
                (Live(e) /\ e.name = fat_set_entry_name(arg[k]))
                    => e.cluster \in DOMAIN image.dirs

-----------------------------------------------------------------------------
(* The commands.                                                           *)

process_command(cmd, arg) ==
    /\ phase = "prompt"
    /\ command' = cmd
    /\ path' = arg
    /\ tokens' = IF arg = NoArgument THEN <<>> ELSE arg
    /\ phase' = "path"
    /\ entry' = NoEntry
    /\ cluster' = EMPTY
    /\ printed' = <<>>
    /\ UNCHANGED <<disk, bs, found, index, left>>

(* cluster_for_path starts at the root; a name that starts with a blank is *)
(* not looked for.                                                         *)
NextToken ==
    LET name == fat_set_entry_name(Head(tokens))
    IN  /\ phase = "path"
        /\ tokens # <<>>
        /\ tokens' = Tail(tokens)
        /\ entry' = [entry EXCEPT !.name = name]
        /\ \/ /\ name[1] = BLANK
              /\ cluster' = EMPTY
              /\ UNCHANGED <<phase, found, index>>
           \/ /\ name[1] # BLANK
              /\ phase' = "find"
              /\ found' = FALSE
              /\ index' = 1
              /\ UNCHANGED cluster
        /\ UNCHANGED <<disk, bs, command, path, left, printed>>

(* Mutant of InUse: a deleted entry counts as one. *)
NotFree ==
    /\ index <= Len(Entries(cluster))
    /\ Entries(cluster)[index].kind # "free"

(* The walk of a cluster ends at a free entry, and at a deleted one. *)
InUse ==
    /\ index <= Len(Entries(cluster))
    /\ Live(Entries(cluster)[index])

(* _callback_find_entry does not end the walk; callback_ls prints. *)
VisitEntry ==
    LET e == Entries(cluster)[index]
    IN  /\ phase \in {"find", "list"}
        /\ InUse
        /\ index' = index + 1
        /\ IF phase = "find" /\ e.name = entry.name
           THEN entry' = e /\ found' = TRUE ELSE UNCHANGED <<entry, found>>
        /\ printed' = IF phase = "list" THEN Append(printed, e) ELSE printed
        /\ UNCHANGED <<disk, bs, command, path, tokens, phase, cluster, left>>

(* Mutant of NextCluster: the same cluster is walked again. *)
SameCluster ==
    /\ phase \in {"find", "list"}
    /\ ~InUse
    /\ cluster # EMPTY
    /\ fat_get_fat(cluster) < LAST
    /\ index' = 1
    /\ UNCHANGED <<disk, bs, command, path, tokens, phase, entry, found, cluster,
                   left, printed>>

(* The cluster of a directory that follows; the root has none. *)
NextCluster ==
    /\ phase \in {"find", "list"}
    /\ ~InUse
    /\ cluster # EMPTY
    /\ fat_get_fat(cluster) < LAST
    /\ cluster' = fat_get_fat(cluster)
    /\ index' = 1
    /\ UNCHANGED <<disk, bs, command, path, tokens, phase, entry, found, left,
                   printed>>

(* A name that was not found gives the cluster of the root directory. *)
WalkEnds ==
    /\ phase \in {"find", "list"}
    /\ ~InUse
    /\ cluster # EMPTY => fat_get_fat(cluster) >= LAST
    /\ cluster' = IF phase = "find" /\ found THEN entry.cluster ELSE EMPTY
    /\ phase' = IF phase = "find" THEN "path" ELSE "prompt"
    /\ UNCHANGED <<disk, bs, command, path, tokens, entry, found, index, left,
                   printed>>

(* With no cluster found the command says so and shows nothing: the root  *)
(* directory is only shown without an argument.                            *)
PathEnds ==
    /\ phase = "path"
    /\ tokens = <<>>
    /\ IF path # NoArgument /\ cluster = EMPTY
       THEN /\ phase' = "prompt"
            /\ UNCHANGED <<index, left>>
       ELSE /\ phase' = IF command = "ls" THEN "list" ELSE "read"
            /\ index' = 1
            /\ left' = entry.size
    /\ UNCHANGED <<disk, bs, command, path, tokens, entry, found, cluster, printed>>

(* What "%s" shows of n bytes from the first of cluster c on: those before *)
(* a zero byte.                                                            *)
BeforeZero(c, n) ==
    LET zeros == {i \in 0 .. n - 1 : (c - 2) * CLUSTER_SIZE + i \in disk.zeros}
    IN  IF zeros = {} THEN n ELSE Min(zeros)

(* Mutant of ReadCluster: a file is taken to lie in consecutive clusters. *)
ReadConsecutive ==
    /\ phase = "read"
    /\ left > 0
    /\ \/ /\ left >= BUFFER_SIZE
          /\ printed' = Append(printed, <<cluster, BeforeZero(cluster, BUFFER_SIZE)>>)
          /\ left' = left - BUFFER_SIZE
          /\ cluster' = cluster + 1
       \/ /\ left < BUFFER_SIZE
          /\ printed' = Append(printed, <<cluster, BeforeZero(cluster, left)>>)
          /\ left' = 0
          /\ UNCHANGED cluster
    /\ UNCHANGED <<disk, bs, command, path, tokens, phase, entry, found, index>>

(* cat_file_for_cluster reads whole buffers, one from each cluster, then   *)
(* what is left.                                                           *)
ReadCluster ==
    /\ phase = "read"
    /\ left > 0
    /\ \/ /\ left >= BUFFER_SIZE
          /\ printed' = Append(printed, <<cluster, BeforeZero(cluster, BUFFER_SIZE)>>)
          /\ left' = left - BUFFER_SIZE
          /\ cluster' = fat_get_fat(cluster)
       \/ /\ left < BUFFER_SIZE
          /\ printed' = Append(printed, <<cluster, BeforeZero(cluster, left)>>)
          /\ left' = 0
          /\ UNCHANGED cluster
    /\ UNCHANGED <<disk, bs, command, path, tokens, phase, entry, found, index>>

ReadEnds ==
    /\ phase = "read"
    /\ left = 0
    /\ phase' = "prompt"
    /\ UNCHANGED <<disk, bs, command, path, tokens, entry, found, cluster,
                   index, left, printed>>

Init ==
    /\ disk \in Disks
    /\ bs \in Geometries
    /\ command = "none"
    /\ path = NoArgument
    /\ tokens = <<>>
    /\ phase = "prompt"
    /\ entry = NoEntry
    /\ found = FALSE
    /\ cluster = EMPTY
    /\ index = 1
    /\ left = 0
    /\ printed = <<>>

Step == NextToken \/ VisitEntry \/ NextCluster \/ WalkEnds \/ PathEnds
            \/ ReadCluster \/ ReadEnds

Next ==
    \/ Step
    \/ \E arg \in LsPaths : process_command("ls", arg)
    \/ \E arg \in CatPaths : process_command("cat", arg)

(* The shell's code runs on; the user need not type. *)
Spec == Init /\ [][Next]_vars /\ WF_vars(Step)

-----------------------------------------------------------------------------
(* What the commands promise, in terms of the directories and chains.      *)

Names(dir) == {e \in ToSet(disk.dirs[dir]) : Live(e)}

(* A directory none of whose entries follows a deleted or a free one. *)
Compact(dir) ==
    \A i, j \in DOMAIN disk.dirs[dir] :
        (i < j /\ disk.dirs[dir][j].kind # "free")
            => Live(disk.dirs[dir][i])

(* A path names an entry if each name but the last is that of a directory. *)
Denotes(arg, e) ==
    /\ arg # <<>>
    /\ \E dirs \in [1 .. Len(arg) -> DOMAIN disk.dirs] :
        /\ dirs[1] = EMPTY
        /\ \A k \in DOMAIN arg : Compact(dirs[k])
        /\ \A k \in 1 .. Len(arg) - 1 : \E d \in Names(dirs[k]) :
              d.kind = "dir" /\ d.name = fat_set_entry_name(arg[k])
                /\ d.cluster = dirs[k + 1]
        /\ e \in Names(dirs[Len(arg)])
        /\ e.name = fat_set_entry_name(Last(arg))

Lists(arg, dir) ==
    IF arg = NoArgument THEN dir = EMPTY
    ELSE \E parent \in DOMAIN disk.dirs : \E e \in Names(parent) :
            e.kind = "dir" /\ e.cluster = dir /\ dir # EMPTY /\ Denotes(arg, e)

Done(cmd) == phase = "prompt" /\ command = cmd

(* The bytes in the k-th cluster of a file. *)
BytesIn(k, size) ==
    IF k * CLUSTER_SIZE <= size THEN CLUSTER_SIZE ELSE size - (k - 1) * CLUSTER_SIZE

(* A file none of whose bytes is zero. *)
IsText(e) ==
    \A k \in DOMAIN ChainOf(e.cluster) : \A i \in 0 .. BytesIn(k, e.size) - 1 :
        (ChainOf(e.cluster)[k] - 2) * CLUSTER_SIZE + i \notin disk.zeros

(* A buffer holds what a cluster holds. *)
WholePieces == BUFFER_SIZE = CLUSTER_SIZE

(* cat of a text file prints its bytes, all of them, once and in the order *)
(* of its chain, wherever its clusters are, whatever the size of the last. *)
CatPrintsFile ==
    Done("cat") =>
        \A dir \in DOMAIN disk.dirs : \A e \in Names(dir) :
            (e.kind = "file" /\ e.size > 0 /\ Denotes(path, e) /\ IsText(e)) =>
                printed = [k \in DOMAIN ChainOf(e.cluster) |->
                    <<ChainOf(e.cluster)[k], BytesIn(k, e.size)>>]

(* ls of a directory shows its entries, all of them, once and in order,    *)
(* over all its clusters, and never a deleted one; only a deleted entry    *)
(* may hide others.                                                        *)
LsListsDirectory ==
    \A dir \in DOMAIN disk.dirs :
        (Done("ls") /\ Lists(path, dir)) =>
            /\ ToSet(printed) \subseteq Names(dir)
            /\ Compact(dir) =>
                  /\ IsPrefix(printed, disk.dirs[dir])
                  /\ \A i \in DOMAIN disk.dirs[dir] :
                        Live(disk.dirs[dir][i]) => i <= Len(printed)

(* The code shows no extension of a directory, and looks for no dot entry. *)
ShownWhole(e) ==
    /\ e.name[1] # DOT
    /\ \/ e.kind = "file"
       \/ e.kind = "dir" /\ \A i \in BASE_LEN + 1 .. NAME_LEN : e.name[i] = BLANK

(* The name that ls shows for a file or a directory is one that the        *)
(* commands find: it is turned into the name on the disk again.            *)
ShownNameIsFound ==
    Done("ls") =>
        \A e \in ToSet(printed) :
            ShownWhole(e) => fat_set_entry_name(fat_get_entry_name(e)) = e.name

(* Each entry of the table is read as it was packed, next to any other. *)
FatUnpacked == \A c \in UNION {ToSet(chain) : chain \in disk.chains} :
                  fat_get_fat(c) = Table(c)

(* The data begin in the first sector after the last entry of the root     *)
(* directory, whether or not the entries fill its last sector.             *)
RegionsDisjoint ==
    LET end == root_dir_start * bs.bytesPerSector + 32 * bs.rootEntryCount
    IN  fat_get_cluster_addr(2) \in end .. end + bs.bytesPerSector - 1

(* Every command comes to an end: no walk runs through the table for ever. *)
CommandEnds == phase # "prompt" ~> phase = "prompt"
=============================================================================
