----------------------------- MODULE FileSystem -----------------------------
(***************************************************************************)
(* Files: the tree of dentries and inodes (kernel/fs/vfs.c, ramfs.c), the  *)
(* loading of the boot archive into it (kernel/fs/tar.c), and the system   *)
(* calls on it: SC_OPEN, SC_READ, SC_WRITE and the reading of a program by *)
(* SC_EXECVE (kernel/syscall.c, elf.c).                                    *)
(*                                                                         *)
(* Every dentry has an inode of its own, so both are one node; nodes[1] is *)
(* root_dentry. A path is a sequence of tokens. System calls run with      *)
(* interrupts masked, so each is one step; loading is one step per archive *)
(* member, and is over before the first process exists.                    *)
(***************************************************************************)
EXTENDS Integers, Sequences, FiniteSetsExt

CONSTANTS
    Archives,               \* archives the boot loader may hand over
    NameLen,                \* the length of every name
    Cut,                    \* a name as d_name and token[] hold it: 31 characters
    RAMFS_MAX_CHILDREN,     \* entries of a directory
    FIRST_CAPACITY,         \* bytes ramfs_write allocates first (64)
    MAX_FILES_PER_PROCESS,  \* slots of a file table
    MAX_FD,                 \* sys_read's bound on descriptors
    Procs,                  \* processes
    Paths,                  \* paths they use: tokens after some slashes
    Writes,                 \* byte strings they write
    ReadSizes,              \* sizes they ask for
    MaxPos                  \* bound on f_pos

VARIABLES
    nodes,       \* dentries with their inodes, in the order of creation
    archive,     \* the boot archive
    loaded,      \* how many of its members have been passed
    mode,        \* "load", "run", "empty": no process was started, or "wild": a
                 \* kernel structure is gone
    file_table,  \* file_table of every process
    out          \* what the last step did and returned

vars == <<nodes, archive, loaded, mode, file_table, out>>

NULL == 0
ROOT == 1
CONSOLE == -1
O_RDONLY == 0
O_WRONLY == 1
O_RDWR == 2
Flags == {O_RDONLY, O_WRONLY, O_RDWR}
Fds == 0 .. MAX_FILES_PER_PROCESS - 1

\* A byte that was never written: what kmalloc's block, or the memory behind
\* it, happened to hold.
GARBAGE == "garbage"

Nothing == [op |-> "none", node |-> NULL, from |-> 0, data |-> <<>>]

Names == DOMAIN NameLen

InitPath == <<"init.elf">>

\* Cutting a name leaves one that is not cut again; "." and ".." are short. Paths have
\* names for tokens, and a member's path has one at least.
ASSUME NameAssumption ==
    /\ Cut \in [Names -> Names]
    /\ \A n \in Names : Cut[Cut[n]] = Cut[n] /\ (Cut[n] = "." => n = ".")
    /\ {"/", "init.elf"} \subseteq Names
    /\ \A a \in Archives : Len(a) \in Nat /\ \A i \in 1 .. Len(a) :
        a[i].path \in Seq(Names) \ {<<>>} /\ Len(a[i].data) \in Nat
    /\ \A path \in Paths : path.tokens \in Seq(Names)

\* Sizes are counted in bytes and entries.
ASSUME SizeAssumption ==
    /\ RAMFS_MAX_CHILDREN \in Nat /\ FIRST_CAPACITY \in Nat \ {0} /\ MAX_FILES_PER_PROCESS \in Nat
    /\ ReadSizes \subseteq Nat /\ \A data \in Writes : Len(data) \in Nat

-----------------------------------------------------------------------------
(* The tree *)

\* ramfs_create_inode under alloc_dentry's name: no entries, no buffer.
NewNode(name, parent, dir) ==
    [d_name |-> Cut[name], d_parent |-> parent, dir |-> dir,
     children |-> <<>>, buffer |-> <<>>, i_size |-> 0]

\* Mutant of ramfs_lookup: the last child of that name.
ramfs_lookup_last(ns, d, name) ==
    LET kids == ns[d].children
        hits == {i \in DOMAIN kids : ns[kids[i]].d_name = Cut[name]}
    IN  IF hits = {} THEN NULL ELSE kids[Max(hits)]

\* ramfs_lookup: the first child of that name.
ramfs_lookup(ns, d, name) ==
    LET kids == ns[d].children
        hits == {i \in DOMAIN kids : ns[kids[i]].d_name = Cut[name]}
    IN  IF hits = {} THEN NULL ELSE kids[Min(hits)]

\* One turn of vfs_lookup's loop.
WalkTo(ns, at, token) ==
    IF at = NULL THEN NULL
    ELSE IF token = "." THEN at
    ELSE IF token = ".." THEN IF ns[at].d_parent = NULL THEN at ELSE ns[at].d_parent
    ELSE IF ns[at].dir THEN ramfs_lookup(ns, at, token) ELSE NULL

\* vfs_lookup of an absolute path.
vfs_lookup(ns, path) ==
    LET at[i \in 0 .. Len(path)] == IF i = 0 THEN ROOT ELSE WalkTo(ns, at[i - 1], path[i])
    IN  IF ns = <<>> THEN NULL ELSE at[Len(path)]

\* vfs_split_path.
Parent(path) == SubSeq(path, 1, Len(path) - 1)
Leaf(path) == path[Len(path)]

\* ramfs_create and ramfs_mkdir: the new entry goes to the end, if there is room.
AddChild(ns, d, name, dir) ==
    IF Len(ns[d].children) >= RAMFS_MAX_CHILDREN THEN ns
    ELSE Append([ns EXCEPT ![d].children = Append(@, Len(ns) + 1)],
                NewNode(name, d, dir))

\* vfs_create: file_name[32] limits the name; an entry of that name is no obstacle.
vfs_create(ns, path) ==
    LET parent == vfs_lookup(ns, Parent(path))
    IN  IF NameLen[Leaf(path)] >= 32 \/ parent = NULL THEN ns
        ELSE IF ~ns[parent].dir THEN ns
        ELSE AddChild(ns, parent, Leaf(path), FALSE)

\* vfs_mkdir: new_dir_name[64] limits the name; the name must be new.
vfs_mkdir(ns, path) ==
    LET parent == vfs_lookup(ns, Parent(path))
    IN  IF NameLen[Leaf(path)] >= 64 \/ parent = NULL THEN ns
        ELSE IF ~ns[parent].dir \/ ramfs_lookup(ns, parent, Leaf(path)) # NULL THEN ns
        ELSE AddChild(ns, parent, Leaf(path), TRUE)

\* vfs_open finds files, not directories.
vfs_open(ns, path) ==
    LET n == vfs_lookup(ns, path)
    IN  IF n = NULL THEN NULL ELSE IF ns[n].dir THEN NULL ELSE n

-----------------------------------------------------------------------------
(* The contents of files *)

\* ramfs_write's new capacity: doubled until it suffices.
Capacity(cap, target) ==
    LET new_cap[k \in 0 .. target] ==
            IF k > 0 THEN 2 * new_cap[k - 1] ELSE IF cap = 0 THEN FIRST_CAPACITY ELSE 2 * cap
    IN  IF target <= cap THEN cap
        ELSE Min({c \in {new_cap[k] : k \in 0 .. target} : c >= target})

\* Mutant of Grown: the copy stops one byte early.
Grown_short(node, target) ==
    IF target <= Len(node.buffer) THEN node.buffer
    ELSE [i \in 1 .. Capacity(Len(node.buffer), target) |->
            IF i < node.i_size THEN node.buffer[i] ELSE GARBAGE]

\* The buffer ramfs_write goes on with: a larger one gets i_size bytes of the old.
Grown(node, target) ==
    IF target <= Len(node.buffer) THEN node.buffer
    ELSE [i \in 1 .. Capacity(Len(node.buffer), target) |->
            IF i <= node.i_size THEN node.buffer[i] ELSE GARBAGE]

\* ramfs_write of data at offset pos.
ramfs_write(node, pos, data) ==
    LET end == pos + Len(data)
        buf == Grown(node, end)
    IN  [node EXCEPT
            !.buffer = [i \in DOMAIN buf |-> IF i \in pos + 1 .. end THEN data[i - pos] ELSE buf[i]],
            !.i_size = IF end > @ THEN end ELSE @]

\* Mutant of ReadCount: a request that reaches just to the end is enlarged too.
ReadCount_end(node, pos, size) ==
    IF node.buffer = <<>> \/ pos >= node.i_size THEN 0
    ELSE IF pos + size >= node.i_size THEN size + (node.i_size - pos)
    ELSE size

\* ramfs_read: how many bytes it copies. A request that reaches past the end
\* is enlarged by the rest of the file.
ReadCount(node, pos, size) ==
    IF node.buffer = <<>> \/ pos >= node.i_size THEN 0
    ELSE IF pos + size > node.i_size THEN size + (node.i_size - pos)
    ELSE size

\* ... from the start of the buffer, whatever the offset is.
ramfs_read(node, count) ==
    [i \in 1 .. count |-> IF i <= Len(node.buffer) THEN node.buffer[i] ELSE GARBAGE]

-----------------------------------------------------------------------------
(* Loading the archive *)

\* A process starts with the console as 0, 1 and 2.
Console(flags) == [node |-> CONSOLE, f_pos |-> 0, f_flags |-> flags]
Closed == [node |-> NULL, f_pos |-> 0, f_flags |-> O_RDONLY]
NewTable == [fd \in Fds |-> CASE fd = 0 -> Console(O_RDONLY)
                              [] fd \in {1, 2} -> Console(O_WRONLY)
                              [] OTHER -> Closed]

\* vfs_init: without a module there is no root_dentry.
Init ==
    /\ \/ archive \in Archives /\ nodes = <<NewNode("/", NULL, TRUE)>>
       \/ archive = <<>> /\ nodes = <<>>
    /\ loaded = 0
    /\ mode = "load"
    /\ file_table = [p \in Procs |-> NewTable]
    /\ out = Nothing

\* Mutant of LoadFile: the size is left to ramfs_write.
LoadFile_keeps_size(ns, m) ==
    LET made == vfs_create(ns, m.path)
        n == vfs_open(made, m.path)
    IN  IF n = NULL THEN made ELSE [made EXCEPT ![n] = ramfs_write(made[n], 0, m.data)]

\* A regular member: its file is made, then whatever its path leads to is
\* written from offset 0 and gets the member's size.
LoadFile(ns, m) ==
    LET made == vfs_create(ns, m.path)
        n == vfs_open(made, m.path)
        written == ramfs_write(made[n], 0, m.data)
    IN  IF n = NULL THEN made
        ELSE [made EXCEPT ![n] = [written EXCEPT !.i_size = Len(m.data)]]

\* One turn of ramfs_from_tar: members of other types are passed over.
LoadMember ==
    LET m == archive[loaded + 1]
    IN  /\ mode = "load"
        /\ loaded < Len(archive)
        /\ loaded' = loaded + 1
        /\ nodes' = CASE m.type = "dir"  -> vfs_mkdir(nodes, m.path)
                      [] m.type = "file" -> LoadFile(nodes, m)
                      [] OTHER -> nodes
        /\ UNCHANGED <<archive, mode, file_table, out>>

\* What execute_elf reads of file n, in a buffer of the file's size.
Program(n) ==
    [op |-> "exec", node |-> n, from |-> 0,
     data |-> ramfs_read(nodes[n], ReadCount(nodes[n], 0, nodes[n].i_size))]

\* The end of the archive: vfs_init returns and kmain executes /init.elf. Only
\* if it has contents are there any processes.
Loaded ==
    LET n == vfs_open(nodes, InitPath)
        found == n # NULL /\ nodes[n].i_size # 0
    IN  /\ mode = "load"
        /\ loaded = Len(archive)
        /\ mode' = IF found THEN "run" ELSE "empty"
        /\ out' = IF found THEN Program(n) ELSE Nothing
        /\ UNCHANGED <<nodes, archive, loaded, file_table>>

-----------------------------------------------------------------------------
(* System calls *)

\* sys_open drops a leading slash, so vfs_lookup accepts what is left only if
\* the path began with two.
SysOpen(p, path, flags) ==
    LET free == {fd \in Fds : file_table[p][fd].node = NULL}
        n == IF path.slashes >= 2 THEN vfs_lookup(nodes, path.tokens) ELSE NULL
    IN  /\ mode = "run"
        /\ nodes # <<>>
        /\ IF free = {} THEN out' = [Nothing EXCEPT !.op = "EMFILE"] /\ UNCHANGED file_table
           ELSE IF n = NULL
           THEN /\ out' = [op |-> "ENOENT", node |-> NULL, from |-> path.slashes, data |-> path.tokens]
                /\ UNCHANGED file_table
           ELSE /\ out' = [Nothing EXCEPT !.op = "open", !.node = n]
                /\ file_table' = [file_table EXCEPT ![p][Min(free)] =
                                    [node |-> n, f_pos |-> 0, f_flags |-> flags]]
        /\ UNCHANGED <<nodes, archive, loaded, mode>>

\* sys_read of a slot that is not open reads f_flags through NULL before it
\* tests the slot, and the page fault halts the machine.
SysReadClosed(p, fd) ==
    /\ mode = "run"
    /\ file_table[p][fd].node = NULL
    /\ mode' = "wild"
    /\ UNCHANGED <<nodes, archive, loaded, file_table, out>>

\* sys_read of an open file of the tree (console_read is in module Kernel). A
\* directory's i_size is 0.
SysRead(p, fd, size) ==
    LET f == file_table[p][fd]
        count == ReadCount(nodes[f.node], f.f_pos, size)
    IN  /\ mode = "run"
        /\ f.node > NULL
        /\ f.f_flags # O_WRONLY
        /\ fd < MAX_FD
        /\ f.f_pos + count <= MaxPos
        /\ file_table' = [file_table EXCEPT ![p][fd].f_pos = @ + count]
        /\ out' = [op |-> "read", node |-> f.node, from |-> f.f_pos,
                   data |-> ramfs_read(nodes[f.node], count)]
        /\ UNCHANGED <<nodes, archive, loaded, mode>>

\* sys_write of an open file of the tree. ramfs_write takes a directory's list
\* of children for a buffer and its capacity.
SysWrite(p, fd, data) ==
    LET f == file_table[p][fd]
    IN  /\ mode = "run"
        /\ f.node > NULL
        /\ f.f_flags # O_RDONLY
        /\ f.f_pos + Len(data) <= MaxPos
        /\ IF nodes[f.node].dir
           THEN mode' = "wild" /\ UNCHANGED <<nodes, file_table, out>>
           ELSE /\ nodes' = [nodes EXCEPT ![f.node] = ramfs_write(nodes[f.node], f.f_pos, data)]
                /\ file_table' = [file_table EXCEPT ![p][fd].f_pos = @ + Len(data)]
                /\ out' = [op |-> "write", node |-> f.node, from |-> f.f_pos, data |-> data]
                /\ UNCHANGED mode
        /\ UNCHANGED <<archive, loaded>>

\* execute_elf up to the end of its reading.
ExecuteElf(path) ==
    LET n == IF path.slashes >= 1 THEN vfs_open(nodes, path.tokens) ELSE NULL
    IN  /\ mode = "run"
        /\ n # NULL
        /\ nodes[n].i_size # 0
        /\ out' = Program(n)
        /\ UNCHANGED <<nodes, archive, loaded, mode, file_table>>

Next ==
    \/ LoadMember
    \/ Loaded
    \/ \E p \in Procs, path \in Paths, flags \in Flags : SysOpen(p, path, flags)
    \/ \E p \in Procs, fd \in Fds : SysReadClosed(p, fd)
    \/ \E p \in Procs, fd \in Fds, size \in ReadSizes : SysRead(p, fd, size)
    \/ \E p \in Procs, fd \in Fds, data \in Writes : SysWrite(p, fd, data)
    \/ \E path \in Paths : ExecuteElf(path)

Spec == Init /\ [][Next]_vars

-----------------------------------------------------------------------------
(* Properties *)

Contents(n) == [i \in 1 .. nodes[n].i_size |-> nodes[n].buffer[i]]

\* The archive's own notion of place: components as stored, without ".".
Place(path) == SelectSeq([i \in DOMAIN path |-> Cut[path[i]]], LAMBDA c : c # ".")

\* The members so far that were to become the file at that place.
FilesAt(place) ==
    {j \in 1 .. loaded : archive[j].type = "file" /\ Place(archive[j].path) = place}

\* Why a member may have no file of its own: its name is too long or taken by
\* a directory; its directory is missing, came later, or is full.
Refused(i) ==
    LET path == archive[i].path
        d == vfs_lookup(nodes, Parent(path))
        n == vfs_lookup(nodes, path)
    IN  \/ NameLen[Leaf(path)] >= 32
        \/ n # NULL /\ nodes[n].dir
        \/ d = NULL
        \/ ~nodes[d].dir
        \/ Len(nodes[d].children) = RAMFS_MAX_CHILDREN
        \/ /\ d # ROOT
           /\ \A j \in 1 .. i - 1 : archive[j].type = "dir" => vfs_lookup(nodes, archive[j].path) # d

\* A dentry that no path leads to holds nothing: vfs_create may add a second
\* entry of a name, but ramfs_lookup goes on finding the first, and the second
\* stays an empty file nobody opens. The only hidden directory is the "." that
\* the archive's first member makes.
HiddenIsEmpty ==
    \A n \in DOMAIN nodes \ {ROOT} :
        ramfs_lookup(nodes, nodes[n].d_parent, nodes[n].d_name) # n \/ nodes[n].d_name = "." =>
            /\ nodes[n].children = <<>>
            /\ nodes[n].i_size = 0
            /\ nodes[n].dir => nodes[n].d_name = "."
            /\ \A p \in Procs, fd \in Fds : file_table[p][fd].node # n

\* The dentries form a tree: every one but the root is listed once, by the
\* directory its d_parent names, which is older; no list of children is longer
\* than the array ramfs_create and ramfs_mkdir fill. No file is larger than its
\* buffer, so that no copy of i_size bytes in ramfs_write or execute_elf leaves
\* it, and a dentry that no path leads to holds nothing.
TreeSound ==
    /\ \A n \in DOMAIN nodes \ {ROOT} :
        {d \in DOMAIN nodes : n \in Range(nodes[d].children)} = {nodes[n].d_parent}
    /\ \A n \in DOMAIN nodes : IsInjective(nodes[n].children)
    /\ \A n \in DOMAIN nodes \ {ROOT} : nodes[n].d_parent < n /\ nodes[nodes[n].d_parent].dir
    /\ \A n \in DOMAIN nodes : /\ Len(nodes[n].children) <= RAMFS_MAX_CHILDREN
                               /\ nodes[n].i_size <= Len(nodes[n].buffer)
    /\ HiddenIsEmpty

\* ramfs_from_tar unpacks the archive: the file at a place holds what the last
\* member for that place contains, and a member without a file was refused for
\* one of the reasons above. (Names are compared as stored, so a member whose
\* name is too long can still replace a file with the first 31 characters.)
ArchiveUnpacked ==
    mode = "load" /\ nodes # <<>> =>
        \A i \in 1 .. loaded : archive[i].type = "file" =>
            \/ Refused(i)
            \/ /\ vfs_open(nodes, archive[i].path) # NULL
               /\ Contents(vfs_open(nodes, archive[i].path))
                    = archive[Max(FilesAt(Place(archive[i].path)))].data

\* The program execute_elf hands to the loader is the whole file and nothing
\* else, although ramfs_read goes wrong for other sizes and offsets.
ElfImageWhole ==
    out.op = "exec" => out.data = Contents(out.node)

\* Once the archive is loaded only ramfs_write changes a file. It changes the
\* bytes it was given the offset of and no others, in a buffer it enlarges or
\* not, and whatever the other open descriptors of the file are.
WriteExact ==
    [][mode = "run" => \A n \in DOMAIN nodes :
        LET end == out'.from + Len(out'.data)
            write == nodes' # nodes /\ out'.node = n
            written == IF write THEN out'.from + 1 .. end ELSE {}
        IN  /\ nodes'[n].i_size = IF write /\ end > nodes[n].i_size THEN end ELSE nodes[n].i_size
            /\ \A i \in 1 .. nodes[n].i_size :
                i \notin written => nodes'[n].buffer[i] = nodes[n].buffer[i]
            /\ \A i \in written : nodes'[n].buffer[i] = out'.data[i - out'.from]]_vars

\* sys_open answers "No such file or directory" (syscall.c:65) to an absolute
\* path only if the tree has no such file.
OpenFindsFile ==
    out.op = "ENOENT" /\ out.from >= 1 => vfs_lookup(nodes, out.data) = NULL

=============================================================================
