-------------------------------- MODULE ZeroFS --------------------------------
(***************************************************************************)
(* The in-memory filesystem of ZeroFS.cpp as operators on its map nodes_,  *)
(* from normalized paths (sequences of names, the root is <<>>) to nodes.  *)
(* An operation returns the map it leaves behind and an error, "ok" if it  *)
(* did not throw.                                                          *)
(***************************************************************************)
EXTENDS Integers, Sequences, FiniteSets

CONSTANTS
    Names,     \* names of files and directories
    Bytes,     \* contents of files; 0 fills gaps
    MaxBytes   \* what the allocator gives a file

ASSUME ZeroFSAssumption ==
    /\ {"bin", "www", "data"} \subseteq Names
    /\ Bytes \subseteq Int /\ 0 \in Bytes
    /\ MaxBytes \in Nat

Paths == Seq(Names)

\* A path as it is given: components between '/', and whether it begins with
\* '/' and has no character that is refused.
RawPaths == [valid : BOOLEAN, parts : Seq(Names \cup {"", ".", ".."})]

Directory == [type |-> "Directory", data |-> <<>>]

File(d) == [type |-> "File", data |-> d]

\* A guest may also write back what FS_STAT left in its memory.
Node == [type : {"Directory"}, data : {<<>>}] \cup [type : {"File"}, data : Seq(Int)]

Done(ns) == [nodes |-> ns, error |-> "ok"]

Failed(ns, e) == [nodes |-> ns, error |-> e]

\* Empty components and '.' are dropped, '..' is refused.
Traversal(raw) == ~raw.valid \/ \E i \in DOMAIN raw.parts : raw.parts[i] = ".."

normalizePath(raw) == SelectSeq(raw.parts, LAMBDA n : n \notin {"", "."})

parentPath(p) == SubSeq(p, 1, Len(p) - 1)

baseName(p) == p[Len(p)]

exists(ns, p) == p \in DOMAIN ns

IsDirectory(ns, p) == exists(ns, p) /\ ns[p].type = "Directory"

IsFile(ns, p) == exists(ns, p) /\ ns[p].type = "File"

With(ns, p, node) ==
    [q \in DOMAIN ns \cup {p} |-> IF q = p THEN node ELSE ns[q]]

\* A constructed filesystem.
Formatted == [p \in {<<>>, <<"bin">>, <<"www">>, <<"data">>} |-> Directory]

\* The error requireNode or the check of a parent directory throws.
ParentError(ns, p) ==
    IF ~exists(ns, parentPath(p)) THEN "NotFound" ELSE "NotDirectory"

createDirectory(ns, p) ==
    IF exists(ns, p) THEN Failed(ns, "AlreadyExists")
    ELSE IF ~IsDirectory(ns, parentPath(p)) THEN Failed(ns, ParentError(ns, p))
    ELSE Done(With(ns, p, Directory))

Prefix(p, k) == SubSeq(p, 1, k)

\* The loop of createDirectories reaches the k-th component.
Reached(ns, p, k) == \A j \in 1 .. k - 1 : ~IsFile(ns, Prefix(p, j))

\* Mutant: a component that is a file is walked through.
MutCreateDirectories(ns, p) ==
    LET made == {Prefix(p, k) : k \in 1 .. Len(p)} \ DOMAIN ns
    IN Done([q \in DOMAIN ns \cup made |-> IF q \in made THEN Directory ELSE ns[q]])

\* Parents are made one by one; those made before a component turns out to be
\* a file stay.
createDirectories(ns, p) ==
    LET made == {Prefix(p, k) : k \in {j \in 1 .. Len(p) : Reached(ns, p, j)}}
                \ DOMAIN ns
        after == [q \in DOMAIN ns \cup made |->
                     IF q \in made THEN Directory ELSE ns[q]]
    IN IF \E k \in 1 .. Len(p) : IsFile(ns, Prefix(p, k))
       THEN Failed(after, "NotDirectory") ELSE Done(after)

putFile(ns, p, d) ==
    IF p = <<>> THEN Failed(ns, "IsDirectory")
    ELSE IF ~IsDirectory(ns, parentPath(p)) THEN Failed(ns, ParentError(ns, p))
    ELSE IF IsDirectory(ns, p) THEN Failed(ns, "IsDirectory")
    ELSE Done(With(ns, p, File(d)))

\* What a file operation throws before it looks at offsets.
FileError(ns, p) == IF ~exists(ns, p) THEN "NotFound" ELSE "IsDirectory"

Least(a, b) == IF a <= b THEN a ELSE b

\* Mutant: the rest of the file is read, whatever the count.
MutReadFile(ns, p, offset, count) ==
    LET d == ns[p].data
    IN IF offset >= Len(d) THEN <<>> ELSE SubSeq(d, offset + 1, Len(d))

readFile(ns, p, offset, count) ==
    LET d == ns[p].data
    IN IF offset >= Len(d) THEN <<>>
       ELSE SubSeq(d, offset + 1, offset + Least(count, Len(d) - offset))

\* vector::resize with zeros; it never shrinks here.
Resized(d, size) ==
    [i \in 1 .. (IF size > Len(d) THEN size ELSE Len(d)) |->
        IF i <= Len(d) THEN d[i] ELSE 0]

Overwritten(d, offset, data) ==
    [i \in DOMAIN d |-> IF i > offset /\ i <= offset + Len(data)
                        THEN data[i - offset] ELSE d[i]]

\* The file is first grown to the offset and then to the end of the data: when
\* the allocator refuses the second step the first one stays.
writeFile(ns, p, offset, data) ==
    LET d == ns[p].data
        end == offset + Len(data)
    IN IF ~IsFile(ns, p) THEN Failed(ns, FileError(ns, p))
       ELSE IF offset > MaxBytes /\ offset > Len(d) THEN Failed(ns, "Exception")
       ELSE IF end > MaxBytes /\ end > Len(d)
            THEN Failed(With(ns, p, File(Resized(d, offset))), "Exception")
       ELSE Done(With(ns, p, File(Overwritten(Resized(d, end), offset, data))))

\* Mutant: all descendants are listed.
MutListDirectory(ns, p) ==
    {baseName(q) : q \in {r \in DOMAIN ns \ {<<>>} :
        Len(r) > Len(p) /\ Prefix(r, Len(p)) = p}}

listDirectory(ns, p) ==
    {baseName(q) : q \in {r \in DOMAIN ns \ {<<>>} : parentPath(r) = p}}

-------------------------------------------------------------------------------

\* What makes nodes_ a tree: the root is a directory, and so is the parent of
\* every node.
Tree(ns) ==
    /\ IsDirectory(ns, <<>>)
    /\ \A p \in DOMAIN ns : IsDirectory(ns, parentPath(p))
===============================================================================
