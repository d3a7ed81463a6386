------------------------ MODULE ProtectedSyscallsProofs ------------------------
(***************************************************************************)
(* ZeroFS stays a tree under every sequence of host operations and guest   *)
(* calls, also those that fail half way.                                   *)
(***************************************************************************)
EXTENDS ProtectedSyscalls, FiniteSetTheorems, TLAPS

\* Prefixes of prefixes, and the parent of one.
LEMMA PrefixParent ==
    ASSUME NEW S, NEW p \in Seq(S), NEW k \in 1 .. Len(p)
    PROVE  parentPath(Prefix(p, k)) = Prefix(p, k - 1)
<1>1. Prefix(p, k) = [i \in 1 .. k |-> p[i]] /\ Len(Prefix(p, k)) = k
  BY DEF Prefix
<1>2. Prefix(p, k) \in Seq(S)
  BY DEF Prefix
<1>3. parentPath(Prefix(p, k)) = SubSeq(Prefix(p, k), 1, k - 1)
  BY <1>1 DEF parentPath
<1>4. SubSeq(Prefix(p, k), 1, k - 1) = [i \in 1 .. k - 1 |-> Prefix(p, k)[i]]
  BY <1>1, <1>2
<1>5. \A i \in 1 .. k - 1 : Prefix(p, k)[i] = p[i]
  BY <1>1
<1>6. Prefix(p, k - 1) = [i \in 1 .. k - 1 |-> p[i]]
  BY DEF Prefix
<1> QED BY <1>3, <1>4, <1>5, <1>6

\* The strengthening: every node is one of the two kinds.
Kinds(ns) == \A p \in DOMAIN ns : ns[p].type \in {"Directory", "File"}

Sound(ns) == Tree(ns) /\ Kinds(ns)

\* Making a node that is not there below a directory.
LEMMA DirectoryAdded ==
    ASSUME NEW ns, NEW p, Sound(ns), IsDirectory(ns, parentPath(p))
    PROVE  Sound(With(ns, p, Directory))
BY DEF Sound, Kinds, Tree, With, Directory, IsDirectory, exists

\* A file in the place of a file or of nothing.
LEMMA FilePut ==
    ASSUME NEW ns, NEW p, NEW d, Sound(ns), IsDirectory(ns, parentPath(p)),
           ~IsDirectory(ns, p), p # <<>>
    PROVE  Sound(With(ns, p, File(d)))
BY DEF Sound, Kinds, Tree, With, File, IsDirectory, exists

\* ZeroFS::createDirectories, whether it fails or not.
LEMMA DirectoriesMade ==
    ASSUME NEW S, NEW p \in Seq(S), NEW ns, Sound(ns)
    PROVE  Sound(createDirectories(ns, p).nodes)
<1> DEFINE Got == {j \in 1 .. Len(p) : Reached(ns, p, j)}
           made == {Prefix(p, k) : k \in Got} \ DOMAIN ns
           after == [q \in DOMAIN ns \cup made |->
                        IF q \in made THEN Directory ELSE ns[q]]
<1>1. createDirectories(ns, p).nodes = after
  BY DEF createDirectories, Failed, Done
<1>2. Prefix(p, 0) = <<>>
  BY DEF Prefix
<1>3. IsDirectory(after, <<>>)
  BY DEF Sound, Tree, IsDirectory, exists, Directory
<1>4. ASSUME NEW q \in DOMAIN ns
      PROVE  IsDirectory(after, parentPath(q))
  BY DEF Sound, Tree, IsDirectory, exists, Directory
<1>5. ASSUME NEW q \in made
      PROVE  IsDirectory(after, parentPath(q))
  <2>1. PICK k \in Got : q = Prefix(p, k)
    OBVIOUS
  <2>2. parentPath(q) = Prefix(p, k - 1)
    BY <2>1, PrefixParent
  <2>3. CASE k = 1
    BY <2>2, <2>3, <1>2, <1>3
  <2>4. CASE k # 1
    <3>1. k - 1 \in 1 .. Len(p) /\ Reached(ns, p, k - 1)
      BY <2>4 DEF Reached
    <3>2. ~IsFile(ns, Prefix(p, k - 1))
      BY <2>4 DEF Reached
    <3>3. CASE Prefix(p, k - 1) \in DOMAIN ns
      <4>1. ns[Prefix(p, k - 1)].type = "Directory"
        BY <3>3, <3>2 DEF IsFile, exists, Sound, Kinds
      <4> QED BY <4>1, <3>3, <2>2 DEF IsDirectory, exists
    <3>4. CASE Prefix(p, k - 1) \notin DOMAIN ns
      BY <3>4, <3>1, <2>2 DEF IsDirectory, exists, Directory
    <3> QED BY <3>3, <3>4
  <2> QED BY <2>3, <2>4
<1>6. DOMAIN after = DOMAIN ns \cup made
  OBVIOUS
<1>7. Kinds(after)
  BY DEF Sound, Kinds, Directory
<1> HIDE DEF after, made
<1> QED BY <1>1, <1>3, <1>4, <1>5, <1>6, <1>7 DEF Sound, Tree

\* Every operation of ZeroFS keeps a sound map sound.
LEMMA CreateDirectorySound ==
    ASSUME NEW ns, NEW p, Sound(ns)
    PROVE  Sound(createDirectory(ns, p).nodes)
BY DirectoryAdded DEF createDirectory, Failed, Done

LEMMA PutFileSound ==
    ASSUME NEW ns, NEW p, NEW d, Sound(ns)
    PROVE  Sound(putFile(ns, p, d).nodes)
BY FilePut DEF putFile, Failed, Done

LEMMA WriteFileSound ==
    ASSUME NEW ns, NEW p, NEW offset, NEW data, Sound(ns)
    PROVE  Sound(writeFile(ns, p, offset, data).nodes)
<1>1. CASE ~IsFile(ns, p)
  BY <1>1 DEF writeFile, Failed
<1>2. CASE IsFile(ns, p)
  <2>1. IsDirectory(ns, parentPath(p)) /\ ~IsDirectory(ns, p) /\ p # <<>>
    BY <1>2 DEF Sound, Tree, IsDirectory, IsFile, exists
  <2>2. \A d : Sound(With(ns, p, File(d)))
    BY <2>1, FilePut
  <2> QED BY <1>2, <2>2 DEF writeFile, Failed, Done
<1> QED BY <1>1, <1>2

\* The constructor's map.
LEMMA FormattedSound == Sound(Formatted)
<1>1. parentPath(<<>>) = <<>>
  BY DEF parentPath
<1>2. \A n : parentPath(<<n>>) = <<>>
  BY DEF parentPath
<1> QED BY <1>1, <1>2 DEF Formatted, Sound, Kinds, Tree, IsDirectory, exists, Directory

FilesystemInv == Sound(nodes)

\* No step, of the host or of the guest, leaves a map that is not a tree.
THEOREM TreeStep == FilesystemInv /\ [Next]_vars => FilesystemInv'
<1> SUFFICES ASSUME Sound(nodes), [Next]_vars PROVE Sound(nodes')
  BY DEF FilesystemInv
<1>1. ASSUME NEW raw \in HostPaths, HostCreateDirectory(raw)
      PROVE  Sound(nodes')
  BY <1>1, CreateDirectorySound DEF HostCreateDirectory, Host
<1>2. ASSUME NEW raw \in HostPaths, HostCreateDirectories(raw)
      PROVE  Sound(nodes')
  <2>1. ~Traversal(raw) => normalizePath(raw) \in Seq(Names)
    BY SyscallAssumption DEF Paths
  <2> QED BY <1>2, <2>1, DirectoriesMade DEF HostCreateDirectories, Host
<1>3. ASSUME NEW raw \in HostPaths, NEW d \in HostData, HostPutFile(raw, d)
      PROVE  Sound(nodes')
  BY <1>3, PutFileSound DEF HostPutFile, Host
<1>4. ASSUME NEW n \in Services \cup {33}, Int80(n)
      PROVE  Sound(nodes')
  <2>1. CASE Write
    BY <2>1, WriteFileSound DEF Write, Fails
  <2>2. CASE Stat
    BY <2>2 DEF Stat, Fails
  <2>3. CASE Read
    BY <2>3 DEF Read, Fails
  <2>4. CASE Exit \/ HardwareRead \/ HardwareWrite \/ Fails(-1)
    BY <2>4 DEF Exit, HardwareRead, HardwareWrite, Written, Fails
  <2> QED BY <1>4, <2>1, <2>2, <2>3, <2>4 DEF Int80
<1>5. CASE DeviceChanges \/ Gone \/ UNCHANGED vars
  BY <1>5 DEF DeviceChanges, Gone, vars
<1>6. ASSUME NEW m \in Images, NEW ab \in Arguments, Prepare(m, ab[1], ab[2])
      PROVE  Sound(nodes')
  BY <1>6 DEF Prepare
<1> QED BY <1>1, <1>2, <1>3, <1>4, <1>5, <1>6 DEF Next

\* ZeroFS.nodes_ is a tree in every reachable state, for any paths, contents,
\* guest memories and allocator limit.
THEOREM FilesystemStaysTree == Spec => []FilesystemIsTree
<1>1. Init => FilesystemInv
  BY FormattedSound DEF Init, FilesystemInv
<1>2. FilesystemInv => FilesystemIsTree
  BY DEF Sound, FilesystemInv, FilesystemIsTree
<1> QED BY <1>1, <1>2, TreeStep, PTL DEF Spec

-------------------------------------------------------------------------------
(* Types, and what a guest's call may touch.                                *)

\* What ZeroFS::writeFile puts in the place of a file's data.
LEMMA ResizedTyped ==
    ASSUME NEW d \in Seq(Int), NEW size \in Int
    PROVE  /\ Resized(d, size) \in Seq(Int)
           /\ Len(Resized(d, size)) = (IF size > Len(d) THEN size ELSE Len(d))
           /\ Len(Resized(d, size)) >= Len(d)
           /\ DOMAIN Resized(d, size) = 1 .. Len(Resized(d, size))
           /\ \A i \in 1 .. Len(Resized(d, size)) :
                Resized(d, size)[i] = IF i <= Len(d) THEN d[i] ELSE 0
<1> DEFINE n == IF size > Len(d) THEN size ELSE Len(d)
<1>1. n \in Nat /\ n >= Len(d)
  OBVIOUS
<1>2. Resized(d, size) = [i \in 1 .. n |-> IF i <= Len(d) THEN d[i] ELSE 0]
  BY DEF Resized
<1> HIDE DEF n
<1>3. \A i \in 1 .. n : (IF i <= Len(d) THEN d[i] ELSE 0) \in Int
  BY <1>1
<1>4. Resized(d, size) \in Seq(Int) /\ Len(Resized(d, size)) = n
  BY <1>1, <1>2, <1>3
<1> QED BY <1>1, <1>2, <1>4 DEF n

LEMMA OverwrittenTyped ==
    ASSUME NEW d \in Seq(Int), NEW offset \in Nat, NEW data \in Seq(Int)
    PROVE  /\ Overwritten(d, offset, data) \in Seq(Int)
           /\ Len(Overwritten(d, offset, data)) = Len(d)
           /\ \A i \in 1 .. Len(d) :
                i \notin offset + 1 .. offset + Len(data) =>
                  Overwritten(d, offset, data)[i] = d[i]
<1> DEFINE cell(i) == IF i > offset /\ i <= offset + Len(data)
                      THEN data[i - offset] ELSE d[i]
<1>1. Overwritten(d, offset, data) = [i \in 1 .. Len(d) |-> cell(i)]
  BY DEF Overwritten
<1>2. \A i \in 1 .. Len(d) : cell(i) \in Int
  OBVIOUS
<1>3. \A i \in 1 .. Len(d) :
        i \notin offset + 1 .. offset + Len(data) => cell(i) = d[i]
  OBVIOUS
<1> HIDE DEF cell
<1> QED BY <1>1, <1>2, <1>3

\* The nodes of a map are nodes and its paths are finitely many paths.
Typed(ns) ==
    /\ DOMAIN ns \subseteq Paths /\ IsFiniteSet(DOMAIN ns)
    /\ \A p \in DOMAIN ns : ns[p] \in Node

LEMMA NodeData ==
    ASSUME NEW node \in Node
    PROVE  node.data \in Seq(Int)
<1>1. <<>> \in Seq(Int)
  OBVIOUS
<1>2. node.data = <<>> \/ node.data \in Seq(Int)
  BY DEF Node
<1> QED BY <1>1, <1>2

LEMMA NodesMade ==
    /\ Directory \in Node
    /\ \A d \in Seq(Int) : File(d) \in Node /\ File(d).data = d
BY DEF Node, Directory, File

LEMMA WithTyped ==
    ASSUME NEW ns, NEW p \in Paths, NEW node \in Node, Typed(ns)
    PROVE  Typed(With(ns, p, node))
<1>1. IsFiniteSet(DOMAIN ns \cup {p})
  BY FS_AddElement DEF Typed
<1> QED BY <1>1 DEF Typed, With

LEMMA CreateDirectoryTyped ==
    ASSUME NEW ns, NEW p \in Paths, Typed(ns)
    PROVE  Typed(createDirectory(ns, p).nodes)
BY WithTyped, NodesMade DEF createDirectory, Failed, Done

LEMMA PutFileTyped ==
    ASSUME NEW ns, NEW p \in Paths, NEW d \in Seq(Int), Typed(ns)
    PROVE  Typed(putFile(ns, p, d).nodes)
BY WithTyped, NodesMade DEF putFile, Failed, Done

LEMMA DirectoriesTyped ==
    ASSUME NEW ns, NEW p \in Paths, Typed(ns)
    PROVE  Typed(createDirectories(ns, p).nodes)
<1> DEFINE Got == {j \in 1 .. Len(p) : Reached(ns, p, j)}
           made == {Prefix(p, k) : k \in Got} \ DOMAIN ns
           after == [q \in DOMAIN ns \cup made |->
                        IF q \in made THEN Directory ELSE ns[q]]
           all == [k \in 1 .. Len(p) |-> Prefix(p, k)]
           every == {Prefix(p, k) : k \in 1 .. Len(p)}
<1>1. createDirectories(ns, p).nodes = after
  BY DEF createDirectories, Failed, Done
<1>2. \A k \in 1 .. Len(p) : Prefix(p, k) \in Paths
  BY DEF Prefix, Paths
<1>3. made \subseteq every /\ every \subseteq Paths
  BY <1>2
<1>4. IsFiniteSet(every)
  <2>1. all \in Surjection(1 .. Len(p), every)
    BY DEF Surjection
  <2>2. IsFiniteSet(1 .. Len(p))
    BY FS_Interval DEF Paths
  <2> HIDE DEF all, every
  <2> QED BY <2>1, <2>2, FS_Surjection
<1>5. IsFiniteSet(made)
  BY <1>3, <1>4, FS_Subset
<1>6. IsFiniteSet(DOMAIN ns \cup made)
  BY <1>5, FS_Union DEF Typed
<1> HIDE DEF made
<1> QED BY <1>1, <1>3, <1>6, NodesMade DEF Typed

\* The bytes e of a file that had the bytes d: changed only in lo .. hi, or
\* only grown by zeros.
ChangedIn(lo, hi, d, e) ==
    /\ Len(e) >= Len(d)
    /\ \A i \in DOMAIN d : i \notin lo .. hi => e[i] = d[i]

ZerosAdded(d, e) ==
    \A i \in DOMAIN e : e[i] = IF i <= Len(d) THEN d[i] ELSE 0

LEMMA GrownByZeros ==
    ASSUME NEW lo \in Int, NEW hi \in Int, NEW d \in Seq(Int), NEW e \in Seq(Int),
           Len(e) >= Len(d),
           \A i \in 1 .. Len(e) : e[i] = IF i <= Len(d) THEN d[i] ELSE 0
    PROVE  ChangedIn(lo, hi, d, e) /\ ZerosAdded(d, e)
<1>1. DOMAIN e = 1 .. Len(e) /\ DOMAIN d = 1 .. Len(d)
  OBVIOUS
<1> QED BY <1>1 DEF ChangedIn, ZerosAdded

\* ZeroFS::writeFile: the map it leaves is typed; it is the old one but for the
\* file, which keeps its length and, outside the range, its bytes; and when it
\* throws, the file has at most grown by zeros.
LEMMA WriteFileEffect ==
    ASSUME NEW ns, NEW p, NEW offset \in Nat, NEW data \in Seq(Int), Typed(ns)
    PROVE  LET w == writeFile(ns, p, offset, data)
           IN /\ Typed(w.nodes)
              /\ DOMAIN w.nodes = DOMAIN ns
              /\ \A q \in DOMAIN ns :
                   /\ q # p => w.nodes[q] = ns[q]
                   /\ ChangedIn(offset + 1, offset + Len(data), ns[q].data, w.nodes[q].data)
                   /\ w.error # "ok" => ZerosAdded(ns[q].data, w.nodes[q].data)
<1> DEFINE w == writeFile(ns, p, offset, data)
           d == ns[p].data
           end == offset + Len(data)
<1>1. \A q \in DOMAIN ns : ns[q].data \in Seq(Int)
  BY NodeData DEF Typed
<1>2. CASE w.nodes = ns
  BY <1>1, <1>2 DEF ChangedIn, ZerosAdded
<1>3. CASE w.nodes # ns
  <2>1. IsFile(ns, p)
    BY <1>3 DEF writeFile, Failed
  <2>2. p \in DOMAIN ns /\ p \in Paths /\ d \in Seq(Int)
    BY <1>1, <2>1 DEF IsFile, exists, Typed
  <2> DEFINE grown == Resized(d, offset)
             full == Resized(d, end)
             over == Overwritten(full, offset, data)
  <2>3. \/ w = Failed(With(ns, p, File(grown)), "Exception")
        \/ w = Done(With(ns, p, File(over)))
    BY <1>3, <2>1 DEF writeFile, Failed
  <2>4. /\ grown \in Seq(Int) /\ Len(grown) >= Len(d)
        /\ \A i \in 1 .. Len(grown) : grown[i] = IF i <= Len(d) THEN d[i] ELSE 0
    BY <2>2, ResizedTyped
  <2>5. end \in Int
    OBVIOUS
  <2>6. /\ full \in Seq(Int) /\ Len(full) >= Len(d)
        /\ \A i \in 1 .. Len(full) : full[i] = IF i <= Len(d) THEN d[i] ELSE 0
    <3> HIDE DEF end
    <3> QED BY <2>2, <2>5, ResizedTyped
  <2>7. /\ over \in Seq(Int) /\ Len(over) = Len(full)
        /\ \A i \in 1 .. Len(full) :
             i \notin offset + 1 .. offset + Len(data) => over[i] = full[i]
    <3> HIDE DEF full
    <3> QED BY <2>6, OverwrittenTyped
  <2> HIDE DEF grown, full, over, w
  <2>8. ASSUME NEW e \in Seq(Int), w.nodes = With(ns, p, File(e))
        PROVE  /\ Typed(w.nodes)
               /\ DOMAIN w.nodes = DOMAIN ns
               /\ \A q \in DOMAIN ns : q # p => w.nodes[q] = ns[q]
               /\ w.nodes[p].data = e
    <3>1. Typed(w.nodes)
      BY <2>2, <2>8, NodesMade, WithTyped
    <3> QED BY <2>2, <2>8, <3>1, NodesMade DEF With
  <2>9. CASE w = Failed(With(ns, p, File(grown)), "Exception")
    <3>1. w.nodes = With(ns, p, File(grown))
      BY <2>9 DEF Failed
    <3>2. /\ Typed(w.nodes) /\ DOMAIN w.nodes = DOMAIN ns
          /\ \A q \in DOMAIN ns : q # p => w.nodes[q] = ns[q]
          /\ w.nodes[p].data = grown
      BY <2>4, <2>8, <3>1
    <3>3. /\ ChangedIn(offset + 1, offset + Len(data), d, grown)
          /\ ZerosAdded(d, grown)
      <4>1. offset + 1 \in Int /\ offset + Len(data) \in Int
        OBVIOUS
      <4> QED BY <2>2, <2>4, <4>1, GrownByZeros
    <3>4. ASSUME NEW q \in DOMAIN ns
          PROVE  /\ ChangedIn(offset + 1, offset + Len(data), ns[q].data, w.nodes[q].data)
                 /\ ZerosAdded(ns[q].data, w.nodes[q].data)
      <4>1. CASE q = p
        BY <3>2, <3>3, <4>1, Zenon
      <4>2. CASE q # p
        BY <1>1, <3>2, <4>2 DEF ChangedIn, ZerosAdded
      <4> QED BY <4>1, <4>2
    <3> QED BY <3>2, <3>4 DEF w
  <2>10. CASE w = Done(With(ns, p, File(over)))
    <3>1. w.nodes = With(ns, p, File(over)) /\ w.error = "ok"
      BY <2>10 DEF Done
    <3>2. /\ Typed(w.nodes) /\ DOMAIN w.nodes = DOMAIN ns
          /\ \A q \in DOMAIN ns : q # p => w.nodes[q] = ns[q]
          /\ w.nodes[p].data = over
      BY <2>7, <2>8, <3>1
    <3>3. ChangedIn(offset + 1, offset + Len(data), d, over)
      <4>1. DOMAIN d = 1 .. Len(d) /\ Len(d) \in Nat /\ Len(full) \in Nat
        BY <2>2, <2>6
      <4>2. \A i \in 1 .. Len(d) : i \in 1 .. Len(full) /\ full[i] = d[i]
        BY <2>6, <4>1
      <4>3. \A i \in 1 .. Len(d) :
              i \notin offset + 1 .. offset + Len(data) => over[i] = d[i]
        BY <2>7, <4>2
      <4>4. Len(over) >= Len(d)
        BY <2>6, <2>7
      <4> QED BY <4>1, <4>3, <4>4 DEF ChangedIn
    <3>4. ASSUME NEW q \in DOMAIN ns
          PROVE  ChangedIn(offset + 1, offset + Len(data), ns[q].data, w.nodes[q].data)
      <4>1. CASE q = p
        BY <3>2, <3>3, <4>1, Zenon
      <4>2. CASE q # p
        BY <1>1, <3>2, <4>2 DEF ChangedIn
      <4> QED BY <4>1, <4>2
    <3> QED BY <3>1, <3>2, <3>4 DEF w
  <2> QED BY <2>3, <2>9, <2>10 DEF w
<1> QED BY <1>2, <1>3

\* A field that was accepted holds an integer and lies in the window.
LEMMA FieldTyped ==
    ASSUME TypeOK, NEW k \in Nat, FieldAt(k)
    PROVE  r2 + k \in 0 .. Window - 1 /\ Field(k) \in Int
<1>1. r2 + k \in 0 .. Window - 1
  BY SyscallAssumption DEF TypeOK, FieldAt, isUserDataRange
<1> QED BY <1>1 DEF TypeOK, Field

\* The checks of FS_READ and FS_WRITE are passed: offset and count are natural
\* and the buffer lies in the window.
LEMMA TransferTyped ==
    ASSUME TypeOK, CallStatus = 0
    PROVE  /\ Field(FileOffset) \in Nat
           /\ Field(TransferCount) \in Nat
           /\ Field(BufferPointer) \in Nat
           /\ Field(BufferPointer) + Field(TransferCount) <= Window
<1>1. TransferStatus = 0
  <2>1. PathStatus = -5 \/ (PathStatus = -6 /\ Field(PathLength) \notin 1 .. MaxPathLength)
           => CallStatus # 0
    BY DEF CallStatus
  <2> QED BY <2>1 DEF CallStatus
<1>2. /\ FieldAt(FileOffset) /\ FieldAt(BufferPointer) /\ FieldAt(TransferCount)
      /\ ~(Field(FileOffset) < 0 \/ Field(TransferCount) < 0)
      /\ validGuestRange(Field(BufferPointer), Field(TransferCount))
  BY <1>1 DEF TransferStatus
<1>3. /\ Field(FileOffset) \in Int
      /\ Field(BufferPointer) \in Int
      /\ Field(TransferCount) \in Int
  BY <1>2, FieldTyped DEF FileOffset, BufferPointer, TransferCount
<1> QED BY <1>2, <1>3, SyscallAssumption DEF validGuestRange, isUserDataRange

\* ZeroFS::readFile returns at most count bytes.
LEMMA ReadFileTyped ==
    ASSUME NEW ns, NEW p, ns[p].data \in Seq(Int), NEW offset \in Nat, NEW count \in Nat
    PROVE  /\ readFile(ns, p, offset, count) \in Seq(Int)
           /\ Len(readFile(ns, p, offset, count)) <= count
<1> DEFINE d == ns[p].data
           m == Least(count, Len(d) - offset)
<1>1. CASE offset >= Len(d)
  <2>1. readFile(ns, p, offset, count) = <<>>
    BY <1>1 DEF readFile
  <2>2. <<>> \in Seq(Int) /\ Len(<<>>) = 0
    OBVIOUS
  <2> QED BY <2>1, <2>2
<1>2. CASE ~(offset >= Len(d))
  <2>1. readFile(ns, p, offset, count) = SubSeq(d, offset + 1, offset + m)
    BY <1>2 DEF readFile
  <2>2. d \in Seq(Int)
    OBVIOUS
  <2> HIDE DEF d
  <2>3. m \in Nat /\ m <= count /\ offset + m <= Len(d)
    BY <1>2, <2>2 DEF Least
  <2> HIDE DEF m
  <2>4. /\ SubSeq(d, offset + 1, offset + m) \in Seq(Int)
        /\ Len(SubSeq(d, offset + 1, offset + m)) = m
    BY <2>2, <2>3
  <2> QED BY <2>1, <2>3, <2>4
<1> QED BY <1>1, <1>2

\* FS_STAT changes nothing but its result fields, and when it fails nothing
\* outside them.
LEMMA StatEffect ==
    ASSUME TypeOK, Stat
    PROVE  /\ UNCHANGED <<nodes, r7, hw, device, exited>>
           /\ mem' \in [0 .. Window - 1 -> Int]
           /\ r2' \in Int /\ r3' \in Int /\ r4' \in Int
           /\ r4' # 0 => UNCHANGED <<r2, r3>>
           /\ \A a \in DOMAIN mem : mem'[a] # mem[a] =>
                a \in {request'.base + StatType, request'.base + StatSize}
<1> DEFINE size == Len(nodes[Path].data)
           type == IF IsFile(nodes, Path) THEN 0 ELSE 1
<1>1. CASE \E e \in {PathStatus, mapFilesystemError("NotFound"), -5} : Fails(e)
  <2>1. PathStatus \in Int /\ mapFilesystemError("NotFound") \in Int
    BY DEF PathStatus, mapFilesystemError
  <2> QED BY <1>1, <2>1 DEF Fails, TypeOK
<1>2. CASE ~\E e \in {PathStatus, mapFilesystemError("NotFound"), -5} : Fails(e)
  <2>1. exists(nodes, Path) /\ FieldAt(StatType)
    BY <1>2 DEF Stat
  <2>2. size \in Int /\ type \in Int
    BY <2>1, NodeData DEF exists, TypeOK
  <2>3. r2 + StatType \in 0 .. Window - 1
    BY <2>1, FieldTyped DEF StatType
  <2>4. CASE FieldAt(StatSize)
    <3>1. /\ mem' = [mem EXCEPT ![r2 + StatType] = type, ![r2 + StatSize] = size]
          /\ r2' = size /\ r3' = type /\ r4' = 0
          /\ request' = [NoCall EXCEPT !.service = 30, !.base = r2]
          /\ UNCHANGED <<nodes, r7, hw, device, exited>>
      BY <1>2, <2>1, <2>4 DEF Stat
    <3>2. request'.base = r2
      BY <3>1 DEF NoCall
    <3> HIDE DEF size, type
    <3>3. mem' \in [0 .. Window - 1 -> Int]
      BY <2>2, <3>1 DEF TypeOK
    <3>4. \A a \in DOMAIN mem : mem'[a] # mem[a] =>
            a \in {r2 + StatType, r2 + StatSize}
      BY <3>1 DEF TypeOK
    <3>5. \A a \in DOMAIN mem : mem'[a] # mem[a] =>
            a \in {request'.base + StatType, request'.base + StatSize}
      BY <3>2, <3>4, Zenon
    <3> QED BY <2>2, <3>1, <3>3, <3>5
  <2>5. CASE ~FieldAt(StatSize)
    <3>1. /\ mem' = [mem EXCEPT ![r2 + StatType] = type]
          /\ r4' = -5
          /\ request' = [NoCall EXCEPT !.service = 30, !.base = r2]
          /\ UNCHANGED <<nodes, r2, r3, r7, hw, device, exited>>
      BY <1>2, <2>1, <2>5 DEF Stat
    <3>2. request'.base = r2
      BY <3>1 DEF NoCall
    <3> HIDE DEF size, type
    <3>3. mem' \in [0 .. Window - 1 -> Int]
      BY <2>2, <3>1 DEF TypeOK
    <3>4. \A a \in DOMAIN mem : mem'[a] # mem[a] => a \in {r2 + StatType}
      BY <3>1 DEF TypeOK
    <3>5. \A a \in DOMAIN mem : mem'[a] # mem[a] =>
            a \in {request'.base + StatType, request'.base + StatSize}
      BY <3>2, <3>4, Zenon
    <3>6. r2' \in Int /\ r3' \in Int /\ r4' \in Int
      BY <3>1 DEF TypeOK
    <3> QED BY <3>1, <3>3, <3>5, <3>6
  <2> QED BY <2>4, <2>5
<1> QED BY <1>1, <1>2

\* FS_READ changes nothing but its buffer and R2.
LEMMA ReadEffect ==
    ASSUME TypeOK, Read
    PROVE  /\ UNCHANGED <<nodes, r3, r7, hw, device, exited>>
           /\ mem' \in [0 .. Window - 1 -> Int]
           /\ r2' \in Int /\ r4' \in Int
           /\ r4' # 0 => UNCHANGED r2
           /\ \A a \in DOMAIN mem : mem'[a] # mem[a] =>
                a \in request'.buffer .. request'.buffer + request'.count - 1
<1> DEFINE data == readFile(nodes, Path, Field(FileOffset), Field(TransferCount))
           at == Field(BufferPointer)
           count == Field(TransferCount)
<1>1. CASE Fails(CallStatus) \/ Fails(mapFilesystemError(FileError(nodes, Path)))
  <2>1. CallStatus \in Int
    BY DEF CallStatus, PathStatus, TransferStatus
  <2>2. \A e : mapFilesystemError(e) \in Int
    BY DEF mapFilesystemError
  <2> QED BY <1>1, <2>1, <2>2 DEF Fails, TypeOK
<1>2. CASE ~(Fails(CallStatus) \/ Fails(mapFilesystemError(FileError(nodes, Path))))
  <2>1. CallStatus = 0 /\ IsFile(nodes, Path)
    BY <1>2 DEF Read
  <2>2. /\ mem' = [a \in DOMAIN mem |->
                     IF a \in at .. at + Len(data) - 1 THEN data[a - at + 1] ELSE mem[a]]
        /\ r2' = Len(data)
        /\ r4' = 0
        /\ request' = Asked(31)
        /\ UNCHANGED <<nodes, r3, r7, hw, device, exited>>
    BY <1>2, <2>1 DEF Read
  <2>3. Field(FileOffset) \in Nat /\ at \in Nat /\ count \in Nat
    BY <2>1, TransferTyped
  <2>4. data \in Seq(Int) /\ Len(data) <= count
    <3>1. nodes[Path].data \in Seq(Int)
      BY <2>1, NodeData DEF IsFile, exists, TypeOK
    <3> QED BY <2>3, <3>1, ReadFileTyped
  <2>5. request'.buffer = at /\ request'.count = count
    BY <2>2 DEF Asked
  <2> HIDE DEF data, at, count
  <2>6. DOMAIN mem = 0 .. Window - 1 /\ \A a \in DOMAIN mem : mem[a] \in Int
    BY DEF TypeOK
  <2>7. \A a \in at .. at + Len(data) - 1 : data[a - at + 1] \in Int
    BY <2>3, <2>4
  <2>8. mem' \in [0 .. Window - 1 -> Int]
    BY <2>2, <2>6, <2>7
  <2>9. ASSUME NEW a \in DOMAIN mem, mem'[a] # mem[a]
        PROVE  a \in at .. at + count - 1
    BY <2>2, <2>3, <2>4, <2>6, <2>9
  <2>10. \A a \in DOMAIN mem : mem'[a] # mem[a] =>
           a \in request'.buffer .. request'.buffer + request'.count - 1
    BY <2>5, <2>9, Zenon
  <2> QED BY <2>2, <2>4, <2>8, <2>10
<1> QED BY <1>1, <1>2

\* FS_WRITE changes nothing but R2 and the file.
LEMMA WriteEffect ==
    ASSUME TypeOK, Write
    PROVE  /\ UNCHANGED <<mem, r3, r7, hw, device, exited>>
           /\ Typed(nodes') /\ DOMAIN nodes' = DOMAIN nodes
           /\ r2' \in Int /\ r4' \in Int
           /\ r4' # 0 => UNCHANGED r2
           /\ \A p \in DOMAIN nodes :
                /\ p # request'.path => nodes'[p] = nodes[p]
                /\ ChangedIn(request'.offset + 1, request'.offset + request'.count,
                             nodes[p].data, nodes'[p].data)
                /\ r4' # 0 => ZerosAdded(nodes[p].data, nodes'[p].data)
<1> DEFINE at == Field(BufferPointer)
           count == Field(TransferCount)
           offset == Field(FileOffset)
           data == [i \in 1 .. count |-> mem[at + i - 1]]
           w == writeFile(nodes, Path, offset, data)
<1>0. Typed(nodes)
  BY DEF Typed, TypeOK
<1>1. CASE Fails(CallStatus)
  <2>1. CallStatus \in Int
    BY DEF CallStatus, PathStatus, TransferStatus
  <2>2. \A p \in DOMAIN nodes : nodes[p].data \in Seq(Int)
    BY NodeData DEF TypeOK
  <2>3. \A lo, hi : \A p \in DOMAIN nodes :
          /\ ChangedIn(lo, hi, nodes[p].data, nodes[p].data)
          /\ ZerosAdded(nodes[p].data, nodes[p].data)
    BY <2>2 DEF ChangedIn, ZerosAdded
  <2>4. UNCHANGED <<nodes, mem, r2, r3, r7, hw, device, exited>> /\ r4' \in Int
    BY <1>1, <2>1 DEF Fails
  <2>5. /\ nodes' = nodes /\ r2' \in Int
        /\ UNCHANGED <<mem, r3, r7, hw, device, exited>> /\ UNCHANGED r2
    BY <2>4 DEF TypeOK
  <2>6. \A p \in DOMAIN nodes :
          /\ nodes'[p] = nodes[p]
          /\ ChangedIn(request'.offset + 1, request'.offset + request'.count,
                       nodes[p].data, nodes'[p].data)
          /\ ZerosAdded(nodes[p].data, nodes'[p].data)
    BY <2>3, <2>5, Zenon
  <2>7. Typed(nodes') /\ DOMAIN nodes' = DOMAIN nodes
    BY <1>0, <2>5, Zenon
  <2> QED BY <2>4, <2>5, <2>6, <2>7
<1>2. CASE ~Fails(CallStatus)
  <2>1. CallStatus = 0
    BY <1>2 DEF Write
  <2>2. /\ nodes' = w.nodes
        /\ r4' = mapFilesystemError(w.error)
        /\ r2' = IF w.error = "ok" THEN count ELSE r2
        /\ request' = Asked(32)
        /\ UNCHANGED <<mem, r3, r7, hw, device, exited>>
    BY <1>2, <2>1 DEF Write
  <2>3. offset \in Nat /\ at \in Nat /\ count \in Nat /\ at + count <= Window
    BY <2>1, TransferTyped
  <2>4. request'.path = Path /\ request'.offset = offset /\ request'.count = count
    BY <2>2 DEF Asked
  <2>5. r4' # 0 => w.error # "ok"
    BY <2>2 DEF mapFilesystemError
  <2>6. r4' \in Int
    BY <2>2 DEF mapFilesystemError
  <2>7. data \in Seq(Int) /\ Len(data) = count
    <3> HIDE DEF at, count
    <3>1. \A i \in 1 .. count : at + i - 1 \in 0 .. Window - 1
      BY <2>3, SyscallAssumption
    <3>2. \A i \in 1 .. count : mem[at + i - 1] \in Int
      BY <3>1 DEF TypeOK
    <3> QED BY <2>3, <3>2
  <2> HIDE DEF at, count, offset, data
  <2>8. /\ Typed(w.nodes)
        /\ DOMAIN w.nodes = DOMAIN nodes
        /\ \A p \in DOMAIN nodes :
             /\ p # Path => w.nodes[p] = nodes[p]
             /\ ChangedIn(offset + 1, offset + Len(data), nodes[p].data, w.nodes[p].data)
             /\ w.error # "ok" => ZerosAdded(nodes[p].data, w.nodes[p].data)
    BY <1>0, <2>3, <2>7, WriteFileEffect
  <2> HIDE DEF w
  <2>9. Typed(nodes') /\ DOMAIN nodes' = DOMAIN nodes
    BY <2>2, <2>8
  <2>10. r2' \in Int /\ (r4' # 0 => UNCHANGED r2)
    BY <2>2, <2>3, <2>5 DEF TypeOK
  <2>11. ASSUME NEW p \in DOMAIN nodes
         PROVE  /\ p # request'.path => nodes'[p] = nodes[p]
                /\ ChangedIn(request'.offset + 1, request'.offset + request'.count,
                             nodes[p].data, nodes'[p].data)
                /\ r4' # 0 => ZerosAdded(nodes[p].data, nodes'[p].data)
    BY <2>2, <2>4, <2>5, <2>7, <2>8, Zenon
  <2> QED BY <2>2, <2>6, <2>9, <2>10, <2>11
<1> QED BY <1>1, <1>2

\* Types and soundness of the map together.
SyscallInv == TypeOK /\ Sound(nodes)

LEMMA FormattedTyped == Typed(Formatted)
<1>1. IsFiniteSet({<<>>, <<"bin">>, <<"www">>, <<"data">>})
  <2>1. IsFiniteSet({<<>>})
    BY FS_Singleton
  <2>2. IsFiniteSet({<<>>} \cup {<<"bin">>})
    BY <2>1, FS_AddElement
  <2>3. IsFiniteSet({<<>>} \cup {<<"bin">>} \cup {<<"www">>})
    BY <2>2, FS_AddElement
  <2>4. IsFiniteSet({<<>>} \cup {<<"bin">>} \cup {<<"www">>} \cup {<<"data">>})
    BY <2>3, FS_AddElement
  <2>5. {<<>>} \cup {<<"bin">>} \cup {<<"www">>} \cup {<<"data">>}
          = {<<>>, <<"bin">>, <<"www">>, <<"data">>}
    OBVIOUS
  <2> QED BY <2>4, <2>5
<1>2. {<<>>, <<"bin">>, <<"www">>, <<"data">>} \subseteq Paths
  BY ZeroFSAssumption DEF Paths
<1> QED BY <1>1, <1>2, NodesMade DEF Typed, Formatted

LEMMA SyscallInit == Init => SyscallInv
<1> SUFFICES ASSUME Init PROVE SyscallInv
  OBVIOUS
<1>1. Typed(nodes) /\ Sound(nodes)
  BY FormattedTyped, FormattedSound DEF Init
<1>2. /\ mem \in [0 .. Window - 1 -> Int]
      /\ r2 \in Int /\ r3 \in Int /\ r4 \in Int /\ r7 \in Int
      /\ hw \in [Registers -> Int]
      /\ device \in {"none", "ok", "broken"}
  BY DEF Init
<1>3. exited \in BOOLEAN
  BY Zenon DEF Init
<1> QED BY <1>1, <1>2, <1>3, Zenon DEF SyscallInv, TypeOK, Typed

\* No step leaves the types.
LEMMA TypeStep == TypeOK /\ [Next]_vars => TypeOK'
<1> SUFFICES ASSUME TypeOK, [Next]_vars PROVE TypeOK'
  OBVIOUS
<1> DEFINE RestOK == /\ mem \in [0 .. Window - 1 -> Int]
                     /\ r2 \in Int /\ r3 \in Int /\ r4 \in Int /\ r7 \in Int
                     /\ hw \in [Registers -> Int]
                     /\ device \in {"none", "ok", "broken"}
                     /\ exited \in BOOLEAN
<1>0. Typed(nodes) /\ RestOK
  BY DEF TypeOK, Typed
<1> SUFFICES Typed(nodes') /\ RestOK'
  BY DEF TypeOK, Typed
<1>1. ASSUME NEW raw \in HostPaths,
             \/ HostCreateDirectory(raw)
             \/ HostCreateDirectories(raw)
             \/ \E d \in HostData : HostPutFile(raw, d)
      PROVE  Typed(nodes') /\ RestOK'
  <2>1. ~Traversal(raw) => normalizePath(raw) \in Paths
    BY SyscallAssumption
  <2>2. \A d \in HostData : d \in Seq(Int)
    <3>1. TAKE d \in HostData
    <3>2. Len(d) \in Nat /\ d = [i \in 1 .. Len(d) |-> d[i]]
      BY SyscallAssumption
    <3>3. d \in Seq(Bytes)
      BY SyscallAssumption
    <3>4. \A i \in 1 .. Len(d) : d[i] \in Bytes
      BY <3>3
    <3>5. \A i \in 1 .. Len(d) : d[i] \in Int
      BY <3>4, ZeroFSAssumption
    <3> QED BY <3>2, <3>5
  <2>3. Typed(nodes')
    BY <1>0, <1>1, <2>1, <2>2, CreateDirectoryTyped, DirectoriesTyped, PutFileTyped
       DEF HostCreateDirectory, HostCreateDirectories, HostPutFile, Host
  <2>4. UNCHANGED <<guest, hw, device, exited>>
    BY <1>1 DEF HostCreateDirectory, HostCreateDirectories, HostPutFile, Host
  <2> QED BY <1>0, <2>3, <2>4 DEF guest
<1>2. CASE DeviceChanges
  BY <1>0, <1>2 DEF DeviceChanges, guest
<1>3. ASSUME NEW m \in Images, NEW ab \in Arguments, Prepare(m, ab[1], ab[2])
      PROVE  Typed(nodes') /\ RestOK'
  <2>1. m \in [0 .. Window - 1 -> Int] /\ ab[1] \in Int /\ ab[2] \in Int
    BY SyscallAssumption, ZeroFSAssumption
  <2> QED BY <1>0, <1>3, <2>1 DEF Prepare
<1>4. ASSUME NEW n \in Services \cup {33}, Int80(n)
      PROVE  Typed(nodes') /\ RestOK'
  <2>1. CASE Write
    BY <1>0, <2>1, WriteEffect
  <2>2. CASE Stat
    BY <1>0, <2>2, StatEffect
  <2>3. CASE Read
    BY <1>0, <2>3, ReadEffect
  <2>4. CASE Fails(-1)
    BY <1>0, <2>4 DEF Fails
  <2>6. CASE Exit
    <3>1. UNCHANGED <<nodes, mem, r2, r3, hw, device>> /\ r7' = r2 /\ r4' = 0
      BY <2>6 DEF Exit
    <3>2. exited' \in BOOLEAN
      BY <2>6, Zenon DEF Exit
    <3> QED BY <1>0, <3>1, <3>2
  <2>5. CASE HardwareRead \/ HardwareWrite
    <3>1. HardwareStatus \in Int /\ (HardwareStatus \in {0, -4} => r2 \in Registers)
      BY DEF HardwareStatus
    <3> QED BY <1>0, <2>5, <3>1 DEF HardwareRead, HardwareWrite, Written, Fails
  <2> QED BY <1>4, <2>1, <2>2, <2>3, <2>4, <2>5, <2>6 DEF Int80
<1>5. CASE Gone \/ UNCHANGED vars
  BY <1>0, <1>5 DEF Gone, vars, guest
<1> QED BY <1>1, <1>2, <1>3, <1>4, <1>5 DEF Next

\* The types and the tree hold in every reachable state.
THEOREM SyscallInvariant == Spec => []SyscallInv
<1>1. SyscallInv /\ [Next]_vars => SyscallInv'
  BY TypeStep, TreeStep DEF SyscallInv, FilesystemInv
<1> QED BY <1>1, SyscallInit, PTL DEF Spec

\* A file that keeps its bytes keeps them in every sense.
LEMMA SameBytes ==
    ASSUME TypeOK, UNCHANGED nodes
    PROVE  \A p \in DOMAIN nodes :
             /\ Len(nodes'[p].data) >= Len(nodes[p].data)
             /\ \A i \in DOMAIN nodes'[p].data :
                  nodes'[p].data[i] = IF i <= Len(nodes[p].data) THEN nodes[p].data[i]
                                      ELSE 0
<1>1. \A p \in DOMAIN nodes : nodes[p].data \in Seq(Int)
  BY NodeData DEF TypeOK
<1> QED BY <1>1

\* GuestWritesInRange, FailureChangesNoData: their step formulas.
LEMMA RangeStep ==
    ASSUME TypeOK, NEW n \in Services, Int80(n)
    PROVE  /\ \A p \in DOMAIN nodes :
                /\ Len(nodes'[p].data) >= Len(nodes[p].data)
                /\ \A i \in DOMAIN nodes[p].data :
                     nodes'[p].data[i] # nodes[p].data[i] =>
                        /\ n = 32 /\ p = request'.path
                        /\ i \in request'.offset + 1 .. request'.offset + request'.count
           /\ \A a \in DOMAIN mem : mem'[a] # mem[a] =>
                \/ /\ n = 31
                   /\ a \in request'.buffer .. request'.buffer + request'.count - 1
                \/ n = 30 /\ a \in {request'.base + StatType, request'.base + StatSize}
<1>1. CASE n = 30
  <2>1. Stat
    BY <1>1 DEF Int80, Services
  <2> QED BY <1>1, <2>1, StatEffect, SameBytes
<1>2. CASE n = 31
  <2>1. Read
    BY <1>2 DEF Int80, Services
  <2> QED BY <1>2, <2>1, ReadEffect, SameBytes
<1>3. CASE n = 32
  <2>1. Write
    BY <1>3 DEF Int80, Services
  <2>2. /\ UNCHANGED mem
        /\ \A p \in DOMAIN nodes :
             /\ p # request'.path => nodes'[p] = nodes[p]
             /\ ChangedIn(request'.offset + 1, request'.offset + request'.count,
                          nodes[p].data, nodes'[p].data)
    BY <2>1, WriteEffect
  <2> QED BY <1>3, <2>2 DEF ChangedIn
<1>4. CASE n \in {3, 20, 21}
  <2>1. UNCHANGED <<nodes, mem>>
    BY <1>4 DEF Int80, Exit, HardwareRead, HardwareWrite, Written, Fails
  <2> QED BY <2>1, SameBytes
<1> QED BY <1>1, <1>2, <1>3, <1>4 DEF Services

LEMMA FailureStep ==
    ASSUME TypeOK, NEW n \in Services, Int80(n), r4' # 0
    PROVE  /\ UNCHANGED <<r2, r3, r7, exited>>
           /\ hw' # hw => n = 20 /\ r4' = -4 /\ hw' = [hw EXCEPT ![r2] = r3]
           /\ \A p \in DOMAIN nodes :
                \A i \in DOMAIN nodes'[p].data :
                  nodes'[p].data[i] = IF i <= Len(nodes[p].data) THEN nodes[p].data[i]
                                      ELSE 0
<1>1. CASE n = 30
  <2>1. Stat
    BY <1>1 DEF Int80, Services
  <2> QED BY <2>1, StatEffect, SameBytes
<1>2. CASE n = 31
  <2>1. Read
    BY <1>2 DEF Int80, Services
  <2> QED BY <2>1, ReadEffect, SameBytes
<1>3. CASE n = 32
  <2>1. Write
    BY <1>3 DEF Int80, Services
  <2>2. /\ UNCHANGED <<r2, r3, r7, hw, exited>>
        /\ \A p \in DOMAIN nodes : ZerosAdded(nodes[p].data, nodes'[p].data)
    BY <2>1, WriteEffect
  <2> QED BY <2>2 DEF ZerosAdded
<1>4. CASE n \in {3, 21}
  <2>1. /\ Exit => r4' = 0
        /\ HardwareRead => UNCHANGED <<nodes, r2, r3, r7, hw, exited>>
    BY DEF Exit, HardwareRead, Fails
  <2>2. UNCHANGED <<nodes, r2, r3, r7, hw, exited>>
    BY <1>4, <2>1 DEF Int80, Services
  <2> QED BY <2>2, SameBytes
<1>5. CASE n = 20
  <2>1. HardwareWrite
    BY <1>5 DEF Int80, Services
  <2>2. /\ UNCHANGED <<nodes, r2, r3, r7, exited>>
        /\ hw' # hw => r4' = -4 /\ hw' = [hw EXCEPT ![r2] = r3]
    BY <2>1 DEF HardwareWrite, Written, Fails
  <2> QED BY <1>5, <2>2, SameBytes
<1> QED BY <1>1, <1>2, <1>3, <1>4, <1>5 DEF Services

\* No guest call, good or bad, writes outside the range it asked for: neither
\* the file behind FS_WRITE nor the memory behind FS_READ and FS_STAT.
THEOREM GuestStaysInRange == Spec => GuestWritesInRange
<1>1. TypeOK => [\A n \in Services : Int80(n) =>
         /\ \A p \in DOMAIN nodes :
              /\ Len(nodes'[p].data) >= Len(nodes[p].data)
              /\ \A i \in DOMAIN nodes[p].data :
                   nodes'[p].data[i] # nodes[p].data[i] =>
                      /\ n = 32 /\ p = request'.path
                      /\ i \in request'.offset + 1 .. request'.offset + request'.count
         /\ \A a \in DOMAIN mem : mem'[a] # mem[a] =>
              \/ /\ n = 31
                 /\ a \in request'.buffer .. request'.buffer + request'.count - 1
              \/ n = 30 /\ a \in {request'.base + StatType, request'.base + StatSize}]_vars
  BY RangeStep
<1>2. SyscallInv => TypeOK
  BY DEF SyscallInv
<1> QED BY <1>1, <1>2, SyscallInvariant, PTL DEF GuestWritesInRange

\* A call that fails has changed no register but the status and no byte of a
\* file: at most it has grown a file by zeros.  It has changed no device either,
\* unless it is a HARDWARE_WRITE with status -4, which may have done what it was
\* asked for and nothing else.
THEOREM FailureIsHarmless == Spec => FailureChangesNoData
<1>1. TypeOK => [\A n \in Services : Int80(n) /\ r4' # 0 =>
         /\ UNCHANGED <<r2, r3, r7, exited>>
         /\ hw' # hw => n = 20 /\ r4' = -4 /\ hw' = [hw EXCEPT ![r2] = r3]
         /\ \A p \in DOMAIN nodes :
              \A i \in DOMAIN nodes'[p].data :
                nodes'[p].data[i] = IF i <= Len(nodes[p].data) THEN nodes[p].data[i]
                                    ELSE 0]_vars
  BY FailureStep
<1>2. SyscallInv => TypeOK
  BY DEF SyscallInv
<1> QED BY <1>1, <1>2, SyscallInvariant, PTL DEF FailureChangesNoData

-------------------------------------------------------------------------------
(* The listings.                                                            *)

\* A path is its parent and its base name.
LEMMA PathSplits ==
    ASSUME NEW p \in Paths, p # <<>>
    PROVE  /\ Append(parentPath(p), baseName(p)) = p
           /\ parentPath(p) \in Paths
           /\ Len(parentPath(p)) = Len(p) - 1
           /\ Len(p) \in Nat \ {0}
<1>1. p \in Seq(Names) /\ Len(p) \in Nat \ {0}
  BY DEF Paths
<1>2. /\ parentPath(p) = [i \in 1 .. Len(p) - 1 |-> p[i]]
      /\ Len(parentPath(p)) = Len(p) - 1
      /\ parentPath(p) \in Seq(Names)
  <2> DEFINE m == Len(p) - 1
  <2>1. m \in Nat /\ m <= Len(p)
    BY <1>1
  <2>2. parentPath(p) = SubSeq(p, 1, m)
    BY DEF parentPath
  <2> HIDE DEF m
  <2>3. \A i \in 1 .. m : p[i] \in Names
    BY <1>1, <2>1
  <2>4. SubSeq(p, 1, m) = [i \in 1 .. m |-> p[i]]
    BY <1>1, <2>1
  <2>5. parentPath(p) \in Seq(Names) /\ Len(parentPath(p)) = m
    BY <2>1, <2>2, <2>3, <2>4
  <2> QED BY <2>2, <2>4, <2>5 DEF m
<1>3. Append(parentPath(p), baseName(p)) = p
  BY <1>1, <1>2 DEF baseName
<1> QED BY <1>1, <1>2, <1>3 DEF Paths

\* One level of the walk: the listings of the directories of length k - 1 are
\* the nodes of length k.
LEMMA LevelStep ==
    ASSUME NEW ns, Typed(ns), Tree(ns), NEW k \in Nat \ {0}
    PROVE  {p \in DOMAIN ns : Len(p) = k} =
             UNION {{Append(p, name) : name \in listDirectory(ns, p)} :
                    p \in {q \in {r \in DOMAIN ns : Len(r) = k - 1} : IsDirectory(ns, q)}}
<1> DEFINE dirs == {q \in {r \in DOMAIN ns : Len(r) = k - 1} : IsDirectory(ns, q)}
           below == UNION {{Append(p, name) : name \in listDirectory(ns, p)} : p \in dirs}
<1>1. ASSUME NEW p \in DOMAIN ns, Len(p) = k
      PROVE  p \in below
  <2>1. p \in Paths /\ p # <<>>
    BY <1>1 DEF Typed, Paths
  <2>2. /\ Append(parentPath(p), baseName(p)) = p
        /\ Len(parentPath(p)) = k - 1
    BY <1>1, <2>1, PathSplits
  <2>3. parentPath(p) \in dirs
    BY <2>2 DEF Tree, IsDirectory, exists
  <2>4. baseName(p) \in listDirectory(ns, parentPath(p))
    BY <2>1 DEF listDirectory
  <2> HIDE DEF dirs
  <2> QED BY <2>2, <2>3, <2>4
<1>2. ASSUME NEW p \in dirs, NEW name \in listDirectory(ns, p)
      PROVE  Append(p, name) \in DOMAIN ns /\ Len(Append(p, name)) = k
  <2>1. PICK r \in DOMAIN ns \ {<<>>} : parentPath(r) = p /\ name = baseName(r)
    BY <1>2 DEF listDirectory
  <2>2. r \in Paths
    BY <2>1 DEF Typed
  <2>3. Append(p, name) = r /\ Len(p) = Len(r) - 1 /\ Len(r) \in Nat
    BY <2>1, <2>2, PathSplits
  <2> QED BY <2>1, <2>3
<1>3. ASSUME NEW x \in below
      PROVE  x \in DOMAIN ns /\ Len(x) = k
  <2>1. PICK p \in dirs : x \in {Append(p, name) : name \in listDirectory(ns, p)}
    BY <1>3, Zenon
  <2>2. PICK name \in listDirectory(ns, p) : x = Append(p, name)
    BY <2>1, Zenon
  <2> QED BY <1>2, <2>2
<1> QED BY <1>1, <1>3

\* What makes f the levels that Found walks through.
IsLevels(f, ns, n) ==
    f = [k \in 0 .. n |->
           IF k = 0 THEN {<<>>}
           ELSE UNION {{Append(p, name) : name \in listDirectory(ns, p)} :
                       p \in {q \in f[k - 1] : IsDirectory(ns, q)}}]

\* Two functions that agree at 0 and go on in the same way are the same: at the
\* least k where they differ they would agree at k - 1.
LEMMA LevelsUnique ==
    ASSUME NEW ns, NEW n \in Nat, NEW f, NEW g, IsLevels(f, ns, n), IsLevels(g, ns, n)
    PROVE  f = g
<1> DEFINE D == {k \in 0 .. n : f[k] # g[k]}
           Below(l) == UNION {{Append(p, name) : name \in listDirectory(ns, p)} :
                              p \in {q \in l : IsDirectory(ns, q)}}
<1>1. /\ f = [k \in 0 .. n |-> IF k = 0 THEN {<<>>} ELSE Below(f[k - 1])]
      /\ g = [k \in 0 .. n |-> IF k = 0 THEN {<<>>} ELSE Below(g[k - 1])]
  BY DEF IsLevels
<1> HIDE DEF Below
<1>2. CASE D = {}
  BY <1>1, <1>2
<1>3. CASE D # {}
  <2>1. D \subseteq Nat
    OBVIOUS
  <2>2. PICK k \in D : \A y \in D : ~(<<y, k>> \in OpToRel(<, Nat))
    <3> HIDE DEF D
    <3> QED BY <1>3, <2>1, NatLessThanWellFounded, WFMin
  <2>3. k \in 0 .. n /\ f[k] # g[k]
    OBVIOUS
  <2>4. k # 0
    BY <1>1, <2>3
  <2>5. k - 1 \in 0 .. n /\ k - 1 \in Nat /\ k \in Nat /\ k - 1 < k
    BY <2>3, <2>4
  <2>6. k - 1 \notin D
    BY <2>2, <2>5 DEF OpToRel
  <2>7. f[k - 1] = g[k - 1]
    BY <2>5, <2>6
  <2>8. f[k] = Below(f[k - 1]) /\ g[k] = Below(g[k - 1])
    BY <1>1, <2>3, <2>4
  <2> QED BY <2>3, <2>7, <2>8
<1> QED BY <1>2, <1>3

\* The walk finds the nodes that lie at most n levels deep.
LEMMA FoundIs ==
    ASSUME NEW ns, Typed(ns), Tree(ns), NEW n \in Nat
    PROVE  Found(ns, n) = {p \in DOMAIN ns : Len(p) <= n}
<1> DEFINE At(k) == {p \in DOMAIN ns : Len(p) = k}
           f == [k \in 0 .. n |-> At(k)]
           P(h) == h = [k \in 0 .. n |->
                          IF k = 0 THEN {<<>>}
                          ELSE UNION {{Append(p, name) : name \in listDirectory(ns, p)} :
                                      p \in {q \in h[k - 1] : IsDirectory(ns, q)}}]
           Union(h) == UNION {h[k] : k \in 0 .. n}
<1>1. Found(ns, n) = Union(CHOOSE h : P(h))
  BY Zenon DEF Found
<1>2. IsLevels(f, ns, n)
  <2>1. At(0) = {<<>>}
    BY DEF Typed, Paths, Tree, IsDirectory, exists
  <2>2. ASSUME NEW k \in 1 .. n
        PROVE  At(k) = UNION {{Append(p, name) : name \in listDirectory(ns, p)} :
                              p \in {q \in f[k - 1] : IsDirectory(ns, q)}}
    <3>1. k \in Nat \ {0} /\ f[k - 1] = At(k - 1)
      OBVIOUS
    <3> HIDE DEF f
    <3> QED BY <3>1, LevelStep
  <2>3. ASSUME NEW k \in 0 .. n
        PROVE  f[k] = IF k = 0 THEN {<<>>}
                      ELSE UNION {{Append(p, name) : name \in listDirectory(ns, p)} :
                                  p \in {q \in f[k - 1] : IsDirectory(ns, q)}}
    <3>1. f[k] = At(k)
      OBVIOUS
    <3> HIDE DEF f, At
    <3>2. CASE k = 0
      BY <2>1, <3>1, <3>2, Zenon
    <3>3. CASE k # 0
      <4>1. k \in 1 .. n
        BY <3>3
      <4> QED BY <2>2, <3>1, <3>3, <4>1, Zenon
    <3> QED BY <3>2, <3>3
  <2>4. f = [k \in 0 .. n |-> f[k]]
    OBVIOUS
  <2> HIDE DEF f
  <2> QED BY <2>3, <2>4, Zenon DEF IsLevels
<1> HIDE DEF f
<1>3. P(f)
  BY <1>2, Zenon DEF IsLevels
<1>4. P(CHOOSE h : P(h))
  <2> HIDE DEF P
  <2> QED BY <1>3, Zenon
<1>5. IsLevels(CHOOSE h : P(h), ns, n)
  BY <1>4, Zenon DEF IsLevels
<1> HIDE DEF P
<1>6. (CHOOSE h : P(h)) = f
  BY <1>2, <1>5, LevelsUnique
<1>7. Found(ns, n) = UNION {f[k] : k \in 0 .. n}
  BY <1>1, <1>6
<1>8. \A p \in DOMAIN ns : Len(p) \in Nat
  BY DEF Typed, Paths
<1> QED BY <1>7, <1>8 DEF f

\* Every prefix of a node's path is a node: the longest that were not would
\* have a child that is one.
LEMMA PrefixesExist ==
    ASSUME NEW ns, Typed(ns), Tree(ns), NEW p \in DOMAIN ns
    PROVE  \A k \in 0 .. Len(p) : Prefix(p, k) \in DOMAIN ns
<1>1. p \in Seq(Names) /\ Len(p) \in Nat
  BY DEF Typed, Paths
<1> DEFINE D == {j \in 0 .. Len(p) : Prefix(p, Len(p) - j) \notin DOMAIN ns}
<1>2. Prefix(p, Len(p)) = p
  BY <1>1 DEF Prefix
<1>3. CASE D = {}
  <2> SUFFICES ASSUME NEW k \in 0 .. Len(p) PROVE Prefix(p, k) \in DOMAIN ns
    OBVIOUS
  <2>1. Len(p) - k \in 0 .. Len(p) /\ Len(p) - (Len(p) - k) = k
    BY <1>1
  <2> QED BY <1>3, <2>1
<1>4. CASE D # {}
  <2>1. D \subseteq Nat
    BY <1>1
  <2>2. PICK j \in D : \A y \in D : ~(<<y, j>> \in OpToRel(<, Nat))
    <3> HIDE DEF D
    <3> QED BY <1>4, <2>1, NatLessThanWellFounded, WFMin
  <2>3. j \in 0 .. Len(p) /\ Prefix(p, Len(p) - j) \notin DOMAIN ns
    OBVIOUS
  <2>4. j # 0
    <3>1. Len(p) - 0 = Len(p)
      BY <1>1
    <3> QED BY <1>2, <2>3, <3>1
  <2>5. j - 1 \in 0 .. Len(p) /\ j - 1 \in Nat /\ j \in Nat /\ j - 1 < j
    BY <1>1, <2>3, <2>4
  <2>6. j - 1 \notin D
    BY <2>2, <2>5 DEF OpToRel
  <2> DEFINE m == Len(p) - (j - 1)
  <2>7. m \in 1 .. Len(p) /\ m - 1 = Len(p) - j
    BY <1>1, <2>3, <2>5
  <2>8. Prefix(p, m) \in DOMAIN ns
    BY <2>5, <2>6
  <2> HIDE DEF m
  <2>9. parentPath(Prefix(p, m)) = Prefix(p, m - 1)
    BY <1>1, <2>7, PrefixParent
  <2>10. Prefix(p, m - 1) \in DOMAIN ns
    BY <2>8, <2>9 DEF Tree, IsDirectory, exists
  <2> QED BY <2>3, <2>7, <2>10
<1> QED BY <1>3, <1>4

\* No path is longer than the number of nodes.
LEMMA DepthBounded ==
    ASSUME NEW ns, Typed(ns), Tree(ns), NEW p \in DOMAIN ns
    PROVE  Len(p) <= Cardinality(DOMAIN ns)
<1> DEFINE f == [k \in 1 .. Len(p) |-> Prefix(p, k)]
<1>1. p \in Seq(Names) /\ Len(p) \in Nat
  BY DEF Typed, Paths
<1>2. \A k \in 1 .. Len(p) : Prefix(p, k) \in DOMAIN ns
  BY <1>1, PrefixesExist
<1>3. \A k \in 1 .. Len(p) : Len(Prefix(p, k)) = k
  BY <1>1 DEF Prefix
<1>4. f \in Injection(1 .. Len(p), DOMAIN ns)
  <2>1. f \in [1 .. Len(p) -> DOMAIN ns]
    BY <1>2
  <2>2. ASSUME NEW a \in 1 .. Len(p), NEW b \in 1 .. Len(p), f[a] = f[b]
        PROVE  a = b
    BY <1>3, <2>2
  <2> HIDE DEF f
  <2> QED BY <2>1, <2>2 DEF Injection, IsInjective
<1>5. Cardinality(1 .. Len(p)) <= Cardinality(DOMAIN ns)
  <2> HIDE DEF f
  <2> QED BY <1>4, FS_Injection DEF Typed
<1>6. Cardinality(1 .. Len(p)) = Len(p)
  <2>1. Cardinality(1 .. Len(p)) = IF 1 > Len(p) THEN 0 ELSE Len(p) - 1 + 1
    BY <1>1, FS_Interval
  <2> QED BY <1>1, <2>1
<1> QED BY <1>5, <1>6

\* Walking ZeroFS::listDirectory from the root finds every node and nothing
\* else, in every reachable state.
THEOREM ListingsComplete == Spec => []ListingsFindEverything
<1>1. SyscallInv => ListingsFindEverything
  <2> SUFFICES ASSUME TypeOK, Sound(nodes) PROVE ListingsFindEverything
    BY DEF SyscallInv
  <2> DEFINE n == 1 + Cardinality(DOMAIN nodes)
  <2>1. Typed(nodes) /\ Tree(nodes)
    BY DEF TypeOK, Typed, Sound
  <2>2. Cardinality(DOMAIN nodes) \in Nat
    BY <2>1, FS_CardinalityType DEF Typed
  <2>3. n \in Nat
    BY <2>2
  <2>4. \A p \in DOMAIN nodes : Len(p) <= n
    <3>1. TAKE p \in DOMAIN nodes
    <3>2. Len(p) <= Cardinality(DOMAIN nodes)
      BY <2>1, DepthBounded
    <3>3. Len(p) \in Nat
      BY <2>1 DEF Typed, Paths
    <3> QED BY <2>2, <3>2, <3>3
  <2> HIDE DEF n
  <2>5. Found(nodes, n) = {p \in DOMAIN nodes : Len(p) <= n}
    BY <2>1, <2>3, FoundIs
  <2> QED BY <2>4, <2>5 DEF ListingsFindEverything, n
<1> QED BY <1>1, SyscallInvariant, PTL
===============================================================================
