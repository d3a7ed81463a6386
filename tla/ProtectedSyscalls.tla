--------------------------- MODULE ProtectedSyscalls ---------------------------
(***************************************************************************)
(* ProtectedSyscallDispatcher with its three services (process exit,       *)
(* hardware, filesystem) called by INT 80, and the host's own use of the   *)
(* filesystem behind them.  Guest memory is the User data window; a field  *)
(* of a request block and a byte of a buffer each take one cell of it.     *)
(***************************************************************************)
EXTENDS ZeroFS

CONSTANTS
    Window,     \* cells of the User data window
    Aligned,    \* addresses at which a block of request fields is aligned
    PathTable,  \* the path that a cell's value, read as a path, stands for
    HostPaths,  \* paths the host program uses
    HostData,   \* contents it puts into files
    Images,     \* what guest programs have in memory when they call
    Arguments,  \* what they have in R2 and R3
    Registers   \* offsets of the hardware window that are aligned

ASSUME SyscallAssumption ==
    /\ Window \in Nat /\ Aligned \subseteq Nat
    /\ PathTable \in Seq(RawPaths)
    /\ HostPaths \subseteq RawPaths
    /\ \A raw \in HostPaths : ~Traversal(raw) => normalizePath(raw) \in Paths
    /\ HostData \subseteq Seq(Bytes)
    /\ Images \subseteq [0 .. Window - 1 -> Bytes]
    /\ Arguments \subseteq Int \X Int
    /\ Registers \subseteq Int

VARIABLES
    nodes,     \* ZeroFS.nodes_
    mem,       \* the User data window of the calling process
    r2, r3, r4, r7,
    hw,        \* hardware registers behind the MMIO bus
    device,    \* "none": no bus or nothing mapped there, "ok", "broken"
    exited,    \* the caller was terminated by the exit service
    request    \* history: the request the last call worked on

guest == <<mem, r2, r3, r4, r7>>

vars == <<nodes, guest, hw, device, exited, request>>

NoCall == [service |-> 0, base |-> 0, path |-> <<>>, offset |-> 0, buffer |-> 0, count |-> 0]

Init ==
    /\ nodes = Formatted
    /\ mem = [a \in 0 .. Window - 1 |-> 0]
    /\ r2 = 0 /\ r3 = 0 /\ r4 = 0 /\ r7 = 0
    /\ hw = [o \in Registers |-> 0]
    /\ device \in {"none", "ok"}
    /\ exited = FALSE
    /\ request = NoCall

-------------------------------------------------------------------------------
(* The host program.                                                        *)

\* normalizePath throws, or op runs and its exception leaves what it did.
Host(raw, op(_)) ==
    /\ nodes' = IF Traversal(raw) THEN nodes ELSE op(normalizePath(raw)).nodes
    /\ request' = NoCall
    /\ UNCHANGED <<guest, hw, device, exited>>

HostCreateDirectory(raw) == Host(raw, LAMBDA p : createDirectory(nodes, p))

HostCreateDirectories(raw) == Host(raw, LAMBDA p : createDirectories(nodes, p))

HostPutFile(raw, d) == Host(raw, LAMBDA p : putFile(nodes, p, d))

\* The bridge behind the hardware window fails or recovers.
DeviceChanges ==
    /\ device # "none"
    /\ device' = IF device = "ok" THEN "broken" ELSE "ok"
    /\ request' = NoCall
    /\ UNCHANGED <<nodes, guest, hw, exited>>

-------------------------------------------------------------------------------
(* The guest.                                                               *)

\* User code fills its memory and registers.
Prepare(m, a, b) ==
    /\ ~exited
    /\ mem' = m /\ r2' = a /\ r3' = b /\ r4' = 0
    /\ request' = NoCall
    /\ UNCHANGED <<nodes, r7, hw, device, exited>>

isUserDataRange(a, n) == a \in 0 .. Window /\ n <= Window - a

validGuestRange(a, n) == a >= 0 /\ n >= 0 /\ isUserDataRange(a, n)

\* readRequestI64 and writeRequestI64 accept the field: fields are eight bytes
\* apart, so that one is aligned where the block is.
FieldAt(k) == r2 \in Aligned /\ r2 <= Window /\ isUserDataRange(r2 + k, 1)

Field(k) == mem[r2 + k]

PathPointer == 0
PathLength == 1
FileOffset == 2
BufferPointer == 3
TransferCount == 4
StatType == 2
StatSize == 3

MaxPathLength == 1

\* Anything in memory that is no path of the table is refused as one.
PathIn(a) == IF mem[a] \in DOMAIN PathTable THEN PathTable[mem[a]]
             ELSE [valid |-> FALSE, parts |-> <<>>]

\* The status readPath leaves.
PathStatus ==
    IF ~FieldAt(PathPointer) \/ ~FieldAt(PathLength) THEN -5
    ELSE IF Field(PathLength) \notin 1 .. MaxPathLength THEN -6
    ELSE IF ~validGuestRange(Field(PathPointer), Field(PathLength)) THEN -5
    ELSE IF Traversal(PathIn(Field(PathPointer))) THEN -6
    ELSE 0

Path == normalizePath(PathIn(Field(PathPointer)))

mapFilesystemError(e) ==
    CASE e = "ok" -> 0
      [] e = "NotFound" -> -7
      [] e \in {"NotDirectory", "IsDirectory"} -> -8
      [] OTHER -> -10

\* The checks that FS_READ and FS_WRITE share, in their order.  The path has
\* been read but only the filesystem finds out that it is malformed.
TransferStatus ==
    IF \E k \in {FileOffset, BufferPointer, TransferCount} : ~FieldAt(k) THEN -5
    ELSE IF Field(FileOffset) < 0 \/ Field(TransferCount) < 0 THEN -9
    ELSE IF ~validGuestRange(Field(BufferPointer), Field(TransferCount)) THEN -5
    ELSE 0

\* The order of the two kinds of checks: a readable path, the transfer, the
\* path's form.
CallStatus ==
    IF PathStatus = -5 \/ (PathStatus = -6 /\ Field(PathLength) \notin 1 .. MaxPathLength)
    THEN PathStatus
    ELSE IF TransferStatus # 0 THEN TransferStatus ELSE PathStatus

Asked(n) ==
    [service |-> n, base |-> r2, path |-> Path, offset |-> Field(FileOffset),
     buffer |-> Field(BufferPointer), count |-> Field(TransferCount)]

Fails(status) ==
    /\ r4' = status
    /\ request' = NoCall
    /\ UNCHANGED <<nodes, mem, r2, r3, r7, hw, device, exited>>

\* Mutant: the registers have the answer before the block is written.
MutStat ==
    IF PathStatus # 0 THEN Fails(PathStatus)
    ELSE IF ~exists(nodes, Path) THEN Fails(mapFilesystemError("NotFound"))
    ELSE /\ r2' = Len(nodes[Path].data)
         /\ r3' = (IF IsFile(nodes, Path) THEN 0 ELSE 1)
         /\ mem' = IF FieldAt(StatType) /\ FieldAt(StatSize)
                   THEN [mem EXCEPT ![r2 + StatType] = r3', ![r2 + StatSize] = r2']
                   ELSE mem
         /\ r4' = IF FieldAt(StatSize) THEN 0 ELSE -5
         /\ request' = NoCall
         /\ UNCHANGED <<nodes, r7, hw, device, exited>>

\* The type is written before the place of the size is checked.
Stat ==
    LET size == Len(nodes[Path].data)
        type == IF IsFile(nodes, Path) THEN 0 ELSE 1
    IN IF PathStatus # 0 THEN Fails(PathStatus)
       ELSE IF ~exists(nodes, Path) THEN Fails(mapFilesystemError("NotFound"))
       ELSE IF ~FieldAt(StatType) THEN Fails(-5)
       ELSE IF ~FieldAt(StatSize)
       THEN /\ mem' = [mem EXCEPT ![r2 + StatType] = type]
            /\ r4' = -5
            /\ request' = [NoCall EXCEPT !.service = 30, !.base = r2]
            /\ UNCHANGED <<nodes, r2, r3, r7, hw, device, exited>>
       ELSE /\ mem' = [mem EXCEPT ![r2 + StatType] = type, ![r2 + StatSize] = size]
            /\ r2' = size
            /\ r3' = type
            /\ r4' = 0
            /\ request' = [NoCall EXCEPT !.service = 30, !.base = r2]
            /\ UNCHANGED <<nodes, r7, hw, device, exited>>

Read ==
    LET data == readFile(nodes, Path, Field(FileOffset), Field(TransferCount))
        at == Field(BufferPointer)
    IN IF CallStatus # 0 THEN Fails(CallStatus)
       ELSE IF ~IsFile(nodes, Path) THEN Fails(mapFilesystemError(FileError(nodes, Path)))
       ELSE /\ mem' = [a \in DOMAIN mem |->
                          IF a \in at .. at + Len(data) - 1 THEN data[a - at + 1]
                          ELSE mem[a]]
            /\ r2' = Len(data)
            /\ r4' = 0
            /\ request' = Asked(31)
            /\ UNCHANGED <<nodes, r3, r7, hw, device, exited>>

Write ==
    LET at == Field(BufferPointer)
        count == Field(TransferCount)
        result == writeFile(nodes, Path, Field(FileOffset),
                            [i \in 1 .. count |-> mem[at + i - 1]])
    IN IF CallStatus # 0 THEN Fails(CallStatus)
       ELSE /\ nodes' = result.nodes
            /\ r4' = mapFilesystemError(result.error)
            /\ r2' = IF result.error = "ok" THEN count ELSE r2
            /\ request' = Asked(32)
            /\ UNCHANGED <<mem, r3, r7, hw, device, exited>>

\* ProcessExitRuntimeService
Exit ==
    /\ r7' = r2
    /\ r4' = 0
    /\ exited' = TRUE
    /\ request' = NoCall
    /\ UNCHANGED <<nodes, mem, r2, r3, hw, device>>

\* HardwareRuntimeService: alignment, bus, device, and what the device throws.
HardwareStatus ==
    IF r2 \notin Registers THEN -2
    ELSE IF device = "none" THEN -3
    ELSE IF device = "broken" THEN -4
    ELSE 0

\* The device executed the write.
Written(status) ==
    /\ hw' = [hw EXCEPT ![r2] = r3]
    /\ r4' = status
    /\ request' = NoCall
    /\ UNCHANGED <<nodes, mem, r2, r3, r7, device, exited>>

\* Where the bus throws, the write may have been executed and its answer lost.
HardwareWrite ==
    \/ HardwareStatus # 0 /\ Fails(HardwareStatus)
    \/ HardwareStatus \in {0, -4} /\ Written(HardwareStatus)

HardwareRead ==
    IF HardwareStatus # 0 THEN Fails(HardwareStatus)
    ELSE /\ r2' = hw[r2]
         /\ r4' = 0
         /\ request' = NoCall
         /\ UNCHANGED <<nodes, mem, r3, r7, hw, device, exited>>

Services == {3, 20, 21, 30, 31, 32}

\* findService and the service's handle; the status always ends up in R4.
Int80(n) ==
    /\ ~exited
    /\ \/ n = 3 /\ Exit
       \/ n = 20 /\ HardwareWrite
       \/ n = 21 /\ HardwareRead
       \/ n = 30 /\ Stat
       \/ n = 31 /\ Read
       \/ n = 32 /\ Write
       \/ n \notin Services /\ Fails(-1)

\* A terminated process calls no more.
Gone == exited /\ UNCHANGED vars

Next ==
    \/ \E raw \in HostPaths : \/ HostCreateDirectory(raw)
                              \/ HostCreateDirectories(raw)
                              \/ \E d \in HostData : HostPutFile(raw, d)
    \/ DeviceChanges
    \/ \E m \in Images, ab \in Arguments : Prepare(m, ab[1], ab[2])
    \/ \E n \in Services \cup {33} : Int80(n)
    \/ Gone

Spec == Init /\ [][Next]_vars

-------------------------------------------------------------------------------

\* Types of the filesystem's map, the guest's memory and the registers.
TypeOK ==
    /\ DOMAIN nodes \subseteq Paths /\ IsFiniteSet(DOMAIN nodes)
    /\ \A p \in DOMAIN nodes : nodes[p] \in Node
    /\ mem \in [0 .. Window - 1 -> Int]
    /\ r2 \in Int /\ r3 \in Int /\ r4 \in Int /\ r7 \in Int
    /\ hw \in [Registers -> Int]
    /\ device \in {"none", "ok", "broken"}
    /\ exited \in BOOLEAN

\* Whatever host and guests do, failures half way included, nodes_ is a tree.
FilesystemIsTree == Tree(nodes)

\* A guest's call changes one file at most, inside the range it asked for or
\* behind the end the file had, and no guest memory but the buffer of FS_READ
\* and the two result fields of FS_STAT.
GuestWritesInRange ==
    [][\A n \in Services : Int80(n) =>
         /\ \A p \in DOMAIN nodes :
              /\ Len(nodes'[p].data) >= Len(nodes[p].data)
              /\ \A i \in DOMAIN nodes[p].data :
                   nodes'[p].data[i] # nodes[p].data[i] =>
                      /\ n = 32 /\ p = request'.path
                      /\ i \in request'.offset + 1 .. request'.offset + request'.count
         /\ \A a \in DOMAIN mem : mem'[a] # mem[a] =>
              \/ /\ n = 31
                 /\ a \in request'.buffer .. request'.buffer + request'.count - 1
              \/ n = 30 /\ a \in {request'.base + StatType, request'.base + StatSize}]_vars

\* A call that reports a failure leaves the result registers alone and the bytes
\* of every file; it may only have grown a file by zeros.  The devices are as
\* they were too, but for one case: after -4 from HARDWARE_WRITE, and no other
\* status, the register it named may have the value it was given.
FailureChangesNoData ==
    [][\A n \in Services : Int80(n) /\ r4' # 0 =>
         /\ UNCHANGED <<r2, r3, r7, exited>>
         /\ hw' # hw => n = 20 /\ r4' = -4 /\ hw' = [hw EXCEPT ![r2] = r3]
         /\ \A p \in DOMAIN nodes :
              \A i \in DOMAIN nodes'[p].data :
                nodes'[p].data[i] = IF i <= Len(nodes[p].data) THEN nodes[p].data[i]
                                    ELSE 0]_vars

\* What listings find that start at the root and go down n levels.
Found(ns, n) ==
    LET level[k \in 0 .. n] ==
          IF k = 0 THEN {<<>>}
          ELSE UNION {{Append(p, name) : name \in listDirectory(ns, p)} :
                      p \in {q \in level[k - 1] : IsDirectory(ns, q)}}
    IN UNION {level[k] : k \in 0 .. n}

\* Walking the listings from the root finds every node and nothing else.
ListingsFindEverything == Found(nodes, 1 + Cardinality(DOMAIN nodes)) = DOMAIN nodes
===============================================================================
