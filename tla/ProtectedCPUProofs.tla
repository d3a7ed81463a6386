-------------------------- MODULE ProtectedCPUProofs --------------------------
(***************************************************************************)
(* The stacks of ProtectedCPU are confined for every guest program, and    *)
(* with disciplined handlers every interrupt is transparent, for every     *)
(* size of the stacks and of the code.                                     *)
(***************************************************************************)
EXTENDS ProtectedCPU, TLAPS

\* The layout of MemoryMap.hpp in slots: the stacks follow each other.
LEMMA Layout ==
    /\ UBase = 1 /\ UEnd \in Nat /\ KBase = UEnd /\ KEnd \in Nat
    /\ UBase < UEnd /\ KBase < KEnd
    /\ FrameSlots = 4
BY ProtectedAssumption DEF UBase, UEnd, KBase, KEnd, FrameSlots

\* What pushInterruptFrame does, word by word.
LEMMA PushFrame ==
    ASSUME NEW s \in CpuStates, Confined(s), FrameFits(s), NEW ret \in Nat,
           NEW t, t = pushInterruptFrame(s, ret),
           NEW b, b = FrameBase(s)
    PROVE  /\ t \in CpuStates
           /\ Confined(t)
           /\ b \in Nat /\ b >= UBase /\ b + 4 <= KEnd
           /\ s.mode = "User" => b = s.ksp /\ b >= KBase
           /\ s.mode = "Kernel" => b = s.sp
           /\ t.mem[b] = ret
           /\ t.mem[b + 1] = s.flags
           /\ t.mem[b + 2] = privilegeLevelToRaw(s.mode)
           /\ t.mem[b + 3] = s.sp
           /\ \A a \in Addr : a \notin b .. b + 3 => t.mem[a] = s.mem[a]
           /\ t.sp = b + 4 /\ t.mode = "Kernel" /\ t.pc = s.pc
           /\ t.kstack <=> s.kstack \/ s.mode = "User"
           /\ t.ksp = IF t.kstack THEN t.sp ELSE s.ksp
<1>1. /\ b \in Nat /\ b >= UBase /\ b + 4 <= KEnd
      /\ s.mode = "User" => b = s.ksp /\ b >= KBase
      /\ s.mode = "Kernel" => b = s.sp
  BY Layout DEF FrameBase, FrameFits, CanPush, CpuStates, Confined,
                activeStackBase, activeStackEndExclusive
<1>2. /\ b \in Addr /\ b + 1 \in Addr /\ b + 2 \in Addr /\ b + 3 \in Addr
  BY <1>1, Layout DEF Addr
<1>3. privilegeLevelToRaw(s.mode) \in Int
  BY DEF privilegeLevelToRaw
<1> DEFINE m == [[[[s.mem EXCEPT ![b] = ret] EXCEPT ![b + 1] = s.flags]
                 EXCEPT ![b + 2] = privilegeLevelToRaw(s.mode)]
                 EXCEPT ![b + 3] = s.sp]
           onK == s.kstack \/ s.mode = "User"
           top == b + 4
           kp == IF onK THEN b + 4 ELSE s.ksp
<1>4. t = [s EXCEPT !.mem = m, !.sp = top, !.mode = "Kernel", !.kstack = onK,
                    !.ksp = kp]
  BY Layout DEF pushInterruptFrame, CpuStates
<1>5. m \in [Addr -> Int]
  BY <1>2, <1>3 DEF CpuStates
<1>6. /\ m[b] = ret /\ m[b + 1] = s.flags
      /\ m[b + 2] = privilegeLevelToRaw(s.mode) /\ m[b + 3] = s.sp
      /\ \A a \in Addr : a \notin b .. b + 3 => m[a] = s.mem[a]
  BY <1>1, <1>2 DEF CpuStates
<1>10. onK \in BOOLEAN
  BY Zenon DEF CpuStates
<1>11. kp \in Nat /\ kp = IF onK THEN b + 4 ELSE s.ksp
  BY <1>1 DEF CpuStates
<1>13. top \in Nat /\ top = b + 4
  BY <1>1
<1> HIDE DEF m, onK, kp, top
<1>7. t \in CpuStates
  BY <1>4, <1>5, <1>10, <1>11, <1>13 DEF CpuStates
<1>8. /\ t.sp = b + 4 /\ t.mode = "Kernel" /\ t.pc = s.pc /\ t.mem = m
      /\ t.kstack = onK
      /\ t.ksp = IF onK THEN b + 4 ELSE s.ksp
  BY <1>4, <1>11, <1>13 DEF CpuStates
<1>12. onK <=> s.kstack \/ s.mode = "User"
  BY DEF onK
<1>9. Confined(t)
  BY <1>1, <1>8, <1>12, Layout DEF Confined, activeStackBase, activeStackEndExclusive, CpuStates
<1> QED BY <1>1, <1>6, <1>7, <1>8, <1>9, <1>12

\* A frame that restoreInterruptFrame accepts leaves confined stacks.
LEMMA RestoreFrame ==
    ASSUME NEW s \in CpuStates, Confined(s), s.mode = "Kernel",
           NEW e, FrameRestorable(s, e),
           NEW t, t = restoreInterruptFrame(s)
    PROVE  /\ t \in CpuStates
           /\ Confined(t)
           /\ t.mem = s.mem
           /\ t.pc = s.mem[s.sp - 4] /\ t.flags = s.mem[s.sp - 3] % 16
           /\ t.mode = RestoredMode(s) /\ t.sp = s.mem[s.sp - 1]
           /\ t.kstack <=> s.kstack /\ t.mode # "User"
           /\ t.ksp = IF ~s.kstack THEN s.ksp
                      ELSE IF t.mode = "User" THEN s.sp - 4 ELSE t.sp
<1>1. /\ s.sp \in Nat /\ s.ksp \in Nat
      /\ s.sp >= activeStackBase(s) + 4 /\ s.sp <= KEnd
  BY Layout DEF FrameRestorable, CanPop, CpuStates, activeStackBase,
                activeStackEndExclusive
<1>2. /\ s.sp - 4 \in Addr /\ s.sp - 3 \in Addr
      /\ s.sp - 2 \in Addr /\ s.sp - 1 \in Addr
  BY <1>1, Layout DEF Addr, activeStackBase
<1>3. /\ ReturnAddress(s) \in Nat /\ SavedFlags(s) % 16 \in 0 .. 15
      /\ SavedSp(s) \in Nat
  <2>1. /\ ReturnAddress(s) \in Int /\ SavedFlags(s) \in Int /\ SavedSp(s) \in Int
    BY <1>2 DEF ReturnAddress, SavedFlags, SavedSp, CpuStates
  <2>2. ReturnAddress(s) >= 0 /\ SavedSp(s) >= 0
    BY <2>1, Layout DEF FrameRestorable
  <2> QED BY <2>1, <2>2
<1> DEFINE toUser == RestoredMode(s) = "User"
           ks == s.kstack /\ ~toUser
           kp == IF ~s.kstack THEN s.ksp
                 ELSE IF toUser THEN s.sp - 4 ELSE SavedSp(s)
<1>4. RestoredMode(s) \in {"User", "Kernel"}
  BY DEF RestoredMode
<1>5. ks \in BOOLEAN
  BY Zenon DEF CpuStates
<1>6. kp \in Nat
  BY <1>1, <1>3, Layout DEF activeStackBase
<1>7. t = [s EXCEPT !.flags = SavedFlags(s) % 16, !.mode = RestoredMode(s),
                    !.pc = ReturnAddress(s), !.sp = SavedSp(s),
                    !.kstack = ks, !.ksp = kp]
  BY Layout DEF restoreInterruptFrame, CpuStates
<1>8. /\ ks <=> s.kstack /\ RestoredMode(s) # "User"
      /\ kp = IF ~s.kstack THEN s.ksp
              ELSE IF RestoredMode(s) = "User" THEN s.sp - 4 ELSE SavedSp(s)
  OBVIOUS
<1> HIDE DEF ks, kp
<1>9. /\ t \in CpuStates
      /\ t.mem = s.mem /\ t.flags = SavedFlags(s) % 16
      /\ t.mode = RestoredMode(s) /\ t.pc = ReturnAddress(s)
      /\ t.sp = SavedSp(s) /\ t.kstack = ks /\ t.ksp = kp
  BY <1>3, <1>4, <1>5, <1>6, <1>7 DEF CpuStates
<1>10. SavedSp(s) \in IF RestoredMode(s) = "User" THEN UBase .. UEnd
                      ELSE IF s.kstack THEN KBase .. KEnd
                      ELSE UBase .. KEnd
  BY DEF FrameRestorable
<1>11. /\ t.mode = "User" => ~t.kstack
       /\ t.kstack => t.ksp = t.sp
  BY <1>8, <1>9
<1>12. t.sp \in activeStackBase(t) .. activeStackEndExclusive(t)
  BY <1>4, <1>8, <1>9, <1>10, Layout DEF activeStackBase, activeStackEndExclusive
<1>13. t.ksp \in KBase .. KEnd
  BY <1>1, <1>4, <1>8, <1>9, <1>10, Layout DEF activeStackBase, Confined
<1>14. Confined(t)
  BY <1>11, <1>12, <1>13 DEF Confined
<1> QED BY <1>8, <1>9, <1>14 DEF ReturnAddress, SavedFlags, SavedSp

\* The stack instructions: pushValue and the moves of popValue.
LEMMA MoveSp ==
    ASSUME NEW s \in CpuStates, Confined(s), NEW sp \in Nat,
           sp \in activeStackBase(s) .. activeStackEndExclusive(s),
           NEW pc \in Nat,
           NEW t, t = At(MovedSp(s, sp), pc)
    PROVE  /\ t \in CpuStates /\ Confined(t)
           /\ t.mem = s.mem /\ t.sp = sp /\ t.mode = s.mode
           /\ t.kstack = s.kstack /\ t.flags = s.flags
           /\ ~s.kstack => t.ksp = s.ksp
<1> DEFINE kp == IF s.kstack THEN sp ELSE s.ksp
<1>1. kp \in Nat /\ kp = IF s.kstack THEN sp ELSE s.ksp
  BY DEF CpuStates
<1>2. t = [s EXCEPT !.sp = sp, !.ksp = kp, !.pc = pc]
  BY DEF MovedSp, At, CpuStates
<1> HIDE DEF kp
<1>3. /\ t \in CpuStates
      /\ t.mem = s.mem /\ t.sp = sp /\ t.mode = s.mode
      /\ t.kstack = s.kstack /\ t.flags = s.flags /\ t.ksp = kp
  BY <1>1, <1>2 DEF CpuStates
<1>4. Confined(t)
  BY <1>1, <1>3, Layout DEF Confined, activeStackBase, activeStackEndExclusive,
                            CpuStates
<1> QED BY <1>1, <1>3, <1>4

LEMMA PushWord ==
    ASSUME NEW s \in CpuStates, Confined(s), CanPush(s, 1),
           NEW v \in Int, NEW pc \in Nat,
           NEW t, t = At(pushValue(s, v), pc)
    PROVE  /\ t \in CpuStates /\ Confined(t)
           /\ \A a \in Addr : a # s.sp => t.mem[a] = s.mem[a]
           /\ t.sp = s.sp + 1 /\ t.mode = s.mode
           /\ t.kstack = s.kstack
           /\ ~s.kstack => t.ksp = s.ksp
<1> DEFINE m == [s.mem EXCEPT ![s.sp] = v]
           u == [s EXCEPT !.mem = m]
<1>1. s.sp \in Addr
  BY Layout DEF CanPush, Addr, activeStackBase, activeStackEndExclusive, CpuStates
<1>2. m \in [Addr -> Int] /\ \A a \in Addr : a # s.sp => m[a] = s.mem[a]
  BY <1>1 DEF CpuStates
<1>3. t = At(MovedSp(u, s.sp + 1), pc)
  BY DEF pushValue
<1> HIDE DEF m
<1>4. /\ u \in CpuStates /\ u.mem = m /\ u.sp = s.sp /\ u.mode = s.mode
      /\ u.kstack = s.kstack /\ u.ksp = s.ksp
  BY <1>2 DEF CpuStates
<1> HIDE DEF u
<1>5. Confined(u)
  BY <1>4 DEF Confined, activeStackBase, activeStackEndExclusive
<1>6. /\ s.sp + 1 \in Nat
      /\ s.sp + 1 \in activeStackBase(u) .. activeStackEndExclusive(u)
  BY <1>4, Layout DEF CanPush, activeStackBase, activeStackEndExclusive, CpuStates
<1>7. /\ t \in CpuStates /\ Confined(t)
      /\ t.mem = u.mem /\ t.sp = s.sp + 1 /\ t.mode = u.mode
      /\ t.kstack = u.kstack
      /\ ~u.kstack => t.ksp = u.ksp
  BY <1>3, <1>4, <1>5, <1>6, MoveSp
<1> QED BY <1>2, <1>4, <1>7

LEMMA Within ==
    ASSUME NEW b \in Nat, NEW top \in Nat, b >= UBase, b + 4 <= top
    PROVE  /\ b \in UBase .. top - 1 /\ b + 1 \in UBase .. top - 1
           /\ b + 2 \in UBase .. top - 1 /\ b + 3 \in UBase .. top - 1
BY Layout

\* Suspended contexts are safe from a step that writes above them only.
LEMMA Undisturbed ==
    ASSUME ProtectedInv, Disciplined, c' \in CpuStates, frames' = frames,
           c'.mode = c.mode, c'.kstack = c.kstack, ~c.kstack => c'.ksp = c.ksp,
           \A i \in DOMAIN frames : frames[i].base + FrameSlots <= c'.sp,
           frames # <<>> =>
               \A a \in Addr : a # 0 /\ a < c.sp => c'.mem[a] = c.mem[a]
    PROVE  FramesNested' /\ SuspendedIntact'
<1>1. FramesNested /\ SuspendedIntact /\ CpuTypeOK /\ Confined(c)
  BY DEF ProtectedInv, StacksConfined
<1>2. c.sp \in Nat /\ c.sp <= KEnd
  BY <1>1, Layout DEF CpuTypeOK, CpuStates, Confined, activeStackEndExclusive,
                      activeStackBase
<1>3. FramesNested'
  BY <1>1 DEF FramesNested
<1>4. ASSUME NEW i \in DOMAIN frames
      PROVE  LET f == frames[i]
             IN /\ c'.mem[f.base] = f.pc
                /\ c'.mem[f.base + 1] = f.flags
                /\ c'.mem[f.base + 2] = privilegeLevelToRaw(f.mode)
                /\ c'.mem[f.base + 3] = f.sp
                /\ \A a \in UBase .. f.sp - 1 : c'.mem[a] = f.stack[a]
  <2> DEFINE f == frames[i]
  <2>1. f \in Suspensions
    BY <1>1, <1>4 DEF CpuTypeOK
  <2>2. /\ f.base \in Nat /\ f.base >= UBase /\ f.base + 4 <= c.sp
        /\ f.sp \in Nat /\ f.sp <= f.base
    BY <1>1, <1>4, <2>1, Layout DEF FramesNested, Suspensions
  <2>3. \A a \in Addr : a # 0 /\ a < c.sp => c'.mem[a] = c.mem[a]
    BY <1>4
  <2>4. /\ c.mem[f.base] = f.pc
        /\ c.mem[f.base + 1] = f.flags
        /\ c.mem[f.base + 2] = privilegeLevelToRaw(f.mode)
        /\ c.mem[f.base + 3] = f.sp
        /\ \A a \in UBase .. f.sp - 1 : c.mem[a] = f.stack[a]
    BY <1>1, <1>4 DEF SuspendedIntact
  <2> HIDE DEF f
  <2>5. \A a \in UBase .. c.sp - 1 : c'.mem[a] = c.mem[a]
    BY <1>2, <2>3, Layout DEF Addr
  <2>6. \A a \in UBase .. f.sp - 1 : c'.mem[a] = f.stack[a]
    BY <1>2, <2>2, <2>4, <2>5, Layout
  <2>8. /\ f.base \in UBase .. c.sp - 1 /\ f.base + 1 \in UBase .. c.sp - 1
        /\ f.base + 2 \in UBase .. c.sp - 1 /\ f.base + 3 \in UBase .. c.sp - 1
    BY <1>2, <2>2, Within
  <2>7. /\ c'.mem[f.base] = f.pc
        /\ c'.mem[f.base + 1] = f.flags
        /\ c'.mem[f.base + 2] = privilegeLevelToRaw(f.mode)
        /\ c'.mem[f.base + 3] = f.sp
    BY <2>4, <2>5, <2>8, Zenon
  <2> QED BY <2>6, <2>7 DEF f
<1>5. SuspendedIntact'
  BY <1>4 DEF SuspendedIntact
<1> QED BY <1>3, <1>5

\* A step that keeps the history.
LEMMA Settled ==
    ASSUME ProtectedInv, c' \in CpuStates, Confined(c'), frames' = frames,
           enabled' \in BOOLEAN, pending' \in Seq(Handlers),
           halted' \in BOOLEAN, error' \in BOOLEAN, count' \in Nat,
           c'.mode = c.mode, c'.kstack = c.kstack, ~c.kstack => c'.ksp = c.ksp,
           Disciplined =>
              /\ \A i \in DOMAIN frames : frames[i].base + FrameSlots <= c'.sp
              /\ frames # <<>> =>
                    \A a \in Addr : a # 0 /\ a < c.sp => c'.mem[a] = c.mem[a]
    PROVE  ProtectedInv'
<1>1. CpuTypeOK'
  BY DEF CpuTypeOK, ProtectedInv
<1>2. StacksConfined'
  BY DEF StacksConfined
<1>3. Disciplined => FramesNested' /\ SuspendedIntact'
  BY Undisturbed
<1>4. ~Disciplined => frames' = <<>>
  BY DEF ProtectedInv
<1> QED BY <1>1, <1>2, <1>3, <1>4 DEF ProtectedInv

\* Under the invariant the floor bounds every suspended frame.
LEMMA AboveFloor ==
    ASSUME ProtectedInv, Disciplined, NEW i \in DOMAIN frames
    PROVE  /\ frames[i].base \in Nat /\ frames[i].base >= UBase
           /\ frames[i].base + FrameSlots <= c.sp
           /\ Floor \in Nat
           /\ frames[i].base + FrameSlots <= Floor
           /\ c.mode = "Kernel"
<1>1. FramesNested /\ CpuTypeOK
  BY DEF ProtectedInv
<1>2. /\ frames \in Seq(Suspensions) /\ Len(frames) \in Nat
      /\ i \in 1 .. Len(frames) /\ Len(frames) \in DOMAIN frames
  BY <1>1 DEF CpuTypeOK
<1>3. \A j \in DOMAIN frames : frames[j].base \in Nat
  <2>1. \A j \in DOMAIN frames : frames[j] \in Suspensions
    BY <1>2
  <2> QED BY <2>1 DEF Suspensions
<1>4. frames # <<>>
  BY <1>2
<1>5. /\ frames[i].base >= UBase /\ frames[i].base + FrameSlots <= c.sp
      /\ i < Len(frames) => frames[i].base + FrameSlots <= frames[Len(frames)].base
  BY <1>1, <1>2 DEF FramesNested
<1>6. Floor = frames[Len(frames)].base + 4
  BY <1>4, Layout DEF Floor
<1>7. c.mode = "Kernel"
  BY <1>1, <1>4 DEF FramesNested, CpuTypeOK, CpuStates
<1> QED BY <1>2, <1>3, <1>5, <1>6, <1>7, Layout

LEMMA WordsAreSequence ==
    ASSUME NEW n \in Nat, NEW w \in [1 .. n -> Int]
    PROVE  w \in Seq(Int)
OBVIOUS

\* An interrupt suspends the current context on top of the others.
LEMMA Enter ==
    ASSUME ProtectedInv, FrameFits(c), NEW ret \in Nat,
           NEW t, t = pushInterruptFrame(c, ret),
           c' \in CpuStates, Confined(c'), frames' = Entered(ret),
           enabled' \in BOOLEAN, pending' \in Seq(Handlers),
           halted' \in BOOLEAN, error' \in BOOLEAN, count' \in Nat,
           c'.sp = t.sp, c'.mode = t.mode, c'.kstack = t.kstack, c'.ksp = t.ksp,
           \A a \in Addr : a # 0 => c'.mem[a] = t.mem[a]
    PROVE  ProtectedInv'
<1> DEFINE b == FrameBase(c)
           g == Suspended(ret)
<1>1. /\ CpuTypeOK /\ Confined(c) /\ c \in CpuStates /\ frames \in Seq(Suspensions)
      /\ ~Disciplined => frames = <<>>
  BY DEF ProtectedInv, StacksConfined, CpuTypeOK
<1>2. /\ t \in CpuStates
      /\ b \in Nat /\ b >= UBase /\ b + 4 <= KEnd
      /\ c.mode = "User" => b = c.ksp /\ b >= KBase
      /\ c.mode = "Kernel" => b = c.sp
      /\ t.mem[b] = ret
      /\ t.mem[b + 1] = c.flags
      /\ t.mem[b + 2] = privilegeLevelToRaw(c.mode)
      /\ t.mem[b + 3] = c.sp
      /\ \A a \in Addr : a \notin b .. b + 3 => t.mem[a] = c.mem[a]
      /\ t.sp = b + 4 /\ t.mode = "Kernel"
      /\ t.kstack <=> c.kstack \/ c.mode = "User"
      /\ t.ksp = IF t.kstack THEN t.sp ELSE c.ksp
  BY <1>1, PushFrame
<1>3. /\ c.sp \in Nat /\ UBase <= c.sp /\ c.sp <= KEnd
      /\ c.mode = "User" => c.sp <= UEnd
      /\ c.mode \in {"User", "Kernel"}
      /\ c.flags \in 0 .. 15
  BY <1>1, Layout DEF Confined, activeStackBase, activeStackEndExclusive, CpuStates
<1>4. /\ g.base = b /\ g.pc = ret /\ g.flags = c.flags /\ g.mode = c.mode
      /\ g.sp = c.sp
      /\ \A a \in UBase .. c.sp - 1 : g.stack[a] = c.mem[a]
  BY DEF Suspended
<1>5. g \in Suspensions
  <2> DEFINE st == [a \in UBase .. c.sp - 1 |-> c.mem[a]]
  <2>1. \A a \in UBase .. c.sp - 1 : c.mem[a] \in Int
    BY <1>1, <1>3, Layout DEF CpuStates, Addr
  <2>2. st \in Seq(Int)
    <3>1. c.sp - 1 \in Nat
      BY <1>3, Layout
    <3>2. st \in [1 .. c.sp - 1 -> Int]
      BY <2>1, Layout
    <3> HIDE DEF st
    <3> QED BY <3>1, <3>2, WordsAreSequence
  <2> HIDE DEF st
  <2>3. g = [base |-> b, pc |-> ret, flags |-> c.flags, mode |-> c.mode,
             sp |-> c.sp, stack |-> st]
    BY DEF Suspended, st
  <2> QED BY <1>2, <1>3, <2>2, <2>3 DEF Suspensions
<1> HIDE DEF g, b
<1>6. frames' = IF Disciplined THEN Append(frames, g) ELSE <<>>
  BY DEF Entered, g
<1>7. frames' \in Seq(Suspensions)
  BY <1>1, <1>5, <1>6
<1>8. CpuTypeOK' /\ StacksConfined'
  BY <1>7 DEF CpuTypeOK, StacksConfined
<1>9. CASE ~Disciplined
  BY <1>6, <1>8, <1>9 DEF ProtectedInv
<1>10. CASE Disciplined
  <2>1. FramesNested /\ SuspendedIntact
    BY <1>10 DEF ProtectedInv
  <2> DEFINE n == Len(frames)
  <2>2. /\ n \in Nat /\ DOMAIN frames = 1 .. n
        /\ DOMAIN frames' = 1 .. n + 1
        /\ frames'[n + 1] = g
        /\ \A i \in 1 .. n : frames'[i] = frames[i] /\ frames[i] \in Suspensions
    BY <1>1, <1>5, <1>6, <1>10
  <2> HIDE DEF n
  <2>3. \A i \in 1 .. n : /\ frames[i].base \in Nat /\ frames[i].sp \in Nat
                         /\ frames[i].base >= UBase
                         /\ frames[i].base + 4 <= c.sp
                         /\ frames[i].sp <= frames[i].base
                         /\ c.mode = "Kernel"
    <3> TAKE i \in 1 .. n
    <3>1. frames[i].base \in Nat /\ frames[i].sp \in Nat /\ frames[i].mode \in {"User", "Kernel"}
      <4>1. frames[i] \in Suspensions
        BY <2>2
      <4> QED BY <4>1 DEF Suspensions
    <3>2. /\ frames[i].base >= UBase /\ frames[i].base + FrameSlots <= c.sp
          /\ frames[i].mode = "User" => frames[i].base = KBase /\ frames[i].sp \in UBase .. UEnd
          /\ frames[i].mode = "Kernel" => frames[i].sp = frames[i].base
      BY <2>1, <2>2 DEF FramesNested
    <3>3. frames # <<>>
      BY <2>2
    <3>4. c.mode = "Kernel"
      BY <1>3, <2>1, <3>3 DEF FramesNested
    <3> QED BY <3>1, <3>2, <3>4, Layout
  <2>4. \A i \in 1 .. n : frames[i].base + 4 <= b
    BY <1>2, <2>3
  <2>5. c'.mode = "Kernel" /\ c'.sp = b + 4
    BY <1>2
  <2>6. FramesNested'
    <3>1. frames' # <<>>
      BY <2>2
    <3>2. c'.kstack <=> frames'[1].mode = "User"
      <4>1. CASE n = 0
        <5>1. frames = <<>> /\ ~c.kstack
          BY <2>1, <2>2, <4>1 DEF FramesNested
        <5> QED BY <1>2, <1>4, <2>2, <4>1, <5>1
      <4>2. CASE n # 0
        <5>1. 1 \in 1 .. n /\ c.mode = "Kernel" /\ frames # <<>>
          BY <2>2, <2>3, <4>2
        <5>2. c'.kstack <=> c.kstack
          BY <1>2, <5>1
        <5> QED BY <2>1, <2>2, <5>1, <5>2 DEF FramesNested
      <4> QED BY <4>1, <4>2
    <3>3. ~c'.kstack => c'.ksp = KBase
      BY <1>2, <2>1 DEF FramesNested
    <3>4. c.mode = "User" => b = KBase /\ n = 0
      <4> HAVE c.mode = "User"
      <4>1. frames = <<>> /\ ~c.kstack /\ c.ksp = KBase
        BY <1>1, <2>1 DEF FramesNested, Confined
      <4> QED BY <1>2, <4>1 DEF n
    <3>5. ASSUME NEW i \in 1 .. n + 1
          PROVE  /\ frames'[i].base >= UBase
                 /\ frames'[i].base + FrameSlots <= c'.sp
                 /\ frames'[i].mode = "User" =>
                       i = 1 /\ frames'[i].base = KBase /\ frames'[i].sp \in UBase .. UEnd
                 /\ frames'[i].mode = "Kernel" => frames'[i].sp = frames'[i].base
      <4>1. CASE i = n + 1
        BY <1>2, <1>3, <1>4, <2>2, <2>5, <3>4, <4>1, Layout
      <4>2. CASE i \in 1 .. n
        <5>1. /\ frames'[i] = frames[i]
              /\ frames[i].mode = "User" =>
                       i = 1 /\ frames[i].base = KBase /\ frames[i].sp \in UBase .. UEnd
              /\ frames[i].mode = "Kernel" => frames[i].sp = frames[i].base
          BY <2>1, <2>2, <4>2 DEF FramesNested
        <5>2. frames[i].base >= UBase /\ frames[i].base + 4 <= b /\ frames[i].base \in Nat
          BY <2>3, <2>4, <4>2
        <5> QED BY <1>2, <2>5, <5>1, <5>2, Layout
      <4> QED BY <2>2, <4>1, <4>2
    <3>6. ASSUME NEW i \in 1 .. n + 1, NEW j \in 1 .. n + 1, i < j
          PROVE  frames'[i].base + FrameSlots <= frames'[j].base
      <4>1. CASE j = n + 1
        BY <1>4, <2>2, <2>4, <3>6, <4>1, Layout
      <4>2. CASE j \in 1 .. n
        BY <2>1, <2>2, <3>6, <4>2 DEF FramesNested
      <4> QED BY <2>2, <4>1, <4>2
    <3> QED BY <2>2, <2>5, <3>1, <3>2, <3>3, <3>5, <3>6 DEF FramesNested
  <2>7. SuspendedIntact'
    <3>1. \A a \in Addr : a # 0 /\ a < b => c'.mem[a] = c.mem[a]
      BY <1>2 DEF Addr
    <3>2. \A a \in UBase .. b - 1 : c'.mem[a] = c.mem[a]
      BY <1>2, <3>1, Layout DEF Addr
    <3>3. ASSUME NEW i \in 1 .. n
          PROVE  LET f == frames[i]
                 IN /\ c'.mem[f.base] = f.pc
                    /\ c'.mem[f.base + 1] = f.flags
                    /\ c'.mem[f.base + 2] = privilegeLevelToRaw(f.mode)
                    /\ c'.mem[f.base + 3] = f.sp
                    /\ \A a \in UBase .. f.sp - 1 : c'.mem[a] = f.stack[a]
      <4> DEFINE f == frames[i]
      <4>1. /\ f.base \in Nat /\ f.base >= UBase /\ f.base + 4 <= b
            /\ f.sp \in Nat /\ f.sp <= f.base
        BY <2>3, <2>4
      <4>2. /\ c.mem[f.base] = f.pc
            /\ c.mem[f.base + 1] = f.flags
            /\ c.mem[f.base + 2] = privilegeLevelToRaw(f.mode)
            /\ c.mem[f.base + 3] = f.sp
            /\ \A a \in UBase .. f.sp - 1 : c.mem[a] = f.stack[a]
        BY <2>1, <2>2 DEF SuspendedIntact
      <4> HIDE DEF f
      <4>3. /\ f.base \in UBase .. b - 1 /\ f.base + 1 \in UBase .. b - 1
            /\ f.base + 2 \in UBase .. b - 1 /\ f.base + 3 \in UBase .. b - 1
        BY <1>2, <4>1, Within
      <4>4. /\ c'.mem[f.base] = f.pc
            /\ c'.mem[f.base + 1] = f.flags
            /\ c'.mem[f.base + 2] = privilegeLevelToRaw(f.mode)
            /\ c'.mem[f.base + 3] = f.sp
        BY <3>2, <4>2, <4>3, ZenonT(40)
      <4>5. \A a \in UBase .. f.sp - 1 : c'.mem[a] = f.stack[a]
        BY <1>2, <3>2, <4>1, <4>2, Layout
      <4> QED BY <4>4, <4>5 DEF f
    <3>4. /\ c'.mem[g.base] = g.pc
          /\ c'.mem[g.base + 1] = g.flags
          /\ c'.mem[g.base + 2] = privilegeLevelToRaw(g.mode)
          /\ c'.mem[g.base + 3] = g.sp
      <4>1. /\ b \in Addr /\ b + 1 \in Addr /\ b + 2 \in Addr /\ b + 3 \in Addr
            /\ b # 0 /\ b + 1 # 0 /\ b + 2 # 0 /\ b + 3 # 0
        BY <1>2, Layout DEF Addr
      <4> QED BY <1>2, <1>4, <4>1
    <3>5. \A a \in UBase .. g.sp - 1 : c'.mem[a] = g.stack[a]
      <4>1. c.sp <= b
        BY <1>2, <1>3, Layout
      <4> QED BY <1>2, <1>3, <1>4, <3>2, <4>1, Layout
    <3>6. \A i \in 1 .. n + 1 : i = n + 1 \/ i \in 1 .. n
      BY <2>2
    <3>7. ASSUME NEW i \in 1 .. n + 1
          PROVE  LET f == frames'[i]
                 IN /\ c'.mem[f.base] = f.pc
                    /\ c'.mem[f.base + 1] = f.flags
                    /\ c'.mem[f.base + 2] = privilegeLevelToRaw(f.mode)
                    /\ c'.mem[f.base + 3] = f.sp
                    /\ \A a \in UBase .. f.sp - 1 : c'.mem[a] = f.stack[a]
      <4>1. CASE i = n + 1
        <5>1. frames'[i] = g
          BY <2>2, <4>1
        <5> QED BY <3>4, <3>5, <5>1, ZenonT(40)
      <4>2. CASE i \in 1 .. n
        <5>1. frames'[i] = frames[i]
          BY <2>2, <4>2
        <5> QED BY <3>3, <4>2, <5>1, ZenonT(40)
      <4> QED BY <3>6, <4>1, <4>2
    <3> QED BY <2>2, <3>7, ZenonT(40) DEF SuspendedIntact
  <2> QED BY <1>8, <1>10, <2>6, <2>7 DEF ProtectedInv
<1> QED BY <1>9, <1>10

\* IRET of a disciplined handler resumes the innermost suspended context.
LEMMA Return ==
    ASSUME ProtectedInv, Disciplined, c.mode = "Kernel", frames # <<>>,
           c.sp = Floor, FrameRestorable(c, FALSE),
           NEW f, f = frames[Len(frames)],
           NEW t, t = restoreInterruptFrame(c)
    PROVE  /\ t.pc = f.pc /\ t.flags = f.flags /\ t.mode = f.mode /\ t.sp = f.sp
           /\ t.mem = c.mem
           /\ t.kstack <=> c.kstack /\ f.mode # "User"
           /\ ~t.kstack => t.ksp = KBase
<1>1. /\ CpuTypeOK /\ Confined(c) /\ c \in CpuStates
      /\ FramesNested /\ SuspendedIntact /\ frames \in Seq(Suspensions)
  BY DEF ProtectedInv, StacksConfined, CpuTypeOK
<1>2. Len(frames) \in DOMAIN frames
  BY <1>1
<1>3. f \in Suspensions
  BY <1>1, <1>2
<1>4. /\ f.base \in Nat /\ f.flags \in 0 .. 15 /\ f.mode \in {"User", "Kernel"}
  BY <1>3 DEF Suspensions
<1>5. /\ c.sp = f.base + 4
  BY Layout DEF Floor
<1>6. /\ c.sp - 4 = f.base /\ c.sp - 3 = f.base + 1
      /\ c.sp - 2 = f.base + 2 /\ c.sp - 1 = f.base + 3
  BY <1>4, <1>5
<1>7. /\ c.mem[f.base] = f.pc
      /\ c.mem[f.base + 1] = f.flags
      /\ c.mem[f.base + 2] = privilegeLevelToRaw(f.mode)
      /\ c.mem[f.base + 3] = f.sp
  BY <1>1, <1>2 DEF SuspendedIntact
<1>8. RestoredMode(c) = f.mode
  BY <1>4, <1>6, <1>7 DEF RestoredMode, SavedPrivilege, privilegeLevelToRaw
<1>9. /\ t.mem = c.mem
      /\ t.pc = c.mem[c.sp - 4] /\ t.flags = c.mem[c.sp - 3] % 16
      /\ t.mode = RestoredMode(c) /\ t.sp = c.mem[c.sp - 1]
      /\ t.kstack <=> c.kstack /\ t.mode # "User"
      /\ t.ksp = IF ~c.kstack THEN c.ksp
                 ELSE IF t.mode = "User" THEN c.sp - 4 ELSE t.sp
  BY <1>1, RestoreFrame
<1>10. f.flags % 16 = f.flags
  BY <1>4
<1>11. f.mode = "User" => f.base = KBase
  BY <1>1, <1>2 DEF FramesNested
<1>12. ~c.kstack => c.ksp = KBase
  BY <1>1 DEF FramesNested
<1> QED BY <1>4, <1>6, <1>7, <1>8, <1>9, <1>10, <1>11, <1>12

\* The invariant after IRET.
LEMMA ReturnInv ==
    ASSUME ProtectedInv, CpuTypeOK', Confined(c'),
           Disciplined => frames # <<>> /\ c.sp = Floor,
           c.mode = "Kernel", FrameRestorable(c, FALSE),
           c' = restoreInterruptFrame(c), frames' = Returned
    PROVE  ProtectedInv'
<1>1. CASE ~Disciplined
  <2>1. frames = <<>> /\ frames' = <<>>
    BY <1>1 DEF ProtectedInv, Returned
  <2> QED BY <1>1, <2>1 DEF ProtectedInv, StacksConfined
<1>2. CASE Disciplined
  <2>1. /\ CpuTypeOK /\ FramesNested /\ SuspendedIntact
        /\ frames \in Seq(Suspensions) /\ frames # <<>>
    BY <1>2 DEF ProtectedInv, CpuTypeOK
  <2> DEFINE n == Len(frames) - 1
             f == frames[Len(frames)]
  <2>2. /\ n \in Nat /\ DOMAIN frames = 1 .. n + 1 /\ f = frames[n + 1]
        /\ DOMAIN frames' = 1 .. n
        /\ \A i \in 1 .. n : frames'[i] = frames[i]
        /\ n = 0 => frames' = <<>>
    BY <2>1 DEF Returned
  <2>3. /\ c'.mode = f.mode /\ c'.sp = f.sp
        /\ c'.mem = c.mem
        /\ c'.kstack <=> c.kstack /\ f.mode # "User"
        /\ ~c'.kstack => c'.ksp = KBase
    BY <1>2, Return
  <2> HIDE DEF n, f
  <2>4. /\ f.mode \in {"User", "Kernel"}
        /\ f.mode = "User" => n = 0
        /\ f.mode = "Kernel" => f.sp = f.base
    <3>1. f \in Suspensions /\ n + 1 \in DOMAIN frames
      BY <2>1, <2>2
    <3>2. /\ f.mode = "User" => n + 1 = 1
          /\ f.mode = "Kernel" => f.sp = f.base
      BY <2>1, <2>2, <3>1 DEF FramesNested
    <3> QED BY <2>2, <3>1, <3>2 DEF Suspensions
  <2>5. FramesNested'
    <3>1. c'.mode = "User" => frames' = <<>>
      BY <2>2, <2>3, <2>4
    <3>2. c'.kstack <=> frames' # <<>> /\ frames'[1].mode = "User"
      <4>1. c.kstack <=> frames[1].mode = "User"
        BY <2>1 DEF FramesNested
      <4>2. CASE n = 0
        BY <2>2, <2>3, <4>1, <4>2
      <4>3. CASE n # 0
        <5>1. 1 \in 1 .. n /\ frames' # <<>> /\ frames'[1] = frames[1]
          BY <2>2, <4>3
        <5> QED BY <2>3, <2>4, <4>1, <4>3, <5>1
      <4> QED BY <4>2, <4>3
    <3>3. ASSUME NEW i \in 1 .. n
          PROVE  /\ frames'[i].base >= UBase
                 /\ frames'[i].base + FrameSlots <= c'.sp
                 /\ frames'[i].mode = "User" =>
                       i = 1 /\ frames'[i].base = KBase /\ frames'[i].sp \in UBase .. UEnd
                 /\ frames'[i].mode = "Kernel" => frames'[i].sp = frames'[i].base
      <4>1. i \in DOMAIN frames /\ n + 1 \in DOMAIN frames /\ i < n + 1 /\ n # 0
        BY <2>2
      <4>2. frames[i].base + FrameSlots <= f.base
        BY <2>1, <2>2, <4>1 DEF FramesNested
      <4>3. c'.sp = f.base
        BY <2>3, <2>4, <4>1
      <4>4. /\ frames[i].base >= UBase
            /\ frames[i].mode = "User" =>
                  i = 1 /\ frames[i].base = KBase /\ frames[i].sp \in UBase .. UEnd
            /\ frames[i].mode = "Kernel" => frames[i].sp = frames[i].base
        BY <2>1, <4>1 DEF FramesNested
      <4> QED BY <2>2, <4>2, <4>3, <4>4
    <3>4. ASSUME NEW i \in 1 .. n, NEW j \in 1 .. n, i < j
          PROVE  frames'[i].base + FrameSlots <= frames'[j].base
      <4>1. i \in DOMAIN frames /\ j \in DOMAIN frames
        BY <2>2
      <4> QED BY <2>1, <2>2, <3>4, <4>1 DEF FramesNested
    <3> QED BY <2>2, <2>3, <3>1, <3>2, <3>3, <3>4 DEF FramesNested
  <2>6. SuspendedIntact'
    <3>1. ASSUME NEW i \in 1 .. n
          PROVE  LET h == frames'[i]
                 IN /\ c'.mem[h.base] = h.pc
                    /\ c'.mem[h.base + 1] = h.flags
                    /\ c'.mem[h.base + 2] = privilegeLevelToRaw(h.mode)
                    /\ c'.mem[h.base + 3] = h.sp
                    /\ \A a \in UBase .. h.sp - 1 : c'.mem[a] = h.stack[a]
      <4>1. i \in DOMAIN frames /\ frames'[i] = frames[i]
        BY <2>2
      <4>2. LET h == frames[i]
            IN /\ c.mem[h.base] = h.pc
               /\ c.mem[h.base + 1] = h.flags
               /\ c.mem[h.base + 2] = privilegeLevelToRaw(h.mode)
               /\ c.mem[h.base + 3] = h.sp
               /\ \A a \in UBase .. h.sp - 1 : c.mem[a] = h.stack[a]
        BY <2>1, <4>1, Zenon DEF SuspendedIntact
      <4>3. c'.mem = c.mem
        BY <2>3
      <4> QED BY <4>1, <4>2, <4>3, Zenon
    <3> QED BY <2>2, <3>1, Zenon DEF SuspendedIntact
  <2> QED BY <1>2, <2>5, <2>6 DEF ProtectedInv, StacksConfined
<1> QED BY <1>1, <1>2

\* A service on a pushed frame: only user data may have changed.
LEMMA ServedFrame ==
    ASSUME NEW s \in CpuStates, Confined(s), FrameFits(s), s.pc + 1 \in Nat,
           NEW v \in Int,
           NEW e, e = pushInterruptFrame(s, s.pc + 1),
           NEW m, m = [e.mem EXCEPT ![0] = v],
           NEW u, u = e \/ u = [e EXCEPT !.mem = m]
    PROVE  /\ u \in CpuStates /\ Confined(u)
           /\ u.sp = e.sp /\ u.mode = e.mode /\ u.kstack = e.kstack /\ u.ksp = e.ksp
           /\ \A a \in Addr : a # 0 => u.mem[a] = e.mem[a]
<1>1. e \in CpuStates /\ Confined(e)
  BY PushFrame
<1>2. CASE u = e
  BY <1>1, <1>2
<1>3. CASE u = [e EXCEPT !.mem = m]
  <2>1. 0 \in Addr
    BY Layout DEF Addr
  <2>2. m \in [Addr -> Int] /\ \A a \in Addr : a # 0 => m[a] = e.mem[a]
    BY <1>1, <2>1 DEF CpuStates
  <2>3. u = [e EXCEPT !.mem = m]
    BY <1>3
  <2>4. /\ u \in CpuStates /\ u.mem = m
        /\ u.sp = e.sp /\ u.mode = e.mode /\ u.kstack = e.kstack /\ u.ksp = e.ksp
    BY <1>1, <2>2, <2>3 DEF CpuStates
  <2>5. Confined(u)
    BY <1>1, <2>4 DEF Confined, activeStackBase, activeStackEndExclusive
  <2> QED BY <2>2, <2>4, <2>5
<1> QED BY <1>2, <1>3

\* Restoring the frame of a service undoes the entry.
LEMMA HostRoundTrip ==
    ASSUME NEW s \in CpuStates, Confined(s), FrameFits(s), s.pc + 1 \in Nat,
           NEW e, e = pushInterruptFrame(s, s.pc + 1),
           NEW u \in CpuStates, Confined(u),
           u.sp = e.sp, u.mode = e.mode, u.kstack = e.kstack, u.ksp = e.ksp,
           \A a \in Addr : a # 0 => u.mem[a] = e.mem[a],
           NEW x, FrameRestorable(u, x),
           NEW t, t = restoreInterruptFrame(u)
    PROVE  /\ t \in CpuStates /\ Confined(t)
           /\ t.mode = s.mode /\ t.sp = s.sp /\ t.flags = s.flags
           /\ t.ksp = s.ksp /\ t.kstack = s.kstack /\ t.pc = s.pc + 1
           /\ \A a \in Addr : a # 0 /\ a < s.sp => t.mem[a] = s.mem[a]
<1> DEFINE b == FrameBase(s)
<1>1. /\ u \in CpuStates /\ Confined(u)
      /\ u.sp = e.sp /\ u.mode = e.mode /\ u.kstack = e.kstack /\ u.ksp = e.ksp
      /\ \A a \in Addr : a # 0 => u.mem[a] = e.mem[a]
  OBVIOUS
<1>2. /\ b \in Nat /\ b >= UBase /\ b + 4 <= KEnd
      /\ s.mode = "User" => b = s.ksp /\ b >= KBase
      /\ s.mode = "Kernel" => b = s.sp
      /\ e.mem[b] = s.pc + 1
      /\ e.mem[b + 1] = s.flags
      /\ e.mem[b + 2] = privilegeLevelToRaw(s.mode)
      /\ e.mem[b + 3] = s.sp
      /\ \A a \in Addr : a \notin b .. b + 3 => e.mem[a] = s.mem[a]
      /\ e.sp = b + 4 /\ e.mode = "Kernel"
      /\ e.kstack <=> s.kstack \/ s.mode = "User"
      /\ e.ksp = IF e.kstack THEN e.sp ELSE s.ksp
  BY PushFrame
<1> HIDE DEF b
<1>3. /\ b \in Addr /\ b + 1 \in Addr /\ b + 2 \in Addr /\ b + 3 \in Addr
      /\ b # 0 /\ b + 1 # 0 /\ b + 2 # 0 /\ b + 3 # 0
  BY <1>2, Layout DEF Addr
<1>4. /\ u.sp - 4 = b /\ u.sp - 3 = b + 1 /\ u.sp - 2 = b + 2 /\ u.sp - 1 = b + 3
  BY <1>1, <1>2
<1>5. /\ u.mem[b] = s.pc + 1 /\ u.mem[b + 1] = s.flags
      /\ u.mem[b + 2] = privilegeLevelToRaw(s.mode) /\ u.mem[b + 3] = s.sp
  BY <1>1, <1>2, <1>3
<1>6. /\ s.mode \in {"User", "Kernel"} /\ s.flags \in 0 .. 15 /\ s.sp \in Nat
      /\ s.kstack \in BOOLEAN /\ s.flags % 16 = s.flags
      /\ s.mode = "User" => s.sp <= UEnd /\ ~s.kstack
      /\ s.kstack => s.ksp = s.sp
  BY Layout DEF CpuStates, Confined, activeStackEndExclusive, activeStackBase
<1>7. RestoredMode(u) = s.mode
  BY <1>4, <1>5, <1>6 DEF RestoredMode, SavedPrivilege, privilegeLevelToRaw
<1>8. /\ t \in CpuStates /\ Confined(t) /\ t.mem = u.mem
      /\ t.pc = u.mem[u.sp - 4] /\ t.flags = u.mem[u.sp - 3] % 16
      /\ t.mode = RestoredMode(u) /\ t.sp = u.mem[u.sp - 1]
      /\ t.kstack <=> u.kstack /\ t.mode # "User"
      /\ t.ksp = IF ~u.kstack THEN u.ksp
                 ELSE IF t.mode = "User" THEN u.sp - 4 ELSE t.sp
  <2>1. u.mode = "Kernel"
    BY <1>1, <1>2
  <2> QED BY <1>1, <2>1, RestoreFrame
<1>9. /\ t.mode = s.mode /\ t.sp = s.sp /\ t.flags = s.flags /\ t.pc = s.pc + 1
  BY <1>4, <1>5, <1>6, <1>7, <1>8
<1>14. u.kstack <=> s.kstack \/ s.mode = "User"
  BY <1>1, <1>2
<1>10. t.kstack <=> s.kstack
  BY <1>6, <1>8, <1>9, <1>14
<1>11. t.ksp = s.ksp
  <2>1. CASE s.mode = "User"
    <3>1. u.kstack /\ t.ksp = u.sp - 4
      BY <1>8, <1>9, <1>14, <2>1
    <3> QED BY <1>2, <1>4, <2>1, <3>1
  <2>2. CASE s.mode = "Kernel" /\ s.kstack
    BY <1>6, <1>8, <1>9, <1>14, <2>2
  <2>3. CASE s.mode = "Kernel" /\ ~s.kstack
    <3>1. ~u.kstack /\ ~e.kstack
      BY <1>1, <1>2, <1>14, <2>3
    <3>2. u.ksp = s.ksp
      BY <1>1, <1>2, <3>1
    <3> QED BY <1>8, <3>1, <3>2
  <2> QED BY <1>6, <2>1, <2>2, <2>3
<1>12. t.kstack = s.kstack
  BY <1>6, <1>8, <1>10 DEF CpuStates
<1>13. \A a \in Addr : a # 0 /\ a < s.sp => t.mem[a] = s.mem[a]
  <2>1. s.sp <= b
    BY <1>2, <1>6, Layout
  <2> TAKE a \in Addr
  <2> HAVE a # 0 /\ a < s.sp
  <2>2. a \notin b .. b + 3
    BY <1>2, <1>6, <2>1 DEF Addr
  <2>3. u.mem[a] = e.mem[a] /\ e.mem[a] = s.mem[a]
    BY <1>1, <1>2, <2>2
  <2> QED BY <1>8, <2>3
<1> QED BY <1>8, <1>9, <1>11, <1>12, <1>13

\* Every step of the CPU keeps the invariant.
LEMMA StepKeepsInv == ProtectedInv /\ [CpuNext]_cpuVars => ProtectedInv'
<1> SUFFICES ASSUME ProtectedInv, [CpuNext]_cpuVars PROVE ProtectedInv'
  OBVIOUS
<1>1. /\ CpuTypeOK /\ Confined(c) /\ c \in CpuStates
      /\ enabled \in BOOLEAN /\ pending \in Seq(Handlers)
      /\ halted \in BOOLEAN /\ error \in BOOLEAN /\ count \in Nat
  BY DEF ProtectedInv, StacksConfined, CpuTypeOK
<1>2. /\ c.pc \in Nat /\ c.pc + 1 \in Nat /\ c.sp \in Nat /\ c.ksp \in Nat
      /\ c.flags \in 0 .. 15 /\ c.mem \in [Addr -> Int]
      /\ c.mode \in {"User", "Kernel"}
  BY <1>1 DEF CpuStates
<1>3. Disciplined => \A i \in DOMAIN frames : frames[i].base + FrameSlots <= c.sp
  BY AboveFloor
<1>4. ASSUME c' = c, frames' = frames,
             enabled' \in BOOLEAN, pending' \in Seq(Handlers),
             halted' \in BOOLEAN, error' \in BOOLEAN, count' \in Nat
      PROVE  ProtectedInv'
  BY <1>1, <1>3, <1>4, Settled
<1>5. CASE UNCHANGED cpuVars
  BY <1>1, <1>4, <1>5 DEF cpuVars
<1>6. ASSUME NEW h \in Handlers, Request(h) PROVE ProtectedInv'
  BY <1>1, <1>4, <1>6 DEF Request
<1>7. ASSUME Step PROVE count' \in Nat
  BY <1>1, <1>7 DEF Step
<1>8. ASSUME Step, Refused, pending' \in Seq(Handlers) PROVE ProtectedInv'
  BY <1>1, <1>4, <1>7, <1>8 DEF Refused
<1>9. ASSUME Step, NEW ret \in Nat, NEW h \in Nat, FrameFits(c),
             c' = At(pushInterruptFrame(c, ret), h), frames' = Entered(ret),
             UNCHANGED <<enabled, halted, error>>, pending' \in Seq(Handlers)
      PROVE  ProtectedInv'
  <2> DEFINE t == pushInterruptFrame(c, ret)
  <2>1. t \in CpuStates /\ Confined(t)
    BY <1>1, <1>9, PushFrame
  <2>2. c' = At(t, h)
    BY <1>9
  <2>3. t = pushInterruptFrame(c, ret)
    OBVIOUS
  <2> HIDE DEF t
  <2>4. /\ c' \in CpuStates /\ c'.sp = t.sp /\ c'.mode = t.mode
        /\ c'.kstack = t.kstack /\ c'.ksp = t.ksp /\ c'.mem = t.mem
    BY <1>9, <2>1, <2>2 DEF At, CpuStates
  <2>5. Confined(c')
    BY <2>1, <2>4 DEF Confined, activeStackBase, activeStackEndExclusive
  <2>6. enabled' \in BOOLEAN /\ halted' \in BOOLEAN /\ error' \in BOOLEAN
    BY <1>1, <1>9
  <2> QED BY <1>7, <1>9, <2>3, <2>4, <2>5, <2>6, Enter
<1>10. CASE ServiceInterrupt
  <2>1. Step /\ pending # <<>> /\ pending' = Tail(pending)
    BY <1>10 DEF ServiceInterrupt, Interrupted
  <2>2. Head(pending) \in Handlers /\ pending' \in Seq(Handlers)
    BY <1>1, <2>1
  <2>3. Head(pending) \in Nat
    BY <2>2, ProtectedAssumption
  <2>4. CASE Head(pending) \in 1 .. CodeLen /\ FrameFits(c)
    <3>1. /\ c' = At(pushInterruptFrame(c, c.pc), Head(pending))
          /\ frames' = Entered(c.pc) /\ UNCHANGED <<enabled, halted, error>>
      BY <1>10, <2>4, Zenon DEF ServiceInterrupt
    <3> QED BY <1>2, <1>9, <2>1, <2>2, <2>3, <2>4, <3>1
  <2>5. CASE ~(Head(pending) \in 1 .. CodeLen /\ FrameFits(c))
    <3>1. Refused
      BY <1>10, <2>5, Zenon DEF ServiceInterrupt
    <3> QED BY <1>8, <2>1, <2>2, <3>1
  <2> QED BY <2>4, <2>5
<1>11. ASSUME Instruction PROVE Step /\ pending' \in Seq(Handlers)
  BY <1>1, <1>11 DEF Instruction
<1>12. CASE Fault
  BY <1>1, <1>8, <1>12 DEF Fault
<1>13. CASE StepLimit
  BY <1>1, <1>4, <1>13 DEF StepLimit, Refused
<1>14. ASSUME Instruction, NEW pc \in Nat, NEW fl \in 0 .. 15,
              NEW m \in [Addr -> Int],
              c' = At([c EXCEPT !.flags = fl, !.mem = m], pc), frames' = frames,
              enabled' \in BOOLEAN, halted' \in BOOLEAN, error' \in BOOLEAN,
              \A a \in Addr : a # 0 => m[a] = c.mem[a]
       PROVE  ProtectedInv'
  <2>1. /\ c' \in CpuStates /\ Confined(c')
        /\ c'.mem = m /\ c'.sp = c.sp /\ c'.mode = c.mode
        /\ c'.kstack = c.kstack /\ c'.ksp = c.ksp
    <3>1. /\ c' \in CpuStates
          /\ c'.mem = m /\ c'.sp = c.sp /\ c'.mode = c.mode
          /\ c'.kstack = c.kstack /\ c'.ksp = c.ksp
      BY <1>1, <1>14 DEF CpuStates, At
    <3> QED BY <1>1, <3>1 DEF Confined, activeStackBase, activeStackEndExclusive
  <2> QED BY <1>1, <1>3, <1>7, <1>11, <1>14, <2>1, Settled
<1>15. c = [c EXCEPT !.flags = c.flags, !.mem = c.mem]
  BY <1>1 DEF CpuStates
<1>16. ASSUME Instruction, NEW pc \in Nat, c' = At(c, pc), frames' = frames,
              enabled' \in BOOLEAN, halted' \in BOOLEAN, error' \in BOOLEAN
       PROVE  ProtectedInv'
  BY <1>2, <1>14, <1>15, <1>16
<1>17. ASSUME NEW f \in FlagWords \cup {c.flags}, Compute(f) PROVE ProtectedInv'
  <2>1. f \in 0 .. 15
    BY <1>2, ProtectedAssumption
  <2>2. WithFlags(c, f) = [c EXCEPT !.flags = f, !.mem = c.mem]
    BY <1>1 DEF CpuStates, WithFlags
  <2>3. /\ Instruction /\ c' = At([c EXCEPT !.flags = f, !.mem = c.mem], c.pc + 1)
        /\ UNCHANGED <<enabled, halted, error, frames>>
    BY <1>17, <2>2 DEF Compute, Proceed
  <2> QED BY <1>1, <1>2, <1>14, <2>1, <2>3
<1>18. ASSUME NEW t \in Targets, Jump(t) PROVE ProtectedInv'
  <2>1. t \in Nat
    BY ProtectedAssumption
  <2>2. CASE Executable(c.mode, t)
    BY <1>1, <1>16, <1>18, <2>1, <2>2 DEF Jump, Proceed
  <2>3. CASE ~Executable(c.mode, t)
    BY <1>8, <1>11, <1>18, <2>3 DEF Jump
  <2> QED BY <2>2, <2>3
<1>19. ASSUME Instruction, NEW sp \in Nat, NEW pc \in Nat,
              sp \in activeStackBase(c) .. activeStackEndExclusive(c),
              NEW f \in 0 .. 15, c' = At(MovedSp(WithFlags(c, f), sp), pc),
              UNCHANGED <<enabled, halted, error, frames>>,
              c.mode = "Kernel" /\ Disciplined => sp >= Floor
       PROVE  ProtectedInv'
  <2>1. /\ c' \in CpuStates /\ Confined(c')
        /\ c'.mem = c.mem /\ c'.sp = sp /\ c'.mode = c.mode
        /\ c'.kstack = c.kstack
        /\ ~c.kstack => c'.ksp = c.ksp
    <3> DEFINE d == WithFlags(c, f)
    <3>1. /\ d \in CpuStates /\ d.mem = c.mem /\ d.sp = c.sp /\ d.mode = c.mode
          /\ d.kstack = c.kstack /\ d.ksp = c.ksp
      BY <1>1 DEF CpuStates, WithFlags
    <3>2. c' = At(MovedSp(d, sp), pc)
      BY <1>19
    <3> HIDE DEF d
    <3>3. Confined(d) /\ sp \in activeStackBase(d) .. activeStackEndExclusive(d)
      BY <1>1, <1>19, <3>1 DEF Confined, activeStackBase, activeStackEndExclusive
    <3>4. /\ c' \in CpuStates /\ Confined(c')
          /\ c'.mem = d.mem /\ c'.sp = sp /\ c'.mode = d.mode
          /\ c'.kstack = d.kstack
          /\ ~d.kstack => c'.ksp = d.ksp
      BY <1>19, <3>1, <3>2, <3>3, MoveSp
    <3> QED BY <3>1, <3>4
  <2>2. Disciplined => \A i \in DOMAIN frames : frames[i].base + FrameSlots <= sp
    <3> SUFFICES ASSUME Disciplined, NEW i \in DOMAIN frames
                 PROVE  frames[i].base + FrameSlots <= sp
      OBVIOUS
    <3>1. /\ frames[i].base \in Nat /\ Floor \in Nat /\ c.mode = "Kernel"
          /\ frames[i].base + FrameSlots <= Floor
      BY AboveFloor
    <3> QED BY <1>19, <3>1, Layout
  <2>3. enabled' \in BOOLEAN /\ halted' \in BOOLEAN /\ error' \in BOOLEAN
    BY <1>1, <1>19
  <2> QED BY <1>7, <1>11, <1>19, <2>1, <2>2, <2>3, Settled
<1>20. ASSUME Instruction, NEW v \in Int, NEW pc \in Nat, CanPush(c, 1),
              c' = At(pushValue(c, v), pc),
              UNCHANGED <<enabled, halted, error, frames>>
       PROVE  ProtectedInv'
  <2>1. /\ c' \in CpuStates /\ Confined(c')
        /\ \A a \in Addr : a # c.sp => c'.mem[a] = c.mem[a]
        /\ c'.sp = c.sp + 1 /\ c'.mode = c.mode
        /\ c'.kstack = c.kstack
        /\ ~c.kstack => c'.ksp = c.ksp
    BY <1>1, <1>20, PushWord
  <2>2. Disciplined => \A i \in DOMAIN frames : frames[i].base + FrameSlots <= c'.sp
    <3> SUFFICES ASSUME Disciplined, NEW i \in DOMAIN frames
                 PROVE  frames[i].base + FrameSlots <= c'.sp
      OBVIOUS
    <3>1. frames[i].base \in Nat /\ frames[i].base + FrameSlots <= c.sp
      BY AboveFloor
    <3> QED BY <1>2, <2>1, <3>1, Layout
  <2>3. enabled' \in BOOLEAN /\ halted' \in BOOLEAN /\ error' \in BOOLEAN
    BY <1>1, <1>20
  <2>4. \A a \in Addr : a # 0 /\ a < c.sp => c'.mem[a] = c.mem[a]
    BY <1>2, <2>1 DEF Addr
  <2>5. frames' = frames
    BY <1>20
  <2> QED BY <1>7, <1>11, <1>20, <2>1, <2>2, <2>3, <2>4, <2>5, Settled
<1>21. ASSUME NEW v \in Data, Push(v) PROVE ProtectedInv'
  <2>1. v \in Int
    BY ProtectedAssumption
  <2>2. CASE CanPush(c, 1)
    BY <1>2, <1>20, <1>21, <2>1, <2>2 DEF Push, Proceed
  <2>3. CASE ~CanPush(c, 1)
    BY <1>8, <1>11, <1>21, <2>3 DEF Push
  <2> QED BY <2>2, <2>3
<1>22. ASSUME NEW t \in Targets, Call(t) PROVE ProtectedInv'
  <2>1. t \in Nat /\ c.pc + 1 \in Int
    BY <1>2, ProtectedAssumption
  <2>2. CASE Executable(c.mode, t) /\ Executable(c.mode, c.pc + 1) /\ CanPush(c, 1)
    BY <1>2, <1>20, <1>22, <2>1, <2>2 DEF Call, Proceed
  <2>3. CASE ~(Executable(c.mode, t) /\ Executable(c.mode, c.pc + 1) /\ CanPush(c, 1))
    BY <1>8, <1>11, <1>22, <2>3 DEF Call
  <2> QED BY <2>2, <2>3
<1>23. ASSUME CanPop(c, 1), c.mode = "Kernel" /\ Disciplined => c.sp > Floor
       PROVE  /\ c.sp - 1 \in Nat /\ c.sp - 1 \in Addr
              /\ c.sp - 1 \in activeStackBase(c) .. activeStackEndExclusive(c)
              /\ c.mode = "Kernel" /\ Disciplined => c.sp - 1 >= Floor
  <2>1. /\ c.sp - 1 \in Nat /\ c.sp - 1 \in Addr
        /\ c.sp - 1 \in activeStackBase(c) .. activeStackEndExclusive(c)
    BY <1>2, <1>23, Layout DEF CanPop, activeStackBase, activeStackEndExclusive, Addr
  <2>2. Disciplined => Floor \in Nat
    <3>1. CASE frames = <<>>
      BY <3>1, Layout DEF Floor, activeStackBase
    <3>2. CASE frames # <<>>
      <4>1. CpuTypeOK
        BY <1>1
      <4>2. 1 \in DOMAIN frames
        BY <3>2, <4>1 DEF CpuTypeOK
      <4> QED BY <4>2, AboveFloor
    <3> QED BY <3>1, <3>2
  <2> QED BY <1>2, <1>23, <2>1, <2>2
<1>24. ASSUME NEW f \in FlagWords \cup {c.flags}, Pop(f) PROVE ProtectedInv'
  <2>1. c.mode = "Kernel" /\ Disciplined => c.sp > Floor
    BY <1>24 DEF Pop, ByTheRules
  <2>2. CASE CanPop(c, 1)
    <3>1. f \in 0 .. 15
      BY <1>2, ProtectedAssumption
    <3>2. /\ Instruction /\ c' = At(MovedSp(WithFlags(c, f), c.sp - 1), c.pc + 1)
          /\ UNCHANGED <<enabled, halted, error, frames>>
      BY <1>24, <2>2, Zenon DEF Pop, Proceed
    <3> QED BY <1>2, <1>19, <1>23, <2>1, <2>2, <3>1, <3>2
  <2>3. CASE ~CanPop(c, 1)
    BY <1>8, <1>11, <1>24, <2>3 DEF Pop
  <2> QED BY <2>2, <2>3
<1>25. CASE Ret
  <2> DEFINE ra == c.mem[c.sp - 1]
             ok == CanPop(c, 1) /\ ra >= 0 /\ Executable(c.mode, ra)
  <2>1. c.mode = "Kernel" /\ Disciplined => c.sp > Floor
    BY <1>25 DEF Ret, ByTheRules
  <2>2. CASE ok
    <3>1. ra \in Nat
      BY <1>2, <1>23, <2>1, <2>2
    <3>2. WithFlags(c, c.flags) = c
      BY <1>1 DEF WithFlags, CpuStates
    <3>3. /\ Instruction /\ c' = At(MovedSp(WithFlags(c, c.flags), c.sp - 1), ra)
          /\ UNCHANGED <<enabled, halted, error, frames>>
      BY <1>25, <2>2, <3>2, Zenon DEF Ret, Proceed
    <3> HIDE DEF ra
    <3> QED BY <1>2, <1>19, <1>23, <2>1, <2>2, <3>1, <3>3
  <2>3. CASE ~ok
    BY <1>8, <1>11, <1>25, <2>3 DEF Ret
  <2> QED BY <2>2, <2>3
<1>26. ASSUME NEW v \in Data, NEW a \in Addr, Store(a, v) PROVE ProtectedInv'
  <2>1. Instruction /\ (c.mode = "Kernel" /\ Disciplined => a = 0)
    BY <1>26 DEF Store, ByTheRules
  <2>2. CASE c.mode = "User" => a = 0
    <3> DEFINE m == [c.mem EXCEPT ![a] = v]
    <3>1. v \in Int
      BY ProtectedAssumption
    <3>2. m \in [Addr -> Int] /\ \A x \in Addr : x # a => m[x] = c.mem[x]
      BY <1>2, <3>1
    <3>3. [c EXCEPT !.mem[a] = v] = [c EXCEPT !.flags = c.flags, !.mem = m]
      BY <1>1 DEF CpuStates
    <3> HIDE DEF m
    <3>4. /\ c' = At([c EXCEPT !.flags = c.flags, !.mem = m], c.pc + 1)
          /\ UNCHANGED <<enabled, halted, error, frames>>
      BY <1>26, <2>2, <3>3 DEF Store, Proceed
    <3>5. CASE a = 0
      BY <1>1, <1>2, <1>14, <2>1, <3>2, <3>4, <3>5
    <3>6. CASE a # 0
      <4>1. ~Disciplined
        BY <1>2, <2>1, <2>2, <3>6
      <4>2. /\ c' \in CpuStates /\ Confined(c')
            /\ c'.mode = c.mode /\ c'.kstack = c.kstack /\ c'.ksp = c.ksp
        <5>1. /\ c' \in CpuStates /\ c'.sp = c.sp /\ c'.mode = c.mode
              /\ c'.kstack = c.kstack /\ c'.ksp = c.ksp
          BY <1>1, <1>2, <3>2, <3>4 DEF CpuStates, At
        <5> QED BY <1>1, <5>1 DEF Confined, activeStackBase, activeStackEndExclusive
      <4>3. enabled' \in BOOLEAN /\ halted' \in BOOLEAN /\ error' \in BOOLEAN
        BY <1>1, <3>4
      <4> QED BY <1>7, <1>11, <2>1, <3>4, <4>1, <4>2, <4>3, Settled
    <3> QED BY <3>5, <3>6
  <2>3. CASE ~(c.mode = "User" => a = 0)
    BY <1>8, <1>11, <1>26, <2>3 DEF Store
  <2> QED BY <2>2, <2>3
<1>27. ASSUME NEW h \in Handlers, GuestInt(h) PROVE ProtectedInv'
  <2>1. h \in Nat
    BY ProtectedAssumption
  <2>2. CASE h \in 1 .. CodeLen /\ FrameFits(c)
    BY <1>2, <1>9, <1>11, <1>27, <2>1, <2>2 DEF GuestInt
  <2>3. CASE ~(h \in 1 .. CodeLen /\ FrameFits(c))
    BY <1>8, <1>11, <1>27, <2>3 DEF GuestInt
  <2> QED BY <2>2, <2>3
<1>28. ASSUME NEW o \in {"continue", "terminate", "throw"}, NEW v \in Data,
              HostInt(o, v)
       PROVE  ProtectedInv'
  <2> DEFINE e == pushInterruptFrame(c, c.pc + 1)
             u == IF o = "throw" THEN e ELSE [e EXCEPT !.mem[0] = v]
  <2>1. Instruction /\ v \in Int
    BY <1>28, ProtectedAssumption DEF HostInt
  <2>2. CASE ~FrameFits(c)
    BY <1>8, <1>11, <1>28, <2>2 DEF HostInt
  <2>3. CASE FrameFits(c)
    <3>1. /\ u \in CpuStates /\ Confined(u)
          /\ u.sp = e.sp /\ u.mode = e.mode /\ u.kstack = e.kstack /\ u.ksp = e.ksp
          /\ \A a \in Addr : a # 0 => u.mem[a] = e.mem[a]
      <4> DEFINE m == [e.mem EXCEPT ![0] = v]
      <4>1. u = e \/ u = [e EXCEPT !.mem = m]
        OBVIOUS
      <4>2. e = pushInterruptFrame(c, c.pc + 1) /\ m = [e.mem EXCEPT ![0] = v]
        OBVIOUS
      <4> HIDE DEF e, m, u
      <4>3. c.pc + 1 \in Nat /\ c \in CpuStates /\ Confined(c) /\ v \in Int
        BY <1>1, <1>2, <2>1
      <4> QED BY <2>3, <4>1, <4>2, <4>3, ServedFrame
    <3>2. IF FrameRestorable(u, o = "terminate")
          THEN /\ c' = restoreInterruptFrame(u)
               /\ halted' = (o # "continue")
               /\ error' = (o = "throw")
               /\ UNCHANGED <<enabled, frames>>
          ELSE /\ c' = u
               /\ halted' = TRUE
               /\ error' = TRUE
               /\ frames' = Entered(c.pc + 1)
               /\ UNCHANGED enabled
      BY <1>28, <2>3 DEF HostInt
    <3>3. e = pushInterruptFrame(c, c.pc + 1)
      OBVIOUS
    <3> HIDE DEF e, u
    <3>4. enabled' \in BOOLEAN /\ halted' \in BOOLEAN /\ error' \in BOOLEAN
      BY <1>1, <3>2
    <3>5. CASE FrameRestorable(u, o = "terminate")
      <4>1. /\ c' \in CpuStates /\ Confined(c')
            /\ c'.mode = c.mode /\ c'.sp = c.sp
            /\ c'.ksp = c.ksp /\ c'.kstack = c.kstack
            /\ \A a \in Addr : a # 0 /\ a < c.sp => c'.mem[a] = c.mem[a]
        BY <1>1, <1>2, <2>3, <3>1, <3>2, <3>3, <3>5, HostRoundTrip
      <4>2. frames' = frames
        BY <3>2, <3>5
      <4> QED BY <1>3, <1>7, <1>11, <2>1, <3>4, <4>1, <4>2, Settled
    <3>6. CASE ~FrameRestorable(u, o = "terminate")
      <4>1. c' = u /\ frames' = Entered(c.pc + 1)
        BY <3>2, <3>6
      <4> QED BY <1>2, <1>7, <1>11, <2>1, <2>3, <3>1, <3>3, <3>4, <4>1, Enter
    <3> QED BY <3>5, <3>6
  <2> QED BY <2>2, <2>3
<1>29. CASE Iret
  <2>1. /\ Instruction
        /\ c.mode = "Kernel" /\ Disciplined => frames # <<>> /\ c.sp = Floor
    BY <1>29 DEF Iret, ByTheRules
  <2>2. CASE c.mode = "Kernel" /\ FrameRestorable(c, FALSE)
    <3>1. /\ c' = restoreInterruptFrame(c) /\ frames' = Returned
          /\ UNCHANGED <<enabled, halted, error>>
      BY <1>29, <2>2 DEF Iret
    <3>2. c' \in CpuStates /\ Confined(c')
      BY <1>1, <2>2, <3>1, RestoreFrame
    <3>3. Returned \in Seq(Suspensions)
      BY <1>1 DEF CpuTypeOK, Returned
    <3>4. CpuTypeOK'
      BY <1>1, <1>7, <1>11, <2>1, <3>1, <3>2, <3>3 DEF CpuTypeOK
    <3> QED BY <2>1, <2>2, <3>1, <3>2, <3>4, ReturnInv
  <2>3. CASE ~(c.mode = "Kernel" /\ FrameRestorable(c, FALSE))
    BY <1>8, <1>11, <1>29, <2>3 DEF Iret
  <2> QED BY <2>2, <2>3
<1>30. ASSUME NEW b \in BOOLEAN, SetEnabled(b) PROVE ProtectedInv'
  BY <1>1, <1>2, <1>16, <1>30 DEF SetEnabled
<1>31. CASE Halt
  BY <1>1, <1>4, <1>7, <1>11, <1>31 DEF Halt
<1>32. CASE Stopped
  BY <1>5, <1>32 DEF Stopped
<1> QED
  BY <1>5, <1>6, <1>10, <1>12, <1>13, <1>17, <1>18, <1>21, <1>22, <1>24, <1>25,
     <1>26, <1>27, <1>28, <1>29, <1>30, <1>31, <1>32 DEF CpuNext

LEMMA InitInv == CpuInit => ProtectedInv
<1> SUFFICES ASSUME CpuInit PROVE ProtectedInv
  OBVIOUS
<1>1. /\ c.mode \in {"User", "Kernel"} /\ c.pc = 1 /\ c.sp = UBase /\ c.flags = 0
      /\ c.mem = [a \in Addr |-> 0] /\ c.ksp = KBase /\ c.kstack = FALSE
      /\ c \in CpuStates
  <2>1. 1 \in Nat /\ UBase \in Nat /\ KBase \in Nat /\ 0 \in 0 .. 15
    BY Layout
  <2> DEFINE z == [a \in Addr |-> 0]
  <2>2. z \in [Addr -> Int]
    OBVIOUS
  <2> HIDE DEF z
  <2>3. CASE c = [mode |-> "Kernel", pc |-> 1, sp |-> UBase, flags |-> 0,
                  mem |-> z, ksp |-> KBase, kstack |-> FALSE]
    BY <2>1, <2>2, <2>3 DEF CpuStates, z
  <2>4. CASE c = [mode |-> "User", pc |-> 1, sp |-> UBase, flags |-> 0,
                  mem |-> z, ksp |-> KBase, kstack |-> FALSE]
    BY <2>1, <2>2, <2>4 DEF CpuStates, z
  <2> QED BY <2>3, <2>4 DEF CpuInit, Reset, z
<1>2. frames = <<>> /\ CpuTypeOK
  <2>1. /\ enabled = TRUE /\ pending = <<>> /\ halted = FALSE /\ error = FALSE
        /\ count = 0 /\ frames = <<>>
    BY DEF CpuInit
  <2>2. pending \in Seq(Handlers) /\ frames \in Seq(Suspensions)
    BY <2>1
  <2> QED BY <1>1, <2>1, <2>2 DEF CpuTypeOK
<1>3. StacksConfined
  BY <1>1, Layout DEF StacksConfined, Confined, activeStackBase, activeStackEndExclusive
<1>4. FramesNested /\ SuspendedIntact
  BY <1>1, <1>2 DEF FramesNested, SuspendedIntact
<1> QED BY <1>2, <1>3, <1>4 DEF ProtectedInv

\* The stacks of CPU.cpp keep their shape under every guest program, and the
\* interrupt frames under every disciplined one.
THEOREM ProtectedInvariant == CpuSpec => []ProtectedInv
<1>1. CpuInit => ProtectedInv
  BY InitInv
<1>2. ProtectedInv /\ [CpuNext]_cpuVars => ProtectedInv'
  BY StepKeepsInv
<1> QED BY <1>1, <1>2, PTL DEF CpuSpec

\* No guest program, not even one that forges interrupt frames, moves a stack
\* pointer of the CPU out of the stack of its privilege level.
THEOREM StacksStayConfined == CpuSpec => []StacksConfined
<1>1. ProtectedInv => StacksConfined
  BY DEF ProtectedInv
<1> QED BY <1>1, ProtectedInvariant, PTL

\* However deep interrupts nest, the frames pushInterruptFrame wrote and the
\* stacks under them are intact until IRET reads them.
THEOREM FramesSurvive == CpuSpec => []SuspendedIntact
<1>1. ProtectedInv => SuspendedIntact
  BY DEF ProtectedInv, SuspendedIntact
<1> QED BY <1>1, ProtectedInvariant, PTL

\* Interrupts that returned hold no room of the kernel interrupt stack.
THEOREM KernelStackReturns == CpuSpec => []KernelStackReleased
<1>1. ProtectedInv => KernelStackReleased
  BY DEF ProtectedInv, KernelStackReleased, FramesNested
<1> QED BY <1>1, ProtectedInvariant, PTL

\* Only IRET drops a suspended context.
LEMMA OnlyIretReturns ==
    ASSUME ProtectedInv, [CpuNext]_cpuVars, Len(frames') < Len(frames)
    PROVE  /\ Disciplined /\ frames # <<>> /\ c.mode = "Kernel" /\ c.sp = Floor
           /\ FrameRestorable(c, FALSE) /\ c' = restoreInterruptFrame(c)
<1>1. frames \in Seq(Suspensions) /\ (~Disciplined => frames = <<>>)
  BY DEF ProtectedInv, CpuTypeOK
<1>2. Disciplined /\ frames # <<>> /\ frames' # frames
  <2>1. Len(frames) \in Nat /\ Len(<<>>) = 0
    BY <1>1
  <2>2. frames' # frames
    BY <2>1
  <2>3. frames # <<>>
    <3>1. SUFFICES ASSUME frames = <<>> PROVE FALSE
      OBVIOUS
    <3> QED BY <2>1, <3>1
  <2> QED BY <1>1, <2>2, <2>3
<1>3. ASSUME NEW ret PROVE frames' # Entered(ret)
  <2>1. SUFFICES ASSUME frames' = Entered(ret) PROVE FALSE
    OBVIOUS
  <2> DEFINE g == Suspended(ret)
  <2>2. frames' = Append(frames, g)
    BY <1>2, <2>1 DEF Entered
  <2> HIDE DEF g
  <2>3. Len(frames') = Len(frames) + 1 /\ Len(frames) \in Nat
    BY <1>1, <2>2
  <2> QED BY <2>3
<1>4. ~Refused
  BY <1>2 DEF Refused
<1>5. \A x : ~Proceed(x)
  BY <1>2 DEF Proceed
<1>6. Iret
  <2>1. ~UNCHANGED cpuVars
    BY <1>2 DEF cpuVars
  <2>2. /\ \A h : ~Request(h) /\ ~GuestInt(h)
        /\ ~ServiceInterrupt
    BY <1>2, <1>3, <1>4 DEF Request, GuestInt, ServiceInterrupt
  <2>3. ~Fault /\ ~StepLimit /\ ~Stopped /\ ~Halt
    BY <1>2, <1>4, <2>1 DEF Fault, StepLimit, Stopped, Halt
  <2>4. ~Ret /\ \A f : ~Pop(f)
    BY <1>4, <1>5, Zenon DEF Pop, Ret
  <2>5. \A v, a : ~Push(v) /\ ~Store(a, v)
    BY <1>4, <1>5, Zenon DEF Push, Store
  <2>6. \A t : ~Jump(t) /\ ~Call(t)
    BY <1>4, <1>5, Zenon DEF Jump, Call
  <2>7. \A x : ~Compute(x) /\ ~SetEnabled(x)
    BY <1>2, <1>5 DEF Compute, SetEnabled
  <2>8. \A o, v : ~HostInt(o, v)
    <3> SUFFICES ASSUME NEW o, NEW v, HostInt(o, v) PROVE FALSE
      OBVIOUS
    <3>1. Refused \/ frames' = frames \/ frames' = Entered(c.pc + 1)
      BY Zenon DEF HostInt
    <3> QED BY <1>2, <1>3, <1>4, <3>1
  <2> QED BY <2>1, <2>2, <2>3, <2>4, <2>5, <2>6, <2>7, <2>8 DEF CpuNext
<1>7. c.mode = "Kernel" /\ FrameRestorable(c, FALSE) /\ c' = restoreInterruptFrame(c)
  BY <1>4, <1>6, Zenon DEF Iret
<1>8. c.sp = Floor
  BY <1>2, <1>6, <1>7 DEF Iret, ByTheRules
<1> QED BY <1>2, <1>7, <1>8

\* IRET of a disciplined handler resumes exactly what the interrupt suspended,
\* for every nesting of hardware and software interrupts.
THEOREM InterruptsResume == CpuSpec => IretResumes
<1> DEFINE Resumes ==
      Len(frames') < Len(frames) =>
         LET f == frames[Len(frames)]
         IN /\ c'.pc = f.pc
            /\ c'.flags = f.flags
            /\ c'.mode = f.mode
            /\ c'.sp = f.sp
<1>1. ProtectedInv /\ [CpuNext]_cpuVars => [Resumes]_cpuVars
  <2> SUFFICES ASSUME ProtectedInv, [CpuNext]_cpuVars, Len(frames') < Len(frames)
               PROVE  LET f == frames[Len(frames)]
                      IN /\ c'.pc = f.pc
                         /\ c'.flags = f.flags
                         /\ c'.mode = f.mode
                         /\ c'.sp = f.sp
    OBVIOUS
  <2>1. /\ Disciplined /\ frames # <<>> /\ c.mode = "Kernel" /\ c.sp = Floor
        /\ FrameRestorable(c, FALSE) /\ c' = restoreInterruptFrame(c)
    BY OnlyIretReturns
  <2> QED BY <2>1, Return
<1> QED BY <1>1, ProtectedInvariant, PTL DEF CpuSpec, IretResumes

\* The frame of a host service can be restored unless the INT was the last
\* instruction of the User code range.
LEMMA HostFrameKept ==
    ASSUME NEW s \in CpuStates, Confined(s), FrameFits(s), Fetchable(s),
           NEW e, e = pushInterruptFrame(s, s.pc + 1),
           NEW u \in CpuStates, Confined(u),
           u.sp = e.sp, u.mode = e.mode, u.kstack = e.kstack,
           \A a \in Addr : a # 0 => u.mem[a] = e.mem[a],
           NEW x, ~FrameRestorable(u, x)
    PROVE  s.mode = "User" /\ s.pc = UserCode
<1> DEFINE b == FrameBase(s)
<1>1. /\ u.sp = e.sp /\ u.mode = e.mode /\ u.kstack = e.kstack
      /\ \A a \in Addr : a # 0 => u.mem[a] = e.mem[a]
  OBVIOUS
<1>2. /\ s.mode \in {"User", "Kernel"} /\ s.sp \in Nat /\ s.kstack \in BOOLEAN
      /\ s.pc \in Nat /\ s.pc + 1 \in Nat
      /\ s.mode = "User" => s.sp \in UBase .. UEnd
      /\ s.mode = "Kernel" /\ s.kstack => s.sp \in KBase .. KEnd
      /\ s.mode = "Kernel" => s.sp \in UBase .. KEnd
  BY Layout DEF CpuStates, Confined, activeStackEndExclusive, activeStackBase
<1>3. /\ b \in Nat /\ b >= UBase /\ b + 4 <= KEnd
      /\ s.mode = "User" => b >= KBase
      /\ s.mode = "Kernel" => b = s.sp
      /\ e.mem[b] = s.pc + 1
      /\ e.mem[b + 2] = privilegeLevelToRaw(s.mode)
      /\ e.mem[b + 3] = s.sp
      /\ e.sp = b + 4 /\ e.mode = "Kernel"
      /\ e.kstack <=> s.kstack \/ s.mode = "User"
  BY <1>2, PushFrame
<1> HIDE DEF b
<1>4. /\ b \in Addr /\ b + 1 \in Addr /\ b + 2 \in Addr /\ b + 3 \in Addr
      /\ b # 0 /\ b + 1 # 0 /\ b + 2 # 0 /\ b + 3 # 0
      /\ u.sp - 4 = b /\ u.sp - 2 = b + 2 /\ u.sp - 1 = b + 3
  BY <1>1, <1>3, Layout DEF Addr
<1>5. /\ ReturnAddress(u) = s.pc + 1 /\ SavedSp(u) = s.sp
      /\ SavedPrivilege(u) = privilegeLevelToRaw(s.mode)
  BY <1>1, <1>3, <1>4 DEF ReturnAddress, SavedSp, SavedPrivilege
<1>6. SavedPrivilege(u) \in {0, 1} /\ RestoredMode(u) = s.mode
  BY <1>2, <1>5 DEF RestoredMode, privilegeLevelToRaw
<1>7. CanPop(u, FrameSlots)
  <2>1. u.mode = "Kernel" /\ u.sp = b + 4 /\ (u.kstack <=> s.kstack \/ s.mode = "User")
    BY <1>1, <1>3
  <2>2. b >= activeStackBase(u)
    BY <1>2, <1>3, <2>1, Layout DEF activeStackBase
  <2> QED BY <1>3, <2>1, <2>2, Layout DEF CanPop, activeStackEndExclusive, activeStackBase
<1>8. SavedSp(u) \in IF RestoredMode(u) = "User" THEN UBase .. UEnd
                     ELSE IF u.kstack THEN KBase .. KEnd
                     ELSE UBase .. KEnd
  BY <1>1, <1>2, <1>3, <1>5, <1>6
<1>9. ~Executable(s.mode, s.pc + 1)
  <2>1. ReturnAddress(u) >= 0
    BY <1>2, <1>5
  <2> QED BY <1>5, <1>6, <1>7, <1>8, <2>1, Zenon DEF FrameRestorable
<1> QED BY <1>2, <1>9, ProtectedAssumption DEF Executable, Fetchable

\* INT to a host service is a call: it comes back to the next instruction with
\* the stacks, flags and privilege level of the caller, whether the service
\* returned, ended the process or threw.
THEOREM HostServicesReturn == CpuSpec => HostServiceReturns
<1> DEFINE Came ==
      \/ /\ c'.mode = c.mode /\ c'.sp = c.sp /\ c'.flags = c.flags
         /\ c'.ksp = c.ksp /\ c'.kstack = c.kstack
         /\ c'.pc = c.pc + 1
      \/ error' /\ c.mode = "User" /\ c.pc = UserCode
<1>1. ASSUME ProtectedInv, c' # c,
             NEW o \in {"continue", "terminate", "throw"}, NEW v \in Data,
             HostInt(o, v)
      PROVE  Came
  <2> DEFINE e == pushInterruptFrame(c, c.pc + 1)
             m == [e.mem EXCEPT ![0] = v]
             u == IF o = "throw" THEN e ELSE [e EXCEPT !.mem = m]
  <2>1. c \in CpuStates /\ Confined(c) /\ Fetchable(c) /\ v \in Int
    BY <1>1, ProtectedAssumption DEF ProtectedInv, StacksConfined, CpuTypeOK, HostInt, Instruction
  <2>2. c.pc + 1 \in Nat
    BY <2>1 DEF CpuStates
  <2>3. /\ FrameFits(c)
        /\ IF FrameRestorable(u, o = "terminate")
           THEN c' = restoreInterruptFrame(u)
           ELSE error' = TRUE
    BY <1>1 DEF HostInt, Refused
  <2>4. /\ e = pushInterruptFrame(c, c.pc + 1) /\ m = [e.mem EXCEPT ![0] = v]
        /\ u = e \/ u = [e EXCEPT !.mem = m]
    OBVIOUS
  <2> HIDE DEF e, m, u
  <2>5. /\ u \in CpuStates /\ Confined(u)
        /\ u.sp = e.sp /\ u.mode = e.mode /\ u.kstack = e.kstack /\ u.ksp = e.ksp
        /\ \A a \in Addr : a # 0 => u.mem[a] = e.mem[a]
    BY <2>1, <2>2, <2>3, <2>4, ServedFrame
  <2>6. CASE FrameRestorable(u, o = "terminate")
    BY <2>1, <2>2, <2>3, <2>4, <2>5, <2>6, HostRoundTrip
  <2>7. CASE ~FrameRestorable(u, o = "terminate")
    BY <2>1, <2>3, <2>4, <2>5, <2>7, HostFrameKept
  <2> QED BY <2>6, <2>7
<1>2. ProtectedInv =>
        [ /\ \E o \in {"continue", "terminate", "throw"}, v \in Data : HostInt(o, v)
          /\ c' # c
          => Came ]_cpuVars
  BY <1>1
<1> QED BY <1>2, ProtectedInvariant, PTL DEF HostServiceReturns
===============================================================================
