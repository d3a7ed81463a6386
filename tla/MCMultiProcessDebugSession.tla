---------------------- MODULE MCMultiProcessDebugSession ----------------------
(***************************************************************************)
(* A debug session of several processes or of one.  A behaviour is about   *)
(* one of the two; the other session stays as it was made.                 *)
(***************************************************************************)
EXTENDS MultiProcessDebugSession

CONSTANTS Executables, SymbolFiles, MemorySize, Radix, Conditions, Watches, MaxId

ASSUME SessionAssumption ==
    /\ MemorySize \in Nat /\ Radix \in Nat \ {0}
    /\ MaxId \in Nat
    /\ Executables \subseteq Seq([op : STRING, at : Nat]) \ {<<>>}
    /\ Watches \subseteq [address : Nat, size : Nat, mode : STRING]

VARIABLES subject, loaded, oneCode, symbols, oneCpu, access, oneBreakpoints,
          conditional_breakpoints, next_conditional_breakpoint_id,
          oneWatchpoints, next_watchpoint_id, last_stop, oneCommand, maxSteps,
          executedSteps, skipInitialBreakpoint, sourceLineBefore, oneResting

One == INSTANCE DebugSession WITH
           code <- oneCode, cpu <- oneCpu, breakpoints <- oneBreakpoints,
           watchpoints <- oneWatchpoints, command <- oneCommand, resting <- oneResting

oneVars == <<loaded, oneCode, symbols, oneCpu, access, oneBreakpoints,
             conditional_breakpoints, next_conditional_breakpoint_id,
             oneWatchpoints, next_watchpoint_id, last_stop, oneCommand, maxSteps,
             executedSteps, skipInitialBreakpoint, sourceLineBefore, oneResting>>

I(op) == [op |-> op, to |-> 0]
J(op, t) == [op |-> op, to |-> t]

Count == <<I("inc"), I("st"), J("jmp", 1)>>
Hang == <<I("inc"), J("jnz", 2)>>
Leave == <<I("st"), I("exit")>>
Ask == <<I("ld"), I("out")>>

SessionInit ==
    /\ DebugInit /\ One!Init
    /\ subject \in {"several", "one"}
    /\ subject = "one" => code = [p \in Pid |-> Hang]

SessionNext ==
    \/ subject = "several" /\ DebugNext /\ UNCHANGED <<subject, oneVars>>
    \/ subject = "one" /\ One!Next /\ UNCHANGED <<subject, allVars>>

SessionSpec ==
    /\ SessionInit /\ [][SessionNext]_<<subject, allVars, oneVars>>
    /\ DebugFairness /\ One!Fairness

-------------------------------------------------------------------------------

\* No breakpoint is run through (both modules).
BreakpointsHonoured == NoMissedBreakpoint /\ One!NoMissedBreakpoint

\* Resuming from a breakpoint executes its instruction (both modules).
ResumeProgresses == NoRepeatedStop /\ One!NoRepeatedStop

\* A watched access is reported by the command that made it (both modules).
WatchpointsHonoured == NoMissedWatchpoint /\ One!NoMissedWatchpoint

\* A source step that completes is at another line (both modules).
SourceStepsMove == SourceStepMoves /\ One!SourceStepMoves

\* Every command returns to the prompt (both modules).
CommandsReturn == CommandsEnd /\ One!CommandsEnd

-------------------------------------------------------------------------------
(* Several processes that loop, count, load, store, exit and fail in a      *)
(* trailing service request.                                                *)

MCPrograms == {Count, Hang, Leave, Ask}

MCPlaces == {<<1, 2>>, <<2, 2>>}

(* One process that counts in memory, hangs, exits, reaches its end with a  *)
(* load, or fails at a store or at a jump; with symbols, without them, or   *)
(* with an unreadable file.                                                 *)

A(op, a) == [op |-> op, at |-> a]

MCExecutables ==
    {<<A("inc", 0), A("st", 1), A("jmp", 2)>>, <<A("ld", 0), A("jmp", 2)>>,
     <<A("st", 0), A("exit", 0)>>, <<A("inc", 0), A("ld", 0)>>, <<A("st", 2)>>,
     <<A("jmp", 2)>>}

MCSymbolFiles ==
    {[header |-> 2, records |-> <<<<"CODE", "a", 2>>, <<"LINE", 7, 1>>, <<"LINE", 9, 3>>>>],
     [header |-> 1, records |-> <<<<"LINE", 7, 1>>>>]}

MCConditions ==
    {[source |-> "MemoryQword", index |-> 1, operation |-> ">=", expected |-> 1]}

MCWatches ==
    {[address |-> 2, size |-> 1, mode |-> "Write"],
     [address |-> 0, size |-> 1, mode |-> "Access"]}
===============================================================================
