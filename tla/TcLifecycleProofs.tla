---------------------------- MODULE TcLifecycleProofs ----------------------------
(***************************************************************************)
(* Proofs about TcLifecycle, for any number of interfaces, program ids,    *)
(* faults and interferences: the types, that every owned filter can be     *)
(* found and switched off, that other programs' filters are left alone,    *)
(* and that a command that reports success did what it is for.             *)
(***************************************************************************)
EXTENDS TcLifecycle, TLAPS

Names == {"attach", "detach", "prune", "health", "ensure", "load", "unload", "disable", "sync"}
Commands ==
  [op : Names, arg : SUBSET Interfaces, step : Steps, todo : SUBSET Places, failed : BOOLEAN]

Running(steps) == command # None /\ command.step \in steps

\* A command is a record, and nothing is reported while it runs.
CommandTyped == command # None => command \in Commands /\ result = None

\* A command that may load an object was given a program id to pin.
IdLeft == command # None /\ command.op \in {"ensure", "load"} => latest < MaxPrograms

\* The program's pin is the first to go and the last to come.
Configured == program # None => maps \in {"old", "complete"}

\* attach uses the program it found pinned.
Attaching == Running({"query", "take", "again"}) => program # None

\* What a sweep has passed, or an interface that appeared behind it, has no
\* filter of the pinned program, unless the sweep is to keep it.
Sweeping ==
  Running({"sweep"}) /\ ~command.failed /\ program # None =>
    \A p \in Places : filters[p] = program => p \in command.todo \/ Keeps(p)

\* Pins are unlinked only after every filter is gone; the maps after the program.
Unlinking ==
  /\ Running({"unlink program", "unlink maps", "load", "schema", "pin"}) =>
       \A p \in Places : filters[p] \notin Programs
  /\ Running({"unlink maps", "load", "schema", "pin"}) => program = None
  /\ Running({"load", "schema", "pin"}) => ~enabled
  /\ Running({"pin"}) => maps = "complete"

\* What an inspection has established so far.
Inspecting ==
  /\ Running({"listed", "verify"}) => Available /\ enabled
  /\ Running({"listed"}) =>
       disturbed \/ (command.arg \X {"main"}) \ command.todo \subseteq Owned(program)
  /\ Running({"verify"}) =>
       /\ disturbed \/ command.arg \X {"main"} \subseteq Owned(program)
       /\ Elsewhere(command.arg) \subseteq command.todo

\* What a report of success says, and that what was detached was pinned: a place
\* without a filter is not a place of "no program".
Accomplished(op, arg) ==
  op \in Names /\ Reached(op, arg) /\ (op = "detach" => program # None)

\* A report of success is true until the next command, or until others interfere.
ReportTrue ==
  command = None /\ result # None /\ result.ok => Accomplished(result.op, result.arg)

\* The inductive invariant.
IInv ==
  /\ TypeOK
  /\ CommandTyped
  /\ IdLeft
  /\ Configured
  /\ Attaching
  /\ Sweeping
  /\ Unlinking
  /\ Inspecting
  /\ ReportTrue
  /\ Controllable

--------------------------------------------------------------------------------
(* Facts about places, operations and the helpers of the commands.         *)

\* There is at least one program.
LEMMA Bounds == MaxPrograms \in Nat /\ MaxPrograms > 0
  BY BoundAssumption

\* An operation is a pair of a name and interfaces.
LEMMA OperationFacts ==
  ASSUME NEW c \in Operations
  PROVE  c = <<c[1], c[2]>> /\ c[1] \in Names /\ c[2] \subseteq Interfaces
  BY DEF Operations, Names

\* A place is a pair of an interface and a coordinate.
LEMMA PlaceOf ==
  ASSUME NEW p \in Places
  PROVE  p = <<p[1], p[2]>> /\ p[1] \in Interfaces /\ p[2] \in Coordinates
  BY DEF Places

\* What commands work off are places.
LEMMA PlaceFacts ==
  ASSUME TypeOK, CommandTyped
  PROVE  /\ \A i \in Interfaces : <<i, "main">> \in Places
         /\ exists \X Coordinates \subseteq Places
         /\ command # None => command.arg \X {"main"} \subseteq Places
  BY DEF Places, Coordinates, TypeOK, CommandTyped, Commands

\* A program attached to an interface that is there keeps the types of filters.
LEMMA TakenPlace ==
  ASSUME NEW i \in exists, filters \in [Places -> Programs \cup {None, Foreign}],
         \A p \in Places : p[1] \notin exists => filters[p] = None,
         program \in Programs \cup {None}, <<i, "main">> \in Places,
         filters' = [filters EXCEPT ![<<i, "main">>] = program]
  PROVE  /\ filters' \in [Places -> Programs \cup {None, Foreign}]
         /\ \A p \in Places : p[1] \notin exists => filters'[p] = None
  OBVIOUS

\* Program ids are counted in natural numbers.
LEMMA LatestId ==
  ASSUME TypeOK
  PROVE  latest \in Nat
<1>1. latest \in 0 .. MaxPrograms
  BY DEF TypeOK
<1>2. QED
  BY <1>1, Bounds

\* The next id is within the bound.
LEMMA NextId ==
  ASSUME latest \in Nat, latest' = latest + 1, latest < MaxPrograms
  PROVE  latest' \in Programs /\ latest' \in 0 .. MaxPrograms
  BY Bounds DEF Programs

\* A sweep of every place that there is leaves none out.
LEMMA SweepBegins ==
  ASSUME TypeOK, CommandTyped, command # None, BeginSweep, UNCHANGED <<filters, program>>
  PROVE  Sweeping'
<1>1. ASSUME program # None, NEW p \in Places, filters[p] = program
      PROVE  p \in exists \X Coordinates
  BY <1>1, PlaceOf DEF TypeOK
<1>2. QED
  BY <1>1 DEF BeginSweep, Sweeping, Running, CommandTyped, Commands

--------------------------------------------------------------------------------
(* Types.                                                                  *)

\* A boot or an upgrade is a good start.
LEMMA InitIInv == Init => IInv
<1> SUFFICES ASSUME Init
             PROVE  IInv
  OBVIOUS
<1>1. exists \subseteq Interfaces /\ command = None /\ result = None /\ disturbed = FALSE
  BY DEF Init
<1>2. TypeOK /\ Configured /\ Controllable
  <2>1. CASE program = None /\ maps = "none" /\ latest = 0 /\ enabled = FALSE
             /\ filters = [p \in Places |-> None]
    <3>1. 0 \in 0 .. MaxPrograms /\ \A p \in Places : filters[p] = None
      BY <2>1, Bounds
    <3>2. QED
      BY <1>1, <2>1, <3>1, NameAssumption DEF TypeOK, Configured, Controllable
  <2>2. CASE program = 1 /\ maps = "old" /\ latest = 1 /\ enabled = TRUE
             /\ filters = [p \in Places |-> IF p \in exists \X {"legacy"} THEN 1 ELSE None]
    <3>1. 1 \in Programs /\ 1 \in 0 .. MaxPrograms
      BY Bounds DEF Programs
    <3>2. \A p \in Places : p[1] \notin exists => filters[p] = None
      BY <2>2, PlaceOf
    <3>3. QED
      BY <1>1, <2>2, <3>1, <3>2, NameAssumption DEF TypeOK, Configured, Controllable
  <2>3. QED
    BY <2>1, <2>2 DEF Init
<1>3. QED
  BY <1>1, <1>2 DEF IInv, CommandTyped, IdLeft, Attaching, Sweeping, Unlinking, Inspecting,
                    ReportTrue, Running

\* Every step keeps the types, ...
LEMMA TypeStep == TypeOK /\ CommandTyped /\ IdLeft /\ [Next]_vars => TypeOK'
<1> SUFFICES ASSUME TypeOK /\ CommandTyped /\ IdLeft, [Next]_vars
             PROVE  TypeOK'
  OBVIOUS
<1> USE NameAssumption, Bounds DEF TypeOK, CommandTyped, IdLeft, Commands, Steps,
   Programs
<1>1. ASSUME NEW c \in Operations, Lock(c[1], c[2]) PROVE TypeOK'
  BY <1>1, OperationFacts DEF Lock, object
<1>2. ASSUME AttachCheck PROVE TypeOK'
  BY <1>2 DEF AttachCheck, At, Goto, Exit, Fail, world, object
<1>3. ASSUME AttachQuery PROVE TypeOK'
  BY <1>3 DEF AttachQuery, At, Goto, Exit, Fail, world, object
<1>4. ASSUME AttachTake PROVE TypeOK'
  <2>1. UNCHANGED <<world, object>>
    BY <1>4 DEF AttachTake
  <2>2. /\ filters' \in [Places -> Programs \cup {None, Foreign}]
        /\ \A p \in Places : p[1] \notin exists' => filters'[p] = None
    <3>1. CASE UNCHANGED filters
      BY <2>1, <3>1 DEF world
    <3>2. ASSUME NEW i \in Interfaces, Only(i),
                 filters' = [filters EXCEPT ![<<i, "main">>] = program]
          PROVE  /\ filters' \in [Places -> Programs \cup {None, Foreign}]
                 /\ \A p \in Places : p[1] \notin exists' => filters'[p] = None
      BY <2>1, <3>2, PlaceFacts, TakenPlace DEF world, Only
    <3>3. QED
      BY <1>4, <3>1, <3>2 DEF AttachTake
  <2>3. command' # None =>
          /\ <<command'.op, command'.arg>> \in Operations /\ command'.step \in Steps
          /\ command'.todo \subseteq Places /\ command'.failed \in BOOLEAN
    BY <1>4 DEF AttachTake, At, Goto, Exit, Fail
  <2>4. QED
    BY <2>1, <2>2, <2>3 DEF world, object
<1>5. ASSUME AttachAgain PROVE TypeOK'
  BY <1>5 DEF AttachAgain, At, Goto, Exit, world, object
<1>6. ASSUME Detach PROVE TypeOK'
  BY <1>6, PlaceFacts DEF Detach, At, Goto, Exit, Fail, world, object
<1>7. ASSUME PruneCheck PROVE TypeOK'
  BY <1>7, PlaceFacts DEF PruneCheck, BeginSweep, At, Goto, Exit, Fail, world, object
<1>8. ASSUME NEW p \in Places, Sweep(p) PROVE TypeOK'
  BY <1>8 DEF Sweep, At, Goto, Exit, Fail, world, object
<1>9. ASSUME Swept PROVE TypeOK'
  BY <1>9 DEF Swept, At, Goto, Exit, world, object
<1>10. ASSUME LoadCheck PROVE TypeOK'
  BY <1>10, PlaceFacts DEF LoadCheck, BeginSweep, At, Goto, Exit, Fail, world, object
<1>11. ASSUME UnloadDisable PROVE TypeOK'
  BY <1>11, PlaceFacts DEF UnloadDisable, BeginSweep, At, Goto, Exit, Fail, world,
     object
<1>12. ASSUME UnlinkProgram PROVE TypeOK'
  BY <1>12 DEF UnlinkProgram, At, Goto, Exit, Fail, world, object
<1>13. ASSUME UnlinkMaps PROVE TypeOK'
  BY <1>13 DEF UnlinkMaps, At, Goto, Exit, Fail, world, object
<1>14. ASSUME LoadMaps PROVE TypeOK'
  BY <1>14 DEF LoadMaps, At, Goto, Exit, Fail, world, object
<1>15. ASSUME WriteSchema PROVE TypeOK'
  BY <1>15 DEF WriteSchema, At, Goto, Exit, Fail, world, object
<1>16. ASSUME PinProgram PROVE TypeOK'
  <2>1. command # None /\ command.op \in {"ensure", "load"}
    BY <1>16 DEF PinProgram, At
  <2>2. latest \in Nat /\ latest < MaxPrograms /\ latest' = latest + 1
    <3>1. latest < MaxPrograms
      BY <2>1
    <3>2. latest' = latest + 1
      BY <1>16 DEF PinProgram
    <3>3. latest \in Nat
      BY LatestId
    <3>4. QED
      BY <3>1, <3>2, <3>3
  <2>3. latest' \in Programs /\ latest' \in 0 .. MaxPrograms
    BY <2>2, NextId
  <2>4. QED
    BY <1>16, <2>3 DEF PinProgram, Exit, Fail, world
<1>17. ASSUME Disable PROVE TypeOK'
  BY <1>17 DEF Disable, At, Goto, Exit, Fail, world, object
<1>18. ASSUME Sync PROVE TypeOK'
  BY <1>18 DEF Sync, At, Goto, Exit, Fail, world, object
<1>19. ASSUME HealthCheck PROVE TypeOK'
  BY <1>19, PlaceFacts DEF HealthCheck, At, Goto, Exit, world, object
<1>20. ASSUME NEW p \in Places, Listed(p) PROVE TypeOK'
  BY <1>20 DEF Listed, At, Goto, Exit, world, object
<1>21. ASSUME AllListed PROVE TypeOK'
  BY <1>21, PlaceFacts DEF AllListed, At, Goto, Exit, world, object
<1>22. ASSUME NEW p \in Places, Verify(p) PROVE TypeOK'
  BY <1>22 DEF Verify, At, Goto, Exit, world, object
<1>23. ASSUME Verified PROVE TypeOK'
  BY <1>23 DEF Verified, At, Goto, Exit, world, object
<1>24. ASSUME Kill PROVE TypeOK'
  BY <1>24 DEF Kill, world, object
<1>25. ASSUME NEW i \in Interfaces, Appear(i) PROVE TypeOK'
  BY <1>25 DEF Appear, Event, world, object, Places
<1>26. ASSUME NEW i \in Interfaces, Vanish(i) PROVE TypeOK'
  BY <1>26 DEF Vanish, Event, world, object, Places
<1>27. ASSUME NEW p \in Places, Others(p) PROVE TypeOK'
  BY <1>27 DEF Others, Event, world, object
<1>28. CASE UNCHANGED vars
  BY <1>28 DEF vars
<1>29. QED
  BY <1>1, <1>2, <1>3, <1>4, <1>5, <1>6, <1>7, <1>8, <1>9, <1>10, <1>11, <1>12, <1>13,
     <1>14, <1>15, <1>16, <1>17, <1>18, <1>19, <1>20, <1>21, <1>22, <1>23, <1>24, <1>25,
     <1>26, <1>27, <1>28 DEF Next, Command

\* ... and the record of the command, ...
LEMMA CommandStep == TypeOK /\ CommandTyped /\ [Next]_vars => CommandTyped'
<1> SUFFICES ASSUME TypeOK /\ CommandTyped, [Next]_vars
             PROVE  CommandTyped'
  OBVIOUS
<1> USE DEF TypeOK, CommandTyped, Commands, Steps
<1>1. ASSUME NEW c \in Operations, Lock(c[1], c[2]) PROVE CommandTyped'
  BY <1>1, OperationFacts DEF Lock, object
<1>2. ASSUME AttachCheck PROVE CommandTyped'
  BY <1>2 DEF AttachCheck, At, Goto, Exit, Fail, world, object
<1>3. ASSUME AttachQuery PROVE CommandTyped'
  BY <1>3 DEF AttachQuery, At, Goto, Exit, Fail, world, object
<1>4. ASSUME AttachTake PROVE CommandTyped'
  BY <1>4 DEF AttachTake, At, Goto, Exit, Fail, world, object
<1>5. ASSUME AttachAgain PROVE CommandTyped'
  BY <1>5 DEF AttachAgain, At, Goto, Exit, world, object
<1>6. ASSUME Detach PROVE CommandTyped'
  BY <1>6, PlaceFacts DEF Detach, At, Goto, Exit, Fail, world, object
<1>7. ASSUME PruneCheck PROVE CommandTyped'
  BY <1>7, PlaceFacts DEF PruneCheck, BeginSweep, At, Goto, Exit, Fail, world, object
<1>8. ASSUME NEW p \in Places, Sweep(p) PROVE CommandTyped'
  BY <1>8 DEF Sweep, At, Goto, Exit, Fail, world, object
<1>9. ASSUME Swept PROVE CommandTyped'
  BY <1>9 DEF Swept, At, Goto, Exit, world, object
<1>10. ASSUME LoadCheck PROVE CommandTyped'
  BY <1>10, PlaceFacts DEF LoadCheck, BeginSweep, At, Goto, Exit, Fail, world, object
<1>11. ASSUME UnloadDisable PROVE CommandTyped'
  BY <1>11, PlaceFacts DEF UnloadDisable, BeginSweep, At, Goto, Exit, Fail, world,
     object
<1>12. ASSUME UnlinkProgram PROVE CommandTyped'
  BY <1>12 DEF UnlinkProgram, At, Goto, Exit, Fail, world, object
<1>13. ASSUME UnlinkMaps PROVE CommandTyped'
  BY <1>13 DEF UnlinkMaps, At, Goto, Exit, Fail, world, object
<1>14. ASSUME LoadMaps PROVE CommandTyped'
  BY <1>14 DEF LoadMaps, At, Goto, Exit, Fail, world, object
<1>15. ASSUME WriteSchema PROVE CommandTyped'
  BY <1>15 DEF WriteSchema, At, Goto, Exit, Fail, world, object
<1>16. ASSUME PinProgram PROVE CommandTyped'
  BY <1>16 DEF PinProgram, At, Goto, Exit, Fail, world, object
<1>17. ASSUME Disable PROVE CommandTyped'
  BY <1>17 DEF Disable, At, Goto, Exit, Fail, world, object
<1>18. ASSUME Sync PROVE CommandTyped'
  BY <1>18 DEF Sync, At, Goto, Exit, Fail, world, object
<1>19. ASSUME HealthCheck PROVE CommandTyped'
  BY <1>19, PlaceFacts DEF HealthCheck, At, Goto, Exit, world, object
<1>20. ASSUME NEW p \in Places, Listed(p) PROVE CommandTyped'
  BY <1>20 DEF Listed, At, Goto, Exit, world, object
<1>21. ASSUME AllListed PROVE CommandTyped'
  BY <1>21, PlaceFacts DEF AllListed, At, Goto, Exit, world, object
<1>22. ASSUME NEW p \in Places, Verify(p) PROVE CommandTyped'
  BY <1>22 DEF Verify, At, Goto, Exit, world, object
<1>23. ASSUME Verified PROVE CommandTyped'
  BY <1>23 DEF Verified, At, Goto, Exit, world, object
<1>24. ASSUME Kill PROVE CommandTyped'
  BY <1>24 DEF Kill, world, object
<1>25. ASSUME NEW i \in Interfaces, Appear(i) PROVE CommandTyped'
  BY <1>25 DEF Appear, Event, world, object
<1>26. ASSUME NEW i \in Interfaces, Vanish(i) PROVE CommandTyped'
  BY <1>26 DEF Vanish, Event, world, object
<1>27. ASSUME NEW p \in Places, Others(p) PROVE CommandTyped'
  BY <1>27 DEF Others, Event, world, object
<1>28. CASE UNCHANGED vars
  BY <1>28 DEF vars
<1>29. QED
  BY <1>1, <1>2, <1>3, <1>4, <1>5, <1>6, <1>7, <1>8, <1>9, <1>10, <1>11, <1>12, <1>13,
     <1>14, <1>15, <1>16, <1>17, <1>18, <1>19, <1>20, <1>21, <1>22, <1>23, <1>24, <1>25,
     <1>26, <1>27, <1>28 DEF Next, Command

\* ... and an id for whoever may need one.
LEMMA IdStep == TypeOK /\ CommandTyped /\ IdLeft /\ [Next]_vars => IdLeft'
<1> SUFFICES ASSUME TypeOK /\ CommandTyped /\ IdLeft, [Next]_vars
             PROVE  IdLeft'
  OBVIOUS
<1> USE DEF TypeOK, CommandTyped, IdLeft, Commands
<1>1. ASSUME NEW c \in Operations, Lock(c[1], c[2]) PROVE IdLeft'
  BY <1>1, OperationFacts DEF Lock, object
<1>2. ASSUME AttachCheck PROVE IdLeft'
  BY <1>2 DEF AttachCheck, At, Goto, Exit, Fail, world, object
<1>3. ASSUME AttachQuery PROVE IdLeft'
  BY <1>3 DEF AttachQuery, At, Goto, Exit, Fail, world, object
<1>4. ASSUME AttachTake PROVE IdLeft'
  BY <1>4 DEF AttachTake, At, Goto, Exit, Fail, world, object
<1>5. ASSUME AttachAgain PROVE IdLeft'
  BY <1>5 DEF AttachAgain, At, Goto, Exit, world, object
<1>6. ASSUME Detach PROVE IdLeft'
  BY <1>6 DEF Detach, At, Goto, Exit, Fail, world, object
<1>7. ASSUME PruneCheck PROVE IdLeft'
  BY <1>7 DEF PruneCheck, BeginSweep, At, Goto, Exit, Fail, world, object
<1>8. ASSUME NEW p \in Places, Sweep(p) PROVE IdLeft'
  BY <1>8 DEF Sweep, At, Goto, Exit, Fail, world, object
<1>9. ASSUME Swept PROVE IdLeft'
  BY <1>9 DEF Swept, At, Goto, Exit, world, object
<1>10. ASSUME LoadCheck PROVE IdLeft'
  BY <1>10 DEF LoadCheck, BeginSweep, At, Goto, Exit, Fail, world, object
<1>11. ASSUME UnloadDisable PROVE IdLeft'
  BY <1>11 DEF UnloadDisable, BeginSweep, At, Goto, Exit, Fail, world, object
<1>12. ASSUME UnlinkProgram PROVE IdLeft'
  BY <1>12 DEF UnlinkProgram, At, Goto, Exit, Fail, world, object
<1>13. ASSUME UnlinkMaps PROVE IdLeft'
  BY <1>13 DEF UnlinkMaps, At, Goto, Exit, Fail, world, object
<1>14. ASSUME LoadMaps PROVE IdLeft'
  BY <1>14 DEF LoadMaps, At, Goto, Exit, Fail, world, object
<1>15. ASSUME WriteSchema PROVE IdLeft'
  BY <1>15 DEF WriteSchema, At, Goto, Exit, Fail, world, object
<1>16. ASSUME PinProgram PROVE IdLeft'
  BY <1>16 DEF PinProgram, At, Goto, Exit, Fail, world, object
<1>17. ASSUME Disable PROVE IdLeft'
  BY <1>17 DEF Disable, At, Goto, Exit, Fail, world, object
<1>18. ASSUME Sync PROVE IdLeft'
  BY <1>18 DEF Sync, At, Goto, Exit, Fail, world, object
<1>19. ASSUME HealthCheck PROVE IdLeft'
  BY <1>19 DEF HealthCheck, At, Goto, Exit, world, object
<1>20. ASSUME NEW p \in Places, Listed(p) PROVE IdLeft'
  BY <1>20 DEF Listed, At, Goto, Exit, world, object
<1>21. ASSUME AllListed PROVE IdLeft'
  BY <1>21 DEF AllListed, At, Goto, Exit, world, object
<1>22. ASSUME NEW p \in Places, Verify(p) PROVE IdLeft'
  BY <1>22 DEF Verify, At, Goto, Exit, world, object
<1>23. ASSUME Verified PROVE IdLeft'
  BY <1>23 DEF Verified, At, Goto, Exit, world, object
<1>24. ASSUME Kill PROVE IdLeft'
  BY <1>24 DEF Kill, world, object
<1>25. ASSUME NEW i \in Interfaces, Appear(i) PROVE IdLeft'
  BY <1>25 DEF Appear, Event, world, object
<1>26. ASSUME NEW i \in Interfaces, Vanish(i) PROVE IdLeft'
  BY <1>26 DEF Vanish, Event, world, object
<1>27. ASSUME NEW p \in Places, Others(p) PROVE IdLeft'
  BY <1>27 DEF Others, Event, world, object
<1>28. CASE UNCHANGED vars
  BY <1>28 DEF vars
<1>29. QED
  BY <1>1, <1>2, <1>3, <1>4, <1>5, <1>6, <1>7, <1>8, <1>9, <1>10, <1>11, <1>12, <1>13,
     <1>14, <1>15, <1>16, <1>17, <1>18, <1>19, <1>20, <1>21, <1>22, <1>23, <1>24, <1>25,
     <1>26, <1>27, <1>28 DEF Next, Command

--------------------------------------------------------------------------------
(* The parts of the invariant.                                             *)

\* The program is pinned only beside complete maps.
LEMMA ConfiguredStep == IInv /\ [Next]_vars => Configured'
<1> SUFFICES ASSUME IInv, [Next]_vars
             PROVE  Configured'
  OBVIOUS
<1> USE DEF IInv, TypeOK, CommandTyped, Commands, Configured, Unlinking, Running
<1>1. ASSUME NEW c \in Operations, Lock(c[1], c[2]) PROVE Configured'
  BY <1>1 DEF Lock, object
<1>2. ASSUME AttachCheck PROVE Configured'
  BY <1>2 DEF AttachCheck, At, Goto, Exit, Fail, world, object
<1>3. ASSUME AttachQuery PROVE Configured'
  BY <1>3 DEF AttachQuery, At, Goto, Exit, Fail, world, object
<1>4. ASSUME AttachTake PROVE Configured'
  BY <1>4 DEF AttachTake, At, Goto, Exit, Fail, world, object
<1>5. ASSUME AttachAgain PROVE Configured'
  BY <1>5 DEF AttachAgain, At, Goto, Exit, world, object
<1>6. ASSUME Detach PROVE Configured'
  BY <1>6 DEF Detach, At, Goto, Exit, Fail, world, object
<1>7. ASSUME PruneCheck PROVE Configured'
  BY <1>7 DEF PruneCheck, BeginSweep, At, Goto, Exit, Fail, world, object
<1>8. ASSUME NEW p \in Places, Sweep(p) PROVE Configured'
  BY <1>8 DEF Sweep, At, Goto, Exit, Fail, world, object
<1>9. ASSUME Swept PROVE Configured'
  BY <1>9 DEF Swept, At, Goto, Exit, world, object
<1>10. ASSUME LoadCheck PROVE Configured'
  BY <1>10 DEF LoadCheck, BeginSweep, At, Goto, Exit, Fail, world, object
<1>11. ASSUME UnloadDisable PROVE Configured'
  BY <1>11 DEF UnloadDisable, BeginSweep, At, Goto, Exit, Fail, world, object
<1>12. ASSUME UnlinkProgram PROVE Configured'
  BY <1>12 DEF UnlinkProgram, At, Goto, Exit, Fail, world, object
<1>13. ASSUME UnlinkMaps PROVE Configured'
  BY <1>13 DEF UnlinkMaps, At, Goto, Exit, Fail, world, object
<1>14. ASSUME LoadMaps PROVE Configured'
  BY <1>14 DEF LoadMaps, At, Goto, Exit, Fail, world, object
<1>15. ASSUME WriteSchema PROVE Configured'
  BY <1>15 DEF WriteSchema, At, Goto, Exit, Fail, world, object
<1>16. ASSUME PinProgram PROVE Configured'
  BY <1>16 DEF PinProgram, At, Goto, Exit, Fail, world, object
<1>17. ASSUME Disable PROVE Configured'
  BY <1>17 DEF Disable, At, Goto, Exit, Fail, world, object
<1>18. ASSUME Sync PROVE Configured'
  BY <1>18 DEF Sync, At, Goto, Exit, Fail, world, object
<1>19. ASSUME HealthCheck PROVE Configured'
  BY <1>19 DEF HealthCheck, At, Goto, Exit, world, object
<1>20. ASSUME NEW p \in Places, Listed(p) PROVE Configured'
  BY <1>20 DEF Listed, At, Goto, Exit, world, object
<1>21. ASSUME AllListed PROVE Configured'
  BY <1>21 DEF AllListed, At, Goto, Exit, world, object
<1>22. ASSUME NEW p \in Places, Verify(p) PROVE Configured'
  BY <1>22 DEF Verify, At, Goto, Exit, world, object
<1>23. ASSUME Verified PROVE Configured'
  BY <1>23 DEF Verified, At, Goto, Exit, world, object
<1>24. ASSUME Kill PROVE Configured'
  BY <1>24 DEF Kill, world, object
<1>25. ASSUME NEW i \in Interfaces, Appear(i) PROVE Configured'
  BY <1>25 DEF Appear, Event, world, object
<1>26. ASSUME NEW i \in Interfaces, Vanish(i) PROVE Configured'
  BY <1>26 DEF Vanish, Event, world, object
<1>27. ASSUME NEW p \in Places, Others(p) PROVE Configured'
  BY <1>27 DEF Others, Event, world, object
<1>28. CASE UNCHANGED vars
  BY <1>28 DEF vars
<1>29. QED
  BY <1>1, <1>2, <1>3, <1>4, <1>5, <1>6, <1>7, <1>8, <1>9, <1>10, <1>11, <1>12, <1>13,
     <1>14, <1>15, <1>16, <1>17, <1>18, <1>19, <1>20, <1>21, <1>22, <1>23, <1>24, <1>25,
     <1>26, <1>27, <1>28 DEF Next, Command

\* Only the command itself could unpin the program it attaches.
LEMMA AttachingStep == IInv /\ [Next]_vars => Attaching'
<1> SUFFICES ASSUME IInv, [Next]_vars
             PROVE  Attaching'
  OBVIOUS
<1> USE DEF IInv, TypeOK, CommandTyped, Commands, Attaching, Running
<1>1. ASSUME NEW c \in Operations, Lock(c[1], c[2]) PROVE Attaching'
  BY <1>1 DEF Lock, object
<1>2. ASSUME AttachCheck PROVE Attaching'
  BY <1>2 DEF AttachCheck, At, Goto, Exit, Fail, world, object
<1>3. ASSUME AttachQuery PROVE Attaching'
  BY <1>3 DEF AttachQuery, At, Goto, Exit, Fail, world, object
<1>4. ASSUME AttachTake PROVE Attaching'
  BY <1>4 DEF AttachTake, At, Goto, Exit, Fail, world, object
<1>5. ASSUME AttachAgain PROVE Attaching'
  BY <1>5 DEF AttachAgain, At, Goto, Exit, world, object
<1>6. ASSUME Detach PROVE Attaching'
  BY <1>6 DEF Detach, At, Goto, Exit, Fail, world, object
<1>7. ASSUME PruneCheck PROVE Attaching'
  BY <1>7 DEF PruneCheck, BeginSweep, At, Goto, Exit, Fail, world, object
<1>8. ASSUME NEW p \in Places, Sweep(p) PROVE Attaching'
  BY <1>8 DEF Sweep, At, Goto, Exit, Fail, world, object
<1>9. ASSUME Swept PROVE Attaching'
  BY <1>9 DEF Swept, At, Goto, Exit, world, object
<1>10. ASSUME LoadCheck PROVE Attaching'
  BY <1>10 DEF LoadCheck, BeginSweep, At, Goto, Exit, Fail, world, object
<1>11. ASSUME UnloadDisable PROVE Attaching'
  BY <1>11 DEF UnloadDisable, BeginSweep, At, Goto, Exit, Fail, world, object
<1>12. ASSUME UnlinkProgram PROVE Attaching'
  BY <1>12 DEF UnlinkProgram, At, Goto, Exit, Fail, world, object
<1>13. ASSUME UnlinkMaps PROVE Attaching'
  BY <1>13 DEF UnlinkMaps, At, Goto, Exit, Fail, world, object
<1>14. ASSUME LoadMaps PROVE Attaching'
  BY <1>14 DEF LoadMaps, At, Goto, Exit, Fail, world, object
<1>15. ASSUME WriteSchema PROVE Attaching'
  BY <1>15 DEF WriteSchema, At, Goto, Exit, Fail, world, object
<1>16. ASSUME PinProgram PROVE Attaching'
  BY <1>16 DEF PinProgram, At, Goto, Exit, Fail, world, object
<1>17. ASSUME Disable PROVE Attaching'
  BY <1>17 DEF Disable, At, Goto, Exit, Fail, world, object
<1>18. ASSUME Sync PROVE Attaching'
  BY <1>18 DEF Sync, At, Goto, Exit, Fail, world, object
<1>19. ASSUME HealthCheck PROVE Attaching'
  BY <1>19 DEF HealthCheck, At, Goto, Exit, world, object
<1>20. ASSUME NEW p \in Places, Listed(p) PROVE Attaching'
  BY <1>20 DEF Listed, At, Goto, Exit, world, object
<1>21. ASSUME AllListed PROVE Attaching'
  BY <1>21 DEF AllListed, At, Goto, Exit, world, object
<1>22. ASSUME NEW p \in Places, Verify(p) PROVE Attaching'
  BY <1>22 DEF Verify, At, Goto, Exit, world, object
<1>23. ASSUME Verified PROVE Attaching'
  BY <1>23 DEF Verified, At, Goto, Exit, world, object
<1>24. ASSUME Kill PROVE Attaching'
  BY <1>24 DEF Kill, world, object
<1>25. ASSUME NEW i \in Interfaces, Appear(i) PROVE Attaching'
  BY <1>25 DEF Appear, Event, world, object
<1>26. ASSUME NEW i \in Interfaces, Vanish(i) PROVE Attaching'
  BY <1>26 DEF Vanish, Event, world, object
<1>27. ASSUME NEW p \in Places, Others(p) PROVE Attaching'
  BY <1>27 DEF Others, Event, world, object
<1>28. CASE UNCHANGED vars
  BY <1>28 DEF vars
<1>29. QED
  BY <1>1, <1>2, <1>3, <1>4, <1>5, <1>6, <1>7, <1>8, <1>9, <1>10, <1>11, <1>12, <1>13,
     <1>14, <1>15, <1>16, <1>17, <1>18, <1>19, <1>20, <1>21, <1>22, <1>23, <1>24, <1>25,
     <1>26, <1>27, <1>28 DEF Next, Command

\* A filter is attached only for the pinned program, and the pin goes only
\* after the filters.
LEMMA ControllableStep == IInv /\ [Next]_vars => Controllable'
<1> SUFFICES ASSUME IInv, [Next]_vars
             PROVE  Controllable'
  OBVIOUS
<1> USE NameAssumption DEF IInv, TypeOK, CommandTyped, Commands, Controllable,
   Attaching, Configured, Unlinking, Running
<1>1. ASSUME NEW c \in Operations, Lock(c[1], c[2]) PROVE Controllable'
  BY <1>1 DEF Lock, object
<1>2. ASSUME AttachCheck PROVE Controllable'
  BY <1>2 DEF AttachCheck, At, Goto, Exit, Fail, world, object
<1>3. ASSUME AttachQuery PROVE Controllable'
  BY <1>3 DEF AttachQuery, At, Goto, Exit, Fail, world, object
<1>4. ASSUME AttachTake PROVE Controllable'
  BY <1>4 DEF AttachTake, At, Goto, Exit, Fail, world, object, Only
<1>5. ASSUME AttachAgain PROVE Controllable'
  BY <1>5 DEF AttachAgain, At, Goto, Exit, world, object
<1>6. ASSUME Detach PROVE Controllable'
  BY <1>6 DEF Detach, At, Goto, Exit, Fail, world, object, Only
<1>7. ASSUME PruneCheck PROVE Controllable'
  BY <1>7 DEF PruneCheck, BeginSweep, At, Goto, Exit, Fail, world, object
<1>8. ASSUME NEW p \in Places, Sweep(p) PROVE Controllable'
  BY <1>8 DEF Sweep, At, Goto, Exit, Fail, world, object
<1>9. ASSUME Swept PROVE Controllable'
  BY <1>9 DEF Swept, At, Goto, Exit, world, object
<1>10. ASSUME LoadCheck PROVE Controllable'
  BY <1>10 DEF LoadCheck, BeginSweep, At, Goto, Exit, Fail, world, object
<1>11. ASSUME UnloadDisable PROVE Controllable'
  BY <1>11 DEF UnloadDisable, BeginSweep, At, Goto, Exit, Fail, world, object
<1>12. ASSUME UnlinkProgram PROVE Controllable'
  BY <1>12 DEF UnlinkProgram, At, Goto, Exit, Fail, world, object
<1>13. ASSUME UnlinkMaps PROVE Controllable'
  BY <1>13 DEF UnlinkMaps, At, Goto, Exit, Fail, world, object
<1>14. ASSUME LoadMaps PROVE Controllable'
  BY <1>14 DEF LoadMaps, At, Goto, Exit, Fail, world, object
<1>15. ASSUME WriteSchema PROVE Controllable'
  BY <1>15 DEF WriteSchema, At, Goto, Exit, Fail, world, object
<1>16. ASSUME PinProgram PROVE Controllable'
  BY <1>16 DEF PinProgram, At, Goto, Exit, Fail, world, object
<1>17. ASSUME Disable PROVE Controllable'
  BY <1>17 DEF Disable, At, Goto, Exit, Fail, world, object
<1>18. ASSUME Sync PROVE Controllable'
  BY <1>18 DEF Sync, At, Goto, Exit, Fail, world, object
<1>19. ASSUME HealthCheck PROVE Controllable'
  BY <1>19 DEF HealthCheck, At, Goto, Exit, world, object
<1>20. ASSUME NEW p \in Places, Listed(p) PROVE Controllable'
  BY <1>20 DEF Listed, At, Goto, Exit, world, object
<1>21. ASSUME AllListed PROVE Controllable'
  BY <1>21 DEF AllListed, At, Goto, Exit, world, object
<1>22. ASSUME NEW p \in Places, Verify(p) PROVE Controllable'
  BY <1>22 DEF Verify, At, Goto, Exit, world, object
<1>23. ASSUME Verified PROVE Controllable'
  BY <1>23 DEF Verified, At, Goto, Exit, world, object
<1>24. ASSUME Kill PROVE Controllable'
  BY <1>24 DEF Kill, world, object
<1>25. ASSUME NEW i \in Interfaces, Appear(i) PROVE Controllable'
  BY <1>25 DEF Appear, Event, world, object
<1>26. ASSUME NEW i \in Interfaces, Vanish(i) PROVE Controllable'
  BY <1>26 DEF Vanish, Event, world, object
<1>27. ASSUME NEW p \in Places, Others(p) PROVE Controllable'
  BY <1>27 DEF Others, Event, world, object
<1>28. CASE UNCHANGED vars
  BY <1>28 DEF vars
<1>29. QED
  BY <1>1, <1>2, <1>3, <1>4, <1>5, <1>6, <1>7, <1>8, <1>9, <1>10, <1>11, <1>12, <1>13,
     <1>14, <1>15, <1>16, <1>17, <1>18, <1>19, <1>20, <1>21, <1>22, <1>23, <1>24, <1>25,
     <1>26, <1>27, <1>28 DEF Next, Command

\* A sweep detaches what it passes; others add no filter of ours behind it.
LEMMA SweepingStep == IInv /\ [Next]_vars => Sweeping'
<1> SUFFICES ASSUME IInv, [Next]_vars
             PROVE  Sweeping'
  OBVIOUS
<1> USE NameAssumption DEF IInv, TypeOK, CommandTyped, Commands, Sweeping, Running,
   Keeps
<1>1. ASSUME NEW c \in Operations, Lock(c[1], c[2]) PROVE Sweeping'
  BY <1>1 DEF Lock, object
<1>2. ASSUME AttachCheck PROVE Sweeping'
  BY <1>2 DEF AttachCheck, At, Goto, Exit, Fail, world, object
<1>3. ASSUME AttachQuery PROVE Sweeping'
  BY <1>3 DEF AttachQuery, At, Goto, Exit, Fail, world, object
<1>4. ASSUME AttachTake PROVE Sweeping'
  BY <1>4 DEF AttachTake, At, Goto, Exit, Fail, world, object
<1>5. ASSUME AttachAgain PROVE Sweeping'
  BY <1>5 DEF AttachAgain, At, Goto, Exit, world, object
<1>6. ASSUME Detach PROVE Sweeping'
  BY <1>6 DEF Detach, At, Goto, Exit, Fail, world, object
<1>7. ASSUME PruneCheck PROVE Sweeping'
  <2>1. CASE BeginSweep /\ command # None
    BY <1>7, <2>1, SweepBegins DEF PruneCheck, IInv, world, object
  <2>2. CASE ~(BeginSweep /\ command # None)
    BY <1>7, <2>2 DEF PruneCheck, At, Exit, Fail
  <2>3. QED
    BY <2>1, <2>2
<1>8. ASSUME NEW p \in Places, Sweep(p) PROVE Sweeping'
  <2>1. /\ command # None /\ command.step = "sweep" /\ UNCHANGED program
        /\ command' # None => command'.op = command.op /\ command'.arg = command.arg
    BY <1>8 DEF Sweep, At, world, object
  <2>2. CASE command' = [command EXCEPT !.todo = @ \ {p}, !.failed = TRUE]
    BY <2>2
  <2>3. CASE /\ filters' = IF filters[p] = program /\ ~Keeps(p)
                            THEN [filters EXCEPT ![p] = None] ELSE filters
             /\ command' = [command EXCEPT !.todo = @ \ {p}]
    <3>1. command'.todo = command.todo \ {p} /\ command'.failed = command.failed
      BY <2>3
    <3>2. filters' \in [Places -> Programs \cup {None, Foreign}]
      BY <2>3
    <3>. QED  BY <2>1, <2>3, <3>1, <3>2
  <2>. QED  BY <1>8, <2>2, <2>3 DEF Sweep
<1>9. ASSUME Swept PROVE Sweeping'
  BY <1>9 DEF Swept, At, Goto, Exit, world, object
<1>10. ASSUME LoadCheck PROVE Sweeping'
  <2>1. CASE BeginSweep /\ command # None
    BY <1>10, <2>1, SweepBegins DEF LoadCheck, IInv, world, object
  <2>2. CASE ~(BeginSweep /\ command # None)
    BY <1>10, <2>2 DEF LoadCheck, At, Exit, Fail
  <2>3. QED
    BY <2>1, <2>2
<1>11. ASSUME UnloadDisable PROVE Sweeping'
  <2>1. CASE BeginSweep /\ command # None
    BY <1>11, <2>1, SweepBegins DEF UnloadDisable, IInv, world, object
  <2>2. CASE ~(BeginSweep /\ command # None)
    BY <1>11, <2>2 DEF UnloadDisable, At, Exit, Fail
  <2>3. QED
    BY <2>1, <2>2
<1>12. ASSUME UnlinkProgram PROVE Sweeping'
  BY <1>12 DEF UnlinkProgram, At, Goto, Exit, Fail, world, object
<1>13. ASSUME UnlinkMaps PROVE Sweeping'
  BY <1>13 DEF UnlinkMaps, At, Goto, Exit, Fail, world, object
<1>14. ASSUME LoadMaps PROVE Sweeping'
  BY <1>14 DEF LoadMaps, At, Goto, Exit, Fail, world, object
<1>15. ASSUME WriteSchema PROVE Sweeping'
  BY <1>15 DEF WriteSchema, At, Goto, Exit, Fail, world, object
<1>16. ASSUME PinProgram PROVE Sweeping'
  BY <1>16 DEF PinProgram, At, Goto, Exit, Fail, world, object
<1>17. ASSUME Disable PROVE Sweeping'
  BY <1>17 DEF Disable, At, Goto, Exit, Fail, world, object
<1>18. ASSUME Sync PROVE Sweeping'
  BY <1>18 DEF Sync, At, Goto, Exit, Fail, world, object
<1>19. ASSUME HealthCheck PROVE Sweeping'
  BY <1>19 DEF HealthCheck, At, Goto, Exit, world, object
<1>20. ASSUME NEW p \in Places, Listed(p) PROVE Sweeping'
  BY <1>20 DEF Listed, At, Goto, Exit, world, object
<1>21. ASSUME AllListed PROVE Sweeping'
  BY <1>21 DEF AllListed, At, Goto, Exit, world, object
<1>22. ASSUME NEW p \in Places, Verify(p) PROVE Sweeping'
  BY <1>22 DEF Verify, At, Goto, Exit, world, object
<1>23. ASSUME Verified PROVE Sweeping'
  BY <1>23 DEF Verified, At, Goto, Exit, world, object
<1>24. ASSUME Kill PROVE Sweeping'
  BY <1>24 DEF Kill, world, object
<1>25. ASSUME NEW i \in Interfaces, Appear(i) PROVE Sweeping'
  BY <1>25 DEF Appear, Event, world, object
<1>26. ASSUME NEW i \in Interfaces, Vanish(i) PROVE Sweeping'
  BY <1>26 DEF Vanish, Event, world, object
<1>27. ASSUME NEW p \in Places, Others(p) PROVE Sweeping'
  BY <1>27 DEF Others, Event, world, object
<1>28. CASE UNCHANGED vars
  BY <1>28 DEF vars
<1>29. QED
  BY <1>1, <1>2, <1>3, <1>4, <1>5, <1>6, <1>7, <1>8, <1>9, <1>10, <1>11, <1>12, <1>13,
     <1>14, <1>15, <1>16, <1>17, <1>18, <1>19, <1>20, <1>21, <1>22, <1>23, <1>24, <1>25,
     <1>26, <1>27, <1>28 DEF Next, Command

\* A sweep that passed everything has left no owned filter.
LEMMA UnlinkingStep == IInv /\ [Next]_vars => Unlinking'
<1> SUFFICES ASSUME IInv, [Next]_vars
             PROVE  Unlinking'
  OBVIOUS
<1> USE NameAssumption DEF IInv, TypeOK, CommandTyped, Commands, Sweeping, Unlinking,
   Controllable, Running, Keeps
<1>1. ASSUME NEW c \in Operations, Lock(c[1], c[2]) PROVE Unlinking'
  BY <1>1 DEF Lock, object
<1>2. ASSUME AttachCheck PROVE Unlinking'
  BY <1>2 DEF AttachCheck, At, Goto, Exit, Fail, world, object
<1>3. ASSUME AttachQuery PROVE Unlinking'
  BY <1>3 DEF AttachQuery, At, Goto, Exit, Fail, world, object
<1>4. ASSUME AttachTake PROVE Unlinking'
  BY <1>4 DEF AttachTake, At, Goto, Exit, Fail, world, object
<1>5. ASSUME AttachAgain PROVE Unlinking'
  BY <1>5 DEF AttachAgain, At, Goto, Exit, world, object
<1>6. ASSUME Detach PROVE Unlinking'
  BY <1>6 DEF Detach, At, Goto, Exit, Fail, world, object
<1>7. ASSUME PruneCheck PROVE Unlinking'
  BY <1>7 DEF PruneCheck, BeginSweep, At, Goto, Exit, Fail, world, object
<1>8. ASSUME NEW p \in Places, Sweep(p) PROVE Unlinking'
  BY <1>8 DEF Sweep, At, Goto, Exit, Fail, world, object
<1>9. ASSUME Swept PROVE Unlinking'
  BY <1>9 DEF Swept, At, Goto, Exit, world, object
<1>10. ASSUME LoadCheck PROVE Unlinking'
  BY <1>10 DEF LoadCheck, BeginSweep, At, Goto, Exit, Fail, world, object
<1>11. ASSUME UnloadDisable PROVE Unlinking'
  BY <1>11 DEF UnloadDisable, BeginSweep, At, Goto, Exit, Fail, world, object
<1>12. ASSUME UnlinkProgram PROVE Unlinking'
  BY <1>12 DEF UnlinkProgram, At, Goto, Exit, Fail, world, object
<1>13. ASSUME UnlinkMaps PROVE Unlinking'
  BY <1>13 DEF UnlinkMaps, At, Goto, Exit, Fail, world, object
<1>14. ASSUME LoadMaps PROVE Unlinking'
  BY <1>14 DEF LoadMaps, At, Goto, Exit, Fail, world, object
<1>15. ASSUME WriteSchema PROVE Unlinking'
  BY <1>15 DEF WriteSchema, At, Goto, Exit, Fail, world, object
<1>16. ASSUME PinProgram PROVE Unlinking'
  BY <1>16 DEF PinProgram, At, Goto, Exit, Fail, world, object
<1>17. ASSUME Disable PROVE Unlinking'
  BY <1>17 DEF Disable, At, Goto, Exit, Fail, world, object
<1>18. ASSUME Sync PROVE Unlinking'
  BY <1>18 DEF Sync, At, Goto, Exit, Fail, world, object
<1>19. ASSUME HealthCheck PROVE Unlinking'
  BY <1>19 DEF HealthCheck, At, Goto, Exit, world, object
<1>20. ASSUME NEW p \in Places, Listed(p) PROVE Unlinking'
  BY <1>20 DEF Listed, At, Goto, Exit, world, object
<1>21. ASSUME AllListed PROVE Unlinking'
  BY <1>21 DEF AllListed, At, Goto, Exit, world, object
<1>22. ASSUME NEW p \in Places, Verify(p) PROVE Unlinking'
  BY <1>22 DEF Verify, At, Goto, Exit, world, object
<1>23. ASSUME Verified PROVE Unlinking'
  BY <1>23 DEF Verified, At, Goto, Exit, world, object
<1>24. ASSUME Kill PROVE Unlinking'
  BY <1>24 DEF Kill, world, object
<1>25. ASSUME NEW i \in Interfaces, Appear(i) PROVE Unlinking'
  BY <1>25 DEF Appear, Event, world, object
<1>26. ASSUME NEW i \in Interfaces, Vanish(i) PROVE Unlinking'
  BY <1>26 DEF Vanish, Event, world, object
<1>27. ASSUME NEW p \in Places, Others(p) PROVE Unlinking'
  BY <1>27 DEF Others, Event, world, object
<1>28. CASE UNCHANGED vars
  BY <1>28 DEF vars
<1>29. QED
  BY <1>1, <1>2, <1>3, <1>4, <1>5, <1>6, <1>7, <1>8, <1>9, <1>10, <1>11, <1>12, <1>13,
     <1>14, <1>15, <1>16, <1>17, <1>18, <1>19, <1>20, <1>21, <1>22, <1>23, <1>24, <1>25,
     <1>26, <1>27, <1>28 DEF Next, Command

\* An inspection keeps what it has established, unless it is disturbed.
LEMMA InspectingStep == IInv /\ [Next]_vars => Inspecting'
<1> SUFFICES ASSUME IInv, [Next]_vars
             PROVE  Inspecting'
  OBVIOUS
<1>1. ASSUME NEW c \in Operations, Lock(c[1], c[2]) PROVE Inspecting'
  BY <1>1, NameAssumption DEF Lock, object,
     IInv, TypeOK, CommandTyped, Commands, Inspecting, Available, Owned, Elsewhere, Running
<1>2. ASSUME AttachCheck PROVE Inspecting'
  BY <1>2, NameAssumption DEF AttachCheck, At, Goto, Exit, Fail, world, object,
     IInv, TypeOK, CommandTyped, Commands, Inspecting, Available, Owned, Elsewhere, Running
<1>3. ASSUME AttachQuery PROVE Inspecting'
  BY <1>3, NameAssumption DEF AttachQuery, At, Goto, Exit, Fail, world, object,
     IInv, TypeOK, CommandTyped, Commands, Inspecting, Available, Owned, Elsewhere, Running
<1>4. ASSUME AttachTake PROVE Inspecting'
  BY <1>4, NameAssumption DEF AttachTake, At, Goto, Exit, Fail, world, object,
     IInv, TypeOK, CommandTyped, Commands, Inspecting, Available, Owned, Elsewhere, Running
<1>5. ASSUME AttachAgain PROVE Inspecting'
  BY <1>5, NameAssumption DEF AttachAgain, At, Goto, Exit, world, object,
     IInv, TypeOK, CommandTyped, Commands, Inspecting, Available, Owned, Elsewhere, Running
<1>6. ASSUME Detach PROVE Inspecting'
  BY <1>6, NameAssumption DEF Detach, At, Goto, Exit, Fail, world, object,
     IInv, TypeOK, CommandTyped, Commands, Inspecting, Available, Owned, Elsewhere, Running
<1>7. ASSUME PruneCheck PROVE Inspecting'
  BY <1>7, NameAssumption DEF PruneCheck, BeginSweep, At, Goto, Exit, Fail, world, object,
     IInv, TypeOK, CommandTyped, Commands, Inspecting, Available, Owned, Elsewhere, Running
<1>8. ASSUME NEW p \in Places, Sweep(p) PROVE Inspecting'
  BY <1>8, NameAssumption DEF Sweep, At, Goto, Exit, Fail, world, object,
     IInv, TypeOK, CommandTyped, Commands, Inspecting, Available, Owned, Elsewhere, Running
<1>9. ASSUME Swept PROVE Inspecting'
  BY <1>9, NameAssumption DEF Swept, At, Goto, Exit, world, object,
     IInv, TypeOK, CommandTyped, Commands, Inspecting, Available, Owned, Elsewhere, Running
<1>10. ASSUME LoadCheck PROVE Inspecting'
  BY <1>10, NameAssumption DEF LoadCheck, BeginSweep, At, Goto, Exit, Fail, world, object,
     IInv, TypeOK, CommandTyped, Commands, Inspecting, Available, Owned, Elsewhere, Running
<1>11. ASSUME UnloadDisable PROVE Inspecting'
  BY <1>11, NameAssumption DEF UnloadDisable, BeginSweep, At, Goto, Exit, Fail, world, object,
     IInv, TypeOK, CommandTyped, Commands, Inspecting, Available, Owned, Elsewhere, Running
<1>12. ASSUME UnlinkProgram PROVE Inspecting'
  BY <1>12, NameAssumption DEF UnlinkProgram, At, Goto, Exit, Fail, world, object,
     IInv, TypeOK, CommandTyped, Commands, Inspecting, Available, Owned, Elsewhere, Running
<1>13. ASSUME UnlinkMaps PROVE Inspecting'
  BY <1>13, NameAssumption DEF UnlinkMaps, At, Goto, Exit, Fail, world, object,
     IInv, TypeOK, CommandTyped, Commands, Inspecting, Available, Owned, Elsewhere, Running
<1>14. ASSUME LoadMaps PROVE Inspecting'
  BY <1>14, NameAssumption DEF LoadMaps, At, Goto, Exit, Fail, world, object,
     IInv, TypeOK, CommandTyped, Commands, Inspecting, Available, Owned, Elsewhere, Running
<1>15. ASSUME WriteSchema PROVE Inspecting'
  BY <1>15, NameAssumption DEF WriteSchema, At, Goto, Exit, Fail, world, object,
     IInv, TypeOK, CommandTyped, Commands, Inspecting, Available, Owned, Elsewhere, Running
<1>16. ASSUME PinProgram PROVE Inspecting'
  BY <1>16, NameAssumption DEF PinProgram, At, Goto, Exit, Fail, world, object,
     IInv, TypeOK, CommandTyped, Commands, Inspecting, Available, Owned, Elsewhere, Running
<1>17. ASSUME Disable PROVE Inspecting'
  BY <1>17, NameAssumption DEF Disable, At, Goto, Exit, Fail, world, object,
     IInv, TypeOK, CommandTyped, Commands, Inspecting, Available, Owned, Elsewhere, Running
<1>18. ASSUME Sync PROVE Inspecting'
  BY <1>18, NameAssumption DEF Sync, At, Goto, Exit, Fail, world, object,
     IInv, TypeOK, CommandTyped, Commands, Inspecting, Available, Owned, Elsewhere, Running
<1>19. ASSUME HealthCheck PROVE Inspecting'
  <2>1. CASE Available /\ enabled
    <3>1. /\ command' = [command EXCEPT !.step = "listed", !.todo = command.arg \X {"main"}]
          /\ UNCHANGED <<filters, program, maps, enabled, disturbed>>
      BY <1>19, <2>1 DEF HealthCheck, world, object
    <3>2. command' # None => /\ command'.step = "listed" /\ command'.arg = command.arg
                             /\ command'.todo = command.arg \X {"main"}
      BY <1>19, <3>1 DEF IInv, CommandTyped, Commands, HealthCheck, At
    <3>3. QED
      BY <2>1, <3>1, <3>2 DEF Inspecting, Running, Available
  <2>2. CASE ~(Available /\ enabled)
    BY <1>19, <2>2 DEF HealthCheck, Exit, Inspecting, Running
  <2>3. QED
    BY <2>1, <2>2
<1>20. ASSUME NEW p \in Places, Listed(p) PROVE Inspecting'
  BY <1>20, NameAssumption DEF Listed, At, Goto, Exit, world, object,
     IInv, TypeOK, CommandTyped, Commands, Inspecting, Available, Owned, Elsewhere, Running
<1>21. ASSUME AllListed PROVE Inspecting'
  <2>1. /\ command # None /\ command.step = "listed" /\ command.todo = {}
        /\ command' = [command EXCEPT !.step = "verify", !.todo = exists \X Coordinates]
        /\ UNCHANGED <<exists, disturbed, filters, program, maps, enabled, latest>>
    BY <1>21, NameAssumption DEF AllListed, world, object, At
  <2>2. /\ command'.step = "verify" /\ command'.arg = command.arg
        /\ command'.todo = exists \X Coordinates
    BY <2>1 DEF IInv, CommandTyped, Commands
  <2>3. /\ Available /\ enabled
        /\ disturbed \/ (command.arg \X {"main"}) \ command.todo \subseteq Owned(program)
    BY <2>1 DEF IInv, Inspecting, Running
  <2>4. disturbed \/ command.arg \X {"main"} \subseteq Owned(program)
    BY <2>1, <2>3
  <2>5. Owned(program)' = Owned(program) /\ Available'
    BY <2>1, <2>3 DEF Owned, Available
  <2>6. ASSUME NEW p \in Places, filters[p] = program
        PROVE  p \in exists \X Coordinates
    BY <2>3, <2>6, PlaceOf DEF IInv, TypeOK, Available
  <2>7. (Elsewhere(command.arg) \subseteq command.todo)'
    BY <2>1, <2>2, <2>5, <2>6 DEF Elsewhere, Owned
  <2>8. QED
    BY <2>1, <2>2, <2>3, <2>4, <2>5, <2>7 DEF Inspecting, Running
<1>22. ASSUME NEW p \in Places, Verify(p) PROVE Inspecting'
  <2> DEFINE Right == p[1] \in exists
                        /\ (filters[p] = program => p[2] = "main" /\ p[1] \in command.arg)
  <2>1. CASE Right
    <3>1. /\ command # None /\ command.step = "verify"
          /\ command' = [command EXCEPT !.todo = @ \ {p}]
          /\ UNCHANGED <<exists, disturbed, filters, program, maps, enabled, latest>>
      BY <1>22, <2>1 DEF Verify, world, object, At
    <3>2. /\ command'.step = "verify" /\ command'.arg = command.arg
          /\ command'.todo = command.todo \ {p}
      BY <3>1 DEF IInv, CommandTyped, Commands
    <3>3. /\ Available /\ enabled
          /\ disturbed \/ command.arg \X {"main"} \subseteq Owned(program)
          /\ Elsewhere(command.arg) \subseteq command.todo
      BY <3>1 DEF IInv, Inspecting, Running
    <3>4. p \notin Elsewhere(command.arg)
      BY <2>1, PlaceOf DEF Elsewhere, Owned
    <3>5. Owned(program)' = Owned(program) /\ Available'
      BY <3>1, <3>3 DEF Owned, Available
    <3>6. (Elsewhere(command.arg) \subseteq command.todo)'
      BY <3>1, <3>2, <3>3, <3>4, <3>5 DEF Elsewhere
    <3>7. QED
      BY <3>1, <3>2, <3>3, <3>5, <3>6 DEF Inspecting, Running
  <2>2. CASE ~Right
    BY <1>22, <2>2 DEF Verify, Exit, Inspecting, Running
  <2>3. QED
    BY <2>1, <2>2
<1>23. ASSUME Verified PROVE Inspecting'
  BY <1>23, NameAssumption DEF Verified, At, Goto, Exit, world, object,
     IInv, TypeOK, CommandTyped, Commands, Inspecting, Available, Owned, Elsewhere, Running
<1>24. ASSUME Kill PROVE Inspecting'
  BY <1>24, NameAssumption DEF Kill, world, object,
     IInv, TypeOK, CommandTyped, Commands, Inspecting, Available, Owned, Elsewhere, Running
<1>25. ASSUME NEW i \in Interfaces, Appear(i) PROVE Inspecting'
  BY <1>25, NameAssumption DEF Appear, Event, world, object,
     IInv, TypeOK, CommandTyped, Commands, Inspecting, Available, Owned, Elsewhere, Running
<1>26. ASSUME NEW i \in Interfaces, Vanish(i) PROVE Inspecting'
  BY <1>26, NameAssumption DEF Vanish, Event, world, object,
     IInv, TypeOK, CommandTyped, Commands, Inspecting, Available, Owned, Elsewhere, Running
<1>27. ASSUME NEW p \in Places, Others(p) PROVE Inspecting'
  BY <1>27, NameAssumption DEF Others, Event, world, object,
     IInv, TypeOK, CommandTyped, Commands, Inspecting, Available, Owned, Elsewhere, Running
<1>28. CASE UNCHANGED vars
  BY <1>28 DEF vars, IInv, Inspecting, Available, Owned, Elsewhere, Running
<1>29. QED
  BY <1>1, <1>2, <1>3, <1>4, <1>5, <1>6, <1>7, <1>8, <1>9, <1>10, <1>11, <1>12, <1>13,
     <1>14, <1>15, <1>16, <1>17, <1>18, <1>19, <1>20, <1>21, <1>22, <1>23, <1>24, <1>25,
     <1>26, <1>27, <1>28 DEF Next, Command

--------------------------------------------------------------------------------
(* Reports.                                                                *)

\* While a command goes on, and when it fails, no success is reported; ...
LEMMA GoesOn ==
  ASSUME CommandTyped, command # None, UNCHANGED result
  PROVE  ReportTrue'
  BY DEF CommandTyped, ReportTrue

\* A report of failure claims nothing.
LEMMA Fails ==
  ASSUME Exit(FALSE)
  PROVE  ReportTrue'
  BY DEF Exit, ReportTrue

\* ... when it succeeds, it is to have accomplished what it was given, ...
LEMMA Succeeds ==
  ASSUME NEW op, NEW arg, NEW ok, command.op = op, command.arg = arg, Exit(ok),
         ok => Accomplished(op, arg)'
  PROVE  ReportTrue'
  BY DEF Exit, ReportTrue

\* attach reports truly if the interface has the pinned program when it succeeds.
LEMMA Attaches ==
  ASSUME NEW ok, command.op = "attach", Exit(ok),
         ok => \E i \in Interfaces :
                 command.arg = {i} /\ filters'[<<i, "main">>] = program'
  PROVE  ReportTrue'
<1>1. CASE ~ok
  BY <1>1 DEF Exit, ReportTrue
<1>2. ASSUME NEW i \in Interfaces, command.arg = {i}, filters'[<<i, "main">>] = program'
      PROVE  ReportTrue'
  <2>1. Accomplished("attach", {i})'
    BY <1>2 DEF Accomplished, Reached, Owned, Places, Coordinates, Names
  <2>2. QED
    BY <1>2, <2>1, Succeeds
<1>3. QED
  BY <1>1, <1>2

\* detach reports truly if the interface is free of it when it succeeds.
LEMMA Detaches ==
  ASSUME NEW ok, command.op = "detach", Exit(ok), program' # None,
         ok => \E i \in Interfaces :
                 command.arg = {i} /\ filters'[<<i, "main">>] # program'
  PROVE  ReportTrue'
<1>1. CASE ~ok
  BY <1>1 DEF Exit, ReportTrue
<1>2. ASSUME NEW i \in Interfaces, command.arg = {i}, filters'[<<i, "main">>] # program'
      PROVE  ReportTrue'
  <2>1. Accomplished("detach", {i})'
    BY <1>2 DEF Accomplished, Reached, Owned, Names
  <2>2. QED
    BY <1>2, <2>1, Succeeds
<1>3. QED
  BY <1>1, <1>2

\* ... and others undo at most what is not claimed of a disturbed command.
LEMMA StaysTrue ==
  ASSUME TypeOK, NEW op, NEW arg, Accomplished(op, arg), UNCHANGED object,
         disturbed' \/ UNCHANGED <<filters, disturbed>>,
         \A p \in Places : filters'[p] = filters[p] \/ filters'[p] \in {None, Foreign}
  PROVE  Accomplished(op, arg)'
<1>1. op \in Names /\ (op = "detach" => program # None) /\ Reached(op, arg)
  BY DEF Accomplished
<1>2. \A id \in Programs : Owned(id)' \subseteq Owned(id)
  BY NameAssumption DEF Owned
<1>3. program # None => program \in Programs /\ Owned(program)' \subseteq Owned(program)
  BY <1>2 DEF TypeOK, object, Owned
<1>4. Reached(op, arg)'
  <2>1. CASE op = "attach"
    BY <1>1, <2>1 DEF Reached, Owned, object
  <2>2. CASE op = "detach"
    BY <1>1, <1>3, <2>2 DEF Reached
  <2>3. CASE op = "prune"
    BY <1>1, <1>3, <2>3 DEF Reached, Elsewhere, object
  <2>4. CASE op = "ensure"
    BY <1>1, <2>4 DEF Reached, Available, object
  <2>5. CASE op = "load"
    BY <1>1, <1>3, <2>5 DEF Reached, Available, object
  <2>6. CASE op = "unload"
    BY <1>1, <1>2, <2>6 DEF Reached, object
  <2>7. CASE op = "disable"
    BY <1>1, <2>7 DEF Reached, object
  <2>8. CASE op = "sync"
    BY <1>1, <2>8 DEF Reached, object
  <2>9. CASE op = "health"
    <3>1. Available /\ enabled /\ Elsewhere(arg) = {}
      BY <1>1, <2>9 DEF Reached
    <3>2. Available' /\ enabled' /\ Elsewhere(arg)' = {}
      BY <1>3, <3>1 DEF Available, Elsewhere, object
    <3>3. (disturbed \/ arg \X {"main"} \subseteq Owned(program))'
      BY <1>1, <2>9 DEF Reached, Owned, object
    <3>4. QED
      BY <2>9, <3>2, <3>3 DEF Reached
  <2>10. QED
    BY <1>1, <2>1, <2>2, <2>3, <2>4, <2>5, <2>6, <2>7, <2>8, <2>9 DEF Names
<1>5. QED
  BY <1>1, <1>4 DEF Accomplished, object

\* What others do, leaves the invariant as it was.
LEMMA Bystanders ==
  ASSUME IInv, UNCHANGED <<object, command, result>>,
         disturbed' \/ UNCHANGED <<filters, disturbed>>,
         \A p \in Places : filters'[p] = filters[p] \/ filters'[p] \in {None, Foreign}
  PROVE  ReportTrue'
<1>1. CASE command # None
  BY <1>1, GoesOn DEF IInv
<1>2. CASE command = None /\ result # None /\ result.ok
  <2>1. Accomplished(result.op, result.arg)
    BY <1>2 DEF IInv, ReportTrue
  <2>2. \A op, arg : Accomplished(op, arg) => Accomplished(op, arg)'
    BY StaysTrue DEF IInv
  <2>3. PICK op, arg : op = result.op /\ arg = result.arg
    OBVIOUS
  <2>4. Accomplished(op, arg)'
    BY <2>1, <2>2, <2>3
  <2>5. QED
    BY <2>3, <2>4 DEF ReportTrue
<1>3. CASE command = None /\ ~(result # None /\ result.ok)
  BY <1>3 DEF ReportTrue
<1>4. QED
  BY <1>1, <1>2, <1>3

\* A command reports success only of what is accomplished.
LEMMA ReportStep == IInv /\ [Next]_vars => ReportTrue'
<1> SUFFICES ASSUME IInv, [Next]_vars
             PROVE  ReportTrue'
  OBVIOUS
<1>1. ASSUME NEW c \in Operations, Lock(c[1], c[2]) PROVE ReportTrue'
  BY <1>1 DEF Lock, ReportTrue
<1>2. ASSUME AttachCheck PROVE ReportTrue'
  BY <1>2, GoesOn, Fails DEF IInv, AttachCheck, At, Goto, Fail
<1>3. ASSUME AttachQuery PROVE ReportTrue'
  <2>1. ASSUME NEW i \in Interfaces, Only(i), Exit(filters[<<i, "main">>] = program)
        PROVE  ReportTrue'
    BY <1>3, <2>1, Attaches DEF AttachQuery, At, Only, object
  <2>2. QED
    BY <1>3, <2>1, GoesOn, Fails DEF IInv, AttachQuery, At, Goto, Fail
<1>4. ASSUME AttachTake PROVE ReportTrue'
  <2>1. ASSUME NEW i \in Interfaces, Only(i), Exit(TRUE),
               filters' = [filters EXCEPT ![<<i, "main">>] = program]
        PROVE  ReportTrue'
    <3>1. filters'[<<i, "main">>] = program'
      BY <1>4, <2>1, PlaceFacts DEF IInv, TypeOK, AttachTake, object
    <3>2. QED
      BY <1>4, <2>1, <3>1, Attaches DEF AttachTake, At, Only
  <2>2. QED
    BY <1>4, <2>1, GoesOn, Fails DEF IInv, AttachTake, At, Goto, Fail
<1>5. ASSUME AttachAgain PROVE ReportTrue'
  <2> DEFINE ok == \E i \in Interfaces : Only(i) /\ filters[<<i, "main">>] = program
  <2>1. ok => \E i \in Interfaces : command.arg = {i} /\ filters'[<<i, "main">>] = program'
    BY <1>5 DEF AttachAgain, Only, object
  <2>2. command.op = "attach" /\ Exit(ok)
    BY <1>5 DEF AttachAgain, At
  <2>3. QED
    BY <2>1, <2>2, Attaches
<1>6. ASSUME Detach PROVE ReportTrue'
  <2>1. ASSUME NEW i \in Interfaces, Only(i), program # None
        PROVE  ReportTrue'
    <3>1. CASE filters[<<i, "main">>] = program /\ Exit(TRUE)
               /\ filters' = [filters EXCEPT ![<<i, "main">>] = None]
      <4>1. filters'[<<i, "main">>] = None
        BY <3>1, PlaceFacts DEF IInv, TypeOK
      <4>2. QED
        BY <1>6, <2>1, <3>1, <4>1, Detaches DEF Detach, At, Only, object
    <3>2. CASE Exit(filters[<<i, "main">>] = None) /\ UNCHANGED filters
      BY <1>6, <2>1, <3>2, Detaches DEF Detach, At, Only, object
    <3>3. CASE Exit(FALSE)
      BY <3>3, Fails
    <3>4. QED
      BY <1>6, <2>1, <3>1, <3>2, <3>3 DEF Detach, Only, Fail
  <2>2. QED
    BY <1>6, <2>1, Fails DEF Detach, Fail
<1>7. ASSUME PruneCheck PROVE ReportTrue'
  BY <1>7, GoesOn, Fails DEF IInv, PruneCheck, At, Fail
<1>8. ASSUME NEW p \in Places, Sweep(p) PROVE ReportTrue'
  BY <1>8, GoesOn, Fails DEF IInv, Sweep, At
<1>9. ASSUME Swept PROVE ReportTrue'
  <2>1. CASE command.op = "prune" /\ ~command.failed /\ Exit(~command.failed)
    <3>1. program # None => \A q \in Places : filters[q] = program => Keeps(q)
      BY <1>9, <2>1 DEF IInv, Sweeping, Running, Swept, At
    <3>2. program # None => Elsewhere(command.arg) = {}
      BY <3>1, PlaceOf DEF Elsewhere, Owned, Keeps
    <3>3. PICK arg : arg = command.arg
      OBVIOUS
    <3>4. Accomplished("prune", arg)'
      BY <1>9, <3>2, <3>3 DEF Swept, Accomplished, Reached, Names, Elsewhere, Owned, object
    <3>5. QED
      BY <2>1, <3>3, <3>4, Succeeds
  <2>2. CASE command.failed /\ Exit(~command.failed)
    BY <2>2 DEF Exit, ReportTrue
  <2>3. QED
    BY <1>9, <2>1, <2>2, GoesOn DEF IInv, Swept, At, Goto
<1>10. ASSUME LoadCheck PROVE ReportTrue'
  <2>1. CASE command.op = "ensure" /\ Available /\ Exit(TRUE)
    <3>1. PICK arg : arg = command.arg
      OBVIOUS
    <3>2. Accomplished("ensure", arg)'
      BY <1>10, <2>1 DEF LoadCheck, Accomplished, Reached, Names, Available, object
    <3>3. QED
      BY <2>1, <3>1, <3>2, Succeeds
  <2>2. QED
    BY <1>10, <2>1, GoesOn, Fails DEF IInv, LoadCheck, At, Fail
<1>11. ASSUME UnloadDisable PROVE ReportTrue'
  BY <1>11, GoesOn, Fails DEF IInv, UnloadDisable, At, Fail
<1>12. ASSUME UnlinkProgram PROVE ReportTrue'
  BY <1>12, GoesOn, Fails DEF IInv, UnlinkProgram, At, Goto
<1>13. ASSUME UnlinkMaps PROVE ReportTrue'
  <2>1. CASE command.op = "unload" /\ Exit(TRUE) /\ maps' = "none"
    <3>1. program = None /\ \A q \in Places : filters[q] \notin Programs
      BY <1>13 DEF IInv, Unlinking, Running, UnlinkMaps, At
    <3>2. PICK arg : arg = command.arg
      OBVIOUS
    <3>3. Accomplished("unload", arg)'
      BY <1>13, <2>1, <3>1 DEF UnlinkMaps, Accomplished, Reached, Names, Owned
    <3>4. QED
      BY <2>1, <3>2, <3>3, Succeeds
  <2>2. QED
    BY <1>13, <2>1, GoesOn DEF IInv, UnlinkMaps, At, Goto
<1>14. ASSUME LoadMaps PROVE ReportTrue'
  BY <1>14, GoesOn, Fails DEF IInv, LoadMaps, At, Goto, Fail
<1>15. ASSUME WriteSchema PROVE ReportTrue'
  BY <1>15, GoesOn, Fails DEF IInv, WriteSchema, At, Goto, Fail
<1>16. ASSUME PinProgram PROVE ReportTrue'
  <2>1. CASE program' = latest' /\ Exit(TRUE) /\ UNCHANGED maps
    <3>1. latest' \in Programs
      <4>1. latest < MaxPrograms
        BY <1>16 DEF IInv, IdLeft, PinProgram, At
      <4>2. QED
        BY <1>16, <4>1, LatestId, NextId DEF IInv, PinProgram
    <3>2. /\ maps = "complete" /\ ~enabled
          /\ \A q \in Places : filters[q] \notin Programs
      BY <1>16 DEF IInv, Unlinking, Running, PinProgram, At
    <3>3. PICK op, arg : op = command.op /\ arg = command.arg
      OBVIOUS
    <3>4. op \in {"ensure", "load"}
      BY <1>16, <3>3 DEF PinProgram, At
    <3>5. Available' /\ ~enabled' /\ Owned(program)' = {}
      BY <1>16, <2>1, <3>1, <3>2, NameAssumption DEF PinProgram, Available, Owned
    <3>6. Accomplished(op, arg)'
      BY <3>4, <3>5 DEF Accomplished, Reached, Names
    <3>7. QED
      BY <2>1, <3>3, <3>6, Succeeds
  <2>2. QED
    BY <1>16, <2>1, Fails DEF PinProgram, Fail
<1>17. ASSUME Disable PROVE ReportTrue'
  <2>1. CASE ~enabled' /\ Exit(TRUE)
    <3>1. PICK arg : arg = command.arg
      OBVIOUS
    <3>2. Accomplished("disable", arg)' /\ command.op = "disable"
      BY <1>17, <2>1 DEF Disable, At, Accomplished, Reached, Names
    <3>3. QED
      BY <2>1, <3>1, <3>2, Succeeds
  <2>2. QED
    BY <1>17, <2>1, Fails DEF Disable, Fail
<1>18. ASSUME Sync PROVE ReportTrue'
  <2>1. CASE enabled' /\ Exit(TRUE)
    <3>1. PICK arg : arg = command.arg
      OBVIOUS
    <3>2. Accomplished("sync", arg)' /\ command.op = "sync"
      BY <1>18, <2>1 DEF Sync, At, Accomplished, Reached, Names
    <3>3. QED
      BY <2>1, <3>1, <3>2, Succeeds
  <2>2. QED
    BY <1>18, <2>1, Fails DEF Sync, Fail
<1>19. ASSUME HealthCheck PROVE ReportTrue'
  BY <1>19, GoesOn, Fails DEF IInv, HealthCheck, At
<1>20. ASSUME NEW p \in Places, Listed(p) PROVE ReportTrue'
  BY <1>20, GoesOn, Fails DEF IInv, Listed, At
<1>21. ASSUME AllListed PROVE ReportTrue'
  BY <1>21, GoesOn, Fails DEF IInv, AllListed, At
<1>22. ASSUME NEW p \in Places, Verify(p) PROVE ReportTrue'
  BY <1>22, GoesOn, Fails DEF IInv, Verify, At
<1>23. ASSUME Verified PROVE ReportTrue'
  <2>1. /\ Available /\ enabled /\ Elsewhere(command.arg) = {}
        /\ disturbed \/ command.arg \X {"main"} \subseteq Owned(program)
    BY <1>23 DEF IInv, Inspecting, Running, Verified, At
  <2>2. PICK arg : arg = command.arg
    OBVIOUS
  <2>3. Accomplished("health", arg)'
    BY <1>23, <2>1, <2>2 DEF Verified, Accomplished, Reached, Names, Available, Elsewhere, Owned,
                         world, object
  <2>4. QED
    BY <1>23, <2>2, <2>3, Succeeds DEF Verified, At
<1>24. ASSUME Kill PROVE ReportTrue'
  BY <1>24, GoesOn DEF IInv, Kill
<1>25. ASSUME NEW i \in Interfaces, Appear(i) PROVE ReportTrue'
  BY <1>25, Bystanders DEF Appear, Event
<1>26. ASSUME NEW i \in Interfaces, Vanish(i) PROVE ReportTrue'
  BY <1>26, Bystanders DEF Vanish, Event
<1>27. ASSUME NEW p \in Places, Others(p) PROVE ReportTrue'
  BY <1>27, Bystanders DEF IInv, TypeOK, Others, Event
<1>28. CASE UNCHANGED vars
  BY <1>28, Bystanders DEF vars, object
<1>29. QED
  BY <1>1, <1>2, <1>3, <1>4, <1>5, <1>6, <1>7, <1>8, <1>9, <1>10, <1>11, <1>12, <1>13,
     <1>14, <1>15, <1>16, <1>17, <1>18, <1>19, <1>20, <1>21, <1>22, <1>23, <1>24, <1>25,
     <1>26, <1>27, <1>28 DEF Next, Command

--------------------------------------------------------------------------------
\* Every step keeps it.
LEMMA IInvStep == IInv /\ [Next]_vars => IInv'
  BY TypeStep, CommandStep, IdStep, ConfiguredStep, AttachingStep, ControllableStep,
     SweepingStep, UnlinkingStep, InspectingStep, ReportStep DEF IInv

\* It holds throughout.
LEMMA Invariance == Spec => []IInv
  BY InitIInv, IInvStep, PTL DEF Spec

\* The types hold throughout, for any number of interfaces and programs.
THEOREM TypeCorrect == Spec => []TypeOK
<1>1. IInv => TypeOK
  BY DEF IInv
<1>2. QED
  BY <1>1, Invariance, PTL

\* Wherever a load, an unload or an attachment failed or was killed, every
\* filter of this application can be found and switched off.
THEOREM AlwaysControllable == Spec => []Controllable
<1>1. IInv => Controllable
  BY DEF IInv
<1>2. QED
  BY <1>1, Invariance, PTL

\* A command that reported success did what it is for, and others undo at most
\* what is not claimed of a disturbed command.
THEOREM ReportsTrue == Spec => []SuccessTruthful
<1>1. IInv => SuccessTruthful
  BY DEF IInv, ReportTrue, SuccessTruthful, Accomplished
<1>2. QED
  BY <1>1, Invariance, PTL

\* No step of a command removes or replaces the filter of another program.
THEOREM ForeignKept == Spec => ForeignUntouched
<1> DEFINE Kept(p) == filters[p] = Foreign /\ filters'[p] # Foreign => command' = command
<1>1. ASSUME IInv, [Next]_vars
      PROVE  \A p \in Places : Kept(p)
  <2> USE <1>1, NameAssumption DEF Kept
  <2>1. program # Foreign /\ filters \in [Places -> Programs \cup {None, Foreign}]
    BY DEF IInv, TypeOK
  <2>2. CASE AttachTake
    BY <2>1, <2>2 DEF AttachTake
  <2>3. CASE Detach
    BY <2>1, <2>3 DEF Detach
  <2>4. ASSUME NEW p \in Places, Sweep(p) PROVE \A q \in Places : Kept(q)
    BY <2>1, <2>4 DEF Sweep
  <2>5. CASE UNCHANGED filters
    BY <2>5
  <2>6. ASSUME NEW i \in Interfaces, Appear(i) \/ Vanish(i) PROVE \A q \in Places : Kept(q)
    BY <2>6 DEF Appear, Vanish
  <2>7. ASSUME NEW p \in Places, Others(p) PROVE \A q \in Places : Kept(q)
    BY <2>7 DEF Others
  <2>8. QED
    BY <2>2, <2>3, <2>4, <2>5, <2>6, <2>7
       DEF Next, Command, Lock, AttachCheck, AttachQuery, AttachAgain, PruneCheck, Swept,
           LoadCheck, UnloadDisable, UnlinkProgram, UnlinkMaps, LoadMaps, WriteSchema,
           PinProgram, Disable, Sync, HealthCheck, Listed, AllListed, Verify, Verified, Kill,
           vars
<1>2. QED
  BY <1>1, Invariance, PTL DEF Spec, ForeignUntouched
================================================================================
