------------------------------ MODULE TcLifecycle ------------------------------
(***************************************************************************)
(* The life of the BPF object and its TC filters: the commands of          *)
(* client-access-bpfctl that load, unload, attach, detach, prune and       *)
(* inspect.  They exclude each other by one file lock and may fail or be   *)
(* killed between any two system calls.  Interfaces come and go, and other *)
(* programs install filters, without that lock.                            *)
(*                                                                         *)
(* Another program takes a free coordinate and removes its own filter; it  *)
(* does not replace an owned one.  So looking at an owned filter and       *)
(* detaching it is one step; finding a coordinate free and taking it is    *)
(* not.  An interface that goes and comes back while a command runs is one *)
(* interface.  What a snapshot holds is SnapshotPublication's subject.     *)
(***************************************************************************)
EXTENDS Integers

CONSTANTS
  Interfaces,   \* network interfaces that can exist
  None,         \* no program, no filter, no command
  Foreign,      \* a program of somebody else
  MaxPrograms,  \* bound: program ids
  MaxFaults,    \* bound: system calls that fail, and commands that are killed
  MaxEvents     \* bound: what others do to interfaces and filters

Programs == 1 .. MaxPrograms

ASSUME BoundAssumption == {MaxPrograms, MaxFaults, MaxEvents} \subseteq Nat /\ MaxPrograms > 0
ASSUME NameAssumption == None \notin Programs /\ Foreign \notin Programs /\ None # Foreign

VARIABLES
  exists,     \* the interfaces there are
  filters,    \* the program at each coordinate of each interface
  program,    \* the id of the pinned program
  maps,       \* the pinned maps: none, an older version's, all or some of ours
              \* without the schema, or all with the schema written
  enabled,    \* ca_config.enabled in the pinned map
  latest,     \* the last program id given
  command,    \* the command that holds the lock
  result,     \* what the last command reported
  disturbed,  \* history: others changed something since the command began
  spent       \* faults and events so far

vars == <<exists, filters, program, maps, enabled, latest, command, result,
          disturbed, spent>>
world  == <<exists, disturbed>>
object == <<program, maps, enabled, latest>>

\* CA_TC_HANDLE at CA_TC_PRIORITY, and the coordinate of earlier versions
Coordinates == {"main", "legacy"}
Places == Interfaces \X Coordinates
Owned(id) == {p \in Places : filters[p] = id}
Available == program # None /\ maps = "complete"

\* The operations and what each is given: one interface, those to keep, or none.
Operations ==
  {<<op, {i}>> : op \in {"attach", "detach"}, i \in Interfaces}
    \cup {<<"prune", keep>> : keep \in SUBSET Interfaces}
    \cup {<<"health", keep>> : keep \in (SUBSET Interfaces) \ {{}}}
    \cup {<<op, {}>> : op \in {"ensure", "load", "unload", "disable", "sync"}}

Steps == {"check", "query", "take", "again", "sweep", "unlink program", "unlink maps",
          "load", "schema", "pin", "listed", "verify"}

TypeOK ==
  /\ exists \subseteq Interfaces
  /\ filters \in [Places -> Programs \cup {None, Foreign}]
  /\ \A p \in Places : p[1] \notin exists => filters[p] = None
  /\ program \in Programs \cup {None} /\ latest \in 0 .. MaxPrograms
  /\ maps \in {"none", "old", "partial", "complete"}
  /\ enabled \in BOOLEAN /\ disturbed \in BOOLEAN
  /\ command # None =>
       /\ <<command.op, command.arg>> \in Operations /\ command.step \in Steps
       /\ command.todo \subseteq Places /\ command.failed \in BOOLEAN

\* A boot, or an upgrade from the version before the schema.
Init ==
  /\ exists \in SUBSET Interfaces
  /\ \/ /\ program = None /\ maps = "none" /\ latest = 0 /\ enabled = FALSE
        /\ filters = [p \in Places |-> None]
     \/ /\ program = 1 /\ maps = "old" /\ latest = 1 /\ enabled = TRUE
        /\ filters = [p \in Places |->
                        IF p \in exists \X {"legacy"} THEN 1 ELSE None]
  /\ command = None /\ result = None /\ disturbed = FALSE
  /\ spent = [faults |-> 0, events |-> 0]

Fault == spent.faults < MaxFaults /\ spent' = [spent EXCEPT !.faults = @ + 1]
Event == /\ spent.events < MaxEvents /\ spent' = [spent EXCEPT !.events = @ + 1]
         /\ disturbed' = TRUE

--------------------------------------------------------------------------------
(* One command at a time, from the lock to its exit.                       *)

Lock(op, arg) ==
  /\ command = None
  /\ op \in {"ensure", "load"} => latest < MaxPrograms   \* bound
  /\ command' = [op |-> op, arg |-> arg, step |-> "check", todo |-> {}, failed |-> FALSE]
  /\ result' = None /\ disturbed' = FALSE
  /\ UNCHANGED <<exists, filters, object, spent>>

At(ops, step) == command # None /\ command.op \in ops /\ command.step = step
Goto(step) == command' = [command EXCEPT !.step = step] /\ UNCHANGED result
Exit(ok) == command' = None /\ result' = [op |-> command.op, arg |-> command.arg, ok |-> ok]

\* A system call fails and with it the command; what it has done remains.
Fail == Fault /\ Exit(FALSE)

\* The process is killed; the kernel drops its lock.
Kill == /\ command # None /\ Fault
        /\ command' = None /\ UNCHANGED result
        /\ UNCHANGED <<world, filters, object>>

\* Mutant: the interface is not looked up again.
OnlyStale(i) == command.arg = {i}
Only(i) == i \in exists /\ command.arg = {i}

\* ca_bpf_tc_action: attach
AttachCheck ==
  /\ At({"attach"}, "check")
  /\ \/ /\ command.arg \subseteq exists /\ program # None
        /\ Goto("query") /\ UNCHANGED spent
     \/ /\ command.arg \cap exists = {} \/ program = None
        /\ Exit(FALSE) /\ UNCHANGED spent
     \/ Fail
  /\ UNCHANGED <<world, filters, object>>
AttachQuery ==
  /\ At({"attach"}, "query")
  /\ \/ \E i \in Interfaces :
          /\ Only(i)
          /\ IF filters[<<i, "main">>] = None THEN Goto("take")
             ELSE Exit(filters[<<i, "main">>] = program)
          /\ UNCHANGED spent
     \/ command.arg \cap exists = {} /\ Exit(FALSE) /\ UNCHANGED spent
     \/ Fail
  /\ UNCHANGED <<world, filters, object>>
\* Mutant: the filter is attached with NLM_F_REPLACE.
AttachTakeReplacing ==
  /\ At({"attach"}, "take")
  /\ \/ \E i \in Interfaces :
          /\ Only(i)
          /\ filters' = [filters EXCEPT ![<<i, "main">>] = program]
          /\ Exit(TRUE) /\ UNCHANGED spent
     \/ command.arg \cap exists = {} /\ Exit(FALSE) /\ UNCHANGED <<filters, spent>>
     \/ Fail /\ UNCHANGED filters
  /\ UNCHANGED <<world, object>>
\* Without NLM_F_REPLACE: a coordinate that was taken meanwhile is looked at again.
AttachTake ==
  /\ At({"attach"}, "take")
  /\ \/ \E i \in Interfaces :
          /\ Only(i)
          /\ IF filters[<<i, "main">>] = None
             THEN filters' = [filters EXCEPT ![<<i, "main">>] = program] /\ Exit(TRUE)
             ELSE Goto("again") /\ UNCHANGED filters
          /\ UNCHANGED spent
     \/ command.arg \cap exists = {} /\ Exit(FALSE) /\ UNCHANGED <<filters, spent>>
     \/ Fail /\ UNCHANGED filters
  /\ UNCHANGED <<world, object>>
AttachAgain ==
  /\ At({"attach"}, "again")
  /\ Exit(\E i \in Interfaces : Only(i) /\ filters[<<i, "main">>] = program)
  /\ UNCHANGED <<world, filters, object, spent>>

\* ca_bpf_tc_action: detach refuses a filter that is not the pinned program's.
Detach ==
  /\ At({"detach"}, "check")
  /\ \/ \E i \in Interfaces :
          /\ Only(i) /\ program # None
          /\ IF filters[<<i, "main">>] = program
             THEN filters' = [filters EXCEPT ![<<i, "main">>] = None] /\ Exit(TRUE)
             ELSE Exit(filters[<<i, "main">>] = None) /\ UNCHANGED filters
          /\ UNCHANGED spent
     \/ /\ command.arg \cap exists = {} \/ program = None
        /\ Exit(FALSE) /\ UNCHANGED <<filters, spent>>
     \/ Fail /\ UNCHANGED filters
  /\ UNCHANGED <<world, object>>

\* detach_program_from_interfaces, over a list of interfaces taken at its start.
BeginSweep ==
  IF program = None
  THEN command' = [command EXCEPT !.step = "sweep", !.todo = {}]
  ELSE command' = [command EXCEPT !.step = "sweep", !.todo = exists \X Coordinates]
\* Mutant: a kept interface keeps the legacy filter too.
KeepsLegacy(p) == command.op = "prune" /\ p[1] \in command.arg
Keeps(p) == command.op = "prune" /\ p[2] = "main" /\ p[1] \in command.arg

PruneCheck ==
  /\ At({"prune"}, "check")
  /\ \/ command.arg \subseteq exists /\ BeginSweep /\ UNCHANGED <<result, spent>>
     \/ ~(command.arg \subseteq exists) /\ Exit(FALSE) /\ UNCHANGED spent
     \/ Fail
  /\ UNCHANGED <<world, filters, object>>
\* A coordinate that cannot be looked at, or not detached, is counted and passed.
Sweep(p) ==
  /\ At({"prune", "ensure", "load", "unload"}, "sweep") /\ p \in command.todo
  /\ \/ /\ p[1] \in exists
        /\ filters' = IF filters[p] = program /\ ~Keeps(p)
                      THEN [filters EXCEPT ![p] = None] ELSE filters
        /\ command' = [command EXCEPT !.todo = @ \ {p}]
        /\ UNCHANGED spent
     \/ /\ IF p[1] \in exists THEN Fault ELSE UNCHANGED spent
        /\ command' = [command EXCEPT !.todo = @ \ {p}, !.failed = TRUE]
        /\ UNCHANGED filters
  /\ UNCHANGED <<world, object, result>>
\* Mutant: a filter that could not be detached does not stop the unlinking.
SweptAnyway ==
  /\ At({"prune", "ensure", "load", "unload"}, "sweep") /\ command.todo = {}
  /\ IF command.op = "prune" THEN Exit(~command.failed) ELSE Goto("unlink program")
  /\ UNCHANGED <<world, filters, object, spent>>
Swept ==
  /\ At({"prune", "ensure", "load", "unload"}, "sweep") /\ command.todo = {}
  /\ IF command.failed \/ command.op = "prune" THEN Exit(~command.failed)
     ELSE Goto("unlink program")
  /\ UNCHANGED <<world, filters, object, spent>>

\* ca_bpf_object_load and unload_backend, as far as the filters.  An object
\* that cannot be inspected counts as one that is not there.
LoadCheck ==
  /\ At({"ensure", "load"}, "check")
  /\ \/ command.op = "ensure" /\ Available /\ Exit(TRUE) /\ UNCHANGED spent
     \/ /\ BeginSweep /\ UNCHANGED result
        /\ IF command.op = "ensure" /\ Available THEN Fault ELSE UNCHANGED spent
     \/ Fail
  /\ UNCHANGED <<world, filters, object>>
UnloadDisable ==
  /\ At({"unload"}, "check")
  /\ \/ enabled' = FALSE /\ BeginSweep /\ UNCHANGED <<result, spent>>
     \/ Fail /\ UNCHANGED enabled
  /\ UNCHANGED <<world, filters, program, maps, latest>>
\* ca_bpf_object_unlink: the program's pin before the maps'
UnlinkProgram ==
  /\ At({"ensure", "load", "unload"}, "unlink program")
  /\ program' = None
  /\ Goto("unlink maps")
  /\ UNCHANGED <<world, filters, maps, enabled, latest, spent>>
UnlinkMaps ==
  /\ At({"ensure", "load", "unload"}, "unlink maps")
  /\ \/ /\ maps' = "none" /\ enabled' = FALSE
        /\ IF command.op = "unload" THEN Exit(TRUE) ELSE Goto("load")
     \/ /\ maps \in {"old", "complete"} /\ maps' = "partial"
        /\ enabled' \in {enabled, FALSE} /\ UNCHANGED <<command, result>>
  /\ UNCHANGED <<world, filters, program, latest, spent>>

\* The rest of ca_bpf_object_load: libbpf pins the maps, the schema makes them
\* complete, the program is pinned last.
LoadMaps ==
  /\ At({"ensure", "load"}, "load")
  /\ \/ maps' = "partial" /\ Goto("schema") /\ UNCHANGED spent
     \/ maps' \in {"none", "partial"} /\ Fail
  /\ UNCHANGED <<world, filters, program, enabled, latest>>
WriteSchema ==
  /\ At({"ensure", "load"}, "schema")
  /\ \/ maps' = "complete" /\ Goto("pin") /\ UNCHANGED spent
     \/ maps' = "none" /\ Fail
  /\ UNCHANGED <<world, filters, program, enabled, latest>>
PinProgram ==
  /\ At({"ensure", "load"}, "pin")
  /\ latest' = latest + 1
  /\ \/ program' = latest' /\ Exit(TRUE) /\ UNCHANGED <<maps, spent>>
     \/ maps' = "none" /\ Fail /\ UNCHANGED program
  /\ UNCHANGED <<world, filters, enabled>>

\* ca_bpf_backend_disable, and the publication of an enabled snapshot, which
\* needs the maps and not the schema
Disable ==
  /\ At({"disable"}, "check")
  /\ \/ enabled' = FALSE /\ Exit(TRUE) /\ UNCHANGED spent
     \/ Fail /\ UNCHANGED enabled
  /\ UNCHANGED <<world, filters, program, maps, latest>>
Sync ==
  /\ At({"sync"}, "check")
  /\ \/ maps # "none" /\ enabled' = TRUE /\ Exit(TRUE) /\ UNCHANGED spent
     \/ maps # "complete" /\ Exit(FALSE) /\ UNCHANGED <<enabled, spent>>
     \/ Fail /\ UNCHANGED enabled
  /\ UNCHANGED <<world, filters, program, maps, latest>>

\* ca_bpf_verify_health: the object, each listed interface, then every one
HealthCheck ==
  /\ At({"health"}, "check")
  /\ IF Available /\ enabled
     THEN /\ command' = [command EXCEPT !.step = "listed", !.todo = command.arg \X {"main"}]
          /\ UNCHANGED result
     ELSE Exit(FALSE)
  /\ UNCHANGED <<world, filters, object, spent>>
Listed(p) ==
  /\ At({"health"}, "listed") /\ p \in command.todo
  /\ IF filters[p] = program
     THEN command' = [command EXCEPT !.todo = @ \ {p}] /\ UNCHANGED result
     ELSE Exit(FALSE)
  /\ UNCHANGED <<world, filters, object, spent>>
AllListed ==
  /\ At({"health"}, "listed") /\ command.todo = {}
  /\ command' = [command EXCEPT !.step = "verify", !.todo = exists \X Coordinates]
  /\ UNCHANGED <<world, filters, object, result, spent>>
Verify(p) ==
  /\ At({"health"}, "verify") /\ p \in command.todo
  /\ IF p[1] \in exists /\ (filters[p] = program => p[2] = "main" /\ p[1] \in command.arg)
     THEN command' = [command EXCEPT !.todo = @ \ {p}] /\ UNCHANGED result
     ELSE Exit(FALSE)
  /\ UNCHANGED <<world, filters, object, spent>>
Verified ==
  /\ At({"health"}, "verify") /\ command.todo = {}
  /\ Exit(TRUE)
  /\ UNCHANGED <<world, filters, object, spent>>

--------------------------------------------------------------------------------
(* The others.                                                             *)

Appear(i) ==
  /\ i \notin exists /\ exists' = exists \cup {i}
  /\ Event
  /\ UNCHANGED <<filters, object, command, result>>
Vanish(i) ==
  /\ i \in exists /\ exists' = exists \ {i}
  /\ filters' = [p \in Places |-> IF p[1] = i THEN None ELSE filters[p]]
  /\ Event
  /\ UNCHANGED <<object, command, result>>
Others(p) ==
  /\ p[1] \in exists
  /\ \/ filters[p] = None /\ filters' = [filters EXCEPT ![p] = Foreign]
     \/ filters[p] = Foreign /\ filters' = [filters EXCEPT ![p] = None]
  /\ Event
  /\ UNCHANGED <<exists, object, command, result>>

Command ==
  \/ AttachCheck \/ AttachQuery \/ AttachTake \/ AttachAgain \/ Detach
  \/ PruneCheck \/ (\E p \in Places : Sweep(p)) \/ Swept
  \/ LoadCheck \/ UnloadDisable \/ UnlinkProgram \/ UnlinkMaps
  \/ LoadMaps \/ WriteSchema \/ PinProgram \/ Disable \/ Sync
  \/ HealthCheck \/ (\E p \in Places : Listed(p)) \/ AllListed
  \/ (\E p \in Places : Verify(p)) \/ Verified
Next ==
  \/ \E c \in Operations : Lock(c[1], c[2])
  \/ Command \/ Kill
  \/ \E i \in Interfaces : Appear(i) \/ Vanish(i)
  \/ \E p \in Places : Others(p)
Spec == Init /\ [][Next]_vars

--------------------------------------------------------------------------------
(* Properties.                                                             *)

\* A filter of this application always belongs to the pinned program, with its
\* configuration pinned beside it, wherever a load or an unload failed or was
\* killed: otherwise prune could not find it, disable could not switch it off,
\* and attach would refuse its place for ever.
Controllable ==
  \A p \in Places :
    filters[p] \in Programs => filters[p] = program /\ maps \in {"old", "complete"}

\* No command removes or replaces the filter of another program (only a step
\* of a command changes its record), whatever appears while it runs.
ForeignUntouched ==
  [][\A p \in Places :
       filters[p] = Foreign /\ filters'[p] # Foreign => command' = command]_vars

\* A command that reports success did what it is for.  Only what others may undo
\* (an interface that went away) is claimed of an undisturbed run alone.
Elsewhere(keep) == Owned(program) \ (keep \X {"main"})
Reached(op, arg) ==
  CASE op = "attach" -> disturbed \/ arg \X {"main"} \subseteq Owned(program)
    [] op = "detach" -> Owned(program) \cap (arg \X {"main"}) = {}
    [] op = "prune"  -> program # None => Elsewhere(arg) = {}
    [] op = "ensure" -> Available
    [] op = "load"   -> Available /\ ~enabled /\ Owned(program) = {}
    [] op = "unload" -> program = None /\ maps = "none" /\ \A id \in Programs : Owned(id) = {}
    [] op = "disable" -> ~enabled
    [] op = "sync"   -> enabled
    [] op = "health" -> /\ Available /\ enabled /\ Elsewhere(arg) = {}
                        /\ disturbed \/ arg \X {"main"} \subseteq Owned(program)
SuccessTruthful ==
  command = None /\ result # None /\ result.ok => Reached(result.op, result.arg)

================================================================================
