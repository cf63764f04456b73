-------------------------- MODULE PropertyService --------------------------
(***************************************************************************)
(* The property service of init (init/property_service.cpp) as far as it   *)
(* keeps state: persist.* properties in memory and in their file           *)
(* (init/persistent_properties.cpp), and properties that are set only      *)
(* after a child process has done its work.                                *)
(*                                                                         *)
(* init is one thread.  Power may fail between any two of its steps.  The  *)
(* file system keeps directory operations in their order: after a failure  *)
(* the directory is as it was at some moment since the last commit.  The   *)
(* contents of a file are there for certain only after fsync.  The         *)
(* temporary file is truncated or deleted before use; what a failure       *)
(* leaves of it does not matter.                                           *)
(***************************************************************************)
EXTENDS Naturals, Sequences, FiniteSets, Functions

CONSTANTS
    Name,      \* properties persist.*
    Value,
    None,      \* no such property, or no file
    Torn,      \* a file that cannot be parsed
    Default,   \* what the prop.default and build.prop files say
    Override,  \* what /data/local.prop says
    Legacy,    \* the legacy files a device may have at its first boot
    MaxSet,    \* properties set during a boot
    MaxBoot

Props == [Name -> Value \cup {None}]

ASSUME PropertyAssumption ==
    /\ None \notin Name /\ None \notin Value /\ Torn # None /\ None \notin Props /\ Torn \notin Props
    /\ Default \in Props /\ Override \in Props /\ Legacy \subseteq Props
    /\ MaxSet \in Nat /\ MaxBoot \in Nat

VARIABLES
    memory,    \* the property area
    persistent_properties_loaded,
    file,      \* /data/property/persistent_properties: properties, Torn or None
    legacy,    \* /data/property/persist.*, one file for each property
    durable,   \* what a power failure may leave of file and legacy
    pc,        \* the step of WritePersistentPropertyFile
    name,      \* the property that is being written, None for the legacy ones
    next,      \* the contents that are being written
    synced,    \* and whether fsync succeeded
    sets, boots,
    property_children,  \* the requests that wait for a child, the first one's exists
    child,              \* "none", "running", "exited"
    unsaved,   \* history: properties whose value in memory was not written
    allowed,   \* history: the values of each property the next boot may find
    hurt       \* history: a file could not be read or synced during this boot

childVars == <<property_children, child>>
diskVars == <<file, legacy, durable>>
writeVars == <<pc, name, next, synced>>
memoryVars == <<memory, persistent_properties_loaded, sets, boots>>
vars == <<childVars, diskVars, writeVars, memoryVars, unsaved, allowed, hurt>>

Nothing == [n \in Name |-> None]
Over(f, g) == [n \in Name |-> IF f[n] # None THEN f[n] ELSE g[n]]
Disk(f, l) == [file |-> f, legacy |-> l]

\* What a boot that finds disk d has in memory once the properties are loaded
NextBoot(d) == Over(IF d.file \in Props THEN d.file ELSE d.legacy, Over(Override, Default))

\* The first boot of a device that has the legacy files of an older version, or none
Init ==
    /\ memory = Default /\ persistent_properties_loaded = FALSE
    /\ file = None /\ legacy \in Legacy
    /\ durable = {Disk(file, legacy)}
    /\ pc = "idle" /\ name = None /\ next = Nothing /\ synced = FALSE
    /\ sets = 0 /\ boots = 1
    /\ property_children = <<>> /\ child = "none"
    /\ unsaved = {} /\ hurt = FALSE
    /\ allowed = [n \in Name |-> {NextBoot(Disk(file, legacy))[n]}]

-----------------------------------------------------------------------------
(* WritePersistentPropertyFile                                              *)

\* A directory operation
Directory(f, l) ==
    /\ file' = f /\ legacy' = l
    /\ durable' = durable \cup {Disk(f, l)}

\* Mutant: the values in the file come before those of local.prop.
MutSetAll(stored) == Over(Override, Over(stored, memory))
\* load_persist_props: overrides, then the stored properties
SetAll(stored) == Over(stored, Over(Override, memory))

\* The end of load_persist_props
Loaded(stored) ==
    /\ memory' = SetAll(stored)
    /\ persistent_properties_loaded' = TRUE
    /\ unsaved' = {n \in unsaved : stored[n] = None /\ Override[n] = None}
    /\ pc' = "idle"

\* An error: the caller goes on without
Fails(when) ==
    /\ pc = when
    /\ IF name = None
       THEN Loaded(next)
       ELSE /\ pc' = "idle"
            /\ unsaved' = unsaved \cup {name}
            /\ UNCHANGED <<memory, persistent_properties_loaded>>
    /\ UNCHANGED <<childVars, diskVars, name, next, synced, sets, boots, allowed, hurt>>

OpenFails == Fails("open")
WriteFails == Fails("write")
RenameFails == Fails("rename")

\* open with O_TRUNC
Open ==
    /\ pc = "open"
    /\ pc' = "write"
    /\ synced' = FALSE
    /\ UNCHANGED <<childVars, diskVars, name, next, memoryVars, unsaved, allowed, hurt>>

\* Mutant: no fsync.
MutWrite ==
    /\ pc = "write"
    /\ pc' = "rename"
    /\ UNCHANGED <<childVars, diskVars, name, next, synced, memoryVars, unsaved, allowed, hurt>>
Write ==
    /\ pc = "write"
    /\ pc' = "fsync"
    /\ UNCHANGED <<childVars, diskVars, name, next, synced, memoryVars, unsaved, allowed, hurt>>

\* The result of fsync is ignored
Fsync(ok) ==
    /\ pc = "fsync"
    /\ pc' = "rename"
    /\ synced' = ok
    /\ hurt' = (hurt \/ ~ok)
    /\ UNCHANGED <<childVars, diskVars, name, next, memoryVars, unsaved, allowed>>

\* What was not synced may be there or not
Rename ==
    /\ pc = "rename"
    /\ file' = next
    /\ durable' = durable \cup {Disk(next, legacy)}
                          \cup (IF synced THEN {} ELSE {Disk(Torn, legacy)})
    /\ IF name = None
       THEN pc' = "remove" /\ UNCHANGED unsaved
       ELSE pc' = "idle" /\ unsaved' = {n \in unsaved \ {name} : next[n] # memory[n]}
    /\ UNCHANGED <<childVars, legacy, name, next, synced, memoryVars, allowed, hurt>>

-----------------------------------------------------------------------------
(* Setting a property                                                       *)

MayBe(n, v) == allowed' = [allowed EXCEPT ![n] = @ \cup {v}]

\* PropertySetImpl before the persistent properties are loaded: nothing is written
EarlySet(n, v) ==
    /\ pc = "idle" /\ ~persistent_properties_loaded
    /\ sets < MaxSet
    /\ sets' = sets + 1
    /\ memory' = [memory EXCEPT ![n] = v]
    /\ unsaved' = unsaved \cup {n}
    /\ MayBe(n, v)
    /\ UNCHANGED <<childVars, diskVars, writeVars, persistent_properties_loaded, boots, hurt>>

\* LoadPersistentPropertiesFromMemory
Recovered(n, v) == [memory EXCEPT ![n] = v]

\* The file can be read and parsed; a torn one is deleted
Readable(ok) == ok /\ file \in Props
AfterRead(ok) == IF ok /\ file = Torn THEN None ELSE file

\* PropertySetImpl and WritePersistentProperty until the temporary file is opened
PropertySet(n, v, ok) ==
    /\ pc = "idle" /\ persistent_properties_loaded
    /\ sets < MaxSet
    /\ sets' = sets + 1
    /\ memory' = [memory EXCEPT ![n] = v]
    /\ Directory(AfterRead(ok), legacy)
    /\ next' = [(IF Readable(ok) THEN file ELSE Recovered(n, v)) EXCEPT ![n] = v]
    /\ name' = n
    /\ pc' = "open"
    /\ MayBe(n, v)
    /\ UNCHANGED <<childVars, synced, persistent_properties_loaded, boots, unsaved, hurt>>

-----------------------------------------------------------------------------
(* load_persist_props; with full disk encryption its first call does nothing *)

Load ==
    /\ pc = "idle" /\ ~persistent_properties_loaded
    /\ Readable(TRUE)
    /\ Loaded(file)
    /\ UNCHANGED <<childVars, diskVars, name, next, synced, sets, boots, allowed, hurt>>

\* The legacy files are read, to be written to the one file
LoadLegacy(ok) ==
    /\ pc = "idle" /\ ~persistent_properties_loaded
    /\ ~Readable(ok)
    /\ Directory(AfterRead(ok), legacy)
    /\ next' = legacy /\ name' = None
    /\ pc' = "open"
    /\ hurt' = (hurt \/ (~ok /\ file # None))
    /\ UNCHANGED <<childVars, synced, memoryVars, unsaved, allowed>>

\* Neither the file nor the legacy directory can be read
LoadNothing(ok) ==
    /\ pc = "idle" /\ ~persistent_properties_loaded
    /\ ~Readable(ok)
    /\ Directory(AfterRead(ok), legacy)
    /\ Loaded(Nothing)
    /\ hurt' = TRUE
    /\ UNCHANGED <<childVars, name, next, synced, sets, boots, allowed>>

\* RemoveLegacyPersistentPropertyFiles, one file at a time
RemoveLegacy(n) ==
    /\ pc = "remove"
    /\ legacy[n] # None
    /\ Directory(file, [legacy EXCEPT ![n] = None])
    /\ UNCHANGED <<childVars, writeVars, memoryVars, unsaved, allowed, hurt>>

\* Files that cannot be removed stay
LoadDone ==
    /\ pc = "remove"
    /\ Loaded(next)
    /\ UNCHANGED <<childVars, diskVars, name, next, synced, sets, boots, allowed, hurt>>

-----------------------------------------------------------------------------
(* Properties that are set when a child has exited                          *)

\* Mutant: the next child is not launched.
MutLaunch(q) == property_children' = q /\ child' = "none"
\* PropertyChildLaunch for the first of q; when fork fails all requests are dropped
Launch(q) ==
    \/ property_children' = q /\ child' = "running"
    \/ property_children' = <<>> /\ child' = "none"

\* A request is known by its number
PropertySetAsync ==
    /\ pc = "idle"
    /\ sets < MaxSet
    /\ sets' = sets + 1
    /\ IF property_children = <<>>
       THEN Launch(<<sets>>)
       ELSE property_children' = Append(property_children, sets) /\ UNCHANGED child
    /\ UNCHANGED <<diskVars, writeVars, memory, persistent_properties_loaded, boots, unsaved,
                   allowed, hurt>>

ChildExit ==
    /\ child = "running"
    /\ child' = "exited"
    /\ UNCHANGED <<property_children, diskVars, writeVars, memoryVars, unsaved,
                   allowed, hurt>>

\* The property gets its value, the next child is launched
PropertyChildReap ==
    /\ pc = "idle"
    /\ child = "exited"
    /\ IF Len(property_children) = 1
       THEN property_children' = <<>> /\ child' = "none"
       ELSE Launch(Tail(property_children))
    /\ UNCHANGED <<diskVars, writeVars, memoryVars, unsaved, allowed, hurt>>

-----------------------------------------------------------------------------
(* The file system commits; power fails and the device boots                *)

\* Everything is written back
Commit ==
    /\ durable # {Disk(file, legacy)}
    /\ durable' = {Disk(file, legacy)}
    /\ allowed' = [n \in Name |-> {NextBoot(Disk(file, legacy))[n], memory[n]}]
    /\ UNCHANGED <<childVars, file, legacy, writeVars, memoryVars, unsaved, hurt>>

PowerFails(d) ==
    /\ boots < MaxBoot
    /\ boots' = boots + 1
    /\ d \in durable
    /\ file' = d.file /\ legacy' = d.legacy /\ durable' = {d}
    /\ memory' = Default /\ persistent_properties_loaded' = FALSE /\ sets' = 0
    /\ pc' = "idle" /\ name' = None /\ next' = Nothing /\ synced' = FALSE
    /\ property_children' = <<>> /\ child' = "none"
    /\ unsaved' = {}
    /\ allowed' = [n \in Name |-> {NextBoot(d)[n]}]
    /\ hurt' = FALSE

Step ==
    \/ \E n \in Name, v \in Value : EarlySet(n, v) \/ \E ok \in BOOLEAN : PropertySet(n, v, ok)
    \/ Load \/ (\E ok \in BOOLEAN : LoadLegacy(ok) \/ LoadNothing(ok))
    \/ OpenFails \/ WriteFails \/ RenameFails
    \/ Open \/ Write \/ (\E ok \in BOOLEAN : Fsync(ok)) \/ Rename
    \/ (\E n \in Name : RemoveLegacy(n)) \/ LoadDone
    \/ PropertySetAsync

Next ==
    \/ Step \/ ChildExit \/ PropertyChildReap \/ Commit
    \/ \E d \in durable : PowerFails(d)

Spec == Init /\ [][Next]_vars

\* init does not stop in the middle of a step, a child ends, and its end is noticed
FairSpec ==
    /\ Spec
    /\ WF_vars(pc # "idle" /\ Step)
    /\ WF_vars(ChildExit) /\ SF_vars(PropertyChildReap)

-----------------------------------------------------------------------------
(* Properties                                                               *)

\* A power failure at any moment leaves each property with its last committed value or one
\* that it was set to since, also in the middle of a write or of taking over the legacy
\* files, and if any of open, write and rename fails.
Kept == ~hurt => \A d \in durable : \A n \in Name : NextBoot(d)[n] \in allowed[n]

\* Between two requests the next boot would bring back just what is in memory, whatever
\* the ways by which the file came about; but for properties that were set before the
\* stored ones were loaded or whose last write failed.
MemoryIsStored ==
    ~hurt /\ persistent_properties_loaded /\ pc = "idle"
        => \A n \in Name \ unsaved : memory[n] = NextBoot(Disk(file, legacy))[n]

\* Every request is dealt with: its value is set, or it is dropped because fork failed.
AsyncServed ==
    \A id \in 0..MaxSet : id \in Range(property_children) ~> id \notin Range(property_children)

=============================================================================
