----------------------- MODULE PropertyServiceProofs -----------------------
(***************************************************************************)
(* What the file of persist.* properties brings back after a power         *)
(* failure, proved for any sets of names and values, any legacy files and  *)
(* any number of boots.                                                    *)
(***************************************************************************)
EXTENDS PropertyService, TLAPS

\* The property file is being written
Writing == pc \in {"open", "write", "fsync", "rename"}

Stored == Disk(file, legacy)
Disks == [file : Props \cup {Torn, None}, legacy : Props]

TypeOK ==
    /\ memory \in Props /\ persistent_properties_loaded \in BOOLEAN
    /\ file \in Props \cup {Torn, None} /\ legacy \in Props /\ durable \subseteq Disks
    /\ pc \in {"idle", "open", "write", "fsync", "rename", "remove"}
    /\ name \in Name \cup {None} /\ next \in Props /\ synced \in BOOLEAN
    /\ unsaved \subseteq Name /\ hurt \in BOOLEAN
    /\ allowed \in [Name -> SUBSET (Value \cup {None})]

\* Which request is being served: the legacy files are taken over before the properties
\* are loaded, a property is written only after that.
Serving ==
    /\ Writing => (name = None <=> ~persistent_properties_loaded)
    /\ pc = "remove" => name = None /\ ~persistent_properties_loaded

\* The value of a property in memory is one the next boot may find, or the default.
InMemory ==
    /\ \A n \in Name : Default[n] # None => memory[n] # None
    /\ ~persistent_properties_loaded =>
          \A n \in Name : IF n \in unsaved THEN memory[n] \in allowed[n]
                                           ELSE memory[n] = Default[n]
    /\ persistent_properties_loaded =>
          \A n \in Name : /\ memory[n] \in allowed[n]
                          /\ Override[n] # None => memory[n] # None

\* The contents being written: the legacy files, which are what counts until the file is
\* there, or for each property what is stored or what is in memory.
InNext ==
    /\ Writing /\ name = None => next = legacy /\ file \notin Props
    /\ pc = "remove" => file = next
    /\ Writing /\ name # None =>
          /\ next[name] = memory[name] /\ memory[name] # None
          /\ \A n \in Name :
                \/ NextBoot(Disk(next, legacy))[n] = NextBoot(Stored)[n]
                \/ NextBoot(Disk(next, legacy))[n] = memory[n]

\* MemoryIsStored, also while a property is written, but for that one.
InFile ==
    persistent_properties_loaded =>
        \A n \in Name \ unsaved :
            (pc # "idle" => n # name) => memory[n] = NextBoot(Stored)[n]

\* The inductive invariant.
PropertyInv ==
    /\ TypeOK /\ Serving
    /\ Stored \in durable
    /\ Kept
    /\ ~hurt => /\ pc = "rename" => synced
                /\ InMemory /\ InNext /\ InFile

-----------------------------------------------------------------------------
(* The operators                                                            *)

\* What a boot finds, property by property: the file if there is one that can be parsed,
\* otherwise the legacy files, then local.prop, then the defaults.
LEMMA BootValue ==
  ASSUME NEW f \in Props \cup {Torn, None}, NEW l \in Props, NEW n \in Name
  PROVE  NextBoot(Disk(f, l))[n] =
            LET stored == IF f \in Props THEN f ELSE l
            IN  IF stored[n] # None THEN stored[n]
                ELSE IF Override[n] # None THEN Override[n] ELSE Default[n]
  BY DEF NextBoot, Disk, Over

\* A boot finds a value or none for each property.
LEMMA BootType ==
  ASSUME NEW f \in Props \cup {Torn, None}, NEW l \in Props, NEW n \in Name
  PROVE  NextBoot(Disk(f, l))[n] \in Value \cup {None}
  BY BootValue, PropertyAssumption DEF Props

\* A disk is determined by its two parts.
LEMMA DiskType ==
  /\ \A f \in Props \cup {Torn, None}, l \in Props : Disk(f, l) \in Disks
  /\ \A d \in Disks : d = Disk(d.file, d.legacy)
  BY DEF Disk, Disks

\* What load_persist_props leaves in memory, property by property.
LEMMA SetAllValue ==
  ASSUME memory \in Props, NEW stored \in Props
  PROVE  /\ SetAll(stored) \in Props
         /\ \A n \in Name : SetAll(stored)[n] =
               IF stored[n] # None THEN stored[n]
               ELSE IF Override[n] # None THEN Override[n] ELSE memory[n]
  BY PropertyAssumption DEF SetAll, Over, Props

\* There is no empty file: None and Torn are no contents.
LEMMA NoContents == None \notin Props /\ Torn \notin Props /\ Nothing \in Props
  BY PropertyAssumption DEF Nothing, Props

\* A file that is deleted because it is torn counted for nothing.
LEMMA AfterReadValue ==
  ASSUME TypeOK, NEW ok \in BOOLEAN
  PROVE  /\ AfterRead(ok) \in Props \cup {Torn, None}
         /\ AfterRead(ok) \in Props => AfterRead(ok) = file
         /\ AfterRead(ok) \in Props <=> file \in Props
         /\ \A n \in Name : NextBoot(Disk(AfterRead(ok), legacy))[n] = NextBoot(Stored)[n]
  <1>1. /\ AfterRead(ok) \in Props \cup {Torn, None}
        /\ AfterRead(ok) \in Props => AfterRead(ok) = file
        /\ AfterRead(ok) \in Props <=> file \in Props
    BY NoContents DEF AfterRead, TypeOK
  <1>2. ASSUME NEW n \in Name
        PROVE  NextBoot(Disk(AfterRead(ok), legacy))[n] = NextBoot(Stored)[n]
    BY <1>1, BootValue DEF Stored, TypeOK
  <1> QED
    BY <1>1, <1>2

-----------------------------------------------------------------------------
(* The steps                                                                *)

\* The initial state satisfies the inductive invariant.
LEMMA InitInv == Init => PropertyInv
  <1> SUFFICES ASSUME Init PROVE PropertyInv
    OBVIOUS
  <1>1. /\ memory = Default /\ ~persistent_properties_loaded /\ pc = "idle" /\ name = None
        /\ file = None /\ legacy \in Props /\ durable = {Disk(file, legacy)}
        /\ unsaved = {} /\ hurt = FALSE /\ synced = FALSE
        /\ allowed = [n \in Name |-> {NextBoot(Disk(file, legacy))[n]}]
    BY PropertyAssumption DEF Init
  <1>2. TypeOK
    <2>1. durable \subseteq Disks
      BY <1>1, DiskType
    <2>2. allowed \in [Name -> SUBSET (Value \cup {None})]
      BY <1>1, BootType
    <2> QED
      BY <1>1, <2>1, <2>2, NoContents, PropertyAssumption, Zenon DEF TypeOK, Init
  <1>3. Serving /\ Stored \in durable /\ Kept
    BY <1>1 DEF Serving, Writing, Stored, Kept
  <1>4. (pc = "rename" => synced) /\ InMemory /\ InNext /\ InFile
    BY <1>1, PropertyAssumption DEF InMemory, InNext, InFile, Writing
  <1> QED
    BY <1>2, <1>3, <1>4 DEF PropertyInv

\* The end of load_persist_props: memory agrees with the disk, if the properties that were
\* read are the ones that the disk has.
LEMMA LoadedInv ==
  ASSUME PropertyInv, ~persistent_properties_loaded, NEW stored \in Props, Loaded(stored),
         ~hurt => \A n \in Name : NextBoot(Stored)[n] =
                     IF stored[n] # None THEN stored[n]
                     ELSE IF Override[n] # None THEN Override[n] ELSE Default[n],
         UNCHANGED <<file, legacy, durable, name, next, synced, allowed, hurt>>
  PROVE  PropertyInv'
  <1>1. /\ memory' = SetAll(stored) /\ persistent_properties_loaded' /\ pc' = "idle"
        /\ unsaved' = {n \in unsaved : stored[n] = None /\ Override[n] = None}
    BY DEF Loaded
  <1>2. TypeOK'
    BY <1>1, SetAllValue DEF PropertyInv, TypeOK, Loaded
  <1>3. Serving' /\ Stored' \in durable' /\ Stored' = Stored /\ Kept'
    BY <1>1 DEF Serving, Writing, Stored, PropertyInv, Kept
  <1>4. ASSUME ~hurt'
        PROVE  (pc = "rename" => synced)' /\ InMemory' /\ InNext' /\ InFile'
    <2>1. /\ InMemory /\ unsaved \subseteq Name /\ memory \in Props
          /\ \A n \in Name : NextBoot(Stored)[n] \in allowed[n]
      BY <1>4 DEF PropertyInv, Kept, TypeOK
    <2>2. ASSUME NEW n \in Name
          PROVE  /\ memory'[n] \in allowed[n]
                 /\ Override[n] # None => memory'[n] # None
                 /\ Default[n] # None => memory'[n] # None
                 /\ n \notin unsaved' => memory'[n] = NextBoot(Stored)[n]
      BY <1>1, <1>4, <2>1, SetAllValue DEF InMemory
    <2>3. InMemory'
      BY <1>1, <2>2 DEF InMemory
    <2>4. InFile'
      BY <1>1, <1>3, <2>2 DEF InFile
    <2> QED
      BY <1>1, <2>3, <2>4 DEF InNext, Writing
  <1> QED
    BY <1>2, <1>3, <1>4 DEF PropertyInv

\* An error of open, write or rename: the file stays as it is, and the property counts as
\* not written.
LEMMA FailsInv ==
  ASSUME PropertyInv, NEW when \in {"open", "write", "rename"}, Fails(when)
  PROVE  PropertyInv'
  <1>1. pc = when /\ Writing /\ UNCHANGED <<file, legacy, durable, name, next, synced, allowed, hurt>>
    BY DEF Fails, diskVars, Writing
  <1>2. CASE name = None
    <2>1. Loaded(next) /\ ~persistent_properties_loaded /\ next \in Props
      BY <1>1, <1>2 DEF Fails, PropertyInv, Serving, TypeOK
    <2>2. ASSUME ~hurt, NEW n \in Name
          PROVE  NextBoot(Stored)[n] =
                     IF next[n] # None THEN next[n]
                     ELSE IF Override[n] # None THEN Override[n] ELSE Default[n]
      BY <1>1, <1>2, <2>2, BootValue DEF PropertyInv, TypeOK, InNext, Stored
    <2> QED
      BY <1>1, <2>1, <2>2, LoadedInv
  <1>3. CASE name # None
    <2>1. /\ pc' = "idle" /\ unsaved' = unsaved \cup {name} /\ persistent_properties_loaded
          /\ UNCHANGED <<memory, persistent_properties_loaded>>
      BY <1>1, <1>3 DEF Fails, PropertyInv, Serving
    <2>2. TypeOK'
      BY <1>1, <1>3, <2>1 DEF PropertyInv, TypeOK
    <2>3. Serving' /\ Stored' \in durable' /\ Stored' = Stored /\ Kept'
      BY <1>1, <2>1 DEF Serving, Writing, Stored, PropertyInv, Kept
    <2>4. ASSUME ~hurt'
          PROVE  (pc = "rename" => synced)' /\ InMemory' /\ InNext' /\ InFile'
      <3>1. InMemory'
        BY <1>1, <2>1, <2>4 DEF PropertyInv, InMemory
      <3>2. InFile'
        BY <1>1, <2>1, <2>3, <2>4 DEF PropertyInv, InFile
      <3> QED
        BY <2>1, <3>1, <3>2 DEF InNext, Writing
    <2> QED
      BY <2>2, <2>3, <2>4 DEF PropertyInv
  <1> QED
    BY <1>2, <1>3

\* open, write and fsync: the contents and everything that is stored stay.
LEMMA WritingInv ==
  ASSUME PropertyInv, Writing, pc' \in {"write", "fsync", "rename"},
         UNCHANGED <<memory, persistent_properties_loaded, file, legacy, durable, name, next,
                     unsaved, allowed>>,
         synced' \in BOOLEAN, hurt' \in BOOLEAN, hurt => hurt',
         pc' = "rename" => synced' \/ hurt'
  PROVE  PropertyInv'
  <1>1. TypeOK'
    BY DEF PropertyInv, TypeOK
  <1>2. Serving' /\ Stored' \in durable' /\ Stored' = Stored /\ Kept'
    BY DEF Serving, Writing, Stored, PropertyInv, Kept
  <1>3. ASSUME ~hurt'
        PROVE  (pc = "rename" => synced)' /\ InMemory' /\ InNext' /\ InFile'
    <2>1. InMemory'
      BY <1>3 DEF PropertyInv, InMemory
    <2>2. InNext'
      BY <1>2, <1>3 DEF PropertyInv, InNext, Writing
    <2>3. InFile'
      BY <1>2, <1>3 DEF PropertyInv, InFile, Writing
    <2> QED
      BY <1>3, <2>1, <2>2, <2>3
  <1> QED
    BY <1>1, <1>2, <1>3 DEF PropertyInv

\* rename: the disk has either contents until the file system commits, and both give each
\* property a value that it may have.
LEMMA RenameInv ==
  ASSUME PropertyInv, Rename
  PROVE  PropertyInv'
  <1> DEFINE New == Disk(next, legacy)
  <1>1. /\ pc = "rename" /\ Writing /\ file' = next
        /\ UNCHANGED <<legacy, name, next, synced, memory, persistent_properties_loaded,
                       allowed, hurt>>
        /\ durable' = durable \cup {New} \cup (IF synced THEN {} ELSE {Disk(Torn, legacy)})
    BY DEF Rename, Writing, memoryVars
  <1>2. /\ name = None => pc' = "remove" /\ unsaved' = unsaved
        /\ name # None => pc' = "idle" /\ unsaved' = {n \in unsaved \ {name} : next[n] # memory[n]}
    BY DEF Rename
  <1>3. TypeOK'
    <2>1. durable' \subseteq Disks
      BY <1>1, DiskType, SMTT(30) DEF PropertyInv, TypeOK
    <2> QED
      BY <1>1, <1>2, <2>1 DEF PropertyInv, TypeOK
  <1>4. Serving' /\ Stored' = New /\ Stored' \in durable'
    BY <1>1, <1>2 DEF Serving, Writing, Stored, PropertyInv
  <1>5. ASSUME ~hurt
        PROVE  \A n \in Name : \/ NextBoot(New)[n] = NextBoot(Stored)[n]
                               \/ NextBoot(New)[n] = memory[n] /\ name # None
    <2>1. CASE name # None
      BY <1>1, <1>5, <2>1 DEF PropertyInv, InNext
    <2>2. CASE name = None
      BY <1>1, <1>5, <2>2, BootValue DEF PropertyInv, InNext, TypeOK, Stored
    <2> QED
      BY <2>1, <2>2
  <1>6. Kept'
    <2> SUFFICES ASSUME ~hurt, NEW d \in durable', NEW n \in Name
                 PROVE  NextBoot(d)[n] \in allowed[n]
      BY <1>1 DEF Kept
    <2>1. synced /\ InMemory /\ Stored \in durable /\ Kept
      BY <1>1 DEF PropertyInv
    <2>2. CASE d \in durable
      BY <2>1, <2>2 DEF Kept
    <2>3. CASE d = New
      <3>1. NextBoot(Stored)[n] \in allowed[n]
        BY <2>1 DEF Kept
      <3>2. name # None => memory[n] \in allowed[n]
        BY <1>1, <2>1 DEF PropertyInv, Serving, InMemory
      <3> QED
        BY <1>5, <2>3, <3>1, <3>2
    <2> QED
      BY <1>1, <2>1, <2>2, <2>3
  <1>7. ASSUME ~hurt'
        PROVE  (pc = "rename" => synced)' /\ InMemory' /\ InNext' /\ InFile'
    <2>1. ~hurt /\ InMemory /\ InNext /\ InFile
      BY <1>1, <1>7 DEF PropertyInv
    <2>2. name # None <=> persistent_properties_loaded
      BY <1>1 DEF PropertyInv, Serving
    <2>3. InMemory'
      BY <1>1, <1>2, <2>1, <2>2 DEF InMemory
    <2>4. InNext'
      BY <1>1, <1>2 DEF InNext, Writing
    <2>5. InFile'
      <3> SUFFICES ASSUME name # None, NEW n \in Name \ unsaved'
                   PROVE  memory[n] = NextBoot(New)[n]
        BY <1>1, <1>2, <1>4, <2>2 DEF InFile
      <3>1. CASE n \notin unsaved /\ n # name
        BY <1>1, <1>5, <2>1, <2>2, <3>1 DEF InFile
      <3>2. CASE n \in unsaved \/ n = name
        <4>1. next[n] = memory[n]
          BY <1>1, <1>2, <2>1, <3>2 DEF InNext
        <4>2. memory[n] = None => Override[n] = None /\ Default[n] = None
          BY <2>1, <2>2 DEF InMemory
        <4> QED
          BY <4>1, <4>2, BootValue DEF PropertyInv, TypeOK
      <3> QED
        BY <3>1, <3>2, SMTT(30)
    <2> QED
      BY <1>2, <2>3, <2>4, <2>5
  <1> QED
    BY <1>3, <1>4, <1>6, <1>7 DEF PropertyInv

\* A property that is set before the stored ones are loaded stays in memory only.
LEMMA EarlySetInv ==
  ASSUME PropertyInv, NEW n \in Name, NEW v \in Value, EarlySet(n, v)
  PROVE  PropertyInv'
  <1>1. /\ pc = "idle" /\ ~persistent_properties_loaded
        /\ memory' = [memory EXCEPT ![n] = v] /\ unsaved' = unsaved \cup {n}
        /\ allowed' = [allowed EXCEPT ![n] = @ \cup {v}]
        /\ UNCHANGED <<file, legacy, durable, pc, name, next, synced,
                       persistent_properties_loaded, hurt>>
    BY DEF EarlySet, MayBe, diskVars, writeVars
  <1>2. memory \in Props /\ allowed \in [Name -> SUBSET (Value \cup {None})] /\ v # None
    BY PropertyAssumption DEF PropertyInv, TypeOK
  <1>3. memory' \in Props
    BY <1>1, <1>2 DEF Props
  <1>4. TypeOK'
    BY <1>1, <1>2, <1>3 DEF PropertyInv, TypeOK
  <1>5. Serving' /\ Stored' \in durable' /\ Stored' = Stored
    BY <1>1 DEF Serving, Writing, Stored, PropertyInv
  <1>6. Kept'
    BY <1>1, <1>2 DEF PropertyInv, Kept
  <1>7. ASSUME ~hurt'
        PROVE  (pc = "rename" => synced)' /\ InMemory' /\ InNext' /\ InFile'
    <2>1. InMemory'
      BY <1>1, <1>2, <1>7 DEF PropertyInv, InMemory, Props
    <2> QED
      BY <1>1, <2>1 DEF InNext, InFile, Writing
  <1> QED
    BY <1>4, <1>5, <1>6, <1>7 DEF PropertyInv

\* A property is set: the contents to be written differ from the stored ones, or from
\* those in memory when the file cannot be read, in this property only.
LEMMA PropertySetInv ==
  ASSUME PropertyInv, NEW n \in Name, NEW v \in Value, NEW ok \in BOOLEAN,
         PropertySet(n, v, ok)
  PROVE  PropertyInv'
  <1>1. /\ pc = "idle" /\ persistent_properties_loaded /\ pc' = "open" /\ name' = n
        /\ memory' = [memory EXCEPT ![n] = v]
        /\ file' = AfterRead(ok) /\ legacy' = legacy /\ durable' = durable \cup {Stored'}
        /\ next' = [(IF Readable(ok) THEN file ELSE [memory EXCEPT ![n] = v]) EXCEPT ![n] = v]
        /\ allowed' = [allowed EXCEPT ![n] = @ \cup {v}]
        /\ UNCHANGED <<synced, persistent_properties_loaded, unsaved, hurt>>
    BY DEF PropertySet, MayBe, Directory, Recovered, Stored
  <1>2. /\ memory \in Props /\ allowed \in [Name -> SUBSET (Value \cup {None})]
        /\ v # None /\ n # None /\ file \in Props \cup {Torn, None} /\ legacy \in Props
    BY PropertyAssumption DEF PropertyInv, TypeOK
  <1>3. memory' \in Props /\ next' \in Props
    BY <1>1, <1>2 DEF Props, Readable
  <1>4. TypeOK'
    <2>1. file' \in Props \cup {Torn, None} /\ durable' \subseteq Disks
      BY <1>1, <1>2, AfterReadValue, DiskType, SMTT(30) DEF PropertyInv, TypeOK, Stored
    <2> QED
      BY <1>1, <1>2, <1>3, <2>1 DEF PropertyInv, TypeOK
  <1>5. Serving' /\ Stored' \in durable'
    BY <1>1, <1>2 DEF Serving, Writing
  <1>6. \A m \in Name : NextBoot(Stored')[m] = NextBoot(Stored)[m]
    BY <1>1, AfterReadValue DEF PropertyInv, Stored
  <1>7. Kept'
    BY <1>1, <1>2, <1>6 DEF PropertyInv, Kept
  <1>8. ASSUME ~hurt'
        PROVE  (pc = "rename" => synced)' /\ InMemory' /\ InNext' /\ InFile'
    <2>1. ~hurt /\ InMemory /\ InFile
      BY <1>1, <1>8 DEF PropertyInv
    <2>2. InMemory'
      BY <1>1, <1>2, <2>1, SMTT(30) DEF InMemory, Props
    <2>3. ASSUME NEW m \in Name
          PROVE  \/ NextBoot(Disk(next', legacy))[m] = NextBoot(Stored)[m]
                 \/ NextBoot(Disk(next', legacy))[m] = memory'[m]
      <3>1. next'[m] = IF m = n THEN v ELSE IF Readable(ok) THEN file[m] ELSE memory[m]
        BY <1>1, <1>2 DEF Props, Readable
      <3>2. memory'[m] = IF m = n THEN v ELSE memory[m]
        BY <1>1, <1>2 DEF Props
      <3>3. memory[m] = None => Override[m] = None /\ Default[m] = None
        BY <1>1, <2>1 DEF InMemory
      <3>4. CASE m # n /\ Readable(ok)
        BY <1>2, <1>3, <3>1, <3>4, BootValue DEF Readable, Stored
      <3>5. CASE m = n \/ ~Readable(ok)
        BY <1>2, <1>3, <3>1, <3>2, <3>3, <3>5, BootValue
      <3> QED
        BY <3>4, <3>5, SMTT(30)
    <2>4. next'[n] = v /\ memory'[n] = v
      BY <1>1, <1>2 DEF Props, Readable
    <2>5. InNext'
      BY <1>1, <1>2, <1>6, <2>3, <2>4, Zenon DEF InNext, Writing
    <2>6. InFile'
      BY <1>1, <1>2, <1>6, <2>1 DEF InFile, Props
    <2> QED
      BY <1>1, <2>2, <2>5, <2>6
  <1> QED
    BY <1>4, <1>5, <1>7, <1>8, SMTT(30) DEF PropertyInv

\* The file is read and parsed at boot.
LEMMA LoadInv ==
  ASSUME PropertyInv, Load
  PROVE  PropertyInv'
  <1>1. /\ ~persistent_properties_loaded /\ file \in Props /\ Loaded(file)
        /\ UNCHANGED <<file, legacy, durable, name, next, synced, allowed, hurt>>
    BY DEF Load, Readable, diskVars
  <1>2. ASSUME NEW n \in Name
        PROVE  NextBoot(Stored)[n] =
                   IF file[n] # None THEN file[n]
                   ELSE IF Override[n] # None THEN Override[n] ELSE Default[n]
    BY <1>1, BootValue DEF PropertyInv, TypeOK, Stored
  <1> QED
    BY <1>1, <1>2, LoadedInv

\* There is no file that can be read: the legacy ones are, to be written to it.
LEMMA LoadLegacyInv ==
  ASSUME PropertyInv, NEW ok \in BOOLEAN, LoadLegacy(ok)
  PROVE  PropertyInv'
  <1>1. /\ pc = "idle" /\ ~persistent_properties_loaded /\ ~Readable(ok)
        /\ file' = AfterRead(ok) /\ legacy' = legacy /\ durable' = durable \cup {Stored'}
        /\ next' = legacy /\ name' = None /\ pc' = "open"
        /\ hurt' = (hurt \/ (~ok /\ file # None))
        /\ UNCHANGED <<synced, memory, persistent_properties_loaded, unsaved, allowed>>
    BY DEF LoadLegacy, Directory, Stored, memoryVars
  <1>2. file' \in Props \cup {Torn, None}
    BY <1>1, AfterReadValue DEF PropertyInv
  <1>3. TypeOK'
    <2>1. durable' \subseteq Disks
      BY <1>1, <1>2, DiskType, SMTT(30) DEF PropertyInv, TypeOK, Stored
    <2> QED
      BY <1>1, <1>2, <2>1 DEF PropertyInv, TypeOK
  <1>4. Serving' /\ Stored' \in durable'
    BY <1>1 DEF Serving, Writing
  <1>5. \A m \in Name : NextBoot(Stored')[m] = NextBoot(Stored)[m]
    BY <1>1, AfterReadValue DEF PropertyInv, Stored
  <1>6. Kept'
    BY <1>1, <1>5, Zenon DEF PropertyInv, Kept
  <1>7. ASSUME ~hurt'
        PROVE  (pc = "rename" => synced)' /\ InMemory' /\ InNext' /\ InFile'
    <2>1. InMemory'
      BY <1>1, <1>7, Zenon DEF PropertyInv, InMemory
    <2>2. file' \notin Props
      BY <1>1, <1>7, NoContents, AfterReadValue, Zenon DEF Readable, PropertyInv
    <2> QED
      BY <1>1, <2>1, <2>2 DEF InNext, InFile, Writing
  <1> QED
    BY <1>3, <1>4, <1>6, <1>7 DEF PropertyInv

\* Nothing can be read at boot.
LEMMA LoadNothingInv ==
  ASSUME PropertyInv, NEW ok \in BOOLEAN, LoadNothing(ok)
  PROVE  PropertyInv'
  <1>1. /\ file' = AfterRead(ok) /\ legacy' = legacy /\ durable' = durable \cup {Stored'}
        /\ hurt' = TRUE /\ pc' = "idle" /\ persistent_properties_loaded' = TRUE
        /\ memory' = SetAll(Nothing) /\ unsaved' \subseteq unsaved
        /\ UNCHANGED <<name, next, synced, allowed>>
    BY DEF LoadNothing, Directory, Stored, Loaded
  <1>2. file' \in Props \cup {Torn, None} /\ memory' \in Props
    BY <1>1, AfterReadValue, SetAllValue, NoContents DEF PropertyInv, TypeOK
  <1>3. TypeOK'
    <2>1. durable \subseteq Disks /\ legacy' \in Props
      BY <1>1 DEF PropertyInv, TypeOK
    <2>2. Stored' \in Disks
      BY <1>2, <2>1, DiskType, Zenon DEF Stored
    <2>3. durable' \subseteq Disks
      BY <1>1, <2>1, <2>2, Zenon
    <2> QED
      BY <1>1, <1>2, <2>3 DEF PropertyInv, TypeOK
  <1> QED
    BY <1>1, <1>3 DEF PropertyInv, Serving, Writing, Kept

\* The legacy files go one by one, after the file that has their contents is there.
LEMMA RemoveLegacyInv ==
  ASSUME PropertyInv, NEW n \in Name, RemoveLegacy(n)
  PROVE  PropertyInv'
  <1>1. /\ pc = "remove" /\ legacy' = [legacy EXCEPT ![n] = None]
        /\ durable' = durable \cup {Stored'}
        /\ UNCHANGED <<file, pc, name, next, synced, memory, persistent_properties_loaded,
                       unsaved, allowed, hurt>>
    BY DEF RemoveLegacy, Directory, Stored, writeVars, memoryVars
  <1>2. /\ legacy \in Props /\ file \in Props \cup {Torn, None} /\ next \in Props
        /\ durable \subseteq Disks /\ ~persistent_properties_loaded
    BY <1>1, SMTT(30) DEF PropertyInv, TypeOK, Serving
  <1>3. legacy' \in Props
    BY <1>1, <1>2 DEF Props
  <1>4. TypeOK'
    <2>1. durable' \subseteq Disks
      BY <1>1, <1>2, <1>3, DiskType, SMTT(30) DEF Stored
    <2> QED
      BY <1>1, <1>3, <2>1 DEF PropertyInv, TypeOK
  <1>5. Serving' /\ Stored' \in durable'
    BY <1>1 DEF Serving, Writing, PropertyInv
  <1>6. ~hurt => \A m \in Name : NextBoot(Stored')[m] = NextBoot(Stored)[m]
    <2> SUFFICES ASSUME ~hurt, NEW m \in Name
                 PROVE  NextBoot(Stored')[m] = NextBoot(Stored)[m]
      BY SMTT(30)
    <2>1. file \in Props
      BY <1>1, <1>2 DEF PropertyInv, InNext
    <2> QED
      BY <1>1, <1>2, <1>3, <2>1, BootValue DEF Stored
  <1>7. Kept'
    BY <1>1, <1>6, SMTT(30) DEF PropertyInv, Kept
  <1>8. ASSUME ~hurt'
        PROVE  (pc = "rename" => synced)' /\ InMemory' /\ InNext' /\ InFile'
    <2>1. InMemory'
      BY <1>1, <1>8 DEF PropertyInv, InMemory
    <2> QED
      BY <1>1, <1>2, <1>8, <2>1, SMTT(30) DEF PropertyInv, InNext, InFile, Writing
  <1> QED
    BY <1>4, <1>5, <1>7, <1>8 DEF PropertyInv

\* The legacy files are taken over.
LEMMA LoadDoneInv ==
  ASSUME PropertyInv, LoadDone
  PROVE  PropertyInv'
  <1>1. /\ pc = "remove" /\ ~persistent_properties_loaded /\ next \in Props /\ Loaded(next)
        /\ UNCHANGED <<file, legacy, durable, name, next, synced, allowed, hurt>>
    BY SMTT(30) DEF LoadDone, diskVars, PropertyInv, Serving, TypeOK
  <1>2. ASSUME ~hurt, NEW n \in Name
        PROVE  NextBoot(Stored)[n] =
                   IF next[n] # None THEN next[n]
                   ELSE IF Override[n] # None THEN Override[n] ELSE Default[n]
    BY <1>1, <1>2, BootValue DEF PropertyInv, TypeOK, InNext, Stored
  <1> QED
    BY <1>1, <1>2, LoadedInv

\* The file system commits: what was set before and is not stored is lost for good.
LEMMA CommitInv ==
  ASSUME PropertyInv, Commit
  PROVE  PropertyInv'
  <1>1. /\ durable' = {Stored}
        /\ allowed' = [n \in Name |-> {NextBoot(Stored)[n], memory[n]}]
        /\ UNCHANGED <<file, legacy, pc, name, next, synced, memory,
                       persistent_properties_loaded, unsaved, hurt>>
    BY DEF Commit, Stored, writeVars, memoryVars
  <1>2. Stored' = Stored /\ Stored \in Disks
    BY <1>1 DEF Stored, PropertyInv, TypeOK
  <1>3. TypeOK'
    <2>1. allowed' \in [Name -> SUBSET (Value \cup {None})]
      BY <1>1, BootType, ZenonT(30) DEF PropertyInv, TypeOK, Stored, Props
    <2> QED
      BY <1>1, <1>2, <2>1 DEF PropertyInv, TypeOK
  <1>4. Serving' /\ Stored' \in durable' /\ Kept'
    BY <1>1, <1>2 DEF Serving, Writing, PropertyInv, Kept
  <1>5. ASSUME ~hurt'
        PROVE  (pc = "rename" => synced)' /\ InMemory' /\ InNext' /\ InFile'
    <2>1. InMemory'
      BY <1>1, <1>5 DEF PropertyInv, InMemory
    <2>2. InNext' /\ InFile'
      BY <1>1, <1>2, <1>5 DEF PropertyInv, InNext, InFile, Writing
    <2> QED
      BY <1>1, <1>5, <2>1, <2>2 DEF PropertyInv
  <1> QED
    BY <1>3, <1>4, <1>5 DEF PropertyInv

\* Power fails: the boot finds one of the disks that were possible.
LEMMA PowerFailsInv ==
  ASSUME PropertyInv, NEW d \in durable, PowerFails(d)
  PROVE  PropertyInv'
  <1>1. /\ file' = d.file /\ legacy' = d.legacy /\ durable' = {d}
        /\ memory' = Default /\ persistent_properties_loaded' = FALSE
        /\ pc' = "idle" /\ name' = None /\ next' = Nothing /\ synced' = FALSE
        /\ unsaved' = {} /\ hurt' = FALSE
        /\ allowed' = [n \in Name |-> {NextBoot(d)[n]}]
    BY DEF PowerFails
  <1>2. d \in Disks /\ d.file \in Props \cup {Torn, None} /\ d.legacy \in Props
    BY DEF PropertyInv, TypeOK, Disks
  <1>3. d = Disk(d.file, d.legacy)
    BY <1>2, DiskType
  <1>4. TypeOK'
    <2>1. allowed' \in [Name -> SUBSET (Value \cup {None})]
      BY <1>1, <1>2, <1>3, BootType
    <2> QED
      BY <1>1, <1>2, <2>1, NoContents, PropertyAssumption, Zenon DEF TypeOK
  <1>5. Serving' /\ Stored' \in durable' /\ Kept'
    BY <1>1, <1>3 DEF Serving, Writing, Stored, Kept
  <1>6. (pc = "rename" => synced)' /\ InMemory' /\ InNext' /\ InFile'
    BY <1>1, SMTT(30) DEF InMemory, InNext, InFile, Writing
  <1> QED
    BY <1>4, <1>5, <1>6 DEF PropertyInv

\* The children have no part in this.
LEMMA ChildInv ==
  ASSUME PropertyInv,
         UNCHANGED <<file, legacy, durable, pc, name, next, synced, memory,
                     persistent_properties_loaded, unsaved, allowed, hurt>>
  PROVE  PropertyInv'
  BY DEF PropertyInv, TypeOK, Serving, Stored, Kept, InMemory, InNext, InFile, Writing

\* Every step keeps the inductive invariant.
LEMMA StepInv ==
  ASSUME PropertyInv, [Next]_vars
  PROVE  PropertyInv'
  <1>1. ASSUME NEW n \in Name, NEW v \in Value, EarlySet(n, v) PROVE PropertyInv'
    BY <1>1, EarlySetInv
  <1>2. ASSUME NEW n \in Name, NEW v \in Value, NEW ok \in BOOLEAN, PropertySet(n, v, ok)
        PROVE  PropertyInv'
    BY <1>2, PropertySetInv
  <1>3. CASE Load
    BY <1>3, LoadInv
  <1>4. ASSUME NEW ok \in BOOLEAN, LoadLegacy(ok) PROVE PropertyInv'
    BY <1>4, LoadLegacyInv
  <1>5. ASSUME NEW ok \in BOOLEAN, LoadNothing(ok) PROVE PropertyInv'
    BY <1>5, LoadNothingInv
  <1>6. CASE OpenFails \/ WriteFails \/ RenameFails
    BY <1>6, FailsInv, SMTT(30) DEF OpenFails, WriteFails, RenameFails
  <1>7. CASE Open
    BY <1>7, WritingInv, Zenon DEF Open, diskVars, memoryVars, Writing, PropertyInv, TypeOK
  <1>8. CASE Write
    BY <1>8, WritingInv DEF Write, diskVars, memoryVars, Writing, PropertyInv, TypeOK
  <1>9. ASSUME NEW ok \in BOOLEAN, Fsync(ok) PROVE PropertyInv'
    BY <1>9, WritingInv, Zenon DEF Fsync, diskVars, memoryVars, Writing, PropertyInv, TypeOK
  <1>10. CASE Rename
    BY <1>10, RenameInv
  <1>11. ASSUME NEW n \in Name, RemoveLegacy(n) PROVE PropertyInv'
    BY <1>11, RemoveLegacyInv
  <1>12. CASE LoadDone
    BY <1>12, LoadDoneInv
  <1>13. CASE PropertySetAsync
    BY <1>13, ChildInv DEF PropertySetAsync, diskVars, writeVars
  <1>14. CASE ChildExit \/ PropertyChildReap
    BY <1>14, ChildInv DEF ChildExit, PropertyChildReap, diskVars, writeVars, memoryVars
  <1>15. CASE Commit
    BY <1>15, CommitInv
  <1>16. ASSUME NEW d \in durable, PowerFails(d) PROVE PropertyInv'
    BY <1>16, PowerFailsInv
  <1>17. CASE UNCHANGED vars
    BY <1>17, ChildInv DEF vars, diskVars, writeVars, memoryVars
  <1> QED
    BY <1>1, <1>2, <1>3, <1>4, <1>5, <1>6, <1>7, <1>8, <1>9, <1>10, <1>11, <1>12, <1>13,
       <1>14, <1>15, <1>16, <1>17 DEF Next, Step

\* The inductive invariant holds in every reachable state.
THEOREM PropertyInvariant == Spec => []PropertyInv
  <1>1. Init => PropertyInv
    BY InitInv
  <1>2. PropertyInv /\ [Next]_vars => PropertyInv'
    BY StepInv
  <1> QED
    BY <1>1, <1>2, PTL DEF Spec

\* A power failure at any moment, also between the steps of WritePersistentPropertyFile or
\* while legacy files are taken over, leaves each property with its last committed value or
\* one that it was set to since.
THEOREM PropertiesAreKept == Spec => []Kept
  <1>1. PropertyInv => Kept
    BY DEF PropertyInv
  <1> QED
    BY <1>1, PropertyInvariant, PTL

\* Between two requests the next boot would bring back just what is in memory.
THEOREM MemoryStaysStored == Spec => []MemoryIsStored
  <1>1. PropertyInv => MemoryIsStored
    BY DEF PropertyInv, InFile, MemoryIsStored, Stored
  <1> QED
    BY <1>1, PropertyInvariant, PTL

=============================================================================
