-------------------------------- MODULE Loader --------------------------------
(***************************************************************************)
(* Code that comes into memory: programs at the address they are linked    *)
(* for, all in one address space, the dynamic libraries they import from,  *)
(* kernel modules and the drivers they register (kernel/exec.c, dynlib.c,  *)
(* module.c, drivers/driver.c).                                            *)
(*                                                                         *)
(* A build is a program as it was linked. A file can be replaced by another*)
(* build while the old one runs. A call runs with interrupts off and is    *)
(* one step; workers end with their program and have no slot here.         *)
(***************************************************************************)
EXTENDS Integers, Sequences, FiniteSets

CONSTANTS
    Builds,         \* a sequence of [name, lo, hi, image, entry, needs, imports]: the pages lo to hi - 1,
                    \* of which image are in the file
    Libs,           \* [name, syms, undef]: what a library exports and imports
    Kmods,          \* [name, strict]: a strict one fails if its driver does
    Search,         \* the directories of PATH, in order
    Commands,
    Files,          \* where programs can be: <<directory, command, suffix>>
    InitrdBuilds,   \* places in Builds
    DYNLIB_MAX, MODULE_MAX, DRIVER_MAX, PROCS

NoBuild == 0
NoKmod  == "none"
BuildIds == DOMAIN Builds

\* Two builds that share pages are of one program, whose entry is where both have pages.
LinkedApart ==
    \A i, j \in BuildIds : LET a == Builds[i] b == Builds[j] IN
        /\ a.lo <= a.entry /\ a.entry < a.hi /\ a.image \in 1 .. a.hi - a.lo
        /\ (a.lo < b.hi /\ b.lo < a.hi) => b.lo <= a.entry /\ a.entry < b.hi

LoaderAssumption ==
    /\ LinkedApart
    /\ NoBuild \notin BuildIds /\ InitrdBuilds \subseteq BuildIds
    /\ \A b \in BuildIds : {Builds[b].lo, Builds[b].hi, Builds[b].entry, Len(Builds[b].needs)} \subseteq Nat
    /\ Len(Search) \in Nat /\ DOMAIN Search = 1 .. Len(Search)
    /\ \A f \in Files : f[3] = ".exec" => \E b \in BuildIds : Builds[b].name = f[2]
    /\ \A k \in Kmods : k.name # NoKmod
    /\ {DYNLIB_MAX, MODULE_MAX, DRIVER_MAX, PROCS} \subseteq Nat
ASSUME LoaderAssumption

VARIABLES
    files,      \* the programs on the disk: [<<directory, command, suffix>> -> a build or NoBuild]
    memory,     \* what each page was last loaded with
    bound,      \* the import slots of a build: the place in libs of what each leads to, or 0
    procs,      \* the process table: [state, build, boot]
    libs,       \* g_dynlib
    images,     \* modules in the heap, by image
    mods,       \* g_mods
    drivers     \* g_slots

loaderVars == <<files, memory, bound, procs, libs, images, mods, drivers>>

NoDriver == [name |-> "none", state |-> "unused", image |-> 0]
Vacant   == [state |-> "unused", build |-> NoBuild, boot |-> FALSE]

ProcSlots == 1 .. PROCS
PagesOf(b) == Builds[b].lo .. Builds[b].hi - 1
Pages     == UNION {PagesOf(b) : b \in BuildIds}
Images    == 1 .. MODULE_MAX + 1
Suffixes  == <<"", ".exec">>

-----------------------------------------------------------------------------
(* Programs.                                                               *)

Lives(s) == procs[s].state = "live"

\* A mutant: a program is found by its own entry only.
OverlapsSame(b) == {s \in ProcSlots : Lives(s) /\ Builds[procs[s].build].entry = Builds[b].entry}

\* exec_kill_load_overlap and process_kill: the caller's own program ends with the call.
Overlaps(b) == {s \in ProcSlots : Lives(s) /\ Builds[procs[s].build].entry \in PagesOf(b)}

\* A child of the kernel leaves the table, another one waits for its parent.
AfterEnd(p) == IF p.boot THEN Vacant ELSE [p EXCEPT !.state = "zombie"]
EndAll(S) == [s \in ProcSlots |-> IF s \in S THEN AfterEnd(procs[s]) ELSE procs[s]]

\* exec_resolve: the directories in order, the name as it is and with its suffix.
Tries(cmd) ==
    {t \in (DOMAIN Search) \X (1 .. 2) : LET f == <<Search[t[1]], cmd, Suffixes[t[2]]>> IN f \in Files /\ files[f] # NoBuild}
Before(t, u) == t[1] < u[1] \/ (t[1] = u[1] /\ t[2] <= u[2])
Resolve(cmd) ==
    LET t == CHOOSE t \in Tries(cmd) : \A u \in Tries(cmd) : Before(t, u)
    IN  <<Search[t[1]], cmd, Suffixes[t[2]]>>

\* The initrd is asked first, for the last part of the path.
InInitrd(f) == {b \in InitrdBuilds : Builds[b].name = f[2] /\ f[3] = ".exec"}
BuildAt(f) == IF InInitrd(f) # {} THEN CHOOSE b \in InInitrd(f) : TRUE ELSE files[f]

\* The image read up to a page, the whole of it if there are none left, and then the bss.
LoadedTo(b, n) == [p \in Pages |-> IF p \in PagesOf(b) /\ p < Builds[b].lo + n THEN b ELSE memory[p]]
Loaded(b) == LoadedTo(b, Builds[b].hi)

-----------------------------------------------------------------------------
(* Libraries.                                                              *)

Exporters(ls, sym) == {i \in DOMAIN ls : sym \in ls[i].syms}
FirstOf(S) == IF S = {} THEN 0 ELSE CHOOSE i \in S : \A j \in S : i <= j
DynlibLookup(ls, sym) == FirstOf(Exporters(ls, sym))

Found(ls, n) == {i \in DOMAIN ls : ls[i].name = n}
LibFile(n) == {l \in Libs : l.name = n}

\* dynlib_ensure: the libraries after it, with a mark if it failed. Their counts of uses are left
\* out, no library is ever unloaded.
Ensure(ls, n) ==
    IF Found(ls, n) # {} THEN [ok |-> TRUE, libs |-> ls]
    ELSE LET able == {l \in LibFile(n) : Len(ls) < DYNLIB_MAX /\ \A sym \in l.undef : DynlibLookup(ls, sym) # 0}
         IN  [ok |-> able # {},
              libs |-> IF able = {} THEN ls
                       ELSE Append(ls, CHOOSE l \in able : TRUE)]

EnsureAll(needs) ==
    LET go[k \in 0 .. Len(needs)] ==
            IF k = 0 THEN [ok |-> TRUE, libs |-> libs]
            ELSE IF go[k - 1].ok THEN Ensure(go[k - 1].libs, needs[k]) ELSE go[k - 1]
    IN  go[Len(needs)]

\* dynlib_bind_exec over a freshly read table of imports; a symbol that is missing ends it.
Bound(b, e) == [sym \in Builds[b].imports |-> IF e.ok THEN DynlibLookup(e.libs, sym) ELSE 0]
Binds(b, e) == e.ok /\ \A sym \in Builds[b].imports : Bound(b, e)[sym] # 0

-----------------------------------------------------------------------------
LoaderInit ==
    /\ files = [f \in Files |-> IF f[3] = ".exec" THEN CHOOSE b \in BuildIds : Builds[b].name = f[2] ELSE NoBuild]
    /\ memory = [p \in Pages |-> NoBuild]
    /\ bound = [b \in BuildIds |-> [sym \in Builds[b].imports |-> 0]]
    /\ procs = [s \in ProcSlots |-> Vacant]
    /\ libs = <<>>
    /\ images = [i \in Images |-> NoKmod]
    /\ mods = <<>>
    /\ drivers = [d \in 1 .. DRIVER_MAX |-> NoDriver]

\* process_create_user: zombies make room if there is none.
FreeProcs(ps) == {s \in ProcSlots : ps[s] = Vacant}
Reaped(ps) == IF FreeProcs(ps) # {} THEN ps ELSE [s \in ProcSlots |-> IF ps[s].state = "zombie" THEN Vacant ELSE ps[s]]
Started(ps, b, boot) ==
    IF FreeProcs(Reaped(ps)) = {} THEN Reaped(ps)
    ELSE [Reaped(ps) EXCEPT ![FirstOf(FreeProcs(Reaped(ps)))] = [state |-> "live", build |-> b, boot |-> boot]]

\* exec_spawn_path_flags with the load overlap of the caller: those before it in the table are
\* killed, then the caller itself, and nothing is loaded.
SpawnSelf(c, cmd) ==
    /\ c # 0 /\ Lives(c) /\ Tries(cmd) # {}
    /\ c \in Overlaps(BuildAt(Resolve(cmd)))
    /\ procs' = EndAll({s \in Overlaps(BuildAt(Resolve(cmd))) : s <= c})
    /\ UNCHANGED <<files, memory, bound, libs, images, mods, drivers>>

\* c is the program that calls, 0 the kernel. The read can fail after n pages of the image.
Spawn(c, cmd, n) ==
    /\ c # 0 => Lives(c)
    /\ Tries(cmd) # {}
    /\ LET b == BuildAt(Resolve(cmd))
           ended == EndAll(Overlaps(b))
           e == EnsureAll(Builds[b].needs)
       IN  /\ c \notin Overlaps(b)
           /\ n <= Builds[b].image /\ (n < Builds[b].image => InInitrd(Resolve(cmd)) = {})
           /\ IF n < Builds[b].image
              THEN /\ memory' = LoadedTo(b, n)
                   /\ procs' = ended
                   /\ UNCHANGED <<bound, libs>>
              ELSE /\ memory' = Loaded(b)
                   /\ bound' = [bound EXCEPT ![b] = Bound(b, e)]
                   /\ libs' = e.libs
                   /\ procs' = IF Binds(b, e) THEN Started(ended, b, c = 0) ELSE ended
    /\ UNCHANGED <<files, images, mods, drivers>>

Exit(s) ==
    /\ Lives(s)
    /\ procs' = EndAll({s})
    /\ UNCHANGED <<files, memory, bound, libs, images, mods, drivers>>

WaitPid(s) ==
    /\ procs[s].state = "zombie"
    /\ procs' = [procs EXCEPT ![s] = Vacant]
    /\ UNCHANGED <<files, memory, bound, libs, images, mods, drivers>>

\* Another build of the command is written, or the file removed.
Install(f, b) ==
    /\ \E s \in ProcSlots : Lives(s)
    /\ b # NoBuild => Builds[b].name = f[2]
    /\ files' = [files EXCEPT ![f] = b]
    /\ UNCHANGED <<memory, bound, procs, libs, images, mods, drivers>>

-----------------------------------------------------------------------------
(* Modules and drivers.                                                    *)

FreeImage == CHOOSE i \in Images : images[i] = NoKmod /\ \A j \in 1 .. i - 1 : images[j] # NoKmod
FindSlot(n) == {d \in DOMAIN drivers : drivers[d].name = n}
AllocSlot == FirstOf({d \in DOMAIN drivers : drivers[d] = NoDriver})

\* driver_register and driver_load of kmod_init: the slot keeps the image's functions.
Registers(k) == FindSlot(k.name) = {} /\ AllocSlot # 0
Registered(k, works) ==
    IF ~Registers(k) THEN drivers
    ELSE [drivers EXCEPT ![AllocSlot] =
            [name |-> k.name, state |-> IF works THEN "loaded" ELSE "failed", image |-> FreeImage]]

\* modules_load_blob: works says whether the driver's probe and init do.
LoadModule(k, works) ==
    /\ Len(mods) < MODULE_MAX
    /\ drivers' = Registered(k, works)
    /\ IF Registers(k) /\ (works \/ ~k.strict)
       THEN /\ images' = [images EXCEPT ![FreeImage] = k.name]
            /\ mods' = Append(mods, [name |-> k.name, image |-> FreeImage])
       ELSE UNCHANGED <<images, mods>>
    /\ UNCHANGED <<files, memory, bound, procs, libs>>

-----------------------------------------------------------------------------
LoaderNext ==
    \/ \E c \in {0} \cup ProcSlots, cmd \in Commands :
          \/ SpawnSelf(c, cmd)
          \/ \E n \in 0 .. Cardinality(Pages) : Spawn(c, cmd, n)
    \/ \E s \in ProcSlots : Exit(s) \/ WaitPid(s)
    \/ \E f \in Files, b \in BuildIds \cup {NoBuild} : Install(f, b)
    \/ \E k \in Kmods, works \in BOOLEAN : LoadModule(k, works)

LoaderSpec == LoaderInit /\ [][LoaderNext]_loaderVars

-----------------------------------------------------------------------------
\* The pages of a program that runs hold the build it was started from, and no other program's
\* that runs, and its imports lead to a library that exports them.
ProgramsWhole ==
    \A s \in ProcSlots : Lives(s) =>
        LET b == procs[s].build
        IN  /\ \A p \in PagesOf(b) : memory[p] = b
            /\ \A t \in ProcSlots \ {s} : Lives(t) => PagesOf(procs[t].build) \cap PagesOf(b) = {}
            /\ \A sym \in Builds[b].imports : sym \in libs[bound[b][sym]].syms

\* The functions of a driver that is polled are in the image of its module, which no failed load
\* has given back; no image is left behind.
DriversInPlace ==
    /\ \A d \in DOMAIN drivers : drivers[d].state = "loaded" => images[drivers[d].image] = drivers[d].name
    /\ \A d, e \in DOMAIN drivers : d # e /\ drivers[d] # NoDriver => drivers[d].name # drivers[e].name
    /\ \A i \in Images : (images[i] # NoKmod) <=> \E m \in DOMAIN mods : mods[m].image = i

\* Code that runs is there: in the pages of every program, behind its imports and behind
\* the polled drivers, whatever was spawned, replaced or failed to load since
\* (exec.c:281-318, dynlib.c:531-574, module.c:129-360, driver.c:37-123).
CodeInPlace == ProgramsWhole /\ DriversInPlace

=============================================================================
