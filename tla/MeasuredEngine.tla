-------------------------- MODULE MeasuredEngine --------------------------
(***************************************************************************)
(* The measured parser library of the snapshot lane.  A library file is    *)
(* copied into a sealed memory file, inspected, hashed, loaded under the   *)
(* name /proc/self/fd/N and checked again, while the file on disk changes, *)
(* other descriptors come and go, and other engines are built and closed.  *)
(* The profiles whose artifact set lists the measured digest become local. *)
(*                                                                         *)
(* A file is two blocks, copied one after the other, so a copy can be      *)
(* torn; Gone is a block that was truncated away.  A digest stands for the *)
(* contents it is the digest of.  The loader is external: it finds an      *)
(* object by its name first, then by its file.                             *)
(***************************************************************************)
EXTENDS Integers, Sequences, FiniteSets, TLC

CONSTANTS
    Engines,    \* the engines that are built, one each
    Blocks,     \* the block contents there are
    Gone,       \* a block that is not there
    Elf,        \* Elf[image]: what the ELF file says, for the images that are one
    Fds,        \* descriptor numbers
    ProfileFiles, \* the profile files an engine may be given: [canonical, version, profiles]
    RecordDigest, SetDigest,    \* the commitments, as functions
    MaxWrites,  \* bound: changes of the file on disk
    MaxFaults   \* bound: failures of a close

(* The engines of a process are finitely many; 0 stands for no descriptor  *)
(* and no memory file; a profile file holds what has a digest.             *)
ASSUME EnginesAssumption == IsFiniteSet(Engines)
ASSUME FdsAssumption == 0 \notin Fds
ASSUME ProfilesAssumption ==
    \A f \in ProfileFiles : \A i \in DOMAIN f.profiles :
        /\ f.profiles[i].record \in DOMAIN RecordDigest
        /\ f.profiles[i].artifacts \in DOMAIN SetDigest

VARIABLES
    disk,       \* inode -> image, of the library files there have been
    path,       \* the inode the library path names
    fds,        \* descriptor -> memory file, or 0
    mem,        \* memory file -> [image, sealed]
    loader,     \* memory file -> [name, refs, bound] of the loaded objects
    globals,    \* symbols defined in the process
    eng,        \* engine -> its state
    writes, faults

mvars == <<disk, path, fds, mem, loader, globals, eng, writes, faults>>

NoEngine == [pc |-> "new", source |-> 0, fd |-> 0, file |-> 0, digest |-> <<>>, handle |-> 0,
             client |-> 0, calls |-> 0, local |-> {}, profiles |-> <<>>]

---------------------------------------------------------------------------
(* Profiles. *)

Increasing(s) == \A i \in 1..(Len(s) - 1) : s[i] < s[i + 1]

(* Mutant: an entry's artifact set is not compared with its commitment. *)
CommitmentUnchecked(f) ==
    /\ f.canonical /\ f.version = 1 /\ f.profiles # <<>>
    /\ Increasing([i \in DOMAIN f.profiles |-> f.profiles[i].id])

(* Each entry is well-formed, sorted, and committed to: the id is the      *)
(* digest of the record, which holds the digest of the artifact set.       *)
decodeSnapshotProfiles(f) ==
    /\ f.canonical /\ f.version = 1 /\ f.profiles # <<>>
    /\ Increasing([i \in DOMAIN f.profiles |-> f.profiles[i].id])
    /\ \A i \in DOMAIN f.profiles :
          LET p == f.profiles[i]
          IN  /\ p.record.wellFormed
              /\ p.artifacts # <<>> /\ Increasing([j \in DOMAIN p.artifacts |-> p.artifacts[j].rank])
              /\ SetDigest[p.artifacts] = p.record.native
              /\ RecordDigest[p.record] = p.id

(* The profiles this build is an artifact of. *)
LocalProfiles(f, digest) ==
    {f.profiles[i].id : i \in {k \in DOMAIN f.profiles :
        \E j \in DOMAIN f.profiles[k].artifacts :
            f.profiles[k].artifacts[j].here /\ f.profiles[k].artifacts[j].ffi = digest}}

---------------------------------------------------------------------------
(* The ELF policy. *)

(* The three weak symbols a compiler leaves for profilers. *)
Instrumentation == {"gmon"}

snapshotOptionalInstrumentation(s) == s.weak /\ s.library = "none" /\ s.name \in Instrumentation
snapshotRuntimeImport(s) == s.library = "runtime"

(* The loader's view of the file (program headers) and the reader's        *)
(* (section headers) are the same.                                         *)
snapshotELFLoaderMetadata(f) == f.viewsAgree

inspectSnapshotELF(f, defined) ==
    /\ f.platform
    /\ snapshotELFLoaderMetadata(f)
    /\ f.tags = {}                  \* search paths, filters, audit, SONAME, NODELETE
    /\ f.libraries \subseteq {"runtime"}
    /\ f.symbols \cap {"unique", "ifunc"} = {}
    /\ \A s \in f.undefined : IF snapshotOptionalInstrumentation(s) THEN s.name \notin defined
                                                                    ELSE snapshotRuntimeImport(s)

(* Mutant: what the file leaves undefined is not looked at again. *)
EntryPointsOnly(e) ==
    /\ eng[e].handle = eng[e].file
    /\ Elf[mem[eng[e].file].image].entries

(* Mutant: any object the loader hands out is taken for the file. *)
VerifyNothing(e) == Elf[mem[eng[e].file].image].entries

(* The functions found through the handle are mapped from the sealed file, *)
(* and what it leaves undefined is bound to the runtime (its address is in *)
(* the system library) or not at all.                                      *)
verifySnapshotSymbols(e) ==
    LET f == Elf[mem[eng[e].file].image]
    IN  /\ eng[e].handle = eng[e].file
        /\ snapshotELFLoaderMetadata(f)
        /\ f.entries
        /\ \A s \in f.undefined : IF snapshotOptionalInstrumentation(s)
                                  THEN s.name \notin globals \cup loader[eng[e].handle].bound
                                  ELSE snapshotRuntimeImport(s) /\ s.name \notin loader[eng[e].handle].bound

---------------------------------------------------------------------------
(* The loader (external). *)

(* The object a name leads to: a loaded object of that name, even if the   *)
(* descriptor has been reused since; else the descriptor's own file.       *)
Dlopened(fd) ==
    LET named == {m \in DOMAIN loader : loader[m].name = fd /\ loader[m].refs > 0}
    IN  IF named # {} THEN CHOOSE m \in named : TRUE ELSE fds[fd]

WithRef(m, fd) ==
    IF m \in DOMAIN loader /\ loader[m].refs > 0 THEN [loader EXCEPT ![m].refs = @ + 1]
    ELSE [k \in DOMAIN loader \cup {m} |->
             IF k # m THEN loader[k]
             ELSE [name |-> fd, refs |-> 1,
                   bound |-> {s.name : s \in Elf[mem[m].image].undefined} \cap globals]]

Released(l, m) == [l EXCEPT ![m].refs = @ - 1]

---------------------------------------------------------------------------
EngineInit ==
    /\ disk = (1 :> [i \in 1..2 |-> CHOOSE b \in Blocks : TRUE])
    /\ path = 1
    /\ fds = [n \in Fds |-> 0]
    /\ mem = <<>>
    /\ loader = <<>>
    /\ globals = {}
    /\ eng = [e \in Engines |-> NoEngine]
    /\ writes = 0 /\ faults = 0

(* Somebody overwrites or truncates the library file in place, or puts     *)
(* another file at its path.                                               *)
Overwrite ==
    /\ writes < MaxWrites
    /\ writes' = writes + 1
    /\ \E n \in DOMAIN disk, i \in 1..2, b \in Blocks \cup {Gone} : disk' = [disk EXCEPT ![n][i] = b]
    /\ UNCHANGED <<path, fds, mem, loader, globals, eng, faults>>

Replace ==
    /\ writes < MaxWrites
    /\ writes' = writes + 1
    /\ \E b \in Blocks : disk' = disk @@ (Cardinality(DOMAIN disk) + 1 :> <<b, b>>)
    /\ path' = Cardinality(DOMAIN disk) + 1
    /\ UNCHANGED <<fds, mem, loader, globals, eng, faults>>

(* Some other library of the process defines an instrumentation symbol. *)
DefineGlobal ==
    /\ globals = {}
    /\ globals' = Instrumentation
    /\ UNCHANGED <<disk, path, fds, mem, loader, eng, writes, faults>>

At(e, pc) == eng[e].pc = pc
Move(e, pc) == eng' = [eng EXCEPT ![e].pc = pc]

(* newMeasuredSnapshotRuntime reads and decodes the profiles before it     *)
(* builds the engine, which opens the library once.                        *)
OpenSource(e) ==
    /\ At(e, "new")
    /\ \E f \in ProfileFiles :
          eng' = [eng EXCEPT ![e] = IF decodeSnapshotProfiles(f)
                                    THEN [@ EXCEPT !.pc = "opened", !.source = path, !.profiles = f]
                                    ELSE [@ EXCEPT !.pc = "failed"]]
    /\ UNCHANGED <<disk, path, fds, mem, loader, globals, writes, faults>>

(* A step of the construction that fails gives back what it has so far. *)
Abandon(e) ==
    /\ eng' = [eng EXCEPT ![e] = [NoEngine EXCEPT !.pc = "failed"]]
    /\ fds' = [n \in Fds |-> IF n = eng[e].fd THEN 0 ELSE fds[n]]
    /\ UNCHANGED <<disk, path, mem, globals, writes, faults>>

MemfdCreate(e) ==
    /\ At(e, "opened")
    /\ \E n \in Fds :
          /\ fds[n] = 0
          /\ LET m == Len(mem) + 1
             IN  /\ fds' = [fds EXCEPT ![n] = m]
                 /\ mem' = Append(mem, [image |-> <<>>, sealed |-> FALSE])
                 /\ eng' = [eng EXCEPT ![e].pc = "copying", ![e].fd = n, ![e].file = m]
    /\ UNCHANGED <<disk, path, loader, globals, writes, faults>>

(* One block of the open file, whatever it holds now; a short file fails.  *)
CopyBlock(e) ==
    LET m == eng[e].file
        b == disk[eng[e].source][Len(mem[m].image) + 1]
    IN  /\ At(e, "copying")
        /\ IF b = Gone THEN Abandon(e) /\ UNCHANGED loader
           ELSE /\ mem' = [mem EXCEPT ![m].image = Append(@, b)]
                /\ Move(e, IF Len(mem[m].image) = 1 THEN "copied" ELSE "copying")
                /\ UNCHANGED <<disk, path, fds, loader, globals, writes, faults>>

(* Until it is sealed the memory file can still be written to through      *)
(* /proc by others.                                                        *)
Scribble ==
    /\ writes < MaxWrites
    /\ writes' = writes + 1
    /\ \E m \in DOMAIN mem, b \in Blocks :
          /\ ~mem[m].sealed /\ Len(mem[m].image) = 2
          /\ mem' = [mem EXCEPT ![m].image[1] = b]
    /\ UNCHANGED <<disk, path, fds, loader, globals, eng, faults>>

(* Sealed, then inspected: what is inspected cannot change any more. *)
sealSnapshotSource(e) ==
    LET m == eng[e].file
    IN  /\ At(e, "copied")
        /\ ~mem[m].sealed
        /\ mem' = [mem EXCEPT ![m].sealed = TRUE]
        /\ UNCHANGED <<disk, path, fds, loader, globals, eng, writes, faults>>

Inspect(e) ==
    LET image == mem[eng[e].file].image
    IN  /\ At(e, "copied")
        /\ mem[eng[e].file].sealed
        /\ IF image \in DOMAIN Elf /\ inspectSnapshotELF(Elf[image], globals)
           THEN Move(e, "sealed") /\ UNCHANGED <<disk, path, fds, mem, globals, writes, faults>>
           ELSE Abandon(e)
        /\ UNCHANGED loader

hashSnapshotFile(e) ==
    /\ At(e, "sealed")
    /\ eng' = [eng EXCEPT ![e].pc = "hashed", ![e].digest = mem[eng[e].file].image]
    /\ UNCHANGED <<disk, path, fds, mem, loader, globals, writes, faults>>

(* No descriptor, a full memory, a read error, a missing seal, a refused   *)
(* dlopen: any system call before the library is loaded can fail.          *)
FailEarly(e) ==
    /\ eng[e].pc \in {"opened", "copying", "copied", "sealed", "hashed"}
    /\ Abandon(e)
    /\ UNCHANGED loader

(* The descriptor's name is opened; the object may be another one. *)
Dlopen(e) ==
    LET m == Dlopened(eng[e].fd)
    IN  /\ At(e, "hashed")
        /\ loader' = WithRef(m, eng[e].fd)
        /\ eng' = [eng EXCEPT ![e].pc = "loaded", ![e].handle = m]
        /\ UNCHANGED <<disk, path, fds, mem, globals, writes, faults>>

(* Mutant: a failed load releases the client's reference twice. *)
DropTwice(e) == loader' = Released(Released(loader, eng[e].handle), eng[e].handle)

(* Mutant: a load that fails keeps its handle. *)
DropNothing(e) == UNCHANGED loader

(* What loadSnapshotSealed gives back when it fails. *)
DropHandles(e) ==
    LET l == Released(loader, eng[e].handle)
    IN  loader' = IF eng[e].client = 0 THEN l ELSE Released(l, eng[e].client)

Verify(e) ==
    /\ At(e, "loaded")
    /\ IF verifySnapshotSymbols(e)
       THEN Move(e, "verified") /\ UNCHANGED <<disk, path, fds, mem, loader, globals, writes, faults>>
       ELSE Abandon(e) /\ DropHandles(e)

(* The client opens the same name again, or fails to. *)
NewPolyglot(e) ==
    /\ At(e, "verified")
    /\ \/ LET m == Dlopened(eng[e].fd)
          IN  /\ loader' = WithRef(m, eng[e].fd)
              /\ eng' = [eng EXCEPT ![e].pc = "client", ![e].client = m]
              /\ UNCHANGED <<disk, path, fds, mem, globals, writes, faults>>
       \/ Abandon(e) /\ DropHandles(e)

VerifyAgain(e) ==
    /\ At(e, "client")
    /\ IF verifySnapshotSymbols(e)
       THEN /\ eng' = [eng EXCEPT ![e].pc = "running", ![e].local = LocalProfiles(eng[e].profiles, eng[e].digest)]
            /\ UNCHANGED <<disk, path, fds, mem, loader, globals, writes, faults>>
       ELSE Abandon(e) /\ DropHandles(e)

(* A call holds the client's read lock; a Close that waits for the write   *)
(* lock keeps new calls out.                                               *)
BeginCall(e) ==
    /\ At(e, "running")
    /\ eng[e].calls < 2
    /\ eng' = [eng EXCEPT ![e].calls = @ + 1]
    /\ UNCHANGED <<disk, path, fds, mem, loader, globals, writes, faults>>

EndCall(e) ==
    /\ eng[e].calls > 0
    /\ eng' = [eng EXCEPT ![e].calls = @ - 1]
    /\ UNCHANGED <<disk, path, fds, mem, loader, globals, writes, faults>>

(* Close runs once; later calls of it only return its error. *)
Close(e) ==
    /\ At(e, "running")
    /\ Move(e, "closing")
    /\ UNCHANGED <<disk, path, fds, mem, loader, globals, writes, faults>>

(* A release that may fail leaves the object loaded. *)
MayRelease(m) ==
    \/ loader' = Released(loader, m) /\ faults' = faults
    \/ faults < MaxFaults /\ faults' = faults + 1 /\ loader' = loader

(* Mutant: the client does not wait for the calls inside it. *)
CloseAtOnce(e) ==
    /\ At(e, "closing")
    /\ MayRelease(eng[e].client)
    /\ eng' = [eng EXCEPT ![e].pc = "quiet", ![e].client = 0]
    /\ UNCHANGED <<disk, path, fds, mem, globals, writes>>

(* Mutant: Close returns the client's error and releases nothing else. *)
CloseOrGiveUp(e) ==
    /\ At(e, "closing")
    /\ eng[e].calls = 0
    /\ MayRelease(eng[e].client)
    /\ eng' = [eng EXCEPT ![e].pc = IF faults' = faults THEN "quiet" ELSE "failed", ![e].client = 0]
    /\ UNCHANGED <<disk, path, fds, mem, globals, writes>>

CloseClient(e) ==
    /\ At(e, "closing")
    /\ eng[e].calls = 0
    /\ MayRelease(eng[e].client)
    /\ eng' = [eng EXCEPT ![e].pc = "quiet", ![e].client = 0]
    /\ UNCHANGED <<disk, path, fds, mem, globals, writes>>

(* Dlclose and the descriptor's Close happen whatever failed before. *)
Dlclose(e) ==
    /\ At(e, "quiet")
    /\ MayRelease(eng[e].handle)
    /\ eng' = [eng EXCEPT ![e].pc = "closed", ![e].handle = 0, ![e].fd = 0]
    /\ fds' = [fds EXCEPT ![eng[e].fd] = 0]
    /\ UNCHANGED <<disk, path, mem, globals, writes>>

Over == (\A e \in Engines : eng[e].pc \in {"closed", "failed"}) /\ UNCHANGED mvars

Construct(e) ==
    \/ OpenSource(e) \/ MemfdCreate(e) \/ CopyBlock(e) \/ sealSnapshotSource(e) \/ Inspect(e)
    \/ hashSnapshotFile(e) \/ FailEarly(e) \/ Dlopen(e) \/ Verify(e) \/ NewPolyglot(e) \/ VerifyAgain(e)

EngineNext ==
    \/ Overwrite \/ Replace \/ DefineGlobal \/ Scribble \/ Over
    \/ \E e \in Engines : Construct(e) \/ BeginCall(e) \/ EndCall(e) \/ Close(e) \/ CloseClient(e) \/ Dlclose(e)

(* Calls into the library return, and the goroutine of a Close goes on.    *)
Fairness == \A e \in Engines : WF_mvars(EndCall(e)) /\ WF_mvars(CloseClient(e)) /\ WF_mvars(Dlclose(e))

EngineSpec == EngineInit /\ [][EngineNext]_mvars /\ Fairness

---------------------------------------------------------------------------
(* Every engine is at a step of its life and the loader counts no          *)
(* reference below zero.                                                   *)
MeasuredTypeOK ==
    /\ \A e \in Engines : eng[e].pc \in {"new", "opened", "copying", "copied", "sealed", "hashed", "loaded",
                                         "verified", "client", "running", "closing", "quiet", "closed", "failed"}
    /\ \A m \in DOMAIN loader : loader[m].refs >= 0
    /\ \A n \in Fds : fds[n] \in 0..Len(mem)

Serving(e) == eng[e].pc \in {"running", "closing"}

(* The digest an engine reports is that of the image its calls run in,     *)
(* though the file on disk is replaced, overwritten while it is copied, or *)
(* a descriptor number still leads the loader to an older library.         *)
MeasuredIsRunning == \A e \in Engines : Serving(e) => mem[eng[e].client].image = eng[e].digest

(* Every profile an engine calls local is committed, by its id, to the     *)
(* image the engine runs.                                                  *)
ProfileCommitsToImage ==
    \A e \in Engines : Serving(e) => \A q \in eng[e].local :
        \E r \in DOMAIN RecordDigest, s \in DOMAIN SetDigest :
            /\ RecordDigest[r] = q /\ SetDigest[s] = r.native
            /\ \E j \in DOMAIN s : s[j].here /\ s[j].ffi = mem[eng[e].client].image

(* No instrumentation symbol of the running image is bound to something    *)
(* outside it, even one that appears while the image is being loaded.      *)
NothingInterposed == \A e \in Engines : Serving(e) => loader[eng[e].client].bound = {}

(* A call inside the library finds it loaded and its descriptor open.      *)
LoadedWhileCalled ==
    \A e \in Engines : eng[e].calls > 0 =>
        /\ eng[e].client # 0 /\ loader[eng[e].client].refs > 0
        /\ fds[eng[e].fd] = eng[e].file

(* Descriptors and references are given back on every way out: what is     *)
(* held is what the engines in construction or in service hold, plus what  *)
(* a failed close left behind.                                             *)
NothingLeaks ==
    /\ {n \in Fds : fds[n] # 0} = {eng[e].fd : e \in Engines} \ {0}
    /\ \A m \in DOMAIN loader :
          LET held == Cardinality({e \in Engines : eng[e].handle = m}) + Cardinality({e \in Engines : eng[e].client = m})
          IN  loader[m].refs \in held..(held + faults)

(* A Close ends: it waits for the calls inside, and no new ones enter.     *)
CloseEnds == \A e \in Engines : eng[e].pc = "closing" ~> eng[e].pc = "closed"

(* An engine in service runs the image it measured, as its profiles commit *)
(* to it, with nothing bound into it from outside.                         *)
ServesWhatItMeasured == MeasuredIsRunning /\ ProfileCommitsToImage /\ NothingInterposed

(* The library is held exactly while it is needed: by every call inside    *)
(* it, and by nothing once its engines are gone.                           *)
HeldWhileNeeded == MeasuredTypeOK /\ LoadedWhileCalled /\ NothingLeaks
============================================================================
