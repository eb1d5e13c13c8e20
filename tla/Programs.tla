------------------------------- MODULE Programs -------------------------------
(***************************************************************************)
(* Programs and the kernels made from them: clCreateProgramWithSource,      *)
(* clBuildProgram, clRetainProgram, clReleaseProgram, clCreateKernel and    *)
(* the release of kernels.  A kernel keeps the addresses of its wrapper     *)
(* functions in the JIT of its program, and nothing keeps that alive.       *)
(*                                                                         *)
(* A source is the sequence of its functions: kernels the vectorizer        *)
(* accepts, kernels it does not, and other functions (the prelude's too);   *)
(* one that is "broken" keeps clang from compiling the source.              *)
(* A JIT is named by the build that made it; 0 is none.                     *)
(***************************************************************************)
EXTENDS Integers, Sequences, FiniteSets, RefMap

CONSTANTS Progs,        \* addresses the allocator has for cl_program objects
          Kernels,      \* addresses the allocator has for cl_kernel objects
          Sources,      \* sources: sequences of [name, kind]
          Names,        \* names clCreateKernel is called with
          DeviceLists,  \* device lists: sequences of Cpu, Other and Null, or Null
          Cpu, Other, Null,
          NoProg,       \* no program
          MaxRefs,      \* bound: references to an object
          MaxBuilds,    \* bound: builds in a behaviour
          MaxFunctions  \* bound: functions of a module

ASSUME NoProgAssumption == NoProg \notin Progs
ASSUME SourcesAssumption ==
  \A s \in Sources :
    s \in Seq([name : STRING, kind : {"vectorizable", "scalar", "function", "broken"}])
ASSUME MaxRefsAssumption == MaxRefs \in Nat \ {0}

VARIABLES
  prog,      \* the _cl_program objects that exist: [source, JIT, M]
  ProgMap,   \* their reference counts
  ker,       \* the _cl_kernel objects that exist: [of, name, JIT]
  KernelMap, \* their reference counts
  jits,      \* the JITs that exist, with the symbols they define
  builds,    \* builds so far
  building,  \* the program clBuildProgram is working on, or NoProg
  Mod,       \* the functions of its module
  at,        \* place of the loop over them
  exited,    \* the process is gone
  ret,       \* the code the last call returned
  held,      \* history: references the host holds to each program
  usable     \* history: kernels whose program was neither built again nor given up

vars == <<prog, ProgMap, ker, KernelMap, jits, builds, building, Mod, at, exited, ret, held, usable>>

buildVars == <<builds, building, Mod, at>>

Without(f, S) == [x \in DOMAIN f \ S |-> f[x]]

KernelsOf(p) == {k \in DOMAIN ker : ker[k].of = p}

Running == building = NoProg /\ ~exited

Init ==
  /\ prog = [p \in {} |-> {}] /\ ProgMap = EmptyMap
  /\ ker = [k \in {} |-> {}] /\ KernelMap = EmptyMap
  /\ jits = [b \in {} |-> {}]
  /\ builds = 0 /\ building = NoProg /\ Mod = <<>> /\ at = 1
  /\ exited = FALSE /\ ret = "CL_SUCCESS"
  /\ held = [p \in Progs |-> 0] /\ usable = {}

-----------------------------------------------------------------------------
(* clCreateProgramWithSource: s may be NULL, empty or hold a NULL string.   *)
CreateError(Ctx, s) ==
  IF Ctx = Null THEN "CL_INVALID_CONTEXT"
  ELSE IF s = Null \/ s = <<>> \/ \E i \in DOMAIN s : s[i] = Null
  THEN "CL_INVALID_VALUE" ELSE "CL_SUCCESS"

CreateRefused(Ctx, s) ==
  /\ Running
  /\ CreateError(Ctx, s) # "CL_SUCCESS"
  /\ ret' = CreateError(Ctx, s)
  /\ UNCHANGED <<prog, ProgMap, ker, KernelMap, jits, buildVars, exited, held, usable>>

CreateProgram(s) ==
  /\ Running
  /\ \E p \in Progs \ DOMAIN prog :
       /\ prog' = [q \in DOMAIN prog \cup {p} |->
                     IF q = p THEN [source |-> s, JIT |-> 0, M |-> FALSE] ELSE prog[q]]
       /\ ProgMap' = Added(ProgMap, p)
       /\ held' = [held EXCEPT ![p] = 1]
  /\ ret' = "CL_SUCCESS"
  /\ UNCHANGED <<ker, KernelMap, jits, buildVars, exited, usable>>

RetainProgram(p) ==
  /\ Running
  /\ p \in DOMAIN ProgMap /\ ProgMap[p] < MaxRefs
  /\ ProgMap' = Retained(ProgMap, p)
  /\ held' = [held EXCEPT ![p] = @ + 1]
  /\ ret' = "CL_SUCCESS"
  /\ UNCHANGED <<prog, ker, KernelMap, jits, buildVars, exited, usable>>

(* The last reference deletes the program with its JIT.                     *)
ReleaseProgram(p) ==
  /\ Running
  /\ p \in DOMAIN ProgMap
  /\ ProgMap' = Released(ProgMap, p)
  /\ prog' = [q \in DOMAIN ProgMap' |-> prog[q]]
  /\ jits' = IF p \in DOMAIN ProgMap' THEN jits ELSE Without(jits, {prog[p].JIT})
  /\ held' = [held EXCEPT ![p] = @ - 1]
  /\ usable' = IF held[p] = 1 THEN usable \ KernelsOf(p) ELSE usable
  /\ ret' = "CL_SUCCESS"
  /\ UNCHANGED <<ker, KernelMap, buildVars, exited>>

(* A handle that is in no map.                                              *)
ProgramRefused(p) ==
  /\ Running
  /\ p \notin DOMAIN ProgMap
  /\ ret' = "CL_INVALID_PROGRAM"
  /\ UNCHANGED <<prog, ProgMap, ker, KernelMap, jits, buildVars, exited, held, usable>>

-----------------------------------------------------------------------------
(* clBuildProgram: NumDevices is n.                                         *)
BuildError(devices, n) ==
  IF (devices = Null) # (n = 0) THEN "CL_INVALID_VALUE"
  ELSE IF devices = Null \/ (Cpu \in {devices[i] : i \in 1..n} /\ Null \notin {devices[i] : i \in 1..n})
  THEN "CL_SUCCESS" ELSE "CL_INVALID_DEVICE"

BuildRefused(p, devices, n) ==
  /\ Running
  /\ held[p] > 0
  /\ BuildError(devices, n) # "CL_SUCCESS"
  /\ ret' = BuildError(devices, n)
  /\ UNCHANGED <<prog, ProgMap, ker, KernelMap, jits, buildVars, exited, held, usable>>

(* What parseIRFile gives for a source.                                     *)
Parsed(s) ==
  [i \in DOMAIN s |-> [name |-> <<s[i].name>>, kind |-> s[i].kind,
                       conv |-> IF s[i].kind = "function" THEN "C" ELSE "SPIR_KERNEL"]]

Compiles(s) == \A i \in DOMAIN s : s[i].kind # "broken"

(* clang fails: exitWithInternalError("parse error").                       *)
BuildDies(p, devices, n) ==
  /\ Running
  /\ held[p] > 0
  /\ BuildError(devices, n) = "CL_SUCCESS" /\ ~Compiles(prog[p].source)
  /\ exited' = TRUE
  /\ UNCHANGED <<prog, ProgMap, ker, KernelMap, jits, buildVars, ret, held, usable>>

(* clang, a new JIT in the place of the old one, and the parsed module.     *)
BuildProgram(p, devices, n) ==
  /\ Running
  /\ held[p] > 0 /\ builds < MaxBuilds
  /\ BuildError(devices, n) = "CL_SUCCESS" /\ Compiles(prog[p].source)
  /\ builds' = builds + 1
  /\ building' = p /\ at' = 1
  /\ Mod' = Parsed(prog[p].source)
  /\ jits' = [b \in (DOMAIN jits \ {prog[p].JIT}) \cup {builds'} |->
                IF b = builds' THEN {} ELSE jits[b]]
  /\ prog' = [prog EXCEPT ![p].JIT = builds']
  /\ usable' = usable \ KernelsOf(p)
  /\ UNCHANGED <<ProgMap, ker, KernelMap, exited, ret, held>>

(* vectorizeKernel adds a clone, and createWrapperFunction the wrappers for *)
(* one, two and three dimensions of a kernel and of its clone.              *)
\* Mutant: the clone is a kernel too.
CloneIsKernel(f) == [f EXCEPT !.name = <<"SVEK">> \o @]

Clone(f) == [name |-> <<"SVEK">> \o f.name, kind |-> "function", conv |-> "C"]

IsKernel(f) == f.conv = "SPIR_KERNEL"

VectorizeKernel(f) == IF IsKernel(f) /\ f.kind = "vectorizable" THEN <<Clone(f)>> ELSE <<>>

WorkDims == <<"1", "2", "3">>

Wrappers(name) ==
  [d \in DOMAIN WorkDims |-> [name |-> <<"WPFN">> \o name \o <<WorkDims[d]>>, kind |-> "function", conv |-> "C"]]

\* Mutant: the vectorizer's clone is not looked up.
CreateWrapperFunctionScalar(f, clones) ==
  IF ~IsKernel(f) THEN <<>> ELSE Wrappers(<<"SCAK">> \o f.name)

CreateWrapperFunction(f, clones) ==
  IF ~IsKernel(f) THEN <<>>
  ELSE Wrappers(<<"SCAK">> \o f.name) \o IF clones = <<>> THEN <<>> ELSE Wrappers(clones[1].name)

(* One turn of the loop over the functions, which it appends to.            *)
VisitFunction ==
  /\ building # NoProg /\ ~exited
  /\ at <= Len(Mod) /\ Len(Mod) < MaxFunctions
  /\ LET clones == VectorizeKernel(Mod[at])
     IN Mod' = Mod \o clones \o CreateWrapperFunction(Mod[at], clones)
  /\ at' = at + 1
  /\ UNCHANGED <<prog, ProgMap, ker, KernelMap, jits, builds, building, exited, ret, held, usable>>

(* addIRModule and the second parse.  When the program had been built       *)
(* before, its context is deleted before the module that uses it:           *)
(* undefined, the process may die.                                          *)
FinishBuild ==
  /\ building # NoProg /\ ~exited
  /\ at > Len(Mod)
  /\ jits' = [jits EXCEPT ![prog[building].JIT] = {Mod[i].name : i \in DOMAIN Mod}]
  /\ prog' = [prog EXCEPT ![building].M = TRUE]
  /\ exited' \in IF prog[building].M THEN BOOLEAN ELSE {FALSE}
  /\ building' = NoProg /\ Mod' = <<>> /\ at' = 1
  /\ ret' = "CL_SUCCESS"
  /\ UNCHANGED <<ProgMap, ker, KernelMap, builds, held, usable>>

-----------------------------------------------------------------------------
HasKernel(p, name) == \E i \in DOMAIN prog[p].source : prog[p].source[i].name = name

(* The symbols the constructor of _cl_kernel looks up.                      *)
Looked(name) == {Wrappers(<<"SVEK", name>>)[d].name : d \in DOMAIN WorkDims}

\* Mutant: the kernel keeps the JIT of the last build, whatever program it was of.
CreateKernelNewestJIT(p, name) ==
  /\ Running
  /\ held[p] > 0 /\ prog[p].M /\ HasKernel(p, name)
  /\ Looked(name) \subseteq jits[prog[p].JIT]
  /\ \E k \in Kernels \ DOMAIN ker :
       /\ ker' = [q \in DOMAIN ker \cup {k} |->
                    IF q = k THEN [of |-> p, name |-> name, JIT |-> builds] ELSE ker[q]]
       /\ KernelMap' = Added(KernelMap, k)
       /\ usable' = usable \cup {k}
  /\ ret' = "CL_SUCCESS"
  /\ UNCHANGED <<prog, ProgMap, jits, buildVars, exited, held>>

CreateKernel(p, name) ==
  /\ Running
  /\ held[p] > 0 /\ prog[p].M /\ HasKernel(p, name)
  /\ Looked(name) \subseteq jits[prog[p].JIT]
  /\ \E k \in Kernels \ DOMAIN ker :
       /\ ker' = [q \in DOMAIN ker \cup {k} |->
                    IF q = k THEN [of |-> p, name |-> name, JIT |-> prog[p].JIT] ELSE ker[q]]
       /\ KernelMap' = Added(KernelMap, k)
       /\ usable' = usable \cup {k}
  /\ ret' = "CL_SUCCESS"
  /\ UNCHANGED <<prog, ProgMap, jits, buildVars, exited, held>>

CreateKernelRefused(p, name) ==
  /\ Running
  /\ held[p] > 0
  /\ name = Null \/ (prog[p].M /\ ~HasKernel(p, name))
  /\ ret' = IF name = Null THEN "CL_INVALID_VALUE" ELSE "CL_INVALID_KERNEL_NAME"
  /\ UNCHANGED <<prog, ProgMap, ker, KernelMap, jits, buildVars, exited, held, usable>>

(* M is NULL before the first build, and ExitOnError ends the process when  *)
(* a symbol is missing.                                                     *)
CreateKernelDies(p, name) ==
  /\ Running
  /\ held[p] > 0 /\ name # Null
  /\ prog[p].M => HasKernel(p, name) /\ ~(Looked(name) \subseteq jits[prog[p].JIT])
  /\ exited' = TRUE
  /\ UNCHANGED <<prog, ProgMap, ker, KernelMap, jits, buildVars, ret, held, usable>>

RetainKernel(k) ==
  /\ Running
  /\ k \in DOMAIN KernelMap /\ KernelMap[k] < MaxRefs
  /\ KernelMap' = Retained(KernelMap, k)
  /\ ret' = "CL_SUCCESS"
  /\ UNCHANGED <<prog, ProgMap, ker, jits, buildVars, exited, held, usable>>

ReleaseKernel(k) ==
  /\ Running
  /\ k \in DOMAIN KernelMap
  /\ KernelMap' = Released(KernelMap, k)
  /\ ker' = [q \in DOMAIN KernelMap' |-> ker[q]]
  /\ usable' = usable \cap DOMAIN KernelMap'
  /\ ret' = "CL_SUCCESS"
  /\ UNCHANGED <<prog, ProgMap, jits, buildVars, exited, held>>

BuildStep == VisitFunction \/ FinishBuild

Next ==
  \/ \E s \in Sources : CreateProgram(s)
  \/ \E Ctx \in {"context", Null}, s \in Sources \cup {Null, <<>>, <<Null>>} : CreateRefused(Ctx, s)
  \/ \E p \in Progs :
       \/ RetainProgram(p) \/ ReleaseProgram(p) \/ ProgramRefused(p)
       \/ \E devices \in DeviceLists, n \in 0..2 :
            n <= (IF devices = Null THEN 2 ELSE Len(devices))
            /\ (BuildProgram(p, devices, n) \/ BuildDies(p, devices, n) \/ BuildRefused(p, devices, n))
       \/ \E name \in Names \cup {Null} :
            CreateKernel(p, name) \/ CreateKernelRefused(p, name) \/ CreateKernelDies(p, name)
  \/ \E k \in Kernels : RetainKernel(k) \/ ReleaseKernel(k)
  \/ BuildStep

(* clBuildProgram runs on the host thread until it is done.                 *)
Spec == Init /\ [][Next]_vars /\ WF_vars(BuildStep)

-----------------------------------------------------------------------------
(* A kernel finds its three wrapper functions in memory exactly as long as  *)
(* the host holds the program it was made from and has not built it again:  *)
(* the code of every other kernel is gone, and never that of another JIT.   *)
KernelCodeLive ==
  /\ usable \subseteq DOMAIN ker
  /\ \A k \in DOMAIN ker : k \in usable <=> ker[k].JIT \in DOMAIN jits
  /\ \A k \in usable : Looked(ker[k].name) \subseteq jits[ker[k].JIT]

(* What a build has to define: the source's functions, a vectorized clone   *)
(* of each kernel that can be, and the wrappers of both; no wrappers of     *)
(* clones' clones or of wrappers.                                           *)
Symbols(s) ==
  LET Named(kinds) == {s[i].name : i \in {j \in DOMAIN s : s[j].kind \in kinds}}
      all == Named({"vectorizable", "scalar"})
      vec == Named({"vectorizable"})
  IN {<<f>> : f \in Named({"vectorizable", "scalar", "function"})}
     \cup {<<"SVEK", f>> : f \in vec}
     \cup {<<"WPFN", "SCAK", f, d>> : f \in all, d \in {"1", "2", "3"}}
     \cup {<<"WPFN", "SVEK", f, d>> : f \in vec, d \in {"1", "2", "3"}}

(* After a build the JIT of a program defines exactly those.                *)
SymbolsOfSource ==
  \A p \in DOMAIN prog : prog[p].M /\ building # p => jits[prog[p].JIT] = Symbols(prog[p].source)

(* The loop over the functions of the module ends although its body appends *)
(* to them.                                                                 *)
BuildEnds == building # NoProg ~> building = NoProg
=============================================================================
