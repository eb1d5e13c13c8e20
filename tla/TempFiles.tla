------------------------------ MODULE TempFiles ------------------------------
(***************************************************************************)
(* The temporary files of programs: the constructor of _cl_program picks a  *)
(* name nobody uses, the source goes to name.cl, and build() lets clang     *)
(* write name.ll and parses that twice.  The files stay when the program is *)
(* released and when the process ends, and rand() is not seeded, so every   *)
(* process walks through the same names.                                    *)
(*                                                                         *)
(* A process is one host thread: its calls do not overlap.  The source of a *)
(* program is named by the program, a number no other program has.          *)
(***************************************************************************)
EXTENDS Integers, FiniteSets

CONSTANTS Processes,   \* host processes that run in the same directory
          Tries,       \* names a constructor tries (100 in the code)
          MaxPrograms, \* bound: programs created, by all the processes
          MaxNames     \* bound: random strings a process draws

ASSUME TriesAssumption == Tries \in Nat \ {0}
ASSUME MaxAssumption == MaxPrograms \in Nat /\ MaxNames \in Nat \ {0}

None == 0   \* no program: an empty file, nothing parsed

VARIABLES
  cl, ll,    \* the files: from the names that exist to the program they hold
  created,   \* programs created so far
  pc,        \* where each process is: in a call, between calls, or not running
  drawn,     \* random strings the process has drawn
  count,     \* tries the constructor has left
  current,   \* program the call works on
  progs,     \* per process, the _cl_program objects: [name, JIT, M, built]
  raced      \* history: names one process opened after another one's access() of the .cl

fileVars == <<cl, ll, created, pc, drawn, count, current, progs, raced>>

Written(file, n, x) == [q \in DOMAIN file \cup {n} |-> IF q = n THEN x ELSE file[q]]
With(ps, p, prog) == [q \in DOMAIN ps \cup {p} |-> IF q = p THEN prog ELSE ps[q]]

Goto(h, from, to) == pc[h] = from /\ pc' = [pc EXCEPT ![h] = to]

Nobody == [p \in {} |-> None]

FilesInit ==
  /\ cl = Nobody /\ ll = Nobody /\ created = 0
  /\ pc = [h \in Processes |-> "stopped"]
  /\ drawn = [h \in Processes |-> 0] /\ count = drawn /\ current = drawn
  /\ progs = [h \in Processes |-> Nobody] /\ raced = {}

Start(h) ==
  /\ Goto(h, "stopped", "idle")
  /\ drawn' = [drawn EXCEPT ![h] = 0]
  /\ UNCHANGED <<cl, ll, created, count, current, progs, raced>>

(* The process ends, or is killed, between any two steps; its files stay.   *)
Stop(h) ==
  /\ pc[h] # "stopped"
  /\ pc' = [pc EXCEPT ![h] = "stopped"]
  /\ progs' = [progs EXCEPT ![h] = Nobody]
  /\ count' = [count EXCEPT ![h] = 0] /\ current' = [current EXCEPT ![h] = None]
  /\ UNCHANGED <<cl, ll, created, drawn, raced>>

(* The host program calls srand(1): the names start over.                   *)
Seed(h) ==
  /\ pc[h] = "idle"
  /\ drawn' = [drawn EXCEPT ![h] = 0]
  /\ UNCHANGED <<cl, ll, created, pc, count, current, progs, raced>>

-----------------------------------------------------------------------------
(* clCreateProgramWithSource                                                *)
NextName(h) == drawn' = [drawn EXCEPT ![h] = @ + 1] /\ drawn[h] < MaxNames

Create(h) ==
  /\ created < MaxPrograms
  /\ Goto(h, "idle", "access")
  /\ NextName(h)
  /\ created' = created + 1
  /\ current' = [current EXCEPT ![h] = created']
  /\ count' = [count EXCEPT ![h] = Tries]
  /\ UNCHANGED <<cl, ll, progs, raced>>

(* The two calls of access(), for name.cl and then for name.ll, are two     *)
(* steps: other processes go on between them, and before the file is opened.*)
\* Mutant: only name.ll is looked for.
TakenCompiled(h) == pc[h] = "access_ll" /\ drawn[h] \in DOMAIN ll

Taken(h) ==
  \/ pc[h] = "access" /\ drawn[h] \in DOMAIN cl
  \/ pc[h] = "access_ll" /\ drawn[h] \in DOMAIN ll

(* access() finds the file: one try less.                                   *)
TryAgain(h) ==
  /\ Taken(h) /\ count[h] > 1
  /\ pc' = [pc EXCEPT ![h] = "access"]
  /\ NextName(h)
  /\ count' = [count EXCEPT ![h] = @ - 1]
  /\ UNCHANGED <<cl, ll, created, current, progs, raced>>

\* Mutant: the process ends with a try left.
GiveUpEarly(h) ==
  /\ Taken(h) /\ count[h] \in {1, 2}
  /\ pc' = [pc EXCEPT ![h] = "exited"]
  /\ count' = [count EXCEPT ![h] = 0]
  /\ UNCHANGED <<cl, ll, created, drawn, current, progs, raced>>

(* exitWithInternalError after the last try.                                *)
GiveUp(h) ==
  /\ Taken(h) /\ count[h] = 1
  /\ pc' = [pc EXCEPT ![h] = "exited"]
  /\ count' = [count EXCEPT ![h] = 0]
  /\ UNCHANGED <<cl, ll, created, drawn, current, progs, raced>>

FindNoSource(h) ==
  /\ ~Taken(h)
  /\ Goto(h, "access", "access_ll")
  /\ UNCHANGED <<cl, ll, created, drawn, count, current, progs, raced>>

FindName(h) ==
  /\ ~Taken(h)
  /\ Goto(h, "access_ll", "open")
  /\ UNCHANGED <<cl, ll, created, drawn, count, current, progs, raced>>

(* TempFile.open creates the file or empties it.  A process that has passed *)
(* its access() of this name.cl does not look again.                        *)
PassedBy(h) == {g \in Processes \ {h} : pc[g] \in {"access_ll", "open"} /\ drawn[g] = drawn[h]}

Open(h) ==
  /\ Goto(h, "open", "write")
  /\ cl' = Written(cl, drawn[h], None)
  /\ raced' = IF PassedBy(h) = {} THEN raced ELSE raced \cup {drawn[h]}
  /\ UNCHANGED <<ll, created, drawn, count, current, progs>>

(* The prelude and the strings, flushed by addString; of two writers of one *)
(* file the last one has its text at the beginning.                         *)
AddStrings(h) ==
  /\ Goto(h, "write", "idle")
  /\ cl' = Written(cl, drawn[h], current[h])
  /\ progs' = [progs EXCEPT ![h] = With(@, current[h], [name |-> drawn[h], JIT |-> None,
                                                       M |-> None, built |-> FALSE])]
  /\ UNCHANGED <<ll, created, drawn, count, current, raced>>

-----------------------------------------------------------------------------
(* clBuildProgram, also of a program that has been built before             *)
File(h) == progs[h][current[h]].name

Build(h) ==
  /\ Goto(h, "idle", "clang")
  /\ \E p \in DOMAIN progs[h] : current' = [current EXCEPT ![h] = p]
  /\ UNCHANGED <<cl, ll, created, drawn, count, progs, raced>>

Clang(h) ==
  /\ Goto(h, "clang", "parse")
  /\ ll' = Written(ll, File(h), cl[File(h)])
  /\ UNCHANGED <<cl, created, drawn, count, current, progs, raced>>

ParseForJIT(h) ==
  /\ Goto(h, "parse", "parse again")
  /\ progs' = [progs EXCEPT ![h][current[h]].JIT = ll[File(h)]]
  /\ UNCHANGED <<cl, ll, created, drawn, count, current, raced>>

ParseForM(h) ==
  /\ Goto(h, "parse again", "idle")
  /\ progs' = [progs EXCEPT ![h][current[h]].M = ll[File(h)], ![h][current[h]].built = TRUE]
  /\ UNCHANGED <<cl, ll, created, drawn, count, current, raced>>

(* The last clReleaseProgram: the files stay (FIXME in ~_cl_program).       *)
Release(h) ==
  /\ pc[h] = "idle"
  /\ \E p \in DOMAIN progs[h] :
       progs' = [progs EXCEPT ![h] = [q \in DOMAIN @ \ {p} |-> @[q]]]
  /\ UNCHANGED <<cl, ll, created, pc, drawn, count, current, raced>>

CreateStep(h) ==
  Create(h) \/ TryAgain(h) \/ GiveUp(h) \/ FindNoSource(h) \/ FindName(h) \/ Open(h) \/ AddStrings(h)

CompileStep(h) == Build(h) \/ Clang(h) \/ ParseForJIT(h) \/ ParseForM(h)

FilesNext ==
  \E h \in Processes : Start(h) \/ Stop(h) \/ Seed(h) \/ CreateStep(h) \/ CompileStep(h) \/ Release(h)

FilesSpec == FilesInit /\ [][FilesNext]_fileVars

-----------------------------------------------------------------------------
(* A program that has been built runs the code of its own source, and       *)
(* clCreateKernel looks names up in that source too, whatever files earlier *)
(* processes, or calls that were cut short, have left.  The one exception   *)
(* is a name whose .cl one process creates when another one has found that  *)
(* it does not exist and has not opened it yet: if that one goes on, the    *)
(* two share the file.  No other order of their steps mixes sources up.     *)
BuiltFromItsSource ==
  \A h \in Processes : \A p \in DOMAIN progs[h] :
    progs[h][p].built /\ progs[h][p].name \notin raced
      => progs[h][p].JIT = p /\ progs[h][p].M = p

(* clCreateProgramWithSource ends the process (exitWithInternalError) only  *)
(* when the programs created before, by all the processes, are as many as   *)
(* the names it tries.                                                      *)
ReturnsWhileNamesLast ==
  (\E h \in Processes : pc[h] = "exited") => created > Tries
=============================================================================
