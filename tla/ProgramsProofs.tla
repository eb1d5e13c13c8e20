---------------------------- MODULE ProgramsProofs ----------------------------
(***************************************************************************)
(* The code of kernels and the symbols of builds under every sequence of    *)
(* calls, for any number of programs, kernels, builds and references and    *)
(* for every set of sources; and the temporary files that programs are      *)
(* built from, for any number of processes, of names tried, of random       *)
(* strings and of programs.                                                 *)
(***************************************************************************)
EXTENDS Programs, TempFiles, DataProofs, SequenceTheorems, FiniteSetTheorems

ProgType ==
  /\ DOMAIN prog \subseteq Progs
  /\ prog \in [DOMAIN prog -> [source : Sources, JIT : Nat, M : BOOLEAN]]
  /\ ProgMap \in [DOMAIN prog -> Nat \ {0}]
  /\ held \in [Progs -> Nat]
  /\ jits = [b \in DOMAIN jits |-> jits[b]]
  /\ builds \in Nat
  /\ building \in DOMAIN prog \cup {NoProg}

KernelType ==
  /\ ker = [k \in DOMAIN ker |-> ker[k]]
  /\ KernelMap \in [DOMAIN ker -> Nat \ {0}]

(* A count is the number of references the host holds.                      *)
CountsHeld == \A p \in Progs : held[p] = IF p \in DOMAIN prog THEN ProgMap[p] ELSE 0

(* A program that has been built has a JIT of its own.                      *)
OwnJIT ==
  /\ \A p \in DOMAIN prog :
       /\ prog[p].JIT <= builds
       /\ prog[p].JIT # 0 => prog[p].JIT \in DOMAIN jits
       /\ prog[p].M \/ building = p => prog[p].JIT # 0
  /\ \A p, q \in DOMAIN prog : p # q /\ prog[p].JIT # 0 => prog[p].JIT # prog[q].JIT

(* A usable kernel has the JIT its program has now.                         *)
JITOfProgram ==
  \A k \in usable :
    /\ k \in DOMAIN ker
    /\ ker[k].of \in DOMAIN prog \ {building}
    /\ ker[k].JIT = prog[ker[k].of].JIT /\ ker[k].JIT # 0
    /\ Looked(ker[k].name) \subseteq jits[ker[k].JIT]

(* The JIT of any other kernel is gone, and no build gets its number again. *)
JITGone ==
  /\ \A k \in DOMAIN ker : ker[k].JIT \in Nat /\ ker[k].JIT <= builds
  /\ \A k \in DOMAIN ker \ usable : ker[k].JIT \notin DOMAIN jits

ProgInv == ProgType /\ KernelType /\ CountsHeld /\ OwnJIT /\ JITOfProgram /\ JITGone

LEMMA ProgInvInit == Init => ProgInv
BY DEF Init, EmptyMap, ProgInv, ProgType, KernelType, CountsHeld, OwnJIT, JITOfProgram, JITGone

LEMMA CreateProgramKeeps ==
  ASSUME ProgInv, NEW s \in Sources, CreateProgram(s)
  PROVE  ProgInv'
<1>1. PICK p \in Progs \ DOMAIN prog :
        /\ prog' = [q \in DOMAIN prog \cup {p} |->
                      IF q = p THEN [source |-> s, JIT |-> 0, M |-> FALSE] ELSE prog[q]]
        /\ ProgMap' = Added(ProgMap, p)
        /\ held' = [held EXCEPT ![p] = 1]
  BY DEF CreateProgram
<1>2. UNCHANGED <<ker, KernelMap, jits, builds, building, usable>>
  BY DEF CreateProgram, buildVars
<1>3. /\ ProgMap' \in [DOMAIN prog \cup {p} -> Nat \ {0}]
      /\ ProgMap'[p] = 1
      /\ \A q \in DOMAIN prog : ProgMap'[q] = ProgMap[q]
  <2>1. ProgMap \in [DOMAIN prog -> Nat \ {0}] /\ p \notin DOMAIN prog
    BY <1>1 DEF ProgInv, ProgType
  <2> QED BY <1>1, <2>1, AddedFacts
<1>4. /\ DOMAIN prog' = DOMAIN prog \cup {p}
      /\ prog'[p] = [source |-> s, JIT |-> 0, M |-> FALSE]
      /\ \A q \in DOMAIN prog : prog'[q] = prog[q]
  BY <1>1
<1>5. building # p
  BY <1>1, NoProgAssumption DEF ProgInv, ProgType
<1>6. ProgType'
  BY <1>1, <1>2, <1>3, <1>4 DEF ProgInv, ProgType
<1>7. KernelType'
  BY <1>2 DEF ProgInv, KernelType
<1>8. CountsHeld'
  BY <1>1, <1>3, <1>4 DEF ProgInv, ProgType, CountsHeld
<1>9. OwnJIT'
  BY <1>1, <1>2, <1>4, <1>5 DEF ProgInv, ProgType, OwnJIT
<1>10. JITOfProgram' /\ JITGone'
  BY <1>2, <1>4 DEF ProgInv, JITOfProgram, JITGone
<1> QED BY <1>6, <1>7, <1>8, <1>9, <1>10 DEF ProgInv

LEMMA RetainProgramKeeps ==
  ASSUME ProgInv, NEW p \in Progs, RetainProgram(p)
  PROVE  ProgInv'
<1>1. UNCHANGED <<prog, ker, KernelMap, jits, builds, building, usable>>
  BY DEF RetainProgram, buildVars
<1>2. p \in DOMAIN prog /\ ProgMap \in [DOMAIN prog -> Nat \ {0}]
  BY DEF RetainProgram, ProgInv, ProgType
<1>3. /\ ProgMap' \in [DOMAIN prog -> Nat \ {0}]
      /\ ProgMap'[p] = ProgMap[p] + 1
      /\ \A q \in DOMAIN prog \ {p} : ProgMap'[q] = ProgMap[q]
  BY <1>2, RetainedFacts DEF RetainProgram
<1>4. ProgType' /\ CountsHeld'
  BY <1>1, <1>2, <1>3 DEF RetainProgram, ProgInv, ProgType, CountsHeld
<1>5. KernelType' /\ OwnJIT' /\ JITOfProgram' /\ JITGone'
  BY <1>1 DEF ProgInv, KernelType, OwnJIT, JITOfProgram, JITGone
<1> QED BY <1>4, <1>5 DEF ProgInv

LEMMA ReleaseProgramKeeps ==
  ASSUME ProgInv, NEW p \in Progs, ReleaseProgram(p)
  PROVE  ProgInv'
<1>1. /\ ProgMap' = Released(ProgMap, p)
      /\ prog' = [q \in DOMAIN ProgMap' |-> prog[q]]
      /\ jits' = IF p \in DOMAIN ProgMap' THEN jits ELSE Without(jits, {prog[p].JIT})
      /\ held' = [held EXCEPT ![p] = @ - 1]
      /\ usable' = IF held[p] = 1 THEN usable \ KernelsOf(p) ELSE usable
      /\ building = NoProg
      /\ UNCHANGED <<ker, KernelMap, builds, building>>
  BY DEF ReleaseProgram, buildVars, Running
<1>2. p \in DOMAIN prog /\ ProgMap \in [DOMAIN prog -> Nat \ {0}]
  BY DEF ReleaseProgram, ProgInv, ProgType
<1>3. held[p] = ProgMap[p] /\ held[p] \in Nat \ {0}
  BY <1>2 DEF ProgInv, CountsHeld
<1>7. /\ ProgMap[p] = 1 => /\ DOMAIN ProgMap' = DOMAIN prog \ {p}
                           /\ ProgMap' \in [DOMAIN prog \ {p} -> Nat \ {0}]
      /\ ProgMap[p] # 1 => /\ ProgMap' \in [DOMAIN prog -> Nat \ {0}]
                           /\ ProgMap'[p] = ProgMap[p] - 1
      /\ \A q \in DOMAIN prog \ {p} : ProgMap'[q] = ProgMap[q]
  <2>1. /\ ProgMap[p] = 1 => /\ DOMAIN Released(ProgMap, p) = DOMAIN prog \ {p}
                             /\ Released(ProgMap, p) \in [DOMAIN prog \ {p} -> Nat \ {0}]
        /\ ProgMap[p] # 1 => /\ DOMAIN Released(ProgMap, p) = DOMAIN prog
                             /\ Released(ProgMap, p) \in [DOMAIN prog -> Nat \ {0}]
                             /\ Released(ProgMap, p)[p] = ProgMap[p] - 1
        /\ \A q \in DOMAIN prog \ {p} : Released(ProgMap, p)[q] = ProgMap[q]
    <3> DEFINE D == DOMAIN prog
    <3>1. p \in D /\ ProgMap \in [D -> Nat \ {0}]
      BY <1>2
    <3> HIDE DEF D
    <3>2. /\ ProgMap[p] = 1 => /\ DOMAIN Released(ProgMap, p) = D \ {p}
                               /\ Released(ProgMap, p) \in [D \ {p} -> Nat \ {0}]
          /\ ProgMap[p] # 1 => /\ DOMAIN Released(ProgMap, p) = D
                               /\ Released(ProgMap, p) \in [D -> Nat \ {0}]
                               /\ Released(ProgMap, p)[p] = ProgMap[p] - 1
          /\ \A q \in D \ {p} : Released(ProgMap, p)[q] = ProgMap[q]
      BY <3>1 DEF Released, IsLast
    <3> QED BY <3>2 DEF D
  <2>2. ProgMap' = Released(ProgMap, p)
    BY <1>1
  <2> QED BY <2>1, <2>2
<1>4. KernelType'
  BY <1>1 DEF ProgInv, KernelType
<1>5. CASE ProgMap[p] # 1
  <2>1. /\ ProgMap' \in [DOMAIN prog -> Nat \ {0}]
        /\ ProgMap'[p] = ProgMap[p] - 1
        /\ \A q \in DOMAIN prog \ {p} : ProgMap'[q] = ProgMap[q]
    BY <1>5, <1>7
  <2>2. UNCHANGED <<prog, jits, usable, ker, builds, building>>
    BY <1>1, <1>2, <1>3, <1>5, <2>1 DEF ProgInv, ProgType
  <2>3. ProgType' /\ CountsHeld'
    BY <1>1, <1>2, <1>3, <2>1, <2>2 DEF ProgInv, ProgType, CountsHeld
  <2>4. OwnJIT' /\ JITOfProgram' /\ JITGone'
    BY <2>2 DEF ProgInv, OwnJIT, JITOfProgram, JITGone
  <2> QED BY <1>4, <2>3, <2>4 DEF ProgInv
<1>6. CASE ProgMap[p] = 1
  <2>1. /\ DOMAIN ProgMap' = DOMAIN prog \ {p}
        /\ ProgMap' \in [DOMAIN prog \ {p} -> Nat \ {0}]
        /\ \A q \in DOMAIN prog \ {p} : ProgMap'[q] = ProgMap[q]
    BY <1>6, <1>7
  <2>2. /\ DOMAIN prog' = DOMAIN prog \ {p}
        /\ \A q \in DOMAIN prog \ {p} : prog'[q] = prog[q]
        /\ usable' = usable \ KernelsOf(p)
        /\ DOMAIN jits' = DOMAIN jits \ {prog[p].JIT}
        /\ \A b \in DOMAIN jits' : jits'[b] = jits[b]
        /\ jits' = [b \in DOMAIN jits' |-> jits'[b]]
    BY <1>1, <1>3, <1>6, <2>1 DEF Without
  <2>3. ProgType'
    BY <1>1, <1>3, <2>1, <2>2 DEF ProgInv, ProgType
  <2>4. CountsHeld'
    BY <1>1, <1>3, <1>6, <2>1, <2>2 DEF ProgInv, ProgType, CountsHeld
  <2>5. OwnJIT'
    <3>1. UNCHANGED <<builds, building>> /\ building = NoProg
      BY <1>1
    <3>2. \A q \in DOMAIN prog \ {p} : prog[q].JIT # 0 => prog[q].JIT \in DOMAIN jits'
      BY <1>2, <2>2 DEF ProgInv, OwnJIT
    <3> QED BY <2>2, <3>1, <3>2 DEF ProgInv, OwnJIT
  <2>6. JITOfProgram'
    <3>1. SUFFICES ASSUME NEW k \in usable, k \notin KernelsOf(p)
                   PROVE  /\ k \in DOMAIN ker
                          /\ ker[k].of \in DOMAIN prog' \ {building}
                          /\ ker[k].JIT = prog'[ker[k].of].JIT /\ ker[k].JIT # 0
                          /\ Looked(ker[k].name) \subseteq jits'[ker[k].JIT]
      <4>1. usable' = usable \ KernelsOf(p) /\ ker' = ker /\ building' = building
        BY <1>1, <2>2
      <4> QED BY <4>1 DEF JITOfProgram
    <3>2. /\ k \in DOMAIN ker /\ ker[k].of \in DOMAIN prog \ {building}
          /\ ker[k].JIT = prog[ker[k].of].JIT /\ ker[k].JIT # 0
          /\ Looked(ker[k].name) \subseteq jits[ker[k].JIT]
      BY DEF ProgInv, JITOfProgram
    <3>3. ker[k].of # p
      BY <3>1, <3>2 DEF KernelsOf
    <3>4. ker[k].JIT \in DOMAIN jits /\ ker[k].JIT # prog[p].JIT
      BY <1>2, <3>2, <3>3 DEF ProgInv, OwnJIT
    <3> QED BY <2>2, <3>2, <3>3, <3>4
  <2>7. JITGone'
    <3>1. SUFFICES ASSUME NEW k \in DOMAIN ker, k \notin usable \ KernelsOf(p)
                   PROVE  ker[k].JIT \notin DOMAIN jits \ {prog[p].JIT}
      <4>1. UNCHANGED <<ker, builds>> /\ usable' = usable \ KernelsOf(p)
        BY <1>1, <2>2
      <4> QED BY <2>2, <4>1 DEF ProgInv, JITGone
    <3>2. CASE k \in usable
      BY <3>1, <3>2 DEF ProgInv, JITOfProgram, KernelsOf
    <3>3. CASE k \notin usable
      BY <3>3 DEF ProgInv, JITGone
    <3> QED BY <3>2, <3>3
  <2> QED BY <1>4, <2>3, <2>4, <2>5, <2>6, <2>7 DEF ProgInv
<1> QED BY <1>5, <1>6

LEMMA BuildProgramKeeps ==
  ASSUME ProgInv, NEW p \in Progs, NEW devices, NEW n, BuildProgram(p, devices, n)
  PROVE  ProgInv'
<1>1. /\ builds' = builds + 1 /\ building' = p
      /\ jits' = [b \in (DOMAIN jits \ {prog[p].JIT}) \cup {builds'} |->
                    IF b = builds' THEN {} ELSE jits[b]]
      /\ prog' = [prog EXCEPT ![p].JIT = builds']
      /\ usable' = usable \ KernelsOf(p)
      /\ held[p] > 0
      /\ UNCHANGED <<ProgMap, ker, KernelMap, held>>
  BY DEF BuildProgram
<1>2. p \in DOMAIN prog /\ builds \in Nat
  BY <1>1 DEF ProgInv, ProgType, CountsHeld
<1>3. /\ DOMAIN prog' = DOMAIN prog
      /\ prog'[p].JIT = builds + 1 /\ prog'[p] \in [source : Sources, JIT : Nat, M : BOOLEAN]
      /\ \A q \in DOMAIN prog \ {p} : prog'[q] = prog[q]
  BY <1>1, <1>2 DEF ProgInv, ProgType
<1>4. /\ DOMAIN jits' = (DOMAIN jits \ {prog[p].JIT}) \cup {builds + 1}
      /\ \A b \in DOMAIN jits \ {prog[p].JIT, builds + 1} : jits'[b] = jits[b]
      /\ jits' = [b \in DOMAIN jits' |-> jits'[b]]
  BY <1>1
<1>5. ProgType'
  BY <1>1, <1>2, <1>3, <1>4 DEF ProgInv, ProgType
<1>6. KernelType' /\ CountsHeld'
  BY <1>1, <1>3 DEF ProgInv, KernelType, CountsHeld
<1>7. OwnJIT'
  <2>1. \A q \in DOMAIN prog : prog[q].JIT \in Nat /\ prog[q].JIT <= builds
    BY DEF ProgInv, ProgType, OwnJIT
  <2>2. \A q \in DOMAIN prog' :
          /\ prog'[q].JIT <= builds'
          /\ prog'[q].JIT # 0 => prog'[q].JIT \in DOMAIN jits'
          /\ prog'[q].M \/ building' = q => prog'[q].JIT # 0
    BY <1>1, <1>2, <1>3, <1>4, <2>1 DEF ProgInv, OwnJIT
  <2>3. \A q, r \in DOMAIN prog' : q # r /\ prog'[q].JIT # 0 => prog'[q].JIT # prog'[r].JIT
    BY <1>2, <1>3, <2>1 DEF ProgInv, OwnJIT
  <2> QED BY <2>2, <2>3 DEF OwnJIT
<1>8. JITOfProgram'
  <2>1. SUFFICES ASSUME NEW k \in usable, k \notin KernelsOf(p)
                 PROVE  /\ k \in DOMAIN ker
                        /\ ker[k].of \in DOMAIN prog' \ {building'}
                        /\ ker[k].JIT = prog'[ker[k].of].JIT /\ ker[k].JIT # 0
                        /\ Looked(ker[k].name) \subseteq jits'[ker[k].JIT]
    <3>1. usable' = usable \ KernelsOf(p) /\ ker' = ker
      BY <1>1
    <3> QED BY <3>1 DEF JITOfProgram
  <2>2. /\ k \in DOMAIN ker /\ ker[k].of \in DOMAIN prog
        /\ ker[k].JIT = prog[ker[k].of].JIT /\ ker[k].JIT # 0
        /\ Looked(ker[k].name) \subseteq jits[ker[k].JIT]
    BY DEF ProgInv, JITOfProgram
  <2>3. ker[k].of # p
    BY <2>1, <2>2 DEF KernelsOf
  <2>4. /\ ker[k].JIT \in DOMAIN jits /\ ker[k].JIT # prog[p].JIT
        /\ ker[k].JIT \in Nat /\ ker[k].JIT <= builds
    BY <1>2, <2>2, <2>3 DEF ProgInv, ProgType, OwnJIT
  <2>5. ker[k].JIT # builds + 1
    BY <1>2, <2>4
  <2> QED BY <1>1, <1>3, <1>4, <2>2, <2>3, <2>4, <2>5
<1>9. JITGone'
  <2>1. \A k \in DOMAIN ker : ker[k].JIT \in Nat /\ ker[k].JIT <= builds /\ ker[k].JIT # builds + 1
    BY <1>2 DEF ProgInv, JITGone
  <2>2. ASSUME NEW k \in DOMAIN ker, k \notin usable \ KernelsOf(p)
        PROVE  ker[k].JIT \notin DOMAIN jits \ {prog[p].JIT}
    <3>1. CASE k \in usable
      BY <2>2, <3>1 DEF ProgInv, JITOfProgram, KernelsOf
    <3>2. CASE k \notin usable
      BY <3>2 DEF ProgInv, JITGone
    <3> QED BY <3>1, <3>2
  <2>3. UNCHANGED ker /\ builds' = builds + 1 /\ usable' = usable \ KernelsOf(p)
    BY <1>1
  <2>4. \A k \in DOMAIN ker : ker[k].JIT <= builds + 1
    BY <1>2, <2>1
  <2> QED BY <1>4, <2>1, <2>2, <2>3, <2>4 DEF JITGone
<1> QED BY <1>5, <1>6, <1>7, <1>8, <1>9 DEF ProgInv

LEMMA FinishBuildKeeps ==
  ASSUME ProgInv, FinishBuild
  PROVE  ProgInv'
<1> DEFINE p == building
           syms == {Mod[i].name : i \in DOMAIN Mod}
<1>1. /\ p # NoProg /\ building' = NoProg
      /\ jits' = [jits EXCEPT ![prog[p].JIT] = syms]
      /\ prog' = [prog EXCEPT ![p].M = TRUE]
      /\ UNCHANGED <<ProgMap, ker, KernelMap, builds, held, usable>>
  BY DEF FinishBuild
<1>2. p \in DOMAIN prog
  BY <1>1 DEF ProgInv, ProgType
<1> HIDE DEF p, syms
<1>3. /\ DOMAIN prog' = DOMAIN prog
      /\ \A q \in DOMAIN prog : prog'[q].JIT = prog[q].JIT
      /\ \A q \in DOMAIN prog : prog'[q] \in [source : Sources, JIT : Nat, M : BOOLEAN]
      /\ \A q \in DOMAIN prog \ {p} : prog'[q].M = prog[q].M
  BY <1>1, <1>2 DEF ProgInv, ProgType
<1>4. /\ DOMAIN jits' = DOMAIN jits
      /\ \A b \in DOMAIN jits \ {prog[p].JIT} : jits'[b] = jits[b]
      /\ jits' = [b \in DOMAIN jits' |-> jits'[b]]
  BY <1>1 DEF ProgInv, ProgType
<1>5. ProgType'
  BY <1>1, <1>3, <1>4 DEF ProgInv, ProgType
<1>6. KernelType' /\ CountsHeld'
  BY <1>1, <1>3 DEF ProgInv, KernelType, CountsHeld
<1>7. prog[p].JIT # 0
  BY <1>2 DEF ProgInv, OwnJIT, p
<1>8. OwnJIT'
  <2>1. \A q \in DOMAIN prog : q # NoProg
    BY NoProgAssumption DEF ProgInv, ProgType
  <2> QED BY <1>1, <1>2, <1>3, <1>4, <1>7, <2>1 DEF ProgInv, OwnJIT
<1>9. JITOfProgram'
  <2>1. SUFFICES ASSUME NEW k \in usable
                 PROVE  /\ k \in DOMAIN ker
                        /\ ker[k].of \in DOMAIN prog' \ {NoProg}
                        /\ ker[k].JIT = prog'[ker[k].of].JIT /\ ker[k].JIT # 0
                        /\ Looked(ker[k].name) \subseteq jits'[ker[k].JIT]
    BY <1>1 DEF JITOfProgram, Looked
  <2>2. /\ k \in DOMAIN ker /\ ker[k].of \in DOMAIN prog \ {p}
        /\ ker[k].JIT = prog[ker[k].of].JIT /\ ker[k].JIT # 0
        /\ Looked(ker[k].name) \subseteq jits[ker[k].JIT]
    BY DEF ProgInv, JITOfProgram, p
  <2>3. ker[k].JIT \in DOMAIN jits /\ ker[k].JIT # prog[p].JIT
    BY <1>2, <2>2 DEF ProgInv, OwnJIT
  <2>4. ker[k].of # NoProg
    BY <2>2, NoProgAssumption DEF ProgInv, ProgType
  <2> QED BY <1>3, <1>4, <2>2, <2>3, <2>4
<1>10. JITGone'
  BY <1>1, <1>4 DEF ProgInv, JITGone
<1> QED BY <1>5, <1>6, <1>8, <1>9, <1>10 DEF ProgInv

LEMMA CreateKernelKeeps ==
  ASSUME ProgInv, NEW p \in Progs, NEW name, CreateKernel(p, name)
  PROVE  ProgInv'
<1>1. PICK k \in Kernels \ DOMAIN ker :
        /\ ker' = [q \in DOMAIN ker \cup {k} |->
                     IF q = k THEN [of |-> p, name |-> name, JIT |-> prog[p].JIT] ELSE ker[q]]
        /\ KernelMap' = Added(KernelMap, k)
        /\ usable' = usable \cup {k}
  BY DEF CreateKernel
<1>2. /\ held[p] > 0 /\ prog[p].M /\ building = NoProg
      /\ Looked(name) \subseteq jits[prog[p].JIT]
      /\ UNCHANGED <<prog, ProgMap, jits, builds, building, held>>
  BY DEF CreateKernel, buildVars, Running
<1>3. p \in DOMAIN prog /\ p # building
  BY <1>2, NoProgAssumption DEF ProgInv, ProgType, CountsHeld
<1>4. ProgType' /\ CountsHeld' /\ OwnJIT'
  BY <1>2 DEF ProgInv, ProgType, CountsHeld, OwnJIT
<1>5. KernelType'
  <2>1. KernelMap \in [DOMAIN ker -> Nat \ {0}] /\ k \notin DOMAIN ker
    BY <1>1 DEF ProgInv, KernelType
  <2>2. KernelMap' \in [DOMAIN ker \cup {k} -> Nat \ {0}]
    BY <1>1, <2>1, AddedFacts
  <2> QED BY <1>1, <2>2 DEF KernelType
<1>6. JITOfProgram'
  <2>1. /\ DOMAIN ker' = DOMAIN ker \cup {k}
        /\ ker'[k] = [of |-> p, name |-> name, JIT |-> prog[p].JIT]
        /\ \A q \in DOMAIN ker : ker'[q] = ker[q]
    BY <1>1
  <2>2. prog[p].JIT # 0
    BY <1>2, <1>3 DEF ProgInv, OwnJIT
  <2> QED BY <1>1, <1>2, <1>3, <2>1, <2>2 DEF ProgInv, JITOfProgram
<1>7. JITGone'
  <2>1. prog[p].JIT \in Nat /\ prog[p].JIT <= builds
    BY <1>3 DEF ProgInv, ProgType, OwnJIT
  <2> QED BY <1>1, <1>2, <2>1 DEF ProgInv, JITGone
<1> QED BY <1>4, <1>5, <1>6, <1>7 DEF ProgInv

LEMMA CountKernelKeeps ==
  ASSUME ProgInv, NEW k \in Kernels, RetainKernel(k) \/ ReleaseKernel(k)
  PROVE  ProgInv'
<1>1. UNCHANGED <<prog, ProgMap, jits, builds, building, held>>
  BY DEF RetainKernel, ReleaseKernel, buildVars
<1>2. ProgType' /\ CountsHeld' /\ OwnJIT'
  BY <1>1 DEF ProgInv, ProgType, CountsHeld, OwnJIT
<1>3. k \in DOMAIN ker /\ KernelMap \in [DOMAIN ker -> Nat \ {0}]
  BY DEF RetainKernel, ReleaseKernel, ProgInv, KernelType
<1>4. CASE RetainKernel(k)
  <2>1. UNCHANGED <<ker, usable>> /\ KernelMap' = Retained(KernelMap, k)
    BY <1>4 DEF RetainKernel
  <2>2. KernelMap' \in [DOMAIN ker -> Nat \ {0}]
    BY <1>3, <2>1, RetainedFacts
  <2>3. KernelType' /\ JITOfProgram' /\ JITGone'
    BY <1>1, <2>1, <2>2 DEF ProgInv, KernelType, JITOfProgram, JITGone
  <2> QED BY <1>2, <2>3 DEF ProgInv
<1>5. CASE ReleaseKernel(k)
  <2>1. /\ KernelMap' = Released(KernelMap, k)
        /\ ker' = [q \in DOMAIN KernelMap' |-> ker[q]]
        /\ usable' = usable \cap DOMAIN KernelMap'
    BY <1>5 DEF ReleaseKernel
  <2>2. PICK D : D \subseteq DOMAIN ker /\ KernelMap' \in [D -> Nat \ {0}]
    BY <1>3, <2>1, ReleasedFacts
  <2>3. KernelType'
    BY <2>1, <2>2 DEF KernelType
  <2>4. JITOfProgram' /\ JITGone'
    BY <1>1, <2>1, <2>2 DEF ProgInv, JITOfProgram, JITGone
  <2> QED BY <1>2, <2>3, <2>4 DEF ProgInv
<1> QED BY <1>4, <1>5

LEMMA OtherKeeps ==
  ASSUME ProgInv, UNCHANGED <<prog, ProgMap, ker, KernelMap, jits, builds, building, held, usable>>
  PROVE  ProgInv'
BY DEF ProgInv, ProgType, KernelType, CountsHeld, OwnJIT, JITOfProgram, JITGone

LEMMA ProgInvStep == ProgInv /\ [Next]_vars => ProgInv'
<1> SUFFICES ASSUME ProgInv, [Next]_vars PROVE ProgInv'
  OBVIOUS
<1>1. ASSUME NEW s \in Sources, CreateProgram(s) PROVE ProgInv'
  BY <1>1, CreateProgramKeeps
<1>2. ASSUME NEW Ctx, NEW s, CreateRefused(Ctx, s) PROVE ProgInv'
  BY <1>2, OtherKeeps DEF CreateRefused, buildVars
<1>3. ASSUME NEW p \in Progs, RetainProgram(p) \/ ReleaseProgram(p) PROVE ProgInv'
  BY <1>3, RetainProgramKeeps, ReleaseProgramKeeps
<1>4. ASSUME NEW p \in Progs, ProgramRefused(p) PROVE ProgInv'
  BY <1>4, OtherKeeps DEF ProgramRefused, buildVars
<1>5. ASSUME NEW p \in Progs, NEW devices, NEW n, BuildProgram(p, devices, n) PROVE ProgInv'
  BY <1>5, BuildProgramKeeps
<1>6. ASSUME NEW p \in Progs, NEW devices, NEW n,
             BuildDies(p, devices, n) \/ BuildRefused(p, devices, n)
      PROVE  ProgInv'
  BY <1>6, OtherKeeps DEF BuildDies, BuildRefused, buildVars
<1>7. ASSUME NEW p \in Progs, NEW name, CreateKernel(p, name) PROVE ProgInv'
  BY <1>7, CreateKernelKeeps
<1>8. ASSUME NEW p \in Progs, NEW name, CreateKernelRefused(p, name) \/ CreateKernelDies(p, name)
      PROVE  ProgInv'
  BY <1>8, OtherKeeps DEF CreateKernelRefused, CreateKernelDies, buildVars
<1>9. ASSUME NEW k \in Kernels, RetainKernel(k) \/ ReleaseKernel(k) PROVE ProgInv'
  BY <1>9, CountKernelKeeps
<1>10. CASE VisitFunction
  BY <1>10, OtherKeeps DEF VisitFunction
<1>11. CASE FinishBuild
  BY <1>11, FinishBuildKeeps
<1>12. CASE UNCHANGED vars
  BY <1>12, OtherKeeps DEF vars, buildVars
<1> QED
  BY <1>1, <1>2, <1>3, <1>4, <1>5, <1>6, <1>7, <1>8, <1>9, <1>10, <1>11, <1>12
  DEF Next, BuildStep

(* The function pointers of a kernel lead into a JIT that exists and has    *)
(* the functions exactly as long as the host holds the kernel's program and *)
(* has not built it again (_cl_kernel's constructor, build(), release()).   *)
THEOREM KernelsKeepTheirCode == Spec => []KernelCodeLive
<1>1. ProgInv => KernelCodeLive
  BY DEF ProgInv, ProgType, OwnJIT, JITOfProgram, JITGone, KernelCodeLive
<1> QED BY <1>1, ProgInvInit, ProgInvStep, PTL DEF Spec

-----------------------------------------------------------------------------
(* The symbols of a module, part by part: what is parsed, and what one turn *)
(* of the loop adds for a function of the source.                           *)
Words == {"SVEK", "WPFN", "SCAK", "1", "2", "3"}
         \cup UNION {{s[i].name : i \in DOMAIN s} : s \in Sources}

ModuleFunction == [name : Seq(Words), kind : {"vectorizable", "scalar", "function", "broken"},
              conv : {"C", "SPIR_KERNEL"}]

(* The functions that are no kernels: clones and wrappers are.              *)
Helpers == {f \in ModuleFunction : f.conv = "C"}

NamesOf(m) == {m[i].name : i \in DOMAIN m}

WrapperNames(prefix, f) == {<<"WPFN", prefix, f, d>> : d \in {"1", "2", "3"}}

AddedBy(f) ==
  IF f.kind = "vectorizable"
  THEN {<<"SVEK", f.name>>} \cup WrapperNames("SCAK", f.name) \cup WrapperNames("SVEK", f.name)
  ELSE IF f.kind = "scalar" THEN WrapperNames("SCAK", f.name) ELSE {}

(* The symbols of a module whose loop has reached place n.                  *)
Defined(s, n) ==
  {<<s[i].name>> : i \in DOMAIN s} \cup UNION {AddedBy(s[i]) : i \in {j \in DOMAIN s : j < n}}

(* The module of the running build: the functions of the source come first  *)
(* and are unchanged, what was appended is no kernel, and the symbols are   *)
(* those of the functions visited so far.                                   *)
ModOf(s) ==
  /\ Compiles(s)
  /\ at \in Nat \ {0}
  /\ Mod \in Seq(ModuleFunction)
  /\ Len(s) <= Len(Mod)
  /\ \A i \in 1..Len(s) : Mod[i] = Parsed(s)[i]
  /\ \A i \in 1..Len(Mod) : i > Len(s) => Mod[i] \in Helpers
  /\ NamesOf(Mod) = Defined(s, at)

BuildInv == building # NoProg => ModOf(prog[building].source)

-----------------------------------------------------------------------------
(* Concatenations, entry by entry.                                          *)
LEMMA ConcatIs ==
  ASSUME NEW S, NEW s \in Seq(S), NEW t \in Seq(S), NEW u \in Seq(S),
         Len(u) = Len(s) + Len(t),
         \A i \in 1..Len(s) : u[i] = s[i],
         \A i \in 1..Len(t) : u[Len(s) + i] = t[i]
  PROVE  s \o t = u
<1>1. s \o t \in Seq(S) /\ Len(s \o t) = Len(u) /\ Len(s) \in Nat /\ Len(t) \in Nat
  OBVIOUS
<1>2. \A i \in 1..Len(u) : (s \o t)[i] = u[i]
  <2> SUFFICES ASSUME NEW i \in 1..Len(u) PROVE (s \o t)[i] = u[i]
    OBVIOUS
  <2>1. CASE i <= Len(s)
    <3>1. i \in 1..Len(s)
      BY <1>1, <2>1
    <3>2. (s \o t)[i] = s[i]
      BY <1>1, <3>1
    <3> QED BY <3>1, <3>2
  <2>2. CASE i > Len(s)
    <3>1. i - Len(s) \in 1..Len(t) /\ Len(s) + (i - Len(s)) = i
      BY <1>1, <2>2
    <3>2. (s \o t)[i] = t[i - Len(s)]
      BY <1>1, <2>2
    <3> QED BY <3>1, <3>2
  <2> QED BY <1>1, <2>1, <2>2
<1> QED BY <1>1, <1>2, SeqEqual

LEMMA Concat11 ==
  ASSUME NEW S, NEW e \in S, NEW x \in S
  PROVE  <<e>> \o <<x>> = <<e, x>>
<1> DEFINE s == <<e>>
           t == <<x>>
           u == <<e, x>>
<1>1. s \in Seq(S) /\ t \in Seq(S) /\ u \in Seq(S)
  OBVIOUS
<1>2. Len(s) = 1 /\ Len(t) = 1 /\ Len(u) = 2
  OBVIOUS
<1>3. \A i \in 1..1 : u[i] = s[i]
  OBVIOUS
<1>4. \A i \in 1..1 : u[1 + i] = t[i]
  OBVIOUS
<1> HIDE DEF s, t, u
<1>5. s \o t = u
  <2>1. Len(u) = Len(s) + Len(t)
    BY <1>2
  <2>2. \A i \in 1..Len(s) : u[i] = s[i]
    BY <1>2, <1>3
  <2>3. \A i \in 1..Len(t) : u[Len(s) + i] = t[i]
    BY <1>2, <1>4
  <2> QED BY <1>1, <2>1, <2>2, <2>3, ConcatIs
<1> QED BY <1>5 DEF s, t, u

LEMMA Concat12 ==
  ASSUME NEW S, NEW w \in S, NEW e \in S, NEW x \in S
  PROVE  <<w>> \o <<e, x>> = <<w, e, x>>
<1> DEFINE s == <<w>>
           t == <<e, x>>
           u == <<w, e, x>>
<1>1. s \in Seq(S) /\ t \in Seq(S) /\ u \in Seq(S)
  OBVIOUS
<1>2. Len(s) = 1 /\ Len(t) = 2 /\ Len(u) = 3
  OBVIOUS
<1>3. \A i \in 1..1 : u[i] = s[i]
  OBVIOUS
<1>4. \A i \in 1..2 : u[1 + i] = t[i]
  OBVIOUS
<1> HIDE DEF s, t, u
<1>5. s \o t = u
  <2>1. Len(u) = Len(s) + Len(t)
    BY <1>2
  <2>2. \A i \in 1..Len(s) : u[i] = s[i]
    BY <1>2, <1>3
  <2>3. \A i \in 1..Len(t) : u[Len(s) + i] = t[i]
    BY <1>2, <1>4
  <2> QED BY <1>1, <2>1, <2>2, <2>3, ConcatIs
<1> QED BY <1>5 DEF s, t, u

LEMMA Concat31 ==
  ASSUME NEW S, NEW w \in S, NEW e \in S, NEW x \in S, NEW d \in S
  PROVE  <<w, e, x>> \o <<d>> = <<w, e, x, d>>
<1> DEFINE s == <<w, e, x>>
           t == <<d>>
           u == <<w, e, x, d>>
<1>1. s \in Seq(S) /\ t \in Seq(S) /\ u \in Seq(S)
  OBVIOUS
<1>2. Len(s) = 3 /\ Len(t) = 1 /\ Len(u) = 4
  OBVIOUS
<1>3. \A i \in 1..3 : u[i] = s[i]
  OBVIOUS
<1>4. \A i \in 1..1 : u[3 + i] = t[i]
  OBVIOUS
<1> HIDE DEF s, t, u
<1>5. s \o t = u
  <2>1. Len(u) = Len(s) + Len(t)
    BY <1>2
  <2>2. \A i \in 1..Len(s) : u[i] = s[i]
    BY <1>2, <1>3
  <2>3. \A i \in 1..Len(t) : u[Len(s) + i] = t[i]
    BY <1>2, <1>4
  <2> QED BY <1>1, <2>1, <2>2, <2>3, ConcatIs
<1> QED BY <1>5 DEF s, t, u


LEMMA NamesConcat ==
  ASSUME NEW S, NEW a \in Seq(S), NEW b \in Seq(S)
  PROVE  NamesOf(a \o b) = NamesOf(a) \cup NamesOf(b)
<1> DEFINE c == a \o b
<1>1. /\ Len(a) \in Nat /\ Len(b) \in Nat
      /\ DOMAIN a = 1..Len(a) /\ DOMAIN b = 1..Len(b)
      /\ DOMAIN c = 1..(Len(a) + Len(b))
  OBVIOUS
<1>2. \A i \in 1..Len(a) : c[i] = a[i] /\ i \in DOMAIN c
  BY <1>1
<1>3. \A i \in 1..Len(b) : c[Len(a) + i] = b[i] /\ Len(a) + i \in DOMAIN c
  BY <1>1
<1>4. \A i \in DOMAIN c : \/ i \in 1..Len(a) /\ c[i] = a[i]
                          \/ i - Len(a) \in 1..Len(b) /\ c[i] = b[i - Len(a)]
  BY <1>1
<1> HIDE DEF c
<1>5. NamesOf(c) \subseteq NamesOf(a) \cup NamesOf(b)
  <2> SUFFICES ASSUME NEW i \in DOMAIN c PROVE c[i].name \in NamesOf(a) \cup NamesOf(b)
    BY DEF NamesOf
  <2> QED BY <1>1, <1>4 DEF NamesOf
<1>6. NamesOf(a) \subseteq NamesOf(c)
  BY <1>1, <1>2 DEF NamesOf
<1>7. NamesOf(b) \subseteq NamesOf(c)
  <2> SUFFICES ASSUME NEW i \in DOMAIN b PROVE b[i].name \in NamesOf(c)
    BY DEF NamesOf
  <2>1. c[Len(a) + i] = b[i] /\ Len(a) + i \in DOMAIN c
    BY <1>1, <1>3
  <2> QED BY <2>1 DEF NamesOf
<1>8. NamesOf(c) = NamesOf(a) \cup NamesOf(b)
  BY <1>5, <1>6, <1>7
<1> QED BY <1>8 DEF c


LEMMA HelperType ==
  ASSUME NEW q \in Seq(Words)
  PROVE  LET h == [name |-> q, kind |-> "function", conv |-> "C"]
         IN  h \in Helpers /\ h.name = q
<1> DEFINE W == Seq(Words)
<1>1. q \in W
  OBVIOUS
<1> HIDE DEF W
<1>2. [name |-> q, kind |-> "function", conv |-> "C"] \in
        [name : W, kind : {"vectorizable", "scalar", "function", "broken"}, conv : {"C", "SPIR_KERNEL"}]
  BY <1>1
<1> QED BY <1>2 DEF Helpers, ModuleFunction, W

(* What createWrapperFunction adds for one kernel.                          *)
LEMMA WrappersFacts ==
  ASSUME NEW e \in Words, NEW f \in Words
  PROVE  /\ Wrappers(<<e, f>>) \in Seq(Helpers)
         /\ NamesOf(Wrappers(<<e, f>>)) = WrapperNames(e, f)
<1> DEFINE w == Wrappers(<<e, f>>)
           N(d) == <<"WPFN", e, f, WorkDims[d]>>
           H(d) == [name |-> N(d), kind |-> "function", conv |-> "C"]
<1>1. DOMAIN WorkDims = 1..3 /\ WorkDims[1] = "1" /\ WorkDims[2] = "2" /\ WorkDims[3] = "3"
  BY DEF WorkDims
<1>2. "WPFN" \in Words /\ "1" \in Words /\ "2" \in Words /\ "3" \in Words
  BY DEF Words
<1>3. \A d \in 1..3 : WorkDims[d] \in Words
  BY <1>1, <1>2
<1>4. \A d \in 1..3 : <<"WPFN">> \o <<e, f>> \o <<WorkDims[d]>> = N(d)
  <2> SUFFICES ASSUME NEW d \in 1..3 PROVE <<"WPFN">> \o <<e, f>> \o <<WorkDims[d]>> = N(d)
    OBVIOUS
  <2>1. <<"WPFN">> \o <<e, f>> = <<"WPFN", e, f>>
    BY <1>2, Concat12
  <2>2. <<"WPFN", e, f>> \o <<WorkDims[d]>> = <<"WPFN", e, f, WorkDims[d]>>
    BY <1>2, <1>3, Concat31
  <2> QED BY <2>1, <2>2
<1>5. \A d \in 1..3 : N(d) \in Seq(Words)
  BY <1>2, <1>3
<1>6. w = [d \in 1..3 |-> H(d)]
  <2> HIDE DEF N
  <2> QED BY <1>1, <1>4 DEF Wrappers
<1>7. \A d \in 1..3 : H(d) \in Helpers /\ H(d).name = N(d)
  <2> HIDE DEF N
  <2> QED BY <1>5, HelperType
<1>8. {N(d) : d \in 1..3} = WrapperNames(e, f)
  <2> DEFINE M(x) == <<"WPFN", e, f, x>>
  <2>1. \A d \in 1..3 : N(d) = M(WorkDims[d])
    OBVIOUS
  <2>2. WrapperNames(e, f) = {M(x) : x \in {"1", "2", "3"}}
    BY DEF WrapperNames
  <2> HIDE DEF M, N
  <2>3. {N(d) : d \in 1..3} = {M("1"), M("2"), M("3")}
    BY <1>1, <2>1
  <2> QED BY <2>2, <2>3
<1> HIDE DEF w, N, H
<1>9. w \in Seq(Helpers) /\ DOMAIN w = 1..3
  <2>1. [d \in 1..3 |-> H(d)] \in Seq(Helpers)
    <3> DEFINE T == Helpers
    <3>1. \A d \in 1..3 : H(d) \in T
      BY <1>7
    <3> HIDE DEF T
    <3>2. [d \in 1..3 |-> H(d)] \in [1..3 -> T]
      BY <3>1
    <3>3. [1..3 -> T] \subseteq Seq(T)
      BY SeqDef
    <3> QED BY <3>2, <3>3 DEF T
  <2> QED BY <1>6, <2>1
<1>10. NamesOf(w) = {N(d) : d \in 1..3}
  <2>1. \A d \in 1..3 : w[d].name = N(d)
    BY <1>6, <1>7
  <2> QED BY <1>9, <2>1 DEF NamesOf
<1> QED BY <1>8, <1>9, <1>10 DEF w

(* The function of a source as parseIRFile gives it, and what one turn of   *)
(* the loop appends for it.                                                 *)
Appended(f) == VectorizeKernel(f) \o CreateWrapperFunction(f, VectorizeKernel(f))

LEMMA AppendedFacts ==
  ASSUME NEW n \in Words, NEW k \in {"vectorizable", "scalar", "function"}, NEW g,
         g = [name |-> <<n>>, kind |-> k,
              conv |-> IF k = "function" THEN "C" ELSE "SPIR_KERNEL"]
  PROVE  /\ VectorizeKernel(g) \in Seq(Helpers)
         /\ CreateWrapperFunction(g, VectorizeKernel(g)) \in Seq(Helpers)
         /\ Appended(g) \in Seq(Helpers)
         /\ NamesOf(Appended(g)) = AddedBy([name |-> n, kind |-> k])
<1> DEFINE r == [name |-> n, kind |-> k]
           c == [name |-> <<"SVEK", n>>, kind |-> "function", conv |-> "C"]
           ws == Wrappers(<<"SCAK", n>>)
           wv == Wrappers(<<"SVEK", n>>)
<1>1. n \in Words /\ "SCAK" \in Words /\ "SVEK" \in Words
  BY DEF Words
<1>2. <<"SCAK">> \o <<n>> = <<"SCAK", n>> /\ <<"SVEK">> \o <<n>> = <<"SVEK", n>>
  BY <1>1, Concat11
<1>3. g.name = <<n>> /\ g.kind = k /\ g.conv = IF k = "function" THEN "C" ELSE "SPIR_KERNEL"
  OBVIOUS
<1>4. Clone(g) = c
  BY <1>2, <1>3 DEF Clone
<1>5. Wrappers(<<"SCAK">> \o g.name) = ws /\ Wrappers(c.name) = wv
  BY <1>2, <1>3
<1>6. /\ ws \in Seq(Helpers) /\ NamesOf(ws) = WrapperNames("SCAK", n)
      /\ wv \in Seq(Helpers) /\ NamesOf(wv) = WrapperNames("SVEK", n)
  BY <1>1, WrappersFacts
<1>7. <<c>> \in Seq(Helpers) /\ NamesOf(<<c>>) = {<<"SVEK", n>>}
  <2>1. <<"SVEK", n>> \in Seq(Words)
    BY <1>1
  <2>2. c \in Helpers /\ c.name = <<"SVEK", n>>
    BY <2>1, HelperType
  <2> DEFINE q == <<"SVEK", n>>
  <2> HIDE DEF c, q
  <2>3. <<c>> \in Seq(Helpers) /\ NamesOf(<<c>>) = {c.name}
    BY <2>2 DEF NamesOf
  <2> QED BY <2>2, <2>3
<1> HIDE DEF c, ws, wv
<1>8. CASE k = "function"
  <2>1. VectorizeKernel(g) = <<>> /\ CreateWrapperFunction(g, <<>>) = <<>>
    BY <1>3, <1>8 DEF VectorizeKernel, CreateWrapperFunction, IsKernel
  <2>2. Appended(g) = <<>>
    BY <2>1 DEF Appended
  <2>3. AddedBy(r) = {}
    BY <1>8 DEF AddedBy
  <2>4. NamesOf(<<>>) = {} /\ <<>> \in Seq(Helpers)
    BY DEF NamesOf
  <2> QED BY <2>1, <2>2, <2>3, <2>4
<1>9. CASE k = "scalar"
  <2>1. IsKernel(g) /\ g.kind # "vectorizable"
    BY <1>3, <1>9 DEF IsKernel
  <2>2. VectorizeKernel(g) = <<>> /\ CreateWrapperFunction(g, <<>>) = ws \o <<>>
    BY <1>5, <2>1 DEF VectorizeKernel, CreateWrapperFunction
  <2>3. ws \o <<>> = ws /\ <<>> \o ws = ws
    BY <1>6, ConcatEmptySeq
  <2>4. Appended(g) = ws
    BY <2>2, <2>3 DEF Appended
  <2>5. AddedBy(r) = WrapperNames("SCAK", n)
    BY <1>9 DEF AddedBy
  <2>6. /\ VectorizeKernel(g) \in Seq(Helpers)
        /\ CreateWrapperFunction(g, VectorizeKernel(g)) \in Seq(Helpers)
    BY <1>6, <2>2, <2>3
  <2> QED BY <1>6, <2>4, <2>5, <2>6
<1>10. CASE k = "vectorizable"
  <2>1. IsKernel(g) /\ g.kind = "vectorizable"
    BY <1>3, <1>10 DEF IsKernel
  <2>2. VectorizeKernel(g) = <<c>>
    BY <1>4, <2>1 DEF VectorizeKernel
  <2>3. CreateWrapperFunction(g, <<c>>) = ws \o wv
    <3>1. <<c>> # <<>> /\ <<c>>[1] = c
      OBVIOUS
    <3>2. CreateWrapperFunction(g, <<c>>) = Wrappers(<<"SCAK">> \o g.name) \o Wrappers(<<c>>[1].name)
      BY <2>1, <3>1 DEF CreateWrapperFunction
    <3> QED BY <1>5, <3>1, <3>2
  <2>4. Appended(g) = <<c>> \o (ws \o wv)
    BY <2>2, <2>3 DEF Appended
  <2>5. ws \o wv \in Seq(Helpers) /\ NamesOf(ws \o wv) = WrapperNames("SCAK", n) \cup WrapperNames("SVEK", n)
    BY <1>6, NamesConcat, ConcatProperties
  <2>6. /\ Appended(g) \in Seq(Helpers)
        /\ NamesOf(Appended(g)) = {<<"SVEK", n>>} \cup WrapperNames("SCAK", n) \cup WrapperNames("SVEK", n)
    <3> DEFINE a == <<c>>
               b == ws \o wv
    <3>1. a \in Seq(Helpers) /\ b \in Seq(Helpers)
      BY <1>7, <2>5
    <3>2. NamesOf(a) = {<<"SVEK", n>>} /\ NamesOf(b) = WrapperNames("SCAK", n) \cup WrapperNames("SVEK", n)
      BY <1>7, <2>5
    <3>3. Appended(g) = a \o b
      BY <2>4
    <3> HIDE DEF a, b
    <3>4. a \o b \in Seq(Helpers) /\ NamesOf(a \o b) = NamesOf(a) \cup NamesOf(b)
      BY <3>1, NamesConcat, ConcatProperties
    <3> QED BY <3>2, <3>3, <3>4
  <2>7. AddedBy(r) = {<<"SVEK", n>>} \cup WrapperNames("SCAK", n) \cup WrapperNames("SVEK", n)
    BY <1>10 DEF AddedBy
  <2>8. /\ VectorizeKernel(g) \in Seq(Helpers)
        /\ CreateWrapperFunction(g, VectorizeKernel(g)) \in Seq(Helpers)
    BY <1>7, <2>2, <2>3, <2>5
  <2> QED BY <2>6, <2>7, <2>8
<1> QED BY <1>8, <1>9, <1>10

LEMMA SourceFacts ==
  ASSUME NEW s \in Sources, Compiles(s)
  PROVE  /\ Len(s) \in Nat /\ DOMAIN s = 1..Len(s)
         /\ \A i \in 1..Len(s) : /\ s[i].name \in Words
                                 /\ s[i].kind \in {"vectorizable", "scalar", "function"}
                                 /\ s[i] = [name |-> s[i].name, kind |-> s[i].kind]
<1> DEFINE F == [name : STRING, kind : {"vectorizable", "scalar", "function", "broken"}]
<1>1. s \in Seq(F)
  BY SourcesAssumption
<1>2. Len(s) \in Nat /\ DOMAIN s = 1..Len(s) /\ \A i \in 1..Len(s) : s[i] \in F
  <2> HIDE DEF F
  <2> QED BY <1>1
<1>3. \A i \in 1..Len(s) : s[i].name \in Words
  BY <1>2 DEF Words
<1>4. \A i \in 1..Len(s) : s[i].kind \in {"vectorizable", "scalar", "function"}
  BY <1>2 DEF Compiles
<1>5. \A i \in 1..Len(s) : s[i] = [name |-> s[i].name, kind |-> s[i].kind]
  BY <1>2
<1> QED BY <1>2, <1>3, <1>4, <1>5

LEMMA ParsedFacts ==
  ASSUME NEW s \in Sources, Compiles(s)
  PROVE  /\ Parsed(s) \in Seq(ModuleFunction) /\ Len(Parsed(s)) = Len(s)
         /\ NamesOf(Parsed(s)) = {<<s[i].name>> : i \in DOMAIN s}
<1> DEFINE T == ModuleFunction
           P(i) == [name |-> <<s[i].name>>, kind |-> s[i].kind,
                    conv |-> IF s[i].kind = "function" THEN "C" ELSE "SPIR_KERNEL"]
<1>1. Len(s) \in Nat /\ DOMAIN s = 1..Len(s)
  BY SourceFacts
<1>2. \A i \in 1..Len(s) : P(i) \in T /\ P(i).name = <<s[i].name>>
  <2> SUFFICES ASSUME NEW i \in 1..Len(s) PROVE P(i) \in T
    OBVIOUS
  <2> DEFINE q == <<s[i].name>>
             W == Seq(Words)
  <2>1. s[i].name \in Words /\ s[i].kind \in {"vectorizable", "scalar", "function"}
    BY SourceFacts
  <2>2. q \in W
    BY <2>1
  <2> HIDE DEF q, W
  <2>3. [name |-> q, kind |-> s[i].kind,
         conv |-> IF s[i].kind = "function" THEN "C" ELSE "SPIR_KERNEL"] \in
          [name : W, kind : {"vectorizable", "scalar", "function", "broken"}, conv : {"C", "SPIR_KERNEL"}]
    BY <2>1, <2>2
  <2> QED BY <2>3 DEF q, W, ModuleFunction
<1>3. Parsed(s) = [i \in 1..Len(s) |-> P(i)]
  BY <1>1 DEF Parsed
<1> HIDE DEF T, P
<1>4. Parsed(s) \in [1..Len(s) -> T]
  BY <1>2, <1>3
<1>5. Parsed(s) \in Seq(T) /\ Len(Parsed(s)) = Len(s) /\ DOMAIN Parsed(s) = 1..Len(s)
  <2>1. Parsed(s) \in Seq(T) /\ DOMAIN Parsed(s) = 1..Len(s)
    BY <1>1, <1>4, SeqDef
  <2>2. Len(Parsed(s)) \in Nat /\ DOMAIN Parsed(s) = 1..Len(Parsed(s))
    BY <2>1, LenProperties
  <2>3. Len(Parsed(s)) = Len(s)
    <3> DEFINE a == Len(Parsed(s))
               b == Len(s)
    <3>1. a \in Nat /\ b \in Nat /\ 1..a = 1..b
      BY <1>1, <2>1, <2>2
    <3> HIDE DEF a, b
    <3>2. \A x \in Nat \ {0} : x \in 1..a <=> x \in 1..b
      BY <3>1
    <3>3. a = b
      BY <3>1, <3>2
    <3> QED BY <3>3 DEF a, b
  <2> QED BY <2>1, <2>3
<1>6. NamesOf(Parsed(s)) = {<<s[i].name>> : i \in DOMAIN s}
  <2> DEFINE N(i) == <<s[i].name>>
  <2>1. \A i \in 1..Len(s) : Parsed(s)[i].name = N(i)
    BY <1>2, <1>3
  <2> HIDE DEF N
  <2>2. NamesOf(Parsed(s)) = {N(i) : i \in DOMAIN s}
    BY <1>1, <1>5, <2>1 DEF NamesOf
  <2> QED BY <2>2 DEF N
<1> QED BY <1>5, <1>6 DEF T

(* When every function of the source was visited, the symbols are those the *)
(* build has to define.                                                     *)
LEMMA DefinedIsSymbols ==
  ASSUME NEW s \in Sources, Compiles(s), NEW n \in Nat, n > Len(s)
  PROVE  Defined(s, n) = Symbols(s)
<1> DEFINE K(ks) == {s[i].name : i \in {j \in DOMAIN s : s[j].kind \in ks}}
           A == {<<s[i].name>> : i \in DOMAIN s}
           B == UNION {AddedBy(s[i]) : i \in DOMAIN s}
           S1 == {<<f>> : f \in K({"vectorizable", "scalar", "function"})}
           S2 == {<<"SVEK", f>> : f \in K({"vectorizable"})}
           S3 == {<<"WPFN", "SCAK", f, d>> : f \in K({"vectorizable", "scalar"}), d \in {"1", "2", "3"}}
           S4 == {<<"WPFN", "SVEK", f, d>> : f \in K({"vectorizable"}), d \in {"1", "2", "3"}}
<1>1. Len(s) \in Nat /\ DOMAIN s = 1..Len(s)
      /\ \A i \in 1..Len(s) : s[i].kind \in {"vectorizable", "scalar", "function"}
  BY SourceFacts
<1>2. Symbols(s) = S1 \cup S2 \cup S3 \cup S4
  BY DEF Symbols
<1>3. Defined(s, n) = A \cup B
  <2>1. {j \in DOMAIN s : j < n} = DOMAIN s
    BY <1>1
  <2> QED BY <2>1 DEF Defined
<1>4. A = S1
  <2> DEFINE N(f) == <<f>>
  <2>1. A = {N(s[i].name) : i \in DOMAIN s} /\ S1 = {N(f) : f \in K({"vectorizable", "scalar", "function"})}
    OBVIOUS
  <2>2. K({"vectorizable", "scalar", "function"}) = {s[i].name : i \in DOMAIN s}
    BY <1>1
  <2> HIDE DEF A, S1, N, K
  <2> QED BY <2>1, <2>2
<1>5. \A i \in DOMAIN s :
        /\ s[i].kind = "function" => AddedBy(s[i]) = {}
        /\ s[i].kind = "scalar" => AddedBy(s[i]) = WrapperNames("SCAK", s[i].name)
        /\ s[i].kind = "vectorizable" =>
             AddedBy(s[i]) = {<<"SVEK", s[i].name>>} \cup WrapperNames("SCAK", s[i].name)
                             \cup WrapperNames("SVEK", s[i].name)
  BY DEF AddedBy
<1>6. /\ S2 = UNION {{<<"SVEK", f>>} : f \in K({"vectorizable"})}
      /\ S3 = UNION {WrapperNames("SCAK", f) : f \in K({"vectorizable", "scalar"})}
      /\ S4 = UNION {WrapperNames("SVEK", f) : f \in K({"vectorizable"})}
  <2>1. S2 = UNION {{<<"SVEK", f>>} : f \in K({"vectorizable"})}
    <3> HIDE DEF K
    <3> QED OBVIOUS
  <2>2. S3 = UNION {WrapperNames("SCAK", f) : f \in K({"vectorizable", "scalar"})}
    <3> HIDE DEF K
    <3> QED BY DEF WrapperNames
  <2>3. S4 = UNION {WrapperNames("SVEK", f) : f \in K({"vectorizable"})}
    <3> HIDE DEF K
    <3> QED BY DEF WrapperNames
  <2> HIDE DEF K, S2, S3, S4
  <2> QED BY <2>1, <2>2, <2>3
<1>7. B = S2 \cup S3 \cup S4
  <2> DEFINE V(f) == {<<"SVEK", f>>}
             all == K({"vectorizable", "scalar"})
             vec == K({"vectorizable"})
  <2>1. all = {s[i].name : i \in {j \in DOMAIN s : s[j].kind # "function"}}
    BY <1>1
  <2>2. vec = {s[i].name : i \in {j \in DOMAIN s : s[j].kind = "vectorizable"}}
    OBVIOUS
  <2>3. /\ S2 = UNION {V(f) : f \in vec}
        /\ S3 = UNION {WrapperNames("SCAK", f) : f \in all}
        /\ S4 = UNION {WrapperNames("SVEK", f) : f \in vec}
    <3> HIDE DEF S2, S3, S4, K
    <3> QED BY <1>6
  <2>4. \A i \in DOMAIN s : s[i].kind = "vectorizable" =>
          AddedBy(s[i]) = V(s[i].name) \cup WrapperNames("SCAK", s[i].name)
                          \cup WrapperNames("SVEK", s[i].name)
    BY <1>5
  <2> HIDE DEF V, all, vec, S2, S3, S4, K
  <2>5. B \subseteq S2 \cup S3 \cup S4
    <3> SUFFICES ASSUME NEW i \in DOMAIN s PROVE AddedBy(s[i]) \subseteq S2 \cup S3 \cup S4
      OBVIOUS
    <3>1. CASE s[i].kind = "function"
      BY <1>5, <3>1
    <3>2. CASE s[i].kind = "scalar"
      <4>1. s[i].name \in all
        BY <2>1, <3>2
      <4> QED BY <1>5, <2>3, <3>2, <4>1
    <3>3. CASE s[i].kind = "vectorizable"
      <4>1. s[i].name \in all /\ s[i].name \in vec
        BY <2>1, <2>2, <3>3
      <4> QED BY <2>3, <2>4, <3>3, <4>1
    <3> QED BY <1>1, <3>1, <3>2, <3>3
  <2>6. S2 \cup S3 \cup S4 \subseteq B
    <3>1. \A i \in DOMAIN s : AddedBy(s[i]) \subseteq B
      OBVIOUS
    <3> HIDE DEF B
    <3>2. \A f \in all : WrapperNames("SCAK", f) \subseteq B
      <4> SUFFICES ASSUME NEW i \in DOMAIN s, s[i].kind # "function"
                   PROVE  WrapperNames("SCAK", s[i].name) \subseteq B
        BY <2>1
      <4>1. WrapperNames("SCAK", s[i].name) \subseteq AddedBy(s[i])
        <5>1. CASE s[i].kind = "scalar"
          BY <1>5, <5>1
        <5>2. CASE s[i].kind = "vectorizable"
          BY <2>4, <5>2
        <5> QED BY <1>1, <5>1, <5>2
      <4> QED BY <3>1, <4>1
    <3>3. \A f \in vec : V(f) \subseteq B /\ WrapperNames("SVEK", f) \subseteq B
      <4> SUFFICES ASSUME NEW i \in DOMAIN s, s[i].kind = "vectorizable"
                   PROVE  V(s[i].name) \subseteq B /\ WrapperNames("SVEK", s[i].name) \subseteq B
        BY <2>2
      <4>1. V(s[i].name) \subseteq AddedBy(s[i]) /\ WrapperNames("SVEK", s[i].name) \subseteq AddedBy(s[i])
        BY <2>4
      <4> QED BY <3>1, <4>1
    <3> QED BY <2>3, <3>2, <3>3
  <2> QED BY <2>5, <2>6
<1> HIDE DEF A, B, S1, S2, S3, S4
<1> QED BY <1>2, <1>3, <1>4, <1>7

SymInv == BuildInv /\ SymbolsOfSource

LEMMA SymInvInit == Init => SymInv
BY DEF Init, SymInv, BuildInv, SymbolsOfSource

LEMMA SymInvKept ==
  ASSUME SymInv, UNCHANGED <<prog, jits, building, Mod, at>>
  PROVE  SymInv'
BY DEF SymInv, BuildInv, ModOf, SymbolsOfSource, NamesOf

LEMMA CreateProgramSymbols ==
  ASSUME ProgInv, SymInv, NEW s \in Sources, CreateProgram(s)
  PROVE  SymInv'
<1>1. PICK p \in Progs \ DOMAIN prog :
        prog' = [q \in DOMAIN prog \cup {p} |->
                   IF q = p THEN [source |-> s, JIT |-> 0, M |-> FALSE] ELSE prog[q]]
  BY DEF CreateProgram
<1>2. UNCHANGED <<jits, building>> /\ building = NoProg
  BY DEF CreateProgram, buildVars, Running
<1>3. /\ DOMAIN prog' = DOMAIN prog \cup {p} /\ ~prog'[p].M
      /\ \A q \in DOMAIN prog : prog'[q] = prog[q]
  BY <1>1
<1> QED BY <1>2, <1>3 DEF SymInv, BuildInv, SymbolsOfSource

LEMMA ReleaseProgramSymbols ==
  ASSUME ProgInv, SymInv, NEW p \in Progs, ReleaseProgram(p)
  PROVE  SymInv'
<1>1. /\ prog' = [q \in DOMAIN ProgMap' |-> prog[q]]
      /\ jits' = IF p \in DOMAIN ProgMap' THEN jits ELSE Without(jits, {prog[p].JIT})
      /\ UNCHANGED building /\ building = NoProg
  BY DEF ReleaseProgram, buildVars, Running
<1>2. p \in DOMAIN prog /\ DOMAIN ProgMap = DOMAIN prog
  BY DEF ReleaseProgram, ProgInv, ProgType
<1>3. DOMAIN ProgMap' \subseteq DOMAIN prog
  <2>1. ProgMap' = Released(ProgMap, p)
    BY DEF ReleaseProgram
  <2>2. DOMAIN Released(ProgMap, p) \subseteq DOMAIN ProgMap
    BY DEF Released
  <2> QED BY <1>2, <2>1, <2>2
<1>4. SUFFICES ASSUME NEW q \in DOMAIN ProgMap', prog[q].M
               PROVE  jits'[prog[q].JIT] = Symbols(prog[q].source)
  BY <1>1 DEF SymInv, BuildInv, SymbolsOfSource
<1>5. q \in DOMAIN prog /\ q # NoProg
  BY <1>3, NoProgAssumption DEF ProgInv, ProgType
<1>6. jits[prog[q].JIT] = Symbols(prog[q].source)
  BY <1>1, <1>4, <1>5 DEF SymInv, SymbolsOfSource
<1>7. prog[q].JIT # 0 /\ prog[q].JIT \in DOMAIN jits
  BY <1>4, <1>5 DEF ProgInv, OwnJIT
<1>8. CASE p \in DOMAIN ProgMap'
  BY <1>1, <1>6, <1>8
<1>9. CASE p \notin DOMAIN ProgMap'
  <2>1. prog[q].JIT # prog[p].JIT
    BY <1>2, <1>4, <1>5, <1>7, <1>9 DEF ProgInv, OwnJIT
  <2> QED BY <1>1, <1>6, <1>7, <1>9, <2>1 DEF Without
<1> QED BY <1>8, <1>9

LEMMA BuildProgramSymbols ==
  ASSUME ProgInv, SymInv, NEW p \in Progs, NEW devices, NEW n, BuildProgram(p, devices, n)
  PROVE  SymInv'
<1>1. /\ builds' = builds + 1 /\ building' = p /\ building = NoProg
      /\ jits' = [b \in (DOMAIN jits \ {prog[p].JIT}) \cup {builds'} |->
                    IF b = builds' THEN {} ELSE jits[b]]
      /\ prog' = [prog EXCEPT ![p].JIT = builds']
      /\ at' = 1 /\ Mod' = Parsed(prog[p].source)
      /\ Compiles(prog[p].source) /\ held[p] > 0
  BY DEF BuildProgram, Running
<1>2. p \in DOMAIN prog /\ builds \in Nat
  BY <1>1 DEF ProgInv, ProgType, CountsHeld
<1>3. /\ DOMAIN prog' = DOMAIN prog /\ prog'[p].source = prog[p].source
      /\ \A q \in DOMAIN prog \ {p} : prog'[q] = prog[q]
  BY <1>1, <1>2 DEF ProgInv, ProgType
<1>4. PICK s \in Sources : s = prog[p].source
  BY <1>2 DEF ProgInv, ProgType
<1>5. BuildInv'
  <2>1. /\ Len(s) \in Nat /\ Parsed(s) \in Seq(ModuleFunction) /\ Len(Parsed(s)) = Len(s)
        /\ NamesOf(Parsed(s)) = {<<s[i].name>> : i \in DOMAIN s} /\ DOMAIN s = 1..Len(s)
    BY <1>1, <1>4, SourceFacts, ParsedFacts
  <2>2. Defined(s, 1) = {<<s[i].name>> : i \in DOMAIN s}
    <3>1. {j \in DOMAIN s : j < 1} = {}
      BY <2>1
    <3> QED BY <3>1 DEF Defined
  <2>3. Mod' = Parsed(s) /\ Compiles(s) /\ prog'[p].source = s
    BY <1>1, <1>3, <1>4
  <2>4. NamesOf(Mod') = Defined(s, 1)
    BY <2>1, <2>2, <2>3
  <2>5. ModOf(s)'
    <3>1. /\ at' \in Nat \ {0} /\ at' = 1 /\ Mod' \in Seq(ModuleFunction)
          /\ Len(s) <= Len(Mod') /\ \A i \in 1..Len(Mod') : ~(i > Len(s))
      BY <1>1, <2>1, <2>3
    <3> QED BY <1>1, <2>3, <2>4, <3>1 DEF ModOf, NamesOf
  <2> QED BY <1>1, <2>3, <2>5 DEF BuildInv
<1>6. SymbolsOfSource'
  <2>1. SUFFICES ASSUME NEW q \in DOMAIN prog \ {p}, prog[q].M
                 PROVE  jits'[prog[q].JIT] = Symbols(prog[q].source)
    BY <1>1, <1>3 DEF SymbolsOfSource
  <2>2. jits[prog[q].JIT] = Symbols(prog[q].source)
    BY <1>1, <2>1, NoProgAssumption DEF SymInv, SymbolsOfSource, ProgInv, ProgType
  <2>3. /\ prog[q].JIT # 0 /\ prog[q].JIT \in DOMAIN jits
        /\ prog[q].JIT # prog[p].JIT
        /\ prog[q].JIT \in Nat /\ prog[q].JIT <= builds
    BY <1>2, <2>1 DEF ProgInv, ProgType, OwnJIT
  <2>4. prog[q].JIT # builds'
    BY <1>1, <1>2, <2>3
  <2> QED BY <1>1, <2>2, <2>3, <2>4
<1> QED BY <1>5, <1>6 DEF SymInv

LEMMA VisitFunctionSymbols ==
  ASSUME ProgInv, SymInv, VisitFunction
  PROVE  SymInv'
<1> DEFINE s == prog[building].source
           f == Mod[at]
           new == Appended(f)
<1>1. /\ building # NoProg /\ at <= Len(Mod) /\ at' = at + 1
      /\ UNCHANGED <<prog, jits, building>>
      /\ Mod' = Mod \o VectorizeKernel(f) \o CreateWrapperFunction(f, VectorizeKernel(f))
  BY DEF VisitFunction
<1>2. building \in DOMAIN prog /\ s \in Sources
  BY <1>1 DEF ProgInv, ProgType
<1>3. ModOf(s)
  BY <1>1 DEF SymInv, BuildInv
<1>4. /\ Compiles(s) /\ at \in Nat \ {0} /\ Mod \in Seq(ModuleFunction) /\ Len(s) <= Len(Mod)
      /\ \A i \in 1..Len(s) : Mod[i] = Parsed(s)[i]
      /\ \A i \in 1..Len(Mod) : i > Len(s) => Mod[i] \in Helpers
      /\ NamesOf(Mod) = Defined(s, at)
  BY <1>3 DEF ModOf
<1>5. Len(s) \in Nat /\ DOMAIN s = 1..Len(s) /\ Len(Mod) \in Nat
  BY <1>2, <1>4, SourceFacts
<1> HIDE DEF s, f
<1> DEFINE Adds == /\ VectorizeKernel(f) \in Seq(Helpers)
                   /\ CreateWrapperFunction(f, VectorizeKernel(f)) \in Seq(Helpers)
                   /\ new \in Seq(Helpers)
                   /\ Defined(s, at + 1) = Defined(s, at) \cup NamesOf(new)
<1>6. ASSUME at <= Len(s) PROVE Adds
  <2>1. at \in 1..Len(s) /\ at \in DOMAIN s
    BY <1>4, <1>5, <1>6
  <2>2. s[at].name \in Words /\ s[at].kind \in {"vectorizable", "scalar", "function"}
        /\ s[at] = [name |-> s[at].name, kind |-> s[at].kind]
    BY <1>2, <1>4, <2>1, SourceFacts
  <2>3. f = [name |-> <<s[at].name>>, kind |-> s[at].kind,
             conv |-> IF s[at].kind = "function" THEN "C" ELSE "SPIR_KERNEL"]
    BY <1>4, <2>1 DEF f, Parsed
  <2>4. new \in Seq(Helpers) /\ NamesOf(new) = AddedBy(s[at])
    BY <2>2, <2>3, AppendedFacts
  <2>5. /\ VectorizeKernel(f) \in Seq(Helpers)
        /\ CreateWrapperFunction(f, VectorizeKernel(f)) \in Seq(Helpers)
    BY <2>2, <2>3, AppendedFacts
  <2>6. Defined(s, at + 1) = Defined(s, at) \cup AddedBy(s[at])
    <3>1. {j \in DOMAIN s : j < at + 1} = {j \in DOMAIN s : j < at} \cup {at}
      BY <1>4, <1>5, <2>1
    <3> QED BY <3>1 DEF Defined
  <2> QED BY <2>4, <2>5, <2>6
<1>7. ASSUME at > Len(s) PROVE Adds
  <2>1. f \in Helpers
    BY <1>1, <1>4, <1>7 DEF f
  <2>2. ~IsKernel(f)
    BY <2>1 DEF Helpers, IsKernel
  <2>3. VectorizeKernel(f) = <<>> /\ CreateWrapperFunction(f, VectorizeKernel(f)) = <<>>
    BY <2>2 DEF VectorizeKernel, CreateWrapperFunction
  <2>4. new = <<>> \o <<>>
    BY <2>3 DEF Appended
  <2>5. new = <<>> /\ NamesOf(new) = {}
    BY <2>4 DEF NamesOf
  <2>6. Defined(s, at + 1) = Defined(s, at)
    <3>1. {j \in DOMAIN s : j < at + 1} = {j \in DOMAIN s : j < at}
      BY <1>4, <1>5, <1>7
    <3> QED BY <3>1 DEF Defined
  <2>7. <<>> \in Seq(Helpers)
    OBVIOUS
  <2>8. NamesOf(new) = {} /\ Defined(s, at + 1) = Defined(s, at) \cup {}
    BY <2>5, <2>6
  <2>9. new \in Seq(Helpers)
    BY <2>5, <2>7
  <2> HIDE DEF new
  <2> QED BY <2>3, <2>7, <2>8, <2>9
<1>8. Adds
  BY <1>4, <1>5, <1>6, <1>7
<1>9. Helpers \subseteq ModuleFunction
  BY DEF Helpers
<1>10. Mod' = Mod \o new
  <2> DEFINE v == VectorizeKernel(f)
             w == CreateWrapperFunction(f, VectorizeKernel(f))
  <2>1. v \in Seq(ModuleFunction) /\ w \in Seq(ModuleFunction)
    BY <1>8, <1>9, SeqMonotonic
  <2>2. Mod' = (Mod \o v) \o w /\ new = v \o w
    BY <1>1 DEF Appended
  <2> HIDE DEF v, w, new
  <2> QED BY <1>4, <2>1, <2>2, ConcatAssociative, SMTT(30)
<1> HIDE DEF new
<1>11. new \in Seq(ModuleFunction)
  BY <1>8, <1>9, SeqMonotonic
<1>12. /\ Mod' \in Seq(ModuleFunction) /\ Len(Mod') = Len(Mod) + Len(new)
       /\ \A i \in 1..Len(Mod') : Mod'[i] = IF i <= Len(Mod) THEN Mod[i] ELSE new[i - Len(Mod)]
       /\ NamesOf(Mod') = NamesOf(Mod) \cup NamesOf(new)
  BY <1>4, <1>10, <1>11, ConcatProperties, NamesConcat
<1>13. Len(new) \in Nat /\ \A i \in 1..Len(new) : new[i] \in Helpers
  BY <1>8
<1>14. ModOf(s)'
  <2>1. \A i \in 1..Len(s) : Mod'[i] = Parsed(s)[i]
    BY <1>4, <1>5, <1>12, <1>13
  <2>2. \A i \in 1..Len(Mod') : i > Len(s) => Mod'[i] \in Helpers
    <3> SUFFICES ASSUME NEW i \in 1..Len(Mod'), i > Len(s) PROVE Mod'[i] \in Helpers
      OBVIOUS
    <3>1. CASE i <= Len(Mod)
      BY <1>4, <1>5, <1>12, <3>1
    <3>2. CASE i > Len(Mod)
      <4>1. i - Len(Mod) \in 1..Len(new)
        BY <1>5, <1>12, <1>13, <3>2
      <4> QED BY <1>5, <1>12, <1>13, <3>2, <4>1
    <3> QED BY <1>5, <3>1, <3>2
  <2>3. at' \in Nat \ {0} /\ Len(s) <= Len(Mod') /\ NamesOf(Mod)' = Defined(s, at')
    <3>1. NamesOf(Mod)' = NamesOf(Mod')
      BY DEF NamesOf
    <3> QED BY <1>1, <1>4, <1>5, <1>8, <1>12, <1>13, <3>1
  <2>4. s' = s
    BY <1>1 DEF s
  <2> QED BY <1>4, <1>12, <2>1, <2>2, <2>3, <2>4 DEF ModOf
<1>15. BuildInv'
  BY <1>1, <1>14 DEF BuildInv, s
<1>16. SymbolsOfSource'
  BY <1>1 DEF SymInv, SymbolsOfSource
<1> QED BY <1>15, <1>16 DEF SymInv

LEMMA FinishBuildSymbols ==
  ASSUME ProgInv, SymInv, FinishBuild
  PROVE  SymInv'
<1> DEFINE p == building
           s == prog[p].source
<1>1. /\ p # NoProg /\ building' = NoProg /\ at > Len(Mod)
      /\ jits' = [jits EXCEPT ![prog[p].JIT] = NamesOf(Mod)]
      /\ prog' = [prog EXCEPT ![p].M = TRUE]
  BY DEF FinishBuild, NamesOf
<1>2. p \in DOMAIN prog /\ s \in Sources
  BY <1>1 DEF ProgInv, ProgType
<1>3. ModOf(s)
  BY <1>1 DEF SymInv, BuildInv
<1> HIDE DEF s
<1>4. NamesOf(Mod) = Symbols(s)
  <2>1. Compiles(s) /\ at \in Nat /\ Len(s) <= Len(Mod) /\ Len(Mod) \in Nat /\ NamesOf(Mod) = Defined(s, at)
    BY <1>3 DEF ModOf
  <2>2. Len(s) \in Nat
    BY <1>2, <2>1, SourceFacts
  <2>3. at > Len(s)
    BY <1>1, <2>1, <2>2
  <2> QED BY <1>2, <2>1, <2>3, DefinedIsSymbols
<1>5. /\ DOMAIN prog' = DOMAIN prog
      /\ \A q \in DOMAIN prog : prog'[q].JIT = prog[q].JIT /\ prog'[q].source = prog[q].source
      /\ \A q \in DOMAIN prog \ {p} : prog'[q].M = prog[q].M
  <2> HIDE DEF p
  <2> QED BY <1>1, <1>2 DEF ProgInv, ProgType
<1>6. prog[p].JIT # 0 /\ prog[p].JIT \in DOMAIN jits
  BY <1>2 DEF ProgInv, OwnJIT
<1>7. ASSUME NEW q \in DOMAIN prog, prog'[q].M
      PROVE  jits'[prog[q].JIT] = Symbols(prog[q].source)
  <2>1. CASE q = p
    BY <1>1, <1>4, <1>6, <2>1 DEF s
  <2>2. CASE q # p
    <3>1. prog[q].M
      BY <1>5, <1>7, <2>2
    <3>2. jits[prog[q].JIT] = Symbols(prog[q].source)
      BY <2>2, <3>1 DEF SymInv, SymbolsOfSource
    <3>3. prog[q].JIT # prog[p].JIT
      BY <1>2, <1>6, <2>2 DEF ProgInv, OwnJIT
    <3> QED BY <1>1, <3>2, <3>3 DEF ProgInv, ProgType
  <2> QED BY <2>1, <2>2
<1>8. SymbolsOfSource'
  BY <1>5, <1>7 DEF SymbolsOfSource
<1> QED BY <1>1, <1>8 DEF SymInv, BuildInv

LEMMA SymInvStep == ProgInv /\ SymInv /\ [Next]_vars => SymInv'
<1> SUFFICES ASSUME ProgInv, SymInv, [Next]_vars PROVE SymInv'
  OBVIOUS
<1>1. ASSUME NEW s \in Sources, CreateProgram(s) PROVE SymInv'
  BY <1>1, CreateProgramSymbols
<1>2. ASSUME NEW Ctx, NEW s, CreateRefused(Ctx, s) PROVE SymInv'
  BY <1>2, SymInvKept DEF CreateRefused, buildVars
<1>3. ASSUME NEW p \in Progs, ReleaseProgram(p) PROVE SymInv'
  BY <1>3, ReleaseProgramSymbols
<1>4. ASSUME NEW p \in Progs, RetainProgram(p) \/ ProgramRefused(p) PROVE SymInv'
  BY <1>4, SymInvKept DEF RetainProgram, ProgramRefused, buildVars
<1>5. ASSUME NEW p \in Progs, NEW devices, NEW n, BuildProgram(p, devices, n) PROVE SymInv'
  BY <1>5, BuildProgramSymbols
<1>6. ASSUME NEW p \in Progs, NEW devices, NEW n,
             BuildDies(p, devices, n) \/ BuildRefused(p, devices, n)
      PROVE  SymInv'
  BY <1>6, SymInvKept DEF BuildDies, BuildRefused, buildVars
<1>7. ASSUME NEW p \in Progs, NEW name,
             CreateKernel(p, name) \/ CreateKernelRefused(p, name) \/ CreateKernelDies(p, name)
      PROVE  SymInv'
  BY <1>7, SymInvKept DEF CreateKernel, CreateKernelRefused, CreateKernelDies, buildVars
<1>8. ASSUME NEW k \in Kernels, RetainKernel(k) \/ ReleaseKernel(k) PROVE SymInv'
  BY <1>8, SymInvKept DEF RetainKernel, ReleaseKernel, buildVars
<1>9. CASE VisitFunction
  BY <1>9, VisitFunctionSymbols
<1>10. CASE FinishBuild
  BY <1>10, FinishBuildSymbols
<1>11. CASE UNCHANGED vars
  BY <1>11, SymInvKept DEF vars, buildVars
<1> QED
  BY <1>1, <1>2, <1>3, <1>4, <1>5, <1>6, <1>7, <1>8, <1>9, <1>10, <1>11
  DEF Next, BuildStep

(* After clBuildProgram the JIT of a program defines the functions of its   *)
(* source, the clones of the kernels the vectorizer takes and the wrappers  *)
(* of both, and nothing else: the loop over the module, which appends to    *)
(* what it runs over (build(), addIRModule()), visits every function of the *)
(* source and adds nothing for what it appended itself.                     *)
THEOREM JITDefinesItsSource == Spec => []SymbolsOfSource
<1>1. SymInv => SymbolsOfSource
  BY DEF SymInv
<1> QED BY <1>1, ProgInvInit, ProgInvStep, SymInvInit, SymInvStep, PTL DEF Spec

-----------------------------------------------------------------------------
(* The temporary files: a program that was built runs the code of its own   *)
(* source, and creating a program ends the process only when as many        *)
(* programs were created before as names are tried.                         *)
PCs == {"stopped", "idle", "access", "access_ll", "open", "write", "clang", "parse", "parse again",
        "exited"}

Program == [name : 1..MaxNames, JIT : Nat, M : Nat, built : BOOLEAN]
ProgramMaps == UNION {[P -> Program] : P \in SUBSET (1..MaxPrograms)}

(* The type invariant.                                                      *)
FilesType ==
  /\ cl \in [DOMAIN cl -> Nat] /\ DOMAIN cl \subseteq 1..MaxNames
  /\ ll \in [DOMAIN ll -> Nat] /\ DOMAIN ll \subseteq DOMAIN cl

CallType ==
  /\ pc \in [Processes -> PCs]
  /\ drawn \in [Processes -> 0..MaxNames]
  /\ count \in [Processes -> 0..Tries]

ProgramType ==
  /\ created \in 0..MaxPrograms
  /\ current \in [Processes -> 0..created]
  /\ progs \in [Processes -> ProgramMaps]

TypeOK == FilesType /\ CallType /\ ProgramType

Creating(h) == pc[h] \in {"access", "access_ll", "open", "write"}
Building(h) == pc[h] \in {"clang", "parse", "parse again"}

(* A program has its number to itself: the one that a process creates is no *)
(* other process's, and not among the finished ones.                        *)
OwnNumber ==
  \A h \in Processes : Creating(h) =>
    /\ drawn[h] \in 1..MaxNames /\ current[h] \in 1..created
    /\ \A g \in Processes : /\ current[h] \notin DOMAIN progs[g]
                            /\ Creating(g) /\ g # h => current[g] # current[h]

KnownNumbers ==
  \A h \in Processes : /\ Building(h) => current[h] \in DOMAIN progs[h]
                       /\ DOMAIN progs[h] \subseteq 1..created

(* A name that is nobody else's, or that was opened when another process    *)
(* had passed its .cl: while it has not been opened, while it is opened but *)
(* not written, and once a program has it.                                  *)
FoundName ==
  \A h \in Processes :
    pc[h] \in {"access_ll", "open"} /\ drawn[h] \in DOMAIN cl => drawn[h] \in raced

OpenedName ==
  \A h \in Processes : pc[h] = "write" =>
    /\ drawn[h] \in DOMAIN cl
    /\ \A g \in Processes :
         /\ pc[g] = "write" /\ g # h /\ drawn[g] = drawn[h] => drawn[h] \in raced
         /\ \A p \in DOMAIN progs[g] : progs[g][p].name = drawn[h] => drawn[h] \in raced

Ours(h, p) == progs[h][p].name \notin raced

(* The files and the modules of a program whose name is its own.            *)
FilesOf(h, p) ==
  LET made == progs[h][p]
      parsing == current[h] = p /\ pc[h] \in {"parse", "parse again"}
  IN  /\ made.name \in DOMAIN cl
      /\ parsing => made.name \in DOMAIN ll
      /\ Ours(h, p) =>
           /\ cl[made.name] = p
           /\ parsing => ll[made.name] = p
           /\ parsing /\ pc[h] = "parse again" => made.JIT = p
           /\ made.built => made.JIT = p /\ made.M = p

FilesOfPrograms == \A h \in Processes : \A p \in DOMAIN progs[h] : FilesOf(h, p)

FileInv == TypeOK /\ OwnNumber /\ KnownNumbers /\ FoundName /\ OpenedName /\ FilesOfPrograms

(* Programs that are being created and have no file yet.                    *)
Pending == {current[h] : h \in {g \in Processes : pc[g] \in {"access", "access_ll", "open"}}}

(* Every file that exists was made by a program of its own.                 *)
FilesCounted == Cardinality(DOMAIN cl) + Cardinality(Pending) <= created

Trying(h) == pc[h] = "access" \/ pc[h] = "access_ll"

(* The names a constructor has tried all had a file.                        *)
TriedNames ==
  \A h \in Processes : Trying(h) =>
    /\ count[h] \in 1..Tries
    /\ drawn[h] > Tries - count[h]
    /\ (drawn[h] - (Tries - count[h])) .. (drawn[h] - 1) \subseteq DOMAIN cl

CountInv == FilesCounted /\ TriedNames /\ ReturnsWhileNamesLast

LEMMA ProgramMapType ==
  ASSUME NEW f
  PROVE  f \in ProgramMaps <=> f \in [DOMAIN f -> Program] /\ DOMAIN f \subseteq 1..MaxPrograms
BY DEF ProgramMaps

LEMMA FileInvInit == FilesInit => FileInv
<1> SUFFICES ASSUME FilesInit PROVE FileInv
  OBVIOUS
<1>1. DOMAIN Nobody = {} /\ Nobody \in [{} -> Program] /\ Nobody \in [{} -> Nat]
  BY DEF Nobody
<1>2. Nobody \in ProgramMaps
  BY <1>1, ProgramMapType
<1> HIDE DEF Nobody
<1>3. FilesType /\ CallType
  BY <1>1, TriesAssumption, MaxAssumption DEF FilesInit, FilesType, CallType, PCs
<1>4. ProgramType
  BY <1>2, MaxAssumption DEF FilesInit, ProgramType
<1>5. OwnNumber /\ KnownNumbers /\ FoundName /\ OpenedName /\ FilesOfPrograms
  BY <1>1 DEF FilesInit, OwnNumber, KnownNumbers, FoundName, OpenedName, FilesOfPrograms,
              Creating, Building
<1> QED BY <1>3, <1>4, <1>5 DEF FileInv, TypeOK

(* A step that does not touch a program, its files or its build.            *)
LEMMA FilesKept ==
  ASSUME NEW g \in Processes, NEW q, FilesOf(g, q),
         progs'[g][q] = progs[g][q], UNCHANGED <<cl, ll>>, raced \subseteq raced',
         pc'[g] \in {"parse", "parse again"} /\ current'[g] = q => pc'[g] = pc[g] /\ current[g] = q
  PROVE  FilesOf(g, q)'
BY DEF FilesOf, Ours

(* A step that writes the modules of a program.                             *)
LEMMA FilesParsed ==
  ASSUME NEW g \in Processes, NEW q, FilesOf(g, q), UNCHANGED <<cl, ll, raced>>,
         progs'[g][q].name = progs[g][q].name, pc'[g] # "parse",
         pc'[g] = "parse again" => progs[g][q].name \in DOMAIN ll,
         Ours(g, q) =>
           /\ pc'[g] = "parse again" => ll[progs[g][q].name] = q /\ progs'[g][q].JIT = q
           /\ progs'[g][q].built => progs'[g][q].JIT = q /\ progs'[g][q].M = q
  PROVE  FilesOf(g, q)'
BY DEF FilesOf, Ours

(* A step of one process in which it takes no name, opens no file and       *)
(* finishes no program.                                                     *)
LEMMA NamesKept ==
  ASSUME FileInv, NEW h \in Processes, UNCHANGED <<cl, ll, raced>>,
         pc'[h] \notin {"access_ll", "open", "write"},
         \A g \in Processes :
           /\ g # h => pc'[g] = pc[g] /\ drawn'[g] = drawn[g] /\ current'[g] = current[g]
           /\ DOMAIN progs'[g] \subseteq DOMAIN progs[g]
           /\ \A p \in DOMAIN progs'[g] : progs'[g][p] = progs[g][p],
         pc'[h] \notin {"parse", "parse again"}
  PROVE  FoundName' /\ OpenedName' /\ FilesOfPrograms'
<1>1. FoundName'
  BY DEF FileInv, FoundName
<1>2. OpenedName'
  BY ZenonT(40) DEF FileInv, OpenedName
<1>3. FilesOfPrograms'
  <2> SUFFICES ASSUME NEW g \in Processes, NEW q \in DOMAIN progs'[g]
               PROVE  FilesOf(g, q)'
    BY DEF FilesOfPrograms
  <2>1. FilesOf(g, q) /\ progs'[g][q] = progs[g][q]
    BY DEF FileInv, FilesOfPrograms
  <2>2. pc'[g] \in {"parse", "parse again"} => pc'[g] = pc[g] /\ current'[g] = current[g]
    OBVIOUS
  <2> QED BY <2>1, <2>2, FilesKept
<1> QED BY <1>1, <1>2, <1>3

-----------------------------------------------------------------------------
(* Start, the end of a process, srand.                                      *)
LEMMA StartKeeps ==
  ASSUME FileInv, NEW h \in Processes, Start(h)
  PROVE  FileInv'
<1>1. FilesType' /\ ProgramType'
  BY DEF FileInv, TypeOK, FilesType, ProgramType, Start
<1>2. CallType'
  <2>1. pc' \in [Processes -> PCs]
    BY DEF FileInv, TypeOK, CallType, PCs, Start, Goto
  <2>2. drawn' \in [Processes -> 0..MaxNames]
    BY MaxAssumption DEF FileInv, TypeOK, CallType, Start
  <2>3. count' \in [Processes -> 0..Tries]
    BY TriesAssumption DEF FileInv, TypeOK, CallType, Start
  <2> QED BY <2>1, <2>2, <2>3 DEF CallType
<1>3. /\ pc'[h] = "idle"
      /\ \A g \in Processes : g # h => pc'[g] = pc[g] /\ drawn'[g] = drawn[g]
      /\ UNCHANGED <<cl, ll, created, current, progs, raced>>
  BY DEF FileInv, TypeOK, CallType, Start, Goto
<1>4. OwnNumber' /\ KnownNumbers'
  BY <1>3 DEF FileInv, OwnNumber, KnownNumbers, Creating, Building
<1>5. FoundName' /\ OpenedName' /\ FilesOfPrograms'
  BY <1>3, NamesKept
<1> QED BY <1>1, <1>2, <1>4, <1>5 DEF FileInv, TypeOK

LEMMA StopKeeps ==
  ASSUME FileInv, NEW h \in Processes, Stop(h)
  PROVE  FileInv'
<1>1. DOMAIN Nobody = {} /\ Nobody \in ProgramMaps
  <2>1. DOMAIN Nobody = {} /\ Nobody \in [{} -> Program]
    BY DEF Nobody
  <2> QED BY <2>1, ProgramMapType
<1>2. FilesType'
  BY DEF FileInv, TypeOK, FilesType, Stop
<1>3. CallType'
  <2>1. pc' \in [Processes -> PCs]
    BY DEF FileInv, TypeOK, CallType, PCs, Stop
  <2> QED BY <2>1, TriesAssumption DEF FileInv, TypeOK, CallType, Stop
<1>4. ProgramType'
  BY <1>1 DEF FileInv, TypeOK, ProgramType, Stop, None
<1>5. /\ pc'[h] = "stopped" /\ DOMAIN progs'[h] = {}
      /\ \A g \in Processes : g # h => pc'[g] = pc[g] /\ current'[g] = current[g] /\ progs'[g] = progs[g]
      /\ UNCHANGED <<cl, ll, created, drawn, raced>>
  BY <1>1 DEF FileInv, TypeOK, CallType, ProgramType, Stop
<1>6. OwnNumber' /\ KnownNumbers'
  BY <1>5 DEF FileInv, OwnNumber, KnownNumbers, Creating, Building
<1>7. FoundName' /\ OpenedName' /\ FilesOfPrograms'
  BY <1>5, NamesKept
<1> QED BY <1>2, <1>3, <1>4, <1>6, <1>7 DEF FileInv, TypeOK

LEMMA SeedKeeps ==
  ASSUME FileInv, NEW h \in Processes, Seed(h)
  PROVE  FileInv'
<1>1. FilesType' /\ ProgramType'
  BY DEF FileInv, TypeOK, FilesType, ProgramType, Seed
<1>2. CallType'
  BY MaxAssumption DEF FileInv, TypeOK, CallType, Seed
<1>3. /\ pc'[h] = "idle"
      /\ \A g \in Processes : g # h => drawn'[g] = drawn[g]
      /\ UNCHANGED <<cl, ll, created, pc, current, progs, raced>>
  BY DEF FileInv, TypeOK, CallType, Seed
<1>4. OwnNumber' /\ KnownNumbers'
  BY <1>3 DEF FileInv, OwnNumber, KnownNumbers, Creating, Building
<1>5. FoundName' /\ OpenedName' /\ FilesOfPrograms'
  BY <1>3, NamesKept
<1> QED BY <1>1, <1>2, <1>4, <1>5 DEF FileInv, TypeOK

-----------------------------------------------------------------------------
(* clCreateProgramWithSource.                                               *)
LEMMA CreateKeeps ==
  ASSUME FileInv, NEW h \in Processes, Create(h)
  PROVE  FileInv'
<1>1. FilesType'
  BY DEF FileInv, TypeOK, FilesType, Create
<1>2. CallType'
  <2>1. pc' \in [Processes -> PCs]
    BY DEF FileInv, TypeOK, CallType, PCs, Create, Goto
  <2>2. drawn' \in [Processes -> 0..MaxNames]
    BY MaxAssumption DEF FileInv, TypeOK, CallType, Create, NextName
  <2>3. count' \in [Processes -> 0..Tries]
    BY TriesAssumption DEF FileInv, TypeOK, CallType, Create
  <2> QED BY <2>1, <2>2, <2>3 DEF CallType
<1>3. ProgramType'
  BY MaxAssumption DEF FileInv, TypeOK, ProgramType, Create
<1>4. /\ pc'[h] = "access" /\ drawn'[h] \in 1..MaxNames
      /\ \A g \in Processes : g # h => pc'[g] = pc[g] /\ drawn'[g] = drawn[g]
      /\ UNCHANGED <<cl, ll, progs, raced>>
  BY MaxAssumption DEF FileInv, TypeOK, CallType, Create, Goto, NextName
<1>5. /\ created' = created + 1 /\ current'[h] = created + 1 /\ created \in Nat
      /\ \A g \in Processes : /\ current[g] \in 0..created
                              /\ g # h => current'[g] = current[g]
  BY MaxAssumption DEF FileInv, TypeOK, ProgramType, Create
<1>6. OwnNumber'
  BY <1>4, <1>5 DEF FileInv, OwnNumber, KnownNumbers, Creating
<1>7. KnownNumbers'
  <2>1. 1..created \subseteq 1..created'
    BY <1>5
  <2>2. \A g \in Processes : Building(g)' => Building(g) /\ current'[g] = current[g]
    BY <1>4, <1>5 DEF Building
  <2> QED BY <1>4, <2>1, <2>2 DEF FileInv, KnownNumbers
<1>8. FoundName' /\ OpenedName' /\ FilesOfPrograms'
  BY <1>4, <1>5, NamesKept
<1> QED BY <1>1, <1>2, <1>3, <1>6, <1>7, <1>8 DEF FileInv, TypeOK

LEMMA TryAgainKeeps ==
  ASSUME FileInv, NEW h \in Processes, TryAgain(h)
  PROVE  FileInv'
<1>1. FilesType' /\ ProgramType'
  BY DEF FileInv, TypeOK, FilesType, ProgramType, TryAgain
<1>2. CallType'
  <2>1. pc' \in [Processes -> PCs]
    BY DEF FileInv, TypeOK, CallType, PCs, TryAgain
  <2>2. drawn' \in [Processes -> 0..MaxNames]
    BY MaxAssumption DEF FileInv, TypeOK, CallType, TryAgain, NextName
  <2>3. count' \in [Processes -> 0..Tries]
    BY TriesAssumption DEF FileInv, TypeOK, CallType, TryAgain
  <2> QED BY <2>1, <2>2, <2>3 DEF CallType
<1>3. /\ (pc[h] = "access" \/ pc[h] = "access_ll") /\ pc'[h] = "access" /\ drawn'[h] \in 1..MaxNames
      /\ \A g \in Processes : g # h => pc'[g] = pc[g] /\ drawn'[g] = drawn[g]
      /\ UNCHANGED <<cl, ll, created, current, progs, raced>>
  BY MaxAssumption DEF FileInv, TypeOK, CallType, TryAgain, NextName, Taken
<1>4. OwnNumber' /\ KnownNumbers'
  BY <1>3 DEF FileInv, OwnNumber, KnownNumbers, Creating, Building
<1>5. FoundName' /\ OpenedName' /\ FilesOfPrograms'
  BY <1>3, NamesKept
<1> QED BY <1>1, <1>2, <1>4, <1>5 DEF FileInv, TypeOK

LEMMA GiveUpKeeps ==
  ASSUME FileInv, NEW h \in Processes, GiveUp(h)
  PROVE  FileInv'
<1>1. FilesType' /\ ProgramType'
  BY DEF FileInv, TypeOK, FilesType, ProgramType, GiveUp
<1>2. CallType'
  <2>1. pc' \in [Processes -> PCs]
    BY DEF FileInv, TypeOK, CallType, PCs, GiveUp
  <2>2. drawn' \in [Processes -> 0..MaxNames]
    BY MaxAssumption DEF FileInv, TypeOK, CallType, GiveUp
  <2>3. count' \in [Processes -> 0..Tries]
    BY TriesAssumption DEF FileInv, TypeOK, CallType, GiveUp
  <2> QED BY <2>1, <2>2, <2>3 DEF CallType
<1>3. /\ pc'[h] = "exited"
      /\ \A g \in Processes : g # h => pc'[g] = pc[g]
      /\ UNCHANGED <<cl, ll, created, drawn, current, progs, raced>>
  BY DEF FileInv, TypeOK, CallType, GiveUp
<1>4. OwnNumber' /\ KnownNumbers'
  BY <1>3 DEF FileInv, OwnNumber, KnownNumbers, Creating, Building
<1>5. FoundName' /\ OpenedName' /\ FilesOfPrograms'
  BY <1>3, NamesKept
<1> QED BY <1>1, <1>2, <1>4, <1>5 DEF FileInv, TypeOK

LEMMA FindNoSourceKeeps ==
  ASSUME FileInv, NEW h \in Processes, FindNoSource(h)
  PROVE  FileInv'
<1>1. FilesType' /\ ProgramType'
  BY DEF FileInv, TypeOK, FilesType, ProgramType, FindNoSource
<1>2. CallType'
  BY DEF FileInv, TypeOK, CallType, PCs, FindNoSource, Goto
<1>3. /\ pc[h] = "access" /\ pc'[h] = "access_ll" /\ drawn[h] \notin DOMAIN cl
      /\ \A g \in Processes : g # h => pc'[g] = pc[g]
      /\ UNCHANGED <<cl, ll, created, drawn, current, progs, raced>>
  BY DEF FileInv, TypeOK, CallType, FindNoSource, Goto, Taken
<1>4. OwnNumber' /\ KnownNumbers'
  BY <1>3 DEF FileInv, OwnNumber, KnownNumbers, Creating, Building
<1>5. FoundName' /\ OpenedName'
  BY <1>3 DEF FileInv, FoundName, OpenedName
<1>6. FilesOfPrograms'
  BY <1>3, FilesKept DEF FileInv, FilesOfPrograms
<1> QED BY <1>1, <1>2, <1>4, <1>5, <1>6 DEF FileInv, TypeOK

LEMMA FindNameKeeps ==
  ASSUME FileInv, NEW h \in Processes, FindName(h)
  PROVE  FileInv'
<1>1. FilesType' /\ ProgramType'
  BY DEF FileInv, TypeOK, FilesType, ProgramType, FindName
<1>2. CallType'
  BY DEF FileInv, TypeOK, CallType, PCs, FindName, Goto
<1>3. /\ pc[h] = "access_ll" /\ pc'[h] = "open"
      /\ \A g \in Processes : g # h => pc'[g] = pc[g]
      /\ UNCHANGED <<cl, ll, created, drawn, current, progs, raced>>
  BY DEF FileInv, TypeOK, CallType, FindName, Goto
<1>4. OwnNumber' /\ KnownNumbers'
  BY <1>3 DEF FileInv, OwnNumber, KnownNumbers, Creating, Building
<1>5. FoundName' /\ OpenedName'
  BY <1>3 DEF FileInv, FoundName, OpenedName
<1>6. FilesOfPrograms'
  BY <1>3, FilesKept DEF FileInv, FilesOfPrograms
<1> QED BY <1>1, <1>2, <1>4, <1>5, <1>6 DEF FileInv, TypeOK

LEMMA OpenKeeps ==
  ASSUME FileInv, NEW h \in Processes, Open(h)
  PROVE  FileInv'
<1>1. /\ pc[h] = "open" /\ pc'[h] = "write"
      /\ \A g \in Processes : g # h => pc'[g] = pc[g]
      /\ UNCHANGED <<ll, created, drawn, count, current, progs>>
  BY DEF FileInv, TypeOK, CallType, Open, Goto
<1>a. /\ raced \subseteq raced'
      /\ \A g \in Processes : g # h /\ pc[g] \in {"access_ll", "open"} /\ drawn[g] = drawn[h]
                              => drawn[h] \in raced'
  BY DEF Open, PassedBy
<1>2. /\ DOMAIN cl' = DOMAIN cl \cup {drawn[h]}
      /\ \A n \in DOMAIN cl : n # drawn[h] => cl'[n] = cl[n]
      /\ cl' \in [DOMAIN cl' -> Nat]
  BY DEF FileInv, TypeOK, FilesType, Open, Written, None
<1>3. drawn[h] \in 1..MaxNames
  BY <1>1 DEF FileInv, OwnNumber, Creating
<1>4. FilesType'
  BY <1>1, <1>2, <1>3 DEF FileInv, TypeOK, FilesType
<1>5. CallType' /\ ProgramType'
  BY DEF FileInv, TypeOK, CallType, PCs, ProgramType, Open, Goto
<1>6. OwnNumber' /\ KnownNumbers'
  BY <1>1 DEF FileInv, OwnNumber, KnownNumbers, Creating, Building
<1>7. FoundName'
  BY <1>1, <1>2, <1>a DEF FileInv, FoundName
<1>8. \A g \in Processes : \A p \in DOMAIN progs[g] : FilesOf(g, p) /\ progs[g][p].name \in DOMAIN cl
  BY DEF FileInv, FilesOfPrograms, FilesOf
<1>9. OpenedName'
  <2> SUFFICES ASSUME NEW g \in Processes, pc'[g] = "write"
               PROVE  /\ drawn[g] \in DOMAIN cl'
                      /\ \A k \in Processes :
                           /\ pc'[k] = "write" /\ k # g /\ drawn[k] = drawn[g] => drawn[g] \in raced'
                           /\ \A p \in DOMAIN progs[k] : progs[k][p].name = drawn[g] => drawn[g] \in raced'
    BY <1>1 DEF OpenedName
  <2>1. CASE g = h
    BY <2>1, <1>1, <1>2, <1>a, <1>8 DEF FileInv, FoundName, OpenedName
  <2>2. CASE g # h
    BY <2>2, <1>1, <1>2, <1>a DEF FileInv, FoundName, OpenedName
  <2> QED BY <2>1, <2>2
<1>10. FilesOfPrograms'
  <2> SUFFICES ASSUME NEW g \in Processes, NEW q \in DOMAIN progs[g]
               PROVE  FilesOf(g, q)'
    BY <1>1 DEF FilesOfPrograms
  <2>1. Ours(g, q) => progs[g][q].name # drawn[h]
    BY <1>1, <1>8 DEF FileInv, FoundName, Ours
  <2>2. pc'[g] \in {"parse", "parse again"} => pc[g] = pc'[g]
    BY <1>1
  <2> QED BY <1>1, <1>2, <1>a, <1>8, <2>1, <2>2 DEF FilesOf, Ours
<1> QED BY <1>4, <1>5, <1>6, <1>7, <1>9, <1>10 DEF FileInv, TypeOK

LEMMA AddStringsKeeps ==
  ASSUME FileInv, NEW h \in Processes, AddStrings(h)
  PROVE  FileInv'
<1> DEFINE p == current[h]
           made == [name |-> drawn[h], JIT |-> None, M |-> None, built |-> FALSE]
<1>1. /\ pc[h] = "write" /\ pc'[h] = "idle"
      /\ \A g \in Processes : g # h => pc'[g] = pc[g]
      /\ UNCHANGED <<ll, created, drawn, count, current, raced>>
  BY DEF FileInv, TypeOK, CallType, AddStrings, Goto
<1>2. /\ drawn[h] \in DOMAIN cl /\ drawn[h] \in 1..MaxNames /\ p \in 1..created
      /\ \A g \in Processes : p \notin DOMAIN progs[g]
  BY <1>1 DEF FileInv, OpenedName, OwnNumber, Creating
<1>3. /\ DOMAIN cl' = DOMAIN cl
      /\ cl'[drawn[h]] = p
      /\ \A n \in DOMAIN cl : n # drawn[h] => cl'[n] = cl[n]
      /\ cl' \in [DOMAIN cl -> Nat]
  BY <1>2 DEF FileInv, TypeOK, FilesType, AddStrings, Written
<1>4. /\ progs'[h] = With(progs[h], p, made)
      /\ \A g \in Processes : g # h => progs'[g] = progs[g]
  BY DEF FileInv, TypeOK, ProgramType, AddStrings
<1>5. progs[h] \in [DOMAIN progs[h] -> Program] /\ DOMAIN progs[h] \subseteq 1..MaxPrograms
  BY ProgramMapType DEF FileInv, TypeOK, ProgramType
<1>6. made \in Program /\ made.name = drawn[h] /\ made.built = FALSE
  BY <1>2 DEF Program, None
<1> HIDE DEF made
<1>7. /\ DOMAIN progs'[h] = DOMAIN progs[h] \cup {p}
      /\ progs'[h][p] = made
      /\ \A q \in DOMAIN progs[h] : progs'[h][q] = progs[h][q]
      /\ progs'[h] \in [DOMAIN progs'[h] -> Program]
  BY <1>2, <1>4, <1>5, <1>6 DEF With
<1>8. FilesType'
  BY <1>1, <1>3 DEF FileInv, TypeOK, FilesType
<1>9. CallType'
  BY DEF FileInv, TypeOK, CallType, PCs, AddStrings, Goto
<1>10. ProgramType'
  <2>1. created \in 0..MaxPrograms
    BY DEF FileInv, TypeOK, ProgramType
  <2>2. DOMAIN progs'[h] \subseteq 1..MaxPrograms
    BY <1>2, <1>5, <1>7, <2>1, MaxAssumption
  <2>3. progs'[h] \in ProgramMaps
    BY <1>7, <2>2, ProgramMapType
  <2> QED BY <1>1, <2>3 DEF FileInv, TypeOK, ProgramType, AddStrings
<1>11. OwnNumber'
  <2>1. \A g \in Processes : g # h /\ Creating(g) => current[g] # p
    BY <1>1 DEF FileInv, OwnNumber, Creating
  <2> QED BY <1>1, <1>4, <1>7, <2>1 DEF FileInv, OwnNumber, Creating
<1>12. KnownNumbers'
  BY <1>1, <1>2, <1>4, <1>7 DEF FileInv, KnownNumbers, Building
<1>13. FoundName'
  BY <1>1, <1>3 DEF FileInv, FoundName
<1>14. OpenedName'
  <2> SUFFICES ASSUME NEW g \in Processes, pc'[g] = "write"
               PROVE  /\ drawn[g] \in DOMAIN cl
                      /\ \A k \in Processes :
                           /\ pc'[k] = "write" /\ k # g /\ drawn[k] = drawn[g] => drawn[g] \in raced
                           /\ \A q \in DOMAIN progs'[k] : progs'[k][q].name = drawn[g] => drawn[g] \in raced
    BY <1>1, <1>3 DEF OpenedName
  <2>1. g # h /\ pc[g] = "write"
    BY <1>1
  <2>2. drawn[h] = drawn[g] => drawn[g] \in raced
    BY <2>1, <1>1 DEF FileInv, OpenedName
  <2>3. \A q \in DOMAIN progs'[h] : progs'[h][q].name = drawn[g] => drawn[g] \in raced
    BY <2>1, <2>2, <1>6, <1>7 DEF FileInv, OpenedName
  <2> QED BY <2>1, <2>3, <1>1, <1>4 DEF FileInv, OpenedName
<1>15. FilesOfPrograms'
  <2> SUFFICES ASSUME NEW g \in Processes, NEW q \in DOMAIN progs'[g]
               PROVE  FilesOf(g, q)'
    BY DEF FilesOfPrograms
  <2>1. CASE g = h /\ q = p
    BY <2>1, <1>1, <1>2, <1>3, <1>6, <1>7 DEF FilesOf, Ours
  <2>2. CASE ~(g = h /\ q = p)
    <3>1. q \in DOMAIN progs[g] /\ progs'[g][q] = progs[g][q]
      BY <2>2, <1>4, <1>7
    <3>2. FilesOf(g, q)
      BY <3>1 DEF FileInv, FilesOfPrograms
    <3>3. progs[g][q].name \notin raced => progs[g][q].name # drawn[h]
      BY <3>1, <1>1 DEF FileInv, OpenedName
    <3>4. pc'[g] \in {"parse", "parse again"} => pc[g] = pc'[g]
      BY <1>1
    <3> QED BY <3>1, <3>2, <3>3, <3>4, <1>1, <1>3 DEF FilesOf, Ours
  <2> QED BY <2>1, <2>2
<1> QED BY <1>8, <1>9, <1>10, <1>11, <1>12, <1>13, <1>14, <1>15 DEF FileInv, TypeOK

-----------------------------------------------------------------------------
(* clBuildProgram and clReleaseProgram.                                     *)
LEMMA BuildKeeps ==
  ASSUME FileInv, NEW h \in Processes, Build(h)
  PROVE  FileInv'
<1>1. PICK p \in DOMAIN progs[h] : current' = [current EXCEPT ![h] = p]
  BY DEF Build
<1>2. /\ pc'[h] = "clang"
      /\ \A g \in Processes : g # h => pc'[g] = pc[g]
      /\ UNCHANGED <<cl, ll, created, drawn, count, progs, raced>>
  BY DEF FileInv, TypeOK, CallType, Build, Goto
<1>3. p \in 1..created
  BY DEF FileInv, KnownNumbers
<1>4. /\ current'[h] = p
      /\ \A g \in Processes : g # h => current'[g] = current[g]
      /\ current' \in [Processes -> 0..created]
  BY <1>1, <1>3 DEF FileInv, TypeOK, ProgramType
<1>5. FilesType' /\ ProgramType'
  BY <1>2, <1>4 DEF FileInv, TypeOK, FilesType, ProgramType
<1>6. CallType'
  BY DEF FileInv, TypeOK, CallType, PCs, Build, Goto
<1>7. OwnNumber' /\ KnownNumbers'
  BY <1>2, <1>4 DEF FileInv, OwnNumber, KnownNumbers, Creating, Building
<1>8. FoundName' /\ OpenedName' /\ FilesOfPrograms'
  BY <1>2, <1>4, NamesKept
<1> QED BY <1>5, <1>6, <1>7, <1>8 DEF FileInv, TypeOK

LEMMA ClangKeeps ==
  ASSUME FileInv, NEW h \in Processes, Clang(h)
  PROVE  FileInv'
<1> DEFINE n == File(h)
           p == current[h]
<1>1. /\ pc[h] = "clang" /\ pc'[h] = "parse"
      /\ \A g \in Processes : g # h => pc'[g] = pc[g]
      /\ UNCHANGED <<cl, created, drawn, count, current, progs, raced>>
  BY DEF FileInv, TypeOK, CallType, Clang, Goto
<1>2. p \in DOMAIN progs[h] /\ n = progs[h][p].name
  BY <1>1 DEF FileInv, KnownNumbers, Building, File
<1>3. FilesOf(h, p) /\ n \in DOMAIN cl
  <2>1. FilesOf(h, p)
    BY <1>2 DEF FileInv, FilesOfPrograms
  <2> QED BY <1>2, <2>1 DEF FilesOf
<1>4. /\ DOMAIN ll' = DOMAIN ll \cup {n}
      /\ ll'[n] = cl[n]
      /\ \A m \in DOMAIN ll : m # n => ll'[m] = ll[m]
      /\ ll' \in [DOMAIN ll' -> Nat]
  BY <1>3 DEF FileInv, TypeOK, FilesType, Clang, Written
<1> HIDE DEF n, p
<1>5. FilesType' /\ ProgramType'
  BY <1>1, <1>3, <1>4 DEF FileInv, TypeOK, FilesType, ProgramType
<1>6. CallType'
  BY DEF FileInv, TypeOK, CallType, PCs, Clang, Goto
<1>7. OwnNumber' /\ KnownNumbers'
  BY <1>1 DEF FileInv, OwnNumber, KnownNumbers, Creating, Building
<1>8. FoundName' /\ OpenedName'
  BY <1>1 DEF FileInv, FoundName, OpenedName
<1>9. FilesOfPrograms'
  <2> SUFFICES ASSUME NEW g \in Processes, NEW q \in DOMAIN progs[g]
               PROVE  FilesOf(g, q)'
    BY <1>1 DEF FilesOfPrograms
  <2>1. FilesOf(g, q)
    BY DEF FileInv, FilesOfPrograms
  <2>2. CASE g = h
    BY <2>1, <2>2, <1>1, <1>2, <1>4 DEF FilesOf, Ours, p
  <2>3. CASE g # h
    <3>1. pc'[g] = pc[g]
      BY <2>3, <1>1
    <3> QED BY <2>1, <3>1, <1>1, <1>4 DEF FilesOf, Ours
  <2> QED BY <2>2, <2>3
<1> QED BY <1>5, <1>6, <1>7, <1>8, <1>9 DEF FileInv, TypeOK

LEMMA EntryReplaced ==
  ASSUME NEW D, NEW S, NEW f \in [D -> S], NEW p \in D, NEW x \in S
  PROVE  LET g == [f EXCEPT ![p] = x]
         IN  /\ g \in [D -> S] /\ DOMAIN g = D /\ g[p] = x
             /\ \A q \in D : q # p => g[q] = f[q]
OBVIOUS

(* What a build writes into one program.                                    *)
LEMMA ModuleKeeps ==
  ASSUME FileInv, NEW h \in Processes, NEW new \in Program, NEW to \in {"parse again", "idle"},
         Building(h), new.name = File(h),
         pc' = [pc EXCEPT ![h] = to],
         progs' = [progs EXCEPT ![h] = [@ EXCEPT ![current[h]] = new]],
         UNCHANGED <<cl, ll, created, drawn, count, current, raced>>,
         Ours(h, current[h]) /\ new.built => new.JIT = current[h] /\ new.M = current[h],
         to = "parse again" =>
           /\ new.name \in DOMAIN ll
           /\ Ours(h, current[h]) => ll[new.name] = current[h] /\ new.JIT = current[h]
  PROVE  FileInv'
<1> DEFINE p == current[h]
<1>1. p \in DOMAIN progs[h] /\ File(h) = progs[h][p].name
  BY DEF FileInv, KnownNumbers, File
<1>2. progs[h] \in [DOMAIN progs[h] -> Program] /\ DOMAIN progs[h] \subseteq 1..MaxPrograms
  BY ProgramMapType DEF FileInv, TypeOK, ProgramType
<1>3. /\ \A g \in Processes : g # h => progs'[g] = progs[g]
      /\ progs'[h] = [progs[h] EXCEPT ![p] = new]
  BY DEF FileInv, TypeOK, ProgramType
<1>4. /\ progs'[h] \in [DOMAIN progs[h] -> Program]
      /\ DOMAIN progs'[h] = DOMAIN progs[h]
      /\ progs'[h][p] = new
      /\ \A q \in DOMAIN progs[h] : q # p => progs'[h][q] = progs[h][q]
  <2> DEFINE g == [progs[h] EXCEPT ![p] = new]
  <2>1. /\ g \in [DOMAIN progs[h] -> Program] /\ DOMAIN g = DOMAIN progs[h] /\ g[p] = new
        /\ \A q \in DOMAIN progs[h] : q # p => g[q] = progs[h][q]
    BY <1>1, <1>2, EntryReplaced
  <2> QED BY <1>3, <2>1
<1> HIDE DEF p
<1>5. \A g \in Processes : DOMAIN progs'[g] = DOMAIN progs[g]
  BY <1>3, <1>4
<1>6. \A g \in Processes : \A q \in DOMAIN progs[g] : progs'[g][q].name = progs[g][q].name
  BY <1>1, <1>3, <1>4
<1>7. pc'[h] = to /\ \A g \in Processes : g # h => pc'[g] = pc[g]
  BY DEF FileInv, TypeOK, CallType
<1>8. FilesType'
  BY DEF FileInv, TypeOK, FilesType
<1>9. CallType'
  BY DEF FileInv, TypeOK, CallType, PCs
<1>10. ProgramType'
  <2>1. progs'[h] \in ProgramMaps
    BY <1>2, <1>4, ProgramMapType
  <2> QED BY <2>1, <1>3 DEF FileInv, TypeOK, ProgramType
<1>11. OwnNumber'
  BY <1>5, <1>7 DEF FileInv, OwnNumber, Creating
<1>12. KnownNumbers'
  BY <1>5, <1>7 DEF FileInv, KnownNumbers, Building
<1>13. FoundName'
  BY <1>7 DEF FileInv, FoundName
<1>14. OpenedName'
  <2> SUFFICES ASSUME NEW g \in Processes, pc'[g] = "write", NEW k \in Processes
               PROVE  /\ drawn[g] \in DOMAIN cl
                      /\ pc'[k] = "write" /\ k # g /\ drawn[k] = drawn[g] => drawn[g] \in raced
                      /\ \A q \in DOMAIN progs[k] : progs'[k][q].name = drawn[g] => drawn[g] \in raced
    BY <1>5 DEF OpenedName
  <2>1. pc[g] = "write" /\ (pc'[k] = "write" => pc[k] = "write")
    BY <1>7
  <2> QED BY <2>1, <1>6 DEF FileInv, OpenedName
<1>15. FilesOfPrograms'
  <2> SUFFICES ASSUME NEW g \in Processes, NEW q \in DOMAIN progs[g]
               PROVE  FilesOf(g, q)'
    BY <1>5 DEF FilesOfPrograms
  <2>1. FilesOf(g, q)
    BY DEF FileInv, FilesOfPrograms
  <2>2. CASE g = h /\ q = p
    BY <2>1, <2>2, <1>1, <1>4, <1>7, FilesParsed, ZenonT(40) DEF p
  <2>3. CASE g = h /\ q # p
    BY <2>1, <2>3, <1>4, FilesKept DEF p
  <2>4. CASE g # h
    <3>1. progs'[g] = progs[g] /\ pc'[g] = pc[g]
      BY <2>4, <1>3, <1>7
    <3> QED BY <2>1, <3>1, FilesKept
  <2> QED BY <2>2, <2>3, <2>4
<1> QED BY <1>8, <1>9, <1>10, <1>11, <1>12, <1>13, <1>14, <1>15 DEF FileInv, TypeOK

(* The program that a process builds, and the file it parses.               *)
LEMMA ParsedFile ==
  ASSUME FileInv, NEW h \in Processes, pc[h] \in {"parse", "parse again"}
  PROVE  /\ Building(h) /\ current[h] \in DOMAIN progs[h]
         /\ progs[h][current[h]] \in Program
         /\ File(h) = progs[h][current[h]].name
         /\ FilesOf(h, current[h])
         /\ File(h) \in DOMAIN ll /\ ll[File(h)] \in Nat
         /\ Ours(h, current[h]) => ll[File(h)] = current[h]
<1>1. Building(h) /\ current[h] \in DOMAIN progs[h] /\ File(h) = progs[h][current[h]].name
  BY DEF FileInv, KnownNumbers, Building, File
<1>2. progs[h][current[h]] \in Program
  BY <1>1, ProgramMapType DEF FileInv, TypeOK, ProgramType
<1>3. FilesOf(h, current[h])
  BY <1>1 DEF FileInv, FilesOfPrograms
<1>4. File(h) \in DOMAIN ll /\ (Ours(h, current[h]) => ll[File(h)] = current[h])
  BY <1>1, <1>3 DEF FilesOf
<1>5. ll[File(h)] \in Nat
  BY <1>4 DEF FileInv, TypeOK, FilesType
<1> QED BY <1>1, <1>2, <1>3, <1>4, <1>5

LEMMA ParseForJITKeeps ==
  ASSUME FileInv, NEW h \in Processes, ParseForJIT(h)
  PROVE  FileInv'
<1> DEFINE p == current[h]
           old == progs[h][p]
           new == [name |-> old.name, JIT |-> ll[File(h)], M |-> old.M, built |-> old.built]
<1>1. /\ pc[h] = "parse" /\ pc' = [pc EXCEPT ![h] = "parse again"]
      /\ UNCHANGED <<cl, ll, created, drawn, count, current, raced>>
  BY DEF ParseForJIT, Goto
<1>2. /\ Building(h) /\ p \in DOMAIN progs[h] /\ old \in Program /\ File(h) = old.name
      /\ FilesOf(h, p) /\ File(h) \in DOMAIN ll /\ ll[File(h)] \in Nat
      /\ Ours(h, p) => ll[File(h)] = p
  BY <1>1, ParsedFile
<1>3. /\ new \in Program /\ new.name = File(h) /\ new.built = old.built /\ new.M = old.M
      /\ new.JIT = ll[File(h)]
  BY <1>2 DEF Program
<1>4. progs' = [progs EXCEPT ![h] = [@ EXCEPT ![p] = new]]
  <2>1. new = [old EXCEPT !.JIT = ll[File(h)]]
    BY <1>2 DEF Program
  <2> QED BY <2>1 DEF ParseForJIT
<1>5. Ours(h, p) /\ new.built => new.JIT = p /\ new.M = p
  BY <1>2, <1>3 DEF FilesOf
<1> HIDE DEF new, old
<1> QED BY <1>1, <1>2, <1>3, <1>4, <1>5, ModuleKeeps

LEMMA ParseForMKeeps ==
  ASSUME FileInv, NEW h \in Processes, ParseForM(h)
  PROVE  FileInv'
<1> DEFINE p == current[h]
           old == progs[h][p]
           new == [old EXCEPT !.M = ll[File(h)], !.built = TRUE]
<1>1. /\ pc[h] = "parse again" /\ pc' = [pc EXCEPT ![h] = "idle"]
      /\ UNCHANGED <<cl, ll, created, drawn, count, current, raced>>
  BY DEF ParseForM, Goto
<1>2. /\ Building(h) /\ p \in DOMAIN progs[h] /\ old \in Program /\ File(h) = old.name
      /\ FilesOf(h, p) /\ File(h) \in DOMAIN ll /\ ll[File(h)] \in Nat
      /\ Ours(h, p) => ll[File(h)] = p
  BY <1>1, ParsedFile
<1>3. /\ new \in Program /\ new.name = File(h) /\ new.JIT = old.JIT
      /\ new.M = ll[File(h)]
  BY <1>2 DEF Program
<1>4. progs' = [progs EXCEPT ![h] = [@ EXCEPT ![p] = new]]
  <2>1. progs[h] \in [DOMAIN progs[h] -> Program]
    BY ProgramMapType DEF FileInv, TypeOK, ProgramType
  <2> QED BY <1>2, <2>1 DEF ParseForM, FileInv, TypeOK, ProgramType
<1>5. Ours(h, p) => new.JIT = p /\ new.M = p
  BY <1>1, <1>2, <1>3 DEF FilesOf
<1> HIDE DEF new, old
<1> QED BY <1>1, <1>2, <1>3, <1>4, <1>5, ModuleKeeps

LEMMA ReleaseKeeps ==
  ASSUME FileInv, NEW h \in Processes, Release(h)
  PROVE  FileInv'
<1>1. PICK p \in DOMAIN progs[h] :
        progs' = [progs EXCEPT ![h] = [q \in DOMAIN @ \ {p} |-> @[q]]]
  BY DEF Release
<1>2. pc[h] = "idle" /\ UNCHANGED <<cl, ll, created, pc, drawn, count, current, raced>>
  BY DEF Release
<1>3. /\ \A g \in Processes : g # h => progs'[g] = progs[g]
      /\ progs'[h] = [q \in DOMAIN progs[h] \ {p} |-> progs[h][q]]
  BY <1>1 DEF FileInv, TypeOK, ProgramType
<1>4. \A g \in Processes : /\ DOMAIN progs'[g] \subseteq DOMAIN progs[g]
                           /\ \A q \in DOMAIN progs'[g] : progs'[g][q] = progs[g][q]
  BY <1>3
<1>5. FilesType' /\ CallType'
  BY <1>2 DEF FileInv, TypeOK, FilesType, CallType
<1>6. ProgramType'
  <2>1. progs[h] \in [DOMAIN progs[h] -> Program] /\ DOMAIN progs[h] \subseteq 1..MaxPrograms
    BY ProgramMapType DEF FileInv, TypeOK, ProgramType
  <2>2. progs'[h] \in [DOMAIN progs'[h] -> Program] /\ DOMAIN progs'[h] \subseteq 1..MaxPrograms
    BY <1>3, <2>1
  <2>3. progs'[h] \in ProgramMaps
    BY <2>2, ProgramMapType
  <2> QED BY <1>1, <1>2, <1>3, <2>3 DEF FileInv, TypeOK, ProgramType
<1>7. OwnNumber'
  BY <1>2, <1>4 DEF FileInv, OwnNumber, Creating
<1>8. KnownNumbers'
  <2>1. \A g \in Processes : Building(g) => g # h
    BY <1>2 DEF Building
  <2> QED BY <1>2, <1>3, <1>4, <2>1 DEF FileInv, KnownNumbers, Building
<1>9. FoundName' /\ OpenedName' /\ FilesOfPrograms'
  BY <1>2, <1>4, NamesKept
<1> QED BY <1>5, <1>6, <1>7, <1>8, <1>9 DEF FileInv, TypeOK

LEMMA FileInvStep ==
  ASSUME FileInv, [FilesNext]_fileVars
  PROVE  FileInv'
<1>1. CASE FilesNext
  BY <1>1, StartKeeps, StopKeeps, SeedKeeps, CreateKeeps, TryAgainKeeps, GiveUpKeeps, FindNoSourceKeeps,
     FindNameKeeps, OpenKeeps, AddStringsKeeps, BuildKeeps, ClangKeeps, ParseForJITKeeps, ParseForMKeeps,
     ReleaseKeeps
     DEF FilesNext, CreateStep, CompileStep
<1>2. CASE UNCHANGED fileVars
  <2>1. TypeOK'
    BY <1>2 DEF fileVars, FileInv, TypeOK, FilesType, CallType, ProgramType
  <2>2. OwnNumber' /\ KnownNumbers'
    BY <1>2 DEF fileVars, FileInv, OwnNumber, KnownNumbers, Creating, Building
  <2>3. FoundName' /\ OpenedName'
    BY <1>2 DEF fileVars, FileInv, FoundName, OpenedName
  <2>4. FilesOfPrograms'
    BY <1>2, FilesKept DEF fileVars, FileInv, FilesOfPrograms
  <2> QED BY <2>1, <2>2, <2>3, <2>4 DEF FileInv
<1> QED BY <1>1, <1>2

LEMMA FileInvHolds == FilesSpec => []FileInv
<1> QED BY FileInvInit, FileInvStep, PTL DEF FilesSpec

(* A program that has been built runs, and names its kernels from, its own  *)
(* source, unless one process opened its file when another one had found    *)
(* that there is no such .cl, and had not opened it yet.                    *)
THEOREM BuiltFromItsSourceHolds == FilesSpec => []BuiltFromItsSource
<1>1. FileInv => BuiltFromItsSource
  BY DEF FileInv, FilesOfPrograms, FilesOf, Ours, BuiltFromItsSource
<1> QED BY <1>1, FileInvHolds, PTL

-----------------------------------------------------------------------------
(* The names that are left.  A program that is being created, and has no    *)
(* file yet, is counted apart from the programs whose files exist.          *)
LEMMA CountsFinite ==
  ASSUME FileInv
  PROVE  /\ IsFiniteSet(DOMAIN cl) /\ Cardinality(DOMAIN cl) \in Nat
         /\ IsFiniteSet(Pending) /\ Cardinality(Pending) \in Nat
         /\ created \in Nat
<1>1. DOMAIN cl \subseteq 1..MaxNames /\ created \in 0..MaxPrograms
  BY DEF FileInv, TypeOK, FilesType, ProgramType
<1>2. Pending \subseteq 1..created
  BY DEF FileInv, OwnNumber, Creating, Pending
<1>3. IsFiniteSet(1..MaxNames) /\ IsFiniteSet(1..created) /\ created \in Nat
  BY <1>1, MaxAssumption, FS_Interval
<1>4. IsFiniteSet(DOMAIN cl) /\ IsFiniteSet(Pending)
  BY <1>1, <1>2, <1>3, FS_Subset
<1> QED BY <1>3, <1>4, FS_CardinalityType

LEMMA CountInvInit == FilesInit => CountInv
<1> SUFFICES ASSUME FilesInit PROVE CountInv
  OBVIOUS
<1>1. DOMAIN cl = {} /\ Pending = {} /\ created = 0
  BY DEF FilesInit, Nobody, Pending
<1>2. FilesCounted
  BY <1>1, FS_EmptySet DEF FilesCounted
<1>3. TriedNames /\ ReturnsWhileNamesLast
  BY DEF FilesInit, TriedNames, Trying, ReturnsWhileNamesLast
<1> QED BY <1>2, <1>3 DEF CountInv

(* A step that creates no program, makes no file and gives no name up.      *)
LEMMA CountKept ==
  ASSUME FileInv, FileInv', CountInv, NEW h \in Processes,
         DOMAIN cl' = DOMAIN cl, created' = created,
         pc'[h] \notin {"access", "exited"},
         pc'[h] \in {"access_ll", "open"} =>
           /\ (pc[h] = "access" \/ pc[h] = "access_ll") /\ current'[h] = current[h]
           /\ count'[h] = count[h] /\ drawn'[h] = drawn[h],
         \A g \in Processes : g # h => /\ pc'[g] = pc[g] /\ drawn'[g] = drawn[g]
                                      /\ count'[g] = count[g] /\ current'[g] = current[g]
  PROVE  CountInv'
<1>1. Pending' \subseteq Pending
  BY DEF Pending
<1>2. Cardinality(Pending') <= Cardinality(Pending)
  BY <1>1, CountsFinite, FS_Subset
<1>3. FilesCounted'
  <2>1. Cardinality(Pending') \in Nat
    BY <1>1, CountsFinite, FS_Subset, FS_CardinalityType
  <2> QED BY <1>2, <2>1, CountsFinite DEF CountInv, FilesCounted
<1>4. TriedNames' /\ ReturnsWhileNamesLast'
  BY DEF CountInv, TriedNames, Trying, ReturnsWhileNamesLast
<1> QED BY <1>3, <1>4 DEF CountInv

LEMMA CreateCounts ==
  ASSUME FileInv, CountInv, NEW h \in Processes, Create(h)
  PROVE  CountInv'
<1>1. /\ pc[h] = "idle" /\ pc'[h] = "access" /\ drawn[h] \in Nat /\ drawn'[h] = drawn[h] + 1
      /\ count'[h] = Tries
      /\ \A g \in Processes : g # h => /\ pc'[g] = pc[g] /\ drawn'[g] = drawn[g] /\ count'[g] = count[g]
      /\ cl' = cl
  BY MaxAssumption DEF FileInv, TypeOK, CallType, Create, Goto, NextName
<1>2. /\ created' = created + 1 /\ current'[h] = created + 1
      /\ \A g \in Processes : g # h => current'[g] = current[g]
  BY DEF FileInv, TypeOK, ProgramType, Create
<1>3. FilesCounted'
  <2>1. Pending' = Pending \cup {created + 1}
    BY <1>1, <1>2 DEF Pending
  <2>2. Cardinality(Pending') <= Cardinality(Pending) + 1 /\ Cardinality(Pending') \in Nat
    <3> DEFINE S == Pending
    <3>1. IsFiniteSet(S) /\ Cardinality(S) \in Nat
      BY CountsFinite
    <3> HIDE DEF S
    <3>2. /\ IsFiniteSet(S \cup {created + 1})
          /\ Cardinality(S \cup {created + 1}) <= Cardinality(S) + 1
      BY <3>1, FS_AddElement
    <3>3. Cardinality(S \cup {created + 1}) \in Nat
      BY <3>2, FS_CardinalityType
    <3> QED BY <2>1, <3>2, <3>3 DEF S
  <2> QED BY <1>1, <1>2, <2>2, CountsFinite DEF CountInv, FilesCounted
<1>4. TriedNames'
  <2>1. (drawn'[h] - (Tries - Tries)) .. (drawn'[h] - 1) = {} /\ drawn'[h] > Tries - Tries
    BY <1>1, TriesAssumption
  <2> QED BY <1>1, <2>1, TriesAssumption DEF CountInv, TriedNames, Trying
<1>5. ReturnsWhileNamesLast'
  BY <1>1, <1>2, CountsFinite, TriesAssumption DEF CountInv, ReturnsWhileNamesLast
<1> QED BY <1>3, <1>4, <1>5 DEF CountInv

LEMMA TryAgainCounts ==
  ASSUME FileInv, CountInv, NEW h \in Processes, TryAgain(h)
  PROVE  CountInv'
<1>1. /\ (pc[h] = "access" \/ pc[h] = "access_ll") /\ pc'[h] = "access"
      /\ drawn[h] \in Nat /\ drawn'[h] = drawn[h] + 1
      /\ count[h] > 1 /\ count'[h] = count[h] - 1
      /\ \A g \in Processes : g # h => pc'[g] = pc[g] /\ drawn'[g] = drawn[g] /\ count'[g] = count[g]
      /\ UNCHANGED <<cl, created, current>>
  BY MaxAssumption DEF FileInv, TypeOK, CallType, TryAgain, NextName, Taken
<1>2. drawn[h] \in DOMAIN cl
  BY DEF FileInv, TypeOK, FilesType, TryAgain, Taken
<1>3. FilesCounted'
  BY <1>1, ZenonT(40) DEF CountInv, FilesCounted, Pending
<1>4. TriedNames'
  <2>1. /\ count[h] \in 1..Tries /\ drawn[h] > Tries - count[h]
        /\ (drawn[h] - (Tries - count[h])) .. (drawn[h] - 1) \subseteq DOMAIN cl
    BY <1>1 DEF CountInv, TriedNames, Trying
  <2>2. count'[h] \in 1..Tries /\ drawn'[h] > Tries - count'[h]
    BY <1>1, <2>1, TriesAssumption
  <2>3. (drawn'[h] - (Tries - count'[h])) .. (drawn'[h] - 1)
          \subseteq ((drawn[h] - (Tries - count[h])) .. (drawn[h] - 1)) \cup {drawn[h]}
    BY <1>1, <2>1, TriesAssumption
  <2> QED BY <1>1, <1>2, <2>1, <2>2, <2>3 DEF CountInv, TriedNames, Trying
<1>5. ReturnsWhileNamesLast'
  BY <1>1 DEF CountInv, ReturnsWhileNamesLast
<1> QED BY <1>3, <1>4, <1>5 DEF CountInv

(* The names tried all have files, and the program that finds no name has   *)
(* none: one program more than names were tried.                            *)
LEMMA GiveUpCounts ==
  ASSUME FileInv, CountInv, NEW h \in Processes, GiveUp(h)
  PROVE  CountInv'
<1>1. /\ (pc[h] = "access" \/ pc[h] = "access_ll") /\ pc'[h] = "exited" /\ count[h] = 1 /\ drawn[h] \in Nat
      /\ \A g \in Processes : g # h => pc'[g] = pc[g] /\ count'[g] = count[g]
      /\ UNCHANGED <<cl, created, current, drawn>>
  BY MaxAssumption DEF FileInv, TypeOK, CallType, GiveUp, Taken
<1>2. drawn[h] \in DOMAIN cl
  BY DEF FileInv, TypeOK, FilesType, GiveUp, Taken
<1>3. FilesCounted'
  <2>1. Pending' \subseteq Pending
    BY <1>1 DEF Pending
  <2>2. Cardinality(Pending') <= Cardinality(Pending) /\ Cardinality(Pending') \in Nat
    BY <2>1, CountsFinite, FS_Subset, FS_CardinalityType
  <2> QED BY <1>1, <2>2, CountsFinite DEF CountInv, FilesCounted
<1>4. TriedNames'
  BY <1>1 DEF CountInv, TriedNames, Trying
<1>5. created > Tries
  <2>1. drawn[h] > Tries - 1 /\ (drawn[h] - (Tries - 1)) .. (drawn[h] - 1) \subseteq DOMAIN cl
    BY <1>1 DEF CountInv, TriedNames, Trying
  <2> DEFINE Tried == (drawn[h] - (Tries - 1)) .. drawn[h]
  <2>2. Tried \subseteq DOMAIN cl
    BY <1>1, <1>2, <2>1, TriesAssumption
  <2>3. Cardinality(Tried) = Tries
    BY <1>1, FS_Interval, TriesAssumption
  <2>4. Cardinality(DOMAIN cl) >= Tries
    BY <2>2, <2>3, CountsFinite, FS_Subset
  <2>5. Pending # {}
    BY <1>1 DEF Pending
  <2>6. Cardinality(Pending) >= 1
    BY <2>5, CountsFinite, FS_EmptySet
  <2> QED BY <2>4, <2>6, CountsFinite, TriesAssumption DEF CountInv, FilesCounted
<1>6. ReturnsWhileNamesLast'
  BY <1>1, <1>5 DEF ReturnsWhileNamesLast
<1> QED BY <1>3, <1>4, <1>6 DEF CountInv

LEMMA OpenCounts ==
  ASSUME FileInv, CountInv, NEW h \in Processes, Open(h)
  PROVE  CountInv'
<1>1. /\ pc[h] = "open" /\ pc'[h] = "write"
      /\ \A g \in Processes : g # h => pc'[g] = pc[g]
      /\ UNCHANGED <<created, drawn, count, current>>
  BY DEF FileInv, TypeOK, CallType, Open, Goto
<1>2. DOMAIN cl' = DOMAIN cl \cup {drawn[h]}
  BY DEF Open, Written
<1>3. current[h] \in Pending /\ Pending' = Pending \ {current[h]}
  <2>1. \A g \in Processes : g # h /\ pc[g] \in {"access", "access_ll", "open"} => current[g] # current[h]
    BY <1>1 DEF FileInv, OwnNumber, Creating
  <2> QED BY <1>1, <2>1 DEF Pending
<1>4. Cardinality(Pending') = Cardinality(Pending) - 1
  BY <1>3, CountsFinite, FS_RemoveElement
<1>5. Cardinality(DOMAIN cl') <= Cardinality(DOMAIN cl) + 1 /\ Cardinality(DOMAIN cl') \in Nat
  BY <1>2, CountsFinite, FS_AddElement, FS_CardinalityType
<1>6. FilesCounted'
  BY <1>1, <1>4, <1>5, CountsFinite DEF CountInv, FilesCounted
<1>7. TriedNames' /\ ReturnsWhileNamesLast'
  BY <1>1, <1>2 DEF CountInv, TriedNames, Trying, ReturnsWhileNamesLast
<1> QED BY <1>6, <1>7 DEF CountInv

(* Every other step keeps the names, the files and the numbers of programs. *)
LEMMA OtherStepsCount ==
  ASSUME FileInv, FileInv', CountInv, NEW h \in Processes,
         Start(h) \/ Stop(h) \/ Seed(h) \/ FindNoSource(h) \/ FindName(h) \/ AddStrings(h)
           \/ CompileStep(h) \/ Release(h)
  PROVE  CountInv'
<1>1. ASSUME DOMAIN cl' = DOMAIN cl, created' = created,
             NEW to \in {"stopped", "idle", "access_ll", "open", "clang", "parse", "parse again"},
             pc' = [pc EXCEPT ![h] = to],
             to \in {"access_ll", "open"} =>
               /\ (pc[h] = "access" \/ pc[h] = "access_ll") /\ current' = current
               /\ count' = count /\ drawn' = drawn,
             \A g \in Processes : g # h => /\ drawn'[g] = drawn[g] /\ count'[g] = count[g]
                                          /\ current'[g] = current[g]
      PROVE  CountInv'
  <2>1. pc'[h] = to /\ \A g \in Processes : g # h => pc'[g] = pc[g]
    BY <1>1 DEF FileInv, TypeOK, CallType
  <2> QED BY <1>1, <2>1, CountKept
<1> USE DEF FileInv, TypeOK, CallType, ProgramType
<1>2. CASE Start(h)
  BY <1>1, <1>2 DEF Start, Goto
<1>3. CASE Stop(h)
  BY <1>1, <1>3 DEF Stop
<1>4. CASE Seed(h)
  <2>1. pc' = [pc EXCEPT ![h] = "idle"]
    BY <1>4 DEF Seed
  <2> QED BY <1>1, <1>4, <2>1 DEF Seed
<1>12. CASE FindNoSource(h)
  BY <1>1, <1>12 DEF FindNoSource, Goto
<1>5. CASE FindName(h)
  BY <1>1, <1>5 DEF FindName, Goto
<1>6. CASE AddStrings(h)
  <2>1. drawn[h] \in DOMAIN cl
    BY <1>6 DEF OpenedName, AddStrings, Goto
  <2>2. DOMAIN cl' = DOMAIN cl
    BY <1>6, <2>1 DEF AddStrings, Written
  <2> QED BY <1>1, <1>6, <2>2 DEF AddStrings, Goto
<1>7. CASE Build(h)
  BY <1>1, <1>7 DEF Build, Goto
<1>8. CASE Clang(h)
  BY <1>1, <1>8 DEF Clang, Goto
<1>9. CASE ParseForJIT(h)
  BY <1>1, <1>9 DEF ParseForJIT, Goto
<1>10. CASE ParseForM(h)
  BY <1>1, <1>10 DEF ParseForM, Goto
<1>11. CASE Release(h)
  <2>1. pc' = [pc EXCEPT ![h] = "idle"]
    BY <1>11 DEF Release
  <2> QED BY <1>1, <1>11, <2>1 DEF Release
<1> QED BY <1>2, <1>3, <1>4, <1>5, <1>6, <1>7, <1>8, <1>9, <1>10, <1>11, <1>12 DEF CompileStep

LEMMA CountInvStep ==
  ASSUME FileInv, FileInv', CountInv, [FilesNext]_fileVars
  PROVE  CountInv'
<1>1. CASE FilesNext
  BY <1>1, CreateCounts, TryAgainCounts, GiveUpCounts, OpenCounts, OtherStepsCount DEF FilesNext, CreateStep
<1>2. CASE UNCHANGED fileVars
  BY <1>2 DEF fileVars, CountInv, FilesCounted, Pending, TriedNames, Trying, ReturnsWhileNamesLast
<1> QED BY <1>1, <1>2

(* clCreateProgramWithSource ends the process only when the programs        *)
(* created before are as many as the names it tries.                        *)
THEOREM ReturnsWhileNamesLastHolds == FilesSpec => []ReturnsWhileNamesLast
<1>1. FilesInit => CountInv
  BY CountInvInit
<1>2. FileInv /\ FileInv' /\ CountInv /\ [FilesNext]_fileVars => CountInv'
  BY CountInvStep
<1>3. CountInv => ReturnsWhileNamesLast
  BY DEF CountInv
<1> QED BY <1>1, <1>2, <1>3, FileInvHolds, PTL DEF FilesSpec
=============================================================================
