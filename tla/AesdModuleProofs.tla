---------------------------- MODULE AesdModuleProofs ----------------------------
(***************************************************************************)
(* Proofs, for any number of shells, device numbers, failures and open files,  *)
(* about loading and unloading the module: what an open file can rely on, what  *)
(* is leaked, and when /dev/aesdchar leads to the device.                      *)
(***************************************************************************)
EXTENDS AesdModule, FiniteSetTheorems, TLAPS

-----------------------------------------------------------------------------
(* The inductive invariant *)

Stages == {"idle", "insmod", "buffer", "cdev", "awk", "rm", "mknod", "rmmod", "rmnode"}

ScriptType == [Script -> [pc : Stages, majors : SUBSET Major]]

ModTypeOK ==
  /\ module \in {"out", "coming", "live"}
  /\ aesd_major \in Major \cup {None}
  /\ regions \in SUBSET Major /\ IsFiniteSet(regions)
  /\ buffer \in BOOLEAN
  /\ lines \in 0..MaxLines
  /\ tmp_block \in {"none", "live", "freed"}
  /\ blocks \in Int
  /\ node \in Major \cup {None}
  /\ opened \in Nat
  /\ script \in ScriptType
  /\ overlap \in BOOLEAN
  /\ faults \in Nat /\ writes \in Nat /\ continued \in Nat /\ unloads \in Nat

\* A shell inside aesd_init_module, past its alloc_chrdev_region.
Loading(s) == At(s, "buffer") \/ At(s, "cdev")
Empty == lines = 0 /\ tmp_block # "live"

\* The module's state is that of the one shell that loads it: what it owns
\* before, during and after aesd_init_module.
Ownership ==
  /\ \A s \in Script : Loading(s) => module = "coming"
  /\ \A s, t \in Script : Loading(s) /\ Loading(t) => s = t
  /\ \A s \in Script : At(s, "buffer") => ~buffer /\ Empty
  /\ \A s \in Script : At(s, "cdev") => buffer /\ Empty
  /\ module = "out" => ~buffer /\ Empty
  /\ module = "live" => buffer
  /\ module # "out" => aesd_major \in regions
  /\ opened > 0 => module = "live"

\* A node leads to the loaded device.
NodeLeads == node # None => module = "live" /\ node = aesd_major

\* Where a shell that has the module to itself stands tells what the node is.
Alone ==
  ~overlap =>
    /\ \A s, t \in Script : ~At(s, "idle") /\ ~At(t, "idle") => s = t
    /\ \A s \in Script : At(s, "awk") \/ At(s, "rm") \/ At(s, "mknod") => module = "live"
    /\ \A s \in Script : At(s, "rm") \/ At(s, "mknod") => script[s].majors = regions
    /\ \A s \in Script : At(s, "mknod") => node = None
    /\ \A s \in Script : At(s, "rmnode") => module = "out"
    /\ (\A s \in Script : ~At(s, "rmnode")) => NodeLeads
    /\ (\A s \in Script : At(s, "idle") \/ At(s, "insmod") \/ At(s, "rmmod")) =>
         (module = "live" /\ node = None => Orphans # {})

ModInv == ModTypeOK /\ Ownership /\ LeakBounds /\ Alone

-----------------------------------------------------------------------------
(* How a shell moves *)

\* Shell s goes on to stage, the others stay where they are.
Moves(s, stage) ==
  /\ script' \in ScriptType
  /\ script'[s].pc = stage
  /\ \A t \in Script \ {s} : script'[t] = script[t]

LEMMA GoMoves ==
  ASSUME script \in ScriptType, NEW s \in Script, NEW stage \in Stages, Go(s, stage)
  PROVE  Moves(s, stage) /\ script'[s].majors = script[s].majors
BY DEF Go, Moves, ScriptType

LEMMA ExitMoves ==
  ASSUME script \in ScriptType, NEW s \in Script, Exit(s)
  PROVE  Moves(s, "idle")
BY DEF Exit, Moves, ScriptType, Stages

\* What is leaked stays within its bounds while a block is lost only with a failure.
LEMMA LeakKept ==
  ASSUME ModTypeOK, LeakBounds, UNCHANGED <<continued, unloads>>,
         NEW lost \in {0, 1}, Leaked' = Leaked + lost, faults' \in Nat, faults' >= faults + lost
  PROVE  LeakBounds'
<1> DEFINE allowed == (MaxLines + 1) * unloads
<1>1. Leaked \in Int /\ continued \in Int /\ faults \in Int /\ unloads \in Int
  BY ModuleAssumption DEF Leaked, Reachable, ModTypeOK
<1>2. allowed \in Int /\ allowed' = allowed
  BY <1>1, ModuleAssumption
<1>3. continued <= Leaked /\ Leaked <= continued + faults + allowed
  BY DEF LeakBounds
<1> HIDE DEF allowed
<1> DEFINE after == Leaked'
           failed == faults'
<1>4. after = Leaked + lost /\ failed \in Int /\ failed >= faults + lost
  OBVIOUS
<1> HIDE DEF after, failed
<1>5. continued <= after /\ after <= continued + failed + allowed
  BY <1>1, <1>2, <1>3, <1>4
<1>6. QED
  BY <1>2, <1>5 DEF LeakBounds, allowed, after, failed

LEMMA SameLeak ==
  ASSUME ModTypeOK, LeakBounds, UNCHANGED <<buffer, heapVars, continued, unloads>>,
         faults' \in Nat, faults' >= faults
  PROVE  LeakBounds'
<1>1. Leaked' = Leaked /\ Leaked \in Int /\ faults \in Int
  BY ModuleAssumption DEF Leaked, Reachable, heapVars, ModTypeOK
<1>2. 0 \in {0, 1} /\ Leaked' = Leaked + 0 /\ faults' >= faults + 0
  BY <1>1
<1>3. QED
  BY <1>2, LeakKept

-----------------------------------------------------------------------------
(* The steps of the shells *)

LEMMA StartInv ==
  ASSUME ModInv, NEW s \in Script, NEW what \in {"insmod", "rmmod"}, Start(s, what)
  PROVE  ModInv'
<1>1. Moves(s, what)
  BY GoMoves DEF Start, ModInv, ModTypeOK, ScriptType, Stages
<1>2. ModTypeOK'
  BY <1>1 DEF Start, ModInv, ModTypeOK, Moves, ScriptType, kernelVars, heapVars, countVars
<1>3. Ownership'
  BY <1>1 DEF Start, ModInv, Ownership, Loading, Empty, At, Moves, kernelVars, heapVars
<1>4. LeakBounds'
  BY SameLeak DEF Start, ModInv, ModTypeOK, kernelVars, countVars
<1>5. Alone'
  <2>1. overlap' = (overlap \/ \E t \in Script : ~At(t, "idle"))
    BY DEF Start
  <2>2. SUFFICES ASSUME ~overlap /\ \A t \in Script : At(t, "idle")
                 PROVE  Alone'
    BY <2>1 DEF Alone
  <2>3. NodeLeads /\ (module = "live" /\ node = None => Orphans # {})
    BY <2>2 DEF ModInv, Alone, At
  <2>4. UNCHANGED <<module, node, aesd_major, regions>>
    BY DEF Start, kernelVars
  <2>5. QED
    BY <1>1, <2>2, <2>3, <2>4 DEF Alone, At, Moves, NodeLeads, Orphans
<1>6. QED
  BY <1>2, <1>3, <1>4, <1>5 DEF ModInv

LEMMA AllocRegionInv ==
  ASSUME ModInv, NEW s \in Script, AllocRegion(s)
  PROVE  ModInv'
<1>1. \/ /\ module = "out" /\ module' = "coming" /\ Moves(s, "buffer") /\ UNCHANGED faults
         /\ aesd_major' \in Major \ regions /\ regions' = regions \cup {aesd_major'}
      \/ module = "out" /\ Moves(s, "idle") /\ faults' = faults + 1 /\ UNCHANGED <<module, aesd_major, regions>>
      \/ module # "out" /\ Moves(s, "idle") /\ UNCHANGED <<module, aesd_major, regions, faults>>
      \/ module = "live" /\ Moves(s, "awk") /\ UNCHANGED <<module, aesd_major, regions, faults>>
  BY GoMoves, ExitMoves DEF AllocRegion, ModInv, ModTypeOK, ScriptType, Stages, Fault, NoFault
<1>2. At(s, "insmod") /\ UNCHANGED <<buffer, lines, tmp_block, blocks, node, opened, overlap,
                                     writes, continued, unloads>>
  BY DEF AllocRegion, heapVars, countVars
<1>3. ModTypeOK'
  <2>1. IsFiniteSet(regions')
    BY <1>1, FS_AddElement DEF ModInv, ModTypeOK
  <2>2. faults' \in Nat /\ aesd_major' \in Major \cup {None} /\ regions' \in SUBSET Major
        /\ module' \in {"out", "coming", "live"} /\ script' \in ScriptType
    BY <1>1 DEF ModInv, ModTypeOK, Moves
  <2>3. QED
    BY <1>2, <2>1, <2>2 DEF ModInv, ModTypeOK, ScriptType
<1>4. Ownership'
  BY <1>1, <1>2 DEF ModInv, ModTypeOK, Ownership, Loading, Empty, At, Moves
<1>5. LeakBounds'
  BY <1>1, <1>2, SameLeak DEF ModInv, ModTypeOK, heapVars
<1>6. Alone'
  BY <1>1, <1>2, ModuleAssumption DEF ModInv, ModTypeOK, Alone, At, Moves, NodeLeads, Orphans
<1>7. QED
  BY <1>3, <1>4, <1>5, <1>6 DEF ModInv

LEMMA AllocBufferInv ==
  ASSUME ModInv, NEW s \in Script, AllocBuffer(s)
  PROVE  ModInv'
<1>1. \/ /\ buffer' = TRUE /\ blocks' = blocks + 1 /\ Moves(s, "cdev") /\ UNCHANGED <<faults, module>>
      \/ /\ module' = "out" /\ Moves(s, "idle") /\ faults' = faults + 1 /\ UNCHANGED <<buffer, blocks>>
  BY GoMoves, ExitMoves DEF AllocBuffer, ModInv, ModTypeOK, ScriptType, Stages, Fault, NoFault
<1>2. /\ At(s, "buffer") /\ lines' = 0 /\ tmp_block' = "none"
      /\ UNCHANGED <<aesd_major, regions, node, opened, overlap, writes, continued, unloads>>
  BY DEF AllocBuffer, countVars
<1>3. ~buffer /\ Empty /\ module = "coming"
  BY <1>2 DEF ModInv, Ownership, Loading
<1>4. ModTypeOK'
  <2>1. script' \in ScriptType
    BY <1>1 DEF Moves
  <2>2. faults' \in Nat /\ blocks' \in Int /\ buffer' \in BOOLEAN /\ module' \in {"out", "coming", "live"}
    <3>1. faults \in Nat /\ blocks \in Int /\ buffer \in BOOLEAN
      BY DEF ModInv, ModTypeOK
    <3>2. module' \in {"out", "coming", "live"}
      BY <1>1, <1>3
    <3>3. buffer' \in BOOLEAN
      BY <1>1, <3>1, Zenon
    <3>4. faults' \in Nat /\ blocks' \in Int
      BY <1>1, <3>1
    <3>5. QED
      BY <3>2, <3>3, <3>4
  <2>3. lines' \in 0..MaxLines
    BY <1>2, ModuleAssumption
  <2>4. QED
    BY <1>2, <2>1, <2>2, <2>3 DEF ModInv, ModTypeOK
<1>5. Ownership'
  BY <1>1, <1>2, <1>3 DEF ModInv, ModTypeOK, Ownership, Loading, Empty, At, Moves
<1>6. LeakBounds'
  <2>1. /\ Leaked' = Leaked /\ Leaked \in Int
        /\ faults \in Int /\ faults' \in Nat /\ faults' >= faults
    <3>1. /\ faults \in Int /\ faults' \in Nat /\ faults' >= faults
          /\ blocks \in Int /\ lines = 0 /\ tmp_block # "live"
      BY <1>1, <1>3 DEF ModInv, ModTypeOK, Empty
    <3>2. QED
      BY <1>1, <1>2, <1>3, <3>1 DEF Leaked, Reachable
  <2>2. 0 \in {0, 1} /\ Leaked' = Leaked + 0 /\ faults' >= faults + 0
    BY <2>1
  <2>3. QED
    BY <1>2, <2>1, <2>2, LeakKept DEF ModInv
<1>7. Alone'
  BY <1>1, <1>2, <1>3 DEF ModInv, ModTypeOK, Alone, At, Moves, NodeLeads, Orphans
<1>8. QED
  BY <1>4, <1>5, <1>6, <1>7 DEF ModInv

LEMMA AddCdevInv ==
  ASSUME ModInv, NEW s \in Script, AddCdev(s)
  PROVE  ModInv'
<1>1. \/ module' = "live" /\ Moves(s, "awk") /\ UNCHANGED <<faults, regions, buffer>>
      \/ /\ module' = "out" /\ regions' = regions \ {aesd_major} /\ buffer' = FALSE
         /\ Moves(s, "idle") /\ faults' = faults + 1
  BY GoMoves, ExitMoves
     DEF AddCdev, RegionsAfterFailedAdd, ModInv, ModTypeOK, ScriptType, Stages, Fault, NoFault
<1>2. /\ At(s, "cdev")
      /\ UNCHANGED <<aesd_major, lines, tmp_block, blocks, node, opened, overlap, writes, continued,
                     unloads>>
  BY DEF AddCdev, heapVars, countVars
<1>3. buffer /\ Empty /\ module = "coming" /\ aesd_major \in regions
  BY <1>2 DEF ModInv, Ownership, Loading
<1>4. ModTypeOK'
  <2>1. IsFiniteSet(regions')
    BY <1>1, FS_RemoveElement DEF ModInv, ModTypeOK
  <2>2. script' \in ScriptType
    BY <1>1 DEF Moves
  <2>3. faults' \in Nat /\ buffer' \in BOOLEAN /\ module' \in {"out", "coming", "live"}
    <3>1. faults \in Nat /\ buffer \in BOOLEAN
      BY DEF ModInv, ModTypeOK
    <3>2. buffer' \in BOOLEAN
      BY <1>1, <3>1, Zenon
    <3>3. faults' \in Nat /\ module' \in {"out", "coming", "live"}
      BY <1>1, <3>1
    <3>4. QED
      BY <3>2, <3>3
  <2>4. regions' \in SUBSET Major
    BY <1>1 DEF ModInv, ModTypeOK
  <2>5. QED
    BY <1>2, <2>1, <2>2, <2>3, <2>4 DEF ModInv, ModTypeOK
<1>5. Ownership'
  BY <1>1, <1>2, <1>3 DEF ModInv, ModTypeOK, Ownership, Loading, Empty, At, Moves
<1>6. LeakBounds'
  <2>1. /\ faults \in Int /\ blocks \in Int /\ lines = 0 /\ tmp_block # "live"
    BY <1>3 DEF ModInv, ModTypeOK, Empty
  <2>2. CASE buffer' = buffer /\ faults' = faults
    <3>1. 0 \in {0, 1} /\ Leaked' = Leaked + 0 /\ faults' \in Nat /\ faults' >= faults + 0
      BY <1>2, <1>3, <2>1, <2>2 DEF Leaked, Reachable, ModInv, ModTypeOK
    <3>2. QED
      BY <1>2, <3>1, LeakKept DEF ModInv
  <2>3. CASE buffer' = FALSE /\ faults' = faults + 1
    <3>1. 1 \in {0, 1} /\ Leaked' = Leaked + 1 /\ faults' \in Nat /\ faults' >= faults + 1
      BY <1>2, <1>3, <2>1, <2>3 DEF Leaked, Reachable, ModInv, ModTypeOK
    <3>2. QED
      BY <1>2, <3>1, LeakKept DEF ModInv
  <2>4. QED
    BY <1>1, <2>2, <2>3
<1>7. Alone'
  <2>1. SUFFICES ASSUME ~overlap
                 PROVE  Alone'
    BY <1>2 DEF Alone
  <2>2. /\ node = None
        /\ \A t \in Script \ {s} : At(t, "idle") /\ At(t, "idle")'
    BY <1>1, <1>2, <1>3, <2>1 DEF ModInv, Alone, At, Moves, NodeLeads
  <2>3. CASE module' = "live" /\ Moves(s, "awk")
    BY <1>2, <2>2, <2>3 DEF Alone, At, Moves, NodeLeads
  <2>4. CASE module' = "out" /\ Moves(s, "idle")
    BY <1>2, <2>2, <2>4 DEF Alone, At, Moves, NodeLeads
  <2>5. QED
    BY <1>1, <2>3, <2>4
<1>8. QED
  BY <1>4, <1>5, <1>6, <1>7 DEF ModInv

LEMMA ReadMajorInv ==
  ASSUME ModInv, NEW s \in Script, ReadMajor(s)
  PROVE  ModInv'
<1>1. /\ At(s, "awk") /\ Moves(s, "rm") /\ script'[s].majors = regions
      /\ UNCHANGED <<module, aesd_major, regions, buffer, lines, tmp_block, blocks, node, opened,
                     overlap, faults, writes, continued, unloads>>
  BY DEF ReadMajor, Moves, ModInv, ModTypeOK, ScriptType, Stages, kernelVars, heapVars, countVars
<1>2. ModTypeOK'
  BY <1>1 DEF ModInv, ModTypeOK, Moves
<1>3. Ownership'
  BY <1>1 DEF ModInv, Ownership, Loading, Empty, At, Moves
<1>4. LeakBounds'
  BY <1>1, SameLeak DEF ModInv, ModTypeOK, heapVars
<1>5. Alone'
  BY <1>1 DEF ModInv, Alone, At, Moves, NodeLeads, Orphans
<1>6. QED
  BY <1>2, <1>3, <1>4, <1>5 DEF ModInv

LEMMA RemoveOldNodeInv ==
  ASSUME ModInv, NEW s \in Script, RemoveOldNode(s)
  PROVE  ModInv'
<1>1. /\ At(s, "rm") /\ Moves(s, "mknod") /\ script'[s].majors = script[s].majors /\ node' = None
      /\ UNCHANGED <<module, aesd_major, regions, buffer, lines, tmp_block, blocks, opened,
                     overlap, faults, writes, continued, unloads>>
  BY GoMoves DEF RemoveOldNode, ModInv, ModTypeOK, Stages, kernelVars, heapVars, countVars
<1>2. ModTypeOK'
  BY <1>1 DEF ModInv, ModTypeOK, Moves
<1>3. Ownership'
  BY <1>1 DEF ModInv, Ownership, Loading, Empty, At, Moves
<1>4. LeakBounds'
  BY <1>1, SameLeak DEF ModInv, ModTypeOK, heapVars
<1>5. Alone'
  BY <1>1 DEF ModInv, Alone, At, Moves, NodeLeads, Orphans
<1>6. QED
  BY <1>2, <1>3, <1>4, <1>5 DEF ModInv

\* awk's output is one major: it is the device's, and nobody else's.
LEMMA OneMajor ==
  ASSUME ModInv, module = "live", Operands(regions)
  PROVE  regions = {aesd_major} /\ Orphans = {}
<1>1. aesd_major \in regions
  BY DEF ModInv, Ownership
<1>2. IsFiniteSet(regions) /\ Cardinality(regions) = 1
  BY DEF ModInv, ModTypeOK, Operands
<1>3. PICK m : regions = {m}
  BY <1>2, FS_Singleton
<1>4. QED
  BY <1>1, <1>3 DEF Orphans

LEMMA MakeNodeInv ==
  ASSUME ModInv, NEW s \in Script, MakeNode(s)
  PROVE  ModInv'
<1>1. /\ At(s, "mknod") /\ Moves(s, "idle")
      /\ UNCHANGED <<module, aesd_major, regions, buffer, lines, tmp_block, blocks, opened,
                     overlap, faults, writes, continued, unloads>>
  BY ExitMoves DEF MakeNode, ModInv, ModTypeOK, kernelVars, heapVars, countVars
<1>2. IF node = None /\ Operands(script[s].majors)
        THEN node' \in script[s].majors
        ELSE node' = node
  BY DEF MakeNode
<1>3. ModTypeOK'
  <2>1. script[s].majors \in SUBSET Major
    BY DEF ModInv, ModTypeOK, ScriptType
  <2>2. node' \in Major \cup {None}
    BY <1>2, <2>1 DEF ModInv, ModTypeOK
  <2>3. QED
    BY <1>1, <2>2 DEF ModInv, ModTypeOK, Moves
<1>4. Ownership'
  BY <1>1 DEF ModInv, Ownership, Loading, Empty, At, Moves
<1>5. LeakBounds'
  BY <1>1, SameLeak DEF ModInv, ModTypeOK, heapVars
<1>6. Alone'
  <2>1. SUFFICES ASSUME ~overlap
                 PROVE  Alone'
    BY <1>1 DEF Alone
  <2>2. /\ node = None /\ module = "live" /\ script[s].majors = regions
        /\ \A t \in Script : At(t, "idle")'
    BY <1>1, <2>1 DEF ModInv, Alone, At, Moves
  <2>3. CASE Operands(regions)
    <3>1. node' = aesd_major
      BY <1>2, <2>2, <2>3, OneMajor
    <3>2. aesd_major # None
      BY <2>2, ModuleAssumption DEF ModInv, ModTypeOK, Ownership
    <3>3. QED
      BY <1>1, <2>2, <3>1, <3>2 DEF Alone, At, NodeLeads
  <2>4. CASE ~Operands(regions)
    <3>1. node' = None
      BY <1>2, <2>2, <2>4
    <3>2. Orphans # {}
      <4>1. aesd_major \in regions
        BY <2>2 DEF ModInv, Ownership
      <4>2. SUFFICES ASSUME regions \ {aesd_major} = {}
                     PROVE  FALSE
        BY <2>2 DEF Orphans
      <4>3. regions = {aesd_major}
        BY <4>1, <4>2
      <4>4. QED
        BY <2>4, <4>3, FS_Singleton DEF Operands
    <3>3. QED
      BY <1>1, <2>2, <3>1, <3>2 DEF Alone, At, NodeLeads, Orphans
  <2>5. QED
    BY <2>3, <2>4
<1>7. QED
  BY <1>3, <1>4, <1>5, <1>6 DEF ModInv

LEMMA RmmodInv ==
  ASSUME ModInv, NEW s \in Script, Rmmod(s)
  PROVE  ModInv'
<1>1. /\ At(s, "rmmod")
      /\ UNCHANGED <<aesd_major, node, opened, overlap, faults, writes, continued>>
  BY DEF Rmmod
<1>2. CASE ~(module = "live" /\ Unpinned)
  <2>1. Moves(s, "idle") /\ UNCHANGED <<module, buffer, blocks, regions, lines, tmp_block, unloads>>
    BY <1>2, ExitMoves DEF Rmmod, ModInv, ModTypeOK
  <2>2. ModTypeOK'
    BY <1>1, <2>1 DEF ModInv, ModTypeOK, Moves
  <2>3. Ownership'
    BY <1>1, <2>1 DEF ModInv, Ownership, Loading, Empty, At, Moves
  <2>4. LeakBounds'
    BY <1>1, <2>1, SameLeak DEF ModInv, ModTypeOK, heapVars
  <2>5. Alone'
    BY <1>1, <2>1 DEF ModInv, Alone, At, Moves, NodeLeads, Orphans
  <2>6. QED
    BY <2>2, <2>3, <2>4, <2>5 DEF ModInv
<1>3. CASE module = "live" /\ Unpinned
  <2>1. /\ module' = "out" /\ buffer' = FALSE /\ blocks' = blocks - 1
        /\ regions' = regions \ {aesd_major}
        /\ lines' = 0 /\ tmp_block' = "none" /\ unloads' = unloads + 1
        /\ Moves(s, "rmnode")
    BY <1>3, GoMoves DEF Rmmod, BlocksAfterUnload, ModInv, ModTypeOK, Stages
  <2>2. ModTypeOK'
    <3>1. IsFiniteSet(regions')
      BY <2>1, FS_RemoveElement DEF ModInv, ModTypeOK
    <3>2. script' \in ScriptType
      BY <2>1 DEF Moves
    <3>3. lines' \in 0..MaxLines /\ blocks' \in Int /\ unloads' \in Nat
      BY <2>1, ModuleAssumption DEF ModInv, ModTypeOK
    <3>4. QED
      BY <1>1, <2>1, <3>1, <3>2, <3>3 DEF ModInv, ModTypeOK
  <2>3. Ownership'
    BY <1>1, <1>3, <2>1 DEF ModInv, ModTypeOK, Ownership, Unpinned, Loading, Empty, At, Moves
  <2>4. LeakBounds'
    <3> DEFINE allowed == (MaxLines + 1) * unloads
               more == (MaxLines + 1) * (unloads + 1)
               held == lines + IF tmp_block = "live" THEN 1 ELSE 0
    <3>1. /\ blocks \in Int /\ unloads \in Nat /\ MaxLines \in Nat /\ continued \in Int /\ faults \in Int
          /\ buffer = TRUE /\ lines \in 0..MaxLines
      BY <1>3, ModuleAssumption DEF ModInv, ModTypeOK, Ownership
    <3>2. allowed \in Int /\ more = allowed + MaxLines + 1
      BY <3>1
    <3>3. held \in 0..(MaxLines + 1) /\ held \in Int
      BY <3>1
    <3>4. Leaked = blocks - (1 + held) /\ Leaked' = blocks - 1
      BY <2>1, <3>1 DEF Leaked, Reachable
    <3>5. continued <= Leaked /\ Leaked <= continued + faults + allowed
      BY DEF ModInv, LeakBounds
    <3> HIDE DEF allowed, more, held
    <3>6. continued <= blocks - 1 /\ blocks - 1 <= continued + faults + more
      BY <3>1, <3>2, <3>3, <3>4, <3>5
    <3>7. QED
      BY <1>1, <2>1, <3>4, <3>6 DEF LeakBounds, more
  <2>5. Alone'
    BY <1>1, <2>1 DEF ModInv, Alone, At, Moves, NodeLeads, Orphans
  <2>6. QED
    BY <2>2, <2>3, <2>4, <2>5 DEF ModInv
<1>4. QED
  BY <1>2, <1>3

LEMMA RemoveNodeInv ==
  ASSUME ModInv, NEW s \in Script, RemoveNode(s)
  PROVE  ModInv'
<1>1. /\ At(s, "rmnode") /\ Moves(s, "idle") /\ node' = None
      /\ UNCHANGED <<module, aesd_major, regions, buffer, lines, tmp_block, blocks, opened,
                     overlap, faults, writes, continued, unloads>>
  BY ExitMoves DEF RemoveNode, ModInv, ModTypeOK, kernelVars, heapVars, countVars
<1>2. ModTypeOK'
  BY <1>1 DEF ModInv, ModTypeOK, Moves
<1>3. Ownership'
  BY <1>1 DEF ModInv, Ownership, Loading, Empty, At, Moves
<1>4. LeakBounds'
  BY <1>1, SameLeak DEF ModInv, ModTypeOK, heapVars
<1>5. Alone'
  BY <1>1 DEF ModInv, Alone, At, Moves, NodeLeads, Orphans
<1>6. QED
  BY <1>2, <1>3, <1>4, <1>5 DEF ModInv

-----------------------------------------------------------------------------
(* The steps of the files on the device *)

LEMMA OpenedInv ==
  ASSUME ModInv, Open \/ Release
  PROVE  ModInv'
<1>1. UNCHANGED <<module, aesd_major, regions, buffer, lines, tmp_block, blocks, node, script,
                  overlap, faults, writes, continued, unloads>>
  BY DEF Open, Release, kernelVars, heapVars, countVars
<1>2. opened' \in Nat /\ (opened' > 0 => module = "live")
  BY DEF Open, Release, ModInv, ModTypeOK, Ownership
<1>3. ModTypeOK'
  BY <1>1, <1>2 DEF ModInv, ModTypeOK
<1>4. Ownership'
  BY <1>1, <1>2 DEF ModInv, Ownership, Loading, Empty, At
<1>5. LeakBounds'
  BY <1>1, SameLeak DEF ModInv, ModTypeOK, heapVars
<1>6. Alone'
  BY <1>1 DEF ModInv, Alone, At, NodeLeads, Orphans
<1>7. QED
  BY <1>3, <1>4, <1>5, <1>6 DEF ModInv

\* A write loses the block of the line it continues, and no other.
LEMMA WriteInv ==
  ASSUME ModInv, NEW last \in BOOLEAN, Write(last)
  PROVE  ModInv'
<1> DEFINE chained == IF tmp_block = "live" THEN 1 ELSE 0
<1>1. /\ UNCHANGED <<module, aesd_major, regions, buffer, node, opened, script, overlap, faults,
                     unloads>>
      /\ opened > 0 /\ writes' = writes + 1 /\ continued' = continued + chained
  BY DEF Write, kernelVars
<1>2. \/ /\ tmp_block' = "freed" /\ lines' = lines + 1 - Replaced /\ blocks' = blocks + 1 - Replaced
      \/ tmp_block' = "live" /\ blocks' = blocks + 1 /\ lines' = lines
  BY DEF Write
<1>3. /\ module = "live" /\ buffer = TRUE /\ lines \in 0..MaxLines /\ MaxLines \in Nat \ {0}
      /\ blocks \in Int /\ writes \in Nat /\ continued \in Nat /\ faults \in Nat /\ unloads \in Nat
  BY <1>1, ModuleAssumption DEF ModInv, ModTypeOK, Ownership
<1>4. /\ Replaced \in {0, 1} /\ lines + 1 - Replaced \in 0..MaxLines
      /\ chained \in {0, 1}
  BY <1>3 DEF Replaced
<1>5. Leaked' = Leaked + chained /\ Leaked \in Int
  <2>1. Leaked = blocks - (1 + lines + chained)
    BY <1>3 DEF Leaked, Reachable
  <2>2. CASE tmp_block' = "freed" /\ lines' = lines + 1 - Replaced /\ blocks' = blocks + 1 - Replaced
    <3>1. Leaked' = (blocks + 1 - Replaced) - (1 + (lines + 1 - Replaced) + 0)
      BY <1>1, <1>3, <2>2 DEF Leaked, Reachable
    <3> HIDE DEF chained
    <3>2. QED
      BY <1>3, <1>4, <2>1, <3>1
  <2>3. CASE tmp_block' = "live" /\ blocks' = blocks + 1 /\ lines' = lines
    <3>1. Leaked' = (blocks + 1) - (1 + lines + 1)
      BY <1>1, <1>3, <2>3 DEF Leaked, Reachable
    <3> HIDE DEF chained
    <3>2. QED
      BY <1>3, <1>4, <2>1, <3>1
  <2>4. QED
    BY <1>2, <2>2, <2>3
<1> HIDE DEF chained
<1>6. ModTypeOK'
  <2>1. lines' \in 0..MaxLines /\ blocks' \in Int /\ writes' \in Nat /\ continued' \in Nat
    BY <1>1, <1>2, <1>3, <1>4
  <2>2. tmp_block' \in {"none", "live", "freed"}
    BY <1>2
  <2>3. QED
    BY <1>1, <2>1, <2>2 DEF ModInv, ModTypeOK
<1>7. Ownership'
  BY <1>1, <1>3 DEF ModInv, Ownership, Loading, At
<1>8. LeakBounds'
  <2> DEFINE allowed == (MaxLines + 1) * unloads
  <2>1. allowed \in Int
    BY <1>3
  <2>2. continued <= Leaked /\ Leaked <= continued + faults + allowed
    BY DEF ModInv, LeakBounds
  <2> HIDE DEF allowed
  <2>3. continued + chained <= Leaked + chained /\ Leaked + chained <= continued + chained + faults + allowed
    BY <1>3, <1>4, <1>5, <2>1, <2>2
  <2>4. QED
    BY <1>1, <1>5, <2>3 DEF LeakBounds, allowed
<1>9. Alone'
  BY <1>1 DEF ModInv, Alone, At, NodeLeads, Orphans
<1>10. QED
  BY <1>6, <1>7, <1>8, <1>9 DEF ModInv

LEMMA ModInvInit ==
  ASSUME ModInit
  PROVE  ModInv
<1>1. ModTypeOK
  <2>1. IsFiniteSet(regions)
    BY FS_EmptySet DEF ModInit
  <2>2. script \in ScriptType
    BY DEF ModInit, ScriptType, Stages
  <2>3. 0 \in 0..MaxLines
    BY ModuleAssumption
  <2>4. buffer \in BOOLEAN /\ overlap \in BOOLEAN
    BY Zenon DEF ModInit
  <2>5. QED
    BY <2>1, <2>2, <2>3, <2>4 DEF ModInit, ModTypeOK
<1>2. Ownership
  BY DEF ModInit, Ownership, Loading, Empty, At
<1>3. LeakBounds
  BY ModuleAssumption DEF ModInit, LeakBounds, Leaked, Reachable
<1>4. Alone
  BY DEF ModInit, Alone, At, NodeLeads
<1>5. QED
  BY <1>1, <1>2, <1>3, <1>4 DEF ModInv

\* The invariant is inductive: one case per action.
LEMMA ModInvNext ==
  ASSUME ModInv, [ModNext]_modVars
  PROVE  ModInv'
<1>1. ASSUME NEW s \in Script, Start(s, "insmod") \/ Start(s, "rmmod")
      PROVE  ModInv'
  BY <1>1, StartInv
<1>2. ASSUME NEW s \in Script, AllocRegion(s) \/ AllocBuffer(s) \/ AddCdev(s)
      PROVE  ModInv'
  BY <1>2, AllocRegionInv, AllocBufferInv, AddCdevInv
<1>3. ASSUME NEW s \in Script, ReadMajor(s) \/ RemoveOldNode(s) \/ MakeNode(s)
      PROVE  ModInv'
  BY <1>3, ReadMajorInv, RemoveOldNodeInv, MakeNodeInv
<1>4. ASSUME NEW s \in Script, Rmmod(s) \/ RemoveNode(s)
      PROVE  ModInv'
  BY <1>4, RmmodInv, RemoveNodeInv
<1>5. CASE Open \/ Release
  BY <1>5, OpenedInv
<1>6. CASE \E last \in BOOLEAN : Write(last)
  BY <1>6, WriteInv
<1>7. CASE UNCHANGED modVars
  <2>1. UNCHANGED <<module, aesd_major, regions, buffer, lines, tmp_block, blocks, node, opened,
                    script, overlap, faults, writes, continued, unloads>>
    BY <1>7 DEF modVars
  <2>2. ModTypeOK'
    BY <2>1 DEF ModInv, ModTypeOK
  <2>3. Ownership'
    BY <2>1 DEF ModInv, Ownership, Loading, Empty, At
  <2>4. LeakBounds'
    BY <2>1, SameLeak DEF ModInv, ModTypeOK, heapVars
  <2>5. Alone'
    BY <2>1 DEF ModInv, Alone, At, NodeLeads, Orphans
  <2>6. QED
    BY <2>2, <2>3, <2>4, <2>5 DEF ModInv
<1>8. QED
  BY <1>1, <1>2, <1>3, <1>4, <1>5, <1>6, <1>7 DEF ModNext

-----------------------------------------------------------------------------
(* Theorems *)

THEOREM ModInvariant == ModSpec => []ModInv
<1>1. ModInit => ModInv
  BY ModInvInit
<1>2. ModInv /\ [ModNext]_modVars => ModInv'
  BY ModInvNext
<1>3. QED
  BY <1>1, <1>2, PTL DEF ModSpec

\* While a file is open, aesd_cleanup_module cannot run and no failing load of
\* another shell touches the device: the module, its buffer and its number stay.
THEOREM OpenFilesKeepDevice == ModSpec => []OpenFileHasDevice
<1>1. ModInv => OpenFileHasDevice
  BY DEF ModInv, Ownership, OpenFileHasDevice
<1>2. QED
  BY <1>1, ModInvariant, PTL

\* aesd_cleanup_module frees no line and add_entry no accumulator it continues:
\* the blocks nobody points to any more, counted exactly from below and within
\* one per failure and MaxLines + 1 per unload from above.
THEOREM LeaksBounded == ModSpec => []LeakBounds
<1>1. ModInv => LeakBounds
  BY DEF ModInv
<1>2. QED
  BY <1>1, ModInvariant, PTL

\* aesdchar_load and aesdchar_unload, run one after the other by any number of
\* shells, leave /dev/aesdchar only for the loaded device, and the loaded device
\* without it only beside a region that an earlier load left behind.
THEOREM NodeLeadsToDevice == ModSpec => []NodeMatchesDevice
<1>1. ModInv => NodeMatchesDevice
  BY DEF ModInv, Alone, NodeMatchesDevice, Idle, At, NodeLeads
<1>2. QED
  BY <1>1, ModInvariant, PTL

\* After aesd_init_module failed for want of its buffer no later load makes a
\* node: the region it keeps is another operand of mknod for ever.
THEOREM FailedLoadsAreFinal == ModSpec => FailedLoadIsFinal
<1> DEFINE Final == /\ Orphans \subseteq regions'
                    /\ node' \notin {node, None} /\ ~overlap' => Orphans = {}
<1>1. ASSUME ModInv, [ModNext]_modVars
      PROVE  Orphans \subseteq regions'
  <2>1. CASE \E s \in Script : AddCdev(s)
    <3>1. module = "coming" /\ regions \ {aesd_major} \subseteq regions'
      BY <1>1, <2>1 DEF AddCdev, RegionsAfterFailedAdd, ModInv, Ownership, Loading
    <3>2. QED
      BY <3>1 DEF Orphans
  <2>2. CASE \E s \in Script : Rmmod(s)
    BY <2>2 DEF Rmmod, Orphans
  <2>3. CASE \E s \in Script : AllocRegion(s)
    BY <2>3 DEF AllocRegion, Orphans
  <2>4. CASE regions' = regions
    BY <2>4 DEF Orphans
  <2>5. QED
    BY <1>1, <2>1, <2>2, <2>3, <2>4
       DEF ModNext, modVars, kernelVars, Start, AllocBuffer, ReadMajor, RemoveOldNode, MakeNode,
           RemoveNode, Open, Release, Write
<1>2. ASSUME ModInv, [ModNext]_modVars, node' \notin {node, None}, ~overlap'
      PROVE  Orphans = {}
  <2>1. PICK s \in Script : MakeNode(s)
    BY <1>2 DEF ModNext, modVars, Start, AllocRegion, AllocBuffer, AddCdev, ReadMajor,
                RemoveOldNode, Rmmod, RemoveNode, Open, Release, Write
  <2>2. At(s, "mknod") /\ ~overlap /\ Operands(script[s].majors)
    BY <1>2, <2>1 DEF MakeNode
  <2>3. module = "live" /\ script[s].majors = regions
    BY <1>2, <2>2 DEF ModInv, Alone
  <2>4. QED
    BY <1>2, <2>2, <2>3, OneMajor
<1>3. ModInv /\ [ModNext]_modVars => [Final]_modVars
  BY <1>1, <1>2
<1> HIDE DEF Final
<1>4. ModSpec => [][Final]_modVars
  BY <1>3, ModInvariant, PTL DEF ModSpec
<1>5. QED
  BY <1>4 DEF Final, FailedLoadIsFinal
=============================================================================
