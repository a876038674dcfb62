------------------------------- MODULE AesdModule -------------------------------
(***************************************************************************)
(* Loading and unloading the aesdchar module: aesd_init_module and            *)
(* aesd_cleanup_module (aesd-char-driver/main.c) under the scripts             *)
(* aesdchar_load and aesdchar_unload, which may run at the same time, with     *)
(* the files open on the device in between.  The buffer is reduced to the      *)
(* blocks it owns.                                                            *)
(*                                                                         *)
(* The kernel's part is the environment: a name is loaded once, a module with  *)
(* open files is not removed, a region gets a major number nobody has, and     *)
(* /proc/devices lists every region under the name its owner gave it.          *)
(***************************************************************************)
EXTENDS Integers, FiniteSets

CONSTANTS
  MaxLines,    \* AESDCHAR_MAX_WRITE_OPERATIONS_SUPPORTED
  Major,       \* major numbers
  None,        \* no device node
  Script,      \* shell processes that load or unload
  MaxFaults,   \* bound: allocations or registrations that fail
  MaxOpen,     \* bound: files open at a time
  MaxWrites,   \* bound: writes in a behaviour
  MaxUnloads   \* bound: unloads started after so many modules were removed

ASSUME ModuleAssumption ==
  /\ MaxLines \in Nat \ {0}
  /\ None \notin Major
  /\ MaxFaults \in Nat /\ MaxOpen \in Nat /\ MaxWrites \in Nat /\ MaxUnloads \in Nat

VARIABLES
  module,      \* "out", "coming" (its init function runs) or "live"
  aesd_major,
  regions,     \* majors registered under the name aesdchar
  buffer,      \* aesd_device.buffer is allocated
  lines,       \* slots of the buffer that own a block
  tmp_block,   \* the accumulator's block: "none", "live" or "freed"
  blocks,      \* allocated blocks, those nobody points to included
  node,        \* major of /dev/aesdchar
  opened,      \* files open on the device
  script,      \* process -> where it is, and what awk printed
  overlap,     \* history: two scripts were under way at once
  faults, writes, continued, unloads    \* histories: how many so far

kernelVars == <<module, aesd_major, regions, buffer>>
heapVars   == <<lines, tmp_block, blocks>>
countVars  == <<writes, continued, unloads>>
modVars    == <<module, aesd_major, regions, buffer, lines, tmp_block, blocks, node, opened,
                script, overlap, faults, writes, continued, unloads>>

At(s, pc) == script[s].pc = pc
Go(s, pc) == script' = [script EXCEPT ![s].pc = pc]
Exit(s) == script' = [script EXCEPT ![s] = [pc |-> "idle", majors |-> {}]]
Fault == faults < MaxFaults /\ faults' = faults + 1
NoFault == UNCHANGED faults

\* Regions that no loaded module will ever give back.
Orphans == IF module = "out" THEN regions ELSE regions \ {aesd_major}

Start(s, what) ==
  /\ At(s, "idle")
  /\ Go(s, what)
  /\ overlap' = (overlap \/ \E t \in Script : ~At(t, "idle"))
  /\ UNCHANGED <<kernelVars, heapVars, node, opened, faults, countVars>>

-----------------------------------------------------------------------------
(* insmod: aesd_init_module *)

\* alloc_chrdev_region.  A module of that name that is there already is refused
\* by insmod; modprobe, the script's other way, is content with it.
AllocRegion(s) ==
  /\ At(s, "insmod")
  /\ \/ \E m \in Major \ regions :
          /\ module = "out"
          /\ module' = "coming" /\ aesd_major' = m /\ regions' = regions \cup {m}
          /\ Go(s, "buffer") /\ NoFault
     \/ module = "out" /\ Exit(s) /\ Fault /\ UNCHANGED <<module, aesd_major, regions>>
     \/ module # "out" /\ Exit(s) /\ NoFault /\ UNCHANGED <<module, aesd_major, regions>>
     \/ module = "live" /\ Go(s, "awk") /\ NoFault /\ UNCHANGED <<module, aesd_major, regions>>
  /\ UNCHANGED <<buffer, heapVars, node, opened, overlap, countVars>>

\* The buffer itself; without memory the region is left registered.
AllocBuffer(s) ==
  /\ At(s, "buffer")
  /\ \/ /\ buffer' = TRUE /\ blocks' = blocks + 1
        /\ Go(s, "cdev") /\ NoFault /\ UNCHANGED module
     \/ module' = "out" /\ Exit(s) /\ Fault /\ UNCHANGED <<buffer, blocks>>
  /\ lines' = 0 /\ tmp_block' = "none"
  /\ UNCHANGED <<aesd_major, regions, node, opened, overlap, countVars>>

\* The error path returns the region and keeps the buffer.
RegionsAfterFailedAdd == regions \ {aesd_major}

\* aesd_setup_cdev: from here on the device answers.
AddCdev(s) ==
  /\ At(s, "cdev")
  /\ \/ module' = "live" /\ Go(s, "awk") /\ NoFault /\ UNCHANGED <<regions, buffer>>
     \/ /\ module' = "out" /\ regions' = RegionsAfterFailedAdd /\ buffer' = FALSE
        /\ Exit(s) /\ Fault
  /\ UNCHANGED <<aesd_major, heapVars, node, opened, overlap, countVars>>

-----------------------------------------------------------------------------
(* The rest of aesdchar_load *)

\* awk over /proc/devices: every major of that name, one a line.
ReadMajor(s) ==
  /\ At(s, "awk")
  /\ script' = [script EXCEPT ![s] = [pc |-> "rm", majors |-> regions]]
  /\ UNCHANGED <<kernelVars, heapVars, node, opened, overlap, faults, countVars>>

RemoveOldNode(s) ==
  /\ At(s, "rm")
  /\ node' = None
  /\ Go(s, "mknod")
  /\ UNCHANGED <<kernelVars, heapVars, opened, overlap, faults, countVars>>

\* The first of the majors is taken.
Bug_Operands(majors) == majors # {}
\* mknod takes one major; with none or several operands it fails, and set -e
\* ends the script.
Operands(majors) == Cardinality(majors) = 1

MakeNode(s) ==
  /\ At(s, "mknod")
  /\ IF node = None /\ Operands(script[s].majors)
       THEN \E m \in script[s].majors : node' = m
       ELSE UNCHANGED node
  /\ Exit(s)
  /\ UNCHANGED <<kernelVars, heapVars, opened, overlap, faults, countVars>>

-----------------------------------------------------------------------------
(* aesdchar_unload *)

\* A file_operations without its owner does not pin the module.
Bug_Unpinned == TRUE
Unpinned == opened = 0

\* An unload that keeps the buffer.
Bug_BlocksAfterUnload == blocks
BlocksAfterUnload == blocks - 1

\* rmmod: aesd_cleanup_module frees the buffer and none of its lines.
Rmmod(s) ==
  /\ At(s, "rmmod")
  /\ IF module = "live" /\ Unpinned
       THEN /\ module' = "out" /\ buffer' = FALSE /\ blocks' = BlocksAfterUnload
            /\ regions' = regions \ {aesd_major}
            /\ lines' = 0 /\ tmp_block' = "none" /\ unloads' = unloads + 1
            /\ Go(s, "rmnode")
       ELSE Exit(s) /\ UNCHANGED <<module, buffer, blocks, regions, lines, tmp_block, unloads>>
  /\ UNCHANGED <<aesd_major, node, opened, overlap, faults, writes, continued>>

RemoveNode(s) ==
  /\ At(s, "rmnode")
  /\ node' = None
  /\ Exit(s)
  /\ UNCHANGED <<kernelVars, heapVars, opened, overlap, faults, countVars>>

-----------------------------------------------------------------------------
(* Files on the device *)

Open ==
  /\ opened < MaxOpen
  /\ module = "live" /\ node = aesd_major
  /\ opened' = opened + 1
  /\ UNCHANGED <<kernelVars, heapVars, node, script, overlap, faults, countVars>>

Release ==
  /\ opened > 0
  /\ opened' = opened - 1
  /\ UNCHANGED <<kernelVars, heapVars, node, script, overlap, faults, countVars>>

\* The block that a line in a full ring takes the place of is freed.
Replaced == IF lines = MaxLines THEN 1 ELSE 0

\* add_entry: a new accumulator for every chunk, the old block not freed; a line
\* that is complete gets the block of its slot and frees the accumulator.
Write(last) ==
  LET chained == IF tmp_block = "live" THEN 1 ELSE 0
  IN  /\ opened > 0 /\ writes < MaxWrites
      /\ writes' = writes + 1
      /\ continued' = continued + chained
      /\ IF last
           THEN /\ tmp_block' = "freed"
                /\ lines' = lines + 1 - Replaced
                /\ blocks' = blocks + 1 - Replaced
           ELSE tmp_block' = "live" /\ blocks' = blocks + 1 /\ UNCHANGED lines
      /\ UNCHANGED <<kernelVars, node, opened, script, overlap, faults, unloads>>

ModInit ==
  /\ module = "out" /\ aesd_major = None /\ regions = {} /\ buffer = FALSE
  /\ lines = 0 /\ tmp_block = "none" /\ blocks = 0
  /\ node = None /\ opened = 0
  /\ script = [s \in Script |-> [pc |-> "idle", majors |-> {}]]
  /\ overlap = FALSE
  /\ faults = 0 /\ writes = 0 /\ continued = 0 /\ unloads = 0

ModNext ==
  \/ \E s \in Script :
       \/ Start(s, "insmod")
       \/ unloads < MaxUnloads /\ Start(s, "rmmod")
       \/ AllocRegion(s) \/ AllocBuffer(s) \/ AddCdev(s)
       \/ ReadMajor(s) \/ RemoveOldNode(s) \/ MakeNode(s)
       \/ Rmmod(s) \/ RemoveNode(s)
  \/ Open \/ Release
  \/ \E last \in BOOLEAN : Write(last)

ModSpec == ModInit /\ [][ModNext]_modVars
-----------------------------------------------------------------------------
(* Properties *)

Idle == \A s \in Script : At(s, "idle")

\* An open file always has a device behind it, whatever scripts run and fail in
\* the meantime: the module stays, with its buffer and its device number.
OpenFileHasDevice == opened > 0 => module = "live" /\ buffer /\ aesd_major \in regions

\* Scripts that run one after the other leave a node only for the loaded
\* device, and leave a loaded device without a node in one case: a load that
\* failed before left its region behind.
NodeMatchesDevice ==
  Idle /\ ~overlap =>
    /\ node # None => module = "live" /\ node = aesd_major
    /\ module = "live" /\ node = None => Orphans # {}

\* A load that fails for want of the buffer is final: its region is never given
\* back, and while it is registered no later aesdchar_load makes a node.
FailedLoadIsFinal ==
  [][/\ Orphans \subseteq regions'
     /\ node' \notin {node, None} /\ ~overlap' => Orphans = {}]_modVars

Reachable == (IF buffer THEN 1 ELSE 0) + lines + (IF tmp_block = "live" THEN 1 ELSE 0)
Leaked == blocks - Reachable

\* What is leaked, between loads as well: exactly one block for each chunk that
\* continues a line while nothing failed or was unloaded (none for whole lines),
\* at most MaxLines + 1 for an unload and one for a load that failed.
LeakBounds ==
  /\ continued <= Leaked
  /\ Leaked <= continued + faults + (MaxLines + 1) * unloads
=============================================================================
