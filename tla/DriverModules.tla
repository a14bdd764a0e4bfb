--------------------------- MODULE DriverModules ---------------------------
(***************************************************************************)
(* Insertion and removal of the two kernel modules, src/enzian_fpi.c and   *)
(* src/enzian_memory.c, while the programs src/receive_fpi.c and           *)
(* src/send_fpi.c open and use their devices and cores go off and online.  *)
(*                                                                         *)
(* The bodies of enzian_fpi_init, enzian_fpi_exit, enzian_memory_init and  *)
(* enzian_memory_exit are sequences of the kernel calls with an effect on  *)
(* the others; class_create and class_destroy have none.  Errors are at    *)
(* most warned about, so an insertion always succeeds.                     *)
(*                                                                         *)
(* External: char device regions and the map of cdevs, the module's use    *)
(* count (try_module_get), device nodes, CPU hotplug, and the enable bits  *)
(* of a per-CPU interrupt: one in the core, which is reset when the core   *)
(* comes online, and one in the kernel's mask, which is not.               *)
(*                                                                         *)
(* Bound: Majors device numbers.  The kernel has 149 dynamic ones; the     *)
(* insertion that finds none (and uses dev uninitialised) is left out.     *)
(***************************************************************************)
EXTENDS Naturals

CONSTANTS NCpus, Users, Majors, Nothing

ASSUME ModulesAssumption == NCpus \in Nat \ {0} /\ Majors \in Nat
ASSUME NothingAssumption ==
  /\ Nothing \notin 1 .. Majors
  /\ Nothing \notin [major : 1 .. Majors, driver : {"fpi", "fpgamem"}]

VARIABLES
  step,     \* next call of insmod or rmmod; "region" if the module is out
  major,    \* dev_major of the driver, Nothing before it has one
  node,     \* the device nodes in /dev
  regions,  \* allocated char device regions
  cdevs,    \* device numbers with an entry in the kernel's map
  queue,    \* wq is initialised
  mapped,   \* fpi_irq_no is an interrupt with the handler registered
  enabled,  \* cores whose enable bit of the interrupt is set
  marked,   \* cores in the kernel's mask of enabled cores
  cursor,   \* cpu_no of for_each_online_cpu
  online,   \* cores that are online
  pc,       \* what a user program does
  file,     \* device number and driver of the node it has found
  steady,   \* history: cores online ever since the insertion began
  calm      \* history: users that met neither insertion nor removal

device == <<regions, cdevs, node, major>>
interrupt == <<mapped, enabled, marked, cursor>>
cpus == <<online, steady>>
users == <<pc, file, calm>>
vars == <<step, device, queue, interrupt, cpus, users>>

Cpus == 1 .. NCpus
Drivers == {"fpi", "fpgamem"}
MinorMask == 1048575

(* The calls of enzian_fpi_init, rmmod and the calls of enzian_fpi_exit.   *)
FpiNext == [
  region |-> "cdev", cdev |-> "device", device |-> "queue", queue |-> "irq",
  irq |-> "enable", enable |-> "rmmod",
  rmmod |-> "disable", disable |-> "free", free |-> "destroy",
  destroy |-> "unregister", unregister |-> "region"]

FpgamemNext == [
  region |-> "cdev", cdev |-> "device", device |-> "rmmod",
  rmmod |-> "destroy", destroy |-> "unregister", unregister |-> "region"]

After(d) == IF d = "fpi" THEN FpiNext ELSE FpgamemNext
Advance(d) == step' = [step EXCEPT ![d] = After(d)[@]]
Exiting(d) == step[d] \in {"disable", "free", "destroy", "unregister"}
-----------------------------------------------------------------------------
Init ==
  /\ step = [d \in Drivers |-> "region"]
  /\ major = [d \in Drivers |-> Nothing]
  /\ node = {} /\ regions = {} /\ cdevs = {}
  /\ queue = FALSE /\ mapped = FALSE
  /\ enabled = {} /\ marked = {} /\ cursor = 0
  /\ online \in (SUBSET Cpus) \ {{}}
  /\ steady = {} /\ calm = {}
  /\ pc = [u \in Users |-> "idle"]
  /\ file = [u \in Users |-> Nothing]

(* Mutant: number 0, which asks for any number, is given out. *)
FreeFromZero == (0 .. Majors) \ {r.major : r \in regions}

Free == (1 .. Majors) \ {r.major : r \in regions}

(* insmod and the first call: the memory of the module is new, so its wait *)
(* queue and flags are zero.                                               *)
AllocChrdevRegion(d) ==
  /\ step[d] = "region"
  /\ \E m \in Free :
       /\ \A k \in Free : k =< m
       /\ major' = [major EXCEPT ![d] = m]
       /\ regions' = regions \union {[major |-> m, count |-> 1]}
  /\ IF d = "fpi"
     THEN queue' = FALSE /\ steady' = online
     ELSE UNCHANGED <<queue, steady>>
  /\ Advance(d)
  /\ UNCHANGED <<cdevs, node, mapped, enabled, marked, cursor, online, users>>

CdevAdd(d) ==
  /\ step[d] = "cdev"
  /\ cdevs' = cdevs \union {major[d]}
  /\ Advance(d)
  /\ UNCHANGED <<regions, node, major, queue, interrupt, cpus, users>>

DeviceCreate(d) ==
  /\ step[d] = "device"
  /\ node' = node \union {d}
  /\ Advance(d)
  /\ UNCHANGED <<regions, cdevs, major, queue, interrupt, cpus, users>>

(* Mutant: the queue is left as it is. *)
LeaveQueue ==
  /\ step["fpi"] = "queue"
  /\ Advance("fpi")
  /\ UNCHANGED <<device, queue, interrupt, cpus, users>>

InitWaitqueueHead ==
  /\ step["fpi"] = "queue"
  /\ queue' = TRUE
  /\ Advance("fpi")
  /\ UNCHANGED <<device, interrupt, cpus, users>>

(* A mapping that fails is interrupt 0, which the test err < 0 lets pass;  *)
(* registering a handler for it fails with a warning.                      *)
RequestPercpuIrq ==
  /\ step["fpi"] = "irq"
  /\ mapped' \in BOOLEAN
  /\ Advance("fpi")
  /\ UNCHANGED <<device, queue, enabled, marked, cursor, cpus, users>>

(* Mutant: the boot core is forgotten. *)
AheadOfBoot == {c \in online : c > cursor /\ c # 1}

(* for_each_online_cpu looks at the mask anew for every core. *)
Ahead == {c \in online : c > cursor}

Visit(s) ==
  /\ step["fpi"] = s
  /\ cursor' \in {c \in Ahead : \A k \in Ahead : c =< k}
  /\ UNCHANGED <<step, device, queue, mapped, cpus, users>>

EndOfWalk(s) ==
  /\ step["fpi"] = s /\ Ahead = {}
  /\ cursor' = 0
  /\ Advance("fpi")
  /\ UNCHANGED <<enabled, marked, device, queue, mapped, cpus, users>>

EnableOnCores ==
  \/ EndOfWalk("enable")
  \/ /\ Visit("enable")
     /\ enabled' = IF mapped THEN enabled \union {cursor'} ELSE enabled
     /\ marked' = IF mapped THEN marked \union {cursor'} ELSE marked

DisableOnCores ==
  \/ EndOfWalk("disable")
  \/ /\ Visit("disable")
     /\ enabled' = IF mapped THEN enabled \ {cursor'} ELSE enabled
     /\ marked' = IF mapped THEN marked \ {cursor'} ELSE marked

Inside(u, d) == pc[u] \in {"open", "asleep", "done"} /\ file[u].driver = d

(* Mutant: cdev.owner is not set. *)
PinsNothing(u, d) == FALSE

(* cdev.owner makes an open file a use of the module. *)
Pins(u, d) == Inside(u, d)

(* rmmod: the use count must be zero; from here on try_module_get fails. *)
Rmmod(d) ==
  /\ step[d] = "rmmod"
  /\ \A u \in Users : ~Pins(u, d)
  /\ Advance(d)
  /\ calm' = {u \in calm : pc[u] = "found" => file[u].driver # d}
  /\ UNCHANGED <<device, queue, interrupt, cpus, pc, file>>

(* Called with the interrupt enabled, free_percpu_irq warns and frees      *)
(* nothing; irq_dispose_mapping then drops the interrupt all the same.     *)
FreePercpuIrq ==
  /\ step["fpi"] = "free"
  /\ mapped' = FALSE /\ marked' = {}
  /\ Advance("fpi")
  /\ UNCHANGED <<device, queue, enabled, cursor, cpus, users>>

DeviceDestroy(d) ==
  /\ step[d] = "destroy"
  /\ node' = node \ {d}
  /\ Advance(d)
  /\ UNCHANGED <<regions, cdevs, major, queue, interrupt, cpus, users>>

(* A region is found by its number and its count; there is no cdev_del.    *)
(* With the return of the exit function the memory of the module is gone.  *)
UnregisterChrdevRegion(d) ==
  /\ step[d] = "unregister"
  /\ regions' = regions \ {[major |-> major[d], count |-> MinorMask]}
  /\ major' = [major EXCEPT ![d] = Nothing]
  /\ Advance(d)
  /\ UNCHANGED <<cdevs, node, queue, interrupt, cpus, users>>
-----------------------------------------------------------------------------
(* CPU hotplug *)

Offline(c) ==
  /\ c \in online /\ online # {c}
  /\ online' = online \ {c}
  /\ steady' = steady \ {c}
  /\ UNCHANGED <<step, device, queue, interrupt, users>>

Online(c) ==
  /\ c \in Cpus \ online
  /\ online' = online \union {c}
  /\ enabled' = enabled \ {c}
  /\ UNCHANGED <<step, device, queue, mapped, marked, cursor, steady,
                 users>>
-----------------------------------------------------------------------------
(* receive_fpi opens, reads and closes; send_fpi and the users of fpgamem  *)
(* open, make their call (ioctl, mmap) and close.                          *)

Goto(u, from, to) == pc[u] = from /\ pc' = [pc EXCEPT ![u] = to]
OnlyUsers == UNCHANGED <<step, device, queue, interrupt, cpus>>

(* The path of open: the node gives the device number. *)
Lookup(u, d) ==
  /\ d \in node
  /\ Goto(u, "idle", "found")
  /\ file' = [file EXCEPT ![u] = [major |-> major[d], driver |-> d]]
  /\ calm' = IF step[d] = "rmmod" THEN calm \union {u} ELSE calm \ {u}
  /\ OnlyUsers

(* The number gives the cdev: its memory may be gone with its module, or   *)
(* its module on its way out, which makes open fail.                       *)
ChrdevOpen(u) ==
  /\ pc[u] = "found"
  /\ LET owners == {d \in Drivers : major[d] = file[u].major}
     IN \/ file[u].major \in cdevs /\ owners = {} /\ Goto(u, "found", "crashed")
           /\ UNCHANGED file
        \/ \E d \in owners :
             /\ Goto(u, "found", IF Exiting(d) THEN "idle" ELSE "open")
             /\ file' = [file EXCEPT ![u] =
                           IF Exiting(d) THEN Nothing ELSE [@ EXCEPT !.driver = d]]
  /\ UNCHANGED calm
  /\ OnlyUsers

(* enzian_fpi_read until it sleeps: a queue of zeros has no list to join. *)
Read(u) ==
  /\ Inside(u, "fpi")
  /\ Goto(u, "open", IF queue THEN "asleep" ELSE "crashed")
  /\ UNCHANGED <<file, calm>>
  /\ OnlyUsers

(* An interrupt or a signal ends the read: EnzianFpi. *)
ReadReturns(u) ==
  /\ Goto(u, "asleep", "done")
  /\ UNCHANGED <<file, calm>>
  /\ OnlyUsers

OtherCall(u) ==
  /\ Goto(u, "open", "done")
  /\ UNCHANGED <<file, calm>>
  /\ OnlyUsers

Close(u) ==
  /\ Goto(u, "done", "idle")
  /\ file' = [file EXCEPT ![u] = Nothing]
  /\ calm' = calm \ {u}
  /\ OnlyUsers
-----------------------------------------------------------------------------
Insertion(d) ==
  AllocChrdevRegion(d) \/ CdevAdd(d) \/ DeviceCreate(d)

Removal(d) == Rmmod(d) \/ DeviceDestroy(d) \/ UnregisterChrdevRegion(d)

Interrupt ==
  InitWaitqueueHead \/ RequestPercpuIrq \/ EnableOnCores
    \/ DisableOnCores \/ FreePercpuIrq

Use(u) ==
  \/ \E d \in Drivers : Lookup(u, d)
  \/ ChrdevOpen(u) \/ Read(u) \/ ReadReturns(u) \/ OtherCall(u) \/ Close(u)

Next ==
  \/ \E d \in Drivers : Insertion(d) \/ Removal(d)
  \/ Interrupt
  \/ \E c \in Cpus : Offline(c) \/ Online(c)
  \/ \E u \in Users : Use(u)

Spec == Init /\ [][Next]_vars
-----------------------------------------------------------------------------
Numbers == 1 .. Majors
PCs == {"idle", "found", "open", "asleep", "done", "crashed"}

TypeOK ==
  /\ step \in [Drivers -> DOMAIN FpiNext] /\ step["fpgamem"] \in DOMAIN FpgamemNext
  /\ major \in [Drivers -> Numbers \union {Nothing}]
  /\ node \subseteq Drivers
  /\ regions \subseteq [major : Numbers, count : {1}] /\ cdevs \subseteq Numbers
  /\ queue \in BOOLEAN /\ mapped \in BOOLEAN
  /\ enabled \subseteq Cpus /\ marked \subseteq Cpus /\ cursor \in 0 .. NCpus
  /\ online \in (SUBSET Cpus) \ {{}} /\ steady \subseteq Cpus
  /\ pc \in [Users -> PCs] /\ calm \subseteq Users
  /\ file \in [Users -> [major : Numbers, driver : Drivers] \union {Nothing}]
  /\ \A u \in Users : pc[u] # "idle" => file[u] # Nothing

(***************************************************************************)
(* Nobody is inside a driver that is being removed or is gone, however the *)
(* look-up of its node, the open and rmmod interleave, and whatever number *)
(* a later insertion is given.                                             *)
(***************************************************************************)
NobodyInsideAGoneDriver ==
  \A u \in Users, d \in Drivers :
    Inside(u, d) => ~Exiting(d) /\ major[d] = file[u].major

(***************************************************************************)
(* A program crashes the kernel only if it found the node while the driver *)
(* was being inserted (the device appears before its wait queue) or was    *)
(* overtaken by the removal of the driver (the entry of its number points  *)
(* to memory that is gone).  Programs that start after insmod and end      *)
(* before rmmod are safe.                                                  *)
(***************************************************************************)
CrashNeedsARace == \A u \in Users : pc[u] = "crashed" => u \notin calm

(***************************************************************************)
(* The walks over the cores miss nobody who stays: while the driver is     *)
(* there, the interrupt is enabled on every core that has been online      *)
(* since the insertion began, and free_percpu_irq, which must not be       *)
(* called with the interrupt enabled, finds it enabled at most for a core  *)
(* that was offline meanwhile; whatever cores come and go during a walk.   *)
(* A core that comes online later has the interrupt disabled.              *)
(***************************************************************************)
WalksReachSteadyCores ==
  /\ mapped /\ step["fpi"] = "rmmod" => steady \subseteq enabled
  /\ step["fpi"] = "free" => marked \intersect steady = {}
=============================================================================
