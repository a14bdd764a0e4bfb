------------------------ MODULE DriverModulesProofs ------------------------
(***************************************************************************)
(* Proofs about the two kernel modules, for any number of cores, device    *)
(* numbers and programs.                                                   *)
(***************************************************************************)
EXTENDS DriverModules, TLAPS

(* A module has a number while it is there, and no other has the same.     *)
NumberInv ==
  /\ \A d \in Drivers : step[d] = "region" <=> major[d] = Nothing
  /\ \A d \in Drivers : major[d] # Nothing =>
       [major |-> major[d], count |-> 1] \in regions
  /\ \A d, e \in Drivers : d # e /\ major[d] # Nothing => major[d] # major[e]

(* A device node is there only while its module has a number.              *)
NodeInv == \A d \in node : step[d] \notin {"region", "unregister"}

(* The wait queue is initialised before the insertion is over.             *)
QueueInv ==
  step["fpi"] \notin {"region", "cdev", "device", "queue"} => queue

(* A calm program has found a module that is there, and stays.             *)
CalmInv ==
  \A u \in calm : pc[u] # "idle" =>
    /\ pc[u] # "crashed"
    /\ step[file[u].driver] = "rmmod"
    /\ major[file[u].driver] = file[u].major

(* The walk has passed the cores up to its cursor.                         *)
WalkInv ==
  /\ steady \subseteq online
  /\ step["fpi"] \notin {"enable", "disable"} => cursor = 0
  /\ ~mapped \/ step["fpi"] \notin {"enable", "rmmod", "disable", "free"}
       => marked = {}
  /\ mapped /\ step["fpi"] = "enable" =>
       \A c \in steady : c =< cursor => c \in enabled
  /\ step["fpi"] = "disable" => \A c \in marked \intersect steady : c > cursor
  /\ WalksReachSteadyCores

-----------------------------------------------------------------------------
(* What a step of insmod or rmmod does to the position of its module.      *)
LEMMA AdvanceStep ==
  ASSUME TypeOK, NEW d \in Drivers, Advance(d)
  PROVE  /\ step' = [step EXCEPT ![d] = After(d)[step[d]]]
         /\ step'[d] = After(d)[step[d]]
         /\ \A e \in Drivers \ {d} : step'[e] = step[e]
         /\ step' \in [Drivers -> DOMAIN FpiNext]
         /\ step'["fpgamem"] \in DOMAIN FpgamemNext
<1>1. step[d] \in DOMAIN After(d) /\ step \in [Drivers -> DOMAIN FpiNext]
  BY DEF TypeOK, After, Drivers
<1>2. /\ \A s \in DOMAIN FpiNext : FpiNext[s] \in DOMAIN FpiNext
      /\ \A s \in DOMAIN FpgamemNext : FpgamemNext[s] \in DOMAIN FpgamemNext
      /\ DOMAIN FpgamemNext \subseteq DOMAIN FpiNext
  BY DEF FpiNext, FpgamemNext
<1>3. After(d)[step[d]] \in DOMAIN After(d)
  BY <1>1, <1>2 DEF After
<1>4. After(d)[step[d]] \in DOMAIN FpiNext
  BY <1>2, <1>3 DEF After
<1>5. step' = [step EXCEPT ![d] = After(d)[step[d]]]
  BY DEF Advance
<1>6. step'["fpgamem"] \in DOMAIN FpgamemNext
  <2>1. CASE d = "fpgamem"
    BY <1>1, <1>3, <1>5, <2>1 DEF After
  <2>2. CASE d # "fpgamem"
    BY <1>1, <1>5, <2>2 DEF TypeOK, Drivers
  <2> QED
    BY <2>1, <2>2
<1> QED
  BY <1>1, <1>4, <1>5, <1>6

(* The order of the calls. *)
LEMMA Order ==
  /\ FpiNext["region"] = "cdev" /\ FpiNext["cdev"] = "device"
  /\ FpiNext["device"] = "queue" /\ FpiNext["queue"] = "irq"
  /\ FpiNext["irq"] = "enable" /\ FpiNext["enable"] = "rmmod"
  /\ FpiNext["rmmod"] = "disable" /\ FpiNext["disable"] = "free"
  /\ FpiNext["free"] = "destroy" /\ FpiNext["destroy"] = "unregister"
  /\ FpiNext["unregister"] = "region"
  /\ FpgamemNext["region"] = "cdev" /\ FpgamemNext["cdev"] = "device"
  /\ FpgamemNext["device"] = "rmmod" /\ FpgamemNext["rmmod"] = "destroy"
  /\ FpgamemNext["destroy"] = "unregister"
  /\ FpgamemNext["unregister"] = "region"
  BY DEF FpiNext, FpgamemNext

(* Before the first insertion nothing is there.                            *)
LEMMA InitTypeOK == Init => TypeOK /\ NumberInv /\ NodeInv /\ QueueInv
<1> SUFFICES ASSUME Init PROVE TypeOK /\ NumberInv /\ NodeInv /\ QueueInv
  OBVIOUS
<1>1. step \in [Drivers -> DOMAIN FpiNext] /\ step["fpgamem"] \in DOMAIN FpgamemNext
  BY DEF Init, FpiNext, FpgamemNext, Drivers
<1>2. cursor \in 0 .. NCpus
  BY ModulesAssumption DEF Init
<1>3. TypeOK
  BY <1>1, <1>2 DEF Init, TypeOK, Drivers, Cpus, PCs
<1> QED
  BY <1>3 DEF Init, NumberInv, NodeInv, QueueInv, Drivers

(* Every step keeps the types: a number that is given out or looked up is  *)
(* one of the kernel's.                                                    *)
LEMMA NextTypeOK == TypeOK /\ NumberInv /\ NodeInv /\ [Next]_vars => TypeOK'
<1> SUFFICES ASSUME TypeOK, NumberInv, NodeInv, [Next]_vars PROVE TypeOK'
  OBVIOUS
<1> USE DEF device, interrupt, cpus, users
<1>1. ASSUME NEW d \in Drivers, AllocChrdevRegion(d) PROVE TypeOK'
  <2>1. PICK m \in Free : /\ major' = [major EXCEPT ![d] = m]
                          /\ regions' = regions \union {[major |-> m, count |-> 1]}
    BY <1>1 DEF AllocChrdevRegion
  <2>2. m \in Numbers
    BY DEF Free, Numbers
  <2>3. major' \in [Drivers -> Numbers \union {Nothing}]
        /\ regions' \subseteq [major : Numbers, count : {1}]
    BY <2>1, <2>2 DEF TypeOK
  <2>4. queue' \in BOOLEAN /\ steady' \subseteq Cpus
    BY <1>1 DEF AllocChrdevRegion, TypeOK
  <2> QED
    BY <1>1, <2>3, <2>4, AdvanceStep DEF AllocChrdevRegion, TypeOK
<1>2. ASSUME NEW d \in Drivers, CdevAdd(d) PROVE TypeOK'
  <2>1. major[d] \in Numbers
    BY <1>2 DEF CdevAdd, NumberInv, TypeOK
  <2> QED
    BY <1>2, <2>1, AdvanceStep DEF CdevAdd, TypeOK
<1>3. ASSUME NEW d \in Drivers, DeviceCreate(d) \/ DeviceDestroy(d) PROVE TypeOK'
  BY <1>3, AdvanceStep DEF DeviceCreate, DeviceDestroy, TypeOK
<1>4. CASE InitWaitqueueHead \/ RequestPercpuIrq \/ FreePercpuIrq
  <2>1. "fpi" \in Drivers
    BY DEF Drivers
  <2> QED
    BY <1>4, <2>1, AdvanceStep
    DEF InitWaitqueueHead, RequestPercpuIrq, FreePercpuIrq, TypeOK
<1>5. CASE EnableOnCores \/ DisableOnCores
  <2>1. ASSUME NEW s \in {"enable", "disable"}, EndOfWalk(s) PROVE TypeOK'
    <3>1. "fpi" \in Drivers /\ 0 \in 0 .. NCpus
      BY ModulesAssumption DEF Drivers
    <3> QED
      BY <2>1, <3>1, AdvanceStep DEF EndOfWalk, TypeOK
  <2>2. ASSUME NEW s \in {"enable", "disable"}, Visit(s)
        PROVE  cursor' \in Cpus
    BY <2>2 DEF Visit, Ahead, TypeOK
  <2>3. CASE Visit("enable") /\ EnableOnCores /\ ~EndOfWalk("enable")
    <3>1. cursor' \in Cpus /\ cursor' \in 0 .. NCpus
      BY <2>2, <2>3 DEF Cpus
    <3>2. enabled' \subseteq Cpus /\ marked' \subseteq Cpus
      BY <2>3, <3>1 DEF EnableOnCores, TypeOK
    <3> QED
      BY <2>3, <3>1, <3>2 DEF Visit, TypeOK
  <2>4. CASE Visit("disable") /\ DisableOnCores /\ ~EndOfWalk("disable")
    <3>1. cursor' \in Cpus /\ cursor' \in 0 .. NCpus
      BY <2>2, <2>4 DEF Cpus
    <3>2. enabled' \subseteq Cpus /\ marked' \subseteq Cpus
      BY <2>4, <3>1 DEF DisableOnCores, TypeOK
    <3> QED
      BY <2>4, <3>1, <3>2 DEF Visit, TypeOK
  <2> QED
    BY <1>5, <2>1, <2>3, <2>4 DEF EnableOnCores, DisableOnCores
<1>6. ASSUME NEW d \in Drivers, Rmmod(d) PROVE TypeOK'
  BY <1>6, AdvanceStep DEF Rmmod, TypeOK
<1>7. ASSUME NEW d \in Drivers, UnregisterChrdevRegion(d) PROVE TypeOK'
  BY <1>7, AdvanceStep DEF UnregisterChrdevRegion, TypeOK
<1>8. ASSUME NEW c \in Cpus, Offline(c) \/ Online(c) PROVE TypeOK'
  BY <1>8 DEF Offline, Online, TypeOK
<1>9. ASSUME NEW u \in Users, NEW d \in Drivers, Lookup(u, d) PROVE TypeOK'
  <2>1. major[d] \in Numbers
    BY <1>9 DEF Lookup, NodeInv, NumberInv, TypeOK
  <2>2. [major |-> major[d], driver |-> d] # Nothing
        /\ [major |-> major[d], driver |-> d] \in [major : Numbers, driver : Drivers]
    BY <2>1, NothingAssumption DEF Numbers, Drivers
  <2> QED
    BY <1>9, <2>2 DEF Lookup, Goto, OnlyUsers, TypeOK, PCs
<1>10. ASSUME NEW u \in Users, ChrdevOpen(u) PROVE TypeOK'
  <2>1. file[u] \in [major : Numbers, driver : Drivers]
    BY <1>10 DEF ChrdevOpen, TypeOK
  <2>2. ASSUME NEW d \in Drivers
        PROVE  /\ [file[u] EXCEPT !.driver = d] \in [major : Numbers, driver : Drivers]
               /\ [file[u] EXCEPT !.driver = d] # Nothing
    BY <2>1, NothingAssumption DEF Numbers, Drivers
  <2>3. CASE Goto(u, "found", "crashed") /\ UNCHANGED <<file, calm>>
    BY <1>10, <2>3 DEF ChrdevOpen, Goto, OnlyUsers, TypeOK, PCs
  <2>4. ASSUME NEW d \in Drivers,
               Goto(u, "found", IF Exiting(d) THEN "idle" ELSE "open"),
               file' = [file EXCEPT ![u] =
                         IF Exiting(d) THEN Nothing ELSE [@ EXCEPT !.driver = d]]
        PROVE  TypeOK'
    <3>1. CASE Exiting(d)
      BY <1>10, <2>4, <3>1 DEF ChrdevOpen, Goto, OnlyUsers, TypeOK, PCs
    <3>2. CASE ~Exiting(d)
      <4>1. file' = [file EXCEPT ![u] = [file[u] EXCEPT !.driver = d]]
        BY <2>4, <3>2
      <4>2. pc' = [pc EXCEPT ![u] = "open"]
        BY <2>4, <3>2 DEF Goto
      <4> QED
        BY <1>10, <4>1, <4>2, <2>2 DEF ChrdevOpen, OnlyUsers, TypeOK, PCs
    <3> QED
      BY <3>1, <3>2
  <2> QED
    BY <1>10, <2>3, <2>4 DEF ChrdevOpen
<1>11. ASSUME NEW u \in Users, Read(u) \/ ReadReturns(u) \/ OtherCall(u) \/ Close(u)
       PROVE  TypeOK'
  BY <1>11 DEF Read, ReadReturns, OtherCall, Close, Goto, OnlyUsers, TypeOK, PCs
<1>12. CASE UNCHANGED vars
  BY <1>12 DEF vars, TypeOK
<1> QED
  BY <1>1, <1>2, <1>3, <1>4, <1>5, <1>6, <1>7, <1>8, <1>9, <1>10, <1>11, <1>12
  DEF Next, Insertion, Removal, Interrupt, Use

(* The calls that follow one another.                                      *)
LEMMA Moves ==
  ASSUME TypeOK, NEW d \in Drivers, Advance(d)
  PROVE  /\ step[d] = "region" => step'[d] = "cdev"
         /\ step[d] = "cdev" => step'[d] = "device"
         /\ step[d] = "device" => step'[d] = IF d = "fpi" THEN "queue" ELSE "rmmod"
         /\ step[d] = "rmmod" => step'[d] = IF d = "fpi" THEN "disable" ELSE "destroy"
         /\ step[d] = "destroy" => step'[d] = "unregister"
         /\ step[d] = "unregister" => step'[d] = "region"
         /\ d = "fpi" =>
              /\ step[d] = "queue" => step'[d] = "irq"
              /\ step[d] = "irq" => step'[d] = "enable"
              /\ step[d] = "enable" => step'[d] = "rmmod"
              /\ step[d] = "disable" => step'[d] = "free"
              /\ step[d] = "free" => step'[d] = "destroy"
<1>1. step'[d] = After(d)[step[d]]
  BY AdvanceStep
<1> QED
  BY <1>1, Order DEF After

(* A step that moves a module on within its life keeps its number.         *)
LEMMA QuietAdvance ==
  ASSUME TypeOK, NumberInv, NodeInv, NEW d \in Drivers, Advance(d),
         step[d] # "region", step'[d] # "region", UNCHANGED <<major, regions>>,
         node' \subseteq node \union {d},
         step'[d] = "unregister" => d \notin node'
  PROVE  NumberInv' /\ NodeInv'
<1>1. \A e \in Drivers \ {d} : step'[e] = step[e]
  BY AdvanceStep
<1>2. node \subseteq Drivers
  BY DEF TypeOK
<1> QED
  BY <1>1, <1>2 DEF NumberInv, NodeInv

(* The number given out is free, and no other insertion can take it before *)
(* the removal: a region once allocated stays.                             *)
LEMMA NextNumberInv ==
  TypeOK /\ NumberInv /\ NodeInv /\ [Next]_vars => NumberInv' /\ NodeInv'
<1> SUFFICES ASSUME TypeOK, NumberInv, NodeInv, [Next]_vars
             PROVE  NumberInv' /\ NodeInv'
  OBVIOUS
<1> USE DEF device, interrupt, cpus, users
<1>1. ASSUME NEW d \in Drivers, AllocChrdevRegion(d) PROVE NumberInv' /\ NodeInv'
  <2>1. PICK m \in Free : /\ major' = [major EXCEPT ![d] = m]
                          /\ regions' = regions \union {[major |-> m, count |-> 1]}
    BY <1>1 DEF AllocChrdevRegion
  <2>2. /\ step[d] = "region" /\ step'[d] = "cdev"
        /\ \A e \in Drivers \ {d} : step'[e] = step[e]
    BY <1>1, AdvanceStep, Moves DEF AllocChrdevRegion
  <2>3. m # Nothing
    BY NothingAssumption DEF Free
  <2>4. \A r \in regions : r.major # m
    BY DEF Free
  <2>5. \A e \in Drivers : major[e] # Nothing => major[e] # m
    BY <2>4 DEF NumberInv
  <2>6. major'[d] = m /\ \A e \in Drivers \ {d} : major'[e] = major[e]
    BY <2>1 DEF TypeOK
  <2>7. NumberInv'
    BY <2>1, <2>2, <2>3, <2>5, <2>6 DEF NumberInv
  <2>8. NodeInv'
    BY <1>1, <2>2 DEF NodeInv, AllocChrdevRegion, TypeOK
  <2> QED
    BY <2>7, <2>8
<1>2. ASSUME NEW d \in Drivers, UnregisterChrdevRegion(d)
      PROVE  NumberInv' /\ NodeInv'
  <2>1. /\ step[d] = "unregister" /\ step'[d] = "region"
        /\ \A e \in Drivers \ {d} : step'[e] = step[e]
    BY <1>2, AdvanceStep, Moves DEF UnregisterChrdevRegion
  <2>2. major'[d] = Nothing /\ \A e \in Drivers \ {d} : major'[e] = major[e]
    BY <1>2 DEF UnregisterChrdevRegion, TypeOK
  <2>3. regions' = regions
    <3>1. \A r \in regions : r.count # MinorMask
      BY DEF TypeOK, MinorMask
    <3>2. [major |-> major[d], count |-> MinorMask] \notin regions
      BY <3>1
    <3> QED
      BY <1>2, <3>2 DEF UnregisterChrdevRegion
  <2>4. NumberInv'
    BY <2>1, <2>2, <2>3 DEF NumberInv
  <2>5. NodeInv'
    BY <1>2, <2>1 DEF NodeInv, UnregisterChrdevRegion, TypeOK
  <2> QED
    BY <2>4, <2>5
<1>3. ASSUME NEW d \in Drivers,
             CdevAdd(d) \/ DeviceCreate(d) \/ Rmmod(d) \/ DeviceDestroy(d)
      PROVE  NumberInv' /\ NodeInv'
  <2>1. /\ step[d] # "region" /\ step'[d] # "region" /\ Advance(d)
        /\ step'[d] = "unregister" => d \notin node'
    BY <1>3, Moves DEF CdevAdd, DeviceCreate, Rmmod, DeviceDestroy
  <2> QED
    BY <1>3, <2>1, QuietAdvance DEF CdevAdd, DeviceCreate, Rmmod, DeviceDestroy
<1>4. CASE InitWaitqueueHead \/ RequestPercpuIrq \/ FreePercpuIrq
             \/ EndOfWalk("enable") \/ EndOfWalk("disable")
  <2>1. "fpi" \in Drivers
    BY DEF Drivers
  <2>2. /\ step["fpi"] # "region" /\ step'["fpi"] # "region" /\ Advance("fpi")
        /\ step'["fpi"] # "unregister"
    BY <1>4, <2>1, Moves
    DEF InitWaitqueueHead, RequestPercpuIrq, FreePercpuIrq, EndOfWalk
  <2> QED
    BY <1>4, <2>1, <2>2, QuietAdvance
    DEF InitWaitqueueHead, RequestPercpuIrq, FreePercpuIrq, EndOfWalk
<1>5. CASE UNCHANGED <<step, major, regions, node>>
  BY <1>5 DEF NumberInv, NodeInv
<1> QED
  BY <1>1, <1>2, <1>3, <1>4, <1>5
  DEF Next, Insertion, Removal, Interrupt, Use, EnableOnCores, DisableOnCores,
      Visit, Offline, Online, Lookup, ChrdevOpen, Read, ReadReturns, OtherCall,
      Close, OnlyUsers, vars

(* From InitWaitqueueHead on the queue is there, until the next insertion. *)
LEMMA NextQueueInv == TypeOK /\ QueueInv /\ [Next]_vars => QueueInv'
<1> SUFFICES ASSUME TypeOK, QueueInv, [Next]_vars PROVE QueueInv'
  OBVIOUS
<1> USE DEF device, interrupt, cpus, users
<1>0. "fpi" \in Drivers
  BY DEF Drivers
<1>1. ASSUME NEW d \in Drivers, Insertion(d) \/ Removal(d) PROVE QueueInv'
  <2>1. Advance(d)
    BY <1>1 DEF Insertion, Removal, AllocChrdevRegion, CdevAdd, DeviceCreate,
       Rmmod, DeviceDestroy, UnregisterChrdevRegion
  <2>2. CASE d = "fpi"
    BY <1>1, <2>1, <2>2, Moves
    DEF Insertion, Removal, AllocChrdevRegion, CdevAdd, DeviceCreate, Rmmod,
        DeviceDestroy, UnregisterChrdevRegion, QueueInv
  <2>3. CASE d # "fpi"
    <3>1. step'["fpi"] = step["fpi"]
      BY <1>0, <2>1, <2>3, AdvanceStep
    <3> QED
      BY <1>1, <2>3, <3>1
      DEF Insertion, Removal, AllocChrdevRegion, CdevAdd, DeviceCreate, Rmmod,
          DeviceDestroy, UnregisterChrdevRegion, QueueInv
  <2> QED
    BY <2>2, <2>3
<1>2. CASE Interrupt
  <2>1. CASE InitWaitqueueHead
    BY <2>1 DEF InitWaitqueueHead, QueueInv
  <2>2. CASE RequestPercpuIrq \/ FreePercpuIrq \/ EndOfWalk("enable")
               \/ EndOfWalk("disable")
    BY <1>0, <2>2, Moves
    DEF RequestPercpuIrq, FreePercpuIrq, EndOfWalk, QueueInv
  <2>3. CASE Visit("enable") \/ Visit("disable")
    BY <2>3 DEF Visit, QueueInv
  <2> QED
    BY <1>2, <2>1, <2>2, <2>3 DEF Interrupt, EnableOnCores, DisableOnCores
<1>3. CASE UNCHANGED <<step, queue>>
  BY <1>3 DEF QueueInv
<1> QED
  BY <1>1, <1>2, <1>3
  DEF Next, Use, Offline, Online, Lookup, ChrdevOpen, Read, ReadReturns,
      OtherCall, Close, OnlyUsers, vars

(* What a step of insmod or rmmod does to the users: nothing; only Rmmod   *)
(* looks at them and changes who is calm.                                  *)
LEMMA DriverStep ==
  ASSUME TypeOK, [Next]_vars
  PROVE  \/ \E d \in Drivers : AllocChrdevRegion(d)
         \/ \E d \in Drivers : Rmmod(d)
         \/ \E d \in Drivers : UnregisterChrdevRegion(d)
         \/ \E d \in Drivers :
              /\ Advance(d) /\ step[d] \notin {"region", "rmmod", "unregister"}
              /\ Exiting(d)' => Exiting(d)
              /\ UNCHANGED <<major, pc, file, calm>>
         \/ UNCHANGED <<step, major, pc, file, calm>>
         \/ \E u \in Users : Use(u)
<1> USE DEF device, interrupt, cpus, users
<1>1. ASSUME NEW d \in Drivers,
             CdevAdd(d) \/ DeviceCreate(d) \/ DeviceDestroy(d)
      PROVE  /\ Advance(d) /\ step[d] \notin {"region", "rmmod", "unregister"}
             /\ Exiting(d)' => Exiting(d)
             /\ UNCHANGED <<major, pc, file, calm>>
  BY <1>1, Moves DEF CdevAdd, DeviceCreate, DeviceDestroy, Exiting
<1>2. CASE InitWaitqueueHead \/ RequestPercpuIrq \/ FreePercpuIrq
             \/ EndOfWalk("enable") \/ EndOfWalk("disable")
  <2>1. "fpi" \in Drivers
    BY DEF Drivers
  <2>2. /\ Advance("fpi") /\ step["fpi"] \notin {"region", "rmmod", "unregister"}
        /\ Exiting("fpi")' => Exiting("fpi")
        /\ UNCHANGED <<major, pc, file, calm>>
    BY <1>2, <2>1, Moves
    DEF InitWaitqueueHead, RequestPercpuIrq, FreePercpuIrq, EndOfWalk, Exiting
  <2> QED
    BY <2>1, <2>2
<1> QED
  BY <1>1, <1>2
  DEF Next, Insertion, Removal, Interrupt, EnableOnCores, DisableOnCores, Visit,
      Offline, Online, vars

(* Nobody is inside a driver on its way out: its removal began with nobody *)
(* inside, and an open that finds it on its way out fails.                 *)
LEMMA NextNobodyInside ==
  TypeOK /\ NumberInv /\ NobodyInsideAGoneDriver /\ [Next]_vars
    => NobodyInsideAGoneDriver'
<1> SUFFICES ASSUME TypeOK, NumberInv, NobodyInsideAGoneDriver, [Next]_vars,
                    NEW u \in Users, NEW e \in Drivers, Inside(u, e)'
             PROVE  ~Exiting(e)' /\ major'[e] = file'[u].major
  BY DEF NobodyInsideAGoneDriver
<1> USE DEF device, interrupt, cpus, users
<1>1. ASSUME NEW d \in Drivers,
             AllocChrdevRegion(d) \/ Rmmod(d) \/ UnregisterChrdevRegion(d)
      PROVE  ~Exiting(e)' /\ major'[e] = file'[u].major
  <2>1. Inside(u, e) /\ UNCHANGED <<pc, file>>
    BY <1>1 DEF AllocChrdevRegion, Rmmod, UnregisterChrdevRegion, Inside
  <2>2. ~Exiting(e) /\ major[e] = file[u].major
    BY <2>1 DEF NobodyInsideAGoneDriver
  <2>3. major[e] # Nothing
    <3>1. file[u] \in [major : Numbers, driver : Drivers]
      BY <2>1 DEF Inside, TypeOK
    <3> QED
      BY <2>2, <3>1, NothingAssumption DEF Numbers
  <2>4. d # e
    BY <1>1, <2>1, <2>2, <2>3
    DEF AllocChrdevRegion, Rmmod, UnregisterChrdevRegion, Pins, Exiting, NumberInv
  <2>5. step'[e] = step[e]
    BY <1>1, <2>4, AdvanceStep
    DEF AllocChrdevRegion, Rmmod, UnregisterChrdevRegion
  <2>6. major'[e] = major[e]
    BY <1>1, <2>4 DEF AllocChrdevRegion, Rmmod, UnregisterChrdevRegion, TypeOK
  <2> QED
    BY <2>1, <2>2, <2>5, <2>6 DEF Exiting
<1>2. ASSUME NEW d \in Drivers, Advance(d), Exiting(d)' => Exiting(d),
             UNCHANGED <<major, pc, file, calm>>
      PROVE  ~Exiting(e)' /\ major'[e] = file'[u].major
  <2>1. Inside(u, e)
    BY <1>2 DEF Inside
  <2>2. Exiting(e)' => Exiting(e)
    BY <1>2, AdvanceStep DEF Exiting
  <2> QED
    BY <1>2, <2>1, <2>2 DEF NobodyInsideAGoneDriver
<1>3. CASE UNCHANGED <<step, major, pc, file, calm>>
  BY <1>3 DEF NobodyInsideAGoneDriver, Inside, Exiting
<1>4. ASSUME NEW w \in Users, Use(w)
      PROVE  ~Exiting(e)' /\ major'[e] = file'[u].major
  <2>1. UNCHANGED <<step, major>>
    BY <1>4 DEF Use, Lookup, ChrdevOpen, Read, ReadReturns, OtherCall, Close, OnlyUsers
  <2>2. CASE Inside(u, e) /\ file'[u] = file[u]
    BY <2>1, <2>2 DEF NobodyInsideAGoneDriver, Exiting
  <2>3. CASE ~(Inside(u, e) /\ file'[u] = file[u])
    <3>1. w = u
      BY <1>4, <2>3
      DEF Use, Lookup, ChrdevOpen, Read, ReadReturns, OtherCall, Close, Goto,
          TypeOK, Inside
    <3>2. ChrdevOpen(u)
      BY <1>4, <2>3, <3>1
      DEF Use, Lookup, ChrdevOpen, Read, ReadReturns, OtherCall, Close, Goto,
          TypeOK, Inside
    <3>3. pc'[u] \notin {"idle", "crashed"}
      BY DEF Inside
    <3>4. PICK d \in Drivers :
            /\ major[d] = file[u].major
            /\ Goto(u, "found", IF Exiting(d) THEN "idle" ELSE "open")
            /\ file' = [file EXCEPT ![u] =
                          IF Exiting(d) THEN Nothing ELSE [@ EXCEPT !.driver = d]]
      BY <3>2, <3>3 DEF ChrdevOpen, Goto, TypeOK
    <3>5. ~Exiting(d)
      BY <3>3, <3>4 DEF Goto, TypeOK
    <3>6. file[u] \in [major : Numbers, driver : Drivers]
      BY <3>2 DEF ChrdevOpen, Goto, TypeOK
    <3>7. file'[u] = [file[u] EXCEPT !.driver = d]
      BY <3>4, <3>5 DEF TypeOK
    <3>8. file'[u].driver = d /\ file'[u].major = file[u].major
      BY <3>6, <3>7
    <3> QED
      BY <2>1, <3>4, <3>5, <3>8 DEF Inside, Exiting
  <2> QED
    BY <2>2, <2>3
<1> QED
  BY <1>1, <1>2, <1>3, <1>4, DriverStep

(* A calm program opens the driver it looked up, finds its queue, and pins *)
(* its module until it closes.                                             *)
LEMMA NextCalmInv ==
  TypeOK /\ NumberInv /\ QueueInv /\ CalmInv /\ [Next]_vars => CalmInv'
<1> SUFFICES ASSUME TypeOK, NumberInv, QueueInv, CalmInv, [Next]_vars,
                    NEW u \in calm', pc'[u] # "idle"
             PROVE  /\ pc'[u] # "crashed"
                    /\ step'[file'[u].driver] = "rmmod"
                    /\ major'[file'[u].driver] = file'[u].major
  BY DEF CalmInv
<1> DEFINE Calm == /\ pc'[u] # "crashed"
                   /\ step'[file'[u].driver] = "rmmod"
                   /\ major'[file'[u].driver] = file'[u].major
<1> USE DEF device, interrupt, cpus, users
<1>1. ASSUME NEW d \in Drivers, Advance(d), UNCHANGED <<pc, file>>, u \in calm,
             step[d] # "rmmod" \/ file[u].driver # d,
             \A e \in Drivers \ {d} : major'[e] = major[e]
      PROVE  Calm
  <2>1. /\ pc[u] \notin {"idle", "crashed"} /\ step[file[u].driver] = "rmmod"
        /\ major[file[u].driver] = file[u].major
    BY <1>1 DEF CalmInv
  <2>2. file[u].driver \in Drivers \ {d}
    BY <1>1, <2>1 DEF TypeOK
  <2> QED
    BY <1>1, <2>1, <2>2, AdvanceStep
<1>2. ASSUME NEW d \in Drivers,
             AllocChrdevRegion(d) \/ UnregisterChrdevRegion(d)
      PROVE  Calm
  <2>1. /\ Advance(d) /\ UNCHANGED <<pc, file, calm>> /\ step[d] # "rmmod"
        /\ \A e \in Drivers \ {d} : major'[e] = major[e]
    BY <1>2 DEF AllocChrdevRegion, UnregisterChrdevRegion, TypeOK
  <2> QED
    BY <1>1, <2>1
<1>3. ASSUME NEW d \in Drivers, Rmmod(d) PROVE Calm
  <2>1. Advance(d) /\ UNCHANGED <<pc, file, major>> /\ u \in calm
    BY <1>3 DEF Rmmod
  <2>2. pc[u] \in {"found", "open", "asleep", "done"}
    BY <2>1 DEF CalmInv, TypeOK, PCs
  <2>3. file[u].driver # d
    BY <1>3, <2>1, <2>2 DEF Rmmod, Pins, Inside, TypeOK
  <2> QED
    BY <1>1, <2>1, <2>3
<1>4. ASSUME NEW d \in Drivers, Advance(d), step[d] # "rmmod",
             UNCHANGED <<major, pc, file, calm>>
      PROVE  Calm
  BY <1>1, <1>4
<1>5. CASE UNCHANGED <<step, major, pc, file, calm>>
  BY <1>5 DEF CalmInv
<1>6. ASSUME NEW w \in Users, Use(w) PROVE Calm
  <2>1. UNCHANGED <<step, major, queue>>
    BY <1>6 DEF Use, Lookup, ChrdevOpen, Read, ReadReturns, OtherCall, Close, OnlyUsers
  <2>2. CASE u # w
    <3>1. u \in calm /\ pc'[u] = pc[u] /\ file'[u] = file[u]
      BY <1>6, <2>2
      DEF Use, Lookup, ChrdevOpen, Read, ReadReturns, OtherCall, Close, Goto, TypeOK
    <3> QED
      BY <2>1, <3>1 DEF CalmInv
  <2>3. ASSUME NEW d \in Drivers, Lookup(u, d) PROVE Calm
    <3>1. step[d] = "rmmod" /\ pc'[u] = "found"
          /\ file'[u] = [major |-> major[d], driver |-> d]
      BY <2>3 DEF Lookup, Goto, TypeOK
    <3> QED
      BY <2>1, <3>1
  <2>4. CASE ChrdevOpen(u)
    <3>1. u \in calm /\ pc[u] = "found"
      BY <2>4 DEF ChrdevOpen, Goto
    <3>2. file[u] \in [major : Numbers, driver : Drivers]
      BY <3>1 DEF TypeOK
    <3>3. step[file[u].driver] = "rmmod" /\ major[file[u].driver] = file[u].major
      BY <3>1 DEF CalmInv
    <3>4. \A d \in Drivers : major[d] = file[u].major => d = file[u].driver
      BY <3>2, <3>3, NothingAssumption DEF NumberInv, Numbers
    <3>5. ~Exiting(file[u].driver)
      BY <3>3 DEF Exiting
    <3>6. /\ Goto(u, "found", "open")
          /\ file' = [file EXCEPT ![u] = [file[u] EXCEPT !.driver = file[u].driver]]
      BY <2>4, <3>2, <3>3, <3>4, <3>5 DEF ChrdevOpen
    <3>7. pc'[u] = "open"
      BY <3>1, <3>6 DEF Goto, TypeOK
    <3>8. file'[u] = [file[u] EXCEPT !.driver = file[u].driver]
      BY <3>1, <3>6 DEF TypeOK
    <3>9. file'[u].driver = file[u].driver /\ file'[u].major = file[u].major
      BY <3>2, <3>8
    <3> QED
      BY <2>1, <3>3, <3>7, <3>9
  <2>5. CASE Read(u)
    <3>1. u \in calm /\ pc[u] = "open" /\ file[u].driver = "fpi"
          /\ UNCHANGED file
      BY <2>5 DEF Read, Goto, Inside
    <3>2. step["fpi"] = "rmmod"
      BY <3>1 DEF CalmInv
    <3>3. queue
      BY <3>2 DEF QueueInv
    <3>4. pc'[u] = "asleep"
      BY <2>5, <3>3 DEF Read, Goto, TypeOK
    <3> QED
      BY <2>1, <3>1, <3>4 DEF CalmInv
  <2>6. CASE ReadReturns(u) \/ OtherCall(u)
    <3>1. u \in calm /\ pc[u] # "idle" /\ pc'[u] = "done" /\ UNCHANGED file
      BY <2>6 DEF ReadReturns, OtherCall, Goto, TypeOK
    <3> QED
      BY <2>1, <3>1 DEF CalmInv
  <2>7. CASE Close(u)
    BY <2>7 DEF Close
  <2> QED
    BY <1>6, <2>2, <2>3, <2>4, <2>5, <2>6, <2>7 DEF Use
<1> QED
  BY <1>2, <1>3, <1>4, <1>5, <1>6, DriverStep

(* Cores are counted from one, the cursor from zero.                       *)
LEMMA CoreNumbers ==
  ASSUME TypeOK
  PROVE  /\ cursor \in Nat
         /\ \A c \in online \union steady : c \in Nat /\ c > 0
<1>1. \A c \in Cpus : c \in Nat /\ c > 0
  BY ModulesAssumption DEF Cpus
<1>2. online \subseteq Cpus /\ steady \subseteq Cpus
  BY DEF TypeOK
<1>3. cursor \in Nat
  BY ModulesAssumption DEF TypeOK
<1> QED
  BY <1>1, <1>2, <1>3

(* The steps of insmod and rmmod that are not about the interrupt leave    *)
(* the walks alone.                                                        *)
LEMMA OtherCalls ==
  ASSUME TypeOK, WalkInv, NEW d \in Drivers, Insertion(d) \/ Removal(d)
  PROVE  WalkInv'
<1> USE DEF device, interrupt, cpus, users
<1>0. "fpi" \in Drivers
  BY DEF Drivers
<1>1. Advance(d) /\ UNCHANGED <<mapped, enabled, marked, cursor, online>>
  BY DEF Insertion, Removal, AllocChrdevRegion, CdevAdd, DeviceCreate, Rmmod,
     DeviceDestroy, UnregisterChrdevRegion
<1>2. CASE d # "fpi"
  <2>1. step'["fpi"] = step["fpi"]
    BY <1>0, <1>1, <1>2, AdvanceStep
  <2>2. steady' = steady
    BY <1>2 DEF Insertion, Removal, AllocChrdevRegion, CdevAdd, DeviceCreate,
       Rmmod, DeviceDestroy, UnregisterChrdevRegion
  <2> QED
    BY <1>1, <2>1, <2>2 DEF WalkInv, WalksReachSteadyCores
<1>3. CASE d = "fpi" /\ Rmmod("fpi")
  <2>1. /\ step["fpi"] = "rmmod" /\ step'["fpi"] = "disable" /\ cursor = 0
        /\ UNCHANGED steady
    BY <1>0, <1>1, <1>3, Moves DEF Rmmod, WalkInv
  <2>2. \A c \in steady : c > 0
    BY CoreNumbers
  <2> QED
    BY <1>1, <2>1, <2>2 DEF WalkInv, WalksReachSteadyCores
<1>4. CASE d = "fpi" /\ ~Rmmod("fpi")
  <2>1. /\ step["fpi"] \notin {"enable", "rmmod", "disable", "free"}
        /\ step'["fpi"] \notin {"enable", "rmmod", "disable", "free"}
    BY <1>0, <1>1, <1>4, Moves
    DEF Insertion, Removal, AllocChrdevRegion, CdevAdd, DeviceCreate,
        DeviceDestroy, UnregisterChrdevRegion
  <2>2. steady' \subseteq online
    BY <1>4 DEF Insertion, Removal, AllocChrdevRegion, CdevAdd, DeviceCreate,
       DeviceDestroy, UnregisterChrdevRegion, WalkInv
  <2> QED
    BY <1>1, <2>1, <2>2 DEF WalkInv, WalksReachSteadyCores
<1> QED
  BY <1>2, <1>3, <1>4

(* A walk goes to the lowest core ahead: the steady ones are online and so *)
(* passed over by none of its steps.                                       *)
LEMMA NextWalkInv == TypeOK /\ WalkInv /\ [Next]_vars => WalkInv'
<1> SUFFICES ASSUME TypeOK, WalkInv, [Next]_vars PROVE WalkInv'
  OBVIOUS
<1> USE DEF device, interrupt, cpus, users
<1>0. /\ "fpi" \in Drivers /\ cursor \in Nat
      /\ \A c \in online : c \in Nat /\ c > 0
      /\ steady \subseteq online
  BY CoreNumbers DEF Drivers, WalkInv
<1>1. CASE InitWaitqueueHead \/ RequestPercpuIrq
  <2>1. /\ step["fpi"] \in {"queue", "irq"} /\ step'["fpi"] \in {"irq", "enable"}
        /\ UNCHANGED <<enabled, marked, cursor, online, steady>>
    BY <1>0, <1>1, Moves DEF InitWaitqueueHead, RequestPercpuIrq
  <2>2. marked = {} /\ cursor = 0
    BY <2>1 DEF WalkInv
  <2>3. \A c \in steady : ~(c =< 0)
    BY <1>0
  <2> QED
    BY <1>0, <2>1, <2>2, <2>3 DEF WalkInv, WalksReachSteadyCores
<1>2. CASE FreePercpuIrq
  <2>1. /\ step'["fpi"] = "destroy" /\ mapped' = FALSE /\ marked' = {}
        /\ step["fpi"] = "free" /\ UNCHANGED <<cursor, online, steady>>
    BY <1>0, <1>2, Moves DEF FreePercpuIrq
  <2> QED
    BY <2>1 DEF WalkInv, WalksReachSteadyCores
<1>3. ASSUME NEW s \in {"enable", "disable"}, EndOfWalk(s) PROVE WalkInv'
  <2>1. /\ step["fpi"] = s /\ cursor' = 0
        /\ step'["fpi"] = IF s = "enable" THEN "rmmod" ELSE "free"
        /\ UNCHANGED <<mapped, enabled, marked, online, steady>>
    BY <1>0, <1>3, Moves DEF EndOfWalk
  <2>2. \A c \in steady : c =< cursor
    BY <1>0, <1>3 DEF EndOfWalk, Ahead
  <2>3. s = "enable" /\ mapped => steady \subseteq enabled
    BY <2>1, <2>2 DEF WalkInv
  <2>4. s = "disable" => marked \intersect steady = {}
    <3>1. ASSUME s = "disable", NEW c \in marked \intersect steady PROVE FALSE
      <4>1. c > cursor /\ c =< cursor /\ c \in Nat
        BY <1>0, <2>1, <2>2, <3>1 DEF WalkInv
      <4> QED
        BY <1>0, <4>1
    <3> QED
      BY <3>1
  <2> QED
    BY <2>1, <2>3, <2>4 DEF WalkInv, WalksReachSteadyCores
<1>4. ASSUME NEW s \in {"enable", "disable"}, Visit(s)
      PROVE  /\ step["fpi"] = s /\ UNCHANGED <<step, mapped, online, steady>>
             /\ cursor' \in Nat
             /\ \A c \in steady : c =< cursor \/ c = cursor' \/ c > cursor'
             /\ \A c \in steady : c > cursor /\ c # cursor' => c > cursor'
  <2>1. cursor' \in Ahead /\ \A k \in Ahead : cursor' =< k
    BY <1>4 DEF Visit
  <2>2. cursor' \in Nat
    BY <1>0, <2>1 DEF Ahead
  <2>3. \A c \in steady : c > cursor => cursor' =< c
    BY <1>0, <2>1 DEF Ahead
  <2> QED
    BY <1>0, <1>4, <2>2, <2>3 DEF Visit
<1>5. CASE EnableOnCores /\ Visit("enable")
  <2>1. /\ enabled' = IF mapped THEN enabled \union {cursor'} ELSE enabled
        /\ marked' = IF mapped THEN marked \union {cursor'} ELSE marked
    BY <1>0, <1>5, <1>4 DEF EnableOnCores, EndOfWalk, Visit, Ahead
  <2>2. ASSUME mapped, NEW c \in steady, c =< cursor' PROVE c \in enabled'
    <3>1. c =< cursor \/ c = cursor'
      BY <1>0, <1>4, <1>5, <2>2
    <3>2. c =< cursor => c \in enabled
      BY <1>4, <1>5, <2>2 DEF WalkInv
    <3> QED
      BY <2>1, <2>2, <3>1, <3>2
  <2>3. step["fpi"] = "enable" /\ UNCHANGED <<step, mapped, online, steady>>
    BY <1>4, <1>5
  <2>4. ~mapped => marked' = {}
    BY <2>1 DEF WalkInv
  <2> QED
    BY <1>0, <2>2, <2>3, <2>4 DEF WalkInv, WalksReachSteadyCores
<1>6. CASE DisableOnCores /\ Visit("disable")
  <2>1. marked' = IF mapped THEN marked \ {cursor'} ELSE marked
    BY <1>0, <1>6, <1>4 DEF DisableOnCores, EndOfWalk, Visit, Ahead
  <2>2. step["fpi"] = "disable" /\ UNCHANGED <<step, mapped, online, steady>>
    BY <1>4, <1>6
  <2>3. ~mapped => marked = {}
    BY DEF WalkInv
  <2>4. ASSUME NEW c \in marked' \intersect steady PROVE c > cursor'
    <3>1. c \in marked /\ c # cursor'
      BY <2>1, <2>3, <2>4
    <3>2. c > cursor
      BY <2>2, <2>4, <3>1 DEF WalkInv
    <3> QED
      BY <1>4, <1>6, <2>4, <3>1, <3>2
  <2> QED
    BY <1>0, <2>1, <2>2, <2>3, <2>4 DEF WalkInv, WalksReachSteadyCores
<1>7. ASSUME NEW c \in Cpus, Offline(c) \/ Online(c) PROVE WalkInv'
  <2>1. /\ UNCHANGED <<step, mapped, marked, cursor>> /\ steady' \subseteq steady
        /\ steady' \subseteq online'
        /\ \A k \in steady' : k \in enabled => k \in enabled'
    BY <1>0, <1>7 DEF Offline, Online
  <2> QED
    BY <2>1 DEF WalkInv, WalksReachSteadyCores
<1>8. CASE UNCHANGED <<step, mapped, enabled, marked, cursor, online, steady>>
  BY <1>8 DEF WalkInv, WalksReachSteadyCores
<1> QED
  BY <1>1, <1>2, <1>3, <1>5, <1>6, <1>7, <1>8, OtherCalls
  DEF Next, Interrupt, EnableOnCores, DisableOnCores, Use, Lookup, ChrdevOpen,
      Read, ReadReturns, OtherCall, Close, OnlyUsers, vars

-----------------------------------------------------------------------------
(* What holds of the reachable states, from the first insertion on.        *)
IInv ==
  /\ TypeOK /\ NumberInv /\ NodeInv /\ QueueInv
  /\ NobodyInsideAGoneDriver /\ CalmInv /\ WalkInv

(* It holds at first, and every step keeps it.                             *)
LEMMA Invariance == Spec => []IInv
<1>1. Init => IInv
  <2> SUFFICES ASSUME Init PROVE IInv
    OBVIOUS
  <2>1. NobodyInsideAGoneDriver /\ CalmInv
    BY DEF Init, NobodyInsideAGoneDriver, Inside, CalmInv
  <2>2. WalkInv
    BY DEF Init, WalkInv, WalksReachSteadyCores, Drivers
  <2> QED
    BY <2>1, <2>2, InitTypeOK DEF IInv
<1>2. IInv /\ [Next]_vars => IInv'
  BY NextTypeOK, NextNumberInv, NextQueueInv, NextNobodyInside, NextCalmInv,
     NextWalkInv DEF IInv
<1> QED
  BY <1>1, <1>2, PTL DEF Spec

(* The types hold: an open node has a device number, whatever the modules  *)
(* do meanwhile, and a driver in use is one that has been looked up.       *)
THEOREM TypeCorrect == Spec => []TypeOK
<1>1. IInv => TypeOK
  BY DEF IInv
<1> QED
  BY <1>1, Invariance, PTL

(* No program is inside a driver that is being removed or is gone, nor in  *)
(* one that was inserted again under another number.                       *)
THEOREM NobodyInside == Spec => []NobodyInsideAGoneDriver
<1>1. IInv => NobodyInsideAGoneDriver
  BY DEF IInv
<1> QED
  BY <1>1, Invariance, PTL

(* A program that runs between insmod and rmmod never crashes the kernel.  *)
THEOREM CrashOnlyInARace == Spec => []CrashNeedsARace
<1>1. IInv => CrashNeedsARace
  BY DEF IInv, CalmInv, CrashNeedsARace
<1> QED
  BY <1>1, Invariance, PTL

(* Both walks over the cores reach every core that stays online.           *)
THEOREM WalksReach == Spec => []WalksReachSteadyCores
<1>1. IInv => WalksReachSteadyCores
  BY DEF IInv, WalkInv
<1> QED
  BY <1>1, Invariance, PTL
=============================================================================
