------------------------------- MODULE Probe -------------------------------
(***************************************************************************)
(* Loading the driver, probe() and remove() (xdma-core.c).  probe()        *)
(* acquires one thing after the other and every step may fail; the error   *)
(* labels release in the opposite order what was acquired before.  What is *)
(* held at any time is in the ghost "held", a set of resources <<kind,     *)
(* number>> per device, so that an interrupt or an open() between any two  *)
(* steps can be asked what it would find.                                  *)
(*                                                                         *)
(* The PCI core probes and removes one device at a time.  The module       *)
(* parameter "major" has its default 0.  SD_ACCEL is 0.                    *)
(***************************************************************************)
EXTENDS Integers, Sequences, FiniteSets, FiniteSetsExt

CONSTANTS
  Devices,
  Cards,       \* the hardware configurations each device may have
  MaxDevices,  \* MAX_XDMA_DEVICES
  MaxMajors,   \* dynamic major numbers of the kernel
  Channels,    \* XDMA_CHANNEL_NUM_MAX, at most 4
  UserIrqs     \* MAX_USER_IRQ

ASSUME SizesAssumption ==
  /\ MaxDevices \in Nat \ {0} /\ MaxMajors \in Nat
  /\ Channels \in 1 .. 4 /\ UserIrqs \in 1 .. 16

(* Engines are numbered as gen_dev_minor does: H2C 0..3, C2H 4..7.         *)
AllEngines ==
  [i \in 1 .. 2 * Channels |-> IF i <= Channels THEN i - 1 ELSE i - Channels + 3]
Engines == {AllEngines[i] : i \in 1 .. 2 * Channels}

(* A card: its interrupt capability, the number of its BARs, the position  *)
(* of the XDMA config BAR among them (-1: none) and the engines that       *)
(* answer with the expected identifier.                                    *)
ASSUME CardsAssumption ==
  Cards \in [Devices -> SUBSET [irq : {"msix", "msi", "legacy"}, bars : 1 .. 3,
                                config : -1 .. 2, engines : SUBSET Engines]]

NoLro ==
  [msix_enabled |-> FALSE, msi_enabled |-> FALSE, got_regions |-> FALSE,
   regions_in_use |-> FALSE, irq_line |-> FALSE, bar |-> FALSE,
   user_bar |-> FALSE, bypass_bar |-> FALSE, engine |-> {}, char_dev |-> <<>>,
   major |-> 0, instance |-> 0]

VARIABLES
  module,       \* "out", "loading" (in xdma_init), "loaded", "unloading"
  poll_mode,    \* module parameter, given when the module is loaded
  dev_present,
  card,         \* the hardware of each device
  pc,           \* step of probe(), or "undo", "failed", "bound", "remove"...
  idx,          \* position in the loop over engines or interfaces
  lro,
  undo,         \* what is still to be released, in this order
  held,         \* ghost: resources of each device
  at,           \* ghost: the step at which the last probe failed
  double_free,  \* ghost: something was released that was not held
  marks_lost    \* ghost: xdma_init cleared the mark of a probed device

moduleVars == <<module, poll_mode, marks_lost>>
vars == <<moduleVars, dev_present, card, pc, idx, lro, undo, held, at, double_free>>

Resting == {"unbound", "failed", "bound", "bound_null"}

(* The PCI core is in no probe() or remove().                              *)
Idle == \A d \in Devices : pc[d] \in Resting

Only(kind) == {<<kind, 0>>}
When(c, S) == IF c THEN S ELSE {}

Acquire(d, S) ==
  /\ held' = [held EXCEPT ![d] = @ \cup S]
  /\ UNCHANGED double_free

Goto(d, step) == pc' = [pc EXCEPT ![d] = step]

(***************************************************************************)
(* The pieces probe() and remove() release.                                *)
(***************************************************************************)
EngineHandler(l, e) == When(l.msix_enabled, {<<"engine_irq", e>>})
Writeback(e) == When(poll_mode, {<<"writeback", e>>})

EngineResources(l, e) == {<<"engine", e>>} \cup EngineHandler(l, e) \cup Writeback(e)

(* remove_engines leaves its pointers in place: lro.engine stays as it is. *)
(* (Nobody cancels engine->work either; work already queued is not         *)
(* modelled here.)                                                         *)
RemoveEngines(l) == UNION {EngineResources(l, e) : e \in l.engine}

IrqTeardown(l) ==
  IF l.msix_enabled THEN {<<"user_irq", i>> : i \in 0 .. UserIrqs - 1}
  ELSE When(l.irq_line, Only("irq"))

UnmapBars(l) == When(l.bar, Only("bar"))

(* unregister_chrdev_region(cdevno, 1) matches no region of                *)
(* XDMA_MINOR_COUNT minors: the major number stays taken.                  *)
DestroyInterfaces(l) == {<<"char", l.char_dev[i]>> : i \in DOMAIN l.char_dev}

(* Mutant: the BARs are unmapped while handlers are still registered.      *)
ErrorLabelsUnmapFirst(l) ==
  << RemoveEngines(l),
     UnmapBars(l),
     IrqTeardown(l),
     When(l.got_regions, Only("regions")),
     When(l.msi_enabled, Only("msi")),
     When(~l.regions_in_use, Only("enabled")),
     Only("lro") >>

(* The labels of probe(), from the last one to the first.                  *)
ErrorLabels(l) ==
  << RemoveEngines(l),
     IrqTeardown(l),
     UnmapBars(l),
     When(l.got_regions, Only("regions")),
     When(l.msi_enabled, Only("msi")),
     When(~l.regions_in_use, Only("enabled")),
     Only("lro") >>

err_interfaces == 1   \* and err_sgdma_cdev
(* Mutant: a failed probe_engines goes to the label above.                 *)
ErrEnginesTooEarly == 1
err_engines    == 2
err_interrupts == 3   \* and err_mask
err_map        == 4
err_regions    == 5
err_scan_msi   == 6
err_enable     == 7

(* "goto label": first the things in "before", then the label and all      *)
(* labels after it.                                                        *)
GotoLabel(d, before, label, l) ==
  /\ undo' = before \o SubSeq(ErrorLabels(l), label, Len(ErrorLabels(l)))
  /\ at' = [at EXCEPT ![d] = pc[d]]
  /\ lro' = [lro EXCEPT ![d] = l]
  /\ Goto(d, "undo")
  /\ UNCHANGED <<moduleVars, card, idx>>

Fail(d, label, l) ==
  /\ GotoLabel(d, <<>>, label, l)
  /\ UNCHANGED <<dev_present, held, double_free>>

Proceed(d, step, l, S) ==
  /\ Goto(d, step)
  /\ lro' = [lro EXCEPT ![d] = l]
  /\ Acquire(d, S)
  /\ UNCHANGED <<moduleVars, dev_present, card, undo, at>>

(***************************************************************************)
(* probe()                                                                 *)
(***************************************************************************)

(* A device is probed again only if nothing but a major number is left of  *)
(* an earlier probe; what the PCI core does with the rest is not modelled. *)
MayProbe(d) ==
  /\ module \in {"loading", "loaded"} /\ Idle
  /\ pc[d] \in {"unbound", "failed"}
  /\ \A r \in held[d] : r[1] = "region"

AllocDevInstance(d) ==
  /\ MayProbe(d)
  /\ Goto(d, "enable")
  /\ lro' = [lro EXCEPT ![d] = NoLro]
  /\ at' = [at EXCEPT ![d] = "none"]
  /\ Acquire(d, Only("lro"))
  /\ UNCHANGED <<moduleVars, dev_present, card, idx, undo>>

(* err_alloc returns rc, which is still 0: the device is bound.            *)
AllocFails(d) ==
  /\ MayProbe(d)
  /\ Goto(d, "bound_null")
  /\ UNCHANGED <<moduleVars, dev_present, card, idx, lro, undo, held, at, double_free>>

EnableDevice(d) ==
  /\ pc[d] = "enable"
  /\ \/ Proceed(d, "msi", lro[d], Only("enabled")) /\ UNCHANGED idx
     \/ Fail(d, err_enable, lro[d])

(* pci_enable_msix returns a positive number when there are fewer vectors; *)
(* MSI-X is then off, but only a negative rc is an error.                  *)
ProbeScanForMsi(d) ==
  LET flagged == [lro[d] EXCEPT !.msix_enabled = card[d].irq = "msix",
                                !.msi_enabled = card[d].irq = "msi"]
  IN /\ pc[d] = "msi"
     /\ \/ /\ Proceed(d, "regions", flagged,
                      When(card[d].irq # "legacy", Only(card[d].irq)))
           /\ UNCHANGED idx
        \/ /\ card[d].irq = "msix"
           /\ Proceed(d, "regions", flagged, {})
           /\ UNCHANGED idx
        \/ /\ card[d].irq # "legacy"
           /\ Fail(d, err_scan_msi, flagged)

RequestRegions(d) ==
  /\ pc[d] = "regions"
  /\ \/ /\ Proceed(d, "bars", [lro[d] EXCEPT !.got_regions = TRUE],
                   Only("regions"))
        /\ UNCHANGED idx
     \/ Fail(d, err_regions, [lro[d] EXCEPT !.regions_in_use = TRUE])

(* identify_bars: the user BAR comes before the config BAR, the bypass BAR *)
(* after it.                                                               *)
IdentifyBars(c) ==
  [user   |-> <<c.bars, c.config>> \in {<<2, 1>>, <<3, 1>>},
   bypass |-> <<c.bars, c.config>> \in {<<2, 0>>, <<3, 1>>}]

(* map_bars unmaps by itself when it fails.                                *)
MapBars(d) ==
  LET id == IdentifyBars(card[d])
  IN /\ pc[d] = "bars"
     /\ \/ /\ card[d].config \in 0 .. card[d].bars - 1
           /\ Proceed(d, "mask",
                [lro[d] EXCEPT !.bar = TRUE, !.user_bar = id.user,
                               !.bypass_bar = id.bypass], Only("bar"))
           /\ UNCHANGED idx
        \/ Fail(d, err_map, lro[d])

SetDmaMask(d) ==
  /\ pc[d] = "mask"
  /\ \/ Proceed(d, "irq", lro[d], {}) /\ UNCHANGED idx
     \/ Fail(d, err_interrupts, lro[d])

(* msix_irq_setup frees the handlers it registered when it fails, and it   *)
(* fails when there are no vectors.  irq_line is set before request_irq.   *)
IrqSetup(d) ==
  LET l == [lro[d] EXCEPT !.irq_line = ~lro[d].msix_enabled]
  IN /\ pc[d] = "irq"
     /\ \/ /\ l.msix_enabled => <<"msix", 0>> \in held[d]
           /\ Proceed(d, "h2c", l, IrqTeardown(l))
           /\ idx' = 1
        \/ Fail(d, err_interrupts, l)

(* The identifier register has the expected engine and channel.            *)
EngineFound(d, e) == e \in card[d].engines

(* probe_for_engine on the next engine.  engine_create cleans up after     *)
(* itself; probe_engines calls remove_engines for a failed H2C engine and  *)
(* only leaves the loop for a failed C2H engine.                           *)
ProbeEngine(d) ==
  LET e == AllEngines[idx]
      l == [lro[d] EXCEPT !.engine = @ \cup {e}]
      last == idx = Len(AllEngines)
      next == IF last THEN "interfaces" ELSE IF idx < Channels THEN "h2c" ELSE "c2h"
  IN /\ pc[d] \in {"h2c", "c2h"}
     /\ \/ /\ ~EngineFound(d, e)
           /\ Proceed(d, next, lro[d], {})
           /\ idx' = IF last THEN 1 ELSE idx + 1
        \/ /\ EngineFound(d, e)
           /\ Proceed(d, next, l, EngineResources(l, e))
           /\ idx' = IF last THEN 1 ELSE idx + 1
        \/ /\ EngineFound(d, e)
           /\ GotoLabel(d, IF pc[d] = "h2c" THEN <<RemoveEngines(lro[d])>> ELSE <<>>,
                        err_engines, lro[d])
           /\ UNCHANGED <<dev_present, held, double_free>>

(***************************************************************************)
(* Character devices                                                       *)
(***************************************************************************)
(* Mutant: bypass devices use the minors of the SG DMA devices.            *)
GenDevMinorShared(type, k) ==
  CASE type = "user"   -> 0
    [] type = "ctrl"   -> 1
    [] type = "events" -> 10 + k
    [] type = "sgdma"  -> 32 + k
    [] type = "bypass" -> 32 + k
    [] type = "base"   -> 100

GenDevMinor(type, k) ==
  CASE type = "user"   -> 0
    [] type = "ctrl"   -> 1
    [] type = "events" -> 10 + k
    [] type = "sgdma"  -> 32 + k
    [] type = "bypass" -> 64 + k
    [] type = "base"   -> 100

MinorOf(c) == GenDevMinor(c[1], c[2])

(* What create_interfaces goes through, in its order.                      *)
Each(type) == [i \in 1 .. 2 * Channels |-> <<type, AllEngines[i]>>]

Interfaces ==
  << <<"user", 0>>, <<"ctrl", 0>> >>
  \o [i \in 1 .. UserIrqs |-> <<"events", i - 1>>]
  \o Each("sgdma") \o Each("bypass") \o << <<"base", 0>> >>

(* The conditions on the BARs and on the engine.                           *)
Wanted(l, c) ==
  /\ c[1] = "user" => l.user_bar
  /\ c[1] \in {"bypass", "base"} => l.bypass_bar
  /\ c[1] \in {"sgdma", "bypass"} => c[2] \in l.engine

FreeInstances == {i \in 0 .. MaxDevices - 1 : ~dev_present[i]}

UsedMajors == {k \in 1 .. MaxMajors : \E d \in Devices : <<"region", k>> \in held[d]}

(* alloc_chrdev_region (external) fails when no major number is left; this *)
(* is not noticed and leaves 0.                                            *)
GenDevMajor ==
  IF UsedMajors = 1 .. MaxMajors THEN 0 ELSE Min((1 .. MaxMajors) \ UsedMajors)

(* "new instance?": the device d takes the lowest free instance.           *)
NewInstance(d) ==
  IF lro[d].major # 0 THEN lro[d]
  ELSE [lro[d] EXCEPT !.instance = Min(FreeInstances), !.major = GenDevMajor]

(* Mutant: the instance is taken but not marked.                           *)
MarkForgotten(d) == UNCHANGED dev_present

MarkPresent(d) ==
  dev_present' = IF lro[d].major # 0 THEN dev_present
                 ELSE [dev_present EXCEPT ![Min(FreeInstances)] = TRUE]

Region(l) == When(l.major # 0, {<<"region", l.major>>})

NextInterface(d) ==
  /\ idx' = idx + 1
  /\ Goto(d, IF idx = Len(Interfaces) THEN "finish" ELSE "interfaces")
  /\ UNCHANGED <<moduleVars, card, undo, at>>

(* create_sg_char failed.  events_char_dev is tested instead of its        *)
(* element, and nobody tests bypass_char_dev_base: these are skipped.      *)
InterfaceFails(d, l) ==
  IF Interfaces[idx][1] \in {"events", "base"}
  THEN NextInterface(d) /\ lro' = [lro EXCEPT ![d] = l]
  ELSE GotoLabel(d, <<DestroyInterfaces(l)>>, err_interfaces, l)

InterfaceDue(d) == pc[d] = "interfaces" /\ Wanted(lro[d], Interfaces[idx])

SkipInterface(d) ==
  /\ pc[d] = "interfaces" /\ ~Wanted(lro[d], Interfaces[idx])
  /\ NextInterface(d)
  /\ UNCHANGED <<dev_present, lro, held, double_free>>

(* No memory, or all instances in use.                                     *)
CharNotAllocated(d) ==
  /\ InterfaceDue(d)
  /\ InterfaceFails(d, lro[d])
  /\ UNCHANGED <<dev_present, held, double_free>>

(* cdev_add and what follows; g_xdma_class exists.                         *)
CharCreated(d) ==
  LET l == NewInstance(d)
      minor == MinorOf(Interfaces[idx])
  IN /\ InterfaceDue(d)
     /\ lro[d].major = 0 => FreeInstances # {}
     /\ lro' = [lro EXCEPT ![d] = [l EXCEPT !.char_dev = Append(@, minor)]]
     /\ Acquire(d, Region(l) \cup {<<"char", minor>>})
     /\ MarkPresent(d)
     /\ NextInterface(d)

(* config_kobject or cdev_add fails.  fail_add gives the region back if    *)
(* its first minor is the one of this device.                              *)
CharNotAdded(d) ==
  LET l == NewInstance(d)
      first == MinorOf(Interfaces[idx]) = 0
  IN /\ InterfaceDue(d)
     /\ lro[d].major = 0 => FreeInstances # {}
     /\ \E unregister \in BOOLEAN :
          held' = [held EXCEPT ![d] =
                     (@ \cup Region(l)) \ When(first /\ unregister, Region(l))]
     /\ InterfaceFails(d, l)
     /\ MarkPresent(d)
     /\ UNCHANGED double_free

(* The interrupts are enabled, then the sysfs file is created.             *)
Finish(d) ==
  /\ pc[d] = "finish"
  /\ \/ /\ Proceed(d, "bound", lro[d], {<<"interrupts", 0>>, <<"sysfs", 0>>})
        /\ UNCHANGED idx
     \/ /\ GotoLabel(d, <<>>, err_interfaces, lro[d])
        /\ Acquire(d, Only("interrupts"))
        /\ UNCHANGED dev_present

(***************************************************************************)
(* remove(), and one step of releasing                                     *)
(***************************************************************************)
(* Mutant: remove() does not switch MSI-X off, as the labels do not.       *)
RemoveOrderKeepsMsix(l) ==
  << Only("interrupts"), DestroyInterfaces(l), RemoveEngines(l), IrqTeardown(l),
     UnmapBars(l), When(l.got_regions, Only("regions")),
     When(l.msi_enabled, Only("msi")), When(~l.regions_in_use, Only("enabled")),
     Only("sysfs"), Only("lro") >>

RemoveOrder(l) ==
  << Only("interrupts"),
     DestroyInterfaces(l),
     RemoveEngines(l),
     IrqTeardown(l),
     UnmapBars(l),
     When(l.got_regions, Only("regions")),
     When(l.msix_enabled, Only("msix")) \cup When(l.msi_enabled, Only("msi")),
     When(~l.regions_in_use, Only("enabled")),
     Only("sysfs"),
     Only("lro") >>

Remove(d) ==
  /\ Idle /\ pc[d] = "bound"
  /\ undo' = RemoveOrder(lro[d])
  /\ Goto(d, "remove")
  /\ UNCHANGED <<moduleVars, dev_present, card, idx, lro, held, at, double_free>>

RemoveNull(d) ==
  /\ Idle /\ pc[d] = "bound_null"
  /\ Goto(d, "unbound")
  /\ UNCHANGED <<moduleVars, dev_present, card, idx, lro, undo, held, at, double_free>>

ReleaseNext(d) ==
  /\ pc[d] \in {"undo", "remove"} /\ undo # <<>>
  /\ held' = [held EXCEPT ![d] = @ \ Head(undo)]
  /\ double_free' = (double_free \/ ~(Head(undo) \subseteq held[d]))
  /\ undo' = Tail(undo)
  /\ UNCHANGED <<moduleVars, dev_present, card, pc, idx, lro, at>>

FreeLro(d) ==
  /\ lro' = [lro EXCEPT ![d] = NoLro]
  /\ idx' = 1
  /\ UNCHANGED <<moduleVars, card, undo, held, at, double_free>>

(* The end of a probe() that failed: the instance stays marked.            *)
ProbeReturns(d) ==
  /\ pc[d] = "undo" /\ undo = <<>>
  /\ Goto(d, "failed")
  /\ UNCHANGED dev_present
  /\ FreeLro(d)

RemoveReturns(d) ==
  /\ pc[d] = "remove" /\ undo = <<>>
  /\ Goto(d, "unbound")
  /\ dev_present' = [dev_present EXCEPT ![lro[d].instance] = FALSE]
  /\ FreeLro(d)

(***************************************************************************)
(* xdma_init and xdma_exit                                                 *)
(***************************************************************************)
NoMarks == [i \in 0 .. MaxDevices - 1 |-> FALSE]

(* pci_register_driver has probed what was there; then dev_present is      *)
(* cleared.                                                                *)
InitReturns ==
  /\ module = "loading" /\ Idle
  /\ module' = "loaded"
  /\ dev_present' = NoMarks
  /\ marks_lost' = (dev_present # NoMarks)
  /\ UNCHANGED <<poll_mode, card, pc, idx, lro, undo, held, at, double_free>>

ExitBegins ==
  /\ module = "loaded" /\ Idle
  /\ module' = "unloading"
  /\ UNCHANGED <<poll_mode, dev_present, card, pc, idx, lro, undo, held, at,
                 double_free, marks_lost>>

(* The module's memory is gone with it.                                    *)
ExitReturns ==
  /\ module = "unloading"
  /\ \A d \in Devices : pc[d] \in {"unbound", "failed"}
  /\ module' = "out"
  /\ poll_mode' = FALSE
  /\ dev_present' = NoMarks
  /\ marks_lost' = FALSE
  /\ UNCHANGED <<card, pc, idx, lro, undo, held, at, double_free>>

(* When class_create or pci_register_driver fails the module stays out.    *)
Load ==
  /\ module = "out"
  /\ module' = "loading"
  /\ poll_mode' \in BOOLEAN
  /\ UNCHANGED <<dev_present, card, pc, idx, lro, undo, held, at, double_free,
                 marks_lost>>

-----------------------------------------------------------------------------
Init ==
  /\ module = "out"
  /\ poll_mode = FALSE
  /\ dev_present = NoMarks
  /\ card \in {c \in [Devices -> UNION {Cards[d] : d \in Devices}] :
              \A d \in Devices : c[d] \in Cards[d]}
  /\ pc = [d \in Devices |-> "unbound"]
  /\ idx = 1
  /\ lro = [d \in Devices |-> NoLro]
  /\ undo = <<>>
  /\ held = [d \in Devices |-> {}]
  /\ at = [d \in Devices |-> "none"]
  /\ double_free = FALSE
  /\ marks_lost = FALSE

Next ==
  \/ Load \/ InitReturns \/ ExitBegins \/ ExitReturns
  \/ \E d \in Devices :
       \/ AllocDevInstance(d) \/ AllocFails(d) \/ EnableDevice(d)
       \/ ProbeScanForMsi(d) \/ RequestRegions(d) \/ MapBars(d) \/ SetDmaMask(d)
       \/ IrqSetup(d) \/ ProbeEngine(d) \/ SkipInterface(d) \/ CharNotAllocated(d)
       \/ CharCreated(d) \/ CharNotAdded(d) \/ Finish(d) \/ Remove(d) \/ RemoveNull(d)
       \/ ReleaseNext(d) \/ ProbeReturns(d)
       \/ RemoveReturns(d)

Spec == Init /\ [][Next]_vars

-----------------------------------------------------------------------------
(* probe()'s labels and remove() release only what is held at that moment: *)
(* no handler, mapping or device is freed twice or without having been     *)
(* acquired (free_irq, destroy_sg_char with its BUG_ONs, kfree).           *)
NoDoubleRelease == ~double_free

(* Whatever can be entered from outside finds what it uses, between any    *)
(* two steps of probe() and remove(): xdma_isr and xdma_user_irq their lro *)
(* and the BARs, xdma_isr every engine lro.engine leads to, which it reads *)
(* at each interrupt, xdma_channel_irq its engine, an open device node its *)
(* lro and engine, and an enabled interrupt its handler.                   *)
(*                                                                         *)
(* Three places are exempt, where the code does not keep this.  The labels *)
(* and remove() call remove_engines and only then irq_teardown: between    *)
(* the two, xdma_isr of a legacy card, whose line is shared, would read    *)
(* engines that are freed.  What is claimed is that irq_teardown follows   *)
(* at once, with no other release between them.  And two failures leave    *)
(* something behind: of a C2H engine (its loop breaks without unwinding)   *)
(* and of device_create_file (the label destroys no interfaces and         *)
(* disables no interrupts).                                                *)
Has(d, kind, n) == <<kind, n>> \in held[d]
DeviceLive(d) == Has(d, "lro", 0) /\ Has(d, "bar", 0) /\ Has(d, "enabled", 0)
IrqTeardownNext(d) ==
  /\ pc[d] \in {"undo", "remove"} /\ undo # <<>>
  /\ <<"irq", 0>> \in Head(undo)

LiveWhileReachable ==
  \A d \in Devices :
    /\ \A r \in held[d] :
         /\ r[1] \in {"irq", "user_irq"} => DeviceLive(d)
         /\ r[1] = "engine_irq" /\ at[d] # "c2h" => Has(d, "engine", r[2]) /\ DeviceLive(d)
         /\ r[1] = "char" /\ at[d] # "finish" =>
              /\ DeviceLive(d)
              /\ \A e \in Engines : r[2] \in {32 + e, 64 + e} => Has(d, "engine", e)
    /\ Has(d, "irq", 0) =>
         (\A e \in lro[d].engine : Has(d, "engine", e)) \/ IrqTeardownNext(d)
    /\ Has(d, "interrupts", 0) /\ at[d] # "finish" =>
         \/ Has(d, "irq", 0)
         \/ /\ \A i \in 0 .. UserIrqs - 1 : Has(d, "user_irq", i)
            /\ \A e \in card[d].engines : Has(d, "engine_irq", e)

(* After remove() nothing of the device is left but its major number, and  *)
(* a failed probe() leaves exactly what its label does not cover: MSI-X is *)
(* never switched off, a device whose regions are in use stays enabled,    *)
(* and the two failures named above leave engines or interfaces.           *)
MayBeLeft(d) ==
  IF pc[d] = "unbound" THEN {"region"}
  ELSE CASE at[d] \in {"enable", "msi"} -> {"region"}
         [] at[d] = "regions" -> {"region", "msix", "enabled"}
         [] at[d] = "c2h"     -> {"region", "msix", "engine", "engine_irq", "writeback"}
         [] at[d] = "finish"  -> {"region", "msix", "char", "interrupts"}
         [] OTHER             -> {"region", "msix"}

UndoReleases ==
  \A d \in Devices : pc[d] \in {"unbound", "failed"} =>
    {r[1] : r \in held[d]} \subseteq MayBeLeft(d)

(* Two devices with interfaces have different instances, hence different   *)
(* node names and sysfs entries, unless xdma_init cleared the marks of     *)
(* devices that were probed while it registered the driver.                *)
InstanceUnique ==
  marks_lost \/ \A d1, d2 \in Devices :
    d1 # d2 /\ lro[d1].char_dev # <<>> /\ lro[d2].char_dev # <<>>
      => lro[d1].instance # lro[d2].instance

(* The kernel's map of character devices (external): every cdev is added   *)
(* with XDMA_MINOR_COUNT minors, so the ranges overlap; among them the one *)
(* added last is found.                                                    *)
OpenedBy(l, m) ==
  Max({i \in DOMAIN l.char_dev : m \in l.char_dev[i] .. l.char_dev[i] + 254})

(* Opening a node opens the device it was created for, although the minor  *)
(* ranges of all nodes of a device overlap: create_interfaces goes through *)
(* the minors in ascending order.  (Major 0 is the result of an unnoticed  *)
(* failure and shared.)                                                    *)
NodeOpensItsDevice ==
  \A d \in Devices : lro[d].major # 0 =>
    \A i \in DOMAIN lro[d].char_dev : OpenedBy(lro[d], lro[d].char_dev[i]) = i
=============================================================================
