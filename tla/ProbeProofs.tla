---------------------------- MODULE ProbeProofs ----------------------------
(***************************************************************************)
(* The five invariants of Probe, for any number of devices, cards,         *)
(* instances and major numbers.  The inductive invariant says for every    *)
(* device what it holds at each step of probe(), and what is still to be   *)
(* released when a label of probe() or remove() has begun.  Its parts are  *)
(* predicates on values (a step p, an lro l, a set h of resources held, a  *)
(* card c, the failed step a, the releases u that are left), so that a     *)
(* step of one device is reasoned about without the others.                *)
(***************************************************************************)
EXTENDS Probe, WellFoundedInduction, TLAPS

Steps == {"enable", "msi", "regions", "bars", "mask", "irq", "h2c", "c2h",
          "interfaces", "finish"}

(* With interrupt handlers, and with all engines.                          *)
HandlerSteps == {"h2c", "c2h", "interfaces", "finish", "bound"}
EngineSteps == {"interfaces", "finish", "bound"}
NullSteps == {"unbound", "failed", "bound_null"}
ReleaseSteps == {"undo", "remove"}

Kinds == {"interrupts", "char", "engine", "engine_irq", "writeback", "irq",
          "user_irq", "bar", "regions", "msi", "msix", "enabled", "sysfs", "lro",
          "region"}
Resources == Kinds \X Nat

Lros ==
  [msix_enabled : BOOLEAN, msi_enabled : BOOLEAN, got_regions : BOOLEAN,
   regions_in_use : BOOLEAN, irq_line : BOOLEAN, bar : BOOLEAN,
   user_bar : BOOLEAN, bypass_bar : BOOLEAN, engine : SUBSET Engines,
   char_dev : Seq(0 .. 100), major : Nat, instance : Nat]

CardType == [irq : {"msix", "msi", "legacy"}, bars : 1 .. 3, config : -1 .. 2,
             engines : SUBSET Engines]

TypeOK ==
  /\ module \in {"out", "loading", "loaded", "unloading"}
  /\ poll_mode \in BOOLEAN
  /\ dev_present \in [0 .. MaxDevices - 1 -> BOOLEAN]
  /\ card \in [Devices -> CardType]
  /\ pc \in [Devices -> Steps \cup NullSteps \cup ReleaseSteps \cup {"bound"}]
  /\ idx \in Nat
  /\ lro \in [Devices -> Lros]
  /\ undo \in Seq(SUBSET Resources)
  /\ held \in [Devices -> SUBSET Resources]
  /\ at \in [Devices -> Steps \cup {"none"}]
  /\ double_free \in BOOLEAN
  /\ marks_lost \in BOOLEAN

(* The position in the order of remove() at which a resource is released;  *)
(* probe()'s labels have the same order.                                   *)
Rank(kind) ==
  CASE kind = "interrupts" -> 1
    [] kind = "char" -> 2
    [] kind \in {"engine", "engine_irq", "writeback"} -> 3
    [] kind \in {"irq", "user_irq"} -> 4
    [] kind = "bar" -> 5
    [] kind = "regions" -> 6
    [] kind \in {"msi", "msix"} -> 7
    [] kind = "enabled" -> 8
    [] kind = "sysfs" -> 9
    [] kind = "lro" -> 10
    [] kind = "region" -> 11

(* RemoveEngines with the module parameter as an argument.                 *)
EnginesOf(l, poll) ==
  UNION {{<<"engine", e>>} \cup EngineHandler(l, e) \cup When(poll, {<<"writeback", e>>})
           : e \in l.engine}

(* What a device has at step p of probe(), apart from its major number and *)
(* MSI-X, which is counted as enabled even when it is not.                 *)
Owned(p, l, poll) ==
  UNION {DestroyInterfaces(l), EnginesOf(l, poll),
         When(p \in HandlerSteps, IrqTeardown(l)), UnmapBars(l),
         When(l.got_regions, Only("regions")), When(l.msi_enabled, Only("msi")),
         When(p # "enable", Only("enabled")), Only("lro"),
         When(p = "bound", {<<"interrupts", 0>>, <<"sysfs", 0>>})}

(* What the flags of the lro say at step p.                                *)
FlagsOk(p, l, c) ==
  /\ p \in {"enable", "msi"} => ~l.msix_enabled /\ ~l.msi_enabled
  /\ ~l.regions_in_use
  /\ l.got_regions <=> p \notin {"enable", "msi", "regions"}
  /\ l.bar <=> p \notin {"enable", "msi", "regions", "bars"}
  /\ p \in HandlerSteps => (l.irq_line <=> ~l.msix_enabled)
  /\ p \notin HandlerSteps => l.engine = {}
  /\ p \in EngineSteps => l.engine = c.engines
  /\ p \notin EngineSteps => l.char_dev = <<>>

HeldOk(p, l, h, poll) ==
  /\ Owned(p, l, poll) \subseteq h
  /\ \A r \in h : \/ r \in Owned(p, l, poll)
                  \/ r[1] = "region"
                  \/ r = <<"msix", 0>> /\ l.msix_enabled
  /\ p \in HandlerSteps /\ l.msix_enabled => <<"msix", 0>> \in h

(* The loops over engines and interfaces, at position i.                   *)
LoopOk(p, i, l, c) ==
  /\ p \in {"h2c", "c2h"} =>
       /\ i \in 1 .. 2 * Channels
       /\ p = "h2c" <=> i <= Channels
       /\ l.engine = {e \in c.engines : \E k \in 1 .. i - 1 : AllEngines[k] = e}
  /\ p = "interfaces" =>
       /\ i \in 1 .. Len(Interfaces)
       /\ \A k \in DOMAIN l.char_dev : l.char_dev[k] < MinorOf(Interfaces[i])
       /\ i > 2 => l.char_dev # <<>>
  /\ p \in {"finish", "bound", "remove"} => l.char_dev # <<>>

(* The character devices in the order of their minors, each of an engine   *)
(* that exists.                                                            *)
CharsOk(l) ==
  /\ \A i, k \in DOMAIN l.char_dev : i < k => l.char_dev[i] < l.char_dev[k]
  /\ \A i \in DOMAIN l.char_dev : \A e \in Engines :
       l.char_dev[i] \in {32 + e, 64 + e} => e \in l.engine

(* MayBeLeft, for a device at step p that failed at step a.                *)
LeftOver(p, a) ==
  IF p \in {"unbound", "remove", "bound_null"} THEN {"region"}
  ELSE CASE a \in {"enable", "msi"} -> {"region"}
         [] a = "regions" -> {"region", "msix", "enabled"}
         [] a = "c2h"     -> {"region", "msix", "engine", "engine_irq", "writeback"}
         [] a = "finish"  -> {"region", "msix", "char", "interrupts"}
         [] OTHER         -> {"region", "msix"}

(* The releases u that are left find what they release, are in the order   *)
(* of the ranks, and leave no more than the kinds in "left".               *)
InRankOrder(u) ==
  \A j, k \in DOMAIN u : j < k =>
    \A r \in u[j], s \in u[k] : Rank(r[1]) < Rank(s[1])

UndoOk(u, h, left) ==
  /\ \A j \in DOMAIN u : u[j] \subseteq h
  /\ InRankOrder(u)
  /\ \A r \in h : r[1] \in left \/ \E j \in DOMAIN u : r \in u[j]

(* LiveWhileReachable for one device, without the engines behind xdma_isr. *)
LiveOk(h, a, c) ==
  LET live == {<<"lro", 0>>, <<"bar", 0>>, <<"enabled", 0>>} \subseteq h
  IN /\ \A r \in h :
          /\ r[1] \in {"irq", "user_irq"} => live
          /\ r[1] = "engine_irq" /\ a # "c2h" => <<"engine", r[2]>> \in h /\ live
          /\ r[1] = "char" /\ a # "finish" =>
               /\ live
               /\ \A e \in Engines : r[2] \in {32 + e, 64 + e} => <<"engine", e>> \in h
     /\ <<"interrupts", 0>> \in h /\ a # "finish" =>
          \/ <<"irq", 0>> \in h
          \/ /\ \A i \in 0 .. UserIrqs - 1 : <<"user_irq", i>> \in h
             /\ \A e \in c.engines : <<"engine_irq", e>> \in h

(* The part of it about the engines behind xdma_isr, while releasing: they *)
(* are held, and their release is followed by that of the handler.         *)
EngineThenIrq(u) ==
  \A j \in DOMAIN u : \A r \in u[j] : r[1] = "engine" =>
    j + 1 \in DOMAIN u /\ <<"irq", 0>> \in u[j + 1]

IsrOk(l, h, u) ==
  <<"irq", 0>> \in h =>
    \/ u # <<>> /\ <<"irq", 0>> \in Head(u)
    \/ (\A e \in l.engine : <<"engine", e>> \in h) /\ EngineThenIrq(u)

NullOk(p, l, h, a) ==
  /\ l = NoLro
  /\ \A r \in h : r[1] \in LeftOver(p, a)

StateOk(p, i, l, h, a, c, u, poll) ==
  /\ p \in NullSteps => NullOk(p, l, h, a)
  /\ p \in Steps \cup {"bound"} => FlagsOk(p, l, c) /\ HeldOk(p, l, h, poll)
  /\ p \in ReleaseSteps =>
       UndoOk(u, h, LeftOver(p, a)) /\ LiveOk(h, a, c) /\ IsrOk(l, h, u)
  /\ LoopOk(p, i, l, c)
  /\ CharsOk(l)

DeviceOk(d) == StateOk(pc[d], idx, lro[d], held[d], at[d], card[d], undo, poll_mode)

OneAtATime ==
  \A d1, d2 \in Devices : d1 # d2 => pc[d1] \in Resting \/ pc[d2] \in Resting

Holder(l) == l.major # 0 \/ l.char_dev # <<>>

MarksOk ==
  /\ \A d \in Devices : Holder(lro[d]) =>
       /\ lro[d].instance \in 0 .. MaxDevices - 1
       /\ dev_present[lro[d].instance]
  /\ \A d1, d2 \in Devices : d1 # d2 /\ Holder(lro[d1]) /\ Holder(lro[d2])
       => lro[d1].instance # lro[d2].instance

ModuleOk ==
  /\ module = "out" => \A d \in Devices : pc[d] \in {"unbound", "failed"}
  /\ module \in {"out", "loading"} => ~marks_lost

IInv ==
  /\ TypeOK
  /\ ~double_free
  /\ OneAtATime
  /\ ModuleOk
  /\ marks_lost \/ MarksOk
  /\ \A d \in Devices : DeviceOk(d)

-----------------------------------------------------------------------------
(***************************************************************************)
(* Numbers: instances, engines and minors.                                 *)
(***************************************************************************)

\* A set of natural numbers that is not empty has a least element.
LEMMA LeastNat ==
  ASSUME NEW T, T \subseteq Nat, T # {}
  PROVE  \E x \in T : \A y \in T : x <= y
<1> DEFINE R == OpToRel(<, Nat)
<1>1. \A x, y \in Nat : x < y => <<x, y>> \in R
  BY DEF OpToRel
<1>2. IsWellFoundedOn(R, Nat)
  BY NatLessThanWellFounded
<1> HIDE DEF R
<1>3. PICK x \in T : \A y \in T : ~(<<y, x>> \in R)
  BY <1>2, WFMin
<1>4. \A y \in T : ~(y < x)
  BY <1>1, <1>3
<1> QED BY <1>4

\* Min finds it: the instance and the major number taken are free.
LEMMA MinIn ==
  ASSUME NEW T, T \subseteq Nat, T # {}
  PROVE  Min(T) \in T
BY LeastNat DEF Min

\* Engines are numbered 0..7.
LEMMA EngineNumbers ==
  /\ AllEngines \in [1 .. 2 * Channels -> 0 .. 7]
  /\ Len(AllEngines) = 2 * Channels
  /\ Engines \subseteq 0 .. 7
<1>1. AllEngines \in [1 .. 2 * Channels -> 0 .. 7]
  BY SizesAssumption DEF AllEngines
<1>2. Len(AllEngines) = 2 * Channels
  BY <1>1, SizesAssumption
<1> QED BY <1>1, <1>2 DEF Engines

\* The same, element by element.
LEMMA EngineNumberAt ==
  ASSUME NEW k \in 1 .. 2 * Channels
  PROVE  AllEngines[k] \in 0 .. 7 /\ AllEngines[k] \in Nat
BY SizesAssumption DEF AllEngines

\* H2C engines are 0..3 in order, C2H engines 4..7 in order.
LEMMA EnginesAscend ==
  ASSUME NEW i \in 1 .. 2 * Channels, NEW k \in 1 .. 2 * Channels, i < k
  PROVE  AllEngines[i] < AllEngines[k]
BY SizesAssumption DEF AllEngines

\* The elements of two sequences joined.
LEMMA JoinTwo ==
  ASSUME NEW T, NEW s \in Seq(T), NEW t \in Seq(T)
  PROVE  /\ s \o t \in Seq(T) /\ Len(s \o t) = Len(s) + Len(t)
         /\ \A i \in 1 .. Len(s) : (s \o t)[i] = s[i]
         /\ \A i \in 1 .. Len(t) : (s \o t)[Len(s) + i] = t[i]
OBVIOUS

\* z has the elements of s, then those of t, then those of v.
Joined(z, s, t, v) ==
  /\ Len(z) = Len(s) + Len(t) + Len(v)
  /\ \A i \in 1 .. Len(s) : z[i] = s[i]
  /\ \A i \in 1 .. Len(t) : z[Len(s) + i] = t[i]
  /\ \A i \in 1 .. Len(v) : z[Len(s) + Len(t) + i] = v[i]

\* The elements of three sequences joined.
LEMMA JoinThree ==
  ASSUME NEW T, NEW s \in Seq(T), NEW t \in Seq(T), NEW v \in Seq(T)
  PROVE  s \o t \o v \in Seq(T) /\ Joined(s \o t \o v, s, t, v)
<1>1. PICK w \in Seq(T) : w = s \o t
  BY JoinTwo
<1>2. /\ Len(w) = Len(s) + Len(t)
      /\ \A i \in 1 .. Len(s) : w[i] = s[i]
      /\ \A i \in 1 .. Len(t) : w[Len(s) + i] = t[i]
  BY <1>1, JoinTwo
<1>3. /\ w \o v \in Seq(T) /\ Len(w \o v) = Len(w) + Len(v)
      /\ \A i \in 1 .. Len(w) : (w \o v)[i] = w[i]
      /\ \A i \in 1 .. Len(v) : (w \o v)[Len(w) + i] = v[i]
  BY JoinTwo
<1>4. Len(s) \in Nat /\ Len(t) \in Nat /\ Len(v) \in Nat
  OBVIOUS
<1>5. \A i \in 1 .. Len(s) : (w \o v)[i] = s[i]
  BY <1>2, <1>3, <1>4
<1>6. ASSUME NEW i \in 1 .. Len(t) PROVE (w \o v)[Len(s) + i] = t[i]
  BY <1>2, <1>3, <1>4
<1>7. ASSUME NEW i \in 1 .. Len(v) PROVE (w \o v)[Len(s) + Len(t) + i] = v[i]
  BY <1>2, <1>3
<1>8. Len(w \o v) = Len(s) + Len(t) + Len(v)
  BY <1>2, <1>3
<1>9. Joined(w \o v, s, t, v)
  BY <1>5, <1>6, <1>7, <1>8 DEF Joined
<1> QED BY <1>1, <1>3, <1>9

\* The elements of a sequence.
LEMMA SeqElements ==
  ASSUME NEW T, NEW s \in Seq(T)
  PROVE  DOMAIN s = 1 .. Len(s) /\ \A i \in DOMAIN s : s[i] \in T
OBVIOUS

\* A function on 1..n is a sequence.
LEMMA FunctionIsSeq ==
  ASSUME NEW T, NEW n \in Nat, NEW f \in [1 .. n -> T]
  PROVE  f \in Seq(T) /\ Len(f) = n
OBVIOUS

\* Sequences of one and of two elements.
LEMMA ShortSeqs ==
  ASSUME NEW T, NEW a \in T, NEW b \in T
  PROVE  /\ <<a>> \in Seq(T) /\ Len(<<a>>) = 1 /\ <<a>>[1] = a
         /\ <<a, b>> \in Seq(T) /\ Len(<<a, b>>) = 2
         /\ <<a, b>>[1] = a /\ <<a, b>>[2] = b
OBVIOUS

Types == {"user", "ctrl", "events", "sgdma", "bypass", "base"}

\* What stands where in the order of create_interfaces.
LEMMA InterfaceAt ==
  /\ Len(Interfaces) = 3 + UserIrqs + 4 * Channels
  /\ Interfaces[1] = <<"user", 0>>
  /\ Interfaces[2] = <<"ctrl", 0>>
  /\ \A i \in 1 .. UserIrqs : Interfaces[2 + i] = <<"events", i - 1>>
  /\ \A i \in 1 .. 2 * Channels :
       /\ Interfaces[2 + UserIrqs + i] = <<"sgdma", AllEngines[i]>>
       /\ Interfaces[2 + UserIrqs + 2 * Channels + i] = <<"bypass", AllEngines[i]>>
  /\ Interfaces[3 + UserIrqs + 4 * Channels] = <<"base", 0>>
<1> DEFINE T == Types \X Nat
           B == [i \in 1 .. UserIrqs |-> <<"events", i - 1>>]
<1>1. PICK u \in T, c \in T, b \in T :
        u = <<"user", 0>> /\ c = <<"ctrl", 0>> /\ b = <<"base", 0>>
  BY DEF Types
<1>2. UserIrqs \in Nat /\ Channels \in Nat /\ 2 * Channels \in Nat
  BY SizesAssumption
<1>3. B \in [1 .. UserIrqs -> T]
  BY SizesAssumption DEF Types
<1>4. PICK B1 \in Seq(T) :
        /\ B1 = B /\ Len(B1) = UserIrqs
        /\ \A i \in 1 .. UserIrqs : B1[i] = <<"events", i - 1>>
  <2>1. \A i \in 1 .. UserIrqs : B[i] = <<"events", i - 1>>
    OBVIOUS
  <2> HIDE DEF B, T
  <2> QED BY <1>2, <1>3, <2>1, FunctionIsSeq
<1>5. ASSUME NEW type \in Types
      PROVE  Each(type) \in Seq(T) /\ Len(Each(type)) = 2 * Channels
  <2>1. \A i \in 1 .. 2 * Channels : AllEngines[i] \in Nat
    BY EngineNumberAt
  <2>2. Each(type) \in [1 .. 2 * Channels -> T]
    BY <2>1 DEF Each
  <2> HIDE DEF T
  <2> QED BY <1>2, <2>2, FunctionIsSeq
<1>6. PICK C \in Seq(T), D \in Seq(T) :
        /\ C = Each("sgdma") /\ Len(C) = 2 * Channels
        /\ D = Each("bypass") /\ Len(D) = 2 * Channels
  BY <1>5 DEF Types
<1>7. \A i \in 1 .. 2 * Channels :
        C[i] = <<"sgdma", AllEngines[i]>> /\ D[i] = <<"bypass", AllEngines[i]>>
  BY <1>6 DEF Each
<1> HIDE DEF T, B
<1>8. PICK A \in Seq(T), E \in Seq(T) :
        /\ A = <<u, c>> /\ Len(A) = 2 /\ A[1] = u /\ A[2] = c
        /\ E = <<b>> /\ Len(E) = 1 /\ E[1] = b
  <2>1. /\ <<b>> \in Seq(T) /\ Len(<<b>>) = 1 /\ <<b>>[1] = b
        /\ <<u, c>> \in Seq(T) /\ Len(<<u, c>>) = 2
        /\ <<u, c>>[1] = u /\ <<u, c>>[2] = c
    BY ShortSeqs
  <2> QED BY <2>1, Zenon
<1>9. PICK F \in Seq(T) : F = A \o B1 \o C
  BY JoinThree
<1>10. /\ Len(F) = 2 + UserIrqs + 2 * Channels
       /\ F[1] = u /\ F[2] = c
       /\ \A i \in 1 .. UserIrqs : F[2 + i] = B1[i]
       /\ \A i \in 1 .. 2 * Channels : F[2 + UserIrqs + i] = C[i]
  <2>1. /\ Len(F) = Len(A) + Len(B1) + Len(C)
        /\ \A i \in 1 .. Len(A) : F[i] = A[i]
        /\ \A i \in 1 .. Len(B1) : F[Len(A) + i] = B1[i]
        /\ \A i \in 1 .. Len(C) : F[Len(A) + Len(B1) + i] = C[i]
    <3>1. Joined(F, A, B1, C)
      BY <1>9, JoinThree
    <3> QED BY <3>1 DEF Joined
  <2>2. F[1] = u /\ F[2] = c
    BY <2>1, <1>8
  <2> QED BY <2>1, <2>2, <1>4, <1>6, <1>8
<1>11. Interfaces = F \o D \o E
  BY <1>1, <1>4, <1>6, <1>8, <1>9 DEF Interfaces, B
<1>12. /\ Len(Interfaces) = Len(F) + Len(D) + Len(E)
       /\ \A i \in 1 .. Len(F) : Interfaces[i] = F[i]
       /\ \A i \in 1 .. Len(D) : Interfaces[Len(F) + i] = D[i]
       /\ \A i \in 1 .. Len(E) : Interfaces[Len(F) + Len(D) + i] = E[i]
  <2>1. Joined(F \o D \o E, F, D, E)
    BY JoinThree
  <2>2. Joined(Interfaces, F, D, E)
    BY <1>11, <2>1
  <2> QED BY <2>2 DEF Joined
<1>13. /\ Len(Interfaces) = 3 + UserIrqs + 4 * Channels
       /\ Interfaces[1] = u /\ Interfaces[2] = c
  BY <1>2, <1>6, <1>8, <1>10, <1>12
<1>14. ASSUME NEW i \in 1 .. UserIrqs PROVE Interfaces[2 + i] = <<"events", i - 1>>
  <2>1. 2 + i \in 1 .. Len(F)
    BY <1>2, <1>10
  <2> QED BY <2>1, <1>4, <1>10, <1>12
<1>15. ASSUME NEW i \in 1 .. 2 * Channels
       PROVE  /\ Interfaces[2 + UserIrqs + i] = <<"sgdma", AllEngines[i]>>
              /\ Interfaces[2 + UserIrqs + 2 * Channels + i] = <<"bypass", AllEngines[i]>>
  <2>1. 2 + UserIrqs + i \in 1 .. Len(F)
    BY <1>2, <1>10
  <2>2. Interfaces[2 + UserIrqs + i] = C[i]
    BY <2>1, <1>10, <1>12
  <2>3. Interfaces[2 + UserIrqs + 2 * Channels + i] = D[i]
    BY <1>6, <1>10, <1>12
  <2> QED BY <2>2, <2>3, <1>7
<1>16. Interfaces[3 + UserIrqs + 4 * Channels] = b
  <2>1. 3 + UserIrqs + 4 * Channels = Len(F) + Len(D) + 1
    <3>1. Len(F) = 2 + UserIrqs + 2 * Channels /\ Len(D) = 2 * Channels
      BY <1>6, <1>10
    <3> QED BY <1>2, <3>1
  <2>2. Interfaces[Len(F) + Len(D) + 1] = b
    BY <1>8, <1>12
  <2> QED BY <2>1, <2>2
<1> QED BY <1>1, <1>13, <1>14, <1>15, <1>16

\* There are at least the user, the control and an events device.
LEMMA InterfacesLen == Len(Interfaces) \in Nat /\ Len(Interfaces) > 2
<1>1. Len(Interfaces) = 3 + UserIrqs + 4 * Channels
  BY InterfaceAt
<1>2. UserIrqs \in Nat /\ Channels \in Nat
  BY SizesAssumption
<1> QED BY <1>1, <1>2

\* The kinds of interfaces and their minors, for every position.
LEMMA MinorAt ==
  ASSUME NEW i \in 1 .. Len(Interfaces)
  PROVE  \/ i = 1 /\ Interfaces[i] = <<"user", 0>> /\ MinorOf(Interfaces[i]) = 0
         \/ i = 2 /\ Interfaces[i] = <<"ctrl", 0>> /\ MinorOf(Interfaces[i]) = 1
         \/ /\ i \in 3 .. 2 + UserIrqs
            /\ Interfaces[i][1] = "events" /\ MinorOf(Interfaces[i]) = 7 + i
         \/ \E k \in 1 .. 2 * Channels :
              /\ i = 2 + UserIrqs + k
              /\ Interfaces[i] = <<"sgdma", AllEngines[k]>>
              /\ MinorOf(Interfaces[i]) = 32 + AllEngines[k]
         \/ \E k \in 1 .. 2 * Channels :
              /\ i = 2 + UserIrqs + 2 * Channels + k
              /\ Interfaces[i] = <<"bypass", AllEngines[k]>>
              /\ MinorOf(Interfaces[i]) = 64 + AllEngines[k]
         \/ /\ i = 3 + UserIrqs + 4 * Channels
            /\ Interfaces[i] = <<"base", 0>> /\ MinorOf(Interfaces[i]) = 100
<1>1. UserIrqs \in 1 .. 16 /\ Channels \in 1 .. 4
  BY SizesAssumption
<1>2. i \in 1 .. 3 + UserIrqs + 4 * Channels
  BY InterfaceAt
<1>3. CASE i = 1
  BY <1>3, InterfaceAt DEF MinorOf, GenDevMinor
<1>4. CASE i = 2
  BY <1>4, InterfaceAt DEF MinorOf, GenDevMinor
<1>5. CASE i \in 3 .. 2 + UserIrqs
  <2>1. PICK k \in 1 .. UserIrqs : i = 2 + k
    BY <1>1, <1>5
  <2>2. Interfaces[i] = <<"events", k - 1>>
    BY <2>1, InterfaceAt
  <2> QED BY <1>1, <1>5, <2>1, <2>2 DEF MinorOf, GenDevMinor
<1>6. CASE i \in 3 + UserIrqs .. 2 + UserIrqs + 2 * Channels
  <2>1. PICK k \in 1 .. 2 * Channels : i = 2 + UserIrqs + k
    BY <1>1, <1>6
  <2>2. Interfaces[i] = <<"sgdma", AllEngines[k]>>
    BY <2>1, InterfaceAt
  <2>3. MinorOf(Interfaces[i]) = 32 + AllEngines[k]
    BY <2>2 DEF MinorOf, GenDevMinor
  <2> QED BY <2>1, <2>2, <2>3
<1>7. CASE i \in 3 + UserIrqs + 2 * Channels .. 2 + UserIrqs + 4 * Channels
  <2>1. PICK k \in 1 .. 2 * Channels : i = 2 + UserIrqs + 2 * Channels + k
    BY <1>1, <1>7
  <2>2. Interfaces[i] = <<"bypass", AllEngines[k]>>
    BY <2>1, InterfaceAt
  <2>3. MinorOf(Interfaces[i]) = 64 + AllEngines[k]
    BY <2>2 DEF MinorOf, GenDevMinor
  <2> QED BY <2>1, <2>2, <2>3
<1>8. CASE i = 3 + UserIrqs + 4 * Channels
  BY <1>8, InterfaceAt DEF MinorOf, GenDevMinor
<1>9. \/ i = 1 \/ i = 2 \/ i \in 3 .. 2 + UserIrqs
      \/ i \in 3 + UserIrqs .. 2 + UserIrqs + 2 * Channels
      \/ i \in 3 + UserIrqs + 2 * Channels .. 2 + UserIrqs + 4 * Channels
      \/ i = 3 + UserIrqs + 4 * Channels
  BY <1>1, <1>2
<1> QED BY <1>3, <1>4, <1>5, <1>6, <1>7, <1>8, <1>9, Zenon

\* The minors alone, for every position.
LEMMA MinorNumberAt ==
  ASSUME NEW i \in 1 .. Len(Interfaces), NEW f, f = MinorOf(Interfaces[i])
  PROVE  \/ i = 1 /\ f = 0
         \/ i = 2 /\ f = 1
         \/ i \in 3 .. 2 + UserIrqs /\ f = 7 + i
         \/ \E k \in 1 .. 2 * Channels : i = 2 + UserIrqs + k /\ f = 32 + AllEngines[k]
         \/ \E k \in 1 .. 2 * Channels :
              i = 2 + UserIrqs + 2 * Channels + k /\ f = 64 + AllEngines[k]
         \/ i = 3 + UserIrqs + 4 * Channels /\ f = 100
BY MinorAt

\* create_interfaces goes through the minors in ascending order.
LEMMA MinorsAscend ==
  ASSUME NEW i \in 1 .. Len(Interfaces)
  PROVE  /\ MinorOf(Interfaces[i]) \in 0 .. 100
         /\ i # Len(Interfaces) =>
              /\ i + 1 \in 1 .. Len(Interfaces)
              /\ MinorOf(Interfaces[i]) < MinorOf(Interfaces[i + 1])
<1>1. UserIrqs \in 1 .. 16 /\ Channels \in 1 .. 4
  BY SizesAssumption
<1>2. Len(Interfaces) = 3 + UserIrqs + 4 * Channels
  BY InterfaceAt
<1>3. \A k \in 1 .. 2 * Channels : AllEngines[k] \in 0 .. 7
  BY EngineNumberAt
<1>4. PICK f : f = MinorOf(Interfaces[i])
  OBVIOUS
<1>5. \/ i = 1 /\ f = 0
      \/ i = 2 /\ f = 1
      \/ i \in 3 .. 2 + UserIrqs /\ f = 7 + i
      \/ \E k \in 1 .. 2 * Channels : i = 2 + UserIrqs + k /\ f = 32 + AllEngines[k]
      \/ \E k \in 1 .. 2 * Channels :
           i = 2 + UserIrqs + 2 * Channels + k /\ f = 64 + AllEngines[k]
      \/ i = 3 + UserIrqs + 4 * Channels /\ f = 100
  BY <1>4, MinorNumberAt
<1>6. f \in 0 .. 100
  <2>1. ASSUME NEW k \in 1 .. 2 * Channels, NEW n \in Nat, f = n + AllEngines[k]
        PROVE  f \in n .. n + 7
    <3>1. PICK x \in 0 .. 7 : x = AllEngines[k]
      BY <1>3
    <3> QED BY <2>1, <3>1
  <2>2. CASE \E k \in 1 .. 2 * Channels : f = 32 + AllEngines[k]
    <3>1. f \in 32 .. 39
      BY <2>1, <2>2
    <3> QED BY <3>1
  <2>3. CASE \E k \in 1 .. 2 * Channels : f = 64 + AllEngines[k]
    <3>1. f \in 64 .. 71
      BY <2>1, <2>3
    <3> QED BY <3>1
  <2>4. CASE f \in {0, 1, 100}
    BY <2>4
  <2>5. CASE i \in 3 .. 2 + UserIrqs /\ f = 7 + i
    <3>1. i \in 3 .. 18
      BY <1>1, <2>5
    <3> QED BY <2>5, <3>1
  <2> QED BY <1>5, <2>2, <2>3, <2>4, <2>5
<1>7. ASSUME i # Len(Interfaces)
      PROVE  i + 1 \in 1 .. Len(Interfaces) /\ f < MinorOf(Interfaces[i + 1])
  <2>1. i + 1 \in 1 .. Len(Interfaces)
    BY <1>1, <1>2, <1>7
  <2>2. \A k, m \in 1 .. 2 * Channels : k < m => AllEngines[k] < AllEngines[m]
    BY EnginesAscend
  <2>3. PICK g : g = MinorOf(Interfaces[i + 1])
    OBVIOUS
  <2>4. \/ i + 1 = 1 /\ g = 0
        \/ i + 1 = 2 /\ g = 1
        \/ i + 1 \in 3 .. 2 + UserIrqs /\ g = 7 + (i + 1)
        \/ \E k \in 1 .. 2 * Channels : i + 1 = 2 + UserIrqs + k /\ g = 32 + AllEngines[k]
        \/ \E k \in 1 .. 2 * Channels :
             i + 1 = 2 + UserIrqs + 2 * Channels + k /\ g = 64 + AllEngines[k]
        \/ i + 1 = 3 + UserIrqs + 4 * Channels /\ g = 100
    BY <2>1, <2>3, MinorNumberAt
  <2>5. ASSUME i = 1, f = 0
        PROVE  f < g
    BY <2>4, <2>5, <1>1, <1>3
  <2>6. ASSUME i = 2, f = 1
        PROVE  f < g
    BY <2>4, <2>6, <1>1, <1>3
  <2>7. ASSUME i \in 3 .. 2 + UserIrqs, f = 7 + i
        PROVE  f < g
    BY <2>4, <2>7, <1>1, <1>3
  <2>8. ASSUME NEW k \in 1 .. 2 * Channels, i = 2 + UserIrqs + k, f = 32 + AllEngines[k]
        PROVE  f < g
    <3>1. AllEngines[k] \in 0 .. 7
      BY <1>3
    <3>2. CASE \E m \in 1 .. 2 * Channels : i + 1 = 2 + UserIrqs + m /\ g = 32 + AllEngines[m]
      <4>1. PICK m \in 1 .. 2 * Channels : i + 1 = 2 + UserIrqs + m /\ g = 32 + AllEngines[m]
        BY <3>2
      <4>2. k < m
        BY <4>1, <2>8, <1>1
      <4>3. AllEngines[k] < AllEngines[m] /\ AllEngines[m] \in 0 .. 7
        BY <4>2, <2>2, <1>3
      <4>4. PICK x \in 0 .. 7, y \in 0 .. 7 : x = AllEngines[k] /\ y = AllEngines[m]
        BY <4>3, <3>1
      <4>5. x < y /\ f = 32 + x /\ g = 32 + y
        BY <4>1, <4>3, <4>4, <2>8
      <4> QED BY <4>5
    <3>3. CASE \E m \in 1 .. 2 * Channels :
                 i + 1 = 2 + UserIrqs + 2 * Channels + m /\ g = 64 + AllEngines[m]
      <4>1. PICK m \in 1 .. 2 * Channels : g = 64 + AllEngines[m]
        BY <3>3
      <4>2. f \in 32 .. 39 /\ g \in 64 .. 71
        <5>1. PICK x \in 0 .. 7, y \in 0 .. 7 : x = AllEngines[k] /\ y = AllEngines[m]
          BY <1>3, <3>1
        <5>2. f = 32 + x /\ g = 64 + y
          BY <4>1, <5>1, <2>8
        <5> QED BY <5>2
      <4> QED BY <4>2
    <3>4. CASE i + 1 = 3 + UserIrqs + 4 * Channels /\ g = 100
      BY <3>1, <3>4, <2>8
    <3> QED BY <2>4, <2>8, <3>2, <3>3, <3>4, <1>1
  <2>9. ASSUME NEW k \in 1 .. 2 * Channels, i = 2 + UserIrqs + 2 * Channels + k,
               f = 64 + AllEngines[k]
        PROVE  f < g
    <3>1. AllEngines[k] \in 0 .. 7
      BY <1>3
    <3>2. CASE \E m \in 1 .. 2 * Channels :
                 i + 1 = 2 + UserIrqs + 2 * Channels + m /\ g = 64 + AllEngines[m]
      <4>1. PICK m \in 1 .. 2 * Channels :
                 i + 1 = 2 + UserIrqs + 2 * Channels + m /\ g = 64 + AllEngines[m]
        BY <3>2
      <4>2. k < m
        BY <4>1, <2>9, <1>1
      <4>3. AllEngines[k] < AllEngines[m] /\ AllEngines[m] \in 0 .. 7
        BY <4>2, <2>2, <1>3
      <4>4. PICK x \in 0 .. 7, y \in 0 .. 7 : x = AllEngines[k] /\ y = AllEngines[m]
        BY <4>3, <3>1
      <4>5. x < y /\ f = 64 + x /\ g = 64 + y
        BY <4>1, <4>3, <4>4, <2>9
      <4> QED BY <4>5
    <3>3. CASE i + 1 = 3 + UserIrqs + 4 * Channels /\ g = 100
      BY <3>1, <3>3, <2>9
    <3> QED BY <2>4, <2>9, <3>2, <3>3, <1>1
  <2>10. f < g
    BY <2>5, <2>6, <2>7, <2>8, <2>9, <1>2, <1>5, <1>7
  <2> QED BY <2>1, <2>3, <2>10
<1> QED BY <1>4, <1>6, <1>7

\* A node with the minor of an engine is only created for that engine.
LEMMA MinorOfEngine ==
  ASSUME NEW i \in 1 .. Len(Interfaces), NEW l, Wanted(l, Interfaces[i]),
         NEW e \in Engines, MinorOf(Interfaces[i]) \in {32 + e, 64 + e}
  PROVE  e \in l.engine
<1>1. UserIrqs \in 1 .. 16 /\ Channels \in 1 .. 4
  BY SizesAssumption
<1>2. /\ e \in 0 .. 7
      /\ \A k \in 1 .. 2 * Channels : AllEngines[k] \in 0 .. 7
  BY EngineNumbers, EngineNumberAt
<1>3. PICK f, x : f = MinorOf(Interfaces[i]) /\ x = Interfaces[i]
  OBVIOUS
<1>4. \/ f \in {0, 1, 100}
      \/ i \in 3 .. 2 + UserIrqs /\ f = 7 + i
      \/ \E k \in 1 .. 2 * Channels : x = <<"sgdma", AllEngines[k]>> /\ f = 32 + AllEngines[k]
      \/ \E k \in 1 .. 2 * Channels : x = <<"bypass", AllEngines[k]>> /\ f = 64 + AllEngines[k]
  BY <1>3, MinorAt
<1>5. f \in {32 + e, 64 + e}
  BY <1>3
<1>6. CASE \E k \in 1 .. 2 * Channels : x = <<"sgdma", AllEngines[k]>> /\ f = 32 + AllEngines[k]
  <2>1. PICK k \in 1 .. 2 * Channels : x = <<"sgdma", AllEngines[k]>> /\ f = 32 + AllEngines[k]
    BY <1>6
  <2>2. PICK y \in 0 .. 7 : y = AllEngines[k]
    BY <1>2
  <2>3. y = e
    BY <2>1, <2>2, <1>2, <1>5
  <2> QED BY <2>1, <2>2, <2>3, <1>3 DEF Wanted
<1>7. CASE \E k \in 1 .. 2 * Channels : x = <<"bypass", AllEngines[k]>> /\ f = 64 + AllEngines[k]
  <2>1. PICK k \in 1 .. 2 * Channels : x = <<"bypass", AllEngines[k]>> /\ f = 64 + AllEngines[k]
    BY <1>7
  <2>2. PICK y \in 0 .. 7 : y = AllEngines[k]
    BY <1>2
  <2>3. y = e
    BY <2>1, <2>2, <1>2, <1>5
  <2> QED BY <2>1, <2>2, <2>3, <1>3 DEF Wanted
<1> QED BY <1>1, <1>2, <1>4, <1>5, <1>6, <1>7

-----------------------------------------------------------------------------
(***************************************************************************)
(* What is released, and in which order.                                   *)
(***************************************************************************)

(* ErrorLabels with the module parameter as an argument.                   *)
LabelsOf(l, poll) ==
  << EnginesOf(l, poll), IrqTeardown(l), UnmapBars(l),
     When(l.got_regions, Only("regions")), When(l.msi_enabled, Only("msi")),
     When(~l.regions_in_use, Only("enabled")), Only("lro") >>

RemovalOf(l, poll) ==
  << Only("interrupts"), DestroyInterfaces(l), EnginesOf(l, poll), IrqTeardown(l),
     UnmapBars(l), When(l.got_regions, Only("regions")),
     When(l.msix_enabled, Only("msix")) \cup When(l.msi_enabled, Only("msi")),
     When(~l.regions_in_use, Only("enabled")), Only("sysfs"), Only("lro") >>

\* The operators of the model, with the value of the parameter.
LEMMA WithParameter ==
  ASSUME NEW l
  PROVE  /\ RemoveEngines(l) = EnginesOf(l, poll_mode)
         /\ ErrorLabels(l) = LabelsOf(l, poll_mode)
         /\ RemoveOrder(l) = RemovalOf(l, poll_mode)
<1>1. RemoveEngines(l) = EnginesOf(l, poll_mode)
  BY DEF RemoveEngines, EnginesOf, EngineResources, Writeback
<1> QED BY <1>1 DEF ErrorLabels, LabelsOf, RemoveOrder, RemovalOf

\* The elements of the sets, one by one.
LEMMA Elements ==
  ASSUME NEW l, NEW poll, NEW r
  PROVE  /\ r \in EnginesOf(l, poll) <=> \E e \in l.engine :
              \/ r = <<"engine", e>>
              \/ l.msix_enabled /\ r = <<"engine_irq", e>>
              \/ poll /\ r = <<"writeback", e>>
         /\ r \in IrqTeardown(l) <=>
              \/ l.msix_enabled /\ \E i \in 0 .. UserIrqs - 1 : r = <<"user_irq", i>>
              \/ ~l.msix_enabled /\ l.irq_line /\ r = <<"irq", 0>>
         /\ r \in DestroyInterfaces(l) <=>
              \E i \in DOMAIN l.char_dev : r = <<"char", l.char_dev[i]>>
         /\ r \in UnmapBars(l) <=> l.bar /\ r = <<"bar", 0>>
<1>1. \A cond, S : r \in When(cond, S) <=> cond /\ r \in S
  BY DEF When
<1>2. r \in EnginesOf(l, poll) <=> \E e \in l.engine :
        \/ r = <<"engine", e>>
        \/ r \in When(l.msix_enabled, {<<"engine_irq", e>>})
        \/ r \in When(poll, {<<"writeback", e>>})
  BY Zenon DEF EnginesOf, EngineHandler
<1>3. r \in EnginesOf(l, poll) <=> \E e \in l.engine :
        \/ r = <<"engine", e>>
        \/ l.msix_enabled /\ r = <<"engine_irq", e>>
        \/ poll /\ r = <<"writeback", e>>
  <2>1. ASSUME NEW e
        PROVE  /\ r \in When(l.msix_enabled, {<<"engine_irq", e>>}) <=>
                    l.msix_enabled /\ r = <<"engine_irq", e>>
               /\ r \in When(poll, {<<"writeback", e>>}) <=> poll /\ r = <<"writeback", e>>
    BY DEF When
  <2> QED BY <1>2, <2>1, Zenon
<1>4. r \in UnmapBars(l) <=> l.bar /\ r = <<"bar", 0>>
  BY <1>1 DEF UnmapBars, Only
<1>5. r \in IrqTeardown(l) <=>
        \/ l.msix_enabled /\ \E i \in 0 .. UserIrqs - 1 : r = <<"user_irq", i>>
        \/ ~l.msix_enabled /\ l.irq_line /\ r = <<"irq", 0>>
  BY <1>1 DEF IrqTeardown, Only
<1>6. r \in DestroyInterfaces(l) <=>
        \E i \in DOMAIN l.char_dev : r = <<"char", l.char_dev[i]>>
  BY DEF DestroyInterfaces
<1> QED BY <1>3, <1>4, <1>5, <1>6

\* What a device has, by kind.
LEMMA OwnedBy ==
  ASSUME NEW p, NEW l, NEW poll, NEW r
  PROVE  r \in Owned(p, l, poll) <=>
           \/ r \in DestroyInterfaces(l)
           \/ r \in EnginesOf(l, poll)
           \/ p \in HandlerSteps /\ r \in IrqTeardown(l)
           \/ r \in UnmapBars(l)
           \/ l.got_regions /\ r = <<"regions", 0>>
           \/ l.msi_enabled /\ r = <<"msi", 0>>
           \/ p # "enable" /\ r = <<"enabled", 0>>
           \/ r = <<"lro", 0>>
           \/ p = "bound" /\ r \in {<<"interrupts", 0>>, <<"sysfs", 0>>}
<1>1. \A cond, S : r \in When(cond, S) <=> cond /\ r \in S
  BY DEF When
<1>2. r \in Owned(p, l, poll) <=>
           \/ r \in DestroyInterfaces(l)
           \/ r \in EnginesOf(l, poll)
           \/ r \in When(p \in HandlerSteps, IrqTeardown(l))
           \/ r \in UnmapBars(l)
           \/ r \in When(l.got_regions, Only("regions"))
           \/ r \in When(l.msi_enabled, Only("msi"))
           \/ r \in When(p # "enable", Only("enabled"))
           \/ r \in Only("lro")
           \/ r \in When(p = "bound", {<<"interrupts", 0>>, <<"sysfs", 0>>})
  BY Zenon DEF Owned
<1>3. \A k : r \in Only(k) <=> r = <<k, 0>>
  BY DEF Only
<1> QED BY <1>1, <1>2, <1>3, Zenon

\* The kinds of what is released, and their ranks.
LEMMA KindsReleased ==
  ASSUME NEW l \in Lros, NEW poll, NEW r
  PROVE  /\ r \in DestroyInterfaces(l) => r \in Resources /\ r[1] = "char"
         /\ r \in EnginesOf(l, poll) =>
              r \in Resources /\ r[1] \in {"engine", "engine_irq", "writeback"}
         /\ r \in IrqTeardown(l) => r \in Resources /\ r[1] \in {"irq", "user_irq"}
         /\ r \in UnmapBars(l) => r \in Resources /\ r[1] = "bar"
<1>1. \A e \in l.engine : e \in Nat
  <2>1. l.engine \subseteq Engines
    BY DEF Lros
  <2>2. \A e \in Engines : e \in Nat
    BY EngineNumbers
  <2> QED BY <2>1, <2>2
<1>2. \A i \in DOMAIN l.char_dev : l.char_dev[i] \in Nat
  <2>1. PICK s \in Seq(0 .. 100) : s = l.char_dev
    BY DEF Lros
  <2>2. \A i \in DOMAIN s : s[i] \in 0 .. 100
    BY SeqElements
  <2>3. \A n \in 0 .. 100 : n \in Nat
    OBVIOUS
  <2> QED BY <2>1, <2>2, <2>3
<1>3. \A i \in 0 .. UserIrqs - 1 : i \in Nat
  OBVIOUS
<1>4. \A k \in Kinds, n \in Nat : <<k, n>> \in Resources /\ <<k, n>>[1] = k
  BY DEF Resources
<1>5. {"engine", "engine_irq", "writeback", "irq", "user_irq", "bar", "char"} \subseteq Kinds
  BY DEF Kinds
<1>6. r \in DestroyInterfaces(l) => r \in Resources /\ r[1] = "char"
  <2>1. SUFFICES ASSUME NEW i \in DOMAIN l.char_dev, r = <<"char", l.char_dev[i]>>
                 PROVE  r \in Resources /\ r[1] = "char"
    BY Elements
  <2> QED BY <2>1, <1>2, <1>4, <1>5
<1>7. r \in EnginesOf(l, poll) =>
        r \in Resources /\ r[1] \in {"engine", "engine_irq", "writeback"}
  <2>1. SUFFICES ASSUME NEW e \in l.engine,
                        r \in {<<"engine", e>>, <<"engine_irq", e>>, <<"writeback", e>>}
                 PROVE  r \in Resources /\ r[1] \in {"engine", "engine_irq", "writeback"}
    BY Elements
  <2> QED BY <2>1, <1>1, <1>4, <1>5
<1>8. r \in IrqTeardown(l) => r \in Resources /\ r[1] \in {"irq", "user_irq"}
  <2>1. SUFFICES ASSUME NEW i \in Nat, r \in {<<"user_irq", i>>, <<"irq", 0>>}
                 PROVE  r \in Resources /\ r[1] \in {"irq", "user_irq"}
    BY <1>3, Elements
  <2> QED BY <2>1, <1>4, <1>5
<1>9. r \in UnmapBars(l) => r \in Resources /\ r[1] = "bar"
  <2>1. SUFFICES ASSUME r = <<"bar", 0>> PROVE r \in Resources /\ r[1] = "bar"
    BY Elements
  <2>2. "bar" \in Kinds /\ 0 \in Nat
    BY DEF Kinds
  <2> QED BY <2>1, <2>2, <1>4
<1> QED BY <1>6, <1>7, <1>8, <1>9

\* A label, and those after it, element by element.
LEMMA FromLabel ==
  ASSUME NEW T, NEW E \in Seq(T), Len(E) = 7, NEW m \in 1 .. 7
  PROVE  /\ SubSeq(E, m, Len(E)) \in Seq(T)
         /\ Len(SubSeq(E, m, Len(E))) = 8 - m
         /\ \A j \in 1 .. 8 - m : SubSeq(E, m, Len(E))[j] = E[m + j - 1]
<1>1. SubSeq(E, m, 7) = [k \in 1 .. 7 - m + 1 |-> E[k + m - 1]]
  OBVIOUS
<1>2. 7 - m + 1 = 8 - m /\ 8 - m \in Nat
  OBVIOUS
<1>3. ASSUME NEW j \in 1 .. 8 - m
      PROVE  /\ j + m - 1 = m + j - 1
             /\ m + j - 1 \in 1 .. 7
  OBVIOUS
<1>4. \A j \in 1 .. 8 - m : SubSeq(E, m, 7)[j] = E[m + j - 1]
  BY <1>1, <1>2, <1>3
<1>5. \A k \in 1 .. 7 : E[k] \in T
  <2>1. DOMAIN E = 1 .. Len(E) /\ \A k \in DOMAIN E : E[k] \in T
    BY SeqElements
  <2> QED BY <2>1
<1>6. SubSeq(E, m, 7) \in [1 .. 8 - m -> T]
  BY <1>1, <1>2, <1>3, <1>5
<1>7. SubSeq(E, m, 7) \in Seq(T) /\ Len(SubSeq(E, m, 7)) = 8 - m
  <2>1. PICK n \in Nat : n = 8 - m
    BY <1>2
  <2>2. PICK f \in [1 .. n -> T] : f = SubSeq(E, m, 7)
    BY <1>6, <2>1
  <2>3. f \in Seq(T) /\ Len(f) = n
    BY FunctionIsSeq
  <2> QED BY <2>1, <2>2, <2>3
<1> QED BY <1>4, <1>7

\* Positions: the label m + i - 1 is the i-th after n others.
LEMMA LabelPlace ==
  ASSUME NEW m \in 1 .. 7, NEW n \in {0, 1}, NEW i \in 1 .. 8 - m
  PROVE  m + i - 1 \in m .. 7 /\ n + i = n + (m + i - 1) - m + 1
OBVIOUS

\* Likewise, from the position to the number after the n others.
LEMMA PlaceLabel ==
  ASSUME NEW m \in 1 .. 7, NEW n \in {0, 1}, NEW j \in n + 1 .. n + 8 - m
  PROVE  \E i \in 1 .. 8 - m : j = n + i
<1>1. j - n \in 1 .. 8 - m /\ j = n + (j - n)
  OBVIOUS
<1> QED BY <1>1

\* Labels are in the order of their positions.
LEMMA LabelOrder ==
  ASSUME NEW m \in 1 .. 7, NEW n \in {0, 1}, NEW j \in m .. 7, NEW k \in m .. 7,
         n + j - m + 1 < n + k - m + 1
  PROVE  j < k /\ j \in 1 .. 7 /\ k \in 1 .. 7
OBVIOUS

\* Every label from m on is the i-th for some i.
LEMMA LabelNumber ==
  ASSUME NEW m \in 1 .. 7, NEW k \in m .. 7
  PROVE  \E i \in 1 .. 8 - m : k = m + i - 1
<1>1. k - m + 1 \in 1 .. 8 - m /\ k = m + (k - m + 1) - 1
  OBVIOUS
<1> QED BY <1>1

\* The releases after "goto label": first "before", which has one set at
\* most, then the labels from m on.
LEMMA UndoFrom ==
  ASSUME NEW E \in Seq(SUBSET Resources), Len(E) = 7, NEW m \in 1 .. 7,
         NEW before \in Seq(SUBSET Resources), Len(before) \in {0, 1},
         NEW h, NEW left, NEW u, u = before \o SubSeq(E, m, Len(E)),
         \A j \in DOMAIN before : before[j] \subseteq h,
         \A k \in m .. 7 : E[k] \subseteq h,
         \A j, k \in 1 .. 7 : j < k =>
           \A r \in E[j], s \in E[k] : Rank(r[1]) < Rank(s[1]),
         \A j \in DOMAIN before, k \in m .. 7 :
           \A r \in before[j], s \in E[k] : Rank(r[1]) < Rank(s[1]),
         \A r \in h : \/ r[1] \in left
                      \/ \E j \in DOMAIN before : r \in before[j]
                      \/ \E k \in m .. 7 : r \in E[k]
  PROVE  u \in Seq(SUBSET Resources) /\ UndoOk(u, h, left)
<1>1. PICK t \in Seq(SUBSET Resources) :
        /\ t = SubSeq(E, m, Len(E)) /\ Len(t) = 8 - m
        /\ \A j \in 1 .. 8 - m : t[j] = E[m + j - 1]
  <2>1. /\ SubSeq(E, m, Len(E)) \in Seq(SUBSET Resources)
        /\ Len(SubSeq(E, m, Len(E))) = 8 - m
        /\ \A j \in 1 .. 8 - m : SubSeq(E, m, Len(E))[j] = E[m + j - 1]
    BY FromLabel
  <2> QED BY <2>1, Zenon
<1>2. /\ u \in Seq(SUBSET Resources) /\ Len(u) = Len(before) + Len(t)
      /\ \A i \in 1 .. Len(before) : u[i] = before[i]
      /\ \A i \in 1 .. Len(t) : u[Len(before) + i] = t[i]
  <2>1. u = before \o t
    BY <1>1
  <2>2. /\ before \o t \in Seq(SUBSET Resources)
        /\ Len(before \o t) = Len(before) + Len(t)
        /\ \A i \in 1 .. Len(before) : (before \o t)[i] = before[i]
        /\ \A i \in 1 .. Len(t) : (before \o t)[Len(before) + i] = t[i]
    BY JoinTwo
  <2> QED BY <2>1, <2>2, Zenon
<1>3. DOMAIN u = 1 .. Len(u) /\ DOMAIN before = 1 .. Len(before)
  BY <1>2
<1>4. PICK n \in {0, 1} : n = Len(before)
  OBVIOUS
<1>5. ASSUME NEW j \in DOMAIN u
      PROVE  \/ j \in DOMAIN before /\ u[j] = before[j]
             \/ \E k \in m .. 7 : j = n + k - m + 1 /\ u[j] = E[k]
  <2>1. CASE j \in 1 .. n
    BY <2>1, <1>2, <1>3, <1>4
  <2>2. CASE j \in n + 1 .. n + 8 - m
    <3>1. PICK i \in 1 .. 8 - m : j = n + i
      BY <2>2, PlaceLabel
    <3>2. u[j] = E[m + i - 1]
      BY <3>1, <1>1, <1>2, <1>4
    <3>3. m + i - 1 \in m .. 7 /\ j = n + (m + i - 1) - m + 1
      BY <3>1, LabelPlace
    <3> QED BY <3>2, <3>3
  <2> QED BY <2>1, <2>2, <1>1, <1>2, <1>3, <1>4
<1>6. \A j \in DOMAIN u : u[j] \subseteq h
  BY <1>5
<1>7. InRankOrder(u)
  <2> SUFFICES ASSUME NEW j \in DOMAIN u, NEW k \in DOMAIN u, j < k,
                      NEW r \in u[j], NEW s \in u[k]
               PROVE  Rank(r[1]) < Rank(s[1])
    BY DEF InRankOrder
  <2>1. k \notin DOMAIN before
    BY <1>3, <1>4
  <2>2. PICK k1 \in m .. 7 : k = n + k1 - m + 1 /\ u[k] = E[k1]
    BY <2>1, <1>5
  <2>3. CASE j \in DOMAIN before /\ u[j] = before[j]
    BY <2>2, <2>3
  <2>4. CASE \E j1 \in m .. 7 : j = n + j1 - m + 1 /\ u[j] = E[j1]
    <3>1. PICK j1 \in m .. 7 : j = n + j1 - m + 1 /\ u[j] = E[j1]
      BY <2>4
    <3>2. j1 < k1 /\ j1 \in 1 .. 7 /\ k1 \in 1 .. 7
      BY <3>1, <2>2, LabelOrder
    <3> QED BY <3>1, <3>2, <2>2
  <2> QED BY <2>3, <2>4, <1>5
<1>8. ASSUME NEW r \in h
      PROVE  r[1] \in left \/ \E j \in DOMAIN u : r \in u[j]
  <2>1. CASE \E j \in DOMAIN before : r \in before[j]
    <3>1. PICK j \in DOMAIN before : r \in before[j]
      BY <2>1
    <3>2. j \in DOMAIN u /\ u[j] = before[j]
      BY <1>1, <1>2, <1>3
    <3> QED BY <3>1, <3>2
  <2>2. CASE \E k \in m .. 7 : r \in E[k]
    <3>1. PICK k \in m .. 7 : r \in E[k]
      BY <2>2
    <3>2. PICK i \in 1 .. 8 - m : k = m + i - 1
      BY LabelNumber
    <3>3. n + i \in DOMAIN u /\ u[n + i] = E[k]
      BY <3>2, <1>1, <1>2, <1>3, <1>4
    <3> QED BY <3>1, <3>3
  <2> QED BY <2>1, <2>2
<1> QED BY <1>2, <1>6, <1>7, <1>8 DEF UndoOk

\* Sequences of seven and of ten elements: the labels and the order of remove().
LEMMA SevenSets ==
  ASSUME NEW T, NEW a \in T, NEW b \in T, NEW c \in T, NEW d \in T, NEW e \in T,
         NEW f \in T, NEW g \in T, NEW E, E = <<a, b, c, d, e, f, g>>
  PROVE  /\ E \in Seq(T) /\ Len(E) = 7
         /\ E[1] = a /\ E[2] = b /\ E[3] = c /\ E[4] = d /\ E[5] = e /\ E[6] = f /\ E[7] = g
OBVIOUS

\* Likewise for the ten releases of remove().
LEMMA TenSets ==
  ASSUME NEW T, NEW a \in T, NEW b \in T, NEW c \in T, NEW d \in T, NEW e \in T,
         NEW f \in T, NEW g \in T, NEW h \in T, NEW i \in T, NEW j \in T,
         NEW E, E = <<a, b, c, d, e, f, g, h, i, j>>
  PROVE  /\ E \in Seq(T) /\ Len(E) = 10
         /\ E[1] = a /\ E[2] = b /\ E[3] = c /\ E[4] = d /\ E[5] = e
         /\ E[6] = f /\ E[7] = g /\ E[8] = h /\ E[9] = i /\ E[10] = j
OBVIOUS

\* Single resources that are there under a condition.
LEMMA OneResource ==
  ASSUME NEW cond, NEW kind \in Kinds
  PROVE  /\ When(cond, Only(kind)) \in SUBSET Resources
         /\ \A r : r \in When(cond, Only(kind)) <=> cond /\ r = <<kind, 0>>
         /\ Only(kind) \in SUBSET Resources
         /\ \A r : r \in Only(kind) <=> r = <<kind, 0>>
         /\ <<kind, 0>>[1] = kind
<1>1. \A r : r \in Only(kind) <=> r = <<kind, 0>>
  BY DEF Only
<1>2. \A r : r \in When(cond, Only(kind)) <=> cond /\ r = <<kind, 0>>
  BY <1>1 DEF When
<1>3. <<kind, 0>> \in Resources /\ <<kind, 0>>[1] = kind
  BY DEF Resources
<1> QED BY <1>1, <1>2, <1>3

\* The ranks of the kinds.
LEMMA RankOf ==
  /\ Rank("interrupts") = 1 /\ Rank("char") = 2
  /\ Rank("engine") = 3 /\ Rank("engine_irq") = 3 /\ Rank("writeback") = 3
  /\ Rank("irq") = 4 /\ Rank("user_irq") = 4 /\ Rank("bar") = 5 /\ Rank("regions") = 6
  /\ Rank("msi") = 7 /\ Rank("msix") = 7 /\ Rank("enabled") = 8 /\ Rank("sysfs") = 9
  /\ Rank("lro") = 10
BY DEF Rank

\* The labels: what each of them releases, and that it follows the ranks.
LEMMA LabelsOk ==
  ASSUME NEW l \in Lros, NEW poll, NEW E, E = LabelsOf(l, poll)
  PROVE  /\ E \in Seq(SUBSET Resources) /\ Len(E) = 7
         /\ E[1] = EnginesOf(l, poll) /\ E[2] = IrqTeardown(l) /\ E[3] = UnmapBars(l)
         /\ \A r : r \in E[4] <=> l.got_regions /\ r = <<"regions", 0>>
         /\ \A r : r \in E[5] <=> l.msi_enabled /\ r = <<"msi", 0>>
         /\ \A r : r \in E[6] <=> ~l.regions_in_use /\ r = <<"enabled", 0>>
         /\ \A r : r \in E[7] <=> r = <<"lro", 0>>
         /\ \A k \in 1 .. 7 : \A r \in E[k] :
              Rank(r[1]) = IF k = 7 THEN 10 ELSE k + 2
         /\ \A j, k \in 1 .. 7 : j < k =>
              \A r \in E[j], s \in E[k] : Rank(r[1]) < Rank(s[1])
<1>1. /\ EnginesOf(l, poll) \in SUBSET Resources
      /\ IrqTeardown(l) \in SUBSET Resources
      /\ UnmapBars(l) \in SUBSET Resources
  BY KindsReleased
<1>2. {"regions", "msi", "enabled", "lro"} \subseteq Kinds
  BY DEF Kinds
<1>3. PICK a \in SUBSET Resources, b \in SUBSET Resources, c \in SUBSET Resources,
           d \in SUBSET Resources :
        /\ a = When(l.got_regions, Only("regions")) /\ b = When(l.msi_enabled, Only("msi"))
        /\ c = When(~l.regions_in_use, Only("enabled")) /\ d = Only("lro")
  BY <1>2, OneResource
<1>4. /\ E \in Seq(SUBSET Resources) /\ Len(E) = 7
      /\ E[1] = EnginesOf(l, poll) /\ E[2] = IrqTeardown(l) /\ E[3] = UnmapBars(l)
      /\ E[4] = a /\ E[5] = b /\ E[6] = c /\ E[7] = d
  <2>1. E = <<EnginesOf(l, poll), IrqTeardown(l), UnmapBars(l), a, b, c, d>>
    BY <1>3 DEF LabelsOf
  <2> HIDE DEF LabelsOf
  <2> QED BY <2>1, <1>1, SevenSets
<1>5. /\ \A r : r \in a <=> l.got_regions /\ r = <<"regions", 0>>
      /\ \A r : r \in b <=> l.msi_enabled /\ r = <<"msi", 0>>
      /\ \A r : r \in c <=> ~l.regions_in_use /\ r = <<"enabled", 0>>
      /\ \A r : r \in d <=> r = <<"lro", 0>>
  BY <1>2, <1>3, OneResource
<1>6. /\ <<"regions", 0>>[1] = "regions" /\ <<"msi", 0>>[1] = "msi"
      /\ <<"enabled", 0>>[1] = "enabled" /\ <<"lro", 0>>[1] = "lro"
  OBVIOUS
<1>7. /\ \A r \in E[1] : Rank(r[1]) = 3
      /\ \A r \in E[2] : Rank(r[1]) = 4
      /\ \A r \in E[3] : Rank(r[1]) = 5
      /\ \A r \in E[4] : Rank(r[1]) = 6
      /\ \A r \in E[5] : Rank(r[1]) = 7
      /\ \A r \in E[6] : Rank(r[1]) = 8
      /\ \A r \in E[7] : Rank(r[1]) = 10
  <2>1. \A r \in E[1] : Rank(r[1]) = 3
    BY <1>4, KindsReleased, RankOf
  <2>2. \A r \in E[2] : Rank(r[1]) = 4
    BY <1>4, KindsReleased, RankOf
  <2>3. \A r \in E[3] : Rank(r[1]) = 5
    BY <1>4, KindsReleased, RankOf
  <2>4. /\ \A r \in a : Rank(r[1]) = 6
        /\ \A r \in b : Rank(r[1]) = 7
        /\ \A r \in c : Rank(r[1]) = 8
        /\ \A r \in d : Rank(r[1]) = 10
    BY <1>5, <1>6, RankOf
  <2> QED BY <2>1, <2>2, <2>3, <2>4, <1>4
<1>8. \A k \in 1 .. 7 : \A r \in E[k] : Rank(r[1]) = IF k = 7 THEN 10 ELSE k + 2
  BY <1>7
<1>9. \A j, k \in 1 .. 7 : j < k => \A r \in E[j], s \in E[k] : Rank(r[1]) < Rank(s[1])
  <2> SUFFICES ASSUME NEW j \in 1 .. 7, NEW k \in 1 .. 7, j < k, NEW r \in E[j], NEW s \in E[k]
               PROVE  Rank(r[1]) < Rank(s[1])
    OBVIOUS
  <2>1. /\ Rank(r[1]) = IF j = 7 THEN 10 ELSE j + 2
        /\ Rank(s[1]) = IF k = 7 THEN 10 ELSE k + 2
    BY <1>8
  <2> QED BY <2>1
<1> QED BY <1>4, <1>5, <1>8, <1>9

\* The order of remove(): what each step releases, and that it follows the ranks.
LEMMA RemovalOk ==
  ASSUME NEW l \in Lros, NEW poll, NEW E, E = RemovalOf(l, poll)
  PROVE  /\ E \in Seq(SUBSET Resources) /\ Len(E) = 10
         /\ \A r : r \in E[1] <=> r = <<"interrupts", 0>>
         /\ E[2] = DestroyInterfaces(l)
         /\ E[3] = EnginesOf(l, poll) /\ E[4] = IrqTeardown(l) /\ E[5] = UnmapBars(l)
         /\ \A r : r \in E[6] <=> l.got_regions /\ r = <<"regions", 0>>
         /\ \A r : r \in E[7] <=> \/ l.msix_enabled /\ r = <<"msix", 0>>
                                  \/ l.msi_enabled /\ r = <<"msi", 0>>
         /\ \A r : r \in E[8] <=> ~l.regions_in_use /\ r = <<"enabled", 0>>
         /\ \A r : r \in E[9] <=> r = <<"sysfs", 0>>
         /\ \A r : r \in E[10] <=> r = <<"lro", 0>>
         /\ InRankOrder(E)
<1>1. /\ DestroyInterfaces(l) \in SUBSET Resources
      /\ EnginesOf(l, poll) \in SUBSET Resources
      /\ IrqTeardown(l) \in SUBSET Resources
      /\ UnmapBars(l) \in SUBSET Resources
  BY KindsReleased
<1>2. {"interrupts", "regions", "msi", "msix", "enabled", "sysfs", "lro"} \subseteq Kinds
  BY DEF Kinds
<1>3. PICK a \in SUBSET Resources, b \in SUBSET Resources, c \in SUBSET Resources,
           d \in SUBSET Resources, e \in SUBSET Resources, f \in SUBSET Resources :
        /\ a = When(l.got_regions, Only("regions"))
        /\ b = When(l.msix_enabled, Only("msix")) \cup When(l.msi_enabled, Only("msi"))
        /\ c = When(~l.regions_in_use, Only("enabled")) /\ d = Only("lro")
        /\ e = Only("interrupts") /\ f = Only("sysfs")
  <2>1. /\ When(l.got_regions, Only("regions")) \in SUBSET Resources
        /\ When(l.msix_enabled, Only("msix")) \in SUBSET Resources
        /\ When(l.msi_enabled, Only("msi")) \in SUBSET Resources
        /\ When(~l.regions_in_use, Only("enabled")) \in SUBSET Resources
        /\ Only("lro") \in SUBSET Resources /\ Only("interrupts") \in SUBSET Resources
        /\ Only("sysfs") \in SUBSET Resources
    BY <1>2, OneResource
  <2>2. When(l.msix_enabled, Only("msix")) \cup When(l.msi_enabled, Only("msi"))
          \in SUBSET Resources
    BY <2>1
  <2> QED BY <2>1, <2>2, Zenon
<1>4. /\ E \in Seq(SUBSET Resources) /\ Len(E) = 10
      /\ E[1] = e /\ E[2] = DestroyInterfaces(l)
      /\ E[3] = EnginesOf(l, poll) /\ E[4] = IrqTeardown(l) /\ E[5] = UnmapBars(l)
      /\ E[6] = a /\ E[7] = b /\ E[8] = c /\ E[9] = f /\ E[10] = d
  <2>1. E = <<e, DestroyInterfaces(l), EnginesOf(l, poll), IrqTeardown(l), UnmapBars(l),
              a, b, c, f, d>>
    BY <1>3 DEF RemovalOf
  <2> QED BY <2>1, <1>1, TenSets
<1>5. /\ \A r : r \in a <=> l.got_regions /\ r = <<"regions", 0>>
      /\ \A r : r \in b <=> \/ l.msix_enabled /\ r = <<"msix", 0>>
                            \/ l.msi_enabled /\ r = <<"msi", 0>>
      /\ \A r : r \in c <=> ~l.regions_in_use /\ r = <<"enabled", 0>>
      /\ \A r : r \in d <=> r = <<"lro", 0>>
      /\ \A r : r \in e <=> r = <<"interrupts", 0>>
      /\ \A r : r \in f <=> r = <<"sysfs", 0>>
  <2>1. \A r : r \in b <=> \/ r \in When(l.msix_enabled, Only("msix"))
                           \/ r \in When(l.msi_enabled, Only("msi"))
    BY <1>3
  <2> QED BY <1>2, <1>3, <2>1, OneResource
<1>6. /\ <<"regions", 0>>[1] = "regions" /\ <<"msi", 0>>[1] = "msi"
      /\ <<"enabled", 0>>[1] = "enabled" /\ <<"lro", 0>>[1] = "lro"
      /\ <<"msix", 0>>[1] = "msix" /\ <<"sysfs", 0>>[1] = "sysfs"
      /\ <<"interrupts", 0>>[1] = "interrupts"
  OBVIOUS
<1>7. \A k \in 1 .. 10 : \A r \in E[k] : Rank(r[1]) = k
  <2>1. \A r \in E[2] : Rank(r[1]) = 2
    BY <1>4, KindsReleased, RankOf
  <2>2. \A r \in E[3] : Rank(r[1]) = 3
    BY <1>4, KindsReleased, RankOf
  <2>3. \A r \in E[4] : Rank(r[1]) = 4
    BY <1>4, KindsReleased, RankOf
  <2>4. \A r \in E[5] : Rank(r[1]) = 5
    BY <1>4, KindsReleased, RankOf
  <2>5. /\ \A r \in a : Rank(r[1]) = 6
        /\ \A r \in b : Rank(r[1]) = 7
        /\ \A r \in c : Rank(r[1]) = 8
        /\ \A r \in d : Rank(r[1]) = 10
        /\ \A r \in e : Rank(r[1]) = 1
        /\ \A r \in f : Rank(r[1]) = 9
    BY <1>5, <1>6, RankOf
  <2>6. /\ \A r \in E[1] : Rank(r[1]) = 1
        /\ \A r \in E[6] : Rank(r[1]) = 6
        /\ \A r \in E[7] : Rank(r[1]) = 7
        /\ \A r \in E[8] : Rank(r[1]) = 8
        /\ \A r \in E[9] : Rank(r[1]) = 9
        /\ \A r \in E[10] : Rank(r[1]) = 10
    BY <2>5, <1>4
  <2> QED BY <2>1, <2>2, <2>3, <2>4, <2>6
<1>8. DOMAIN E = 1 .. 10
  BY <1>4
<1>9. InRankOrder(E)
  BY <1>7, <1>8 DEF InRankOrder
<1> QED BY <1>4, <1>5, <1>9

\* What a device holds, by kind: HeldOk without Owned.
LEMMA HeldParts ==
  ASSUME NEW p, NEW l, NEW poll, NEW h, HeldOk(p, l, h, poll)
  PROVE  /\ DestroyInterfaces(l) \subseteq h
         /\ EnginesOf(l, poll) \subseteq h
         /\ p \in HandlerSteps => IrqTeardown(l) \subseteq h
         /\ UnmapBars(l) \subseteq h
         /\ l.got_regions => <<"regions", 0>> \in h
         /\ l.msi_enabled => <<"msi", 0>> \in h
         /\ p # "enable" => <<"enabled", 0>> \in h
         /\ <<"lro", 0>> \in h
         /\ p = "bound" => <<"interrupts", 0>> \in h /\ <<"sysfs", 0>> \in h
         /\ p \in HandlerSteps /\ l.msix_enabled => <<"msix", 0>> \in h
         /\ \A r \in h :
              \/ r \in DestroyInterfaces(l)
              \/ r \in EnginesOf(l, poll)
              \/ p \in HandlerSteps /\ r \in IrqTeardown(l)
              \/ r \in UnmapBars(l)
              \/ l.got_regions /\ r = <<"regions", 0>>
              \/ l.msi_enabled /\ r = <<"msi", 0>>
              \/ p # "enable" /\ r = <<"enabled", 0>>
              \/ r = <<"lro", 0>>
              \/ p = "bound" /\ r \in {<<"interrupts", 0>>, <<"sysfs", 0>>}
              \/ r[1] = "region"
              \/ r = <<"msix", 0>> /\ l.msix_enabled
BY OwnedBy, Zenon DEF HeldOk

\* The lro with which a label is entered: what may differ from the one at
\* the beginning of the step.
SameParts(p, l, l2) ==
  /\ l2.engine = l.engine /\ l2.char_dev = l.char_dev
  /\ l2.bar = l.bar /\ l2.got_regions = l.got_regions
  /\ p = "msi" \/ (l2.msi_enabled = l.msi_enabled /\ l2.msix_enabled = l.msix_enabled)
  /\ p = "irq" \/ l2.irq_line = l.irq_line
  /\ p = "regions" \/ ~l2.regions_in_use
  /\ p = "regions" => l2.regions_in_use

\* The same releases are made for both.
LEMMA SameReleases ==
  ASSUME NEW p, NEW l, NEW l2, NEW poll, SameParts(p, l, l2)
  PROVE  /\ DestroyInterfaces(l2) = DestroyInterfaces(l)
         /\ UnmapBars(l2) = UnmapBars(l)
         /\ p # "msi" => EnginesOf(l2, poll) = EnginesOf(l, poll)
         /\ p \notin {"msi", "irq"} => IrqTeardown(l2) = IrqTeardown(l)
BY Zenon DEF SameParts, DestroyInterfaces, UnmapBars, EnginesOf, EngineHandler, IrqTeardown

\* Which step goes to which label, and what it releases before.
FailsTo(p, m, before, l, poll) ==
  \/ p = "enable" /\ m = 7 /\ before = <<>>
  \/ p = "msi" /\ m = 6 /\ before = <<>>
  \/ p = "regions" /\ m = 5 /\ before = <<>>
  \/ p = "bars" /\ m = 4 /\ before = <<>>
  \/ p \in {"mask", "irq"} /\ m = 3 /\ before = <<>>
  \/ p = "h2c" /\ m = 2 /\ before = <<EnginesOf(l, poll)>>
  \/ p = "c2h" /\ m = 2 /\ before = <<>>
  \/ p = "interfaces" /\ m = 1 /\ before = <<DestroyInterfaces(l)>>
  \/ p = "finish" /\ m = 1 /\ before = <<>>

\* What is released before the labels: of a lower rank than theirs.
LEMMA BeforeOk ==
  ASSUME NEW p, NEW m, NEW before, NEW l \in Lros, NEW poll, NEW h,
         FailsTo(p, m, before, l, poll), HeldOk(p, l, h, poll)
  PROVE  /\ m \in 1 .. 7
         /\ before \in Seq(SUBSET Resources) /\ Len(before) \in {0, 1}
         /\ \A j \in DOMAIN before : before[j] \subseteq h
         /\ \A j \in DOMAIN before : \A r \in before[j] : Rank(r[1]) < m + 2
         /\ p = "h2c" => \A r \in EnginesOf(l, poll) : \E j \in DOMAIN before : r \in before[j]
         /\ p = "interfaces" =>
              \A r \in DestroyInterfaces(l) : \E j \in DOMAIN before : r \in before[j]
<1>1. ASSUME NEW B, B \in SUBSET Resources, before = <<B>>
      PROVE  /\ before \in Seq(SUBSET Resources) /\ Len(before) = 1
             /\ DOMAIN before = {1} /\ before[1] = B
  BY <1>1
<1>2. ASSUME before = <<>>
      PROVE  before \in Seq(SUBSET Resources) /\ Len(before) = 0 /\ DOMAIN before = {}
  BY <1>2
<1>3. /\ DestroyInterfaces(l) \in SUBSET Resources /\ EnginesOf(l, poll) \in SUBSET Resources
      /\ \A r \in DestroyInterfaces(l) : Rank(r[1]) = 2
      /\ \A r \in EnginesOf(l, poll) : Rank(r[1]) = 3
  BY KindsReleased, RankOf
<1>4. DestroyInterfaces(l) \subseteq h /\ EnginesOf(l, poll) \subseteq h
  BY HeldParts
<1>5. CASE p = "h2c"
  <2>1. m = 2 /\ before = <<EnginesOf(l, poll)>>
    BY <1>5 DEF FailsTo
  <2>2. /\ before \in Seq(SUBSET Resources) /\ Len(before) = 1
        /\ DOMAIN before = {1} /\ before[1] = EnginesOf(l, poll)
    BY <2>1, <1>1, <1>3
  <2> QED BY <2>1, <2>2, <1>3, <1>4, <1>5
<1>6. CASE p = "interfaces"
  <2>1. m = 1 /\ before = <<DestroyInterfaces(l)>>
    BY <1>6 DEF FailsTo
  <2>2. /\ before \in Seq(SUBSET Resources) /\ Len(before) = 1
        /\ DOMAIN before = {1} /\ before[1] = DestroyInterfaces(l)
    BY <2>1, <1>1, <1>3
  <2> QED BY <2>1, <2>2, <1>3, <1>4, <1>6
<1>7. CASE p \notin {"h2c", "interfaces"}
  <2>1. m \in 1 .. 7 /\ before = <<>>
    BY <1>7 DEF FailsTo
  <2> QED BY <2>1, <1>2, <1>7
<1> QED BY <1>5, <1>6, <1>7

\* The labels from m on find what they release.
LEMMA LabelsFind ==
  ASSUME NEW p, NEW m, NEW before, NEW l \in Lros, NEW l2 \in Lros, NEW poll, NEW h, NEW c,
         FailsTo(p, m, before, l, poll), HeldOk(p, l, h, poll), FlagsOk(p, l, c),
         SameParts(p, l, l2), NEW E, E = LabelsOf(l2, poll)
  PROVE  \A k \in m .. 7 : E[k] \subseteq h
<1>1. /\ E[1] = EnginesOf(l2, poll) /\ E[2] = IrqTeardown(l2) /\ E[3] = UnmapBars(l2)
      /\ \A r : r \in E[4] <=> l2.got_regions /\ r = <<"regions", 0>>
      /\ \A r : r \in E[5] <=> l2.msi_enabled /\ r = <<"msi", 0>>
      /\ \A r : r \in E[6] <=> ~l2.regions_in_use /\ r = <<"enabled", 0>>
      /\ \A r : r \in E[7] <=> r = <<"lro", 0>>
  BY LabelsOk
<1>2. m \in 1 .. 7 /\ (m <= 6 => p # "enable") /\ (m <= 5 => p # "msi")
      /\ (m <= 2 => p \in HandlerSteps /\ p # "irq")
  BY DEF FailsTo, HandlerSteps
<1>3. m <= 1 => E[1] \subseteq h
  BY <1>1, <1>2, HeldParts, SameReleases
<1>4. m <= 2 => E[2] \subseteq h
  BY <1>1, <1>2, HeldParts, SameReleases
<1>5. E[3] \subseteq h
  BY <1>1, HeldParts, SameReleases
<1>6. E[4] \subseteq h
  BY <1>1, HeldParts DEF SameParts
<1>7. m <= 5 => E[5] \subseteq h
  BY <1>1, <1>2, HeldParts DEF SameParts
<1>8. m <= 6 => E[6] \subseteq h
  BY <1>1, <1>2, HeldParts
<1>9. E[7] \subseteq h
  BY <1>1, HeldParts
<1> QED BY <1>2, <1>3, <1>4, <1>5, <1>6, <1>7, <1>8, <1>9

CoveredBy(E, m, before, h, left) ==
  \A r \in h :
    \/ r[1] \in left
    \/ \E j \in DOMAIN before : r \in before[j]
    \/ \E k \in m .. 7 : r \in E[k]

\* Everything held is released, or of a kind that is left by the failure.
LEMMA LabelsCover ==
  ASSUME NEW p, NEW m, NEW before, NEW l \in Lros, NEW l2 \in Lros, NEW poll, NEW h, NEW c,
         FailsTo(p, m, before, l, poll), HeldOk(p, l, h, poll), FlagsOk(p, l, c),
         SameParts(p, l, l2), NEW E, E = LabelsOf(l2, poll)
  PROVE  CoveredBy(E, m, before, h, LeftOver("undo", p))
<1> SUFFICES ASSUME NEW r \in h
             PROVE  \/ r[1] \in LeftOver("undo", p)
                    \/ \E j \in DOMAIN before : r \in before[j]
                    \/ \E k \in m .. 7 : r \in E[k]
  BY DEF CoveredBy
<1>1. /\ E[1] = EnginesOf(l2, poll) /\ E[2] = IrqTeardown(l2) /\ E[3] = UnmapBars(l2)
      /\ \A s : s \in E[4] <=> l2.got_regions /\ s = <<"regions", 0>>
      /\ \A s : s \in E[5] <=> l2.msi_enabled /\ s = <<"msi", 0>>
      /\ \A s : s \in E[6] <=> ~l2.regions_in_use /\ s = <<"enabled", 0>>
      /\ \A s : s \in E[7] <=> s = <<"lro", 0>>
  BY LabelsOk
<1>2. /\ m \in 1 .. 7
      /\ p = "h2c" => \A s \in EnginesOf(l, poll) : \E j \in DOMAIN before : s \in before[j]
      /\ p = "interfaces" =>
           \A s \in DestroyInterfaces(l) : \E j \in DOMAIN before : s \in before[j]
  BY BeforeOk
<1>3. CASE r \in DestroyInterfaces(l)
  <2>1. p \in EngineSteps
    <3>1. DOMAIN l.char_dev # {}
      BY <1>3, Elements
    <3>2. l.char_dev # <<>>
      BY <3>1
    <3> QED BY <3>2 DEF FlagsOk
  <2>2. p \in {"interfaces", "finish"}
    BY <2>1 DEF EngineSteps, FailsTo
  <2>3. r[1] = "char"
    BY <1>3, KindsReleased
  <2>4. "char" \in LeftOver("undo", "finish")
    BY DEF LeftOver
  <2> QED BY <2>2, <2>3, <2>4, <1>2, <1>3
<1>4. CASE r \in EnginesOf(l, poll)
  <2>1. p \in HandlerSteps
    BY <1>4, Elements DEF FlagsOk
  <2>2. p = "h2c" \/ p = "c2h" \/ m = 1
    BY <2>1 DEF HandlerSteps, FailsTo
  <2>3. CASE m = 1
    <3>1. p # "msi"
      BY <2>1 DEF HandlerSteps
    <3> QED BY <2>3, <3>1, <1>1, <1>4, SameReleases
  <2>4. CASE p = "c2h"
    <3>1. r[1] \in {"engine", "engine_irq", "writeback"}
      BY <1>4, KindsReleased
    <3>2. {"engine", "engine_irq", "writeback"} \subseteq LeftOver("undo", "c2h")
      BY DEF LeftOver
    <3> QED BY <3>1, <3>2, <2>4
  <2> QED BY <2>2, <2>3, <2>4, <1>2, <1>4
<1>5. CASE p \in HandlerSteps /\ r \in IrqTeardown(l)
  <2>1. m <= 2 /\ p \notin {"msi", "irq"}
    BY <1>5 DEF HandlerSteps, FailsTo
  <2>2. r \in E[2]
    BY <2>1, <1>1, <1>5, SameReleases
  <2> QED BY <2>1, <2>2, <1>2
<1>6. CASE r \in UnmapBars(l)
  <2>1. l.bar
    BY <1>6, Elements
  <2>2. m <= 3
    BY <2>1 DEF FlagsOk, FailsTo
  <2>3. r \in E[3]
    BY <1>1, <1>6, SameReleases
  <2> QED BY <2>2, <2>3, <1>2
<1>7. CASE l.got_regions /\ r = <<"regions", 0>>
  <2>1. m <= 4
    BY <1>7 DEF FlagsOk, FailsTo
  <2>2. r \in E[4]
    BY <1>1, <1>7 DEF SameParts
  <2> QED BY <2>1, <2>2, <1>2
<1>8. CASE l.msi_enabled /\ r = <<"msi", 0>>
  <2>1. m <= 5 /\ p # "msi"
    BY <1>8 DEF FlagsOk, FailsTo
  <2>2. r \in E[5]
    BY <2>1, <1>1, <1>8 DEF SameParts
  <2> QED BY <2>1, <2>2, <1>2
<1>9. CASE p # "enable" /\ r = <<"enabled", 0>>
  <2>1. CASE p = "regions"
    <3>1. "enabled" \in LeftOver("undo", "regions")
      BY DEF LeftOver
    <3>2. r[1] = "enabled"
      BY <1>9
    <3> QED BY <3>1, <3>2, <2>1
  <2>2. CASE p # "regions"
    <3>1. r \in E[6] /\ m <= 6
      BY <2>2, <1>1, <1>9 DEF SameParts, FailsTo
    <3> QED BY <3>1, <1>2
  <2> QED BY <2>1, <2>2
<1>10. CASE r = <<"lro", 0>>
  BY <1>1, <1>2, <1>10
<1>11. CASE r[1] = "region"
  BY <1>11 DEF LeftOver
<1>12. CASE r = <<"msix", 0>> /\ l.msix_enabled
  <2>1. p \notin {"enable", "msi"}
    BY <1>12 DEF FlagsOk
  <2>2. "msix" \in LeftOver("undo", p)
    BY <2>1 DEF LeftOver
  <2>3. r[1] = "msix"
    BY <1>12
  <2> QED BY <2>2, <2>3
<1>13. p # "bound"
  BY DEF FailsTo
<1>14. \/ r \in DestroyInterfaces(l)
       \/ r \in EnginesOf(l, poll)
       \/ p \in HandlerSteps /\ r \in IrqTeardown(l)
       \/ r \in UnmapBars(l)
       \/ l.got_regions /\ r = <<"regions", 0>>
       \/ l.msi_enabled /\ r = <<"msi", 0>>
       \/ p # "enable" /\ r = <<"enabled", 0>>
       \/ r = <<"lro", 0>>
       \/ p = "bound"
       \/ r[1] = "region"
       \/ r = <<"msix", 0>> /\ l.msix_enabled
  BY HeldParts
<1> QED
  BY <1>3, <1>4, <1>5, <1>6, <1>7, <1>8, <1>9, <1>10, <1>11, <1>12, <1>13, <1>14, Zenon

\* "goto label" after a failed step, before and after the interrupts were
\* enabled: the releases find what they release, in the order of the ranks,
\* and leave what MayBeLeft says.
LEMMA LabelUndo ==
  ASSUME NEW p, NEW m, NEW before, NEW l \in Lros, NEW l2 \in Lros, NEW poll, NEW h, NEW c,
         FailsTo(p, m, before, l, poll), HeldOk(p, l, h, poll), FlagsOk(p, l, c),
         SameParts(p, l, l2), NEW u, u = before \o SubSeq(LabelsOf(l2, poll), m, Len(LabelsOf(l2, poll))),
         NEW h2, h2 = h \/ (p = "finish" /\ h2 = h \cup {<<"interrupts", 0>>})
  PROVE  u \in Seq(SUBSET Resources) /\ UndoOk(u, h2, LeftOver("undo", p))
<1>1. PICK E : E = LabelsOf(l2, poll)
  OBVIOUS
<1>2. /\ E \in Seq(SUBSET Resources) /\ Len(E) = 7
      /\ \A k \in 1 .. 7 : \A r \in E[k] : Rank(r[1]) = IF k = 7 THEN 10 ELSE k + 2
      /\ \A j, k \in 1 .. 7 : j < k =>
           \A r \in E[j], s \in E[k] : Rank(r[1]) < Rank(s[1])
  BY <1>1, LabelsOk
<1>3. /\ m \in 1 .. 7
      /\ before \in Seq(SUBSET Resources) /\ Len(before) \in {0, 1}
      /\ \A j \in DOMAIN before : before[j] \subseteq h
      /\ \A j \in DOMAIN before : \A r \in before[j] : Rank(r[1]) < m + 2
  BY BeforeOk
<1>4. \A k \in m .. 7 : E[k] \subseteq h
  BY <1>1, LabelsFind
<1>5. \A r \in h :
        \/ r[1] \in LeftOver("undo", p)
        \/ \E j \in DOMAIN before : r \in before[j]
        \/ \E k \in m .. 7 : r \in E[k]
  <2>1. CoveredBy(E, m, before, h, LeftOver("undo", p))
    BY <1>1, LabelsCover
  <2> QED BY <2>1 DEF CoveredBy
<1>6. \A j \in DOMAIN before, k \in m .. 7 :
        \A r \in before[j], s \in E[k] : Rank(r[1]) < Rank(s[1])
  <2> SUFFICES ASSUME NEW j \in DOMAIN before, NEW k \in m .. 7,
                      NEW r \in before[j], NEW s \in E[k]
               PROVE  Rank(r[1]) < Rank(s[1])
    OBVIOUS
  <2>1. Rank(r[1]) \in Nat
    <3>1. before[j] \in SUBSET Resources
      BY <1>3, SeqElements
    <3>2. r[1] \in Kinds
      BY <3>1 DEF Resources
    <3> QED BY <3>2 DEF Kinds, Rank
  <2>2. Rank(s[1]) = IF k = 7 THEN 10 ELSE k + 2
    BY <1>2, <1>3
  <2>3. Rank(r[1]) < m + 2
    BY <1>3
  <2> QED BY <2>1, <2>2, <2>3, <1>3
<1>7. h \subseteq h2
  OBVIOUS
<1>8. \A r \in h2 : \/ r[1] \in LeftOver("undo", p)
                    \/ \E j \in DOMAIN before : r \in before[j]
                    \/ \E k \in m .. 7 : r \in E[k]
  <2>1. "interrupts" \in LeftOver("undo", "finish") /\ <<"interrupts", 0>>[1] = "interrupts"
    BY DEF LeftOver
  <2> QED BY <2>1, <1>5
<1>9. u = before \o SubSeq(E, m, Len(E))
  BY <1>1
<1>10. /\ \A j \in DOMAIN before : before[j] \subseteq h2
       /\ \A k \in m .. 7 : E[k] \subseteq h2
  BY <1>3, <1>4, <1>7
<1> QED BY <1>2, <1>3, <1>6, <1>8, <1>9, <1>10, UndoFrom

\* remove() finds what it releases and leaves nothing but the major number.
LEMMA RemovalUndo ==
  ASSUME NEW l \in Lros, NEW poll, NEW h, NEW c, NEW u,
         HeldOk("bound", l, h, poll), FlagsOk("bound", l, c), u = RemovalOf(l, poll)
  PROVE  u \in Seq(SUBSET Resources) /\ UndoOk(u, h, {"region"})
<1>1. /\ u \in Seq(SUBSET Resources) /\ Len(u) = 10
      /\ \A r : r \in u[1] <=> r = <<"interrupts", 0>>
      /\ u[2] = DestroyInterfaces(l)
      /\ u[3] = EnginesOf(l, poll) /\ u[4] = IrqTeardown(l) /\ u[5] = UnmapBars(l)
      /\ \A r : r \in u[6] <=> l.got_regions /\ r = <<"regions", 0>>
      /\ \A r : r \in u[7] <=> \/ l.msix_enabled /\ r = <<"msix", 0>>
                               \/ l.msi_enabled /\ r = <<"msi", 0>>
      /\ \A r : r \in u[8] <=> ~l.regions_in_use /\ r = <<"enabled", 0>>
      /\ \A r : r \in u[9] <=> r = <<"sysfs", 0>>
      /\ \A r : r \in u[10] <=> r = <<"lro", 0>>
      /\ InRankOrder(u)
  BY RemovalOk
<1>2. DOMAIN u = 1 .. 10
  BY <1>1
<1>3. "bound" \in HandlerSteps /\ "bound" # "enable"
  BY DEF HandlerSteps
<1>4. ~l.regions_in_use
  BY DEF FlagsOk
<1>5. \A j \in DOMAIN u : u[j] \subseteq h
  <2>1. u[1] \subseteq h /\ u[6] \subseteq h /\ u[7] \subseteq h /\ u[8] \subseteq h
        /\ u[9] \subseteq h /\ u[10] \subseteq h
    <3>1. /\ <<"interrupts", 0>> \in h /\ <<"sysfs", 0>> \in h /\ <<"lro", 0>> \in h
          /\ <<"enabled", 0>> \in h
          /\ l.msix_enabled => <<"msix", 0>> \in h
          /\ l.msi_enabled => <<"msi", 0>> \in h
          /\ l.got_regions => <<"regions", 0>> \in h
      BY <1>3, HeldParts
    <3>2. u[1] \subseteq h /\ u[8] \subseteq h /\ u[9] \subseteq h /\ u[10] \subseteq h
      BY <1>1, <3>1
    <3>3. u[6] \subseteq h
      BY <1>1, <3>1
    <3>4. u[7] \subseteq h
      BY <1>1, <3>1
    <3> QED BY <3>2, <3>3, <3>4
  <2>2. u[2] \subseteq h /\ u[3] \subseteq h /\ u[4] \subseteq h /\ u[5] \subseteq h
    BY <1>1, <1>3, HeldParts
  <2> QED BY <2>1, <2>2, <1>2
<1>6. ASSUME NEW r \in h
      PROVE  r[1] \in {"region"} \/ \E j \in DOMAIN u : r \in u[j]
  <2>1. \/ r \in DestroyInterfaces(l)
        \/ r \in EnginesOf(l, poll)
        \/ r \in IrqTeardown(l)
        \/ r \in UnmapBars(l)
        \/ l.got_regions /\ r = <<"regions", 0>>
        \/ l.msi_enabled /\ r = <<"msi", 0>>
        \/ r = <<"enabled", 0>>
        \/ r = <<"lro", 0>>
        \/ r \in {<<"interrupts", 0>>, <<"sysfs", 0>>}
        \/ r[1] = "region"
        \/ r = <<"msix", 0>> /\ l.msix_enabled
    BY HeldParts
  <2>2. \/ r \in u[1] \/ r \in u[2] \/ r \in u[3] \/ r \in u[4] \/ r \in u[5] \/ r \in u[6]
        \/ r \in u[7] \/ r \in u[8] \/ r \in u[9] \/ r \in u[10] \/ r[1] = "region"
    BY <2>1, <1>1, <1>4
  <2> QED BY <2>2, <1>2
<1> QED BY <1>1, <1>5, <1>6 DEF UndoOk

\* At every step of probe(), and when the device is bound, whatever can be
\* entered finds what it uses.
LEMMA LiveWhenProbed ==
  ASSUME NEW p, NEW l \in Lros, NEW poll, NEW h, NEW c, NEW a,
         HeldOk(p, l, h, poll), FlagsOk(p, l, c), CharsOk(l)
  PROVE  LiveOk(h, a, c)
<1>1. \A r \in h :
        \/ r \in DestroyInterfaces(l)
        \/ r \in EnginesOf(l, poll)
        \/ p \in HandlerSteps /\ r \in IrqTeardown(l)
        \/ p = "bound" /\ r = <<"interrupts", 0>>
        \/ r[1] \notin {"irq", "user_irq", "engine_irq", "char", "interrupts"}
  <2> SUFFICES ASSUME NEW r \in h
               PROVE  \/ r \in DestroyInterfaces(l)
                      \/ r \in EnginesOf(l, poll)
                      \/ p \in HandlerSteps /\ r \in IrqTeardown(l)
                      \/ p = "bound" /\ r = <<"interrupts", 0>>
                      \/ r[1] \notin {"irq", "user_irq", "engine_irq", "char", "interrupts"}
    OBVIOUS
  <2>1. \/ r \in DestroyInterfaces(l)
        \/ r \in EnginesOf(l, poll)
        \/ p \in HandlerSteps /\ r \in IrqTeardown(l)
        \/ p = "bound" /\ r = <<"interrupts", 0>>
        \/ r \in UnmapBars(l) \/ r[1] = "region"
        \/ r \in {<<"regions", 0>>, <<"msi", 0>>, <<"enabled", 0>>, <<"lro", 0>>,
                  <<"sysfs", 0>>, <<"msix", 0>>}
    BY HeldParts
  <2>2. r \in UnmapBars(l) => r[1] = "bar"
    BY KindsReleased
  <2> QED BY <2>1, <2>2
<1>2. p \in HandlerSteps =>
        <<"lro", 0>> \in h /\ <<"bar", 0>> \in h /\ <<"enabled", 0>> \in h
  <2>1. p \in HandlerSteps => p # "enable" /\ l.bar
    BY DEF FlagsOk, HandlerSteps
  <2>2. l.bar => <<"bar", 0>> \in UnmapBars(l)
    BY Elements
  <2> QED BY <2>1, <2>2, HeldParts
<1>3. /\ \A r \in EnginesOf(l, poll) : p \in HandlerSteps
      /\ \A r \in DestroyInterfaces(l) : p \in EngineSteps /\ p \in HandlerSteps
  <2>1. \A r \in EnginesOf(l, poll) : p \in HandlerSteps
    BY Elements DEF FlagsOk
  <2>2. ASSUME NEW r \in DestroyInterfaces(l) PROVE p \in EngineSteps
    <3>1. DOMAIN l.char_dev # {}
      BY Elements
    <3>2. l.char_dev # <<>>
      BY <3>1
    <3> QED BY <3>2 DEF FlagsOk
  <2> QED BY <2>1, <2>2 DEF EngineSteps, HandlerSteps
<1>4. ASSUME NEW r \in h, r[1] \in {"irq", "user_irq", "engine_irq", "char"}
      PROVE  <<"lro", 0>> \in h /\ <<"bar", 0>> \in h /\ <<"enabled", 0>> \in h
  <2>1. p \in HandlerSteps
    BY <1>1, <1>3, <1>4
  <2> QED BY <2>1, <1>2
<1>5. ASSUME NEW r \in h, r[1] = "engine_irq"
      PROVE  <<"engine", r[2]>> \in h
  <2>1. r \in EnginesOf(l, poll)
    BY <1>1, <1>5, KindsReleased
  <2>2. PICK e \in l.engine : r = <<"engine_irq", e>>
    BY <2>1, <1>5, Elements
  <2>3. <<"engine", e>> \in EnginesOf(l, poll)
    BY Elements
  <2> QED BY <2>2, <2>3, HeldParts
<1>6. ASSUME NEW r \in h, r[1] = "char", NEW e \in Engines, r[2] \in {32 + e, 64 + e}
      PROVE  <<"engine", e>> \in h
  <2>1. r \in DestroyInterfaces(l)
    BY <1>1, <1>6, KindsReleased
  <2>2. PICK i \in DOMAIN l.char_dev : r = <<"char", l.char_dev[i]>>
    BY <2>1, Elements
  <2>3. l.char_dev[i] \in {32 + e, 64 + e}
    BY <2>2, <1>6
  <2>4. e \in l.engine
    BY <2>3 DEF CharsOk
  <2>5. <<"engine", e>> \in EnginesOf(l, poll)
    BY <2>4, Elements
  <2> QED BY <2>5, HeldParts
<1>7. ASSUME <<"interrupts", 0>> \in h
      PROVE  \/ <<"irq", 0>> \in h
             \/ /\ \A i \in 0 .. UserIrqs - 1 : <<"user_irq", i>> \in h
                /\ \A e \in c.engines : <<"engine_irq", e>> \in h
  <2>1. p = "bound"
    <3>1. PICK r \in h : r = <<"interrupts", 0>> /\ r[1] = "interrupts"
      BY <1>7
    <3> QED BY <3>1, <1>1, KindsReleased
  <2>2. p \in HandlerSteps /\ p \in EngineSteps
    BY <2>1 DEF HandlerSteps, EngineSteps
  <2>3. l.engine = c.engines /\ (l.irq_line <=> ~l.msix_enabled)
    BY <2>2 DEF FlagsOk
  <2>4. IrqTeardown(l) \subseteq h /\ EnginesOf(l, poll) \subseteq h
    BY <2>2, HeldParts
  <2>5. CASE l.msix_enabled
    <3>1. \A i \in 0 .. UserIrqs - 1 : <<"user_irq", i>> \in IrqTeardown(l)
      BY <2>5, Elements
    <3>2. \A e \in c.engines : <<"engine_irq", e>> \in EnginesOf(l, poll)
      BY <2>3, <2>5, Elements
    <3> QED BY <3>1, <3>2, <2>4
  <2>6. CASE ~l.msix_enabled
    <3>1. <<"irq", 0>> \in IrqTeardown(l)
      BY <2>3, <2>6, Elements
    <3> QED BY <3>1, <2>4
  <2> QED BY <2>5, <2>6
<1> QED BY <1>4, <1>5, <1>6, <1>7 DEF LiveOk

\* The kinds a failure leaves are not entered, apart from the exemptions.
LEMMA LeftKinds ==
  ASSUME NEW p, NEW a
  PROVE  /\ "irq" \notin LeftOver(p, a) /\ "user_irq" \notin LeftOver(p, a)
         /\ a # "c2h" => "engine_irq" \notin LeftOver(p, a)
         /\ a # "finish" => "char" \notin LeftOver(p, a) /\ "interrupts" \notin LeftOver(p, a)
BY DEF LeftOver

\* When nothing but the kinds left is held, nothing can be entered that
\* lacks what it uses.
LEMMA LiveWhenNull ==
  ASSUME NEW p, NEW h, NEW a, NEW c, \A r \in h : r[1] \in LeftOver(p, a)
  PROVE  LiveOk(h, a, c)
<1>1. \A r \in h : /\ r[1] \notin {"irq", "user_irq"}
                   /\ a # "c2h" => r[1] # "engine_irq"
                   /\ a # "finish" => r[1] # "char" /\ r[1] # "interrupts"
  BY LeftKinds
<1>2. <<"interrupts", 0>>[1] = "interrupts"
  OBVIOUS
<1> QED BY <1>1, <1>2 DEF LiveOk

\* One release: it finds what it releases; the rest still will, and whatever
\* can be entered afterwards still finds what it uses, because that has a
\* higher rank.
LEMMA ReleaseOk ==
  ASSUME NEW u \in Seq(SUBSET Resources), u # <<>>, NEW h \in SUBSET Resources, NEW p, NEW a,
         NEW c, UndoOk(u, h, LeftOver(p, a)), LiveOk(h, a, c)
  PROVE  /\ Head(u) \subseteq h
         /\ Tail(u) \in Seq(SUBSET Resources)
         /\ UndoOk(Tail(u), h \ Head(u), LeftOver(p, a))
         /\ LiveOk(h \ Head(u), a, c)
<1>1. PICK n \in Nat : n = Len(u) /\ n > 0
  OBVIOUS
<1>2. DOMAIN u = 1 .. n /\ 1 \in 1 .. n /\ Head(u) = u[1]
  BY <1>1
<1>3. PICK t \in Seq(SUBSET Resources) :
        t = Tail(u) /\ DOMAIN t = 1 .. n - 1 /\ \A j \in 1 .. n - 1 : t[j] = u[j + 1]
  <2>1. /\ Tail(u) \in Seq(SUBSET Resources) /\ Len(Tail(u)) = n - 1
        /\ \A j \in 1 .. n - 1 : Tail(u)[j] = u[j + 1]
    BY <1>1
  <2>2. DOMAIN Tail(u) = 1 .. n - 1
    BY <2>1
  <2> QED BY <2>1, <2>2, Zenon
<1>4. /\ \A j \in 1 .. n : u[j] \subseteq h
      /\ \A r \in h : r[1] \in LeftOver(p, a) \/ \E j \in 1 .. n : r \in u[j]
      /\ \A j, k \in 1 .. n : j < k => \A r \in u[j], s \in u[k] : Rank(r[1]) < Rank(s[1])
  BY <1>2 DEF UndoOk, InRankOrder
<1>5. \A r \in h : Rank(r[1]) \in Nat
  <2>1. \A r \in h : r[1] \in Kinds
    BY DEF Resources
  <2>2. \A k \in Kinds : Rank(k) \in Nat
    BY DEF Kinds, Rank
  <2> QED BY <2>1, <2>2
<1>6. ASSUME NEW j \in 1 .. n - 1 PROVE t[j] \subseteq h \ Head(u)
  <2>1. j + 1 \in 1 .. n /\ 1 < j + 1 /\ t[j] = u[j + 1]
    BY <1>1, <1>3
  <2>2. ASSUME NEW s \in u[j + 1], s \in u[1] PROVE FALSE
    <3>1. Rank(s[1]) < Rank(s[1])
      BY <2>1, <2>2, <1>2, <1>4
    <3>2. Rank(s[1]) \in Nat
      BY <2>1, <1>4, <1>5
    <3> QED BY <3>1, <3>2
  <2> QED BY <2>1, <2>2, <1>2, <1>4
<1>7. InRankOrder(t)
  <2> SUFFICES ASSUME NEW j \in 1 .. n - 1, NEW k \in 1 .. n - 1, j < k,
                      NEW r \in t[j], NEW s \in t[k]
               PROVE  Rank(r[1]) < Rank(s[1])
    BY <1>3 DEF InRankOrder
  <2>1. j + 1 \in 1 .. n /\ k + 1 \in 1 .. n /\ j + 1 < k + 1
    BY <1>1
  <2>2. r \in u[j + 1] /\ s \in u[k + 1]
    BY <1>3
  <2> QED BY <2>1, <2>2, <1>4
<1>8. ASSUME NEW r \in h \ Head(u)
      PROVE  r[1] \in LeftOver(p, a) \/ \E j \in 1 .. n - 1 : r \in t[j]
  <2>1. CASE r[1] \in LeftOver(p, a)
    BY <2>1
  <2>2. CASE \E j \in 1 .. n : r \in u[j]
    <3>1. PICK j \in 1 .. n : r \in u[j]
      BY <2>2
    <3>2. j # 1
      BY <3>1, <1>2
    <3>3. j - 1 \in 1 .. n - 1 /\ (j - 1) + 1 = j
      BY <3>2
    <3>4. t[j - 1] = u[(j - 1) + 1]
      BY <3>3, <1>3
    <3> QED BY <3>1, <3>3, <3>4
  <2> QED BY <2>1, <2>2, <1>4
<1>9. UndoOk(t, h \ Head(u), LeftOver(p, a))
  BY <1>3, <1>6, <1>7, <1>8 DEF UndoOk
<1>10. ASSUME NEW r \in h \ Head(u), r[1] \notin LeftOver(p, a), NEW s \in h,
              Rank(r[1]) <= Rank(s[1])
       PROVE  s \in h \ Head(u)
  <2>1. PICK j \in 1 .. n : r \in u[j]
    BY <1>4, <1>10
  <2>2. j # 1
    BY <2>1, <1>2
  <2>3. ASSUME s \in u[1] PROVE FALSE
    <3>1. 1 < j
      BY <2>2
    <3>2. Rank(s[1]) < Rank(r[1])
      BY <2>1, <2>3, <3>1, <1>2, <1>4
    <3>3. Rank(s[1]) \in Nat /\ Rank(r[1]) \in Nat
      BY <1>5
    <3> QED BY <3>2, <3>3, <1>10
  <2> QED BY <2>3, <1>2
<1>11. LiveOk(h \ Head(u), a, c)
  <2>1. /\ Rank("irq") = 4 /\ Rank("user_irq") = 4 /\ Rank("engine_irq") = 3
        /\ Rank("char") = 2 /\ Rank("interrupts") = 1
        /\ Rank("engine") = 3 /\ Rank("bar") = 5 /\ Rank("enabled") = 8 /\ Rank("lro") = 10
    BY RankOf
  <2>2. /\ <<"lro", 0>>[1] = "lro" /\ <<"bar", 0>>[1] = "bar"
        /\ <<"enabled", 0>>[1] = "enabled"
        /\ <<"irq", 0>>[1] = "irq" /\ <<"interrupts", 0>>[1] = "interrupts"
        /\ \A e : <<"engine", e>>[1] = "engine" /\ <<"engine_irq", e>>[1] = "engine_irq"
        /\ \A e : <<"user_irq", e>>[1] = "user_irq"
    OBVIOUS
  <2>3. ASSUME NEW r \in h \ Head(u), r[1] \notin LeftOver(p, a), Rank(r[1]) <= 4,
               <<"lro", 0>> \in h /\ <<"bar", 0>> \in h /\ <<"enabled", 0>> \in h
        PROVE  {<<"lro", 0>>, <<"bar", 0>>, <<"enabled", 0>>} \subseteq h \ Head(u)
    <3>1. /\ Rank(r[1]) \in Nat
          /\ Rank(<<"lro", 0>>[1]) = 10 /\ Rank(<<"bar", 0>>[1]) = 5
          /\ Rank(<<"enabled", 0>>[1]) = 8
      BY <2>1, <2>2, <1>5
    <3>2. /\ Rank(r[1]) <= Rank(<<"lro", 0>>[1]) /\ Rank(r[1]) <= Rank(<<"bar", 0>>[1])
          /\ Rank(r[1]) <= Rank(<<"enabled", 0>>[1])
      BY <3>1, <2>3
    <3> QED BY <3>2, <2>3, <1>10
  <2>4. ASSUME NEW r \in h \ Head(u), r[1] \in {"irq", "user_irq"}
        PROVE  {<<"lro", 0>>, <<"bar", 0>>, <<"enabled", 0>>} \subseteq h \ Head(u)
    <3>1. <<"lro", 0>> \in h /\ <<"bar", 0>> \in h /\ <<"enabled", 0>> \in h
      BY <2>4 DEF LiveOk
    <3>2. r[1] \notin LeftOver(p, a) /\ Rank(r[1]) <= 4
      BY <2>1, <2>4, LeftKinds
    <3> QED BY <3>1, <3>2, <2>3
  <2>5. ASSUME NEW r \in h \ Head(u), r[1] = "engine_irq", a # "c2h"
        PROVE  /\ <<"engine", r[2]>> \in h \ Head(u)
               /\ {<<"lro", 0>>, <<"bar", 0>>, <<"enabled", 0>>} \subseteq h \ Head(u)
    <3>1. /\ <<"lro", 0>> \in h /\ <<"bar", 0>> \in h /\ <<"enabled", 0>> \in h
          /\ <<"engine", r[2]>> \in h
      BY <2>5 DEF LiveOk
    <3>2. r[1] \notin LeftOver(p, a) /\ Rank(r[1]) = 3
      BY <2>1, <2>5, LeftKinds
    <3>3. PICK s \in h : s = <<"engine", r[2]>> /\ s[1] = "engine"
      BY <3>1, <2>2
    <3>4. Rank(r[1]) <= Rank(s[1])
      BY <3>2, <3>3, <2>1
    <3>5. s \in h \ Head(u)
      BY <3>2, <3>4, <1>10
    <3>6. Rank(r[1]) <= 4
      BY <3>2
    <3> QED BY <3>1, <3>2, <3>3, <3>5, <3>6, <2>3
  <2>6. ASSUME NEW r \in h \ Head(u), r[1] = "char", a # "finish"
        PROVE  /\ {<<"lro", 0>>, <<"bar", 0>>, <<"enabled", 0>>} \subseteq h \ Head(u)
               /\ \A e \in Engines : r[2] \in {32 + e, 64 + e} => <<"engine", e>> \in h \ Head(u)
    <3>1. /\ <<"lro", 0>> \in h /\ <<"bar", 0>> \in h /\ <<"enabled", 0>> \in h
          /\ \A e \in Engines : r[2] \in {32 + e, 64 + e} => <<"engine", e>> \in h
      BY <2>6 DEF LiveOk
    <3>2. r[1] \notin LeftOver(p, a) /\ Rank(r[1]) = 2
      BY <2>1, <2>6, LeftKinds
    <3>3. ASSUME NEW e \in Engines, r[2] \in {32 + e, 64 + e}
          PROVE  <<"engine", e>> \in h \ Head(u)
      <4>1. PICK s \in h : s = <<"engine", e>> /\ s[1] = "engine"
        BY <3>1, <3>3, <2>2
      <4>2. Rank(r[1]) <= Rank(s[1])
        BY <3>2, <4>1, <2>1
      <4>3. s \in h \ Head(u)
        BY <3>2, <4>2, <1>10
      <4> QED BY <4>1, <4>3
    <3>4. Rank(r[1]) <= 4
      BY <3>2
    <3> QED BY <3>1, <3>2, <3>3, <3>4, <2>3
  <2>7. ASSUME <<"interrupts", 0>> \in h \ Head(u), a # "finish"
        PROVE  \/ <<"irq", 0>> \in h \ Head(u)
               \/ /\ \A i \in 0 .. UserIrqs - 1 : <<"user_irq", i>> \in h \ Head(u)
                  /\ \A e \in c.engines : <<"engine_irq", e>> \in h \ Head(u)
    <3>1. PICK r \in h \ Head(u) : r = <<"interrupts", 0>> /\ r[1] = "interrupts"
      BY <2>2, <2>7
    <3>2. r[1] \notin LeftOver(p, a) /\ Rank(r[1]) = 1
      BY <3>1, <2>1, <2>7, LeftKinds
    <3>3. ASSUME NEW s \in h, s[1] \in {"irq", "user_irq", "engine_irq"}
          PROVE  s \in h \ Head(u)
      <4>1. Rank(r[1]) <= Rank(s[1])
        BY <3>2, <3>3, <2>1
      <4> QED BY <3>2, <4>1, <1>10
    <3>4. \/ <<"irq", 0>> \in h
          \/ /\ \A i \in 0 .. UserIrqs - 1 : <<"user_irq", i>> \in h
             /\ \A e \in c.engines : <<"engine_irq", e>> \in h
      BY <2>7 DEF LiveOk
    <3>5. <<"irq", 0>> \in h => <<"irq", 0>> \in h \ Head(u)
      BY <3>3, <2>2
    <3>6. \A i : <<"user_irq", i>> \in h => <<"user_irq", i>> \in h \ Head(u)
      BY <3>3, <2>2
    <3>7. \A e : <<"engine_irq", e>> \in h => <<"engine_irq", e>> \in h \ Head(u)
      BY <3>3, <2>2
    <3> QED BY <3>4, <3>5, <3>6, <3>7
  <2> QED BY <2>4, <2>5, <2>6, <2>7 DEF LiveOk
<1> QED BY <1>2, <1>3, <1>4, <1>9, <1>11

-----------------------------------------------------------------------------
(***************************************************************************)
(* The steps of probe() that succeed.                                      *)
(***************************************************************************)

\* Where the releases after "goto label" are.
LEMMA UndoPlaces ==
  ASSUME NEW E \in Seq(SUBSET Resources), Len(E) = 7, NEW m \in 1 .. 7,
         NEW before \in Seq(SUBSET Resources), NEW n \in {0, 1}, Len(before) = n,
         NEW u, u = before \o SubSeq(E, m, Len(E))
  PROVE  /\ DOMAIN u = 1 .. n + 8 - m
         /\ \A i \in 1 .. 8 - m : u[n + i] = E[m + i - 1]
         /\ n = 1 => u[1] = before[1]
<1>1. PICK t \in Seq(SUBSET Resources) :
        /\ t = SubSeq(E, m, Len(E)) /\ Len(t) = 8 - m
        /\ \A j \in 1 .. 8 - m : t[j] = E[m + j - 1]
  <2>1. /\ SubSeq(E, m, Len(E)) \in Seq(SUBSET Resources)
        /\ Len(SubSeq(E, m, Len(E))) = 8 - m
        /\ \A j \in 1 .. 8 - m : SubSeq(E, m, Len(E))[j] = E[m + j - 1]
    BY FromLabel
  <2> QED BY <2>1, Zenon
<1>2. /\ u \in Seq(SUBSET Resources) /\ Len(u) = Len(before) + Len(t)
      /\ \A i \in 1 .. Len(before) : u[i] = before[i]
      /\ \A i \in 1 .. Len(t) : u[Len(before) + i] = t[i]
  <2>1. u = before \o t
    BY <1>1
  <2>2. /\ before \o t \in Seq(SUBSET Resources)
        /\ Len(before \o t) = Len(before) + Len(t)
        /\ \A i \in 1 .. Len(before) : (before \o t)[i] = before[i]
        /\ \A i \in 1 .. Len(t) : (before \o t)[Len(before) + i] = t[i]
    BY JoinTwo
  <2> QED BY <2>1, <2>2, Zenon
<1>3. DOMAIN u = 1 .. Len(u) /\ Len(u) = n + 8 - m
  BY <1>1, <1>2
<1>4. ASSUME NEW i \in 1 .. 8 - m PROVE u[n + i] = E[m + i - 1]
  <2>1. i \in 1 .. Len(t)
    BY <1>1
  <2>2. u[n + i] = t[i]
    BY <1>2, <2>1
  <2> QED BY <1>1, <2>2
<1>5. n = 1 => u[1] = before[1]
  BY <1>2
<1> QED BY <1>3, <1>4, <1>5

\* A device that has xdma_isr registered will tear it down.
LEMMA IrqHeld ==
  ASSUME NEW p, NEW l \in Lros, NEW poll, NEW h, HeldOk(p, l, h, poll), <<"irq", 0>> \in h
  PROVE  p \in HandlerSteps /\ <<"irq", 0>> \in IrqTeardown(l)
<1>1. PICK r : r = <<"irq", 0>>
  OBVIOUS
<1>2. r[1] = "irq" /\ r \in h
  BY <1>1
<1>3. \/ r \in DestroyInterfaces(l)
      \/ r \in EnginesOf(l, poll)
      \/ p \in HandlerSteps /\ r \in IrqTeardown(l)
      \/ r \in UnmapBars(l)
      \/ r[1] \in {"regions", "msi", "enabled", "lro", "interrupts", "sysfs", "region", "msix"}
  BY <1>2, HeldParts
<1>4. r \notin DestroyInterfaces(l) /\ r \notin EnginesOf(l, poll) /\ r \notin UnmapBars(l)
  BY <1>2, KindsReleased
<1> QED BY <1>1, <1>2, <1>3, <1>4

\* The engines xdma_isr reads are held at every step of probe().
LEMMA EnginesHeld ==
  ASSUME NEW p, NEW l, NEW poll, NEW h, HeldOk(p, l, h, poll), NEW e \in l.engine
  PROVE  <<"engine", e>> \in h
<1>1. <<"engine", e>> \in EnginesOf(l, poll)
  BY Elements
<1> QED BY <1>1, HeldParts

\* After a failed step the engines go, if at all, just before the handler.
LEMMA IsrWhenFailed ==
  ASSUME NEW p, NEW m, NEW before, NEW l \in Lros, NEW l2 \in Lros, NEW poll, NEW h,
         FailsTo(p, m, before, l, poll), HeldOk(p, l, h, poll), SameParts(p, l, l2),
         NEW u, u = before \o SubSeq(LabelsOf(l2, poll), m, Len(LabelsOf(l2, poll))),
         NEW h2, h2 = h \/ (p = "finish" /\ h2 = h \cup {<<"interrupts", 0>>})
  PROVE  IsrOk(l2, h2, u)
<1> SUFFICES ASSUME <<"irq", 0>> \in h2
             PROVE  (\A e \in l2.engine : <<"engine", e>> \in h2) /\ EngineThenIrq(u)
  BY DEF IsrOk
<1>1. <<"irq", 0>> \in h /\ h \subseteq h2
  OBVIOUS
<1>2. p \in HandlerSteps /\ <<"irq", 0>> \in IrqTeardown(l)
  BY <1>1, IrqHeld
<1>3. p \notin {"msi", "irq"}
  BY <1>2 DEF HandlerSteps
<1>4. IrqTeardown(l2) = IrqTeardown(l) /\ l2.engine = l.engine
  BY <1>3, SameReleases DEF SameParts
<1>5. \A e \in l2.engine : <<"engine", e>> \in h2
  BY <1>1, <1>4, EnginesHeld
<1>6. PICK E : E = LabelsOf(l2, poll)
  OBVIOUS
<1>7. /\ E \in Seq(SUBSET Resources) /\ Len(E) = 7
      /\ \A k \in 1 .. 7 : \A r \in E[k] : Rank(r[1]) = IF k = 7 THEN 10 ELSE k + 2
  BY <1>6, LabelsOk
<1>8. <<"irq", 0>> \in E[2]
  BY <1>2, <1>4, <1>6 DEF LabelsOf
<1>9. m \in 1 .. 7 /\ before \in Seq(SUBSET Resources) /\ Len(before) \in {0, 1}
  BY BeforeOk
<1>10. PICK n \in {0, 1} : n = Len(before)
  BY <1>9
<1>11. /\ DOMAIN u = 1 .. n + 8 - m
       /\ \A i \in 1 .. 8 - m : u[n + i] = E[m + i - 1]
       /\ n = 1 => u[1] = before[1]
  BY <1>6, <1>7, <1>9, <1>10, UndoPlaces
<1>12. ASSUME NEW j \in DOMAIN u, NEW r \in u[j], r[1] = "engine"
       PROVE  j + 1 \in DOMAIN u /\ <<"irq", 0>> \in u[j + 1]
  <2>1. Rank(r[1]) = 3
    BY <1>12, RankOf
  <2>2. CASE j \in n + 1 .. n + 8 - m
    <3>1. PICK i \in 1 .. 8 - m : j = n + i
      BY <2>2, <1>9, PlaceLabel
    <3>2. u[j] = E[m + i - 1] /\ m + i - 1 \in 1 .. 7
      <4>1. u[n + i] = E[m + i - 1]
        BY <3>1, <1>11
      <4>2. m + i - 1 \in m .. 7
        BY <1>9, LabelPlace
      <4> QED BY <3>1, <4>1, <4>2, <1>9
    <3>3. m + i - 1 = 1
      <4>1. PICK k \in 1 .. 7 : k = m + i - 1
        BY <3>2
      <4>2. Rank(r[1]) = IF k = 7 THEN 10 ELSE k + 2
        BY <1>7, <1>12, <3>2, <4>1
      <4> QED BY <2>1, <4>1, <4>2
    <3>4. m = 1 /\ i = 1 /\ j = n + 1
      BY <1>9, <3>1, <3>3
    <3>5. 2 \in 1 .. 8 - m /\ m + 2 - 1 = 2 /\ n + 2 = j + 1 /\ j + 1 \in 1 .. n + 8 - m
      BY <3>4
    <3>6. u[n + 2] = E[2]
      BY <1>11, <3>5
    <3> QED BY <1>8, <1>11, <3>5, <3>6
  <2>3. CASE n = 1 /\ j = 1
    <3>1. r \in before[1] /\ before # <<>>
      BY <2>3, <1>10, <1>11, <1>12
    <3>2. p # "interfaces"
      <4>1. ASSUME p = "interfaces" PROVE FALSE
        <5>1. before[1] = DestroyInterfaces(l)
          BY <4>1 DEF FailsTo
        <5>2. r[1] = "char"
          BY <3>1, <5>1, KindsReleased
        <5> QED BY <1>12, <5>2
      <4> QED BY <4>1
    <3>3. m = 2
      BY <3>1, <3>2 DEF FailsTo
    <3>4. 1 \in 1 .. 8 - m /\ m + 1 - 1 = 2 /\ n + 1 = j + 1 /\ j + 1 \in 1 .. n + 8 - m
      BY <2>3, <3>3
    <3>5. u[n + 1] = E[2]
      BY <1>11, <3>4
    <3> QED BY <1>8, <1>11, <3>4, <3>5
  <2>4. j \in n + 1 .. n + 8 - m \/ (n = 1 /\ j = 1)
    BY <1>9, <1>11
  <2> QED BY <2>2, <2>3, <2>4
<1> QED BY <1>5, <1>12 DEF EngineThenIrq

\* remove() tears the handler down right after the engines.
LEMMA IsrWhenRemoved ==
  ASSUME NEW l \in Lros, NEW poll, NEW h, NEW u,
         HeldOk("bound", l, h, poll), u = RemovalOf(l, poll)
  PROVE  IsrOk(l, h, u)
<1> SUFFICES ASSUME <<"irq", 0>> \in h
             PROVE  (\A e \in l.engine : <<"engine", e>> \in h) /\ EngineThenIrq(u)
  BY DEF IsrOk
<1>1. <<"irq", 0>> \in IrqTeardown(l)
  BY IrqHeld
<1>2. \A e \in l.engine : <<"engine", e>> \in h
  BY EnginesHeld
<1>3. u \in Seq(SUBSET Resources) /\ Len(u) = 10 /\ u[3] = EnginesOf(l, poll)
  BY RemovalOk
<1>4. u[4] = IrqTeardown(l)
  BY RemovalOk
<1>5. DOMAIN u = 1 .. 10
  BY <1>3
<1>6. ASSUME NEW j \in DOMAIN u, NEW r \in u[j], r[1] = "engine"
      PROVE  j = 3
  <2>1. \/ j = 1 \/ j = 2 \/ j = 3 \/ j = 4 \/ j = 5 \/ j = 6 \/ j = 7 \/ j = 8 \/ j = 9
        \/ j = 10
    BY <1>5, <1>6
  <2>2. j # 1 /\ j # 6
    <3>1. /\ \A x : x \in u[1] <=> x = <<"interrupts", 0>>
          /\ \A x : x \in u[6] <=> l.got_regions /\ x = <<"regions", 0>>
      BY RemovalOk
    <3> QED BY <1>6, <3>1
  <2>3. j # 7 /\ j # 8
    <3>1. /\ \A x : x \in u[7] <=> \/ l.msix_enabled /\ x = <<"msix", 0>>
                                   \/ l.msi_enabled /\ x = <<"msi", 0>>
          /\ \A x : x \in u[8] <=> ~l.regions_in_use /\ x = <<"enabled", 0>>
      BY RemovalOk
    <3> QED BY <1>6, <3>1
  <2>4. j # 9 /\ j # 10
    <3>1. (\A x : x \in u[9] <=> x = <<"sysfs", 0>>) /\ (\A x : x \in u[10] <=> x = <<"lro", 0>>)
      BY RemovalOk
    <3> QED BY <1>6, <3>1
  <2>5. j # 2 /\ j # 4 /\ j # 5
    <3>1. u[2] = DestroyInterfaces(l) /\ u[5] = UnmapBars(l)
      BY RemovalOk
    <3> QED BY <1>4, <1>6, <3>1, KindsReleased
  <2> QED BY <2>1, <2>2, <2>3, <2>4, <2>5
<1>7. 3 + 1 = 4 /\ 4 \in DOMAIN u
  BY <1>5
<1>8. EngineThenIrq(u)
  <2> SUFFICES ASSUME NEW j \in DOMAIN u, NEW r \in u[j], r[1] = "engine"
               PROVE  j + 1 \in DOMAIN u /\ <<"irq", 0>> \in u[j + 1]
    BY DEF EngineThenIrq
  <2>1. j = 3
    BY <1>6
  <2> QED BY <2>1, <1>1, <1>4, <1>7
<1> QED BY <1>2, <1>8

\* One release keeps it: of the engines, of the handler or of something else.
LEMMA IsrReleased ==
  ASSUME NEW u \in Seq(SUBSET Resources), u # <<>>, NEW h, NEW l, IsrOk(l, h, u)
  PROVE  IsrOk(l, h \ Head(u), Tail(u))
<1> SUFFICES ASSUME <<"irq", 0>> \in h, <<"irq", 0>> \notin Head(u)
             PROVE  IsrOk(l, h \ Head(u), Tail(u))
  BY DEF IsrOk
<1>1. (\A e \in l.engine : <<"engine", e>> \in h) /\ EngineThenIrq(u)
  BY DEF IsrOk
<1>2. PICK n \in Nat : n = Len(u) /\ n > 0
  OBVIOUS
<1>3. DOMAIN u = 1 .. n /\ 1 \in DOMAIN u /\ Head(u) = u[1]
  BY <1>2
<1>4. PICK t \in Seq(SUBSET Resources) :
        t = Tail(u) /\ DOMAIN t = 1 .. n - 1 /\ \A j \in 1 .. n - 1 : t[j] = u[j + 1]
  <2>1. /\ Tail(u) \in Seq(SUBSET Resources) /\ Len(Tail(u)) = n - 1
        /\ \A j \in 1 .. n - 1 : Tail(u)[j] = u[j + 1]
    BY <1>2
  <2>2. DOMAIN Tail(u) = 1 .. n - 1
    BY <2>1
  <2> QED BY <2>1, <2>2, Zenon
<1>5. CASE \E r \in u[1] : r[1] = "engine"
  <2>1. 1 + 1 \in DOMAIN u /\ <<"irq", 0>> \in u[1 + 1]
    BY <1>1, <1>3, <1>5 DEF EngineThenIrq
  <2>2. 1 \in 1 .. n - 1
    BY <1>2, <1>3, <2>1
  <2>3. t # <<>> /\ Head(t) = t[1] /\ t[1] = u[1 + 1]
    BY <1>4, <2>2
  <2> QED BY <1>4, <2>1, <2>3 DEF IsrOk
<1>6. CASE \A r \in u[1] : r[1] # "engine"
  <2>1. \A e \in l.engine : <<"engine", e>> \in h \ Head(u)
    <3>1. \A e : <<"engine", e>>[1] = "engine"
      OBVIOUS
    <3> QED BY <1>1, <1>3, <1>6, <3>1
  <2>2. ASSUME NEW j \in DOMAIN t, NEW r \in t[j], r[1] = "engine"
        PROVE  j + 1 \in DOMAIN t /\ <<"irq", 0>> \in t[j + 1]
    <3>1. j \in 1 .. n - 1 /\ j + 1 \in DOMAIN u /\ r \in u[j + 1]
      BY <1>2, <1>3, <1>4, <2>2
    <3>2. j + 1 + 1 \in DOMAIN u /\ <<"irq", 0>> \in u[j + 1 + 1]
      BY <1>1, <2>2, <3>1 DEF EngineThenIrq
    <3>3. j + 1 \in 1 .. n - 1
      BY <1>2, <1>3, <3>1, <3>2
    <3> QED BY <1>4, <3>2, <3>3
  <2>3. EngineThenIrq(t)
    BY <2>2 DEF EngineThenIrq
  <2> QED BY <1>4, <2>1, <2>3 DEF IsrOk
<1> QED BY <1>5, <1>6

\* A step that takes the resources S.
LEMMA Gains ==
  ASSUME NEW p, NEW p2, NEW l, NEW l2, NEW poll, NEW h, NEW S,
         HeldOk(p, l, h, poll),
         \A r \in S : \/ r \in Owned(p2, l2, poll)
                      \/ r = <<"msix", 0>> /\ l2.msix_enabled
                      \/ r[1] = "region",
         \A r : r \in Owned(p, l, poll) => r \in Owned(p2, l2, poll),
         \A r : r \in Owned(p2, l2, poll) => r \in Owned(p, l, poll) \/ r \in S,
         l.msix_enabled => l2.msix_enabled,
         p2 \in HandlerSteps /\ l2.msix_enabled => <<"msix", 0>> \in h \/ <<"msix", 0>> \in S
  PROVE  HeldOk(p2, l2, h \cup S, poll)
BY DEF HeldOk

\* Before the engines are probed there are none, whatever the interrupts are.
LEMMA NoParts ==
  ASSUME NEW l, NEW poll, l.engine = {}, l.char_dev = <<>>
  PROVE  EnginesOf(l, poll) = {} /\ DestroyInterfaces(l) = {}
BY DEF EnginesOf, DestroyInterfaces

\* alloc_dev_instance: a new lro.
LEMMA StartOk ==
  ASSUME NEW h, NEW poll, NEW c, \A r \in h : r[1] = "region"
  PROVE  /\ FlagsOk("enable", NoLro, c)
         /\ HeldOk("enable", NoLro, h \cup Only("lro"), poll)
         /\ NoLro \in Lros
<1>1. FlagsOk("enable", NoLro, c)
  BY DEF FlagsOk, NoLro, HandlerSteps, EngineSteps
<1>2. EnginesOf(NoLro, poll) = {} /\ DestroyInterfaces(NoLro) = {}
  BY NoParts DEF NoLro
<1>3. \A r : r \notin UnmapBars(NoLro)
  BY DEF NoLro, UnmapBars, When
<1>4. /\ ~NoLro.got_regions /\ ~NoLro.msi_enabled /\ ~NoLro.msix_enabled
      /\ "enable" \notin HandlerSteps
  BY DEF NoLro, HandlerSteps
<1>5. \A r : r \in Owned("enable", NoLro, poll) <=> r = <<"lro", 0>>
  BY <1>2, <1>3, <1>4, OwnedBy
<1>6. \A r : r \in Only("lro") <=> r = <<"lro", 0>>
  BY DEF Only
<1>7. HeldOk("enable", NoLro, h \cup Only("lro"), poll)
  BY <1>4, <1>5, <1>6 DEF HeldOk
<1>8. NoLro \in Lros
  <2>1. <<>> \in Seq(0 .. 100)
    OBVIOUS
  <2> QED BY <2>1 DEF NoLro, Lros
<1> QED BY <1>1, <1>7, <1>8

\* pci_enable_device.
LEMMA EnabledOk ==
  ASSUME NEW l, NEW poll, NEW h, NEW c, FlagsOk("enable", l, c), HeldOk("enable", l, h, poll)
  PROVE  FlagsOk("msi", l, c) /\ HeldOk("msi", l, h \cup Only("enabled"), poll)
<1>1. FlagsOk("msi", l, c)
  BY DEF FlagsOk, HandlerSteps, EngineSteps
<1>2. PICK S : S = {<<"enabled", 0>>}
  OBVIOUS
<1>3. /\ "enable" \notin HandlerSteps /\ "msi" \notin HandlerSteps /\ "msi" # "bound"
      /\ "enable" # "bound" /\ "msi" # "enable"
  BY DEF HandlerSteps
<1>4. /\ \A r : r \in Owned("enable", l, poll) => r \in Owned("msi", l, poll)
      /\ \A r : r \in Owned("msi", l, poll) => r \in Owned("enable", l, poll) \/ r \in S
  BY <1>2, <1>3, OwnedBy
<1>5. \A r \in S : r \in Owned("msi", l, poll)
  BY <1>2, <1>3, OwnedBy
<1>6. HeldOk("msi", l, h \cup S, poll)
  BY <1>3, <1>4, <1>5, Gains
<1> QED BY <1>1, <1>2, <1>6 DEF Only

\* probe_scan_for_msi, with MSI-X or MSI or neither.
LEMMA ScannedOk ==
  ASSUME NEW l, NEW l2, NEW poll, NEW h, NEW c, NEW S,
         FlagsOk("msi", l, c), HeldOk("msi", l, h, poll), SameParts("msi", l, l2),
         \/ S = {} /\ ~l2.msi_enabled
         \/ S = Only("msix") /\ l2.msix_enabled /\ ~l2.msi_enabled
         \/ S = Only("msi") /\ l2.msi_enabled
  PROVE  FlagsOk("regions", l2, c) /\ HeldOk("regions", l2, h \cup S, poll)
<1>1. FlagsOk("regions", l2, c)
  BY DEF FlagsOk, SameParts, HandlerSteps, EngineSteps
<1>2. /\ "regions" \notin HandlerSteps /\ "msi" \notin HandlerSteps
      /\ l.engine = {} /\ l.char_dev = <<>> /\ l2.engine = {} /\ l2.char_dev = <<>>
      /\ l2.bar = l.bar /\ l2.got_regions = l.got_regions
      /\ ~l.msix_enabled /\ ~l.msi_enabled
  BY DEF FlagsOk, SameParts, HandlerSteps, EngineSteps
<1>3. /\ EnginesOf(l, poll) = {} /\ DestroyInterfaces(l) = {}
      /\ EnginesOf(l2, poll) = {} /\ DestroyInterfaces(l2) = {}
      /\ UnmapBars(l2) = UnmapBars(l)
  BY <1>2, NoParts DEF UnmapBars
<1>4. \A k, r : r \in Only(k) <=> r = <<k, 0>>
  BY DEF Only
<1>5. /\ l2.msi_enabled <=> <<"msi", 0>> \in S
      /\ \A r \in S : r = <<"msi", 0>> \/ (r = <<"msix", 0>> /\ l2.msix_enabled)
  <2>1. CASE S = {} /\ ~l2.msi_enabled
    BY <2>1
  <2>2. CASE S = Only("msix") /\ l2.msix_enabled /\ ~l2.msi_enabled
    BY <2>2, <1>4
  <2>3. CASE S = Only("msi") /\ l2.msi_enabled
    BY <2>3, <1>4
  <2> QED BY <2>1, <2>2, <2>3
<1>6. /\ \A r : r \in Owned("msi", l, poll) => r \in Owned("regions", l2, poll)
      /\ \A r : r \in Owned("regions", l2, poll) => r \in Owned("msi", l, poll) \/ r \in S
  BY <1>2, <1>3, <1>5, OwnedBy
<1>7. \A r \in S : \/ r \in Owned("regions", l2, poll)
                   \/ r = <<"msix", 0>> /\ l2.msix_enabled
  BY <1>5, OwnedBy
<1>8. HeldOk("regions", l2, h \cup S, poll)
  BY <1>2, <1>6, <1>7, Gains
<1> QED BY <1>1, <1>8

\* pci_request_regions and map_bars: one flag, one resource.
LEMMA MappedOk ==
  ASSUME NEW l, NEW l2, NEW poll, NEW h, NEW c, NEW p, NEW p2, NEW kind,
         FlagsOk(p, l, c), HeldOk(p, l, h, poll),
         l2.engine = l.engine, l2.char_dev = l.char_dev, l2.irq_line = l.irq_line,
         l2.msix_enabled = l.msix_enabled, l2.msi_enabled = l.msi_enabled,
         l2.regions_in_use = l.regions_in_use,
         \/ /\ p = "regions" /\ p2 = "bars" /\ kind = "regions"
            /\ l2.got_regions /\ l2.bar = l.bar
         \/ /\ p = "bars" /\ p2 = "mask" /\ kind = "bar"
            /\ l2.bar /\ l2.got_regions = l.got_regions
  PROVE  FlagsOk(p2, l2, c) /\ HeldOk(p2, l2, h \cup Only(kind), poll)
<1>1. FlagsOk(p2, l2, c)
  BY DEF FlagsOk, HandlerSteps, EngineSteps
<1>2. PICK S : S = {<<kind, 0>>}
  OBVIOUS
<1>3. /\ p \notin HandlerSteps /\ p2 \notin HandlerSteps
      /\ l.engine = {} /\ l.char_dev = <<>> /\ l2.engine = {} /\ l2.char_dev = <<>>
      /\ p # "enable" /\ p2 # "enable" /\ p # "bound" /\ p2 # "bound"
  BY DEF FlagsOk, HandlerSteps, EngineSteps
<1>4. /\ EnginesOf(l, poll) = {} /\ DestroyInterfaces(l) = {}
      /\ EnginesOf(l2, poll) = {} /\ DestroyInterfaces(l2) = {}
  BY <1>3, NoParts
<1>5. \A r : /\ r \in UnmapBars(l) <=> l.bar /\ r = <<"bar", 0>>
             /\ r \in UnmapBars(l2) <=> l2.bar /\ r = <<"bar", 0>>
  BY Elements
<1>6. \/ kind = "regions" /\ l2.got_regions /\ l2.bar = l.bar
      \/ kind = "bar" /\ l2.bar /\ l2.got_regions = l.got_regions
  OBVIOUS
<1>7. /\ \A r : r \in Owned(p, l, poll) => r \in Owned(p2, l2, poll)
      /\ \A r : r \in Owned(p2, l2, poll) => r \in Owned(p, l, poll) \/ r \in S
  BY <1>2, <1>3, <1>4, <1>5, <1>6, OwnedBy
<1>8. \A r \in S : r \in Owned(p2, l2, poll)
  BY <1>2, <1>5, <1>6, OwnedBy
<1>9. HeldOk(p2, l2, h \cup S, poll)
  BY <1>3, <1>7, <1>8, Gains
<1> QED BY <1>1, <1>2, <1>9 DEF Only

\* set_dma_mask takes nothing.
LEMMA MaskedOk ==
  ASSUME NEW l, NEW poll, NEW h, NEW c, FlagsOk("mask", l, c), HeldOk("mask", l, h, poll)
  PROVE  FlagsOk("irq", l, c) /\ HeldOk("irq", l, h, poll)
<1>1. FlagsOk("irq", l, c)
  BY DEF FlagsOk, HandlerSteps, EngineSteps
<1>2. "mask" \notin HandlerSteps /\ "irq" \notin HandlerSteps
  BY DEF HandlerSteps
<1>3. \A r : r \in Owned("mask", l, poll) <=> r \in Owned("irq", l, poll)
  BY <1>2, OwnedBy
<1> QED BY <1>1, <1>2, <1>3 DEF HeldOk

\* irq_setup registers all handlers.
LEMMA IrqOk ==
  ASSUME NEW l, NEW l2, NEW poll, NEW h, NEW c,
         FlagsOk("irq", l, c), HeldOk("irq", l, h, poll), SameParts("irq", l, l2),
         l2.irq_line <=> ~l2.msix_enabled,
         l2.msix_enabled => <<"msix", 0>> \in h
  PROVE  FlagsOk("h2c", l2, c) /\ HeldOk("h2c", l2, h \cup IrqTeardown(l2), poll)
<1>1. FlagsOk("h2c", l2, c)
  BY DEF FlagsOk, SameParts, HandlerSteps, EngineSteps
<1>2. /\ "h2c" \in HandlerSteps /\ "irq" \notin HandlerSteps
      /\ l.engine = {} /\ l.char_dev = <<>> /\ l2.engine = {} /\ l2.char_dev = <<>>
      /\ l2.bar = l.bar /\ l2.got_regions = l.got_regions
      /\ l2.msi_enabled = l.msi_enabled /\ l2.msix_enabled = l.msix_enabled
  BY DEF FlagsOk, SameParts, HandlerSteps, EngineSteps
<1>3. /\ EnginesOf(l, poll) = {} /\ DestroyInterfaces(l) = {}
      /\ EnginesOf(l2, poll) = {} /\ DestroyInterfaces(l2) = {}
      /\ UnmapBars(l2) = UnmapBars(l)
  BY <1>2, NoParts DEF UnmapBars
<1>4. PICK S : S = IrqTeardown(l2)
  OBVIOUS
<1>5. /\ \A r : r \in Owned("irq", l, poll) => r \in Owned("h2c", l2, poll)
      /\ \A r : r \in Owned("h2c", l2, poll) => r \in Owned("irq", l, poll) \/ r \in S
  BY <1>2, <1>3, <1>4, OwnedBy
<1>6. \A r \in S : r \in Owned("h2c", l2, poll)
  BY <1>2, <1>4, OwnedBy
<1>7. HeldOk("h2c", l2, h \cup S, poll)
  BY <1>2, <1>5, <1>6, Gains
<1> QED BY <1>1, <1>4, <1>7

(* What engine_create takes for engine e.                                  *)
EngineParts(l, e, poll) ==
  {<<"engine", e>>} \cup EngineHandler(l, e) \cup When(poll, {<<"writeback", e>>})

FoundUpTo(C, i) == {e \in C : \E k \in 1 .. i : AllEngines[k] = e}

\* The loop over the engines finds exactly those of the card.
LEMMA EnginesFound ==
  ASSUME NEW i \in 1 .. 2 * Channels, NEW C \in SUBSET Engines
  PROVE  /\ FoundUpTo(C, i) = FoundUpTo(C, i - 1) \cup ({AllEngines[i]} \cap C)
         /\ i = 2 * Channels => FoundUpTo(C, i) = C
         /\ FoundUpTo(C, i) \subseteq Engines
<1>0. Channels \in Nat
  BY SizesAssumption
<1>1. \A k \in 1 .. i : k \in 1 .. i - 1 \/ k = i
  BY <1>0
<1>2. 1 .. i - 1 \subseteq 1 .. i /\ i \in 1 .. i
  BY <1>0
<1>3. FoundUpTo(C, i) = FoundUpTo(C, i - 1) \cup ({AllEngines[i]} \cap C)
  BY <1>1, <1>2 DEF FoundUpTo
<1>4. \A e \in C : \E k \in 1 .. 2 * Channels : AllEngines[k] = e
  BY DEF Engines
<1> QED BY <1>3, <1>4 DEF FoundUpTo

\* One more engine.
LEMMA EnginesGrow ==
  ASSUME NEW l, NEW l2, NEW e, NEW poll, l2.engine = l.engine \cup {e},
         l2.msix_enabled = l.msix_enabled
  PROVE  \A r : r \in EnginesOf(l2, poll) <=>
           r \in EnginesOf(l, poll) \/ r \in EngineParts(l2, e, poll)
BY Zenon DEF EnginesOf, EngineParts, EngineHandler

\* Where probe_engines goes after position i.
AfterEngine(p2, i2, i) ==
  /\ p2 = IF i = 2 * Channels THEN "interfaces" ELSE IF i < Channels THEN "h2c" ELSE "c2h"
  /\ i2 = IF i = 2 * Channels THEN 1 ELSE i + 1

\* What it takes for engine e.
EngineGain(l, l2, e, S, c, poll) ==
  \/ l2 = l /\ S = {} /\ e \notin c.engines
  \/ /\ l2 = [l EXCEPT !.engine = @ \cup {e}] /\ S = EngineParts(l2, e, poll)
     /\ e \in c.engines

\* probe_for_engine on engine number i, found or not.
LEMMA EngineOk ==
  ASSUME NEW l \in Lros, NEW l2, NEW poll, NEW h, NEW c, NEW p, NEW p2, NEW i, NEW i2,
         NEW e, NEW S, c.engines \in SUBSET Engines,
         FlagsOk(p, l, c), HeldOk(p, l, h, poll), LoopOk(p, i, l, c),
         p \in {"h2c", "c2h"}, e = AllEngines[i], AfterEngine(p2, i2, i),
         EngineGain(l, l2, e, S, c, poll)
  PROVE  /\ FlagsOk(p2, l2, c) /\ HeldOk(p2, l2, h \cup S, poll)
         /\ LoopOk(p2, i2, l2, c)
<1>0. Channels \in 1 .. 4
  BY SizesAssumption
<1>1. /\ i \in 1 .. 2 * Channels
      /\ l.engine = {x \in c.engines : \E k \in 1 .. i - 1 : AllEngines[k] = x}
      /\ l.engine \in SUBSET Engines
  BY DEF LoopOk, Lros
<1>2. /\ l2.msix_enabled = l.msix_enabled /\ l2.msi_enabled = l.msi_enabled
      /\ l2.got_regions = l.got_regions /\ l2.regions_in_use = l.regions_in_use
      /\ l2.irq_line = l.irq_line /\ l2.bar = l.bar /\ l2.char_dev = l.char_dev
      /\ l2.major = l.major /\ l2.instance = l.instance
      /\ l2.engine = l.engine \cup ({e} \cap c.engines)
  <2>1. CASE l2 = l /\ e \notin c.engines
    BY <2>1
  <2>2. CASE l2 = [l EXCEPT !.engine = @ \cup {e}] /\ e \in c.engines
    BY <2>2 DEF Lros
  <2> QED BY <2>1, <2>2 DEF EngineGain
<1>3. /\ l2.engine = {x \in c.engines : \E k \in 1 .. i : AllEngines[k] = x}
      /\ i = 2 * Channels => l2.engine = c.engines
      /\ l2.engine \subseteq Engines
  <2>1. PICK C \in SUBSET Engines : C = c.engines
    OBVIOUS
  <2>2. l2.engine = FoundUpTo(C, i - 1) \cup ({AllEngines[i]} \cap C)
    BY <2>1, <1>1, <1>2 DEF FoundUpTo
  <2>3. /\ FoundUpTo(C, i) = FoundUpTo(C, i - 1) \cup ({AllEngines[i]} \cap C)
        /\ i = 2 * Channels => FoundUpTo(C, i) = C
        /\ FoundUpTo(C, i) \subseteq Engines
    BY <1>1, EnginesFound
  <2>4. FoundUpTo(C, i) = {x \in c.engines : \E k \in 1 .. i : AllEngines[k] = x}
    BY <2>1 DEF FoundUpTo
  <2> QED BY <2>1, <2>2, <2>3, <2>4
<1>4. /\ p2 \in HandlerSteps /\ p \in HandlerSteps /\ p \notin EngineSteps
      /\ p2 \in EngineSteps <=> i = 2 * Channels
      /\ p2 \notin {"enable", "msi", "regions", "bars", "bound", "finish", "remove"}
      /\ p \notin {"enable", "msi", "regions", "bars", "bound"}
  BY DEF HandlerSteps, EngineSteps, AfterEngine
<1>5. l.char_dev = <<>> /\ l2.char_dev = <<>>
  BY <1>2, <1>4 DEF FlagsOk
<1>6. FlagsOk(p2, l2, c)
  BY <1>2, <1>3, <1>4, <1>5 DEF FlagsOk
<1>7. /\ IrqTeardown(l2) = IrqTeardown(l) /\ UnmapBars(l2) = UnmapBars(l)
      /\ DestroyInterfaces(l2) = DestroyInterfaces(l)
  BY <1>2 DEF IrqTeardown, UnmapBars, DestroyInterfaces
<1>8. \A r : r \in EnginesOf(l2, poll) <=> r \in EnginesOf(l, poll) \/ r \in S
  <2>1. CASE l2 = l /\ S = {}
    BY <2>1
  <2>2. CASE S = EngineParts(l2, e, poll) /\ e \in c.engines
    <3>1. l2.engine = l.engine \cup {e}
      BY <1>2, <2>2
    <3> QED BY <3>1, <2>2, <1>2, EnginesGrow
  <2> QED BY <2>1, <2>2 DEF EngineGain
<1>9. /\ \A r : r \in Owned(p, l, poll) => r \in Owned(p2, l2, poll)
      /\ \A r : r \in Owned(p2, l2, poll) => r \in Owned(p, l, poll) \/ r \in S
  BY <1>2, <1>4, <1>7, <1>8, OwnedBy
<1>10. \A r \in S : r \in Owned(p2, l2, poll)
  BY <1>8, OwnedBy
<1>11. /\ l.msix_enabled => l2.msix_enabled
       /\ p2 \in HandlerSteps /\ l2.msix_enabled => <<"msix", 0>> \in h
  BY <1>2, <1>4 DEF HeldOk
<1>12. HeldOk(p2, l2, h \cup S, poll)
  BY <1>9, <1>10, <1>11 DEF HeldOk
<1>13. LoopOk(p2, i2, l2, c)
  <2>1. CASE i = 2 * Channels
    <3>1. 1 \in 1 .. Len(Interfaces) /\ ~(1 > 2)
      BY InterfacesLen
    <3>2. p2 = "interfaces" /\ i2 = 1 /\ DOMAIN l2.char_dev = {}
      BY <2>1, <1>5 DEF AfterEngine
    <3> QED BY <2>1, <3>1, <3>2 DEF LoopOk
  <2>2. CASE i # 2 * Channels
    <3>1. i + 1 \in 1 .. 2 * Channels /\ (i + 1) - 1 = i /\ (i < Channels <=> i + 1 <= Channels)
      BY <2>2, <1>0, <1>1
    <3>2. i2 = i + 1 /\ p2 = IF i < Channels THEN "h2c" ELSE "c2h"
      BY <2>2 DEF AfterEngine
    <3> QED BY <2>2, <3>1, <3>2, <1>3 DEF LoopOk
  <2> QED BY <2>1, <2>2
<1> QED BY <1>6, <1>12, <1>13

(* Two lros that differ in the instance and the major number at most.      *)
SameButNumbers(l, l2) ==
  /\ l2.msix_enabled = l.msix_enabled /\ l2.msi_enabled = l.msi_enabled
  /\ l2.got_regions = l.got_regions /\ l2.regions_in_use = l.regions_in_use
  /\ l2.irq_line = l.irq_line /\ l2.bar = l.bar
  /\ l2.engine = l.engine

\* Where create_interfaces goes after position i.
AfterInterface(p2, i) == p2 = IF i = Len(Interfaces) THEN "finish" ELSE "interfaces"

\* create_interfaces with the character devices as they were: only the major
\* number may come or go.
LEMMA NumbersOk ==
  ASSUME NEW l, NEW l2, NEW poll, NEW h, NEW h2, NEW c, NEW p2,
         p2 \in {"interfaces", "finish"},
         FlagsOk("interfaces", l, c), HeldOk("interfaces", l, h, poll),
         SameButNumbers(l, l2), l2.char_dev = l.char_dev,
         \A r : r[1] # "region" => (r \in h <=> r \in h2)
  PROVE  FlagsOk(p2, l2, c) /\ HeldOk(p2, l2, h2, poll)
<1>1. FlagsOk(p2, l2, c)
  BY DEF FlagsOk, SameButNumbers, HandlerSteps, EngineSteps
<1>2. /\ IrqTeardown(l2) = IrqTeardown(l) /\ UnmapBars(l2) = UnmapBars(l)
      /\ DestroyInterfaces(l2) = DestroyInterfaces(l) /\ EnginesOf(l2, poll) = EnginesOf(l, poll)
      /\ l2.got_regions = l.got_regions /\ l2.msi_enabled = l.msi_enabled
      /\ l2.msix_enabled = l.msix_enabled
  BY Zenon DEF SameButNumbers, IrqTeardown, UnmapBars, DestroyInterfaces, EnginesOf, EngineHandler
<1>3. /\ p2 \in HandlerSteps /\ "interfaces" \in HandlerSteps
      /\ p2 \notin {"enable", "bound"}
  BY DEF HandlerSteps
<1>4. \A r : r \in Owned(p2, l2, poll) <=> r \in Owned("interfaces", l, poll)
  BY <1>2, <1>3, OwnedBy
<1>5. \A r : r \in Owned(p2, l2, poll) => r[1] # "region"
  <2> SUFFICES ASSUME NEW r, r \in Owned(p2, l2, poll) PROVE r[1] # "region"
    OBVIOUS
  <2>1. ASSUME r \in EnginesOf(l2, poll) PROVE r[1] # "region"
    <3>1. PICK e : r \in {<<"engine", e>>, <<"engine_irq", e>>, <<"writeback", e>>}
      BY <2>1, Elements
    <3> QED BY <3>1
  <2>2. ASSUME r \in IrqTeardown(l2) PROVE r[1] # "region"
    <3>1. PICK i : r \in {<<"user_irq", i>>, <<"irq", 0>>}
      BY <2>2, Elements
    <3> QED BY <3>1
  <2>3. ASSUME r \in DestroyInterfaces(l2) PROVE r[1] # "region"
    <3>1. PICK i : r = <<"char", i>>
      BY <2>3, Zenon DEF DestroyInterfaces
    <3> QED BY <3>1
  <2>4. r \in UnmapBars(l2) => r[1] # "region"
    BY DEF UnmapBars, When, Only
  <2>5. \/ r \in DestroyInterfaces(l2) \/ r \in EnginesOf(l2, poll) \/ r \in IrqTeardown(l2)
        \/ r \in UnmapBars(l2)
        \/ r \in {<<"regions", 0>>, <<"msi", 0>>, <<"enabled", 0>>, <<"lro", 0>>,
                  <<"interrupts", 0>>, <<"sysfs", 0>>}
    BY OwnedBy
  <2> QED BY <2>1, <2>2, <2>3, <2>4, <2>5
<1>6. <<"msix", 0>>[1] # "region"
  OBVIOUS
<1>7. HeldOk(p2, l2, h2, poll)
  BY <1>2, <1>3, <1>4, <1>5, <1>6 DEF HeldOk
<1> QED BY <1>1, <1>7

\* The loop goes on: no new device.  Neither the user nor the control device
\* is passed over when the loop has come to the third.
LEMMA PassOver ==
  ASSUME NEW l, NEW l2, NEW c, NEW p2, NEW i, LoopOk("interfaces", i, l, c),
         l2.char_dev = l.char_dev, l.char_dev \in Seq(0 .. 100),
         Interfaces[i][1] # "ctrl", AfterInterface(p2, i)
  PROVE  LoopOk(p2, i + 1, l2, c)
<1>1. /\ i \in 1 .. Len(Interfaces)
      /\ \A k \in DOMAIN l.char_dev : l.char_dev[k] < MinorOf(Interfaces[i])
      /\ i > 2 => l.char_dev # <<>>
  BY DEF LoopOk
<1>2. Len(Interfaces) \in Nat /\ Len(Interfaces) > 2
  BY InterfacesLen
<1>3. i # 2
  BY InterfaceAt
<1>4. CASE i = Len(Interfaces)
  <2>1. p2 = "finish" /\ l2.char_dev # <<>>
    BY <1>1, <1>2, <1>4 DEF AfterInterface
  <2> QED BY <2>1 DEF LoopOk
<1>5. CASE i # Len(Interfaces)
  <2>1. p2 = "interfaces"
    BY <1>5 DEF AfterInterface
  <2>2. i + 1 \in 1 .. Len(Interfaces) /\ (i + 1 > 2 => i > 2)
    BY <1>1, <1>2, <1>3, <1>5
  <2>3. PICK f \in 0 .. 100, g \in 0 .. 100 :
          f = MinorOf(Interfaces[i]) /\ g = MinorOf(Interfaces[i + 1]) /\ f < g
    BY <1>1, <1>5, <2>2, MinorsAscend
  <2>4. PICK s \in Seq(0 .. 100) : s = l.char_dev
    OBVIOUS
  <2>5. \A k \in DOMAIN s : s[k] \in 0 .. 100 /\ s[k] < f
    BY <1>1, <2>3, <2>4, SeqElements
  <2>6. ASSUME NEW k \in DOMAIN s PROVE s[k] < g
    <3>1. PICK x \in 0 .. 100 : x = s[k] /\ x < f
      BY <2>5
    <3> QED BY <3>1, <2>3
  <2>7. \A k \in DOMAIN l2.char_dev : l2.char_dev[k] < MinorOf(Interfaces[i + 1])
    BY <2>3, <2>4, <2>6
  <2>8. i + 1 > 2 => l2.char_dev # <<>>
    BY <1>1, <2>2
  <2> QED BY <2>1, <2>2, <2>7, <2>8 DEF LoopOk
<1> QED BY <1>4, <1>5

\* The elements of a sequence with one more.
LEMMA AppendParts ==
  ASSUME NEW T, NEW s \in Seq(T), NEW m \in T
  PROVE  /\ Append(s, m) \in Seq(T)
         /\ Len(Append(s, m)) = Len(s) + 1
         /\ \A k \in 1 .. Len(s) : Append(s, m)[k] = s[k]
         /\ Append(s, m)[Len(s) + 1] = m
OBVIOUS

\* The minor of a new device is above those there are.
LEMMA AppendAscends ==
  ASSUME NEW s \in Seq(0 .. 100), NEW m \in 0 .. 100,
         \A i, k \in DOMAIN s : i < k => s[i] < s[k],
         \A k \in DOMAIN s : s[k] < m
  PROVE  /\ Append(s, m) \in Seq(0 .. 100) /\ Append(s, m) # <<>>
         /\ DOMAIN Append(s, m) = 1 .. Len(s) + 1
         /\ \A k \in 1 .. Len(s) : Append(s, m)[k] = s[k]
         /\ Append(s, m)[Len(s) + 1] = m
         /\ \A i, k \in DOMAIN Append(s, m) : i < k => Append(s, m)[i] < Append(s, m)[k]
<1>1. PICK n \in Nat : n = Len(s) /\ DOMAIN s = 1 .. n
  OBVIOUS
<1>2. PICK t \in Seq(0 .. 100) : t = Append(s, m)
  BY AppendParts
<1>3. /\ Len(t) = n + 1 /\ DOMAIN t = 1 .. n + 1
      /\ \A k \in 1 .. n : t[k] = s[k]
      /\ t[n + 1] = m
  <2>1. /\ Len(t) = n + 1
        /\ \A k \in 1 .. n : t[k] = s[k]
        /\ t[n + 1] = m
    BY <1>1, <1>2, AppendParts
  <2>2. DOMAIN t = 1 .. Len(t)
    BY SeqElements
  <2> QED BY <2>1, <2>2
<1>4. t # <<>>
  BY <1>1, <1>3
<1>5. ASSUME NEW i \in 1 .. n + 1, NEW k \in 1 .. n + 1, i < k PROVE t[i] < t[k]
  <2>1. i \in 1 .. n
    BY <1>1, <1>5
  <2>2. k \in 1 .. n \/ k = n + 1
    BY <1>1
  <2> QED BY <2>1, <2>2, <1>1, <1>3, <1>5
<1> QED BY <1>1, <1>2, <1>3, <1>4, <1>5

\* create_sg_char succeeds on position i, with what holds before it.
CharMade(l, l2, poll, h, c, p2, i, m, R) ==
  /\ l \in Lros /\ FlagsOk("interfaces", l, c) /\ HeldOk("interfaces", l, h, poll)
  /\ LoopOk("interfaces", i, l, c) /\ CharsOk(l) /\ Wanted(l, Interfaces[i])
  /\ m = MinorOf(Interfaces[i]) /\ AfterInterface(p2, i)
  /\ SameButNumbers(l, l2) /\ l2.char_dev = Append(l.char_dev, m)
  /\ \A r \in R : r[1] = "region"

\* What holds after it.
CharKept(l, l2, poll, h, c, p2, i, m, R) ==
  /\ FlagsOk(p2, l2, c)
  /\ HeldOk(p2, l2, h \cup (R \cup {<<"char", m>>}), poll)
  /\ LoopOk(p2, i + 1, l2, c) /\ CharsOk(l2)
  /\ l2.char_dev \in Seq(0 .. 100) /\ l2.char_dev # <<>>
  /\ m \in 0 .. 100

\* create_sg_char succeeded on position i.
LEMMA CharOk ==
  ASSUME NEW l, NEW l2, NEW poll, NEW h, NEW c, NEW p2, NEW i, NEW m, NEW R,
         CharMade(l, l2, poll, h, c, p2, i, m, R)
  PROVE  CharKept(l, l2, poll, h, c, p2, i, m, R)
<1> SUFFICES
      ASSUME l \in Lros, FlagsOk("interfaces", l, c), HeldOk("interfaces", l, h, poll),
             LoopOk("interfaces", i, l, c), CharsOk(l), Wanted(l, Interfaces[i]),
             m = MinorOf(Interfaces[i]), AfterInterface(p2, i),
             SameButNumbers(l, l2), l2.char_dev = Append(l.char_dev, m),
             \A r \in R : r[1] = "region"
      PROVE  /\ FlagsOk(p2, l2, c)
             /\ HeldOk(p2, l2, h \cup (R \cup {<<"char", m>>}), poll)
             /\ LoopOk(p2, i + 1, l2, c) /\ CharsOk(l2)
             /\ l2.char_dev \in Seq(0 .. 100) /\ l2.char_dev # <<>>
             /\ m \in 0 .. 100
  BY DEF CharMade, CharKept
<1>1. /\ i \in 1 .. Len(Interfaces)
      /\ \A k \in DOMAIN l.char_dev : l.char_dev[k] < m
  BY DEF LoopOk
<1>2. PICK s \in Seq(0 .. 100), n \in Nat : s = l.char_dev /\ n = Len(s) /\ DOMAIN s = 1 .. n
  BY DEF Lros
<1>3. m \in 0 .. 100
  BY <1>1, MinorsAscend
<1>4. PICK t \in Seq(0 .. 100) : t = Append(s, m)
  BY <1>2, <1>3, AppendParts
<1>5. /\ l2.char_dev = t /\ t # <<>>
      /\ DOMAIN t = 1 .. n + 1
      /\ \A k \in 1 .. n : t[k] = s[k]
      /\ t[n + 1] = m
      /\ \A j, k \in DOMAIN t : j < k => t[j] < t[k]
  <2>1. \A j, k \in DOMAIN s : j < k => s[j] < s[k]
    BY <1>2 DEF CharsOk
  <2>2. \A k \in DOMAIN s : s[k] < m
    BY <1>1, <1>2
  <2>3. /\ Append(s, m) # <<>>
        /\ DOMAIN Append(s, m) = 1 .. n + 1
        /\ \A k \in 1 .. n : Append(s, m)[k] = s[k]
        /\ Append(s, m)[n + 1] = m
        /\ \A j, k \in DOMAIN Append(s, m) : j < k => Append(s, m)[j] < Append(s, m)[k]
    BY <1>2, <1>3, <2>1, <2>2, AppendAscends
  <2> QED BY <1>2, <1>4, <2>3
<1>6. \A k \in 1 .. n + 1 : k \in 1 .. n \/ k = n + 1
  BY <1>2
<1>7. p2 \in {"interfaces", "finish"} /\ l2.engine = l.engine
  BY DEF AfterInterface, SameButNumbers
<1>8. FlagsOk(p2, l2, c)
  BY <1>7 DEF FlagsOk, SameButNumbers, HandlerSteps, EngineSteps
<1>9. CharsOk(l2)
  <2>1. \A k \in 1 .. n + 1 : \A e \in Engines : t[k] \in {32 + e, 64 + e} => e \in l2.engine
    <3> SUFFICES ASSUME NEW k \in 1 .. n + 1, NEW e \in Engines, t[k] \in {32 + e, 64 + e}
                 PROVE  e \in l2.engine
      OBVIOUS
    <3>1. CASE k \in 1 .. n
      BY <3>1, <1>2, <1>5, <1>7 DEF CharsOk
    <3>2. CASE k = n + 1
      <4>1. MinorOf(Interfaces[i]) \in {32 + e, 64 + e}
        BY <3>2, <1>5
      <4> QED BY <4>1, <1>1, <1>7, MinorOfEngine
    <3> QED BY <3>1, <3>2, <1>6
  <2> QED BY <2>1, <1>5 DEF CharsOk
<1>10. LoopOk(p2, i + 1, l2, c)
  <2>1. CASE i = Len(Interfaces)
    <3>1. p2 = "finish" /\ l2.char_dev # <<>>
      BY <2>1, <1>5 DEF AfterInterface
    <3> QED BY <3>1 DEF LoopOk
  <2>2. CASE i # Len(Interfaces)
    <3>1. p2 = "interfaces"
      BY <2>2 DEF AfterInterface
    <3>2. i + 1 \in 1 .. Len(Interfaces)
      BY <1>1, <2>2, MinorsAscend
    <3>3. PICK g \in 0 .. 100 : g = MinorOf(Interfaces[i + 1]) /\ m < g
      BY <1>1, <2>2, <3>2, MinorsAscend
    <3>4. \A k \in 1 .. n : s[k] \in 0 .. 100 /\ s[k] < m
      BY <1>1, <1>2, SeqElements
    <3>5. ASSUME NEW k \in 1 .. n + 1 PROVE t[k] < g
      <4>1. CASE k \in 1 .. n
        <5>1. PICK x \in 0 .. 100 : x = s[k] /\ x < m
          BY <4>1, <3>4
        <5>2. x < g
          BY <5>1, <3>3, <1>3
        <5> QED BY <5>1, <5>2, <4>1, <1>5
      <4>2. CASE k = n + 1
        BY <4>2, <3>3, <1>5
      <4> QED BY <4>1, <4>2, <1>6
    <3>6. \A k \in DOMAIN l2.char_dev : l2.char_dev[k] < MinorOf(Interfaces[i + 1])
      BY <3>3, <3>5, <1>5
    <3>7. l2.char_dev # <<>>
      BY <1>5
    <3> QED BY <3>1, <3>2, <3>6, <3>7 DEF LoopOk
  <2> QED BY <2>1, <2>2
<1>11. /\ IrqTeardown(l2) = IrqTeardown(l) /\ UnmapBars(l2) = UnmapBars(l)
       /\ EnginesOf(l2, poll) = EnginesOf(l, poll)
       /\ l2.got_regions = l.got_regions /\ l2.msi_enabled = l.msi_enabled
       /\ l2.msix_enabled = l.msix_enabled
  BY Zenon DEF SameButNumbers, IrqTeardown, UnmapBars, EnginesOf, EngineHandler
<1>12. \A r : r \in DestroyInterfaces(l2) <=> r \in DestroyInterfaces(l) \/ r = <<"char", m>>
  <2>1. \A r : /\ r \in DestroyInterfaces(l) <=> \E k \in 1 .. n : r = <<"char", s[k]>>
               /\ r \in DestroyInterfaces(l2) <=> \E k \in 1 .. n + 1 : r = <<"char", t[k]>>
    <3>1. DestroyInterfaces(l) = {<<"char", s[k]>> : k \in 1 .. n}
      BY <1>2 DEF DestroyInterfaces
    <3>2. DestroyInterfaces(l2) = {<<"char", t[k]>> : k \in 1 .. n + 1}
      BY <1>5 DEF DestroyInterfaces
    <3> QED BY <3>1, <3>2, Zenon
  <2>2. 1 .. n \subseteq 1 .. n + 1 /\ n + 1 \in 1 .. n + 1
    BY <1>2
  <2>3. ASSUME NEW r, r \in DestroyInterfaces(l2)
        PROVE  r \in DestroyInterfaces(l) \/ r = <<"char", m>>
    <3>1. PICK k \in 1 .. n + 1 : r = <<"char", t[k]>>
      BY <2>1, <2>3
    <3> QED BY <3>1, <2>1, <1>5, <1>6
  <2>4. ASSUME NEW r, r \in DestroyInterfaces(l)
        PROVE  r \in DestroyInterfaces(l2)
    <3>1. PICK k \in 1 .. n : r = <<"char", s[k]>>
      BY <2>1, <2>4
    <3>2. r = <<"char", t[k]>> /\ k \in 1 .. n + 1
      BY <3>1, <1>5, <2>2
    <3> QED BY <3>2, <2>1
  <2>5. <<"char", m>> \in DestroyInterfaces(l2)
    <3>1. <<"char", m>> = <<"char", t[n + 1]>>
      BY <1>5
    <3> QED BY <3>1, <2>1, <2>2
  <2> QED BY <2>3, <2>4, <2>5
<1>13. PICK S : S = R \cup {<<"char", m>>}
  OBVIOUS
<1>14. /\ p2 \in HandlerSteps /\ "interfaces" \in HandlerSteps
       /\ p2 \notin {"enable", "bound"}
  BY <1>7 DEF HandlerSteps
<1>15. /\ \A r : r \in Owned("interfaces", l, poll) => r \in Owned(p2, l2, poll)
       /\ \A r : r \in Owned(p2, l2, poll) => r \in Owned("interfaces", l, poll) \/ r \in S
  BY <1>11, <1>12, <1>13, <1>14, OwnedBy
<1>16. \A r \in S : r \in Owned(p2, l2, poll) \/ r[1] = "region"
  BY <1>12, <1>13, OwnedBy
<1>17. l.msix_enabled => <<"msix", 0>> \in h
  BY <1>14 DEF HeldOk
<1>18. HeldOk(p2, l2, h \cup S, poll)
  BY <1>11, <1>15, <1>16, <1>17, Gains
<1> QED BY <1>3, <1>5, <1>8, <1>9, <1>10, <1>13, <1>18

\* The interrupts are enabled and the sysfs file is there: bound.
LEMMA BoundOk ==
  ASSUME NEW l, NEW poll, NEW h, NEW c, FlagsOk("finish", l, c), HeldOk("finish", l, h, poll)
  PROVE  /\ FlagsOk("bound", l, c)
         /\ HeldOk("bound", l, h \cup {<<"interrupts", 0>>, <<"sysfs", 0>>}, poll)
<1>1. FlagsOk("bound", l, c)
  BY DEF FlagsOk, HandlerSteps, EngineSteps
<1>2. PICK S : S = {<<"interrupts", 0>>, <<"sysfs", 0>>}
  OBVIOUS
<1>3. "finish" \in HandlerSteps /\ "bound" \in HandlerSteps
  BY DEF HandlerSteps
<1>4. /\ \A r : r \in Owned("finish", l, poll) => r \in Owned("bound", l, poll)
      /\ \A r : r \in Owned("bound", l, poll) => r \in Owned("finish", l, poll) \/ r \in S
  BY <1>2, <1>3, OwnedBy
<1>5. \A r \in S : r \in Owned("bound", l, poll)
  BY <1>2, OwnedBy
<1>6. l.msix_enabled => <<"msix", 0>> \in h
  BY <1>3 DEF HeldOk
<1>7. HeldOk("bound", l, h \cup S, poll)
  BY <1>4, <1>5, <1>6, Gains
<1> QED BY <1>1, <1>2, <1>7

-----------------------------------------------------------------------------
(***************************************************************************)
(* One step of one device, seen from all of them.                          *)
(***************************************************************************)
PCs == Steps \cup NullSteps \cup ReleaseSteps \cup {"bound"}

\* Writing back what is there changes nothing.
LEMMA ExceptSame ==
  ASSUME NEW S, NEW T, NEW f \in [S -> T], NEW d \in S
  PROVE  f = [f EXCEPT ![d] = f[d]]
OBVIOUS

\* A resting device does not depend on the position in a loop or on what is
\* to be released.
LEMMA RestingFrame ==
  ASSUME NEW p \in Resting, NEW i, NEW i2, NEW l, NEW h, NEW a, NEW c, NEW u, NEW u2, NEW poll,
         StateOk(p, i, l, h, a, c, u, poll)
  PROVE  StateOk(p, i2, l, h, a, c, u2, poll)
BY DEF StateOk, LoopOk, Resting, ReleaseSteps

(* A step after which device d is at p, with lro l, resources h and a as   *)
(* the step that failed.                                                   *)
Outcome(d, p, l, h, a) ==
  /\ pc' = [pc EXCEPT ![d] = p]
  /\ lro' = [lro EXCEPT ![d] = l]
  /\ held' = [held EXCEPT ![d] = h]
  /\ at' = [at EXCEPT ![d] = a]
  /\ card' = card /\ poll_mode' = poll_mode
  /\ module' = module /\ marks_lost' = marks_lost

\* The others are resting.
LEMMA OthersRest ==
  ASSUME IInv, NEW d \in Devices, Idle \/ pc[d] \notin Resting
  PROVE  \A e \in Devices : e # d => pc[e] \in Resting
BY DEF IInv, OneAtATime, Idle

\* Such a step preserves the invariant if device d is all right afterwards.
LEMMA StepOk ==
  ASSUME IInv, NEW d \in Devices, Idle \/ pc[d] \notin Resting,
         NEW p \in PCs, NEW l \in Lros, NEW h \in SUBSET Resources,
         NEW a \in Steps \cup {"none"}, Outcome(d, p, l, h, a),
         idx' \in Nat, undo' \in Seq(SUBSET Resources),
         dev_present' \in [0 .. MaxDevices - 1 -> BOOLEAN],
         double_free' \in BOOLEAN, ~double_free',
         module # "out", marks_lost \/ MarksOk',
         StateOk(p, idx', l, h, a, card[d], undo', poll_mode)
  PROVE  IInv'
<1>1. /\ TypeOK /\ OneAtATime /\ ModuleOk
      /\ \A e \in Devices : DeviceOk(e)
  BY DEF IInv
<1>2. /\ pc' \in [Devices -> PCs] /\ pc'[d] = p
      /\ \A e \in Devices : e # d => pc'[e] = pc[e]
  BY <1>1 DEF TypeOK, Outcome, PCs
<1>3. /\ lro' \in [Devices -> Lros] /\ lro'[d] = l
      /\ \A e \in Devices : e # d => lro'[e] = lro[e]
  BY <1>1 DEF TypeOK, Outcome
<1>4. /\ held' \in [Devices -> SUBSET Resources] /\ held'[d] = h
      /\ \A e \in Devices : e # d => held'[e] = held[e]
  BY <1>1 DEF TypeOK, Outcome
<1>5. /\ at' \in [Devices -> Steps \cup {"none"}] /\ at'[d] = a
      /\ \A e \in Devices : e # d => at'[e] = at[e]
  BY <1>1 DEF TypeOK, Outcome
<1>6. /\ card' = card /\ poll_mode' = poll_mode
      /\ module' = module /\ marks_lost' = marks_lost
  BY DEF Outcome
<1>7. TypeOK'
  BY <1>1, <1>2, <1>3, <1>4, <1>5, <1>6 DEF TypeOK, PCs
<1>8. \A e \in Devices : e # d => pc[e] \in Resting
  BY OthersRest
<1>9. OneAtATime'
  BY <1>2, <1>8 DEF OneAtATime
<1>10. ModuleOk'
  BY <1>1, <1>6 DEF ModuleOk
<1>11. ASSUME NEW e \in Devices PROVE DeviceOk(e)'
  <2>1. CASE e = d
    BY <2>1, <1>2, <1>3, <1>4, <1>5, <1>6 DEF DeviceOk
  <2>2. CASE e # d
    <3>1. StateOk(pc[e], idx, lro[e], held[e], at[e], card[e], undo, poll_mode)
      BY <1>1 DEF DeviceOk
    <3>2. pc[e] \in Resting
      BY <2>2, <1>8
    <3>3. StateOk(pc[e], idx', lro[e], held[e], at[e], card[e], undo', poll_mode)
      BY <3>1, <3>2, RestingFrame
    <3> QED BY <2>2, <3>3, <1>2, <1>3, <1>4, <1>5, <1>6 DEF DeviceOk
  <2> QED BY <2>1, <2>2
<1>12. (marks_lost \/ MarksOk)'
  BY <1>6
<1> QED BY <1>7, <1>9, <1>10, <1>11, <1>12 DEF IInv

\* Marks and instances as they were.
LEMMA MarksSame ==
  ASSUME TypeOK, marks_lost \/ MarksOk, NEW d \in Devices, NEW l,
         lro' = [lro EXCEPT ![d] = l], dev_present' = dev_present,
         Holder(l) => Holder(lro[d]) /\ l.instance = lro[d].instance
  PROVE  marks_lost \/ MarksOk'
<1> SUFFICES ASSUME MarksOk PROVE MarksOk'
  OBVIOUS
<1>1. lro'[d] = l /\ \A e \in Devices : e # d => lro'[e] = lro[e]
  BY DEF TypeOK
<1>2. \A e \in Devices : Holder(lro'[e]) => Holder(lro[e]) /\ lro'[e].instance = lro[e].instance
  BY <1>1
<1> QED BY <1>2 DEF MarksOk

\* What is known of a device at a step of probe().
LEMMA ProbingFacts ==
  ASSUME IInv, NEW d \in Devices, pc[d] \in Steps
  PROVE  /\ FlagsOk(pc[d], lro[d], card[d])
         /\ HeldOk(pc[d], lro[d], held[d], poll_mode)
         /\ LoopOk(pc[d], idx, lro[d], card[d])
         /\ CharsOk(lro[d])
         /\ pc[d] \notin Resting /\ pc[d] # "bound"
         /\ module # "out"
         /\ TypeOK /\ ~double_free /\ double_free \in BOOLEAN
         /\ marks_lost \/ MarksOk
         /\ lro[d] \in Lros /\ held[d] \in SUBSET Resources /\ card[d] \in CardType
         /\ at[d] \in Steps \cup {"none"}
         /\ idx \in Nat /\ undo \in Seq(SUBSET Resources)
         /\ dev_present \in [0 .. MaxDevices - 1 -> BOOLEAN]
<1>1. DeviceOk(d) /\ TypeOK /\ ModuleOk /\ ~double_free /\ (marks_lost \/ MarksOk)
  BY DEF IInv
<1>2. /\ FlagsOk(pc[d], lro[d], card[d])
      /\ HeldOk(pc[d], lro[d], held[d], poll_mode)
      /\ LoopOk(pc[d], idx, lro[d], card[d])
      /\ CharsOk(lro[d])
  BY <1>1 DEF DeviceOk, StateOk
<1>3. pc[d] \notin Resting /\ pc[d] # "bound"
  BY DEF Steps, Resting
<1>4. pc[d] \notin {"unbound", "failed"}
  BY DEF Steps
<1>5. module # "out"
  BY <1>1, <1>4 DEF ModuleOk
<1> QED BY <1>1, <1>2, <1>3, <1>5 DEF TypeOK

\* A step that succeeds.
LEMMA ProceedOk ==
  ASSUME IInv, NEW d \in Devices, pc[d] \in Steps, NEW p \in Steps \cup {"bound"},
         NEW l \in Lros, NEW S \in SUBSET Resources, Proceed(d, p, l, S), idx' \in Nat,
         FlagsOk(p, l, card[d]), HeldOk(p, l, held[d] \cup S, poll_mode),
         LoopOk(p, idx', l, card[d]), CharsOk(l),
         l.instance = lro[d].instance, Holder(l) => Holder(lro[d])
  PROVE  IInv'
<1>1. /\ pc[d] \notin Resting /\ module # "out"
      /\ TypeOK /\ ~double_free /\ double_free \in BOOLEAN
      /\ marks_lost \/ MarksOk
      /\ held[d] \in SUBSET Resources /\ at[d] \in Steps \cup {"none"}
      /\ undo \in Seq(SUBSET Resources)
      /\ dev_present \in [0 .. MaxDevices - 1 -> BOOLEAN]
  BY ProbingFacts
<1>2. /\ lro' = [lro EXCEPT ![d] = l] /\ dev_present' = dev_present
      /\ undo' = undo /\ double_free' = double_free
  BY DEF Proceed, Acquire
<1>3. Outcome(d, p, l, held[d] \cup S, at[d])
  <2>1. at = [at EXCEPT ![d] = at[d]]
    BY <1>1, ExceptSame DEF TypeOK
  <2> QED BY <2>1 DEF Proceed, Acquire, Goto, Outcome, moduleVars
<1>4. marks_lost \/ MarksOk'
  BY <1>1, <1>2, MarksSame
<1>5. p \in PCs /\ p \notin NullSteps /\ p \notin ReleaseSteps
  BY DEF PCs, Steps, NullSteps, ReleaseSteps
<1>6. StateOk(p, idx', l, held[d] \cup S, at[d], card[d], undo', poll_mode)
  BY <1>5 DEF StateOk
<1>7. held[d] \cup S \in SUBSET Resources
  BY <1>1
<1> QED BY <1>1, <1>2, <1>3, <1>4, <1>5, <1>6, <1>7, StepOk

\* Enabled interrupts are exempt when device_create_file failed.
LEMMA LiveAfterFinish ==
  ASSUME NEW h, NEW c, LiveOk(h, "finish", c)
  PROVE  LiveOk(h \cup {<<"interrupts", 0>>}, "finish", c)
<1>1. <<"interrupts", 0>>[1] = "interrupts"
  OBVIOUS
<1> QED BY <1>1 DEF LiveOk

\* A step that fails and goes to its label.  (l0 and h0 are the lro and the
\* resources when the step noticed.)
LEMMA FailOk ==
  ASSUME IInv, NEW d \in Devices, pc[d] \in Steps, NEW m, NEW before,
         NEW l0 \in Lros, NEW l \in Lros, NEW h0 \in SUBSET Resources,
         NEW h \in SUBSET Resources,
         GotoLabel(d, before, m, l), held' = [held EXCEPT ![d] = h],
         h = h0 \/ (pc[d] = "finish" /\ h = h0 \cup {<<"interrupts", 0>>}),
         FailsTo(pc[d], m, before, l0, poll_mode), SameParts(pc[d], l0, l),
         FlagsOk(pc[d], l0, card[d]), HeldOk(pc[d], l0, h0, poll_mode), CharsOk(l0),
         double_free' = double_free,
         dev_present' \in [0 .. MaxDevices - 1 -> BOOLEAN], marks_lost \/ MarksOk'
  PROVE  IInv'
<1>1. /\ pc[d] \notin Resting /\ module # "out"
      /\ ~double_free /\ double_free \in BOOLEAN /\ idx \in Nat
  BY ProbingFacts
<1>2. PICK u : u = before \o SubSeq(LabelsOf(l, poll_mode), m, Len(LabelsOf(l, poll_mode)))
  OBVIOUS
<1>3. undo' = u /\ idx' = idx
  BY <1>2, WithParameter DEF GotoLabel
<1>4. u \in Seq(SUBSET Resources) /\ UndoOk(u, h, LeftOver("undo", pc[d]))
  BY <1>2, LabelUndo
<1>5. LiveOk(h, pc[d], card[d])
  <2>1. LiveOk(h0, pc[d], card[d])
    BY LiveWhenProbed
  <2> QED BY <2>1, LiveAfterFinish
<1>6. CharsOk(l)
  <2>1. l.char_dev = l0.char_dev /\ l.engine = l0.engine
    BY DEF SameParts
  <2> QED BY <2>1 DEF CharsOk
<1>10. IsrOk(l, h, u)
  BY <1>2, IsrWhenFailed
<1>7. StateOk("undo", idx, l, h, pc[d], card[d], u, poll_mode)
  BY <1>4, <1>5, <1>6, <1>10 DEF StateOk, LoopOk, Steps, NullSteps
<1>8. Outcome(d, "undo", l, h, pc[d])
  BY DEF GotoLabel, Goto, Outcome, moduleVars
<1>9. "undo" \in PCs
  BY DEF PCs, ReleaseSteps
<1> QED BY <1>1, <1>3, <1>4, <1>7, <1>8, <1>9, StepOk


\* A step that fails with everything held as at its beginning.
LEMMA FailHere ==
  ASSUME IInv, NEW d \in Devices, pc[d] \in Steps, NEW m, NEW before, NEW l \in Lros,
         GotoLabel(d, before, m, l), UNCHANGED <<dev_present, held, double_free>>,
         FailsTo(pc[d], m, before, lro[d], poll_mode), SameParts(pc[d], lro[d], l),
         l.instance = lro[d].instance, l.major = lro[d].major
  PROVE  IInv'
<1>1. /\ FlagsOk(pc[d], lro[d], card[d])
      /\ HeldOk(pc[d], lro[d], held[d], poll_mode) /\ CharsOk(lro[d])
      /\ TypeOK
      /\ marks_lost \/ MarksOk
      /\ lro[d] \in Lros /\ held[d] \in SUBSET Resources
      /\ dev_present \in [0 .. MaxDevices - 1 -> BOOLEAN]
  BY ProbingFacts
<1>2. /\ lro' = [lro EXCEPT ![d] = l] /\ dev_present' = dev_present
      /\ held' = held /\ double_free' = double_free
  BY DEF GotoLabel
<1>3. held' = [held EXCEPT ![d] = held[d]]
  <2>1. held \in [Devices -> SUBSET Resources]
    BY <1>1 DEF TypeOK
  <2> QED BY <1>2, <2>1, ExceptSame
<1>4. Holder(l) => Holder(lro[d])
  BY DEF Holder, SameParts
<1>5. marks_lost \/ MarksOk'
  BY <1>1, <1>2, <1>4, MarksSame
<1> QED BY <1>1, <1>2, <1>3, <1>5, FailOk

-----------------------------------------------------------------------------
(***************************************************************************)
(* The actions preserve the invariant.                                     *)
(***************************************************************************)

\* What is known of a device that may be probed.
LEMMA MayProbeFacts ==
  ASSUME IInv, NEW d \in Devices, MayProbe(d)
  PROVE  /\ Idle /\ module # "out" /\ lro[d] = NoLro
         /\ \A r \in held[d] : r[1] = "region"
         /\ TypeOK /\ ~double_free /\ double_free \in BOOLEAN
         /\ marks_lost \/ MarksOk
         /\ lro[d] \in Lros /\ held[d] \in SUBSET Resources
         /\ at[d] \in Steps \cup {"none"} /\ idx \in Nat
         /\ undo \in Seq(SUBSET Resources)
         /\ dev_present \in [0 .. MaxDevices - 1 -> BOOLEAN]
<1>1. TypeOK /\ DeviceOk(d) /\ ~double_free /\ (marks_lost \/ MarksOk)
  BY DEF IInv
<1>2. pc[d] \in NullSteps
  BY DEF MayProbe, NullSteps
<1>3. lro[d] = NoLro
  BY <1>1, <1>2 DEF DeviceOk, StateOk, NullOk
<1>4. Idle /\ module # "out" /\ \A r \in held[d] : r[1] = "region"
  BY DEF MayProbe
<1> QED BY <1>1, <1>3, <1>4 DEF TypeOK

\* No lro: no position in a loop, no character devices, no holder.
LEMMA NoLroOk ==
  ASSUME NEW p, NEW i, NEW c, p \notin {"h2c", "c2h", "interfaces", "finish", "bound", "remove"}
  PROVE  LoopOk(p, i, NoLro, c) /\ CharsOk(NoLro) /\ ~Holder(NoLro)
BY DEF LoopOk, CharsOk, Holder, NoLro

\* alloc_dev_instance.
LEMMA AllocDevInstanceOk ==
  ASSUME IInv, NEW d \in Devices, AllocDevInstance(d)
  PROVE  IInv'
<1>1. MayProbe(d)
  BY DEF AllocDevInstance
<1>2. /\ Idle /\ module # "out" /\ lro[d] = NoLro
      /\ \A r \in held[d] : r[1] = "region"
      /\ TypeOK /\ ~double_free /\ double_free \in BOOLEAN
      /\ marks_lost \/ MarksOk
      /\ held[d] \in SUBSET Resources /\ idx \in Nat
      /\ undo \in Seq(SUBSET Resources)
      /\ dev_present \in [0 .. MaxDevices - 1 -> BOOLEAN]
  BY <1>1, MayProbeFacts
<1>3. /\ lro' = [lro EXCEPT ![d] = NoLro] /\ dev_present' = dev_present
      /\ undo' = undo /\ double_free' = double_free /\ idx' = idx
      /\ Outcome(d, "enable", NoLro, held[d] \cup Only("lro"), "none")
  BY DEF AllocDevInstance, Goto, Acquire, Outcome, moduleVars
<1>4. /\ FlagsOk("enable", NoLro, card[d])
      /\ HeldOk("enable", NoLro, held[d] \cup Only("lro"), poll_mode)
      /\ NoLro \in Lros
  BY <1>2, StartOk
<1>5. LoopOk("enable", idx', NoLro, card[d]) /\ CharsOk(NoLro) /\ ~Holder(NoLro)
  BY NoLroOk
<1>6. marks_lost \/ MarksOk'
  BY <1>2, <1>3, <1>5, MarksSame
<1>7. StateOk("enable", idx', NoLro, held[d] \cup Only("lro"), "none", card[d], undo', poll_mode)
  BY <1>4, <1>5 DEF StateOk, NullSteps, ReleaseSteps
<1>8. held[d] \cup Only("lro") \in SUBSET Resources
  <2>1. <<"lro", 0>> \in Resources
    BY DEF Resources, Kinds
  <2> QED BY <1>2, <2>1 DEF Only
<1>9. "enable" \in PCs
  BY DEF PCs, Steps
<1> QED BY <1>2, <1>3, <1>4, <1>6, <1>7, <1>8, <1>9, StepOk

\* alloc_dev_instance failed: bound without an lro.
LEMMA AllocFailsOk ==
  ASSUME IInv, NEW d \in Devices, AllocFails(d)
  PROVE  IInv'
<1>1. MayProbe(d)
  BY DEF AllocFails
<1>2. /\ Idle /\ module # "out" /\ lro[d] = NoLro
      /\ \A r \in held[d] : r[1] = "region"
      /\ TypeOK /\ ~double_free /\ double_free \in BOOLEAN
      /\ marks_lost \/ MarksOk
      /\ lro[d] \in Lros /\ held[d] \in SUBSET Resources
      /\ at[d] \in Steps \cup {"none"} /\ idx \in Nat
      /\ undo \in Seq(SUBSET Resources)
      /\ dev_present \in [0 .. MaxDevices - 1 -> BOOLEAN]
  BY <1>1, MayProbeFacts
<1>3. /\ pc' = [pc EXCEPT ![d] = "bound_null"]
      /\ UNCHANGED <<moduleVars, dev_present, card, idx, lro, undo, held, at, double_free>>
  BY DEF AllocFails, Goto
<1>4. Outcome(d, "bound_null", lro[d], held[d], at[d]) /\ lro' = [lro EXCEPT ![d] = lro[d]]
  <2>1. /\ lro = [lro EXCEPT ![d] = lro[d]] /\ held = [held EXCEPT ![d] = held[d]]
        /\ at = [at EXCEPT ![d] = at[d]]
    BY <1>2, ExceptSame DEF TypeOK
  <2> QED BY <1>3, <2>1 DEF Outcome, moduleVars
<1>5. marks_lost \/ MarksOk'
  BY <1>2, <1>3, <1>4, MarksSame
<1>6. StateOk("bound_null", idx', lro[d], held[d], at[d], card[d], undo', poll_mode)
  <2>1. LoopOk("bound_null", idx', NoLro, card[d]) /\ CharsOk(NoLro)
    BY NoLroOk
  <2>2. \A r \in held[d] : r[1] \in LeftOver("bound_null", at[d])
    BY <1>2 DEF LeftOver
  <2> QED BY <1>2, <2>1, <2>2 DEF StateOk, NullOk, Steps, ReleaseSteps
<1>7. "bound_null" \in PCs
  BY DEF PCs, NullSteps
<1> QED BY <1>2, <1>3, <1>4, <1>5, <1>6, <1>7, StepOk

\* Nothing is different: the lro with which most labels are entered.
LEMMA SamePartsSelf ==
  ASSUME NEW p, NEW l, NEW c, FlagsOk(p, l, c), p # "regions"
  PROVE  SameParts(p, l, l)
BY DEF SameParts, FlagsOk

\* Before the interfaces there is no position in their loop.
LEMMA LoopNone ==
  ASSUME NEW p, NEW i, NEW l, NEW c,
         p \notin {"h2c", "c2h", "interfaces", "finish", "bound", "remove"}
  PROVE  LoopOk(p, i, l, c)
BY DEF LoopOk

\* pci_enable_device.
LEMMA EnableDeviceOk ==
  ASSUME IInv, NEW d \in Devices, EnableDevice(d)
  PROVE  IInv'
<1>1. pc[d] = "enable" /\ pc[d] \in Steps
  BY DEF EnableDevice, Steps
<1>2. /\ FlagsOk("enable", lro[d], card[d]) /\ HeldOk("enable", lro[d], held[d], poll_mode)
      /\ CharsOk(lro[d]) /\ lro[d] \in Lros /\ idx \in Nat
  BY <1>1, ProbingFacts
<1>3. ASSUME Proceed(d, "msi", lro[d], Only("enabled")), idx' = idx PROVE IInv'
  <2>1. /\ FlagsOk("msi", lro[d], card[d])
        /\ HeldOk("msi", lro[d], held[d] \cup Only("enabled"), poll_mode)
    BY <1>2, EnabledOk
  <2>2. LoopOk("msi", idx', lro[d], card[d])
    BY LoopNone
  <2>3. Only("enabled") \in SUBSET Resources /\ "msi" \in Steps
    BY DEF Only, Resources, Kinds, Steps
  <2> QED BY <1>1, <1>2, <1>3, <2>1, <2>2, <2>3, ProceedOk
<1>4. ASSUME Fail(d, err_enable, lro[d]) PROVE IInv'
  <2>1. SameParts(pc[d], lro[d], lro[d])
    BY <1>1, <1>2, SamePartsSelf
  <2>2. FailsTo(pc[d], err_enable, <<>>, lro[d], poll_mode)
    BY <1>1 DEF FailsTo, err_enable
  <2>3. /\ GotoLabel(d, <<>>, err_enable, lro[d])
        /\ UNCHANGED <<dev_present, held, double_free>>
    BY <1>4 DEF Fail
  <2> QED BY <1>1, <1>2, <2>1, <2>2, <2>3, FailHere
<1> QED BY <1>3, <1>4 DEF EnableDevice

\* probe_scan_for_msi.
LEMMA ProbeScanForMsiOk ==
  ASSUME IInv, NEW d \in Devices, ProbeScanForMsi(d)
  PROVE  IInv'
<1>1. pc[d] = "msi" /\ pc[d] \in Steps
  BY DEF ProbeScanForMsi, Steps
<1>2. /\ FlagsOk("msi", lro[d], card[d]) /\ HeldOk("msi", lro[d], held[d], poll_mode)
      /\ CharsOk(lro[d]) /\ lro[d] \in Lros /\ idx \in Nat /\ card[d] \in CardType
  BY <1>1, ProbingFacts
<1>3. PICK l : l = [lro[d] EXCEPT !.msix_enabled = card[d].irq = "msix",
                                  !.msi_enabled = card[d].irq = "msi"]
  OBVIOUS
<1>4. /\ l \in Lros
      /\ l.msix_enabled <=> card[d].irq = "msix"
      /\ l.msi_enabled <=> card[d].irq = "msi"
      /\ l.engine = lro[d].engine /\ l.char_dev = lro[d].char_dev
      /\ l.bar = lro[d].bar /\ l.got_regions = lro[d].got_regions
      /\ l.irq_line = lro[d].irq_line /\ l.regions_in_use = lro[d].regions_in_use
      /\ l.instance = lro[d].instance /\ l.major = lro[d].major
  BY <1>2, <1>3 DEF Lros
<1>5. SameParts("msi", lro[d], l)
  BY <1>2, <1>4 DEF SameParts, FlagsOk
<1>6. CharsOk(l)
  BY <1>2, <1>4 DEF CharsOk
<1>7. LoopOk("regions", idx, l, card[d])
  BY LoopNone
<1>8. ASSUME NEW S,
             \/ S = {} /\ ~l.msi_enabled
             \/ S = Only("msix") /\ l.msix_enabled /\ ~l.msi_enabled
             \/ S = Only("msi") /\ l.msi_enabled,
             Proceed(d, "regions", l, S), idx' = idx
      PROVE  IInv'
  <2>1. /\ FlagsOk("regions", l, card[d])
        /\ HeldOk("regions", l, held[d] \cup S, poll_mode)
    BY <1>2, <1>5, <1>8, ScannedOk
  <2>2. S \in SUBSET Resources /\ "regions" \in Steps
    BY <1>8 DEF Only, Resources, Kinds, Steps
  <2>3. Holder(l) => Holder(lro[d])
    BY <1>4 DEF Holder
  <2> QED BY <1>1, <1>2, <1>4, <1>6, <1>7, <1>8, <2>1, <2>2, <2>3, ProceedOk
<1>9. ASSUME Fail(d, err_scan_msi, l) PROVE IInv'
  <2>1. FailsTo(pc[d], err_scan_msi, <<>>, lro[d], poll_mode)
    BY <1>1 DEF FailsTo, err_scan_msi
  <2>2. /\ GotoLabel(d, <<>>, err_scan_msi, l)
        /\ UNCHANGED <<dev_present, held, double_free>>
    BY <1>9 DEF Fail
  <2> QED BY <1>1, <1>2, <1>4, <1>5, <2>1, <2>2, FailHere
<1>10. PICK S : /\ S = When(card[d].irq # "legacy", Only(card[d].irq))
                /\ \/ S = {} /\ ~l.msi_enabled
                   \/ S = Only("msix") /\ l.msix_enabled /\ ~l.msi_enabled
                   \/ S = Only("msi") /\ l.msi_enabled
  <2>1. card[d].irq \in {"msix", "msi", "legacy"}
    BY <1>2 DEF CardType
  <2> QED BY <2>1, <1>4 DEF When
<1>11. \/ Proceed(d, "regions", l, S) /\ idx' = idx
       \/ card[d].irq = "msix" /\ Proceed(d, "regions", l, {}) /\ idx' = idx
       \/ Fail(d, err_scan_msi, l)
  BY <1>3, <1>10, Zenon DEF ProbeScanForMsi
<1>12. ASSUME card[d].irq = "msix", Proceed(d, "regions", l, {}), idx' = idx PROVE IInv'
  <2>1. ~l.msi_enabled
    BY <1>4, <1>12
  <2> QED BY <1>8, <1>12, <2>1
<1> QED BY <1>8, <1>9, <1>10, <1>11, <1>12

\* pci_request_regions.
LEMMA RequestRegionsOk ==
  ASSUME IInv, NEW d \in Devices, RequestRegions(d)
  PROVE  IInv'
<1>1. pc[d] = "regions" /\ pc[d] \in Steps
  BY DEF RequestRegions, Steps
<1>2. /\ FlagsOk("regions", lro[d], card[d]) /\ HeldOk("regions", lro[d], held[d], poll_mode)
      /\ CharsOk(lro[d]) /\ lro[d] \in Lros /\ idx \in Nat
  BY <1>1, ProbingFacts
<1>3. ASSUME NEW l, l = [lro[d] EXCEPT !.got_regions = TRUE],
             Proceed(d, "bars", l, Only("regions")), idx' = idx
      PROVE  IInv'
  <2>1. /\ l \in Lros /\ l.got_regions
        /\ l.engine = lro[d].engine /\ l.char_dev = lro[d].char_dev
        /\ l.irq_line = lro[d].irq_line /\ l.msix_enabled = lro[d].msix_enabled
        /\ l.msi_enabled = lro[d].msi_enabled /\ l.regions_in_use = lro[d].regions_in_use
        /\ l.bar = lro[d].bar /\ l.instance = lro[d].instance /\ l.major = lro[d].major
    BY <1>2, <1>3 DEF Lros
  <2>2. FlagsOk("bars", l, card[d]) /\ HeldOk("bars", l, held[d] \cup Only("regions"), poll_mode)
    BY <1>2, <2>1, MappedOk
  <2>3. LoopOk("bars", idx', l, card[d])
    BY LoopNone
  <2>4. Only("regions") \in SUBSET Resources /\ "bars" \in Steps
    BY DEF Only, Resources, Kinds, Steps
  <2>5. CharsOk(l) /\ (Holder(l) => Holder(lro[d]))
    BY <1>2, <2>1 DEF CharsOk, Holder
  <2> QED BY <1>1, <1>2, <1>3, <2>1, <2>2, <2>3, <2>4, <2>5, ProceedOk
<1>4. ASSUME NEW l, l = [lro[d] EXCEPT !.regions_in_use = TRUE], Fail(d, err_regions, l)
      PROVE  IInv'
  <2>1. /\ l \in Lros /\ l.regions_in_use
        /\ l.engine = lro[d].engine /\ l.char_dev = lro[d].char_dev
        /\ l.irq_line = lro[d].irq_line /\ l.msix_enabled = lro[d].msix_enabled
        /\ l.msi_enabled = lro[d].msi_enabled /\ l.got_regions = lro[d].got_regions
        /\ l.bar = lro[d].bar /\ l.instance = lro[d].instance /\ l.major = lro[d].major
    BY <1>2, <1>4 DEF Lros
  <2>2. SameParts(pc[d], lro[d], l)
    BY <1>1, <2>1 DEF SameParts
  <2>3. FailsTo(pc[d], err_regions, <<>>, lro[d], poll_mode)
    BY <1>1 DEF FailsTo, err_regions
  <2>4. /\ GotoLabel(d, <<>>, err_regions, l)
        /\ UNCHANGED <<dev_present, held, double_free>>
    BY <1>4 DEF Fail
  <2> QED BY <1>1, <2>1, <2>2, <2>3, <2>4, FailHere
<1> QED BY <1>3, <1>4, Zenon DEF RequestRegions

\* map_bars.
LEMMA MapBarsOk ==
  ASSUME IInv, NEW d \in Devices, MapBars(d)
  PROVE  IInv'
<1>1. pc[d] = "bars" /\ pc[d] \in Steps
  BY DEF MapBars, Steps
<1>2. /\ FlagsOk("bars", lro[d], card[d]) /\ HeldOk("bars", lro[d], held[d], poll_mode)
      /\ CharsOk(lro[d]) /\ lro[d] \in Lros /\ idx \in Nat
  BY <1>1, ProbingFacts
<1>3. ASSUME NEW user \in BOOLEAN, NEW bypass \in BOOLEAN, NEW l,
             l = [lro[d] EXCEPT !.bar = TRUE, !.user_bar = user, !.bypass_bar = bypass],
             Proceed(d, "mask", l, Only("bar")), idx' = idx
      PROVE  IInv'
  <2>1. /\ l \in Lros /\ l.bar
        /\ l.engine = lro[d].engine /\ l.char_dev = lro[d].char_dev
        /\ l.irq_line = lro[d].irq_line /\ l.msix_enabled = lro[d].msix_enabled
        /\ l.msi_enabled = lro[d].msi_enabled /\ l.regions_in_use = lro[d].regions_in_use
        /\ l.got_regions = lro[d].got_regions
        /\ l.instance = lro[d].instance /\ l.major = lro[d].major
    BY <1>2, <1>3 DEF Lros
  <2>2. FlagsOk("mask", l, card[d]) /\ HeldOk("mask", l, held[d] \cup Only("bar"), poll_mode)
    BY <1>2, <2>1, MappedOk
  <2>3. LoopOk("mask", idx', l, card[d])
    BY LoopNone
  <2>4. Only("bar") \in SUBSET Resources /\ "mask" \in Steps
    BY DEF Only, Resources, Kinds, Steps
  <2>5. CharsOk(l) /\ (Holder(l) => Holder(lro[d]))
    BY <1>2, <2>1 DEF CharsOk, Holder
  <2> QED BY <1>1, <1>2, <1>3, <2>1, <2>2, <2>3, <2>4, <2>5, ProceedOk
<1>4. ASSUME Fail(d, err_map, lro[d]) PROVE IInv'
  <2>1. SameParts(pc[d], lro[d], lro[d])
    BY <1>1, <1>2, SamePartsSelf
  <2>2. FailsTo(pc[d], err_map, <<>>, lro[d], poll_mode)
    BY <1>1 DEF FailsTo, err_map
  <2>3. /\ GotoLabel(d, <<>>, err_map, lro[d])
        /\ UNCHANGED <<dev_present, held, double_free>>
    BY <1>4 DEF Fail
  <2> QED BY <1>1, <1>2, <2>1, <2>2, <2>3, FailHere
<1>5. IdentifyBars(card[d]).user \in BOOLEAN /\ IdentifyBars(card[d]).bypass \in BOOLEAN
  BY DEF IdentifyBars
<1> QED BY <1>3, <1>4, <1>5, Zenon DEF MapBars

\* set_dma_mask.
LEMMA SetDmaMaskOk ==
  ASSUME IInv, NEW d \in Devices, SetDmaMask(d)
  PROVE  IInv'
<1>1. pc[d] = "mask" /\ pc[d] \in Steps
  BY DEF SetDmaMask, Steps
<1>2. /\ FlagsOk("mask", lro[d], card[d]) /\ HeldOk("mask", lro[d], held[d], poll_mode)
      /\ CharsOk(lro[d]) /\ lro[d] \in Lros /\ idx \in Nat
  BY <1>1, ProbingFacts
<1>3. ASSUME Proceed(d, "irq", lro[d], {}), idx' = idx PROVE IInv'
  <2>1. held[d] = held[d] \cup {}
    OBVIOUS
  <2>2. FlagsOk("irq", lro[d], card[d]) /\ HeldOk("irq", lro[d], held[d] \cup {}, poll_mode)
    BY <1>2, <2>1, MaskedOk
  <2>3. LoopOk("irq", idx', lro[d], card[d])
    BY LoopNone
  <2>4. {} \in SUBSET Resources /\ "irq" \in Steps
    BY DEF Steps
  <2> QED BY <1>1, <1>2, <1>3, <2>2, <2>3, <2>4, ProceedOk
<1>4. ASSUME Fail(d, err_interrupts, lro[d]) PROVE IInv'
  <2>1. SameParts(pc[d], lro[d], lro[d])
    BY <1>1, <1>2, SamePartsSelf
  <2>2. FailsTo(pc[d], err_interrupts, <<>>, lro[d], poll_mode)
    BY <1>1 DEF FailsTo, err_interrupts
  <2>3. /\ GotoLabel(d, <<>>, err_interrupts, lro[d])
        /\ UNCHANGED <<dev_present, held, double_free>>
    BY <1>4 DEF Fail
  <2> QED BY <1>1, <1>2, <2>1, <2>2, <2>3, FailHere
<1> QED BY <1>3, <1>4 DEF SetDmaMask

\* irq_setup.
LEMMA IrqSetupOk ==
  ASSUME IInv, NEW d \in Devices, IrqSetup(d)
  PROVE  IInv'
<1>1. pc[d] = "irq" /\ pc[d] \in Steps
  BY DEF IrqSetup, Steps
<1>2. /\ FlagsOk("irq", lro[d], card[d]) /\ HeldOk("irq", lro[d], held[d], poll_mode)
      /\ CharsOk(lro[d]) /\ lro[d] \in Lros /\ idx \in Nat
  BY <1>1, ProbingFacts
<1>3. PICK l : l = [lro[d] EXCEPT !.irq_line = ~lro[d].msix_enabled]
  OBVIOUS
<1>4. /\ l \in Lros
      /\ l.irq_line <=> ~l.msix_enabled
      /\ l.msix_enabled = lro[d].msix_enabled /\ l.msi_enabled = lro[d].msi_enabled
      /\ l.engine = lro[d].engine /\ l.char_dev = lro[d].char_dev
      /\ l.bar = lro[d].bar /\ l.got_regions = lro[d].got_regions
      /\ l.regions_in_use = lro[d].regions_in_use
      /\ l.instance = lro[d].instance /\ l.major = lro[d].major
  BY <1>2, <1>3 DEF Lros
<1>5. SameParts("irq", lro[d], l)
  BY <1>2, <1>4 DEF SameParts, FlagsOk
<1>6. ASSUME l.msix_enabled => <<"msix", 0>> \in held[d],
             Proceed(d, "h2c", l, IrqTeardown(l)), idx' = 1
      PROVE  IInv'
  <2>1. FlagsOk("h2c", l, card[d]) /\ HeldOk("h2c", l, held[d] \cup IrqTeardown(l), poll_mode)
    BY <1>2, <1>4, <1>5, <1>6, IrqOk
  <2>2. LoopOk("h2c", 1, l, card[d])
    <3>1. 1 \in 1 .. 2 * Channels /\ 1 <= Channels /\ 1 .. 1 - 1 = {}
      BY SizesAssumption
    <3>2. l.engine = {}
      BY <1>2, <1>4 DEF FlagsOk, HandlerSteps
    <3> QED BY <3>1, <3>2 DEF LoopOk
  <2>3. IrqTeardown(l) \in SUBSET Resources
    BY <1>4, KindsReleased
  <2>4. CharsOk(l) /\ (Holder(l) => Holder(lro[d]))
    BY <1>2, <1>4 DEF CharsOk, Holder
  <2>5. idx' \in Nat /\ "h2c" \in Steps
    BY <1>6 DEF Steps
  <2> QED BY <1>1, <1>2, <1>4, <1>6, <2>1, <2>2, <2>3, <2>4, <2>5, ProceedOk
<1>7. ASSUME Fail(d, err_interrupts, l) PROVE IInv'
  <2>1. FailsTo(pc[d], err_interrupts, <<>>, lro[d], poll_mode)
    BY <1>1 DEF FailsTo, err_interrupts
  <2>2. /\ GotoLabel(d, <<>>, err_interrupts, l)
        /\ UNCHANGED <<dev_present, held, double_free>>
    BY <1>7 DEF Fail
  <2> QED BY <1>1, <1>4, <1>5, <2>1, <2>2, FailHere
<1> QED BY <1>3, <1>6, <1>7, Zenon DEF IrqSetup

\* probe_for_engine.
LEMMA ProbeEngineOk ==
  ASSUME IInv, NEW d \in Devices, ProbeEngine(d)
  PROVE  IInv'
<1>1. pc[d] \in {"h2c", "c2h"} /\ pc[d] \in Steps
  BY DEF ProbeEngine, Steps
<1>2. /\ FlagsOk(pc[d], lro[d], card[d]) /\ HeldOk(pc[d], lro[d], held[d], poll_mode)
      /\ LoopOk(pc[d], idx, lro[d], card[d])
      /\ CharsOk(lro[d]) /\ lro[d] \in Lros /\ idx \in Nat /\ card[d] \in CardType
  BY <1>1, ProbingFacts
<1>3. PICK e : e = AllEngines[idx]
  OBVIOUS
<1>4. PICK p : p = IF idx = 2 * Channels THEN "interfaces"
                   ELSE IF idx < Channels THEN "h2c" ELSE "c2h"
  OBVIOUS
<1>5. PICK i : i = (IF idx = 2 * Channels THEN 1 ELSE idx + 1) /\ AfterEngine(p, i, idx)
  BY <1>4 DEF AfterEngine
<1>6. Len(AllEngines) = 2 * Channels
  BY EngineNumbers
<1>7. PICK l : l = [lro[d] EXCEPT !.engine = @ \cup {e}]
  OBVIOUS
<1>8. /\ e \in Engines /\ e \in Nat /\ l \in Lros
      /\ l.char_dev = lro[d].char_dev /\ l.major = lro[d].major
      /\ l.instance = lro[d].instance /\ l.engine = lro[d].engine \cup {e}
  <2>1. idx \in 1 .. 2 * Channels
    BY <1>1, <1>2 DEF LoopOk
  <2>2. e \in Engines /\ e \in Nat
    BY <1>3, <2>1, EngineNumberAt DEF Engines
  <2> QED BY <1>2, <1>7, <2>2 DEF Lros
<1>9. p \in Steps /\ i \in Nat
  BY <1>2, <1>4, <1>5 DEF Steps
<1>10. card[d].engines \in SUBSET Engines
  BY <1>2 DEF CardType
<1>11. ASSUME e \notin card[d].engines, Proceed(d, p, lro[d], {}), idx' = i PROVE IInv'
  <2>1. PICK S : S = {}
    OBVIOUS
  <2>2. /\ FlagsOk(p, lro[d], card[d]) /\ HeldOk(p, lro[d], held[d] \cup S, poll_mode)
        /\ LoopOk(p, i, lro[d], card[d])
    <3>1. EngineGain(lro[d], lro[d], e, S, card[d], poll_mode)
      BY <1>11, <2>1 DEF EngineGain
    <3> QED BY <1>1, <1>2, <1>3, <1>5, <1>10, <3>1, EngineOk
  <2>3. S \in SUBSET Resources
    BY <2>1
  <2> QED BY <1>1, <1>2, <1>9, <1>11, <2>1, <2>2, <2>3, ProceedOk
<1>12. ASSUME e \in card[d].engines, Proceed(d, p, l, EngineResources(l, e)), idx' = i
       PROVE  IInv'
  <2>1. PICK S : S = EngineParts(l, e, poll_mode)
    OBVIOUS
  <2>2. EngineResources(l, e) = S
    BY <2>1 DEF EngineParts, EngineResources, Writeback
  <2>3. /\ FlagsOk(p, l, card[d]) /\ HeldOk(p, l, held[d] \cup S, poll_mode)
        /\ LoopOk(p, i, l, card[d])
    <3>1. EngineGain(lro[d], l, e, S, card[d], poll_mode)
      BY <1>7, <1>12, <2>1 DEF EngineGain
    <3> QED BY <1>1, <1>2, <1>3, <1>5, <1>10, <3>1, EngineOk
  <2>4. S \in SUBSET Resources
    <3>1. S \subseteq {<<"engine", e>>, <<"engine_irq", e>>, <<"writeback", e>>}
      BY <2>1 DEF EngineParts, EngineHandler, When
    <3>2. {<<"engine", e>>, <<"engine_irq", e>>, <<"writeback", e>>} \subseteq Resources
      BY <1>8 DEF Resources, Kinds
    <3> QED BY <3>1, <3>2
  <2>5. CharsOk(l) /\ (Holder(l) => Holder(lro[d]))
    BY <1>2, <1>8 DEF CharsOk, Holder
  <2> QED BY <1>1, <1>2, <1>8, <1>9, <1>12, <2>2, <2>3, <2>4, <2>5, ProceedOk
<1>13. ASSUME NEW before,
              before = IF pc[d] = "h2c" THEN <<RemoveEngines(lro[d])>> ELSE <<>>,
              GotoLabel(d, before, err_engines, lro[d]),
              UNCHANGED <<dev_present, held, double_free>>
       PROVE  IInv'
  <2>1. SameParts(pc[d], lro[d], lro[d])
    BY <1>1, <1>2, SamePartsSelf
  <2>2. RemoveEngines(lro[d]) = EnginesOf(lro[d], poll_mode)
    BY WithParameter
  <2>3. FailsTo(pc[d], err_engines, before, lro[d], poll_mode)
    BY <1>1, <1>13, <2>2 DEF FailsTo, err_engines
  <2> QED BY <1>1, <1>2, <1>13, <2>1, <2>3, FailHere
<1> QED
  BY <1>3, <1>4, <1>5, <1>6, <1>7, <1>11, <1>12, <1>13 DEF ProbeEngine, EngineFound

\* create_interfaces goes on to the next position.
LEMMA NextInterfaceOk ==
  ASSUME IInv, NEW d \in Devices, pc[d] = "interfaces", NextInterface(d),
         NEW l \in Lros, NEW h \in SUBSET Resources, NEW p, AfterInterface(p, idx),
         lro' = [lro EXCEPT ![d] = l], held' = [held EXCEPT ![d] = h],
         double_free' = double_free,
         dev_present' \in [0 .. MaxDevices - 1 -> BOOLEAN], marks_lost \/ MarksOk',
         FlagsOk(p, l, card[d]), HeldOk(p, l, h, poll_mode),
         LoopOk(p, idx + 1, l, card[d]), CharsOk(l)
  PROVE  IInv'
<1>1. pc[d] \in Steps
  BY DEF Steps
<1>2. /\ pc[d] \notin Resting /\ module # "out" /\ TypeOK
      /\ ~double_free /\ double_free \in BOOLEAN /\ idx \in Nat
      /\ at[d] \in Steps \cup {"none"} /\ undo \in Seq(SUBSET Resources)
  BY <1>1, ProbingFacts
<1>3. p \in {"finish", "interfaces"} /\ pc' = [pc EXCEPT ![d] = p]
  BY DEF AfterInterface, NextInterface, Goto
<1>4. /\ idx' = idx + 1 /\ undo' = undo /\ at' = at
      /\ card' = card /\ UNCHANGED moduleVars
  BY DEF NextInterface
<1>5. Outcome(d, p, l, h, at[d])
  <2>1. at = [at EXCEPT ![d] = at[d]]
    BY <1>2, ExceptSame DEF TypeOK
  <2> QED BY <1>3, <1>4, <2>1 DEF Outcome, moduleVars
<1>6. p \in PCs /\ p \notin NullSteps /\ p \notin ReleaseSteps
  BY <1>3 DEF PCs, Steps, NullSteps, ReleaseSteps
<1>7. StateOk(p, idx', l, h, at[d], card[d], undo', poll_mode)
  BY <1>4, <1>6 DEF StateOk
<1>8. idx' \in Nat
  BY <1>2, <1>4
<1> QED BY <1>2, <1>4, <1>5, <1>6, <1>7, <1>8, StepOk

\* It does so without a new device.
LEMMA PassedOver ==
  ASSUME IInv, NEW d \in Devices, pc[d] = "interfaces", NextInterface(d),
         Interfaces[idx][1] # "ctrl",
         NEW l \in Lros, NEW h \in SUBSET Resources,
         SameButNumbers(lro[d], l), l.char_dev = lro[d].char_dev,
         \A r : r[1] # "region" => (r \in held[d] <=> r \in h),
         lro' = [lro EXCEPT ![d] = l], held' = [held EXCEPT ![d] = h],
         double_free' = double_free,
         dev_present' \in [0 .. MaxDevices - 1 -> BOOLEAN], marks_lost \/ MarksOk'
  PROVE  IInv'
<1>1. pc[d] \in Steps
  BY DEF Steps
<1>2. /\ FlagsOk("interfaces", lro[d], card[d])
      /\ HeldOk("interfaces", lro[d], held[d], poll_mode)
      /\ LoopOk("interfaces", idx, lro[d], card[d])
      /\ CharsOk(lro[d]) /\ lro[d] \in Lros
  BY <1>1, ProbingFacts
<1>3. PICK p : AfterInterface(p, idx)
  BY DEF AfterInterface
<1>4. p \in {"interfaces", "finish"}
  BY <1>3 DEF AfterInterface
<1>5. FlagsOk(p, l, card[d]) /\ HeldOk(p, l, h, poll_mode)
  <2>1. FlagsOk("interfaces", l, card[d]) /\ HeldOk("interfaces", l, h, poll_mode)
    BY <1>2, NumbersOk
  <2>2. FlagsOk("finish", l, card[d]) /\ HeldOk("finish", l, h, poll_mode)
    <3>1. "finish" \in {"interfaces", "finish"}
      OBVIOUS
    <3> QED BY <1>2, <3>1, NumbersOk
  <2> QED BY <1>4, <2>1, <2>2
<1>6. LoopOk(p, idx + 1, l, card[d])
  <2>1. lro[d].char_dev \in Seq(0 .. 100)
    BY <1>2 DEF Lros
  <2> QED BY <1>2, <1>3, <2>1, PassOver
<1>7. CharsOk(l)
  <2>1. l.engine = lro[d].engine
    BY DEF SameButNumbers
  <2> QED BY <1>2, <2>1 DEF CharsOk
<1> QED BY <1>3, <1>5, <1>6, <1>7, NextInterfaceOk

\* create_sg_char failed: ignored, or create_interfaces fails.
LEMMA InterfaceFailsOk ==
  ASSUME IInv, NEW d \in Devices, pc[d] = "interfaces",
         NEW l \in Lros, NEW h \in SUBSET Resources, InterfaceFails(d, l),
         SameButNumbers(lro[d], l), l.char_dev = lro[d].char_dev,
         \A r : r[1] # "region" => (r \in held[d] <=> r \in h),
         held' = [held EXCEPT ![d] = h], double_free' = double_free,
         dev_present' \in [0 .. MaxDevices - 1 -> BOOLEAN], marks_lost \/ MarksOk'
  PROVE  IInv'
<1>1. pc[d] \in Steps
  BY DEF Steps
<1>2. /\ FlagsOk("interfaces", lro[d], card[d])
      /\ HeldOk("interfaces", lro[d], held[d], poll_mode)
      /\ CharsOk(lro[d]) /\ lro[d] \in Lros
  BY <1>1, ProbingFacts
<1>3. CASE Interfaces[idx][1] \in {"events", "base"}
  <2>1. NextInterface(d) /\ lro' = [lro EXCEPT ![d] = l]
    BY <1>3 DEF InterfaceFails
  <2>2. Interfaces[idx][1] # "ctrl"
    BY <1>3
  <2> QED BY <2>1, <2>2, PassedOver
<1>4. CASE Interfaces[idx][1] \notin {"events", "base"}
  <2>1. PICK before : before = <<DestroyInterfaces(l)>>
    OBVIOUS
  <2>2. GotoLabel(d, before, err_interfaces, l)
    BY <1>4, <2>1 DEF InterfaceFails
  <2>3. FlagsOk("interfaces", l, card[d]) /\ HeldOk("interfaces", l, h, poll_mode)
    BY <1>2, NumbersOk
  <2>4. SameParts(pc[d], l, l)
    BY <2>3, SamePartsSelf
  <2>5. FailsTo(pc[d], err_interfaces, before, l, poll_mode)
    BY <2>1 DEF FailsTo, err_interfaces
  <2>6. CharsOk(l)
    <3>1. l.engine = lro[d].engine
      BY DEF SameButNumbers
    <3> QED BY <1>2, <3>1 DEF CharsOk
  <2> QED BY <1>1, <2>2, <2>3, <2>4, <2>5, <2>6, FailOk
<1> QED BY <1>3, <1>4

\* An interface the card has no use for.
LEMMA SkipInterfaceOk ==
  ASSUME IInv, NEW d \in Devices, SkipInterface(d)
  PROVE  IInv'
<1>1. /\ pc[d] = "interfaces" /\ pc[d] \in Steps /\ NextInterface(d)
      /\ Interfaces[idx][1] # "ctrl"
      /\ UNCHANGED <<dev_present, lro, held, double_free>>
  BY DEF SkipInterface, Wanted, Steps
<1>2. /\ TypeOK /\ lro[d] \in Lros /\ held[d] \in SUBSET Resources
      /\ dev_present \in [0 .. MaxDevices - 1 -> BOOLEAN]
      /\ marks_lost \/ MarksOk
  BY <1>1, ProbingFacts
<1>3. lro' = [lro EXCEPT ![d] = lro[d]] /\ held' = [held EXCEPT ![d] = held[d]]
  BY <1>1, <1>2, ExceptSame DEF TypeOK
<1>4. marks_lost \/ MarksOk'
  BY <1>1, <1>2, <1>3, MarksSame
<1>5. SameButNumbers(lro[d], lro[d])
  BY DEF SameButNumbers
<1> QED BY <1>1, <1>2, <1>3, <1>4, <1>5, PassedOver

\* create_sg_char fails before it takes anything.
LEMMA CharNotAllocatedOk ==
  ASSUME IInv, NEW d \in Devices, CharNotAllocated(d)
  PROVE  IInv'
<1>1. /\ pc[d] = "interfaces" /\ pc[d] \in Steps /\ InterfaceFails(d, lro[d])
      /\ UNCHANGED <<dev_present, held, double_free>>
  BY DEF CharNotAllocated, InterfaceDue, Steps
<1>2. /\ TypeOK /\ lro[d] \in Lros /\ held[d] \in SUBSET Resources
      /\ dev_present \in [0 .. MaxDevices - 1 -> BOOLEAN]
      /\ marks_lost \/ MarksOk
  BY <1>1, ProbingFacts
<1>3. lro' = [lro EXCEPT ![d] = lro[d]] /\ held' = [held EXCEPT ![d] = held[d]]
  <2>1. lro' = [lro EXCEPT ![d] = lro[d]]
    BY <1>1 DEF InterfaceFails, GotoLabel
  <2> QED BY <1>1, <1>2, <2>1, ExceptSame DEF TypeOK
<1>4. marks_lost \/ MarksOk'
  BY <1>1, <1>2, <1>3, MarksSame
<1>5. SameButNumbers(lro[d], lro[d])
  BY DEF SameButNumbers
<1> QED BY <1>1, <1>2, <1>3, <1>4, <1>5, InterfaceFailsOk

\* gen_dev_major: a number.
LEMMA MajorNat == GenDevMajor \in Nat
<1>1. ASSUME UsedMajors # 1 .. MaxMajors PROVE Min((1 .. MaxMajors) \ UsedMajors) \in Nat
  <2>1. PICK T : T = (1 .. MaxMajors) \ UsedMajors
    OBVIOUS
  <2>2. UsedMajors \subseteq 1 .. MaxMajors
    BY DEF UsedMajors
  <2>3. T \subseteq Nat /\ T # {}
    <3>1. \A n \in 1 .. MaxMajors : n \in Nat
      BY SizesAssumption
    <3>2. PICK n \in 1 .. MaxMajors : n \notin UsedMajors
      BY <1>1, <2>2
    <3> QED BY <2>1, <3>1, <3>2
  <2>4. Min(T) \in T
    BY <2>3, MinIn
  <2> QED BY <2>1, <2>3, <2>4
<1> QED BY <1>1 DEF GenDevMajor

\* "new instance?": the lro is as before but for the two numbers.
LEMMA NewInstanceOk ==
  ASSUME IInv, NEW d \in Devices, pc[d] = "interfaces", lro[d].major = 0 => FreeInstances # {},
         NEW l, l = NewInstance(d)
  PROVE  /\ l \in Lros /\ SameButNumbers(lro[d], l) /\ l.char_dev = lro[d].char_dev
         /\ \A r \in Region(l) : r \in Resources /\ r[1] = "region"
<1>1. lro[d] \in Lros
  <2>1. pc[d] \in Steps
    BY DEF Steps
  <2> QED BY <2>1, ProbingFacts
<1>2. PICK m \in Nat : m = GenDevMajor
  BY MajorNat
<1>3. lro[d].major = 0 => Min(FreeInstances) \in Nat
  <2>1. FreeInstances \subseteq Nat
    BY DEF FreeInstances
  <2> QED BY <2>1, MinIn
<1>4. l \in Lros /\ SameButNumbers(lro[d], l) /\ l.char_dev = lro[d].char_dev
  <2>1. CASE lro[d].major # 0
    <3>1. l = lro[d]
      BY <2>1 DEF NewInstance
    <3> QED BY <3>1, <1>1 DEF SameButNumbers
  <2>2. CASE lro[d].major = 0
    <3>1. PICK n \in Nat : n = Min(FreeInstances)
      BY <1>3, <2>2
    <3>2. l = [lro[d] EXCEPT !.instance = n, !.major = m]
      BY <1>2, <2>2, <3>1 DEF NewInstance
    <3> QED BY <1>1, <3>2 DEF SameButNumbers, Lros
  <2> QED BY <2>1, <2>2
<1>5. ASSUME NEW r \in Region(l) PROVE r \in Resources /\ r[1] = "region"
  <2>1. r = <<"region", l.major>>
    BY <1>5 DEF Region, When
  <2>2. l.major \in Nat
    BY <1>4 DEF Lros
  <2> QED BY <2>1, <2>2 DEF Resources, Kinds
<1> QED BY <1>4, <1>5

\* The instance taken was free: it is the device's alone, and marked.
LEMMA NewMarks ==
  ASSUME IInv, NEW d \in Devices, pc[d] = "interfaces", lro[d].major = 0 => FreeInstances # {},
         MarkPresent(d), NEW l, l.instance = NewInstance(d).instance,
         lro' = [lro EXCEPT ![d] = l]
  PROVE  /\ dev_present' \in [0 .. MaxDevices - 1 -> BOOLEAN]
         /\ marks_lost \/ MarksOk'
<1>1. /\ TypeOK /\ lro[d] \in Lros
      /\ dev_present \in [0 .. MaxDevices - 1 -> BOOLEAN]
      /\ marks_lost \/ MarksOk
  <2>1. pc[d] \in Steps
    BY DEF Steps
  <2> QED BY <2>1, ProbingFacts
<1>2. lro'[d] = l /\ \A e \in Devices : e # d => lro'[e] = lro[e]
  BY <1>1 DEF TypeOK
<1>3. CASE lro[d].major # 0
  <2>1. dev_present' = dev_present /\ l.instance = lro[d].instance /\ Holder(lro[d])
    BY <1>3 DEF MarkPresent, NewInstance, Holder
  <2> QED BY <1>1, <2>1, MarksSame
<1>4. CASE lro[d].major = 0
  <2>1. PICK n \in FreeInstances : n = Min(FreeInstances)
    <3>1. FreeInstances \subseteq Nat
      BY DEF FreeInstances
    <3> QED BY <1>4, <3>1, MinIn
  <2>2. n \in 0 .. MaxDevices - 1 /\ ~dev_present[n]
    BY <2>1 DEF FreeInstances
  <2>3. dev_present' = [dev_present EXCEPT ![n] = TRUE]
    BY <1>4, <2>1 DEF MarkPresent
  <2>4. l.instance = n
    BY <1>1, <1>4, <2>1 DEF NewInstance, Lros
  <2>5. dev_present' \in [0 .. MaxDevices - 1 -> BOOLEAN]
    BY <1>1, <2>3
  <2>6. dev_present'[n] /\ \A k \in 0 .. MaxDevices - 1 : dev_present[k] => dev_present'[k]
    BY <1>1, <2>2, <2>3
  <2>7. ASSUME MarksOk PROVE MarksOk'
    <3>1. /\ \A e \in Devices : Holder(lro[e]) =>
               lro[e].instance \in 0 .. MaxDevices - 1 /\ dev_present[lro[e].instance]
          /\ \A d1, d2 \in Devices : d1 # d2 /\ Holder(lro[d1]) /\ Holder(lro[d2])
               => lro[d1].instance # lro[d2].instance
      BY <2>7 DEF MarksOk
    <3>2. ASSUME NEW e \in Devices, Holder(lro'[e])
          PROVE  lro'[e].instance \in 0 .. MaxDevices - 1 /\ dev_present'[lro'[e].instance]
      BY <1>2, <2>2, <2>4, <2>6, <3>1, <3>2
    <3>3. ASSUME NEW e \in Devices, e # d, Holder(lro'[e]) PROVE lro'[e].instance # n
      BY <1>2, <2>2, <3>1, <3>3
    <3>4. ASSUME NEW d1 \in Devices, NEW d2 \in Devices, d1 # d2, Holder(lro'[d1]),
                 Holder(lro'[d2])
          PROVE  lro'[d1].instance # lro'[d2].instance
      BY <1>2, <2>4, <3>1, <3>3, <3>4
    <3> QED BY <3>2, <3>4 DEF MarksOk
  <2> QED BY <1>1, <2>5, <2>7
<1> QED BY <1>3, <1>4

\* create_sg_char succeeds.
LEMMA CharCreatedOk ==
  ASSUME IInv, NEW d \in Devices, CharCreated(d)
  PROVE  IInv'
<1>1. PICK l, m : l = NewInstance(d) /\ m = MinorOf(Interfaces[idx])
  OBVIOUS
<1>2. PICK l2 : l2 = [l EXCEPT !.char_dev = Append(@, m)]
  OBVIOUS
<1>3. /\ pc[d] = "interfaces" /\ pc[d] \in Steps /\ Wanted(lro[d], Interfaces[idx])
      /\ lro[d].major = 0 => FreeInstances # {}
      /\ lro' = [lro EXCEPT ![d] = l2]
      /\ held' = [held EXCEPT ![d] = held[d] \cup (Region(l) \cup {<<"char", m>>})]
      /\ double_free' = double_free
      /\ MarkPresent(d) /\ NextInterface(d)
  BY <1>1, <1>2 DEF CharCreated, InterfaceDue, Acquire, Steps
<1>4. /\ FlagsOk("interfaces", lro[d], card[d])
      /\ HeldOk("interfaces", lro[d], held[d], poll_mode)
      /\ LoopOk("interfaces", idx, lro[d], card[d])
      /\ CharsOk(lro[d]) /\ lro[d] \in Lros /\ held[d] \in SUBSET Resources
  BY <1>3, ProbingFacts
<1>5. /\ l \in Lros /\ SameButNumbers(lro[d], l) /\ l.char_dev = lro[d].char_dev
      /\ \A r \in Region(l) : r \in Resources /\ r[1] = "region"
  BY <1>1, <1>3, NewInstanceOk
<1>6. /\ SameButNumbers(lro[d], l2) /\ l2.char_dev = Append(lro[d].char_dev, m)
      /\ l2.instance = l.instance
  BY <1>2, <1>5 DEF SameButNumbers, Lros
<1>7. PICK p : AfterInterface(p, idx)
  BY DEF AfterInterface
<1>8. /\ FlagsOk(p, l2, card[d])
      /\ HeldOk(p, l2, held[d] \cup (Region(l) \cup {<<"char", m>>}), poll_mode)
      /\ LoopOk(p, idx + 1, l2, card[d]) /\ CharsOk(l2)
      /\ l2.char_dev \in Seq(0 .. 100)
      /\ m \in 0 .. 100
  <2>1. PICK R : R = Region(l) /\ \A r \in R : r[1] = "region"
    BY <1>5
  <2>2. PICK L, h, c, poll, i :
          L \in Lros /\ L = lro[d] /\ h = held[d] /\ c = card[d] /\ poll = poll_mode /\ i = idx
    BY <1>4
  <2>3. /\ FlagsOk("interfaces", L, c) /\ HeldOk("interfaces", L, h, poll)
        /\ LoopOk("interfaces", i, L, c) /\ CharsOk(L) /\ Wanted(L, Interfaces[i])
        /\ m = MinorOf(Interfaces[i]) /\ AfterInterface(p, i)
        /\ SameButNumbers(L, l2) /\ l2.char_dev = Append(L.char_dev, m)
    BY <1>1, <1>3, <1>4, <1>6, <1>7, <2>2
  <2>4. /\ FlagsOk(p, l2, c)
        /\ HeldOk(p, l2, h \cup (R \cup {<<"char", m>>}), poll)
        /\ LoopOk(p, i + 1, l2, c) /\ CharsOk(l2)
        /\ l2.char_dev \in Seq(0 .. 100) /\ l2.char_dev # <<>>
        /\ m \in 0 .. 100
    <3>1. CharMade(L, l2, poll, h, c, p, i, m, R)
      BY <2>1, <2>2, <2>3 DEF CharMade
    <3>2. CharKept(L, l2, poll, h, c, p, i, m, R)
      BY <3>1, CharOk
    <3> QED BY <3>2 DEF CharKept
  <2> QED BY <2>1, <2>2, <2>4
<1>9. l2 \in Lros
  <2>1. PICK s \in Seq(0 .. 100) : s = l2.char_dev /\ s = Append(l.char_dev, m)
    BY <1>5, <1>6, <1>8
  <2>2. l2 = [l EXCEPT !.char_dev = s]
    BY <1>2, <2>1
  <2> QED BY <1>5, <2>2 DEF Lros
<1>10. held[d] \cup (Region(l) \cup {<<"char", m>>}) \in SUBSET Resources
  <2>1. <<"char", m>> \in Resources
    BY <1>8 DEF Resources, Kinds
  <2> QED BY <1>4, <1>5, <2>1
<1>11. /\ dev_present' \in [0 .. MaxDevices - 1 -> BOOLEAN]
       /\ marks_lost \/ MarksOk'
  <2>1. l2.instance = NewInstance(d).instance
    BY <1>1, <1>6
  <2> QED BY <1>3, <2>1, NewMarks
<1> QED BY <1>3, <1>7, <1>8, <1>9, <1>10, <1>11, NextInterfaceOk

\* create_sg_char fails after it has taken the instance.
LEMMA CharNotAddedOk ==
  ASSUME IInv, NEW d \in Devices, CharNotAdded(d)
  PROVE  IInv'
<1>1. PICK l : l = NewInstance(d)
  OBVIOUS
<1>2. PICK R : R = Region(l)
  OBVIOUS
<1>3. PICK Q : /\ Q \subseteq R
               /\ held' = [held EXCEPT ![d] = (held[d] \cup R) \ Q]
  <2>1. PICK unregister \in BOOLEAN :
          held' = [held EXCEPT ![d] = (@ \cup Region(l)) \
                     When(MinorOf(Interfaces[idx]) = 0 /\ unregister, Region(l))]
    BY <1>1, Zenon DEF CharNotAdded
  <2>2. When(MinorOf(Interfaces[idx]) = 0 /\ unregister, Region(l)) \subseteq R
    BY <1>2 DEF When
  <2> QED BY <1>2, <2>1, <2>2
<1>4. /\ pc[d] = "interfaces" /\ pc[d] \in Steps
      /\ lro[d].major = 0 => FreeInstances # {}
      /\ InterfaceFails(d, l) /\ MarkPresent(d) /\ double_free' = double_free
  BY <1>1 DEF CharNotAdded, InterfaceDue, Steps
<1>5. lro' = [lro EXCEPT ![d] = l]
  BY <1>4 DEF InterfaceFails, GotoLabel
<1>6. /\ l \in Lros /\ SameButNumbers(lro[d], l) /\ l.char_dev = lro[d].char_dev
      /\ \A r \in Region(l) : r \in Resources /\ r[1] = "region"
  BY <1>1, <1>4, NewInstanceOk
<1>7. held[d] \in SUBSET Resources
  BY <1>4, ProbingFacts
<1>8. PICK h : h = (held[d] \cup R) \ Q
  OBVIOUS
<1>9. /\ h \in SUBSET Resources
      /\ \A r : r[1] # "region" => (r \in held[d] <=> r \in h)
      /\ held' = [held EXCEPT ![d] = h]
  BY <1>2, <1>3, <1>6, <1>7, <1>8
<1>10. /\ dev_present' \in [0 .. MaxDevices - 1 -> BOOLEAN]
       /\ marks_lost \/ MarksOk'
  <2>1. l.instance = NewInstance(d).instance
    BY <1>1
  <2> QED BY <1>4, <1>5, <2>1, NewMarks
<1> QED BY <1>4, <1>6, <1>9, <1>10, InterfaceFailsOk

\* The end of probe().
LEMMA FinishOk ==
  ASSUME IInv, NEW d \in Devices, Finish(d)
  PROVE  IInv'
<1>1. pc[d] = "finish" /\ pc[d] \in Steps
  BY DEF Finish, Steps
<1>2. /\ FlagsOk("finish", lro[d], card[d]) /\ HeldOk("finish", lro[d], held[d], poll_mode)
      /\ LoopOk("finish", idx, lro[d], card[d]) /\ TypeOK
      /\ CharsOk(lro[d]) /\ lro[d] \in Lros /\ idx \in Nat /\ held[d] \in SUBSET Resources
      /\ dev_present \in [0 .. MaxDevices - 1 -> BOOLEAN]
      /\ marks_lost \/ MarksOk
  BY <1>1, ProbingFacts
<1>3. ASSUME NEW S, S = {<<"interrupts", 0>>, <<"sysfs", 0>>},
             Proceed(d, "bound", lro[d], S), idx' = idx
      PROVE  IInv'
  <2>1. FlagsOk("bound", lro[d], card[d]) /\ HeldOk("bound", lro[d], held[d] \cup S, poll_mode)
    BY <1>2, <1>3, BoundOk
  <2>2. LoopOk("bound", idx', lro[d], card[d])
    BY <1>2 DEF LoopOk
  <2>3. S \in SUBSET Resources
    BY <1>3 DEF Resources, Kinds
  <2> QED BY <1>1, <1>2, <1>3, <2>1, <2>2, <2>3, ProceedOk
<1>4. ASSUME GotoLabel(d, <<>>, err_interfaces, lro[d]), Acquire(d, Only("interrupts")),
             dev_present' = dev_present
      PROVE  IInv'
  <2>1. SameParts(pc[d], lro[d], lro[d])
    BY <1>1, <1>2, SamePartsSelf
  <2>2. FailsTo(pc[d], err_interfaces, <<>>, lro[d], poll_mode)
    BY <1>1 DEF FailsTo, err_interfaces
  <2>3. PICK h : h = held[d] \cup {<<"interrupts", 0>>}
    OBVIOUS
  <2>4. h \in SUBSET Resources
    BY <1>2, <2>3 DEF Resources, Kinds
  <2>5. held' = [held EXCEPT ![d] = h] /\ double_free' = double_free
    BY <1>4, <2>3 DEF Acquire, Only
  <2>6. lro' = [lro EXCEPT ![d] = lro[d]]
    BY <1>4 DEF GotoLabel
  <2>7. marks_lost \/ MarksOk'
    BY <1>2, <1>4, <2>6, MarksSame
  <2> QED BY <1>1, <1>2, <1>4, <2>1, <2>2, <2>3, <2>4, <2>5, <2>7, FailOk
<1> QED BY <1>3, <1>4, Zenon DEF Finish

\* What is known of a device that is being released.
LEMMA ReleasingFacts ==
  ASSUME IInv, NEW d \in Devices, pc[d] \in ReleaseSteps
  PROVE  /\ UndoOk(undo, held[d], LeftOver(pc[d], at[d])) /\ LiveOk(held[d], at[d], card[d])
         /\ IsrOk(lro[d], held[d], undo)
         /\ LoopOk(pc[d], idx, lro[d], card[d]) /\ CharsOk(lro[d])
         /\ pc[d] \notin Resting /\ module # "out"
         /\ TypeOK /\ ~double_free /\ double_free \in BOOLEAN
         /\ marks_lost \/ MarksOk
         /\ lro[d] \in Lros /\ held[d] \in SUBSET Resources
         /\ at[d] \in Steps \cup {"none"} /\ pc[d] \in PCs
         /\ idx \in Nat /\ undo \in Seq(SUBSET Resources)
         /\ dev_present \in [0 .. MaxDevices - 1 -> BOOLEAN]
<1>1. DeviceOk(d) /\ TypeOK /\ ModuleOk /\ ~double_free /\ (marks_lost \/ MarksOk)
  BY DEF IInv
<1>2. /\ UndoOk(undo, held[d], LeftOver(pc[d], at[d])) /\ LiveOk(held[d], at[d], card[d])
      /\ IsrOk(lro[d], held[d], undo)
      /\ LoopOk(pc[d], idx, lro[d], card[d]) /\ CharsOk(lro[d])
  BY <1>1 DEF DeviceOk, StateOk
<1>3. pc[d] \notin Resting /\ pc[d] \notin {"unbound", "failed"} /\ pc[d] \in PCs
  BY DEF ReleaseSteps, Resting, PCs
<1>4. module # "out"
  BY <1>1, <1>3 DEF ModuleOk
<1> QED BY <1>1, <1>2, <1>3, <1>4 DEF TypeOK

\* remove() leaves the major number, whatever an earlier probe() left.
LEMMA LeftByRemove ==
  ASSUME NEW a
  PROVE  LeftOver("remove", a) = {"region"}
BY DEF LeftOver

\* remove() begins.
LEMMA RemoveOk ==
  ASSUME IInv, NEW d \in Devices, Remove(d)
  PROVE  IInv'
<1>1. /\ Idle /\ pc[d] = "bound" /\ undo' = RemoveOrder(lro[d])
      /\ pc' = [pc EXCEPT ![d] = "remove"]
      /\ UNCHANGED <<moduleVars, dev_present, card, idx, lro, held, at, double_free>>
  BY DEF Remove, Goto
<1>2. /\ DeviceOk(d) /\ TypeOK /\ ModuleOk /\ ~double_free
      /\ marks_lost \/ MarksOk
  BY DEF IInv
<1>3. /\ lro[d] \in Lros /\ held[d] \in SUBSET Resources /\ at[d] \in Steps \cup {"none"}
      /\ idx \in Nat /\ double_free \in BOOLEAN
      /\ dev_present \in [0 .. MaxDevices - 1 -> BOOLEAN]
  BY <1>2 DEF TypeOK
<1>4. /\ FlagsOk("bound", lro[d], card[d]) /\ HeldOk("bound", lro[d], held[d], poll_mode)
      /\ LoopOk("bound", idx, lro[d], card[d]) /\ CharsOk(lro[d])
  BY <1>1, <1>2 DEF DeviceOk, StateOk
<1>5. module # "out"
  BY <1>1, <1>2 DEF ModuleOk
<1>6. PICK u : u = RemovalOf(lro[d], poll_mode) /\ undo' = u
  BY <1>1, WithParameter
<1>7. u \in Seq(SUBSET Resources) /\ UndoOk(u, held[d], {"region"})
  BY <1>3, <1>4, <1>6, RemovalUndo
<1>8. LiveOk(held[d], at[d], card[d])
  BY <1>3, <1>4, LiveWhenProbed
<1>14. IsrOk(lro[d], held[d], u)
  BY <1>3, <1>4, <1>6, IsrWhenRemoved
<1>9. LoopOk("remove", idx, lro[d], card[d])
  BY <1>4 DEF LoopOk
<1>10. StateOk("remove", idx', lro[d], held[d], at[d], card[d], undo', poll_mode)
  <2>1. LeftOver("remove", at[d]) = {"region"}
    BY LeftByRemove
  <2>2. "remove" \notin NullSteps /\ "remove" \notin Steps \cup {"bound"}
    BY DEF NullSteps, Steps
  <2> QED BY <1>1, <1>4, <1>6, <1>7, <1>8, <1>9, <1>14, <2>1, <2>2 DEF StateOk
<1>11. Outcome(d, "remove", lro[d], held[d], at[d]) /\ lro' = [lro EXCEPT ![d] = lro[d]]
  <2>1. /\ lro = [lro EXCEPT ![d] = lro[d]] /\ held = [held EXCEPT ![d] = held[d]]
        /\ at = [at EXCEPT ![d] = at[d]]
    BY <1>2, ExceptSame DEF TypeOK
  <2> QED BY <1>1, <2>1 DEF Outcome, moduleVars
<1>12. marks_lost \/ MarksOk'
  BY <1>1, <1>2, <1>11, MarksSame
<1>13. "remove" \in PCs
  BY DEF PCs, ReleaseSteps
<1> QED BY <1>1, <1>2, <1>3, <1>5, <1>6, <1>7, <1>10, <1>11, <1>12, <1>13, StepOk

\* remove() of a device without an lro.
LEMMA RemoveNullOk ==
  ASSUME IInv, NEW d \in Devices, RemoveNull(d)
  PROVE  IInv'
<1>1. /\ Idle /\ pc[d] = "bound_null" /\ pc' = [pc EXCEPT ![d] = "unbound"]
      /\ UNCHANGED <<moduleVars, dev_present, card, idx, lro, undo, held, at, double_free>>
  BY DEF RemoveNull, Goto
<1>2. /\ DeviceOk(d) /\ TypeOK /\ ModuleOk /\ ~double_free
      /\ marks_lost \/ MarksOk
  BY DEF IInv
<1>3. /\ lro[d] \in Lros /\ held[d] \in SUBSET Resources /\ at[d] \in Steps \cup {"none"}
      /\ idx \in Nat /\ double_free \in BOOLEAN /\ undo \in Seq(SUBSET Resources)
      /\ dev_present \in [0 .. MaxDevices - 1 -> BOOLEAN]
  BY <1>2 DEF TypeOK
<1>4. NullOk("bound_null", lro[d], held[d], at[d])
  BY <1>1, <1>2 DEF DeviceOk, StateOk, NullSteps
<1>5. module # "out"
  BY <1>1, <1>2 DEF ModuleOk
<1>6. StateOk("unbound", idx', lro[d], held[d], at[d], card[d], undo', poll_mode)
  <2>1. NullOk("unbound", lro[d], held[d], at[d])
    BY <1>4 DEF NullOk, LeftOver
  <2>2. LoopOk("unbound", idx', NoLro, card[d]) /\ CharsOk(NoLro)
    BY NoLroOk
  <2>3. lro[d] = NoLro
    BY <2>1 DEF NullOk
  <2> QED BY <2>1, <2>2, <2>3 DEF StateOk, Steps, ReleaseSteps
<1>7. Outcome(d, "unbound", lro[d], held[d], at[d]) /\ lro' = [lro EXCEPT ![d] = lro[d]]
  <2>1. /\ lro = [lro EXCEPT ![d] = lro[d]] /\ held = [held EXCEPT ![d] = held[d]]
        /\ at = [at EXCEPT ![d] = at[d]]
    BY <1>2, ExceptSame DEF TypeOK
  <2> QED BY <1>1, <2>1 DEF Outcome, moduleVars
<1>8. marks_lost \/ MarksOk'
  BY <1>1, <1>2, <1>7, MarksSame
<1>9. "unbound" \in PCs
  BY DEF PCs, NullSteps
<1> QED BY <1>1, <1>2, <1>3, <1>5, <1>6, <1>7, <1>8, <1>9, StepOk

\* One release of a label or of remove().
LEMMA ReleaseNextOk ==
  ASSUME IInv, NEW d \in Devices, ReleaseNext(d)
  PROVE  IInv'
<1>1. /\ pc[d] \in ReleaseSteps /\ undo # <<>>
      /\ held' = [held EXCEPT ![d] = held[d] \ Head(undo)]
      /\ double_free' = (double_free \/ ~(Head(undo) \subseteq held[d]))
      /\ undo' = Tail(undo)
      /\ UNCHANGED <<moduleVars, dev_present, card, pc, idx, lro, at>>
  BY DEF ReleaseNext, ReleaseSteps
<1>2. /\ UndoOk(undo, held[d], LeftOver(pc[d], at[d])) /\ LiveOk(held[d], at[d], card[d])
      /\ IsrOk(lro[d], held[d], undo)
      /\ LoopOk(pc[d], idx, lro[d], card[d]) /\ CharsOk(lro[d])
      /\ pc[d] \notin Resting /\ module # "out"
      /\ TypeOK /\ ~double_free
      /\ marks_lost \/ MarksOk
      /\ lro[d] \in Lros /\ held[d] \in SUBSET Resources
      /\ at[d] \in Steps \cup {"none"} /\ pc[d] \in PCs
      /\ idx \in Nat /\ undo \in Seq(SUBSET Resources)
      /\ dev_present \in [0 .. MaxDevices - 1 -> BOOLEAN]
  BY <1>1, ReleasingFacts
<1>3. PICK h : h = held[d] \ Head(undo)
  OBVIOUS
<1>4. /\ Head(undo) \subseteq held[d] /\ Tail(undo) \in Seq(SUBSET Resources)
      /\ UndoOk(Tail(undo), h, LeftOver(pc[d], at[d])) /\ LiveOk(h, at[d], card[d])
  BY <1>1, <1>2, <1>3, ReleaseOk
<1>10. IsrOk(lro[d], h, Tail(undo))
  BY <1>1, <1>2, <1>3, IsrReleased
<1>5. double_free' \in BOOLEAN /\ ~double_free'
  BY <1>1, <1>2, <1>4
<1>6. StateOk(pc[d], idx', lro[d], h, at[d], card[d], undo', poll_mode)
  <2>1. pc[d] \notin NullSteps /\ pc[d] \notin Steps \cup {"bound"}
    BY <1>1 DEF ReleaseSteps, NullSteps, Steps
  <2> QED BY <1>1, <1>2, <1>4, <1>10, <2>1 DEF StateOk
<1>7. Outcome(d, pc[d], lro[d], h, at[d]) /\ lro' = [lro EXCEPT ![d] = lro[d]]
  <2>1. /\ lro = [lro EXCEPT ![d] = lro[d]] /\ pc = [pc EXCEPT ![d] = pc[d]]
        /\ at = [at EXCEPT ![d] = at[d]]
    BY <1>2, ExceptSame DEF TypeOK
  <2> QED BY <1>1, <1>3, <2>1 DEF Outcome, moduleVars
<1>8. marks_lost \/ MarksOk'
  BY <1>1, <1>2, <1>7, MarksSame
<1>9. h \in SUBSET Resources
  BY <1>2, <1>3
<1> QED BY <1>1, <1>2, <1>4, <1>5, <1>6, <1>7, <1>8, <1>9, StepOk

\* The lro is freed: what is left is what may be left.
LEMMA FreedOk ==
  ASSUME IInv, NEW d \in Devices, pc[d] \in ReleaseSteps, undo = <<>>, NEW p,
         \/ pc[d] = "undo" /\ p = "failed"
         \/ pc[d] = "remove" /\ p = "unbound",
         pc' = [pc EXCEPT ![d] = p], FreeLro(d),
         dev_present' \in [0 .. MaxDevices - 1 -> BOOLEAN], marks_lost \/ MarksOk'
  PROVE  IInv'
<1>1. /\ UndoOk(undo, held[d], LeftOver(pc[d], at[d]))
      /\ pc[d] \notin Resting /\ module # "out"
      /\ TypeOK /\ ~double_free /\ double_free \in BOOLEAN
      /\ held[d] \in SUBSET Resources /\ at[d] \in Steps \cup {"none"}
      /\ undo \in Seq(SUBSET Resources)
  BY ReleasingFacts
<1>2. /\ lro' = [lro EXCEPT ![d] = NoLro] /\ idx' = 1
      /\ UNCHANGED <<moduleVars, card, undo, held, at, double_free>>
  BY DEF FreeLro
<1>3. \A r \in held[d] : r[1] \in LeftOver(pc[d], at[d])
  BY <1>1 DEF UndoOk
<1>4. LeftOver(pc[d], at[d]) = LeftOver(p, at[d])
  BY DEF LeftOver
<1>5. StateOk(p, idx', NoLro, held[d], at[d], card[d], undo', poll_mode)
  <2>1. LoopOk(p, idx', NoLro, card[d]) /\ CharsOk(NoLro)
    BY NoLroOk
  <2>2. NullOk(p, NoLro, held[d], at[d])
    BY <1>3, <1>4 DEF NullOk
  <2> QED BY <2>1, <2>2 DEF StateOk, Steps, ReleaseSteps
<1>6. Outcome(d, p, NoLro, held[d], at[d])
  <2>1. held = [held EXCEPT ![d] = held[d]] /\ at = [at EXCEPT ![d] = at[d]]
    BY <1>1, ExceptSame DEF TypeOK
  <2> QED BY <1>2, <2>1 DEF Outcome, moduleVars
<1>7. p \in PCs /\ idx' \in Nat
  BY <1>2 DEF PCs, NullSteps
<1>8. NoLro \in Lros
  <2>1. <<>> \in Seq(0 .. 100)
    OBVIOUS
  <2> QED BY <2>1 DEF NoLro, Lros
<1> QED BY <1>1, <1>2, <1>5, <1>6, <1>7, <1>8, StepOk

\* probe() returns an error.
LEMMA ProbeReturnsOk ==
  ASSUME IInv, NEW d \in Devices, ProbeReturns(d)
  PROVE  IInv'
<1>1. /\ pc[d] = "undo" /\ pc[d] \in ReleaseSteps /\ undo = <<>>
      /\ pc' = [pc EXCEPT ![d] = "failed"] /\ dev_present' = dev_present /\ FreeLro(d)
  BY DEF ProbeReturns, Goto, ReleaseSteps
<1>2. /\ TypeOK /\ dev_present \in [0 .. MaxDevices - 1 -> BOOLEAN]
      /\ marks_lost \/ MarksOk
  BY <1>1, ReleasingFacts
<1>3. lro' = [lro EXCEPT ![d] = NoLro]
  BY <1>1 DEF FreeLro
<1>4. ~Holder(NoLro)
  BY DEF Holder, NoLro
<1>5. marks_lost \/ MarksOk'
  BY <1>1, <1>2, <1>3, <1>4, MarksSame
<1> QED BY <1>1, <1>2, <1>5, FreedOk

\* remove() returns: the mark that is cleared is the device's own.
LEMMA RemoveReturnsOk ==
  ASSUME IInv, NEW d \in Devices, RemoveReturns(d)
  PROVE  IInv'
<1>1. /\ pc[d] = "remove" /\ pc[d] \in ReleaseSteps /\ undo = <<>>
      /\ pc' = [pc EXCEPT ![d] = "unbound"]
      /\ dev_present' = [dev_present EXCEPT ![lro[d].instance] = FALSE] /\ FreeLro(d)
  BY DEF RemoveReturns, Goto, ReleaseSteps
<1>2. /\ TypeOK /\ dev_present \in [0 .. MaxDevices - 1 -> BOOLEAN]
      /\ LoopOk(pc[d], idx, lro[d], card[d])
      /\ marks_lost \/ MarksOk
  BY <1>1, ReleasingFacts
<1>3. lro' = [lro EXCEPT ![d] = NoLro]
  BY <1>1 DEF FreeLro
<1>4. lro'[d] = NoLro /\ \A e \in Devices : e # d => lro'[e] = lro[e]
  BY <1>2, <1>3 DEF TypeOK
<1>5. Holder(lro[d]) /\ ~Holder(NoLro)
  BY <1>1, <1>2 DEF LoopOk, Holder, NoLro
<1>6. dev_present' \in [0 .. MaxDevices - 1 -> BOOLEAN]
  BY <1>1, <1>2
<1>7. ASSUME MarksOk PROVE MarksOk'
  <2>1. /\ \A e \in Devices : Holder(lro[e]) =>
             lro[e].instance \in 0 .. MaxDevices - 1 /\ dev_present[lro[e].instance]
        /\ \A d1, d2 \in Devices : d1 # d2 /\ Holder(lro[d1]) /\ Holder(lro[d2])
             => lro[d1].instance # lro[d2].instance
    BY <1>7 DEF MarksOk
  <2>2. ASSUME NEW e \in Devices, Holder(lro'[e])
        PROVE  lro'[e].instance \in 0 .. MaxDevices - 1 /\ dev_present'[lro'[e].instance]
    <3>1. e # d /\ lro'[e] = lro[e]
      BY <1>4, <1>5, <2>2
    <3>2. lro[e].instance # lro[d].instance
      BY <2>1, <2>2, <3>1, <1>5
    <3> QED BY <1>1, <1>2, <2>1, <2>2, <3>1, <3>2
  <2>3. ASSUME NEW d1 \in Devices, NEW d2 \in Devices, d1 # d2, Holder(lro'[d1]),
               Holder(lro'[d2])
        PROVE  lro'[d1].instance # lro'[d2].instance
    BY <1>4, <1>5, <2>1, <2>3
  <2> QED BY <2>2, <2>3 DEF MarksOk
<1> QED BY <1>1, <1>2, <1>6, <1>7, FreedOk

\* Without an lro the module parameter does not matter.
LEMMA AnyParameter ==
  ASSUME NEW p \in NullSteps, NEW i, NEW l, NEW h, NEW a, NEW c, NEW u, NEW poll, NEW poll2,
         StateOk(p, i, l, h, a, c, u, poll)
  PROVE  StateOk(p, i, l, h, a, c, u, poll2)
<1>1. p \notin Steps \cup {"bound"} /\ p \notin ReleaseSteps
  BY DEF NullSteps, Steps, ReleaseSteps
<1> QED BY <1>1 DEF StateOk

\* Nobody holds an instance: nothing is to be marked.
LEMMA NoHolders ==
  ASSUME \A d \in Devices : ~Holder(lro'[d])
  PROVE  MarksOk'
BY DEF MarksOk

\* The marks and the instances are as they were.
LEMMA MarksFrame ==
  ASSUME MarksOk, lro' = lro, dev_present' = dev_present
  PROVE  MarksOk'
BY DEF MarksOk

\* xdma_init begins.
LEMMA LoadOk ==
  ASSUME IInv, Load
  PROVE  IInv'
<1>1. /\ module = "out" /\ module' = "loading" /\ poll_mode' \in BOOLEAN
      /\ UNCHANGED <<dev_present, card, pc, idx, lro, undo, held, at, double_free, marks_lost>>
  BY DEF Load
<1>2. /\ TypeOK /\ OneAtATime /\ ModuleOk /\ ~double_free
      /\ \A d \in Devices : DeviceOk(d)
      /\ marks_lost \/ MarksOk
  BY DEF IInv
<1>3. TypeOK'
  BY <1>1, <1>2 DEF TypeOK
<1>4. OneAtATime' /\ ModuleOk' /\ ~double_free'
  BY <1>1, <1>2 DEF OneAtATime, ModuleOk
<1>5. (marks_lost \/ MarksOk)'
  BY <1>1, <1>2, MarksFrame
<1>6. ASSUME NEW d \in Devices PROVE DeviceOk(d)'
  <2>1. pc[d] \in NullSteps
    BY <1>1, <1>2 DEF ModuleOk, NullSteps
  <2>2. StateOk(pc[d], idx, lro[d], held[d], at[d], card[d], undo, poll_mode)
    BY <1>2 DEF DeviceOk
  <2>3. StateOk(pc[d], idx, lro[d], held[d], at[d], card[d], undo, poll_mode')
    BY <2>1, <2>2, AnyParameter
  <2> QED BY <1>1, <2>3 DEF DeviceOk
<1> QED BY <1>3, <1>4, <1>5, <1>6 DEF IInv

\* xdma_init returns, having cleared the marks.
LEMMA InitReturnsOk ==
  ASSUME IInv, InitReturns
  PROVE  IInv'
<1>1. /\ module = "loading" /\ module' = "loaded" /\ dev_present' = NoMarks
      /\ marks_lost' = (dev_present # NoMarks)
      /\ UNCHANGED <<poll_mode, card, pc, idx, lro, undo, held, at, double_free>>
  BY DEF InitReturns
<1>2. /\ TypeOK /\ OneAtATime /\ ModuleOk /\ ~double_free
      /\ \A d \in Devices : DeviceOk(d)
      /\ marks_lost \/ MarksOk
  BY DEF IInv
<1>3. dev_present' \in [0 .. MaxDevices - 1 -> BOOLEAN] /\ marks_lost' \in BOOLEAN
  BY <1>1 DEF NoMarks
<1>4. TypeOK'
  <2>1. marks_lost' \in BOOLEAN /\ dev_present' \in [0 .. MaxDevices - 1 -> BOOLEAN]
    BY <1>3
  <2>2. /\ module' = "loaded"
        /\ UNCHANGED <<poll_mode, card, pc, idx, lro, undo, held, at, double_free>>
    BY <1>1
  <2> QED BY <1>2, <2>1, <2>2 DEF TypeOK
<1>5. OneAtATime' /\ ModuleOk' /\ ~double_free'
  BY <1>1, <1>2 DEF OneAtATime, ModuleOk
<1>6. ASSUME dev_present = NoMarks PROVE MarksOk'
  <2>1. MarksOk
    BY <1>1, <1>2 DEF ModuleOk
  <2>2. \A d \in Devices : ~Holder(lro[d])
    BY <1>6, <2>1 DEF MarksOk, NoMarks
  <2>3. \A d \in Devices : ~Holder(lro'[d])
    BY <1>1, <2>2
  <2> QED BY <2>3, NoHolders
<1>7. (marks_lost \/ MarksOk)'
  BY <1>1, <1>6
<1>8. \A d \in Devices : DeviceOk(d)'
  BY <1>1, <1>2 DEF DeviceOk
<1> QED BY <1>4, <1>5, <1>7, <1>8 DEF IInv

\* xdma_exit begins.
LEMMA ExitBeginsOk ==
  ASSUME IInv, ExitBegins
  PROVE  IInv'
<1>1. /\ module' = "unloading"
      /\ UNCHANGED <<poll_mode, dev_present, card, pc, idx, lro, undo, held, at, double_free,
                     marks_lost>>
  BY DEF ExitBegins
<1>2. /\ TypeOK /\ OneAtATime /\ ~double_free
      /\ \A d \in Devices : DeviceOk(d)
      /\ marks_lost \/ MarksOk
  BY DEF IInv
<1>3. TypeOK'
  BY <1>1, <1>2 DEF TypeOK
<1>4. OneAtATime' /\ ModuleOk' /\ ~double_free'
  BY <1>1, <1>2 DEF OneAtATime, ModuleOk
<1>5. (marks_lost \/ MarksOk)'
  BY <1>1, <1>2, MarksFrame
<1>6. \A d \in Devices : DeviceOk(d)'
  BY <1>1, <1>2 DEF DeviceOk
<1> QED BY <1>3, <1>4, <1>5, <1>6 DEF IInv

\* The module is gone.
LEMMA ExitReturnsOk ==
  ASSUME IInv, ExitReturns
  PROVE  IInv'
<1>1. /\ \A d \in Devices : pc[d] \in {"unbound", "failed"}
      /\ module' = "out" /\ dev_present' = NoMarks
      /\ UNCHANGED <<card, pc, idx, lro, undo, held, at, double_free>>
  BY DEF ExitReturns
<1>2. poll_mode' \in BOOLEAN /\ marks_lost' \in BOOLEAN /\ ~marks_lost'
  BY DEF ExitReturns
<1>3. /\ TypeOK /\ OneAtATime /\ ~double_free
      /\ \A d \in Devices : DeviceOk(d)
  BY DEF IInv
<1>4. TypeOK'
  <2>1. dev_present' \in [0 .. MaxDevices - 1 -> BOOLEAN]
    BY <1>1 DEF NoMarks
  <2>2. /\ module' = "out"
        /\ UNCHANGED <<card, pc, idx, lro, undo, held, at, double_free>>
    BY <1>1
  <2> QED BY <1>2, <1>3, <2>1, <2>2 DEF TypeOK
<1>5. OneAtATime' /\ ModuleOk' /\ ~double_free'
  BY <1>1, <1>2, <1>3 DEF OneAtATime, ModuleOk
<1>6. ASSUME NEW d \in Devices
      PROVE  /\ pc[d] \in NullSteps
             /\ StateOk(pc[d], idx, lro[d], held[d], at[d], card[d], undo, poll_mode)
  BY <1>1, <1>3 DEF NullSteps, DeviceOk
<1>7. MarksOk'
  <2>1. \A d \in Devices : lro[d] = NoLro
    BY <1>6 DEF StateOk, NullOk
  <2>2. \A d \in Devices : ~Holder(lro'[d])
    BY <1>1, <2>1 DEF Holder, NoLro
  <2> QED BY <2>2, NoHolders
<1>8. ASSUME NEW d \in Devices PROVE DeviceOk(d)'
  <2>1. StateOk(pc[d], idx, lro[d], held[d], at[d], card[d], undo, poll_mode')
    BY <1>6, AnyParameter
  <2> QED BY <1>1, <2>1 DEF DeviceOk
<1> QED BY <1>4, <1>5, <1>7, <1>8 DEF IInv

\* Nothing happens.
LEMMA StutterOk ==
  ASSUME IInv, UNCHANGED vars
  PROVE  IInv'
<1>1. UNCHANGED <<module, poll_mode, marks_lost, dev_present, card, pc, idx, lro, undo, held,
                  at, double_free>>
  BY DEF vars, moduleVars
<1>2. /\ TypeOK /\ OneAtATime /\ ModuleOk /\ ~double_free
      /\ \A d \in Devices : DeviceOk(d)
      /\ marks_lost \/ MarksOk
  BY DEF IInv
<1>3. TypeOK'
  BY <1>1, <1>2 DEF TypeOK
<1>4. OneAtATime' /\ ModuleOk' /\ ~double_free'
  BY <1>1, <1>2 DEF OneAtATime, ModuleOk
<1>5. (marks_lost \/ MarksOk)'
  BY <1>1, <1>2, MarksFrame
<1>6. \A d \in Devices : DeviceOk(d)'
  BY <1>1, <1>2 DEF DeviceOk
<1> QED BY <1>3, <1>4, <1>5, <1>6 DEF IInv

\* Before the module is loaded.
LEMMA InitOk ==
  ASSUME Init
  PROVE  IInv
<1>1. /\ module = "out" /\ dev_present = NoMarks
      /\ pc = [d \in Devices |-> "unbound"] /\ idx = 1
      /\ lro = [d \in Devices |-> NoLro] /\ undo = <<>>
      /\ held = [d \in Devices |-> {}] /\ at = [d \in Devices |-> "none"]
  BY DEF Init
<1>2. /\ poll_mode \in BOOLEAN /\ double_free \in BOOLEAN /\ marks_lost \in BOOLEAN
      /\ ~double_free /\ ~marks_lost
  BY DEF Init
<1>3. card \in [Devices -> CardType]
  <2>1. /\ card \in [Devices -> UNION {Cards[d] : d \in Devices}]
        /\ \A d \in Devices : card[d] \in Cards[d]
    BY Zenon DEF Init
  <2>2. Cards \in [Devices -> SUBSET CardType]
    BY CardsAssumption DEF CardType
  <2>3. \A d \in Devices : card[d] \in CardType
    BY <2>1, <2>2
  <2> QED BY <2>1, <2>3
<1>4. NoLro \in Lros
  <2>1. <<>> \in Seq(0 .. 100)
    OBVIOUS
  <2> QED BY <2>1 DEF NoLro, Lros
<1>5. TypeOK
  <2>1. dev_present \in [0 .. MaxDevices - 1 -> BOOLEAN]
    BY <1>1 DEF NoMarks
  <2>2. /\ pc \in [Devices -> Steps \cup NullSteps \cup ReleaseSteps \cup {"bound"}]
        /\ at \in [Devices -> Steps \cup {"none"}]
    BY <1>1 DEF NullSteps
  <2>3. lro \in [Devices -> Lros] /\ held \in [Devices -> SUBSET Resources]
    BY <1>1, <1>4
  <2>4. undo \in Seq(SUBSET Resources) /\ idx \in Nat
    BY <1>1
  <2>5. module \in {"out", "loading", "loaded", "unloading"}
    BY <1>1
  <2> QED BY <1>2, <1>3, <2>1, <2>2, <2>3, <2>4, <2>5 DEF TypeOK
<1>6. OneAtATime /\ ModuleOk
  BY <1>1, <1>2 DEF OneAtATime, ModuleOk, Resting
<1>7. MarksOk
  BY <1>1 DEF MarksOk, Holder, NoLro
<1>8. ASSUME NEW d \in Devices PROVE DeviceOk(d)
  <2>1. pc[d] = "unbound" /\ lro[d] = NoLro /\ held[d] = {}
    BY <1>1
  <2>2. NullOk("unbound", NoLro, {}, at[d])
    BY DEF NullOk
  <2>3. LoopOk("unbound", idx, NoLro, card[d]) /\ CharsOk(NoLro)
    BY NoLroOk
  <2>4. StateOk("unbound", idx, NoLro, {}, at[d], card[d], undo, poll_mode)
    BY <2>2, <2>3 DEF StateOk, Steps, ReleaseSteps
  <2> QED BY <2>1, <2>4 DEF DeviceOk
<1> QED BY <1>2, <1>5, <1>6, <1>7, <1>8 DEF IInv

\* Every step preserves the invariant.
LEMMA NextOk ==
  ASSUME IInv, [Next]_vars
  PROVE  IInv'
<1>1. ASSUME NEW d \in Devices,
             \/ AllocDevInstance(d) \/ AllocFails(d) \/ EnableDevice(d)
             \/ ProbeScanForMsi(d) \/ RequestRegions(d) \/ MapBars(d) \/ SetDmaMask(d)
             \/ IrqSetup(d) \/ ProbeEngine(d)
      PROVE  IInv'
  BY <1>1, AllocDevInstanceOk, AllocFailsOk, EnableDeviceOk, ProbeScanForMsiOk,
     RequestRegionsOk, MapBarsOk, SetDmaMaskOk, IrqSetupOk, ProbeEngineOk
<1>2. ASSUME NEW d \in Devices,
             \/ SkipInterface(d) \/ CharNotAllocated(d) \/ CharCreated(d)
             \/ CharNotAdded(d) \/ Finish(d) \/ Remove(d) \/ RemoveNull(d)
             \/ ReleaseNext(d) \/ ProbeReturns(d) \/ RemoveReturns(d)
      PROVE  IInv'
  BY <1>2, SkipInterfaceOk, CharNotAllocatedOk, CharCreatedOk, CharNotAddedOk, FinishOk,
     RemoveOk, RemoveNullOk, ReleaseNextOk, ProbeReturnsOk, RemoveReturnsOk
<1> QED
  BY <1>1, <1>2, LoadOk, InitReturnsOk, ExitBeginsOk, ExitReturnsOk, StutterOk DEF Next

-----------------------------------------------------------------------------
(***************************************************************************)
(* What the invariant implies.                                             *)
(***************************************************************************)

\* Between any two steps, whatever can be entered finds what it uses.
LEMMA LiveFollows ==
  ASSUME IInv
  PROVE  LiveWhileReachable
<1>1. ASSUME NEW d \in Devices PROVE LiveOk(held[d], at[d], card[d])
  <2>1. /\ StateOk(pc[d], idx, lro[d], held[d], at[d], card[d], undo, poll_mode)
        /\ lro[d] \in Lros
        /\ pc[d] \in Steps \cup NullSteps \cup ReleaseSteps \cup {"bound"}
    BY DEF IInv, DeviceOk, TypeOK
  <2>2. CASE pc[d] \in NullSteps
    <3>1. \A r \in held[d] : r[1] \in LeftOver(pc[d], at[d])
      BY <2>1, <2>2 DEF StateOk, NullOk
    <3> QED BY <3>1, LiveWhenNull
  <2>3. CASE pc[d] \in Steps \cup {"bound"}
    <3>1. /\ FlagsOk(pc[d], lro[d], card[d]) /\ HeldOk(pc[d], lro[d], held[d], poll_mode)
          /\ CharsOk(lro[d])
      BY <2>1, <2>3 DEF StateOk
    <3> QED BY <2>1, <3>1, LiveWhenProbed
  <2>4. CASE pc[d] \in ReleaseSteps
    BY <2>1, <2>4 DEF StateOk
  <2> QED BY <2>1, <2>2, <2>3, <2>4
<1>2. ASSUME NEW d \in Devices, <<"irq", 0>> \in held[d]
      PROVE  (\A e \in lro[d].engine : <<"engine", e>> \in held[d]) \/ IrqTeardownNext(d)
  <2>1. /\ StateOk(pc[d], idx, lro[d], held[d], at[d], card[d], undo, poll_mode)
        /\ pc[d] \in Steps \cup NullSteps \cup ReleaseSteps \cup {"bound"}
    BY DEF IInv, DeviceOk, TypeOK
  <2>2. CASE pc[d] \in NullSteps
    <3>1. lro[d] = NoLro
      BY <2>1, <2>2 DEF StateOk, NullOk
    <3> QED BY <3>1 DEF NoLro
  <2>3. CASE pc[d] \in Steps \cup {"bound"}
    <3>1. HeldOk(pc[d], lro[d], held[d], poll_mode)
      BY <2>1, <2>3 DEF StateOk
    <3> QED BY <3>1, EnginesHeld
  <2>4. CASE pc[d] \in ReleaseSteps
    <3>1. IsrOk(lro[d], held[d], undo)
      BY <2>1, <2>4 DEF StateOk
    <3> QED BY <1>2, <2>4, <3>1 DEF IsrOk, IrqTeardownNext, ReleaseSteps
  <2> QED BY <2>1, <2>2, <2>3, <2>4
<1> QED BY <1>1, <1>2 DEF LiveOk, LiveWhileReachable, DeviceLive, Has

\* A device at rest has no more than what may be left.
LEMMA UndoFollows ==
  ASSUME IInv
  PROVE  UndoReleases
<1> SUFFICES ASSUME NEW d \in Devices, pc[d] \in {"unbound", "failed"}, NEW r \in held[d]
             PROVE  r[1] \in MayBeLeft(d)
  BY DEF UndoReleases
<1>1. r[1] \in LeftOver(pc[d], at[d])
  BY DEF IInv, DeviceOk, StateOk, NullOk, NullSteps
<1>2. LeftOver(pc[d], at[d]) = MayBeLeft(d)
  BY DEF LeftOver, MayBeLeft
<1> QED BY <1>1, <1>2

\* Devices with interfaces hold their instances.
LEMMA InstanceFollows ==
  ASSUME IInv
  PROVE  InstanceUnique
BY DEF IInv, MarksOk, Holder, InstanceUnique

\* Max finds the greatest number of a set that has one.
LEMMA MaxIs ==
  ASSUME NEW S, S \subseteq Nat, NEW n \in S, \A k \in S : k <= n
  PROVE  Max(S) = n
<1>1. PICK m \in S : m = Max(S) /\ \A k \in S : m >= k
  BY DEF Max
<1> QED BY <1>1

\* Among devices in ascending order the last one that covers a minor is the
\* one that begins with it.
LEMMA OpenedIs ==
  ASSUME NEW l \in Lros, CharsOk(l), NEW i \in DOMAIN l.char_dev
  PROVE  OpenedBy(l, l.char_dev[i]) = i
<1>1. PICK s \in Seq(0 .. 100), n \in Nat : s = l.char_dev /\ n = Len(s) /\ DOMAIN s = 1 .. n
  BY DEF Lros
<1>2. \A k \in 1 .. n : s[k] \in 0 .. 100
  BY <1>1, SeqElements
<1>3. \A j, k \in 1 .. n : j < k => s[j] < s[k]
  BY <1>1 DEF CharsOk
<1>4. PICK S : S = {k \in 1 .. n : s[i] \in s[k] .. s[k] + 254}
  OBVIOUS
<1>5. PICK m \in 0 .. 100 : m = s[i]
  BY <1>1, <1>2
<1>6. i \in S
  <2>1. m \in m .. m + 254
    OBVIOUS
  <2> QED BY <1>1, <1>4, <1>5, <2>1
<1>7. ASSUME NEW k \in S PROVE k <= i
  <2>1. k \in 1 .. n /\ i \in 1 .. n /\ m \in s[k] .. s[k] + 254
    BY <1>1, <1>4, <1>5
  <2>2. PICK x \in 0 .. 100 : x = s[k]
    BY <1>2, <2>1
  <2>3. x <= m
    BY <2>1, <2>2, <1>5
  <2>4. i < k => m < x
    BY <1>3, <1>5, <2>1, <2>2
  <2> QED BY <2>1, <2>2, <2>3, <2>4, <1>5
<1>8. S \subseteq Nat
  BY <1>1, <1>4
<1>9. Max(S) = i
  BY <1>6, <1>7, <1>8, MaxIs
<1> QED BY <1>1, <1>4, <1>9 DEF OpenedBy

\* Every node opens its device.
LEMMA NodeFollows ==
  ASSUME IInv
  PROVE  NodeOpensItsDevice
<1>1. \A d \in Devices : lro[d] \in Lros /\ CharsOk(lro[d])
  BY DEF IInv, TypeOK, DeviceOk, StateOk
<1> QED BY <1>1, OpenedIs DEF NodeOpensItsDevice

-----------------------------------------------------------------------------
(***************************************************************************)
(* The theorems.                                                           *)
(***************************************************************************)

\* The inductive invariant of probe(), its labels and remove().
THEOREM Inductive == Spec => []IInv
<1>1. Init => IInv
  BY InitOk
<1>2. IInv /\ [Next]_vars => IInv'
  BY NextOk
<1> QED BY <1>1, <1>2, PTL DEF Spec

\* Neither a label of probe() nor remove() releases what is not held, for
\* any cards and any failure.
THEOREM NoDoubleReleaseHolds == Spec => []NoDoubleRelease
<1>1. IInv => NoDoubleRelease
  BY DEF IInv, NoDoubleRelease
<1> QED BY <1>1, Inductive, PTL

\* Interrupt handlers, device nodes and enabled interrupts find what they
\* use between any two steps of probe() and remove(); the engines xdma_isr
\* reads are gone only between remove_engines and irq_teardown, which is the
\* next release.  (Exempt, as in the property: what a failed C2H engine and a
\* failed device_create_file leave behind.)
THEOREM LiveWhileReachableHolds == Spec => []LiveWhileReachable
<1>1. IInv => LiveWhileReachable
  BY LiveFollows
<1> QED BY <1>1, Inductive, PTL

\* remove() leaves nothing but the major number, a failed probe() what its
\* label does not cover.
THEOREM UndoReleasesHolds == Spec => []UndoReleases
<1>1. IInv => UndoReleases
  BY UndoFollows
<1> QED BY <1>1, Inductive, PTL

\* No two devices with interfaces share an instance, unless xdma_init
\* cleared marks.
THEOREM InstanceUniqueHolds == Spec => []InstanceUnique
<1>1. IInv => InstanceUnique
  BY InstanceFollows
<1> QED BY <1>1, Inductive, PTL

\* Opening a node opens the device it was created for, for any number of
\* channels and user interrupts.
THEOREM NodeOpensItsDeviceHolds == Spec => []NodeOpensItsDevice
<1>1. IInv => NodeOpensItsDevice
  BY NodeFollows
<1> QED BY <1>1, Inductive, PTL
=============================================================================
