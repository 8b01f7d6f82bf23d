---------------------------- MODULE SgPollProofs ----------------------------
(***************************************************************************)
(* read() and write() in poll mode, for any number of threads and any      *)
(* requests: the types, the bookkeeping of the transfer list, and what a   *)
(* request that has the engine for itself can rely on.                     *)
(***************************************************************************)
EXTENDS SgPoll, TLAPS, WellFoundedInduction

\* The loop of transfer_data in thread t.
ThreadInv ==
  \A t \in Threads :
    /\ pc[t] = "idle" => left[t] >= 1 /\ chunk[t] + left[t] <= MaxChunks
    /\ pc[t] \in {"poll", "service", "check"} =>
         left[t] >= 1 /\ chunk[t] >= 1 /\ chunk[t] + left[t] <= MaxChunks + 1

\* The transfers created so far are those up to chunk[t].
CreatedInv ==
  \A x \in Transfers :
    /\ state[x] = "none" <=> x[2] > chunk[x[1]]
    /\ state[x] # "none" => desc_num[x] >= 1
    /\ x \in destroyed => state[x] # "none"

\* What is on the list: every transfer once, waiting or failed, and freed by its
\* owner only after it failed.
ListInv ==
  /\ \A j, k \in DOMAIN transfer_list :
       transfer_list[j] = transfer_list[k] => j = k
  /\ \A j \in DOMAIN transfer_list :
       /\ state[transfer_list[j]] \in {"submitted", "failed"}
       /\ transfer_list[j] \in destroyed => state[transfer_list[j]] = "failed"

\* The engine.
HwInv ==
  /\ hw_transfer # None => state[hw_transfer] # "none"
  /\ busy => hw_transfer # None /\ hw_count < desc_num[hw_transfer]

\* The engine works on the head of the list.
InStep ==
  IF running
  THEN /\ transfer_list # <<>> /\ hw_transfer = Head(transfer_list)
       /\ desc_dequeued = 0 /\ hw_count <= desc_num[hw_transfer]
  ELSE transfer_list = <<>>

\* A failed transfer is off the list: it stays failed.
LostOne == \E x \in Transfers :
             /\ state[x] = "failed"
             /\ \A j \in DOMAIN transfer_list : transfer_list[j] # x

StepInv == bug \/ LostOne \/ InStep

\* A thread that has the engine for itself: nothing is left over from an earlier
\* transfer when the next one is submitted, and while it waits its transfer is
\* the only one, with no more descriptors reported than are executed.
Quiet == ~running /\ transfer_list = <<>> /\ ~busy /\ wb = NoWb

Waiting(t) ==
  /\ running /\ transfer_list = <<Own(t)>> /\ hw_transfer = Own(t)
  /\ desc_dequeued = 0
  /\ wb.count <= hw_count /\ hw_count <= desc_num[Own(t)]
  /\ hw_count = desc_num[Own(t)] => Own(t) \in executed

AloneInv ==
  \A t \in Threads : Alone(t) =>
    /\ ~bug
    /\ pc[t] \in {"idle", "ok"} => Quiet
    /\ pc[t] \in {"poll", "service"} => Waiting(t)
    /\ pc[t] = "service" => desc_wb[t].count <= hw_count
    /\ pc[t] = "check" => \/ state[Own(t)] = "failed"
                          \/ state[Own(t)] = "completed" /\ Quiet /\ Own(t) \in executed
    /\ pc[t] \in {"idle", "poll", "service", "check", "ok"} =>
         \A k \in 1 .. chunk[t] :
           k < chunk[t] \/ pc[t] \in {"idle", "ok"} => <<t, k>> \in executed

IInv == TypeOK /\ ThreadInv /\ CreatedInv /\ ListInv /\ HwInv /\ StepInv /\ AloneInv

-----------------------------------------------------------------------------
(***************************************************************************)
(* Sums and parts of the list.                                             *)
(***************************************************************************)
\* The least number of a set of naturals; with it, induction.
LEMMA LeastNat ==
  ASSUME NEW T, T \subseteq Nat, T # {}
  PROVE  \E x \in T : \A y \in T : x <= y
<1> DEFINE R == OpToRel(<, Nat)
<1>1. \A x, y \in Nat : x < y => <<x, y>> \in R
  BY DEF OpToRel
<1>2. IsWellFoundedOn(R, Nat)
  BY NatLessThanWellFounded
<1> HIDE DEF R
<1>3. PICK x \in T : \A y \in T : ~(<<y, x>> \in R)
  BY <1>2, WFMin
<1>4. \A y \in T : ~(y < x)
  BY <1>1, <1>3
<1> QED BY <1>4

\* f holds the sums of d.
Sums(f, d, n) == f = [k \in 0 .. n |-> IF k = 0 THEN 0 ELSE f[k - 1] + d[k]]

\* There are such sums for every d, by least counterexample.
LEMMA SumsExist ==
  ASSUME NEW n \in Nat, NEW d
  PROVE  \E f : Sums(f, d, n)
<1> DEFINE T == {m \in Nat : ~\E f : Sums(f, d, m)}
<1> SUFFICES ASSUME T # {} PROVE FALSE
  OBVIOUS
<1>1. PICK m \in T : \A y \in T : m <= y
  <2>1. T \subseteq Nat
    OBVIOUS
  <2> HIDE DEF T
  <2> QED BY <2>1, LeastNat
<1>2. m \in Nat /\ ~\E f : Sums(f, d, m)
  OBVIOUS
<1>3. CASE m = 0
  <2> DEFINE g == [k \in 0 .. 0 |-> 0]
  <2>1. g = [k \in 0 .. 0 |-> IF k = 0 THEN 0 ELSE g[k - 1] + d[k]]
    OBVIOUS
  <2>2. Sums(g, d, m)
    BY <1>3, <2>1 DEF Sums
  <2> QED BY <1>2, <2>2
<1>4. CASE m # 0
  <2>1. m - 1 \in Nat /\ ~(m <= m - 1)
    BY <1>2, <1>4
  <2>2. m - 1 \notin T
    <3> HIDE DEF T
    <3> QED BY <1>1, <2>1
  <2>3. PICK f : Sums(f, d, m - 1)
    BY <2>1, <2>2
  <2>4. f = [k \in 0 .. m - 1 |-> IF k = 0 THEN 0 ELSE f[k - 1] + d[k]]
    BY <2>3 DEF Sums
  <2> DEFINE g == [k \in 0 .. m |-> IF k = m THEN f[m - 1] + d[m] ELSE f[k]]
  <2>5. \A k \in 0 .. m - 1 : g[k] = f[k]
    BY <1>2
  <2>6. \A k \in 0 .. m : g[k] = IF k = 0 THEN 0 ELSE g[k - 1] + d[k]
    <3> TAKE k \in 0 .. m
    <3>1. CASE k = m
      <4>1. g[k] = f[m - 1] + d[m] /\ g[m - 1] = f[m - 1]
        BY <1>2, <2>1, <2>5, <3>1
      <4> QED BY <1>4, <3>1, <4>1
    <3>2. CASE k # m /\ k # 0
      <4>1. k \in 0 .. m - 1 /\ k - 1 \in 0 .. m - 1
        BY <1>2, <3>2
      <4>2. g[k] = f[k] /\ g[k - 1] = f[k - 1]
        BY <2>5, <4>1
      <4>3. f[k] = f[k - 1] + d[k]
        BY <2>4, <3>2, <4>1
      <4> QED BY <3>2, <4>2, <4>3
    <3>3. CASE k # m /\ k = 0
      <4>1. k \in 0 .. m - 1
        BY <1>2, <3>3
      <4>2. f[k] = 0
        BY <2>4, <3>3, <4>1
      <4> QED BY <2>5, <3>3, <4>1, <4>2
    <3> QED BY <3>1, <3>2, <3>3
  <2>7. Sums(g, d, m)
    <3>1. g = [k \in 0 .. m |-> g[k]]
      OBVIOUS
    <3> HIDE DEF g
    <3> QED BY <2>6, <3>1 DEF Sums
  <2> QED BY <1>2, <2>7
<1> QED BY <1>3, <1>4

\* Sums of naturals are naturals and start with 0.
LEMMA SumsType ==
  ASSUME NEW n \in Nat, NEW d, NEW f, Sums(f, d, n), \A k \in 1 .. n : d[k] \in Nat
  PROVE  f[0] = 0 /\ \A k \in 0 .. n : f[k] \in Nat
<1> DEFINE T == {k \in 0 .. n : f[k] \notin Nat}
<1>1. f = [k \in 0 .. n |-> IF k = 0 THEN 0 ELSE f[k - 1] + d[k]]
  BY DEF Sums
<1>2. f[0] = 0
  BY <1>1
<1>3. T = {}
  <2> SUFFICES ASSUME T # {} PROVE FALSE
    OBVIOUS
  <2>1. PICK m \in T : \A y \in T : m <= y
    <3>1. T \subseteq Nat
      OBVIOUS
    <3> HIDE DEF T
    <3> QED BY <3>1, LeastNat
  <2>2. m \in 0 .. n /\ f[m] \notin Nat
    OBVIOUS
  <2>3. m # 0
    BY <1>2, <2>2
  <2>4. m - 1 \in 0 .. n /\ m \in 1 .. n /\ ~(m <= m - 1)
    BY <2>2, <2>3
  <2>5. m - 1 \notin T
    <3> HIDE DEF T
    <3> QED BY <2>1, <2>4
  <2>6. f[m - 1] \in Nat /\ d[m] \in Nat
    BY <2>4, <2>5
  <2>7. f[m] = f[m - 1] + d[m]
    BY <1>1, <2>2, <2>3
  <2> QED BY <2>2, <2>6, <2>7
<1> QED BY <1>2, <1>3

\* The descriptors of the first transfers of the list.
LEMMA DescSumType ==
  ASSUME TypeOK
  PROVE  DescSum[0] = 0 /\ \A k \in 0 .. Len(transfer_list) : DescSum[k] \in Nat
<1> DEFINE n == Len(transfer_list)
           d == [k \in 1 .. n |-> desc_num[transfer_list[k]]]
<1>1. n \in Nat /\ \A k \in 1 .. n : d[k] \in Nat
  BY DEF TypeOK
<1>2. PICK f : Sums(f, d, n)
  <2> HIDE DEF d
  <2> QED BY <1>1, SumsExist
<1>3. ASSUME NEW g
      PROVE  Sums(g, d, n)
               <=> g = [k \in 0 .. n |->
                         IF k = 0 THEN 0 ELSE g[k - 1] + desc_num[transfer_list[k]]]
  <2>1. \A k \in 0 .. n : k # 0 => d[k] = desc_num[transfer_list[k]]
    BY <1>1
  <2>2. [k \in 0 .. n |-> IF k = 0 THEN 0 ELSE g[k - 1] + d[k]]
          = [k \in 0 .. n |->
              IF k = 0 THEN 0 ELSE g[k - 1] + desc_num[transfer_list[k]]]
    <3> HIDE DEF d
    <3> QED BY <2>1
  <2> QED BY <2>2 DEF Sums
<1>4. Sums(DescSum, d, n)
  BY <1>2, <1>3 DEF DescSum
<1> QED
  <2> HIDE DEF d
  <2> QED BY <1>1, <1>4, SumsType

\* What remains of a list after its first g elements.
LEMMA Suffix ==
  ASSUME NEW S, NEW s \in Seq(S), NEW g \in 0 .. Len(s),
         NEW l, l = SubSeq(s, g + 1, Len(s))
  PROVE  /\ l \in Seq(S) /\ Len(l) = Len(s) - g
         /\ \A j \in 1 .. Len(l) : l[j] = s[g + j] /\ g + j \in 1 .. Len(s)
<1>1. Len(l) = Len(s) - g
  OBVIOUS
<1>2. \A j \in 1 .. Len(l) : l[j] = s[g + j] /\ g + j \in 1 .. Len(s)
  BY <1>1
<1>3. l \in Seq(S)
  OBVIOUS
<1> QED BY <1>1, <1>2, <1>3

-----------------------------------------------------------------------------
(***************************************************************************)
(* The threads.                                                            *)
(***************************************************************************)
LEMMA OwnType ==
  ASSUME TypeOK, ThreadInv, NEW t \in Threads, pc[t] \in {"poll", "service", "check"}
  PROVE  /\ Own(t) \in Transfers /\ chunk[t] \in 1 .. MaxChunks
         /\ left[t] \in 1 .. MaxChunks
<1>1. chunk[t] \in 0 .. MaxChunks /\ left[t] \in 0 .. MaxChunks /\ MaxChunks \in Nat
  BY ChunksAssumption DEF TypeOK
<1>2. chunk[t] >= 1 /\ left[t] >= 1
  BY DEF ThreadInv
<1> QED BY <1>1, <1>2 DEF Own, Transfers

\* A thread in the middle of a transfer is the only one that can be alone.
LEMMA OnlyAlone ==
  ASSUME TypeOK, ThreadInv, NEW t \in Threads, NEW u \in Threads, Alone(t),
         pc[u] \in {"poll", "service", "check"}
  PROVE  u = t
  BY OwnType DEF Alone

\* transfer_create and transfer_queue: the transfer is new, goes to the end of the
\* list, and is started if it is the only one.
LEMMA SubmitStep ==
  ASSUME IInv, ~bug, NEW t \in Threads, NEW n \in 1 .. MaxDesc, Submit(t, n)
  PROVE  IInv'
<1> DEFINE x == <<t, chunk[t] + 1>>
<1>1. /\ pc[t] = "idle"
      /\ chunk' = [chunk EXCEPT ![t] = @ + 1]
      /\ desc_num' = [desc_num EXCEPT ![x] = n]
      /\ state' = [state EXCEPT ![x] = "submitted"]
      /\ transfer_list' = Append(transfer_list, x)
      /\ pc' = [pc EXCEPT ![t] = "poll"]
      /\ UNCHANGED <<left, desc_wb, rc, destroyed, status, stat_err, executed,
                     wb, bug, after_failure>>
  BY DEF Submit
<1>2. \/ ~running /\ EngineStart(Append(transfer_list, x))
      \/ /\ running
         /\ UNCHANGED <<running, desc_dequeued, run, busy, hw_transfer, hw_count>>
  BY DEF Submit
<1>3. /\ TypeOK /\ chunk[t] \in 0 .. MaxChunks /\ left[t] \in 0 .. MaxChunks
      /\ MaxChunks \in Nat /\ MaxDesc \in Nat
  BY ChunksAssumption DEF IInv, TypeOK
<1>4. left[t] >= 1 /\ chunk[t] + left[t] <= MaxChunks
  BY <1>1 DEF IInv, ThreadInv
<1>5. chunk[t] + 1 \in 1 .. MaxChunks
  BY <1>3, <1>4
<1>6. x \in Transfers
  BY <1>5 DEF Transfers
<1>7. state[x] = "none"
  BY <1>3, <1>6 DEF IInv, CreatedInv
<1>8. /\ \A j \in DOMAIN transfer_list : transfer_list[j] # x
      /\ x \notin destroyed
      /\ hw_transfer # x
  BY <1>6, <1>7 DEF IInv, ListInv, CreatedInv, HwInv, None
<1>9. /\ transfer_list \in Seq(Transfers) /\ Len(transfer_list) \in Nat
      /\ DOMAIN transfer_list = 1 .. Len(transfer_list)
  BY <1>3 DEF TypeOK
<1>10. /\ transfer_list' \in Seq(Transfers)
       /\ Len(transfer_list') = Len(transfer_list) + 1
       /\ DOMAIN transfer_list' = 1 .. Len(transfer_list) + 1
       /\ \A j \in 1 .. Len(transfer_list) : transfer_list'[j] = transfer_list[j]
       /\ transfer_list'[Len(transfer_list) + 1] = x
       /\ transfer_list' # <<>>
       /\ Head(transfer_list') = transfer_list'[1]
  BY <1>1, <1>6, <1>9
<1>11. /\ chunk'[t] = chunk[t] + 1
       /\ \A u \in Threads : u # t => chunk'[u] = chunk[u]
       /\ pc'[t] = "poll"
       /\ \A u \in Threads : u # t => pc'[u] = pc[u]
  BY <1>1, <1>3 DEF TypeOK
<1>12. /\ state'[x] = "submitted" /\ desc_num'[x] = n
       /\ \A y \in Transfers : y # x => state'[y] = state[y] /\ desc_num'[y] = desc_num[y]
  BY <1>1, <1>3, <1>6 DEF TypeOK
<1> HIDE DEF x
<1>13. TypeOK'
  <2>1. /\ pc' \in [Threads -> {"idle", "poll", "service", "check", "ok", "EIO",
                                "ERESTARTSYS"}]
        /\ chunk' \in [Threads -> 0 .. MaxChunks]
    <3>1. chunk[t] + 1 \in 0 .. MaxChunks
      BY <1>3, <1>5
    <3> QED BY <1>1, <1>3, <3>1 DEF TypeOK
  <2>2. /\ state' \in [Transfers -> {"none", "submitted", "completed", "failed"}]
        /\ desc_num' \in [Transfers -> 0 .. MaxDesc]
    <3>1. n \in 0 .. MaxDesc
      BY <1>3
    <3>2. desc_num' \in [Transfers -> 0 .. MaxDesc]
      BY <1>1, <1>3, <3>1 DEF TypeOK
    <3>3. state' \in [Transfers -> {"none", "submitted", "completed", "failed"}]
      BY <1>1, <1>3 DEF TypeOK
    <3> QED BY <3>2, <3>3
  <2>3. /\ running' \in BOOLEAN /\ run' \in BOOLEAN /\ busy' \in BOOLEAN
    BY <1>2, <1>3 DEF TypeOK, EngineStart
  <2>4. /\ desc_dequeued' \in Nat
        /\ hw_transfer' \in Transfers \union {None} /\ hw_count' \in 0 .. MaxDesc
    <3>1. CASE EngineStart(Append(transfer_list, x))
      <4>1. hw_transfer' = transfer_list'[1] /\ hw_count' = 0 /\ desc_dequeued' = 0
        BY <1>1, <1>10, <3>1 DEF EngineStart
      <4>2. transfer_list'[1] \in Transfers
        BY <1>9, <1>10
      <4> QED BY <1>3, <4>1, <4>2
    <3>2. CASE UNCHANGED <<desc_dequeued, hw_transfer, hw_count>>
      BY <1>3, <3>2 DEF TypeOK
    <3> QED BY <1>2, <3>1, <3>2
  <2> QED BY <1>1, <1>3, <1>10, <2>1, <2>2, <2>3, <2>4 DEF TypeOK
<1>14. ThreadInv'
  <2> SUFFICES ASSUME NEW u \in Threads
               PROVE  /\ pc'[u] = "idle"
                           => left'[u] >= 1 /\ chunk'[u] + left'[u] <= MaxChunks
                      /\ pc'[u] \in {"poll", "service", "check"}
                           => /\ left'[u] >= 1 /\ chunk'[u] >= 1
                              /\ chunk'[u] + left'[u] <= MaxChunks + 1
    BY DEF ThreadInv
  <2>1. CASE u = t
    BY <1>1, <1>3, <1>4, <1>11, <2>1
  <2>2. CASE u # t
    BY <1>1, <1>11, <2>2 DEF IInv, ThreadInv
  <2> QED BY <2>1, <2>2
<1>15. CreatedInv'
  <2> SUFFICES ASSUME NEW y \in Transfers
               PROVE  /\ state'[y] = "none" <=> y[2] > chunk'[y[1]]
                      /\ state'[y] # "none" => desc_num'[y] >= 1
                      /\ y \in destroyed' => state'[y] # "none"
    BY DEF CreatedInv
  <2>1. /\ state[y] = "none" <=> y[2] > chunk[y[1]]
        /\ state[y] # "none" => desc_num[y] >= 1
        /\ y \in destroyed => state[y] # "none"
    BY DEF IInv, CreatedInv
  <2>2. CASE y = x
    <3>1. y[1] = t /\ y[2] = chunk[t] + 1
      BY <2>2 DEF x
    <3> QED BY <1>3, <1>11, <1>12, <2>2, <3>1
  <2>3. CASE y # x
    <3>1. state'[y] = state[y] /\ desc_num'[y] = desc_num[y] /\ destroyed' = destroyed
      BY <1>1, <1>12, <2>3
    <3>2. y[1] \in Threads /\ y[2] \in 1 .. MaxChunks /\ y = <<y[1], y[2]>>
      BY DEF Transfers
    <3>3. y[2] > chunk[y[1]] <=> y[2] > chunk'[y[1]]
      <4>1. CASE y[1] = t
        <5>1. y[2] # chunk[t] + 1
          BY <2>3, <3>2, <4>1 DEF x
        <5> QED BY <1>3, <1>11, <3>2, <4>1, <5>1
      <4>2. CASE y[1] # t
        BY <1>11, <3>2, <4>2
      <4> QED BY <4>1, <4>2
    <3> QED BY <2>1, <3>1, <3>3
  <2> QED BY <2>2, <2>3
<1>16. ListInv'
  <2>1. ASSUME NEW j \in 1 .. Len(transfer_list) + 1,
               NEW k \in 1 .. Len(transfer_list) + 1,
               transfer_list'[j] = transfer_list'[k]
        PROVE  j = k
    BY <1>8, <1>9, <1>10, <2>1 DEF IInv, ListInv
  <2>2. ASSUME NEW j \in 1 .. Len(transfer_list) + 1
        PROVE  /\ state'[transfer_list'[j]] \in {"submitted", "failed"}
               /\ transfer_list'[j] \in destroyed' => state'[transfer_list'[j]] = "failed"
    <3>1. CASE j = Len(transfer_list) + 1
      BY <1>1, <1>8, <1>10, <1>12, <3>1
    <3>2. CASE j \in 1 .. Len(transfer_list)
      <4>1. transfer_list'[j] = transfer_list[j] /\ transfer_list[j] \in Transfers
            /\ transfer_list[j] # x
        BY <1>8, <1>9, <1>10, <3>2
      <4>2. state'[transfer_list[j]] = state[transfer_list[j]]
        BY <1>12, <4>1
      <4> QED BY <1>1, <1>9, <3>2, <4>1, <4>2 DEF IInv, ListInv
    <3> QED BY <1>9, <3>1, <3>2
  <2> QED BY <1>10, <2>1, <2>2 DEF ListInv
<1>17. CASE ~running /\ EngineStart(Append(transfer_list, x))
  <2>1. /\ hw_transfer' = transfer_list'[1] /\ hw_count' = 0 /\ desc_dequeued' = 0
        /\ busy' /\ running'
    BY <1>1, <1>10, <1>17 DEF EngineStart
  <2>2. transfer_list'[1] \in Transfers /\ state'[transfer_list'[1]] # "none"
    BY <1>9, <1>10, <1>16 DEF ListInv
  <2>3. desc_num'[transfer_list'[1]] >= 1
    BY <1>15, <2>2 DEF CreatedInv, Transfers
  <2>4. transfer_list'[1] # None
    BY <2>2 DEF Transfers, None
  <2>5. HwInv'
    <3>1. desc_num'[transfer_list'[1]] \in Nat
      BY <1>13, <2>2, <1>3 DEF TypeOK
    <3> QED BY <2>1, <2>2, <2>3, <2>4, <3>1 DEF HwInv
  <2>6. InStep'
    <3>1. desc_num'[transfer_list'[1]] \in Nat
      BY <1>13, <2>2, <1>3 DEF TypeOK
    <3> QED BY <1>10, <2>1, <2>3, <3>1 DEF InStep
  <2>7. AloneInv'
    <3> SUFFICES ASSUME NEW u \in Threads, Alone(u)'
                 PROVE  /\ ~bug'
                        /\ pc'[u] = "poll" /\ Waiting(u)'
                        /\ \A k \in 1 .. chunk'[u] :
                             k < chunk'[u] => <<u, k>> \in executed'
      BY DEF AloneInv
    <3>1. u = t
      <4>1. u # t => chunk'[t] = 0
        BY DEF Alone
      <4> QED BY <1>3, <1>11, <4>1
    <3>2. Alone(t)
      BY <1>1, <1>11, <3>1 DEF Alone
    <3>3. /\ transfer_list = <<>> /\ wb = NoWb
          /\ \A k \in 1 .. chunk[t] : <<t, k>> \in executed
      BY <1>1, <3>2 DEF IInv, AloneInv, Quiet
    <3>4. Own(t)' = x
      BY <1>11 DEF Own, x
    <3>5. transfer_list' = <<x>> /\ transfer_list'[1] = x
      BY <1>1, <1>10, <3>3
    <3>6. Waiting(t)'
      <4>1. wb'.count = 0
        BY <1>1, <3>3 DEF NoWb
      <4>2. n \in Nat /\ n # 0
        BY <1>3
      <4> QED BY <1>12, <2>1, <3>4, <3>5, <4>1, <4>2 DEF Waiting
    <3>7. ASSUME NEW k \in 1 .. chunk'[t], k < chunk'[t]
          PROVE  <<t, k>> \in executed'
      <4>1. k \in 1 .. chunk[t]
        BY <1>3, <1>11, <3>7
      <4> QED BY <1>1, <3>3, <4>1
    <3>8. ~bug'
      BY <1>1
    <3> QED BY <1>11, <3>1, <3>6, <3>7, <3>8
  <2> QED BY <1>13, <1>14, <1>15, <1>16, <2>5, <2>6, <2>7 DEF IInv, StepInv
<1>18. CASE /\ running
            /\ UNCHANGED <<running, desc_dequeued, run, busy, hw_transfer, hw_count>>
  <2>1. ASSUME hw_transfer # None
        PROVE  /\ hw_transfer \in Transfers
               /\ state'[hw_transfer] = state[hw_transfer]
               /\ desc_num'[hw_transfer] = desc_num[hw_transfer]
    <3>1. hw_transfer \in Transfers
      BY <1>3, <2>1 DEF TypeOK
    <3> QED BY <1>8, <1>12, <3>1
  <2>2. HwInv'
    BY <1>18, <2>1 DEF IInv, HwInv
  <2>3. StepInv'
    <3>1. CASE LostOne
      <4>1. PICK y \in Transfers : /\ state[y] = "failed"
                                   /\ \A j \in DOMAIN transfer_list : transfer_list[j] # y
        BY <3>1 DEF LostOne
      <4>2. y # x
        BY <1>7, <4>1
      <4>3. state'[y] = "failed"
        BY <1>12, <4>1, <4>2
      <4>4. \A j \in DOMAIN transfer_list' : transfer_list'[j] # y
        BY <1>9, <1>10, <4>1, <4>2
      <4> QED BY <4>3, <4>4 DEF StepInv, LostOne
    <3>2. CASE InStep
      <4>1. /\ transfer_list # <<>> /\ hw_transfer = Head(transfer_list)
            /\ desc_dequeued = 0 /\ hw_count <= desc_num[hw_transfer]
        BY <1>18, <3>2 DEF InStep
      <4>2. Head(transfer_list') = Head(transfer_list) /\ hw_transfer \in Transfers
        BY <1>9, <1>10, <4>1
      <4>3. desc_num'[hw_transfer] = desc_num[hw_transfer]
        BY <1>8, <1>12, <4>2
      <4> QED BY <1>10, <1>18, <4>1, <4>2, <4>3 DEF InStep, StepInv
    <3> QED BY <3>1, <3>2 DEF IInv, StepInv
  <2>4. AloneInv'
    <3> SUFFICES ASSUME NEW u \in Threads, Alone(u)'
                 PROVE  FALSE
      BY DEF AloneInv
    <3>1. u = t
      <4>1. u # t => chunk'[t] = 0
        BY DEF Alone
      <4> QED BY <1>3, <1>11, <4>1
    <3>2. Alone(t)
      BY <1>1, <1>11, <3>1 DEF Alone
    <3> QED BY <1>1, <1>18, <3>2 DEF IInv, AloneInv, Quiet
  <2> QED BY <1>13, <1>14, <1>15, <1>16, <2>2, <2>3, <2>4 DEF IInv
<1> QED BY <1>2, <1>17, <1>18

\* transfer_create fails: only the thread is concerned.
LEMMA CreateFailsStep ==
  ASSUME IInv, NEW t \in Threads, CreateFails(t)
  PROVE  IInv'
<1>1. /\ pc' = [pc EXCEPT ![t] = "EIO"]
      /\ left' = [left EXCEPT ![t] = 0]
      /\ UNCHANGED <<chunk, desc_wb, rc, state, desc_num, destroyed,
                     transfer_list, running, desc_dequeued, status, run, busy,
                     stat_err, hw_transfer, hw_count, executed, wb, bug, after_failure>>
  BY DEF CreateFails, transVars, listVars, hwVars
<1>2. /\ TypeOK /\ pc'[t] = "EIO"
      /\ \A u \in Threads : u # t => pc'[u] = pc[u] /\ left'[u] = left[u]
  BY <1>1 DEF IInv, TypeOK
<1>3. TypeOK'
  <2>1. left' \in [Threads -> 0 .. MaxChunks]
    BY <1>1, <1>2, ChunksAssumption DEF TypeOK
  <2> QED BY <1>1, <1>2, <2>1 DEF TypeOK
<1>4. ThreadInv'
  BY <1>1, <1>2 DEF IInv, ThreadInv
<1>5. CreatedInv' /\ ListInv'
  BY <1>1 DEF IInv, CreatedInv, ListInv
<1>6. HwInv' /\ StepInv'
  BY <1>1 DEF IInv, HwInv, StepInv, LostOne, InStep
<1>7. AloneInv'
  <2> SUFFICES ASSUME NEW u \in Threads, Alone(u)'
               PROVE  /\ ~bug'
                      /\ pc'[u] \in {"idle", "ok"} => Quiet'
                      /\ pc'[u] \in {"poll", "service"} => Waiting(u)'
                      /\ pc'[u] = "service" => desc_wb'[u].count <= hw_count'
                      /\ pc'[u] = "check" =>
                           \/ state'[Own(u)'] = "failed"
                           \/ /\ state'[Own(u)'] = "completed" /\ Quiet'
                              /\ Own(u)' \in executed'
                      /\ pc'[u] \in {"idle", "poll", "service", "check", "ok"} =>
                           \A k \in 1 .. chunk'[u] :
                             k < chunk'[u] \/ pc'[u] \in {"idle", "ok"}
                               => <<u, k>> \in executed'
    BY DEF AloneInv
  <2>1. Alone(u)
    BY <1>1 DEF Alone
  <2>2. Own(u)' = Own(u) /\ Quiet' = Quiet /\ Waiting(u)' = Waiting(u)
    BY <1>1 DEF Own, Quiet, Waiting
  <2>3. CASE u = t
    BY <1>1, <1>2, <2>1, <2>3 DEF IInv, AloneInv
  <2>4. CASE u # t
    BY <1>1, <1>2, <2>1, <2>2, <2>4 DEF IInv, AloneInv
  <2> QED BY <2>3, <2>4
<1> QED BY <1>3, <1>4, <1>5, <1>6, <1>7 DEF IInv

\* Another request: for a thread alone, after one that returned its full size.
LEMMA NewRequestStep ==
  ASSUME IInv, NEW t \in Threads, NEW n \in 1 .. MaxChunks, NewRequest(t, n)
  PROVE  IInv'
<1>1. /\ Returned(t) /\ chunk[t] + n <= MaxChunks
      /\ pc' = [pc EXCEPT ![t] = "idle"]
      /\ left' = [left EXCEPT ![t] = n]
      /\ after_failure' = (after_failure \/ pc[t] # "ok")
      /\ UNCHANGED <<chunk, desc_wb, rc, state, desc_num, destroyed,
                     transfer_list, running, desc_dequeued, status, run, busy,
                     stat_err, hw_transfer, hw_count, executed, wb, bug>>
  BY DEF NewRequest, transVars, listVars, hwVars
<1>2. /\ TypeOK /\ pc'[t] = "idle" /\ left'[t] = n
      /\ \A u \in Threads : u # t => pc'[u] = pc[u] /\ left'[u] = left[u]
  BY <1>1 DEF IInv, TypeOK
<1>3. MaxChunks \in Nat /\ n \in 0 .. MaxChunks /\ n >= 1
  BY ChunksAssumption
<1>4. TypeOK'
  <2>1. left' \in [Threads -> 0 .. MaxChunks]
    BY <1>1, <1>2, <1>3 DEF TypeOK
  <2>2. after_failure' \in BOOLEAN
    BY <1>1
  <2> QED BY <1>1, <1>2, <2>1, <2>2 DEF TypeOK
<1>5. ThreadInv'
  <2> SUFFICES ASSUME NEW u \in Threads
               PROVE  /\ pc'[u] = "idle"
                           => left'[u] >= 1 /\ chunk'[u] + left'[u] <= MaxChunks
                      /\ pc'[u] \in {"poll", "service", "check"}
                           => /\ left'[u] >= 1 /\ chunk'[u] >= 1
                              /\ chunk'[u] + left'[u] <= MaxChunks + 1
    BY DEF ThreadInv
  <2>1. CASE u = t
    BY <1>1, <1>2, <1>3, <2>1
  <2>2. CASE u # t
    BY <1>1, <1>2, <2>2 DEF IInv, ThreadInv
  <2> QED BY <2>1, <2>2
<1>6. CreatedInv' /\ ListInv'
  BY <1>1 DEF IInv, CreatedInv, ListInv
<1>7. HwInv' /\ StepInv'
  BY <1>1 DEF IInv, HwInv, StepInv, LostOne, InStep
<1>8. AloneInv'
  <2> SUFFICES ASSUME NEW u \in Threads, Alone(u)'
               PROVE  /\ ~bug'
                      /\ pc'[u] \in {"idle", "ok"} => Quiet'
                      /\ pc'[u] \in {"poll", "service"} => Waiting(u)'
                      /\ pc'[u] = "service" => desc_wb'[u].count <= hw_count'
                      /\ pc'[u] = "check" =>
                           \/ state'[Own(u)'] = "failed"
                           \/ /\ state'[Own(u)'] = "completed" /\ Quiet'
                              /\ Own(u)' \in executed'
                      /\ pc'[u] \in {"idle", "poll", "service", "check", "ok"} =>
                           \A k \in 1 .. chunk'[u] :
                             k < chunk'[u] \/ pc'[u] \in {"idle", "ok"}
                               => <<u, k>> \in executed'
    BY DEF AloneInv
  <2>1. Alone(u) /\ pc[t] = "ok"
    BY <1>1 DEF Alone
  <2>2. Own(u)' = Own(u) /\ Quiet' = Quiet /\ Waiting(u)' = Waiting(u)
    BY <1>1 DEF Own, Quiet, Waiting
  <2>3. CASE u = t
    BY <1>1, <1>2, <2>1, <2>2, <2>3 DEF IInv, AloneInv
  <2>4. CASE u # t
    BY <1>1, <1>2, <2>1, <2>2, <2>4 DEF IInv, AloneInv
  <2> QED BY <2>3, <2>4
<1> QED BY <1>4, <1>5, <1>6, <1>7, <1>8 DEF IInv

\* engine_service_wb_monitor returns: no more descriptors than were reported, and
\* alone no more than are executed.
LEMMA PollSteps ==
  ASSUME IInv, NEW t \in Threads, Poll(t) \/ PollTimeout(t)
  PROVE  IInv'
<1>1. /\ pc[t] = "poll"
      /\ pc' = [pc EXCEPT ![t] = "service"]
      /\ UNCHANGED <<left, chunk, rc, state, desc_num, destroyed,
                     transfer_list, running, desc_dequeued, status, run, busy,
                     stat_err, hw_transfer, hw_count, executed, wb, bug, after_failure>>
  BY DEF Poll, PollTimeout, transVars, listVars, hwVars
<1>2. \/ desc_wb' = [desc_wb EXCEPT ![t] = wb]
      \/ /\ wb.count > desc_num[Own(t)]
         /\ desc_wb' = [desc_wb EXCEPT ![t] = [count |-> desc_num[Own(t)], err |-> TRUE]]
  BY DEF Poll, PollTimeout
<1>3. TypeOK /\ ThreadInv
  BY DEF IInv
<1>4. Own(t) \in Transfers /\ desc_num[Own(t)] \in 0 .. MaxDesc /\ wb \in Wb
  BY <1>1, <1>3, OwnType DEF TypeOK
<1>5. pc'[t] = "service" /\ \A u \in Threads : u # t => pc'[u] = pc[u]
  BY <1>1, <1>3 DEF TypeOK
<1>6. desc_wb' \in [Threads -> Wb] /\ desc_wb'[t].count <= wb.count
  <2>1. [count |-> desc_num[Own(t)], err |-> TRUE] \in Wb
    BY <1>4 DEF Wb
  <2>2. wb.count \in Nat /\ desc_num[Own(t)] \in Nat
    BY <1>4, ChunksAssumption DEF Wb
  <2>3. desc_wb \in [Threads -> Wb]
    BY <1>3 DEF TypeOK
  <2>4. desc_wb' \in [Threads -> Wb]
    BY <1>2, <1>4, <2>1, <2>3
  <2>5. desc_wb'[t].count <= wb.count
    BY <1>2, <2>2, <2>3
  <2> QED BY <2>4, <2>5
<1>7. TypeOK'
  <2>1. pc' \in [Threads -> {"idle", "poll", "service", "check", "ok", "EIO",
                             "ERESTARTSYS"}]
    BY <1>1, <1>3 DEF TypeOK
  <2> QED BY <1>1, <1>3, <1>6, <2>1 DEF TypeOK
<1>8. ThreadInv'
  BY <1>1, <1>3, <1>5 DEF ThreadInv
<1>9. CreatedInv' /\ ListInv'
  BY <1>1 DEF IInv, CreatedInv, ListInv
<1>10. HwInv' /\ StepInv'
  BY <1>1 DEF IInv, HwInv, StepInv, LostOne, InStep
<1>11. AloneInv'
  <2> SUFFICES ASSUME NEW u \in Threads, Alone(u)'
               PROVE  /\ ~bug'
                      /\ pc'[u] = "service" /\ Waiting(u)'
                      /\ desc_wb'[u].count <= hw_count'
                      /\ \A k \in 1 .. chunk'[u] :
                           k < chunk'[u] => <<u, k>> \in executed'
    BY DEF AloneInv
  <2>1. Alone(u)
    BY <1>1 DEF Alone
  <2>2. u = t
    BY <1>1, <1>3, <2>1, OnlyAlone
  <2>3. /\ ~bug /\ Waiting(t)
        /\ \A k \in 1 .. chunk[t] : k < chunk[t] => <<t, k>> \in executed
    BY <1>1, <2>1, <2>2 DEF IInv, AloneInv
  <2>4. Waiting(t)'
    BY <1>1, <2>3 DEF Waiting, Own
  <2>5. desc_wb'[t].count <= hw_count'
    <3>1. desc_wb'[t] \in Wb
      BY <1>6
    <3>2. desc_wb'[t].count \in Int /\ wb.count \in Int /\ hw_count \in Int
      BY <1>3, <1>4, <3>1, ChunksAssumption DEF TypeOK, Wb
    <3> QED BY <1>1, <1>6, <2>3, <3>2 DEF Waiting
  <2> QED BY <1>1, <1>5, <2>2, <2>3, <2>4, <2>5
<1> QED BY <1>7, <1>8, <1>9, <1>10, <1>11 DEF IInv

\* The end of the loop of transfer_data: one transfer less, or the end.
LEMMA CheckStep ==
  ASSUME IInv, NEW t \in Threads, Check(t)
  PROVE  IInv'
<1>1. /\ pc[t] = "check"
      /\ UNCHANGED <<chunk, desc_wb, state, desc_num,
                     transfer_list, running, desc_dequeued, run, busy,
                     stat_err, hw_transfer, hw_count, executed, wb, bug, after_failure>>
      /\ rc' = [rc EXCEPT ![t] = FALSE]
      /\ status' \in {status, [busy |-> busy, err |-> stat_err]}
  BY DEF Check, hwVars
<1>2. /\ \/ pc' = [pc EXCEPT ![t] = "EIO"] /\ left' = [left EXCEPT ![t] = 0]
         \/ pc' = [pc EXCEPT ![t] = "ERESTARTSYS"] /\ left' = [left EXCEPT ![t] = 0]
         \/ /\ state[Own(t)] # "failed"
            /\ left' = [left EXCEPT ![t] = @ - 1]
            /\ pc' = [pc EXCEPT ![t] = IF left[t] = 1 THEN "ok" ELSE "idle"]
      /\ \/ destroyed' = destroyed
         \/ /\ state[Own(t)] # "submitted"
            /\ destroyed' = destroyed \union {Own(t)}
  BY DEF Check, Progress, Failed, StillQueued
<1>3. TypeOK /\ ThreadInv
  BY DEF IInv
<1>4. /\ Own(t) \in Transfers /\ chunk[t] \in 1 .. MaxChunks
      /\ left[t] \in 1 .. MaxChunks /\ MaxChunks \in Nat
  BY <1>1, <1>3, OwnType, ChunksAssumption
<1>5. state[Own(t)] # "none"
  <2>1. Own(t)[1] = t /\ Own(t)[2] = chunk[t]
    BY DEF Own
  <2>2. state[Own(t)] = "none" => chunk[t] > chunk[t]
    BY <1>4, <2>1 DEF IInv, CreatedInv
  <2> QED BY <1>4, <2>2
<1>6. /\ pc'[t] \in {"EIO", "ERESTARTSYS", "ok", "idle"}
      /\ pc'[t] \in {"ok", "idle"} => state[Own(t)] # "failed"
      /\ \A u \in Threads : u # t => pc'[u] = pc[u] /\ left'[u] = left[u]
      /\ pc'[t] = "idle" => left'[t] = left[t] - 1 /\ left[t] # 1
  BY <1>2, <1>3 DEF TypeOK
<1>7. TypeOK'
  <2>1. pc' \in [Threads -> {"idle", "poll", "service", "check", "ok", "EIO",
                             "ERESTARTSYS"}]
    BY <1>2, <1>3 DEF TypeOK
  <2>2. left' \in [Threads -> 0 .. MaxChunks]
    <3>1. left[t] - 1 \in 0 .. MaxChunks
      BY <1>4
    <3>2. left \in [Threads -> 0 .. MaxChunks]
      BY <1>3 DEF TypeOK
    <3> QED BY <1>2, <1>4, <3>1, <3>2
  <2>3. destroyed' \subseteq Transfers
    BY <1>2, <1>3, <1>4 DEF TypeOK
  <2>4. rc' \in [Threads -> BOOLEAN] /\ status' \in [busy : BOOLEAN, err : BOOLEAN]
    BY <1>1, <1>3 DEF TypeOK
  <2> QED BY <1>1, <1>3, <2>1, <2>2, <2>3, <2>4 DEF TypeOK
<1>8. ThreadInv'
  <2> SUFFICES ASSUME NEW u \in Threads
               PROVE  /\ pc'[u] = "idle"
                           => left'[u] >= 1 /\ chunk'[u] + left'[u] <= MaxChunks
                      /\ pc'[u] \in {"poll", "service", "check"}
                           => /\ left'[u] >= 1 /\ chunk'[u] >= 1
                              /\ chunk'[u] + left'[u] <= MaxChunks + 1
    BY DEF ThreadInv
  <2>1. CASE u = t
    <3>1. chunk[t] + left[t] <= MaxChunks + 1
      BY <1>1, <1>3 DEF ThreadInv
    <3> QED BY <1>1, <1>4, <1>6, <2>1, <3>1
  <2>2. CASE u # t
    BY <1>1, <1>3, <1>6, <2>2 DEF ThreadInv
  <2> QED BY <2>1, <2>2
<1>9. CreatedInv'
  BY <1>1, <1>2, <1>5 DEF IInv, CreatedInv
<1>10. ListInv'
  <2>1. ASSUME NEW j \in DOMAIN transfer_list, transfer_list[j] = Own(t),
               state[Own(t)] # "submitted"
        PROVE  state[Own(t)] = "failed"
    BY <2>1 DEF IInv, ListInv
  <2> QED BY <1>1, <1>2, <2>1 DEF IInv, ListInv
<1>11. HwInv' /\ StepInv'
  BY <1>1 DEF IInv, HwInv, StepInv, LostOne, InStep
<1>12. AloneInv'
  <2> SUFFICES ASSUME NEW u \in Threads, Alone(u)'
               PROVE  /\ ~bug'
                      /\ pc'[u] \in {"idle", "ok"} => Quiet'
                      /\ pc'[u] \notin {"poll", "service", "check"}
                      /\ pc'[u] \in {"idle", "ok"} =>
                           \A k \in 1 .. chunk'[u] : <<u, k>> \in executed'
    BY DEF AloneInv
  <2>1. Alone(u)
    BY <1>1 DEF Alone
  <2>2. u = t
    BY <1>1, <1>3, <2>1, OnlyAlone
  <2>3. /\ ~bug
        /\ \A k \in 1 .. chunk[t] : k < chunk[t] => <<t, k>> \in executed
        /\ \/ state[Own(t)] = "failed"
           \/ state[Own(t)] = "completed" /\ Quiet /\ Own(t) \in executed
    BY <1>1, <2>1, <2>2 DEF IInv, AloneInv
  <2>4. Quiet' = Quiet
    BY <1>1 DEF Quiet
  <2>5. ASSUME pc'[t] \in {"idle", "ok"}, NEW k \in 1 .. chunk'[t]
        PROVE  <<t, k>> \in executed'
    <3>1. Own(t) \in executed /\ Own(t) = <<t, chunk[t]>>
      BY <1>6, <2>3, <2>5 DEF Own
    <3>2. k = chunk[t] \/ k < chunk[t]
      BY <1>1, <1>4
    <3> QED BY <1>1, <2>3, <3>1, <3>2
  <2>6. pc'[t] \in {"idle", "ok"} => Quiet
    BY <1>6, <2>3
  <2> QED BY <1>1, <1>6, <2>2, <2>3, <2>4, <2>5, <2>6
<1> QED BY <1>7, <1>8, <1>9, <1>10, <1>11, <1>12 DEF IInv

-----------------------------------------------------------------------------
(***************************************************************************)
(* The engine.                                                             *)
(***************************************************************************)
LEMMA HardwareStep ==
  ASSUME IInv, Hardware
  PROVE  IInv'
<1> DEFINE x == hw_transfer
           n == desc_num[hw_transfer]
<1>1. /\ TypeOK /\ busy /\ x \in Transfers /\ n \in 0 .. MaxDesc /\ MaxDesc \in Nat
      /\ hw_count \in 0 .. MaxDesc /\ hw_count < n
  BY ChunksAssumption
  DEF IInv, TypeOK, HwInv, Hardware, HwDescriptor, HwLastDescriptor, HwError, HwHalt
<1>2. UNCHANGED <<pc, left, chunk, desc_wb, rc, state, desc_num, destroyed,
                  transfer_list, running, desc_dequeued, status, run,
                  hw_transfer, bug, after_failure>>
  BY DEF Hardware, HwDescriptor, HwLastDescriptor, HwError, HwHalt, threadVars,
         transVars, listVars
<1>3. /\ hw_count' \in 0 .. MaxDesc /\ hw_count <= hw_count' /\ hw_count' <= n
      /\ busy' \in BOOLEAN /\ stat_err' \in BOOLEAN
      /\ executed \subseteq executed' /\ executed' \subseteq executed \union {x}
      /\ busy' => hw_count' < n
      /\ hw_count' = n => x \in executed'
      /\ wb' = wb \/ (wb' \in Wb /\ wb'.count = hw_count')
  <2>1. CASE HwDescriptor
    BY <1>1, <2>1 DEF HwDescriptor, TypeOK
  <2>2. CASE HwLastDescriptor
    <3>1. /\ hw_count' = n /\ ~busy' /\ busy' \in BOOLEAN /\ stat_err' = stat_err
          /\ executed' = executed \union {x}
          /\ wb' = [count |-> n, err |-> FALSE]
      <4>1. hw_count + 1 = n
        BY <1>1, <2>2 DEF HwLastDescriptor
      <4>2. /\ hw_count' = hw_count + 1 /\ busy' = FALSE /\ stat_err' = stat_err
            /\ executed' = executed \union {x}
            /\ wb' = [count |-> hw_count + 1, err |-> FALSE]
        BY <2>2 DEF HwLastDescriptor
      <4> QED BY <4>1, <4>2
    <3>2. wb' \in Wb /\ wb'.count = n
      BY <1>1, <3>1 DEF Wb
    <3>3. stat_err \in BOOLEAN
      BY <1>1 DEF TypeOK
    <3> QED BY <1>1, <3>1, <3>2, <3>3
  <2>3. CASE HwError
    <3>1. /\ hw_count' = hw_count /\ ~busy' /\ busy' \in BOOLEAN /\ stat_err' \in BOOLEAN
          /\ executed' = executed
          /\ wb' = [count |-> hw_count, err |-> TRUE]
      BY <1>1, <2>3 DEF HwError
    <3>2. wb' \in Wb /\ wb'.count = hw_count
      BY <1>1, <3>1 DEF Wb
    <3> QED BY <1>1, <3>1, <3>2
  <2>4. CASE HwHalt
    <3>1. /\ hw_count' = hw_count /\ ~busy' /\ busy' \in BOOLEAN /\ stat_err' = stat_err
          /\ executed' = executed /\ wb' = wb
      BY <1>1, <2>4 DEF HwHalt
    <3>2. stat_err \in BOOLEAN
      BY <1>1 DEF TypeOK
    <3> QED BY <1>1, <3>1, <3>2
  <2> QED BY <2>1, <2>2, <2>3, <2>4 DEF Hardware
<1>4. TypeOK'
  <2>1. wb' \in Wb /\ executed' \subseteq Transfers
    BY <1>1, <1>3 DEF TypeOK
  <2> QED BY <1>1, <1>2, <1>3, <2>1 DEF TypeOK
<1>5. ThreadInv' /\ CreatedInv' /\ ListInv'
  BY <1>2 DEF IInv, ThreadInv, CreatedInv, ListInv
<1>6. HwInv'
  BY <1>2, <1>3, <1>1 DEF IInv, HwInv
<1>7. StepInv'
  <2>1. LostOne => LostOne'
    BY <1>2 DEF LostOne
  <2>2. InStep => InStep'
    BY <1>2, <1>3 DEF InStep
  <2> QED BY <1>2, <2>1, <2>2 DEF IInv, StepInv
<1>8. AloneInv'
  <2> SUFFICES ASSUME NEW u \in Threads, Alone(u)'
               PROVE  /\ ~bug'
                      /\ pc'[u] \in {"idle", "ok"} => Quiet'
                      /\ pc'[u] \in {"poll", "service"} => Waiting(u)'
                      /\ pc'[u] = "service" => desc_wb'[u].count <= hw_count'
                      /\ pc'[u] = "check" =>
                           \/ state'[Own(u)'] = "failed"
                           \/ /\ state'[Own(u)'] = "completed" /\ Quiet'
                              /\ Own(u)' \in executed'
                      /\ pc'[u] \in {"idle", "poll", "service", "check", "ok"} =>
                           \A k \in 1 .. chunk'[u] :
                             k < chunk'[u] \/ pc'[u] \in {"idle", "ok"}
                               => <<u, k>> \in executed'
    BY DEF AloneInv
  <2>1. Alone(u) /\ Own(u)' = Own(u) /\ ~Quiet
    BY <1>1, <1>2 DEF Alone, Own, Quiet
  <2>2. ASSUME pc[u] \in {"poll", "service"}
        PROVE  Waiting(u)'
    <3>1. Waiting(u)
      BY <2>1, <2>2 DEF IInv, AloneInv
    <3>2. wb.count \in Int
      BY <1>1 DEF TypeOK, Wb
    <3>3. wb'.count <= hw_count'
      BY <1>1, <1>3, <3>1, <3>2 DEF Waiting
    <3> QED BY <1>2, <1>3, <2>1, <3>1, <3>3 DEF Waiting
  <2>3. ASSUME pc[u] = "service"
        PROVE  desc_wb'[u].count <= hw_count'
    <3>1. desc_wb[u].count \in Int /\ desc_wb[u].count <= hw_count
      BY <1>1, <2>1, <2>3 DEF TypeOK, Wb, IInv, AloneInv
    <3> QED BY <1>1, <1>2, <1>3, <3>1
  <2>4. /\ ~bug /\ pc[u] \notin {"idle", "ok"}
        /\ pc[u] = "check" => state[Own(u)] = "failed"
        /\ pc[u] \in {"poll", "service", "check"} =>
             \A k \in 1 .. chunk[u] :
               k < chunk[u] => <<u, k>> \in executed
    BY <2>1 DEF IInv, AloneInv
  <2> QED BY <1>2, <1>3, <2>1, <2>2, <2>3, <2>4
<1> QED BY <1>4, <1>5, <1>6, <1>7, <1>8 DEF IInv

-----------------------------------------------------------------------------
(***************************************************************************)
(* engine_service, in the critical section of engine_service_poll.         *)
(***************************************************************************)
\* What every case of Service does to the thread.
LEMMA ServiceThread ==
  ASSUME IInv, NEW t \in Threads, Service(t)
  PROVE  /\ pc[t] = "service" /\ pc'[t] = "check"
         /\ \A u \in Threads : u # t => pc'[u] = pc[u]
         /\ pc' \in [Threads -> {"idle", "poll", "service", "check", "ok", "EIO",
                                 "ERESTARTSYS"}]
         /\ UNCHANGED <<left, chunk, desc_num, destroyed, after_failure>>
      /\ desc_wb' \in [Threads -> Wb]
         /\ ThreadInv'
<1>1. /\ pc[t] = "service" /\ pc' = [pc EXCEPT ![t] = "check"]
      /\ UNCHANGED <<left, chunk, desc_num, destroyed, after_failure>>
      /\ desc_wb' \in [Threads -> Wb]
  <2>1. NoWb \in Wb
    BY ChunksAssumption DEF NoWb, Wb
  <2> QED BY <2>1 DEF Service, IInv, TypeOK
<1>2. /\ pc'[t] = "check"
      /\ \A u \in Threads : u # t => pc'[u] = pc[u]
      /\ pc' \in [Threads -> {"idle", "poll", "service", "check", "ok", "EIO",
                              "ERESTARTSYS"}]
  BY <1>1 DEF IInv, TypeOK
<1>3. ThreadInv'
  BY <1>1, <1>2 DEF IInv, ThreadInv
<1> QED BY <1>1, <1>2, <1>3

\* A thread that has the engine for itself, after Service(t): it is t.
LEMMA ServiceAlone ==
  ASSUME IInv, NEW t \in Threads, pc[t] = "service", UNCHANGED <<chunk, after_failure>>,
         NEW u \in Threads, Alone(u)'
  PROVE  /\ u = t /\ ~bug /\ Waiting(t) /\ desc_wb[t].count <= hw_count
         /\ \A k \in 1 .. chunk[t] : k < chunk[t] => <<t, k>> \in executed
<1>1. Alone(u)
  BY DEF Alone
<1>2. u = t
  BY <1>1, OnlyAlone DEF IInv
<1> QED BY <1>1, <1>2 DEF IInv, AloneInv

\* An engine that is not running: a thread that waits alone does not meet one.
LEMMA ServiceNotRunningStep ==
  ASSUME IInv, NEW t \in Threads, Service(t), ~running, ServiceNotRunning(t)
  PROVE  IInv'
<1>1. /\ pc[t] = "service"
      /\ pc' \in [Threads -> {"idle", "poll", "service", "check", "ok", "EIO",
                              "ERESTARTSYS"}]
      /\ UNCHANGED <<left, chunk, desc_num, destroyed, after_failure>>
      /\ desc_wb' \in [Threads -> Wb]
      /\ ThreadInv'
  BY ServiceThread
<1>2. UNCHANGED <<state, transfer_list, running, desc_dequeued, run, busy,
                  hw_transfer, hw_count, executed, wb, bug>>
  BY DEF ServiceNotRunning
<1>3. TypeOK'
  <2>1. TypeOK
    BY DEF IInv
  <2>2. status' \in [busy : BOOLEAN, err : BOOLEAN]
    BY <2>1 DEF TypeOK, ServiceNotRunning
  <2>3. rc' \in [Threads -> BOOLEAN]
    BY <2>1 DEF TypeOK, ServiceNotRunning
  <2>4. stat_err' \in BOOLEAN
    BY DEF ServiceNotRunning
  <2> QED BY <1>1, <1>2, <2>1, <2>2, <2>3, <2>4 DEF TypeOK
<1>4. CreatedInv' /\ ListInv'
  BY <1>1, <1>2 DEF IInv, CreatedInv, ListInv
<1>5. HwInv' /\ StepInv'
  BY <1>1, <1>2 DEF IInv, HwInv, StepInv, LostOne, InStep
<1>6. AloneInv'
  <2> SUFFICES ASSUME NEW u \in Threads, Alone(u)' PROVE FALSE
    BY DEF AloneInv
  <2> QED BY <1>1, ServiceAlone DEF Waiting
<1> QED BY <1>1, <1>3, <1>4, <1>5, <1>6 DEF IInv

\* What engine_service reads: the status it works with, whether it regards the
\* engine as stopped, and the number of descriptors completed.
ServiceReads(t, stat, stops, c, k) ==
  /\ stat \in [busy : BOOLEAN, err : BOOLEAN]
  /\ stops \in BOOLEAN
  /\ c \in Nat
  /\ ~stops => busy /\ desc_wb[t].count = 0
  /\ ~stat.busy => stops
  /\ desc_wb[t].count = 0 => stat.busy = busy
  /\ desc_dequeued = 0 =>
       c <= (IF desc_wb[t].count = 0 THEN hw_count ELSE desc_wb[t].count)
  /\ k \in 0 .. Len(transfer_list)
  /\ Passed(c, k)

ServiceWrites(stat, stops, c, k, x, final, gone) ==
  /\ k < Len(transfer_list)
  /\ x = transfer_list[k + 1]
  /\ final = IF stat.err THEN "failed" ELSE FinalState(c - DescSum[k], desc_num[x])
  /\ gone = IF stat.err THEN k ELSE k + 1
  /\ state' = [y \in Transfers |->
                 IF y = x THEN final
                 ELSE IF \E j \in 1 .. k : y = transfer_list[j]
                      THEN "completed" ELSE state[y]]
  /\ transfer_list' = SubSeq(transfer_list, gone + 1, Len(transfer_list))
  /\ \/ stops /\ transfer_list' # <<>> /\ EngineStart(transfer_list')
     \/ /\ ~(stops /\ transfer_list' # <<>>)
        /\ running' = ~stops
        /\ run' \in BOOLEAN
        /\ desc_dequeued' = desc_dequeued + DescSum[gone]
        /\ UNCHANGED <<busy, hw_transfer, hw_count>>
  /\ wb' = NoWb
  /\ UNCHANGED <<executed, bug>>

\* All the transfers of the list are passed.
ServicePasses(k) ==
  /\ state' = [y \in Transfers |->
                 IF \E j \in 1 .. k : y = transfer_list[j]
                 THEN "completed" ELSE state[y]]
  /\ transfer_list' = <<>>
  /\ running' \in BOOLEAN /\ run' \in BOOLEAN
  /\ desc_dequeued' = desc_dequeued + DescSum[k]
  /\ UNCHANGED <<busy, hw_transfer, hw_count, executed, wb>>

\* engine_service ends in the BUG_ON or takes transfers from the list.
LEMMA ServiceOutcome ==
  ASSUME TypeOK, NEW t \in Threads, running, EngineService(t)
  PROVE  \E stat, stops, c, k :
           /\ ServiceReads(t, stat, stops, c, k)
           /\ status' = stat /\ stat_err' \in BOOLEAN /\ rc' \in [Threads -> BOOLEAN]
           /\ \/ /\ k = Len(transfer_list) /\ bug' /\ bug' \in BOOLEAN
                 /\ ServicePasses(k)
              \/ \E x, final, gone : ServiceWrites(stat, stops, c, k, x, final, gone)
<1> DEFINE w == desc_wb[t]
           reads == w.count = 0 \/ w.err
           stat == IF reads THEN [busy |-> busy, err |-> stat_err] ELSE status
           stops == ~stat.busy \/ w.count # 0
           count == IF w.count = 0 THEN hw_count ELSE w.count
           c == (count - desc_dequeued) % U32
<1>1. w \in Wb /\ stat \in [busy : BOOLEAN, err : BOOLEAN]
  BY DEF TypeOK
<1>2. count \in Nat
  BY <1>1, ChunksAssumption DEF TypeOK, Wb
<1>3. c \in Nat /\ (desc_dequeued = 0 => c <= count)
  <2>1. U32 \in Nat \ {0}
    BY DEF U32
  <2>2. desc_dequeued \in Nat
    BY DEF TypeOK
  <2> HIDE DEF count
  <2>3. (count - desc_dequeued) \in Int
    BY <1>2, <2>2
  <2>4. c \in Nat
    BY <2>1, <2>3
  <2>5. desc_dequeued = 0 => c <= count
    BY <1>2, <2>1
  <2> QED BY <2>4, <2>5
<1>4. PICK k \in 0 .. Len(transfer_list) :
      /\ Passed(c, k)
      /\ status' = stat
      /\ stat_err' = (stat_err /\ ~reads)
      /\ rc' = [rc EXCEPT ![t] = w.err]
      /\ \/ /\ k = Len(transfer_list)
            /\ bug' = TRUE
            /\ state' = [y \in Transfers |->
                           IF \E j \in 1 .. k : y = transfer_list[j]
                           THEN "completed" ELSE state[y]]
            /\ transfer_list' = <<>>
            /\ running' = ~stops
            /\ run' = (run /\ ~stops)
            /\ desc_dequeued' = desc_dequeued + DescSum[k]
            /\ UNCHANGED <<busy, hw_transfer, hw_count, executed, wb>>
         \/ /\ k < Len(transfer_list)
            /\ LET x == transfer_list[k + 1]
                   final == IF stat.err THEN "failed"
                            ELSE FinalState(c - DescSum[k], desc_num[x])
                   gone == IF stat.err THEN k ELSE k + 1
                   list == SubSeq(transfer_list, gone + 1, Len(transfer_list))
               IN  /\ state' = [y \in Transfers |->
                                  IF y = x THEN final
                                  ELSE IF \E j \in 1 .. k : y = transfer_list[j]
                                       THEN "completed" ELSE state[y]]
                   /\ transfer_list' = list
                   /\ \/ stops /\ list # <<>> /\ EngineStart(list)
                      \/ /\ ~(stops /\ list # <<>>)
                         /\ running' = ~stops
                         /\ run' = (run /\ ~stops /\ ~stat.err)
                         /\ desc_dequeued' = desc_dequeued + DescSum[gone]
                         /\ UNCHANGED <<busy, hw_transfer, hw_count>>
            /\ wb' = NoWb
            /\ UNCHANGED <<executed, bug>>
  BY Zenon DEF EngineService
<1>5. ServiceReads(t, stat, stops, c, k)
  <2>1. /\ stops \in BOOLEAN /\ (~stops => stat.busy /\ w.count = 0)
        /\ (~stat.busy => stops) /\ (w.count = 0 => stat.busy = busy)
    OBVIOUS
  <2> HIDE DEF stat, stops, c
  <2> QED BY <1>1, <1>3, <1>4, <2>1 DEF ServiceReads
<1>6. stat_err' \in BOOLEAN /\ rc' \in [Threads -> BOOLEAN]
  <2>1. w.err \in BOOLEAN /\ rc \in [Threads -> BOOLEAN]
    BY <1>1 DEF Wb, TypeOK
  <2>2. rc' \in [Threads -> BOOLEAN]
    <3> HIDE DEF w, stat, reads
    <3> QED BY <1>4, <2>1
  <2> QED BY <1>4, <2>2
<1>7. CASE k = Len(transfer_list)
  <2> HIDE DEF stat, stops, c, reads
  <2>1. /\ bug' = TRUE
        /\ state' = [y \in Transfers |->
                       IF \E j \in 1 .. k : y = transfer_list[j]
                       THEN "completed" ELSE state[y]]
        /\ transfer_list' = <<>>
        /\ running' = ~stops
        /\ run' = (run /\ ~stops)
        /\ desc_dequeued' = desc_dequeued + DescSum[k]
        /\ UNCHANGED <<busy, hw_transfer, hw_count, executed, wb>>
    <3>1. ~(k < Len(transfer_list))
      BY <1>7 DEF TypeOK
    <3> QED BY Zenon, <1>4, <3>1
  <2>2. ServicePasses(k)
    BY <2>1 DEF ServicePasses
  <2> QED BY <1>4, <1>5, <1>6, <1>7, <2>1, <2>2
<1>8. CASE k # Len(transfer_list)
  <2> DEFINE x == transfer_list[k + 1]
             final == IF stat.err THEN "failed"
                      ELSE FinalState(c - DescSum[k], desc_num[x])
             gone == IF stat.err THEN k ELSE k + 1
             list == SubSeq(transfer_list, gone + 1, Len(transfer_list))
  <2> HIDE DEF stat, stops, c, reads
  <2>1. /\ k < Len(transfer_list)
        /\ state' = [y \in Transfers |->
                       IF y = x THEN final
                       ELSE IF \E j \in 1 .. k : y = transfer_list[j]
                            THEN "completed" ELSE state[y]]
        /\ transfer_list' = list
        /\ \/ stops /\ list # <<>> /\ EngineStart(list)
           \/ /\ ~(stops /\ list # <<>>)
              /\ running' = ~stops
              /\ run' = (run /\ ~stops /\ ~stat.err)
              /\ desc_dequeued' = desc_dequeued + DescSum[gone]
              /\ UNCHANGED <<busy, hw_transfer, hw_count>>
        /\ wb' = NoWb
        /\ UNCHANGED <<executed, bug>>
    BY Zenon, <1>4, <1>8
  <2>2. ServiceWrites(stat, stops, c, k, x, final, gone)
    BY <2>1 DEF ServiceWrites
  <2> HIDE DEF x, final, gone
  <2> QED BY <1>4, <1>5, <1>6, <2>2
<1> QED BY <1>7, <1>8

\* With the engine in step, c descriptors of the head completed: the head is not
\* passed, and it is the transfer the engine is on.
LEMMA HeadNotPassed ==
  ASSUME TypeOK, transfer_list # <<>>, NEW c \in Nat, NEW k \in 0 .. Len(transfer_list),
         Passed(c, k), c <= desc_num[transfer_list[1]]
  PROVE  k = 0 /\ DescSum[0] = 0
<1>1. DescSum[0] = 0
  BY DescSumType
<1>2. transfer_list \in Seq(Transfers) /\ Len(transfer_list) \in Nat \ {0}
  BY DEF TypeOK
<1>3. desc_num[transfer_list[1]] \in Nat
  BY <1>2 DEF TypeOK
<1>4. k # 0 => c - DescSum[1 - 1] > desc_num[transfer_list[1]]
  BY <1>2 DEF Passed
<1> QED BY <1>1, <1>3, <1>4

\* The BUG_ON: a thread that has the engine for itself does not get here.
LEMMA ServiceBugStep ==
  ASSUME IInv, ~bug, NEW t \in Threads, Service(t),
         NEW stat, NEW stops, NEW c, NEW k,
         ServiceReads(t, stat, stops, c, k),
         status' = stat, stat_err' \in BOOLEAN, rc' \in [Threads -> BOOLEAN],
         k = Len(transfer_list), bug', bug' \in BOOLEAN, ServicePasses(k)
  PROVE  IInv'
<1>1. /\ pc[t] = "service"
      /\ pc' \in [Threads -> {"idle", "poll", "service", "check", "ok", "EIO",
                              "ERESTARTSYS"}]
      /\ UNCHANGED <<left, chunk, desc_num, destroyed, after_failure>>
      /\ desc_wb' \in [Threads -> Wb]
      /\ ThreadInv'
  BY ServiceThread
<1>2. /\ state' \in [Transfers -> {"none", "submitted", "completed", "failed"}]
      /\ \A y \in Transfers : state'[y] = "none" <=> state[y] = "none"
      /\ transfer_list' = <<>> /\ transfer_list \in Seq(Transfers)
      /\ desc_dequeued' \in Nat
  <2>1. /\ TypeOK /\ transfer_list \in Seq(Transfers)
        /\ state \in [Transfers -> {"none", "submitted", "completed", "failed"}]
    BY DEF IInv, TypeOK
  <2>2. state' = [y \in Transfers |->
                    IF \E j \in 1 .. k : y = transfer_list[j]
                    THEN "completed" ELSE state[y]]
    BY DEF ServicePasses
  <2>3. ASSUME NEW j \in 1 .. k PROVE state[transfer_list[j]] # "none"
    BY <2>1 DEF IInv, ListInv
  <2>4. state' \in [Transfers -> {"none", "submitted", "completed", "failed"}]
    BY <2>1, <2>2
  <2>5. ASSUME NEW y \in Transfers PROVE state'[y] = "none" <=> state[y] = "none"
    BY <2>2, <2>3
  <2>6. desc_dequeued' \in Nat
    <3>1. k \in 0 .. Len(transfer_list)
      BY DEF ServiceReads
    <3>2. DescSum[k] \in Nat /\ desc_dequeued \in Nat
      BY <2>1, <3>1, DescSumType DEF TypeOK
    <3> QED BY <3>2 DEF ServicePasses
  <2> QED BY <2>1, <2>4, <2>5, <2>6 DEF ServicePasses
<1>3. /\ TypeOK' /\ CreatedInv' /\ ListInv' /\ HwInv' /\ StepInv'
  <2>1. TypeOK /\ status' \in [busy : BOOLEAN, err : BOOLEAN]
    BY DEF IInv, ServiceReads
  <2>2. transfer_list' \in Seq(Transfers)
    BY <1>2
  <2>3. TypeOK'
    BY <1>1, <1>2, <2>1, <2>2 DEF TypeOK, ServicePasses
  <2>4. CreatedInv'
    BY <1>1, <1>2 DEF IInv, CreatedInv
  <2>5. ListInv'
    BY <1>2 DEF ListInv
  <2>6. HwInv'
    <3>1. hw_transfer # None => hw_transfer \in Transfers
      BY <2>1 DEF TypeOK
    <3> QED BY <1>1, <1>2, <3>1 DEF IInv, HwInv, ServicePasses
  <2> QED BY <2>3, <2>4, <2>5, <2>6 DEF StepInv
<1>4. AloneInv'
  <2> SUFFICES ASSUME NEW u \in Threads, Alone(u)' PROVE FALSE
    BY DEF AloneInv
  <2>1. Waiting(t) /\ desc_wb[t].count <= hw_count
    BY <1>1, ServiceAlone
  <2>2. TypeOK /\ Own(t) \in Transfers
    BY <1>1, OwnType DEF IInv
  <2>3. /\ transfer_list # <<>> /\ transfer_list[1] = Own(t) /\ Len(transfer_list) = 1
        /\ hw_count <= desc_num[Own(t)] /\ desc_dequeued = 0
    BY <2>1 DEF Waiting
  <2>4. desc_num[Own(t)] \in Nat /\ hw_count \in Nat /\ desc_wb[t].count \in Nat
    BY <2>2, ChunksAssumption DEF TypeOK, Wb
  <2>5. c \in Nat /\ c <= desc_num[Own(t)] /\ k \in 0 .. Len(transfer_list) /\ Passed(c, k)
    BY <2>1, <2>3, <2>4 DEF ServiceReads
  <2>6. k = 0
    BY <2>2, <2>3, <2>5, HeadNotPassed
  <2> QED BY <2>3, <2>6
<1> QED BY <1>1, <1>3, <1>4 DEF IInv

\* engine_service completes, fails and removes transfers from the front of the
\* list.  While the engine is in step with it the head is the only one concerned.
LEMMA ServiceWritesStep ==
  ASSUME IInv, ~bug, running, NEW t \in Threads, Service(t),
         NEW stat, NEW stops, NEW c, NEW k, NEW x, NEW final, NEW gone,
         ServiceReads(t, stat, stops, c, k),
         status' = stat, stat_err' \in BOOLEAN, rc' \in [Threads -> BOOLEAN],
         ServiceWrites(stat, stops, c, k, x, final, gone)
  PROVE  IInv'
<1>1. /\ pc[t] = "service" /\ pc'[t] = "check"
      /\ pc' \in [Threads -> {"idle", "poll", "service", "check", "ok", "EIO",
                              "ERESTARTSYS"}]
      /\ UNCHANGED <<left, chunk, desc_num, destroyed, after_failure>>
      /\ desc_wb' \in [Threads -> Wb]
      /\ ThreadInv'
  BY ServiceThread
<1>2. /\ TypeOK /\ transfer_list \in Seq(Transfers) /\ Len(transfer_list) \in Nat
      /\ desc_num \in [Transfers -> 0 .. MaxDesc] /\ MaxDesc \in Nat
      /\ hw_count \in 0 .. MaxDesc
      /\ state \in [Transfers -> {"none", "submitted", "completed", "failed"}]
      /\ DOMAIN transfer_list = 1 .. Len(transfer_list)
  BY ChunksAssumption DEF IInv, TypeOK
<1>3. /\ k \in 0 .. Len(transfer_list) /\ k < Len(transfer_list)
      /\ x = transfer_list[k + 1] /\ k + 1 \in 1 .. Len(transfer_list)
      /\ gone = IF stat.err THEN k ELSE k + 1
      /\ gone \in 0 .. Len(transfer_list)
  BY <1>2 DEF ServiceReads, ServiceWrites
<1>4. x \in Transfers
  BY <1>2, <1>3
<1>5. final \in {"completed", "failed"} /\ (stat.err => final = "failed")
  BY DEF ServiceWrites, FinalState
<1>6. /\ transfer_list' \in Seq(Transfers) /\ Len(transfer_list') = Len(transfer_list) - gone
      /\ Len(transfer_list') \in Nat
      /\ DOMAIN transfer_list' = 1 .. Len(transfer_list')
      /\ \A j \in 1 .. Len(transfer_list') :
           transfer_list'[j] = transfer_list[gone + j] /\ gone + j \in 1 .. Len(transfer_list)
  <2>1. transfer_list' = SubSeq(transfer_list, gone + 1, Len(transfer_list))
    BY DEF ServiceWrites
  <2>2. /\ transfer_list' \in Seq(Transfers) /\ Len(transfer_list') = Len(transfer_list) - gone
        /\ \A j \in 1 .. Len(transfer_list') :
             transfer_list'[j] = transfer_list[gone + j]
               /\ gone + j \in 1 .. Len(transfer_list)
    <3>1. PICK l : l = SubSeq(transfer_list, gone + 1, Len(transfer_list))
      OBVIOUS
    <3>2. /\ l \in Seq(Transfers) /\ Len(l) = Len(transfer_list) - gone
          /\ \A j \in 1 .. Len(l) :
               l[j] = transfer_list[gone + j] /\ gone + j \in 1 .. Len(transfer_list)
      <4>1. transfer_list \in Seq(Transfers) /\ gone \in 0 .. Len(transfer_list)
        BY <1>2, <1>3
      <4> QED BY <3>1, <4>1, Suffix
    <3> QED BY <2>1, <3>1, <3>2
  <2> QED BY <2>2
<1>7. /\ state' \in [Transfers -> {"none", "submitted", "completed", "failed"}]
      /\ state'[x] = final
      /\ \A y \in Transfers :
           y # x /\ (\A j \in 1 .. k : y # transfer_list[j]) => state'[y] = state[y]
      /\ \A y \in Transfers : state'[y] \in {"completed", "failed", state[y]}
  BY <1>2, <1>4, <1>5 DEF ServiceWrites
<1>8. ASSUME NEW j \in 1 .. Len(transfer_list), state[transfer_list[j]] = "none"
      PROVE  FALSE
  BY <1>2, <1>8 DEF IInv, ListInv
<1>9. \A y \in Transfers : state'[y] = "none" <=> state[y] = "none"
  <2> TAKE y \in Transfers
  <2>1. CASE y = x
    BY <1>3, <1>5, <1>7, <1>8, <2>1
  <2>2. CASE \E j \in 1 .. k : y = transfer_list[j]
    <3>1. PICK j \in 1 .. k : y = transfer_list[j]
      BY <2>2
    <3>2. state[y] # "none"
      BY <1>2, <1>3, <1>8, <3>1
    <3> QED BY <1>7, <3>2
  <2>3. CASE y # x /\ \A j \in 1 .. k : y # transfer_list[j]
    BY <1>7, <2>3
  <2> QED BY <2>1, <2>2, <2>3
<1>10. CreatedInv'
  BY <1>1, <1>9 DEF IInv, CreatedInv
<1>11. ListInv'
  <2>1. ASSUME NEW i \in 1 .. Len(transfer_list'), NEW j \in 1 .. Len(transfer_list'),
               transfer_list'[i] = transfer_list'[j]
        PROVE  i = j
    <3>1. gone + i = gone + j
      BY <1>2, <1>6, <2>1 DEF IInv, ListInv
    <3> QED BY <1>3, <3>1
  <2>2. ASSUME NEW j \in 1 .. Len(transfer_list')
        PROVE  /\ state'[transfer_list'[j]] \in {"submitted", "failed"}
               /\ transfer_list'[j] \in destroyed' => state'[transfer_list'[j]] = "failed"
    <3> DEFINE y == transfer_list[gone + j]
    <3>1. transfer_list'[j] = y /\ gone + j \in 1 .. Len(transfer_list) /\ y \in Transfers
      BY <1>2, <1>6
    <3>2. CASE gone + j = k + 1
      <4>1. stat.err
        BY <1>3, <3>2
      <4> QED BY <1>3, <1>5, <1>7, <3>1, <3>2, <4>1
    <3>3. CASE gone + j # k + 1
      <4>1. gone + j > k + 1
        BY <1>3, <3>3
      <4>2. y # x
        BY <1>2, <1>3, <3>1, <3>3 DEF IInv, ListInv
      <4>3. ASSUME NEW i \in 1 .. k PROVE y # transfer_list[i]
        <5>1. i \in 1 .. Len(transfer_list) /\ i # gone + j
          BY <1>2, <1>3, <3>1, <4>1
        <5> QED BY <1>2, <3>1, <5>1 DEF IInv, ListInv
      <4>4. state'[y] = state[y]
        BY <1>7, <3>1, <4>2, <4>3
      <4> QED BY <1>1, <1>2, <3>1, <4>4 DEF IInv, ListInv
    <3> QED BY <3>2, <3>3
  <2> QED BY <1>6, <2>1, <2>2 DEF ListInv
<1>12. \/ /\ stops /\ transfer_list' # <<>>
          /\ hw_transfer' = transfer_list'[1] /\ hw_count' = 0 /\ desc_dequeued' = 0
          /\ run' \in BOOLEAN /\ busy' /\ busy' \in BOOLEAN
          /\ running' /\ running' \in BOOLEAN
       \/ /\ ~(stops /\ transfer_list' # <<>>)
          /\ running' = ~stops
          /\ run' \in BOOLEAN
          /\ desc_dequeued' = desc_dequeued + DescSum[gone]
          /\ UNCHANGED <<busy, hw_transfer, hw_count>>
  <2>1. \/ stops /\ transfer_list' # <<>> /\ EngineStart(transfer_list')
        \/ /\ ~(stops /\ transfer_list' # <<>>)
           /\ running' = ~stops
           /\ run' \in BOOLEAN
           /\ desc_dequeued' = desc_dequeued + DescSum[gone]
           /\ UNCHANGED <<busy, hw_transfer, hw_count>>
    BY DEF ServiceWrites
  <2>2. CASE EngineStart(transfer_list') /\ stops /\ transfer_list' # <<>>
    <3>1. Head(transfer_list') = transfer_list'[1]
      BY <1>6, <2>2
    <3> QED BY <2>2, <3>1 DEF EngineStart
  <2> QED BY <2>1, <2>2
<1>13. DescSum[0] = 0 /\ DescSum[gone] \in Nat
  BY <1>2, <1>3, DescSumType
<1>14. /\ wb' = NoWb /\ UNCHANGED <<executed, bug>>
       /\ stat \in [busy : BOOLEAN, err : BOOLEAN] /\ stops \in BOOLEAN
  BY DEF ServiceWrites, ServiceReads
<1>15. transfer_list' # <<>> => transfer_list'[1] \in Transfers /\ Len(transfer_list') >= 1
  BY <1>6
<1>16. TypeOK'
  <2>1. /\ desc_dequeued' \in Nat /\ hw_count' \in 0 .. MaxDesc
        /\ hw_transfer' \in Transfers \union {None}
    BY <1>2, <1>12, <1>13, <1>15 DEF TypeOK
  <2>2. running' \in BOOLEAN /\ run' \in BOOLEAN /\ busy' \in BOOLEAN
    BY <1>2, <1>12, <1>14 DEF TypeOK
  <2>3. wb' \in Wb
    BY <1>2, <1>14 DEF Wb, NoWb
  <2> QED BY <1>1, <1>2, <1>6, <1>7, <1>14, <2>1, <2>2, <2>3 DEF TypeOK
<1>17. HwInv'
  <2>1. CASE /\ stops /\ transfer_list' # <<>>
             /\ hw_transfer' = transfer_list'[1] /\ hw_count' = 0
    <3> DEFINE y == transfer_list'[1]
    <3>1. y \in Transfers /\ state'[y] # "none"
      BY <1>6, <1>11, <1>15, <2>1 DEF ListInv
    <3>2. desc_num'[y] >= 1 /\ desc_num'[y] \in Nat /\ y # None
      BY <1>1, <1>2, <1>10, <3>1 DEF CreatedInv, None, Transfers
    <3> QED BY <2>1, <3>1, <3>2 DEF HwInv
  <2>2. CASE UNCHANGED <<busy, hw_transfer, hw_count>>
    <3>1. hw_transfer # None => hw_transfer \in Transfers
      BY <1>2 DEF TypeOK
    <3> QED BY <1>1, <1>9, <2>2, <3>1 DEF IInv, HwInv
  <2> QED BY <1>12, <2>1, <2>2
<1>18. StepInv'
  <2>1. CASE LostOne
    <3>1. PICK y \in Transfers : /\ state[y] = "failed"
                                 /\ \A j \in DOMAIN transfer_list : transfer_list[j] # y
      BY <2>1 DEF LostOne
    <3>2. y # x /\ \A j \in 1 .. k : y # transfer_list[j]
      <4>1. y # x
        BY <1>2, <1>3, <3>1
      <4>2. ASSUME NEW j \in 1 .. k PROVE y # transfer_list[j]
        <5>1. j \in DOMAIN transfer_list
          BY <1>2, <1>3
        <5> QED BY <3>1, <5>1
      <4> QED BY <4>1, <4>2
    <3>3. state'[y] = "failed"
      BY <1>7, <3>1, <3>2
    <3>4. \A j \in DOMAIN transfer_list' : transfer_list'[j] # y
      BY <1>2, <1>6, <3>1
    <3> QED BY <3>3, <3>4 DEF StepInv, LostOne
  <2>2. CASE InStep
    <3>1. /\ transfer_list # <<>> /\ hw_transfer = transfer_list[1]
          /\ transfer_list[1] \in Transfers
          /\ desc_dequeued = 0 /\ hw_count <= desc_num[hw_transfer]
      BY <1>2, <2>2 DEF InStep
    <3>2. CASE stops /\ transfer_list' # <<>>
      <4>1. /\ hw_transfer' = Head(transfer_list') /\ hw_count' = 0 /\ desc_dequeued' = 0
            /\ running'
        BY <1>6, <1>12, <3>2
      <4>2. desc_num'[hw_transfer'] \in Nat
        BY <1>1, <1>2, <1>12, <1>15, <3>2
      <4> QED BY <3>2, <4>1, <4>2 DEF StepInv, InStep
    <3>3. CASE stops /\ transfer_list' = <<>>
      <4>1. ~running'
        BY <1>12, <3>3
      <4> QED BY <3>3, <4>1 DEF StepInv, InStep
    <3>4. CASE ~stops
      <4>1. busy /\ desc_wb[t].count = 0 /\ c \in Nat /\ c <= hw_count /\ Passed(c, k)
        BY <3>1, <3>4 DEF ServiceReads
      <4>2. hw_count < desc_num[transfer_list[1]] /\ desc_num[transfer_list[1]] \in Nat
        BY <1>2, <3>1, <4>1 DEF IInv, HwInv
      <4>3. k = 0
        BY <1>2, <1>3, <3>1, <4>1, <4>2, HeadNotPassed
      <4>4. x = transfer_list[1]
        BY <1>3, <4>3
      <4>5. CASE stat.err
        <5>1. gone = 0
          BY <1>3, <4>3, <4>5
        <5>2. transfer_list' # <<>> /\ Head(transfer_list') = transfer_list[1]
          <6>1. Len(transfer_list') >= 1 /\ transfer_list'[1] = transfer_list[gone + 1]
            BY <1>3, <1>6, <5>1
          <6>2. transfer_list' # <<>>
            BY <6>1
          <6> QED BY <1>6, <5>1, <6>1, <6>2
        <5>3. /\ running' /\ desc_dequeued' = 0
              /\ hw_transfer' = hw_transfer /\ hw_count' = hw_count
          <6>1. /\ running' = ~stops /\ desc_dequeued' = desc_dequeued + DescSum[gone]
                /\ hw_transfer' = hw_transfer /\ hw_count' = hw_count
            BY <1>12, <3>4
          <6>2. desc_dequeued' = 0
            BY <1>13, <3>1, <5>1, <6>1
          <6>3. running'
            BY <3>4, <6>1
          <6> QED BY <6>1, <6>2, <6>3
        <5> QED BY <1>1, <3>1, <5>2, <5>3 DEF StepInv, InStep
      <4>6. CASE ~stat.err
        <5>1. final = "failed"
          <6>1. c - DescSum[k] < desc_num[x]
            BY <1>2, <1>13, <4>1, <4>2, <4>3, <4>4
          <6> QED BY <4>6, <6>1 DEF ServiceWrites, FinalState
        <5>2. gone = 1
          BY <1>3, <4>3, <4>6
        <5>3. ASSUME NEW j \in DOMAIN transfer_list' PROVE transfer_list'[j] # x
          <6>1. /\ transfer_list'[j] = transfer_list[1 + j] /\ 1 + j \in 1 .. Len(transfer_list)
                /\ 1 + j # 1 /\ 1 \in 1 .. Len(transfer_list)
            BY <1>3, <1>6, <4>3, <5>2
          <6> QED BY <1>2, <4>4, <6>1 DEF IInv, ListInv
        <5> QED BY <1>4, <1>7, <5>1, <5>3 DEF StepInv, LostOne
      <4> QED BY <4>5, <4>6
    <3> QED BY <1>14, <3>2, <3>3, <3>4
  <2> QED BY <2>1, <2>2 DEF IInv, StepInv
<1>19. AloneInv'
  <2> SUFFICES ASSUME NEW u \in Threads, Alone(u)'
               PROVE  /\ ~bug'
                      /\ pc'[u] = "check"
                      /\ \/ state'[Own(u)'] = "failed"
                         \/ /\ state'[Own(u)'] = "completed" /\ Quiet'
                            /\ Own(u)' \in executed'
                      /\ \A j \in 1 .. chunk'[u] :
                             j < chunk'[u] => <<u, j>> \in executed'
    BY DEF AloneInv
  <2>1. /\ u = t /\ Waiting(t) /\ desc_wb[t].count <= hw_count
        /\ \A j \in 1 .. chunk[t] : j < chunk[t] => <<t, j>> \in executed
    BY <1>1, ServiceAlone
  <2>2. Own(t)' = Own(t) /\ Own(t) \in Transfers
    BY <1>1, OwnType DEF IInv, Own
  <2>3. /\ transfer_list # <<>> /\ transfer_list[1] = Own(t) /\ Len(transfer_list) = 1
        /\ hw_count <= desc_num[Own(t)] /\ desc_dequeued = 0 /\ hw_transfer = Own(t)
        /\ hw_count = desc_num[Own(t)] => Own(t) \in executed
    BY <2>1 DEF Waiting
  <2>4. k = 0 /\ x = Own(t)
    BY <1>3, <2>3
  <2>5. desc_num[Own(t)] \in Nat /\ hw_count \in Nat /\ desc_wb[t].count \in Nat
    BY <1>2, <2>2, ChunksAssumption DEF TypeOK, Wb
  <2>6. c \in Nat /\ c <= hw_count
    BY <2>1, <2>3, <2>5 DEF ServiceReads
  <2>7. CASE final = "failed"
    BY <1>1, <1>7, <1>14, <2>1, <2>2, <2>4, <2>7
  <2>8. CASE final # "failed"
    <3>1. ~stat.err /\ ~(c - DescSum[0] < desc_num[Own(t)])
      BY <2>4, <2>8 DEF ServiceWrites, FinalState
    <3>2. hw_count = desc_num[Own(t)]
      BY <1>13, <2>3, <2>5, <2>6, <3>1
    <3>3. Own(t) \in executed /\ ~busy
      BY <2>3, <2>5, <3>2 DEF IInv, HwInv
    <3>4. stops
      BY <3>3 DEF ServiceReads
    <3>5. Len(transfer_list') = 0
      BY <1>3, <1>6, <2>3, <2>4, <3>1
    <3>6. transfer_list' = <<>>
      BY <1>6, <3>5
    <3>7. ~running' /\ ~busy'
      <4>1. running' = ~stops /\ busy' = busy
        BY <1>12, <3>6
      <4> QED BY <3>3, <3>4, <4>1
    <3>8. Quiet'
      BY <1>14, <3>6, <3>7 DEF Quiet
    <3>9. state'[Own(t)] = "completed"
      BY <1>5, <1>7, <2>4, <2>8
    <3> QED BY <1>1, <1>14, <2>1, <2>2, <3>3, <3>8, <3>9
  <2> QED BY <2>7, <2>8
<1> QED BY <1>1, <1>10, <1>11, <1>16, <1>17, <1>18, <1>19 DEF IInv

\* The whole critical section.
LEMMA ServiceStep ==
  ASSUME IInv, ~bug, NEW t \in Threads, Service(t)
  PROVE  IInv'
<1>1. CASE running /\ EngineService(t)
  <2>1. TypeOK
    BY DEF IInv
  <2>2. PICK stat, stops, c, k :
           /\ ServiceReads(t, stat, stops, c, k)
           /\ status' = stat /\ stat_err' \in BOOLEAN /\ rc' \in [Threads -> BOOLEAN]
           /\ \/ /\ k = Len(transfer_list) /\ bug' /\ bug' \in BOOLEAN
                 /\ ServicePasses(k)
              \/ \E x, final, gone : ServiceWrites(stat, stops, c, k, x, final, gone)
    BY <1>1, <2>1, ServiceOutcome
  <2>3. CASE /\ k = Len(transfer_list) /\ bug' /\ bug' \in BOOLEAN
             /\ ServicePasses(k)
    BY <2>2, <2>3, ServiceBugStep
  <2>4. CASE \E x, final, gone : ServiceWrites(stat, stops, c, k, x, final, gone)
    <3>1. PICK x, final, gone : ServiceWrites(stat, stops, c, k, x, final, gone)
      BY <2>4
    <3> QED BY <1>1, <2>2, <3>1, ServiceWritesStep
  <2> QED BY <2>2, <2>3, <2>4
<1>2. CASE ~running /\ ServiceNotRunning(t)
  BY <1>2, ServiceNotRunningStep
<1> QED BY <1>1, <1>2 DEF Service

-----------------------------------------------------------------------------
\* No request has begun.
LEMMA Initial == Init => IInv
<1> SUFFICES ASSUME Init PROVE IInv
  OBVIOUS
<1>1. MaxChunks \in Nat /\ MaxDesc \in Nat /\ MaxChunks >= 1
  BY ChunksAssumption
<1>2. TypeOK
  <2>1. NoWb \in Wb
    BY <1>1 DEF NoWb, Wb
  <2>2. desc_wb \in [Threads -> Wb] /\ wb \in Wb
    BY <2>1 DEF Init
  <2>3. /\ pc \in [Threads -> {"idle", "poll", "service", "check", "ok", "EIO",
                               "ERESTARTSYS"}]
        /\ left \in [Threads -> 0 .. MaxChunks]
        /\ chunk \in [Threads -> 0 .. MaxChunks]
    BY <1>1 DEF Init
  <2>4. /\ rc \in [Threads -> BOOLEAN]
        /\ state \in [Transfers -> {"none", "submitted", "completed", "failed"}]
        /\ desc_num \in [Transfers -> 0 .. MaxDesc]
        /\ destroyed \subseteq Transfers /\ executed \subseteq Transfers
        /\ desc_dequeued \in Nat /\ hw_count \in 0 .. MaxDesc
        /\ hw_transfer \in Transfers \union {None}
    BY <1>1 DEF Init
  <2>5. transfer_list \in Seq(Transfers)
    BY DEF Init
  <2>6. /\ status \in [busy : BOOLEAN, err : BOOLEAN]
        /\ running \in BOOLEAN /\ bug \in BOOLEAN /\ after_failure \in BOOLEAN
        /\ run \in BOOLEAN /\ busy \in BOOLEAN /\ stat_err \in BOOLEAN
    BY DEF Init
  <2> QED BY <2>2, <2>3, <2>4, <2>5, <2>6 DEF TypeOK
<1>3. ThreadInv
  <2> SUFFICES ASSUME NEW t \in Threads
               PROVE  /\ pc[t] \in {"ok", "idle"} /\ chunk[t] = 0
                      /\ left[t] \in 0 .. MaxChunks
                      /\ pc[t] = "idle" => left[t] # 0
    <3>1. ASSUME NEW t \in Threads, pc[t] = "idle", chunk[t] = 0,
                 left[t] \in 0 .. MaxChunks, left[t] # 0
          PROVE  left[t] >= 1 /\ chunk[t] + left[t] <= MaxChunks
      BY <1>1, <3>1
    <3> QED BY <3>1 DEF ThreadInv
  <2> QED BY DEF Init
<1>4. CreatedInv
  <2> SUFFICES ASSUME NEW x \in Transfers
               PROVE  /\ state[x] = "none" /\ x \notin destroyed
                      /\ x[2] > chunk[x[1]]
    BY DEF CreatedInv
  <2>1. x[1] \in Threads /\ x[2] \in 1 .. MaxChunks
    BY DEF Transfers
  <2>2. chunk[x[1]] = 0
    BY <2>1 DEF Init
  <2> QED BY <1>1, <2>1, <2>2 DEF Init
<1>5. ListInv /\ HwInv /\ StepInv
  BY DEF Init, ListInv, HwInv, StepInv, InStep
<1>6. AloneInv
  <2> SUFFICES ASSUME NEW t \in Threads
               PROVE  /\ ~bug /\ Quiet /\ pc[t] \in {"ok", "idle"} /\ chunk[t] = 0
    BY DEF AloneInv
  <2> QED BY DEF Init, Quiet
<1> QED BY <1>2, <1>3, <1>4, <1>5, <1>6 DEF IInv

\* Nothing changes.
LEMMA StutterStep == IInv /\ UNCHANGED vars => IInv'
<1> SUFFICES ASSUME IInv, UNCHANGED vars PROVE IInv'
  OBVIOUS
<1> USE DEF vars, threadVars, transVars, listVars, hwVars
<1>1. TypeOK'
  BY DEF IInv, TypeOK
<1>2. ThreadInv' /\ CreatedInv' /\ ListInv'
  BY DEF IInv, ThreadInv, CreatedInv, ListInv
<1>3. HwInv' /\ StepInv'
  BY DEF IInv, HwInv, StepInv, LostOne, InStep
<1>4. AloneInv'
  BY DEF IInv, AloneInv, Alone, Quiet, Waiting, Own
<1> QED BY <1>1, <1>2, <1>3, <1>4 DEF IInv

\* The inductive invariant: thread loops, created transfers, the list, the
\* engine, the engine in step with the list until a failed transfer left it, and
\* a thread that has the engine for itself.
THEOREM IInvHolds == Spec => []IInv
<1>1. Init => IInv
  BY Initial
<1>2. IInv /\ [Next]_vars => IInv'
  <2> SUFFICES ASSUME IInv, [Next]_vars PROVE IInv'
    OBVIOUS
  <2>1. ASSUME ~bug, NEW t \in Threads, Step(t) \/ PollTimeout(t) \/ CreateFails(t)
        PROVE  IInv'
    <3>1. CASE \E n \in 1 .. MaxDesc : Submit(t, n)
      BY <2>1, <3>1, SubmitStep
    <3>2. CASE Poll(t) \/ PollTimeout(t)
      BY <3>2, PollSteps
    <3>3. CASE Service(t)
      BY <2>1, <3>3, ServiceStep
    <3>4. CASE Check(t)
      BY <3>4, CheckStep
    <3>5. CASE CreateFails(t)
      BY <3>5, CreateFailsStep
    <3> QED BY <2>1, <3>1, <3>2, <3>3, <3>4, <3>5 DEF Step
  <2>2. CASE Hardware
    BY <2>2, HardwareStep
  <2>3. CASE Finished \/ UNCHANGED vars
    BY <2>3, StutterStep DEF Finished
  <2>4. ASSUME NEW t \in Threads, NEW n \in 1 .. MaxChunks, NewRequest(t, n)
        PROVE  IInv'
    BY <2>4, NewRequestStep
  <2> QED BY <2>1, <2>2, <2>3, <2>4 DEF Next
<1> QED BY <1>1, <1>2, PTL DEF Spec

\* Types, for any number of threads and any size of a request: among them, that
\* the writeback location and the completed-descriptor count never exceed the
\* length of a transfer.
THEOREM TypeCorrect == Spec => []TypeOK
<1>1. IInv => TypeOK
  BY DEF IInv
<1> QED BY <1>1, IInvHolds, PTL

\* However many threads service the engine, late and with old writeback values:
\* until a transfer failed, engine->running is set exactly while the engine was
\* pointed to the head of the list, nothing waits on the list of an engine that
\* is not running, and nothing on the list has been freed.
THEOREM EngineFollowsListHolds == Spec => []EngineFollowsList
<1>1. IInv => EngineFollowsList
  <2> SUFFICES ASSUME IInv, ~bug, \A x \in Transfers : state[x] # "failed"
               PROVE  /\ IF running
                         THEN transfer_list # <<>> /\ hw_transfer = Head(transfer_list)
                         ELSE transfer_list = <<>>
                      /\ \A j \in DOMAIN transfer_list : transfer_list[j] \notin destroyed
    BY DEF EngineFollowsList
  <2>1. InStep
    BY DEF IInv, StepInv, LostOne
  <2>2. \A j \in DOMAIN transfer_list : transfer_list[j] \in Transfers
    BY DEF IInv, TypeOK
  <2>3. \A j \in DOMAIN transfer_list : transfer_list[j] \notin destroyed
    BY <2>2 DEF IInv, ListInv
  <2> QED BY <2>1, <2>3 DEF InStep
<1> QED BY <1>1, IInvHolds, PTL

\* The requests of a thread that alone uses the engine, up to and including the
\* first one that fails, never meet the BUG_ON of engine_service_final_transfer,
\* whatever error or timeout makes it fail.  (The request after it can.)
THEOREM NoBugAloneHolds == Spec => []NoBugAlone
<1>1. IInv => NoBugAlone
  BY DEF IInv, AloneInv, NoBugAlone
<1> QED BY <1>1, IInvHolds, PTL

\* A thread that alone uses the engine, and none of whose earlier requests failed:
\* a read() or write() of it that returns its full size had every one of its
\* transfers executed to the last descriptor, and so had the earlier ones.
THEOREM SuccessMeansDoneHolds == Spec => []SuccessMeansDone
<1>1. IInv => SuccessMeansDone
  BY DEF IInv, AloneInv, SuccessMeansDone
<1> QED BY <1>1, IInvHolds, PTL

=============================================================================
