------------------------ MODULE TransferBuildProofs ------------------------
(***************************************************************************)
(* From a user buffer to descriptors, for any page size, any limits of     *)
(* descriptors and transfers, any request and wherever the pages lie: no   *)
(* BUG_ON is met, the descriptors cover the transfer's part of the buffer  *)
(* exactly, and the engine can work with every one of them.                *)
(*                                                                         *)
(* The invariant uses no sums of lengths: a function "cut" tells where in  *)
(* the transfer each scatterlist entry or descriptor begins.               *)
(***************************************************************************)
EXTENDS TransferBuild, TLAPS, WellFoundedInduction

Entry == [addr : Nat, len : Nat]
Descriptor == [rc : Nat, ep : Nat, len : Nat]

\* the bus address of each unit of the transfer
Bus == [o \in Nat |-> BusAddress(done + o)]

\* How much of the transfer lies in the pages before page n.
UpTo == [n \in 1 .. NrPages + 1 |->
          IF n = 1 THEN 0
          ELSE IF n <= NrPages THEN (n - 1) * PageSize - Offset
          ELSE transfer_len]

\* Where an entry or a descriptor may begin: with the transfer, or with a page.
Boundaries == {o \in Nat : o = 0 \/ (Address + o) % PageSize = 0}

\* The entries of the scatterlist follow each other through the transfer.
SglCut(cut) ==
  /\ cut \in [1 .. Len(sgl) + 1 -> Nat]
  /\ cut[1] = 0
  /\ \A e \in 1 .. Len(sgl) :
       /\ sgl[e].len > 0
       /\ cut[e + 1] = cut[e] + sgl[e].len
       /\ cut[e] \in Boundaries
       /\ \A u \in 0 .. sgl[e].len - 1 : Bus[cut[e] + u] = sgl[e].addr + u

\* pci_map_sg merged no pages.
NotMerged == \A e \in 1 .. Len(sgl) : sgl[e].len <= PageSize

\* The descriptors filled in so far follow each other as well; host address,
\* device address and length are what the engine needs.
DescCut(cut) ==
  /\ cut \in [1 .. Len(desc) + 1 -> Nat]
  /\ cut[1] = 0
  /\ \A k \in 1 .. Len(desc) :
       /\ desc[k].len > 0
       /\ NotMerged => desc[k].len <= DescMax
       /\ cut[k + 1] = cut[k] + desc[k].len
       /\ cut[k] \in Boundaries
       /\ \A u \in 0 .. desc[k].len - 1 : Bus[cut[k] + u] = desc[k].rc + u
       /\ desc[k].ep = req.pos + done + (IF req.non_incr THEN 0 ELSE cut[k])

\* Types of the variables.
TypeInv ==
  /\ req \in Requests /\ done \in Nat /\ transfer_len \in Nat
  /\ pc \in {"check", "next", "pin", "map", "build", "queued"} \union Ended
  /\ pages \in Seq(Frames) /\ rest \in Int /\ sgl \in Seq(Entry)
  /\ i \in Nat /\ cont_addr \in Nat /\ cont_len \in Nat /\ ep_addr \in Nat
  /\ desc \in Seq(Descriptor)

\* The loop of transfer_data: every transfer but the last one is of whole pages.
LoopInv ==
  /\ done <= req.count
  /\ done % PageSize = 0 \/ done = req.count
  /\ pc \in {"next", "pin", "map", "build", "queued"} => Aligned
  /\ pc \in {"pin", "map", "build", "queued"} =>
       /\ transfer_len > 0 /\ done % PageSize = 0
       /\ transfer_len = TransferMax \/ transfer_len = req.count - done
       /\ transfer_len <= req.count - done
  /\ pc = "ok" => done = req.count
  /\ pc # "bug"

\* Which pages are pinned.
PagesInv ==
  /\ pc \in {"check", "next", "pin", "ok", "EINVAL", "EIO"} => pages = <<>>
  /\ pc \in {"map", "build", "queued", "ERESTARTSYS"} => Len(pages) = NrPages

\* The loops of sgm_get_user_pages and pci_map_sg have come to page i.
MapInv(cut) ==
  /\ i \in 1 .. NrPages + 1
  /\ rest = transfer_len - UpTo[i]
  /\ SglCut(cut)
  /\ cut[Len(sgl) + 1] = UpTo[i]
  /\ i > 1 => Len(sgl) > 0

\* The loop of transfer_build has come to entry i; its current block began at c0.
BuildInv(scut, dcut) ==
  LET c0 == dcut[Len(desc) + 1]
  IN  /\ SglCut(scut) /\ scut[Len(sgl) + 1] = transfer_len
      /\ DescCut(dcut)
      /\ i \in 1 .. Len(sgl) /\ Len(desc) < i
      /\ scut[i] = c0 + cont_len
      /\ c0 \in Boundaries
      /\ cont_len <= DescMax - PageSize
      /\ sgl[i].addr = cont_addr + cont_len
      /\ \A u \in 0 .. cont_len - 1 : Bus[c0 + u] = cont_addr + u
      /\ ep_addr = req.pos + done + (IF req.non_incr THEN 0 ELSE c0)

\* The descriptors of a queued transfer cover it.
QueuedInv(dcut) == DescCut(dcut) /\ dcut[Len(desc) + 1] = transfer_len

IInv ==
  /\ TypeInv /\ LoopInv /\ PagesInv
  /\ pc = "map" => \E cut : MapInv(cut)
  /\ pc = "build" => \E scut, dcut : BuildInv(scut, dcut)
  /\ pc = "queued" => \E dcut : QueuedInv(dcut)

-----------------------------------------------------------------------------
(***************************************************************************)
(* Division.                                                               *)
(***************************************************************************)
\* Quotient and remainder.
LEMMA DivMod ==
  ASSUME NEW x \in Nat, NEW p \in Nat \ {0}
  PROVE  /\ x \div p \in Nat
         /\ x % p \in 0 .. p - 1
         /\ x = p * (x \div p) + (x % p)
  OBVIOUS

\* They are unique.
LEMMA DivUnique ==
  ASSUME NEW x \in Nat, NEW p \in Nat \ {0}, NEW q \in Int, NEW r \in 0 .. p - 1,
         x = p * q + r
  PROVE  x \div p = q /\ x % p = r
  OBVIOUS

\* A multiple of p more changes no remainder.
LEMMA Congruent ==
  ASSUME NEW x \in Nat, NEW y \in Nat, NEW p \in Nat \ {0}, NEW z \in Int,
         x = y + p * z
  PROVE  x % p = y % p /\ x \div p = y \div p + z
<1> DEFINE q == y \div p
           r == y % p
<1>1. q \in Nat /\ r \in 0 .. p - 1 /\ y = p * q + r
  BY DivMod
<1> HIDE DEF q, r
<1>2. x = p * (q + z) + r
  BY <1>1
<1>3. x \div p = q + z /\ x % p = r
  BY <1>1, <1>2, DivUnique
<1> QED BY <1>3 DEF q, r

\* Equal remainders stay equal when the same is added.
LEMMA SumMod ==
  ASSUME NEW x \in Nat, NEW y \in Nat, NEW c \in Nat, NEW p \in Nat \ {0}
  PROVE  x % p = y % p => (x + c) % p = (y + c) % p
<1> DEFINE q == x \div p
           s == y \div p
           r == x % p
           t == y % p
           z == q - s
           a == x + c
           b == y + c
<1>1. q \in Nat /\ r \in Nat /\ x = p * q + r
  BY DivMod
<1>2. s \in Nat /\ t \in Nat /\ y = p * s + t
  BY DivMod
<1>3. r = t => a % p = b % p
  <2> HIDE DEF q, r, s, t
  <2>1. ASSUME r = t
        PROVE  z \in Int /\ a \in Nat /\ b \in Nat /\ a = b + p * z
    BY <1>1, <1>2, <2>1
  <2> HIDE DEF a, b, z
  <2> QED BY <2>1, Congruent
<1> QED BY <1>3

\* A sum of multiples.
LEMMA MultipleSum ==
  ASSUME NEW x \in Nat, NEW c \in Nat, NEW p \in Nat \ {0}, x % p = 0, c % p = 0
  PROVE  (x + c) % p = 0
<1> DEFINE q == x \div p
           s == c \div p
           b == x + c
           z == q + s
<1>1. q \in Nat /\ x = p * q
  BY DivMod
<1>2. s \in Nat /\ c = p * s
  BY DivMod
<1> HIDE DEF q, s
<1>3. b \in Nat /\ z \in Int /\ b = p * z + 0 /\ 0 \in 0 .. p - 1
  BY <1>1, <1>2
<1>4. b % p = 0
  <2> HIDE DEF b, z
  <2> QED BY <1>3, DivUnique
<1> QED BY <1>4

\* The remainder by a divisor of p, after that by p.
LEMMA ModMod ==
  ASSUME NEW x \in Nat, NEW p \in Nat \ {0}, NEW m \in Nat \ {0}, p % m = 0
  PROVE  (x % p) % m = x % m
<1> DEFINE q == x \div p
           r == x % p
           k == p \div m
           z == k * q
<1>1. q \in Nat /\ r \in Nat /\ x = p * q + r /\ k \in Nat /\ p = m * k
  BY DivMod
<1>2. z \in Int
  BY <1>1
<1>3. x = r + m * z
  <2> HIDE DEF q, r, k
  <2> QED BY <1>1
<1>4. x % m = r % m 
  <2> HIDE DEF z, r
  <2> QED  BY <1>1, <1>2, <1>3, Congruent
<1> QED BY <1>4

\* The number n of pages that l units from a touch: not 0, no more than needed,
\* and never more than the bound of sg_create_mapper.
LEMMA PageCount ==
  ASSUME NEW a \in Nat, NEW l \in Nat \ {0}, NEW p \in Nat \ {0},
         NEW n, n = (a + l - 1) \div p - a \div p + 1
  PROVE  /\ n \in Nat \ {0}
         /\ (n - 1) * p < (a % p) + l
         /\ (a % p) + l <= n * p
         /\ n <= l \div p + 2
<1> DEFINE f == a \div p
           o == a % p
           b == a + l - 1
           g == b \div p
           r == b % p
           h == l \div p
           t == l % p
<1>1. f \in Nat /\ o \in 0 .. p - 1 /\ a = p * f + o
  BY DivMod
<1>2. b \in Nat
  OBVIOUS
<1>3. g \in Nat /\ r \in 0 .. p - 1 /\ b = p * g + r
  <2> HIDE DEF b
  <2> QED BY <1>2, DivMod
<1>4. h \in Nat /\ t \in 0 .. p - 1 /\ l = p * h + t
  BY DivMod
<1>5. n = g - f + 1 /\ b = a + l - 1
  OBVIOUS
<1> HIDE DEF f, o, b, g, r, h, t
<1>6. p * (n - 1) + r = o + l - 1
  BY <1>1, <1>2, <1>3, <1>5
<1>7. n \in Int
  BY <1>1, <1>3, <1>5
<1>8. n >= 1
  <2>1. g < f => p * g <= p * (f - 1)
    BY <1>1, <1>3
  <2> QED BY <2>1, <1>1, <1>2, <1>3, <1>5, <1>7
<1>9. (n - 1) * p < o + l /\ o + l <= n * p
  BY <1>1, <1>3, <1>6, <1>7, <1>8
<1>10. n <= h + 2
  <2>1. n > h + 2 => p * (h + 2) <= p * (n - 1)
    BY <1>4, <1>7
  <2>2. p * (h + 2) = p * h + p + p
    BY <1>4
  <2> QED BY <2>1, <2>2, <1>1, <1>3, <1>4, <1>6, <1>7
<1> QED BY <1>7, <1>8, <1>9, <1>10 DEF o, h

\* x is the unit u of the page n pages after the one with a.
UnitOf(x, u, n, a, p) == x = a + n * p - (a % p) + u

\* In which page a unit lies, and where.
LEMMA InPage ==
  ASSUME NEW a \in Nat, NEW p \in Nat \ {0}, NEW n \in Nat, NEW u \in 0 .. p - 1,
         NEW x \in Nat, UnitOf(x, u, n, a, p)
  PROVE  x \div p - a \div p = n /\ x % p = u
<1> DEFINE f == a \div p
           o == a % p
<1>1. f \in Nat /\ o \in 0 .. p - 1 /\ a = p * f + o
  BY DivMod
<1>2. x = a + n * p - o + u
  BY DEF UnitOf
<1> HIDE DEF f, o
<1> DEFINE q == f + n
<1>3. x = p * q + u
  BY <1>1, <1>2
<1>4. q \in Int
  BY <1>1
<1>5. x \div p = q /\ x % p = u
  <2> HIDE DEF q
  <2> QED BY <1>3, <1>4, DivUnique
<1>6. x \div p - f = n
  BY <1>1, <1>5
<1> QED BY <1>5, <1>6 DEF f

-----------------------------------------------------------------------------
(***************************************************************************)
(* The pages of a transfer.                                                *)
(***************************************************************************)
LEMMA Request ==
  ASSUME TypeInv
  PROVE  /\ req.buf \in Nat /\ req.count \in Nat /\ req.pos \in Nat
         /\ req.align \in Nat \ {0} /\ PageSize % req.align = 0
         /\ Address \in Nat /\ Offset \in 0 .. PageSize - 1
         /\ Address + done \in Nat
         /\ PageSize \in Nat \ {0}
<1>1. /\ req.buf \in Nat /\ req.count \in Nat /\ req.pos \in Nat
      /\ req.align \in Nat \ {0} /\ PageSize % req.align = 0
  BY RequestAssumption DEF TypeInv
<1>2. Address \in Nat /\ Address + done \in Nat
  BY <1>1 DEF TypeInv, Address
<1>3. PageSize \in Nat \ {0}
  BY SizeAssumption
<1> QED BY <1>1, <1>2, <1>3, DivMod DEF Offset

\* The pages of a transfer are as many as its units need, and not too many.
LEMMA Count ==
  ASSUME TypeInv, transfer_len > 0
  PROVE  /\ NrPages \in Nat \ {0}
         /\ (NrPages - 1) * PageSize < Offset + transfer_len
         /\ Offset + transfer_len <= NrPages * PageSize
         /\ NrPages <= MaxPages
<1>1. transfer_len \in Nat \ {0}
  BY DEF TypeInv
<1>2. NrPages = (Address + transfer_len - 1) \div PageSize - Address \div PageSize + 1
  BY DEF NrPages, FirstPage
<1> QED BY <1>1, <1>2, Request, PageCount DEF Offset, MaxPages

\* What the pages hold of the transfer, one after the other.
LEMMA PageParts ==
  ASSUME TypeInv, transfer_len > 0
  PROVE  /\ UpTo \in [1 .. NrPages + 1 -> Nat]
         /\ UpTo[1] = 0
         /\ UpTo[NrPages + 1] = transfer_len
         /\ \A n \in 1 .. NrPages :
              /\ UpTo[n] < UpTo[n + 1]
              /\ UpTo[n + 1] <= transfer_len
              /\ n > 1 => UpTo[n] = (n - 1) * PageSize - Offset
              /\ UpTo[n + 1] - UpTo[n]
                   = (IF n = 1 /\ NrPages > 1 THEN PageSize - Offset
                      ELSE IF n < NrPages THEN PageSize
                      ELSE transfer_len - UpTo[n])
              /\ UpTo[n + 1] - UpTo[n] <= PageSize - (IF n = 1 THEN Offset ELSE 0)
              /\ UpTo[n] \in Boundaries
<1> DEFINE N == NrPages
<1>1. /\ N \in Nat \ {0}
      /\ (N - 1) * PageSize < Offset + transfer_len
      /\ Offset + transfer_len <= N * PageSize
      /\ PageSize \in Nat \ {0} /\ Offset \in 0 .. PageSize - 1
      /\ transfer_len \in Nat \ {0} /\ Address \in Nat
  BY Count, Request DEF TypeInv
<1>2. /\ UpTo = [n \in 1 .. N + 1 |->
                  IF n = 1 THEN 0
                  ELSE IF n <= N THEN (n - 1) * PageSize - Offset
                  ELSE transfer_len]
  BY DEF UpTo
<1>3. \A n \in 2 .. N + 1 : PageSize <= (n - 1) * PageSize
  <2> TAKE n \in 2 .. N + 1
  <2>1. n - 2 \in Nat /\ (n - 2) * PageSize \in Nat
    BY <1>1
  <2> QED BY <1>1, <2>1
<1>4. \A n \in 2 .. N : (n - 1) * PageSize <= (N - 1) * PageSize
  <2> TAKE n \in 2 .. N
  <2>1. N - n \in Nat /\ (N - n) * PageSize \in Nat
    BY <1>1
  <2> QED BY <1>1, <2>1
<1> HIDE DEF N
<1>5. UpTo \in [1 .. N + 1 -> Nat]
  BY <1>1, <1>2, <1>3
<1>6. UpTo[1] = 0 /\ UpTo[N + 1] = transfer_len
  BY <1>1, <1>2
<1>7. ASSUME NEW n \in 1 .. N
      PROVE  /\ UpTo[n] < UpTo[n + 1]
             /\ UpTo[n + 1] <= transfer_len
             /\ n > 1 => UpTo[n] = (n - 1) * PageSize - Offset
             /\ UpTo[n + 1] - UpTo[n]
                  = (IF n = 1 /\ N > 1 THEN PageSize - Offset
                     ELSE IF n < N THEN PageSize
                     ELSE transfer_len - UpTo[n])
             /\ UpTo[n + 1] - UpTo[n] <= PageSize - (IF n = 1 THEN Offset ELSE 0)
  <2>1. CASE n = 1 /\ N = 1
    BY <1>1, <1>2, <2>1
  <2>2. CASE n = 1 /\ N > 1
    <3>1. UpTo[1] = 0 /\ UpTo[2] = PageSize - Offset
      BY <1>1, <1>2, <2>2
    <3>2. PageSize <= (N - 1) * PageSize
      BY <1>1, <1>3, <2>2
    <3> QED BY <1>1, <2>2, <3>1, <3>2
  <2>3. CASE n > 1 /\ n < N
    <3>1. UpTo[n] = (n - 1) * PageSize - Offset /\ UpTo[n + 1] = n * PageSize - Offset
      BY <1>1, <1>2, <2>3
    <3>2. n * PageSize = (n - 1) * PageSize + PageSize
      BY <1>1
    <3>3. n * PageSize <= (N - 1) * PageSize
      <4>1. n + 1 \in 2 .. N
        BY <1>1, <2>3
      <4> QED BY <1>1, <1>4, <4>1
    <3>4. (n - 1) * PageSize \in Int /\ n * PageSize \in Int /\ (N - 1) * PageSize \in Int
      BY <1>1
    <3> QED BY <1>1, <2>3, <3>1, <3>2, <3>3, <3>4
  <2>4. CASE n > 1 /\ n = N
    <3>1. UpTo[n] = (N - 1) * PageSize - Offset /\ UpTo[n + 1] = transfer_len
      BY <1>1, <1>2, <2>4
    <3>2. N * PageSize = (N - 1) * PageSize + PageSize
      BY <1>1
    <3>3. (N - 1) * PageSize \in Int /\ N * PageSize \in Int
      BY <1>1
    <3> QED BY <1>1, <2>4, <3>1, <3>2, <3>3
  <2> QED BY <1>1, <2>1, <2>2, <2>3, <2>4
<1>8. ASSUME NEW n \in 1 .. N
      PROVE  UpTo[n] \in Boundaries
  <2>1. CASE n = 1
    BY <1>6, <2>1 DEF Boundaries
  <2>2. CASE n > 1
    <3> DEFINE x == Address + UpTo[n]
    <3>1. UpTo[n] \in Nat /\ x \in Nat
      BY <1>1, <1>5
    <3>2. UnitOf(x, 0, n - 1, Address, PageSize)
      BY <1>1, <1>7, <2>2 DEF Offset, UnitOf
    <3>3. n - 1 \in Nat /\ 0 \in 0 .. PageSize - 1
      BY <1>1
    <3>4. x % PageSize = 0
      <4> HIDE DEF x
      <4> QED BY <1>1, <3>1, <3>2, <3>3, InPage
    <3> QED BY <3>1, <3>4 DEF Boundaries
  <2> QED BY <1>1, <2>1, <2>2
<1> QED BY <1>5, <1>6, <1>7, <1>8 DEF N

\* The bus addresses of page n.
LEMMA PageBus ==
  ASSUME TypeInv, transfer_len > 0, Len(pages) = NrPages,
         NEW n \in 1 .. NrPages, NEW u \in 0 .. UpTo[n + 1] - UpTo[n] - 1
  PROVE  Bus[UpTo[n] + u]
           = pages[n] * PageSize + (IF n = 1 THEN Offset ELSE 0) + u
<1> DEFINE off == IF n = 1 THEN Offset ELSE 0
           x == Address + (UpTo[n] + u)
<1>1. /\ NrPages \in Nat \ {0} /\ PageSize \in Nat \ {0}
      /\ Offset \in 0 .. PageSize - 1 /\ Address \in Nat
  BY Count, Request
<1>2. /\ UpTo[n] \in Nat /\ UpTo[n + 1] \in Nat
      /\ UpTo[n + 1] - UpTo[n] <= PageSize - off
      /\ n > 1 => UpTo[n] = (n - 1) * PageSize - Offset
      /\ n = 1 => UpTo[n] = 0
  BY PageParts, <1>1
<1>3. u \in Nat /\ off + u \in 0 .. PageSize - 1
  BY <1>1, <1>2
<1>4. x \in Nat /\ UpTo[n] + u \in Nat /\ n - 1 \in Nat
  BY <1>1, <1>2, <1>3
<1>5. UnitOf(x, off + u, n - 1, Address, PageSize)
  <2>1. UpTo[n] = (n - 1) * PageSize - Offset + off
    <3>1. CASE n = 1
      BY <1>1, <1>2, <3>1
    <3>2. CASE n > 1
      BY <1>1, <1>2, <3>2
    <3> QED BY <1>1, <3>1, <3>2
  <2>2. (n - 1) * PageSize \in Int /\ off \in Int
    BY <1>1
  <2>3. x = Address + (n - 1) * PageSize - Offset + (off + u)
    <3> HIDE DEF off
    <3> QED BY <1>1, <1>3, <2>1, <2>2
  <2> QED BY <2>3 DEF Offset, UnitOf
<1>6. x \div PageSize - Address \div PageSize = n - 1 /\ x % PageSize = off + u
  <2> DEFINE w == off + u
             m == n - 1
  <2>1. /\ x \in Nat /\ m \in Nat /\ w \in 0 .. PageSize - 1
        /\ UnitOf(x, w, m, Address, PageSize)
    BY <1>3, <1>4, <1>5
  <2>2. x \div PageSize - Address \div PageSize = m /\ x % PageSize = w
    <3> HIDE DEF x, w, m
    <3> QED BY <1>1, <2>1, InPage
  <2> QED BY <2>2
<1>7. Bus[UpTo[n] + u] = pages[x \div PageSize - Address \div PageSize + 1] * PageSize
                           + (x % PageSize)
  <2>1. req.buf + (done + (UpTo[n] + u)) = x
    <3>1. req.buf \in Nat /\ done \in Nat
      BY Request DEF TypeInv
    <3> QED BY <1>2, <1>3, <3>1 DEF Address
  <2>2. Bus[UpTo[n] + u] = BusAddress(done + (UpTo[n] + u))
    BY <1>4 DEF Bus
  <2> QED BY <2>1, <2>2 DEF BusAddress, FirstPage
<1>8. n - 1 + 1 = n
  OBVIOUS
<1>9. pages[n] \in Nat
  <2>1. pages \in Seq(Frames)
    BY DEF TypeInv
  <2>2. pages[n] \in Frames
    BY <2>1
  <2> QED BY <2>2, FrameAssumption
<1>10. pages[n] * PageSize \in Nat
  BY <1>1, <1>9
<1> HIDE DEF x
<1>11. Bus[UpTo[n] + u] = pages[n] * PageSize + (off + u)
  BY <1>6, <1>7, <1>8
<1> QED BY <1>1, <1>3, <1>10, <1>11

-----------------------------------------------------------------------------
(***************************************************************************)
(* The steps, one lemma for each action or group of actions.               *)
(***************************************************************************)
\* What depends on the request and the transfer only.
LEMMA SameTransfer ==
  ASSUME UNCHANGED reqVars
  PROVE  /\ Boundaries' = Boundaries /\ UpTo' = UpTo /\ NrPages' = NrPages
         /\ Aligned' = Aligned /\ Address' = Address /\ Offset' = Offset
         /\ pages' = pages => Bus' = Bus
  BY DEF reqVars, Boundaries, UpTo, NrPages, Aligned, Address, Offset, Bus,
         BusAddress, FirstPage

\* Only the program counter moves, to a state where nothing is built.
LEMMA PcStep ==
  ASSUME IInv, UNCHANGED <<reqVars, sgVars, buildVars>>,
         pc' \in ({"next"} \union Ended) \ {"bug"},
         pc' = "next" => Aligned,
         pc' = "ok" => done = req.count,
         pc' \in {"next", "ok", "EINVAL", "EIO"} => pages = <<>>,
         pc' = "ERESTARTSYS" => Len(pages) = NrPages
  PROVE  IInv'
<1> USE DEF IInv
<1>1. TypeInv'
  BY DEF TypeInv, reqVars, sgVars, buildVars, Ended
<1>2. pc' \notin {"pin", "map", "build", "queued", "bug"}
  BY DEF Ended
<1>3. NrPages' = NrPages /\ Aligned' = Aligned
  BY SameTransfer
<1>4. LoopInv'
  BY <1>2, <1>3 DEF LoopInv, reqVars
<1>5. PagesInv'
  BY <1>2, <1>3 DEF PagesInv, sgVars, Ended
<1> QED BY <1>1, <1>2, <1>4, <1>5

\* The steps before and after the transfers of a request.
LEMMA CheckSteps ==
  ASSUME IInv, Refuse \/ Accept \/ Return \/ NoTransfer
  PROVE  IInv'
<1>1. pages = <<>> /\ (pc = "next" => Aligned)
  BY DEF IInv, PagesInv, LoopInv, Refuse, Accept, Return, NoTransfer
<1>2. UNCHANGED <<reqVars, sgVars, buildVars>>
  BY DEF Refuse, Accept, Return, NoTransfer
<1>3. /\ pc' \in ({"next"} \union Ended) \ {"bug"}
      /\ pc' = "next" => Aligned
      /\ pc' = "ok" => done = req.count
      /\ pc' # "ERESTARTSYS"
  BY DEF Refuse, Accept, Return, NoTransfer, Ended
<1> QED BY <1>1, <1>2, <1>3, PcStep

\* The steps that end a request with a failure.
LEMMA GiveUpSteps ==
  ASSUME IInv, PinFails \/ MapFails \/ Interrupted
  PROVE  IInv'
<1>1. UNCHANGED <<reqVars, sgVars, buildVars>>
  BY DEF PinFails, MapFails, Interrupted
<1>2. /\ pc' \in {"oom", "ERESTARTSYS"}
      /\ pc' = "ERESTARTSYS" => pc = "queued"
  BY DEF PinFails, MapFails, Interrupted
<1>3. pc' = "ERESTARTSYS" => Len(pages) = NrPages
  BY <1>2 DEF IInv, PagesInv
<1> QED BY <1>1, <1>2, <1>3, PcStep DEF Ended

\* The smaller of two numbers.
LEMMA MinOfTwo ==
  ASSUME NEW a \in Int, NEW b \in Int
  PROVE  Min({a, b}) = IF a <= b THEN a ELSE b
  BY DEF Min

\* The next transfer: all that is left, or whole pages.
LEMMA BeginTransferStep ==
  ASSUME IInv, BeginTransfer
  PROVE  IInv'
<1> DEFINE left == req.count - done
<1>1. /\ pc = "next" /\ pc' = "pin" /\ done < req.count
      /\ transfer_len' = Min({left, TransferMax})
      /\ UNCHANGED <<req, done, sgVars, buildVars>>
  BY DEF BeginTransfer
<1>2. TypeInv /\ req.count \in Nat /\ done \in Nat /\ TransferMax \in Nat \ {0}
  BY Request, SizeAssumption DEF IInv, TypeInv
<1>3. left \in Nat \ {0}
  BY <1>1, <1>2
<1>4. transfer_len' = IF left <= TransferMax THEN left ELSE TransferMax
  BY <1>1, <1>2, <1>3, MinOfTwo
<1>5. /\ transfer_len' \in Nat /\ transfer_len' > 0 /\ transfer_len' <= left
      /\ transfer_len' = TransferMax \/ transfer_len' = left
  BY <1>2, <1>3, <1>4
<1>6. TypeInv'
  BY <1>1, <1>2, <1>5 DEF TypeInv, sgVars, buildVars
<1>7. LoopInv'
  <2>1. Aligned' = Aligned
    BY <1>1 DEF Aligned
  <2>2. done % PageSize = 0
    BY <1>1, <1>2 DEF IInv, LoopInv
  <2> QED BY <1>1, <1>5, <2>1, <2>2 DEF IInv, LoopInv
<1>8. PagesInv'
  BY <1>1 DEF IInv, PagesInv, sgVars
<1> QED BY <1>1, <1>6, <1>7, <1>8 DEF IInv

\* Every transfer but the last one is of whole pages, so the next one begins
\* as the request did.
LEMMA CompleteStep ==
  ASSUME IInv, Complete
  PROVE  IInv'
<1>1. /\ pc = "queued" /\ pc' = "next" /\ pages' = <<>>
      /\ done' = done + transfer_len
      /\ UNCHANGED <<req, transfer_len, rest, sgl, buildVars>>
  BY DEF Complete, Destroy
<1>2. /\ req.count \in Nat /\ done \in Nat /\ transfer_len \in Nat
      /\ TransferMax \in Nat /\ PageSize \in Nat \ {0}
  BY Request, SizeAssumption DEF IInv, TypeInv
<1>3. /\ done % PageSize = 0 /\ transfer_len <= req.count - done
      /\ transfer_len = TransferMax \/ transfer_len = req.count - done
  BY <1>1 DEF IInv, LoopInv
<1>4. TypeInv'
  BY <1>1, <1>2 DEF IInv, TypeInv, buildVars
<1>5. done' % PageSize = 0 \/ done' = req.count
  <2>1. CASE transfer_len = TransferMax
    <3>1. (done + TransferMax) % PageSize = 0
      BY <1>2, <1>3, SizeAssumption, MultipleSum
    <3> QED BY <1>1, <2>1, <3>1
  <2>2. CASE transfer_len = req.count - done
    BY <1>1, <1>2, <2>2
  <2> QED BY <1>3, <2>1, <2>2
<1>6. LoopInv'
  <2>1. Aligned' = Aligned /\ Aligned
    BY <1>1 DEF Aligned, IInv, LoopInv
  <2>2. done' <= req.count
    BY <1>1, <1>2, <1>3
  <2> QED BY <1>1, <1>5, <2>1, <2>2 DEF LoopInv
<1>7. PagesInv'
  BY <1>1 DEF PagesInv
<1> QED BY <1>1, <1>4, <1>6, <1>7 DEF IInv

\* The transfer failed: its pages are released.
LEMMA FailStep ==
  ASSUME IInv, Fail
  PROVE  IInv'
<1>1. /\ pc = "queued" /\ pc' = "EIO" /\ pages' = <<>>
      /\ UNCHANGED <<reqVars, rest, sgl, buildVars>>
  BY DEF Fail, Destroy
<1>2. TypeInv'
  BY <1>1 DEF IInv, TypeInv, reqVars, buildVars, Ended
<1>3. LoopInv'
  BY <1>1 DEF IInv, LoopInv, reqVars
<1>4. PagesInv'
  BY <1>1 DEF PagesInv
<1> QED BY <1>1, <1>2, <1>3, <1>4 DEF IInv

\* The pages are pinned: their number is what the transfer touches, and never
\* more than the mapper has room for.
LEMMA PinStep ==
  ASSUME IInv, Pin
  PROVE  IInv'
<1>1. pc = "pin" /\ TypeInv /\ transfer_len > 0
  BY DEF Pin, IInv, LoopInv
<1>2. NrPages \in Nat \ {0} /\ NrPages <= MaxPages
  BY <1>1, Count
<1>3. MaxPages \in Nat
  <2>1. transfer_len \in Nat /\ PageSize \in Nat \ {0}
    BY <1>1, SizeAssumption DEF TypeInv
  <2>2. transfer_len \div PageSize \in Nat
    BY <2>1, DivMod
  <2> QED BY <2>2 DEF MaxPages
<1>4. /\ pages' \in [1 .. NrPages -> Frames] /\ rest' = transfer_len /\ sgl' = <<>>
      /\ i' = 1 /\ pc' = "map"
      /\ UNCHANGED <<reqVars, cont_addr, cont_len, ep_addr, desc>>
  BY <1>2, <1>3 DEF Pin
<1>5. pages' \in Seq(Frames) /\ Len(pages') = NrPages
  BY <1>2, <1>4
<1>6. /\ NrPages' = NrPages /\ UpTo' = UpTo /\ Aligned' = Aligned
  BY <1>4, SameTransfer
<1>7. TypeInv'
  BY <1>1, <1>4, <1>5 DEF TypeInv, reqVars
<1>8. LoopInv'
  BY <1>1, <1>4, <1>6 DEF IInv, LoopInv, reqVars
<1>9. PagesInv'
  BY <1>4, <1>5, <1>6 DEF PagesInv
<1>10. MapInv([e \in 1 .. 1 |-> 0])'
  <2>1. UpTo[1] = 0
    BY <1>1, PageParts
  <2>2. Len(sgl') = 0 /\ transfer_len' = transfer_len /\ transfer_len \in Nat
    BY <1>1, <1>4 DEF reqVars, TypeInv
  <2>3. SglCut([e \in 1 .. 1 |-> 0])'
    BY <2>2 DEF SglCut
  <2> QED BY <1>2, <1>4, <1>6, <2>1, <2>2, <2>3 DEF MapInv
<1> QED BY <1>4, <1>7, <1>8, <1>9, <1>10 DEF IInv

\* The entry of page i holds what the transfer has in that page, and neither
\* BUG_ON of the loop is met.
LEMMA EntryOfPage ==
  ASSUME TypeInv, transfer_len > 0, Len(pages) = NrPages,
         i \in 1 .. NrPages, rest = transfer_len - UpTo[i]
  PROVE  EntryLength(i) = UpTo[i + 1] - UpTo[i] /\ ~EntryBug(i)
<1>1. /\ NrPages \in Nat \ {0} /\ PageSize \in Nat \ {0} /\ transfer_len \in Nat
      /\ UpTo[i] \in Nat /\ UpTo[i + 1] \in Nat
  <2>1. NrPages \in Nat \ {0} /\ PageSize \in Nat \ {0} /\ transfer_len \in Nat
    BY Count, Request DEF TypeInv
  <2>2. i \in 1 .. NrPages + 1 /\ i + 1 \in 1 .. NrPages + 1
    BY <2>1
  <2> QED BY <2>1, <2>2, PageParts
<1>2. /\ UpTo[i + 1] <= transfer_len
      /\ UpTo[i + 1] - UpTo[i]
           = (IF i = 1 /\ NrPages > 1 THEN PageSize - Offset
              ELSE IF i < NrPages THEN PageSize
              ELSE transfer_len - UpTo[i])
      /\ UpTo[i + 1] - UpTo[i] <= PageSize - (IF i = 1 THEN Offset ELSE 0)
  BY PageParts
<1>3. EntryLength(i) = UpTo[i + 1] - UpTo[i]
  BY <1>2 DEF EntryLength
<1>4. ~EntryBug(i)
  BY <1>1, <1>2 DEF EntryBug
<1> QED BY <1>3, <1>4

\* A new entry at the end.
LEMMA AppendEntry ==
  ASSUME TypeInv, NEW cut, SglCut(cut), NEW addr \in Nat, NEW len \in Nat \ {0},
         cut[Len(sgl) + 1] \in Boundaries,
         \A u \in 0 .. len - 1 : Bus[cut[Len(sgl) + 1] + u] = addr + u,
         sgl' = Append(sgl, [addr |-> addr, len |-> len]),
         Bus' = Bus, Boundaries' = Boundaries
  PROVE  \E cut2 : /\ SglCut(cut2)'
                   /\ cut2[Len(sgl') + 1] = cut[Len(sgl) + 1] + len
<1> DEFINE n == Len(sgl)
           last == cut[n + 1]
<1>0. PICK cut2 :
        cut2 = [e \in 1 .. n + 2 |-> IF e = n + 2 THEN last + len ELSE cut[e]]
  OBVIOUS
<1>1. n \in Nat /\ cut \in [1 .. n + 1 -> Nat] /\ last \in Nat
  <2>1. n \in Nat
    BY DEF TypeInv
  <2>2. cut \in [1 .. n + 1 -> Nat] /\ n + 1 \in 1 .. n + 1
    BY <2>1 DEF SglCut
  <2> QED BY <2>1, <2>2
<1>2. Len(sgl') = n + 1 /\ n + 1 + 1 = n + 2
  BY <1>1 DEF TypeInv
<1>3. \A e \in 1 .. n : sgl'[e] = sgl[e]
  BY DEF TypeInv
<1>4. sgl'[n + 1].addr = addr /\ sgl'[n + 1].len = len
  BY DEF TypeInv
<1>5. /\ cut2 \in [1 .. n + 2 -> Nat] /\ cut2[n + 2] = last + len
      /\ \A e \in 1 .. n + 1 : cut2[e] = cut[e]
  BY <1>0, <1>1
<1>6. cut2[1] = 0
  BY <1>1, <1>5 DEF SglCut
<1>7. ASSUME NEW e \in 1 .. n + 1
      PROVE  /\ sgl'[e].len > 0
             /\ cut2[e + 1] = cut2[e] + sgl'[e].len
             /\ cut2[e] \in Boundaries
             /\ \A u \in 0 .. sgl'[e].len - 1 : Bus[cut2[e] + u] = sgl'[e].addr + u
  <2>1. CASE e \in 1 .. n
    <3>1. cut2[e] = cut[e] /\ cut2[e + 1] = cut[e + 1] /\ sgl'[e] = sgl[e]
      BY <1>1, <1>3, <1>5, <2>1
    <3> QED BY <2>1, <3>1 DEF SglCut
  <2>2. CASE e = n + 1
    <3>1. cut2[e] = last /\ cut2[e + 1] = last + len
      <4>1. e + 1 = n + 2 /\ e \in 1 .. n + 1
        BY <1>1, <2>2
      <4> QED BY <1>5, <2>2, <4>1
    <3> QED BY <1>4, <2>2, <3>1
  <2> QED BY <1>1, <2>1, <2>2
<1>8. cut2 \in [1 .. Len(sgl') + 1 -> Nat] /\ cut2[Len(sgl') + 1] = last + len
  BY <1>2, <1>5
<1>9. SglCut(cut2)'
  BY <1>2, <1>6, <1>7, <1>8 DEF SglCut
<1> QED BY <1>8, <1>9

\* The entry is merged with the one before.
LEMMA MergeEntry ==
  ASSUME TypeInv, NEW cut, SglCut(cut), NEW addr \in Nat, NEW len \in Nat \ {0},
         \A u \in 0 .. len - 1 : Bus[cut[Len(sgl) + 1] + u] = addr + u,
         Len(sgl) > 0,
         sgl[Len(sgl)].addr + sgl[Len(sgl)].len = addr,
         sgl' = [sgl EXCEPT ![Len(sgl)].len = @ + len],
         Bus' = Bus, Boundaries' = Boundaries
  PROVE  \E cut2 : /\ SglCut(cut2)'
                   /\ cut2[Len(sgl') + 1] = cut[Len(sgl) + 1] + len
<1> DEFINE n == Len(sgl)
           last == cut[n + 1]
<1>0. PICK cut2 : cut2 = [cut EXCEPT ![n + 1] = last + len]
  OBVIOUS
<1>1. n \in Nat \ {0} /\ cut \in [1 .. n + 1 -> Nat] /\ last \in Nat
  BY DEF TypeInv, SglCut
<1>2. sgl[n] \in Entry
  BY <1>1 DEF TypeInv
<1>3. sgl[n].addr \in Nat /\ sgl[n].len \in Nat
  BY <1>2 DEF Entry
<1>4. Len(sgl') = n
  BY <1>1 DEF TypeInv
<1>5. \A e \in 1 .. n - 1 : sgl'[e] = sgl[e]
  BY <1>1 DEF TypeInv
<1>6. sgl'[n].addr = sgl[n].addr /\ sgl'[n].len = sgl[n].len + len
  BY <1>1, <1>2 DEF TypeInv, Entry
<1>7. /\ cut2 \in [1 .. n + 1 -> Nat] /\ cut2[n + 1] = last + len
      /\ \A e \in 1 .. n : cut2[e] = cut[e]
  BY <1>0, <1>1
<1>8. cut2[1] = 0
  <2>1. 1 \in 1 .. n /\ cut[1] = 0
    BY <1>1 DEF SglCut
  <2> QED BY <1>7, <2>1
<1>9. \A e \in 1 .. n :
        /\ sgl[e].len > 0
        /\ cut[e + 1] = cut[e] + sgl[e].len
        /\ cut[e] \in Boundaries
        /\ \A u \in 0 .. sgl[e].len - 1 : Bus[cut[e] + u] = sgl[e].addr + u
  BY DEF SglCut
<1>10. ASSUME NEW e \in 1 .. n
       PROVE  /\ sgl'[e].len > 0
              /\ cut2[e + 1] = cut2[e] + sgl'[e].len
              /\ cut2[e] \in Boundaries
              /\ \A u \in 0 .. sgl'[e].len - 1 : Bus[cut2[e] + u] = sgl'[e].addr + u
  <2>1. CASE e \in 1 .. n - 1
    <3>1. cut2[e] = cut[e] /\ cut2[e + 1] = cut[e + 1] /\ sgl'[e] = sgl[e]
      BY <1>1, <1>5, <1>7, <2>1
    <3> QED BY <1>9, <3>1
  <2>2. CASE e = n
    <3>1. cut2[e] = cut[n] /\ cut2[e + 1] = last + len /\ cut[n] \in Nat
      BY <1>1, <1>7, <2>2
    <3>2. last = cut[n] + sgl[n].len /\ cut[n] \in Boundaries /\ sgl[n].len > 0
      BY <1>1, <1>9
    <3>3. ASSUME NEW u \in 0 .. sgl'[n].len - 1
          PROVE  Bus[cut[n] + u] = sgl[n].addr + u
      <4>1. CASE u < sgl[n].len
        <5>1. n \in 1 .. n /\ u \in 0 .. sgl[n].len - 1
          BY <1>1, <1>3, <1>6, <4>1
        <5> QED BY <1>9, <5>1
      <4>2. CASE u >= sgl[n].len
        <5> DEFINE w == u - sgl[n].len
        <5>1. w \in 0 .. len - 1
          BY <1>3, <1>6, <4>2
        <5>2. cut[n] + u = last + w /\ addr + w = sgl[n].addr + u
          <6>1. u \in Int /\ addr = sgl[n].addr + sgl[n].len
            BY <1>3, <1>6
          <6>2. addr + w = sgl[n].addr + u
            BY <1>3, <6>1
          <6>3. cut[n] + u = last + w
            <7> HIDE DEF last
            <7> QED BY <1>3, <3>1, <3>2, <6>1
          <6> QED BY <6>2, <6>3
        <5> HIDE DEF w
        <5> QED BY <5>1, <5>2
      <4> QED BY <1>3, <4>1, <4>2
    <3> QED BY <1>3, <1>6, <2>2, <3>1, <3>2, <3>3
  <2> QED BY <1>1, <2>1, <2>2
<1>11. cut2 \in [1 .. Len(sgl') + 1 -> Nat] /\ cut2[Len(sgl') + 1] = last + len
  BY <1>4, <1>7
<1>12. SglCut(cut2)'
  BY <1>4, <1>8, <1>10, <1>11 DEF SglCut
<1> QED BY <1>11, <1>12

\* One page of the scatterlist, merged or not.
LEMMA MapPageStep ==
  ASSUME IInv, MapPage
  PROVE  IInv'
<1> DEFINE off == IF i = 1 THEN Offset ELSE 0
           addr == pages[i] * PageSize + off
           len == EntryLength(i)
           n == Len(sgl)
<1>1. /\ pc = "map" /\ TypeInv /\ transfer_len > 0 /\ Len(pages) = NrPages
      /\ i <= Len(pages)
  BY DEF MapPage, IInv, LoopInv, PagesInv
<1>2. PICK cut : MapInv(cut)
  BY <1>1 DEF IInv
<1>3. /\ NrPages \in Nat \ {0} /\ PageSize \in Nat \ {0}
      /\ Offset \in 0 .. PageSize - 1
  BY <1>1, Count, Request
<1>4. i \in 1 .. NrPages /\ rest = transfer_len - UpTo[i]
  BY <1>1, <1>2, <1>3 DEF MapInv
<1>5. len = UpTo[i + 1] - UpTo[i] /\ ~EntryBug(i)
  BY <1>1, <1>4, EntryOfPage
<1>6. /\ \/ sgl' = Append(sgl, [addr |-> addr, len |-> len])
         \/ /\ n > 0
            /\ sgl[n].addr + sgl[n].len = addr
            /\ sgl' = [sgl EXCEPT ![n].len = @ + len]
      /\ rest' = rest - len /\ i' = i + 1 /\ pc' = pc
      /\ UNCHANGED <<reqVars, pages, cont_addr, cont_len, ep_addr, desc>>
  BY <1>5 DEF MapPage
<1>7. /\ UpTo[i] \in Nat /\ UpTo[i + 1] \in Nat /\ UpTo[i] < UpTo[i + 1]
      /\ UpTo[i] \in Boundaries
  BY <1>1, <1>3, <1>4, PageParts
<1>8. /\ Boundaries' = Boundaries /\ Bus' = Bus /\ UpTo' = UpTo
      /\ NrPages' = NrPages /\ Aligned' = Aligned
  BY <1>6, SameTransfer
<1>9. pages[i] \in Nat
  <2>1. pages \in Seq(Frames)
    BY <1>1 DEF TypeInv
  <2>2. pages[i] \in Frames
    BY <1>1, <1>4, <2>1
  <2> QED BY <2>2, FrameAssumption
<1>10. addr \in Nat /\ len \in Nat \ {0}
  <2>1. pages[i] * PageSize \in Nat
    BY <1>3, <1>9
  <2> QED BY <1>3, <1>5, <1>7, <2>1
<1>11. \A u \in 0 .. len - 1 : Bus[UpTo[i] + u] = addr + u
  BY <1>1, <1>4, <1>5, PageBus
<1>12. SglCut(cut) /\ cut[n + 1] = UpTo[i]
  BY <1>2 DEF MapInv
<1> HIDE DEF addr, len
<1>13. PICK cut2 : SglCut(cut2)' /\ cut2[Len(sgl') + 1] = cut[Len(sgl) + 1] + len
  <2>1. CASE sgl' = Append(sgl, [addr |-> addr, len |-> len])
    BY <1>1, <1>7, <1>8, <1>10, <1>11, <1>12, <2>1, AppendEntry
  <2>2. CASE /\ n > 0
             /\ sgl[n].addr + sgl[n].len = addr
             /\ sgl' = [sgl EXCEPT ![n].len = @ + len]
    BY <1>1, <1>8, <1>10, <1>11, <1>12, <2>2, MergeEntry
  <2> QED BY <1>6, <2>1, <2>2
<1>14. sgl' \in Seq(Entry) /\ Len(sgl') > 0
  <2>1. sgl \in Seq(Entry) /\ n \in Nat
    BY <1>1 DEF TypeInv
  <2>2. CASE sgl' = Append(sgl, [addr |-> addr, len |-> len])
    <3>1. [addr |-> addr, len |-> len] \in Entry
      BY <1>10 DEF Entry
    <3> QED BY <2>1, <2>2, <3>1
  <2>3. CASE /\ n > 0
             /\ sgl' = [sgl EXCEPT ![n].len = @ + len]
    <3>1. sgl[n] \in Entry
      BY <2>1, <2>3
    <3>2. [sgl[n] EXCEPT !.len = @ + len] \in Entry
      BY <1>10, <3>1 DEF Entry
    <3>3. sgl' = [sgl EXCEPT ![n] = [sgl[n] EXCEPT !.len = @ + len]]
      BY <2>1, <2>3
    <3> QED BY <2>1, <2>3, <3>2, <3>3
  <2> QED BY <1>6, <2>2, <2>3
<1>15. TypeInv'
  <2>1. i' \in Nat /\ rest' \in Int
    BY <1>1, <1>6, <1>10 DEF TypeInv
  <2> QED BY <1>1, <1>6, <1>14, <2>1 DEF TypeInv, reqVars
<1>16. LoopInv'
  BY <1>1, <1>6, <1>8 DEF IInv, LoopInv, reqVars
<1>17. PagesInv'
  BY <1>1, <1>6, <1>8 DEF PagesInv
<1>18. MapInv(cut2)'
  <2>1. i' \in 1 .. NrPages + 1
    BY <1>3, <1>4, <1>6
  <2>2. rest' = transfer_len' - UpTo[i']
    <3>1. transfer_len' = transfer_len /\ transfer_len \in Nat
      BY <1>1, <1>6 DEF reqVars, TypeInv
    <3> QED BY <1>4, <1>5, <1>6, <1>7, <3>1
  <2>3. cut2[Len(sgl') + 1] = UpTo[i']
    BY <1>5, <1>6, <1>7, <1>12, <1>13
  <2> QED BY <1>8, <1>13, <1>14, <2>1, <2>2, <2>3 DEF MapInv
<1> QED BY <1>1, <1>6, <1>15, <1>16, <1>17, <1>18 DEF IInv

\* With all pages mapped the scatterlist covers the transfer.
LEMMA StartBuildStep ==
  ASSUME IInv, StartBuild
  PROVE  IInv'
<1>1. /\ pc = "map" /\ TypeInv /\ transfer_len > 0 /\ Len(pages) = NrPages
      /\ i > Len(pages)
  BY DEF StartBuild, IInv, LoopInv, PagesInv
<1>2. PICK scut : MapInv(scut)
  BY <1>1 DEF IInv
<1>3. /\ i' = 1 /\ cont_addr' = sgl[1].addr /\ cont_len' = 0
      /\ ep_addr' = req.pos + done /\ desc' = <<>> /\ pc' = "build"
      /\ UNCHANGED <<reqVars, sgVars>>
  BY DEF StartBuild
<1>4. NrPages \in Nat \ {0} /\ i = NrPages + 1
  <2>1. NrPages \in Nat \ {0}
    BY <1>1, Count
  <2> QED BY <1>1, <1>2, <2>1 DEF MapInv
<1>5. /\ SglCut(scut) /\ scut[Len(sgl) + 1] = transfer_len
      /\ Len(sgl) \in Nat \ {0}
  <2>1. Len(sgl) \in Nat
    BY <1>1 DEF TypeInv
  <2>2. UpTo[i] = transfer_len
    BY <1>1, <1>4, PageParts
  <2> QED BY <1>2, <1>4, <2>1, <2>2 DEF MapInv
<1>6. /\ Boundaries' = Boundaries /\ Bus' = Bus /\ NrPages' = NrPages
      /\ Aligned' = Aligned
  BY <1>3, SameTransfer DEF sgVars
<1>7. sgl[1].addr \in Nat
  <2>1. sgl[1] \in Entry
    BY <1>1, <1>5 DEF TypeInv
  <2> QED BY <2>1 DEF Entry
<1>8. TypeInv'
  <2>1. ep_addr' \in Nat
    <3>1. req.pos \in Nat
      BY <1>1, Request
    <3> QED BY <1>1, <1>3, <3>1 DEF TypeInv
  <2>2. desc' \in Seq(Descriptor)
    BY <1>3
  <2> QED BY <1>1, <1>3, <1>7, <2>1, <2>2 DEF TypeInv, reqVars, sgVars
<1>9. LoopInv'
  BY <1>1, <1>3, <1>6 DEF IInv, LoopInv, reqVars
<1>10. PagesInv'
  BY <1>1, <1>3, <1>6 DEF PagesInv, sgVars
<1>11. PICK dcut : dcut = [k \in 1 .. 1 |-> 0]
  OBVIOUS
<1>12. BuildInv(scut, dcut)'
  <2>1. Len(desc') = 0 /\ sgl' = sgl /\ transfer_len' = transfer_len /\ req' = req
        /\ done' = done
    BY <1>3 DEF sgVars, reqVars
  <2>2. SglCut(scut)'
    BY <1>5, <1>6, <2>1 DEF SglCut
  <2>3. DescCut(dcut)'
    BY <1>11, <2>1 DEF DescCut
  <2>4. dcut[Len(desc') + 1] = 0
    BY <1>11, <2>1
  <2>5. 0 \in Boundaries
    BY DEF Boundaries
  <2>6. scut[1] = 0
    BY <1>5 DEF SglCut
  <2>7. 0 <= DescMax - PageSize
    BY SizeAssumption
  <2>8. i' \in 1 .. Len(sgl') /\ Len(desc') < i'
    BY <1>3, <1>5, <2>1
  <2>9. sgl'[i'].addr = cont_addr' + cont_len'
    BY <1>3, <1>7, <2>1
  <2>10. ep_addr' = req'.pos + done' + (IF req'.non_incr THEN 0 ELSE 0)
    BY <1>1, <1>3, <2>1, Request DEF TypeInv
  <2>11. scut[Len(sgl') + 1] = transfer_len'
    BY <1>5, <2>1
  <2> QED BY <1>3, <1>6, <2>2, <2>3, <2>4, <2>5, <2>6, <2>7, <2>8, <2>9, <2>10, <2>11
          DEF BuildInv
<1> QED BY <1>3, <1>8, <1>9, <1>10, <1>12 DEF IInv

\* The current block with entry i added is one run of bus addresses, and not
\* too long for a descriptor if no pages were merged.
LEMMA Block ==
  ASSUME TypeInv, NEW scut, NEW dcut, BuildInv(scut, dcut),
         NEW len, len = cont_len + sgl[i].len
  PROVE  LET c0 == dcut[Len(desc) + 1]
         IN  /\ c0 \in Nat /\ len \in Nat \ {0}
             /\ scut[i + 1] = c0 + len
             /\ sgl[i].addr + sgl[i].len = cont_addr + len
             /\ NotMerged => len <= DescMax
             /\ \A u \in 0 .. len - 1 : Bus[c0 + u] = cont_addr + u
<1> DEFINE c0 == dcut[Len(desc) + 1]
<1>1. i \in 1 .. Len(sgl) /\ Len(desc) \in Nat /\ Len(sgl) \in Nat
  BY DEF BuildInv, TypeInv
<1>2. c0 \in Nat
  <2>1. dcut \in [1 .. Len(desc) + 1 -> Nat] /\ Len(desc) + 1 \in 1 .. Len(desc) + 1
    BY <1>1 DEF BuildInv, DescCut
  <2> QED BY <2>1
<1>3. sgl[i].addr \in Nat /\ sgl[i].len \in Nat
  <2>1. sgl[i] \in Entry
    BY <1>1 DEF TypeInv
  <2> QED BY <2>1 DEF Entry
<1>4. /\ sgl[i].len > 0
      /\ scut[i + 1] = scut[i] + sgl[i].len
      /\ \A u \in 0 .. sgl[i].len - 1 : Bus[scut[i] + u] = sgl[i].addr + u
  BY <1>1 DEF BuildInv, SglCut
<1>5. /\ scut[i] = c0 + cont_len /\ cont_len <= DescMax - PageSize
      /\ sgl[i].addr = cont_addr + cont_len
      /\ \A u \in 0 .. cont_len - 1 : Bus[c0 + u] = cont_addr + u
  BY DEF BuildInv
<1>6. cont_len \in Nat /\ cont_addr \in Nat
  BY DEF TypeInv
<1> HIDE DEF c0
<1>7. len \in Nat \ {0}
  BY <1>3, <1>4, <1>6
<1>8. scut[i + 1] = c0 + len
  BY <1>2, <1>3, <1>4, <1>5, <1>6
<1>9. NotMerged => len <= DescMax
  BY <1>1, <1>3, <1>5, <1>6, SizeAssumption DEF NotMerged
<1>10. ASSUME NEW u \in 0 .. len - 1
       PROVE  Bus[c0 + u] = cont_addr + u
  <2>1. CASE u < cont_len
    BY <1>5, <1>6, <2>1
  <2>2. CASE u >= cont_len
    <3>1. PICK w \in 0 .. sgl[i].len - 1 : u = cont_len + w
      <4>1. u - cont_len \in 0 .. sgl[i].len - 1 /\ u = cont_len + (u - cont_len)
        BY <1>3, <1>6, <1>7, <2>2
      <4> QED BY <4>1
    <3>2. Bus[scut[i] + w] = sgl[i].addr + w
      BY <1>4
    <3>3. scut[i] + w = c0 + u
      BY <1>2, <1>3, <1>5, <1>6, <3>1
    <3>4. sgl[i].addr + w = cont_addr + u
      BY <1>3, <1>5, <1>6, <3>1
    <3> QED BY <3>2, <3>3, <3>4
  <2> QED BY <1>6, <1>7, <2>1, <2>2
<1>11. sgl[i].addr + sgl[i].len = cont_addr + len
  BY <1>3, <1>5, <1>6
<1> QED BY <1>2, <1>7, <1>8, <1>9, <1>10, <1>11 DEF c0

\* The block becomes a descriptor.
LEMMA AppendDesc ==
  ASSUME TypeInv, NEW scut, NEW dcut, BuildInv(scut, dcut),
         desc' = DescSet(cont_len + sgl[i].len),
         UNCHANGED <<reqVars, sgVars>>
  PROVE  /\ desc' \in Seq(Descriptor)
         /\ Len(desc') = Len(desc) + 1
         /\ \E dcut2 : DescCut(dcut2)' /\ dcut2[Len(desc') + 1] = scut[i + 1]
<1> DEFINE n == Len(desc)
           c0 == dcut[n + 1]
<1>0. PICK len : len = cont_len + sgl[i].len
  OBVIOUS
<1>1. /\ c0 \in Nat /\ len \in Nat \ {0}
      /\ scut[i + 1] = c0 + len
      /\ NotMerged => len <= DescMax
      /\ \A u \in 0 .. len - 1 : Bus[c0 + u] = cont_addr + u
  BY <1>0, Block
<1>2. /\ n \in Nat /\ desc \in Seq(Descriptor)
      /\ cont_addr \in Nat /\ ep_addr \in Nat
  BY DEF TypeInv
<1>3. desc' = Append(desc, [rc |-> cont_addr, ep |-> ep_addr, len |-> len])
  BY <1>0 DEF DescSet
<1>4. desc' \in Seq(Descriptor)
  <2>1. [rc |-> cont_addr, ep |-> ep_addr, len |-> len] \in Descriptor
    BY <1>1, <1>2 DEF Descriptor
  <2> QED BY <1>2, <1>3, <2>1
<1>5. Len(desc') = n + 1 /\ n + 1 + 1 = n + 2
  BY <1>2, <1>3
<1>6. \A k \in 1 .. n : desc'[k] = desc[k]
  BY <1>2, <1>3
<1>7. /\ desc'[n + 1].rc = cont_addr /\ desc'[n + 1].ep = ep_addr
      /\ desc'[n + 1].len = len
  BY <1>2, <1>3
<1>8. /\ Boundaries' = Boundaries /\ Bus' = Bus /\ req' = req /\ done' = done
      /\ NotMerged' = NotMerged
  <2>1. Boundaries' = Boundaries /\ Bus' = Bus
    BY SameTransfer DEF sgVars
  <2> QED BY <2>1 DEF reqVars, sgVars, NotMerged
<1>9. /\ dcut \in [1 .. n + 1 -> Nat] /\ dcut[1] = 0
      /\ \A k \in 1 .. n :
           /\ desc[k].len > 0
           /\ NotMerged => desc[k].len <= DescMax
           /\ dcut[k + 1] = dcut[k] + desc[k].len
           /\ dcut[k] \in Boundaries
           /\ \A u \in 0 .. desc[k].len - 1 : Bus[dcut[k] + u] = desc[k].rc + u
           /\ desc[k].ep = req.pos + done + (IF req.non_incr THEN 0 ELSE dcut[k])
  BY DEF BuildInv, DescCut
<1>10. /\ c0 \in Boundaries
       /\ ep_addr = req.pos + done + (IF req.non_incr THEN 0 ELSE c0)
  BY DEF BuildInv
<1>11. PICK dcut2 :
         dcut2 = [k \in 1 .. n + 2 |-> IF k = n + 2 THEN c0 + len ELSE dcut[k]]
  OBVIOUS
<1>12. /\ dcut2 \in [1 .. n + 2 -> Nat] /\ dcut2[n + 2] = c0 + len
       /\ \A k \in 1 .. n + 1 : dcut2[k] = dcut[k]
  BY <1>1, <1>2, <1>9, <1>11
<1>13. dcut2[1] = 0
  BY <1>2, <1>9, <1>12
<1>14. ASSUME NEW k \in 1 .. n + 1
       PROVE  /\ desc'[k].len > 0
              /\ NotMerged => desc'[k].len <= DescMax
              /\ dcut2[k + 1] = dcut2[k] + desc'[k].len
              /\ dcut2[k] \in Boundaries
              /\ \A u \in 0 .. desc'[k].len - 1 : Bus[dcut2[k] + u] = desc'[k].rc + u
              /\ desc'[k].ep = req.pos + done + (IF req.non_incr THEN 0 ELSE dcut2[k])
  <2>1. CASE k \in 1 .. n
    <3>1. dcut2[k] = dcut[k] /\ dcut2[k + 1] = dcut[k + 1] /\ desc'[k] = desc[k]
      BY <1>2, <1>6, <1>12, <2>1
    <3> QED BY <1>9, <2>1, <3>1
  <2>2. CASE k = n + 1
    <3>1. dcut2[k] = c0 /\ dcut2[k + 1] = c0 + len
      <4>1. k + 1 = n + 2 /\ k \in 1 .. n + 1
        BY <1>2, <2>2
      <4> QED BY <1>12, <2>2, <4>1
    <3> QED BY <1>1, <1>7, <1>10, <2>2, <3>1
  <2> QED BY <1>2, <2>1, <2>2
<1>15. /\ dcut2 \in [1 .. Len(desc') + 1 -> Nat]
       /\ dcut2[Len(desc') + 1] = scut[i + 1]
  BY <1>1, <1>5, <1>12
<1>16. DescCut(dcut2)'
  BY <1>5, <1>8, <1>13, <1>14, <1>15 DEF DescCut
<1> QED BY <1>4, <1>5, <1>15, <1>16

\* One iteration of transfer_build, not the last.
LEMMA BuildEntryStep ==
  ASSUME IInv, BuildEntry
  PROVE  IInv'
<1> DEFINE next == sgl[i + 1].addr
<1>1. /\ pc = "build" /\ TypeInv /\ transfer_len > 0 /\ Len(pages) = NrPages
      /\ i < Len(sgl)
  BY DEF BuildEntry, IInv, LoopInv, PagesInv
<1>2. PICK scut, dcut : BuildInv(scut, dcut)
  BY <1>1 DEF IInv
<1>3. PICK len : len = cont_len + sgl[i].len
  OBVIOUS
<1>4. /\ \/ /\ NewDesc(next, len)
            /\ desc' = DescSet(len)
            /\ ep_addr' = IF req.non_incr THEN ep_addr ELSE ep_addr + len
            /\ cont_addr' = next
            /\ cont_len' = 0
         \/ /\ ~NewDesc(next, len)
            /\ cont_len' = len
            /\ UNCHANGED <<desc, ep_addr, cont_addr>>
      /\ i' = i + 1
      /\ UNCHANGED <<pc, reqVars, sgVars>>
  BY <1>3 DEF BuildEntry
<1> DEFINE c0 == dcut[Len(desc) + 1]
<1>5. /\ c0 \in Nat /\ len \in Nat \ {0}
      /\ scut[i + 1] = c0 + len
      /\ sgl[i].addr + sgl[i].len = cont_addr + len
      /\ \A u \in 0 .. len - 1 : Bus[c0 + u] = cont_addr + u
  BY <1>1, <1>2, <1>3, Block
<1>6. /\ SglCut(scut) /\ scut[Len(sgl) + 1] = transfer_len
      /\ DescCut(dcut) /\ i \in 1 .. Len(sgl) /\ Len(desc) < i
      /\ c0 \in Boundaries
      /\ ep_addr = req.pos + done + (IF req.non_incr THEN 0 ELSE c0)
  BY <1>2 DEF BuildInv
<1>7. /\ Len(sgl) \in Nat /\ Len(desc) \in Nat /\ i \in Nat /\ ep_addr \in Nat
      /\ cont_addr \in Nat
      /\ desc \in Seq(Descriptor) /\ sgl \in Seq(Entry) /\ done \in Nat
  BY <1>1 DEF TypeInv
<1>8. req.pos \in Nat
  BY <1>1, Request
<1>9. i + 1 \in 1 .. Len(sgl)
  BY <1>1, <1>6, <1>7
<1>10. next \in Nat
  <2>1. sgl[i + 1] \in Entry
    BY <1>7, <1>9
  <2> QED BY <2>1 DEF Entry
<1>11. scut[i + 1] \in Boundaries
  BY <1>6, <1>9 DEF SglCut
<1>12. /\ Boundaries' = Boundaries /\ Bus' = Bus /\ NrPages' = NrPages
       /\ Aligned' = Aligned
  BY <1>4, SameTransfer DEF sgVars
<1>13. /\ sgl' = sgl /\ transfer_len' = transfer_len /\ req' = req /\ done' = done
       /\ pages' = pages /\ rest' = rest /\ pc' = pc
  BY <1>4 DEF sgVars, reqVars
<1>14. SglCut(scut)' /\ scut[Len(sgl') + 1] = transfer_len'
  BY <1>6, <1>12, <1>13 DEF SglCut
<1>15. i' \in 1 .. Len(sgl') /\ i' \in Nat
  BY <1>4, <1>7, <1>9, <1>13
<1>16. LoopInv'
  BY <1>1, <1>12, <1>13 DEF IInv, LoopInv
<1>17. PagesInv'
  BY <1>1, <1>12, <1>13 DEF PagesInv
<1> HIDE DEF c0, next
<1>18. CASE /\ NewDesc(next, len)
            /\ desc' = DescSet(len)
            /\ ep_addr' = IF req.non_incr THEN ep_addr ELSE ep_addr + len
            /\ cont_addr' = next
            /\ cont_len' = 0
  <2>1. /\ desc' \in Seq(Descriptor) /\ Len(desc') = Len(desc) + 1
        /\ \E dcut2 : DescCut(dcut2)' /\ dcut2[Len(desc') + 1] = scut[i + 1]
    BY <1>1, <1>2, <1>3, <1>4, <1>18, AppendDesc
  <2>2. PICK dcut2 : DescCut(dcut2)' /\ dcut2[Len(desc') + 1] = scut[i + 1]
    BY <2>1
  <2>3. /\ ep_addr' \in Nat
        /\ ep_addr' = req.pos + done + (IF req.non_incr THEN 0 ELSE c0 + len)
    <3>1. CASE req.non_incr
      BY <1>6, <1>7, <1>18, <3>1
    <3>2. CASE ~req.non_incr
      <4>1. ep_addr' = ep_addr + len /\ ep_addr = req.pos + done + c0
        BY <1>6, <1>18, <3>2
      <4>2. /\ c0 \in Nat /\ len \in Nat /\ req.pos \in Nat /\ done \in Nat
            /\ ep_addr \in Nat
        BY <1>5, <1>7, <1>8
      <4>3. (req.pos + done + c0) + len = req.pos + done + (c0 + len)
        BY <4>2
      <4>4. ep_addr + len \in Nat
        BY <4>2
      <4>5. ep_addr' = req.pos + done + (c0 + len)
        BY <4>1, <4>3
      <4> QED BY <3>2, <4>1, <4>4, <4>5
    <3> QED BY <3>1, <3>2
  <2>4. TypeInv'
    BY <1>1, <1>10, <1>13, <1>15, <1>18, <2>1, <2>3 DEF TypeInv
  <2>5. Len(desc') < i'
    BY <1>4, <1>6, <1>7, <2>1
  <2>6. scut[i'] = scut[i + 1] + cont_len' /\ 0 <= DescMax - PageSize
    BY <1>4, <1>5, <1>18, SizeAssumption
  <2>7. sgl'[i'].addr = cont_addr' + cont_len'
    BY <1>4, <1>10, <1>13, <1>18 DEF next
  <2>8. \A u \in 0 .. cont_len' - 1 : Bus[scut[i + 1] + u] = cont_addr' + u
    BY <1>18
  <2>9. ep_addr' = req'.pos + done' + (IF req'.non_incr THEN 0 ELSE scut[i + 1])
    BY <1>5, <1>13, <2>3
  <2>10. BuildInv(scut, dcut2)'
    BY <1>11, <1>12, <1>14, <1>15, <1>18, <2>2, <2>5, <2>6, <2>7, <2>8, <2>9
       DEF BuildInv
  <2> QED BY <1>1, <1>13, <1>16, <1>17, <2>4, <2>10 DEF IInv
<1>19. CASE /\ ~NewDesc(next, len)
            /\ cont_len' = len
            /\ UNCHANGED <<desc, ep_addr, cont_addr>>
  <2>1. next = cont_addr + len /\ len <= DescMax - PageSize
    <3>1. next = sgl[i].addr + sgl[i].len /\ ~(len > DescMax - PageSize)
      BY <1>19 DEF NewDesc
    <3> QED BY <1>5, <3>1, SizeAssumption
  <2>2. TypeInv'
    BY <1>1, <1>5, <1>13, <1>15, <1>19 DEF TypeInv
  <2>3. DescCut(dcut)'
    <3>1. NotMerged' = NotMerged
      BY <1>13 DEF NotMerged
    <3> QED BY <1>6, <1>12, <1>13, <1>19, <3>1 DEF DescCut
  <2>4. dcut[Len(desc') + 1] = c0
    BY <1>19 DEF c0
  <2>5. Len(desc') < i'
    BY <1>4, <1>6, <1>7, <1>19
  <2>6. scut[i'] = c0 + cont_len' /\ cont_len' <= DescMax - PageSize
    BY <1>4, <1>5, <1>19, <2>1
  <2>7. sgl'[i'].addr = cont_addr' + cont_len'
    BY <1>4, <1>13, <1>19, <2>1 DEF next
  <2>8. \A u \in 0 .. cont_len' - 1 : Bus[c0 + u] = cont_addr' + u
    BY <1>5, <1>19
  <2>9. ep_addr' = req'.pos + done' + (IF req'.non_incr THEN 0 ELSE c0)
    BY <1>6, <1>13, <1>19
  <2>10. BuildInv(scut, dcut)'
    BY <1>6, <1>12, <1>14, <1>15, <2>3, <2>4, <2>5, <2>6, <2>7, <2>8, <2>9
       DEF BuildInv
  <2> QED BY <1>1, <1>13, <1>16, <1>17, <2>2, <2>10 DEF IInv
<1> QED BY <1>4, <1>18, <1>19

\* There were never more descriptors than entries, and the last one ends where
\* the transfer does.
LEMMA BuildLastStep ==
  ASSUME IInv, BuildLast
  PROVE  IInv'
<1>1. /\ pc = "build" /\ TypeInv /\ transfer_len > 0 /\ Len(pages) = NrPages
      /\ i = Len(sgl)
  BY DEF BuildLast, IInv, LoopInv, PagesInv
<1>2. PICK scut, dcut : BuildInv(scut, dcut)
  BY <1>1 DEF IInv
<1>3. ~(Len(desc) > Len(sgl))
  <2>1. Len(desc) < i
    BY <1>2 DEF BuildInv
  <2>2. Len(desc) \in Nat /\ Len(sgl) \in Nat
    BY <1>1 DEF TypeInv
  <2> QED BY <1>1, <2>1, <2>2
<1>4. /\ pc' = "queued" /\ desc' = DescSet(cont_len + sgl[i].len)
      /\ UNCHANGED <<reqVars, sgVars, i, cont_addr, cont_len, ep_addr>>
  BY <1>3 DEF BuildLast
<1>5. /\ desc' \in Seq(Descriptor)
      /\ \E dcut2 : DescCut(dcut2)' /\ dcut2[Len(desc') + 1] = scut[i + 1]
  BY <1>1, <1>2, <1>4, AppendDesc
<1>6. scut[i + 1] = transfer_len
  BY <1>1, <1>2 DEF BuildInv
<1>7. NrPages' = NrPages /\ Aligned' = Aligned
  BY <1>4, SameTransfer
<1>8. TypeInv'
  BY <1>1, <1>4, <1>5 DEF TypeInv, reqVars, sgVars
<1>9. LoopInv'
  BY <1>1, <1>4, <1>7 DEF IInv, LoopInv, reqVars
<1>10. PagesInv'
  BY <1>1, <1>4, <1>7 DEF PagesInv, sgVars
<1>11. \E dcut2 : QueuedInv(dcut2)'
  <2>1. transfer_len' = transfer_len
    BY <1>4 DEF reqVars
  <2> QED BY <1>5, <1>6, <2>1 DEF QueuedInv
<1> QED BY <1>4, <1>8, <1>9, <1>10, <1>11 DEF IInv

\* Nothing changes.
LEMMA StutterStep ==
  ASSUME IInv, UNCHANGED vars
  PROVE  IInv'
<1>1. UNCHANGED <<pc, req, done, transfer_len, pages, rest, sgl, i, cont_addr,
                  cont_len, ep_addr, desc>>
  BY DEF vars, reqVars, sgVars, buildVars
<1>2. /\ Boundaries' = Boundaries /\ UpTo' = UpTo /\ NrPages' = NrPages
      /\ Aligned' = Aligned /\ Bus' = Bus
  BY SameTransfer DEF vars, reqVars, sgVars
<1>3. TypeInv' /\ LoopInv' /\ PagesInv'
  BY <1>1, <1>2 DEF IInv, TypeInv, LoopInv, PagesInv
<1>4. ASSUME NEW cut
      PROVE  (SglCut(cut) => SglCut(cut)') /\ (DescCut(cut) => DescCut(cut)')
  <2>1. NotMerged' = NotMerged
    BY <1>1 DEF NotMerged
  <2> QED BY <1>1, <1>2, <2>1 DEF SglCut, DescCut
<1>5. ASSUME NEW cut, MapInv(cut)
      PROVE  MapInv(cut)'
  BY <1>1, <1>2, <1>4, <1>5 DEF MapInv
<1>6. ASSUME NEW scut, NEW dcut, BuildInv(scut, dcut)
      PROVE  BuildInv(scut, dcut)'
  BY <1>1, <1>2, <1>4, <1>6 DEF BuildInv
<1>7. ASSUME NEW dcut, QueuedInv(dcut)
      PROVE  QueuedInv(dcut)'
  BY <1>1, <1>4, <1>7 DEF QueuedInv
<1> QED BY <1>1, <1>3, <1>5, <1>6, <1>7 DEF IInv

\* No request has begun.
LEMMA Initial ==
  ASSUME Init
  PROVE  IInv
<1>1. TypeInv
  BY DEF Init, TypeInv
<1>2. req.count \in Nat /\ PageSize \in Nat \ {0}
  BY <1>1, Request
<1>3. LoopInv
  BY <1>2 DEF Init, LoopInv
<1>4. PagesInv
  BY DEF Init, PagesInv
<1> QED BY <1>1, <1>3, <1>4 DEF IInv, Init

\* The inductive invariant.
LEMMA IInvHolds == Spec => []IInv
<1>1. Init => IInv
  BY Initial
<1>2. IInv /\ [Next]_vars => IInv'
  BY CheckSteps, GiveUpSteps, BeginTransferStep, CompleteStep, FailStep, PinStep,
     MapPageStep, StartBuildStep, BuildEntryStep, BuildLastStep, StutterStep
     DEF Next, Finished
<1> QED BY <1>1, <1>2, PTL DEF Spec

-----------------------------------------------------------------------------
(***************************************************************************)
(* The theorems.                                                           *)
(***************************************************************************)
\* CleanReturn: whatever the request and wherever its pages lie, no BUG_ON about
\* page counts, lengths or the number of descriptors is met by transfer_create,
\* and char_sgdma_read_write returns with its pages put (or, interrupted, with
\* exactly those of the transfer in flight).
THEOREM CleanReturnHolds == Spec => []CleanReturn
<1>1. IInv => CleanReturn
  BY DEF IInv, LoopInv, PagesInv, CleanReturn
<1> QED BY <1>1, IInvHolds, PTL

\* The least number of a set of naturals; with it, induction.
LEMMA LeastNat ==
  ASSUME NEW T, T \subseteq Nat, T # {}
  PROVE  \E x \in T : \A y \in T : x <= y
<1> DEFINE R == OpToRel(<, Nat)
<1>1. \A x, y \in Nat : x < y => <<x, y>> \in R
  BY DEF OpToRel
<1>2. IsWellFoundedOn(R, Nat)
  BY NatLessThanWellFounded
<1> HIDE DEF R
<1>3. PICK x \in T : \A y \in T : ~(<<y, x>> \in R)
  BY <1>2, WFMin
<1>4. \A y \in T : ~(y < x)
  BY <1>1, <1>3
<1> QED BY <1>4

\* Two functions that begin alike and grow alike are alike.
Grows(f, d, n) == \A k \in 1 .. n : f[k + 1] = f[k] + d[k]

\* Two functions that start and grow alike are equal.
LEMMA SameSums ==
  ASSUME NEW n \in Nat, NEW f, NEW g, NEW d, f[1] = g[1],
         Grows(f, d, n), Grows(g, d, n)
  PROVE  \A k \in 1 .. n + 1 : f[k] = g[k]
<1> DEFINE T == {k \in 1 .. n + 1 : f[k] # g[k]}
<1> SUFFICES ASSUME T # {} PROVE FALSE
  OBVIOUS
<1>1. PICK x \in T : \A y \in T : x <= y
  <2>1. T \subseteq Nat
    OBVIOUS
  <2> HIDE DEF T
  <2> QED BY <2>1, LeastNat
<1>2. x - 1 \in 1 .. n /\ x - 1 \notin T
  BY <1>1
<1>3. f[x] = g[x]
  <2>1. (x - 1) + 1 = x /\ f[x - 1] = g[x - 1]
    BY <1>2
  <2>2. f[x] = f[x - 1] + d[x - 1] /\ g[x] = g[x - 1] + d[x - 1]
    BY <1>2, <2>1 DEF Grows
  <2> QED BY <2>1, <2>2
<1> QED BY <1>3

\* The sums of the descriptors' lengths are where the cut says.
LEMMA BeforeIsCut ==
  ASSUME TypeInv, NEW cut, DescCut(cut)
  PROVE  \A k \in 1 .. Len(desc) + 1 : Before[k] = cut[k]
<1> DEFINE n == Len(desc)
<1>1. n \in Nat /\ cut \in [1 .. n + 1 -> Nat] /\ cut[1] = 0
  BY DEF TypeInv, DescCut
<1>2. \A k \in 1 .. n : cut[k + 1] = cut[k] + desc[k].len
  BY DEF DescCut
<1>3. cut = [k \in 1 .. n + 1 |-> IF k = 1 THEN 0 ELSE cut[k - 1] + desc[k - 1].len]
  <2>1. \A k \in 2 .. n + 1 : cut[k] = cut[k - 1] + desc[k - 1].len
    <3> TAKE k \in 2 .. n + 1
    <3>1. k - 1 \in 1 .. n /\ (k - 1) + 1 = k
      BY <1>1
    <3> QED BY <1>2, <3>1
  <2>2. \A k \in 1 .. n + 1 :
          cut[k] = IF k = 1 THEN 0 ELSE cut[k - 1] + desc[k - 1].len
    BY <1>1, <2>1
  <2> QED BY <1>1, <2>2
<1>4. Before = [k \in 1 .. n + 1 |->
                 IF k = 1 THEN 0 ELSE Before[k - 1] + desc[k - 1].len]
  BY <1>3 DEF Before
<1>5. Before[1] = 0 /\ \A k \in 1 .. n : Before[k + 1] = Before[k] + desc[k].len
  <2>1. Before[1] = 0
    BY <1>1, <1>4
  <2>2. ASSUME NEW k \in 1 .. n
        PROVE  Before[k + 1] = Before[k] + desc[k].len
    <3>1. k + 1 \in 1 .. n + 1 /\ k + 1 # 1 /\ (k + 1) - 1 = k
      BY <1>1
    <3> QED BY <1>4, <3>1
  <2> QED BY <2>1, <2>2
<1> DEFINE d == [k \in 1 .. n |-> desc[k].len]
<1>6. Grows(Before, d, n) /\ Grows(cut, d, n)
  BY <1>2, <1>5 DEF Grows
<1>7. Before[1] = cut[1]
  BY <1>1, <1>5
<1> HIDE DEF d, n
<1>8. \A k \in 1 .. n + 1 : Before[k] = cut[k]
  BY <1>1, <1>6, <1>7, SameSums
<1> QED BY <1>8 DEF n

\* BufferCovered: the descriptors of a queued transfer go through its part of
\* the user buffer in order, without gap or overlap, each unit at the bus
\* address of its page and from the device address the request has come to; all
\* from one device address if it does not increment, in the first transfer the
\* one of the request.
THEOREM BufferCoveredHolds == Spec => []BufferCovered
<1>1. ASSUME IInv, pc = "queued"
      PROVE  /\ Before[Len(desc) + 1] = transfer_len
             /\ \A k \in DOMAIN desc :
                  LET o == done + Before[k]
                  IN  /\ \A u \in 0 .. desc[k].len - 1 :
                           BusAddress(o + u) = desc[k].rc + u
                      /\ ~req.non_incr => desc[k].ep = req.pos + o
                      /\ req.non_incr => /\ desc[k].ep = desc[1].ep
                                         /\ done = 0 => desc[k].ep = req.pos
  <2>1. PICK cut : DescCut(cut) /\ cut[Len(desc) + 1] = transfer_len
    BY <1>1 DEF IInv, QueuedInv
  <2>2. TypeInv /\ Len(desc) \in Nat /\ done \in Nat /\ DOMAIN desc = 1 .. Len(desc)
    BY <1>1 DEF IInv, TypeInv
  <2>3. \A k \in 1 .. Len(desc) + 1 : Before[k] = cut[k]
    BY <2>1, <2>2, BeforeIsCut
  <2>4. Before[Len(desc) + 1] = transfer_len
    BY <2>1, <2>2, <2>3
  <2>5. req.pos \in Nat
    BY <2>2, Request
  <2>6. ASSUME NEW k \in 1 .. Len(desc)
        PROVE  /\ \A u \in 0 .. desc[k].len - 1 :
                    BusAddress(done + Before[k] + u) = desc[k].rc + u
               /\ desc[k].ep
                    = req.pos + (IF req.non_incr THEN done ELSE done + Before[k])
    <3>1. Before[k] = cut[k] /\ cut[k] \in Nat
      <4>1. k \in 1 .. Len(desc) + 1 /\ cut \in [1 .. Len(desc) + 1 -> Nat]
        BY <2>1, <2>2 DEF DescCut
      <4> QED BY <2>3, <4>1
    <3>2. /\ \A u \in 0 .. desc[k].len - 1 : Bus[cut[k] + u] = desc[k].rc + u
          /\ desc[k].ep = req.pos + done + (IF req.non_incr THEN 0 ELSE cut[k])
      BY <2>1 DEF DescCut
    <3>3. desc[k].len \in Nat
      <4>1. desc[k] \in Descriptor
        BY <2>2 DEF TypeInv
      <4> QED BY <4>1 DEF Descriptor
    <3>4. ASSUME NEW u \in 0 .. desc[k].len - 1
          PROVE  BusAddress(done + Before[k] + u) = desc[k].rc + u
      <4>1. cut[k] + u \in Nat /\ done + (cut[k] + u) = done + cut[k] + u
        BY <2>2, <3>1, <3>3
      <4>2. Bus[cut[k] + u] = BusAddress(done + (cut[k] + u))
        BY <4>1 DEF Bus
      <4> QED BY <3>1, <3>2, <4>1, <4>2
    <3>5. desc[k].ep = req.pos + (IF req.non_incr THEN done ELSE done + Before[k])
      BY <2>2, <2>5, <3>1, <3>2
    <3> QED BY <3>4, <3>5
  <2>7. ASSUME NEW k \in 1 .. Len(desc)
        PROVE  /\ ~req.non_incr => desc[k].ep = req.pos + (done + Before[k])
               /\ req.non_incr => /\ desc[k].ep = desc[1].ep
                                  /\ done = 0 => desc[k].ep = req.pos
    <3>1. 1 \in 1 .. Len(desc)
      BY <2>2
    <3>2. req.non_incr => desc[k].ep = req.pos + done /\ desc[1].ep = req.pos + done
      BY <2>6, <3>1
    <3>3. ~req.non_incr => desc[k].ep = req.pos + (done + Before[k])
      BY <2>6
    <3> QED BY <2>2, <2>5, <3>2, <3>3
  <2> QED BY <2>2, <2>4, <2>6, <2>7
<1>2. IInv => BufferCovered
  BY <1>1 DEF BufferCovered
<1> QED BY <1>2, IInvHolds, PTL

-----------------------------------------------------------------------------
(***************************************************************************)
(* Alignment and adjacent descriptors.                                     *)
(***************************************************************************)
\* No descriptor begins after the end of the transfer.
LEMMA CutBelow ==
  ASSUME TypeInv, NEW cut, DescCut(cut)
  PROVE  \A k \in 1 .. Len(desc) : cut[k] < cut[Len(desc) + 1]
<1> DEFINE n == Len(desc)
           end == cut[n + 1]
           T == {j \in 0 .. n : cut[n + 1 - j] > end}
<1>1. n \in Nat /\ cut \in [1 .. n + 1 -> Nat]
  BY DEF TypeInv, DescCut
<1>2. \A k \in 1 .. n : cut[k + 1] = cut[k] + desc[k].len /\ desc[k].len > 0
  BY DEF DescCut
<1>3. \A k \in 1 .. n : desc[k].len \in Nat
  <2>1. \A k \in 1 .. n : desc[k] \in Descriptor
    BY DEF TypeInv
  <2> QED BY <2>1 DEF Descriptor
<1> HIDE DEF n
<1>4. T = {}
  <2> SUFFICES ASSUME T # {} PROVE FALSE
    OBVIOUS
  <2>1. PICK j \in T : \A y \in T : j <= y
    <3>1. T \subseteq Nat
      BY <1>1
    <3> HIDE DEF T
    <3> QED BY <3>1, LeastNat
  <2>2. j # 0
    BY <1>1
  <2>3. j - 1 \in 0 .. n /\ j - 1 \notin T /\ j \in 0 .. n /\ cut[n + 1 - j] > end
    <3>1. j \in 0 .. n /\ cut[n + 1 - j] > end
      OBVIOUS
    <3>2. j - 1 \in 0 .. n /\ ~(j <= j - 1)
      BY <1>1, <2>2, <3>1
    <3>3. j - 1 \notin T
      <4> HIDE DEF T
      <4> QED BY <2>1, <3>2
    <3> QED BY <3>1, <3>2, <3>3
  <2>4. PICK m \in 1 .. n : m = n + 1 - j
    BY <1>1, <2>2, <2>3
  <2>5. m + 1 = n + 1 - (j - 1)
    BY <1>1, <2>3, <2>4
  <2>6. ~(cut[m + 1] > end) /\ cut[m] > end
    BY <2>3, <2>4, <2>5
  <2>7. cut[m] \in Nat /\ cut[m + 1] \in Nat /\ end \in Nat
    BY <1>1
  <2> QED BY <1>2, <1>3, <2>6, <2>7
<1>5. ASSUME NEW k \in 1 .. n
      PROVE  cut[k] < end
  <2>1. PICK j \in 0 .. n : n + 1 - j = k + 1
    <3>1. n - k \in 0 .. n /\ n + 1 - (n - k) = k + 1
      BY <1>1
    <3> QED BY <3>1
  <2>2. ~(cut[k + 1] > end)
    BY <1>4, <2>1
  <2>3. cut[k] \in Nat /\ cut[k + 1] \in Nat /\ end \in Nat
    BY <1>1
  <2> QED BY <1>2, <1>3, <2>2, <2>3
<1> QED BY <1>5 DEF n

\* Quotients grow with the dividend.
LEMMA DivMono ==
  ASSUME NEW x \in Nat, NEW y \in Nat, NEW p \in Nat \ {0}, x <= y
  PROVE  x \div p <= y \div p
<1> DEFINE q == x \div p
           r == x % p
           s == y \div p
           t == y % p
<1>1. q \in Nat /\ r \in 0 .. p - 1 /\ x = p * q + r
  BY DivMod
<1>2. s \in Nat /\ t \in 0 .. p - 1 /\ y = p * s + t
  BY DivMod
<1>3. q <= s
  <2> HIDE DEF q, r, s, t
  <2>1. s < q => p * s <= p * (q - 1)
    BY <1>1, <1>2
  <2>2. p * (q - 1) = p * q - p
    BY <1>1
  <2> QED BY <1>1, <1>2, <2>1, <2>2
<1> QED BY <1>3

\* The lowest bits of a bus address are those of the user address.
LEMMA LowBits ==
  ASSUME TypeInv, Len(pages) = NrPages, NEW o \in Nat, o < transfer_len
  PROVE  Bus[o] \in Nat /\ Bus[o] % req.align = (Address + o) % req.align
<1> DEFINE x == Address + o
           e == x \div PageSize - Address \div PageSize + 1
           last == Address + transfer_len - 1
           r == x % PageSize
           a == req.align
<1>1. /\ Address \in Nat /\ PageSize \in Nat \ {0} /\ a \in Nat \ {0}
      /\ PageSize % a = 0 /\ req.buf \in Nat
  BY Request
<1>2. transfer_len \in Nat /\ done \in Nat
  BY DEF TypeInv
<1>3. x \in Nat /\ last \in Nat /\ x <= last /\ Address <= x
  BY <1>1, <1>2
<1>4. NrPages = last \div PageSize - Address \div PageSize + 1
  BY DEF NrPages, FirstPage
<1>5. r \in Nat
  <2> HIDE DEF x
  <2> QED BY <1>1, <1>3, DivMod
<1>6. Bus[o] = pages[e] * PageSize + r
  <2>1. req.buf + (done + o) = x
    BY <1>1, <1>2 DEF Address
  <2> QED BY <2>1 DEF Bus, BusAddress, FirstPage
<1>7. e \in 1 .. Len(pages)
  <2> HIDE DEF x, last
  <2>1. /\ x \div PageSize \in Nat /\ Address \div PageSize \in Nat
        /\ last \div PageSize \in Nat
    BY <1>1, <1>3, DivMod
  <2>2. Address \div PageSize <= x \div PageSize
    BY <1>1, <1>3, DivMono
  <2>3. x \div PageSize <= last \div PageSize
    BY <1>1, <1>3, DivMono
  <2> QED BY <1>4, <2>1, <2>2, <2>3
<1>8. pages[e] \in Nat
  <2>1. pages \in Seq(Frames)
    BY DEF TypeInv
  <2> HIDE DEF e
  <2>2. pages[e] \in Frames
    BY <1>7, <2>1
  <2> QED BY <2>2, FrameAssumption
<1> DEFINE f == pages[e]
           b == PageSize \div a
           z == b * f
           w == Bus[o]
<1>9. b \in Nat /\ PageSize = a * b
  <2>1. PageSize \in Nat /\ a \in Nat \ {0}
    BY <1>1
  <2>2. PageSize % a = 0
    BY <1>1
  <2> HIDE DEF a
  <2>3. b \in Nat /\ PageSize = a * b + (PageSize % a)
    BY <2>1, DivMod
  <2> HIDE DEF b
  <2> QED BY <2>1, <2>2, <2>3
<1>10. z \in Int /\ w \in Nat /\ w = r + a * z
  <2>1. f \in Nat /\ w = f * PageSize + r
    BY <1>6, <1>8
  <2> HIDE DEF b, f, w, r
  <2> QED BY <1>1, <1>5, <1>9, <2>1
<1>11. w % a = r % a
  <2>1. a \in Nat \ {0}
    BY <1>1
  <2> HIDE DEF z, r, w, a
  <2> QED BY <1>5, <1>10, <2>1, Congruent
<1>12. r % a = x % a
  <2> HIDE DEF x, a
  <2> QED BY <1>1, <1>3, ModMod
<1> QED BY <1>10, <1>11, <1>12

\* What is a multiple of the page size is aligned.
LEMMA MultipleOfPage ==
  ASSUME TypeInv, NEW x \in Nat, x % PageSize = 0
  PROVE  x % req.align = 0
<1>1. /\ PageSize \in Nat \ {0} /\ req.align \in Nat \ {0}
      /\ PageSize % req.align = 0
  BY Request
<1>2. (x % PageSize) % req.align = x % req.align
  BY <1>1, ModMod
<1>3. 0 % req.align = 0
  BY <1>1
<1> QED BY <1>2, <1>3

\* check_transfer_align looked at the beginning of the request only; every
\* descriptor inherits what it found.
LEMMA DescAligned ==
  ASSUME IInv, pc = "queued", NEW cut, QueuedInv(cut), NEW k \in 1 .. Len(desc)
  PROVE  IF req.streaming \/ req.non_incr
         THEN desc[k].rc % req.align = 0
         ELSE desc[k].rc % req.align = desc[k].ep % req.align
<1> DEFINE o == cut[k]
           a == req.align
<1>1. /\ TypeInv /\ Len(pages) = NrPages /\ Aligned /\ done % PageSize = 0
  BY DEF IInv, LoopInv, PagesInv
<1>2. /\ req.buf \in Nat /\ req.pos \in Nat /\ a \in Nat \ {0} /\ Address \in Nat
      /\ done \in Nat
  BY <1>1, Request DEF TypeInv
<1>3. Len(desc) \in Nat /\ transfer_len \in Nat
  BY <1>1 DEF TypeInv
<1>4. /\ o \in Nat /\ o \in Boundaries /\ desc[k].len > 0
      /\ \A u \in 0 .. desc[k].len - 1 : Bus[o + u] = desc[k].rc + u
      /\ desc[k].ep = req.pos + done + (IF req.non_incr THEN 0 ELSE o)
  BY <1>3 DEF QueuedInv, DescCut
<1>5. desc[k].rc \in Nat /\ desc[k].len \in Nat
  <2>1. desc[k] \in Descriptor
    BY <1>1 DEF TypeInv
  <2> QED BY <2>1 DEF Descriptor
<1>6. Bus[o] = desc[k].rc
  <2>1. 0 \in 0 .. desc[k].len - 1
    BY <1>4, <1>5
  <2>2. Bus[o + 0] = desc[k].rc + 0
    BY <1>4, <2>1
  <2>3. o + 0 = o
    BY <1>4
  <2> QED BY <1>5, <2>2, <2>3
<1>7. o < transfer_len
  BY <1>1, CutBelow DEF QueuedInv
<1>8. desc[k].rc % a = (Address + o) % a
  <2> HIDE DEF o
  <2> QED BY <1>1, <1>4, <1>6, <1>7, LowBits
<1>9. CASE req.streaming \/ req.non_incr
  <2>1. req.buf % a = 0
    BY <1>1, <1>9 DEF Aligned
  <2>2. (Address + o) % a = 0
    <3>1. CASE o = 0
      <4>1. done % a = 0
        BY <1>1, <1>2, MultipleOfPage
      <4>2. (req.buf + done) % a = 0
        BY <1>2, <2>1, <4>1, MultipleSum
      <4>3. Address + o = req.buf + done
        BY <1>2, <3>1 DEF Address
      <4> QED BY <4>2, <4>3
    <3>2. CASE o # 0
      <4>1. (Address + o) % PageSize = 0 /\ Address + o \in Nat
        BY <1>2, <1>4, <3>2 DEF Boundaries
      <4> QED BY <1>1, <4>1, MultipleOfPage
    <3> QED BY <3>1, <3>2
  <2> QED BY <1>8, <1>9, <2>2
<1>10. CASE ~(req.streaming \/ req.non_incr)
  <2>1. req.buf % a = req.pos % a
    BY <1>1, <1>10 DEF Aligned
  <2> DEFINE c == done + o
  <2>2. c \in Nat /\ Address + o = req.buf + c /\ desc[k].ep = req.pos + c
    <3>1. o \in Nat /\ req.buf \in Nat /\ req.pos \in Nat /\ done \in Nat
      BY <1>2, <1>4
    <3> HIDE DEF o
    <3>2. desc[k].ep = req.pos + done + o
      BY <1>4, <1>10
    <3>3. Address + o = req.buf + (done + o)
      BY <3>1 DEF Address
    <3>4. req.pos + done + o = req.pos + (done + o)
      BY <3>1
    <3> QED BY <3>1, <3>2, <3>3, <3>4
  <2>3. (req.buf + c) % a = (req.pos + c) % a
    <3> HIDE DEF c, a
    <3> QED BY <1>2, <2>1, <2>2, SumMod
  <2> HIDE DEF c
  <2> QED BY <1>8, <1>10, <2>2, <2>3
<1> QED BY <1>9, <1>10

\* The least of three numbers.
LEMMA MinOfThree ==
  ASSUME NEW a \in Int, NEW b \in Int, NEW c \in Int
  PROVE  LET m == Min({a, b, c})
         IN  m \in {a, b, c} /\ m <= a /\ m <= b /\ m <= c
<1>1. \E x \in {a, b, c} : \A y \in {a, b, c} : x <= y
  <2>1. CASE a <= b /\ a <= c
    BY <2>1
  <2>2. CASE b <= a /\ b <= c
    BY <2>2
  <2>3. CASE c <= a /\ c <= b
    BY <2>3
  <2> QED BY <2>1, <2>2, <2>3
<1> QED BY <1>1 DEF Min

\* Less than the rest of a page more stays in the page.
LEMMA SameDiv ==
  ASSUME NEW x \in Nat, NEW d \in Nat, NEW p \in Nat \ {0}, (x % p) + d < p
  PROVE  (x + d) \div p = x \div p
<1> DEFINE q == x \div p
           r == x % p
           b == x + d
           t == r + d
<1>1. q \in Nat /\ r \in 0 .. p - 1 /\ x = p * q + r
  BY DivMod
<1>2. t < p
  OBVIOUS
<1> HIDE DEF q, r
<1>3. b \in Nat /\ q \in Int /\ t \in 0 .. p - 1 /\ b = p * q + t
  BY <1>1, <1>2
<1>4. b \div p = q
  <2> HIDE DEF b, t
  <2> QED BY <1>3, DivUnique
<1> QED BY <1>4 DEF q

\* No fetch of adjacent descriptors leaves the list or the 4 KB page.
LEMMA FetchBounds ==
  ASSUME NEW n \in Nat \ {0}
  PROVE  /\ FirstAdjacent(n) < Min({n, DescPerPage})
         /\ \A k \in 0 .. n - 2 :
              /\ k + 1 + Adjacent(k, n) < n
              /\ (k + 1) \div DescPerPage
                   = (k + 1 + Adjacent(k, n)) \div DescPerPage
<1>1. DescPerPage \in Nat \ {0} /\ MaxExtraAdj \in Nat /\ MaxExtraAdj < DescPerPage
  BY SizeAssumption
<1>2. FirstAdjacent(n) < Min({n, DescPerPage})
  <2>1. FirstAdjacent(n) = IF n - 1 <= MaxExtraAdj THEN n - 1 ELSE MaxExtraAdj
    BY <1>1, MinOfTwo DEF FirstAdjacent
  <2>2. Min({n, DescPerPage}) = IF n <= DescPerPage THEN n ELSE DescPerPage
    BY <1>1, MinOfTwo
  <2> QED BY <1>1, <2>1, <2>2
<1>3. ASSUME NEW k \in 0 .. n - 2
      PROVE  /\ k + 1 + Adjacent(k, n) < n
             /\ (k + 1) \div DescPerPage
                  = (k + 1 + Adjacent(k, n)) \div DescPerPage
  <2> DEFINE x == k + 1
             r == x % DescPerPage
             a == n - k - 2
             c == DescPerPage - r - 1
             adj == Min({a, MaxExtraAdj, c})
  <2>1. Adjacent(k, n) = adj
    BY DEF Adjacent
  <2>2. x \in Nat /\ a \in Nat
    OBVIOUS
  <2>3. r \in 0 .. DescPerPage - 1
    <3> HIDE DEF x
    <3> QED BY <1>1, <2>2, DivMod
  <2>4. c \in Nat
    <3> HIDE DEF r
    <3> QED BY <1>1, <2>3
  <2>5. adj \in {a, MaxExtraAdj, c} /\ adj <= a /\ adj <= c
    <3> HIDE DEF a, c
    <3> QED BY <1>1, <2>2, <2>4, MinOfThree
  <2>6. adj \in Nat
    BY <1>1, <2>2, <2>4, <2>5
  <2> HIDE DEF adj
  <2>7. x + adj < n
    BY <2>5, <2>6
  <2>8. r + adj < DescPerPage
    <3> HIDE DEF r
    <3> QED BY <1>1, <2>3, <2>5, <2>6
  <2>9. (x + adj) \div DescPerPage = x \div DescPerPage
    <3> HIDE DEF x
    <3> QED BY <1>1, <2>2, <2>6, <2>8, SameDiv
  <2> QED BY <2>1, <2>7, <2>9
<1> QED BY <1>2, <1>3

\* DescriptorsUsable: no descriptor of a queued transfer is empty or misaligned,
\* none is longer than XDMA_DESC_MAX_BYTES unless pci_map_sg merged pages, and
\* the adjacent counts of xdma_desc_adjacent and engine_start stay within the
\* list and within a 4 KB page.
THEOREM DescriptorsUsableHolds == Spec => []DescriptorsUsable
<1>1. ASSUME IInv, pc = "queued"
      PROVE  DescriptorsUsable
  <2>1. PICK cut : QueuedInv(cut)
    BY <1>1 DEF IInv
  <2>2. /\ Len(desc) \in Nat /\ DOMAIN sgl = 1 .. Len(sgl) /\ transfer_len \in Nat
        /\ transfer_len > 0
    BY <1>1 DEF IInv, TypeInv, LoopInv
  <2>3. Len(desc) # 0
    <3>1. cut[1] = 0 /\ cut[Len(desc) + 1] = transfer_len
      BY <2>1 DEF QueuedInv, DescCut
    <3> QED BY <2>2, <3>1
  <2>4. \A k \in 1 .. Len(desc) :
          /\ desc[k].len > 0
          /\ (\A e \in DOMAIN sgl : sgl[e].len <= PageSize) => desc[k].len <= DescMax
    BY <2>1, <2>2 DEF QueuedInv, DescCut, NotMerged
  <2>5. \A k \in 1 .. Len(desc) :
          IF req.streaming \/ req.non_incr
          THEN desc[k].rc % req.align = 0
          ELSE desc[k].rc % req.align = desc[k].ep % req.align
    BY <1>1, <2>1, DescAligned
  <2> DEFINE n == Len(desc)
  <2>6. /\ FirstAdjacent(n) < Min({n, DescPerPage})
        /\ \A k \in 0 .. n - 2 :
             /\ k + 1 + Adjacent(k, n) < n
             /\ (k + 1) \div DescPerPage
                  = (k + 1 + Adjacent(k, n)) \div DescPerPage
    <3> HIDE DEF n
    <3>1. n \in Nat \ {0}
      BY <2>2, <2>3 DEF n
    <3> QED BY <3>1, FetchBounds
  <2> QED BY <2>4, <2>5, <2>6 DEF DescriptorsUsable
<1>2. IInv => DescriptorsUsable
  BY <1>1 DEF DescriptorsUsable
<1> QED BY <1>2, IInvHolds, PTL

=============================================================================
