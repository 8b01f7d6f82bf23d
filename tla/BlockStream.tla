---------------------------- MODULE BlockStream ----------------------------
(***************************************************************************)
(* What a cyclic acquisition promises the application, without rings,      *)
(* interrupts or threads: the data source fills buffers 1, 2, 3, ...; each *)
(* run of buffers up to an end of packet is published as one block, a pair *)
(* <<lo, hi>> of fill numbers; blocks are handed over in the order they    *)
(* were published.  Every fill is published once and handed over once.     *)
(***************************************************************************)
EXTENDS Naturals, Sequences

VARIABLES filled,     \* buffers filled
          published,  \* last fill that belongs to a published block
          queue,      \* published blocks, oldest first
          got         \* last fill handed over

vars == <<filled, published, queue, got>>

Init == filled = 0 /\ published = 0 /\ queue = <<>> /\ got = 0

Fill == filled' = filled + 1 /\ UNCHANGED <<published, queue, got>>

Publish ==
  \E hi \in published + 1 .. filled :
    /\ queue' = Append(queue, <<published + 1, hi>>)
    /\ published' = hi
    /\ UNCHANGED <<filled, got>>

HandOver ==
  /\ queue # <<>>
  /\ Head(queue)[1] = got + 1
  /\ got' = Head(queue)[2]
  /\ queue' = Tail(queue)
  /\ UNCHANGED <<filled, published>>

Next == Fill \/ Publish \/ HandOver

Spec == Init /\ [][Next]_vars

=============================================================================
