------------------------------ MODULE SgPoll ------------------------------
(***************************************************************************)
(* read() and write() on an SG DMA engine with the module parameter        *)
(* poll_mode = 1 (xdma-core.c).  A request is cut into transfers; for each *)
(* one its thread builds a descriptor list, queues it on the engine,       *)
(* polls the writeback location for the number of descriptors of ITS       *)
(* transfer, and then services the engine under engine->lock: the head of  *)
(* the transfer list, not its own transfer, is completed or failed and the *)
(* engine is started with the next one.                                    *)
(*                                                                         *)
(* A transfer is named <<t, k>>: the k-th of thread t, counted over all    *)
(* the requests it makes one after the other.                              *)
(***************************************************************************)
EXTENDS Integers, Sequences

CONSTANTS
  Threads,    \* threads that call read() or write() on the same engine
  MaxChunks,  \* bound: transfers of all the requests of one thread
  MaxDesc,    \* bound: descriptors of one transfer
  Errors,     \* the engine may stop with an error
  Timeouts    \* POLL_TIMEOUT_SECONDS may pass before the engine is done

ASSUME ChunksAssumption == MaxChunks \in Nat \ {0} /\ MaxDesc \in Nat \ {0}
ASSUME EnvironmentAssumption == Errors \in BOOLEAN /\ Timeouts \in BOOLEAN

Transfers == Threads \X (1 .. MaxChunks)
None == <<>>
Wb == [count : 0 .. MaxDesc, err : BOOLEAN]
NoWb == [count |-> 0, err |-> FALSE]

VARIABLES
  (* the request of each thread *)
  pc,            \* "idle", "poll", "service", "check", or its result
  left,          \* transfers still to do
  chunk,         \* transfers created, in all its requests
  desc_wb,       \* what engine_service_wb_monitor returned
  rc,            \* engine_service_poll failed
  (* transfers *)
  state,         \* transfer->state; "none" before transfer_queue
  desc_num,
  destroyed,     \* ghost: transfers freed by transfer_destroy
  (* the engine's bookkeeping *)
  transfer_list, running, desc_dequeued,
  status,        \* engine->status: busy and error bits as last read
  (* the engine (external) *)
  run,           \* RUN bit of the control register
  busy,
  stat_err,      \* an error bit is latched in the status register
  hw_transfer,   \* the transfer it works on
  hw_count,      \* completed_desc_count
  wb,            \* the writeback location in host memory
  executed,      \* ghost: transfers with every descriptor executed
  bug,           \* a BUG_ON was hit
  after_failure  \* ghost: a thread made a request after one that failed

threadVars == <<pc, left, chunk, desc_wb, rc>>
transVars  == <<state, desc_num, destroyed>>
listVars   == <<transfer_list, running, desc_dequeued, status>>
hwVars     == <<run, busy, stat_err, hw_transfer, hw_count, executed>>
vars == <<threadVars, transVars, listVars, hwVars, wb, bug, after_failure>>

Own(t) == <<t, chunk[t]>>

\* A thread with no transfer to do has returned already.
Init ==
  /\ left \in [Threads -> 0 .. MaxChunks]
  /\ pc = [t \in Threads |-> IF left[t] = 0 THEN "ok" ELSE "idle"]
  /\ chunk = [t \in Threads |-> 0]
  /\ desc_wb = [t \in Threads |-> NoWb]
  /\ rc = [t \in Threads |-> FALSE]
  /\ state = [x \in Transfers |-> "none"]
  /\ desc_num = [x \in Transfers |-> 0]
  /\ destroyed = {}
  /\ transfer_list = <<>> /\ running = FALSE /\ desc_dequeued = 0
  /\ status = [busy |-> FALSE, err |-> FALSE]
  /\ run = FALSE /\ busy = FALSE /\ stat_err = FALSE
  /\ hw_transfer = None /\ hw_count = 0 /\ wb = NoWb /\ executed = {}
  /\ bug = FALSE /\ after_failure = FALSE

-----------------------------------------------------------------------------
\* Mutant: the engine is started with the transfer queued last.
EngineStartNewest(list) ==
  /\ hw_transfer' = list[Len(list)]
  /\ hw_count' = 0
  /\ run' = TRUE /\ busy' = TRUE
  /\ desc_dequeued' = 0
  /\ running' = TRUE

\* engine_start: point the engine to the first transfer of the list, set RUN.
EngineStart(list) ==
  /\ hw_transfer' = Head(list)
  /\ hw_count' = 0
  /\ run' = TRUE /\ busy' = TRUE
  /\ desc_dequeued' = 0
  /\ running' = TRUE

\* transfer_data, up to the point where the transfer is queued:
\* transfer_create (n descriptors) and transfer_queue.
Submit(t, n) ==
  LET x == <<t, chunk[t] + 1>>
      list == Append(transfer_list, x)
  IN  /\ pc[t] = "idle"
      /\ chunk' = [chunk EXCEPT ![t] = @ + 1]
      /\ desc_num' = [desc_num EXCEPT ![x] = n]
      /\ state' = [state EXCEPT ![x] = "submitted"]
      /\ transfer_list' = list
      /\ \/ ~running /\ EngineStart(list)
         \/ /\ running
            /\ UNCHANGED <<running, desc_dequeued, run, busy, hw_transfer,
                           hw_count>>
      /\ pc' = [pc EXCEPT ![t] = "poll"]
      /\ UNCHANGED <<left, desc_wb, rc, destroyed, status, stat_err, executed,
                     wb, bug, after_failure>>

\* transfer_create returns NULL: the request ends with -EIO.
CreateFails(t) ==
  /\ pc[t] = "idle"
  /\ pc' = [pc EXCEPT ![t] = "EIO"]
  /\ left' = [left EXCEPT ![t] = 0]
  /\ UNCHANGED <<chunk, desc_wb, rc, transVars, listVars, hwVars, wb,
                 bug, after_failure>>

-----------------------------------------------------------------------------
(***************************************************************************)
(* The engine (external).  The last descriptor of a transfer has STOP and  *)
(* COMPLETED set: the engine goes idle after it and writes the number of   *)
(* descriptors to the writeback location.                                  *)
(***************************************************************************)
HwDescriptor ==
  /\ busy
  /\ hw_count < desc_num[hw_transfer] - 1
  /\ hw_count' = hw_count + 1
  /\ UNCHANGED <<threadVars, transVars, listVars, run, busy, stat_err,
                 hw_transfer, executed, wb, bug, after_failure>>

HwLastDescriptor ==
  /\ busy
  /\ hw_count = desc_num[hw_transfer] - 1
  /\ hw_count' = hw_count + 1
  /\ busy' = FALSE
  /\ wb' = [count |-> hw_count + 1, err |-> FALSE]
  /\ executed' = executed \union {hw_transfer}
  /\ UNCHANGED <<threadVars, transVars, listVars, run, stat_err, hw_transfer,
                 bug, after_failure>>

HwError ==
  /\ Errors
  /\ busy
  /\ busy' = FALSE
  /\ stat_err' = TRUE
  /\ wb' = [count |-> hw_count, err |-> TRUE]
  /\ UNCHANGED <<threadVars, transVars, listVars, run, hw_transfer, hw_count,
                 executed, bug, after_failure>>

\* RUN was cleared while the engine was busy.
HwHalt ==
  /\ busy /\ ~run
  /\ busy' = FALSE
  /\ UNCHANGED <<threadVars, transVars, listVars, run, stat_err, hw_transfer,
                 hw_count, executed, wb, bug, after_failure>>

-----------------------------------------------------------------------------
\* The two regular exits of engine_service_wb_monitor's loop.  The return before
\* it, for more descriptors than WB_COUNT_MASK (2^24 - 1), cannot be reached: a
\* transfer has at most a few thousand.
WbExpected(t) == wb.err \/ wb.count = desc_num[Own(t)]

Poll(t) ==
  /\ pc[t] = "poll"
  /\ WbExpected(t)
  /\ desc_wb' = [desc_wb EXCEPT ![t] = wb]
  /\ pc' = [pc EXCEPT ![t] = "service"]
  /\ UNCHANGED <<left, chunk, rc, transVars, listVars, hwVars, wb, bug, after_failure>>

\* Mutant: the timeout is only noticed when the count is beyond the expected.
PollTimeoutNested(t) ==
  /\ Timeouts
  /\ pc[t] = "poll"
  /\ wb.count > desc_num[Own(t)]
  /\ desc_wb' = [desc_wb EXCEPT ![t] =
                   [count |-> desc_num[Own(t)], err |-> TRUE]]
  /\ pc' = [pc EXCEPT ![t] = "service"]
  /\ UNCHANGED <<left, chunk, rc, transVars, listVars, hwVars, wb, bug, after_failure>>

\* The timeout: a count beyond the expected one becomes an error.
PollTimeout(t) ==
  /\ Timeouts
  /\ pc[t] = "poll"
  /\ ~WbExpected(t)
  /\ desc_wb' = [desc_wb EXCEPT ![t] =
                   IF wb.count > desc_num[Own(t)]
                   THEN [count |-> desc_num[Own(t)], err |-> TRUE] ELSE wb]
  /\ pc' = [pc EXCEPT ![t] = "service"]
  /\ UNCHANGED <<left, chunk, rc, transVars, listVars, hwVars, wb, bug, after_failure>>

\* Stand-in for 2^32: larger than any count, so that a difference that wraps
\* exceeds every desc_num.
U32 == 2^16

\* descriptors of the first k transfers of the list
DescSum[k \in 0 .. Len(transfer_list)] ==
  IF k = 0 THEN 0 ELSE DescSum[k - 1] + desc_num[transfer_list[k]]

\* Mutant: the last transfer is passed as well when all of it is completed.
PassedAtEnd(c, k) ==
  /\ \A j \in 1 .. k : c - DescSum[j - 1] >= desc_num[transfer_list[j]]
  /\ k < Len(transfer_list) =>
       c - DescSum[k] < desc_num[transfer_list[k + 1]]

\* engine_service_transfer_list: with c descriptors completed, the first k
\* transfers are completed and the next one, if any, is not passed.
Passed(c, k) ==
  /\ \A j \in 1 .. k : c - DescSum[j - 1] > desc_num[transfer_list[j]]
  /\ k < Len(transfer_list) =>
       c - DescSum[k] <= desc_num[transfer_list[k + 1]]

\* Mutant: a transfer that stopped half-way counts as completed.
FinalStateCompleted(c, n) == "completed"

\* engine_service_final_transfer: the state of the transfer the engine
\* stopped on, of n descriptors, when c of them are completed.
FinalState(c, n) == IF c < n THEN "failed" ELSE "completed"

(***************************************************************************)
(* engine_service(desc_wb) of a running engine with transfers on the list. *)
(***************************************************************************)
EngineService(t) ==
  LET w == desc_wb[t]
      reads == w.count = 0 \/ w.err   \* the status register is read
      stat == IF reads THEN [busy |-> busy, err |-> stat_err] ELSE status
      stops == ~stat.busy \/ w.count # 0
      count == IF w.count = 0 THEN hw_count ELSE w.count
      c == (count - desc_dequeued) % U32
  IN  \E k \in 0 .. Len(transfer_list) :
      /\ Passed(c, k)
      /\ status' = stat
      /\ stat_err' = (stat_err /\ ~reads)
      /\ rc' = [rc EXCEPT ![t] = w.err]
      /\ \/ \* no transfer left for engine_service_final_transfer: BUG_ON
            /\ k = Len(transfer_list)
            /\ bug' = TRUE
            /\ state' = [y \in Transfers |->
                           IF \E j \in 1 .. k : y = transfer_list[j]
                           THEN "completed" ELSE state[y]]
            /\ transfer_list' = <<>>
            /\ running' = ~stops
            /\ run' = (run /\ ~stops)
            /\ desc_dequeued' = desc_dequeued + DescSum[k]
            /\ UNCHANGED <<busy, hw_transfer, hw_count, executed, wb>>
         \/ /\ k < Len(transfer_list)
            /\ LET x == transfer_list[k + 1]
                   final == IF stat.err THEN "failed"
                            ELSE FinalState(c - DescSum[k], desc_num[x])
                   gone == IF stat.err THEN k ELSE k + 1
                   list == SubSeq(transfer_list, gone + 1, Len(transfer_list))
               IN  /\ state' = [y \in Transfers |->
                                  IF y = x THEN final
                                  ELSE IF \E j \in 1 .. k : y = transfer_list[j]
                                       THEN "completed" ELSE state[y]]
                   /\ transfer_list' = list
                   /\ \/ \* engine_service_resume starts the engine again
                         stops /\ list # <<>> /\ EngineStart(list)
                      \/ /\ ~(stops /\ list # <<>>)
                         /\ running' = ~stops
                         /\ run' = (run /\ ~stops /\ ~stat.err)
                         /\ desc_dequeued' = desc_dequeued + DescSum[gone]
                         /\ UNCHANGED <<busy, hw_transfer, hw_count>>
            /\ wb' = NoWb
            /\ UNCHANGED <<executed, bug>>

\* engine_service when the engine is not running: only the status is cleared.
ServiceNotRunning(t) ==
  LET clears == desc_wb[t] = NoWb
  IN  /\ status' = IF clears THEN [busy |-> busy, err |-> stat_err] ELSE status
      /\ stat_err' = (stat_err /\ ~clears)
      /\ rc' = [rc EXCEPT ![t] = FALSE]
      /\ UNCHANGED <<state, transfer_list, running, desc_dequeued, run, busy,
                     hw_transfer, hw_count, executed, wb, bug>>

\* The critical section of engine_service_poll.
Service(t) ==
  /\ pc[t] = "service"
  /\ pc' = [pc EXCEPT ![t] = "check"]
  /\ \/ running /\ EngineService(t)
     \/ ~running /\ ServiceNotRunning(t)
  /\ desc_wb' = [desc_wb EXCEPT ![t] = NoWb]   \* a local variable, gone
  /\ UNCHANGED <<left, chunk, desc_num, destroyed, after_failure>>

-----------------------------------------------------------------------------
\* The end of transfer_data's loop body: is the transfer off the engine?
\* A transfer still "submitted" while rc = 0 counts as done.
Failed(t) == state[Own(t)] = "failed"
StillQueued(t) == state[Own(t)] = "submitted"

\* Mutant: the loop runs once more when nothing remains.
ProgressOneMore(t) ==
  /\ left' = [left EXCEPT ![t] = @ - 1]
  /\ pc' = [pc EXCEPT ![t] = IF left[t] = 0 THEN "ok" ELSE "idle"]

\* One transfer less; after the last one the request returns its size.
Progress(t) ==
  /\ left' = [left EXCEPT ![t] = @ - 1]
  /\ pc' = [pc EXCEPT ![t] = IF left[t] = 1 THEN "ok" ELSE "idle"]

Check(t) ==
  /\ pc[t] = "check"
  /\ \/ /\ Failed(t)
        /\ pc' = [pc EXCEPT ![t] = "EIO"]
        /\ left' = [left EXCEPT ![t] = 0]
        /\ destroyed' = destroyed \union {Own(t)}
        /\ UNCHANGED status
     \/ /\ ~Failed(t) /\ ~StillQueued(t)
        /\ destroyed' = destroyed \union {Own(t)}
        /\ Progress(t)
        /\ UNCHANGED status
     \/ /\ StillQueued(t) /\ rc[t]
        /\ pc' = [pc EXCEPT ![t] = "ERESTARTSYS"]
        /\ left' = [left EXCEPT ![t] = 0]
        /\ status' = [busy |-> busy, err |-> stat_err]   \* engine_status_read
        /\ UNCHANGED destroyed
     \/ /\ StillQueued(t) /\ ~rc[t]
        /\ Progress(t)
        /\ UNCHANGED <<destroyed, status>>
  /\ rc' = [rc EXCEPT ![t] = FALSE]   \* set again before it is used again
  /\ UNCHANGED <<chunk, desc_wb, state, desc_num, transfer_list, running,
                 desc_dequeued, hwVars, wb, bug, after_failure>>

Returned(t) == pc[t] \in {"ok", "EIO", "ERESTARTSYS"}

\* The thread calls read() or write() again, for n transfers.
NewRequest(t, n) ==
  /\ Returned(t)
  /\ chunk[t] + n <= MaxChunks
  /\ left' = [left EXCEPT ![t] = n]
  /\ pc' = [pc EXCEPT ![t] = "idle"]
  /\ after_failure' = (after_failure \/ pc[t] # "ok")
  /\ UNCHANGED <<chunk, desc_wb, rc, transVars, listVars, hwVars, wb, bug>>

\* Nothing more happens: all requests returned, or a BUG_ON stopped them.
Finished ==
  /\ bug \/ \A t \in Threads : Returned(t)
  /\ UNCHANGED vars

Step(t) == (\E n \in 1 .. MaxDesc : Submit(t, n)) \/ Poll(t) \/ Service(t)
             \/ Check(t)

Hardware == HwDescriptor \/ HwLastDescriptor \/ HwError \/ HwHalt

Next == \/ ~bug /\ \E t \in Threads :
                     \/ Step(t) \/ PollTimeout(t) \/ CreateFails(t)
                     \/ \E n \in 1 .. MaxChunks : NewRequest(t, n)
        \/ ~bug /\ Hardware
        \/ Finished

Spec == Init /\ [][Next]_vars

\* Threads run, and the poll loop ends at its timeout if nothing else ends it.
\* Nothing is assumed of the engine: it may hang; and nobody has to make another
\* request.
LiveSpec ==
  /\ Spec
  /\ \A t \in Threads : WF_vars(~bug /\ (Step(t) \/ PollTimeout(t)))

-----------------------------------------------------------------------------
\* Types; in particular the writeback count is never beyond a transfer's length.
TypeOK ==
  /\ pc \in [Threads -> {"idle", "poll", "service", "check", "ok", "EIO",
                         "ERESTARTSYS"}]
  /\ left \in [Threads -> 0 .. MaxChunks]
  /\ chunk \in [Threads -> 0 .. MaxChunks]
  /\ desc_wb \in [Threads -> Wb] /\ wb \in Wb
  /\ rc \in [Threads -> BOOLEAN]
  /\ state \in [Transfers -> {"none", "submitted", "completed", "failed"}]
  /\ desc_num \in [Transfers -> 0 .. MaxDesc]
  /\ destroyed \subseteq Transfers /\ executed \subseteq Transfers
  /\ transfer_list \in Seq(Transfers)
  /\ running \in BOOLEAN /\ desc_dequeued \in Nat
  /\ status \in [busy : BOOLEAN, err : BOOLEAN]
  /\ run \in BOOLEAN /\ busy \in BOOLEAN /\ stat_err \in BOOLEAN
  /\ hw_transfer \in Transfers \union {None} /\ hw_count \in 0 .. MaxDesc
  /\ bug \in BOOLEAN /\ after_failure \in BOOLEAN

\* t is the only thread that ever queued a transfer on the engine, and every
\* request it made before the current one returned its full size.
Alone(t) ==
  /\ ~after_failure
  /\ \A u \in Threads \ {t} : chunk[u] = 0

\* A read() or write() that returns its full size has moved all of it: every
\* transfer of the request was executed to its last descriptor, whatever errors
\* and timeouts happened on the way.  Claimed while t alone used the engine and
\* no request of its failed before: a failed request can leave a transfer on the
\* list, or engine->running set, for the next one to meet.
SuccessMeansDone ==
  \A t \in Threads :
    pc[t] = "ok" /\ Alone(t) =>
      \A k \in 1 .. chunk[t] : <<t, k>> \in executed

\* "mark transfer as succesfully completed" (xdma-core.c:1271): a transfer is
\* marked so only when the engine has executed all of it.
CompletedMeansExecuted ==
  \A x \in Transfers : state[x] = "completed" => x \in executed

\* As long as no transfer failed, engine->running and the list stay in step
\* however many threads service the engine, also late and with an old writeback
\* value: while it is set the engine was pointed to the head of the list, and
\* while it is clear nothing waits on the list for a start nobody would give.
\* No transfer on the list has been freed by transfer_destroy.  (After an error
\* a failed transfer stays on the list, is freed, and is started again.)
EngineFollowsList ==
  ~bug /\ (\A x \in Transfers : state[x] # "failed")
       => /\ IF running
             THEN transfer_list # <<>> /\ hw_transfer = Head(transfer_list)
             ELSE transfer_list = <<>>
          /\ \A j \in DOMAIN transfer_list : transfer_list[j] \notin destroyed

\* The requests of a thread that alone uses the engine, up to and including the
\* first that fails by a timeout or an error, never meet the BUG_ON(!transfer) of
\* engine_service_final_transfer, where the transfer list is used up although the
\* engine is running.  The request after a failed one is not included: a timeout
\* leaves engine->running set and desc_dequeued at the length of the transfer
\* (xdma-core.c:1278), so the next request's count wraps (1426), its transfer is
\* passed (1167) and the BUG_ON is met (1232).
NoBugAlone == (\E t \in Threads : Alone(t)) => ~bug

\* Every request returns, also when the engine hangs ("prevent system from
\* hanging in polled mode", xdma-core.c:1509), unless a BUG_ON ends the driver.
RequestReturns == \A t \in Threads : []<>(Returned(t) \/ bug)

=============================================================================
