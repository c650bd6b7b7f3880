------------------------------ MODULE EHCIAsync ------------------------------
(***************************************************************************)
(* The asynchronous schedule of the EHCI driver, WiiEHCI.                  *)
(*                                                                         *)
(* Every pipe has a queue head, whose overlay the controller works from,   *)
(* and a list of transactions, each a chain of qTDs.  A dummy qTD ends the *)
(* chain; a new transaction takes its place.  The driver rewrites a queue  *)
(* head only after it has stopped the schedule, and waits a bounded time   *)
(* for that.                                                               *)
(*                                                                         *)
(* The driver runs in the gate of its workloop, but completions call       *)
(* clients, and clients submit: "stack" holds the calls under way, the     *)
(* running one first.  The controller runs beside it.                      *)
(***************************************************************************)
EXTENDS Naturals, SequencesExt

CONSTANTS
  Pipe,          \* function, endpoint and direction, or a control endpoint
  InPipe,        \* those whose transfers are read: they may end short
  Transfer,      \* calls of UIMCreateControlTransfer or UIMCreateBulkTransfer,
                 \* numbered in the order of the calls
  QTD,           \* the pool, kWiiEHCIAsyncTransferCount of them
  Pool,          \* their order in the free list
  MaxChunks,     \* bound: qTDs of one transfer
  MaxOps,        \* bound: creates, aborts, clears, deletes and timeouts
  MaxTimeouts,   \* bound: waits for the schedule that time out
  ResubmitIn,    \* the calls whose completions submit: scan, abort, delete
  None

ASSUME AsyncAssumption ==
  /\ InPipe \subseteq Pipe /\ Transfer \subseteq Nat
  /\ None \notin QTD /\ None \notin Pipe /\ None \notin Transfer
  /\ Pool \in Seq(QTD) /\ ToSet(Pool) = QTD /\ IsInjective(Pool)
  /\ MaxChunks \in Nat \ {0} /\ {MaxOps, MaxTimeouts} \subseteq Nat
  /\ ResubmitIn \subseteq {"scan", "abort", "delete"}

VARIABLES
  free,       \* _freeAsyncTransferHead, linked by nextFree
  open,       \* _endpointStateHead and the ring of queue heads, newest first
  dummy,      \* dummyTransfer
  queue,      \* transactionHead to transactionTail
  chunks,     \* firstTransfer to lastTransfer of each transaction
  mem,        \* qTDs in memory: next, token, interrupt on completion
  overlay,    \* queue heads in memory: current and next qTD, token
  enabled,    \* AsyncScheduleEnable in USBCMD
  running,    \* AsyncScheduleStatus in USBSTS
  usbint,     \* USBInterrupt or USBErrorInterrupt in USBSTS
  stack,      \* calls under way in the driver, innermost first
  failed,     \* the last wait for the schedule timed out
  timeouts,   \* how many did
  ops,        \* creates, aborts, clears, deletes and timeouts so far
  status,     \* what submitting each transfer returned
  results,    \* what its completion was called with
  issued,     \* the transfers accepted on each pipe since it was created
  lost,       \* history: pipes whose queue head was rebuilt to start at a
              \* retired qTD, where the controller does not go on
  strayed     \* history: that qTD was released while the controller was there

clientVars == <<status, results, issued, ops>>
hwVars     == <<mem, overlay, running, usbint>>
driverVars == <<free, open, dummy, queue, chunks>>
waitVars   == <<enabled, failed, timeouts>>
historyVars == <<lost, strayed>>
vars == <<clientVars, hwVars, driverVars, waitVars, stack, historyVars>>

IsOpen(p) == p \in ToSet(open)

(* Calls under way.  "list" are the transactions an abort has left, "left" *)
(* the pipes a scan has, "filled" the qTDs a submission has written.       *)
Frame(at, op, p) ==
  [at |-> at, op |-> op, pipe |-> p, x |-> None, how |-> "none",
   list |-> <<>>, left |-> <<>>, filled |-> 0, new |-> None]

Top == Head(stack)
Runs(at)   == stack # <<>> /\ Top.at = at
Goto(f)    == stack' = <<f>> \o Tail(stack)
Call(f, g) == stack' = <<g, f>> \o Tail(stack)
Return     == stack' = Tail(stack)

Points == {"fill", "check", "scan", "complete", "callback", "abort",
           "stopping", "stopped", "starting"}
Calls  == {"submit", "scan", "abort", "delete", "rebuild", "link", "unlink"}

Idle   == [next |-> None, token |-> "idle", ioc |-> FALSE]
NoQH   == [cur |-> None, next |-> None, token |-> "idle"]

(* The types of the variables.                                             *)
TypeOK ==
  /\ free \in Seq(QTD) /\ IsInjective(free)
  /\ open \in Seq(Pipe) /\ IsInjective(open)
  /\ dummy \in [Pipe -> QTD \cup {None}]
  /\ queue \in [Pipe -> Seq(Transfer)]
  /\ chunks \in [Transfer -> Seq(QTD)]
  /\ mem \in [QTD -> [next : QTD \cup {None}, ioc : BOOLEAN,
                      token : {"idle", "active", "done", "short", "error"}]]
  /\ overlay \in [Pipe -> [cur : QTD \cup {None}, next : QTD \cup {None},
                           token : {"idle", "active", "halted"}]]
  /\ {enabled, running, usbint, failed} \subseteq BOOLEAN
  /\ \A i \in DOMAIN stack :
       /\ stack[i].at \in Points /\ stack[i].op \in Calls
       /\ stack[i].filled \in 0..MaxChunks
       /\ stack[i].x \in Transfer \cup {None}
  /\ timeouts \in 0..MaxTimeouts /\ ops \in 0..MaxOps
  /\ status \in [Transfer -> {"new", "accepted", "refused"}]
  /\ results \in [Transfer -> Seq({"ok", "error", "aborted"})]
  /\ issued \in [Pipe -> Seq(Transfer)]
  /\ lost \subseteq Pipe /\ strayed \in BOOLEAN

(* UIMInitialize has allocated the pools and started the schedule.         *)
Init ==
  /\ free = Pool
  /\ open = <<>>
  /\ dummy = [p \in Pipe |-> None]
  /\ queue = [p \in Pipe |-> <<>>]
  /\ chunks = [x \in Transfer |-> <<>>]
  /\ mem = [t \in QTD |-> Idle]
  /\ overlay = [p \in Pipe |-> NoQH]
  /\ enabled = TRUE /\ running = TRUE
  /\ usbint = FALSE
  /\ stack = <<>>
  /\ failed = FALSE /\ timeouts = 0
  /\ ops = 0
  /\ status = [x \in Transfer |-> "new"]
  /\ results = [x \in Transfer |-> <<>>]
  /\ issued = [p \in Pipe |-> <<>>]
  /\ lost = {} /\ strayed = FALSE

-----------------------------------------------------------------------------
(* The pool.                                                               *)

(* qTDs ts go back one after the other (releaseAsyncTransfer).             *)
Release(ts) ==
  /\ free' = Reverse(ts) \o free
  /\ mem' = [t \in QTD |-> IF t \in ToSet(ts) THEN Idle ELSE mem[t]]

(* Mutant: none, transactions are only unlinked.                           *)
QTDsOfNone(xs) == <<>>

(* All qTDs of transactions xs (releaseAsyncTransaction).                  *)
QTDsOf(xs) == FlattenSeq([i \in DOMAIN xs |-> chunks[xs[i]]])

-----------------------------------------------------------------------------
(* Stopping and starting the schedule (setAsyncScheduleEnabled).  A caller *)
(* clears the enable bit and pushes a frame that waits; if the bit was     *)
(* clear already there is no wait.                                         *)
Stop(op, p) == Frame(IF enabled THEN "stopping" ELSE "stopped", op, p)

Stopped(op) ==
  /\ (Runs("stopping") /\ ~running) \/ Runs("stopped")
  /\ Top.op = op

Start ==
  /\ enabled' = TRUE
  /\ Goto([Top EXCEPT !.at = "starting"])

Started ==
  /\ Runs("starting")
  /\ running
  /\ failed' = FALSE
  /\ Return
  /\ UNCHANGED <<clientVars, hwVars, driverVars, enabled, timeouts, historyVars>>

(* The bounded wait is over.  createAsyncEndpoint undoes what it did; the  *)
(* others leave things as they are.                                        *)
WaitTimesOut ==
  /\ (Runs("stopping") /\ running) \/ (Runs("starting") /\ ~running)
  /\ timeouts < MaxTimeouts /\ ops < MaxOps
  /\ timeouts' = timeouts + 1 /\ ops' = ops + 1
  /\ failed' = TRUE
  /\ Return
  /\ IF Top.op = "link"
       THEN /\ Release(<<dummy[Top.pipe]>>)
            /\ open' = RemoveFirst(open, Top.pipe)
            /\ dummy' = [dummy EXCEPT ![Top.pipe] = None]
            /\ overlay' = [overlay EXCEPT ![Top.pipe] = NoQH]
       ELSE UNCHANGED <<free, mem, open, dummy, overlay>>
  /\ UNCHANGED <<status, results, issued, running, usbint, queue, chunks, enabled, historyVars>>

(* The qTD of the first transaction, or the dummy.                         *)
FirstQTD(p) == IF queue[p] = <<>> THEN dummy[p] ELSE Head(chunks[Head(queue[p])])

(* rebuildAsyncQueue: the overlay starts again at the first transaction.   *)
Rebuild ==
  /\ Stopped("rebuild")
  /\ overlay' = [overlay EXCEPT ![Top.pipe] = [NoQH EXCEPT !.next = FirstQTD(Top.pipe)]]
  /\ lost' = IF mem[FirstQTD(Top.pipe)].token \in {"idle", "active"}
               THEN lost \ {Top.pipe} ELSE lost \cup {Top.pipe}
  /\ Start
  /\ UNCHANGED <<clientVars, mem, running, usbint, driverVars, failed, timeouts, strayed>>

-----------------------------------------------------------------------------
(* Endpoints.                                                              *)

(* createAsyncEndpoint: a dummy qTD, then into the ring.                   *)
Create(p) ==
  /\ stack = <<>>
  /\ ~IsOpen(p)
  /\ ops < MaxOps /\ ops' = ops + 1
  /\ free # <<>>
  /\ free' = Tail(free)
  /\ dummy' = [dummy EXCEPT ![p] = Head(free)]
  /\ enabled' = FALSE
  /\ stack' = <<Stop("link", p)>>
  /\ UNCHANGED <<status, results, issued, hwVars, open, queue, chunks, failed, timeouts, historyVars>>

Link ==
  /\ Stopped("link")
  /\ open' = <<Top.pipe>> \o open
  /\ overlay' = [overlay EXCEPT ![Top.pipe] = [NoQH EXCEPT !.next = dummy[Top.pipe]]]
  /\ Start
  /\ UNCHANGED <<clientVars, mem, running, usbint, free, dummy, queue, chunks, failed,
                 timeouts, historyVars>>

(* Mutant: the queue head still holds the old chain.                       *)
AbortUnrebuilt(p, op) ==
  /\ stack = <<>>
  /\ IsOpen(p)
  /\ ops < MaxOps /\ ops' = ops + 1
  /\ queue[p] # <<>>
  /\ queue' = [queue EXCEPT ![p] = <<>>]
  /\ enabled' = enabled
  /\ stack' = <<[Frame("abort", op, p) EXCEPT !.list = queue[p]]>>
  /\ UNCHANGED <<status, results, issued, hwVars, free, open, dummy, chunks, failed,
                 timeouts, historyVars>>

(* UIMAbortEndpoint, and the first part of UIMDeleteEndpoint.              *)
Abort(p, op) ==
  /\ stack = <<>>
  /\ IsOpen(p)
  /\ ops < MaxOps /\ ops' = ops + 1
  /\ queue[p] # <<>>
  /\ queue' = [queue EXCEPT ![p] = <<>>]
  /\ enabled' = FALSE
  /\ stack' = <<Stop("rebuild", p), [Frame("abort", op, p) EXCEPT !.list = queue[p]]>>
  /\ UNCHANGED <<status, results, issued, hwVars, free, open, dummy, chunks, failed,
                 timeouts, historyVars>>

(* Mutant: the next transaction is the same again.                         *)
AbortNextStays ==
  /\ Runs("abort")
  /\ Top.list # <<>>
  /\ results' = [results EXCEPT ![Head(Top.list)] = Append(@, "aborted")]
  /\ Goto([Top EXCEPT !.at = "callback", !.x = Head(Top.list)])
  /\ UNCHANGED <<status, issued, ops, hwVars, driverVars, waitVars, historyVars>>

(* Mutant: the completion is not called.                                   *)
AbortNextSilent ==
  /\ Runs("abort")
  /\ Top.list # <<>>
  /\ Goto([Top EXCEPT !.at = "callback", !.x = Head(Top.list), !.list = Tail(Top.list)])
  /\ UNCHANGED <<clientVars, hwVars, driverVars, waitVars, historyVars>>

AbortNext ==
  /\ Runs("abort")
  /\ Top.list # <<>>
  /\ results' = [results EXCEPT ![Head(Top.list)] = Append(@, "aborted")]
  /\ Goto([Top EXCEPT !.at = "callback", !.x = Head(Top.list), !.list = Tail(Top.list)])
  /\ UNCHANGED <<status, issued, ops, hwVars, driverVars, waitVars, historyVars>>

AbortEnds ==
  /\ Runs("abort")
  /\ Top.list = <<>>
  /\ Top.op = "abort"
  /\ Return
  /\ UNCHANGED <<clientVars, hwVars, driverVars, waitVars, historyVars>>

(* UIMDeleteEndpoint goes on.                                              *)
DeleteEmpty(p) ==
  /\ stack = <<>>
  /\ IsOpen(p)
  /\ ops < MaxOps /\ ops' = ops + 1
  /\ queue[p] = <<>>
  /\ enabled' = FALSE
  /\ stack' = <<Stop("unlink", p)>>
  /\ UNCHANGED <<status, results, issued, hwVars, driverVars, failed, timeouts, historyVars>>

DeleteAborted ==
  /\ Runs("abort")
  /\ Top.list = <<>>
  /\ Top.op = "delete"
  /\ enabled' = FALSE
  /\ Goto(Stop("unlink", Top.pipe))
  /\ UNCHANGED <<clientVars, hwVars, driverVars, failed, timeouts, historyVars>>

(* releaseEndpointState: what callbacks have queued meanwhile is released  *)
(* too, and its completion is not called.                                  *)
Unlink ==
  LET p == Top.pipe
      xs == queue[p]
  IN  /\ Stopped("unlink")
      /\ open' = RemoveFirst(open, p)
      /\ Release(Append(QTDsOf(xs), dummy[p]))
      /\ queue' = [queue EXCEPT ![p] = <<>>]
      /\ chunks' = [x \in Transfer |-> IF x \in ToSet(xs) THEN <<>> ELSE chunks[x]]
      /\ dummy' = [dummy EXCEPT ![p] = None]
      /\ overlay' = [overlay EXCEPT ![p] = NoQH]
      /\ lost' = lost \ {p}
      /\ issued' = [issued EXCEPT ![p] = <<>>]
      /\ Start
      /\ UNCHANGED <<status, results, ops, running, usbint, failed, timeouts, strayed>>

(* UIMClearEndpointStall; with transactions queued it returns "busy".      *)
ClearStall(p) ==
  /\ stack = <<>>
  /\ IsOpen(p)
  /\ ops < MaxOps /\ ops' = ops + 1
  /\ queue[p] = <<>>
  /\ enabled' = FALSE
  /\ stack' = <<Stop("rebuild", p)>>
  /\ UNCHANGED <<status, results, issued, hwVars, driverVars, failed, timeouts, historyVars>>

-----------------------------------------------------------------------------
(* Submission (submitAsyncTransfer).                                       *)

MaySubmit(x) ==
  /\ status[x] = "new" /\ \A y \in Transfer : status[y] = "new" => x <= y
  /\ stack = <<>> \/ (Runs("callback") /\ Top.op \in ResubmitIn)

(* Too few qTDs for the chunks and the new dummy: those taken go back.     *)
SubmitFails(x, p, n) ==
  /\ MaySubmit(x)
  /\ IsOpen(p)
  /\ Len(free) < n
  /\ free' = Reverse(free)
  /\ status' = [status EXCEPT ![x] = "refused"]
  /\ UNCHANGED <<results, issued, ops, hwVars, open, dummy, queue, chunks, waitVars, stack, historyVars>>

(* The dummy becomes the first qTD.                                        *)
Submit(x, p, n) ==
  /\ MaySubmit(x)
  /\ IsOpen(p)
  /\ Len(free) >= n
  /\ chunks' = [chunks EXCEPT ![x] = <<dummy[p]>> \o SubSeq(free, 1, n - 1)]
  /\ free' = SubSeq(free, n + 1, Len(free))
  /\ stack' = <<[Frame("fill", "submit", p) EXCEPT !.x = x, !.new = free[n]]>> \o stack
  /\ UNCHANGED <<clientVars, hwVars, open, dummy, queue, waitVars, historyVars>>

(* Mutant: only the first chunk interrupts.                                *)
FillWrongIOC ==
  LET cs == chunks[Top.x]
      k  == Top.filled + 1
  IN  /\ Runs("fill")
      /\ k <= Len(cs)
      /\ mem' = [mem EXCEPT ![cs[k]] =
                   [next  |-> IF k < Len(cs) THEN cs[k + 1] ELSE Top.new,
                    token |-> "active",
                    ioc   |-> k = 1]]
      /\ Goto([Top EXCEPT !.filled = k])
      /\ UNCHANGED <<clientVars, overlay, running, usbint, driverVars, waitVars, historyVars>>

(* One qTD of the chain is written, and is active from then on.            *)
Fill ==
  LET cs == chunks[Top.x]
      k  == Top.filled + 1
  IN  /\ Runs("fill")
      /\ k <= Len(cs)
      /\ mem' = [mem EXCEPT ![cs[k]] =
                   [next  |-> IF k < Len(cs) THEN cs[k + 1] ELSE Top.new,
                    token |-> "active",
                    ioc   |-> k = Len(cs)]]
      /\ Goto([Top EXCEPT !.filled = k])
      /\ UNCHANGED <<clientVars, overlay, running, usbint, driverVars, waitVars, historyVars>>

Filled == Runs("fill") /\ Top.filled = Len(chunks[Top.x])

Accept(x, p) ==
  /\ status' = [status EXCEPT ![x] = "accepted"]
  /\ issued' = [issued EXCEPT ![p] = Append(@, x)]

Enqueue ==
  /\ Filled
  /\ dummy' = [dummy EXCEPT ![Top.pipe] = Top.new]
  /\ queue' = [queue EXCEPT ![Top.pipe] = Append(@, Top.x)]

(* Behind others, the controller finds it by itself.                       *)
Append1 ==
  /\ Enqueue
  /\ queue[Top.pipe] # <<>>
  /\ Accept(Top.x, Top.pipe)
  /\ Return
  /\ UNCHANGED <<results, ops, hwVars, free, open, chunks, waitVars, historyVars>>

AppendFirst ==
  /\ Enqueue
  /\ queue[Top.pipe] = <<>>
  /\ enabled' = FALSE
  /\ Call([Top EXCEPT !.at = "check"], Stop("rebuild", Top.pipe))
  /\ UNCHANGED <<clientVars, hwVars, free, open, chunks, failed, timeouts, historyVars>>

Submitted ==
  /\ Runs("check")
  /\ ~failed
  /\ Accept(Top.x, Top.pipe)
  /\ Return
  /\ UNCHANGED <<results, ops, hwVars, driverVars, waitVars, historyVars>>

(* The queue could not be rebuilt: everything is taken back.               *)
RollBack ==
  LET cs == chunks[Top.x]
  IN  /\ Runs("check")
      /\ failed
      /\ queue' = [queue EXCEPT ![Top.pipe] = <<>>]
      /\ dummy' = [dummy EXCEPT ![Top.pipe] = Head(cs)]
      /\ free' = <<Top.new>> \o Reverse(Tail(cs)) \o free
      /\ mem' = [t \in QTD |-> IF t \in ToSet(cs) \cup {Top.new} THEN Idle ELSE mem[t]]
      /\ chunks' = [chunks EXCEPT ![Top.x] = <<>>]
      /\ status' = [status EXCEPT ![Top.x] = "refused"]
      /\ Return
      /\ UNCHANGED <<results, issued, ops, overlay, running, usbint, open, waitVars, historyVars>>

-----------------------------------------------------------------------------
(* Completion.                                                             *)

(* evaluateAsyncTransaction: the first qTD that did not retire well        *)
(* decides.                                                                *)
Evaluate(x) ==
  LET cs   == chunks[x]
      Open == {i \in DOMAIN cs : mem[cs[i]].token \in {"active", "error"}}
      i    == CHOOSE j \in Open : \A k \in Open : j <= k
      Short(j) == mem[cs[j]].token = "short"
  IN  CASE Open = {} ->
             [how |-> "ok", repair |-> Short(Len(cs))]
        [] Open # {} /\ mem[cs[i]].token = "error" ->
             [how |-> "error", repair |-> TRUE]
        [] Open # {} /\ mem[cs[i]].token = "active" /\ i > 1 /\ Short(i - 1) ->
             [how |-> "ok", repair |-> TRUE]
        [] OTHER ->
             [how |-> "pending", repair |-> FALSE]

(* handleInterrupt and PollInterrupts: acknowledge, then scan              *)
(* (completeAsyncTransactions).                                            *)
HandleInterrupt ==
  /\ stack = <<>>
  /\ usbint
  /\ usbint' = FALSE
  /\ stack' = <<[Frame("scan", "scan", None) EXCEPT !.left = open]>>
  /\ UNCHANGED <<clientVars, mem, overlay, running, driverVars, waitVars, historyVars>>

ScanSkips ==
  LET p == Head(Top.left)
  IN  /\ Runs("scan")
      /\ Top.left # <<>>
      /\ queue[p] # <<>> => Evaluate(Head(queue[p])).how = "pending"
      /\ Goto([Top EXCEPT !.left = Tail(@)])
      /\ UNCHANGED <<clientVars, hwVars, driverVars, waitVars, historyVars>>

ScanCompletes ==
  LET p == Head(Top.left)
      x == Head(queue[p])
      e == Evaluate(x)
      f == [Top EXCEPT !.at = "complete", !.pipe = p, !.x = x, !.how = e.how]
  IN  /\ Runs("scan")
      /\ Top.left # <<>>
      /\ queue[p] # <<>>
      /\ e.how # "pending"
      /\ queue' = [queue EXCEPT ![p] = Tail(@)]
      /\ IF e.repair \/ Len(queue[p]) = 1
           THEN enabled' = FALSE /\ Call(f, Stop("rebuild", p))
           ELSE enabled' = enabled /\ Goto(f)
      /\ strayed' = (strayed \/ (p \in lost /\ ~e.repair /\ Len(queue[p]) > 1))
      /\ UNCHANGED <<clientVars, hwVars, free, open, dummy, chunks, failed, timeouts, lost>>

ScanEnds ==
  /\ Runs("scan")
  /\ Top.left = <<>>
  /\ Return
  /\ UNCHANGED <<clientVars, hwVars, driverVars, waitVars, historyVars>>

(* The completion is called, and may submit before it returns.             *)
Complete ==
  /\ Runs("complete")
  /\ results' = [results EXCEPT ![Top.x] = Append(@, Top.how)]
  /\ Goto([Top EXCEPT !.at = "callback"])
  /\ UNCHANGED <<status, issued, ops, hwVars, driverVars, waitVars, historyVars>>

(* The transaction is released; a scan starts again from the beginning.    *)
CallbackReturns ==
  /\ Runs("callback")
  /\ Release(chunks[Top.x])
  /\ chunks' = [chunks EXCEPT ![Top.x] = <<>>]
  /\ Goto([Top EXCEPT !.at = IF Top.op = "scan" THEN "scan" ELSE "abort",
                      !.x = None, !.how = "none", !.left = open])
  /\ UNCHANGED <<clientVars, overlay, running, usbint, open, dummy, queue, waitVars, historyVars>>

-----------------------------------------------------------------------------
(* The controller (external).                                              *)

HcStops ==
  /\ running /\ ~enabled
  /\ running' = FALSE
  /\ UNCHANGED <<clientVars, mem, overlay, usbint, driverVars, waitVars, stack, historyVars>>

HcStarts ==
  /\ ~running /\ enabled
  /\ running' = TRUE
  /\ UNCHANGED <<clientVars, mem, overlay, usbint, driverVars, waitVars, stack, historyVars>>

(* It advances to an active qTD.                                           *)
HcFetch(p) ==
  LET o == overlay[p]
  IN  /\ running
      /\ IsOpen(p)
      /\ o.token = "idle"
      /\ o.next # None
      /\ mem[o.next].token = "active"
      /\ overlay' = [overlay EXCEPT ![p] =
                       [cur |-> o.next, next |-> mem[o.next].next, token |-> "active"]]
      /\ UNCHANGED <<clientVars, mem, running, usbint, driverVars, waitVars, stack, historyVars>>

(* It retires it.  After a short read it goes on with the next qTD, the    *)
(* alternate one being invalid; after an error it halts.                   *)
HcRetire(p, token) ==
  LET t == overlay[p].cur
  IN  /\ running
      /\ IsOpen(p)
      /\ overlay[p].token = "active"
      /\ token \in {"done", "error"} \cup (IF p \in InPipe THEN {"short"} ELSE {})
      /\ mem' = [mem EXCEPT ![t].token = token]
      /\ overlay' = [overlay EXCEPT ![p].token = IF token = "error" THEN "halted" ELSE "idle"]
      /\ usbint' = (usbint \/ mem[t].ioc \/ token # "done")
      /\ UNCHANGED <<clientVars, running, driverVars, waitVars, stack, historyVars>>

-----------------------------------------------------------------------------
Client ==
  \/ \E p \in Pipe : \/ Create(p) \/ ClearStall(p) \/ DeleteEmpty(p)
                     \/ Abort(p, "abort") \/ Abort(p, "delete")
  \/ \E x \in Transfer, p \in Pipe, n \in 1..MaxChunks :
       Submit(x, p, n) \/ SubmitFails(x, p, n)

GateStep ==
  \/ Started \/ WaitTimesOut \/ Rebuild \/ Link \/ Unlink
  \/ AbortNext \/ AbortEnds \/ DeleteAborted
  \/ Fill \/ Append1 \/ AppendFirst \/ Submitted \/ RollBack
  \/ ScanSkips \/ ScanCompletes \/ ScanEnds \/ Complete \/ CallbackReturns

HcStep(p) == HcFetch(p) \/ \E token \in {"done", "short", "error"} : HcRetire(p, token)

Next == \/ Client \/ GateStep \/ HandleInterrupt
        \/ HcStops \/ HcStarts \/ \E p \in Pipe : HcStep(p)

Spec == Init /\ [][Next]_vars

(* The driver goes on and its interrupt is delivered; the controller polls *)
(* its queue heads, and devices answer in the end.                         *)
Fairness ==
  /\ WF_vars(GateStep) /\ WF_vars(HandleInterrupt)
  /\ WF_vars(HcStops) /\ WF_vars(HcStarts)
  /\ \A p \in Pipe : WF_vars(HcStep(p))

FairSpec == Spec /\ Fairness

-----------------------------------------------------------------------------
(* The transactions of calls under way that are in no queue.               *)
Held(f) ==
  (IF f.x # None /\ f.at \in {"fill", "complete", "callback"} THEN <<f.x>> ELSE <<>>) \o f.list

(* Every qTD is free, a dummy, in a queue, or held by a call under way,    *)
(* and only in one of these, also after rolled back submissions and        *)
(* deletes (submitAsyncTransfer, releaseAsyncTransaction,                  *)
(* releaseEndpointState).                                                  *)
EveryQTDInOnePlace ==
  LET frames  == {stack[i] : i \in DOMAIN stack}
      xs      == UNION ({ToSet(queue[p]) : p \in Pipe} \cup {ToSet(Held(f)) : f \in frames})
      chained == UNION {ToSet(chunks[x]) : x \in xs}
      filling == {f \in frames : f.at = "fill"}
      \* a transaction being written shares its first qTD with the dummy
      dummies == ({dummy[p] : p \in Pipe} \ {None})
      news    == {f.new : f \in filling}
      spare   == ToSet(free)
  IN  /\ TypeOK
      /\ spare \cup chained \cup dummies \cup news = QTD
      /\ spare \cap (chained \cup dummies \cup news) = {}
      /\ news \cap (chained \cup dummies) = {}
      /\ chained \cap dummies = {Head(chunks[f.x]) : f \in filling}
      /\ \A x, y \in xs : x # y => ToSet(chunks[x]) \cap ToSet(chunks[y]) = {}

(* The controller works on a pipe's own qTDs only, those of queued         *)
(* transactions or of the one being written, or its dummy next.  When an   *)
(* answered transaction is released its qTDs are out of the queue head,    *)
(* also if they were executing when it was aborted                         *)
(* (abortEndpointTransactions, completeAsyncTransactions).  No longer so   *)
(* after a wait that timed out; nor, on any pipe, once a lost pipe has     *)
(* strayed, as the qTD it stands at may be another pipe's by now.          *)
ControllerOwnsItsQTD ==
  \A p \in ToSet(open) :
    LET o       == overlay[p]
        here    == {f \in ToSet(stack) : f.pipe = p}
        writing == {f \in here : f.at = "fill"}
        own     == UNION {ToSet(chunks[x]) : x \in ToSet(queue[p]) \cup {f.x : f \in writing}}
        settled == stack = <<>> \/ Top.at \in {"fill", "scan", "complete", "callback", "abort"}
    IN  timeouts = 0 /\ ~strayed /\ settled =>
          /\ o.token = "active" => o.cur \in own
          /\ o.token # "halted" => o.next \in own \cup {f.new : f \in writing} \cup {dummy[p]}

(* What clients see is a USBPipe: one answer at most for each transfer     *)
(* accepted, none for one refused, successes in order                      *)
(* (submitAsyncTransfer, completeAsyncTransactions,                        *)
(* abortEndpointTransactions).  Only a deletion may drop transfers, those  *)
(* that completions queue while it answers the others                      *)
(* (releaseEndpointState).                                                 *)
ClientView == INSTANCE USBPipe WITH Endpoint <- Pipe
ImplementsPipe == ClientView!DeletingSpec

(* An accepted transfer is answered, if devices answer, except in three    *)
(* cases: a pipe lost its place, a wait timed out, or its own pipe was     *)
(* deleted meanwhile.  An IOC, a short read and an error each bring the    *)
(* scan that answers it, whenever they come (handleInterrupt,              *)
(* completeAsyncTransactions).                                             *)
AnsweredUnlessLost ==
  \A p \in Pipe, x \in Transfer :
    (x \in ToSet(queue[p])) ~>
      (results[x] # <<>> \/ lost # {} \/ strayed \/ timeouts > 0 \/ ~IsOpen(p))

(* Abort and delete answer everything that was queued when they began,     *)
(* with a controller that never answers.                                   *)
AbortAnswersAll ==
  \A x \in Transfer :
    (\E i \in DOMAIN stack : x \in ToSet(stack[i].list)) ~> results[x] # <<>>
=============================================================================
