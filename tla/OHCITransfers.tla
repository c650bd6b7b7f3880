---------------------------- MODULE OHCITransfers ----------------------------
(***************************************************************************)
(* The life of a control, bulk or interrupt transfer in WiiOHCI.           *)
(*                                                                         *)
(* A transfer is cut into chunks, one transfer descriptor (TD) each.  An   *)
(* endpoint is an ED shared with the controller: a chain of TDs from its   *)
(* head up to, and not including, its tail, which is an empty TD waiting   *)
(* for the next chunk.  The controller retires the head TD, success or     *)
(* error, onto its done list; an error halts the endpoint.  The interrupt  *)
(* filter links what was retired into a software queue through             *)
(* nextTransfer, the field the free list and the submission use as well;   *)
(* the secondary handler walks that queue, calls completions, frees TDs.   *)
(*                                                                         *)
(* The workloop gate serialises submissions, aborts, deletions and the     *)
(* secondary handler, so one program counter (pc) describes it; a          *)
(* completion may call back into a submission.  The controller and the     *)
(* filter run at any time.  OHCIDoneQueue refines the hand-over from the   *)
(* controller to the software queue, one step here; the watchdog's take is *)
(* this same step taken from fewer states.                                 *)
(***************************************************************************)
EXTENDS Naturals, Sequences, FiniteSets, SequencesExt

CONSTANTS
  TD,                 \* the transfer descriptors of the pool
  Endpoint,           \* the endpoint structures
  Transfer,           \* what clients ask for, each at most once
  Null,
  Pool,               \* the free list at start, as a sequence
  MaxChunks,          \* bound: chunks of one transfer
  Ops,                \* which of "abort", "clear", "delete" clients use
  MaxOps,             \* bound: number of those operations
  TransferErrors,     \* TRUE: devices may answer a TD with an error
  PromptHandler,      \* TRUE: the handler is done before the next writeback
  ResubmitAfter       \* of Ops, those whose completions submit again

ASSUME ConstantsAssumption ==
  /\ Null \notin TD \cup Endpoint \cup Transfer
  /\ Pool \in Seq(TD) /\ Pool # <<>>
  /\ IsInjective(Pool) /\ ToSet(Pool) = TD
  /\ MaxChunks \in Nat \ {0}
  /\ MaxOps \in Nat
  /\ Ops \subseteq {"abort", "clear", "delete"}
  /\ ResubmitAfter \subseteq Ops
  /\ {TransferErrors, PromptHandler} \subseteq BOOLEAN

VARIABLES
  \* OHCITransferData and its genTD
  nextTransfer, nextTD, cc, last, genCompletion, endpoint,
  freeHead,           \* _freeGenTransferHeadPtr
  \* OHCIEndpointData and its ED
  head, halted, skip, tail,
  linked,             \* endpoints on the controller's list
  listOn,             \* the list is enabled in HcControl
  \* the controller and the HCCA
  serving, hcDone, hccaDone, wdh,
  \* the driver's queue and the workloop
  writeDoneHead, signal,
  pc, curr, saved, target, op,
  sub,                \* the doGeneralTransfer in progress
  opsLeft,
  \* what clients saw (history)
  status,             \* the answer of doGeneralTransfer
  results,            \* the statuses the completion was called with
  issued,             \* per endpoint, the accepted transfers in order
  parts,              \* chunks whose data is not yet copied back
  failed              \* the error path has run

tdVars  == <<nextTransfer, nextTD, cc, last, genCompletion, endpoint, freeHead>>
edVars  == <<head, halted, skip, tail, linked, listOn>>
hcVars  == <<serving, hcDone, hccaDone, wdh>>
wlVars  == <<pc, curr, saved, target, op, opsLeft>>
history == <<status, results, issued, parts, failed>>
vars    == <<tdVars, edVars, hcVars, writeDoneHead, signal, wlVars, sub, history>>

TDOrNull == TD \cup {Null}
Idle     == [ep |-> Null, td |-> Null, next |-> Null]
NoSub    == [x |-> Null, ep |-> Null, left |-> 0]

(* The types of the variables. *)
TypeOK ==
  /\ nextTransfer \in [TD -> TDOrNull]
  /\ nextTD \in [TD -> TDOrNull]
  /\ cc \in [TD -> {"notAccessed", "ok", "error"}]
  /\ last \in [TD -> BOOLEAN]
  /\ genCompletion \in [TD -> Transfer \cup {Null}]
  /\ endpoint \in [TD -> Endpoint \cup {Null}]
  /\ freeHead \in TDOrNull
  /\ head \in [Endpoint -> TDOrNull]
  /\ tail \in [Endpoint -> TDOrNull]
  /\ halted \in [Endpoint -> BOOLEAN]
  /\ skip \in [Endpoint -> BOOLEAN]
  /\ linked \in SUBSET Endpoint
  /\ listOn \in BOOLEAN
  /\ serving \in [ep : Endpoint \cup {Null}, td : TDOrNull, next : TDOrNull]
  /\ hcDone \in Seq(TD)
  /\ hccaDone \in Seq(TD)
  /\ wdh \in BOOLEAN
  /\ writeDoneHead \in TDOrNull
  /\ signal \in BOOLEAN
  /\ pc \in {"idle", "process", "return", "quiesce", "fail", "failReturn",
             "sleep", "remove", "removeReturn", "crashed"}
  /\ curr \in TDOrNull
  /\ saved \in TDOrNull
  /\ target \in Endpoint \cup {Null}
  /\ op \in {"none", "abort", "clear", "delete"}
  /\ sub \in [x : Transfer \cup {Null}, ep : Endpoint \cup {Null}, left : 0..MaxChunks]
  /\ opsLeft \in 0..MaxOps
  /\ status \in [Transfer -> {"new", "accepted", "refused"}]
  /\ results \in [Transfer -> Seq({"ok", "error", "aborted"})]
  /\ issued \in [Endpoint -> Seq(Transfer)]
  /\ parts \in [Transfer -> SUBSET TD]
  /\ failed \in BOOLEAN

(* allocateFreeTransfers has filled the free list; there is no endpoint.   *)
Init ==
  /\ nextTransfer = [t \in TD |-> LET i == CHOOSE i \in DOMAIN Pool : Pool[i] = t
                                  IN  IF i = Len(Pool) THEN Null ELSE Pool[i + 1]]
  /\ nextTD = [t \in TD |-> Null]
  /\ cc = [t \in TD |-> "notAccessed"]
  /\ last = [t \in TD |-> FALSE]
  /\ genCompletion = [t \in TD |-> Null]
  /\ endpoint = [t \in TD |-> Null]
  /\ freeHead = Pool[1]
  /\ head = [e \in Endpoint |-> Null]
  /\ tail = [e \in Endpoint |-> Null]
  /\ halted = [e \in Endpoint |-> FALSE]
  /\ skip = [e \in Endpoint |-> FALSE]
  /\ linked = {}
  /\ listOn = TRUE
  /\ serving = Idle
  /\ hcDone = <<>>
  /\ hccaDone = <<>>
  /\ wdh = FALSE
  /\ writeDoneHead = Null
  /\ signal = FALSE
  /\ pc = "idle"
  /\ curr = Null
  /\ saved = Null
  /\ target = Null
  /\ op = "none"
  /\ sub = NoSub
  /\ opsLeft = MaxOps
  /\ status = [x \in Transfer |-> "new"]
  /\ results = [x \in Transfer |-> <<>>]
  /\ issued = [e \in Endpoint |-> <<>>]
  /\ parts = [x \in Transfer |-> {}]
  /\ failed = FALSE

(* The workloop is free to start something else.                           *)
GateFree == pc = "idle" /\ sub = NoSub

-----------------------------------------------------------------------------
(* The free list.  getFreeTransfer pops a TD; its callers below also show  *)
(* that it clears the links, the completion and last of the TD.            *)

PopFree(e, t) ==
  /\ freeHead # Null
  /\ t = freeHead
  /\ freeHead' = nextTransfer[t]
  /\ endpoint' = [endpoint EXCEPT ![t] = e]

(* returnTransfer pushes a TD; nothing else of it is reset.                *)
ReturnTransfer(t) ==
  /\ nextTransfer' = [nextTransfer EXCEPT ![t] = freeHead]
  /\ freeHead' = t
  /\ UNCHANGED <<nextTD, cc, last, genCompletion, endpoint>>

(* The results once the completion of TD t is called with status r.  The   *)
(* history keeps two calls per transfer at most.                           *)
Called(t, r) ==
  [x \in Transfer |-> IF x = genCompletion[t] /\ Len(results[x]) < 2
                        THEN Append(results[x], r)
                        ELSE results[x]]

-----------------------------------------------------------------------------
(* addNewEndpoint: the new endpoint starts with one empty TD, head = tail. *)

CreateEndpoint(e) ==
  /\ GateFree
  /\ e \notin linked
  /\ \E t \in TD :
       /\ PopFree(e, t)
       /\ nextTransfer' = [nextTransfer EXCEPT ![t] = Null]
       /\ nextTD' = [nextTD EXCEPT ![t] = Null]
       /\ last' = [last EXCEPT ![t] = FALSE]
       /\ genCompletion' = [genCompletion EXCEPT ![t] = Null]
       /\ head' = [head EXCEPT ![e] = t]
       /\ tail' = [tail EXCEPT ![e] = t]
  /\ halted' = [halted EXCEPT ![e] = FALSE]
  /\ skip' = [skip EXCEPT ![e] = FALSE]
  /\ linked' = linked \cup {e}
  /\ UNCHANGED <<cc, listOn, hcVars, writeDoneHead, signal, wlVars, sub, history>>

-----------------------------------------------------------------------------
(* doGeneralTransfer: refuse on a stalled pipe, else queue chunk by chunk. *)
(* It runs from a client's gated call or from within a completion.         *)

InCallback ==
  /\ curr # Null
  /\ last[curr]
  /\ \/ pc \in {"return", "failReturn"}
     \/ pc = "removeReturn" /\ op \in ResubmitAfter

MaySubmit(x, e) ==
  /\ sub = NoSub
  /\ pc = "idle" \/ InCallback
  /\ status[x] = "new"
  /\ e \in linked

SubmitStalled(x, e) ==
  /\ MaySubmit(x, e)
  /\ halted[e]
  /\ head[e] # tail[e]
  /\ status' = [status EXCEPT ![x] = "refused"]
  /\ UNCHANGED <<tdVars, edVars, hcVars, writeDoneHead, signal, wlVars, sub,
                 results, issued, parts, failed>>

(* A halted but idle pipe is revived: updateEndpointHead drops the halt.   *)
SubmitStart(x, e, n) ==
  /\ MaySubmit(x, e)
  /\ halted[e] => head[e] = tail[e]
  /\ halted' = [halted EXCEPT ![e] = FALSE]
  /\ sub' = [x |-> x, ep |-> e, left |-> n]
  /\ UNCHANGED <<tdVars, head, skip, tail, linked, listOn, hcVars,
                 writeDoneHead, signal, wlVars, history>>

(* The old tail becomes the chunk, a fresh TD becomes the tail; the        *)
(* controller may run the chunk from this moment.                          *)
SubmitChunk ==
  /\ sub # NoSub
  /\ LET c == tail[sub.ep]
         final == sub.left = 1
     IN  /\ \E t \in TD :
              /\ PopFree(sub.ep, t)
              /\ nextTransfer' = [nextTransfer EXCEPT ![t] = Null, ![c] = t]
              /\ nextTD' = [nextTD EXCEPT ![t] = Null, ![c] = t]
              /\ last' = [last EXCEPT ![t] = FALSE, ![c] = final]
              /\ genCompletion' = [genCompletion EXCEPT ![t] = Null,
                                     ![c] = IF final THEN sub.x ELSE @]
              /\ tail' = [tail EXCEPT ![sub.ep] = t]
         /\ cc' = [cc EXCEPT ![c] = "notAccessed"]
         /\ parts' = [parts EXCEPT ![sub.x] = @ \cup {c}]
         /\ status' = IF final THEN [status EXCEPT ![sub.x] = "accepted"] ELSE status
         /\ issued' = IF final THEN [issued EXCEPT ![sub.ep] = Append(@, sub.x)]
                               ELSE issued
         /\ sub' = IF final THEN NoSub ELSE [sub EXCEPT !.left = @ - 1]
  /\ UNCHANGED <<head, halted, skip, linked, listOn, hcVars, writeDoneHead,
                 signal, wlVars, results, failed>>

(* No TD or no bounce buffer: the TD goes back, the call fails, and the    *)
(* chunks queued so far stay on the endpoint.                              *)
SubmitFails ==
  /\ sub # NoSub
  /\ status' = [status EXCEPT ![sub.x] = "refused"]
  /\ sub' = NoSub
  /\ UNCHANGED <<tdVars, edVars, hcVars, writeDoneHead, signal, wlVars,
                 results, issued, parts, failed>>

-----------------------------------------------------------------------------
(* The controller (external): one endpoint at a time.  It reads the ED and *)
(* the TD, works, and updates the ED when the TD is retired.  It executes  *)
(* nothing more once the error path has run: a bound of the model.         *)

HCStart(e) ==
  /\ serving = Idle
  /\ ~failed
  /\ e \in linked /\ listOn
  /\ ~skip[e] /\ ~halted[e]
  /\ head[e] # tail[e]
  /\ serving' = [ep |-> e, td |-> head[e], next |-> nextTD[head[e]]]
  /\ UNCHANGED <<tdVars, edVars, hcDone, hccaDone, wdh, writeDoneHead, signal,
                 wlVars, sub, history>>

(* The device is not ready; the TD stays.                                  *)
HCStop ==
  /\ serving # Idle
  /\ serving' = Idle
  /\ UNCHANGED <<tdVars, edVars, hcDone, hccaDone, wdh, writeDoneHead, signal,
                 wlVars, sub, history>>

HCRetire(e, code) ==
  /\ serving.ep = e
  /\ code = "error" => TransferErrors
  /\ cc' = [cc EXCEPT ![serving.td] = code]
  /\ head' = [head EXCEPT ![e] = serving.next]
  /\ halted' = [halted EXCEPT ![e] = code = "error"]
  /\ hcDone' = <<serving.td>> \o hcDone
  /\ serving' = Idle
  /\ UNCHANGED <<nextTransfer, nextTD, last, genCompletion, endpoint, freeHead,
                 skip, tail, linked, listOn, hccaDone, wdh, writeDoneHead,
                 signal, wlVars, sub, history>>

HCWriteback ==
  /\ hcDone # <<>>
  /\ ~wdh
  /\ PromptHandler => /\ writeDoneHead = Null
                      /\ pc \notin {"process", "return", "quiesce", "fail", "failReturn"}
  /\ hccaDone' = hcDone
  /\ hcDone' = <<>>
  /\ wdh' = TRUE
  /\ UNCHANGED <<tdVars, edVars, serving, writeDoneHead, signal, wlVars, sub,
                 history>>

-----------------------------------------------------------------------------
(* filterInterrupt and queueDoneHeadTransfers: the batch, newest first, is *)
(* reversed through nextTransfer and put in front of the software queue.   *)

(* Mutant: what the handler has not taken yet is cut off.                  *)
LinkReversedAlone(batch) ==
  [t \in TD |->
     IF t \notin ToSet(batch) THEN nextTransfer[t]
     ELSE LET i == CHOOSE i \in DOMAIN batch : batch[i] = t
          IN  IF i = 1 THEN Null ELSE batch[i - 1]]

LinkReversed(batch) ==
  [t \in TD |->
     IF t \notin ToSet(batch) THEN nextTransfer[t]
     ELSE LET i == CHOOSE i \in DOMAIN batch : batch[i] = t
          IN  IF i = 1 THEN writeDoneHead ELSE batch[i - 1]]

(* Mutant: the batch is taken over newest first.                           *)
FilterInterruptUnreversed ==
  /\ wdh
  /\ nextTransfer' = LinkReversed(Reverse(hccaDone))
  /\ writeDoneHead' = Head(hccaDone)
  /\ hccaDone' = <<>>
  /\ wdh' = FALSE
  /\ signal' = TRUE
  /\ UNCHANGED <<nextTD, cc, last, genCompletion, endpoint, freeHead, edVars,
                 serving, hcDone, wlVars, sub, history>>

(* Mutant: the secondary handler is not signalled.                         *)
FilterInterruptSilent ==
  /\ wdh
  /\ nextTransfer' = LinkReversed(hccaDone)
  /\ writeDoneHead' = Last(hccaDone)
  /\ hccaDone' = <<>>
  /\ wdh' = FALSE
  /\ signal' = signal
  /\ UNCHANGED <<nextTD, cc, last, genCompletion, endpoint, freeHead, edVars,
                 serving, hcDone, wlVars, sub, history>>

FilterInterrupt ==
  /\ wdh
  /\ nextTransfer' = LinkReversed(hccaDone)
  /\ writeDoneHead' = Last(hccaDone)
  /\ hccaDone' = <<>>
  /\ wdh' = FALSE
  /\ signal' = TRUE
  /\ UNCHANGED <<nextTD, cc, last, genCompletion, endpoint, freeHead, edVars,
                 serving, hcDone, wlVars, sub, history>>

-----------------------------------------------------------------------------
(* handleInterrupt takes the queue; completeTransferQueue walks it.  The   *)
(* successor is read before the completion is called.                      *)

Continue(t) ==
  /\ curr' = t
  /\ saved' = Null
  /\ pc' = IF t = Null THEN "idle" ELSE "process"

HandleInterrupt ==
  /\ GateFree
  /\ signal
  /\ signal' = FALSE
  /\ Continue(writeDoneHead)
  /\ writeDoneHead' = Null
  /\ UNCHANGED <<tdVars, edVars, hcVars, target, op, opsLeft, sub, history>>

(* completeGeneralTransfer of a TD without error: the data is copied back, *)
(* the last chunk calls the completion.                                    *)
CopiedBack(t) == [x \in Transfer |-> parts[x] \ {t}]

CompleteTransfer ==
  /\ pc = "process"
  /\ cc[curr] # "error"
  /\ saved' = nextTransfer[curr]
  /\ pc' = "return"
  /\ parts' = CopiedBack(curr)
  /\ results' = IF last[curr] THEN Called(curr, "ok") ELSE results
  /\ UNCHANGED <<tdVars, edVars, hcVars, writeDoneHead, signal, curr, target,
                 op, opsLeft, sub, status, issued, failed>>

HandlerReturn ==
  /\ pc \in {"return", "failReturn"}
  /\ sub = NoSub
  /\ ReturnTransfer(curr)
  /\ Continue(saved)
  /\ target' = Null
  /\ UNCHANGED <<edVars, hcVars, writeDoneHead, signal, op, opsLeft, sub, history>>

(* With an error completeFailedEndpointGenTransfers takes over.  It waits  *)
(* until the controller has left the endpoint (quiesceEndpoint).           *)
FailTransfer ==
  /\ pc = "process"
  /\ cc[curr] = "error"
  /\ saved' = nextTransfer[curr]
  /\ target' = endpoint[curr]
  /\ skip' = [skip EXCEPT ![endpoint[curr]] = TRUE]
  /\ pc' = "quiesce"
  /\ UNCHANGED <<tdVars, head, halted, tail, linked, listOn, hcVars,
                 writeDoneHead, signal, curr, op, opsLeft, sub, history>>

Quiesced ==
  /\ pc = "quiesce"
  /\ serving.ep # target
  /\ pc' = "fail"
  /\ UNCHANGED <<tdVars, edVars, hcVars, writeDoneHead, signal, curr, saved,
                 target, op, opsLeft, sub, history>>

(* The loop removes TDs up to the one with the completion.  It follows     *)
(* nextTransfer, which the filter has reused; a NULL there is dereferenced.*)
(* "error" stands for every condition code but NoError; a data underrun    *)
(* takes this path too and is reported as a success with bytes remaining.  *)
FailStep ==
  /\ pc = "fail"
  /\ curr # Null /\ curr # tail[target]
  /\ failed' = TRUE
  /\ parts' = CopiedBack(curr)
  /\ LET n == nextTransfer[curr]
     IN  \/ /\ n = Null
            /\ pc' = "crashed"
            /\ UNCHANGED <<tdVars, head, halted, skip, curr, results>>
         \/ /\ n # Null
            /\ head' = [head EXCEPT ![target] = n]
            /\ halted' = [halted EXCEPT ![target] = FALSE]
            /\ \/ /\ last[curr]
                  /\ skip' = [skip EXCEPT ![target] = FALSE]
                  /\ results' = Called(curr, "error")
                  /\ pc' = "failReturn"
                  /\ UNCHANGED <<tdVars, curr>>
               \/ /\ ~last[curr]
                  /\ ReturnTransfer(curr)
                  /\ curr' = n
                  /\ UNCHANGED <<skip, pc, results>>
  /\ UNCHANGED <<tail, linked, listOn, hcVars, writeDoneHead, signal, saved,
                 target, op, opsLeft, sub, status, issued>>

(* The loop has run past the chain: the endpoint stays skipped.            *)
FailRanOut ==
  /\ pc = "fail"
  /\ curr \in {Null, tail[target]}
  /\ Continue(saved)
  /\ target' = Null
  /\ UNCHANGED <<tdVars, edVars, hcVars, writeDoneHead, signal, op, opsLeft,
                 sub, history>>

-----------------------------------------------------------------------------
(* UIMAbortEndpoint, UIMClearEndpointStall and UIMDeleteEndpoint: skip the *)
(* endpoint, sleep over a frame boundary, remove what is linked to it.     *)

(* Mutant: the skip bit is forgotten.                                      *)
RemovalStartUnskipped(e, o) ==
  /\ GateFree
  /\ opsLeft > 0
  /\ e \in linked
  /\ skip' = skip
  /\ listOn' = (o # "delete")
  /\ target' = e
  /\ op' = o
  /\ opsLeft' = opsLeft - 1
  /\ pc' = "sleep"
  /\ UNCHANGED <<tdVars, head, halted, tail, linked, hcVars, writeDoneHead,
                 signal, curr, saved, sub, history>>

RemovalStart(e, o) ==
  /\ GateFree
  /\ opsLeft > 0
  /\ e \in linked
  /\ skip' = [skip EXCEPT ![e] = TRUE]
  /\ listOn' = (o # "delete")
  /\ target' = e
  /\ op' = o
  /\ opsLeft' = opsLeft - 1
  /\ pc' = "sleep"
  /\ UNCHANGED <<tdVars, head, halted, tail, linked, hcVars, writeDoneHead,
                 signal, curr, saved, sub, history>>

(* After the sleep a deleted endpoint is unlinked; then, in every case,    *)
(* removeEndpointTransfers detaches the chain, which clears the halt.      *)
SleepDone ==
  /\ pc = "sleep"
  /\ serving.ep # target
  /\ linked' = IF op = "delete" THEN linked \ {target} ELSE linked
  /\ listOn' = TRUE
  /\ curr' = head[target]
  /\ head' = [head EXCEPT ![target] = tail[target]]
  /\ halted' = [halted EXCEPT ![target] = FALSE]
  /\ pc' = "remove"
  /\ UNCHANGED <<tdVars, skip, tail, hcVars, writeDoneHead, signal, saved,
                 target, op, opsLeft, sub, history>>

RemoveStep ==
  /\ pc = "remove"
  /\ curr # Null /\ curr # tail[target]
  /\ parts' = CopiedBack(curr)
  /\ results' = IF last[curr] THEN Called(curr, "aborted") ELSE results
  /\ pc' = "removeReturn"
  /\ UNCHANGED <<tdVars, edVars, hcVars, writeDoneHead, signal, curr, saved,
                 target, op, opsLeft, sub, status, issued, failed>>

RemoveReturn ==
  /\ pc = "removeReturn"
  /\ sub = NoSub
  /\ curr' = nextTD[curr]
  /\ ReturnTransfer(curr)
  /\ pc' = "remove"
  /\ UNCHANGED <<edVars, hcVars, writeDoneHead, signal, saved, target, op,
                 opsLeft, sub, history>>

(* Mutant: clearing does not set the head again.                           *)
RemoveDoneKeepsHead ==
  /\ pc = "remove"
  /\ curr \in {Null, tail[target]}
  /\ \/ /\ op = "abort"
        /\ skip' = [skip EXCEPT ![target] = FALSE]
        /\ UNCHANGED <<tdVars, head, halted>>
     \/ /\ op = "clear"
        /\ head' = head
        /\ halted' = [halted EXCEPT ![target] = FALSE]
        /\ skip' = [skip EXCEPT ![target] = FALSE]
        /\ UNCHANGED tdVars
     \/ /\ op = "delete"
        /\ ReturnTransfer(tail[target])
        /\ UNCHANGED <<head, halted, skip>>
  /\ pc' = "idle"
  /\ curr' = Null
  /\ target' = Null
  /\ op' = "none"
  /\ UNCHANGED <<tail, linked, listOn, hcVars, writeDoneHead, signal, saved,
                 opsLeft, sub, history>>

(* The chain is done when the tail is met.  An aborted endpoint runs       *)
(* again, a cleared one from its tail; a deleted one gives its tail back.  *)
RemoveDone ==
  /\ pc = "remove"
  /\ curr \in {Null, tail[target]}
  /\ \/ /\ op = "abort"
        /\ skip' = [skip EXCEPT ![target] = FALSE]
        /\ UNCHANGED <<tdVars, head, halted>>
     \/ /\ op = "clear"
        /\ head' = [head EXCEPT ![target] = tail[target]]
        /\ halted' = [halted EXCEPT ![target] = FALSE]
        /\ skip' = [skip EXCEPT ![target] = FALSE]
        /\ UNCHANGED tdVars
     \/ /\ op = "delete"
        /\ ReturnTransfer(tail[target])
        /\ UNCHANGED <<head, halted, skip>>
  /\ pc' = "idle"
  /\ curr' = Null
  /\ target' = Null
  /\ op' = "none"
  /\ UNCHANGED <<tail, linked, listOn, hcVars, writeDoneHead, signal, saved,
                 opsLeft, sub, history>>

-----------------------------------------------------------------------------
Client ==
  \E e \in Endpoint :
    \/ CreateEndpoint(e)
    \/ \E x \in Transfer : \/ SubmitStalled(x, e)
                           \/ \E n \in 1..MaxChunks : SubmitStart(x, e, n)
    \/ \E o \in Ops : RemovalStart(e, o)

Submission == SubmitChunk \/ SubmitFails

Controller ==
  \/ \E e \in Endpoint : \/ HCStart(e)
                         \/ \E code \in {"ok", "error"} : HCRetire(e, code)
  \/ HCStop
  \/ HCWriteback

Workloop ==
  \/ HandleInterrupt \/ CompleteTransfer \/ HandlerReturn
  \/ FailTransfer \/ Quiesced \/ FailStep \/ FailRanOut
  \/ SleepDone \/ RemoveStep \/ RemoveReturn \/ RemoveDone

Next == Client \/ Submission \/ Controller \/ FilterInterrupt \/ Workloop

Spec == Init /\ [][Next]_vars

(* The code of the driver keeps running, interrupts are delivered and the  *)
(* controller finishes what it works on within the frame.                  *)
DriverFairness ==
  /\ WF_vars(Submission)
  /\ WF_vars(Workloop)
  /\ WF_vars(FilterInterrupt)
  /\ WF_vars(HCStop \/ \E e \in Endpoint : HCRetire(e, "ok"))
  /\ WF_vars(HCWriteback)

(* Every device is polled again and again and answers in the end.          *)
DeviceFairness ==
  \A e \in Endpoint : WF_vars(HCStart(e)) /\ SF_vars(HCRetire(e, "ok"))

FairSpec == Spec /\ DriverFairness /\ DeviceFairness

-----------------------------------------------------------------------------
(* Where the TDs are.                                                      *)

(* The TDs from start along next, up to stop if it is met.                 *)
Chain(start, next, stop) ==
  LET reach[n \in 0..Cardinality(TD)] ==
        IF n = 0 THEN {start} \ {Null}
        ELSE LET r == reach[n - 1]
             IN  r \cup ({next[t] : t \in r \ {stop}} \ {Null})
  IN  reach[Cardinality(TD)]

Removing == pc \in {"remove", "removeReturn"}

Free  == Chain(freeHead, nextTransfer, Null)
Queue == Chain(writeDoneHead, nextTransfer, Null)

(* What the workloop has taken off a list and still has to return.         *)
Work ==
  CASE pc = "process" -> Chain(curr, nextTransfer, Null)
    [] pc \in {"return", "quiesce", "fail", "failReturn"}
         -> {curr} \cup Chain(saved, nextTransfer, Null)
    [] Removing -> Chain(curr, nextTD, tail[target])
    [] OTHER -> {}

(* What is linked to an endpoint, its tail included; the endpoint being    *)
(* removed is counted under Work.                                          *)
Linked(e) ==
  IF e \in linked /\ ~(Removing /\ e = target)
    THEN Chain(head[e], nextTD, tail[e]) ELSE {}

Lists == <<Free, ToSet(hcDone), ToSet(hccaDone), Queue, Work>>

Places(t) == Cardinality({i \in DOMAIN Lists : t \in Lists[i]})
               + Cardinality({e \in Endpoint : t \in Linked(e)})

(* Until the error path has run, every TD is in exactly one place: on the  *)
(* free list, on one endpoint, on a done list, in the software queue or    *)
(* with the workloop.  So none leaks, and no list runs into another        *)
(* although the free list and the queue share the field nextTransfer       *)
(* (getFreeTransfer, returnTransfer, queueDoneHeadTransfers,               *)
(* removeEndpointTransfers, completeTransferQueue).                        *)
EveryTDInOnePlace ==
  /\ TypeOK
  /\ ~failed => \A t \in TD : Places(t) = 1

(* Until the error path has run, the controller works only on a TD that is *)
(* queued on its endpoint, never on one the driver has taken back          *)
(* (removeEndpointTransfers, the skip bit and the sleeps of                *)
(* UIMAbortEndpoint and UIMDeleteEndpoint).                                *)
ControllerOwnsItsTD ==
  ~failed /\ serving # Idle
    => /\ serving.td \in Linked(serving.ep) \ {tail[serving.ep]}
       /\ serving.td \notin Free

(* While abort, clear or delete takes TDs off an endpoint the controller   *)
(* is not on it (UIMAbortEndpoint, UIMClearEndpointStall,                  *)
(* UIMDeleteEndpoint: the skip bit before the sleep).                      *)
NotServedWhileRemoved == Removing => serving.ep # target

(* When a transfer succeeds, the data of all its chunks has been copied    *)
(* back to the client (completeGeneralTransfer, completeTransferQueue).    *)
CopiedBeforeSuccess ==
  \A x \in Transfer : "ok" \in ToSet(results[x]) => parts[x] = {}

(* To the clients all this looks like USBPipe: one answer for each         *)
(* accepted transfer, none for a refused one, successes in order; and if   *)
(* devices answer, every accepted transfer is answered.                    *)
Pipe == INSTANCE USBPipe
ImplementsPipe == Pipe!FairSpec

=============================================================================
