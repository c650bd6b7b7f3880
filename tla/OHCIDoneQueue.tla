---------------------------- MODULE OHCIDoneQueue ----------------------------
(***************************************************************************)
(* How retired transfer descriptors (TDs) travel from the OHCI controller  *)
(* to the secondary interrupt handler of WiiOHCI.                          *)
(*                                                                         *)
(* The controller prepends every TD it retires to an internal list and,    *)
(* at the end of a frame, writes the head of that list to the HCCA and     *)
(* raises WritebackDoneHead.  Two pieces of code take the HCCA list: the   *)
(* primary interrupt filter and, in case an interrupt was missed, the      *)
(* 250 ms watchdog of the workloop.  Each reads the head, zeroes it,       *)
(* acknowledges the interrupt and links the reversed list in front of the  *)
(* software queue _writeDoneHeadPtr, under the simple lock                 *)
(* _writeDoneHeadLock.  handleInterrupt, on the workloop, takes the whole  *)
(* software queue and returns the TDs one after another.                   *)
(*                                                                         *)
(* Every access of filter and watchdog to the HCCA, to the interrupt       *)
(* status and to the lock is a step of its own here.  Lists are sequences  *)
(* whose first element is the head.                                        *)
(***************************************************************************)
EXTENDS Naturals, Sequences, SequencesExt

CONSTANTS
  TD,            \* the transfer descriptors
  SerialTakers,  \* TRUE: filter and watchdog never overlap between read and ack
  SameCore       \* TRUE: a running filter suspends the workloop thread

ASSUME SwitchesAssumption == SerialTakers \in BOOLEAN /\ SameCore \in BOOLEAN

VARIABLES
  idle,          \* TDs on the free list, or the tail of an endpoint
  active,        \* TDs the controller may still execute
  hcDone,        \* HcDoneHead: retired TDs, newest first
  hccaDone,      \* _hccaPtr->doneHeadPhysAddr and the list behind it
  wdh,           \* WritebackDoneHead in HcInterruptStatus
  fpc, fBatch,   \* the filter: where it is, newWriteDoneHeadPhysAddr
  wpc, wBatch,   \* the watchdog: where it is, doneHeadPhysAddr
  lock,          \* the holder of _writeDoneHeadLock across steps
  writeDone,     \* _writeDoneHeadPtr, the software queue
  signal,        \* signalInterrupt() was called, the handler is due
  work           \* what completeTransferQueue still has to process

vars == <<idle, active, hcDone, hccaDone, wdh, fpc, fBatch, wpc, wBatch,
          lock, writeDone, signal, work>>

(* Both takers hold a batch they have not yet acknowledged in these places. *)
Taking == {"read", "cleared"}

(* The types of the variables. *)
TypeOK ==
  /\ idle \in SUBSET TD
  /\ active \in SUBSET TD
  /\ hcDone \in Seq(TD)
  /\ hccaDone \in Seq(TD)
  /\ wdh \in BOOLEAN
  /\ fpc \in {"idle", "read", "cleared", "acked"}
  /\ fBatch \in Seq(TD)
  /\ wpc \in {"idle", "checked", "read", "cleared", "acked", "locked"}
  /\ wBatch \in Seq(TD)
  /\ lock \in {"none", "watchdog"}
  /\ writeDone \in Seq(TD)
  /\ signal \in BOOLEAN
  /\ work \in Seq(TD)

Init ==
  /\ idle = TD
  /\ active = {}
  /\ hcDone = <<>>
  /\ hccaDone = <<>>
  /\ wdh = FALSE
  /\ fpc = "idle"
  /\ fBatch = <<>>
  /\ wpc = "idle"
  /\ wBatch = <<>>
  /\ lock = "none"
  /\ writeDone = <<>>
  /\ signal = FALSE
  /\ work = <<>>

(* On one core a thread runs only while no primary interrupt is served. *)
ThreadRuns == SameCore => fpc = "idle"

-----------------------------------------------------------------------------
(* The driver links a TD to an endpoint; the controller executes it.       *)

Submit(t) ==
  /\ ThreadRuns
  /\ t \in idle
  /\ idle' = idle \ {t}
  /\ active' = active \cup {t}
  /\ UNCHANGED <<hcDone, hccaDone, wdh, fpc, fBatch, wpc, wBatch, lock,
                 writeDone, signal, work>>

HCRetire(t) ==
  /\ t \in active
  /\ active' = active \ {t}
  /\ hcDone' = <<t>> \o hcDone
  /\ UNCHANGED <<idle, hccaDone, wdh, fpc, fBatch, wpc, wBatch, lock,
                 writeDone, signal, work>>

(* The controller writes the HCCA only while the last writeback is acked. *)
HCWriteback ==
  /\ hcDone # <<>>
  /\ ~wdh
  /\ hccaDone' = hcDone
  /\ hcDone' = <<>>
  /\ wdh' = TRUE
  /\ UNCHANGED <<idle, active, fpc, fBatch, wpc, wBatch, lock, writeDone,
                 signal, work>>

-----------------------------------------------------------------------------
(* filterInterrupt, in primary interrupt context.                          *)

FilterRead ==
  /\ fpc = "idle"
  /\ wdh
  /\ SerialTakers => wpc \notin Taking
  /\ fBatch' = hccaDone
  /\ fpc' = "read"
  /\ UNCHANGED <<idle, active, hcDone, hccaDone, wdh, wpc, wBatch, lock,
                 writeDone, signal, work>>

FilterClear ==
  /\ fpc = "read"
  /\ hccaDone' = <<>>
  /\ fpc' = "cleared"
  /\ UNCHANGED <<idle, active, hcDone, wdh, fBatch, wpc, wBatch, lock,
                 writeDone, signal, work>>

(* With an empty batch queueDoneHeadTransfers returns at once. *)
FilterAck ==
  /\ fpc = "cleared"
  /\ wdh' = FALSE
  /\ fpc' = IF fBatch = <<>> THEN "idle" ELSE "acked"
  /\ UNCHANGED <<idle, active, hcDone, hccaDone, fBatch, wpc, wBatch, lock,
                 writeDone, signal, work>>

(* Mutant: the new batch replaces what was not yet taken.                  *)
FilterQueueDropsOld ==
  /\ fpc = "acked"
  /\ lock = "none"
  /\ writeDone' = Reverse(fBatch)
  /\ signal' = TRUE
  /\ fBatch' = <<>>
  /\ fpc' = "idle"
  /\ UNCHANGED <<idle, active, hcDone, hccaDone, wdh, wpc, wBatch, lock, work>>

(* Mutant: the secondary handler is not signalled.                         *)
FilterQueueSilent ==
  /\ fpc = "acked"
  /\ lock = "none"
  /\ writeDone' = Reverse(fBatch) \o writeDone
  /\ signal' = signal
  /\ fBatch' = <<>>
  /\ fpc' = "idle"
  /\ UNCHANGED <<idle, active, hcDone, hccaDone, wdh, wpc, wBatch, lock, work>>

(* The new batch goes in FRONT of what the handler has not yet taken. *)
FilterQueue ==
  /\ fpc = "acked"
  /\ lock = "none"
  /\ writeDone' = Reverse(fBatch) \o writeDone
  /\ signal' = TRUE
  /\ fBatch' = <<>>
  /\ fpc' = "idle"
  /\ UNCHANGED <<idle, active, hcDone, hccaDone, wdh, wpc, wBatch, lock, work>>

-----------------------------------------------------------------------------
(* handleWatchdog, on the workloop and therefore never while the handler   *)
(* is processing a queue.                                                  *)

WatchdogCheck ==
  /\ ThreadRuns
  /\ wpc = "idle" /\ work = <<>>
  /\ wdh
  /\ writeDone = <<>>
  /\ wpc' = "checked"
  /\ UNCHANGED <<idle, active, hcDone, hccaDone, wdh, fpc, fBatch, wBatch,
                 lock, writeDone, signal, work>>

WatchdogRead ==
  /\ ThreadRuns
  /\ wpc = "checked"
  /\ SerialTakers => fpc \notin Taking
  /\ wBatch' = hccaDone
  /\ wpc' = IF hccaDone = <<>> THEN "idle" ELSE "read"
  /\ UNCHANGED <<idle, active, hcDone, hccaDone, wdh, fpc, fBatch, lock,
                 writeDone, signal, work>>

WatchdogClear ==
  /\ ThreadRuns
  /\ wpc = "read"
  /\ hccaDone' = <<>>
  /\ wpc' = "cleared"
  /\ UNCHANGED <<idle, active, hcDone, wdh, fpc, fBatch, wBatch, lock,
                 writeDone, signal, work>>

WatchdogAck ==
  /\ ThreadRuns
  /\ wpc = "cleared"
  /\ wdh' = FALSE
  /\ wpc' = "acked"
  /\ UNCHANGED <<idle, active, hcDone, hccaDone, fpc, fBatch, wBatch, lock,
                 writeDone, signal, work>>

(* The lock is taken without disabling interrupts. *)
WatchdogLock ==
  /\ ThreadRuns
  /\ wpc = "acked"
  /\ lock = "none"
  /\ lock' = "watchdog"
  /\ wpc' = "locked"
  /\ UNCHANGED <<idle, active, hcDone, hccaDone, wdh, fpc, fBatch, wBatch,
                 writeDone, signal, work>>

WatchdogQueue ==
  /\ ThreadRuns
  /\ wpc = "locked"
  /\ writeDone' = Reverse(wBatch) \o writeDone
  /\ signal' = TRUE
  /\ lock' = "none"
  /\ wBatch' = <<>>
  /\ wpc' = "idle"
  /\ UNCHANGED <<idle, active, hcDone, hccaDone, wdh, fpc, fBatch, work>>

-----------------------------------------------------------------------------
(* handleInterrupt takes the queue with interrupts disabled, then          *)
(* completeTransferQueue returns one TD after another.                     *)

(* Mutant: _writeDoneHeadPtr is not reset.                                 *)
HandlerTakeKeepsQueue ==
  /\ ThreadRuns
  /\ signal
  /\ wpc = "idle" /\ work = <<>>
  /\ lock = "none"
  /\ signal' = FALSE
  /\ work' = writeDone
  /\ writeDone' = writeDone
  /\ UNCHANGED <<idle, active, hcDone, hccaDone, wdh, fpc, fBatch, wpc,
                 wBatch, lock>>

HandlerTake ==
  /\ ThreadRuns
  /\ signal
  /\ wpc = "idle" /\ work = <<>>
  /\ lock = "none"
  /\ signal' = FALSE
  /\ work' = writeDone
  /\ writeDone' = <<>>
  /\ UNCHANGED <<idle, active, hcDone, hccaDone, wdh, fpc, fBatch, wpc,
                 wBatch, lock>>

HandlerReturn ==
  /\ ThreadRuns
  /\ work # <<>>
  /\ idle' = idle \cup {Head(work)}
  /\ work' = Tail(work)
  /\ UNCHANGED <<active, hcDone, hccaDone, wdh, fpc, fBatch, wpc, wBatch,
                 lock, writeDone, signal>>

-----------------------------------------------------------------------------
Controller == (\E t \in TD : HCRetire(t)) \/ HCWriteback
Filter     == FilterRead \/ FilterClear \/ FilterAck \/ FilterQueue
Watchdog   == WatchdogCheck \/ WatchdogRead \/ WatchdogClear
                \/ WatchdogAck \/ WatchdogLock \/ WatchdogQueue
Handler    == HandlerTake \/ HandlerReturn

Next == (\E t \in TD : Submit(t)) \/ Controller \/ Filter \/ Watchdog \/ Handler

Spec == Init /\ [][Next]_vars

(* The controller keeps writing back, and code that has started goes on:   *)
(* the filter, the watchdog and the handler once it was signalled.  A TD   *)
(* may stay active for ever because its device never answers, and nothing  *)
(* forces a submission.  A filter that spins gets the lock: the watchdog   *)
(* holds it once in 250 ms.                                                *)
CodeRuns ==
  /\ WF_vars(HCWriteback)
  /\ WF_vars(FilterClear \/ FilterAck)
  /\ SF_vars(FilterQueue)
  /\ WF_vars(WatchdogRead \/ WatchdogClear \/ WatchdogAck \/ WatchdogLock
               \/ WatchdogQueue)
  /\ WF_vars(Handler)

(* Either primary interrupts are delivered or the watchdog keeps polling.  *)
Delivered == WF_vars(Filter)
Polled    == WF_vars(Watchdog)

FairSpec == Spec /\ CodeRuns /\ (Delivered \/ Polled)

-----------------------------------------------------------------------------
(* Where the TDs are.  A batch that was read but not yet zeroed in the     *)
(* HCCA belongs to the taker that read it.                                 *)

Place == {"idle", "active", "hc", "hcca", "filter", "watchdog", "queue", "work"}

OnHCCA == IF fpc = "read" \/ wpc = "read" THEN {} ELSE ToSet(hccaDone)

Held ==
  [p \in Place |->
     CASE p = "idle"     -> idle
       [] p = "active"   -> active
       [] p = "hc"       -> ToSet(hcDone)
       [] p = "hcca"     -> OnHCCA
       [] p = "filter"   -> ToSet(fBatch)
       [] p = "watchdog" -> ToSet(wBatch)
       [] p = "queue"    -> ToSet(writeDone)
       [] p = "work"     -> ToSet(work)]

(* No TD is ever lost: one that left the free list is always with the      *)
(* controller, in the HCCA, with a taker, in the software queue or with    *)
(* the handler, so that its transfer can still complete                    *)
(* (filterInterrupt, handleWatchdog: zeroing the done head and the ack).   *)
NoTransferLost == \A t \in TD : \E p \in Place : t \in Held[p]

(* No TD is in two places, or twice in one list: it is linked into the     *)
(* software queue once per execution, so its completion runs once and      *)
(* nextTransfer never closes a cycle (queueDoneHeadTransfers).             *)
OnePlaceEach ==
  /\ \A p, q \in Place : p # q => Held[p] \cap Held[q] = {}
  /\ \A s \in {hcDone, hccaDone, fBatch, wBatch, writeDone, work} : IsInjective(s)

(* Every retired TD comes back to the driver, with interrupts or with the  *)
(* watchdog alone (signalInterrupt, handleInterrupt, completeTransferQueue).*)
RetiredComesBack == \A t \in TD : t \in ToSet(hcDone) ~> t \in idle
=============================================================================
