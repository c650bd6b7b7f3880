----------------------------- MODULE OHCIRootHub -----------------------------
(***************************************************************************)
(* Root hub status changes in WiiOHCI.                                     *)
(*                                                                         *)
(* The hub driver polls the simulated root hub with interrupt transfers;   *)
(* they wait in a table of slots until some port latches a change.  The    *)
(* controller raises RootHubStatusChange (RHSC) on a new change.  The      *)
(* filter disables RHSC, acknowledges it and signals the secondary         *)
(* handler, which scans the ports: with a change it completes the oldest   *)
(* poll, without one it enables RHSC again.  A new poll starts the same    *)
(* scan, and so does the watchdog while a poll waits.  Nothing enables     *)
(* RHSC after a completion, so the next poll has to.                       *)
(*                                                                         *)
(* Polls, scans and the hub driver's requests run in the workloop gate;    *)
(* the controller and the filter run at any time.                          *)
(***************************************************************************)
EXTENDS Naturals, Sequences

CONSTANTS
  NumPorts,      \* ports of the root hub
  Slots,         \* size of _rootHubInterruptTransactions
  MaxPending,    \* bound: polls the hub driver keeps pending
  MaxPolls,      \* bound: polls
  MaxChanges     \* bound: changes on the ports

ASSUME RootHubAssumption ==
  /\ NumPorts \in Nat \ {0}
  /\ Slots \in Nat \ {0}
  /\ {MaxPending, MaxPolls, MaxChanges} \subseteq Nat

Port == 1..NumPorts
Poll == 1..MaxPolls

VARIABLES
  change,            \* ports with a change bit latched
  rhsc,              \* RootHubStatusChange in HcInterruptStatus
  rhscEnable,        \* RootHubStatusChange in HcInterruptEnable
  rhscFilter,        \* the filter: what it did about RHSC last
  intRootHubStatus,  \* _intRootHubStatus
  intResumeDetected, \* _intResumeDetected
  hubSignal,         \* signalInterrupt() was called
  slots,             \* _rootHubInterruptTransactions, oldest first
  gate, port, bitmap, \* the workloop's scan: next port, statusChangedBitmap
  keeps,             \* how many polls this hub driver keeps pending
  polls,             \* polls made so far
  answer,            \* how each poll was completed
  told,              \* changes the hub driver was told of and has not cleared
  changesLeft

hubVars == <<change, rhsc, rhscEnable>>
intVars == <<rhscFilter, intRootHubStatus, intResumeDetected, hubSignal>>
clientVars == <<keeps, polls, answer, told>>
rootHubVars ==
  <<hubVars, intVars, slots, gate, port, bitmap, clientVars, changesLeft>>

(* The types of the variables. *)
HubTypeOK ==
  /\ change \in SUBSET Port
  /\ rhsc \in BOOLEAN /\ rhscEnable \in BOOLEAN
  /\ rhscFilter \in {"idle", "disabled", "acked"}
  /\ {intRootHubStatus, intResumeDetected, hubSignal} \subseteq BOOLEAN
  /\ slots \in Seq(Poll) /\ Len(slots) <= Slots
  /\ gate \in {"idle", "scan"}
  /\ port \in 1..(NumPorts + 1)
  /\ bitmap \in SUBSET Port
  /\ keeps \in 0..MaxPending
  /\ polls \in 0..MaxPolls
  /\ answer \in [Poll -> {"none", "changed", "aborted", "refused"}]
  /\ told \in SUBSET Port
  /\ changesLeft \in 0..MaxChanges

(* UIMInitialize enables RHSC; the hub driver is not part of this code.    *)
HubInit ==
  /\ change = {}
  /\ rhsc = FALSE
  /\ rhscEnable = TRUE
  /\ rhscFilter = "idle"
  /\ intRootHubStatus = FALSE
  /\ intResumeDetected = FALSE
  /\ hubSignal = FALSE
  /\ slots = <<>>
  /\ gate = "idle"
  /\ port = 1
  /\ bitmap = {}
  /\ keeps \in 0..MaxPending
  /\ polls = 0
  /\ answer = [p \in Poll |-> "none"]
  /\ told = {}
  /\ changesLeft = MaxChanges

-----------------------------------------------------------------------------
(* The controller (external): a device comes, goes or finishes a reset.    *)
(* The status of the hub itself, bit 0 of the bitmap, is one more port.    *)

PortChange(p) ==
  /\ changesLeft > 0
  /\ changesLeft' = changesLeft - 1
  /\ change' = change \cup {p}
  /\ rhsc' = TRUE
  /\ UNCHANGED <<rhscEnable, intVars, slots, gate, port, bitmap, clientVars>>

-----------------------------------------------------------------------------
(* filterInterrupt: disable, acknowledge, tell the secondary handler.      *)

HubFilterDisable ==
  /\ rhscFilter = "idle"
  /\ rhsc /\ rhscEnable
  /\ rhscEnable' = FALSE
  /\ rhscFilter' = "disabled"
  /\ UNCHANGED <<change, rhsc, intRootHubStatus, intResumeDetected, hubSignal,
                 slots, gate, port, bitmap, clientVars, changesLeft>>

HubFilterAck ==
  /\ rhscFilter = "disabled"
  /\ rhsc' = FALSE
  /\ rhscFilter' = "acked"
  /\ UNCHANGED <<change, rhscEnable, intRootHubStatus, intResumeDetected, hubSignal,
                 slots, gate, port, bitmap, clientVars, changesLeft>>

(* Mutant: the secondary handler is not signalled.                         *)
HubFilterSignalSilent ==
  /\ rhscFilter = "acked"
  /\ intRootHubStatus' = TRUE
  /\ hubSignal' = hubSignal
  /\ rhscFilter' = "idle"
  /\ UNCHANGED <<hubVars, intResumeDetected, slots, gate, port, bitmap,
                 clientVars, changesLeft>>

HubFilterSignal ==
  /\ rhscFilter = "acked"
  /\ intRootHubStatus' = TRUE
  /\ hubSignal' = TRUE
  /\ rhscFilter' = "idle"
  /\ UNCHANGED <<hubVars, intResumeDetected, slots, gate, port, bitmap,
                 clientVars, changesLeft>>

(* A resume on a port also ends in a scan.                                 *)
HubFilterResume ==
  /\ rhscFilter = "idle"
  /\ ~intResumeDetected
  /\ intResumeDetected' = TRUE
  /\ hubSignal' = TRUE
  /\ UNCHANGED <<hubVars, rhscFilter, intRootHubStatus, slots, gate, port, bitmap,
                 clientVars, changesLeft>>

-----------------------------------------------------------------------------
(* completeRootHubInterruptTransfer(false): one status register after the  *)
(* other, then complete the oldest poll or enable RHSC.                    *)

StartScan ==
  /\ gate' = "scan"
  /\ port' = 1
  /\ bitmap' = {}

ScanPort ==
  /\ gate = "scan"
  /\ port <= NumPorts
  /\ bitmap' = IF port \in change THEN bitmap \cup {port} ELSE bitmap
  /\ port' = port + 1
  /\ UNCHANGED <<hubVars, intVars, slots, gate, clientVars, changesLeft>>

(* Mutant: the table is zeroed instead of shifted.                         *)
ScanCompletesClears ==
  /\ gate = "scan"
  /\ port > NumPorts
  /\ bitmap # {}
  /\ IF slots = <<>>
       THEN UNCHANGED <<slots, answer, told>>
       ELSE /\ slots' = <<>>
            /\ answer' = [answer EXCEPT ![Head(slots)] = "changed"]
            /\ told' = told \cup bitmap
  /\ gate' = "idle"
  /\ UNCHANGED <<hubVars, intVars, port, bitmap, keeps, polls, changesLeft>>

(* The others move forward.                                                *)
ScanCompletes ==
  /\ gate = "scan"
  /\ port > NumPorts
  /\ bitmap # {}
  /\ IF slots = <<>>
       THEN UNCHANGED <<slots, answer, told>>
       ELSE /\ slots' = Tail(slots)
            /\ answer' = [answer EXCEPT ![Head(slots)] = "changed"]
            /\ told' = told \cup bitmap
  /\ gate' = "idle"
  /\ UNCHANGED <<hubVars, intVars, port, bitmap, keeps, polls, changesLeft>>

(* Mutant: RHSC stays disabled.                                            *)
ScanRearmsNot ==
  /\ gate = "scan"
  /\ port > NumPorts
  /\ bitmap = {}
  /\ rhscEnable' = rhscEnable
  /\ gate' = "idle"
  /\ UNCHANGED <<change, rhsc, intVars, slots, port, bitmap, clientVars,
                 changesLeft>>

ScanRearms ==
  /\ gate = "scan"
  /\ port > NumPorts
  /\ bitmap = {}
  /\ rhscEnable' = TRUE
  /\ gate' = "idle"
  /\ UNCHANGED <<change, rhsc, intVars, slots, port, bitmap, clientVars,
                 changesLeft>>

-----------------------------------------------------------------------------
(* What starts a scan.                                                     *)

(* handleInterrupt takes the flags the filter left.                        *)
HandleInterrupt ==
  /\ gate = "idle"
  /\ hubSignal
  /\ hubSignal' = FALSE
  /\ intRootHubStatus' = FALSE
  /\ intResumeDetected' = FALSE
  /\ IF intRootHubStatus \/ intResumeDetected
       THEN StartScan
       ELSE UNCHANGED <<gate, port, bitmap>>
  /\ UNCHANGED <<hubVars, rhscFilter, slots, clientVars, changesLeft>>

(* handleWatchdog looks at the first slot.                                 *)
HubWatchdog ==
  /\ gate = "idle"
  /\ slots # <<>>
  /\ StartScan
  /\ UNCHANGED <<hubVars, intVars, slots, clientVars, changesLeft>>

(* simulateRootHubInterruptTransfer: a poll takes a slot or is refused.    *)
SubmitPoll ==
  /\ gate = "idle"
  /\ polls < MaxPolls /\ Len(slots) < keeps
  /\ polls' = polls + 1
  /\ IF Len(slots) < Slots
       THEN /\ slots' = Append(slots, polls')
            /\ StartScan
            /\ UNCHANGED answer
       ELSE /\ answer' = [answer EXCEPT ![polls'] = "refused"]
            /\ UNCHANGED <<slots, gate, port, bitmap>>
  /\ UNCHANGED <<hubVars, intVars, keeps, told, changesLeft>>

(* UIMRootHubStatusChange(true) aborts the oldest poll.                    *)
AbortPoll ==
  /\ gate = "idle"
  /\ slots # <<>>
  /\ slots' = Tail(slots)
  /\ answer' = [answer EXCEPT ![Head(slots)] = "aborted"]
  /\ UNCHANGED <<hubVars, intVars, gate, port, bitmap, keeps, polls, told,
                 changesLeft>>

(* ClearRootHubPortFeature: the hub driver clears a change it was told of. *)
ClearChange(p) ==
  /\ gate = "idle"
  /\ p \in told
  /\ told' = told \ {p}
  /\ change' = change \ {p}
  /\ UNCHANGED <<rhsc, rhscEnable, intVars, slots, gate, port, bitmap, keeps,
                 polls, answer, changesLeft>>

-----------------------------------------------------------------------------
HubFilter ==
  HubFilterDisable \/ HubFilterAck \/ HubFilterSignal \/ HubFilterResume
Scan == ScanPort \/ ScanCompletes \/ ScanRearms
HubDriver == SubmitPoll \/ AbortPoll \/ \E p \in Port : ClearChange(p)

HubNext ==
  \/ \E p \in Port : PortChange(p)
  \/ HubFilter \/ Scan \/ HandleInterrupt \/ HubWatchdog \/ HubDriver

HubSpec == HubInit /\ [][HubNext]_rootHubVars

(* Interrupts are delivered and the workloop runs.  The watchdog, which    *)
(* polls every 250 ms, is relied on only when several polls wait, and      *)
(* nothing is assumed of the hub driver.                                   *)
HubFairness ==
  /\ WF_rootHubVars(HubFilterDisable \/ HubFilterAck \/ HubFilterSignal)
  /\ WF_rootHubVars(Scan)
  /\ SF_rootHubVars(HandleInterrupt)
  /\ SF_rootHubVars(keeps > 1 /\ HubWatchdog)

HubFairSpec == HubSpec /\ HubFairness

-----------------------------------------------------------------------------
(* With one poll at a time a waiting poll is never deaf: while a change is *)
(* latched, a scan is on its way or the change interrupts.  The races are  *)
(* a change between the scan of its port and the enable, and one between   *)
(* the filter's disable and its acknowledgement (filterInterrupt,          *)
(* completeRootHubInterruptTransfer).                                      *)
NeverDeaf ==
  keeps <= 1 /\ slots # <<>> /\ change # {}
    => \/ gate = "scan" \/ rhscFilter # "idle"
       \/ hubSignal /\ (intRootHubStatus \/ intResumeDetected)
       \/ rhsc /\ rhscEnable

(* A change latched while a poll waits is reported or the poll ends.       *)
ChangeReported ==
  \A p \in Port :
    (p \in change /\ slots # <<>>) ~> (p \in told \/ p \notin change \/ slots = <<>>)

(* A poll is never lost: it waits in a slot or it was answered, and it is  *)
(* answered once, in the order the polls were made                         *)
(* (completeRootHubInterruptTransfer shifts the table).                    *)
PollsKept ==
  /\ HubTypeOK
  /\ \A i, j \in DOMAIN slots : i < j => slots[i] < slots[j]
  /\ \A p \in 1..polls : answer[p] = "none" <=> \E i \in DOMAIN slots : slots[i] = p
=============================================================================
