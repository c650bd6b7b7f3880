----------------------------- MODULE EHCIRootHub -----------------------------
(***************************************************************************)
(* The root hub that WiiEHCI simulates: port status registers, port resets *)
(* that sleep while interrupts are handled, ports handed to the companion  *)
(* controller, and the interrupt transfer ("poll") by which IOUSBFamily's  *)
(* hub driver learns of changes.                                           *)
(*                                                                         *)
(* Driver code runs in the gate of the workloop, one piece at a time, but  *)
(* lets others in where a reset sleeps or delays.  The hub driver keeps    *)
(* one poll pending; suspend and resume, which no property is about, are   *)
(* left out of the registers.                                              *)
(***************************************************************************)
EXTENDS Naturals, FiniteSets

CONSTANTS
  NumPorts,      \* _numPorts
  MaxPlugs       \* bound: devices plugged in or pulled

ASSUME PortAssumption == NumPorts \in Nat \ {0} /\ MaxPlugs \in Nat

Port == 1..NumPorts
NoPort == 0

VARIABLES
  dev,           \* the device on each port, as far as its speed
  bits,          \* PORTSC: power, owner, reset and enable
  change,        \* PORTSC: connect and enable change
  pcd,           \* PortChangeDetect in USBSTS
  resetActive,   \* _portResetActiveBitmap
  resetChange,   \* _portResetChangeBitmap
  reset,         \* resetRootHubPort: the port, and where the call sleeps
  handler,       \* the code in the gate: where it is, USBSTS as it was read
  port, bitmap,  \* completeRootHubInterruptTransfer: next port, changes so far
  polled,        \* a poll is in _rootHubInterruptTransactions
  sorted,        \* history: ports reset with the present device in place
  plugs          \* devices plugged in or pulled so far

portVars  == <<dev, bits, change, pcd>>
resetVars == <<resetActive, resetChange, reset>>
scanVars  == <<port, bitmap>>
rootHubVars == <<portVars, resetVars, handler, scanVars, polled, sorted, plugs>>

(* getPortBit, as a bit number.                                            *)
PortBit(p) == p - 1

NoReset == [port |-> NoPort, at |-> "none"]
HubIdle == [at |-> "idle", pcd |-> FALSE]

(* The types of the variables.                                             *)
HubTypeOK ==
  /\ dev \in [Port -> {"none", "high", "full"}]
  /\ bits \in [Port -> SUBSET {"power", "owner", "reset", "enable"}]
  /\ change \in [Port -> SUBSET {"conn", "enable"}]
  /\ resetActive \cup resetChange \subseteq 0..(NumPorts - 1)
  /\ reset \in [port : Port, at : {"hold", "wait"}] \cup {NoReset}
  /\ handler \in [at : {"idle", "check", "ack", "scan"}, pcd : BOOLEAN]
  /\ port \in 1..(NumPorts + 1) /\ bitmap \subseteq Port
  /\ {pcd, polled} \subseteq BOOLEAN
  /\ sorted \subseteq Port /\ plugs \in 0..MaxPlugs

(* UIMInitialize has routed all ports to EHCI and powered them.            *)
HubInit ==
  /\ dev = [p \in Port |-> "none"]
  /\ bits = [p \in Port |-> {"power"}]
  /\ change = [p \in Port |-> {}]
  /\ pcd = FALSE
  /\ resetActive = {} /\ resetChange = {}
  /\ reset = NoReset
  /\ handler = HubIdle
  /\ port = 1 /\ bitmap = {}
  /\ polled = FALSE
  /\ sorted = {}
  /\ plugs = 0

-----------------------------------------------------------------------------
(* The port registers (external).  A port shows no device while it has no  *)
(* power or is owned by the companion.                                     *)

Connected(d, b) == d # "none" /\ "power" \in b /\ "owner" \notin b

(* Port p gets device d and bits b; whatever becomes of the connection is  *)
(* latched in the change bits, of which "cleared" are reset.               *)
Registers(p, d, b, cleared) ==
  LET lost == IF Connected(d, b) THEN {} ELSE {"reset", "enable"}
      flip == Connected(d, b) # Connected(dev[p], bits[p])
      new  == (IF flip THEN {"conn"} ELSE {})
                \cup (IF d = "none" /\ "enable" \in bits[p] THEN {"enable"} ELSE {})
  IN  /\ dev' = [dev EXCEPT ![p] = d]
      /\ bits' = [bits EXCEPT ![p] = b \ lost]
      /\ change' = [change EXCEPT ![p] = (@ \ cleared) \cup new]
      /\ pcd' = (pcd \/ new # {})

(* A device comes or goes; a port without one is with EHCI again.          *)
Plug(p, d) ==
  /\ plugs < MaxPlugs /\ plugs' = plugs + 1
  /\ dev[p] # d /\ (dev[p] = "none" \/ d = "none")
  /\ Registers(p, d, IF d = "none" THEN bits[p] \ {"owner"} ELSE bits[p], {})
  /\ sorted' = sorted \ {p}
  /\ UNCHANGED <<resetVars, handler, scanVars, polled>>

(* After the reset bit was written 0 the controller ends the reset and     *)
(* enables a port with a high speed device.                                *)
ResetEnds(p) ==
  /\ reset = [port |-> p, at |-> "wait"]
  /\ "reset" \in bits[p]
  /\ Registers(p, dev[p], (bits[p] \ {"reset"})
                 \cup (IF dev[p] = "high" THEN {"enable"} ELSE {}), {})
  /\ UNCHANGED <<resetVars, handler, scanVars, polled, sorted, plugs>>

-----------------------------------------------------------------------------
(* Writing a port register.                                                *)

(* Mutant: change bits are written back as they were read, and so cleared. *)
WritePortFeatureEchoes(p, setBits, clearBits, clearChange) ==
  LET b == (bits[p] \ clearBits) \cup setBits
      quiet == IF "reset" \in setBits THEN b \ {"enable"} ELSE b
  IN  Registers(p, dev[p], quiet, change[p] \cup clearChange)

(* writePortFeature: read, modify, write; the change bits, which are       *)
(* cleared by writing 1, are masked.  Setting reset disables the port.     *)
WritePortFeature(p, setBits, clearBits, clearChange) ==
  LET b == (bits[p] \ clearBits) \cup setBits
      quiet == IF "reset" \in setBits THEN b \ {"enable"} ELSE b
  IN  Registers(p, dev[p], quiet, clearChange)

(* Mutant: high speed devices go to the companion, too.                    *)
ShouldHandPortAlways(p) == Connected(dev[p], bits[p])

(* WiiEHCIShouldHandPortToCompanion: connected, not enabled.               *)
ShouldHandPortToCompanion(p) ==
  Connected(dev[p], bits[p]) /\ "enable" \notin bits[p]

(* updatePortChangeBits: a reset that is over while its call sleeps is     *)
(* noticed by others, who hand the port over as the call would.            *)
UpdatePortChangeBits ==
  LET over == {p \in Port : PortBit(p) \in resetActive /\ "reset" \notin bits[p]}
  IN  /\ resetActive' = resetActive \ {PortBit(p) : p \in over}
      /\ resetChange' = resetChange \cup {PortBit(p) : p \in over}
      /\ IF \E p \in over : ShouldHandPortToCompanion(p)
           THEN \E p \in over : ShouldHandPortToCompanion(p)
                                  /\ WritePortFeature(p, {"owner"}, {}, {})
           ELSE UNCHANGED portVars

-----------------------------------------------------------------------------
(* completeRootHubInterruptTransfer(false): the status of one port after   *)
(* the other (GetRootHubPortStatus), then the poll.                        *)

StartScan ==
  /\ handler' = [HubIdle EXCEPT !.at = "scan"]
  /\ port' = 1 /\ bitmap' = {}

Changed(p) == change[p] # {} \/ PortBit(p) \in resetChange

ScanPort ==
  /\ handler.at = "scan"
  /\ port <= NumPorts
  /\ UpdatePortChangeBits
  /\ bitmap' = IF change'[port] # {} \/ PortBit(port) \in resetChange'
                 THEN bitmap \cup {port} ELSE bitmap
  /\ port' = port + 1
  /\ UNCHANGED <<reset, handler, polled, sorted, plugs>>

(* Mutant: USBSTS is acknowledged only after the scan.                     *)
HubScanEndsAcknowledges ==
  /\ handler.at = "scan"
  /\ port = NumPorts + 1
  /\ polled' = (polled /\ bitmap = {})
  /\ pcd' = FALSE
  /\ handler' = HubIdle
  /\ port' = 1 /\ bitmap' = {}
  /\ UNCHANGED <<dev, bits, change, resetVars, sorted, plugs>>

HubScanEnds ==
  /\ handler.at = "scan"
  /\ port = NumPorts + 1
  /\ polled' = (polled /\ bitmap = {})
  /\ handler' = HubIdle
  /\ port' = 1 /\ bitmap' = {}
  /\ UNCHANGED <<portVars, resetVars, sorted, plugs>>

-----------------------------------------------------------------------------
(* handleInterrupt, and PollInterrupts, which comes at any time.           *)

HubHandleInterrupt ==
  /\ handler.at = "idle"
  /\ UpdatePortChangeBits
  /\ handler' = [at |-> "check", pcd |-> pcd]
  /\ UNCHANGED <<reset, scanVars, polled, sorted, plugs>>

(* hasPendingPortChange                                                    *)
CheckPending ==
  /\ handler.at = "check"
  /\ IF handler.pcd \/ \E p \in Port : Changed(p)
       THEN handler' = [handler EXCEPT !.at = "ack"]
       ELSE handler' = HubIdle
  /\ UNCHANGED <<portVars, resetVars, scanVars, polled, sorted, plugs>>

(* acknowledgeInterruptStatus: what was read is cleared, then the scan.    *)
Acknowledge ==
  /\ handler.at = "ack"
  /\ pcd' = (pcd /\ ~handler.pcd)
  /\ StartScan
  /\ UNCHANGED <<dev, bits, change, resetVars, polled, sorted, plugs>>

-----------------------------------------------------------------------------
(* The hub driver.                                                         *)

InGate == handler.at = "idle"

(* simulateRootHubInterruptTransfer                                        *)
SubmitPoll ==
  /\ InGate
  /\ ~polled
  /\ polled' = TRUE
  /\ StartScan
  /\ UNCHANGED <<portVars, resetVars, sorted, plugs>>

(* UIMRootHubStatusChange(true)                                            *)
AbortPoll ==
  /\ InGate
  /\ polled
  /\ polled' = FALSE
  /\ UNCHANGED <<portVars, resetVars, handler, scanVars, sorted, plugs>>

(* resetRootHubPort: write the bit and sleep, ...                          *)
ResetBegins(p) ==
  /\ InGate
  /\ reset = NoReset
  /\ WritePortFeature(p, {"reset"}, {}, {})
  /\ resetChange' = resetChange \ {PortBit(p)}
  /\ resetActive' = resetActive \cup {PortBit(p)}
  /\ reset' = [port |-> p, at |-> "hold"]
  /\ sorted' = IF Connected(dev[p], bits[p]) THEN sorted \cup {p} ELSE sorted \ {p}
  /\ UNCHANGED <<handler, scanVars, polled, plugs>>

(* ... clear the bit and wait for the controller, ...                      *)
ResetHeld ==
  /\ InGate
  /\ reset.at = "hold"
  /\ reset' = [reset EXCEPT !.at = "wait"]
  /\ UNCHANGED <<portVars, resetActive, resetChange, handler, scanVars, polled, sorted, plugs>>

(* ... give up, ...                                                        *)
ResetTimesOut ==
  /\ InGate
  /\ reset.at = "wait"
  /\ "reset" \in bits[reset.port]
  /\ resetActive' = resetActive \ {PortBit(reset.port)}
  /\ reset' = NoReset
  /\ sorted' = sorted \ {reset.port}
  /\ UNCHANGED <<portVars, resetChange, handler, scanVars, polled, plugs>>

(* Mutant: nobody is told.                                                 *)
ResetSucceedsSilent ==
  /\ InGate
  /\ reset.at = "wait"
  /\ "reset" \notin bits[reset.port]
  /\ IF ShouldHandPortToCompanion(reset.port)
       THEN WritePortFeature(reset.port, {"owner"}, {}, {})
       ELSE UNCHANGED portVars
  /\ resetActive' = resetActive \ {PortBit(reset.port)}
  /\ resetChange' = resetChange \cup {PortBit(reset.port)}
  /\ reset' = NoReset
  /\ UNCHANGED <<handler, scanVars, polled, sorted, plugs>>

(* ... or hand the port over if need be and report the change.             *)
ResetSucceeds ==
  /\ InGate
  /\ reset.at = "wait"
  /\ "reset" \notin bits[reset.port]
  /\ IF ShouldHandPortToCompanion(reset.port)
       THEN WritePortFeature(reset.port, {"owner"}, {}, {})
       ELSE UNCHANGED portVars
  /\ resetActive' = resetActive \ {PortBit(reset.port)}
  /\ resetChange' = resetChange \cup {PortBit(reset.port)}
  /\ reset' = NoReset
  /\ StartScan
  /\ UNCHANGED <<polled, sorted, plugs>>

(* SetRootHubPortFeature, except for reset.                                *)
SetPortFeature(p, feature) ==
  /\ InGate
  /\ feature = "power"
  /\ WritePortFeature(p, {feature}, {}, {})
  /\ UNCHANGED <<resetVars, handler, scanVars, polled, sorted, plugs>>

(* ClearRootHubPortFeature: status, change bits, end of a reset.           *)
ClearPortFeature(p, feature) ==
  /\ InGate
  /\ feature \in {"enable", "power"}
  /\ WritePortFeature(p, {}, {feature}, {})
  /\ sorted' = sorted \ {p}
  /\ UNCHANGED <<resetVars, handler, scanVars, polled, plugs>>

ClearPortChange(p, c) ==
  /\ InGate
  /\ c \in {"conn", "enable"}
  /\ WritePortFeature(p, {}, {}, {c})
  /\ UNCHANGED <<resetVars, handler, scanVars, polled, sorted, plugs>>

ClearResetChange(p) ==
  /\ InGate
  /\ resetChange' = resetChange \ {PortBit(p)}
  /\ UNCHANGED <<portVars, resetActive, reset, handler, scanVars, polled, sorted, plugs>>

-----------------------------------------------------------------------------
Handler == CheckPending \/ Acknowledge \/ ScanPort \/ HubScanEnds
ResetCall == ResetHeld \/ ResetTimesOut \/ ResetSucceeds

HubDriver ==
  \/ SubmitPoll \/ AbortPoll
  \/ \E p \in Port :
       \/ ResetBegins(p) \/ ClearResetChange(p)
       \/ \E f \in {"power", "enable", "conn"} :
            SetPortFeature(p, f) \/ ClearPortFeature(p, f) \/ ClearPortChange(p, f)

HubNext ==
  \/ \E p \in Port : ResetEnds(p) \/ \E d \in {"none", "high", "full"} : Plug(p, d)
  \/ HubHandleInterrupt \/ Handler \/ ResetCall \/ HubDriver

HubSpec == HubInit /\ [][HubNext]_rootHubVars

(* The gate is left again, port change interrupts are delivered, and a     *)
(* reset that sleeps goes on.  Nothing is assumed of the hub driver, nor   *)
(* that anybody calls PollInterrupts.                                      *)
HubFairness ==
  /\ WF_rootHubVars(Handler)
  /\ SF_rootHubVars(pcd /\ HubHandleInterrupt)
  /\ SF_rootHubVars(ResetCall)

HubFairSpec == HubSpec /\ HubFairness

-----------------------------------------------------------------------------
(* A waiting poll is never deaf: with a change latched and nobody in the   *)
(* gate, the controller interrupts, or the call that reset the port is     *)
(* about to report.  The races are a change between the reading and the    *)
(* acknowledgement of USBSTS, one on a port already scanned, and a reset   *)
(* that ends during a scan (handleInterrupt, updatePortChangeBits,         *)
(* completeRootHubInterruptTransfer).                                      *)
NeverDeaf ==
  InGate /\ polled =>
    \A p \in Port : Changed(p) =>
      pcd \/ (reset = [port |-> p, at |-> "wait"] /\ "reset" \notin bits[p])

(* A latched change reaches the hub driver: the waiting poll is completed, *)
(* or the change is cleared first (UIMRootHubStatusChange).                *)
ChangeReported ==
  \A p \in Port : (polled /\ Changed(p)) ~> (~polled \/ ~Changed(p))

(* Once a reset has succeeded, and as long as its device stays and the     *)
(* port is not disabled, a full speed device is with the companion and a   *)
(* high speed one enabled here, whoever noticed the end of the reset       *)
(* (resetRootHubPort, updatePortChangeBits, handPortToCompanion).          *)
EachWithItsController ==
  /\ HubTypeOK
  /\ \A p \in sorted : reset.port # p =>
       IF dev[p] = "full" THEN "owner" \in bits[p]
                          ELSE "enable" \in bits[p] /\ "owner" \notin bits[p]

(* A change bit stays until the hub driver clears just that bit, although  *)
(* every write to the register reads it and writes it back                 *)
(* (writePortFeature); a reset change is taken back by a new reset only    *)
(* (resetRootHubPort).                                                     *)
ChangesKept ==
  [][\A p \in Port :
       /\ \A c \in change[p] \ change'[p] : ClearPortChange(p, c)
       /\ PortBit(p) \in resetChange \ resetChange' => ClearResetChange(p) \/ ResetBegins(p)]_rootHubVars
=============================================================================
