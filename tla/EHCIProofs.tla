------------------------------ MODULE EHCIProofs ------------------------------
(***************************************************************************)
(* Proofs about the EHCI driver, first its root hub, then its asynchronous *)
(* schedule.                                                               *)
(*                                                                         *)
(* The root hub, for any number of ports and plugged devices: a waiting    *)
(* poll is never deaf, and a device whose port was reset is with the       *)
(* controller of its speed.  For the first, a scan keeps that whatever is  *)
(* due on a port it has passed is in the bitmap or will interrupt; a reset *)
(* that ended is due before anybody has noticed.  For the second, a port   *)
(* stays sorted from the beginning of its reset, whoever notices the end.  *)
(*                                                                         *)
(* The schedule, for any pipes, transfers and pool: every qTD is in one    *)
(* place.  The invariant says which call may stand on which, what each     *)
(* holds, and that what is held, queued, free and a dummy has nothing in   *)
(* common, but for the first qTD of a transaction being written.           *)
(*                                                                         *)
(* The controller works on a pipe's own qTDs only: its queue head follows  *)
(* the chain of the pipe, which is its queue with the transaction being    *)
(* written or, until the queue head is rebuilt, those taken off it.  What  *)
(* it works on is active and all before that retired.                      *)
(*                                                                         *)
(* Clients see the abstract pipe of USBPipe: every issued transfer without *)
(* an answer waits, in its queue or in the call that will answer it, and   *)
(* what waits in a queue, or was taken off to be completed, is in the      *)
(* order of issue.                                                         *)
(***************************************************************************)
EXTENDS EHCIAsync, EHCIRootHub, DescriptorLists
-----------------------------------------------------------------------------
Bits == {"power", "owner", "reset", "enable"}

(* The reset of p is over and its call about to report it.                 *)
Over(p) == reset = [port |-> p, at |-> "wait"] /\ "reset" \notin bits[p]

(* What a scan has to find on a port: a change, or the end of a reset.     *)
Due(p) == Changed(p) \/ (PortBit(p) \in resetActive /\ "reset" \notin bits[p])

InReset == \A p \in Port : "reset" \in bits[p] => Connected(dev[p], bits[p])

Behind ==
  handler.at = "scan" =>
    \A p \in Port : Due(p) => p >= port \/ bitmap # {} \/ pcd \/ Over(p)

(* The controllers of a port that was or is being reset with its device.   *)
Placed(p) ==
  /\ dev[p] # "none"
  /\ "reset" \in bits[p] => reset.port = p /\ "enable" \notin bits[p]
  /\ "reset" \notin bits[p] /\ dev[p] = "high" =>
       Connected(dev[p], bits[p]) /\ "enable" \in bits[p]
  /\ "reset" \notin bits[p] /\ dev[p] = "full" =>
       \/ "owner" \in bits[p]
       \/ /\ reset = [port |-> p, at |-> "wait"]
          /\ Connected(dev[p], bits[p]) /\ "enable" \notin bits[p]
  /\ reset = [port |-> p, at |-> "hold"] => "reset" \in bits[p]

Sorted == \A p \in sorted : Placed(p)

IInv == HubTypeOK /\ InReset /\ NeverDeaf /\ Behind /\ Sorted

-----------------------------------------------------------------------------
(* What writing a port register does.                                      *)

LEMMA RegistersTypes ==
  ASSUME HubTypeOK, NEW p \in Port, NEW d \in {"none", "high", "full"},
         NEW b \in SUBSET Bits, NEW cleared, Registers(p, d, b, cleared)
  PROVE  /\ dev' \in [Port -> {"none", "high", "full"}]
         /\ bits' \in [Port -> SUBSET Bits]
         /\ change' \in [Port -> SUBSET {"conn", "enable"}]
         /\ pcd' \in BOOLEAN
<1> USE DEF HubTypeOK, Bits
<1>1. pcd' \in BOOLEAN
  BY Zenon DEF Registers
<1>2. /\ dev' \in [Port -> {"none", "high", "full"}]
      /\ bits' \in [Port -> SUBSET Bits]
      /\ change' \in [Port -> SUBSET {"conn", "enable"}]
  BY DEF Registers
<1> QED BY <1>1, <1>2

LEMMA RegistersPort ==
  ASSUME HubTypeOK, NEW p \in Port, NEW d \in {"none", "high", "full"},
         NEW b \in SUBSET Bits, NEW cleared, Registers(p, d, b, cleared)
  PROVE  /\ \A q \in Port \ {p} : UNCHANGED <<dev[q], bits[q], change[q]>>
         /\ dev'[p] = d
         /\ bits'[p] = IF Connected(d, b) THEN b ELSE b \ {"reset", "enable"}
         /\ Connected(dev'[p], bits'[p]) <=> Connected(d, b)
         /\ pcd => pcd'
         /\ ~(change'[p] \subseteq change[p]) => pcd'
         /\ (Connected(d, b) <=> Connected(dev[p], bits[p])) \/ pcd'
<1> USE DEF HubTypeOK
<1>1. \A q \in Port \ {p} : UNCHANGED <<dev[q], bits[q], change[q]>>
  BY DEF Registers
<1>2. /\ dev'[p] = d
      /\ bits'[p] = IF Connected(d, b) THEN b ELSE b \ {"reset", "enable"}
  BY DEF Registers
<1>3. Connected(dev'[p], bits'[p]) <=> Connected(d, b)
  BY <1>2 DEF Connected
<1> DEFINE flip == Connected(d, b) # Connected(dev[p], bits[p])
           new == (IF flip THEN {"conn"} ELSE {})
                    \cup (IF d = "none" /\ "enable" \in bits[p] THEN {"enable"} ELSE {})
<1>4. change'[p] = (change[p] \ cleared) \cup new /\ pcd' = (pcd \/ new # {})
  BY DEF Registers
<1>5. Connected(d, b) \in BOOLEAN /\ Connected(dev[p], bits[p]) \in BOOLEAN
  BY DEF Connected
<1>6. flip => new # {}
  OBVIOUS
<1>7. (pcd => pcd') /\ (new # {} => pcd')
  BY <1>4, Zenon
<1>8. ~(change'[p] \subseteq change[p]) => new # {}
  BY <1>4
<1> QED BY <1>1, <1>2, <1>3, <1>5, <1>6, <1>7, <1>8

(* No port keeps the reset bit without a device.                           *)
LEMMA RegistersInReset ==
  ASSUME HubTypeOK, InReset, NEW p \in Port, NEW d \in {"none", "high", "full"},
         NEW b \in SUBSET Bits, NEW cleared, Registers(p, d, b, cleared)
  PROVE  InReset'
<1> SUFFICES ASSUME NEW q \in Port, "reset" \in bits'[q]
             PROVE  Connected(dev'[q], bits'[q])
  BY DEF InReset
<1>1. CASE q = p
  BY <1>1, RegistersPort
<1>2. CASE q # p
  BY <1>2, RegistersPort DEF InReset
<1> QED BY <1>1, <1>2

LEMMA WriteIs ==
  ASSUME HubTypeOK, NEW p \in Port, NEW S \in SUBSET Bits, NEW C \in SUBSET Bits,
         NEW cleared, WritePortFeature(p, S, C, cleared)
  PROVE  \E b \in SUBSET Bits :
           /\ Registers(p, dev[p], b, cleared)
           /\ b = IF "reset" \in S THEN ((bits[p] \ C) \cup S) \ {"enable"}
                                   ELSE (bits[p] \ C) \cup S
<1> DEFINE b == IF "reset" \in S THEN ((bits[p] \ C) \cup S) \ {"enable"}
                                 ELSE (bits[p] \ C) \cup S
<1>1. b \in SUBSET Bits
  BY DEF HubTypeOK, Bits
<1>2. Registers(p, dev[p], b, cleared)
  BY DEF WritePortFeature
<1> QED BY <1>1, <1>2

-----------------------------------------------------------------------------
LEMMA InitIInv == HubInit => IInv
<1> SUFFICES ASSUME HubInit PROVE IInv
  OBVIOUS
<1> USE PortAssumption DEF HubInit
<1>1. HubTypeOK
  <2>1. pcd \in BOOLEAN /\ polled \in BOOLEAN
    BY Zenon
  <2>2. {pcd, polled} \subseteq BOOLEAN
    BY <2>1
  <2>3. handler \in [at : {"idle", "check", "ack", "scan"}, pcd : BOOLEAN]
    BY DEF HubIdle
  <2> QED BY <2>2, <2>3 DEF HubTypeOK, Port
<1>2. InReset
  BY DEF InReset
<1>3. NeverDeaf
  BY Zenon DEF NeverDeaf
<1>4. Behind
  BY DEF Behind, HubIdle
<1>5. Sorted
  BY DEF Sorted
<1> QED BY <1>1, <1>2, <1>3, <1>4, <1>5 DEF IInv

-----------------------------------------------------------------------------
(* What noticing the end of a reset does.                                  *)
LEMMA UpdateIs ==
  ASSUME HubTypeOK, InReset, UpdatePortChangeBits
  PROVE  /\ dev' \in [Port -> {"none", "high", "full"}]
         /\ bits' \in [Port -> SUBSET Bits]
         /\ change' \in [Port -> SUBSET {"conn", "enable"}]
         /\ pcd' \in BOOLEAN
         /\ resetActive' \cup resetChange' \subseteq 0 .. (NumPorts - 1)
         /\ InReset'
         /\ pcd => pcd'
         /\ \A p \in Port :
              /\ dev'[p] = dev[p]
              /\ change'[p] \subseteq change[p] \/ pcd'
              /\ "reset" \in bits'[p] <=> "reset" \in bits[p]
              /\ \/ bits'[p] = bits[p]
                 \/ /\ ShouldHandPortToCompanion(p) /\ "owner" \in bits'[p]
                    /\ "reset" \notin bits[p]
              /\ PortBit(p) \in resetActive' =>
                   PortBit(p) \in resetActive /\ "reset" \in bits[p]
              /\ PortBit(p) \in resetChange' =>
                   \/ PortBit(p) \in resetChange
                   \/ PortBit(p) \in resetActive /\ "reset" \notin bits[p]
<1> DEFINE over == {p \in Port : PortBit(p) \in resetActive /\ "reset" \notin bits[p]}
<1>1. /\ resetActive' = resetActive \ {PortBit(p) : p \in over}
      /\ resetChange' = resetChange \cup {PortBit(p) : p \in over}
  BY DEF UpdatePortChangeBits
<1>2. \/ UNCHANGED portVars
      \/ \E p \in over : /\ ShouldHandPortToCompanion(p)
                         /\ WritePortFeature(p, {"owner"}, {}, {})
  BY DEF UpdatePortChangeBits
<1>3. \A p, q \in Port : PortBit(p) = PortBit(q) => p = q
  BY DEF PortBit, Port
<1>4. /\ resetActive' \cup resetChange' \subseteq 0 .. (NumPorts - 1)
      /\ \A p \in Port :
           /\ PortBit(p) \in resetActive' =>
                PortBit(p) \in resetActive /\ "reset" \in bits[p]
           /\ PortBit(p) \in resetChange' =>
                \/ PortBit(p) \in resetChange
                \/ PortBit(p) \in resetActive /\ "reset" \notin bits[p]
  <2>1. \A p \in Port : PortBit(p) \in 0 .. (NumPorts - 1)
    BY PortAssumption DEF PortBit, Port
  <2> QED BY <1>1, <1>3, <2>1 DEF HubTypeOK
<1>5. CASE UNCHANGED portVars
  BY <1>4, <1>5 DEF portVars, HubTypeOK, InReset, Bits
<1>6. CASE \E p \in over : /\ ShouldHandPortToCompanion(p)
                           /\ WritePortFeature(p, {"owner"}, {}, {})
  <2>1. PICK p \in over : /\ ShouldHandPortToCompanion(p)
                          /\ WritePortFeature(p, {"owner"}, {}, {})
    BY <1>6
  <2>2. p \in Port /\ "reset" \notin bits[p] /\ dev[p] \in {"none", "high", "full"}
    BY DEF HubTypeOK
  <2>3. PICK b \in SUBSET Bits : /\ Registers(p, dev[p], b, {})
                                 /\ b = bits[p] \cup {"owner"}
    <3>1. {"owner"} \in SUBSET Bits /\ {} \in SUBSET Bits /\ "reset" \notin {"owner"}
      BY DEF Bits
    <3>2. \E b \in SUBSET Bits :
            /\ Registers(p, dev[p], b, {})
            /\ b = IF "reset" \in {"owner"} THEN ((bits[p] \ {}) \cup {"owner"}) \ {"enable"}
                                            ELSE (bits[p] \ {}) \cup {"owner"}
      BY <2>1, <2>2, <3>1, WriteIs
    <3> QED BY <3>1, <3>2
  <2>4. /\ dev' \in [Port -> {"none", "high", "full"}]
        /\ bits' \in [Port -> SUBSET Bits]
        /\ change' \in [Port -> SUBSET {"conn", "enable"}]
        /\ pcd' \in BOOLEAN
    BY <2>2, <2>3, RegistersTypes
  <2>5. InReset'
    BY <2>2, <2>3, RegistersInReset
  <2>6. /\ \A q \in Port \ {p} : UNCHANGED <<dev[q], bits[q], change[q]>>
        /\ dev'[p] = dev[p]
        /\ bits'[p] = IF Connected(dev[p], b) THEN b ELSE b \ {"reset", "enable"}
        /\ pcd => pcd'
        /\ ~(change'[p] \subseteq change[p]) => pcd'
    <3> HIDE DEF over
    <3>1. p \in Port /\ dev[p] \in {"none", "high", "full"} /\ Registers(p, dev[p], b, {})
      BY <2>2, <2>3
    <3> QED BY <3>1, RegistersPort, Zenon
  <2>7. "owner" \in bits'[p] /\ "reset" \notin bits'[p]
    BY <2>2, <2>3, <2>6
  <2>8. \A q \in Port :
          /\ dev'[q] = dev[q]
          /\ change'[q] \subseteq change[q] \/ pcd'
          /\ "reset" \in bits'[q] <=> "reset" \in bits[q]
          /\ \/ bits'[q] = bits[q]
             \/ /\ ShouldHandPortToCompanion(q) /\ "owner" \in bits'[q]
                /\ "reset" \notin bits[q]
    BY <2>1, <2>2, <2>6, <2>7
  <2> QED BY <1>4, <2>4, <2>5, <2>6, <2>8
<1> QED BY <1>2, <1>5, <1>6

-----------------------------------------------------------------------------
(* Every call that writes a port register does it so; "sets" says that it  *)
(* may set the reset bit.                                                  *)
Write(p, sets) ==
  \E d \in {"none", "high", "full"}, b \in SUBSET Bits, c \in SUBSET {"conn", "enable"} :
    Registers(p, d, b, c) /\ ("reset" \in b => "reset" \in bits[p] \/ sets)

LEMMA Writes ==
  ASSUME HubTypeOK, NEW p \in Port
  PROVE  /\ \A d \in {"none", "high", "full"} : Plug(p, d) => Write(p, FALSE)
         /\ ResetEnds(p) => Write(p, FALSE)
         /\ ResetBegins(p) => Write(p, TRUE)
         /\ \A f \in {"power", "enable", "conn"} :
              /\ SetPortFeature(p, f) => Write(p, FALSE)
              /\ ClearPortFeature(p, f) => Write(p, FALSE)
              /\ ClearPortChange(p, f) => Write(p, FALSE)
         /\ (ResetSucceeds /\ reset.port = p) => Write(p, FALSE) \/ UNCHANGED portVars
<1>1. dev[p] \in {"none", "high", "full"} /\ bits[p] \in SUBSET Bits
  BY DEF HubTypeOK, Bits
<1>2. ASSUME NEW S \in SUBSET Bits, NEW C \in SUBSET Bits,
             NEW c \in SUBSET {"conn", "enable"}, WritePortFeature(p, S, C, c)
      PROVE  Write(p, "reset" \in S)
  <2> DEFINE b == IF "reset" \in S THEN ((bits[p] \ C) \cup S) \ {"enable"}
                                   ELSE (bits[p] \ C) \cup S
  <2>1. b \in SUBSET Bits /\ ("reset" \in b => "reset" \in bits[p] \/ "reset" \in S)
    BY <1>1
  <2>2. Registers(p, dev[p], b, c)
    BY <1>2 DEF WritePortFeature
  <2> QED BY <1>1, <2>1, <2>2 DEF Write
<1>3. ASSUME NEW d \in {"none", "high", "full"}, Plug(p, d) PROVE Write(p, FALSE)
  <2> DEFINE b == IF d = "none" THEN bits[p] \ {"owner"} ELSE bits[p]
  <2>1. b \in SUBSET Bits /\ ("reset" \in b => "reset" \in bits[p])
    BY <1>1
  <2>2. Registers(p, d, b, {})
    BY <1>3 DEF Plug
  <2> QED BY <2>1, <2>2 DEF Write
<1>4. ASSUME ResetEnds(p) PROVE Write(p, FALSE)
  <2> DEFINE b == (bits[p] \ {"reset"}) \cup (IF dev[p] = "high" THEN {"enable"} ELSE {})
  <2>1. b \in SUBSET Bits /\ "reset" \notin b
    BY <1>1 DEF Bits
  <2>2. Registers(p, dev[p], b, {})
    BY <1>4 DEF ResetEnds
  <2> QED BY <1>1, <2>1, <2>2 DEF Write
<1>5. ResetBegins(p) => Write(p, TRUE)
  <2>1. {"reset"} \in SUBSET Bits /\ {} \in SUBSET Bits /\ ("reset" \in {"reset"}) = TRUE
    BY DEF Bits
  <2> QED BY <1>2, <2>1 DEF ResetBegins
<1>6. ASSUME NEW S \in SUBSET {"power", "owner", "enable"}, NEW C \in SUBSET Bits,
             NEW c \in SUBSET {"conn", "enable"}, WritePortFeature(p, S, C, c)
      PROVE  Write(p, FALSE)
  <2>1. S \in SUBSET Bits /\ ("reset" \in S) = FALSE
    BY DEF Bits
  <2> QED BY <1>2, <1>6, <2>1
<1>7. ASSUME NEW f \in {"power", "enable", "conn"}
      PROVE  /\ SetPortFeature(p, f) => Write(p, FALSE)
             /\ ClearPortFeature(p, f) => Write(p, FALSE)
             /\ ClearPortChange(p, f) => Write(p, FALSE)
  <2>1. SetPortFeature(p, f) => Write(p, FALSE)
    BY <1>6 DEF SetPortFeature
  <2>2. ClearPortFeature(p, f) => Write(p, FALSE)
    BY <1>6 DEF ClearPortFeature, Bits
  <2>3. ClearPortChange(p, f) => Write(p, FALSE)
    BY <1>6 DEF ClearPortChange
  <2> QED BY <2>1, <2>2, <2>3
<1>8. ASSUME ResetSucceeds, reset.port = p PROVE Write(p, FALSE) \/ UNCHANGED portVars
  <2>1. WritePortFeature(p, {"owner"}, {}, {}) \/ UNCHANGED portVars
    BY <1>8 DEF ResetSucceeds
  <2> QED BY <1>6, <2>1
<1> QED BY <1>3, <1>4, <1>5, <1>7, <1>8

LEMMA WriteKeeps ==
  ASSUME HubTypeOK, InReset, NEW p \in Port, NEW sets \in BOOLEAN, Write(p, sets)
  PROVE  /\ dev' \in [Port -> {"none", "high", "full"}]
         /\ bits' \in [Port -> SUBSET Bits]
         /\ change' \in [Port -> SUBSET {"conn", "enable"}]
         /\ pcd' \in BOOLEAN
         /\ InReset'
         /\ pcd => pcd'
         /\ \A q \in Port : change'[q] \subseteq change[q] \/ pcd'
         /\ \A q \in Port : "reset" \in bits'[q] => "reset" \in bits[q] \/ sets
<1>1. PICK d \in {"none", "high", "full"}, b \in SUBSET Bits,
           c \in SUBSET {"conn", "enable"} :
             Registers(p, d, b, c) /\ ("reset" \in b => "reset" \in bits[p] \/ sets)
  BY DEF Write
<1>2. /\ dev' \in [Port -> {"none", "high", "full"}]
      /\ bits' \in [Port -> SUBSET Bits]
      /\ change' \in [Port -> SUBSET {"conn", "enable"}]
      /\ pcd' \in BOOLEAN
  BY <1>1, RegistersTypes
<1>3. InReset'
  BY <1>1, RegistersInReset
<1>4. /\ \A q \in Port \ {p} : change'[q] = change[q] /\ bits'[q] = bits[q]
      /\ bits'[p] \subseteq b
      /\ pcd => pcd'
      /\ ~(change'[p] \subseteq change[p]) => pcd'
  <2>1. /\ \A q \in Port \ {p} : UNCHANGED <<dev[q], bits[q], change[q]>>
        /\ bits'[p] = IF Connected(d, b) THEN b ELSE b \ {"reset", "enable"}
        /\ pcd => pcd'
        /\ ~(change'[p] \subseteq change[p]) => pcd'
    BY <1>1, RegistersPort, Zenon
  <2> QED BY <2>1
<1>5. \A q \in Port : change'[q] \subseteq change[q] \/ pcd'
  BY <1>4
<1>6. \A q \in Port : "reset" \in bits'[q] => "reset" \in bits[q] \/ sets
  BY <1>1, <1>4
<1> QED BY <1>2, <1>3, <1>4, <1>5, <1>6

-----------------------------------------------------------------------------
(* The types, and that no port keeps the reset bit without a device.       *)
LEMMA TypeStep ==
  ASSUME HubTypeOK, InReset, [HubNext]_rootHubVars
  PROVE  HubTypeOK' /\ InReset'
<1> DEFINE Regs == /\ dev' \in [Port -> {"none", "high", "full"}]
                   /\ bits' \in [Port -> SUBSET {"power", "owner", "reset", "enable"}]
                   /\ change' \in [Port -> SUBSET {"conn", "enable"}]
                   /\ pcd' \in BOOLEAN
                   /\ InReset'
           Resets == /\ resetActive' \cup resetChange' \subseteq 0 .. (NumPorts - 1)
                     /\ reset' \in [port : Port, at : {"hold", "wait"}] \cup {NoReset}
           Rest == /\ handler' \in [at : {"idle", "check", "ack", "scan"}, pcd : BOOLEAN]
                   /\ port' \in 1 .. (NumPorts + 1) /\ bitmap' \subseteq Port
                   /\ polled' \in BOOLEAN
                   /\ sorted' \subseteq Port /\ plugs' \in 0 .. MaxPlugs
<1>0. Regs /\ Resets /\ Rest => HubTypeOK' /\ InReset'
  BY DEF HubTypeOK
<1>1. /\ pcd \in BOOLEAN /\ polled \in BOOLEAN
      /\ \A p \in Port : PortBit(p) \in 0 .. (NumPorts - 1)
  BY PortAssumption DEF HubTypeOK, PortBit, Port
<1>2. UNCHANGED portVars => Regs
  BY <1>1 DEF portVars, HubTypeOK, InReset, Connected
<1>3. ASSUME NEW p \in Port, NEW sets \in BOOLEAN, Write(p, sets) PROVE Regs
  <2>1. /\ dev' \in [Port -> {"none", "high", "full"}]
        /\ bits' \in [Port -> SUBSET Bits]
        /\ change' \in [Port -> SUBSET {"conn", "enable"}]
        /\ pcd' \in BOOLEAN
        /\ InReset'
    BY <1>3, WriteKeeps, Zenon
  <2> QED BY <2>1 DEF Bits
<1>4. ASSUME UpdatePortChangeBits
      PROVE  Regs /\ resetActive' \cup resetChange' \subseteq 0 .. (NumPorts - 1)
  <2>1. /\ dev' \in [Port -> {"none", "high", "full"}]
        /\ bits' \in [Port -> SUBSET Bits]
        /\ change' \in [Port -> SUBSET {"conn", "enable"}]
        /\ pcd' \in BOOLEAN
        /\ InReset'
        /\ resetActive' \cup resetChange' \subseteq 0 .. (NumPorts - 1)
    BY <1>4, UpdateIs, Zenon
  <2> QED BY <2>1 DEF Bits
<1>5. UNCHANGED resetVars => Resets
  BY DEF resetVars, HubTypeOK
<1>6. StartScan => /\ handler' \in [at : {"idle", "check", "ack", "scan"}, pcd : BOOLEAN]
                   /\ port' \in 1 .. (NumPorts + 1) /\ bitmap' \subseteq Port
  <2>1. FALSE \in BOOLEAN /\ "scan" \in {"idle", "check", "ack", "scan"}
    OBVIOUS
  <2>2. StartScan => handler' = [at |-> "scan", pcd |-> FALSE]
    BY DEF StartScan, HubIdle
  <2>3. [at |-> "scan", pcd |-> FALSE] \in [at : {"idle", "check", "ack", "scan"}, pcd : BOOLEAN]
    BY <2>1
  <2>4. StartScan => handler' \in [at : {"idle", "check", "ack", "scan"}, pcd : BOOLEAN]
    BY <2>2, <2>3, Zenon
  <2> QED BY <2>4, PortAssumption DEF StartScan
<1>7. UNCHANGED <<handler, scanVars>> =>
        /\ handler' \in [at : {"idle", "check", "ack", "scan"}, pcd : BOOLEAN]
        /\ port' \in 1 .. (NumPorts + 1) /\ bitmap' \subseteq Port
  BY DEF scanVars, HubTypeOK
<1>8. \A p \in Port : sorted \ {p} \subseteq Port /\ sorted \cup {p} \subseteq Port
  BY DEF HubTypeOK
<1>9. sorted \subseteq Port /\ plugs \in 0 .. MaxPlugs
  BY DEF HubTypeOK
<1> HIDE DEF Regs, Resets
<1>10. ASSUME NEW p \in Port, NEW d \in {"none", "high", "full"}, Plug(p, d)
       PROVE  Regs /\ Resets /\ Rest
  <2>1. Regs /\ Resets
    BY <1>3, <1>5, <1>10, Writes DEF Plug
  <2>2. polled' \in BOOLEAN
    BY <1>1, <1>10, Zenon DEF Plug
  <2>3. plugs' \in 0 .. MaxPlugs
    BY <1>9, <1>10, PortAssumption DEF Plug
  <2> QED BY <1>7, <1>8, <1>10, <2>1, <2>2, <2>3 DEF Plug
<1>11. ASSUME NEW p \in Port, ResetEnds(p) PROVE Regs /\ Resets /\ Rest
  <2>1. Regs /\ Resets
    BY <1>3, <1>5, <1>11, Writes DEF ResetEnds
  <2>2. polled' \in BOOLEAN
    BY <1>1, <1>11, Zenon DEF ResetEnds
  <2> QED BY <1>7, <1>9, <1>11, <2>1, <2>2 DEF ResetEnds
<1>12. ASSUME HubHandleInterrupt PROVE Regs /\ Resets /\ Rest
  <2>1. Regs /\ Resets
    BY <1>4, <1>12 DEF HubHandleInterrupt, Resets, HubTypeOK
  <2>2. polled' \in BOOLEAN
    BY <1>1, <1>12, Zenon DEF HubHandleInterrupt
  <2>3. handler' \in [at : {"idle", "check", "ack", "scan"}, pcd : BOOLEAN]
    BY <1>1, <1>12 DEF HubHandleInterrupt
  <2> QED BY <1>9, <1>12, <2>1, <2>2, <2>3 DEF HubHandleInterrupt, scanVars, HubTypeOK
<1>13. ASSUME CheckPending PROVE Regs /\ Resets /\ Rest
  <2>1. handler' \in [at : {"idle", "check", "ack", "scan"}, pcd : BOOLEAN]
    <3>1. FALSE \in BOOLEAN /\ handler \in [at : {"idle", "check", "ack", "scan"}, pcd : BOOLEAN]
      BY DEF HubTypeOK
    <3>2. CASE handler' = [handler EXCEPT !.at = "ack"]
      BY <3>1, <3>2
    <3>3. CASE handler' = [at |-> "idle", pcd |-> FALSE]
      BY <3>1, <3>3
    <3>4. handler' = [handler EXCEPT !.at = "ack"] \/ handler' = [at |-> "idle", pcd |-> FALSE]
      BY <1>13, Zenon DEF CheckPending, HubIdle
    <3> QED BY <3>2, <3>3, <3>4
  <2>2. polled' \in BOOLEAN
    BY <1>1, <1>13, Zenon DEF CheckPending
  <2> QED BY <1>2, <1>5, <1>9, <1>13, <2>1, <2>2 DEF CheckPending, scanVars, HubTypeOK
<1>14. ASSUME Acknowledge PROVE Regs /\ Resets /\ Rest
  <2>1. pcd' \in BOOLEAN
    BY <1>14, Zenon DEF Acknowledge
  <2>2. Regs
    BY <1>14, <2>1 DEF Acknowledge, Regs, HubTypeOK, InReset, Connected
  <2>3. polled' \in BOOLEAN
    BY <1>1, <1>14, Zenon DEF Acknowledge
  <2> QED BY <1>5, <1>6, <1>9, <1>14, <2>2, <2>3 DEF Acknowledge
<1>15. ASSUME ScanPort PROVE Regs /\ Resets /\ Rest
  <2>1. Regs /\ Resets
    BY <1>4, <1>15 DEF ScanPort, Resets, HubTypeOK
  <2>2. polled' \in BOOLEAN
    BY <1>1, <1>15, Zenon DEF ScanPort
  <2>3. port \in Port /\ port' \in 1 .. (NumPorts + 1)
    BY <1>15, PortAssumption DEF ScanPort, HubTypeOK, Port
  <2>4. bitmap' \subseteq Port
    BY <1>15, <2>3 DEF ScanPort, HubTypeOK
  <2> QED BY <1>9, <1>15, <2>1, <2>2, <2>3, <2>4 DEF ScanPort, HubTypeOK
<1>16. ASSUME HubScanEnds PROVE Regs /\ Resets /\ Rest
  <2>1. polled' \in BOOLEAN
    BY <1>16, Zenon DEF HubScanEnds
  <2> QED BY <1>2, <1>5, <1>9, <1>16, <2>1, PortAssumption DEF HubScanEnds, HubIdle
<1>17. ASSUME ResetHeld PROVE Regs /\ Resets /\ Rest
  <2>1. polled' \in BOOLEAN
    BY <1>1, <1>17, Zenon DEF ResetHeld
  <2>2. reset' \in [port : Port, at : {"hold", "wait"}]
    BY <1>17 DEF ResetHeld, HubTypeOK, NoReset
  <2> QED BY <1>2, <1>7, <1>9, <1>17, <2>1, <2>2 DEF ResetHeld, Resets, HubTypeOK
<1>18. ASSUME ResetTimesOut PROVE Regs /\ Resets /\ Rest
  <2>1. polled' \in BOOLEAN
    BY <1>1, <1>18, Zenon DEF ResetTimesOut
  <2> QED BY <1>2, <1>7, <1>9, <1>18, <2>1 DEF ResetTimesOut, Resets, HubTypeOK
<1>19. ASSUME ResetSucceeds PROVE Regs /\ Resets /\ Rest
  <2>1. polled' \in BOOLEAN
    BY <1>1, <1>19, Zenon DEF ResetSucceeds
  <2>2. reset.port \in Port
    BY <1>19 DEF ResetSucceeds, HubTypeOK, NoReset
  <2>3. Write(reset.port, FALSE) \/ UNCHANGED portVars
    BY <1>19, <2>2, Writes
  <2>4. Regs
    BY <1>2, <1>3, <2>2, <2>3
  <2>5. Resets
    BY <1>1, <1>19, <2>2 DEF ResetSucceeds, Resets, HubTypeOK
  <2> QED BY <1>6, <1>9, <1>19, <2>1, <2>4, <2>5 DEF ResetSucceeds
<1>20. ASSUME SubmitPoll PROVE Regs /\ Resets /\ Rest
  <2>1. polled' \in BOOLEAN
    BY <1>20, Zenon DEF SubmitPoll
  <2> QED BY <1>2, <1>5, <1>6, <1>9, <1>20, <2>1 DEF SubmitPoll
<1>21. ASSUME AbortPoll PROVE Regs /\ Resets /\ Rest
  <2>1. polled' \in BOOLEAN
    BY <1>21, Zenon DEF AbortPoll
  <2> QED BY <1>2, <1>5, <1>7, <1>9, <1>21, <2>1 DEF AbortPoll
<1>22. ASSUME NEW p \in Port, ResetBegins(p) PROVE Regs /\ Resets /\ Rest
  <2>1. polled' \in BOOLEAN
    BY <1>1, <1>22, Zenon DEF ResetBegins
  <2>2. Regs
    BY <1>3, <1>22, Writes
  <2>3. Resets
    BY <1>1, <1>22 DEF ResetBegins, Resets, HubTypeOK
  <2>4. sorted' \subseteq Port
    BY <1>8, <1>22 DEF ResetBegins
  <2> QED BY <1>7, <1>9, <1>22, <2>1, <2>2, <2>3, <2>4 DEF ResetBegins
<1>23. ASSUME NEW p \in Port, ClearResetChange(p) PROVE Regs /\ Resets /\ Rest
  <2>1. polled' \in BOOLEAN
    BY <1>1, <1>23, Zenon DEF ClearResetChange
  <2> QED BY <1>2, <1>7, <1>9, <1>23, <2>1 DEF ClearResetChange, Resets, HubTypeOK
<1>24. ASSUME NEW p \in Port, NEW f \in {"power", "enable", "conn"},
              SetPortFeature(p, f) \/ ClearPortFeature(p, f) \/ ClearPortChange(p, f)
       PROVE  Regs /\ Resets /\ Rest
  <2>1. polled' \in BOOLEAN
    BY <1>1, <1>24, Zenon DEF SetPortFeature, ClearPortFeature, ClearPortChange
  <2>2. Write(p, FALSE)
    BY <1>24, Writes, Zenon
  <2>3. Regs
    BY <1>3, <2>2
  <2>4. /\ UNCHANGED <<resetVars, handler, scanVars, plugs>>
        /\ sorted' = sorted \/ sorted' = sorted \ {p}
    BY <1>24 DEF SetPortFeature, ClearPortFeature, ClearPortChange
  <2> QED BY <1>5, <1>7, <1>8, <1>9, <2>1, <2>3, <2>4
<1>25. ASSUME UNCHANGED rootHubVars PROVE Regs /\ Resets /\ Rest
  <2>1. polled' \in BOOLEAN
    BY <1>1, <1>25, Zenon DEF rootHubVars
  <2> QED BY <1>2, <1>5, <1>7, <1>9, <1>25, <2>1 DEF rootHubVars
<1> HIDE DEF Rest
<1> QED BY <1>0, <1>10, <1>11, <1>12, <1>13, <1>14, <1>15, <1>16, <1>17, <1>18, <1>19,
           <1>20, <1>21, <1>22, <1>23, <1>24, <1>25
        DEF HubNext, Handler, ResetCall, HubDriver

-----------------------------------------------------------------------------
(* A call that only writes a register leaves no change unnoticed.          *)
LEMMA WriteDeaf ==
  ASSUME HubTypeOK, InReset, NeverDeaf, InGate, NEW p \in Port, NEW sets \in BOOLEAN,
         Write(p, sets), resetChange' \subseteq resetChange,
         sets => reset = NoReset, ~sets => reset' = reset, UNCHANGED <<handler, polled>>
  PROVE  NeverDeaf' /\ Behind'
<1>1. /\ pcd => pcd'
      /\ \A q \in Port : change'[q] \subseteq change[q] \/ pcd'
      /\ \A q \in Port : "reset" \in bits'[q] => "reset" \in bits[q] \/ sets
  BY WriteKeeps
<1>2. Behind'
  BY DEF Behind, InGate
<1>3. ASSUME NEW q \in Port, Changed(q)', polled', ~pcd' PROVE Over(q)'
  <2>1. Changed(q)
    BY <1>1, <1>3 DEF Changed
  <2>2. polled /\ ~pcd
    BY <1>1, <1>3
  <2>3. reset = [port |-> q, at |-> "wait"] /\ "reset" \notin bits[q]
    BY <2>1, <2>2 DEF NeverDeaf
  <2>4. ~sets
    BY <2>3 DEF NoReset
  <2> QED BY <1>1, <2>3, <2>4 DEF Over
<1>4. NeverDeaf'
  BY <1>3 DEF NeverDeaf, Over
<1> QED BY <1>2, <1>4

(* A device that moves, or a reset that ends, is noticed during a scan.    *)
LEMMA MovesDeaf ==
  ASSUME HubTypeOK, InReset, NeverDeaf, Behind, NEW p \in Port, Write(p, FALSE),
         \A q \in Port : "reset" \in bits[q] => "reset" \in bits'[q] \/ pcd' \/ Over(q)',
         UNCHANGED <<resetVars, handler, scanVars, polled>>
  PROVE  NeverDeaf' /\ Behind'
<1>1. /\ pcd => pcd'
      /\ \A q \in Port : change'[q] \subseteq change[q] \/ pcd'
      /\ \A q \in Port : "reset" \in bits'[q] => "reset" \in bits[q]
  BY WriteKeeps
<1>2. \A q \in Port : Over(q) => Over(q)'
  BY <1>1 DEF Over, resetVars
<1>3. \A q \in Port : Changed(q)' => Changed(q) \/ pcd'
  BY <1>1 DEF Changed, resetVars
<1>4. \A q \in Port : Due(q)' => Due(q) \/ pcd' \/ Over(q)'
  BY <1>3 DEF Due, resetVars
<1>5. NeverDeaf'
  BY <1>1, <1>2, <1>3 DEF NeverDeaf, Over, InGate
<1>6. Behind'
  <2> SUFFICES ASSUME handler'.at = "scan", NEW q \in Port, Due(q)'
               PROVE  q >= port' \/ bitmap' # {} \/ pcd' \/ Over(q)'
    BY DEF Behind
  <2>1. CASE Due(q)
    BY <1>1, <1>2, <2>1 DEF Behind, scanVars
  <2> QED BY <1>4, <2>1
<1> QED BY <1>5, <1>6

(* What is due on a port is found when the scan reaches it.                *)
LEMMA ScanDeaf ==
  ASSUME HubTypeOK, InReset, Behind, ScanPort
  PROVE  NeverDeaf' /\ Behind'
<1>1. /\ pcd => pcd'
      /\ \A p \in Port :
           /\ change'[p] \subseteq change[p] \/ pcd'
           /\ "reset" \in bits'[p] <=> "reset" \in bits[p]
           /\ PortBit(p) \in resetActive' =>
                PortBit(p) \in resetActive /\ "reset" \in bits[p]
           /\ PortBit(p) \in resetChange' =>
                \/ PortBit(p) \in resetChange
                \/ PortBit(p) \in resetActive /\ "reset" \notin bits[p]
  <2>1. UpdatePortChangeBits
    BY DEF ScanPort
  <2> QED BY <2>1, UpdateIs, Zenon
<1>2. port \in Port /\ port' = port + 1
  BY PortAssumption DEF ScanPort, HubTypeOK, Port
<1>3. NeverDeaf'
  BY DEF ScanPort, NeverDeaf, InGate
<1>4. \A p \in Port : Due(p)' => Changed(p)' /\ (Due(p) \/ pcd')
  BY <1>1 DEF Due, Changed
<1>5. \A p \in Port : Over(p) => Over(p)'
  BY <1>1 DEF Over, ScanPort
<1>6. ASSUME NEW p \in Port, Due(p)', ~pcd', ~Over(p)'
      PROVE  p >= port' \/ bitmap' # {}
  <2>1. p >= port \/ bitmap # {}
    BY <1>1, <1>4, <1>5, <1>6 DEF Behind, ScanPort
  <2>2. CASE bitmap # {}
    BY <2>2 DEF ScanPort
  <2>3. CASE p = port
    <3>1. bitmap' = bitmap \cup {port}
      BY <1>4, <1>6, <2>3 DEF ScanPort, Changed
    <3> QED BY <3>1
  <2>4. CASE p > port
    BY <1>2, <2>4 DEF Port
  <2> QED BY <1>2, <2>1, <2>2, <2>3, <2>4 DEF Port
<1>7. Behind'
  BY <1>6 DEF Behind
<1> QED BY <1>3, <1>7

LEMMA DeafStep ==
  ASSUME HubTypeOK, InReset, NeverDeaf, Behind, [HubNext]_rootHubVars
  PROVE  NeverDeaf' /\ Behind'
<1>1. ASSUME NEW p \in Port, NEW d \in {"none", "high", "full"}, Plug(p, d)
      PROVE  NeverDeaf' /\ Behind'
  <2>1. Write(p, FALSE)
    BY <1>1, Writes
  <2> DEFINE b == IF d = "none" THEN bits[p] \ {"owner"} ELSE bits[p]
  <2>2. b \in SUBSET Bits /\ Registers(p, d, b, {})
    BY <1>1 DEF Plug, HubTypeOK, Bits
  <2>3. /\ \A q \in Port \ {p} : UNCHANGED <<dev[q], bits[q], change[q]>>
        /\ bits'[p] = IF Connected(d, b) THEN b ELSE b \ {"reset", "enable"}
        /\ (Connected(d, b) <=> Connected(dev[p], bits[p])) \/ pcd'
    <3> HIDE DEF b
    <3> QED BY <2>2, RegistersPort, Zenon
  <2>4. \A q \in Port : "reset" \in bits[q] => "reset" \in bits'[q] \/ pcd'
    BY <2>3 DEF InReset
  <2>5. UNCHANGED <<resetVars, handler, scanVars, polled>>
    BY <1>1 DEF Plug
  <2> QED BY <2>1, <2>4, <2>5, MovesDeaf
<1>2. ASSUME NEW p \in Port, ResetEnds(p)
      PROVE  NeverDeaf' /\ Behind'
  <2>1. Write(p, FALSE)
    BY <1>2, Writes
  <2>2. /\ \A q \in Port \ {p} : bits'[q] = bits[q]
        /\ "reset" \notin bits'[p]
    BY <1>2 DEF ResetEnds, Registers, HubTypeOK
  <2>3. UNCHANGED <<resetVars, handler, scanVars, polled>>
    BY <1>2 DEF ResetEnds
  <2>4. \A q \in Port : "reset" \in bits[q] => "reset" \in bits'[q] \/ Over(q)'
    BY <1>2, <2>2, <2>3 DEF ResetEnds, Over, resetVars
  <2> QED BY <2>1, <2>3, <2>4, MovesDeaf
<1>3. HubHandleInterrupt => NeverDeaf' /\ Behind'
  BY DEF HubHandleInterrupt, NeverDeaf, Behind, InGate
<1>4. CheckPending => NeverDeaf' /\ Behind'
  <2> SUFFICES ASSUME CheckPending PROVE NeverDeaf' /\ Behind'
    OBVIOUS
  <2>1. handler'.at = "ack" \/ (handler'.at = "idle" /\ \A p \in Port : ~Changed(p))
    BY DEF CheckPending, HubTypeOK, HubIdle
  <2>2. \A p \in Port : Changed(p)' <=> Changed(p)
    BY DEF CheckPending, Changed, portVars, resetVars
  <2> QED BY <2>1, <2>2 DEF NeverDeaf, Behind, InGate
<1>5. StartScan => NeverDeaf' /\ Behind'
  <2>1. StartScan => handler'.at = "scan" /\ port' = 1
    BY DEF StartScan, HubIdle
  <2> QED BY <2>1 DEF NeverDeaf, Behind, InGate, Port
<1>6. Acknowledge \/ ResetSucceeds \/ SubmitPoll => StartScan
  BY DEF Acknowledge, ResetSucceeds, SubmitPoll
<1>7. ScanPort => NeverDeaf' /\ Behind'
  BY ScanDeaf
<1>8. HubScanEnds => NeverDeaf' /\ Behind'
  <2> SUFFICES ASSUME HubScanEnds PROVE NeverDeaf' /\ Behind'
    OBVIOUS
  <2>1. handler'.at = "idle"
    BY DEF HubScanEnds, HubIdle
  <2>2. \A p \in Port : Changed(p)' => Due(p) /\ ~(p >= port)
    BY PortAssumption DEF HubScanEnds, Changed, Due, portVars, resetVars, Port
  <2>3. \A p \in Port : Changed(p)' => bitmap # {} \/ pcd \/ Over(p)
    BY <2>2 DEF Behind, HubScanEnds
  <2>4. UNCHANGED <<pcd, bits, reset>> /\ (polled' => bitmap = {})
    BY DEF HubScanEnds, portVars, resetVars
  <2> QED BY <2>1, <2>3, <2>4 DEF NeverDeaf, Behind, Over
<1>9. AbortPoll => NeverDeaf' /\ Behind'
  BY DEF AbortPoll, NeverDeaf, Behind, InGate
<1>10. ASSUME NEW p \in Port, ResetBegins(p) PROVE NeverDeaf' /\ Behind'
  <2>1. Write(p, TRUE)
    BY <1>10, Writes
  <2>2. /\ InGate /\ resetChange' \subseteq resetChange /\ reset = NoReset
        /\ UNCHANGED <<handler, polled>>
    BY <1>10 DEF ResetBegins
  <2> QED BY <2>1, <2>2, WriteDeaf
<1>11. ResetHeld => NeverDeaf' /\ Behind'
  <2> SUFFICES ASSUME ResetHeld PROVE NeverDeaf' /\ Behind'
    OBVIOUS
  <2>1. \A p \in Port : reset # [port |-> p, at |-> "wait"]
    BY DEF ResetHeld
  <2>2. \A p \in Port : Changed(p)' <=> Changed(p)
    BY DEF ResetHeld, Changed, portVars
  <2>3. UNCHANGED <<pcd, polled, handler>>
    BY DEF ResetHeld, portVars
  <2> QED BY <2>1, <2>2, <2>3 DEF NeverDeaf, Behind, InGate, ResetHeld
<1>12. ResetTimesOut => NeverDeaf' /\ Behind'
  <2> SUFFICES ASSUME ResetTimesOut PROVE NeverDeaf' /\ Behind'
    OBVIOUS
  <2>1. \A p \in Port : ~(reset = [port |-> p, at |-> "wait"] /\ "reset" \notin bits[p])
    BY DEF ResetTimesOut
  <2>2. \A p \in Port : Changed(p)' <=> Changed(p)
    BY DEF ResetTimesOut, Changed, portVars
  <2>3. UNCHANGED <<pcd, polled, handler>>
    BY DEF ResetTimesOut, portVars
  <2> QED BY <2>1, <2>2, <2>3 DEF NeverDeaf, Behind, InGate, ResetTimesOut
<1>13. ASSUME NEW p \in Port, NEW f \in {"power", "enable", "conn"},
              SetPortFeature(p, f) \/ ClearPortFeature(p, f) \/ ClearPortChange(p, f)
       PROVE  NeverDeaf' /\ Behind'
  <2>1. Write(p, FALSE)
    BY <1>13, Writes, Zenon
  <2>2. InGate /\ UNCHANGED <<resetVars, handler, polled>>
    BY <1>13 DEF SetPortFeature, ClearPortFeature, ClearPortChange
  <2>3. UNCHANGED <<resetChange, reset>>
    BY <2>2 DEF resetVars
  <2> QED BY <2>1, <2>2, <2>3, WriteDeaf
<1>14. ASSUME NEW p \in Port, ClearResetChange(p) PROVE NeverDeaf' /\ Behind'
  <2>1. \A q \in Port : Changed(q)' => Changed(q)
    BY <1>14 DEF ClearResetChange, Changed, portVars
  <2>2. InGate /\ UNCHANGED <<pcd, bits, reset, polled, handler>>
    BY <1>14 DEF ClearResetChange, portVars
  <2> QED BY <2>1, <2>2 DEF NeverDeaf, Behind, InGate
<1>15. UNCHANGED rootHubVars => NeverDeaf' /\ Behind'
  <2> SUFFICES ASSUME UNCHANGED rootHubVars PROVE NeverDeaf' /\ Behind'
    OBVIOUS
  <2>1. UNCHANGED <<dev, bits, change, pcd, resetActive, resetChange, reset, handler,
                    port, bitmap, polled>>
    BY DEF rootHubVars, portVars, resetVars, scanVars
  <2> QED BY <2>1 DEF NeverDeaf, Behind, InGate, Due, Changed, Over
<1> QED BY <1>1, <1>2, <1>3, <1>4, <1>5, <1>6, <1>7, <1>8, <1>9, <1>10, <1>11, <1>12,
           <1>13, <1>14, <1>15
        DEF HubNext, Handler, ResetCall, HubDriver

-----------------------------------------------------------------------------
(* A port that keeps its registers stays placed if the reset still sleeps, *)
(* or sleeps on, for it.                                                   *)
LEMMA StaysPlaced ==
  ASSUME NEW q \in Port, Placed(q), dev'[q] = dev[q], bits'[q] = bits[q],
         \/ reset' = reset
         \/ /\ reset.port # q /\ reset'.port # q
  PROVE  Placed(q)'
<1>1. CASE reset' = reset
  BY <1>1 DEF Placed, Connected
<1>2. CASE reset.port # q /\ reset'.port # q
  BY <1>2 DEF Placed, Connected
<1> QED BY <1>1, <1>2

LEMMA UpdateSorted ==
  ASSUME HubTypeOK, InReset, Sorted, UpdatePortChangeBits, UNCHANGED <<reset, sorted>>
  PROVE  Sorted'
<1> SUFFICES ASSUME NEW q \in sorted PROVE Placed(q)'
  BY DEF Sorted
<1>1. q \in Port /\ Placed(q) /\ dev[q] \in {"none", "high", "full"}
  BY DEF HubTypeOK, Sorted
<1>2. /\ dev'[q] = dev[q]
      /\ "reset" \in bits'[q] <=> "reset" \in bits[q]
      /\ \/ bits'[q] = bits[q]
         \/ /\ ShouldHandPortToCompanion(q) /\ "owner" \in bits'[q]
            /\ "reset" \notin bits[q]
  <2>1. \A p \in Port :
          /\ dev'[p] = dev[p]
          /\ "reset" \in bits'[p] <=> "reset" \in bits[p]
          /\ \/ bits'[p] = bits[p]
             \/ /\ ShouldHandPortToCompanion(p) /\ "owner" \in bits'[p]
                /\ "reset" \notin bits[p]
    BY UpdateIs, Zenon
  <2> QED BY <1>1, <2>1
<1>3. CASE bits'[q] = bits[q]
  BY <1>1, <1>2, <1>3, StaysPlaced
<1>4. CASE /\ ShouldHandPortToCompanion(q) /\ "owner" \in bits'[q]
           /\ "reset" \notin bits[q]
  BY <1>1, <1>2, <1>4 DEF Placed, ShouldHandPortToCompanion
<1> QED BY <1>2, <1>3, <1>4

LEMMA SortedStep ==
  ASSUME HubTypeOK, InReset, Sorted, [HubNext]_rootHubVars
  PROVE  Sorted'
<1>1. \A q \in sorted : q \in Port /\ q # NoPort /\ Placed(q) /\ dev[q] \in {"high", "full"}
  BY DEF HubTypeOK, Sorted, Placed, Port, NoPort
<1>2. ASSUME UNCHANGED <<dev, bits, reset, sorted>> PROVE Sorted'
  BY <1>1, <1>2, StaysPlaced DEF Sorted
<1>3. ASSUME NEW p \in Port, NEW d \in {"none", "high", "full"}, Plug(p, d) PROVE Sorted'
  <2>1. \A q \in Port \ {p} : dev'[q] = dev[q] /\ bits'[q] = bits[q]
    BY <1>3 DEF Plug, Registers, HubTypeOK
  <2>2. sorted' = sorted \ {p} /\ reset' = reset
    BY <1>3 DEF Plug, resetVars
  <2> QED BY <1>1, <2>1, <2>2, StaysPlaced DEF Sorted
<1>4. ASSUME NEW p \in Port, ResetEnds(p) PROVE Sorted'
  <2> DEFINE b == (bits[p] \ {"reset"}) \cup (IF dev[p] = "high" THEN {"enable"} ELSE {})
  <2>1. /\ \A q \in Port \ {p} : dev'[q] = dev[q] /\ bits'[q] = bits[q]
        /\ dev'[p] = dev[p]
        /\ bits'[p] = b \ (IF Connected(dev[p], b) THEN {} ELSE {"reset", "enable"})
    BY <1>4 DEF ResetEnds, Registers, HubTypeOK
  <2>2. /\ sorted' = sorted /\ reset' = reset /\ reset = [port |-> p, at |-> "wait"]
        /\ "reset" \in bits[p]
    BY <1>4 DEF ResetEnds, resetVars
  <2>3. Connected(dev[p], b)
    BY <2>2 DEF InReset, Connected
  <2>4. bits'[p] = b
    BY <2>1, <2>3
  <2>5. p \in sorted => Placed(p)'
    BY <1>1, <2>1, <2>2, <2>3, <2>4 DEF Placed, Connected
  <2> QED BY <1>1, <2>1, <2>2, <2>5, StaysPlaced DEF Sorted
<1>5. HubHandleInterrupt \/ ScanPort => Sorted'
  BY UpdateSorted DEF HubHandleInterrupt, ScanPort
<1>6. ASSUME CheckPending \/ Acknowledge \/ HubScanEnds \/ SubmitPoll \/ AbortPoll
      PROVE  Sorted'
  <2>1. UNCHANGED <<dev, bits, reset, sorted>>
    BY <1>6 DEF CheckPending, Acknowledge, HubScanEnds, SubmitPoll, AbortPoll, portVars, resetVars
  <2> QED BY <1>2, <2>1
<1>7. ASSUME NEW p \in Port, ResetBegins(p) PROVE Sorted'
  <2> DEFINE b == (bits[p] \cup {"reset"}) \ {"enable"}
  <2>1. Registers(p, dev[p], b, {})
    <3>1. WritePortFeature(p, {"reset"}, {}, {})
      BY <1>7 DEF ResetBegins
    <3>2. b = ((bits[p] \ {}) \cup {"reset"}) \ {"enable"}
      OBVIOUS
    <3> QED BY <3>1, <3>2 DEF WritePortFeature
  <2>2. /\ \A q \in Port \ {p} : dev'[q] = dev[q] /\ bits'[q] = bits[q]
        /\ dev'[p] = dev[p]
        /\ bits'[p] = b \ (IF Connected(dev[p], b) THEN {} ELSE {"reset", "enable"})
    BY <2>1 DEF Registers, HubTypeOK
  <2>3. /\ reset = NoReset /\ reset' = [port |-> p, at |-> "hold"]
        /\ sorted' = IF Connected(dev[p], bits[p]) THEN sorted \cup {p} ELSE sorted \ {p}
    BY <1>7 DEF ResetBegins
  <2>4. Connected(dev[p], bits[p]) => Placed(p)'
    BY <2>2, <2>3 DEF Placed, Connected
  <2>5. \A q \in sorted \ {p} : Placed(q)'
    BY <1>1, <2>2, <2>3, StaysPlaced DEF NoReset
  <2> QED BY <2>3, <2>4, <2>5 DEF Sorted
<1>8. ASSUME ResetHeld PROVE Sorted'
  <2>1. /\ UNCHANGED <<dev, bits, sorted>> /\ reset' = [reset EXCEPT !.at = "wait"]
        /\ reset.at = "hold"
    BY <1>8 DEF ResetHeld, portVars
  <2>2. reset \in [port : Port, at : {"hold", "wait"}]
    BY <2>1 DEF HubTypeOK, NoReset
  <2>3. reset = [port |-> reset.port, at |-> "hold"] /\ reset' = [port |-> reset.port, at |-> "wait"]
    BY <2>1, <2>2
  <2>4. ASSUME NEW q \in sorted, reset.port = q PROVE Placed(q)'
    BY <1>1, <2>1, <2>3, <2>4 DEF Placed, Connected
  <2>5. ASSUME NEW q \in sorted, reset.port # q PROVE Placed(q)'
    BY <1>1, <2>1, <2>3, <2>5, StaysPlaced
  <2> QED BY <2>1, <2>4, <2>5 DEF Sorted
<1>9. ASSUME ResetTimesOut PROVE Sorted'
  <2>1. UNCHANGED <<dev, bits>> /\ reset' = NoReset /\ sorted' = sorted \ {reset.port}
    BY <1>9 DEF ResetTimesOut, portVars
  <2> QED BY <1>1, <2>1, StaysPlaced DEF Sorted, NoReset
<1>10. ASSUME ResetSucceeds PROVE Sorted'
  <2>1. PICK p \in Port : reset = [port |-> p, at |-> "wait"]
    BY <1>10 DEF ResetSucceeds, HubTypeOK, NoReset
  <2>2. /\ "reset" \notin bits[p]
        /\ reset' = NoReset /\ sorted' = sorted
        /\ IF ShouldHandPortToCompanion(p)
             THEN WritePortFeature(p, {"owner"}, {}, {}) ELSE UNCHANGED portVars
    BY <1>10, <2>1 DEF ResetSucceeds
  <2> DEFINE b == bits[p] \cup {"owner"}
  <2>3. CASE ~ShouldHandPortToCompanion(p)
    <3>1. dev' = dev /\ bits' = bits
      BY <2>2, <2>3 DEF portVars
    <3>2. p \in sorted => Placed(p)'
      BY <1>1, <2>1, <2>2, <2>3, <3>1 DEF Placed, Connected, ShouldHandPortToCompanion, NoReset
    <3>3. \A q \in sorted \ {p} : Placed(q)'
      BY <1>1, <2>1, <2>2, <3>1, StaysPlaced DEF NoReset
    <3> QED BY <2>2, <3>2, <3>3 DEF Sorted
  <2>4. CASE ShouldHandPortToCompanion(p)
    <3>1. Registers(p, dev[p], b, {})
      <4>1. b = (bits[p] \ {}) \cup {"owner"}
        OBVIOUS
      <4> QED BY <2>2, <2>4, <4>1 DEF WritePortFeature
    <3>2. /\ \A q \in Port \ {p} : dev'[q] = dev[q] /\ bits'[q] = bits[q]
          /\ dev'[p] = dev[p]
          /\ bits'[p] = b \ {"reset", "enable"}
      BY <2>2, <3>1 DEF Registers, HubTypeOK, Connected
    <3>3. p \in sorted => Placed(p)'
      BY <1>1, <2>1, <2>2, <2>4, <3>2 DEF Placed, Connected, ShouldHandPortToCompanion, NoReset
    <3>4. \A q \in sorted \ {p} : Placed(q)'
      BY <1>1, <2>1, <2>2, <3>2, StaysPlaced DEF NoReset
    <3> QED BY <2>2, <3>3, <3>4 DEF Sorted
  <2> QED BY <2>3, <2>4
<1>11. ASSUME NEW p \in Port, NEW f \in {"power", "enable", "conn"}, SetPortFeature(p, f)
       PROVE  Sorted'
  <2> DEFINE b == bits[p] \cup {"power"}
  <2>1. Registers(p, dev[p], b, {})
    <3>1. b = (bits[p] \ {}) \cup {"power"}
      OBVIOUS
    <3> QED BY <1>11, <3>1 DEF SetPortFeature, WritePortFeature
  <2>2. /\ \A q \in Port \ {p} : dev'[q] = dev[q] /\ bits'[q] = bits[q]
        /\ dev'[p] = dev[p]
        /\ bits'[p] = b \ (IF Connected(dev[p], b) THEN {} ELSE {"reset", "enable"})
    BY <2>1 DEF Registers, HubTypeOK
  <2>3. sorted' = sorted /\ reset' = reset
    BY <1>11 DEF SetPortFeature, resetVars
  <2>4. p \in sorted => Placed(p)'
    BY <1>1, <2>2, <2>3 DEF Placed, Connected, InReset
  <2> QED BY <1>1, <2>2, <2>3, <2>4, StaysPlaced DEF Sorted
<1>12. ASSUME NEW p \in Port, NEW f \in {"power", "enable", "conn"}, ClearPortFeature(p, f)
       PROVE  Sorted'
  <2>1. /\ \A q \in Port \ {p} : dev'[q] = dev[q] /\ bits'[q] = bits[q]
        /\ sorted' = sorted \ {p} /\ reset' = reset
    BY <1>12 DEF ClearPortFeature, WritePortFeature, Registers, HubTypeOK, resetVars
  <2> QED BY <1>1, <2>1, StaysPlaced DEF Sorted
<1>13. ASSUME NEW p \in Port, NEW f \in {"power", "enable", "conn"}, ClearPortChange(p, f)
       PROVE  Sorted'
  <2> DEFINE b == bits[p]
  <2>1. Registers(p, dev[p], b, {f})
    <3>1. b = (bits[p] \ {}) \cup {}
      OBVIOUS
    <3> QED BY <1>13, <3>1 DEF ClearPortChange, WritePortFeature
  <2>2. /\ \A q \in Port \ {p} : dev'[q] = dev[q] /\ bits'[q] = bits[q]
        /\ dev'[p] = dev[p]
        /\ bits'[p] = b \ (IF Connected(dev[p], b) THEN {} ELSE {"reset", "enable"})
    BY <2>1 DEF Registers, HubTypeOK
  <2>3. sorted' = sorted /\ reset' = reset
    BY <1>13 DEF ClearPortChange, resetVars
  <2>4. p \in sorted => Placed(p)'
    BY <1>1, <2>2, <2>3 DEF Placed, Connected, InReset
  <2> QED BY <1>1, <2>2, <2>3, <2>4, StaysPlaced DEF Sorted
<1>14. ASSUME (\E p \in Port : ClearResetChange(p)) \/ UNCHANGED rootHubVars PROVE Sorted'
  <2>1. UNCHANGED <<dev, bits, reset, sorted>>
    BY <1>14 DEF ClearResetChange, rootHubVars, portVars, resetVars
  <2> QED BY <1>2, <2>1
<1> QED BY <1>3, <1>4, <1>5, <1>6, <1>7, <1>8, <1>9, <1>10, <1>11, <1>12, <1>13, <1>14
        DEF HubNext, Handler, ResetCall, HubDriver

-----------------------------------------------------------------------------
LEMMA Inductive == IInv /\ [HubNext]_rootHubVars => IInv'
<1> SUFFICES ASSUME IInv, [HubNext]_rootHubVars PROVE IInv'
  OBVIOUS
<1>1. HubTypeOK' /\ InReset'
  BY TypeStep DEF IInv
<1>2. NeverDeaf' /\ Behind'
  BY DeafStep DEF IInv
<1>3. Sorted'
  BY SortedStep DEF IInv
<1> QED BY <1>1, <1>2, <1>3 DEF IInv

LEMMA Invariant == HubSpec => []IInv
<1>1. HubInit => IInv
  BY InitIInv
<1>2. IInv /\ [HubNext]_rootHubVars => IInv'
  BY Inductive
<1> QED BY <1>1, <1>2, PTL DEF HubSpec

(* For every number of ports, a poll that waits is never left deaf:        *)
(* handleInterrupt reads and acknowledges USBSTS before it scans, and      *)
(* updatePortChangeBits keeps the end of a reset for whoever looks next.   *)
THEOREM PollNeverDeaf == HubSpec => []NeverDeaf
<1>1. IInv => NeverDeaf
  BY DEF IInv
<1> QED BY <1>1, Invariant, PTL

(* For every number of ports, a device that was reset in place is with the *)
(* controller of its speed, whether resetRootHubPort or a scan in between  *)
(* saw the reset end (handPortToCompanion).                                *)
THEOREM EachDeviceSorted == HubSpec => []EachWithItsController
<1>1. IInv => EachWithItsController
  <2> SUFFICES ASSUME IInv, NEW p \in sorted, reset.port # p
               PROVE  IF dev[p] = "full" THEN "owner" \in bits[p]
                                         ELSE "enable" \in bits[p] /\ "owner" \notin bits[p]
    BY DEF IInv, EachWithItsController
  <2>1. p \in Port /\ Placed(p) /\ dev[p] \in {"high", "full"}
    BY DEF IInv, HubTypeOK, Sorted, Placed
  <2> QED BY <2>1 DEF Placed, Connected
<1> QED BY <1>1, Invariant, PTL
-----------------------------------------------------------------------------
(* Change bits outlive every step but the ones that clear them.            *)

(* A write to the register of p takes back at most the changes it names.   *)
LEMMA RegistersKeep ==
  ASSUME HubTypeOK, NEW p \in Port, NEW d, NEW b, NEW cleared, Registers(p, d, b, cleared)
  PROVE  \A q \in Port : change[q] \ change'[q] \subseteq (IF q = p THEN cleared ELSE {})
  BY DEF HubTypeOK, Registers

LEMMA WriteFeatureKeeps ==
  ASSUME HubTypeOK, NEW p \in Port, NEW S, NEW C, NEW cleared,
         WritePortFeature(p, S, C, cleared)
  PROVE  \A q \in Port : change[q] \ change'[q] \subseteq (IF q = p THEN cleared ELSE {})
<1> DEFINE b == (bits[p] \ C) \cup S
           quiet == IF "reset" \in S THEN b \ {"enable"} ELSE b
<1>1. Registers(p, dev[p], quiet, cleared)
  BY DEF WritePortFeature
<1> QED BY <1>1, RegistersKeep

(* What a step takes back: nothing, or what the hub driver asked for.      *)
KeepsHw    == \A q \in Port : change[q] \subseteq change'[q]
KeepsReset == resetChange \subseteq resetChange'

LEMMA UpdateKeeps == ASSUME HubTypeOK, UpdatePortChangeBits PROVE KeepsHw /\ KeepsReset
<1>1. KeepsReset
  BY DEF UpdatePortChangeBits, KeepsReset
<1>2. \/ UNCHANGED portVars
      \/ \E p \in Port : WritePortFeature(p, {"owner"}, {}, {})
  BY DEF UpdatePortChangeBits
<1>3. KeepsHw
  BY <1>2, WriteFeatureKeeps DEF portVars, KeepsHw
<1> QED BY <1>1, <1>3

(* No write of a port register echoes a change bit away, and only the hub  *)
(* driver's calls take a change back, for every number of ports            *)
(* (writePortFeature, updatePortChangeBits, resetRootHubPort).             *)
THEOREM ChangesOnlyCleared == HubSpec => ChangesKept
<1> DEFINE Kept ==
      \A p \in Port :
        /\ \A c \in change[p] \ change'[p] : ClearPortChange(p, c)
        /\ PortBit(p) \in resetChange \ resetChange' => ClearResetChange(p) \/ ResetBegins(p)
<1>1. ASSUME HubTypeOK, HubNext PROVE Kept
  <2>1. KeepsHw /\ KeepsReset => Kept
    BY DEF KeepsHw, KeepsReset
  <2>2. \A p, q \in Port : PortBit(p) = PortBit(q) => p = q
    BY DEF PortBit, Port
  <2> USE DEF portVars, resetVars
  <2>3. ASSUME NEW p \in Port, NEW d, Plug(p, d) PROVE KeepsHw /\ KeepsReset
    <3> DEFINE b == IF d = "none" THEN bits[p] \ {"owner"} ELSE bits[p]
    <3>1. Registers(p, d, b, {}) /\ resetChange' = resetChange
      BY <2>3 DEF Plug
    <3> QED BY <1>1, <3>1, RegistersKeep DEF KeepsHw, KeepsReset
  <2>4. ASSUME NEW p \in Port, ResetEnds(p) PROVE KeepsHw /\ KeepsReset
    <3> DEFINE b == (bits[p] \ {"reset"}) \cup (IF dev[p] = "high" THEN {"enable"} ELSE {})
    <3>1. Registers(p, dev[p], b, {}) /\ resetChange' = resetChange
      BY <2>4 DEF ResetEnds
    <3> QED BY <1>1, <3>1, RegistersKeep DEF KeepsHw, KeepsReset
  <2>5. CASE HubHandleInterrupt \/ ScanPort
    <3>1. UpdatePortChangeBits
      BY <2>5 DEF HubHandleInterrupt, ScanPort
    <3> QED BY <1>1, <2>1, <3>1, UpdateKeeps
  <2>6. CASE \/ CheckPending \/ Acknowledge \/ HubScanEnds \/ ResetHeld \/ ResetTimesOut
             \/ SubmitPoll \/ AbortPoll
    BY <2>6 DEF CheckPending, Acknowledge, HubScanEnds, ResetHeld, ResetTimesOut,
                SubmitPoll, AbortPoll, KeepsHw, KeepsReset
  <2>7. CASE ResetSucceeds
    <3>1. \/ UNCHANGED portVars
          \/ WritePortFeature(reset.port, {"owner"}, {}, {})
      BY <2>7 DEF ResetSucceeds
    <3>2. reset.port \in Port /\ KeepsReset
      BY <1>1, <2>7 DEF HubTypeOK, ResetSucceeds, NoReset, KeepsReset
    <3>3. ASSUME WritePortFeature(reset.port, {"owner"}, {}, {}) PROVE KeepsHw
      <4>1. \A q \in Port : change[q] \ change'[q] \subseteq (IF q = reset.port THEN {} ELSE {})
        BY <1>1, <3>2, <3>3, WriteFeatureKeeps
      <4> QED BY <4>1 DEF KeepsHw
    <3>4. UNCHANGED portVars => KeepsHw
      BY DEF KeepsHw
    <3> QED BY <2>1, <3>1, <3>2, <3>3, <3>4
  <2>8. ASSUME NEW p \in Port, ResetBegins(p) PROVE Kept
    <3>1. KeepsHw
      BY <1>1, <2>8, WriteFeatureKeeps DEF ResetBegins, KeepsHw
    <3>2. \A q \in Port : PortBit(q) \in resetChange \ resetChange' => q = p
      BY <2>2, <2>8 DEF ResetBegins
    <3> QED BY <2>8, <3>1, <3>2 DEF KeepsHw
  <2>9. ASSUME NEW p \in Port, ClearResetChange(p) PROVE Kept
    <3>1. KeepsHw
      BY <2>9 DEF ClearResetChange, KeepsHw
    <3>2. \A q \in Port : PortBit(q) \in resetChange \ resetChange' => q = p
      BY <2>2, <2>9 DEF ClearResetChange
    <3> QED BY <2>9, <3>1, <3>2 DEF KeepsHw
  <2>10. ASSUME NEW p \in Port, NEW f, SetPortFeature(p, f) \/ ClearPortFeature(p, f)
         PROVE  KeepsHw /\ KeepsReset
    BY <1>1, <2>10, WriteFeatureKeeps
       DEF SetPortFeature, ClearPortFeature, KeepsHw, KeepsReset
  <2>11. ASSUME NEW p \in Port, NEW c, ClearPortChange(p, c) PROVE Kept
    <3>1. KeepsReset /\ WritePortFeature(p, {}, {}, {c})
      BY <2>11 DEF ClearPortChange, KeepsReset
    <3>2. \A q \in Port : \A x \in change[q] \ change'[q] : q = p /\ x = c
      BY <1>1, <3>1, WriteFeatureKeeps
    <3> QED BY <2>11, <3>1, <3>2 DEF KeepsReset
  <2> HIDE DEF Kept
  <2> QED BY <1>1, <2>1, <2>3, <2>4, <2>5, <2>6, <2>7, <2>8, <2>9, <2>10, <2>11
          DEF HubNext, Handler, ResetCall, HubDriver
<1>2. IInv /\ [HubNext]_rootHubVars => [Kept]_rootHubVars
  BY <1>1 DEF IInv
<1> QED BY <1>2, Invariant, PTL DEF HubSpec, ChangesKept

-----------------------------------------------------------------------------
Frames == ToSet(stack)
Rest   == ToSet(Tail(stack))

Waiting == {"stopping", "stopped", "starting"}
FrameType ==
  [at : Points, op : Calls, pipe : Pipe \cup {None}, x : Transfer \cup {None},
   how : {"none", "ok", "error"}, list : Seq(Transfer), left : Seq(Pipe),
   filled : 0..MaxChunks, new : QTD \cup {None}]

Waits(f, op) == f.at \in Waiting /\ f.op = op /\ f.pipe \in Pipe /\ f.list = <<>>
Submits(f) ==
  /\ f.op = "submit" /\ f.at \in {"fill", "check"} /\ f.list = <<>>
  /\ f.pipe \in Pipe /\ f.x \in Transfer /\ f.new \in QTD
Scans(f) ==
  /\ f.op = "scan" /\ f.at \in {"scan", "complete", "callback"} /\ f.list = <<>>
  /\ f.at # "scan" => f.pipe \in Pipe /\ f.x \in Transfer /\ f.how # "none"
Aborts(f) ==
  /\ f.op \in {"abort", "delete"} /\ f.at \in {"abort", "callback"} /\ f.pipe \in Pipe
  /\ f.at = "callback" => f.x \in Transfer

(* Which call may stand above which.                                       *)
BelowSubmit(r) ==
  r = <<>> \/ ((Scans(Head(r)) \/ Aborts(Head(r))) /\ Head(r).at = "callback" /\ Tail(r) = <<>>)
BelowRebuild(r, p) ==
  \/ r = <<>>
  \/ Scans(Head(r)) /\ Head(r).at = "complete" /\ Head(r).pipe = p /\ Tail(r) = <<>>
  \/ Aborts(Head(r)) /\ Head(r).at = "abort" /\ Head(r).pipe = p /\ Tail(r) = <<>>
  \/ Submits(Head(r)) /\ Head(r).at = "check" /\ Head(r).pipe = p /\ BelowSubmit(Tail(r))
Above(f, r) ==
  \/ Waits(f, "rebuild") /\ BelowRebuild(r, f.pipe)
  \/ Submits(f) /\ BelowSubmit(r)
  \/ /\ Waits(f, "link") \/ Waits(f, "unlink") \/ Scans(f) \/ Aborts(f)
     /\ r = <<>>
Shaped(s) == s = <<>> \/ Above(Head(s), Tail(s))

Nested == stack \in Seq(FrameType) /\ Shaped(stack)

HeldBy(f) == (IF f.at \in {"fill", "complete", "callback"} THEN {f.x} ELSE {}) \cup ToSet(f.list)
Queued(x) == \E p \in Pipe : x \in ToSet(queue[p])
HeldX(x) == \E f \in Frames : x \in HeldBy(f)
Busy(x) == Queued(x) \/ HeldX(x)
Linking(p) == \E f \in Frames : f.op = "link" /\ f.pipe = p
Submitting(x) == \E f \in Frames : f.op = "submit" /\ f.x = x
Writing(p, x, t) == \E f \in Frames : f.at = "fill" /\ f.pipe = p /\ f.x = x /\ f.new = t

FrameOK(f) ==
  /\ f.op \in {"rebuild", "submit", "abort", "delete"} => IsOpen(f.pipe)
  /\ f.op = "unlink" => (IsOpen(f.pipe) <=> f.at # "starting")
  /\ f.op = "link" => (IsOpen(f.pipe) <=> f.at = "starting") /\ queue[f.pipe] = <<>>
  /\ Distinct(f.list) /\ (f.at = "callback" => f.x \notin ToSet(f.list))
  /\ f.op = "submit" => status[f.x] = "new"
  /\ f.at = "check" => queue[f.pipe] = <<f.x>> /\ dummy[f.pipe] = f.new
  /\ f.at = "fill" => f.filled <= Len(chunks[f.x]) /\ Len(chunks[f.x]) <= MaxChunks
  /\ \A x \in HeldBy(f) : ~Queued(x)

CallsOK ==
  /\ \A f \in Frames : FrameOK(f)
  /\ \A f, g \in Frames : f # g => HeldBy(f) \cap HeldBy(g) = {}

Queues ==
  /\ open \in Seq(Pipe) /\ Distinct(open)
  /\ dummy \in [Pipe -> QTD \cup {None}]
  /\ queue \in [Pipe -> Seq(Transfer)]
  /\ \A p \in Pipe : dummy[p] # None <=> IsOpen(p) \/ Linking(p)
  /\ \A p \in Pipe : queue[p] # <<>> => IsOpen(p)
  /\ \A p \in Pipe : Distinct(queue[p])
  /\ \A p, q \in Pipe : p # q => ToSet(queue[p]) \cap ToSet(queue[q]) = {}
  /\ \A x \in Transfer : status[x] = "new" /\ Busy(x) => Submitting(x)

QTDs ==
  /\ free \in Seq(QTD) /\ Distinct(free)
  /\ chunks \in [Transfer -> Seq(QTD)]
  /\ \A x \in Transfer : Busy(x) => chunks[x] # <<>> /\ Distinct(chunks[x])
  /\ \A t \in QTD : \/ t \in ToSet(free)
                    \/ \E x \in Transfer : Busy(x) /\ t \in ToSet(chunks[x])
                    \/ \E p \in Pipe : dummy[p] = t
                    \/ \E p \in Pipe, x \in Transfer : Writing(p, x, t)
  /\ \A x \in Transfer : Busy(x) => ToSet(free) \cap ToSet(chunks[x]) = {}
  /\ \A p \in Pipe : dummy[p] \notin ToSet(free)
  /\ \A p \in Pipe, x \in Transfer, t \in QTD : Writing(p, x, t) =>
       /\ t \notin ToSet(free)
       /\ \A y \in Transfer : Busy(y) => t \notin ToSet(chunks[y])
       /\ \A q \in Pipe : t # dummy[q]
       /\ dummy[p] = Head(chunks[x])
  /\ \A x, y \in Transfer : Busy(x) /\ Busy(y) /\ x # y => ToSet(chunks[x]) \cap ToSet(chunks[y]) = {}
  /\ \A p, q \in Pipe : dummy[p] # None /\ dummy[p] = dummy[q] => p = q
  /\ \A p \in Pipe, x \in Transfer :
       Busy(x) /\ dummy[p] \in ToSet(chunks[x]) => \E t \in QTD : Writing(p, x, t)

Others ==
  /\ mem \in [QTD -> [next : QTD \cup {None}, ioc : BOOLEAN,
                      token : {"idle", "active", "done", "short", "error"}]]
  /\ overlay \in [Pipe -> [cur : QTD \cup {None}, next : QTD \cup {None},
                           token : {"idle", "active", "halted"}]]
  /\ {enabled, running, usbint, failed} \subseteq BOOLEAN
  /\ timeouts \in 0..MaxTimeouts /\ ops \in 0..MaxOps
  /\ status \in [Transfer -> {"new", "accepted", "refused"}]
  /\ results \in [Transfer -> Seq({"ok", "error", "aborted"})]
  /\ issued \in [Pipe -> Seq(Transfer)]
  /\ lost \subseteq Pipe /\ strayed \in BOOLEAN

AsyncInv == Nested /\ CallsOK /\ Queues /\ QTDs /\ Others
-----------------------------------------------------------------------------
(* Frames and the stack.                                                   *)

(* What is assumed of the constants.                                       *)
LEMMA Constants ==
  /\ Transfer \subseteq Nat /\ None \notin QTD /\ None \notin Pipe /\ None \notin Transfer
  /\ MaxChunks \in Nat /\ MaxChunks > 0 /\ MaxOps \in Nat /\ MaxTimeouts \in Nat
BY AsyncAssumption

(* The running call and those under it.                                    *)
LEMMA StackIs ==
  ASSUME Nested, stack # <<>>
  PROVE  /\ Top \in FrameType /\ Tail(stack) \in Seq(FrameType)
         /\ Frames = {Top} \cup Rest
BY TailSet DEF Nested, Top, Frames, Rest

(* The running call is the only one.                                       *)
LEMMA RestIs ==
  ASSUME Nested, stack # <<>>, Tail(stack) = <<>>
  PROVE  Frames = {Top} /\ Rest = {}
BY StackIs DEF Rest, ToSet

(* No calls are under way.                                                 *)
LEMMA EmptyIs == stack = <<>> => Frames = {}
BY DEF Frames, ToSet

(* The running call goes on.                                               *)
LEMMA GotoIs ==
  ASSUME Nested, stack # <<>>, NEW f \in FrameType, Goto(f)
  PROVE  /\ stack' \in Seq(FrameType) /\ stack' # <<>>
         /\ Top' = f /\ Tail(stack') = Tail(stack)
         /\ Frames' = {f} \cup Rest /\ Rest' = Rest
<1>1. Tail(stack) \in Seq(FrameType)
  BY StackIs
<1>2. stack' = <<f>> \o Tail(stack)
  BY DEF Goto
<1>3. /\ stack' \in Seq(FrameType) /\ stack' # <<>> /\ Head(stack') = f
      /\ Tail(stack') = Tail(stack) /\ ToSet(stack') = {f} \cup ToSet(Tail(stack))
  BY <1>1, <1>2, PushSet
<1> QED BY <1>3 DEF Top, Frames, Rest

(* A call begins on top of others.                                         *)
LEMMA PushedIs ==
  ASSUME Nested, NEW f \in FrameType, stack' = <<f>> \o stack
  PROVE  /\ stack' \in Seq(FrameType) /\ stack' # <<>>
         /\ Top' = f /\ Tail(stack') = stack
         /\ Frames' = {f} \cup Frames /\ Rest' = Frames
BY PushSet DEF Nested, Top, Frames, Rest

(* A call begins alone.                                                    *)
LEMMA FirstIs ==
  ASSUME NEW f \in FrameType, stack' = <<f>>
  PROVE  /\ stack' \in Seq(FrameType) /\ stack' # <<>>
         /\ Top' = f /\ Tail(stack') = <<>> /\ Frames' = {f} /\ Rest' = {}
<1>1. stack' \in Seq(FrameType) /\ stack' # <<>> /\ Top' = f /\ Tail(stack') = <<>>
  BY DEF Top
<1>2. Frames' = {f} /\ Rest' = {}
  BY <1>1 DEF Frames, Rest, ToSet
<1> QED BY <1>1, <1>2

(* The running call goes on, under one that it makes.                      *)
LEMMA CallIs ==
  ASSUME Nested, stack # <<>>, NEW f \in FrameType, NEW g \in FrameType, Call(f, g)
  PROVE  /\ stack' \in Seq(FrameType) /\ stack' # <<>>
         /\ Top' = g /\ Tail(stack') = <<f>> \o Tail(stack)
         /\ Head(Tail(stack')) = f /\ Tail(Tail(stack')) = Tail(stack)
         /\ Frames' = {f, g} \cup Rest
<1> DEFINE r == <<f>> \o Tail(stack)
<1>1. Tail(stack) \in Seq(FrameType)
  BY StackIs
<1>2. /\ r \in Seq(FrameType) /\ Head(r) = f /\ Tail(r) = Tail(stack)
      /\ ToSet(r) = {f} \cup Rest
  BY <1>1, PushSet DEF Rest
<1>3. stack' = <<g>> \o r
  BY <1>1 DEF Call
<1> HIDE DEF r
<1>4. /\ stack' \in Seq(FrameType) /\ stack' # <<>> /\ Head(stack') = g /\ Tail(stack') = r
      /\ ToSet(stack') = {g} \cup ToSet(r)
  BY <1>2, <1>3, PushSet
<1> QED BY <1>2, <1>4 DEF r, Top, Frames

(* The running call returns.                                               *)
LEMMA ReturnIs ==
  ASSUME Nested, stack # <<>>, Return
  PROVE  stack' \in Seq(FrameType) /\ Frames' = Rest /\ Shaped(stack')
<1>1. stack' \in Seq(FrameType) /\ Frames' = Rest
  BY StackIs DEF Return, Frames, Rest
<1>2. stack' = Tail(stack)
  BY DEF Return
<1>3. Shaped(Tail(stack))
  BY DEF Nested, Shaped, Above, BelowSubmit, BelowRebuild
<1> QED BY <1>1, <1>2, <1>3

(* A call that holds transactions is on the stack once.                    *)
LEMMA TopOnce ==
  ASSUME Nested, stack # <<>>, HeldBy(Top) # {}
  PROVE  Top \notin Rest
<1>1. CASE Tail(stack) = <<>>
  BY <1>1, RestIs
<1>2. CASE Tail(stack) # <<>>
  <2>1. ~Waits(Top, "rebuild")
    BY DEF Waits, Waiting, HeldBy, ToSet
  <2>2. Submits(Top) /\ BelowSubmit(Tail(stack))
    BY <1>2, <2>1 DEF Nested, Shaped, Above, Top
  <2>3. /\ Tail(stack) \in Seq(FrameType) /\ Tail(Tail(stack)) = <<>>
        /\ Scans(Head(Tail(stack))) \/ Aborts(Head(Tail(stack)))
    BY <1>2, <2>2, StackIs DEF BelowSubmit
  <2>4. Rest = {Head(Tail(stack))} \cup ToSet(Tail(Tail(stack)))
    BY <1>2, <2>3, TailSet DEF Rest
  <2>5. ToSet(<<>>) = {}
    BY DEF ToSet
  <2> QED BY <2>2, <2>3, <2>4, <2>5 DEF Submits, Scans, Aborts
<1> QED BY <1>1, <1>2

(* A frame that waits.                                                     *)
LEMMA StopIs ==
  ASSUME Others, NEW op \in {"rebuild", "link", "unlink"}, NEW p \in Pipe
  PROVE  /\ Stop(op, p) \in FrameType /\ Waits(Stop(op, p), op)
         /\ Stop(op, p).at \in {"stopping", "stopped"}
         /\ Stop(op, p).op = op /\ Stop(op, p).pipe = p
         /\ HeldBy(Stop(op, p)) = {}
<1> DEFINE s == Stop(op, p)
<1> DEFINE a == IF enabled THEN "stopping" ELSE "stopped"
<1>1. s = [at |-> a, op |-> op, pipe |-> p, x |-> None, how |-> "none",
           list |-> <<>>, left |-> <<>>, filled |-> 0, new |-> None]
  BY DEF Stop, Frame
<1>2. a \in {"stopping", "stopped"}
  OBVIOUS
<1> HIDE DEF a
<1>3. <<>> \in Seq(Transfer) /\ <<>> \in Seq(Pipe) /\ 0 \in 0..MaxChunks
  BY Constants
<1>4. a \in Points /\ op \in Calls
  BY <1>2 DEF Points, Calls
<1>5. s \in FrameType
  BY <1>1, <1>3, <1>4 DEF FrameType
<1> HIDE DEF s
<1>6. Waits(s, op) /\ HeldBy(s) = {} /\ s.at \in {"stopping", "stopped"} /\ s.op = op /\ s.pipe = p
  BY <1>1, <1>2 DEF Waits, Waiting, HeldBy, ToSet
<1> QED BY <1>5, <1>6 DEF s

-----------------------------------------------------------------------------
(* What keeps the transactions and qTDs where they are.                    *)
LEMMA QTDsKeep ==
  ASSUME QTDs, UNCHANGED <<free, chunks, dummy>>,
         \A x \in Transfer : Busy(x)' <=> Busy(x),
         \A p \in Pipe, x \in Transfer, t \in QTD : Writing(p, x, t)' <=> Writing(p, x, t)
  PROVE  QTDs'
BY DEF QTDs

(* Queues depends on open, dummy, queue and status, and on what is under   *)
(* way.                                                                    *)
LEMMA QueuesKeep ==
  ASSUME Queues, UNCHANGED <<open, dummy, queue, status>>,
         \A x \in Transfer : Busy(x)' => Busy(x),
         \A x \in Transfer : Submitting(x) => Submitting(x)',
         \A p \in Pipe : IsOpen(p) \/ Linking(p)' <=> IsOpen(p) \/ Linking(p)
  PROVE  Queues'
<1>1. \A p \in Pipe : IsOpen(p)' <=> IsOpen(p)
  BY DEF IsOpen
<1> QED BY <1>1 DEF Queues

(* What is said of a call that is under way does not depend on the others. *)
LEMMA FrameKeeps ==
  ASSUME NEW f, FrameOK(f), UNCHANGED <<open, dummy, queue, status, chunks>>
  PROVE  FrameOK(f)'
BY DEF FrameOK, IsOpen, Queued

(* The running call goes on.                                               *)
Same(t, f) ==
  /\ HeldBy(f) = HeldBy(t)
  /\ f.op = "submit" <=> t.op = "submit"
  /\ f.op = "submit" => f.x = t.x
  /\ f.op = "link" <=> t.op = "link"
  /\ f.op = "link" => f.pipe = t.pipe
  /\ f.at = "fill" <=> t.at = "fill"
  /\ f.at = "fill" => f.pipe = t.pipe /\ f.x = t.x /\ f.new = t.new

(* The running call goes on and holds what it held.                        *)
LEMMA SwapKeeps ==
  ASSUME CallsOK, Queues, QTDs, UNCHANGED <<open, dummy, queue, status, chunks, free>>,
         NEW t, NEW f, NEW R, Frames = {t} \cup R, Frames' = {f} \cup R,
         t \in R => HeldBy(t) = {}, Same(t, f), FrameOK(f)'
  PROVE  CallsOK' /\ Queues' /\ QTDs'
<1> USE DEF Same
<1>1. \A x \in Transfer : Busy(x)' <=> Busy(x)
  BY DEF Busy, Queued, HeldX
<1>2. \A x \in Transfer : Submitting(x) <=> Submitting(x)'
  BY DEF Submitting
<1>3. \A p \in Pipe : Linking(p)' <=> Linking(p)
  BY DEF Linking
<1>4. \A p \in Pipe, x \in Transfer, q \in QTD : Writing(p, x, q)' <=> Writing(p, x, q)
  BY DEF Writing
<1>5. Queues'
  BY <1>1, <1>2, <1>3, QueuesKeep
<1>6. QTDs'
  BY <1>1, <1>4, QTDsKeep
<1>7. ASSUME NEW g \in Frames' PROVE FrameOK(g)'
  BY FrameKeeps DEF CallsOK
<1>8. ASSUME NEW g \in Frames', NEW h \in Frames', g # h PROVE HeldBy(g) \cap HeldBy(h) = {}
  BY <1>8 DEF CallsOK
<1> QED BY <1>5, <1>6, <1>7, <1>8 DEF CallsOK

(* A call that holds nothing begins.                                       *)
LEMMA GrowKeeps ==
  ASSUME CallsOK, Queues, QTDs, UNCHANGED <<open, dummy, queue, status, chunks, free>>,
         NEW f, Frames' = {f} \cup Frames,
         HeldBy(f) = {}, f.op \notin {"submit", "link"}, f.at # "fill", FrameOK(f)'
  PROVE  CallsOK' /\ Queues' /\ QTDs'
<1>1. \A x \in Transfer : Busy(x)' <=> Busy(x)
  BY DEF Busy, Queued, HeldX
<1>2. \A x \in Transfer : Submitting(x) <=> Submitting(x)'
  BY DEF Submitting
<1>3. \A p \in Pipe : Linking(p)' <=> Linking(p)
  BY DEF Linking
<1>4. \A p \in Pipe, x \in Transfer, q \in QTD : Writing(p, x, q)' <=> Writing(p, x, q)
  BY DEF Writing
<1>5. Queues'
  BY <1>1, <1>2, <1>3, QueuesKeep
<1>6. QTDs'
  BY <1>1, <1>4, QTDsKeep
<1>7. ASSUME NEW g \in Frames' PROVE FrameOK(g)'
  BY FrameKeeps DEF CallsOK
<1>8. ASSUME NEW g \in Frames', NEW h \in Frames', g # h PROVE HeldBy(g) \cap HeldBy(h) = {}
  BY <1>8 DEF CallsOK
<1> QED BY <1>5, <1>6, <1>7, <1>8 DEF CallsOK

(* A call that holds nothing any more returns.                             *)
LEMMA ShrinkKeeps ==
  ASSUME CallsOK, Queues, QTDs, UNCHANGED <<open, dummy, queue, status, chunks, free>>,
         NEW t, NEW R, Frames = {t} \cup R, Frames' = R,
         HeldBy(t) = {}, t.op # "submit", t.at # "fill", t.op = "link" => IsOpen(t.pipe)
  PROVE  CallsOK' /\ Queues' /\ QTDs'
<1>1. \A x \in Transfer : Busy(x)' <=> Busy(x)
  BY DEF Busy, Queued, HeldX
<1>2. \A x \in Transfer : Submitting(x) <=> Submitting(x)'
  BY DEF Submitting
<1>3. \A p \in Pipe : IsOpen(p) \/ Linking(p)' <=> IsOpen(p) \/ Linking(p)
  BY DEF Linking
<1>4. \A p \in Pipe, x \in Transfer, q \in QTD : Writing(p, x, q)' <=> Writing(p, x, q)
  BY DEF Writing
<1>5. Queues'
  BY <1>1, <1>2, <1>3, QueuesKeep
<1>6. QTDs'
  BY <1>1, <1>4, QTDsKeep
<1>7. ASSUME NEW g \in Frames' PROVE FrameOK(g)'
  BY FrameKeeps DEF CallsOK
<1>8. ASSUME NEW g \in Frames', NEW h \in Frames', g # h PROVE HeldBy(g) \cap HeldBy(h) = {}
  BY <1>8 DEF CallsOK
<1> QED BY <1>5, <1>6, <1>7, <1>8 DEF CallsOK

(* The frames stay.                                                        *)
LEMMA StayKeeps ==
  ASSUME Nested, CallsOK, Queues, QTDs,
         UNCHANGED <<open, dummy, queue, status, chunks, free, stack>>
  PROVE  Nested' /\ CallsOK' /\ Queues' /\ QTDs'
<1>1. Frames' = Frames
  BY DEF Frames
<1>2. \A x \in Transfer : Busy(x)' <=> Busy(x)
  BY <1>1 DEF Busy, Queued, HeldX
<1>3. \A x \in Transfer : Submitting(x) <=> Submitting(x)'
  BY <1>1 DEF Submitting
<1>4. \A p \in Pipe : Linking(p)' <=> Linking(p)
  BY <1>1 DEF Linking
<1>5. \A p \in Pipe, x \in Transfer, q \in QTD : Writing(p, x, q)' <=> Writing(p, x, q)
  BY <1>1 DEF Writing
<1>6. Queues'
  BY <1>2, <1>3, <1>4, QueuesKeep
<1>7. QTDs'
  BY <1>2, <1>5, QTDsKeep
<1>8. CallsOK'
  BY <1>1, FrameKeeps DEF CallsOK
<1>9. Nested'
  BY DEF Nested
<1> QED BY <1>6, <1>7, <1>8, <1>9

-----------------------------------------------------------------------------
Core == Nested /\ CallsOK /\ Queues /\ QTDs

(* What is known of the running call.                                      *)
LEMMA TopIs ==
  ASSUME Nested, CallsOK, stack # <<>>
  PROVE  /\ Top \in Frames /\ Top \in FrameType /\ FrameOK(Top) /\ Frames = {Top} \cup Rest
         /\ Top \in Rest => HeldBy(Top) = {}
BY StackIs, TopOnce DEF CallsOK

(* Which call is on top.                                                   *)
LEMMA WaitIs ==
  ASSUME Nested, stack # <<>>, Top.at \in Waiting
  PROVE  /\ HeldBy(Top) = {} /\ Top.pipe \in Pipe /\ Top.at # "fill" /\ Top.list = <<>>
         /\ Top.op \in {"rebuild", "link", "unlink"}
         /\ \/ Top.op = "rebuild" /\ BelowRebuild(Tail(stack), Top.pipe)
            \/ Top.op \in {"link", "unlink"} /\ Tail(stack) = <<>>
<1>1. ~Submits(Top) /\ ~Scans(Top) /\ ~Aborts(Top)
  BY DEF Submits, Scans, Aborts, Waiting
<1>2. \/ Waits(Top, "rebuild") /\ BelowRebuild(Tail(stack), Top.pipe)
      \/ (Waits(Top, "link") \/ Waits(Top, "unlink")) /\ Tail(stack) = <<>>
  BY <1>1 DEF Nested, Shaped, Above, Top
<1>3. ToSet(<<>>) = {}
  BY DEF ToSet
<1> QED BY <1>2, <1>3 DEF Waits, Waiting, HeldBy

(* The running call is a submission.                                       *)
LEMMA SubmitIs ==
  ASSUME Nested, stack # <<>>, Top.at \in {"fill", "check"}
  PROVE  Submits(Top) /\ BelowSubmit(Tail(stack))
BY DEF Nested, Shaped, Above, Top, Waits, Waiting, Scans, Aborts

(* The running call is a scan.                                             *)
LEMMA ScanIs ==
  ASSUME Nested, stack # <<>>, Top.at \in {"scan", "complete"}
  PROVE  Scans(Top) /\ Tail(stack) = <<>>
BY DEF Nested, Shaped, Above, Top, Waits, Waiting, Submits, Aborts

(* The running call is an abort or a delete.                               *)
LEMMA AbortIs ==
  ASSUME Nested, stack # <<>>, Top.at = "abort"
  PROVE  Aborts(Top) /\ Tail(stack) = <<>>
BY DEF Nested, Shaped, Above, Top, Waits, Waiting, Submits, Scans

(* The running call is in a completion.                                    *)
LEMMA CallbackIs ==
  ASSUME Nested, stack # <<>>, Top.at = "callback"
  PROVE  (Scans(Top) \/ Aborts(Top)) /\ Tail(stack) = <<>> /\ Top.x \in Transfer
BY DEF Nested, Shaped, Above, Top, Waits, Waiting, Submits, Scans, Aborts

-----------------------------------------------------------------------------
(* A step in which the running call only goes on.                          *)
LEMMA GotoCore ==
  ASSUME Core, stack # <<>>, NEW g \in FrameType, Goto(g),
         UNCHANGED <<open, dummy, queue, status, chunks, free>>,
         Above(g, Tail(stack)), Same(Top, g), FrameOK(g)
  PROVE  Core'
<1>1. Frames = {Top} \cup Rest /\ (Top \in Rest => HeldBy(Top) = {})
  BY TopIs DEF Core
<1>2. /\ stack' \in Seq(FrameType) /\ stack' # <<>> /\ Top' = g /\ Tail(stack') = Tail(stack)
      /\ Frames' = {g} \cup Rest
  BY GotoIs DEF Core
<1>3. Shaped(stack')
  BY <1>2 DEF Shaped, Top
<1>4. FrameOK(g)'
  BY FrameKeeps
<1>5. CallsOK' /\ Queues' /\ QTDs'
  BY <1>1, <1>2, <1>4, SwapKeeps DEF Core
<1> QED BY <1>2, <1>3, <1>5 DEF Core, Nested

(* A step in which a call only returns.                                    *)
LEMMA ReturnCore ==
  ASSUME Core, stack # <<>>, Return, UNCHANGED <<open, dummy, queue, status, chunks, free>>,
         HeldBy(Top) = {}, Top.op # "submit", Top.at # "fill",
         Top.op = "link" => IsOpen(Top.pipe)
  PROVE  Core'
<1>1. Nested'
  BY ReturnIs DEF Core, Nested
<1>2. Frames = {Top} \cup Rest /\ Frames' = Rest
  BY ReturnIs, TopIs DEF Core
<1>3. CallsOK' /\ Queues' /\ QTDs'
  BY <1>2, ShrinkKeeps DEF Core
<1> QED BY <1>1, <1>3 DEF Core

(* A step in which a call only begins, alone.                              *)
LEMMA BeginCore ==
  ASSUME Core, stack = <<>>, NEW g \in FrameType, stack' = <<g>>,
         UNCHANGED <<open, dummy, queue, status, chunks, free>>,
         Above(g, <<>>), HeldBy(g) = {}, g.op \notin {"submit", "link"}, g.at # "fill", FrameOK(g)
  PROVE  Core'
<1>1. Frames = {}
  BY EmptyIs
<1>2. /\ stack' \in Seq(FrameType) /\ stack' # <<>> /\ Top' = g /\ Tail(stack') = <<>>
      /\ Frames' = {g}
  BY FirstIs
<1>3. Shaped(stack')
  BY <1>2 DEF Shaped, Top
<1>4. FrameOK(g)'
  BY FrameKeeps
<1>5. Frames' = {g} \cup Frames
  BY <1>1, <1>2
<1>6. CallsOK' /\ Queues' /\ QTDs'
  BY <1>5, <1>4, GrowKeeps DEF Core
<1> QED BY <1>2, <1>3, <1>6 DEF Core, Nested

-----------------------------------------------------------------------------
(* Started: the wait is over.                                              *)
LEMMA StartedCore == ASSUME Core, Started PROVE Core'
<1>1. /\ stack # <<>> /\ Top.at = "starting" /\ Return
      /\ UNCHANGED <<open, dummy, queue, status, chunks, free>>
  BY DEF Started, Runs, driverVars, clientVars
<1>2. HeldBy(Top) = {} /\ Top.op # "submit" /\ Top.at # "fill"
  BY <1>1, WaitIs DEF Core, Waiting
<1>3. Top.op = "link" => IsOpen(Top.pipe)
  BY <1>1, TopIs DEF FrameOK, Core
<1> QED BY <1>1, <1>2, <1>3, ReturnCore

(* Rebuild: only the overlay is written.                                   *)
LEMMA RebuildCore == ASSUME Core, Rebuild PROVE Core'
<1>1. PICK g : g = [Top EXCEPT !.at = "starting"]
  OBVIOUS
<1>2. /\ stack # <<>> /\ Top.at \in Waiting /\ Top.op = "rebuild" /\ Goto(g)
      /\ UNCHANGED <<open, dummy, queue, status, chunks, free>>
  BY <1>1 DEF Rebuild, Stopped, Runs, Start, driverVars, clientVars, Waiting
<1>3. Top \in FrameType /\ FrameOK(Top)
  BY <1>2, TopIs DEF Core
<1>4. /\ g \in FrameType /\ g.at = "starting" /\ g.op = Top.op /\ g.pipe = Top.pipe
      /\ g.list = Top.list /\ g.x = Top.x
  BY <1>1, <1>3 DEF FrameType, Points
<1>5. /\ HeldBy(Top) = {} /\ Top.pipe \in Pipe /\ Top.list = <<>> /\ Top.at # "fill"
      /\ BelowRebuild(Tail(stack), Top.pipe)
  BY <1>2, WaitIs DEF Core
<1>6. HeldBy(g) = {}
  BY <1>4, <1>5 DEF HeldBy, ToSet
<1>7. FrameOK(g)
  BY <1>2, <1>3, <1>4, <1>5, <1>6 DEF FrameOK, Waiting
<1>8. Same(Top, g)
  BY <1>2, <1>4, <1>5, <1>6 DEF Same
<1>9. Above(g, Tail(stack))
  BY <1>2, <1>4, <1>5 DEF Above, Waits, Waiting
<1> QED BY <1>2, <1>4, <1>7, <1>8, <1>9, GotoCore

(* AbortNext: the next transaction is now the one being answered.          *)
LEMMA AbortNextCore == ASSUME Core, AbortNext PROVE Core'
<1>1. PICK g : g = [Top EXCEPT !.at = "callback", !.x = Head(Top.list), !.list = Tail(Top.list)]
  OBVIOUS
<1>2. /\ stack # <<>> /\ Top.at = "abort" /\ Top.list # <<>> /\ Goto(g)
      /\ UNCHANGED <<open, dummy, queue, status, chunks, free>>
  BY <1>1 DEF AbortNext, Runs, driverVars
<1>3. Top \in FrameType /\ FrameOK(Top) /\ Aborts(Top) /\ Tail(stack) = <<>>
  BY <1>2, TopIs, AbortIs DEF Core
<1>4. /\ Head(Top.list) \in Transfer /\ Tail(Top.list) \in Seq(Transfer)
      /\ ToSet(Top.list) = {Head(Top.list)} \cup ToSet(Tail(Top.list))
      /\ Distinct(Tail(Top.list)) /\ Head(Top.list) \notin ToSet(Tail(Top.list))
  <2>1. Top.list \in Seq(Transfer) /\ Distinct(Top.list)
    BY <1>3 DEF FrameType, FrameOK
  <2> QED BY <1>2, <2>1, TailSet
<1>5. /\ g \in FrameType /\ g.at = "callback" /\ g.op = Top.op /\ g.pipe = Top.pipe
      /\ g.list = Tail(Top.list) /\ g.x = Head(Top.list)
  BY <1>1, <1>3, <1>4 DEF FrameType, Points
<1>6. HeldBy(g) = HeldBy(Top)
  BY <1>2, <1>4, <1>5 DEF HeldBy
<1>7. FrameOK(g)
  BY <1>2, <1>3, <1>4, <1>5, <1>6 DEF FrameOK, Aborts
<1>8. Same(Top, g)
  BY <1>2, <1>3, <1>5, <1>6 DEF Same, Aborts
<1>9. Above(g, Tail(stack))
  BY <1>3, <1>4, <1>5 DEF Above, Aborts
<1> QED BY <1>2, <1>5, <1>7, <1>8, <1>9, GotoCore

(* DeleteAborted: everything queued has been answered.                     *)
LEMMA DeleteAbortedCore == ASSUME Core, Others, DeleteAborted PROVE Core'
<1>0. stack # <<>> /\ Top.at = "abort" /\ Top.list = <<>> /\ Top.op = "delete"
  BY DEF DeleteAborted, Runs
<1>1. Top \in FrameType /\ FrameOK(Top) /\ Aborts(Top) /\ Tail(stack) = <<>>
  BY <1>0, TopIs, AbortIs DEF Core
<1>2. PICK p \in Pipe : p = Top.pipe
  BY <1>1 DEF Aborts
<1>3. PICK g : g = Stop("unlink", p)
  OBVIOUS
<1>4. Goto(g) /\ UNCHANGED <<open, dummy, queue, status, chunks, free>>
  BY <1>2, <1>3 DEF DeleteAborted, driverVars, clientVars
<1>5. /\ g \in FrameType /\ Waits(g, "unlink") /\ g.at \in {"stopping", "stopped"}
      /\ g.op = "unlink" /\ g.pipe = p /\ HeldBy(g) = {}
  BY <1>3, StopIs
<1>6. HeldBy(Top) = {}
  BY <1>0 DEF HeldBy, ToSet
<1>7. FrameOK(g)
  <2>1. IsOpen(p)
    BY <1>0, <1>1, <1>2 DEF FrameOK
  <2>2. Distinct(<<>>)
    BY DEF Distinct
  <2> QED BY <1>5, <2>1, <2>2 DEF FrameOK, Waits
<1>8. Same(Top, g)
  BY <1>0, <1>5, <1>6 DEF Same
<1>9. Above(g, Tail(stack))
  BY <1>1, <1>5 DEF Above
<1> QED BY <1>0, <1>4, <1>5, <1>7, <1>8, <1>9, GotoCore

(* Fill: one qTD more is written.                                          *)
LEMMA FillCore == ASSUME Core, Fill PROVE Core'
<1> DEFINE k == Top.filled + 1
<1>1. PICK g : g = [Top EXCEPT !.filled = k]
  OBVIOUS
<1>2. /\ stack # <<>> /\ Top.at = "fill" /\ k <= Len(chunks[Top.x]) /\ Goto(g)
      /\ UNCHANGED <<open, dummy, queue, status, chunks, free>>
  BY <1>1 DEF Fill, Runs, driverVars, clientVars
<1>3. Top \in FrameType /\ FrameOK(Top) /\ Submits(Top) /\ BelowSubmit(Tail(stack)) /\ Top \in Frames
  BY <1>2, TopIs, SubmitIs DEF Core
<1>4. k \in 0..MaxChunks
  <2>1. chunks[Top.x] \in Seq(QTD) /\ Top.filled \in 0..MaxChunks
    BY <1>3 DEF Core, QTDs, Submits, FrameType
  <2>2. Len(chunks[Top.x]) \in Nat
    BY <2>1, LengthIs
  <2>3. Len(chunks[Top.x]) <= MaxChunks
    BY <1>2, <1>3 DEF FrameOK
  <2> QED BY <1>2, <2>1, <2>2, <2>3, Constants
<1>5. /\ g \in FrameType /\ g.at = Top.at /\ g.op = Top.op /\ g.pipe = Top.pipe
      /\ g.list = Top.list /\ g.x = Top.x /\ g.new = Top.new /\ g.filled = k
  BY <1>1, <1>2, <1>3, <1>4 DEF FrameType, Points
<1>6. HeldBy(g) = HeldBy(Top)
  BY <1>5 DEF HeldBy
<1>7. FrameOK(g)
  BY <1>2, <1>3, <1>5, <1>6 DEF FrameOK
<1>8. Same(Top, g)
  BY <1>5, <1>6 DEF Same
<1>9. Above(g, Tail(stack))
  BY <1>3, <1>5 DEF Above, Submits
<1> QED BY <1>2, <1>5, <1>7, <1>8, <1>9, GotoCore

(* ScanSkips: the pipe has nothing to answer.                              *)
LEMMA ScanSkipsCore == ASSUME Core, ScanSkips PROVE Core'
<1>1. PICK g : g = [Top EXCEPT !.left = Tail(@)]
  OBVIOUS
<1>2. /\ stack # <<>> /\ Top.at = "scan" /\ Top.left # <<>> /\ Goto(g)
      /\ UNCHANGED <<open, dummy, queue, status, chunks, free>>
  BY <1>1 DEF ScanSkips, Runs, driverVars, clientVars
<1>3. Top \in FrameType /\ FrameOK(Top) /\ Scans(Top) /\ Tail(stack) = <<>>
  BY <1>2, TopIs, ScanIs DEF Core
<1>4. Tail(Top.left) \in Seq(Pipe)
  BY <1>2, <1>3, TailSet DEF FrameType
<1>5. /\ g \in FrameType /\ g.at = Top.at /\ g.op = Top.op /\ g.pipe = Top.pipe
      /\ g.list = Top.list /\ g.x = Top.x /\ g.new = Top.new /\ g.filled = Top.filled
      /\ g.how = Top.how
  BY <1>1, <1>3, <1>4 DEF FrameType
<1>6. HeldBy(g) = HeldBy(Top)
  BY <1>5 DEF HeldBy
<1>7. FrameOK(g)
  BY <1>3, <1>5, <1>6 DEF FrameOK
<1>8. Same(Top, g)
  BY <1>5, <1>6 DEF Same
<1>9. Above(g, Tail(stack))
  BY <1>3, <1>5 DEF Above, Scans
<1> QED BY <1>2, <1>5, <1>7, <1>8, <1>9, GotoCore

(* Complete: the completion is called.                                     *)
LEMMA CompleteCore == ASSUME Core, Complete PROVE Core'
<1>1. PICK g : g = [Top EXCEPT !.at = "callback"]
  OBVIOUS
<1>2. /\ stack # <<>> /\ Top.at = "complete" /\ Goto(g)
      /\ UNCHANGED <<open, dummy, queue, status, chunks, free>>
  BY <1>1 DEF Complete, Runs, driverVars, clientVars
<1>3. Top \in FrameType /\ FrameOK(Top) /\ Scans(Top) /\ Tail(stack) = <<>>
  BY <1>2, TopIs, ScanIs DEF Core
<1>5. /\ g \in FrameType /\ g.at = "callback" /\ g.op = Top.op /\ g.pipe = Top.pipe
      /\ g.list = Top.list /\ g.x = Top.x /\ g.how = Top.how
  BY <1>1, <1>3 DEF FrameType, Points
<1>6. HeldBy(g) = HeldBy(Top)
  BY <1>2, <1>5 DEF HeldBy
<1>7. FrameOK(g)
  <2>1. Top.x \notin ToSet(<<>>)
    BY DEF ToSet
  <2> QED BY <1>2, <1>3, <1>5, <1>6, <2>1 DEF FrameOK, Scans
<1>8. Same(Top, g)
  BY <1>2, <1>3, <1>5, <1>6 DEF Same, Scans
<1>9. Above(g, Tail(stack))
  BY <1>2, <1>3, <1>5 DEF Above, Scans
<1> QED BY <1>2, <1>5, <1>7, <1>8, <1>9, GotoCore

(* ScanEnds: the scan holds nothing.                                       *)
LEMMA ScanEndsCore == ASSUME Core, ScanEnds PROVE Core'
<1>1. /\ stack # <<>> /\ Top.at = "scan" /\ Return
      /\ UNCHANGED <<open, dummy, queue, status, chunks, free>>
  BY DEF ScanEnds, Runs, driverVars, clientVars
<1>2. Scans(Top)
  BY <1>1, ScanIs DEF Core
<1>3. HeldBy(Top) = {}
  BY <1>1, <1>2 DEF Scans, HeldBy, ToSet
<1> QED BY <1>1, <1>2, <1>3, ReturnCore DEF Scans

(* AbortEnds: the abort holds nothing any more.                            *)
LEMMA AbortEndsCore == ASSUME Core, AbortEnds PROVE Core'
<1>1. /\ stack # <<>> /\ Top.at = "abort" /\ Top.list = <<>> /\ Top.op = "abort" /\ Return
      /\ UNCHANGED <<open, dummy, queue, status, chunks, free>>
  BY DEF AbortEnds, Runs, driverVars, clientVars
<1>3. HeldBy(Top) = {}
  BY <1>1 DEF HeldBy, ToSet
<1> QED BY <1>1, <1>3, ReturnCore

(* A wait alone.                                                           *)
LEMMA StopOK ==
  ASSUME Others, NEW op \in {"rebuild", "unlink"}, NEW p \in Pipe, IsOpen(p)
  PROVE  FrameOK(Stop(op, p))
<1>1. PICK g : g = Stop(op, p)
  OBVIOUS
<1>2. /\ Waits(g, op) /\ g.at \in {"stopping", "stopped"} /\ g.op = op /\ g.pipe = p /\ HeldBy(g) = {}
  BY <1>1, StopIs
<1>3. Distinct(<<>>)
  BY DEF Distinct
<1> QED BY <1>1, <1>2, <1>3 DEF FrameOK, Waits

(* DeleteEmpty and ClearStall: the schedule is to stop, nothing else.      *)
LEMMA StopsCore ==
  ASSUME Core, Others, NEW p \in Pipe, DeleteEmpty(p) \/ ClearStall(p)
  PROVE  Core'
<1>1. PICK op \in {"rebuild", "unlink"} : stack' = <<Stop(op, p)>>
  BY DEF DeleteEmpty, ClearStall
<1>2. /\ stack = <<>> /\ IsOpen(p) /\ UNCHANGED <<open, dummy, queue, status, chunks, free>>
  BY DEF DeleteEmpty, ClearStall, driverVars
<1>3. PICK g : g = Stop(op, p)
  OBVIOUS
<1>4. /\ g \in FrameType /\ Waits(g, op) /\ g.at \in {"stopping", "stopped"}
      /\ g.op = op /\ g.pipe = p /\ HeldBy(g) = {}
  BY <1>3, StopIs
<1>5. FrameOK(g)
  BY <1>2, <1>3, StopOK
<1>6. Above(g, <<>>)
  BY <1>4 DEF Above, BelowRebuild
<1> QED BY <1>1, <1>2, <1>3, <1>4, <1>5, <1>6, BeginCore

(* HandleInterrupt: a scan begins.                                         *)
LEMMA HandleInterruptCore == ASSUME Core, HandleInterrupt PROVE Core'
<1>1. PICK g : g = [Frame("scan", "scan", None) EXCEPT !.left = open]
  OBVIOUS
<1>2. stack = <<>> /\ stack' = <<g>> /\ UNCHANGED <<open, dummy, queue, status, chunks, free>>
  BY <1>1 DEF HandleInterrupt, driverVars, clientVars
<1>3. open \in Seq(Pipe) /\ <<>> \in Seq(Transfer) /\ 0 \in 0 .. MaxChunks
  BY Constants DEF Core, Queues
<1>4. g = [at |-> "scan", op |-> "scan", pipe |-> None, x |-> None, how |-> "none",
           list |-> <<>>, left |-> open, filled |-> 0, new |-> None]
  BY <1>1 DEF Frame
<1>5. g \in FrameType
  BY <1>3, <1>4 DEF FrameType, Points, Calls
<1>6. HeldBy(g) = {}
  BY <1>4 DEF HeldBy, ToSet
<1>7. Distinct(<<>>)
  BY DEF Distinct
<1>8. FrameOK(g)
  BY <1>4, <1>6, <1>7 DEF FrameOK
<1>9. Above(g, <<>>) /\ g.op = "scan" /\ g.at = "scan"
  BY <1>4 DEF Above, Scans
<1> QED BY <1>2, <1>5, <1>6, <1>8, <1>9, BeginCore

(* The controller moves no qTDs between lists.                             *)
LEMMA HcCore ==
  ASSUME Core,
         \/ HcStops \/ HcStarts \/ UNCHANGED vars
         \/ \E p \in Pipe : HcFetch(p) \/ \E token \in {"done", "short", "error"} : HcRetire(p, token)
  PROVE  Core'
<1>1. UNCHANGED <<open, dummy, queue, status, chunks, free, stack>>
  BY DEF HcStops, HcStarts, HcFetch, HcRetire, vars, driverVars, clientVars
<1> QED BY <1>1, StayKeeps DEF Core

-----------------------------------------------------------------------------
(* Under a submission there is nothing, or the call whose completion       *)
(* submits.                                                                *)
LEMMA BelowIs ==
  ASSUME Nested, stack # <<>>, BelowSubmit(Tail(stack))
  PROVE  \A f \in Rest : (Scans(f) \/ Aborts(f)) /\ f.at = "callback" /\ f.op # "submit"
<1>1. CASE Tail(stack) = <<>>
  BY <1>1, RestIs
<1>2. CASE Tail(stack) # <<>>
  <2>1. /\ Tail(stack) \in Seq(FrameType) /\ Tail(Tail(stack)) = <<>>
        /\ Scans(Head(Tail(stack))) \/ Aborts(Head(Tail(stack)))
        /\ Head(Tail(stack)).at = "callback"
    BY <1>2, StackIs DEF BelowSubmit
  <2>2. Rest = {Head(Tail(stack))} \cup ToSet(Tail(Tail(stack)))
    BY <1>2, <2>1, TailSet DEF Rest
  <2>3. ToSet(<<>>) = {}
    BY DEF ToSet
  <2>4. Rest = {Head(Tail(stack))}
    BY <2>1, <2>2, <2>3
  <2> QED BY <2>1, <2>4 DEF Scans, Aborts
<1> QED BY <1>1, <1>2

(* Submitted: the transaction stays in its queue.                          *)
LEMMA SubmittedCore == ASSUME Core, Others, Submitted PROVE Core'
<1>1. /\ stack # <<>> /\ Top.at = "check" /\ Return
      /\ UNCHANGED <<open, dummy, queue, chunks, free>>
  BY DEF Submitted, Runs, driverVars
<1>2. Submits(Top) /\ BelowSubmit(Tail(stack)) /\ Frames = {Top} \cup Rest /\ Frames' = Rest
  BY <1>1, SubmitIs, TopIs, ReturnIs DEF Core
<1>3. \A f \in Rest : f.op # "submit" /\ f.at = "callback"
  BY <1>1, <1>2, BelowIs DEF Core
<1>4. PICK x \in Transfer : x = Top.x
  BY <1>2 DEF Submits
<1>5. status' = [status EXCEPT ![x] = "accepted"]
  BY <1>4 DEF Submitted, Accept
<1>6. status \in [Transfer -> {"new", "accepted", "refused"}]
  BY DEF Others
<1>7. HeldBy(Top) = {}
  BY <1>1, <1>2 DEF Submits, HeldBy, ToSet
<1>8. \A y \in Transfer : Busy(y)' <=> Busy(y)
  BY <1>1, <1>2, <1>7 DEF Busy, Queued, HeldX
<1>9. \A q \in Pipe, y \in Transfer, t \in QTD : Writing(q, y, t)' <=> Writing(q, y, t)
  BY <1>1, <1>2 DEF Writing
<1>10. QTDs'
  BY <1>1, <1>8, <1>9, QTDsKeep DEF Core
<1>11. ASSUME NEW y \in Transfer, status'[y] = "new", Busy(y)' PROVE Submitting(y)'
  <2>1. y # x /\ status[y] = "new"
    BY <1>5, <1>6, <1>11
  <2>2. Submitting(y)
    BY <2>1, <1>8, <1>11 DEF Core, Queues
  <2> QED BY <2>1, <2>2, <1>2, <1>4 DEF Submitting
<1>12. \A q \in Pipe : Linking(q)' <=> Linking(q)
  BY <1>2 DEF Linking, Submits
<1>13. Queues'
  BY <1>1, <1>11, <1>12 DEF Core, Queues, IsOpen
<1>14. ASSUME NEW f \in Frames' PROVE FrameOK(f)'
  BY <1>1, <1>2, <1>3 DEF Core, CallsOK, FrameOK, IsOpen, Queued
<1>15. CallsOK'
  BY <1>2, <1>14 DEF Core, CallsOK
<1>16. Nested'
  BY <1>1, ReturnIs DEF Core, Nested
<1> QED BY <1>10, <1>13, <1>15, <1>16 DEF Core

OnlyWriting(p, x, t) ==
  \A q \in Pipe, y \in Transfer, u \in QTD : Writing(q, y, u) <=> q = p /\ y = x /\ u = t
NoWriting == \A q \in Pipe, y \in Transfer, u \in QTD : ~Writing(q, y, u)

(* The transaction p ends with has been written: its qTDs are its own, and *)
(* the new one is the dummy.                                               *)
LEMMA EnqueueQTDs ==
  ASSUME QTDs, NEW p \in Pipe, NEW x \in Transfer, NEW t \in QTD, Busy(x),
         OnlyWriting(p, x, t),
         dummy \in [Pipe -> QTD \cup {None}], dummy' = [dummy EXCEPT ![p] = t],
         UNCHANGED <<free, chunks>>, \A y \in Transfer : Busy(y)' <=> Busy(y),
         NoWriting'
  PROVE  QTDs'
<1> USE DEF OnlyWriting, NoWriting
<1>1. /\ t \notin ToSet(free)
      /\ \A y \in Transfer : Busy(y) => t \notin ToSet(chunks[y])
      /\ \A q \in Pipe : t # dummy[q]
      /\ dummy[p] = Head(chunks[x])
  BY DEF QTDs
<1>2. dummy[p] \in ToSet(chunks[x])
  <2>1. chunks[x] \in Seq(QTD) /\ chunks[x] # <<>>
    BY DEF QTDs
  <2> QED BY <2>1, <1>1, TailSet
<1>3. \A q \in Pipe : dummy'[q] = IF q = p THEN t ELSE dummy[q]
  OBVIOUS
<1>4. ASSUME NEW u \in QTD
      PROVE  \/ u \in ToSet(free)
             \/ \E y \in Transfer : Busy(y) /\ u \in ToSet(chunks[y])
             \/ \E q \in Pipe : dummy'[q] = u
  <2>1. CASE \E q \in Pipe : dummy[q] = u
    BY <2>1, <1>2, <1>3
  <2>2. CASE \E q \in Pipe, y \in Transfer : Writing(q, y, u)
    BY <2>2, <1>3
  <2> QED BY <2>1, <2>2 DEF QTDs
<1>5. \A q \in Pipe : dummy'[q] \notin ToSet(free)
  BY <1>1, <1>3 DEF QTDs
<1>6. \A q, r \in Pipe : dummy'[q] # None /\ dummy'[q] = dummy'[r] => q = r
  BY <1>1, <1>3 DEF QTDs
<1>7. \A q \in Pipe, y \in Transfer : ~(Busy(y) /\ dummy'[q] \in ToSet(chunks[y]))
  BY <1>1, <1>3 DEF QTDs
<1> QED BY <1>4, <1>5, <1>6, <1>7 DEF QTDs

(* What both ways of queueing a transaction do.                            *)
Enqueues(p, x, t) ==
  /\ p = Top.pipe /\ x = Top.x /\ t = Top.new
  /\ stack # <<>> /\ Top.at = "fill" /\ Top.op = "submit" /\ HeldBy(Top) = {x}
  /\ Frames = {Top} \cup Rest /\ BelowSubmit(Tail(stack)) /\ Top \in FrameType
  /\ \A f \in Rest : f.op # "submit" /\ f.at = "callback" /\ f.op # "link" /\ x \notin HeldBy(f)
  /\ dummy' = [dummy EXCEPT ![p] = t]
  /\ queue' = [queue EXCEPT ![p] = Append(queue[p], x)]
  /\ IsOpen(p) /\ ~Queued(x) /\ Busy(x)
  /\ OnlyWriting(p, x, t)
  /\ \A y \in Transfer : Queued(y)' <=> Queued(y) \/ y = x
  /\ \A y \in Transfer : HeldX(y) <=> y = x \/ \E f \in Rest : y \in HeldBy(f)

(* The submission that queues its transaction, and what it holds.          *)
LEMMA EnqueueIs ==
  ASSUME Core, Others, Enqueue
  PROVE  \E p \in Pipe, x \in Transfer, t \in QTD : Enqueues(p, x, t)
<1>1. stack # <<>> /\ Top.at = "fill"
  BY DEF Enqueue, Filled, Runs
<1>2. /\ Submits(Top) /\ BelowSubmit(Tail(stack)) /\ Frames = {Top} \cup Rest /\ FrameOK(Top)
      /\ Top \in FrameType /\ Top \in Frames
  BY <1>1, SubmitIs, TopIs DEF Core
<1>3. \A f \in Rest : f.op # "submit" /\ f.at = "callback" /\ f.op # "link"
  BY <1>1, <1>2, BelowIs DEF Core, Scans, Aborts
<1>4. PICK x \in Transfer : x = Top.x
  BY <1>2 DEF Submits
<1>5. PICK p \in Pipe : p = Top.pipe
  BY <1>2 DEF Submits
<1>6. PICK t \in QTD : t = Top.new
  BY <1>2 DEF Submits
<1>7. HeldBy(Top) = {x}
  BY <1>1, <1>2, <1>4 DEF Submits, HeldBy, ToSet
<1>8. \A f \in Rest : x \notin HeldBy(f)
  <2> SUFFICES ASSUME NEW f \in Rest PROVE x \notin HeldBy(f)
    OBVIOUS
  <2>1. f # Top /\ f \in Frames
    BY <1>1, <1>2, <1>3
  <2> QED BY <2>1, <1>2, <1>7 DEF Core, CallsOK
<1>9. /\ dummy' = [dummy EXCEPT ![p] = t]
      /\ queue' = [queue EXCEPT ![p] = Append(queue[p], x)]
  BY <1>4, <1>5, <1>6 DEF Enqueue
<1>10. IsOpen(p) /\ ~Queued(x) /\ Top.op = "submit"
  BY <1>2, <1>5, <1>7 DEF FrameOK, Submits
<1>11. HeldX(x)
  BY <1>2, <1>7 DEF HeldX
<1>12. OnlyWriting(p, x, t)
  BY <1>1, <1>2, <1>3, <1>4, <1>5, <1>6 DEF Writing, OnlyWriting
<1>13. \A q \in Pipe : queue[q] \in Seq(Transfer) /\ queue \in [Pipe -> Seq(Transfer)]
  BY DEF Core, Queues
<1>14. ToSet(queue'[p]) = ToSet(queue[p]) \cup {x} /\ \A q \in Pipe : q # p => queue'[q] = queue[q]
  BY <1>9, <1>13, AppendSet
<1>15. \A y \in Transfer : Queued(y)' <=> Queued(y) \/ y = x
  BY <1>14 DEF Queued
<1>16. \A y \in Transfer : HeldX(y) <=> y = x \/ \E f \in Rest : y \in HeldBy(f)
  BY <1>2, <1>7 DEF HeldX
<1>17. Busy(x)
  BY <1>11 DEF Busy
<1>18. Enqueues(p, x, t)
  BY <1>1, <1>2, <1>3, <1>4, <1>5, <1>6, <1>7, <1>8, <1>9, <1>10, <1>12, <1>15, <1>16, <1>17 DEF Enqueues
<1> QED BY <1>18

(* A transaction goes to the end of its queue.                             *)
LEMMA EnqueueQueues ==
  ASSUME Queues, NEW p \in Pipe, NEW x \in Transfer, NEW t \in QTD, IsOpen(p), ~Queued(x),
         dummy' = [dummy EXCEPT ![p] = t],
         queue' = [queue EXCEPT ![p] = Append(queue[p], x)],
         UNCHANGED open, \A q \in Pipe : Linking(q)' <=> Linking(q),
         \A y \in Transfer : status'[y] = "new" /\ Busy(y)' => Submitting(y)'
  PROVE  Queues'
<1>1. /\ queue \in [Pipe -> Seq(Transfer)] /\ dummy \in [Pipe -> QTD \cup {None}]
      /\ \A q \in Pipe : queue[q] \in Seq(Transfer) /\ Distinct(queue[q])
  BY DEF Queues
<1>2. x \notin ToSet(queue[p]) /\ \A q \in Pipe : x \notin ToSet(queue[q])
  BY DEF Queued
<1>3. /\ Append(queue[p], x) \in Seq(Transfer) /\ Distinct(Append(queue[p], x))
      /\ ToSet(Append(queue[p], x)) = ToSet(queue[p]) \cup {x}
  BY <1>1, <1>2, AppendSet
<1>4. /\ queue' \in [Pipe -> Seq(Transfer)] /\ queue'[p] = Append(queue[p], x)
      /\ \A q \in Pipe : q # p => queue'[q] = queue[q]
  BY <1>1, <1>3
<1>5. /\ dummy' \in [Pipe -> QTD \cup {None}] /\ dummy'[p] = t
      /\ \A q \in Pipe : q # p => dummy'[q] = dummy[q]
  BY <1>1
<1>6. t # None
  BY Constants
<1>7. \A q, r \in Pipe : q # r => ToSet(queue'[q]) \cap ToSet(queue'[r]) = {}
  BY <1>2, <1>3, <1>4 DEF Queues
<1>8. \A q \in Pipe : Distinct(queue'[q])
  BY <1>1, <1>3, <1>4
<1>9. \A q \in Pipe : IsOpen(q)' <=> IsOpen(q)
  BY DEF IsOpen
<1>10. \A q \in Pipe : dummy'[q] # None <=> IsOpen(q) \/ Linking(q)
  BY <1>5, <1>6 DEF Queues
<1>11. \A q \in Pipe : queue'[q] # <<>> => IsOpen(q)
  BY <1>4 DEF Queues
<1>12. open' \in Seq(Pipe) /\ Distinct(open')
  BY DEF Queues
<1> QED BY <1>4, <1>5, <1>7, <1>8, <1>9, <1>10, <1>11, <1>12 DEF Queues

(* Append1: behind others.                                                 *)
LEMMA Append1Core == ASSUME Core, Others, Append1 PROVE Core'
<1>0. Enqueue /\ Return /\ UNCHANGED <<free, open, chunks>> /\ Accept(Top.x, Top.pipe)
  BY DEF Append1
<1>z. PICK p \in Pipe, x \in Transfer, t \in QTD : Enqueues(p, x, t)
  BY <1>0, EnqueueIs
<1>1. Enqueues(p, x, t)
  BY <1>z
<1> USE DEF Enqueues
<1>2. Frames' = Rest /\ Nested'
  BY <1>0, <1>1, ReturnIs DEF Core, Nested
<1>3. \A y \in Transfer : Busy(y)' <=> Busy(y)
  BY <1>1, <1>2 DEF Busy, HeldX
<1>4. NoWriting'
  BY <1>1, <1>2 DEF Writing, NoWriting
<1>5. QTDs'
  <2>1. dummy \in [Pipe -> QTD \cup {None}] /\ QTDs
    BY DEF Core, Queues
  <2> QED BY <1>0, <1>1, <1>3, <1>4, <2>1, EnqueueQTDs
<1>6. status' = [status EXCEPT ![x] = "accepted"] /\ status \in [Transfer -> {"new", "accepted", "refused"}]
  BY <1>0, <1>1 DEF Accept, Others
<1>7. ASSUME NEW y \in Transfer, status'[y] = "new", Busy(y)' PROVE Submitting(y)'
  <2>1. y # x /\ status[y] = "new"
    BY <1>6, <1>7
  <2>2. Submitting(y)
    BY <2>1, <1>3, <1>7 DEF Core, Queues
  <2> QED BY <2>1, <2>2, <1>1, <1>2 DEF Submitting
<1>8. \A q \in Pipe : Linking(q)' <=> Linking(q)
  BY <1>1, <1>2 DEF Linking
<1>9. Queues'
  BY <1>0, <1>1, <1>7, <1>8, EnqueueQueues DEF Core
<1>10. ASSUME NEW f \in Frames' PROVE FrameOK(f)'
  <2>1. f \in Rest /\ f \in Frames /\ FrameOK(f)
    BY <1>1, <1>2 DEF Core, CallsOK
  <2>2. \A y \in HeldBy(f) : ~Queued(y)'
    <3>1. \A y \in HeldBy(f) : y # x
      BY <1>1, <2>1
    <3>2. \A y : y # x => (Queued(y)' => Queued(y))
      BY <1>1, AppendSet DEF Queued, Core, Queues
    <3> QED BY <3>1, <3>2, <2>1 DEF FrameOK
  <2> QED BY <1>0, <1>1, <2>1, <2>2 DEF FrameOK, IsOpen
<1>11. CallsOK'
  BY <1>1, <1>2, <1>10 DEF Core, CallsOK
<1> QED BY <1>2, <1>5, <1>9, <1>11 DEF Core

-----------------------------------------------------------------------------
(* AppendFirst: where there was nothing; the submission waits for the      *)
(* schedule to stop.                                                       *)
LEMMA AppendFirstCore == ASSUME Core, Others, AppendFirst PROVE Core'
<1>0. Enqueue /\ queue[Top.pipe] = <<>> /\ UNCHANGED <<free, open, chunks, status>>
  BY DEF AppendFirst, clientVars
<1>z. PICK p \in Pipe, x \in Transfer, t \in QTD : Enqueues(p, x, t)
  BY <1>0, EnqueueIs
<1>1. Enqueues(p, x, t)
  BY <1>z
<1> USE DEF Enqueues
<1>2. PICK f : f = [Top EXCEPT !.at = "check"]
  OBVIOUS
<1>3. PICK s : s = Stop("rebuild", p)
  OBVIOUS
<1>4. Call(f, s)
  BY <1>1, <1>2, <1>3 DEF AppendFirst
<1>5. /\ s \in FrameType /\ Waits(s, "rebuild") /\ s.at \in {"stopping", "stopped"}
      /\ s.op = "rebuild" /\ s.pipe = p /\ HeldBy(s) = {}
  BY <1>3, StopIs
<1>6. Submits(Top) /\ FrameOK(Top)
  BY <1>1, SubmitIs, TopIs DEF Core
<1>7. /\ f \in FrameType /\ f.at = "check" /\ f.op = "submit" /\ f.pipe = p /\ f.x = x /\ f.new = t
      /\ f.list = <<>> /\ Submits(f)
  BY <1>1, <1>2, <1>6 DEF FrameType, Points, Submits
<1>8. HeldBy(f) = {}
  BY <1>7 DEF HeldBy, ToSet
<1>9. /\ stack' \in Seq(FrameType) /\ stack' # <<>> /\ Top' = s
      /\ Head(Tail(stack')) = f /\ Tail(Tail(stack')) = Tail(stack)
      /\ Frames' = {f, s} \cup Rest
  BY <1>1, <1>4, <1>5, <1>7, CallIs DEF Core
<1>10. Shaped(stack')
  BY <1>1, <1>5, <1>7, <1>9 DEF Shaped, Above, BelowRebuild, Top
<1>11. \A y \in Transfer : Busy(y)' <=> Busy(y)
  BY <1>1, <1>5, <1>8, <1>9 DEF Busy, HeldX
<1>12. NoWriting'
  BY <1>1, <1>5, <1>7, <1>9 DEF Writing, NoWriting
<1>13. QTDs'
  <2>1. dummy \in [Pipe -> QTD \cup {None}] /\ QTDs
    BY DEF Core, Queues
  <2> QED BY <1>0, <1>1, <1>11, <1>12, <2>1, EnqueueQTDs
<1>14. ASSUME NEW y \in Transfer, status'[y] = "new", Busy(y)' PROVE Submitting(y)'
  <2>1. Submitting(y)
    BY <1>0, <1>11, <1>14 DEF Core, Queues
  <2> QED BY <2>1, <1>1, <1>7, <1>9 DEF Submitting
<1>15. \A q \in Pipe : Linking(q)' <=> Linking(q)
  BY <1>1, <1>5, <1>7, <1>9 DEF Linking
<1>16. Queues'
  BY <1>0, <1>1, <1>14, <1>15, EnqueueQueues DEF Core
<1>17. \A y : y # x => (Queued(y)' => Queued(y))
  BY <1>1, AppendSet DEF Queued, Core, Queues
<1>18. ASSUME NEW g \in Rest PROVE FrameOK(g)'
  <2>1. g \in Frames /\ FrameOK(g)
    BY <1>1 DEF Core, CallsOK
  <2>2. \A y \in HeldBy(g) : ~Queued(y)'
    BY <1>1, <1>17, <2>1 DEF FrameOK
  <2> QED BY <1>0, <1>1, <2>1, <2>2 DEF FrameOK, IsOpen
<1>19. Distinct(<<>>)
  BY DEF Distinct
<1>20. IsOpen(p)'
  BY <1>0, <1>1 DEF IsOpen
<1>21. FrameOK(s)'
  BY <1>5, <1>19, <1>20 DEF FrameOK, Waits
<1>22. queue'[p] = <<x>> /\ dummy'[p] = t
  <2>1. queue \in [Pipe -> Seq(Transfer)] /\ dummy \in [Pipe -> QTD \cup {None}]
    BY DEF Core, Queues
  <2> QED BY <1>0, <1>1, <2>1
<1>23. status'[x] = "new"
  BY <1>0, <1>1, <1>6 DEF FrameOK
<1>24. FrameOK(f)'
  BY <1>7, <1>8, <1>19, <1>20, <1>22, <1>23 DEF FrameOK
<1>25. CallsOK'
  <2>1. ASSUME NEW g \in Frames', NEW h \in Frames', g # h PROVE HeldBy(g) \cap HeldBy(h) = {}
    BY <1>1, <1>5, <1>8, <1>9, <2>1 DEF Core, CallsOK
  <2> QED BY <1>9, <1>18, <1>21, <1>24, <2>1 DEF CallsOK
<1> QED BY <1>9, <1>10, <1>13, <1>16, <1>25 DEF Core, Nested

-----------------------------------------------------------------------------
(* A queue's only transaction is taken back.                               *)
LEMMA RollBackQTDs ==
  ASSUME QTDs, NEW p \in Pipe, NEW x \in Transfer, NEW t \in QTD, Busy(x), NoWriting, NoWriting',
         dummy \in [Pipe -> QTD \cup {None}], dummy[p] = t,
         dummy' = [dummy EXCEPT ![p] = Head(chunks[x])],
         free' = <<t>> \o Reverse(Tail(chunks[x])) \o free,
         chunks' = [chunks EXCEPT ![x] = <<>>],
         \A y \in Transfer : Busy(y)' <=> Busy(y) /\ y # x
  PROVE  QTDs'
<1> USE DEF NoWriting
<1> DEFINE c == chunks[x]
<1>1. c \in Seq(QTD) /\ c # <<>> /\ Distinct(c) /\ free \in Seq(QTD) /\ Distinct(free)
      /\ ToSet(free) \cap ToSet(c) = {} /\ chunks \in [Transfer -> Seq(QTD)]
  BY DEF QTDs
<1>2. /\ Head(c) \in QTD /\ Tail(c) \in Seq(QTD) /\ ToSet(c) = {Head(c)} \cup ToSet(Tail(c))
      /\ Distinct(Tail(c)) /\ Head(c) \notin ToSet(Tail(c))
  BY <1>1, TailSet
<1> DEFINE r == Reverse(Tail(c))
<1>3. r \in Seq(QTD) /\ ToSet(r) = ToSet(Tail(c)) /\ Distinct(r)
  BY <1>2, ReverseSet
<1>4. t \notin ToSet(free) /\ \A y \in Transfer : Busy(y) => t \notin ToSet(chunks[y])
  BY DEF QTDs
<1> HIDE DEF r
<1>5. <<t>> \o r \in Seq(QTD) /\ ToSet(<<t>> \o r) = {t} \cup ToSet(r) /\ Distinct(<<t>> \o r)
  <2>1. t \notin ToSet(r)
    BY <1>2, <1>3, <1>4
  <2> QED BY <1>3, <2>1, PushSet
<1>6. /\ free' \in Seq(QTD) /\ Distinct(free')
      /\ ToSet(free') = {t} \cup ToSet(Tail(c)) \cup ToSet(free)
  <2> DEFINE m == <<t>> \o r
  <2>1. free' = m \o free
    BY DEF r
  <2>2. m \in Seq(QTD) /\ Distinct(m) /\ ToSet(m) \cap ToSet(free) = {}
    BY <1>1, <1>2, <1>3, <1>4, <1>5
  <2> HIDE DEF m
  <2>3. m \o free \in Seq(QTD) /\ ToSet(m \o free) = ToSet(m) \cup ToSet(free) /\ Distinct(m \o free)
    BY <1>1, <2>2, JoinSet
  <2>4. ToSet(m) = {t} \cup ToSet(Tail(c))
    BY <1>3, <1>5 DEF m
  <2> QED BY <2>1, <2>3, <2>4
<1>7. \A q \in Pipe : dummy'[q] = IF q = p THEN Head(c) ELSE dummy[q]
  OBVIOUS
<1>8. /\ chunks' \in [Transfer -> Seq(QTD)]
      /\ \A y \in Transfer : y # x => chunks'[y] = chunks[y]
  BY <1>1
<1> HIDE DEF c
<1>9. \A y \in Transfer : Busy(y) /\ y # x => ToSet(chunks[y]) \cap ToSet(c) = {}
  BY DEF QTDs, c
<1>10. ASSUME NEW u \in QTD
       PROVE  \/ u \in ToSet(free')
              \/ \E y \in Transfer : Busy(y)' /\ u \in ToSet(chunks'[y])
              \/ \E q \in Pipe : dummy'[q] = u
  <2>1. CASE u \in ToSet(free)
    BY <2>1, <1>6
  <2>2. CASE \E y \in Transfer : Busy(y) /\ u \in ToSet(chunks[y])
    <3>1. PICK y \in Transfer : Busy(y) /\ u \in ToSet(chunks[y])
      BY <2>2
    <3>2. CASE y = x
      BY <3>1, <3>2, <1>2, <1>6, <1>7 DEF c
    <3>3. CASE y # x
      BY <3>1, <3>3, <1>8
    <3> QED BY <3>2, <3>3
  <2>3. CASE \E q \in Pipe : dummy[q] = u
    BY <2>3, <1>6, <1>7
  <2> QED BY <2>1, <2>2, <2>3 DEF QTDs
<1>11. \A y \in Transfer : Busy(y)' => ToSet(free') \cap ToSet(chunks'[y]) = {}
  <2> SUFFICES ASSUME NEW y \in Transfer, Busy(y) /\ y # x
               PROVE  ToSet(free') \cap ToSet(chunks[y]) = {}
    BY <1>8
  <2>1. ToSet(free) \cap ToSet(chunks[y]) = {}
    BY DEF QTDs
  <2>2. t \notin ToSet(chunks[y]) /\ ToSet(chunks[y]) \cap ToSet(c) = {}
    BY <1>4, <1>9
  <2>3. ToSet(Tail(c)) \subseteq ToSet(c) /\ ToSet(free') = {t} \cup ToSet(Tail(c)) \cup ToSet(free)
    BY <1>2, <1>6
  <2> QED BY <2>1, <2>2, <2>3
<1>12. \A q \in Pipe : dummy'[q] \notin ToSet(free')
  <2> SUFFICES ASSUME NEW q \in Pipe PROVE dummy'[q] \notin ToSet(free')
    OBVIOUS
  <2>1. CASE q = p
    <3>1. Head(c) # t /\ Head(c) \notin ToSet(free)
      BY <1>1, <1>2, <1>4 DEF c
    <3> QED BY <2>1, <3>1, <1>2, <1>6, <1>7
  <2>2. CASE q # p
    <3>1. dummy[q] # t
      BY <2>2, Constants DEF QTDs
    <3>2. dummy[q] \notin ToSet(c) /\ dummy[q] \notin ToSet(free)
      BY DEF QTDs, c
    <3> QED BY <2>2, <3>1, <3>2, <1>2, <1>6, <1>7
  <2> QED BY <2>1, <2>2
<1>13. \A q, s \in Pipe : dummy'[q] # None /\ dummy'[q] = dummy'[s] => q = s
  <2>1. \A q \in Pipe : dummy[q] # Head(c)
    BY <1>2 DEF QTDs, c
  <2> QED BY <1>7, <2>1 DEF QTDs
<1>14. \A q \in Pipe, y \in Transfer : ~(Busy(y)' /\ dummy'[q] \in ToSet(chunks'[y]))
  BY <1>2, <1>7, <1>8, <1>9 DEF QTDs
<1>15. \A y \in Transfer : Busy(y)' => chunks'[y] # <<>> /\ Distinct(chunks'[y])
  BY <1>8 DEF QTDs
<1>16. \A y, z \in Transfer : Busy(y)' /\ Busy(z)' /\ y # z => ToSet(chunks'[y]) \cap ToSet(chunks'[z]) = {}
  BY <1>8 DEF QTDs
<1> QED BY <1>6, <1>8, <1>10, <1>11, <1>12, <1>13, <1>14, <1>15, <1>16 DEF QTDs

(* The qTDs of an answered transaction are free.                           *)
LEMMA ReleaseQTDs ==
  ASSUME QTDs, NEW x \in Transfer, Busy(x), NoWriting, NoWriting', UNCHANGED dummy,
         free' = Reverse(chunks[x]) \o free,
         chunks' = [chunks EXCEPT ![x] = <<>>],
         \A y \in Transfer : Busy(y)' <=> Busy(y) /\ y # x
  PROVE  QTDs'
<1> USE DEF NoWriting
<1> DEFINE c == chunks[x]
<1>1. c \in Seq(QTD) /\ Distinct(c) /\ free \in Seq(QTD) /\ Distinct(free)
      /\ ToSet(free) \cap ToSet(c) = {} /\ chunks \in [Transfer -> Seq(QTD)]
  BY DEF QTDs
<1> DEFINE r == Reverse(c)
<1>3. r \in Seq(QTD) /\ ToSet(r) = ToSet(c) /\ Distinct(r)
  BY <1>1, ReverseSet
<1> HIDE DEF r
<1>6. /\ free' \in Seq(QTD) /\ Distinct(free')
      /\ ToSet(free') = ToSet(c) \cup ToSet(free)
  <2>1. free' = r \o free
    BY DEF r
  <2>2. ToSet(r) \cap ToSet(free) = {}
    BY <1>1, <1>3
  <2>3. r \o free \in Seq(QTD) /\ ToSet(r \o free) = ToSet(r) \cup ToSet(free) /\ Distinct(r \o free)
    BY <1>1, <1>3, <2>2, JoinSet
  <2> QED BY <2>1, <2>3, <1>3
<1>8. /\ chunks' \in [Transfer -> Seq(QTD)]
      /\ \A y \in Transfer : y # x => chunks'[y] = chunks[y]
  BY <1>1
<1> HIDE DEF c
<1>9. \A y \in Transfer : Busy(y) /\ y # x => ToSet(chunks[y]) \cap ToSet(c) = {}
  BY DEF QTDs, c
<1>10. ASSUME NEW u \in QTD
       PROVE  \/ u \in ToSet(free')
              \/ \E y \in Transfer : Busy(y)' /\ u \in ToSet(chunks'[y])
              \/ \E q \in Pipe : dummy'[q] = u
  <2>1. CASE u \in ToSet(free)
    BY <2>1, <1>6
  <2>2. CASE \E y \in Transfer : Busy(y) /\ u \in ToSet(chunks[y])
    <3>1. PICK y \in Transfer : Busy(y) /\ u \in ToSet(chunks[y])
      BY <2>2
    <3>2. CASE y = x
      BY <3>1, <3>2, <1>6 DEF c
    <3>3. CASE y # x
      BY <3>1, <3>3, <1>8
    <3> QED BY <3>2, <3>3
  <2> QED BY <2>1, <2>2 DEF QTDs
<1>11. \A y \in Transfer : Busy(y)' => ToSet(free') \cap ToSet(chunks'[y]) = {}
  <2> SUFFICES ASSUME NEW y \in Transfer, Busy(y) /\ y # x
               PROVE  ToSet(free') \cap ToSet(chunks[y]) = {}
    BY <1>8
  <2> QED BY <1>6, <1>9 DEF QTDs
<1>12. \A q \in Pipe : dummy'[q] \notin ToSet(free')
  BY <1>6 DEF QTDs, c
<1>14. \A q \in Pipe, y \in Transfer : ~(Busy(y)' /\ dummy'[q] \in ToSet(chunks'[y]))
  BY <1>8 DEF QTDs
<1>15. \A y \in Transfer : Busy(y)' => chunks'[y] # <<>> /\ Distinct(chunks'[y])
  BY <1>8 DEF QTDs
<1>16. \A y, z \in Transfer : Busy(y)' /\ Busy(z)' /\ y # z => ToSet(chunks'[y]) \cap ToSet(chunks'[z]) = {}
  BY <1>8 DEF QTDs
<1> QED BY <1>6, <1>8, <1>10, <1>11, <1>12, <1>14, <1>15, <1>16 DEF QTDs

(* A new transaction takes the dummy and some of the free qTDs.            *)
LEMMA SubmitQTDs ==
  ASSUME QTDs, NEW p \in Pipe, NEW x \in Transfer, ~Busy(x), NEW n \in 1 .. Len(free),
         dummy \in [Pipe -> QTD \cup {None}], dummy[p] # None, UNCHANGED dummy,
         NEW t, t = free[n], NoWriting, OnlyWriting(p, x, t)',
         chunks' = [chunks EXCEPT ![x] = <<dummy[p]>> \o SubSeq(free, 1, n - 1)],
         free' = SubSeq(free, n + 1, Len(free)),
         \A y \in Transfer : Busy(y)' <=> Busy(y) \/ y = x
  PROVE  QTDs'
<1> USE DEF NoWriting, OnlyWriting
<1> DEFINE a == SubSeq(free, 1, n - 1)
           d == dummy[p]
           c == <<d>> \o a
<1>1. free \in Seq(QTD) /\ Distinct(free) /\ chunks \in [Transfer -> Seq(QTD)]
  BY DEF QTDs
<1>2. /\ a \in Seq(QTD) /\ free' \in Seq(QTD) /\ t \in QTD
      /\ Distinct(a) /\ Distinct(free')
      /\ ToSet(free) = ToSet(a) \cup {t} \cup ToSet(free')
      /\ ToSet(a) \cap ToSet(free') = {}
      /\ t \notin ToSet(a) \cup ToSet(free')
  BY <1>1, CutSet
<1> HIDE DEF a
<1>3. d \in QTD /\ d \notin ToSet(free)
  BY DEF QTDs
<1>4. c \in Seq(QTD) /\ c # <<>> /\ Head(c) = d /\ ToSet(c) = {d} \cup ToSet(a) /\ Distinct(c)
  <2>1. d \notin ToSet(a)
    BY <1>2, <1>3
  <2> HIDE DEF d
  <2> QED BY <1>2, <1>3, <2>1, PushSet
<1>5. chunks' = [chunks EXCEPT ![x] = c]
  BY DEF a
<1> HIDE DEF c, d
<1>6. /\ chunks' \in [Transfer -> Seq(QTD)] /\ chunks'[x] = c
      /\ \A y \in Transfer : y # x => chunks'[y] = chunks[y]
  BY <1>1, <1>4, <1>5
<1>7. ASSUME NEW y \in Transfer, Busy(y)
      PROVE  /\ y # x /\ chunks'[y] = chunks[y] /\ t \notin ToSet(chunks[y])
             /\ ToSet(free') \cap ToSet(chunks[y]) = {} /\ ToSet(c) \cap ToSet(chunks[y]) = {}
  <2>1. ToSet(free) \cap ToSet(chunks[y]) = {} /\ d \notin ToSet(chunks[y])
    BY <1>7 DEF QTDs, d
  <2> QED BY <1>2, <1>4, <1>6, <1>7, <2>1
<1>8. ASSUME NEW u \in QTD
      PROVE  \/ u \in ToSet(free')
             \/ \E y \in Transfer : Busy(y)' /\ u \in ToSet(chunks'[y])
             \/ \E q \in Pipe : dummy'[q] = u
             \/ \E q \in Pipe, y \in Transfer : Writing(q, y, u)'
  <2>1. CASE u \in ToSet(free)
    <3>1. u \in ToSet(a) => u \in ToSet(chunks'[x])
      BY <1>4, <1>6
    <3>2. u = t => Writing(p, x, u)'
      OBVIOUS
    <3> QED BY <2>1, <3>1, <3>2, <1>2
  <2>2. CASE \E y \in Transfer : Busy(y) /\ u \in ToSet(chunks[y])
    BY <2>2, <1>7
  <2>3. CASE \E q \in Pipe : dummy[q] = u
    BY <2>3
  <2>4. \/ u \in ToSet(free)
        \/ \E y \in Transfer : Busy(y) /\ u \in ToSet(chunks[y])
        \/ \E q \in Pipe : dummy[q] = u
    BY DEF QTDs
  <2> QED BY <2>1, <2>2, <2>3, <2>4
<1>9. \A q \in Pipe : dummy'[q] \notin ToSet(free')
  BY <1>2 DEF QTDs
<1>10. /\ t \notin ToSet(free')
       /\ \A y \in Transfer : Busy(y)' => t \notin ToSet(chunks'[y])
       /\ \A q \in Pipe : t # dummy'[q]
       /\ dummy'[p] = Head(chunks'[x])
  <2>1. t \notin ToSet(c)
    BY <1>2, <1>3, <1>4
  <2>2. \A q \in Pipe : t # dummy[q]
    BY <1>2 DEF QTDs
  <2> QED BY <1>2, <1>4, <1>6, <1>7, <2>1, <2>2 DEF d
<1>11. \A y \in Transfer : Busy(y)' => /\ chunks'[y] # <<>> /\ Distinct(chunks'[y])
                                       /\ ToSet(free') \cap ToSet(chunks'[y]) = {}
  <2>1. ToSet(free') \cap ToSet(c) = {}
    BY <1>2, <1>3, <1>4
  <2> QED BY <1>4, <1>6, <1>7, <2>1 DEF QTDs
<1>12. \A y, z \in Transfer : Busy(y)' /\ Busy(z)' /\ y # z => ToSet(chunks'[y]) \cap ToSet(chunks'[z]) = {}
  BY <1>6, <1>7 DEF QTDs
<1>13. ASSUME NEW q \in Pipe, NEW y \in Transfer, Busy(y)', dummy'[q] \in ToSet(chunks'[y])
       PROVE  \E u \in QTD : Writing(q, y, u)'
  <2>1. y = x
    BY <1>7, <1>13 DEF QTDs
  <2>2. q = p
    <3>1. dummy[q] \notin ToSet(free)
      BY DEF QTDs
    <3>2. dummy[q] = d
      BY <1>2, <1>4, <1>6, <1>13, <2>1, <3>1
    <3> QED BY <3>2 DEF QTDs, d
  <2> QED BY <1>2, <2>1, <2>2
<1>14. \A q \in Pipe, y \in Transfer, u \in QTD : Writing(q, y, u)' =>
         /\ u \notin ToSet(free')
         /\ \A z \in Transfer : Busy(z)' => u \notin ToSet(chunks'[z])
         /\ \A r \in Pipe : u # dummy'[r]
         /\ dummy'[q] = Head(chunks'[y])
  BY <1>10
<1>15. \A q, r \in Pipe : dummy'[q] # None /\ dummy'[q] = dummy'[r] => q = r
  BY DEF QTDs
<1>16. \A y \in Transfer : Busy(y)' => chunks'[y] # <<>> /\ Distinct(chunks'[y])
  BY <1>11
<1>17. \A y \in Transfer : Busy(y)' => ToSet(free') \cap ToSet(chunks'[y]) = {}
  BY <1>11
<1>18. \A q \in Pipe, y \in Transfer :
         Busy(y)' /\ dummy'[q] \in ToSet(chunks'[y]) => \E u \in QTD : Writing(q, y, u)'
  BY <1>13
<1>19. \A u \in QTD : \/ u \in ToSet(free')
                      \/ \E y \in Transfer : Busy(y)' /\ u \in ToSet(chunks'[y])
                      \/ \E q \in Pipe : dummy'[q] = u
                      \/ \E q \in Pipe, y \in Transfer : Writing(q, y, u)'
  BY <1>8
<1>20. free' \in Seq(QTD) /\ Distinct(free') /\ chunks' \in [Transfer -> Seq(QTD)]
  BY <1>2, <1>6
<1> HIDE DEF NoWriting, OnlyWriting
<1> QED BY <1>20, <1>16, <1>19, <1>17, <1>9, <1>14, <1>12, <1>15, <1>18, Zenon DEF QTDs

-----------------------------------------------------------------------------
(* A client may submit when no submission is under way.                    *)
LEMMA MaySubmitIs ==
  ASSUME Core, NEW x \in Transfer, MaySubmit(x)
  PROVE  /\ status[x] = "new" /\ ~Busy(x) /\ BelowSubmit(stack) /\ NoWriting
         /\ \A f \in Frames : f.op \notin {"submit", "link"} /\ f.at = "callback"
<1>1. /\ \A f \in Frames : f.op \notin {"submit", "link"} /\ f.at = "callback"
      /\ BelowSubmit(stack)
  <2>1. CASE stack = <<>>
    BY <2>1, EmptyIs DEF BelowSubmit
  <2>2. CASE stack # <<>>
    <3>1. Top.at = "callback"
      BY <2>2 DEF MaySubmit, Runs
    <3>2. (Scans(Top) \/ Aborts(Top)) /\ Tail(stack) = <<>>
      BY <2>2, <3>1, CallbackIs DEF Core
    <3>3. Frames = {Top}
      BY <2>2, <3>2, RestIs DEF Core
    <3> QED BY <3>1, <3>2, <3>3 DEF BelowSubmit, Top, Scans, Aborts
  <2> QED BY <2>1, <2>2
<1>2. status[x] = "new"
  BY DEF MaySubmit
<1>3. ~Busy(x)
  BY <1>1, <1>2 DEF Core, Queues, Submitting
<1>4. NoWriting
  BY <1>1 DEF NoWriting, Writing
<1> QED BY <1>1, <1>2, <1>3, <1>4

(* Submit: a transaction is made of the dummy and free qTDs.               *)
LEMMA SubmitCore ==
  ASSUME Core, Others, NEW x \in Transfer, NEW p \in Pipe, NEW n \in 1 .. MaxChunks, Submit(x, p, n)
  PROVE  Core'
<1>1. /\ status[x] = "new" /\ ~Busy(x) /\ BelowSubmit(stack) /\ NoWriting
      /\ \A f \in Frames : f.op \notin {"submit", "link"} /\ f.at = "callback"
  BY MaySubmitIs DEF Submit
<1>2. free \in Seq(QTD) /\ Len(free) >= n /\ IsOpen(p) /\ UNCHANGED <<open, dummy, queue, status>>
  BY DEF Submit, Core, QTDs, clientVars
<1>3. PICK m \in Nat : m = Len(free)
  BY <1>2, LengthIs
<1>4. n \in 1 .. Len(free)
  BY <1>2, <1>3, Constants
<1>5. PICK t \in QTD : t = free[n]
  BY <1>2, <1>4
<1>6. PICK g : g = [Frame("fill", "submit", p) EXCEPT !.x = x, !.new = t]
  OBVIOUS
<1>7. g = [at |-> "fill", op |-> "submit", pipe |-> p, x |-> x, how |-> "none",
           list |-> <<>>, left |-> <<>>, filled |-> 0, new |-> t]
  BY <1>6 DEF Frame
<1>8. g \in FrameType
  <2>1. <<>> \in Seq(Transfer) /\ <<>> \in Seq(Pipe) /\ 0 \in 0..MaxChunks
    BY Constants
  <2> QED BY <1>7, <2>1 DEF FrameType, Points, Calls
<1>9. HeldBy(g) = {x} /\ Submits(g) /\ g.list = <<>>
  BY <1>7 DEF HeldBy, ToSet, Submits
<1>10. stack' = <<g>> \o stack
  BY <1>5, <1>6 DEF Submit
<1>11. /\ stack' \in Seq(FrameType) /\ stack' # <<>> /\ Top' = g /\ Tail(stack') = stack
       /\ Frames' = {g} \cup Frames
  BY <1>8, <1>10, PushedIs DEF Core
<1>12. Shaped(stack')
  BY <1>1, <1>9, <1>11 DEF Shaped, Above, Top
<1>13. \A y \in Transfer : Busy(y)' <=> Busy(y) \/ y = x
  BY <1>2, <1>9, <1>11 DEF Busy, Queued, HeldX
<1>14. OnlyWriting(p, x, t)'
  BY <1>1, <1>7, <1>11 DEF OnlyWriting, Writing
<1>15. dummy \in [Pipe -> QTD \cup {None}] /\ dummy[p] # None
  BY <1>2 DEF Core, Queues
<1>16. /\ chunks' = [chunks EXCEPT ![x] = <<dummy[p]>> \o SubSeq(free, 1, n - 1)]
       /\ free' = SubSeq(free, n + 1, Len(free))
  BY DEF Submit
<1>17. QTDs'
  BY <1>1, <1>2, <1>4, <1>5, <1>13, <1>14, <1>15, <1>16, SubmitQTDs DEF Core
<1>18. \A q \in Pipe : Linking(q)' <=> Linking(q)
  BY <1>7, <1>11 DEF Linking
<1>19. \A q \in Pipe : IsOpen(q)' <=> IsOpen(q)
  BY <1>2 DEF IsOpen
<1>20. \A y \in Transfer : status'[y] = "new" /\ Busy(y)' => Submitting(y)'
  <2>1. Submitting(x)'
    BY <1>7, <1>11 DEF Submitting
  <2>2. \A y \in Transfer : Submitting(y) => Submitting(y)'
    BY <1>11 DEF Submitting
  <2> QED BY <1>2, <1>13, <2>1, <2>2 DEF Core, Queues
<1>21. Queues'
  BY <1>2, <1>18, <1>19, <1>20 DEF Core, Queues
<1>22. /\ chunks'[x] \in Seq(QTD) /\ Len(chunks'[x]) = n
  <2>1. SubSeq(free, 1, n - 1) \in Seq(QTD) /\ Len(SubSeq(free, 1, n - 1)) = n - 1
    BY <1>2, <1>4, CutSet DEF Core, QTDs
  <2>2. dummy[p] \in QTD
    BY <1>15
  <2>3. chunks'[x] = <<dummy[p]>> \o SubSeq(free, 1, n - 1)
    BY <1>16 DEF Core, QTDs
  <2> HIDE DEF Core
  <2>4. PICK a \in Seq(QTD) : a = SubSeq(free, 1, n - 1) /\ Len(a) = n - 1
    BY <2>1
  <2> QED BY <2>2, <2>3, <2>4
<1>23. FrameOK(g)'
  <2>1. ~Queued(x)'
    BY <1>1, <1>2 DEF Busy, Queued
  <2>2. Distinct(<<>>)
    BY DEF Distinct
  <2>3. 0 <= Len(chunks'[x]) /\ Len(chunks'[x]) <= MaxChunks
    BY <1>22, Constants
  <2> QED BY <1>1, <1>2, <1>7, <1>9, <1>19, <2>1, <2>2, <2>3 DEF FrameOK
<1>24. ASSUME NEW f \in Frames PROVE FrameOK(f)'
  BY <1>1, <1>2 DEF Core, CallsOK, FrameOK, IsOpen, Queued
<1>25. \A f \in Frames : x \notin HeldBy(f)
  BY <1>1 DEF Busy, HeldX
<1>26. CallsOK'
  BY <1>9, <1>11, <1>23, <1>24, <1>25 DEF Core, CallsOK
<1> QED BY <1>11, <1>12, <1>17, <1>21, <1>26 DEF Core, Nested

(* SubmitFails: what was taken from the pool goes back.                    *)
LEMMA SubmitFailsCore ==
  ASSUME Core, Others, NEW x \in Transfer, NEW p \in Pipe, NEW n \in 1 .. MaxChunks, SubmitFails(x, p, n)
  PROVE  Core'
<1>1. /\ ~Busy(x)
      /\ \A f \in Frames : f.op \notin {"submit", "link"} /\ f.at = "callback"
  BY MaySubmitIs DEF SubmitFails
<1>2. UNCHANGED <<open, dummy, queue, chunks, stack>> /\ free' = Reverse(free)
  BY DEF SubmitFails
<1>3. status' = [status EXCEPT ![x] = "refused"] /\ status \in [Transfer -> {"new", "accepted", "refused"}]
  BY DEF SubmitFails, Others
<1>4. \A y \in Transfer : status'[y] = "new" => status[y] = "new"
  BY <1>3
<1>5. Frames' = Frames
  BY <1>2 DEF Frames
<1>6. \A y \in Transfer : Busy(y)' <=> Busy(y)
  BY <1>2, <1>5 DEF Busy, Queued, HeldX
<1>7. \A q \in Pipe, y \in Transfer, u \in QTD : Writing(q, y, u)' <=> Writing(q, y, u)
  BY <1>5 DEF Writing
<1>8. free' \in Seq(QTD) /\ Distinct(free') /\ ToSet(free') = ToSet(free)
  BY <1>2, ReverseSet DEF Core, QTDs
<1>9. QTDs'
  BY <1>2, <1>6, <1>7, <1>8 DEF Core, QTDs
<1>10. \A y \in Transfer : Submitting(y)' <=> Submitting(y)
  BY <1>5 DEF Submitting
<1>11. \A q \in Pipe : (IsOpen(q)' <=> IsOpen(q)) /\ (Linking(q)' <=> Linking(q))
  BY <1>2, <1>5 DEF IsOpen, Linking
<1>12. Queues'
  BY <1>2, <1>4, <1>6, <1>10, <1>11 DEF Core, Queues
<1>13. ASSUME NEW f \in Frames PROVE FrameOK(f)'
  BY <1>1, <1>2 DEF Core, CallsOK, FrameOK, IsOpen, Queued
<1>14. CallsOK'
  BY <1>5, <1>13 DEF Core, CallsOK
<1>15. Nested'
  BY <1>2 DEF Core, Nested
<1> QED BY <1>9, <1>12, <1>14, <1>15 DEF Core

(* RollBack: the first qTD is the dummy again, the others are free.        *)
LEMMA RollBackCore == ASSUME Core, Others, RollBack PROVE Core'
<1>1. stack # <<>> /\ Top.at = "check" /\ Return /\ UNCHANGED open
  BY DEF RollBack, Runs
<1>2. /\ Submits(Top) /\ BelowSubmit(Tail(stack)) /\ Frames = {Top} \cup Rest /\ Frames' = Rest
      /\ FrameOK(Top)
  BY <1>1, SubmitIs, TopIs, ReturnIs DEF Core
<1>3. \A f \in Rest : f.op \notin {"submit", "link"} /\ f.at = "callback"
  BY <1>1, <1>2, BelowIs DEF Core, Scans, Aborts
<1>4. PICK x \in Transfer : x = Top.x
  BY <1>2 DEF Submits
<1>5. PICK p \in Pipe : p = Top.pipe
  BY <1>2 DEF Submits
<1>6. PICK t \in QTD : t = Top.new
  BY <1>2 DEF Submits
<1>7. queue[p] = <<x>> /\ dummy[p] = t /\ IsOpen(p)
  BY <1>1, <1>2, <1>4, <1>5, <1>6 DEF FrameOK, Submits
<1>8. /\ queue' = [queue EXCEPT ![p] = <<>>]
      /\ dummy' = [dummy EXCEPT ![p] = Head(chunks[x])]
      /\ free' = <<t>> \o Reverse(Tail(chunks[x])) \o free
      /\ chunks' = [chunks EXCEPT ![x] = <<>>]
      /\ status' = [status EXCEPT ![x] = "refused"]
  BY <1>4, <1>5, <1>6 DEF RollBack
<1>9. /\ queue \in [Pipe -> Seq(Transfer)] /\ dummy \in [Pipe -> QTD \cup {None}]
      /\ status \in [Transfer -> {"new", "accepted", "refused"}]
      /\ chunks \in [Transfer -> Seq(QTD)]
  BY DEF Core, Queues, QTDs, Others
<1>10. ToSet(<<x>>) = {x} /\ ToSet(<<>>) = {}
  BY DEF ToSet
<1>11. HeldBy(Top) = {}
  BY <1>1, <1>2, <1>10 DEF Submits, HeldBy
<1>12. Queued(x)
  BY <1>7, <1>10 DEF Queued
<1>13. \A q \in Pipe : q # p => x \notin ToSet(queue[q])
  BY <1>7, <1>10 DEF Core, Queues
<1>14. \A q \in Pipe : queue'[q] = IF q = p THEN <<>> ELSE queue[q]
  BY <1>8, <1>9
<1>15. \A y : Queued(y)' <=> Queued(y) /\ y # x
  BY <1>7, <1>10, <1>13, <1>14 DEF Queued
<1>16. \A f \in Frames : x \notin HeldBy(f)
  BY <1>12 DEF Core, CallsOK, FrameOK
<1>17. \A y \in Transfer : Busy(y)' <=> Busy(y) /\ y # x
  BY <1>2, <1>11, <1>15, <1>16 DEF Busy, HeldX
<1>18. NoWriting /\ NoWriting'
  BY <1>1, <1>2, <1>3 DEF NoWriting, Writing
<1>19. QTDs'
  <2>1. Busy(x)
    BY <1>12 DEF Busy
  <2> QED BY <1>7, <1>8, <1>9, <1>17, <1>18, <2>1, RollBackQTDs DEF Core
<1>20. \A y \in Transfer : status'[y] = "new" => y # x /\ status[y] = "new"
  BY <1>8, <1>9
<1>21. \A y \in Transfer : status'[y] = "new" /\ Busy(y)' => Submitting(y)'
  <2> SUFFICES ASSUME NEW y \in Transfer, status'[y] = "new", Busy(y)' PROVE Submitting(y)'
    OBVIOUS
  <2>1. y # x /\ Submitting(y)
    BY <1>17, <1>20 DEF Core, Queues
  <2> QED BY <2>1, <1>2, <1>4 DEF Submitting
<1>22. \A q \in Pipe : (IsOpen(q)' <=> IsOpen(q)) /\ (Linking(q)' <=> Linking(q))
  BY <1>1, <1>2 DEF IsOpen, Linking, Submits
<1>23. Queues'
  <2>1. Head(chunks[x]) \in QTD
    <3>1. chunks[x] \in Seq(QTD) /\ chunks[x] # <<>>
      BY <1>9, <1>12 DEF Core, QTDs, Busy
    <3> QED BY <3>1
  <2>2. /\ dummy' \in [Pipe -> QTD \cup {None}]
        /\ \A q \in Pipe : dummy'[q] # None <=> dummy[q] # None
    BY <1>7, <1>8, <1>9, <2>1, Constants
  <2>3. queue' \in [Pipe -> Seq(Transfer)]
    <3>1. <<>> \in Seq(Transfer)
      OBVIOUS
    <3> QED BY <1>8, <1>9, <3>1
  <2>4. \A q \in Pipe : Distinct(queue'[q])
    BY <1>14 DEF Core, Queues, Distinct
  <2>5. \A q, r \in Pipe : q # r => ToSet(queue'[q]) \cap ToSet(queue'[r]) = {}
    BY <1>10, <1>14 DEF Core, Queues
  <2>6. \A q \in Pipe : queue'[q] # <<>> => IsOpen(q)
    BY <1>14 DEF Core, Queues
  <2>7. open' \in Seq(Pipe) /\ Distinct(open')
    BY <1>1 DEF Core, Queues
  <2>8. \A q \in Pipe : dummy'[q] # None <=> IsOpen(q) \/ Linking(q)
    BY <2>2 DEF Core, Queues
  <2> QED BY <1>21, <1>22, <2>2, <2>3, <2>4, <2>5, <2>6, <2>7, <2>8 DEF Queues
<1>24. ASSUME NEW f \in Frames' PROVE FrameOK(f)'
  BY <1>1, <1>2, <1>3, <1>15 DEF Core, CallsOK, FrameOK, IsOpen
<1>25. CallsOK'
  BY <1>2, <1>24 DEF Core, CallsOK
<1>26. Nested'
  BY <1>1, ReturnIs DEF Core, Nested
<1> QED BY <1>19, <1>23, <1>25, <1>26 DEF Core

-----------------------------------------------------------------------------
(* CallbackReturns: the answered transaction is released.                  *)
LEMMA CallbackReturnsCore == ASSUME Core, CallbackReturns PROVE Core'
<1>1. /\ stack # <<>> /\ Top.at = "callback" /\ UNCHANGED <<open, dummy, queue, status>>
  BY DEF CallbackReturns, Runs, clientVars
<1>2. /\ Scans(Top) \/ Aborts(Top)
      /\ Tail(stack) = <<>> /\ Top.x \in Transfer /\ Top \in FrameType /\ FrameOK(Top)
      /\ Frames = {Top} /\ Rest = {}
  BY <1>1, CallbackIs, TopIs, RestIs DEF Core
<1>3. PICK x \in Transfer : x = Top.x
  BY <1>2
<1>4. PICK g : g = [Top EXCEPT !.at = IF Top.op = "scan" THEN "scan" ELSE "abort",
                               !.x = None, !.how = "none", !.left = open]
  OBVIOUS
<1>5. /\ free' = Reverse(chunks[x]) \o free
      /\ chunks' = [chunks EXCEPT ![x] = <<>>]
      /\ Goto(g)
  BY <1>3, <1>4 DEF CallbackReturns, Release
<1>6. open \in Seq(Pipe)
  BY DEF Core, Queues
<1>7. /\ g \in FrameType /\ g.op = Top.op /\ g.pipe = Top.pipe /\ g.list = Top.list /\ g.x = None
      /\ g.at = IF Top.op = "scan" THEN "scan" ELSE "abort"
  BY <1>2, <1>4, <1>6 DEF FrameType, Points
<1>8. HeldBy(Top) = {x} \cup ToSet(Top.list) /\ HeldBy(g) = ToSet(Top.list)
  BY <1>1, <1>3, <1>7 DEF HeldBy
<1>9. x \notin ToSet(Top.list) /\ ~Queued(x) /\ (\A y \in HeldBy(Top) : ~Queued(y)) /\ Distinct(Top.list)
  BY <1>1, <1>2, <1>3, <1>8 DEF FrameOK
<1>10. /\ stack' \in Seq(FrameType) /\ stack' # <<>> /\ Top' = g /\ Tail(stack') = <<>>
       /\ Frames' = {g}
  BY <1>1, <1>2, <1>5, <1>7, GotoIs DEF Core
<1>11. Above(g, <<>>)
  BY <1>2, <1>7 DEF Above, Scans, Aborts
<1>12. Shaped(stack')
  BY <1>10, <1>11 DEF Shaped, Top
<1>13. \A y \in Transfer : Busy(y)' <=> Busy(y) /\ y # x
  BY <1>1, <1>2, <1>8, <1>9, <1>10 DEF Busy, Queued, HeldX
<1>14. NoWriting /\ NoWriting'
  BY <1>1, <1>2, <1>7, <1>10 DEF NoWriting, Writing
<1>15. QTDs'
  <2>1. Busy(x)
    BY <1>2, <1>8 DEF Busy, HeldX
  <2> QED BY <1>1, <1>5, <1>13, <1>14, <2>1, ReleaseQTDs DEF Core
<1>16. g.op \in {"scan", "abort", "delete"} /\ Top.op \in {"scan", "abort", "delete"}
  BY <1>2, <1>7 DEF Scans, Aborts
<1>17. /\ \A y \in Transfer : Submitting(y) => Submitting(y)'
       /\ \A p \in Pipe : IsOpen(p) \/ Linking(p)' <=> IsOpen(p) \/ Linking(p)
  BY <1>2, <1>10, <1>16 DEF Submitting, Linking
<1>18. Queues'
  BY <1>1, <1>13, <1>17, QueuesKeep DEF Core
<1>19. FrameOK(g)'
  <2>1. \A y \in HeldBy(g) : ~Queued(y)'
    BY <1>1, <1>8, <1>9 DEF Queued
  <2> QED BY <1>1, <1>2, <1>7, <1>9, <1>16, <2>1 DEF FrameOK, IsOpen
<1>20. CallsOK'
  BY <1>10, <1>19 DEF CallsOK
<1> QED BY <1>10, <1>12, <1>15, <1>18, <1>20 DEF Core, Nested

(* Abort: the queue becomes the list of the call.                          *)
LEMMA AbortCore ==
  ASSUME Core, Others, NEW p \in Pipe, NEW op \in {"abort", "delete"}, Abort(p, op)
  PROVE  Core'
<1>1. /\ stack = <<>> /\ IsOpen(p) /\ UNCHANGED <<open, dummy, status, chunks, free>>
      /\ queue' = [queue EXCEPT ![p] = <<>>]
  BY DEF Abort
<1>2. PICK s : s = Stop("rebuild", p)
  OBVIOUS
<1>3. PICK a : a = [Frame("abort", op, p) EXCEPT !.list = queue[p]]
  OBVIOUS
<1>4. stack' = <<s>> \o <<a>>
  BY <1>2, <1>3 DEF Abort
<1>5. /\ s \in FrameType /\ Waits(s, "rebuild") /\ s.at \in {"stopping", "stopped"}
      /\ s.op = "rebuild" /\ s.pipe = p /\ HeldBy(s) = {}
  BY <1>2, StopIs
<1>6. queue \in [Pipe -> Seq(Transfer)] /\ queue[p] \in Seq(Transfer) /\ Distinct(queue[p])
  BY DEF Core, Queues
<1>7. a = [at |-> "abort", op |-> op, pipe |-> p, x |-> None, how |-> "none",
           list |-> queue[p], left |-> <<>>, filled |-> 0, new |-> None]
  BY <1>3 DEF Frame
<1>8. a \in FrameType
  <2>1. <<>> \in Seq(Pipe) /\ 0 \in 0..MaxChunks
    BY Constants
  <2>2. op \in Calls /\ "abort" \in Points
    BY DEF Calls, Points
  <2> QED BY <1>6, <1>7, <2>1, <2>2 DEF FrameType
<1>9. HeldBy(a) = ToSet(queue[p]) /\ Aborts(a)
  BY <1>7 DEF HeldBy, Aborts
<1>10. <<a>> \in Seq(FrameType) /\ ToSet(<<a>>) = {a}
  BY <1>8 DEF ToSet
<1>11. /\ stack' \in Seq(FrameType) /\ stack' # <<>> /\ Head(stack') = s /\ Tail(stack') = <<a>>
       /\ ToSet(stack') = {s, a}
  <2>1. s \in FrameType /\ <<a>> \in Seq(FrameType)
    BY <1>5, <1>10
  <2> DEFINE m == <<s>> \o <<a>>
  <2>2. /\ m \in Seq(FrameType) /\ m # <<>> /\ Head(m) = s /\ Tail(m) = <<a>>
        /\ ToSet(m) = {s} \cup ToSet(<<a>>)
    BY <2>1, PushSet
  <2>3. stack' = m
    BY <1>4
  <2> QED BY <1>10, <2>2, <2>3
<1>12. Frames' = {s, a}
  BY <1>11 DEF Frames
<1>13. Shaped(stack')
  <2>1. Head(<<a>>) = a /\ Tail(<<a>>) = <<>>
    OBVIOUS
  <2>2. BelowRebuild(<<a>>, p)
    BY <1>7, <1>9, <2>1 DEF BelowRebuild
  <2> QED BY <1>5, <1>11, <2>2 DEF Shaped, Above
<1>14. Frames = {}
  BY <1>1, EmptyIs
<1>15. ToSet(<<>>) = {} /\ Distinct(<<>>) /\ <<>> \in Seq(Transfer)
  BY DEF ToSet, Distinct
<1>16. \A q \in Pipe : queue'[q] = IF q = p THEN <<>> ELSE queue[q]
  BY <1>1, <1>6
<1>17. \A y : Queued(y)' <=> Queued(y) /\ y \notin ToSet(queue[p])
  BY <1>15, <1>16 DEF Queued, Core, Queues
<1>18. \A y \in Transfer : Busy(y)' <=> Busy(y)
  BY <1>5, <1>9, <1>12, <1>14, <1>17 DEF Busy, HeldX, Queued
<1>19. \A q \in Pipe, y \in Transfer, u \in QTD : Writing(q, y, u)' <=> Writing(q, y, u)
  BY <1>5, <1>7, <1>12, <1>14 DEF Writing
<1>20. QTDs'
  BY <1>1, <1>18, <1>19, QTDsKeep DEF Core
<1>21. \A y \in Transfer : ~Submitting(y)
  BY <1>14 DEF Submitting
<1>22. \A q \in Pipe : (IsOpen(q)' <=> IsOpen(q)) /\ (Linking(q)' <=> Linking(q))
  BY <1>1, <1>5, <1>7, <1>12, <1>14 DEF IsOpen, Linking
<1>23. queue' \in [Pipe -> Seq(Transfer)] /\ \A q \in Pipe : Distinct(queue'[q])
  BY <1>1, <1>6, <1>15, <1>16 DEF Core, Queues
<1>24. \A q, r \in Pipe : q # r => ToSet(queue'[q]) \cap ToSet(queue'[r]) = {}
  BY <1>15, <1>16 DEF Core, Queues
<1>25. Queues'
  BY <1>1, <1>16, <1>18, <1>21, <1>22, <1>23, <1>24 DEF Core, Queues
<1>26. FrameOK(s)'
  BY <1>1, <1>5, <1>15, <1>22 DEF FrameOK, Waits
<1>27. FrameOK(a)'
  <2>1. \A y \in HeldBy(a) : ~Queued(y)'
    BY <1>9, <1>17
  <2> QED BY <1>1, <1>6, <1>7, <1>22, <2>1 DEF FrameOK
<1>28. CallsOK'
  BY <1>5, <1>12, <1>26, <1>27 DEF CallsOK
<1> QED BY <1>11, <1>13, <1>20, <1>25, <1>28 DEF Core, Nested

(* What an evaluated transaction is answered with.                         *)
LEMMA EvaluateIs ==
  ASSUME NEW x, Evaluate(x).how # "pending"
  PROVE  Evaluate(x).how \in {"ok", "error"}
<1> DEFINE cs   == chunks[x]
           Op   == {i \in DOMAIN cs : mem[cs[i]].token \in {"active", "error"}}
           i    == CHOOSE j \in Op : \A k \in Op : j <= k
           A    == Op # {} /\ mem[cs[i]].token = "error"
           S    == mem[cs[Len(cs)]].token = "short"
           B    == /\ Op # {} /\ mem[cs[i]].token = "active" /\ i > 1
                   /\ mem[cs[i - 1]].token = "short"
<1>1. Evaluate(x) = CASE Op = {} -> [how |-> "ok", repair |-> S]
                      [] A -> [how |-> "error", repair |-> TRUE]
                      [] B -> [how |-> "ok", repair |-> TRUE]
                      [] OTHER -> [how |-> "pending", repair |-> FALSE]
  BY DEF Evaluate
<1> HIDE DEF A, B, S, i
<1>2. CASE Op = {}
  <2>1. ~A /\ ~B
    BY <1>2 DEF A, B
  <2> HIDE DEF Op
  <2> QED BY <1>1, <1>2, <2>1
<1>3. CASE Op # {}
  <2>1. ~(A /\ B)
    BY DEF A, B
  <2> HIDE DEF Op
  <2> QED BY <1>1, <1>3, <2>1
<1> QED BY <1>2, <1>3

(* ScanCompletes: the scan takes the first transaction out of its queue.   *)
LEMMA ScanCompletesCore == ASSUME Core, Others, ScanCompletes PROVE Core'
<1>1. /\ stack # <<>> /\ Top.at = "scan" /\ Top.left # <<>>
      /\ UNCHANGED <<open, dummy, chunks, free, status>>
  BY DEF ScanCompletes, Runs, clientVars
<1>2. /\ Scans(Top) /\ Tail(stack) = <<>> /\ Top \in FrameType /\ FrameOK(Top)
      /\ Frames = {Top} /\ Rest = {}
  BY <1>1, ScanIs, TopIs, RestIs DEF Core
<1>3. PICK p \in Pipe : p = Head(Top.left)
  <2>1. Top.left \in Seq(Pipe)
    BY <1>2 DEF FrameType
  <2> QED BY <1>1, <2>1
<1>4. /\ queue[p] # <<>> /\ queue' = [queue EXCEPT ![p] = Tail(queue[p])]
      /\ Evaluate(Head(queue[p])).how # "pending"
  BY <1>3 DEF ScanCompletes
<1>5. queue \in [Pipe -> Seq(Transfer)] /\ queue[p] \in Seq(Transfer) /\ Distinct(queue[p]) /\ IsOpen(p)
  BY <1>4 DEF Core, Queues
<1>6. PICK x \in Transfer : x = Head(queue[p])
  BY <1>4, <1>5
<1>7. PICK how \in {"ok", "error"} : how = Evaluate(x).how
  BY <1>4, <1>6, EvaluateIs
<1>8. /\ ToSet(queue[p]) = {x} \cup ToSet(Tail(queue[p])) /\ x \notin ToSet(Tail(queue[p]))
      /\ Tail(queue[p]) \in Seq(Transfer) /\ Distinct(Tail(queue[p]))
  BY <1>4, <1>5, <1>6, TailSet
<1>9. PICK f : f = [Top EXCEPT !.at = "complete", !.pipe = p, !.x = x, !.how = how]
  OBVIOUS
<1>10. PICK s : s = Stop("rebuild", p)
  OBVIOUS
<1>11. Call(f, s) \/ Goto(f)
  BY <1>3, <1>6, <1>7, <1>9, <1>10 DEF ScanCompletes
<1>12. /\ s \in FrameType /\ Waits(s, "rebuild") /\ s.at \in {"stopping", "stopped"}
       /\ s.op = "rebuild" /\ s.pipe = p /\ HeldBy(s) = {}
  BY <1>10, StopIs
<1>13. /\ f \in FrameType /\ f.at = "complete" /\ f.op = "scan" /\ f.pipe = p /\ f.x = x
       /\ f.how = how /\ f.list = <<>>
  BY <1>2, <1>9 DEF FrameType, Points, Scans
<1>14. ToSet(<<>>) = {} /\ Distinct(<<>>)
  BY DEF ToSet, Distinct
<1>15. HeldBy(f) = {x} /\ HeldBy(Top) = {} /\ Scans(f)
  BY <1>1, <1>2, <1>13, <1>14 DEF HeldBy, Scans
<1>16. /\ stack' \in Seq(FrameType) /\ Shaped(stack')
       /\ Frames' = {f} \/ Frames' = {f, s}
  <2>1. CASE Goto(f)
    <3>1. /\ stack' \in Seq(FrameType) /\ stack' # <<>> /\ Top' = f /\ Tail(stack') = <<>>
          /\ Frames' = {f}
      BY <1>1, <1>2, <1>13, <2>1, GotoIs DEF Core
    <3> QED BY <1>15, <3>1 DEF Shaped, Above, Top
  <2>2. CASE Call(f, s)
    <3>1. /\ stack' \in Seq(FrameType) /\ stack' # <<>> /\ Top' = s
          /\ Head(Tail(stack')) = f /\ Tail(Tail(stack')) = <<>>
          /\ Frames' = {f, s}
      BY <1>1, <1>2, <1>12, <1>13, <2>2, CallIs DEF Core
    <3> QED BY <1>12, <1>13, <1>15, <3>1 DEF Shaped, Above, BelowRebuild, Top
  <2> QED BY <1>11, <2>1, <2>2
<1>17. \A q \in Pipe : queue'[q] = IF q = p THEN Tail(queue[p]) ELSE queue[q]
  BY <1>4, <1>5
<1>18. \A y : Queued(y)' <=> Queued(y) /\ y # x
  BY <1>8, <1>17 DEF Queued, Core, Queues
<1>19. Queued(x)
  BY <1>8 DEF Queued
<1>20. \A y \in Transfer : Busy(y)' <=> Busy(y)
  BY <1>2, <1>12, <1>15, <1>16, <1>18, <1>19 DEF Busy, HeldX
<1>21. \A q \in Pipe, y \in Transfer, u \in QTD : Writing(q, y, u)' <=> Writing(q, y, u)
  BY <1>1, <1>2, <1>12, <1>13, <1>16 DEF Writing
<1>22. QTDs'
  BY <1>1, <1>20, <1>21, QTDsKeep DEF Core
<1>23. \A y \in Transfer : ~Submitting(y)
  BY <1>2 DEF Submitting, Scans
<1>24. \A q \in Pipe : (IsOpen(q)' <=> IsOpen(q)) /\ (Linking(q)' <=> Linking(q))
  BY <1>1, <1>2, <1>12, <1>13, <1>16 DEF IsOpen, Linking, Scans
<1>25. queue' \in [Pipe -> Seq(Transfer)] /\ \A q \in Pipe : Distinct(queue'[q])
  BY <1>4, <1>5, <1>8, <1>17 DEF Core, Queues
<1>26. \A q, r \in Pipe : q # r => ToSet(queue'[q]) \cap ToSet(queue'[r]) = {}
  BY <1>8, <1>17 DEF Core, Queues
<1>27. \A q \in Pipe : queue'[q] # <<>> => IsOpen(q)
  BY <1>5, <1>17 DEF Core, Queues
<1>28. Queues'
  BY <1>1, <1>20, <1>23, <1>24, <1>25, <1>26, <1>27 DEF Core, Queues
<1>29. FrameOK(s)'
  BY <1>5, <1>12, <1>14, <1>24 DEF FrameOK, Waits
<1>30. FrameOK(f)'
  BY <1>13, <1>14, <1>15, <1>18 DEF FrameOK
<1>31. CallsOK'
  BY <1>12, <1>16, <1>29, <1>30 DEF CallsOK
<1> QED BY <1>16, <1>22, <1>28, <1>31 DEF Core, Nested

-----------------------------------------------------------------------------
(* A pipe gives up its dummy and the transactions X.                       *)
LEMMA CloseQTDs ==
  ASSUME QTDs, NEW p \in Pipe, NEW l \in Seq(QTD), Distinct(l), NEW X \in SUBSET Transfer,
         \A u : u \in ToSet(l) <=> u = dummy[p] \/ \E x \in X : u \in ToSet(chunks[x]),
         \A x \in X : Busy(x), NoWriting, NoWriting',
         dummy \in [Pipe -> QTD \cup {None}], dummy[p] # None, dummy' = [dummy EXCEPT ![p] = None],
         free' = Reverse(l) \o free, chunks' \in [Transfer -> Seq(QTD)],
         \A y \in Transfer \ X : chunks'[y] = chunks[y],
         \A y \in Transfer : Busy(y)' <=> Busy(y) /\ y \notin X
  PROVE  QTDs'
<1> USE DEF NoWriting
<1>1. free \in Seq(QTD) /\ Distinct(free)
  BY DEF QTDs
<1>2. ToSet(l) \cap ToSet(free) = {}
  <2> SUFFICES ASSUME NEW u \in ToSet(l), u \in ToSet(free) PROVE FALSE
    OBVIOUS
  <2>1. CASE u = dummy[p]
    BY <2>1 DEF QTDs
  <2>2. CASE \E x \in X : u \in ToSet(chunks[x])
    BY <2>2 DEF QTDs
  <2> QED BY <2>1, <2>2
<1> DEFINE r == Reverse(l)
<1>3. r \in Seq(QTD) /\ ToSet(r) = ToSet(l) /\ Distinct(r)
  BY ReverseSet
<1> HIDE DEF r
<1>4. /\ free' \in Seq(QTD) /\ Distinct(free')
      /\ ToSet(free') = ToSet(l) \cup ToSet(free)
  <2>1. free' = r \o free
    BY DEF r
  <2>2. r \o free \in Seq(QTD) /\ ToSet(r \o free) = ToSet(r) \cup ToSet(free) /\ Distinct(r \o free)
    BY <1>1, <1>2, <1>3, JoinSet
  <2> QED BY <2>1, <2>2, <1>3
<1>5. \A q \in Pipe : dummy'[q] = IF q = p THEN None ELSE dummy[q]
  OBVIOUS
<1>6. \A y \in Transfer : Busy(y)' => /\ Busy(y) /\ y \notin X /\ chunks'[y] = chunks[y]
  OBVIOUS
<1>7. \A y \in Transfer : Busy(y)' => ToSet(free') \cap ToSet(chunks'[y]) = {}
  <2> SUFFICES ASSUME NEW y \in Transfer, Busy(y), y \notin X, NEW u \in ToSet(chunks[y]),
                      u \in ToSet(free')
               PROVE  FALSE
    BY <1>6
  <2>1. CASE u \in ToSet(free)
    BY <2>1 DEF QTDs
  <2>2. CASE u = dummy[p]
    BY <2>2 DEF QTDs
  <2>3. CASE \E x \in X : u \in ToSet(chunks[x])
    BY <2>3 DEF QTDs
  <2> QED BY <2>1, <2>2, <2>3, <1>4
<1>8. \A q \in Pipe : dummy'[q] \notin ToSet(free')
  <2> SUFFICES ASSUME NEW q \in Pipe, dummy'[q] \in ToSet(free') PROVE FALSE
    OBVIOUS
  <2>1. CASE q = p
    <3>1. None \in QTD
      BY <2>1, <1>4, <1>5, MemberIs
    <3> QED BY <3>1, Constants
  <2>2. CASE q # p
    <3>1. dummy[q] \notin ToSet(free) /\ dummy[q] # dummy[p]
      BY <2>2 DEF QTDs
    <3>2. ~ \E x \in X : dummy[q] \in ToSet(chunks[x])
      BY DEF QTDs
    <3> QED BY <2>2, <3>1, <3>2, <1>4, <1>5
  <2> QED BY <2>1, <2>2
<1>9. ASSUME NEW u \in QTD
      PROVE  \/ u \in ToSet(free')
             \/ \E y \in Transfer : Busy(y)' /\ u \in ToSet(chunks'[y])
             \/ \E q \in Pipe : dummy'[q] = u
  <2>1. CASE u \in ToSet(free)
    BY <2>1, <1>4
  <2>2. CASE \E y \in Transfer : Busy(y) /\ u \in ToSet(chunks[y])
    <3>1. PICK y \in Transfer : Busy(y) /\ u \in ToSet(chunks[y])
      BY <2>2
    <3>2. CASE y \in X
      BY <3>1, <3>2, <1>4
    <3>3. CASE y \notin X
      BY <3>1, <3>3
    <3> QED BY <3>2, <3>3
  <2>3. CASE \E q \in Pipe : dummy[q] = u
    BY <2>3, <1>4, <1>5
  <2> QED BY <2>1, <2>2, <2>3 DEF QTDs
<1>10. \A q, s \in Pipe : dummy'[q] # None /\ dummy'[q] = dummy'[s] => q = s
  BY <1>5 DEF QTDs
<1>11. \A q \in Pipe, y \in Transfer : ~(Busy(y)' /\ dummy'[q] \in ToSet(chunks'[y]))
  <2> SUFFICES ASSUME NEW q \in Pipe, NEW y \in Transfer, Busy(y), y \notin X,
                      dummy'[q] \in ToSet(chunks[y])
               PROVE  FALSE
    BY <1>6
  <2>1. chunks[y] \in Seq(QTD)
    BY DEF QTDs
  <2>2. dummy'[q] \in QTD
    BY <2>1, MemberIs
  <2>3. dummy'[q] = dummy[q]
    BY <2>2, <1>5, Constants
  <2> QED BY <2>3 DEF QTDs
<1>12. \A y \in Transfer : Busy(y)' => chunks'[y] # <<>> /\ Distinct(chunks'[y])
  BY <1>6 DEF QTDs
<1>13. \A y, z \in Transfer : Busy(y)' /\ Busy(z)' /\ y # z => ToSet(chunks'[y]) \cap ToSet(chunks'[z]) = {}
  BY <1>6 DEF QTDs
<1>14. \A q \in Pipe, y \in Transfer, u \in QTD : ~Writing(q, y, u)'
  OBVIOUS
<1> HIDE DEF NoWriting
<1> QED BY <1>4, <1>7, <1>8, <1>9, <1>10, <1>11, <1>12, <1>13, <1>14 DEF QTDs

(* A pipe gets a free qTD as its dummy.                                    *)
LEMMA OpenQTDs ==
  ASSUME QTDs, NEW p \in Pipe, free # <<>>, NoWriting, NoWriting',
         dummy \in [Pipe -> QTD \cup {None}], dummy[p] = None,
         dummy' = [dummy EXCEPT ![p] = Head(free)], free' = Tail(free), UNCHANGED chunks,
         \A y \in Transfer : Busy(y)' <=> Busy(y)
  PROVE  QTDs'
<1> USE DEF NoWriting
<1>1. free \in Seq(QTD) /\ Distinct(free)
  BY DEF QTDs
<1>2. PICK t \in QTD : t = Head(free)
  BY <1>1
<1>3. /\ free' \in Seq(QTD) /\ Distinct(free') /\ t \notin ToSet(free')
      /\ ToSet(free) = {t} \cup ToSet(free')
  BY <1>1, <1>2, TailSet
<1>4. \A q \in Pipe : dummy'[q] = IF q = p THEN t ELSE dummy[q]
  BY <1>2
<1>5. ASSUME NEW u \in QTD
      PROVE  \/ u \in ToSet(free')
             \/ \E y \in Transfer : Busy(y)' /\ u \in ToSet(chunks'[y])
             \/ \E q \in Pipe : dummy'[q] = u
  <2>1. CASE u \in ToSet(free)
    BY <2>1, <1>3, <1>4
  <2>2. CASE \E y \in Transfer : Busy(y) /\ u \in ToSet(chunks[y])
    BY <2>2
  <2>3. CASE \E q \in Pipe : dummy[q] = u
    BY <2>3, <1>4, Constants
  <2> QED BY <2>1, <2>2, <2>3 DEF QTDs
<1>6. \A q \in Pipe : dummy'[q] \notin ToSet(free')
  BY <1>3, <1>4 DEF QTDs
<1>7. \A q, s \in Pipe : dummy'[q] # None /\ dummy'[q] = dummy'[s] => q = s
  BY <1>3, <1>4 DEF QTDs
<1>8. \A q \in Pipe, y \in Transfer : ~(Busy(y)' /\ dummy'[q] \in ToSet(chunks'[y]))
  BY <1>3, <1>4 DEF QTDs
<1>9. \A y \in Transfer : Busy(y)' => ToSet(free') \cap ToSet(chunks'[y]) = {}
  BY <1>3 DEF QTDs
<1>10. \A y \in Transfer : Busy(y)' => chunks'[y] # <<>> /\ Distinct(chunks'[y])
  BY DEF QTDs
<1>11. \A y, z \in Transfer : Busy(y)' /\ Busy(z)' /\ y # z => ToSet(chunks'[y]) \cap ToSet(chunks'[z]) = {}
  BY DEF QTDs
<1>12. chunks' \in [Transfer -> Seq(QTD)]
  BY DEF QTDs
<1>13. \A q \in Pipe, y \in Transfer, u \in QTD : ~Writing(q, y, u)'
  OBVIOUS
<1> HIDE DEF NoWriting
<1> QED BY <1>3, <1>5, <1>6, <1>7, <1>8, <1>9, <1>10, <1>11, <1>12, <1>13 DEF QTDs

-----------------------------------------------------------------------------
(* Create: a free qTD becomes the dummy of a pipe.                         *)
LEMMA CreateCore == ASSUME Core, Others, NEW p \in Pipe, Create(p) PROVE Core'
<1>1. /\ stack = <<>> /\ ~IsOpen(p) /\ free # <<>> /\ free' = Tail(free)
      /\ dummy' = [dummy EXCEPT ![p] = Head(free)]
      /\ UNCHANGED <<open, queue, status, chunks>>
  BY DEF Create
<1>2. PICK s : s = Stop("link", p)
  OBVIOUS
<1>3. stack' = <<s>>
  BY <1>2 DEF Create
<1>4. /\ s \in FrameType /\ Waits(s, "link") /\ s.at \in {"stopping", "stopped"}
      /\ s.op = "link" /\ s.pipe = p /\ HeldBy(s) = {}
  BY <1>2, StopIs
<1>5. Frames = {}
  BY <1>1, EmptyIs
<1>6. /\ stack' \in Seq(FrameType) /\ stack' # <<>> /\ Top' = s /\ Tail(stack') = <<>>
      /\ Frames' = {s}
  BY <1>3, <1>4, FirstIs
<1>7. Shaped(stack')
  BY <1>4, <1>6 DEF Shaped, Above, Top
<1>8. \A y \in Transfer : Busy(y)' <=> Busy(y)
  BY <1>1, <1>4, <1>5, <1>6 DEF Busy, Queued, HeldX
<1>9. NoWriting /\ NoWriting'
  BY <1>4, <1>5, <1>6 DEF NoWriting, Writing
<1>10. \A q \in Pipe : ~Linking(q) /\ (Linking(q)' <=> q = p) /\ (IsOpen(q)' <=> IsOpen(q))
  BY <1>1, <1>4, <1>5, <1>6 DEF Linking, IsOpen
<1>11. dummy \in [Pipe -> QTD \cup {None}] /\ dummy[p] = None
  BY <1>1, <1>10 DEF Core, Queues
<1>12. QTDs'
  BY <1>1, <1>8, <1>9, <1>11, OpenQTDs DEF Core
<1>13. Head(free) \in QTD
  <2>1. free \in Seq(QTD)
    BY DEF Core, QTDs
  <2> QED BY <2>1, <1>1
<1>14. /\ dummy' \in [Pipe -> QTD \cup {None}]
       /\ \A q \in Pipe : dummy'[q] # None <=> q = p \/ dummy[q] # None
  BY <1>1, <1>11, <1>13, Constants
<1>15. \A y \in Transfer : ~Submitting(y)
  BY <1>5 DEF Submitting
<1>16. \A q \in Pipe : dummy'[q] # None <=> IsOpen(q)' \/ Linking(q)'
  BY <1>10, <1>14 DEF Core, Queues
<1>17. Queues'
  BY <1>1, <1>8, <1>10, <1>14, <1>15, <1>16 DEF Core, Queues
<1>18. FrameOK(s)'
  <2>1. Distinct(<<>>)
    BY DEF Distinct
  <2>2. queue[p] = <<>>
    BY <1>1 DEF Core, Queues
  <2> QED BY <1>1, <1>4, <1>10, <2>1, <2>2 DEF FrameOK, Waits
<1>19. CallsOK'
  BY <1>6, <1>18 DEF CallsOK
<1> QED BY <1>6, <1>7, <1>12, <1>17, <1>19 DEF Core, Nested

(* Link: the pipe is open.                                                 *)
LEMMA LinkCore == ASSUME Core, Link PROVE Core'
<1>1. /\ stack # <<>> /\ Top.at \in {"stopping", "stopped"} /\ Top.op = "link"
      /\ UNCHANGED <<dummy, queue, status, chunks, free>>
  BY DEF Link, Stopped, Runs, clientVars
<1>2. /\ HeldBy(Top) = {} /\ Top.pipe \in Pipe /\ Top.list = <<>> /\ Tail(stack) = <<>>
      /\ Top \in FrameType /\ FrameOK(Top)
  BY <1>1, WaitIs, TopIs DEF Core, Waiting
<1>3. PICK p \in Pipe : p = Top.pipe
  BY <1>2
<1>4. PICK g : g = [Top EXCEPT !.at = "starting"]
  OBVIOUS
<1>5. Goto(g) /\ open' = <<p>> \o open
  BY <1>3, <1>4 DEF Link, Start
<1>6. /\ g \in FrameType /\ g.at = "starting" /\ g.op = "link" /\ g.pipe = p /\ g.list = <<>>
  BY <1>1, <1>2, <1>3, <1>4 DEF FrameType, Points
<1>7. HeldBy(g) = {}
  BY <1>6 DEF HeldBy, ToSet
<1>8. /\ stack' \in Seq(FrameType) /\ stack' # <<>> /\ Top' = g /\ Tail(stack') = <<>>
      /\ Frames' = {g} /\ Frames = {Top}
  BY <1>1, <1>2, <1>5, <1>6, GotoIs, RestIs DEF Core
<1>9. Shaped(stack')
  BY <1>2, <1>6, <1>8 DEF Shaped, Above, Top, Waits, Waiting
<1>10. \A y \in Transfer : Busy(y)' <=> Busy(y)
  BY <1>1, <1>2, <1>7, <1>8 DEF Busy, Queued, HeldX
<1>11. \A q \in Pipe, y \in Transfer, u \in QTD : Writing(q, y, u)' <=> Writing(q, y, u)
  BY <1>1, <1>6, <1>8 DEF Writing
<1>12. QTDs'
  BY <1>1, <1>10, <1>11, QTDsKeep DEF Core
<1>13. ~IsOpen(p) /\ queue[p] = <<>> /\ open \in Seq(Pipe) /\ Distinct(open)
  BY <1>1, <1>2, <1>3 DEF FrameOK, Core, Queues
<1>14. open' \in Seq(Pipe) /\ Distinct(open') /\ ToSet(open') = {p} \cup ToSet(open)
  BY <1>5, <1>13, PushSet DEF IsOpen
<1>15. \A q \in Pipe : (IsOpen(q)' <=> q = p \/ IsOpen(q)) /\ (Linking(q) <=> q = p) /\ (Linking(q)' <=> q = p)
  BY <1>1, <1>3, <1>6, <1>8, <1>14 DEF IsOpen, Linking
<1>16. \A y \in Transfer : ~Submitting(y)
  BY <1>1, <1>8 DEF Submitting
<1>17. Queues'
  BY <1>1, <1>10, <1>14, <1>15, <1>16 DEF Core, Queues
<1>18. FrameOK(g)'
  <2>1. Distinct(<<>>)
    BY DEF Distinct
  <2> QED BY <1>1, <1>6, <1>7, <1>13, <1>15, <2>1 DEF FrameOK
<1>19. CallsOK'
  BY <1>8, <1>18 DEF CallsOK
<1> QED BY <1>8, <1>9, <1>12, <1>17, <1>19 DEF Core, Nested

(* All qTDs of a queue.                                                    *)
LEMMA QTDsOfQueue ==
  ASSUME Core, NEW p \in Pipe, NoWriting, dummy[p] # None
  PROVE  LET l == Append(QTDsOf(queue[p]), dummy[p])
         IN  /\ l \in Seq(QTD) /\ Distinct(l)
             /\ \A u : u \in ToSet(l) <=>
                  u = dummy[p] \/ \E x \in ToSet(queue[p]) : u \in ToSet(chunks[x])
<1>1. PICK xs \in Seq(Transfer) : xs = queue[p]
  BY DEF Core, Queues
<1>2. Distinct(xs) /\ chunks \in [Transfer -> Seq(QTD)] /\ dummy[p] \in QTD
  BY <1>1 DEF Core, Queues, QTDs
<1> DEFINE s == [i \in DOMAIN xs |-> chunks[xs[i]]]
<1>3. PICK n \in Nat : n = Len(xs)
  BY <1>1, LengthIs
<1>4. \A i \in 1 .. n : xs[i] \in Transfer /\ xs[i] \in ToSet(xs) /\ Busy(xs[i])
  BY <1>1, <1>3, MemberIs DEF Busy, Queued
<1>5. DOMAIN xs = 1 .. n
  BY <1>3
<1>6. s \in Seq(Seq(QTD)) /\ Len(s) = n /\ \A i \in 1 .. n : s[i] = chunks[xs[i]]
  <2>1. s = [i \in 1 .. n |-> chunks[xs[i]]]
    BY <1>5
  <2>2. \A i \in 1 .. n : chunks[xs[i]] \in Seq(QTD)
    BY <1>2, <1>4
  <2>3. [i \in 1 .. n |-> chunks[xs[i]]] \in [1 .. n -> Seq(QTD)]
    BY <2>2
  <2> QED BY <2>1, <2>3
<1>7. QTDsOf(queue[p]) = FlattenSeq(s)
  BY <1>1 DEF QTDsOf
<1> HIDE DEF s
<1>8. \A i \in 1 .. Len(s) : Distinct(s[i])
  BY <1>4, <1>6 DEF Core, QTDs
<1>9. Apart(s)
  <2> SUFFICES ASSUME NEW i \in 1 .. n, NEW j \in 1 .. n, i # j
               PROVE  ToSet(s[i]) \cap ToSet(s[j]) = {}
    BY <1>6 DEF Apart
  <2>1. xs[i] # xs[j]
    BY <1>2, <1>3 DEF Distinct
  <2> QED BY <2>1, <1>4, <1>6 DEF Core, QTDs
<1>10. PICK m : m = FlattenSeq(s)
  OBVIOUS
<1>11. /\ m \in Seq(QTD) /\ Distinct(m)
       /\ \A u : u \in ToSet(m) <=> \E i \in 1 .. Len(s) : u \in ToSet(s[i])
  BY <1>6, <1>8, <1>9, <1>10, FlattenLists
<1>12. \A u : u \in ToSet(m) <=> \E x \in ToSet(xs) : u \in ToSet(chunks[x])
  <2>1. ASSUME NEW u, NEW x \in ToSet(xs), u \in ToSet(chunks[x]) PROVE u \in ToSet(m)
    <3>1. PICK i \in 1 .. n : xs[i] = x
      BY <1>3, MemberIs
    <3> QED BY <2>1, <3>1, <1>6, <1>11
  <2>2. ASSUME NEW u \in ToSet(m) PROVE \E x \in ToSet(xs) : u \in ToSet(chunks[x])
    BY <1>4, <1>6, <1>11
  <2> QED BY <2>1, <2>2
<1>13. dummy[p] \notin ToSet(m)
  <2>1. \A x \in ToSet(xs) : x \in Transfer /\ Busy(x)
    BY <1>1, <1>3, <1>4, MemberIs
  <2> QED BY <1>12, <2>1 DEF Core, QTDs, NoWriting
<1>14. /\ Append(m, dummy[p]) \in Seq(QTD) /\ Distinct(Append(m, dummy[p]))
       /\ ToSet(Append(m, dummy[p])) = ToSet(m) \cup {dummy[p]}
  BY <1>2, <1>11, <1>13, AppendSet
<1> QED BY <1>1, <1>7, <1>10, <1>12, <1>14

(* Unlink: all qTDs of the pipe go back to the pool.                       *)
LEMMA UnlinkCore == ASSUME Core, Unlink PROVE Core'
<1>1. /\ stack # <<>> /\ Top.at \in {"stopping", "stopped"} /\ Top.op = "unlink"
      /\ UNCHANGED <<status>>
  BY DEF Unlink, Stopped, Runs, clientVars
<1>2. /\ HeldBy(Top) = {} /\ Top.pipe \in Pipe /\ Top.list = <<>> /\ Tail(stack) = <<>>
      /\ Top \in FrameType /\ FrameOK(Top)
  BY <1>1, WaitIs, TopIs DEF Core, Waiting
<1>3. PICK p \in Pipe : p = Top.pipe
  BY <1>2
<1>4. PICK g : g = [Top EXCEPT !.at = "starting"]
  OBVIOUS
<1>5. PICK l : l = Append(QTDsOf(queue[p]), dummy[p])
  OBVIOUS
<1>6. PICK X : X = ToSet(queue[p])
  OBVIOUS
<1>7. /\ Goto(g) /\ open' = RemoveFirst(open, p)
      /\ free' = Reverse(l) \o free
      /\ queue' = [queue EXCEPT ![p] = <<>>]
      /\ chunks' = [x \in Transfer |-> IF x \in X THEN <<>> ELSE chunks[x]]
      /\ dummy' = [dummy EXCEPT ![p] = None]
  BY <1>3, <1>4, <1>5, <1>6 DEF Unlink, Start, Release
<1>8. /\ g \in FrameType /\ g.at = "starting" /\ g.op = "unlink" /\ g.pipe = p /\ g.list = <<>>
  BY <1>1, <1>2, <1>3, <1>4 DEF FrameType, Points
<1>9. HeldBy(g) = {}
  BY <1>8 DEF HeldBy, ToSet
<1>10. /\ stack' \in Seq(FrameType) /\ stack' # <<>> /\ Top' = g /\ Tail(stack') = <<>>
       /\ Frames' = {g} /\ Frames = {Top}
  BY <1>1, <1>2, <1>7, <1>8, GotoIs, RestIs DEF Core
<1>11. Shaped(stack')
  BY <1>2, <1>8, <1>10 DEF Shaped, Above, Top, Waits, Waiting
<1>12. NoWriting /\ NoWriting'
  BY <1>1, <1>8, <1>10 DEF NoWriting, Writing
<1>13. /\ IsOpen(p) /\ dummy[p] # None /\ dummy \in [Pipe -> QTD \cup {None}]
       /\ open \in Seq(Pipe) /\ Distinct(open) /\ queue \in [Pipe -> Seq(Transfer)]
  BY <1>1, <1>2, <1>3 DEF FrameOK, Core, Queues
<1>14. /\ l \in Seq(QTD) /\ Distinct(l)
       /\ \A u : u \in ToSet(l) <=> u = dummy[p] \/ \E x \in X : u \in ToSet(chunks[x])
  BY <1>5, <1>6, <1>12, <1>13, QTDsOfQueue
<1>15. ToSet(<<>>) = {} /\ Distinct(<<>>) /\ <<>> \in Seq(Transfer) /\ <<>> \in Seq(QTD)
  BY DEF ToSet, Distinct
<1>16. \A q \in Pipe : queue'[q] = IF q = p THEN <<>> ELSE queue[q]
  BY <1>7, <1>13
<1>17. \A y : Queued(y)' <=> Queued(y) /\ y \notin X
  BY <1>6, <1>15, <1>16 DEF Queued, Core, Queues
<1>18. \A y \in Transfer : Busy(y)' <=> Busy(y) /\ y \notin X
  BY <1>2, <1>9, <1>10, <1>17 DEF Busy, HeldX
<1>19. X \in SUBSET Transfer /\ \A x \in X : Busy(x)
  BY <1>6, <1>13, MemberIs DEF Busy, Queued
<1>20. /\ chunks' \in [Transfer -> Seq(QTD)] /\ \A y \in Transfer \ X : chunks'[y] = chunks[y]
  BY <1>7, <1>15 DEF Core, QTDs
<1>21. QTDs'
  BY <1>7, <1>12, <1>13, <1>14, <1>18, <1>19, <1>20, CloseQTDs DEF Core
<1>22. open' \in Seq(Pipe) /\ Distinct(open') /\ ToSet(open') = ToSet(open) \ {p}
  BY <1>7, <1>13, RemoveSet
<1>23. \A q \in Pipe : (IsOpen(q)' <=> q # p /\ IsOpen(q)) /\ ~Linking(q) /\ ~Linking(q)'
  BY <1>1, <1>8, <1>10, <1>22 DEF IsOpen, Linking
<1>24. \A y \in Transfer : ~Submitting(y)
  BY <1>1, <1>10 DEF Submitting
<1>25. /\ dummy' \in [Pipe -> QTD \cup {None}]
       /\ \A q \in Pipe : dummy'[q] = IF q = p THEN None ELSE dummy[q]
  BY <1>7, <1>13
<1>26. queue' \in [Pipe -> Seq(Transfer)] /\ \A q \in Pipe : Distinct(queue'[q])
  BY <1>7, <1>13, <1>15, <1>16 DEF Core, Queues
<1>27. \A q, r \in Pipe : q # r => ToSet(queue'[q]) \cap ToSet(queue'[r]) = {}
  BY <1>15, <1>16 DEF Core, Queues
<1>28. Queues'
  BY <1>1, <1>16, <1>18, <1>22, <1>23, <1>24, <1>25, <1>26, <1>27 DEF Core, Queues
<1>29. FrameOK(g)'
  BY <1>8, <1>9, <1>15, <1>23 DEF FrameOK
<1>30. CallsOK'
  BY <1>10, <1>29 DEF CallsOK
<1> QED BY <1>10, <1>11, <1>21, <1>28, <1>30 DEF Core, Nested

(* WaitTimesOut: a pipe that was being created gives its dummy back.       *)
LEMMA WaitTimesOutCore == ASSUME Core, WaitTimesOut PROVE Core'
<1>1. /\ stack # <<>> /\ Top.at \in Waiting /\ Return
      /\ UNCHANGED <<queue, status, chunks>>
  BY DEF WaitTimesOut, Runs, Waiting
<1>2. /\ HeldBy(Top) = {} /\ Top.pipe \in Pipe /\ Top.at # "fill"
      /\ Top.op \in {"rebuild", "link", "unlink"} /\ FrameOK(Top)
  BY <1>1, WaitIs, TopIs DEF Core
<1>3. CASE Top.op # "link"
  <2>1. UNCHANGED <<open, dummy, queue, status, chunks, free>>
    BY <1>3 DEF WaitTimesOut
  <2> QED BY <1>1, <1>2, <1>3, <2>1, ReturnCore
<1>4. CASE Top.op = "link"
  <2>1. Tail(stack) = <<>>
    BY <1>1, <1>4, WaitIs DEF Core
  <2>2. Frames = {Top} /\ Rest = {} /\ Frames' = {} /\ Nested'
    BY <1>1, <2>1, RestIs, ReturnIs DEF Core, Nested
  <2>3. PICK p \in Pipe : p = Top.pipe
    BY <1>2
  <2>4. PICK l : l = <<dummy[p]>>
    OBVIOUS
  <2>5. /\ free' = Reverse(l) \o free /\ open' = RemoveFirst(open, p)
        /\ dummy' = [dummy EXCEPT ![p] = None]
    BY <1>4, <2>3, <2>4 DEF WaitTimesOut, Release
  <2>6. Linking(p) /\ \A q \in Pipe : Linking(q) <=> q = p
    BY <1>4, <2>2, <2>3 DEF Linking
  <2>7. /\ dummy \in [Pipe -> QTD \cup {None}] /\ dummy[p] # None
        /\ open \in Seq(Pipe) /\ Distinct(open) /\ queue[p] = <<>>
    BY <1>2, <1>4, <2>3, <2>6 DEF Core, Queues, FrameOK
  <2>8. dummy[p] \in QTD
    BY <2>7
  <2>9. l \in Seq(QTD) /\ ToSet(l) = {dummy[p]} /\ Distinct(l)
    BY <2>4, <2>8 DEF ToSet, Distinct
  <2>10. \A y \in Transfer : Busy(y)' <=> Busy(y)
    BY <1>1, <1>2, <2>2 DEF Busy, Queued, HeldX
  <2>11. NoWriting /\ NoWriting'
    BY <1>2, <2>2 DEF NoWriting, Writing
  <2>12. QTDs'
    <3>1. {} \in SUBSET Transfer /\ (\A u : u \in ToSet(l) <=> u = dummy[p] \/ \E x \in {} : u \in ToSet(chunks[x]))
      BY <2>9
    <3>2. chunks' \in [Transfer -> Seq(QTD)] /\ \A y \in Transfer \ {} : chunks'[y] = chunks[y]
      BY <1>1 DEF Core, QTDs
    <3>3. \A y \in Transfer : Busy(y)' <=> Busy(y) /\ y \notin {}
      BY <2>10
    <3>4. \A x \in {} : Busy(x)
      OBVIOUS
    <3> QED BY <3>1, <3>2, <3>3, <3>4, <2>5, <2>7, <2>9, <2>11, CloseQTDs DEF Core
  <2>13. open' \in Seq(Pipe) /\ Distinct(open') /\ ToSet(open') = ToSet(open) \ {p}
    BY <2>5, <2>7, RemoveSet
  <2>14. \A q \in Pipe : (IsOpen(q)' <=> q # p /\ IsOpen(q)) /\ ~Linking(q)'
    BY <2>2, <2>13 DEF IsOpen, Linking
  <2>15. \A y \in Transfer : ~Submitting(y)
    BY <1>4, <2>2 DEF Submitting
  <2>16. /\ dummy' \in [Pipe -> QTD \cup {None}]
         /\ \A q \in Pipe : dummy'[q] = IF q = p THEN None ELSE dummy[q]
    BY <2>5, <2>7
  <2>17. Queues'
    BY <1>1, <2>6, <2>7, <2>10, <2>13, <2>14, <2>15, <2>16 DEF Core, Queues
  <2>18. CallsOK'
    BY <2>2 DEF CallsOK
  <2> QED BY <2>2, <2>12, <2>17, <2>18 DEF Core
<1> QED BY <1>3, <1>4

-----------------------------------------------------------------------------
QTDType == [next : QTD \cup {None}, ioc : BOOLEAN,
            token : {"idle", "active", "done", "short", "error"}]
QHType  == [cur : QTD \cup {None}, next : QTD \cup {None}, token : {"idle", "active", "halted"}]

MemOK     == mem \in [QTD -> QTDType] /\ usbint \in BOOLEAN
OverlayOK == overlay \in [Pipe -> QHType] /\ lost \subseteq Pipe
WaitOK    == /\ {enabled, running, failed} \subseteq BOOLEAN
             /\ timeouts \in 0..MaxTimeouts /\ ops \in 0..MaxOps
ClientOK  == /\ status \in [Transfer -> {"new", "accepted", "refused"}]
             /\ results \in [Transfer -> Seq({"ok", "error", "aborted"})]
             /\ issued \in [Pipe -> Seq(Transfer)]

(* The types, by what writes the variables.                                *)
LEMMA OthersAre == Others <=> MemOK /\ OverlayOK /\ WaitOK /\ ClientOK /\ strayed \in BOOLEAN
BY DEF Others, MemOK, OverlayOK, WaitOK, ClientOK, QTDType, QHType

(* Where qTDs are written.                                                 *)
LEMMA IdleOK == Idle \in QTDType /\ NoQH \in QHType
BY DEF Idle, NoQH, QTDType, QHType

(* Types of what the running call is about.                                *)
LEMMA RunningIs ==
  ASSUME Core, stack # <<>>
  PROVE  /\ Top.at # "scan" => Top.pipe \in Pipe
         /\ Top.at \in {"fill", "check", "complete", "callback"} => Top.x \in Transfer
         /\ Top.at = "fill" => Top.new \in QTD
         /\ Top.at = "complete" => Top.how \in {"ok", "error"}
         /\ Top \in FrameType
<1>1. Top \in FrameType
  BY TopIs DEF Core
<1>2. CASE Top.at \in Waiting
  BY <1>1, <1>2, WaitIs DEF Core, Waiting
<1>3. CASE Top.at \in {"fill", "check"}
  BY <1>1, <1>3, SubmitIs DEF Core, Submits
<1>4. CASE Top.at \in {"scan", "complete"}
  BY <1>1, <1>4, ScanIs DEF Core, Scans, FrameType
<1>5. CASE Top.at = "callback"
  BY <1>1, <1>5, CallbackIs DEF Core, Scans, Aborts
<1>6. CASE Top.at = "abort"
  BY <1>1, <1>6, AbortIs DEF Core, Aborts
<1> QED BY <1>1, <1>2, <1>3, <1>4, <1>5, <1>6 DEF Waiting, FrameType, Points

(* A queue head is rebuilt to start at a qTD.                              *)
LEMMA FirstQTDIs ==
  ASSUME Core, NEW p \in Pipe
  PROVE  FirstQTD(p) \in QTD \cup {None}
<1>1. dummy[p] \in QTD \cup {None} /\ queue[p] \in Seq(Transfer) /\ chunks \in [Transfer -> Seq(QTD)]
  BY DEF Core, Queues, QTDs
<1>2. CASE queue[p] # <<>>
  <2>1. PICK x \in Transfer : x = Head(queue[p]) /\ x \in ToSet(queue[p])
    BY <1>1, <1>2, TailSet
  <2>2. chunks[x] \in Seq(QTD) /\ chunks[x] # <<>>
    BY <1>1, <2>1 DEF Core, QTDs, Busy, Queued
  <2> QED BY <1>2, <2>1, <2>2 DEF FirstQTD
<1> QED BY <1>1, <1>2 DEF FirstQTD

(* Types of the variables that hold no list.                               *)
LEMMA MemStep == ASSUME Core, Others, [Next]_vars PROVE MemOK'
<1>0. MemOK /\ {running, enabled} \subseteq BOOLEAN
  BY OthersAre DEF WaitOK
<1>1. ASSUME UNCHANGED <<mem, usbint>> PROVE MemOK'
  BY <1>0, <1>1 DEF MemOK
<1>2. ASSUME NEW S, mem' = [t \in QTD |-> IF t \in S THEN Idle ELSE mem[t]], UNCHANGED usbint
      PROVE  MemOK'
  BY <1>0, <1>2, IdleOK DEF MemOK
<1>3. ASSUME HandleInterrupt PROVE MemOK'
  BY <1>0, <1>3 DEF MemOK, HandleInterrupt
<1>4. ASSUME Fill PROVE MemOK'
  <2> DEFINE cs == chunks[Top.x]
             k  == Top.filled + 1
             e  == [next  |-> IF k < Len(cs) THEN cs[k + 1] ELSE Top.new,
                    token |-> "active",
                    ioc   |-> k = Len(cs)]
  <2>1. stack # <<>> /\ Top.at = "fill" /\ mem' = [mem EXCEPT ![cs[k]] = e] /\ UNCHANGED usbint
    BY <1>4 DEF Fill, Runs
  <2>2. cs \in Seq(QTD) /\ Top.new \in QTD /\ Top.filled \in 0 .. MaxChunks
    BY <2>1, RunningIs DEF Core, QTDs, FrameType
  <2> HIDE DEF cs
  <2>3. k \in Nat /\ k >= 1
    BY <2>2, Constants
  <2>4. PICK n \in Nat : n = Len(cs)
    BY <2>2, LengthIs
  <2> HIDE DEF k
  <2>5. k < n => k + 1 \in 1 .. n
    BY <2>3
  <2>6. k < Len(cs) => cs[k + 1] \in QTD
    BY <2>2, <2>4, <2>5
  <2>7. e \in QTDType
    BY <2>2, <2>6 DEF QTDType
  <2> HIDE DEF e
  <2> QED BY <1>0, <2>1, <2>7 DEF MemOK
<1>5. ASSUME NEW p \in Pipe, NEW token \in {"done", "short", "error"}, HcRetire(p, token)
      PROVE MemOK'
  <2> DEFINE t == overlay[p].cur
  <2>1. /\ mem' = [mem EXCEPT ![t].token = token]
        /\ usbint' = (usbint \/ mem[t].ioc \/ token # "done")
    BY <1>5 DEF HcRetire
  <2> HIDE DEF t
  <2>2. mem' \in [QTD -> QTDType]
    BY <1>0, <2>1 DEF MemOK, QTDType
  <2>3. usbint' \in BOOLEAN
    BY <2>1
  <2> QED BY <2>2, <2>3 DEF MemOK
<1>6. CASE Client
  <2>1. ASSUME NEW p \in Pipe, Create(p) \/ ClearStall(p) \/ DeleteEmpty(p) \/ Abort(p, "abort") \/ Abort(p, "delete")
        PROVE UNCHANGED <<mem, usbint>>
    BY <2>1 DEF Create, ClearStall, DeleteEmpty, Abort, hwVars
  <2>2. ASSUME NEW p \in Pipe, NEW x \in Transfer, NEW n \in 1 .. MaxChunks, Submit(x, p, n) \/ SubmitFails(x, p, n)
        PROVE UNCHANGED <<mem, usbint>>
    BY <2>2 DEF Submit, SubmitFails, hwVars
  <2> QED BY <1>1, <1>6, <2>1, <2>2 DEF Client
<1>7. CASE GateStep
  <2>1. ASSUME \/ Started \/ Rebuild \/ Link \/ AbortNext \/ AbortEnds \/ DeleteAborted
               \/ Append1 \/ AppendFirst \/ Submitted \/ ScanSkips \/ ScanCompletes \/ ScanEnds \/ Complete
        PROVE  UNCHANGED <<mem, usbint>>
    BY <2>1 DEF Started, Rebuild, Link, AbortNext, AbortEnds, DeleteAborted, Append1, AppendFirst,
                Submitted, ScanSkips, ScanCompletes, ScanEnds, Complete, hwVars
  <2>2. ASSUME Unlink \/ WaitTimesOut \/ RollBack \/ CallbackReturns PROVE MemOK'
    <3>1. \/ UNCHANGED <<mem, usbint>>
          \/ \E S : mem' = [t \in QTD |-> IF t \in S THEN Idle ELSE mem[t]] /\ UNCHANGED usbint
      BY <2>2 DEF Unlink, WaitTimesOut, RollBack, CallbackReturns, Release
    <3> QED BY <3>1, <1>1, <1>2
  <2> QED BY <1>1, <1>4, <1>7, <2>1, <2>2 DEF GateStep
<1>8. CASE HcStops \/ HcStarts \/ UNCHANGED vars \/ \E p \in Pipe : HcFetch(p)
  BY <1>1, <1>8 DEF HcStops, HcStarts, HcFetch, vars, hwVars, historyVars
<1> QED BY <1>3, <1>5, <1>6, <1>7, <1>8 DEF Next, HcStep

-----------------------------------------------------------------------------
(* The types of overlay and lost.                                          *)
LEMMA OverlayStep == ASSUME Core, Others, [Next]_vars PROVE OverlayOK'
<1>0. MemOK /\ OverlayOK
  BY OthersAre
<1>1. ASSUME UNCHANGED <<overlay, lost>> PROVE OverlayOK'
  BY <1>0, <1>1 DEF OverlayOK
<1>2. ASSUME NEW p \in Pipe, NEW t \in QTD \cup {None},
             overlay' = [overlay EXCEPT ![p] = [NoQH EXCEPT !.next = t]],
             lost' \subseteq lost \cup {p}
      PROVE  OverlayOK'
  <2>1. [NoQH EXCEPT !.next = t] \in QHType
    BY DEF NoQH, QHType
  <2> QED BY <1>0, <1>2, <2>1 DEF OverlayOK
<1>3. ASSUME NEW p \in Pipe, overlay' = [overlay EXCEPT ![p] = NoQH], lost' \subseteq lost
      PROVE  OverlayOK'
  BY <1>0, <1>3, IdleOK DEF OverlayOK
<1>4. ASSUME Rebuild PROVE OverlayOK'
  <2>1. stack # <<>> /\ Top.at # "scan"
    BY <1>4 DEF Rebuild, Stopped, Runs
  <2>2. Top.pipe \in Pipe
    BY <2>1, RunningIs
  <2>3. FirstQTD(Top.pipe) \in QTD \cup {None}
    BY <2>2, FirstQTDIs
  <2>4. lost' \subseteq lost \cup {Top.pipe}
    BY <1>4 DEF Rebuild
  <2>5. overlay' = [overlay EXCEPT ![Top.pipe] = [NoQH EXCEPT !.next = FirstQTD(Top.pipe)]]
    BY <1>4 DEF Rebuild
  <2> QED BY <1>2, <2>2, <2>3, <2>4, <2>5
<1>5. ASSUME Link PROVE OverlayOK'
  <2>1. stack # <<>> /\ Top.at # "scan"
    BY <1>5 DEF Link, Stopped, Runs
  <2>2. Top.pipe \in Pipe
    BY <2>1, RunningIs
  <2>3. dummy[Top.pipe] \in QTD \cup {None}
    BY <2>2 DEF Core, Queues
  <2>4. lost' \subseteq lost \cup {Top.pipe}
    BY <1>5 DEF Link, historyVars
  <2>5. overlay' = [overlay EXCEPT ![Top.pipe] = [NoQH EXCEPT !.next = dummy[Top.pipe]]]
    BY <1>5 DEF Link, historyVars
  <2> QED BY <1>2, <2>2, <2>3, <2>4, <2>5
<1>6. ASSUME Unlink \/ WaitTimesOut PROVE OverlayOK'
  <2>1. stack # <<>> /\ Top.at # "scan"
    BY <1>6 DEF Unlink, WaitTimesOut, Stopped, Runs
  <2>2. Top.pipe \in Pipe
    BY <2>1, RunningIs
  <2>3. \/ UNCHANGED <<overlay, lost>>
        \/ overlay' = [overlay EXCEPT ![Top.pipe] = NoQH] /\ lost' \subseteq lost
    BY <1>6 DEF Unlink, WaitTimesOut, historyVars
  <2> QED BY <1>1, <1>3, <2>2, <2>3
<1>7. ASSUME NEW p \in Pipe, HcFetch(p) PROVE OverlayOK'
  <2> DEFINE o == overlay[p]
             e == [cur |-> o.next, next |-> mem[o.next].next, token |-> "active"]
  <2>1. o.next # None /\ overlay' = [overlay EXCEPT ![p] = e] /\ UNCHANGED lost
    BY <1>7 DEF HcFetch, historyVars
  <2>2. o.next \in QTD \cup {None}
    BY <1>0 DEF OverlayOK, QHType
  <2>3. mem[o.next].next \in QTD \cup {None}
    BY <1>0, <2>1, <2>2 DEF MemOK, QTDType
  <2>4. e \in QHType
    BY <2>2, <2>3 DEF QHType
  <2> HIDE DEF e
  <2> QED BY <1>0, <2>1, <2>4 DEF OverlayOK
<1>8. ASSUME NEW p \in Pipe, NEW token \in {"done", "short", "error"}, HcRetire(p, token)
      PROVE OverlayOK'
  <2>1. UNCHANGED lost /\ overlay' = [overlay EXCEPT ![p].token = IF token = "error" THEN "halted" ELSE "idle"]
    BY <1>8 DEF HcRetire, historyVars
  <2>2. overlay' \in [Pipe -> QHType]
    BY <1>0, <2>1 DEF OverlayOK, QHType
  <2> QED BY <1>0, <2>1, <2>2 DEF OverlayOK
<1>9. CASE Client
  <2>1. ASSUME NEW p \in Pipe, Create(p) \/ ClearStall(p) \/ DeleteEmpty(p) \/ Abort(p, "abort") \/ Abort(p, "delete")
        PROVE UNCHANGED <<overlay, lost>>
    BY <2>1 DEF Create, ClearStall, DeleteEmpty, Abort, hwVars, historyVars
  <2>2. ASSUME NEW p \in Pipe, NEW x \in Transfer, NEW n \in 1 .. MaxChunks, Submit(x, p, n) \/ SubmitFails(x, p, n)
        PROVE UNCHANGED <<overlay, lost>>
    BY <2>2 DEF Submit, SubmitFails, hwVars, historyVars
  <2> QED BY <1>1, <1>9, <2>1, <2>2 DEF Client
<1>10. CASE GateStep
  <2>1. ASSUME \/ Started \/ AbortNext \/ AbortEnds \/ DeleteAborted \/ Fill \/ RollBack \/ CallbackReturns
               \/ Append1 \/ AppendFirst \/ Submitted \/ ScanSkips \/ ScanCompletes \/ ScanEnds \/ Complete
        PROVE  UNCHANGED <<overlay, lost>>
    BY <2>1 DEF Started, AbortNext, AbortEnds, DeleteAborted, Fill, RollBack, CallbackReturns, Append1,
                AppendFirst, Submitted, ScanSkips, ScanCompletes, ScanEnds, Complete, hwVars, historyVars
  <2> QED BY <1>1, <1>4, <1>5, <1>6, <1>10, <2>1 DEF GateStep
<1>11. CASE HcStops \/ HcStarts \/ UNCHANGED vars \/ HandleInterrupt
  BY <1>1, <1>11 DEF HcStops, HcStarts, HandleInterrupt, vars, hwVars, historyVars
<1> QED BY <1>7, <1>8, <1>9, <1>10, <1>11 DEF Next, HcStep

(* The history says whether a pipe strayed.                                *)
LEMMA StrayedStep == ASSUME strayed \in BOOLEAN, [Next]_vars PROVE strayed' \in BOOLEAN
<1>1. CASE Client
  BY <1>1 DEF Client, Create, ClearStall, DeleteEmpty, Abort, Submit, SubmitFails, historyVars
<1>2. ASSUME ScanCompletes PROVE strayed' \in BOOLEAN
  BY <1>2 DEF ScanCompletes
<1>3. CASE GateStep
  BY <1>2, <1>3 DEF GateStep, Started, WaitTimesOut, Rebuild, Link, Unlink, AbortNext, AbortEnds, DeleteAborted,
                    Fill, Append1, AppendFirst, Submitted, RollBack, ScanSkips, ScanEnds, Complete,
                    CallbackReturns, historyVars
<1>4. CASE HcStops \/ HcStarts \/ UNCHANGED vars \/ HandleInterrupt \/ \E p \in Pipe : HcStep(p)
  BY <1>4 DEF HcStops, HcStarts, HandleInterrupt, HcStep, HcFetch, HcRetire, vars, historyVars
<1> QED BY <1>1, <1>3, <1>4 DEF Next

(* The types of what says how the schedule is.                             *)
LEMMA WaitStep == ASSUME Core, Others, [Next]_vars PROVE WaitOK'
<1>0. WaitOK /\ MaxTimeouts \in Nat /\ MaxOps \in Nat
  BY OthersAre, Constants
<1>1. ASSUME UNCHANGED <<running, timeouts>>, enabled' \in BOOLEAN, failed' \in BOOLEAN,
             ops' = ops \/ (ops < MaxOps /\ ops' = ops + 1)
      PROVE  WaitOK'
  BY <1>0, <1>1 DEF WaitOK
<1>2. ASSUME \/ Rebuild \/ Link \/ Unlink
      PROVE  UNCHANGED <<running, timeouts, ops, failed>> /\ enabled' = TRUE
  BY <1>2 DEF Rebuild, Link, Unlink, Start, clientVars
<1>3. ASSUME WaitTimesOut PROVE WaitOK'
  BY <1>0, <1>3 DEF WaitOK, WaitTimesOut
<1>4. ASSUME Started
      PROVE  UNCHANGED <<running, timeouts, ops, enabled>> /\ failed' = FALSE
  BY <1>4 DEF Started, clientVars, hwVars
<1>5. ASSUME DeleteAborted \/ AppendFirst
      PROVE  UNCHANGED <<running, timeouts, ops, failed>> /\ enabled' = FALSE
  BY <1>5 DEF DeleteAborted, AppendFirst, clientVars, hwVars
<1>6. ASSUME ScanCompletes
      PROVE  UNCHANGED <<running, timeouts, ops, failed>> /\ (enabled' = FALSE \/ enabled' = enabled)
  BY <1>6 DEF ScanCompletes, clientVars, hwVars
<1>7. ASSUME \/ AbortNext \/ AbortEnds \/ Fill \/ RollBack \/ CallbackReturns
             \/ Append1 \/ Submitted \/ ScanSkips \/ ScanEnds \/ Complete
      PROVE  UNCHANGED <<running, timeouts, ops, failed, enabled>>
  BY <1>7 DEF AbortNext, AbortEnds, Fill, RollBack, CallbackReturns, Append1, Submitted, ScanSkips,
              ScanEnds, Complete, hwVars, waitVars, clientVars
<1>8. CASE GateStep
  BY <1>0, <1>1, <1>2, <1>3, <1>4, <1>5, <1>6, <1>7, <1>8 DEF GateStep, WaitOK
<1>9. CASE Client
  <2>1. ASSUME NEW p \in Pipe, Create(p) \/ ClearStall(p) \/ DeleteEmpty(p) \/ Abort(p, "abort") \/ Abort(p, "delete")
        PROVE UNCHANGED <<running, timeouts, failed>> /\ enabled' = FALSE /\ ops < MaxOps /\ ops' = ops + 1
    BY <2>1 DEF Create, ClearStall, DeleteEmpty, Abort, hwVars
  <2>2. ASSUME NEW p \in Pipe, NEW x \in Transfer, NEW n \in 1 .. MaxChunks, Submit(x, p, n) \/ SubmitFails(x, p, n)
        PROVE UNCHANGED <<running, timeouts, ops, failed, enabled>>
    BY <2>2 DEF Submit, SubmitFails, hwVars, waitVars, clientVars
  <2> QED BY <1>0, <1>1, <1>9, <2>1, <2>2 DEF Client, WaitOK
<1>10. CASE HcStops \/ HcStarts
  BY <1>0, <1>10 DEF HcStops, HcStarts, waitVars, clientVars, WaitOK
<1>11. CASE HandleInterrupt \/ UNCHANGED vars \/ \E p \in Pipe : HcStep(p)
  <2>1. UNCHANGED <<running, timeouts, ops, failed, enabled>>
    BY <1>11 DEF HandleInterrupt, HcStep, HcFetch, HcRetire, vars, hwVars, historyVars, waitVars, clientVars
  <2> QED BY <1>0, <2>1 DEF WaitOK
<1> QED BY <1>8, <1>9, <1>10, <1>11 DEF Next

(* The types of what clients see.                                          *)
LEMMA ClientStep == ASSUME Core, Others, [Next]_vars PROVE ClientOK'
<1>0. ClientOK
  BY OthersAre
<1>1. ASSUME UNCHANGED <<status, results, issued>> PROVE ClientOK'
  BY <1>0, <1>1 DEF ClientOK
<1>2. ASSUME NEW x \in Transfer, NEW r \in {"ok", "error", "aborted"},
             results' = [results EXCEPT ![x] = Append(@, r)], UNCHANGED <<status, issued>>
      PROVE  ClientOK'
  <2>1. Append(results[x], r) \in Seq({"ok", "error", "aborted"})
    BY <1>0 DEF ClientOK
  <2> QED BY <1>0, <1>2, <2>1 DEF ClientOK
<1>3. ASSUME NEW x \in Transfer, NEW p \in Pipe, Accept(x, p), UNCHANGED results
      PROVE  ClientOK'
  <2>1. Append(issued[p], x) \in Seq(Transfer)
    BY <1>0 DEF ClientOK
  <2> QED BY <1>0, <1>3, <2>1 DEF ClientOK, Accept
<1>4. ASSUME NEW x \in Transfer, status' = [status EXCEPT ![x] = "refused"], UNCHANGED <<results, issued>>
      PROVE  ClientOK'
  BY <1>0, <1>4 DEF ClientOK
<1>5. ASSUME Append1 \/ Submitted PROVE ClientOK'
  <2>1. stack # <<>> /\ Top.at \in {"fill", "check"} /\ Accept(Top.x, Top.pipe) /\ UNCHANGED results
    BY <1>5 DEF Append1, Submitted, Enqueue, Filled, Runs
  <2>2. Top.x \in Transfer /\ Top.pipe \in Pipe
    BY <2>1, RunningIs
  <2> QED BY <1>3, <2>1, <2>2
<1>6. ASSUME RollBack PROVE ClientOK'
  <2>1. /\ stack # <<>> /\ Top.at = "check" /\ status' = [status EXCEPT ![Top.x] = "refused"]
        /\ UNCHANGED <<results, issued>>
    BY <1>6 DEF RollBack, Runs
  <2>2. Top.x \in Transfer
    BY <2>1, RunningIs
  <2> QED BY <1>4, <2>1, <2>2
<1>7. ASSUME Complete PROVE ClientOK'
  <2>1. /\ stack # <<>> /\ Top.at = "complete"
        /\ results' = [results EXCEPT ![Top.x] = Append(@, Top.how)] /\ UNCHANGED <<status, issued>>
    BY <1>7 DEF Complete, Runs
  <2>2. Top.x \in Transfer /\ Top.how \in {"ok", "error"}
    BY <2>1, RunningIs
  <2> QED BY <1>2, <2>1, <2>2
<1>8. ASSUME AbortNext PROVE ClientOK'
  <2>1. /\ stack # <<>> /\ Top.list # <<>>
        /\ results' = [results EXCEPT ![Head(Top.list)] = Append(@, "aborted")]
        /\ UNCHANGED <<status, issued>>
    BY <1>8 DEF AbortNext, Runs
  <2>2. Top.list \in Seq(Transfer)
    BY <2>1, RunningIs DEF FrameType
  <2>3. Head(Top.list) \in Transfer
    BY <2>1, <2>2
  <2> QED BY <1>2, <2>1, <2>3
<1>u. ASSUME Unlink PROVE ClientOK'
  <2>1. /\ stack # <<>> /\ Top.at \in Waiting /\ UNCHANGED <<status, results>>
        /\ issued' = [issued EXCEPT ![Top.pipe] = <<>>]
    BY <1>u DEF Unlink, Stopped, Runs, Waiting
  <2>2. <<>> \in Seq(Transfer)
    OBVIOUS
  <2> QED BY <1>0, <2>1, <2>2 DEF ClientOK
<1>9. CASE GateStep
  <2>1. ASSUME \/ Started \/ WaitTimesOut \/ Rebuild \/ Link \/ AbortEnds \/ DeleteAborted
               \/ Fill \/ AppendFirst \/ ScanSkips \/ ScanCompletes \/ ScanEnds \/ CallbackReturns
        PROVE  UNCHANGED <<status, results, issued>>
    BY <2>1 DEF Started, WaitTimesOut, Rebuild, Link, AbortEnds, DeleteAborted, Fill, AppendFirst,
                ScanSkips, ScanCompletes, ScanEnds, CallbackReturns, clientVars
  <2> QED BY <1>1, <1>5, <1>6, <1>7, <1>8, <1>9, <1>u, <2>1 DEF GateStep
<1>10. CASE Client
  <2>1. ASSUME NEW p \in Pipe, Create(p) \/ ClearStall(p) \/ DeleteEmpty(p) \/ Abort(p, "abort") \/ Abort(p, "delete")
        PROVE UNCHANGED <<status, results, issued>>
    BY <2>1 DEF Create, ClearStall, DeleteEmpty, Abort
  <2>2. ASSUME NEW p \in Pipe, NEW x \in Transfer, NEW n \in 1 .. MaxChunks, Submit(x, p, n) \/ SubmitFails(x, p, n)
        PROVE ClientOK'
    <3>1. \/ UNCHANGED <<status, results, issued>>
          \/ status' = [status EXCEPT ![x] = "refused"] /\ UNCHANGED <<results, issued>>
      BY <2>2 DEF Submit, SubmitFails, clientVars
    <3> QED BY <3>1, <1>1, <1>4
  <2> QED BY <1>1, <1>10, <2>1, <2>2 DEF Client
<1>11. CASE HcStops \/ HcStarts \/ HandleInterrupt \/ UNCHANGED vars \/ \E p \in Pipe : HcStep(p)
  BY <1>1, <1>11 DEF HandleInterrupt, HcStops, HcStarts, HcStep, HcFetch, HcRetire, vars, clientVars
<1> QED BY <1>9, <1>10, <1>11 DEF Next

(* Every step keeps the qTDs, the queues and the calls.                    *)
LEMMA CoreStep == ASSUME Core, Others, [Next]_vars PROVE Core'
<1>1. CASE Client
  BY <1>1, CreateCore, StopsCore, AbortCore, SubmitCore, SubmitFailsCore DEF Client
<1>2. CASE GateStep
  BY <1>2, StartedCore, WaitTimesOutCore, RebuildCore, LinkCore, UnlinkCore, AbortNextCore,
     AbortEndsCore, DeleteAbortedCore, FillCore, Append1Core, AppendFirstCore, SubmittedCore,
     RollBackCore, ScanSkipsCore, ScanCompletesCore, ScanEndsCore, CompleteCore,
     CallbackReturnsCore DEF GateStep
<1>3. CASE HandleInterrupt
  BY <1>3, HandleInterruptCore
<1>4. CASE HcStops \/ HcStarts \/ UNCHANGED vars \/ \E p \in Pipe : HcStep(p)
  <2>1. \/ HcStops \/ HcStarts \/ UNCHANGED vars
        \/ \E p \in Pipe : HcFetch(p) \/ \E token \in {"done", "short", "error"} : HcRetire(p, token)
    BY <1>4 DEF HcStep
  <2> QED BY <2>1, HcCore
<1> QED BY <1>1, <1>2, <1>3, <1>4 DEF Next

(* The invariant holds at first.                                           *)
LEMMA InitAsyncInv == Init => AsyncInv
<1> SUFFICES ASSUME Init PROVE AsyncInv
  OBVIOUS
<1> USE DEF Init
<1>1. ToSet(<<>>) = {} /\ Distinct(<<>>) /\ stack = <<>>
  BY DEF ToSet, Distinct
<1>2. Frames = {} /\ Nested
  <2>1. <<>> \in Seq(FrameType)
    OBVIOUS
  <2> QED BY <1>1, <2>1, EmptyIs DEF Nested, Shaped
<1>3. CallsOK
  BY <1>2 DEF CallsOK
<1>4. \A x \in Transfer : ~Busy(x)
  BY <1>1, <1>2 DEF Busy, HeldX, Queued
<1>5. \A p \in Pipe : ~IsOpen(p) /\ ~Linking(p)
  BY <1>1, <1>2 DEF IsOpen, Linking
<1>6. Queues
  <2>1. open \in Seq(Pipe) /\ Distinct(open)
    BY <1>1
  <2>2. queue \in [Pipe -> Seq(Transfer)] /\ \A p \in Pipe : queue[p] = <<>>
    OBVIOUS
  <2>3. dummy \in [Pipe -> QTD \cup {None}] /\ \A p \in Pipe : dummy[p] = None
    OBVIOUS
  <2> QED BY <1>1, <1>4, <1>5, <2>1, <2>2, <2>3 DEF Queues
<1>7. QTDs
  <2>1. free \in Seq(QTD) /\ Distinct(free) /\ ToSet(free) = QTD
    BY AsyncAssumption, MemberIs
  <2>2. chunks \in [Transfer -> Seq(QTD)]
    OBVIOUS
  <2>3. dummy \in [Pipe -> QTD \cup {None}] /\ \A p \in Pipe : dummy[p] = None
    OBVIOUS
  <2>4. \A p \in Pipe, x \in Transfer, t \in QTD : ~Writing(p, x, t)
    BY <1>2 DEF Writing
  <2> QED BY <1>4, <2>1, <2>2, <2>3, <2>4, Constants DEF QTDs
<1>8. Others
  <2>1. MemOK /\ OverlayOK /\ strayed \in BOOLEAN
    BY IdleOK DEF MemOK, OverlayOK
  <2>2. WaitOK
    <3>1. enabled \in BOOLEAN /\ running \in BOOLEAN /\ failed \in BOOLEAN
      OBVIOUS
    <3>2. 0 \in 0 .. MaxTimeouts /\ 0 \in 0 .. MaxOps
      BY Constants
    <3>3. timeouts = 0 /\ ops = 0
      OBVIOUS
    <3> HIDE DEF Init
    <3>4. {enabled, running, failed} \subseteq BOOLEAN
      BY <3>1
    <3> QED BY <3>2, <3>3, <3>4 DEF WaitOK
  <2>3. ClientOK
    <3>1. <<>> \in Seq({"ok", "error", "aborted"}) /\ <<>> \in Seq(Transfer)
      OBVIOUS
    <3> QED BY <3>1 DEF ClientOK
  <2> QED BY <2>1, <2>2, <2>3, OthersAre
<1> QED BY <1>2, <1>3, <1>6, <1>7, <1>8 DEF AsyncInv

(* It is inductive.                                                        *)
LEMMA AsyncInvStep == AsyncInv /\ [Next]_vars => AsyncInv'
<1> SUFFICES ASSUME AsyncInv, [Next]_vars PROVE AsyncInv'
  OBVIOUS
<1>1. Core /\ Others
  BY DEF AsyncInv, Core
<1>2. Core'
  BY <1>1, CoreStep
<1>3. MemOK' /\ OverlayOK' /\ WaitOK' /\ ClientOK' /\ strayed' \in BOOLEAN
  BY <1>1, MemStep, OverlayStep, WaitStep, ClientStep, StrayedStep DEF Others
<1>4. Others'
  BY <1>3 DEF Others, MemOK, OverlayOK, WaitOK, ClientOK, QTDType, QHType
<1> QED BY <1>2, <1>4 DEF AsyncInv, Core

(* For any pipes, transfers and pool: every qTD is free, a dummy, in a     *)
(* queued or held transaction or the next dummy of one being written,      *)
(* once, and the calls under way and what they hold are as the code nests  *)
(* them.                                                                   *)
THEOREM AsyncInvAlways == Spec => []AsyncInv
<1>1. Init => AsyncInv
  BY InitAsyncInv
<1>2. AsyncInv /\ [Next]_vars => AsyncInv'
  BY AsyncInvStep
<1> QED BY <1>1, <1>2, PTL DEF Spec

-----------------------------------------------------------------------------
Kind(f) == (\E op \in {"rebuild", "link", "unlink"} : Waits(f, op)) \/ Submits(f) \/ Scans(f) \/ Aborts(f)

(* The calls that a submission stands on.                                  *)
LEMMA KindsBelow ==
  ASSUME NEW r \in Seq(FrameType), BelowSubmit(r)
  PROVE  \A f \in ToSet(r) : Kind(f)
<1>1. CASE r = <<>>
  BY <1>1 DEF ToSet
<1>2. CASE r # <<>>
  <2>1. ToSet(r) = {Head(r)} \cup ToSet(<<>>) /\ (Scans(Head(r)) \/ Aborts(Head(r)))
    BY <1>2, TailSet DEF BelowSubmit
  <2> QED BY <2>1 DEF Kind, ToSet
<1> QED BY <1>1, <1>2

(* Every call under way is one of those that Above lists.                  *)
LEMMA KindsOK ==
  ASSUME Nested
  PROVE  \A f \in Frames : f \in FrameType /\ Kind(f)
<1>1. CASE stack = <<>>
  BY <1>1, EmptyIs
<1>2. CASE stack # <<>>
  <2> DEFINE r == Tail(stack)
  <2>1. r \in Seq(FrameType) /\ Frames = {Top} \cup ToSet(r) /\ Top \in FrameType
    BY <1>2, StackIs DEF Rest
  <2>2. ToSet(<<>>) = {}
    BY DEF ToSet
  <2>3. Above(Top, r)
    BY <1>2 DEF Nested, Shaped, Top
  <2>4. Kind(Top)
    BY <2>3 DEF Above, Kind
  <2> HIDE DEF r
  <2>5. \A f \in ToSet(r) : Kind(f)
    <3>1. CASE r = <<>>
      BY <3>1, <2>2
    <3>2. CASE BelowSubmit(r)
      BY <3>2, <2>1, KindsBelow
    <3>3. CASE r # <<>> /\ ~BelowSubmit(r)
      <4>1. ToSet(r) = {Head(r)} \cup ToSet(Tail(r)) /\ Tail(r) \in Seq(FrameType)
        BY <3>3, <2>1, TailSet
      <4>2. BelowRebuild(r, Top.pipe)
        BY <2>3, <3>3 DEF Above
      <4>3. Kind(Head(r)) /\ (Tail(r) = <<>> \/ BelowSubmit(Tail(r)))
        BY <3>3, <4>2 DEF BelowRebuild, Kind
      <4>4. \A f \in ToSet(Tail(r)) : Kind(f)
        BY <4>1, <4>3, <2>2, KindsBelow
      <4> QED BY <4>1, <4>3, <4>4
    <3> QED BY <3>1, <3>2, <3>3
  <2>6. ToSet(stack) \in SUBSET FrameType
    BY MemberIs DEF Nested
  <2> QED BY <2>1, <2>4, <2>5, <2>6 DEF Frames
<1> QED BY <1>1, <1>2

(* What the invariant says of the sets of EveryQTDInOnePlace.              *)
LEMMA HeldIs ==
  ASSUME NEW f \in FrameType, Kind(f)
  PROVE  ToSet(Held(f)) = HeldBy(f) /\ HeldBy(f) \in SUBSET Transfer
<1>1. f.list \in Seq(Transfer)
  BY DEF FrameType
<1>2. CASE f.at \in {"fill", "complete", "callback"}
  <2>1. PICK x \in Transfer : x = f.x /\ x # None
    BY <1>2, Constants DEF Kind, Waits, Waiting, Submits, Scans, Aborts
  <2>2. Held(f) = <<x>> \o f.list
    BY <1>2, <2>1 DEF Held
  <2>3. ToSet(<<x>> \o f.list) = {x} \cup ToSet(f.list)
    BY <1>1, PushSet
  <2>4. ToSet(f.list) \in SUBSET Transfer
    BY <1>1, MemberIs
  <2> QED BY <1>2, <2>1, <2>2, <2>3, <2>4 DEF HeldBy
<1>3. CASE f.at \notin {"fill", "complete", "callback"}
  <2>1. Held(f) = f.list
    BY <1>1, <1>3 DEF Held
  <2>2. ToSet(f.list) \in SUBSET Transfer
    BY <1>1, MemberIs
  <2> QED BY <1>3, <2>1, <2>2 DEF HeldBy
<1> QED BY <1>2, <1>3

(* The invariant gives every variable its type.                            *)
LEMMA TypesFollow == AsyncInv => TypeOK
<1> SUFFICES ASSUME AsyncInv PROVE TypeOK
  OBVIOUS
<1>1. Nested /\ Queues /\ QTDs /\ Others
  BY DEF AsyncInv
<1>2. free \in Seq(QTD) /\ IsInjective(free) /\ open \in Seq(Pipe) /\ IsInjective(open)
  BY <1>1, MemberIs DEF Queues, QTDs
<1>3. ASSUME NEW i \in DOMAIN stack
      PROVE  /\ stack[i].at \in Points /\ stack[i].op \in Calls
             /\ stack[i].filled \in 0..MaxChunks
             /\ stack[i].x \in Transfer \cup {None}
  <2>1. stack[i] \in FrameType
    BY <1>1 DEF Nested
  <2> QED BY <2>1 DEF FrameType
<1> QED BY <1>1, <1>2, <1>3 DEF TypeOK, Queues, QTDs, Others

(* It implies EveryQTDInOnePlace.                                          *)
LEMMA OnePlaceFollows == AsyncInv => EveryQTDInOnePlace
<1> SUFFICES ASSUME AsyncInv PROVE EveryQTDInOnePlace
  OBVIOUS
<1> DEFINE frames  == {stack[i] : i \in DOMAIN stack}
           xs      == UNION ({ToSet(queue[p]) : p \in Pipe} \cup {ToSet(Held(f)) : f \in frames})
           chained == UNION {ToSet(chunks[x]) : x \in xs}
           filling == {f \in frames : f.at = "fill"}
           dummies == ({dummy[p] : p \in Pipe} \ {None})
           news    == {f.new : f \in filling}
           spare   == ToSet(free)
<1>1. Nested /\ CallsOK /\ Queues /\ QTDs
  BY DEF AsyncInv
<1>2. frames = Frames
  BY DEF Frames, ToSet
<1>3. \A f \in Frames : /\ f \in FrameType /\ ToSet(Held(f)) = HeldBy(f) /\ HeldBy(f) \in SUBSET Transfer
                        /\ f.at = "fill" => Submits(f)
  BY <1>1, KindsOK, HeldIs DEF Kind, Waits, Waiting, Scans, Aborts
<1> HIDE DEF frames
<1>4. \A x : x \in xs <=> x \in Transfer /\ Busy(x)
  <2>1. ASSUME NEW x \in xs PROVE x \in Transfer /\ Busy(x)
    <3>1. CASE \E p \in Pipe : x \in ToSet(queue[p])
      <4>1. \A p \in Pipe : ToSet(queue[p]) \in SUBSET Transfer
        BY <1>1, MemberIs DEF Queues
      <4> QED BY <3>1, <4>1 DEF Busy, Queued
    <3>2. CASE \E f \in frames : x \in ToSet(Held(f))
      BY <3>2, <1>2, <1>3 DEF Busy, HeldX
    <3> QED BY <3>1, <3>2
  <2>2. ASSUME NEW x \in Transfer, Busy(x) PROVE x \in xs
    BY <2>2, <1>2, <1>3 DEF Busy, Queued, HeldX
  <2> QED BY <2>1, <2>2
<1>5. \A t : t \in chained <=> \E x \in Transfer : Busy(x) /\ t \in ToSet(chunks[x])
  <2> HIDE DEF xs
  <2> QED BY <1>4
<1>6. \A t : t \in dummies <=> t # None /\ \E p \in Pipe : dummy[p] = t
  OBVIOUS
<1>7. \A t : t \in news <=> \E p \in Pipe, x \in Transfer : Writing(p, x, t)
  BY <1>2, <1>3 DEF Writing, Submits
<1>8. \A x, y \in xs : x # y => ToSet(chunks[x]) \cap ToSet(chunks[y]) = {}
  <2> HIDE DEF xs
  <2> QED BY <1>1, <1>4 DEF QTDs
<1>9. /\ \A t \in spare : t \in QTD
      /\ \A t \in chained : t \in QTD
      /\ \A t \in dummies : t \in QTD
      /\ \A t \in news : t \in QTD
  <2>1. \A x \in Transfer : ToSet(chunks[x]) \in SUBSET QTD
    BY <1>1, MemberIs DEF QTDs
  <2>2. ToSet(free) \in SUBSET QTD
    BY <1>1, MemberIs DEF QTDs
  <2>3. \A t \in dummies : t \in QTD
    BY <1>1 DEF Queues
  <2>4. \A t \in news : t \in QTD
    BY <1>2, <1>3 DEF Submits
  <2> HIDE DEF chained, xs, dummies, news
  <2> QED BY <1>5, <2>1, <2>2, <2>3, <2>4
<1>10. ASSUME NEW f \in filling
       PROVE  /\ f.pipe \in Pipe /\ f.x \in Transfer /\ f.new \in QTD /\ Writing(f.pipe, f.x, f.new)
              /\ Busy(f.x)
  BY <1>2, <1>3 DEF Writing, Submits, Busy, HeldX, HeldBy
<1>11. \A p \in Pipe, x \in Transfer, t \in QTD :
         Writing(p, x, t) => \E f \in filling : f.x = x /\ f.pipe = p /\ f.new = t
  BY <1>2 DEF Writing
<1> HIDE DEF chained, xs, dummies, news, filling, spare
<1>12. ASSUME NEW t \in QTD PROVE t \in spare \cup chained \cup dummies \cup news
  BY <1>1, <1>5, <1>6, <1>7, Constants DEF QTDs, spare
<1>13. ASSUME NEW t \in spare PROVE t \notin chained \cup dummies \cup news
  BY <1>1, <1>5, <1>6, <1>7, <1>9 DEF QTDs, spare
<1>14. ASSUME NEW t \in news PROVE t \notin chained \cup dummies
  BY <1>1, <1>5, <1>6, <1>7, <1>9 DEF QTDs
<1>15. ASSUME NEW t \in chained, t \in dummies PROVE t \in {Head(chunks[f.x]) : f \in filling}
  <2>1. PICK x \in Transfer : Busy(x) /\ t \in ToSet(chunks[x])
    BY <1>5
  <2>2. PICK p \in Pipe : dummy[p] = t
    BY <1>6, <1>15
  <2>3. PICK u \in QTD : Writing(p, x, u)
    BY <1>1, <2>1, <2>2 DEF QTDs
  <2>4. PICK f \in filling : f.x = x
    BY <2>3, <1>11
  <2>5. t = Head(chunks[x])
    BY <1>1, <2>2, <2>3 DEF QTDs
  <2> QED BY <2>4, <2>5
<1>16. ASSUME NEW f \in filling PROVE Head(chunks[f.x]) \in chained /\ Head(chunks[f.x]) \in dummies
  <2>1. PICK x \in Transfer : x = f.x
    BY <1>10
  <2>2. PICK p \in Pipe : p = f.pipe
    BY <1>10
  <2>3. chunks[x] \in Seq(QTD) /\ chunks[x] # <<>> /\ Busy(x)
    BY <1>1, <1>10, <2>1 DEF QTDs
  <2>4. Head(chunks[x]) \in ToSet(chunks[x]) /\ Head(chunks[x]) \in QTD
    BY <2>3, TailSet
  <2>5. dummy[p] = Head(chunks[x])
    BY <1>1, <1>10, <2>1, <2>2 DEF QTDs
  <2> QED BY <1>5, <1>6, <2>1, <2>3, <2>4, <2>5, Constants
<1>17. TypeOK
  BY TypesFollow
<1>18. spare \cup chained \cup dummies \cup news = QTD
  BY <1>9, <1>12
<1>19. spare \cap (chained \cup dummies \cup news) = {} /\ news \cap (chained \cup dummies) = {}
  BY <1>13, <1>14
<1>20. chained \cap dummies = {Head(chunks[f.x]) : f \in filling}
  BY <1>15, <1>16
<1> QED BY <1>8, <1>17, <1>18, <1>19, <1>20
     DEF EveryQTDInOnePlace, frames, xs, chained, filling, dummies, news, spare

(* For any pipes, transfers, sizes of the pool and of transactions, and    *)
(* whatever completions submit: every qTD is in one place, also after      *)
(* waits that time out, rolled back submissions, aborts and deletes        *)
(* (submitAsyncTransfer, releaseAsyncTransaction, releaseEndpointState).   *)
THEOREM QTDsInOnePlace == Spec => []EveryQTDInOnePlace
BY AsyncInvAlways, OnePlaceFollows, PTL

-----------------------------------------------------------------------------
(***************************************************************************)
(* What the controller works on.                                           *)
(***************************************************************************)

(* A chain is a sequence c of transactions with chunks ch, up to qTD e.    *)
In(ch, c, t) == \E i \in 1 .. Len(c) : t \in ToSet(ch[c[i]])

(* u comes after t in list s that goes on with h.                          *)
LinkIn(s, h, t, u) == \E k \in 1 .. Len(s) : t = s[k] /\ u = IF k < Len(s) THEN s[k + 1] ELSE h
NextHead(ch, c, e, i) == IF i < Len(c) THEN ch[c[i + 1]][1] ELSE e
After(ch, c, e, t, u) == \E i \in 1 .. Len(c) : LinkIn(ch[c[i]], NextHead(ch, c, e, i), t, u)
FirstOn(ch, c, e) == IF c = <<>> THEN e ELSE ch[c[1]][1]

Parted(ch, c) == \A i, j \in 1 .. Len(c) : i # j => ToSet(ch[c[i]]) \cap ToSet(ch[c[j]]) = {}
Clean(ch, c, e) ==
  /\ c \in Seq(Transfer) /\ e \in QTD /\ ~In(ch, c, e)
  /\ \A i \in 1 .. Len(c) : ch[c[i]] \in Seq(QTD) /\ ch[c[i]] # <<>> /\ Distinct(ch[c[i]])
  /\ Parted(ch, c)

(* A list without repetition has each at one place.                        *)
LEMMA LinkFacts ==
  ASSUME NEW s \in Seq(QTD), s # <<>>, Distinct(s), NEW h \in QTD, h \notin ToSet(s)
  PROVE  /\ \A t, u : LinkIn(s, h, t, u) =>
              /\ t \in ToSet(s) /\ u # t /\ u # s[1]
              /\ u \in ToSet(s) \/ u = h
         /\ \A t, u, v : LinkIn(s, h, t, u) /\ LinkIn(s, h, t, v) => u = v
         /\ \A t, u, v : LinkIn(s, h, t, u) /\ LinkIn(s, h, v, u) => t = v
         /\ \A t \in ToSet(s) : \E u \in QTD : LinkIn(s, h, t, u)
         /\ s[1] \in ToSet(s)
<1>1. PICK n \in Nat : n = Len(s)
  BY LengthIs
<1>2. n >= 1
  BY <1>1
<1>3. /\ \A i \in 1 .. n : s[i] \in ToSet(s) /\ s[i] \in QTD
      /\ \A t \in ToSet(s) : \E i \in 1 .. n : s[i] = t
  BY <1>1, MemberIs
<1>4. \A i, j \in 1 .. n : s[i] = s[j] => i = j
  BY <1>1 DEF Distinct
<1>5. \A t, u : LinkIn(s, h, t, u) <=> \E k \in 1 .. n : t = s[k] /\ u = IF k < n THEN s[k + 1] ELSE h
  BY <1>1 DEF LinkIn
<1>6. \A k \in 1 .. n : k < n => k + 1 \in 1 .. n /\ k + 1 # k /\ k + 1 # 1
  BY <1>2
<1>7. 1 \in 1 .. n
  BY <1>2
<1>8. ASSUME NEW t, NEW u, LinkIn(s, h, t, u)
      PROVE  t \in ToSet(s) /\ u # t /\ u # s[1] /\ (u \in ToSet(s) \/ u = h)
  <2>1. PICK k \in 1 .. n : t = s[k] /\ u = IF k < n THEN s[k + 1] ELSE h
    BY <1>5, <1>8
  <2>2. CASE k < n
    BY <2>1, <2>2, <1>3, <1>4, <1>6, <1>7
  <2>3. CASE ~(k < n)
    BY <2>1, <2>3, <1>3, <1>7
  <2> QED BY <2>2, <2>3
<1>9. ASSUME NEW t, NEW u, NEW v, LinkIn(s, h, t, u), LinkIn(s, h, t, v) PROVE u = v
  BY <1>4, <1>5, <1>9
<1>10. ASSUME NEW t, NEW u, NEW v, LinkIn(s, h, t, u), LinkIn(s, h, v, u) PROVE t = v
  <2>1. PICK k \in 1 .. n : t = s[k] /\ u = IF k < n THEN s[k + 1] ELSE h
    BY <1>5, <1>10
  <2>2. PICK l \in 1 .. n : v = s[l] /\ u = IF l < n THEN s[l + 1] ELSE h
    BY <1>5, <1>10
  <2>3. CASE k < n /\ l < n
    <3>1. k + 1 = l + 1
      BY <2>1, <2>2, <2>3, <1>4, <1>6
    <3> QED BY <3>1, <2>1, <2>2
  <2>4. CASE k < n /\ ~(l < n)
    BY <2>1, <2>2, <2>4, <1>3, <1>6
  <2>5. CASE ~(k < n) /\ l < n
    BY <2>1, <2>2, <2>5, <1>3, <1>6
  <2>6. CASE ~(k < n) /\ ~(l < n)
    BY <2>1, <2>2, <2>6
  <2> QED BY <2>3, <2>4, <2>5, <2>6
<1>11. ASSUME NEW t \in ToSet(s) PROVE \E u \in QTD : LinkIn(s, h, t, u)
  <2>1. PICK k \in 1 .. n : s[k] = t
    BY <1>3
  <2>2. (IF k < n THEN s[k + 1] ELSE h) \in QTD
    BY <1>3, <1>6
  <2> QED BY <1>5, <2>1, <2>2
<1> QED BY <1>3, <1>7, <1>8, <1>9, <1>10, <1>11

(* Where a transaction's list goes on.                                     *)
LEMMA HeadFacts ==
  ASSUME NEW ch, NEW c, NEW e, Clean(ch, c, e)
  PROVE  \A i \in 1 .. Len(c) :
           /\ NextHead(ch, c, e, i) \in QTD /\ NextHead(ch, c, e, i) \notin ToSet(ch[c[i]])
           /\ \/ NextHead(ch, c, e, i) = e
              \/ \E j \in 1 .. Len(c) : j = i + 1 /\ NextHead(ch, c, e, i) = ch[c[j]][1]
                                        /\ ch[c[j]][1] \in ToSet(ch[c[j]])
           /\ \A j \in 1 .. Len(c) : NextHead(ch, c, e, i) = NextHead(ch, c, e, j) => i = j
<1>1. PICK n \in Nat : n = Len(c)
  BY LengthIs DEF Clean
<1>2. \A i \in 1 .. n : ch[c[i]][1] \in QTD /\ ch[c[i]][1] \in ToSet(ch[c[i]])
  <2> SUFFICES ASSUME NEW i \in 1 .. n PROVE ch[c[i]][1] \in QTD /\ ch[c[i]][1] \in ToSet(ch[c[i]])
    OBVIOUS
  <2>1. PICK s : s = ch[c[i]]
    OBVIOUS
  <2>2. s \in Seq(QTD) /\ s # <<>>
    BY <1>1, <2>1 DEF Clean
  <2>3. PICK m \in Nat : m = Len(s)
    BY <2>2, LengthIs
  <2>4. 1 \in 1 .. m
    BY <2>2, <2>3
  <2> QED BY <2>1, <2>2, <2>3, <2>4, MemberIs
<1>3. \A i \in 1 .. n : e \notin ToSet(ch[c[i]])
  BY <1>1 DEF Clean, In
<1>4. \A i, j \in 1 .. n : i # j => ToSet(ch[c[i]]) \cap ToSet(ch[c[j]]) = {}
  BY <1>1 DEF Clean, Parted
<1>5. \A i \in 1 .. n : i < n => i + 1 \in 1 .. n /\ i + 1 # i
  OBVIOUS
<1>6. \A i \in 1 .. n : NextHead(ch, c, e, i) = IF i < n THEN ch[c[i + 1]][1] ELSE e
  BY <1>1 DEF NextHead
<1>7. e \in QTD
  BY DEF Clean
<1>8. ASSUME NEW i \in 1 .. n
      PROVE /\ NextHead(ch, c, e, i) \in QTD /\ NextHead(ch, c, e, i) \notin ToSet(ch[c[i]])
            /\ \/ NextHead(ch, c, e, i) = e
               \/ \E j \in 1 .. n : j = i + 1 /\ NextHead(ch, c, e, i) = ch[c[j]][1]
                                    /\ ch[c[j]][1] \in ToSet(ch[c[j]])
            /\ \A j \in 1 .. n : NextHead(ch, c, e, i) = NextHead(ch, c, e, j) => i = j
  <2>1. CASE i < n
    <3>1. PICK k \in 1 .. n : k = i + 1 /\ k # i
      BY <2>1, <1>5
    <3>2. NextHead(ch, c, e, i) = ch[c[k]][1]
      BY <1>6, <2>1, <3>1
    <3>3. ASSUME NEW j \in 1 .. n, NextHead(ch, c, e, i) = NextHead(ch, c, e, j) PROVE i = j
      <4>1. CASE j < n
        <5>1. PICK l \in 1 .. n : l = j + 1
          BY <4>1, <1>5
        <5>2. ch[c[k]][1] = ch[c[l]][1]
          BY <3>2, <3>3, <1>6, <4>1, <5>1
        <5>3. k = l
          BY <5>2, <1>2, <1>4
        <5> QED BY <5>1, <5>3, <3>1
      <4>2. CASE ~(j < n)
        BY <4>2, <3>2, <3>3, <1>2, <1>3, <1>6
      <4> QED BY <4>1, <4>2
    <3>4. ch[c[k]][1] \notin ToSet(ch[c[i]])
      BY <1>2, <1>4, <3>1
    <3> QED BY <3>1, <3>2, <3>3, <3>4, <1>2
  <2>2. CASE ~(i < n)
    <3>1. NextHead(ch, c, e, i) = e
      BY <2>2, <1>6
    <3>2. ASSUME NEW j \in 1 .. n, NextHead(ch, c, e, j) = e PROVE i = j
      <4>1. CASE j < n
        <5>1. NextHead(ch, c, e, j) = ch[c[j + 1]][1] /\ j + 1 \in 1 .. n
          BY <4>1, <1>5, <1>6
        <5> QED BY <5>1, <3>2, <1>2, <1>3
      <4>2. CASE ~(j < n)
        BY <4>2, <2>2
      <4> QED BY <4>1, <4>2
    <3> QED BY <3>1, <3>2, <1>3, <1>7
  <2> QED BY <2>1, <2>2
<1> QED BY <1>1, <1>8

(* What comes after what in a chain.                                       *)
LEMMA ChainFacts ==
  ASSUME NEW ch, NEW c, NEW e, Clean(ch, c, e)
  PROVE  /\ \A t, u : After(ch, c, e, t, u) =>
              In(ch, c, t) /\ u \in QTD /\ u # t /\ (In(ch, c, u) \/ u = e)
         /\ \A t, u, v : After(ch, c, e, t, u) /\ After(ch, c, e, t, v) => u = v
         /\ \A t, u, v : After(ch, c, e, t, u) /\ After(ch, c, e, v, u) => t = v
         /\ \A t : In(ch, c, t) => t \in QTD /\ \E u \in QTD : After(ch, c, e, t, u)
         /\ \A t : ~After(ch, c, e, t, FirstOn(ch, c, e))
         /\ FirstOn(ch, c, e) \in QTD /\ (In(ch, c, FirstOn(ch, c, e)) \/ FirstOn(ch, c, e) = e)
<1>1. PICK n \in Nat : n = Len(c)
  BY LengthIs DEF Clean
<1> DEFINE s(i) == ch[c[i]]
           h(i) == NextHead(ch, c, e, i)
<1>2. \A i \in 1 .. n : s(i) \in Seq(QTD) /\ s(i) # <<>> /\ Distinct(s(i)) /\ s(i)[1] \in QTD
  <2>1. \A i \in 1 .. n : s(i) \in Seq(QTD) /\ s(i) # <<>> /\ Distinct(s(i))
    BY <1>1 DEF Clean
  <2> HIDE DEF s
  <2>2. \A i \in 1 .. n : s(i)[1] = Head(s(i)) /\ Head(s(i)) \in QTD
    BY <2>1
  <2> QED BY <2>1, <2>2
<1>3. \A i \in 1 .. n :
        /\ h(i) \in QTD /\ h(i) \notin ToSet(s(i))
        /\ \/ h(i) = e
           \/ \E j \in 1 .. n : j = i + 1 /\ h(i) = s(j)[1] /\ s(j)[1] \in ToSet(s(j))
        /\ \A j \in 1 .. n : h(i) = h(j) => i = j
  BY <1>1, HeadFacts
<1>4. \A t : In(ch, c, t) <=> \E i \in 1 .. n : t \in ToSet(s(i))
  BY <1>1 DEF In
<1>5. \A t, u : After(ch, c, e, t, u) <=> \E i \in 1 .. n : LinkIn(s(i), h(i), t, u)
  BY <1>1 DEF After
<1>6. \A i, j \in 1 .. n : i # j => ToSet(s(i)) \cap ToSet(s(j)) = {}
  BY <1>1 DEF Clean, Parted
<1>7. e \in QTD /\ \A i \in 1 .. n : e \notin ToSet(s(i))
  BY <1>4 DEF Clean
<1>8. c # <<>> => 1 \in 1 .. n
  BY <1>1 DEF Clean
<1>9. FirstOn(ch, c, e) = IF c = <<>> THEN e ELSE s(1)[1]
  BY DEF FirstOn
<1>20. ASSUME NEW i \in 1 .. n
       PROVE  ToSet(s(i)) \subseteq QTD
  BY <1>2, <1>20, MemberIs
<1> HIDE DEF s, h
<1>10. ASSUME NEW i \in 1 .. n
       PROVE  /\ \A t, u : LinkIn(s(i), h(i), t, u) =>
                   /\ t \in ToSet(s(i)) /\ u # t /\ u # s(i)[1]
                   /\ u \in ToSet(s(i)) \/ u = h(i)
              /\ \A t, u, v : LinkIn(s(i), h(i), t, u) /\ LinkIn(s(i), h(i), t, v) => u = v
              /\ \A t, u, v : LinkIn(s(i), h(i), t, u) /\ LinkIn(s(i), h(i), v, u) => t = v
              /\ \A t \in ToSet(s(i)) : \E u \in QTD : LinkIn(s(i), h(i), t, u)
              /\ s(i)[1] \in ToSet(s(i))
  <2>1. s(i) \in Seq(QTD) /\ s(i) # <<>> /\ Distinct(s(i)) /\ h(i) \in QTD /\ h(i) \notin ToSet(s(i))
    BY <1>2, <1>3
  <2> QED BY <2>1, LinkFacts
<1>11. ASSUME NEW t, NEW u, After(ch, c, e, t, u)
       PROVE  In(ch, c, t) /\ u \in QTD /\ u # t /\ (In(ch, c, u) \/ u = e)
  <2>1. PICK i \in 1 .. n : LinkIn(s(i), h(i), t, u)
    BY <1>5, <1>11
  <2>2. t \in ToSet(s(i)) /\ u # t /\ (u \in ToSet(s(i)) \/ u = h(i))
    BY <2>1, <1>10
  <2>3. CASE u \in ToSet(s(i))
    BY <2>2, <2>3, <1>4, <1>20
  <2>4. CASE u = h(i)
    <3>1. u \in QTD
      BY <2>4, <1>3
    <3>2. CASE h(i) = e
      BY <3>1, <3>2, <2>2, <2>4, <1>4
    <3>3. CASE \E j \in 1 .. n : j = i + 1 /\ h(i) = s(j)[1] /\ s(j)[1] \in ToSet(s(j))
      BY <3>1, <3>3, <2>2, <2>4, <1>4
    <3> QED BY <3>2, <3>3, <1>3
  <2> QED BY <2>2, <2>3, <2>4
<1>12. ASSUME NEW t, NEW u, NEW v, After(ch, c, e, t, u), After(ch, c, e, t, v) PROVE u = v
  <2>1. PICK i \in 1 .. n : LinkIn(s(i), h(i), t, u)
    BY <1>5, <1>12
  <2>2. PICK j \in 1 .. n : LinkIn(s(j), h(j), t, v)
    BY <1>5, <1>12
  <2>3. i = j
    BY <2>1, <2>2, <1>10, <1>6
  <2> QED BY <2>1, <2>2, <2>3, <1>10
<1>13. ASSUME NEW t, NEW u, NEW v, After(ch, c, e, t, u), After(ch, c, e, v, u) PROVE t = v
  <2>1. PICK i \in 1 .. n : LinkIn(s(i), h(i), t, u)
    BY <1>5, <1>13
  <2>2. PICK j \in 1 .. n : LinkIn(s(j), h(j), v, u)
    BY <1>5, <1>13
  <2>3. u # s(i)[1] /\ (u \in ToSet(s(i)) \/ u = h(i))
    BY <2>1, <1>10
  <2>4. u # s(j)[1] /\ (u \in ToSet(s(j)) \/ u = h(j))
    BY <2>2, <1>10
  <2>5. i = j
    <3>1. CASE u \in ToSet(s(i)) /\ u \in ToSet(s(j))
      BY <3>1, <1>6
    <3>2. CASE u \in ToSet(s(i)) /\ u = h(j)
      <4>1. u # e
        BY <3>2, <1>7
      <4>2. PICK k \in 1 .. n : h(j) = s(k)[1] /\ s(k)[1] \in ToSet(s(k))
        BY <4>1, <3>2, <1>3
      <4>3. k = i
        BY <4>2, <3>2, <1>6
      <4> QED BY <4>2, <4>3, <3>2, <2>3
    <3>3. CASE u = h(i) /\ u \in ToSet(s(j))
      <4>1. u # e
        BY <3>3, <1>7
      <4>2. PICK k \in 1 .. n : h(i) = s(k)[1] /\ s(k)[1] \in ToSet(s(k))
        BY <4>1, <3>3, <1>3
      <4>3. k = j
        BY <4>2, <3>3, <1>6
      <4> QED BY <4>2, <4>3, <3>3, <2>4
    <3>4. CASE u = h(i) /\ u = h(j)
      BY <3>4, <1>3
    <3> QED BY <3>1, <3>2, <3>3, <3>4, <2>3, <2>4
  <2> QED BY <2>1, <2>2, <2>5, <1>10
<1>14. ASSUME NEW t, In(ch, c, t) PROVE t \in QTD /\ \E u \in QTD : After(ch, c, e, t, u)
  <2>1. PICK i \in 1 .. n : t \in ToSet(s(i))
    BY <1>4, <1>14
  <2>2. PICK u \in QTD : LinkIn(s(i), h(i), t, u)
    BY <2>1, <1>10
  <2> QED BY <2>1, <2>2, <1>5, <1>20
<1>15. ASSUME NEW t, After(ch, c, e, t, FirstOn(ch, c, e)) PROVE FALSE
  <2>1. PICK i \in 1 .. n : LinkIn(s(i), h(i), t, FirstOn(ch, c, e))
    BY <1>5, <1>15
  <2>2. c # <<>> /\ 1 \in 1 .. n
    BY <2>1, <1>1, <1>8
  <2>3. LinkIn(s(i), h(i), t, s(1)[1])
    BY <2>1, <2>2, <1>9
  <2>4. s(1)[1] # s(i)[1] /\ (s(1)[1] \in ToSet(s(i)) \/ s(1)[1] = h(i))
    BY <2>3, <1>10
  <2>5. s(1)[1] \in ToSet(s(1)) /\ s(1)[1] # e
    BY <2>2, <1>10, <1>7
  <2>6. i # 1
    BY <2>4
  <2>7. s(1)[1] = h(i)
    BY <2>2, <2>4, <2>5, <2>6, <1>6
  <2>8. PICK j \in 1 .. n : j = i + 1 /\ h(i) = s(j)[1] /\ s(j)[1] \in ToSet(s(j))
    BY <2>5, <2>7, <1>3
  <2>9. j = 1
    BY <2>2, <2>5, <2>7, <2>8, <1>6
  <2> QED BY <2>8, <2>9
<1>16. FirstOn(ch, c, e) \in QTD /\ (In(ch, c, FirstOn(ch, c, e)) \/ FirstOn(ch, c, e) = e)
  <2>1. CASE c = <<>>
    BY <2>1, <1>7, <1>9
  <2>2. CASE c # <<>>
    BY <2>2, <1>2, <1>4, <1>8, <1>9, <1>10
  <2> QED BY <2>1, <2>2
<1> QED BY <1>11, <1>12, <1>13, <1>14, <1>15, <1>16

(* Chains are the same when their transactions' lists are.                 *)
LEMMA SameChain ==
  ASSUME NEW ch, NEW dh, NEW c \in Seq(Transfer), NEW e, \A i \in 1 .. Len(c) : dh[c[i]] = ch[c[i]]
  PROVE  /\ \A t : In(dh, c, t) <=> In(ch, c, t)
         /\ \A t, u : After(dh, c, e, t, u) <=> After(ch, c, e, t, u)
         /\ FirstOn(dh, c, e) = FirstOn(ch, c, e)
<1>1. PICK n \in Nat : n = Len(c)
  BY LengthIs
<1>2. \A i \in 1 .. n : dh[c[i]] = ch[c[i]]
  BY <1>1
<1>3. \A i \in 1 .. n : i < n => i + 1 \in 1 .. n
  OBVIOUS
<1>4. c # <<>> => 1 \in 1 .. n
  BY <1>1
<1>5. \A t : In(dh, c, t) <=> In(ch, c, t)
  BY <1>1, <1>2 DEF In
<1>6. \A i \in 1 .. n : NextHead(dh, c, e, i) = NextHead(ch, c, e, i)
  BY <1>1, <1>2, <1>3 DEF NextHead
<1>7. \A t, u : After(dh, c, e, t, u) <=> After(ch, c, e, t, u)
  BY <1>1, <1>2, <1>6 DEF After
<1>8. FirstOn(dh, c, e) = FirstOn(ch, c, e)
  BY <1>2, <1>4 DEF FirstOn
<1> QED BY <1>5, <1>7, <1>8

(* The end of a chain is a chain.                                          *)
LEMMA JoinChain ==
  ASSUME NEW ch, NEW h \in Seq(Transfer), NEW r \in Seq(Transfer), NEW e
  PROVE  /\ \A t : In(ch, h \o r, t) <=> In(ch, h, t) \/ In(ch, r, t)
         /\ \A t, u : After(ch, r, e, t, u) => After(ch, h \o r, e, t, u)
         /\ Clean(ch, h \o r, e) => Clean(ch, r, e) /\ \A t : In(ch, h, t) => ~In(ch, r, t)
<1>1. PICK a \in Nat : a = Len(h)
  BY LengthIs
<1>2. PICK b \in Nat : b = Len(r)
  BY LengthIs
<1> DEFINE c == h \o r
<1>3. c \in Seq(Transfer) /\ Len(c) = a + b
  BY <1>1, <1>2
<1>4. /\ \A i \in 1 .. a : c[i] = h[i]
      /\ \A i \in 1 .. b : c[a + i] = r[i]
  BY <1>1, <1>2
<1>5. /\ \A i \in 1 .. a : i \in 1 .. a + b
      /\ \A i \in 1 .. b : a + i \in 1 .. a + b
      /\ \A i \in 1 .. a + b : i \in 1 .. a \/ \E j \in 1 .. b : i = a + j
  <2>1. ASSUME NEW i \in 1 .. a + b, i \notin 1 .. a PROVE \E j \in 1 .. b : i = a + j
    <3>1. i - a \in 1 .. b /\ i = a + (i - a)
      BY <2>1
    <3> QED BY <3>1
  <2> QED BY <2>1
<1> HIDE DEF c
<1>6. \A t : In(ch, c, t) <=> In(ch, h, t) \/ In(ch, r, t)
  <2> SUFFICES ASSUME NEW t PROVE In(ch, c, t) <=> In(ch, h, t) \/ In(ch, r, t)
    OBVIOUS
  <2>1. In(ch, c, t) <=> \E i \in 1 .. a + b : t \in ToSet(ch[c[i]])
    BY <1>3 DEF In
  <2>2. In(ch, h, t) <=> \E i \in 1 .. a : t \in ToSet(ch[c[i]])
    BY <1>1, <1>4 DEF In
  <2>3. In(ch, r, t) <=> \E i \in 1 .. b : t \in ToSet(ch[c[a + i]])
    BY <1>2, <1>4 DEF In
  <2> QED BY <2>1, <2>2, <2>3, <1>5
<1>7. \A i \in 1 .. b : NextHead(ch, c, e, a + i) = NextHead(ch, r, e, i)
  <2> SUFFICES ASSUME NEW i \in 1 .. b PROVE NextHead(ch, c, e, a + i) = NextHead(ch, r, e, i)
    OBVIOUS
  <2>1. CASE i < b
    <3>1. i + 1 \in 1 .. b /\ a + (i + 1) = (a + i) + 1 /\ a + i < a + b
      BY <2>1
    <3>2. c[(a + i) + 1] = r[i + 1]
      BY <3>1, <1>4
    <3> QED BY <2>1, <3>1, <3>2, <1>2, <1>3 DEF NextHead
  <2>2. CASE ~(i < b)
    <3>1. ~(a + i < a + b)
      BY <2>2
    <3> QED BY <2>2, <3>1, <1>2, <1>3 DEF NextHead
  <2> QED BY <2>1, <2>2
<1>8. ASSUME NEW t, NEW u, After(ch, r, e, t, u) PROVE After(ch, c, e, t, u)
  <2>1. PICK i \in 1 .. b : LinkIn(ch[r[i]], NextHead(ch, r, e, i), t, u)
    BY <1>2, <1>8 DEF After
  <2>2. LinkIn(ch[c[a + i]], NextHead(ch, c, e, a + i), t, u) /\ a + i \in 1 .. Len(c)
    BY <2>1, <1>3, <1>4, <1>5, <1>7
  <2> QED BY <2>2 DEF After
<1>9. ASSUME Clean(ch, c, e) PROVE Clean(ch, r, e) /\ \A t : In(ch, h, t) => ~In(ch, r, t)
  <2>1. \A i \in 1 .. a + b : ch[c[i]] \in Seq(QTD) /\ ch[c[i]] # <<>> /\ Distinct(ch[c[i]])
    BY <1>3, <1>9 DEF Clean
  <2>2. \A i, j \in 1 .. a + b : i # j => ToSet(ch[c[i]]) \cap ToSet(ch[c[j]]) = {}
    BY <1>3, <1>9 DEF Clean, Parted
  <2>3. e \in QTD /\ ~In(ch, r, e)
    BY <1>6, <1>9 DEF Clean
  <2>4. \A i \in 1 .. b : ch[r[i]] \in Seq(QTD) /\ ch[r[i]] # <<>> /\ Distinct(ch[r[i]])
    BY <2>1, <1>4, <1>5
  <2>5. \A i, j \in 1 .. b : i # j => ToSet(ch[r[i]]) \cap ToSet(ch[r[j]]) = {}
    <3> SUFFICES ASSUME NEW i \in 1 .. b, NEW j \in 1 .. b, i # j
                 PROVE  ToSet(ch[r[i]]) \cap ToSet(ch[r[j]]) = {}
      OBVIOUS
    <3>1. a + i \in 1 .. a + b /\ a + j \in 1 .. a + b /\ a + i # a + j
      BY <1>5
    <3>2. ToSet(ch[c[a + i]]) \cap ToSet(ch[c[a + j]]) = {}
      BY <2>2, <3>1
    <3> QED BY <3>2, <1>4
  <2>6. Clean(ch, r, e)
    BY <2>3, <2>4, <2>5, <1>2 DEF Clean, Parted
  <2>7. ASSUME NEW t, In(ch, h, t), In(ch, r, t) PROVE FALSE
    <3>1. PICK i \in 1 .. a : t \in ToSet(ch[c[i]])
      BY <2>7, <1>1, <1>4 DEF In
    <3>2. PICK j \in 1 .. b : t \in ToSet(ch[c[a + j]])
      BY <2>7, <1>2, <1>4 DEF In
    <3>3. i \in 1 .. a + b /\ a + j \in 1 .. a + b /\ i # a + j
      BY <1>5
    <3> QED BY <3>1, <3>2, <3>3, <2>2
  <2> QED BY <2>6, <2>7
<1> QED BY <1>6, <1>8, <1>9 DEF c

(* A transaction is added, whose first qTD is where the chain ended.       *)
LEMMA AppendChain ==
  ASSUME NEW ch, NEW dh, NEW c \in Seq(Transfer), NEW x \in Transfer, NEW e, NEW f,
         \A i \in 1 .. Len(c) : dh[c[i]] = ch[c[i]], dh[x][1] = e
  PROVE  /\ Append(c, x) \in Seq(Transfer)
         /\ \A t : In(dh, Append(c, x), t) <=> In(ch, c, t) \/ t \in ToSet(dh[x])
         /\ \A t, u : After(dh, Append(c, x), f, t, u) <=> After(ch, c, e, t, u) \/ LinkIn(dh[x], f, t, u)
<1>1. PICK n \in Nat : n = Len(c)
  BY LengthIs
<1> DEFINE d == Append(c, x)
<1>2. d \in Seq(Transfer) /\ Len(d) = n + 1 /\ d[n + 1] = x /\ \A i \in 1 .. n : d[i] = c[i]
  BY <1>1
<1> HIDE DEF d
<1>3. /\ \A i \in 1 .. n : i \in 1 .. n + 1 /\ i < n + 1
      /\ n + 1 \in 1 .. n + 1 /\ ~(n + 1 < n + 1)
      /\ \A i \in 1 .. n + 1 : i \in 1 .. n \/ i = n + 1
  OBVIOUS
<1>4. \A i \in 1 .. n : dh[d[i]] = ch[c[i]]
  BY <1>1, <1>2
<1>5. \A t : In(dh, d, t) <=> In(ch, c, t) \/ t \in ToSet(dh[x])
  <2> SUFFICES ASSUME NEW t PROVE In(dh, d, t) <=> In(ch, c, t) \/ t \in ToSet(dh[x])
    OBVIOUS
  <2>1. In(dh, d, t) <=> \E i \in 1 .. n + 1 : t \in ToSet(dh[d[i]])
    BY <1>2 DEF In
  <2>2. In(ch, c, t) <=> \E i \in 1 .. n : t \in ToSet(dh[d[i]])
    BY <1>1, <1>4 DEF In
  <2> QED BY <2>1, <2>2, <1>2, <1>3
<1>6. \A i \in 1 .. n : NextHead(dh, d, f, i) = NextHead(ch, c, e, i)
  <2> SUFFICES ASSUME NEW i \in 1 .. n PROVE NextHead(dh, d, f, i) = NextHead(ch, c, e, i)
    OBVIOUS
  <2>1. NextHead(dh, d, f, i) = dh[d[i + 1]][1]
    BY <1>2, <1>3 DEF NextHead
  <2>2. CASE i < n
    <3>1. i + 1 \in 1 .. n
      BY <2>2
    <3> QED BY <2>1, <2>2, <3>1, <1>1, <1>4 DEF NextHead
  <2>3. CASE ~(i < n)
    <3>1. i + 1 = n + 1
      BY <2>3
    <3> QED BY <2>1, <2>3, <3>1, <1>1, <1>2 DEF NextHead
  <2> QED BY <2>2, <2>3
<1>7. NextHead(dh, d, f, n + 1) = f
  BY <1>2, <1>3 DEF NextHead
<1>8. ASSUME NEW t, NEW u
      PROVE  After(dh, d, f, t, u) <=> After(ch, c, e, t, u) \/ LinkIn(dh[x], f, t, u)
  <2>1. After(dh, d, f, t, u) <=> \E i \in 1 .. n + 1 : LinkIn(dh[d[i]], NextHead(dh, d, f, i), t, u)
    BY <1>2 DEF After
  <2>2. After(ch, c, e, t, u) <=> \E i \in 1 .. n : LinkIn(dh[d[i]], NextHead(dh, d, f, i), t, u)
    BY <1>1, <1>4, <1>6 DEF After
  <2> QED BY <2>1, <2>2, <1>2, <1>3, <1>7
<1> QED BY <1>2, <1>5, <1>8 DEF d

Fresh   == {"idle", "active"}
Retired == {"done", "short", "error"}

(* All that come before t are retired.                                     *)
Passed(ch, c, e, m, t) == \A u \in QTD : After(ch, c, e, u, t) => m[u].token \in Retired

(* qTDs m hold the chain as far as it is written, and queue head o follows *)
(* it: what it works on is active, what it comes to next was not retired   *)
(* yet, unless the pipe is lost (l).                                       *)
LinksOK(ch, c, e, m) ==
  \A t, u \in QTD : After(ch, c, e, t, u) =>
    /\ m[t].token # "idle" => m[t].next = u
    /\ m[t].token = "active" => m[u].token \in Fresh
WorksOK(ch, c, e, m, o) ==
  o.token = "active" =>
    /\ In(ch, c, o.cur) /\ m[o.cur].token = "active" /\ o.next = m[o.cur].next
    /\ Passed(ch, c, e, m, o.cur)
WaitsOK(ch, c, e, m, o, l) ==
  o.token = "idle" =>
    /\ In(ch, c, o.next) \/ o.next = e
    /\ m[o.next].token \in Fresh \/ l
    /\ Passed(ch, c, e, m, o.next)
Good(ch, c, e, m, o, l) == LinksOK(ch, c, e, m) /\ WorksOK(ch, c, e, m, o) /\ WaitsOK(ch, c, e, m, o, l)

(* Nothing of the chain changes.                                           *)
LEMMA GoodKeeps ==
  ASSUME NEW ch, NEW dh, NEW c, NEW e, NEW m, NEW n, NEW o, NEW l, NEW k,
         Clean(ch, c, e), Good(ch, c, e, m, o, l), l => k,
         \A i \in 1 .. Len(c) : dh[c[i]] = ch[c[i]],
         \A t \in QTD : In(ch, c, t) \/ t = e => n[t] = m[t]
  PROVE  Good(dh, c, e, n, o, k)
<1>1. c \in Seq(Transfer)
  BY DEF Clean
<1>2. /\ \A t : In(dh, c, t) <=> In(ch, c, t)
      /\ \A t, u : After(dh, c, e, t, u) <=> After(ch, c, e, t, u)
  BY <1>1, SameChain
<1>3. /\ \A t, u : After(ch, c, e, t, u) => In(ch, c, t) /\ u \in QTD /\ (In(ch, c, u) \/ u = e)
      /\ \A t : In(ch, c, t) => t \in QTD
  BY ChainFacts
<1>4. e \in QTD
  BY DEF Clean
<1>5. \A t \in QTD : Passed(ch, c, e, m, t) => Passed(dh, c, e, n, t)
  BY <1>2, <1>3 DEF Passed
<1>6. LinksOK(dh, c, e, n)
  BY <1>2, <1>3 DEF LinksOK, Good
<1>7. WorksOK(dh, c, e, n, o)
  BY <1>2, <1>3, <1>5 DEF WorksOK, Good
<1>8. WaitsOK(dh, c, e, n, o, k)
  <2>1. In(ch, c, o.next) \/ o.next = e => o.next \in QTD /\ n[o.next] = m[o.next]
    BY <1>3, <1>4
  <2> QED BY <1>2, <1>3, <1>5, <2>1 DEF WaitsOK, Good
<1> QED BY <1>6, <1>7, <1>8 DEF Good

(* A queue head at the end of an empty chain.                              *)
LEMMA GoodStart ==
  ASSUME NEW ch, NEW e \in QTD, NEW m, m[e].token = "idle", NEW l
  PROVE  Good(ch, <<>>, e, m, [NoQH EXCEPT !.next = e], l)
<1>1. \A t, u : ~After(ch, <<>>, e, t, u)
  BY DEF After
<1>2. [NoQH EXCEPT !.next = e] = [cur |-> None, next |-> e, token |-> "idle"]
  BY DEF NoQH
<1> QED BY <1>1, <1>2 DEF Good, LinksOK, WorksOK, WaitsOK, Passed, Fresh

(* A queue head is rebuilt to start at what is left of its chain.          *)
LEMMA GoodRestart ==
  ASSUME NEW ch, NEW h \in Seq(Transfer), NEW r \in Seq(Transfer), NEW e, NEW m, NEW o, NEW l, NEW k,
         Clean(ch, h \o r, e), Good(ch, h \o r, e, m, o, l),
         m[FirstOn(ch, r, e)].token \in Fresh \/ k
  PROVE  Good(ch, r, e, m, [NoQH EXCEPT !.next = FirstOn(ch, r, e)], k)
<1>1. /\ \A t, u : After(ch, r, e, t, u) => After(ch, h \o r, e, t, u)
      /\ Clean(ch, r, e)
  BY JoinChain
<1>2. /\ \A t : ~After(ch, r, e, t, FirstOn(ch, r, e))
      /\ In(ch, r, FirstOn(ch, r, e)) \/ FirstOn(ch, r, e) = e
  BY <1>1, ChainFacts
<1> DEFINE n == FirstOn(ch, r, e)
<1> HIDE DEF n
<1>3. [NoQH EXCEPT !.next = n] = [cur |-> None, next |-> n, token |-> "idle"]
  BY DEF NoQH
<1>4. LinksOK(ch, r, e, m)
  BY <1>1 DEF Good, LinksOK
<1>5. Passed(ch, r, e, m, n) /\ (In(ch, r, n) \/ n = e) /\ (m[n].token \in Fresh \/ k)
  BY <1>2 DEF Passed, n
<1>6. Good(ch, r, e, m, [NoQH EXCEPT !.next = n], k)
  BY <1>3, <1>4, <1>5 DEF Good, WorksOK, WaitsOK
<1> QED BY <1>6 DEF n

(* The first transaction, all retired, leaves the chain.                   *)
LEMMA GoodDrop ==
  ASSUME NEW ch, NEW x \in Transfer, NEW r \in Seq(Transfer), NEW e, NEW m, NEW o,
         Clean(ch, <<x>> \o r, e), Good(ch, <<x>> \o r, e, m, o, FALSE),
         \A t \in ToSet(ch[x]) : m[t].token \in Retired
  PROVE  Good(ch, r, e, m, o, FALSE)
<1>0. <<x>> \in Seq(Transfer)
  OBVIOUS
<1>1. PICK h \in Seq(Transfer) : h = <<x>>
  BY <1>0
<1>2. /\ \A t : In(ch, h \o r, t) <=> In(ch, h, t) \/ In(ch, r, t)
      /\ \A t, u : After(ch, r, e, t, u) => After(ch, h \o r, e, t, u)
  BY JoinChain
<1>3. \A t : In(ch, h, t) <=> t \in ToSet(ch[x])
  BY <1>1 DEF In
<1>4. Good(ch, h \o r, e, m, o, FALSE)
  BY <1>1
<1>5. \A t : Passed(ch, h \o r, e, m, t) => Passed(ch, r, e, m, t)
  BY <1>2 DEF Passed
<1>6. LinksOK(ch, r, e, m)
  BY <1>2, <1>4 DEF Good, LinksOK
<1>7. WorksOK(ch, r, e, m, o)
  <2>1. ASSUME NEW t, m[t].token = "active" PROVE t \notin ToSet(ch[x])
    BY <2>1 DEF Retired
  <2> QED BY <2>1, <1>2, <1>3, <1>4, <1>5 DEF Good, WorksOK
<1>8. WaitsOK(ch, r, e, m, o, FALSE)
  <2>1. ASSUME NEW t, m[t].token \in Fresh PROVE t \notin ToSet(ch[x])
    BY <2>1 DEF Retired, Fresh
  <2> QED BY <2>1, <1>2, <1>3, <1>4, <1>5 DEF Good, WaitsOK
<1> QED BY <1>6, <1>7, <1>8 DEF Good

(* A transaction not written yet takes the end of the chain.               *)
LEMMA GoodAppend ==
  ASSUME NEW ch, NEW dh, NEW c, NEW x \in Transfer, NEW e, NEW f \in QTD, NEW m, NEW o, NEW l,
         Clean(ch, c, e), Good(ch, c, e, m, o, l),
         \A i \in 1 .. Len(c) : dh[c[i]] = ch[c[i]],
         dh[x] \in Seq(QTD), dh[x] # <<>>, Distinct(dh[x]), dh[x][1] = e, f \notin ToSet(dh[x]),
         \A t \in ToSet(dh[x]) : m[t].token = "idle" /\ ~In(ch, c, t),
         ~In(ch, c, f)
  PROVE  Good(dh, Append(c, x), f, m, o, l)
<1> DEFINE s == dh[x]
<1>1. c \in Seq(Transfer) /\ e \in QTD
  BY DEF Clean
<1>2. /\ \A t : In(dh, Append(c, x), t) <=> In(ch, c, t) \/ t \in ToSet(s)
      /\ \A t, u : After(dh, Append(c, x), f, t, u) <=> After(ch, c, e, t, u) \/ LinkIn(s, f, t, u)
  <2>1. \A i \in 1 .. Len(c) : dh[c[i]] = ch[c[i]]
    OBVIOUS
  <2>2. dh[x][1] = e
    OBVIOUS
  <2>3. /\ Append(c, x) \in Seq(Transfer)
        /\ \A t : In(dh, Append(c, x), t) <=> In(ch, c, t) \/ t \in ToSet(dh[x])
        /\ \A t, u : After(dh, Append(c, x), f, t, u) <=> After(ch, c, e, t, u) \/ LinkIn(dh[x], f, t, u)
    BY ONLY <1>1, <2>1, <2>2, AppendChain
  <2> QED BY <2>3
<1>3. s \in Seq(QTD) /\ s # <<>> /\ Distinct(s) /\ f \in QTD /\ f \notin ToSet(s) /\ s[1] = e
  OBVIOUS
<1>4. \A t \in ToSet(s) : m[t].token = "idle" /\ ~In(ch, c, t)
  OBVIOUS
<1> HIDE DEF s
<1>5. /\ \A t, u : LinkIn(s, f, t, u) =>
           /\ t \in ToSet(s) /\ u # e
           /\ u \in ToSet(s) \/ u = f
      /\ e \in ToSet(s)
  BY <1>3, LinkFacts
<1>6. \A t : In(ch, c, t) \/ t = e => \A u : After(dh, Append(c, x), f, u, t) <=> After(ch, c, e, u, t)
  BY <1>2, <1>4, <1>5
<1>7. \A t : In(ch, c, t) \/ t = e => (Passed(ch, c, e, m, t) => Passed(dh, Append(c, x), f, m, t))
  BY <1>6 DEF Passed
<1>8. LinksOK(dh, Append(c, x), f, m)
  <2> SUFFICES ASSUME NEW t \in QTD, NEW u \in QTD, After(dh, Append(c, x), f, t, u)
               PROVE  /\ m[t].token # "idle" => m[t].next = u
                      /\ m[t].token = "active" => m[u].token \in Fresh
    BY DEF LinksOK
  <2>1. CASE After(ch, c, e, t, u)
    BY <2>1 DEF Good, LinksOK
  <2>2. CASE LinkIn(s, f, t, u)
    BY <2>2, <1>4, <1>5
  <2> QED BY <2>1, <2>2, <1>2
<1>9. WorksOK(dh, Append(c, x), f, m, o)
  BY <1>2, <1>7 DEF Good, WorksOK
<1>10. WaitsOK(dh, Append(c, x), f, m, o, l)
  BY <1>2, <1>5, <1>7 DEF Good, WaitsOK
<1> QED BY <1>8, <1>9, <1>10 DEF Good

(* One qTD of the chain is written.                                        *)
LEMMA GoodFill ==
  ASSUME NEW ch, NEW c, NEW e, NEW m \in [QTD -> QTDType], NEW o, NEW l,
         Clean(ch, c, e), Good(ch, c, e, m, o, l),
         NEW t \in QTD, NEW u \in QTD, After(ch, c, e, t, u), m[t].token = "idle", m[u].token = "idle",
         NEW b, b.next = u, b.token = "active"
  PROVE  Good(ch, c, e, [m EXCEPT ![t] = b], o, l)
<1>1. PICK n : n = [m EXCEPT ![t] = b]
  OBVIOUS
<1>2. \A v \in QTD : n[v] = IF v = t THEN b ELSE m[v]
  BY <1>1
<1>3. /\ \A v, w : After(ch, c, e, v, w) => In(ch, c, v) /\ w \in QTD /\ v # w
      /\ \A v, w, z : After(ch, c, e, v, w) /\ After(ch, c, e, v, z) => w = z
      /\ \A v, w, z : After(ch, c, e, v, w) /\ After(ch, c, e, z, w) => v = z
      /\ \A v : In(ch, c, v) => v \in QTD
      /\ e \in QTD
  BY ChainFacts DEF Clean
<1>4. LinksOK(ch, c, e, n)
  <2> SUFFICES ASSUME NEW v \in QTD, NEW w \in QTD, After(ch, c, e, v, w)
               PROVE  /\ n[v].token # "idle" => n[v].next = w
                      /\ n[v].token = "active" => n[w].token \in Fresh
    BY DEF LinksOK
  <2>1. CASE v = t
    <3>1. w = u /\ w # t
      BY <2>1, <1>3
    <3> QED BY <2>1, <3>1, <1>2 DEF Fresh
  <2>2. CASE v # t
    <3>1. /\ m[v].token # "idle" => m[v].next = w
          /\ m[v].token = "active" => m[w].token \in Fresh
      BY DEF Good, LinksOK
    <3> QED BY <2>2, <3>1, <1>2 DEF Fresh
  <2> QED BY <2>1, <2>2
<1>5. ASSUME NEW v \in QTD, v # u, Passed(ch, c, e, m, v) PROVE Passed(ch, c, e, n, v)
  <2> SUFFICES ASSUME NEW w \in QTD, After(ch, c, e, w, v) PROVE n[w].token \in Retired
    BY DEF Passed
  <2>1. w # t
    BY <1>5, <1>3
  <2> QED BY <2>1, <1>2, <1>5 DEF Passed
<1>6. ~Passed(ch, c, e, m, u)
  BY DEF Passed, Retired
<1>7. WorksOK(ch, c, e, n, o)
  <2> SUFFICES ASSUME o.token = "active"
               PROVE  /\ In(ch, c, o.cur) /\ n[o.cur].token = "active" /\ o.next = n[o.cur].next
                      /\ Passed(ch, c, e, n, o.cur)
    BY DEF WorksOK
  <2>1. /\ In(ch, c, o.cur) /\ m[o.cur].token = "active" /\ o.next = m[o.cur].next
        /\ Passed(ch, c, e, m, o.cur)
    BY DEF Good, WorksOK
  <2>2. o.cur # t /\ o.cur # u /\ o.cur \in QTD
    BY <2>1, <1>3
  <2> QED BY <2>1, <2>2, <1>2, <1>5
<1>8. WaitsOK(ch, c, e, n, o, l)
  <2> SUFFICES ASSUME o.token = "idle"
               PROVE  /\ In(ch, c, o.next) \/ o.next = e
                      /\ n[o.next].token \in Fresh \/ l
                      /\ Passed(ch, c, e, n, o.next)
    BY DEF WaitsOK
  <2>1. /\ In(ch, c, o.next) \/ o.next = e
        /\ m[o.next].token \in Fresh \/ l
        /\ Passed(ch, c, e, m, o.next)
    BY DEF Good, WaitsOK
  <2>2. o.next # u /\ o.next \in QTD
    BY <2>1, <1>3, <1>6
  <2>3. n[o.next].token \in Fresh \/ l
    BY <2>1, <2>2, <1>2 DEF Fresh
  <2> QED BY <2>1, <2>2, <2>3, <1>5
<1>9. Good(ch, c, e, n, o, l)
  BY <1>4, <1>7, <1>8 DEF Good
<1> QED BY <1>1, <1>9

(* The controller comes to an active qTD.                                  *)
LEMMA GoodFetch ==
  ASSUME NEW ch, NEW c, NEW e, NEW m, NEW o, NEW l, Clean(ch, c, e), Good(ch, c, e, m, o, l),
         o.token = "idle", m[o.next].token = "active", m[e].token = "idle"
  PROVE  Good(ch, c, e, m, [cur |-> o.next, next |-> m[o.next].next, token |-> "active"], l)
<1>1. In(ch, c, o.next) /\ Passed(ch, c, e, m, o.next)
  BY DEF Good, WaitsOK
<1> QED BY <1>1 DEF Good, WorksOK, WaitsOK

(* It retires the one it works on.                                         *)
LEMMA GoodRetire ==
  ASSUME NEW ch, NEW c, NEW e, NEW m \in [QTD -> QTDType], NEW o \in QHType, NEW l,
         Clean(ch, c, e), Good(ch, c, e, m, o, l), o.token = "active", NEW token \in Retired
  PROVE  Good(ch, c, e, [m EXCEPT ![o.cur].token = token],
              [o EXCEPT !.token = IF token = "error" THEN "halted" ELSE "idle"], l)
<1>1. PICK n : n = [m EXCEPT ![o.cur].token = token]
  OBVIOUS
<1>2. PICK t : t = o.cur
  OBVIOUS
<1>3. /\ \A v, w : After(ch, c, e, v, w) => In(ch, c, v) /\ w \in QTD /\ v # w /\ (In(ch, c, w) \/ w = e)
      /\ \A v, w, z : After(ch, c, e, v, w) /\ After(ch, c, e, v, z) => w = z
      /\ \A v, w, z : After(ch, c, e, v, w) /\ After(ch, c, e, z, w) => v = z
      /\ \A v : In(ch, c, v) => v \in QTD /\ \E u \in QTD : After(ch, c, e, v, u)
  BY ChainFacts
<1>4. In(ch, c, t) /\ m[t].token = "active" /\ o.next = m[t].next /\ Passed(ch, c, e, m, t)
  BY <1>2 DEF Good, WorksOK
<1>5. t \in QTD
  BY <1>3, <1>4
<1>6. /\ n[t].token = token /\ n[t].next = m[t].next
      /\ \A v \in QTD : v # t => n[v] = m[v]
  BY <1>1, <1>2, <1>5 DEF QTDType
<1>7. PICK u \in QTD : After(ch, c, e, t, u)
  BY <1>3, <1>4
<1>8. m[t].next = u /\ m[u].token \in Fresh /\ u # t /\ (In(ch, c, u) \/ u = e)
  BY <1>3, <1>4, <1>5, <1>7 DEF Good, LinksOK
<1>9. PICK q : q = [o EXCEPT !.token = IF token = "error" THEN "halted" ELSE "idle"]
  OBVIOUS
<1>10. q.token # "active" /\ q.next = u
  BY <1>4, <1>8, <1>9 DEF QHType
<1>11. LinksOK(ch, c, e, n)
  <2> SUFFICES ASSUME NEW v \in QTD, NEW w \in QTD, After(ch, c, e, v, w)
               PROVE  /\ n[v].token # "idle" => n[v].next = w
                      /\ n[v].token = "active" => n[w].token \in Fresh
    BY DEF LinksOK
  <2>1. /\ m[v].token # "idle" => m[v].next = w
        /\ m[v].token = "active" => m[w].token \in Fresh
    BY DEF Good, LinksOK
  <2>2. CASE v = t
    <3>1. token # "active"
      BY DEF Retired
    <3> QED BY <2>1, <2>2, <3>1, <1>4, <1>6
  <2>3. CASE v # t /\ w = t
    <3>1. m[v].token \in Retired
      BY <2>3, <1>4 DEF Passed
    <3>2. m[v].token # "active"
      BY <3>1 DEF Retired
    <3> QED BY <2>1, <2>3, <3>2, <1>6
  <2>4. CASE v # t /\ w # t
    BY <2>1, <2>4, <1>6
  <2> QED BY <2>2, <2>3, <2>4
<1>12. Passed(ch, c, e, n, u)
  <2> SUFFICES ASSUME NEW v \in QTD, After(ch, c, e, v, u) PROVE n[v].token \in Retired
    BY DEF Passed
  <2>1. v = t
    BY <1>3, <1>7
  <2> QED BY <2>1, <1>6
<1>13. n[u].token \in Fresh
  BY <1>6, <1>8
<1>14. Good(ch, c, e, n, q, l)
  BY <1>8, <1>10, <1>11, <1>12, <1>13 DEF Good, WorksOK, WaitsOK
<1> QED BY <1>1, <1>9, <1>14

(***************************************************************************)
(* The chains of the pipes.                                                *)
(***************************************************************************)

(* The chain of pipe p is its queue with what is just being added to it or *)
(* was taken off it before its queue head is rebuilt.                      *)
Fills(s, p) == s # <<>> /\ Head(s).at = "fill" /\ Head(s).pipe = p
Pulls(s) ==
  /\ s # <<>> /\ Tail(s) # <<>>
  /\ Head(s).at \in {"stopping", "stopped"} /\ Head(s).op = "rebuild"
Chain(s, q, p) ==
  IF Fills(s, p) THEN Append(q[p], Head(s).x)
  ELSE IF Pulls(s) /\ Head(s).pipe = p THEN Held(Head(Tail(s))) \o q[p]
  ELSE q[p]
End(s, d, p) == IF Fills(s, p) THEN Head(s).new ELSE d[p]
Plain(s) == ~Pulls(s) /\ (s # <<>> => Head(s).at # "fill")

(* Most calls leave the chain to the queue.                                *)
LEMMA PlainChain ==
  ASSUME NEW s, Plain(s), NEW q, NEW d, NEW p
  PROVE  Chain(s, q, p) = q[p] /\ End(s, d, p) = d[p] /\ ~Fills(s, p)
BY DEF Plain, Chain, End, Fills

(* A qTD of a chain is of one of its transactions.                         *)
LEMMA InIs ==
  ASSUME NEW ch, NEW c \in Seq(Transfer)
  PROVE  /\ \A t : In(ch, c, t) <=> \E x \in ToSet(c) : t \in ToSet(ch[x])
         /\ \A i \in 1 .. Len(c) : c[i] \in ToSet(c)
BY MemberIs DEF In

(* A submission that writes is the running call.                           *)
LEMMA FillOnTop ==
  ASSUME Nested, NEW f \in Frames, f.at = "fill"
  PROVE  stack # <<>> /\ f = Top /\ Submits(Top) /\ BelowSubmit(Tail(stack))
<1>1. stack # <<>>
  BY EmptyIs
<1>2. Frames = {Top} \cup Rest /\ Tail(stack) \in Seq(FrameType)
  BY <1>1, StackIs
<1>3. ASSUME f \in Rest PROVE FALSE
  <2> DEFINE r == Tail(stack)
  <2>1. ToSet(<<>>) = {}
    BY DEF ToSet
  <2>2. r # <<>> /\ f \in ToSet(r) /\ r \in Seq(FrameType)
    BY <2>1, <1>2, <1>3 DEF Rest
  <2>3. Above(Top, r)
    BY <1>1 DEF Nested, Shaped, Top
  <2> HIDE DEF r
  <2>4. ToSet(r) = {Head(r)} \cup ToSet(Tail(r)) /\ Tail(r) \in Seq(FrameType)
    BY <2>2, TailSet
  <2>5. ASSUME NEW b \in Seq(FrameType), b # <<>>, BelowSubmit(b), f \in ToSet(b) PROVE FALSE
    <3>1. ToSet(b) = {Head(b)} \cup ToSet(Tail(b)) /\ Tail(b) = <<>> /\ Head(b).at = "callback"
      BY <2>5, TailSet DEF BelowSubmit
    <3> QED BY <3>1, <2>1, <2>5
  <2>6. CASE BelowSubmit(r)
    BY <2>2, <2>5, <2>6
  <2>7. CASE BelowRebuild(r, Top.pipe)
    <3>1. Head(r).at # "fill" /\ (Tail(r) = <<>> \/ BelowSubmit(Tail(r)))
      BY <2>2, <2>7 DEF BelowRebuild
    <3> QED BY <3>1, <2>1, <2>2, <2>4, <2>5
  <2> QED BY <2>2, <2>3, <2>6, <2>7 DEF Above
<1>4. f = Top
  BY <1>2, <1>3
<1> QED BY <1>1, <1>4, SubmitIs

(* What is under a rebuilding of a queue head.                             *)
LEMMA PullIs ==
  ASSUME Core, stack # <<>>, Tail(stack) # <<>>, Top.at \in Waiting, Top.op = "rebuild"
  PROVE  /\ Head(Tail(stack)) \in Frames /\ Kind(Head(Tail(stack)))
         /\ Head(Tail(stack)).pipe = Top.pipe /\ Top.pipe \in Pipe
         /\ Plain(Tail(stack))
<1> DEFINE r == Tail(stack)
<1>1. BelowRebuild(r, Top.pipe) /\ Top.pipe \in Pipe
  BY WaitIs DEF Core
<1>2. r \in Seq(FrameType) /\ Frames = {Top} \cup ToSet(r)
  BY StackIs DEF Core, Rest
<1>0. r # <<>>
  OBVIOUS
<1> HIDE DEF r
<1>3. Head(r) \in ToSet(r)
  BY <1>0, <1>2, TailSet
<1>4. Head(r).at \in {"complete", "abort", "check"} /\ Head(r).pipe = Top.pipe /\ Kind(Head(r))
  BY <1>1 DEF BelowRebuild, Kind, r
<1> QED BY <1>1, <1>2, <1>3, <1>4 DEF Plain, Pulls, r

(* Where each transaction of a chain is.                                   *)
Owns(p, x) == x \in ToSet(queue[p]) \/ \E f \in Frames : f.pipe = p /\ x \in HeldBy(f)

(* Different pipes have different transactions.                            *)
LEMMA OwnsApart ==
  ASSUME Core, NEW p \in Pipe, NEW q \in Pipe, p # q, NEW x, Owns(p, x)
  PROVE  ~Owns(q, x)
BY DEF Core, CallsOK, FrameOK, Queues, Queued, Owns

(* The transactions of a chain.                                            *)
LEMMA ChainIs ==
  ASSUME Core, NEW p \in Pipe, IsOpen(p)
  PROVE  /\ Chain(stack, queue, p) \in Seq(Transfer) /\ Distinct(Chain(stack, queue, p))
         /\ \A x \in ToSet(Chain(stack, queue, p)) : x \in Transfer /\ Owns(p, x) /\ Busy(x)
         /\ ToSet(queue[p]) \subseteq ToSet(Chain(stack, queue, p))
<1> DEFINE c == Chain(stack, queue, p)
           q == queue[p]
<1>1. q \in Seq(Transfer) /\ Distinct(q) /\ \A x \in ToSet(q) : x \in Transfer /\ Queued(x)
  BY MemberIs DEF Core, Queues, Queued
<1>2. CASE Fills(stack, p)
  <2>1. stack # <<>> /\ Top.at = "fill" /\ Top.pipe = p
    BY <1>2 DEF Fills, Top
  <2>2. Top \in Frames /\ FrameOK(Top) /\ Submits(Top)
    BY <2>1, TopIs, SubmitIs DEF Core
  <2>3. PICK x \in Transfer : x = Top.x
    BY <2>2 DEF Submits
  <2>4. x \in HeldBy(Top) /\ x \notin ToSet(q)
    BY <2>1, <2>2, <2>3 DEF HeldBy, FrameOK, Queued
  <2>5. c = Append(q, x)
    BY <1>2, <2>3 DEF Chain, Top
  <2>6. c \in Seq(Transfer) /\ ToSet(c) = ToSet(q) \cup {x} /\ Distinct(c)
    BY <1>1, <2>4, <2>5, AppendSet
  <2>7. Owns(p, x) /\ Busy(x)
    BY <2>1, <2>2, <2>4 DEF Owns, Busy, HeldX
  <2> QED BY <1>1, <2>6, <2>7 DEF Owns, Busy
<1>3. CASE ~Fills(stack, p) /\ Pulls(stack) /\ Head(stack).pipe = p
  <2>1. PICK f : f = Head(Tail(stack))
    OBVIOUS
  <2>2. stack # <<>> /\ Tail(stack) # <<>> /\ Top.at \in Waiting /\ Top.op = "rebuild" /\ Top.pipe = p
    BY <1>3 DEF Pulls, Top, Waiting
  <2>3. f \in Frames /\ Kind(f) /\ f.pipe = p
    BY <2>1, <2>2, PullIs
  <2>4. FrameOK(f) /\ f \in FrameType
    BY <2>3, KindsOK DEF Core, CallsOK
  <2>5. ToSet(Held(f)) = HeldBy(f) /\ HeldBy(f) \in SUBSET Transfer
    BY <2>3, <2>4, HeldIs
  <2>6. Held(f) \in Seq(Transfer) /\ Distinct(Held(f))
    <3>1. f.list \in Seq(Transfer) /\ Distinct(f.list)
      BY <2>4 DEF FrameType, FrameOK
    <3>2. CASE f.at \in {"fill", "complete", "callback"}
      <4>1. f.x \in Transfer /\ f.x # None /\ f.x \notin ToSet(f.list)
        <5>1. f.at # "callback" => f.list = <<>>
          BY <3>2, <2>3 DEF Kind, Waits, Waiting, Submits, Scans, Aborts
        <5>2. f.x \in Transfer
          BY <3>2, <2>3 DEF Kind, Waits, Waiting, Submits, Scans, Aborts
        <5> QED BY <5>1, <5>2, <2>4, Constants DEF FrameOK, ToSet
      <4>2. Held(f) = <<f.x>> \o f.list
        BY <3>2, <4>1 DEF Held
      <4> QED BY <3>1, <4>1, <4>2, PushSet
    <3>3. CASE f.at \notin {"fill", "complete", "callback"}
      <4>1. Held(f) = f.list
        BY <3>1, <3>3 DEF Held
      <4> QED BY <3>1, <4>1
    <3> QED BY <3>2, <3>3
  <2>7. c = Held(f) \o q
    BY <1>3, <2>1 DEF Chain
  <2>8. ToSet(Held(f)) \cap ToSet(q) = {}
    BY <2>4, <2>5, <1>1 DEF FrameOK
  <2>9. c \in Seq(Transfer) /\ ToSet(c) = ToSet(Held(f)) \cup ToSet(q) /\ Distinct(c)
    BY <1>1, <2>6, <2>7, <2>8, JoinSet
  <2>10. \A x \in ToSet(Held(f)) : x \in Transfer /\ Owns(p, x) /\ Busy(x)
    BY <2>3, <2>5 DEF Owns, Busy, HeldX
  <2> QED BY <1>1, <2>9, <2>10 DEF Owns, Busy
<1>4. CASE ~Fills(stack, p) /\ ~(Pulls(stack) /\ Head(stack).pipe = p)
  <2>1. c = q
    BY <1>4 DEF Chain
  <2> QED BY <1>1, <2>1 DEF Owns, Busy
<1> QED BY <1>2, <1>3, <1>4

Mine(p, t) == In(chunks, Chain(stack, queue, p), t)
MyEnd(p)   == End(stack, dummy, p)

(* The end of a chain is in no transaction, and of one pipe.               *)
LEMMA EndIs ==
  ASSUME Core, NEW p \in Pipe, IsOpen(p)
  PROVE  /\ MyEnd(p) \in QTD /\ MyEnd(p) \notin ToSet(free)
         /\ \A x \in Transfer : Busy(x) => MyEnd(p) \notin ToSet(chunks[x])
         /\ \A q \in Pipe : q # p => MyEnd(p) # MyEnd(q) /\ MyEnd(p) # dummy[q]
<1>1. dummy \in [Pipe -> QTD \cup {None}] /\ dummy[p] # None
  BY DEF Core, Queues
<1>2. CASE Fills(stack, p)
  <2>1. stack # <<>> /\ Top.at = "fill" /\ Top.pipe = p
    BY <1>2 DEF Fills, Top
  <2>2. Top \in Frames /\ Submits(Top)
    BY <2>1, TopIs, SubmitIs DEF Core
  <2>3. PICK x \in Transfer, t \in QTD : x = Top.x /\ t = Top.new
    BY <2>2 DEF Submits
  <2>4. Writing(p, x, t)
    BY <2>1, <2>2, <2>3 DEF Writing
  <2>5. /\ t \notin ToSet(free)
        /\ \A y \in Transfer : Busy(y) => t \notin ToSet(chunks[y])
        /\ \A q \in Pipe : t # dummy[q]
    BY <2>4 DEF Core, QTDs
  <2>6. MyEnd(p) = t
    BY <1>2, <2>3 DEF MyEnd, End, Top
  <2>7. \A q \in Pipe : q # p => MyEnd(q) = dummy[q]
    BY <1>2 DEF Fills, MyEnd, End
  <2> QED BY <2>5, <2>6, <2>7
<1>3. CASE ~Fills(stack, p)
  <2>1. MyEnd(p) = dummy[p]
    BY <1>3 DEF MyEnd, End
  <2>2. \A x \in Transfer, t \in QTD : ~Writing(p, x, t)
    <3>1. ASSUME NEW f \in Frames, f.at = "fill", f.pipe = p PROVE FALSE
      BY <1>3, <3>1, FillOnTop DEF Core, Fills, Top
    <3> QED BY <3>1 DEF Writing
  <2>3. /\ dummy[p] \in QTD /\ dummy[p] \notin ToSet(free)
        /\ \A x \in Transfer : Busy(x) => dummy[p] \notin ToSet(chunks[x])
        /\ \A q \in Pipe : q # p => dummy[p] # dummy[q]
    BY <1>1, <2>2 DEF Core, QTDs
  <2>4. ASSUME NEW q \in Pipe, Fills(stack, q) PROVE MyEnd(q) # dummy[p]
    <3>1. stack # <<>> /\ Top.at = "fill" /\ Top.pipe = q
      BY <2>4 DEF Fills, Top
    <3>2. Top \in Frames /\ Submits(Top)
      BY <3>1, TopIs, SubmitIs DEF Core
    <3>3. PICK x \in Transfer, t \in QTD : x = Top.x /\ t = Top.new
      BY <3>2 DEF Submits
    <3>4. Writing(q, x, t)
      BY <3>1, <3>2, <3>3 DEF Writing
    <3>5. t # dummy[p]
      BY <3>4 DEF Core, QTDs
    <3> QED BY <2>4, <3>3, <3>5 DEF MyEnd, End, Top
  <2>5. \A q \in Pipe : ~Fills(stack, q) => MyEnd(q) = dummy[q]
    BY DEF MyEnd, End
  <2> QED BY <2>1, <2>3, <2>4, <2>5
<1> QED BY <1>2, <1>3

(* A chain is clean, and has no qTD in common with another one.            *)
LEMMA ChainClean ==
  ASSUME Core, NEW p \in Pipe, IsOpen(p)
  PROVE  /\ Clean(chunks, Chain(stack, queue, p), MyEnd(p))
         /\ \A t : Mine(p, t) => t \in QTD /\ t \notin ToSet(free)
         /\ \A x \in Transfer : Busy(x) /\ ~Owns(p, x) => \A t \in ToSet(chunks[x]) : ~Mine(p, t)
         /\ \A x \in Transfer : Busy(x) => MyEnd(p) \notin ToSet(chunks[x])
<1> DEFINE c == Chain(stack, queue, p)
<1>1. /\ c \in Seq(Transfer) /\ Distinct(c)
      /\ \A x \in ToSet(c) : x \in Transfer /\ Owns(p, x) /\ Busy(x)
  BY ChainIs
<1>2. /\ MyEnd(p) \in QTD
      /\ \A x \in Transfer : Busy(x) => MyEnd(p) \notin ToSet(chunks[x])
  BY EndIs
<1>3. /\ \A x \in Transfer : chunks[x] \in Seq(QTD)
      /\ \A x \in Transfer : Busy(x) => chunks[x] # <<>> /\ Distinct(chunks[x]) /\ ToSet(free) \cap ToSet(chunks[x]) = {}
      /\ \A x, y \in Transfer : Busy(x) /\ Busy(y) /\ x # y => ToSet(chunks[x]) \cap ToSet(chunks[y]) = {}
  BY DEF Core, QTDs
<1>4. \A t : Mine(p, t) <=> \E x \in ToSet(c) : t \in ToSet(chunks[x])
  BY <1>1, InIs DEF Mine
<1>5. \A i \in 1 .. Len(c) : c[i] \in ToSet(c)
  BY <1>1, InIs
<1>6. \A x \in Transfer : ToSet(chunks[x]) \subseteq QTD
  BY <1>3, MemberIs
<1> HIDE DEF c
<1>7. ~In(chunks, c, MyEnd(p))
  BY <1>1, <1>2, <1>4 DEF Mine, c
<1>8. \A i \in 1 .. Len(c) : chunks[c[i]] \in Seq(QTD) /\ chunks[c[i]] # <<>> /\ Distinct(chunks[c[i]])
  BY <1>1, <1>3, <1>5
<1>9. Parted(chunks, c)
  <2> SUFFICES ASSUME NEW i \in 1 .. Len(c), NEW j \in 1 .. Len(c), i # j
               PROVE  ToSet(chunks[c[i]]) \cap ToSet(chunks[c[j]]) = {}
    BY DEF Parted
  <2>1. c[i] # c[j]
    BY <1>1 DEF Distinct
  <2> QED BY <2>1, <1>1, <1>3, <1>5
<1>10. Clean(chunks, c, MyEnd(p))
  BY <1>1, <1>2, <1>7, <1>8, <1>9 DEF Clean
<1>11. \A t : Mine(p, t) => t \in QTD /\ t \notin ToSet(free)
  BY <1>1, <1>3, <1>4, <1>6
<1>12. \A x \in Transfer : Busy(x) /\ ~Owns(p, x) => \A t \in ToSet(chunks[x]) : ~Mine(p, t)
  BY <1>1, <1>3, <1>4
<1> QED BY <1>2, <1>10, <1>11, <1>12 DEF c

(* The same for two pipes.                                                 *)
LEMMA ChainsApart ==
  ASSUME Core, NEW p \in Pipe, IsOpen(p), NEW q \in Pipe, IsOpen(q), p # q
  PROVE  \A t : Mine(p, t) \/ t = MyEnd(p) => ~Mine(q, t) /\ t # MyEnd(q)
<1>1. \A x \in ToSet(Chain(stack, queue, p)) : x \in Transfer /\ Owns(p, x) /\ Busy(x) /\ ~Owns(q, x)
  BY ChainIs, OwnsApart
<1>2. \A x \in ToSet(Chain(stack, queue, q)) : x \in Transfer /\ Busy(x)
  BY ChainIs
<1>3. \A t : Mine(p, t) <=> \E x \in ToSet(Chain(stack, queue, p)) : t \in ToSet(chunks[x])
  BY ChainIs, InIs DEF Mine
<1>4. \A t : Mine(q, t) <=> \E x \in ToSet(Chain(stack, queue, q)) : t \in ToSet(chunks[x])
  BY ChainIs, InIs DEF Mine
<1>5. \A t : Mine(p, t) => ~Mine(q, t)
  BY <1>1, <1>3, ChainClean
<1>6. \A x \in Transfer : Busy(x) => MyEnd(p) \notin ToSet(chunks[x]) /\ MyEnd(q) \notin ToSet(chunks[x])
  BY EndIs
<1>7. MyEnd(p) # MyEnd(q)
  BY EndIs
<1> QED BY <1>1, <1>2, <1>3, <1>4, <1>5, <1>6, <1>7

(***************************************************************************)
(* The invariant.                                                          *)
(***************************************************************************)

(* The controller follows the chain of pipe p.                             *)
Follows(p) == Good(chunks, Chain(stack, queue, p), MyEnd(p), mem, overlay[p], p \in lost)

(* What is not in a queue has not been written, or only so far.            *)
Blank ==
  /\ \A t \in ToSet(free) : mem[t].token = "idle"
  /\ \A p \in Pipe : MyEnd(p) # None => mem[MyEnd(p)].token = "idle"
FilledUp ==
  stack # <<>> /\ Top.at = "fill" =>
    \A k \in 1 .. Len(chunks[Top.x]) : mem[chunks[Top.x][k]].token = "idle" <=> k > Top.filled
Written ==
  \A p \in Pipe : \A x \in ToSet(queue[p]) : \A t \in ToSet(chunks[x]) : mem[t].token # "idle"
AllFollow == \A p \in Pipe : IsOpen(p) => Follows(p)
Ctl == Blank /\ FilledUp /\ Written /\ AllFollow

(* The chain of a pipe stays.                                              *)
LEMMA FollowsStays ==
  ASSUME Core, NEW p \in Pipe, IsOpen(p), Follows(p),
         Chain(stack', queue', p) = Chain(stack, queue, p), MyEnd(p)' = MyEnd(p),
         \A x \in ToSet(Chain(stack, queue, p)) : chunks'[x] = chunks[x],
         \A t \in QTD : Mine(p, t) \/ t = MyEnd(p) => mem'[t] = mem[t],
         overlay'[p] = overlay[p], p \in lost => p \in lost'
  PROVE  Follows(p)'
<1> DEFINE c == Chain(stack, queue, p)
           e == MyEnd(p)
           o == overlay[p]
           l == p \in lost
<1>1. Clean(chunks, c, e) /\ c \in Seq(Transfer)
  BY ChainClean, ChainIs
<1>2. \A i \in 1 .. Len(c) : chunks'[c[i]] = chunks[c[i]]
  BY <1>1, InIs
<1>3. Good(chunks, c, e, mem, o, l)
  BY DEF Follows
<1>4. \A t \in QTD : In(chunks, c, t) \/ t = e => mem'[t] = mem[t]
  BY DEF Mine
<1> DEFINE k == p \in lost'
<1>5. l => k
  OBVIOUS
<1>6. Follows(p)' <=> Good(chunks', c, e, mem', o, k)
  BY DEF Follows
<1> HIDE DEF c, e, o, l, k
<1>7. Good(chunks', c, e, mem', o, k)
  BY <1>1, <1>2, <1>3, <1>4, <1>5, GoodKeeps
<1> QED BY <1>6, <1>7

(* A step that leaves the qTDs and the queue heads alone.                  *)
LEMMA QuietCtl ==
  ASSUME Core, Ctl, UNCHANGED <<mem, overlay, chunks, lost, open>>, ToSet(free') = ToSet(free),
         \A p \in Pipe : Chain(stack', queue', p) = Chain(stack, queue, p) /\ MyEnd(p)' = MyEnd(p),
         Written', FilledUp'
  PROVE  Ctl'
<1>1. Blank'
  BY DEF Ctl, Blank
<1>2. ASSUME NEW p \in Pipe, IsOpen(p)' PROVE Follows(p)'
  <2>1. IsOpen(p)
    BY <1>2 DEF IsOpen
  <2>2. Follows(p)
    BY <2>1 DEF Ctl, AllFollow
  <2> QED BY <2>1, <2>2, FollowsStays
<1> QED BY <1>1, <1>2 DEF Ctl, AllFollow

(* One that leaves the queues too.                                         *)
LEMMA PlainCtl ==
  ASSUME Core, Ctl, UNCHANGED <<mem, overlay, chunks, lost, open, free, queue, dummy>>,
         Plain(stack), Plain(stack')
  PROVE  Ctl'
<1>1. \A p \in Pipe : Chain(stack', queue', p) = Chain(stack, queue, p) /\ MyEnd(p)' = MyEnd(p)
  BY PlainChain DEF MyEnd
<1>2. Written'
  BY DEF Ctl, Written
<1>3. FilledUp'
  BY DEF FilledUp, Plain, Top
<1> QED BY <1>1, <1>2, <1>3, QuietCtl

(* One that leaves the calls too.                                          *)
LEMMA StayCtl ==
  ASSUME Core, Ctl, UNCHANGED <<mem, overlay, chunks, lost, open, queue, dummy, stack>>,
         ToSet(free') = ToSet(free)
  PROVE  Ctl'
<1>1. \A p \in Pipe : Chain(stack', queue', p) = Chain(stack, queue, p) /\ MyEnd(p)' = MyEnd(p)
  BY DEF MyEnd
<1>2. Written' /\ FilledUp'
  BY DEF Ctl, Written, FilledUp, Top
<1> QED BY <1>1, <1>2, QuietCtl

(* Which calls are plain.                                                  *)
LEMMA PlainIs ==
  /\ Plain(<<>>)
  /\ \A s : s # <<>> /\ Head(s).at \notin {"fill", "stopping", "stopped"} => Plain(s)
  /\ \A s : s # <<>> /\ Head(s).at # "fill" /\ Head(s).op # "rebuild" => Plain(s)
  /\ \A s : s # <<>> /\ Head(s).at # "fill" /\ Tail(s) = <<>> => Plain(s)
BY DEF Plain, Pulls

(* Steps of calls that only go on, begin or return.                        *)
LEMMA QuietSteps ==
  ASSUME Core, Others, Ctl,
         \/ Started \/ AbortNext \/ AbortEnds \/ DeleteAborted \/ Submitted \/ HandleInterrupt
         \/ ScanSkips \/ ScanEnds \/ Complete
         \/ \E p \in Pipe : DeleteEmpty(p) \/ ClearStall(p)
  PROVE  Ctl'
<1>1. UNCHANGED <<mem, overlay, chunks, lost, open, free, queue, dummy>>
  BY DEF Started, AbortNext, AbortEnds, DeleteAborted, Submitted, HandleInterrupt, ScanSkips, ScanEnds,
         Complete, DeleteEmpty, ClearStall, hwVars, driverVars, historyVars
<1>2. Plain(stack) /\ Plain(stack')
  <2>1. CASE Started
    <3>1. stack # <<>> /\ Top.at = "starting" /\ stack' = Tail(stack)
      BY <2>1 DEF Started, Runs, Return
    <3>2. Plain(stack)
      BY <3>1, PlainIs DEF Top
    <3>3. BelowRebuild(Tail(stack), Top.pipe) \/ Tail(stack) = <<>>
      BY <3>1, WaitIs DEF Core, Waiting
    <3>4. Tail(stack) # <<>> => Head(Tail(stack)).at \in {"complete", "abort", "check"}
      BY <3>3 DEF BelowRebuild
    <3> QED BY <3>1, <3>2, <3>4, PlainIs
  <2>2. ASSUME NEW g \in FrameType, stack # <<>>, Goto(g), g.at \in {"callback", "scan", "abort"},
               Top.at \in {"callback", "scan", "complete", "abort"}
        PROVE  Plain(stack) /\ Plain(stack')
    <3>1. stack' # <<>> /\ Head(stack') = g
      BY <2>2, GotoIs DEF Core, Top
    <3> QED BY <2>2, <3>1, PlainIs DEF Top
  <2>3. CASE AbortNext
    <3>1. PICK g : g = [Top EXCEPT !.at = "callback", !.x = Head(Top.list), !.list = Tail(Top.list)]
      OBVIOUS
    <3>2. stack # <<>> /\ Top.at = "abort" /\ Top.list # <<>> /\ Goto(g)
      BY <2>3, <3>1 DEF AbortNext, Runs
    <3>3. Top \in FrameType
      BY <3>2, TopIs DEF Core
    <3>4. Head(Top.list) \in Transfer /\ Tail(Top.list) \in Seq(Transfer)
      BY <3>2, <3>3, TailSet DEF FrameType
    <3>5. g \in FrameType /\ g.at = "callback"
      BY <3>1, <3>3, <3>4 DEF FrameType, Points
    <3> QED BY <2>2, <3>2, <3>5
  <2>4. CASE ScanSkips
    <3>1. PICK g : g = [Top EXCEPT !.left = Tail(@)]
      OBVIOUS
    <3>2. stack # <<>> /\ Top.at = "scan" /\ Top.left # <<>> /\ Goto(g)
      BY <2>4, <3>1 DEF ScanSkips, Runs
    <3>3. Top \in FrameType
      BY <3>2, TopIs DEF Core
    <3>4. Tail(Top.left) \in Seq(Pipe)
      BY <3>2, <3>3, TailSet DEF FrameType
    <3>5. g \in FrameType /\ g.at = "scan"
      BY <3>1, <3>2, <3>3, <3>4 DEF FrameType
    <3> QED BY <2>2, <3>2, <3>5
  <2>5. CASE Complete
    <3>1. PICK g : g = [Top EXCEPT !.at = "callback"]
      OBVIOUS
    <3>2. stack # <<>> /\ Top.at = "complete" /\ Goto(g)
      BY <2>5, <3>1 DEF Complete, Runs
    <3>3. Top \in FrameType
      BY <3>2, TopIs DEF Core
    <3>5. g \in FrameType /\ g.at = "callback"
      BY <3>1, <3>3 DEF FrameType, Points
    <3> QED BY <2>2, <3>2, <3>5
  <2>6. CASE AbortEnds \/ ScanEnds
    <3>1. stack # <<>> /\ Top.at \in {"scan", "abort"} /\ stack' = Tail(stack)
      BY <2>6 DEF AbortEnds, ScanEnds, Runs, Return
    <3>2. Tail(stack) = <<>>
      BY <3>1, ScanIs, AbortIs DEF Core
    <3> QED BY <3>1, <3>2, PlainIs DEF Top
  <2>7. CASE DeleteAborted
    <3>1. stack # <<>> /\ Top.at = "abort" /\ Goto(Stop("unlink", Top.pipe))
      BY <2>7 DEF DeleteAborted, Runs
    <3>2. PICK g \in FrameType : g = Stop("unlink", Top.pipe) /\ g.op = "unlink" /\ g.at # "fill"
      BY <3>1, AbortIs, StopIs DEF Core, Aborts
    <3>3. stack' # <<>> /\ Head(stack') = g
      BY <3>1, <3>2, GotoIs DEF Core, Top
    <3> QED BY <3>1, <3>2, <3>3, PlainIs DEF Top
  <2>8. CASE Submitted
    <3>1. stack # <<>> /\ Top.at = "check" /\ stack' = Tail(stack)
      BY <2>8 DEF Submitted, Runs, Return
    <3>2. BelowSubmit(Tail(stack))
      BY <3>1, SubmitIs DEF Core
    <3> QED BY <3>1, <3>2, PlainIs DEF BelowSubmit, Top
  <2>9. CASE HandleInterrupt
    <3>1. PICK g : g = [Frame("scan", "scan", None) EXCEPT !.left = open]
      OBVIOUS
    <3>2. stack = <<>> /\ stack' = <<g>> /\ g.at = "scan"
      BY <2>9, <3>1 DEF HandleInterrupt, Frame
    <3> QED BY <3>2, PlainIs
  <2>10. ASSUME NEW p \in Pipe, DeleteEmpty(p) \/ ClearStall(p) PROVE Plain(stack) /\ Plain(stack')
    <3>1. stack = <<>> /\ \E op \in {"rebuild", "link", "unlink"} : stack' = <<Stop(op, p)>>
      BY <2>10 DEF DeleteEmpty, ClearStall
    <3>2. PICK g : stack' = <<g>> /\ g.at # "fill"
      BY <3>1, StopIs
    <3>3. stack' # <<>> /\ Head(stack') = g /\ Tail(stack') = <<>>
      BY <3>2
    <3> QED BY <3>1, <3>2, <3>3, PlainIs
  <2> QED BY <2>1, <2>3, <2>4, <2>5, <2>6, <2>7, <2>8, <2>9, <2>10
<1> QED BY <1>1, <1>2, PlainCtl

(* The chains while a transaction is written.                              *)
LEMMA FilledChain ==
  ASSUME NEW s, s # <<>>, Head(s).at = "fill", NEW p, Head(s).pipe = p, NEW q, NEW d
  PROVE  /\ Chain(s, q, p) = Append(q[p], Head(s).x) /\ End(s, d, p) = Head(s).new
         /\ \A r : r # p => Chain(s, q, r) = q[r] /\ End(s, d, r) = d[r]
BY DEF Chain, End, Fills, Pulls

(* Abort: the chain is still what was queued.                              *)
LEMMA AbortCtl ==
  ASSUME Core, Others, Ctl, NEW p \in Pipe, NEW op \in {"abort", "delete"}, Abort(p, op)
  PROVE  Ctl'
<1>1. /\ stack = <<>> /\ UNCHANGED <<mem, overlay, chunks, lost, open, free, dummy>>
      /\ queue' = [queue EXCEPT ![p] = <<>>]
  BY DEF Abort, hwVars, historyVars
<1>2. PICK s : s = Stop("rebuild", p)
  OBVIOUS
<1>3. PICK a : a = [Frame("abort", op, p) EXCEPT !.list = queue[p]]
  OBVIOUS
<1>4. stack' = <<s, a>>
  BY <1>2, <1>3 DEF Abort
<1>5. s.at \in {"stopping", "stopped"} /\ s.op = "rebuild" /\ s.pipe = p
  BY <1>2, StopIs
<1>6. queue \in [Pipe -> Seq(Transfer)] /\ queue[p] \in Seq(Transfer)
  BY DEF Core, Queues
<1>7. a.at = "abort" /\ a.list = queue[p] /\ a.x = None
  BY <1>3 DEF Frame
<1>8. Held(a) = queue[p]
  BY <1>6, <1>7 DEF Held
<1>9. stack' # <<>> /\ Head(stack') = s /\ Tail(stack') # <<>> /\ Head(Tail(stack')) = a
  BY <1>4
<1>10. queue'[p] = <<>> /\ \A q \in Pipe : q # p => queue'[q] = queue[q]
  BY <1>1, <1>6
<1>11. /\ Chain(stack', queue', p) = Held(a) \o queue'[p]
       /\ \A q : q # p => Chain(stack', queue', q) = queue'[q]
       /\ \A q : End(stack', dummy', q) = dummy'[q]
  <2>1. /\ stack' # <<>> /\ Tail(stack') # <<>> /\ Head(stack').at \in {"stopping", "stopped"}
        /\ Head(stack').op = "rebuild" /\ Head(stack').pipe = p /\ Head(Tail(stack')) = a
    BY <1>5, <1>9
  <2>2. /\ Chain(stack', queue', p) = Held(Head(Tail(stack'))) \o queue'[p]
        /\ \A q : q # p => Chain(stack', queue', q) = queue'[q]
        /\ \A q : End(stack', dummy', q) = dummy'[q]
    BY <2>1 DEF Chain, End, Fills, Pulls
  <2> QED BY <2>1, <2>2
<1>12. Plain(stack)
  BY <1>1, PlainIs
<1>13. \A q \in Pipe : Chain(stack, queue, q) = queue[q] /\ MyEnd(q) = dummy[q]
  BY <1>12, PlainChain DEF MyEnd
<1>14. Chain(stack', queue', p) = queue[p]
  BY <1>6, <1>8, <1>10, <1>11
<1>15. \A q \in Pipe : Chain(stack', queue', q) = Chain(stack, queue, q) /\ MyEnd(q)' = MyEnd(q)
  BY <1>1, <1>10, <1>11, <1>13, <1>14 DEF MyEnd
<1>16. Written'
  <2>1. ToSet(<<>>) = {}
    BY DEF ToSet
  <2> QED BY <1>1, <1>10, <2>1 DEF Ctl, Written
<1>17. FilledUp'
  BY <1>5, <1>9 DEF FilledUp, Top
<1> QED BY <1>1, <1>15, <1>16, <1>17, QuietCtl

(* A transaction is queued when it has been written.                       *)
LEMMA EnqueueWritten ==
  ASSUME Core, Others, Ctl, Enqueue, UNCHANGED <<mem, chunks>>
  PROVE  Written'
<1>1. PICK p \in Pipe, x \in Transfer, t \in QTD : Enqueues(p, x, t)
  BY EnqueueIs
<1>2. /\ p = Top.pipe /\ x = Top.x /\ stack # <<>> /\ Top.at = "fill" /\ Top \in FrameType
      /\ queue' = [queue EXCEPT ![p] = Append(queue[p], x)]
  BY <1>1 DEF Enqueues
<1>3. queue \in [Pipe -> Seq(Transfer)] /\ queue[p] \in Seq(Transfer)
  BY DEF Core, Queues
<1>4. ToSet(queue'[p]) = ToSet(queue[p]) \cup {x} /\ \A q \in Pipe : q # p => queue'[q] = queue[q]
  BY <1>2, <1>3, AppendSet
<1>5. Top.filled = Len(chunks[x]) /\ chunks[x] \in Seq(QTD)
  BY <1>2 DEF Enqueue, Filled, Core, QTDs
<1>6. PICK n \in Nat : n = Len(chunks[x])
  BY <1>5, LengthIs
<1>7. \A k \in 1 .. n : mem[chunks[x][k]].token # "idle"
  <2> SUFFICES ASSUME NEW k \in 1 .. n PROVE mem[chunks[x][k]].token # "idle"
    OBVIOUS
  <2>1. ~(k > n)
    OBVIOUS
  <2> QED BY <2>1, <1>2, <1>5, <1>6 DEF Ctl, FilledUp
<1>8. \A u \in ToSet(chunks[x]) : mem[u].token # "idle"
  BY <1>5, <1>6, <1>7, MemberIs
<1>9. \A q \in Pipe : \A y \in ToSet(queue[q]) : \A u \in ToSet(chunks[y]) : mem[u].token # "idle"
  BY DEF Ctl, Written
<1>10. ASSUME NEW q \in Pipe, NEW y \in ToSet(queue'[q]) PROVE \A u \in ToSet(chunks[y]) : mem[u].token # "idle"
  <2>1. y = x \/ y \in ToSet(queue[q])
    BY <1>4
  <2> QED BY <2>1, <1>8, <1>9
<1> QED BY <1>10 DEF Written

(* Append1: what was added stays added.                                    *)
LEMMA Append1Ctl == ASSUME Core, Others, Ctl, Append1 PROVE Ctl'
<1>1. /\ Enqueue /\ UNCHANGED <<mem, overlay, chunks, lost, open, free>> /\ stack' = Tail(stack)
  BY DEF Append1, hwVars, historyVars, Return
<1>2. PICK p \in Pipe, x \in Transfer, t \in QTD : Enqueues(p, x, t)
  BY <1>1, EnqueueIs
<1>3. /\ p = Top.pipe /\ x = Top.x /\ t = Top.new
      /\ stack # <<>> /\ Top.at = "fill" /\ BelowSubmit(Tail(stack))
      /\ dummy' = [dummy EXCEPT ![p] = t]
      /\ queue' = [queue EXCEPT ![p] = Append(queue[p], x)]
  BY <1>2 DEF Enqueues
<1>4. queue \in [Pipe -> Seq(Transfer)] /\ dummy \in [Pipe -> QTD \cup {None}]
  BY DEF Core, Queues
<1>5. /\ queue'[p] = Append(queue[p], x) /\ dummy'[p] = t
      /\ \A q \in Pipe : q # p => queue'[q] = queue[q] /\ dummy'[q] = dummy[q]
  BY <1>3, <1>4
<1>6. Plain(stack')
  BY <1>1, <1>3, PlainIs DEF BelowSubmit
<1>7. \A q \in Pipe : Chain(stack', queue', q) = queue'[q] /\ MyEnd(q)' = dummy'[q]
  BY <1>6, PlainChain DEF MyEnd
<1>8. /\ Chain(stack, queue, p) = Append(queue[p], x) /\ MyEnd(p) = t
      /\ \A q : q # p => Chain(stack, queue, q) = queue[q] /\ MyEnd(q) = dummy[q]
  BY <1>3, FilledChain DEF MyEnd, Top
<1>9. \A q \in Pipe : Chain(stack', queue', q) = Chain(stack, queue, q) /\ MyEnd(q)' = MyEnd(q)
  BY <1>5, <1>7, <1>8
<1>10. FilledUp'
  BY <1>6 DEF FilledUp, Plain, Top
<1> QED BY <1>1, <1>9, <1>10, EnqueueWritten, QuietCtl

(* AppendFirst: so it does while the queue head is to be rebuilt.          *)
LEMMA AppendFirstCtl == ASSUME Core, Others, Ctl, AppendFirst PROVE Ctl'
<1>1. /\ Enqueue /\ UNCHANGED <<mem, overlay, chunks, lost, open, free>>
      /\ Call([Top EXCEPT !.at = "check"], Stop("rebuild", Top.pipe))
  BY DEF AppendFirst, hwVars, historyVars
<1>2. PICK p \in Pipe, x \in Transfer, t \in QTD : Enqueues(p, x, t)
  BY <1>1, EnqueueIs
<1>3. /\ p = Top.pipe /\ x = Top.x /\ t = Top.new /\ Top \in FrameType
      /\ stack # <<>> /\ Top.at = "fill" /\ BelowSubmit(Tail(stack))
      /\ dummy' = [dummy EXCEPT ![p] = t]
      /\ queue' = [queue EXCEPT ![p] = Append(queue[p], x)]
  BY <1>2 DEF Enqueues
<1>4. queue \in [Pipe -> Seq(Transfer)] /\ dummy \in [Pipe -> QTD \cup {None}]
  BY DEF Core, Queues
<1>5. /\ queue'[p] = Append(queue[p], x) /\ dummy'[p] = t
      /\ \A q \in Pipe : q # p => queue'[q] = queue[q] /\ dummy'[q] = dummy[q]
  BY <1>3, <1>4
<1>6. PICK f : f = [Top EXCEPT !.at = "check"]
  OBVIOUS
<1>7. PICK s : s = Stop("rebuild", p)
  OBVIOUS
<1>8. s \in FrameType /\ s.at \in {"stopping", "stopped"} /\ s.op = "rebuild" /\ s.pipe = p
  BY <1>7, StopIs
<1>9. f \in FrameType /\ f.at = "check" /\ f.list = <<>>
  <2>1. Top.list = <<>>
    BY <1>3, SubmitIs DEF Core, Submits
  <2> QED BY <1>3, <1>6, <2>1 DEF FrameType, Points
<1>10. Call(f, s)
  BY <1>1, <1>3, <1>6, <1>7
<1>11. stack' # <<>> /\ Head(stack') = s /\ Tail(stack') # <<>> /\ Head(Tail(stack')) = f
  <2>1. Tail(stack) \in Seq(FrameType)
    BY <1>3, StackIs DEF Core
  <2>2. Top' = s /\ Tail(stack') = <<f>> \o Tail(stack) /\ Head(Tail(stack')) = f /\ stack' # <<>>
    BY <1>3, <1>8, <1>9, <1>10, CallIs DEF Core
  <2>3. <<f>> \o Tail(stack) # <<>>
    BY <2>1, <1>9, PushSet
  <2> QED BY <2>2, <2>3 DEF Top
<1>12. /\ Chain(stack', queue', p) = Held(f) \o queue'[p]
       /\ \A q : q # p => Chain(stack', queue', q) = queue'[q]
       /\ \A q : End(stack', dummy', q) = dummy'[q]
  <2>1. /\ stack' # <<>> /\ Tail(stack') # <<>> /\ Head(stack').at \in {"stopping", "stopped"}
        /\ Head(stack').op = "rebuild" /\ Head(stack').pipe = p /\ Head(Tail(stack')) = f
    BY <1>8, <1>11
  <2>2. /\ Chain(stack', queue', p) = Held(Head(Tail(stack'))) \o queue'[p]
        /\ \A q : q # p => Chain(stack', queue', q) = queue'[q]
        /\ \A q : End(stack', dummy', q) = dummy'[q]
    BY <2>1 DEF Chain, End, Fills, Pulls
  <2> QED BY <2>1, <2>2
<1>13. Held(f) \o queue'[p] = queue'[p]
  <2>1. Held(f) = <<>>
    BY <1>9 DEF Held
  <2>2. queue'[p] \in Seq(Transfer)
    BY <1>4, <1>5
  <2> QED BY <2>1, <2>2
<1>14. /\ Chain(stack, queue, p) = Append(queue[p], x) /\ MyEnd(p) = t
       /\ \A q : q # p => Chain(stack, queue, q) = queue[q] /\ MyEnd(q) = dummy[q]
  BY <1>3, FilledChain DEF MyEnd, Top
<1>15. \A q \in Pipe : Chain(stack', queue', q) = Chain(stack, queue, q) /\ MyEnd(q)' = MyEnd(q)
  BY <1>5, <1>12, <1>13, <1>14 DEF MyEnd
<1>16. FilledUp'
  BY <1>8, <1>11 DEF FilledUp, Top
<1> QED BY <1>1, <1>15, <1>16, EnqueueWritten, QuietCtl

(* A transaction that needs no repair is answered when all its qTDs have   *)
(* retired.                                                                *)
LEMMA AnsweredRetired ==
  ASSUME Others, NEW x, chunks[x] \in Seq(QTD), Evaluate(x).how # "pending", ~Evaluate(x).repair,
         \A t \in ToSet(chunks[x]) : mem[t].token # "idle"
  PROVE  \A t \in ToSet(chunks[x]) : mem[t].token \in Retired
<1> DEFINE cs   == chunks[x]
           Op   == {i \in DOMAIN cs : mem[cs[i]].token \in {"active", "error"}}
           i    == CHOOSE j \in Op : \A k \in Op : j <= k
           A    == Op # {} /\ mem[cs[i]].token = "error"
           S    == mem[cs[Len(cs)]].token = "short"
           B    == /\ Op # {} /\ mem[cs[i]].token = "active" /\ i > 1
                   /\ mem[cs[i - 1]].token = "short"
<1>1. Evaluate(x) = CASE Op = {} -> [how |-> "ok", repair |-> S]
                      [] A -> [how |-> "error", repair |-> TRUE]
                      [] B -> [how |-> "ok", repair |-> TRUE]
                      [] OTHER -> [how |-> "pending", repair |-> FALSE]
  BY DEF Evaluate
<1>2. \A t \in ToSet(cs) : t \in QTD /\ \E j \in DOMAIN cs : t = cs[j]
  <2>1. \A t \in ToSet(cs) : t \in QTD /\ \E j \in 1 .. Len(cs) : cs[j] = t
    BY MemberIs
  <2>2. DOMAIN cs = 1 .. Len(cs)
    OBVIOUS
  <2> QED BY <2>1, <2>2
<1> HIDE DEF A, B, S, i
<1>3. CASE Op = {}
  <2> SUFFICES ASSUME NEW t \in ToSet(cs) PROVE mem[t].token \in Retired
    OBVIOUS
  <2>1. mem[t].token \in {"idle", "active", "done", "short", "error"} /\ mem[t].token # "idle"
    BY <1>2 DEF Others
  <2>2. mem[t].token \notin {"active", "error"}
    BY <1>2, <1>3
  <2> QED BY <2>1, <2>2 DEF Retired
<1>4. CASE Op # {}
  <2>1. ~(A /\ B)
    BY DEF A, B
  <2> HIDE DEF Op
  <2>2. Evaluate(x).how = "pending" \/ Evaluate(x).repair
    BY <1>1, <1>4, <2>1
  <2> QED BY <2>2
<1> QED BY <1>3, <1>4

(* ScanCompletes: the first transaction leaves the chain, or does so when  *)
(* the queue head is rebuilt.                                              *)
LEMMA ScanCompletesCtl == ASSUME Core, Others, Ctl, ScanCompletes, ~strayed' PROVE Ctl'
<1>1. /\ stack # <<>> /\ Top.at = "scan" /\ Top.left # <<>>
      /\ UNCHANGED <<open, dummy, chunks, free, mem, overlay, lost>>
  BY DEF ScanCompletes, Runs, hwVars
<1>2. /\ Scans(Top) /\ Tail(stack) = <<>> /\ Top \in FrameType
  BY <1>1, ScanIs, TopIs DEF Core
<1>3. PICK p \in Pipe : p = Head(Top.left)
  <2>1. Top.left \in Seq(Pipe)
    BY <1>2 DEF FrameType
  <2> QED BY <1>1, <2>1
<1>4. /\ queue[p] # <<>> /\ queue' = [queue EXCEPT ![p] = Tail(queue[p])]
      /\ Evaluate(Head(queue[p])).how # "pending"
  BY <1>3 DEF ScanCompletes
<1>5. queue \in [Pipe -> Seq(Transfer)] /\ queue[p] \in Seq(Transfer) /\ IsOpen(p)
  BY <1>4 DEF Core, Queues
<1>6. PICK x \in Transfer : x = Head(queue[p])
  BY <1>4, <1>5
<1>7. PICK how \in {"ok", "error"} : how = Evaluate(x).how
  BY <1>4, <1>6, EvaluateIs
<1>8. PICK r \in Seq(Transfer) : r = Tail(queue[p]) /\ ToSet(queue[p]) = {x} \cup ToSet(r)
  BY <1>4, <1>5, <1>6, TailSet
<1>9. queue[p] = <<x>> \o r
  BY <1>4, <1>5, <1>6, <1>8
<1>10. queue'[p] = r /\ \A q \in Pipe : q # p => queue'[q] = queue[q]
  BY <1>4, <1>5, <1>8
<1>11. PICK f : f = [Top EXCEPT !.at = "complete", !.pipe = p, !.x = x, !.how = how]
  OBVIOUS
<1>12. f \in FrameType /\ f.at = "complete" /\ f.pipe = p /\ f.x = x /\ f.list = <<>>
  BY <1>2, <1>11 DEF FrameType, Points, Scans
<1>13. PICK s : s = Stop("rebuild", p)
  OBVIOUS
<1>14. s \in FrameType /\ s.at \in {"stopping", "stopped"} /\ s.op = "rebuild" /\ s.pipe = p
  BY <1>13, StopIs
<1>15. \/ Call(f, s)
       \/ Goto(f) /\ ~Evaluate(x).repair /\ Len(queue[p]) # 1
  BY <1>3, <1>6, <1>7, <1>11, <1>13 DEF ScanCompletes
<1>16. \A q \in Pipe : Chain(stack, queue, q) = queue[q] /\ MyEnd(q) = dummy[q]
  <2>1. Plain(stack)
    BY <1>1, PlainIs DEF Top
  <2> QED BY <2>1 DEF Plain, Chain, End, Fills, MyEnd
<1>17. Written'
  <2>1. \A q \in Pipe : \A y \in ToSet(queue'[q]) : y \in ToSet(queue[q])
    BY <1>8, <1>10
  <2> QED BY <1>1, <2>1 DEF Ctl, Written
<1>18. CASE Call(f, s)
  <2>1. /\ stack' # <<>> /\ Head(stack') = s /\ Tail(stack') = <<f>> \o Tail(stack)
        /\ Head(Tail(stack')) = f
    BY <1>1, <1>12, <1>14, <1>18, CallIs DEF Core, Top
  <2>2. Tail(stack') # <<>>
    <3>1. <<f>> \o <<>> # <<>>
      OBVIOUS
    <3> QED BY <2>1, <3>1, <1>2
  <2>3. /\ stack' # <<>> /\ Tail(stack') # <<>> /\ Head(stack').at \in {"stopping", "stopped"}
        /\ Head(stack').op = "rebuild" /\ Head(stack').pipe = p /\ Head(Tail(stack')) = f
    BY <1>14, <2>1, <2>2
  <2>4. /\ Chain(stack', queue', p) = Held(Head(Tail(stack'))) \o queue'[p]
        /\ \A q : q # p => Chain(stack', queue', q) = queue'[q]
        /\ \A q : End(stack', dummy', q) = dummy'[q]
    BY <2>3 DEF Chain, End, Fills, Pulls
  <2>5. Held(f) = <<x>>
    BY <1>12, Constants DEF Held
  <2>6. Chain(stack', queue', p) = queue[p]
    BY <1>9, <1>10, <2>3, <2>4, <2>5
  <2>7. \A q \in Pipe : Chain(stack', queue', q) = Chain(stack, queue, q) /\ MyEnd(q)' = MyEnd(q)
    BY <1>1, <1>10, <1>16, <2>4, <2>6 DEF MyEnd
  <2>8. FilledUp'
    BY <2>3 DEF FilledUp, Top
  <2> QED BY <1>1, <1>17, <2>7, <2>8, QuietCtl
<1>19. CASE Goto(f) /\ ~Evaluate(x).repair /\ Len(queue[p]) # 1
  <2>1. stack' # <<>> /\ Head(stack') = f
    BY <1>1, <1>12, <1>19, GotoIs DEF Core, Top
  <2>2. Plain(stack')
    BY <1>12, <2>1, PlainIs
  <2>3. \A q \in Pipe : Chain(stack', queue', q) = queue'[q] /\ MyEnd(q)' = dummy'[q]
    BY <2>2 DEF Plain, Chain, End, Fills, MyEnd
  <2>4. \A q \in Pipe : MyEnd(q)' = MyEnd(q)
    BY <1>1, <1>16, <2>3
  <2>5. FilledUp'
    BY <1>12, <2>1 DEF FilledUp, Top
  <2>6. Blank'
    BY <1>1, <2>4 DEF Ctl, Blank
  <2>7. p \notin lost
    <3>1. Len(queue[p]) > 1
      <4>1. PICK n \in Nat : n = Len(queue[p])
        BY <1>5, LengthIs
      <4>2. n # 0
        BY <1>4, <1>5, <4>1
      <4>3. n # 1
        BY <1>19, <4>1
      <4>4. n > 1
        BY <4>2, <4>3
      <4> QED BY <4>1, <4>4
    <3>2. strayed' = (strayed \/ (p \in lost /\ ~Evaluate(x).repair /\ Len(queue[p]) > 1))
      BY <1>3, <1>6 DEF ScanCompletes
    <3> QED BY <1>19, <3>1, <3>2
  <2>8. \A t \in ToSet(chunks[x]) : mem[t].token \in Retired
    <3>1. chunks[x] \in Seq(QTD)
      BY DEF Core, QTDs
    <3>2. \A t \in ToSet(chunks[x]) : mem[t].token # "idle"
      BY <1>8 DEF Ctl, Written
    <3> QED BY <1>4, <1>6, <1>19, <3>1, <3>2, AnsweredRetired
  <2>9. Follows(p)'
    <3>1. PICK e : e = MyEnd(p)
      OBVIOUS
    <3>2. PICK o : o = overlay[p]
      OBVIOUS
    <3>3. Clean(chunks, <<x>> \o r, e)
      BY <1>5, <1>9, <1>16, <3>1, ChainClean
    <3>4. Good(chunks, <<x>> \o r, e, mem, o, FALSE)
      <4>1. Follows(p) /\ (p \in lost) = FALSE
        BY <1>5, <2>7 DEF Ctl, AllFollow
      <4> QED BY <4>1, <1>9, <1>16, <3>1, <3>2 DEF Follows
    <3>5. Good(chunks, r, e, mem, o, FALSE)
      BY <3>3, <3>4, <2>8, GoodDrop
    <3>6. (p \in lost') = FALSE
      BY <1>1, <2>7
    <3>7. Chain(stack', queue', p) = r /\ MyEnd(p)' = e /\ overlay'[p] = o
      BY <1>1, <1>10, <2>3, <2>4, <3>1, <3>2
    <3> QED BY <1>1, <3>5, <3>6, <3>7 DEF Follows
  <2>10. ASSUME NEW q \in Pipe, IsOpen(q)', q # p PROVE Follows(q)'
    <3>1. IsOpen(q)
      BY <1>1, <2>10 DEF IsOpen
    <3>2. Follows(q)
      BY <3>1 DEF Ctl, AllFollow
    <3>3. Chain(stack', queue', q) = Chain(stack, queue, q)
      BY <1>10, <1>16, <2>3, <2>10
    <3> QED BY <1>1, <2>4, <3>1, <3>2, <3>3, FollowsStays
  <2> QED BY <1>17, <2>5, <2>6, <2>9, <2>10 DEF Ctl, AllFollow
<1> QED BY <1>15, <1>18, <1>19

(* What the steps that write queue heads leave alone.                      *)
LEMMA HeadsCtl ==
  ASSUME Ctl, UNCHANGED <<mem, free, chunks, queue>>, \A p \in Pipe : MyEnd(p)' = MyEnd(p),
         UNCHANGED stack \/ Plain(stack')
  PROVE  Blank' /\ FilledUp' /\ Written'
<1>1. Blank'
  BY DEF Ctl, Blank
<1>2. Written'
  BY DEF Ctl, Written
<1>3. FilledUp'
  BY DEF Ctl, FilledUp, Plain, Top
<1> QED BY <1>1, <1>2, <1>3

(* Where a queue starts.                                                   *)
LEMMA FirstOnIs ==
  ASSUME Core, NEW p \in Pipe, IsOpen(p)
  PROVE  FirstQTD(p) = FirstOn(chunks, queue[p], dummy[p])
<1>1. queue[p] \in Seq(Transfer)
  BY DEF Core, Queues
<1>2. CASE queue[p] # <<>>
  <2>1. PICK x \in Transfer : x = Head(queue[p]) /\ x = queue[p][1] /\ x \in ToSet(queue[p])
    BY <1>1, <1>2, TailSet
  <2>2. chunks[x] \in Seq(QTD) /\ chunks[x] # <<>>
    BY <2>1 DEF Core, QTDs, Busy, Queued
  <2>3. Head(chunks[x]) = chunks[x][1]
    BY <2>2
  <2> QED BY <1>2, <2>1, <2>3 DEF FirstQTD, FirstOn
<1>3. CASE queue[p] = <<>>
  BY <1>3 DEF FirstQTD, FirstOn
<1> QED BY <1>2, <1>3

(* Rebuild: the queue head starts at what is still queued.                 *)
LEMMA RebuildCtl == ASSUME Core, Others, Ctl, Rebuild PROVE Ctl'
<1>1. PICK g : g = [Top EXCEPT !.at = "starting"]
  OBVIOUS
<1>2. /\ stack # <<>> /\ Top.at \in {"stopping", "stopped"} /\ Top.op = "rebuild" /\ Goto(g)
      /\ UNCHANGED <<open, dummy, queue, chunks, free, mem>>
  BY <1>1 DEF Rebuild, Stopped, Runs, Start, driverVars
<1>3. Top \in FrameType /\ FrameOK(Top)
  BY <1>2, TopIs DEF Core
<1>4. g \in FrameType /\ g.at = "starting"
  BY <1>1, <1>3 DEF FrameType, Points
<1>5. PICK p \in Pipe : p = Top.pipe /\ IsOpen(p)
  BY <1>2, <1>3, WaitIs DEF Core, Waiting, FrameOK
<1>6. stack' # <<>> /\ Head(stack') = g
  BY <1>2, <1>4, GotoIs DEF Core, Top
<1>7. Plain(stack')
  BY <1>4, <1>6, PlainIs
<1>8. \A q \in Pipe : Chain(stack', queue', q) = queue[q] /\ MyEnd(q)' = dummy[q]
  BY <1>2, <1>7 DEF Plain, Chain, End, Fills, MyEnd
<1>9. \A q \in Pipe : MyEnd(q) = dummy[q] /\ (q # p => Chain(stack, queue, q) = queue[q])
  BY <1>2, <1>5 DEF Chain, End, Fills, MyEnd, Top
<1>10. queue[p] \in Seq(Transfer)
  BY DEF Core, Queues
<1>11. PICK h \in Seq(Transfer) : Chain(stack, queue, p) = h \o queue[p]
  <2>1. CASE Tail(stack) = <<>>
    <3>1. Chain(stack, queue, p) = queue[p]
      BY <1>2, <2>1 DEF Chain, Fills, Pulls, Top
    <3>2. <<>> \in Seq(Transfer) /\ <<>> \o queue[p] = queue[p]
      BY <1>10
    <3> QED BY <3>1, <3>2
  <2>2. CASE Tail(stack) # <<>>
    <3>1. PICK f : f = Head(Tail(stack))
      OBVIOUS
    <3>2. Chain(stack, queue, p) = Held(f) \o queue[p]
      BY <1>2, <1>5, <2>2, <3>1 DEF Chain, Fills, Pulls, Top
    <3>3. f \in FrameType /\ Kind(f)
      BY <1>2, <2>2, <3>1, PullIs, KindsOK DEF Core, Waiting
    <3>4. Held(f) \in Seq(Transfer)
      <4>1. f.list \in Seq(Transfer)
        BY <3>3 DEF FrameType
      <4>2. CASE f.at \in {"fill", "complete", "callback"}
        <5>1. f.x \in Transfer /\ f.x # None
          BY <4>2, <3>3, Constants DEF Kind, Waits, Waiting, Submits, Scans, Aborts
        <5>2. Held(f) = <<f.x>> \o f.list
          BY <4>2, <5>1 DEF Held
        <5> QED BY <4>1, <5>1, <5>2, PushSet
      <4>3. CASE f.at \notin {"fill", "complete", "callback"}
        <5>1. Held(f) = f.list
          BY <4>1, <4>3 DEF Held
        <5> QED BY <4>1, <5>1
      <4> QED BY <4>2, <4>3
    <3> QED BY <3>2, <3>4
  <2> QED BY <2>1, <2>2
<1>12. FirstQTD(p) = FirstOn(chunks, queue[p], dummy[p])
  BY <1>5, FirstOnIs
<1>13. PICK t : t = FirstQTD(p)
  OBVIOUS
<1>14. /\ overlay' = [overlay EXCEPT ![p] = [NoQH EXCEPT !.next = t]]
       /\ lost' = IF mem[t].token \in {"idle", "active"} THEN lost \ {p} ELSE lost \cup {p}
  BY <1>5, <1>13 DEF Rebuild
<1>15. overlay \in [Pipe -> QHType]
  BY OthersAre DEF OverlayOK
<1>16. /\ overlay'[p] = [NoQH EXCEPT !.next = t]
       /\ \A q \in Pipe : q # p => overlay'[q] = overlay[q] /\ (q \in lost => q \in lost')
  BY <1>14, <1>15
<1>17. mem[t].token \in Fresh \/ p \in lost'
  BY <1>14 DEF Fresh
<1>18. Follows(p)'
  <2>1. PICK r \in Seq(Transfer) : r = queue[p]
    BY <1>10
  <2>2. PICK e : e = MyEnd(p)
    OBVIOUS
  <2>3. PICK o : o = overlay[p]
    OBVIOUS
  <2> DEFINE l == p \in lost
             k == p \in lost'
  <2>4. Clean(chunks, h \o r, e)
    BY <1>5, <1>11, <2>1, <2>2, ChainClean
  <2>5. Good(chunks, h \o r, e, mem, o, l)
    BY <1>5, <1>11, <2>1, <2>2, <2>3 DEF Ctl, AllFollow, Follows
  <2>6. t = FirstOn(chunks, r, e)
    BY <1>9, <1>12, <1>13, <2>1, <2>2
  <2>7. Follows(p)' <=> Good(chunks, r, e, mem, [NoQH EXCEPT !.next = t], k)
    BY <1>2, <1>8, <1>9, <1>16, <2>1, <2>2 DEF Follows
  <2>8. mem[t].token \in Fresh \/ k
    BY <1>17
  <2> HIDE DEF l, k
  <2>9. Good(chunks, r, e, mem, [NoQH EXCEPT !.next = FirstOn(chunks, r, e)], k)
    BY <2>4, <2>5, <2>6, <2>8, GoodRestart
  <2> QED BY <2>6, <2>7, <2>9
<1>19. ASSUME NEW q \in Pipe, IsOpen(q)', q # p PROVE Follows(q)'
  <2>1. IsOpen(q)
    BY <1>2, <1>19 DEF IsOpen
  <2>2. Follows(q)
    BY <2>1 DEF Ctl, AllFollow
  <2> QED BY <1>2, <1>8, <1>9, <1>16, <1>19, <2>1, <2>2, FollowsStays
<1>20. Blank' /\ FilledUp' /\ Written'
  BY <1>2, <1>7, <1>8, <1>9, HeadsCtl
<1> QED BY <1>18, <1>19, <1>20 DEF Ctl, AllFollow

(* Link: a new queue head starts at its dummy.                             *)
LEMMA LinkCtl == ASSUME Core, Others, Ctl, Link PROVE Ctl'
<1>1. PICK g : g = [Top EXCEPT !.at = "starting"]
  OBVIOUS
<1>2. /\ stack # <<>> /\ Top.at \in {"stopping", "stopped"} /\ Top.op = "link" /\ Goto(g)
      /\ UNCHANGED <<dummy, queue, chunks, free, mem, lost>>
  BY <1>1 DEF Link, Stopped, Runs, Start, historyVars
<1>3. Top \in FrameType /\ FrameOK(Top) /\ Top \in Frames
  BY <1>2, TopIs DEF Core
<1>4. g \in FrameType /\ g.at = "starting"
  BY <1>1, <1>3 DEF FrameType, Points
<1>5. PICK p \in Pipe : p = Top.pipe
  BY <1>2, <1>3, WaitIs DEF Core, Waiting
<1>6. stack' # <<>> /\ Head(stack') = g
  BY <1>2, <1>4, GotoIs DEF Core, Top
<1>7. Plain(stack) /\ Plain(stack')
  BY <1>2, <1>4, <1>6, PlainIs DEF Top
<1>8. \A q \in Pipe : Chain(stack', queue', q) = queue[q] /\ MyEnd(q)' = dummy[q]
  BY <1>2, <1>7 DEF Plain, Chain, End, Fills, MyEnd
<1>9. \A q \in Pipe : Chain(stack, queue, q) = queue[q] /\ MyEnd(q) = dummy[q]
  BY <1>7 DEF Plain, Chain, End, Fills, MyEnd
<1>10. queue[p] = <<>> /\ dummy[p] \in QTD /\ dummy[p] # None
  <2>1. Linking(p)
    BY <1>2, <1>3, <1>5 DEF Linking
  <2> QED BY <1>2, <1>3, <1>5, <2>1 DEF FrameOK, Core, Queues
<1>11. open \in Seq(Pipe) /\ open' = <<p>> \o open
  BY <1>5 DEF Link, Core, Queues
<1>12. ToSet(open') = {p} \cup ToSet(open)
  BY <1>11, PushSet
<1>13. overlay' = [overlay EXCEPT ![p] = [NoQH EXCEPT !.next = dummy[p]]] /\ overlay \in [Pipe -> QHType]
  BY <1>5, OthersAre DEF Link, OverlayOK
<1>14. /\ overlay'[p] = [NoQH EXCEPT !.next = dummy[p]]
       /\ \A q \in Pipe : q # p => overlay'[q] = overlay[q]
  BY <1>13
<1>15. Follows(p)'
  <2>1. PICK e \in QTD : e = dummy[p]
    BY <1>10
  <2>2. mem[e].token = "idle"
    BY <1>9, <1>10, <2>1 DEF Ctl, Blank
  <2> DEFINE k == p \in lost'
  <2>3. Follows(p)' <=> Good(chunks, <<>>, e, mem, [NoQH EXCEPT !.next = e], k)
    BY <1>2, <1>8, <1>10, <1>14, <2>1 DEF Follows
  <2> HIDE DEF k
  <2>4. Good(chunks, <<>>, e, mem, [NoQH EXCEPT !.next = e], k)
    BY <2>2, GoodStart
  <2> QED BY <2>3, <2>4
<1>16. ASSUME NEW q \in Pipe, IsOpen(q)', q # p PROVE Follows(q)'
  <2>1. IsOpen(q)
    BY <1>12, <1>16 DEF IsOpen
  <2>2. Follows(q)
    BY <2>1 DEF Ctl, AllFollow
  <2> QED BY <1>2, <1>8, <1>9, <1>14, <1>16, <2>1, <2>2, FollowsStays
<1>17. Blank' /\ FilledUp' /\ Written'
  BY <1>2, <1>7, <1>8, <1>9, HeadsCtl
<1> QED BY <1>15, <1>16, <1>17 DEF Ctl, AllFollow

(* HcFetch: the controller comes to the next qTD of the chain.             *)
LEMMA HcFetchCtl == ASSUME Core, Others, Ctl, NEW p \in Pipe, HcFetch(p) PROVE Ctl'
<1>1. PICK o : o = overlay[p]
  OBVIOUS
<1>2. /\ IsOpen(p) /\ o.token = "idle" /\ mem[o.next].token = "active"
      /\ overlay' = [overlay EXCEPT ![p] = [cur |-> o.next, next |-> mem[o.next].next, token |-> "active"]]
      /\ UNCHANGED <<open, dummy, queue, chunks, free, mem, lost, stack>>
  BY <1>1 DEF HcFetch, driverVars, historyVars
<1>3. overlay \in [Pipe -> QHType]
  BY OthersAre DEF OverlayOK
<1>4. /\ overlay'[p] = [cur |-> o.next, next |-> mem[o.next].next, token |-> "active"]
      /\ \A q \in Pipe : q # p => overlay'[q] = overlay[q]
  BY <1>2, <1>3
<1>5. \A q \in Pipe : Chain(stack', queue', q) = Chain(stack, queue, q) /\ MyEnd(q)' = MyEnd(q)
  BY <1>2 DEF MyEnd
<1>6. Follows(p)'
  <2>1. PICK c : c = Chain(stack, queue, p)
    OBVIOUS
  <2>2. PICK e : e = MyEnd(p)
    OBVIOUS
  <2> DEFINE l == p \in lost
  <2>3. Clean(chunks, c, e) /\ e \in QTD
    BY <1>2, <2>1, <2>2, ChainClean, EndIs
  <2>4. Good(chunks, c, e, mem, o, l)
    BY <1>1, <1>2, <2>1, <2>2 DEF Ctl, AllFollow, Follows
  <2>5. mem[e].token = "idle"
    BY <2>2, <2>3, Constants DEF Ctl, Blank
  <2>6. Follows(p)' <=> Good(chunks, c, e, mem, [cur |-> o.next, next |-> mem[o.next].next, token |-> "active"], l)
    BY <1>2, <1>4, <1>5, <2>1, <2>2 DEF Follows
  <2> HIDE DEF l
  <2>7. Good(chunks, c, e, mem, [cur |-> o.next, next |-> mem[o.next].next, token |-> "active"], l)
    BY <1>2, <2>3, <2>4, <2>5, GoodFetch
  <2> QED BY <2>6, <2>7
<1>7. ASSUME NEW q \in Pipe, IsOpen(q)', q # p PROVE Follows(q)'
  <2>1. IsOpen(q)
    BY <1>2, <1>7 DEF IsOpen
  <2>2. Follows(q)
    BY <2>1 DEF Ctl, AllFollow
  <2> QED BY <1>2, <1>4, <1>5, <1>7, <2>1, <2>2, FollowsStays
<1>8. Blank' /\ FilledUp' /\ Written'
  BY <1>2, <1>5, HeadsCtl
<1> QED BY <1>6, <1>7, <1>8 DEF Ctl, AllFollow

(* What is written stays so, what is not neither.                          *)
LEMMA TokensCtl ==
  ASSUME Core, Others, Ctl, \A t \in QTD : mem'[t].token = "idle" <=> mem[t].token = "idle",
         UNCHANGED <<stack, queue, dummy, chunks, free>>
  PROVE  Blank' /\ FilledUp' /\ Written'
<1>1. free \in Seq(QTD) /\ chunks \in [Transfer -> Seq(QTD)] /\ dummy \in [Pipe -> QTD \cup {None}]
  BY DEF Core, QTDs, Queues
<1>2. \A t \in ToSet(free) : t \in QTD
  BY <1>1, MemberIs
<1>3. \A x \in Transfer : \A t \in ToSet(chunks[x]) : t \in QTD
  BY <1>1, MemberIs
<1>4. \A p \in Pipe : \A x \in ToSet(queue[p]) : x \in Transfer
  BY MemberIs DEF Core, Queues
<1>5. \A p \in Pipe : MyEnd(p)' = MyEnd(p) /\ MyEnd(p) \in QTD \cup {None}
  <2>1. TAKE p \in Pipe
  <2>2. CASE Fills(stack, p)
    <3>1. Top.new \in QTD
      BY <2>2, RunningIs DEF Fills, Top
    <3> QED BY <2>2, <3>1 DEF MyEnd, End, Top
  <2>3. CASE ~Fills(stack, p)
    BY <1>1, <2>3 DEF MyEnd, End
  <2> QED BY <2>2, <2>3
<1>6. Blank'
  BY <1>2, <1>5 DEF Ctl, Blank
<1>7. Written'
  BY <1>3, <1>4 DEF Ctl, Written
<1>8. FilledUp'
  <2>1. SUFFICES ASSUME stack # <<>>, Top.at = "fill", NEW k \in 1 .. Len(chunks[Top.x])
                 PROVE  mem'[chunks[Top.x][k]].token = "idle" <=> k > Top.filled
    BY DEF FilledUp, Top
  <2>2. PICK x \in Transfer : x = Top.x
    BY <2>1, RunningIs
  <2>3. chunks[x][k] \in QTD
    BY <1>1, <2>1, <2>2
  <2>4. mem[chunks[x][k]].token = "idle" <=> k > Top.filled
    BY <2>1, <2>2 DEF Ctl, FilledUp
  <2> QED BY <2>2, <2>3, <2>4
<1> QED BY <1>6, <1>7, <1>8

(* HcRetire: the controller answers for the qTD it works on.               *)
LEMMA HcRetireCtl ==
  ASSUME Core, Others, Ctl, NEW p \in Pipe, NEW token \in {"done", "short", "error"}, HcRetire(p, token)
  PROVE  Ctl'
<1>1. PICK o : o = overlay[p]
  OBVIOUS
<1>2. PICK t : t = o.cur
  OBVIOUS
<1>3. /\ IsOpen(p) /\ o.token = "active"
      /\ mem' = [mem EXCEPT ![t].token = token]
      /\ overlay' = [overlay EXCEPT ![p].token = IF token = "error" THEN "halted" ELSE "idle"]
      /\ UNCHANGED <<open, dummy, queue, chunks, free, lost, stack>>
  BY <1>1, <1>2 DEF HcRetire, driverVars, historyVars
<1>4. mem \in [QTD -> QTDType] /\ overlay \in [Pipe -> QHType]
  BY OthersAre DEF OverlayOK, MemOK
<1>5. /\ overlay'[p] = [o EXCEPT !.token = IF token = "error" THEN "halted" ELSE "idle"]
      /\ \A q \in Pipe : q # p => overlay'[q] = overlay[q]
  BY <1>1, <1>3, <1>4
<1>6. \A q \in Pipe : Chain(stack', queue', q) = Chain(stack, queue, q) /\ MyEnd(q)' = MyEnd(q)
  BY <1>3 DEF MyEnd
<1>7. PICK c : c = Chain(stack, queue, p)
  OBVIOUS
<1>8. PICK e : e = MyEnd(p)
  OBVIOUS
<1> DEFINE l == p \in lost
<1>9. Clean(chunks, c, e) /\ Good(chunks, c, e, mem, o, l)
  BY <1>1, <1>3, <1>7, <1>8, ChainClean DEF Ctl, AllFollow, Follows
<1>10. In(chunks, c, t) /\ mem[t].token = "active"
  BY <1>2, <1>3, <1>9 DEF Good, WorksOK
<1>11. t \in QTD /\ Mine(p, t)
  BY <1>3, <1>7, <1>10, ChainClean DEF Mine
<1>12. \A u \in QTD : u # t => mem'[u] = mem[u]
  BY <1>3, <1>4
<1>13. mem'[t].token = token
  BY <1>3, <1>4, <1>11 DEF QTDType
<1>14. Follows(p)'
  <2>1. Follows(p)' <=> Good(chunks, c, e, [mem EXCEPT ![o.cur].token = token],
                             [o EXCEPT !.token = IF token = "error" THEN "halted" ELSE "idle"], l)
    BY <1>2, <1>3, <1>5, <1>6, <1>7, <1>8 DEF Follows
  <2>2. o \in QHType /\ token \in Retired
    BY <1>1, <1>4 DEF Retired
  <2> HIDE DEF l
  <2>3. Good(chunks, c, e, [mem EXCEPT ![o.cur].token = token],
             [o EXCEPT !.token = IF token = "error" THEN "halted" ELSE "idle"], l)
    BY <1>3, <1>4, <1>9, <2>2, GoodRetire
  <2> QED BY <2>1, <2>3
<1>15. ASSUME NEW q \in Pipe, IsOpen(q)', q # p PROVE Follows(q)'
  <2>1. IsOpen(q)
    BY <1>3, <1>15 DEF IsOpen
  <2>2. Follows(q)
    BY <2>1 DEF Ctl, AllFollow
  <2>3. \A u \in QTD : Mine(q, u) \/ u = MyEnd(q) => mem'[u] = mem[u]
    BY <1>3, <1>11, <1>12, <1>15, <2>1, ChainsApart
  <2> QED BY <1>3, <1>5, <1>6, <1>15, <2>1, <2>2, <2>3, FollowsStays
<1>16. Blank' /\ FilledUp' /\ Written'
  BY <1>3, <1>10, <1>12, <1>13, TokensCtl
<1> QED BY <1>14, <1>15, <1>16 DEF Ctl, AllFollow

(* Create: the pipe is not open yet.                                       *)
LEMMA CreateCtl == ASSUME Core, Others, Ctl, NEW p \in Pipe, Create(p) PROVE Ctl'
<1>1. PICK g : g = Frame(IF enabled THEN "stopping" ELSE "stopped", "link", p)
  OBVIOUS
<1>2. /\ stack = <<>> /\ ~IsOpen(p) /\ free # <<>> /\ free' = Tail(free)
      /\ dummy' = [dummy EXCEPT ![p] = Head(free)] /\ stack' = <<g>>
      /\ UNCHANGED <<mem, overlay, open, queue, chunks, lost>>
  BY <1>1 DEF Create, Stop, hwVars, historyVars
<1>3. g.op = "link" /\ g.at # "fill"
  BY <1>1 DEF Frame
<1>4. Plain(stack) /\ Plain(stack')
  BY <1>2, <1>3, PlainIs
<1>5. \A q \in Pipe : /\ Chain(stack', queue', q) = queue[q] /\ MyEnd(q)' = dummy'[q]
                      /\ Chain(stack, queue, q) = queue[q] /\ MyEnd(q) = dummy[q]
  BY <1>2, <1>4 DEF Plain, Chain, End, Fills, MyEnd
<1>6. dummy \in [Pipe -> QTD \cup {None}] /\ free \in Seq(QTD)
  BY DEF Core, Queues, QTDs
<1>7. Head(free) \in ToSet(free) /\ ToSet(Tail(free)) \subseteq ToSet(free)
  BY <1>2, <1>6, TailSet
<1>8. Blank'
  BY <1>2, <1>5, <1>6, <1>7 DEF Ctl, Blank
<1>9. Written' /\ FilledUp'
  BY <1>2, <1>4 DEF Ctl, Written, FilledUp, Plain, Top
<1>10. ASSUME NEW q \in Pipe, IsOpen(q)' PROVE Follows(q)'
  <2>1. IsOpen(q) /\ q # p
    BY <1>2, <1>10 DEF IsOpen
  <2>2. Follows(q)
    BY <2>1 DEF Ctl, AllFollow
  <2>3. MyEnd(q)' = MyEnd(q)
    BY <1>2, <1>5, <1>6, <2>1
  <2> QED BY <1>2, <1>5, <2>1, <2>2, <2>3, FollowsStays
<1> QED BY <1>8, <1>9, <1>10 DEF Ctl, AllFollow

(* The qTDs of a new transaction.                                          *)
LEMMA TakenIs ==
  ASSUME NEW d \in QTD, NEW l \in Seq(QTD), Distinct(l), d \notin ToSet(l), NEW n \in 1 .. Len(l)
  PROVE  LET c == <<d>> \o SubSeq(l, 1, n - 1)
         IN  /\ c \in Seq(QTD) /\ c # <<>> /\ Distinct(c) /\ c[1] = d
             /\ l[n] \in QTD /\ l[n] \in ToSet(l) /\ l[n] \notin ToSet(c)
             /\ \A t \in ToSet(c) : t = d \/ t \in ToSet(l)
             /\ ToSet(SubSeq(l, n + 1, Len(l))) \subseteq ToSet(l)
<1> DEFINE a == SubSeq(l, 1, n - 1)
           b == SubSeq(l, n + 1, Len(l))
<1>1. /\ a \in Seq(QTD) /\ l[n] \in QTD /\ Distinct(a)
      /\ ToSet(l) = ToSet(a) \cup {l[n]} \cup ToSet(b)
      /\ l[n] \notin ToSet(a) \cup ToSet(b)
  BY CutSet
<1> HIDE DEF a, b
<1>2. d \notin ToSet(a)
  BY <1>1
<1>3. /\ <<d>> \o a \in Seq(QTD) /\ <<d>> \o a # <<>> /\ Head(<<d>> \o a) = d
      /\ ToSet(<<d>> \o a) = {d} \cup ToSet(a) /\ Distinct(<<d>> \o a)
  BY <1>1, <1>2, PushSet
<1>4. (<<d>> \o a)[1] = d
  BY <1>3
<1>5. l[n] \in ToSet(l)
  BY <1>1
<1>6. l[n] \notin ToSet(<<d>> \o a)
  BY <1>1, <1>3, <1>5
<1>7. \A t \in ToSet(<<d>> \o a) : t = d \/ t \in ToSet(l)
  BY <1>1, <1>3
<1>8. ToSet(b) \subseteq ToSet(l)
  BY <1>1
<1> QED BY <1>1, <1>3, <1>4, <1>5, <1>6, <1>7, <1>8 DEF a, b

(* Submit: the chain gets a transaction that is not written yet.           *)
LEMMA SubmitCtl ==
  ASSUME Core, Others, Ctl, NEW x \in Transfer, NEW p \in Pipe, NEW n \in 1 .. MaxChunks, Submit(x, p, n)
  PROVE  Ctl'
<1>1. /\ ~Busy(x)
      /\ stack # <<>> => Top.at = "callback"
  <2>1. stack # <<>> => Top \in Frames
    BY TopIs DEF Core
  <2> QED BY <2>1, MaySubmitIs DEF Submit
<1>2. /\ free \in Seq(QTD) /\ Distinct(free) /\ Len(free) >= n /\ IsOpen(p)
      /\ UNCHANGED <<open, dummy, queue, mem, overlay, lost>>
  BY DEF Submit, Core, QTDs, clientVars, hwVars, historyVars
<1>3. PICK m \in Nat : m = Len(free)
  BY <1>2, LengthIs
<1>4. n \in 1 .. Len(free)
  BY <1>2, <1>3, Constants
<1>5. PICK t \in QTD : t = free[n]
  BY <1>2, <1>4
<1>6. PICK g : g = [Frame("fill", "submit", p) EXCEPT !.x = x, !.new = t]
  OBVIOUS
<1>7. g.at = "fill" /\ g.pipe = p /\ g.x = x /\ g.new = t /\ g.filled = 0
  BY <1>6 DEF Frame
<1>8. stack' = <<g>> \o stack
  BY <1>5, <1>6 DEF Submit
<1>9. stack' # <<>> /\ Head(stack') = g
  <2>1. stack \in Seq(FrameType)
    BY DEF Core, Nested
  <2> QED BY <1>8, <2>1
<1>10. Plain(stack)
  <2>1. CASE stack = <<>>
    BY <2>1, PlainIs
  <2>2. CASE stack # <<>>
    BY <1>1, <2>2, PlainIs DEF Top
  <2> QED BY <2>1, <2>2
<1>11. \A q \in Pipe : Chain(stack, queue, q) = queue[q] /\ MyEnd(q) = dummy[q]
  BY <1>10 DEF Plain, Chain, End, Fills, MyEnd
<1>12. /\ Chain(stack', queue', p) = Append(queue[p], x) /\ MyEnd(p)' = t
       /\ \A q \in Pipe : q # p => Chain(stack', queue', q) = queue[q] /\ MyEnd(q)' = dummy[q]
  BY <1>2, <1>7, <1>9 DEF Chain, End, Fills, MyEnd
<1>13. PICK d \in QTD : d = dummy[p] /\ d \notin ToSet(free) /\ d # None
  <2>1. MyEnd(p) \in QTD /\ MyEnd(p) \notin ToSet(free)
    BY <1>2, EndIs
  <2> QED BY <1>11, <2>1, Constants
<1>14. PICK c : c = <<d>> \o SubSeq(free, 1, n - 1)
  OBVIOUS
<1>15. /\ c \in Seq(QTD) /\ c # <<>> /\ Distinct(c) /\ c[1] = d
       /\ t \in ToSet(free) /\ t \notin ToSet(c)
       /\ \A u \in ToSet(c) : u = d \/ u \in ToSet(free)
       /\ ToSet(SubSeq(free, n + 1, Len(free))) \subseteq ToSet(free)
  BY <1>2, <1>4, <1>5, <1>13, <1>14, TakenIs
<1>16. /\ chunks' = [chunks EXCEPT ![x] = c] /\ chunks \in [Transfer -> Seq(QTD)]
       /\ ToSet(free') \subseteq ToSet(free)
  BY <1>13, <1>14, <1>15 DEF Submit, Core, QTDs
<1>17. chunks'[x] = c /\ \A y \in Transfer : y # x => chunks'[y] = chunks[y]
  BY <1>16
<1>18. \A u \in ToSet(free) : mem[u].token = "idle"
  BY DEF Ctl, Blank
<1>19. mem[d].token = "idle"
  BY <1>11, <1>13 DEF Ctl, Blank
<1>20. \A u \in ToSet(c) : mem[u].token = "idle"
  BY <1>15, <1>18, <1>19
<1>21. \A q \in Pipe : queue[q] \in Seq(Transfer) /\ ToSet(queue[q]) \in SUBSET Transfer /\ x \notin ToSet(queue[q])
  BY <1>1, MemberIs DEF Core, Queues, Busy, Queued
<1>22. Blank'
  <2>1. \A u \in ToSet(free') : mem'[u].token = "idle"
    BY <1>2, <1>16, <1>18
  <2>2. \A q \in Pipe : MyEnd(q)' # None => mem'[MyEnd(q)'].token = "idle"
    BY <1>2, <1>11, <1>12, <1>15, <1>18 DEF Ctl, Blank
  <2> QED BY <2>1, <2>2 DEF Blank
<1>23. Written'
  <2>1. SUFFICES ASSUME NEW q \in Pipe, NEW y \in ToSet(queue[q]), NEW u \in ToSet(chunks'[y])
                 PROVE  mem[u].token # "idle"
    BY <1>2 DEF Written
  <2>2. y \in Transfer /\ y # x
    BY <1>21
  <2>3. u \in ToSet(chunks[y])
    BY <1>17, <2>2
  <2> QED BY <2>3 DEF Ctl, Written
<1>24. FilledUp'
  <2>1. SUFFICES ASSUME NEW k \in 1 .. Len(c) PROVE mem[c[k]].token = "idle" <=> k > 0
    BY <1>2, <1>7, <1>9, <1>17 DEF FilledUp, Top
  <2>2. c[k] \in ToSet(c) /\ k > 0
    BY <1>15, <2>1, MemberIs
  <2> QED BY <1>20, <2>2
<1>25. Follows(p)'
  <2>1. PICK r \in Seq(Transfer) : r = queue[p]
    BY <1>21
  <2>2. PICK dh : dh = chunks'
    OBVIOUS
  <2>3. PICK o : o = overlay[p]
    OBVIOUS
  <2> DEFINE l == p \in lost
  <2>4. Clean(chunks, r, d) /\ Good(chunks, r, d, mem, o, l)
    BY <1>2, <1>11, <1>13, <2>1, <2>3, ChainClean DEF Ctl, AllFollow, Follows
  <2>5. \A u : u \in ToSet(free) => ~In(chunks, r, u)
    BY <1>2, <1>11, <2>1, ChainClean DEF Mine
  <2>6. ~In(chunks, r, d)
    BY <2>4 DEF Clean
  <2>7. \A i \in 1 .. Len(r) : dh[r[i]] = chunks[r[i]]
    BY <1>17, <1>21, <2>1, <2>2, InIs
  <2>8. dh[x] \in Seq(QTD) /\ dh[x] # <<>> /\ Distinct(dh[x]) /\ dh[x][1] = d /\ t \notin ToSet(dh[x])
    BY <1>15, <1>17, <2>2
  <2>9. \A u \in ToSet(dh[x]) : mem[u].token = "idle" /\ ~In(chunks, r, u)
    BY <1>15, <1>17, <1>20, <2>2, <2>5, <2>6
  <2>10. ~In(chunks, r, t)
    BY <1>15, <2>5
  <2>11. Follows(p)' <=> Good(dh, Append(r, x), t, mem, o, l)
    BY <1>2, <1>12, <2>1, <2>2, <2>3 DEF Follows
  <2> HIDE DEF l
  <2>12. Good(dh, Append(r, x), t, mem, o, l)
    BY <2>4, <2>7, <2>8, <2>9, <2>10, GoodAppend
  <2> QED BY <2>11, <2>12
<1>26. ASSUME NEW q \in Pipe, IsOpen(q)', q # p PROVE Follows(q)'
  <2>1. IsOpen(q)
    BY <1>2, <1>26 DEF IsOpen
  <2>2. Follows(q)
    BY <2>1 DEF Ctl, AllFollow
  <2>3. \A y \in ToSet(Chain(stack, queue, q)) : chunks'[y] = chunks[y]
    BY <1>11, <1>17, <1>21
  <2> QED BY <1>2, <1>11, <1>12, <1>26, <2>1, <2>2, <2>3, FollowsStays
<1> QED BY <1>22, <1>23, <1>24, <1>25, <1>26 DEF Ctl, AllFollow

(* Fill: one qTD more of the chain is written.                             *)
LEMMA FillCtl == ASSUME Core, Others, Ctl, Fill PROVE Ctl'
<1>1. /\ stack # <<>> /\ Top.at = "fill"
      /\ UNCHANGED <<open, dummy, queue, chunks, free, overlay, lost>>
  BY DEF Fill, Runs, driverVars, historyVars
<1>2. Top \in FrameType /\ FrameOK(Top) /\ Submits(Top) /\ Top \in Frames
  BY <1>1, TopIs, SubmitIs DEF Core
<1>3. PICK p \in Pipe : p = Top.pipe /\ IsOpen(p)
  BY <1>2 DEF Submits, FrameOK
<1>4. PICK x \in Transfer : x = Top.x /\ Busy(x)
  BY <1>1, <1>2 DEF Submits, Busy, HeldX, HeldBy
<1>5. PICK e \in QTD : e = Top.new
  BY <1>2 DEF Submits
<1>6. PICK cs \in Seq(QTD) : cs = chunks[x] /\ Distinct(cs)
  BY <1>4 DEF Core, QTDs
<1>7. PICK n \in Nat : n = Len(cs)
  BY <1>6, LengthIs
<1>8. PICK i \in Nat : i = Top.filled
  BY <1>2, Constants DEF FrameType
<1>9. PICK k \in Nat : k = i + 1
  BY <1>8
<1>10. PICK u : u = IF k < Len(cs) THEN cs[k + 1] ELSE e
  OBVIOUS
<1>11. PICK b : b = [next |-> u, token |-> "active", ioc |-> k = Len(cs)]
  OBVIOUS
<1>12. PICK g : g = [Top EXCEPT !.filled = k]
  OBVIOUS
<1>13. k <= Len(cs) /\ mem' = [mem EXCEPT ![cs[k]] = b] /\ Goto(g)
  BY <1>4, <1>5, <1>6, <1>8, <1>9, <1>10, <1>11, <1>12 DEF Fill
<1>14. k \in 1 .. Len(cs)
  BY <1>7, <1>9, <1>13
<1>15. PICK t \in QTD : t = cs[k] /\ t \in ToSet(cs)
  BY <1>6, <1>14, MemberIs
<1>16. mem \in [QTD -> QTDType]
  BY OthersAre DEF MemOK
<1>17. mem' = [mem EXCEPT ![t] = b] /\ mem'[t] = b /\ \A v \in QTD : v # t => mem'[v] = mem[v]
  BY <1>13, <1>15, <1>16
<1>18. g.at = "fill" /\ g.pipe = p /\ g.x = x /\ g.new = e /\ g.filled = k
  BY <1>1, <1>2, <1>3, <1>4, <1>5, <1>12 DEF FrameType
<1>19. stack' # <<>> /\ Head(stack') = g
  BY <1>1, <1>13, StackIs DEF Core, Goto
<1>20. \A q \in Pipe : Chain(stack', queue', q) = Chain(stack, queue, q) /\ MyEnd(q)' = MyEnd(q)
  BY <1>1, <1>3, <1>4, <1>5, <1>18, <1>19 DEF Chain, End, Fills, Pulls, MyEnd, Top
<1>21. /\ Chain(stack, queue, p) = Append(queue[p], x) /\ MyEnd(p) = e
       /\ \A q \in Pipe : q # p => MyEnd(q) = dummy[q]
  BY <1>1, <1>3, <1>4, <1>5 DEF Chain, End, Fills, MyEnd, Top
<1>22. queue[p] \in Seq(Transfer)
  BY DEF Core, Queues
<1>23. PICK c : c = Append(queue[p], x)
  OBVIOUS
<1>24. /\ \A v : In(chunks, c, v) <=> In(chunks, queue[p], v) \/ v \in ToSet(chunks[x])
       /\ \A v, w : After(chunks, c, e, v, w) <=>
            After(chunks, queue[p], chunks[x][1], v, w) \/ LinkIn(chunks[x], e, v, w)
  <2>1. PICK q \in Seq(Transfer) : q = queue[p]
    BY <1>22
  <2>2. PICK a : a = chunks[x][1]
    OBVIOUS
  <2>3. /\ \A v : In(chunks, Append(q, x), v) <=> In(chunks, q, v) \/ v \in ToSet(chunks[x])
        /\ \A v, w : After(chunks, Append(q, x), e, v, w) <=>
             After(chunks, q, a, v, w) \/ LinkIn(chunks[x], e, v, w)
    BY <2>2, AppendChain
  <2> QED BY <1>23, <2>1, <2>2, <2>3
<1>25. Mine(p, t)
  BY <1>6, <1>15, <1>21, <1>23, <1>24 DEF Mine
<1>26. t \notin ToSet(free) /\ t # e
  BY <1>3, <1>4, <1>6, <1>15, <1>21, <1>25, ChainClean, EndIs
<1>27. \A q \in Pipe : t # MyEnd(q)
  <2>1. SUFFICES ASSUME NEW q \in Pipe, q # p, t = dummy[q] PROVE FALSE
    BY <1>21, <1>26
  <2>2. PICK w \in QTD : Writing(q, x, w)
    BY <1>4, <1>6, <1>15, <2>1 DEF Core, QTDs
  <2>3. PICK f \in Frames : f.at = "fill" /\ f.pipe = q
    BY <2>2 DEF Writing
  <2>4. f = Top
    BY <2>3, FillOnTop DEF Core
  <2> QED BY <1>3, <2>1, <2>3, <2>4
<1>28. Blank'
  <2>1. \A v \in ToSet(free) : v \in QTD /\ v # t
    BY <1>26, MemberIs DEF Core, QTDs
  <2>2. \A v \in ToSet(free') : mem'[v].token = "idle"
    BY <1>1, <1>17, <2>1 DEF Ctl, Blank
  <2>3. \A q \in Pipe : MyEnd(q)' # None => mem'[MyEnd(q)'].token = "idle"
    <3>1. SUFFICES ASSUME NEW q \in Pipe, MyEnd(q) # None PROVE mem'[MyEnd(q)].token = "idle"
      BY <1>20
    <3>2. MyEnd(q) \in QTD
      BY <1>21, <3>1 DEF Core, Queues
    <3> QED BY <1>17, <1>27, <3>1, <3>2 DEF Ctl, Blank
  <2> QED BY <2>2, <2>3 DEF Blank
<1>29. Written'
  <2>1. SUFFICES ASSUME NEW q \in Pipe, NEW y \in ToSet(queue[q]), NEW v \in ToSet(chunks[y])
                 PROVE  mem'[v].token # "idle"
    BY <1>1 DEF Written
  <2>2. y \in Transfer
    BY MemberIs DEF Core, Queues
  <2>3. v \in QTD
    BY <2>2, MemberIs DEF Core, QTDs
  <2>4. mem[v].token # "idle"
    BY DEF Ctl, Written
  <2> QED BY <1>11, <1>17, <2>3, <2>4
<1>30. \A j \in 1 .. Len(cs) : mem[cs[j]].token = "idle" <=> j > i
  BY <1>1, <1>4, <1>6, <1>8 DEF Ctl, FilledUp
<1>31. FilledUp'
  <2>1. SUFFICES ASSUME NEW j \in 1 .. Len(cs) PROVE mem'[cs[j]].token = "idle" <=> j > k
    BY <1>1, <1>6, <1>18, <1>19 DEF FilledUp, Top
  <2>2. CASE j = k
    <3>1. ~(j > k)
      BY <2>2
    <3> QED BY <1>11, <1>15, <1>17, <2>2, <3>1
  <2>3. CASE j # k
    <3>1. cs[j] # t /\ cs[j] \in QTD
      BY <1>6, <1>14, <1>15, <2>3 DEF Distinct
    <3>2. j > i <=> j > k
      BY <1>9, <2>3
    <3> QED BY <1>17, <1>30, <3>1, <3>2
  <2> QED BY <2>2, <2>3
<1>32. Follows(p)'
  <2>1. PICK o : o = overlay[p]
    OBVIOUS
  <2> DEFINE l == p \in lost
  <2>2. Clean(chunks, c, e) /\ Good(chunks, c, e, mem, o, l)
    BY <1>3, <1>21, <1>23, <2>1, ChainClean DEF Ctl, AllFollow, Follows
  <2>3. LinkIn(chunks[x], e, t, u)
    BY <1>6, <1>10, <1>14, <1>15 DEF LinkIn
  <2>4. After(chunks, c, e, t, u)
    BY <1>24, <2>3
  <2>5. mem[t].token = "idle"
    <3>1. k > i
      BY <1>9
    <3> QED BY <1>14, <1>15, <1>30, <3>1
  <2>6. u \in QTD /\ mem[u].token = "idle"
    <3>1. CASE k < Len(cs)
      <4>1. k + 1 \in 1 .. Len(cs) /\ k + 1 > i
        BY <1>7, <1>9, <3>1
      <4>2. u = cs[k + 1]
        BY <1>10, <3>1
      <4> QED BY <1>6, <1>30, <4>1, <4>2
    <3>2. CASE ~(k < Len(cs))
      <4>1. u = e
        BY <1>10, <3>2
      <4> QED BY <1>21, <4>1, Constants DEF Ctl, Blank
    <3> QED BY <3>1, <3>2
  <2>7. b.next = u /\ b.token = "active"
    BY <1>11
  <2>8. Follows(p)' <=> Good(chunks, c, e, [mem EXCEPT ![t] = b], o, l)
    BY <1>1, <1>17, <1>20, <1>21, <1>23, <2>1 DEF Follows
  <2> HIDE DEF l
  <2>9. Good(chunks, c, e, [mem EXCEPT ![t] = b], o, l)
    BY <1>16, <2>2, <2>4, <2>5, <2>6, <2>7, GoodFill
  <2> QED BY <2>8, <2>9
<1>33. ASSUME NEW q \in Pipe, IsOpen(q)', q # p PROVE Follows(q)'
  <2>1. IsOpen(q)
    BY <1>1, <1>33 DEF IsOpen
  <2>2. Follows(q)
    BY <2>1 DEF Ctl, AllFollow
  <2>3. \A v \in QTD : Mine(q, v) \/ v = MyEnd(q) => mem'[v] = mem[v]
    BY <1>3, <1>17, <1>25, <1>33, <2>1, ChainsApart
  <2> QED BY <1>1, <1>20, <1>33, <2>1, <2>2, <2>3, FollowsStays
<1> QED BY <1>28, <1>29, <1>31, <1>32, <1>33 DEF Ctl, AllFollow

(* What a pipe keeps when qTDs S and transactions X are released.          *)
KeepsPipe(S, X, p) ==
  /\ queue'[p] = queue[p] /\ dummy'[p] = dummy[p] /\ overlay'[p] = overlay[p]
  /\ IsOpen(p)' => IsOpen(p)
  /\ p \in lost => p \in lost'
  /\ dummy[p] \notin S
  /\ \A x \in ToSet(queue[p]) : x \notin X /\ ToSet(chunks[x]) \cap S = {}
ClosesPipe(p) == queue'[p] = <<>> /\ dummy'[p] = None /\ ~IsOpen(p)'

(* qTDs S and transactions X are released.                                 *)
LEMMA ReleaseCtl ==
  ASSUME Core, Others, Ctl, Plain(stack), Plain(stack'), NEW S \in SUBSET QTD, NEW X,
         \A t \in QTD : mem'[t] = IF t \in S THEN Idle ELSE mem[t],
         ToSet(free') \subseteq ToSet(free) \cup S,
         \A x \in Transfer \ X : chunks'[x] = chunks[x],
         \A p \in Pipe : KeepsPipe(S, X, p) \/ ClosesPipe(p)
  PROVE  Ctl'
<1>1. \A p \in Pipe : /\ Chain(stack', queue', p) = queue'[p] /\ MyEnd(p)' = dummy'[p]
                      /\ Chain(stack, queue, p) = queue[p] /\ MyEnd(p) = dummy[p]
  BY DEF Plain, Chain, End, Fills, MyEnd
<1>2. /\ free \in Seq(QTD) /\ chunks \in [Transfer -> Seq(QTD)] /\ dummy \in [Pipe -> QTD \cup {None}]
      /\ queue \in [Pipe -> Seq(Transfer)]
  BY DEF Core, QTDs, Queues
<1>3. ToSet(free) \in SUBSET QTD
  BY <1>2, MemberIs
<1>4. Idle.token = "idle"
  BY DEF Idle
<1>5. Blank'
  <2>1. \A t \in ToSet(free') : mem'[t].token = "idle"
    BY <1>3, <1>4 DEF Ctl, Blank
  <2>2. \A p \in Pipe : MyEnd(p)' # None => mem'[MyEnd(p)'].token = "idle"
    <3>1. SUFFICES ASSUME NEW p \in Pipe, dummy'[p] # None PROVE mem'[dummy'[p]].token = "idle"
      BY <1>1
    <3>2. dummy'[p] = dummy[p] /\ dummy[p] \in QTD
      BY <1>2, <3>1 DEF KeepsPipe, ClosesPipe
    <3> QED BY <1>1, <1>4, <3>1, <3>2 DEF Ctl, Blank
  <2> QED BY <2>1, <2>2 DEF Blank
<1>6. ASSUME NEW p \in Pipe, KeepsPipe(S, X, p), NEW x \in ToSet(queue[p])
      PROVE  /\ x \in Transfer /\ chunks'[x] = chunks[x]
             /\ \A t \in ToSet(chunks[x]) : t \in QTD /\ mem'[t] = mem[t]
  <2>1. x \in Transfer /\ x \notin X
    BY <1>2, <1>6, MemberIs DEF KeepsPipe
  <2>2. ToSet(chunks[x]) \in SUBSET QTD
    BY <1>2, <2>1, MemberIs
  <2>3. ToSet(chunks[x]) \cap S = {}
    BY <1>6 DEF KeepsPipe
  <2> QED BY <2>1, <2>2, <2>3
<1>7. Written'
  <2>1. SUFFICES ASSUME NEW p \in Pipe, NEW x \in ToSet(queue'[p]), NEW t \in ToSet(chunks'[x])
                 PROVE  mem'[t].token # "idle"
    BY DEF Written
  <2>2. KeepsPipe(S, X, p)
    BY <2>1 DEF ClosesPipe, ToSet
  <2>3. x \in ToSet(queue[p])
    BY <2>1, <2>2 DEF KeepsPipe
  <2> QED BY <1>6, <2>1, <2>2, <2>3 DEF Ctl, Written
<1>8. FilledUp'
  BY DEF FilledUp, Plain, Top
<1>9. ASSUME NEW p \in Pipe, IsOpen(p)' PROVE Follows(p)'
  <2>1. KeepsPipe(S, X, p)
    BY <1>9 DEF ClosesPipe
  <2>2. IsOpen(p)
    BY <1>9, <2>1 DEF KeepsPipe
  <2>3. Follows(p)
    BY <2>2 DEF Ctl, AllFollow
  <2>4. \A x \in ToSet(Chain(stack, queue, p)) : chunks'[x] = chunks[x]
    BY <1>1, <1>6, <2>1
  <2>5. ASSUME NEW t \in QTD, Mine(p, t) \/ t = MyEnd(p) PROVE mem'[t] = mem[t]
    <3>1. CASE t = MyEnd(p)
      BY <1>1, <2>1, <3>1 DEF KeepsPipe
    <3>2. CASE Mine(p, t)
      <4>1. PICK q \in Seq(Transfer) : q = queue[p]
        BY <1>2
      <4>2. In(chunks, q, t)
        BY <1>1, <3>2, <4>1 DEF Mine
      <4>3. PICK x \in ToSet(q) : t \in ToSet(chunks[x])
        BY <4>2, InIs
      <4> QED BY <1>6, <2>1, <4>1, <4>3
    <3> QED BY <2>5, <3>1, <3>2
  <2>6. Chain(stack', queue', p) = Chain(stack, queue, p) /\ MyEnd(p)' = MyEnd(p)
    BY <1>1, <2>1 DEF KeepsPipe
  <2>7. overlay'[p] = overlay[p] /\ (p \in lost => p \in lost')
    BY <2>1 DEF KeepsPipe
  <2> QED BY <2>2, <2>3, <2>4, <2>5, <2>6, <2>7, FollowsStays
<1> QED BY <1>5, <1>7, <1>8, <1>9 DEF Ctl, AllFollow

(* CallbackReturns: nobody works on the qTDs that are released.            *)
LEMMA CallbackReturnsCtl == ASSUME Core, Others, Ctl, CallbackReturns PROVE Ctl'
<1>1. /\ stack # <<>> /\ Top.at = "callback" /\ UNCHANGED <<open, dummy, queue, overlay, lost>>
  BY DEF CallbackReturns, Runs, historyVars
<1>2. Top.x \in Transfer /\ Top \in FrameType /\ FrameOK(Top) /\ Top \in Frames /\ Tail(stack) = <<>>
  BY <1>1, CallbackIs, TopIs DEF Core
<1>3. PICK x \in Transfer : x = Top.x
  BY <1>2
<1>4. PICK g : g = [Top EXCEPT !.at = IF Top.op = "scan" THEN "scan" ELSE "abort",
                               !.x = None, !.how = "none", !.left = open]
  OBVIOUS
<1>5. /\ free' = Reverse(chunks[x]) \o free
      /\ mem' = [t \in QTD |-> IF t \in ToSet(chunks[x]) THEN Idle ELSE mem[t]]
      /\ chunks' = [chunks EXCEPT ![x] = <<>>]
      /\ stack' = <<g>> \o Tail(stack)
  BY <1>3, <1>4 DEF CallbackReturns, Release, Goto
<1>6. g.at \in {"scan", "abort"}
  BY <1>2, <1>4 DEF FrameType
<1>7. stack' # <<>> /\ Head(stack') = g
  BY <1>1, <1>5, StackIs DEF Core
<1>8. Plain(stack) /\ Plain(stack')
  BY <1>1, <1>6, <1>7, PlainIs DEF Top
<1>9. Busy(x) /\ ~Queued(x)
  BY <1>1, <1>2, <1>3 DEF FrameOK, HeldBy, Busy, HeldX
<1>10. free \in Seq(QTD) /\ chunks \in [Transfer -> Seq(QTD)] /\ chunks[x] \in Seq(QTD)
  BY DEF Core, QTDs
<1>11. PICK S : S = ToSet(chunks[x])
  OBVIOUS
<1>12. S \in SUBSET QTD
  BY <1>10, <1>11, MemberIs
<1>13. ToSet(free') \subseteq ToSet(free) \cup S
  <2>1. PICK r \in Seq(QTD) : r = Reverse(chunks[x]) /\ ToSet(r) = S
    BY <1>10, <1>11, ReverseSet
  <2>2. free' = r \o free
    BY <1>5, <2>1
  <2> QED BY <1>10, <2>1, <2>2, JoinSet
<1>14. \A y \in Transfer \ {x} : chunks'[y] = chunks[y]
  BY <1>5, <1>10
<1>15. ASSUME NEW p \in Pipe PROVE KeepsPipe(S, {x}, p)
  <2>1. dummy[p] \notin S
    <3>1. CASE dummy[p] = None
      BY <1>12, <3>1, Constants
    <3>2. CASE dummy[p] # None
      <4>1. SUFFICES ASSUME dummy[p] \in S PROVE FALSE
        OBVIOUS
      <4>2. PICK t \in QTD : Writing(p, x, t)
        BY <1>9, <1>11, <4>1 DEF Core, QTDs
      <4>3. PICK f \in Frames : f.at = "fill"
        BY <4>2 DEF Writing
      <4>4. f = Top
        BY <4>3, FillOnTop DEF Core
      <4> QED BY <1>1, <4>3, <4>4
    <3> QED BY <3>1, <3>2
  <2>2. ASSUME NEW y \in ToSet(queue[p]) PROVE y \notin {x} /\ ToSet(chunks[y]) \cap S = {}
    <3>1. y \in Transfer /\ Queued(y)
      BY <2>2, MemberIs DEF Core, Queues, Queued
    <3>2. y # x
      BY <1>9, <3>1
    <3> QED BY <1>9, <1>11, <3>1, <3>2 DEF Core, QTDs, Busy
  <2> QED BY <1>1, <2>1, <2>2 DEF KeepsPipe, IsOpen
<1>16. \A t \in QTD : mem'[t] = IF t \in S THEN Idle ELSE mem[t]
  BY <1>5, <1>11
<1> QED BY <1>8, <1>12, <1>13, <1>14, <1>15, <1>16, ReleaseCtl

(* Unlink: nor on those of a deleted pipe.                                 *)
LEMMA UnlinkCtl == ASSUME Core, Others, Ctl, Unlink PROVE Ctl'
<1>1. stack # <<>> /\ Top.at \in {"stopping", "stopped"} /\ Top.op = "unlink"
  BY DEF Unlink, Stopped, Runs
<1>2. Top.pipe \in Pipe /\ Tail(stack) = <<>> /\ Top \in FrameType /\ FrameOK(Top)
  BY <1>1, WaitIs, TopIs DEF Core, Waiting
<1>3. PICK p \in Pipe : p = Top.pipe
  BY <1>2
<1>4. PICK g : g = [Top EXCEPT !.at = "starting"]
  OBVIOUS
<1>5. PICK l : l = Append(QTDsOf(queue[p]), dummy[p])
  OBVIOUS
<1>6. PICK X : X = ToSet(queue[p])
  OBVIOUS
<1>7. PICK S : S = ToSet(l)
  OBVIOUS
<1>8. /\ stack' = <<g>> \o Tail(stack) /\ open' = RemoveFirst(open, p)
      /\ free' = Reverse(l) \o free
      /\ mem' = [t \in QTD |-> IF t \in S THEN Idle ELSE mem[t]]
      /\ queue' = [queue EXCEPT ![p] = <<>>]
      /\ chunks' = [x \in Transfer |-> IF x \in X THEN <<>> ELSE chunks[x]]
      /\ dummy' = [dummy EXCEPT ![p] = None]
      /\ overlay' = [overlay EXCEPT ![p] = NoQH]
      /\ lost' = lost \ {p}
  BY <1>3, <1>4, <1>5, <1>6, <1>7 DEF Unlink, Start, Release, Goto
<1>9. g.at = "starting"
  BY <1>2, <1>4 DEF FrameType
<1>10. stack' # <<>> /\ Head(stack') = g
  BY <1>1, <1>8, StackIs DEF Core
<1>11. Plain(stack) /\ Plain(stack')
  BY <1>1, <1>2, <1>9, <1>10, PlainIs DEF Top
<1>12. NoWriting
  <2>1. Frames = {Top}
    BY <1>1, <1>2, RestIs DEF Core
  <2> QED BY <1>1, <2>1 DEF NoWriting, Writing
<1>13. /\ IsOpen(p) /\ dummy[p] # None /\ dummy \in [Pipe -> QTD \cup {None}]
       /\ open \in Seq(Pipe) /\ Distinct(open) /\ queue \in [Pipe -> Seq(Transfer)]
       /\ free \in Seq(QTD) /\ chunks \in [Transfer -> Seq(QTD)]
  BY <1>1, <1>2, <1>3 DEF FrameOK, Core, Queues, QTDs
<1>14. /\ l \in Seq(QTD)
       /\ \A u : u \in S <=> u = dummy[p] \/ \E x \in X : u \in ToSet(chunks[x])
  BY <1>5, <1>6, <1>7, <1>12, <1>13, QTDsOfQueue
<1>15. S \in SUBSET QTD
  BY <1>7, <1>14, MemberIs
<1>16. ToSet(free') \subseteq ToSet(free) \cup S
  <2>1. PICK r \in Seq(QTD) : r = Reverse(l) /\ ToSet(r) = S
    BY <1>7, <1>14, ReverseSet
  <2>2. free' = r \o free
    BY <1>8, <2>1
  <2> QED BY <1>13, <2>1, <2>2, JoinSet
<1>17. \A y \in Transfer \ X : chunks'[y] = chunks[y]
  BY <1>8
<1>18. ToSet(open') = ToSet(open) \ {p}
  BY <1>8, <1>13, RemoveSet
<1>19. ClosesPipe(p)
  BY <1>8, <1>13, <1>18 DEF ClosesPipe, IsOpen
<1>20. ASSUME NEW q \in Pipe, q # p PROVE KeepsPipe(S, X, q)
  <2>1. \A x \in X : x \in Transfer /\ Busy(x) /\ Queued(x)
    BY <1>6, <1>13, MemberIs DEF Busy, Queued
  <2>2. dummy[q] \notin S
    <3>1. dummy[q] # dummy[p]
      BY <1>13, <1>20 DEF Core, QTDs
    <3>2. ASSUME NEW x \in X, dummy[q] \in ToSet(chunks[x]) PROVE FALSE
      BY <1>12, <2>1, <3>2 DEF Core, QTDs, NoWriting
    <3> QED BY <1>14, <3>1, <3>2
  <2>3. ASSUME NEW y \in ToSet(queue[q]) PROVE y \notin X /\ ToSet(chunks[y]) \cap S = {}
    <3>1. y \in Transfer /\ Busy(y)
      BY <1>13, <2>3, MemberIs DEF Busy, Queued
    <3>2. y \notin X
      BY <1>6, <1>20, <2>3 DEF Core, Queues
    <3>3. dummy[p] \notin ToSet(chunks[y])
      BY <1>12, <3>1 DEF Core, QTDs, NoWriting
    <3>4. \A x \in X : ToSet(chunks[y]) \cap ToSet(chunks[x]) = {}
      BY <2>1, <3>1, <3>2 DEF Core, QTDs
    <3> QED BY <1>14, <3>2, <3>3, <3>4
  <2>4. /\ queue'[q] = queue[q] /\ dummy'[q] = dummy[q] /\ overlay'[q] = overlay[q]
        /\ q \in lost => q \in lost'
    BY <1>8, <1>13, <1>20, OthersAre DEF OverlayOK
  <2>5. IsOpen(q)' => IsOpen(q)
    BY <1>18 DEF IsOpen
  <2> QED BY <2>2, <2>3, <2>4, <2>5 DEF KeepsPipe
<1>21. \A t \in QTD : mem'[t] = IF t \in S THEN Idle ELSE mem[t]
  BY <1>8
<1> QED BY <1>11, <1>15, <1>16, <1>17, <1>19, <1>20, <1>21, ReleaseCtl

(* Until a wait has timed out none counts as failed, and until a lost pipe *)
(* has strayed the controller follows its chains.                          *)
ControllerInv == timeouts = 0 => ~failed /\ (~strayed => Ctl)

(* Only a wait that times out fails, and a pipe that strayed has.          *)
LEMMA HistoryStep ==
  ASSUME strayed \in BOOLEAN, [Next]_vars, ~WaitTimesOut
  PROVE  timeouts' = timeouts /\ (failed' = failed \/ failed' = FALSE) /\ (strayed' = FALSE => strayed = FALSE)
<1>1. ASSUME Client PROVE UNCHANGED <<timeouts, failed, strayed>>
  BY <1>1 DEF Client, Create, ClearStall, DeleteEmpty, Abort, Submit, SubmitFails, waitVars, historyVars
<1>2. ASSUME ScanCompletes PROVE UNCHANGED <<timeouts, failed>> /\ (strayed' = FALSE => strayed = FALSE)
  <2>1. UNCHANGED <<timeouts, failed>>
    BY <1>2 DEF ScanCompletes
  <2>2. strayed => strayed'
    BY <1>2 DEF ScanCompletes
  <2>3. strayed' = FALSE => strayed = FALSE
    BY <2>2
  <2> QED BY <2>1, <2>3
<1>3. ASSUME GateStep, ~ScanCompletes
      PROVE  UNCHANGED <<timeouts, strayed>> /\ (failed' = failed \/ failed' = FALSE)
  BY <1>3 DEF GateStep, Started, Rebuild, Link, Unlink, AbortNext, AbortEnds, DeleteAborted,
              Fill, Append1, AppendFirst, Submitted, RollBack, ScanSkips, ScanEnds, Complete,
              CallbackReturns, waitVars, historyVars
<1>4. ASSUME HcStops \/ HcStarts \/ UNCHANGED vars \/ HandleInterrupt \/ \E p \in Pipe : HcStep(p)
      PROVE  UNCHANGED <<timeouts, failed, strayed>>
  BY <1>4 DEF HcStops, HcStarts, HandleInterrupt, HcStep, HcFetch, HcRetire, vars, waitVars, historyVars
<1> QED BY <1>1, <1>2, <1>3, <1>4 DEF Next

(* SubmitFails and what the controller does to the schedule as a whole.    *)
LEMMA StaysCtl ==
  ASSUME Core, Ctl,
         \/ HcStops \/ HcStarts \/ UNCHANGED vars
         \/ \E x \in Transfer, p \in Pipe, n \in 1 .. MaxChunks : SubmitFails(x, p, n)
  PROVE  Ctl'
<1>1. UNCHANGED <<mem, overlay, chunks, lost, open, queue, dummy, stack>>
  BY DEF HcStops, HcStarts, SubmitFails, vars, driverVars, hwVars, historyVars
<1>2. free' = free \/ free' = Reverse(free)
  BY DEF HcStops, HcStarts, SubmitFails, vars, driverVars
<1>3. ToSet(free') = ToSet(free)
  <2>1. ToSet(Reverse(free)) = ToSet(free)
    BY ReverseSet DEF Core, QTDs
  <2> QED BY <1>2, <2>1
<1> QED BY <1>1, <1>3, StayCtl

(* The controller goes on following its chains.                            *)
LEMMA CtlStep == ASSUME Core, Others, Ctl, ~failed, ~WaitTimesOut, ~strayed', [Next]_vars PROVE Ctl'
<1>1. CASE Client
  <2>1. ASSUME NEW p \in Pipe, Create(p) PROVE Ctl'
    BY <2>1, CreateCtl
  <2>2. ASSUME NEW p \in Pipe, Abort(p, "abort") \/ Abort(p, "delete") PROVE Ctl'
    BY <2>2, AbortCtl
  <2>3. ASSUME NEW p \in Pipe, DeleteEmpty(p) \/ ClearStall(p) PROVE Ctl'
    BY <2>3, QuietSteps
  <2>4. ASSUME NEW x \in Transfer, NEW p \in Pipe, NEW n \in 1 .. MaxChunks, Submit(x, p, n) PROVE Ctl'
    BY <2>4, SubmitCtl
  <2>5. ASSUME NEW x \in Transfer, NEW p \in Pipe, NEW n \in 1 .. MaxChunks, SubmitFails(x, p, n) PROVE Ctl'
    BY <2>5, StaysCtl
  <2> QED BY <1>1, <2>1, <2>2, <2>3, <2>4, <2>5 DEF Client
<1>2. CASE GateStep
  <2>1. ~RollBack
    BY DEF RollBack
  <2>2. CASE Started \/ AbortNext \/ AbortEnds \/ DeleteAborted \/ Submitted \/ ScanSkips \/ ScanEnds \/ Complete
    BY <2>2, QuietSteps
  <2>3. CASE Rebuild \/ Link \/ Unlink \/ Fill \/ Append1 \/ AppendFirst \/ ScanCompletes \/ CallbackReturns
    BY <2>3, RebuildCtl, LinkCtl, UnlinkCtl, FillCtl, Append1Ctl, AppendFirstCtl, ScanCompletesCtl,
       CallbackReturnsCtl
  <2> QED BY <1>2, <2>1, <2>2, <2>3 DEF GateStep
<1>3. CASE HandleInterrupt
  BY <1>3, QuietSteps
<1>4. CASE HcStops \/ HcStarts \/ UNCHANGED vars
  BY <1>4, StaysCtl
<1>5. ASSUME NEW p \in Pipe, HcStep(p) PROVE Ctl'
  <2>1. CASE HcFetch(p)
    BY <2>1, HcFetchCtl
  <2>2. ASSUME NEW token \in {"done", "short", "error"}, HcRetire(p, token) PROVE Ctl'
    BY <2>2, HcRetireCtl
  <2> QED BY <1>5, <2>1, <2>2 DEF HcStep
<1> QED BY <1>1, <1>2, <1>3, <1>4, <1>5 DEF Next

(* At first there is nothing to follow.                                    *)
LEMMA InitCtl == Init => ControllerInv
<1> SUFFICES ASSUME Init PROVE ControllerInv
  OBVIOUS
<1>1. stack = <<>> /\ failed = FALSE /\ ToSet(free) = QTD /\ ToSet(<<>>) = {}
  BY AsyncAssumption DEF Init, ToSet
<1>2. \A t \in QTD : mem[t].token = "idle"
  BY DEF Init, Idle
<1>3. \A p \in Pipe : MyEnd(p) = None /\ ~IsOpen(p) /\ queue[p] = <<>>
  BY <1>1 DEF Init, MyEnd, End, Fills, IsOpen
<1>4. Blank
  BY <1>1, <1>2, <1>3 DEF Blank
<1>5. FilledUp
  BY <1>1 DEF FilledUp
<1>6. Written
  BY <1>1, <1>3 DEF Written
<1>7. AllFollow
  BY <1>3 DEF AllFollow
<1> QED BY <1>1, <1>4, <1>5, <1>6, <1>7 DEF ControllerInv, Ctl

(* The history keeps it so.                                                *)
LEMMA ControllerStep == AsyncInv /\ ControllerInv /\ [Next]_vars => ControllerInv'
<1> SUFFICES ASSUME AsyncInv, ControllerInv, [Next]_vars, timeouts' = 0
             PROVE  ~failed' /\ (~strayed' => Ctl')
  BY DEF ControllerInv
<1>1. Core /\ Others
  BY DEF AsyncInv, Core
<1>2. timeouts \in Nat
  BY <1>1, OthersAre, Constants DEF WaitOK
<1>3. ~WaitTimesOut
  <2>1. WaitTimesOut => timeouts' = timeouts + 1
    BY DEF WaitTimesOut
  <2> QED BY <1>2, <2>1
<1>4. timeouts = 0 /\ ~failed' /\ (~strayed' => ~strayed) /\ ~failed
  <2>0. strayed \in BOOLEAN /\ strayed' \in BOOLEAN
    BY <1>1, StrayedStep DEF Others
  <2>1. timeouts = 0
    BY <1>3, <2>0, HistoryStep
  <2>2. ~failed
    BY <2>1 DEF ControllerInv
  <2>3. failed' = failed \/ failed' = FALSE
    BY <1>3, <2>0, HistoryStep
  <2>5. strayed' = FALSE => strayed = FALSE
    BY <1>3, <2>0, HistoryStep
  <2> QED BY <2>0, <2>1, <2>2, <2>3, <2>5
<1>5. ASSUME ~strayed' PROVE Ctl'
  <2>1. Ctl
    BY <1>4, <1>5 DEF ControllerInv
  <2> QED BY <1>1, <1>3, <1>4, <1>5, <2>1, CtlStep
<1> QED BY <1>4, <1>5

(* A controller that follows the chain is at one of its qTDs, and goes on  *)
(* to one or to its end.                                                   *)
LEMMA GoodAt ==
  ASSUME NEW ch, NEW c, NEW e, NEW m, NEW o \in QHType, NEW l, Clean(ch, c, e), Good(ch, c, e, m, o, l)
  PROVE  /\ o.token = "active" => In(ch, c, o.cur)
         /\ o.token # "halted" => In(ch, c, o.next) \/ o.next = e
<1>1. CASE o.token = "active"
  <2>1. In(ch, c, o.cur) /\ m[o.cur].token = "active" /\ o.next = m[o.cur].next
    BY <1>1 DEF Good, WorksOK
  <2>2. o.cur \in QTD
    BY <2>1, ChainFacts
  <2>3. PICK u \in QTD : After(ch, c, e, o.cur, u)
    BY <2>1, ChainFacts
  <2>4. o.next = u
    BY <2>1, <2>2, <2>3 DEF Good, LinksOK
  <2>5. In(ch, c, u) \/ u = e
    BY <2>3, ChainFacts
  <2> QED BY <2>1, <2>4, <2>5
<1>2. CASE o.token = "idle"
  BY <1>2 DEF Good, WaitsOK
<1> QED BY <1>1, <1>2 DEF QHType

(* It implies ControllerOwnsItsQTD.                                        *)
LEMMA OwnsFollows == AsyncInv /\ ControllerInv => ControllerOwnsItsQTD
<1> SUFFICES ASSUME AsyncInv, ControllerInv, NEW p \in ToSet(open), timeouts = 0, ~strayed,
                    stack = <<>> \/ Top.at \in {"fill", "scan", "complete", "callback", "abort"}
             PROVE  LET o       == overlay[p]
                        here    == {f \in ToSet(stack) : f.pipe = p}
                        writing == {f \in here : f.at = "fill"}
                        own     == UNION {ToSet(chunks[x]) : x \in ToSet(queue[p]) \cup {f.x : f \in writing}}
                    IN  /\ o.token = "active" => o.cur \in own
                        /\ o.token # "halted" => o.next \in own \cup {f.new : f \in writing} \cup {dummy[p]}
  BY DEF ControllerOwnsItsQTD
<1> DEFINE o       == overlay[p]
           here    == {f \in ToSet(stack) : f.pipe = p}
           writing == {f \in here : f.at = "fill"}
           xs      == ToSet(queue[p]) \cup {f.x : f \in writing}
           own     == UNION {ToSet(chunks[x]) : x \in xs}
           ends    == {f.new : f \in writing} \cup {dummy[p]}
<1>1. Core /\ Others /\ Ctl
  BY DEF AsyncInv, Core, ControllerInv
<1>2. p \in Pipe /\ IsOpen(p)
  BY <1>1, MemberIs DEF Core, Queues, IsOpen
<1>3. PICK c : c = Chain(stack, queue, p)
  OBVIOUS
<1>4. PICK e : e = MyEnd(p)
  OBVIOUS
<1>5. ToSet(c) \subseteq xs /\ e \in ends
  <2>1. CASE Fills(stack, p)
    <3>1. stack # <<>> /\ Top.at = "fill" /\ Top.pipe = p
      BY <2>1 DEF Fills, Top
    <3>2. Top \in writing /\ Top.x \in Transfer
      BY <1>1, <3>1, TopIs, RunningIs DEF Core, Frames
    <3>3. c = Append(queue[p], Top.x) /\ e = Top.new
      BY <1>3, <1>4, <2>1 DEF Chain, End, MyEnd, Top
    <3>4. queue[p] \in Seq(Transfer)
      BY <1>1, <1>2 DEF Core, Queues
    <3>5. ToSet(c) = ToSet(queue[p]) \cup {Top.x}
      <4>1. PICK q \in Seq(Transfer) : q = queue[p]
        BY <3>4
      <4>2. PICK x \in Transfer : x = Top.x
        BY <3>2
      <4>3. ToSet(Append(q, x)) = ToSet(q) \cup {x}
        BY AppendSet
      <4> QED BY <3>3, <4>1, <4>2, <4>3
    <3> QED BY <3>2, <3>3, <3>5
  <2>2. CASE ~Fills(stack, p)
    <3>1. ~Pulls(stack)
      BY DEF Pulls, Top
    <3>2. c = queue[p] /\ e = dummy[p]
      BY <1>3, <1>4, <2>2, <3>1 DEF Chain, End, MyEnd
    <3> QED BY <3>2
  <2> QED BY <2>1, <2>2
<1>6. Clean(chunks, c, e) /\ c \in Seq(Transfer)
  BY <1>1, <1>2, <1>3, <1>4, ChainClean, ChainIs
<1>7. o \in QHType
  BY <1>1, <1>2, OthersAre DEF OverlayOK
<1> DEFINE l == p \in lost
<1>8. Good(chunks, c, e, mem, o, l)
  BY <1>1, <1>2, <1>3, <1>4 DEF Ctl, AllFollow, Follows
<1> HIDE DEF o, l
<1>9. /\ o.token = "active" => In(chunks, c, o.cur)
      /\ o.token # "halted" => In(chunks, c, o.next) \/ o.next = e
  BY <1>6, <1>7, <1>8, GoodAt
<1>10. ASSUME NEW t, In(chunks, c, t) PROVE t \in own
  <2>1. PICK x \in ToSet(c) : t \in ToSet(chunks[x])
    BY <1>6, <1>10, InIs
  <2> QED BY <1>5, <2>1
<1> HIDE DEF own, ends, xs, writing
<1>11. /\ o.token = "active" => o.cur \in own
       /\ o.token # "halted" => o.next \in own \cup ends
  BY <1>5, <1>9, <1>10
<1> QED BY <1>11 DEF o, own, ends, xs, writing

(* For any pipes, transfers and pool, and whatever completions submit: as  *)
(* long as no wait timed out and no lost pipe strayed, the controller      *)
(* executes and goes on to qTDs of the pipe's own queue only, or of the    *)
(* transaction being written, or its dummy, so nothing the driver has      *)
(* released (submitAsyncTransfer, completeAsyncTransactions,               *)
(* abortEndpointTransactions, releaseEndpointState, rebuildAsyncQueue).    *)
THEOREM OnlyOwnQTDs == Spec => []ControllerOwnsItsQTD
<1>1. Init => ControllerInv
  BY InitCtl
<1>2. AsyncInv /\ ControllerInv /\ [Next]_vars => ControllerInv'
  BY ControllerStep
<1>3. AsyncInv /\ ControllerInv => ControllerOwnsItsQTD
  BY OwnsFollows
<1> QED BY <1>1, <1>2, <1>3, AsyncInvAlways, PTL DEF Spec
-----------------------------------------------------------------------------
(* What clients see.  A transfer that is issued has one place on one pipe. *)
IssuedOnce ==
  /\ \A p \in Pipe : \A i \in DOMAIN issued[p] : status[issued[p][i]] = "accepted"
  /\ \A p, q \in Pipe : \A i \in DOMAIN issued[p], j \in DOMAIN issued[q] :
       issued[p][i] = issued[q][j] => p = q /\ i = j

ViewBase == ClientView!TypeOK /\ IssuedOnce /\ ClientView!AnsweredOnce

IssuedOn(p, x) == \E i \in DOMAIN issued[p] : issued[p][i] = x
IssuedBefore(p, y, x) ==
  \E i, j \in DOMAIN issued[p] : i < j /\ issued[p][i] = y /\ issued[p][j] = x

(* A transfer without an answer gets one.                                  *)
Answers(x, r) ==
  /\ results[x] = <<>>
  /\ results' = [results EXCEPT ![x] = <<r>>]
  /\ UNCHANGED <<status, issued>>

EarlierAnswered(p, x) == \A y \in Transfer : IssuedBefore(p, y, x) => results[y] # <<>>

(* A submission is refused, or accepted.                                   *)
LEMMA RefuseView ==
  ASSUME ViewBase, NEW x \in Transfer, ClientView!Refuse(x)
  PROVE  ViewBase' /\ (ClientView!SuccessInOrder => ClientView!SuccessInOrder')
<1>1. /\ status[x] = "new"
      /\ status' = [status EXCEPT ![x] = "refused"]
      /\ results' = results /\ issued' = issued
  BY DEF ClientView!Refuse
<1>2. ClientView!TypeOK'
  BY <1>1 DEF ViewBase, ClientView!TypeOK
<1>3. IssuedOnce'
  BY <1>1 DEF ViewBase, ClientView!TypeOK, IssuedOnce
<1>4. ClientView!AnsweredOnce'
  BY <1>1 DEF ViewBase, ClientView!TypeOK, ClientView!AnsweredOnce
<1>5. ClientView!SuccessInOrder => ClientView!SuccessInOrder'
  BY <1>1 DEF ClientView!SuccessInOrder
<1> QED BY <1>2, <1>3, <1>4, <1>5 DEF ViewBase

LEMMA AcceptView ==
  ASSUME ViewBase, NEW x \in Transfer, NEW p \in Pipe, ClientView!Accept(x, p)
  PROVE  ViewBase' /\ (ClientView!SuccessInOrder => ClientView!SuccessInOrder')
<1>1. /\ status[x] = "new"
      /\ status' = [status EXCEPT ![x] = "accepted"]
      /\ issued' = [issued EXCEPT ![p] = Append(@, x)]
      /\ results' = results
  BY DEF ClientView!Accept
<1> USE DEF ViewBase, ClientView!TypeOK
<1>2. results[x] = <<>>
  BY <1>1 DEF ClientView!AnsweredOnce
<1>3. ClientView!TypeOK'
  BY <1>1
<1>4. \A q \in Pipe : \A i \in DOMAIN issued[q] :
        i \in DOMAIN issued'[q] /\ issued'[q][i] = issued[q][i]
  BY <1>1
<1>5. \A q \in Pipe : \A i \in DOMAIN issued'[q] :
        i \in DOMAIN issued[q] \/ (q = p /\ i = Len(issued[p]) + 1 /\ issued'[q][i] = x)
  BY <1>1
<1>6. \A q \in Pipe : \A i \in DOMAIN issued[q] : issued[q][i] # x
  BY <1>1 DEF IssuedOnce
<1>7. \A q \in Pipe : \A i \in DOMAIN issued[q] : issued[q][i] \in Transfer
  OBVIOUS
<1>8. IssuedOnce'
  <2>1. \A q \in Pipe : \A i \in DOMAIN issued'[q] :
          status'[issued'[q][i]] = "accepted"
    BY <1>1, <1>4, <1>5, <1>6, <1>7 DEF IssuedOnce
  <2>2. \A q, r \in Pipe : \A i \in DOMAIN issued'[q], j \in DOMAIN issued'[r] :
          issued'[q][i] = issued'[r][j] => q = r /\ i = j
    BY <1>4, <1>5, <1>6 DEF IssuedOnce
  <2> QED BY <2>1, <2>2 DEF IssuedOnce
<1>9. ClientView!AnsweredOnce'
  BY <1>1, <1>2 DEF ClientView!AnsweredOnce
<1>10. ASSUME ClientView!SuccessInOrder PROVE ClientView!SuccessInOrder'
  <2> SUFFICES ASSUME NEW q \in Pipe, NEW i \in DOMAIN issued'[q],
                      NEW j \in DOMAIN issued'[q], i < j,
                      results[issued'[q][j]] = <<"ok">>
               PROVE  results[issued'[q][i]] # <<>>
    BY <1>1 DEF ClientView!SuccessInOrder
  <2>1. j \in DOMAIN issued[q] /\ issued'[q][j] = issued[q][j]
    <3>1. results[x] # <<"ok">>
      BY <1>2
    <3>2. issued'[q][j] # x
      BY <3>1
    <3> QED BY <3>2, <1>4, <1>5
  <2>2. i \in DOMAIN issued[q] /\ issued'[q][i] = issued[q][i]
    BY <2>1, <1>4, <1>5
  <2> QED BY <2>1, <2>2, <1>10 DEF ClientView!SuccessInOrder
<1> QED BY <1>3, <1>8, <1>9, <1>10

(* A pipe is deleted.                                                      *)
LEMMA DeleteView ==
  ASSUME ViewBase, NEW p \in Pipe, ClientView!Delete(p)
  PROVE  ViewBase' /\ (ClientView!SuccessInOrder => ClientView!SuccessInOrder')
<1> USE DEF ViewBase, ClientView!TypeOK
<1>1. issued' = [issued EXCEPT ![p] = <<>>] /\ status' = status /\ results' = results
  BY DEF ClientView!Delete
<1>2. /\ issued' \in [Pipe -> Seq(Transfer)]
      /\ \A q \in Pipe : issued'[q] = IF q = p THEN <<>> ELSE issued[q]
  BY <1>1
<1>3. \A q \in Pipe : \A i \in DOMAIN issued'[q] :
        i \in DOMAIN issued[q] /\ issued'[q] = issued[q]
  BY <1>2
<1>4. IssuedOnce'
  BY <1>1, <1>3 DEF IssuedOnce
<1>5. ClientView!AnsweredOnce' /\ ClientView!TypeOK'
  BY <1>1, <1>2 DEF ClientView!AnsweredOnce
<1>6. ClientView!SuccessInOrder => ClientView!SuccessInOrder'
  BY <1>1, <1>3 DEF ClientView!SuccessInOrder
<1> QED BY <1>4, <1>5, <1>6

(* An answer comes once, and in its turn if it is a success.               *)
LEMMA AnswerView ==
  ASSUME ViewBase, NEW x \in Transfer, NEW p \in Pipe, IssuedOn(p, x),
         NEW r \in {"ok", "error", "aborted"}, Answers(x, r), r = "ok" => EarlierAnswered(p, x)
  PROVE  /\ ViewBase'
         /\ ClientView!SuccessInOrder => ClientView!SuccessInOrder'
         /\ \E i \in DOMAIN issued[p] : ClientView!Finish(p, i)
<1> USE DEF ViewBase, ClientView!TypeOK
<1>1. PICK i \in DOMAIN issued[p] : issued[p][i] = x
  BY DEF IssuedOn
<1>2. status[x] = "accepted"
  BY <1>1 DEF IssuedOnce
<1>3. results' = [results EXCEPT ![x] = <<r>>] /\ status' = status /\ issued' = issued
  BY DEF Answers
<1>4. ClientView!TypeOK'
  BY <1>3
<1>5. IssuedOnce'
  BY <1>3 DEF IssuedOnce
<1>6. ClientView!AnsweredOnce'
  BY <1>2, <1>3 DEF ClientView!AnsweredOnce
<1>7. ASSUME NEW j \in DOMAIN issued[p], j < i, r = "ok"
      PROVE  results[issued[p][j]] # <<>>
  <2>1. issued[p][j] \in Transfer /\ IssuedBefore(p, issued[p][j], x)
    BY <1>1, <1>7 DEF IssuedBefore
  <2> QED BY <2>1, <1>7 DEF EarlierAnswered
<1>8. ASSUME ClientView!SuccessInOrder PROVE ClientView!SuccessInOrder'
  <2> SUFFICES ASSUME NEW q \in Pipe, NEW k \in DOMAIN issued[q],
                      NEW j \in DOMAIN issued[q], k < j,
                      results'[issued[q][j]] = <<"ok">>
               PROVE  results'[issued[q][k]] # <<>>
    BY <1>3 DEF ClientView!SuccessInOrder
  <2>1. issued[q][j] \in Transfer /\ issued[q][k] \in Transfer
    OBVIOUS
  <2>2. CASE issued[q][j] = x
    <3>1. q = p /\ j = i
      BY <2>2, <1>1 DEF IssuedOnce
    <3>2. r = "ok"
      BY <1>3, <2>2
    <3>3. results[issued[q][k]] # <<>>
      BY <3>1, <3>2, <1>7
    <3> QED BY <1>3, <2>1, <3>3
  <2>3. CASE issued[q][j] # x
    <3>1. results[issued[q][j]] = <<"ok">>
      BY <1>3, <2>1, <2>3
    <3>2. results[issued[q][k]] # <<>>
      BY <3>1, <1>8 DEF ClientView!SuccessInOrder
    <3> QED BY <1>3, <2>1, <3>2
  <2> QED BY <2>2, <2>3
<1>9. ClientView!Finish(p, i)
  <2>1. r = "ok" => \A j \in 1 .. (i - 1) : results[issued[p][j]] # <<>>
    <3>1. \A j \in 1 .. (i - 1) : j \in DOMAIN issued[p] /\ j < i
      BY <1>1
    <3> QED BY <3>1, <1>7
  <2>2. results[issued[p][i]] = <<>>
    BY <1>1 DEF Answers
  <2> QED BY <1>1, <1>3, <2>1, <2>2 DEF ClientView!Finish
<1> QED BY <1>1, <1>4, <1>5, <1>6, <1>8, <1>9
-----------------------------------------------------------------------------
(* The transfers of a pipe that the driver has yet to answer.              *)
Aborting(p, x)   == \E f \in Frames : f.pipe = p /\ x \in ToSet(f.list)
Completing(p, x) == \E f \in Frames : f.pipe = p /\ f.at = "complete" /\ f.x = x
WaitsOn(p, x)    == x \in ToSet(queue[p]) \/ Aborting(p, x) \/ Completing(p, x)

QueuedBefore(p, y, x) ==
  \E i, j \in DOMAIN queue[p] : i < j /\ queue[p][i] = y /\ queue[p][j] = x

(* It waits until it is answered, and is issued but while its own          *)
(* submission is under way.                                                *)
WaitersIssued ==
  \A p \in Pipe, x \in Transfer :
    WaitsOn(p, x) => results[x] = <<>> /\ (status[x] = "new" \/ IssuedOn(p, x))
UnansweredWait ==
  \A p \in Pipe, x \in Transfer : IssuedOn(p, x) /\ results[x] = <<>> => WaitsOn(p, x)
QueueInOrder ==
  \A p \in Pipe, x, y \in Transfer : QueuedBefore(p, y, x) => IssuedBefore(p, y, x)
CompletingFirst ==
  \A p \in Pipe, x, y \in Transfer :
    Completing(p, x) /\ y \in ToSet(queue[p]) => IssuedBefore(p, x, y)

Views == ViewBase /\ WaitersIssued /\ UnansweredWait /\ QueueInOrder /\ CompletingFirst

(* A frame that stands for no transfer; two that stand for the same.       *)
Bare(f) == f.list = <<>> /\ f.at # "complete"
Alike(f, g) ==
  /\ f.pipe = g.pipe /\ f.list = g.list
  /\ (f.at = "complete" <=> g.at = "complete") /\ (f.at = "complete" => f.x = g.x)

(* Frames that hold the same transfers.                                    *)
LEMMA ClaimsStay ==
  ASSUME \A f \in Frames : Bare(f) \/ \E g \in Frames' : Alike(f, g),
         \A g \in Frames' : Bare(g) \/ \E f \in Frames : Alike(f, g)
  PROVE  \A p, x : (Aborting(p, x)' <=> Aborting(p, x)) /\ (Completing(p, x)' <=> Completing(p, x))
<1>0. ToSet(<<>>) = {}
  BY DEF ToSet
<1> SUFFICES ASSUME NEW p, NEW x
             PROVE  (Aborting(p, x)' <=> Aborting(p, x)) /\ (Completing(p, x)' <=> Completing(p, x))
  OBVIOUS
<1>1. Aborting(p, x) => Aborting(p, x)'
  BY <1>0 DEF Aborting, Bare, Alike
<1>2. Aborting(p, x)' => Aborting(p, x)
  BY <1>0 DEF Aborting, Bare, Alike
<1>3. Completing(p, x) => Completing(p, x)'
  BY DEF Completing, Bare, Alike
<1>4. Completing(p, x)' => Completing(p, x)
  BY DEF Completing, Bare, Alike
<1> QED BY <1>1, <1>2, <1>3, <1>4

(* A step in which nothing moves.                                          *)
LEMMA ViewsStay ==
  ASSUME Views, UNCHANGED <<status, results, issued, queue>>,
         \A p, x : (Aborting(p, x)' <=> Aborting(p, x)) /\ (Completing(p, x)' <=> Completing(p, x))
  PROVE  Views'
<1>1. ViewBase'
  BY DEF Views, ViewBase, IssuedOnce, ClientView!TypeOK, ClientView!AnsweredOnce
<1>2. \A p, x : WaitsOn(p, x)' <=> WaitsOn(p, x)
  BY DEF WaitsOn
<1>3. \A p, x : IssuedOn(p, x)' <=> IssuedOn(p, x)
  BY DEF IssuedOn
<1>4. \A p, x, y : IssuedBefore(p, x, y)' <=> IssuedBefore(p, x, y)
  BY DEF IssuedBefore
<1>5. WaitersIssued'
  BY <1>2, <1>3 DEF Views, WaitersIssued
<1>6. UnansweredWait'
  BY <1>2, <1>3 DEF Views, UnansweredWait
<1>7. QueueInOrder'
  BY <1>4 DEF Views, QueueInOrder, QueuedBefore
<1>8. CompletingFirst'
  BY <1>4 DEF Views, CompletingFirst
<1> QED BY <1>1, <1>5, <1>6, <1>7, <1>8 DEF Views

(* Nothing that clients see happens.                                       *)
Unseen == UNCHANGED <<status, results, issued>>

(* The running call returns, goes on, or makes another.                    *)
LEMMA ReturnView ==
  ASSUME Core, Views, stack # <<>>, Return, Bare(Top), Unseen, UNCHANGED queue
  PROVE  Views'
<1>1. Frames = {Top} \cup Rest /\ Frames' = Rest
  BY ReturnIs, TopIs DEF Core
<1>2. \A f \in Frames : Bare(f) \/ \E g \in Frames' : Alike(f, g)
  BY <1>1 DEF Alike
<1>3. \A g \in Frames' : Bare(g) \/ \E f \in Frames : Alike(f, g)
  BY <1>1 DEF Alike
<1> QED BY <1>2, <1>3, ClaimsStay, ViewsStay DEF Unseen

LEMMA GotoView ==
  ASSUME Core, Views, stack # <<>>, NEW g \in FrameType, Goto(g), Unseen, UNCHANGED queue,
         (Bare(Top) /\ Bare(g)) \/ Alike(Top, g)
  PROVE  Views'
<1>1. Frames = {Top} \cup Rest
  BY TopIs DEF Core
<1>2. Frames' = {g} \cup Rest
  BY GotoIs DEF Core
<1>3. \A f \in Frames : Bare(f) \/ \E h \in Frames' : Alike(f, h)
  BY <1>1, <1>2 DEF Alike
<1>4. \A h \in Frames' : Bare(h) \/ \E f \in Frames : Alike(f, h)
  BY <1>1, <1>2 DEF Alike
<1> QED BY <1>3, <1>4, ClaimsStay, ViewsStay DEF Unseen

LEMMA BeginView ==
  ASSUME Core, Views, NEW g \in FrameType, stack' = <<g>> \o stack, Bare(g), Unseen, UNCHANGED queue
  PROVE  Views'
<1>1. Frames' = {g} \cup Frames
  BY PushedIs DEF Core
<1>3. \A f \in Frames : Bare(f) \/ \E h \in Frames' : Alike(f, h)
  BY <1>1 DEF Alike
<1>4. \A h \in Frames' : Bare(h) \/ \E f \in Frames : Alike(f, h)
  BY <1>1 DEF Alike
<1> QED BY <1>3, <1>4, ClaimsStay, ViewsStay DEF Unseen

(* No call does anything.                                                  *)
LEMMA SameView == ASSUME Views, Unseen, UNCHANGED <<queue, stack>> PROVE Views'
<1>1. \A p, x : (Aborting(p, x)' <=> Aborting(p, x)) /\ (Completing(p, x)' <=> Completing(p, x))
  BY DEF Aborting, Completing, Frames
<1> QED BY <1>1, ViewsStay DEF Unseen

(* A frame as a call begins.                                               *)
LEMMA FrameIs ==
  ASSUME NEW at \in Points, NEW op \in Calls, NEW p \in Pipe \cup {None}
  PROVE  /\ Frame(at, op, p) \in FrameType /\ Frame(at, op, p).list = <<>>
         /\ Frame(at, op, p).at = at /\ Frame(at, op, p).pipe = p
<1>1. <<>> \in Seq(Transfer) /\ <<>> \in Seq(Pipe) /\ 0 \in 0..MaxChunks
  BY Constants
<1> QED BY <1>1 DEF Frame, FrameType

(* Steps that clients do not see and that move no transfer.                *)
LEMMA QuietView ==
  ASSUME Core, Others, Views,
         \/ Started \/ WaitTimesOut \/ Rebuild \/ Link \/ AbortEnds \/ DeleteAborted
         \/ Fill \/ ScanSkips \/ ScanEnds \/ CallbackReturns \/ HandleInterrupt
         \/ HcStops \/ HcStarts \/ UNCHANGED vars \/ \E p \in Pipe : HcStep(p)
  PROVE  Views' /\ Unseen
<1>1. ASSUME Started \/ WaitTimesOut PROVE Views' /\ Unseen
  <2>1. stack # <<>> /\ Top.at \in Waiting /\ Return /\ UNCHANGED queue /\ Unseen
    BY <1>1 DEF Started, WaitTimesOut, Runs, Waiting, clientVars, driverVars, Unseen
  <2>2. Bare(Top)
    BY <2>1, WaitIs DEF Core, Bare, Waiting
  <2> QED BY <2>1, <2>2, ReturnView
<1>2. ASSUME Rebuild \/ Link PROVE Views' /\ Unseen
  <2>1. PICK g : g = [Top EXCEPT !.at = "starting"]
    OBVIOUS
  <2>2. stack # <<>> /\ Top.at \in Waiting /\ Goto(g) /\ UNCHANGED queue /\ Unseen
    BY <1>2, <2>1 DEF Rebuild, Link, Stopped, Runs, Waiting, Start, clientVars, driverVars, Unseen
  <2>3. Top \in FrameType /\ Top.list = <<>>
    BY <2>2, WaitIs, TopIs DEF Core
  <2>4. g \in FrameType /\ Bare(g) /\ Bare(Top)
    BY <2>1, <2>2, <2>3 DEF FrameType, Points, Bare, Waiting
  <2> QED BY <2>2, <2>4, GotoView
<1>3. ASSUME AbortEnds \/ ScanEnds PROVE Views' /\ Unseen
  <2>1. stack # <<>> /\ Return /\ UNCHANGED queue /\ Unseen
    BY <1>3 DEF AbortEnds, ScanEnds, Runs, clientVars, driverVars, Unseen
  <2>2. CASE AbortEnds
    <3>1. Bare(Top)
      BY <2>2 DEF AbortEnds, Runs, Bare
    <3> QED BY <2>1, <3>1, ReturnView
  <2>3. CASE ScanEnds
    <3>1. Top.at = "scan"
      BY <2>3 DEF ScanEnds, Runs
    <3>2. Bare(Top)
      BY <2>1, <3>1, ScanIs DEF Core, Scans, Bare
    <3> QED BY <2>1, <3>2, ReturnView
  <2> QED BY <1>3, <2>2, <2>3
<1>4. ASSUME DeleteAborted PROVE Views' /\ Unseen
  <2>1. stack # <<>> /\ Top.at = "abort" /\ Top.list = <<>> /\ UNCHANGED queue /\ Unseen
    BY <1>4 DEF DeleteAborted, Runs, clientVars, driverVars, Unseen
  <2>2. PICK p \in Pipe : p = Top.pipe
    BY <2>1, AbortIs DEF Core, Aborts
  <2>3. PICK g : g = Stop("unlink", p)
    OBVIOUS
  <2>4. Goto(g)
    BY <1>4, <2>2, <2>3 DEF DeleteAborted
  <2>5. g \in FrameType /\ Bare(g)
    BY <2>3, StopIs DEF Bare, Waits
  <2>6. Bare(Top)
    BY <2>1 DEF Bare
  <2> QED BY <2>1, <2>4, <2>5, <2>6, GotoView
<1>5. ASSUME Fill PROVE Views' /\ Unseen
  <2>1. PICK k : k = Top.filled + 1
    OBVIOUS
  <2>2. PICK g : g = [Top EXCEPT !.filled = k]
    OBVIOUS
  <2>3. stack # <<>> /\ Top.at = "fill" /\ k <= Len(chunks[Top.x]) /\ Goto(g) /\ UNCHANGED queue /\ Unseen
    BY <1>5, <2>1, <2>2 DEF Fill, Runs, clientVars, driverVars, Unseen
  <2>4. Submits(Top) /\ Top \in FrameType /\ FrameOK(Top)
    BY <2>3, SubmitIs, TopIs DEF Core
  <2>5. k \in 0 .. MaxChunks
    <3>1. Top.filled \in 0 .. MaxChunks
      BY <2>4 DEF FrameType
    <3>2. Len(chunks[Top.x]) <= MaxChunks /\ Len(chunks[Top.x]) \in Nat
      BY <2>3, <2>4, LengthIs DEF FrameOK, Submits, Core, QTDs
    <3> QED BY <2>1, <2>3, <3>1, <3>2, Constants
  <2>6. g \in FrameType /\ Bare(g) /\ Bare(Top)
    BY <2>2, <2>3, <2>4, <2>5 DEF FrameType, Bare, Submits
  <2> QED BY <2>3, <2>6, GotoView
<1>6. ASSUME ScanSkips PROVE Views' /\ Unseen
  <2>1. PICK g : g = [Top EXCEPT !.left = Tail(@)]
    OBVIOUS
  <2>2. stack # <<>> /\ Top.at = "scan" /\ Top.left # <<>> /\ Goto(g) /\ UNCHANGED queue /\ Unseen
    BY <1>6, <2>1 DEF ScanSkips, Runs, clientVars, driverVars, Unseen
  <2>3. Scans(Top) /\ Top \in FrameType
    BY <2>2, ScanIs, TopIs DEF Core
  <2>4. Tail(Top.left) \in Seq(Pipe)
    <3>1. Top.left \in Seq(Pipe)
      BY <2>3 DEF FrameType
    <3> QED BY <2>2, <3>1
  <2>5. g \in FrameType /\ Bare(g) /\ Bare(Top)
    BY <2>1, <2>2, <2>3, <2>4 DEF FrameType, Bare, Scans
  <2> QED BY <2>2, <2>5, GotoView
<1>7. ASSUME CallbackReturns PROVE Views' /\ Unseen
  <2>1. PICK a : a = IF Top.op = "scan" THEN "scan" ELSE "abort"
    OBVIOUS
  <2>2. PICK g : g = [Top EXCEPT !.at = a, !.x = None, !.how = "none", !.left = open]
    OBVIOUS
  <2>3. stack # <<>> /\ Top.at = "callback" /\ Goto(g) /\ UNCHANGED queue /\ Unseen
    BY <1>7, <2>1, <2>2 DEF CallbackReturns, Runs, clientVars, Unseen
  <2>4. Top \in FrameType /\ open \in Seq(Pipe)
    BY <2>3, TopIs DEF Core, Queues
  <2>5. a \in {"scan", "abort"}
    BY <2>1
  <2>6. g \in FrameType /\ Alike(Top, g)
    BY <2>2, <2>3, <2>4, <2>5 DEF FrameType, Alike, Points
  <2> QED BY <2>3, <2>6, GotoView
<1>8. ASSUME HandleInterrupt PROVE Views' /\ Unseen
  <2>1. PICK f : f = Frame("scan", "scan", None)
    OBVIOUS
  <2>2. f \in FrameType /\ f.list = <<>> /\ f.at = "scan"
    BY <2>1, FrameIs DEF Points, Calls
  <2>3. PICK g : g = [f EXCEPT !.left = open]
    OBVIOUS
  <2>4. open \in Seq(Pipe)
    BY DEF Core, Queues
  <2>5. g \in FrameType /\ Bare(g)
    BY <2>2, <2>3, <2>4 DEF FrameType, Bare
  <2>6. stack = <<>> /\ stack' = <<g>> /\ UNCHANGED queue /\ Unseen
    BY <1>8, <2>1, <2>3 DEF HandleInterrupt, clientVars, driverVars, Unseen
  <2>7. stack' = <<g>> \o stack
    BY <2>6
  <2> QED BY <2>5, <2>6, <2>7, BeginView
<1>9. ASSUME HcStops \/ HcStarts \/ UNCHANGED vars \/ \E p \in Pipe : HcStep(p) PROVE Views' /\ Unseen
  <2>1. UNCHANGED <<queue, stack>> /\ Unseen
    BY <1>9 DEF HcStops, HcStarts, HcStep, HcFetch, HcRetire, vars, clientVars, driverVars, Unseen
  <2> QED BY <2>1, SameView
<1> QED BY <1>1, <1>2, <1>3, <1>4, <1>5, <1>6, <1>7, <1>8, <1>9

(* Calls of clients that move no transfer yet.                             *)
LEMMA QuietCallsView ==
  ASSUME Core, Others, Views,
         \/ \E p \in Pipe : Create(p) \/ ClearStall(p) \/ DeleteEmpty(p)
         \/ \E x \in Transfer, p \in Pipe, n \in 1..MaxChunks : Submit(x, p, n)
  PROVE  Views' /\ Unseen
<1>1. ASSUME NEW p \in Pipe, Create(p) \/ ClearStall(p) \/ DeleteEmpty(p) PROVE Views' /\ Unseen
  <2>1. PICK op \in {"link", "rebuild", "unlink"} : stack' = <<Stop(op, p)>>
    BY <1>1 DEF Create, ClearStall, DeleteEmpty
  <2>2. PICK g : g = Stop(op, p)
    OBVIOUS
  <2>3. g \in FrameType /\ Bare(g)
    BY <2>2, StopIs DEF Waits, Bare
  <2>4. stack = <<>> /\ UNCHANGED queue /\ Unseen
    BY <1>1 DEF Create, ClearStall, DeleteEmpty, driverVars, Unseen
  <2>5. stack' = <<g>> \o stack
    BY <2>1, <2>2, <2>4
  <2> QED BY <2>3, <2>4, <2>5, BeginView
<1>2. ASSUME NEW x \in Transfer, NEW p \in Pipe, NEW n \in 1..MaxChunks, Submit(x, p, n) PROVE Views' /\ Unseen
  <2>1. PICK f : f = Frame("fill", "submit", p)
    OBVIOUS
  <2>2. f \in FrameType /\ f.list = <<>> /\ f.at = "fill"
    BY <2>1, FrameIs DEF Points, Calls
  <2>3. PICK t \in QTD : t = free[n]
    <3>1. free \in Seq(QTD) /\ Len(free) >= n
      BY <1>2 DEF Submit, Core, QTDs
    <3> QED BY <3>1
  <2>4. PICK g : g = [f EXCEPT !.x = x, !.new = t]
    OBVIOUS
  <2>5. g \in FrameType /\ Bare(g)
    BY <2>2, <2>4 DEF FrameType, Bare
  <2>6. stack' = <<g>> \o stack /\ UNCHANGED queue /\ Unseen
    BY <1>2, <2>1, <2>3, <2>4 DEF Submit, clientVars, Unseen
  <2> QED BY <2>5, <2>6, BeginView
<1> QED BY <1>1, <1>2

(* The order of issue.                                                     *)
LEMMA OrderIs ==
  ASSUME ViewBase, NEW p \in Pipe, NEW x, NEW y
  PROVE  ~(IssuedBefore(p, x, y) /\ IssuedBefore(p, y, x))
<1> SUFFICES ASSUME IssuedBefore(p, x, y), IssuedBefore(p, y, x) PROVE FALSE
  OBVIOUS
<1>1. PICK i \in DOMAIN issued[p], j \in DOMAIN issued[p] : i < j /\ issued[p][i] = x /\ issued[p][j] = y
  BY DEF IssuedBefore
<1>2. PICK k \in DOMAIN issued[p], l \in DOMAIN issued[p] : k < l /\ issued[p][k] = y /\ issued[p][l] = x
  BY DEF IssuedBefore
<1>3. i = l /\ j = k
  BY <1>1, <1>2 DEF ViewBase, IssuedOnce
<1>4. issued[p] \in Seq(Transfer)
  BY DEF ViewBase, ClientView!TypeOK
<1>5. i \in Nat /\ j \in Nat
  BY <1>4
<1> QED BY <1>1, <1>2, <1>3, <1>5

(* What is issued was accepted.                                            *)
LEMMA IssuedIs ==
  ASSUME ViewBase, NEW p \in Pipe, NEW x
  PROVE  /\ IssuedOn(p, x) => x \in Transfer /\ status[x] = "accepted"
         /\ \A y : IssuedBefore(p, y, x) => IssuedOn(p, y) /\ IssuedOn(p, x)
<1>1. issued[p] \in Seq(Transfer)
  BY DEF ViewBase, ClientView!TypeOK
<1> QED BY <1>1 DEF ViewBase, IssuedOnce, IssuedOn, IssuedBefore

(* A transfer is answered and no longer waits.                             *)
LEMMA AnswerKeeps ==
  ASSUME Views, NEW p \in Pipe, NEW x \in Transfer, NEW r \in {"ok", "error", "aborted"},
         WaitsOn(p, x), status[x] # "new",
         results' = [results EXCEPT ![x] = Append(@, r)], UNCHANGED <<status, issued, queue>>,
         r = "ok" => EarlierAnswered(p, x),
         \A q \in Pipe, y \in Transfer : WaitsOn(q, y)' <=> WaitsOn(q, y) /\ y # x,
         \A q \in Pipe, y \in Transfer : Completing(q, y)' => Completing(q, y)
  PROVE  /\ Views'
         /\ \E i \in DOMAIN issued[p] : ClientView!Finish(p, i)
         /\ ClientView!SuccessInOrder => ClientView!SuccessInOrder'
<1>1. results[x] = <<>> /\ IssuedOn(p, x)
  BY DEF Views, WaitersIssued
<1>2. Append(<<>>, r) = <<r>>
  OBVIOUS
<1>3. results \in [Transfer -> Seq({"ok", "error", "aborted"})]
  BY DEF Views, ViewBase, ClientView!TypeOK
<1>4. results' = [results EXCEPT ![x] = <<r>>]
  BY <1>1, <1>2
<1>5. Answers(x, r)
  BY <1>1, <1>4 DEF Answers
<1>6. /\ ViewBase'
      /\ ClientView!SuccessInOrder => ClientView!SuccessInOrder'
      /\ \E i \in DOMAIN issued[p] : ClientView!Finish(p, i)
  BY <1>1, <1>5, AnswerView DEF Views
<1>7. \A y \in Transfer : results'[y] = IF y = x THEN <<r>> ELSE results[y]
  BY <1>3, <1>4
<1>8. <<r>> # <<>>
  OBVIOUS
<1>9. \A q, y : IssuedOn(q, y)' <=> IssuedOn(q, y)
  BY DEF IssuedOn
<1>10. \A q, y, z : IssuedBefore(q, y, z)' <=> IssuedBefore(q, y, z)
  BY DEF IssuedBefore
<1>11. WaitersIssued'
  BY <1>7, <1>9 DEF Views, WaitersIssued
<1>12. UnansweredWait'
  BY <1>7, <1>8, <1>9 DEF Views, UnansweredWait
<1>13. QueueInOrder'
  BY <1>10 DEF Views, QueueInOrder, QueuedBefore
<1>14. CompletingFirst'
  BY <1>10 DEF Views, CompletingFirst
<1> QED BY <1>6, <1>11, <1>12, <1>13, <1>14 DEF Views

(* A submission is refused.                                                *)
LEMMA RefuseKeeps ==
  ASSUME Views, NEW x \in Transfer, status[x] = "new",
         status' = [status EXCEPT ![x] = "refused"], UNCHANGED <<results, issued>>,
         \A q \in Pipe, y \in Transfer : WaitsOn(q, y)' <=> WaitsOn(q, y) /\ y # x,
         \A q \in Pipe, y \in Transfer : Completing(q, y)' => Completing(q, y),
         \A q \in Pipe, y, z \in Transfer : QueuedBefore(q, y, z)' => QueuedBefore(q, y, z),
         \A q \in Pipe, y \in Transfer : (y \in ToSet(queue[q]))' => y \in ToSet(queue[q])
  PROVE  /\ Views' /\ ClientView!Refuse(x)
         /\ ClientView!SuccessInOrder => ClientView!SuccessInOrder'
<1>1. ClientView!Refuse(x)
  BY DEF ClientView!Refuse
<1>2. ViewBase' /\ (ClientView!SuccessInOrder => ClientView!SuccessInOrder')
  BY <1>1, RefuseView DEF Views
<1>3. \A q, y : IssuedOn(q, y)' <=> IssuedOn(q, y)
  BY DEF IssuedOn
<1>4. \A q, y, z : IssuedBefore(q, y, z)' <=> IssuedBefore(q, y, z)
  BY DEF IssuedBefore
<1>5. \A q \in Pipe : ~IssuedOn(q, x)
  BY IssuedIs DEF Views
<1>6. \A y \in Transfer : y # x => status'[y] = status[y]
  BY DEF Views, ViewBase, ClientView!TypeOK
<1>7. WaitersIssued'
  BY <1>3, <1>6 DEF Views, WaitersIssued
<1>8. UnansweredWait'
  BY <1>3, <1>5 DEF Views, UnansweredWait
<1>9. QueueInOrder'
  BY <1>4 DEF Views, QueueInOrder
<1>10. CompletingFirst'
  BY <1>4 DEF Views, CompletingFirst
<1> QED BY <1>1, <1>2, <1>7, <1>8, <1>9, <1>10 DEF Views

(* A submission is accepted.                                               *)
LEMMA AcceptKeeps ==
  ASSUME Views, NEW p \in Pipe, NEW x \in Transfer, status[x] = "new", Accept(x, p),
         UNCHANGED results,
         \A q \in Pipe, y \in Transfer : WaitsOn(q, y)' <=> WaitsOn(q, y) \/ (q = p /\ y = x),
         \A q \in Pipe : WaitsOn(q, x) => q = p,
         \A q \in Pipe, y \in Transfer : Completing(q, y)' => Completing(q, y),
         \A q \in Pipe, y, z \in Transfer : QueuedBefore(q, y, z)' =>
           QueuedBefore(q, y, z) \/ (q = p /\ z = x /\ IssuedOn(p, y)),
         \A q \in Pipe, y, z \in Transfer :
           Completing(q, y) /\ (z \in ToSet(queue[q]))' => z \in ToSet(queue[q])
  PROVE  /\ Views' /\ ClientView!Accept(x, p)
         /\ ClientView!SuccessInOrder => ClientView!SuccessInOrder'
<1>0. /\ status' = [status EXCEPT ![x] = "accepted"]
      /\ issued' = [issued EXCEPT ![p] = Append(@, x)]
  BY DEF Accept
<1>1. ClientView!Accept(x, p)
  BY <1>0 DEF ClientView!Accept
<1>2. ViewBase' /\ (ClientView!SuccessInOrder => ClientView!SuccessInOrder')
  BY <1>1, AcceptView DEF Views
<1>3. /\ issued \in [Pipe -> Seq(Transfer)] /\ status \in [Transfer -> {"new", "accepted", "refused"}]
      /\ results[x] = <<>>
  BY DEF Views, ViewBase, ClientView!TypeOK, ClientView!AnsweredOnce
<1>4. \A q \in Pipe : q # p => issued'[q] = issued[q]
  BY <1>0, <1>3
<1>5. PICK l \in Seq(Transfer) : l = issued[p]
  BY <1>3
<1>6. issued'[p] = Append(l, x)
  BY <1>0, <1>3, <1>5
<1>7. /\ Len(l) \in Nat /\ DOMAIN l = 1 .. Len(l) /\ DOMAIN Append(l, x) = 1 .. Len(l) + 1
      /\ Append(l, x)[Len(l) + 1] = x
      /\ \A i \in 1 .. Len(l) : Append(l, x)[i] = l[i]
  BY AppendIs
<1>8. \A q \in Pipe : \A y : IssuedOn(q, y)' <=> IssuedOn(q, y) \/ (q = p /\ y = x)
  <2>1. \A q \in Pipe : \A y : q # p => (IssuedOn(q, y)' <=> IssuedOn(q, y))
    BY <1>4 DEF IssuedOn
  <2>2. \A y : IssuedOn(p, y)' <=> \E i \in 1 .. Len(l) + 1 : Append(l, x)[i] = y
    BY <1>6, <1>7 DEF IssuedOn
  <2>3. \A y : IssuedOn(p, y) <=> \E i \in 1 .. Len(l) : l[i] = y
    BY <1>5, <1>7 DEF IssuedOn
  <2>4. \A i \in 1 .. Len(l) + 1 : i \in 1 .. Len(l) \/ i = Len(l) + 1
    BY <1>7
  <2>5. Len(l) + 1 \in 1 .. Len(l) + 1 /\ \A i \in 1 .. Len(l) : i \in 1 .. Len(l) + 1
    BY <1>7
  <2> QED BY <1>7, <2>1, <2>2, <2>3, <2>4, <2>5
<1>9. \A q \in Pipe : \A y, z : IssuedBefore(q, y, z) => IssuedBefore(q, y, z)'
  <2>1. \A q \in Pipe : \A y, z : q # p => (IssuedBefore(q, y, z)' <=> IssuedBefore(q, y, z))
    BY <1>4 DEF IssuedBefore
  <2>2. \A y, z : IssuedBefore(p, y, z) => IssuedBefore(p, y, z)'
    <3> SUFFICES ASSUME NEW y, NEW z, IssuedBefore(p, y, z) PROVE IssuedBefore(p, y, z)'
      OBVIOUS
    <3>1. PICK i \in 1 .. Len(l), j \in 1 .. Len(l) : i < j /\ l[i] = y /\ l[j] = z
      BY <1>5, <1>7 DEF IssuedBefore
    <3>2. i \in DOMAIN Append(l, x) /\ j \in DOMAIN Append(l, x)
      BY <1>7
    <3> QED BY <1>6, <1>7, <3>1, <3>2 DEF IssuedBefore
  <2> QED BY <2>1, <2>2
<1>10. \A y : IssuedOn(p, y) => IssuedBefore(p, y, x)'
  <2> SUFFICES ASSUME NEW y, IssuedOn(p, y) PROVE IssuedBefore(p, y, x)'
    OBVIOUS
  <2>1. PICK i \in 1 .. Len(l) : l[i] = y
    BY <1>5, <1>7 DEF IssuedOn
  <2>2. /\ i \in DOMAIN Append(l, x) /\ Len(l) + 1 \in DOMAIN Append(l, x) /\ i < Len(l) + 1
    BY <1>7
  <2> QED BY <1>6, <1>7, <2>1, <2>2 DEF IssuedBefore
<1>11. \A y \in Transfer : y # x => status'[y] = status[y]
  BY <1>0, <1>3
<1>12. WaitersIssued'
  BY <1>3, <1>8, <1>11 DEF Views, WaitersIssued
<1>13. UnansweredWait'
  BY <1>8 DEF Views, UnansweredWait
<1>14. QueueInOrder'
  BY <1>9, <1>10 DEF Views, QueueInOrder
<1>15. CompletingFirst'
  BY <1>9 DEF Views, CompletingFirst
<1> QED BY <1>1, <1>2, <1>12, <1>13, <1>14, <1>15 DEF Views

(* Transfers go from a queue to a call or the like.                        *)
LEMMA MovesKeep ==
  ASSUME Views, Unseen,
         \A q \in Pipe, y \in Transfer : WaitsOn(q, y)' <=> WaitsOn(q, y),
         QueueInOrder', CompletingFirst'
  PROVE  Views'
<1>1. ViewBase'
  BY DEF Views, Unseen, ViewBase, IssuedOnce, ClientView!TypeOK, ClientView!AnsweredOnce
<1>2. \A p, x : IssuedOn(p, x)' <=> IssuedOn(p, x)
  BY DEF IssuedOn, Unseen
<1>3. WaitersIssued'
  BY <1>2 DEF Views, WaitersIssued, Unseen
<1>4. UnansweredWait'
  BY <1>2 DEF Views, UnansweredWait, Unseen
<1> QED BY <1>1, <1>3, <1>4 DEF Views

(* A step is one of the abstract pipe, or not seen.                        *)
Seen == \/ ClientView!Next \/ \E p \in Pipe : ClientView!Delete(p)
        \/ Unseen
Keeps == Views' /\ Seen /\ (ClientView!SuccessInOrder => ClientView!SuccessInOrder')

(* How a step ends that clients do not see, or see as a refusal, an accept *)
(* or an answer.                                                           *)
LEMMA UnseenKeeps == ASSUME Views', Unseen PROVE Keeps
<1>1. ClientView!SuccessInOrder => ClientView!SuccessInOrder'
  BY DEF Unseen, ClientView!SuccessInOrder
<1> QED BY <1>1 DEF Keeps, Seen

LEMMA RefusedKeeps ==
  ASSUME Views', NEW x \in Transfer, ClientView!Refuse(x),
         ClientView!SuccessInOrder => ClientView!SuccessInOrder'
  PROVE  Keeps
BY DEF Keeps, Seen, ClientView!Next

LEMMA AcceptedKeeps ==
  ASSUME Views', NEW x \in Transfer, NEW p \in Pipe, ClientView!Accept(x, p),
         ClientView!SuccessInOrder => ClientView!SuccessInOrder'
  PROVE  Keeps
BY DEF Keeps, Seen, ClientView!Next

LEMMA AnsweredKeeps ==
  ASSUME Views', NEW p \in Pipe, \E i \in DOMAIN issued[p] : ClientView!Finish(p, i),
         ClientView!SuccessInOrder => ClientView!SuccessInOrder'
  PROVE  Keeps
BY DEF Keeps, Seen, ClientView!Next

(* What waits is queued or held.                                           *)
LEMMA WaiterBusy ==
  ASSUME NEW p \in Pipe, NEW x, WaitsOn(p, x)
  PROVE  Busy(x) /\ (x \in ToSet(queue[p]) \/ HeldX(x))
BY DEF WaitsOn, Aborting, Completing, Busy, Queued, HeldX, HeldBy

(* Complete: it was first, and what was issued earlier is answered.        *)
LEMMA CompleteView == ASSUME Core, Others, Views, Complete PROVE Keeps
<1>1. PICK g : g = [Top EXCEPT !.at = "callback"]
  OBVIOUS
<1>2. stack # <<>> /\ Top.at = "complete" /\ Goto(g) /\ UNCHANGED <<status, issued, queue>>
  BY <1>1 DEF Complete, Runs, driverVars
<1>3. /\ Top \in FrameType /\ FrameOK(Top) /\ Scans(Top) /\ Tail(stack) = <<>>
      /\ Frames = {Top} /\ Rest = {}
  BY <1>2, TopIs, ScanIs, RestIs DEF Core
<1>4. PICK x \in Transfer : x = Top.x
  BY <1>2, <1>3 DEF Scans
<1>5. PICK p \in Pipe : p = Top.pipe
  BY <1>2, <1>3 DEF Scans
<1>6. PICK r \in {"ok", "error", "aborted"} : r = Top.how
  BY <1>2, RunningIs
<1>7. results' = [results EXCEPT ![x] = Append(@, r)]
  BY <1>4, <1>6 DEF Complete
<1>8. g \in FrameType /\ g.at = "callback" /\ g.list = <<>> /\ g.pipe = p
  BY <1>1, <1>3, <1>5 DEF FrameType, Points, Scans
<1>9. Frames' = {g}
  BY <1>2, <1>3, <1>8, GotoIs DEF Core
<1>10. ToSet(<<>>) = {}
  BY DEF ToSet
<1>11. \A q, y : ~Aborting(q, y) /\ ~Aborting(q, y)' /\ ~Completing(q, y)'
  BY <1>3, <1>8, <1>9, <1>10 DEF Aborting, Completing, Scans
<1>12. \A q, y : Completing(q, y) <=> q = p /\ y = x
  BY <1>2, <1>3, <1>4, <1>5 DEF Completing
<1>13. ~Queued(x)
  BY <1>2, <1>3, <1>4 DEF FrameOK, HeldBy
<1>14. \A q \in Pipe, y \in Transfer : WaitsOn(q, y)' <=> WaitsOn(q, y) /\ y # x
  BY <1>2, <1>11, <1>12, <1>13 DEF WaitsOn, Queued
<1>15. WaitsOn(p, x)
  BY <1>12 DEF WaitsOn
<1>16. status[x] # "new"
  <2>1. Busy(x)
    BY <1>15, WaiterBusy
  <2>2. ~Submitting(x)
    BY <1>3 DEF Submitting, Scans
  <2> QED BY <2>1, <2>2 DEF Core, Queues
<1>17. EarlierAnswered(p, x)
  <2> SUFFICES ASSUME NEW y \in Transfer, IssuedBefore(p, y, x), results[y] = <<>> PROVE FALSE
    BY DEF EarlierAnswered
  <2>1. ViewBase /\ IssuedOn(p, y) /\ ~IssuedBefore(p, x, y)
    BY OrderIs, IssuedIs DEF Views
  <2>2. WaitsOn(p, y)
    BY <2>1 DEF Views, UnansweredWait
  <2>3. y # x
    BY <2>1
  <2>4. y \in ToSet(queue[p])
    BY <2>2, <2>3, <1>11, <1>12 DEF WaitsOn
  <2>5. IssuedBefore(p, x, y)
    BY <2>4, <1>12 DEF Views, CompletingFirst
  <2> QED BY <2>1, <2>5
<1>18. /\ Views'
       /\ \E i \in DOMAIN issued[p] : ClientView!Finish(p, i)
       /\ ClientView!SuccessInOrder => ClientView!SuccessInOrder'
  <2>1. \A q \in Pipe, y \in Transfer : Completing(q, y)' => Completing(q, y)
    BY <1>11
  <2>2. UNCHANGED <<status, issued, queue>>
    BY <1>2
  <2> QED BY <1>7, <1>14, <1>15, <1>16, <1>17, <2>1, <2>2, AnswerKeeps
<1> QED BY <1>18, AnsweredKeeps

(* AbortNext: it was taken off its queue and waits for nothing else.       *)
LEMMA AbortNextView == ASSUME Core, Others, Views, AbortNext PROVE Keeps
<1>1. PICK g : g = [Top EXCEPT !.at = "callback", !.x = Head(Top.list), !.list = Tail(Top.list)]
  OBVIOUS
<1>2. /\ stack # <<>> /\ Top.at = "abort" /\ Top.list # <<>> /\ Goto(g)
      /\ UNCHANGED <<status, issued, queue>>
  BY <1>1 DEF AbortNext, Runs, driverVars
<1>3. /\ Top \in FrameType /\ FrameOK(Top) /\ Aborts(Top) /\ Tail(stack) = <<>>
      /\ Frames = {Top} /\ Rest = {}
  BY <1>2, TopIs, AbortIs, RestIs DEF Core
<1>4. Top.list \in Seq(Transfer) /\ Distinct(Top.list)
  BY <1>3 DEF FrameType, FrameOK
<1>5. PICK x \in Transfer : x = Head(Top.list)
  BY <1>2, <1>4
<1>6. /\ Tail(Top.list) \in Seq(Transfer) /\ x \notin ToSet(Tail(Top.list))
      /\ ToSet(Top.list) = {x} \cup ToSet(Tail(Top.list))
  BY <1>2, <1>4, <1>5, TailSet
<1>7. PICK p \in Pipe : p = Top.pipe
  BY <1>3 DEF Aborts
<1>8. PICK r \in {"ok", "error", "aborted"} : r = "aborted"
  OBVIOUS
<1>9. results' = [results EXCEPT ![x] = Append(@, r)]
  BY <1>5, <1>8 DEF AbortNext
<1>10. g \in FrameType /\ g.at = "callback" /\ g.list = Tail(Top.list) /\ g.pipe = p
  BY <1>1, <1>3, <1>5, <1>6, <1>7 DEF FrameType, Points
<1>11. Frames' = {g}
  BY <1>2, <1>3, <1>10, GotoIs DEF Core
<1>12. \A q, y : ~Completing(q, y) /\ ~Completing(q, y)'
  BY <1>2, <1>3, <1>10, <1>11 DEF Completing
<1>13. \A q, y : /\ Aborting(q, y) <=> q = p /\ y \in ToSet(Top.list)
                 /\ Aborting(q, y)' <=> q = p /\ y \in ToSet(Tail(Top.list))
  <2>1. \A q, y : Aborting(q, y) <=> q = p /\ y \in ToSet(Top.list)
    BY <1>3, <1>7 DEF Aborting
  <2>2. \A q, y : Aborting(q, y)' <=> q = p /\ y \in ToSet(Tail(Top.list))
    BY <1>10, <1>11 DEF Aborting
  <2> QED BY <2>1, <2>2
<1>14. ~Queued(x)
  BY <1>3, <1>6 DEF FrameOK, HeldBy
<1>15. \A q \in Pipe, y \in Transfer : WaitsOn(q, y)' <=> WaitsOn(q, y) /\ y # x
  BY <1>2, <1>6, <1>12, <1>13, <1>14 DEF WaitsOn, Queued
<1>16. WaitsOn(p, x)
  BY <1>6, <1>13 DEF WaitsOn
<1>17. status[x] # "new"
  <2>1. Busy(x)
    BY <1>16, WaiterBusy
  <2>2. ~Submitting(x)
    BY <1>3 DEF Submitting, Aborts
  <2> QED BY <2>1, <2>2 DEF Core, Queues
<1>18. /\ Views'
       /\ \E i \in DOMAIN issued[p] : ClientView!Finish(p, i)
       /\ ClientView!SuccessInOrder => ClientView!SuccessInOrder'
  <2>1. \A q \in Pipe, y \in Transfer : Completing(q, y)' => Completing(q, y)
    BY <1>12
  <2>2. UNCHANGED <<status, issued, queue>>
    BY <1>2
  <2>3. r # "ok"
    BY <1>8
  <2> QED BY <1>9, <1>15, <1>16, <1>17, <2>1, <2>2, <2>3, AnswerKeeps
<1> QED BY <1>18, AnsweredKeeps

(* Abort: what was queued waits for the abort.                             *)
LEMMA AbortView ==
  ASSUME Core, Others, Views, NEW p \in Pipe, NEW op \in {"abort", "delete"}, Abort(p, op)
  PROVE  Keeps
<1>1. stack = <<>> /\ queue' = [queue EXCEPT ![p] = <<>>] /\ Unseen
  BY DEF Abort, Unseen
<1>2. PICK s : s = Stop("rebuild", p)
  OBVIOUS
<1>3. PICK a : a = [Frame("abort", op, p) EXCEPT !.list = queue[p]]
  OBVIOUS
<1>4. stack' = <<s, a>>
  BY <1>2, <1>3 DEF Abort
<1>5. s.list = <<>> /\ s.at # "complete"
  BY <1>2, StopIs DEF Waits
<1>6. a.list = queue[p] /\ a.pipe = p /\ a.at = "abort"
  BY <1>3 DEF Frame
<1>7. Frames = {} /\ Frames' = {s, a}
  BY <1>1, <1>4, EmptyIs DEF Frames, ToSet
<1>8. queue \in [Pipe -> Seq(Transfer)]
  BY DEF Core, Queues
<1>9. \A q \in Pipe : queue'[q] = IF q = p THEN <<>> ELSE queue[q]
  BY <1>1, <1>8
<1>10. ToSet(<<>>) = {}
  BY DEF ToSet
<1>11. \A q, y : ~Aborting(q, y) /\ ~Completing(q, y) /\ ~Completing(q, y)'
  BY <1>5, <1>6, <1>7 DEF Aborting, Completing
<1>12. \A q, y : Aborting(q, y)' <=> q = p /\ y \in ToSet(queue[p])
  BY <1>5, <1>6, <1>7, <1>10 DEF Aborting
<1>13. \A q \in Pipe, y \in Transfer : WaitsOn(q, y)' <=> WaitsOn(q, y)
  BY <1>9, <1>10, <1>11, <1>12 DEF WaitsOn
<1>14. QueueInOrder'
  <2>1. \A q \in Pipe : \A y, z : QueuedBefore(q, y, z)' => QueuedBefore(q, y, z)
    BY <1>9 DEF QueuedBefore
  <2> QED BY <1>1, <2>1 DEF Views, QueueInOrder, Unseen, IssuedBefore
<1>15. CompletingFirst'
  BY <1>11 DEF CompletingFirst
<1>16. Views'
  BY <1>1, <1>13, <1>14, <1>15, MovesKeep
<1> QED BY <1>1, <1>16, UnseenKeeps

(* ScanCompletes: the first of the queue, so the first issued.             *)
LEMMA ScanCompletesView == ASSUME Core, Others, Views, ScanCompletes PROVE Keeps
<1>1. stack # <<>> /\ Top.at = "scan" /\ Top.left # <<>> /\ Unseen
  BY DEF ScanCompletes, Runs, clientVars, Unseen
<1>2. /\ Scans(Top) /\ Tail(stack) = <<>> /\ Top \in FrameType
      /\ Frames = {Top} /\ Rest = {}
  BY <1>1, ScanIs, TopIs, RestIs DEF Core
<1>3. PICK p \in Pipe : p = Head(Top.left)
  <2>1. Top.left \in Seq(Pipe)
    BY <1>2 DEF FrameType
  <2> QED BY <1>1, <2>1
<1>4. /\ queue[p] # <<>> /\ queue' = [queue EXCEPT ![p] = Tail(queue[p])]
      /\ Evaluate(Head(queue[p])).how # "pending"
  BY <1>3 DEF ScanCompletes
<1>5. queue \in [Pipe -> Seq(Transfer)] /\ queue[p] \in Seq(Transfer) /\ Distinct(queue[p])
  BY DEF Core, Queues
<1>6. PICK x \in Transfer : x = Head(queue[p])
  BY <1>4, <1>5
<1>7. PICK how \in {"ok", "error"} : how = Evaluate(x).how
  BY <1>4, <1>6, EvaluateIs
<1>8. PICK l \in Seq(Transfer) : l = Tail(queue[p])
  <2>1. Tail(queue[p]) \in Seq(Transfer)
    BY <1>4, <1>5, TailSet
  <2> QED BY <2>1
<1>9. ToSet(queue[p]) = {x} \cup ToSet(l)
  BY <1>4, <1>5, <1>6, <1>8, TailSet
<1>10. PICK f : f = [Top EXCEPT !.at = "complete", !.pipe = p, !.x = x, !.how = how]
  OBVIOUS
<1>11. PICK s : s = Stop("rebuild", p)
  OBVIOUS
<1>12. Call(f, s) \/ Goto(f)
  BY <1>3, <1>6, <1>7, <1>10, <1>11 DEF ScanCompletes
<1>13. s \in FrameType /\ s.list = <<>> /\ s.at # "complete"
  BY <1>11, StopIs DEF Waits
<1>14. f \in FrameType /\ f.at = "complete" /\ f.pipe = p /\ f.x = x /\ f.list = <<>>
  BY <1>2, <1>10 DEF FrameType, Points, Scans
<1>15. Frames' = {f} \/ Frames' = {f, s}
  BY <1>1, <1>2, <1>12, <1>13, <1>14, GotoIs, CallIs DEF Core
<1>16. ToSet(<<>>) = {}
  BY DEF ToSet
<1>17. \A q, y : ~Aborting(q, y) /\ ~Completing(q, y) /\ ~Aborting(q, y)'
  BY <1>1, <1>2, <1>13, <1>14, <1>15, <1>16 DEF Aborting, Completing, Scans
<1>18. \A q, y : Completing(q, y)' <=> q = p /\ y = x
  BY <1>13, <1>14, <1>15 DEF Completing
<1>19. \A q \in Pipe : queue'[q] = IF q = p THEN l ELSE queue[q]
  BY <1>4, <1>5, <1>8
<1>20. \A q \in Pipe, y \in Transfer : WaitsOn(q, y)' <=> WaitsOn(q, y)
  BY <1>9, <1>17, <1>18, <1>19 DEF WaitsOn
<1>21. \A q, y, z : IssuedBefore(q, y, z)' <=> IssuedBefore(q, y, z)
  BY <1>1 DEF IssuedBefore, Unseen
<1>22. /\ Len(queue[p]) \in Nat \ {0} /\ queue[p][1] = x /\ Len(l) = Len(queue[p]) - 1
       /\ \A i \in 1 .. Len(l) : l[i] = queue[p][i + 1]
  BY <1>4, <1>5, <1>6, <1>8, TailIs
<1>23. DOMAIN l = 1 .. Len(l) /\ DOMAIN queue[p] = 1 .. Len(queue[p]) /\ Len(l) \in Nat
  BY <1>5
<1>24. \A q \in Pipe : \A y, z : QueuedBefore(q, y, z)' => QueuedBefore(q, y, z)
  <2> SUFFICES ASSUME NEW q \in Pipe, NEW y, NEW z, QueuedBefore(q, y, z)' PROVE QueuedBefore(q, y, z)
    OBVIOUS
  <2>1. CASE q # p
    BY <1>19, <2>1 DEF QueuedBefore
  <2>2. CASE q = p
    <3>1. PICK i \in 1 .. Len(l), j \in 1 .. Len(l) : i < j /\ l[i] = y /\ l[j] = z
      BY <1>19, <1>23, <2>2 DEF QueuedBefore
    <3>2. /\ i + 1 \in DOMAIN queue[p] /\ j + 1 \in DOMAIN queue[p] /\ i + 1 < j + 1
          /\ queue[p][i + 1] = y /\ queue[p][j + 1] = z
      BY <1>22, <1>23, <3>1
    <3> QED BY <2>2, <3>2 DEF QueuedBefore
  <2> QED BY <2>1, <2>2
<1>25. QueueInOrder'
  BY <1>21, <1>24 DEF Views, QueueInOrder
<1>26. \A y \in ToSet(l) : QueuedBefore(p, x, y)
  <2> SUFFICES ASSUME NEW y \in ToSet(l) PROVE QueuedBefore(p, x, y)
    OBVIOUS
  <2>1. PICK i \in 1 .. Len(l) : l[i] = y
    BY MemberIs
  <2>2. 1 \in DOMAIN queue[p] /\ i + 1 \in DOMAIN queue[p] /\ 1 < i + 1 /\ queue[p][i + 1] = y
    BY <1>22, <1>23, <2>1
  <2> QED BY <1>22, <2>2 DEF QueuedBefore
<1>27. CompletingFirst'
  <2> SUFFICES ASSUME NEW q \in Pipe, NEW y \in Transfer, NEW z \in Transfer,
                      Completing(q, y)', (z \in ToSet(queue[q]))'
               PROVE  IssuedBefore(q, y, z)'
    BY DEF CompletingFirst
  <2>1. q = p /\ y = x /\ z \in ToSet(l)
    BY <1>18, <1>19
  <2>2. IssuedBefore(p, x, z)
    BY <2>1, <1>26 DEF Views, QueueInOrder
  <2> QED BY <2>1, <2>2, <1>21
<1>28. Views'
  BY <1>1, <1>20, <1>25, <1>27, MovesKeep
<1> QED BY <1>1, <1>28, UnseenKeeps

(* Append1: the others in its queue are issued already.                    *)
LEMMA Append1View == ASSUME Core, Others, Views, Append1 PROVE Keeps
<1>0. /\ Enqueue /\ Return /\ Accept(Top.x, Top.pipe) /\ UNCHANGED results
  BY DEF Append1
<1>z. PICK p \in Pipe, x \in Transfer, t \in QTD : Enqueues(p, x, t)
  BY <1>0, EnqueueIs
<1>1. /\ p = Top.pipe /\ x = Top.x
      /\ stack # <<>> /\ Top.at = "fill" /\ Top.op = "submit" /\ HeldBy(Top) = {x}
      /\ Frames = {Top} \cup Rest
      /\ \A f \in Rest : f.op # "submit" /\ f.at = "callback" /\ x \notin HeldBy(f)
      /\ queue' = [queue EXCEPT ![p] = Append(queue[p], x)] /\ ~Queued(x)
  BY <1>z DEF Enqueues
<1>2. Frames' = Rest
  BY <1>0, <1>1, ReturnIs DEF Core
<1>3. Top \in Frames /\ FrameOK(Top) /\ Submits(Top)
  BY <1>1, TopIs, SubmitIs DEF Core
<1>4. status[x] = "new" /\ Top.list = <<>>
  BY <1>1, <1>3 DEF FrameOK, Submits
<1>5. Accept(x, p)
  BY <1>0, <1>1
<1>6. ToSet(<<>>) = {}
  BY DEF ToSet
<1>7. \A q, y : ~Completing(q, y) /\ ~Completing(q, y)' /\ (Aborting(q, y)' <=> Aborting(q, y))
  BY <1>1, <1>2, <1>4, <1>6 DEF Completing, Aborting
<1>8. PICK l \in Seq(Transfer) : l = queue[p]
  BY DEF Core, Queues
<1>9. \A q \in Pipe : queue'[q] = IF q = p THEN Append(l, x) ELSE queue[q]
  BY <1>1, <1>8 DEF Core, Queues
<1>10. ToSet(Append(l, x)) = ToSet(l) \cup {x}
  <2>1. x \notin ToSet(l)
    BY <1>1, <1>8 DEF Queued
  <2> QED BY <2>1, AppendSet
<1>11. \A q \in Pipe, y \in Transfer : WaitsOn(q, y)' <=> WaitsOn(q, y) \/ (q = p /\ y = x)
  BY <1>7, <1>8, <1>9, <1>10 DEF WaitsOn
<1>12. \A q \in Pipe : ~WaitsOn(q, x)
  <2>1. ~Queued(x)
    BY <1>1
  <2>2. \A q \in Pipe : ~Aborting(q, x)
    BY <1>1, <1>4, <1>6 DEF Aborting, HeldBy
  <2> QED BY <2>1, <2>2, <1>7 DEF WaitsOn, Queued
<1>13. \A y \in ToSet(l) : y \in Transfer /\ IssuedOn(p, y)
  <2> SUFFICES ASSUME NEW y \in ToSet(l) PROVE y \in Transfer /\ IssuedOn(p, y)
    OBVIOUS
  <2>1. y \in Transfer
    BY MemberIs
  <2>2. Queued(y) /\ y # x
    BY <1>1, <1>8 DEF Queued
  <2>3. ~Submitting(y)
    BY <1>1, <2>2 DEF Submitting
  <2>4. status[y] # "new"
    BY <2>1, <2>2, <2>3 DEF Core, Queues, Busy
  <2>5. WaitsOn(p, y)
    BY <1>8 DEF WaitsOn
  <2> QED BY <2>1, <2>4, <2>5 DEF Views, WaitersIssued
<1>14. /\ Len(l) \in Nat /\ DOMAIN l = 1 .. Len(l) /\ DOMAIN Append(l, x) = 1 .. Len(l) + 1
       /\ Append(l, x)[Len(l) + 1] = x
       /\ \A i \in 1 .. Len(l) : Append(l, x)[i] = l[i]
  BY AppendIs
<1>15. \A q \in Pipe, y, z \in Transfer : QueuedBefore(q, y, z)' =>
         QueuedBefore(q, y, z) \/ (q = p /\ z = x /\ IssuedOn(p, y))
  <2> SUFFICES ASSUME NEW q \in Pipe, NEW y \in Transfer, NEW z \in Transfer, QueuedBefore(q, y, z)'
               PROVE  QueuedBefore(q, y, z) \/ (q = p /\ z = x /\ IssuedOn(p, y))
    OBVIOUS
  <2>1. CASE q # p
    BY <1>9, <2>1 DEF QueuedBefore
  <2>2. CASE q = p
    <3>0. PICK a : a = Append(l, x)
      OBVIOUS
    <3>a. queue'[q] = a /\ DOMAIN a = 1 .. Len(l) + 1
      BY <1>9, <1>14, <2>2, <3>0
    <3>b. PICK i \in DOMAIN a, j \in DOMAIN a : i < j /\ a[i] = y /\ a[j] = z
      BY <3>a, Zenon DEF QueuedBefore
    <3>1. /\ i \in 1 .. Len(l) + 1 /\ j \in 1 .. Len(l) + 1
          /\ i < j /\ Append(l, x)[i] = y /\ Append(l, x)[j] = z
      BY <3>0, <3>a, <3>b
    <3>2. i \in 1 .. Len(l) /\ l[i] = y
      BY <1>14, <3>1
    <3>3. CASE j = Len(l) + 1
      <4>1. y \in ToSet(l)
        BY <3>2, MemberIs
      <4> QED BY <1>13, <1>14, <2>2, <3>1, <3>3, <4>1
    <3>4. CASE j # Len(l) + 1
      <4>1. j \in 1 .. Len(l) /\ l[j] = z
        BY <1>14, <3>1, <3>4
      <4> QED BY <1>8, <1>14, <2>2, <3>1, <3>2, <4>1 DEF QueuedBefore
    <3> QED BY <3>3, <3>4
  <2> QED BY <2>1, <2>2
<1>16. /\ Views' /\ ClientView!Accept(x, p)
       /\ ClientView!SuccessInOrder => ClientView!SuccessInOrder'
  <2>1. \A q \in Pipe : WaitsOn(q, x) => q = p
    BY <1>12
  <2>2. \A q \in Pipe, y \in Transfer : Completing(q, y)' => Completing(q, y)
    BY <1>7
  <2>3. \A q \in Pipe, y, z \in Transfer :
          Completing(q, y) /\ (z \in ToSet(queue[q]))' => z \in ToSet(queue[q])
    BY <1>7
  <2>4. UNCHANGED results
    BY <1>0
  <2> QED BY <1>4, <1>5, <1>11, <1>15, <2>1, <2>2, <2>3, <2>4, AcceptKeeps
<1> QED BY <1>16, AcceptedKeeps

(* AppendFirst: it waits before it is issued.                              *)
LEMMA AppendFirstView == ASSUME Core, Others, Views, AppendFirst PROVE Keeps
<1>0. Enqueue /\ queue[Top.pipe] = <<>> /\ Unseen
  BY DEF AppendFirst, clientVars, Unseen
<1>z. PICK p \in Pipe, x \in Transfer, t \in QTD : Enqueues(p, x, t)
  BY <1>0, EnqueueIs
<1>1. /\ p = Top.pipe /\ x = Top.x
      /\ stack # <<>> /\ Top.at = "fill" /\ Top.op = "submit" /\ HeldBy(Top) = {x}
      /\ Frames = {Top} \cup Rest
      /\ \A f \in Rest : f.op # "submit" /\ f.at = "callback" /\ x \notin HeldBy(f)
      /\ queue' = [queue EXCEPT ![p] = Append(queue[p], x)] /\ ~Queued(x)
  BY <1>z DEF Enqueues
<1>2. PICK f : f = [Top EXCEPT !.at = "check"]
  OBVIOUS
<1>3. PICK s : s = Stop("rebuild", p)
  OBVIOUS
<1>4. Call(f, s)
  BY <1>1, <1>2, <1>3 DEF AppendFirst
<1>5. s \in FrameType /\ s.list = <<>> /\ s.at # "complete"
  BY <1>3, StopIs DEF Waits
<1>6. Top \in FrameType /\ FrameOK(Top) /\ Submits(Top)
  BY <1>1, TopIs, SubmitIs DEF Core
<1>7. f \in FrameType /\ f.at = "check" /\ f.list = <<>>
  BY <1>2, <1>6 DEF FrameType, Points, Submits
<1>8. Frames' = {f, s} \cup Rest
  BY <1>1, <1>4, <1>5, <1>7, CallIs DEF Core
<1>9. ToSet(<<>>) = {}
  BY DEF ToSet
<1>10. \A q, y : ~Completing(q, y)'
  BY <1>1, <1>5, <1>7, <1>8 DEF Completing
<1>11. \A q, y : /\ ~Completing(q, y)
                 /\ Aborting(q, y)' <=> Aborting(q, y)
  <2>1. Top.list = <<>>
    BY <1>6 DEF Submits
  <2>2. \A q, y : ~Completing(q, y)
    BY <1>1 DEF Completing
  <2>3. \A q, y : Aborting(q, y)' <=> Aborting(q, y)
    BY <1>1, <1>5, <1>7, <1>8, <1>9, <2>1 DEF Aborting
  <2> QED BY <2>2, <2>3
<1>12. queue[p] = <<>> /\ Append(<<>>, x) = <<x>> /\ ToSet(<<x>>) = {x}
  BY <1>0, <1>1 DEF ToSet
<1>13. \A q \in Pipe : queue'[q] = IF q = p THEN <<x>> ELSE queue[q]
  BY <1>1, <1>12 DEF Core, Queues
<1>14. \A q \in Pipe, y \in Transfer : WaitsOn(q, y)' <=> WaitsOn(q, y) \/ (q = p /\ y = x)
  BY <1>9, <1>10, <1>11, <1>12, <1>13 DEF WaitsOn
<1>15. status[x] = "new" /\ results[x] = <<>>
  <2>1. status[x] = "new"
    BY <1>1, <1>6 DEF FrameOK
  <2> QED BY <2>1 DEF Views, ViewBase, ClientView!AnsweredOnce
<1>16. \A q, y : IssuedOn(q, y)' <=> IssuedOn(q, y)
  BY <1>0 DEF IssuedOn, Unseen
<1>17. ViewBase'
  BY <1>0 DEF Views, Unseen, ViewBase, IssuedOnce, ClientView!TypeOK, ClientView!AnsweredOnce
<1>18. WaitersIssued'
  BY <1>0, <1>14, <1>15, <1>16 DEF Views, WaitersIssued, Unseen
<1>19. UnansweredWait'
  BY <1>0, <1>14, <1>16 DEF Views, UnansweredWait, Unseen
<1>20. QueueInOrder'
  <2>1. \A i, j \in DOMAIN <<x>> : ~(i < j)
    OBVIOUS
  <2>2. \A y, z : ~QueuedBefore(p, y, z)'
    BY <1>13, <2>1 DEF QueuedBefore
  <2>3. \A q \in Pipe : \A y, z : QueuedBefore(q, y, z)' => QueuedBefore(q, y, z)
    BY <1>13, <2>2 DEF QueuedBefore
  <2> QED BY <1>0, <2>3 DEF Views, QueueInOrder, IssuedBefore, Unseen
<1>21. CompletingFirst'
  BY <1>10 DEF CompletingFirst
<1>22. Views'
  BY <1>17, <1>18, <1>19, <1>20, <1>21 DEF Views
<1> QED BY <1>0, <1>22, UnseenKeeps

(* A submission that waited for the schedule: its transaction is alone in  *)
(* its queue.                                                              *)
Checks(p, x) ==
  /\ p = Top.pipe /\ x = Top.x
  /\ queue[p] = <<x>> /\ status[x] = "new"
  /\ \A q \in Pipe : WaitsOn(q, x) <=> q = p
  /\ \A q, y : /\ ~Completing(q, y) /\ ~Completing(q, y)'
               /\ Aborting(q, y)' <=> Aborting(q, y)

(* The submission that has waited.                                         *)
LEMMA CheckIs ==
  ASSUME Core, Others, Runs("check"), Return
  PROVE  \E p \in Pipe, x \in Transfer : Checks(p, x)
<1>1. stack # <<>> /\ Top.at = "check"
  BY DEF Runs
<1>2. /\ Submits(Top) /\ BelowSubmit(Tail(stack)) /\ FrameOK(Top)
      /\ Frames = {Top} \cup Rest /\ Frames' = Rest
  BY <1>1, SubmitIs, TopIs, ReturnIs DEF Core
<1>3. \A f \in Rest : f.at = "callback"
  BY <1>1, <1>2, BelowIs DEF Core
<1>4. PICK p \in Pipe : p = Top.pipe
  BY <1>2 DEF Submits
<1>5. PICK x \in Transfer : x = Top.x
  BY <1>2 DEF Submits
<1>6. queue[p] = <<x>> /\ status[x] = "new" /\ Top.list = <<>>
  BY <1>1, <1>2, <1>4, <1>5 DEF FrameOK, Submits
<1>7. ToSet(<<>>) = {} /\ ToSet(<<x>>) = {x}
  BY DEF ToSet
<1>8. \A q, y : ~Completing(q, y) /\ ~Completing(q, y)'
  BY <1>1, <1>2, <1>3 DEF Completing
<1>9. \A q, y : Aborting(q, y)' <=> Aborting(q, y)
  BY <1>2, <1>6, <1>7 DEF Aborting
<1>10. Queued(x)
  BY <1>6, <1>7 DEF Queued
<1>11. \A q : ~Aborting(q, x)
  BY <1>10 DEF Aborting, Core, CallsOK, FrameOK, HeldBy
<1>12. \A q \in Pipe : x \in ToSet(queue[q]) <=> q = p
  BY <1>6, <1>7 DEF Core, Queues
<1>13. \A q \in Pipe : WaitsOn(q, x) <=> q = p
  BY <1>8, <1>11, <1>12 DEF WaitsOn
<1>14. Checks(p, x)
  BY <1>4, <1>5, <1>6, <1>8, <1>9, <1>13 DEF Checks
<1> QED BY <1>14

(* Submitted: it is issued, as the only one that waits.                    *)
LEMMA SubmittedView == ASSUME Core, Others, Views, Submitted PROVE Keeps
<1>1. Runs("check") /\ Return /\ Accept(Top.x, Top.pipe) /\ UNCHANGED <<results, queue>>
  BY DEF Submitted, driverVars
<1>2. PICK p \in Pipe, x \in Transfer : Checks(p, x)
  BY <1>1, CheckIs
<1>3. Accept(x, p) /\ status[x] = "new"
  BY <1>1, <1>2 DEF Checks
<1>4. \A q \in Pipe, y \in Transfer : WaitsOn(q, y)' <=> WaitsOn(q, y) \/ (q = p /\ y = x)
  BY <1>1, <1>2 DEF Checks, WaitsOn
<1>5. /\ Views' /\ ClientView!Accept(x, p)
      /\ ClientView!SuccessInOrder => ClientView!SuccessInOrder'
  <2>1. \A q \in Pipe : WaitsOn(q, x) => q = p
    BY <1>2 DEF Checks
  <2>2. \A q \in Pipe, y \in Transfer : Completing(q, y)' => Completing(q, y)
    BY <1>2 DEF Checks
  <2>3. \A q \in Pipe, y, z \in Transfer :
          Completing(q, y) /\ (z \in ToSet(queue[q]))' => z \in ToSet(queue[q])
    BY <1>1
  <2>4. UNCHANGED results
    BY <1>1
  <2>5. \A q \in Pipe, y, z \in Transfer : QueuedBefore(q, y, z)' =>
          QueuedBefore(q, y, z) \/ (q = p /\ z = x /\ IssuedOn(p, y))
    BY <1>1 DEF QueuedBefore
  <2> QED BY <1>3, <1>4, <2>1, <2>2, <2>3, <2>4, <2>5, AcceptKeeps
<1> QED BY <1>5, AcceptedKeeps

(* RollBack: it was not issued, and nothing waits behind it.               *)
LEMMA RollBackView == ASSUME Core, Others, Views, RollBack PROVE Keeps
<1>1. /\ Runs("check") /\ Return /\ UNCHANGED <<results, issued>>
      /\ queue' = [queue EXCEPT ![Top.pipe] = <<>>]
      /\ status' = [status EXCEPT ![Top.x] = "refused"]
  BY DEF RollBack
<1>2. PICK p \in Pipe, x \in Transfer : Checks(p, x)
  BY <1>1, CheckIs
<1>3. /\ queue' = [queue EXCEPT ![p] = <<>>] /\ status' = [status EXCEPT ![x] = "refused"]
      /\ queue[p] = <<x>> /\ status[x] = "new"
  BY <1>1, <1>2 DEF Checks
<1>4. \A q \in Pipe : queue'[q] = IF q = p THEN <<>> ELSE queue[q]
  BY <1>3 DEF Core, Queues
<1>5. ToSet(<<>>) = {} /\ ToSet(<<x>>) = {x}
  BY DEF ToSet
<1>6. \A q \in Pipe, y \in Transfer : (y \in ToSet(queue[q]))' <=> y \in ToSet(queue[q]) /\ (q = p => y # x)
  BY <1>3, <1>4, <1>5
<1>7. \A q \in Pipe, y \in Transfer : WaitsOn(q, y)' <=> WaitsOn(q, y) /\ y # x
  <2> SUFFICES ASSUME NEW q \in Pipe, NEW y \in Transfer PROVE WaitsOn(q, y)' <=> WaitsOn(q, y) /\ y # x
    OBVIOUS
  <2>1. CASE y # x
    BY <1>2, <1>6, <2>1 DEF Checks, WaitsOn
  <2>2. CASE y = x
    <3>1. ~Aborting(q, x)
      <4>1. Queued(x)
        BY <1>3, <1>5 DEF Queued
      <4> QED BY <4>1 DEF Aborting, Core, CallsOK, FrameOK, HeldBy
    <3>2. x \in ToSet(queue[q]) => q = p
      BY <1>2 DEF Checks, WaitsOn
    <3> QED BY <1>2, <1>6, <2>2, <3>1, <3>2 DEF Checks, WaitsOn
  <2> QED BY <2>1, <2>2
<1>8. /\ Views' /\ ClientView!Refuse(x)
      /\ ClientView!SuccessInOrder => ClientView!SuccessInOrder'
  <2>1. \A q \in Pipe, y \in Transfer : Completing(q, y)' => Completing(q, y)
    BY <1>2 DEF Checks
  <2>2. \A q \in Pipe, y, z \in Transfer : QueuedBefore(q, y, z)' => QueuedBefore(q, y, z)
    BY <1>4 DEF QueuedBefore
  <2>3. \A q \in Pipe, y \in Transfer : (y \in ToSet(queue[q]))' => y \in ToSet(queue[q])
    BY <1>6
  <2>4. UNCHANGED <<results, issued>>
    BY <1>1
  <2> QED BY <1>3, <1>7, <2>1, <2>2, <2>3, <2>4, RefuseKeeps
<1> QED BY <1>8, RefusedKeeps

(* SubmitFails: it was nowhere.                                            *)
LEMMA SubmitFailsView ==
  ASSUME Core, Others, Views, NEW x \in Transfer, NEW p \in Pipe, NEW n \in 1 .. MaxChunks,
         SubmitFails(x, p, n)
  PROVE  Keeps
<1>1. /\ MaySubmit(x) /\ status' = [status EXCEPT ![x] = "refused"]
      /\ UNCHANGED <<results, issued>> /\ UNCHANGED <<queue, stack>>
  BY DEF SubmitFails
<1>2. status[x] = "new" /\ ~Busy(x)
  BY <1>1, MaySubmitIs
<1>3. \A q \in Pipe : ~WaitsOn(q, x)
  BY <1>2, WaiterBusy
<1>4. \A q, y : (Completing(q, y)' <=> Completing(q, y)) /\ (Aborting(q, y)' <=> Aborting(q, y))
  BY <1>1 DEF Completing, Aborting, Frames
<1>5. \A q \in Pipe, y \in Transfer : WaitsOn(q, y)' <=> WaitsOn(q, y) /\ y # x
  BY <1>1, <1>3, <1>4 DEF WaitsOn
<1>6. /\ Views' /\ ClientView!Refuse(x)
      /\ ClientView!SuccessInOrder => ClientView!SuccessInOrder'
  <2>1. \A q \in Pipe, y \in Transfer : Completing(q, y)' => Completing(q, y)
    BY <1>4
  <2>2. \A q \in Pipe, y, z \in Transfer : QueuedBefore(q, y, z)' => QueuedBefore(q, y, z)
    BY <1>1 DEF QueuedBefore
  <2>3. \A q \in Pipe, y \in Transfer : (y \in ToSet(queue[q]))' => y \in ToSet(queue[q])
    BY <1>1
  <2>4. UNCHANGED <<results, issued>>
    BY <1>1
  <2> QED BY <1>1, <1>2, <1>5, <2>1, <2>2, <2>3, <2>4, RefuseKeeps
<1> QED BY <1>6, RefusedKeeps

(* Unlink: what completions have queued is dropped; nothing else waits.    *)
LEMMA UnlinkView == ASSUME Core, Others, Views, Unlink PROVE Keeps
<1>1. /\ stack # <<>> /\ Top.at \in {"stopping", "stopped"} /\ Top.op = "unlink"
      /\ UNCHANGED <<status, results>>
  BY DEF Unlink, Stopped, Runs
<1>2. /\ Top.pipe \in Pipe /\ Top.list = <<>> /\ Tail(stack) = <<>>
      /\ Top \in FrameType
  BY <1>1, WaitIs, TopIs DEF Core, Waiting
<1>3. PICK p \in Pipe : p = Top.pipe
  BY <1>2
<1>4. PICK g : g = [Top EXCEPT !.at = "starting"]
  OBVIOUS
<1>5. /\ Goto(g) /\ queue' = [queue EXCEPT ![p] = <<>>]
      /\ issued' = [issued EXCEPT ![p] = <<>>]
  BY <1>3, <1>4 DEF Unlink, Start
<1>6. g \in FrameType /\ g.at = "starting" /\ g.list = <<>>
  BY <1>1, <1>2, <1>4 DEF FrameType, Points
<1>7. Frames' = {g} /\ Frames = {Top}
  BY <1>1, <1>2, <1>5, <1>6, GotoIs, RestIs DEF Core
<1>8. ToSet(<<>>) = {}
  BY DEF ToSet
<1>9. \A q, y : ~Aborting(q, y) /\ ~Completing(q, y) /\ ~Aborting(q, y)' /\ ~Completing(q, y)'
  BY <1>1, <1>2, <1>6, <1>7, <1>8 DEF Aborting, Completing
<1>10. \A q \in Pipe : queue'[q] = IF q = p THEN <<>> ELSE queue[q]
  BY <1>5 DEF Core, Queues
<1>11. \A q \in Pipe : issued'[q] = IF q = p THEN <<>> ELSE issued[q]
  BY <1>5 DEF Others
<1>12. ClientView!Delete(p)
  BY <1>1, <1>5 DEF ClientView!Delete
<1>13. ViewBase' /\ (ClientView!SuccessInOrder => ClientView!SuccessInOrder')
  BY <1>12, DeleteView DEF Views
<1>14. \A q \in Pipe : \A y : WaitsOn(q, y)' <=> WaitsOn(q, y) /\ q # p
  BY <1>8, <1>9, <1>10 DEF WaitsOn
<1>15. \A q \in Pipe : \A y : IssuedOn(q, y)' <=> IssuedOn(q, y) /\ q # p
  BY <1>11 DEF IssuedOn
<1>16. WaitersIssued'
  BY <1>1, <1>14, <1>15 DEF Views, WaitersIssued
<1>17. UnansweredWait'
  BY <1>1, <1>14, <1>15 DEF Views, UnansweredWait
<1>18. QueueInOrder'
  <2>1. \A q \in Pipe : \A y, z : QueuedBefore(q, y, z)' => QueuedBefore(q, y, z) /\ q # p
    BY <1>10 DEF QueuedBefore
  <2>2. \A q \in Pipe : \A y, z : q # p => (IssuedBefore(q, y, z)' <=> IssuedBefore(q, y, z))
    BY <1>11 DEF IssuedBefore
  <2> QED BY <2>1, <2>2 DEF Views, QueueInOrder
<1>19. CompletingFirst'
  BY <1>9 DEF CompletingFirst
<1>20. Views'
  BY <1>13, <1>16, <1>17, <1>18, <1>19 DEF Views
<1> QED BY <1>12, <1>13, <1>20 DEF Keeps, Seen

(* Clients see the USB pipe.                                               *)
LEMMA ViewStep == ASSUME AsyncInv, Views, [Next]_vars PROVE Keeps
<1>0. Core /\ Others
  BY DEF AsyncInv, Core
<1>1. CASE Client
  BY <1>0, <1>1, QuietCallsView, UnseenKeeps, AbortView, SubmitFailsView DEF Client
<1>2. CASE GateStep
  BY <1>0, <1>2, QuietView, UnseenKeeps, AbortNextView, UnlinkView, Append1View, AppendFirstView,
     SubmittedView, RollBackView, ScanCompletesView, CompleteView DEF GateStep
<1>3. CASE HandleInterrupt \/ HcStops \/ HcStarts \/ UNCHANGED vars \/ \E p \in Pipe : HcStep(p)
  BY <1>0, <1>3, QuietView, UnseenKeeps
<1> QED BY <1>1, <1>2, <1>3 DEF Next

(* They hold at first.                                                     *)
LEMMA InitViews == Init => Views /\ ClientView!SuccessInOrder /\ ClientView!Init
<1> SUFFICES ASSUME Init PROVE Views /\ ClientView!SuccessInOrder /\ ClientView!Init
  OBVIOUS
<1>1. ToSet(<<>>) = {} /\ stack = <<>>
  BY DEF ToSet, Init
<1>2. Frames = {}
  BY <1>1, EmptyIs
<1>3. /\ \A p \in Pipe : queue[p] = <<>> /\ issued[p] = <<>>
      /\ \A x \in Transfer : status[x] = "new" /\ results[x] = <<>>
  BY DEF Init
<1>4. \A p \in Pipe : \A x : ~WaitsOn(p, x) /\ ~IssuedOn(p, x) /\ ~Completing(p, x)
  BY <1>1, <1>2, <1>3 DEF WaitsOn, Aborting, Completing, IssuedOn
<1>5. \A p \in Pipe : \A x, y : ~QueuedBefore(p, x, y)
  BY <1>3 DEF QueuedBefore
<1>6. ClientView!TypeOK
  <2>1. <<>> \in Seq({"ok", "error", "aborted"}) /\ <<>> \in Seq(Transfer)
    OBVIOUS
  <2> QED BY <2>1 DEF Init, ClientView!TypeOK
<1>7. ViewBase
  BY <1>3, <1>6 DEF ViewBase, IssuedOnce, ClientView!AnsweredOnce
<1>8. Views
  BY <1>4, <1>5, <1>7 DEF Views, WaitersIssued, UnansweredWait, QueueInOrder, CompletingFirst
<1>9. ClientView!SuccessInOrder
  BY <1>3 DEF ClientView!SuccessInOrder
<1>10. ClientView!Init
  BY DEF Init, ClientView!Init
<1> QED BY <1>8, <1>9, <1>10

(* They are inductive.                                                     *)
LEMMA ViewsHold == Spec => [](Views /\ ClientView!SuccessInOrder)
<1>1. Init => Views /\ ClientView!SuccessInOrder
  BY InitViews
<1>2. AsyncInv /\ Views /\ ClientView!SuccessInOrder /\ [Next]_vars
        => Views' /\ ClientView!SuccessInOrder'
  BY ViewStep DEF Keeps
<1> QED BY <1>1, <1>2, AsyncInvAlways, PTL DEF Spec

(* For any pipes, transfers and pool, whatever completions submit and      *)
(* however often the waits for the schedule time out: every step is one of *)
(* the abstract USB pipe of USBPipe or invisible to clients.  A submission *)
(* is refused or accepted in order, an accepted transfer is answered once, *)
(* with success only after everything accepted earlier; a deletion may drop *)
(* what is queued (submitAsyncTransfer, completeAsyncTransactions,         *)
(* abortEndpointTransactions, releaseEndpointState).                       *)
THEOREM AsyncIsPipe == Spec => ImplementsPipe
<1>1. Init => ClientView!Init
  BY InitViews
<1>2. AsyncInv /\ Views /\ [Next]_vars
        => [ClientView!DeletingNext]_(ClientView!vars)
  BY ViewStep DEF Keeps, Seen, Unseen, ClientView!vars, ClientView!DeletingNext
<1> QED BY <1>1, <1>2, ViewsHold, AsyncInvAlways, PTL DEF Spec, ImplementsPipe, ClientView!DeletingSpec

(* So a completion is called once, for what was accepted, and a success says *)
(* that all that was accepted earlier on the pipe has been answered, though *)
(* driver and controller see them through queue heads that are rebuilt     *)
(* (completeAsyncTransactions, abortEndpointTransactions).                 *)
THEOREM AsyncSuccessInOrder == Spec => [](ClientView!AnsweredOnce /\ ClientView!SuccessInOrder)
<1>1. Views => ClientView!AnsweredOnce
  BY DEF Views, ViewBase
<1> QED BY <1>1, ViewsHold, PTL

(* The driver forgets nothing but in a deletion: an accepted transfer that *)
(* is not answered is in the queue of its pipe or held by a call that is   *)
(* about to answer it (submitAsyncTransfer, abortEndpointTransactions,     *)
(* completeAsyncTransactions).                                             *)
THEOREM NothingForgotten == Spec => []UnansweredWait
<1>1. Views => UnansweredWait
  BY DEF Views
<1> QED BY <1>1, ViewsHold, PTL

-----------------------------------------------------------------------------
(* Deleting a pipe finds it empty.                                         *)
Deletes(f) == f.op \in {"delete", "unlink"}
DeletedEmpty ==
  \A f \in Frames : Deletes(f) => queue[f.pipe] = <<>> /\ \A g \in Frames : g.op # "submit"

(* Calls become what they were.                                            *)
LEMMA DeletedStays ==
  ASSUME DeletedEmpty, UNCHANGED queue,
         \A g \in Frames' : Deletes(g) => \E f \in Frames : Deletes(f) /\ f.pipe = g.pipe,
         \A g \in Frames' : g.op = "submit" => \E f \in Frames : f.op = "submit"
  PROVE  DeletedEmpty'
BY DEF DeletedEmpty

(* No pipe is being deleted.                                               *)
LEMMA NoDeletes == ASSUME \A f \in Frames' : ~Deletes(f) PROVE DeletedEmpty'
BY DEF DeletedEmpty

(* The running call goes on, or returns.                                   *)
LEMMA GotoDeleted ==
  ASSUME Core, DeletedEmpty, stack # <<>>, NEW g \in FrameType, Goto(g), UNCHANGED queue,
         Deletes(g) => Deletes(Top) /\ g.pipe = Top.pipe, g.op = "submit" => Top.op = "submit"
  PROVE  DeletedEmpty'
<1>1. Frames = {Top} \cup Rest
  BY TopIs DEF Core
<1>2. Frames' = {g} \cup Rest
  BY GotoIs DEF Core
<1>3. \A h \in Frames' : Deletes(h) => \E f \in Frames : Deletes(f) /\ f.pipe = h.pipe
  BY <1>1, <1>2
<1>4. \A h \in Frames' : h.op = "submit" => \E f \in Frames : f.op = "submit"
  BY <1>1, <1>2
<1> QED BY <1>3, <1>4, DeletedStays

LEMMA ReturnDeleted ==
  ASSUME Core, DeletedEmpty, stack # <<>>, Return, UNCHANGED queue
  PROVE  DeletedEmpty'
<1>1. Frames' = Rest /\ Frames = {Top} \cup Rest
  BY ReturnIs, TopIs DEF Core
<1> QED BY <1>1, DeletedStays

(* A call goes on with what it is about.                                   *)
LEMMA DeletedGoes ==
  ASSUME Core, Others, DeletedEmpty,
         \/ Rebuild \/ Link \/ AbortNext \/ DeleteAborted \/ Fill \/ ScanSkips
         \/ Complete \/ CallbackReturns
  PROVE  DeletedEmpty'
<1>0. stack # <<>> /\ UNCHANGED queue /\ Top \in FrameType
  <2>1. stack # <<>> /\ UNCHANGED queue
    BY DEF Rebuild, Link, AbortNext, DeleteAborted, Fill, ScanSkips, Complete, CallbackReturns, Stopped,
           Runs, driverVars
  <2> QED BY <2>1, TopIs DEF Core
<1>1. CASE Rebuild \/ Link
  <2>1. PICK g : g = [Top EXCEPT !.at = "starting"]
    OBVIOUS
  <2>2. g \in FrameType /\ g.op = Top.op /\ g.pipe = Top.pipe
    BY <1>0, <2>1 DEF FrameType, Points
  <2>3. Goto(g)
    BY <1>1, <2>1 DEF Rebuild, Link, Start
  <2> QED BY <1>0, <2>2, <2>3, GotoDeleted DEF Deletes
<1>2. CASE AbortNext
  <2>1. PICK g : g = [Top EXCEPT !.at = "callback", !.x = Head(Top.list), !.list = Tail(Top.list)]
    OBVIOUS
  <2>2. /\ Head(Top.list) \in Transfer /\ Tail(Top.list) \in Seq(Transfer)
    <3>1. Top.list \in Seq(Transfer) /\ Top.list # <<>>
      BY <1>0, <1>2 DEF FrameType, AbortNext
    <3> QED BY <3>1
  <2>3. g \in FrameType /\ g.op = Top.op /\ g.pipe = Top.pipe
    BY <1>0, <2>1, <2>2 DEF FrameType, Points
  <2>4. Goto(g)
    BY <1>2, <2>1 DEF AbortNext
  <2> QED BY <1>0, <2>3, <2>4, GotoDeleted DEF Deletes
<1>3. CASE DeleteAborted
  <2>1. PICK p \in Pipe : p = Top.pipe
    BY <1>0, <1>3, AbortIs DEF Core, Aborts, DeleteAborted, Runs
  <2>2. PICK g : g = Stop("unlink", p)
    OBVIOUS
  <2>3. Goto(g) /\ Top.op = "delete"
    BY <1>3, <2>1, <2>2 DEF DeleteAborted
  <2>4. g \in FrameType /\ g.op = "unlink" /\ g.pipe = p
    BY <2>2, StopIs
  <2> QED BY <1>0, <2>1, <2>3, <2>4, GotoDeleted DEF Deletes
<1>4. CASE Fill
  <2>1. PICK k : k = Top.filled + 1
    OBVIOUS
  <2>2. PICK g : g = [Top EXCEPT !.filled = k]
    OBVIOUS
  <2>3. Top.at = "fill" /\ k <= Len(chunks[Top.x]) /\ Goto(g)
    BY <1>4, <2>1, <2>2 DEF Fill, Runs
  <2>4. Submits(Top) /\ FrameOK(Top)
    BY <1>0, <2>3, SubmitIs, TopIs DEF Core
  <2>5. k \in 0 .. MaxChunks
    <3>1. Top.filled \in 0 .. MaxChunks
      BY <1>0 DEF FrameType
    <3>2. Len(chunks[Top.x]) <= MaxChunks /\ Len(chunks[Top.x]) \in Nat
      BY <2>3, <2>4, LengthIs DEF FrameOK, Submits, Core, QTDs
    <3> QED BY <2>1, <2>3, <3>1, <3>2, Constants
  <2>6. g \in FrameType /\ g.op = Top.op /\ g.pipe = Top.pipe
    BY <1>0, <2>2, <2>5 DEF FrameType
  <2> QED BY <1>0, <2>3, <2>6, GotoDeleted DEF Deletes
<1>5. CASE ScanSkips
  <2>1. PICK g : g = [Top EXCEPT !.left = Tail(@)]
    OBVIOUS
  <2>2. Tail(Top.left) \in Seq(Pipe)
    <3>1. Top.left \in Seq(Pipe) /\ Top.left # <<>>
      BY <1>0, <1>5 DEF FrameType, ScanSkips
    <3> QED BY <3>1
  <2>3. g \in FrameType /\ g.op = Top.op /\ g.pipe = Top.pipe
    BY <1>0, <2>1, <2>2 DEF FrameType
  <2>4. Goto(g)
    BY <1>5, <2>1 DEF ScanSkips
  <2> QED BY <1>0, <2>3, <2>4, GotoDeleted DEF Deletes
<1>6. CASE Complete
  <2>1. PICK g : g = [Top EXCEPT !.at = "callback"]
    OBVIOUS
  <2>2. g \in FrameType /\ g.op = Top.op /\ g.pipe = Top.pipe
    BY <1>0, <2>1 DEF FrameType, Points
  <2>3. Goto(g)
    BY <1>6, <2>1 DEF Complete
  <2> QED BY <1>0, <2>2, <2>3, GotoDeleted DEF Deletes
<1>7. CASE CallbackReturns
  <2>1. PICK a : a = IF Top.op = "scan" THEN "scan" ELSE "abort"
    OBVIOUS
  <2>2. PICK g : g = [Top EXCEPT !.at = a, !.x = None, !.how = "none", !.left = open]
    OBVIOUS
  <2>3. Goto(g) /\ open \in Seq(Pipe)
    BY <1>7, <2>1, <2>2 DEF CallbackReturns, Core, Queues
  <2>4. a \in {"scan", "abort"}
    BY <2>1
  <2>5. g \in FrameType /\ g.op = Top.op /\ g.pipe = Top.pipe
    BY <1>0, <2>2, <2>3, <2>4 DEF FrameType, Points
  <2> QED BY <1>0, <2>3, <2>5, GotoDeleted DEF Deletes
<1> QED BY <1>1, <1>2, <1>3, <1>4, <1>5, <1>6, <1>7

(* Under a submission there is a completion, and clients do not submit     *)
(* from those of a delete.                                                 *)
LEMMA SubmitDeleted ==
  ASSUME "delete" \notin ResubmitIn, Core, NEW x \in Transfer, NEW p \in Pipe, NEW n \in 1 .. MaxChunks,
         Submit(x, p, n)
  PROVE  DeletedEmpty'
<1>1. \A f \in Frames : ~Deletes(f)
  <2>1. CASE stack = <<>>
    BY <2>1, EmptyIs
  <2>2. CASE stack # <<>>
    <3>1. Runs("callback") /\ Top.op \in ResubmitIn
      BY <2>2 DEF Submit, MaySubmit
    <3>2. (Scans(Top) \/ Aborts(Top)) /\ Frames = {Top}
      BY <2>2, <3>1, CallbackIs, RestIs DEF Core, Runs
    <3> QED BY <3>1, <3>2 DEF Scans, Aborts, Deletes
  <2> QED BY <2>1, <2>2
<1>2. PICK f : f = Frame("fill", "submit", p)
  OBVIOUS
<1>3. PICK t \in QTD : t = free[n]
  <2>1. free \in Seq(QTD) /\ Len(free) >= n
    BY DEF Submit, Core, QTDs
  <2> QED BY <2>1
<1>4. f \in FrameType /\ f.op = "submit"
  BY <1>2, FrameIs DEF Points, Calls, Frame
<1>5. PICK g : g = [f EXCEPT !.x = x, !.new = t]
  OBVIOUS
<1>6. g \in FrameType /\ g.op = "submit"
  BY <1>4, <1>5 DEF FrameType
<1>7. stack' = <<g>> \o stack
  BY <1>2, <1>3, <1>5 DEF Submit
<1>8. Frames' = {g} \cup Frames
  BY <1>6, <1>7, PushedIs DEF Core
<1> QED BY <1>1, <1>6, <1>8, NoDeletes DEF Deletes

(* A transaction is queued where no pipe is being deleted.                 *)
LEMMA EnqueueDeleted ==
  ASSUME Core, Others, DeletedEmpty, Append1 \/ AppendFirst \/ Submitted \/ RollBack
  PROVE  DeletedEmpty'
<1>1. stack # <<>> /\ Top.at \in {"fill", "check"}
  BY DEF Append1, AppendFirst, Enqueue, Filled, Submitted, RollBack, Runs
<1>2. Submits(Top) /\ Top \in FrameType /\ Frames = {Top} \cup Rest
  BY <1>1, SubmitIs, TopIs DEF Core
<1>3. \A f \in Frames : ~Deletes(f)
  BY <1>2 DEF DeletedEmpty, Submits
<1>4. CASE Append1 \/ Submitted \/ RollBack
  <2>1. Frames' = Rest
    BY <1>1, <1>4, ReturnIs DEF Core, Append1, Submitted, RollBack
  <2> QED BY <1>2, <1>3, <2>1, NoDeletes
<1>5. CASE AppendFirst
  <2>1. PICK p \in Pipe : p = Top.pipe
    BY <1>2 DEF Submits
  <2>2. PICK f : f = [Top EXCEPT !.at = "check"]
    OBVIOUS
  <2>3. PICK s : s = Stop("rebuild", p)
    OBVIOUS
  <2>4. Call(f, s)
    BY <1>5, <2>1, <2>2, <2>3 DEF AppendFirst
  <2>5. s \in FrameType /\ s.op = "rebuild"
    BY <2>3, StopIs
  <2>6. f \in FrameType /\ f.op = "submit"
    BY <1>2, <2>2 DEF FrameType, Points, Submits
  <2>7. Frames' = {f, s} \cup Rest
    BY <1>1, <2>4, <2>5, <2>6, CallIs DEF Core
  <2> QED BY <1>2, <1>3, <2>5, <2>6, <2>7, NoDeletes DEF Deletes
<1> QED BY <1>4, <1>5

(* It is inductive.                                                        *)
LEMMA DeletedStep ==
  ASSUME "delete" \notin ResubmitIn, Core, Others, DeletedEmpty, [Next]_vars
  PROVE  DeletedEmpty'
<1>1. ASSUME NEW p \in Pipe, Create(p) \/ ClearStall(p) \/ DeleteEmpty(p) PROVE DeletedEmpty'
  <2>1. PICK op \in {"link", "rebuild", "unlink"} : stack' = <<Stop(op, p)>> /\ (op = "unlink" => queue[p] = <<>>)
    BY <1>1 DEF Create, ClearStall, DeleteEmpty
  <2>2. PICK g : g = Stop(op, p)
    OBVIOUS
  <2>3. g \in FrameType /\ g.op = op /\ g.pipe = p
    BY <2>2, StopIs
  <2>4. UNCHANGED queue
    BY <1>1 DEF Create, ClearStall, DeleteEmpty, driverVars
  <2>5. Frames' = {g}
    BY <2>1, <2>2, <2>3, FirstIs
  <2> QED BY <2>1, <2>3, <2>4, <2>5 DEF DeletedEmpty, Deletes
<1>2. ASSUME NEW p \in Pipe, NEW op \in {"abort", "delete"}, Abort(p, op) PROVE DeletedEmpty'
  <2>1. PICK s : s = Stop("rebuild", p)
    OBVIOUS
  <2>2. PICK a : a = [Frame("abort", op, p) EXCEPT !.list = queue[p]]
    OBVIOUS
  <2>3. stack' = <<s, a>>
    BY <1>2, <2>1, <2>2 DEF Abort
  <2>4. s.op = "rebuild"
    BY <2>1, StopIs
  <2>5. a.op = op /\ a.pipe = p
    BY <2>2 DEF Frame
  <2>6. queue'[p] = <<>>
    BY <1>2 DEF Abort, Core, Queues
  <2>7. Frames' = {s, a}
    BY <2>3 DEF Frames, ToSet
  <2> QED BY <2>4, <2>5, <2>6, <2>7 DEF DeletedEmpty, Deletes
<1>3. ASSUME NEW x \in Transfer, NEW p \in Pipe, NEW n \in 1 .. MaxChunks, SubmitFails(x, p, n)
      PROVE  DeletedEmpty'
  <2>1. UNCHANGED <<queue, stack>>
    BY <1>3 DEF SubmitFails
  <2> QED BY <2>1 DEF DeletedEmpty, Frames
<1>4. CASE Client
  BY <1>1, <1>2, <1>3, <1>4, SubmitDeleted DEF Client
<1>5. ASSUME HandleInterrupt PROVE DeletedEmpty'
  <2>1. PICK g : g = [Frame("scan", "scan", None) EXCEPT !.left = open]
    OBVIOUS
  <2>2. stack' = <<g>>
    BY <1>5, <2>1 DEF HandleInterrupt
  <2>3. g.op = "scan"
    BY <2>1 DEF Frame
  <2>4. Frames' = {g}
    BY <2>2 DEF Frames, ToSet
  <2> QED BY <2>3, <2>4, NoDeletes DEF Deletes
<1>6. CASE HcStops \/ HcStarts \/ UNCHANGED vars \/ \E p \in Pipe : HcStep(p)
  <2>1. UNCHANGED <<queue, stack>>
    BY <1>6 DEF HcStops, HcStarts, HcStep, HcFetch, HcRetire, vars, driverVars
  <2> QED BY <2>1 DEF DeletedEmpty, Frames
<1>7. ASSUME Started \/ WaitTimesOut \/ AbortEnds \/ ScanEnds PROVE DeletedEmpty'
  <2>1. stack # <<>> /\ Return /\ UNCHANGED queue
    BY <1>7 DEF Started, WaitTimesOut, AbortEnds, ScanEnds, Runs, driverVars
  <2> QED BY <2>1, ReturnDeleted
<1>8. ASSUME Unlink PROVE DeletedEmpty'
  <2>1. stack # <<>> /\ Top.at \in Waiting /\ Top.op = "unlink"
    BY <1>8 DEF Unlink, Stopped, Runs, Waiting
  <2>2. Top.pipe \in Pipe /\ Tail(stack) = <<>> /\ Top \in FrameType /\ Rest = {}
    BY <2>1, WaitIs, TopIs, RestIs DEF Core
  <2>3. PICK p \in Pipe : p = Top.pipe
    BY <2>2
  <2>4. PICK g : g = [Top EXCEPT !.at = "starting"]
    OBVIOUS
  <2>5. Goto(g) /\ queue' = [queue EXCEPT ![p] = <<>>]
    BY <1>8, <2>3, <2>4 DEF Unlink, Start
  <2>6. g \in FrameType /\ g.op = "unlink" /\ g.pipe = p
    BY <2>1, <2>2, <2>3, <2>4 DEF FrameType, Points
  <2>7. Frames' = {g}
    BY <2>1, <2>2, <2>5, <2>6, GotoIs DEF Core
  <2>8. queue'[p] = <<>>
    BY <2>5 DEF Core, Queues
  <2> QED BY <2>6, <2>7, <2>8 DEF DeletedEmpty
<1>9. ASSUME ScanCompletes PROVE DeletedEmpty'
  <2>1. stack # <<>> /\ Top.at = "scan" /\ Top.left # <<>>
    BY <1>9 DEF ScanCompletes, Runs
  <2>2. /\ Scans(Top) /\ Tail(stack) = <<>> /\ Top \in FrameType
        /\ Frames = {Top} /\ Rest = {}
    BY <2>1, ScanIs, TopIs, RestIs DEF Core
  <2>3. PICK p \in Pipe : p = Head(Top.left)
    <3>1. Top.left \in Seq(Pipe)
      BY <2>2 DEF FrameType
    <3> QED BY <2>1, <3>1
  <2>4. queue[p] # <<>> /\ queue[p] \in Seq(Transfer) /\ Evaluate(Head(queue[p])).how # "pending"
    BY <1>9, <2>3 DEF ScanCompletes, Core, Queues
  <2>5. PICK x \in Transfer : x = Head(queue[p])
    BY <2>4
  <2>6. PICK how \in {"ok", "error"} : how = Evaluate(x).how
    BY <2>4, <2>5, EvaluateIs
  <2>7. PICK f : f = [Top EXCEPT !.at = "complete", !.pipe = p, !.x = x, !.how = how]
    OBVIOUS
  <2>8. PICK s : s = Stop("rebuild", p)
    OBVIOUS
  <2>9. Call(f, s) \/ Goto(f)
    BY <1>9, <2>3, <2>5, <2>6, <2>7, <2>8 DEF ScanCompletes
  <2>10. s \in FrameType /\ s.op = "rebuild"
    BY <2>8, StopIs
  <2>11. f \in FrameType /\ f.op = "scan"
    BY <2>2, <2>7 DEF FrameType, Points, Scans
  <2>12. Frames' = {f} \/ Frames' = {f, s}
    BY <2>1, <2>2, <2>9, <2>10, <2>11, GotoIs, CallIs DEF Core
  <2> QED BY <2>10, <2>11, <2>12, NoDeletes DEF Deletes
<1>10. CASE GateStep
  BY <1>7, <1>8, <1>9, <1>10, DeletedGoes, EnqueueDeleted DEF GateStep
<1> QED BY <1>4, <1>5, <1>6, <1>10 DEF Next

(* When a queue head is unlinked, all that was issued on the pipe since it *)
(* was created has been answered.                                          *)
DeletesAnswered == Unlink => \A x \in Transfer : IssuedOn(Top.pipe, x) => results[x] # <<>>

(* If no client submits from the completions that a deletion calls, the    *)
(* deletion drops nothing, also if a wait for the schedule times out       *)
(* (UIMDeleteEndpoint, releaseEndpointState).                              *)
THEOREM DeletionDropsNothing ==
  ASSUME "delete" \notin ResubmitIn
  PROVE  Spec => [][DeletesAnswered]_vars
<1>1. Init => DeletedEmpty
  <2>1. Init => stack = <<>>
    BY DEF Init
  <2> QED BY <2>1, EmptyIs DEF DeletedEmpty
<1>2. AsyncInv /\ DeletedEmpty /\ [Next]_vars => DeletedEmpty'
  BY DeletedStep DEF AsyncInv, Core
<1>3. AsyncInv /\ Views /\ DeletedEmpty => DeletesAnswered
  <2> SUFFICES ASSUME Core, Views, DeletedEmpty, Unlink PROVE \A x \in Transfer : IssuedOn(Top.pipe, x) => results[x] # <<>>
    BY DEF AsyncInv, Core, DeletesAnswered
  <2>1. stack # <<>> /\ Top.at \in Waiting /\ Top.op = "unlink"
    BY DEF Unlink, Stopped, Runs, Waiting
  <2>2. Top.pipe \in Pipe /\ Tail(stack) = <<>> /\ Top.list = <<>> /\ Frames = {Top}
    BY <2>1, WaitIs, TopIs, RestIs DEF Core
  <2>3. queue[Top.pipe] = <<>> /\ ToSet(<<>>) = {} /\ Top.at # "complete"
    BY <2>1, <2>2 DEF DeletedEmpty, Deletes, ToSet, Waiting
  <2>4. \A x : ~WaitsOn(Top.pipe, x)
    BY <2>2, <2>3 DEF WaitsOn, Aborting, Completing
  <2> QED BY <2>2, <2>4 DEF Views, UnansweredWait
<1>4. AsyncInv /\ Views /\ DeletedEmpty /\ [Next]_vars => [DeletesAnswered]_vars
  BY <1>3
<1> QED BY <1>1, <1>2, <1>4, ViewsHold, AsyncInvAlways, PTL DEF Spec
=============================================================================
