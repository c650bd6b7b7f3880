--------------------------- MODULE InterruptsProofs ---------------------------
(***************************************************************************)
(* On one core, for any vectors, any drivers and any interrupt ring: no    *)
(* driver is called without a reason, and the entries of the ring are      *)
(* handed on once and in order.  The core serves what it can before a      *)
(* thread goes on, so threads change registers and flags only while        *)
(* nothing is deliverable and no handler runs; on several cores they do    *)
(* not, and both fail.                                                     *)
(***************************************************************************)
EXTENDS Interrupts, WellFoundedInduction, TLAPS

OneCore == \A c, d \in Core : c = d

(* What can be delivered, or is about to be, has a reason: the device      *)
(* asserts its line, the ring is there.                                    *)
Reason(v) == IF v = GPU THEN staged ELSE v \in line

Reasons ==
  \A c \in Core, v \in Vector :
    v \in isr[c].todo \/ (v \in cause[c] /\ v \in mask[c]) => Reason(v)

(* Where a core stands in handleInterrupt.                                 *)
Places ==
  \A c \in Core :
    /\ isr[c].pc = "idle" => isr[c].todo = {}
    /\ isr[c].pc \notin {"idle", "vector"} => isr[c].todo # {}
    /\ isr[c].pc = "handler" => /\ Current(c) \in registered
                                /\ Current(c) \notin soft
    /\ isr[c].pc = "drain" => /\ Current(c) = GPU
                              /\ taken <= seen /\ seen <= pushed

(* The drivers' threads and the flags.                                     *)
Drivers ==
  /\ \A v \in Device : driver[v] \in {"quiesce", "disabled"} => v \in soft
  /\ staged <=> driver[GPU] \in {"on", "teardown"}
  /\ GPU \in registered => driver[GPU] \in {"start", "on"}

(* The entries still to be taken stand in their slots.                     *)
Kept ==
  /\ freed = taken /\ taken <= pushed
  /\ "overflow" \notin wrong =>
       /\ pushed - freed < IHSlots
       /\ \A n \in freed + 1 .. pushed : ring[Slot(n)] = n

Met ==
  /\ "false" \notin wrong /\ "disabled" \notin wrong /\ "freed" \notin wrong
  /\ "order" \in wrong => "overflow" \in wrong

IInv == TypeOK /\ Reasons /\ Places /\ Drivers /\ Kept /\ Met

-----------------------------------------------------------------------------
(* A set of numbers has a least one, so the vector at hand is one of todo. *)
LEMMA LeastOne ==
  ASSUME NEW S \in SUBSET Nat, S # {}
  PROVE  Min(S) \in S
<1> DEFINE R == {p \in Nat \X Nat : p[1] < p[2]}
<1>1. IsWellFoundedOn(R, Nat)
  BY NatLessThanWellFounded DEF OpToRel
<1>2. PICK x \in S : \A y \in S : <<y, x>> \notin R
  BY <1>1, WFMin
<1>3. ASSUME NEW y \in S PROVE x <= y
  <2>1. y \in Nat /\ x \in Nat
    OBVIOUS
  <2>2. <<y, x>> \in Nat \X Nat /\ <<y, x>>[1] = y /\ <<y, x>>[2] = x
    BY <2>1
  <2>3. ~ (<<y, x>>[1] < <<y, x>>[2])
    BY <1>2, <2>2
  <2> QED BY <2>1, <2>2, <2>3
<1> QED BY <1>3 DEF Min

LEMMA CurrentVector ==
  ASSUME TypeOK, NEW c \in Core, isr[c].todo # {}
  PROVE  Current(c) \in isr[c].todo /\ Current(c) \in Vector
<1>1. isr[c].todo \in SUBSET Vector /\ Vector \in SUBSET Nat
  BY VectorAssumption DEF TypeOK
<1>2. isr[c].todo \in SUBSET Nat
  BY <1>1
<1>3. Min(isr[c].todo) \in isr[c].todo
  BY <1>2, LeastOne
<1> QED BY <1>1, <1>3 DEF Current

(* Within a round of the ring every entry has a slot of its own.           *)
LEMMA SlotsDiffer ==
  ASSUME NEW n \in Nat, NEW m \in Nat, n < m, m - n < IHSlots
  PROVE  Slot(n) # Slot(m)
<1>1. IHSlots \in Nat /\ IHSlots > 0
  BY RingAssumption
<1>2. \A i \in Nat : i = IHSlots * (i \div IHSlots) + (i % IHSlots) /\ i \div IHSlots \in Nat
  BY <1>1
<1>3. SUFFICES ASSUME Slot(n) = Slot(m) PROVE FALSE
  OBVIOUS
<1> DEFINE p == n \div IHSlots
           q == m \div IHSlots
<1>4. p \in Nat /\ q \in Nat
  BY <1>2
<1>5. m - n = IHSlots * q - IHSlots * p
  BY <1>2, <1>3, <1>1 DEF Slot
<1>6. IHSlots * q - IHSlots * p = IHSlots * (q - p)
  BY <1>1, <1>4
<1> HIDE DEF p, q
<1>7. q - p \in Int
  BY <1>4
<1>8. CASE q - p <= 0
  <2>1. IHSlots * (q - p) <= 0
    BY <1>1, <1>7, <1>8
  <2> QED BY <2>1, <1>5, <1>6
<1>9. CASE q - p >= 1
  <2>1. IHSlots * (q - p) >= IHSlots
    BY <1>1, <1>7, <1>9
  <2> QED BY <2>1, <1>5, <1>6, <1>1
<1> QED BY <1>7, <1>8, <1>9

(* A thread runs: nothing is deliverable anywhere, and no handler runs.    *)
LEMMA Quiet ==
  ASSUME OneCore, TypeOK, Places, NEW c \in Core, Runs(c), NEW d \in Core
  PROVE  /\ isr[d].pc = "idle" /\ isr[d].todo = {}
         /\ cause[d] \cap mask[d] = {}
<1>1. d = c
  BY DEF OneCore
<1> QED BY <1>1 DEF Runs, Deliverable, Places

-----------------------------------------------------------------------------
LEMMA InitIInv == Init => IInv
<1> SUFFICES ASSUME Init PROVE IInv
  OBVIOUS
<1> USE DEF Init
<1>1. TypeOK
  <2>1. isr \in [Core -> [pc : {"idle", "vector", "test", "mask", "handler", "drain",
                               "next"},
                         todo : SUBSET Vector, snap : SUBSET Vector]]
    BY DEF Idle
  <2>2. ring \in [0 .. IHSlots - 1 -> 0 .. MaxEntries]
    BY RingAssumption
  <2>3. staged \in BOOLEAN
    BY Zenon
  <2> QED BY <2>1, <2>2, <2>3, RingAssumption DEF TypeOK
<1>2. Reasons
  BY DEF Reasons, Idle
<1>3. Places
  BY DEF Places, Idle
<1>4. Drivers
  BY VectorAssumption DEF Drivers, Vector
<1>5. Kept
  BY RingAssumption DEF Kept
<1>6. Met
  BY DEF Met
<1> QED BY <1>1, <1>2, <1>3, <1>4, <1>5, <1>6 DEF IInv

-----------------------------------------------------------------------------
(* Types.                                                                  *)

LEMMA RegisterTypes ==
  ASSUME TypeOK, NEW c \in Core, NEW v \in Vector
  PROVE  /\ \A S \in SUBSET Vector : Latch(S) => cause' \in [Core -> SUBSET Vector]
         /\ \A C, S \in SUBSET Vector :
              Acknowledge(C, S) => cause' \in [Core -> SUBSET Vector]
         /\ EnableVector(c, v) => /\ cause' \in [Core -> SUBSET Vector]
                                  /\ mask' \in [Core -> SUBSET Vector]
         /\ DisableVectorHard(c, v) => mask' \in [Core -> SUBSET Vector]
BY DEF TypeOK, Latch, Acknowledge, Cleared, EnableVector, DisableVectorHard

LEMMA HandlerTypes == IInv /\ (\E c \in Core : HandleInterrupt(c)) => TypeOK'
<1> SUFFICES ASSUME IInv, NEW c \in Core, HandleInterrupt(c) PROVE TypeOK'
  OBVIOUS
<1> USE DEF IInv, TypeOK, ihVars, flags, regs, At, Step
<1>0. isr[c].todo # {} => Current(c) \in Vector
  BY CurrentVector
<1>t. isr[c].pc \notin {"idle", "vector"} => Current(c) \in Vector
  BY <1>0 DEF Places
<1>1. CASE Enter(c)
  BY <1>1 DEF Enter, Deliverable
<1>2. CASE TakeVector(c)
  BY <1>2, <1>0 DEF TakeVector
<1>3. CASE TestVector(c)
  BY <1>3, <1>t DEF TestVector
<1>4. CASE MaskVector(c)
  BY <1>4, <1>t, RegisterTypes DEF MaskVector
<1>5. CASE EventSource(c)
  <2>1. Current(c) \in Vector /\ Current(c) # GPU
    BY <1>5, <1>t DEF EventSource
  <2> QED BY <1>5, <2>1 DEF EventSource, Vector
<1>6. CASE IHSnapshot(c)
  BY <1>6 DEF IHSnapshot
<1>7. CASE IHDrain(c)
  BY <1>7 DEF IHDrain
<1>8. CASE NextVector(c)
  BY <1>8 DEF NextVector
<1>9. CASE Leave(c)
  BY <1>9, RegisterTypes DEF Leave, AckSet, Idle, Acknowledge, Cleared
<1> QED BY <1>1, <1>2, <1>3, <1>4, <1>5, <1>6, <1>7, <1>8, <1>9 DEF HandleInterrupt

LEMMA DriverTypes ==
  ASSUME IInv, NEW c \in Core, NEW v \in Device,
         \/ Register(c, v) \/ EnableSoft(c, v) \/ EnableHard(c, v)
         \/ Service(c, v) \/ DisableSoft(c, v) \/ DisableWaits(c, v)
  PROVE  TypeOK'
<1> USE DEF IInv, TypeOK, ihVars, flags, regs, Goto
<1>0. v \in Vector
  BY DEF Vector
<1>1. CASE Register(c, v)
  BY <1>0, <1>1 DEF Register
<1>2. CASE EnableSoft(c, v)
  BY <1>0, <1>2 DEF EnableSoft
<1>3. CASE EnableHard(c, v)
  BY <1>0, <1>3, RegisterTypes DEF EnableHard
<1>4. CASE Service(c, v)
  BY <1>0, <1>4 DEF Service
<1>5. CASE DisableSoft(c, v)
  BY <1>0, <1>5 DEF DisableSoft
<1>6. CASE DisableWaits(c, v)
  BY <1>0, <1>6 DEF DisableWaits
<1> QED BY <1>1, <1>2, <1>3, <1>4, <1>5, <1>6

LEMMA RingTypes ==
  ASSUME IInv, NEW c \in Core,
         \/ StageRing(c) \/ RegisterDirect(c) \/ StartRing(c)
         \/ UnregisterDirect(c) \/ FreeRing(c)
  PROVE  TypeOK'
<1> USE RingAssumption DEF IInv, TypeOK, ihVars, flags, regs, Goto
<1>0. GPU \in Vector
  BY DEF Vector
<1>1. CASE StageRing(c)
  BY <1>0, <1>1 DEF StageRing
<1>2. CASE RegisterDirect(c)
  BY <1>0, <1>2, RegisterTypes DEF RegisterDirect
<1>3. CASE StartRing(c)
  <2>1. staged' \in BOOLEAN
    BY <1>3, Zenon DEF StartRing
  <2> QED BY <1>0, <1>3, <2>1 DEF StartRing
<1>4. CASE UnregisterDirect(c)
  BY <1>0, <1>4, RegisterTypes DEF UnregisterDirect, RegisteredAfter
<1>5. CASE FreeRing(c)
  <2>1. staged' \in BOOLEAN
    BY <1>5, Zenon DEF FreeRing
  <2> QED BY <1>0, <1>5, <2>1 DEF FreeRing
<1> QED BY <1>1, <1>2, <1>3, <1>4, <1>5

LEMMA HardwareTypes == IInv /\ (Push \/ \E v \in Device : Raise(v)) => TypeOK'
<1> SUFFICES ASSUME IInv, Push \/ \E v \in Device : Raise(v) PROVE TypeOK'
  OBVIOUS
<1> USE RingAssumption DEF IInv, TypeOK, ihVars, flags, regs
<1>1. CASE Push
  <2>1. {GPU} \in SUBSET Vector /\ Slot(pushed + 1) \in 0 .. IHSlots - 1
    BY DEF Vector, Slot
  <2>2. cause' \in [Core -> SUBSET Vector]
    BY <1>1, <2>1 DEF Push, Latch
  <2>3. ring' \in [0 .. IHSlots - 1 -> 0 .. MaxEntries] /\ pushed' \in 0 .. MaxEntries
    BY <1>1, <2>1 DEF Push
  <2> QED BY <1>1, <2>2, <2>3 DEF Push
<1>2. CASE \E v \in Device : Raise(v)
  <2>1. PICK v \in Device : Raise(v)
    BY <1>2
  <2>2. cause' \in [Core -> SUBSET Vector]
    BY <2>1 DEF Raise, Latch, Vector
  <2> QED BY <2>1, <2>2 DEF Raise
<1> QED BY <1>1, <1>2

LEMMA TypeStep == IInv /\ [Next]_vars => TypeOK'
<1> SUFFICES ASSUME IInv, [Next]_vars PROVE TypeOK'
  OBVIOUS
<1>1. CASE UNCHANGED vars
  BY <1>1 DEF IInv, TypeOK, vars, ihVars, flags, regs
<1>2. CASE \E c \in Core : Threads(c)
  BY <1>2, DriverTypes, RingTypes DEF Threads
<1> QED BY <1>1, <1>2, HandlerTypes, HardwareTypes DEF Next

-----------------------------------------------------------------------------
(* Reasons: handleInterrupt delivers only what has one, acknowledging      *)
(* latches again only what is asserted, and a thread unmasks a vector with *)
(* its cause cleared.                                                      *)

LEMMA HandlerReasons == IInv /\ (\E c \in Core : HandleInterrupt(c)) => Reasons'
<1> SUFFICES ASSUME IInv, NEW c \in Core, HandleInterrupt(c),
                    NEW d \in Core, NEW v \in Vector,
                    v \in isr'[d].todo \/ (v \in cause'[d] /\ v \in mask'[d])
             PROVE  Reason(v)'
  BY DEF Reasons
<1> USE DEF IInv, TypeOK, regs, flags, ihVars, At, Step
<1>1. CASE Enter(c)
  <2>1. UNCHANGED <<line, staged, cause, mask>>
    BY <1>1 DEF Enter
  <2>2. v \in isr[d].todo \/ (v \in cause[d] /\ v \in mask[d])
    BY <1>1, <2>1 DEF Enter, Deliverable
  <2> QED BY <2>1, <2>2 DEF Reasons, Reason
<1>2. CASE \/ TakeVector(c) \/ TestVector(c) \/ EventSource(c)
           \/ IHSnapshot(c) \/ IHDrain(c)
  <2>1. UNCHANGED <<line, staged, cause, mask>>
    BY <1>2 DEF TakeVector, TestVector, EventSource, IHSnapshot, IHDrain
  <2>2. isr'[d].todo = isr[d].todo
    BY <1>2 DEF TakeVector, TestVector, EventSource, IHSnapshot, IHDrain
  <2> QED BY <2>1, <2>2 DEF Reasons, Reason
<1>3. CASE MaskVector(c)
  <2>1. UNCHANGED <<line, staged, cause>> /\ mask'[d] \subseteq mask[d]
    BY <1>3 DEF MaskVector, DisableVectorHard
  <2>2. isr'[d].todo = isr[d].todo
    BY <1>3 DEF MaskVector
  <2> QED BY <2>1, <2>2 DEF Reasons, Reason
<1>4. CASE NextVector(c)
  <2>1. UNCHANGED <<line, staged, cause, mask>>
    BY <1>4 DEF NextVector
  <2>2. isr'[d].todo \subseteq isr[d].todo
    BY <1>4 DEF NextVector
  <2> QED BY <2>1, <2>2 DEF Reasons, Reason
<1>5. CASE Leave(c)
  <2>1. UNCHANGED <<line, staged, freed, pushed, mask>>
    BY <1>5 DEF Leave
  <2>2. isr'[d].todo \subseteq isr[d].todo
    BY <1>5 DEF Leave, Idle
  <2>3. v \in cause'[d] => v \in cause[d] \/ Asserted(v)
    BY <1>5 DEF Leave, Acknowledge, Cleared
  <2>4. Asserted(v) => Reason(v)
    BY DEF Asserted, Reason
  <2> QED BY <2>1, <2>2, <2>3, <2>4 DEF Reasons, Reason
<1> QED BY <1>1, <1>2, <1>3, <1>4, <1>5 DEF HandleInterrupt

LEMMA UnmaskReasons ==
  ASSUME OneCore, IInv, NEW c \in Core, NEW v \in Vector, Runs(c),
         EnableVector(c, v), UNCHANGED <<isr, line, staged>>
  PROVE  Reasons'
<1> SUFFICES ASSUME NEW d \in Core, NEW u \in Vector,
                    u \in isr'[d].todo \/ (u \in cause'[d] /\ u \in mask'[d])
             PROVE  Reason(u)'
  BY DEF Reasons
<1>1. isr[d].todo = {} /\ cause[d] \cap mask[d] = {}
  BY Quiet DEF IInv
<1>2. d \in Scope(c)
  BY DEF Scope, OneCore
<1>3. /\ cause'[d] = Cleared(cause[d], {v})
      /\ mask'[d] = mask[d] \cup {v}
  BY <1>2 DEF EnableVector, Acknowledge, IInv, TypeOK
<1>4. u = v /\ Asserted(u)
  BY <1>1, <1>3 DEF Cleared
<1> QED BY <1>4 DEF Asserted, Reason

LEMMA ThreadReasons == OneCore /\ IInv /\ (\E c \in Core : Threads(c)) => Reasons'
<1> SUFFICES ASSUME OneCore, IInv, NEW c \in Core, Threads(c) PROVE Reasons'
  OBVIOUS
<1>q. \A d \in Core : Runs(c) => isr[d].todo = {} /\ cause[d] \cap mask[d] = {}
  BY Quiet DEF IInv
<1>1. CASE \/ \E v \in Device : \/ Register(c, v) \/ EnableSoft(c, v)
                                \/ Service(c, v) \/ DisableSoft(c, v)
                                \/ DisableWaits(c, v)
           \/ StageRing(c) \/ StartRing(c) \/ FreeRing(c)
  <2>1. Runs(c) /\ UNCHANGED <<isr, cause, mask>>
    BY <1>1 DEF Register, EnableSoft, Service, DisableSoft, DisableWaits,
                StageRing, StartRing, FreeRing, regs
  <2> QED BY <2>1, <1>q DEF Reasons
<1>2. CASE \E v \in Device : EnableHard(c, v)
  <2>1. PICK v \in Device : EnableHard(c, v)
    BY <1>2
  <2>2. Runs(c) /\ UNCHANGED <<isr, line, staged>> /\ v \in Vector
    BY <2>1 DEF EnableHard, ihVars, Vector
  <2>3. CASE v \in hard
    <3>1. EnableVector(c, v)
      BY <2>1, <2>3 DEF EnableHard
    <3> QED BY <2>2, <3>1, UnmaskReasons
  <2>4. CASE v \notin hard
    <3>1. UNCHANGED <<cause, mask>>
      BY <2>1, <2>4 DEF EnableHard, regs
    <3> QED BY <2>2, <3>1, <1>q DEF Reasons
  <2> QED BY <2>3, <2>4
<1>3. CASE RegisterDirect(c)
  <2>1. /\ Runs(c) /\ UNCHANGED <<isr, line, staged>> /\ GPU \in Vector
        /\ EnableVector(c, GPU)
    BY <1>3 DEF RegisterDirect, ihVars, Vector
  <2> QED BY <2>1, UnmaskReasons
<1>4. CASE UnregisterDirect(c)
  <2>1. Runs(c) /\ UNCHANGED <<isr, cause>> /\ \A d \in Core : mask'[d] \subseteq mask[d]
    BY <1>4 DEF UnregisterDirect, DisableVectorHard, IInv, TypeOK
  <2> QED BY <2>1, <1>q DEF Reasons
<1> QED BY <1>1, <1>2, <1>3, <1>4 DEF Threads

LEMMA HardwareReasons == IInv /\ (Push \/ \E v \in Device : Raise(v)) => Reasons'
<1> SUFFICES ASSUME IInv, Push \/ \E v \in Device : Raise(v),
                    NEW d \in Core, NEW u \in Vector,
                    u \in isr'[d].todo \/ (u \in cause'[d] /\ u \in mask'[d])
             PROVE  Reason(u)'
  BY DEF Reasons
<1> USE DEF IInv, TypeOK
<1>1. CASE Push
  <2>1. /\ UNCHANGED <<isr, mask, line, staged>> /\ staged
        /\ cause'[d] = cause[d] \cup {GPU}
    BY <1>1 DEF Push, Latch
  <2> QED BY <2>1 DEF Reasons, Reason
<1>2. CASE \E v \in Device : Raise(v)
  <2>1. PICK v \in Device : Raise(v)
    BY <1>2
  <2>2. /\ UNCHANGED <<isr, mask, staged>> /\ line' = line \cup {v}
        /\ cause'[d] = cause[d] \cup {v}
    BY <2>1 DEF Raise, Latch, ihVars
  <2>3. v # GPU
    BY VectorAssumption
  <2> QED BY <2>2, <2>3 DEF Reasons, Reason
<1> QED BY <1>1, <1>2

LEMMA ReasonsStep == OneCore /\ IInv /\ [Next]_vars => Reasons'
<1> SUFFICES ASSUME OneCore, IInv, [Next]_vars PROVE Reasons'
  OBVIOUS
<1>1. CASE UNCHANGED vars
  BY <1>1 DEF IInv, Reasons, Reason, vars, regs, ihVars
<1> QED BY <1>1, HandlerReasons, ThreadReasons, HardwareReasons DEF Next

-----------------------------------------------------------------------------
(* Places: the vector at hand stays registered and enabled while its       *)
(* handler is about to run, for only threads change that.                  *)

LEMMA HandlerPlaces == OneCore /\ IInv /\ (\E c \in Core : HandleInterrupt(c)) => Places'
<1> SUFFICES ASSUME OneCore, IInv, NEW c \in Core, HandleInterrupt(c),
                    NEW d \in Core
             PROVE  /\ isr'[d].pc = "idle" => isr'[d].todo = {}
                    /\ isr'[d].pc \notin {"idle", "vector"} => isr'[d].todo # {}
                    /\ isr'[d].pc = "handler" => /\ Current(d)' \in registered'
                                                 /\ Current(d)' \notin soft'
                    /\ isr'[d].pc = "drain" => /\ Current(d)' = GPU
                                               /\ taken' <= seen' /\ seen' <= pushed'
  BY DEF Places
<1>d. d = c
  BY DEF OneCore
<1> USE <1>d DEF IInv, TypeOK, regs, flags, ihVars, At, Step
<1>1. CASE Enter(c)
  BY <1>1 DEF Enter, Places
<1>2. CASE TakeVector(c)
  BY <1>2 DEF TakeVector, Places
<1>3. CASE TestVector(c)
  <2>1. isr[c].pc = "test" /\ isr'[c].todo = isr[c].todo /\ isr[c].todo # {}
    BY <1>3 DEF TestVector, Places
  <2>2. Current(c)' = Current(c)
    BY <2>1 DEF Current
  <2>3. isr'[c].pc \in {"handler", "next", "mask"}
    BY <1>3 DEF TestVector
  <2>4. isr'[c].pc = "handler" => Current(c) \in registered /\ Current(c) \notin soft
    BY <1>3 DEF TestVector, IsEnabled
  <2>5. UNCHANGED <<registered, soft>>
    BY <1>3 DEF TestVector
  <2> QED BY <2>1, <2>2, <2>3, <2>4, <2>5
<1>4. CASE MaskVector(c)
  BY <1>4 DEF MaskVector, Places
<1>5. CASE EventSource(c)
  BY <1>5 DEF EventSource, Places
<1>6. CASE IHSnapshot(c)
  <2>1. isr[c].todo # {} /\ isr'[c].todo = isr[c].todo /\ isr'[c].pc = "drain"
    BY <1>6 DEF IHSnapshot, Places
  <2>2. Current(c)' = GPU
    BY <1>6, <2>1 DEF IHSnapshot, Current
  <2>3. taken' <= seen' /\ seen' <= pushed'
    BY <1>6, RingAssumption DEF IHSnapshot, Kept
  <2> QED BY <2>1, <2>2, <2>3
<1>7. CASE IHDrain(c)
  BY <1>7 DEF IHDrain, Places
<1>8. CASE NextVector(c)
  BY <1>8 DEF NextVector, Places
<1>9. CASE Leave(c)
  BY <1>9 DEF Leave, Idle
<1> QED BY <1>1, <1>2, <1>3, <1>4, <1>5, <1>6, <1>7, <1>8, <1>9 DEF HandleInterrupt

LEMMA PlacesStep == OneCore /\ IInv /\ [Next]_vars => Places'
<1> SUFFICES ASSUME OneCore, IInv, [Next]_vars PROVE Places'
  OBVIOUS
<1>1. CASE \/ UNCHANGED vars \/ \E v \in Device : Raise(v)
  <2>1. UNCHANGED <<isr, registered, soft, taken, seen, pushed>>
    BY <1>1 DEF vars, Raise, flags, ihVars
  <2>2. \A c \in Core : Current(c)' = Current(c)
    BY <2>1 DEF Current
  <2> QED BY <2>1, <2>2 DEF IInv, Places
<1>2. CASE Push
  <2>1. /\ UNCHANGED <<isr, registered, soft, taken, seen>> /\ pushed' = pushed + 1
        /\ pushed \in Nat /\ seen \in Nat
    BY <1>2, RingAssumption DEF Push, flags, IInv, TypeOK
  <2>2. \A c \in Core : Current(c)' = Current(c)
    BY <2>1 DEF Current
  <2> QED BY <2>1, <2>2 DEF IInv, Places
<1>3. CASE \E c \in Core : Threads(c)
  <2>1. PICK c \in Core : Threads(c)
    BY <1>3
  <2>2. Runs(c) /\ UNCHANGED isr
    BY <2>1 DEF Threads, Register, EnableSoft, EnableHard, Service, DisableSoft,
                DisableWaits, StageRing, RegisterDirect, StartRing,
                UnregisterDirect, FreeRing
  <2>3. \A d \in Core : isr'[d].pc = "idle" /\ isr'[d].todo = {}
    BY <2>2, Quiet DEF IInv
  <2> QED BY <2>3 DEF Places
<1> QED BY <1>1, <1>2, <1>3, HandlerPlaces DEF Next

-----------------------------------------------------------------------------
(* Drivers: handlers disable softly and never enable.                      *)
LEMMA DriversStep == IInv /\ [Next]_vars => Drivers'
<1> SUFFICES ASSUME IInv, [Next]_vars PROVE Drivers'
  OBVIOUS
<1>g. GPU \notin Device /\ GPU \in Vector /\ Device \subseteq Vector
  BY VectorAssumption DEF Vector
<1> USE <1>g DEF IInv, TypeOK, regs, flags, ihVars, Goto
<1>1. CASE \/ UNCHANGED vars \/ Push \/ \E v \in Device : Raise(v)
           \/ \E c \in Core : HandleInterrupt(c)
  <2>1. UNCHANGED <<driver, staged, registered>> /\ soft \subseteq soft'
    BY <1>1 DEF vars, Push, Raise, HandleInterrupt, Enter, TakeVector, TestVector,
                MaskVector, EventSource, IHSnapshot, IHDrain, NextVector, Leave
  <2> QED BY <2>1 DEF Drivers
<1>2. CASE \E c \in Core, v \in Device : \/ Register(c, v) \/ EnableSoft(c, v)
                                         \/ EnableHard(c, v) \/ Service(c, v)
                                         \/ DisableSoft(c, v) \/ DisableWaits(c, v)
  <2>1. PICK c \in Core, v \in Device : \/ Register(c, v) \/ EnableSoft(c, v)
                                        \/ EnableHard(c, v) \/ Service(c, v)
                                        \/ DisableSoft(c, v) \/ DisableWaits(c, v)
    BY <1>2
  <2>2. /\ UNCHANGED staged /\ driver'[GPU] = driver[GPU]
        /\ registered' \subseteq registered \cup {v}
    BY <2>1 DEF Register, EnableSoft, EnableHard, Service, DisableSoft, DisableWaits
  <2>3. \A u \in Device \ {v} : driver'[u] = driver[u] /\ (u \in soft => u \in soft')
    BY <2>1 DEF Register, EnableSoft, EnableHard, Service, DisableSoft, DisableWaits
  <2>4. driver'[v] \in {"quiesce", "disabled"} => v \in soft'
    BY <2>1 DEF Register, EnableSoft, EnableHard, Service, DisableSoft, DisableWaits,
                Drivers
  <2> QED BY <2>2, <2>3, <2>4 DEF Drivers
<1>3. CASE \E c \in Core : \/ StageRing(c) \/ RegisterDirect(c) \/ StartRing(c)
                           \/ UnregisterDirect(c) \/ FreeRing(c)
  <2>1. \A u \in Device : driver'[u] = driver[u] /\ (u \in soft => u \in soft')
    BY <1>3 DEF StageRing, RegisterDirect, StartRing, UnregisterDirect, FreeRing
  <2>2. (staged <=> driver[GPU] \in {"on", "teardown"})'
    BY <1>3 DEF StageRing, RegisterDirect, StartRing, UnregisterDirect, FreeRing, Drivers
  <2>3. (GPU \in registered => driver[GPU] \in {"start", "on"})'
    BY <1>3 DEF StageRing, RegisterDirect, StartRing, UnregisterDirect, FreeRing,
                RegisteredAfter, Drivers
  <2> QED BY <2>1, <2>2, <2>3 DEF Drivers
<1> QED BY <1>1, <1>2, <1>3 DEF Next, Threads

-----------------------------------------------------------------------------
(* Kept: until the ring overflows a new entry takes a slot no entry still  *)
(* to be taken stands in, and a drain gives back what it has taken.        *)

LEMMA PushKept == IInv /\ Push => Kept'
<1> SUFFICES ASSUME IInv, Push PROVE Kept'
  OBVIOUS
<1> USE RingAssumption DEF IInv, TypeOK
<1>1. /\ pushed' = pushed + 1 /\ UNCHANGED <<freed, taken>>
      /\ ring' = [ring EXCEPT ![Slot(pushed + 1)] = pushed + 1]
      /\ pushed \in Nat /\ freed \in Nat /\ taken \in Nat /\ freed <= pushed
  BY DEF Push, Kept
<1>2. (freed = taken /\ taken <= pushed)'
  BY <1>1 DEF Kept
<1>3. ASSUME "overflow" \notin wrong'
      PROVE  /\ pushed' - freed' < IHSlots
             /\ \A n \in freed' + 1 .. pushed' : ring'[Slot(n)] = n
  <2>1. "overflow" \notin wrong /\ pushed - freed < IHSlots - 1
    BY <1>1, <1>3 DEF Push
  <2>2. ASSUME NEW n \in freed + 1 .. pushed + 1 PROVE ring'[Slot(n)] = n
    <3>1. Slot(pushed + 1) \in 0 .. IHSlots - 1
      BY <1>1 DEF Slot
    <3>2. CASE n = pushed + 1
      BY <1>1, <3>1, <3>2
    <3>3. CASE n # pushed + 1
      <4>1. n \in freed + 1 .. pushed /\ n \in Nat /\ n < pushed + 1
        BY <3>3, <1>1, <2>2
      <4>2. (pushed + 1) - n < IHSlots
        BY <4>1, <1>1, <2>1
      <4>3. Slot(n) # Slot(pushed + 1)
        BY <4>1, <4>2, <1>1, SlotsDiffer
      <4>4. Slot(n) \in 0 .. IHSlots - 1
        BY <4>1 DEF Slot
      <4>5. ring'[Slot(n)] = ring[Slot(n)]
        BY <1>1, <4>3, <4>4
      <4>6. ring[Slot(n)] = n
        BY <4>1, <2>1 DEF Kept
      <4> QED BY <4>5, <4>6
    <3> QED BY <3>2, <3>3
  <2> QED BY <2>1, <2>2, <1>1
<1> QED BY <1>2, <1>3 DEF Kept

LEMMA DrainKept == IInv /\ (\E c \in Core : IHDrain(c)) => Kept'
<1> SUFFICES ASSUME IInv, NEW c \in Core, IHDrain(c) PROVE Kept'
  OBVIOUS
<1> USE RingAssumption DEF IInv, TypeOK
<1>1. /\ freed' = seen /\ taken' = seen /\ UNCHANGED <<pushed, ring>>
      /\ {pushed, freed, seen} \subseteq Nat
      /\ "overflow" \in wrong => "overflow" \in wrong'
  BY DEF IHDrain
<1>2. taken <= seen /\ seen <= pushed /\ freed = taken
  BY DEF IHDrain, At, Places, Kept
<1>3. "overflow" \notin wrong' =>
        /\ pushed - seen < IHSlots
        /\ \A n \in seen + 1 .. pushed : ring[Slot(n)] = n
  BY <1>1, <1>2 DEF Kept
<1> QED BY <1>1, <1>2, <1>3 DEF Kept, Slot

LEMMA KeptStep == IInv /\ [Next]_vars => Kept'
<1> SUFFICES ASSUME IInv, [Next]_vars PROVE Kept'
  OBVIOUS
<1>1. CASE UNCHANGED <<pushed, freed, taken, ring>> /\ wrong \subseteq wrong'
  BY <1>1 DEF IInv, Kept, Slot
<1>2. CASE \E c \in Core : StageRing(c)
  <2>1. pushed' = 0 /\ freed' = 0 /\ taken' = 0
    BY <1>2 DEF StageRing
  <2> QED BY <2>1, RingAssumption DEF Kept
<1>3. CASE UNCHANGED vars
  BY <1>3, <1>1 DEF vars, ihVars
<1>4. CASE \E v \in Device : Raise(v)
  BY <1>4, <1>1 DEF Raise, ihVars
<1>5. ASSUME NEW c \in Core, HandleInterrupt(c) PROVE Kept'
  BY <1>5, <1>1, DrainKept DEF HandleInterrupt, Enter, TakeVector, TestVector,
     MaskVector, EventSource, IHSnapshot, NextVector, Leave, ihVars
<1>6. ASSUME NEW c \in Core, Threads(c) PROVE Kept'
  BY <1>6, <1>1, <1>2 DEF Threads, Register, EnableSoft, EnableHard, Service,
     DisableSoft, DisableWaits, RegisterDirect, StartRing, UnregisterDirect,
     FreeRing, ihVars
<1> QED BY <1>3, <1>4, <1>5, <1>6, PushKept DEF Next

-----------------------------------------------------------------------------
(* What a handler meets.                                                   *)
LEMMA MetStep == IInv /\ [Next]_vars => Met'
<1> SUFFICES ASSUME IInv, [Next]_vars PROVE Met'
  OBVIOUS
<1> USE DEF IInv
<1>1. CASE UNCHANGED wrong
  BY <1>1 DEF Met
<1>2. ASSUME NEW c \in Core, At(c, "handler") \/ At(c, "drain")
      PROVE  Current(c) \in Vector /\ Reason(Current(c))
  BY <1>2, CurrentVector DEF At, Places, Reasons
<1>3. ASSUME NEW c \in Core, EventSource(c) PROVE Met'
  <2>1. Current(c) \in Device /\ Current(c) \in line
    BY <1>3, <1>2 DEF EventSource, Vector, Reason
  <2>2. Current(c) \notin soft
    BY <1>3 DEF EventSource, At, Places
  <2>3. driver[Current(c)] # "disabled"
    BY <2>1, <2>2 DEF Drivers
  <2>4. wrong' = wrong
    BY <1>3, <2>1, <2>3 DEF EventSource
  <2> QED BY <2>4, <1>1
<1>4. ASSUME NEW c \in Core, IHSnapshot(c) PROVE Met'
  <2>1. staged
    BY <1>4, <1>2 DEF IHSnapshot, Reason
  <2>2. wrong' = wrong
    BY <1>4, <2>1 DEF IHSnapshot
  <2> QED BY <2>2, <1>1
<1>5. ASSUME NEW c \in Core, IHDrain(c) PROVE Met'
  <2>1. Current(c) = GPU /\ taken <= seen /\ seen <= pushed
    BY <1>5 DEF IHDrain, At, Places
  <2>2. staged
    BY <1>5, <1>2, <2>1 DEF IHDrain, Reason
  <2>3. "overflow" \notin wrong => InOrder
    <3>1. {taken, seen, pushed} \subseteq Nat
      BY RingAssumption DEF TypeOK
    <3> QED BY <3>1, <2>1 DEF Kept, InOrder
  <2>4. wrong' = wrong \cup (IF InOrder THEN {} ELSE {"order"})
    <3>1. wrong' = (wrong \cup (IF InOrder THEN {} ELSE {"order"}))
                      \cup (IF staged THEN {} ELSE {"freed"})
      BY <1>5 DEF IHDrain
    <3> QED BY <3>1, <2>2
  <2>5. \/ wrong' = wrong
        \/ wrong' = wrong \cup {"order"} /\ "overflow" \in wrong
    BY <2>3, <2>4
  <2> QED BY <2>5 DEF Met
<1>6. CASE Push
  <2>1. wrong' \subseteq wrong \cup {"overflow"} /\ wrong \subseteq wrong'
    BY <1>6 DEF Push
  <2> QED BY <2>1 DEF Met
<1>7. CASE UNCHANGED vars
  BY <1>7, <1>1 DEF vars
<1>8. CASE \E v \in Device : Raise(v)
  BY <1>8, <1>1 DEF Raise
<1>9. ASSUME NEW c \in Core, HandleInterrupt(c) PROVE Met'
  BY <1>9, <1>1, <1>3, <1>4, <1>5 DEF HandleInterrupt, Enter, TakeVector,
     TestVector, MaskVector, NextVector, Leave
<1>10. ASSUME NEW c \in Core, Threads(c) PROVE Met'
  BY <1>10, <1>1 DEF Threads, Register, EnableSoft, EnableHard, Service,
     DisableSoft, DisableWaits, StageRing, RegisterDirect, StartRing,
     UnregisterDirect, FreeRing
<1> QED BY <1>6, <1>7, <1>8, <1>9, <1>10 DEF Next

-----------------------------------------------------------------------------
LEMMA Inductive == OneCore => (Spec => []IInv)
<1> SUFFICES ASSUME OneCore PROVE Spec => []IInv
  OBVIOUS
<1>1. Init => IInv
  BY InitIInv
<1>2. IInv /\ [Next]_vars => IInv'
  BY TypeStep, ReasonsStep, PlacesStep, DriversStep, KeptStep, MetStep DEF IInv
<1> QED BY <1>1, <1>2, PTL DEF Spec

(* On one core a driver is called only while its device asserts its        *)
(* interrupt, never because of a cause latched before it was serviced, and *)
(* never after its disable returned (handleInterrupt, enableVector).       *)
THEOREM CalledWithReason == OneCore => (Spec => []NoFalseInterrupt)
<1> SUFFICES ASSUME OneCore PROVE Spec => []NoFalseInterrupt
  OBVIOUS
<1>1. IInv => NoFalseInterrupt
  BY DEF IInv, Met, NoFalseInterrupt
<1> QED BY <1>1, Inductive, PTL

(* On one core consumeIHRing hands on every entry once and in order,       *)
(* unless the ring overflowed, whatever the engine pushes meanwhile, and   *)
(* never after the ring was freed.                                         *)
THEOREM RingInOrder == OneCore => (Spec => []EntriesOnceInOrder)
<1> SUFFICES ASSUME OneCore PROVE Spec => []EntriesOnceInOrder
  OBVIOUS
<1>1. IInv => EntriesOnceInOrder
  BY RingAssumption DEF IInv, TypeOK, Kept, Met, EntriesOnceInOrder
<1> QED BY <1>1, Inductive, PTL
===============================================================================
