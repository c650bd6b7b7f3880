------------------------------ MODULE Interrupts ------------------------------
(***************************************************************************)
(* The interrupt controllers of the Wii and the Wii U                      *)
(* (WiiInterruptController, HollywoodInterruptController,                  *)
(* LatteInterruptController): one handleInterrupt, run on the core that    *)
(* takes the interrupt, and the vectors it dispatches.  A vector of Device *)
(* belongs to a driver with an IOInterruptEventSource; the vector GPU has  *)
(* the handler WiiCafeFB installs directly, which drains the graphics      *)
(* engine's interrupt ring (WiiGX2::consumeIHRing).                        *)
(*                                                                         *)
(* A core takes a deliverable interrupt before the thread it runs makes    *)
(* another step.  All vectors are level triggered: acknowledging a cause   *)
(* whose line is still asserted latches it again.                          *)
(***************************************************************************)
EXTENDS Integers, FiniteSets, FiniteSetsExt

CONSTANTS
  Core,         \* the cores that take interrupts
  EveryCore,    \* a vector is unmasked on every core (the PI of the Wii U)
  Device,       \* vectors of drivers with an interrupt event source
  GPU,          \* the vector with the direct handler (GPU7_GC)
  IHSlots,      \* entries the interrupt ring holds
  MaxEntries    \* bound: entries the graphics engine pushes

Vector == Device \cup {GPU}

ASSUME VectorAssumption == Vector \subseteq Nat /\ GPU \notin Device
ASSUME CoreAssumption == IsFiniteSet(Core) /\ Core # {} /\ EveryCore \in BOOLEAN
ASSUME RingAssumption == IHSlots \in Nat \ {0, 1} /\ MaxEntries \in Nat

VARIABLES
  line,       \* the devices that assert their interrupt
  cause,      \* cause[core]: the vectors latched
  mask,       \* mask[core]: the vectors unmasked
  registered, \* interruptRegistered
  soft,       \* interruptDisabledSoft
  hard,       \* interruptDisabledHard
  active,     \* interruptActive
  isr,        \* isr[core]: where handleInterrupt stands, its vectors, its place
  driver,     \* driver[v]: where the driver's thread stands
  signalled,  \* the event sources with work to do
  pushed,     \* entries the graphics engine has put in its ring
  ring,       \* the interrupt ring: ordinals of entries
  freed,      \* the read pointer register: entries the engine may overwrite
  taken,      \* entries consumeIHRing has taken
  seen,       \* the write pointer a running consumeIHRing has read
  staged,     \* the ring is allocated, and the engine may interrupt
  wrong       \* history: what consumeIHRing and the handlers met

regs   == <<cause, mask>>
flags  == <<registered, soft, hard, active>>
ihVars == <<pushed, ring, freed, taken, seen, staged>>
vars == <<line, regs, flags, isr, driver, signalled, ihVars, wrong>>

-----------------------------------------------------------------------------
(* The registers.  The line of the graphics engine is asserted while its   *)
(* ring holds an entry.                                                    *)

Asserted(v) == IF v = GPU THEN staged /\ freed # pushed ELSE v \in line

Latch(S) == cause' = [c \in Core |-> cause[c] \cup S]

(* Writing ones to the cause register.                                     *)
Cleared(set, S) == (set \ S) \cup {v \in S : Asserted(v)}

Acknowledge(C, S) ==
  cause' = [c \in Core |-> IF c \in C THEN Cleared(cause[c], S) ELSE cause[c]]

(* enableVector and disableVectorHard work on the registers of the core    *)
(* they run on; those of the processor interface on all.                   *)
Scope(c) == IF EveryCore THEN Core ELSE {c}

(* Mutant: the vector is unmasked with the cause it has latched.            *)
EnableVectorLatched(c, v) ==
  /\ mask' = [k \in Core |-> IF k \in Scope(c) THEN mask[k] \cup {v} ELSE mask[k]]
  /\ UNCHANGED cause

EnableVector(c, v) ==
  /\ Acknowledge(Scope(c), {v})
  /\ mask' = [k \in Core |-> IF k \in Scope(c) THEN mask[k] \cup {v} ELSE mask[k]]

(* Mutant: the mask is not inverted.                                       *)
DisableVectorHardOthers(c, v) ==
  mask' = [k \in Core |-> IF k \in Scope(c) THEN mask[k] \cap {v} ELSE mask[k]]

DisableVectorHard(c, v) ==
  mask' = [k \in Core |-> IF k \in Scope(c) THEN mask[k] \ {v} ELSE mask[k]]

Deliverable(c) == cause[c] \cap mask[c]

Idle == [pc |-> "idle", todo |-> {}, snap |-> {}]

(* A thread makes a step on a core that is not in handleInterrupt and has  *)
(* nothing to deliver.                                                     *)
Runs(c) == isr[c].pc = "idle" /\ Deliverable(c) = {}

-----------------------------------------------------------------------------
(* handleInterrupt.  The vector at hand is the lowest of todo.             *)

Current(c) == Min(isr[c].todo)
Step(c, l) == isr' = [isr EXCEPT ![c].pc = l]
At(c, l) == isr[c].pc = l

Enter(c) ==
  /\ At(c, "idle")
  /\ Deliverable(c) # {}
  /\ isr' = [isr EXCEPT ![c] = [pc |-> "vector", todo |-> Deliverable(c),
                                snap |-> Deliverable(c)]]
  /\ UNCHANGED <<line, regs, flags, driver, signalled, ihVars, wrong>>

TakeVector(c) ==
  /\ At(c, "vector") /\ isr[c].todo # {}
  /\ active' = active \cup {Current(c)}
  /\ Step(c, "test")
  /\ UNCHANGED <<line, regs, registered, soft, hard, driver, signalled,
                 ihVars, wrong>>

(* A vector that is disabled softly is masked; one without a handler is    *)
(* skipped.                                                                *)
IsEnabled(v) == v \notin soft

TestVector(c) ==
  LET v == Current(c) IN
  /\ At(c, "test")
  /\ \/ /\ IsEnabled(v)
        /\ Step(c, IF v \in registered THEN "handler" ELSE "next")
        /\ UNCHANGED hard
     \/ /\ ~IsEnabled(v)
        /\ hard' = hard \cup {v}
        /\ Step(c, "mask")
  /\ UNCHANGED <<line, regs, registered, soft, active, driver, signalled,
                 ihVars, wrong>>

MaskVector(c) ==
  /\ At(c, "mask")
  /\ DisableVectorHard(c, Current(c))
  /\ Step(c, "next")
  /\ UNCHANGED <<line, cause, flags, driver, signalled, ihVars, wrong>>

(* The handler of an event source disables its vector softly and signals   *)
(* the driver's thread.                                                    *)
EventSource(c) ==
  LET v == Current(c) IN
  /\ At(c, "handler") /\ v # GPU
  /\ soft' = soft \cup {v}
  /\ signalled' = signalled \cup {v}
  /\ wrong' = wrong \cup (IF v \notin line THEN {"false"} ELSE {})
                    \cup (IF driver[v] = "disabled" THEN {"disabled"} ELSE {})
  /\ Step(c, "next")
  /\ UNCHANGED <<line, regs, registered, hard, active, driver, ihVars>>

(* consumeIHRing: the write pointer is read once; then the entries up to   *)
(* it are taken and the read pointer is published.                         *)
IHSnapshot(c) ==
  /\ At(c, "handler") /\ Current(c) = GPU
  /\ seen' = pushed
  /\ wrong' = wrong \cup (IF staged THEN {} ELSE {"freed"})
  /\ Step(c, "drain")
  /\ UNCHANGED <<line, regs, flags, driver, signalled, pushed, ring, freed,
                 taken, staged>>

Slot(n) == n % IHSlots

(* The entries the drain reads are the ones that were pushed, each once,   *)
(* unless the engine overwrote some of them.                               *)
InOrder == \A n \in taken + 1 .. seen : ring[Slot(n)] = n

(* Mutant: the read pointer is set to the write pointer read again.        *)
IHDrainToNow(c) ==
  /\ At(c, "drain")
  /\ wrong' = wrong \cup (IF InOrder THEN {} ELSE {"order"})
                    \cup (IF staged THEN {} ELSE {"freed"})
  /\ taken' = seen
  /\ freed' = pushed
  /\ Step(c, "next")
  /\ UNCHANGED <<line, regs, flags, driver, signalled, pushed, ring, seen,
                 staged>>

IHDrain(c) ==
  /\ At(c, "drain")
  /\ wrong' = wrong \cup (IF InOrder THEN {} ELSE {"order"})
                    \cup (IF staged THEN {} ELSE {"freed"})
  /\ taken' = seen
  /\ freed' = seen
  /\ Step(c, "next")
  /\ UNCHANGED <<line, regs, flags, driver, signalled, pushed, ring, seen,
                 staged>>

NextVector(c) ==
  /\ At(c, "next")
  /\ active' = active \ {Current(c)}
  /\ isr' = [isr EXCEPT ![c].pc = "vector", ![c].todo = @ \ {Current(c)}]
  /\ UNCHANGED <<line, regs, registered, soft, hard, driver, signalled,
                 ihVars, wrong>>

(* The causes it began with are acknowledged, after the handlers.          *)
AckSet(c) == isr[c].snap

Leave(c) ==
  /\ At(c, "vector") /\ isr[c].todo = {}
  /\ Acknowledge({c}, AckSet(c))
  /\ isr' = [isr EXCEPT ![c] = Idle]
  /\ UNCHANGED <<line, mask, flags, driver, signalled, ihVars, wrong>>

HandleInterrupt(c) == \/ Enter(c) \/ TakeVector(c) \/ TestVector(c)
                      \/ MaskVector(c) \/ EventSource(c) \/ IHSnapshot(c)
                      \/ IHDrain(c) \/ NextVector(c) \/ Leave(c)

-----------------------------------------------------------------------------
(* The drivers (IOInterruptController and IOInterruptEventSource).  A      *)
(* driver registers its vector, enables it, services its device when it is *)
(* signalled and then enables the vector again; it may disable its source. *)

Goto(v, l) == driver' = [driver EXCEPT ![v] = l]

Register(c, v) ==
  /\ Runs(c) /\ v \in Device
  /\ driver[v] = "off"
  /\ registered' = registered \cup {v}
  /\ soft' = soft \cup {v}
  /\ hard' = hard \cup {v}
  /\ Goto(v, "enable")
  /\ UNCHANGED <<line, regs, active, isr, signalled, ihVars, wrong>>

(* enableInterrupt: the soft flag; it waits for a running handler, and     *)
(* undoes the hard one with the vector.                                    *)
EnableSoft(c, v) ==
  /\ Runs(c) /\ v \in Device
  /\ driver[v] \in {"enable", "disabled"}
  /\ soft' = soft \ {v}
  /\ Goto(v, "unmask")
  /\ UNCHANGED <<line, regs, registered, hard, active, isr, signalled,
                 ihVars, wrong>>

EnableHard(c, v) ==
  /\ Runs(c) /\ v \in Device
  /\ driver[v] = "unmask" /\ v \notin active
  /\ IF v \in hard
       THEN hard' = hard \ {v} /\ EnableVector(c, v)
       ELSE UNCHANGED <<hard, regs>>
  /\ Goto(v, "on")
  /\ UNCHANGED <<line, registered, soft, active, isr, signalled, ihVars,
                 wrong>>

(* The thread services the device, which releases its line.                *)
Service(c, v) ==
  /\ Runs(c) /\ v \in Device
  /\ driver[v] = "on" /\ v \in signalled
  /\ line' = line \ {v}
  /\ signalled' = signalled \ {v}
  /\ Goto(v, "enable")
  /\ UNCHANGED <<regs, flags, isr, ihVars, wrong>>

(* disableInterrupt: the soft flag, then it waits for a running handler.   *)
DisableSoft(c, v) ==
  /\ Runs(c) /\ v \in Device
  /\ driver[v] = "on" /\ v \notin signalled
  /\ soft' = soft \cup {v}
  /\ Goto(v, "quiesce")
  /\ UNCHANGED <<line, regs, registered, hard, active, isr, signalled,
                 ihVars, wrong>>

DisableWaits(c, v) ==
  /\ Runs(c) /\ v \in Device
  /\ driver[v] = "quiesce" /\ v \notin active
  /\ Goto(v, "disabled")
  /\ UNCHANGED <<line, regs, flags, isr, signalled, ihVars, wrong>>

(* WiiCafeFB: setupInterruptRing, registerDirectHandler with enableVector, *)
(* and setInterruptRingEnabled.                                            *)
StageRing(c) ==
  /\ Runs(c)
  /\ driver[GPU] = "off"
  /\ pushed' = 0 /\ freed' = 0 /\ taken' = 0
  /\ Goto(GPU, "register")
  /\ UNCHANGED <<line, regs, flags, isr, signalled, ring, seen, staged, wrong>>

(* Mutant: the vector is not unmasked.                                     *)
RegisterDirectMasked(c) ==
  /\ Runs(c)
  /\ driver[GPU] = "register" /\ GPU \notin registered
  /\ registered' = registered \cup {GPU}
  /\ soft' = soft \ {GPU}
  /\ hard' = hard \ {GPU}
  /\ active' = active \ {GPU}
  /\ Goto(GPU, "start")
  /\ UNCHANGED <<line, regs, isr, signalled, ihVars, wrong>>

RegisterDirect(c) ==
  /\ Runs(c)
  /\ driver[GPU] = "register" /\ GPU \notin registered
  /\ registered' = registered \cup {GPU}
  /\ soft' = soft \ {GPU}
  /\ hard' = hard \ {GPU}
  /\ active' = active \ {GPU}
  /\ EnableVector(c, GPU)
  /\ Goto(GPU, "start")
  /\ UNCHANGED <<line, isr, signalled, ihVars, wrong>>

StartRing(c) ==
  /\ Runs(c)
  /\ driver[GPU] = "start"
  /\ staged' = TRUE
  /\ Goto(GPU, "on")
  /\ UNCHANGED <<line, regs, flags, isr, signalled, pushed, ring, freed, taken,
                 seen, wrong>>

(* WiiCafeFB::free: unregisterDirectHandler masks the vector and takes the *)
(* handler out; then the engine and its ring go.                           *)
RegisteredAfter == registered \ {GPU}

UnregisterDirect(c) ==
  /\ Runs(c)
  /\ driver[GPU] = "on"
  /\ DisableVectorHard(c, GPU)
  /\ registered' = RegisteredAfter
  /\ Goto(GPU, "teardown")
  /\ UNCHANGED <<line, cause, soft, hard, active, isr, signalled, ihVars, wrong>>

FreeRing(c) ==
  /\ Runs(c)
  /\ driver[GPU] = "teardown"
  /\ staged' = FALSE
  /\ Goto(GPU, "gone")
  /\ UNCHANGED <<line, regs, flags, isr, signalled, pushed, ring, freed, taken,
                 seen, wrong>>

Threads(c) ==
  \/ \E v \in Device : \/ Register(c, v) \/ EnableSoft(c, v) \/ EnableHard(c, v)
                       \/ Service(c, v) \/ DisableSoft(c, v)
                       \/ DisableWaits(c, v)
  \/ StageRing(c) \/ RegisterDirect(c) \/ StartRing(c)
  \/ UnregisterDirect(c) \/ FreeRing(c)

-----------------------------------------------------------------------------
(* The devices.  A full interrupt ring overwrites its oldest entry.        *)

Raise(v) ==
  /\ v \notin line
  /\ line' = line \cup {v}
  /\ Latch({v})
  /\ UNCHANGED <<mask, flags, isr, driver, signalled, ihVars, wrong>>

Push ==
  /\ staged /\ pushed < MaxEntries
  /\ pushed' = pushed + 1
  /\ ring' = [ring EXCEPT ![Slot(pushed + 1)] = pushed + 1]
  /\ wrong' = wrong \cup (IF pushed - freed >= IHSlots - 1 THEN {"overflow"}
                          ELSE {})
  /\ Latch({GPU})
  /\ UNCHANGED <<line, mask, flags, isr, driver, signalled, freed, taken,
                 seen, staged>>

-----------------------------------------------------------------------------
(* start masks every vector and acknowledges what the firmware left.       *)
Init ==
  /\ line = {}
  /\ cause = [c \in Core |-> {}] /\ mask = [c \in Core |-> {}]
  /\ registered = {} /\ soft = {} /\ hard = {} /\ active = {}
  /\ isr = [c \in Core |-> Idle]
  /\ driver = [v \in Vector |-> "off"]
  /\ signalled = {}
  /\ pushed = 0 /\ freed = 0 /\ taken = 0 /\ seen = 0
  /\ ring = [s \in 0 .. IHSlots - 1 |-> 0]
  /\ staged = FALSE
  /\ wrong = {}

Next == \/ \E c \in Core : HandleInterrupt(c) \/ Threads(c)
        \/ \E v \in Device : Raise(v)
        \/ Push

Spec == Init /\ [][Next]_vars

(* A core goes on with its handler; the scheduler lets the thread of every *)
(* driver that has something to do run again and again.                    *)
DriverStep(v) == \E c \in Core : \/ EnableSoft(c, v) /\ driver[v] = "enable"
                                 \/ EnableHard(c, v) \/ Service(c, v)

FairSpec == /\ Spec
            /\ \A c \in Core : WF_vars(HandleInterrupt(c))
            /\ \A v \in Device : SF_vars(DriverStep(v))

-----------------------------------------------------------------------------
(* The types of the variables.                                             *)
TypeOK ==
  /\ line \in SUBSET Device /\ signalled \in SUBSET Device
  /\ cause \in [Core -> SUBSET Vector] /\ mask \in [Core -> SUBSET Vector]
  /\ {registered, soft, hard, active} \subseteq SUBSET Vector
  /\ isr \in [Core -> [pc : {"idle", "vector", "test", "mask", "handler", "drain",
                             "next"},
                       todo : SUBSET Vector, snap : SUBSET Vector]]
  /\ driver \in [Vector -> {"off", "enable", "unmask", "on", "quiesce", "disabled",
                            "register", "start", "teardown", "gone"}]
  /\ {pushed, freed, taken, seen} \subseteq 0 .. MaxEntries
  /\ ring \in [0 .. IHSlots - 1 -> 0 .. MaxEntries]
  /\ staged \in BOOLEAN
  /\ wrong \subseteq {"false", "disabled", "freed", "order", "overflow"}

(* A driver is called only while its device asserts its interrupt, never   *)
(* because of a cause that was latched before the device was serviced (the *)
(* false interrupt enableVector acknowledges away); and never after its    *)
(* disable returned.                                                       *)
NoFalseInterrupt == TypeOK /\ wrong \cap {"false", "disabled"} = {}

(* consumeIHRing hands on every entry once and in order, whatever the      *)
(* engine pushes while it drains, unless the ring overflowed; it gives no  *)
(* entry back to the engine before it has taken it, and never reads the    *)
(* ring after it was freed.                                                *)
EntriesOnceInOrder ==
  /\ freed <= taken
  /\ "overflow" \notin wrong => "order" \notin wrong /\ taken <= pushed
  /\ "freed" \notin wrong

(* "Continue to interrupt as long as the respective device register has    *)
(* not been cleared": an asserted interrupt is serviced, unless its driver *)
(* is not there or has disabled it.                                        *)
AssertedIsServiced ==
  \A v \in Device :
    v \in line ~> (v \notin line \/ driver[v] \in {"off", "quiesce", "disabled"})

(* Every entry of the interrupt ring is taken, unless the ring goes.       *)
EntriesAreTaken == freed # pushed ~> (freed = pushed \/ driver[GPU] # "on")
=============================================================================
