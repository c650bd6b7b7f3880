--------------------------------- MODULE GX2 ---------------------------------
(***************************************************************************)
(* The GX2 graphics engine and its user clients (WiiGX2, WiiCafeFB,        *)
(* WiiGX2UserClient).  WiiCafeFB::start brings the command processor up    *)
(* and stages the rings and pages in one thread; then the user clients of  *)
(* several tasks put indirect buffers on the one ring while the command    *)
(* processor fetches from it and writes the fence page.                    *)
(*                                                                         *)
(* A slot of the ring stands for one packet: the words of a packet are     *)
(* contiguous and the index wraps by a mask, at any word.  Register        *)
(* programming that decides nothing (shader state, the layout of the       *)
(* rings) is left out.                                                     *)
(***************************************************************************)
EXTENDS Integers, FiniteSets

CONSTANTS
  Client,       \* the tasks that open the engine
  None,
  RingSlots,    \* packets the ring holds (kWiiGX2CPRingBufferDWords)
  SeqMod,       \* fence numbers are 0 .. SeqMod - 1 (UInt32)
  MaxBuffers,   \* buffers of one client (kWiiGX2UCMaxBuffers)
  MaxSubmits,   \* bound: submissions
  MaxFaults     \* bound: allocations that fail and polls that time out

ASSUME RingAssumption == RingSlots \in Nat /\ RingSlots > 3
ASSUME SeqAssumption == SeqMod \in Nat /\ SeqMod > 2 /\ SeqMod % 2 = 0
\* Fewer submissions fit in the ring than half of the numbers.
ASSUME FenceAssumption == 2 * RingSlots + 8 <= 3 * SeqMod
ASSUME BoundsAssumption ==
  MaxBuffers \in Nat /\ MaxSubmits \in Nat /\ MaxFaults \in Nat
ASSUME NoneAssumption == None \notin Client \cup {"absent"} /\ "absent" \notin Client

VARIABLES
  at,        \* where WiiCafeFB::start stands; "up" after it, "gone" after free
  live,      \* the GPU buffers that are allocated
  mem2,      \* _mem2LiveBytes, in pages
  ring,      \* the ring's slots (_ringPtr)
  wptr,      \* _ringWptr
  wptrReg,   \* the write pointer register
  rptr,      \* the command processor's read pointer
  halted,    \* ME and PFP are halted
  cpRunning, \* _cpRunning
  scratch,   \* SCRATCH_REG0 holds the test value
  mem,       \* the first word of every page the command processor writes
  page,      \* the user fence page (_userFenceDesc), 0 when there is none
  userSeq,   \* _userFenceSeq
  userLock,  \* _userSubmitLock, 0 when there is none
  holder,    \* who holds each lock
  pc,        \* where each client's call stands
  open,      \* _open
  bufs,      \* how many buffers each client's table holds (_buffers)
  handed,    \* the last submission of the client: its ordinal and its number
  submits,   \* submissions so far
  done,      \* ordinals whose indirect buffer was executed
  faults,    \* allocations that failed and polls that timed out
  mishap     \* history: what went wrong that no code prevents (see below)

engine  == <<ring, wptr, wptrReg, rptr, halted, cpRunning, scratch, mem>>
fenceVars == <<page, userSeq, userLock, holder>>
clients == <<pc, open, bufs, handed, submits>>
vars == <<at, live, mem2, engine, fenceVars, clients, done, faults, mishap>>

-----------------------------------------------------------------------------
Rings == {"ring", "ihRing", "dmaRing"}
IHBuffers == {"ihRing", "ihWptr"}
DMABuffers == {"dmaRing", "dmaRptr"}
ClearBuffers == {"vs", "ps", "vb", "clear"}
UserPages == {"user1", "user2"}
GPUBuffers == {"ring", "test"} \cup IHBuffers \cup DMABuffers
              \cup ClearBuffers \cup UserPages

(* In pages: a ring takes 16, any other buffer one.                        *)
SizeOf(S) == Cardinality(S) + 15 * Cardinality(S \cap Rings)

UserPage(i) == IF i = 1 THEN "user1" ELSE "user2"

(* allocateGPUBuffer and freeGPUBuffer with their accounting: freeing what *)
(* was never allocated changes nothing.                                    *)
Allocate(S) == /\ live' = live \cup S
               /\ mem2' = mem2 + SizeOf(S)
Free(S) == /\ live' = live \ S
           /\ mem2' = LET size == SizeOf(S \cap live)
                      IN IF size <= mem2 THEN mem2 - size ELSE 0
Memory == <<live, mem2>>

Fault == faults < MaxFaults /\ faults' = faults + 1

Packet(op) == [op |-> op, n |-> 0, val |-> None, page |-> None]
EOP(p, n, v) == [op |-> "EOP", n |-> n, val |-> v, page |-> p]
IB(n) == [op |-> "IB", n |-> n, val |-> None, page |-> None]

(* ringWrite masks the index; nothing compares it with the read pointer.   *)
Advance(i, k) == (i + k) % RingSlots

Pending(end) == (end - rptr) % RingSlots

(* Writes the packets p[1] .. p[k] at the software write pointer.  When    *)
(* they do not fit between it and the read pointer, packets that were not  *)
(* fetched yet are overwritten: "overrun" in mishap.                       *)
Write(p, k) ==
  /\ ring' = [s \in 0 .. RingSlots - 1 |->
                LET i == ((s - wptr) % RingSlots) + 1
                IN IF i \in 1 .. k THEN p[i] ELSE ring[s]]
  /\ wptr' = Advance(wptr, k)

Overran(k) == IF Pending(wptr) + k > RingSlots - 1 THEN {"overrun"} ELSE {}

(* ringCommit: the register takes the software pointer.                    *)
Commit == wptrReg' = wptr'

(* stopCP that forgets to halt the command processor.                      *)
StopCPRunning == /\ cpRunning' = FALSE
                 /\ Free({"ring"} \cup IHBuffers)
                 /\ wptr' = 0
                 /\ UNCHANGED halted

(* setInterruptRingEnabled, teardownInterruptRing and stopCP.              *)
StopCP == /\ halted' = (halted \/ cpRunning)
          /\ cpRunning' = FALSE
          /\ Free({"ring"} \cup IHBuffers)
          /\ wptr' = 0

-----------------------------------------------------------------------------
(* WiiCafeFB::start.  A failure of startCP leaves a display without        *)
(* acceleration; the other failures leave one facility out.                *)

AllocateRing ==
  /\ at = "init"
  /\ \/ /\ Allocate({"ring"})
        /\ at' = "resume"
        /\ UNCHANGED faults
     \/ /\ Fault
        /\ at' = "up"
        /\ UNCHANGED Memory
  /\ UNCHANGED <<engine, fenceVars, clients, done, mishap>>

(* cpResume un-halts the command processor and waits for it to be idle;    *)
(* when it is not, the ring is freed under a running processor.            *)
CPResume ==
  /\ at = "resume"
  /\ halted' = FALSE
  /\ rptr' = 0
  /\ wptrReg' = 0
  /\ wptr' = 0
  /\ \/ /\ cpRunning' = TRUE
        /\ at' = "me"
        /\ UNCHANGED <<Memory, faults>>
     \/ /\ Fault
        /\ Free({"ring"})
        /\ at' = "up"
        /\ UNCHANGED cpRunning
  /\ UNCHANGED <<ring, scratch, mem, fenceVars, clients, done, mishap>>

Emit(p, k) == /\ Write(p, k)
              /\ Commit
              /\ mishap' = mishap \cup Overran(k)
              /\ UNCHANGED <<rptr, halted, cpRunning>>

SubmitMEInitialize ==
  /\ at = "me"
  /\ at' = "meWait"
  /\ Emit(<<Packet("ME")>>, 1)
  /\ UNCHANGED <<Memory, scratch, mem, fenceVars, clients, done, faults>>

SubmitScratch ==
  /\ at = "fence"
  /\ at' = "fenceWait"
  /\ scratch' = FALSE
  /\ Emit(<<Packet("SCRATCH")>>, 1)
  /\ UNCHANGED <<Memory, mem, fenceVars, clients, done, faults>>

(* The two polls startCP cannot do without, and the timeout of each.       *)
PollSeen ==
  /\ \/ at = "meWait" /\ rptr = wptrReg /\ at' = "fence"
     \/ at = "fenceWait" /\ scratch /\ at' = "writeback"
  /\ UNCHANGED <<Memory, engine, fenceVars, clients, done, faults, mishap>>

PollTimesOut ==
  /\ \/ at = "meWait" /\ rptr # wptrReg
     \/ at = "fenceWait" /\ ~scratch
  /\ Fault
  /\ StopCP
  /\ at' = "up"
  /\ UNCHANGED <<ring, wptrReg, rptr, scratch, mem,
                 fenceVars, clients, done, mishap>>

TestCPWriteback ==
  /\ at = "writeback"
  /\ \/ /\ Allocate({"test"})
        /\ mem' = [mem EXCEPT !["test"] = 0]
        /\ Emit(<<Packet("SYNC"), EOP("test", 0, 1)>>, 2)
        /\ at' = "writebackWait"
        /\ UNCHANGED <<scratch, faults>>
     \/ /\ Fault
        /\ at' = "ih"
        /\ UNCHANGED <<Memory, engine, mishap>>
  /\ UNCHANGED <<fenceVars, clients, done>>

(* The page is freed whether or not the fence arrived; after a timeout the *)
(* command processor still has to write it.                                *)
WritebackEnds ==
  /\ at = "writebackWait"
  /\ Free({"test"})
  /\ at' = "ih"
  /\ \/ mem["test"] = 1 /\ UNCHANGED faults
     \/ mem["test"] # 1 /\ Fault
  /\ UNCHANGED <<engine, fenceVars, clients, done, mishap>>

(* setupInterruptRing, setupDMARing and setupClearPipeline allocate all    *)
(* their buffers or, on a failure, free those they had.                    *)
Stage(here, S, next, without) ==
  /\ at = here
  /\ \/ /\ Allocate(S)
        /\ at' = next
        /\ UNCHANGED faults
     \/ /\ Fault
        /\ at' = without
        /\ UNCHANGED Memory
  /\ UNCHANGED <<engine, fenceVars, clients, done, mishap>>

SetupInterruptRing == Stage("ih", IHBuffers, "dma", "dma")
SetupDMARing == Stage("dma", DMABuffers, "clear", "clear")
SetupClearPipeline == Stage("clear", ClearBuffers, "draw", "user")

SubmitColorClear ==
  /\ at = "draw"
  /\ at' = "drawWait"
  /\ mem' = [mem EXCEPT !["clear"] = 0]
  /\ Emit(<<Packet("DRAW"), Packet("SYNC"), EOP("clear", 0, 1)>>, 3)
  /\ UNCHANGED <<Memory, scratch, fenceVars, clients, done, faults>>

ColorClearEnds ==
  /\ at = "drawWait"
  /\ at' = "user"
  /\ \/ mem["clear"] = 1 /\ UNCHANGED faults
     \/ mem["clear"] # 1 /\ Fault
  /\ UNCHANGED <<Memory, engine, fenceVars, clients, done, mishap>>

-----------------------------------------------------------------------------
(* setupUserFence, by start and by every client that finds no page.  It    *)
(* takes no lock: it reads the lock's pointer, allocates one, then         *)
(* allocates the page and resets the numbers.                              *)

(* A second lock or page replaces the first under the clients that use it: *)
(* "replaced" in mishap.                                                   *)
Replaced(old) == IF old = 0 THEN {} ELSE {"replaced"}

LockMade == /\ userLock' = userLock + 1
            /\ holder' = [holder EXCEPT ![userLock + 1] = None]

PageMade ==
  /\ page' = page + 1
  /\ Allocate({UserPage(page + 1)})
  /\ mem' = [mem EXCEPT ![UserPage(page + 1)] = 0]
  /\ userSeq' = 0
  /\ mishap' = mishap \cup Replaced(page)

(* Either allocation may fail; a client then tries again.                  *)
StartUserFence ==
  /\ at = "user"
  /\ at' = "up"
  /\ \/ /\ LockMade
        /\ \/ PageMade /\ UNCHANGED faults
           \/ Fault /\ UNCHANGED <<Memory, mem, page, userSeq, mishap>>
     \/ /\ Fault
        /\ UNCHANGED <<Memory, mem, fenceVars, mishap>>
  /\ UNCHANGED <<ring, wptr, wptrReg, rptr, halted, cpRunning, scratch,
                 clients, done>>

Goto(c, l) == pc' = [pc EXCEPT ![c] = l]

(* newUserClient and start.                                                *)
Open(c) ==
  /\ at = "up" /\ cpRunning
  /\ pc[c] = "closed"
  /\ Goto(c, CASE page # 0 -> "started"
               [] page = 0 /\ userLock = 0 -> "newLock"
               [] OTHER -> "newPage")
  /\ UNCHANGED <<at, Memory, engine, fenceVars, open, bufs, handed,
                 submits, done, faults, mishap>>

ClientLock(c) ==
  /\ pc[c] = "newLock"
  /\ \/ /\ LockMade
        /\ mishap' = mishap \cup Replaced(userLock)
        /\ Goto(c, "newPage")
        /\ UNCHANGED faults
     \/ /\ Fault
        /\ Goto(c, "closed")
        /\ UNCHANGED <<userLock, holder, mishap>>
  /\ UNCHANGED <<at, Memory, engine, page, userSeq, open, bufs, handed,
                 submits, done>>

ClientPage(c) ==
  /\ pc[c] = "newPage"
  /\ \/ /\ PageMade
        /\ Goto(c, "started")
        /\ UNCHANGED faults
     \/ /\ Fault
        /\ Goto(c, "closed")
        /\ UNCHANGED <<Memory, mem, page, userSeq, mishap>>
  /\ UNCHANGED <<at, ring, wptr, wptrReg, rptr, halted, cpRunning, scratch,
                 userLock, holder, open, bufs, handed, submits, done>>

Started(c) ==
  /\ pc[c] = "started"
  /\ open' = [open EXCEPT ![c] = TRUE]
  /\ Goto(c, "idle")
  /\ UNCHANGED <<at, Memory, engine, fenceVars, bufs, handed,
                 submits, done, faults, mishap>>

-----------------------------------------------------------------------------
(* The methods of an open client.  Several threads of a task may be in     *)
(* them: a buffer may be freed while a submission of it is under way.      *)

AllocBuffer(c) ==
  /\ open[c]
  /\ bufs[c] < MaxBuffers
  /\ bufs' = [bufs EXCEPT ![c] = @ + 1]
  /\ UNCHANGED <<at, Memory, engine, fenceVars, pc, open, handed,
                 submits, done, faults, mishap>>

FreeBuffer(c) ==
  /\ open[c]
  /\ bufs[c] > 0
  /\ bufs' = [bufs EXCEPT ![c] = @ - 1]
  /\ UNCHANGED <<at, Memory, engine, fenceVars, pc, open, handed,
                 submits, done, faults, mishap>>

(* methodSubmitIB reads the buffer's address under the table's lock and    *)
(* uses it after the unlock.                                               *)
SubmitIB(c) ==
  /\ open[c] /\ cpRunning
  /\ pc[c] = "idle"
  /\ bufs[c] > 0
  /\ Goto(c, "submit")
  /\ UNCHANGED <<at, Memory, engine, fenceVars, open, bufs, handed,
                 submits, done, faults, mishap>>

(* Zero is skipped: it is what a fresh page holds.                         *)
NextSeq(s) == IF (s + 1) % SeqMod = 0 THEN 1 ELSE (s + 1) % SeqMod

(* submitIndirectBuffer: the lock and the number, three packets, and the   *)
(* commit with the unlock.  The lock is read from the engine each time.    *)
LockIgnored(l) == TRUE
LockFree(l) == holder[l] = None

SubmitLock(c) ==
  /\ pc[c] = "submit"
  /\ submits < MaxSubmits
  /\ LockFree(userLock)
  /\ holder' = [holder EXCEPT ![userLock] = c]
  /\ userSeq' = NextSeq(userSeq)
  /\ submits' = submits + 1
  /\ handed' = [handed EXCEPT ![c] = [n |-> submits + 1, seq |-> userSeq']]
  /\ Goto(c, "ib")
  /\ UNCHANGED <<at, Memory, engine, page, userLock, open, bufs,
                 done, faults, mishap>>

EmitPacket(c) ==
  LET h == handed[c] IN
  /\ \/ /\ pc[c] = "ib"
        /\ Goto(c, "sync")
        /\ Write(<<IB(h.n)>>, 1)
     \/ /\ pc[c] = "sync"
        /\ Goto(c, "eop")
        /\ Write(<<Packet("SYNC")>>, 1)
     \/ /\ pc[c] = "eop"
        /\ Goto(c, "commit")
        /\ Write(<<EOP(UserPage(page), h.n, h.seq)>>, 1)
  /\ mishap' = mishap \cup Overran(1)
  /\ UNCHANGED <<at, Memory, wptrReg, rptr, halted, cpRunning, scratch, mem,
                 fenceVars, open, bufs, handed, submits, done, faults>>

RegisterBehind == wptrReg
RegisterAtCommit == wptr

SubmitCommit(c) ==
  /\ pc[c] = "commit"
  /\ wptrReg' = RegisterAtCommit
  /\ holder' = [holder EXCEPT ![userLock] = None]
  /\ Goto(c, "idle")
  /\ UNCHANGED <<at, Memory, ring, wptr, rptr, halted, cpRunning, scratch, mem,
                 page, userSeq, userLock, open, bufs, handed, submits,
                 done, faults, mishap>>

(* A comparison that forgets the wrap.                                     *)
ReachedUnsigned(observed, seq) == observed >= seq

(* waitUserFence: a signed comparison, safe when the numbers wrap; zero is *)
(* always reached.                                                         *)
Reached(observed, seq) ==
  seq = 0 \/ (observed - seq) % SeqMod < SeqMod \div 2

(* readUserFence: what the command processor has written to the page.      *)
ReadUserFence == mem[UserPage(page)]

(* methodWaitFence and methodReadFence, for the client's last submission.  *)
WaitFence(c) ==
  page # 0 /\ Reached(ReadUserFence, handed[c].seq)

(* clientClose and clientDied end the client; its object is freed, with    *)
(* the buffers, when no call holds it any more.                            *)
Close(c) ==
  /\ open[c]
  /\ open' = [open EXCEPT ![c] = FALSE]
  /\ UNCHANGED <<at, Memory, engine, fenceVars, pc, bufs, handed,
                 submits, done, faults, mishap>>

FreeClient(c) ==
  /\ ~open[c] /\ pc[c] = "idle"
  /\ Goto(c, "closed")
  /\ bufs' = [bufs EXCEPT ![c] = 0]
  /\ handed' = [handed EXCEPT ![c] = [n |-> 0, seq |-> 0]]
  /\ UNCHANGED <<at, Memory, engine, fenceVars, open,
                 submits, done, faults, mishap>>

(* teardownDMARing frees its buffers in whatever state the ring is.        *)
TeardownDMARing == DMABuffers \cap live

(* teardownUserFence: the page, its numbers and the lock go.               *)
UserFenceBuffers == IF page = 0 THEN {} ELSE {UserPage(page)}
TeardownUserFence == page' = 0 /\ userSeq' = 0 /\ userLock' = 0

(* A tear-down that forgets the DMA ring.                                  *)
TeardownKeepsDMA ==
  Free(IHBuffers \cup ClearBuffers \cup {"ring"} \cup UserFenceBuffers)

(* WiiGX2::free: stopCP, then every facility is torn down.                 *)
Teardown == Free(TeardownDMARing \cup IHBuffers \cup ClearBuffers
                 \cup {"ring"} \cup UserFenceBuffers)

FreeEngine ==
  /\ at = "up"
  /\ \A c \in Client : pc[c] = "closed"
  /\ at' = "gone"
  /\ halted' = (halted \/ cpRunning)
  /\ cpRunning' = FALSE
  /\ wptr' = 0
  /\ Teardown
  /\ TeardownUserFence
  /\ UNCHANGED <<ring, wptrReg, rptr, scratch, mem, holder,
                 clients, done, faults, mishap>>

-----------------------------------------------------------------------------
(* The command processor executes the packet at its read pointer.  The     *)
(* ring's memory keeps the packet, but a slot is written again before it   *)
(* is fetched again: the model clears it.                                  *)
CPFetch ==
  /\ ~halted
  /\ rptr # wptrReg
  /\ LET p == ring[rptr] IN
       /\ scratch' = (scratch \/ p.op = "SCRATCH")
       /\ mem' = IF p.op = "EOP" THEN [mem EXCEPT ![p.page] = p.val] ELSE mem
       /\ done' = IF p.op = "IB" THEN done \cup {p.n} ELSE done
  /\ ring' = [ring EXCEPT ![rptr] = Packet("NOP")]
  /\ rptr' = Advance(rptr, 1)
  /\ UNCHANGED <<at, Memory, wptr, wptrReg, halted, cpRunning,
                 fenceVars, clients, faults, mishap>>

-----------------------------------------------------------------------------
Locks == 1 .. 2

Init ==
  /\ at = "init"
  /\ live = {} /\ mem2 = 0
  /\ ring = [s \in 0 .. RingSlots - 1 |-> Packet("NOP")]
  /\ wptr = 0 /\ wptrReg = 0 /\ rptr = 0
  /\ halted = TRUE /\ cpRunning = FALSE
  /\ scratch = FALSE
  /\ mem = [p \in {"test", "clear"} \cup UserPages |-> 0]
  /\ page = 0 /\ userSeq = 0 /\ userLock = 0
  /\ holder = [l \in Locks |-> "absent"]
  /\ pc = [c \in Client |-> "closed"]
  /\ open = [c \in Client |-> FALSE]
  /\ bufs = [c \in Client |-> 0]
  /\ handed = [c \in Client |-> [n |-> 0, seq |-> 0]]
  /\ submits = 0 /\ done = {}
  /\ faults = 0 /\ mishap = {}

Start == \/ AllocateRing \/ CPResume \/ SubmitMEInitialize \/ SubmitScratch
         \/ PollSeen \/ PollTimesOut \/ TestCPWriteback \/ WritebackEnds
         \/ SetupInterruptRing \/ SetupDMARing \/ SetupClearPipeline
         \/ SubmitColorClear \/ ColorClearEnds \/ StartUserFence

ClientStep(c) == \/ Open(c) \/ ClientLock(c) \/ ClientPage(c) \/ Started(c)
                 \/ AllocBuffer(c) \/ FreeBuffer(c) \/ SubmitIB(c)
                 \/ SubmitLock(c) \/ EmitPacket(c) \/ SubmitCommit(c)
                 \/ Close(c) \/ FreeClient(c)

(* The model ends at a mishap: what the engine does with a torn ring is    *)
(* undefined.                                                              *)
Next == /\ mishap = {}
        /\ \/ Start
           \/ \E c \in Client : ClientStep(c)
           \/ FreeEngine
           \/ CPFetch

Spec == Init /\ [][Next]_vars

-----------------------------------------------------------------------------
TypeOK ==
  /\ live \subseteq GPUBuffers
  /\ mem2 \in Nat
  /\ {wptr, wptrReg, rptr} \subseteq 0 .. RingSlots - 1
  /\ \A s \in 0 .. RingSlots - 1 :
       ring[s].op \in {"NOP", "ME", "SCRATCH", "SYNC", "DRAW", "IB", "EOP"}
  /\ halted \in BOOLEAN /\ cpRunning \in BOOLEAN /\ scratch \in BOOLEAN
  /\ \A p \in DOMAIN mem : mem[p] \in 0 .. SeqMod - 1
  /\ {page, userLock} \subseteq 0 .. 2 /\ userSeq \in 0 .. SeqMod - 1
  /\ \A l \in Locks : holder[l] \in Client \cup {None, "absent"}
  /\ \A c \in Client : /\ bufs[c] \in 0 .. MaxBuffers
                       /\ handed[c].n \in 0 .. MaxSubmits
                       /\ handed[c].seq \in 0 .. SeqMod - 1
  /\ done \subseteq 1 .. MaxSubmits

(* The packets the command processor may fetch, oldest first.              *)
Committed == [i \in 1 .. Pending(wptrReg) |-> ring[Advance(rptr, i - 1)]]

(* "The submission lock serialises PM4 emission": what is committed is     *)
(* made of whole submissions, each indirect buffer followed by its own     *)
(* flush and its own fence, in the order of their numbers; as long as the  *)
(* ring was not overrun and setupUserFence did not run twice.              *)
WholeSubmissions ==
  mishap = {} =>
    LET q == Committed IN
    \A i \in DOMAIN q :
      /\ q[i].op = "IB" => /\ i + 2 \in DOMAIN q
                           /\ q[i + 1].op = "SYNC"
                           /\ q[i + 2].op = "EOP"
                           /\ q[i + 2].n = q[i].n
      /\ \A j \in DOMAIN q : q[i].op = "IB" /\ q[j].op = "IB" /\ i < j
                               => q[i].n < q[j].n

(* When WaitFence tells a client that its submission is reached, its       *)
(* indirect buffer has been executed, also when the numbers wrapped.       *)
FenceMeansExecuted ==
  \A c \in Client :
    /\ mishap = {}
    /\ pc[c] = "idle" /\ handed[c].n # 0
    /\ WaitFence(c)
    => handed[c].n \in done

(* The command processor never fetches from a ring that is freed, and      *)
(* never writes a page that is freed; save the page of the writeback test, *)
(* which is freed at its timeout.                                          *)
WritesOnlyLive ==
  ~halted /\ rptr # wptrReg =>
    /\ "ring" \in live
    /\ mishap = {} =>
         \A i \in DOMAIN Committed :
           Committed[i].op = "EOP" => Committed[i].page \in live \cup {"test"}

(* _mem2LiveBytes is what the live buffers take, in every failure of the   *)
(* bring-up too, and the driver leaves nothing behind.                     *)
Accounted ==
  /\ TypeOK
  /\ mem2 = SizeOf(live)
  /\ at = "gone" /\ "replaced" \notin mishap => live = {}

(* No client waits for ever: when no submission is under way and the       *)
(* command processor has nothing left to fetch, every submission has been  *)
(* executed and the fence page holds the number of the last one.           *)
NothingStuck ==
  /\ mishap = {} /\ at = "up" /\ page # 0
  /\ rptr = wptrReg
  /\ \A c \in Client : pc[c] \in {"closed", "idle"}
  => ReadUserFence = userSeq /\ done = 1 .. submits
=============================================================================
