------------------------------- MODULE GX2Proofs -------------------------------
(***************************************************************************)
(* The GX2 ring, its fence and the accounting of its buffers, for any      *)
(* number of clients and any length of the ring.                           *)
(***************************************************************************)
EXTENDS GX2, FiniteSetTheorems, TLAPS

-----------------------------------------------------------------------------
(* Remainders near the range of the divisor.                               *)
LEMMA Division ==
  ASSUME NEW n \in Nat, n > 0, NEW i \in Int
  PROVE  /\ i % n \in Int /\ 0 <= i % n /\ i % n < n
         /\ i \div n \in Int /\ i = n * (i \div n) + (i % n)
  OBVIOUS

LEMMA Remainder ==
  ASSUME NEW n \in Nat, n > 0, NEW i \in Int, NEW k \in {-1, 0, 1},
         n * k <= i, i < n * k + n
  PROVE  i % n = i - n * k
<1> DEFINE q == i \div n
           r == i % n
<1>1. r \in Int /\ 0 <= r /\ r < n /\ q \in Int /\ i = n * q + r
  BY Division
<1> HIDE DEF q, r
<1>2. n * (q - k) = n * q - n * k /\ q - k \in Int
  BY <1>1
<1>3. CASE q - k >= 1
  <2>1. n * (q - k) >= n
    BY <1>2, <1>3
  <2> QED BY <1>1, <1>2, <2>1
<1>4. CASE q - k <= -1
  <2>1. n * (q - k) <= -n
    BY <1>2, <1>4
  <2> QED BY <1>1, <1>2, <2>1
<1>5. CASE q - k = 0
  <2>1. q = k
    BY <1>1, <1>5
  <2> QED BY <1>1, <2>1 DEF r
<1> QED BY <1>2, <1>3, <1>4, <1>5

LEMMA Modulo ==
  ASSUME NEW n \in Nat, n > 0
  PROVE  /\ \A i \in 0 .. n - 1 : i % n = i
         /\ \A i \in n .. 2 * n - 1 : i % n = i - n
         /\ \A i \in -n .. -1 : i % n = i + n
<1>1. ASSUME NEW i \in 0 .. n - 1 PROVE i % n = i
  <2>1. i % n = i - n * 0
    BY Remainder
  <2> QED BY <2>1
<1>2. ASSUME NEW i \in n .. 2 * n - 1 PROVE i % n = i - n
  <2>1. i % n = i - n * 1
    BY Remainder
  <2> QED BY <2>1
<1>3. ASSUME NEW i \in -n .. -1 PROVE i % n = i + n
  <2>1. i % n = i - n * (-1)
    BY Remainder
  <2> QED BY <2>1
<1> QED BY <1>1, <1>2, <1>3

Index == 0 .. RingSlots - 1

LEMMA AdvanceIs ==
  ASSUME NEW i \in Index, NEW k \in 0 .. RingSlots
  PROVE  /\ Advance(i, k) = IF i + k < RingSlots THEN i + k ELSE i + k - RingSlots
         /\ Advance(i, k) \in Index
<1>1. i + k \in 0 .. RingSlots - 1 \/ i + k \in RingSlots .. 2 * RingSlots - 1
  BY RingAssumption DEF Index
<1> QED BY <1>1, Modulo, RingAssumption DEF Advance, Index

LEMMA GapIs ==
  ASSUME NEW r \in Index, NEW e \in Index
  PROVE  /\ (e - r) % RingSlots = IF e >= r THEN e - r ELSE e - r + RingSlots
         /\ (e - r) % RingSlots \in Index
         /\ Advance(r, (e - r) % RingSlots) = e
<1> DEFINE g == (e - r) % RingSlots
<1>1. e - r \in 0 .. RingSlots - 1 \/ e - r \in -RingSlots .. -1
  BY RingAssumption DEF Index
<1>2. g = IF e >= r THEN e - r ELSE e - r + RingSlots
  BY <1>1, Modulo, RingAssumption DEF Index
<1> HIDE DEF g
<1>3. g \in Index /\ g \in 0 .. RingSlots
  BY <1>2, RingAssumption DEF Index
<1>4. Advance(r, g) = IF r + g < RingSlots THEN r + g ELSE r + g - RingSlots
  BY <1>3, AdvanceIs
<1>5. Advance(r, g) = e
  BY <1>2, <1>4, RingAssumption DEF Index
<1> QED BY <1>2, <1>3, <1>5 DEF g

(* A slot counted from the read pointer is reached once per round.         *)
LEMMA AdvanceGap ==
  ASSUME NEW r \in Index, NEW k \in Index
  PROVE  (Advance(r, k) - r) % RingSlots = k
<1>1. k \in 0 .. RingSlots
  BY RingAssumption DEF Index
<1>2. /\ Advance(r, k) = IF r + k < RingSlots THEN r + k ELSE r + k - RingSlots
      /\ Advance(r, k) \in Index
  BY <1>1, AdvanceIs
<1> DEFINE a == Advance(r, k)
<1>3. (a - r) % RingSlots = IF a >= r THEN a - r ELSE a - r + RingSlots
  BY <1>2, GapIs
<1> QED BY <1>2, <1>3, RingAssumption DEF Index

LEMMA AdvanceAdd ==
  ASSUME NEW r \in Index, NEW j \in Index, NEW k \in 0 .. RingSlots, j + k <= RingSlots
  PROVE  Advance(Advance(r, j), k) = Advance(r, j + k)
<1>1. j \in 0 .. RingSlots /\ j + k \in 0 .. RingSlots
  BY RingAssumption DEF Index
<1> DEFINE a == Advance(r, j)
<1>2. a = (IF r + j < RingSlots THEN r + j ELSE r + j - RingSlots) /\ a \in Index
  BY <1>1, AdvanceIs
<1> HIDE DEF a
<1>3. Advance(a, k) = IF a + k < RingSlots THEN a + k ELSE a + k - RingSlots
  BY <1>2, AdvanceIs
<1>4. Advance(r, j + k) = IF r + (j + k) < RingSlots THEN r + (j + k)
                                                     ELSE r + (j + k) - RingSlots
  BY <1>1, AdvanceIs
<1> QED BY <1>2, <1>3, <1>4, RingAssumption DEF Index, a

-----------------------------------------------------------------------------
(* Fence numbers.  The n-th submission since the page was made has the     *)
(* number SeqOf(n): zero is skipped when the numbers wrap.                 *)
SeqOf(n) == IF n = 0 THEN 0 ELSE 1 + ((n - 1) % (SeqMod - 1))

LEMMA SeqOfType == ASSUME NEW n \in Nat PROVE SeqOf(n) \in 0 .. SeqMod - 1
<1>1. CASE n # 0
  <2>1. n - 1 \in Int /\ SeqMod - 1 \in Nat /\ SeqMod - 1 > 0
    BY SeqAssumption
  <2>2. (n - 1) % (SeqMod - 1) \in 0 .. SeqMod - 2
    BY <2>1, Division, SeqAssumption
  <2> QED BY <1>1, <2>2, SeqAssumption DEF SeqOf
<1>2. CASE n = 0
  BY <1>2, SeqAssumption DEF SeqOf
<1> QED BY <1>1, <1>2

(* m before n by less than a round: the numbers differ as m and n do,      *)
(* except that the zero between them is skipped.                           *)
LEMMA SeqOfLater ==
  ASSUME NEW m \in Nat, NEW d \in Nat, 0 < d, d < SeqMod - 1
  PROVE  SeqOf(m + d) \in {SeqOf(m) + d, SeqOf(m) + d - SeqMod + 1}
<1> DEFINE M == SeqMod - 1
<1>1. M \in Nat /\ M > 0
  BY SeqAssumption
<1> HIDE DEF M
<1>2. d < M
  BY DEF M
<1>3. CASE m = 0
  <2>1. d - 1 \in 0 .. M - 1
    BY <1>1, <1>2
  <2>2. (d - 1) % M = d - 1
    BY <1>1, <2>1, Modulo
  <2> QED BY <1>3, <2>2 DEF SeqOf, M
<1>4. CASE m # 0
  <2> DEFINE r == (m - 1) % M
             q == (m - 1) \div M
  <2>1. m - 1 \in Int /\ r \in 0 .. M - 1 /\ q \in Int /\ m - 1 = M * q + r
    BY <1>1, Division
  <2> HIDE DEF r, q
  <2>2. (m + d - 1) % M = (r + d) % M
    <3> DEFINE t == (m + d - 1) % M
               p == (m + d - 1) \div M
    <3>1. m + d - 1 \in Int /\ t \in 0 .. M - 1 /\ p \in Int /\ m + d - 1 = M * p + t
      BY <1>1, Division
    <3> HIDE DEF t, p
    <3>2. r + d = M * p - M * q + t
      BY <1>1, <2>1, <3>1
    <3>3. M * (p - q) = M * p - M * q /\ p - q \in Int
      BY <1>1, <2>1, <3>1
    <3>4. p - q \in {0, 1}
      <4>1. CASE p - q >= 2
        <5>1. M * (p - q) >= 2 * M
          BY <1>1, <3>3, <4>1
        <5> QED BY <1>1, <1>2, <2>1, <3>1, <3>2, <3>3, <5>1
      <4>2. CASE p - q <= -1
        <5>1. M * (p - q) <= -M
          BY <1>1, <3>3, <4>2
        <5> QED BY <1>1, <1>2, <2>1, <3>1, <3>2, <3>3, <5>1
      <4> QED BY <3>3, <4>1, <4>2
    <3>5. r + d = t \/ r + d = t + M
      BY <1>1, <3>1, <3>2, <3>3, <3>4
    <3>6. (r + d) % M = t
      <4>1. r + d \in 0 .. M - 1 \/ r + d \in M .. 2 * M - 1
        BY <1>1, <1>2, <2>1
      <4> QED BY <1>1, <1>2, <2>1, <3>1, <3>5, <4>1, Modulo
    <3> QED BY <3>6 DEF t
  <2>3. (r + d) % M \in {r + d, r + d - M}
    <3>1. r + d \in 0 .. M - 1 \/ r + d \in M .. 2 * M - 1
      BY <1>1, <1>2, <2>1
    <3> QED BY <1>1, <2>1, <3>1, Modulo
  <2>4. SeqOf(m) = 1 + r
    BY <1>4 DEF SeqOf, r, M
  <2>5. SeqOf(m + d) = 1 + ((m + d - 1) % M)
    BY <1>4 DEF SeqOf, M
  <2>6. (m + d - 1) % M \in {r + d, r + d - M}
    BY <2>2, <2>3
  <2>7. SeqOf(m + d) \in {1 + r + d, 1 + r + d - M}
    BY <1>1, <2>1, <2>5, <2>6
  <2> QED BY <2>1, <2>4, <2>7, SeqAssumption DEF M
<1> QED BY <1>3, <1>4

(* The number taken next is that of the next submission.                   *)
LEMMA SeqOfNext == ASSUME NEW n \in Nat PROVE NextSeq(SeqOf(n)) = SeqOf(n + 1)
<1>1. SeqOf(n + 1) \in {SeqOf(n) + 1, SeqOf(n) + 1 - SeqMod + 1}
  BY SeqOfLater, SeqAssumption
<1>2. SeqOf(n) \in 0 .. SeqMod - 1 /\ SeqOf(n + 1) \in 0 .. SeqMod - 1
  BY SeqOfType
<1>3. SeqOf(n + 1) # 0
  <2>1. n \in Int /\ SeqMod - 1 \in Nat /\ SeqMod - 1 > 0
    BY SeqAssumption
  <2>2. n % (SeqMod - 1) \in Int /\ 0 <= n % (SeqMod - 1)
    BY <2>1, Division
  <2> QED BY <2>2 DEF SeqOf
<1>4. CASE SeqOf(n) + 1 < SeqMod
  <2>1. (SeqOf(n) + 1) % SeqMod = SeqOf(n) + 1
    BY <1>2, <1>4, SeqAssumption, Modulo
  <2> QED BY <1>1, <1>2, <1>3, <1>4, <2>1, SeqAssumption DEF NextSeq
<1>5. CASE SeqOf(n) + 1 = SeqMod
  <2>1. (SeqOf(n) + 1) % SeqMod = 0
    BY <1>2, <1>5, SeqAssumption, Modulo
  <2> QED BY <1>1, <1>2, <1>5, <2>1, SeqAssumption DEF NextSeq
<1> QED BY <1>2, <1>4, <1>5, SeqAssumption

(* What is handed out less than half of the numbers after the observed one *)
(* is not taken for reached.                                               *)
LEMMA NotReached ==
  ASSUME NEW m \in Nat, NEW d \in Nat, 0 < d, 2 * d + 2 <= SeqMod
  PROVE  ~Reached(SeqOf(m), SeqOf(m + d))
<1>1. SeqOf(m + d) \in {SeqOf(m) + d, SeqOf(m) + d - SeqMod + 1}
  BY SeqOfLater, SeqAssumption
<1>2. SeqOf(m) \in 0 .. SeqMod - 1 /\ SeqOf(m + d) \in 0 .. SeqMod - 1
  BY SeqOfType
<1>3. SeqOf(m + d) # 0
  <2>1. m + d - 1 \in Int /\ SeqMod - 1 \in Nat /\ SeqMod - 1 > 0 /\ m + d # 0
    BY SeqAssumption
  <2>2. (m + d - 1) % (SeqMod - 1) \in Int /\ 0 <= (m + d - 1) % (SeqMod - 1)
    BY <2>1, Division
  <2> QED BY <2>1, <2>2 DEF SeqOf
<1> DEFINE D == SeqOf(m) - SeqOf(m + d)
<1>4. D = -d \/ D = SeqMod - 1 - d
  BY <1>1, <1>2, SeqAssumption
<1>5. D % SeqMod \in {SeqMod - d, SeqMod - 1 - d}
  <2>1. -d \in -SeqMod .. -1 /\ SeqMod - 1 - d \in 0 .. SeqMod - 1
    BY SeqAssumption
  <2> QED BY <1>4, <2>1, Modulo, SeqAssumption
<1>6. SeqMod \div 2 \in Nat /\ 2 * (SeqMod \div 2) <= SeqMod
  BY SeqAssumption
<1>7. ~(D % SeqMod < SeqMod \div 2)
  BY <1>5, <1>6, SeqAssumption
<1> QED BY <1>3, <1>7 DEF Reached

-----------------------------------------------------------------------------
(* The inductive invariant.                                                *)

Outside == {"closed", "newLock", "newPage", "started"}
Sending == {"ib", "sync", "eop", "commit"}
ToIH == {"init", "resume", "me", "meWait", "fence", "fenceWait", "writeback",
         "writebackWait", "ih"}
BeforeUp == ToIH \cup {"dma", "clear", "draw", "drawWait", "user"}

Targets == {"test", "clear"} \cup UserPages
Number == 0 .. SeqMod - 1
Packets ==
  {p \in [op : {"NOP", "ME", "SCRATCH", "SYNC", "DRAW", "IB", "EOP"},
          n : 0 .. MaxSubmits, val : Number \cup {None}, page : Targets \cup {None}] :
     /\ p.op = "EOP" => p.page \in Targets /\ p.val \in Number
     /\ p.op = "IB" => p.n > 0}

EngineTypes ==
  /\ at \in BeforeUp \cup {"up", "gone"}
  /\ ring \in [Index -> Packets]
  /\ wptr \in Index /\ wptrReg \in Index /\ rptr \in Index
  /\ halted \in BOOLEAN /\ cpRunning \in BOOLEAN /\ scratch \in BOOLEAN
  /\ mem \in [Targets -> Number]
  /\ done \in SUBSET (1 .. MaxSubmits)

ClientTypes ==
  /\ page \in 0 .. 2 /\ userLock \in 0 .. 2 /\ userSeq \in Number
  /\ holder \in [Locks -> Client \cup {None, "absent"}]
  /\ pc \in [Client -> Outside \cup {"idle", "submit"} \cup Sending]
  /\ open \in [Client -> BOOLEAN]
  /\ bufs \in [Client -> 0 .. MaxBuffers]
  /\ handed \in [Client -> [n : 0 .. MaxSubmits, seq : Number]]
  /\ submits \in 0 .. MaxSubmits
  /\ mishap \in SUBSET {"overrun", "replaced"}
  /\ \A c \in Client : pc[c] \in Sending => handed[c].n > 0

(* What is allocated where the bring-up stands, and afterwards.            *)
Accounts ==
  /\ live \in SUBSET GPUBuffers /\ mem2 = SizeOf(live)
  /\ at = "init" \/ at = "gone" => live = {}
  /\ cpRunning \/ at \in BeforeUp \ {"init"} => "ring" \in live
  /\ "test" \in live <=> at = "writebackWait"
  /\ at \in ToIH => IHBuffers \cap live = {}
  /\ at \in ToIH \cup {"dma"} => DMABuffers \cap live = {}
  /\ at \in ToIH \cup {"dma", "clear"} => ClearBuffers \cap live = {}
  /\ at \in {"draw", "drawWait"} => ClearBuffers \subseteq live
  /\ ("user1" \in live <=> page # 0) /\ ("user2" \in live <=> page = 2)
  /\ ~halted /\ ~cpRunning => rptr = wptrReg

(* Who may be where: the clients come after the bring-up, with one page    *)
(* and one lock, whose holder is the only one in the ring.                 *)
Phases ==
  /\ at \in {"init", "resume"} => halted /\ ~cpRunning
  /\ at \in BeforeUp \ {"init", "resume"} => cpRunning
  /\ at = "gone" => ~cpRunning
  /\ at \in BeforeUp => userLock = 0
  /\ cpRunning => ~halted
  /\ page # 0 => userLock # 0 /\ at = "up"
  /\ userLock \in {0, 1} /\ page \in {0, 1}
  /\ userLock # 0 => holder[1] # "absent"
  /\ at # "gone" /\ page = 0 => submits = 0 /\ userSeq = 0
  /\ at \in BeforeUp \/ ~cpRunning => \A c \in Client : pc[c] = "closed"
  /\ \A c \in Client :
       /\ pc[c] \in Outside \ {"started"} \/ page = 1
       /\ pc[c] = "newPage" => userLock = 1
       /\ pc[c] \in Sending <=> holder[1] = c

(* The submission in hand, how many of its packets are written, how many   *)
(* submissions are committed as a whole, how many packets wait for the     *)
(* command processor and how many packets of submissions it has fetched.   *)
InHand == holder[1] \in Client
Sent(l) == IF l = "sync" THEN 1 ELSE IF l = "eop" THEN 2 ELSE IF l = "commit" THEN 3 ELSE 0
Written == IF InHand THEN Sent(pc[holder[1]]) ELSE 0
Whole   == IF InHand THEN submits - 1 ELSE submits
Waiting == Pending(wptrReg)
Fetched == IF 3 * Whole > Waiting THEN 3 * Whole - Waiting ELSE 0

(* Fence numbers follow the submissions, on the page those fetched.        *)
Numbers ==
  /\ InHand => submits > 0
  /\ at # "gone" => userSeq = SeqOf(submits)
  /\ \A c \in Client :
       /\ handed[c].seq = SeqOf(handed[c].n)
       /\ handed[c].n <= Whole \/ holder[1] = c
       /\ holder[1] = c => handed[c].n = submits
       /\ pc[c] \in Outside => handed[c].n = 0
  /\ done = 1 .. ((Fetched + 2) \div 3)
  /\ page = 1 => mem["user1"] = SeqOf(Fetched \div 3)

(* The u-th packet of all submissions, counted from zero.                  *)
UserPacket(u) ==
  IF u % 3 = 0 THEN IB(u \div 3 + 1)
  ELSE IF u % 3 = 1 THEN Packet("SYNC")
  ELSE EOP("user1", u \div 3 + 1, SeqOf(u \div 3 + 1))

StartPackets == {Packet("ME"), Packet("SCRATCH"), Packet("SYNC"), Packet("DRAW"),
                 EOP("test", 0, 1), EOP("clear", 0, 1)}

(* The packet that waits i places behind the read pointer.                 *)
PacketIs(i) ==
  LET u == 3 * Whole - Waiting + i IN
  IF u < 0 THEN ring[Advance(rptr, i)] \in StartPackets
           ELSE ring[Advance(rptr, i)] = UserPacket(u)

Window ==
  /\ cpRunning => /\ Waiting + Written < RingSlots
                  /\ wptr = Advance(rptr, Waiting + Written)
  /\ \A i \in Index : i < Waiting + Written => PacketIs(i)
  /\ ~halted => \A i \in Index :
       i < Waiting /\ ring[Advance(rptr, i)].op = "EOP"
         => ring[Advance(rptr, i)].page # "clear" \/ "clear" \in live

IInv == /\ EngineTypes /\ ClientTypes /\ Accounts
        /\ mishap = {} => Phases /\ Numbers /\ Window

-----------------------------------------------------------------------------
(* The types.                                                              *)

LEMMA PacketTypes ==
  /\ \A op \in {"NOP", "ME", "SCRATCH", "SYNC", "DRAW"} : Packet(op) \in Packets
  /\ \A n \in 1 .. MaxSubmits : IB(n) \in Packets
  /\ \A p \in Targets, n \in 0 .. MaxSubmits, v \in Number : EOP(p, n, v) \in Packets
<1>1. 0 \in 0 .. MaxSubmits
  BY BoundsAssumption
<1> QED BY <1>1 DEF Packets, Packet, IB, EOP

LEMMA WriteTypes ==
  ASSUME ring \in [Index -> Packets], wptr \in Index, NEW k \in 1 .. 3, NEW p,
         \A i \in 1 .. k : p[i] \in Packets, Write(p, k)
  PROVE  ring' \in [Index -> Packets] /\ wptr' \in Index
<1>1. wptr' \in Index
  BY AdvanceIs, RingAssumption DEF Write
<1>2. ring' \in [Index -> Packets]
  BY DEF Write, Index
<1> QED BY <1>1, <1>2

LEMMA EmitTypes ==
  ASSUME EngineTypes, NEW k \in 1 .. 3, NEW p,
         \A i \in 1 .. k : p[i] \in Packets, Emit(p, k)
  PROVE  /\ ring' \in [Index -> Packets]
         /\ wptr' \in Index /\ wptrReg' \in Index /\ rptr' = rptr
         /\ halted' = halted /\ cpRunning' = cpRunning
         /\ mishap' = mishap \cup Overran(k)
<1>1. Write(p, k) /\ wptrReg' = wptr'
  BY DEF Emit, Commit
<1>2. ring' \in [Index -> Packets] /\ wptr' \in Index
  BY <1>1, WriteTypes DEF EngineTypes
<1> QED BY <1>1, <1>2 DEF Emit

LEMMA SmallNumbers == 0 \in Number /\ 1 \in Number /\ 0 \in Index /\ 0 \in 0 .. MaxSubmits
  BY SeqAssumption, RingAssumption, BoundsAssumption DEF Number, Index

LEMMA EngineTypesStart == EngineTypes /\ Start => EngineTypes'
<1> SUFFICES ASSUME EngineTypes, Start PROVE EngineTypes'
  OBVIOUS
<1> USE SmallNumbers, PacketTypes DEF engine, Memory, ToIH, BeforeUp, Targets
<1>1. CASE AllocateRing
  BY <1>1 DEF EngineTypes, AllocateRing
<1>2. CASE CPResume
  BY <1>2 DEF EngineTypes, CPResume
<1>3. CASE SubmitMEInitialize
  <2>1. Emit(<<Packet("ME")>>, 1) /\ 1 \in 1 .. 3
        /\ \A i \in 1 .. 1 : <<Packet("ME")>>[i] \in Packets
    BY <1>3 DEF SubmitMEInitialize
  <2> QED BY <1>3, <2>1, EmitTypes DEF EngineTypes, SubmitMEInitialize
<1>4. CASE SubmitScratch
  <2>1. Emit(<<Packet("SCRATCH")>>, 1) /\ 1 \in 1 .. 3
        /\ \A i \in 1 .. 1 : <<Packet("SCRATCH")>>[i] \in Packets
    BY <1>4 DEF SubmitScratch
  <2> QED BY <1>4, <2>1, EmitTypes DEF EngineTypes, SubmitScratch
<1>5. CASE PollSeen
  BY <1>5 DEF EngineTypes, PollSeen
<1>6. CASE PollTimesOut
  <2>1. halted' \in BOOLEAN
    BY <1>6, Zenon DEF PollTimesOut, StopCP
  <2> QED BY <1>6, <2>1 DEF EngineTypes, PollTimesOut, StopCP
<1>7. CASE TestCPWriteback
  <2>1. CASE UNCHANGED engine
    BY <1>7, <2>1 DEF EngineTypes, TestCPWriteback
  <2>2. CASE Emit(<<Packet("SYNC"), EOP("test", 0, 1)>>, 2)
    <3>1. \A i \in 1 .. 2 : <<Packet("SYNC"), EOP("test", 0, 1)>>[i] \in Packets
      OBVIOUS
    <3>2. /\ ring' \in [Index -> Packets] /\ wptr' \in Index /\ wptrReg' \in Index
          /\ UNCHANGED <<rptr, halted, cpRunning>>
      BY <2>2, <3>1, EmitTypes
    <3> QED BY <1>7, <3>2 DEF EngineTypes, TestCPWriteback
  <2> QED BY <1>7, <2>1, <2>2 DEF TestCPWriteback
<1>8. CASE WritebackEnds
  BY <1>8 DEF EngineTypes, WritebackEnds
<1>9. CASE SetupInterruptRing \/ SetupDMARing \/ SetupClearPipeline
  BY <1>9 DEF EngineTypes, SetupInterruptRing, SetupDMARing, SetupClearPipeline, Stage
<1>10. CASE SubmitColorClear
  <2> DEFINE p == <<Packet("DRAW"), Packet("SYNC"), EOP("clear", 0, 1)>>
  <2>1. \A i \in 1 .. 3 : p[i] \in Packets
    OBVIOUS
  <2>2. /\ ring' \in [Index -> Packets] /\ wptr' \in Index /\ wptrReg' \in Index
        /\ UNCHANGED <<rptr, halted, cpRunning>>
    BY <1>10, <2>1, EmitTypes DEF SubmitColorClear
  <2> QED BY <1>10, <2>2 DEF EngineTypes, SubmitColorClear
<1>11. CASE ColorClearEnds
  BY <1>11 DEF EngineTypes, ColorClearEnds
<1>12. CASE StartUserFence
  BY <1>12 DEF EngineTypes, StartUserFence, PageMade, UserPage, UserPages
<1> QED BY <1>1, <1>2, <1>3, <1>4, <1>5, <1>6, <1>7, <1>8, <1>9, <1>10, <1>11, <1>12
        DEF Start

LEMMA EmitPacketTypes ==
  ASSUME EngineTypes, ClientTypes, NEW c \in Client, EmitPacket(c)
  PROVE  ring' \in [Index -> Packets] /\ wptr' \in Index
<1> DEFINE h == handed[c]
<1>1. h.n \in 0 .. MaxSubmits /\ h.seq \in Number
  BY DEF ClientTypes
<1>2. UserPage(page) \in Targets
  BY DEF UserPage, UserPages, Targets
<1>3. CASE pc[c] = "ib"
  <2>1. h.n \in 1 .. MaxSubmits /\ Write(<<IB(h.n)>>, 1)
    BY <1>1, <1>3 DEF ClientTypes, EmitPacket, Sending
  <2>2. \A i \in 1 .. 1 : <<IB(h.n)>>[i] \in Packets
    BY <2>1, PacketTypes
  <2> QED BY <2>1, <2>2, WriteTypes DEF EngineTypes
<1>4. CASE pc[c] = "sync"
  <2>1. Write(<<Packet("SYNC")>>, 1)
    BY <1>4 DEF EmitPacket
  <2>2. \A i \in 1 .. 1 : <<Packet("SYNC")>>[i] \in Packets
    BY PacketTypes
  <2> QED BY <2>1, <2>2, WriteTypes DEF EngineTypes
<1>5. CASE pc[c] = "eop"
  <2>1. Write(<<EOP(UserPage(page), h.n, h.seq)>>, 1)
    BY <1>5 DEF EmitPacket
  <2>2. \A i \in 1 .. 1 : <<EOP(UserPage(page), h.n, h.seq)>>[i] \in Packets
    BY <1>1, <1>2, PacketTypes
  <2> QED BY <2>1, <2>2, WriteTypes DEF EngineTypes
<1> QED BY <1>3, <1>4, <1>5 DEF EmitPacket

LEMMA FetchTypes ==
  ASSUME EngineTypes, CPFetch
  PROVE  EngineTypes'
<1> DEFINE p == ring[rptr]
<1>1. p \in Packets
  BY DEF EngineTypes
<1>2. ring' \in [Index -> Packets]
  BY PacketTypes DEF EngineTypes, CPFetch
<1>3. rptr' \in Index
  BY AdvanceIs, RingAssumption DEF EngineTypes, CPFetch
<1>4. scratch' \in BOOLEAN
  BY Zenon DEF CPFetch
<1>5. mem' \in [Targets -> Number]
  BY <1>1 DEF EngineTypes, CPFetch, Packets
<1>6. done' \in SUBSET (1 .. MaxSubmits)
  <2>1. p.op = "IB" => p.n \in 1 .. MaxSubmits
    BY <1>1, BoundsAssumption DEF Packets
  <2> QED BY <2>1 DEF EngineTypes, CPFetch
<1> QED BY <1>2, <1>3, <1>4, <1>5, <1>6 DEF EngineTypes, CPFetch

LEMMA EngineTypesStep ==
  ASSUME EngineTypes, ClientTypes, Next
  PROVE  EngineTypes'
<1> USE SmallNumbers DEF engine, Memory, ToIH, BeforeUp, Targets
<1>1. CASE Start
  BY <1>1, EngineTypesStart
<1>2. ASSUME NEW c \in Client, ClientStep(c) PROVE EngineTypes'
  <2>1. CASE EmitPacket(c)
    <3>1. ring' \in [Index -> Packets] /\ wptr' \in Index
      BY <2>1, EmitPacketTypes
    <3>2. UNCHANGED <<at, wptrReg, rptr, halted, cpRunning, scratch, mem, done>>
      BY <2>1 DEF EmitPacket
    <3> QED BY <3>1, <3>2 DEF EngineTypes
  <2>2. CASE SubmitCommit(c)
    BY <2>2 DEF EngineTypes, SubmitCommit, RegisterAtCommit
  <2>3. CASE ClientPage(c)
    BY <2>3 DEF EngineTypes, ClientPage, PageMade, UserPage, UserPages
  <2>4. CASE UNCHANGED <<at, engine, done>>
    BY <2>4 DEF EngineTypes
  <2>5. \/ EmitPacket(c) \/ SubmitCommit(c) \/ ClientPage(c)
        \/ UNCHANGED <<at, engine, done>>
    BY <1>2 DEF ClientStep, Open, ClientLock, Started, AllocBuffer, FreeBuffer, SubmitIB,
                SubmitLock, Close, FreeClient
  <2> QED BY <2>1, <2>2, <2>3, <2>4, <2>5
<1>3. CASE FreeEngine
  <2>1. halted' \in BOOLEAN
    BY <1>3, Zenon DEF FreeEngine
  <2> QED BY <1>3, <2>1 DEF EngineTypes, FreeEngine
<1>4. CASE CPFetch
  BY <1>4, FetchTypes
<1> QED BY <1>1, <1>2, <1>3, <1>4 DEF Next

LEMMA ClientTypesStep ==
  ASSUME EngineTypes, ClientTypes, Phases, Next
  PROVE  ClientTypes'
<1> USE SmallNumbers DEF engine, clients, fenceVars, Memory, Outside, Sending
<1>0. page \in {0, 1} /\ userLock \in {0, 1}
  BY DEF Phases
<1>1. \A k : mishap \cup Overran(k) \in SUBSET {"overrun", "replaced"}
  BY DEF ClientTypes, Overran
<1>2. \A old : mishap \cup Replaced(old) \in SUBSET {"overrun", "replaced"}
  BY DEF ClientTypes, Replaced
<1>3. ASSUME LockMade
      PROVE  /\ userLock' \in 0 .. 2
             /\ holder' \in [Locks -> Client \cup {None, "absent"}]
  BY <1>0, <1>3 DEF ClientTypes, LockMade, Locks
<1>4. ASSUME PageMade
      PROVE  /\ page' \in 0 .. 2 /\ userSeq' \in Number
             /\ mishap' \in SUBSET {"overrun", "replaced"}
  BY <1>0, <1>2, <1>4 DEF PageMade
<1>5. CASE Start
  <2>1. CASE StartUserFence
    <3>1. UNCHANGED clients
      BY <2>1 DEF StartUserFence
    <3>2. /\ userLock' \in 0 .. 2
          /\ holder' \in [Locks -> Client \cup {None, "absent"}]
      BY <1>3, <2>1 DEF StartUserFence, ClientTypes
    <3>3. /\ page' \in 0 .. 2 /\ userSeq' \in Number
          /\ mishap' \in SUBSET {"overrun", "replaced"}
      BY <1>4, <2>1 DEF StartUserFence, ClientTypes
    <3> QED BY <3>1, <3>2, <3>3 DEF ClientTypes
  <2>2. ASSUME UNCHANGED <<fenceVars, clients>>, mishap' \in SUBSET {"overrun", "replaced"}
        PROVE  ClientTypes'
    BY <2>2 DEF ClientTypes
  <2>3. CASE UNCHANGED <<fenceVars, clients, mishap>>
    BY <2>2, <2>3 DEF ClientTypes
  <2>4. CASE SubmitMEInitialize \/ SubmitScratch \/ TestCPWriteback \/ SubmitColorClear
    <3>1. mishap' \in SUBSET {"overrun", "replaced"}
      BY <1>1, <2>4 DEF SubmitMEInitialize, SubmitScratch, TestCPWriteback,
                        SubmitColorClear, Emit, ClientTypes
    <3>2. UNCHANGED <<fenceVars, clients>>
      BY <2>4 DEF SubmitMEInitialize, SubmitScratch, TestCPWriteback, SubmitColorClear
    <3> QED BY <2>2, <3>1, <3>2
  <2>5. \/ StartUserFence
        \/ SubmitMEInitialize \/ SubmitScratch \/ TestCPWriteback \/ SubmitColorClear
        \/ UNCHANGED <<fenceVars, clients, mishap>>
    BY <1>5 DEF Start, AllocateRing, CPResume, PollSeen, PollTimesOut, WritebackEnds, Stage,
                SetupInterruptRing, SetupDMARing, SetupClearPipeline, ColorClearEnds
  <2> QED BY <2>1, <2>3, <2>4, <2>5
<1>6. ASSUME NEW c \in Client, ClientStep(c) PROVE ClientTypes'
  <2>1. CASE Open(c)
    BY <2>1 DEF ClientTypes, Open, Goto
  <2>2. CASE ClientLock(c)
    <3>1. /\ userLock' \in 0 .. 2
          /\ holder' \in [Locks -> Client \cup {None, "absent"}]
          /\ mishap' \in SUBSET {"overrun", "replaced"}
      BY <1>2, <1>3, <2>2 DEF ClientTypes, ClientLock
    <3> QED BY <2>2, <3>1 DEF ClientTypes, ClientLock, Goto
  <2>3. CASE ClientPage(c)
    <3>1. /\ page' \in 0 .. 2 /\ userSeq' \in Number
          /\ mishap' \in SUBSET {"overrun", "replaced"}
      BY <1>4, <2>3 DEF ClientPage, ClientTypes
    <3> QED BY <2>3, <3>1 DEF ClientTypes, ClientPage, Goto
  <2>4. CASE Started(c) \/ SubmitIB(c) \/ Close(c)
    BY <2>4 DEF ClientTypes, Started, SubmitIB, Close, Goto
  <2>5. CASE AllocBuffer(c) \/ FreeBuffer(c)
    <3>1. bufs[c] \in 0 .. MaxBuffers /\ bufs \in [Client -> 0 .. MaxBuffers]
      BY DEF ClientTypes
    <3>2. CASE AllocBuffer(c)
      <4>1. bufs[c] + 1 \in 0 .. MaxBuffers /\ bufs' = [bufs EXCEPT ![c] = bufs[c] + 1]
        BY <3>1, <3>2, BoundsAssumption DEF AllocBuffer
      <4>2. bufs' \in [Client -> 0 .. MaxBuffers]
        BY <3>1, <4>1
      <4> QED BY <3>2, <4>2 DEF ClientTypes, AllocBuffer
    <3>3. CASE FreeBuffer(c)
      <4>1. bufs[c] - 1 \in 0 .. MaxBuffers /\ bufs' = [bufs EXCEPT ![c] = bufs[c] - 1]
        BY <3>1, <3>3, BoundsAssumption DEF FreeBuffer
      <4>2. bufs' \in [Client -> 0 .. MaxBuffers]
        BY <3>1, <4>1
      <4> QED BY <3>3, <4>2 DEF ClientTypes, FreeBuffer
    <3> QED BY <2>5, <3>2, <3>3
  <2>6. CASE FreeClient(c)
    <3>1. bufs' \in [Client -> 0 .. MaxBuffers]
      BY <2>6, BoundsAssumption DEF ClientTypes, FreeClient
    <3>2. [n |-> 0, seq |-> 0] \in [n : 0 .. MaxSubmits, seq : Number]
      OBVIOUS
    <3>3. handed' \in [Client -> [n : 0 .. MaxSubmits, seq : Number]]
      BY <2>6, <3>2 DEF ClientTypes, FreeClient
    <3> QED BY <2>6, <3>1, <3>3 DEF ClientTypes, FreeClient, Goto
  <2>7. CASE SubmitLock(c)
    <3>1. userSeq' \in Number
      <4>1. (userSeq + 1) % SeqMod \in Number
        BY SeqAssumption DEF ClientTypes, Number
      <4> QED BY <2>7, <4>1 DEF SubmitLock, NextSeq
    <3>2. submits' \in 0 .. MaxSubmits /\ submits' = submits + 1 /\ submits' > 0
      BY <2>7, BoundsAssumption DEF ClientTypes, SubmitLock
    <3>3. handed' = [handed EXCEPT ![c] = [n |-> submits', seq |-> userSeq']]
      BY <2>7 DEF SubmitLock
    <3>4. handed' \in [Client -> [n : 0 .. MaxSubmits, seq : Number]]
      BY <3>1, <3>2, <3>3 DEF ClientTypes
    <3>5. holder' \in [Locks -> Client \cup {None, "absent"}]
      BY <2>7 DEF ClientTypes, SubmitLock
    <3>6. \A d \in Client : pc'[d] \in Sending => handed'[d].n > 0
      BY <2>7, <3>2, <3>3 DEF ClientTypes, SubmitLock, Goto
    <3> QED BY <2>7, <3>1, <3>2, <3>4, <3>5, <3>6 DEF ClientTypes, SubmitLock, Goto
  <2>8. CASE EmitPacket(c)
    BY <1>1, <2>8 DEF ClientTypes, EmitPacket, Goto
  <2>9. CASE SubmitCommit(c)
    BY <2>9 DEF ClientTypes, SubmitCommit, Goto
  <2> QED BY <1>6, <2>1, <2>2, <2>3, <2>4, <2>5, <2>6, <2>7, <2>8, <2>9 DEF ClientStep
<1>7. CASE FreeEngine
  BY <1>7 DEF ClientTypes, FreeEngine, TeardownUserFence
<1>8. CASE CPFetch
  BY <1>8 DEF ClientTypes, CPFetch
<1> QED BY <1>5, <1>6, <1>7, <1>8 DEF Next

-----------------------------------------------------------------------------
(* The accounting of the GPU buffers.                                      *)

LEMMA FiniteBuffers == \A S \in SUBSET GPUBuffers : IsFiniteSet(S)
<1>1. \A x, y : IsFiniteSet({x, y})
  <2> SUFFICES ASSUME NEW x, NEW y PROVE IsFiniteSet({x, y})
    OBVIOUS
  <2>1. IsFiniteSet({x}) /\ IsFiniteSet({y}) /\ {x, y} = {x} \cup {y}
    BY FS_Singleton
  <2> QED BY <2>1, FS_Union
<1>2. IsFiniteSet({"ring", "test"} \cup IHBuffers)
  BY <1>1, FS_Union DEF IHBuffers
<1>3. IsFiniteSet(DMABuffers \cup UserPages)
  BY <1>1, FS_Union DEF DMABuffers, UserPages
<1>4. IsFiniteSet(ClearBuffers)
  <2>1. ClearBuffers = {"vs", "ps"} \cup {"vb", "clear"}
    BY DEF ClearBuffers
  <2> QED BY <1>1, <2>1, FS_Union
<1>5. IsFiniteSet(GPUBuffers)
  <2>1. GPUBuffers = (({"ring", "test"} \cup IHBuffers) \cup (DMABuffers \cup UserPages))
                     \cup ClearBuffers
    BY DEF GPUBuffers
  <2> QED BY <1>2, <1>3, <1>4, <2>1, FS_Union
<1> QED BY <1>5, FS_Subset

LEMMA SizeOfUnion ==
  ASSUME NEW S \in SUBSET GPUBuffers, NEW T \in SUBSET GPUBuffers, S \cap T = {}
  PROVE  /\ SizeOf(S \cup T) = SizeOf(S) + SizeOf(T)
         /\ SizeOf(S) \in Nat /\ SizeOf(T) \in Nat
<1>1. ASSUME NEW A \in SUBSET GPUBuffers, NEW B \in SUBSET GPUBuffers, A \cap B = {}
      PROVE  /\ Cardinality(A \cup B) = Cardinality(A) + Cardinality(B)
             /\ Cardinality(A) \in Nat /\ Cardinality(B) \in Nat
  <2>1. IsFiniteSet(A) /\ IsFiniteSet(B)
    BY FiniteBuffers
  <2>2. Cardinality(A) \in Nat /\ Cardinality(B) \in Nat
    BY <2>1, FS_CardinalityType
  <2>3. Cardinality(A \cup B) = Cardinality(A) + Cardinality(B) - Cardinality({})
    BY <1>1, <2>1, FS_Union
  <2> QED BY <2>2, <2>3, FS_EmptySet
<1>2. (S \cup T) \cap Rings = (S \cap Rings) \cup (T \cap Rings)
  OBVIOUS
<1>3. /\ S \cap Rings \in SUBSET GPUBuffers /\ T \cap Rings \in SUBSET GPUBuffers
      /\ (S \cap Rings) \cap (T \cap Rings) = {}
  OBVIOUS
<1>4. /\ Cardinality(S \cup T) = Cardinality(S) + Cardinality(T)
      /\ Cardinality(S) \in Nat /\ Cardinality(T) \in Nat
  BY <1>1
<1>5. /\ Cardinality((S \cap Rings) \cup (T \cap Rings))
           = Cardinality(S \cap Rings) + Cardinality(T \cap Rings)
      /\ Cardinality(S \cap Rings) \in Nat /\ Cardinality(T \cap Rings) \in Nat
  BY <1>1, <1>3
<1>6. SizeOf(S) \in Nat /\ SizeOf(T) \in Nat
  BY <1>4, <1>5 DEF SizeOf
<1>7. SizeOf(S \cup T) = (Cardinality(S) + Cardinality(T))
                        + 15 * (Cardinality(S \cap Rings) + Cardinality(T \cap Rings))
  BY <1>2, <1>4, <1>5 DEF SizeOf
<1> QED BY <1>4, <1>5, <1>6, <1>7 DEF SizeOf

(* Allocating what is not there, and freeing anything, keeps the account.  *)
LEMMA AllocateKeeps ==
  ASSUME live \in SUBSET GPUBuffers, mem2 = SizeOf(live), NEW S \in SUBSET GPUBuffers,
         S \cap live = {}, Allocate(S)
  PROVE  live' \in SUBSET GPUBuffers /\ mem2' = SizeOf(live') /\ live' = live \cup S
<1>1. SizeOf(live \cup S) = SizeOf(live) + SizeOf(S)
  BY SizeOfUnion
<1> QED BY <1>1 DEF Allocate

LEMMA FreeKeeps ==
  ASSUME live \in SUBSET GPUBuffers, mem2 = SizeOf(live), NEW S, Free(S)
  PROVE  live' \in SUBSET GPUBuffers /\ mem2' = SizeOf(live') /\ live' = live \ S
<1>1. /\ live \ S \in SUBSET GPUBuffers /\ S \cap live \in SUBSET GPUBuffers
      /\ (live \ S) \cap (S \cap live) = {}
  OBVIOUS
<1>2. /\ SizeOf((live \ S) \cup (S \cap live)) = SizeOf(live \ S) + SizeOf(S \cap live)
      /\ SizeOf(live \ S) \in Nat /\ SizeOf(S \cap live) \in Nat
  BY <1>1, SizeOfUnion
<1>3. (live \ S) \cup (S \cap live) = live
  OBVIOUS
<1>4. mem2 = SizeOf(live \ S) + SizeOf(S \cap live)
  BY <1>2, <1>3
<1>5. SizeOf(S \cap live) <= mem2 /\ mem2 - SizeOf(S \cap live) = SizeOf(live \ S)
  BY <1>2, <1>4
<1> QED BY <1>5 DEF Free

LEMMA AccountsStart ==
  ASSUME EngineTypes, ClientTypes, Accounts, Phases, Start
  PROVE  Accounts'
<1> USE DEF ToIH, BeforeUp, GPUBuffers, IHBuffers, DMABuffers, ClearBuffers, UserPages,
            Memory
<1>0. page \in {0, 1} /\ (page # 0 => at = "up")
  BY DEF Phases
<1>1. CASE AllocateRing
  <2>1. CASE Allocate({"ring"}) /\ at' = "resume"
    <3>1. live' \in SUBSET GPUBuffers /\ mem2' = SizeOf(live') /\ live' = live \cup {"ring"}
      BY <1>1, <2>1, AllocateKeeps DEF Accounts, AllocateRing
    <3> QED BY <1>1, <2>1, <3>1 DEF Accounts, AllocateRing, engine, fenceVars
  <2>2. CASE UNCHANGED Memory /\ at' = "up"
    BY <1>1, <2>2 DEF Accounts, Phases, AllocateRing, engine, fenceVars
  <2> QED BY <1>1, <2>1, <2>2 DEF AllocateRing
<1>2. CASE CPResume
  <2>1. CASE at' = "me" /\ UNCHANGED Memory /\ cpRunning' = TRUE
    BY <1>2, <2>1 DEF Accounts, CPResume, fenceVars
  <2>2. CASE at' = "up" /\ Free({"ring"}) /\ cpRunning' = cpRunning
    <3>1. live' \in SUBSET GPUBuffers /\ mem2' = SizeOf(live') /\ live' = live \ {"ring"}
      BY <2>2, FreeKeeps DEF Accounts
    <3> QED BY <1>2, <2>2, <3>1 DEF Accounts, Phases, CPResume, fenceVars
  <2> QED BY <1>2, <2>1, <2>2 DEF CPResume
<1>3. CASE SubmitMEInitialize \/ SubmitScratch
  BY <1>3 DEF Accounts, Phases, SubmitMEInitialize, SubmitScratch, Emit, fenceVars
<1>4. CASE PollSeen
  BY <1>4 DEF Accounts, PollSeen, engine, fenceVars
<1>5. CASE PollTimesOut
  <2>1. /\ live' \in SUBSET GPUBuffers /\ mem2' = SizeOf(live')
        /\ live' = live \ ({"ring"} \cup IHBuffers)
    BY <1>5, FreeKeeps DEF Accounts, PollTimesOut, StopCP
  <2>2. halted' /\ ~cpRunning' /\ at' = "up"
    BY <1>5 DEF PollTimesOut, StopCP, Phases
  <2> QED BY <1>5, <2>1, <2>2 DEF Accounts, PollTimesOut, fenceVars
<1>6. CASE TestCPWriteback
  <2>1. CASE Allocate({"test"}) /\ at' = "writebackWait"
    <3>1. live' \in SUBSET GPUBuffers /\ mem2' = SizeOf(live') /\ live' = live \cup {"test"}
      BY <1>6, <2>1, AllocateKeeps DEF Accounts, TestCPWriteback
    <3> QED BY <1>6, <2>1, <3>1 DEF Accounts, Phases, TestCPWriteback, Emit, engine, fenceVars
  <2>2. CASE UNCHANGED <<Memory, engine>> /\ at' = "ih"
    BY <1>6, <2>2 DEF Accounts, TestCPWriteback, engine, fenceVars
  <2> QED BY <1>6, <2>1, <2>2 DEF TestCPWriteback
<1>7. CASE WritebackEnds
  <2>1. live' \in SUBSET GPUBuffers /\ mem2' = SizeOf(live') /\ live' = live \ {"test"}
    BY <1>7, FreeKeeps DEF Accounts, WritebackEnds
  <2> QED BY <1>7, <2>1 DEF Accounts, WritebackEnds, engine, fenceVars
<1>8. ASSUME NEW here, NEW S, NEW next, NEW without, Stage(here, S, next, without),
             \/ here = "ih" /\ S = IHBuffers /\ next = "dma" /\ without = "dma"
             \/ here = "dma" /\ S = DMABuffers /\ next = "clear" /\ without = "clear"
             \/ here = "clear" /\ S = ClearBuffers /\ next = "draw" /\ without = "user"
      PROVE  Accounts'
  <2>1. CASE Allocate(S) /\ at' = next
    <3>1. S \in SUBSET GPUBuffers /\ S \cap live = {}
      BY <1>8 DEF Accounts, Stage
    <3>2. live' \in SUBSET GPUBuffers /\ mem2' = SizeOf(live') /\ live' = live \cup S
      BY <2>1, <3>1, AllocateKeeps DEF Accounts
    <3> QED BY <1>8, <2>1, <3>2 DEF Accounts, Stage, engine, fenceVars
  <2>2. CASE UNCHANGED Memory /\ at' = without
    BY <1>8, <2>2 DEF Accounts, Stage, engine, fenceVars
  <2> QED BY <1>8, <2>1, <2>2 DEF Stage
<1>9. CASE SetupInterruptRing \/ SetupDMARing \/ SetupClearPipeline
  BY <1>8, <1>9 DEF SetupInterruptRing, SetupDMARing, SetupClearPipeline
<1>10. CASE SubmitColorClear
  BY <1>10 DEF Accounts, Phases, SubmitColorClear, Emit, fenceVars
<1>11. CASE ColorClearEnds
  BY <1>11 DEF Accounts, ColorClearEnds, engine, fenceVars
<1>12. CASE StartUserFence
  <2>1. page = 0
    BY <1>0, <1>12 DEF StartUserFence
  <2>2. CASE PageMade
    <3>1. page' = 1 /\ Allocate({"user1"})
      BY <2>1, <2>2 DEF PageMade, UserPage
    <3>2. live' \in SUBSET GPUBuffers /\ mem2' = SizeOf(live') /\ live' = live \cup {"user1"}
      BY <2>1, <3>1, AllocateKeeps DEF Accounts
    <3> QED BY <1>12, <2>1, <3>1, <3>2 DEF Accounts, StartUserFence
  <2>3. CASE UNCHANGED <<Memory, page>>
    BY <1>12, <2>3 DEF Accounts, StartUserFence
  <2> QED BY <1>12, <2>2, <2>3 DEF StartUserFence, fenceVars
<1> QED BY <1>1, <1>2, <1>3, <1>4, <1>5, <1>6, <1>7, <1>9, <1>10, <1>11, <1>12 DEF Start

LEMMA AccountsStep ==
  ASSUME EngineTypes, ClientTypes, Accounts, Phases, Next
  PROVE  Accounts'
<1> USE DEF ToIH, BeforeUp, GPUBuffers, IHBuffers, DMABuffers, ClearBuffers, UserPages,
            Memory
<1>1. CASE Start
  BY <1>1, AccountsStart
<1>2. ASSUME NEW c \in Client, ClientStep(c) PROVE Accounts'
  <2>1. CASE ClientPage(c) /\ PageMade
    <3>1. page \in {0, 1} /\ at = "up"
      <4>1. pc[c] = "newPage" /\ page \in {0, 1}
        BY <2>1 DEF Phases, ClientPage
      <4>2. at \notin BeforeUp /\ cpRunning
        BY <4>1 DEF Phases
      <4> QED BY <4>1, <4>2 DEF Phases, EngineTypes
    <3>2. page' = page + 1 /\ Allocate({UserPage(page + 1)})
      BY <2>1 DEF PageMade
    <3>3. UserPage(page + 1) = (IF page = 0 THEN "user1" ELSE "user2")
      BY <3>1 DEF UserPage
    <3>4. {UserPage(page + 1)} \in SUBSET GPUBuffers /\ {UserPage(page + 1)} \cap live = {}
      BY <3>1, <3>3 DEF Accounts
    <3>5. /\ live' \in SUBSET GPUBuffers /\ mem2' = SizeOf(live')
          /\ live' = live \cup {UserPage(page + 1)}
      BY <3>2, <3>4, AllocateKeeps DEF Accounts
    <3> QED BY <2>1, <3>1, <3>2, <3>3, <3>5 DEF Accounts, ClientPage
  <2>2. CASE /\ UNCHANGED <<at, live, mem2, cpRunning, halted, page, rptr>>
             /\ wptrReg' = wptrReg \/ cpRunning
    BY <2>2 DEF Accounts
  <2>3. SubmitCommit(c) => cpRunning
    BY DEF Phases, SubmitCommit, EngineTypes
  <2>4. \/ ClientPage(c) /\ PageMade
        \/ /\ UNCHANGED <<at, live, mem2, cpRunning, halted, page, rptr>>
           /\ wptrReg' = wptrReg \/ cpRunning
    BY <1>2, <2>3 DEF ClientStep, Open, ClientLock, ClientPage, Started, AllocBuffer,
                FreeBuffer, SubmitIB, SubmitLock, EmitPacket, SubmitCommit, Close,
                FreeClient, engine, fenceVars
  <2> QED BY <2>1, <2>2, <2>4
<1>3. CASE FreeEngine
  <2> DEFINE S == TeardownDMARing \cup IHBuffers \cup ClearBuffers \cup {"ring"}
                  \cup UserFenceBuffers
  <2>1. live' \in SUBSET GPUBuffers /\ mem2' = SizeOf(live') /\ live' = live \ S
    BY <1>3, FreeKeeps DEF Accounts, FreeEngine, Teardown
  <2>2. live' = {}
    BY <1>3, <2>1 DEF Accounts, Phases, FreeEngine, TeardownDMARing, UserFenceBuffers, UserPage
  <2>3. ~halted' /\ ~cpRunning' => rptr' = wptrReg'
    BY <1>3 DEF Accounts, FreeEngine
  <2> QED BY <1>3, <2>1, <2>2, <2>3 DEF Accounts, FreeEngine, TeardownUserFence
<1>4. CASE CPFetch
  BY <1>4 DEF Accounts, CPFetch, fenceVars
<1> QED BY <1>1, <1>2, <1>3, <1>4 DEF Next

-----------------------------------------------------------------------------
(* Where the clients may be, as long as nothing went wrong.                *)

LEMMA PhasesStep ==
  ASSUME EngineTypes, ClientTypes, Phases, Next, mishap' = {}
  PROVE  Phases'
<1> USE DEF ToIH, BeforeUp, Outside, Sending
<1>0. /\ page \in {0, 1} /\ userLock \in {0, 1}
      /\ \A c \in Client : c # None /\ c # "absent"
  BY NoneAssumption DEF Phases
<1>1. ASSUME LockMade, userLock = 0
      PROVE  userLock' = 1 /\ holder'[1] = None
  BY <1>1 DEF LockMade, ClientTypes, Locks
<1>2. CASE Start
  <2>1. CASE StartUserFence
    <3>1. at = "user" /\ at' = "up" /\ userLock = 0 /\ page = 0 /\ cpRunning' = cpRunning
      BY <2>1 DEF StartUserFence, Phases
    <3>2. CASE LockMade
      <4>1. userLock' = 1 /\ holder'[1] = None
        BY <1>1, <3>1, <3>2
      <4>2. \/ page' = 1 /\ userSeq' = 0
            \/ page' = page /\ userSeq' = userSeq
        BY <2>1, <3>1, <3>2 DEF StartUserFence, PageMade, fenceVars
      <4>3. UNCHANGED <<pc, submits, halted, cpRunning>> /\ cpRunning /\ ~halted
        BY <2>1, <3>1 DEF StartUserFence, Phases, clients, EngineTypes
      <4>4. submits = 0 /\ userSeq = 0 /\ \A c \in Client : pc[c] = "closed"
        BY <3>1 DEF Phases
      <4>5. \A c \in Client : pc'[c] = "closed" /\ holder'[1] # c
        BY <1>0, <4>1, <4>3, <4>4
      <4>6. holder'[1] # "absent"
        BY <4>1, NoneAssumption
      <4> QED BY <3>1, <4>1, <4>2, <4>3, <4>4, <4>5, <4>6 DEF Phases
    <3>3. CASE UNCHANGED fenceVars
      BY <2>1, <3>1, <3>3 DEF StartUserFence, Phases, clients, fenceVars
    <3> QED BY <2>1, <3>2, <3>3 DEF StartUserFence
  <2>2. CASE AllocateRing \/ CPResume
    BY <2>2 DEF Phases, AllocateRing, CPResume, engine, fenceVars, clients
  <2>3. CASE PollTimesOut
    BY <2>3 DEF Phases, PollTimesOut, StopCP, fenceVars, clients
  <2>4. CASE /\ UNCHANGED <<halted, cpRunning, fenceVars, clients>>
             /\ at \in BeforeUp \ {"init", "resume"} /\ at' \in BeforeUp \ {"init", "resume"}
    BY <2>4 DEF Phases, fenceVars, clients
  <2>5. CASE SubmitMEInitialize \/ SubmitScratch \/ PollSeen \/ TestCPWriteback
             \/ SubmitColorClear
    BY <2>4, <2>5 DEF SubmitMEInitialize, SubmitScratch, PollSeen, TestCPWriteback,
                      SubmitColorClear, Emit, engine
  <2>6. CASE WritebackEnds \/ ColorClearEnds
             \/ SetupInterruptRing \/ SetupDMARing \/ SetupClearPipeline
    BY <2>4, <2>6 DEF WritebackEnds, ColorClearEnds, SetupInterruptRing, SetupDMARing,
                      SetupClearPipeline, Stage, engine
  <2> QED BY <1>2, <2>1, <2>2, <2>3, <2>5, <2>6 DEF Start
<1>3. ASSUME NEW c \in Client, ClientStep(c) PROVE Phases'
  <2>1. CASE Open(c)
    <3>1. pc' = [pc EXCEPT ![c] = IF page # 0 THEN "started"
                                  ELSE IF userLock = 0 THEN "newLock" ELSE "newPage"]
      BY <2>1 DEF Open, Goto
    <3> QED BY <1>0, <2>1, <3>1 DEF Open, Phases, ClientTypes, engine, fenceVars
  <2>2. CASE ClientLock(c)
    <3>1. CASE LockMade /\ mishap' = mishap \cup Replaced(userLock)
      <4>1. userLock = 0
        BY <1>0, <3>1 DEF Replaced
      <4>2. userLock' = 1 /\ holder'[1] = None
        BY <1>1, <3>1, <4>1
      <4>3. page = 0 /\ \A d \in Client : pc[d] \notin Sending
        BY <4>1 DEF Phases
      <4>4. pc' = [pc EXCEPT ![c] = pc'[c]] /\ pc'[c] \in {"newPage", "closed"}
        BY <2>2 DEF ClientLock, Goto, ClientTypes
      <4>5. \A d \in Client : holder'[1] # d /\ pc'[d] \notin Sending
        BY <1>0, <4>2, <4>3, <4>4 DEF ClientTypes
      <4>6. at = "up" /\ at' = at /\ cpRunning /\ cpRunning' /\ ~halted /\ ~halted'
            /\ page' = 0 /\ UNCHANGED <<submits, userSeq>>
        BY <2>2, <4>3 DEF ClientLock, Phases, EngineTypes, engine
      <4>7. \A d \in Client : pc'[d] \in Outside \ {"started"}
        BY <4>3, <4>4 DEF Phases, ClientTypes
      <4> QED BY <4>2, <4>3, <4>5, <4>6, <4>7, NoneAssumption DEF Phases
    <3>2. CASE UNCHANGED <<userLock, holder, mishap>> /\ Goto(c, "closed")
      BY <2>2, <3>2 DEF ClientLock, Goto, Phases, ClientTypes, engine
    <3> QED BY <2>2, <3>1, <3>2 DEF ClientLock
  <2>3. CASE ClientPage(c)
    <3>1. at = "up" /\ cpRunning /\ userLock = 1
      BY <2>3 DEF ClientPage, Phases, EngineTypes
    <3>2. CASE PageMade /\ Goto(c, "started")
      <4>1. page = 0 /\ page' = 1 /\ userSeq' = 0
        BY <1>0, <3>2 DEF PageMade, Replaced
      <4> QED BY <2>3, <3>1, <3>2, <4>1 DEF ClientPage, Goto, Phases, ClientTypes
    <3>3. CASE UNCHANGED <<page, userSeq>> /\ Goto(c, "closed")
      BY <2>3, <3>1, <3>3 DEF ClientPage, Goto, Phases, ClientTypes
    <3> QED BY <2>3, <3>2, <3>3 DEF ClientPage
  <2>4. CASE Started(c) \/ SubmitIB(c) \/ FreeClient(c)
    BY <2>4 DEF Started, SubmitIB, FreeClient, Goto, Phases, ClientTypes, engine, fenceVars
  <2>5. CASE AllocBuffer(c) \/ FreeBuffer(c) \/ Close(c)
    BY <2>5 DEF AllocBuffer, FreeBuffer, Close, Phases, engine, fenceVars
  <2>6. CASE SubmitLock(c)
    <3>1. page = 1 /\ userLock = 1 /\ cpRunning /\ at \notin BeforeUp
      BY <1>0, <2>6 DEF SubmitLock, Phases
    <3>2. holder[1] = None /\ holder'[1] = c
      BY <2>6, <3>1 DEF SubmitLock, LockFree, ClientTypes, Locks
    <3> QED BY <1>0, <2>6, <3>1, <3>2 DEF SubmitLock, Goto, Phases, ClientTypes, engine
  <2>7. CASE EmitPacket(c)
    <3>1. pc[c] \in Sending /\ pc' = [pc EXCEPT ![c] = pc'[c]] /\ pc'[c] \in Sending
      BY <2>7 DEF EmitPacket, Goto, ClientTypes
    <3> QED BY <2>7, <3>1 DEF EmitPacket, Phases, ClientTypes, fenceVars
  <2>8. CASE SubmitCommit(c)
    <3>1. page = 1 /\ userLock = 1 /\ cpRunning /\ at \notin BeforeUp /\ holder[1] = c
      BY <1>0, <2>8 DEF SubmitCommit, Phases
    <3>2. holder'[1] = None
      BY <2>8, <3>1 DEF SubmitCommit, ClientTypes, Locks
    <3>3. pc' = [pc EXCEPT ![c] = "idle"]
      BY <2>8 DEF SubmitCommit, Goto
    <3>4. \A d \in Client : holder'[1] # d /\ pc'[d] \notin Sending
      BY <1>0, <3>1, <3>2, <3>3 DEF Phases, ClientTypes
    <3>5. \A d \in Client : pc'[d] = "newPage" => userLock = 1
      BY <3>1, <3>3 DEF ClientTypes
    <3> QED BY <2>8, <3>1, <3>2, <3>4, <3>5, NoneAssumption DEF SubmitCommit, Phases
  <2> QED BY <1>3, <2>1, <2>2, <2>3, <2>4, <2>5, <2>6, <2>7, <2>8 DEF ClientStep
<1>4. CASE FreeEngine
  BY <1>4 DEF FreeEngine, TeardownUserFence, Phases, clients
<1>5. CASE CPFetch
  BY <1>5 DEF CPFetch, Phases, fenceVars, clients
<1> QED BY <1>2, <1>3, <1>4, <1>5 DEF Next

-----------------------------------------------------------------------------
(* The numbers and the window of the ring.                                 *)

LEMMA Waits ==
  ASSUME EngineTypes
  PROVE  /\ Waiting \in Index /\ Advance(rptr, Waiting) = wptrReg
         /\ Waiting = 0 <=> rptr = wptrReg
<1>1. rptr \in Index /\ wptrReg \in Index
  BY DEF EngineTypes
<1>2. /\ Waiting \in Index /\ Advance(rptr, Waiting) = wptrReg
      /\ Waiting = IF wptrReg >= rptr THEN wptrReg - rptr ELSE wptrReg - rptr + RingSlots
  BY <1>1, GapIs DEF Waiting, Pending
<1> QED BY <1>1, <1>2, RingAssumption DEF Index

LEMMA WholeType ==
  ASSUME ClientTypes, Numbers
  PROVE  Whole \in Nat /\ Whole <= submits
BY BoundsAssumption DEF ClientTypes, Numbers, Whole

(* Before there is a page nothing was submitted and nobody holds the lock. *)
LEMMA Quiet ==
  ASSUME ClientTypes, Phases, at \in BeforeUp \/ (page = 0 /\ at # "gone")
  PROVE  /\ page = 0 /\ submits = 0 /\ userSeq = 0
         /\ ~InHand /\ Whole = 0 /\ Written = 0
<1>1. page = 0 /\ at # "gone"
  BY DEF Phases, BeforeUp, ToIH
<1>2. \A c \in Client : pc[c] \notin Sending
  BY <1>1 DEF Phases, Outside, Sending
<1>3. ~InHand
  BY <1>2 DEF InHand, Phases
<1> QED BY <1>1, <1>3 DEF Phases, Whole, Written

LEMMA QuietNumbers ==
  ASSUME EngineTypes', submits' = 0, userSeq' = 0, done' = {}, holder'[1] \notin Client,
         \A c \in Client : handed'[c].n = 0 /\ handed'[c].seq = 0,
         page' = 1 => mem'["user1"] = 0
  PROVE  Numbers'
<1>1. ~InHand' /\ Whole' = 0
  BY DEF InHand, Whole
<1>2. Waiting' \in Nat
  <2>1. wptrReg' \in Index /\ rptr' \in Index
    BY DEF EngineTypes
  <2>2. (wptrReg' - rptr') % RingSlots \in Index
    BY <2>1, GapIs
  <2> QED BY <2>2, RingAssumption DEF Waiting, Pending, Index
<1>3. Fetched' = 0
  <2>1. Fetched' = IF 3 * Whole' > Waiting' THEN 3 * Whole' - Waiting' ELSE 0
    BY DEF Fetched
  <2>2. 3 * Whole' = 0
    BY <1>1
  <2>3. ~(0 > Waiting')
    BY <1>2
  <2> QED BY <2>1, <2>2, <2>3
<1>4. SeqOf(0) = 0 /\ (0 + 2) \div 3 = 0 /\ 0 \div 3 = 0 /\ 1 .. 0 = {}
  BY DEF SeqOf
<1>5. done' = 1 .. ((Fetched' + 2) \div 3) /\ (page' = 1 => mem'["user1"] = SeqOf(Fetched' \div 3))
  BY <1>3, <1>4
<1>6. \A c \in Client : handed'[c].seq = SeqOf(handed'[c].n) /\ handed'[c].n <= Whole'
  BY <1>1, <1>4
<1> QED BY <1>1, <1>4, <1>5, <1>6 DEF Numbers, InHand

(* Steps that keep the pointers, the lock's holder and the count.          *)
LEMMA Same ==
  ASSUME UNCHANGED <<wptrReg, rptr, submits>>, holder'[1] = holder[1]
  PROVE  /\ Waiting' = Waiting /\ Whole' = Whole /\ Fetched' = Fetched
         /\ InHand' <=> InHand
BY DEF Waiting, Pending, Whole, Fetched, InHand

LEMMA NumbersKeep ==
  ASSUME Numbers, UNCHANGED <<wptrReg, rptr, submits, done, handed>>, holder'[1] = holder[1],
         at' # "gone" => at # "gone" /\ userSeq' = userSeq,
         page' = 1 => page = 1 /\ mem'["user1"] = mem["user1"],
         \A c \in Client : pc'[c] \in Outside => pc[c] \in Outside
  PROVE  Numbers'
BY Same DEF Numbers

LEMMA QuietNow ==
  ASSUME EngineTypes, ClientTypes, Phases, Numbers,
         at \in BeforeUp \/ (page = 0 /\ at # "gone")
  PROVE  /\ submits = 0 /\ userSeq = 0 /\ done = {} /\ holder[1] \notin Client
         /\ \A c \in Client : handed[c].n = 0 /\ handed[c].seq = 0
<1>1. submits = 0 /\ userSeq = 0 /\ ~InHand /\ Whole = 0
  BY Quiet
<1>2. Fetched = 0
  BY <1>1, Waits, RingAssumption DEF Fetched, Index
<1>3. SeqOf(0) = 0 /\ (0 + 2) \div 3 = 0 /\ 1 .. 0 = {}
  BY DEF SeqOf
<1>4. \A c \in Client : handed[c].n = 0
  BY <1>1, BoundsAssumption DEF Numbers, ClientTypes, InHand
<1> QED BY <1>1, <1>2, <1>3, <1>4 DEF Numbers, InHand

LEMMA Thirds ==
  ASSUME NEW u \in Nat
  PROVE  /\ u % 3 = 0 => (u + 2) \div 3 = u \div 3 /\ (u + 3) \div 3 = u \div 3 + 1
                         /\ (u + 1) \div 3 = u \div 3
         /\ u % 3 = 1 => (u + 2) \div 3 = u \div 3 + 1 /\ (u + 3) \div 3 = u \div 3 + 1
                         /\ (u + 1) \div 3 = u \div 3
         /\ u % 3 = 2 => (u + 2) \div 3 = u \div 3 + 1 /\ (u + 3) \div 3 = u \div 3 + 1
                         /\ (u + 1) \div 3 = u \div 3 + 1
         /\ u % 3 \in 0 .. 2 /\ u \div 3 \in Nat /\ u = 3 * (u \div 3) + (u % 3)
OBVIOUS

(* A fetch takes the oldest packet out of the window.                      *)
LEMMA FetchMoves ==
  ASSUME EngineTypes, ClientTypes, Accounts, Phases, Numbers, Window, CPFetch
  PROVE  /\ cpRunning /\ Waiting > 0 /\ Waiting' = Waiting - 1
         /\ Whole' = Whole /\ Written' = Written /\ (InHand' <=> InHand)
         /\ PacketIs(0) /\ Advance(rptr, 0) = rptr
<1>1. /\ rptr \in Index /\ wptrReg \in Index /\ rptr # wptrReg
      /\ rptr' = Advance(rptr, 1) /\ wptrReg' = wptrReg
  BY DEF EngineTypes, CPFetch
<1>2. cpRunning
  BY DEF Accounts, CPFetch, EngineTypes
<1>3. Waiting \in Index /\ Waiting > 0
  BY <1>1, Waits, RingAssumption DEF Index
<1>4. Advance(rptr, 0) = rptr
  BY <1>1, AdvanceIs, RingAssumption DEF Index
<1>5. Waiting' = Waiting - 1
  <2>1. rptr' = (IF rptr + 1 < RingSlots THEN rptr + 1 ELSE rptr + 1 - RingSlots)
        /\ rptr' \in Index
    <3>1. 1 \in 0 .. RingSlots
      BY RingAssumption
    <3> QED BY <1>1, <3>1, AdvanceIs
  <2>2. (wptrReg - rptr') % RingSlots
          = IF wptrReg >= rptr' THEN wptrReg - rptr' ELSE wptrReg - rptr' + RingSlots
    BY <1>1, <2>1, GapIs
  <2>3. Waiting = IF wptrReg >= rptr THEN wptrReg - rptr ELSE wptrReg - rptr + RingSlots
    BY <1>1, GapIs DEF Waiting, Pending
  <2>4. Waiting' = (wptrReg - rptr') % RingSlots
    BY <1>1 DEF Waiting, Pending
  <2> QED BY <1>1, <2>1, <2>2, <2>3, <2>4, RingAssumption DEF Index
<1>6. Whole' = Whole /\ Written' = Written /\ (InHand' <=> InHand)
  BY DEF CPFetch, fenceVars, clients, Whole, Written, InHand
<1>7. Written \in 0 .. 3
  BY DEF Written, Sent
<1>8. PacketIs(0)
  <2>1. 0 \in Index /\ 0 < Waiting + Written
    BY <1>3, <1>7, RingAssumption DEF Index
  <2> QED BY <2>1 DEF Window
<1> QED BY <1>2, <1>3, <1>4, <1>5, <1>6, <1>8

LEMMA NumbersFetch ==
  ASSUME EngineTypes, ClientTypes, Accounts, Phases, Numbers, Window, CPFetch
  PROVE  Numbers'
<1> DEFINE u == 3 * Whole - Waiting
<1>1. /\ Waiting > 0 /\ Waiting' = Waiting - 1 /\ Whole' = Whole /\ (InHand' <=> InHand)
      /\ PacketIs(0) /\ Advance(rptr, 0) = rptr
  BY FetchMoves
<1>2. Waiting \in Nat /\ Whole \in Nat
  BY Waits, WholeType, RingAssumption DEF Index
<1>3. u \in Int /\ u + 0 = u
  BY <1>2
<1>4. IF u < 0 THEN ring[rptr] \in StartPackets ELSE ring[rptr] = UserPacket(u)
  BY <1>1, <1>2, <1>3 DEF PacketIs
<1>5. /\ Fetched = IF u > 0 THEN u ELSE 0
      /\ Fetched' = IF u + 1 > 0 THEN u + 1 ELSE 0
  <2>1. 3 * Whole > Waiting <=> u > 0
    BY <1>2
  <2>2. 3 * Whole' - Waiting' = u + 1 /\ (3 * Whole' > Waiting' <=> u + 1 > 0)
    BY <1>1, <1>2
  <2> QED BY <2>1, <2>2 DEF Fetched
<1> HIDE DEF u
<1>6. UNCHANGED <<at, holder, page, userSeq, handed, pc, submits>>
  BY DEF CPFetch, fenceVars, clients
<1>7. /\ done' = 1 .. ((Fetched' + 2) \div 3)
      /\ page' = 1 => mem'["user1"] = SeqOf(Fetched' \div 3)
  <2>1. CASE u < 0
    <3>1. Fetched = 0 /\ Fetched' = 0
      BY <1>3, <1>5, <2>1
    <3>2. done' = done /\ mem'["user1"] = mem["user1"]
      BY <1>4, <2>1 DEF CPFetch, StartPackets, Packet, EOP, EngineTypes
    <3> QED BY <1>6, <3>1, <3>2 DEF Numbers
  <2>2. CASE u >= 0
    <3>1. Fetched = u /\ Fetched' = u + 1 /\ u \in Nat
      BY <1>3, <1>5, <2>2
    <3>2. ring[rptr] = UserPacket(u)
      BY <1>3, <1>4, <2>2
    <3>3. done = 1 .. ((u + 2) \div 3) /\ (page = 1 => mem["user1"] = SeqOf(u \div 3))
      BY <3>1 DEF Numbers
    <3> DEFINE q == u \div 3
    <3>4. q \in Nat /\ u + 1 + 2 = u + 3
      BY <3>1, Thirds
    <3>5. CASE u % 3 = 0
      <4>1. (u + 2) \div 3 = q /\ (u + 3) \div 3 = q + 1 /\ (u + 1) \div 3 = q
        BY <3>1, <3>5, Thirds
      <4>2. ring[rptr] = IB(q + 1)
        BY <3>2, <3>5 DEF UserPacket
      <4>3. mem' = mem /\ done' = done \cup {q + 1}
        BY <4>2 DEF CPFetch, IB
      <4>4. done' = 1 .. (q + 1)
        BY <3>3, <3>4, <4>1, <4>3
      <4> QED BY <1>6, <3>1, <3>3, <3>4, <4>1, <4>3, <4>4
    <3>6. CASE u % 3 = 1
      <4>1. (u + 2) \div 3 = q + 1 /\ (u + 3) \div 3 = q + 1 /\ (u + 1) \div 3 = q
        BY <3>1, <3>6, Thirds
      <4>2. ring[rptr] = Packet("SYNC")
        BY <3>2, <3>6 DEF UserPacket
      <4>3. mem' = mem /\ done' = done
        BY <4>2 DEF CPFetch, Packet
      <4> QED BY <1>6, <3>1, <3>3, <3>4, <4>1, <4>3
    <3>7. CASE u % 3 = 2
      <4>1. (u + 2) \div 3 = q + 1 /\ (u + 3) \div 3 = q + 1 /\ (u + 1) \div 3 = q + 1
        BY <3>1, <3>7, Thirds
      <4>2. ring[rptr] = EOP("user1", q + 1, SeqOf(q + 1))
        BY <3>2, <3>7 DEF UserPacket
      <4>3. mem' = [mem EXCEPT !["user1"] = SeqOf(q + 1)] /\ done' = done
        BY <4>2 DEF CPFetch, EOP
      <4>4. mem'["user1"] = SeqOf(q + 1)
        BY <4>3 DEF EngineTypes, Targets, UserPages
      <4> QED BY <3>1, <3>3, <3>4, <4>1, <4>3, <4>4
    <3> QED BY <3>1, <3>5, <3>6, <3>7, Thirds
  <2> QED BY <1>3, <2>1, <2>2
<1> QED BY <1>1, <1>6, <1>7 DEF Numbers

(* The committed packets of a submission join those that wait.             *)
LEMMA CommitMoves ==
  ASSUME EngineTypes, ClientTypes, Phases, Numbers, Window,
         NEW c \in Client, SubmitCommit(c)
  PROVE  /\ holder[1] = c /\ ~InHand' /\ InHand /\ holder'[1] = None
         /\ Written = 3 /\ Written' = 0 /\ Whole = submits - 1 /\ Whole' = submits
         /\ cpRunning /\ Waiting + 3 < RingSlots /\ Waiting' = Waiting + 3
         /\ wptr = Advance(rptr, Waiting + 3)
<1>1. holder[1] = c /\ pc[c] = "commit" /\ userLock = 1 /\ cpRunning
  <2>1. pc[c] = "commit"
    BY DEF SubmitCommit
  <2>2. holder[1] = c /\ page = 1 /\ cpRunning
    BY <2>1 DEF Phases, Sending, Outside
  <2> QED BY <2>1, <2>2 DEF Phases
<1>2. holder'[1] = None
  BY <1>1 DEF SubmitCommit, ClientTypes, Locks
<1>3. InHand /\ ~InHand' /\ Written = 3 /\ Written' = 0 /\ Whole = submits - 1 /\ Whole' = submits
  BY <1>1, <1>2, NoneAssumption DEF InHand, Written, Sent, Whole, SubmitCommit
<1>4. Waiting \in Index /\ Waiting + 3 < RingSlots /\ wptr = Advance(rptr, Waiting + 3)
  BY <1>1, <1>3, Waits DEF Window
<1>5. Waiting + 3 \in Index /\ rptr \in Index
  BY <1>4, RingAssumption DEF Index, EngineTypes
<1>6. (Advance(rptr, Waiting + 3) - rptr) % RingSlots = Waiting + 3
  BY <1>5, AdvanceGap
<1>7. Waiting' = (wptr - rptr) % RingSlots
  BY DEF SubmitCommit, RegisterAtCommit, Waiting, Pending
<1> QED BY <1>1, <1>2, <1>3, <1>4, <1>6, <1>7

LEMMA NumbersCommit ==
  ASSUME EngineTypes, ClientTypes, Phases, Numbers, Window,
         NEW c \in Client, SubmitCommit(c)
  PROVE  Numbers'
<1>1. /\ holder[1] = c /\ ~InHand' /\ InHand /\ holder'[1] = None
      /\ Whole = submits - 1 /\ Whole' = submits /\ Waiting' = Waiting + 3
  BY CommitMoves
<1>2. Waiting \in Nat /\ Whole \in Nat /\ submits \in Nat
  BY Waits, WholeType, RingAssumption, BoundsAssumption DEF Index, ClientTypes
<1>3. Fetched' = Fetched
  <2>1. 3 * Whole' - Waiting' = 3 * Whole - Waiting
        /\ (3 * Whole' > Waiting' <=> 3 * Whole > Waiting)
    BY <1>1, <1>2
  <2> QED BY <2>1 DEF Fetched
<1>4. UNCHANGED <<at, page, userSeq, handed, submits, mem, done>>
  BY DEF SubmitCommit
<1>5. \A d \in Client : pc'[d] \in Outside => pc[d] \in Outside
  BY DEF SubmitCommit, Goto, ClientTypes, Outside
<1>6. \A d \in Client : handed[d].n <= submits
  <2> SUFFICES ASSUME NEW d \in Client PROVE handed[d].n <= submits
    OBVIOUS
  <2>1. handed[d].n \in Nat /\ (handed[d].n <= Whole \/ handed[d].n = submits)
    BY BoundsAssumption DEF Numbers, ClientTypes
  <2> QED BY <1>1, <1>2, <2>1
<1>7. \A d \in Client : holder'[1] # d
  BY <1>1, NoneAssumption
<1> QED BY <1>1, <1>3, <1>4, <1>5, <1>6, <1>7 DEF Numbers

(* A submission that takes the lock is in hand, not yet whole.             *)
LEMMA LockMoves ==
  ASSUME EngineTypes, ClientTypes, Phases, Numbers, NEW c \in Client, SubmitLock(c)
  PROVE  /\ page = 1 /\ at # "gone" /\ ~InHand /\ holder[1] = None
         /\ holder'[1] = c /\ InHand' /\ submits' = submits + 1
         /\ Whole' = Whole /\ Whole = submits
         /\ Written = 0 /\ Written' = 0 /\ Waiting' = Waiting /\ Fetched' = Fetched
<1>1. page = 1 /\ userLock = 1 /\ cpRunning /\ at # "gone"
  BY DEF SubmitLock, Phases, Outside, Sending
<1>2. holder[1] = None /\ holder'[1] = c
  BY <1>1 DEF SubmitLock, LockFree, ClientTypes, Locks
<1>3. ~InHand /\ InHand' /\ Written = 0
  BY <1>2, NoneAssumption DEF InHand, Written
<1>4. submits' = submits + 1 /\ submits \in Nat
  BY BoundsAssumption DEF SubmitLock, ClientTypes
<1>5. Whole = submits /\ Whole' = submits
  BY <1>3, <1>4 DEF Whole
<1>6. Written' = 0
  <2>1. pc'[c] = "ib"
    BY DEF SubmitLock, Goto, ClientTypes
  <2> QED BY <1>2, <1>3, <2>1 DEF Written, Sent
<1>7. Waiting' = Waiting
  BY DEF SubmitLock, engine, Waiting, Pending
<1>8. Fetched' = Fetched
  BY <1>5, <1>7 DEF Fetched
<1> QED BY <1>1, <1>2, <1>3, <1>4, <1>5, <1>6, <1>7, <1>8

LEMMA NumbersLock ==
  ASSUME EngineTypes, ClientTypes, Phases, Numbers, NEW c \in Client, SubmitLock(c)
  PROVE  Numbers'
<1>1. /\ at # "gone" /\ ~InHand /\ holder[1] = None /\ holder'[1] = c /\ InHand'
      /\ submits' = submits + 1 /\ Whole' = submits /\ Whole = submits /\ Fetched' = Fetched
  BY LockMoves
<1>2. UNCHANGED <<at, page, mem, done>>
  BY DEF SubmitLock, engine
<1>3. submits \in Nat
  BY BoundsAssumption DEF ClientTypes
<1>4. userSeq' = SeqOf(submits')
  BY <1>1, <1>3, SeqOfNext DEF SubmitLock, Numbers
<1>5. handed' = [handed EXCEPT ![c] = [n |-> submits', seq |-> userSeq']]
      /\ pc' = [pc EXCEPT ![c] = "ib"]
  BY <1>1 DEF SubmitLock, Goto
<1>6. handed'[c] = [n |-> submits', seq |-> userSeq'] /\ pc'[c] = "ib"
  BY <1>5 DEF ClientTypes
<1>7. ASSUME NEW d \in Client, d # c
      PROVE  handed'[d] = handed[d] /\ pc'[d] = pc[d] /\ handed[d].n <= Whole
             /\ holder'[1] # d
  BY <1>1, <1>5, <1>7, NoneAssumption DEF ClientTypes, Numbers
<1>8. ASSUME NEW d \in Client
      PROVE  /\ handed'[d].seq = SeqOf(handed'[d].n)
             /\ handed'[d].n <= Whole' \/ holder'[1] = d
             /\ holder'[1] = d => handed'[d].n = submits'
             /\ pc'[d] \in Outside => handed'[d].n = 0
  <2>1. CASE d = c
    BY <1>1, <1>4, <1>6, <2>1 DEF Outside
  <2>2. CASE d # c
    BY <1>1, <1>7, <2>2 DEF Numbers
  <2> QED BY <2>1, <2>2
<1> QED BY <1>1, <1>2, <1>3, <1>4, <1>8 DEF Numbers

LEMMA NumbersStep ==
  ASSUME EngineTypes, ClientTypes, Accounts, Phases, Numbers, Window, Next,
         mishap' = {}, EngineTypes', ClientTypes', Phases'
  PROVE  Numbers'
<1>1. ASSUME NEW l, holder' = [holder EXCEPT ![l] = None], holder[1] \notin Client
      PROVE  holder'[1] \notin Client
  BY <1>1, NoneAssumption DEF ClientTypes, Locks
<1>2. CASE Start
  <2>1. /\ submits = 0 /\ userSeq = 0 /\ done = {} /\ holder[1] \notin Client
        /\ \A c \in Client : handed[c].n = 0 /\ handed[c].seq = 0
    <3>1. at \in BeforeUp
      BY <1>2 DEF Start, AllocateRing, CPResume, SubmitMEInitialize, SubmitScratch, PollSeen,
                  PollTimesOut, TestCPWriteback, WritebackEnds, Stage, SetupInterruptRing,
                  SetupDMARing, SetupClearPipeline, SubmitColorClear, ColorClearEnds,
                  StartUserFence, BeforeUp, ToIH
    <3> QED BY <3>1, QuietNow
  <2>2. CASE StartUserFence
    <3>1. UNCHANGED <<submits, done, handed>>
      BY <2>2 DEF StartUserFence, clients
    <3>2. holder'[1] \notin Client
      BY <1>1, <2>1, <2>2 DEF StartUserFence, LockMade, fenceVars
    <3>3. userSeq' = 0
      BY <2>1, <2>2 DEF StartUserFence, PageMade, fenceVars
    <3>4. page' = 1 => mem'["user1"] = 0
      <4>1. page = 0
        BY <2>2 DEF StartUserFence, Phases
      <4> QED BY <2>2, <4>1 DEF StartUserFence, PageMade, UserPage, fenceVars, EngineTypes,
                                Targets, UserPages
    <3> QED BY <2>1, <3>1, <3>2, <3>3, <3>4, QuietNumbers
  <2>3. CASE ~StartUserFence
    <3>1. UNCHANGED <<fenceVars, clients, done>>
      BY <1>2, <2>3 DEF Start, AllocateRing, CPResume, SubmitMEInitialize, SubmitScratch,
                  PollSeen, PollTimesOut, TestCPWriteback, WritebackEnds, Stage,
                  SetupInterruptRing, SetupDMARing, SetupClearPipeline, SubmitColorClear,
                  ColorClearEnds
    <3>2. page = 0
      BY <1>2, <2>3 DEF Start, AllocateRing, CPResume, SubmitMEInitialize, SubmitScratch,
                  PollSeen, PollTimesOut, TestCPWriteback, WritebackEnds, Stage,
                  SetupInterruptRing, SetupDMARing, SetupClearPipeline, SubmitColorClear,
                  ColorClearEnds, Phases
    <3> QED BY <2>1, <3>1, <3>2, QuietNumbers DEF fenceVars, clients
  <2> QED BY <2>2, <2>3
<1>3. ASSUME NEW c \in Client, ClientStep(c) PROVE Numbers'
  <2>1. CASE Open(c) \/ Started(c) \/ SubmitIB(c)
    BY <2>1, NumbersKeep DEF Open, Started, SubmitIB, Goto, engine, fenceVars, ClientTypes,
                             Outside
  <2>2. CASE AllocBuffer(c) \/ FreeBuffer(c) \/ Close(c)
    BY <2>2, NumbersKeep DEF AllocBuffer, FreeBuffer, Close, engine, fenceVars
  <2>3. CASE ClientLock(c)
    <3>1. CASE LockMade /\ mishap' = mishap \cup Replaced(userLock)
      <4>1. userLock = 0 /\ page = 0 /\ cpRunning /\ at # "gone"
        BY <2>3, <3>1 DEF Replaced, Phases, ClientLock
      <4>2. /\ submits = 0 /\ userSeq = 0 /\ done = {} /\ holder[1] \notin Client
            /\ \A d \in Client : handed[d].n = 0 /\ handed[d].seq = 0
        BY <4>1, QuietNow
      <4>3. holder'[1] \notin Client
        BY <1>1, <3>1, <4>2 DEF LockMade
      <4> QED BY <2>3, <4>1, <4>2, <4>3, QuietNumbers DEF ClientLock
    <3>2. CASE UNCHANGED holder
      BY <2>3, <3>2, NumbersKeep DEF ClientLock, Goto, engine, ClientTypes, Outside
    <3> QED BY <2>3, <3>1, <3>2 DEF ClientLock
  <2>4. CASE ClientPage(c)
    <3>1. CASE PageMade
      <4>1. page = 0 /\ cpRunning /\ at # "gone"
        BY <2>4, <3>1 DEF PageMade, Replaced, Phases, ClientPage
      <4>2. /\ submits = 0 /\ userSeq = 0 /\ done = {} /\ holder[1] \notin Client
            /\ \A d \in Client : handed[d].n = 0 /\ handed[d].seq = 0
        BY <4>1, QuietNow
      <4>3. userSeq' = 0 /\ mem' = [mem EXCEPT !["user1"] = 0]
        BY <3>1, <4>1 DEF PageMade, UserPage
      <4>4. mem'["user1"] = 0
        BY <4>3 DEF EngineTypes, Targets, UserPages
      <4> QED BY <2>4, <4>2, <4>3, <4>4, QuietNumbers DEF ClientPage
    <3>2. CASE UNCHANGED <<mem, page, userSeq>>
      BY <2>4, <3>2, NumbersKeep DEF ClientPage, Goto, ClientTypes, Outside
    <3> QED BY <2>4, <3>1, <3>2 DEF ClientPage
  <2>5. CASE SubmitLock(c)
    BY <2>5, NumbersLock
  <2>6. CASE EmitPacket(c)
    <3>1. \A d \in Client : pc'[d] \in Outside => pc[d] \in Outside
      BY <2>6 DEF EmitPacket, Goto, ClientTypes, Outside
    <3> QED BY <2>6, <3>1, NumbersKeep DEF EmitPacket, fenceVars
  <2>7. CASE SubmitCommit(c)
    BY <2>7, NumbersCommit
  <2>8. CASE FreeClient(c)
    <3>1. holder[1] # c
      BY <2>8 DEF FreeClient, Phases, Sending
    <3>2. UNCHANGED <<at, mem, wptrReg, rptr, holder, submits, done, page, userSeq>>
      BY <2>8 DEF FreeClient, engine, fenceVars
    <3>3. Waiting' = Waiting /\ Whole' = Whole /\ Fetched' = Fetched /\ (InHand' <=> InHand)
      BY <3>2, Same
    <3>4. Whole \in Nat /\ SeqOf(0) = 0
      BY WholeType DEF SeqOf
    <3>5. ASSUME NEW d \in Client
          PROVE  \/ d = c /\ handed'[d].n = 0 /\ handed'[d].seq = 0
                 \/ handed'[d] = handed[d] /\ pc'[d] = pc[d]
      BY <2>8 DEF FreeClient, Goto, ClientTypes
    <3>6. ASSUME NEW d \in Client
          PROVE  /\ handed'[d].seq = SeqOf(handed'[d].n)
                 /\ handed'[d].n <= Whole \/ holder[1] = d
                 /\ holder[1] = d => handed'[d].n = submits
                 /\ pc'[d] \in Outside => handed'[d].n = 0
      BY <3>1, <3>4, <3>5 DEF Numbers
    <3> QED BY <3>2, <3>3, <3>6 DEF Numbers
  <2> QED BY <1>3, <2>1, <2>2, <2>3, <2>4, <2>5, <2>6, <2>7, <2>8 DEF ClientStep
<1>4. CASE FreeEngine
  BY <1>4, NumbersKeep DEF FreeEngine, TeardownUserFence, clients
<1>5. CASE CPFetch
  BY <1>5, NumbersFetch
<1> QED BY <1>2, <1>3, <1>4, <1>5 DEF Next

(* Where a write lands: behind the packets that wait, not among them.      *)
LEMMA WriteIs ==
  ASSUME EngineTypes, NEW n \in Nat, NEW k \in 1 .. 3, n + k < RingSlots,
         wptr = Advance(rptr, n), NEW p, Write(p, k)
  PROVE  /\ wptr' = Advance(rptr, n + k)
         /\ \A i \in 0 .. n - 1 : ring'[Advance(rptr, i)] = ring[Advance(rptr, i)]
         /\ \A j \in 1 .. k : ring'[Advance(rptr, n + (j - 1))] = p[j]
<1>1. rptr \in Index /\ n \in Index /\ k \in 0 .. RingSlots /\ n + k <= RingSlots
  BY RingAssumption DEF EngineTypes, Index
<1>2. wptr' = Advance(rptr, n + k)
  BY <1>1, AdvanceAdd DEF Write
<1>3. wptr \in Index /\ wptr = IF rptr + n < RingSlots THEN rptr + n ELSE rptr + n - RingSlots
  <2>1. n \in 0 .. RingSlots
    BY <1>1, RingAssumption DEF Index
  <2> QED BY <1>1, <2>1, AdvanceIs
<1>4. ASSUME NEW i \in 0 .. n + k - 1
      PROVE  /\ Advance(rptr, i) \in Index
             /\ (Advance(rptr, i) - wptr) % RingSlots = IF i < n THEN i - n + RingSlots
                                                                 ELSE i - n
  <2>1. i \in 0 .. RingSlots /\ i < RingSlots
    BY <1>1, RingAssumption DEF Index
  <2> DEFINE a == Advance(rptr, i)
  <2>2. a \in Index /\ a = IF rptr + i < RingSlots THEN rptr + i ELSE rptr + i - RingSlots
    BY <1>1, <2>1, AdvanceIs
  <2> HIDE DEF a
  <2>3. (a - wptr) % RingSlots = IF a >= wptr THEN a - wptr ELSE a - wptr + RingSlots
    BY <1>3, <2>2, GapIs
  <2>4. (a - wptr) % RingSlots = IF i < n THEN i - n + RingSlots ELSE i - n
    BY <1>1, <1>3, <2>1, <2>2, <2>3, RingAssumption DEF Index
  <2> QED BY <2>2, <2>4 DEF a
<1>5. \A s \in Index : ring'[s] = LET i == ((s - wptr) % RingSlots) + 1
                                  IN IF i \in 1 .. k THEN p[i] ELSE ring[s]
  BY DEF Write, Index
<1>6. ASSUME NEW i \in 0 .. n - 1
      PROVE  ring'[Advance(rptr, i)] = ring[Advance(rptr, i)]
  <2>1. i \in 0 .. n + k - 1
    OBVIOUS
  <2> DEFINE a == Advance(rptr, i)
             g == (a - wptr) % RingSlots
  <2>2. a \in Index /\ g = i - n + RingSlots
    BY <1>4, <2>1
  <2>3. ring'[a] = IF g + 1 \in 1 .. k THEN p[g + 1] ELSE ring[a]
    BY <1>5, <2>2
  <2> HIDE DEF a, g
  <2>4. g + 1 \notin 1 .. k
    BY <1>1, <2>2, RingAssumption
  <2>5. ring'[a] = ring[a]
    BY <2>3, <2>4
  <2> QED BY <2>5 DEF a
<1>7. ASSUME NEW j \in 1 .. k
      PROVE  ring'[Advance(rptr, n + (j - 1))] = p[j]
  <2>1. n + (j - 1) \in 0 .. n + k - 1 /\ ~(n + (j - 1) < n) /\ n + (j - 1) - n = j - 1
    OBVIOUS
  <2> DEFINE a == Advance(rptr, n + (j - 1))
             g == (a - wptr) % RingSlots
  <2>2. a \in Index /\ g = j - 1
    BY <1>4, <2>1
  <2>3. ring'[a] = IF g + 1 \in 1 .. k THEN p[g + 1] ELSE ring[a]
    BY <1>5, <2>2
  <2> HIDE DEF a, g
  <2>4. g + 1 = j
    BY <2>2
  <2>5. ring'[a] = p[j]
    BY <2>3, <2>4
  <2> QED BY <2>5 DEF a
<1> QED BY <1>2, <1>6, <1>7

(* Steps that keep the ring, the pointers and the submission in hand.      *)
LEMMA WindowKeeps ==
  ASSUME Window, UNCHANGED <<ring, wptrReg, rptr>>, Written' = Written, Whole' = Whole,
         cpRunning' => cpRunning /\ wptr' = wptr,
         Waiting = 0 \/ (~halted' => ~halted /\ ("clear" \in live => "clear" \in live'))
  PROVE  Window'
<1>1. Waiting' = Waiting
  BY DEF Waiting, Pending
<1>2. ASSUME NEW i PROVE PacketIs(i)' <=> PacketIs(i)
  BY <1>1 DEF PacketIs
<1>3. CASE Waiting = 0
  <2>1. \A i \in Index : ~(i < Waiting')
    BY <1>1, <1>3, RingAssumption DEF Index
  <2> QED BY <1>1, <1>2, <2>1 DEF Window
<1>4. CASE ~halted' => ~halted /\ ("clear" \in live => "clear" \in live')
  BY <1>1, <1>2, <1>4 DEF Window
<1> QED BY <1>3, <1>4

LEMMA WindowFetch ==
  ASSUME EngineTypes, ClientTypes, Accounts, Phases, Numbers, Window, CPFetch
  PROVE  Window'
<1>1. /\ cpRunning /\ Waiting > 0 /\ Waiting' = Waiting - 1
      /\ Whole' = Whole /\ Written' = Written
  BY FetchMoves
<1>2. Waiting \in Nat /\ Whole \in Nat /\ Written \in 0 .. 3 /\ rptr \in Index
  BY Waits, WholeType, RingAssumption DEF Index, Written, Sent, EngineTypes
<1>3. Waiting + Written < RingSlots /\ wptr = Advance(rptr, Waiting + Written)
  BY <1>1 DEF Window
<1>4. UNCHANGED <<wptr, wptrReg, halted, cpRunning, live>>
      /\ rptr' = Advance(rptr, 1) /\ ring' = [ring EXCEPT ![rptr] = Packet("NOP")]
  BY DEF CPFetch, Memory
<1>5. ASSUME NEW i \in Index, i + 1 < RingSlots
      PROVE  /\ Advance(rptr', i) = Advance(rptr, i + 1)
             /\ ring'[Advance(rptr', i)] = ring[Advance(rptr, i + 1)]
  <2>1. Advance(rptr', i) = Advance(rptr, 1 + i)
    <3>1. 1 \in Index /\ i \in 0 .. RingSlots /\ 1 + i <= RingSlots
      BY <1>5, RingAssumption DEF Index
    <3> QED BY <1>2, <1>4, <3>1, AdvanceAdd
  <2>2. 1 + i = i + 1 /\ i + 1 \in Index /\ i + 1 # 0 /\ i + 1 \in 0 .. RingSlots
    BY <1>5, RingAssumption DEF Index
  <2>3. Advance(rptr, i + 1) # rptr /\ Advance(rptr, i + 1) \in Index
    <3>1. /\ Advance(rptr, i + 1) = IF rptr + (i + 1) < RingSlots THEN rptr + (i + 1)
                                      ELSE rptr + (i + 1) - RingSlots
          /\ Advance(rptr, i + 1) \in Index
      BY <1>2, <2>2, AdvanceIs
    <3> QED BY <1>2, <2>2, <3>1, RingAssumption DEF Index
  <2> QED BY <1>4, <2>1, <2>2, <2>3 DEF EngineTypes
<1>6. ASSUME NEW i \in Index, i < Waiting' + Written'
      PROVE  PacketIs(i)'
  <2>1. i + 1 \in Index /\ i + 1 < Waiting + Written /\ i + 1 < RingSlots
    <3>1. i < Waiting - 1 + Written
      BY <1>1, <1>6
    <3> QED BY <1>2, <1>3, <3>1, RingAssumption DEF Index
  <2>2. PacketIs(i + 1)
    BY <2>1 DEF Window
  <2>3. 3 * Whole' - Waiting' + i = 3 * Whole - Waiting + (i + 1)
    BY <1>1, <1>2 DEF Index
  <2>4. ring'[Advance(rptr', i)] = ring[Advance(rptr, i + 1)]
    BY <1>5, <2>1
  <2>5. PacketIs(i)' <=> LET u == 3 * Whole' - Waiting' + i IN
                         IF u < 0 THEN ring'[Advance(rptr', i)] \in StartPackets
                                  ELSE ring'[Advance(rptr', i)] = UserPacket(u)
    BY DEF PacketIs, Advance, UserPacket, StartPackets
  <2> QED BY <2>2, <2>3, <2>4, <2>5 DEF PacketIs
<1>7. ASSUME cpRunning'
      PROVE  Waiting' + Written' < RingSlots /\ wptr' = Advance(rptr', Waiting' + Written')
  <2> DEFINE i == Waiting' + Written'
  <2>1. i \in Index /\ i + 1 = Waiting + Written /\ i + 1 < RingSlots
    BY <1>1, <1>2, <1>3, RingAssumption DEF Index
  <2>2. Advance(rptr', i) = Advance(rptr, i + 1)
    BY <1>5, <2>1
  <2>3. i < RingSlots
    BY <2>1, RingAssumption DEF Index
  <2>4. wptr' = Advance(rptr', i)
    BY <1>3, <1>4, <2>1, <2>2
  <2> HIDE DEF i
  <2>5. i < RingSlots /\ wptr' = Advance(rptr', i)
    BY <2>3, <2>4
  <2> QED BY <2>5 DEF i
<1>8. ASSUME ~halted', NEW i \in Index, i < Waiting', ring'[Advance(rptr', i)].op = "EOP"
      PROVE  ring'[Advance(rptr', i)].page # "clear" \/ "clear" \in live'
  <2>1. i + 1 \in Index /\ i + 1 < Waiting /\ i + 1 < RingSlots
    <3>1. i < Waiting - 1
      BY <1>1, <1>8
    <3> QED BY <1>2, <1>3, <3>1, RingAssumption DEF Index
  <2>2. ring'[Advance(rptr', i)] = ring[Advance(rptr, i + 1)]
    BY <1>5, <2>1
  <2> QED BY <1>4, <1>8, <2>1, <2>2 DEF Window
<1> QED BY <1>6, <1>7, <1>8 DEF Window, Advance

(* The bring-up writes and commits at once, when nothing is in hand.       *)
LEMMA WindowEmit ==
  ASSUME EngineTypes, ClientTypes, Phases, Numbers, Window,
         at \in BeforeUp \ {"init", "resume"}, NEW k \in 1 .. 3, NEW p, Emit(p, k),
         mishap' = {}, UNCHANGED clients, UNCHANGED fenceVars,
         \A j \in 1 .. k : /\ p[j] \in StartPackets
                           /\ p[j].op = "EOP" /\ p[j].page = "clear" => "clear" \in live,
         "clear" \in live => "clear" \in live'
  PROVE  Window'
<1>1. cpRunning /\ Whole = 0 /\ Written = 0
  BY Quiet DEF Phases
<1>2. Whole' = 0 /\ Written' = 0
  BY <1>1 DEF Whole, Written, InHand, clients, fenceVars
<1>3. Waiting \in Nat /\ Waiting < RingSlots /\ wptr = Advance(rptr, Waiting) /\ wptr = wptrReg
  BY <1>1, Waits, RingAssumption DEF Window, Index
<1>4. Waiting + k < RingSlots
  <2>1. Pending(wptr) + k <= RingSlots - 1
    <3>1. Overran(k) = {}
      BY DEF Emit
    <3>2. Pending(wptr) = Waiting
      BY <1>3 DEF Waiting
    <3> QED BY <1>3, <3>1, <3>2, RingAssumption DEF Overran
  <2>2. Pending(wptr) = Waiting
    BY <1>3 DEF Waiting
  <2> QED BY <1>3, <2>1, <2>2, RingAssumption
<1>5. /\ wptr' = Advance(rptr, Waiting + k)
      /\ \A i \in 0 .. Waiting - 1 : ring'[Advance(rptr, i)] = ring[Advance(rptr, i)]
      /\ \A j \in 1 .. k : ring'[Advance(rptr, Waiting + (j - 1))] = p[j]
  <2>1. Write(p, k)
    BY DEF Emit
  <2> QED BY <1>3, <1>4, <2>1, WriteIs
<1>6. rptr' = rptr /\ wptrReg' = wptr' /\ UNCHANGED <<halted, cpRunning>>
  BY DEF Emit, Commit
<1>7. Waiting' = Waiting + k
  <2>1. Waiting + k \in Index /\ rptr \in Index
    BY <1>3, <1>4, RingAssumption DEF Index, EngineTypes
  <2>2. (Advance(rptr, Waiting + k) - rptr) % RingSlots = Waiting + k
    BY <2>1, AdvanceGap
  <2>3. Waiting' = (wptr' - rptr) % RingSlots
    BY <1>6 DEF Waiting, Pending
  <2> QED BY <1>5, <2>2, <2>3
<1>8. ASSUME NEW i \in Index, i < Waiting + k
      PROVE  /\ ring'[Advance(rptr, i)] \in StartPackets
             /\ ring'[Advance(rptr, i)].op = "EOP" /\ ring'[Advance(rptr, i)].page = "clear"
                  /\ ~halted => "clear" \in live
  <2>1. CASE i < Waiting
    <3>1. i \in 0 .. Waiting - 1 /\ i < Waiting + Written
      BY <1>1, <1>3, <2>1 DEF Index
    <3>2. ring'[Advance(rptr, i)] = ring[Advance(rptr, i)]
      BY <1>5, <3>1
    <3>3. PacketIs(i)
      BY <3>1 DEF Window
    <3>4. 3 * Whole - Waiting + i < 0
      BY <1>1, <1>3, <2>1 DEF Index
    <3>5. ring[Advance(rptr, i)] \in StartPackets
      BY <3>3, <3>4 DEF PacketIs
    <3> QED BY <2>1, <3>2, <3>5 DEF Window
  <2>2. CASE ~(i < Waiting)
    <3>1. /\ i - Waiting + 1 \in 1 .. k
          /\ Waiting + ((i - Waiting + 1) - 1) = i
      BY <1>3, <1>8, <2>2 DEF Index
    <3>2. ring'[Advance(rptr, i)] = p[i - Waiting + 1]
      BY <1>5, <3>1
    <3> QED BY <3>1, <3>2
  <2> QED BY <2>1, <2>2
<1>9. ASSUME NEW i \in Index, i < Waiting' + Written'
      PROVE  PacketIs(i)'
  <2>1. i < Waiting + k
    BY <1>2, <1>3, <1>7, <1>9 DEF Index
  <2>2. 3 * Whole' - Waiting' + i < 0
    <3>1. 3 * Whole' = 0
      BY <1>2
    <3>2. 0 - Waiting' + i < 0
      BY <1>3, <1>7, <2>1 DEF Index
    <3> QED BY <3>1, <3>2
  <2>3. ring'[Advance(rptr', i)] \in StartPackets
    BY <1>6, <1>8, <2>1
  <2>4. PacketIs(i)' <=> LET u == 3 * Whole' - Waiting' + i IN
                         IF u < 0 THEN ring'[Advance(rptr', i)] \in StartPackets
                                  ELSE ring'[Advance(rptr', i)] = UserPacket(u)
    BY DEF PacketIs, Advance, UserPacket, StartPackets
  <2> QED BY <2>2, <2>3, <2>4
<1>10. Waiting' + Written' < RingSlots /\ wptr' = Advance(rptr', Waiting' + Written')
  <2>1. Waiting' + Written' = Waiting + k
    BY <1>2, <1>3, <1>7
  <2> QED BY <1>4, <1>5, <1>6, <2>1
<1>11. ASSUME ~halted', NEW i \in Index, i < Waiting', ring'[Advance(rptr', i)].op = "EOP"
       PROVE  ring'[Advance(rptr', i)].page # "clear" \/ "clear" \in live'
  BY <1>6, <1>7, <1>8, <1>11
<1> QED BY <1>9, <1>10, <1>11 DEF Window, Advance

(* A client in the ring writes the next packet of its submission.          *)
LEMMA WindowPacket ==
  ASSUME EngineTypes, ClientTypes, Phases, Numbers, Window,
         NEW c \in Client, EmitPacket(c), mishap' = {}
  PROVE  Window'
<1>1. /\ holder[1] = c /\ page = 1 /\ cpRunning /\ InHand /\ pc[c] \in {"ib", "sync", "eop"}
  BY DEF EmitPacket, Phases, Sending, Outside, InHand
<1>2. /\ handed[c].n = submits /\ handed[c].seq = SeqOf(submits)
      /\ submits \in Nat /\ Whole = submits - 1 /\ Whole \in Nat /\ Whole + 1 = submits
  BY <1>1, WholeType, BoundsAssumption DEF Numbers, Whole, ClientTypes
<1>3. UNCHANGED <<wptrReg, rptr, halted, cpRunning, live, submits, holder>>
  BY DEF EmitPacket, Memory, fenceVars
<1>4. Whole' = Whole /\ Waiting' = Waiting
  BY <1>3, Same
<1>5. Waiting \in Nat /\ Written \in 0 .. 2
  BY Waits, RingAssumption, <1>1 DEF Index, Written, Sent
<1>6. Written' = Written + 1
  <2>1. Written = Sent(pc[c]) /\ Written' = Sent(pc'[c])
    BY <1>1, <1>3 DEF Written, InHand
  <2> QED BY <1>1, <2>1 DEF EmitPacket, Goto, ClientTypes, Sent
<1> DEFINE n == Waiting + Written
           q == IF pc[c] = "ib" THEN <<IB(submits)>>
                ELSE IF pc[c] = "sync" THEN <<Packet("SYNC")>>
                ELSE <<EOP("user1", submits, SeqOf(submits))>>
<1>7. Write(q, 1)
  <2>1. UserPage(page) = "user1"
    BY <1>1 DEF UserPage
  <2> QED BY <1>1, <1>2, <2>1 DEF EmitPacket
<1>8. n \in Nat /\ n < RingSlots /\ wptr = Advance(rptr, n) /\ rptr \in Index
  BY <1>1, <1>5 DEF Window, EngineTypes
<1>9. n + 1 < RingSlots
  <2>1. Pending(wptr) = n
    <3>1. n \in Index
      BY <1>8, RingAssumption DEF Index
    <3> QED BY <1>8, <3>1, AdvanceGap DEF Pending
  <2>2. Overran(1) = {}
    BY DEF EmitPacket
  <2> QED BY <1>8, <2>1, <2>2, RingAssumption DEF Overran
<1>10. q[1] = UserPacket(3 * Whole + Written)
  <2>1. (3 * Whole + Written) % 3 = Written /\ (3 * Whole + Written) \div 3 = Whole
    BY <1>2, <1>5
  <2>2. Written = Sent(pc[c])
    BY <1>1 DEF Written
  <2> QED BY <1>1, <1>2, <2>1, <2>2 DEF UserPacket, Sent
<1> HIDE DEF n, q
<1>11. /\ wptr' = Advance(rptr, n + 1)
       /\ \A i \in 0 .. n - 1 : ring'[Advance(rptr, i)] = ring[Advance(rptr, i)]
       /\ \A j \in 1 .. 1 : ring'[Advance(rptr, n + (j - 1))] = q[j]
  BY <1>7, <1>8, <1>9, WriteIs
<1>12. ring'[Advance(rptr, n)] = q[1]
  BY <1>8, <1>11
<1>13. Waiting' + Written' = n + 1
  BY <1>4, <1>5, <1>6 DEF n
<1>14. ASSUME NEW i \in Index, i < Waiting' + Written'
       PROVE  PacketIs(i)'
  <2>1. PacketIs(i)' <=> LET u == 3 * Whole - Waiting + i IN
                         IF u < 0 THEN ring'[Advance(rptr, i)] \in StartPackets
                                  ELSE ring'[Advance(rptr, i)] = UserPacket(u)
    BY <1>3, <1>4 DEF PacketIs, Advance, UserPacket, StartPackets
  <2>2. i < n + 1
    BY <1>13, <1>14
  <2>3. CASE i < n
    <3>1. i \in 0 .. n - 1 /\ i < Waiting + Written
      BY <1>8, <2>3 DEF Index, n
    <3>2. ring'[Advance(rptr, i)] = ring[Advance(rptr, i)]
      BY <1>11, <3>1
    <3>3. PacketIs(i)
      BY <3>1 DEF Window
    <3> QED BY <2>1, <3>2, <3>3 DEF PacketIs
  <2>4. CASE ~(i < n)
    <3>1. i = n
      BY <1>8, <2>2, <2>4 DEF Index
    <3>2. 3 * Whole - Waiting + i = 3 * Whole + Written /\ ~(3 * Whole + Written < 0)
      BY <1>2, <1>5, <3>1 DEF n
    <3> QED BY <1>10, <1>12, <2>1, <3>1, <3>2
  <2> QED BY <2>3, <2>4
<1>15. ASSUME ~halted', NEW i \in Index, i < Waiting', ring'[Advance(rptr', i)].op = "EOP"
       PROVE  ring'[Advance(rptr', i)].page # "clear" \/ "clear" \in live'
  <2>1. i \in 0 .. n - 1 /\ i < Waiting
    BY <1>4, <1>5, <1>15 DEF Index, n
  <2>2. ring'[Advance(rptr, i)] = ring[Advance(rptr, i)]
    BY <1>11, <2>1
  <2> QED BY <1>3, <1>15, <2>1, <2>2 DEF Window
<1>16. Waiting' + Written' < RingSlots /\ wptr' = Advance(rptr', Waiting' + Written')
  BY <1>3, <1>9, <1>11, <1>13
<1> QED BY <1>14, <1>15, <1>16 DEF Window, Advance

LEMMA WindowCommit ==
  ASSUME EngineTypes, ClientTypes, Phases, Numbers, Window,
         NEW c \in Client, SubmitCommit(c)
  PROVE  Window'
<1>1. /\ Written = 3 /\ Written' = 0 /\ Whole = submits - 1 /\ Whole' = submits
      /\ cpRunning /\ Waiting + 3 < RingSlots /\ Waiting' = Waiting + 3
      /\ wptr = Advance(rptr, Waiting + 3)
  BY CommitMoves
<1>2. Waiting \in Nat /\ Whole \in Nat /\ submits \in Nat
  BY Waits, WholeType, RingAssumption, BoundsAssumption DEF Index, ClientTypes
<1>3. UNCHANGED <<ring, rptr, wptr, halted, cpRunning, live>>
  BY DEF SubmitCommit, Memory
<1>4. Waiting' + Written' = Waiting + 3
  BY <1>1, <1>2
<1>5. ASSUME NEW i \in Index, i < Waiting' + Written' PROVE PacketIs(i)'
  <2>1. i < Waiting + Written
    BY <1>1, <1>4, <1>5
  <2>2. PacketIs(i)
    BY <2>1 DEF Window
  <2>3. 3 * Whole' - Waiting' + i = 3 * Whole - Waiting + i
    BY <1>1, <1>2 DEF Index
  <2>4. PacketIs(i)' <=> LET u == 3 * Whole' - Waiting' + i IN
                         IF u < 0 THEN ring[Advance(rptr, i)] \in StartPackets
                                  ELSE ring[Advance(rptr, i)] = UserPacket(u)
    BY <1>3 DEF PacketIs, Advance, UserPacket, StartPackets
  <2> QED BY <2>2, <2>3, <2>4 DEF PacketIs
<1>6. ASSUME ~halted', NEW i \in Index, i < Waiting', ring'[Advance(rptr', i)].op = "EOP"
      PROVE  ring'[Advance(rptr', i)].page # "clear" \/ "clear" \in live'
  <2>1. i < Waiting + Written
    BY <1>1, <1>6
  <2>2. PacketIs(i)
    BY <2>1 DEF Window
  <2>3. CASE i < Waiting
    BY <1>3, <1>6, <2>3 DEF Window
  <2>4. CASE ~(i < Waiting)
    <3>1. ~(3 * Whole - Waiting + i < 0)
      BY <1>2, <2>4 DEF Index
    <3>2. ring[Advance(rptr, i)] = UserPacket(3 * Whole - Waiting + i)
      BY <2>2, <3>1 DEF PacketIs
    <3>3. ring[Advance(rptr, i)].op = "EOP"
      BY <1>3, <1>6
    <3>4. ring[Advance(rptr, i)].page = "user1"
      BY <3>2, <3>3 DEF UserPacket, IB, Packet, EOP
    <3> QED BY <1>3, <3>4
  <2> QED BY <2>3, <2>4
<1>7. Waiting' + Written' < RingSlots /\ wptr' = Advance(rptr', Waiting' + Written')
  BY <1>1, <1>3, <1>4
<1> QED BY <1>5, <1>6, <1>7 DEF Window, Advance

LEMMA WindowStart ==
  ASSUME EngineTypes, ClientTypes, Accounts, Phases, Numbers, Window, Start,
         mishap' = {}, EngineTypes', Accounts', Phases'
  PROVE  Window'
<1> USE DEF BeforeUp, ToIH
<1>0. at \in BeforeUp
  BY DEF Start, AllocateRing, CPResume, SubmitMEInitialize, SubmitScratch, PollSeen,
         PollTimesOut, TestCPWriteback, WritebackEnds, Stage, SetupInterruptRing,
         SetupDMARing, SetupClearPipeline, SubmitColorClear, ColorClearEnds, StartUserFence
<1>1. ~InHand /\ Whole = 0 /\ Written = 0
  BY <1>0, Quiet
<1>2. CASE UNCHANGED <<fenceVars, clients>>
  <2>0. Whole' = Whole /\ Written' = Written
    BY <1>2 DEF Whole, Written, InHand, clients, fenceVars
  <2>1. CASE UNCHANGED <<ring, wptr, wptrReg, rptr, halted, cpRunning>>
             /\ ("clear" \in live => "clear" \in live')
    BY <2>0, <2>1, WindowKeeps
  <2>2. CASE AllocateRing \/ PollSeen \/ ColorClearEnds
    BY <2>1, <2>2 DEF AllocateRing, PollSeen, ColorClearEnds, engine, Memory, Allocate
  <2>3. CASE SetupInterruptRing \/ SetupDMARing \/ SetupClearPipeline
    BY <2>1, <2>3 DEF SetupInterruptRing, SetupDMARing, SetupClearPipeline, Stage, engine,
                      Memory, Allocate
  <2>4. CASE WritebackEnds
    BY <2>1, <2>4 DEF WritebackEnds, Free, engine
  <2>5. CASE CPResume
    <3>1. Waiting' = 0
      <4>1. 0 \in Index
        BY RingAssumption DEF Index
      <4>2. (0 - 0) % RingSlots = 0
        BY <4>1, GapIs
      <4> QED BY <2>5, <4>2 DEF CPResume, Waiting, Pending
    <3>2. Written' = 0
      BY <1>1, <2>0
    <3>3. wptr' = Advance(rptr', Waiting' + Written')
      <4>1. Advance(0, 0) = 0 /\ 0 + 0 = 0
        BY AdvanceIs, RingAssumption DEF Index
      <4> QED BY <2>5, <3>1, <3>2, <4>1 DEF CPResume
    <3>4. Waiting' + Written' < RingSlots /\ Waiting' + Written' = 0
      BY <3>1, <3>2, RingAssumption
    <3>5. \A i \in Index : ~(i < Waiting' + Written') /\ ~(i < Waiting')
      BY <3>1, <3>4, RingAssumption DEF Index
    <3> QED BY <3>3, <3>4, <3>5 DEF Window, Advance
  <2>6. CASE PollTimesOut
    <3>1. halted' /\ ~cpRunning' /\ UNCHANGED <<ring, wptrReg, rptr>>
      BY <2>6, <1>0 DEF PollTimesOut, StopCP, Phases
    <3> QED BY <2>0, <3>1, WindowKeeps
  <2>7. CASE SubmitMEInitialize
    <3>1. Emit(<<Packet("ME")>>, 1) /\ at = "me" /\ live' = live
      BY <2>7 DEF SubmitMEInitialize, Memory
    <3> QED BY <1>2, <3>1, WindowEmit DEF StartPackets, Packet
  <2>8. CASE SubmitScratch
    <3>1. Emit(<<Packet("SCRATCH")>>, 1) /\ at = "fence" /\ live' = live
      BY <2>8 DEF SubmitScratch, Memory
    <3> QED BY <1>2, <3>1, WindowEmit DEF StartPackets, Packet
  <2>9. CASE TestCPWriteback
    <3>1. CASE Emit(<<Packet("SYNC"), EOP("test", 0, 1)>>, 2) /\ Allocate({"test"})
      <4> DEFINE p == <<Packet("SYNC"), EOP("test", 0, 1)>>
      <4>1. at = "writeback" /\ ("clear" \in live => "clear" \in live')
        BY <2>9, <3>1 DEF TestCPWriteback, Allocate
      <4>2. \A j \in 1 .. 2 : /\ p[j] \in StartPackets
                              /\ p[j].op = "EOP" /\ p[j].page = "clear" => "clear" \in live
        BY DEF StartPackets, Packet, EOP
      <4> QED BY <1>2, <3>1, <4>1, <4>2, WindowEmit
    <3>2. CASE UNCHANGED <<Memory, engine>>
      BY <2>1, <3>2 DEF engine, Memory
    <3> QED BY <2>9, <3>1, <3>2 DEF TestCPWriteback
  <2>10. CASE SubmitColorClear
    <3> DEFINE p == <<Packet("DRAW"), Packet("SYNC"), EOP("clear", 0, 1)>>
    <3>1. Emit(p, 3) /\ at = "draw" /\ live' = live
      BY <2>10 DEF SubmitColorClear, Memory
    <3>2. "clear" \in live
      BY <3>1 DEF Accounts, ClearBuffers
    <3>3. \A j \in 1 .. 3 : p[j] \in StartPackets
      <4>1. p[1] = Packet("DRAW") /\ p[2] = Packet("SYNC") /\ p[3] = EOP("clear", 0, 1)
        OBVIOUS
      <4> QED BY <4>1 DEF StartPackets
    <3> HIDE DEF p
    <3> QED BY <1>2, <3>1, <3>2, <3>3, WindowEmit
  <2>11. CASE StartUserFence
    BY <2>1, <2>11 DEF StartUserFence, Memory, PageMade, Allocate
  <2> QED BY <2>2, <2>3, <2>4, <2>5, <2>6, <2>7, <2>8, <2>9, <2>10, <2>11 DEF Start
<1>3. CASE StartUserFence
  <2>1. UNCHANGED <<ring, wptr, wptrReg, rptr, halted, cpRunning, clients>>
        /\ ("clear" \in live => "clear" \in live')
    BY <1>3 DEF StartUserFence, Memory, PageMade, Allocate
  <2>2. \A c \in Client : pc[c] = "closed"
    BY <1>0 DEF Phases
  <2>3. \A c \in Client : pc'[c] \notin Sending
    BY <2>1, <2>2 DEF clients, Sending
  <2>4. ~InHand'
    BY <2>3 DEF Phases, InHand
  <2>5. Whole' = Whole /\ Written' = Written
    BY <1>1, <2>1, <2>4 DEF Whole, Written, clients
  <2> QED BY <2>1, <2>5, WindowKeeps
<1>4. StartUserFence \/ UNCHANGED <<fenceVars, clients>>
  BY DEF Start, AllocateRing, CPResume, SubmitMEInitialize, SubmitScratch, PollSeen,
         PollTimesOut, TestCPWriteback, WritebackEnds, Stage, SetupInterruptRing,
         SetupDMARing, SetupClearPipeline, SubmitColorClear, ColorClearEnds
<1> QED BY <1>2, <1>3, <1>4

LEMMA WindowStep ==
  ASSUME EngineTypes, ClientTypes, Accounts, Phases, Numbers, Window, Next,
         mishap' = {}, EngineTypes', ClientTypes', Accounts', Phases'
  PROVE  Window'
<1>1. CASE Start
  BY <1>1, WindowStart
<1>2. ASSUME NEW c \in Client, ClientStep(c) PROVE Window'
  <2>1. ASSUME holder' = holder, submits' = submits,
               UNCHANGED <<ring, wptr, wptrReg, rptr, halted, cpRunning>>,
               "clear" \in live => "clear" \in live',
               \A d \in Client : pc[d] \in Sending => pc'[d] = pc[d]
        PROVE  Window'
    <3>1. Whole' = Whole
      BY <2>1 DEF Whole, InHand
    <3>2. InHand => pc[holder[1]] \in Sending
      BY DEF InHand, Phases
    <3>3. Written' = Written
      BY <2>1, <3>2 DEF Written, InHand
    <3> QED BY <2>1, <3>1, <3>3, WindowKeeps
  <2>2. CASE Open(c) \/ Started(c) \/ SubmitIB(c) \/ FreeClient(c)
    <3>1. pc[c] \notin Sending /\ pc' = [pc EXCEPT ![c] = pc'[c]]
      BY <2>2 DEF Open, Started, SubmitIB, FreeClient, Goto, Sending, ClientTypes
    <3>2. \A d \in Client : pc[d] \in Sending => pc'[d] = pc[d]
      BY <3>1 DEF ClientTypes
    <3> QED BY <2>1, <2>2, <3>2 DEF Open, Started, SubmitIB, FreeClient, engine, fenceVars,
                                    Memory
  <2>3. CASE AllocBuffer(c) \/ FreeBuffer(c) \/ Close(c)
    BY <2>1, <2>3 DEF AllocBuffer, FreeBuffer, Close, engine, fenceVars, Memory
  <2>4. CASE ClientPage(c)
    <3>1. pc[c] \notin Sending /\ pc' = [pc EXCEPT ![c] = pc'[c]]
      BY <2>4 DEF ClientPage, Goto, Sending, ClientTypes
    <3>2. \A d \in Client : pc[d] \in Sending => pc'[d] = pc[d]
      BY <3>1 DEF ClientTypes
    <3>3. "clear" \in live => "clear" \in live'
      BY <2>4 DEF ClientPage, Memory, PageMade, Allocate
    <3> QED BY <2>1, <2>4, <3>2, <3>3 DEF ClientPage
  <2>5. CASE ClientLock(c)
    <3>1. CASE UNCHANGED holder
      <4>1. pc[c] \notin Sending /\ pc' = [pc EXCEPT ![c] = pc'[c]]
        BY <2>5 DEF ClientLock, Goto, Sending, ClientTypes
      <4>2. \A d \in Client : pc[d] \in Sending => pc'[d] = pc[d]
        BY <4>1 DEF ClientTypes
      <4> QED BY <2>1, <2>5, <3>1, <4>2 DEF ClientLock, engine, Memory
    <3>2. CASE LockMade /\ mishap' = mishap \cup Replaced(userLock)
      <4>1. page = 0 /\ at # "gone" /\ page' = 0 /\ at' # "gone"
        BY <2>5, <3>2 DEF ClientLock, Replaced, Phases
      <4>2. Whole = 0 /\ Written = 0
        BY <4>1, Quiet
      <4>3. \A d \in Client : pc'[d] \notin Sending
        BY <4>1 DEF Phases, Outside, Sending
      <4>4. ~InHand' /\ submits' = 0
        BY <4>1, <4>3 DEF Phases, InHand
      <4>5. Whole' = 0 /\ Written' = 0
        BY <4>4 DEF Whole, Written
      <4> QED BY <2>5, <4>2, <4>5, WindowKeeps DEF ClientLock, engine, Memory
    <3> QED BY <2>5, <3>1, <3>2 DEF ClientLock
  <2>6. CASE SubmitLock(c)
    <3>1. Whole' = Whole /\ Written' = Written
      BY <2>6, LockMoves
    <3> QED BY <2>6, <3>1, WindowKeeps DEF SubmitLock, engine, Memory
  <2>7. CASE EmitPacket(c)
    BY <2>7, WindowPacket
  <2>8. CASE SubmitCommit(c)
    BY <2>8, WindowCommit
  <2> QED BY <1>2, <2>2, <2>3, <2>4, <2>5, <2>6, <2>7, <2>8 DEF ClientStep
<1>3. CASE FreeEngine
  <2>1. UNCHANGED <<ring, wptrReg, rptr, holder, clients>> /\ ~cpRunning'
        /\ (~halted' => ~halted /\ ~cpRunning)
    BY <1>3 DEF FreeEngine
  <2>2. Whole' = Whole /\ Written' = Written
    BY <2>1 DEF Whole, Written, InHand, clients
  <2>3. ~halted' => Waiting = 0
    BY <2>1, Waits DEF Accounts
  <2> QED BY <2>1, <2>2, <2>3, WindowKeeps
<1>4. CASE CPFetch
  BY <1>4, WindowFetch
<1> QED BY <1>1, <1>2, <1>3, <1>4 DEF Next

-----------------------------------------------------------------------------
(* The invariant is inductive.                                             *)

LEMMA IInvInit == Init => IInv
<1> SUFFICES ASSUME Init PROVE IInv
  OBVIOUS
<1>0. 0 \in Index /\ 0 \in Number /\ 0 \in 0 .. MaxSubmits /\ 0 \in 0 .. MaxBuffers
  BY RingAssumption, SeqAssumption, BoundsAssumption DEF Index, Number
<1>1. EngineTypes
  BY <1>0, PacketTypes DEF Init, EngineTypes, BeforeUp, ToIH, Index, Targets
<1>2. ClientTypes
  BY <1>0 DEF Init, ClientTypes, Outside, Sending
<1>3. Accounts
  <2>1. SizeOf({}) = 0
    BY FS_EmptySet DEF SizeOf
  <2> QED BY <2>1 DEF Init, Accounts, ToIH, BeforeUp
<1>4. Phases
  BY NoneAssumption DEF Init, Phases, BeforeUp, ToIH, Outside, Sending, Locks
<1>5. ~InHand /\ Whole = 0 /\ Written = 0
  BY NoneAssumption DEF Init, InHand, Whole, Written, Locks
<1>6. Waiting = 0
  BY <1>1, Waits DEF Init
<1>7. Numbers
  <2>1. Fetched = 0
    BY <1>5, <1>6 DEF Fetched
  <2>2. SeqOf(0) = 0 /\ (0 + 2) \div 3 = 0 /\ 1 .. 0 = {}
    BY DEF SeqOf
  <2> QED BY <1>5, <2>1, <2>2 DEF Init, Numbers, InHand
<1>8. Window
  <2>1. \A i \in Index : ~(i < Waiting + Written) /\ ~(i < Waiting)
    BY <1>5, <1>6, RingAssumption DEF Index
  <2> QED BY <2>1 DEF Init, Window
<1> QED BY <1>1, <1>2, <1>3, <1>4, <1>7, <1>8 DEF IInv

LEMMA IInvStep == IInv /\ [Next]_vars => IInv'
<1> SUFFICES ASSUME IInv, [Next]_vars PROVE IInv'
  OBVIOUS
<1>1. CASE Next
  <2>1. /\ EngineTypes /\ ClientTypes /\ Accounts
        /\ Phases /\ Numbers /\ Window /\ mishap = {}
    BY <1>1 DEF IInv, Next
  <2>2. EngineTypes' /\ ClientTypes' /\ Accounts'
    BY <1>1, <2>1, EngineTypesStep, ClientTypesStep, AccountsStep
  <2>3. ASSUME mishap' = {} PROVE Phases' /\ Numbers' /\ Window'
    <3>1. Phases'
      BY <1>1, <2>1, <2>3, PhasesStep
    <3>2. Numbers'
      BY <1>1, <2>1, <2>2, <2>3, <3>1, NumbersStep
    <3>3. Window'
      BY <1>1, <2>1, <2>2, <2>3, <3>1, WindowStep
    <3> QED BY <3>1, <3>2, <3>3
  <2> QED BY <2>2, <2>3 DEF IInv
<1>2. CASE UNCHANGED vars
  BY <1>2 DEF IInv, vars, engine, fenceVars, clients, EngineTypes, ClientTypes, Accounts,
     Phases, Numbers, Window, InHand, Written, Whole, Waiting, Pending, Fetched, PacketIs
<1> QED BY <1>1, <1>2

THEOREM Inductive == Spec => []IInv
BY IInvInit, IInvStep, PTL DEF Spec

-----------------------------------------------------------------------------
(* The properties the runs check.                                          *)

(* _mem2LiveBytes is what the live buffers take in every failure of the    *)
(* bring-up, and free leaves nothing behind.                               *)
THEOREM BuffersAccounted == Spec => []Accounted
<1>1. IInv => TypeOK
  <2> SUFFICES ASSUME IInv PROVE TypeOK
    OBVIOUS
  <2>0. EngineTypes /\ ClientTypes /\ Accounts
    BY DEF IInv
  <2>1. \A s \in 0 .. RingSlots - 1 :
          ring[s].op \in {"NOP", "ME", "SCRATCH", "SYNC", "DRAW", "IB", "EOP"}
    BY <2>0 DEF EngineTypes, Index, Packets
  <2>2. live \subseteq GPUBuffers /\ mem2 \in Nat
    <3>1. SizeOf(live) \in Nat
      <4>1. live \cap {} = {} /\ {} \in SUBSET GPUBuffers
        OBVIOUS
      <4> QED BY <2>0, <4>1, SizeOfUnion DEF Accounts
    <3> QED BY <2>0, <3>1 DEF Accounts
  <2>3. \A c \in Client : /\ bufs[c] \in 0 .. MaxBuffers
                           /\ handed[c].n \in 0 .. MaxSubmits
                           /\ handed[c].seq \in 0 .. SeqMod - 1
    BY <2>0 DEF ClientTypes, Number
  <2>4. \A p \in DOMAIN mem : mem[p] \in 0 .. SeqMod - 1
    BY <2>0 DEF EngineTypes, Number
  <2>5. \A l \in Locks : holder[l] \in Client \cup {None, "absent"}
    BY <2>0 DEF ClientTypes
  <2>6. {wptr, wptrReg, rptr} \subseteq 0 .. RingSlots - 1
    BY <2>0 DEF EngineTypes, Index
  <2>7. {page, userLock} \subseteq 0 .. 2 /\ userSeq \in 0 .. SeqMod - 1
    BY <2>0 DEF ClientTypes, Number
  <2>8. halted \in BOOLEAN /\ cpRunning \in BOOLEAN /\ scratch \in BOOLEAN
        /\ done \subseteq 1 .. MaxSubmits
    BY <2>0 DEF EngineTypes
  <2> QED BY <2>1, <2>2, <2>3, <2>4, <2>5, <2>6, <2>7, <2>8 DEF TypeOK
<1>2. IInv => Accounted
  BY <1>1 DEF IInv, Accounts, Accounted
<1> QED BY <1>2, Inductive, PTL

(* The command processor fetches from a live ring and writes live pages.   *)
THEOREM FetchesWhatIsLive == Spec => []WritesOnlyLive
<1>1. IInv => WritesOnlyLive
  <2> SUFFICES ASSUME IInv, ~halted, rptr # wptrReg PROVE
                 /\ "ring" \in live
                 /\ mishap = {} =>
                      \A i \in DOMAIN Committed :
                        Committed[i].op = "EOP" => Committed[i].page \in live \cup {"test"}
    BY DEF WritesOnlyLive
  <2>1. EngineTypes /\ ClientTypes /\ cpRunning /\ "ring" \in live
    BY DEF IInv, Accounts
  <2>2. ASSUME mishap = {}, NEW i \in DOMAIN Committed, Committed[i].op = "EOP"
        PROVE  Committed[i].page \in live \cup {"test"}
    <3>1. Phases /\ Numbers /\ Window /\ Accounts
      BY <2>2 DEF IInv
    <3> DEFINE p == ring[Advance(rptr, i - 1)]
    <3>2. Waiting \in Nat /\ Waiting < RingSlots /\ Written \in 0 .. 3 /\ Whole \in Nat
          /\ Whole <= submits
      BY <2>1, <3>1, Waits, WholeType, RingAssumption DEF Index, Written, Sent
    <3>3. i \in 1 .. Waiting /\ Committed[i] = p
      BY DEF Committed, Waiting
    <3>4. i - 1 \in Index /\ i - 1 < Waiting /\ i - 1 < Waiting + Written
      BY <3>2, <3>3, RingAssumption DEF Index
    <3>5. PacketIs(i - 1)
      BY <3>1, <3>4 DEF Window
    <3>6. p.op = "EOP" => p.page # "clear" \/ "clear" \in live
      BY <3>1, <3>4 DEF Window
    <3> DEFINE u == 3 * Whole - Waiting + (i - 1)
    <3>7. CASE u < 0
      <4>1. p \in StartPackets
        BY <3>5, <3>7 DEF PacketIs
      <4> QED BY <2>2, <3>3, <3>6, <4>1 DEF StartPackets, EOP, Packet
    <3>8. CASE ~(u < 0)
      <4>1. p = UserPacket(u)
        BY <3>5, <3>8 DEF PacketIs
      <4>2. p.page = "user1"
        BY <2>2, <3>3, <4>1 DEF UserPacket, EOP, Packet, IB
      <4>3. Whole > 0
        BY <3>2, <3>3, <3>8
      <4>4. submits # 0
        BY <3>2, <4>3, BoundsAssumption, <2>1 DEF ClientTypes
      <4>5. page # 0
        BY <2>1, <3>1, <4>4 DEF Phases
      <4> QED BY <3>1, <3>3, <4>2, <4>5 DEF Accounts
    <3> QED BY <3>7, <3>8
  <2> QED BY <2>1, <2>2
<1> QED BY <1>1, Inductive, PTL

(* What is committed is made of whole submissions, in order.               *)
THEOREM SubmissionsAreWhole == Spec => []WholeSubmissions
<1>1. IInv => WholeSubmissions
  <2> DEFINE q == Committed
             u(i) == 3 * Whole - Waiting + (i - 1)
  <2> SUFFICES ASSUME IInv, mishap = {}
               PROVE  \A i \in DOMAIN q :
                        /\ q[i].op = "IB" => /\ i + 2 \in DOMAIN q
                                             /\ q[i + 1].op = "SYNC"
                                             /\ q[i + 2].op = "EOP"
                                             /\ q[i + 2].n = q[i].n
                        /\ \A j \in DOMAIN q : q[i].op = "IB" /\ q[j].op = "IB" /\ i < j
                                                 => q[i].n < q[j].n
    BY DEF WholeSubmissions
  <2>1. EngineTypes /\ ClientTypes /\ Numbers /\ Window
    BY DEF IInv
  <2>2. Waiting \in Nat /\ Waiting < RingSlots /\ Written \in 0 .. 3 /\ Whole \in Nat
    BY <2>1, Waits, WholeType, RingAssumption DEF Index, Written, Sent
  <2>3. DOMAIN q = 1 .. Waiting
    BY DEF Committed, Waiting
  <2>4. ASSUME NEW i \in 1 .. Waiting
        PROVE  /\ u(i) \in Int
               /\ IF u(i) < 0 THEN q[i] \in StartPackets ELSE q[i] = UserPacket(u(i))
    <3>1. i - 1 \in Index /\ i - 1 < Waiting + Written
      BY <2>2, <2>4, RingAssumption DEF Index
    <3>2. PacketIs(i - 1)
      BY <2>1, <3>1 DEF Window
    <3>3. q[i] = ring[Advance(rptr, i - 1)]
      BY <2>3 DEF Committed
    <3> QED BY <2>2, <3>2, <3>3 DEF PacketIs
  <2> HIDE DEF q
  <2>5. ASSUME NEW i \in 1 .. Waiting, q[i].op = "IB"
        PROVE  /\ u(i) \in Nat /\ u(i) % 3 = 0 /\ q[i].n = u(i) \div 3 + 1
               /\ i + 2 <= Waiting
    <3>1. ~(u(i) < 0)
      BY <2>4, <2>5 DEF StartPackets, Packet, EOP
    <3>2. u(i) \in Nat /\ q[i] = UserPacket(u(i))
      BY <2>4, <3>1
    <3>3. u(i) % 3 = 0 /\ q[i] = IB(u(i) \div 3 + 1)
      BY <2>5, <3>2 DEF UserPacket, Packet, EOP
    <3>4. u(i) = 3 * (u(i) \div 3) /\ u(i) \div 3 \in Nat
      BY <3>2, <3>3
    <3>5. i + 2 <= Waiting
      BY <2>2, <3>4
    <3> QED BY <3>2, <3>3, <3>5 DEF IB
  <2>6. ASSUME NEW i \in 1 .. Waiting, q[i].op = "IB"
        PROVE  /\ i + 2 \in 1 .. Waiting /\ q[i + 1].op = "SYNC"
               /\ q[i + 2].op = "EOP" /\ q[i + 2].n = q[i].n
    <3>1. u(i) \in Nat /\ u(i) % 3 = 0 /\ q[i].n = u(i) \div 3 + 1 /\ i + 2 <= Waiting
      BY <2>5, <2>6
    <3>2. i + 1 \in 1 .. Waiting /\ i + 2 \in 1 .. Waiting
      BY <2>2, <3>1
    <3>3. u(i + 1) = u(i) + 1 /\ u(i + 2) = u(i) + 2
      BY <2>2
    <3>4. q[i + 1] = UserPacket(u(i) + 1) /\ q[i + 2] = UserPacket(u(i) + 2)
      <4>1. ~(u(i) + 1 < 0) /\ ~(u(i) + 2 < 0)
        BY <3>1
      <4> HIDE DEF u
      <4> QED BY <2>4, <3>2, <3>3, <4>1
    <3> HIDE DEF u
    <3>5. (u(i) + 1) % 3 = 1 /\ (u(i) + 2) % 3 = 2 /\ (u(i) + 2) \div 3 = u(i) \div 3
      BY <3>1
    <3> QED BY <3>1, <3>2, <3>4, <3>5 DEF UserPacket, Packet, EOP
  <2>7. ASSUME NEW i \in 1 .. Waiting, NEW j \in 1 .. Waiting,
               q[i].op = "IB", q[j].op = "IB", i < j
        PROVE  q[i].n < q[j].n
    <3>1. /\ u(i) \in Nat /\ u(i) % 3 = 0 /\ q[i].n = u(i) \div 3 + 1
          /\ u(j) \in Nat /\ u(j) % 3 = 0 /\ q[j].n = u(j) \div 3 + 1
      BY <2>5, <2>7
    <3>2. u(i) < u(j)
      BY <2>2, <2>7
    <3> HIDE DEF u
    <3>3. u(i) = 3 * (u(i) \div 3) /\ u(j) = 3 * (u(j) \div 3)
          /\ u(i) \div 3 \in Nat /\ u(j) \div 3 \in Nat
      BY <3>1
    <3> QED BY <3>1, <3>2, <3>3
  <2> QED BY <2>3, <2>6, <2>7
<1> QED BY <1>1, Inductive, PTL

(* A fence that is reached was executed: the numbers of what still waits   *)
(* lie less than half a round after the number on the page.                *)
THEOREM ReachedIsExecuted == Spec => []FenceMeansExecuted
<1>1. IInv => FenceMeansExecuted
  <2> SUFFICES ASSUME IInv, NEW c \in Client, mishap = {},
                      pc[c] = "idle", handed[c].n # 0, WaitFence(c)
               PROVE  handed[c].n \in done
    BY DEF FenceMeansExecuted
  <2>1. EngineTypes /\ ClientTypes /\ Phases /\ Numbers /\ Window
    BY DEF IInv
  <2> DEFINE n == handed[c].n
             m == Fetched \div 3
             e == (Fetched + 2) \div 3
  <2>2. page = 1
    BY <2>1 DEF Phases, Outside
  <2>3. n \in Nat /\ n > 0 /\ n <= Whole
    <3>1. holder[1] # c
      BY <2>1 DEF Phases, Sending
    <3> QED BY <2>1, <3>1, BoundsAssumption DEF Numbers, ClientTypes
  <2>4. Reached(SeqOf(m), SeqOf(n)) /\ done = 1 .. e
    BY <2>1, <2>2 DEF WaitFence, ReadUserFence, UserPage, Numbers
  <2>5. Waiting \in Nat /\ Waiting < RingSlots /\ Whole \in Nat
    BY <2>1, Waits, WholeType, RingAssumption DEF Index
  <2>6. Fetched \in Nat /\ 3 * Whole <= Fetched + Waiting
    BY <2>5 DEF Fetched
  <2>7. m \in Nat /\ 3 * m >= Fetched - 2 /\ e \in Nat /\ m <= e
    BY <2>6
  <2> HIDE DEF n, m, e
  <2>8. ASSUME ~(n <= e) PROVE FALSE
    <3> DEFINE d == n - m
    <3>1. d \in Nat /\ 0 < d /\ m + d = n
      BY <2>3, <2>7, <2>8
    <3>2. 3 * d <= RingSlots + 1
      BY <2>3, <2>5, <2>6, <2>7, RingAssumption
    <3>3. 2 * d + 2 <= SeqMod
      BY <3>1, <3>2, FenceAssumption, RingAssumption, SeqAssumption
    <3> HIDE DEF d
    <3>4. ~Reached(SeqOf(m), SeqOf(m + d))
      BY <2>7, <3>1, <3>3, NotReached
    <3> QED BY <2>4, <3>1, <3>4
  <2>9. n \in 1 .. e
    BY <2>3, <2>7, <2>8
  <2> QED BY <2>4, <2>9 DEF n
<1> QED BY <1>1, Inductive, PTL

(* Nothing is left behind: with the ring drained and no call under way     *)
(* every submission was executed and the page shows the last number.       *)
THEOREM EverySubmissionExecuted == Spec => []NothingStuck
<1>1. IInv => NothingStuck
  <2> SUFFICES ASSUME IInv, mishap = {}, page # 0, at = "up", rptr = wptrReg,
                      \A c \in Client : pc[c] \in {"closed", "idle"}
               PROVE  ReadUserFence = userSeq /\ done = 1 .. submits
    BY DEF NothingStuck
  <2>1. EngineTypes /\ ClientTypes /\ Phases /\ Numbers
    BY DEF IInv
  <2>2. Waiting = 0
    BY <2>1, Waits
  <2>3. ~InHand
    BY <2>1 DEF Phases, Sending, InHand
  <2>4. Whole = submits /\ submits \in Nat
    BY <2>1, <2>3, BoundsAssumption DEF Whole, ClientTypes
  <2>5. Fetched = 3 * submits
    BY <2>2, <2>4 DEF Fetched
  <2>6. Fetched \div 3 = submits /\ (Fetched + 2) \div 3 = submits
    BY <2>4, <2>5
  <2>7. page = 1
    BY <2>1 DEF Phases
  <2>8. mem["user1"] = SeqOf(submits) /\ done = 1 .. submits /\ userSeq = SeqOf(submits)
    BY <2>1, <2>6, <2>7 DEF Numbers
  <2> QED BY <2>7, <2>8 DEF ReadUserFence, UserPage
<1> QED BY <1>1, Inductive, PTL
=============================================================================
