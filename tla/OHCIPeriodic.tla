----------------------------- MODULE OHCIPeriodic -----------------------------
(***************************************************************************)
(* What WiiOHCI admits to the periodic schedule.                           *)
(*                                                                         *)
(* The controller follows, in frame f, the list that begins at entry       *)
(* f modulo 32 of the HCCA.  The lists join two by two: the entries are    *)
(* the leaves of a binary tree of nodes, and an interrupt endpoint hangs   *)
(* behind the node of its interval and branch.  _interruptBranchLoad keeps *)
(* the time every frame is filled with.  Isochronous endpoints share one   *)
(* list at the root and are admitted by bytes, _isoBandwidthAvailable.     *)
(*                                                                         *)
(* The calls hold the gate, so each is one step.  A call that fails for    *)
(* want of memory changes nothing here and is left out.                    *)
(***************************************************************************)
EXTENDS Integers, FiniteSets, FiniteSetsExt

CONSTANTS
  IntEndpoint,  \* interrupt endpoints
  IsoEndpoint,  \* isochronous endpoints
  Heads,        \* kOHCINumInterruptHeads, a power of two
  MaxAlloc,     \* kWiiOHCIFrameTimeMaxUsecsAlloc
  Desc,         \* what interrupt endpoints are created with
  Size,         \* what isochronous endpoints are created with
  Total         \* kUSBMaxFSIsocEndpointReqCount

(* A power of two: of its divisors only one is odd.                        *)
ASSUME HeadsAssumption ==
  Heads \in Nat \ {0} /\ \A d \in 2 .. Heads : Heads % d = 0 => d % 2 = 0
ASSUME PeriodicAssumption == IsFiniteSet(IntEndpoint) /\ IsFiniteSet(IsoEndpoint)
ASSUME AllocAssumption == MaxAlloc \in Nat
ASSUME DescAssumption ==
  Desc \subseteq [low : BOOLEAN, in : BOOLEAN, size : Nat, rate : Nat]
ASSUME SizeAssumption == Size \subseteq Nat /\ Total \in Nat

VARIABLES
  int,          \* int[e]: where an interrupt endpoint hangs, and its load
  branchLoad,   \* _interruptBranchLoad
  iso,          \* iso[e]: the packet size of an isochronous endpoint
  isoAvailable  \* _isoBandwidthAvailable

periodicVars == <<int, branchLoad, iso, isoAvailable>>

Slot == 0 .. Heads - 1
(* The powers of two up to Heads are its divisors.                         *)
Interval == {q \in 1 .. Heads : Heads % q = 0}

-----------------------------------------------------------------------------
(* The tree.  The nodes of an interval q stand in a row that begins at     *)
(* RowOf(q); those of the interval Heads are the entries of the HCCA.      *)

Node == 0 .. 2 * Heads - 2
Root == 2 * Heads - 2
RowOf(q) == 2 * Heads - 2 * q
IntervalOf(i) == CHOOSE q \in Interval : RowOf(q) <= i /\ i < RowOf(q) + q

(* initInterruptEndpoints: the first half of a row and the second half     *)
(* join the next row in the same order.                                    *)
NextNode(i) ==
  LET q == IntervalOf(i) IN
  IF i < RowOf(q) + q \div 2 THEN i + q ELSE i + q \div 2

ListFrom[i \in Node] == {i} \cup (IF i = Root THEN {} ELSE ListFrom[NextNode(i)])

(* getInterruptNodeIndex                                                   *)
NodeIndex(q, branch) == RowOf(q) + (branch % q)

-----------------------------------------------------------------------------
(* normalizeInterruptPollingRate: the power of two below, at most Heads.   *)
Normalized(rate) == IF rate < 1 THEN 0 ELSE Max({q \in Interval : q <= rate})

(* calculatePeriodicLoad, in microseconds.                                 *)
BitTime(bytes) == (bytes * 7 * 8) \div 6

LoadNS(d) ==
  IF d.low
    THEN (IF d.in THEN 64060 ELSE 64107) + 2 * 333 + 1000
           + ((IF d.in THEN 67667 ELSE 66700) * (31 + 10 * BitTime(d.size))) \div 1000
    ELSE 9107 + 1000 + (8354 * (31 + 10 * BitTime(d.size))) \div 1000

Load(d) == ((LoadNS(d) + 999) \div 1000) % 2 ^ 16

(* findInterruptBranch: of the branches with room in all of their frames   *)
(* the first one whose first frame is least loaded.                        *)
FramesOf(q, branch) == {s \in Slot : s >= branch /\ (s - branch) % q = 0}

(* Mutant: only the first frame of the branch is looked at.                *)
FitsFirst(q, branch, l) == branchLoad[branch] + l <= MaxAlloc

Fits(q, branch, l) == \A s \in FramesOf(q, branch) : branchLoad[s] + l <= MaxAlloc

Better(a, b) == \/ branchLoad[a] < branchLoad[b]
                \/ branchLoad[a] = branchLoad[b] /\ a <= b

Best(q, l) ==
  CHOOSE b \in 0 .. q - 1 : /\ Fits(q, b, l)
                            /\ \A c \in 0 .. q - 1 : Fits(q, c, l) => Better(b, c)

(* adjustInterruptBranchLoad *)
Clamped(n) == IF n < 0 THEN 0 ELSE n

Adjusted(q, branch, delta) ==
  [s \in Slot |-> IF s \in FramesOf(q, branch) THEN Clamped(branchLoad[s] + delta)
                                               ELSE branchLoad[s]]

-----------------------------------------------------------------------------
Absent == [interval |-> 0, branch |-> 0, load |-> 0, node |-> -1]

CreateInterrupt(e, d) ==
  LET q == Normalized(d.rate)
      b == Best(q, Load(d))
  IN
  /\ int[e] = Absent
  /\ q # 0
  /\ \E c \in 0 .. q - 1 : Fits(q, c, Load(d))
  /\ int' = [int EXCEPT ![e] = [interval |-> q, branch |-> b, load |-> Load(d),
                                node |-> NodeIndex(q, b)]]
  /\ branchLoad' = Adjusted(q, b, Load(d))
  /\ UNCHANGED <<iso, isoAvailable>>

DeleteInterrupt(e) ==
  /\ int[e] # Absent
  /\ int' = [int EXCEPT ![e] = Absent]
  /\ branchLoad' = Adjusted(int[e].interval, int[e].branch, -int[e].load)
  /\ UNCHANGED <<iso, isoAvailable>>

None == -1

CreateIso(e, n) ==
  /\ iso[e] = None /\ n <= isoAvailable
  /\ iso' = [iso EXCEPT ![e] = n]
  /\ isoAvailable' = isoAvailable - n
  /\ UNCHANGED <<int, branchLoad>>

(* UIMCreateIsochEndpoint for an endpoint that is there: more bandwidth    *)
(* only if there is so much left, less in any case.                        *)
ResizeIso(e, n) ==
  /\ iso[e] # None /\ n # iso[e]
  /\ n - iso[e] <= isoAvailable
  /\ iso' = [iso EXCEPT ![e] = n]
  /\ isoAvailable' = isoAvailable - (n - iso[e])
  /\ UNCHANGED <<int, branchLoad>>

DeleteIso(e) ==
  /\ iso[e] # None
  /\ iso' = [iso EXCEPT ![e] = None]
  /\ isoAvailable' = isoAvailable + iso[e]
  /\ UNCHANGED <<int, branchLoad>>

PeriodicInit ==
  /\ int = [e \in IntEndpoint |-> Absent]
  /\ branchLoad = [s \in Slot |-> 0]
  /\ iso = [e \in IsoEndpoint |-> None]
  /\ isoAvailable = Total

PeriodicNext ==
  \/ \E e \in IntEndpoint : \/ \E d \in Desc : CreateInterrupt(e, d)
                            \/ DeleteInterrupt(e)
  \/ \E e \in IsoEndpoint : \/ \E n \in Size : CreateIso(e, n) \/ ResizeIso(e, n)
                            \/ DeleteIso(e)

PeriodicSpec == PeriodicInit /\ [][PeriodicNext]_periodicVars

-----------------------------------------------------------------------------
(* No frame is given more than the allowed share of its time to interrupt  *)
(* endpoints, in whatever order they come and go.                          *)
NeverOvercommitted == \A s \in Slot : branchLoad[s] <= MaxAlloc

(* The load kept for a frame is that of the endpoints the controller meets *)
(* on the list of that frame; and the isochronous bandwidth that is left   *)
(* with the endpoints' own makes the total.                                *)
LoadIn(s) ==
  [e \in IntEndpoint |->
     IF int[e] # Absent /\ int[e].node \in ListFrom[s] THEN int[e].load ELSE 0]

Bandwidth == [e \in IsoEndpoint |-> IF iso[e] = None THEN 0 ELSE iso[e]]

LoadsAreReal ==
  /\ \A s \in Slot : branchLoad[s] = SumFunction(LoadIn(s))
  /\ isoAvailable + SumFunction(Bandwidth) = Total

(* Endpoints created and deleted in any order: the recorded loads are those *)
(* of the lists and none is above the limit (findInterruptBranch,          *)
(* UIMCreateIsochEndpoint).                                                *)
RealLoadsFit == LoadsAreReal /\ NeverOvercommitted
=============================================================================
