--------------------------- MODULE OHCIFramesProofs ---------------------------
(***************************************************************************)
(* The frames of the OHCI: their number, and what they are filled with.    *)
(*                                                                         *)
(* The frame number, for any counter width, window and delays within the   *)
(* assumption of OHCIFrameNumber: no wrap is lost, and a call the filter   *)
(* does not interrupt returns the current frame.                           *)
(*                                                                         *)
(* The periodic schedule, for any number of interrupt lists and endpoints: *)
(* the load kept for a frame is that of the endpoints the controller meets *)
(* in it.  The argument has three parts: sums over finite sets, the tree   *)
(* of intervals that are powers of two, and the calls.                     *)
(*                                                                         *)
(* The isochronous transfers, for any number of endpoints, TDs, requests   *)
(* and frames: where a TD is, what a frame is sent with, and when a        *)
(* request is answered.                                                    *)
(***************************************************************************)
EXTENDS OHCIFrameNumber, OHCIPeriodic, OHCIIso, DescriptorLists

(* The filter is on time, so that it can still tell a wrap from the middle *)
(* of the range.                                                           *)
OnTime == overflow => Since < FilterDelay

EpochInv == NumberTypeOK /\ NoEpochLost /\ OnTime

LEMMA InitEpoch == NumberInit => EpochInv
<1> SUFFICES ASSUME NumberInit PROVE EpochInv
  OBVIOUS
<1>1. NumberTypeOK
  <2>1. overflow \in BOOLEAN /\ interrupted \in BOOLEAN
    BY Zenon DEF NumberInit
  <2> QED BY <2>1, DelayAssumption DEF NumberInit, NumberTypeOK
<1>2. NoEpochLost
  BY DelayAssumption DEF NumberInit, NoEpochLost
<1>3. OnTime
  BY DEF NumberInit, OnTime
<1> QED BY <1>1, <1>2, <1>3 DEF EpochInv

(* The controller's step moves the counter and the true frame together.    *)
LEMMA FrameEpoch == EpochInv /\ FramePasses => EpochInv'
<1> SUFFICES ASSUME EpochInv, FramePasses PROVE EpochInv'
  OBVIOUS
<1> USE DelayAssumption DEF EpochInv, FramePasses, NumberTypeOK
<1>1. NumberTypeOK'
  <2>1. overflow' \in BOOLEAN /\ interrupted' \in BOOLEAN
    BY Zenon
  <2> QED BY <2>1
<1>2. NoEpochLost'
  <2>1. CASE hcca = 2 * Half - 1
    <3>1. ~overflow
      BY <2>1 DEF OnTime, Since
    <3>2. overflow' /\ hcca' = 0
      BY <2>1
    <3> QED BY <2>1, <3>1, <3>2 DEF NoEpochLost
  <2>2. CASE hcca = Half - 1
    <3>1. ~overflow
      BY <2>2 DEF OnTime, Since
    <3> QED BY <2>2, <3>1 DEF NoEpochLost
  <2>3. CASE hcca \notin {Half - 1, 2 * Half - 1}
    <3>1. hcca' = hcca + 1 /\ overflow' = overflow
      BY <2>3
    <3>2. hcca' < Half <=> hcca < Half
      BY <2>3, <3>1
    <3> QED BY <3>1, <3>2 DEF NoEpochLost
  <2> QED BY <2>1, <2>2, <2>3
<1>3. OnTime'
  BY DEF OnTime, Since
<1> QED BY <1>1, <1>2, <1>3

(* The filter adds what the invariant still missed.                        *)
LEMMA FilterEpoch == EpochInv /\ Filter => EpochInv'
<1> SUFFICES ASSUME EpochInv, Filter PROVE EpochInv'
  OBVIOUS
<1> USE DelayAssumption DEF EpochInv, Filter, NumberTypeOK
<1>1. NumberTypeOK'
  <2>1. overflow' \in BOOLEAN /\ interrupted' \in BOOLEAN
    BY Zenon
  <2> QED BY <2>1
<1>2. NoEpochLost'
  <2>1. CASE hcca < Half
    BY <2>1 DEF NoEpochLost
  <2>2. CASE ~(hcca < Half)
    BY <2>2 DEF NoEpochLost
  <2> QED BY <2>1, <2>2
<1>3. OnTime'
  BY DEF OnTime
<1> QED BY <1>1, <1>2, <1>3

(* A call changes nothing the epoch depends on.                            *)
LEMMA CallEpoch ==
  ASSUME EpochInv, ReadCounter \/ AddBase \/ CheckOverflow \/ Return
  PROVE  EpochInv'
<1>1. UNCHANGED <<frames, hcca, overflow, frameNumber>>
  BY DEF ReadCounter, AddBase, CheckOverflow, Return
<1>2. NumberTypeOK'
  <2>1. overflow' \in BOOLEAN /\ interrupted' \in BOOLEAN
    BY Zenon DEF EpochInv, NumberTypeOK, ReadCounter, AddBase, CheckOverflow, Return
  <2> QED
    BY <2>1, DelayAssumption
       DEF EpochInv, NumberTypeOK, ReadCounter, AddBase, CheckOverflow, Return
<1> QED BY <1>1, <1>2 DEF EpochInv, NoEpochLost, OnTime, Since

LEMMA NextEpoch == EpochInv /\ [NumberNext]_numberVars => EpochInv'
<1>1. EpochInv /\ UNCHANGED numberVars => EpochInv'
  BY DEF numberVars, EpochInv, NumberTypeOK, NoEpochLost, OnTime, Since
<1> QED BY <1>1, FrameEpoch, FilterEpoch, CallEpoch DEF NumberNext

(* Every variable keeps its type; in particular hcca its width.            *)
THEOREM FrameTypes == NumberSpec => []NumberTypeOK
<1>1. EpochInv => NumberTypeOK
  BY DEF EpochInv
<1> QED BY <1>1, InitEpoch, NextEpoch, PTL DEF NumberSpec

(* Whatever the filter interrupts, no wrap of the counter is lost.         *)
THEOREM EpochKept == NumberSpec => []NoEpochLost
<1>1. EpochInv => NoEpochLost
  BY DEF EpochInv
<1> QED BY <1>1, InitEpoch, NextEpoch, PTL DEF NumberSpec

-----------------------------------------------------------------------------
(* A call under way: a small counter value moves with the true frame, so   *)
(* that a pending overflow is the one that was pending at the read.        *)
CallInv ==
  /\ pc # "idle" => start <= frames /\ frames <= start + CallFrames
  /\ pc \in {"counter", "sum"} /\ ~interrupted =>
       /\ hcFrameNumber < WrapWindow => hcca = hcFrameNumber + (frames - start)
       /\ start = frameNumber + hcFrameNumber
                    + (IF overflow /\ hcFrameNumber < WrapWindow THEN 2 * Half ELSE 0)
  /\ pc = "sum" /\ ~interrupted => fullFrameNumber = frameNumber + hcFrameNumber
  /\ pc = "done" /\ ~interrupted => fullFrameNumber = start

LEMMA FrameCall == EpochInv /\ CallInv /\ FramePasses => CallInv'
<1> SUFFICES ASSUME EpochInv, CallInv, FramePasses PROVE CallInv'
  OBVIOUS
<1> USE DelayAssumption DEF EpochInv, NumberTypeOK, FramePasses
<1>1. CASE pc \in {"counter", "sum"} /\ ~interrupted /\ hcFrameNumber < WrapWindow
  <2>1. hcca' = hcca + 1 /\ hcca' # 0 /\ hcca' # Half
    BY <1>1 DEF CallInv
  <2>2. overflow' = overflow
    BY <2>1
  <2> QED BY <1>1, <2>1, <2>2 DEF CallInv
<1>2. CASE ~(pc \in {"counter", "sum"} /\ ~interrupted /\ hcFrameNumber < WrapWindow)
  BY <1>2 DEF CallInv
<1> QED BY <1>1, <1>2

(* At the read only a small counter value can have a wrap pending.         *)
LEMMA ReadCall == EpochInv /\ CallInv /\ ReadCounter => CallInv'
  BY DelayAssumption
     DEF EpochInv, NumberTypeOK, NoEpochLost, OnTime, Since, CallInv, ReadCounter

LEMMA NextCall == EpochInv /\ CallInv /\ [NumberNext]_numberVars => CallInv'
<1> SUFFICES ASSUME EpochInv, CallInv, [NumberNext]_numberVars PROVE CallInv'
  OBVIOUS
<1>1. CASE Filter
  BY <1>1, DelayAssumption DEF CallInv, Filter, EpochInv, NumberTypeOK
<1>2. CASE AddBase
  BY <1>2, DelayAssumption DEF CallInv, AddBase, EpochInv, NumberTypeOK
<1>3. CASE CheckOverflow
  BY <1>3, DelayAssumption DEF CallInv, CheckOverflow, EpochInv, NumberTypeOK
<1>4. CASE Return
  BY <1>4 DEF CallInv, Return
<1>5. CASE UNCHANGED numberVars
  BY <1>5 DEF CallInv, numberVars
<1> QED BY <1>1, <1>2, <1>3, <1>4, <1>5, FrameCall, ReadCall DEF NumberNext

(* A call the filter does not interrupt returns the frame it was made in.  *)
THEOREM CurrentFrame == NumberSpec => []FrameIsCurrent
<1> DEFINE Inv == EpochInv /\ CallInv
<1>1. NumberInit => Inv
  BY InitEpoch DEF NumberInit, CallInv
<1>2. Inv /\ [NumberNext]_numberVars => Inv'
  BY NextEpoch, NextCall
<1>3. Inv => FrameIsCurrent
  BY DEF EpochInv, NumberTypeOK, CallInv, FrameIsCurrent
<1> QED BY <1>1, <1>2, <1>3, PTL DEF NumberSpec

-----------------------------------------------------------------------------
(* An interrupted call: the counter went round at most once since it was   *)
(* read, and not at all from a small value.                                *)
MovedOn == hcFrameNumber + (frames - start)

WrapInv ==
  /\ pc # "idle" => start <= frames /\ frames <= start + CallFrames
  /\ pc \in {"counter", "sum"} =>
       /\ hcca = MovedOn \/ hcca = MovedOn - 2 * Half
       /\ hcFrameNumber < WrapWindow => hcca = MovedOn
  /\ pc = "sum" => fullFrameNumber - start \in {0, 2 * Half, -(2 * Half)}
  /\ pc = "sum" /\ hcFrameNumber < WrapWindow =>
       /\ fullFrameNumber - start \in {0, -(2 * Half)}
       /\ overflow => fullFrameNumber - start = -(2 * Half)
  /\ pc = "done" => fullFrameNumber - start \in {0, 2 * Half, -(2 * Half)}

LEMMA FrameWrap == EpochInv /\ WrapInv /\ FramePasses => WrapInv'
<1> SUFFICES ASSUME EpochInv, WrapInv, FramePasses PROVE WrapInv'
  OBVIOUS
<1> USE DelayAssumption DEF EpochInv, NumberTypeOK, FramePasses
<1>1. CASE pc \in {"counter", "sum"}
  <2>1. MovedOn' = MovedOn + 1
    BY <1>1 DEF MovedOn
  <2>2. ASSUME hcFrameNumber < WrapWindow
        PROVE  hcca' = MovedOn' /\ overflow' = overflow
    <3>1. hcca' = hcca + 1 /\ hcca' # 0 /\ hcca' # Half
      BY <1>1, <2>2 DEF WrapInv, MovedOn
    <3>2. overflow' = overflow
      BY <3>1
    <3> QED BY <1>1, <2>1, <2>2, <3>1, <3>2 DEF WrapInv
  <2>3. hcca' = MovedOn' \/ hcca' = MovedOn' - 2 * Half
    BY <1>1, <2>1 DEF WrapInv, MovedOn
  <2> QED BY <1>1, <2>2, <2>3 DEF WrapInv
<1>2. CASE pc \notin {"counter", "sum"}
  BY <1>2 DEF WrapInv
<1> QED BY <1>1, <1>2

(* What the sum lacks or has too much is what the epoch invariant says.    *)
LEMMA AddWrap == EpochInv /\ WrapInv /\ AddBase => WrapInv'
<1> SUFFICES ASSUME EpochInv, WrapInv, AddBase PROVE WrapInv'
  OBVIOUS
<1> USE DelayAssumption DEF EpochInv, NumberTypeOK, AddBase
<1>1. fullFrameNumber' - start = frameNumber + hcFrameNumber - start
  OBVIOUS
<1>2. frameNumber + hcca = frames \/ frameNumber + hcca = frames - 2 * Half
  BY DEF NoEpochLost
<1>3. fullFrameNumber' - start \in {0, 2 * Half, -(2 * Half)}
  BY <1>1, <1>2 DEF WrapInv, MovedOn
<1>4. ASSUME hcFrameNumber < WrapWindow
      PROVE  /\ fullFrameNumber' - start \in {0, -(2 * Half)}
             /\ overflow => fullFrameNumber' - start = -(2 * Half)
  <2>1. hcca = MovedOn /\ hcca < Half
    BY <1>4 DEF WrapInv, MovedOn
  <2> QED BY <1>1, <2>1 DEF NoEpochLost, MovedOn
<1> QED BY <1>3, <1>4 DEF WrapInv, MovedOn

LEMMA NextWrap == EpochInv /\ WrapInv /\ [NumberNext]_numberVars => WrapInv'
<1> SUFFICES ASSUME EpochInv, WrapInv, [NumberNext]_numberVars PROVE WrapInv'
  OBVIOUS
<1> USE DelayAssumption DEF EpochInv, NumberTypeOK, WrapInv, MovedOn
<1>1. CASE Filter
  BY <1>1 DEF Filter
<1>2. CASE ReadCounter
  BY <1>2 DEF ReadCounter
<1>3. CASE CheckOverflow
  BY <1>3 DEF CheckOverflow
<1>4. CASE Return
  BY <1>4 DEF Return
<1>5. CASE UNCHANGED numberVars
  BY <1>5 DEF numberVars
<1> QED BY <1>1, <1>2, <1>3, <1>4, <1>5, FrameWrap, AddWrap DEF NumberNext

(* Wherever the filter interrupts, a call errs by one wrap at most.        *)
THEOREM WrapError == NumberSpec => []OneWrapOffAtWorst
<1> DEFINE Inv == EpochInv /\ WrapInv
<1>1. NumberInit => Inv
  BY InitEpoch DEF NumberInit, WrapInv
<1>2. Inv /\ [NumberNext]_numberVars => Inv'
  BY NextEpoch, NextWrap
<1>3. Inv => OneWrapOffAtWorst
  BY DelayAssumption DEF EpochInv, NumberTypeOK, WrapInv, OneWrapOffAtWorst
<1> QED BY <1>1, <1>2, <1>3, PTL DEF NumberSpec

-----------------------------------------------------------------------------
(* A set of naturals has a greatest member if it has a bound.              *)
LEMMA Greatest ==
  ASSUME NEW S \in SUBSET Nat, S # {}, NEW b \in Nat, \A n \in S : n <= b
  PROVE  \E m \in S : \A n \in S : n <= m
<1> DEFINE D == {d \in Nat : b - d \in S}
<1>1. D # {}
  <2>1. PICK n \in S : TRUE
    OBVIOUS
  <2>2. b - n \in D
    BY <2>1
  <2> QED BY <2>2
<1>2. PICK d \in D : \A c \in D : d <= c
  BY <1>1, Least
<1>3. ASSUME NEW n \in S PROVE n <= b - d
  <2>1. b - n \in D
    OBVIOUS
  <2> QED BY <1>2, <2>1
<1> QED BY <1>2, <1>3

-----------------------------------------------------------------------------
(* Sums.  SumFunction takes the elements of a finite set one after the     *)
(* other; any order gives the same sum.                                    *)

Pick(T) == CHOOSE x \in T : TRUE
Summed(f, sum) ==
  sum = [T \in SUBSET DOMAIN f |->
           IF T = {} THEN 0 ELSE f[Pick(T)] + sum[T \ {Pick(T)}]]
SumOver(f) == CHOOSE sum : Summed(f, sum)

LEMMA SumIs == \A f : SumFunction(f) = SumOver(f)[DOMAIN f]
BY DEF SumFunction, SumFunctionOnSet, FoldFunctionOnSet, MapThenFoldSet, SumOver,
       Summed, Pick

LEMMA PickIs == \A T : T # {} => Pick(T) \in T
BY DEF Pick

(* There is such a function: it can be given for sets of n members after   *)
(* those of fewer.                                                         *)
LEMMA SumExists ==
  ASSUME NEW S, IsFiniteSet(S), NEW V \in {Nat, Int}, NEW f \in [S -> V]
  PROVE  \E sum \in [SUBSET S -> V] : Summed(f, sum)
<1> DEFINE Next1(s, T) == IF T = {} THEN 0 ELSE f[Pick(T)] + s[T \ {Pick(T)}]
           Upto(n) == \E s \in [SUBSET S -> V] :
                        \A T \in SUBSET S : Cardinality(T) <= n => s[T] = Next1(s, T)
           Bad == {n \in Nat : ~Upto(n)}
<1>1. \A T \in SUBSET S : Cardinality(T) \in Nat /\ IsFiniteSet(T)
  BY FS_Subset, FS_CardinalityType
<1>2. Upto(0)
  <2>1. \A T \in SUBSET S : Cardinality(T) <= 0 => T = {}
    BY <1>1, FS_EmptySet
  <2>2. [T \in SUBSET S |-> 0] \in [SUBSET S -> V]
    OBVIOUS
  <2> QED BY <2>1, <2>2
<1>3. ASSUME NEW n \in Nat, Upto(n) PROVE Upto(n + 1)
  <2>1. PICK s \in [SUBSET S -> V] :
          \A T \in SUBSET S : Cardinality(T) <= n => s[T] = Next1(s, T)
    BY <1>3
  <2> DEFINE t == [T \in SUBSET S |-> Next1(s, T)]
  <2>2. \A T \in SUBSET S : T # {} => /\ Pick(T) \in S
                                      /\ T \ {Pick(T)} \in SUBSET S
                                      /\ Cardinality(T \ {Pick(T)}) = Cardinality(T) - 1
    BY PickIs, <1>1, FS_RemoveElement
  <2>3. t \in [SUBSET S -> V]
    <3>1. ASSUME NEW T \in SUBSET S PROVE Next1(s, T) \in V
      <4>1. CASE T = {}
        BY <4>1
      <4>2. CASE T # {}
        <5>1. f[Pick(T)] \in V /\ s[T \ {Pick(T)}] \in V
          BY <2>2, <4>2
        <5> QED BY <4>2, <5>1
      <4> QED BY <4>1, <4>2
    <3> QED BY <3>1
  <2>4. \A T \in SUBSET S : Cardinality(T) <= n => t[T] = s[T]
    BY <2>1
  <2>5. ASSUME NEW T \in SUBSET S, Cardinality(T) <= n + 1 PROVE t[T] = Next1(t, T)
    <3>1. CASE T = {}
      BY <3>1
    <3>2. CASE T # {}
      <4>1. Cardinality(T \ {Pick(T)}) <= n
        BY <1>1, <2>2, <2>5, <3>2
      <4>2. t[T \ {Pick(T)}] = s[T \ {Pick(T)}]
        BY <2>2, <2>4, <3>2, <4>1
      <4> QED BY <3>2, <4>2
    <3> QED BY <3>1, <3>2
  <2> HIDE DEF t
  <2> QED BY <2>3, <2>5
<1>4. Bad = {}
  <2> SUFFICES ASSUME Bad # {} PROVE FALSE
    OBVIOUS
  <2> HIDE DEF Upto
  <2>1. PICK m \in Bad : \A n \in Bad : m <= n
    BY Least
  <2>2. m # 0
    BY <1>2, <2>1
  <2>3. m - 1 \in Nat /\ m - 1 \notin Bad
    BY <2>1, <2>2
  <2>4. Upto((m - 1) + 1)
    BY <1>3, <2>3
  <2> QED BY <2>1, <2>3, <2>4
<1>5. Cardinality(S) \in Nat
  BY FS_CardinalityType
<1>6. Upto(Cardinality(S))
  <2> HIDE DEF Upto
  <2> QED BY <1>4, <1>5
<1>7. PICK s \in [SUBSET S -> V] :
        \A T \in SUBSET S : Cardinality(T) <= Cardinality(S) => s[T] = Next1(s, T)
  BY <1>6
<1>8. \A T \in SUBSET S : s[T] = Next1(s, T)
  BY <1>1, <1>7, FS_Subset
<1>9. s = [T \in SUBSET S |-> Next1(s, T)]
  BY <1>8
<1> QED BY <1>9 DEF Summed

(* Any member may be taken first.                                          *)
Without(T, x) == T \ {x}

SumsUp(S, f, sum) ==
  /\ IsFiniteSet(S)
  /\ f \in [S -> Int] /\ sum \in [SUBSET S -> Int]
  /\ Summed(f, sum)

LEMMA AnyFirst ==
  ASSUME NEW S, NEW f, NEW sum, SumsUp(S, f, sum)
  PROVE  \A T \in SUBSET S : \A x \in T : sum[T] = f[x] + sum[Without(T, x)]
<1> USE DEF SumsUp
<1> DEFINE Holds(T) == \A x \in T : sum[T] = f[x] + sum[T \ {x}]
           Bad == {n \in Nat : \E T \in SUBSET S : Cardinality(T) = n /\ ~Holds(T)}
<1>1. \A T \in SUBSET S : Cardinality(T) \in Nat /\ IsFiniteSet(T)
  BY FS_Subset, FS_CardinalityType
<1>2. \A T \in SUBSET S : T # {} => sum[T] = f[Pick(T)] + sum[T \ {Pick(T)}]
  BY DEF Summed
<1>3. Bad = {}
  <2> SUFFICES ASSUME Bad # {} PROVE FALSE
    OBVIOUS
  <2>1. PICK m \in Bad : \A n \in Bad : m <= n
    BY Least
  <2>2. PICK T \in SUBSET S : Cardinality(T) = m /\ ~Holds(T)
    BY <2>1
  <2>3. PICK x \in T : sum[T] # f[x] + sum[T \ {x}]
    BY <2>2
  <2> DEFINE y == Pick(T)
  <2>4. y \in T /\ sum[T] = f[y] + sum[T \ {y}]
    BY <1>2, <2>3, PickIs
  <2>5. x # y
    BY <2>3, <2>4
  <2>6. \A z \in T : /\ T \ {z} \in SUBSET S
                     /\ Cardinality(T \ {z}) = m - 1
    BY <1>1, <2>2, FS_RemoveElement
  <2>7. m - 1 \in Nat /\ m - 1 \notin Bad
    <3>1. Cardinality(T \ {x}) \in Nat /\ Cardinality(T \ {x}) = m - 1
      BY <1>1, <2>6
    <3>2. m - 1 \in Nat /\ m \in Nat
      BY <3>1, <2>1
    <3>3. ~ (m <= m - 1)
      BY <3>2
    <3> QED BY <2>1, <3>2, <3>3
  <2>8. \A z \in T : Holds(T \ {z})
    BY <2>6, <2>7
  <2>9. sum[T \ {y}] = f[x] + sum[(T \ {y}) \ {x}]
    BY <2>4, <2>5, <2>8
  <2>10. sum[T \ {x}] = f[y] + sum[(T \ {x}) \ {y}]
    BY <2>4, <2>5, <2>8
  <2>11. (T \ {x}) \ {y} = (T \ {y}) \ {x}
    OBVIOUS
  <2> DEFINE rest == sum[(T \ {y}) \ {x}]
  <2>12. f[x] \in Int /\ f[y] \in Int /\ rest \in Int
    <3>1. (T \ {y}) \ {x} \in SUBSET S
      OBVIOUS
    <3> QED BY <2>4, <3>1
  <2>13. sum[T] = f[y] + (f[x] + rest)
    BY <2>4, <2>9
  <2>14. f[x] + sum[T \ {x}] = f[x] + (f[y] + rest)
    BY <2>10, <2>11
  <2> HIDE DEF y, rest
  <2>15. f[y] + (f[x] + rest) = f[x] + (f[y] + rest)
    BY <2>12
  <2> QED BY <2>3, <2>13, <2>14, <2>15
<1> QED BY <1>1, <1>3 DEF Without

(* The sums of two functions that agree on a set are the same.             *)
LEMMA SumAgrees ==
  ASSUME NEW S, IsFiniteSet(S), NEW f \in [S -> Int], NEW g \in [S -> Int],
         NEW sum, Summed(f, sum), NEW sum2, Summed(g, sum2)
  PROVE  \A T \in SUBSET S : (\A x \in T : f[x] = g[x]) => sum[T] = sum2[T]
<1> DEFINE Holds(T) == (\A x \in T : f[x] = g[x]) => sum[T] = sum2[T]
           Bad == {n \in Nat : \E T \in SUBSET S : Cardinality(T) = n /\ ~Holds(T)}
<1>1. \A T \in SUBSET S : Cardinality(T) \in Nat /\ IsFiniteSet(T)
  BY FS_Subset, FS_CardinalityType
<1>2. \A T \in SUBSET S :
        /\ sum[T] = IF T = {} THEN 0 ELSE f[Pick(T)] + sum[T \ {Pick(T)}]
        /\ sum2[T] = IF T = {} THEN 0 ELSE g[Pick(T)] + sum2[T \ {Pick(T)}]
  BY DEF Summed
<1>3. Bad = {}
  <2> SUFFICES ASSUME Bad # {} PROVE FALSE
    OBVIOUS
  <2>1. PICK m \in Bad : \A n \in Bad : m <= n
    BY Least
  <2>2. PICK T \in SUBSET S : Cardinality(T) = m /\ ~Holds(T)
    BY <2>1
  <2> DEFINE y == Pick(T)
  <2>3. T # {}
    BY <1>2, <2>2
  <2>4. y \in T
    BY <2>3, PickIs
  <2>5. /\ T \ {y} \in SUBSET S
        /\ Cardinality(T \ {y}) = m - 1
    BY <1>1, <2>2, <2>4, FS_RemoveElement
  <2>6. m - 1 \in Nat /\ m - 1 \notin Bad
    BY <1>1, <2>1, <2>5
  <2>7. Holds(T \ {y})
    BY <2>5, <2>6
  <2>8. f[y] = g[y] /\ sum[T \ {y}] = sum2[T \ {y}]
    BY <2>2, <2>4, <2>7
  <2> QED BY <1>2, <2>2, <2>3, <2>8
<1> QED BY <1>1, <1>3

(* The recursion of SumFunction is well defined.                           *)
LEMMA SumOverIs ==
  ASSUME NEW S, IsFiniteSet(S), NEW V \in {Nat, Int}, NEW f \in [S -> V]
  PROVE  SumOver(f) \in [SUBSET S -> V] /\ Summed(f, SumOver(f))
<1>1. PICK sum \in [SUBSET S -> V] : Summed(f, sum)
  BY SumExists
<1>2. Summed(f, SumOver(f))
  BY <1>1 DEF SumOver
<1>3. \A T \in SUBSET S : SumOver(f)[T] = sum[T]
  BY <1>1, <1>2, SumAgrees
<1>4. SumOver(f) = [T \in SUBSET S |-> SumOver(f)[T]]
  BY <1>2 DEF Summed
<1> QED BY <1>2, <1>3, <1>4

LEMMA TakeFirst ==
  ASSUME NEW S, IsFiniteSet(S), NEW f \in [S -> Int], NEW e \in S
  PROVE  SumOver(f)[S] = f[e] + SumOver(f)[Without(S, e)]
<1>1. SumsUp(S, f, SumOver(f))
  BY SumOverIs DEF SumsUp
<1> QED BY <1>1, AnyFirst

(* A function changed in one place.                                        *)
LEMMA SumChange ==
  ASSUME NEW S, IsFiniteSet(S), NEW f \in [S -> Int], NEW g \in [S -> Int],
         NEW e \in S, \A x \in S \ {e} : g[x] = f[x]
  PROVE  /\ SumFunction(f) \in Int
         /\ SumFunction(g) = SumFunction(f) - f[e] + g[e]
<1>1. /\ SumOver(f) \in [SUBSET S -> Int] /\ Summed(f, SumOver(f))
      /\ SumOver(g) \in [SUBSET S -> Int] /\ Summed(g, SumOver(g))
  BY SumOverIs
<1>2. DOMAIN f = S /\ DOMAIN g = S
  OBVIOUS
<1>3. SumOver(f)[S] = f[e] + SumOver(f)[Without(S, e)]
  BY TakeFirst
<1>4. SumOver(g)[S] = g[e] + SumOver(g)[Without(S, e)]
  BY TakeFirst
<1>5. SumOver(f)[Without(S, e)] = SumOver(g)[Without(S, e)]
  BY <1>1, SumAgrees DEF Without
<1>6. SumOver(f)[Without(S, e)] \in Int /\ f[e] \in Int /\ g[e] \in Int
  BY <1>1 DEF Without
<1> QED BY <1>2, <1>3, <1>4, <1>5, <1>6, SumIs

(* A sum of naturals is one, and at least each of them.                    *)
LEMMA SumOfNaturals ==
  ASSUME NEW S, IsFiniteSet(S), NEW f \in [S -> Nat]
  PROVE  SumFunction(f) \in Nat /\ \A e \in S : f[e] <= SumFunction(f)
<1>1. SumOver(f) \in [SUBSET S -> Nat] /\ Summed(f, SumOver(f))
  BY SumOverIs
<1>2. DOMAIN f = S /\ f \in [S -> Int]
  OBVIOUS
<1>3. SumFunction(f) = SumOver(f)[S] /\ SumFunction(f) \in Nat
  BY <1>1, <1>2, SumIs
<1>4. ASSUME NEW e \in S PROVE f[e] <= SumFunction(f)
  <2>2. SumOver(f)[S] = f[e] + SumOver(f)[Without(S, e)]
    BY TakeFirst
  <2>3. SumOver(f)[Without(S, e)] \in Nat /\ f[e] \in Nat
    BY <1>1 DEF Without
  <2> QED BY <1>3, <2>2, <2>3
<1> QED BY <1>3, <1>4

LEMMA SumOfZeros ==
  ASSUME NEW S, IsFiniteSet(S)
  PROVE  SumFunction([x \in S |-> 0]) = 0
<1> DEFINE f == [x \in S |-> 0]
           zero == [T \in SUBSET S |-> 0]
<1>1. f \in [S -> Int] /\ DOMAIN f = S
  OBVIOUS
<1>2. SumOver(f) \in [SUBSET S -> Int] /\ Summed(f, SumOver(f))
  BY <1>1, SumOverIs
<1>3. Summed(f, zero)
  BY PickIs DEF Summed
<1>4. SumOver(f)[S] = zero[S]
  <2> HIDE DEF f, zero
  <2> QED BY <1>1, <1>2, <1>3, SumAgrees
<1> QED BY <1>1, <1>4, SumIs

-----------------------------------------------------------------------------
(* Divisibility, in terms of products.                                     *)
LEMMA ModIs ==
  ASSUME NEW n \in Nat, NEW q \in Nat \ {0}
  PROVE  n \div q \in Nat /\ n = q * (n \div q) + (n % q) /\ n % q \in 0 .. q - 1
OBVIOUS

LEMMA ModUnique ==
  ASSUME NEW n \in Nat, NEW q \in Nat \ {0}, NEW k \in Nat, NEW r \in 0 .. q - 1,
         n = q * k + r
  PROVE  n % q = r
OBVIOUS

-----------------------------------------------------------------------------
(* The intervals are powers of two: each divides the longer ones.          *)
LEMMA IntervalType ==
  /\ Heads \in Nat \ {0} /\ 1 \in Interval /\ Heads \in Interval
  /\ \A q \in Interval : /\ q \in Nat \ {0} /\ q <= Heads
                         /\ \E k \in Nat : Heads = q * k
<1>1. Heads \in Nat \ {0}
  BY HeadsAssumption
<1>2. Heads % 1 = 0 /\ Heads % Heads = 0
  <2>1. Heads = 1 * Heads + 0 /\ Heads = Heads * 1 + 0
    BY <1>1
  <2> QED BY <1>1, <2>1, ModUnique
<1>3. ASSUME NEW q \in Interval PROVE \E k \in Nat : Heads = q * k
  <2>1. q \in Nat \ {0} /\ Heads % q = 0
    BY DEF Interval
  <2> DEFINE k == Heads \div q
  <2>2. k \in Nat /\ Heads = q * k + 0
    <3>1. k \in Nat /\ Heads = q * k + (Heads % q)
      BY <1>1, <2>1, ModIs
    <3> QED BY <2>1, <3>1
  <2> HIDE DEF k
  <2>3. Heads = q * k
    BY <2>1, <2>2
  <2> QED BY <2>2, <2>3
<1> QED BY <1>1, <1>2, <1>3 DEF Interval

LEMMA HalfInterval ==
  ASSUME NEW q \in Interval, q # 1
  PROVE  q = 2 * (q \div 2) /\ q \div 2 \in Interval
<1>1. q \in Nat \ {0} /\ q <= Heads /\ Heads \in Nat \ {0} /\ Heads % q = 0
  BY IntervalType DEF Interval
<1>2. q % 2 = 0
  <2>1. q \in 2 .. Heads
    BY <1>1
  <2> QED BY <1>1, <2>1, HeadsAssumption
<1>3. q = 2 * (q \div 2) /\ q \div 2 \in Nat \ {0} /\ q \div 2 <= Heads
  BY <1>1, <1>2
<1>4. PICK k \in Nat : Heads = q * k
  BY IntervalType
<1> DEFINE h == q \div 2
<1>5. Heads = h * (2 * k) + 0
  <2> HIDE DEF h
  <2>1. q = 2 * h /\ h \in Nat
    BY <1>3 DEF h
  <2> QED BY <1>4, <2>1
<1>6. Heads % h = 0
  <2>1. 2 * k \in Nat /\ h \in Nat \ {0} /\ 0 \in 0 .. h - 1
    BY <1>3
  <2> HIDE DEF h
  <2> QED BY <1>1, <1>5, <2>1, ModUnique
<1> QED BY <1>3, <1>6 DEF Interval

LEMMA Divides ==
  ASSUME NEW p \in Interval, NEW q \in Interval, p <= q
  PROVE  \E k \in Nat : q = p * k
<1> DEFINE Multiple(m, n) == \E k \in Nat : n = m * k
           Bad == {m \in Interval : \E n \in Interval : m <= n /\ ~Multiple(m, n)}
<1>1. Bad = {}
  <2> SUFFICES ASSUME Bad # {} PROVE FALSE
    OBVIOUS
  <2>1. Bad \in SUBSET Nat
    BY IntervalType
  <2>2. PICK m \in Bad : \A n \in Bad : m <= n
    <3> HIDE DEF Bad
    <3> QED BY <2>1, Least
  <2>3. PICK n \in Interval : m <= n /\ ~Multiple(m, n)
    BY <2>2
  <2>4. m \in Interval /\ m \in Nat \ {0} /\ n \in Nat \ {0}
    BY IntervalType
  <2>5. m # 1
    <3>1. n = 1 * n
      BY <2>4
    <3> QED BY <2>3, <2>4, <3>1
  <2>6. n # 1
    BY <2>3, <2>4, <2>5
  <2> DEFINE a == m \div 2
             b == n \div 2
  <2>7. m = 2 * a /\ a \in Interval /\ n = 2 * b /\ b \in Interval
    BY <2>3, <2>4, <2>5, <2>6, HalfInterval
  <2>8. a \in Nat \ {0} /\ b \in Nat \ {0}
    BY <2>7, IntervalType
  <2> HIDE DEF a, b
  <2>9. a <= b /\ ~ (m <= a)
    BY <2>3, <2>7, <2>8
  <2>10. a \notin Bad
    BY <2>2, <2>9
  <2>11. PICK k \in Nat : b = a * k
    BY <2>7, <2>9, <2>10
  <2>12. n = m * k
    BY <2>7, <2>8, <2>11
  <2> QED BY <2>3, <2>12
<1> QED BY <1>1

LEMMA TwiceAsLong ==
  ASSUME NEW p \in Interval, NEW q \in Interval, p < q
  PROVE  2 * p <= q
<1>1. p \in Nat \ {0} /\ q \in Nat \ {0}
  BY IntervalType
<1>2. PICK k \in Nat : q = p * k
  BY <1>1, Divides
<1>3. k # 0 /\ k # 1
  BY <1>1, <1>2
<1>4. k >= 2
  BY <1>3
<1> QED BY <1>1, <1>2, <1>4

LEMMA DoubleInterval ==
  ASSUME NEW q \in Interval, q < Heads
  PROVE  2 * q \in Interval
<1>1. q \in Nat \ {0} /\ Heads \in Nat \ {0}
  BY IntervalType
<1>2. PICK k \in Nat : Heads = q * k
  BY IntervalType
<1>3. k \in 2 .. Heads
  <2>1. k # 0 /\ k # 1
    BY <1>1, <1>2
  <2>2. k <= q * k
    BY <1>1
  <2> QED BY <1>2, <2>1, <2>2
<1>4. Heads % k = 0
  <2>1. Heads = k * q + 0 /\ 0 \in 0 .. k - 1
    BY <1>1, <1>2, <1>3
  <2>2. k \in Nat \ {0}
    BY <1>3
  <2> QED BY <1>1, <2>1, <2>2, ModUnique
<1>5. k % 2 = 0
  BY <1>3, <1>4, HeadsAssumption
<1> DEFINE m == k \div 2
<1>6. k = 2 * m /\ m \in Nat \ {0}
  BY <1>3, <1>5
<1> HIDE DEF m
<1>7. Heads = (2 * q) * m + 0
  BY <1>1, <1>2, <1>6
<1>8. Heads % (2 * q) = 0 /\ 2 * q <= Heads
  <2>1. 2 * q \in Nat \ {0} /\ 0 \in 0 .. (2 * q) - 1
    BY <1>1
  <2>2. Heads % (2 * q) = 0
    BY <1>1, <1>6, <1>7, <2>1, ModUnique
  <2>3. 2 * q <= (2 * q) * m
    BY <1>1, <1>6
  <2> QED BY <1>7, <2>2, <2>3, <1>1, <1>6
<1> QED BY <1>1, <1>8 DEF Interval

-----------------------------------------------------------------------------
(* The rows of the tree fill the nodes and do not overlap.                 *)
InRow(i, q) == RowOf(q) <= i /\ i < RowOf(q) + q

LEMMA RowExists ==
  ASSUME NEW i \in Node
  PROVE  \E q \in Interval : InRow(i, q)
<1> DEFINE k == 2 * Heads - i
           S == {q \in Interval : q < k}
<1>1. Heads \in Nat \ {0} /\ 1 \in Interval /\ Heads \in Interval
  BY IntervalType
<1>2. k \in 2 .. 2 * Heads /\ i \in Nat /\ i = 2 * Heads - k
  BY <1>1 DEF Node
<1> HIDE DEF k
<1>3. S # {} /\ S \in SUBSET Nat /\ \A q \in S : q <= Heads
  <2>1. 1 \in S
    BY <1>1, <1>2
  <2> QED BY <2>1, IntervalType
<1>4. PICK q \in S : \A n \in S : n <= q
  <2> HIDE DEF S
  <2> QED BY <1>1, <1>3, Greatest
<1>5. q \in Interval /\ q \in Nat \ {0} /\ q < k /\ q <= Heads
  BY IntervalType
<1>6. k <= 2 * q
  <2>1. CASE q = Heads
    BY <1>1, <1>2, <2>1
  <2>2. CASE q # Heads
    <3>1. 2 * q \in Interval
      BY <1>1, <1>5, <2>2, DoubleInterval
    <3>2. ~ (2 * q <= q)
      BY <1>5
    <3>3. ~ (2 * q < k)
      BY <1>4, <3>1, <3>2
    <3> QED BY <1>2, <1>5, <3>3
  <2> QED BY <2>1, <2>2
<1>7. InRow(i, q)
  BY <1>1, <1>2, <1>5, <1>6 DEF InRow, RowOf
<1> QED BY <1>5, <1>7

LEMMA RowUnique ==
  ASSUME NEW i \in Node, NEW p \in Interval, NEW q \in Interval,
         InRow(i, p), InRow(i, q)
  PROVE  p = q
<1>1. /\ Heads \in Nat \ {0} /\ p \in Nat \ {0} /\ q \in Nat \ {0} /\ i \in Int
  BY IntervalType DEF Node
<1>2. ~ (2 * p <= q) /\ ~ (2 * q <= p)
  BY <1>1 DEF InRow, RowOf
<1> QED BY <1>1, <1>2, TwiceAsLong

LEMMA IntervalOfIs ==
  ASSUME NEW i \in Node
  PROVE  /\ IntervalOf(i) \in Interval /\ InRow(i, IntervalOf(i))
         /\ \A q \in Interval : InRow(i, q) => q = IntervalOf(i)
<1>1. IntervalOf(i) \in Interval /\ InRow(i, IntervalOf(i))
  BY RowExists DEF IntervalOf, InRow
<1> QED BY <1>1, RowUnique

(* The next node lies in the next row, in the place of the half.           *)
LEMMA NextNodeIs ==
  ASSUME NEW i \in Node, i # Root
  PROVE  LET q == IntervalOf(i)
             h == q \div 2
             j == i - RowOf(q)
             n == NextNode(i)
         IN  /\ q \in Interval /\ q # 1 /\ h \in Interval /\ q = 2 * h
             /\ j \in 0 .. q - 1
             /\ n \in Node /\ i < n
             /\ IntervalOf(n) = h
             /\ n - RowOf(h) = IF j < h THEN j ELSE j - h
<1> DEFINE q == IntervalOf(i)
           h == q \div 2
           j == i - RowOf(q)
           n == NextNode(i)
<1>1. q \in Interval /\ InRow(i, q)
  BY IntervalOfIs
<1>2. /\ Heads \in Nat \ {0} /\ q \in Nat \ {0} /\ q <= Heads /\ i \in Nat
      /\ i <= 2 * Heads - 2
  <2>1. Heads \in Nat \ {0} /\ q \in Nat \ {0} /\ q <= Heads
    BY <1>1, IntervalType
  <2> QED BY <2>1 DEF Node
<1>3. n = IF j < h THEN i + q ELSE i + h
  <2>1. RowOf(q) \in Int /\ h \in Int
    BY <1>2 DEF RowOf
  <2>2. i < RowOf(q) + h <=> j < h
    <3> DEFINE r == RowOf(q)
    <3> HIDE DEF h, r, q
    <3> QED BY <1>2, <2>1 DEF r
  <2> QED BY <2>2 DEF NextNode
<1> HIDE DEF q, n
<1>4. q # 1
  <2> SUFFICES ASSUME q = 1 PROVE FALSE
    OBVIOUS
  <2> QED BY <1>1, <1>2 DEF InRow, RowOf, Root
<1>5. h \in Interval /\ q = 2 * h
  BY <1>1, <1>4, HalfInterval
<1>6. h \in Nat \ {0}
  BY <1>5, IntervalType
<1> HIDE DEF h
<1>7. j \in 0 .. q - 1
  BY <1>1, <1>2 DEF InRow, RowOf
<1>8. n - RowOf(h) = IF j < h THEN j ELSE j - h
  BY <1>2, <1>3, <1>5, <1>6 DEF RowOf
<1>9. n \in Node /\ i < n
  BY <1>2, <1>3, <1>5, <1>6, <1>7 DEF RowOf, Node
<1>10. InRow(n, h)
  BY <1>2, <1>3, <1>5, <1>6, <1>7 DEF RowOf, InRow
<1>11. IntervalOf(n) = h
  BY <1>5, <1>9, <1>10, IntervalOfIs
<1> QED BY <1>1, <1>4, <1>5, <1>7, <1>8, <1>9, <1>11 DEF q, h, n

-----------------------------------------------------------------------------
(* The list of a node, and so of a frame, in closed form: one node of each *)
(* row from here on, in the place that is left modulo the interval.        *)
Follows(below) ==
  below = [i \in Node |-> {i} \cup (IF i = Root THEN {} ELSE below[NextNode(i)])]

Below(i) == {RowOf(p) + ((i - RowOf(IntervalOf(i))) % p) :
               p \in {p \in Interval : p <= IntervalOf(i)}}

LEMMA ModOfMod ==
  ASSUME NEW p \in Interval, NEW h \in Interval, p <= h,
         NEW j \in 0 .. 2 * h - 1
  PROVE  (IF j < h THEN j ELSE j - h) % p = j % p
<1>1. p \in Nat \ {0} /\ h \in Nat \ {0}
  BY IntervalType
<1>2. PICK k \in Nat : h = p * k
  BY Divides
<1>3. CASE j < h
  BY <1>3
<1>4. CASE ~ (j < h)
  <2> DEFINE d == (j - h) \div p
             r == (j - h) % p
  <2>1. j - h \in Nat /\ j \in Nat
    BY <1>1, <1>4
  <2>2. d \in Nat /\ j - h = p * d + r /\ r \in 0 .. p - 1
    BY <1>1, <2>1, ModIs
  <2> HIDE DEF d, r
  <2>3. j = p * (d + k) + r /\ d + k \in Nat
    BY <1>1, <1>2, <2>1, <2>2
  <2>4. j % p = r
    BY <1>1, <2>1, <2>2, <2>3, ModUnique
  <2> QED BY <1>4, <2>4 DEF r
<1> QED BY <1>3, <1>4

LEMMA BelowNext ==
  ASSUME NEW i \in Node, i # Root
  PROVE  Below(i) = {i} \cup Below(NextNode(i))
<1> DEFINE q == IntervalOf(i)
           h == q \div 2
           j == i - RowOf(q)
           n == NextNode(i)
           jn == n - RowOf(h)
<1>1. /\ q \in Interval /\ h \in Interval /\ q = 2 * h
      /\ j \in 0 .. q - 1 /\ IntervalOf(n) = h
      /\ jn = IF j < h THEN j ELSE j - h
  BY NextNodeIs
<1>2. Below(i) = {RowOf(p) + (j % p) : p \in {p \in Interval : p <= q}}
  BY DEF Below
<1>3. Below(n) = {RowOf(p) + (jn % p) : p \in {p \in Interval : p <= h}}
  BY <1>1 DEF Below
<1>4. i = RowOf(q) + (j % q)
  <2>1. i \in Int /\ RowOf(q) \in Int /\ q \in Nat \ {0}
    <3>1. Heads \in Nat /\ q \in Nat \ {0}
      BY <1>1, IntervalType
    <3> HIDE DEF q
    <3> QED BY <3>1 DEF Node, RowOf
  <2> DEFINE r == RowOf(q)
             m == j
  <2>2. m % q = m
    <3> HIDE DEF m, q
    <3>1. m = q * 0 + m
      BY <1>1, <2>1 DEF m
    <3> QED BY <1>1, <2>1, <3>1, ModUnique DEF m
  <2> HIDE DEF q, r
  <2> QED BY <2>1, <2>2 DEF r
<1> HIDE DEF q, h, j, n, jn
<1>5. \A p \in Interval : p <= q <=> p = q \/ p <= h
  <2>1. ASSUME NEW p \in Interval PROVE p <= q <=> p = q \/ p <= h
    <3>1. p \in Nat \ {0} /\ h \in Nat \ {0} /\ q \in Nat
      BY <1>1, IntervalType
    <3>2. p < q => 2 * p <= q
      BY <1>1, TwiceAsLong
    <3> QED BY <1>1, <3>1, <3>2
  <2> QED BY <2>1
<1>6. \A p \in Interval : p <= h => jn % p = j % p
  BY <1>1, ModOfMod
<1> QED
  <2>1. ASSUME NEW x PROVE x \in Below(i) <=> x = i \/ x \in Below(n)
    <3>1. x \in Below(i) <=> \E p \in Interval : p <= q /\ x = RowOf(p) + (j % p)
      BY <1>2
    <3>2. x \in Below(n) <=> \E p \in Interval : p <= h /\ x = RowOf(p) + (jn % p)
      BY <1>3
    <3>3. \A p \in Interval : p <= h => RowOf(p) + (jn % p) = RowOf(p) + (j % p)
      BY <1>6
    <3> QED BY <1>1, <1>4, <1>5, <3>1, <3>2, <3>3
  <2> QED BY <2>1 DEF n

LEMMA BelowRoot == Root \in Node /\ Below(Root) = {Root}
<1>1. Heads \in Nat \ {0} /\ 1 \in Interval
  BY IntervalType
<1>2. Root \in Node /\ InRow(Root, 1)
  BY <1>1 DEF Root, Node, InRow, RowOf
<1>3. IntervalOf(Root) = 1
  BY <1>1, <1>2, IntervalOfIs
<1>4. {p \in Interval : p <= 1} = {1}
  <2>1. \A p \in Interval : p <= 1 => p = 1
    BY IntervalType
  <2> QED BY <1>1, <2>1
<1>5. RowOf(1) = Root /\ (Root - RowOf(1)) % 1 = 0 /\ Root \in Int
  BY <1>1 DEF Root, RowOf
<1>6. Below(Root) = {RowOf(p) + ((Root - RowOf(1)) % p) : p \in {1}}
  BY <1>3, <1>4 DEF Below
<1> QED BY <1>2, <1>5, <1>6

LEMMA ListFromIs == \A i \in Node : ListFrom[i] = Below(i)
<1> DEFINE below == [i \in Node |-> Below(i)]
<1>1. Follows(below)
  <2>1. ASSUME NEW i \in Node
        PROVE  Below(i) = {i} \cup (IF i = Root THEN {} ELSE below[NextNode(i)])
    <3>1. CASE i = Root
      BY <3>1, BelowRoot
    <3>2. CASE i # Root
      <4>1. NextNode(i) \in Node
        BY <3>2, NextNodeIs
      <4> QED BY <3>2, <4>1, BelowNext
    <3> QED BY <3>1, <3>2
  <2> QED BY <2>1 DEF Follows
<1>2. Follows(ListFrom)
  <2>1. ListFrom = CHOOSE l : Follows(l)
    BY DEF ListFrom, Follows
  <2> HIDE DEF below
  <2> QED BY <1>1, <2>1
<1> DEFINE Bad == {i \in Node : ListFrom[i] # Below(i)}
<1>3. Bad = {}
  <2> SUFFICES ASSUME Bad # {} PROVE FALSE
    OBVIOUS
  <2>1. Heads \in Nat /\ \A i \in Node : i \in Nat /\ i <= 2 * Heads
    BY IntervalType DEF Node
  <2>2. PICK i \in Bad : \A n \in Bad : n <= i
    <3>1. Bad \in SUBSET Nat /\ \A n \in Bad : n <= 2 * Heads
      BY <2>1
    <3>2. 2 * Heads \in Nat
      BY <2>1
    <3> HIDE DEF Bad
    <3> QED BY <3>1, <3>2, Greatest
  <2>3. ListFrom[i] = {i} \cup (IF i = Root THEN {} ELSE ListFrom[NextNode(i)])
    BY <1>2 DEF Follows
  <2>4. i # Root
    BY <2>2, <2>3, BelowRoot
  <2>5. NextNode(i) \in Node /\ i < NextNode(i)
    BY <2>4, NextNodeIs
  <2>6. NextNode(i) \notin Bad
    <3>1. NextNode(i) \in Nat /\ i \in Nat
      BY <2>1, <2>5
    <3> QED BY <2>2, <2>5, <3>1
  <2> QED BY <2>2, <2>3, <2>4, <2>5, <2>6, BelowNext
<1> QED BY <1>3

(* A branch stands on the list of just those frames its load is added to.  *)
LEMMA BranchOfFrame ==
  ASSUME NEW s \in Slot, NEW q \in Interval, NEW b \in 0 .. q - 1
  PROVE  /\ s \in Node
         /\ NodeIndex(q, b) \in ListFrom[s] <=> s \in FramesOf(q, b)
<1>1. /\ Heads \in Nat \ {0} /\ Heads \in Interval
      /\ \A p \in Interval : p \in Nat \ {0} /\ p <= Heads
  BY IntervalType
<1>2. s \in Node /\ s \in Nat /\ s < Heads
  BY <1>1 DEF Slot, Node
<1>3. IntervalOf(s) = Heads /\ RowOf(Heads) = 0 /\ s - RowOf(Heads) = s
  <2>1. InRow(s, Heads) /\ RowOf(Heads) = 0 /\ s - RowOf(Heads) = s
    BY <1>1, <1>2 DEF InRow, RowOf
  <2> QED BY <1>1, <1>2, <2>1, IntervalOfIs
<1>4. ListFrom[s] = {RowOf(p) + (s % p) : p \in {p \in Interval : p <= Heads}}
  BY <1>2, <1>3, ListFromIs DEF Below
<1>5. \A p \in Interval : s % p \in 0 .. p - 1
  BY <1>1, <1>2, ModIs
<1>6. NodeIndex(q, b) = RowOf(q) + b /\ b \in Nat /\ q \in Nat \ {0}
  <2>1. b = q * 0 + b /\ b \in Nat
    BY <1>1
  <2>2. b % q = b
    BY <1>1, <2>1, ModUnique
  <2> QED BY <1>1, <2>1, <2>2 DEF NodeIndex
<1>7. NodeIndex(q, b) \in ListFrom[s] <=> s % q = b
  <2>1. ASSUME NEW p \in Interval, RowOf(q) + b = RowOf(p) + (s % p)
        PROVE  p = q /\ s % q = b
    <3> DEFINE n == RowOf(q) + b
    <3>0. p \in Nat \ {0} /\ p <= Heads /\ q <= Heads
      BY <1>1
    <3> DEFINE r == s % p
    <3>1. r \in 0 .. p - 1 /\ n = RowOf(p) + r
      BY <1>5, <2>1
    <3> HIDE DEF r
    <3>2. n \in Node /\ InRow(n, q) /\ InRow(n, p)
      BY <1>1, <1>6, <3>0, <3>1 DEF Node, InRow, RowOf
    <3>3. p = q
      BY <3>2, RowUnique
    <3>4. r = b
      BY <1>1, <1>6, <3>1, <3>3 DEF RowOf
    <3> QED BY <3>3, <3>4 DEF r
  <2>2. NodeIndex(q, b) \in ListFrom[s]
          <=> \E p \in Interval : RowOf(q) + b = RowOf(p) + (s % p)
    BY <1>1, <1>4, <1>6
  <2>3. s % q = b => RowOf(q) + b = RowOf(q) + (s % q)
    OBVIOUS
  <2> QED BY <2>1, <2>2, <2>3
<1>8. s % q = b <=> s >= b /\ (s - b) % q = 0
  <2>1. ASSUME s % q = b PROVE s >= b /\ (s - b) % q = 0
    <3> DEFINE k == s \div q
    <3>1. k \in Nat /\ s = q * k + (s % q)
      BY <1>2, <1>6, ModIs
    <3> HIDE DEF k
    <3>2. s - b = q * k + 0 /\ q * k \in Nat
      BY <1>2, <1>6, <2>1, <3>1
    <3>3. s - b \in Nat /\ 0 \in 0 .. q - 1
      BY <1>6, <3>2
    <3>4. (s - b) % q = 0
      BY <1>6, <3>1, <3>2, <3>3, ModUnique
    <3> QED BY <1>2, <1>6, <3>3, <3>4
  <2>2. ASSUME s >= b, (s - b) % q = 0 PROVE s % q = b
    <3> DEFINE k == (s - b) \div q
    <3>1. s - b \in Nat
      BY <1>2, <1>6, <2>2
    <3>2. k \in Nat /\ s - b = q * k + ((s - b) % q)
      BY <1>6, <3>1, ModIs
    <3> HIDE DEF k
    <3>3. s = q * k + b
      BY <1>2, <1>6, <2>2, <3>2
    <3> QED BY <1>2, <1>6, <3>2, <3>3, ModUnique
  <2> QED BY <2>1, <2>2
<1> QED BY <1>2, <1>7, <1>8 DEF FramesOf

-----------------------------------------------------------------------------
(* What createInterruptEndpoint takes from its description.                *)
LEMMA NormalizedIs ==
  ASSUME NEW rate \in Nat, Normalized(rate) # 0
  PROVE  Normalized(rate) \in Interval
<1> DEFINE S == {q \in Interval : q <= rate}
<1>1. rate >= 1 /\ Normalized(rate) = Max(S)
  BY DEF Normalized
<1>2. S \in SUBSET Nat /\ S # {} /\ \A q \in S : q <= rate
  <2>1. 1 \in S
    BY <1>1, IntervalType
  <2> QED BY <2>1, IntervalType
<1>3. \E m \in S : \A n \in S : n <= m
  <2> HIDE DEF S
  <2> QED BY <1>2, Greatest
<1>4. \E m \in S : \A n \in S : m >= n
  BY <1>2, <1>3
<1>5. Max(S) \in S
  <2> HIDE DEF S
  <2> QED BY <1>4 DEF Max
<1> QED BY <1>1, <1>5

LEMMA LoadIs == \A d \in Desc : Load(d) \in Nat
<1> SUFFICES ASSUME NEW d \in Desc PROVE Load(d) \in Nat
  OBVIOUS
<1>1. d.size \in Nat
  BY DescAssumption
<1>2. BitTime(d.size) \in Nat
  BY <1>1 DEF BitTime
<1>3. LoadNS(d) \in Nat
  BY <1>2 DEF LoadNS
<1> QED BY <1>3 DEF Load

(* The branch that is taken has room in all of its frames.                 *)
LEMMA BestIs ==
  ASSUME branchLoad \in [Slot -> Nat], NEW q \in Interval, NEW l \in Nat,
         \E c \in 0 .. q - 1 : Fits(q, c, l)
  PROVE  Best(q, l) \in 0 .. q - 1 /\ Fits(q, Best(q, l), l)
<1>1. q \in Nat \ {0} /\ q <= Heads /\ Heads \in Nat
  BY IntervalType
<1> DEFINE B == {c \in 0 .. q - 1 : Fits(q, c, l)}
<1>2. B # {} /\ B \in SUBSET Nat /\ \A c \in B : c \in Slot /\ branchLoad[c] \in Nat
  BY <1>1 DEF Slot
<1> HIDE DEF B
<1>3. PICK least \in {branchLoad[c] : c \in B} :
        \A n \in {branchLoad[c] : c \in B} : least <= n
  <2>1. {branchLoad[c] : c \in B} \in SUBSET Nat /\ {branchLoad[c] : c \in B} # {}
    BY <1>2
  <2> QED BY <2>1, Least
<1>4. PICK b \in {c \in B : branchLoad[c] = least} :
        \A n \in {c \in B : branchLoad[c] = least} : b <= n
  <2>1. {c \in B : branchLoad[c] = least} \in SUBSET Nat /\ {c \in B : branchLoad[c] = least} # {}
    BY <1>2, <1>3
  <2> QED BY <2>1, Least
<1>5. ASSUME NEW c \in B PROVE Better(b, c)
  <2>1. /\ b \in B /\ branchLoad[b] = least
        /\ branchLoad[c] \in Nat /\ branchLoad[b] \in Nat
    BY <1>2, <1>4
  <2>2. branchLoad[b] <= branchLoad[c]
    BY <1>3, <2>1
  <2>3. branchLoad[b] = branchLoad[c] => b <= c
    BY <1>4, <2>1
  <2> QED BY <2>1, <2>2, <2>3 DEF Better
<1>6. \E a \in 0 .. q - 1 : /\ Fits(q, a, l)
                           /\ \A c \in 0 .. q - 1 : Fits(q, c, l) => Better(a, c)
  BY <1>4, <1>5 DEF B
<1> QED BY <1>6 DEF Best

-----------------------------------------------------------------------------
(* Endpoints hang behind the node of their branch, with their load; the    *)
(* loads and the bandwidth are what these add up to, within the limits.    *)
Place ==
  {Absent} \cup {r \in [interval : Interval, branch : Nat, load : Nat, node : Int] :
                 r.branch < r.interval /\ r.node = NodeIndex(r.interval, r.branch)}

Types ==
  /\ int \in [IntEndpoint -> Place]
  /\ branchLoad \in [Slot -> Nat]
  /\ iso \in [IsoEndpoint -> Nat \cup {None}]
  /\ isoAvailable \in Nat

IInv == Types /\ RealLoadsFit

LEMMA PlaceIs ==
  ASSUME NEW r \in Place, r # Absent
  PROVE  /\ r.interval \in Interval /\ r.branch \in 0 .. r.interval - 1
         /\ r.load \in Nat /\ r.node = NodeIndex(r.interval, r.branch)
<1>1. \A q \in Interval : q \in Nat
  BY IntervalType
<1> QED BY <1>1 DEF Place

(* What one endpoint adds to a frame.                                      *)
Share(r, s) == IF r # Absent /\ s \in FramesOf(r.interval, r.branch) THEN r.load ELSE 0

LEMMA LoadInIs ==
  ASSUME NEW i \in [IntEndpoint -> Place], NEW s \in Slot
  PROVE  [e \in IntEndpoint |->
            IF i[e] # Absent /\ i[e].node \in ListFrom[s] THEN i[e].load ELSE 0]
         = [e \in IntEndpoint |-> Share(i[e], s)]
<1>1. ASSUME NEW e \in IntEndpoint, i[e] # Absent
      PROVE  i[e].node \in ListFrom[s] <=> s \in FramesOf(i[e].interval, i[e].branch)
  <2>1. i[e] \in Place
    OBVIOUS
  <2> QED BY <1>1, <2>1, PlaceIs, BranchOfFrame
<1> QED BY <1>1 DEF Share

LEMMA ShareType == \A r \in Place, s \in Slot : Share(r, s) \in Nat
BY PlaceIs DEF Share

(* The sum of a frame changes by what one endpoint adds.                   *)
LEMMA LoadChange ==
  ASSUME int \in [IntEndpoint -> Place], NEW e \in IntEndpoint, NEW r \in Place,
         int' = [int EXCEPT ![e] = r], NEW s \in Slot
  PROVE  /\ SumFunction(LoadIn(s)) \in Nat
         /\ SumFunction(LoadIn(s))' = SumFunction(LoadIn(s)) - Share(int[e], s) + Share(r, s)
         /\ Share(int[e], s) <= SumFunction(LoadIn(s))
<1> DEFINE f == [x \in IntEndpoint |-> Share(int[x], s)]
           g == [x \in IntEndpoint |-> Share(int'[x], s)]
<1>1. int' \in [IntEndpoint -> Place] /\ int'[e] = r /\ int[e] \in Place
  OBVIOUS
<1>2. LoadIn(s) = f /\ LoadIn(s)' = g
  BY <1>1, LoadInIs DEF LoadIn
<1>3. f \in [IntEndpoint -> Nat] /\ g \in [IntEndpoint -> Nat]
  <2>1. \A x \in IntEndpoint : int[x] \in Place /\ int'[x] \in Place
    BY <1>1
  <2> QED BY <2>1, ShareType
<1>4. f[e] = Share(int[e], s) /\ g[e] = Share(r, s)
  BY <1>1
<1>5. \A x \in IntEndpoint \ {e} : g[x] = f[x]
  OBVIOUS
<1>6. f \in [IntEndpoint -> Int] /\ g \in [IntEndpoint -> Int]
  BY <1>3
<1> HIDE DEF f, g
<1>7. SumFunction(g) = SumFunction(f) - f[e] + g[e]
  BY <1>5, <1>6, PeriodicAssumption, SumChange
<1>8. SumFunction(f) \in Nat /\ f[e] <= SumFunction(f)
  BY <1>3, PeriodicAssumption, SumOfNaturals
<1>9. SumFunction(LoadIn(s))' = SumFunction(g)
  BY <1>2 DEF SumFunction, SumFunctionOnSet, FoldFunctionOnSet, MapThenFoldSet
<1> QED BY <1>2, <1>4, <1>7, <1>8, <1>9

-----------------------------------------------------------------------------
LEMMA ZeroShare == Absent \in Place /\ \A s : Share(Absent, s) = 0
BY DEF Place, Share

LEMMA InitPeriodic == PeriodicInit => IInv
<1> SUFFICES ASSUME PeriodicInit PROVE IInv
  OBVIOUS
<1>1. Types
  BY ZeroShare, SizeAssumption DEF PeriodicInit, Types
<1>2. ASSUME NEW s \in Slot PROVE branchLoad[s] = SumFunction(LoadIn(s))
  <2>1. LoadIn(s) = [e \in IntEndpoint |-> 0]
    BY DEF PeriodicInit, LoadIn
  <2> QED BY <2>1, PeriodicAssumption, SumOfZeros DEF PeriodicInit
<1>3. isoAvailable + SumFunction(Bandwidth) = Total
  <2>1. Bandwidth = [e \in IsoEndpoint |-> 0]
    BY DEF PeriodicInit, Bandwidth
  <2> QED BY <2>1, PeriodicAssumption, SumOfZeros, SizeAssumption DEF PeriodicInit
<1>4. NeverOvercommitted
  BY AllocAssumption DEF PeriodicInit, NeverOvercommitted
<1> QED BY <1>1, <1>2, <1>3, <1>4 DEF IInv, RealLoadsFit, LoadsAreReal

(* The interrupt endpoints have no part in the bandwidth.                  *)
LEMMA IsoUntouched ==
  ASSUME IInv, UNCHANGED <<iso, isoAvailable>>
  PROVE  iso' \in [IsoEndpoint -> Nat \cup {None}] /\ isoAvailable' \in Nat
         /\ (isoAvailable + SumFunction(Bandwidth) = Total)'
<1>1. Bandwidth' = Bandwidth
  BY DEF Bandwidth
<1> QED BY <1>1 DEF IInv, Types, RealLoadsFit, LoadsAreReal

LEMMA IntUntouched ==
  ASSUME IInv, UNCHANGED <<int, branchLoad>>
  PROVE  /\ int' \in [IntEndpoint -> Place] /\ branchLoad' \in [Slot -> Nat]
         /\ (\A s \in Slot : branchLoad[s] = SumFunction(LoadIn(s)))'
         /\ NeverOvercommitted'
<1>1. \A s \in Slot : LoadIn(s)' = LoadIn(s)
  BY DEF LoadIn
<1> QED BY <1>1 DEF IInv, Types, RealLoadsFit, LoadsAreReal, NeverOvercommitted

LEMMA CreateInterruptKeeps ==
  ASSUME IInv, NEW e \in IntEndpoint, NEW d \in Desc, CreateInterrupt(e, d)
  PROVE  IInv'
<1> DEFINE q == Normalized(d.rate)
           l == Load(d)
           b == Best(q, l)
           r == [interval |-> q, branch |-> b, load |-> l, node |-> NodeIndex(q, b)]
<1>1. /\ int[e] = Absent /\ q # 0 /\ \E c \in 0 .. q - 1 : Fits(q, c, l)
      /\ int' = [int EXCEPT ![e] = r]
      /\ branchLoad' = Adjusted(q, b, l)
      /\ UNCHANGED <<iso, isoAvailable>>
  BY DEF CreateInterrupt
<1>2. q \in Interval /\ l \in Nat
  BY <1>1, NormalizedIs, LoadIs, DescAssumption
<1>3. branchLoad \in [Slot -> Nat] /\ int \in [IntEndpoint -> Place]
  BY DEF IInv, Types
<1> HIDE DEF q, l
<1>4. b \in 0 .. q - 1 /\ Fits(q, b, l)
  BY <1>1, <1>2, <1>3, BestIs
<1> HIDE DEF b
<1>5. r \in Place /\ r # Absent
  <2>1. q \in Nat \ {0} /\ Heads \in Nat
    BY <1>2, IntervalType
  <2>2. b \in Nat /\ b < q
    BY <1>4, <2>1
  <2>3. NodeIndex(q, b) \in Int
    BY <2>1, <2>2 DEF NodeIndex, RowOf
  <2>4. r \in [interval : Interval, branch : Nat, load : Nat, node : Int]
    BY <1>2, <2>2, <2>3
  <2> QED BY <2>1, <2>2, <2>4 DEF Place, Absent
<1>6. \A s \in Slot : Share(r, s) = IF s \in FramesOf(q, b) THEN l ELSE 0
  BY <1>5 DEF Share
<1>7. int' \in [IntEndpoint -> Place]
  BY <1>1, <1>3, <1>5
<1> HIDE DEF r
<1>8. ASSUME NEW s \in Slot
      PROVE  branchLoad'[s] = branchLoad[s] + Share(r, s) /\ branchLoad'[s] \in Nat
  <2>1. branchLoad[s] \in Nat /\ l \in Nat
    BY <1>2, <1>3
  <2>2. branchLoad'[s] = IF s \in FramesOf(q, b) THEN Clamped(branchLoad[s] + l) ELSE branchLoad[s]
    BY <1>1 DEF Adjusted
  <2> QED BY <1>6, <2>1, <2>2 DEF Clamped
<1>9. branchLoad' \in [Slot -> Nat]
  <2>1. branchLoad' = [s \in Slot |-> branchLoad'[s]]
    BY <1>1 DEF Adjusted
  <2> QED BY <1>8, <2>1
<1>10. ASSUME NEW s \in Slot PROVE branchLoad'[s] = SumFunction(LoadIn(s))'
  <2>1. Share(int[e], s) = 0 /\ branchLoad[s] = SumFunction(LoadIn(s))
    BY <1>1, ZeroShare DEF IInv, RealLoadsFit, LoadsAreReal
  <2>2. /\ SumFunction(LoadIn(s)) \in Nat
        /\ SumFunction(LoadIn(s))' = SumFunction(LoadIn(s)) - Share(int[e], s) + Share(r, s)
    BY <1>1, <1>3, <1>5, LoadChange
  <2>3. Share(r, s) \in Nat
    BY <1>5, ShareType
  <2> QED BY <1>8, <2>1, <2>2, <2>3
<1>11. NeverOvercommitted'
  <2>1. ASSUME NEW s \in Slot PROVE branchLoad'[s] <= MaxAlloc
    <3>1. branchLoad[s] <= MaxAlloc /\ branchLoad[s] \in Nat
      BY <1>3 DEF IInv, RealLoadsFit, NeverOvercommitted
    <3>2. s \in FramesOf(q, b) => branchLoad[s] + l <= MaxAlloc
      BY <1>4 DEF Fits
    <3> QED BY <1>6, <1>8, <3>1, <3>2
  <2> QED BY <2>1 DEF NeverOvercommitted
<1> QED
  BY <1>1, <1>7, <1>9, <1>10, <1>11, IsoUntouched
     DEF IInv, Types, RealLoadsFit, LoadsAreReal

LEMMA DeleteInterruptKeeps ==
  ASSUME IInv, NEW e \in IntEndpoint, DeleteInterrupt(e)
  PROVE  IInv'
<1> DEFINE r == int[e]
<1>1. /\ r # Absent
      /\ int' = [int EXCEPT ![e] = Absent]
      /\ branchLoad' = Adjusted(r.interval, r.branch, -r.load)
      /\ UNCHANGED <<iso, isoAvailable>>
  BY DEF DeleteInterrupt
<1>2. branchLoad \in [Slot -> Nat] /\ int \in [IntEndpoint -> Place] /\ r \in Place
  BY DEF IInv, Types
<1>3. int' \in [IntEndpoint -> Place]
  BY <1>1, <1>2, ZeroShare
<1>4. r.load \in Nat
  BY <1>1, <1>2, PlaceIs
<1>5. ASSUME NEW s \in Slot
      PROVE  /\ SumFunction(LoadIn(s)) \in Nat /\ branchLoad[s] = SumFunction(LoadIn(s))
             /\ Share(r, s) \in Nat /\ Share(r, s) <= branchLoad[s]
             /\ SumFunction(LoadIn(s))' = branchLoad[s] - Share(r, s)
  <2>1. branchLoad[s] = SumFunction(LoadIn(s))
    BY DEF IInv, RealLoadsFit, LoadsAreReal
  <2>2. /\ SumFunction(LoadIn(s)) \in Nat
        /\ SumFunction(LoadIn(s))' = SumFunction(LoadIn(s)) - Share(r, s) + Share(Absent, s)
        /\ Share(r, s) <= SumFunction(LoadIn(s))
    BY <1>1, <1>2, ZeroShare, LoadChange
  <2>3. Share(r, s) \in Nat /\ Share(Absent, s) = 0
    BY <1>2, ShareType, ZeroShare
  <2> QED BY <2>1, <2>2, <2>3
<1>6. \A s \in Slot : Share(r, s) = IF s \in FramesOf(r.interval, r.branch) THEN r.load ELSE 0
  BY <1>1 DEF Share
<1> HIDE DEF r
<1>7. ASSUME NEW s \in Slot
      PROVE  /\ branchLoad'[s] = SumFunction(LoadIn(s))'
             /\ branchLoad'[s] \in Nat /\ branchLoad'[s] <= branchLoad[s]
  <2>1. branchLoad[s] \in Nat
    BY <1>2
  <2>2. branchLoad'[s] = IF s \in FramesOf(r.interval, r.branch)
                           THEN Clamped(branchLoad[s] + -r.load) ELSE branchLoad[s]
    BY <1>1 DEF Adjusted
  <2>3. branchLoad'[s] = branchLoad[s] - Share(r, s)
    BY <1>4, <1>5, <1>6, <2>1, <2>2 DEF Clamped
  <2> QED BY <1>5, <2>1, <2>3
<1>8. branchLoad' \in [Slot -> Nat]
  <2>1. branchLoad' = [s \in Slot |-> branchLoad'[s]]
    BY <1>1 DEF Adjusted
  <2> QED BY <1>7, <2>1
<1>9. NeverOvercommitted'
  <2>1. ASSUME NEW s \in Slot PROVE branchLoad'[s] <= MaxAlloc
    <3>1. branchLoad[s] <= MaxAlloc /\ branchLoad[s] \in Nat
      BY <1>2 DEF IInv, RealLoadsFit, NeverOvercommitted
    <3> QED BY <1>7, <3>1, AllocAssumption
  <2> QED BY <2>1 DEF NeverOvercommitted
<1> QED
  BY <1>1, <1>3, <1>7, <1>8, <1>9, IsoUntouched
     DEF IInv, Types, RealLoadsFit, LoadsAreReal

(* The bandwidth of one isochronous endpoint changes from m to n.          *)
LEMMA BandwidthKeeps ==
  ASSUME IInv, NEW e \in IsoEndpoint, NEW v \in Nat \cup {None},
         iso' = [iso EXCEPT ![e] = v],
         isoAvailable' = isoAvailable + (IF iso[e] = None THEN 0 ELSE iso[e])
                                      - (IF v = None THEN 0 ELSE v),
         isoAvailable' >= 0,
         UNCHANGED <<int, branchLoad>>
  PROVE  IInv'
<1> DEFINE f == Bandwidth
           g == Bandwidth'
<1>1. iso \in [IsoEndpoint -> Nat \cup {None}] /\ isoAvailable \in Nat
  BY DEF IInv, Types
<1>2. iso' \in [IsoEndpoint -> Nat \cup {None}] /\ iso'[e] = v
  BY <1>1
<1>3. f \in [IsoEndpoint -> Int] /\ g \in [IsoEndpoint -> Int]
  BY <1>1, <1>2 DEF Bandwidth
<1>4. /\ f[e] = IF iso[e] = None THEN 0 ELSE iso[e]
      /\ g[e] = IF v = None THEN 0 ELSE v
  BY <1>2 DEF Bandwidth
<1>5. \A x \in IsoEndpoint \ {e} : g[x] = f[x]
  BY <1>1 DEF Bandwidth
<1> HIDE DEF f, g
<1>6. SumFunction(g) = SumFunction(f) - f[e] + g[e] /\ SumFunction(f) \in Int
  BY <1>3, <1>5, PeriodicAssumption, SumChange
<1>7. f[e] \in Int /\ g[e] \in Int
  BY <1>3
<1>8. isoAvailable + SumFunction(f) = Total
  BY DEF IInv, RealLoadsFit, LoadsAreReal, f
<1>9. isoAvailable' = isoAvailable + f[e] - g[e]
  BY <1>4
<1>10. isoAvailable' + SumFunction(g) = Total /\ isoAvailable' \in Nat
  BY <1>1, <1>6, <1>7, <1>8, <1>9
<1>11. (isoAvailable + SumFunction(Bandwidth) = Total)'
  BY <1>10 DEF g
<1> QED
  BY <1>2, <1>10, <1>11, IntUntouched DEF IInv, Types, RealLoadsFit, LoadsAreReal

LEMMA InductivePeriodic == IInv /\ [PeriodicNext]_periodicVars => IInv'
<1> SUFFICES ASSUME IInv, [PeriodicNext]_periodicVars PROVE IInv'
  OBVIOUS
<1>1. ASSUME NEW e \in IntEndpoint, NEW d \in Desc, CreateInterrupt(e, d) PROVE IInv'
  BY <1>1, CreateInterruptKeeps
<1>2. ASSUME NEW e \in IntEndpoint, DeleteInterrupt(e) PROVE IInv'
  BY <1>2, DeleteInterruptKeeps
<1> DEFINE Own(e) == IF iso[e] = None THEN 0 ELSE iso[e]
<1>3. \A e \in IsoEndpoint : iso[e] \in Nat \cup {None} /\ isoAvailable \in Nat
  BY DEF IInv, Types
<1>4. ASSUME NEW e \in IsoEndpoint, NEW n \in Size, CreateIso(e, n) PROVE IInv'
  <2>1. n \in Nat /\ n # None
    BY SizeAssumption DEF None
  <2>2. isoAvailable' = isoAvailable + 0 - n /\ isoAvailable' >= 0
    BY <1>3, <1>4, <2>1 DEF CreateIso
  <2> QED BY <1>4, <2>1, <2>2, BandwidthKeeps DEF CreateIso
<1>5. ASSUME NEW e \in IsoEndpoint, NEW n \in Size, ResizeIso(e, n) PROVE IInv'
  <2>1. n \in Nat /\ n # None /\ iso[e] # None /\ iso[e] \in Nat
    BY <1>3, <1>5, SizeAssumption DEF None, ResizeIso
  <2>2. isoAvailable' = isoAvailable + iso[e] - n /\ isoAvailable' >= 0
    BY <1>3, <1>5, <2>1 DEF ResizeIso
  <2> QED BY <1>5, <2>1, <2>2, BandwidthKeeps DEF ResizeIso
<1>6. ASSUME NEW e \in IsoEndpoint, DeleteIso(e) PROVE IInv'
  <2>1. iso[e] # None /\ iso[e] \in Nat
    BY <1>3, <1>6 DEF DeleteIso
  <2>2. isoAvailable' = isoAvailable + iso[e] - 0 /\ isoAvailable' >= 0
    BY <1>3, <1>6, <2>1 DEF DeleteIso
  <2> QED BY <1>6, <2>1, <2>2, BandwidthKeeps DEF DeleteIso
<1>7. CASE UNCHANGED periodicVars
  BY <1>7, IsoUntouched, IntUntouched
     DEF periodicVars, IInv, Types, RealLoadsFit, LoadsAreReal
<1> QED BY <1>1, <1>2, <1>4, <1>5, <1>6, <1>7 DEF PeriodicNext

(* Whatever is created and deleted in whatever order, the load kept for a  *)
(* frame is that of the endpoints on its list and within the limit, and    *)
(* the bandwidths make up the total.                                       *)
THEOREM AdmittedFits == PeriodicSpec => []RealLoadsFit
<1>1. IInv => RealLoadsFit
  BY DEF IInv
<1> QED BY <1>1, InitPeriodic, InductivePeriodic, PTL DEF PeriodicSpec

(* The members that are in a set.                                          *)
LEMMA AmongIs ==
  ASSUME NEW T, NEW s \in Seq(T), NEW S
  PROVE  /\ Among(s, S) \in Seq(T) /\ ToSet(Among(s, S)) = ToSet(s) \cap S
         /\ \A C : Ordered(s, C) => Ordered(Among(s, S), C)
         /\ Distinct(s) => Distinct(Among(s, S))
<1> DEFINE m == [i \in DOMAIN s |-> IF s[i] \in S THEN <<s[i]>> ELSE <<>>]
<1>1. PICK n \in Nat : n = Len(s)
  BY LengthIs, Zenon
<1>2. /\ DOMAIN s = 1 .. n /\ \A i \in 1 .. n : s[i] \in T
  BY <1>1
<1>3. \A i \in 1 .. n : m[i] = (IF s[i] \in S THEN <<s[i]>> ELSE <<>>) /\ m[i] \in Seq(T)
  <2>1. \A i \in 1 .. n : <<s[i]>> \in Seq(T)
    BY <1>2
  <2>2. <<>> \in Seq(T)
    OBVIOUS
  <2> QED BY <2>1, <2>2, <1>2
<1>4. m \in Seq(Seq(T)) /\ Len(m) = n
  <2>1. m \in [1 .. n -> Seq(T)]
    BY <1>2, <1>3
  <2> HIDE DEF m
  <2> QED BY <2>1
<1>5. \A i \in 1 .. n : ToSet(m[i]) = {s[i]} \cap S
  <2> SUFFICES ASSUME NEW i \in 1 .. n PROVE ToSet(m[i]) = {s[i]} \cap S
    OBVIOUS
  <2>1. ToSet(<<s[i]>>) = {s[i]} /\ ToSet(<<>>) = {}
    BY DEF ToSet
  <2> QED BY <2>1, <1>3
<1>6. \A C : \A i \in 1 .. n : Ordered(m[i], C)
  <2> SUFFICES ASSUME NEW C, NEW i \in 1 .. n PROVE Ordered(m[i], C)
    OBVIOUS
  <2>1. Ordered(<<s[i]>>, C) /\ Ordered(<<>>, C)
    BY DEF Ordered
  <2> QED BY <2>1, <1>3
<1> HIDE DEF m
<1>7. ASSUME NEW C, Ordered(s, C)
      PROVE  \A i, j \in 1 .. n : i < j => Precedes(ToSet(m[i]), ToSet(m[j]), C)
  BY <1>1, <1>5, <1>7 DEF Ordered, Precedes
<1>8. ASSUME NEW C, Ordered(s, C)
      PROVE  /\ FlattenSeq(m) \in Seq(T) /\ Ordered(FlattenSeq(m), C)
             /\ \A x : x \in ToSet(FlattenSeq(m)) <=> \E i \in 1 .. n : x \in ToSet(m[i])
  <2>1. \A i \in 1 .. Len(m) : Ordered(m[i], C)
    BY <1>4, <1>6
  <2>2. \A i, j \in 1 .. Len(m) : i < j => Precedes(ToSet(m[i]), ToSet(m[j]), C)
    BY <1>4, <1>7, <1>8
  <2>3. /\ FlattenSeq(m) \in Seq(T) /\ Ordered(FlattenSeq(m), C)
        /\ \A x : x \in ToSet(FlattenSeq(m)) <=> \E i \in 1 .. Len(m) : x \in ToSet(m[i])
    BY ONLY <2>1, <2>2, <1>4, FlattenOrdered
  <2> QED BY <2>3, <1>4
<1>9. Among(s, S) = FlattenSeq(m)
  BY DEF Among, m
<1>10. Ordered(s, {})
  BY DEF Ordered
<1>11. ToSet(FlattenSeq(m)) = ToSet(s) \cap S
  <2>1. \A x : x \in ToSet(FlattenSeq(m)) <=> \E i \in 1 .. n : x \in ToSet(m[i])
    BY <1>8, <1>10
  <2>2. \A x : x \in ToSet(s) <=> \E i \in 1 .. n : s[i] = x
    BY <1>1, MemberIs
  <2> QED BY <2>1, <2>2, <1>5
<1>12. FlattenSeq(m) \in Seq(T)
  BY <1>8, <1>10
<1>13. Distinct(s) => Distinct(FlattenSeq(m))
  <2>1. Distinct(s) => Ordered(s, Selves(T))
    BY DistinctOrdered
  <2>2. Ordered(s, Selves(T)) => Ordered(FlattenSeq(m), Selves(T))
    BY <1>8
  <2> QED BY <2>1, <2>2, <1>12, DistinctOrdered
<1> QED BY <1>8, <1>9, <1>11, <1>12, <1>13

(* What is taken from the free ones.                                       *)
LEMMA TakenIs ==
  ASSUME free \in SUBSET TD, NEW n \in Nat, n <= Cardinality(free)
  PROVE  /\ Taken(n) \in Seq(TD) /\ Len(Taken(n)) = n /\ Distinct(Taken(n))
         /\ ToSet(Taken(n)) \in SUBSET free
<1>1. IsFiniteSet(free)
  BY TDAssumption, FS_Subset
<1>2. PICK k \in Nat : k = Cardinality(free) /\ ExistsBijection(1 .. k, free)
  BY <1>1, FS_CardinalityType
<1>3. PICK f \in Bijection(1 .. k, free) : TRUE
  BY <1>2 DEF ExistsBijection
<1>4. f \in [1 .. k -> free] /\ \A i, j \in 1 .. k : f[i] = f[j] => i = j
  BY <1>3 DEF Bijection, Injection, IsInjective
<1> DEFINE g == [i \in 1 .. n |-> f[i]]
<1>5. g \in [1 .. n -> free] /\ IsInjective(g)
  <2>1. \A i \in 1 .. n : i \in 1 .. k
    BY <1>2
  <2>2. g \in [1 .. n -> free]
    BY <2>1, <1>4
  <2> QED BY <2>1, <2>2, <1>4 DEF IsInjective
<1>6. Taken(n) \in [1 .. n -> free] /\ IsInjective(Taken(n))
  BY <1>5 DEF Taken
<1> DEFINE ts == Taken(n)
<1> HIDE DEF ts
<1>7. ts \in [1 .. n -> free] /\ IsInjective(ts)
  BY <1>6 DEF ts
<1>8. ts \in Seq(free) /\ ts \in Seq(TD) /\ Len(ts) = n
  BY <1>7
<1>9. Distinct(ts)
  BY <1>7, <1>8 DEF Distinct, IsInjective
<1>10. ToSet(ts) \in SUBSET free
  BY <1>8, MemberIs
<1> QED BY <1>8, <1>9, <1>10 DEF ts

-----------------------------------------------------------------------------
(* Isochronous transfers.  A TD is in one place.  The four queues that a   *)
(* retired TD goes through are taken as one line, of which the head is     *)
(* processed next.                                                         *)

(* Every TD is at one position of the line or of one chain, free or lost.  *)
InPlace(line, ch, fr, lk) ==
  /\ line \in Seq(TD) /\ Distinct(line)
  /\ ch \in [Endpoint -> Seq(TD)]
  /\ fr \in SUBSET TD /\ lk \in SUBSET TD /\ fr \cap lk = {}
  /\ ToSet(line) \cap (fr \cup lk) = {}
  /\ \A e \in Endpoint : /\ Distinct(ch[e])
                         /\ ToSet(ch[e]) \cap (fr \cup lk \cup ToSet(line)) = {}
  /\ \A e, d \in Endpoint : e # d => ToSet(ch[e]) \cap ToSet(ch[d]) = {}
  /\ \A t \in TD : t \in fr \cup lk \cup ToSet(line) \/ \E e \in Endpoint : t \in ToSet(ch[e])

(* A chain and the free ones have exchanged some.                          *)
LEMMA ChainChange ==
  ASSUME NEW line, NEW ch, NEW fr, NEW lk, InPlace(line, ch, fr, lk), NEW e \in Endpoint,
         NEW c \in Seq(TD), Distinct(c), NEW f \in SUBSET TD,
         ToSet(c) \cap f = {}, ToSet(c) \cup f = ToSet(ch[e]) \cup fr
  PROVE  InPlace(line, [ch EXCEPT ![e] = c], f, lk)
<1> DEFINE n == [ch EXCEPT ![e] = c]
<1>1. n \in [Endpoint -> Seq(TD)] /\ n[e] = c /\ \A d \in Endpoint : d # e => n[d] = ch[d]
  BY DEF InPlace
<1> HIDE DEF n
<1>2. f \cap lk = {} /\ ToSet(line) \cap (f \cup lk) = {} /\ ToSet(c) \cap (f \cup lk \cup ToSet(line)) = {}
  BY DEF InPlace
<1>3. ASSUME NEW d \in Endpoint, d # e
      PROVE  ToSet(ch[d]) \cap (f \cup lk \cup ToSet(line) \cup ToSet(c)) = {}
  BY <1>3 DEF InPlace
<1>4. \A t \in TD : t \in f \cup lk \cup ToSet(line) \/ \E d \in Endpoint : t \in ToSet(n[d])
  <2> SUFFICES ASSUME NEW t \in TD, t \notin f \cup lk \cup ToSet(line)
               PROVE  \E d \in Endpoint : t \in ToSet(n[d])
    OBVIOUS
  <2>1. CASE t \in fr
    BY <2>1, <1>1
  <2>2. CASE t \notin fr
    <3>1. PICK d \in Endpoint : t \in ToSet(ch[d])
      BY <2>2 DEF InPlace
    <3> QED BY <3>1, <1>1
  <2> QED BY <2>1, <2>2
<1>5. \A d \in Endpoint : /\ Distinct(n[d])
                          /\ ToSet(n[d]) \cap (f \cup lk \cup ToSet(line)) = {}
  BY <1>1, <1>2, <1>3 DEF InPlace
<1>6. \A a, b \in Endpoint : a # b => ToSet(n[a]) \cap ToSet(n[b]) = {}
  BY <1>1, <1>3 DEF InPlace
<1>7. line \in Seq(TD) /\ Distinct(line) /\ lk \in SUBSET TD
  BY DEF InPlace
<1>8. InPlace(line, n, f, lk)
  BY <1>1, <1>2, <1>4, <1>5, <1>6, <1>7 DEF InPlace
<1> QED BY <1>8 DEF n

(* The line in another order.                                              *)
LEMMA LineChange ==
  ASSUME NEW line, NEW ch, NEW fr, NEW lk, InPlace(line, ch, fr, lk),
         NEW l \in Seq(TD), Distinct(l), ToSet(l) = ToSet(line)
  PROVE  InPlace(l, ch, fr, lk)
BY DEF InPlace

(* The first of the line becomes free.                                     *)
LEMMA FirstFreed ==
  ASSUME NEW line, NEW ch, NEW fr, NEW lk, InPlace(line, ch, fr, lk), line # <<>>
  PROVE  InPlace(Tail(line), ch, fr \cup {Head(line)}, lk)
<1>1. /\ Head(line) \in TD /\ Tail(line) \in Seq(TD) /\ Distinct(Tail(line))
      /\ ToSet(line) = {Head(line)} \cup ToSet(Tail(line))
      /\ Head(line) \notin ToSet(Tail(line))
  BY TailSet DEF InPlace
<1> QED BY <1>1 DEF InPlace

(* Some of the free ones are lost.                                         *)
LEMMA SomeLost ==
  ASSUME NEW line, NEW ch, NEW fr, NEW lk, InPlace(line, ch, fr, lk), NEW S \in SUBSET fr
  PROVE  InPlace(line, ch, fr \ S, lk \cup S)
BY DEF InPlace

(* The chains without the first of those in D.                             *)
Shortened(ch, D) == [e \in Endpoint |-> IF e \in D THEN Tail(ch[e]) ELSE ch[e]]

(* The first of some chains go to the end of the line.                     *)
LEMMA HeadsRetired ==
  ASSUME NEW line, NEW ch, NEW fr, NEW lk, InPlace(line, ch, fr, lk),
         NEW D \in SUBSET Endpoint, \A e \in D : ch[e] # <<>>,
         NEW now \in Seq(TD), Distinct(now), ToSet(now) = {Head(ch[e]) : e \in D}
  PROVE  InPlace(line \o now, Shortened(ch, D), fr, lk)
<1> DEFINE n == Shortened(ch, D)
<1>1. ch \in [Endpoint -> Seq(TD)] /\ line \in Seq(TD) /\ Distinct(line)
  BY DEF InPlace
<1>2. ASSUME NEW e \in D
      PROVE  /\ Head(ch[e]) \in TD /\ Tail(ch[e]) \in Seq(TD) /\ Distinct(Tail(ch[e]))
             /\ ToSet(ch[e]) = {Head(ch[e])} \cup ToSet(Tail(ch[e]))
             /\ Head(ch[e]) \notin ToSet(Tail(ch[e]))
  <2>1. ch[e] \in Seq(TD) /\ Distinct(ch[e]) /\ ch[e] # <<>>
    BY <1>1 DEF InPlace
  <2> QED BY <2>1, TailSet
<1>3. /\ n \in [Endpoint -> Seq(TD)]
      /\ \A e \in Endpoint : n[e] = IF e \in D THEN Tail(ch[e]) ELSE ch[e]
  BY <1>1, <1>2 DEF Shortened
<1> HIDE DEF n
<1>4. ASSUME NEW e \in Endpoint
      PROVE  Distinct(n[e]) /\ ToSet(n[e]) \in SUBSET ToSet(ch[e])
  <2>1. CASE e \in D
    <3>1. n[e] = Tail(ch[e])
      BY <2>1, <1>3
    <3> QED BY <3>1, <2>1, <1>2
  <2>2. CASE e \notin D
    <3>1. n[e] = ch[e] /\ Distinct(ch[e])
      BY <2>2, <1>3 DEF InPlace
    <3> QED BY <3>1
  <2> QED BY <2>1, <2>2
<1>5. ToSet(now) \cap (ToSet(line) \cup fr \cup lk) = {}
  <2> SUFFICES ASSUME NEW e \in D, Head(ch[e]) \in ToSet(line) \cup fr \cup lk PROVE FALSE
    OBVIOUS
  <2>1. Head(ch[e]) \in ToSet(ch[e]) /\ e \in Endpoint
    BY <1>2
  <2> QED BY <2>1 DEF InPlace
<1>6. ASSUME NEW e \in Endpoint PROVE ToSet(n[e]) \cap ToSet(now) = {}
  <2> SUFFICES ASSUME NEW d \in D, Head(ch[d]) \in ToSet(n[e]) PROVE FALSE
    OBVIOUS
  <2>1. Head(ch[d]) \in ToSet(ch[d]) /\ Head(ch[d]) \in ToSet(ch[e])
    BY <1>2, <1>4
  <2>2. d = e
    BY <2>1 DEF InPlace
  <2> QED BY <2>2, <1>2, <1>3
<1>7. /\ line \o now \in Seq(TD) /\ ToSet(line \o now) = ToSet(line) \cup ToSet(now)
      /\ Distinct(line \o now)
  <2>1. ToSet(line) \cap ToSet(now) = {}
    BY <1>5
  <2> QED BY <2>1, <1>1, JoinSet
<1>8. \A t \in TD : t \in fr \cup lk \cup ToSet(line \o now) \/ \E e \in Endpoint : t \in ToSet(n[e])
  <2> SUFFICES ASSUME NEW t \in TD, t \notin fr \cup lk \cup ToSet(line) \cup ToSet(now)
               PROVE  \E e \in Endpoint : t \in ToSet(n[e])
    BY <1>7
  <2>1. PICK e \in Endpoint : t \in ToSet(ch[e])
    BY DEF InPlace
  <2>2. t \in ToSet(n[e])
    BY <2>1, <1>2, <1>3
  <2> QED BY <2>2
<1>9. \A e \in Endpoint : ToSet(n[e]) \cap (fr \cup lk \cup ToSet(line \o now)) = {}
  BY <1>4, <1>6, <1>7 DEF InPlace
<1>10. \A e, d \in Endpoint : e # d => ToSet(n[e]) \cap ToSet(n[d]) = {}
  BY <1>4 DEF InPlace
<1>11. fr \in SUBSET TD /\ lk \in SUBSET TD /\ fr \cap lk = {} /\ ToSet(line \o now) \cap (fr \cup lk) = {}
  BY <1>5, <1>7 DEF InPlace
<1>12. InPlace(line \o now, n, fr, lk)
  BY <1>3, <1>4, <1>7, <1>8, <1>9, <1>10, <1>11 DEF InPlace
<1> QED BY <1>12 DEF n

-----------------------------------------------------------------------------
(* What the driver keeps of a TD.                                          *)
TDRecord == [next : TD \cup {Null}, start : 0 .. FrameMod - 1, req : Nat, last : BOOLEAN,
             copied : BOOLEAN, in : BOOLEAN]

(* The types of what the driver keeps; the walk and the gate are about     *)
(* endpoints that exist, and an endpoint exists as long as it has a chain. *)
IsoTypes ==
  /\ frame \in 0 .. FrameMod - 1 /\ asked \in Nat
  /\ list \in Seq(Endpoint) /\ Distinct(list)
  /\ td \in [TD -> TDRecord]
  /\ hcDone \in Seq(TD) /\ isoIn \in Seq(TD) /\ done \in Seq(TD) /\ work \in Seq(TD)
  /\ gate \in [kind : {"none", "abort", "delete"}, e : Endpoint \cup {1}, frames : Nat]
  /\ walk \in [to : Seq(Endpoint), t : TD \cup {Null}, old : BOOLEAN]
  /\ ToSet(walk.to) \subseteq Linked /\ (walk.to # <<>> => walk.t \in TD)
  /\ callback \in SUBSET Endpoint
  /\ gate.kind # "none" => gate.e \in Linked
  /\ \A e \in Endpoint : e \in Linked <=> chain[e] # <<>>

(* The timers run with the first endpoint, but for the time of a deletion, *)
(* when nothing isochronous is sent.                                       *)
Timers ==
  /\ inOn = (list # <<>>)
  /\ gate.kind # "delete" => outOn = (list # <<>>)
  /\ gate.kind = "delete" => isoOn = FALSE

(* Every TD is in its place.                                               *)
Placed == InPlace(Line, chain, free, leaked)

(* The inductive invariant on which the rest of this part stands.          *)
IsoInv == IsoTypes /\ Timers /\ Placed

-----------------------------------------------------------------------------
(* A remainder is below the divisor.                                       *)
LEMMA ModType ==
  ASSUME NEW n \in Nat, NEW q \in Nat \ {0}
  PROVE  n % q \in 0 .. q - 1
OBVIOUS

(* A TD that was just taken is a record like any other.                    *)
LEMMA FreshType == Fresh \in TDRecord
BY FrameAssumption DEF Fresh, TDRecord, Null

(* Relinking to the free list changes the link only.                       *)
LEMMA ReturnedIs ==
  ASSUME td \in [TD -> TDRecord], NEW S
  PROVE  /\ Returned(S) \in [TD -> TDRecord]
         /\ \A t \in TD : /\ Returned(S)[t].start = td[t].start /\ Returned(S)[t].req = td[t].req
                          /\ Returned(S)[t].last = td[t].last /\ Returned(S)[t].in = td[t].in
                          /\ Returned(S)[t].copied = td[t].copied
                          /\ t \notin S => Returned(S)[t] = td[t]
BY DEF Returned, TDRecord, Null

(* A request's TDs, in the order of its frames: the tail of the endpoint   *)
(* and all but the last of those that were taken.                          *)
Run(e, n) == <<TransferTail(e)>> \o Taken(n)

(* The TDs of a request: the tail first, and no TD twice.                  *)
LEMMA RunIs ==
  ASSUME IsoInv, NEW e \in Linked, NEW n \in Nat, n <= Cardinality(free)
  PROVE  /\ chain[e] \in Seq(TD) /\ chain[e] # <<>> /\ Distinct(chain[e]) /\ e \in Endpoint
         /\ Taken(n) \in Seq(TD) /\ Len(Taken(n)) = n /\ Distinct(Taken(n))
         /\ ToSet(Taken(n)) \in SUBSET free
         /\ TransferTail(e) \in TD /\ TransferTail(e) \in ToSet(chain[e])
         /\ Run(e, n) \in Seq(TD) /\ Len(Run(e, n)) = n + 1 /\ Distinct(Run(e, n))
         /\ ToSet(Run(e, n)) = {TransferTail(e)} \cup ToSet(Taken(n))
         /\ Run(e, n)[1] = TransferTail(e)
         /\ \A i \in 1 .. n : Run(e, n)[i + 1] = Taken(n)[i]
<1>1. e \in Endpoint
  BY MemberIs DEF IsoInv, IsoTypes, Linked, SeqSet
<1>2. chain[e] \in Seq(TD) /\ chain[e] # <<>> /\ Distinct(chain[e])
  BY <1>1 DEF IsoInv, IsoTypes, Placed, InPlace
<1>3. /\ Taken(n) \in Seq(TD) /\ Len(Taken(n)) = n /\ Distinct(Taken(n))
      /\ ToSet(Taken(n)) \in SUBSET free
  BY TakenIs DEF IsoInv, Placed, InPlace
<1>4. TransferTail(e) \in TD /\ TransferTail(e) \in ToSet(chain[e])
  <2>1. Last(chain[e]) \in TD /\ ToSet(chain[e]) = ToSet(Front(chain[e])) \cup {Last(chain[e])}
    BY <1>2, FrontIs
  <2> QED BY <2>1 DEF TransferTail
<1>5. TransferTail(e) \notin ToSet(Taken(n))
  BY <1>1, <1>3, <1>4 DEF IsoInv, Placed, InPlace
<1> DEFINE x == TransferTail(e)  ts == Taken(n)
<1> HIDE DEF x, ts
<1>6. x \in TD /\ ts \in Seq(TD) /\ Len(ts) = n /\ Distinct(ts) /\ x \notin ToSet(ts)
  BY <1>3, <1>4, <1>5 DEF x, ts
<1>7. /\ <<x>> \o ts \in Seq(TD) /\ Distinct(<<x>> \o ts)
      /\ ToSet(<<x>> \o ts) = {x} \cup ToSet(ts)
  BY <1>6, PushSet
<1>8. /\ Len(<<x>> \o ts) = n + 1 /\ (<<x>> \o ts)[1] = x
      /\ \A i \in 1 .. n : (<<x>> \o ts)[i + 1] = ts[i]
  BY <1>6, PushIs
<1>9. Run(e, n) = <<x>> \o ts
  BY DEF Run, x, ts
<1> HIDE DEF Run
<1>10. /\ Run(e, n) \in Seq(TD) /\ Len(Run(e, n)) = n + 1 /\ Distinct(Run(e, n))
       /\ ToSet(Run(e, n)) = {x} \cup ToSet(ts)
       /\ Run(e, n)[1] = x
       /\ \A i \in 1 .. n : Run(e, n)[i + 1] = ts[i]
  BY <1>7, <1>8, <1>9
<1> QED BY <1>1, <1>2, <1>3, <1>4, <1>10 DEF x, ts

(* What is written to them.                                                *)
FrameRecord(e, s, n, r, k) ==
  [next |-> Run(e, n)[k + 1], start |-> (s + k - 1) % FrameMod, req |-> r,
   last |-> k = n, copied |-> FALSE, in |-> e \in InEndpoint]

(* Writing a request writes its frames, one TD each, and no other TD.      *)
LEMMA DescribedIs ==
  ASSUME IsoInv, NEW e \in Linked, NEW n \in Nat, n <= Cardinality(free), n # 0,
         NEW s \in Nat, NEW r \in Nat
  PROVE  /\ Described(e, s, n, r) \in [TD -> TDRecord]
         /\ \A k \in 1 .. n : Described(e, s, n, r)[Run(e, n)[k]] = FrameRecord(e, s, n, r, k)
         /\ \A t \in TD \ ToSet(Run(e, n)) : Described(e, s, n, r)[t] = td[t]
<1> DEFINE ts == Run(e, n)  new == Described(e, s, n, r)
<1>1. /\ ts \in Seq(TD) /\ Len(ts) = n + 1 /\ Distinct(ts)
      /\ td \in [TD -> TDRecord]
  BY RunIs DEF IsoInv, IsoTypes
<1>2. new = [t \in TD |->
     IF t \in ToSet(Front(ts))
       THEN LET i == CHOOSE k \in 1 .. n : ts[k] = t IN
            [next |-> ts[i + 1], start |-> (s + i - 1) % FrameMod, req |-> r,
             last |-> i = n, copied |-> FALSE, in |-> e \in InEndpoint]
     ELSE IF t = Last(ts) THEN Fresh
     ELSE td[t]]
  BY DEF Described, Run, SeqSet
<1> DEFINE F(k) == [next |-> ts[k + 1], start |-> (s + k - 1) % FrameMod, req |-> r,
                    last |-> k = n, copied |-> FALSE, in |-> e \in InEndpoint]
<1>3. \A k \in 1 .. n : FrameRecord(e, s, n, r, k) = F(k)
  BY DEF FrameRecord
<1> HIDE DEF ts, new
<1>4. /\ ts # <<>> /\ Front(ts) \in Seq(TD) /\ Last(ts) \in TD /\ Len(Front(ts)) = n
      /\ \A i \in 1 .. n : Front(ts)[i] = ts[i]
      /\ ToSet(ts) = ToSet(Front(ts)) \cup {Last(ts)}
      /\ Last(ts) \notin ToSet(Front(ts))
  <2>1. ts # <<>> /\ Len(ts) - 1 = n
    BY <1>1
  <2> QED BY <1>1, <2>1, FrontIs
<1>5. \A t \in ToSet(Front(ts)) : \E k \in 1 .. n : ts[k] = t
  BY <1>4, MemberIs
<1>6. \A j, k \in 1 .. n : ts[j] = ts[k] => j = k
  BY <1>1 DEF Distinct
<1>7. \A k \in 1 .. n : F(k) \in TDRecord
  <2> SUFFICES ASSUME NEW k \in 1 .. n PROVE F(k) \in TDRecord
    OBVIOUS
  <2>1. (s + k - 1) % FrameMod \in 0 .. FrameMod - 1
    <3>1. s + k - 1 \in Nat
      OBVIOUS
    <3> QED BY <3>1, FrameAssumption, ModType
  <2>2. ts[k + 1] \in TD
    BY <1>1
  <2> QED BY <2>1, <2>2 DEF TDRecord
<1>8. ASSUME NEW k \in 1 .. n PROVE new[ts[k]] = F(k)
  <2>1. ts[k] \in ToSet(Front(ts)) /\ ts[k] \in TD
    BY <1>4, MemberIs
  <2>2. (CHOOSE j \in 1 .. n : ts[j] = ts[k]) = k
    BY <1>6
  <2>3. new[ts[k]] = LET i == CHOOSE j \in 1 .. n : ts[j] = ts[k] IN F(i)
    BY <1>2, <2>1
  <2> QED BY <2>2, <2>3
<1>9. ASSUME NEW t \in TD PROVE new[t] \in TDRecord
  <2>1. CASE t \in ToSet(Front(ts))
    <3>1. PICK k \in 1 .. n : ts[k] = t
      BY <2>1, <1>5
    <3> QED BY <3>1, <1>7, <1>8
  <2>2. CASE t \notin ToSet(Front(ts))
    <3>1. new[t] = Fresh \/ new[t] = td[t]
      BY <1>2, <2>2
    <3> QED BY <3>1, <1>1, FreshType
  <2> QED BY <2>1, <2>2
<1>10. new \in [TD -> TDRecord]
  <2>1. new = [t \in TD |-> new[t]]
    BY <1>2
  <2> QED BY <2>1, <1>9
<1>11. \A t \in TD \ ToSet(ts) : new[t] = td[t]
  BY <1>2, <1>4
<1>12. \A k \in 1 .. n : new[ts[k]] = FrameRecord(e, s, n, r, k)
  BY <1>3, <1>8
<1> QED BY <1>10, <1>11, <1>12 DEF ts, new

-----------------------------------------------------------------------------
(* What the filter makes of the done list.                                 *)
Inbound == Among(hcDone, {t \in TD : td[t].in})

(* And the rest of it.                                                     *)
Outbound == Among(hcDone, {t \in TD : ~td[t].in})

(* The filter parts the done list in two, each in the order it had.        *)
LEMMA SortedIs ==
  ASSUME IsoInv
  PROVE  /\ Inbound \in Seq(TD) /\ Outbound \in Seq(TD)
         /\ Distinct(Inbound) /\ Distinct(Outbound)
         /\ ToSet(Inbound) = ToSet(hcDone) \cap {t \in TD : td[t].in}
         /\ ToSet(Outbound) = ToSet(hcDone) \cap {t \in TD : ~td[t].in}
         /\ ToSet(Inbound) \cup ToSet(Outbound) = ToSet(hcDone)
         /\ ToSet(Inbound) \cap ToSet(Outbound) = {}
         /\ \A C : Ordered(hcDone, C) => Ordered(Inbound, C) /\ Ordered(Outbound, C)
<1>1. /\ work \in Seq(TD) /\ done \in Seq(TD) /\ isoIn \in Seq(TD) /\ hcDone \in Seq(TD)
      /\ Distinct(work \o done \o isoIn \o hcDone)
  BY DEF IsoInv, IsoTypes, Placed, InPlace, Line
<1>2. Distinct(hcDone)
  BY <1>1, FourDistinct
<1>3. /\ Inbound \in Seq(TD) /\ ToSet(Inbound) = ToSet(hcDone) \cap {t \in TD : td[t].in}
      /\ \A C : Ordered(hcDone, C) => Ordered(Inbound, C)
      /\ Distinct(hcDone) => Distinct(Inbound)
  BY <1>1, AmongIs DEF Inbound
<1>4. /\ Outbound \in Seq(TD) /\ ToSet(Outbound) = ToSet(hcDone) \cap {t \in TD : ~td[t].in}
      /\ \A C : Ordered(hcDone, C) => Ordered(Outbound, C)
      /\ Distinct(hcDone) => Distinct(Outbound)
  BY <1>1, AmongIs DEF Outbound
<1>5. ToSet(hcDone) \in SUBSET TD
  BY <1>1, MemberIs
<1> QED BY <1>2, <1>3, <1>4, <1>5

(* The four queues of retired TDs, taken one by one.                       *)
LEMMA LineIs ==
  ASSUME IsoInv
  PROVE  /\ work \in Seq(TD) /\ done \in Seq(TD) /\ isoIn \in Seq(TD) /\ hcDone \in Seq(TD)
         /\ Line \in Seq(TD) /\ Retired \in SUBSET TD
         /\ Retired = ToSet(work) \cup ToSet(done) \cup ToSet(isoIn) \cup ToSet(hcDone)
         /\ Distinct(work) /\ Distinct(done) /\ Distinct(isoIn) /\ Distinct(hcDone)
         /\ ToSet(work) \cap ToSet(done) = {} /\ ToSet(work) \cap ToSet(isoIn) = {}
         /\ ToSet(work) \cap ToSet(hcDone) = {} /\ ToSet(done) \cap ToSet(isoIn) = {}
         /\ ToSet(done) \cap ToSet(hcDone) = {} /\ ToSet(isoIn) \cap ToSet(hcDone) = {}
<1>1. work \in Seq(TD) /\ done \in Seq(TD) /\ isoIn \in Seq(TD) /\ hcDone \in Seq(TD)
  BY DEF IsoInv, IsoTypes
<1>2. Distinct(work \o done \o isoIn \o hcDone)
  BY DEF IsoInv, Placed, InPlace, Line
<1>3. /\ work \o done \o isoIn \o hcDone \in Seq(TD)
      /\ ToSet(work \o done \o isoIn \o hcDone)
           = ToSet(work) \cup ToSet(done) \cup ToSet(isoIn) \cup ToSet(hcDone)
  BY <1>1, FourIs
<1>4. Line \in Seq(TD) /\ Retired = ToSet(work) \cup ToSet(done) \cup ToSet(isoIn) \cup ToSet(hcDone)
  BY <1>3 DEF Line, Retired, SeqSet
<1>5. /\ Distinct(work) /\ Distinct(done) /\ Distinct(isoIn) /\ Distinct(hcDone)
      /\ ToSet(work) \cap ToSet(done) = {} /\ ToSet(work) \cap ToSet(isoIn) = {}
      /\ ToSet(work) \cap ToSet(hcDone) = {} /\ ToSet(done) \cap ToSet(isoIn) = {}
      /\ ToSet(done) \cap ToSet(hcDone) = {} /\ ToSet(isoIn) \cap ToSet(hcDone) = {}
  BY <1>1, <1>2, FourDistinct
<1>6. Retired \in SUBSET TD
  BY <1>1, <1>4, MemberIs
<1> QED BY <1>1, <1>4, <1>5, <1>6

(* The line after the filter has sorted the done list: the same TDs.       *)
LEMMA FilterLine ==
  ASSUME IsoInv, FilterInterrupt
  PROVE  /\ Line' = work \o (Outbound \o done) \o (Inbound \o isoIn) \o <<>>
         /\ Line' \in Seq(TD) /\ Distinct(Line') /\ ToSet(Line') = ToSet(Line)
         /\ done' \in Seq(TD) /\ isoIn' \in Seq(TD) /\ hcDone' \in Seq(TD) /\ work' \in Seq(TD)
<1>1. /\ done' = Outbound \o done /\ isoIn' = Inbound \o isoIn
      /\ hcDone' = <<>> /\ work' = work
  BY DEF FilterInterrupt, InOrder, Inbound, Outbound
<1>2. Line' = work \o (Outbound \o done) \o (Inbound \o isoIn) \o <<>>
  BY <1>1 DEF Line
<1> DEFINE o == Outbound  n == Inbound
<1>3. /\ n \in Seq(TD) /\ o \in Seq(TD) /\ Distinct(n) /\ Distinct(o)
      /\ ToSet(n) \cup ToSet(o) = ToSet(hcDone) /\ ToSet(n) \cap ToSet(o) = {}
  BY SortedIs
<1> HIDE DEF o, n
<1>4. /\ work \in Seq(TD) /\ done \in Seq(TD) /\ isoIn \in Seq(TD) /\ hcDone \in Seq(TD)
      /\ Distinct(work) /\ Distinct(done) /\ Distinct(isoIn)
      /\ ToSet(work) \cap ToSet(done) = {} /\ ToSet(work) \cap ToSet(isoIn) = {}
      /\ ToSet(work) \cap ToSet(hcDone) = {} /\ ToSet(done) \cap ToSet(isoIn) = {}
      /\ ToSet(done) \cap ToSet(hcDone) = {} /\ ToSet(isoIn) \cap ToSet(hcDone) = {}
      /\ Retired = ToSet(work) \cup ToSet(done) \cup ToSet(isoIn) \cup ToSet(hcDone)
  BY LineIs
<1>5. /\ o \o done \in Seq(TD) /\ ToSet(o \o done) = ToSet(o) \cup ToSet(done)
      /\ (Distinct(o) /\ Distinct(done) /\ ToSet(o) \cap ToSet(done) = {}) => Distinct(o \o done)
  BY <1>3, <1>4, JoinSet
<1>6. /\ n \o isoIn \in Seq(TD) /\ ToSet(n \o isoIn) = ToSet(n) \cup ToSet(isoIn)
      /\ (Distinct(n) /\ Distinct(isoIn) /\ ToSet(n) \cap ToSet(isoIn) = {}) => Distinct(n \o isoIn)
  BY <1>3, <1>4, JoinSet
<1>7. <<>> \in Seq(TD) /\ ToSet(<<>>) = {} /\ Distinct(<<>>)
  BY DEF ToSet, Distinct
<1>8. Distinct(o \o done) /\ Distinct(n \o isoIn)
  BY <1>3, <1>4, <1>5, <1>6
<1>9. /\ ToSet(work) \cap ToSet(o \o done) = {} /\ ToSet(work) \cap ToSet(n \o isoIn) = {}
      /\ ToSet(o \o done) \cap ToSet(n \o isoIn) = {}
  BY <1>3, <1>4, <1>5, <1>6
<1> DEFINE p == o \o done  q == n \o isoIn  z == <<>>
<1>13. /\ p \in Seq(TD) /\ q \in Seq(TD) /\ z \in Seq(TD) /\ work \in Seq(TD)
       /\ Distinct(work) /\ Distinct(p) /\ Distinct(q) /\ Distinct(z)
       /\ ToSet(work) \cap ToSet(p) = {} /\ ToSet(work) \cap ToSet(q) = {}
       /\ ToSet(p) \cap ToSet(q) = {} /\ ToSet(z) = {}
  BY <1>4, <1>5, <1>6, <1>7, <1>8, <1>9
<1>10. /\ work \o p \o q \o z \in Seq(TD)
       /\ ToSet(work \o p \o q \o z) = ToSet(work) \cup ToSet(p) \cup ToSet(q) \cup ToSet(z)
  <2> HIDE DEF p, q, z
  <2> QED BY <1>13, FourIs
<1>11. Distinct(work \o p \o q \o z)
  <2> HIDE DEF p, q, z
  <2>1. /\ ToSet(work) \cap ToSet(z) = {} /\ ToSet(p) \cap ToSet(z) = {}
        /\ ToSet(q) \cap ToSet(z) = {}
    BY <1>13
  <2>2. Distinct(work \o p \o q \o z) <=>
           /\ Distinct(work) /\ Distinct(p) /\ Distinct(q) /\ Distinct(z)
           /\ ToSet(work) \cap ToSet(p) = {} /\ ToSet(work) \cap ToSet(q) = {}
           /\ ToSet(work) \cap ToSet(z) = {} /\ ToSet(p) \cap ToSet(q) = {}
           /\ ToSet(p) \cap ToSet(z) = {} /\ ToSet(q) \cap ToSet(z) = {}
    BY <1>13, FourDistinct
  <2> QED BY <1>13, <2>1, <2>2
<1>12. ToSet(work \o (o \o done) \o (n \o isoIn) \o <<>>) = Retired
  BY <1>3, <1>4, <1>5, <1>6, <1>7, <1>10
<1> QED BY <1>1, <1>2, <1>4, <1>5, <1>6, <1>7, <1>10, <1>11, <1>12 DEF o, n, Retired, SeqSet

(* The line after the timer has emptied its queue: the same TDs.           *)
LEMMA TimerLine ==
  ASSUME IsoInv, IsoInTimer
  PROVE  /\ Line' = work \o (isoIn \o done) \o <<>> \o hcDone
         /\ Line' \in Seq(TD) /\ Distinct(Line') /\ ToSet(Line') = ToSet(Line)
         /\ done' \in Seq(TD) /\ isoIn' \in Seq(TD) /\ hcDone' \in Seq(TD) /\ work' \in Seq(TD)
<1>1. done' = isoIn \o done /\ isoIn' = <<>> /\ hcDone' = hcDone /\ work' = work
  BY DEF IsoInTimer
<1>2. Line' = work \o (isoIn \o done) \o <<>> \o hcDone
  BY <1>1 DEF Line
<1>4. /\ work \in Seq(TD) /\ done \in Seq(TD) /\ isoIn \in Seq(TD) /\ hcDone \in Seq(TD)
      /\ Distinct(work) /\ Distinct(done) /\ Distinct(isoIn) /\ Distinct(hcDone)
      /\ ToSet(work) \cap ToSet(done) = {} /\ ToSet(work) \cap ToSet(isoIn) = {}
      /\ ToSet(work) \cap ToSet(hcDone) = {} /\ ToSet(done) \cap ToSet(isoIn) = {}
      /\ ToSet(done) \cap ToSet(hcDone) = {} /\ ToSet(isoIn) \cap ToSet(hcDone) = {}
      /\ Retired = ToSet(work) \cup ToSet(done) \cup ToSet(isoIn) \cup ToSet(hcDone)
  BY LineIs
<1>5. /\ isoIn \o done \in Seq(TD) /\ ToSet(isoIn \o done) = ToSet(isoIn) \cup ToSet(done)
      /\ (Distinct(isoIn) /\ Distinct(done) /\ ToSet(isoIn) \cap ToSet(done) = {}) => Distinct(isoIn \o done)
  BY <1>4, JoinSet
<1>7. <<>> \in Seq(TD) /\ ToSet(<<>>) = {} /\ Distinct(<<>>)
  BY DEF ToSet, Distinct
<1>9. /\ Distinct(isoIn \o done) /\ ToSet(work) \cap ToSet(isoIn \o done) = {}
      /\ ToSet(isoIn \o done) \cap ToSet(hcDone) = {}
  BY <1>4, <1>5
<1> DEFINE p == isoIn \o done  z == <<>>
<1>13. /\ p \in Seq(TD) /\ z \in Seq(TD) /\ work \in Seq(TD) /\ hcDone \in Seq(TD)
       /\ Distinct(work) /\ Distinct(p) /\ Distinct(hcDone) /\ Distinct(z)
       /\ ToSet(work) \cap ToSet(p) = {} /\ ToSet(work) \cap ToSet(hcDone) = {}
       /\ ToSet(p) \cap ToSet(hcDone) = {} /\ ToSet(z) = {}
  BY <1>4, <1>5, <1>7, <1>9
<1>10. /\ work \o p \o z \o hcDone \in Seq(TD)
       /\ ToSet(work \o p \o z \o hcDone) = ToSet(work) \cup ToSet(p) \cup ToSet(z) \cup ToSet(hcDone)
  <2> HIDE DEF p, z
  <2> QED BY <1>13, FourIs
<1>11. Distinct(work \o p \o z \o hcDone)
  <2> HIDE DEF p, z
  <2>1. /\ ToSet(work) \cap ToSet(z) = {} /\ ToSet(p) \cap ToSet(z) = {}
        /\ ToSet(z) \cap ToSet(hcDone) = {}
    BY <1>13
  <2> QED BY ONLY <2>1, <1>13, FourDistinct
<1>12. ToSet(work \o (isoIn \o done) \o <<>> \o hcDone) = Retired
  BY <1>4, <1>5, <1>7, <1>10
<1> QED BY <1>1, <1>2, <1>4, <1>5, <1>7, <1>10, <1>11, <1>12 DEF Retired, SeqSet

(* The line after the workloop has taken the queue: as it was.             *)
LEMMA HandlerLine ==
  ASSUME IsoInv, HandleInterrupt
  PROVE  /\ Line' = Line
         /\ done' \in Seq(TD) /\ isoIn' \in Seq(TD) /\ hcDone' \in Seq(TD) /\ work' \in Seq(TD)
<1>1. work = <<>> /\ work' = done /\ done' = <<>> /\ isoIn' = isoIn /\ hcDone' = hcDone
  BY DEF HandleInterrupt, Gated
<1>2. done \in Seq(TD) /\ isoIn \in Seq(TD) /\ hcDone \in Seq(TD)
  BY LineIs
<1>3. done \o <<>> = done /\ <<>> \o done = done /\ <<>> \in Seq(TD)
  BY <1>2
<1> QED BY <1>1, <1>2, <1>3 DEF Line

(* The line after the workloop has finished with its first TD.             *)
LEMMA CompleteLine ==
  ASSUME IsoInv, Complete
  PROVE  /\ Line # <<>> /\ Head(Line) = Head(work) /\ Line' = Tail(Line)
         /\ done' \in Seq(TD) /\ isoIn' \in Seq(TD) /\ hcDone' \in Seq(TD) /\ work' \in Seq(TD)
<1>1. work # <<>> /\ work' = Tail(work) /\ done' = done /\ isoIn' = isoIn /\ hcDone' = hcDone
  BY DEF Complete
<1>2. work \in Seq(TD) /\ done \in Seq(TD) /\ isoIn \in Seq(TD) /\ hcDone \in Seq(TD)
  BY LineIs
<1>3. ASSUME NEW a \in Seq(TD), NEW b \in Seq(TD), a # <<>>
      PROVE  /\ a \o b \in Seq(TD) /\ a \o b # <<>> /\ Head(a \o b) = Head(a)
             /\ Tail(a \o b) = Tail(a) \o b
  <2> DEFINE x == Head(a)  c == Tail(a)
  <2>1. x \in TD /\ c \in Seq(TD) /\ a = <<x>> \o c
    BY <1>3
  <2> HIDE DEF x, c
  <2>2. c \o b \in Seq(TD) /\ a \o b = <<x>> \o (c \o b)
    BY <2>1
  <2>3. <<x>> \o (c \o b) # <<>> /\ Head(<<x>> \o (c \o b)) = x /\ Tail(<<x>> \o (c \o b)) = c \o b
    BY <2>2, PushSet
  <2> QED BY <2>1, <2>2, <2>3 DEF x, c
<1>4. /\ work \o done \in Seq(TD) /\ work \o done # <<>> /\ Head(work \o done) = Head(work)
      /\ Tail(work \o done) = Tail(work) \o done
  BY <1>1, <1>2, <1>3
<1>5. /\ work \o done \o isoIn \in Seq(TD) /\ work \o done \o isoIn # <<>>
      /\ Head(work \o done \o isoIn) = Head(work)
      /\ Tail(work \o done \o isoIn) = Tail(work) \o done \o isoIn
  <2> DEFINE p == work \o done
  <2>1. p \in Seq(TD) /\ p # <<>> /\ Head(p) = Head(work) /\ Tail(p) = Tail(work) \o done
    BY <1>4
  <2> HIDE DEF p
  <2>2. /\ p \o isoIn \in Seq(TD) /\ p \o isoIn # <<>>
        /\ Head(p \o isoIn) = Head(p) /\ Tail(p \o isoIn) = Tail(p) \o isoIn
    BY <2>1, <1>2, <1>3
  <2> QED BY <2>1, <2>2 DEF p
<1>6. /\ work \o done \o isoIn \o hcDone # <<>>
      /\ Head(work \o done \o isoIn \o hcDone) = Head(work)
      /\ Tail(work \o done \o isoIn \o hcDone) = Tail(work) \o done \o isoIn \o hcDone
  <2> DEFINE p == work \o done \o isoIn
  <2>1. p \in Seq(TD) /\ p # <<>> /\ Head(p) = Head(work) /\ Tail(p) = Tail(work) \o done \o isoIn
    BY <1>5
  <2> HIDE DEF p
  <2>2. p \o hcDone # <<>> /\ Head(p \o hcDone) = Head(p) /\ Tail(p \o hcDone) = Tail(p) \o hcDone
    BY <2>1, <1>2, <1>3
  <2> QED BY <2>1, <2>2 DEF p
<1>7. Tail(work) \in Seq(TD)
  BY <1>1, <1>2
<1> QED BY <1>1, <1>2, <1>6, <1>7 DEF Line

-----------------------------------------------------------------------------
(* The controller's step: the endpoints it serves, and what it retires.    *)
NextFrame == (frame + 1) % FrameMod

(* The endpoints whose head is due.                                        *)
DueEndpoints == {e \in Linked : Due(e, NextFrame)}

(* The same in the order of the list.                                      *)
DueList == Among(list, DueEndpoints)

(* The TDs that are retired.                                               *)
Now == [i \in DOMAIN DueList |-> Head(chain[DueList[i]])]

(* What a frame retires: the heads of the endpoints that are due, each     *)
(* once, in the order of the list.                                         *)
LEMMA FrameIs ==
  ASSUME IsoInv, Frame
  PROVE  /\ NextFrame \in 0 .. FrameMod - 1 /\ frame' = NextFrame
         /\ DueEndpoints \in SUBSET Endpoint
         /\ \A e \in DueEndpoints :
              /\ e \in Linked /\ Due(e, NextFrame)
              /\ chain[e] \in Seq(TD) /\ Distinct(chain[e]) /\ Len(chain[e]) >= 2
         /\ Now \in Seq(TD) /\ Distinct(Now) /\ ToSet(Now) = {Head(chain[e]) : e \in DueEndpoints}
         /\ Len(Now) = Len(DueList)
         /\ \A i \in 1 .. Len(Now) : Now[i] = Head(chain[DueList[i]]) /\ DueList[i] \in DueEndpoints
         /\ DueList \in Seq(Endpoint) /\ Distinct(DueList)
         /\ chain' = Shortened(chain, DueEndpoints)
         /\ hcDone' = hcDone \o Now /\ isoIn' = isoIn /\ done' = done /\ work' = work
         /\ Line' = Line \o Now
<1>1. list \in Seq(Endpoint) /\ Distinct(list) /\ chain \in [Endpoint -> Seq(TD)]
  BY DEF IsoInv, IsoTypes, Placed, InPlace
<1>2. /\ DueList \in Seq(Endpoint) /\ Distinct(DueList) /\ ToSet(DueList) = DueEndpoints
  <2>1. /\ DueList \in Seq(Endpoint) /\ ToSet(DueList) = ToSet(list) \cap DueEndpoints
        /\ Distinct(list) => Distinct(DueList)
    BY <1>1, AmongIs DEF DueList
  <2>2. DueEndpoints \in SUBSET ToSet(list)
    BY DEF DueEndpoints, Linked, SeqSet
  <2> QED BY <1>1, <2>1, <2>2
<1>3. DueEndpoints \in SUBSET Endpoint
  BY <1>2, MemberIs
<1>4. ASSUME NEW e \in DueEndpoints
      PROVE  /\ e \in Linked /\ Due(e, NextFrame)
             /\ chain[e] \in Seq(TD) /\ Distinct(chain[e]) /\ Len(chain[e]) >= 2
  <2>1. e \in Linked /\ Due(e, NextFrame) /\ e \in Endpoint
    BY <1>3 DEF DueEndpoints
  <2>2. chain[e] \in Seq(TD) /\ Distinct(chain[e]) /\ chain[e] # <<>>
    BY <2>1, <1>1 DEF IsoInv, Placed, InPlace, IsoTypes
  <2>3. Front(chain[e]) # <<>>
    BY <2>1 DEF Due, Queued
  <2>4. /\ Front(chain[e]) \in Seq(TD) /\ Len(Front(chain[e])) = Len(chain[e]) - 1
    BY <2>2, FrontIs
  <2>5. Len(Front(chain[e])) # 0
    BY <2>3, <2>4, EmptySeq
  <2>6. PICK k \in Nat : k = Len(Front(chain[e]))
    BY <2>4, LengthIs
  <2>7. PICK j \in Nat : j = Len(chain[e])
    BY <2>2, LengthIs
  <2>8. k # 0 /\ k = j - 1
    BY <2>4, <2>5, <2>6, <2>7
  <2>9. j >= 2
    BY <2>8
  <2>10. Len(chain[e]) >= 2
    BY <2>7, <2>9
  <2> QED BY <2>1, <2>2, <2>10
<1>5. PICK n \in Nat : n = Len(DueList)
  BY <1>2, LengthIs
<1>6. /\ DOMAIN DueList = 1 .. n
      /\ \A i \in 1 .. n : DueList[i] \in DueEndpoints
  BY <1>2, <1>5, MemberIs
<1>7. \A e \in DueEndpoints : Head(chain[e]) \in TD /\ Head(chain[e]) \in ToSet(chain[e])
  <2> SUFFICES ASSUME NEW e \in DueEndpoints
               PROVE  Head(chain[e]) \in TD /\ Head(chain[e]) \in ToSet(chain[e])
    OBVIOUS
  <2>1. chain[e] \in Seq(TD) /\ chain[e] # <<>>
    BY <1>4
  <2>2. Head(chain[e]) \in TD /\ ToSet(chain[e]) = {Head(chain[e])} \cup ToSet(Tail(chain[e]))
    BY <2>1, TailSet
  <2> QED BY <2>2
<1>8. Now \in [1 .. n -> TD] /\ \A i \in 1 .. n : Now[i] = Head(chain[DueList[i]])
  BY <1>6, <1>7 DEF Now
<1>9. Now \in Seq(TD) /\ Len(Now) = n
  <2> DEFINE w == Now
  <2>1. w \in [1 .. n -> TD]
    BY <1>8
  <2> HIDE DEF w
  <2>2. w \in Seq(TD) /\ Len(w) = n
    BY <2>1
  <2> QED BY <2>2 DEF w
<1>10. Distinct(Now)
  <2> SUFFICES ASSUME NEW i \in 1 .. n, NEW j \in 1 .. n, Now[i] = Now[j] PROVE i = j
    BY <1>9 DEF Distinct
  <2>1. /\ DueList[i] \in DueEndpoints /\ DueList[j] \in DueEndpoints
        /\ Head(chain[DueList[i]]) = Head(chain[DueList[j]])
    BY <1>6, <1>8
  <2>2. Head(chain[DueList[i]]) \in ToSet(chain[DueList[i]]) \cap ToSet(chain[DueList[j]])
    BY <2>1, <1>7
  <2>3. DueList[i] = DueList[j]
    BY <2>1, <2>2, <1>3 DEF IsoInv, Placed, InPlace
  <2> QED BY <2>3, <1>2, <1>5 DEF Distinct
<1>11. ToSet(Now) = {Head(chain[e]) : e \in DueEndpoints}
  <2>1. \A x \in ToSet(Now) : \E i \in 1 .. n : Now[i] = x
    BY <1>9, MemberIs
  <2>2. \A i \in 1 .. n : Now[i] \in ToSet(Now)
    BY <1>9, MemberIs
  <2>3. \A e \in DueEndpoints : \E i \in 1 .. n : DueList[i] = e
    BY <1>2, <1>5, MemberIs
  <2>4. ASSUME NEW x \in ToSet(Now) PROVE x \in {Head(chain[e]) : e \in DueEndpoints}
    BY <2>1, <1>6, <1>8
  <2>5. ASSUME NEW e \in DueEndpoints PROVE Head(chain[e]) \in ToSet(Now)
    <3>1. PICK i \in 1 .. n : DueList[i] = e
      BY <2>3
    <3>2. Now[i] = Head(chain[e])
      BY <3>1, <1>8
    <3> QED BY <3>2, <2>2
  <2> QED BY <2>4, <2>5
<1>12. /\ frame' = NextFrame /\ hcDone' = hcDone \o Now
       /\ isoIn' = isoIn /\ done' = done /\ work' = work
  BY DEF Frame, NextFrame, Now, DueList, DueEndpoints, lists
<1>13. chain' = Shortened(chain, DueEndpoints)
  <2>1. chain' = [e \in Endpoint |-> IF e \in ToSet(DueList) THEN Tail(chain[e]) ELSE chain[e]]
    BY DEF Frame, NextFrame, DueList, DueEndpoints, SeqSet
  <2> QED BY <2>1, <1>2 DEF Shortened
<1>14. NextFrame \in 0 .. FrameMod - 1
  <2>1. frame + 1 \in Nat
    BY DEF IsoInv, IsoTypes
  <2> QED BY <2>1, FrameAssumption, ModType DEF NextFrame
<1>15. Line' = Line \o Now
  <2>1. /\ work \o done \o isoIn \in Seq(TD) /\ hcDone \in Seq(TD)
    <3>1. work \in Seq(TD) /\ done \in Seq(TD) /\ isoIn \in Seq(TD) /\ hcDone \in Seq(TD)
      BY LineIs
    <3> QED BY <3>1
  <2> DEFINE p == work \o done \o isoIn  w == Now
  <2> HIDE DEF p, w
  <2>2. p \o (hcDone \o w) = (p \o hcDone) \o w
    BY <2>1, <1>9 DEF p, w
  <2> QED BY <2>2, <1>12 DEF Line, p, w
<1> QED BY <1>2, <1>3, <1>4, <1>5, <1>6, <1>8, <1>9, <1>10, <1>11, <1>12, <1>13, <1>14, <1>15

(* A removal begins; it waits with the gate held.                          *)
LEMMA BeginKeeps ==
  ASSUME IsoInv, NEW kind \in {"abort", "delete"}, NEW e \in Endpoint, Begin(kind, e)
  PROVE  IsoInv'
<1>1. /\ e \in Linked /\ gate' = [kind |-> kind, e |-> e, frames |-> 0]
      /\ UNCHANGED <<frame, list, chain, inOn, td, free, leaked, hcDone, isoIn, done, work,
                     walk, callback, asked>>
      /\ kind = "delete" => isoOn' = FALSE
      /\ kind # "delete" => isoOn' = isoOn /\ outOn' = outOn
      /\ gate.kind = "none"
  BY DEF Begin, tdVars, lists, reqVars, Gated
<1>2. Line' = Line /\ Linked' = Linked
  BY <1>1 DEF Line, Linked, SeqSet
<1>3. Placed'
  BY <1>1, <1>2 DEF IsoInv, Placed
<1>4. gate' \in [kind : {"none", "abort", "delete"}, e : Endpoint \cup {1}, frames : Nat] /\ gate'.kind = kind /\ gate'.e = e
  BY <1>1
<1>5. IsoTypes'
  <2> HIDE DEF IsoInv
  <2>1. IsoTypes
    BY DEF IsoInv
  <2> QED BY <2>1, <1>1, <1>2, <1>4 DEF IsoTypes
<1>6. Timers'
  BY <1>1, <1>4 DEF Timers, IsoInv
<1> QED BY <1>3, <1>5, <1>6 DEF IsoInv

(* A callback returns.                                                     *)
LEMMA CallbackKeeps ==
  ASSUME IsoInv, CallbackReturns
  PROVE  IsoInv'
<1>1. /\ callback' = {}
      /\ UNCHANGED <<frame, list, chain, inOn, outOn, isoOn, td, free, leaked, hcDone, isoIn,
                     done, work, walk, gate, asked>>
  BY DEF CallbackReturns, tdVars, lists, epVars, reqVars
<1>2. Line' = Line /\ Linked' = Linked
  BY <1>1 DEF Line, Linked, SeqSet
<1>3. Placed'
  BY <1>1, <1>2 DEF IsoInv, Placed
<1>5. IsoTypes'
  BY <1>1, <1>2 DEF IsoInv, IsoTypes
<1>6. Timers'
  BY <1>1 DEF Timers, IsoInv
<1> QED BY <1>3, <1>5, <1>6 DEF IsoInv

(* The walk of handleIsoOutTimer begins at the head of the first endpoint. *)
LEMMA WalkBeginsIs ==
  ASSUME IsoInv, WalkBegins
  PROVE  /\ walk'.to = list /\ walk'.old = FALSE /\ walk'.t = Head(chain[Head(list)])
         /\ list # <<>> /\ Head(list) \in Linked /\ chain[Head(list)] # <<>>
         /\ walk'.t \in TD
         /\ walk' \in [to : Seq(Endpoint), t : TD \cup {Null}, old : BOOLEAN]
         /\ walk.to = <<>> /\ ~walked
<1>1. list \in Seq(Endpoint) /\ outOn /\ walk.to = <<>> /\ ~walked /\ Busy
  BY DEF IsoInv, IsoTypes, WalkBegins
<1>2. list # <<>>
  BY <1>1 DEF Busy, Linked, SeqSet, ToSet
<1>3. Head(list) \in Endpoint /\ Head(list) \in ToSet(list)
  BY <1>1, <1>2, TailSet
<1>4. chain[Head(list)] # <<>> /\ chain[Head(list)] \in Seq(TD)
  BY <1>3 DEF IsoInv, IsoTypes, Linked, SeqSet, Placed, InPlace
<1>5. Head(chain[Head(list)]) \in TD
  BY <1>4, TailSet
<1>6. walk' = [to |-> list, t |-> Head(chain[Head(list)]), old |-> FALSE]
  BY DEF WalkBegins
<1>7. walk' \in [to : Seq(Endpoint), t : TD \cup {Null}, old : BOOLEAN]
  <2> DEFINE x == Head(chain[Head(list)])
  <2> HIDE DEF x
  <2>1. walk' = [to |-> list, t |-> x, old |-> FALSE] /\ x \in TD
    BY <1>5, <1>6 DEF x
  <2> QED BY <2>1, <1>1
<1> QED BY <1>1, <1>2, <1>3, <1>4, <1>5, <1>6, <1>7 DEF Linked, SeqSet

(* The walk begins: IsoInv.                                                *)
LEMMA WalkBeginsKeeps ==
  ASSUME IsoInv, WalkBegins
  PROVE  IsoInv'
<1>1. UNCHANGED <<frame, list, chain, inOn, outOn, isoOn, td, free, leaked, hcDone, isoIn,
                  done, work, callback, gate, asked>>
  BY DEF WalkBegins, tdVars, lists, epVars, reqVars
<1>2. Line' = Line /\ Linked' = Linked
  BY <1>1 DEF Line, Linked, SeqSet
<1>3. Placed'
  BY <1>1, <1>2 DEF IsoInv, Placed
<1>4. /\ walk' \in [to : Seq(Endpoint), t : TD \cup {Null}, old : BOOLEAN]
      /\ ToSet(walk'.to) \subseteq Linked /\ walk'.t \in TD
  BY WalkBeginsIs DEF Linked, SeqSet
<1>5. IsoTypes'
  BY <1>1, <1>2, <1>4 DEF IsoInv, IsoTypes
<1>6. Timers'
  BY <1>1 DEF Timers, IsoInv
<1> QED BY <1>3, <1>5, <1>6 DEF IsoInv

(* At a TD the walk writes no more than that its data was copied.          *)
LEMMA WalkTDIs ==
  ASSUME IsoInv, WalkTD
  PROVE  /\ td' \in [TD -> TDRecord]
         /\ \A t \in TD : /\ td'[t].next = td[t].next /\ td'[t].start = td[t].start
                          /\ td'[t].req = td[t].req /\ td'[t].last = td[t].last
                          /\ td'[t].in = td[t].in
                          /\ td'[t].copied = td[t].copied \/ td'[t].copied = TRUE
         /\ walk.to # <<>> /\ walk.t \in TD
         /\ (~td[walk.t].in /\ ~td[walk.t].copied /\ Soon(walk.t))
              => td'[walk.t].copied = TRUE
         /\ walk.t # TransferTail(Head(walk.to))
         /\ walk' \in [to : Seq(Endpoint), t : TD \cup {Null}, old : BOOLEAN]
         /\ walk'.to = walk.to /\ walk'.old = walk.old /\ walk'.t \in TD
         /\ td[walk.t].next # Null => walk'.t = td[walk.t].next
<1>1. /\ td \in [TD -> TDRecord] /\ walk \in [to : Seq(Endpoint), t : TD \cup {Null}, old : BOOLEAN]
      /\ walk.to # <<>> /\ walk.t \in TD /\ walk.t # TransferTail(Head(walk.to))
  BY DEF IsoInv, IsoTypes, WalkTD
<1> DEFINE w == walk.t
<1>2. /\ td' = IF ~td[w].in /\ ~td[w].copied /\ Soon(w)
                 THEN [td EXCEPT ![w].copied = TRUE] ELSE td
      /\ walk' = IF td[w].next = Null THEN walk ELSE [walk EXCEPT !.t = td[w].next]
  BY DEF WalkTD
<1>3. td[w] \in TDRecord /\ w \in TD
  BY <1>1
<1> HIDE DEF w
<1>4. td' = td \/ td' = [td EXCEPT ![w].copied = TRUE]
  BY <1>2
<1>5. [td[w] EXCEPT !.copied = TRUE] \in TDRecord
  BY <1>3 DEF TDRecord
<1>6. td' \in [TD -> TDRecord]
  <2>1. CASE td' = [td EXCEPT ![w].copied = TRUE]
    <3>1. td' = [td EXCEPT ![w] = [td[w] EXCEPT !.copied = TRUE]]
      BY <2>1
    <3> QED BY <3>1, <1>1, <1>5
  <2> QED BY <2>1, <1>1, <1>4
<1>7. ASSUME NEW t \in TD
      PROVE  /\ td'[t].next = td[t].next /\ td'[t].start = td[t].start
             /\ td'[t].req = td[t].req /\ td'[t].last = td[t].last
             /\ td'[t].in = td[t].in
             /\ td'[t].copied = td[t].copied \/ td'[t].copied = TRUE
  <2>1. td[t] \in TDRecord
    BY <1>1
  <2> QED BY <2>1, <1>1, <1>4 DEF TDRecord
<1>8. (~td[w].in /\ ~td[w].copied /\ Soon(w)) => td'[w].copied = TRUE
  BY <1>1, <1>2, <1>3 DEF TDRecord
<1>9. td[w].next \in TD \cup {Null}
  BY <1>3 DEF TDRecord
<1>10. /\ walk' \in [to : Seq(Endpoint), t : TD \cup {Null}, old : BOOLEAN]
       /\ walk'.to = walk.to /\ walk'.old = walk.old /\ walk'.t \in TD
       /\ td[w].next # Null => walk'.t = td[w].next
  <2>1. CASE td[w].next = Null
    BY <2>1, <1>1, <1>2
  <2>2. CASE td[w].next # Null
    BY <2>2, <1>1, <1>2, <1>9
  <2> QED BY <2>1, <2>2
<1> QED BY <1>1, <1>6, <1>7, <1>8, <1>10 DEF w

(* The walk goes on to the next TD: IsoInv.                                *)
LEMMA WalkTDKeeps ==
  ASSUME IsoInv, WalkTD
  PROVE  IsoInv'
<1>1. UNCHANGED <<frame, list, chain, inOn, outOn, isoOn, free, leaked, hcDone, isoIn,
                  done, work, callback, gate, asked>>
  BY DEF WalkTD, lists, epVars, reqVars
<1>2. Line' = Line /\ Linked' = Linked
  BY <1>1 DEF Line, Linked, SeqSet
<1>3. Placed'
  BY <1>1, <1>2 DEF IsoInv, Placed
<1>4. /\ walk' \in [to : Seq(Endpoint), t : TD \cup {Null}, old : BOOLEAN]
      /\ walk'.to = walk.to /\ walk'.t \in TD /\ td' \in [TD -> TDRecord]
  BY WalkTDIs
<1>5. IsoTypes'
  BY <1>1, <1>2, <1>4 DEF IsoInv, IsoTypes
<1>6. Timers'
  BY <1>1 DEF Timers, IsoInv
<1> QED BY <1>3, <1>5, <1>6 DEF IsoInv

(* At a tail the walk goes on to the head of the next endpoint.            *)
LEMMA WalkEndpointIs ==
  ASSUME IsoInv, WalkEndpoint
  PROVE  /\ walk.to # <<>> /\ walk.t = TransferTail(Head(walk.to))
         /\ walk.to \in Seq(Endpoint) /\ Head(walk.to) \in Linked
         /\ \/ Tail(walk.to) = <<>> /\ walk' = NoWalk /\ walked' = ~walk.old
            \/ /\ Tail(walk.to) # <<>> /\ walked' = walked
               /\ walk'.to = Tail(walk.to) /\ walk'.old = walk.old
               /\ walk'.t = Head(chain[Head(Tail(walk.to))])
               /\ Head(Tail(walk.to)) \in Linked
         /\ walk' \in [to : Seq(Endpoint), t : TD \cup {Null}, old : BOOLEAN]
         /\ ToSet(walk'.to) \subseteq Linked /\ (walk'.to # <<>> => walk'.t \in TD)
<1>1. /\ walk.to # <<>> /\ walk.t = TransferTail(Head(walk.to))
      /\ walk \in [to : Seq(Endpoint), t : TD \cup {Null}, old : BOOLEAN]
      /\ ToSet(walk.to) \subseteq Linked
  BY DEF WalkEndpoint, IsoInv, IsoTypes
<1> DEFINE rest == Tail(walk.to)
<1>2. /\ Head(walk.to) \in Endpoint /\ rest \in Seq(Endpoint)
      /\ ToSet(walk.to) = {Head(walk.to)} \cup ToSet(rest)
  BY <1>1, TailSet
<1>3. CASE rest = <<>>
  <2>1. walk' = NoWalk /\ walked' = ~walk.old
    BY <1>3 DEF WalkEndpoint
  <2>2. NoWalk \in [to : Seq(Endpoint), t : TD \cup {Null}, old : BOOLEAN] /\ NoWalk.to = <<>>
    BY DEF NoWalk
  <2>3. ToSet(<<>>) = {}
    BY DEF ToSet
  <2> QED BY <2>1, <2>2, <2>3, <1>1, <1>2, <1>3
<1>4. CASE rest # <<>>
  <2>1. Head(rest) \in Endpoint /\ Head(rest) \in ToSet(rest)
    <3> HIDE DEF rest
    <3> QED BY <1>2, <1>4, TailSet
  <2>2. Head(rest) \in Linked /\ Head(rest) \in Endpoint
    BY <1>1, <1>2, <2>1
  <2>3. chain[Head(rest)] # <<>> /\ chain[Head(rest)] \in Seq(TD)
    BY <2>2 DEF IsoInv, IsoTypes, Placed, InPlace
  <2>4. Head(chain[Head(rest)]) \in TD
    BY <2>3, TailSet
  <2>5. walk' = [walk EXCEPT !.to = rest, !.t = Head(chain[Head(rest)])] /\ walked' = walked
    BY <1>4 DEF WalkEndpoint
  <2> HIDE DEF rest
  <2>6. /\ walk'.to = rest /\ walk'.old = walk.old /\ walk'.t = Head(chain[Head(rest)])
        /\ walk' \in [to : Seq(Endpoint), t : TD \cup {Null}, old : BOOLEAN]
    BY <2>4, <2>5, <1>1, <1>2
  <2> QED BY <2>2, <2>4, <2>5, <2>6, <1>1, <1>2, <1>4 DEF rest
<1> QED BY <1>3, <1>4

(* The walk goes on to the next endpoint: IsoInv.                          *)
LEMMA WalkEndpointKeeps ==
  ASSUME IsoInv, WalkEndpoint
  PROVE  IsoInv'
<1>1. UNCHANGED <<frame, list, chain, inOn, outOn, isoOn, td, free, leaked, hcDone, isoIn,
                  done, work, callback, gate, asked>>
  BY DEF WalkEndpoint, tdVars, lists, epVars, reqVars
<1>2. Line' = Line /\ Linked' = Linked
  BY <1>1 DEF Line, Linked, SeqSet
<1>3. Placed'
  BY <1>1, <1>2 DEF IsoInv, Placed
<1>4. /\ walk' \in [to : Seq(Endpoint), t : TD \cup {Null}, old : BOOLEAN]
      /\ ToSet(walk'.to) \subseteq Linked /\ (walk'.to # <<>> => walk'.t \in TD)
  BY WalkEndpointIs
<1>5. IsoTypes'
  BY <1>1, <1>2, <1>4 DEF IsoInv, IsoTypes
<1>6. Timers'
  BY <1>1 DEF Timers, IsoInv
<1> QED BY <1>3, <1>5, <1>6 DEF IsoInv

-----------------------------------------------------------------------------
(* The controller retires heads.                                           *)
LEMMA FrameKeeps ==
  ASSUME IsoInv, Frame
  PROVE  IsoInv'
<1>1. /\ UNCHANGED <<list, inOn, outOn, isoOn, td, free, leaked, callback, asked>>
      /\ walk' = IF walk.to = <<>> THEN walk ELSE [walk EXCEPT !.old = TRUE]
      /\ gate' = IF gate.kind = "none" THEN gate ELSE [gate EXCEPT !.frames = @ + 1]
  <2>1. UNCHANGED <<list, inOn, outOn, isoOn, callback>>
    BY Zenon DEF Frame
  <2>2. UNCHANGED <<tdVars, reqVars>>
    BY Zenon DEF Frame
  <2>3. UNCHANGED <<td, free, leaked, asked>>
    BY <2>2 DEF tdVars, reqVars
  <2>4. walk' = IF walk.to = <<>> THEN walk ELSE [walk EXCEPT !.old = TRUE]
    BY Zenon DEF Frame
  <2>5. gate' = IF gate.kind = "none" THEN gate ELSE [gate EXCEPT !.frames = @ + 1]
    BY Zenon DEF Frame
  <2> QED BY <2>1, <2>3, <2>4, <2>5
<1>2. /\ NextFrame \in 0 .. FrameMod - 1 /\ frame' = NextFrame
      /\ DueEndpoints \in SUBSET Endpoint
      /\ \A e \in DueEndpoints : chain[e] \in Seq(TD) /\ Len(chain[e]) >= 2
      /\ Now \in Seq(TD) /\ Distinct(Now) /\ ToSet(Now) = {Head(chain[e]) : e \in DueEndpoints}
      /\ chain' = Shortened(chain, DueEndpoints)
      /\ hcDone' = hcDone \o Now /\ isoIn' = isoIn /\ done' = done /\ work' = work
      /\ Line' = Line \o Now
  BY FrameIs
<1>3. \A e \in DueEndpoints : chain[e] # <<>> /\ Tail(chain[e]) # <<>>
  <2> SUFFICES ASSUME NEW e \in DueEndpoints PROVE chain[e] # <<>> /\ Tail(chain[e]) # <<>>
    OBVIOUS
  <2>1. PICK k \in Nat : k = Len(chain[e]) /\ k >= 2
    BY <1>2, LengthIs
  <2>2. chain[e] # <<>>
    BY <2>1
  <2>3. Len(Tail(chain[e])) = Len(chain[e]) - 1 /\ Tail(chain[e]) \in Seq(TD)
    BY <1>2, <2>2, TailIs
  <2>4. PICK j \in Nat : j = Len(Tail(chain[e]))
    BY <2>3, LengthIs
  <2>5. j = k - 1
    BY <2>1, <2>3, <2>4
  <2>6. k >= 2
    BY <2>1
  <2>7. j # 0
    BY <2>5, <2>6
  <2>8. Len(<<>>) = 0
    OBVIOUS
  <2> QED BY <2>2, <2>4, <2>7, <2>8
<1>4. InPlace(Line \o Now, Shortened(chain, DueEndpoints), free, leaked)
  BY <1>2, <1>3, HeadsRetired DEF IsoInv, Placed
<1>5. Placed'
  BY <1>1, <1>2, <1>4 DEF Placed
<1>6. Linked' = Linked
  BY <1>1 DEF Linked, SeqSet
<1>7. \A e \in Endpoint : chain'[e] # <<>> <=> chain[e] # <<>>
  BY <1>2, <1>3 DEF Shortened
<1>8. hcDone' \in Seq(TD)
  <2>1. hcDone \in Seq(TD)
    BY LineIs
  <2> QED BY <2>1, <1>2, JoinSet
<1>9. /\ walk' \in [to : Seq(Endpoint), t : TD \cup {Null}, old : BOOLEAN]
      /\ walk'.to = walk.to /\ walk'.t = walk.t
  BY <1>1 DEF IsoInv, IsoTypes
<1>10. /\ gate' \in [kind : {"none", "abort", "delete"}, e : Endpoint \cup {1}, frames : Nat]
       /\ gate'.kind = gate.kind /\ gate'.e = gate.e
  <2>1. gate \in [kind : {"none", "abort", "delete"}, e : Endpoint \cup {1}, frames : Nat]
    BY DEF IsoInv, IsoTypes
  <2> QED BY <2>1, <1>1
<1>11. IsoTypes'
  BY <1>1, <1>2, <1>6, <1>7, <1>8, <1>9, <1>10 DEF IsoInv, IsoTypes
<1>12. Timers'
  BY <1>1, <1>10 DEF IsoInv, Timers
<1> QED BY <1>5, <1>11, <1>12 DEF IsoInv

(* The filter sorts what was written back.                                 *)
LEMMA FilterKeeps ==
  ASSUME IsoInv, FilterInterrupt
  PROVE  IsoInv'
<1>1. /\ UNCHANGED <<frame, list, chain, inOn, outOn, isoOn, free, leaked, walk, gate,
                     callback, asked>>
      /\ td' = Returned(SeqSet(hcDone))
  BY DEF FilterInterrupt, epVars
<1>2. /\ Line' \in Seq(TD) /\ Distinct(Line') /\ ToSet(Line') = ToSet(Line)
      /\ done' \in Seq(TD) /\ isoIn' \in Seq(TD) /\ hcDone' \in Seq(TD) /\ work' \in Seq(TD)
  BY FilterLine
<1>3. InPlace(Line', chain, free, leaked)
  BY <1>2, LineChange DEF IsoInv, Placed
<1>4. Placed'
  BY <1>1, <1>3 DEF Placed
<1>5. td' \in [TD -> TDRecord]
  BY <1>1, ReturnedIs DEF IsoInv, IsoTypes
<1>6. IsoTypes'
  BY <1>1, <1>2, <1>5 DEF IsoInv, IsoTypes, Linked, SeqSet
<1>7. Timers'
  BY <1>1 DEF IsoInv, Timers
<1> QED BY <1>4, <1>6, <1>7 DEF IsoInv

(* The timer for inbound transfers empties its queue.                      *)
LEMMA TimerKeeps ==
  ASSUME IsoInv, IsoInTimer
  PROVE  IsoInv'
<1>1. UNCHANGED <<frame, list, chain, inOn, outOn, isoOn, free, leaked, walk, gate,
                  callback, asked, td>>
  BY DEF IsoInTimer, epVars, tdVars
<1>2. /\ Line' \in Seq(TD) /\ Distinct(Line') /\ ToSet(Line') = ToSet(Line)
      /\ done' \in Seq(TD) /\ isoIn' \in Seq(TD) /\ hcDone' \in Seq(TD) /\ work' \in Seq(TD)
  BY TimerLine
<1>3. InPlace(Line', chain, free, leaked)
  BY <1>2, LineChange DEF IsoInv, Placed
<1>4. Placed'
  BY <1>1, <1>3 DEF Placed
<1>6. IsoTypes'
  BY <1>1, <1>2 DEF IsoInv, IsoTypes, Linked, SeqSet
<1>7. Timers'
  BY <1>1 DEF IsoInv, Timers
<1> QED BY <1>4, <1>6, <1>7 DEF IsoInv

(* The workloop takes the queue it is to process.                          *)
LEMMA HandlerKeeps ==
  ASSUME IsoInv, HandleInterrupt
  PROVE  IsoInv'
<1>1. UNCHANGED <<frame, list, chain, inOn, outOn, isoOn, free, leaked, walk, gate,
                  callback, asked, td>>
  BY DEF HandleInterrupt, epVars, tdVars, reqVars
<1>2. /\ Line' = Line
      /\ done' \in Seq(TD) /\ isoIn' \in Seq(TD) /\ hcDone' \in Seq(TD) /\ work' \in Seq(TD)
  BY HandlerLine
<1>4. Placed'
  BY <1>1, <1>2 DEF IsoInv, Placed
<1>6. IsoTypes'
  BY <1>1, <1>2 DEF IsoInv, IsoTypes, Linked, SeqSet
<1>7. Timers'
  BY <1>1 DEF IsoInv, Timers
<1> QED BY <1>4, <1>6, <1>7 DEF IsoInv

(* The workloop processes a TD and frees it.                               *)
LEMMA CompleteKeeps ==
  ASSUME IsoInv, Complete
  PROVE  IsoInv'
<1>1. /\ UNCHANGED <<frame, list, chain, inOn, outOn, isoOn, leaked, walk, gate, asked>>
      /\ td' = Returned({Head(work)}) /\ free' = free \cup {Head(work)}
      /\ callback' = callback \/ callback' = {e \in Linked : (e \in InEndpoint) = td[Head(work)].in}
  BY DEF Complete, epVars
<1>2. /\ Line # <<>> /\ Head(Line) = Head(work) /\ Line' = Tail(Line)
      /\ done' \in Seq(TD) /\ isoIn' \in Seq(TD) /\ hcDone' \in Seq(TD) /\ work' \in Seq(TD)
  BY CompleteLine
<1>3. InPlace(Tail(Line), chain, free \cup {Head(Line)}, leaked)
  BY <1>2, FirstFreed DEF IsoInv, Placed
<1>4. Placed'
  BY <1>1, <1>2, <1>3 DEF Placed
<1>5. td' \in [TD -> TDRecord]
  BY <1>1, ReturnedIs DEF IsoInv, IsoTypes
<1>6. Linked \in SUBSET Endpoint
  BY MemberIs DEF Linked, SeqSet, IsoInv, IsoTypes
<1>7. callback' \in SUBSET Endpoint
  BY <1>1, <1>6 DEF IsoInv, IsoTypes
<1>8. IsoTypes'
  BY <1>1, <1>2, <1>5, <1>7 DEF IsoInv, IsoTypes, Linked, SeqSet
<1>9. Timers'
  BY <1>1 DEF IsoInv, Timers
<1> QED BY <1>4, <1>8, <1>9 DEF IsoInv

(* One can be taken where there is one.                                    *)
LEMMA NotEmpty == free \in SUBSET TD /\ free # {} => 1 <= Cardinality(free)
<1> SUFFICES ASSUME free \in SUBSET TD, free # {} PROVE 1 <= Cardinality(free)
  OBVIOUS
<1>1. IsFiniteSet(free)
  BY TDAssumption, FS_Subset
<1>2. Cardinality(free) \in Nat /\ Cardinality(free) # 0
  BY <1>1, FS_CardinalityType, FS_EmptySet
<1> QED BY <1>2

(* A new endpoint gets a tail of its own.                                  *)
LEMMA CreateKeeps ==
  ASSUME IsoInv, NEW e \in Endpoint, Create(e)
  PROVE  /\ IsoInv' /\ chain' = [chain EXCEPT ![e] = Taken(1)]
         /\ Taken(1) \in Seq(TD) /\ Len(Taken(1)) = 1 /\ ToSet(Taken(1)) \in SUBSET free
         /\ chain[e] = <<>> /\ td' \in [TD -> TDRecord]
         /\ \A t \in TD \ free : td'[t] = td[t]
<1>1. /\ e \notin Linked /\ free # {} /\ list' = <<e>> \o list
      /\ chain' = [chain EXCEPT ![e] = Taken(1)]
      /\ td' = [td EXCEPT ![Head(Taken(1))] = Fresh]
      /\ free' = free \ SeqSet(Taken(1))
      /\ IF list = <<>> THEN StartTimers ELSE UNCHANGED <<inOn, outOn>>
      /\ gate.kind = "none"
      /\ UNCHANGED <<frame, isoOn, leaked, hcDone, isoIn, done, work, walk, gate, callback, asked>>
  BY DEF Create, Gated, lists, reqVars
<1>2. /\ list \in Seq(Endpoint) /\ Distinct(list) /\ td \in [TD -> TDRecord]
      /\ chain \in [Endpoint -> Seq(TD)] /\ free \in SUBSET TD /\ chain[e] = <<>>
  BY <1>1 DEF IsoInv, IsoTypes, Placed, InPlace
<1>3. /\ Taken(1) \in Seq(TD) /\ Len(Taken(1)) = 1 /\ Distinct(Taken(1))
      /\ ToSet(Taken(1)) \in SUBSET free
  BY <1>1, <1>2, NotEmpty, TakenIs
<1>4. Head(Taken(1)) \in TD /\ ToSet(Taken(1)) = {Head(Taken(1))} /\ Taken(1) # <<>>
  BY <1>3, SingleIs
<1>5. ToSet(<<>>) = {}
  BY DEF ToSet
<1>6. InPlace(Line, [chain EXCEPT ![e] = Taken(1)], free \ ToSet(Taken(1)), leaked)
  <2>1. ToSet(Taken(1)) \cup (free \ ToSet(Taken(1))) = ToSet(chain[e]) \cup free
    BY <1>2, <1>3, <1>5
  <2> DEFINE c == Taken(1)
  <2>2. /\ c \in Seq(TD) /\ Distinct(c) /\ ToSet(c) \cup (free \ ToSet(c)) = ToSet(chain[e]) \cup free
        /\ free \ ToSet(c) \in SUBSET TD /\ ToSet(c) \cap (free \ ToSet(c)) = {}
    BY <1>2, <1>3, <2>1
  <2>3. InPlace(Line, chain, free, leaked)
    BY DEF IsoInv, Placed
  <2> HIDE DEF c
  <2>4. InPlace(Line, [chain EXCEPT ![e] = c], free \ ToSet(c), leaked)
    BY <2>2, <2>3, ChainChange
  <2> QED BY <2>4 DEF c
<1>7. Placed'
  <2>1. Line' = Line
    BY <1>1 DEF Line
  <2> QED BY <2>1, <1>1, <1>6 DEF Placed, SeqSet
<1>8. /\ <<e>> \o list \in Seq(Endpoint) /\ ToSet(<<e>> \o list) = {e} \cup ToSet(list)
      /\ Distinct(<<e>> \o list) /\ <<e>> \o list # <<>>
  BY <1>1, <1>2, PushSet DEF Linked, SeqSet
<1>9. td' \in [TD -> TDRecord] /\ \A t \in TD \ free : td'[t] = td[t]
  BY <1>1, <1>2, <1>3, <1>4, FreshType
<1>10. \A d \in Endpoint : chain'[d] = IF d = e THEN Taken(1) ELSE chain[d]
  BY <1>1, <1>2
<1>11. Linked' = {e} \cup Linked
  BY <1>1, <1>8 DEF Linked, SeqSet
<1>12. \A d \in Endpoint : d \in Linked' <=> chain'[d] # <<>>
  BY <1>4, <1>10, <1>11 DEF IsoInv, IsoTypes
<1>13. IsoTypes'
  BY <1>1, <1>2, <1>8, <1>9, <1>11, <1>12 DEF IsoInv, IsoTypes
<1>14. Timers'
  BY <1>1, <1>8 DEF IsoInv, Timers, StartTimers
<1> QED BY <1>1, <1>2, <1>3, <1>7, <1>9, <1>13, <1>14 DEF IsoInv

(* A request goes behind the tail, and the last of its TDs is the new      *)
(* tail.                                                                   *)
LEMMA SubmitKeeps ==
  ASSUME IsoInv, NEW e \in Endpoint, NEW o \in Offsets, NEW n \in 1 .. MaxFrames, Submit(e, o, n)
  PROVE  /\ IsoInv' /\ e \in Linked /\ n \in Nat /\ n # 0 /\ n <= Cardinality(free)
         /\ frame + o \in Nat /\ asked \in Nat /\ asked' = asked + 1
         /\ td' = Described(e, frame + o, n, asked + 1)
         /\ chain' = [chain EXCEPT ![e] = chain[e] \o Taken(n)]
         /\ Line' = Line
<1>1. /\ e \in Linked /\ Cardinality(free) >= n /\ asked' = asked + 1
      /\ td' = Described(e, frame + o, n, asked + 1)
      /\ chain' = [chain EXCEPT ![e] = @ \o Taken(n)]
      /\ free' = free \ SeqSet(Taken(n))
      /\ UNCHANGED <<frame, list, isoOn, inOn, outOn, leaked, hcDone, isoIn, done, work, walk,
                     gate, callback>>
  BY DEF Submit, MaySubmit, lists
<1>2. /\ chain \in [Endpoint -> Seq(TD)] /\ free \in SUBSET TD /\ frame \in Nat /\ asked \in Nat
      /\ frame \in 0 .. FrameMod - 1
  BY DEF IsoInv, IsoTypes, Placed, InPlace
<1>3. n \in Nat /\ n # 0 /\ n <= Cardinality(free) /\ frame + o \in Nat
  <2>1. IsFiniteSet(free)
    BY <1>2, TDAssumption, FS_Subset
  <2>2. Cardinality(free) \in Nat
    BY <2>1, FS_CardinalityType
  <2> QED BY <2>2, <1>1, <1>2, FrameAssumption
<1>4. /\ chain[e] \in Seq(TD) /\ chain[e] # <<>> /\ Distinct(chain[e])
      /\ Taken(n) \in Seq(TD) /\ Distinct(Taken(n)) /\ ToSet(Taken(n)) \in SUBSET free
  BY <1>1, <1>3, RunIs
<1>5. td' \in [TD -> TDRecord]
  BY <1>1, <1>2, <1>3, DescribedIs
<1> DEFINE ts == Taken(n)  c == chain[e] \o ts  f == free \ ToSet(ts)
<1>6. ToSet(chain[e]) \cap ToSet(ts) = {}
  BY <1>4 DEF IsoInv, Placed, InPlace
<1>7. c \in Seq(TD) /\ ToSet(c) = ToSet(chain[e]) \cup ToSet(ts) /\ Distinct(c)
  <2> HIDE DEF ts
  <2>1. ts \in Seq(TD) /\ Distinct(ts)
    BY <1>4 DEF ts
  <2> QED BY <2>1, <1>4, <1>6, JoinSet
<1>8. f \in SUBSET TD /\ ToSet(c) \cap f = {} /\ ToSet(c) \cup f = ToSet(chain[e]) \cup free
  <2>1. ToSet(chain[e]) \cap free = {}
    BY DEF IsoInv, Placed, InPlace
  <2> QED BY <2>1, <1>2, <1>4, <1>7
<1>9. InPlace(Line, chain, free, leaked)
  BY DEF IsoInv, Placed
<1>10. InPlace(Line, [chain EXCEPT ![e] = c], f, leaked)
  <2> HIDE DEF c, f
  <2> QED BY <1>7, <1>8, <1>9, ChainChange
<1>11. /\ chain' = [chain EXCEPT ![e] = c] /\ free' = f /\ Line' = Line
  BY <1>1 DEF Line, SeqSet
<1>12. Placed'
  BY <1>1, <1>10, <1>11 DEF Placed
<1>13. c # <<>>
  <2> HIDE DEF ts
  <2>1. ts \in Seq(TD)
    BY <1>4 DEF ts
  <2> QED BY <2>1, <1>4
<1> HIDE DEF c, f
<1>14. \A d \in Endpoint : chain'[d] # <<>> <=> chain[d] # <<>>
  BY <1>2, <1>4, <1>11, <1>13
<1>15. Linked' = Linked
  BY <1>1 DEF Linked, SeqSet
<1>16. IsoTypes'
  <2>1. asked' \in Nat
    BY <1>1, <1>2
  <2>2. \A d \in Endpoint : d \in Linked' <=> chain'[d] # <<>>
    BY <1>14, <1>15 DEF IsoInv, IsoTypes
  <2> QED BY <1>1, <1>5, <1>15, <2>1, <2>2 DEF IsoInv, IsoTypes
<1>17. Timers'
  BY <1>1 DEF IsoInv, Timers
<1>18. IsoInv'
  BY <1>12, <1>16, <1>17 DEF IsoInv
<1> QED BY <1>1, <1>2, <1>3, <1>11, <1>18 DEF c, ts

(* A submission that fails half way loses what it took.                    *)
LEMMA SubmitFailsKeeps ==
  ASSUME IsoInv, NEW e \in Endpoint, NEW n \in 1 .. MaxFrames, SubmitFails(e, n - 1)
  PROVE  IsoInv'
<1>1. /\ n - 1 <= Cardinality(free)
      /\ leaked' = leaked \cup SeqSet(Taken(n - 1)) /\ free' = free \ SeqSet(Taken(n - 1))
      /\ UNCHANGED <<frame, list, chain, isoOn, inOn, outOn, td, hcDone, isoIn, done, work, walk,
                     gate, callback, asked>>
  BY DEF SubmitFails, lists, epVars, reqVars
<1>2. free \in SUBSET TD
  BY DEF IsoInv, Placed, InPlace
<1>3. ToSet(Taken(n - 1)) \in SUBSET free
  <2>1. n - 1 \in Nat
    BY FrameAssumption
  <2> DEFINE k == n - 1
  <2>2. k \in Nat /\ k <= Cardinality(free)
    BY <2>1, <1>1
  <2> HIDE DEF k
  <2>3. ToSet(Taken(k)) \in SUBSET free
    BY <2>2, <1>2, TakenIs
  <2> QED BY <2>3 DEF k
<1>4. InPlace(Line, chain, free \ ToSet(Taken(n - 1)), leaked \cup ToSet(Taken(n - 1)))
  <2>1. InPlace(Line, chain, free, leaked)
    BY DEF IsoInv, Placed
  <2> QED BY <2>1, <1>3, SomeLost
<1>5. Line' = Line
  BY <1>1 DEF Line
<1>6. Placed'
  BY <1>1, <1>4, <1>5 DEF Placed, SeqSet
<1>7. IsoTypes'
  BY <1>1 DEF IsoInv, IsoTypes, Linked, SeqSet
<1>8. Timers'
  BY <1>1 DEF IsoInv, Timers
<1> QED BY <1>6, <1>7, <1>8 DEF IsoInv

(* The chain of an endpoint: what is queued, and the tail.                 *)
LEMMA ChainIs ==
  ASSUME IsoInv, NEW e \in Linked
  PROVE  /\ e \in Endpoint /\ chain[e] \in Seq(TD) /\ chain[e] # <<>> /\ Distinct(chain[e])
         /\ Queued(e) \in Seq(TD) /\ TransferTail(e) \in TD
         /\ chain[e] = Queued(e) \o <<TransferTail(e)>>
         /\ Len(Queued(e)) = Len(chain[e]) - 1
         /\ \A i \in 1 .. Len(chain[e]) - 1 : Queued(e)[i] = chain[e][i]
         /\ ToSet(chain[e]) = ToSet(Queued(e)) \cup {TransferTail(e)}
         /\ Distinct(Queued(e)) /\ TransferTail(e) \notin ToSet(Queued(e))
         /\ ToSet(chain[e]) \cap free = {}
<1>1. e \in Endpoint
  BY MemberIs DEF IsoInv, IsoTypes, Linked, SeqSet
<1>2. chain[e] \in Seq(TD) /\ chain[e] # <<>> /\ Distinct(chain[e]) /\ ToSet(chain[e]) \cap free = {}
  BY <1>1 DEF IsoInv, IsoTypes, Placed, InPlace
<1>3. /\ Front(chain[e]) \in Seq(TD) /\ Last(chain[e]) \in TD
      /\ chain[e] = Front(chain[e]) \o <<Last(chain[e])>>
      /\ Len(Front(chain[e])) = Len(chain[e]) - 1
      /\ \A i \in 1 .. Len(chain[e]) - 1 : Front(chain[e])[i] = chain[e][i]
      /\ ToSet(chain[e]) = ToSet(Front(chain[e])) \cup {Last(chain[e])}
      /\ Distinct(Front(chain[e])) /\ Last(chain[e]) \notin ToSet(Front(chain[e]))
  BY <1>2, FrontIs
<1> QED BY <1>1, <1>2, <1>3 DEF Queued, TransferTail

-----------------------------------------------------------------------------
(* An abort frees what is queued and leaves the tail.                      *)
LEMMA AbortEndsKeeps ==
  ASSUME IsoInv, AbortEnds
  PROVE  IsoInv'
<1> DEFINE e == gate.e  x == TransferTail(e)
<1>1. /\ gate.kind = "abort"
      /\ chain' = [chain EXCEPT ![e] = <<x>>] /\ free' = free \cup ToSet(Queued(e))
      /\ td' = Returned(ToSet(Queued(e)))
      /\ gate' = [gate EXCEPT !.kind = "none"]
      /\ UNCHANGED <<frame, list, isoOn, inOn, outOn, leaked, hcDone, isoIn, done, work, walk,
                     callback, asked>>
  BY DEF AbortEnds, RemoveTransfers, lists, SeqSet
<1>2. gate \in [kind : {"none", "abort", "delete"}, e : Endpoint \cup {1}, frames : Nat]
      /\ td \in [TD -> TDRecord] /\ e \in Linked
  BY <1>1 DEF IsoInv, IsoTypes
<1> HIDE DEF e
<1>3. /\ e \in Endpoint /\ chain[e] \in Seq(TD) /\ chain[e] # <<>>
      /\ Queued(e) \in Seq(TD) /\ x \in TD
      /\ ToSet(chain[e]) = ToSet(Queued(e)) \cup {x}
      /\ x \notin ToSet(Queued(e)) /\ ToSet(chain[e]) \cap free = {}
  BY <1>2, ChainIs
<1> DEFINE f == free \cup ToSet(Queued(e))  c == <<x>>
<1>4. /\ c \in Seq(TD) /\ Distinct(c) /\ f \in SUBSET TD /\ c # <<>>
      /\ ToSet(c) \cap f = {} /\ ToSet(c) \cup f = ToSet(chain[e]) \cup free
  <2>1. c \in Seq(TD) /\ Distinct(c) /\ ToSet(c) = {x} /\ c # <<>>
    BY <1>3 DEF Distinct, ToSet
  <2>2. free \in SUBSET TD
    BY DEF IsoInv, Placed, InPlace
  <2>3. ToSet(Queued(e)) \in SUBSET TD
    BY <1>3, MemberIs
  <2> QED BY <2>1, <2>2, <2>3, <1>3
<1>5. InPlace(Line, chain, free, leaked) /\ chain \in [Endpoint -> Seq(TD)]
  BY DEF IsoInv, Placed, InPlace
<1>6. chain' = [chain EXCEPT ![e] = c] /\ free' = f /\ Line' = Line /\ Linked' = Linked
  BY <1>1 DEF Line, Linked, SeqSet
<1> HIDE DEF c, f
<1>7. InPlace(Line, [chain EXCEPT ![e] = c], f, leaked)
  BY <1>3, <1>4, <1>5, ChainChange
<1>8. Placed'
  BY <1>1, <1>6, <1>7 DEF Placed
<1>9. td' \in [TD -> TDRecord]
  BY <1>1, <1>2, ReturnedIs
<1>10. \A d \in Endpoint : chain'[d] # <<>> <=> chain[d] # <<>>
  BY <1>3, <1>4, <1>5, <1>6
<1>11. /\ gate' \in [kind : {"none", "abort", "delete"}, e : Endpoint \cup {1}, frames : Nat]
       /\ gate'.kind = "none"
  BY <1>1, <1>2
<1>12. IsoTypes'
  BY <1>1, <1>6, <1>9, <1>10, <1>11 DEF IsoInv, IsoTypes
<1>13. Timers'
  BY <1>1, <1>11 DEF IsoInv, Timers
<1> QED BY <1>8, <1>12, <1>13 DEF IsoInv

(* A deletion frees the tail too.                                          *)
LEMMA DeleteEndsKeeps ==
  ASSUME IsoInv, DeleteEnds
  PROVE  IsoInv'
<1> DEFINE e == gate.e  l == RemoveFirst(list, e)
<1>1. /\ gate.kind = "delete" /\ walk.to = <<>> /\ list' = l /\ isoOn' = TRUE
      /\ outOn' = (l # <<>>) /\ inOn' = (inOn /\ l # <<>>)
      /\ chain' = [chain EXCEPT ![e] = <<>>] /\ free' = free \cup ToSet(chain[e])
      /\ td' = Returned(ToSet(chain[e]))
      /\ gate' = [gate EXCEPT !.kind = "none"]
      /\ UNCHANGED <<frame, leaked, hcDone, isoIn, done, work, walk, callback, asked>>
  BY DEF DeleteEnds, RestartTimers, RemoveTransfers, lists, SeqSet
<1>2. /\ gate \in [kind : {"none", "abort", "delete"}, e : Endpoint \cup {1}, frames : Nat]
      /\ td \in [TD -> TDRecord] /\ e \in Linked /\ list \in Seq(Endpoint) /\ Distinct(list)
  BY <1>1 DEF IsoInv, IsoTypes
<1>3. l \in Seq(Endpoint) /\ Distinct(l) /\ ToSet(l) = ToSet(list) \ {e}
  BY <1>2, RemoveSet
<1> HIDE DEF e, l
<1>4. e \in Endpoint /\ chain[e] \in Seq(TD) /\ ToSet(chain[e]) \cap free = {}
  BY <1>2, ChainIs
<1> DEFINE f == free \cup ToSet(chain[e])  c == <<>>
<1>5. /\ c \in Seq(TD) /\ Distinct(c) /\ f \in SUBSET TD
      /\ ToSet(c) \cap f = {} /\ ToSet(c) \cup f = ToSet(chain[e]) \cup free
  <2>1. c \in Seq(TD) /\ Distinct(c) /\ ToSet(c) = {}
    BY DEF Distinct, ToSet
  <2>2. free \in SUBSET TD
    BY DEF IsoInv, Placed, InPlace
  <2>3. ToSet(chain[e]) \in SUBSET TD
    BY <1>4, MemberIs
  <2> QED BY <2>1, <2>2, <2>3, <1>4
<1>6. InPlace(Line, chain, free, leaked) /\ chain \in [Endpoint -> Seq(TD)]
  BY DEF IsoInv, Placed, InPlace
<1>7. /\ chain' = [chain EXCEPT ![e] = c] /\ free' = f /\ Line' = Line
      /\ Linked' = Linked \ {e}
  BY <1>1, <1>3 DEF Line, Linked, SeqSet
<1>8. InPlace(Line, [chain EXCEPT ![e] = c], f, leaked)
  <2> HIDE DEF c, f
  <2> QED BY <1>4, <1>5, <1>6, ChainChange
<1>9. Placed'
  BY <1>1, <1>7, <1>8 DEF Placed
<1>10. td' \in [TD -> TDRecord]
  BY <1>1, <1>2, ReturnedIs
<1>11. \A d \in Endpoint : d \in Linked' <=> chain'[d] # <<>>
  <2>1. \A d \in Endpoint : chain'[d] = IF d = e THEN <<>> ELSE chain[d]
    BY <1>6, <1>7
  <2>2. \A d \in Endpoint : d \in Linked <=> chain[d] # <<>>
    BY DEF IsoInv, IsoTypes
  <2> QED BY <2>1, <2>2, <1>7
<1>12. /\ gate' \in [kind : {"none", "abort", "delete"}, e : Endpoint \cup {1}, frames : Nat]
       /\ gate'.kind = "none"
  BY <1>1, <1>2
<1>13. ToSet(walk'.to) \subseteq Linked' /\ (walk'.to # <<>> => walk'.t \in TD)
  <2>1. walk'.to = <<>>
    BY <1>1
  <2>2. ToSet(<<>>) = {}
    BY DEF ToSet
  <2> QED BY <2>1, <2>2
<1>14. IsoTypes'
  BY <1>1, <1>3, <1>10, <1>11, <1>12, <1>13 DEF IsoInv, IsoTypes
<1>15. Timers'
  <2>1. l # <<>> => list # <<>>
    <3>1. ToSet(list) = {} => ToSet(l) = {}
      BY <1>3
    <3>2. l # <<>> => Head(l) \in ToSet(l)
      BY <1>3, TailSet
    <3>3. ToSet(<<>>) = {}
      BY DEF ToSet
    <3> QED BY <3>1, <3>2, <3>3
  <2>2. inOn = (list # <<>>)
    BY DEF IsoInv, Timers
  <2>3. inOn' = (l # <<>>)
    BY <1>1, <2>1, <2>2
  <2> QED BY <1>1, <1>12, <2>3 DEF Timers
<1> QED BY <1>9, <1>14, <1>15 DEF IsoInv

-----------------------------------------------------------------------------
(* At the start all TDs are free.                                          *)
LEMMA IsoBegins == Init => IsoInv
<1> SUFFICES ASSUME Init PROVE IsoInv
  OBVIOUS
<1>1. /\ frame = FirstFrame /\ asked = 0 /\ list = <<>> /\ chain = [e \in Endpoint |-> <<>>]
      /\ isoOn = TRUE /\ inOn = FALSE /\ outOn = FALSE /\ td = [t \in TD |-> Fresh]
      /\ free = TD /\ leaked = {} /\ hcDone = <<>> /\ isoIn = <<>> /\ done = <<>> /\ work = <<>>
      /\ walk = [to |-> <<>>, t |-> Null, old |-> FALSE]
      /\ gate = [kind |-> "none", e |-> 1, frames |-> 0] /\ callback = {}
  BY DEF Init, NoWalk
<1>2. ToSet(<<>>) = {} /\ Distinct(<<>>) /\ <<>> \in Seq(TD) /\ <<>> \in Seq(Endpoint)
  BY DEF ToSet, Distinct
<1>3. Linked = {} /\ Line = <<>>
  BY <1>1, <1>2 DEF Linked, Line, SeqSet
<1>4. td \in [TD -> TDRecord]
  BY <1>1, FreshType
<1>5. /\ walk \in [to : Seq(Endpoint), t : TD \cup {Null}, old : BOOLEAN]
      /\ gate \in [kind : {"none", "abort", "delete"}, e : Endpoint \cup {1}, frames : Nat]
      /\ walk.to = <<>> /\ gate.kind = "none"
  BY <1>1, <1>2
<1>6. IsoTypes
  BY <1>1, <1>2, <1>3, <1>4, <1>5, FrameAssumption DEF IsoTypes
<1>7. Timers
  BY <1>1, <1>5 DEF Timers
<1>8. Placed
  BY <1>1, <1>2, <1>3 DEF Placed, InPlace
<1> QED BY <1>6, <1>7, <1>8 DEF IsoInv

(* A step that changes nothing.                                            *)
LEMMA IsoStays == ASSUME IsoInv, UNCHANGED vars PROVE IsoInv'
<1>1. UNCHANGED <<frame, epVars, tdVars, hcDone, lists, walk, gate, callback, reqVars>>
  BY DEF vars
<1>2. UNCHANGED <<frame, list, chain, inOn, outOn, isoOn, td, free, leaked, hcDone, isoIn,
                  done, work, callback, gate, walk, asked>>
  BY <1>1 DEF tdVars, lists, epVars, reqVars
<1>3. Line' = Line /\ Linked' = Linked
  BY <1>2 DEF Line, Linked, SeqSet
<1>4. Placed'
  BY <1>2, <1>3 DEF IsoInv, Placed
<1>5. IsoTypes'
  BY <1>2, <1>3 DEF IsoInv, IsoTypes
<1>6. Timers'
  BY <1>2 DEF Timers, IsoInv
<1> QED BY <1>4, <1>5, <1>6 DEF IsoInv

(* Every step keeps IsoInv.                                                *)
LEMMA IsoInductive == IsoInv /\ [Next]_vars => IsoInv'
<1> SUFFICES ASSUME IsoInv, [Next]_vars PROVE IsoInv'
  OBVIOUS
<1>1. ASSUME NEW e \in Endpoint, Call(e) PROVE IsoInv'
  <2>1. CASE Create(e)
    BY <2>1, CreateKeeps
  <2>2. CASE \E kind \in {"abort", "delete"} : Begin(kind, e)
    BY <2>2, BeginKeeps
  <2>3. ASSUME NEW n \in 1 .. MaxFrames, NEW o \in Offsets, Submit(e, o, n) PROVE IsoInv'
    BY <2>3, SubmitKeeps
  <2>4. ASSUME NEW n \in 1 .. MaxFrames, SubmitFails(e, n - 1) PROVE IsoInv'
    BY <2>4, SubmitFailsKeeps
  <2> QED BY <1>1, <2>1, <2>2, <2>3, <2>4 DEF Call
<1>2. CASE Frame
  BY <1>2, FrameKeeps
<1>3. CASE FilterInterrupt
  BY <1>3, FilterKeeps
<1>4. CASE IsoInTimer
  BY <1>4, TimerKeeps
<1>5. CASE Workloop
  BY <1>5, AbortEndsKeeps, DeleteEndsKeeps, HandlerKeeps, CompleteKeeps, CallbackKeeps DEF Workloop
<1>6. CASE OutTimer
  BY <1>6, WalkBeginsKeeps, WalkTDKeeps, WalkEndpointKeeps DEF OutTimer
<1>7. CASE UNCHANGED vars
  BY <1>7, IsoStays
<1> QED BY <1>1, <1>2, <1>3, <1>4, <1>5, <1>6, <1>7 DEF Next

(* What IsoInv says of the places.                                         *)
LEMMA IsoPlacesHold == IsoInv => EveryTDInOnePlace
<1> SUFFICES ASSUME IsoInv PROVE EveryTDInOnePlace
  OBVIOUS
<1>1. InPlace(Line, chain, free, leaked) /\ Timers
  BY DEF IsoInv, Placed
<1>2. UNION Places = TD
  <2>1. UNION Places = free \cup leaked \cup Retired \cup UNION {ToSet(chain[e]) : e \in Endpoint}
    BY DEF Places, SeqSet
  <2>2. \A e \in Endpoint : ToSet(chain[e]) \in SUBSET TD
    BY <1>1, MemberIs DEF InPlace
  <2>3. Retired \in SUBSET TD
    BY LineIs
  <2> QED BY <1>1, <2>1, <2>2, <2>3 DEF InPlace, Retired, SeqSet
<1>3. IsInjective(Line) /\ free \cap leaked = {} /\ Retired \cap (free \cup leaked) = {}
  BY <1>1, MemberIs DEF InPlace, Retired, SeqSet
<1>4. ASSUME NEW e \in Endpoint
      PROVE  /\ IsInjective(chain[e])
             /\ SeqSet(chain[e]) \cap (free \cup leaked \cup Retired) = {}
             /\ \A d \in Endpoint \ {e} : SeqSet(chain[e]) \cap SeqSet(chain[d]) = {}
  BY <1>1, MemberIs DEF InPlace, Retired, SeqSet
<1>5. gate.kind # "delete" => inOn = (list # <<>>) /\ outOn = (list # <<>>)
  BY <1>1 DEF Timers
<1> QED BY <1>2, <1>3, <1>4, <1>5 DEF EveryTDInOnePlace

(* Every isochronous TD is in one place: whatever the controller, the      *)
(* filter, the two timers, the workloop and the calls do, a TD is free, in *)
(* the chain of one endpoint, retired and in one queue, or lost to a       *)
(* submission that failed; and the timers of WiiOHCI run if and only if    *)
(* there is an isochronous endpoint.                                       *)
THEOREM IsoTDsInOnePlace == Spec => []EveryTDInOnePlace
<1>1. Spec => []IsoInv
  BY IsoBegins, IsoInductive, PTL DEF Spec
<1> QED BY <1>1, IsoPlacesHold, PTL

-----------------------------------------------------------------------------
(* What is sent carries its data: the walk of handleIsoOutTimer meets      *)
(* every TD of the next frame before the frame begins.                     *)

(* A chain is linked as its TDs stand.                                     *)
Chained == \A e \in Endpoint : \A i \in 1 .. Len(chain[e]) - 1 :
             td[chain[e][i]].next = chain[e][i + 1]

(* Of the next frame, and without its data.                                *)
Uncopied(t) == ~td[t].in /\ ~td[t].copied /\ td[t].start = frame + 1

(* The walk has yet to come to position i of the chain of e.               *)
Ahead(e, i) == \/ e \in ToSet(Tail(walk.to))
               \/ e = Head(walk.to) /\ \E j \in 1 .. i : chain[e][j] = walk.t

(* A TD of the next frame that is without its data is still before the     *)
(* walk of handleIsoOutTimer; once the walk has been round in this frame,  *)
(* there is none.                                                          *)
Caught == \A e \in Endpoint : \A i \in 1 .. Len(chain[e]) - 1 :
            Uncopied(chain[e][i]) =>
              /\ ~walked
              /\ walk.to # <<>> /\ ~walk.old => Ahead(e, i)

(* What keeps a frame from being sent without its data.                    *)
SentInv == IsoInv /\ Chained /\ Caught

(* A position of a chain that is not its last.                             *)
LEMMA LinksIs == ASSUME IsoInv, NEW e \in Endpoint, NEW i \in 1 .. Len(chain[e]) - 1
                 PROVE  /\ chain[e] \in Seq(TD) /\ Len(chain[e]) \in Nat /\ Distinct(chain[e])
                        /\ i \in 1 .. Len(chain[e]) /\ i + 1 \in 1 .. Len(chain[e])
                        /\ chain[e][i] \in TD /\ chain[e][i + 1] \in TD
                        /\ td[chain[e][i]] \in TDRecord
                        /\ \A j \in 1 .. i : j \in 1 .. Len(chain[e]) - 1
<1>1. chain[e] \in Seq(TD) /\ Distinct(chain[e]) /\ td \in [TD -> TDRecord]
  BY DEF IsoInv, IsoTypes, Placed, InPlace
<1>2. PICK k \in Nat : k = Len(chain[e])
  BY <1>1, LengthIs
<1>3. i \in 1 .. k /\ i + 1 \in 1 .. k /\ \A j \in 1 .. i : j \in 1 .. k - 1
  BY <1>2
<1>4. chain[e][i] \in TD /\ chain[e][i + 1] \in TD
  BY <1>1, <1>2, <1>3
<1> QED BY <1>1, <1>2, <1>3, <1>4

(* What is queued stays linked and caught, as long as the chains lose some *)
(* of what they hold and nothing is written to the rest.                   *)
LEMMA CaughtStays ==
  ASSUME SentInv, frame' = frame, walk' = walk, walked' = walked,
         \A e \in Endpoint : \A i \in 1 .. Len(chain'[e]) - 1 :
           /\ i \in 1 .. Len(chain[e]) - 1
           /\ chain'[e] = chain[e] /\ td'[chain[e][i]] = td[chain[e][i]]
  PROVE  Chained' /\ Caught'
<1> SUFFICES ASSUME NEW e \in Endpoint, NEW i \in 1 .. Len(chain'[e]) - 1
             PROVE  /\ td'[chain'[e][i]].next = chain'[e][i + 1]
                    /\ Uncopied(chain[e][i])' =>
                         ~walked' /\ (walk'.to # <<>> /\ ~walk'.old => Ahead(e, i)')
  BY DEF Chained, Caught
<1>1. /\ i \in 1 .. Len(chain[e]) - 1
      /\ chain'[e] = chain[e] /\ td'[chain[e][i]] = td[chain[e][i]]
  OBVIOUS
<1>2. td[chain[e][i]].next = chain[e][i + 1]
  BY <1>1 DEF SentInv, Chained
<1>3. Uncopied(chain[e][i]) => ~walked /\ (walk.to # <<>> /\ ~walk.old => Ahead(e, i))
  BY <1>1 DEF SentInv, Caught
<1>4. Uncopied(chain[e][i])' => Uncopied(chain[e][i])
  BY <1>1 DEF Uncopied
<1>5. Ahead(e, i) => Ahead(e, i)'
  BY <1>1 DEF Ahead
<1> QED BY <1>1, <1>2, <1>3, <1>4, <1>5

(* Steps that touch neither chains nor TDs nor the walk.                   *)
LEMMA AsideKeeps ==
  ASSUME SentInv, UNCHANGED <<frame, walk, walked, td, chain>>
  PROVE  Chained' /\ Caught'
BY CaughtStays

(* Steps that relink TDs that are in no chain.                             *)
LEMMA ReturnKeeps ==
  ASSUME SentInv, UNCHANGED <<frame, walk, walked, chain>>, NEW S,
         td' = Returned(S), \A e \in Endpoint : ToSet(chain[e]) \cap S = {}
  PROVE  Chained' /\ Caught'
<1>1. ASSUME NEW e \in Endpoint, NEW i \in 1 .. Len(chain[e]) - 1
      PROVE  td'[chain[e][i]] = td[chain[e][i]]
  <2>1. chain[e] \in Seq(TD) /\ i \in 1 .. Len(chain[e]) /\ chain[e][i] \in TD /\ IsoInv
    BY LinksIs DEF SentInv
  <2>2. chain[e][i] \in ToSet(chain[e])
    BY <2>1, MemberIs
  <2>3. chain[e][i] \notin S
    BY <2>2
  <2>4. td \in [TD -> TDRecord]
    BY <2>1 DEF IsoInv, IsoTypes
  <2> QED BY <2>1, <2>3, <2>4, ReturnedIs
<1> QED BY <1>1, CaughtStays

(* Steps after which the chain of e holds no more than its tail.           *)
LEMMA EmptiedKeeps ==
  ASSUME SentInv, UNCHANGED <<frame, walk, walked>>, NEW e \in Endpoint,
         Len(chain'[e]) \in {0, 1},
         \A d \in Endpoint \ {e} : chain'[d] = chain[d],
         \A d \in Endpoint \ {e} : \A i \in 1 .. Len(chain[d]) - 1 :
           td'[chain[d][i]] = td[chain[d][i]]
  PROVE  Chained' /\ Caught'
<1>1. 1 .. 0 - 1 = {} /\ 1 .. 1 - 1 = {}
  OBVIOUS
<1>2. \A d \in Endpoint : \A i \in 1 .. Len(chain'[d]) - 1 :
           /\ i \in 1 .. Len(chain[d]) - 1
           /\ chain'[d] = chain[d] /\ td'[chain[d][i]] = td[chain[d][i]]
  BY <1>1
<1> QED BY <1>2, CaughtStays

(* An abort leaves a chain that is its tail.                               *)
LEMMA AbortSent == ASSUME SentInv, AbortEnds PROVE Chained' /\ Caught'
<1> PICK e : e = gate.e
  OBVIOUS
<1>1. /\ gate.kind = "abort"
      /\ chain' = [chain EXCEPT ![e] = <<TransferTail(e)>>]
      /\ td' = Returned(ToSet(Queued(e)))
      /\ UNCHANGED <<frame, walk, walked>>
  BY DEF AbortEnds, SeqSet
<1>2. IsoInv /\ e \in Linked /\ td \in [TD -> TDRecord]
  BY <1>1 DEF SentInv, IsoInv, IsoTypes
<1>3. e \in Endpoint /\ ToSet(Queued(e)) \in SUBSET ToSet(chain[e])
  BY <1>2, ChainIs
<1>4. ASSUME NEW d \in Endpoint \ {e}, NEW i \in 1 .. Len(chain[d]) - 1
      PROVE  td'[chain[d][i]] = td[chain[d][i]]
  <2>1. chain[d] \in Seq(TD) /\ i \in 1 .. Len(chain[d]) /\ chain[d][i] \in TD
    BY <1>2, LinksIs
  <2>2. chain[d][i] \in ToSet(chain[d])
    BY <2>1, MemberIs
  <2>3. ToSet(chain[d]) \cap ToSet(chain[e]) = {}
    BY <1>2, <1>3 DEF IsoInv, Placed, InPlace
  <2>4. chain[d][i] \notin ToSet(Queued(e))
    BY <2>2, <2>3, <1>3
  <2> QED BY <2>1, <2>4, <1>1, <1>2, ReturnedIs
<1>5. Len(chain'[e]) \in {0, 1} /\ \A d \in Endpoint \ {e} : chain'[d] = chain[d]
  BY <1>1, <1>2, <1>3 DEF IsoInv, Placed, InPlace
<1>6. \A d \in Endpoint \ {e} : \A i \in 1 .. Len(chain[d]) - 1 : td'[chain[d][i]] = td[chain[d][i]]
  BY <1>4
<1> QED BY ONLY SentInv, <1>1, <1>3, <1>5, <1>6, EmptiedKeeps

(* A deletion leaves no chain.                                             *)
LEMMA DeleteSent == ASSUME SentInv, DeleteEnds PROVE Chained' /\ Caught'
<1> PICK e : e = gate.e
  OBVIOUS
<1>1. /\ gate.kind = "delete"
      /\ chain' = [chain EXCEPT ![e] = <<>>]
      /\ td' = Returned(ToSet(chain[e]))
      /\ UNCHANGED <<frame, walk, walked>>
  BY DEF DeleteEnds, SeqSet
<1>2. IsoInv /\ e \in Linked /\ td \in [TD -> TDRecord]
  BY <1>1 DEF SentInv, IsoInv, IsoTypes
<1>3. e \in Endpoint
  BY <1>2, ChainIs
<1>4. ASSUME NEW d \in Endpoint \ {e}, NEW i \in 1 .. Len(chain[d]) - 1
      PROVE  td'[chain[d][i]] = td[chain[d][i]]
  <2>1. chain[d] \in Seq(TD) /\ i \in 1 .. Len(chain[d]) /\ chain[d][i] \in TD
    BY <1>2, LinksIs
  <2>2. chain[d][i] \in ToSet(chain[d])
    BY <2>1, MemberIs
  <2>3. ToSet(chain[d]) \cap ToSet(chain[e]) = {}
    BY <1>2, <1>3 DEF IsoInv, Placed, InPlace
  <2>4. chain[d][i] \notin ToSet(chain[e])
    BY <2>2, <2>3
  <2> QED BY <2>1, <2>4, <1>1, <1>2, ReturnedIs
<1>5. Len(chain'[e]) \in {0, 1} /\ \A d \in Endpoint \ {e} : chain'[d] = chain[d]
  BY <1>1, <1>2, <1>3 DEF IsoInv, Placed, InPlace
<1>6. \A d \in Endpoint \ {e} : \A i \in 1 .. Len(chain[d]) - 1 : td'[chain[d][i]] = td[chain[d][i]]
  BY <1>4
<1> QED BY ONLY SentInv, <1>1, <1>3, <1>5, <1>6, EmptiedKeeps

(* A new endpoint has a chain that is its tail.                            *)
LEMMA CreateSent ==
  ASSUME SentInv, NEW e \in Endpoint, Create(e)
  PROVE  Chained' /\ Caught'
<1>1. IsoInv /\ UNCHANGED <<frame, walk, walked>>
  BY DEF SentInv, Create
<1>2. /\ chain' = [chain EXCEPT ![e] = Taken(1)] /\ Len(Taken(1)) = 1
      /\ \A t \in TD \ free : td'[t] = td[t]
  BY <1>1, CreateKeeps
<1>3. ASSUME NEW d \in Endpoint \ {e}, NEW i \in 1 .. Len(chain[d]) - 1
      PROVE  td'[chain[d][i]] = td[chain[d][i]]
  <2>1. chain[d] \in Seq(TD) /\ i \in 1 .. Len(chain[d]) /\ chain[d][i] \in TD
    BY <1>1, LinksIs
  <2>2. chain[d][i] \in ToSet(chain[d])
    BY <2>1, MemberIs
  <2>3. ToSet(chain[d]) \cap free = {}
    BY <1>1 DEF IsoInv, Placed, InPlace
  <2> QED BY <2>1, <2>2, <2>3, <1>2
<1>4. \A d \in Endpoint \ {e} : \A i \in 1 .. Len(chain[d]) - 1 : td'[chain[d][i]] = td[chain[d][i]]
  BY <1>3
<1>5. Len(chain'[e]) \in {0, 1} /\ \A d \in Endpoint \ {e} : chain'[d] = chain[d]
  BY <1>1, <1>2 DEF IsoInv, Placed, InPlace
<1> QED BY ONLY SentInv, e \in Endpoint, <1>1, <1>4, <1>5, EmptiedKeeps

(* The remainder of what is less than twice the divisor.                   *)
LEMMA ModOnce ==
  ASSUME NEW q \in Nat \ {0}, NEW n \in 0 .. 2 * q - 1
  PROVE  n % q = IF n < q THEN n ELSE n - q
OBVIOUS

(* Two frame numbers are equal when their difference is none.              *)
LEMMA ModZero ==
  ASSUME NEW q \in Nat \ {0}, NEW f \in 0 .. q - 1, NEW s \in 0 .. q - 1
  PROVE  (f - s) % q = 0 => f = s
OBVIOUS

-----------------------------------------------------------------------------
(* Every request is for frames two ahead or more, and none of a time when  *)
(* the frame number has gone round.                                        *)
AskedAhead == Offsets \subseteq 2 .. FrameMod - MaxFrames + 1

(* No frame of a new request is the next one.                              *)
LEMMA NotTheNext ==
  ASSUME AskedAhead, frame \in 0 .. FrameMod - 1, NEW o \in Offsets,
         NEW n \in 1 .. MaxFrames, NEW k \in 1 .. n
  PROVE  ((frame + o) + k - 1) % FrameMod # frame + 1
<1> DEFINE m == (frame + o) + k - 1
<1>1. FrameMod \in Nat \ {0} /\ MaxFrames \in Nat
  BY FrameAssumption
<1>2. o \in 2 .. FrameMod - MaxFrames + 1
  BY DEF AskedAhead
<1>3. o \in Nat /\ o >= 2 /\ o + MaxFrames <= FrameMod + 1
  BY <1>1, <1>2
<1>4. k \in Nat /\ k >= 1 /\ k <= MaxFrames /\ frame \in Nat
  BY <1>1
<1>5. m \in 0 .. 2 * FrameMod - 1
  BY <1>1, <1>3, <1>4
<1>6. m % FrameMod = IF m < FrameMod THEN m ELSE m - FrameMod
  <2> HIDE DEF m
  <2> QED BY <1>1, <1>5, ModOnce
<1>7. m # frame + 1 /\ m - FrameMod # frame + 1
  BY <1>1, <1>3, <1>4
<1> QED BY <1>6, <1>7

(* The walk begins with everything before it.                              *)
LEMMA BeginSent == ASSUME SentInv, WalkBegins PROVE Chained' /\ Caught'
<1>1. /\ IsoInv /\ UNCHANGED <<frame, td, chain, walked>>
  BY DEF SentInv, WalkBegins, tdVars, epVars
<1>2. walk'.to = list /\ walk'.t = Head(chain[Head(list)]) /\ list # <<>> /\ ~walked
  BY <1>1, WalkBeginsIs
<1>3. Chained'
  BY <1>1 DEF SentInv, Chained
<1>4. ASSUME NEW e \in Endpoint, NEW i \in 1 .. Len(chain[e]) - 1
      PROVE  Ahead(e, i)'
  <2>1. list \in Seq(Endpoint) /\ ToSet(list) = {Head(list)} \cup ToSet(Tail(list))
    BY <1>1, <1>2, TailSet DEF IsoInv, IsoTypes
  <2>2. chain[e] \in Seq(TD) /\ i \in 1 .. Len(chain[e])
    BY <1>1, LinksIs
  <2>3. chain[e] # <<>> /\ 1 \in 1 .. i
    BY <2>2
  <2>4. e \in ToSet(list)
    BY <1>1, <2>3 DEF IsoInv, IsoTypes, Linked, SeqSet
  <2>5. Head(chain[e]) = chain[e][1]
    BY <2>2, <2>3, TailIs
  <2> QED BY <1>1, <1>2, <2>1, <2>3, <2>4, <2>5 DEF Ahead
<1> QED BY <1>1, <1>2, <1>3, <1>4 DEF Caught

(* The walk copies the data of a TD of the next frame before it leaves it  *)
(* behind.                                                                 *)
LEMMA WalkSent == ASSUME SentInv, WalkTD PROVE Chained' /\ Caught'
<1>1. /\ IsoInv /\ UNCHANGED <<frame, chain, walked>>
  BY DEF SentInv, WalkTD, epVars
<1>2. /\ \A t \in TD : /\ td'[t].next = td[t].next /\ td'[t].start = td[t].start
                       /\ td'[t].in = td[t].in
                       /\ td'[t].copied = td[t].copied \/ td'[t].copied = TRUE
      /\ walk.t \in TD /\ walk'.to = walk.to /\ walk'.old = walk.old
      /\ (~td[walk.t].in /\ ~td[walk.t].copied /\ Soon(walk.t)) => td'[walk.t].copied = TRUE
      /\ td[walk.t].next # Null => walk'.t = td[walk.t].next
  BY <1>1, WalkTDIs
<1>3. \A t \in TD : Uncopied(t)' => Uncopied(t)
  BY <1>1, <1>2 DEF Uncopied
<1>4. Uncopied(walk.t) => td'[walk.t].copied = TRUE
  <2>1. frame \in Nat
    BY <1>1 DEF IsoInv, IsoTypes
  <2>2. ASSUME Uncopied(walk.t) PROVE Soon(walk.t)
    BY <2>1, <2>2 DEF Uncopied, Soon
  <2> QED BY <1>2, <2>2 DEF Uncopied
<1>5. ASSUME NEW e \in Endpoint, NEW i \in 1 .. Len(chain[e]) - 1
      PROVE  /\ td'[chain[e][i]].next = chain[e][i + 1]
             /\ Uncopied(chain[e][i])' =>
                  ~walked' /\ (walk'.to # <<>> /\ ~walk'.old => Ahead(e, i)')
  <2>1. /\ chain[e][i] \in TD /\ chain[e] \in Seq(TD)
        /\ \A j \in 1 .. i : j \in 1 .. Len(chain[e]) - 1
    BY <1>1, LinksIs
  <2>2. td[chain[e][i]].next = chain[e][i + 1]
    BY DEF SentInv, Chained
  <2>3. ASSUME Uncopied(chain[e][i])', walk'.to # <<>>, ~walk'.old PROVE Ahead(e, i)'
    <3>1. Uncopied(chain[e][i]) /\ Ahead(e, i)
      <4>1. Uncopied(chain[e][i])
        BY <2>1, <2>3, <1>1, <1>3 DEF Uncopied
      <4>2. walk.to # <<>> /\ ~walk.old
        BY <2>3, <1>2
      <4> QED BY <4>1, <4>2 DEF SentInv, Caught
    <3>2. CASE e \in ToSet(Tail(walk.to))
      BY <3>2, <1>2 DEF Ahead
    <3>3. CASE e \notin ToSet(Tail(walk.to))
      <4>1. e = Head(walk.to)
        BY <3>1, <3>3 DEF Ahead
      <4>2. PICK j \in 1 .. i : chain[e][j] = walk.t
        BY <3>1, <3>3 DEF Ahead
      <4>3. j # i
        <5> SUFFICES ASSUME j = i PROVE FALSE
          OBVIOUS
        <5>1. chain[e][i] = walk.t
          BY <4>2
        <5>2. td'[walk.t].copied = TRUE
          BY <5>1, <3>1, <1>4
        <5>3. ~td'[chain[e][i]].copied
          BY <2>3, <1>1 DEF Uncopied
        <5> QED BY <5>1, <5>2, <5>3
      <4>4. j \in 1 .. Len(chain[e]) - 1 /\ j + 1 \in 1 .. i
        BY <2>1, <4>3
      <4>5. chain[e][j + 1] \in TD
        BY <1>1, <4>4, LinksIs
      <4>6. td[walk.t].next = chain[e][j + 1]
        BY <4>2, <4>4 DEF SentInv, Chained
      <4>7. chain[e][j + 1] # Null
        BY <4>5, TDAssumption DEF Null
      <4>8. chain'[e][j + 1] = walk'.t
        BY <1>1, <1>2, <4>6, <4>7
      <4> QED BY <4>1, <4>4, <4>8, <1>2 DEF Ahead
    <3> QED BY <3>2, <3>3
  <2>4. Uncopied(chain[e][i])' => ~walked'
    BY <1>1, <1>3, <2>1 DEF SentInv, Caught
  <2> QED BY <1>2, <2>1, <2>2, <2>3, <2>4
<1> QED BY <1>1, <1>5 DEF Chained, Caught

(* The walk leaves an endpoint at its tail, behind all that is queued.     *)
LEMMA PassSent == ASSUME SentInv, WalkEndpoint PROVE Chained' /\ Caught'
<1>1. /\ IsoInv /\ UNCHANGED <<frame, chain, td>>
  BY DEF SentInv, WalkEndpoint, epVars, tdVars
<1>2. /\ walk.to # <<>> /\ walk.t = TransferTail(Head(walk.to))
      /\ walk.to \in Seq(Endpoint) /\ Head(walk.to) \in Linked
      /\ \/ Tail(walk.to) = <<>> /\ walk' = NoWalk /\ walked' = ~walk.old
         \/ /\ Tail(walk.to) # <<>> /\ walked' = walked
            /\ walk'.to = Tail(walk.to) /\ walk'.old = walk.old
            /\ walk'.t = Head(chain[Head(Tail(walk.to))])
            /\ Head(Tail(walk.to)) \in Linked
  BY <1>1, WalkEndpointIs
<1>3. ASSUME NEW e \in Endpoint, NEW i \in 1 .. Len(chain[e]) - 1,
             Uncopied(chain[e][i]), ~walk.old
      PROVE  e \in ToSet(Tail(walk.to))
  <2> SUFFICES ASSUME e \notin ToSet(Tail(walk.to)) PROVE FALSE
    OBVIOUS
  <2>1. Ahead(e, i)
    BY <1>2, <1>3 DEF SentInv, Caught
  <2>2. e = Head(walk.to)
    BY <2>1 DEF Ahead
  <2>3. PICK j \in 1 .. i : chain[e][j] = walk.t
    BY <2>1 DEF Ahead
  <2>4. chain[e] \in Seq(TD) /\ Distinct(chain[e]) /\ \A k \in 1 .. i : k \in 1 .. Len(chain[e]) - 1
    BY <1>1, LinksIs
  <2>5. PICK k \in Nat : k = Len(chain[e])
    BY <2>4, LengthIs
  <2>6. j \in 1 .. k - 1
    BY <2>4, <2>5
  <2>7. j \in 1 .. k /\ k \in 1 .. k /\ j # k
    BY <2>6
  <2>8. walk.t = chain[e][k]
    BY <1>2, <2>2, <2>5 DEF TransferTail, Last
  <2> QED BY <2>3, <2>4, <2>5, <2>7, <2>8 DEF Distinct
<1>4. Chained'
  BY <1>1 DEF SentInv, Chained
<1>5. ASSUME NEW e \in Endpoint, NEW i \in 1 .. Len(chain[e]) - 1, Uncopied(chain[e][i])
      PROVE  ~walked' /\ (walk'.to # <<>> /\ ~walk'.old => Ahead(e, i)')
  <2>0. ~walked
    BY <1>5 DEF SentInv, Caught
  <2>1. CASE Tail(walk.to) = <<>>
    <3>1. ToSet(Tail(walk.to)) = {}
      BY <2>1 DEF ToSet
    <3>2. walk.old
      BY <3>1, <1>3, <1>5
    <3>3. walked' = ~walk.old /\ walk' = NoWalk
      BY <2>1, <1>2
    <3>4. ~walked'
      BY <3>2, <3>3, Zenon
    <3>5. walk'.to = <<>>
      BY <3>3 DEF NoWalk
    <3> QED BY <3>4, <3>5
  <2>2. CASE Tail(walk.to) # <<>>
    <3>1. ~walked' /\ walk'.to = Tail(walk.to) /\ walk'.old = walk.old
          /\ walk'.t = Head(chain[Head(Tail(walk.to))])
      BY <2>0, <2>2, <1>2
    <3>2. ASSUME ~walk.old PROVE Ahead(e, i)'
      <4>1. e \in ToSet(Tail(walk.to))
        BY <3>2, <1>3, <1>5
      <4>2. Tail(walk.to) \in Seq(Endpoint)
        BY <1>2
      <4> DEFINE rest == Tail(walk.to)
      <4>3. ToSet(rest) = {Head(rest)} \cup ToSet(Tail(rest))
        <5> HIDE DEF rest
        <5>1. rest \in Seq(Endpoint) /\ rest # <<>>
          BY <4>2, <2>2 DEF rest
        <5> QED BY <5>1, TailSet
      <4>4. chain[e] \in Seq(TD) /\ i \in 1 .. Len(chain[e])
        BY <1>1, LinksIs
      <4>5. chain[e] # <<>> /\ 1 \in 1 .. i
        BY <4>4
      <4>6. Head(chain[e]) = chain[e][1]
        BY <4>4, <4>5, TailIs
      <4> QED BY <1>1, <3>1, <4>1, <4>3, <4>5, <4>6 DEF Ahead
    <3> QED BY <3>1, <3>2
  <2> QED BY <2>1, <2>2
<1>6. \A t : Uncopied(t)' => Uncopied(t)
  BY <1>1 DEF Uncopied
<1>7. Caught'
  BY <1>1, <1>5, <1>6 DEF Caught
<1> QED BY <1>4, <1>7

(* The chain behind which a request has been put, position by position.    *)
LEMMA LongerIs ==
  ASSUME IsoInv, NEW e \in Linked, NEW n \in Nat, n <= Cardinality(free)
  PROVE  \E k \in Nat :
           /\ k = Len(chain[e]) /\ k >= 1
           /\ Len(chain[e] \o Taken(n)) = k + n
           /\ \A i \in 1 .. k : (chain[e] \o Taken(n))[i] = chain[e][i]
           /\ \A i \in k .. k + n : (chain[e] \o Taken(n))[i] = Run(e, n)[i - k + 1]
<1>1. /\ chain[e] \in Seq(TD) /\ chain[e] # <<>>
      /\ Taken(n) \in Seq(TD) /\ Len(Taken(n)) = n
      /\ Run(e, n)[1] = TransferTail(e)
      /\ \A i \in 1 .. n : Run(e, n)[i + 1] = Taken(n)[i]
  BY RunIs
<1>2. PICK k \in Nat : k = Len(chain[e])
  BY <1>1, LengthIs
<1>3. k >= 1
  BY <1>1, <1>2
<1> DEFINE l == chain[e]  m == Taken(n)  r == l \o m
<1>4. l \in Seq(TD) /\ m \in Seq(TD) /\ Len(l) = k /\ Len(m) = n
  BY <1>1, <1>2
<1>5. TransferTail(e) = l[k]
  BY <1>2 DEF TransferTail, Last
<1> HIDE DEF l, m
<1>6. /\ Len(r) = k + n /\ \A i \in 1 .. k : r[i] = l[i]
      /\ \A i \in k + 1 .. k + n : r[i] = m[i - k]
  BY <1>4
<1>7. ASSUME NEW i \in k .. k + n PROVE r[i] = Run(e, n)[i - k + 1]
  <2>1. CASE i = k
    <3>1. r[k] = l[k] /\ k - k + 1 = 1
      BY <1>3, <1>6
    <3> QED BY <3>1, <2>1, <1>1, <1>5
  <2>2. CASE i # k
    <3>1. i \in k + 1 .. k + n /\ i - k \in 1 .. n
      BY <2>2
    <3>2. Run(e, n)[(i - k) + 1] = m[i - k]
      BY <3>1, <1>1 DEF m
    <3> QED BY <3>1, <3>2, <1>6
  <2> QED BY <2>1, <2>2
<1> QED BY <1>2, <1>3, <1>6, <1>7 DEF l, m

(* A request adds no TD of the next frame.                                 *)
LEMMA SubmitSent ==
  ASSUME AskedAhead, SentInv, NEW e \in Endpoint, NEW o \in Offsets, NEW n \in 1 .. MaxFrames,
         Submit(e, o, n)
  PROVE  Chained' /\ Caught'
<1>0. IsoInv /\ UNCHANGED <<frame, walk, walked>>
  BY DEF SentInv, Submit
<1>1. /\ e \in Linked /\ n \in Nat /\ n # 0 /\ n <= Cardinality(free)
      /\ frame + o \in Nat /\ asked \in Nat
      /\ td' = Described(e, frame + o, n, asked + 1)
      /\ chain' = [chain EXCEPT ![e] = chain[e] \o Taken(n)]
  BY <1>0, SubmitKeeps
<1>2. /\ \A k \in 1 .. n : td'[Run(e, n)[k]] = FrameRecord(e, frame + o, n, asked + 1, k)
      /\ \A t \in TD \ ToSet(Run(e, n)) : td'[t] = td[t]
  <2>1. asked + 1 \in Nat
    BY <1>1
  <2>2. /\ \A k \in 1 .. n : Described(e, frame + o, n, asked + 1)[Run(e, n)[k]]
                               = FrameRecord(e, frame + o, n, asked + 1, k)
        /\ \A t \in TD \ ToSet(Run(e, n)) : Described(e, frame + o, n, asked + 1)[t] = td[t]
    BY <1>0, <1>1, <2>1, DescribedIs
  <2> QED BY <2>2, <1>1
<1>3. PICK k \in Nat :
           /\ k = Len(chain[e]) /\ k >= 1
           /\ Len(chain[e] \o Taken(n)) = k + n
           /\ \A i \in 1 .. k : (chain[e] \o Taken(n))[i] = chain[e][i]
           /\ \A i \in k .. k + n : (chain[e] \o Taken(n))[i] = Run(e, n)[i - k + 1]
  BY <1>0, <1>1, LongerIs
<1>4. chain \in [Endpoint -> Seq(TD)]
  BY <1>0 DEF IsoInv, Placed, InPlace
<1>5. /\ \A d \in Endpoint \ {e} : chain'[d] = chain[d]
      /\ chain'[e] = chain[e] \o Taken(n)
  BY <1>1, <1>4
<1>6. /\ ToSet(Run(e, n)) \cap UNION {ToSet(chain[d]) : d \in Endpoint \ {e}} = {}
      /\ \A i \in 1 .. k - 1 : chain[e][i] \notin ToSet(Run(e, n))
  <2>1. /\ ToSet(Run(e, n)) = {TransferTail(e)} \cup ToSet(Taken(n))
        /\ ToSet(Taken(n)) \in SUBSET free /\ TransferTail(e) \in ToSet(chain[e])
    BY <1>0, <1>1, RunIs
  <2>2. /\ \A d \in Endpoint : ToSet(chain[d]) \cap free = {}
        /\ \A d \in Endpoint \ {e} : ToSet(chain[d]) \cap ToSet(chain[e]) = {}
    BY <1>0 DEF IsoInv, Placed, InPlace
  <2>3. ToSet(Run(e, n)) \cap UNION {ToSet(chain[d]) : d \in Endpoint \ {e}} = {}
    BY <2>1, <2>2
  <2>4. ASSUME NEW i \in 1 .. k - 1 PROVE chain[e][i] \notin ToSet(Run(e, n))
    <3>1. chain[e] \in Seq(TD) /\ Distinct(chain[e])
      BY <1>0, <1>1, RunIs
    <3>2. i \in 1 .. k /\ k \in 1 .. k /\ i # k
      BY <1>3
    <3>3. chain[e][i] # chain[e][k] /\ chain[e][i] \in ToSet(chain[e])
      BY <3>1, <3>2, <1>3, MemberIs DEF Distinct
    <3>4. chain[e][k] = TransferTail(e)
      BY <1>3 DEF TransferTail, Last
    <3> QED BY <2>1, <2>2, <3>3, <3>4
  <2> QED BY <2>3, <2>4
<1>7. ASSUME NEW d \in Endpoint, NEW i \in 1 .. Len(chain[d]) - 1
      PROVE  /\ chain'[d][i] = chain[d][i] /\ chain'[d][i + 1] = chain[d][i + 1]
             /\ td'[chain[d][i]] = td[chain[d][i]]
             /\ \A j \in 1 .. i : chain'[d][j] = chain[d][j]
  <2>1. chain[d] \in Seq(TD) /\ chain[d][i] \in TD /\ i \in 1 .. Len(chain[d])
    BY <1>0, LinksIs
  <2>2. CASE d # e
    <3>1. chain[d][i] \in ToSet(chain[d])
      BY <2>1, MemberIs
    <3>2. chain[d][i] \notin ToSet(Run(e, n))
      BY <2>2, <3>1, <1>6
    <3> QED BY <2>1, <2>2, <3>2, <1>2, <1>5
  <2>3. CASE d = e
    <3>1. i \in 1 .. k - 1
      BY <2>3, <1>3
    <3>2. i \in 1 .. k /\ i + 1 \in 1 .. k /\ \A j \in 1 .. i : j \in 1 .. k
      BY <3>1
    <3>3. chain[e][i] \notin ToSet(Run(e, n))
      BY <3>1, <1>6
    <3> QED BY <2>1, <2>3, <3>2, <3>3, <1>2, <1>3, <1>5
  <2> QED BY <2>2, <2>3
<1>8. ASSUME NEW i \in k .. k + n - 1
      PROVE  /\ td'[chain'[e][i]].next = chain'[e][i + 1]
             /\ td'[chain'[e][i]].start # frame + 1
  <2>1. PICK j \in 1 .. n : j = i - k + 1
    <3>1. i - k + 1 \in 1 .. n
      BY <1>1
    <3> QED BY <3>1
  <2>2. i \in k .. k + n /\ i + 1 \in k .. k + n /\ (i + 1) - k + 1 = j + 1
    BY <1>1, <2>1
  <2>3. chain'[e][i] = Run(e, n)[j] /\ chain'[e][i + 1] = Run(e, n)[j + 1]
    BY <2>1, <2>2, <1>3, <1>5
  <2>4. td'[chain'[e][i]] = FrameRecord(e, frame + o, n, asked + 1, j)
    BY <2>3, <1>2
  <2>5. ((frame + o) + j - 1) % FrameMod # frame + 1
    <3>1. frame \in 0 .. FrameMod - 1
      BY <1>0 DEF IsoInv, IsoTypes
    <3> QED BY <3>1, NotTheNext
  <2> QED BY <2>3, <2>4, <2>5 DEF FrameRecord
<1>9. ASSUME NEW d \in Endpoint, NEW i \in 1 .. Len(chain'[d]) - 1
      PROVE  /\ td'[chain'[d][i]].next = chain'[d][i + 1]
             /\ td'[chain'[d][i]].start = frame + 1 => i \in 1 .. Len(chain[d]) - 1
  <2>1. CASE i \in 1 .. Len(chain[d]) - 1
    <3>1. td[chain[d][i]].next = chain[d][i + 1]
      BY <2>1 DEF SentInv, Chained
    <3> QED BY <2>1, <3>1, <1>7
  <2>2. CASE i \notin 1 .. Len(chain[d]) - 1
    <3>1. d = e
      BY <2>2, <1>5
    <3>2. i \in k .. k + n - 1
      <4>1. i \in 1 .. k + n - 1 /\ i \notin 1 .. k - 1
        BY <2>2, <3>1, <1>3, <1>5
      <4> QED BY <4>1, <1>1
    <3> QED BY <3>1, <3>2, <1>8
  <2> QED BY <2>1, <2>2
<1>10. ASSUME NEW d \in Endpoint, NEW i \in 1 .. Len(chain[d]) - 1,
              ~td'[chain'[d][i]].in, ~td'[chain'[d][i]].copied,
              td'[chain'[d][i]].start = frame + 1
       PROVE  ~walked' /\ (walk'.to # <<>> /\ ~walk'.old => Ahead(d, i)')
  <2>1. Uncopied(chain[d][i])
    BY <1>7, <1>10 DEF Uncopied
  <2>2. ~walked /\ (walk.to # <<>> /\ ~walk.old => Ahead(d, i))
    BY <2>1 DEF SentInv, Caught
  <2>3. Ahead(d, i) => Ahead(d, i)'
    BY <1>0, <1>7 DEF Ahead
  <2> QED BY <1>0, <2>2, <2>3
<1>11. Chained'
  BY <1>9 DEF Chained
<1>12. Caught'
  BY <1>0, <1>9, <1>10 DEF Caught, Uncopied
<1> QED BY <1>11, <1>12

(* The controller's step: what it sends was copied.                        *)
LEMMA FrameSent ==
  ASSUME SentInv, Frame, stale \subseteq {0}
  PROVE  Chained' /\ Caught' /\ stale' \subseteq {0}
<1>0. IsoInv
  BY DEF SentInv
<1>1. /\ NextFrame \in 0 .. FrameMod - 1 /\ frame' = NextFrame
      /\ DueEndpoints \in SUBSET Endpoint
      /\ \A e \in DueEndpoints :
              /\ e \in Linked /\ Due(e, NextFrame)
              /\ chain[e] \in Seq(TD) /\ Distinct(chain[e]) /\ Len(chain[e]) >= 2
      /\ ToSet(Now) = {Head(chain[e]) : e \in DueEndpoints}
      /\ chain' = Shortened(chain, DueEndpoints)
  BY <1>0, FrameIs
<1>2. /\ chain \in [Endpoint -> Seq(TD)] /\ td' = td
      /\ walked' = FALSE
  <2>1. UNCHANGED tdVars /\ walked' = FALSE
    BY Zenon DEF Frame
  <2> QED BY <2>1, <1>0 DEF tdVars, IsoInv, Placed, InPlace
<1>3. walk'.to = <<>> \/ walk'.old
  <2>1. walk' = IF walk.to = <<>> THEN walk ELSE [walk EXCEPT !.old = TRUE]
    BY Zenon DEF Frame
  <2>2. walk \in [to : Seq(Endpoint), t : TD \cup {Null}, old : BOOLEAN]
    BY <1>0 DEF IsoInv, IsoTypes
  <2> QED BY <2>1, <2>2
<1>4. Caught'
  BY <1>2, <1>3 DEF Caught
<1>5. ASSUME NEW e \in Endpoint, NEW i \in 1 .. Len(chain'[e]) - 1
      PROVE  td'[chain'[e][i]].next = chain'[e][i + 1]
  <2>1. CASE e \notin DueEndpoints
    <3>1. chain'[e] = chain[e]
      BY <2>1, <1>1 DEF Shortened
    <3> QED BY <3>1, <1>2 DEF SentInv, Chained
  <2>2. CASE e \in DueEndpoints
    <3>1. chain'[e] = Tail(chain[e]) /\ chain[e] \in Seq(TD) /\ Len(chain[e]) >= 2
      BY <2>2, <1>1 DEF Shortened
    <3>2. PICK k \in Nat : k = Len(chain[e])
      BY <3>1, LengthIs
    <3>3. k >= 2
      BY <3>1, <3>2
    <3>4. chain[e] # <<>>
      BY <3>2, <3>3
    <3>5. /\ Len(Tail(chain[e])) = k - 1
          /\ \A j \in 1 .. Len(Tail(chain[e])) : Tail(chain[e])[j] = chain[e][j + 1]
      BY <3>1, <3>2, <3>4, TailIs
    <3>6. i \in 1 .. k - 2
      BY <3>1, <3>3, <3>5
    <3>7. i \in 1 .. k - 1 /\ i + 1 \in 1 .. k - 1
      BY <3>6
    <3>8. chain'[e][i] = chain[e][i + 1] /\ chain'[e][i + 1] = chain[e][(i + 1) + 1]
      BY <3>1, <3>5, <3>7
    <3>9. td[chain[e][i + 1]].next = chain[e][(i + 1) + 1]
      BY <3>2, <3>7 DEF SentInv, Chained
    <3> QED BY <3>8, <3>9, <1>2
  <2> QED BY <2>1, <2>2
<1>6. Chained'
  BY <1>5 DEF Chained
<1>7. ASSUME NEW e \in DueEndpoints, Lateness(Head(chain[e]), NextFrame) = 0,
             ~td[Head(chain[e])].in, ~td[Head(chain[e])].copied
      PROVE  NextFrame = 0
  <2> SUFFICES ASSUME NextFrame # 0 PROVE FALSE
    OBVIOUS
  <2>1. /\ e \in Linked /\ Due(e, NextFrame) /\ e \in Endpoint
        /\ chain[e] \in Seq(TD) /\ Len(chain[e]) >= 2
    BY <1>1
  <2>2. PICK k \in Nat : k = Len(chain[e])
    BY <2>1, LengthIs
  <2>3. k >= 2
    BY <2>1, <2>2
  <2>4. 1 \in 1 .. Len(chain[e]) - 1 /\ chain[e] # <<>>
    BY <2>2, <2>3
  <2>5. Head(chain[e]) = chain[e][1] /\ chain[e][1] \in TD /\ td[chain[e][1]] \in TDRecord
    BY <1>0, <2>1, <2>4, LinksIs, TailIs
  <2>6. td[chain[e][1]].start \in 0 .. FrameMod - 1
    BY <2>5 DEF TDRecord
  <2>7. td[chain[e][1]].start = NextFrame
    BY <1>1, <1>7, <2>5, <2>6, FrameAssumption, ModZero DEF Lateness
  <2>8. NextFrame = frame + 1
    <3>1. frame \in 0 .. FrameMod - 1 /\ FrameMod \in Nat \ {0}
      BY <1>0, FrameAssumption DEF IsoInv, IsoTypes
    <3>2. frame + 1 \in 0 .. 2 * FrameMod - 1
      BY <3>1
    <3>3. NextFrame = IF frame + 1 < FrameMod THEN frame + 1 ELSE frame + 1 - FrameMod
      BY <3>1, <3>2, ModOnce DEF NextFrame
    <3> QED BY <3>1, <3>3
  <2>9. Uncopied(chain[e][1])
    BY <1>7, <2>5, <2>7, <2>8 DEF Uncopied
  <2>10. ~walked
    BY <2>1, <2>4, <2>9 DEF SentInv, Caught
  <2>11. Busy /\ isoOn
    BY <2>1 DEF Busy, Due
  <2>12. outOn
    <3>1. gate.kind # "delete"
      BY <1>0, <2>11 DEF IsoInv, Timers
    <3>2. list # <<>>
      BY <2>1 DEF Linked, SeqSet, ToSet
    <3> QED BY <3>1, <3>2, <1>0 DEF IsoInv, Timers
  <2>13. Prompt
    BY Zenon DEF Frame
  <2> QED BY <2>10, <2>11, <2>12, <2>13 DEF Prompt
<1>8. stale' = stale \cup {NextFrame : t \in {u \in {v \in ToSet(Now) : Lateness(v, NextFrame) = 0 /\ ~td[v].in} : ~td[u].copied}}
  BY DEF Frame, Now, DueList, DueEndpoints, NextFrame, SeqSet
<1>9. stale' \subseteq {0}
  BY <1>1, <1>7, <1>8
<1> QED BY <1>4, <1>6, <1>9

-----------------------------------------------------------------------------
(* Steps of others than the controller, the walk and the calls that write  *)
(* to TDs.                                                                 *)
AsideSteps ==
  \/ \E e \in Endpoint, kind \in {"abort", "delete"} : Begin(kind, e)
  \/ \E e \in Endpoint, n \in 1 .. MaxFrames : SubmitFails(e, n - 1)
  \/ IsoInTimer \/ HandleInterrupt \/ CallbackReturns

(* The filter and the workloop relink TDs that are in no chain.            *)
LEMMA RetiredSent ==
  ASSUME SentInv, FilterInterrupt \/ Complete
  PROVE  Chained' /\ Caught'
<1>0. IsoInv
  BY DEF SentInv
<1>1. UNCHANGED <<frame, walk, walked, chain>>
  BY DEF FilterInterrupt, Complete, epVars
<1>2. PICK S : S \in SUBSET Retired /\ td' = Returned(S)
  <2>1. Retired = ToSet(work) \cup ToSet(done) \cup ToSet(isoIn) \cup ToSet(hcDone) /\ work \in Seq(TD)
    BY <1>0, LineIs
  <2>2. CASE FilterInterrupt
    <3>1. td' = Returned(ToSet(hcDone))
      BY <2>2 DEF FilterInterrupt, SeqSet
    <3> QED BY <2>1, <3>1
  <2>3. CASE Complete
    <3>1. td' = Returned({Head(work)}) /\ work # <<>>
      BY <2>3 DEF Complete
    <3>2. Head(work) \in ToSet(work)
      BY <2>1, <3>1, TailSet
    <3> QED BY <2>1, <3>1, <3>2
  <2> QED BY <2>2, <2>3
<1>3. \A e \in Endpoint : ToSet(chain[e]) \cap S = {}
  BY <1>0, <1>2 DEF IsoInv, Placed, InPlace, Retired, SeqSet
<1> QED BY <1>1, <1>2, <1>3, ReturnKeeps

(* Every step keeps it, and sends nothing stale but in frame 0.            *)
LEMMA SentInductive ==
  ASSUME AskedAhead, SentInv /\ SentWithData, [Next]_vars
  PROVE  (SentInv /\ SentWithData)'
<1>1. IsoInv'
  BY IsoInductive DEF SentInv
<1>2. CASE Frame
  <2>1. Chained' /\ Caught' /\ stale' \subseteq {0}
    BY <1>2, FrameSent DEF SentWithData
  <2> QED BY <2>1, <1>1 DEF SentInv, SentWithData
<1>3. SUFFICES ASSUME ~Frame PROVE Chained' /\ Caught' /\ stale' = stale
  BY <1>1, <1>2 DEF SentInv, SentWithData
<1>4. CASE UNCHANGED vars
  <2>1. UNCHANGED <<frame, walk, walked, td, chain, stale>>
    BY <1>4 DEF vars, epVars, tdVars
  <2> QED BY <2>1, AsideKeeps
<1>5. CASE AsideSteps
  <2>1. UNCHANGED <<frame, walk, walked, td, chain, stale>>
    BY <1>5 DEF AsideSteps, Begin, SubmitFails, IsoInTimer, HandleInterrupt, CallbackReturns,
                epVars, tdVars
  <2> QED BY <2>1, AsideKeeps
<1>6. ASSUME NEW e \in Endpoint, Create(e) PROVE Chained' /\ Caught' /\ stale' = stale
  <2>1. stale' = stale
    BY <1>6 DEF Create
  <2> QED BY <2>1, <1>6, CreateSent
<1>7. ASSUME NEW e \in Endpoint, NEW n \in 1 .. MaxFrames, NEW o \in Offsets, Submit(e, o, n)
      PROVE  Chained' /\ Caught' /\ stale' = stale
  <2>1. stale' = stale
    BY <1>7 DEF Submit
  <2> QED BY <2>1, <1>7, SubmitSent
<1>8. CASE AbortEnds \/ DeleteEnds
  <2>1. stale' = stale
    BY <1>8 DEF AbortEnds, DeleteEnds
  <2> QED BY <2>1, <1>8, AbortSent, DeleteSent
<1>9. CASE FilterInterrupt \/ Complete
  <2>1. stale' = stale
    BY <1>9 DEF FilterInterrupt, Complete
  <2> QED BY <2>1, <1>9, RetiredSent
<1>10. CASE OutTimer
  <2>1. stale' = stale
    BY <1>10 DEF OutTimer, WalkBegins, WalkTD, WalkEndpoint
  <2> QED BY <2>1, <1>10, BeginSent, WalkSent, PassSent DEF OutTimer
<1>11. Next => \/ AsideSteps \/ AbortEnds \/ DeleteEnds \/ FilterInterrupt \/ Complete \/ OutTimer
               \/ \E e \in Endpoint : Create(e)
               \/ \E e \in Endpoint, n \in 1 .. MaxFrames, o \in Offsets : Submit(e, o, n)
  BY <1>3, Zenon DEF Next, Call, Workloop, AsideSteps
<1> QED BY <1>4, <1>5, <1>6, <1>7, <1>8, <1>9, <1>10, <1>11

(* At the start nothing is queued.                                         *)
LEMMA SentBegins == Init => SentInv /\ SentWithData
<1> SUFFICES ASSUME Init PROVE SentInv /\ SentWithData
  OBVIOUS
<1>1. chain = [e \in Endpoint |-> <<>>] /\ stale = {}
  BY DEF Init
<1>2. \A e \in Endpoint : 1 .. Len(chain[e]) - 1 = {}
  BY <1>1
<1> QED BY <1>1, <1>2, IsoBegins DEF SentInv, SentWithData, Chained, Caught

(* An outbound frame is sent with its data: if every request asks for      *)
(* frames two ahead or more of the present one, the walk of                *)
(* handleIsoOutTimer has copied the data of a TD before the controller     *)
(* comes to it, however its steps and the calls that change the chains     *)
(* alternate, as long as it goes through the list once in a frame          *)
(* (Prompt); but for frame 0, which is above no frame number it is         *)
(* compared with.                                                          *)
THEOREM SentWithDataHolds == ASSUME AskedAhead PROVE Spec => []SentWithData
<1>1. SentInv /\ SentWithData /\ [Next]_vars => (SentInv /\ SentWithData)'
  BY SentInductive
<1> QED BY <1>1, SentBegins, PTL DEF Spec

-----------------------------------------------------------------------------
(* A request is answered after its frames: the TDs of a request keep their *)
(* order from the chain through the line.                                  *)

(* A list is in order, and before lists that are in order.                 *)
InTurn(line, q, C) ==
  /\ Ordered(line, C)
  /\ \A e \in Endpoint : Ordered(q[e], C) /\ Precedes(ToSet(line), ToSet(q[e]), C)

(* The first of some of the lists go to the end of the one before them.    *)
LEMMA HeadsTurn ==
  ASSUME NEW C, NEW line \in Seq(TD), NEW q \in [Endpoint -> Seq(TD)], InTurn(line, q, C),
         \A e, d \in Endpoint : e # d => Precedes(ToSet(q[e]), ToSet(q[d]), C),
         NEW D \in SUBSET Endpoint, \A e \in D : q[e] # <<>>,
         NEW due \in Seq(D), Distinct(due),
         NEW now \in Seq(TD), Len(now) = Len(due),
         \A i \in 1 .. Len(now) : now[i] = Head(q[due[i]])
  PROVE  InTurn(line \o now, Shortened(q, D), C)
<1>1. \A e \in D : /\ Head(q[e]) \in TD /\ Tail(q[e]) \in Seq(TD)
                   /\ ToSet(q[e]) = {Head(q[e])} \cup ToSet(Tail(q[e]))
                   /\ Ordered(Tail(q[e]), C)
                   /\ Precedes({Head(q[e])}, ToSet(Tail(q[e])), C)
  BY TailSet, TailOrdered DEF InTurn
<1>2. \A i \in 1 .. Len(now) : due[i] \in D /\ now[i] \in ToSet(q[due[i]])
  <2>1. \A i \in 1 .. Len(due) : due[i] \in D
    OBVIOUS
  <2>2. \A e \in D : Head(q[e]) \in ToSet(q[e])
    BY <1>1
  <2> QED BY <2>1, <2>2
<1>3. Ordered(now, C)
  <2> SUFFICES ASSUME NEW i \in 1 .. Len(now), NEW j \in 1 .. Len(now), i < j
               PROVE  <<now[i], now[j]>> \notin C
    BY DEF Ordered
  <2>1. due[i] # due[j]
    <3>1. i # j
      BY LengthIs
    <3> QED BY <3>1 DEF Distinct
  <2> QED BY <2>1, <1>2 DEF Precedes
<1>4. \A x \in ToSet(now) : \E e \in D : x = Head(q[e])
  <2>1. \A x \in ToSet(now) : \E i \in 1 .. Len(now) : now[i] = x
    BY MemberIs
  <2> QED BY <2>1, <1>2
<1>5. Precedes(ToSet(line), ToSet(now), C)
  BY <1>1, <1>4 DEF InTurn, Precedes
<1>6. Ordered(line \o now, C)
  BY <1>3, <1>5, JoinOrdered DEF InTurn
<1>7. ToSet(line \o now) = ToSet(line) \cup ToSet(now)
  BY JoinSet
<1>8. ASSUME NEW e \in Endpoint
      PROVE  /\ Ordered(Shortened(q, D)[e], C)
             /\ Precedes(ToSet(line \o now), ToSet(Shortened(q, D)[e]), C)
  <2>1. Shortened(q, D)[e] = IF e \in D THEN Tail(q[e]) ELSE q[e]
    BY DEF Shortened
  <2>2. ToSet(Shortened(q, D)[e]) \in SUBSET ToSet(q[e]) /\ Ordered(Shortened(q, D)[e], C)
    BY <2>1, <1>1 DEF InTurn
  <2>3. Precedes(ToSet(line), ToSet(Shortened(q, D)[e]), C)
    BY <2>2 DEF InTurn, Precedes
  <2>4. ASSUME NEW x \in ToSet(now), NEW y \in ToSet(Shortened(q, D)[e])
        PROVE  <<x, y>> \notin C
    <3>1. PICK d \in D : x = Head(q[d])
      BY <1>4
    <3>2. CASE d = e
      BY <3>1, <3>2, <2>1, <1>1 DEF Precedes
    <3>3. CASE d # e
      BY <3>1, <3>3, <2>2, <1>1 DEF Precedes
    <3> QED BY <3>2, <3>3
  <2> QED BY <1>7, <2>2, <2>3, <2>4 DEF Precedes
<1> QED BY <1>6, <1>8 DEF InTurn

(* The first of the line leaves.                                           *)
LEMMA FirstTurn ==
  ASSUME NEW C, NEW line \in Seq(TD), line # <<>>, NEW q, InTurn(line, q, C)
  PROVE  /\ InTurn(Tail(line), q, C)
         /\ Precedes({Head(line)}, ToSet(Tail(line)), C)
         /\ \A e \in Endpoint : Precedes({Head(line)}, ToSet(q[e]), C)
<1>1. ToSet(line) = {Head(line)} \cup ToSet(Tail(line))
  BY TailSet
<1>2. Ordered(Tail(line), C) /\ Precedes({Head(line)}, ToSet(Tail(line)), C)
  BY TailOrdered DEF InTurn
<1> QED BY <1>1, <1>2 DEF InTurn, Precedes

(* Lists that are no longer than they were, and pairs that say no more.    *)
LEMMA TurnStays ==
  ASSUME NEW C, NEW D, NEW line \in Seq(TD), NEW q \in [Endpoint -> Seq(TD)], InTurn(line, q, C),
         NEW p \in [Endpoint -> Seq(TD)], \A e \in Endpoint : p[e] = q[e] \/ p[e] = <<>>,
         \A x, y \in ToSet(line) \cup UNION {ToSet(q[e]) : e \in Endpoint} :
           <<x, y>> \in D => <<x, y>> \in C
  PROVE  InTurn(line, p, D)
<1>1. Ordered(line, D)
  BY OrderedStays DEF InTurn
<1>2. ASSUME NEW e \in Endpoint PROVE Ordered(p[e], D) /\ Precedes(ToSet(line), ToSet(p[e]), D)
  <2>1. Ordered(<<>>, D) /\ ToSet(<<>>) = {}
    BY DEF Ordered, ToSet
  <2>2. CASE p[e] = q[e]
    <3>1. q[e] \in Seq(TD) /\ Ordered(q[e], C) /\ Precedes(ToSet(line), ToSet(q[e]), C)
      BY DEF InTurn
    <3>2. \A x, y \in ToSet(q[e]) : <<x, y>> \in D => <<x, y>> \in C
      OBVIOUS
    <3>3. Ordered(q[e], D)
      BY <3>1, <3>2, OrderedStays
    <3>4. Precedes(ToSet(line), ToSet(q[e]), D)
      BY <3>1 DEF Precedes
    <3> QED BY <3>3, <3>4, <2>2
  <2>3. CASE p[e] = <<>>
    BY <2>1, <2>3 DEF Precedes
  <2> QED BY <2>2, <2>3
<1> QED BY <1>1, <1>2 DEF InTurn

-----------------------------------------------------------------------------
(* What the endpoints have queued.                                         *)
Queues == [e \in Endpoint |-> Queued(e)]

(* The TDs on their way: queued, or retired and not yet processed.         *)
Active == Retired \cup UNION {ToSet(Queues[e]) : e \in Endpoint}

(* The requests of which this is not said: a newer batch went before, or a *)
(* removal came between.                                                   *)
Excused == overtaken \cup cut

(* The last frame of a request that nothing excuses, and another of its    *)
(* frames behind it.                                                       *)
LastBefore == {p \in TD \X TD : /\ td[p[1]].last /\ td[p[1]].req = td[p[2]].req
                                /\ td[p[1]].req \notin Excused}

(* No request is queued at two endpoints.                                  *)
Separate == \A e, d \in Endpoint : e # d =>
              \A x \in ToSet(Queues[e]), y \in ToSet(Queues[d]) : td[x].req # td[y].req

(* A request is inbound or outbound.                                       *)
OneWay == \A x, y \in Active : td[x].req = td[y].req => td[x].in = td[y].in

(* Only inbound TDs wait for the timer.                                    *)
Inwards == \A x \in ToSet(isoIn) : td[x].in

(* Requests on their way were made, and their last frame comes before they *)
(* are answered.                                                           *)
Pending == \A x \in Active : /\ td[x].req <= asked
                             /\ td[x].last /\ td[x].req \notin Excused => td[x].req \in open

(* What keeps a request from being answered before its frames.             *)
AnswerInv == /\ IsoInv /\ InTurn(Line, Queues, LastBefore)
             /\ Separate /\ OneWay /\ Inwards /\ Pending

(* What is queued, apart from what is retired.                             *)
LEMMA QueuesIs ==
  ASSUME IsoInv
  PROVE  /\ Queues \in [Endpoint -> Seq(TD)]
         /\ \A e \in Endpoint : /\ Queues[e] = Front(chain[e])
                                /\ ToSet(Queues[e]) \in SUBSET ToSet(chain[e])
                                /\ chain[e] = <<>> => Queues[e] = <<>>
         /\ Line \in Seq(TD) /\ Retired = ToSet(Line) /\ Active \in SUBSET TD
         /\ \A e \in Endpoint : Retired \cap ToSet(Queues[e]) = {}
<1>1. chain \in [Endpoint -> Seq(TD)] /\ Line \in Seq(TD)
  BY DEF IsoInv, Placed, InPlace
<1>2. ASSUME NEW e \in Endpoint
      PROVE  /\ Queues[e] = Front(chain[e]) /\ Queues[e] \in Seq(TD)
             /\ ToSet(Queues[e]) \in SUBSET ToSet(chain[e])
             /\ chain[e] = <<>> => Queues[e] = <<>>
  <2>1. chain[e] \in Seq(TD) /\ Queues[e] = Front(chain[e])
    BY <1>1 DEF Queues, Queued
  <2>2. /\ Front(chain[e]) \in Seq(TD) /\ ToSet(Front(chain[e])) \in SUBSET ToSet(chain[e])
        /\ Len(chain[e]) \in {0, 1} => Front(chain[e]) = <<>>
    BY <2>1, FrontType
  <2> QED BY <2>1, <2>2
<1>3. Queues \in [Endpoint -> Seq(TD)]
  <2>1. Queues = [e \in Endpoint |-> Queues[e]]
    BY DEF Queues
  <2> QED BY <2>1, <1>2
<1>4. Retired = ToSet(Line) /\ Retired \in SUBSET TD
  BY <1>1, MemberIs DEF Retired, SeqSet
<1>5. \A e \in Endpoint : ToSet(Queues[e]) \in SUBSET TD
  BY <1>1, <1>2, MemberIs
<1>6. \A e \in Endpoint : Retired \cap ToSet(Queues[e]) = {}
  BY <1>2, <1>4 DEF IsoInv, Placed, InPlace
<1> QED BY <1>1, <1>2, <1>3, <1>4, <1>5, <1>6 DEF Active

(* As far as requests go, a TD is what it was.                             *)
SameRequest(t) == td'[t].req = td[t].req /\ td'[t].last = td[t].last /\ td'[t].in = td[t].in

(* Steps that take TDs from those on their way, and put none there.        *)
LEMMA AnswerStays ==
  ASSUME AnswerInv, IsoInv', NEW S, S = Active', S \in SUBSET Active,
         \A t \in S : SameRequest(t),
         Excused \in SUBSET Excused', asked' = asked,
         \A e \in Endpoint : ToSet(Queues'[e]) \in SUBSET ToSet(Queues[e]),
         \A x \in ToSet(isoIn') : td[x].in,
         InTurn(Line', Queues', LastBefore'),
         \A t \in S : (td[t].last /\ td[t].req \notin Excused' /\ td[t].req \in open) => td[t].req \in open'
  PROVE  AnswerInv'
<1>1. Separate'
  <2> SUFFICES ASSUME NEW e \in Endpoint, NEW d \in Endpoint, e # d,
                      NEW x \in ToSet(Queues'[e]), NEW y \in ToSet(Queues'[d])
               PROVE  td'[x].req # td'[y].req
    BY DEF Separate
  <2>1. x \in ToSet(Queues[e]) /\ y \in ToSet(Queues[d])
    OBVIOUS
  <2>2. x \in S /\ y \in S
    BY DEF Active
  <2>3. td[x].req # td[y].req
    BY <2>1 DEF AnswerInv, Separate
  <2> QED BY <2>2, <2>3 DEF SameRequest
<1>2. OneWay'
  BY DEF OneWay, AnswerInv, SameRequest
<1>3. Inwards'
  <2> SUFFICES ASSUME NEW x \in ToSet(isoIn') PROVE td'[x].in
    BY DEF Inwards
  <2>1. td[x].in
    OBVIOUS
  <2>2. x \in S
    <3>1. Retired' = ToSet(work') \cup ToSet(done') \cup ToSet(isoIn') \cup ToSet(hcDone')
      <4>1. /\ work' \in Seq(TD) /\ done' \in Seq(TD) /\ isoIn' \in Seq(TD) /\ hcDone' \in Seq(TD)
        BY DEF IsoInv, IsoTypes
      <4>2. ToSet(work' \o done' \o isoIn' \o hcDone')
              = ToSet(work') \cup ToSet(done') \cup ToSet(isoIn') \cup ToSet(hcDone')
        BY <4>1, FourIs
      <4> QED BY <4>2 DEF Retired, Line, SeqSet
    <3> QED BY <3>1 DEF Active
  <2> QED BY <2>1, <2>2 DEF SameRequest
<1>4. Pending'
  BY DEF Pending, AnswerInv, SameRequest
<1> QED BY <1>1, <1>2, <1>3, <1>4 DEF AnswerInv

(* Pairs say no more of TDs that are what they were.                       *)
LEMMA PairsStay ==
  ASSUME NEW S \in SUBSET TD, \A t \in S : SameRequest(t), Excused \in SUBSET Excused'
  PROVE  \A x, y \in S : <<x, y>> \in LastBefore' => <<x, y>> \in LastBefore
<1> SUFFICES ASSUME NEW x \in S, NEW y \in S, <<x, y>> \in LastBefore'
             PROVE  <<x, y>> \in LastBefore
  OBVIOUS
<1>1. td'[x].last /\ td'[x].req = td'[y].req /\ td'[x].req \notin Excused'
  BY DEF LastBefore
<1>2. td[x].last /\ td[x].req = td[y].req /\ td[x].req \notin Excused
  BY <1>1 DEF SameRequest
<1> QED BY <1>2 DEF LastBefore

(* Steps that leave what is on its way where it is, or take some from what *)
(* is queued.                                                              *)
LEMMA AsideAnswer ==
  ASSUME AnswerInv, IsoInv', Line' = Line, isoIn' = isoIn, asked' = asked,
         \A e \in Endpoint : Queues'[e] = Queues[e] \/ Queues'[e] = <<>>,
         NEW S, S = Active', \A t \in S : SameRequest(t),
         Excused \in SUBSET Excused',
         \A t \in S : (td[t].last /\ td[t].req \notin Excused' /\ td[t].req \in open) => td[t].req \in open'
  PROVE  AnswerInv'
<1>0. IsoInv
  BY DEF AnswerInv
<1>1. /\ Queues \in [Endpoint -> Seq(TD)] /\ Line \in Seq(TD) /\ Active \in SUBSET TD
      /\ Retired = ToSet(Line)
  BY <1>0, QueuesIs
<1>2. Queues' \in [Endpoint -> Seq(TD)]
  <2>1. Queues' = [e \in Endpoint |-> Queues'[e]]
    BY DEF Queues
  <2>2. <<>> \in Seq(TD)
    OBVIOUS
  <2> QED BY <2>1, <2>2, <1>1
<1>3. ToSet(<<>>) = {}
  BY DEF ToSet
<1>4. S \in SUBSET Active
  BY <1>3 DEF Active, Retired
<1>5. \A x, y \in S : <<x, y>> \in LastBefore' => <<x, y>> \in LastBefore
  BY <1>1, <1>4, PairsStay
<1>6. InTurn(Line, Queues', LastBefore')
  <2>1. S = ToSet(Line) \cup UNION {ToSet(Queues'[e]) : e \in Endpoint}
    BY DEF Active, Retired, SeqSet
  <2>2. InTurn(Line, Queues', LastBefore)
    <3>1. Ordered(<<>>, LastBefore)
      BY DEF Ordered
    <3> QED BY <3>1, <1>3 DEF AnswerInv, InTurn, Precedes
  <2>3. \A e \in Endpoint : Queues'[e] = Queues'[e] \/ Queues'[e] = <<>>
    OBVIOUS
  <2> DEFINE q == Queues'  D == LastBefore'
  <2>4. /\ InTurn(Line, q, LastBefore) /\ q \in [Endpoint -> Seq(TD)]
        /\ \A x, y \in ToSet(Line) \cup UNION {ToSet(q[e]) : e \in Endpoint} :
           <<x, y>> \in D => <<x, y>> \in LastBefore
        /\ \A e \in Endpoint : q[e] = q[e] \/ q[e] = <<>>
    BY <2>1, <2>2, <1>2, <1>5
  <2> HIDE DEF q, D
  <2>5. InTurn(Line, q, D)
    BY <2>4, <1>1, TurnStays
  <2> QED BY <2>5 DEF q, D
<1>7. \A x \in ToSet(isoIn') : td[x].in
  BY DEF AnswerInv, Inwards
<1> QED BY <1>3, <1>4, <1>6, <1>7, AnswerStays

-----------------------------------------------------------------------------
(* Steps that move no TD that is on its way.                               *)
QuietSteps ==
  \/ \E e \in Endpoint, kind \in {"abort", "delete"} : Begin(kind, e)
  \/ \E e \in Endpoint, n \in 1 .. MaxFrames : SubmitFails(e, n - 1)
  \/ CallbackReturns \/ OutTimer \/ UNCHANGED vars

(* They keep the order.                                                    *)
LEMMA QuietAnswer ==
  ASSUME AnswerInv, IsoInv', QuietSteps
  PROVE  AnswerInv' /\ early' = early /\ Excused' = Excused
<1>0. IsoInv
  BY DEF AnswerInv
<1>1. UNCHANGED <<chain, work, done, isoIn, hcDone, asked, open, early, overtaken, cut>>
  BY DEF QuietSteps, Begin, SubmitFails, CallbackReturns, OutTimer, WalkBegins, WalkTD,
         WalkEndpoint, vars, epVars, lists, reqVars
<1>2. \A t \in TD : SameRequest(t)
  <2>1. CASE WalkTD
    BY <2>1, <1>0, WalkTDIs DEF SameRequest
  <2>2. CASE ~WalkTD
    <3>1. td' = td
      BY <2>2 DEF QuietSteps, Begin, SubmitFails, CallbackReturns, OutTimer, WalkBegins,
                  WalkEndpoint, vars, tdVars
    <3> QED BY <3>1 DEF SameRequest
  <2> QED BY <2>1, <2>2
<1>3. Line' = Line /\ Queues' = Queues /\ Active' = Active /\ Excused' = Excused
  BY <1>1 DEF Line, Queues, Queued, Active, Retired, Excused
<1>4. Active \in SUBSET TD
  BY <1>0, QueuesIs
<1>5. PICK S : S = Active'
  OBVIOUS
<1>6. \A t \in S : SameRequest(t)
  BY <1>2, <1>3, <1>4, <1>5
<1>7. AnswerInv'
  BY <1>1, <1>3, <1>5, <1>6, AsideAnswer
<1> QED BY <1>1, <1>3, <1>7

(* After which one endpoint has nothing queued.                            *)
LEMMA EmptiedQueues ==
  ASSUME IsoInv, NEW e \in Endpoint, NEW c \in Seq(TD), Len(c) \in {0, 1},
         chain' = [chain EXCEPT ![e] = c], Line' = Line
  PROVE  /\ \A d \in Endpoint : Queues'[d] = Queues[d] \/ Queues'[d] = <<>>
         /\ Active' \in SUBSET Active
<1>1. chain \in [Endpoint -> Seq(TD)]
  BY DEF IsoInv, Placed, InPlace
<1>2. \A d \in Endpoint : chain'[d] = IF d = e THEN c ELSE chain[d]
  BY <1>1
<1>3. \A d \in Endpoint : Queues'[d] = Front(chain'[d]) /\ Queues[d] = Front(chain[d])
  BY DEF Queues, Queued
<1>4. Front(c) = <<>>
  BY FrontType
<1>5. \A d \in Endpoint : Queues'[d] = Queues[d] \/ Queues'[d] = <<>>
  BY <1>2, <1>3, <1>4
<1>6. ToSet(<<>>) = {}
  BY DEF ToSet
<1> QED BY <1>5, <1>6 DEF Active, Retired

(* A new endpoint has nothing queued.                                      *)
LEMMA CreateAnswer ==
  ASSUME AnswerInv, IsoInv', NEW e \in Endpoint, Create(e)
  PROVE  AnswerInv' /\ early' = early /\ Excused' = Excused
<1>0. IsoInv
  BY DEF AnswerInv
<1>1. UNCHANGED <<work, done, isoIn, hcDone, asked, open, early, overtaken, cut>>
  BY DEF Create, lists, reqVars
<1>2. /\ chain' = [chain EXCEPT ![e] = Taken(1)]
      /\ Taken(1) \in Seq(TD) /\ Len(Taken(1)) = 1
      /\ \A t \in TD \ free : td'[t] = td[t]
  BY <1>0, CreateKeeps
<1>3. Line' = Line /\ Excused' = Excused
  BY <1>1 DEF Line, Excused
<1>4. PICK c : c = Taken(1)
  OBVIOUS
<1>5. /\ \A d \in Endpoint : Queues'[d] = Queues[d] \/ Queues'[d] = <<>>
      /\ Active' \in SUBSET Active
  BY <1>0, <1>2, <1>3, <1>4, EmptiedQueues
<1>6. Active \in SUBSET TD /\ Active \cap free = {}
  <2>1. /\ \A d \in Endpoint : ToSet(Queues[d]) \in SUBSET ToSet(chain[d])
        /\ Retired = ToSet(Line) /\ Active \in SUBSET TD
    BY <1>0, QueuesIs
  <2> QED BY <2>1, <1>0 DEF IsoInv, Placed, InPlace, Active
<1>7. PICK S : S = Active'
  OBVIOUS
<1>8. \A t \in S : SameRequest(t)
  BY <1>2, <1>5, <1>6, <1>7 DEF SameRequest
<1>9. AnswerInv'
  BY <1>1, <1>3, <1>5, <1>7, <1>8, AsideAnswer
<1> QED BY <1>1, <1>3, <1>9

(* A removal takes all an endpoint has queued and excuses its requests.    *)
LEMMA RemovalAnswer ==
  ASSUME AnswerInv, IsoInv', AbortEnds \/ DeleteEnds
  PROVE  AnswerInv' /\ early' \subseteq early \cup Excused' /\ Excused \in SUBSET Excused'
<1>0. IsoInv /\ td \in [TD -> TDRecord]
  BY DEF AnswerInv, IsoInv, IsoTypes
<1>1. UNCHANGED <<work, done, isoIn, hcDone, asked, overtaken>>
  BY DEF AbortEnds, DeleteEnds, lists, RemoveTransfers
<1>2. PICK e \in Endpoint : e = gate.e /\ e \in Linked
  <2>1. gate.kind # "none"
    BY DEF AbortEnds, DeleteEnds
  <2>2. gate.e \in Linked
    BY <1>0, <2>1 DEF IsoInv, IsoTypes
  <2> QED BY <2>2, <1>0, ChainIs
<1>3. PICK R : /\ open' = open \ R /\ cut' = cut \cup R
               /\ early' = early \cup {r \in R : r \notin open \/ \E t \in Retired : td[t].req = r}
  BY DEF AbortEnds, DeleteEnds, RemoveTransfers, Answer
<1>4. PICK S : td' = Returned(S)
  BY DEF AbortEnds, DeleteEnds
<1>5. PICK c \in Seq(TD) : Len(c) \in {0, 1} /\ chain' = [chain EXCEPT ![e] = c]
  <2>1. CASE AbortEnds
    <3>1. chain' = [chain EXCEPT ![e] = <<TransferTail(e)>>]
      BY <2>1, <1>2 DEF AbortEnds
    <3>2. TransferTail(e) \in TD
      BY <1>0, <1>2, ChainIs
    <3>3. <<TransferTail(e)>> \in Seq(TD) /\ Len(<<TransferTail(e)>>) = 1
      BY <3>2
    <3> QED BY <3>1, <3>3
  <2>2. CASE DeleteEnds
    <3>1. chain' = [chain EXCEPT ![e] = <<>>] /\ <<>> \in Seq(TD) /\ Len(<<>>) = 0
      BY <2>2, <1>2 DEF DeleteEnds
    <3> QED BY <3>1
  <2> QED BY <2>1, <2>2
<1>6. Line' = Line /\ Excused \in SUBSET Excused' /\ R \in SUBSET Excused'
  BY <1>1, <1>3 DEF Line, Excused
<1>7. /\ \A d \in Endpoint : Queues'[d] = Queues[d] \/ Queues'[d] = <<>>
      /\ Active' \in SUBSET Active
  BY <1>0, <1>5, <1>6, EmptiedQueues
<1>8. Active \in SUBSET TD
  BY <1>0, QueuesIs
<1>9. PICK U : U = Active'
  OBVIOUS
<1>10. \A t \in U : SameRequest(t)
  BY <1>0, <1>4, <1>7, <1>8, <1>9, ReturnedIs DEF SameRequest
<1>11. \A t \in U : (td[t].last /\ td[t].req \notin Excused' /\ td[t].req \in open) => td[t].req \in open'
  BY <1>3, <1>6
<1>12. AnswerInv'
  BY <1>1, <1>6, <1>7, <1>9, <1>10, <1>11, AsideAnswer
<1> QED BY <1>3, <1>6, <1>12

(* Steps that put one list before another.                                 *)
LEMMA PrecedesStays ==
  ASSUME NEW C, NEW D, NEW A, NEW B, Precedes(A, B, C),
         \A x \in A, y \in B : <<x, y>> \in D => <<x, y>> \in C
  PROVE  Precedes(A, B, D)
BY DEF Precedes

(* Steps that leave the chains as they are, and the line but for its       *)
(* order.                                                                  *)
LEMMA SameQueues ==
  ASSUME AnswerInv, chain' = chain, ToSet(Line') = ToSet(Line),
         \A t \in TD : SameRequest(t), Excused \in SUBSET Excused'
  PROVE  /\ Queues' = Queues /\ Active' = Active
         /\ \A x, y \in Active : <<x, y>> \in LastBefore' => <<x, y>> \in LastBefore
         /\ \A e \in Endpoint : /\ Ordered(Queues[e], LastBefore')
                                /\ Precedes(ToSet(Line'), ToSet(Queues[e]), LastBefore')
<1>0. IsoInv
  BY DEF AnswerInv
<1>1. /\ Queues \in [Endpoint -> Seq(TD)] /\ Line \in Seq(TD) /\ Active \in SUBSET TD
      /\ Retired = ToSet(Line)
  BY <1>0, QueuesIs
<1>2. Queues' = Queues
  BY DEF Queues, Queued
<1>3. Active' = Active
  BY <1>1, <1>2 DEF Active, Retired, SeqSet
<1>4. \A x, y \in Active : <<x, y>> \in LastBefore' => <<x, y>> \in LastBefore
  <2>1. PICK S : S = Active
    OBVIOUS
  <2>2. S \in SUBSET TD /\ \A t \in S : SameRequest(t)
    BY <2>1, <1>1
  <2>3. \A x, y \in S : <<x, y>> \in LastBefore' => <<x, y>> \in LastBefore
    BY <2>2, PairsStay
  <2> QED BY <2>1, <2>3
<1>5. ASSUME NEW e \in Endpoint
      PROVE  /\ Ordered(Queues[e], LastBefore')
             /\ Precedes(ToSet(Line), ToSet(Queues[e]), LastBefore')
  <2>1. /\ Queues[e] \in Seq(TD) /\ Ordered(Queues[e], LastBefore)
        /\ Precedes(ToSet(Line), ToSet(Queues[e]), LastBefore)
    BY <1>1 DEF AnswerInv, InTurn
  <2>2. ToSet(Queues[e]) \in SUBSET Active /\ ToSet(Line) \in SUBSET Active
    BY <1>1 DEF Active
  <2> DEFINE C == LastBefore  D == LastBefore'  l == Queues[e]  k == Line
  <2>3. \A x, y \in ToSet(l) : <<x, y>> \in D => <<x, y>> \in C
    BY <2>2, <1>4
  <2>4. \A x \in ToSet(k), y \in ToSet(l) : <<x, y>> \in D => <<x, y>> \in C
    BY <2>2, <1>4
  <2>5. l \in Seq(TD) /\ Ordered(l, C) /\ Precedes(ToSet(k), ToSet(l), C)
    BY <2>1
  <2> HIDE DEF C, D, l, k
  <2>6. Ordered(l, D)
    BY <2>3, <2>5, OrderedStays
  <2>7. Precedes(ToSet(k), ToSet(l), D)
    BY <2>4, <2>5, PrecedesStays
  <2> QED BY <2>6, <2>7 DEF C, D, l, k
<1> QED BY <1>2, <1>3, <1>4, <1>5

(* The order of the line is that of its four queues.                       *)
LEMMA LinePairs ==
  ASSUME AnswerInv, NEW D,
         \A x, y \in Retired : <<x, y>> \in D => <<x, y>> \in LastBefore
  PROVE  /\ Ordered(work, D) /\ Ordered(done, D) /\ Ordered(isoIn, D) /\ Ordered(hcDone, D)
         /\ Precedes(ToSet(work), ToSet(done), D) /\ Precedes(ToSet(work), ToSet(isoIn), D)
         /\ Precedes(ToSet(work), ToSet(hcDone), D) /\ Precedes(ToSet(done), ToSet(isoIn), D)
         /\ Precedes(ToSet(done), ToSet(hcDone), D) /\ Precedes(ToSet(isoIn), ToSet(hcDone), D)
<1>1. /\ work \in Seq(TD) /\ done \in Seq(TD) /\ isoIn \in Seq(TD) /\ hcDone \in Seq(TD)
      /\ Line \in Seq(TD) /\ Retired = ToSet(Line)
  BY LineIs, QueuesIs DEF AnswerInv
<1>2. Ordered(Line, LastBefore)
  BY DEF AnswerInv, InTurn
<1>3. Ordered(Line, D)
  BY <1>1, <1>2, OrderedStays
<1>4. Ordered(work \o done \o isoIn \o hcDone, D)
  BY <1>3 DEF Line
<1> QED BY <1>1, <1>4, FourIs

-----------------------------------------------------------------------------
(* Steps that put the line in another order, which is right but for the    *)
(* requests they excuse.                                                   *)
LEMMA ReorderedAnswer ==
  ASSUME AnswerInv, IsoInv', UNCHANGED <<chain, asked, open, cut>>, ToSet(Line') = ToSet(Line),
         \A t \in TD : SameRequest(t), overtaken \in SUBSET overtaken',
         \A x \in ToSet(isoIn') : td[x].in, Ordered(Line', LastBefore')
  PROVE  AnswerInv' /\ Excused \in SUBSET Excused'
<1>0. IsoInv
  BY DEF AnswerInv
<1>1. Excused \in SUBSET Excused'
  BY DEF Excused
<1>2. /\ Queues' = Queues /\ Active' = Active
      /\ \A e \in Endpoint : /\ Ordered(Queues[e], LastBefore')
                             /\ Precedes(ToSet(Line'), ToSet(Queues[e]), LastBefore')
  BY <1>1, SameQueues
<1>3. InTurn(Line', Queues', LastBefore')
  BY <1>2 DEF InTurn
<1>4. Active \in SUBSET TD
  BY <1>0, QueuesIs
<1>5. PICK S : S = Active'
  OBVIOUS
<1>6. S \in SUBSET Active /\ \A t \in S : SameRequest(t)
  BY <1>2, <1>4, <1>5
<1>7. AnswerInv'
  BY <1>1, <1>2, <1>3, <1>5, <1>6, AnswerStays
<1> QED BY <1>1, <1>7

(* The filter puts a newer batch in front of an older one; the requests it *)
(* overtakes are excused.                                                  *)
LEMMA FilterAnswer ==
  ASSUME AnswerInv, IsoInv', FilterInterrupt
  PROVE  AnswerInv' /\ early' = early /\ Excused \in SUBSET Excused'
<1>0. IsoInv /\ td \in [TD -> TDRecord]
  BY DEF AnswerInv, IsoInv, IsoTypes
<1>1. /\ UNCHANGED <<chain, asked, open, early, cut>> /\ td' = Returned(ToSet(hcDone))
      /\ isoIn' = Inbound \o isoIn
      /\ overtaken' = overtaken \cup (Requests(Inbound) \cap Requests(isoIn))
                                \cup (Requests(Outbound) \cap Requests(done))
  BY DEF FilterInterrupt, epVars, SeqSet, InOrder, Inbound, Outbound
<1>2. /\ Line' = work \o (Outbound \o done) \o (Inbound \o isoIn) \o <<>>
      /\ ToSet(Line') = ToSet(Line)
  BY <1>0, FilterLine
<1>3. \A t \in TD : SameRequest(t)
  <2>1. \A t \in TD : /\ Returned(ToSet(hcDone))[t].req = td[t].req
                      /\ Returned(ToSet(hcDone))[t].last = td[t].last
                      /\ Returned(ToSet(hcDone))[t].in = td[t].in
    BY <1>0, ReturnedIs
  <2> QED BY <2>1, <1>1 DEF SameRequest
<1>4. /\ work \in Seq(TD) /\ done \in Seq(TD) /\ isoIn \in Seq(TD) /\ hcDone \in Seq(TD)
      /\ Retired = ToSet(work) \cup ToSet(done) \cup ToSet(isoIn) \cup ToSet(hcDone)
      /\ Retired \in SUBSET TD
  BY <1>0, LineIs
<1>5. PICK D : D = LastBefore'
  OBVIOUS
<1>6. \A x, y \in Retired : <<x, y>> \in D => <<x, y>> \in LastBefore
  <2>1. Excused \in SUBSET Excused'
    BY <1>1 DEF Excused
  <2>2. \A x, y \in Active : <<x, y>> \in LastBefore' => <<x, y>> \in LastBefore
    BY <2>1, <1>1, <1>2, <1>3, SameQueues
  <2> QED BY <2>2, <1>5 DEF Active
<1> DEFINE n == Inbound  o == Outbound
<1>7. /\ n \in Seq(TD) /\ o \in Seq(TD)
      /\ ToSet(n) = ToSet(hcDone) \cap {t \in TD : td[t].in}
      /\ ToSet(o) = ToSet(hcDone) \cap {t \in TD : ~td[t].in}
      /\ \A C : Ordered(hcDone, C) => Ordered(n, C) /\ Ordered(o, C)
  BY <1>0, SortedIs
<1>8. /\ Ordered(work, D) /\ Ordered(done, D) /\ Ordered(isoIn, D) /\ Ordered(hcDone, D)
      /\ Precedes(ToSet(work), ToSet(done), D) /\ Precedes(ToSet(work), ToSet(isoIn), D)
      /\ Precedes(ToSet(work), ToSet(hcDone), D) /\ Precedes(ToSet(done), ToSet(isoIn), D)
      /\ Precedes(ToSet(done), ToSet(hcDone), D) /\ Precedes(ToSet(isoIn), ToSet(hcDone), D)
  BY <1>6, LinePairs
<1>9. \A x, y \in Retired : <<x, y>> \in D =>
        td[x].req = td[y].req /\ td[x].in = td[y].in /\ td[x].req \notin overtaken'
  <2> SUFFICES ASSUME NEW x \in Retired, NEW y \in Retired, <<x, y>> \in D
               PROVE  td[x].req = td[y].req /\ td[x].in = td[y].in /\ td[x].req \notin overtaken'
    OBVIOUS
  <2>1. td'[x].req = td'[y].req /\ td'[x].req \notin overtaken'
    BY <1>5 DEF LastBefore, Excused
  <2>2. td[x].req = td[y].req /\ td[x].req \notin overtaken'
    BY <2>1, <1>3, <1>4 DEF SameRequest
  <2> QED BY <2>2 DEF AnswerInv, OneWay, Active
<1>10. \A x \in ToSet(isoIn) : td[x].in
  BY DEF AnswerInv, Inwards
<1>11. Precedes(ToSet(o), ToSet(done), D)
  <2> SUFFICES ASSUME NEW x \in ToSet(o), NEW y \in ToSet(done), <<x, y>> \in D PROVE FALSE
    BY DEF Precedes
  <2>1. td[x].req = td[y].req /\ td[x].req \notin overtaken'
    BY <1>4, <1>7, <1>9
  <2>2. td[x].req \in Requests(Outbound) /\ td[x].req \in Requests(done)
    BY <2>1 DEF Requests, SeqSet
  <2> QED BY <2>1, <2>2, <1>1
<1>12. Precedes(ToSet(n), ToSet(isoIn), D)
  <2> SUFFICES ASSUME NEW x \in ToSet(n), NEW y \in ToSet(isoIn), <<x, y>> \in D PROVE FALSE
    BY DEF Precedes
  <2>1. td[x].req = td[y].req /\ td[x].req \notin overtaken'
    BY <1>4, <1>7, <1>9
  <2>2. td[x].req \in Requests(Inbound) /\ td[x].req \in Requests(isoIn)
    BY <2>1 DEF Requests, SeqSet
  <2> QED BY <2>1, <2>2, <1>1
<1>13. Precedes(ToSet(o), ToSet(n), D) /\ Precedes(ToSet(o), ToSet(isoIn), D)
  BY <1>4, <1>7, <1>9, <1>10 DEF Precedes
<1>14. /\ Precedes(ToSet(work), ToSet(o), D) /\ Precedes(ToSet(work), ToSet(n), D)
       /\ Precedes(ToSet(done), ToSet(n), D)
  BY <1>7, <1>8 DEF Precedes
<1>15. Ordered(n, D) /\ Ordered(o, D)
  BY <1>7, <1>8
<1> HIDE DEF n, o
<1>16. /\ o \o done \in Seq(TD) /\ ToSet(o \o done) = ToSet(o) \cup ToSet(done)
       /\ Ordered(o \o done, D)
  <2>1. o \in Seq(TD) /\ done \in Seq(TD)
    BY <1>4, <1>7
  <2>2. Ordered(o, D) /\ Ordered(done, D) /\ Precedes(ToSet(o), ToSet(done), D)
    BY <1>8, <1>11, <1>15
  <2>3. o \o done \in Seq(TD) /\ ToSet(o \o done) = ToSet(o) \cup ToSet(done)
    BY <2>1, JoinSet
  <2>4. Ordered(o \o done, D)
    BY ONLY <2>1, <2>2, JoinOrdered
  <2> QED BY <2>3, <2>4
<1>17. /\ n \o isoIn \in Seq(TD) /\ ToSet(n \o isoIn) = ToSet(n) \cup ToSet(isoIn)
       /\ Ordered(n \o isoIn, D)
  <2>1. n \in Seq(TD) /\ isoIn \in Seq(TD)
    BY <1>4, <1>7
  <2>2. Ordered(n, D) /\ Ordered(isoIn, D) /\ Precedes(ToSet(n), ToSet(isoIn), D)
    BY <1>8, <1>12, <1>15
  <2>3. n \o isoIn \in Seq(TD) /\ ToSet(n \o isoIn) = ToSet(n) \cup ToSet(isoIn)
    BY <2>1, JoinSet
  <2>4. Ordered(n \o isoIn, D)
    BY ONLY <2>1, <2>2, JoinOrdered
  <2> QED BY <2>3, <2>4
<1>18. <<>> \in Seq(TD) /\ ToSet(<<>>) = {} /\ Ordered(<<>>, D)
  BY DEF ToSet, Ordered
<1>19. Ordered(work \o (o \o done) \o (n \o isoIn) \o <<>>, D)
  <2> DEFINE p == o \o done  q == n \o isoIn  z == <<>>
  <2>1. /\ Precedes(ToSet(work), ToSet(p), D) /\ Precedes(ToSet(work), ToSet(q), D)
        /\ Precedes(ToSet(p), ToSet(q), D) /\ Precedes(ToSet(work), ToSet(z), D)
        /\ Precedes(ToSet(p), ToSet(z), D) /\ Precedes(ToSet(q), ToSet(z), D)
    BY <1>8, <1>13, <1>14, <1>16, <1>17, <1>18 DEF Precedes
  <2>2. /\ p \in Seq(TD) /\ q \in Seq(TD) /\ z \in Seq(TD)
        /\ Ordered(p, D) /\ Ordered(q, D) /\ Ordered(z, D)
    BY <1>16, <1>17, <1>18
  <2> HIDE DEF p, q, z
  <2>3. Ordered(work \o p \o q \o z, D)
    BY <2>1, <2>2, <1>4, <1>8, FourIs
  <2> QED BY <2>3 DEF p, q, z
<1>20. Ordered(Line', LastBefore')
  BY <1>2, <1>5, <1>19 DEF n, o
<1>21. \A x \in ToSet(isoIn') : td[x].in
  <2>1. isoIn' = n \o isoIn
    BY <1>1 DEF n
  <2> QED BY <2>1, <1>7, <1>10, <1>17
<1>22. overtaken \in SUBSET overtaken'
  BY <1>1
<1>23. AnswerInv' /\ Excused \in SUBSET Excused'
  BY <1>1, <1>2, <1>3, <1>20, <1>21, <1>22, ReorderedAnswer
<1> QED BY <1>1, <1>23

(* So does the timer.                                                      *)
LEMMA TimerAnswer ==
  ASSUME AnswerInv, IsoInv', IsoInTimer
  PROVE  AnswerInv' /\ early' = early /\ Excused \in SUBSET Excused'
<1>0. IsoInv
  BY DEF AnswerInv
<1>1. /\ UNCHANGED <<chain, asked, open, early, cut, td>> /\ isoIn' = <<>>
      /\ overtaken' = overtaken \cup (Requests(isoIn) \cap Requests(done))
  BY DEF IsoInTimer, epVars, tdVars
<1>2. /\ Line' = work \o (isoIn \o done) \o <<>> \o hcDone
      /\ ToSet(Line') = ToSet(Line)
  BY <1>0, TimerLine
<1>3. \A t \in TD : SameRequest(t)
  BY <1>1 DEF SameRequest
<1>4. /\ work \in Seq(TD) /\ done \in Seq(TD) /\ isoIn \in Seq(TD) /\ hcDone \in Seq(TD)
      /\ Retired = ToSet(work) \cup ToSet(done) \cup ToSet(isoIn) \cup ToSet(hcDone)
  BY <1>0, LineIs
<1>5. PICK D : D = LastBefore'
  OBVIOUS
<1>6. \A x, y \in Retired : <<x, y>> \in D => <<x, y>> \in LastBefore
  <2>1. Excused \in SUBSET Excused'
    BY <1>1 DEF Excused
  <2>2. \A x, y \in Active : <<x, y>> \in LastBefore' => <<x, y>> \in LastBefore
    BY <2>1, <1>1, <1>2, <1>3, SameQueues
  <2> QED BY <2>2, <1>5 DEF Active
<1>8. /\ Ordered(work, D) /\ Ordered(done, D) /\ Ordered(isoIn, D) /\ Ordered(hcDone, D)
      /\ Precedes(ToSet(work), ToSet(done), D) /\ Precedes(ToSet(work), ToSet(isoIn), D)
      /\ Precedes(ToSet(work), ToSet(hcDone), D) /\ Precedes(ToSet(done), ToSet(isoIn), D)
      /\ Precedes(ToSet(done), ToSet(hcDone), D) /\ Precedes(ToSet(isoIn), ToSet(hcDone), D)
  BY <1>6, LinePairs
<1>11. Precedes(ToSet(isoIn), ToSet(done), D)
  <2> SUFFICES ASSUME NEW x \in ToSet(isoIn), NEW y \in ToSet(done), <<x, y>> \in D PROVE FALSE
    BY DEF Precedes
  <2>1. td'[x].req = td'[y].req /\ td'[x].req \notin overtaken'
    BY <1>5 DEF LastBefore, Excused
  <2>2. td[x].req = td[y].req /\ td[x].req \notin overtaken'
    BY <2>1, <1>1
  <2>3. td[x].req \in Requests(isoIn) /\ td[x].req \in Requests(done)
    BY <2>2 DEF Requests, SeqSet
  <2> QED BY <2>2, <2>3, <1>1
<1>16. /\ isoIn \o done \in Seq(TD) /\ ToSet(isoIn \o done) = ToSet(isoIn) \cup ToSet(done)
       /\ Ordered(isoIn \o done, D)
  BY <1>4, <1>8, <1>11, JoinSet, JoinOrdered
<1>18. <<>> \in Seq(TD) /\ ToSet(<<>>) = {} /\ Ordered(<<>>, D)
  BY DEF ToSet, Ordered
<1>19. Ordered(work \o (isoIn \o done) \o <<>> \o hcDone, D)
  <2> DEFINE p == isoIn \o done  z == <<>>
  <2>1. /\ Precedes(ToSet(work), ToSet(p), D) /\ Precedes(ToSet(work), ToSet(hcDone), D)
        /\ Precedes(ToSet(p), ToSet(hcDone), D) /\ Precedes(ToSet(work), ToSet(z), D)
        /\ Precedes(ToSet(p), ToSet(z), D) /\ Precedes(ToSet(z), ToSet(hcDone), D)
    BY <1>8, <1>16, <1>18 DEF Precedes
  <2>2. p \in Seq(TD) /\ z \in Seq(TD) /\ Ordered(p, D) /\ Ordered(z, D)
    BY <1>16, <1>18
  <2> HIDE DEF p, z
  <2>3. Ordered(work \o p \o z \o hcDone, D)
    BY <2>1, <2>2, <1>4, <1>8, FourIs
  <2> QED BY <2>3 DEF p, z
<1>20. Ordered(Line', LastBefore')
  BY <1>2, <1>5, <1>19
<1>21. \A x \in ToSet(isoIn') : td[x].in
  BY <1>1, <1>18
<1>22. overtaken \in SUBSET overtaken'
  BY <1>1
<1>23. AnswerInv' /\ Excused \in SUBSET Excused'
  BY <1>1, <1>2, <1>3, <1>20, <1>21, <1>22, ReorderedAnswer
<1> QED BY <1>1, <1>23

(* The workloop takes the queue in its order.                              *)
LEMMA HandlerAnswer ==
  ASSUME AnswerInv, IsoInv', HandleInterrupt
  PROVE  AnswerInv' /\ early' = early /\ Excused' = Excused
<1>0. IsoInv
  BY DEF AnswerInv
<1>1. UNCHANGED <<chain, asked, open, early, cut, overtaken, td, isoIn>>
  BY DEF HandleInterrupt, epVars, tdVars, reqVars
<1>2. Line' = Line
  BY <1>0, HandlerLine
<1>3. LastBefore' = LastBefore /\ Excused' = Excused
  BY <1>1 DEF LastBefore, Excused
<1>4. Ordered(Line', LastBefore') /\ \A x \in ToSet(isoIn') : td[x].in
  BY <1>1, <1>2, <1>3 DEF AnswerInv, InTurn, Inwards
<1>5. \A t \in TD : SameRequest(t)
  BY <1>1 DEF SameRequest
<1>6. overtaken \in SUBSET overtaken' /\ ToSet(Line') = ToSet(Line)
  BY <1>1, <1>2
<1>7. AnswerInv'
  BY <1>1, <1>4, <1>5, <1>6, ReorderedAnswer
<1> QED BY <1>1, <1>3, <1>7

(* The first of the line is processed: if it is the last of its request,   *)
(* no frame of the request is behind it.                                   *)
LEMMA CompleteAnswer ==
  ASSUME AnswerInv, IsoInv', Complete
  PROVE  AnswerInv' /\ early' \subseteq early \cup Excused' /\ Excused' = Excused
<1>0. IsoInv /\ td \in [TD -> TDRecord]
  BY DEF AnswerInv, IsoInv, IsoTypes
<1>1. PICK t : t = Head(work)
  OBVIOUS
<1>2. /\ UNCHANGED <<chain, asked, overtaken, cut, isoIn>> /\ td' = Returned({t})
      /\ IF td[t].last THEN Answer({td[t].req}, Retired \ {t}) ELSE UNCHANGED <<open, early>>
  BY <1>1 DEF Complete, epVars
<1>3. /\ Line # <<>> /\ Head(Line) = t /\ Line' = Tail(Line)
  BY <1>0, <1>1, CompleteLine
<1>4. /\ Queues \in [Endpoint -> Seq(TD)] /\ Line \in Seq(TD) /\ Retired = ToSet(Line)
      /\ Active \in SUBSET TD
  BY <1>0, QueuesIs
<1>5. ToSet(Line) = {t} \cup ToSet(Tail(Line)) /\ t \notin ToSet(Tail(Line)) /\ t \in TD
      /\ Tail(Line) \in Seq(TD)
  BY <1>0, <1>3, <1>4, TailSet DEF IsoInv, Placed, InPlace
<1>6. Queues' = Queues /\ Excused' = Excused
  BY <1>2 DEF Queues, Queued, Excused
<1>7. Retired' = ToSet(Tail(Line)) /\ Active' \in SUBSET Active
  BY <1>3, <1>4, <1>5, <1>6 DEF Active, Retired, SeqSet
<1>8. PICK S : S = Active'
  OBVIOUS
<1>9. \A u \in S : SameRequest(u)
  BY <1>0, <1>2, <1>4, <1>7, <1>8, ReturnedIs DEF SameRequest
<1>10. /\ InTurn(Tail(Line), Queues, LastBefore)
       /\ Precedes({t}, ToSet(Tail(Line)), LastBefore)
       /\ \A e \in Endpoint : Precedes({t}, ToSet(Queues[e]), LastBefore)
  <2>1. InTurn(Line, Queues, LastBefore)
    BY DEF AnswerInv
  <2>2. /\ InTurn(Tail(Line), Queues, LastBefore)
        /\ Precedes({Head(Line)}, ToSet(Tail(Line)), LastBefore)
        /\ \A e \in Endpoint : Precedes({Head(Line)}, ToSet(Queues[e]), LastBefore)
    BY <1>3, <1>4, <2>1, FirstTurn
  <2> QED BY <2>2, <1>3
<1>11. S = ToSet(Tail(Line)) \cup UNION {ToSet(Queues[e]) : e \in Endpoint}
  BY <1>6, <1>7, <1>8 DEF Active
<1>12. InTurn(Line', Queues', LastBefore')
  <2> DEFINE C == LastBefore  D == LastBefore'  l == Tail(Line)  q == Queues
  <2>1. S \in SUBSET TD /\ Excused \in SUBSET Excused'
    BY <1>4, <1>6, <1>7, <1>8
  <2>2. \A x, y \in S : <<x, y>> \in D => <<x, y>> \in C
    BY <2>1, <1>9, PairsStay
  <2>3. /\ l \in Seq(TD) /\ q \in [Endpoint -> Seq(TD)] /\ InTurn(l, q, C)
        /\ \A x, y \in ToSet(l) \cup UNION {ToSet(q[e]) : e \in Endpoint} :
             <<x, y>> \in D => <<x, y>> \in C
    BY <2>2, <1>4, <1>5, <1>10, <1>11
  <2> HIDE DEF C, D, l, q
  <2>4. \A e \in Endpoint : q[e] = q[e] \/ q[e] = <<>>
    OBVIOUS
  <2>5. InTurn(l, q, D)
    BY <2>3, <2>4, TurnStays
  <2> QED BY <2>5, <1>3, <1>6 DEF D, l, q
(* No other frame of its request is on its way behind its last.            *)
<1>13. ASSUME td[t].last, td[t].req \notin Excused, NEW u \in S PROVE td[u].req # td[t].req
  <2>1. <<t, u>> \notin LastBefore
    BY <1>10, <1>11 DEF Precedes
  <2>2. u \in TD
    BY <1>4, <1>7, <1>8
  <2> QED BY <2>1, <2>2, <1>5, <1>13 DEF LastBefore
<1>14. \A u \in S : (td[u].last /\ td[u].req \notin Excused' /\ td[u].req \in open) => td[u].req \in open'
  <2> SUFFICES ASSUME NEW u \in S, td[u].last, td[u].req \notin Excused', td[u].req \in open
               PROVE  td[u].req \in open'
    OBVIOUS
  <2>1. CASE ~td[t].last
    BY <2>1, <1>2
  <2>2. CASE td[t].last
    <3>1. open' = open \ {td[t].req}
      BY <2>2, <1>2 DEF Answer
    <3>2. td[u].req # td[t].req
      BY <2>2, <1>6, <1>13
    <3> QED BY <3>1, <3>2
  <2> QED BY <2>1, <2>2
<1>15. early' \subseteq early \cup Excused'
  <2>1. CASE ~td[t].last
    BY <2>1, <1>2
  <2>2. CASE td[t].last
    <3>1. early' = early \cup {r \in {td[t].req} : r \notin open \/ \E u \in Retired \ {t} : td[u].req = r}
      BY <2>2, <1>2 DEF Answer
    <3>2. ASSUME td[t].req \notin Excused
          PROVE  td[t].req \in open /\ \A u \in Retired \ {t} : td[u].req # td[t].req
      <4>1. t \in Active
        BY <1>4, <1>5 DEF Active
      <4>2. td[t].req \in open
        BY <2>2, <3>2, <4>1 DEF AnswerInv, Pending
      <4>3. \A u \in Retired \ {t} : u \in S
        BY <1>4, <1>5, <1>11
      <4> QED BY <2>2, <3>2, <4>2, <4>3, <1>13
    <3> QED BY <3>1, <3>2, <1>6
  <2> QED BY <2>1, <2>2
<1>16. /\ \A e \in Endpoint : ToSet(Queues'[e]) \in SUBSET ToSet(Queues[e])
       /\ \A x \in ToSet(isoIn') : td[x].in
  BY <1>2, <1>6 DEF AnswerInv, Inwards
<1>17. S \in SUBSET Active /\ asked' = asked /\ Excused \in SUBSET Excused'
  BY <1>2, <1>6, <1>7, <1>8
<1>18. AnswerInv'
  BY <1>8, <1>9, <1>12, <1>14, <1>16, <1>17, AnswerStays
<1> QED BY <1>6, <1>15, <1>18

(* The heads go to the end of the line: no other frame of a request is on  *)
(* its way behind its last.                                                *)
LEMMA FrameAnswer ==
  ASSUME AnswerInv, IsoInv', Frame
  PROVE  AnswerInv' /\ early' = early /\ Excused' = Excused
<1>0. IsoInv
  BY DEF AnswerInv
<1>1. UNCHANGED <<td, asked, open, early, overtaken, cut>>
  <2>1. UNCHANGED <<tdVars, reqVars>>
    BY Zenon DEF Frame
  <2> QED BY <2>1 DEF tdVars, reqVars
<1>2. /\ DueEndpoints \in SUBSET Endpoint
      /\ \A e \in DueEndpoints : chain[e] \in Seq(TD) /\ Len(chain[e]) >= 2
      /\ Now \in Seq(TD) /\ Len(Now) = Len(DueList)
      /\ ToSet(Now) = {Head(chain[e]) : e \in DueEndpoints}
      /\ \A i \in 1 .. Len(Now) : Now[i] = Head(chain[DueList[i]]) /\ DueList[i] \in DueEndpoints
      /\ DueList \in Seq(Endpoint) /\ Distinct(DueList)
      /\ chain' = Shortened(chain, DueEndpoints)
      /\ isoIn' = isoIn /\ Line' = Line \o Now
  BY <1>0, FrameIs
<1>3. /\ Queues \in [Endpoint -> Seq(TD)] /\ Line \in Seq(TD) /\ Retired = ToSet(Line)
      /\ Active \in SUBSET TD /\ \A e \in Endpoint : Queues[e] = Front(chain[e])
  BY <1>0, QueuesIs
<1>4. \A e \in DueEndpoints : /\ Queues[e] # <<>> /\ Head(Queues[e]) = Head(chain[e])
                              /\ Front(Tail(chain[e])) = Tail(Queues[e])
  <2> SUFFICES ASSUME NEW e \in DueEndpoints
               PROVE  /\ Queues[e] # <<>> /\ Head(Queues[e]) = Head(chain[e])
                      /\ Front(Tail(chain[e])) = Tail(Queues[e])
    OBVIOUS
  <2>1. e \in Endpoint /\ chain[e] \in Seq(TD) /\ Len(chain[e]) >= 2
    BY <1>2
  <2>2. /\ Front(chain[e]) # <<>> /\ Head(Front(chain[e])) = Head(chain[e])
        /\ Front(Tail(chain[e])) = Tail(Front(chain[e]))
    BY <2>1, FrontTail
  <2>3. Queues[e] = Front(chain[e])
    BY <2>1, <1>3
  <2> QED BY <2>2, <2>3
<1>5. Queues' = Shortened(Queues, DueEndpoints)
  <2>1. Queues' = [e \in Endpoint |-> Front(chain'[e])]
    BY DEF Queues, Queued
  <2>2. \A e \in Endpoint : Front(chain'[e]) = IF e \in DueEndpoints THEN Tail(Queues[e]) ELSE Queues[e]
    BY <1>2, <1>3, <1>4 DEF Shortened
  <2> QED BY <2>1, <2>2 DEF Shortened
<1>6. DueList \in Seq(DueEndpoints)
  <2>1. PICK n \in Nat : n = Len(DueList)
    BY <1>2, LengthIs
  <2>2. DueList \in [1 .. n -> Endpoint] /\ \A i \in 1 .. n : DueList[i] \in DueEndpoints
    BY <2>1, <1>2
  <2>3. DueList \in [1 .. n -> DueEndpoints]
    BY <2>2
  <2> HIDE DEF DueList, DueEndpoints
  <2> QED BY <2>3
<1>7. \A e, d \in Endpoint : e # d => Precedes(ToSet(Queues[e]), ToSet(Queues[d]), LastBefore)
  BY DEF AnswerInv, Separate, Precedes, LastBefore
<1>8. InTurn(Line \o Now, Shortened(Queues, DueEndpoints), LastBefore)
  <2> DEFINE C == LastBefore  l == Line  q == Queues  D == DueEndpoints  due == DueList  now == Now
  <2>1. /\ l \in Seq(TD) /\ q \in [Endpoint -> Seq(TD)] /\ InTurn(l, q, C)
        /\ \A e, d \in Endpoint : e # d => Precedes(ToSet(q[e]), ToSet(q[d]), C)
        /\ D \in SUBSET Endpoint /\ \A e \in D : q[e] # <<>>
    BY <1>2, <1>3, <1>4, <1>7 DEF AnswerInv
  <2>2. /\ due \in Seq(D) /\ Distinct(due) /\ now \in Seq(TD) /\ Len(now) = Len(due)
        /\ \A i \in 1 .. Len(now) : now[i] = Head(q[due[i]])
    BY <1>2, <1>4, <1>6
  <2> HIDE DEF C, l, q, D, due, now
  <2>3. InTurn(l \o now, Shortened(q, D), C)
    BY <2>1, <2>2, HeadsTurn
  <2> QED BY <2>3 DEF C, l, q, D, now
<1>9. LastBefore' = LastBefore /\ Excused' = Excused
  BY <1>1 DEF LastBefore, Excused
<1>10. \A e \in Endpoint : ToSet(Queues'[e]) \in SUBSET ToSet(Queues[e])
  <2> SUFFICES ASSUME NEW e \in Endpoint PROVE ToSet(Queues'[e]) \in SUBSET ToSet(Queues[e])
    OBVIOUS
  <2>1. Queues'[e] = IF e \in DueEndpoints THEN Tail(Queues[e]) ELSE Queues[e]
    BY <1>5 DEF Shortened
  <2>2. e \in DueEndpoints => ToSet(Queues[e]) = {Head(Queues[e])} \cup ToSet(Tail(Queues[e]))
    BY <1>3, <1>4, TailSet
  <2> QED BY <2>1, <2>2
<1>11. Active' \in SUBSET Active
  <2>1. ToSet(Line') = ToSet(Line) \cup ToSet(Now)
    BY <1>2, <1>3, JoinSet
  <2>2. ToSet(Now) \in SUBSET UNION {ToSet(Queues[e]) : e \in Endpoint}
    <3>1. \A e \in DueEndpoints : Head(chain[e]) \in ToSet(Queues[e])
      <4> SUFFICES ASSUME NEW e \in DueEndpoints PROVE Head(chain[e]) \in ToSet(Queues[e])
        OBVIOUS
      <4>1. e \in Endpoint /\ Queues[e] \in Seq(TD) /\ Queues[e] # <<>>
        BY <1>2, <1>3, <1>4
      <4>2. ToSet(Queues[e]) = {Head(Queues[e])} \cup ToSet(Tail(Queues[e]))
        BY <4>1, TailSet
      <4> QED BY <4>2, <1>4
    <3> QED BY <3>1, <1>2
  <2> QED BY <2>1, <2>2, <1>3, <1>10 DEF Active, Retired, SeqSet
<1>12. PICK S : S = Active'
  OBVIOUS
<1>13. S \in SUBSET Active /\ \A t \in S : SameRequest(t)
  BY <1>1, <1>11, <1>12 DEF SameRequest
<1>14. \A x \in ToSet(isoIn') : td[x].in
  BY <1>2 DEF AnswerInv, Inwards
<1>15. InTurn(Line', Queues', LastBefore')
  BY <1>2, <1>5, <1>8, <1>9
<1>16. AnswerInv'
  BY <1>1, <1>9, <1>10, <1>12, <1>13, <1>14, <1>15, AnswerStays
<1> QED BY <1>1, <1>9, <1>16

-----------------------------------------------------------------------------
(* A new request behind those of its endpoint: its TDs are the first n of  *)
(* the run, and nothing is written to those on their way.                  *)
Behind(e, n, new) ==
  /\ new \in Seq(TD) /\ Len(new) = n
  /\ \A i \in 1 .. n : new[i] = Run(e, n)[i]
  /\ Queues' = [Queues EXCEPT ![e] = Queues[e] \o new]
  /\ \A i \in 1 .. n : /\ td'[new[i]].req = asked + 1 /\ td'[new[i]].last = (i = n)
                       /\ td'[new[i]].in = (e \in InEndpoint)
  /\ \A t \in Active : td'[t] = td[t]

(* A submission puts its request there.                                    *)
LEMMA SubmitQueues ==
  ASSUME IsoInv, IsoInv', NEW e \in Endpoint, NEW o \in Offsets, NEW n \in 1 .. MaxFrames, Submit(e, o, n),
         NEW new, new = Front(Run(e, n))
  PROVE  Behind(e, n, new)
<1>1. /\ e \in Linked /\ n \in Nat /\ n # 0 /\ n <= Cardinality(free)
      /\ frame + o \in Nat /\ asked \in Nat
      /\ td' = Described(e, frame + o, n, asked + 1)
      /\ chain' = [chain EXCEPT ![e] = chain[e] \o Taken(n)]
  BY SubmitKeeps
<1>2. /\ Run(e, n) \in Seq(TD) /\ Len(Run(e, n)) = n + 1
      /\ ToSet(Run(e, n)) = {TransferTail(e)} \cup ToSet(Taken(n))
      /\ ToSet(Taken(n)) \in SUBSET free
      /\ Taken(n) \in Seq(TD)
  BY <1>1, RunIs
<1>3. Run(e, n) # <<>> /\ Len(Run(e, n)) - 1 = n
  BY <1>1, <1>2
<1>4. /\ new \in Seq(TD) /\ Len(new) = n /\ \A i \in 1 .. n : new[i] = Run(e, n)[i]
      /\ Last(Run(e, n)) \in TD /\ Run(e, n) = new \o <<Last(Run(e, n))>>
  BY <1>2, <1>3, FrontIs
<1>5. /\ chain[e] = Queued(e) \o <<TransferTail(e)>> /\ Queued(e) \in Seq(TD)
      /\ TransferTail(e) \in TD
  BY <1>1, ChainIs
<1>6. chain[e] \o Taken(n) = (Queued(e) \o new) \o <<Last(Run(e, n))>>
  <2> DEFINE q == Queued(e)  x == TransferTail(e)  m == Taken(n)  y == Last(Run(e, n))
  <2>1. q \in Seq(TD) /\ x \in TD /\ m \in Seq(TD) /\ y \in TD /\ <<x>> \o m = new \o <<y>>
    BY <1>2, <1>4, <1>5 DEF Run
  <2> HIDE DEF q, x, m, y
  <2>2. (q \o <<x>>) \o m = q \o (<<x>> \o m)
    BY <2>1
  <2>3. q \o (new \o <<y>>) = (q \o new) \o <<y>>
    BY <2>1, <1>4
  <2>4. (q \o <<x>>) \o m = (q \o new) \o <<y>>
    BY <2>1, <2>2, <2>3
  <2> QED BY <2>4, <1>5 DEF q, x, m, y
<1>7. Front(chain[e] \o Taken(n)) = Queued(e) \o new
  <2>1. Queued(e) \o new \in Seq(TD)
    BY <1>4, <1>5
  <2> DEFINE p == Queued(e) \o new  y == Last(Run(e, n))
  <2>2. p \in Seq(TD) /\ y \in TD
    BY <2>1, <1>4
  <2> HIDE DEF p, y
  <2>3. Front(p \o <<y>>) = p
    BY <2>2, FrontAppend
  <2> QED BY <2>3, <1>6 DEF p, y
<1>8. Queues' = [Queues EXCEPT ![e] = Queues[e] \o new]
  <2>1. Queues' = [d \in Endpoint |-> Front(chain'[d])]
    BY DEF Queues, Queued
  <2>2. chain \in [Endpoint -> Seq(TD)]
    BY DEF IsoInv, Placed, InPlace
  <2>3. \A d \in Endpoint : Front(chain'[d]) = IF d = e THEN Queued(e) \o new ELSE Queued(d)
    BY <2>2, <1>1, <1>7 DEF Queued
  <2> QED BY <2>1, <2>3 DEF Queues
<1>9. asked + 1 \in Nat
  BY <1>1
<1>10. /\ \A k \in 1 .. n : td'[Run(e, n)[k]] = FrameRecord(e, frame + o, n, asked + 1, k)
       /\ \A t \in TD \ ToSet(Run(e, n)) : td'[t] = td[t]
  <2>1. /\ \A k \in 1 .. n : Described(e, frame + o, n, asked + 1)[Run(e, n)[k]]
                               = FrameRecord(e, frame + o, n, asked + 1, k)
        /\ \A t \in TD \ ToSet(Run(e, n)) : Described(e, frame + o, n, asked + 1)[t] = td[t]
    BY <1>1, <1>9, DescribedIs
  <2> QED BY <2>1, <1>1
<1>11. \A t \in Active : t \in TD /\ t \notin ToSet(Run(e, n))
  <2>1. /\ ToSet(chain[e]) = ToSet(Queued(e)) \cup {TransferTail(e)}
        /\ TransferTail(e) \notin ToSet(Queued(e))
    BY <1>1, ChainIs
  <2>2. /\ \A d \in Endpoint : ToSet(Queues[d]) \in SUBSET ToSet(chain[d])
        /\ Retired = ToSet(Line) /\ Active \in SUBSET TD /\ Queues[e] = Queued(e)
    BY QueuesIs DEF Queues
  <2>3. /\ \A d \in Endpoint : ToSet(chain[d]) \cap (free \cup ToSet(Line)) = {}
        /\ \A d \in Endpoint \ {e} : ToSet(chain[d]) \cap ToSet(chain[e]) = {}
        /\ ToSet(Line) \cap free = {}
    BY DEF IsoInv, Placed, InPlace
  <2>4. ASSUME NEW t \in Active PROVE t \notin free /\ t # TransferTail(e)
    <3>1. CASE t \in Retired
      BY <3>1, <2>1, <2>2, <2>3
    <3>2. ASSUME NEW d \in Endpoint, t \in ToSet(Queues[d])
          PROVE  t \notin free /\ t # TransferTail(e)
      <4>1. CASE d = e
        BY <3>2, <4>1, <2>1, <2>2, <2>3
      <4>2. CASE d # e
        BY <3>2, <4>2, <2>1, <2>2, <2>3
      <4> QED BY <4>1, <4>2
    <3> QED BY <3>1, <3>2 DEF Active
  <2> QED BY <2>2, <2>4, <1>2
<1>12. \A i \in 1 .. n : /\ td'[new[i]].req = asked + 1 /\ td'[new[i]].last = (i = n)
                         /\ td'[new[i]].in = (e \in InEndpoint)
  <2> SUFFICES ASSUME NEW i \in 1 .. n
               PROVE  /\ td'[new[i]].req = asked + 1 /\ td'[new[i]].last = (i = n)
                      /\ td'[new[i]].in = (e \in InEndpoint)
    OBVIOUS
  <2>1. new[i] = Run(e, n)[i]
    BY <1>4
  <2>2. td'[new[i]] = FrameRecord(e, frame + o, n, asked + 1, i)
    BY <1>10, <2>1
  <2> QED BY <2>2 DEF FrameRecord
<1>13. \A t \in Active : td'[t] = td[t]
  BY <1>10, <1>11
<1> QED BY <1>4, <1>8, <1>12, <1>13 DEF Behind

(* A new request has a number of its own, and its last frame is its last   *)
(* TD.                                                                     *)
LEMMA SubmitAnswer ==
  ASSUME AnswerInv, IsoInv', NEW e \in Endpoint, NEW o \in Offsets, NEW n \in 1 .. MaxFrames,
         Submit(e, o, n)
  PROVE  AnswerInv' /\ early' = early /\ Excused' = Excused
<1>0. IsoInv
  BY DEF AnswerInv
<1>1. /\ UNCHANGED <<early, overtaken, cut, isoIn, work, done, hcDone>>
      /\ asked' = asked + 1 /\ open' = open \cup {asked + 1} /\ asked \in Nat
  BY <1>0 DEF Submit, lists, IsoInv, IsoTypes
<1>2. PICK new : new = Front(Run(e, n))
  OBVIOUS
<1>3. /\ new \in Seq(TD) /\ Len(new) = n
      /\ \A i \in 1 .. n : new[i] = Run(e, n)[i]
      /\ Queues' = [Queues EXCEPT ![e] = Queues[e] \o new]
      /\ \A i \in 1 .. n : /\ td'[new[i]].req = asked + 1 /\ td'[new[i]].last = (i = n)
                           /\ td'[new[i]].in = (e \in InEndpoint)
      /\ \A t \in Active : td'[t] = td[t]
  <2>1. Behind(e, n, new)
    BY <1>0, <1>2, SubmitQueues
  <2> QED BY <2>1 DEF Behind
<1>4. /\ Queues \in [Endpoint -> Seq(TD)] /\ Line \in Seq(TD) /\ Retired = ToSet(Line)
      /\ Active \in SUBSET TD
  BY <1>0, QueuesIs
<1>5. Line' = Line /\ Retired' = Retired /\ Excused' = Excused
  BY <1>1 DEF Line, Retired, Excused
<1>6. \A x \in ToSet(new) : /\ td'[x].req = asked + 1 /\ td'[x].in = (e \in InEndpoint) /\ x \in TD
  <2>1. \A x \in ToSet(new) : x \in TD /\ \E i \in 1 .. n : new[i] = x
    BY <1>3, MemberIs
  <2> QED BY <2>1, <1>3
<1>7. \A x \in Active : /\ td'[x] = td[x] /\ x \in TD /\ td[x].req <= asked /\ td[x].req # asked + 1
                        /\ td[x].last /\ td[x].req \notin Excused => td[x].req \in open
  <2> SUFFICES ASSUME NEW x \in Active
               PROVE  /\ td'[x] = td[x] /\ x \in TD /\ td[x].req <= asked /\ td[x].req # asked + 1
                      /\ td[x].last /\ td[x].req \notin Excused => td[x].req \in open
    OBVIOUS
  <2>1. x \in TD /\ td'[x] = td[x]
    BY <1>3, <1>4
  <2>2. td[x].req \in Nat
    BY <2>1, <1>0 DEF IsoInv, IsoTypes, TDRecord
  <2>3. /\ td[x].req <= asked
        /\ td[x].last /\ td[x].req \notin Excused => td[x].req \in open
    BY DEF AnswerInv, Pending
  <2>4. td[x].req # asked + 1
    BY <2>2, <2>3, <1>1
  <2> QED BY <2>1, <2>3, <2>4
<1>8. /\ \A d \in Endpoint : Queues'[d] = IF d = e THEN Queues[e] \o new ELSE Queues[d]
      /\ Queues[e] \o new \in Seq(TD)
      /\ ToSet(Queues[e] \o new) = ToSet(Queues[e]) \cup ToSet(new)
  <2>1. ToSet(Queues[e] \o new) = ToSet(Queues[e]) \cup ToSet(new)
    BY <1>3, <1>4, JoinSet
  <2>2. Queues[e] \o new \in Seq(TD)
    BY <1>3, <1>4
  <2> QED BY <2>1, <2>2, <1>3, <1>4
<1>9. \A d \in Endpoint : \A x \in ToSet(Queues'[d]) :
        x \in ToSet(Queues[d]) \/ (d = e /\ x \in ToSet(new))
  BY <1>8
<1>10. \A x \in Active' : x \in Active \/ x \in ToSet(new)
  BY <1>5, <1>9 DEF Active
<1>11. \A d \in Endpoint : ToSet(Queues[d]) \in SUBSET Active
  BY DEF Active
<1>12. Retired \in SUBSET Active
  BY DEF Active
<1>13. PICK D : D = LastBefore'
  OBVIOUS
<1>14. \A x, y \in TD : <<x, y>> \in D <=>
         td'[x].last /\ td'[x].req = td'[y].req /\ td'[x].req \notin Excused
  BY <1>5, <1>13 DEF LastBefore
<1>15. \A x, y \in Active : <<x, y>> \in D => <<x, y>> \in LastBefore
  BY <1>7, <1>14 DEF LastBefore
<1>16. \A x \in Active, y \in ToSet(new) : <<x, y>> \notin D
  <2> SUFFICES ASSUME NEW x \in Active, NEW y \in ToSet(new), <<x, y>> \in D PROVE FALSE
    OBVIOUS
  <2>1. x \in TD /\ td'[x].req # asked + 1
    BY <1>7
  <2>2. y \in TD /\ td'[y].req = asked + 1
    BY <1>6
  <2> QED BY <2>1, <2>2, <1>14
<1>17. Ordered(Line, D)
  <2>1. Ordered(Line, LastBefore)
    BY DEF AnswerInv, InTurn
  <2> QED BY <2>1, <1>4, <1>12, <1>15, OrderedStays
<1>18. ASSUME NEW d \in Endpoint
       PROVE  Ordered(Queues[d], D) /\ Precedes(ToSet(Line), ToSet(Queues[d]), D)
  <2>1. /\ Ordered(Queues[d], LastBefore) /\ Precedes(ToSet(Line), ToSet(Queues[d]), LastBefore)
        /\ Queues[d] \in Seq(TD)
    BY <1>4 DEF AnswerInv, InTurn
  <2>2. \A x, y \in ToSet(Queues[d]) : <<x, y>> \in D => <<x, y>> \in LastBefore
    BY <1>11, <1>15
  <2>3. Ordered(Queues[d], D)
    BY <2>1, <2>2, OrderedStays
  <2>4. Precedes(ToSet(Line), ToSet(Queues[d]), D)
    BY <2>1, <1>4, <1>11, <1>12, <1>15 DEF Precedes
  <2> QED BY <2>3, <2>4
<1>19. Ordered(new, D)
  <2> SUFFICES ASSUME NEW i \in 1 .. n, NEW j \in 1 .. n, i < j PROVE <<new[i], new[j]>> \notin D
    BY <1>3 DEF Ordered
  <2>1. i # n
    OBVIOUS
  <2>2. ~td'[new[i]].last
    BY <2>1, <1>3
  <2> QED BY <2>2, <1>13 DEF LastBefore
<1>20. Ordered(Queues[e] \o new, D)
  <2>1. Precedes(ToSet(Queues[e]), ToSet(new), D)
    BY <1>11, <1>16 DEF Precedes
  <2>2. Queues[e] \in Seq(TD) /\ Ordered(Queues[e], D)
    BY <1>4, <1>18
  <2> DEFINE q == Queues[e]
  <2>3. q \in Seq(TD) /\ Ordered(q, D) /\ Precedes(ToSet(q), ToSet(new), D)
    BY <2>1, <2>2
  <2> HIDE DEF q
  <2>4. Ordered(q \o new, D)
    BY ONLY <2>3, <1>3, <1>19, JoinOrdered
  <2> QED BY <2>4 DEF q
<1>21. InTurn(Line', Queues', LastBefore')
  <2>1. ASSUME NEW d \in Endpoint
        PROVE  Ordered(Queues'[d], D) /\ Precedes(ToSet(Line), ToSet(Queues'[d]), D)
    <3>1. Ordered(Queues'[d], D)
      BY <1>8, <1>18, <1>20
    <3>2. Precedes(ToSet(Line), ToSet(Queues'[d]), D)
      BY <1>4, <1>9, <1>12, <1>16, <1>18 DEF Precedes
    <3> QED BY <3>1, <3>2
  <2> QED BY <2>1, <1>5, <1>13, <1>17 DEF InTurn
<1>22. Separate'
  <2> SUFFICES ASSUME NEW d \in Endpoint, NEW c \in Endpoint, d # c,
                      NEW x \in ToSet(Queues'[d]), NEW y \in ToSet(Queues'[c])
               PROVE  td'[x].req # td'[y].req
    BY DEF Separate
  <2>1. CASE x \in ToSet(Queues[d]) /\ y \in ToSet(Queues[c])
    <3>1. td[x].req # td[y].req
      BY <2>1 DEF AnswerInv, Separate
    <3> QED BY <3>1, <2>1, <1>7, <1>11
  <2>2. CASE x \in ToSet(Queues[d]) /\ y \in ToSet(new)
    BY <2>2, <1>6, <1>7, <1>11
  <2>3. CASE x \in ToSet(new) /\ y \in ToSet(Queues[c])
    BY <2>3, <1>6, <1>7, <1>11
  <2> QED BY <2>1, <2>2, <2>3, <1>9
<1>23. OneWay'
  <2> SUFFICES ASSUME NEW x \in Active', NEW y \in Active', td'[x].req = td'[y].req
               PROVE  td'[x].in = td'[y].in
    BY DEF OneWay
  <2>1. CASE x \in Active /\ y \in Active
    BY <2>1, <1>7 DEF AnswerInv, OneWay
  <2>2. CASE x \in ToSet(new) /\ y \in ToSet(new)
    BY <2>2, <1>6
  <2>3. CASE x \in Active /\ y \in ToSet(new)
    BY <2>3, <1>6, <1>7
  <2>4. CASE x \in ToSet(new) /\ y \in Active
    BY <2>4, <1>6, <1>7
  <2> QED BY <2>1, <2>2, <2>3, <2>4, <1>10
<1>24. Inwards'
  <2>1. \A x \in ToSet(isoIn) : x \in Retired
    BY <1>0, LineIs
  <2>2. \A x \in ToSet(isoIn) : td[x].in /\ td'[x] = td[x]
    BY <2>1, <1>7, <1>12 DEF AnswerInv, Inwards
  <2> QED BY <2>2, <1>1 DEF Inwards
<1>25. Pending'
  <2> SUFFICES ASSUME NEW x \in Active'
               PROVE  /\ td'[x].req <= asked'
                      /\ td'[x].last /\ td'[x].req \notin Excused' => td'[x].req \in open'
    BY DEF Pending
  <2>1. CASE x \in Active
    <3>1. td[x].req \in Nat
      BY <2>1, <1>0, <1>7 DEF IsoInv, IsoTypes, TDRecord
    <3>2. td[x].req <= asked + 1
      BY <2>1, <3>1, <1>1, <1>7
    <3> QED BY <2>1, <3>2, <1>1, <1>5, <1>7
  <2>2. CASE x \in ToSet(new)
    BY <2>2, <1>1, <1>6
  <2> QED BY <2>1, <2>2, <1>10
<1>26. AnswerInv'
  BY <1>21, <1>22, <1>23, <1>24, <1>25 DEF AnswerInv
<1> QED BY <1>1, <1>5, <1>26

-----------------------------------------------------------------------------
(* Every step keeps it, and answers no request early that is not excused.  *)
LEMMA AnswerInductive ==
  ASSUME AnswerInv /\ FramesBeforeAnswer, [Next]_vars
  PROVE  (AnswerInv /\ FramesBeforeAnswer)'
<1>1. IsoInv'
  BY IsoInductive DEF AnswerInv
<1>2. CASE QuietSteps
  BY <1>1, <1>2, QuietAnswer DEF FramesBeforeAnswer, Excused
<1>3. ASSUME NEW e \in Endpoint, Create(e) PROVE (AnswerInv /\ FramesBeforeAnswer)'
  BY <1>1, <1>3, CreateAnswer DEF FramesBeforeAnswer, Excused
<1>4. ASSUME NEW e \in Endpoint, NEW n \in 1 .. MaxFrames, NEW o \in Offsets, Submit(e, o, n)
      PROVE  (AnswerInv /\ FramesBeforeAnswer)'
  BY <1>1, <1>4, SubmitAnswer DEF FramesBeforeAnswer, Excused
<1>5. CASE AbortEnds \/ DeleteEnds
  BY <1>1, <1>5, RemovalAnswer DEF FramesBeforeAnswer, Excused
<1>6. CASE Frame
  BY <1>1, <1>6, FrameAnswer DEF FramesBeforeAnswer, Excused
<1>7. CASE FilterInterrupt
  BY <1>1, <1>7, FilterAnswer DEF FramesBeforeAnswer, Excused
<1>8. CASE IsoInTimer
  BY <1>1, <1>8, TimerAnswer DEF FramesBeforeAnswer, Excused
<1>9. CASE HandleInterrupt
  BY <1>1, <1>9, HandlerAnswer DEF FramesBeforeAnswer, Excused
<1>10. CASE Complete
  BY <1>1, <1>10, CompleteAnswer DEF FramesBeforeAnswer, Excused
<1>11. Next => \/ QuietSteps \/ Frame \/ FilterInterrupt \/ IsoInTimer \/ HandleInterrupt \/ Complete
               \/ AbortEnds \/ DeleteEnds
               \/ \E e \in Endpoint : Create(e)
               \/ \E e \in Endpoint, n \in 1 .. MaxFrames, o \in Offsets : Submit(e, o, n)
  BY Zenon DEF Next, Call, Workloop, QuietSteps
<1>12. UNCHANGED vars => QuietSteps
  BY DEF QuietSteps
<1> QED BY <1>2, <1>3, <1>4, <1>5, <1>6, <1>7, <1>8, <1>9, <1>10, <1>11, <1>12

(* At the start nothing is on its way.                                     *)
LEMMA AnswerBegins == Init => AnswerInv /\ FramesBeforeAnswer
<1> SUFFICES ASSUME Init PROVE AnswerInv /\ FramesBeforeAnswer
  OBVIOUS
<1>1. /\ chain = [e \in Endpoint |-> <<>>] /\ early = {}
      /\ work = <<>> /\ done = <<>> /\ isoIn = <<>> /\ hcDone = <<>>
  BY DEF Init
<1>2. IsoInv
  BY IsoBegins
<1>3. ToSet(<<>>) = {} /\ \A C : Ordered(<<>>, C)
  BY DEF ToSet, Ordered
<1>4. Line = <<>> /\ \A e \in Endpoint : Queues[e] = <<>>
  <2>1. \A e \in Endpoint : chain[e] = <<>>
    BY <1>1
  <2> QED BY <2>1, <1>1, <1>2, QueuesIs DEF Line
<1>5. Retired = {} /\ Active = {}
  BY <1>3, <1>4 DEF Active, Retired, SeqSet
<1>6. InTurn(Line, Queues, LastBefore)
  BY <1>3, <1>4 DEF InTurn, Precedes
<1>7. Separate /\ OneWay /\ Inwards /\ Pending
  BY <1>1, <1>3, <1>4, <1>5 DEF Separate, OneWay, Inwards, Pending
<1> QED BY <1>1, <1>2, <1>6, <1>7 DEF AnswerInv, FramesBeforeAnswer

(* A request is answered once, and after its frames: when the workloop     *)
(* finds the last frame of a request and calls the completion, no other    *)
(* frame of the request is in the done list or in one of the queues of the *)
(* filter, the timer and the workloop; unless the filter or the timer put  *)
(* a newer batch before an older one, or a removal came between.           *)
THEOREM FramesBeforeAnswerHolds == Spec => []FramesBeforeAnswer
<1>1. AnswerInv /\ FramesBeforeAnswer /\ [Next]_vars => (AnswerInv /\ FramesBeforeAnswer)'
  BY AnswerInductive
<1> QED BY <1>1, AnswerBegins, PTL DEF Spec
=============================================================================
