--------------------------- MODULE OHCIFrameNumber ---------------------------
(***************************************************************************)
(* The 64-bit frame number of WiiOHCI.                                     *)
(*                                                                         *)
(* The controller counts frames in 16 bits of the HCCA and raises          *)
(* FrameNumberOverflow whenever bit 15 changes.  The interrupt filter adds *)
(* BIT16 to _frameNumber when the overflow was a wrap to zero.  A caller   *)
(* of GetFrameNumber reads the counter, adds _frameNumber, and accounts    *)
(* for a wrap the filter has not yet seen when the counter is small.       *)
(***************************************************************************)
EXTENDS Naturals

CONSTANTS
  Half,          \* BIT15: half the range of the counter
  WrapWindow,    \* 200: below it a pending overflow is taken for a wrap
  FilterDelay,   \* frames an overflow may wait for the filter
  CallFrames,    \* frames that may pass during one call
  MaxFrame       \* bound: frames

ASSUME DelayAssumption ==
  /\ Half \in Nat /\ WrapWindow \in Nat /\ FilterDelay \in Nat
  /\ CallFrames \in Nat /\ MaxFrame \in Nat
  /\ 0 < FilterDelay /\ FilterDelay <= WrapWindow
  /\ WrapWindow + CallFrames <= Half

VARIABLES
  frames,        \* frames since the controller was started
  hcca,          \* _hccaPtr->frameNumber
  overflow,      \* FrameNumberOverflow in HcInterruptStatus
  frameNumber,   \* _frameNumber
  pc, hcFrameNumber, fullFrameNumber,
  start,         \* the frame the call was made in (history)
  interrupted    \* the filter ran during the call (history)

numberVars == <<frames, hcca, overflow, frameNumber, pc, hcFrameNumber,
                fullFrameNumber, start, interrupted>>

(* The types of the variables. *)
NumberTypeOK ==
  /\ frames \in 0..MaxFrame
  /\ hcca \in 0..(2 * Half - 1)
  /\ overflow \in BOOLEAN
  /\ frameNumber \in Nat
  /\ pc \in {"idle", "counter", "sum", "done"}
  /\ hcFrameNumber \in 0..(2 * Half - 1)
  /\ fullFrameNumber \in Nat
  /\ start \in 0..MaxFrame
  /\ interrupted \in BOOLEAN

NumberInit ==
  /\ frames = 0
  /\ hcca = 0
  /\ overflow = FALSE
  /\ frameNumber = 0
  /\ pc = "idle"
  /\ hcFrameNumber = 0
  /\ fullFrameNumber = 0
  /\ start = 0
  /\ interrupted = FALSE

(* Frames since bit 15 last changed.                                       *)
Since == IF hcca < Half THEN hcca ELSE hcca - Half

(* The controller (external).  Neither the filter nor a caller takes more  *)
(* frames than the constants allow.                                        *)
FramePasses ==
  /\ frames < MaxFrame
  /\ overflow => Since + 1 < FilterDelay
  /\ pc # "idle" => frames < start + CallFrames
  /\ frames' = frames + 1
  /\ hcca' = IF hcca = 2 * Half - 1 THEN 0 ELSE hcca + 1
  /\ overflow' = (overflow \/ hcca' \in {0, Half})
  /\ UNCHANGED <<frameNumber, pc, hcFrameNumber, fullFrameNumber, start,
                 interrupted>>

(* Mutant: the overflow in the middle of the range is counted as well.     *)
FilterCountsBoth ==
  /\ overflow
  /\ interrupted' = (interrupted \/ pc \in {"counter", "sum"})
  /\ frameNumber' = frameNumber + 2 * Half
  /\ overflow' = FALSE
  /\ UNCHANGED <<frames, hcca, pc, hcFrameNumber, fullFrameNumber, start>>

(* filterInterrupt on FrameNumberOverflow.                                 *)
Filter ==
  /\ overflow
  /\ interrupted' = (interrupted \/ pc \in {"counter", "sum"})
  /\ frameNumber' = IF hcca < Half THEN frameNumber + 2 * Half ELSE frameNumber
  /\ overflow' = FALSE
  /\ UNCHANGED <<frames, hcca, pc, hcFrameNumber, fullFrameNumber, start>>

(* GetFrameNumber, one read of shared state after the other.               *)
ReadCounter ==
  /\ pc = "idle"
  /\ hcFrameNumber' = hcca
  /\ start' = frames
  /\ interrupted' = FALSE
  /\ pc' = "counter"
  /\ UNCHANGED <<frames, hcca, overflow, frameNumber, fullFrameNumber>>

AddBase ==
  /\ pc = "counter"
  /\ fullFrameNumber' = frameNumber + hcFrameNumber
  /\ pc' = "sum"
  /\ UNCHANGED <<frames, hcca, overflow, frameNumber, hcFrameNumber, start,
                 interrupted>>

(* Mutant: a pending overflow always counts.                               *)
CheckOverflowAlways ==
  /\ pc = "sum"
  /\ fullFrameNumber' = IF overflow
                          THEN fullFrameNumber + 2 * Half
                          ELSE fullFrameNumber
  /\ pc' = "done"
  /\ UNCHANGED <<frames, hcca, overflow, frameNumber, hcFrameNumber, start,
                 interrupted>>

CheckOverflow ==
  /\ pc = "sum"
  /\ fullFrameNumber' = IF hcFrameNumber < WrapWindow /\ overflow
                          THEN fullFrameNumber + 2 * Half
                          ELSE fullFrameNumber
  /\ pc' = "done"
  /\ UNCHANGED <<frames, hcca, overflow, frameNumber, hcFrameNumber, start,
                 interrupted>>

Return ==
  /\ pc = "done"
  /\ pc' = "idle"
  /\ UNCHANGED <<frames, hcca, overflow, frameNumber, hcFrameNumber,
                 fullFrameNumber, start, interrupted>>

NumberNext == FramePasses \/ Filter \/ ReadCounter \/ AddBase \/ CheckOverflow \/ Return

NumberSpec == NumberInit /\ [][NumberNext]_numberVars

-----------------------------------------------------------------------------
(* A call the filter does not interrupt returns the number of a frame      *)
(* between its start and its end, on either side of a wrap and whether or  *)
(* not the filter has seen the wrap.  Isochronous transfers are scheduled  *)
(* relative to it (GetFrameNumber against filterInterrupt).                *)
FrameIsCurrent ==
  pc = "done" /\ ~interrupted
    => start <= fullFrameNumber /\ fullFrameNumber <= frames

(* One the filter does interrupt is at worst one range of the counter off, *)
(* and the error does not stay (GetFrameNumber against filterInterrupt).   *)
OneWrapOffAtWorst ==
  pc = "done" => \E off \in {0, 2 * Half} :
                   \/ start <= fullFrameNumber + off /\ fullFrameNumber + off <= frames
                   \/ start + off <= fullFrameNumber /\ fullFrameNumber <= frames + off

(* The counter, what the filter has added so far and a wrap it has not     *)
(* seen yet always make up the true frame number: no wrap is missed, and   *)
(* none is counted twice although the interrupt comes twice per wrap       *)
(* (filterInterrupt).                                                      *)
NoEpochLost ==
  frames = frameNumber + hcca + (IF overflow /\ hcca < Half THEN 2 * Half ELSE 0)
=============================================================================
