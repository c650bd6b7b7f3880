---------------------------- MODULE SDHCCommands ----------------------------
(***************************************************************************)
(* Commands of the SD host controller driver, WiiSDHC.                     *)
(*                                                                         *)
(* Clients queue commands; the driver gives the controller one at a time.  *)
(* The interrupt handler and a watchdog timer read the interrupt status    *)
(* register, acknowledge what they read and advance the current command    *)
(* until it completes.  The completion callback runs in the middle of      *)
(* completeIO and may queue, and so start, the next command.               *)
(*                                                                         *)
(* Everything in the driver runs in the gate of the workloop: "pc" says    *)
(* where the gate is.  The controller, the card and the timer run beside   *)
(* it.  Every bit in the status register is tagged with the command it was *)
(* latched for (0 for the card); the driver never looks at the tag.        *)
(***************************************************************************)
EXTENDS Naturals, Sequences

CONSTANTS
  MaxCommands,   \* bound: commands, numbered in the order they are queued
  InitCommands,  \* how many of them initCard sends
  Timeout,       \* kSDHCCommandTimeoutMS, in periods of the watchdog
  CardMoves      \* bound: insertions and removals of the card

ASSUME CommandsAssumption ==
  /\ {MaxCommands, InitCommands, CardMoves} \subseteq Nat
  /\ Timeout \in Nat \ {0}

Command  == 1..MaxCommands
InitKind == {"plain", "busy"}  \* no data; R1b: busy after the response
DataKind == {"read", "write"}
Bit      == {"command", "dma", "transfer", "error", "card"}
Latched  == Bit \X (0..MaxCommands)

VARIABLES
  queued,     \* commands queued so far
  kind,       \* the kind of each command
  answered,   \* commands that completed
  last,       \* the one that did last
  result,     \* its status
  boot,       \* the thread in initCard; "up": _isCardInitialized
  queue,      \* _commandQueue
  current,    \* _currentCommand, 0 for NULL
  state,      \* its state
  busy,       \* _sdhcState is kSDHCStateBusy
  remaining,  \* _commandTimeoutRemainingUS
  timer,      \* the watchdog timer is set
  callout,    \* it has expired, the handler waits for the gate
  pc,         \* where the gate is
  owed,       \* completions whose dispatchNext is still to come
  after,      \* where the gate goes when they are done
  raw,        \* rawIntStatus
  status,     \* the interrupt status register
  hw,         \* the command in the controller, 0 for none
  phase,      \* what it is doing with it
  finished,   \* the last command the controller did without error: the data
              \* moved or, where there is none, the response came
  present,    \* a card is inserted
  moves,      \* insertions and removals left
  buffer,     \* whose data the double buffer holds, 0 for nobody's
  copied      \* whose data the client of the last read got

clientVars == <<queued, kind, boot>>
answerVars == <<answered, last, result>>
gateVars   == <<queue, current, state, busy, pc, owed, after, raw>>
timerVars  == <<remaining, timer, callout>>
hwVars     == <<status, hw, phase, finished>>
cardVars   == <<present, moves>>
vars == <<clientVars, answerVars, gateVars, timerVars, hwVars, cardVars, buffer, copied>>

(* The types of the variables.                                             *)
TypeOK ==
  /\ queued \in 0..MaxCommands
  /\ kind \in [Command -> InitKind \cup DataKind]
  /\ answered \subseteq Command
  /\ last \in 0..MaxCommands
  /\ result \in {"none", "success", "failed", "nomedia"}
  /\ boot \in {"init", "wait", "up", "down"}
  /\ queue \in Seq(Command)
  /\ current \in 0..MaxCommands
  /\ state \in {"started", "cmd", "data"}
  /\ busy \in BOOLEAN
  /\ remaining \in 0..Timeout
  /\ timer \in BOOLEAN /\ callout \in BOOLEAN
  /\ pc \in {"idle", "service", "start", "callback", "dispatch", "watch"}
  /\ owed \in Nat
  /\ after \in {"idle", "watch"}
  /\ raw \subseteq Latched /\ status \subseteq Latched
  /\ hw \in 0..MaxCommands
  /\ phase \in {"idle", "cmd", "data", "boundary", "stuck"}
  /\ finished \in 0..MaxCommands
  /\ present \in BOOLEAN
  /\ moves \in 0..CardMoves
  /\ buffer \in 0..MaxCommands
  /\ copied \in 0..MaxCommands

(* start() has set up the controller and calls initCard.                   *)
Init ==
  /\ queued = 0
  /\ kind = [c \in Command |-> "plain"]
  /\ answered = {} /\ last = 0 /\ result = "none"
  /\ boot = "init"
  /\ queue = <<>>
  /\ current = 0
  /\ state = "started"
  /\ busy = FALSE
  /\ remaining = 0 /\ timer = FALSE /\ callout = FALSE
  /\ pc = "idle" /\ owed = 0 /\ after = "idle"
  /\ raw = {} /\ status = {}
  /\ hw = 0 /\ phase = "idle" /\ finished = 0
  /\ present = TRUE /\ moves = CardMoves
  /\ buffer = 0
  /\ copied = 0

Bits(s) == {l[1] : l \in s}
Latch(bit) == status \cup {<<bit, hw>>}
HasData(c) == kind[c] \in DataKind

-----------------------------------------------------------------------------
(* Clients.  A new command goes to the end of the queue, and is dispatched *)
(* if there is no current one (executeCommandGated).                       *)

(* Mutant: at the head of the queue.                                       *)
EnqueueFirst(k) ==
  /\ queued < MaxCommands
  /\ queued' = queued + 1
  /\ kind' = [kind EXCEPT ![queued'] = k]
  /\ queue' = <<queued'>> \o queue

Enqueue(k) ==
  /\ queued < MaxCommands
  /\ queued' = queued + 1
  /\ kind' = [kind EXCEPT ![queued'] = k]
  /\ queue' = Append(queue, queued')

Execute(k) ==
  /\ pc = "idle"
  /\ Enqueue(k)
  /\ pc' = IF current = 0 THEN "dispatch" ELSE "idle"
  /\ UNCHANGED <<answerVars, current, state, busy, owed, after, raw, timerVars,
                 hwVars, cardVars, buffer, copied>>

(* initCard: one sendCommand after the other.                              *)
InitSend(k) ==
  /\ boot = "init"
  /\ queued < InitCommands
  /\ k \in InitKind
  /\ boot' = "wait"
  /\ Execute(k)

(* It looks for a card first.                                              *)
InitNoCard ==
  /\ boot = "init"
  /\ queued = 0
  /\ ~present
  /\ boot' = "down"
  /\ UNCHANGED <<queued, kind, answerVars, gateVars, timerVars, hwVars, cardVars,
                 buffer, copied>>

(* The syncer was signalled.  Some failures end start(), some do not.      *)
InitAnswered ==
  /\ boot = "wait"
  /\ queued \in answered
  /\ \/ boot' = IF queued < InitCommands THEN "init" ELSE "up"
     \/ result # "success" /\ boot' = "down"
  /\ UNCHANGED <<queued, kind, answerVars, gateVars, timerVars, hwVars, cardVars,
                 buffer, copied>>

(* doAsyncReadWrite, from any thread.  The card it checked for may be gone *)
(* when the thread gets the gate.                                          *)
ReadWrite(k) ==
  /\ boot = "up"
  /\ k \in DataKind
  /\ Execute(k)
  /\ UNCHANGED boot

-----------------------------------------------------------------------------
(* The end of a command, and the start of the next one.                    *)

(* completeIO, up to the callback.                                         *)
Complete(c, how) ==
  /\ current' = 0
  /\ busy' = FALSE
  /\ remaining' = 0
  /\ timer' = FALSE
  /\ answered' = answered \cup {c} /\ last' = c /\ result' = how
  /\ pc' = "callback"

(* handleAsyncReadWriteCompletion: the client of a read or write may queue *)
(* its next one from the completion.                                       *)
CallbackSubmits(k) ==
  /\ pc = "callback"
  /\ boot = "up"
  /\ k \in DataKind
  /\ Enqueue(k)
  /\ pc' = "dispatch"
  /\ owed' = IF current = 0 THEN owed + 1 ELSE owed
  /\ UNCHANGED <<boot, answerVars, current, state, busy, after, raw, timerVars,
                 hwVars, cardVars, buffer, copied>>

CallbackReturns ==
  /\ pc = "callback"
  /\ pc' = "dispatch"
  /\ UNCHANGED <<clientVars, answerVars, queue, current, state, busy, owed, after,
                 raw, timerVars, hwVars, cardVars, buffer, copied>>

(* dispatchNext returns: to the completeIO it was called under, or out.    *)
Return ==
  /\ pc' = IF owed > 0 THEN "dispatch" ELSE after
  /\ owed' = IF owed > 0 THEN owed - 1 ELSE 0

DispatchNothing ==
  /\ pc = "dispatch"
  /\ busy \/ queue = <<>>
  /\ Return
  /\ UNCHANGED <<clientVars, answerVars, queue, current, state, busy, after, raw,
                 timerVars, hwVars, cardVars, buffer, copied>>

(* Mutant: whatever the controller is doing.                               *)
DispatchAlways ==
  /\ pc = "dispatch"
  /\ queue # <<>>
  /\ present
  /\ busy' = TRUE
  /\ current' = Head(queue)
  /\ queue' = Tail(queue)
  /\ state' = "started"
  /\ pc' = "start"
  /\ UNCHANGED <<clientVars, answerVars, owed, after, raw, timerVars, hwVars,
                 cardVars, buffer, copied>>

Dispatch ==
  /\ pc = "dispatch"
  /\ ~busy /\ queue # <<>>
  /\ present
  /\ busy' = TRUE
  /\ current' = Head(queue)
  /\ queue' = Tail(queue)
  /\ state' = "started"
  /\ pc' = "start"
  /\ UNCHANGED <<clientVars, answerVars, owed, after, raw, timerVars, hwVars,
                 cardVars, buffer, copied>>

DispatchNoMedia ==
  /\ pc = "dispatch"
  /\ ~busy /\ queue # <<>>
  /\ ~present
  /\ queue' = Tail(queue)
  /\ state' = "started"
  /\ Complete(Head(queue), "nomedia")
  /\ UNCHANGED <<clientVars, owed, after, raw, callout, hwVars, cardVars, buffer,
                 copied>>

-----------------------------------------------------------------------------
(* doAsyncIO in state Started: wait for the controller, then issue.        *)

(* prepareDataTx: a write is copied to the double buffer.                  *)
PrepareDataTx ==
  buffer' = IF kind[current] = "write" THEN current ELSE buffer

Issue ==
  /\ pc = "start"
  /\ phase = "idle"
  /\ PrepareDataTx
  /\ status' = {}
  /\ hw' = current
  /\ phase' = "cmd"
  /\ state' = "cmd"
  /\ remaining' = Timeout
  /\ timer' = TRUE
  /\ Return
  /\ UNCHANGED <<clientVars, answerVars, queue, current, busy, after, raw, callout,
                 finished, cardVars, copied>>

(* The inhibit bits stay set for too long, or the client's buffer is too   *)
(* small for the blocks.                                                   *)
StartFails ==
  /\ pc = "start"
  /\ phase # "idle" \/ HasData(current)
  /\ Complete(current, "failed")
  /\ UNCHANGED <<clientVars, queue, state, owed, after, raw, callout, hwVars,
                 cardVars, buffer, copied>>

-----------------------------------------------------------------------------
(* The interrupt handler and the watchdog.                                 *)

HandleInterrupt ==
  /\ pc = "idle"
  /\ status # {}
  /\ raw' = status
  /\ pc' = "service"
  /\ after' = "idle"
  /\ UNCHANGED <<clientVars, answerVars, queue, current, state, busy, owed, timerVars,
                 hwVars, cardVars, buffer, copied>>

(* commandWatchdogFired looks at the status itself first.                  *)
WatchdogFires ==
  /\ pc = "idle"
  /\ callout
  /\ callout' = FALSE
  /\ raw' = IF current = 0 THEN {} ELSE status
  /\ pc' = IF current = 0 THEN "idle" ELSE IF status = {} THEN "watch" ELSE "service"
  /\ after' = IF pc' = "service" THEN "watch" ELSE "idle"
  /\ UNCHANGED <<clientVars, answerVars, queue, current, state, busy, owed, remaining,
                 timer, hwVars, cardVars, buffer, copied>>

(* serviceInterruptStatus acknowledges the bits that were read, not those  *)
(* latched since.                                                          *)
Acknowledge ==
  /\ status' = status \ raw
  /\ raw' = {}

ServiceSpurious ==
  /\ pc = "service"
  /\ current = 0
  /\ Acknowledge
  /\ Return
  /\ UNCHANGED <<clientVars, answerVars, queue, current, state, busy, after, timerVars,
                 hw, phase, finished, cardVars, buffer, copied>>

(* doAsyncIO in states Cmd and DataTx: what the status means.              *)
InData    == state = "data" \/ HasData(current)
DataReady == Bits(raw) \cap {"dma", "transfer"} # {}

Fails ==
  \/ "error" \in Bits(raw)
  \/ state = "cmd" /\ "command" \notin Bits(raw)
  \/ state = "data" /\ ~DataReady

Succeeds ==
  ~Fails /\ (~InData \/ "transfer" \in Bits(raw))

(* A read is copied from the double buffer whenever data may be there.     *)
(* Mutant: at the DMA interrupt only.                                      *)
CopyBackOnce ==
  copied' = IF kind[current] = "read" /\ "dma" \in Bits(raw) THEN buffer ELSE copied

CopyBack ==
  copied' = IF kind[current] = "read" /\ DataReady THEN buffer ELSE copied

ServiceFails ==
  /\ pc = "service"
  /\ current # 0
  /\ Acknowledge
  /\ Fails
  /\ Complete(current, "failed")
  /\ UNCHANGED <<clientVars, queue, state, owed, after, callout, hw, phase,
                 finished, cardVars, buffer, copied>>

ServiceSucceeds ==
  /\ pc = "service"
  /\ current # 0
  /\ Acknowledge
  /\ Succeeds
  /\ CopyBack
  /\ Complete(current, "success")
  /\ UNCHANGED <<clientVars, queue, state, owed, after, callout, hw, phase,
                 finished, cardVars, buffer>>

(* The response without the data, or a DMA interrupt: wait for the rest.   *)
ServiceWaits ==
  /\ pc = "service"
  /\ current # 0
  /\ Acknowledge
  /\ ~Fails /\ ~Succeeds
  /\ CopyBack
  /\ state' = "data"
  /\ remaining' = Timeout
  /\ Return
  /\ UNCHANGED <<clientVars, answerVars, queue, current, busy, after, timer, callout,
                 hw, phase, finished, cardVars, buffer>>

-----------------------------------------------------------------------------
(* The rest of commandWatchdogFired.                                       *)

Expired == remaining <= 1

WatchNothing ==
  /\ pc = "watch"
  /\ current = 0
  /\ pc' = "idle"
  /\ after' = "idle"
  /\ UNCHANGED <<clientVars, answerVars, queue, current, state, busy, owed, raw,
                 timerVars, hwVars, cardVars, buffer, copied>>

(* Mutant: the timer is set but no time is taken off.                      *)
WatchForever ==
  /\ pc = "watch"
  /\ current # 0
  /\ ~Expired
  /\ remaining' = remaining
  /\ timer' = TRUE
  /\ pc' = "idle"
  /\ after' = "idle"
  /\ UNCHANGED <<clientVars, answerVars, queue, current, state, busy, owed, raw,
                 callout, hwVars, cardVars, buffer, copied>>

WatchAgain ==
  /\ pc = "watch"
  /\ current # 0
  /\ ~Expired
  /\ remaining' = remaining - 1
  /\ timer' = TRUE
  /\ pc' = "idle"
  /\ after' = "idle"
  /\ UNCHANGED <<clientVars, answerVars, queue, current, state, busy, owed, raw,
                 callout, hwVars, cardVars, buffer, copied>>

(* resetController stops the controller, or gives up waiting for it; the   *)
(* caller does not look.                                                   *)
WatchTimesOut ==
  /\ pc = "watch"
  /\ current # 0
  /\ Expired
  /\ \/ hw' = 0 /\ phase' = "idle"
     \/ UNCHANGED <<hw, phase>>
  /\ Complete(current, "failed")
  /\ after' = "idle"
  /\ UNCHANGED <<clientVars, queue, state, owed, raw, callout, status, finished,
                 cardVars, buffer, copied>>

-----------------------------------------------------------------------------
(* The timer, the controller and the card (external).                      *)

(* cancelTimeout does not call back a callout that waits for the gate.     *)
TimerExpires ==
  /\ timer
  /\ timer' = FALSE
  /\ callout' = TRUE
  /\ UNCHANGED <<clientVars, answerVars, gateVars, remaining, hwVars, cardVars, buffer,
                 copied>>

(* The response: a read begins to fill the double buffer.                  *)
HwResponds ==
  /\ phase = "cmd"
  /\ present
  /\ status' = Latch("command")
  /\ buffer' = IF kind[hw] = "read" THEN 0 ELSE buffer
  /\ finished' = IF HasData(hw) THEN finished ELSE hw
  /\ IF kind[hw] = "plain"
       THEN phase' = "idle" /\ hw' = 0
       ELSE phase' = "data" /\ hw' = hw
  /\ UNCHANGED <<clientVars, answerVars, gateVars, timerVars, cardVars, copied>>

(* A DMA boundary.                                                         *)
HwBoundary ==
  /\ phase = "data"
  /\ HasData(hw)
  /\ status' = Latch("dma")
  /\ phase' = "boundary"
  /\ UNCHANGED <<clientVars, answerVars, gateVars, timerVars, hw, finished, cardVars,
                 buffer, copied>>

(* All data has moved, or the card is no longer busy.                      *)
HwTransfers ==
  /\ phase \in {"data", "boundary"}
  /\ status' = Latch("transfer")
  /\ buffer' = IF kind[hw] = "read" THEN hw ELSE buffer
  /\ finished' = hw
  /\ hw' = 0
  /\ phase' = "idle"
  /\ UNCHANGED <<clientVars, answerVars, gateVars, timerVars, cardVars, copied>>

(* An error; the lines may stay inhibited until they are reset.            *)
HwFails ==
  /\ phase \in {"cmd", "data", "boundary"}
  /\ status' = Latch("error")
  /\ \/ hw' = 0 /\ phase' = "idle"
     \/ hw' = hw /\ phase' = "stuck"
  /\ UNCHANGED <<clientVars, answerVars, gateVars, timerVars, finished, cardVars,
                 buffer, copied>>

(* initController lets insertion and removal set their bits as well.       *)
CardMovesInOrOut ==
  /\ moves > 0
  /\ moves' = moves - 1
  /\ present' = ~present
  /\ status' = status \cup {<<"card", 0>>}
  /\ UNCHANGED <<clientVars, answerVars, gateVars, timerVars, hw, phase, finished,
                 buffer, copied>>

-----------------------------------------------------------------------------
Client == \/ \E k \in InitKind : InitSend(k)
          \/ InitNoCard \/ InitAnswered
          \/ \E k \in DataKind : ReadWrite(k)

GateStep ==
  \/ \E k \in DataKind : CallbackSubmits(k)
  \/ CallbackReturns
  \/ DispatchNothing \/ Dispatch \/ DispatchNoMedia
  \/ Issue \/ StartFails
  \/ ServiceSpurious \/ ServiceFails \/ ServiceSucceeds \/ ServiceWaits
  \/ WatchNothing \/ WatchAgain \/ WatchTimesOut

Controller == \/ HwResponds \/ HwBoundary \/ HwTransfers \/ HwFails
              \/ CardMovesInOrOut

Next ==
  \/ Client \/ GateStep \/ HandleInterrupt \/ WatchdogFires
  \/ TimerExpires \/ Controller

Spec == Init /\ [][Next]_vars

(* Who holds the gate goes on, and the timer works.  Nothing is assumed of *)
(* the controller, of its interrupt or of the clients.                     *)
Fairness ==
  /\ WF_vars(GateStep)
  /\ WF_vars(TimerExpires)
  /\ WF_vars(WatchdogFires)

FairSpec == Spec /\ Fairness

-----------------------------------------------------------------------------
(* Every command queued is in the queue, is the current one or was         *)
(* answered, and only one of these, although dispatchNext is entered again *)
(* from callbacks (executeCommandGated, dispatchNext, completeIO).         *)
OnePlaceEach ==
  \A c \in 1..queued :
    LET waits == \E i \in DOMAIN queue : queue[i] = c
    IN  CASE c \in answered -> ~waits /\ current # c
          [] current = c   -> ~waits
          [] OTHER         -> waits

(* Commands are answered in the order they were queued: a write is never   *)
(* overtaken by a later read (enqueueCommand, dispatchNext).               *)
AnsweredInOrder ==
  \A c, d \in 1..queued : c < d /\ d \in answered => c \in answered

(* The status that advances a command was latched for it, or for the card: *)
(* never for a predecessor that failed, timed out or was still busy when   *)
(* it was answered (doAsyncIO 308-316, commandWatchdogFired).              *)
StatusIsOwn ==
  pc = "service" /\ current # 0 => \A l \in raw : l[2] \in {0, current}

(* Success is reported only of what the controller finished, and to a read *)
(* with its own data (doAsyncIO, prepareDataTx).                           *)
SuccessIsReal ==
  pc = "callback" /\ result = "success" =>
    /\ finished = last
    /\ kind[last] = "read" => copied = last

(* While a write is in the controller, answered already or not, the double *)
(* buffer holds its data and not the next command's (doAsyncIO 243-296).   *)
WritesOwnData ==
  phase \in {"cmd", "data", "boundary"} /\ kind[hw] = "write" => buffer = hw

(* The data that crosses the double buffer is that of its own command, in  *)
(* both directions.                                                        *)
DataIsOwn == SuccessIsReal /\ WritesOwnData

(* A command in the controller is always watched: the timer is set or its  *)
(* callout waits, also when a command started by a callback races a stale  *)
(* callout (completeIO, commandWatchdogFired).                             *)
NeverUnwatched ==
  pc = "idle" /\ current # 0 => timer \/ callout

(* Every queued command is answered although the controller may never      *)
(* answer and its interrupt may never come.                                *)
EveryCommandAnswered ==
  \A c \in Command : (queued >= c) ~> (c \in answered)
=============================================================================
