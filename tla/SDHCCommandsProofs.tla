------------------------- MODULE SDHCCommandsProofs -------------------------
(***************************************************************************)
(* Proofs about SDHCCommands, for any number of commands, any timeout and  *)
(* any number of card moves.                                               *)
(***************************************************************************)
EXTENDS SDHCCommands, TLAPS

(* Commands leave the queue in order.                                      *)
Front == queued - Len(queue)

(* The queue holds the last commands queued; all before it were answered,  *)
(* except the current one.                                                 *)
QueueInv ==
  /\ Len(queue) <= queued
  /\ \A i \in 1..Len(queue) : queue[i] = Front + i
  /\ current \in {0, Front}
  /\ answered = 1..(IF current = 0 THEN Front ELSE Front - 1)

(* What the place of the gate says of the current command.                 *)
GateInv ==
  /\ busy <=> current # 0
  /\ current # 0 => (pc = "start" <=> state = "started")
  /\ pc = "start" => current # 0
  /\ pc = "callback" => current = 0
  /\ pc # "service" => raw = {}
  /\ pc = "idle" => after = "idle"

(* The current command has been given to the controller.                   *)
Issued == current # 0 /\ pc # "start"

(* Issued commands are watched, or about to be.                            *)
Watched == Issued => timer \/ callout \/ pc = "watch" \/ after = "watch"

(* The controller works for the current command or, if there is none, may  *)
(* still be busy with the one before.                                      *)
ControllerInv ==
  /\ hw = 0 <=> phase = "idle"
  /\ hw <= Front /\ finished <= Front
  /\ Issued => hw \in {0, current}
  /\ WritesOwnData

(* What a bit in the status register says once the current command runs.   *)
StatusInv ==
  \A l \in status \cup raw :
    /\ l[2] = 0 => l[1] = "card"
    /\ Issued =>
         /\ l[2] \in {0, current}
         /\ l[1] = "transfer" =>
              /\ finished = current
              /\ hw = 0
              /\ kind[current] = "read" => buffer = current
         /\ l[1] = "command" /\ ~HasData(current) => finished = current

(* A success reported in a callback is not overtaken by the controller.    *)
AnswerInv ==
  /\ SuccessIsReal
  /\ pc = "callback" /\ result = "success" => hw \in {0, last}

(* The inductive invariant.                                                *)
IInv ==
  /\ TypeOK
  /\ QueueInv
  /\ GateInv
  /\ Watched
  /\ ControllerInv
  /\ StatusInv
  /\ AnswerInv

(* The head of the queue is the next command.                              *)
LEMMA HeadOfQueue ==
  ASSUME TypeOK, QueueInv, queue # <<>>
  PROVE  /\ Head(queue) = Front + 1 /\ Head(queue) \in Command
         /\ Tail(queue) \in Seq(Command)
         /\ Len(Tail(queue)) = Len(queue) - 1
         /\ \A i \in 1..Len(Tail(queue)) : Tail(queue)[i] = Front + 1 + i
<1>1. queue \in Seq(Command) /\ queued \in Nat
  BY DEF TypeOK
<1>2. Len(queue) \in Nat /\ Len(queue) # 0
  BY <1>1
<1>3. Head(queue) = queue[1] /\ Head(queue) \in Command
  BY <1>1
<1>4. Tail(queue) \in Seq(Command) /\ Len(Tail(queue)) = Len(queue) - 1
  BY <1>1
<1>5. \A i \in 1..Len(Tail(queue)) : Tail(queue)[i] = queue[i + 1]
  BY <1>1, <1>4
<1>6. Front \in Nat
  BY <1>1, <1>2 DEF QueueInv, Front
<1>7. \A i \in 1..(Len(queue) - 1) : queue[i + 1] = Front + 1 + i
  BY <1>2, <1>6 DEF QueueInv
<1>8. queue[1] = Front + 1
  BY <1>2, <1>6 DEF QueueInv
<1>9. QED
  BY <1>3, <1>4, <1>5, <1>7, <1>8

(* The end of the queue is the last command queued.                        *)
LEMMA EnqueueAtEnd ==
  ASSUME TypeOK, QueueInv, NEW k, Enqueue(k), current' = current, answered' = answered
  PROVE  QueueInv'
<1>1. queue \in Seq(Command) /\ queued \in Nat /\ Len(queue) \in Nat
  BY DEF TypeOK
<1>2. queued' = queued + 1 /\ queue' = Append(queue, queued + 1) /\ queued + 1 \in Command
  BY <1>1, CommandsAssumption DEF Enqueue, Command
<1>3. /\ Len(queue') = Len(queue) + 1
      /\ \A i \in 1..Len(queue) : queue'[i] = queue[i]
      /\ queue'[Len(queue) + 1] = queued + 1
  BY <1>1, <1>2
<1>4. Front' = Front /\ Front \in Nat
  BY <1>1, <1>2, <1>3 DEF Front, QueueInv
<1>5. queued + 1 = Front + (Len(queue) + 1)
  BY <1>1 DEF Front
<1>6. \A i \in 1..Len(queue') : queue'[i] = Front + i
  <2> TAKE i \in 1..Len(queue')
  <2>1. CASE i \in 1..Len(queue)
    BY <1>3, <2>1 DEF QueueInv
  <2>2. CASE i = Len(queue) + 1
    BY <1>3, <1>5, <2>2
  <2>3. QED
    BY <1>1, <1>3, <2>1, <2>2
<1>7. Len(queue') <= queued'
  BY <1>1, <1>2, <1>3 DEF QueueInv
<1>8. QED
  BY <1>4, <1>6, <1>7 DEF QueueInv

(* A completion from the gate answers the current command.                 *)
LEMMA CurrentIsCommand == TypeOK /\ current # 0 => current \in Command
  BY CommandsAssumption DEF TypeOK, Command

(* A new command changes nothing about those that left the queue.          *)
LEMMA EnqueueKeeps ==
  ASSUME TypeOK, QueueInv, NEW k, Enqueue(k)
  PROVE  /\ Front' = Front
         /\ \A c \in 1..Front : kind'[c] = kind[c]
<1>1. queue \in Seq(Command) /\ queued \in Nat /\ Len(queue) \in Nat
  BY DEF TypeOK
<1>2. Len(queue') = Len(queue) + 1 /\ queued' = queued + 1
  BY <1>1 DEF Enqueue
<1>3. Front' = Front /\ Front \in Nat /\ Front <= queued
  BY <1>1, <1>2 DEF Front, QueueInv
<1>4. \A c \in 1..Front : c \in Command /\ c # queued + 1
  BY <1>1, <1>3, CommandsAssumption DEF TypeOK, Command
<1>5. \A c \in Command : c # queued + 1 => kind'[c] = kind[c]
  BY <1>2 DEF TypeOK, Enqueue
<1>6. QED
  BY <1>3, <1>4, <1>5

(* An interval grows at its end.                                           *)
LEMMA OneMore ==
  ASSUME NEW n \in Nat
  PROVE  1..(n + 1) = (1..n) \cup {n + 1}
  OBVIOUS

(* completeIO stores truth values.                                         *)
LEMMA CompleteTypes ==
  ASSUME NEW c, NEW how, Complete(c, how)
  PROVE  busy' \in BOOLEAN /\ timer' \in BOOLEAN
  BY Zenon DEF Complete

(* The invariant holds at the start.                                       *)
LEMMA InitIInv == Init => IInv
<1> SUFFICES ASSUME Init PROVE IInv
  OBVIOUS
<1> USE CommandsAssumption DEF Init
<1>1. TypeOK
  <2>1. {busy, timer, callout, present} \subseteq BOOLEAN
    BY Zenon
  <2>2. QED
    BY <2>1 DEF TypeOK, Command, InitKind, DataKind
<1>2. QueueInv
  BY DEF QueueInv, Front
<1>3. GateInv /\ Watched
  BY DEF GateInv, Watched, Issued
<1>4. ControllerInv
  BY DEF ControllerInv, Issued, WritesOwnData, Front
<1>5. StatusInv /\ AnswerInv
  BY DEF StatusInv, AnswerInv, SuccessIsReal
<1>6. QED
  BY <1>1, <1>2, <1>3, <1>4, <1>5 DEF IInv

(* Every step keeps the types.                                             *)
LEMMA TypeStep == IInv /\ [Next]_vars => TypeOK'
<1> SUFFICES ASSUME IInv, [Next]_vars PROVE TypeOK'
  OBVIOUS
<1> USE CommandsAssumption DEF IInv, TypeOK, GateInv, Command, clientVars,
        answerVars, gateVars, timerVars, hwVars, cardVars
<1>1. CASE UNCHANGED vars
  BY <1>1 DEF vars
<1>2. CASE \E k \in InitKind : InitSend(k)
  BY <1>2 DEF InitSend, Execute, Enqueue
<1>3. CASE InitNoCard
  BY <1>3 DEF InitNoCard
<1>4. CASE InitAnswered
  BY <1>4 DEF InitAnswered
<1>5. CASE \E k \in DataKind : ReadWrite(k)
  BY <1>5 DEF ReadWrite, Execute, Enqueue
<1>6. CASE \E k \in DataKind : CallbackSubmits(k)
  BY <1>6 DEF CallbackSubmits, Enqueue
<1>7. CASE CallbackReturns
  BY <1>7 DEF CallbackReturns
<1>8. CASE DispatchNothing
  BY <1>8 DEF DispatchNothing, Return
<1>9. CASE Dispatch
  <2>1. queue' \in Seq(Command) /\ current' \in Command
    BY <1>9, HeadOfQueue DEF Dispatch
  <2>2. QED
    BY <1>9, <2>1 DEF Dispatch
<1>10. CASE DispatchNoMedia
  <2>1. queue' \in Seq(Command) /\ Head(queue) \in Command
    BY <1>10, HeadOfQueue DEF DispatchNoMedia
  <2>2. busy' \in BOOLEAN /\ timer' \in BOOLEAN
    BY <1>10, CompleteTypes DEF DispatchNoMedia
  <2>3. answered' \subseteq Command /\ last' \in 0..MaxCommands
    <3>1. PICK c \in Command : c = Head(queue)
      BY <2>1
    <3>2. answered' = answered \cup {c} /\ last' = c
      BY <1>10, <3>1, Zenon DEF DispatchNoMedia, Complete
    <3>3. answered \subseteq Command /\ c \in 0..MaxCommands
      BY <3>1
    <3>4. answered' \subseteq Command
      BY <3>2, <3>3, Zenon
    <3>5. QED
      BY <3>2, <3>3, <3>4
  <2>4. current' = 0 /\ remaining' = 0 /\ pc' = "callback" /\ result' = "nomedia"
    BY <1>10 DEF DispatchNoMedia, Complete
  <2>5. QED
    BY <1>10, <2>1, <2>2, <2>3, <2>4 DEF DispatchNoMedia
<1>11. CASE Issue
  BY <1>11 DEF Issue, PrepareDataTx, Return
<1>12. CASE StartFails
  <2>1. current \in Command
    BY <1>12, CurrentIsCommand DEF StartFails
  <2>2. busy' \in BOOLEAN /\ timer' \in BOOLEAN
    BY <1>12, CompleteTypes DEF StartFails
  <2>3. QED
    BY <1>12, <2>1, <2>2 DEF StartFails, Complete
<1>13. CASE ServiceSpurious
  BY <1>13 DEF ServiceSpurious, Acknowledge, Return
<1>14. CASE ServiceFails
  <2>1. current \in Command
    BY <1>14, CurrentIsCommand DEF ServiceFails
  <2>2. busy' \in BOOLEAN /\ timer' \in BOOLEAN
    BY <1>14, CompleteTypes DEF ServiceFails
  <2>3. QED
    BY <1>14, <2>1, <2>2 DEF ServiceFails, Acknowledge, Complete
<1>15. CASE ServiceSucceeds
  <2>1. current \in Command
    BY <1>15, CurrentIsCommand DEF ServiceSucceeds
  <2>2. busy' \in BOOLEAN /\ timer' \in BOOLEAN
    BY <1>15, CompleteTypes DEF ServiceSucceeds
  <2>3. QED
    BY <1>15, <2>1, <2>2 DEF ServiceSucceeds, Acknowledge, Complete, CopyBack
<1>16. CASE ServiceWaits
  BY <1>16 DEF ServiceWaits, Acknowledge, Return, CopyBack
<1>17. CASE WatchNothing
  BY <1>17 DEF WatchNothing
<1>18. CASE WatchAgain
  BY <1>18 DEF WatchAgain, Expired
<1>19. CASE WatchTimesOut
  <2>1. current \in Command
    BY <1>19, CurrentIsCommand DEF WatchTimesOut
  <2>2. busy' \in BOOLEAN /\ timer' \in BOOLEAN
    BY <1>19, CompleteTypes DEF WatchTimesOut
  <2>3. QED
    BY <1>19, <2>1, <2>2 DEF WatchTimesOut, Complete
<1>20. CASE HandleInterrupt
  BY <1>20 DEF HandleInterrupt
<1>21. CASE WatchdogFires
  BY <1>21 DEF WatchdogFires
<1>22. CASE TimerExpires
  <2>1. timer' \in BOOLEAN /\ callout' \in BOOLEAN
    BY <1>22, Zenon DEF TimerExpires
  <2>2. QED
    BY <1>22, <2>1 DEF TimerExpires
<1>23. CASE HwResponds
  BY <1>23 DEF HwResponds, Latch, Latched, Bit
<1>24. CASE HwBoundary
  BY <1>24 DEF HwBoundary, Latch, Latched, Bit
<1>25. CASE HwTransfers
  BY <1>25 DEF HwTransfers, Latch, Latched, Bit
<1>26. CASE HwFails
  BY <1>26 DEF HwFails, Latch, Latched, Bit
<1>27. CASE CardMovesInOrOut
  BY <1>27 DEF CardMovesInOrOut, Latched, Bit
<1>28. QED
  BY <1>1, <1>2, <1>3, <1>4, <1>5, <1>6, <1>7, <1>8, <1>9, <1>10, <1>11, <1>12,
     <1>13, <1>14, <1>15, <1>16, <1>17, <1>18, <1>19, <1>20, <1>21, <1>22,
     <1>23, <1>24, <1>25, <1>26, <1>27
     DEF Next, Client, GateStep, Controller

(* Every step keeps the queue consecutive.                                 *)
LEMMA QueueStep == IInv /\ [Next]_vars => QueueInv'
<1> SUFFICES ASSUME IInv, [Next]_vars PROVE QueueInv'
  OBVIOUS
<1> USE CommandsAssumption DEF IInv, QueueInv, TypeOK, GateInv, Front,
        Command, clientVars, answerVars, gateVars, timerVars, hwVars, cardVars
<1>1. CASE UNCHANGED vars
  BY <1>1 DEF vars
<1>2. CASE \E k \in InitKind : InitSend(k)
  BY <1>2, EnqueueAtEnd DEF InitSend, Execute
<1>3. CASE InitNoCard
  BY <1>3 DEF InitNoCard
<1>4. CASE InitAnswered
  BY <1>4 DEF InitAnswered
<1>5. CASE \E k \in DataKind : ReadWrite(k)
  BY <1>5, EnqueueAtEnd DEF ReadWrite, Execute
<1>6. CASE \E k \in DataKind : CallbackSubmits(k)
  BY <1>6, EnqueueAtEnd DEF CallbackSubmits
<1>7. CASE CallbackReturns
  BY <1>7 DEF CallbackReturns
<1>8. CASE DispatchNothing
  BY <1>8 DEF DispatchNothing, Return
<1>9. CASE Dispatch
  BY <1>9 DEF Dispatch
<1>10. CASE DispatchNoMedia
  <2>1. /\ Len(queue') = Len(queue) - 1 /\ Front' = Front + 1
        /\ \A i \in 1..Len(queue') : queue'[i] = Front + 1 + i
    BY <1>10, HeadOfQueue DEF DispatchNoMedia
  <2>2. current = 0 /\ current' = 0 /\ answered' = 1..(Front + 1)
    <3>1. current = 0 /\ Front \in Nat
      BY <1>10 DEF DispatchNoMedia
    <3>2. PICK c \in Command : c = Head(queue) /\ c = Front + 1
      BY <1>10, HeadOfQueue DEF DispatchNoMedia
    <3>3. current' = 0 /\ answered' = answered \cup {c}
      BY <1>10, <3>2, Zenon DEF DispatchNoMedia, Complete
    <3>4. answered = 1..Front
      BY <3>1
    <3>5. 1..(Front + 1) = (1..Front) \cup {Front + 1}
      BY <3>1, OneMore
    <3>6. QED
      BY <3>1, <3>2, <3>3, <3>4, <3>5
  <2>3. queued' = queued /\ Len(queue) \in Nat
    BY <1>10 DEF DispatchNoMedia
  <2>4. Len(queue') <= queued'
    BY <2>1, <2>3
  <2>5. /\ \A i \in 1..Len(queue') : queue'[i] = Front' + i
        /\ answered' = 1..(IF current' = 0 THEN Front' ELSE Front' - 1)
    BY <2>1, <2>2
  <2>6. QED
    BY <2>2, <2>4, <2>5
<1>11. CASE Issue
  BY <1>11 DEF Issue, PrepareDataTx, Return
<1>12. CASE StartFails
  BY <1>12 DEF StartFails, Complete
<1>13. CASE ServiceSpurious
  BY <1>13 DEF ServiceSpurious, Acknowledge, Return
<1>14. CASE ServiceFails
  BY <1>14 DEF ServiceFails, Acknowledge, Complete
<1>15. CASE ServiceSucceeds
  BY <1>15 DEF ServiceSucceeds, Acknowledge, Complete, CopyBack
<1>16. CASE ServiceWaits
  BY <1>16 DEF ServiceWaits, Acknowledge, Return, CopyBack
<1>17. CASE WatchNothing
  BY <1>17 DEF WatchNothing
<1>18. CASE WatchAgain
  BY <1>18 DEF WatchAgain, Expired
<1>19. CASE WatchTimesOut
  BY <1>19 DEF WatchTimesOut, Complete
<1>20. CASE HandleInterrupt
  BY <1>20 DEF HandleInterrupt
<1>21. CASE WatchdogFires
  BY <1>21 DEF WatchdogFires
<1>22. CASE TimerExpires
  BY <1>22 DEF TimerExpires
<1>23. CASE HwResponds
  BY <1>23 DEF HwResponds, Latch
<1>24. CASE HwBoundary
  BY <1>24 DEF HwBoundary, Latch
<1>25. CASE HwTransfers
  BY <1>25 DEF HwTransfers, Latch
<1>26. CASE HwFails
  BY <1>26 DEF HwFails, Latch
<1>27. CASE CardMovesInOrOut
  BY <1>27 DEF CardMovesInOrOut
<1>28. QED
  BY <1>1, <1>2, <1>3, <1>4, <1>5, <1>6, <1>7, <1>8, <1>9, <1>10, <1>11, <1>12,
     <1>13, <1>14, <1>15, <1>16, <1>17, <1>18, <1>19, <1>20, <1>21, <1>22,
     <1>23, <1>24, <1>25, <1>26, <1>27
     DEF Next, Client, GateStep, Controller

(* Every step leaves the gate where the current command lets it be.        *)
LEMMA GateStepInv == IInv /\ [Next]_vars => GateInv'
<1> SUFFICES ASSUME IInv, [Next]_vars PROVE GateInv'
  OBVIOUS
<1> USE CommandsAssumption DEF IInv, GateInv, TypeOK, clientVars, answerVars,
        gateVars, timerVars, hwVars, cardVars
<1>1. CASE UNCHANGED vars
  BY <1>1 DEF vars
<1>2. CASE \E k \in InitKind : InitSend(k)
  BY <1>2 DEF InitSend, Execute, Enqueue
<1>3. CASE InitNoCard
  BY <1>3 DEF InitNoCard
<1>4. CASE InitAnswered
  BY <1>4 DEF InitAnswered
<1>5. CASE \E k \in DataKind : ReadWrite(k)
  BY <1>5 DEF ReadWrite, Execute, Enqueue
<1>6. CASE \E k \in DataKind : CallbackSubmits(k)
  BY <1>6 DEF CallbackSubmits, Enqueue
<1>7. CASE CallbackReturns
  BY <1>7 DEF CallbackReturns
<1>8. CASE DispatchNothing
  BY <1>8 DEF DispatchNothing, Return
<1>9. CASE Dispatch
  <2>1. Head(queue) # 0
    BY <1>9, HeadOfQueue DEF Dispatch, Command
  <2>2. QED
    BY <1>9, <2>1 DEF Dispatch
<1>10. CASE DispatchNoMedia
  BY <1>10 DEF DispatchNoMedia, Complete
<1>11. CASE Issue
  BY <1>11 DEF Issue, PrepareDataTx, Return
<1>12. CASE StartFails
  BY <1>12 DEF StartFails, Complete
<1>13. CASE ServiceSpurious
  BY <1>13 DEF ServiceSpurious, Acknowledge, Return
<1>14. CASE ServiceFails
  BY <1>14 DEF ServiceFails, Acknowledge, Complete
<1>15. CASE ServiceSucceeds
  BY <1>15 DEF ServiceSucceeds, Acknowledge, Complete, CopyBack
<1>16. CASE ServiceWaits
  BY <1>16 DEF ServiceWaits, Acknowledge, Return, CopyBack
<1>17. CASE WatchNothing
  BY <1>17 DEF WatchNothing
<1>18. CASE WatchAgain
  BY <1>18 DEF WatchAgain, Expired
<1>19. CASE WatchTimesOut
  BY <1>19 DEF WatchTimesOut, Complete
<1>20. CASE HandleInterrupt
  BY <1>20 DEF HandleInterrupt
<1>21. CASE WatchdogFires
  BY <1>21 DEF WatchdogFires
<1>22. CASE TimerExpires
  BY <1>22 DEF TimerExpires
<1>23. CASE HwResponds
  BY <1>23 DEF HwResponds, Latch
<1>24. CASE HwBoundary
  BY <1>24 DEF HwBoundary, Latch
<1>25. CASE HwTransfers
  BY <1>25 DEF HwTransfers, Latch
<1>26. CASE HwFails
  BY <1>26 DEF HwFails, Latch
<1>27. CASE CardMovesInOrOut
  BY <1>27 DEF CardMovesInOrOut
<1>28. QED
  BY <1>1, <1>2, <1>3, <1>4, <1>5, <1>6, <1>7, <1>8, <1>9, <1>10, <1>11, <1>12,
     <1>13, <1>14, <1>15, <1>16, <1>17, <1>18, <1>19, <1>20, <1>21, <1>22,
     <1>23, <1>24, <1>25, <1>26, <1>27
     DEF Next, Client, GateStep, Controller

(* No step leaves an issued command without a watch.                       *)
LEMMA WatchedStep == IInv /\ [Next]_vars => Watched'
<1> SUFFICES ASSUME IInv, [Next]_vars PROVE Watched'
  OBVIOUS
<1> USE CommandsAssumption DEF IInv, Watched, Issued, TypeOK, GateInv,
        clientVars, answerVars, gateVars, timerVars, hwVars, cardVars
<1>1. CASE UNCHANGED vars
  BY <1>1 DEF vars
<1>2. CASE \E k \in InitKind : InitSend(k)
  BY <1>2 DEF InitSend, Execute, Enqueue
<1>3. CASE InitNoCard
  BY <1>3 DEF InitNoCard
<1>4. CASE InitAnswered
  BY <1>4 DEF InitAnswered
<1>5. CASE \E k \in DataKind : ReadWrite(k)
  BY <1>5 DEF ReadWrite, Execute, Enqueue
<1>6. CASE \E k \in DataKind : CallbackSubmits(k)
  BY <1>6 DEF CallbackSubmits, Enqueue
<1>7. CASE CallbackReturns
  BY <1>7 DEF CallbackReturns
<1>8. CASE DispatchNothing
  BY <1>8 DEF DispatchNothing, Return
<1>9. CASE Dispatch
  BY <1>9 DEF Dispatch
<1>10. CASE DispatchNoMedia
  BY <1>10 DEF DispatchNoMedia, Complete
<1>11. CASE Issue
  BY <1>11 DEF Issue, PrepareDataTx, Return
<1>12. CASE StartFails
  BY <1>12 DEF StartFails, Complete
<1>13. CASE ServiceSpurious
  BY <1>13 DEF ServiceSpurious, Acknowledge, Return
<1>14. CASE ServiceFails
  BY <1>14 DEF ServiceFails, Acknowledge, Complete
<1>15. CASE ServiceSucceeds
  BY <1>15 DEF ServiceSucceeds, Acknowledge, Complete, CopyBack
<1>16. CASE ServiceWaits
  BY <1>16 DEF ServiceWaits, Acknowledge, Return, CopyBack
<1>17. CASE WatchNothing
  BY <1>17 DEF WatchNothing
<1>18. CASE WatchAgain
  BY <1>18 DEF WatchAgain, Expired
<1>19. CASE WatchTimesOut
  BY <1>19 DEF WatchTimesOut, Complete
<1>20. CASE HandleInterrupt
  BY <1>20 DEF HandleInterrupt
<1>21. CASE WatchdogFires
  BY <1>21 DEF WatchdogFires
<1>22. CASE TimerExpires
  BY <1>22 DEF TimerExpires
<1>23. CASE HwResponds
  BY <1>23 DEF HwResponds, Latch
<1>24. CASE HwBoundary
  BY <1>24 DEF HwBoundary, Latch
<1>25. CASE HwTransfers
  BY <1>25 DEF HwTransfers, Latch
<1>26. CASE HwFails
  BY <1>26 DEF HwFails, Latch
<1>27. CASE CardMovesInOrOut
  BY <1>27 DEF CardMovesInOrOut
<1>28. QED
  BY <1>1, <1>2, <1>3, <1>4, <1>5, <1>6, <1>7, <1>8, <1>9, <1>10, <1>11, <1>12,
     <1>13, <1>14, <1>15, <1>16, <1>17, <1>18, <1>19, <1>20, <1>21, <1>22,
     <1>23, <1>24, <1>25, <1>26, <1>27
     DEF Next, Client, GateStep, Controller

(* Nor about the controller's command.                                     *)
LEMMA EnqueueController ==
  ASSUME TypeOK, QueueInv, ControllerInv, NEW k, Enqueue(k),
         UNCHANGED <<hw, phase, finished, buffer, current>>, Issued' => Issued
  PROVE  ControllerInv'
<1>1. /\ Front' = Front /\ Front \in Nat
      /\ \A c \in 1..Front : kind'[c] = kind[c]
  BY EnqueueKeeps DEF TypeOK, QueueInv, Front
<1>2. hw \in Nat /\ phase \in {"idle", "cmd", "data", "boundary", "stuck"}
  BY DEF TypeOK
<1>3. hw # 0 => kind'[hw] = kind[hw]
  BY <1>1, <1>2 DEF ControllerInv
<1>4. WritesOwnData'
  BY <1>3 DEF ControllerInv, WritesOwnData
<1>5. QED
  BY <1>1, <1>4 DEF ControllerInv

(* The controller only ever has the current command or none.               *)
LEMMA ControllerStep == IInv /\ [Next]_vars => ControllerInv'
<1> SUFFICES ASSUME IInv, [Next]_vars PROVE ControllerInv'
  OBVIOUS
<1> USE CommandsAssumption DEF IInv, ControllerInv, QueueInv, GateInv, TypeOK,
        Front, Issued, WritesOwnData, HasData, Command, DataKind, InitKind,
        clientVars, answerVars, gateVars, timerVars, hwVars, cardVars
<1>1. CASE UNCHANGED vars
  BY <1>1 DEF vars
<1>2. CASE \E k \in InitKind : InitSend(k)
  <2>1. PICK k : Enqueue(k)
    BY <1>2 DEF InitSend, Execute
  <2>2. UNCHANGED <<hw, phase, finished, buffer, current>> /\ (Issued' => Issued)
    BY <1>2 DEF InitSend, Execute
  <2>3. QED
    BY ONLY <2>1, <2>2, EnqueueController, IInv DEF IInv
<1>3. CASE InitNoCard
  BY <1>3 DEF InitNoCard
<1>4. CASE InitAnswered
  BY <1>4 DEF InitAnswered
<1>5. CASE \E k \in DataKind : ReadWrite(k)
  <2>1. PICK k : Enqueue(k)
    BY <1>5 DEF ReadWrite, Execute
  <2>2. UNCHANGED <<hw, phase, finished, buffer, current>> /\ (Issued' => Issued)
    BY <1>5 DEF ReadWrite, Execute
  <2>3. QED
    BY ONLY <2>1, <2>2, EnqueueController, IInv DEF IInv
<1>6. CASE \E k \in DataKind : CallbackSubmits(k)
  <2>1. PICK k : Enqueue(k)
    BY <1>6 DEF CallbackSubmits
  <2>2. UNCHANGED <<hw, phase, finished, buffer, current>> /\ (Issued' => Issued)
    BY <1>6 DEF CallbackSubmits
  <2>3. QED
    BY ONLY <2>1, <2>2, EnqueueController, IInv DEF IInv
<1>7. CASE CallbackReturns
  BY <1>7 DEF CallbackReturns
<1>8. CASE DispatchNothing
  BY <1>8 DEF DispatchNothing, Return
<1>9. CASE Dispatch
  BY <1>9 DEF Dispatch
<1>10. CASE DispatchNoMedia
  BY <1>10 DEF DispatchNoMedia, Complete
<1>11. CASE Issue
  BY <1>11 DEF Issue, PrepareDataTx, Return
<1>12. CASE StartFails
  BY <1>12 DEF StartFails, Complete
<1>13. CASE ServiceSpurious
  BY <1>13 DEF ServiceSpurious, Acknowledge, Return
<1>14. CASE ServiceFails
  BY <1>14 DEF ServiceFails, Acknowledge, Complete
<1>15. CASE ServiceSucceeds
  BY <1>15 DEF ServiceSucceeds, Acknowledge, Complete, CopyBack
<1>16. CASE ServiceWaits
  BY <1>16 DEF ServiceWaits, Acknowledge, Return, CopyBack
<1>17. CASE WatchNothing
  BY <1>17 DEF WatchNothing
<1>18. CASE WatchAgain
  BY <1>18 DEF WatchAgain, Expired
<1>19. CASE WatchTimesOut
  BY <1>19 DEF WatchTimesOut, Complete
<1>20. CASE HandleInterrupt
  BY <1>20 DEF HandleInterrupt
<1>21. CASE WatchdogFires
  BY <1>21 DEF WatchdogFires
<1>22. CASE TimerExpires
  BY <1>22 DEF TimerExpires
<1>23. CASE HwResponds
  BY <1>23 DEF HwResponds, Latch
<1>24. CASE HwBoundary
  BY <1>24 DEF HwBoundary, Latch
<1>25. CASE HwTransfers
  BY <1>25 DEF HwTransfers, Latch
<1>26. CASE HwFails
  BY <1>26 DEF HwFails, Latch
<1>27. CASE CardMovesInOrOut
  BY <1>27 DEF CardMovesInOrOut
<1>28. QED
  BY <1>1, <1>2, <1>3, <1>4, <1>5, <1>6, <1>7, <1>8, <1>9, <1>10, <1>11, <1>12,
     <1>13, <1>14, <1>15, <1>16, <1>17, <1>18, <1>19, <1>20, <1>21, <1>22,
     <1>23, <1>24, <1>25, <1>26, <1>27
     DEF Next, Client, GateStep, Controller

(* Every step keeps the status register about the current command.         *)
LEMMA StatusStep == IInv /\ [Next]_vars => StatusInv'
<1> SUFFICES ASSUME IInv, [Next]_vars PROVE StatusInv'
  OBVIOUS
<1> USE CommandsAssumption DEF IInv, StatusInv, ControllerInv, QueueInv,
        GateInv, TypeOK, Front, Issued, HasData, Command, DataKind, InitKind,
        clientVars, answerVars, gateVars, timerVars, hwVars, cardVars
<1>1. CASE UNCHANGED vars
  BY <1>1 DEF vars
<1>2. CASE \E k \in InitKind : InitSend(k)
  <2>1. kind'[current] = kind[current]
    BY <1>2 DEF InitSend, Execute, Enqueue
  <2>2. QED
    BY <1>2, <2>1 DEF InitSend, Execute
<1>3. CASE InitNoCard
  BY <1>3 DEF InitNoCard
<1>4. CASE InitAnswered
  BY <1>4 DEF InitAnswered
<1>5. CASE \E k \in DataKind : ReadWrite(k)
  BY <1>5 DEF ReadWrite, Execute, Enqueue
<1>6. CASE \E k \in DataKind : CallbackSubmits(k)
  BY <1>6 DEF CallbackSubmits, Enqueue
<1>7. CASE CallbackReturns
  BY <1>7 DEF CallbackReturns
<1>8. CASE DispatchNothing
  BY <1>8 DEF DispatchNothing, Return
<1>9. CASE Dispatch
  BY <1>9 DEF Dispatch
<1>10. CASE DispatchNoMedia
  BY <1>10 DEF DispatchNoMedia, Complete
<1>11. CASE Issue
  BY <1>11 DEF Issue, PrepareDataTx, Return
<1>12. CASE StartFails
  BY <1>12 DEF StartFails, Complete
<1>13. CASE ServiceSpurious
  BY <1>13 DEF ServiceSpurious, Acknowledge, Return
<1>14. CASE ServiceFails
  BY <1>14 DEF ServiceFails, Acknowledge, Complete
<1>15. CASE ServiceSucceeds
  BY <1>15 DEF ServiceSucceeds, Acknowledge, Complete, CopyBack
<1>16. CASE ServiceWaits
  BY <1>16 DEF ServiceWaits, Acknowledge, Return, CopyBack
<1>17. CASE WatchNothing
  BY <1>17 DEF WatchNothing
<1>18. CASE WatchAgain
  BY <1>18 DEF WatchAgain, Expired
<1>19. CASE WatchTimesOut
  BY <1>19 DEF WatchTimesOut, Complete
<1>20. CASE HandleInterrupt
  BY <1>20 DEF HandleInterrupt
<1>21. CASE WatchdogFires
  BY <1>21 DEF WatchdogFires
<1>22. CASE TimerExpires
  BY <1>22 DEF TimerExpires
<1>23. CASE HwResponds
  BY <1>23 DEF HwResponds, Latch
<1>24. CASE HwBoundary
  BY <1>24 DEF HwBoundary, Latch
<1>25. CASE HwTransfers
  BY <1>25 DEF HwTransfers, Latch
<1>26. CASE HwFails
  BY <1>26 DEF HwFails, Latch
<1>27. CASE CardMovesInOrOut
  BY <1>27 DEF CardMovesInOrOut
<1>28. QED
  BY <1>1, <1>2, <1>3, <1>4, <1>5, <1>6, <1>7, <1>8, <1>9, <1>10, <1>11, <1>12,
     <1>13, <1>14, <1>15, <1>16, <1>17, <1>18, <1>19, <1>20, <1>21, <1>22,
     <1>23, <1>24, <1>25, <1>26, <1>27
     DEF Next, Client, GateStep, Controller

(* A success keeps its meaning while the callback runs.                    *)
LEMMA AnswerStep == IInv /\ [Next]_vars => AnswerInv'
<1> SUFFICES ASSUME IInv, [Next]_vars PROVE AnswerInv'
  OBVIOUS
<1> USE CommandsAssumption DEF IInv, AnswerInv, SuccessIsReal, StatusInv,
        ControllerInv, QueueInv, GateInv, TypeOK, Front, Issued, HasData,
        Command, DataKind, InitKind, Succeeds, Fails, InData, DataReady, Bits,
        clientVars, answerVars, gateVars, timerVars, hwVars, cardVars
<1>1. CASE UNCHANGED vars
  BY <1>1 DEF vars
<1>2. CASE \E k \in InitKind : InitSend(k)
  BY <1>2 DEF InitSend, Execute, Enqueue
<1>3. CASE InitNoCard
  BY <1>3 DEF InitNoCard
<1>4. CASE InitAnswered
  BY <1>4 DEF InitAnswered
<1>5. CASE \E k \in DataKind : ReadWrite(k)
  BY <1>5 DEF ReadWrite, Execute, Enqueue
<1>6. CASE \E k \in DataKind : CallbackSubmits(k)
  BY <1>6 DEF CallbackSubmits, Enqueue
<1>7. CASE CallbackReturns
  BY <1>7 DEF CallbackReturns
<1>8. CASE DispatchNothing
  BY <1>8 DEF DispatchNothing, Return
<1>9. CASE Dispatch
  BY <1>9 DEF Dispatch
<1>10. CASE DispatchNoMedia
  BY <1>10 DEF DispatchNoMedia, Complete
<1>11. CASE Issue
  BY <1>11 DEF Issue, PrepareDataTx, Return
<1>12. CASE StartFails
  BY <1>12 DEF StartFails, Complete
<1>13. CASE ServiceSpurious
  BY <1>13 DEF ServiceSpurious, Acknowledge, Return
<1>14. CASE ServiceFails
  BY <1>14 DEF ServiceFails, Acknowledge, Complete
<1>15. CASE ServiceSucceeds
  BY <1>15 DEF ServiceSucceeds, Acknowledge, Complete, CopyBack
<1>16. CASE ServiceWaits
  BY <1>16 DEF ServiceWaits, Acknowledge, Return, CopyBack
<1>17. CASE WatchNothing
  BY <1>17 DEF WatchNothing
<1>18. CASE WatchAgain
  BY <1>18 DEF WatchAgain, Expired
<1>19. CASE WatchTimesOut
  BY <1>19 DEF WatchTimesOut, Complete
<1>20. CASE HandleInterrupt
  BY <1>20 DEF HandleInterrupt
<1>21. CASE WatchdogFires
  BY <1>21 DEF WatchdogFires
<1>22. CASE TimerExpires
  BY <1>22 DEF TimerExpires
<1>23. CASE HwResponds
  BY <1>23 DEF HwResponds, Latch
<1>24. CASE HwBoundary
  BY <1>24 DEF HwBoundary, Latch
<1>25. CASE HwTransfers
  BY <1>25 DEF HwTransfers, Latch
<1>26. CASE HwFails
  BY <1>26 DEF HwFails, Latch
<1>27. CASE CardMovesInOrOut
  BY <1>27 DEF CardMovesInOrOut
<1>28. QED
  BY <1>1, <1>2, <1>3, <1>4, <1>5, <1>6, <1>7, <1>8, <1>9, <1>10, <1>11, <1>12,
     <1>13, <1>14, <1>15, <1>16, <1>17, <1>18, <1>19, <1>20, <1>21, <1>22,
     <1>23, <1>24, <1>25, <1>26, <1>27
     DEF Next, Client, GateStep, Controller

(* The invariant holds of every behaviour.                                *)
THEOREM Invariance == Spec => []IInv
<1>1. IInv /\ [Next]_vars => IInv'
  BY TypeStep, QueueStep, GateStepInv, WatchedStep, ControllerStep, StatusStep,
     AnswerStep DEF IInv
<1>2. QED
  BY InitIInv, <1>1, PTL DEF Spec

(* The variables keep their types, however many commands are queued and    *)
(* however deep callbacks nest.                                            *)
THEOREM TypeCorrect == Spec => []TypeOK
<1>1. IInv => TypeOK
  BY DEF IInv
<1>2. QED
  BY Invariance, <1>1, PTL

(* No command is lost, dispatched twice or answered twice when a callback  *)
(* enters dispatchNext again.                                              *)
THEOREM EachInOnePlace == Spec => []OnePlaceEach
<1>1. IInv => OnePlaceEach
  <2> SUFFICES ASSUME IInv, NEW c \in 1..queued
               PROVE  LET waits == \E i \in DOMAIN queue : queue[i] = c
                      IN  CASE c \in answered -> ~waits /\ current # c
                            [] current = c   -> ~waits
                            [] OTHER         -> waits
    BY DEF OnePlaceEach
  <2>1. queued \in Nat /\ Len(queue) \in Nat /\ DOMAIN queue = 1..Len(queue) /\ Front \in Nat
    BY DEF IInv, TypeOK, QueueInv, Front
  <2>2. \A i \in DOMAIN queue : queue[i] > Front
    BY <2>1 DEF IInv, QueueInv
  <2>3. CASE c > Front
    <3>1. c - Front \in DOMAIN queue /\ queue[c - Front] = c
      BY <2>1, <2>3 DEF IInv, QueueInv, Front
    <3>2. c \notin answered /\ current # c
      BY <2>1, <2>3 DEF IInv, QueueInv
    <3>3. QED
      BY <3>1, <3>2
  <2>4. CASE c <= Front
    <3>1. ~\E i \in DOMAIN queue : queue[i] = c
      BY <2>1, <2>2, <2>4
    <3>2. c \in answered \/ current = c
      BY <2>1, <2>4 DEF IInv, QueueInv
    <3>3. c \in answered => current # c
      BY <2>1, <2>4 DEF IInv, QueueInv
    <3>4. QED
      BY <3>1, <3>2, <3>3
  <2>5. QED
    BY <2>1, <2>3, <2>4
<1>2. QED
  BY Invariance, <1>1, PTL

(* Commands are answered in the order they were queued.                    *)
THEOREM InOrder == Spec => []AnsweredInOrder
<1>1. IInv => AnsweredInOrder
  BY DEF IInv, TypeOK, QueueInv, Front, AnsweredInOrder
<1>2. QED
  BY Invariance, <1>1, PTL

(* No command is advanced by what a predecessor left in the status         *)
(* register, also after a timeout whose reset failed.                      *)
THEOREM OwnStatus == Spec => []StatusIsOwn
<1>1. IInv => StatusIsOwn
  BY DEF IInv, StatusInv, GateInv, Issued, StatusIsOwn
<1>2. QED
  BY Invariance, <1>1, PTL

(* Success means the controller did the command and a read has its data,   *)
(* and a write in the controller finds its own data in the double buffer.  *)
THEOREM OwnData == Spec => []DataIsOwn
<1>1. IInv => DataIsOwn
  BY DEF IInv, AnswerInv, ControllerInv, DataIsOwn
<1>2. QED
  BY Invariance, <1>1, PTL

(* A command in the controller is always watched by the timer.             *)
THEOREM AlwaysWatched == Spec => []NeverUnwatched
<1>1. IInv => NeverUnwatched
  BY DEF IInv, Watched, GateInv, Issued, NeverUnwatched
<1>2. QED
  BY Invariance, <1>1, PTL
=============================================================================
